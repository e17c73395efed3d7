---------------------------- MODULE CoopMeshProofs ----------------------------
(***************************************************************************)
(* Proofs about CoopMesh: what a node follows shares a key with it, has an *)
(* event stream, and is not connected as mainnet as well; for any nodes,   *)
(* keys, contacts and failures.                                            *)
(***************************************************************************)
EXTENDS CoopMesh, TLAPS

-----------------------------------------------------------------------------
Had(n) == keys[n] \cup gone[n]

(* What n knows of the keys of m was true once. *)
KnowsOf(n, m) ==
    /\ check[<<n, m>>].keys \subseteq Had(m)
    /\ \A res \in cache[<<n, m>>] : res.keys \subseteq Had(m)
    /\ \A K \in keyMap[<<n, m>>] : K \subseteq Had(m) /\ K \cap Had(n) # {}

(* What a check of m by n has made sure of, by the step it is at. *)
CheckKnows(n, m) ==
    /\ check[<<n, m>>].step # "idle" => n # m
    /\ check[<<n, m>>].step \in {"list", "event"} =>
        /\ check[<<n, m>>].keys \cap Had(n) # {}
        /\ mes[<<n, m>>] = "none"
    /\ check[<<n, m>>].step = "event" => es[<<n, m>>] # "none"

(* An EventSource of links is made by a check that shares a key, and the check waits
   for it: there is none left connecting when a following is recorded. *)
StreamIsShared(n, m) ==
    /\ es[<<n, m>>] # "none" => n # m /\ Had(n) \cap Had(m) # {}
    /\ es[<<n, m>>] \in Unconnected => check[<<n, m>>].step = "event"
    /\ keyMap[<<n, m>>] # {} => es[<<n, m>>] # "none"

(* A node that has removed no key makes one EventSource of another: it is recorded
   when the check ends, and no check of what is followed begins. *)
FollowsOnce(n, m) ==
    gone[n] = {} =>
        /\ keyMap[<<n, m>>] # {} => check[<<n, m>>].step = "idle"
        /\ es[<<n, m>>] # "none" =>
            /\ mes[<<n, m>>] = "none"
            /\ check[<<n, m>>].step = "event" \/ keyMap[<<n, m>>] # {}

PairInv(n, m) ==
    KnowsOf(n, m) /\ CheckKnows(n, m) /\ StreamIsShared(n, m) /\ FollowsOnce(n, m)

MeshInv == TypeOK /\ \A n, m \in Nodes : PairInv(n, m)

-----------------------------------------------------------------------------
CheckState == [step: {"idle", "ask", "answered", "fetched", "list", "event", "mainnet"},
               keys: SUBSET Keys]

ReadyStates == {"none", "connecting", "failed", "open", "closed"}

(* What begin may do to the check of m by n. *)
Begins(c, d, n, m) ==
    /\ n # m /\ ~isFollowing(n, m)
    /\ c[<<n, m>>].step = "idle"
    /\ d[<<n, m>>] = [step |-> "ask", keys |-> {}]

LEMMA BeginOne ==
    ASSUME NEW c \in [Pairs -> CheckState], NEW x \in Nodes, NEW y \in Nodes,
           NEW d, d = begin(c, x, y)
    PROVE  /\ d \in [Pairs -> CheckState]
           /\ \A n, m \in Nodes : d[<<n, m>>] = c[<<n, m>>] \/ Begins(c, d, n, m)
<1> DEFINE began == [c EXCEPT ![<<x, y>>] = [step |-> "ask", keys |-> {}]]
<1>1. <<x, y>> \in Pairs /\ [step |-> "ask", keys |-> {}] \in CheckState
  BY DEF Pairs, CheckState
<1>2. /\ began \in [Pairs -> CheckState]
      /\ began[<<x, y>>] = [step |-> "ask", keys |-> {}]
      /\ \A n, m \in Nodes : <<n, m>> # <<x, y>> => began[<<n, m>>] = c[<<n, m>>]
  BY <1>1 DEF Pairs
<1> HIDE DEF began
<1>3. CASE x # y /\ ~isFollowing(x, y) /\ c[<<x, y>>].step = "idle"
  <2>1. d = began
    BY <1>3 DEF begin, began
  <2> QED BY <2>1, <1>2, <1>3 DEF Begins
<1>4. CASE ~(x # y /\ ~isFollowing(x, y) /\ c[<<x, y>>].step = "idle")
  BY <1>4 DEF begin
<1> QED BY <1>3, <1>4

(* What it is to set the step of one check. *)
LEMMA StepOne ==
    ASSUME NEW c \in [Pairs -> CheckState], NEW p \in Pairs,
           NEW s \in {"answered", "fetched", "list", "event", "mainnet"}
    PROVE  /\ [c EXCEPT ![p].step = s] \in [Pairs -> CheckState]
           /\ [c EXCEPT ![p].step = s] = [c EXCEPT ![p] = [step |-> s, keys |-> c[p].keys]]
<1>1. c[p] = [step |-> c[p].step, keys |-> c[p].keys]
  BY DEF CheckState
<1>2. [c[p] EXCEPT !.step = s] = [step |-> s, keys |-> c[p].keys]
  BY <1>1
<1>3. [c[p] EXCEPT !.step = s] \in CheckState
  BY <1>2 DEF CheckState
<1> QED BY <1>2, <1>3

(* The types of the events that a node sends. *)
LEMMA MessagesTyped ==
    ASSUME NEW n \in Nodes, NEW ev \in Event
    PROVE  messages(n, ev) \subseteq Message
<1>1. ASSUME NEW m \in Nodes, NEW kind \in {"follow", "mainnet"}
      PROVE  [stream |-> kind, from |-> n, to |-> m, ev |-> ev] \in Message
  BY DEF Message
<1> QED BY <1>1 DEF messages

LEMMA TypeStart == Init => TypeOK
BY MeshAssumption DEF MeshAssumption, Init, TypeOK, Idle

LEMMA CheckTyped == TypeOK => check \in [Pairs -> CheckState]
BY DEF TypeOK, CheckState

-----------------------------------------------------------------------------
(* What most steps do to the EventSources, the mainnet EventSources and the check of
   a pair: none leaves a check at list or event, or makes an EventSource of links. *)
QuietSource(n, m) ==
    \/ es'[<<n, m>>] = es[<<n, m>>]
    \/ es[<<n, m>>] # "none" /\ es'[<<n, m>>] \in {"open", "closed"}
    \/ es[<<n, m>>] = "connecting" /\ es'[<<n, m>>] = "failed"

GoesOn(n, m) ==
    /\ check[<<n, m>>].step \notin {"idle", "event"}
    /\ check'[<<n, m>>].step \notin {"list", "event"}
    /\ check'[<<n, m>>].keys \subseteq Had(m)

QuietCheck(n, m) ==
    check'[<<n, m>>] = check[<<n, m>>] \/ Begins(check, check', n, m) \/ GoesOn(n, m)

QuietMainnet(n, m) ==
    mes'[<<n, m>>] \in {mes[<<n, m>>], "none"} \/ mes[<<n, m>>] # "none" \/ GoesOn(n, m)

Quiet(n, m) ==
    /\ keyMap'[<<n, m>>] = keyMap[<<n, m>>]
    /\ \A res \in cache'[<<n, m>>] : res.keys \subseteq Had(m)
    /\ QuietSource(n, m) /\ QuietCheck(n, m) /\ QuietMainnet(n, m)

(* Knowledge lasts: a key that is removed was had. *)
NothingForgotten == \A n \in Nodes : Had(n) \subseteq Had(n)' /\ gone[n] \subseteq gone'[n]

LEMMA QuietKeepsPair ==
    ASSUME NEW n \in Nodes, NEW m \in Nodes, PairInv(n, m), Quiet(n, m), NothingForgotten
    PROVE  PairInv(n, m)'
<1>1. /\ Had(m) \subseteq Had(m)' /\ Had(n) \subseteq Had(n)'
      /\ gone'[n] = {} => gone[n] = {}
  BY DEF NothingForgotten
<1>2. KnowsOf(n, m)'
  BY <1>1 DEF PairInv, Quiet, QuietCheck, Begins, GoesOn, KnowsOf, Had
<1>3. CheckKnows(n, m)'
  BY <1>1 DEF PairInv, Quiet, QuietCheck, QuietSource, QuietMainnet, Begins, GoesOn, CheckKnows, Had
<1>4. StreamIsShared(n, m)'
  BY <1>1 DEF PairInv, Quiet, QuietCheck, QuietSource, Begins, GoesOn, CheckKnows, StreamIsShared, Had, Unconnected
<1>5. FollowsOnce(n, m)'
  <2>1. gone[n] = {} /\ keyMap[<<n, m>>] # {} => isFollowing(n, m)
    BY DEF PairInv, KnowsOf, isFollowing, Had
  <2> QED BY <1>1, <2>1 DEF PairInv, Quiet, QuietCheck, QuietSource, QuietMainnet, Begins, GoesOn,
                            FollowsOnce, StreamIsShared, CheckKnows
<1> QED BY <1>2, <1>3, <1>4, <1>5 DEF PairInv

-----------------------------------------------------------------------------
(* One type lemma per group of actions: by the variables that they change. *)
LEMMA CheckStepTyped ==
    ASSUME TypeOK, NEW n \in Nodes, NEW m \in Nodes, CheckStep(n, m)
    PROVE  TypeOK'
<1> USE DEF TypeOK, ReadyStates
<1>1. check \in [Pairs -> CheckState] /\ <<n, m>> \in Pairs
  BY CheckTyped DEF Pairs
<1>2. CASE FetchKeys(n, m)
  <2> DEFINE answered == [check EXCEPT ![<<n, m>>] = [step |-> "answered", keys |-> keys[m]]]
  <2>1. answered \in [Pairs -> CheckState]
    BY <1>1 DEF CheckState
  <2>2. check' = begin(answered, m, n)
    BY <1>2 DEF FetchKeys
  <2> HIDE DEF answered
  <2>3. check' \in [Pairs -> CheckState]
    BY <2>1, <2>2, BeginOne
  <2> QED BY <2>3, <1>2 DEF FetchKeys, CheckState
<1>3. CASE CacheKeys(n, m)
  <2>1. check' \in [Pairs -> CheckState]
    BY <1>1, <1>3, StepOne DEF CacheKeys
  <2>2. [ok |-> TRUE, keys |-> check[<<n, m>>].keys] \in Answer
    BY <1>1 DEF CheckState, Answer
  <2> QED BY <2>1, <2>2, <1>1, <1>3, ZenonT(40) DEF CacheKeys, CheckState
<1>4. CASE CachedKeys(n, m)
  <2>1. PICK res \in cache[<<n, m>>] :
            check' = [check EXCEPT ![<<n, m>>] =
                IF res.ok THEN [step |-> "fetched", keys |-> res.keys] ELSE Idle]
    BY <1>4 DEF CachedKeys
  <2>2. [step |-> "fetched", keys |-> res.keys] \in CheckState /\ Idle \in CheckState
    BY <1>1 DEF CheckState, Idle, Answer
  <2>3. check' \in [Pairs -> CheckState]
    BY <1>1, <2>1, <2>2
  <2> QED BY <2>3, <1>4 DEF CachedKeys, CheckState
<1>5. CASE DecideMainnet(n, m)
  <2>1. [check EXCEPT ![<<n, m>>].step = "mainnet"] \in [Pairs -> CheckState]
    BY <1>1, StepOne
  <2>2. [check EXCEPT ![<<n, m>>] = Idle] \in [Pairs -> CheckState]
    BY <1>1 DEF Idle, CheckState
  <2>3. check' \in [Pairs -> CheckState]
    BY <1>5, <2>1, <2>2 DEF DecideMainnet
  <2>4. mes' \in [Pairs -> ReadyStates]
    BY <1>1, <1>5 DEF DecideMainnet
  <2> QED BY <2>3, <2>4, <1>5 DEF DecideMainnet, CheckState
<1>6. CASE DecideFollow(n, m)
  <2>1. [check EXCEPT ![<<n, m>>].step = "list"] \in [Pairs -> CheckState]
    BY <1>1, StepOne
  <2>2. [check EXCEPT ![<<n, m>>] = Idle] \in [Pairs -> CheckState]
    BY <1>1 DEF Idle, CheckState
  <2>3. check' \in [Pairs -> CheckState]
    BY <1>6, <2>1, <2>2 DEF DecideFollow
  <2>4. mes' \in [Pairs -> ReadyStates] /\ sent' \subseteq sent
    BY <1>1, <1>6 DEF DecideFollow, leaveMainnet
  <2> QED BY <2>3, <2>4, <1>6 DEF DecideFollow, CheckState
<1>7. CASE FetchList(n, m)
  <2> DEFINE listed == [check EXCEPT ![<<n, m>>].step = "event"]
  <2>1. listed \in [Pairs -> CheckState]
    BY <1>1, StepOne
  <2>2. check' = begin(listed, m, n)
    BY <1>7 DEF FetchList
  <2> HIDE DEF listed
  <2>3. check' \in [Pairs -> CheckState]
    BY <2>1, <2>2, BeginOne
  <2> QED BY <2>3, <1>1, <1>7 DEF FetchList, CheckState
<1>8. CASE FetchEvent(n, m)
  <2>1. check' \in [Pairs -> CheckState]
    BY <1>1, <1>8, BeginOne DEF FetchEvent
  <2> QED BY <2>1, <1>1, <1>8 DEF FetchEvent, CheckState
<1>9. CASE FetchMainnetEvent(n, m)
  <2>1. check' \in [Pairs -> CheckState]
    BY <1>1, <1>9, BeginOne DEF FetchMainnetEvent
  <2> QED BY <2>1, <1>1, <1>9 DEF FetchMainnetEvent, CheckState
<1>10. CASE Followed(n, m)
  <2>1. check[<<n, m>>].keys \in SUBSET Keys /\ Idle \in CheckState
    BY <1>1 DEF CheckState, Idle
  <2>2. sent' \subseteq Message
    BY <1>10, MessagesTyped DEF Followed, Event
  <2> QED BY <1>1, <1>10, <2>1, <2>2 DEF Followed, CheckState
<1>11. CASE Connected(n, m)
  <2>1. check[<<n, m>>].keys \in SUBSET Keys /\ Idle \in CheckState
    BY <1>1 DEF CheckState, Idle
  <2>2. sent' \subseteq Message
    BY <1>11, <2>1, MessagesTyped DEF Connected, Event
  <2> QED BY <1>1, <1>11, <2>1, <2>2 DEF Connected, CheckState
<1> QED BY <1>2, <1>3, <1>4, <1>5, <1>6, <1>7, <1>8, <1>9, <1>10, <1>11 DEF CheckStep

LEMMA DeliverTyped ==
    ASSUME TypeOK, NEW msg \in sent, Deliver(msg)
    PROVE  TypeOK'
<1> USE DEF TypeOK, ReadyStates
<1>1. check \in [Pairs -> CheckState]
  BY CheckTyped
<1>2. /\ msg.to \in Nodes /\ msg.ev \in Event
      /\ msg.ev.coop \in Nodes /\ msg.ev.keys \subseteq Keys
      /\ <<msg.to, msg.ev.coop>> \in Pairs
  BY DEF Message, Event, Pairs
<1>3. \A d : d = begin(check, msg.to, msg.ev.coop) => d \in [Pairs -> CheckState]
  BY <1>1, <1>2, BeginOne
<1>4. CASE CoopDetected(msg)
  <2>1. check' \in [Pairs -> CheckState]
    BY <1>3, <1>4 DEF CoopDetected
  <2> QED BY <2>1, <1>4 DEF CoopDetected, CheckState
<1>5. CASE KeyAdded(msg)
  <2>1. check' \in [Pairs -> CheckState]
    BY <1>1, <1>3, <1>5 DEF KeyAdded
  <2>2. sent' \subseteq Message
    BY <1>2, <1>5, MessagesTyped DEF KeyAdded, leaveMainnet
  <2>3. mes' \in [Pairs -> ReadyStates]
    BY <1>2, <1>5 DEF KeyAdded, leaveMainnet
  <2>4. cache' \in [Pairs -> SUBSET Answer]
    BY <1>2, <1>5 DEF KeyAdded
  <2>5. seen' \in [Nodes -> SUBSET (Nodes \X Keys)]
    BY <1>2, <1>5 DEF KeyAdded
  <2> QED BY <2>1, <2>2, <2>3, <2>4, <2>5, <1>5 DEF KeyAdded, CheckState
<1>6. CASE MainnetConnected(msg)
  <2>1. check' \in [Pairs -> CheckState]
    BY <1>1, <1>3, <1>6 DEF MainnetConnected
  <2> QED BY <2>1, <1>2, <1>6 DEF MainnetConnected, CheckState
<1> QED BY <1>4, <1>5, <1>6 DEF Deliver

(* A contact, a new key or a lost one, the age of a cached answer, and failures. *)
LEMMA OutsideTyped ==
    ASSUME TypeOK, NEW n \in Nodes, NEW m \in Nodes, NEW k,
           \/ Contact(n, m) \/ Expire(n, m) \/ CheckFails(n, m) \/ EventFails(n, m)
           \/ Drop(n, m)
           \/ k \in Keys /\ (AddKey(n, k) \/ RemoveKey(n, k))
    PROVE  TypeOK'
<1> USE DEF TypeOK, ReadyStates
<1>1. check \in [Pairs -> CheckState] /\ <<n, m>> \in Pairs
  BY CheckTyped DEF Pairs
<1>2. CASE Contact(n, m)
  <2>1. check' \in [Pairs -> CheckState]
    BY <1>1, <1>2, BeginOne DEF Contact
  <2> QED BY <2>1, <1>2 DEF Contact, CheckState
<1>3. CASE Expire(n, m)
  <2>1. cache' \in [Pairs -> SUBSET Answer]
    BY <1>1, <1>3 DEF Expire
  <2>2. expiries < MaxExpiries /\ expiries' = expiries + 1
    BY <1>3 DEF Expire
  <2>3. expiries' \in 0 .. MaxExpiries
    BY <2>2, MeshAssumption DEF MeshAssumption
  <2> QED BY <2>1, <2>3, <1>3 DEF Expire
<1>4. CASE CheckFails(n, m)
  <2> DEFINE failed == [check EXCEPT ![<<n, m>>] = Idle]
  <2>1. failed \in [Pairs -> CheckState]
    BY <1>1 DEF Idle, CheckState
  <2>2. check' = failed \/ check' = begin(failed, m, n)
    BY <1>4 DEF CheckFails
  <2> HIDE DEF failed
  <2>3. check' \in [Pairs -> CheckState]
    BY <2>1, <2>2, BeginOne
  <2>4. NotCoop \in Answer
    BY DEF NotCoop, Answer
  <2>5. cache' \in [Pairs -> SUBSET Answer]
    <3>1. cache' = cache \/ cache' = [cache EXCEPT ![<<n, m>>] = {NotCoop}]
      BY <1>4 DEF CheckFails
    <3>2. cache \in [Pairs -> SUBSET Answer]
      OBVIOUS
    <3> HIDE DEF TypeOK
    <3> QED BY <3>1, <3>2, <2>4
  <2> QED BY <2>3, <2>5, <1>4 DEF CheckFails, CheckState
<1>5. CASE Drop(n, m)
  BY <1>1, <1>5 DEF Drop
<1>6. CASE k \in Keys /\ AddKey(n, k)
  <2>1. sent' \subseteq Message
    BY <1>6, MessagesTyped DEF AddKey, Event
  <2> QED BY <2>1, <1>6, ZenonT(40) DEF AddKey
<1>7. CASE k \in Keys /\ RemoveKey(n, k)
  <2>1. es' \in [Pairs -> ReadyStates]
    BY <1>7 DEF RemoveKey
  <2>2. /\ keys' \in [Nodes -> SUBSET Keys] /\ gone' \in [Nodes -> SUBSET Keys]
        /\ sent' \subseteq sent
    BY <1>7, ZenonT(40) DEF RemoveKey
  <2> QED BY <2>1, <2>2, <1>7 DEF RemoveKey
<1>8. CASE EventFails(n, m)
  <2>1. check' \in [Pairs -> CheckState]
    BY <1>1, <1>8, BeginOne DEF EventFails
  <2>2. es' \in [Pairs -> ReadyStates] /\ mes' \in [Pairs -> ReadyStates]
    BY <1>8 DEF EventFails, ReadyStates
  <2> QED BY <2>1, <2>2, <1>8 DEF EventFails, CheckState, ReadyStates
<1> QED BY <1>2, <1>3, <1>4, <1>5, <1>6, <1>7, <1>8

-----------------------------------------------------------------------------
(* The pairs that a step of a check of m by n does not concern. *)
LEMMA OthersBegin ==
    ASSUME TypeOK, NEW n \in Nodes, NEW m \in Nodes, NEW v \in CheckState,
           NEW c, c = [check EXCEPT ![<<n, m>>] = v],
           check' = c \/ check' = begin(c, m, n)
    PROVE  /\ \A x, y \in Nodes : <<x, y>> # <<n, m>> => QuietCheck(x, y)
           /\ v.step # "idle" => check'[<<n, m>>] = v
<1>1. check \in [Pairs -> CheckState] /\ <<n, m>> \in Pairs
  BY CheckTyped DEF Pairs
<1>2. /\ c \in [Pairs -> CheckState] /\ c[<<n, m>>] = v
      /\ \A x, y \in Nodes : <<x, y>> # <<n, m>> => c[<<x, y>>] = check[<<x, y>>]
  BY <1>1 DEF Pairs
<1>3. \A x, y \in Nodes : check'[<<x, y>>] = c[<<x, y>>] \/ Begins(c, check', x, y)
  BY <1>2, BeginOne, ZenonT(40)
<1> QED BY <1>2, <1>3 DEF QuietCheck, Begins

LEMMA CheckStepKeepsPairs ==
    ASSUME MeshInv, NEW n \in Nodes, NEW m \in Nodes, CheckStep(n, m),
           NEW x \in Nodes, NEW y \in Nodes
    PROVE  PairInv(x, y)'
<1>0. check \in [Pairs -> CheckState] /\ <<n, m>> \in Pairs
  BY CheckTyped DEF MeshInv, Pairs
<1>1. TypeOK /\ PairInv(x, y) /\ PairInv(n, m) /\ <<n, m>> \in Pairs /\ <<x, y>> \in Pairs
  BY DEF MeshInv, Pairs
<1>2. /\ check \in [Pairs -> CheckState] /\ check[<<n, m>>] \in CheckState
      /\ es \in [Pairs -> ReadyStates]
      /\ mes \in [Pairs -> ReadyStates]
      /\ cache \in [Pairs -> SUBSET Answer] /\ keyMap \in [Pairs -> SUBSET SUBSET Keys]
      /\ keys \in [Nodes -> SUBSET Keys]
  BY <1>1, CheckTyped DEF TypeOK, ReadyStates
<1>3. NothingForgotten /\ keys' = keys /\ gone' = gone
  BY DEF CheckStep, FetchKeys, CacheKeys, CachedKeys, DecideMainnet, DecideFollow, FetchList,
         FetchEvent, FetchMainnetEvent, Followed, Connected, NothingForgotten, Had
<1>4. \A res \in cache[<<x, y>>] : res.keys \subseteq Had(y)
  BY <1>1 DEF PairInv, KnowsOf
<1>5. CASE FetchKeys(n, m)
  <2> DEFINE v == [step |-> "answered", keys |-> keys[m]]
  <2>1. v \in CheckState /\ v.step = "answered" /\ v.keys \subseteq Had(m)
    BY <1>2 DEF CheckState, Had
  <2>2. check' = begin([check EXCEPT ![<<n, m>>] = v], m, n)
    BY <1>5 DEF FetchKeys
  <2>3. check[<<n, m>>].step = "ask" /\ UNCHANGED <<cache, keyMap, es, mes>>
    BY <1>5 DEF FetchKeys
  <2> HIDE DEF v
  <2>4. QuietCheck(x, y)
    <3>1. CASE <<x, y>> = <<n, m>>
      <4>1. check'[<<n, m>>] = v
        BY <1>1, <2>1, <2>2, OthersBegin, ZenonT(40)
      <4> QED BY <3>1, <4>1, <2>1, <2>3 DEF QuietCheck, GoesOn
    <3>2. CASE <<x, y>> # <<n, m>>
      BY <3>2, <1>1, <2>1, <2>2, OthersBegin
    <3> QED BY <3>1, <3>2
  <2>5. Quiet(x, y)
    BY <2>3, <2>4, <1>4 DEF Quiet, QuietSource, QuietMainnet
  <2> QED BY <2>5, <1>1, <1>3, QuietKeepsPair
<1>6. CASE CacheKeys(n, m)
  <2> DEFINE v == [step |-> "fetched", keys |-> check[<<n, m>>].keys]
  <2>1. v \in CheckState /\ v.step = "fetched" /\ v.keys \subseteq Had(m)
    BY <1>1, <1>2 DEF CheckState, PairInv, KnowsOf
  <2>2. check' = [check EXCEPT ![<<n, m>>] = v]
    <3>1. [check[<<n, m>>] EXCEPT !.step = "fetched"] = v
      BY <1>0 DEF CheckState
    <3> QED BY <3>1, <1>6 DEF CacheKeys
  <2>3. /\ check[<<n, m>>].step = "answered" /\ UNCHANGED <<keyMap, es, mes>>
        /\ cache' = [cache EXCEPT ![<<n, m>>] = {[ok |-> TRUE, keys |-> check[<<n, m>>].keys]}]
    BY <1>6 DEF CacheKeys
  <2>4. \A res \in cache'[<<x, y>>] : res.keys \subseteq Had(y)
    BY <2>3, <1>1, <1>2, <1>4 DEF PairInv, KnowsOf
  <2> HIDE DEF v
  <2>5. QuietCheck(x, y)
    BY <2>1, <2>2, <2>3, <1>1, <1>2 DEF QuietCheck, GoesOn
  <2>6. Quiet(x, y)
    BY <2>3, <2>4, <2>5 DEF Quiet, QuietSource, QuietMainnet
  <2> QED BY <2>6, <1>1, <1>3, QuietKeepsPair
<1>7. CASE CachedKeys(n, m)
  <2>1. PICK res \in cache[<<n, m>>] :
            check' = [check EXCEPT ![<<n, m>>] =
                IF res.ok THEN [step |-> "fetched", keys |-> res.keys] ELSE Idle]
    BY <1>7 DEF CachedKeys
  <2> DEFINE v == IF res.ok THEN [step |-> "fetched", keys |-> res.keys] ELSE Idle
  <2>2. v \in CheckState /\ v.step \in {"fetched", "idle"} /\ v.keys \subseteq Had(m)
    <3>1. res.keys \subseteq Had(m) /\ res \in Answer
      BY <1>1, <1>2 DEF PairInv, KnowsOf
    <3>2. res.keys \subseteq Keys
      BY <3>1 DEF Answer
    <3>3. CASE res.ok
      BY <3>1, <3>2, <3>3 DEF CheckState
    <3>4. CASE ~res.ok
      BY <3>4 DEF CheckState, Idle
    <3> QED BY <3>3, <3>4
  <2>3. check[<<n, m>>].step = "ask" /\ UNCHANGED <<cache, keyMap, es, mes>>
    BY <1>7 DEF CachedKeys
  <2>4. check' = [check EXCEPT ![<<n, m>>] = v]
    BY <2>1
  <2> HIDE DEF v
  <2>5. QuietCheck(x, y)
    BY <2>2, <2>3, <2>4, <1>1, <1>2 DEF QuietCheck, GoesOn
  <2>6. Quiet(x, y)
    BY <2>3, <2>5, <1>4 DEF Quiet, QuietSource, QuietMainnet
  <2> QED BY <2>6, <1>1, <1>3, QuietKeepsPair
<1>8. CASE DecideMainnet(n, m)
  <2>1. PICK v \in {[step |-> "mainnet", keys |-> check[<<n, m>>].keys], Idle} :
            check' = [check EXCEPT ![<<n, m>>] = v]
    <3>1. [check EXCEPT ![<<n, m>>].step = "mainnet"]
            = [check EXCEPT ![<<n, m>>] = [step |-> "mainnet", keys |-> check[<<n, m>>].keys]]
      BY <1>0, StepOne, ZenonT(40)
    <3> QED BY <3>1, <1>8 DEF DecideMainnet
  <2>2. v.step \in {"mainnet", "idle"} /\ v.keys \subseteq Had(m)
    BY <1>1 DEF Idle, PairInv, KnowsOf
  <2>3. /\ check[<<n, m>>].step = "fetched" /\ UNCHANGED <<cache, keyMap, es>>
        /\ mes' = mes \/ mes' = [mes EXCEPT ![<<n, m>>] = "connecting"]
    BY <1>8 DEF DecideMainnet
  <2>4. QuietCheck(x, y) /\ (<<x, y>> = <<n, m>> => GoesOn(x, y))
    BY <2>1, <2>2, <2>3, <1>1, <1>2 DEF QuietCheck, GoesOn
  <2>5. QuietMainnet(x, y)
    BY <2>3, <2>4, <1>1, <1>2 DEF QuietMainnet
  <2>6. Quiet(x, y)
    BY <2>3, <2>4, <2>5, <1>4 DEF Quiet, QuietSource
  <2> QED BY <2>6, <1>1, <1>3, QuietKeepsPair
<1>9. CASE DecideFollow(n, m)
  <2>1. /\ check[<<n, m>>].step = "fetched" /\ UNCHANGED <<cache, keyMap, es>>
        /\ mes' = mes \/ mes' = [mes EXCEPT ![<<n, m>>] = "none"]
    BY <1>9 DEF DecideFollow, leaveMainnet
  <2>2. QuietMainnet(x, y)
    BY <2>1, <1>1, <1>2 DEF QuietMainnet
  <2>3. CASE check[<<n, m>>].keys \cap keys[n] = {}
    <3>1. check' = [check EXCEPT ![<<n, m>>] = Idle]
      BY <2>3, <1>9 DEF DecideFollow
    <3>2. QuietCheck(x, y)
      BY <3>1, <2>1, <1>1, <1>2 DEF QuietCheck, GoesOn, Idle
    <3>3. Quiet(x, y)
      BY <3>2, <2>1, <2>2, <1>4 DEF Quiet, QuietSource
    <3> QED BY <3>3, <1>1, <1>3, QuietKeepsPair
  <2>4. CASE check[<<n, m>>].keys \cap keys[n] # {}
    <3> DEFINE v == [step |-> "list", keys |-> check[<<n, m>>].keys]
    <3>1. v.step = "list" /\ v.keys = check[<<n, m>>].keys
      OBVIOUS
    <3>2. check' = [check EXCEPT ![<<n, m>>] = v] /\ mes' = [mes EXCEPT ![<<n, m>>] = "none"]
      <4>1. [check EXCEPT ![<<n, m>>].step = "list"]
            = [check EXCEPT ![<<n, m>>] = [step |-> "list", keys |-> check[<<n, m>>].keys]]
        BY <1>0, StepOne, ZenonT(40)
      <4> QED BY <4>1, <2>4, <1>9 DEF DecideFollow, leaveMainnet
    <3> HIDE DEF v
    <3>3. CASE <<x, y>> # <<n, m>>
      <4>1. Quiet(x, y)
        BY <3>2, <3>3, <2>1, <2>2, <1>1, <1>2, <1>4 DEF Quiet, QuietSource, QuietCheck
      <4> QED BY <4>1, <1>1, <1>3, QuietKeepsPair
    <3>4. CASE <<x, y>> = <<n, m>>
      <4>1. check'[<<n, m>>] = v /\ mes'[<<n, m>>] = "none"
        BY <3>2, <1>1, <1>2
      <4>2. KnowsOf(n, m)'
        BY <4>1, <3>1, <2>1, <1>1, <1>3 DEF PairInv, KnowsOf, Had
      <4>3. CheckKnows(n, m)'
        BY <4>1, <3>1, <2>1, <2>4, <1>1, <1>3 DEF PairInv, CheckKnows, Had
      <4>4. StreamIsShared(n, m)' /\ FollowsOnce(n, m)'
        BY <4>1, <3>1, <2>1, <1>1, <1>3 DEF PairInv, StreamIsShared, FollowsOnce, Had
      <4> QED BY <3>4, <4>2, <4>3, <4>4 DEF PairInv
    <3> QED BY <3>3, <3>4
  <2> QED BY <2>3, <2>4
<1>10. CASE FetchList(n, m)
  <2> DEFINE v == [step |-> "event", keys |-> check[<<n, m>>].keys]
  <2>1. /\ v \in CheckState /\ v.step = "event" /\ v.keys = check[<<n, m>>].keys
        /\ check[<<n, m>>].step = "list"
    BY <1>2, <1>10 DEF CheckState, FetchList
  <2>2. check' = begin([check EXCEPT ![<<n, m>>] = v], m, n)
    BY <1>1, <1>2, <1>10, StepOne DEF FetchList
  <2>3. UNCHANGED <<cache, keyMap, mes>> /\ es' = [es EXCEPT ![<<n, m>>] = "connecting"]
    BY <1>10 DEF FetchList
  <2> HIDE DEF v
  <2>4. CASE <<x, y>> # <<n, m>>
    <3>1. QuietCheck(x, y)
      BY <2>1, <2>2, <2>4, <1>1, OthersBegin
    <3>2. Quiet(x, y)
      BY <3>1, <2>3, <2>4, <1>1, <1>2, <1>4 DEF Quiet, QuietSource, QuietMainnet
    <3> QED BY <3>2, <1>1, <1>3, QuietKeepsPair
  <2>5. CASE <<x, y>> = <<n, m>>
    <3>1. check'[<<n, m>>] = v /\ es'[<<n, m>>] = "connecting"
      <4> DEFINE c == [check EXCEPT ![<<n, m>>] = v]
      <4>1. c \in [Pairs -> CheckState] /\ c[<<n, m>>] = v
        BY <2>1, <1>0
      <4>2. check' = begin(c, m, n)
        BY <2>2
      <4> HIDE DEF c
      <4>3. check'[<<n, m>>] = v
        BY <4>1, <4>2, <2>1, BeginOne, SMTT(40) DEF Begins
      <4> QED BY <4>3, <2>3, <1>1, <1>2
    <3>2. KnowsOf(n, m)' /\ CheckKnows(n, m)'
      BY <3>1, <2>1, <2>3, <1>1, <1>3 DEF PairInv, KnowsOf, CheckKnows, Had
    <3>3. StreamIsShared(n, m)'
      BY <3>1, <2>1, <2>3, <1>1, <1>3 DEF PairInv, StreamIsShared, KnowsOf, CheckKnows, Had
    <3>4. FollowsOnce(n, m)'
      BY <3>1, <2>1, <2>3, <1>1, <1>3 DEF PairInv, FollowsOnce, CheckKnows, Had
    <3> QED BY <2>5, <3>2, <3>3, <3>4 DEF PairInv
  <2> QED BY <2>4, <2>5
<1>11. CASE FetchEvent(n, m)
  <2>1. /\ es[<<n, m>>] = "connecting" /\ es' = [es EXCEPT ![<<n, m>>] = "open"]
        /\ check' = begin(check, m, n) /\ UNCHANGED <<cache, keyMap, mes>>
    BY <1>11 DEF FetchEvent
  <2>2. QuietCheck(x, y)
    BY <2>1, <1>2, BeginOne DEF QuietCheck
  <2>3. Quiet(x, y)
    BY <2>1, <2>2, <1>1, <1>2, <1>4 DEF Quiet, QuietSource, QuietMainnet
  <2> QED BY <2>3, <1>1, <1>3, QuietKeepsPair
<1>12. CASE FetchMainnetEvent(n, m)
  <2>1. /\ mes[<<n, m>>] = "connecting" /\ mes' = [mes EXCEPT ![<<n, m>>] = "open"]
        /\ check' = begin(check, m, n) /\ UNCHANGED <<cache, keyMap, es>>
    BY <1>12 DEF FetchMainnetEvent
  <2>2. QuietCheck(x, y)
    BY <2>1, <1>2, BeginOne DEF QuietCheck
  <2>3. Quiet(x, y)
    BY <2>1, <2>2, <1>1, <1>2, <1>4 DEF Quiet, QuietSource, QuietMainnet
  <2> QED BY <2>3, <1>1, <1>3, QuietKeepsPair
<1>13. CASE Followed(n, m)
  <2>1. /\ check[<<n, m>>].step = "event" /\ es[<<n, m>>] \notin Unconnected
        /\ keyMap' = [keyMap EXCEPT ![<<n, m>>] = {check[<<n, m>>].keys}]
        /\ check' = [check EXCEPT ![<<n, m>>] = Idle]
        /\ UNCHANGED <<cache, es, mes>>
    BY <1>13 DEF Followed
  <2>2. CASE <<x, y>> # <<n, m>>
    <3>1. Quiet(x, y)
      BY <2>1, <2>2, <1>1, <1>2, <1>4 DEF Quiet, QuietSource, QuietCheck, QuietMainnet
    <3> QED BY <3>1, <1>1, <1>3, QuietKeepsPair
  <2>3. CASE <<x, y>> = <<n, m>>
    <3>1. check'[<<n, m>>] = Idle /\ keyMap'[<<n, m>>] = {check[<<n, m>>].keys}
      BY <2>1, <1>1, <1>2
    <3>2. KnowsOf(n, m)'
      BY <3>1, <2>1, <1>1, <1>3 DEF PairInv, KnowsOf, CheckKnows, Idle, Had
    <3>3. CheckKnows(n, m)' /\ StreamIsShared(n, m)' /\ FollowsOnce(n, m)'
      BY <3>1, <2>1, <1>1, <1>3
         DEF PairInv, CheckKnows, StreamIsShared, FollowsOnce, Idle, Had
    <3> QED BY <2>3, <3>2, <3>3 DEF PairInv
  <2> QED BY <2>2, <2>3
<1>14. CASE Connected(n, m)
  <2>1. /\ check[<<n, m>>].step = "mainnet" /\ check' = [check EXCEPT ![<<n, m>>] = Idle]
        /\ UNCHANGED <<cache, keyMap, es, mes>>
    BY <1>14 DEF Connected
  <2>2. QuietCheck(x, y)
    BY <2>1, <1>1, <1>2 DEF QuietCheck, GoesOn, Idle
  <2>3. Quiet(x, y)
    BY <2>1, <2>2, <1>4 DEF Quiet, QuietSource, QuietMainnet
  <2> QED BY <2>3, <1>1, <1>3, QuietKeepsPair
<1> QED BY <1>5, <1>6, <1>7, <1>8, <1>9, <1>10, <1>11, <1>12, <1>13, <1>14 DEF CheckStep

(* What arrives makes a node begin checks, leave a mainnet EventSource and forget a
   cached answer. *)
LEMMA DeliverKeepsPairs ==
    ASSUME MeshInv, NEW msg \in sent, Deliver(msg), NEW x \in Nodes, NEW y \in Nodes
    PROVE  PairInv(x, y)'
<1> DEFINE n == msg.to
           m == msg.ev.coop
<1>1. TypeOK /\ PairInv(x, y) /\ n \in Nodes /\ m \in Nodes
  BY DEF MeshInv, TypeOK, Message, Event
<1> HIDE DEF n, m
<1>2. /\ check \in [Pairs -> CheckState]
      /\ mes \in [Pairs -> ReadyStates]
      /\ cache \in [Pairs -> SUBSET Answer]
      /\ <<n, m>> \in Pairs /\ <<x, y>> \in Pairs
  BY <1>1, CheckTyped DEF TypeOK, ReadyStates, Pairs
<1>3. keys' = keys /\ gone' = gone /\ keyMap' = keyMap /\ es' = es
  BY DEF Deliver, CoopDetected, KeyAdded, MainnetConnected
<1>4. check' \in {check, begin(check, n, m)}
  BY DEF Deliver, CoopDetected, KeyAdded, MainnetConnected, n, m
<1>5. cache' \in {cache, [cache EXCEPT ![<<n, m>>] = {}]}
  BY DEF Deliver, CoopDetected, KeyAdded, MainnetConnected, n, m
<1>6. mes' \in {mes, [mes EXCEPT ![<<n, m>>] = "none"]}
  BY DEF Deliver, CoopDetected, KeyAdded, MainnetConnected, leaveMainnet, n, m
<1>7. QuietCheck(x, y)
  BY <1>1, <1>2, <1>4, BeginOne DEF QuietCheck
<1>8. \A res \in cache'[<<x, y>>] : res.keys \subseteq Had(y)
  BY <1>1, <1>2, <1>5 DEF PairInv, KnowsOf
<1>9. Quiet(x, y)
  BY <1>2, <1>3, <1>6, <1>7, <1>8 DEF Quiet, QuietSource, QuietMainnet
<1> QED BY <1>1, <1>3, <1>9, QuietKeepsPair DEF NothingForgotten, Had

LEMMA OutsideKeepsPairs ==
    ASSUME MeshInv, NEW n \in Nodes, NEW m \in Nodes, NEW k,
           \/ Contact(n, m) \/ Expire(n, m) \/ CheckFails(n, m) \/ EventFails(n, m)
           \/ Drop(n, m)
           \/ k \in Keys /\ (AddKey(n, k) \/ RemoveKey(n, k)),
           NEW x \in Nodes, NEW y \in Nodes
    PROVE  PairInv(x, y)'
<1>1. TypeOK /\ PairInv(x, y) /\ <<n, m>> \in Pairs /\ <<x, y>> \in Pairs
  BY DEF MeshInv, Pairs
<1>2. /\ check \in [Pairs -> CheckState] /\ cache \in [Pairs -> SUBSET Answer]
      /\ es \in [Pairs -> ReadyStates]
      /\ mes \in [Pairs -> ReadyStates]
      /\ keys \in [Nodes -> SUBSET Keys] /\ gone \in [Nodes -> SUBSET Keys]
  BY <1>1, CheckTyped DEF TypeOK, ReadyStates
<1>3. \A res \in cache[<<x, y>>] : res.keys \subseteq Had(y)
  BY <1>1 DEF PairInv, KnowsOf
<1>4. NothingForgotten
  <2>1. CASE k \in Keys /\ AddKey(n, k)
    BY <2>1, <1>2 DEF AddKey, NothingForgotten, Had
  <2>2. CASE k \in Keys /\ RemoveKey(n, k)
    BY <2>2, <1>2 DEF RemoveKey, NothingForgotten, Had
  <2>3. CASE Contact(n, m) \/ Expire(n, m) \/ CheckFails(n, m) \/ EventFails(n, m) \/ Drop(n, m)
    BY <2>3 DEF Contact, Expire, CheckFails, EventFails, Drop, NothingForgotten, Had
  <2> QED BY <2>1, <2>2, <2>3
<1>5. CASE Contact(n, m)
  <2>1. check' = begin(check, m, n) /\ UNCHANGED <<cache, keyMap, es, mes>>
    BY <1>5 DEF Contact
  <2>2. QuietCheck(x, y)
    BY <2>1, <1>2, BeginOne DEF QuietCheck
  <2>3. Quiet(x, y)
    BY <2>1, <2>2, <1>3 DEF Quiet, QuietSource, QuietMainnet
  <2> QED BY <2>3, <1>1, <1>4, QuietKeepsPair
<1>6. CASE Expire(n, m)
  <2>1. cache' = [cache EXCEPT ![<<n, m>>] = {}] /\ UNCHANGED <<check, keyMap, es, mes>>
    BY <1>6 DEF Expire
  <2>2. Quiet(x, y)
    BY <2>1, <1>1, <1>2, <1>3 DEF Quiet, QuietSource, QuietMainnet, QuietCheck
  <2> QED BY <2>2, <1>1, <1>4, QuietKeepsPair
<1>7. CASE CheckFails(n, m)
  <2>1. /\ check[<<n, m>>].step \in {"ask", "answered", "list"}
        /\ UNCHANGED <<keyMap, es, mes>>
        /\ cache' \in {cache, [cache EXCEPT ![<<n, m>>] = {NotCoop}]}
    BY <1>7 DEF CheckFails
  <2> DEFINE c == [check EXCEPT ![<<n, m>>] = Idle]
  <2>2. check' \in {c, begin(c, m, n)}
    BY <1>7 DEF CheckFails
  <2>3. /\ c \in [Pairs -> CheckState] /\ c[<<n, m>>] = Idle
        /\ \A p \in Pairs : p # <<n, m>> => c[p] = check[p]
    BY <1>1, <1>2 DEF CheckState, Idle
  <2> HIDE DEF c
  <2>4. check'[<<x, y>>] = c[<<x, y>>] \/ Begins(c, check', x, y)
    BY <2>2, <2>3, BeginOne
  <2>5. QuietCheck(x, y)
    BY <2>1, <2>3, <2>4, <1>1 DEF QuietCheck, GoesOn, Begins, Idle
  <2>6. \A res \in cache'[<<x, y>>] : res.keys \subseteq Had(y)
    BY <2>1, <1>1, <1>2, <1>3 DEF NotCoop
  <2>7. Quiet(x, y)
    BY <2>1, <2>5, <2>6 DEF Quiet, QuietSource, QuietMainnet
  <2> QED BY <2>7, <1>1, <1>4, QuietKeepsPair
<1>8. CASE Drop(n, m)
  <2>1. /\ es' = es \/ (es[<<n, m>>] = "open" /\ es' = [es EXCEPT ![<<n, m>>] = "closed"])
        /\ mes' = mes \/ (mes[<<n, m>>] = "open" /\ mes' = [mes EXCEPT ![<<n, m>>] = "closed"])
        /\ UNCHANGED <<cache, keyMap, check>>
    BY <1>8 DEF Drop
  <2>2. QuietSource(x, y) /\ QuietMainnet(x, y) /\ QuietCheck(x, y)
    BY <2>1, <1>1, <1>2 DEF QuietSource, QuietMainnet, QuietCheck
  <2>3. Quiet(x, y)
    BY <2>1, <2>2, <1>3 DEF Quiet
  <2> QED BY <2>3, <1>1, <1>4, QuietKeepsPair
<1>9. CASE k \in Keys /\ AddKey(n, k)
  <2>1. UNCHANGED <<cache, keyMap, check, es, mes>>
    BY <1>9 DEF AddKey
  <2>2. Quiet(x, y)
    BY <2>1, <1>3 DEF Quiet, QuietSource, QuietMainnet, QuietCheck
  <2> QED BY <2>2, <1>1, <1>4, QuietKeepsPair
<1>10. CASE k \in Keys /\ RemoveKey(n, k)
  <2>1. /\ UNCHANGED <<cache, keyMap, check, mes>>
        /\ es'[<<x, y>>] = es[<<x, y>>] \/ (es'[<<x, y>>] = "closed" /\ keyMap[<<x, y>>] # {})
    BY <1>1, <1>10 DEF RemoveKey
  <2>2. QuietSource(x, y)
    BY <2>1, <1>1 DEF QuietSource, PairInv, StreamIsShared
  <2>3. Quiet(x, y)
    BY <2>1, <2>2, <1>3 DEF Quiet, QuietMainnet, QuietCheck
  <2> QED BY <2>3, <1>1, <1>4, QuietKeepsPair
<1>11. CASE EventFails(n, m)
  <2>1. /\ \/ es' = es
           \/ es[<<n, m>>] = "connecting" /\ es' = [es EXCEPT ![<<n, m>>] = "failed"]
        /\ \/ mes' = mes
           \/ mes[<<n, m>>] = "connecting" /\ mes' = [mes EXCEPT ![<<n, m>>] = "failed"]
        /\ check' \in {check, begin(check, m, n)} /\ UNCHANGED <<cache, keyMap>>
    BY <1>11 DEF EventFails
  <2>2. QuietCheck(x, y)
    BY <2>1, <1>2, BeginOne DEF QuietCheck
  <2>3. QuietSource(x, y) /\ QuietMainnet(x, y)
    BY <2>1, <1>1, <1>2 DEF QuietSource, QuietMainnet
  <2>4. Quiet(x, y)
    BY <2>1, <2>2, <2>3, <1>3 DEF Quiet
  <2> QED BY <2>4, <1>1, <1>4, QuietKeepsPair
<1> QED BY <1>5, <1>6, <1>7, <1>8, <1>9, <1>10, <1>11

-----------------------------------------------------------------------------
LEMMA MeshStart == Init => MeshInv
<1> SUFFICES ASSUME Init PROVE MeshInv
  OBVIOUS
<1>1. TypeOK
  BY TypeStart
<1>2. ASSUME NEW n \in Nodes, NEW m \in Nodes PROVE PairInv(n, m)
  <2>1. <<n, m>> \in Pairs
    BY DEF Pairs
  <2> QED BY <2>1 DEF Init, Idle, PairInv, KnowsOf, CheckKnows, StreamIsShared, FollowsOnce,
                    Unconnected
<1> QED BY <1>1, <1>2 DEF MeshInv

LEMMA MeshStep == MeshInv /\ [Next]_vars => MeshInv'
<1> SUFFICES ASSUME MeshInv, [Next]_vars PROVE MeshInv'
  OBVIOUS
<1>1. TypeOK
  BY DEF MeshInv
<1>2. ASSUME NEW n \in Nodes, NEW m \in Nodes, CheckStep(n, m) PROVE MeshInv'
  <2>1. TypeOK'
    BY <1>1, <1>2, CheckStepTyped
  <2>2. \A x, y \in Nodes : PairInv(x, y)'
    BY <1>2, CheckStepKeepsPairs
  <2> QED BY <2>1, <2>2 DEF MeshInv
<1>3. ASSUME NEW n \in Nodes, NEW m \in Nodes, NEW k,
             \/ Contact(n, m) \/ Expire(n, m) \/ CheckFails(n, m) \/ EventFails(n, m)
             \/ Drop(n, m)
             \/ k \in Keys /\ (AddKey(n, k) \/ RemoveKey(n, k))
      PROVE  MeshInv'
  <2>1. TypeOK'
    BY <1>1, <1>3, OutsideTyped
  <2>2. \A x, y \in Nodes : PairInv(x, y)'
    BY <1>3, OutsideKeepsPairs
  <2> QED BY <2>1, <2>2 DEF MeshInv
<1>4. ASSUME NEW msg \in sent, Deliver(msg) PROVE MeshInv'
  <2>1. TypeOK'
    BY <1>1, <1>4, DeliverTyped
  <2>2. \A x, y \in Nodes : PairInv(x, y)'
    BY <1>4, DeliverKeepsPairs
  <2> QED BY <2>1, <2>2 DEF MeshInv
<1>5. CASE UNCHANGED vars
  <2>1. TypeOK'
    BY <1>1, <1>5 DEF vars, TypeOK
  <2>2. ASSUME NEW x \in Nodes, NEW y \in Nodes PROVE PairInv(x, y)'
    <3>1. PairInv(x, y)
      BY DEF MeshInv
    <3> QED BY <3>1, <1>5 DEF vars, PairInv, KnowsOf, CheckKnows, StreamIsShared, FollowsOnce, Had
  <2> QED BY <2>1, <2>2 DEF MeshInv
<1>6. CASE \E n, m \in Nodes : \/ Contact(n, m) \/ CheckStep(n, m) \/ Expire(n, m)
                             \/ CheckFails(n, m) \/ EventFails(n, m) \/ Drop(n, m)
  BY <1>6, <1>2, <1>3
<1>7. CASE \E n \in Nodes, k \in Keys : AddKey(n, k) \/ RemoveKey(n, k)
  BY <1>7, <1>3
<1> QED BY <1>4, <1>5, <1>6, <1>7 DEF Next

LEMMA MeshInvariant == Spec => []MeshInv
BY MeshStart, MeshStep, PTL DEF Spec

-----------------------------------------------------------------------------
(* The values of the variables of checkCoop, the keys, the followings and the
   EventSources, whatever is contacted, added, removed, lost or delayed. *)
THEOREM MeshTypeCorrect == Spec => []TypeOK
<1>1. MeshInv => TypeOK
  BY DEF MeshInv
<1> QED BY <1>1, MeshInvariant, PTL

(* followCoop opens an event stream, and followings.put records a following, only
   with a node that shares, or has shared, a key: however old the keys are that
   checkCoop compares, and whatever keys are added and removed meanwhile. *)
THEOREM FollowingSharesKey == Spec => []FollowSharesKey
<1>1. ASSUME MeshInv, NEW n \in Nodes, NEW m \in Nodes
      PROVE  /\ es[<<n, m>>] # "none" => n # m /\ Had(n) \cap Had(m) # {}
             /\ isFollowing(n, m) => keys[n] \cap Had(m) # {}
  BY <1>1 DEF MeshInv, PairInv, KnowsOf, StreamIsShared, isFollowing
<1>2. MeshInv => FollowSharesKey
  BY <1>1 DEF FollowSharesKey, Had
<1> QED BY <1>2, MeshInvariant, PTL

(* checkCoop leaves the mainnet EventSource of a node before it follows it, and no
   later check connects to it again. *)
THEOREM FollowingLeavesMainnet == Spec => []FollowLeavesMainnet
<1>1. MeshInv => FollowLeavesMainnet
  BY DEF MeshInv, PairInv, FollowsOnce, FollowLeavesMainnet
<1> QED BY <1>1, MeshInvariant, PTL

(* followings.put records what followCoop has opened an event stream of, after it
   opened. *)
THEOREM FollowingHasStream == Spec => []FollowHasStream
<1>1. MeshInv => FollowHasStream
  BY DEF MeshInv, PairInv, StreamIsShared, FollowsOnce, FollowHasStream, isFollowing
<1> QED BY <1>1, MeshInvariant, PTL
===============================================================================
