------------------------------- MODULE CoopMesh -------------------------------
(***************************************************************************)
(* How nodes come to follow each other: checkCoop, followCoop and          *)
(* connectMainnet (coop.js), the keys and their cache (coop-keys.js,       *)
(* coop-cache.js), the followings (coop-followings.js), and the events     *)
(* coop-detected, key-added and mainnet-connected (coop-watchers.js).      *)
(*                                                                         *)
(* Links are left to LinkReplication, and what an EventSource does after   *)
(* close() to EventStream: here it stays closed.  An answer and its        *)
(* arrival are one step where the node that asked waits for it and nothing *)
(* that happens to it meanwhile depends on which it was: so for /list and  *)
(* /event, not for the keys.  Events are delivered in any order: the watch *)
(* loops of a node read separate streams.                                  *)
(***************************************************************************)
EXTENDS Naturals, FiniteSets

CONSTANTS
    Nodes, Keys,
    Unnamed,        \* params.mainnet is undefined
    Mainnet,        \* params.mainnet of every node
    InitialKeys,    \* what keys the nodes may have at first
    LateKeys,       \* the pairs <<n, k>> such that n may add k later
    GoneKeys,       \* the pairs <<n, k>> such that n may remove k, for good
    Contacts,       \* the pairs <<n, m>> such that n sends m a first request
    MaxExpiries,    \* bound: how often a cached response gets too old
    MayFail         \* whether requests fail and connections drop

ASSUME MeshAssumption ==
    /\ InitialKeys \subseteq [Nodes -> SUBSET Keys]
    /\ LateKeys \subseteq Nodes \X Keys /\ GoneKeys \subseteq Nodes \X Keys
    /\ Contacts \subseteq Nodes \X Nodes
    /\ MaxExpiries \in Nat
    /\ MayFail \in BOOLEAN

VARIABLES
    keys,       \* coop.keys.keys
    gone,       \* the keys that a node has removed
    cache,      \* <<n, m>>: the answer of m that n has cached, at most one
    keyMap,     \* <<n, m>>: the keys followings.keyMap of n records for m, at most one set
    check,      \* <<n, m>>: where checkCoop of m by n stands, with the keys it fetched
    es,         \* <<n, m>>: readyState of watchers.eventSources.get(m) of n, or "failed":
                \*  CONNECTING for good, as its fetch was rejected
    mes,        \* <<n, m>>: the same of mainnetEventSources
    seen,       \* keyAddedDataCache: the <<uri, key>> that a node has handled
    sent,       \* the events on their way in event streams
    contacts,   \* the first requests still to be made
    expiries    \* cached responses that got too old so far

vars == <<keys, gone, cache, keyMap, check, es, mes, seen, sent, contacts, expiries>>

Pairs == Nodes \X Nodes

Event == [type: {"coop-detected", "key-added", "mainnet-connected"},
          coop: Nodes, keys: SUBSET Keys]

Message == [stream: {"follow", "mainnet"}, from: Nodes, to: Nodes, ev: Event]

Idle == [step |-> "idle", keys |-> {}]

(* What the cache may have: an answer of status 200, or of another one. *)
Answer == [ok: BOOLEAN, keys: SUBSET Keys]

NotCoop == [ok |-> FALSE, keys |-> {}]

Unconnected == {"connecting", "failed"}

isFollowing(n, m) == \E K \in keyMap[n, m] : K \cap keys[n] # {}

(* Mutant of begin: it does not check a node that is checking it. *)
beginUnlessChecked(c, n, m) ==
    IF n # m /\ ~isFollowing(n, m) /\ c[n, m].step = "idle" /\ c[m, n].step = "idle"
    THEN [c EXCEPT ![<<n, m>>] = [step |-> "ask", keys |-> {}]]
    ELSE c

(* checkCoop up to its first await: c with the check of m by n begun, unless m
   is n itself, is followed, or is being checked. *)
begin(c, n, m) ==
    IF n # m /\ ~isFollowing(n, m) /\ c[n, m].step = "idle"
    THEN [c EXCEPT ![<<n, m>>] = [step |-> "ask", keys |-> {}]]
    ELSE c

(* The events on their way to n from m, as a following or as mainnet. *)
stream(kind, m, n) == {msg \in sent : msg.stream = kind /\ msg.from = m /\ msg.to = n}

(* n closes its mainnet EventSource of m while the events "sending" are on their
   way: those it would have brought may still arrive, or not. *)
leaveMainnet(n, m, sending) ==
    /\ mes' = [mes EXCEPT ![<<n, m>>] = "none"]
    /\ \E lost \in SUBSET (IF mes[n, m] = "none" THEN {} ELSE stream("mainnet", m, n)) :
        sent' = sending \ lost

(* What dispatchEvent sends: to every open stream whose owner is n and whose
   reader listens for the type of the event (watchEventSource and
   watchMainnetEventSource). *)
messages(n, ev) ==
    {[stream |-> "follow", from |-> n, to |-> m, ev |-> ev] :
        m \in {x \in Nodes : es[x, n] = "open" /\ ev.type # "mainnet-connected"}}
    \cup
    {[stream |-> "mainnet", from |-> n, to |-> m, ev |-> ev] :
        m \in {x \in Nodes : mes[x, n] = "open" /\ ev.type # "coop-detected"}}

Init ==
    /\ keys \in InitialKeys
    /\ gone = [n \in Nodes |-> {}]
    /\ cache = [p \in Pairs |-> {}]
    /\ keyMap = [p \in Pairs |-> {}]
    /\ check = [p \in Pairs |-> Idle]
    /\ es = [p \in Pairs |-> "none"]
    /\ mes = [p \in Pairs |-> "none"]
    /\ seen = [n \in Nodes |-> {}]
    /\ sent = {}
    /\ contacts = Contacts
    /\ expiries = 0

-----------------------------------------------------------------------------
(* n sends m a request: m's handler checks n, whatever the request is. *)
Contact(n, m) ==
    /\ <<n, m>> \in contacts
    /\ contacts' = contacts \ {<<n, m>>}
    /\ check' = begin(check, m, n)
    /\ UNCHANGED <<keys, gone, cache, keyMap, es, mes, seen, sent, expiries>>

(* keys.fetch finds no cached response: m's handler checks n, and answers. *)
FetchKeys(n, m) ==
    /\ check[n, m].step = "ask"
    /\ cache[n, m] = {}
    /\ check' = begin([check EXCEPT ![<<n, m>>] = [step |-> "answered", keys |-> keys[m]]], m, n)
    /\ UNCHANGED <<keys, gone, cache, keyMap, es, mes, seen, sent, contacts, expiries>>

(* Mutant of CacheKeys: nothing is cached. *)
CacheNothing(n, m) ==
    /\ check[n, m].step = "answered"
    /\ check' = [check EXCEPT ![<<n, m>>].step = "fetched"]
    /\ UNCHANGED <<keys, gone, cache, keyMap, es, mes, seen, sent, contacts, expiries>>

(* The answer arrives, and is cached: m may have other keys by now. *)
CacheKeys(n, m) ==
    /\ check[n, m].step = "answered"
    /\ cache' = [cache EXCEPT ![<<n, m>>] = {[ok |-> TRUE, keys |-> check[n, m].keys]}]
    /\ check' = [check EXCEPT ![<<n, m>>].step = "fetched"]
    /\ UNCHANGED <<keys, gone, keyMap, es, mes, seen, sent, contacts, expiries>>

(* keys.fetch finds a cached response: m does not hear of it, and the check goes
   on, or is over if the status was not 200. *)
CachedKeys(n, m) ==
    /\ check[n, m].step = "ask"
    /\ \E res \in cache[n, m] :
        check' = [check EXCEPT ![<<n, m>>] =
            IF res.ok THEN [step |-> "fetched", keys |-> res.keys] ELSE Idle]
    /\ UNCHANGED <<keys, gone, cache, keyMap, es, mes, seen, sent, contacts, expiries>>

(* A node without keys: connectMainnet, unless there is a mainnet EventSource.
   followings.fetch does not return the mainnet of m, so Unnamed stands for it. *)
DecideMainnet(n, m) ==
    /\ check[n, m].step = "fetched"
    /\ check[n, m].keys = {} \/ keys[n] = {}
    /\ IF Mainnet[n] = Unnamed /\ mes[n, m] = "none"
       THEN /\ check' = [check EXCEPT ![<<n, m>>].step = "mainnet"]
            /\ mes' = [mes EXCEPT ![<<n, m>>] = "connecting"]
       ELSE /\ check' = [check EXCEPT ![<<n, m>>] = Idle]
            /\ UNCHANGED mes
    /\ UNCHANGED <<keys, gone, cache, keyMap, es, seen, sent, contacts, expiries>>

(* Mutants of DecideFollow: the mainnet EventSource is kept; keys are not compared. *)
DecideFollowStaying(n, m) ==
    /\ check[n, m].step = "fetched"
    /\ check[n, m].keys # {} /\ keys[n] # {}
    /\ check' = [check EXCEPT ![<<n, m>>] =
            IF check[n, m].keys \cap keys[n] # {} THEN [@ EXCEPT !.step = "list"] ELSE Idle]
    /\ UNCHANGED <<keys, gone, cache, keyMap, es, mes, seen, sent, contacts, expiries>>

DecideFollowAnyway(n, m) ==
    /\ check[n, m].step = "fetched"
    /\ check[n, m].keys # {}
    /\ check' = [check EXCEPT ![<<n, m>>].step = "list"]
    /\ leaveMainnet(n, m, sent)
    /\ UNCHANGED <<keys, gone, cache, keyMap, es, seen, contacts, expiries>>

(* A shared key: leave the mainnet EventSource, and followCoop. *)
DecideFollow(n, m) ==
    /\ check[n, m].step = "fetched"
    /\ check[n, m].keys # {} /\ keys[n] # {}
    /\ IF check[n, m].keys \cap keys[n] # {}
       THEN /\ check' = [check EXCEPT ![<<n, m>>].step = "list"]
            /\ leaveMainnet(n, m, sent)
       ELSE /\ check' = [check EXCEPT ![<<n, m>>] = Idle]
            /\ UNCHANGED <<mes, sent>>
    /\ UNCHANGED <<keys, gone, cache, keyMap, es, seen, contacts, expiries>>

(* The list is answered, and the EventSource created. *)
FetchList(n, m) ==
    /\ check[n, m].step = "list"
    /\ es' = [es EXCEPT ![<<n, m>>] = "connecting"]
    /\ check' = begin([check EXCEPT ![<<n, m>>].step = "event"], m, n)
    /\ UNCHANGED <<keys, gone, cache, keyMap, mes, seen, sent, contacts, expiries>>

(* m's handler answers /event with a stream of the events to come. *)
FetchEvent(n, m) ==
    /\ es[n, m] = "connecting"
    /\ es' = [es EXCEPT ![<<n, m>>] = "open"]
    /\ check' = begin(check, m, n)
    /\ UNCHANGED <<keys, gone, cache, keyMap, mes, seen, sent, contacts, expiries>>

FetchMainnetEvent(n, m) ==
    /\ mes[n, m] = "connecting"
    /\ mes' = [mes EXCEPT ![<<n, m>>] = "open"]
    /\ check' = begin(check, m, n)
    /\ UNCHANGED <<keys, gone, cache, keyMap, es, seen, sent, contacts, expiries>>

(* Mutants of Followed: it does not wait for the EventSource; it announces itself;
   it does not say that the check is over. *)
FollowedAtOnce(n, m) ==
    /\ check[n, m].step = "event"
    /\ keyMap' = [keyMap EXCEPT ![<<n, m>>] = {check[n, m].keys}]
    /\ sent' = sent \cup messages(n, [type |-> "coop-detected", coop |-> m, keys |-> {}])
    /\ check' = [check EXCEPT ![<<n, m>>] = Idle]
    /\ UNCHANGED <<keys, gone, cache, es, mes, seen, contacts, expiries>>

FollowedBySelf(n, m) ==
    /\ check[n, m].step = "event"
    /\ es[n, m] \notin Unconnected
    /\ keyMap' = [keyMap EXCEPT ![<<n, m>>] = {check[n, m].keys}]
    /\ sent' = sent \cup messages(n, [type |-> "coop-detected", coop |-> n, keys |-> {}])
    /\ check' = [check EXCEPT ![<<n, m>>] = Idle]
    /\ UNCHANGED <<keys, gone, cache, es, mes, seen, contacts, expiries>>

FollowedForGood(n, m) ==
    /\ check[n, m].step = "event"
    /\ es[n, m] \notin Unconnected
    /\ keyMap' = [keyMap EXCEPT ![<<n, m>>] = {check[n, m].keys}]
    /\ check' = [check EXCEPT ![<<n, m>>].step = "followed"]
    /\ UNCHANGED <<keys, gone, cache, es, mes, seen, sent, contacts, expiries>>

(* followCoop returns, and followings.put announces the new following. *)
Followed(n, m) ==
    /\ check[n, m].step = "event"
    /\ es[n, m] \notin Unconnected
    /\ keyMap' = [keyMap EXCEPT ![<<n, m>>] = {check[n, m].keys}]
    /\ sent' = sent \cup messages(n, [type |-> "coop-detected", coop |-> m, keys |-> {}])
    /\ check' = [check EXCEPT ![<<n, m>>] = Idle]
    /\ UNCHANGED <<keys, gone, cache, es, mes, seen, contacts, expiries>>

(* Mutant of Connected: it announces its own keys. *)
ConnectedOwnKeys(n, m) ==
    /\ check[n, m].step = "mainnet"
    /\ mes[n, m] \notin Unconnected
    /\ sent' = sent \cup messages(n, [type |-> "mainnet-connected", coop |-> m, keys |-> keys[n]])
    /\ check' = [check EXCEPT ![<<n, m>>] = Idle]
    /\ UNCHANGED <<keys, gone, cache, keyMap, es, mes, seen, contacts, expiries>>

(* connectMainnet returns once its EventSource is open, or was closed. *)
Connected(n, m) ==
    /\ check[n, m].step = "mainnet"
    /\ mes[n, m] \notin Unconnected
    /\ sent' = sent \cup messages(n, [type |-> "mainnet-connected", coop |-> m,
                                      keys |-> check[n, m].keys])
    /\ check' = [check EXCEPT ![<<n, m>>] = Idle]
    /\ UNCHANGED <<keys, gone, cache, keyMap, es, mes, seen, contacts, expiries>>

-----------------------------------------------------------------------------
(* keys.add, which does not check anybody: the others do when they hear of it. *)
AddKey(n, k) ==
    /\ <<n, k>> \in LateKeys
    /\ k \notin keys[n] \cup gone[n]
    /\ keys' = [keys EXCEPT ![n] = @ \cup {k}]
    /\ sent' = sent \cup messages(n, [type |-> "key-added", coop |-> n, keys |-> {k}])
    /\ UNCHANGED <<gone, cache, keyMap, check, es, mes, seen, contacts, expiries>>

(* keys.remove: the EventSources of those that are not followed any more are closed,
   and what is in their streams may still arrive, or not.  Nobody else listens for
   key-removed, and the others go on with the keys they know. *)
RemoveKey(n, k) ==
    LET left == [keys EXCEPT ![n] = @ \ {k}]
        detached == {m \in Nodes : keyMap[n, m] # {} /\ \A K \in keyMap[n, m] : K \cap left[n] = {}}
    IN  /\ <<n, k>> \in GoneKeys
        /\ k \in keys[n]
        /\ keys' = left
        /\ gone' = [gone EXCEPT ![n] = @ \cup {k}]
        /\ es' = [p \in Pairs |-> IF p \in {n} \X detached THEN "closed" ELSE es[p]]
        /\ \E lost \in SUBSET UNION {stream("follow", m, n) : m \in detached} : sent' = sent \ lost
        /\ UNCHANGED <<cache, keyMap, check, mes, seen, contacts, expiries>>

(* watchFollowingsEvent *)
CoopDetected(msg) ==
    /\ msg.ev.type = "coop-detected"
    /\ sent' = sent \ {msg}
    /\ check' = begin(check, msg.to, msg.ev.coop)
    /\ UNCHANGED <<keys, gone, cache, keyMap, es, mes, seen, contacts, expiries>>

(* watchKeyAddedEvent of news: forward it, leave the mainnet EventSource, and
   check the node when the key is ours too. *)
KeyAdded(msg) ==
    LET n == msg.to
        m == msg.ev.coop
        news == \A k \in msg.ev.keys : n # m /\ <<m, k>> \notin seen[n]
        ours == msg.ev.keys \subseteq keys[n]
    IN  /\ msg.ev.type = "key-added"
        /\ IF news
           THEN /\ seen' = [seen EXCEPT ![n] = @ \cup {<<m, k>> : k \in msg.ev.keys}]
                /\ leaveMainnet(n, m, (sent \ {msg}) \cup messages(n, msg.ev))
                /\ IF ours
                   THEN /\ cache' = [cache EXCEPT ![<<n, m>>] = {}]
                        /\ check' = begin(check, n, m)
                   ELSE UNCHANGED <<cache, check>>
           ELSE /\ sent' = sent \ {msg}
                /\ UNCHANGED <<cache, check, mes, seen>>
        /\ UNCHANGED <<keys, gone, keyMap, es, contacts, expiries>>

(* watchMainnetConnectedEvent: check a node that shares a key and that we have
   no EventSource of. *)
MainnetConnected(msg) ==
    LET n == msg.to
        m == msg.ev.coop
        news == n # m /\ es[n, m] = "none" /\ mes[n, m] = "none"
    IN  /\ msg.ev.type = "mainnet-connected"
        /\ sent' = sent \ {msg}
        /\ IF news /\ msg.ev.keys \cap keys[n] # {}
           THEN /\ cache' = [cache EXCEPT ![<<n, m>>] = {}]
                /\ check' = begin(check, n, m)
           ELSE UNCHANGED <<cache, check>>
        /\ UNCHANGED <<keys, gone, keyMap, es, mes, seen, contacts, expiries>>

Deliver(msg) == CoopDetected(msg) \/ KeyAdded(msg) \/ MainnetConnected(msg)

-----------------------------------------------------------------------------
(* matchResponse finds a response older than max-age, and deletes it. *)
Expire(n, m) ==
    /\ expiries < MaxExpiries
    /\ cache[n, m] # {}
    /\ cache' = [cache EXCEPT ![<<n, m>>] = {}]
    /\ expiries' = expiries + 1
    /\ UNCHANGED <<keys, gone, keyMap, check, es, mes, seen, sent, contacts>>

(* A fetch throws, whether its request reached m or not: checkCoop's catch, and
   finally.  An answer that is not 200 is cached before keys.fetch throws. *)
CheckFails(n, m) ==
    /\ MayFail
    /\ \/ /\ check[n, m].step = "ask" => cache[n, m] = {}
          /\ check[n, m].step \in {"ask", "answered"}
          /\ cache' \in {cache, [cache EXCEPT ![<<n, m>>] = {NotCoop}]}
          /\ check' = [check EXCEPT ![<<n, m>>] = Idle]
       \/ /\ check[n, m].step = "list"
          /\ LET over == [check EXCEPT ![<<n, m>>] = Idle]
             IN  check' \in {over, begin(over, m, n)}
          /\ UNCHANGED cache
    /\ UNCHANGED <<keys, gone, keyMap, es, mes, seen, sent, contacts, expiries>>

(* The fetch of an event stream is rejected, whether its request reached m or not:
   the error is logged, and the loop that waits for the EventSource goes on. *)
EventFails(n, m) ==
    /\ MayFail
    /\ \/ /\ es[n, m] = "connecting"
          /\ es' = [es EXCEPT ![<<n, m>>] = "failed"]
          /\ UNCHANGED mes
       \/ /\ mes[n, m] = "connecting"
          /\ mes' = [mes EXCEPT ![<<n, m>>] = "failed"]
          /\ UNCHANGED es
    /\ check' \in {check, begin(check, m, n)}
    /\ UNCHANGED <<keys, gone, cache, keyMap, seen, sent, contacts, expiries>>

(* The connection of an event stream drops; the events in it are lost.  The
   EventSource is CLOSED, does not connect again, and stays in its map. *)
Drop(n, m) ==
    /\ MayFail
    /\ \/ /\ es[n, m] = "open"
          /\ es' = [es EXCEPT ![<<n, m>>] = "closed"]
          /\ sent' = {msg \in sent : msg.stream = "mainnet" \/ msg.from # m \/ msg.to # n}
          /\ UNCHANGED mes
       \/ /\ mes[n, m] = "open"
          /\ mes' = [mes EXCEPT ![<<n, m>>] = "closed"]
          /\ sent' = {msg \in sent : msg.stream = "follow" \/ msg.from # m \/ msg.to # n}
          /\ UNCHANGED es
    /\ UNCHANGED <<keys, gone, cache, keyMap, check, seen, contacts, expiries>>

(* What a check does next by itself. *)
CheckStep(n, m) ==
    \/ FetchKeys(n, m) \/ CacheKeys(n, m) \/ CachedKeys(n, m)
    \/ DecideMainnet(n, m) \/ DecideFollow(n, m)
    \/ FetchList(n, m) \/ FetchEvent(n, m) \/ FetchMainnetEvent(n, m)
    \/ Followed(n, m) \/ Connected(n, m)

Next ==
    \/ \E n, m \in Nodes : \/ Contact(n, m) \/ CheckStep(n, m) \/ Expire(n, m)
                           \/ CheckFails(n, m) \/ EventFails(n, m) \/ Drop(n, m)
    \/ \E n \in Nodes, k \in Keys : AddKey(n, k) \/ RemoveKey(n, k)
    \/ \E msg \in sent : Deliver(msg)

Spec == Init /\ [][Next]_vars

(* Requests are answered, events arrive, and the callbacks that are ready run.
   Nothing is assumed of contacts, keys, expiry and failures, nor of which node
   goes on first. *)
Fairness ==
    WF_vars(\/ \E n, m \in Nodes : CheckStep(n, m)
            \/ \E msg \in sent : Deliver(msg))

FairSpec == Spec /\ Fairness

-----------------------------------------------------------------------------
TypeOK ==
    /\ keys \in [Nodes -> SUBSET Keys] /\ gone \in [Nodes -> SUBSET Keys]
    /\ cache \in [Pairs -> SUBSET Answer]
    /\ keyMap \in [Pairs -> SUBSET SUBSET Keys]
    /\ check \in [Pairs -> [step: {"idle", "ask", "answered", "fetched", "list", "event", "mainnet"},
                            keys: SUBSET Keys]]
    /\ es \in [Pairs -> {"none", "connecting", "failed", "open", "closed"}]
    /\ mes \in [Pairs -> {"none", "connecting", "failed", "open", "closed"}]
    /\ seen \in [Nodes -> SUBSET (Nodes \X Keys)]
    /\ sent \subseteq Message
    /\ contacts \subseteq Contacts
    /\ expiries \in 0 .. MaxExpiries

(* The event stream of a node is opened for its links only if it shares a key,
   although the keys that are compared may come from a cache and be a minute old:
   "coop node itself ony use has at least one same coop key" (coop.js:27).  A key
   of n that is removed ends the following at once, one of m does not. *)
FollowSharesKey ==
    \A n, m \in Nodes :
        LET had(x) == keys[x] \cup gone[x]
        IN  /\ es[n, m] # "none" => n # m /\ had(n) \cap had(m) # {}
            /\ isFollowing(n, m) => keys[n] \cap had(m) # {}

(* A node that is followed, or about to be, is not also connected as mainnet:
   otherwise its key-added events would arrive twice.  A node that removes its last
   key may well connect to one whose EventSource, closed, it still has, and add a
   key again, so this is about those that have removed none. *)
FollowLeavesMainnet ==
    \A n, m \in Nodes : es[n, m] # "none" /\ gone[n] = {} => mes[n, m] = "none"

(* What is followed has an event stream, that is or was open: no following is recorded
   whose links never come.  A node that has removed a key may be a follower again
   while it connects anew: an old record of keyMap may name a key that it adds. *)
FollowHasStream ==
    \A n, m \in Nodes :
        isFollowing(n, m) =>
            /\ es[n, m] # "none"
            /\ gone[n] = {} => es[n, m] \notin Unconnected

(* The checks come to an end: "to avoid check loop" (coop.js:60).  Every request
   of a check makes the other side check back, whose requests come back too. *)
ChecksEnd == <>[](\A n, m \in Nodes : check[n, m].step = "idle")

(* Following ends up mutual: the requests that a follow takes make the followed
   node follow too. *)
FollowIsMutual ==
    <>[](\A n, m \in Nodes : isFollowing(n, m) => isFollowing(m, n))

(* When n has an open event stream from a hub, and shares a key with m that the hub
   is about to follow, n gets to follow m. *)
IntroducedByFollowing(n, m, hub) ==
    (/\ keys[n] \cap keys[m] # {}
     /\ es[n, hub] = "open" /\ check[hub, m].step = "event") ~> isFollowing(n, m)

(* The same of a hub that is mainnet to both (coop.js:103-113, 214-235). *)
IntroducedAsMainnet(n, m, hub) ==
    (/\ keys[n] \cap check[hub, m].keys # {}
     /\ mes[n, hub] = "open" /\ check[hub, m].step = "mainnet") ~> isFollowing(n, m)

(* Only nodes of one mainnet are connected as mainnet. *)
MainnetsApart ==
    \A n, m \in Nodes : mes[n, m] # "none" => Mainnet[n] = Mainnet[m]
=============================================================================
