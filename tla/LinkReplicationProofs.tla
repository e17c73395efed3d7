------------------------ MODULE LinkReplicationProofs ------------------------
(***************************************************************************)
(* Proofs about LinkReplication, for any slots, values and bounds, and for *)
(* reads of any size: type correctness, that the replica holds only what   *)
(* the owner published, that it never goes back, and that following        *)
(* implements StaleReplica; and, where one read returns one event, that a  *)
(* replica that has read all of an open stream agrees with the owner.      *)
(***************************************************************************)
EXTENDS LinkReplication, CoopLinksProofs

-----------------------------------------------------------------------------
(* The owner published what ev tells, under the version that ev carries. *)
Published(ev) ==
    /\ ev.coop = Owner
    /\ \E h \in history : h.ver = ev.ver /\ h.table[ev.slot] = Told(ev)

(* Everything on its way to the replica was published: the events of the
   queue, those in the watch stream, and the list response. *)
EventsPublished == \A k \in 1 .. Len(events) : Published(events[k])

QueuePublished == \A k \in 1 .. Len(watchQ) : Published(watchQ[k])

SnapPublished ==
    step = "listed" => \E h \in history : h.ver = snap.ver /\ h.table = snap.table

(* The replica has at most one prop per slot, of the only owner there is. *)
OneProp ==
    /\ \A p \in list : p.coop = Owner
    /\ \A p, q \in list : p.slot = q.slot => p = q

(* The empty table is what version zero names. *)
ZeroPublished == [ver |-> ZeroVersion, table |-> EmptyTable] \in history

(* A follow begins while there is room for its EventSource. *)
Room == step \in {"list", "listed"} => current < MaxStreams

IInv ==
    /\ TypeOK
    /\ Room
    /\ LinksInv
    /\ ZeroPublished
    /\ EventsPublished
    /\ QueuePublished
    /\ SnapPublished
    /\ OneProp
    /\ ReplicaIsHistory

-----------------------------------------------------------------------------
(* store replaces, for the slots in the domain of contents, what is older. *)
LEMMA StoreProps ==
    ASSUME ListTypeOK, OneProp, NEW ver \in Version, NEW contents,
           DOMAIN contents \subseteq Slots,
           \A s \in DOMAIN contents : contents[s] \in Content,
           store(Owner, contents, ver)
    PROVE  /\ ListTypeOK'
           /\ OneProp'
           /\ \A p \in list' : \/ p \in list
                               \/ /\ p.slot \in DOMAIN contents
                                  /\ p.value = contents[p.slot] /\ p.ver = ver
           /\ \A p \in list : \E q \in list' :
                 /\ q.coop = p.coop /\ q.slot = p.slot
                 /\ q = p \/ isPast(p.ver, q.ver)
<1> DEFINE fresh == outdated(Owner, DOMAIN contents, ver)
           new(s) == [coop |-> Owner, slot |-> s, value |-> contents[s], ver |-> ver]
<1>1. list' = {p \in list : p.coop # Owner \/ p.slot \notin fresh} \cup {new(s) : s \in fresh}
  BY DEF store
<1>2. /\ fresh \subseteq DOMAIN contents
      /\ \A p \in list : p.slot \in fresh => isPast(p.ver, ver)
  BY DEF outdated, find, OneProp
<1>3. \A s \in fresh : new(s) \in Prop /\ new(s).coop = Owner /\ new(s).slot = s
  BY <1>2, OwnerAssumption DEF Prop
<1>4. ListTypeOK'
  BY <1>1, <1>3 DEF ListTypeOK
<1>5. OneProp'
  BY <1>1, <1>3 DEF OneProp
<1>6. \A p \in list' : \/ p \in list
                       \/ /\ p.slot \in DOMAIN contents
                          /\ p.value = contents[p.slot] /\ p.ver = ver
  BY <1>1, <1>2
<1>7. ASSUME NEW p \in list
      PROVE  \E q \in list' : /\ q.coop = p.coop /\ q.slot = p.slot
                              /\ q = p \/ isPast(p.ver, q.ver)
  <2>1. CASE p.slot \in fresh
    <3>1. new(p.slot) \in list' /\ new(p.slot).ver = ver
      BY <1>1, <2>1
    <3> QED BY <3>1, <2>1, <1>2, <1>3 DEF OneProp
  <2>2. CASE p.slot \notin fresh
    BY <2>2, <1>1
  <2> QED BY <2>1, <2>2
<1> QED BY <1>4, <1>5, <1>6, <1>7

(* The two operations of the code are stores. *)
LEMMA LinksAreStored ==
    ASSUME NEW table \in Table, NEW ver, addFromLinks(Owner, table, ver)
    PROVE  LET contents == [s \in {t \in Slots : table[t] # None} |-> table[s]]
           IN  /\ store(Owner, contents, ver)
               /\ DOMAIN contents \subseteq Slots
               /\ \A s \in DOMAIN contents : contents[s] \in Content /\ contents[s] = table[s]
BY DEF addFromLinks, Table

LEMMA EventIsStored ==
    ASSUME NEW ev \in LinkEvent, ev.coop = Owner, updateFromEvent(ev)
    PROVE  LET contents == [s \in {ev.slot} |-> Told(ev)]
           IN  /\ store(Owner, contents, ev.ver)
               /\ DOMAIN contents \subseteq Slots
               /\ \A s \in DOMAIN contents : contents[s] \in Content /\ contents[s] = Told(ev)
BY DEF updateFromEvent, LinkEvent, Told, Content

(* A store of what was published keeps the replica within the history. *)
LEMMA StoreOfHistory ==
    ASSUME ListTypeOK, OneProp, ReplicaIsHistory, NEW ver \in Version, NEW contents,
           DOMAIN contents \subseteq Slots,
           \A s \in DOMAIN contents : contents[s] \in Content,
           store(Owner, contents, ver), history' = history,
           NEW h \in history, h.ver = ver,
           \A s \in DOMAIN contents : h.table[s] = contents[s]
    PROVE  ListTypeOK' /\ OneProp' /\ ReplicaIsHistory'
<1>1. /\ ListTypeOK' /\ OneProp'
      /\ \A p \in list' : \/ p \in list
                          \/ /\ p.slot \in DOMAIN contents
                             /\ p.value = contents[p.slot] /\ p.ver = ver
  BY StoreProps
<1>2. ReplicaIsHistory'
  BY <1>1 DEF ReplicaIsHistory
<1> QED BY <1>1, <1>2

-----------------------------------------------------------------------------
(* What the owner published stays published. *)
LEMMA OwnerPublishes ==
    ASSUME LinksInv, EventsPublished, LinksNext
    PROVE  EventsPublished' /\ history \subseteq history'
<1>1. ASSUME NEW s \in Slots, NEW v \in Values, NEW w \in Content,
             NEW type \in {"link-added", "link-removed"},
             w = IF type = "link-added" THEN v ELSE None,
             links' = [links EXCEPT ![s] = w], publish(type, s, v)
      PROVE  EventsPublished' /\ history \subseteq history'
  <2> DEFINE ev == [type |-> type, coop |-> Owner, slot |-> s, value |-> v,
                    ver |-> CurrentVersion']
  <2>1. /\ events' = Append(events, ev) /\ events \in Seq(LinkEvent) /\ links \in Table
        /\ history' = history \cup {Current'}
    BY <1>1 DEF publish, LinksInv, LinksTypeOK
  <2>2. ev.coop = Owner /\ \E h \in history' : h.ver = ev.ver /\ h.table[ev.slot] = Told(ev)
    <3>1. /\ Current' \in history' /\ Current'.ver = CurrentVersion'
          /\ Current'.table[s] = Told(ev)
      BY <1>1, <2>1 DEF Current, Table, Told
    <3> QED BY <3>1
  <2>3. \A k \in 1 .. Len(events) : Published(events[k])'
    BY <2>1, SMTT(30) DEF EventsPublished, Published, Told
  <2>4. ASSUME NEW k \in 1 .. Len(events') PROVE Published(events[k])'
    <3>1. k = Len(events) + 1 \/ (k \in 1 .. Len(events) /\ events'[k] = events[k])
      BY <2>1
    <3>2. events'[Len(events) + 1] = ev
      BY <2>1
    <3>3. CASE k = Len(events) + 1
      BY <2>2, <3>2, <3>3 DEF Published, Told
    <3> QED BY <2>3, <3>1, <3>3 DEF Published, Told
  <2> QED BY <2>1, <2>4 DEF EventsPublished
<1>2. ASSUME NEW s \in Slots, NEW v \in Values, add(s, v)
      PROVE  EventsPublished' /\ history \subseteq history'
  BY <1>1, <1>2 DEF add, Content
<1>3. ASSUME NEW s \in Slots, remove(s)
      PROVE  EventsPublished' /\ history \subseteq history'
  <2>1. links[s] \in Values
    BY <1>3 DEF remove, LinksInv, LinksTypeOK, Table, Content
  <2> QED BY <1>1, <1>3, <2>1 DEF remove, Content
<1>4. CASE Tick
  BY <1>4 DEF Tick, EventsPublished, Published, Told
<1> QED BY <1>2, <1>3, <1>4 DEF LinksNext

LEMMA OwnerKeepsIInv == IInv /\ OwnerStep => IInv'
<1> SUFFICES ASSUME IInv, OwnerStep PROVE IInv'
  OBVIOUS
<1> USE DEF IInv
<1>1. LinksInv' /\ LinksTypeOK'
  BY LinksStep DEF OwnerStep, LinksInv
<1>2. EventsPublished' /\ history \subseteq history'
  BY OwnerPublishes DEF OwnerStep
<1>3. UNCHANGED <<list, tracked, shared, step, snap, current, es, watchQ>>
  BY DEF OwnerStep, followVars, streamVars
<1>4. TypeOK'
  BY <1>1, <1>3 DEF TypeOK, ListTypeOK
<1>5. Room' /\ ZeroPublished' /\ SnapPublished' /\ OneProp' /\ ReplicaIsHistory'
  BY <1>2, <1>3 DEF Room, ZeroPublished, SnapPublished, OneProp, ReplicaIsHistory
<1>6. QueuePublished'
  BY <1>2, <1>3 DEF QueuePublished, Published, Told
<1> QED BY <1>1, <1>2, <1>4, <1>5, <1>6

(* Steps of the follower leave the owner alone. *)
LEMMA FollowerKeepsLinks ==
    ASSUME LinksInv, ZeroPublished, EventsPublished, UNCHANGED linksVars
    PROVE  LinksInv' /\ LinksTypeOK' /\ ZeroPublished' /\ EventsPublished'
<1>1. LinksInv'
  BY LinksStep
<1> QED BY <1>1 DEF linksVars, LinksInv, ZeroPublished, EventsPublished, Published, Told

(* A step that moves the follow along, and neither the list nor the stream. *)
FollowStep == StartFollow \/ ServeList \/ ListFails \/ FollowReturns \/ KeyRemoved \/ KeyAdded

LEMMA FollowKeepsIInv == IInv /\ FollowStep => IInv'
<1> SUFFICES ASSUME IInv, FollowStep PROVE IInv'
  OBVIOUS
<1> USE DEF IInv
<1>1. UNCHANGED <<linksVars, list, watchQ>>
  BY DEF FollowStep, StartFollow, ServeList, ListFails, FollowReturns, KeyRemoved, KeyAdded,
         streamVars
<1>2. LinksInv' /\ LinksTypeOK' /\ ZeroPublished' /\ EventsPublished'
  BY <1>1, FollowerKeepsLinks
<1>3. SnapPublished'
  BY <1>1 DEF FollowStep, StartFollow, ServeList, ListFails, FollowReturns, KeyRemoved, KeyAdded,
              SnapPublished, LinksInv, NewestIsCurrent, Current, linksVars
<1>4. /\ tracked' \in BOOLEAN /\ shared' \in BOOLEAN /\ Room'
      /\ step' \in {"idle", "list", "listed", "connecting"}
      /\ current' \in 0 .. MaxStreams
  BY DEF FollowStep, StartFollow, ServeList, ListFails, FollowReturns, KeyRemoved, KeyAdded,
         TypeOK, followVars, streamVars, Room
<1>5. snap' \in [ver: Version, table: Table, at: Nat]
  BY DEF FollowStep, StartFollow, ServeList, ListFails, FollowReturns, KeyRemoved, KeyAdded,
         TypeOK, followVars, streamVars, LinksTypeOK, Version, CurrentVersion
<1>6. es' \in [Streams -> EventSource]
  <2>1. CASE UNCHANGED es
    BY <2>1 DEF TypeOK
  <2>2. CASE KeyRemoved
    BY <2>2, ZenonT(40) DEF TypeOK, KeyRemoved, EventSource
  <2> QED BY <2>1, <2>2 DEF FollowStep, StartFollow, ServeList, ListFails, FollowReturns,
              KeyAdded, streamVars
<1>7. TypeOK'
  BY <1>1, <1>2, <1>4, <1>5, <1>6 DEF TypeOK, ListTypeOK
<1>8. QueuePublished' /\ OneProp' /\ ReplicaIsHistory'
  BY <1>1 DEF QueuePublished, Published, Told, OneProp, ReplicaIsHistory, linksVars
<1> QED BY <1>2, <1>3, <1>4, <1>7, <1>8

(* A step of one EventSource: it may put an event of the queue in the stream. *)
StreamStep(i) == \/ ServeEvent(i) \/ EventOpens(i) \/ EventFails(i)
                 \/ Dispatch(i) \/ LateDispatch(i) \/ ReadEnds(i)

LEMMA StreamTypes ==
    ASSUME NEW f \in [Streams -> EventSource], NEW i \in Streams, NEW n \in Nat,
           NEW st \in {"none", "connecting", "open", "closed"},
           NEW c \in {"idle", "asked", "served", "reading", "over"}
    PROVE  /\ [f EXCEPT ![i].conn = c] \in [Streams -> EventSource]
           /\ [f EXCEPT ![i].conn = c, ![i].state = st] \in [Streams -> EventSource]
           /\ [f EXCEPT ![i].conn = c, ![i].pos = n, ![i].subAt = n] \in [Streams -> EventSource]
           /\ [f EXCEPT ![i].pos = n] \in [Streams -> EventSource]
           /\ [f EXCEPT ![i].pos = n, ![i].conn = c] \in [Streams -> EventSource]
<1>1. \A e \in EventSource :
        /\ [e EXCEPT !.conn = c] \in EventSource
        /\ [e EXCEPT !.state = st] \in EventSource
        /\ [e EXCEPT !.pos = n] \in EventSource
        /\ [e EXCEPT !.subAt = n] \in EventSource
  BY DEF EventSource
<1>2. ASSUME NEW g \in [Streams -> EventSource]
      PROVE  /\ [g EXCEPT ![i].conn = c] \in [Streams -> EventSource]
             /\ [g EXCEPT ![i].state = st] \in [Streams -> EventSource]
             /\ [g EXCEPT ![i].pos = n] \in [Streams -> EventSource]
             /\ [g EXCEPT ![i].subAt = n] \in [Streams -> EventSource]
  BY <1>1
<1> QED BY <1>2

LEMMA StreamKeepsIInv == ASSUME IInv, NEW i \in Streams, StreamStep(i) PROVE IInv'
<1> USE DEF IInv
<1>1. UNCHANGED <<linksVars, list, tracked, shared, step, snap, current>>
  BY DEF StreamStep, ServeEvent, EventOpens, EventFails, Dispatch, LateDispatch, ReadEnds,
         followVars
<1>2. LinksInv' /\ LinksTypeOK' /\ ZeroPublished' /\ EventsPublished'
  BY <1>1, FollowerKeepsLinks
<1>3. events \in Seq(LinkEvent) /\ watchQ \in Seq(LinkEvent) /\ es[i] \in EventSource
  BY DEF TypeOK, LinksTypeOK
<1>4. es' \in [Streams -> EventSource] /\ watchQ' \in Seq(LinkEvent) /\ QueuePublished'
  <2>1. CASE ServeEvent(i) \/ EventOpens(i) \/ EventFails(i) \/ ReadEnds(i)
    <3>1. es' \in [Streams -> EventSource]
      <4>1. es \in [Streams -> EventSource] /\ Len(events) \in Nat
        BY <1>3 DEF TypeOK
      <4>2. CASE ServeEvent(i)
        BY <4>1, <4>2, StreamTypes, ZenonT(40) DEF ServeEvent
      <4>3. CASE EventOpens(i)
        BY <4>1, <4>3, StreamTypes DEF EventOpens
      <4>4. CASE EventFails(i)
        BY <4>1, <4>4, StreamTypes DEF EventFails
      <4>5. CASE ReadEnds(i)
        BY <4>1, <4>5, StreamTypes DEF ReadEnds
      <4> QED BY <2>1, <4>2, <4>3, <4>4, <4>5
    <3>2. UNCHANGED watchQ
      BY <2>1 DEF ServeEvent, EventOpens, EventFails, ReadEnds
    <3> QED BY <3>1, <3>2, <1>1, <1>3 DEF QueuePublished, Published, Told, linksVars
  <2>2. ASSUME NEW n \in 1 .. MaxRead, read(i, n),
               \/ es' = [es EXCEPT ![i].pos = @ + n]
               \/ es' = [es EXCEPT ![i].pos = @ + n, ![i].conn = "over"]
        PROVE  es' \in [Streams -> EventSource] /\ watchQ' \in Seq(LinkEvent) /\ QueuePublished'
    <3>1. n \in Nat \ {0} /\ es[i].pos \in Nat
      BY <1>3, StreamAssumption DEF EventSource
    <3>2. es' \in [Streams -> EventSource]
      <4>1. es \in [Streams -> EventSource] /\ es[i].pos + n \in Nat
        BY <3>1 DEF TypeOK
      <4>2. \/ es' = [es EXCEPT ![i].pos = es[i].pos + n]
            \/ es' = [es EXCEPT ![i].pos = es[i].pos + n, ![i].conn = "over"]
        BY <2>2
      <4>3. /\ [es EXCEPT ![i].pos = es[i].pos + n] \in [Streams -> EventSource]
            /\ [es EXCEPT ![i].pos = es[i].pos + n, ![i].conn = "over"]
                 \in [Streams -> EventSource]
        <5> HIDE DEF IInv
        <5> QED BY <4>1, StreamTypes, ZenonT(40)
      <4> QED BY <4>2, <4>3
    <3> DEFINE ev == events[es[i].pos + 1]
    <3>3. es[i].pos + 1 \in 1 .. Len(events) /\ watchQ' = Append(watchQ, ev)
      BY <2>2, <3>1, <1>3 DEF read
    <3>4. ev \in LinkEvent /\ Published(ev)
      BY <3>3, <1>3 DEF EventsPublished
    <3>5. watchQ' \in Seq(LinkEvent)
      BY <3>3, <3>4, <1>3
    <3>6. \A k \in 1 .. Len(watchQ') : Published(watchQ'[k])
      BY <3>3, <3>4, <1>3 DEF QueuePublished
    <3>7. QueuePublished'
      BY <3>6, <1>1 DEF QueuePublished, Published, Told, linksVars
    <3> QED BY <3>2, <3>5, <3>7
  <2>3. CASE Dispatch(i) \/ LateDispatch(i)
    BY <2>2, <2>3 DEF Dispatch, LateDispatch
  <2> QED BY <2>1, <2>3 DEF StreamStep
<1>5. TypeOK'
  BY <1>1, <1>2, <1>4 DEF TypeOK, ListTypeOK
<1>6. Room' /\ SnapPublished' /\ OneProp' /\ ReplicaIsHistory'
  BY <1>1 DEF Room, SnapPublished, OneProp, ReplicaIsHistory, linksVars
<1> QED BY <1>2, <1>4, <1>5, <1>6

(* The list response stores what the owner published under its version. *)
LEMMA ReceiveListKeepsIInv == IInv /\ ReceiveList => IInv'
<1> SUFFICES ASSUME IInv, ReceiveList PROVE IInv'
  OBVIOUS
<1> USE DEF IInv
<1> DEFINE contents == [s \in {t \in Slots : snap.table[t] # None} |-> snap.table[s]]
<1>1. UNCHANGED <<linksVars, tracked, shared, snap, watchQ>> /\ step' = "connecting"
  BY DEF ReceiveList
<1>2. LinksInv' /\ LinksTypeOK' /\ ZeroPublished' /\ EventsPublished'
  BY <1>1, FollowerKeepsLinks
<1>3. snap.table \in Table /\ snap.ver \in Version /\ ListTypeOK
  BY DEF TypeOK
<1>4. /\ store(Owner, contents, snap.ver)
      /\ DOMAIN contents \subseteq Slots
      /\ \A s \in DOMAIN contents : contents[s] \in Content /\ contents[s] = snap.table[s]
  BY <1>3, LinksAreStored DEF ReceiveList
<1>5. PICK h \in history : h.ver = snap.ver /\ h.table = snap.table
  BY DEF ReceiveList, SnapPublished
<1>6. history' = history
  BY <1>1 DEF linksVars
<1>7. ListTypeOK' /\ OneProp' /\ ReplicaIsHistory'
  <2>1. \A s \in DOMAIN contents : contents[s] \in Content /\ h.table[s] = contents[s]
    BY <1>4, <1>5
  <2> HIDE DEF contents
  <2> QED BY <1>3, <1>4, <1>5, <1>6, <2>1, StoreOfHistory
<1>8. current' \in 0 .. MaxStreams /\ es' \in [Streams -> EventSource]
  <2>1. current \in Nat /\ snap.at \in Nat /\ NewEventSource(snap.at) \in EventSource
    BY DEF TypeOK, EventSource, NewEventSource
  <2>2. current < MaxStreams
    BY DEF Room, ReceiveList
  <2> QED BY <2>1, <2>2, StreamAssumption DEF ReceiveList, TypeOK, Streams
<1>9. TypeOK'
  BY <1>1, <1>2, <1>7, <1>8 DEF TypeOK
<1>10. Room' /\ SnapPublished' /\ QueuePublished'
  BY <1>1 DEF Room, SnapPublished, QueuePublished, Published, Told, linksVars
<1> QED BY <1>2, <1>7, <1>9, <1>10

(* An event of the watch stream stores what the owner published. *)
LEMMA ApplyKeepsIInv == IInv /\ Apply => IInv'
<1> SUFFICES ASSUME IInv, Apply PROVE IInv'
  OBVIOUS
<1> USE DEF IInv
<1> DEFINE ev == Head(watchQ)
           contents == [s \in {ev.slot} |-> Told(ev)]
<1>1. UNCHANGED <<linksVars, tracked, shared, step, snap, current, es>>
  BY DEF Apply, followVars
<1>2. LinksInv' /\ LinksTypeOK' /\ ZeroPublished' /\ EventsPublished'
  BY <1>1, FollowerKeepsLinks
<1>3. watchQ \in Seq(LinkEvent) /\ watchQ # << >> /\ watchQ' = Tail(watchQ)
  BY DEF TypeOK, Apply
<1>4. ev \in LinkEvent /\ Published(ev)
  BY <1>3 DEF QueuePublished
<1>5. /\ store(Owner, contents, ev.ver)
      /\ DOMAIN contents \subseteq Slots
      /\ \A s \in DOMAIN contents : contents[s] \in Content /\ contents[s] = Told(ev)
  <2>1. ev.coop = Owner /\ updateFromEvent(ev)
    BY <1>4 DEF Apply, Published
  <2> QED BY <1>4, <2>1, EventIsStored
<1>6. PICK h \in history : h.ver = ev.ver /\ h.table[ev.slot] = Told(ev)
  BY <1>4 DEF Published
<1>7. ListTypeOK' /\ OneProp' /\ ReplicaIsHistory'
  <2>1. \A s \in DOMAIN contents : contents[s] \in Content /\ h.table[s] = contents[s]
    BY <1>5, <1>6
  <2>2. ev.ver \in Version /\ history' = history /\ ListTypeOK
    BY <1>1, <1>4 DEF LinkEvent, linksVars, TypeOK
  <2> HIDE DEF contents, ev
  <2> QED BY <1>5, <1>6, <2>1, <2>2, StoreOfHistory
<1>8. watchQ' \in Seq(LinkEvent) /\ QueuePublished'
  <2>1. /\ watchQ' \in Seq(LinkEvent)
        /\ \A k \in 1 .. Len(watchQ') : k + 1 \in 1 .. Len(watchQ) /\ watchQ'[k] = watchQ[k + 1]
    BY <1>3
  <2>2. \A k \in 1 .. Len(watchQ') : Published(watchQ'[k])
    BY <2>1 DEF QueuePublished
  <2> QED BY <2>1, <2>2, <1>1 DEF QueuePublished, Published, Told, linksVars
<1>9. TypeOK'
  BY <1>1, <1>2, <1>7, <1>8 DEF TypeOK
<1>10. Room' /\ SnapPublished'
  BY <1>1 DEF Room, SnapPublished, linksVars
<1> QED BY <1>2, <1>7, <1>8, <1>9, <1>10

-----------------------------------------------------------------------------
LEMMA IInvStart == Init => IInv
<1> SUFFICES ASSUME Init PROVE IInv
  OBVIOUS
<1>1. LinksInv /\ LinksTypeOK
  BY LinksStart DEF Init, LinksInv
<1>2. ZeroVersion \in Version /\ EmptyTable \in Table
  BY DEF ZeroVersion, Version, EmptyTable, Table, Content
<1>3. events = << >> /\ list = {} /\ step = "idle" /\ watchQ = << >>
  BY DEF Init, LinksInit, ListInit
<1>4. es \in [Streams -> EventSource]
  <2>1. NewEventSource(0) \in EventSource
    BY DEF EventSource, NewEventSource
  <2>2. [NewEventSource(0) EXCEPT !.state = "none", !.conn = "idle"] \in EventSource
    BY <2>1 DEF EventSource
  <2> QED BY <2>2 DEF Init
<1>5. TypeOK
  <2>1. snap \in [ver: Version, table: Table, at: Nat]
    BY <1>2 DEF Init
  <2>2. tracked \in BOOLEAN /\ shared \in BOOLEAN
    BY Zenon DEF Init
  <2>3. current \in 0 .. MaxStreams
    BY StreamAssumption DEF Init
  <2>4. list \subseteq Prop /\ watchQ \in Seq(LinkEvent)
    BY <1>3
  <2> QED BY <1>1, <1>3, <1>4, <2>1, <2>2, <2>3, <2>4 DEF TypeOK, ListTypeOK
<1>6. ZeroPublished
  BY DEF Init, LinksInit, ZeroPublished, Current, CurrentVersion, ZeroVersion
<1> QED BY <1>1, <1>3, <1>5, <1>6 DEF IInv, Room, EventsPublished, QueuePublished, SnapPublished,
             OneProp, ReplicaIsHistory

LEMMA IInvStep == IInv /\ [Next]_vars => IInv'
<1> SUFFICES ASSUME IInv, [Next]_vars PROVE IInv'
  OBVIOUS
<1>1. CASE OwnerStep
  BY <1>1, OwnerKeepsIInv
<1>2. CASE FollowStep
  BY <1>2, FollowKeepsIInv
<1>3. CASE ReceiveList
  BY <1>3, ReceiveListKeepsIInv
<1>4. ASSUME NEW i \in Streams, StreamStep(i) PROVE IInv'
  BY <1>4, StreamKeepsIInv
<1>5. CASE Apply
  BY <1>5, ApplyKeepsIInv
<1>6. CASE UNCHANGED vars
  <2>1. UNCHANGED linksVars
    BY <1>6 DEF vars
  <2>2. LinksInv' /\ LinksTypeOK' /\ ZeroPublished' /\ EventsPublished'
    BY <2>1, FollowerKeepsLinks DEF IInv
  <2>3. Room' /\ QueuePublished' /\ SnapPublished' /\ OneProp' /\ ReplicaIsHistory'
    BY <1>6 DEF IInv, vars, linksVars, followVars, streamVars, Room, QueuePublished, Published,
                Told, SnapPublished, OneProp, ReplicaIsHistory
  <2>4. TypeOK'
    BY <1>6, <2>2 DEF IInv, vars, followVars, streamVars, TypeOK, ListTypeOK
  <2> QED BY <2>2, <2>3, <2>4 DEF IInv
<1> QED BY <1>1, <1>2, <1>3, <1>4, <1>5, <1>6 DEF Next, FollowStep, StreamStep

-----------------------------------------------------------------------------
(* Every variable of the owner, the follower and the streams keeps its type. *)
THEOREM TypeCorrect == Spec => []TypeOK
<1>1. IInv => TypeOK
  BY DEF IInv
<1> QED BY <1>1, IInvStart, IInvStep, PTL DEF Spec

(* The replica never invents: whatever the interleaving of list responses and
   events of several EventSources, it holds of a slot what the owner's table held
   under the version the prop carries. *)
THEOREM ReplicaWithinHistory == Spec => []ReplicaIsHistory
<1>1. IInv => ReplicaIsHistory
  BY DEF IInv
<1> QED BY <1>1, IInvStart, IInvStep, PTL DEF Spec

-----------------------------------------------------------------------------
(* contents, which the owner's table held at h, are stored under h's version. *)
StoresPast(h, contents) ==
    /\ h.ver \in Version
    /\ DOMAIN contents \subseteq Slots
    /\ \A s \in DOMAIN contents : contents[s] \in Content /\ contents[s] = h.table[s]
    /\ store(Owner, contents, h.ver)

(* What the two operations that write the replica do to it, given IInv. *)
LEMMA ReceiveListStores ==
    ASSUME IInv, ReceiveList
    PROVE  \E h \in history : \E contents : StoresPast(h, contents)
<1> DEFINE contents == [s \in {t \in Slots : snap.table[t] # None} |-> snap.table[s]]
<1>1. snap.table \in Table /\ snap.ver \in Version
  BY DEF IInv, TypeOK
<1>2. /\ store(Owner, contents, snap.ver)
      /\ DOMAIN contents \subseteq Slots
      /\ \A s \in DOMAIN contents : contents[s] \in Content /\ contents[s] = snap.table[s]
  BY <1>1, LinksAreStored DEF ReceiveList
<1>3. PICK h \in history : h.ver = snap.ver /\ h.table = snap.table
  BY DEF IInv, ReceiveList, SnapPublished
<1> HIDE DEF contents
<1> QED BY <1>1, <1>2, <1>3 DEF StoresPast

LEMMA ApplyStores ==
    ASSUME IInv, Apply
    PROVE  \E h \in history : \E contents : StoresPast(h, contents)
<1> DEFINE ev == Head(watchQ)
           contents == [s \in {ev.slot} |-> Told(ev)]
<1>1. ev \in LinkEvent /\ Published(ev)
  BY DEF IInv, TypeOK, Apply, QueuePublished
<1>2. /\ store(Owner, contents, ev.ver)
      /\ DOMAIN contents \subseteq Slots
      /\ \A s \in DOMAIN contents : contents[s] \in Content /\ contents[s] = Told(ev)
  <2>1. ev.coop = Owner /\ updateFromEvent(ev)
    BY <1>1 DEF Apply, Published
  <2> QED BY <1>1, <2>1, EventIsStored
<1>3. PICK h \in history : h.ver = ev.ver /\ h.table[ev.slot] = Told(ev)
  BY <1>1 DEF Published
<1>4. \A s \in DOMAIN contents : contents[s] = h.table[s]
  BY <1>2, <1>3
<1>5. ev.ver \in Version
  BY <1>1 DEF LinkEvent
<1> HIDE DEF contents, ev
<1>6. StoresPast(h, contents)
  BY <1>2, <1>3, <1>4, <1>5 DEF StoresPast
<1> QED BY <1>3, <1>6

(* Every other step leaves the replica alone. *)
LEMMA OthersKeepList ==
    ASSUME [Next]_vars
    PROVE  ReceiveList \/ Apply \/ UNCHANGED list
BY DEF Next, OwnerStep, StartFollow, ServeList, ListFails, FollowReturns, ServeEvent, EventOpens,
       EventFails, Dispatch, LateDispatch, ReadEnds, KeyRemoved, KeyAdded, vars

(* No step takes the replica back to something older, or to another value of
   the same version. *)
THEOREM NeverRegresses == Spec => NeverRegress
<1> DEFINE Forward == \A p \in list : \E q \in list' :
                        /\ q.coop = p.coop /\ q.slot = p.slot
                        /\ q = p \/ isPast(p.ver, q.ver)
<1>1. IInv /\ [Next]_vars => [Forward]_vars
  <2> SUFFICES ASSUME IInv, [Next]_vars PROVE Forward
    OBVIOUS
  <2>1. CASE UNCHANGED list
    BY <2>1
  <2>2. CASE ReceiveList \/ Apply
    <3>1. PICK h \in history : \E contents : StoresPast(h, contents)
      BY <2>2, ReceiveListStores, ApplyStores
    <3>2. PICK contents : StoresPast(h, contents)
      BY <3>1
    <3> QED BY <3>2, StoreProps DEF IInv, TypeOK, StoresPast
  <2> QED BY <2>1, <2>2, OthersKeepList
<1> QED BY <1>1, IInvStart, IInvStep, PTL DEF Spec, NeverRegress

-----------------------------------------------------------------------------
(* Held is the only prop of the slot, when there is one. *)
LEMMA HeldIs ==
    ASSUME OneProp, NEW s \in Slots
    PROVE  /\ \A p \in list : p.slot = s => Held(s) = [ver |-> p.ver, value |-> p.value]
           /\ (\A p \in list : p.slot # s) => Held(s) = [ver |-> ZeroVersion, value |-> None]
<1>1. ASSUME NEW p \in list, p.slot = s
      PROVE  Held(s) = [ver |-> p.ver, value |-> p.value]
  <2>1. find(Owner, s) = {p}
    BY <1>1 DEF OneProp, find
  <2>2. (CHOOSE q \in find(Owner, s) : TRUE) = p
    BY <2>1
  <2> QED BY <2>1, <2>2 DEF Held
<1>2. ASSUME \A p \in list : p.slot # s
      PROVE  Held(s) = [ver |-> ZeroVersion, value |-> None]
  BY <1>2 DEF Held, find
<1> QED BY <1>1, <1>2

LEMMA HeldIsNext ==
    ASSUME OneProp', NEW s \in Slots
    PROVE  /\ \A p \in list' : p.slot = s => Held(s)' = [ver |-> p.ver, value |-> p.value]
           /\ (\A p \in list' : p.slot # s) => Held(s)' = [ver |-> ZeroVersion, value |-> None]
<1>1. ASSUME NEW p \in list', p.slot = s
      PROVE  Held(s)' = [ver |-> p.ver, value |-> p.value]
  <2>1. find(Owner, s)' = {p}
    BY <1>1 DEF OneProp, find
  <2>2. (CHOOSE q \in find(Owner, s)' : TRUE) = p
    BY <2>1
  <2> QED BY <2>1, <2>2 DEF Held
<1>2. ASSUME \A p \in list' : p.slot # s
      PROVE  Held(s)' = [ver |-> ZeroVersion, value |-> None]
  BY <1>2 DEF Held, find
<1> QED BY <1>1, <1>2

(* A store moves the view of the slots it tells of, where that is news.  A
   version of zero tells of no value, so adding it changes no view. *)
LEMMA StoreMovesHeld ==
    ASSUME ListTypeOK, OneProp, OneProp', NEW ver \in Version, NEW contents, NEW s \in Slots,
           store(Owner, contents, ver),
           DOMAIN contents \subseteq Slots,
           s \in DOMAIN contents /\ ver = ZeroVersion => contents[s] = None
    PROVE  Held(s)' = IF s \in DOMAIN contents /\ isPast(Held(s).ver, ver)
                      THEN [ver |-> ver, value |-> contents[s]] ELSE Held(s)
<1> DEFINE fresh == outdated(Owner, DOMAIN contents, ver)
           new(t) == [coop |-> Owner, slot |-> t, value |-> contents[t], ver |-> ver]
<1>1. list' = {p \in list : p.coop # Owner \/ p.slot \notin fresh} \cup {new(t) : t \in fresh}
  BY DEF store
<1>2. fresh = {t \in DOMAIN contents : \A p \in list : p.slot = t => isPast(p.ver, ver)}
  BY DEF outdated, find, OneProp
<1>3. CASE s \in fresh
  <2>1. Held(s)' = [ver |-> ver, value |-> contents[s]]
    <3>1. new(s) \in list' /\ new(s).slot = s
      BY <1>1, <1>3
    <3> QED BY <3>1, HeldIsNext
  <2>2. CASE \E p \in list : p.slot = s
    BY <2>1, <2>2, <1>2, <1>3, HeldIs
  <2>3. CASE \A p \in list : p.slot # s
    <3>1. Held(s) = [ver |-> ZeroVersion, value |-> None]
      BY <2>3, HeldIs
    <3>2. isPast(ZeroVersion, ver) \/ ver = ZeroVersion
      BY ZeroIsOldest DEF AtLeast
    <3>3. ~isPast(ZeroVersion, ZeroVersion)
      BY DEF isPast, ZeroVersion
    <3> QED BY <2>1, <3>1, <3>2, <3>3, <1>2, <1>3
  <2> QED BY <2>2, <2>3
<1>4. CASE s \notin fresh
  <2>1. \A p : (p \in list' /\ p.slot = s) <=> (p \in list /\ p.slot = s)
    BY <1>1, <1>4
  <2>2. Held(s)' = Held(s)
    BY <2>1, HeldIs, HeldIsNext
  <2>3. s \in DOMAIN contents => ~isPast(Held(s).ver, ver)
    BY <1>2, <1>4, HeldIs
  <2> QED BY <2>2, <2>3
<1> QED BY <1>3, <1>4

-----------------------------------------------------------------------------
(* The abstract module orders and names the same versions and tables. *)
LEMMA SameData ==
    /\ \A v, w : Replica!isPast(v, w) <=> isPast(v, w)
    /\ Replica!Content = Content
    /\ Replica!EmptyTable = EmptyTable
    /\ Replica!ZeroVersion = ZeroVersion
BY DEF Replica!isPast, isPast, Replica!Content, Content, Replica!EmptyTable, EmptyTable,
       Replica!ZeroVersion, ZeroVersion

(* A change of the owner is a change of the abstract table. *)
LEMMA OwnerChanges ==
    ASSUME IInv, OwnerStep
    PROVE  [Replica!Next]_(Replica!staleVars)
<1> DEFINE view == [s \in Slots |-> Held(s)]
<1>1. UNCHANGED view
  BY DEF OwnerStep, Held, find
<1>2. links \in Table /\ LinksTypeOK /\ NewestIsCurrent /\ history \subseteq Snapshot
  BY DEF IInv, LinksInv, LinksTypeOK
<1>3. ASSUME NEW s \in Slots, NEW v \in Values, NEW w \in Content, NEW type,
             links[s] # w, links' = [links EXCEPT ![s] = w], publish(type, s, v)
      PROVE  Replica!Change(s, w)
  <2>1. /\ CurrentVersion \in Version /\ CurrentVersion' \in Version
        /\ isPast(CurrentVersion, CurrentVersion')
    BY <1>2, <1>3, UpdateIsNewer DEF publish, NewestIsCurrent
  <2>2. history' = history \cup {Current'}
    BY <1>3 DEF publish
  <2>3. Current'.table = links' /\ Current'.ver = CurrentVersion'
    BY DEF Current
  <2>4. \A g \in history : isPast(g.ver, Current'.ver)
    BY <1>2, <2>1, <2>3, PastTransitive DEF NewestIsCurrent, Snapshot
  <2>5. \E h \in history' :
           /\ history' = history \cup {h}
           /\ h.table = links'
           /\ \A g \in history : Replica!isPast(g.ver, h.ver)
    BY <2>2, <2>3, <2>4, SameData
  <2> QED BY <1>1, <1>3, <2>5 DEF Replica!Change
<1>4. ASSUME NEW s \in Slots, NEW v \in Values, add(s, v) PROVE Replica!Next
  <2>1. Replica!Change(s, v)
    BY <1>3, <1>4 DEF add, Content
  <2> QED BY <2>1, SameData DEF Content, Replica!Next
<1>5. ASSUME NEW s \in Slots, remove(s) PROVE Replica!Next
  <2>1. links[s] \in Values
    BY <1>2, <1>5 DEF remove, Table, Content
  <2>2. Replica!Change(s, None)
    BY <1>3, <1>5, <2>1 DEF remove, Content
  <2> QED BY <2>2, SameData DEF Content, Replica!Next
<1>6. CASE Tick
  BY <1>1, <1>6 DEF Tick, Replica!staleVars
<1> QED BY <1>4, <1>5, <1>6 DEF OwnerStep, LinksNext

(* A store of published contents is a refresh of the slots it tells of. *)
LEMMA StoreRefreshes ==
    ASSUME IInv, IInv', UNCHANGED linksVars, NEW h \in history, NEW contents,
           h.ver \in Version, DOMAIN contents \subseteq Slots,
           \A s \in DOMAIN contents : contents[s] \in Content /\ contents[s] = h.table[s],
           store(Owner, contents, h.ver)
    PROVE  Replica!Next
<1>1. h.ver = ZeroVersion => h.table = EmptyTable
  BY DEF IInv, LinksInv, VersionNamesTable, ZeroPublished
<1>2. ASSUME NEW s \in Slots
      PROVE  Held(s)' = IF s \in DOMAIN contents /\ isPast(Held(s).ver, h.ver)
                        THEN [ver |-> h.ver, value |-> h.table[s]] ELSE Held(s)
  <2>1. s \in DOMAIN contents /\ h.ver = ZeroVersion => contents[s] = None
    BY <1>1 DEF EmptyTable
  <2>2. ListTypeOK /\ OneProp /\ OneProp'
    BY DEF IInv, TypeOK
  <2> QED BY <2>1, <2>2, StoreMovesHeld
<1>3. Replica!Refresh(h, DOMAIN contents)
  <2>1. [s \in Slots |-> Held(s)]' =
           [s \in Slots |-> IF s \in DOMAIN contents /\ isPast(Held(s).ver, h.ver)
                            THEN [ver |-> h.ver, value |-> h.table[s]] ELSE Held(s)]
    BY <1>2
  <2> QED BY <2>1, SameData DEF Replica!Refresh, linksVars
<1> QED BY <1>3 DEF Replica!Next

(* Following implements the abstract replica: it moves the view of a slot only
   forward, and only to what the owner's table has held. *)
THEOREM ReplicationRefines == Spec => StaleReplicaSpec
<1>1. Init => Replica!Init
  <2> SUFFICES ASSUME Init PROVE Replica!Init
    OBVIOUS
  <2>1. links = EmptyTable /\ history = {[ver |-> ZeroVersion, table |-> EmptyTable]}
    BY DEF Init, LinksInit, Current, CurrentVersion, ZeroVersion
  <2>2. \A s \in Slots : Held(s) = [ver |-> ZeroVersion, value |-> None]
    BY DEF Init, ListInit, Held, find
  <2> QED BY <2>1, <2>2, SameData DEF Replica!Init
<1>2. IInv /\ IInv' /\ [Next]_vars => [Replica!Next]_(Replica!staleVars)
  <2> SUFFICES ASSUME IInv, IInv', [Next]_vars PROVE [Replica!Next]_(Replica!staleVars)
    OBVIOUS
  <2>1. CASE OwnerStep
    BY <2>1, OwnerChanges
  <2>2. CASE ReceiveList \/ Apply
    <3>1. UNCHANGED linksVars
      BY <2>2 DEF ReceiveList, Apply
    <3>2. PICK h \in history : \E contents : StoresPast(h, contents)
      BY <2>2, ReceiveListStores, ApplyStores
    <3>3. PICK contents : StoresPast(h, contents)
      BY <3>2
    <3> QED BY <3>1, <3>3, StoreRefreshes DEF StoresPast
  <2>3. CASE UNCHANGED <<linksVars, list>>
    BY <2>3 DEF linksVars, Replica!staleVars, Held, find
  <2>4. OwnerStep \/ ReceiveList \/ Apply \/ UNCHANGED <<linksVars, list>>
    BY DEF Next, StartFollow, ServeList, ListFails, FollowReturns, ServeEvent, EventOpens,
           EventFails, Dispatch, LateDispatch, ReadEnds, KeyRemoved, KeyAdded, vars
  <2> QED BY <2>1, <2>2, <2>3, <2>4
<1> QED BY <1>1, <1>2, IInvStart, IInvStep, PTL DEF Spec, StaleReplicaSpec, Replica!Spec
-----------------------------------------------------------------------------
(* v is at least as new as each of the first n events. *)
NotOlder(v, n) == \A k \in 1 .. n : AtLeast(v, events[k].ver)

(* Slot s was not changed after the first n events. *)
Settled(s, n) == \A k \in 1 .. Len(events) : events[k].slot = s => k <= n

(* Whatever the owner published since the last change of a slot holds the value
   that the slot has. *)
HistorySettles ==
    \A s \in Slots, h \in history :
        (\A k \in 1 .. Len(events) : events[k].slot = s => AtLeast(h.ver, events[k].ver))
            => h.table[s] = links[s]

(* The replica knows of an event, or will when it has read its watch stream. *)
Knows(s, v) == \E p \in list : p.slot = s /\ AtLeast(p.ver, v)

Taken(ev) ==
    \/ \E m \in 1 .. Len(watchQ) : watchQ[m] = ev
    \/ Knows(ev.slot, ev.ver)

(* The list response tells of every slot not changed since, and is at least as
   new as the list before the first EventSource. *)
SnapTells ==
    step = "listed" =>
        /\ snap.at <= Len(events)
        /\ NotOlder(snap.ver, snap.at)
        /\ \A s \in Slots : Settled(s, snap.at) => snap.table[s] = links[s]
        /\ current # 0 => es[1].listAt <= snap.at

(* Nothing the replica holds or will read is older than the first list. *)
FirstListIsOldest ==
    /\ current = 0 => list = {} /\ watchQ = << >>
    /\ current # 0 => /\ \A p \in list : NotOlder(p.ver, es[1].listAt)
                      /\ \A m \in 1 .. Len(watchQ) : NotOlder(watchQ[m].ver, es[1].listAt)

(* What the list before EventSource i told of is kept. *)
ListKept(i) ==
    i <= current =>
        \A s \in Slots :
            Settled(s, es[i].listAt) /\ links[s] # None =>
                \E p \in list : p.slot = s /\ NotOlder(p.ver, es[i].listAt)

(* EventSource i has taken all it has passed since the subscription. *)
EventsKept(i) ==
    /\ es[i].listAt <= Len(events) /\ es[i].pos <= Len(events)
    /\ i > current => es[i].state = "none" /\ es[i].conn = "idle"
    /\ es[i].conn \in {"served", "reading"} =>
          es[1].listAt <= es[i].subAt /\ es[i].subAt <= es[i].pos
    /\ \A k \in 1 .. es[i].pos : es[i].subAt < k => Taken(events[k])

FollowInv ==
    /\ SnapTells
    /\ FirstListIsOldest
    /\ \A i \in Streams : ListKept(i) /\ EventsKept(i)

(* With IInv, the inductive invariant behind DrainedAgrees. *)
DInv == IInv /\ LastTold /\ HistorySettles /\ FollowInv

-----------------------------------------------------------------------------
LEMMA AtLeastTransitive ==
    ASSUME NEW u \in Version, NEW v \in Version, NEW w \in Version,
           AtLeast(v, u), AtLeast(w, v)
    PROVE  AtLeast(w, u)
BY PastTransitive DEF AtLeast

LEMMA EventVersions ==
    LinksTypeOK => /\ Len(events) \in Nat
                   /\ \A k \in 1 .. Len(events) : events[k] \in LinkEvent /\ events[k].ver \in Version
<1> SUFFICES ASSUME events \in Seq(LinkEvent)
             PROVE  /\ Len(events) \in Nat
                    /\ \A k \in 1 .. Len(events) : events[k] \in LinkEvent /\ events[k].ver \in Version
  BY DEF LinksTypeOK
<1>1. \A k \in 1 .. Len(events) : events[k] \in LinkEvent
  OBVIOUS
<1> QED BY <1>1 DEF LinkEvent

LEMMA NewerIsNotOlder ==
    ASSUME LinksTypeOK, NEW v \in Version, NEW w \in Version, NEW n \in Nat,
           n <= Len(events), NotOlder(v, n), AtLeast(w, v)
    PROVE  NotOlder(w, n)
<1> SUFFICES ASSUME NEW k \in 1 .. n PROVE AtLeast(w, events[k].ver)
  BY DEF NotOlder
<1>1. k \in 1 .. Len(events) /\ events[k].ver \in Version
  BY EventVersions
<1>2. AtLeast(v, events[k].ver)
  BY DEF NotOlder
<1> QED BY <1>1, <1>2, AtLeastTransitive

LEMMA FewerAreNotNewer ==
    ASSUME NEW v, NEW m \in Nat, NEW n \in Nat, m <= n, NotOlder(v, n)
    PROVE  NotOlder(v, m)
BY DEF NotOlder

(* An event is at least as new as the events up to it. *)
LEMMA EventNotOlder ==
    ASSUME LinksInv, NEW k \in 1 .. Len(events), NEW n \in Nat, n <= k
    PROVE  NotOlder(events[k].ver, n)
<1> SUFFICES ASSUME NEW j \in 1 .. n PROVE AtLeast(events[k].ver, events[j].ver)
  BY DEF NotOlder
<1>1. j \in 1 .. Len(events) /\ (j = k \/ j < k)
  BY EventVersions DEF LinksInv
<1> QED BY <1>1 DEF LinksInv, EventsOrdered, AtLeast

(* After a store the replica knows what was stored, and what it knew. *)
LEMMA StoreKnows ==
    ASSUME ListTypeOK, OneProp, NEW ver \in Version, NEW contents,
           DOMAIN contents \subseteq Slots,
           \A s \in DOMAIN contents : contents[s] \in Content,
           store(Owner, contents, ver)
    PROVE  /\ \A s \in DOMAIN contents : \E q \in list' : q.slot = s /\ AtLeast(q.ver, ver)
           /\ \A p \in list : \E q \in list' : q.slot = p.slot /\ AtLeast(q.ver, p.ver)
           /\ \A q \in list' : q \in list \/ q.ver = ver
           /\ \A q \in list \cup list' : q.ver \in Version
<1>1. /\ ListTypeOK'
      /\ \A p \in list' : p \in list \/ p.ver = ver
      /\ \A p \in list : \E q \in list' : q.slot = p.slot /\ (q = p \/ isPast(p.ver, q.ver))
  BY StoreProps
<1>2. \A q \in list \cup list' : q.ver \in Version
  BY <1>1 DEF ListTypeOK, Prop
<1>3. ASSUME NEW s \in DOMAIN contents
      PROVE  \E q \in list' : q.slot = s /\ AtLeast(q.ver, ver)
  <2> DEFINE fresh == outdated(Owner, DOMAIN contents, ver)
             new == [coop |-> Owner, slot |-> s, value |-> contents[s], ver |-> ver]
  <2>1. CASE s \in fresh
    <3>1. new \in list' /\ new.slot = s /\ new.ver = ver
      BY <2>1 DEF store
    <3> QED BY <3>1 DEF AtLeast
  <2>2. CASE s \notin fresh
    <3>1. PICK p \in list : p.slot = s /\ ~isPast(p.ver, ver)
      BY <2>2 DEF outdated, find
    <3>2. p \in list'
      BY <2>2, <3>1 DEF store
    <3> QED BY <3>1, <3>2, <1>2, PastTotal DEF AtLeast
  <2> QED BY <2>1, <2>2
<1> QED BY <1>1, <1>2, <1>3 DEF AtLeast

(* A replica after a store knows of everything it knew of before. *)
LEMMA KnownStaysKnown ==
    ASSUME \A p \in list : \E q \in list' : q.slot = p.slot /\ AtLeast(q.ver, p.ver),
           \A q \in list \cup list' : q.ver \in Version,
           NEW s, NEW v \in Version, Knows(s, v)
    PROVE  \E q \in list' : q.slot = s /\ AtLeast(q.ver, v)
<1>1. PICK p \in list : p.slot = s /\ AtLeast(p.ver, v)
  BY DEF Knows
<1>2. PICK q \in list' : q.slot = s /\ AtLeast(q.ver, p.ver)
  BY <1>1
<1> QED BY <1>1, <1>2, AtLeastTransitive

-----------------------------------------------------------------------------
(* What a step of the owner may do to the queue of events and to the table. *)
OwnerExtends ==
    /\ Len(events) \in Nat /\ Len(events') \in Nat /\ Len(events) <= Len(events')
    /\ \A k \in 1 .. Len(events) : events'[k] = events[k]
    /\ \A s \in Slots, n \in Nat :
          n <= Len(events) /\ Settled(s, n)' => Settled(s, n) /\ links'[s] = links[s]

(* A change is an event of its slot, and the history has its table. *)
LEMMA PublishSettles ==
    ASSUME LinksInv, HistorySettles, NEW s \in Slots, NEW v \in Values, NEW w \in Content,
           NEW type \in {"link-added", "link-removed"},
           links' = [links EXCEPT ![s] = w], publish(type, s, v)
    PROVE  OwnerExtends /\ HistorySettles'
<1> DEFINE ev == [type |-> type, coop |-> Owner, slot |-> s, value |-> v,
                  ver |-> CurrentVersion']
<1>1. /\ links \in Table /\ LinksTypeOK /\ events \in Seq(LinkEvent)
      /\ events' = Append(events, ev) /\ history' = history \cup {Current'}
  BY DEF LinksInv, LinksTypeOK, publish
<1>2. /\ Len(events) \in Nat /\ Len(events') = Len(events) + 1
      /\ events'[Len(events) + 1] = ev /\ ev.slot = s /\ ev.ver = CurrentVersion'
      /\ \A k \in 1 .. Len(events) : events'[k] = events[k]
  BY <1>1
<1>3. \A t \in Slots : t # s => links'[t] = links[t]
  BY <1>1 DEF Table
<1>4. ASSUME NEW t \in Slots, NEW n \in Nat, n <= Len(events), Settled(t, n)'
      PROVE  Settled(t, n) /\ links'[t] = links[t]
  <2>1. \A k \in 1 .. Len(events) + 1 : events'[k].slot = t => k <= n
    BY <1>2, <1>4 DEF Settled
  <2>2. t # s
    <3>1. Len(events) + 1 \in 1 .. Len(events) + 1 /\ ~(Len(events) + 1 <= n)
      BY <1>2, <1>4
    <3> QED BY <2>1, <3>1, <1>2
  <2>3. \A k \in 1 .. Len(events) : events[k].slot = t => k <= n
    BY <2>1, <1>2
  <2> QED BY <2>2, <2>3, <1>3 DEF Settled
<1>5. OwnerExtends
  BY <1>2, <1>4 DEF OwnerExtends
<1>6. HistorySettles'
  <2> SUFFICES ASSUME NEW t \in Slots, NEW h \in history',
                      \A k \in 1 .. Len(events') :
                          events'[k].slot = t => AtLeast(h.ver, events'[k].ver)
               PROVE  h.table[t] = links'[t]
    BY DEF HistorySettles, AtLeast
  <2>1. CASE h = Current'
    BY <2>1 DEF Current
  <2>2. CASE h \in history
    <3>1. h.ver \in Version /\ isPast(h.ver, CurrentVersion') /\ CurrentVersion' \in Version
      <4>1. /\ CurrentVersion \in Version /\ CurrentVersion' \in Version
            /\ isPast(CurrentVersion, CurrentVersion')
        BY <1>1, UpdateIsNewer DEF LinksInv, NewestIsCurrent, publish
      <4>2. h.ver \in Version /\ AtLeast(CurrentVersion, h.ver)
        BY <2>2 DEF LinksInv, LinksTypeOK, Snapshot, NewestIsCurrent
      <4> QED BY <4>1, <4>2, PastTransitive
    <3>2. t # s
      <4>1. ~AtLeast(h.ver, CurrentVersion')
        BY <3>1, PastTotal DEF AtLeast
      <4>2. Len(events) + 1 \in 1 .. Len(events')
        BY <1>2
      <4> QED BY <4>1, <4>2, <1>2
    <3>3. \A k \in 1 .. Len(events) : events[k].slot = t => AtLeast(h.ver, events[k].ver)
      BY <1>2
    <3>4. h.table[t] = links[t]
      BY <2>2, <3>3 DEF HistorySettles
    <3> QED BY <3>2, <3>4, <1>3
  <2> QED BY <2>1, <2>2, <1>1
<1> QED BY <1>5, <1>6

LEMMA OwnerSettles ==
    ASSUME LinksInv, HistorySettles, LinksNext
    PROVE  OwnerExtends /\ HistorySettles'
<1>1. ASSUME NEW s \in Slots, NEW v \in Values, add(s, v)
      PROVE  OwnerExtends /\ HistorySettles'
  BY <1>1, PublishSettles DEF add, Content
<1>2. ASSUME NEW s \in Slots, remove(s)
      PROVE  OwnerExtends /\ HistorySettles'
  <2>1. links[s] \in Values
    BY <1>2 DEF remove, LinksInv, LinksTypeOK, Table, Content
  <2> QED BY <1>2, <2>1, PublishSettles DEF remove, Content
<1>3. CASE Tick
  <2>1. UNCHANGED <<links, events, history>> /\ Len(events) \in Nat
    BY <1>3, EventVersions DEF Tick, LinksInv
  <2> QED BY <2>1 DEF OwnerExtends, Settled, HistorySettles, AtLeast
<1> QED BY <1>1, <1>2, <1>3 DEF LinksNext

(* A step of the owner keeps what the follow relies on: what it changes is
   not yet covered. *)
LEMMA OwnerKeepsFollow ==
    ASSUME DInv, OwnerStep
    PROVE  FollowInv'
<1>1. UNCHANGED <<list, step, snap, current, es, watchQ>>
  BY DEF OwnerStep, followVars, streamVars
<1>2. OwnerExtends
  BY OwnerSettles DEF DInv, IInv, OwnerStep
<1>3. /\ snap.at \in Nat /\ current \in Nat
      /\ \A i \in Streams : es[i] \in EventSource
      /\ \A i \in Streams : es[i].listAt \in Nat /\ es[i].pos \in Nat /\ es[i].subAt \in Nat
      /\ current # 0 => 1 \in Streams
  BY StreamAssumption DEF DInv, IInv, TypeOK, EventSource, Streams
<1>4. \A v : \A n \in Nat : n <= Len(events) /\ NotOlder(v, n) => NotOlder(v, n)'
  BY <1>2 DEF OwnerExtends, NotOlder
<1>5. \A k \in 1 .. Len(events) : Taken(events[k]) => Taken(events[k])'
  BY <1>1, <1>2 DEF OwnerExtends, Taken, Knows
<1>6. SnapTells'
  <2> SUFFICES ASSUME step = "listed"
               PROVE  /\ snap.at <= Len(events')
                      /\ NotOlder(snap.ver, snap.at)'
                      /\ \A s \in Slots : Settled(s, snap.at)' => snap.table[s] = links'[s]
                      /\ current # 0 => es[1].listAt <= snap.at
    BY <1>1 DEF SnapTells
  <2>1. /\ snap.at <= Len(events) /\ NotOlder(snap.ver, snap.at)
        /\ \A s \in Slots : Settled(s, snap.at) => snap.table[s] = links[s]
        /\ current # 0 => es[1].listAt <= snap.at
    BY DEF DInv, FollowInv, SnapTells
  <2> QED BY <2>1, <1>1, <1>2, <1>3, <1>4 DEF OwnerExtends
<1>7. FirstListIsOldest'
  <2>1. current # 0 => es[1].listAt \in Nat /\ es[1].listAt <= Len(events)
    BY <1>3 DEF DInv, FollowInv, EventsKept
  <2> QED BY <2>1, <1>1, <1>4 DEF DInv, FollowInv, FirstListIsOldest
<1>8. ASSUME NEW i \in Streams PROVE ListKept(i)' /\ EventsKept(i)'
  <2>1. ListKept(i) /\ EventsKept(i) /\ es[i].listAt \in Nat /\ es[i].listAt <= Len(events)
    BY <1>3 DEF DInv, FollowInv, EventsKept
  <2>2. ListKept(i)'
    <3> SUFFICES ASSUME i <= current, NEW s \in Slots, Settled(s, es[i].listAt)', links'[s] # None
                 PROVE  \E p \in list : p.slot = s /\ NotOlder(p.ver, es[i].listAt)'
      BY <1>1 DEF ListKept
    <3>1. Settled(s, es[i].listAt) /\ links[s] # None
      BY <1>1, <1>2, <2>1 DEF OwnerExtends
    <3> QED BY <3>1, <2>1, <1>1, <1>4 DEF ListKept
  <2>3. EventsKept(i)'
    <3>1. es[i].pos \in Nat /\ es[i].pos <= Len(events) /\ es[i].listAt <= Len(events')
      BY <2>1, <1>2, <1>3 DEF EventsKept, OwnerExtends
    <3>2. es[i].pos <= Len(events') /\ \A k \in 1 .. es[i].pos : k \in 1 .. Len(events)
      BY <3>1, <1>2 DEF OwnerExtends
    <3>3. \A k \in 1 .. es[i].pos : es[i].subAt < k => Taken(events[k])'
      BY <2>1, <3>2, <1>5 DEF EventsKept
    <3> QED BY <2>1, <3>1, <3>2, <3>3, <1>1 DEF EventsKept
  <2> QED BY <2>2, <2>3
<1> QED BY <1>6, <1>7, <1>8 DEF FollowInv

-----------------------------------------------------------------------------
(* Steps of the follower leave the events and the table alone. *)
LEMMA FollowerKeepsOwner ==
    ASSUME LastTold, HistorySettles, UNCHANGED linksVars
    PROVE  LastTold' /\ HistorySettles'
BY DEF linksVars, LastTold, Told, HistorySettles, AtLeast

LEMMA SameEvents ==
    ASSUME UNCHANGED linksVars
    PROVE  /\ \A v, n : NotOlder(v, n)' <=> NotOlder(v, n)
           /\ \A s, n : Settled(s, n)' <=> Settled(s, n)
BY DEF linksVars, NotOlder, Settled

(* The list response is served with all events so far. *)
LEMMA FollowKeepsFollow ==
    ASSUME DInv, FollowStep
    PROVE  FollowInv'
<1>1. UNCHANGED <<linksVars, list, current, watchQ>>
  BY DEF FollowStep, StartFollow, ServeList, ListFails, FollowReturns, KeyRemoved, KeyAdded,
         streamVars
<1>2. UNCHANGED <<events, links>>
  BY <1>1 DEF linksVars
<1>3. /\ current \in Nat /\ current <= MaxStreams /\ Len(events) \in Nat
      /\ es \in [Streams -> EventSource]
      /\ current # 0 => 1 \in Streams /\ current \in Streams
  BY StreamAssumption, EventVersions DEF DInv, IInv, TypeOK, Streams, LinksInv
<1>4. /\ DOMAIN es' = Streams
      /\ \A i \in Streams : /\ es'[i].conn = es[i].conn /\ es'[i].pos = es[i].pos
                            /\ es'[i].listAt = es[i].listAt /\ es'[i].subAt = es[i].subAt
                            /\ es'[i].state = es[i].state \/ i = current
  <2>1. CASE UNCHANGED es
    BY <2>1, <1>3
  <2>2. CASE KeyRemoved
    BY <2>2, <1>3 DEF KeyRemoved, EventSource
  <2> QED BY <2>1, <2>2 DEF FollowStep, StartFollow, ServeList, ListFails, FollowReturns,
              KeyAdded, streamVars
<1>5. \A i \in Streams : /\ es'[i].listAt = es[i].listAt
                         /\ i > current => es'[i].state = es[i].state
  BY <1>3, <1>4 DEF Streams
<1>6. SnapTells'
  <2>1. CASE ServeList
    <3>1. /\ snap' = [ver |-> CurrentVersion, table |-> links, at |-> Len(events)]
      BY <2>1 DEF ServeList
    <3>2. NotOlder(CurrentVersion, Len(events))
      BY DEF DInv, IInv, LinksInv, NewestIsCurrent, NotOlder
    <3>3. NotOlder(snap.ver, snap.at)'
      BY <3>1, <3>2, <1>1, SameEvents
    <3>4. current # 0 => es[1].listAt <= Len(events)
      BY <1>3 DEF DInv, FollowInv, EventsKept
    <3> QED BY <3>1, <3>3, <3>4, <1>1, <1>2, <1>3, <1>5 DEF SnapTells
  <2>2. CASE step' = "listed" => step = "listed" /\ snap' = snap
    <3> SUFFICES ASSUME step' = "listed", step = "listed", snap' = snap
                 PROVE  /\ snap'.at <= Len(events')
                        /\ NotOlder(snap.ver, snap.at)'
                        /\ \A s \in Slots : Settled(s, snap.at)' => snap'.table[s] = links'[s]
                        /\ current' # 0 => es'[1].listAt <= snap'.at
      BY <2>2 DEF SnapTells
    <3>1. /\ snap.at <= Len(events) /\ NotOlder(snap.ver, snap.at)
          /\ \A s \in Slots : Settled(s, snap.at) => snap.table[s] = links[s]
          /\ current # 0 => es[1].listAt <= snap.at
      BY DEF DInv, FollowInv, SnapTells
    <3> QED BY <3>1, <1>1, <1>2, <1>3, <1>5, SameEvents
  <2> QED BY <2>1, <2>2 DEF FollowStep, StartFollow, ListFails, FollowReturns, KeyRemoved, KeyAdded
<1>7. FirstListIsOldest'
  <2>1. FirstListIsOldest
    BY DEF DInv, FollowInv
  <2>2. /\ \A p \in list : NotOlder(p.ver, es[1].listAt)' <=> NotOlder(p.ver, es'[1].listAt)
        /\ \A m : NotOlder(watchQ[m].ver, es[1].listAt)' <=> NotOlder(watchQ[m].ver, es'[1].listAt)
    BY <1>1, <1>2 DEF NotOlder
  <2> QED BY <2>1, <2>2, <1>1, <1>3, <1>5 DEF FirstListIsOldest
<1>8. ASSUME NEW i \in Streams PROVE ListKept(i)' /\ EventsKept(i)'
  <2>1. ListKept(i) /\ EventsKept(i)
    BY DEF DInv, FollowInv
  <2>2. ListKept(i)'
    BY <2>1, <1>1, <1>2, <1>5 DEF ListKept, Settled, NotOlder
  <2>3. EventsKept(i)'
    <3>1. \A k \in 1 .. es[i].pos : es[i].subAt < k => Taken(events[k])'
      BY <2>1, <1>1, <1>2 DEF EventsKept, Taken, Knows, AtLeast
    <3>2. 1 \in Streams
      BY StreamAssumption DEF Streams
    <3> QED BY <2>1, <3>1, <3>2, <1>1, <1>2, <1>4, <1>5 DEF EventsKept
  <2> QED BY <2>2, <2>3
<1> QED BY <1>6, <1>7, <1>8 DEF FollowInv

-----------------------------------------------------------------------------
(* After the list response the replica knows of every slot it told of. *)
LEMMA ReceiveListKeepsFollow ==
    ASSUME DInv, ReceiveList
    PROVE  FollowInv'
<1> DEFINE contents == [s \in {t \in Slots : snap.table[t] # None} |-> snap.table[s]]
           new == current + 1
<1>1. /\ UNCHANGED <<linksVars, watchQ>> /\ step = "listed" /\ step' = "connecting"
      /\ current' = new /\ es' = [es EXCEPT ![new] = NewEventSource(snap.at)]
  BY DEF ReceiveList
<1>2. UNCHANGED <<events, links>>
  BY <1>1 DEF linksVars
<1>3. /\ current \in Nat /\ Len(events) \in Nat /\ es \in [Streams -> EventSource]
      /\ new \in Streams /\ 1 \in Streams
      /\ snap.table \in Table /\ snap.ver \in Version /\ snap.at \in Nat /\ LinksTypeOK
  <2>1. current < MaxStreams
    BY DEF DInv, IInv, Room, ReceiveList
  <2>2. TypeOK /\ LinksTypeOK
    BY DEF DInv, IInv, LinksInv
  <2>3. current \in Nat
    BY <2>2, StreamAssumption DEF TypeOK
  <2> QED BY <2>1, <2>2, <2>3, StreamAssumption, EventVersions DEF TypeOK, Streams
<1>4. /\ snap.at <= Len(events) /\ NotOlder(snap.ver, snap.at)
      /\ \A s \in Slots : Settled(s, snap.at) => snap.table[s] = links[s]
      /\ current # 0 => es[1].listAt <= snap.at
  BY <1>1 DEF DInv, FollowInv, SnapTells
<1>5. /\ DOMAIN contents = {t \in Slots : snap.table[t] # None}
      /\ \A s \in DOMAIN contents : \E q \in list' : q.slot = s /\ AtLeast(q.ver, snap.ver)
      /\ \A p \in list : \E q \in list' : q.slot = p.slot /\ AtLeast(q.ver, p.ver)
      /\ \A q \in list' : q \in list \/ q.ver = snap.ver
      /\ \A q \in list \cup list' : q.ver \in Version
  <2>1. /\ store(Owner, contents, snap.ver)
        /\ DOMAIN contents \subseteq Slots
        /\ \A s \in DOMAIN contents : contents[s] \in Content
    BY <1>3, LinksAreStored DEF ReceiveList
  <2>2. ListTypeOK /\ OneProp
    BY DEF DInv, IInv, TypeOK
  <2>3. DOMAIN contents = {t \in Slots : snap.table[t] # None}
    OBVIOUS
  <2> HIDE DEF contents
  <2> QED BY <2>1, <2>2, <2>3, <1>3, StoreKnows
<1> HIDE DEF contents
<1>6. /\ es'[new].listAt = snap.at /\ es'[new].conn = "asked" /\ es'[new].pos = 0
      /\ es'[new].subAt = 0
      /\ \A i \in Streams : i # new => es'[i] = es[i]
  BY <1>1, <1>3 DEF NewEventSource
<1>7. SnapTells'
  BY <1>1 DEF SnapTells
<1>8. FirstListIsOldest'
  <2>1. current' # 0
    BY <1>1, <1>3
  <2>2. CASE current = 0
    <3>1. list = {} /\ watchQ = << >> /\ new = 1
      BY <2>2 DEF DInv, FollowInv, FirstListIsOldest
    <3>2. \A p \in list' : NotOlder(p.ver, snap.at)
      BY <3>1, <1>4, <1>5
    <3>3. \A p \in list' : NotOlder(p.ver, es[1].listAt)'
      BY <3>1, <3>2, <1>2, <1>6 DEF NotOlder
    <3> QED BY <2>1, <3>1, <3>3, <1>1 DEF FirstListIsOldest
  <2>3. CASE current # 0
    <3>1. es'[1] = es[1] /\ es[1].listAt \in Nat
      BY <2>3, <1>3, <1>6 DEF EventSource
    <3>2. NotOlder(snap.ver, es[1].listAt)
      BY <2>3, <3>1, <1>3, <1>4, FewerAreNotNewer
    <3>3. /\ \A p \in list' : NotOlder(p.ver, es[1].listAt)
          /\ \A m \in 1 .. Len(watchQ) : NotOlder(watchQ[m].ver, es[1].listAt)
      BY <2>3, <3>2, <1>5 DEF DInv, FollowInv, FirstListIsOldest
    <3> QED BY <2>1, <3>1, <3>3, <1>1, <1>2 DEF FirstListIsOldest, NotOlder
  <2> QED BY <2>2, <2>3
<1>9. ASSUME NEW i \in Streams PROVE ListKept(i)'
  <2> SUFFICES ASSUME i <= new, NEW s \in Slots, Settled(s, es[i].listAt)', links[s] # None
               PROVE  \E q \in list' : q.slot = s /\ NotOlder(q.ver, es[i].listAt)'
    BY <1>1, <1>2 DEF ListKept
  <2>1. Settled(s, es'[i].listAt)
    BY <1>2 DEF Settled
  <2>2. CASE i = new
    <3>1. s \in DOMAIN contents
      BY <2>1, <2>2, <1>4, <1>5, <1>6
    <3>2. PICK q \in list' : q.slot = s /\ AtLeast(q.ver, snap.ver)
      BY <3>1, <1>5
    <3>3. NotOlder(q.ver, snap.at)
      BY <3>2, <1>3, <1>4, <1>5, NewerIsNotOlder
    <3> QED BY <3>2, <3>3, <2>2, <1>2, <1>6 DEF NotOlder
  <2>3. CASE i # new
    <3>1. i <= current /\ es'[i] = es[i] /\ es[i].listAt \in Nat /\ es[i].listAt <= Len(events)
      BY <2>3, <1>3, <1>6 DEF Streams, EventSource, DInv, FollowInv, EventsKept
    <3>2. PICK p \in list : p.slot = s /\ NotOlder(p.ver, es[i].listAt)
      BY <2>1, <3>1 DEF DInv, FollowInv, ListKept
    <3>3. PICK q \in list' : q.slot = s /\ AtLeast(q.ver, p.ver)
      BY <3>2, <1>5
    <3>4. NotOlder(q.ver, es[i].listAt)
      BY <3>1, <3>2, <3>3, <1>3, <1>5, NewerIsNotOlder
    <3> QED BY <3>1, <3>3, <3>4, <1>2 DEF NotOlder
  <2> QED BY <2>2, <2>3
<1>10. ASSUME NEW k \in 1 .. Len(events), Taken(events[k]) PROVE Taken(events[k])'
  <2>1. CASE Knows(events[k].slot, events[k].ver)
    <3>1. events[k].ver \in Version
      BY <1>3, EventVersions
    <3> QED BY <2>1, <3>1, <1>2, <1>5, KnownStaysKnown DEF Taken, Knows
  <2>2. CASE \E m \in 1 .. Len(watchQ) : watchQ[m] = events[k]
    BY <2>2, <1>1, <1>2 DEF Taken
  <2> QED BY <2>1, <2>2, <1>10 DEF Taken
<1>11. ASSUME NEW i \in Streams PROVE EventsKept(i)'
  <2>1. CASE i = new
    BY <2>1, <1>1, <1>2, <1>3, <1>4, <1>6 DEF EventsKept
  <2>2. CASE i # new
    <3>1. es'[i] = es[i] /\ EventsKept(i) /\ es[i].pos \in Nat
      BY <2>2, <1>3, <1>6 DEF DInv, FollowInv, EventSource
    <3>2. \A k \in 1 .. es[i].pos : es[i].subAt < k => Taken(events[k])'
      BY <3>1, <1>3, <1>10 DEF EventsKept
    <3>3. i > new => i > current
      BY <1>3 DEF Streams
    <3>4. es[i].conn \in {"served", "reading"} => es'[1] = es[1]
      <4>1. es[i].conn \in {"served", "reading"} => ~(i > current)
        BY <3>1 DEF EventsKept
      <4> QED BY <4>1, <1>3, <1>6 DEF Streams
    <3> QED BY <3>1, <3>2, <3>3, <3>4, <1>1, <1>2 DEF EventsKept
  <2> QED BY <2>1, <2>2
<1> QED BY <1>7, <1>8, <1>9, <1>11 DEF FollowInv

-----------------------------------------------------------------------------
(* A step of an EventSource that adds to the watch stream, or does not. *)
LEMMA StreamKeepsLists ==
    ASSUME DInv, UNCHANGED <<linksVars, list, step, snap, current>>,
           \A i \in Streams : es'[i].listAt = es[i].listAt
    PROVE  SnapTells' /\ \A i \in Streams : ListKept(i)'
<1>1. UNCHANGED <<events, links>>
  BY DEF linksVars
<1>2. current # 0 => 1 \in Streams
  BY StreamAssumption DEF DInv, IInv, TypeOK, Streams
<1>3. SnapTells'
  BY <1>1, <1>2 DEF DInv, FollowInv, SnapTells, NotOlder, Settled
<1>4. ASSUME NEW i \in Streams PROVE ListKept(i)'
  BY <1>1 DEF DInv, FollowInv, ListKept, NotOlder, Settled
<1> QED BY <1>3, <1>4

(* A subscription starts at the last event, and one read takes one event. *)
LEMMA StreamKeepsFollow ==
    ASSUME MaxRead = 1, DInv, NEW i \in Streams, StreamStep(i)
    PROVE  FollowInv'
<1>1. UNCHANGED <<linksVars, list, step, snap, current>>
  BY DEF StreamStep, ServeEvent, EventOpens, EventFails, Dispatch, LateDispatch, ReadEnds,
         followVars
<1>2. UNCHANGED <<events, links>>
  BY <1>1 DEF linksVars
<1>3. /\ es \in [Streams -> EventSource] /\ Len(events) \in Nat /\ current \in Nat
      /\ watchQ \in Seq(LinkEvent) /\ 1 \in Streams /\ LinksInv
      /\ \A j \in Streams : es[j].listAt \in Nat /\ es[j].pos \in Nat /\ es[j].subAt \in Nat
  <2>1. TypeOK /\ LinksInv
    BY DEF DInv, IInv
  <2>2. Len(events) \in Nat
    BY <2>1, EventVersions DEF LinksInv
  <2>3. /\ es \in [Streams -> EventSource] /\ watchQ \in Seq(LinkEvent)
        /\ current \in Nat /\ 1 \in Streams
    BY <2>1, StreamAssumption DEF TypeOK, Streams
  <2>4. \A j \in Streams : es[j] \in EventSource
    BY <2>3
  <2>5. \A j \in Streams : es[j].listAt \in Nat /\ es[j].pos \in Nat /\ es[j].subAt \in Nat
    BY <2>4 DEF EventSource
  <2> QED BY <2>1, <2>2, <2>3, <2>5
<1>4. /\ \A j \in Streams : EventsKept(j)
      /\ FirstListIsOldest
  BY DEF DInv, FollowInv
<1>5. i <= current /\ current # 0
  BY <1>3, <1>4 DEF EventsKept, StreamStep, ServeEvent, EventOpens, EventFails, Dispatch,
                    LateDispatch, ReadEnds, read, Streams
<1>6. CASE ServeEvent(i) \/ EventOpens(i) \/ EventFails(i) \/ ReadEnds(i)
  <2>1. UNCHANGED watchQ
    BY <1>6 DEF ServeEvent, EventOpens, EventFails, ReadEnds
  <2>2. /\ es'[i].listAt = es[i].listAt
        /\ \A j \in Streams : j # i => es'[j] = es[j]
    <3>1. es[i] \in EventSource
      BY <1>3
    <3>2. CASE ServeEvent(i)
      BY <3>1, <3>2, <1>3 DEF ServeEvent, EventSource
    <3>3. CASE EventOpens(i)
      BY <3>1, <3>3, <1>3 DEF EventOpens, EventSource
    <3>4. CASE EventFails(i)
      BY <3>1, <3>4, <1>3 DEF EventFails, EventSource
    <3>5. CASE ReadEnds(i)
      BY <3>1, <3>5, <1>3 DEF ReadEnds, EventSource
    <3> QED BY <3>2, <3>3, <3>4, <3>5, <1>6
  <2>3. \/ /\ es'[i].pos = es[i].pos /\ es'[i].subAt = es[i].subAt
           /\ es'[i].conn \in {"served", "reading"} => es[i].conn \in {"served", "reading"}
        \/ es'[i].pos = Len(events) /\ es'[i].subAt = Len(events)
    <3>1. es[i] \in EventSource
      BY <1>3
    <3>2. CASE ServeEvent(i)
      BY <3>1, <3>2, <1>3 DEF ServeEvent, EventSource
    <3>3. CASE EventOpens(i)
      BY <3>1, <3>3, <1>3 DEF EventOpens, EventSource
    <3>4. CASE EventFails(i)
      BY <3>1, <3>4, <1>3 DEF EventFails, EventSource
    <3>5. CASE ReadEnds(i)
      BY <3>1, <3>5, <1>3 DEF ReadEnds, EventSource
    <3> QED BY <3>2, <3>3, <3>4, <3>5, <1>6
  <2>4. \A j \in Streams : es'[j].listAt = es[j].listAt
    BY <2>2
  <2>5. \A k \in 1 .. Len(events) : Taken(events[k])' <=> Taken(events[k])
    BY <2>1, <1>1, <1>2 DEF Taken, Knows, AtLeast
  <2>6. EventsKept(i)'
    <3>1. ~(i > current) /\ es'[i].listAt <= Len(events') /\ es'[1].listAt <= Len(events)
      BY <2>4, <1>2, <1>3, <1>4, <1>5 DEF EventsKept, Streams
    <3>2. CASE /\ es'[i].pos = es[i].pos /\ es'[i].subAt = es[i].subAt
               /\ es'[i].conn \in {"served", "reading"} => es[i].conn \in {"served", "reading"}
      <4>1. \A k \in 1 .. es[i].pos : k \in 1 .. Len(events)
        BY <1>3, <1>4 DEF EventsKept
      <4>2. \A k \in 1 .. es[i].pos : es[i].subAt < k => Taken(events[k])'
        BY <4>1, <2>5, <1>4 DEF EventsKept
      <4> QED BY <3>1, <3>2, <4>2, <2>4, <1>1, <1>2, <1>3, <1>4 DEF EventsKept
    <3>3. CASE es'[i].pos = Len(events) /\ es'[i].subAt = Len(events)
      <4>1. \A k \in 1 .. Len(events) : ~(Len(events) < k)
        BY <1>3
      <4> QED BY <3>1, <3>3, <4>1, <1>1, <1>2, <1>3 DEF EventsKept
    <3> QED BY <2>3, <3>2, <3>3
  <2>7. ASSUME NEW j \in Streams, j # i PROVE EventsKept(j)'
    BY <2>2, <2>4, <2>5, <2>7, <1>1, <1>2, <1>3, <1>4 DEF EventsKept
  <2>8. FirstListIsOldest'
    BY <2>1, <2>4, <1>1, <1>2, <1>3, <1>4 DEF FirstListIsOldest, NotOlder
  <2> QED BY <2>4, <2>6, <2>7, <2>8, <1>1, StreamKeepsLists DEF FollowInv
<1>7. CASE Dispatch(i) \/ LateDispatch(i)
  <2> PICK k \in Nat : k = es[i].pos + 1
    BY <1>3
  <2>1. /\ read(i, 1)
        /\ \/ es' = [es EXCEPT ![i].pos = es[i].pos + 1]
           \/ es' = [es EXCEPT ![i].pos = es[i].pos + 1, ![i].conn = "over"]
    <3>1. 1 .. MaxRead = {1}
      OBVIOUS
    <3> QED BY <3>1, <1>7 DEF Dispatch, LateDispatch
  <2>2. /\ es[i].conn = "reading" /\ k \in 1 .. Len(events)
        /\ watchQ' = Append(watchQ, events[k])
    BY <2>1, <1>3 DEF read
  <2>3. /\ es'[i].listAt = es[i].listAt /\ es'[i].pos = k /\ es'[i].subAt = es[i].subAt
        /\ es'[i].state = es[i].state /\ es'[i].conn \in {"reading", "over"}
        /\ \A j \in Streams : j # i => es'[j] = es[j]
    <3>1. es[i] \in EventSource
      BY <1>3
    <3> QED BY <3>1, <2>1, <2>2, <1>3 DEF EventSource
  <2>4. \A j \in Streams : es'[j].listAt = es[j].listAt
    BY <2>3
  <2>5. /\ Len(watchQ) \in Nat /\ Len(watchQ') = Len(watchQ) + 1
        /\ watchQ'[Len(watchQ) + 1] = events[k]
        /\ \A m \in 1 .. Len(watchQ) : watchQ'[m] = watchQ[m]
    <3>1. events[k] \in LinkEvent
      BY <2>2, <1>3, EventVersions DEF LinksInv
    <3> QED BY <2>2, <3>1, <1>3
  <2>6. Taken(events[k])' /\ \A j \in 1 .. Len(events) : Taken(events[j]) => Taken(events[j])'
    <3>1. Len(watchQ) + 1 \in 1 .. Len(watchQ')
      BY <2>5
    <3>2. Taken(events[k])'
      BY <3>1, <2>5, <1>2 DEF Taken
    <3>3. ASSUME NEW j \in 1 .. Len(events), Taken(events[j]) PROVE Taken(events[j])'
      <4>1. CASE Knows(events[j].slot, events[j].ver)
        BY <4>1, <1>1, <1>2 DEF Taken, Knows, AtLeast
      <4>2. CASE \E m \in 1 .. Len(watchQ) : watchQ[m] = events[j]
        <5>1. PICK m \in 1 .. Len(watchQ) : watchQ[m] = events[j]
          BY <4>2
        <5>2. m \in 1 .. Len(watchQ') /\ watchQ'[m] = events'[j]
          BY <5>1, <2>5, <1>2
        <5> QED BY <5>2 DEF Taken
      <4> QED BY <3>3, <4>1, <4>2 DEF Taken
    <3> QED BY <3>2, <3>3
  <2>7. es[1].listAt <= es[i].subAt /\ es[i].subAt <= es[i].pos
    BY <2>2, <1>4 DEF EventsKept
  <2>8. NotOlder(events[k].ver, es[1].listAt)
    <3>1. es[1].listAt \in Nat /\ es[1].listAt <= k
      BY <2>7, <1>3
    <3> QED BY <3>1, <2>2, <1>3, EventNotOlder
  <2>9. FirstListIsOldest'
    <3>1. /\ \A p \in list : NotOlder(p.ver, es[1].listAt)
          /\ \A m \in 1 .. Len(watchQ) : NotOlder(watchQ[m].ver, es[1].listAt)
      BY <1>4, <1>5 DEF FirstListIsOldest
    <3>2. \A m \in 1 .. Len(watchQ') : NotOlder(watchQ'[m].ver, es[1].listAt)
      <4>1. \A m \in 1 .. Len(watchQ') : m \in 1 .. Len(watchQ) \/ m = Len(watchQ) + 1
        BY <2>5
      <4> QED BY <4>1, <3>1, <2>5, <2>8
    <3>3. \A v : NotOlder(v, es[1].listAt) => \A j \in 1 .. es'[1].listAt : AtLeast(v, events'[j].ver)
      BY <2>4, <1>2, <1>3 DEF NotOlder
    <3> QED BY <3>1, <3>2, <3>3, <1>1, <1>5 DEF FirstListIsOldest, NotOlder
  <2>10. EventsKept(i)'
    <3>1. \A j \in 1 .. k : es[i].subAt < j => Taken(events[j])'
      <4>1. \A j \in 1 .. k : j = k \/ j \in 1 .. es[i].pos
        BY <1>3
      <4>2. \A j \in 1 .. es[i].pos : j \in 1 .. Len(events)
        BY <2>2, <1>3
      <4> QED BY <4>1, <4>2, <2>6, <1>4 DEF EventsKept
    <3>2. es[i].listAt <= Len(events) /\ k <= Len(events) /\ es[i].subAt <= k
      BY <2>2, <2>7, <1>3, <1>4 DEF EventsKept
    <3>3. ~(i > current)
      BY <1>5, <1>3 DEF Streams
    <3> QED BY <3>1, <3>2, <3>3, <2>3, <2>4, <2>7, <1>1, <1>2, <1>3 DEF EventsKept
  <2>11. ASSUME NEW j \in Streams, j # i PROVE EventsKept(j)'
    <3>1. \A m \in 1 .. es[j].pos : m \in 1 .. Len(events)
      BY <1>3, <1>4 DEF EventsKept
    <3>2. \A m \in 1 .. es[j].pos : es[j].subAt < m => Taken(events[m])'
      BY <3>1, <2>6, <1>4 DEF EventsKept
    <3> QED BY <3>2, <2>3, <2>4, <2>11, <1>1, <1>2, <1>3, <1>4 DEF EventsKept
  <2> QED BY <2>4, <2>9, <2>10, <2>11, <1>1, StreamKeepsLists DEF FollowInv
<1> QED BY <1>6, <1>7 DEF StreamStep

-----------------------------------------------------------------------------
(* What was read from the watch stream is known from then on. *)
LEMMA ApplyKeepsFollow ==
    ASSUME DInv, Apply
    PROVE  FollowInv'
<1>1. UNCHANGED <<linksVars, step, snap, current, es>>
  BY DEF Apply, followVars
<1>2. UNCHANGED <<events, links>>
  BY <1>1 DEF linksVars
<1>3. /\ watchQ \in Seq(LinkEvent) /\ watchQ # << >> /\ watchQ' = Tail(watchQ)
      /\ current \in Nat /\ LinksTypeOK /\ Len(events) \in Nat
      /\ \A j \in Streams : es[j].listAt \in Nat /\ es[j].pos \in Nat
  BY EventVersions DEF DInv, IInv, TypeOK, Apply, LinksInv, EventSource
<1> PICK ev : ev = Head(watchQ)
  OBVIOUS
<1>4. /\ ev = watchQ[1] /\ ev \in LinkEvent /\ ev.ver \in Version /\ ev.coop = Owner
      /\ 1 \in 1 .. Len(watchQ) /\ updateFromEvent(ev)
  <2>1. ev = watchQ[1] /\ ev \in LinkEvent /\ 1 \in 1 .. Len(watchQ)
    BY <1>3
  <2>2. Published(watchQ[1])
    BY <2>1 DEF DInv, IInv, QueuePublished
  <2> QED BY <2>1, <2>2 DEF LinkEvent, Published, Apply
<1>5. /\ \E q \in list' : q.slot = ev.slot /\ AtLeast(q.ver, ev.ver)
      /\ \A p \in list : \E q \in list' : q.slot = p.slot /\ AtLeast(q.ver, p.ver)
      /\ \A q \in list' : q \in list \/ q.ver = ev.ver
      /\ \A q \in list \cup list' : q.ver \in Version
  <2> DEFINE contents == [s \in {ev.slot} |-> Told(ev)]
  <2>1. /\ store(Owner, contents, ev.ver)
        /\ DOMAIN contents \subseteq Slots
        /\ \A s \in DOMAIN contents : contents[s] \in Content
    BY <1>4, EventIsStored
  <2>2. ListTypeOK /\ OneProp
    BY DEF DInv, IInv, TypeOK
  <2>3. ev.slot \in DOMAIN contents
    OBVIOUS
  <2> HIDE DEF contents
  <2> QED BY <2>1, <2>2, <2>3, <1>4, StoreKnows
<1>6. \A k \in 1 .. Len(watchQ') : k + 1 \in 1 .. Len(watchQ) /\ watchQ'[k] = watchQ[k + 1]
  BY <1>3
<1>7. \A m \in 1 .. Len(watchQ) : m = 1 \/ (m - 1 \in 1 .. Len(watchQ') /\ watchQ'[m - 1] = watchQ[m])
  BY <1>3
<1>8. SnapTells'
  <2>1. current # 0 => 1 \in Streams
    BY StreamAssumption DEF DInv, IInv, TypeOK, Streams
  <2> QED BY <2>1, <1>1, <1>2 DEF DInv, FollowInv, SnapTells, NotOlder, Settled
<1>9. FirstListIsOldest'
  <2>1. FirstListIsOldest
    BY DEF DInv, FollowInv
  <2>2. current # 0
    BY <2>1, <1>3 DEF FirstListIsOldest
  <2>3. NotOlder(ev.ver, es[1].listAt)
    BY <2>1, <2>2, <1>4 DEF FirstListIsOldest
  <2>4. \A p \in list' : NotOlder(p.ver, es[1].listAt)
    BY <2>1, <2>2, <2>3, <1>5 DEF FirstListIsOldest
  <2>5. \A m \in 1 .. Len(watchQ') : NotOlder(watchQ'[m].ver, es[1].listAt)
    BY <2>1, <2>2, <1>6 DEF FirstListIsOldest
  <2> QED BY <2>2, <2>4, <2>5, <1>1, <1>2 DEF FirstListIsOldest, NotOlder
<1>10. ASSUME NEW i \in Streams PROVE ListKept(i)'
  <2> SUFFICES ASSUME i <= current, NEW s \in Slots, Settled(s, es[i].listAt), links[s] # None
               PROVE  \E q \in list' : q.slot = s /\ NotOlder(q.ver, es[i].listAt)
    BY <1>1, <1>2 DEF ListKept, Settled, NotOlder
  <2>1. es[i].listAt \in Nat /\ es[i].listAt <= Len(events)
    BY <1>3 DEF DInv, FollowInv, EventsKept
  <2>2. PICK p \in list : p.slot = s /\ NotOlder(p.ver, es[i].listAt)
    BY DEF DInv, FollowInv, ListKept
  <2>3. PICK q \in list' : q.slot = s /\ AtLeast(q.ver, p.ver)
    BY <2>2, <1>5
  <2>4. NotOlder(q.ver, es[i].listAt)
    BY <2>1, <2>2, <2>3, <1>3, <1>5, NewerIsNotOlder
  <2> QED BY <2>3, <2>4
<1>11. ASSUME NEW k \in 1 .. Len(events), Taken(events[k]) PROVE Taken(events[k])'
  <2>1. CASE Knows(events[k].slot, events[k].ver)
    <3>1. events[k].ver \in Version
      BY <1>3, EventVersions
    <3> QED BY <2>1, <3>1, <1>2, <1>5, KnownStaysKnown DEF Taken, Knows
  <2>2. CASE \E m \in 1 .. Len(watchQ) : watchQ[m] = events[k]
    <3>1. PICK m \in 1 .. Len(watchQ) : watchQ[m] = events[k]
      BY <2>2
    <3>2. CASE m = 1
      BY <3>1, <3>2, <1>2, <1>4, <1>5 DEF Taken, Knows
    <3>3. CASE m - 1 \in 1 .. Len(watchQ') /\ watchQ'[m - 1] = watchQ[m]
      BY <3>1, <3>3, <1>2 DEF Taken
    <3> QED BY <3>2, <3>3, <1>7
  <2> QED BY <2>1, <2>2, <1>11 DEF Taken
<1>12. ASSUME NEW i \in Streams PROVE EventsKept(i)'
  <2>1. EventsKept(i) /\ \A k \in 1 .. es[i].pos : k \in 1 .. Len(events)
    BY <1>3 DEF DInv, FollowInv, EventsKept
  <2>2. \A k \in 1 .. es[i].pos : es[i].subAt < k => Taken(events[k])'
    BY <2>1, <1>11 DEF EventsKept
  <2> QED BY <2>1, <2>2, <1>1, <1>2 DEF EventsKept
<1> QED BY <1>8, <1>9, <1>10, <1>12 DEF FollowInv

-----------------------------------------------------------------------------
LEMMA DInvStart == Init => DInv
<1> SUFFICES ASSUME Init PROVE DInv
  OBVIOUS
<1>1. IInv /\ LastTold
  BY IInvStart, LastToldStart DEF Init
<1>2. HistorySettles
  BY DEF Init, LinksInit, HistorySettles, Current
<1>3. /\ current = 0 /\ step = "idle" /\ list = {} /\ watchQ = << >> /\ events = << >>
      /\ \A i \in Streams : /\ es[i].state = "none" /\ es[i].conn = "idle"
                            /\ es[i].pos = 0 /\ es[i].listAt = 0
  BY DEF Init, LinksInit, ListInit, NewEventSource
<1>4. Len(events) = 0
  BY <1>3
<1>5. SnapTells /\ FirstListIsOldest
  BY <1>3 DEF SnapTells, FirstListIsOldest
<1>6. ASSUME NEW i \in Streams PROVE ListKept(i) /\ EventsKept(i)
  <2>1. i > current
    BY <1>3 DEF Streams
  <2> QED BY <2>1, <1>3, <1>4 DEF ListKept, EventsKept, Streams
<1> QED BY <1>1, <1>2, <1>5, <1>6 DEF DInv, FollowInv

LEMMA DInvStep ==
    ASSUME MaxRead = 1, DInv, [Next]_vars
    PROVE  DInv'
<1>1. IInv'
  BY IInvStep DEF DInv
<1>2. CASE OwnerStep
  <2>1. LastTold'
    BY <1>1, <1>2, LastToldStep DEF DInv, IInv, OwnerStep
  <2>2. HistorySettles'
    BY <1>2, OwnerSettles DEF DInv, IInv, OwnerStep
  <2> QED BY <2>1, <2>2, <1>1, <1>2, OwnerKeepsFollow DEF DInv
<1>3. ASSUME UNCHANGED linksVars, FollowInv' PROVE DInv'
  BY <1>1, <1>3, FollowerKeepsOwner DEF DInv
<1>4. CASE FollowStep
  <2>1. UNCHANGED linksVars
    BY <1>4 DEF FollowStep, StartFollow, ServeList, ListFails, FollowReturns, KeyRemoved, KeyAdded
  <2> QED BY <2>1, <1>3, <1>4, FollowKeepsFollow
<1>5. CASE ReceiveList
  <2>1. UNCHANGED linksVars
    BY <1>5 DEF ReceiveList
  <2> QED BY <2>1, <1>3, <1>5, ReceiveListKeepsFollow
<1>6. ASSUME NEW i \in Streams, StreamStep(i) PROVE DInv'
  <2>1. UNCHANGED linksVars
    BY <1>6 DEF StreamStep, ServeEvent, EventOpens, EventFails, Dispatch, LateDispatch, ReadEnds
  <2> QED BY <2>1, <1>3, <1>6, StreamKeepsFollow
<1>7. CASE Apply
  <2>1. UNCHANGED linksVars
    BY <1>7 DEF Apply
  <2> QED BY <2>1, <1>3, <1>7, ApplyKeepsFollow
<1>8. CASE UNCHANGED vars
  <2>1. UNCHANGED <<linksVars, list, step, snap, current, es, watchQ>>
    BY <1>8 DEF vars, followVars, streamVars
  <2>2. UNCHANGED <<events, links>>
    BY <2>1 DEF linksVars
  <2>3. FollowInv'
    BY <2>1, <2>2 DEF DInv, FollowInv, SnapTells, FirstListIsOldest, ListKept, EventsKept, NotOlder,
                      Settled, Taken, Knows, AtLeast
  <2> QED BY <2>1, <2>3, <1>3
<1> QED BY <1>2, <1>4, <1>5, <1>6, <1>7, <1>8 DEF Next, FollowStep, StreamStep

(* LastChange(s) is the last event of s, and no later event changes s. *)
LEMMA LastChangeSettles ==
    ASSUME LinksTypeOK, LastTold, NEW s \in Slots
    PROVE  /\ LastChange(s) \in 0 .. Len(events)
           /\ Settled(s, LastChange(s))
           /\ LastChange(s) # 0 => events[LastChange(s)].slot = s
<1> DEFINE changes == {i \in 1 .. Len(events) : events[i].slot = s}
<1>1. Len(events) \in Nat
  BY EventVersions
<1>2. CASE \A i \in 1 .. Len(events) : events[i].slot # s
  <2>1. changes = {}
    BY <1>2
  <2>2. LastChange(s) = 0
    BY <2>1 DEF LastChange
  <2> QED BY <2>2, <1>1, <1>2 DEF Settled
<1>3. CASE \E i \in changes : \A j \in changes : j <= i
  <2>1. changes # {}
    BY <1>3
  <2>2. PICK i \in changes : i = LastChange(s) /\ \A j \in changes : j <= i
    <3>1. LastChange(s) = CHOOSE i \in changes : \A j \in changes : j <= i
      BY <2>1 DEF LastChange
    <3> QED BY <3>1, <1>3
  <2> QED BY <2>2, <1>1 DEF Settled
<1> QED BY <1>2, <1>3 DEF LastTold

(* A prop not older than the changes of its slot holds the slot's value. *)
LEMMA FreshPropAgrees ==
    ASSUME DInv, NEW p \in list, NEW s \in Slots, p.slot = s,
           \A k \in 1 .. Len(events) : events[k].slot = s => AtLeast(p.ver, events[k].ver)
    PROVE  Held(s).value = links[s]
<1>1. PICK h \in history : h.ver = p.ver /\ h.table[s] = p.value
  BY DEF DInv, IInv, ReplicaIsHistory
<1>2. h.table[s] = links[s]
  BY <1>1 DEF DInv, HistorySettles
<1>3. OneProp
  BY DEF DInv, IInv
<1>4. \A q \in list : q.slot = s => Held(s).value = q.value
  BY <1>3, HeldIs
<1> QED BY <1>1, <1>2, <1>4, Zenon

(* A follower that has read all of an open event stream agrees with the owner on
   every slot the stream answers for, as long as one read returns one event. *)
THEOREM DrainedReplicaAgrees == ASSUME MaxRead = 1 PROVE Spec => []DrainedAgrees
<1>1. DInv => DrainedAgrees
  <2> SUFFICES ASSUME DInv, NEW i \in Streams, Drained(i), NEW s \in Covered(i)
               PROVE  Held(s).value = links[s]
    BY DEF DrainedAgrees
  <2>1. s \in Slots /\ LinksTypeOK /\ LinksInv /\ OneProp
    BY DEF Covered, DInv, IInv, LinksInv
  <2>2. /\ LastChange(s) \in 0 .. Len(events) /\ Settled(s, LastChange(s))
        /\ LastChange(s) # 0 => events[LastChange(s)].slot = s
        /\ Len(events) \in Nat
    BY <2>1, LastChangeSettles, EventVersions DEF DInv
  <2>3. /\ ListKept(i) /\ EventsKept(i) /\ FirstListIsOldest
        /\ es[i].listAt \in Nat /\ es[i].subAt \in Nat /\ current \in Nat
    BY StreamAssumption DEF DInv, FollowInv, IInv, TypeOK, EventSource
  <2>4. i <= current
    BY <2>3 DEF EventsKept, Drained, Streams
  <2>5. ASSUME NEW n \in Nat, Settled(s, n), NEW p \in list, p.slot = s, NotOlder(p.ver, n)
        PROVE  Held(s).value = links[s]
    <3>1. \A k \in 1 .. Len(events) : events[k].slot = s => k \in 1 .. n
      BY <2>5 DEF Settled
    <3> QED BY <3>1, <2>1, <2>5, FreshPropAgrees DEF NotOlder
  <2>6. CASE LastChange(s) > es[i].subAt
    <3>1. LastChange(s) \in 1 .. es[i].pos /\ LastChange(s) \in 1 .. Len(events)
      BY <2>2, <2>3, <2>6 DEF Drained
    <3>2. Taken(events[LastChange(s)])
      BY <3>1, <2>3, <2>6 DEF EventsKept
    <3>3. PICK p \in list : p.slot = s /\ AtLeast(p.ver, events[LastChange(s)].ver)
      BY <3>1, <3>2, <2>2 DEF Taken, Knows, Drained
    <3>4. NotOlder(p.ver, LastChange(s))
      <4>1. NotOlder(events[LastChange(s)].ver, LastChange(s))
        BY <3>1, <2>1, EventNotOlder
      <4>2. events[LastChange(s)].ver \in Version /\ p.ver \in Version
        BY <3>1, <2>1, EventVersions DEF DInv, IInv, TypeOK, ListTypeOK, Prop
      <4> QED BY <3>1, <3>3, <4>1, <4>2, <2>1, NewerIsNotOlder
    <3> QED BY <3>1, <3>3, <3>4, <2>2, <2>5
  <2>7. CASE LastChange(s) <= es[i].listAt
    <3>1. Settled(s, es[i].listAt)
      BY <2>2, <2>3, <2>7 DEF Settled
    <3>2. CASE links[s] # None
      <4>1. PICK p \in list : p.slot = s /\ NotOlder(p.ver, es[i].listAt)
        BY <3>1, <3>2, <2>1, <2>3, <2>4 DEF ListKept
      <4> QED BY <3>1, <4>1, <2>3, <2>5
    <3>3. CASE links[s] = None /\ i = 1
      <4>1. CASE \E p \in list : p.slot = s
        <5>1. PICK p \in list : p.slot = s
          BY <4>1
        <5>2. NotOlder(p.ver, es[i].listAt)
          BY <3>3, <2>3, <2>4 DEF FirstListIsOldest
        <5> QED BY <5>1, <5>2, <3>1, <2>3, <2>5
      <4>2. CASE \A p \in list : p.slot # s
        BY <4>2, <3>3, <2>1, HeldIs
      <4> QED BY <4>1, <4>2
    <3> QED BY <3>2, <3>3, <2>6, <2>7, <2>2, <2>3 DEF Covered
  <2> QED BY <2>6, <2>7 DEF Covered
<1>2. DInv /\ [Next]_vars => DInv'
  BY DInvStep
<1> QED BY <1>1, <1>2, DInvStart, PTL DEF Spec
=============================================================================
