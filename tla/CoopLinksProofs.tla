--------------------------- MODULE CoopLinksProofs ---------------------------
(***************************************************************************)
(* Proofs about CoopLinks: type correctness, the order of the versions and *)
(* that the events replay the table, for any slots, values and bounds.     *)
(***************************************************************************)
EXTENDS CoopLinks, TLAPS

-----------------------------------------------------------------------------
(* isPast is a strict total order on the versions. *)
LEMMA PastTransitive ==
    ASSUME NEW u \in Version, NEW v \in Version, NEW w \in Version,
           AtLeast(v, u), isPast(v, w)
    PROVE  isPast(u, w)
BY DEF Version, isPast, AtLeast

(* Nothing is older than itself, and of two versions one is older or they are equal. *)
LEMMA PastTotal ==
    ASSUME NEW v \in Version, NEW w \in Version
    PROVE  /\ ~isPast(v, v)
           /\ isPast(v, w) => ~isPast(w, v)
           /\ isPast(v, w) \/ v = w \/ isPast(w, v)
<1>1. v = [time |-> v.time, clock |-> v.clock] /\ w = [time |-> w.time, clock |-> w.clock]
  BY DEF Version
<1>2. v.time \in Nat /\ v.clock \in Nat /\ w.time \in Nat /\ w.clock \in Nat
  BY DEF Version
<1> QED BY <1>1, <1>2 DEF isPast

(* Zero is the oldest version. *)
LEMMA ZeroIsOldest ==
    ASSUME NEW v \in Version
    PROVE  /\ ZeroVersion \in Version
           /\ AtLeast(v, ZeroVersion)
<1>1. v = [time |-> v.time, clock |-> v.clock] /\ v.time \in Nat /\ v.clock \in Nat
  BY DEF Version
<1> QED BY <1>1 DEF Version, ZeroVersion, AtLeast, isPast

-----------------------------------------------------------------------------
(* Every version given so far is at most the current one, which names the
   current table, and the clock on the wall has not gone back. *)
NewestIsCurrent ==
    /\ lastModified <= now
    /\ Current \in history
    /\ \A h \in history : AtLeast(CurrentVersion, h.ver)
    /\ \A i \in 1 .. Len(events) : AtLeast(CurrentVersion, events[i].ver)

LinksInv == LinksTypeOK /\ NewestIsCurrent /\ VersionNamesTable /\ EventsOrdered

(* What an event tells of its slot. *)
Told(ev) == IF ev.type = "link-added" THEN ev.value ELSE None

(* The last event of each slot tells the value the slot has. *)
LastTold ==
    \A s \in Slots :
        \/ links[s] = None /\ \A i \in 1 .. Len(events) : events[i].slot # s
        \/ \E i \in 1 .. Len(events) :
              /\ events[i].slot = s
              /\ links[s] = Told(events[i])
              /\ \A j \in 1 .. Len(events) : events[j].slot = s => j <= i

-----------------------------------------------------------------------------
(* An update gives a version newer than the current one. *)
LEMMA UpdateIsNewer ==
    ASSUME LinksTypeOK, lastModified <= now, updateLastModified
    PROVE  /\ CurrentVersion \in Version /\ CurrentVersion' \in Version
           /\ isPast(CurrentVersion, CurrentVersion')
           /\ lastModified' \in Nat /\ clock' \in Nat /\ lastModified' = now
BY DEF LinksTypeOK, updateLastModified, CurrentVersion, Version, isPast

(* The effect of a change, whichever operation made it. *)
LEMMA PublishKeepsInv ==
    ASSUME LinksInv, NEW s \in Slots, NEW v \in Values, NEW w \in Content,
           NEW type \in {"link-added", "link-removed"},
           links' = [links EXCEPT ![s] = w],
           publish(type, s, v)
    PROVE  LinksInv'
<1> DEFINE ev == [type |-> type, coop |-> Owner, slot |-> s, value |-> v,
                  ver |-> CurrentVersion']
<1>1. /\ CurrentVersion \in Version /\ CurrentVersion' \in Version
      /\ isPast(CurrentVersion, CurrentVersion')
      /\ lastModified' \in Nat /\ clock' \in Nat /\ lastModified' = now /\ now' = now
  <2>1. LinksTypeOK /\ lastModified <= now /\ updateLastModified
    BY DEF LinksInv, NewestIsCurrent, publish
  <2> QED BY <2>1, UpdateIsNewer DEF updateLastModified
<1>2. ev \in LinkEvent
  BY <1>1, OwnerAssumption DEF LinkEvent
<1>3. events' = Append(events, ev) /\ events \in Seq(LinkEvent)
  BY DEF publish, LinksInv, LinksTypeOK
<1>4. /\ events' \in Seq(LinkEvent)
      /\ Len(events) \in Nat /\ Len(events') = Len(events) + 1
      /\ events'[Len(events) + 1] = ev
      /\ \A i \in 1 .. Len(events) : events'[i] = events[i]
  BY <1>2, <1>3
<1>5. links' \in Table /\ Current' \in Snapshot
  BY <1>1 DEF LinksInv, LinksTypeOK, Table, Snapshot, Current
<1>6. LinksTypeOK'
  BY <1>1, <1>4, <1>5 DEF LinksInv, LinksTypeOK, publish
<1>7. \A h \in history : h.ver \in Version /\ isPast(h.ver, CurrentVersion')
  BY <1>1, PastTransitive DEF LinksInv, LinksTypeOK, Snapshot, NewestIsCurrent
<1>8. \A i \in 1 .. Len(events) :
        events[i].ver \in Version /\ isPast(events[i].ver, CurrentVersion')
  <2>1. \A i \in 1 .. Len(events) : events[i] \in LinkEvent
    BY <1>3
  <2> QED BY <2>1, <1>1, PastTransitive DEF LinksInv, LinkEvent, NewestIsCurrent
<1>9. Current'.ver = CurrentVersion' /\ history' = history \cup {Current'}
  BY DEF Current, publish
<1>10. NewestIsCurrent'
  <2>1. \A h \in history' : AtLeast(CurrentVersion', h.ver)
    BY <1>7, <1>9 DEF AtLeast
  <2>2. \A i \in 1 .. Len(events') : AtLeast(CurrentVersion', events'[i].ver)
    BY <1>4, <1>8 DEF AtLeast
  <2> QED BY <1>1, <1>9, <2>1, <2>2 DEF NewestIsCurrent, LinksInv, LinksTypeOK
<1>11. VersionNamesTable'
  BY <1>1, <1>7, <1>9, PastTotal DEF VersionNamesTable, LinksInv
<1>12. EventsOrdered'
  <2> SUFFICES ASSUME NEW i \in 1 .. Len(events'), NEW j \in 1 .. Len(events'), i < j
               PROVE  isPast(events'[i].ver, events'[j].ver)
    BY DEF EventsOrdered
  <2>1. i \in 1 .. Len(events) /\ (j = Len(events) + 1 \/ j \in 1 .. Len(events))
    BY <1>4
  <2>2. CASE j = Len(events) + 1
    BY <2>1, <2>2, <1>4, <1>8
  <2>3. CASE j \in 1 .. Len(events)
    BY <2>1, <2>3, <1>4 DEF LinksInv, EventsOrdered
  <2> QED BY <2>1, <2>2, <2>3
<1> QED BY <1>6, <1>10, <1>11, <1>12 DEF LinksInv

(* The invariant is inductive. *)
LEMMA LinksStep ==
    LinksInv /\ [LinksNext]_linksVars => LinksInv'
<1> SUFFICES ASSUME LinksInv, [LinksNext]_linksVars PROVE LinksInv'
  OBVIOUS
<1>1. ASSUME NEW s \in Slots, NEW v \in Values, add(s, v) PROVE LinksInv'
  BY <1>1, PublishKeepsInv DEF add, Content
<1>2. ASSUME NEW s \in Slots, remove(s) PROVE LinksInv'
  <2>1. links[s] \in Values
    BY <1>2 DEF remove, LinksInv, LinksTypeOK, Table, Content
  <2> QED BY <1>2, <2>1, PublishKeepsInv DEF remove, Content
<1>3. CASE Tick
  <2>1. Current' = Current /\ CurrentVersion' = CurrentVersion
    BY <1>3 DEF Tick, Current, CurrentVersion
  <2> QED BY <1>3, <2>1, BoundsAssumption
        DEF LinksInv, Tick, LinksTypeOK, NewestIsCurrent, VersionNamesTable, EventsOrdered
<1>4. CASE UNCHANGED linksVars
  BY <1>4 DEF LinksInv, linksVars, LinksTypeOK, NewestIsCurrent, VersionNamesTable,
              EventsOrdered, Current, CurrentVersion
<1> QED BY <1>1, <1>2, <1>3, <1>4 DEF LinksNext

(* It holds of an empty table. *)
LEMMA LinksStart == LinksInit => LinksInv
<1> SUFFICES ASSUME LinksInit PROVE LinksInv
  OBVIOUS
<1>1. /\ CurrentVersion = ZeroVersion /\ ZeroVersion \in Version
      /\ links \in Table /\ history = {Current} /\ events = << >>
  BY DEF LinksInit, CurrentVersion, ZeroVersion, Version, EmptyTable, Table, Content
<1>2. Current \in Snapshot /\ Current.ver = CurrentVersion
  BY <1>1 DEF Current, Snapshot
<1> QED BY <1>1, <1>2 DEF LinksInit, LinksInv, LinksTypeOK, NewestIsCurrent,
             VersionNamesTable, EventsOrdered, AtLeast

-----------------------------------------------------------------------------
(* The table, the versions and the queue of events keep their types. *)
THEOREM LinksTypeCorrect == LinksSpec => []LinksTypeOK
<1>1. LinksInv => LinksTypeOK
  BY DEF LinksInv
<1> QED BY <1>1, LinksStart, LinksStep, PTL DEF LinksSpec

(* updateLastModified never gives one version to two tables. *)
THEOREM VersionsNameTables == LinksSpec => []VersionNamesTable
<1>1. LinksInv => VersionNamesTable
  BY DEF LinksInv
<1> QED BY <1>1, LinksStart, LinksStep, PTL DEF LinksSpec

(* Events are dispatched in the order of their versions. *)
THEOREM EventsAreOrdered == LinksSpec => []EventsOrdered
<1>1. LinksInv => EventsOrdered
  BY DEF LinksInv
<1> QED BY <1>1, LinksStart, LinksStep, PTL DEF LinksSpec

-----------------------------------------------------------------------------
(* One change makes its event the last one of its slot, and of no other. *)
LEMMA PublishKeepsTold ==
    ASSUME LinksInv, LastTold, LinksInv', NEW s \in Slots, NEW v \in Values,
           NEW type \in {"link-added", "link-removed"},
           links' = [links EXCEPT ![s] = IF type = "link-added" THEN v ELSE None],
           publish(type, s, v)
    PROVE  LastTold'
<1> DEFINE ev == [type |-> type, coop |-> Owner, slot |-> s, value |-> v,
                  ver |-> CurrentVersion']
<1>1. events \in Seq(LinkEvent) /\ events' \in Seq(LinkEvent) /\ events' = Append(events, ev)
  BY DEF LinksInv, LinksTypeOK, publish
<1>2. /\ Len(events') = Len(events) + 1 /\ Len(events) \in Nat
      /\ events'[Len(events) + 1] = ev
      /\ \A i \in 1 .. Len(events) : events'[i] = events[i]
  BY <1>1
<1>3. links \in Table
  BY DEF LinksInv, LinksTypeOK
<1> SUFFICES ASSUME NEW t \in Slots
             PROVE  \/ links'[t] = None /\ \A i \in 1 .. Len(events') : events'[i].slot # t
                    \/ \E i \in 1 .. Len(events') :
                          /\ events'[i].slot = t
                          /\ links'[t] = Told(events'[i])
                          /\ \A j \in 1 .. Len(events') : events'[j].slot = t => j <= i
  BY DEF LastTold, Told
<1>4. CASE t = s
  <2>1. links'[t] = Told(ev) /\ ev.slot = t
    BY <1>3, <1>4 DEF Table, Told
  <2>2. Len(events) + 1 \in 1 .. Len(events')
    BY <1>2
  <2> QED BY <1>2, <2>1, <2>2
<1>5. CASE t # s
  <2>1. links'[t] = links[t] /\ ev.slot # t
    BY <1>3, <1>5 DEF Table
  <2>2. \A i \in 1 .. Len(events') : i \in 1 .. Len(events) \/ i = Len(events) + 1
    BY <1>2
  <2>3. CASE links[t] = None /\ \A i \in 1 .. Len(events) : events[i].slot # t
    BY <1>2, <2>1, <2>2, <2>3
  <2>4. CASE \E i \in 1 .. Len(events) :
                /\ events[i].slot = t
                /\ links[t] = Told(events[i])
                /\ \A j \in 1 .. Len(events) : events[j].slot = t => j <= i
    <3>1. PICK i \in 1 .. Len(events) :
                /\ events[i].slot = t
                /\ links[t] = Told(events[i])
                /\ \A j \in 1 .. Len(events) : events[j].slot = t => j <= i
      BY <2>4
    <3>2. /\ i \in 1 .. Len(events')
          /\ events'[i].slot = t /\ links'[t] = Told(events'[i])
          /\ \A j \in 1 .. Len(events') : events'[j].slot = t => j <= i
      BY <1>2, <2>1, <2>2, <3>1
    <3> QED BY <3>2
  <2> QED BY <2>3, <2>4 DEF LastTold
<1> QED BY <1>4, <1>5

(* The last change of a slot is what LastChange names. *)
LEMMA LastToldReplays ==
    LinksTypeOK /\ LastTold => EventsReplay
<1> SUFFICES ASSUME LinksTypeOK, LastTold, NEW s \in Slots
             PROVE  links[s] = IF LastChange(s) = 0 \/ events[LastChange(s)].type = "link-removed"
                               THEN None ELSE events[LastChange(s)].value
  BY DEF EventsReplay
<1> DEFINE changes == {i \in 1 .. Len(events) : events[i].slot = s}
<1>1. CASE links[s] = None /\ \A i \in 1 .. Len(events) : events[i].slot # s
  <2>1. changes = {}
    BY <1>1
  <2>2. LastChange(s) = 0
    BY <2>1 DEF LastChange
  <2> QED BY <1>1, <2>2
<1>2. CASE \E i \in 1 .. Len(events) :
              /\ events[i].slot = s
              /\ links[s] = Told(events[i])
              /\ \A j \in 1 .. Len(events) : events[j].slot = s => j <= i
  <2>1. PICK i \in 1 .. Len(events) :
              /\ events[i].slot = s
              /\ links[s] = Told(events[i])
              /\ \A j \in 1 .. Len(events) : events[j].slot = s => j <= i
    BY <1>2
  <2>2. events \in Seq(LinkEvent) /\ Len(events) \in Nat /\ events[i] \in LinkEvent
    BY <2>1 DEF LinksTypeOK
  <2>3. i \in changes /\ \A j \in changes : j <= i
    BY <2>1
  <2>4. \A k \in changes : (\A j \in changes : j <= k) => k = i
    BY <2>2, <2>3
  <2>5. (CHOOSE k \in changes : \A j \in changes : j <= k) = i
    BY <2>3, <2>4
  <2>6. LastChange(s) = i /\ i # 0
    BY <2>3, <2>5, <2>2 DEF LastChange
  <2> QED BY <2>1, <2>2, <2>6 DEF Told, LinkEvent
<1> QED BY <1>1, <1>2 DEF LastTold

(* A step of the owner keeps the last events telling. *)
LEMMA LastToldStep ==
    LinksInv /\ LinksInv' /\ LastTold /\ [LinksNext]_linksVars => LastTold'
<1> SUFFICES ASSUME LinksInv, LinksInv', LastTold, [LinksNext]_linksVars PROVE LastTold'
  OBVIOUS
<1>1. ASSUME NEW s \in Slots, NEW v \in Values, add(s, v) PROVE LastTold'
  BY <1>1, PublishKeepsTold DEF add
<1>2. ASSUME NEW s \in Slots, remove(s) PROVE LastTold'
  <2>1. links[s] \in Values
    BY <1>2 DEF remove, LinksInv, LinksTypeOK, Table, Content
  <2>2. links' = [links EXCEPT ![s] = None] /\ publish("link-removed", s, links[s])
    BY <1>2 DEF remove
  <2> QED BY <2>1, <2>2, PublishKeepsTold
<1>3. CASE Tick \/ UNCHANGED linksVars
  BY <1>3 DEF Tick, linksVars, LastTold, Told
<1> QED BY <1>1, <1>2, <1>3 DEF LinksNext

(* It holds of an empty table. *)
LEMMA LastToldStart == LinksInit => LastTold
BY DEF LinksInit, LastTold, EmptyTable

(* add and remove dispatch what they do: the events alone rebuild the table. *)
THEOREM EventsReplayTable == LinksSpec => []EventsReplay
<1>1. LinksInv /\ LastTold => EventsReplay
  BY LastToldReplays DEF LinksInv
<1> QED BY <1>1, LastToldStart, LastToldStep, LinksStart, LinksStep, PTL DEF LinksSpec
=============================================================================
