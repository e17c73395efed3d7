--------------------------- MODULE EventStreamProofs ---------------------------
(***************************************************************************)
(* Proofs about EventStream: where no chunk goes on after the end of an    *)
(* event, an EventSource dispatches what was written into its stream, each *)
(* event once and in order, however many nodes, watchers and events there  *)
(* are; that is, EventStream implements EventChannel.                      *)
(***************************************************************************)
EXTENDS EventStream, SequenceTheorems, WellFoundedInduction, TLAPS

-----------------------------------------------------------------------------
(* All that the EventSource r may still read, what fetchUri keeps included. *)
unread(r) == remain[r] \o pipe[r]

IsEvent(s, i) == s[i].ev # Retry

(* Each event is there whole, its end right after its beginning. *)
Whole(s) ==
    \A i \in 1 .. Len(s) :
        /\ ~s[i].last => i + 1 \in 1 .. Len(s) /\ s[i + 1].last /\ s[i + 1].ev = s[i].ev
        /\ s[i].last => i - 1 \in 1 .. Len(s) /\ ~s[i - 1].last

(* Events come in the order of their ids. *)
Ordered(s) ==
    \A i, j \in 1 .. Len(s) :
        i < j /\ s[i].last /\ IsEvent(s, i) /\ IsEvent(s, j) => s[i].ev.id < s[j].ev.id

(* What is in s are the events that are due after the first t, all of them. *)
Holds(s, d, t) ==
    /\ \A i \in 1 .. Len(s) : IsEvent(s, i) => \E k \in t + 1 .. Len(d) : s[i].ev = d[k]
    /\ \A k \in t + 1 .. Len(d) : \E i \in 1 .. Len(s) : s[i].ev = d[k]

(* The events that are due, of which n have been dispatched on the first node. *)
Increasing(d) == \A i, j \in 1 .. Len(d) : i < j => d[i].id < d[j].id

(* What is to be read is what is due and not dispatched yet. *)
StreamInv(r) ==
    /\ Len(remain[r]) <= 1
    /\ Whole(unread(r)) /\ Ordered(unread(r))
    /\ Holds(unread(r), due[r], Len(got[r]))
    /\ Increasing(due[r]) /\ due[r] \in Seq(Events)
    /\ ~closed => \A i \in 1 .. Len(due[r]) : due[r][i].id <= Len(queue)
    /\ Len(got[r]) <= Len(due[r])
    /\ \A i \in 1 .. Len(got[r]) : got[r][i] = due[r][i]

(* Nothing is written before the fetch is answered, nor fetched before create. *)
PhaseInv(r) ==
    /\ conn[r] \in {"idle", "asked"} => r \notin ctrls /\ unread(r) = << >>
    /\ follow[r] \in {"idle", "listing"} => conn[r] = "idle"

SourceInv(r) == StreamInv(r) /\ PhaseInv(r)

EventInv == TypeOK /\ \A r \in Sources : SourceInv(r)

-----------------------------------------------------------------------------
LEMMA SmallestOf ==
    ASSUME NEW T, T \subseteq Nat, T # {}
    PROVE  \E i \in T : \A j \in T : i <= j
<1> DEFINE R == OpToRel(<, Nat)
<1>1. IsWellFoundedOn(R, Nat)
  BY NatLessThanWellFounded
<1>2. \A x, y \in Nat : x < y => <<x, y>> \in R
  BY DEF OpToRel
<1> HIDE DEF R
<1>3. PICK i \in T : \A j \in T : ~(<<j, i>> \in R)
  BY <1>1, WFMin
<1>4. \A j \in T : i <= j
  <2> SUFFICES ASSUME NEW j \in T PROVE i <= j
    OBVIOUS
  <2>1. i \in Nat /\ j \in Nat /\ ~(j < i)
    BY <1>2, <1>3
  <2> QED BY <2>1
<1> QED BY <1>4

(* Where the ends of events are, and the first of them, as processEvents has it. *)
endsOf(s) == {i \in 1 .. Len(s) : s[i].last}

firstEnd(s) == CHOOSE i \in endsOf(s) : \A j \in endsOf(s) : i <= j

LEMMA FirstEnd ==
    ASSUME NEW s \in Seq(Symbol), endsOf(s) # {}
    PROVE  firstEnd(s) \in endsOf(s) /\ \A j \in endsOf(s) : firstEnd(s) <= j
<1>1. endsOf(s) \subseteq Nat
  BY DEF endsOf
<1>2. PICK i \in endsOf(s) : \A j \in endsOf(s) : i <= j
  BY <1>1, SmallestOf
<1> QED BY <1>2 DEF firstEnd

(* What processEvents does with bytes in which no event ends, and with others. *)
LEMMA ProcessCases ==
    ASSUME NEW r \in Sources, NEW s \in Seq(Symbol), processEvents(r, s)
    PROVE  /\ endsOf(s) = {} =>
                /\ remain' = [remain EXCEPT ![r] = s]
                /\ goOn(r) /\ UNCHANGED <<got, watching, told>>
           /\ endsOf(s) # {} =>
                /\ remain' = [remain EXCEPT ![r] = << >>]
                /\ \/ /\ firstEnd(s) = 2 /\ s[firstEnd(s)].ev # Retry
                      /\ goOn(r)
                      /\ got' = [got EXCEPT ![r] = Append(@, s[firstEnd(s)].ev)]
                      /\ notify(r, s[firstEnd(s)].ev)
                   \/ /\ firstEnd(s) # 2
                      /\ goOn(r) /\ UNCHANGED <<got, watching, told>>
                   \/ /\ firstEnd(s) # 2 \/ s[firstEnd(s)].ev = Retry
                      /\ end(r) /\ UNCHANGED <<got, watching, told>>
BY DEF processEvents, endsOf, firstEnd

LEMMA ChunkTyped ==
    ASSUME NEW ev \in Event
    PROVE  chunk(ev) \in Seq(Symbol)
BY DEF chunk, Symbol

(* What fetchUri keeps: beginnings of events only. *)
Kept == [ev: Event, last: {FALSE}]

LEMMA KeptTyped ==
    ASSUME TypeOK
    PROVE  remain \in [Sources -> Seq(Symbol)]
<1>1. Kept \subseteq Symbol
  BY DEF Kept, Symbol
<1>2. remain \in [Sources -> Seq(Kept)]
  BY DEF TypeOK, Kept
<1> HIDE DEF Kept
<1>3. Seq(Kept) \subseteq Seq(Symbol)
  BY <1>1
<1> QED BY <1>2, <1>3

LEMMA UnreadTyped ==
    ASSUME TypeOK, NEW r \in Sources
    PROVE  remain[r] \in Seq(Symbol) /\ pipe[r] \in Seq(Symbol) /\ unread(r) \in Seq(Symbol)
<1>1. remain[r] \in Seq(Symbol)
  BY KeptTyped
<1>2. pipe[r] \in Seq(Symbol)
  BY DEF TypeOK
<1> QED BY <1>1, <1>2 DEF unread

LEMMA NoEndIsKept ==
    ASSUME NEW s \in Seq(Symbol), endsOf(s) = {}
    PROVE  s \in Seq(Kept)
<1>1. \A i \in 1 .. Len(s) : s[i] \in Kept
  <2> SUFFICES ASSUME NEW i \in 1 .. Len(s) PROVE s[i] \in Kept
    OBVIOUS
  <2>1. s[i] \in [ev: Event, last: BOOLEAN]
    <3>1. s[i] \in Symbol
      OBVIOUS
    <3> QED BY <3>1 DEF Symbol
  <2>2. s[i] = [ev |-> s[i].ev, last |-> s[i].last] /\ s[i].ev \in Event
    BY <2>1
  <2>3. s[i].last = FALSE
    BY <2>1 DEF endsOf
  <2>4. [ev |-> s[i].ev, last |-> FALSE] \in Kept
    BY <2>2 DEF Kept
  <2> QED BY <2>2, <2>3, <2>4
<1> HIDE DEF Kept
<1>2. s \in [1 .. Len(s) -> Kept] /\ Len(s) \in Nat
  BY <1>1
<1> QED BY <1>2

(* A read takes symbols that are there. *)
LEMMA ReadTyped ==
    ASSUME TypeOK, NEW r \in Sources, NEW n \in chunks(r)
    PROVE  /\ n \in 1 .. Len(pipe[r])
           /\ remain[r] \o SubSeq(pipe[r], 1, n) \in Seq(Symbol)
           /\ SubSeq(pipe[r], n + 1, Len(pipe[r])) \in Seq(Symbol)
<1>1. n \in 1 .. Len(pipe[r])
  BY DEF chunks
<1>2. pipe[r] \in Seq(Symbol) /\ remain[r] \in Seq(Symbol)
  BY KeptTyped DEF TypeOK
<1>3. SubSeq(pipe[r], 1, n) \in Seq(Symbol) /\ SubSeq(pipe[r], n + 1, Len(pipe[r])) \in Seq(Symbol)
  BY <1>1, <1>2
<1> QED BY <1>1, <1>2, <1>3

LEMMA TypeStart == Init => TypeOK
<1> SUFFICES ASSUME Init PROVE TypeOK
  OBVIOUS
<1>1. /\ queue \in Seq(Event) /\ closed \in BOOLEAN /\ retries \in 0 .. MaxRetries
      /\ ctrls \subseteq Sources
  <2>1. queue \in Seq(Event) /\ ctrls \subseteq Sources
    BY DEF Init
  <2>2. retries \in 0 .. MaxRetries
    BY StreamAssumption DEF Init, StreamAssumption
  <2> QED BY <2>1, <2>2 DEF Init
<1>2. /\ pipe \in [Sources -> Seq(Symbol)]
      /\ remain \in [Sources -> Seq([ev: Event, last: {FALSE}])]
      /\ due \in [Sources -> Seq(Event)] /\ got \in [Sources -> Seq(Event)]
  BY DEF Init
<1>3. told \in [Watchers -> Seq([by: Sources, ev: Event])]
  BY DEF Init
<1> QED BY <1>1, <1>2, <1>3 DEF Init, TypeOK

LEMMA TypeStep == TypeOK /\ [Next]_vars => TypeOK'
<1> SUFFICES ASSUME TypeOK, [Next]_vars PROVE TypeOK'
  OBVIOUS
<1> USE DEF TypeOK
<1>1. ASSUME NEW type \in Types, dispatchEvent(type) PROVE TypeOK'
  <2> DEFINE ev == [id |-> Len(queue) + 1, type |-> type]
  <2>1. ev \in Event
    <3>1. Len(queue) + 1 \in 1 .. MaxEvents
      BY <1>1, StreamAssumption DEF dispatchEvent, StreamAssumption
    <3> QED BY <3>1 DEF Event, Events
  <2>2. /\ pipe' = [r \in Sources |-> IF r \in ctrls THEN pipe[r] \o chunk(ev) ELSE pipe[r]]
        /\ due' = [r \in Sources |-> IF r \in ctrls THEN Append(due[r], ev) ELSE due[r]]
        /\ queue' = Append(queue, ev)
    BY <1>1 DEF dispatchEvent, enqueue
  <2>3. UNCHANGED <<closed, retries, ctrls, ended, sourceVars, follow, stopped, held, watchVars>>
    BY <1>1 DEF dispatchEvent
  <2>4. chunk(ev) \in Seq(Symbol)
    BY <2>1, ChunkTyped
  <2> HIDE DEF ev
  <2>5. pipe' \in [Sources -> Seq(Symbol)]
    BY <2>2, <2>4
  <2>6. due' \in [Sources -> Seq(Event)] /\ queue' \in Seq(Event)
    BY <2>1, <2>2
  <2> QED BY <2>3, <2>5, <2>6 DEF sourceVars, watchVars
<1>2. CASE sendRetry
  <2>1. chunk(Retry) \in Seq(Symbol)
    BY ChunkTyped DEF Event
  <2>2. pipe' \in [Sources -> Seq(Symbol)]
    BY <1>2, <2>1 DEF sendRetry, enqueue
  <2>3. retries' \in 0 .. MaxRetries
    BY <1>2, StreamAssumption DEF sendRetry, StreamAssumption
  <2> QED BY <1>2, <2>2, <2>3 DEF sendRetry, sourceVars, watchVars
<1>3. CASE closeBody
  <2>1. ended' \in [Sources -> BOOLEAN]
    BY <1>3, Zenon DEF closeBody, closeControllers
  <2>2. queue' \in Seq(Event) /\ closed' \in BOOLEAN /\ ctrls' \subseteq Sources
    BY <1>3 DEF closeBody
  <2> QED BY <1>3, <2>1, <2>2 DEF closeBody, sourceVars, watchVars
<1>4. CASE stop
  <2>1. state' \in [Sources -> {"none", "connecting", "open", "closed"}]
    BY <1>4 DEF stop
  <2>2. watch' \in [Watchers -> {"none", "open", "cancelled", "closed"}]
    BY <1>4 DEF stop, closeWatchers
  <2>3. stopped' \in BOOLEAN /\ watching' \subseteq Watchers /\ held' = {}
    BY <1>4 DEF stop, removeWatchers
  <2> QED BY <1>4, <2>1, <2>2, <2>3 DEF stop, serverVars, pipeVars
<1>5. ASSUME NEW r \in Sources, serve(r) PROVE TypeOK'
  <2>1. pipe' \in [Sources -> Seq(Symbol)] /\ ctrls' \subseteq Sources
    <3>1. << >> \in Seq(Symbol)
      OBVIOUS
    <3>2. pipe' = pipe \/ pipe' = [pipe EXCEPT ![r] = << >>]
      BY <1>5 DEF serve, repeated
    <3>3. ctrls' \subseteq Sources
      <4>1. ctrls' = ctrls \/ ctrls' = ctrls \cup {r}
        BY <1>5 DEF serve
      <4> QED BY <4>1
    <3> QED BY <3>1, <3>2, <3>3
  <2>2. conn' \in [Sources -> {"idle", "asked", "served", "reading", "over"}]
        /\ ended' \in [Sources -> BOOLEAN]
    BY <1>5 DEF serve
  <2> QED BY <1>5, <2>1, <2>2 DEF serve, watchVars
<1>6. ASSUME NEW r \in Sources, startFollow(r) PROVE TypeOK'
  BY <1>6 DEF startFollow, serverVars, pipeVars, sourceVars, watchVars
<1>7. ASSUME NEW r \in Sources, listFails(r) PROVE TypeOK'
  BY <1>7 DEF listFails, serverVars, pipeVars, sourceVars, watchVars
<1>8. ASSUME NEW r \in Sources, create(r) PROVE TypeOK'
  <2>1. state' = [state EXCEPT ![r] = "connecting"] /\ (held' = held \/ held' = held \cup {r})
    BY <1>8 DEF create
  <2>2. state' \in [Sources -> {"none", "connecting", "open", "closed"}]
        /\ held' \subseteq {q \in Sources : state'[q] # "none"}
    BY <2>1
  <2>3. /\ follow' \in [Sources -> {"idle", "listing", "waiting", "done"}]
        /\ conn' \in [Sources -> {"idle", "asked", "served", "reading", "over"}]
    BY <1>8 DEF create
  <2> QED BY <1>8, <2>2, <2>3 DEF create, serverVars, pipeVars, watchVars
<1>9. ASSUME NEW r \in Sources, followReturns(r) PROVE TypeOK'
  BY <1>9 DEF followReturns, serverVars, pipeVars, sourceVars, watchVars
<1>10. ASSUME NEW r \in Sources, opens(r) PROVE TypeOK'
  BY <1>10 DEF opens, setOpen, serverVars, pipeVars, watchVars
<1>11. ASSUME NEW r \in Sources, fetchFails(r) PROVE TypeOK'
  BY <1>11 DEF fetchFails, serverVars, pipeVars, watchVars
<1>12. ASSUME NEW r \in Sources, close(r) PROVE TypeOK'
  BY <1>12 DEF close, serverVars, pipeVars, watchVars
<1>13. ASSUME NEW r \in Sources, read(r) PROVE TypeOK'
  <2>1. PICK n \in chunks(r) :
            /\ processEvents(r, remain[r] \o SubSeq(pipe[r], 1, n))
            /\ pipe' = [pipe EXCEPT ![r] = SubSeq(@, n + 1, Len(@))]
    BY <1>13 DEF read
  <2> DEFINE s == remain[r] \o SubSeq(pipe[r], 1, n)
             ev == s[firstEnd(s)].ev
  <2>2. s \in Seq(Symbol) /\ SubSeq(pipe[r], n + 1, Len(pipe[r])) \in Seq(Symbol)
    <3> HIDE DEF TypeOK
    <3> QED BY ReadTyped
  <2>3. pipe' \in [Sources -> Seq(Symbol)]
    BY <2>1, <2>2
  <2> HIDE DEF s
  <2>4. endsOf(s) # {} => ev \in Event
    <3>1. endsOf(s) # {} => firstEnd(s) \in 1 .. Len(s)
      BY <2>2, FirstEnd DEF endsOf
    <3>2. \A i \in 1 .. Len(s) : s[i] \in Symbol
      BY <2>2
    <3> QED BY <3>1, <3>2 DEF Symbol
  <2>5. /\ \/ endsOf(s) = {} /\ remain' = [remain EXCEPT ![r] = s]
           \/ remain' = [remain EXCEPT ![r] = << >>]
        /\ goOn(r) \/ end(r)
        /\ \/ UNCHANGED <<got, watching, told>>
           \/ ev \in Event /\ got' = [got EXCEPT ![r] = Append(@, ev)] /\ notify(r, ev)
    <3>1. processEvents(r, s)
      BY <2>1 DEF s
    <3> HIDE DEF TypeOK
    <3> QED BY <3>1, <2>2, <2>4, ProcessCases
  <2> HIDE DEF ev
  <2>6. remain' \in [Sources -> Seq(Kept)]
    <3>1. << >> \in Seq(Kept) /\ (endsOf(s) = {} => s \in Seq(Kept))
      BY <2>2, NoEndIsKept
    <3>2. remain \in [Sources -> Seq(Kept)]
      BY DEF Kept
    <3> HIDE DEF TypeOK
    <3> QED BY <2>5, <3>1, <3>2
  <2>7. /\ conn' \in [Sources -> {"idle", "asked", "served", "reading", "over"}]
        /\ state' \in [Sources -> {"none", "connecting", "open", "closed"}]
        /\ \A q \in Sources : state[q] # "none" => state'[q] # "none"
    BY <2>5 DEF goOn, end
  <2>8. /\ got' \in [Sources -> Seq(Event)] /\ watching' \subseteq Watchers
        /\ told' \in [Watchers -> Seq([by: Sources, ev: Event])]
    <3>1. CASE UNCHANGED <<got, watching, told>>
      BY <3>1
    <3>2. CASE ev \in Event /\ got' = [got EXCEPT ![r] = Append(@, ev)] /\ notify(r, ev)
      <4>1. got' \in [Sources -> Seq(Event)]
        BY <3>2
      <4>2. [by |-> r, ev |-> ev] \in [by: Sources, ev: Event]
        BY <3>2
      <4>3. watching' \subseteq Watchers
        BY <3>2 DEF notify
      <4>4. told' \in [Watchers -> Seq([by: Sources, ev: Event])]
        <5> DEFINE x == [by |-> r, ev |-> ev]
                   X == [by: Sources, ev: Event]
        <5>1. \/ told' = told
              \/ told' = [w \in Watchers |->
                    IF w \in watching' /\ ev.type \in Wanted[w] THEN Append(told[w], x) ELSE told[w]]
          BY <3>2 DEF notify
        <5>2. x \in X /\ told \in [Watchers -> Seq(X)]
          BY <4>2
        <5> HIDE DEF x, X
        <5>3. \A w \in Watchers : told[w] \in Seq(X) /\ Append(told[w], x) \in Seq(X)
          BY <5>2
        <5>4. told' \in [Watchers -> Seq(X)]
          BY <5>1, <5>2, <5>3, Zenon
        <5> QED BY <5>4 DEF X
      <4> QED BY <4>1, <4>3, <4>4
    <3> QED BY <2>5, <3>1, <3>2
  <2>9. UNCHANGED <<serverVars, ended, due, follow, stopped, held, watch>>
    BY <1>13 DEF read
  <2> QED BY <2>3, <2>6, <2>7, <2>8, <2>9 DEF serverVars, Kept
<1>14. ASSUME NEW r \in Sources, readEnds(r) PROVE TypeOK'
  BY <1>14 DEF readEnds, end, serverVars, pipeVars, watchVars
<1>15. ASSUME NEW w \in Watchers, watchBegins(w) PROVE TypeOK'
  BY <1>15 DEF watchBegins, serverVars, pipeVars, sourceVars
<1>16. ASSUME NEW w \in Watchers, watchCancelled(w) PROVE TypeOK'
  BY <1>16 DEF watchCancelled, serverVars, pipeVars, sourceVars
<1>17. CASE UNCHANGED vars
  BY <1>17 DEF vars, serverVars, pipeVars, sourceVars, watchVars
<1> HIDE DEF TypeOK
<1> QED BY <1>1, <1>2, <1>3, <1>4, <1>5, <1>6, <1>7, <1>8, <1>9, <1>10, <1>11, <1>12, <1>13,
           <1>14, <1>15, <1>16, <1>17 DEF Next

-----------------------------------------------------------------------------
(* What becomes of the symbols that an EventSource has not read. *)

LEMMA SymbolTypes ==
    ASSUME NEW s \in Seq(Symbol)
    PROVE  /\ Len(s) \in Nat
           /\ \A i \in 1 .. Len(s) : s[i].ev \in Event /\ s[i].last \in BOOLEAN
<1>1. \A i \in 1 .. Len(s) : s[i] \in Symbol
  OBVIOUS
<1> QED BY <1>1 DEF Symbol

LEMMA RetryApart == Retry \notin Events /\ \A ev \in Event : ev # Retry => ev \in Events
BY DEF Retry, Events, Event

LEMMA EventIds ==
    ASSUME NEW ev \in Events
    PROVE  ev.id \in Nat /\ ev # Retry
<1>1. 1 .. MaxEvents \subseteq Nat
  OBVIOUS
<1> QED BY <1>1, RetryApart DEF Events

(* ev is written after s. *)
Added(p, s, ev) ==
    /\ p \in Seq(Symbol) /\ Len(s) \in Nat /\ Len(p) = Len(s) + 2
    /\ \A i \in 1 .. Len(s) : p[i] = s[i] /\ i \in 1 .. Len(p)
    /\ p[Len(s) + 1].ev = ev /\ ~p[Len(s) + 1].last
    /\ p[Len(s) + 2].ev = ev /\ p[Len(s) + 2].last
    /\ \A i \in 1 .. Len(p) : i \in 1 .. Len(s) \/ i = Len(s) + 1 \/ i = Len(s) + 2

LEMMA ChunkAdded ==
    ASSUME NEW s \in Seq(Symbol), NEW ev \in Event, NEW p, p = s \o chunk(ev)
    PROVE  Added(p, s, ev)
<1>1. chunk(ev) \in Seq(Symbol)
  BY ChunkTyped
<1>2. /\ Len(chunk(ev)) = 2
      /\ chunk(ev)[1].ev = ev /\ ~chunk(ev)[1].last
      /\ chunk(ev)[2].ev = ev /\ chunk(ev)[2].last
  BY DEF chunk
<1>3. /\ p \in Seq(Symbol) /\ Len(p) = Len(s) + 2 /\ Len(s) \in Nat
      /\ \A i \in 1 .. Len(s) : p[i] = s[i] /\ i \in 1 .. Len(p)
      /\ p[Len(s) + 1] = chunk(ev)[1] /\ p[Len(s) + 2] = chunk(ev)[2]
  <2>1. p \in Seq(Symbol) /\ Len(p) = Len(s) + 2 /\ Len(s) \in Nat
    <3>1. Len(chunk(ev)) = 2
      BY <1>2
    <3>2. p \in Seq(Symbol) /\ Len(p) = Len(s) + Len(chunk(ev)) /\ Len(s) \in Nat
      BY <1>1
    <3> QED BY <3>1, <3>2
  <2>2. \A i \in 1 .. Len(s) : p[i] = s[i]
    BY <1>1
  <2>3. \A i \in 1 .. Len(chunk(ev)) : p[Len(s) + i] = chunk(ev)[i]
    BY <1>1
  <2>4. \A i \in 1 .. Len(s) : i \in 1 .. Len(p)
    BY <2>1
  <2> QED BY <2>1, <2>2, <2>3, <2>4, <1>2
<1> QED BY <1>2, <1>3 DEF Added

LEMMA StaysWhole ==
    ASSUME NEW s \in Seq(Symbol), NEW ev \in Event, NEW p, p = s \o chunk(ev), Whole(s)
    PROVE  Whole(p)
<1>1. /\ Len(s) \in Nat /\ Len(p) = Len(s) + 2
      /\ \A i \in 1 .. Len(s) : p[i] = s[i] /\ i \in 1 .. Len(p)
      /\ p[Len(s) + 1].ev = ev /\ ~p[Len(s) + 1].last
      /\ p[Len(s) + 2].ev = ev /\ p[Len(s) + 2].last
      /\ \A i \in 1 .. Len(p) : i \in 1 .. Len(s) \/ i = Len(s) + 1 \/ i = Len(s) + 2
  <2>1. Added(p, s, ev)
    BY ChunkAdded
  <2> QED BY <2>1 DEF Added
<1> SUFFICES ASSUME NEW i \in 1 .. Len(p)
             PROVE  /\ ~p[i].last => i + 1 \in 1 .. Len(p) /\ p[i + 1].last /\ p[i + 1].ev = p[i].ev
                    /\ p[i].last => i - 1 \in 1 .. Len(p) /\ ~p[i - 1].last
  BY DEF Whole
<1>2. CASE i \in 1 .. Len(s)
  <2>1. /\ ~s[i].last => i + 1 \in 1 .. Len(s) /\ s[i + 1].last /\ s[i + 1].ev = s[i].ev
        /\ s[i].last => i - 1 \in 1 .. Len(s) /\ ~s[i - 1].last
    BY <1>2 DEF Whole
  <2> QED BY <2>1, <1>1, <1>2
<1>3. CASE i = Len(s) + 1
  <2>1. i + 1 \in 1 .. Len(p) /\ i + 1 = Len(s) + 2
    BY <1>1, <1>3
  <2> QED BY <2>1, <1>1, <1>3
<1>4. CASE i = Len(s) + 2
  <2>1. i - 1 \in 1 .. Len(p) /\ i - 1 = Len(s) + 1
    BY <1>1, <1>4
  <2> QED BY <2>1, <1>1, <1>4
<1> QED BY <1>1, <1>2, <1>3, <1>4

(* A retry is nothing that is due. *)
LEMMA RetryAdded ==
    ASSUME NEW s \in Seq(Symbol), NEW p, p = s \o chunk(Retry), NEW d \in Seq(Events), NEW t \in Nat,
           Ordered(s), Holds(s, d, t)
    PROVE  Ordered(p) /\ Holds(p, d, t)
<1>1. /\ Len(s) \in Nat
      /\ \A i \in 1 .. Len(s) : p[i] = s[i] /\ i \in 1 .. Len(p)
      /\ \A i \in 1 .. Len(p) : i \in 1 .. Len(s) \/ p[i].ev = Retry
  <2>1. Retry \in Event
    BY DEF Event
  <2>2. Added(p, s, Retry)
    BY <2>1, ChunkAdded
  <2> QED BY <2>2 DEF Added
<1>2. Ordered(p)
  BY <1>1 DEF Ordered, IsEvent
<1>3. Holds(p, d, t)
  BY <1>1 DEF Holds, IsEvent
<1> QED BY <1>2, <1>3

(* An event that comes after all that was due is due, and there. *)
LEMMA EventAdded ==
    ASSUME NEW s \in Seq(Symbol), NEW ev \in Events, NEW p, p = s \o chunk(ev),
           NEW d \in Seq(Events), NEW c, c = Append(d, ev), NEW t \in Nat, t <= Len(d),
           \A i \in 1 .. Len(d) : d[i].id < ev.id,
           Ordered(s), Holds(s, d, t), Increasing(d)
    PROVE  /\ c \in Seq(Events) /\ Len(c) = Len(d) + 1 /\ Len(d) \in Nat
           /\ \A i \in 1 .. Len(d) : c[i] = d[i]
           /\ c[Len(d) + 1] = ev
           /\ Ordered(p) /\ Holds(p, c, t) /\ Increasing(c)
<1>1. /\ Len(s) \in Nat /\ Len(p) = Len(s) + 2
      /\ \A i \in 1 .. Len(s) : p[i] = s[i] /\ i \in 1 .. Len(p)
      /\ p[Len(s) + 1].ev = ev /\ ~p[Len(s) + 1].last
      /\ p[Len(s) + 2].ev = ev /\ p[Len(s) + 2].last
      /\ \A i \in 1 .. Len(p) : i \in 1 .. Len(s) \/ i = Len(s) + 1 \/ i = Len(s) + 2
  <2>1. ev \in Event
    BY DEF Event
  <2>2. Added(p, s, ev)
    BY <2>1, ChunkAdded
  <2> QED BY <2>2 DEF Added
<1>2. /\ c \in Seq(Events) /\ Len(c) = Len(d) + 1 /\ Len(d) \in Nat
      /\ \A i \in 1 .. Len(d) : c[i] = d[i] /\ i \in 1 .. Len(c)
      /\ c[Len(d) + 1] = ev
      /\ \A i \in 1 .. Len(c) : i \in 1 .. Len(d) \/ i = Len(d) + 1
  OBVIOUS
<1>3. Increasing(c)
  BY <1>2 DEF Increasing
<1>4. \A i \in 1 .. Len(s) : IsEvent(s, i) => s[i].ev.id < ev.id
  <2> SUFFICES ASSUME NEW i \in 1 .. Len(s), IsEvent(s, i) PROVE s[i].ev.id < ev.id
    OBVIOUS
  <2>1. PICK k \in t + 1 .. Len(d) : s[i].ev = d[k]
    BY DEF Holds
  <2> QED BY <2>1, <1>2
<1>5. Ordered(p)
  <2> SUFFICES ASSUME NEW i \in 1 .. Len(p), NEW j \in 1 .. Len(p),
                      i < j, p[i].last, IsEvent(p, i), IsEvent(p, j)
               PROVE  p[i].ev.id < p[j].ev.id
    BY DEF Ordered
  <2>1. CASE i \in 1 .. Len(s) /\ j \in 1 .. Len(s)
    BY <2>1, <1>1 DEF Ordered, IsEvent
  <2>2. CASE i \in 1 .. Len(s) /\ j \notin 1 .. Len(s)
    <3>1. p[j].ev = ev
      BY <2>2, <1>1
    <3> QED BY <3>1, <2>2, <1>1, <1>4 DEF IsEvent
  <2>3. CASE i \notin 1 .. Len(s)
    BY <2>3, <1>1
  <2> QED BY <2>1, <2>2, <2>3
<1>6. Holds(p, c, t)
  <2>1. ASSUME NEW i \in 1 .. Len(p), IsEvent(p, i) PROVE \E k \in t + 1 .. Len(c) : p[i].ev = c[k]
    <3>1. CASE i \in 1 .. Len(s)
      <4>1. PICK k \in t + 1 .. Len(d) : s[i].ev = d[k]
        BY <2>1, <3>1, <1>1 DEF Holds, IsEvent
      <4> QED BY <4>1, <3>1, <1>1, <1>2
    <3>2. CASE i \notin 1 .. Len(s)
      <4>1. p[i].ev = c[Len(d) + 1] /\ Len(d) + 1 \in t + 1 .. Len(c)
        BY <3>2, <1>1, <1>2, SMTT(40)
      <4> QED BY <4>1
    <3> QED BY <3>1, <3>2
  <2>2. ASSUME NEW k \in t + 1 .. Len(c) PROVE \E i \in 1 .. Len(p) : p[i].ev = c[k]
    <3>1. CASE k \in t + 1 .. Len(d)
      <4>1. PICK i \in 1 .. Len(s) : s[i].ev = d[k]
        BY <3>1 DEF Holds
      <4> QED BY <4>1, <3>1, <1>1, <1>2
    <3>2. CASE k = Len(d) + 1
      <4>1. Len(s) + 1 \in 1 .. Len(p) /\ p[Len(s) + 1].ev = c[k]
        BY <3>2, <1>1, <1>2
      <4> QED BY <4>1
    <3> QED BY <3>1, <3>2, <1>2
  <2> QED BY <2>1, <2>2 DEF Holds
<1> QED BY <1>2, <1>3, <1>5, <1>6

LEMMA ThirdOn ==
    ASSUME NEW S, NEW s \in Seq(S), Len(s) >= 2
    PROVE  Len(SubSeq(s, 3, Len(s))) = Len(s) - 2
<1> DEFINE n == Len(s)
<1>1. n \in Int /\ \A i \in 3 .. n : s[i] \in S
  OBVIOUS
<1>2. n >= 2
  OBVIOUS
<1> HIDE DEF n
<1>3. Len(SubSeq(s, 3, n)) = IF 3 <= n THEN n - 3 + 1 ELSE 0
  BY <1>1, SubSeqProperties
<1>4. Len(SubSeq(s, 3, n)) = n - 2
  BY <1>1, <1>2, <1>3
<1> QED BY <1>4 DEF n

(* The first event is read: it is the next that is due, if it is no retry. *)
LEMMA EventRead ==
    ASSUME NEW s \in Seq(Symbol), Len(s) >= 2, NEW p, p = SubSeq(s, 3, Len(s)),
           NEW d \in Seq(Events), NEW t \in Nat, NEW u \in Nat, u = t + 1,
           Whole(s), Ordered(s), Holds(s, d, t), Increasing(d)
    PROVE  /\ p \in Seq(Symbol) /\ Whole(p) /\ Ordered(p)
           /\ s[1].ev = Retry => Holds(p, d, t)
           /\ s[1].ev # Retry => u <= Len(d) /\ d[u] = s[1].ev /\ Holds(p, d, u)
<1>1. /\ p \in Seq(Symbol) /\ Len(p) = Len(s) - 2 /\ Len(p) \in Nat /\ Len(s) \in Nat
      /\ \A i \in 1 .. Len(p) : p[i] = s[i + 2] /\ i + 2 \in 1 .. Len(s)
      /\ 1 \in 1 .. Len(s) /\ 2 \in 1 .. Len(s)
  <2>1. Len(s) \in Nat /\ p \in Seq(Symbol) /\ Len(p) = Len(s) - 2
    <3>1. Len(s) \in Nat
      OBVIOUS
    <3>2. p \in Seq(Symbol)
      BY <3>1
    <3>3. Len(p) = Len(s) - 2
      BY ThirdOn
    <3> QED BY <3>1, <3>2, <3>3
  <2>2. \A i \in 1 .. Len(p) : p[i] = s[i + 2]
    BY <2>1
  <2> QED BY <2>1, <2>2
<1>2. \A i \in 1 .. Len(s) : i = 1 \/ i = 2 \/ (i - 2 \in 1 .. Len(p) /\ p[i - 2] = s[i])
  <2> SUFFICES ASSUME NEW i \in 1 .. Len(s), i # 1, i # 2
               PROVE  i - 2 \in 1 .. Len(p) /\ p[i - 2] = s[i]
    OBVIOUS
  <2>1. i - 2 \in 1 .. Len(p) /\ (i - 2) + 2 = i
    BY <1>1
  <2> QED BY <2>1, <1>1
<1>3. ~s[1].last /\ s[2].last /\ s[2].ev = s[1].ev
  <2>1. ~s[1].last
    BY <1>1 DEF Whole
  <2>2. 1 + 1 = 2
    OBVIOUS
  <2> QED BY <2>1, <2>2, <1>1 DEF Whole
<1>4. Whole(p)
  <2> SUFFICES ASSUME NEW i \in 1 .. Len(p)
               PROVE  /\ ~p[i].last => /\ i + 1 \in 1 .. Len(p)
                                       /\ p[i + 1].last /\ p[i + 1].ev = p[i].ev
                      /\ p[i].last => i - 1 \in 1 .. Len(p) /\ ~p[i - 1].last
    BY DEF Whole
  <2>1. CASE ~p[i].last
    <3>1. /\ (i + 2) + 1 \in 1 .. Len(s) /\ s[(i + 2) + 1].last
          /\ s[(i + 2) + 1].ev = s[i + 2].ev
      BY <2>1, <1>1 DEF Whole
    <3>2. (i + 2) + 1 = (i + 1) + 2 /\ i + 1 \in 1 .. Len(p)
      BY <3>1, <1>1
    <3> QED BY <3>1, <3>2, <2>1, <1>1
  <2>2. CASE p[i].last
    <3>1. (i + 2) - 1 \in 1 .. Len(s) /\ ~s[(i + 2) - 1].last
      BY <2>2, <1>1 DEF Whole
    <3>2. (i + 2) - 1 # 2
      BY <3>1, <1>3
    <3>3. i - 1 \in 1 .. Len(p) /\ (i + 2) - 1 = (i - 1) + 2
      BY <3>1, <3>2, <1>1
    <3> QED BY <3>1, <3>3, <2>2, <1>1
  <2> QED BY <2>1, <2>2
<1>5. Ordered(p)
  <2> SUFFICES ASSUME NEW i \in 1 .. Len(p), NEW j \in 1 .. Len(p),
                      i < j, p[i].last, IsEvent(p, i), IsEvent(p, j)
               PROVE  p[i].ev.id < p[j].ev.id
    BY DEF Ordered
  <2>1. i + 2 < j + 2
    OBVIOUS
  <2> QED BY <2>1, <1>1 DEF Ordered, IsEvent
<1>6. \A i \in 1 .. Len(p) : IsEvent(p, i) => IsEvent(s, i + 2)
  BY <1>1 DEF IsEvent
<1>7. CASE s[1].ev = Retry
  <2>1. ASSUME NEW i \in 1 .. Len(p), IsEvent(p, i) PROVE \E k \in t + 1 .. Len(d) : p[i].ev = d[k]
    BY <2>1, <1>1, <1>6 DEF Holds
  <2>2. ASSUME NEW k \in t + 1 .. Len(d) PROVE \E i \in 1 .. Len(p) : p[i].ev = d[k]
    <3>1. PICK i \in 1 .. Len(s) : s[i].ev = d[k]
      BY DEF Holds
    <3>2. d[k] # Retry
      <4>1. d[k] \in Events
        OBVIOUS
      <4> QED BY <4>1, RetryApart
    <3>3. i # 1 /\ i # 2
      BY <3>1, <3>2, <1>3, <1>7
    <3> QED BY <3>1, <3>3, <1>2
  <2>3. Holds(p, d, t)
    BY <2>1, <2>2 DEF Holds
  <2> QED BY <2>3, <1>1, <1>4, <1>5, <1>7
<1>8. CASE s[1].ev # Retry
  <2>1. PICK k \in t + 1 .. Len(d) : s[1].ev = d[k]
    BY <1>1, <1>8 DEF Holds, IsEvent
  <2>2. Len(d) \in Nat /\ \A i \in t + 1 .. Len(d) : d[i] \in Events /\ d[i].id \in Nat /\ d[i] # Retry
    <3>1. \A i \in t + 1 .. Len(d) : d[i] \in Events
      OBVIOUS
    <3> QED BY <3>1, EventIds
  <2>3. \A j \in 1 .. Len(p) : IsEvent(p, j) => s[1].ev.id < p[j].ev.id
    <3> SUFFICES ASSUME NEW j \in 1 .. Len(p), IsEvent(p, j) PROVE s[1].ev.id < p[j].ev.id
      OBVIOUS
    <3>1. j + 2 \in 1 .. Len(s) /\ 2 < j + 2 /\ IsEvent(s, j + 2) /\ IsEvent(s, 2)
      BY <1>1, <1>3, <1>6, <1>8 DEF IsEvent
    <3> QED BY <3>1, <1>1, <1>3 DEF Ordered
  <2>4. k = u
    <3> SUFFICES ASSUME k # u PROVE FALSE
      OBVIOUS
    <3>1. u \in t + 1 .. Len(d) /\ u < k /\ u \in 1 .. Len(d) /\ k \in 1 .. Len(d)
      BY <2>1, <2>2
    <3>2. d[u].id < d[k].id /\ d[u].id \in Nat /\ d[k].id \in Nat /\ d[u] # Retry
      BY <3>1, <2>1, <2>2 DEF Increasing
    <3>3. PICK i \in 1 .. Len(s) : s[i].ev = d[u]
      BY <3>1 DEF Holds
    <3>4. i # 1 /\ i # 2
      BY <3>2, <3>3, <2>1, <1>3, SMTT(40)
    <3>5. i - 2 \in 1 .. Len(p) /\ p[i - 2].ev = d[u]
      BY <3>3, <3>4, <1>2
    <3>6. s[1].ev.id < d[u].id
      BY <3>2, <3>5, <2>3 DEF IsEvent
    <3> QED BY <3>2, <3>6, <2>1, SMTT(30)
  <2>5. ASSUME NEW i \in 1 .. Len(p), IsEvent(p, i) PROVE \E j \in u + 1 .. Len(d) : p[i].ev = d[j]
    <3>1. PICK j \in t + 1 .. Len(d) : p[i].ev = d[j]
      BY <2>5, <1>1, <1>6 DEF Holds
    <3>2. s[1].ev.id < p[i].ev.id
      BY <2>3, <2>5
    <3>3. j # k
      BY <3>1, <3>2, <2>1, <2>2, SMTT(30)
    <3>4. j \in u + 1 .. Len(d)
      BY <3>1, <3>3, <2>4, <2>2
    <3> QED BY <3>1, <3>4
  <2>6. ASSUME NEW j \in u + 1 .. Len(d) PROVE \E i \in 1 .. Len(p) : p[i].ev = d[j]
    <3>1. j \in t + 1 .. Len(d) /\ u \in 1 .. Len(d) /\ j \in 1 .. Len(d) /\ u < j
      BY <2>1, <2>2, <2>4
    <3>2. PICK i \in 1 .. Len(s) : s[i].ev = d[j]
      BY <3>1 DEF Holds
    <3>3. d[u].id < d[j].id /\ d[u].id \in Nat
      BY <3>1, <2>1, <2>2, <2>4 DEF Increasing
    <3>4. i # 1 /\ i # 2
      BY <3>2, <3>3, <2>1, <2>4, <1>3, SMTT(40)
    <3> QED BY <3>2, <3>4, <1>2
  <2>7. Holds(p, d, u)
    BY <2>5, <2>6 DEF Holds
  <2> QED BY <2>1, <2>2, <2>4, <2>7, <1>1, <1>4, <1>5, <1>8
<1> QED BY <1>7, <1>8

LEMMA ConcatTwice ==
    ASSUME NEW a \in Seq(Symbol), NEW b \in Seq(Symbol), NEW c \in Seq(Symbol)
    PROVE  (a \o b) \o c = a \o (b \o c)
<1>1. /\ (a \o b) \o c \in Seq(Symbol) /\ a \o (b \o c) \in Seq(Symbol)
      /\ Len((a \o b) \o c) = Len(a \o (b \o c))
  OBVIOUS
<1>2. \A i \in 1 .. Len((a \o b) \o c) : ((a \o b) \o c)[i] = (a \o (b \o c))[i]
  OBVIOUS
<1> QED BY <1>1, <1>2, SeqEqual

(* A sequence is what is taken of it and the rest. *)
Cut(b, n, c, rest) ==
    /\ c \in Seq(Symbol) /\ rest \in Seq(Symbol) /\ Len(c) = n /\ Len(rest) = Len(b) - n
    /\ c \o rest = b
    /\ \A i \in 1 .. n : c[i] = b[i]

LEMMA ChunkCut ==
    ASSUME NEW b \in Seq(Symbol), NEW n \in 1 .. Len(b),
           NEW c, c = SubSeq(b, 1, n), NEW rest, rest = SubSeq(b, n + 1, Len(b))
    PROVE  Cut(b, n, c, rest)
<1> DEFINE m == Len(b)
<1>1. /\ m \in Nat /\ n \in Int /\ m \in Int /\ 1 <= n /\ n <= m
      /\ \A i \in 1 .. n : b[i] \in Symbol
      /\ \A i \in n + 1 .. m : b[i] \in Symbol
  OBVIOUS
<1>2. c = SubSeq(b, 1, n) /\ rest = SubSeq(b, n + 1, m)
  OBVIOUS
<1> HIDE DEF m
<1>3. c \in Seq(Symbol) /\ Len(c) = n /\ \A i \in 1 .. n : c[i] = b[i]
  BY <1>1, <1>2, SubSeqProperties
<1>4. rest \in Seq(Symbol) /\ Len(rest) = m - n /\ \A i \in 1 .. Len(rest) : rest[i] = b[n + i]
  BY <1>1, <1>2, SubSeqProperties
<1>5. c \o rest \in Seq(Symbol) /\ Len(c \o rest) = Len(b)
  BY <1>1, <1>3, <1>4 DEF m
<1>6. \A i \in 1 .. Len(b) : (c \o rest)[i] = b[i]
  BY <1>1, <1>3, <1>4 DEF m
<1>7. c \o rest = b
  BY <1>5, <1>6, SeqEqual
<1> QED BY <1>3, <1>4, <1>7 DEF Cut, m

(* What a read returns, with what was kept of the read before: it holds no end of an
   event and is not longer than a beginning, or it is the first event and no more. *)
Taken(u, rest, s) ==
    /\ u \in Seq(Symbol) /\ rest \in Seq(Symbol) /\ u \o rest = s
    /\ endsOf(u) = {} => Len(u) <= 1
    /\ endsOf(u) # {} =>
        /\ firstEnd(u) = 2 /\ u[2].ev = s[1].ev
        /\ Len(s) >= 2 /\ rest = SubSeq(s, 3, Len(s))

LEMMA ChunkTaken ==
    ASSUME NEW a \in Seq(Symbol), NEW b \in Seq(Symbol), NEW s, s = a \o b,
           Len(a) <= 1, Whole(s),
           NEW n \in 1 .. Len(b), \A i \in 1 .. n - 1 : ~b[i].last,
           NEW c, c = SubSeq(b, 1, n), NEW rest, rest = SubSeq(b, n + 1, Len(b)),
           NEW u, u = a \o c
    PROVE  Taken(u, rest, s)
<1>1. /\ c \in Seq(Symbol) /\ rest \in Seq(Symbol) /\ Len(c) = n /\ Len(rest) = Len(b) - n
      /\ c \o rest = b
      /\ \A i \in 1 .. n : c[i] = b[i]
  <2>1. Cut(b, n, c, rest)
    BY ChunkCut
  <2> QED BY <2>1 DEF Cut
<1>2. u \in Seq(Symbol) /\ u \o rest = s
  <2>1. u \in Seq(Symbol)
    BY <1>1
  <2>2. (a \o c) \o rest = a \o (c \o rest)
    BY <1>1, ConcatTwice
  <2> QED BY <2>1, <2>2, <1>1
<1>3. /\ Len(a) \in Nat /\ Len(b) \in Nat /\ s \in Seq(Symbol)
      /\ Len(s) = Len(a) + Len(b) /\ Len(u) = Len(a) + n /\ Len(u) \in Nat
  BY <1>1
<1>4. \A i \in 1 .. Len(u) : u[i] = s[i] /\ i \in 1 .. Len(s)
  <2>1. \A i \in 1 .. Len(a) : u[i] = a[i] /\ s[i] = a[i]
    BY <1>1
  <2>2. \A i \in 1 .. n : u[Len(a) + i] = c[i] /\ s[Len(a) + i] = b[i]
    BY <1>1, SMTT(40)
  <2> SUFFICES ASSUME NEW i \in 1 .. Len(u) PROVE u[i] = s[i] /\ i \in 1 .. Len(s)
    OBVIOUS
  <2>3. CASE i \in 1 .. Len(a)
    BY <2>1, <2>3, <1>3
  <2>4. CASE i \notin 1 .. Len(a)
    <3>1. i - Len(a) \in 1 .. n /\ Len(a) + (i - Len(a)) = i /\ i \in 1 .. Len(s)
      BY <2>4, <1>3
    <3> QED BY <3>1, <2>2, <1>1
  <2> QED BY <2>3, <2>4
<1>5. 1 \in 1 .. Len(u) /\ ~u[1].last
  <2>1. 1 \in 1 .. Len(u)
    BY <1>3
  <2>2. ~s[1].last
    BY <2>1, <1>4, SMTT(30) DEF Whole
  <2> QED BY <2>1, <2>2, <1>4
<1>6. \A i \in 1 .. Len(u) : i < Len(u) => ~u[i].last
  <2> SUFFICES ASSUME NEW i \in 1 .. Len(u), i < Len(u) PROVE ~u[i].last
    OBVIOUS
  <2>1. CASE i = 1
    BY <2>1, <1>5
  <2>2. CASE i # 1
    <3>1. i - Len(a) \in 1 .. n - 1 /\ i - Len(a) \in 1 .. n /\ Len(a) + (i - Len(a)) = i
      BY <2>2, <1>3
    <3>2. u[i] = b[i - Len(a)]
      <4>1. u[Len(a) + (i - Len(a))] = c[i - Len(a)]
        BY <3>1, <1>1
      <4> QED BY <4>1, <3>1, <1>1
    <3> QED BY <3>1, <3>2
  <2> QED BY <2>1, <2>2
<1>7. 2 \in 1 .. Len(u) => u[2].last /\ u[2].ev = u[1].ev
  <2> SUFFICES ASSUME 2 \in 1 .. Len(u) PROVE u[2].last /\ u[2].ev = u[1].ev
    OBVIOUS
  <2>1. 1 \in 1 .. Len(s) /\ ~s[1].last /\ 1 + 1 = 2
    BY <1>4, <1>5
  <2>2. s[1 + 1].last /\ s[1 + 1].ev = s[1].ev
    BY <2>1 DEF Whole
  <2> QED BY <2>1, <2>2, <1>4, <1>5
<1>8. endsOf(u) = {} => Len(u) <= 1
  <2> SUFFICES ASSUME ~(Len(u) <= 1) PROVE 2 \in endsOf(u)
    OBVIOUS
  <2>1. 2 \in 1 .. Len(u)
    BY <1>3
  <2> QED BY <2>1, <1>7 DEF endsOf
<1>9. ASSUME endsOf(u) # {}
      PROVE  /\ firstEnd(u) = 2 /\ u[2].ev = s[1].ev
             /\ Len(s) >= 2 /\ rest = SubSeq(s, 3, Len(s))
  <2>1. firstEnd(u) \in 1 .. Len(u) /\ u[firstEnd(u)].last
    <3>1. firstEnd(u) \in endsOf(u)
      BY <1>2, <1>9, FirstEnd
    <3> QED BY <3>1 DEF endsOf
  <2>2. firstEnd(u) = Len(u)
    <3> DEFINE f == firstEnd(u)
    <3>1. f \in 1 .. Len(u) /\ u[f].last
      BY <2>1
    <3> HIDE DEF f
    <3>2. f = Len(u)
      BY <3>1, <1>3, <1>6, SMTT(30)
    <3> QED BY <3>2 DEF f
  <2>3. firstEnd(u) # 1
    BY <2>1, <1>5
  <2>4. 2 \in 1 .. Len(u)
    BY <2>1, <2>3, <1>3
  <2>5. Len(u) = 2
    BY <2>4, <1>3, <1>6, <1>7, SMTT(30)
  <2>6. Len(rest) = Len(s) - 2 /\ Len(s) >= 2
    BY <2>5, <1>1, <1>3
  <2>7. \A i \in 1 .. Len(rest) : rest[i] = s[i + 2]
    <3>1. \A i \in 1 .. Len(rest) : (u \o rest)[Len(u) + i] = rest[i]
      BY <1>1, <1>2
    <3> QED BY <3>1, <2>5, <1>2, SMTT(40)
  <2>8. rest = SubSeq(s, 3, Len(s))
    <3> DEFINE q == SubSeq(s, 3, Len(s))
    <3>1. Len(q) = Len(s) - 2
      BY <2>6, <1>3, ThirdOn
    <3>2. q \in Seq(Symbol) /\ \A i \in 1 .. Len(q) : q[i] = s[i + 2]
      BY <3>1, <1>3, SMTT(40)
    <3> HIDE DEF q
    <3>3. Len(rest) = Len(q)
      BY <3>1, <2>6
    <3>4. \A i \in 1 .. Len(rest) : rest[i] = q[i]
      BY <3>2, <3>3, <2>7
    <3>5. rest \in Seq(Symbol)
      BY <1>1
    <3>6. rest = q
      BY <3>2, <3>3, <3>4, <3>5, SeqEqual
    <3> QED BY <3>6 DEF q
  <2>9. u[2].ev = s[1].ev
    BY <2>4, <1>4, <1>5, <1>7
  <2> QED BY <2>2, <2>5, <2>6, <2>8, <2>9
<1> QED BY <1>1, <1>2, <1>8, <1>9 DEF Taken

-----------------------------------------------------------------------------
(* SourceInv is kept by every step. *)

LEMMA SourceStart == Init => \A r \in Sources : SourceInv(r)
<1> SUFFICES ASSUME Init, NEW r \in Sources PROVE SourceInv(r)
  OBVIOUS
<1>1. /\ remain[r] = << >> /\ pipe[r] = << >> /\ due[r] = << >> /\ got[r] = << >>
      /\ ctrls = {} /\ conn[r] = "idle"
  BY DEF Init
<1>2. unread(r) = << >>
  BY <1>1 DEF unread
<1>3. << >> \in Seq(Events) /\ Len(<< >>) = 0
  OBVIOUS
<1>4. Whole(<< >>) /\ Ordered(<< >>) /\ Holds(<< >>, << >>, 0) /\ Increasing(<< >>)
  BY DEF Whole, Ordered, Holds, Increasing
<1>5. StreamInv(r)
  <2>1. Holds(unread(r), due[r], Len(got[r]))
    BY <1>1, <1>2, <1>3, <1>4
  <2>2. Len(remain[r]) = 0 /\ Len(got[r]) = 0 /\ Len(due[r]) = 0
    BY <1>1, <1>3
  <2> QED BY <1>1, <1>2, <1>3, <1>4, <2>1, <2>2 DEF StreamInv
<1>6. PhaseInv(r)
  BY <1>1, <1>2 DEF PhaseInv
<1> QED BY <1>5, <1>6 DEF SourceInv

(* A step that leaves what is written and read of r as it is. *)
Leaves(r) ==
    /\ remain'[r] = remain[r] /\ pipe'[r] = pipe[r] /\ due'[r] = due[r] /\ got'[r] = got[r]
    /\ closed' \/ (closed' = closed /\ Len(queue) <= Len(queue'))

LEMMA StreamLeft ==
    ASSUME TypeOK, TypeOK', NEW r \in Sources, StreamInv(r), Leaves(r)
    PROVE  StreamInv(r)' /\ unread(r)' = unread(r)
<1>1. unread(r)' = unread(r)
  BY DEF Leaves, unread
<1>2. ~closed' => \A i \in 1 .. Len(due'[r]) : due'[r][i].id <= Len(queue')
  <2> SUFFICES ASSUME ~closed', NEW i \in 1 .. Len(due[r]) PROVE due[r][i].id <= Len(queue')
    BY DEF Leaves
  <2>1. Len(queue) <= Len(queue') /\ due[r][i].id <= Len(queue) /\ due[r] \in Seq(Events)
    BY DEF Leaves, StreamInv
  <2>2. Len(queue) \in Nat /\ Len(queue') \in Nat
    BY DEF TypeOK
  <2>3. due[r][i].id \in Nat
    <3>1. due[r][i] \in Events
      BY <2>1
    <3> QED BY <3>1, EventIds
  <2> QED BY <2>1, <2>2, <2>3
<1>3. StreamInv(r)'
  BY <1>1, <1>2 DEF StreamInv, Leaves
<1> QED BY <1>1, <1>3

LEMMA SourceLeft ==
    ASSUME TypeOK, TypeOK', NEW r \in Sources, SourceInv(r), Leaves(r),
           conn'[r] = conn[r] \/ conn'[r] \notin {"idle", "asked"},
           r \in ctrls' => r \in ctrls,
           follow'[r] \in {"idle", "listing"} => follow[r] \in {"idle", "listing"},
           conn[r] = "idle" => conn'[r] = "idle"
    PROVE  SourceInv(r)'
<1>1. StreamInv(r)' /\ unread(r)' = unread(r)
  BY StreamLeft DEF SourceInv
<1>2. PhaseInv(r)'
  BY <1>1 DEF SourceInv, PhaseInv
<1> QED BY <1>1, <1>2 DEF SourceInv

LEMMA SourceDispatch ==
    ASSUME TypeOK, TypeOK', NEW r \in Sources, SourceInv(r), NEW type \in Types, dispatchEvent(type)
    PROVE  SourceInv(r)'
<1> DEFINE ev == [id |-> Len(queue) + 1, type |-> type]
<1>1. /\ ~closed /\ closed' = closed /\ queue' = Append(queue, ev)
      /\ pipe' = [q \in Sources |-> IF q \in ctrls THEN pipe[q] \o chunk(ev) ELSE pipe[q]]
      /\ due' = [q \in Sources |-> IF q \in ctrls THEN Append(due[q], ev) ELSE due[q]]
      /\ remain' = remain /\ got' = got /\ conn' = conn /\ ctrls' = ctrls /\ follow' = follow
  BY DEF dispatchEvent, enqueue, sourceVars
<1>2. ev \in Events /\ ev.id = Len(queue) + 1
  <2>1. Len(queue) + 1 \in 1 .. MaxEvents
    BY StreamAssumption DEF dispatchEvent, StreamAssumption, TypeOK
  <2> QED BY <2>1 DEF Events
<1> HIDE DEF ev
<1>3. Len(queue) \in Nat /\ Len(queue') = Len(queue) + 1
  BY <1>1 DEF TypeOK
<1>4. CASE r \notin ctrls
  <2>1. Leaves(r)
    BY <1>1, <1>3, <1>4 DEF Leaves
  <2> QED BY <2>1, <1>1, SourceLeft
<1>5. CASE r \in ctrls
  <2> DEFINE s == unread(r)
             p == s \o chunk(ev)
             d == due[r]
             c == Append(d, ev)
             t == Len(got[r])
  <2>1. /\ Len(remain[r]) <= 1 /\ Whole(s) /\ Ordered(s) /\ Holds(s, d, t)
        /\ Increasing(d) /\ d \in Seq(Events)
        /\ \A i \in 1 .. Len(d) : d[i].id <= Len(queue)
        /\ t <= Len(d) /\ \A i \in 1 .. Len(got[r]) : got[r][i] = d[i]
    BY <1>1 DEF SourceInv, StreamInv
  <2>2. s \in Seq(Symbol) /\ ev \in Event /\ t \in Nat
    <3>1. s \in Seq(Symbol)
      BY UnreadTyped
    <3>2. got[r] \in Seq(Event)
      BY DEF TypeOK
    <3> QED BY <1>2, <3>1, <3>2 DEF Event
  <2>3. unread(r)' = p
    <3>1. remain[r] \in Seq(Symbol) /\ pipe[r] \in Seq(Symbol) /\ chunk(ev) \in Seq(Symbol)
      BY <2>2, ChunkTyped, UnreadTyped
    <3>2. unread(r)' = remain[r] \o (pipe[r] \o chunk(ev))
      BY <1>1, <1>5 DEF unread
    <3> QED BY <3>1, <3>2, ConcatTwice DEF unread
  <2>4. due'[r] = c /\ remain'[r] = remain[r] /\ got'[r] = got[r]
    BY <1>1, <1>5
  <2>5. \A i \in 1 .. Len(d) : d[i].id < ev.id
    <3> SUFFICES ASSUME NEW i \in 1 .. Len(d) PROVE d[i].id < ev.id
      OBVIOUS
    <3>1. d[i].id \in Nat
      <4>1. d[i] \in Events
        BY <2>1
      <4> QED BY <4>1, EventIds
    <3> QED BY <3>1, <2>1, <1>2, <1>3
  <2> HIDE DEF s, d, t
  <2>6. /\ c \in Seq(Events) /\ Len(c) = Len(d) + 1 /\ Len(d) \in Nat
        /\ \A i \in 1 .. Len(d) : c[i] = d[i]
        /\ c[Len(d) + 1] = ev
        /\ Ordered(p) /\ Holds(p, c, t) /\ Increasing(c)
    BY <1>2, <2>1, <2>2, <2>5, EventAdded
  <2>7. Whole(p)
    BY <2>1, <2>2, StaysWhole
  <2>8. \A i \in 1 .. Len(c) : c[i].id <= Len(queue')
    <3> SUFFICES ASSUME NEW i \in 1 .. Len(c) PROVE c[i].id <= Len(queue')
      OBVIOUS
    <3>1. CASE i \in 1 .. Len(d)
      <4>1. c[i].id \in Nat /\ c[i] = d[i] /\ d[i].id <= Len(queue)
        <5>1. c[i] \in Events
          BY <2>6
        <5> QED BY <5>1, <3>1, <2>1, <2>6, EventIds
      <4> QED BY <4>1, <1>3
    <3>2. CASE i = Len(d) + 1
      BY <3>2, <2>6, <1>2, <1>3
    <3> QED BY <3>1, <3>2, <2>6
  <2>9. t <= Len(c) /\ \A i \in 1 .. t : got[r][i] = c[i]
    BY <2>1, <2>2, <2>6 DEF t
  <2> HIDE DEF p, c
  <2>10. StreamInv(r)'
    BY <2>1, <2>3, <2>4, <2>6, <2>7, <2>8, <2>9 DEF StreamInv, t
  <2>11. PhaseInv(r)'
    BY <1>1, <1>5 DEF SourceInv, PhaseInv
  <2> QED BY <2>10, <2>11 DEF SourceInv
<1> QED BY <1>4, <1>5

LEMMA SourceRetry ==
    ASSUME TypeOK, TypeOK', NEW r \in Sources, SourceInv(r), sendRetry
    PROVE  SourceInv(r)'
<1>1. /\ closed' = closed /\ queue' = queue
      /\ pipe' = [q \in Sources |-> IF q \in ctrls THEN pipe[q] \o chunk(Retry) ELSE pipe[q]]
      /\ due' = due /\ remain' = remain /\ got' = got /\ conn' = conn /\ ctrls' = ctrls
      /\ follow' = follow
  BY DEF sendRetry, enqueue, sourceVars
<1>2. CASE r \notin ctrls
  <2>1. Leaves(r)
    <3>1. Len(queue) \in Nat
      BY DEF TypeOK
    <3> QED BY <3>1, <1>1, <1>2 DEF Leaves
  <2> QED BY <2>1, <1>1, SourceLeft
<1>3. CASE r \in ctrls
  <2> DEFINE s == unread(r)
             p == s \o chunk(Retry)
  <2>1. /\ Whole(s) /\ Ordered(s) /\ Holds(s, due[r], Len(got[r])) /\ due[r] \in Seq(Events)
    BY DEF SourceInv, StreamInv
  <2>2. s \in Seq(Symbol) /\ Retry \in Event /\ Len(got[r]) \in Nat
    <3>1. s \in Seq(Symbol)
      BY UnreadTyped
    <3>2. got[r] \in Seq(Event)
      BY DEF TypeOK
    <3> QED BY <3>1, <3>2 DEF Event
  <2>3. unread(r)' = p
    <3>1. remain[r] \in Seq(Symbol) /\ pipe[r] \in Seq(Symbol) /\ chunk(Retry) \in Seq(Symbol)
      BY <2>2, ChunkTyped, UnreadTyped
    <3>2. unread(r)' = remain[r] \o (pipe[r] \o chunk(Retry))
      BY <1>1, <1>3 DEF unread
    <3> QED BY <3>1, <3>2, ConcatTwice DEF unread
  <2> HIDE DEF s
  <2>4. Whole(p)
    BY <2>1, <2>2, StaysWhole
  <2>5. Ordered(p) /\ Holds(p, due[r], Len(got[r]))
    BY <2>1, <2>2, RetryAdded
  <2> HIDE DEF p
  <2>6. StreamInv(r)'
    BY <1>1, <2>3, <2>4, <2>5 DEF SourceInv, StreamInv
  <2>7. PhaseInv(r)'
    BY <1>1, <1>3 DEF SourceInv, PhaseInv
  <2> QED BY <2>6, <2>7 DEF SourceInv
<1> QED BY <1>2, <1>3

LEMMA SourceServe ==
    ASSUME TypeOK, TypeOK', NEW r \in Sources, SourceInv(r), NEW q \in Sources, serve(q)
    PROVE  SourceInv(r)'
<1>1. /\ conn[q] = "asked" /\ conn' = [conn EXCEPT ![q] = "served"]
      /\ ctrls' = ctrls \/ ctrls' = ctrls \cup {q}
      /\ pipe' = pipe \/ pipe' = [pipe EXCEPT ![q] = << >>]
      /\ closed' = closed /\ queue' = queue /\ due' = due /\ remain' = remain /\ got' = got
      /\ follow' = follow
  BY DEF serve, repeated
<1>2. pipe'[r] = pipe[r]
  <2>1. CASE r = q
    <3>1. unread(r) = << >>
      BY <2>1, <1>1 DEF SourceInv, PhaseInv
    <3>2. pipe[r] = << >>
      BY <3>1 DEF TypeOK, unread
    <3> QED BY <3>2, <1>1 DEF TypeOK
  <2>2. CASE r # q
    BY <2>2, <1>1 DEF TypeOK
  <2> QED BY <2>1, <2>2
<1>3. Leaves(r)
  <2>1. Len(queue) \in Nat
    BY DEF TypeOK
  <2> QED BY <2>1, <1>1, <1>2 DEF Leaves
<1>4. StreamInv(r)' /\ unread(r)' = unread(r)
  BY <1>3, StreamLeft DEF SourceInv
<1>5. PhaseInv(r)'
  <2>1. CASE r = q
    <3>1. conn'[r] = "served" /\ follow'[r] = follow[r] /\ conn[r] = "asked"
      BY <2>1, <1>1 DEF TypeOK
    <3> QED BY <3>1 DEF SourceInv, PhaseInv
  <2>2. CASE r # q
    <3>1. conn'[r] = conn[r] /\ follow'[r] = follow[r] /\ (r \in ctrls' => r \in ctrls)
      BY <2>2, <1>1 DEF TypeOK
    <3> QED BY <3>1, <1>4 DEF SourceInv, PhaseInv
  <2> QED BY <2>1, <2>2
<1> QED BY <1>4, <1>5 DEF SourceInv

LEMMA SourceCreate ==
    ASSUME TypeOK, TypeOK', NEW r \in Sources, SourceInv(r), NEW q \in Sources, create(q)
    PROVE  SourceInv(r)'
<1>1. /\ follow[q] = "listing" /\ follow' = [follow EXCEPT ![q] = "waiting"]
      /\ conn' = [conn EXCEPT ![q] = "asked"]
      /\ pipe' = pipe /\ closed' = closed /\ queue' = queue /\ due' = due /\ remain' = remain
      /\ got' = got /\ ctrls' = ctrls
  BY DEF create, serverVars, pipeVars
<1>2. Leaves(r)
  <2>1. Len(queue) \in Nat
    BY DEF TypeOK
  <2> QED BY <2>1, <1>1 DEF Leaves
<1>3. StreamInv(r)' /\ unread(r)' = unread(r)
  BY <1>2, StreamLeft DEF SourceInv
<1>4. PhaseInv(r)'
  <2>1. CASE r = q
    <3>1. conn[r] = "idle" /\ follow'[r] = "waiting"
      BY <2>1, <1>1 DEF SourceInv, PhaseInv, TypeOK
    <3> QED BY <3>1, <1>1, <1>3 DEF SourceInv, PhaseInv
  <2>2. CASE r # q
    <3>1. conn'[r] = conn[r] /\ follow'[r] = follow[r]
      BY <2>2, <1>1 DEF TypeOK
    <3> QED BY <3>1, <1>1, <1>3 DEF SourceInv, PhaseInv
  <2> QED BY <2>1, <2>2
<1> QED BY <1>3, <1>4 DEF SourceInv

(* What a read comes to: an event is dispatched, the next that is due; or none. *)
Gives(r) ==
    /\ conn[r] = "reading" /\ due' = due
    /\ \A q \in Sources : q # r => got'[q] = got[q]
    /\ \/ got'[r] = got[r]
       \/ /\ Len(got[r]) < Len(due[r])
          /\ got'[r] = Append(got[r], due[r][Len(got[r]) + 1])

LEMMA SourceRead ==
    ASSUME MergedReads = FALSE, TypeOK, TypeOK', NEW r \in Sources, SourceInv(r), read(r)
    PROVE  StreamInv(r)' /\ Gives(r)
<1>1. PICK n \in chunks(r) :
          /\ processEvents(r, remain[r] \o SubSeq(pipe[r], 1, n))
          /\ pipe' = [pipe EXCEPT ![r] = SubSeq(@, n + 1, Len(@))]
  BY DEF read
<1>2. /\ conn[r] = "reading" /\ queue' = queue /\ closed' = closed /\ due' = due
  BY DEF read, serverVars
<1> DEFINE a == remain[r]
           b == pipe[r]
           s == unread(r)
           c == SubSeq(b, 1, n)
           rest == SubSeq(b, n + 1, Len(b))
           u == a \o c
           d == due[r]
           t == Len(got[r])
<1>3. /\ a \in Seq(Symbol) /\ b \in Seq(Symbol) /\ s = a \o b /\ s \in Seq(Symbol)
      /\ t \in Nat /\ got[r] \in Seq(Event)
  <2>1. remain[r] \in Seq(Symbol) /\ pipe[r] \in Seq(Symbol) /\ unread(r) \in Seq(Symbol)
    BY UnreadTyped
  <2>2. got[r] \in Seq(Event)
    BY DEF TypeOK
  <2> QED BY <2>1, <2>2 DEF unread
<1>4. /\ Len(a) <= 1 /\ Whole(s) /\ Ordered(s) /\ Holds(s, d, t) /\ Increasing(d) /\ d \in Seq(Events)
      /\ t <= Len(d) /\ \A i \in 1 .. t : got[r][i] = d[i]
  BY DEF SourceInv, StreamInv
<1>5. n \in 1 .. Len(b) /\ \A i \in 1 .. n - 1 : ~b[i].last
  BY DEF chunks
<1>6. pipe'[r] = rest /\ processEvents(r, u)
  BY <1>1 DEF TypeOK
<1>7. ~closed => \A i \in 1 .. Len(d) : d[i].id <= Len(queue)
  BY DEF SourceInv, StreamInv
<1>8. UNCHANGED got => \A q \in Sources : got'[q] = got[q]
  OBVIOUS
<1>9. got \in [Sources -> Seq(Event)] /\ remain \in [Sources -> Seq(Symbol)] /\ t = Len(got[r])
      /\ d = due[r]
  BY KeptTyped DEF TypeOK
<1>10. unread(r)' = remain'[r] \o rest
  BY <1>6 DEF unread
<1> HIDE DEF a, b, s, c, rest, d, t
<1>11. Taken(u, rest, s)
  BY <1>3, <1>4, <1>5, ChunkTaken DEF c, rest
<1> HIDE DEF u
<1>12. /\ u \in Seq(Symbol) /\ rest \in Seq(Symbol) /\ u \o rest = s
       /\ endsOf(u) = {} => Len(u) <= 1
       /\ endsOf(u) # {} =>
            /\ firstEnd(u) = 2 /\ u[2].ev = s[1].ev
            /\ Len(s) >= 2 /\ rest = SubSeq(s, 3, Len(s))
  BY <1>11 DEF Taken
<1>13. /\ endsOf(u) = {} =>
            /\ remain' = [remain EXCEPT ![r] = u] /\ UNCHANGED <<got, watching, told>>
       /\ endsOf(u) # {} =>
            /\ remain' = [remain EXCEPT ![r] = << >>]
            /\ \/ /\ u[2].ev # Retry
                  /\ got' = [got EXCEPT ![r] = Append(@, u[2].ev)]
               \/ /\ u[2].ev = Retry
                  /\ UNCHANGED <<got, watching, told>>
  BY <1>6, <1>12, ProcessCases
<1>14. CASE endsOf(u) = {}
  <2>1. remain'[r] = u /\ got' = got
    BY <1>13, <1>14, <1>9
  <2>2. unread(r)' = s
    BY <2>1, <1>10, <1>12
  <2>3. StreamInv(r)'
    BY <2>1, <2>2, <1>2, <1>4, <1>7, <1>9, <1>12, <1>14 DEF StreamInv
  <2>4. Gives(r)
    BY <2>1, <1>2 DEF Gives
  <2> QED BY <2>3, <2>4
<1>15. CASE endsOf(u) # {}
  <2>1. remain'[r] = << >> /\ Len(remain'[r]) <= 1
    BY <1>13, <1>15, <1>9
  <2>2. unread(r)' = rest
    BY <2>1, <1>10, <1>12
  <2> DEFINE v == t + 1
  <2>3. v \in Nat
    BY <1>3
  <2>4. /\ Whole(rest) /\ Ordered(rest)
        /\ s[1].ev = Retry => Holds(rest, d, t)
        /\ s[1].ev # Retry => v <= Len(d) /\ d[v] = s[1].ev /\ Holds(rest, d, v)
    BY <2>3, <1>3, <1>4, <1>12, <1>15, EventRead, ZenonT(40)
  <2>5. CASE s[1].ev = Retry
    <3>1. got' = got
      BY <2>5, <1>12, <1>13, <1>15
    <3>2. StreamInv(r)'
      BY <2>1, <2>2, <2>4, <2>5, <3>1, <1>2, <1>4, <1>7, <1>9 DEF StreamInv
    <3>3. Gives(r)
      BY <3>1, <1>2 DEF Gives
    <3> QED BY <3>2, <3>3
  <2>6. CASE s[1].ev # Retry
    <3>0. v <= Len(d) /\ Len(d) \in Nat
      <4> HIDE DEF v
      <4>1. v <= Len(d)
        BY <2>4, <2>6
      <4>2. Len(d) \in Nat
        BY <1>4
      <4> QED BY <4>1, <4>2
    <3>1. got' = [got EXCEPT ![r] = Append(@, s[1].ev)]
      BY <2>6, <1>12, <1>13, <1>15
    <3>2. got'[r] = Append(got[r], d[v]) /\ \A q \in Sources : q # r => got'[q] = got[q]
      BY <3>1, <2>4, <2>6, <1>9
    <3>3. Gives(r)
      <4>1. t < Len(d)
        <5>1. t \in Nat /\ Len(d) \in Nat /\ t + 1 <= Len(d)
          BY <3>0, <1>3
        <5> QED BY <5>1
      <4> QED BY <4>1, <3>2, <1>2 DEF Gives, t, d
    <3>4. Len(got'[r]) = v /\ \A i \in 1 .. v : got'[r][i] = d[i]
      <4>1. d[v] \in Event
        <5>1. v \in 1 .. Len(d)
          BY <3>0, <1>3
        <5> QED BY <5>1, <1>4 DEF Event
      <4>2. /\ Len(got'[r]) = Len(got[r]) + 1
            /\ \A i \in 1 .. Len(got[r]) : got'[r][i] = got[r][i]
            /\ got'[r][Len(got[r]) + 1] = d[v]
        BY <4>1, <3>2, <1>3
      <4>3. \A i \in 1 .. v : i \in 1 .. t \/ i = v
        BY <1>3
      <4> QED BY <4>2, <4>3, <1>4, <1>9
    <3> HIDE DEF v
    <3>5. StreamInv(r)'
      BY <2>1, <2>2, <2>4, <2>6, <3>4, <1>2, <1>4, <1>7, <1>9 DEF StreamInv
    <3> QED BY <3>3, <3>5
  <2> QED BY <2>5, <2>6
<1> QED BY <1>14, <1>15

(* A read changes nothing of another EventSource than its own. *)
LEMMA OtherRead ==
    ASSUME TypeOK, TypeOK', NEW r \in Sources, SourceInv(r), NEW q \in Sources, q # r,
           read(q), Gives(q)
    PROVE  SourceInv(r)'
<1>1. /\ queue' = queue /\ closed' = closed /\ due' = due /\ ctrls' = ctrls /\ follow' = follow
      /\ got'[r] = got[r]
  BY DEF read, serverVars, Gives
<1>2. PICK n \in chunks(q) :
          /\ processEvents(q, remain[q] \o SubSeq(pipe[q], 1, n))
          /\ pipe' = [pipe EXCEPT ![q] = SubSeq(@, n + 1, Len(@))]
  BY DEF read
<1> DEFINE s == remain[q] \o SubSeq(pipe[q], 1, n)
<1>3. s \in Seq(Symbol) /\ processEvents(q, s)
  BY <1>2, ReadTyped
<1> HIDE DEF s
<1>4. /\ remain' = [remain EXCEPT ![q] = s] \/ remain' = [remain EXCEPT ![q] = << >>]
      /\ goOn(q) \/ end(q)
  BY <1>3, ProcessCases
<1>5. remain'[r] = remain[r] /\ pipe'[r] = pipe[r]
  BY <1>2, <1>4, SMTT(40) DEF TypeOK
<1>6. conn'[r] = conn[r]
  <2>1. PICK c : conn' = [conn EXCEPT ![q] = c]
    BY <1>4 DEF goOn, end
  <2>2. r \in DOMAIN conn
    BY DEF TypeOK
  <2> QED BY <2>1, <2>2
<1>7. Leaves(r)
  <2>1. Len(queue) \in Nat
    BY DEF TypeOK
  <2> QED BY <2>1, <1>1, <1>5 DEF Leaves
<1> QED BY <1>1, <1>6, <1>7, SourceLeft

(* After a read of its own it reads on or is over. *)
LEMMA OwnRead ==
    ASSUME TypeOK, NEW r \in Sources, PhaseInv(r), read(r)
    PROVE  PhaseInv(r)'
<1>1. conn[r] = "reading" /\ follow' = follow
  BY DEF read
<1>2. PICK n \in chunks(r) : processEvents(r, remain[r] \o SubSeq(pipe[r], 1, n))
  BY DEF read
<1>3. goOn(r) \/ end(r)
  BY <1>2, ReadTyped, ProcessCases
<1>4. conn'[r] \in {"reading", "over"}
  BY <1>1, <1>3 DEF goOn, end, TypeOK
<1> QED BY <1>1, <1>4 DEF PhaseInv

(* The steps that change nothing that is written, dispatched or read. *)
LEMMA SourceOthers ==
    ASSUME TypeOK, TypeOK', NEW r \in Sources, SourceInv(r),
           UNCHANGED <<pipe, due, remain, got>>,
           closed' \/ UNCHANGED <<closed, queue>>, ctrls' \subseteq ctrls,
           conn' = conn \/ \E q \in Sources :
               conn[q] # "idle" /\ \E c \in {"reading", "over"} : conn' = [conn EXCEPT ![q] = c],
           follow' = follow \/ \E q \in Sources :
               \/ follow[q] = "idle" /\ follow' = [follow EXCEPT ![q] = "listing"]
               \/ follow[q] = "listing" /\ follow' = [follow EXCEPT ![q] = "idle"]
               \/ follow' = [follow EXCEPT ![q] = "done"]
    PROVE  SourceInv(r)'
<1>1. Leaves(r)
  <2>1. Len(queue) \in Nat
    BY DEF TypeOK
  <2> QED BY <2>1 DEF Leaves
<1>2. r \in DOMAIN conn /\ r \in DOMAIN follow
  BY DEF TypeOK
<1>3. /\ conn'[r] = conn[r] \/ conn'[r] \notin {"idle", "asked"}
      /\ conn[r] = "idle" => conn'[r] = "idle"
  <2>1. CASE conn' = conn
    BY <2>1
  <2>2. ASSUME NEW q \in Sources, conn[q] # "idle", NEW c \in {"reading", "over"},
               conn' = [conn EXCEPT ![q] = c]
        PROVE  /\ conn'[r] = conn[r] \/ conn'[r] \notin {"idle", "asked"}
               /\ conn[r] = "idle" => conn'[r] = "idle"
    <3>1. CASE q = r
      BY <3>1, <2>2, <1>2
    <3>2. CASE q # r
      <4>1. conn'[r] = conn[r]
        BY <3>2, <2>2, <1>2
      <4> QED BY <4>1
    <3> QED BY <3>1, <3>2
  <2> QED BY <2>1, <2>2
<1>4. follow'[r] \in {"idle", "listing"} => follow[r] \in {"idle", "listing"}
  <2>1. ASSUME NEW q \in Sources, NEW f, follow' = [follow EXCEPT ![q] = f],
               f = "done" \/ follow[q] \in {"idle", "listing"}
        PROVE  follow'[r] \in {"idle", "listing"} => follow[r] \in {"idle", "listing"}
    <3>1. CASE q = r
      BY <3>1, <2>1, <1>2
    <3>2. CASE q # r
      <4>1. follow'[r] = follow[r]
        BY <3>2, <2>1, <1>2
      <4> QED BY <4>1
    <3> QED BY <3>1, <3>2
  <2> QED BY <2>1
<1> QED BY <1>1, <1>3, <1>4, SourceLeft

LEMMA EventStart == Init => EventInv
BY TypeStart, SourceStart DEF EventInv

LEMMA EventStep == MergedReads = FALSE /\ EventInv /\ [Next]_vars => EventInv'
<1> SUFFICES ASSUME MergedReads = FALSE, EventInv, [Next]_vars PROVE EventInv'
  OBVIOUS
<1>1. TypeOK /\ TypeOK'
  BY TypeStep DEF EventInv
<1> SUFFICES ASSUME NEW r \in Sources PROVE SourceInv(r)'
  BY <1>1 DEF EventInv
<1>2. SourceInv(r) /\ \A q \in Sources : SourceInv(q)
  BY DEF EventInv
<1>3. ASSUME NEW type \in Types, dispatchEvent(type) PROVE SourceInv(r)'
  BY <1>1, <1>2, <1>3, SourceDispatch
<1>4. CASE sendRetry
  BY <1>1, <1>2, <1>4, SourceRetry
<1>5. CASE closeBody
  BY <1>1, <1>2, <1>5, SourceOthers DEF closeBody, sourceVars
<1>6. CASE stop
  BY <1>1, <1>2, <1>6, SourceOthers DEF stop, serverVars, pipeVars
<1>7. ASSUME NEW q \in Sources, serve(q) PROVE SourceInv(r)'
  BY <1>1, <1>2, <1>7, SourceServe
<1>8. ASSUME NEW q \in Sources, startFollow(q) PROVE SourceInv(r)'
  BY <1>1, <1>2, <1>8, SourceOthers DEF startFollow, serverVars, pipeVars, sourceVars
<1>9. ASSUME NEW q \in Sources, listFails(q) PROVE SourceInv(r)'
  BY <1>1, <1>2, <1>9, SourceOthers DEF listFails, serverVars, pipeVars, sourceVars
<1>10. ASSUME NEW q \in Sources, create(q) PROVE SourceInv(r)'
  BY <1>1, <1>2, <1>10, SourceCreate
<1>11. ASSUME NEW q \in Sources, followReturns(q) PROVE SourceInv(r)'
  BY <1>1, <1>2, <1>11, SourceOthers DEF followReturns, serverVars, pipeVars, sourceVars
<1>12. ASSUME NEW q \in Sources, opens(q) PROVE SourceInv(r)'
  BY <1>1, <1>2, <1>12, SourceOthers DEF opens, serverVars, pipeVars
<1>13. ASSUME NEW q \in Sources, fetchFails(q) PROVE SourceInv(r)'
  BY <1>1, <1>2, <1>13, SourceOthers DEF fetchFails, serverVars, pipeVars
<1>14. ASSUME NEW q \in Sources, close(q) PROVE SourceInv(r)'
  BY <1>1, <1>2, <1>14, SourceOthers DEF close, serverVars, pipeVars
<1>15. ASSUME NEW q \in Sources, read(q) PROVE SourceInv(r)'
  <2>1. Gives(q) /\ StreamInv(q)'
    BY <1>1, <1>2, <1>15, SourceRead
  <2>2. CASE q = r
    <3>1. PhaseInv(r)'
      BY <1>1, <1>2, <1>15, <2>2, OwnRead DEF SourceInv
    <3> QED BY <2>1, <2>2, <3>1 DEF SourceInv
  <2>3. CASE q # r
    BY <1>1, <1>2, <1>15, <2>1, <2>3, OtherRead
  <2> QED BY <2>2, <2>3
<1>16. ASSUME NEW q \in Sources, readEnds(q) PROVE SourceInv(r)'
  BY <1>1, <1>2, <1>16, SourceOthers DEF readEnds, end, serverVars, pipeVars
<1>17. ASSUME NEW w \in Watchers, watchBegins(w) \/ watchCancelled(w) PROVE SourceInv(r)'
  BY <1>1, <1>2, <1>17, SourceOthers DEF watchBegins, watchCancelled, serverVars, pipeVars, sourceVars
<1>18. CASE UNCHANGED vars
  BY <1>1, <1>2, <1>18, SourceOthers DEF vars, serverVars, pipeVars, sourceVars
<1> QED BY <1>3, <1>4, <1>5, <1>6, <1>7, <1>8, <1>9, <1>10, <1>11, <1>12, <1>13, <1>14, <1>15,
           <1>16, <1>17, <1>18 DEF Next

-----------------------------------------------------------------------------
(* Every variable has its type, also where a read may return the end of one event
   with the beginning of the next. *)
THEOREM EventTypeCorrect == Spec => []TypeOK
BY TypeStart, TypeStep, PTL DEF Spec

(* fetchUri keeps what a chunk leaves of an event and joins it with the next chunk,
   so an EventSource that is open and has read all that was enqueued for it has
   dispatched all of it, of any number of events and however they are cut, as long
   as no chunk goes on after the end of an event. *)
THEOREM ReadingGetsAll ==
    ASSUME MergedReads = FALSE
    PROVE  Spec => []ReadMeansGot
<1>1. EventInv => ReadMeansGot
  <2> SUFFICES ASSUME EventInv, NEW r \in Sources, pipe[r] = << >>, remain[r] = << >>
               PROVE  got[r] = due[r]
    BY DEF ReadMeansGot
  <2>1. unread(r) = << >>
    BY DEF unread
  <2>2. got[r] \in Seq(Event) /\ due[r] \in Seq(Event) /\ Len(got[r]) \in Nat /\ Len(due[r]) \in Nat
    BY DEF EventInv, TypeOK
  <2>3. /\ Holds(<< >>, due[r], Len(got[r])) /\ Len(got[r]) <= Len(due[r])
        /\ \A i \in 1 .. Len(got[r]) : got[r][i] = due[r][i]
    BY <2>1 DEF EventInv, SourceInv, StreamInv
  <2>4. Len(got[r]) = Len(due[r])
    <3> SUFFICES ASSUME Len(got[r]) # Len(due[r]) PROVE FALSE
      OBVIOUS
    <3>1. Len(due[r]) \in Len(got[r]) + 1 .. Len(due[r])
      BY <2>2, <2>3
    <3>2. \E i \in 1 .. Len(<< >>) : TRUE
      BY <2>3, <3>1 DEF Holds
    <3> QED BY <3>2
  <2> QED BY <2>2, <2>3, <2>4, SeqEqual
<1> QED BY <1>1, EventStart, EventStep, PTL DEF Spec

(* dispatchEvent sends an event to the readers of the stream there are, a read gives
   its reader the next that is due or none, and nothing else touches either: the
   event stream and its EventSources implement EventChannel. *)
THEOREM EventStreamRefines ==
    ASSUME MergedReads = FALSE
    PROVE  Spec => EventChannelSpec
<1>1. Init => Channel!Init
  BY DEF Init, Channel!Init
<1>2. EventInv /\ TypeOK' /\ [Next]_vars => [Channel!Next]_(Channel!channelVars)
  <2> SUFFICES ASSUME EventInv, TypeOK', [Next]_vars
               PROVE  Channel!Next \/ UNCHANGED Channel!channelVars
    OBVIOUS
  <2>1. TypeOK /\ \A r \in Sources : SourceInv(r)
    BY DEF EventInv
  <2>2. ASSUME NEW type \in Types, dispatchEvent(type) PROVE Channel!Next
    <3> DEFINE ev == [id |-> Len(queue) + 1, type |-> type]
    <3>1. /\ due' = [r \in Sources |-> IF r \in ctrls THEN Append(due[r], ev) ELSE due[r]]
          /\ got' = got
      BY <2>2 DEF dispatchEvent, sourceVars
    <3>2. ev \in Events
      <4>1. Len(queue) + 1 \in 1 .. MaxEvents
        BY <2>1, <2>2, StreamAssumption DEF dispatchEvent, StreamAssumption, TypeOK
      <4> QED BY <4>1 DEF Events
    <3> HIDE DEF ev
    <3>3. Channel!Send(ev, ctrls) /\ ctrls \in SUBSET Sources
      BY <2>1, <3>1 DEF Channel!Send, TypeOK
    <3> QED BY <3>2, <3>3 DEF Channel!Next
  <2>3. ASSUME NEW r \in Sources, read(r) PROVE Channel!Next \/ UNCHANGED Channel!channelVars
    <3>1. Gives(r)
      BY <2>1, <2>3, SourceRead
    <3>2. got \in [Sources -> Seq(Event)] /\ got' \in [Sources -> Seq(Event)]
      BY <2>1 DEF TypeOK
    <3>3. due' = due /\ \A q \in Sources : q # r => got'[q] = got[q]
      BY <3>1 DEF Gives
    <3>4. CASE got'[r] = got[r]
      <4>1. got' = got
        BY <3>2, <3>3, <3>4
      <4> QED BY <3>3, <4>1 DEF Channel!channelVars
    <3>5. CASE got'[r] # got[r]
      <4>1. Len(got[r]) < Len(due[r]) /\ got'[r] = Append(got[r], due[r][Len(got[r]) + 1])
        BY <3>1, <3>5 DEF Gives
      <4>2. got' = [got EXCEPT ![r] = Append(got[r], due[r][Len(got[r]) + 1])]
        BY <3>2, <3>3, <4>1
      <4>3. Channel!Give(r)
        BY <3>3, <4>1, <4>2 DEF Channel!Give
      <4> QED BY <4>3 DEF Channel!Next
    <3> QED BY <3>4, <3>5
  <2>4. CASE sendRetry \/ closeBody \/ stop
    BY <2>4 DEF sendRetry, closeBody, stop, pipeVars, sourceVars, Channel!channelVars
  <2>5. ASSUME NEW r \in Sources,
               \/ serve(r) \/ startFollow(r) \/ listFails(r) \/ create(r) \/ followReturns(r)
               \/ opens(r) \/ fetchFails(r) \/ close(r) \/ readEnds(r)
        PROVE  UNCHANGED Channel!channelVars
    BY <2>5 DEF serve, startFollow, listFails, create, followReturns, opens, fetchFails, close,
                readEnds, pipeVars, sourceVars, Channel!channelVars
  <2>6. ASSUME NEW w \in Watchers, watchBegins(w) \/ watchCancelled(w)
        PROVE  UNCHANGED Channel!channelVars
    BY <2>6 DEF watchBegins, watchCancelled, pipeVars, sourceVars, Channel!channelVars
  <2>7. CASE UNCHANGED vars
    BY <2>7 DEF vars, pipeVars, sourceVars, Channel!channelVars
  <2> QED BY <2>2, <2>3, <2>4, <2>5, <2>6, <2>7 DEF Next
<1>3. EventInv => TypeOK
  BY DEF EventInv
<1> QED BY <1>1, <1>2, <1>3, EventStart, EventStep, PTL DEF Spec, EventChannelSpec, Channel!Spec

(* Only the streams of watchers that are open are written into. *)
WatchInv == \A w \in watching : watch[w] = "open"

LEMMA WatchStep == TypeOK /\ WatchInv /\ [Next]_vars => WatchInv'
<1> SUFFICES ASSUME TypeOK, WatchInv, [Next]_vars PROVE WatchInv'
  OBVIOUS
<1>1. CASE watching' \subseteq watching /\ watch' = watch
  BY <1>1 DEF WatchInv
<1>2. ASSUME NEW r \in Sources, read(r) PROVE WatchInv'
  <2>1. PICK n \in chunks(r) : processEvents(r, remain[r] \o SubSeq(pipe[r], 1, n))
    BY <1>2 DEF read
  <2>2. watching' \subseteq watching
    BY <2>1, ReadTyped, ProcessCases DEF notify
  <2> QED BY <1>1, <1>2, <2>2 DEF read
<1>3. CASE stop
  BY <1>3 DEF stop, removeWatchers, WatchInv
<1>4. ASSUME NEW w \in Watchers, watchBegins(w) PROVE WatchInv'
  BY <1>4 DEF watchBegins, WatchInv, TypeOK
<1>5. ASSUME NEW w \in Watchers, watchCancelled(w) PROVE WatchInv'
  BY <1>5 DEF watchCancelled, WatchInv, TypeOK
<1>6. ASSUME NEW type \in Types, dispatchEvent(type) PROVE WatchInv'
  BY <1>1, <1>6 DEF dispatchEvent, watchVars
<1>7. CASE sendRetry \/ closeBody
  BY <1>1, <1>7 DEF sendRetry, closeBody, watchVars
<1>8. ASSUME NEW r \in Sources,
             \/ serve(r) \/ startFollow(r) \/ listFails(r) \/ create(r) \/ followReturns(r)
             \/ opens(r) \/ fetchFails(r) \/ close(r) \/ readEnds(r)
      PROVE  WatchInv'
  BY <1>1, <1>8 DEF serve, startFollow, listFails, create, followReturns, opens, fetchFails, close,
                    readEnds, watchVars
<1>9. CASE UNCHANGED vars
  BY <1>1, <1>9 DEF vars, watchVars
<1> QED BY <1>2, <1>3, <1>4, <1>5, <1>6, <1>7, <1>8, <1>9 DEF Next

(* cancel of a watcher's stream and stop() take it off the set that the events of the
   EventSources go to, and neither puts it back: whatever EventSource is still read,
   a stream that has ended is not written into again. *)
THEOREM SilentAfterEnd == Spec => StoppedIsSilent
<1>1. TypeOK /\ WatchInv /\ [Next]_vars =>
        [\A w \in Watchers : watch[w] \in {"cancelled", "closed"} => told'[w] = told[w]]_vars
  <2> SUFFICES ASSUME TypeOK, WatchInv, [Next]_vars,
                      NEW w \in Watchers, watch[w] \in {"cancelled", "closed"}
               PROVE  told'[w] = told[w]
    OBVIOUS
  <2>1. CASE told' = told
    BY <2>1
  <2>2. ASSUME NEW r \in Sources, read(r) PROVE told'[w] = told[w]
    <3>1. PICK n \in chunks(r) : processEvents(r, remain[r] \o SubSeq(pipe[r], 1, n))
      BY <2>2 DEF read
    <3>2. told' = told \/ \E ev : notify(r, ev)
      BY <3>1, ReadTyped, ProcessCases
    <3>3. w \notin watching
      BY DEF WatchInv
    <3>4. ASSUME NEW ev, notify(r, ev) PROVE told'[w] = told[w]
      BY <3>3, <3>4 DEF notify
    <3> QED BY <3>2, <3>4
  <2>3. ASSUME NEW type \in Types, dispatchEvent(type) PROVE told'[w] = told[w]
    BY <2>1, <2>3 DEF dispatchEvent, watchVars
  <2>4. CASE sendRetry \/ closeBody \/ stop
    BY <2>1, <2>4 DEF sendRetry, closeBody, stop, watchVars
  <2>5. ASSUME NEW r \in Sources,
               \/ serve(r) \/ startFollow(r) \/ listFails(r) \/ create(r) \/ followReturns(r)
               \/ opens(r) \/ fetchFails(r) \/ close(r) \/ readEnds(r)
        PROVE  told'[w] = told[w]
    BY <2>1, <2>5 DEF serve, startFollow, listFails, create, followReturns, opens, fetchFails, close,
                      readEnds, watchVars
  <2>6. ASSUME NEW v \in Watchers, watchBegins(v) \/ watchCancelled(v) PROVE told'[w] = told[w]
    BY <2>1, <2>6 DEF watchBegins, watchCancelled
  <2>7. CASE UNCHANGED vars
    BY <2>1, <2>7 DEF vars, watchVars
  <2> QED BY <2>2, <2>3, <2>4, <2>5, <2>6, <2>7 DEF Next
<1>2. Init => WatchInv
  BY DEF Init, WatchInv
<1> QED BY <1>1, <1>2, WatchStep, TypeStart, TypeStep, PTL DEF Spec, StoppedIsSilent
=============================================================================
