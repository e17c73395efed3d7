---------------------------- MODULE CoopHeliaProofs ----------------------------
(***************************************************************************)
(* Proofs about CoopHelia: the loops keep within what watchLinkAddedEvents *)
(* provides for, and no node publishes a type by itself of a content that  *)
(* nobody has shared, for any nodes, contents, types and calls.            *)
(***************************************************************************)
EXTENDS CoopHelia, TLAPS

(* What the calls C have told: that a content is shared, that it is not, and what they
   ask of a node. *)
Shared(C, uri) == \E call \in C : call[2] = uri /\ call[4] = "share"
Unshared(C, uri) == \E call \in C : call[2] = uri /\ call[4] = "ipfs"
Asked(C, n, uri) == \E call \in C : call[1] = n /\ call[2] = uri

(* An event that says that a content is shared, or not, goes back to a call. *)
Told(C, l) == l.key = "ipfs" => IF l.value = "shared" THEN Shared(C, l.uri) ELSE Unshared(C, l.uri)

AllTold(C, s) == \A i \in 1 .. Len(s) : Told(C, s[i])

(* So does a link that says it; and a type is there with it, or by a call. *)
GoodTable(C, n, table) ==
    \A uri \in Uris :
        /\ isShared(table, uri) => Shared(C, uri)
        /\ table[uri]["type"] # None /\ ~Asked(C, n, uri) =>
                Shared(C, uri) /\ (isShared(table, uri) \/ Unshared(C, uri))

Queues == [Nodes -> [Nodes -> Seq(Events)]]

QueueInv == \A n, m \in Nodes : AllTold(calls, queue[n][m])
LoopInv(n) == loop[n] = "pinning" => saysShared(event[n]) /\ Told(calls, event[n])

HeliaInv ==
    /\ TypeOK
    /\ QueueInv
    /\ \A n \in Nodes : GoodTable(calls, n, links[n]) /\ LoopInv(n)

-----------------------------------------------------------------------------
LEMMA MoreCalls ==
    ASSUME NEW C, NEW D, C \subseteq D
    PROVE  /\ \A l : Told(C, l) => Told(D, l)
           /\ \A s : AllTold(C, s) => AllTold(D, s)
           /\ \A n, table : GoodTable(C, n, table) => GoodTable(D, n, table)
<1>1. /\ \A uri : (Shared(C, uri) => Shared(D, uri)) /\ (Unshared(C, uri) => Unshared(D, uri))
      /\ \A n, uri : Asked(C, n, uri) => Asked(D, n, uri)
  BY DEF Shared, Unshared, Asked
<1>2. \A l : Told(C, l) => Told(D, l)
  BY <1>1 DEF Told
<1>3. \A s : AllTold(C, s) => AllTold(D, s)
  BY <1>2 DEF AllTold
<1>4. \A n, table : GoodTable(C, n, table) => GoodTable(D, n, table)
  BY <1>1 DEF GoodTable
<1> QED BY <1>2, <1>3, <1>4

(* The events of a link. *)
LEMMA EventsTold ==
    ASSUME NEW C, NEW table, NEW l \in Events, Told(C, l)
    PROVE  events(table, l) \in Seq(Events) /\ AllTold(C, events(table, l))
<1>1. << >> \in Seq(Events) /\ AllTold(C, << >>)
  BY DEF AllTold
<1>2. <<l>> \in Seq(Events) /\ AllTold(C, <<l>>)
  BY DEF AllTold
<1> QED BY <1>1, <1>2 DEF events

LEMMA ConcatTold ==
    ASSUME NEW C, NEW s \in Seq(Events), NEW t \in Seq(Events), AllTold(C, s), AllTold(C, t)
    PROVE  s \o t \in Seq(Events) /\ AllTold(C, s \o t)
<1>1. s \o t \in Seq(Events) /\ Len(s \o t) = Len(s) + Len(t) /\ Len(s) \in Nat /\ Len(t) \in Nat
  OBVIOUS
<1>2. ASSUME NEW i \in 1 .. Len(s \o t) PROVE Told(C, (s \o t)[i])
  <2>1. CASE i <= Len(s)
    <3>1. i \in 1 .. Len(s) /\ (s \o t)[i] = s[i]
      BY <1>1, <2>1
    <3> QED BY <3>1 DEF AllTold
  <2>2. CASE ~(i <= Len(s))
    <3>1. i - Len(s) \in 1 .. Len(t) /\ (s \o t)[i] = t[i - Len(s)]
      BY <1>1, <2>2
    <3> QED BY <3>1 DEF AllTold
  <2> QED BY <2>1, <2>2
<1> QED BY <1>1, <1>2 DEF AllTold

LEMMA TailTold ==
    ASSUME NEW C, NEW s \in Seq(Events), s # << >>, AllTold(C, s)
    PROVE  /\ Head(s) \in Events /\ Told(C, Head(s))
           /\ Tail(s) \in Seq(Events) /\ AllTold(C, Tail(s))
<1>1. Head(s) \in Events /\ Tail(s) \in Seq(Events) /\ Len(s) \in Nat /\ Len(s) # 0 /\ Head(s) = s[1]
  OBVIOUS
<1>2. Told(C, Head(s))
  <2>1. 1 \in 1 .. Len(s)
    BY <1>1
  <2> QED BY <1>1, <2>1 DEF AllTold
<1>3. ASSUME NEW i \in 1 .. Len(Tail(s)) PROVE Told(C, Tail(s)[i])
  <2>1. i + 1 \in 1 .. Len(s) /\ Tail(s)[i] = s[i + 1]
    BY <1>1
  <2> QED BY <2>1 DEF AllTold
<1> QED BY <1>1, <1>2, <1>3 DEF AllTold

(* A table with one more link. *)
LEMMA WithLink ==
    ASSUME NEW table \in Tables, NEW l \in Events
    PROVE  /\ with(table, l) \in Tables
           /\ with(table, l)[l.uri][l.key] = l.value
           /\ \A uri \in Uris, key \in Keys :
                (uri # l.uri \/ key # l.key) => with(table, l)[uri][key] = table[uri][key]
<1>1. l.uri \in Uris /\ l.key \in Keys /\ l.value \in Values \cup {None}
  BY DEF Events
<1> QED BY <1>1 DEF with, Tables

(* It stays a good one, when the link was told, and a type only comes with a reason. *)
LEMMA GoodWith ==
    ASSUME NEW C, NEW n, NEW table \in Tables, GoodTable(C, n, table), NEW l \in Events, Told(C, l),
           l.key = "type" => isShared(table, l.uri) \/ Asked(C, n, l.uri)
    PROVE  GoodTable(C, n, with(table, l))
<1> DEFINE new == with(table, l)
<1>1. /\ new[l.uri][l.key] = l.value
      /\ \A uri \in Uris, key \in Keys : (uri # l.uri \/ key # l.key) => new[uri][key] = table[uri][key]
  BY WithLink
<1> HIDE DEF new
<1>2. l.uri \in Uris /\ l.key \in {"ipfs", "type"} /\ Keys = {"ipfs", "type"}
  BY DEF Events, Keys
<1>3. CASE l.key = "ipfs"
  <2>1. CASE l.value = "shared"
    <3>1. Shared(C, l.uri)
      BY <1>3, <2>1 DEF Told
    <3> QED BY <1>1, <1>2, <1>3, <2>1, <3>1 DEF GoodTable, isShared, new
  <2>2. CASE l.value # "shared"
    <3>1. Unshared(C, l.uri)
      BY <1>3, <2>2 DEF Told
    <3> QED BY <1>1, <1>2, <1>3, <2>2, <3>1 DEF GoodTable, isShared, new
  <2> QED BY <2>1, <2>2
<1>4. CASE l.key = "type"
  BY <1>1, <1>2, <1>4 DEF GoodTable, isShared, new
<1> QED BY <1>2, <1>3, <1>4

(* A link is in Events. *)
LEMMA LinkParts ==
    ASSUME NEW uri \in Uris, NEW key \in Keys, NEW value \in Values
    PROVE  /\ link(uri, key, value) \in Events
           /\ link(uri, key, value).uri = uri /\ link(uri, key, value).key = key
           /\ link(uri, key, value).value = value
BY DEF link, Events

-----------------------------------------------------------------------------
(* The tables and the queues after a step. *)
FlowNext(n, table) ==
    /\ links' \in [Nodes -> Tables] /\ queue' \in Queues
    /\ links'[n] = table /\ \A m \in Nodes \ {n} : links'[m] = links[m]
    /\ \A k, m \in Nodes : AllTold(calls', queue'[k][m])

LEMMA PublishFlow ==
    ASSUME TypeOK, NEW n \in Nodes, NEW table \in Tables, NEW new \in Seq(Events), NEW rest \in Queues,
           publish(n, table, new, rest), AllTold(calls', new),
           \A k, m \in Nodes : AllTold(calls', rest[k][m])
    PROVE  FlowNext(n, table)
<1>1. links' \in [Nodes -> Tables] /\ links'[n] = table /\ \A m \in Nodes \ {n} : links'[m] = links[m]
  BY DEF publish, TypeOK
<1>2. ASSUME NEW m \in Nodes
      PROVE  /\ queue'[m] \in [Nodes -> Seq(Events)]
             /\ \A k \in Nodes : AllTold(calls', queue'[m][k])
  <2>1. rest[m] \in [Nodes -> Seq(Events)] /\ rest[m][n] \in Seq(Events)
    BY DEF Queues
  <2>2. rest[m][n] \o new \in Seq(Events) /\ AllTold(calls', rest[m][n] \o new)
    BY <2>1, ConcatTold
  <2>3. CASE queue'[m] = rest[m]
    BY <2>1, <2>3
  <2>4. CASE queue'[m] = [rest[m] EXCEPT ![n] = rest[m][n] \o new]
    <3>1. queue'[m] \in [Nodes -> Seq(Events)]
      BY <2>1, <2>2, <2>4
    <3>2. queue'[m][n] = rest[m][n] \o new /\ \A k \in Nodes \ {n} : queue'[m][k] = rest[m][k]
      BY <2>1, <2>4
    <3> QED BY <2>2, <3>1, <3>2
  <2> QED BY <2>3, <2>4 DEF publish
<1>3. queue' \in Queues
  <2>1. queue' = [m \in Nodes |-> queue'[m]]
    BY DEF publish
  <2> QED BY <1>2, <2>1 DEF Queues
<1> QED BY <1>1, <1>2, <1>3 DEF FlowNext

(* One link is added. *)
LEMMA AddFlow ==
    ASSUME TypeOK, NEW n \in Nodes, NEW l \in Events, NEW rest \in Queues,
           add(n, l, rest), Told(calls', l), \A k, m \in Nodes : AllTold(calls', rest[k][m])
    PROVE  FlowNext(n, with(links[n], l))
<1>1. links[n] \in Tables
  BY DEF TypeOK
<1>2. with(links[n], l) \in Tables
  BY <1>1, WithLink
<1>3. events(links[n], l) \in Seq(Events) /\ AllTold(calls', events(links[n], l))
  BY EventsTold
<1>4. publish(n, with(links[n], l), events(links[n], l), rest)
  BY DEF add
<1> QED BY <1>2, <1>3, <1>4, PublishFlow

(* What the invariant needs of a step. *)
LEMMA FlowKeeps ==
    ASSUME HeliaInv, NEW n \in Nodes, NEW table, FlowNext(n, table), calls \subseteq calls',
           GoodTable(calls', n, table)
    PROVE  /\ links' \in [Nodes -> Tables] /\ queue' \in Queues /\ QueueInv'
           /\ \A m \in Nodes : GoodTable(calls', m, links'[m])
<1>1. ASSUME NEW m \in Nodes PROVE GoodTable(calls', m, links'[m])
  <2>1. GoodTable(calls', m, links[m])
    BY MoreCalls DEF HeliaInv
  <2> QED BY <2>1 DEF FlowNext
<1> QED BY <1>1 DEF FlowNext, QueueInv

LEMMA LoopsStay ==
    ASSUME HeliaInv, UNCHANGED <<loop, event>>, calls \subseteq calls'
    PROVE  \A n \in Nodes : LoopInv(n)'
BY MoreCalls DEF HeliaInv, LoopInv

-----------------------------------------------------------------------------
LEMMA HeliaStart == Init => HeliaInv
<1> SUFFICES ASSUME Init PROVE HeliaInv
  OBVIOUS
<1>1. TypeOK
  BY DEF Init, TypeOK, Tables, Keys
<1>2. QueueInv
  BY DEF Init, QueueInv, AllTold
<1>3. ASSUME NEW n \in Nodes PROVE GoodTable(calls, n, links[n]) /\ LoopInv(n)
  <2>1. \A uri \in Uris : links[n][uri]["type"] = None /\ links[n][uri]["ipfs"] = None /\ None # "shared"
    BY HeliaAssumption DEF Init, Keys, HeliaAssumption
  <2> QED BY <2>1 DEF Init, GoodTable, isShared, LoopInv
<1> QED BY <1>1, <1>2, <1>3 DEF HeliaInv

(* A call that leaves good tables and told events keeps the invariant. *)
LEMMA CalledKeeps ==
    ASSUME HeliaInv, NEW n \in Nodes, NEW table, FlowNext(n, table), GoodTable(calls', n, table),
           calls \subseteq calls', UNCHANGED <<loop, event, stopped>>
    PROVE  HeliaInv'
<1>1. /\ links' \in [Nodes -> Tables] /\ queue' \in Queues /\ QueueInv'
      /\ \A m \in Nodes : GoodTable(calls', m, links'[m])
  BY FlowKeeps
<1>2. \A m \in Nodes : LoopInv(m)'
  BY LoopsStay
<1>3. TypeOK'
  BY <1>1 DEF HeliaInv, TypeOK, Queues
<1> QED BY <1>1, <1>2, <1>3 DEF HeliaInv

(* What a call tells. *)
LEMMA CallTells ==
    ASSUME HeliaInv, NEW n \in Nodes, NEW uri, NEW value, NEW what, called(n, uri, value, what)
    PROVE  /\ TypeOK /\ links[n] \in Tables /\ queue \in Queues
           /\ calls \subseteq calls' /\ UNCHANGED <<loop, event, stopped>>
           /\ \A k, m \in Nodes : AllTold(calls', queue[k][m])
           /\ GoodTable(calls', n, links[n])
           /\ Asked(calls', n, uri)
           /\ what = "share" => Shared(calls', uri)
           /\ what = "ipfs" => Unshared(calls', uri)
<1>1. TypeOK /\ links[n] \in Tables /\ queue \in Queues /\ GoodTable(calls, n, links[n])
  BY DEF HeliaInv, TypeOK, Queues
<1>2. calls \subseteq calls' /\ UNCHANGED <<loop, event, stopped>> /\ <<n, uri, value, what>> \in calls'
  BY DEF called
<1>3. /\ \A k, m \in Nodes : AllTold(calls', queue[k][m])
      /\ GoodTable(calls', n, links[n])
  BY <1>1, <1>2, MoreCalls DEF HeliaInv, QueueInv
<1> DEFINE call == <<n, uri, value, what>>
<1>4. call[1] = n /\ call[2] = uri /\ call[4] = what
  OBVIOUS
<1> HIDE DEF call
<1>5. call \in calls'
  BY <1>2 DEF call
<1>6. /\ Asked(calls', n, uri) /\ (what = "share" => Shared(calls', uri))
      /\ what = "ipfs" => Unshared(calls', uri)
  BY <1>4, <1>5 DEF Asked, Shared, Unshared
<1> QED BY <1>1, <1>2, <1>3, <1>6

LEMMA ShareStep ==
    ASSUME HeliaInv, NEW n \in Nodes, NEW uri \in Uris, NEW type \in Types, share(n, uri, type)
    PROVE  HeliaInv'
<1>1. /\ TypeOK /\ links[n] \in Tables /\ queue \in Queues
      /\ calls \subseteq calls' /\ UNCHANGED <<loop, event, stopped>>
      /\ \A k, m \in Nodes : AllTold(calls', queue[k][m])
      /\ GoodTable(calls', n, links[n]) /\ Asked(calls', n, uri) /\ Shared(calls', uri)
  BY CallTells DEF share
<1> DEFINE typed == link(uri, "type", type)
           first == link(uri, "ipfs", "shared")
           table == with(links[n], first)
<1>2. publish(n, with(table, typed), events(links[n], first) \o events(table, typed), queue)
  BY DEF share, addBoth, sharedLinks
<1>3. "ipfs" \in Keys /\ "type" \in Keys /\ type \in Values /\ "shared" \in Values
  BY DEF Keys, Values
<1>4. typed \in Events /\ typed.key = "type" /\ typed.uri = uri
  BY <1>3, LinkParts
<1>5. first \in Events /\ first.key = "ipfs" /\ first.value = "shared" /\ first.uri = uri
  BY <1>3, LinkParts
<1> HIDE DEF typed, first
<1>6. Told(calls', typed) /\ Told(calls', first)
  BY <1>1, <1>4, <1>5 DEF Told
<1>7. table \in Tables /\ GoodTable(calls', n, table)
  BY <1>1, <1>5, <1>6, WithLink, GoodWith
<1> HIDE DEF table
<1>8. with(table, typed) \in Tables /\ GoodTable(calls', n, with(table, typed))
  BY <1>1, <1>4, <1>6, <1>7, WithLink, GoodWith
<1>9. /\ events(links[n], first) \in Seq(Events) /\ AllTold(calls', events(links[n], first))
      /\ events(table, typed) \in Seq(Events) /\ AllTold(calls', events(table, typed))
  BY <1>4, <1>5, <1>6, EventsTold
<1> DEFINE new == events(links[n], first) \o events(table, typed)
<1>10. new \in Seq(Events) /\ AllTold(calls', new)
  BY <1>9, ConcatTold
<1> HIDE DEF new
<1>11. publish(n, with(table, typed), new, queue)
  BY <1>2 DEF new
<1>12. FlowNext(n, with(table, typed))
  BY <1>1, <1>8, <1>10, <1>11, PublishFlow
<1> QED BY <1>1, <1>8, <1>12, CalledKeeps

LEMMA PutStep ==
    ASSUME HeliaInv, NEW n \in Nodes, NEW uri \in Uris, NEW key \in Keys, NEW value \in Types,
           put(n, uri, key, value)
    PROVE  HeliaInv'
<1>1. /\ TypeOK /\ links[n] \in Tables /\ queue \in Queues
      /\ calls \subseteq calls' /\ UNCHANGED <<loop, event, stopped>>
      /\ \A k, m \in Nodes : AllTold(calls', queue[k][m])
      /\ GoodTable(calls', n, links[n]) /\ Asked(calls', n, uri)
      /\ key = "ipfs" => Unshared(calls', uri)
  BY CallTells DEF put
<1> DEFINE l == link(uri, key, value)
<1>2. add(n, l, queue)
  BY DEF put
<1>3. l \in Events /\ l.uri = uri /\ l.key = key /\ l.value = value
  BY LinkParts DEF Values
<1> HIDE DEF l
<1>4. Told(calls', l)
  BY <1>1, <1>3, HeliaAssumption DEF Told, HeliaAssumption
<1>5. FlowNext(n, with(links[n], l))
  BY <1>1, <1>2, <1>3, <1>4, AddFlow
<1>6. GoodTable(calls', n, with(links[n], l))
  BY <1>1, <1>3, <1>4, GoodWith
<1> QED BY <1>1, <1>5, <1>6, CalledKeeps

LEMMA DropStep ==
    ASSUME HeliaInv, NEW n \in Nodes, NEW uri \in Uris, NEW key \in Keys, drop(n, uri, key)
    PROVE  HeliaInv'
<1>1. /\ TypeOK /\ links[n] \in Tables /\ queue \in Queues
      /\ calls \subseteq calls' /\ UNCHANGED <<loop, event, stopped>>
      /\ \A k, m \in Nodes : AllTold(calls', queue[k][m])
      /\ GoodTable(calls', n, links[n]) /\ Asked(calls', n, uri)
  BY CallTells DEF drop
<1> DEFINE table == [links[n] EXCEPT ![uri][key] = None]
<1>2. links' = [links EXCEPT ![n] = table] /\ UNCHANGED queue
  BY <1>1 DEF drop, TypeOK
<1>3. /\ table \in Tables /\ table[uri][key] = None
      /\ \A u \in Uris, k \in Keys : (u # uri \/ k # key) => table[u][k] = links[n][u][k]
  BY <1>1 DEF Tables
<1> HIDE DEF table
<1>4. FlowNext(n, table)
  BY <1>1, <1>2, <1>3 DEF FlowNext, TypeOK
<1>5. GoodTable(calls', n, table)
  <2>1. "ipfs" \in Keys /\ "type" \in Keys /\ None # "shared"
    BY HeliaAssumption DEF Keys, HeliaAssumption
  <2>2. ASSUME NEW u \in Uris
        PROVE  /\ isShared(table, u) => isShared(links[n], u)
               /\ u # uri => table[u]["type"] = links[n][u]["type"] /\ (isShared(links[n], u) => isShared(table, u))
    BY <1>3, <2>1 DEF isShared
  <2> QED BY <1>1, <2>2 DEF GoodTable
<1> QED BY <1>1, <1>4, <1>5, CalledKeeps

(* An event is read. *)
LEMMA WatchStep ==
    ASSUME HeliaInv, NEW n \in Nodes, NEW m \in Nodes, watch(n, m)
    PROVE  HeliaInv'
<1> DEFINE s == queue[n][m]
           l == Head(s)
           rest == [queue EXCEPT ![n][m] = Tail(s)]
<1>1. /\ TypeOK /\ links[n] \in Tables /\ queue \in Queues /\ s \in Seq(Events) /\ s # << >>
      /\ AllTold(calls, s) /\ GoodTable(calls, n, links[n]) /\ calls' = calls /\ stopped' = stopped
      /\ loop[n] = "reading"
  BY DEF HeliaInv, TypeOK, Queues, QueueInv, watch
<1>2. /\ IF saysShared(l) \/ isShared(links[n], l.uri) THEN add(n, l, rest)
         ELSE publish(n, links[n], << >>, rest)
      /\ IF saysShared(l)
         THEN loop' = [loop EXCEPT ![n] = "pinning"] /\ event' = [event EXCEPT ![n] = l]
         ELSE UNCHANGED <<loop, event>>
  BY DEF watch
<1> HIDE DEF s
<1>3. l \in Events /\ Told(calls, l) /\ Tail(s) \in Seq(Events) /\ AllTold(calls, Tail(s))
  BY <1>1, TailTold
<1>4. rest \in Queues /\ \A k, j \in Nodes : AllTold(calls', rest[k][j])
  <2>1. rest \in Queues
    BY <1>1, <1>3 DEF Queues
  <2>2. \A k, j \in Nodes : rest[k][j] = Tail(s) \/ rest[k][j] = queue[k][j]
    BY <1>1 DEF Queues
  <2>3. \A k, j \in Nodes : AllTold(calls, queue[k][j])
    BY DEF HeliaInv, QueueInv
  <2> HIDE DEF rest
  <2> QED BY <1>1, <1>3, <2>1, <2>2, <2>3
<1> HIDE DEF l, rest
<1>5. l.key \in {"ipfs", "type"}
  BY <1>3 DEF Events, Keys
<1>6. \E new : FlowNext(n, new) /\ GoodTable(calls', n, new)
  <2>1. CASE saysShared(l) \/ isShared(links[n], l.uri)
    <3>1. add(n, l, rest) /\ Told(calls', l)
      BY <1>1, <1>2, <1>3, <2>1
    <3>2. FlowNext(n, with(links[n], l))
      BY <1>1, <1>3, <1>4, <3>1, AddFlow
    <3>3. GoodTable(calls, n, with(links[n], l))
      BY <1>1, <1>3, <2>1, GoodWith DEF saysShared
    <3> QED BY <1>1, <3>2, <3>3
  <2>2. CASE ~(saysShared(l) \/ isShared(links[n], l.uri))
    <3>1. publish(n, links[n], << >>, rest) /\ << >> \in Seq(Events) /\ AllTold(calls', << >>)
      BY <1>2, <2>2 DEF AllTold
    <3>2. FlowNext(n, links[n])
      BY <1>1, <1>4, <3>1, PublishFlow
    <3> QED BY <1>1, <3>2
  <2> QED BY <2>1, <2>2
<1>7. /\ links' \in [Nodes -> Tables] /\ queue' \in Queues /\ QueueInv'
      /\ \A k \in Nodes : GoodTable(calls', k, links'[k])
  BY <1>1, <1>6, FlowKeeps
<1>8. NoEvent \notin Events
  BY HeliaAssumption DEF NoEvent, Events, Values, HeliaAssumption
<1>9. (\A k \in Nodes : LoopInv(k)') /\ TypeOK'
  <2>1. CASE saysShared(l)
    <3>1. loop' = [loop EXCEPT ![n] = "pinning"] /\ event' = [event EXCEPT ![n] = l]
      BY <1>2, <2>1
    <3>2. \A k \in Nodes : LoopInv(k)'
      BY <1>1, <1>3, <2>1, <3>1 DEF HeliaInv, LoopInv, TypeOK
    <3>3. TypeOK'
      BY <1>1, <1>3, <1>7, <1>8, <3>1 DEF TypeOK, Queues
    <3> QED BY <3>2, <3>3
  <2>2. CASE ~saysShared(l)
    <3>1. UNCHANGED <<loop, event>>
      BY <1>2, <2>2
    <3>2. \A k \in Nodes : LoopInv(k)'
      BY <1>1, <3>1, LoopsStay
    <3>3. TypeOK'
      BY <1>1, <1>7, <3>1 DEF TypeOK, Queues
    <3> QED BY <3>2, <3>3
  <2> QED BY <2>1, <2>2
<1> QED BY <1>7, <1>9 DEF HeliaInv

(* The content was looked up. *)
LEMMA PinnedStep ==
    ASSUME HeliaInv, NEW n \in Nodes, pinned(n)
    PROVE  HeliaInv'
<1> DEFINE l == event[n]
           rest == IF afterPin(n) = "ended" THEN [queue EXCEPT ![n] = [m \in Nodes |-> << >>]] ELSE queue
<1>1. /\ TypeOK /\ links[n] \in Tables /\ queue \in Queues
      /\ GoodTable(calls, n, links[n]) /\ calls' = calls /\ stopped' = stopped
      /\ loop[n] = "pinning" /\ saysShared(l) /\ Told(calls, l)
      /\ afterPin(n) \in {"reading", "ended"} /\ (stopped[n] => afterPin(n) = "ended")
      /\ loop' = [loop EXCEPT ![n] = afterPin(n)] /\ event' = [event EXCEPT ![n] = NoEvent]
  BY DEF HeliaInv, TypeOK, Queues, LoopInv, pinned, afterPin
<1>2. l \in Events
  BY <1>1 DEF TypeOK
<1>3. IF isShared(links[n], l.uri) THEN add(n, l, rest) ELSE publish(n, links[n], << >>, rest)
  BY DEF pinned
<1>4. rest \in Queues /\ \A k, j \in Nodes : AllTold(calls', rest[k][j])
  <2>1. \A k, j \in Nodes : AllTold(calls', queue[k][j])
    BY <1>1 DEF HeliaInv, QueueInv
  <2>2. CASE rest = queue
    BY <1>1, <2>1, <2>2
  <2>3. CASE rest = [queue EXCEPT ![n] = [m \in Nodes |-> << >>]]
    <3>1. rest \in Queues
      BY <1>1, <2>3 DEF Queues
    <3>2. \A k, j \in Nodes : rest[k][j] = << >> \/ rest[k][j] = queue[k][j]
      BY <1>1, <2>3 DEF Queues
    <3>3. AllTold(calls', << >>)
      BY DEF AllTold
    <3> HIDE DEF rest
    <3> QED BY <2>1, <3>1, <3>2, <3>3
  <2> QED BY <2>2, <2>3
<1> HIDE DEF l, rest
<1>5. \E new : FlowNext(n, new) /\ GoodTable(calls', n, new)
  <2>1. CASE isShared(links[n], l.uri)
    <3>1. add(n, l, rest) /\ Told(calls', l)
      BY <1>1, <1>3, <2>1
    <3>2. FlowNext(n, with(links[n], l))
      BY <1>1, <1>2, <1>4, <3>1, AddFlow
    <3>3. GoodTable(calls, n, with(links[n], l))
      BY <1>1, <1>2, <2>1, GoodWith
    <3> QED BY <1>1, <3>2, <3>3
  <2>2. CASE ~isShared(links[n], l.uri)
    <3>1. publish(n, links[n], << >>, rest) /\ << >> \in Seq(Events) /\ AllTold(calls', << >>)
      BY <1>3, <2>2 DEF AllTold
    <3>2. FlowNext(n, links[n])
      BY <1>1, <1>4, <3>1, PublishFlow
    <3> QED BY <1>1, <3>2
  <2> QED BY <2>1, <2>2
<1>6. /\ links' \in [Nodes -> Tables] /\ queue' \in Queues /\ QueueInv'
      /\ \A k \in Nodes : GoodTable(calls', k, links'[k])
  BY <1>1, <1>5, FlowKeeps
<1>7. \A k \in Nodes : LoopInv(k)'
  BY <1>1 DEF HeliaInv, LoopInv, TypeOK
<1>8. TypeOK'
  BY <1>1, <1>6 DEF TypeOK, Queues
<1> QED BY <1>6, <1>7, <1>8 DEF HeliaInv

(* The loop ends, or is told to. *)
LEMMA EndStep ==
    ASSUME HeliaInv, NEW n \in Nodes, pinFails(n) \/ stop(n)
    PROVE  HeliaInv'
<1>1. TypeOK /\ UNCHANGED <<links, calls>>
  BY DEF HeliaInv, pinFails, stop
<1>2. \A k \in Nodes : GoodTable(calls', k, links'[k])
  BY <1>1 DEF HeliaInv
<1>3. ASSUME ends(n), stopped' \in [Nodes -> BOOLEAN],
             \A k \in Nodes \ {n} : stopped'[k] = stopped[k]
      PROVE  HeliaInv'
  <2>1. /\ loop' = [loop EXCEPT ![n] = "ended"] /\ event' = [event EXCEPT ![n] = NoEvent]
        /\ queue' = [queue EXCEPT ![n] = [m \in Nodes |-> << >>]]
    BY <1>3 DEF ends
  <2>2. TypeOK'
    BY <1>1, <1>3, <2>1 DEF TypeOK
  <2>3. \A k \in Nodes : LoopInv(k)'
    BY <1>1, <2>1 DEF HeliaInv, LoopInv, TypeOK
  <2>4. QueueInv'
    <3>1. \A k, j \in Nodes : queue'[k][j] = << >> \/ queue'[k][j] = queue[k][j]
      BY <1>1, <2>1 DEF TypeOK
    <3>2. AllTold(calls, << >>)
      BY DEF AllTold
    <3> QED BY <1>1, <3>1, <3>2 DEF HeliaInv, QueueInv
  <2> QED BY <1>2, <2>2, <2>3, <2>4 DEF HeliaInv
<1>4. CASE pinFails(n)
  BY <1>1, <1>3, <1>4 DEF pinFails, TypeOK
<1>5. CASE stop(n)
  <2>1. /\ stopped' = [stopped EXCEPT ![n] = TRUE] /\ stopped' \in [Nodes -> BOOLEAN]
        /\ \A k \in Nodes \ {n} : stopped'[k] = stopped[k]
    BY <1>1, <1>5 DEF stop, TypeOK
  <2>2. CASE loop[n] = "reading"
    BY <1>3, <1>5, <2>1, <2>2 DEF stop
  <2>3. CASE loop[n] # "reading"
    <3>1. UNCHANGED <<loop, event, queue>>
      BY <1>5, <2>3 DEF stop
    <3>2. TypeOK'
      BY <1>1, <2>1, <2>3, <3>1 DEF TypeOK
    <3>3. (\A k \in Nodes : LoopInv(k)') /\ QueueInv'
      BY <1>1, <3>1 DEF HeliaInv, LoopInv, QueueInv
    <3> QED BY <1>2, <3>2, <3>3 DEF HeliaInv
  <2> QED BY <2>2, <2>3
<1> QED BY <1>4, <1>5

LEMMA HeliaStep == HeliaInv /\ [Next]_vars => HeliaInv'
<1> SUFFICES ASSUME HeliaInv, [Next]_vars PROVE HeliaInv'
  OBVIOUS
<1>1. CASE Next
  BY <1>1, ShareStep, PutStep, DropStep, WatchStep, PinnedStep, EndStep DEF Next
<1>2. CASE UNCHANGED vars
  BY <1>2 DEF vars, HeliaInv, TypeOK, QueueInv, LoopInv, GoodTable
<1> QED BY <1>1, <1>2

-----------------------------------------------------------------------------
(* Every loop keeps within what watchLinkAddedEvents provides for: it handles an event
   exactly while a content is looked up, and does not read on once stop was called. *)
THEOREM HeliaTypeCorrect == Spec => []TypeOK
<1>1. HeliaInv => TypeOK
  BY DEF HeliaInv
<1> QED BY <1>1, HeliaStart, HeliaStep, PTL DEF Spec

(* For any nodes that follow each other in any way, and any calls: a node that nobody
   asked publishes a type of a content only after a node was asked to share it, and
   together with its being shared, unless someone took that back. *)
THEOREM SpreadIsShared == Spec => []OnlySharedSpreads
<1>1. HeliaInv => OnlySharedSpreads
  <2> SUFFICES ASSUME HeliaInv, NEW n \in Nodes, NEW uri \in Uris,
                      {call \in calls : call[1] = n /\ call[2] = uri} = {},
                      links[n][uri]["type"] # None
               PROVE  /\ \E call \in calls : call[2] = uri /\ call[4] = "share"
                      /\ uri \in list(n) \/ \E call \in calls : call[2] = uri /\ call[4] = "ipfs"
    BY DEF OnlySharedSpreads
  <2>1. GoodTable(calls, n, links[n])
    BY DEF HeliaInv
  <2>2. ~Asked(calls, n, uri)
    BY DEF Asked
  <2> QED BY <2>1, <2>2 DEF GoodTable, list, Shared, Unshared
<1> QED BY <1>1, HeliaStart, HeliaStep, PTL DEF Spec
=============================================================================
