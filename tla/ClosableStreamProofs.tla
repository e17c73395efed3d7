-------------------------- MODULE ClosableStreamProofs --------------------------
(***************************************************************************)
(* Proofs about ClosableStream: what a reader gets is what the other end   *)
(* sent, in order and until it had finished; for any number of values, and *)
(* wherever the two directions, closeRead, closeWrite and a break of the   *)
(* stream below cut in.                                                    *)
(***************************************************************************)
EXTENDS ClosableStream, SequenceTheorems, TLAPS

-----------------------------------------------------------------------------
(* All that e may still read: what waits for source, then what is on its way and
   what is still to be written, unless reading() is over. *)
pipe(e) ==
    IF reading[e] = "on" THEN readQueue[e] \o wire[other(e)] \o writeQueue[other(e)]
    ELSE readQueue[e]

IsData(q, i) == q[i].type = "data"
Finishes(q, i) == q[i].type = "finished"

(* The value v is in q, before the position n. *)
Before(q, n, v) == \E j \in 1 .. Len(q) : j < n /\ IsData(q, j) /\ q[j].value = v

Within(q, v) == \E j \in 1 .. Len(q) : IsData(q, j) /\ q[j].value = v

FinishesWithin(q) == \E j \in 1 .. Len(q) : Finishes(q, j)

(* The values in q are those after t, in order and without a gap. *)
Runs(q, t) ==
    \A i \in 1 .. Len(q) : IsData(q, i) =>
        /\ q[i].value > t
        /\ \A j \in 1 .. i - 1 : IsData(q, j) => q[j].value < q[i].value
        /\ \A v \in t + 1 .. q[i].value : Within(q, v)

(* The values in q are at most n, or at least all those up to n. *)
Bounded(q, n) == \A i \in 1 .. Len(q) : IsData(q, i) => q[i].value <= n

Reaches(q, t, n) == \A v \in t + 1 .. n : Within(q, v)

(* A value after g comes after the end, and the end after the values up to g. *)
RestAfterEnd(q, g) ==
    \A i \in 1 .. Len(q) : IsData(q, i) /\ q[i].value > g => \E j \in 1 .. i - 1 : Finishes(q, j)

EndAfterAll(q, t, g) ==
    \A i \in 1 .. Len(q) : Finishes(q, i) => \A v \in t + 1 .. g : Before(q, i, v)

UpTo(n) == [i \in 1 .. n |-> i]

(* What was taken, given and yielded: values are numbered. *)
Numbered(e, o) ==
    /\ taken[e] = UpTo(Len(taken[e])) /\ given[o] = UpTo(Len(given[o]))
    /\ Len(taken[e]) <= Len(given[o]) /\ Len(given[o]) <= values[o]
    /\ ~sinkFinished[o] => Len(given[o]) = values[o] /\ sink[o] = "open"

(* What e may read of the values: while it reads, none is missing. *)
Carried(e, o) ==
    LET q == pipe(e)
        t == Len(taken[e])
    IN  /\ Runs(q, t) /\ Bounded(q, values[o])
        /\ reading[e] = "on" => Reaches(q, t, Len(given[o]))
        /\ reading[e] = "on" /\ sink[o] = "open" => Reaches(q, t, values[o])

(* Where the end of o is, as long as the source of e is open. *)
EndInPlace(e, o) ==
    LET q == pipe(e)
        t == Len(taken[e])
        g == Len(given[o])
    IN  /\ source[e] = "open" => RestAfterEnd(q, g)
        /\ source[e] = "open" /\ ~closedRead[e] =>
            /\ EndAfterAll(q, t, g)
            /\ FinishesWithin(q) => sinkFinished[o]
        /\ source[e] = "open" /\ reading[e] = "on" =>
            /\ sinkFinished[o] => FinishesWithin(q)
            /\ "finished" \in written[o] => FinishesWithin(readQueue[e] \o wire[o])

(* What is settled once a loop or the source is over. *)
Settled(e, o) ==
    /\ writing[o] = "over" => "finished" \in written[o]
    /\ sourceFinished[e] => source[e] = "done" \/ closedRead[e]
    /\ source[e] = "done" /\ ~closedRead[e] =>
        sinkFinished[o] /\ Len(taken[e]) = Len(given[o])
    /\ \A i \in 1 .. Len(readQueue[e]) : readQueue[e][i].type # "close"

DirectionInv(e, o) == Numbered(e, o) /\ Carried(e, o) /\ EndInPlace(e, o) /\ Settled(e, o)

StreamInv == TypeOK /\ \A e \in Ends : DirectionInv(e, other(e))

-----------------------------------------------------------------------------
(* Lemmas about what happens to a pipe: an item is added at its end, taken from its
   front, dropped from its middle, or its end is cut off. *)

LEMMA ItemTypes ==
    ASSUME NEW q \in Seq(Payload)
    PROVE  \A i \in 1 .. Len(q) : /\ q[i] \in Payload
                                 /\ IsData(q, i) => q[i].value \in Nat
                                 /\ q[i].type \in {"data", "close", "finished"}
<1>1. \A i \in 1 .. Len(q) : q[i] \in Payload
  OBVIOUS
<1> QED BY <1>1 DEF Payload, IsData

(* p is q but for some "close" and for its end: f tells where its items were. *)
Embeds(p, q, f) ==
    /\ f \in [1 .. Len(p) -> 1 .. Len(q)]
    /\ \A i \in 1 .. Len(p) : p[i] = q[f[i]]
    /\ \A i, j \in 1 .. Len(p) : i < j => f[i] < f[j]
    /\ \A i \in 1 .. Len(p), j \in 1 .. Len(q) :
        j <= f[i] /\ q[j].type # "close" => \E k \in 1 .. Len(p) : f[k] = j

LEMMA EmbeddedKeeps ==
    ASSUME NEW p \in Seq(Payload), NEW q \in Seq(Payload), NEW f, Embeds(p, q, f),
           NEW t \in Nat, NEW g \in Nat, NEW n \in Nat
    PROVE  /\ Runs(q, t) => Runs(p, t)
           /\ Bounded(q, n) => Bounded(p, n)
           /\ RestAfterEnd(q, g) => RestAfterEnd(p, g)
           /\ EndAfterAll(q, t, g) => EndAfterAll(p, t, g)
           /\ FinishesWithin(p) => FinishesWithin(q)
<1>1. /\ f \in [1 .. Len(p) -> 1 .. Len(q)] /\ \A i \in 1 .. Len(p) : p[i] = q[f[i]]
      /\ \A i, j \in 1 .. Len(p) : i < j => f[i] < f[j]
      /\ Len(p) \in Nat /\ Len(q) \in Nat
  BY DEF Embeds
<1>2. /\ \A i \in 1 .. Len(p) : IsData(p, i) => p[i].value \in Nat
      /\ \A i \in 1 .. Len(q) : IsData(q, i) => q[i].value \in Nat
  BY ItemTypes
<1>3. ASSUME NEW i \in 1 .. Len(p), NEW j \in 1 .. Len(q), j < f[i], q[j].type # "close"
      PROVE  \E k \in 1 .. i - 1 : f[k] = j /\ p[k] = q[j]
  <2>1. PICK k \in 1 .. Len(p) : f[k] = j
    BY <1>1, <1>3 DEF Embeds
  <2>2. k < i
    BY <2>1, <1>1, <1>3, SMTT(40)
  <2> QED BY <2>1, <2>2, <1>1
<1>4. ASSUME Runs(q, t) PROVE Runs(p, t)
  <2> SUFFICES ASSUME NEW i \in 1 .. Len(p), IsData(p, i)
               PROVE  /\ p[i].value > t
                      /\ \A j \in 1 .. i - 1 : IsData(p, j) => p[j].value < p[i].value
                      /\ \A v \in t + 1 .. p[i].value : Within(p, v)
    BY DEF Runs
  <2>1. f[i] \in 1 .. Len(q) /\ IsData(q, f[i]) /\ q[f[i]] = p[i]
    BY <1>1 DEF IsData
  <2>2. p[i].value > t
    BY <1>4, <2>1 DEF Runs
  <2>3. ASSUME NEW j \in 1 .. i - 1, IsData(p, j) PROVE p[j].value < p[i].value
    <3>1. f[j] \in 1 .. f[i] - 1 /\ IsData(q, f[j]) /\ q[f[j]] = p[j]
      BY <1>1, <2>3 DEF IsData
    <3> QED BY <3>1, <2>1, <1>4 DEF Runs
  <2>4. ASSUME NEW v \in t + 1 .. p[i].value PROVE Within(p, v)
    <3>1. PICK j \in 1 .. Len(q) : IsData(q, j) /\ q[j].value = v
      BY <2>1, <2>4, <1>4 DEF Runs, Within
    <3>2. CASE j = f[i]
      BY <3>1, <3>2, <2>1 DEF Within
    <3>3. CASE j < f[i]
      BY <3>1, <3>3, <1>3, SMTT(40) DEF Within, IsData
    <3>4. CASE j > f[i]
      <4>1. f[i] \in 1 .. j - 1
        BY <3>4, <2>1
      <4> QED BY <4>1, <3>1, <2>1, <2>4, <1>2, <1>4, SMTT(40) DEF Runs
    <3> QED BY <3>2, <3>3, <3>4, <2>1
  <2> QED BY <2>2, <2>3, <2>4
<1>5. ASSUME Bounded(q, n) PROVE Bounded(p, n)
  BY <1>1, <1>5 DEF Bounded, IsData
<1>6. ASSUME RestAfterEnd(q, g) PROVE RestAfterEnd(p, g)
  <2> SUFFICES ASSUME NEW i \in 1 .. Len(p), IsData(p, i), p[i].value > g
               PROVE  \E j \in 1 .. i - 1 : Finishes(p, j)
    BY DEF RestAfterEnd
  <2>1. PICK j \in 1 .. f[i] - 1 : Finishes(q, j)
    BY <1>1, <1>6 DEF RestAfterEnd, IsData
  <2>2. j \in 1 .. Len(q) /\ j < f[i] /\ q[j].type # "close"
    BY <2>1, <1>1 DEF Finishes
  <2>3. PICK k \in 1 .. i - 1 : f[k] = j /\ p[k] = q[j]
    BY <2>2, <1>3
  <2> QED BY <2>1, <2>3 DEF Finishes
<1>7. ASSUME EndAfterAll(q, t, g) PROVE EndAfterAll(p, t, g)
  <2> SUFFICES ASSUME NEW i \in 1 .. Len(p), Finishes(p, i), NEW v \in t + 1 .. g
               PROVE  Before(p, i, v)
    BY DEF EndAfterAll
  <2>1. PICK j \in 1 .. Len(q) : j < f[i] /\ IsData(q, j) /\ q[j].value = v
    BY <1>1, <1>7 DEF EndAfterAll, Finishes, Before
  <2> QED BY <2>1, <1>1, <1>3, SMTT(40) DEF Before, IsData
<1>8. FinishesWithin(p) => FinishesWithin(q)
  BY <1>1 DEF FinishesWithin, Finishes
<1> QED BY <1>4, <1>5, <1>6, <1>7, <1>8

(* q loses its end. *)
LEMMA CutKeeps ==
    ASSUME NEW p \in Seq(Payload), NEW r \in Seq(Payload), NEW q, q = p \o r,
           NEW t \in Nat, NEW g \in Nat, NEW n \in Nat
    PROVE  /\ q \in Seq(Payload)
           /\ Runs(q, t) => Runs(p, t)
           /\ Bounded(q, n) => Bounded(p, n)
           /\ RestAfterEnd(q, g) => RestAfterEnd(p, g)
           /\ EndAfterAll(q, t, g) => EndAfterAll(p, t, g)
           /\ FinishesWithin(p) => FinishesWithin(q)
<1> DEFINE f == [i \in 1 .. Len(p) |-> i]
<1>1. q \in Seq(Payload) /\ Len(q) = Len(p) + Len(r) /\ \A i \in 1 .. Len(p) : q[i] = p[i]
  OBVIOUS
<1>2. Embeds(p, q, f)
  BY <1>1 DEF Embeds
<1> HIDE DEF f
<1> QED BY <1>1, <1>2, EmbeddedKeeps

(* q loses a "close" that stands between a and b: all the rest is still there. *)
LEMMA DropCloseKeeps ==
    ASSUME NEW a \in Seq(Payload), NEW x \in Payload, NEW b \in Seq(Payload),
           x.type = "close",
           NEW q, q = Append(a, x) \o b, NEW p, p = a \o b,
           NEW t \in Nat, NEW g \in Nat, NEW n \in Nat
    PROVE  /\ Runs(q, t) => Runs(p, t)
           /\ Bounded(q, n) => Bounded(p, n)
           /\ RestAfterEnd(q, g) => RestAfterEnd(p, g)
           /\ EndAfterAll(q, t, g) => EndAfterAll(p, t, g)
           /\ Reaches(q, t, n) => Reaches(p, t, n)
           /\ FinishesWithin(p) <=> FinishesWithin(q)
<1> DEFINE f == [i \in 1 .. Len(p) |-> IF i <= Len(a) THEN i ELSE i + 1]
<1>1. /\ p \in Seq(Payload) /\ q \in Seq(Payload)
      /\ Len(p) = Len(a) + Len(b) /\ Len(q) = Len(p) + 1
      /\ Len(a) \in Nat /\ Len(b) \in Nat
  OBVIOUS
<1>2. /\ \A i \in 1 .. Len(a) : p[i] = a[i] /\ q[i] = a[i]
      /\ \A i \in 1 .. Len(b) : p[Len(a) + i] = b[i] /\ q[Len(a) + 1 + i] = b[i]
      /\ q[Len(a) + 1] = x
  BY <1>1
<1>3. \A i \in 1 .. Len(p) : i > Len(a) => i - Len(a) \in 1 .. Len(b) /\ p[i] = q[i + 1]
  <2>1. \A i \in 1 .. Len(p) : i > Len(a) =>
            i - Len(a) \in 1 .. Len(b) /\ Len(a) + (i - Len(a)) = i
    BY <1>1
  <2> QED BY <2>1, <1>1, <1>2
<1>4. \A j \in 1 .. Len(q) : q[j].type # "close" => \E k \in 1 .. Len(p) : f[k] = j /\ p[k] = q[j]
  <2> SUFFICES ASSUME NEW j \in 1 .. Len(q), q[j].type # "close"
               PROVE  \E k \in 1 .. Len(p) : f[k] = j /\ p[k] = q[j]
    OBVIOUS
  <2>1. CASE j <= Len(a)
    BY <2>1, <1>1, <1>2
  <2>2. CASE j > Len(a) + 1
    <3>1. j - 1 \in 1 .. Len(p) /\ j - 1 > Len(a) /\ (j - 1) + 1 = j
      BY <2>2, <1>1
    <3> QED BY <3>1, <1>3
  <2> QED BY <2>1, <2>2, <1>1, <1>2
<1>5. Embeds(p, q, f)
  <2>1. f \in [1 .. Len(p) -> 1 .. Len(q)]
    BY <1>1
  <2>2. \A i \in 1 .. Len(p) : p[i] = q[f[i]]
    BY <1>1, <1>2, <1>3
  <2>3. \A i, j \in 1 .. Len(p) : i < j => f[i] < f[j]
    BY <1>1
  <2> HIDE DEF f
  <2> QED BY <2>1, <2>2, <2>3, <1>4, ZenonT(40) DEF Embeds
<1> HIDE DEF f
<1>6. \A j \in 1 .. Len(q) : q[j].type # "close" => \E k \in 1 .. Len(p) : p[k] = q[j]
  BY <1>4
<1>7. \A v \in t + 1 .. n : Within(q, v) => Within(p, v)
  <2> SUFFICES ASSUME NEW v \in t + 1 .. n, NEW j \in 1 .. Len(q), IsData(q, j), q[j].value = v
               PROVE  Within(p, v)
    BY DEF Within
  <2>1. PICK k \in 1 .. Len(p) : p[k] = q[j]
    BY <1>6 DEF IsData
  <2> QED BY <2>1 DEF Within, IsData
<1>8. ASSUME NEW j \in 1 .. Len(q), Finishes(q, j) PROVE FinishesWithin(p)
  <2>1. PICK k \in 1 .. Len(p) : p[k] = q[j]
    BY <1>6, <1>8 DEF Finishes
  <2> QED BY <2>1, <1>8 DEF FinishesWithin, Finishes
<1>9. /\ Reaches(q, t, n) => Reaches(p, t, n)
      /\ FinishesWithin(q) => FinishesWithin(p)
  BY <1>7, <1>8 DEF Reaches, FinishesWithin
<1> QED BY <1>1, <1>5, <1>9, EmbeddedKeeps

(* A notice is added at the end of q. *)
LEMMA NoticeKeeps ==
    ASSUME NEW q \in Seq(Payload), NEW x \in Payload, x.type # "data",
           NEW p, p = Append(q, x),
           NEW t \in Nat, NEW g \in Nat, NEW n \in Nat
    PROVE  /\ p \in Seq(Payload)
           /\ Runs(q, t) => Runs(p, t)
           /\ Bounded(q, n) => Bounded(p, n)
           /\ RestAfterEnd(q, g) => RestAfterEnd(p, g)
           /\ Reaches(q, t, n) => Reaches(p, t, n)
           /\ FinishesWithin(p) <=> FinishesWithin(q) \/ x.type = "finished"
           /\ EndAfterAll(q, t, g) /\ (x.type = "finished" => Reaches(q, t, g)) => EndAfterAll(p, t, g)
<1>1. /\ p \in Seq(Payload) /\ Len(p) = Len(q) + 1 /\ Len(q) \in Nat
      /\ \A i \in 1 .. Len(q) : p[i] = q[i] /\ i \in 1 .. Len(p)
      /\ p[Len(p)] = x
      /\ \A i \in 1 .. Len(p) : i \in 1 .. Len(q) \/ i = Len(p)
  OBVIOUS
<1>2. \A v \in Nat : Within(q, v) => Within(p, v)
  BY <1>1 DEF Within, IsData
<1>3. Runs(q, t) => Runs(p, t)
  BY <1>1 DEF Runs, IsData, Within
<1>4. Bounded(q, n) => Bounded(p, n)
  BY <1>1 DEF Bounded, IsData
<1>5. RestAfterEnd(q, g) => RestAfterEnd(p, g)
  BY <1>1 DEF RestAfterEnd, IsData, Finishes
<1>6. Reaches(q, t, n) => Reaches(p, t, n)
  BY <1>1 DEF Reaches, Within, IsData
<1>7. FinishesWithin(p) <=> FinishesWithin(q) \/ x.type = "finished"
  BY <1>1 DEF FinishesWithin, Finishes
<1>8. EndAfterAll(q, t, g) /\ (x.type = "finished" => Reaches(q, t, g)) => EndAfterAll(p, t, g)
  <2> SUFFICES ASSUME EndAfterAll(q, t, g), x.type = "finished" => Reaches(q, t, g),
                      NEW i \in 1 .. Len(p), Finishes(p, i), NEW v \in t + 1 .. g
               PROVE  Before(p, i, v)
    BY DEF EndAfterAll
  <2>1. CASE i \in 1 .. Len(q)
    <3>1. Before(q, i, v)
      BY <2>1, <1>1 DEF EndAfterAll, Finishes
    <3> QED BY <3>1, <1>1 DEF Before, IsData
  <2>2. CASE i = Len(p)
    <3>1. Within(q, v)
      BY <2>2, <1>1 DEF Reaches, Finishes
    <3> QED BY <3>1, <2>2, <1>1 DEF Within, Before, IsData
  <2> QED BY <2>1, <2>2, <1>1
<1> QED BY <1>1, <1>3, <1>4, <1>5, <1>6, <1>7, <1>8

(* The value after n is added at the end of q, where nothing is missing up to n. *)
LEMMA DataKeeps ==
    ASSUME NEW q \in Seq(Payload), NEW n \in Nat, NEW m \in Nat, m = n + 1,
           NEW x \in Payload, x.type = "data", x.value = m, NEW p, p = Append(q, x),
           NEW t \in Nat, t <= n, Runs(q, t), Bounded(q, n), Reaches(q, t, n)
    PROVE  /\ p \in Seq(Payload)
           /\ Runs(p, t) /\ Bounded(p, m) /\ Reaches(p, t, m)
           /\ FinishesWithin(p) <=> FinishesWithin(q)
<1>2. /\ p = Append(q, x)
      /\ p \in Seq(Payload) /\ Len(p) = Len(q) + 1 /\ Len(q) \in Nat
      /\ \A i \in 1 .. Len(q) : p[i] = q[i] /\ i \in 1 .. Len(p)
      /\ p[Len(p)] = x
      /\ \A i \in 1 .. Len(p) : i \in 1 .. Len(q) \/ i = Len(p)
  OBVIOUS
<1>3. \A v : Within(q, v) => Within(p, v)
  BY <1>2 DEF Within, IsData
<1>4. Within(p, m)
  BY <1>2 DEF Within, IsData
<1>5. Reaches(p, t, m)
  BY <1>3, <1>4 DEF Reaches
<1>6. Bounded(p, m)
  <2>1. \A i \in 1 .. Len(q) : IsData(q, i) => q[i].value \in Nat
    BY ItemTypes
  <2> QED BY <2>1, <1>2 DEF Bounded, IsData
<1>7. Runs(p, t)
  <2> SUFFICES ASSUME NEW i \in 1 .. Len(p), IsData(p, i)
               PROVE  /\ p[i].value > t
                      /\ \A j \in 1 .. i - 1 : IsData(p, j) => p[j].value < p[i].value
                      /\ \A v \in t + 1 .. p[i].value : Within(p, v)
    BY DEF Runs
  <2>1. CASE i \in 1 .. Len(q)
    BY <2>1, <1>2, <1>3 DEF Runs, IsData
  <2>2. CASE i = Len(p)
    <3>1. \A j \in 1 .. i - 1 : IsData(p, j) => p[j].value < p[i].value
      <4>1. \A j \in 1 .. Len(q) : IsData(q, j) => q[j].value \in Nat
        BY ItemTypes
      <4> QED BY <4>1, <2>2, <1>2 DEF Bounded, IsData
    <3>2. p[i].value = n + 1
      BY <2>2, <1>2
    <3> QED BY <3>1, <3>2, <1>5 DEF Reaches
  <2> QED BY <2>1, <2>2, <1>2
<1>8. FinishesWithin(p) <=> FinishesWithin(q)
  BY <1>2 DEF FinishesWithin, Finishes
<1> QED BY <1>2, <1>5, <1>6, <1>7, <1>8

(* A value after the end is added where the end is. *)
LEMMA DataAndEnd ==
    ASSUME NEW q \in Seq(Payload), NEW x \in Payload, x.type = "data", NEW p, p = Append(q, x),
           NEW t \in Nat, NEW g \in Nat
    PROVE  /\ RestAfterEnd(q, g) /\ (x.value > g => FinishesWithin(q)) => RestAfterEnd(p, g)
           /\ EndAfterAll(q, t, g) => EndAfterAll(p, t, g)
<1>2. /\ p = Append(q, x)
      /\ p \in Seq(Payload) /\ Len(p) = Len(q) + 1 /\ Len(q) \in Nat
      /\ \A i \in 1 .. Len(q) : p[i] = q[i] /\ i \in 1 .. Len(p)
      /\ p[Len(p)] = x
      /\ \A i \in 1 .. Len(p) : i \in 1 .. Len(q) \/ i = Len(p)
  OBVIOUS
<1>3. RestAfterEnd(q, g) /\ (x.value > g => FinishesWithin(q)) => RestAfterEnd(p, g)
  <2> SUFFICES ASSUME RestAfterEnd(q, g), x.value > g => FinishesWithin(q),
                      NEW i \in 1 .. Len(p), IsData(p, i), p[i].value > g
               PROVE  \E j \in 1 .. i - 1 : Finishes(p, j)
    BY DEF RestAfterEnd
  <2>1. CASE i \in 1 .. Len(q)
    BY <2>1, <1>2 DEF RestAfterEnd, IsData, Finishes
  <2>2. CASE i = Len(p)
    BY <2>2, <1>2 DEF FinishesWithin, Finishes
  <2> QED BY <2>1, <2>2, <1>2
<1>4. EndAfterAll(q, t, g) => EndAfterAll(p, t, g)
  <2> SUFFICES ASSUME EndAfterAll(q, t, g), NEW i \in 1 .. Len(p), Finishes(p, i),
                      NEW v \in t + 1 .. g
               PROVE  Before(p, i, v)
    BY DEF EndAfterAll
  <2>1. i \in 1 .. Len(q) /\ Finishes(q, i)
    BY <1>2 DEF Finishes
  <2>2. Before(q, i, v)
    BY <2>1 DEF EndAfterAll
  <2> QED BY <2>2, <1>2 DEF Before, IsData
<1> QED BY <1>3, <1>4

(* Tail, by a name that the provers leave as it is. *)
rest(q) == Tail(q)

(* The front of q is taken: a value, which is the one after t, or a notice. *)
LEMMA TakeKeeps ==
    ASSUME NEW q \in Seq(Payload), q # << >>, NEW t \in Nat, NEW g \in Nat, NEW n \in Nat,
           NEW x, x = Head(q), NEW p, p = rest(q), NEW v \in Nat, v = t + 1,
           NEW u \in Nat, x.type = "data" => u = v, x.type # "data" => u = t,
           Runs(q, t), Bounded(q, n)
    PROVE  /\ x \in Payload /\ p \in Seq(Payload)
           /\ x.type = "data" => x.value = v
           /\ Runs(p, u) /\ Bounded(p, n)
           /\ Reaches(q, t, g) => Reaches(p, u, g)
           /\ RestAfterEnd(q, g) /\ x.type = "data" => v <= g /\ RestAfterEnd(p, g)
           /\ EndAfterAll(q, t, g) => EndAfterAll(p, u, g)
           /\ EndAfterAll(q, t, g) /\ x.type = "finished" => g <= t
           /\ FinishesWithin(p) => FinishesWithin(q)
           /\ FinishesWithin(q) => x.type = "finished" \/ FinishesWithin(p)
<1>1. /\ x \in Payload /\ p \in Seq(Payload) /\ Len(q) = Len(p) + 1 /\ Len(p) \in Nat
      /\ q[1] = x /\ 1 \in 1 .. Len(q)
      /\ \A i \in 1 .. Len(p) : p[i] = q[i + 1] /\ i + 1 \in 1 .. Len(q)
      /\ \A i \in 1 .. Len(q) : i = 1 \/ (i - 1 \in 1 .. Len(p) /\ p[i - 1] = q[i])
  BY DEF rest
<1>2. /\ \A i \in 1 .. Len(p) : IsData(p, i) => p[i].value \in Nat
      /\ \A i \in 1 .. Len(q) : IsData(q, i) => q[i].value \in Nat
  <2>1. p \in Seq(Payload)
    BY <1>1
  <2> HIDE DEF IsData
  <2> QED BY <2>1, ItemTypes
<1>3. ASSUME x.type = "data" PROVE x.value = t + 1
  <2>0. x.value \in Nat
    BY <1>1, <1>2, <1>3 DEF IsData
  <2>1. x.value > t /\ \A w \in t + 1 .. x.value : Within(q, w)
    BY <1>1, <1>3 DEF Runs, IsData
  <2>2. Within(q, t + 1)
    BY <2>0, <2>1
  <2>3. PICK j \in 1 .. Len(q) : IsData(q, j) /\ q[j].value = t + 1
    BY <2>2 DEF Within
  <2>4. CASE j = 1
    BY <2>3, <2>4, <1>1
  <2>5. CASE j # 1
    <3>1. 1 \in 1 .. j - 1 /\ IsData(q, 1)
      BY <2>5, <1>1, <1>3 DEF IsData
    <3>2. q[1].value < q[j].value
      BY <2>3, <3>1 DEF Runs
    <3> QED BY <3>2, <2>0, <2>1, <2>3, <1>1
  <2> QED BY <2>4, <2>5
<1>4. \A w : w > u /\ Within(q, w) => Within(p, w)
  <2> SUFFICES ASSUME NEW w, w > u, NEW j \in 1 .. Len(q), IsData(q, j), q[j].value = w
               PROVE  Within(p, w)
    BY DEF Within
  <2>1. j # 1
    BY <1>1, <1>2, <1>3 DEF IsData
  <2>2. j - 1 \in 1 .. Len(p) /\ p[j - 1] = q[j]
    BY <2>1, <1>1
  <2>3. IsData(p, j - 1) /\ p[j - 1].value = w
    BY <2>2 DEF IsData
  <2> QED BY <2>2, <2>3 DEF Within
<1>5. Runs(p, u)
  <2> SUFFICES ASSUME NEW i \in 1 .. Len(p), IsData(p, i)
               PROVE  /\ p[i].value > u
                      /\ \A j \in 1 .. i - 1 : IsData(p, j) => p[j].value < p[i].value
                      /\ \A w \in u + 1 .. p[i].value : Within(p, w)
    BY DEF Runs
  <2>1. i + 1 \in 1 .. Len(q) /\ IsData(q, i + 1) /\ q[i + 1] = p[i]
    BY <1>1 DEF IsData
  <2>2. p[i].value > u
    BY <2>1, <1>1, <1>2, <1>3 DEF Runs, IsData
  <2>3. ASSUME NEW j \in 1 .. i - 1, IsData(p, j) PROVE p[j].value < p[i].value
    <3>1. j + 1 \in 1 .. (i + 1) - 1 /\ IsData(q, j + 1) /\ q[j + 1] = p[j]
      BY <2>3, <1>1 DEF IsData
    <3> QED BY <3>1, <2>1 DEF Runs
  <2>4. \A w \in u + 1 .. p[i].value : Within(p, w)
    <3>1. \A w \in t + 1 .. p[i].value : Within(q, w)
      BY <2>1 DEF Runs
    <3>2. t <= u /\ p[i].value \in Nat
      BY <1>2
    <3> QED BY <3>1, <3>2, <1>4, SMTT(40)
  <2> QED BY <2>2, <2>3, <2>4
<1>6. Bounded(p, n)
  <2> SUFFICES ASSUME NEW i \in 1 .. Len(p), IsData(p, i) PROVE p[i].value <= n
    BY DEF Bounded
  <2>1. i + 1 \in 1 .. Len(q) /\ IsData(q, i + 1) /\ q[i + 1] = p[i]
    BY <1>1 DEF IsData
  <2> QED BY <2>1 DEF Bounded
<1>7. Reaches(q, t, g) => Reaches(p, u, g)
  BY <1>4 DEF Reaches
<1>8. ASSUME RestAfterEnd(q, g), x.type = "data" PROVE t + 1 <= g /\ RestAfterEnd(p, g)
  <2>1. t + 1 <= g
    BY <1>1, <1>3, <1>8 DEF RestAfterEnd, IsData
  <2>2. ASSUME NEW i \in 1 .. Len(p), IsData(p, i), p[i].value > g
        PROVE  \E j \in 1 .. i - 1 : Finishes(p, j)
    <3>1. PICK j \in 1 .. (i + 1) - 1 : Finishes(q, j)
      BY <2>2, <1>1, <1>8 DEF RestAfterEnd, IsData
    <3>2. j # 1
      BY <3>1, <1>1, <1>8 DEF Finishes
    <3>3. j - 1 \in 1 .. i - 1 /\ p[j - 1] = q[j]
      BY <3>1, <3>2, <1>1
    <3> QED BY <3>1, <3>3 DEF Finishes
  <2> QED BY <2>1, <2>2 DEF RestAfterEnd
<1>9. ASSUME EndAfterAll(q, t, g) PROVE EndAfterAll(p, u, g)
  <2> SUFFICES ASSUME NEW i \in 1 .. Len(p), Finishes(p, i), NEW w \in u + 1 .. g
               PROVE  Before(p, i, w)
    BY DEF EndAfterAll
  <2>1. Before(q, i + 1, w)
    BY <1>1, <1>9 DEF EndAfterAll, Finishes
  <2>2. PICK j \in 1 .. Len(q) : j < i + 1 /\ IsData(q, j) /\ q[j].value = w
    BY <2>1 DEF Before
  <2>3. j # 1
    BY <2>2, <1>1, <1>3 DEF IsData
  <2>4. j - 1 \in 1 .. Len(p) /\ j - 1 < i /\ p[j - 1] = q[j]
    BY <2>2, <2>3, <1>1, SMTT(40)
  <2> QED BY <2>2, <2>4 DEF Before, IsData
<1>10. ASSUME EndAfterAll(q, t, g), x.type = "finished" PROVE g <= t
  <2>1. \A w \in t + 1 .. g : Before(q, 1, w)
    BY <1>1, <1>10 DEF EndAfterAll, Finishes
  <2>2. t < g => g \in t + 1 .. g /\ Before(q, 1, g)
    BY <2>1
  <2> QED BY <2>2 DEF Before
<1>11. FinishesWithin(p) => FinishesWithin(q)
  <2> SUFFICES ASSUME NEW i \in 1 .. Len(p), Finishes(p, i) PROVE FinishesWithin(q)
    BY DEF FinishesWithin
  <2>1. i + 1 \in 1 .. Len(q) /\ q[i + 1] = p[i]
    BY <1>1
  <2> QED BY <2>1 DEF FinishesWithin, Finishes
<1>12. FinishesWithin(q) => x.type = "finished" \/ FinishesWithin(p)
  BY <1>1 DEF FinishesWithin, Finishes
<1> QED BY <1>1, <1>3, <1>5, <1>6, <1>7, <1>8, <1>9, <1>10, <1>11, <1>12

-----------------------------------------------------------------------------
LEMMA OtherEnd ==
    ASSUME NEW e \in Ends
    PROVE  /\ other(e) \in Ends /\ other(e) # e /\ other(other(e)) = e
           /\ \A x \in Ends : x = e \/ x = other(e)
<1>1. PICK a \in Ends, b \in Ends : a # b /\ Ends = {a, b}
  BY EndsAssumption DEF EndsAssumption
<1>2. other(a) = b /\ other(b) = a
  BY <1>1 DEF other
<1> QED BY <1>1, <1>2

LEMMA NoticeTyped ==
    /\ notice("close") \in Payload /\ notice("close").type = "close"
    /\ notice("finished") \in Payload /\ notice("finished").type = "finished"
    /\ notice("finished") \in Readable
BY DEF notice, Payload, Readable

LEMMA ReadableTyped ==
    ASSUME NEW queue \in [Ends -> Seq(Readable)]
    PROVE  queue \in [Ends -> Seq(Payload)]
<1>1. Readable \subseteq Payload
  BY DEF Readable
<1>2. Seq(Readable) \subseteq Seq(Payload)
  BY <1>1
<1> QED BY <1>2

LEMMA PushTyped ==
    ASSUME NEW queue \in [Ends -> Seq(Payload)], NEW e \in Ends, NEW item \in Payload
    PROVE  push(queue, e, item) \in [Ends -> Seq(Payload)]
BY DEF push

LEMMA PushReadable ==
    ASSUME NEW queue \in [Ends -> Seq(Readable)], NEW e \in Ends, NEW item \in Readable
    PROVE  push(queue, e, item) \in [Ends -> Seq(Readable)]
BY DEF push

LEMMA TypeStart == Init => TypeOK
BY DEF Init, TypeOK

LEMMA TypeStep == TypeOK /\ [Next]_vars => TypeOK'
<1> SUFFICES ASSUME TypeOK, [Next]_vars PROVE TypeOK'
  OBVIOUS
<1> USE DEF TypeOK
<1>1. ASSUME NEW e \in Ends, write(e) PROVE TypeOK'
  <2>1. Head(writeQueue[e]) \in Payload /\ Tail(writeQueue[e]) \in Seq(Payload)
    BY <1>1 DEF write
  <2>2. Head(writeQueue[e]).type \in {"data", "close", "finished"}
    BY <2>1 DEF Payload
  <2>3. writeQueue' \in [Ends -> Seq(Payload)] /\ wire' \in [Ends -> Seq(Payload)]
    BY <1>1, <2>1 DEF write, push
  <2>4. written' \in [Ends -> SUBSET {"close", "finished"}]
    BY <1>1, <2>2 DEF write
  <2> QED BY <1>1, <2>3, <2>4 DEF write, readerVars, callerVars
<1>2. ASSUME NEW e \in Ends, receive(e) PROVE TypeOK'
  <2>1. other(e) \in Ends
    BY OtherEnd
  <2>2. Head(wire[other(e)]) \in Payload /\ Tail(wire[other(e)]) \in Seq(Payload)
    BY <1>2, <2>1 DEF receive
  <2>3. wire' \in [Ends -> Seq(Payload)]
    BY <1>2, <2>1, <2>2 DEF receive
  <2>4. /\ readQueue' \in [Ends -> Seq(Readable)] /\ reading' \in [Ends -> {"on", "over", "broken"}]
        /\ remoteClosed' \in [Ends -> BOOLEAN]
    <3>1. \/ readQueue' = readQueue
          \/ /\ Head(wire[other(e)]).type # "close"
             /\ readQueue' = push(readQueue, e, Head(wire[other(e)]))
          \/ readQueue' = push(readQueue, e, notice("finished"))
      BY <1>2 DEF receive, readingEnds, handle
    <3>2. readQueue \in [Ends -> Seq(Readable)]
      OBVIOUS
    <3>3. readQueue' \in [Ends -> Seq(Readable)]
      <4>1. Head(wire[other(e)]).type # "close" => Head(wire[other(e)]) \in Readable
        BY <2>2 DEF Readable
      <4> HIDE DEF TypeOK
      <4> QED BY <3>1, <3>2, <4>1, NoticeTyped, PushReadable
    <3> QED BY <1>2, <3>3 DEF receive, readingEnds, handle
  <2> QED BY <1>2, <2>3, <2>4 DEF receive, callerVars
<1>3. ASSUME NEW e \in Ends, receiveEnd(e) PROVE TypeOK'
  <2>1. readQueue' \in [Ends -> Seq(Readable)] /\ reading' \in [Ends -> {"on", "over", "broken"}]
    BY <1>3, NoticeTyped DEF receiveEnd, readingEnds, push
  <2> QED BY <1>3, <2>1 DEF receiveEnd, readingEnds, writerVars, callerVars
<1>4. ASSUME NEW e \in Ends, iterate(e) PROVE TypeOK'
  <2>1. data(values[e] + 1) \in Payload
    BY DEF data, Payload
  <2>2. writeQueue' \in [Ends -> Seq(Payload)]
    <3>1. \/ writeQueue' = push(writeQueue, e, data(values[e] + 1))
          \/ writeQueue' = push(writeQueue, e, notice("finished"))
      BY <1>4 DEF iterate, sinkEnds, sinkSends
    <3>2. writeQueue \in [Ends -> Seq(Payload)]
      OBVIOUS
    <3> HIDE DEF TypeOK
    <3> QED BY <3>1, <3>2, <2>1, NoticeTyped, PushTyped
  <2>3. given' \in [Ends -> Seq(Nat)] /\ values' \in [Ends -> Nat]
    <3>1. values' = values \/ values' = [values EXCEPT ![e] = @ + 1]
      BY <1>4 DEF iterate
    <3>2. given' = given \/ given' = [given EXCEPT ![e] = Append(@, values[e] + 1)]
      BY <1>4 DEF iterate, sinkEnds, sinkSends
    <3>3. /\ given \in [Ends -> Seq(Nat)] /\ values \in [Ends -> Nat]
          /\ Append(given[e], values[e] + 1) \in Seq(Nat)
      OBVIOUS
    <3> HIDE DEF TypeOK
    <3>4. given' \in [Ends -> Seq(Nat)]
      BY <3>2, <3>3
    <3>5. values' \in [Ends -> Nat]
      BY <3>1, <3>3, SMTT(40)
    <3> QED BY <3>4, <3>5
  <2>4. sink' \in [Ends -> {"open", "over"}] /\ sinkFinished' \in [Ends -> BOOLEAN]
    BY <1>4 DEF iterate, sinkEnds, sinkSends
  <2> QED BY <1>4, <2>2, <2>3, <2>4 DEF iterate, readerVars
<1>5. ASSUME NEW e \in Ends, next(e) PROVE TypeOK'
  <2>1. Head(readQueue[e]) \in Readable /\ Tail(readQueue[e]) \in Seq(Readable)
    BY <1>5 DEF next
  <2>2. Head(readQueue[e]).type = "data" => Head(readQueue[e]).value \in Nat
    BY <2>1 DEF Readable, Payload
  <2>3. readQueue' \in [Ends -> Seq(Readable)]
    BY <1>5, <2>1 DEF next
  <2>4. writeQueue' \in [Ends -> Seq(Payload)] /\ taken' \in [Ends -> Seq(Nat)]
    <3>1. writeQueue' = writeQueue \/ writeQueue' = push(writeQueue, e, notice("close"))
      BY <1>5 DEF next
    <3>2. \/ taken' = taken
          \/ /\ Head(readQueue[e]).type = "data"
             /\ taken' = [taken EXCEPT ![e] = Append(@, Head(readQueue[e]).value)]
      BY <1>5 DEF next
    <3>3. /\ taken \in [Ends -> Seq(Nat)] /\ writeQueue \in [Ends -> Seq(Payload)]
          /\ Head(readQueue[e]).type = "data" =>
                Append(taken[e], Head(readQueue[e]).value) \in Seq(Nat)
      BY <2>2
    <3> HIDE DEF TypeOK
    <3>4. taken' \in [Ends -> Seq(Nat)]
      BY <3>2, <3>3
    <3>5. notice("close") \in Payload
      BY NoticeTyped
    <3>6. push(writeQueue, e, notice("close")) \in [Ends -> Seq(Payload)]
      BY <3>3, <3>5, PushTyped
    <3>7. writeQueue' \in [Ends -> Seq(Payload)]
      BY <3>1, <3>3, <3>6
    <3> QED BY <3>4, <3>7
  <2> QED BY <1>5, <2>3, <2>4, ZenonT(40) DEF next
<1>6. ASSUME NEW e \in Ends, leave(e) PROVE TypeOK'
  BY <1>6 DEF leave, writerVars, readerVars
<1>7. ASSUME NEW e \in Ends, closeRead(e) PROVE TypeOK'
  <2>1. writeQueue' \in [Ends -> Seq(Payload)]
    <3>1. writeQueue' = push(writeQueue, e, notice("close"))
      BY <1>7 DEF closeRead
    <3>2. writeQueue \in [Ends -> Seq(Payload)]
      OBVIOUS
    <3> HIDE DEF TypeOK
    <3> QED BY <3>1, <3>2, NoticeTyped, PushTyped
  <2> QED BY <1>7, <2>1 DEF closeRead, readerVars
<1>8. ASSUME NEW e \in Ends, closeWrite(e) PROVE TypeOK'
  <2>1. writeQueue' \in [Ends -> Seq(Payload)]
    <3>1. writeQueue' = push(writeQueue, e, notice("finished"))
      BY <1>8 DEF closeWrite
    <3>2. writeQueue \in [Ends -> Seq(Payload)]
      OBVIOUS
    <3> HIDE DEF TypeOK
    <3> QED BY <3>1, <3>2, NoticeTyped, PushTyped
  <2> QED BY <1>8, <2>1 DEF closeWrite, readerVars
<1>9. CASE breaks
  BY <1>9 DEF breaks, callerVars
<1>10. CASE UNCHANGED vars
  BY <1>10 DEF vars, writerVars, readerVars, callerVars
<1> QED BY <1>1, <1>2, <1>3, <1>4, <1>5, <1>6, <1>7, <1>8, <1>9, <1>10 DEF Next

-----------------------------------------------------------------------------
(* The direction from o to e, action by action. *)
LEMMA DirectionTypes ==
    ASSUME TypeOK, NEW e \in Ends, NEW o \in Ends, o = other(e)
    PROVE  /\ readQueue[e] \in Seq(Payload) /\ wire[o] \in Seq(Payload)
           /\ writeQueue[o] \in Seq(Payload) /\ pipe(e) \in Seq(Payload)
           /\ readQueue[e] \o wire[o] \in Seq(Payload)
           /\ taken[e] \in Seq(Nat) /\ given[o] \in Seq(Nat)
           /\ Len(taken[e]) \in Nat /\ Len(given[o]) \in Nat /\ values[o] \in Nat
<1>1. /\ readQueue[e] \in Seq(Payload) /\ wire[o] \in Seq(Payload)
      /\ writeQueue[o] \in Seq(Payload)
      /\ taken[e] \in Seq(Nat) /\ given[o] \in Seq(Nat) /\ values[o] \in Nat
  <2>1. readQueue \in [Ends -> Seq(Payload)]
    BY ReadableTyped DEF TypeOK
  <2> QED BY <2>1 DEF TypeOK
<1> HIDE DEF TypeOK
<1> QED BY <1>1 DEF pipe

(* Nothing goes on at the wire from o to e, and e reads nothing. *)
Still(e, o) ==
    /\ wire'[o] = wire[o] /\ written'[o] = written[o] /\ writing'[o] = writing[o]
    /\ reading'[e] = reading[e] /\ readQueue'[e] = readQueue[e] /\ taken'[e] = taken[e]
    /\ sourceFinished'[e] = sourceFinished[e] /\ closedRead'[e] = closedRead[e]

(* Steps that leave the direction from o to e alone, but for its source, which may be
   left. *)
LEMMA UntouchedDirection ==
    ASSUME NEW e \in Ends, NEW o \in Ends, o = other(e), DirectionInv(e, o),
           Still(e, o), writeQueue'[o] = writeQueue[o],
           given'[o] = given[o], values'[o] = values[o],
           sink'[o] = sink[o], sinkFinished'[o] = sinkFinished[o],
           source'[e] = source[e] \/ (source[e] = "open" /\ source'[e] = "left")
    PROVE  DirectionInv(e, o)'
<1> USE DEF Still
<1>1. pipe(e)' = pipe(e)
  BY DEF pipe
<1>2. Numbered(e, o)'
  BY DEF DirectionInv, Numbered
<1>3. Carried(e, o)'
  BY <1>1 DEF DirectionInv, Carried
<1>4. EndInPlace(e, o)'
  BY <1>1 DEF DirectionInv, EndInPlace
<1>5. Settled(e, o)'
  BY DEF DirectionInv, Settled
<1> QED BY <1>2, <1>3, <1>4, <1>5 DEF DirectionInv

LEMMA Weaker ==
    ASSUME NEW q \in Seq(Payload), NEW t \in Nat, NEW n \in Nat, NEW m \in Nat, n <= m
    PROVE  /\ Bounded(q, n) => Bounded(q, m)
           /\ RestAfterEnd(q, n) => RestAfterEnd(q, m)
           /\ Reaches(q, t, m) => Reaches(q, t, n)
           /\ ~FinishesWithin(q) => EndAfterAll(q, t, m)
<1>1. \A i \in 1 .. Len(q) : IsData(q, i) => q[i].value \in Nat
  BY ItemTypes
<1> QED BY <1>1 DEF Bounded, RestAfterEnd, Reaches, FinishesWithin, EndAfterAll

LEMMA ConcatAppend ==
    ASSUME NEW a \in Seq(Payload), NEW b \in Seq(Payload), NEW x \in Payload
    PROVE  a \o Append(b, x) = Append(a \o b, x)
<1>1. /\ a \o Append(b, x) \in Seq(Payload) /\ Append(a \o b, x) \in Seq(Payload)
      /\ Len(a \o Append(b, x)) = Len(Append(a \o b, x))
  OBVIOUS
<1>2. \A i \in 1 .. Len(a \o Append(b, x)) : (a \o Append(b, x))[i] = Append(a \o b, x)[i]
  OBVIOUS
<1> QED BY <1>1, <1>2, SeqEqual

LEMMA ConcatTwice ==
    ASSUME NEW a \in Seq(Payload), NEW b \in Seq(Payload), NEW c \in Seq(Payload)
    PROVE  (a \o b) \o c = a \o (b \o c) /\ b \o c \in Seq(Payload)
<1>1. /\ (a \o b) \o c \in Seq(Payload) /\ a \o (b \o c) \in Seq(Payload)
      /\ Len((a \o b) \o c) = Len(a \o (b \o c))
  OBVIOUS
<1>2. \A i \in 1 .. Len((a \o b) \o c) : ((a \o b) \o c)[i] = (a \o (b \o c))[i]
  OBVIOUS
<1> QED BY <1>1, <1>2, SeqEqual

(* An item is pushed for the wire. *)
LEMMA PipeAfterPush ==
    ASSUME TypeOK, NEW e \in Ends, NEW o \in Ends, o = other(e), NEW x \in Payload,
           writeQueue'[o] = Append(writeQueue[o], x), wire'[o] = wire[o],
           reading'[e] = reading[e], readQueue'[e] = readQueue[e]
    PROVE  /\ pipe(e)' = IF reading[e] = "on" THEN Append(pipe(e), x) ELSE pipe(e)
           /\ (readQueue[e] \o wire[o])' = readQueue[e] \o wire[o]
<1>1. /\ readQueue[e] \in Seq(Payload) /\ wire[o] \in Seq(Payload)
      /\ writeQueue[o] \in Seq(Payload)
  BY DirectionTypes
<1>2. readQueue[e] \o wire[o] \o Append(writeQueue[o], x)
        = Append(readQueue[e] \o wire[o] \o writeQueue[o], x)
  <2>1. readQueue[e] \o wire[o] \in Seq(Payload)
    BY <1>1
  <2> QED BY <2>1, <1>1, ConcatAppend
<1> QED BY <1>2 DEF pipe

(* o sends a notice: closeRead, the end of its source, closeWrite, or the end of its
   sink. *)
LEMMA NoticeSent ==
    ASSUME TypeOK, TypeOK', NEW e \in Ends, NEW o \in Ends, o = other(e), DirectionInv(e, o),
           NEW x \in Payload, x.type # "data",
           Still(e, o), writeQueue'[o] = Append(writeQueue[o], x),
           sinkFinished'[o] <=> (sinkFinished[o] \/ x.type = "finished"),
           \/ sink'[o] = sink[o] /\ values'[o] = values[o]
           \/ sinkFinished'[o] /\ sink'[o] = "over" /\ values[o] <= values'[o],
           given'[o] = given[o], source'[e] = source[e]
    PROVE  DirectionInv(e, o)'
<1> USE DEF Still
<1> DEFINE q == pipe(e)
           p == pipe(e)'
           t == Len(taken[e])
           g == Len(given[o])
<1>1. /\ q \in Seq(Payload) /\ t \in Nat /\ g \in Nat
      /\ values[o] \in Nat /\ values'[o] \in Nat /\ values[o] <= values'[o]
  <2>1. values'[o] \in Nat
    BY DEF TypeOK
  <2> QED BY <2>1, DirectionTypes
<1>2. p = IF reading[e] = "on" THEN Append(q, x) ELSE q
  BY PipeAfterPush
<1>3. (readQueue[e] \o wire[o])' = readQueue[e] \o wire[o]
  BY PipeAfterPush
<1>4. Numbered(e, o) /\ Carried(e, o) /\ EndInPlace(e, o) /\ Settled(e, o)
  BY DEF DirectionInv
<1>5. /\ p \in Seq(Payload)
      /\ Runs(q, t) => Runs(p, t)
      /\ Bounded(q, values'[o]) => Bounded(p, values'[o])
      /\ RestAfterEnd(q, g) => RestAfterEnd(p, g)
      /\ Reaches(q, t, g) => Reaches(p, t, g)
      /\ Reaches(q, t, values[o]) => Reaches(p, t, values[o])
      /\ reading[e] = "on" => (FinishesWithin(p) <=> FinishesWithin(q) \/ x.type = "finished")
      /\ reading[e] # "on" => p = q
      /\ EndAfterAll(q, t, g) /\ (reading[e] = "on" => Reaches(q, t, g)) => EndAfterAll(p, t, g)
  <2> HIDE DEF q, p, t, g
  <2>1. CASE reading[e] = "on"
    <3>1. p = Append(q, x)
      BY <2>1, <1>2
    <3>2. p \in Seq(Payload) /\ (Runs(q, t) => Runs(p, t))
      BY <3>1, <1>1, NoticeKeeps
    <3>3. Bounded(q, values'[o]) => Bounded(p, values'[o])
      <4>1. \A m \in Nat : Bounded(q, m) => Bounded(p, m)
        BY <3>1, <1>1, NoticeKeeps
      <4> QED BY <4>1, <1>1
    <3>4. /\ RestAfterEnd(q, g) => RestAfterEnd(p, g)
          /\ Reaches(q, t, g) => Reaches(p, t, g)
      BY <3>1, <1>1, NoticeKeeps
    <3>5. Reaches(q, t, values[o]) => Reaches(p, t, values[o])
      BY <3>1, <1>1, NoticeKeeps
    <3>6. FinishesWithin(p) <=> FinishesWithin(q) \/ x.type = "finished"
      BY <3>1, <1>1, NoticeKeeps
    <3>7. EndAfterAll(q, t, g) /\ (x.type = "finished" => Reaches(q, t, g)) => EndAfterAll(p, t, g)
      BY <3>1, <1>1, NoticeKeeps
    <3> QED BY <2>1, <3>2, <3>3, <3>4, <3>5, <3>6, <3>7
  <2>2. CASE reading[e] # "on"
    BY <2>2, <1>1, <1>2
  <2> QED BY <2>1, <2>2
<1>6. Bounded(q, values[o]) => Bounded(q, values'[o])
  <2> HIDE DEF q
  <2> QED BY <1>1, Weaker
<1>7. Numbered(e, o)'
  BY <1>1, <1>4 DEF Numbered
<1>8. Carried(e, o)'
  BY <1>4, <1>5, <1>6 DEF Carried
<1>9. EndInPlace(e, o)'
  BY <1>3, <1>4, <1>5 DEF EndInPlace, Carried
<1>10. Settled(e, o)'
  BY <1>4 DEF Settled
<1> QED BY <1>7, <1>8, <1>9, <1>10 DEF DirectionInv

(* The iterable of o yields a value that is sent. *)
LEMMA ValueSent ==
    ASSUME TypeOK, NEW e \in Ends, NEW o \in Ends, o = other(e), DirectionInv(e, o),
           Still(e, o), sink[o] = "open", sink'[o] = "open", values'[o] = values[o] + 1,
           writeQueue'[o] = Append(writeQueue[o], data(values[o] + 1)),
           given'[o] = IF sinkFinished[o] THEN given[o] ELSE Append(given[o], values[o] + 1),
           sinkFinished'[o] = sinkFinished[o], source'[e] = source[e]
    PROVE  DirectionInv(e, o)'
<1> USE DEF Still
<1> DEFINE q == pipe(e)
           p == pipe(e)'
           t == Len(taken[e])
           g == Len(given[o])
           n == values[o]
           h == Len(given'[o])
           m == n + 1
           x == data(m)
<1>1. q \in Seq(Payload) /\ t \in Nat /\ g \in Nat /\ n \in Nat /\ given[o] \in Seq(Nat)
  BY DirectionTypes
<1>2. x \in Payload /\ x.type = "data" /\ x.value = m /\ m = n + 1 /\ m \in Nat
  BY <1>1 DEF data, Payload
<1>3. p = IF reading[e] = "on" THEN Append(q, x) ELSE q
  BY <1>2, PipeAfterPush
<1>4. (readQueue[e] \o wire[o])' = readQueue[e] \o wire[o]
  BY <1>2, PipeAfterPush
<1>5. Numbered(e, o) /\ Carried(e, o) /\ EndInPlace(e, o) /\ Settled(e, o)
  BY DEF DirectionInv
<1>6. t <= g /\ g <= n /\ (~sinkFinished[o] => g = n)
  BY <1>5 DEF Numbered
<1>7. h \in Nat /\ g <= h /\ h <= n + 1 /\ (sinkFinished[o] => h = g) /\ (~sinkFinished[o] => h = n + 1)
  <2> HIDE DEF Still
  <2> QED BY <1>1, <1>6, SMTT(40)
<1>8. given'[o] = UpTo(h)
  <2>1. CASE sinkFinished[o]
    BY <2>1, <1>5 DEF Numbered
  <2>2. CASE ~sinkFinished[o]
    BY <2>2, <1>1, <1>5, <1>6 DEF Numbered, UpTo
  <2> QED BY <2>1, <2>2
<1>9. Numbered(e, o)'
  BY <1>5, <1>6, <1>7, <1>8 DEF Numbered
<1>10. Runs(q, t) /\ Bounded(q, n) /\ (reading[e] = "on" => Reaches(q, t, n))
  BY <1>5 DEF Carried
<1>11. /\ Bounded(q, m)
       /\ RestAfterEnd(q, g) => RestAfterEnd(q, h)
       /\ ~FinishesWithin(q) => EndAfterAll(q, t, h)
  <2> HIDE DEF q, t, g, h, m, n
  <2> QED BY <1>1, <1>2, <1>7, <1>10, Weaker
<1>12. /\ p \in Seq(Payload)
       /\ Runs(p, t) /\ Bounded(p, m)
       /\ reading[e] = "on" => Reaches(p, t, m)
       /\ RestAfterEnd(q, h) /\ (reading[e] = "on" /\ m > h => FinishesWithin(q))
            => RestAfterEnd(p, h)
       /\ FinishesWithin(p) <=> FinishesWithin(q)
       /\ EndAfterAll(q, t, h) => EndAfterAll(p, t, h)
  <2>1. t <= n
    BY <1>1, <1>6
  <2> HIDE DEF q, p, t, g, h, m, n, x
  <2>2. CASE reading[e] = "on"
    <3>1. p = Append(q, x) /\ Reaches(q, t, n)
      BY <2>2, <1>3, <1>10
    <3>2. Runs(q, t) /\ Bounded(q, n) /\ h \in Nat
      BY <1>7, <1>10
    <3>3. /\ p \in Seq(Payload)
          /\ Runs(p, t) /\ Bounded(p, m) /\ Reaches(p, t, m)
          /\ FinishesWithin(p) <=> FinishesWithin(q)
      BY <3>1, <3>2, <2>1, <1>1, <1>2, DataKeeps, ZenonT(40)
    <3>4. /\ RestAfterEnd(q, h) /\ (m > h => FinishesWithin(q)) => RestAfterEnd(p, h)
          /\ EndAfterAll(q, t, h) => EndAfterAll(p, t, h)
      <4>1. /\ RestAfterEnd(q, h) /\ (x.value > h => FinishesWithin(q)) => RestAfterEnd(p, h)
            /\ EndAfterAll(q, t, h) => EndAfterAll(p, t, h)
        BY <3>1, <3>2, <1>1, <1>2, DataAndEnd
      <4> QED BY <4>1, <1>2
    <3> QED BY <3>3, <3>4, <2>2
  <2>3. CASE reading[e] # "on"
    BY <2>3, <1>1, <1>3, <1>10, <1>11
  <2> QED BY <2>2, <2>3
<1>13. Reaches(p, t, m) => Reaches(p, t, h)
  <2> HIDE DEF q, p, t, g, h, m, n
  <2> QED BY <1>1, <1>2, <1>7, <1>12, Weaker
<1>14. Carried(e, o)'
  BY <1>12, <1>13 DEF Carried
<1>15. EndInPlace(e, o)'
  BY <1>4, <1>5, <1>7, <1>11, <1>12 DEF EndInPlace
<1>16. Settled(e, o)'
  BY <1>5, <1>7 DEF Settled
<1> QED BY <1>9, <1>14, <1>15, <1>16 DEF DirectionInv

(* Where an item moves from the front of one queue to the end of the one before it,
   nothing changes. *)
LEMMA MoveHead ==
    ASSUME NEW a \in Seq(Payload), NEW b \in Seq(Payload), b # << >>
    PROVE  Append(a, Head(b)) \o Tail(b) = a \o b
<1>1. /\ Append(a, Head(b)) \o Tail(b) \in Seq(Payload) /\ a \o b \in Seq(Payload)
      /\ Len(Append(a, Head(b)) \o Tail(b)) = Len(a \o b)
  OBVIOUS
<1>2. \A i \in 1 .. Len(a \o b) : (Append(a, Head(b)) \o Tail(b))[i] = (a \o b)[i]
  OBVIOUS
<1> QED BY <1>1, <1>2, SeqEqual

LEMMA TailConcat ==
    ASSUME NEW a \in Seq(Payload), NEW b \in Seq(Payload), a # << >>
    PROVE  a \o b # << >> /\ Head(a \o b) = Head(a) /\ Tail(a \o b) = Tail(a) \o b
<1>1. /\ Tail(a \o b) \in Seq(Payload) /\ Tail(a) \o b \in Seq(Payload)
      /\ Len(Tail(a \o b)) = Len(Tail(a) \o b)
  OBVIOUS
<1>2. \A i \in 1 .. Len(Tail(a \o b)) : Tail(a \o b)[i] = (Tail(a) \o b)[i]
  OBVIOUS
<1>3. Tail(a \o b) = Tail(a) \o b
  BY <1>1, <1>2, SeqEqual
<1> QED BY <1>3

LEMMA AppendFinishes ==
    ASSUME NEW r \in Seq(Payload), NEW x \in Payload, NEW p, p = Append(r, x)
    PROVE  FinishesWithin(p) <=> FinishesWithin(r) \/ x.type = "finished"
<1>1. /\ Len(p) = Len(r) + 1 /\ Len(r) \in Nat
      /\ \A i \in 1 .. Len(r) : p[i] = r[i] /\ i \in 1 .. Len(p)
      /\ p[Len(p)] = x
      /\ \A i \in 1 .. Len(p) : i \in 1 .. Len(r) \/ i = Len(p)
  OBVIOUS
<1> QED BY <1>1 DEF FinishesWithin, Finishes

LEMMA TailFinishes ==
    ASSUME NEW r \in Seq(Payload), r # << >>, Head(r).type # "finished", FinishesWithin(r)
    PROVE  FinishesWithin(Tail(r))
<1>1. PICK j \in 1 .. Len(r) : Finishes(r, j)
  BY DEF FinishesWithin
<1>2. j # 1
  BY <1>1 DEF Finishes
<1>3. j - 1 \in 1 .. Len(Tail(r)) /\ Tail(r)[j - 1] = r[j]
  BY <1>2
<1> QED BY <1>1, <1>3 DEF FinishesWithin, Finishes

(* An end that comes after all values comes after them where it stands. *)
LEMMA EndTellsAll ==
    ASSUME NEW p \in Seq(Payload), NEW r \in Seq(Payload), NEW q, q = p \o r,
           NEW t \in Nat, NEW g \in Nat, EndAfterAll(q, t, g), FinishesWithin(p)
    PROVE  Reaches(p, t, g)
<1>1. /\ Len(q) \in Nat /\ Len(p) \in Nat
      /\ \A i \in 1 .. Len(p) : q[i] = p[i] /\ i \in 1 .. Len(q)
  OBVIOUS
<1>2. PICK i \in 1 .. Len(p) : Finishes(p, i)
  BY DEF FinishesWithin
<1>3. \A v \in t + 1 .. g : Before(q, i, v)
  BY <1>1, <1>2 DEF EndAfterAll, Finishes
<1>4. \A j \in 1 .. Len(q) : j < i => j \in 1 .. Len(p)
  BY <1>1
<1>5. ASSUME NEW v \in t + 1 .. g PROVE Within(p, v)
  <2>1. PICK j \in 1 .. Len(q) : j < i /\ IsData(q, j) /\ q[j].value = v
    BY <1>3 DEF Before
  <2>2. j \in 1 .. Len(p) /\ p[j] = q[j]
    BY <2>1, <1>1, <1>4
  <2> QED BY <2>1, <2>2 DEF Within, IsData
<1> QED BY <1>5 DEF Reaches

-----------------------------------------------------------------------------
(* writing() of o moves an item to the wire. *)
LEMMA ItemWritten ==
    ASSUME TypeOK, NEW e \in Ends, NEW o \in Ends, o = other(e), DirectionInv(e, o), write(o)
    PROVE  DirectionInv(e, o)'
<1> DEFINE x == Head(writeQueue[o])
           r == readQueue[e] \o wire[o]
<1>1. /\ writing[o] = "on" /\ writeQueue[o] # << >>
      /\ writeQueue'[o] = Tail(writeQueue[o]) /\ wire'[o] = Append(wire[o], x)
      /\ written'[o] = written[o] \cup ({x.type} \ {"data"})
      /\ writing'[o] = IF writesLast(o, x) THEN "over" ELSE writing[o]
  BY DEF write, push, TypeOK
<1>2. /\ reading'[e] = reading[e] /\ readQueue'[e] = readQueue[e]
      /\ taken'[e] = taken[e] /\ given'[o] = given[o] /\ values'[o] = values[o]
      /\ sink'[o] = sink[o] /\ sinkFinished'[o] = sinkFinished[o] /\ source'[e] = source[e]
      /\ sourceFinished'[e] = sourceFinished[e] /\ closedRead'[e] = closedRead[e]
  BY DEF write, readerVars, callerVars
<1>3. /\ readQueue[e] \in Seq(Payload) /\ wire[o] \in Seq(Payload)
      /\ writeQueue[o] \in Seq(Payload) /\ x \in Payload /\ r \in Seq(Payload)
  BY <1>1, DirectionTypes
<1>4. (readQueue[e] \o wire[o])' = Append(r, x)
  <2>1. readQueue[e] \o Append(wire[o], x) = Append(r, x)
    <3> HIDE DEF x
    <3> QED BY <1>3, ConcatAppend
  <2> QED BY <2>1, <1>1, <1>2
<1>5. Append(r, x) \o Tail(writeQueue[o]) = r \o writeQueue[o]
  BY <1>1, <1>3, MoveHead
<1>6. pipe(e)' = pipe(e)
  BY <1>1, <1>2, <1>4, <1>5 DEF pipe
<1>7. FinishesWithin((readQueue[e] \o wire[o])') <=> FinishesWithin(r) \/ x.type = "finished"
  BY <1>3, <1>4, AppendFinishes
<1>8. Numbered(e, o) /\ Carried(e, o) /\ EndInPlace(e, o) /\ Settled(e, o)
  BY DEF DirectionInv
<1>9. Numbered(e, o)' /\ Carried(e, o)'
  BY <1>2, <1>6, <1>8 DEF Numbered, Carried
<1>10. EndInPlace(e, o)'
  BY <1>1, <1>2, <1>6, <1>7, <1>8 DEF EndInPlace
<1>11. Settled(e, o)'
  BY <1>1, <1>2, <1>8 DEF Settled, writesLast
<1> QED BY <1>9, <1>10, <1>11 DEF DirectionInv

(* reading() of e ends, by itself or because the stream breaks: e has what it has. *)
LEMMA ReadingOver ==
    ASSUME TypeOK, NEW e \in Ends, NEW o \in Ends, o = other(e), DirectionInv(e, o),
           reading'[e] # "on",
           \/ readQueue'[e] = readQueue[e]
           \/ /\ readQueue'[e] = Append(readQueue[e], notice("finished"))
              /\ source[e] = "open" /\ ~closedRead[e] => FinishesWithin(readQueue[e]),
           written'[o] = written[o], writing'[o] = "over" => writing[o] = "over",
           taken'[e] = taken[e], given'[o] = given[o], values'[o] = values[o],
           sink'[o] = sink[o], sinkFinished'[o] = sinkFinished[o], source'[e] = source[e],
           sourceFinished'[e] = sourceFinished[e], closedRead'[e] = closedRead[e]
    PROVE  DirectionInv(e, o)'
<1> DEFINE q == pipe(e)
           a == readQueue[e]
           p == readQueue'[e]
           x == notice("finished")
           t == Len(taken[e])
           g == Len(given[o])
           n == values[o]
<1>1. /\ a \in Seq(Payload) /\ q \in Seq(Payload) /\ t \in Nat /\ g \in Nat /\ n \in Nat
      /\ x \in Payload /\ x.type = "finished"
  BY DirectionTypes, NoticeTyped
<1>2. pipe(e)' = p
  BY DEF pipe
<1>3. Numbered(e, o) /\ Carried(e, o) /\ EndInPlace(e, o) /\ Settled(e, o)
  BY DEF DirectionInv
<1>4. PICK z \in Seq(Payload) : q = a \o z
  <2>1. /\ a \in Seq(Payload) /\ wire[o] \in Seq(Payload) /\ writeQueue[o] \in Seq(Payload)
    BY DirectionTypes
  <2>2. q = IF reading[e] = "on" THEN (a \o wire[o]) \o writeQueue[o] ELSE a
    BY DEF pipe
  <2> HIDE DEF q, a
  <2>3. /\ (a \o wire[o]) \o writeQueue[o] = a \o (wire[o] \o writeQueue[o])
        /\ wire[o] \o writeQueue[o] \in Seq(Payload)
    BY <2>1, ConcatTwice
  <2>4. a = a \o << >> /\ << >> \in Seq(Payload)
    BY <2>1, ConcatEmptySeq
  <2> QED BY <2>2, <2>3, <2>4
<1>5. /\ Runs(q, t) => Runs(a, t)
      /\ Bounded(q, n) => Bounded(a, n)
      /\ RestAfterEnd(q, g) => RestAfterEnd(a, g)
      /\ EndAfterAll(q, t, g) => EndAfterAll(a, t, g)
      /\ FinishesWithin(a) => FinishesWithin(q)
      /\ EndAfterAll(q, t, g) /\ FinishesWithin(a) => Reaches(a, t, g)
  <2> HIDE DEF q, a, t, g, n
  <2>1. EndAfterAll(q, t, g) /\ FinishesWithin(a) => Reaches(a, t, g)
    BY <1>1, <1>4, EndTellsAll
  <2> QED BY <2>1, <1>1, <1>4, CutKeeps
<1>6. CASE p = a
  <2>1. Numbered(e, o)' /\ Carried(e, o)'
    BY <1>2, <1>3, <1>5, <1>6 DEF Numbered, Carried
  <2>2. EndInPlace(e, o)'
    BY <1>2, <1>3, <1>5, <1>6 DEF EndInPlace
  <2>3. Settled(e, o)'
    BY <1>3, <1>6 DEF Settled
  <2> QED BY <2>1, <2>2, <2>3 DEF DirectionInv
<1>7. CASE /\ p = Append(a, x)
           /\ source[e] = "open" /\ ~closedRead[e] => FinishesWithin(a)
  <2>1. /\ Runs(a, t) => Runs(p, t)
        /\ Bounded(a, n) => Bounded(p, n)
        /\ RestAfterEnd(a, g) => RestAfterEnd(p, g)
        /\ EndAfterAll(a, t, g) /\ Reaches(a, t, g) => EndAfterAll(p, t, g)
    <3> HIDE DEF q, a, p, t, g, n, x
    <3> QED BY <1>1, <1>7, NoticeKeeps
  <2>2. Numbered(e, o)' /\ Carried(e, o)'
    BY <1>2, <1>3, <1>5, <2>1 DEF Numbered, Carried
  <2>3. EndInPlace(e, o)'
    BY <1>2, <1>3, <1>5, <1>7, <2>1 DEF EndInPlace
  <2>4. \A i \in 1 .. Len(p) : p[i].type # "close"
    BY <1>1, <1>3, <1>7 DEF Settled
  <2>5. Settled(e, o)'
    BY <1>3, <2>4 DEF Settled
  <2> QED BY <2>2, <2>3, <2>5 DEF DirectionInv
<1> QED BY <1>6, <1>7

(* reading() of e takes a message from the wire: it waits for source, or it is a
   "close", which nobody reads, or it is the last. *)
LEMMA Received ==
    ASSUME TypeOK, NEW e \in Ends, NEW o \in Ends, o = other(e), DirectionInv(e, o), receive(e)
    PROVE  DirectionInv(e, o)'
<1> DEFINE x == Head(wire[o])
           a == readQueue[e]
           b == Tail(wire[o])
           c == writeQueue[o]
           q == pipe(e)
           p == pipe(e)'
           t == Len(taken[e])
           g == Len(given[o])
           n == values[o]
<1>1. /\ reading[e] = "on" /\ wire[o] # << >> /\ wire'[o] = b
      /\ writeQueue'[o] = c /\ written'[o] = written[o] /\ writing'[o] = writing[o]
      /\ IF sourceFinished[e] THEN readingEnds(e) ELSE handle(e, x)
      /\ taken'[e] = taken[e] /\ given'[o] = given[o] /\ values'[o] = values[o]
      /\ sink'[o] = sink[o] /\ sinkFinished'[o] = sinkFinished[o] /\ source'[e] = source[e]
      /\ sourceFinished'[e] = sourceFinished[e] /\ closedRead'[e] = closedRead[e]
  BY DEF receive, callerVars, TypeOK
<1>2. /\ a \in Seq(Payload) /\ wire[o] \in Seq(Payload) /\ c \in Seq(Payload)
      /\ q \in Seq(Payload) /\ t \in Nat /\ g \in Nat /\ n \in Nat
  BY DirectionTypes
<1>3. x \in Payload /\ b \in Seq(Payload)
  BY <1>1, <1>2
<1>4. Numbered(e, o) /\ Carried(e, o) /\ EndInPlace(e, o) /\ Settled(e, o)
  BY DEF DirectionInv
<1>5. Append(a, x) \o b = a \o wire[o]
  BY <1>1, <1>2, MoveHead
<1>6. q = (Append(a, x) \o b) \o c
  BY <1>1, <1>5 DEF pipe
<1>7. CASE sourceFinished[e]
  <2>1. reading'[e] = "over" /\ readQueue'[e] = Append(a, notice("finished"))
    BY <1>1, <1>7 DEF readingEnds, push, TypeOK
  <2>2. ~(source[e] = "open" /\ ~closedRead[e])
    BY <1>4, <1>7 DEF Settled
  <2>3. reading'[e] # "on"
    BY <2>1
  <2> QED BY <2>1, <2>2, <2>3, <1>1, ReadingOver
<1>8. CASE ~sourceFinished[e] /\ x.type # "close"
  <2>1. reading'[e] = "on" /\ readQueue'[e] = Append(a, x)
    BY <1>1, <1>8 DEF handle, push, TypeOK
  <2>2. (readQueue[e] \o wire[o])' = readQueue[e] \o wire[o]
    BY <2>1, <1>1, <1>5
  <2>3. pipe(e)' = pipe(e)
    BY <2>1, <2>2, <1>1 DEF pipe
  <2>4. Numbered(e, o)' /\ Carried(e, o)'
    BY <2>1, <2>3, <1>1, <1>4 DEF Numbered, Carried
  <2>5. EndInPlace(e, o)'
    BY <2>1, <2>2, <2>3, <1>1, <1>4 DEF EndInPlace
  <2>6. \A i \in 1 .. Len(readQueue'[e]) : readQueue'[e][i].type # "close"
    BY <2>1, <1>2, <1>3, <1>4, <1>8 DEF Settled
  <2>7. Settled(e, o)'
    BY <2>6, <1>1, <1>4 DEF Settled
  <2> QED BY <2>4, <2>5, <2>7 DEF DirectionInv
<1>9. CASE ~sourceFinished[e] /\ x.type = "close"
  <2>1. reading'[e] = "on" /\ readQueue'[e] = a
    BY <1>1, <1>9 DEF handle
  <2>2. p = (a \o b) \o c
    BY <2>1, <1>1 DEF pipe
  <2>3. /\ Runs(q, t) => Runs(p, t)
        /\ Bounded(q, n) => Bounded(p, n)
        /\ RestAfterEnd(q, g) => RestAfterEnd(p, g)
        /\ EndAfterAll(q, t, g) => EndAfterAll(p, t, g)
        /\ Reaches(q, t, n) => Reaches(p, t, n)
        /\ Reaches(q, t, g) => Reaches(p, t, g)
        /\ FinishesWithin(p) <=> FinishesWithin(q)
    <3>1. Append(a, x) \in Seq(Payload)
      BY <1>2, <1>3
    <3> HIDE DEF x, a, b, c, q, p, t, g, n
    <3>2. q = Append(a, x) \o (b \o c)
      BY <3>1, <1>2, <1>3, <1>6, ConcatTwice, SMTT(40)
    <3>3. p = a \o (b \o c) /\ b \o c \in Seq(Payload)
      BY <2>2, <1>2, <1>3, ConcatTwice, SMTT(40)
    <3>4. x.type = "close"
      BY <1>9
    <3>5. PICK z \in Seq(Payload) : q = Append(a, x) \o z /\ p = a \o z
      BY <3>2, <3>3
    <3>6. ASSUME NEW m \in Nat
          PROVE  /\ Runs(q, t) => Runs(p, t)
                 /\ Bounded(q, m) => Bounded(p, m)
                 /\ RestAfterEnd(q, g) => RestAfterEnd(p, g)
                 /\ EndAfterAll(q, t, g) => EndAfterAll(p, t, g)
                 /\ Reaches(q, t, m) => Reaches(p, t, m)
                 /\ FinishesWithin(p) <=> FinishesWithin(q)
      <4>1. a \in Seq(Payload) /\ t \in Nat /\ g \in Nat
        BY <1>2
      <4> QED BY <4>1, <3>4, <3>5, <1>3, DropCloseKeeps, ZenonT(40)
    <3> QED BY <3>6, <1>2
  <2>4. FinishesWithin((readQueue[e] \o wire[o])') <=> FinishesWithin(readQueue[e] \o wire[o])
    <3>1. (readQueue[e] \o wire[o])' = a \o b
      BY <2>1, <1>1
    <3>2. x.type = "close"
      BY <1>9
    <3>3. FinishesWithin(a \o b) <=> FinishesWithin(Append(a, x) \o b)
      <4> HIDE DEF x, a, b, t, g, n
      <4> QED BY <3>2, <1>2, <1>3, DropCloseKeeps
    <3> QED BY <3>1, <3>3, <1>5
  <2>5. Numbered(e, o)' /\ Carried(e, o)'
    BY <2>1, <2>3, <1>1, <1>4 DEF Numbered, Carried
  <2>6. EndInPlace(e, o)'
    BY <2>1, <2>3, <2>4, <1>1, <1>4 DEF EndInPlace
  <2>7. Settled(e, o)'
    BY <2>1, <1>1, <1>4 DEF Settled
  <2> QED BY <2>5, <2>6, <2>7 DEF DirectionInv
<1> QED BY <1>7, <1>8, <1>9

(* The stream below ends for e: its end is the end of what o has to say. *)
LEMMA StreamEnded ==
    ASSUME TypeOK, NEW e \in Ends, NEW o \in Ends, o = other(e), DirectionInv(e, o), receiveEnd(e)
    PROVE  DirectionInv(e, o)'
<1>1. /\ reading[e] = "on" /\ wire[o] = << >> /\ writing[o] = "over"
      /\ reading'[e] = "over" /\ readQueue'[e] = Append(readQueue[e], notice("finished"))
      /\ written'[o] = written[o] /\ writing'[o] = writing[o]
      /\ taken'[e] = taken[e] /\ given'[o] = given[o] /\ values'[o] = values[o]
      /\ sink'[o] = sink[o] /\ sinkFinished'[o] = sinkFinished[o] /\ source'[e] = source[e]
      /\ sourceFinished'[e] = sourceFinished[e] /\ closedRead'[e] = closedRead[e]
  BY DEF receiveEnd, readingEnds, push, writerVars, callerVars, TypeOK
<1>2. source[e] = "open" /\ ~closedRead[e] => FinishesWithin(readQueue[e])
  <2>1. readQueue[e] \o << >> = readQueue[e]
    <3>1. readQueue[e] \in Seq(Payload)
      BY DirectionTypes
    <3> QED BY <3>1
  <2> QED BY <2>1, <1>1 DEF DirectionInv, Settled, EndInPlace
<1>3. reading'[e] # "on"
  BY <1>1
<1> QED BY <1>1, <1>2, <1>3, ReadingOver

(* source of e hands on an item, or ends. *)
LEMMA ItemTaken ==
    ASSUME TypeOK, NEW e \in Ends, NEW o \in Ends, o = other(e), DirectionInv(e, o), next(e)
    PROVE  DirectionInv(e, o)'
<1> DEFINE a == readQueue[e]
           r == a \o wire[o]
           x == Head(a)
           q == pipe(e)
           p == pipe(e)'
           t == Len(taken[e])
           g == Len(given[o])
           n == values[o]
           u == IF x.type = "data" THEN t + 1 ELSE t
<1>1. /\ source[e] = "open" /\ a # << >> /\ readQueue'[e] = Tail(a)
      /\ writeQueue'[o] = writeQueue[o]
      /\ IF x.type = "data"
         THEN /\ taken'[e] = Append(taken[e], x.value)
              /\ source'[e] = source[e] /\ sourceFinished'[e] = sourceFinished[e]
         ELSE taken'[e] = taken[e] /\ source'[e] = "done" /\ sourceFinished'[e]
      /\ wire'[o] = wire[o] /\ written'[o] = written[o] /\ writing'[o] = writing[o]
      /\ reading'[e] = reading[e] /\ given'[o] = given[o] /\ values'[o] = values[o]
      /\ sink'[o] = sink[o] /\ sinkFinished'[o] = sinkFinished[o]
      /\ closedRead'[e] = closedRead[e]
  <2>1. o # e
    BY OtherEnd
  <2>2. writeQueue'[o] = writeQueue[o]
    BY <2>1 DEF next, push, TypeOK
  <2>3. x.type = "data" => taken'[e] = Append(taken[e], x.value)
    BY DEF next, TypeOK
  <2>4. x.type # "data" => source'[e] = "done" /\ sourceFinished'[e]
    BY DEF next, TypeOK
  <2>5. readQueue'[e] = Tail(a)
    BY DEF next, TypeOK
  <2> QED BY <2>2, <2>3, <2>4, <2>5 DEF next
<1>2. /\ a \in Seq(Payload) /\ wire[o] \in Seq(Payload) /\ writeQueue[o] \in Seq(Payload)
      /\ q \in Seq(Payload) /\ r \in Seq(Payload) /\ taken[e] \in Seq(Nat)
      /\ t \in Nat /\ g \in Nat /\ n \in Nat
  BY DirectionTypes
<1>3. /\ Numbered(e, o) /\ Carried(e, o) /\ EndInPlace(e, o) /\ Settled(e, o)
      /\ Runs(q, t) /\ Bounded(q, n) /\ RestAfterEnd(q, g) /\ t <= g
      /\ reading[e] = "on" => Reaches(q, t, g)
      /\ reading[e] = "on" /\ sink[o] = "open" => Reaches(q, t, n)
  BY <1>1 DEF DirectionInv, Numbered, Carried, EndInPlace
<1>4. /\ (readQueue[e] \o wire[o])' = Tail(r) /\ r # << >> /\ Head(r) = x
      /\ q # << >> /\ Head(q) = x /\ p = Tail(q)
  <2>1. Tail(a) \o wire[o] = Tail(r) /\ r # << >> /\ Head(r) = x
    BY <1>1, <1>2, TailConcat
  <2>2. Tail(r) \o writeQueue[o] = Tail(r \o writeQueue[o])
        /\ r \o writeQueue[o] # << >> /\ Head(r \o writeQueue[o]) = x
    <3> HIDE DEF r
    <3> QED BY <2>1, <1>2, TailConcat
  <2>3. q = IF reading[e] = "on" THEN r \o writeQueue[o] ELSE a
    BY DEF pipe
  <2>4. p = IF reading[e] = "on" THEN Tail(r) \o writeQueue[o] ELSE Tail(a)
    BY <1>1, <2>1 DEF pipe
  <2> QED BY <2>1, <2>2, <2>3, <2>4, <1>1
<1>5. /\ x \in Payload /\ p \in Seq(Payload)
      /\ x.type = "data" => x.value = t + 1
      /\ Runs(p, u) /\ Bounded(p, n)
      /\ RestAfterEnd(q, g) /\ x.type = "data" => t + 1 <= g /\ RestAfterEnd(p, g)
      /\ EndAfterAll(q, t, g) => EndAfterAll(p, u, g)
      /\ EndAfterAll(q, t, g) /\ x.type = "finished" => g <= t
      /\ FinishesWithin(p) => FinishesWithin(q)
      /\ FinishesWithin(q) => x.type = "finished" \/ FinishesWithin(p)
      /\ Reaches(q, t, g) => Reaches(p, u, g)
      /\ Reaches(q, t, n) => Reaches(p, u, n)
  <2> DEFINE v == t + 1
  <2>1. /\ v \in Nat /\ v = t + 1 /\ u \in Nat
        /\ x.type = "data" => u = v
        /\ x.type # "data" => u = t
    BY <1>2
  <2> HIDE DEF a, r, x, q, p, t, g, n, u, v
  <2>2. /\ q \in Seq(Payload) /\ q # << >> /\ t \in Nat /\ n \in Nat
        /\ x = Head(q) /\ p = rest(q) /\ Runs(q, t) /\ Bounded(q, n)
    BY <1>2, <1>3, <1>4 DEF rest
  <2>3. ASSUME NEW m \in Nat
        PROVE  /\ x \in Payload /\ p \in Seq(Payload)
               /\ x.type = "data" => x.value = v
               /\ Runs(p, u) /\ Bounded(p, n)
               /\ Reaches(q, t, m) => Reaches(p, u, m)
               /\ RestAfterEnd(q, m) /\ x.type = "data" => v <= m /\ RestAfterEnd(p, m)
               /\ EndAfterAll(q, t, m) => EndAfterAll(p, u, m)
               /\ EndAfterAll(q, t, m) /\ x.type = "finished" => m <= t
               /\ FinishesWithin(p) => FinishesWithin(q)
               /\ FinishesWithin(q) => x.type = "finished" \/ FinishesWithin(p)
    BY <2>1, <2>2, TakeKeeps, SMTT(40)
  <2> QED BY <2>1, <2>3, <1>2
<1>6. CASE x.type = "data"
  <2>1. u = t + 1 /\ Len(taken'[e]) = t + 1 /\ taken'[e] = UpTo(t + 1)
    <3>1. taken[e] = UpTo(t) /\ taken'[e] = Append(taken[e], t + 1)
      BY <1>1, <1>3, <1>5, <1>6 DEF Numbered
    <3> QED BY <3>1, <1>2, <1>6 DEF UpTo
  <2>2. Numbered(e, o)'
    BY <2>1, <1>1, <1>2, <1>3, <1>5, <1>6 DEF Numbered
  <2>3. Carried(e, o)'
    BY <2>1, <1>1, <1>3, <1>5 DEF Carried
  <2>4. FinishesWithin(r) => FinishesWithin((readQueue[e] \o wire[o])')
    <3>1. Head(r).type # "finished"
      BY <1>4, <1>6
    <3> HIDE DEF r
    <3> QED BY <3>1, <1>2, <1>4, TailFinishes
  <2>5. EndInPlace(e, o)'
    BY <2>1, <2>4, <1>1, <1>3, <1>5, <1>6 DEF EndInPlace
  <2>6. \A i \in 1 .. Len(Tail(a)) : Tail(a)[i].type # "close"
    BY <1>1, <1>2, <1>3 DEF Settled
  <2>7. Settled(e, o)'
    BY <2>6, <1>1, <1>3, <1>6 DEF Settled
  <2> QED BY <2>2, <2>3, <2>5, <2>7 DEF DirectionInv
<1>7. CASE x.type # "data"
  <2>1. u = t /\ taken'[e] = taken[e] /\ source'[e] = "done" /\ sourceFinished'[e]
    BY <1>1, <1>7
  <2>2. x.type = "finished"
    <3>1. x.type # "close"
      BY <1>1, <1>2, <1>3 DEF Settled
    <3> QED BY <3>1, <1>5, <1>7 DEF Payload
  <2>3. FinishesWithin(q)
    <3>1. 1 \in 1 .. Len(q) /\ q[1] = x
      <4> HIDE DEF q, x
      <4> QED BY <1>2, <1>4
    <3> HIDE DEF q, x
    <3> QED BY <3>1, <2>2 DEF FinishesWithin, Finishes
  <2>4. ~closedRead[e] => sinkFinished[o] /\ t = g
    BY <2>2, <2>3, <1>1, <1>2, <1>3, <1>5 DEF EndInPlace
  <2>5. Numbered(e, o)' /\ Carried(e, o)' /\ EndInPlace(e, o)'
    BY <2>1, <1>1, <1>3, <1>5 DEF Numbered, Carried, EndInPlace
  <2>6. \A i \in 1 .. Len(Tail(a)) : Tail(a)[i].type # "close"
    BY <1>1, <1>2, <1>3 DEF Settled
  <2>7. Settled(e, o)'
    BY <2>1, <2>4, <2>6, <1>1, <1>3 DEF Settled
  <2> QED BY <2>5, <2>7 DEF DirectionInv
<1> QED BY <1>6, <1>7

(* e calls closeRead: what it may read stays, but the end of it means nothing more. *)
LEMMA ReadClosed ==
    ASSUME TypeOK, NEW e \in Ends, NEW o \in Ends, o = other(e), DirectionInv(e, o), closeRead(e)
    PROVE  DirectionInv(e, o)'
<1>1. o # e
  BY OtherEnd
<1>2. writeQueue'[o] = writeQueue[o]
  BY <1>1 DEF closeRead, push, TypeOK
<1>3. closedRead'[e] /\ sourceFinished'[e]
  BY DEF closeRead, TypeOK
<1>4. /\ reading' = reading /\ readQueue' = readQueue /\ wire' = wire
      /\ written' = written /\ writing' = writing /\ taken' = taken /\ given' = given
      /\ values' = values /\ sink' = sink /\ sinkFinished' = sinkFinished /\ source' = source
  BY DEF closeRead, readerVars
<1>5. pipe(e)' = pipe(e)
  BY <1>2, <1>4 DEF pipe
<1>6. Numbered(e, o)' /\ Carried(e, o)'
  BY <1>4, <1>5 DEF DirectionInv, Numbered, Carried
<1>7. EndInPlace(e, o)'
  BY <1>3, <1>4, <1>5 DEF DirectionInv, EndInPlace
<1>8. Settled(e, o)'
  BY <1>3, <1>4 DEF DirectionInv, Settled
<1> QED BY <1>6, <1>7, <1>8 DEF DirectionInv


(* The step of an end, as the direction to it sees it. *)
LEMMA ReaderStep ==
    ASSUME TypeOK, NEW e \in Ends, NEW o \in Ends, o = other(e), DirectionInv(e, o),
           \/ write(e) \/ receive(e) \/ receiveEnd(e)
           \/ iterate(e) \/ next(e) \/ leave(e) \/ closeRead(e) \/ closeWrite(e)
    PROVE  DirectionInv(e, o)'
<1>1. o # e
  BY OtherEnd
<1>2. CASE write(e)
  <2>1. /\ writeQueue'[o] = writeQueue[o] /\ wire'[o] = wire[o]
        /\ written'[o] = written[o] /\ writing'[o] = writing[o]
    BY <1>1, <1>2 DEF write, push, TypeOK
  <2>2. Still(e, o)
    BY <1>2, <2>1 DEF write, readerVars, callerVars, Still
  <2>3. /\ given'[o] = given[o] /\ values'[o] = values[o] /\ sink'[o] = sink[o]
        /\ sinkFinished'[o] = sinkFinished[o] /\ source'[e] = source[e]
    BY <1>2 DEF write, callerVars
  <2> QED BY <2>1, <2>2, <2>3, UntouchedDirection
<1>3. CASE receive(e)
  BY <1>3, Received
<1>4. CASE receiveEnd(e)
  BY <1>4, StreamEnded
<1>5. CASE iterate(e)
  <2>1. writeQueue'[o] = writeQueue[o] /\ sink'[o] = sink[o] /\ sinkFinished'[o] = sinkFinished[o]
    BY <1>1, <1>5 DEF iterate, sinkEnds, sinkSends, push, TypeOK
  <2>2. given'[o] = given[o] /\ values'[o] = values[o]
    BY <1>1, <1>5 DEF iterate, sinkEnds, sinkSends, TypeOK
  <2>3. Still(e, o) /\ source'[e] = source[e]
    BY <1>5 DEF iterate, readerVars, Still
  <2> QED BY <2>1, <2>2, <2>3, UntouchedDirection
<1>6. CASE next(e)
  BY <1>6, ItemTaken
<1>7. CASE leave(e)
  <2>1. source[e] = "open" /\ source'[e] = "left"
    BY <1>7 DEF leave, TypeOK
  <2>2. Still(e, o) /\ writeQueue'[o] = writeQueue[o]
    BY <1>7 DEF leave, writerVars, readerVars, Still
  <2>3. /\ given'[o] = given[o] /\ values'[o] = values[o] /\ sink'[o] = sink[o]
        /\ sinkFinished'[o] = sinkFinished[o]
    BY <1>7 DEF leave
  <2> QED BY <2>1, <2>2, <2>3, UntouchedDirection
<1>8. CASE closeRead(e)
  BY <1>8, ReadClosed
<1>9. CASE closeWrite(e)
  <2>1. writeQueue'[o] = writeQueue[o]
    BY <1>1, <1>9 DEF closeWrite, push, TypeOK
  <2>2. sinkFinished'[o] = sinkFinished[o]
    BY <1>1, <1>9 DEF closeWrite, TypeOK
  <2>3. /\ Still(e, o) /\ given'[o] = given[o] /\ values'[o] = values[o]
        /\ sink'[o] = sink[o] /\ source'[e] = source[e]
    BY <1>9 DEF closeWrite, readerVars, Still
  <2> QED BY <2>1, <2>2, <2>3, UntouchedDirection
<1> QED BY <1>2, <1>3, <1>4, <1>5, <1>6, <1>7, <1>8, <1>9

(* The step of an end, as the direction from it sees it. *)
LEMMA WriterStep ==
    ASSUME TypeOK, TypeOK', NEW e \in Ends, NEW o \in Ends, o = other(e), DirectionInv(e, o),
           \/ write(o) \/ receive(o) \/ receiveEnd(o)
           \/ iterate(o) \/ next(o) \/ leave(o) \/ closeRead(o) \/ closeWrite(o)
    PROVE  DirectionInv(e, o)'
<1>1. o # e /\ other(o) = e
  BY OtherEnd
<1>2. CASE write(o)
  BY <1>2, ItemWritten
<1>3. CASE receive(o)
  <2>1. wire'[o] = wire[o]
    BY <1>1, <1>3 DEF receive, TypeOK
  <2>2. reading'[e] = reading[e] /\ readQueue'[e] = readQueue[e]
    <3>1. readingEnds(o) \/ handle(o, Head(wire[e]))
      BY <1>1, <1>3 DEF receive
    <3>2. CASE readingEnds(o)
      BY <1>1, <3>2 DEF readingEnds, push, TypeOK
    <3>3. CASE handle(o, Head(wire[e]))
      BY <1>1, <3>3 DEF handle, push, TypeOK
    <3> QED BY <3>1, <3>2, <3>3
  <2>3. Still(e, o)
    BY <1>3, <2>1, <2>2 DEF receive, callerVars, Still
  <2>4. /\ writeQueue'[o] = writeQueue[o] /\ given'[o] = given[o] /\ values'[o] = values[o]
        /\ sink'[o] = sink[o] /\ sinkFinished'[o] = sinkFinished[o] /\ source'[e] = source[e]
    BY <1>3 DEF receive, callerVars
  <2> QED BY <2>3, <2>4, UntouchedDirection
<1>4. CASE receiveEnd(o)
  <2>1. reading'[e] = reading[e] /\ readQueue'[e] = readQueue[e]
    BY <1>1, <1>4 DEF receiveEnd, readingEnds, push, TypeOK
  <2>2. Still(e, o)
    BY <1>4, <2>1 DEF receiveEnd, writerVars, callerVars, Still
  <2>3. /\ writeQueue'[o] = writeQueue[o] /\ given'[o] = given[o] /\ values'[o] = values[o]
        /\ sink'[o] = sink[o] /\ sinkFinished'[o] = sinkFinished[o] /\ source'[e] = source[e]
    BY <1>4 DEF receiveEnd, writerVars, callerVars
  <2> QED BY <2>2, <2>3, UntouchedDirection
<1>5. CASE iterate(o)
  <2>1. Still(e, o) /\ source'[e] = source[e]
    BY <1>5 DEF iterate, readerVars, Still
  <2>2. values[o] \in Nat /\ sink[o] = "open"
    BY <1>5, DirectionTypes DEF iterate
  <2>3. values'[o] = values[o] \/ values'[o] = values[o] + 1
    BY <1>5 DEF iterate, TypeOK
  <2>4. CASE sinkEnds(o)
    <3>1. /\ writeQueue'[o] = Append(writeQueue[o], notice("finished"))
          /\ sinkFinished'[o] /\ sink'[o] = "over" /\ given'[o] = given[o]
      BY <2>4 DEF sinkEnds, push, TypeOK
    <3>2. values[o] <= values'[o]
      BY <2>2, <2>3
    <3> QED BY <2>1, <3>1, <3>2, NoticeTyped, NoticeSent
  <2>5. CASE ~sinkEnds(o)
    <3>1. values'[o] = values[o] + 1 /\ sinkSends(o, values[o] + 1)
      BY <1>5, <2>5 DEF iterate, TypeOK
    <3>2. writeQueue'[o] = Append(writeQueue[o], data(values[o] + 1))
      BY <3>1 DEF sinkSends, push, TypeOK
    <3>3. given'[o] = IF sinkFinished[o] THEN given[o] ELSE Append(given[o], values[o] + 1)
      BY <3>1 DEF sinkSends, TypeOK
    <3>4. sink'[o] = "open" /\ sinkFinished'[o] = sinkFinished[o]
      BY <2>2, <3>1 DEF sinkSends
    <3> QED BY <2>1, <2>2, <3>1, <3>2, <3>3, <3>4, ValueSent
  <2> QED BY <2>4, <2>5
<1>6. CASE next(o)
  <2>1. readQueue'[e] = readQueue[e]
    BY <1>1, <1>6 DEF next, TypeOK
  <2>2. taken'[e] = taken[e]
    BY <1>1, <1>6, SMTT(40) DEF next, TypeOK
  <2>3. source'[e] = source[e]
    BY <1>1, <1>6, SMTT(40) DEF next, TypeOK
  <2>4. sourceFinished'[e] = sourceFinished[e]
    BY <1>1, <1>6, SMTT(40) DEF next, TypeOK
  <2>5. Still(e, o)
    BY <1>6, <2>1, <2>2, <2>4 DEF next, Still
  <2>6. /\ given'[o] = given[o] /\ values'[o] = values[o]
        /\ sink'[o] = sink[o] /\ sinkFinished'[o] = sinkFinished[o]
    BY <1>6 DEF next
  <2>7. CASE Head(readQueue[o]).type = "data"
    <3>1. writeQueue'[o] = writeQueue[o]
      BY <1>6, <2>7 DEF next
    <3> QED BY <3>1, <2>3, <2>5, <2>6, UntouchedDirection
  <2>8. CASE Head(readQueue[o]).type # "data"
    <3>1. writeQueue'[o] = Append(writeQueue[o], notice("close"))
      BY <1>6, <2>8 DEF next, push, TypeOK
    <3> QED BY <3>1, <2>3, <2>5, <2>6, NoticeTyped, NoticeSent
  <2> QED BY <2>7, <2>8
<1>7. CASE leave(o)
  <2>1. source'[e] = source[e]
    BY <1>1, <1>7 DEF leave, TypeOK
  <2>2. Still(e, o) /\ writeQueue'[o] = writeQueue[o]
    BY <1>7 DEF leave, writerVars, readerVars, Still
  <2>3. /\ given'[o] = given[o] /\ values'[o] = values[o] /\ sink'[o] = sink[o]
        /\ sinkFinished'[o] = sinkFinished[o]
    BY <1>7 DEF leave
  <2> QED BY <2>1, <2>2, <2>3, UntouchedDirection
<1>8. CASE closeRead(o)
  <2>1. closedRead'[e] = closedRead[e]
    <3>1. closedRead' = [closedRead EXCEPT ![o] = TRUE] /\ closedRead \in [Ends -> BOOLEAN]
      BY <1>8 DEF closeRead, TypeOK
    <3> QED BY <1>1, <3>1, Zenon
  <2>2. sourceFinished'[e] = sourceFinished[e]
    <3>1. /\ sourceFinished' = [sourceFinished EXCEPT ![o] = TRUE]
          /\ sourceFinished \in [Ends -> BOOLEAN]
      BY <1>8 DEF closeRead, TypeOK
    <3> QED BY <1>1, <3>1, Zenon
  <2>3. writeQueue'[o] = Append(writeQueue[o], notice("close"))
    BY <1>8 DEF closeRead, push, TypeOK
  <2>4. /\ Still(e, o) /\ given'[o] = given[o] /\ values'[o] = values[o]
        /\ sink'[o] = sink[o] /\ sinkFinished'[o] = sinkFinished[o] /\ source'[e] = source[e]
    BY <1>8, <2>1, <2>2 DEF closeRead, readerVars, Still
  <2> QED BY <2>3, <2>4, NoticeTyped, NoticeSent
<1>9. CASE closeWrite(o)
  <2>1. writeQueue'[o] = Append(writeQueue[o], notice("finished"))
    BY <1>9 DEF closeWrite, push, TypeOK
  <2>2. sinkFinished'[o]
    BY <1>9 DEF closeWrite, TypeOK
  <2>3. /\ Still(e, o) /\ given'[o] = given[o] /\ values'[o] = values[o]
        /\ sink'[o] = sink[o] /\ source'[e] = source[e]
    BY <1>9 DEF closeWrite, readerVars, Still
  <2> QED BY <2>1, <2>2, <2>3, NoticeTyped, NoticeSent
<1> QED BY <1>2, <1>3, <1>4, <1>5, <1>6, <1>7, <1>8, <1>9

LEMMA StreamBreaks ==
    ASSUME TypeOK, NEW e \in Ends, NEW o \in Ends, o = other(e), DirectionInv(e, o), breaks
    PROVE  DirectionInv(e, o)'
<1>1. /\ writing' = [x \in Ends |-> IF writing[x] = "on" THEN "broken" ELSE writing[x]]
      /\ reading' = [x \in Ends |-> IF reading[x] = "on" THEN "broken" ELSE reading[x]]
      /\ UNCHANGED <<writeQueue, written, readQueue, remoteClosed, callerVars>>
  BY DEF breaks
<1>2. reading'[e] # "on" /\ (writing'[o] = "over" => writing[o] = "over")
  BY <1>1
<1>3. /\ readQueue'[e] = readQueue[e] /\ written'[o] = written[o]
      /\ taken'[e] = taken[e] /\ given'[o] = given[o] /\ values'[o] = values[o]
      /\ sink'[o] = sink[o] /\ sinkFinished'[o] = sinkFinished[o] /\ source'[e] = source[e]
      /\ sourceFinished'[e] = sourceFinished[e] /\ closedRead'[e] = closedRead[e]
  BY <1>1 DEF callerVars
<1> QED BY <1>2, <1>3, ReadingOver

LEMMA StreamStart == Init => StreamInv
<1> SUFFICES ASSUME Init PROVE StreamInv
  OBVIOUS
<1>1. ASSUME NEW e \in Ends, NEW o \in Ends, o = other(e) PROVE DirectionInv(e, o)
  <2>1. /\ readQueue[e] = << >> /\ wire[o] = << >> /\ writeQueue[o] = << >>
        /\ reading[e] = "on" /\ writing[o] = "on" /\ written[o] = {}
        /\ ~sourceFinished[e] /\ ~sinkFinished[o] /\ source[e] = "open" /\ sink[o] = "open"
        /\ ~closedRead[e] /\ given[o] = << >> /\ values[o] = 0 /\ taken[e] = << >>
    BY <1>1 DEF Init
  <2>2. Numbered(e, o)
    BY <2>1 DEF Numbered, UpTo
  <2>3. /\ Runs(<< >>, 0) /\ Bounded(<< >>, 0) /\ Reaches(<< >>, 0, 0) /\ RestAfterEnd(<< >>, 0)
        /\ EndAfterAll(<< >>, 0, 0) /\ ~FinishesWithin(<< >>)
    BY DEF Runs, Bounded, Reaches, RestAfterEnd, EndAfterAll, FinishesWithin
  <2>4. readQueue[e] \o wire[o] = << >> /\ Len(taken[e]) = 0 /\ Len(given[o]) = 0
    BY <2>1
  <2>5. pipe(e) = << >>
    BY <1>1, <2>1, <2>4 DEF pipe
  <2>6. Carried(e, o) /\ EndInPlace(e, o)
    BY <2>1, <2>3, <2>4, <2>5 DEF Carried, EndInPlace
  <2>7. Settled(e, o)
    BY <2>1 DEF Settled
  <2> QED BY <2>2, <2>6, <2>7 DEF DirectionInv
<1> QED BY <1>1, TypeStart, OtherEnd DEF StreamInv

LEMMA StreamStep == StreamInv /\ [Next]_vars => StreamInv'
<1> SUFFICES ASSUME StreamInv, [Next]_vars PROVE StreamInv'
  OBVIOUS
<1>1. TypeOK /\ TypeOK'
  BY TypeStep DEF StreamInv
<1>2. ASSUME NEW e \in Ends, NEW o \in Ends, o = other(e) PROVE DirectionInv(e, o)'
  <2>1. \A x \in Ends : x = e \/ x = o
    BY <1>2, OtherEnd
  <2>2. DirectionInv(e, o)
    BY <1>2 DEF StreamInv
  <2>3. ASSUME NEW x \in Ends,
               \/ write(x) \/ receive(x) \/ receiveEnd(x)
               \/ iterate(x) \/ next(x) \/ leave(x) \/ closeRead(x) \/ closeWrite(x)
        PROVE  DirectionInv(e, o)'
    <3>1. CASE x = e
      BY <1>1, <1>2, <2>1, <2>2, <2>3, <3>1, ReaderStep
    <3>2. CASE x = o
      BY <1>1, <1>2, <2>1, <2>2, <2>3, <3>2, WriterStep
    <3> QED BY <2>1, <3>1, <3>2
  <2>4. CASE breaks
    BY <1>1, <1>2, <2>1, <2>2, <2>4, StreamBreaks
  <2>5. CASE UNCHANGED vars
    <3>1. Still(e, o) /\ writeQueue'[o] = writeQueue[o]
      BY <2>5 DEF vars, writerVars, readerVars, callerVars, Still
    <3>2. /\ given'[o] = given[o] /\ values'[o] = values[o] /\ sink'[o] = sink[o]
          /\ sinkFinished'[o] = sinkFinished[o] /\ source'[e] = source[e]
      BY <2>5 DEF vars, callerVars
    <3> QED BY <1>2, <2>1, <2>2, <3>1, <3>2, UntouchedDirection
  <2>6. CASE Next
    <3>1. \/ \E x \in Ends :
                \/ write(x) \/ receive(x) \/ receiveEnd(x)
                \/ iterate(x) \/ next(x) \/ leave(x) \/ closeRead(x) \/ closeWrite(x)
          \/ breaks
      BY <2>6 DEF Next
    <3> QED BY <3>1, <2>3, <2>4
  <2> QED BY <2>5, <2>6
<1> QED BY <1>1, <1>2, OtherEnd DEF StreamInv

LEMMA StreamIsInv == Spec => []StreamInv
BY StreamStart, StreamStep, PTL DEF Spec

-----------------------------------------------------------------------------
(* The two queues, the messages and the notices of both ends always have the form
   that the two loops, source and sink count on. *)
THEOREM ClosableTypeCorrect == Spec => []TypeOK
<1>1. StreamInv => TypeOK
  BY DEF StreamInv
<1> QED BY <1>1, StreamIsInv, PTL

(* What the reader of an end has got is a beginning of what the other end sent before
   it finished: in order, without a gap, and nothing that was sent after the end; for
   any number of values, and also when ends close, leave, or the stream breaks. *)
THEOREM DataArrivesInOrder == Spec => []DataInOrder
<1>1. StreamInv => DataInOrder
  <2> SUFFICES ASSUME StreamInv, NEW e \in Ends PROVE IsPrefix(taken[e], given[other(e)])
    BY DEF DataInOrder
  <2> DEFINE o == other(e)
             t == Len(taken[e])
             g == Len(given[o])
  <2>1. Numbered(e, o) /\ taken[e] \in Seq(Nat) /\ given[o] \in Seq(Nat)
    BY OtherEnd DEF StreamInv, DirectionInv, TypeOK
  <2>2. taken[e] = UpTo(t) /\ given[o] = UpTo(g) /\ t <= g /\ t \in Nat /\ g \in Nat
    BY <2>1 DEF Numbered
  <2>3. \A i \in 1 .. t : taken[e][i] = given[o][i]
    BY <2>2 DEF UpTo
  <2> HIDE DEF o, t, g
  <2>4. t = Len(taken[e]) /\ g = Len(given[o]) /\ o = other(e)
    BY DEF o, t, g
  <2>5. SubSeq(given[o], 1, t) = taken[e]
    <3>1. /\ SubSeq(given[o], 1, t) \in Seq(Nat) /\ Len(SubSeq(given[o], 1, t)) = t
          /\ \A i \in 1 .. t : SubSeq(given[o], 1, t)[i] = given[o][i]
      BY <2>1, <2>2, <2>4
    <3> QED BY <3>1, <2>1, <2>3, <2>4, SeqEqual
  <2>6. SubSeq(taken[e], 1, t) = taken[e]
    <3>1. /\ SubSeq(taken[e], 1, t) \in Seq(Nat) /\ Len(SubSeq(taken[e], 1, t)) = t
          /\ \A i \in 1 .. t : SubSeq(taken[e], 1, t)[i] = taken[e][i]
      BY <2>1, <2>2, <2>4
    <3> QED BY <3>1, <2>1, <2>4, SeqEqual
  <2> QED BY <2>2, <2>4, <2>5, <2>6 DEF IsPrefix
<1> QED BY <1>1, StreamIsInv, PTL

(* A source that ends by itself has yielded all that the other end sent before it
   finished: neither the notice of the other end nor the end of the stream below
   overtakes data. *)
THEOREM EndMeansAllTaken == Spec => []EndMeansAll
<1>1. StreamInv => EndMeansAll
  <2> SUFFICES ASSUME StreamInv, NEW e \in Ends, source[e] = "done", ~closedRead[e]
               PROVE  taken[e] = given[other(e)]
    BY DEF EndMeansAll
  <2>1. Numbered(e, other(e)) /\ Settled(e, other(e))
    BY DEF StreamInv, DirectionInv
  <2>2. /\ taken[e] = UpTo(Len(taken[e])) /\ given[other(e)] = UpTo(Len(given[other(e)]))
        /\ Len(taken[e]) = Len(given[other(e)])
    BY <2>1 DEF Numbered, Settled
  <2> QED BY <2>2
<1> QED BY <1>1, StreamIsInv, PTL
=================================================================================
