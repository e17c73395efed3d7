------------------------------ MODULE Http2pProofs ------------------------------
(***************************************************************************)
(* Proofs about Http2p and Http2pClients: where no chunk ends within CRLF, *)
(* both ends read the start line and the headers that were written, and a  *)
(* message that ends without an error is whole, whatever the bodies hold   *)
(* and whatever breaks; also for a web client behind the gateway.          *)
(***************************************************************************)
EXTENDS Http2pClients, SequenceTheorems, WellFoundedInduction, TLAPS

Texts == Seq(Symbol)

(* Tables over the fetches and the directions, one cell of which is set. *)
Table(S) == [Fetches -> [Directions -> S]]

Sets(g, f, x, d, v) == g = [f EXCEPT ![x][d] = v]

Put(g, f, x, d, v) ==
    /\ g[x][d] = v
    /\ \A y \in Fetches, e \in Directions : (y # x \/ e # d) => g[y][e] = f[y][e]

LEMMA PutCell ==
    ASSUME NEW S, NEW f \in Table(S), NEW x \in Fetches, NEW d \in Directions,
           NEW v \in S, NEW g, Sets(g, f, x, d, v)
    PROVE  g \in Table(S) /\ Put(g, f, x, d, v)
<1>1. g \in [Fetches -> [Directions -> S]]
  BY DEF Sets, Table
<1>2. Put(g, f, x, d, v)
  BY DEF Put, Sets, Table
<1> QED BY <1>1, <1>2 DEF Table

LEMMA TableTypes ==
    ASSUME TypeOK
    PROVE  /\ wire \in Table(Texts) /\ toSend \in Table(Texts) /\ content \in Table(Texts)
           /\ parser \in Table(Parser) /\ ended \in Table(BOOLEAN)
BY DEF TypeOK, Table, Texts

(* The parts of a reader. *)
LEMMA ParserParts ==
    ASSUME NEW p \in Parser
    PROVE  /\ p.phase \in {"start", "headers", "spin", "body", "done", "failed"}
           /\ p.line \in Texts /\ p.rest \in Texts /\ p.start \in Texts
           /\ p.headers \in Seq(Texts) /\ p.body \in Texts
BY DEF Parser, Texts

Phases == {"start", "headers", "spin", "body", "done", "failed"}

LEMMA PhaseSet ==
    ASSUME NEW p \in Parser, NEW f \in Phases, NEW q, q = [p EXCEPT !.phase = f]
    PROVE  /\ q \in Parser /\ q.phase = f /\ q.line = p.line /\ q.rest = p.rest
           /\ q.start = p.start /\ q.headers = p.headers /\ q.body = p.body
BY DEF Parser, Phases

LEMMA ChunkTaken ==
    ASSUME NEW p \in Parser, NEW chunk \in Texts, NEW q, q = takeChunk(p, chunk)
    PROVE  /\ q \in Parser /\ q.phase = p.phase /\ q.start = p.start /\ q.headers = p.headers
           /\ p.phase = "body" => q.body = p.body \o chunk
           /\ p.phase # "body" => q.body = p.body /\ q.line = p.line \o p.rest /\ q.rest = chunk
<1>1. p.body \o chunk \in Seq(Symbol) /\ p.line \o p.rest \in Seq(Symbol) /\ chunk \in Seq(Symbol)
  BY DEF Parser, Texts
<1> QED BY <1>1 DEF Parser, takeChunk

(* What takeLine makes of the start line, of the empty line, and of a header. *)
LEMMA LineTaken ==
    ASSUME NEW p \in Parser, NEW text \in Texts, NEW rest \in Texts, NEW q, q = takeLine(p, text, rest)
    PROVE  /\ q \in Parser
           /\ p.phase = "start" =>
                /\ q.phase = "headers" /\ q.start = text /\ q.headers = p.headers
                /\ q.line = << >> /\ q.rest = rest
           /\ p.phase # "start" /\ Len(text) = 2 =>
                /\ q.phase = "body" /\ q.start = p.start /\ q.headers = p.headers /\ q.body = rest
           /\ p.phase # "start" /\ Len(text) # 2 =>
                /\ q.phase = p.phase /\ q.start = p.start /\ q.line = << >> /\ q.rest = rest
                /\ isHeader(text) => q.headers = Append(p.headers, text)
<1>1. << >> \in Seq(Symbol) /\ text \in Seq(Symbol) /\ rest \in Seq(Symbol)
      /\ Append(p.headers, text) \in Seq(Seq(Symbol))
  BY DEF Parser, Texts
<1>2. CASE p.phase = "start"
  BY <1>1, <1>2 DEF Parser, takeLine
<1>3. CASE p.phase # "start" /\ Len(text) = 2
  BY <1>1, <1>3 DEF Parser, takeLine
<1>4. CASE p.phase # "start" /\ Len(text) # 2
  <2>1. q = [p EXCEPT !.headers = IF isHeader(text) THEN Append(p.headers, text) ELSE p.headers,
                      !.rest = rest, !.line = << >>]
    BY <1>4 DEF takeLine
  <2> QED BY <1>1, <1>4, <2>1 DEF Parser
<1> QED BY <1>2, <1>3, <1>4


-----------------------------------------------------------------------------
(* Sequences of symbols. *)

LEMMA ConcatTyped ==
    ASSUME NEW a \in Texts, NEW b \in Texts
    PROVE  a \o b \in Texts
BY DEF Texts

(* What is where in a concatenation. *)
Parts(s, a, b) ==
    /\ Len(a) \in Nat /\ Len(b) \in Nat /\ Len(s) = Len(a) + Len(b)
    /\ \A i \in 1 .. Len(a) : s[i] = a[i]
    /\ \A i \in 1 .. Len(b) : s[Len(a) + i] = b[i]

LEMMA ConcatParts ==
    ASSUME NEW a \in Texts, NEW b \in Texts
    PROVE  Parts(a \o b, a, b)
BY DEF Parts, Texts

Associates(a, b, c) == (a \o b) \o c = a \o (b \o c)

LEMMA ConcatTwice ==
    ASSUME NEW a \in Texts, NEW b \in Texts, NEW c \in Texts
    PROVE  Associates(a, b, c)
<1>1. /\ (a \o b) \o c \in Seq(Symbol) /\ a \o (b \o c) \in Seq(Symbol)
      /\ Len((a \o b) \o c) = Len(a \o (b \o c))
  BY DEF Texts
<1>2. \A i \in 1 .. Len((a \o b) \o c) : ((a \o b) \o c)[i] = (a \o (b \o c))[i]
  BY DEF Texts
<1>3. (a \o b) \o c = a \o (b \o c)
  BY <1>1, <1>2, SeqEqual
<1> QED BY <1>3 DEF Associates

LEMMA SamePrefix ==
    ASSUME NEW a \in Texts, NEW b \in Texts, NEW c \in Texts, NEW d \in Texts,
           a \o b = c \o d, Len(a) = Len(c)
    PROVE  a = c /\ b = d
<1> USE DEF Texts
<1>1. /\ Len(a \o b) = Len(a) + Len(b) /\ Len(c \o d) = Len(c) + Len(d)
      /\ Len(a) \in Nat /\ Len(b) \in Nat /\ Len(d) \in Nat
  OBVIOUS
<1>2. Len(b) = Len(d)
  BY <1>1
<1>3. \A i \in 1 .. Len(a) : (a \o b)[i] = a[i] /\ (c \o d)[i] = c[i]
  OBVIOUS
<1>4. a = c
  BY <1>3, SeqEqual
<1>5. \A i \in 1 .. Len(b) : (a \o b)[Len(a) + i] = b[i] /\ (c \o d)[Len(c) + i] = d[i]
  BY <1>2
<1>6. b = d
  BY <1>2, <1>5, SeqEqual
<1> QED BY <1>4, <1>6

(* A sequence is what is taken of it and the rest. *)
Cut(b, n, c, rest) ==
    /\ c \in Texts /\ rest \in Texts /\ Len(c) = n /\ Len(rest) = Len(b) - n
    /\ c \o rest = b
    /\ \A i \in 1 .. n : c[i] = b[i]
    /\ rest = << >> \/ rest[Len(rest)] = b[Len(b)]

LEMMA TextCut ==
    ASSUME NEW b \in Texts, NEW n \in 1 .. Len(b), NEW k \in Nat, k = n + 1,
           NEW c, c = SubSeq(b, 1, n), NEW rest, rest = SubSeq(b, k, Len(b))
    PROVE  Cut(b, n, c, rest)
<1> DEFINE m == Len(b)
<1>1. /\ m \in Nat /\ n \in Int /\ m \in Int /\ k \in Int /\ 1 <= n /\ n <= m
      /\ \A i \in 1 .. n : b[i] \in Symbol
      /\ \A i \in k .. m : b[i] \in Symbol
  BY DEF Texts
<1>2. c = SubSeq(b, 1, n) /\ rest = SubSeq(b, k, m) /\ b \in Seq(Symbol) /\ m = Len(b)
  BY DEF Texts
<1> HIDE DEF m
<1>3. c \in Seq(Symbol) /\ Len(c) = n /\ \A i \in 1 .. n : c[i] = b[i]
  BY <1>1, <1>2, SubSeqProperties
<1>4. rest \in Seq(Symbol) /\ Len(rest) = m - n /\ \A i \in 1 .. Len(rest) : rest[i] = b[n + i]
  BY <1>1, <1>2, SubSeqProperties
<1>5. c \o rest \in Seq(Symbol) /\ Len(c \o rest) = Len(b)
  BY <1>1, <1>2, <1>3, <1>4
<1>6. \A i \in 1 .. Len(b) : (c \o rest)[i] = b[i]
  BY <1>1, <1>2, <1>3, <1>4
<1>7. c \o rest = b
  BY <1>2, <1>5, <1>6, SeqEqual
<1>8. rest = << >> \/ rest[Len(rest)] = b[Len(b)]
  <2> SUFFICES ASSUME rest # << >> PROVE rest[Len(rest)] = b[Len(b)]
    OBVIOUS
  <2>1. Len(rest) \in 1 .. Len(rest) /\ n + Len(rest) = Len(b)
    BY <1>1, <1>2, <1>4
  <2> QED BY <2>1, <1>4
<1> QED BY <1>2, <1>3, <1>4, <1>7, <1>8 DEF Cut, Texts

-----------------------------------------------------------------------------
(* The next line: it ends in the first CRLF. *)
IsLine(first) ==
    /\ first \in Texts /\ Len(first) >= 2
    /\ first[Len(first) - 1] = "CR" /\ first[Len(first)] = "LF"
    /\ \A i \in 1 .. Len(first) - 2 : first[i] # "CR"

(* What readLine has, line of earlier chunks and rest of the last, is the beginning of
   the line first, or of more; in line is no part of its end. *)
Waits(line, rest, w, first, after) ==
    /\ line \o (rest \o w) = first \o after
    /\ Len(line) + 1 < Len(first)
    /\ rest = << >> \/ rest[Len(rest)] # "CR"

LEMMA WhereItEnds ==
    ASSUME NEW line \in Texts, NEW rest \in Texts, NEW w \in Texts, NEW first \in Texts, NEW after \in Texts,
           IsLine(first), Waits(line, rest, w, first, after),
           NEW j \in Nat, Len(line) + j + 1 = Len(first)
    PROVE  /\ \A i \in lineEnds(rest) : j <= i
           /\ Len(line) + Len(rest) >= Len(first) - 1 => j \in lineEnds(rest)
<1> DEFINE s == first \o after
<1>1. /\ Len(line) \in Nat /\ Len(rest) \in Nat /\ Len(first) \in Nat /\ j >= 1
      /\ rest \o w \in Texts /\ s \in Texts
  BY DEF Waits, Texts
<1>2. \A i \in 1 .. Len(first) : s[i] = first[i]
  BY DEF Texts
<1>3. \A i \in 1 .. Len(rest) : s[Len(line) + i] = rest[i]
  <2>1. \A i \in 1 .. Len(rest) : (rest \o w)[i] = rest[i]
    BY DEF Texts
  <2>2. \A i \in 1 .. Len(rest \o w) : (line \o (rest \o w))[Len(line) + i] = (rest \o w)[i]
    BY <1>1 DEF Texts
  <2>3. \A i \in 1 .. Len(rest) : i \in 1 .. Len(rest \o w)
    BY DEF Texts
  <2>4. s = line \o (rest \o w)
    BY DEF Waits
  <2> QED BY <2>1, <2>2, <2>3, <2>4
<1> HIDE DEF s
<1>4. ASSUME NEW i \in lineEnds(rest) PROVE j <= i
  <2> SUFFICES ASSUME ~(j <= i) PROVE FALSE
    OBVIOUS
  <2>1. i \in 1 .. Len(rest) - 1 /\ i \in 1 .. Len(rest) /\ rest[i] = "CR"
    BY <1>1, <1>4 DEF lineEnds
  <2>2. Len(line) + i \in 1 .. Len(first) - 2 /\ Len(line) + i \in 1 .. Len(first)
    BY <2>1, <1>1
  <2>3. first[Len(line) + i] = "CR"
    BY <2>1, <2>2, <1>2, <1>3
  <2> QED BY <2>2, <2>3 DEF IsLine
<1>5. ASSUME Len(line) + Len(rest) >= Len(first) - 1 PROVE j \in lineEnds(rest)
  <2>1. j \in 1 .. Len(rest) /\ Len(line) + j = Len(first) - 1
    BY <1>1, <1>5
  <2>2. rest[j] = "CR"
    <3>1. Len(first) - 1 \in 1 .. Len(first)
      BY <1>1 DEF IsLine
    <3>2. s[Len(line) + j] = rest[j] /\ s[Len(first) - 1] = first[Len(first) - 1]
      BY <2>1, <3>1, <1>2, <1>3
    <3> QED BY <2>1, <3>2 DEF IsLine
  <2>3. j # Len(rest)
    BY <2>1, <2>2 DEF Waits
  <2>4. j \in 1 .. Len(rest) - 1 /\ j + 1 \in 1 .. Len(rest) /\ Len(line) + (j + 1) = Len(first)
    BY <2>1, <2>3, <1>1
  <2>5. rest[j + 1] = "LF"
    <3>1. Len(first) \in 1 .. Len(first)
      BY <1>1 DEF IsLine
    <3>2. s[Len(line) + (j + 1)] = rest[j + 1] /\ s[Len(first)] = first[Len(first)]
      BY <2>4, <3>1, <1>2, <1>3
    <3> QED BY <2>4, <3>2 DEF IsLine
  <2> QED BY <2>2, <2>4, <2>5 DEF lineEnds
<1> QED BY <1>4, <1>5

(* No end in the last chunk: the line has not ended, and there is more to come. *)
LEMMA NotYet ==
    ASSUME NEW line \in Texts, NEW rest \in Texts, NEW w \in Texts, NEW first \in Texts, NEW after \in Texts,
           IsLine(first), Waits(line, rest, w, first, after), lineEnds(rest) = {}
    PROVE  Len(line \o rest) + 1 < Len(first) /\ w # << >>
<1> DEFINE j == Len(first) - Len(line) - 1
<1>1. /\ Len(line) \in Nat /\ Len(rest) \in Nat /\ Len(first) \in Nat /\ Len(after) \in Nat
      /\ Len(line \o rest) = Len(line) + Len(rest)
  BY DEF Texts
<1>2. j \in Nat /\ Len(line) + j + 1 = Len(first)
  BY <1>1 DEF Waits
<1> HIDE DEF j
<1>3. ~(Len(line) + Len(rest) >= Len(first) - 1)
  BY <1>2, WhereItEnds
<1>4. w # << >>
  <2> SUFFICES ASSUME w = << >> PROVE FALSE
    OBVIOUS
  <2>1. Len(line \o (rest \o w)) = Len(line) + Len(rest)
    BY DEF Texts
  <2>2. Len(first \o after) = Len(first) + Len(after)
    BY DEF Texts
  <2> QED BY <2>1, <2>2, <1>1, <1>3 DEF Waits
<1> QED BY <1>1, <1>3, <1>4

Joins(s, a, b) == s = a \o b

(* The next chunk comes. *)
LEMMA ChunkWaits ==
    ASSUME NEW line \in Texts, NEW rest \in Texts, NEW w \in Texts, NEW first \in Texts, NEW after \in Texts,
           IsLine(first), Waits(line, rest, w, first, after), lineEnds(rest) = {},
           NEW chunk \in Texts, NEW v \in Texts, Joins(w, chunk, v),
           chunk # << >> => chunk[Len(chunk)] # "CR"
    PROVE  Waits(line \o rest, chunk, v, first, after)
<1>1. Len(line \o rest) + 1 < Len(first)
  BY NotYet
<1>2. Associates(line, rest, w)
  BY ConcatTwice
<1>3. w = chunk \o v
  BY DEF Joins
<1> QED BY <1>1, <1>2, <1>3 DEF Waits, Associates

(* The cut is where first ends. *)
CutAt(line, rest, w, c, more, first, after) == line \o c = first /\ more \o w = after

LEMMA FirstCut ==
    ASSUME NEW line \in Texts, NEW rest \in Texts, NEW w \in Texts, NEW first \in Texts, NEW after \in Texts,
           line \o (rest \o w) = first \o after,
           NEW c \in Texts, NEW more \in Texts, Joins(rest, c, more), Len(line) + Len(c) = Len(first)
    PROVE  CutAt(line, rest, w, c, more, first, after)
<1>1. more \o w \in Texts /\ line \o c \in Texts
  BY ConcatTyped
<1>2. Associates(c, more, w)
  BY ConcatTwice
<1>3. Associates(line, c, more \o w)
  BY <1>1, ConcatTwice
<1>4. (line \o c) \o (more \o w) = first \o after
  BY <1>2, <1>3 DEF Joins, Associates
<1>5. Len(line \o c) = Len(first)
  BY DEF Texts
<1>6. line \o c = first /\ more \o w = after
  BY <1>1, <1>4, <1>5, SamePrefix, ZenonT(40)
<1> QED BY <1>6 DEF CutAt

(* The first CRLF of rest, as readLine finds it. *)
firstEnd(rest) == CHOOSE i \in lineEnds(rest) : \A k \in lineEnds(rest) : i <= k

(* An end in the last chunk is the end of the line, and the rest is what comes after. *)
LEMMA LineIsRead ==
    ASSUME NEW line \in Texts, NEW rest \in Texts, NEW w \in Texts, NEW first \in Texts, NEW after \in Texts,
           IsLine(first), Waits(line, rest, w, first, after), lineEnds(rest) # {}
    PROVE  /\ line \o SubSeq(rest, 1, firstEnd(rest) + 1) = first
           /\ SubSeq(rest, firstEnd(rest) + 2, Len(rest)) \in Texts
           /\ SubSeq(rest, firstEnd(rest) + 2, Len(rest)) \o w = after
           /\ \/ SubSeq(rest, firstEnd(rest) + 2, Len(rest)) = << >>
              \/ LET more == SubSeq(rest, firstEnd(rest) + 2, Len(rest)) IN more[Len(more)] # "CR"
<1> DEFINE m == Len(first) - Len(line) - 1
           j == firstEnd(rest)
<1>1. /\ Len(line) \in Nat /\ Len(rest) \in Nat /\ Len(first) \in Nat /\ Len(after) \in Nat
  BY DEF Texts
<1>2. m \in Nat /\ Len(line) + m + 1 = Len(first)
  BY <1>1 DEF Waits
<1> HIDE DEF m
<1>3. \A i \in lineEnds(rest) : m <= i
  BY <1>2, WhereItEnds
<1>4. lineEnds(rest) \subseteq Nat /\ \A i \in lineEnds(rest) : i + 1 <= Len(rest)
  BY <1>1 DEF lineEnds
<1>5. m \in lineEnds(rest)
  <2>1. PICK i \in lineEnds(rest) : TRUE
    OBVIOUS
  <2>2. m <= i /\ i + 1 <= Len(rest) /\ i \in Nat
    BY <2>1, <1>3, <1>4
  <2>3. Len(line) + Len(rest) >= Len(first) - 1
    BY <2>2, <1>1, <1>2
  <2> QED BY <2>3, <1>2, WhereItEnds
<1>6. j = m
  <2>1. j \in lineEnds(rest) /\ \A k \in lineEnds(rest) : j <= k
    BY <1>3, <1>5 DEF firstEnd
  <2> HIDE DEF j
  <2>2. j <= m /\ m <= j /\ j \in Nat
    BY <2>1, <1>3, <1>4, <1>5
  <2> QED BY <2>2, <1>2
<1> HIDE DEF j
<1> DEFINE n == j + 1
           k == j + 2
           c == SubSeq(rest, 1, n)
           more == SubSeq(rest, k, Len(rest))
<1>7. n \in 1 .. Len(rest) /\ k \in Nat /\ k = n + 1 /\ Len(line) + n = Len(first)
  BY <1>1, <1>2, <1>4, <1>5, <1>6
<1> HIDE DEF n, k
<1>8. Cut(rest, n, c, more)
  BY <1>7, TextCut
<1> HIDE DEF c, more
<1>9. /\ c \in Texts /\ more \in Texts /\ Len(c) = n /\ Joins(rest, c, more)
      /\ more = << >> \/ more[Len(more)] = rest[Len(rest)]
  BY <1>8 DEF Cut, Joins
<1>10. line \o c = first /\ more \o w = after
  <2>1. line \o (rest \o w) = first \o after
    BY DEF Waits
  <2>2. Len(line) + Len(c) = Len(first)
    BY <1>7, <1>9
  <2>3. CutAt(line, rest, w, c, more, first, after)
    BY <2>1, <2>2, <1>9, FirstCut
  <2> QED BY <2>3 DEF CutAt
<1>11. more = << >> \/ more[Len(more)] # "CR"
  <2>1. rest # << >>
    BY <1>1, <1>7
  <2> QED BY <2>1, <1>9 DEF Waits
<1> QED BY <1>9, <1>10, <1>11 DEF c, more, n, k, j

(* The line that is read next begins where the one before has ended. *)
LEMMA NextLine ==
    ASSUME NEW more \in Texts, NEW w \in Texts, NEW first \in Texts, NEW after \in Texts,
           IsLine(first), more \o w = first \o after, more = << >> \/ more[Len(more)] # "CR"
    PROVE  Waits(<< >>, more, w, first, after)
<1>1. << >> \o (more \o w) = more \o w /\ Len(<< >>) = 0 /\ Len(first) >= 2
  BY DEF Texts, IsLine
<1> QED BY <1>1 DEF Waits

-----------------------------------------------------------------------------
(* The message, line by line. *)
lineOf(name) == <<name, "CR", "LF">>
blank == <<"CR", "LF">>
header == lineOf("header")

LEMMA Lines ==
    ASSUME NEW name \in Symbol, name # "CR"
    PROVE  IsLine(lineOf(name)) /\ IsLine(header) /\ IsLine(blank)
<1>0. {"header", "CR", "LF"} \subseteq Symbol
  BY DEF Symbol
<1>1. ASSUME NEW v \in Symbol, v # "CR" PROVE IsLine(lineOf(v))
  <2>1. lineOf(v) \in Seq(Symbol) /\ Len(lineOf(v)) = 3
    BY <1>0 DEF lineOf
  <2>2. lineOf(v)[1] = v /\ lineOf(v)[2] = "CR" /\ lineOf(v)[3] = "LF"
    BY DEF lineOf
  <2>3. \A i \in 1 .. 3 - 2 : i = 1
    OBVIOUS
  <2>4. 3 - 1 = 2
    OBVIOUS
  <2> QED BY <1>1, <2>1, <2>2, <2>3, <2>4 DEF IsLine, Texts
<1>2. IsLine(blank)
  <2>1. blank \in Seq(Symbol) /\ Len(blank) = 2
    BY <1>0 DEF blank
  <2>2. blank[1] = "CR" /\ blank[2] = "LF"
    BY DEF blank
  <2>3. \A i \in 1 .. 2 - 2 : FALSE
    OBVIOUS
  <2>4. 2 - 1 = 1
    OBVIOUS
  <2> QED BY <2>1, <2>2, <2>3, <2>4 DEF IsLine, Texts
<1> QED BY <1>0, <1>1, <1>2 DEF header

LEMMA HeadLines ==
    ASSUME NEW name \in Symbol, NEW c \in Texts
    PROVE  /\ head(name) \o c = lineOf(name) \o (header \o (blank \o c))
           /\ head(name) \in Texts /\ lineOf(name) \in Texts /\ header \in Texts /\ blank \in Texts
           /\ blank \o c \in Texts /\ header \o (blank \o c) \in Texts
<1>1. {"header", "CR", "LF"} \subseteq Symbol
  BY DEF Symbol
<1>2. lineOf(name) \in Texts /\ header \in Texts /\ blank \in Texts
  BY <1>1 DEF lineOf, header, blank, Texts
<1>3. head(name) \in Texts /\ Len(head(name)) = 8
  BY <1>1 DEF head, Texts
<1>4. header \o blank \in Texts /\ blank \o c \in Texts
  BY <1>2, ConcatTyped
<1>5. header \o (blank \o c) \in Texts /\ lineOf(name) \o (header \o blank) \in Texts
  BY <1>2, <1>4, ConcatTyped
<1>6. head(name) = lineOf(name) \o (header \o blank)
  <2> DEFINE t == header \o blank
             s == lineOf(name) \o t
  <2>1. Parts(t, header, blank) /\ Parts(s, lineOf(name), t)
    BY <1>2, <1>4, ConcatParts
  <2>2. t \in Texts /\ s \in Texts
    BY <1>4, <1>5
  <2> HIDE DEF t, s
  <2>3. /\ Len(lineOf(name)) = 3 /\ lineOf(name)[1] = name
        /\ lineOf(name)[2] = "CR" /\ lineOf(name)[3] = "LF"
        /\ Len(header) = 3 /\ header[1] = "header" /\ header[2] = "CR" /\ header[3] = "LF"
        /\ Len(blank) = 2 /\ blank[1] = "CR" /\ blank[2] = "LF"
    BY DEF lineOf, header, blank
  <2>4. /\ Len(t) = 5 /\ t[1] = "header" /\ t[2] = "CR" /\ t[3] = "LF"
        /\ t[4] = "CR" /\ t[5] = "LF"
    <3>1. Len(t) = 3 + 2 /\ t[3 + 1] = blank[1] /\ t[3 + 2] = blank[2]
      BY <2>1, <2>3 DEF Parts
    <3>2. t[1] = header[1] /\ t[2] = header[2] /\ t[3] = header[3]
      BY <2>1, <2>3 DEF Parts
    <3>3. 3 + 1 = 4 /\ 3 + 2 = 5
      OBVIOUS
    <3> QED BY <3>1, <3>2, <3>3, <2>3
  <2>5. /\ Len(s) = 8 /\ s[1] = name /\ s[2] = "CR" /\ s[3] = "LF"
        /\ s[4] = t[1] /\ s[5] = t[2] /\ s[6] = t[3] /\ s[7] = t[4] /\ s[8] = t[5]
    <3>1. Len(s) = 3 + 5 /\ \A i \in 1 .. 5 : s[3 + i] = t[i]
      BY <2>1, <2>3, <2>4 DEF Parts
    <3>2. s[1] = lineOf(name)[1] /\ s[2] = lineOf(name)[2] /\ s[3] = lineOf(name)[3]
      BY <2>1, <2>3 DEF Parts
    <3>3. 3 + 1 = 4 /\ 3 + 2 = 5 /\ 3 + 3 = 6 /\ 3 + 4 = 7 /\ 3 + 5 = 8
      OBVIOUS
    <3> QED BY <3>1, <3>2, <3>3, <2>3
  <2>6. /\ head(name)[1] = name /\ head(name)[2] = "CR" /\ head(name)[3] = "LF"
        /\ head(name)[4] = "header" /\ head(name)[5] = "CR" /\ head(name)[6] = "LF"
        /\ head(name)[7] = "CR" /\ head(name)[8] = "LF"
    BY DEF head
  <2>7. \A i \in 1 .. 8 : i = 1 \/ i = 2 \/ i = 3 \/ i = 4 \/ i = 5 \/ i = 6 \/ i = 7 \/ i = 8
    OBVIOUS
  <2>8. \A i \in 1 .. 8 : head(name)[i] = s[i]
    BY <2>4, <2>5, <2>6, <2>7
  <2>9. head(name) = s
    <3>1. head(name) \in Seq(Symbol) /\ s \in Seq(Symbol) /\ Len(head(name)) = Len(s) /\ Len(s) = 8
      BY <1>3, <2>2, <2>5 DEF Texts
    <3> QED BY <3>1, <2>8, SeqEqual
  <2> QED BY <2>9 DEF s, t
<1>7. Associates(lineOf(name), header \o blank, c) /\ Associates(header, blank, c)
  BY <1>2, <1>4, ConcatTwice
<1>8. head(name) \o c = lineOf(name) \o (header \o (blank \o c))
  BY <1>6, <1>7 DEF Associates
<1> QED BY <1>2, <1>3, <1>4, <1>5, <1>8

-----------------------------------------------------------------------------
(* A reader that has w before it of a message with the body c and a start line of name:
   what it has read is what was written, and what it has not is the rest of it. *)
ReaderSound(p, w, c, name) ==
    /\ p.phase = "start" =>
         p.headers = << >> /\ Waits(p.line, p.rest, w, lineOf(name), header \o (blank \o c))
    /\ p.phase = "headers" =>
         /\ p.start = lineOf(name)
         /\ \/ p.headers = << >> /\ Waits(p.line, p.rest, w, header, blank \o c)
            \/ p.headers = <<header>> /\ Waits(p.line, p.rest, w, blank, c)
    /\ p.phase \in {"body", "done"} =>
         p.start = lineOf(name) /\ p.headers = <<header>> /\ p.body \o w = c

(* In the head, the line that is read and what comes after it. *)
InLine(p, w, first, after) ==
    /\ first \in Texts /\ after \in Texts /\ IsLine(first)
    /\ Waits(p.line, p.rest, w, first, after)

LEMMA HeadIsLine ==
    ASSUME NEW p \in Parser, NEW w \in Texts, NEW c \in Texts, NEW name \in Symbol, name # "CR",
           ReaderSound(p, w, c, name), p.phase \in {"start", "headers"}
    PROVE  \E first, after : InLine(p, w, first, after)
BY Lines, HeadLines DEF ReaderSound, InLine

(* The reader of a head does not come to the end of what there is. *)
LEMMA HeadGoesOn ==
    ASSUME NEW p \in Parser, NEW w \in Texts, NEW c \in Texts, NEW name \in Symbol, name # "CR",
           ReaderSound(p, w, c, name), p.phase \in {"start", "headers"}, lineEnds(p.rest) = {}
    PROVE  w # << >>
<1>1. PICK first, after : InLine(p, w, first, after)
  BY HeadIsLine
<1>2. p.line \in Texts /\ p.rest \in Texts
  BY ParserParts
<1> QED BY <1>1, <1>2, NotYet DEF InLine

(* A chunk comes. *)
LEMMA ChunkSound ==
    ASSUME NEW p \in Parser, NEW w \in Texts, NEW c \in Texts, NEW name \in Symbol, name # "CR",
           ReaderSound(p, w, c, name),
           \/ p.phase \in {"start", "headers"} /\ lineEnds(p.rest) = {}
           \/ p.phase = "body",
           NEW chunk \in Texts, NEW v \in Texts, Joins(w, chunk, v),
           chunk # << >> => chunk[Len(chunk)] # "CR"
    PROVE  ReaderSound(takeChunk(p, chunk), v, c, name)
<1> DEFINE q == takeChunk(p, chunk)
<1>1. /\ q \in Parser /\ q.phase = p.phase /\ q.start = p.start /\ q.headers = p.headers
      /\ p.phase = "body" => q.body = p.body \o chunk
      /\ p.phase # "body" => q.body = p.body /\ q.line = p.line \o p.rest /\ q.rest = chunk
  BY ChunkTaken
<1>2. p.line \in Texts /\ p.rest \in Texts /\ p.body \in Texts
  BY ParserParts
<1> HIDE DEF q
<1>3. CASE p.phase = "body"
  <2>1. Associates(p.body, chunk, v)
    BY <1>2, ConcatTwice
  <2>2. q.body \o v = c
    BY <2>1, <1>1, <1>3 DEF Associates, Joins, ReaderSound
  <2>3. ReaderSound(q, v, c, name)
    BY <2>2, <1>1, <1>3 DEF ReaderSound
  <2> QED BY <2>3 DEF q
<1>4. CASE p.phase \in {"start", "headers"} /\ lineEnds(p.rest) = {}
  <2>1. ASSUME NEW first, NEW after, InLine(p, w, first, after)
        PROVE  Waits(q.line, q.rest, v, first, after)
    <3>1. first \in Texts /\ after \in Texts /\ IsLine(first) /\ Waits(p.line, p.rest, w, first, after)
      BY <2>1 DEF InLine
    <3>2. Waits(p.line \o p.rest, chunk, v, first, after)
      BY <3>1, <1>2, <1>4, ChunkWaits
    <3> QED BY <3>2, <1>1, <1>4
  <2>2. /\ IsLine(lineOf(name)) /\ IsLine(header) /\ IsLine(blank)
        /\ lineOf(name) \in Texts /\ header \in Texts /\ blank \in Texts
        /\ blank \o c \in Texts /\ header \o (blank \o c) \in Texts
    BY Lines, HeadLines
  <2>3. ReaderSound(q, v, c, name)
    BY <2>1, <2>2, <1>1, <1>4 DEF ReaderSound, InLine
  <2> QED BY <2>3 DEF q
<1> QED BY <1>3, <1>4

(* The line that readLine returns, and what it leaves. *)
textOf(p) == p.line \o SubSeq(p.rest, 1, firstEnd(p.rest) + 1)
moreOf(p) == SubSeq(p.rest, firstEnd(p.rest) + 2, Len(p.rest))

ReadTo(p, w, first, after) ==
    /\ textOf(p) = first /\ moreOf(p) \in Texts /\ moreOf(p) \o w = after
    /\ moreOf(p) = << >> \/ moreOf(p)[Len(moreOf(p))] # "CR"

LEMMA LineIsFirst ==
    ASSUME NEW p \in Parser, NEW w \in Texts, NEW first, NEW after,
           InLine(p, w, first, after), lineEnds(p.rest) # {}
    PROVE  ReadTo(p, w, first, after)
<1>1. p.line \in Texts /\ p.rest \in Texts
  BY ParserParts
<1>2. first \in Texts /\ after \in Texts /\ IsLine(first) /\ Waits(p.line, p.rest, w, first, after)
  BY DEF InLine
<1> QED BY <1>1, <1>2, LineIsRead DEF ReadTo, textOf, moreOf

LEMMA LineSound ==
    ASSUME NEW p \in Parser, NEW w \in Texts, NEW c \in Texts, NEW name \in Symbol, name # "CR",
           ReaderSound(p, w, c, name), p.phase \in {"start", "headers"}, lineEnds(p.rest) # {}
    PROVE  ReaderSound(takeLine(p, textOf(p), moreOf(p)), w, c, name)
<1> DEFINE text == textOf(p)
           more == moreOf(p)
           q == takeLine(p, text, more)
<1>1. /\ IsLine(lineOf(name)) /\ IsLine(header) /\ IsLine(blank)
      /\ lineOf(name) \in Texts /\ header \in Texts /\ blank \in Texts
      /\ blank \o c \in Texts /\ header \o (blank \o c) \in Texts
  BY Lines, HeadLines
<1>2. Len(lineOf(name)) = 3 /\ Len(header) = 3 /\ Len(blank) = 2
  BY DEF lineOf, header, blank
<1>3. ASSUME NEW first \in Texts, NEW after \in Texts, IsLine(first), NEW next \in Texts, NEW last \in Texts,
             IsLine(next), ReadTo(p, w, first, next \o last)
      PROVE  Waits(<< >>, more, w, next, last)
  BY <1>3, NextLine DEF ReadTo
<1>4. ASSUME text \in Texts, more \in Texts
      PROVE  /\ p.phase = "start" =>
                  /\ q.phase = "headers" /\ q.start = text /\ q.headers = p.headers
                  /\ q.line = << >> /\ q.rest = more
             /\ p.phase # "start" /\ Len(text) = 2 =>
                  /\ q.phase = "body" /\ q.start = p.start /\ q.headers = p.headers /\ q.body = more
             /\ p.phase # "start" /\ Len(text) # 2 =>
                  /\ q.phase = p.phase /\ q.start = p.start /\ q.line = << >> /\ q.rest = more
                  /\ isHeader(text) => q.headers = Append(p.headers, text)
  BY <1>4, LineTaken
<1> HIDE DEF text, more, q
<1>5. CASE p.phase = "start"
  <2>1. p.headers = << >> /\ InLine(p, w, lineOf(name), header \o (blank \o c))
    BY <1>1, <1>5 DEF ReaderSound, InLine
  <2>2. ReadTo(p, w, lineOf(name), header \o (blank \o c))
    BY <2>1, LineIsFirst
  <2>3. Waits(<< >>, more, w, header, blank \o c)
    BY <2>2, <1>1, <1>3
  <2>4. text = lineOf(name) /\ more \in Texts
    BY <2>2 DEF ReadTo, text, more
  <2>5. /\ q.phase = "headers" /\ q.start = lineOf(name) /\ q.headers = << >>
        /\ q.line = << >> /\ q.rest = more
    BY <2>1, <2>4, <1>1, <1>4, <1>5
  <2>6. ReaderSound(q, w, c, name)
    BY <2>3, <2>5 DEF ReaderSound
  <2> QED BY <2>6 DEF q, text, more
<1>6. CASE p.phase = "headers" /\ p.headers = << >> /\ Waits(p.line, p.rest, w, header, blank \o c)
  <2>1. p.start = lineOf(name) /\ InLine(p, w, header, blank \o c)
    BY <1>1, <1>6 DEF ReaderSound, InLine
  <2>2. ReadTo(p, w, header, blank \o c)
    BY <2>1, LineIsFirst
  <2>3. Waits(<< >>, more, w, blank, c)
    BY <2>2, <1>1, <1>3
  <2>4. text = header /\ more \in Texts
    BY <2>2 DEF ReadTo, text, more
  <2>5. isHeader(header)
    <3>1. header[1] = "header" /\ \A i \in 1 .. 3 - 2 : i = 1
      BY DEF header, lineOf
    <3> QED BY <3>1, <1>2 DEF isHeader
  <2>6. /\ q.phase = "headers" /\ q.start = lineOf(name) /\ q.headers = Append(<< >>, header)
        /\ q.line = << >> /\ q.rest = more
    BY <2>1, <2>4, <2>5, <1>1, <1>2, <1>4, <1>6
  <2>7. Append(<< >>, header) = <<header>>
    OBVIOUS
  <2>8. ReaderSound(q, w, c, name)
    BY <2>3, <2>6, <2>7 DEF ReaderSound
  <2> QED BY <2>8 DEF q, text, more
<1>7. CASE p.phase = "headers" /\ p.headers = <<header>> /\ Waits(p.line, p.rest, w, blank, c)
  <2>1. p.start = lineOf(name) /\ InLine(p, w, blank, c)
    BY <1>1, <1>7 DEF ReaderSound, InLine
  <2>2. ReadTo(p, w, blank, c)
    BY <2>1, LineIsFirst
  <2>3. text = blank /\ more \in Texts /\ more \o w = c
    BY <2>2 DEF ReadTo, text, more
  <2>4. q.phase = "body" /\ q.start = lineOf(name) /\ q.headers = <<header>> /\ q.body = more
    BY <2>1, <2>3, <1>1, <1>2, <1>4, <1>7
  <2>5. ReaderSound(q, w, c, name)
    BY <2>3, <2>4 DEF ReaderSound
  <2> QED BY <2>5 DEF q, text, more
<1> QED BY <1>5, <1>6, <1>7 DEF ReaderSound

(* What was just written, before a reader that has read nothing. *)
LEMMA WrittenSound ==
    ASSUME NEW c \in Texts, NEW name \in Symbol, name # "CR"
    PROVE  ReaderSound(NewParser, head(name) \o c, c, name)
<1>1. /\ IsLine(lineOf(name)) /\ head(name) \in Texts /\ lineOf(name) \in Texts
      /\ header \o (blank \o c) \in Texts /\ head(name) \o c = lineOf(name) \o (header \o (blank \o c))
  BY Lines, HeadLines
<1>2. << >> \in Texts
  BY DEF Texts
<1> DEFINE w == head(name) \o c
<1>3. w \in Texts /\ w = lineOf(name) \o (header \o (blank \o c))
  BY <1>1, ConcatTyped
<1> HIDE DEF w
<1>4. Waits(<< >>, << >>, w, lineOf(name), header \o (blank \o c))
  <2>1. << >> \o w = w
    BY <1>3 DEF Texts
  <2> QED BY <1>1, <1>2, <1>3, <2>1, NextLine
<1>5. /\ NewParser.phase = "start" /\ NewParser.headers = << >>
      /\ NewParser.line = << >> /\ NewParser.rest = << >>
  BY DEF NewParser
<1> QED BY <1>4, <1>5 DEF ReaderSound, w

-----------------------------------------------------------------------------
(* Every variable has its type. *)

WriteTable == wire' \in Table(Texts) /\ toSend' \in Table(Texts) /\ content' \in Table(Texts)

LEMMA WriteCells ==
    ASSUME TypeOK, NEW x \in Fetches, NEW d \in Directions, NEW name \in Symbol, NEW body \in Texts,
           write(x, d, name, body)
    PROVE  /\ WriteTable
           /\ Put(wire', wire, x, d, head(name)) /\ Put(toSend', toSend, x, d, body)
           /\ Put(content', content, x, d, body)
<1>1. head(name) \in Texts
  BY HeadLines
<1>2. wire \in Table(Texts) /\ toSend \in Table(Texts) /\ content \in Table(Texts)
  BY TableTypes
<1>3. wire' \in Table(Texts) /\ Put(wire', wire, x, d, head(name))
  BY <1>1, <1>2, PutCell, ZenonT(40) DEF write, Sets
<1>4. toSend' \in Table(Texts) /\ Put(toSend', toSend, x, d, body)
  BY <1>2, PutCell DEF write, Sets
<1>5. content' \in Table(Texts) /\ Put(content', content, x, d, body)
  BY <1>2, PutCell DEF write, Sets
<1> QED BY <1>3, <1>4, <1>5 DEF WriteTable

LEMMA Bodies ==
    /\ RequestBodies \subseteq Texts /\ ResponseBodies \subseteq Texts
    /\ << >> \in Texts /\ <<"stack">> \in Texts
    /\ Statuses \subseteq Symbol /\ "POST" \in Symbol
<1>1. Seq(Pieces) \subseteq Seq(Symbol)
  <2>1. Pieces \subseteq Symbol
    BY DEF Symbol
  <2> QED BY <2>1
<1>2. RequestBodies \subseteq Texts /\ ResponseBodies \subseteq Texts
  BY <1>1, FetchAssumption DEF FetchAssumption, Texts
<1>3. "stack" \in Symbol /\ "POST" \in Symbol /\ Statuses \subseteq Symbol
  BY DEF Symbol
<1>4. << >> \in Texts /\ <<"stack">> \in Texts
  BY <1>3 DEF Texts
<1> QED BY <1>2, <1>3, <1>4

(* What answer does to the tables. *)
LEMMA AnswerTyped ==
    ASSUME TypeOK, NEW x \in Fetches, NEW name \in Statuses, NEW body \in Texts, answer(x, name, body)
    PROVE  WriteTable /\ handler' = [handler EXCEPT ![x] = name]
<1>1. name \in Symbol /\ "res" \in Directions
  BY Bodies DEF Directions
<1>2. CASE stream[x] = "open"
  <2>1. write(x, "res", name, body)
    BY <1>2 DEF answer
  <2> QED BY <1>1, <2>1, WriteCells DEF answer
<1>3. CASE stream[x] # "open"
  <2>1. UNCHANGED <<wire, toSend, content>>
    BY <1>3 DEF answer
  <2> QED BY <2>1, TableTypes DEF answer, WriteTable
<1> QED BY <1>2, <1>3

(* The phase of one reader is set. *)
PhasePut(x, d, f) == parser' = [parser EXCEPT ![x][d].phase = f]

LEMMA PhaseCell ==
    ASSUME TypeOK, NEW x \in Fetches, NEW d \in Directions, NEW f \in Phases, PhasePut(x, d, f)
    PROVE  parser' \in Table(Parser) /\ Put(parser', parser, x, d, [parser[x][d] EXCEPT !.phase = f])
<1>1. parser \in Table(Parser)
  BY TableTypes
<1>2. parser[x][d] \in Parser
  BY <1>1 DEF Table
<1> DEFINE q == [parser[x][d] EXCEPT !.phase = f]
<1>3. q \in Parser
  BY <1>2, PhaseSet
<1>4. Sets(parser', parser, x, d, q)
  BY DEF PhasePut, Sets
<1> HIDE DEF q
<1>5. parser' \in Table(Parser) /\ Put(parser', parser, x, d, q)
  BY <1>1, <1>3, <1>4, PutCell
<1> QED BY <1>5 DEF q

(* The phase of the reader when the source has ended. *)
endPhase(f) == IF f = "body" THEN "done" ELSE "spin"

LEMMA EndPhase ==
    ASSUME TypeOK, NEW x \in Fetches, NEW d \in Directions, receiveEnd(x, d)
    PROVE  endPhase(parser[x][d].phase) \in Phases /\ PhasePut(x, d, endPhase(parser[x][d].phase))
<1>1. parser \in Table(Parser)
  BY TableTypes
<1>2. parser' = [parser EXCEPT ![x][d].phase = endPhase(parser[x][d].phase)]
  BY <1>1 DEF receiveEnd, endPhase, Table, Parser
<1> QED BY <1>2 DEF PhasePut, endPhase, Phases

(* What send, readLine and receive do. *)
LEMMA SendCells ==
    ASSUME TypeOK, NEW x \in Fetches, NEW d \in Directions, send(x, d)
    PROVE  /\ wire' \in Table(Texts) /\ toSend' \in Table(Texts) /\ ended' \in Table(BOOLEAN)
           /\ \/ /\ toSend[x][d] # << >> /\ ended' = ended
                 /\ Put(wire', wire, x, d, Append(wire[x][d], Head(toSend[x][d])))
                 /\ Put(toSend', toSend, x, d, Tail(toSend[x][d]))
              \/ /\ toSend[x][d] = << >> /\ wire' = wire /\ toSend' = toSend
                 /\ Put(ended', ended, x, d, TRUE)
<1>1. /\ wire \in Table(Texts) /\ toSend \in Table(Texts)
      /\ ended \in Table(BOOLEAN)
      /\ wire[x][d] \in Texts /\ toSend[x][d] \in Texts
  BY TableTypes DEF Table
<1>2. CASE toSend[x][d] # << >>
  <2>1. /\ Sets(wire', wire, x, d, Append(wire[x][d], Head(toSend[x][d])))
        /\ Sets(toSend', toSend, x, d, Tail(toSend[x][d]))
        /\ ended' = ended
    BY <1>2 DEF send, Sets
  <2>2. Append(wire[x][d], Head(toSend[x][d])) \in Texts /\ Tail(toSend[x][d]) \in Texts
    BY <1>1, <1>2 DEF Texts
  <2>3. /\ wire' \in Table(Texts)
        /\ Put(wire', wire, x, d, Append(wire[x][d], Head(toSend[x][d])))
    BY <1>1, <2>1, <2>2, PutCell
  <2>4. toSend' \in Table(Texts) /\ Put(toSend', toSend, x, d, Tail(toSend[x][d]))
    BY <1>1, <2>1, <2>2, PutCell
  <2> QED BY <1>1, <1>2, <2>1, <2>3, <2>4
<1>3. CASE toSend[x][d] = << >>
  <2>1. Sets(ended', ended, x, d, TRUE) /\ wire' = wire /\ toSend' = toSend
    BY <1>3 DEF send, Sets
  <2>2. ended' \in Table(BOOLEAN) /\ Put(ended', ended, x, d, TRUE)
    BY <1>1, <2>1, PutCell
  <2> QED BY <1>1, <1>3, <2>1, <2>2
<1> QED BY <1>2, <1>3

LEMMA SmallestOf ==
    ASSUME NEW T, T \subseteq Nat, T # {}
    PROVE  \E i \in T : \A j \in T : i <= j
<1> DEFINE R == OpToRel(<, Nat)
<1>1. IsWellFoundedOn(R, Nat)
  BY NatLessThanWellFounded
<1>2. \A x, y \in Nat : x < y => <<x, y>> \in R
  BY DEF OpToRel
<1> HIDE DEF R
<1>3. PICK i \in T : \A j \in T : ~(<<j, i>> \in R)
  BY <1>1, WFMin
<1>4. \A j \in T : i <= j
  <2> SUFFICES ASSUME NEW j \in T PROVE i <= j
    OBVIOUS
  <2>1. i \in Nat /\ j \in Nat /\ ~(j < i)
    BY <1>2, <1>3
  <2> QED BY <2>1
<1> QED BY <1>4

LEMMA ReadCells ==
    ASSUME TypeOK, NEW x \in Fetches, NEW d \in Directions, readLine(x, d)
    PROVE  LET p == parser[x][d]
           IN  /\ p.phase \in {"start", "headers"} /\ lineEnds(p.rest) # {}
               /\ parser' \in Table(Parser)
               /\ Put(parser', parser, x, d, takeLine(p, textOf(p), moreOf(p)))
<1> DEFINE p == parser[x][d]
           j == firstEnd(p.rest)
           n == j + 1
           k == j + 2
           q == takeLine(p, textOf(p), moreOf(p))
<1>1. parser \in Table(Parser) /\ p \in Parser
  BY TableTypes DEF Table
<1>2. p.phase \in {"start", "headers"} /\ lineEnds(p.rest) # {} /\ Sets(parser', parser, x, d, q)
  BY DEF readLine, textOf, moreOf, firstEnd, Sets
<1> HIDE DEF p
<1>3. p.line \in Texts /\ p.rest \in Texts /\ Len(p.rest) \in Nat
  <2>1. p.line \in Texts /\ p.rest \in Texts
    BY <1>1, ParserParts
  <2> QED BY <2>1 DEF Texts
<1>4. j \in lineEnds(p.rest)
  <2>1. \A i \in lineEnds(p.rest) : i \in Nat
    BY <1>3 DEF lineEnds
  <2>2. lineEnds(p.rest) \subseteq Nat /\ lineEnds(p.rest) # {}
    BY <2>1, <1>2
  <2>3. \E i \in lineEnds(p.rest) : \A m \in lineEnds(p.rest) : i <= m
    BY <2>2, SmallestOf
  <2> QED BY <2>3 DEF firstEnd
<1>5. n \in 1 .. Len(p.rest) /\ k \in Nat /\ k = n + 1
  BY <1>3, <1>4 DEF lineEnds
<1>6. textOf(p) = p.line \o SubSeq(p.rest, 1, n) /\ moreOf(p) = SubSeq(p.rest, k, Len(p.rest))
  BY DEF textOf, moreOf
<1> HIDE DEF j, n, k, q
<1>7. Cut(p.rest, n, SubSeq(p.rest, 1, n), SubSeq(p.rest, k, Len(p.rest)))
  BY <1>3, <1>5, TextCut
<1>8. SubSeq(p.rest, 1, n) \in Texts /\ moreOf(p) \in Texts
  BY <1>6, <1>7 DEF Cut
<1>9. textOf(p) \in Texts
  BY <1>3, <1>6, <1>8, ConcatTyped
<1>10. q \in Parser
  BY <1>1, <1>8, <1>9, LineTaken DEF q
<1>11. parser' \in Table(Parser) /\ Put(parser', parser, x, d, q)
  BY <1>1, <1>2, <1>10, PutCell
<1> QED BY <1>2, <1>11 DEF p, q

(* What receive takes of what is on its way, and what is left. *)
Received(x, d, n, chunk, rest) ==
    /\ Cut(wire[x][d], n, chunk, rest) /\ chunk # << >> /\ n = Len(chunk)
    /\ SplitCRLF \/ chunk[Len(chunk)] # "CR"
    /\ Put(wire', wire, x, d, rest)
    /\ Put(parser', parser, x, d, takeChunk(parser[x][d], chunk))

LEMMA ReceiveCells ==
    ASSUME TypeOK, NEW x \in Fetches, NEW d \in Directions, receive(x, d)
    PROVE  /\ wire' \in Table(Texts) /\ parser' \in Table(Parser)
           /\ \E n, chunk, rest : Received(x, d, n, chunk, rest)
<1> DEFINE w == wire[x][d]
           p == parser[x][d]
<1>1. wire \in Table(Texts) /\ parser \in Table(Parser) /\ w \in Texts /\ p \in Parser
  BY TableTypes DEF Table
<1>2. PICK n \in 1 .. Len(w) :
        /\ SplitCRLF \/ SubSeq(w, 1, n)[n] # "CR"
        /\ wire' = [wire EXCEPT ![x][d] = SubSeq(w, n + 1, Len(w))]
        /\ parser' = [parser EXCEPT ![x][d] = takeChunk(p, SubSeq(w, 1, n))]
  BY DEF receive
<1> DEFINE k == n + 1
           chunk == SubSeq(w, 1, n)
           rest == SubSeq(w, k, Len(w))
           q == takeChunk(p, chunk)
<1>3. /\ SplitCRLF \/ chunk[n] # "CR"
      /\ Sets(wire', wire, x, d, rest) /\ Sets(parser', parser, x, d, q)
  BY <1>2 DEF Sets
<1>4. k \in Nat /\ k = n + 1 /\ n \in Nat /\ n >= 1
  BY <1>1 DEF Texts
<1> HIDE DEF w, p, k
<1>5. Cut(w, n, chunk, rest)
  BY <1>1, <1>4, TextCut
<1> HIDE DEF chunk, rest, q
<1>6. chunk \in Texts /\ rest \in Texts /\ Len(chunk) = n /\ chunk # << >>
  <2>1. chunk \in Texts /\ rest \in Texts /\ Len(chunk) = n
    BY <1>5 DEF Cut
  <2>2. chunk # << >>
    <3> SUFFICES ASSUME chunk = << >> PROVE FALSE
      OBVIOUS
    <3>1. Len(chunk) = 0
      OBVIOUS
    <3> QED BY <3>1, <2>1, <1>4
  <2> QED BY <2>1, <2>2
<1>7. q \in Parser
  BY <1>1, <1>6, ChunkTaken DEF q
<1>8. wire' \in Table(Texts) /\ Put(wire', wire, x, d, rest)
  BY <1>1, <1>3, <1>6, PutCell
<1>9. parser' \in Table(Parser) /\ Put(parser', parser, x, d, q)
  BY <1>1, <1>3, <1>7, PutCell
<1>10. Received(x, d, n, chunk, rest)
  BY <1>3, <1>5, <1>6, <1>8, <1>9 DEF Received, w, p, q
<1> QED BY <1>8, <1>9, <1>10

FlagTypes ==
    /\ closed \in BOOLEAN /\ stopped \in BOOLEAN
    /\ check \in [Fetches -> {"none", "open", "closed", "spin"}]
    /\ stage \in [Fetches -> {"idle", "pinging", "dialing", "headers", "resolved", "rejected"}]
    /\ tries \in [Fetches -> 0 .. Retries]
    /\ aborted \in [Fetches -> BOOLEAN]
    /\ stream \in [Fetches -> {"none", "open", "closed", "broken"}]
    /\ handler \in [Fetches -> Statuses \cup {"none", "waiting", "silent"}]

FlowTypes ==
    /\ wire \in Table(Texts) /\ toSend \in Table(Texts) /\ content \in Table(Texts)
    /\ parser \in Table(Parser) /\ ended \in Table(BOOLEAN)

LEMMA TypeParts ==
    /\ TypeOK <=> FlagTypes /\ FlowTypes
    /\ TypeOK' <=> FlagTypes' /\ FlowTypes'
<1>1. TypeOK <=> FlagTypes /\ FlowTypes
  BY DEF TypeOK, FlagTypes, FlowTypes, Table, Texts
<1>2. TypeOK' <=> FlagTypes' /\ FlowTypes'
  BY DEF TypeOK, FlagTypes, FlowTypes, Table, Texts
<1> QED BY <1>1, <1>2

LEMMA TypeStart == Init => TypeOK
<1> SUFFICES ASSUME Init PROVE TypeOK
  OBVIOUS
<1>1. FlagTypes
  <2>1. 0 \in 0 .. Retries
    BY FetchAssumption DEF FetchAssumption
  <2> QED BY <2>1 DEF Init, FlagTypes
<1>2. NewParser \in Parser
  BY DEF NewParser, Parser
<1>3. FlowTypes
  BY <1>2, Bodies DEF Init, FlowTypes, Table
<1> QED BY <1>1, <1>3, TypeParts

(* Nothing flows. *)
LEMMA NoFlow ==
    ASSUME FlowTypes, UNCHANGED <<wire, toSend, ended, parser, content>>
    PROVE  FlowTypes'
BY DEF FlowTypes

(* The steps of the client. *)
LEMMA TypeClient ==
    ASSUME TypeOK, NEW x \in Fetches,
           fetch(x) \/ ping(x) \/ checkEnds(x) \/ dial(x) \/ abort(x) \/ responds(x) \/ cancel(x)
    PROVE  TypeOK'
<1> USE DEF clientVars
<1>1. FlagTypes /\ FlowTypes
  BY TypeParts
<1>2. CASE fetch(x)
  <2>1. FlagTypes'
    BY <1>1, <1>2 DEF fetch, FlagTypes
  <2>2. FlowTypes'
    BY <1>1, <1>2, NoFlow DEF fetch
  <2> QED BY <2>1, <2>2, TypeParts
<1>3. CASE ping(x)
  <2>1. mayRetry(x) => tries[x] + 1 \in 0 .. Retries
    BY <1>1, FetchAssumption DEF FlagTypes, mayRetry, FetchAssumption
  <2>4. 0 \in 0 .. Retries
    BY FetchAssumption DEF FetchAssumption
  <2>2. FlagTypes'
    BY <1>1, <1>3, <2>1, <2>4 DEF ping, FlagTypes
  <2>3. FlowTypes'
    BY <1>1, <1>3, NoFlow DEF ping
  <2> QED BY <2>2, <2>3, TypeParts
<1>4. CASE dial(x)
  <2>1. FlagTypes'
    BY <1>1, <1>4 DEF dial, FlagTypes
  <2>2. ASSUME \E body \in RequestBodies : write(x, "req", "POST", body)
        PROVE  FlowTypes'
    <3>1. PICK body \in RequestBodies : write(x, "req", "POST", body)
      BY <2>2
    <3>2. "POST" \in Symbol /\ body \in Texts /\ "req" \in Directions
      BY Bodies DEF Directions
    <3>3. WriteTable
      BY <3>1, <3>2, WriteCells
    <3> QED BY <3>3, <1>1, <1>4 DEF dial, FlowTypes, WriteTable
  <2>3. ASSUME UNCHANGED <<stream, wire, toSend, content>>
        PROVE  FlowTypes'
    BY <1>1, <1>4, <2>3, NoFlow DEF dial
  <2>4. FlowTypes'
    BY <1>4, <2>2, <2>3 DEF dial
  <2> QED BY <2>1, <2>4, TypeParts
<1>5. CASE abort(x)
  <2>1. FlagTypes'
    BY <1>1, <1>5 DEF abort, FlagTypes
  <2>2. FlowTypes'
    BY <1>1, <1>5, NoFlow DEF abort
  <2> QED BY <2>1, <2>2, TypeParts
<1>6. CASE responds(x)
  <2>1. FlagTypes'
    BY <1>1, <1>6 DEF responds, FlagTypes
  <2>2. FlowTypes'
    BY <1>1, <1>6, NoFlow DEF responds
  <2> QED BY <2>1, <2>2, TypeParts
<1>7. CASE cancel(x)
  <2>1. FlagTypes'
    BY <1>1, <1>7 DEF cancel, FlagTypes
  <2>2. PhasePut(x, "res", "failed") /\ "res" \in Directions /\ "failed" \in Phases
    BY <1>7 DEF cancel, PhasePut, Directions, Phases
  <2>3. parser' \in Table(Parser)
    BY <2>2, PhaseCell
  <2>4. FlowTypes'
    BY <1>1, <1>7, <2>3 DEF cancel, FlowTypes
  <2> QED BY <2>1, <2>4, TypeParts
<1>8. CASE checkEnds(x)
  <2>1. FlagTypes'
    BY <1>1, <1>8 DEF checkEnds, FlagTypes
  <2>2. FlowTypes'
    BY <1>1, <1>8, NoFlow DEF checkEnds
  <2> QED BY <2>1, <2>2, TypeParts
<1> QED BY <1>2, <1>3, <1>4, <1>5, <1>6, <1>7, <1>8

(* The steps of the server, and what breaks. *)
LEMMA TypeServer ==
    ASSUME TypeOK, NEW x \in Fetches,
           dispatch(x) \/ respond(x) \/ breaks(x)
    PROVE  TypeOK'
<1> USE DEF clientVars
<1>1. FlagTypes /\ FlowTypes
  BY TypeParts
<1>2. ASSUME NEW name \in Statuses, NEW body \in Texts, answer(x, name, body),
             UNCHANGED <<closed, stopped, check, clientVars, stream, ended, parser>>
      PROVE  TypeOK'
  <2>1. WriteTable /\ handler' = [handler EXCEPT ![x] = name]
    BY <1>2, AnswerTyped
  <2>2. FlagTypes'
    BY <1>1, <1>2, <2>1 DEF FlagTypes
  <2>3. FlowTypes'
    BY <1>1, <1>2, <2>1 DEF FlowTypes, WriteTable
  <2> QED BY <2>2, <2>3, TypeParts
<1>3. ASSUME NEW name \in {"waiting", "silent"}, handler' = [handler EXCEPT ![x] = name],
             UNCHANGED <<wire, toSend, content>>,
             UNCHANGED <<closed, stopped, check, clientVars, stream, ended, parser>>
      PROVE  TypeOK'
  <2>1. FlagTypes'
    BY <1>1, <1>3 DEF FlagTypes
  <2>2. FlowTypes'
    BY <1>1, <1>3, NoFlow
  <2> QED BY <2>1, <2>2, TypeParts
<1>4. /\ "200" \in Statuses /\ "204" \in Statuses /\ "404" \in Statuses /\ "500" \in Statuses
      /\ << >> \in Texts /\ <<"stack">> \in Texts /\ ResponseBodies \subseteq Texts
  BY Bodies DEF Statuses
<1>5. CASE dispatch(x)
  BY <1>2, <1>3, <1>4, <1>5 DEF dispatch
<1>6. CASE respond(x)
  BY <1>2, <1>3, <1>4, <1>6 DEF respond
<1>7. CASE breaks(x)
  <2>1. FlagTypes'
    BY <1>1, <1>7 DEF breaks, FlagTypes
  <2>2. FlowTypes'
    BY <1>1, <1>7, NoFlow DEF breaks
  <2> QED BY <2>1, <2>2, TypeParts
<1> QED BY <1>5, <1>6, <1>7

(* The steps of the streams. *)
LEMMA TypeTransfer ==
    ASSUME TypeOK, NEW x \in Fetches, NEW d \in Directions, Transfer(x, d)
    PROVE  TypeOK'
<1> USE DEF clientVars
<1>1. FlagTypes /\ FlowTypes
  BY TypeParts
<1>2. CASE send(x, d)
  <2>1. FlagTypes'
    BY <1>1, <1>2 DEF send, FlagTypes
  <2>2. wire' \in Table(Texts) /\ toSend' \in Table(Texts) /\ ended' \in Table(BOOLEAN)
    BY <1>2, SendCells
  <2>3. FlowTypes'
    BY <1>1, <1>2, <2>2 DEF send, FlowTypes
  <2> QED BY <2>1, <2>3, TypeParts
<1>3. CASE readLine(x, d)
  <2>1. FlagTypes'
    BY <1>1, <1>3 DEF readLine, FlagTypes
  <2>2. parser' \in Table(Parser)
    BY <1>3, ReadCells
  <2>3. FlowTypes'
    BY <1>1, <1>3, <2>2 DEF readLine, FlowTypes
  <2> QED BY <2>1, <2>3, TypeParts
<1>4. CASE receive(x, d)
  <2>1. FlagTypes'
    BY <1>1, <1>4 DEF receive, FlagTypes
  <2>2. wire' \in Table(Texts) /\ parser' \in Table(Parser)
    BY <1>4, ReceiveCells
  <2>3. FlowTypes'
    BY <1>1, <1>4, <2>2 DEF receive, FlowTypes
  <2> QED BY <2>1, <2>3, TypeParts
<1>5. CASE receiveEnd(x, d)
  <2>1. FlagTypes'
    BY <1>1, <1>5 DEF receiveEnd, FlagTypes
  <2>2. PICK f \in Phases : PhasePut(x, d, f)
    BY <1>5, EndPhase
  <2>3. parser' \in Table(Parser)
    BY <2>2, PhaseCell
  <2>4. FlowTypes'
    BY <1>1, <1>5, <2>3 DEF receiveEnd, FlowTypes
  <2> QED BY <2>1, <2>4, TypeParts
<1>6. CASE receiveError(x, d)
  <2>1. FlagTypes'
    BY <1>1, <1>6 DEF receiveError, FlagTypes
  <2>2. PhasePut(x, d, "failed") /\ "failed" \in Phases
    BY <1>6 DEF receiveError, PhasePut, Phases
  <2>3. parser' \in Table(Parser)
    BY <2>2, PhaseCell
  <2>4. FlowTypes'
    BY <1>1, <1>6, <2>3 DEF receiveError, FlowTypes
  <2> QED BY <2>1, <2>4, TypeParts
<1> QED BY <1>2, <1>3, <1>4, <1>5, <1>6 DEF Transfer

LEMMA TypeStep ==
    ASSUME TypeOK, Next
    PROVE  TypeOK'
<1>1. ASSUME closeServer \/ stopClient PROVE TypeOK'
  <2>1. CASE closeServer
    BY <2>1 DEF closeServer, clientVars, TypeOK
  <2>2. CASE stopClient
    BY <2>2 DEF stopClient, clientVars, TypeOK
  <2> QED BY <1>1, <2>1, <2>2
<1>2. ASSUME NEW x \in Fetches, fetch(x) \/ abort(x) \/ cancel(x) \/ Exchange(x) PROVE TypeOK'
  <2>1. CASE \E d \in Directions : Transfer(x, d)
    BY <2>1, TypeTransfer
  <2>2. CASE fetch(x) \/ ping(x) \/ checkEnds(x) \/ dial(x) \/ abort(x) \/ responds(x) \/ cancel(x)
    BY <2>2, TypeClient
  <2>3. CASE dispatch(x) \/ respond(x) \/ breaks(x)
    BY <2>3, TypeServer
  <2> QED BY <1>2, <2>1, <2>2, <2>3 DEF Exchange, Progress
<1> QED BY <1>1, <1>2 DEF Next

LEMMA TypeKept ==
    ASSUME TypeOK, [Next]_vars
    PROVE  TypeOK'
<1>1. CASE Next
  BY <1>1, TypeStep
<1>2. CASE UNCHANGED vars
  BY <1>2 DEF vars, clientVars, TypeOK
<1> QED BY <1>1, <1>2

(* The stages of every fetch, the streams and the readers at both ends keep within what
   http2p.js provides for, and a fetch pings no more often than it may. *)
THEOREM FetchTypeCorrect == Spec => []TypeOK
BY TypeStart, TypeKept, PTL DEF Spec

-----------------------------------------------------------------------------
(* What is on its way in one direction of a fetch, and what was read of it. *)

word(x, d) == IF d = "req" THEN "POST" ELSE handler[x]

(* Nothing was written: the reader has come nowhere. *)
Nothing(x, d) ==
    /\ wire[x][d] = << >> /\ toSend[x][d] = << >> /\ content[x][d] = << >> /\ ended[x][d] = FALSE
    /\ \/ parser[x][d] = NewParser
       \/ parser[x][d].phase = "failed" /\ stream[x] = "broken"
       \/ parser[x][d].phase = "spin" /\ stream[x] = "closed"

(* A message was written, and what was read is the beginning of it. *)
Sound(x, d) ==
    /\ stream[x] # "none" /\ (d = "res" => handler[x] \in Statuses)
    /\ ReaderSound(parser[x][d], wire[x][d] \o toSend[x][d], content[x][d], word(x, d))
    /\ parser[x][d].phase = "done" /\ stream[x] # "closed" => wire[x][d] = << >> /\ toSend[x][d] = << >>
    /\ parser[x][d].phase = "spin" => stream[x] = "closed"
    /\ ended[x][d] => toSend[x][d] = << >>

Early == {"idle", "pinging", "dialing"}

FetchInv(x) ==
    /\ IF stream[x] = "none" THEN Nothing(x, "req") ELSE Sound(x, "req")
    /\ Nothing(x, "res") \/ Sound(x, "res")
    /\ handler[x] \in Statuses /\ stream[x] = "open" => Sound(x, "res")
    /\ stage[x] \in Early => stream[x] = "none"
    /\ handler[x] # "none" => stream[x] # "none"

Http2pInv == TypeOK /\ \A x \in Fetches : FetchInv(x)

(* A stream that is open may end; what is in a cell may stay. *)
StreamEnds(x) ==
    stream'[x] = stream[x] \/ (stream[x] = "open" /\ stream'[x] \in {"closed", "broken"})

Stays(x, d) ==
    /\ wire'[x][d] = wire[x][d] /\ toSend'[x][d] = toSend[x][d] /\ content'[x][d] = content[x][d]
    /\ ended'[x][d] = ended[x][d] /\ parser'[x][d] = parser[x][d]

Keeps(x, d) == (Sound(x, d) => Sound(x, d)') /\ (Nothing(x, d) => Nothing(x, d)')

LEMMA StaysKeeps ==
    ASSUME NEW x, NEW d, Stays(x, d), StreamEnds(x), handler'[x] = handler[x]
    PROVE  Keeps(x, d)
<1>1. word(x, d)' = word(x, d)
  BY DEF word
<1>2. Nothing(x, d) => Nothing(x, d)'
  BY DEF Nothing, Stays, StreamEnds
<1>3. Sound(x, d) => Sound(x, d)'
  <2> SUFFICES ASSUME Sound(x, d) PROVE Sound(x, d)'
    OBVIOUS
  <2>1. stream'[x] # "none" /\ (d = "res" => handler'[x] \in Statuses)
    BY DEF Sound, StreamEnds
  <2>2. ReaderSound(parser'[x][d], wire'[x][d] \o toSend'[x][d], content'[x][d], word(x, d)')
    BY <1>1 DEF Sound, Stays
  <2>3. /\ parser'[x][d].phase = "done" /\ stream'[x] # "closed" => wire'[x][d] = << >> /\ toSend'[x][d] = << >>
        /\ parser'[x][d].phase = "spin" => stream'[x] = "closed"
        /\ ended'[x][d] => toSend'[x][d] = << >>
    BY DEF Sound, Stays, StreamEnds
  <2> QED BY <2>1, <2>2, <2>3 DEF Sound
<1> QED BY <1>2, <1>3 DEF Keeps

(* The request has nothing to do with what the handler does. *)
LEMMA RequestStays ==
    ASSUME NEW x, Stays(x, "req"), StreamEnds(x), Sound(x, "req")
    PROVE  Sound(x, "req")'
<1>1. word(x, "req")' = word(x, "req")
  BY DEF word
<1>2. ReaderSound(parser'[x]["req"], wire'[x]["req"] \o toSend'[x]["req"], content'[x]["req"], word(x, "req")')
  BY <1>1 DEF Sound, Stays
<1> QED BY <1>2 DEF Sound, Stays, StreamEnds

LEMMA FetchKept ==
    ASSUME NEW x, FetchInv(x), Keeps(x, "req"), Keeps(x, "res"), StreamEnds(x),
           handler'[x] = handler[x], stage'[x] \in Early => stage[x] \in Early
    PROVE  FetchInv(x)'
<1>1. stream[x] = "none" <=> stream'[x] = "none"
  BY DEF StreamEnds
<1>2. IF stream'[x] = "none" THEN Nothing(x, "req")' ELSE Sound(x, "req")'
  BY <1>1 DEF FetchInv, Keeps
<1>3. Nothing(x, "res")' \/ Sound(x, "res")'
  BY DEF FetchInv, Keeps
<1>4. handler'[x] \in Statuses /\ stream'[x] = "open" => Sound(x, "res")'
  BY DEF FetchInv, Keeps, StreamEnds
<1>5. stage'[x] \in Early => stream'[x] = "none"
  BY <1>1 DEF FetchInv
<1>6. handler'[x] # "none" => stream'[x] # "none"
  BY <1>1 DEF FetchInv
<1> QED BY <1>2, <1>3, <1>4, <1>5, <1>6 DEF FetchInv

(* Nothing is written or read: the stream of a fetch may end. *)
LEMMA FetchStays ==
    ASSUME NEW x \in Fetches, FetchInv(x), Stays(x, "req"), Stays(x, "res"), StreamEnds(x),
           handler'[x] = handler[x], stage'[x] \in Early => stage[x] \in Early
    PROVE  FetchInv(x)'
BY StaysKeeps, FetchKept

LEMMA FetchStart ==
    ASSUME Init
    PROVE  \A x \in Fetches : FetchInv(x)
<1> SUFFICES ASSUME NEW x \in Fetches PROVE FetchInv(x)
  OBVIOUS
<1>1. Nothing(x, "req") /\ Nothing(x, "res")
  BY DEF Init, Nothing, Directions
<1>2. stream[x] = "none" /\ handler[x] = "none"
  BY DEF Init
<1> QED BY <1>1, <1>2 DEF FetchInv, Statuses

LEMMA WordIsName ==
    ASSUME NEW x, NEW d \in Directions, Sound(x, d)
    PROVE  word(x, d) \in Symbol /\ word(x, d) # "CR"
<1>1. word(x, d) \in Statuses \cup {"POST"}
  BY DEF word, Sound, Directions
<1> QED BY <1>1, Bodies DEF Statuses

LEMMA CellTypes ==
    ASSUME TypeOK, NEW x \in Fetches, NEW d \in Directions
    PROVE  /\ wire[x][d] \in Texts /\ toSend[x][d] \in Texts /\ content[x][d] \in Texts
           /\ parser[x][d] \in Parser /\ wire[x][d] \o toSend[x][d] \in Texts
<1>1. wire[x][d] \in Texts /\ toSend[x][d] \in Texts /\ content[x][d] \in Texts /\ parser[x][d] \in Parser
  BY TableTypes DEF Table
<1> QED BY <1>1, ConcatTyped

(* Of a reader in the head, there is more to come. *)
LEMMA MoreToCome ==
    ASSUME TypeOK, NEW x \in Fetches, NEW d \in Directions, Sound(x, d),
           parser[x][d].phase \in {"start", "headers"}, lineEnds(parser[x][d].rest) = {}
    PROVE  ~(wire[x][d] = << >> /\ toSend[x][d] = << >>)
<1>1. wire[x][d] \o toSend[x][d] # << >>
  <2>1. ReaderSound(parser[x][d], wire[x][d] \o toSend[x][d], content[x][d], word(x, d))
    BY DEF Sound
  <2> QED BY <2>1, WordIsName, CellTypes, HeadGoesOn
<1> QED BY <1>1

LEMMA NoEndInNothing == lineEnds(<< >>) = {} /\ NewParser.rest = << >> /\ NewParser.phase = "start"
BY DEF lineEnds, NewParser

(* While the stream is open, a message is either written or not. *)
LEMMA WrittenIsNotNothing ==
    ASSUME TypeOK, NEW x \in Fetches, NEW d \in Directions, Sound(x, d), stream[x] = "open"
    PROVE  ~Nothing(x, d)
<1> SUFFICES ASSUME Nothing(x, d) PROVE FALSE
  OBVIOUS
<1>1. parser[x][d] = NewParser /\ wire[x][d] = << >> /\ toSend[x][d] = << >>
  BY DEF Nothing
<1>2. parser[x][d].phase \in {"start", "headers"} /\ lineEnds(parser[x][d].rest) = {}
  BY <1>1, NoEndInNothing
<1> QED BY <1>1, <1>2, MoreToCome

(* The head of what is left is sent. *)
LEMMA MoveHead ==
    ASSUME NEW w \in Texts, NEW t \in Texts, t # << >>
    PROVE  Append(w, Head(t)) \o Tail(t) = w \o t
<1>1. Head(t) \in Symbol /\ Tail(t) \in Seq(Symbol) /\ t \in Seq(Symbol) /\ w \in Seq(Symbol)
  BY DEF Texts
<1>2. Append(w, Head(t)) = w \o <<Head(t)>> /\ <<Head(t)>> \in Texts /\ Tail(t) \in Texts
  BY <1>1 DEF Texts
<1>3. <<Head(t)>> \o Tail(t) = t
  <2>1. /\ <<Head(t)>> \o Tail(t) \in Seq(Symbol) /\ Len(<<Head(t)>> \o Tail(t)) = Len(t)
        /\ \A i \in 1 .. Len(t) : (<<Head(t)>> \o Tail(t))[i] = t[i]
    BY <1>1
  <2> QED BY <2>1, <1>1, SeqEqual
<1>4. Associates(w, <<Head(t)>>, Tail(t))
  BY <1>2, ConcatTwice
<1> QED BY <1>2, <1>3, <1>4 DEF Associates

(* Nothing is done to the other cells. *)
Others(x, d) == \A y \in Fetches, e \in Directions : (y # x \/ e # d) => Stays(y, e)

LEMMA SendKeeps ==
    ASSUME TypeOK, NEW x \in Fetches, NEW d \in Directions, FetchInv(x), send(x, d)
    PROVE  Keeps(x, d) /\ Others(x, d)
<1> DEFINE w == wire[x][d]
           t == toSend[x][d]
<1>1. Sound(x, d)
  BY DEF send, writes, FetchInv, Early, Directions
<1>2. stream[x] = "open" /\ ~ended[x][d] /\ ~Nothing(x, d)
  BY <1>1, WrittenIsNotNothing DEF send
<1>3. /\ stream' = stream /\ handler' = handler /\ parser' = parser /\ content' = content
      /\ word(x, d)' = word(x, d)
  BY DEF send, word
<1>4. w \in Texts /\ t \in Texts
  BY CellTypes
<1>5. ASSUME NEW a, NEW b, Put(wire', wire, x, d, a), Put(toSend', toSend, x, d, b), ended' = ended,
             a \o b = w \o t, t # << >>
      PROVE  Keeps(x, d) /\ Others(x, d)
  <2>1. wire'[x][d] = a /\ toSend'[x][d] = b /\ ended'[x][d] = ended[x][d]
    BY <1>5 DEF Put
  <2>2. ReaderSound(parser'[x][d], wire'[x][d] \o toSend'[x][d], content'[x][d], word(x, d)')
    BY <2>1, <1>1, <1>3, <1>5 DEF Sound
  <2>3. Sound(x, d)'
    BY <2>1, <2>2, <1>1, <1>2, <1>3, <1>5 DEF Sound
  <2>4. Others(x, d)
    BY <1>3, <1>5 DEF Others, Stays, Put
  <2> QED BY <2>3, <2>4, <1>2 DEF Keeps
<1>6. CASE t # << >>
  <2>1. Append(w, Head(t)) \o Tail(t) = w \o t
    BY <1>4, <1>6, MoveHead
  <2>2. /\ Put(wire', wire, x, d, Append(w, Head(t))) /\ Put(toSend', toSend, x, d, Tail(t))
        /\ ended' = ended
    BY <1>6, SendCells
  <2> QED BY <2>1, <2>2, <1>5, <1>6
<1>7. CASE t = << >>
  <2>1. wire' = wire /\ toSend' = toSend /\ Put(ended', ended, x, d, TRUE)
    BY <1>7, SendCells
  <2>2. Sound(x, d)'
    BY <2>1, <1>1, <1>3, <1>7 DEF Sound
  <2>3. Others(x, d)
    BY <2>1, <1>3 DEF Others, Stays, Put
  <2> QED BY <2>2, <2>3, <1>2 DEF Keeps
<1> QED BY <1>6, <1>7

(* The reader of a cell has moved on, and nothing else has changed. *)
Moves(x, d, q) ==
    /\ Put(parser', parser, x, d, q)
    /\ UNCHANGED <<stream, handler, wire, toSend, ended, content>>

LEMMA MovesOthers ==
    ASSUME NEW x, NEW d, NEW q, Moves(x, d, q)
    PROVE  Others(x, d) /\ parser'[x][d] = q /\ word(x, d)' = word(x, d)
BY DEF Moves, Others, Stays, Put, word

LEMMA LinePhase ==
    ASSUME NEW p \in Parser, NEW text, NEW rest, p.phase \in {"start", "headers"}
    PROVE  takeLine(p, text, rest).phase = IF p.phase # "start" /\ Len(text) = 2 THEN "body" ELSE "headers"
<1>1. CASE p.phase = "start"
  BY <1>1 DEF Parser, takeLine
<1>2. CASE p.phase = "headers" /\ Len(text) = 2
  BY <1>2 DEF Parser, takeLine
<1>3. CASE p.phase = "headers" /\ Len(text) # 2
  <2>1. PICK more : takeLine(p, text, rest) = [p EXCEPT !.headers = more, !.rest = rest, !.line = << >>]
    BY <1>3 DEF takeLine
  <2> QED BY <2>1, <1>3 DEF Parser
<1> QED BY <1>1, <1>2, <1>3

LEMMA ReadKeeps ==
    ASSUME TypeOK, NEW x \in Fetches, NEW d \in Directions, readLine(x, d)
    PROVE  Keeps(x, d) /\ Others(x, d)
<1> DEFINE p == parser[x][d]
           q == takeLine(p, textOf(p), moreOf(p))
<1>1. p.phase \in {"start", "headers"} /\ lineEnds(p.rest) # {} /\ Moves(x, d, q)
  BY ReadCells DEF readLine, Moves
<1>2. Others(x, d) /\ parser'[x][d] = q /\ word(x, d)' = word(x, d)
  BY <1>1, MovesOthers
<1>3. ~Nothing(x, d)
  BY <1>1, NoEndInNothing DEF Nothing
<1>4. ASSUME Sound(x, d) PROVE Sound(x, d)'
  <2>1. p \in Parser /\ content[x][d] \in Texts /\ wire[x][d] \o toSend[x][d] \in Texts
    BY CellTypes
  <2>2. ReaderSound(p, wire[x][d] \o toSend[x][d], content[x][d], word(x, d))
    BY <1>4 DEF Sound
  <2>3. word(x, d) \in Symbol /\ word(x, d) # "CR"
    BY <1>4, WordIsName
  <2>4. textOf(p) \in Texts /\ moreOf(p) \in Texts
    <3>1. PICK first, after : InLine(p, wire[x][d] \o toSend[x][d], first, after)
      BY <1>1, <2>1, <2>2, <2>3, HeadIsLine
    <3>2. ReadTo(p, wire[x][d] \o toSend[x][d], first, after)
      BY <1>1, <2>1, <3>1, LineIsFirst
    <3> QED BY <3>1, <3>2 DEF ReadTo, InLine
  <2>5. q.phase \in {"headers", "body"}
    <3>1. q.phase = IF p.phase # "start" /\ Len(textOf(p)) = 2 THEN "body" ELSE "headers"
      BY <1>1, <2>1, LinePhase
    <3> QED BY <3>1
  <2>6. ReaderSound(q, wire[x][d] \o toSend[x][d], content[x][d], word(x, d))
    BY <1>1, <2>1, <2>2, <2>3, LineSound
  <2> HIDE DEF q
  <2> QED BY <1>1, <1>2, <1>4, <2>5, <2>6 DEF Sound, Moves
<1> QED BY <1>2, <1>3, <1>4 DEF Keeps

LEMMA ChunkPhase ==
    ASSUME NEW p \in Parser, NEW chunk
    PROVE  takeChunk(p, chunk).phase = p.phase
BY DEF Parser, takeChunk

LEMMA ReceiveKeeps ==
    ASSUME TypeOK, SplitCRLF = FALSE, NEW x \in Fetches, NEW d \in Directions, receive(x, d)
    PROVE  Keeps(x, d) /\ Others(x, d)
<1> DEFINE p == parser[x][d]
           t == toSend[x][d]
<1>1. PICK n, chunk, rest : Received(x, d, n, chunk, rest)
  BY ReceiveCells
<1>2. /\ chunk \in Texts /\ rest \in Texts /\ chunk # << >> /\ chunk[Len(chunk)] # "CR"
      /\ wire[x][d] = chunk \o rest
  BY <1>1 DEF Received, Cut
<1>3. /\ stream' = stream /\ handler' = handler /\ content' = content /\ toSend' = toSend /\ ended' = ended
      /\ word(x, d)' = word(x, d)
  BY DEF receive, word
<1>4. /\ wire'[x][d] = rest /\ parser'[x][d] = takeChunk(p, chunk)
      /\ toSend'[x][d] = t /\ content'[x][d] = content[x][d] /\ ended'[x][d] = ended[x][d]
  BY <1>1, <1>3 DEF Received, Put
<1>5. Others(x, d)
  BY <1>1, <1>3 DEF Received, Others, Stays, Put
<1>6. \/ p.phase \in {"start", "headers"} /\ lineEnds(p.rest) = {}
      \/ p.phase = "body"
  BY DEF receive, wants
<1>7. /\ p \in Parser /\ t \in Texts /\ content[x][d] \in Texts /\ wire[x][d] \o t \in Texts
  BY CellTypes
<1>8. takeChunk(p, chunk).phase = p.phase
  BY <1>7, ChunkPhase
<1>9. ~Nothing(x, d)
  <2> SUFFICES ASSUME Nothing(x, d) PROVE FALSE
    OBVIOUS
  <2>1. chunk \o rest = << >>
    BY <1>2 DEF Nothing
  <2>2. Len(chunk \o rest) = Len(chunk) + Len(rest) /\ Len(chunk) \in Nat /\ Len(rest) \in Nat /\ Len(chunk) # 0
    BY <1>2 DEF Texts
  <2> QED BY <2>1, <2>2
<1>10. ASSUME Sound(x, d) PROVE Sound(x, d)'
  <2>1. ReaderSound(p, wire[x][d] \o t, content[x][d], word(x, d))
    BY <1>10 DEF Sound
  <2>2. word(x, d) \in Symbol /\ word(x, d) # "CR"
    BY <1>10, WordIsName
  <2>3. Joins(wire[x][d] \o t, chunk, rest \o t) /\ rest \o t \in Texts
    <3>1. Associates(chunk, rest, t)
      BY <1>2, <1>7, ConcatTwice
    <3> QED BY <3>1, <1>2, <1>7, ConcatTyped DEF Joins, Associates
  <2>4. ReaderSound(takeChunk(p, chunk), rest \o t, content[x][d], word(x, d))
    BY <1>2, <1>6, <1>7, <2>1, <2>2, <2>3, ChunkSound
  <2>5. ReaderSound(parser'[x][d], wire'[x][d] \o toSend'[x][d], content'[x][d], word(x, d)')
    BY <1>3, <1>4, <2>4
  <2> QED BY <1>3, <1>4, <1>6, <1>8, <1>10, <2>5 DEF Sound
<1> QED BY <1>5, <1>9, <1>10 DEF Keeps

(* The phase of a reader is set, to one that follows it. *)
LEMMA PhaseMoves ==
    ASSUME TypeOK, NEW x \in Fetches, NEW d \in Directions, NEW f \in {"done", "spin", "failed"},
           PhasePut(x, d, f), UNCHANGED <<handler, wire, toSend, ended, content>>, StreamEnds(x),
           f = "done" => parser[x][d].phase = "body",
           f = "done" /\ stream'[x] # "closed" /\ Sound(x, d) => wire[x][d] = << >> /\ toSend[x][d] = << >>,
           f = "spin" => stream'[x] = "closed",
           f = "failed" => stream'[x] = "broken" \/ parser[x][d].phase = "body"
    PROVE  Keeps(x, d) /\ parser' \in Table(Parser)
<1> DEFINE p == parser[x][d]
           q == [p EXCEPT !.phase = f]
<1>1. f \in Phases
  BY DEF Phases
<1>2. parser' \in Table(Parser) /\ parser'[x][d] = q
  BY <1>1, PhaseCell DEF Put
<1>3. p \in Parser
  BY CellTypes
<1>4. /\ q.phase = f /\ q.start = p.start /\ q.headers = p.headers /\ q.body = p.body
  BY <1>1, <1>3, PhaseSet
<1> HIDE DEF q
<1>5. word(x, d)' = word(x, d)
  BY DEF word
<1>6. ASSUME Sound(x, d) PROVE Sound(x, d)'
  <2>1. ReaderSound(p, wire[x][d] \o toSend[x][d], content[x][d], word(x, d))
    BY <1>6 DEF Sound
  <2>2. ReaderSound(q, wire[x][d] \o toSend[x][d], content[x][d], word(x, d))
    BY <2>1, <1>4 DEF ReaderSound
  <2>3. stream'[x] # "none"
    BY <1>6 DEF Sound, StreamEnds
  <2> QED BY <1>2, <1>4, <1>5, <1>6, <2>2, <2>3 DEF Sound
<1>7. ASSUME Nothing(x, d) PROVE Nothing(x, d)'
  <2>1. p.phase # "body"
    BY <1>7, NoEndInNothing DEF Nothing
  <2> QED BY <1>2, <1>4, <1>7, <2>1 DEF Nothing
<1> QED BY <1>2, <1>6, <1>7 DEF Keeps

LEMMA EndKeeps ==
    ASSUME TypeOK, NEW x \in Fetches, NEW d \in Directions, Sound(x, d) \/ Nothing(x, d), receiveEnd(x, d)
    PROVE  Keeps(x, d) /\ Others(x, d)
<1> DEFINE p == parser[x][d]
           f == endPhase(p.phase)
<1>1. PhasePut(x, d, f)
  BY EndPhase
<1>2. /\ \/ p.phase \in {"start", "headers"} /\ lineEnds(p.rest) = {}
         \/ p.phase = "body"
      /\ stream[x] = "closed" \/ (ended[x][d] /\ wire[x][d] = << >>)
      /\ UNCHANGED <<stream, handler, wire, toSend, ended, content>>
  BY DEF receiveEnd, wants
<1>3. f \in {"done", "spin"} /\ (f = "done" <=> p.phase = "body")
  BY <1>2 DEF endPhase
<1>4. StreamEnds(x)
  BY <1>2 DEF StreamEnds
<1>5. ASSUME f = "done", stream'[x] # "closed", Sound(x, d)
      PROVE  wire[x][d] = << >> /\ toSend[x][d] = << >>
  BY <1>2, <1>5 DEF Sound
<1>6. ASSUME f = "spin" PROVE stream'[x] = "closed"
  <2>1. CASE Sound(x, d)
    <3>1. ~(wire[x][d] = << >> /\ toSend[x][d] = << >>)
      BY <1>2, <1>3, <1>6, <2>1, MoreToCome
    <3> QED BY <3>1, <1>2, <2>1 DEF Sound
  <2>2. CASE Nothing(x, d)
    BY <1>2, <2>2 DEF Nothing
  <2> QED BY <2>1, <2>2
<1>7. Others(x, d)
  <2>1. Put(parser', parser, x, d, [p EXCEPT !.phase = f])
    BY <1>1, <1>3, PhaseCell DEF Phases
  <2>2. Moves(x, d, [p EXCEPT !.phase = f])
    BY <2>1, <1>2 DEF Moves
  <2> QED BY <2>2, MovesOthers
<1> HIDE DEF f
<1>8. Keeps(x, d)
  BY <1>1, <1>2, <1>3, <1>4, <1>5, <1>6, PhaseMoves
<1> QED BY <1>7, <1>8

LEMMA ErrorKeeps ==
    ASSUME TypeOK, NEW x \in Fetches, NEW d \in Directions, receiveError(x, d)
    PROVE  Keeps(x, d) /\ Others(x, d)
<1>1. /\ PhasePut(x, d, "failed") /\ stream[x] = "broken" /\ "failed" \in Phases
      /\ UNCHANGED <<stream, handler, wire, toSend, ended, content>>
  BY DEF receiveError, PhasePut, Phases
<1>2. StreamEnds(x)
  BY <1>1 DEF StreamEnds
<1>3. Others(x, d)
  <2>1. Moves(x, d, [parser[x][d] EXCEPT !.phase = "failed"])
    BY <1>1, PhaseCell DEF Moves
  <2> QED BY <2>1, MovesOthers
<1>4. Keeps(x, d)
  BY <1>1, <1>2, PhaseMoves
<1> QED BY <1>3, <1>4

(* A fetch to which nothing happens but that its stream ends, or its stage goes on. *)
Idles(x) ==
    /\ Stays(x, "req") /\ Stays(x, "res") /\ StreamEnds(x)
    /\ handler'[x] = handler[x] /\ (stage'[x] \in Early => stage[x] \in Early)

LEMMA IdlesKept ==
    ASSUME NEW x \in Fetches, FetchInv(x), Idles(x)
    PROVE  FetchInv(x)'
BY FetchStays DEF Idles

LEMMA InvTransfer ==
    ASSUME Http2pInv, SplitCRLF = FALSE, NEW x \in Fetches, NEW d \in Directions, Transfer(x, d),
           NEW y \in Fetches
    PROVE  FetchInv(y)'
<1>1. TypeOK /\ FetchInv(x) /\ FetchInv(y)
  BY DEF Http2pInv
<1>2. stream' = stream /\ handler' = handler
  BY DEF Transfer, send, readLine, receive, receiveEnd, receiveError
<1>3. stage'[y] \in Early => stage[y] \in Early
  <2>1. CASE receiveError(x, d)
    BY <1>1, <2>1 DEF receiveError, Early, TypeOK
  <2>2. CASE ~receiveError(x, d)
    BY <2>2 DEF Transfer, send, readLine, receive, receiveEnd, clientVars
  <2> QED BY <2>1, <2>2
<1>4. Keeps(x, d) /\ Others(x, d)
  <2>1. CASE send(x, d)
    BY <1>1, <2>1, SendKeeps
  <2>2. CASE readLine(x, d)
    BY <1>1, <2>2, ReadKeeps
  <2>3. CASE receive(x, d)
    BY <1>1, <2>3, ReceiveKeeps
  <2>4. CASE receiveEnd(x, d)
    <3>1. Sound(x, d) \/ Nothing(x, d)
      BY <1>1 DEF FetchInv, Directions
    <3> QED BY <1>1, <2>4, <3>1, EndKeeps
  <2>5. CASE receiveError(x, d)
    BY <1>1, <2>5, ErrorKeeps
  <2> QED BY <2>1, <2>2, <2>3, <2>4, <2>5 DEF Transfer
<1>5. StreamEnds(y)
  BY <1>2 DEF StreamEnds
<1>6. \A e \in Directions : (y # x \/ e # d) => Keeps(y, e)
  BY <1>2, <1>4, <1>5, StaysKeeps DEF Others
<1>7. Keeps(y, "req") /\ Keeps(y, "res")
  BY <1>4, <1>6 DEF Directions
<1> QED BY <1>1, <1>2, <1>3, <1>5, <1>7, FetchKept

(* The request is written into a new stream. *)
LEMMA InvDial ==
    ASSUME Http2pInv, NEW x \in Fetches, dial(x), NEW y \in Fetches
    PROVE  FetchInv(y)'
<1>1. TypeOK /\ FetchInv(x) /\ FetchInv(y) /\ stage[x] \in Early /\ stream[x] = "none" /\ handler[x] = "none"
  BY DEF Http2pInv, FetchInv, dial, Early
<1>2. Nothing(x, "req") /\ (Nothing(x, "res") \/ Sound(x, "res")) /\ ~Sound(x, "res")
  BY <1>1 DEF FetchInv, Sound
<1>3. handler' = handler /\ ended' = ended /\ parser' = parser
  BY DEF dial
<1>4. CASE UNCHANGED <<stream, wire, toSend, content>>
  <2>1. stage'[y] \in Early => stage[y] \in Early
    BY <1>1 DEF dial, Early, TypeOK
  <2>2. Idles(y)
    BY <1>3, <1>4, <2>1 DEF Idles, Stays, StreamEnds
  <2> QED BY <1>1, <2>2, IdlesKept
<1>5. ASSUME NEW body \in RequestBodies, write(x, "req", "POST", body),
             stream' = [stream EXCEPT ![x] = "open"], stage' = [stage EXCEPT ![x] = "headers"]
      PROVE  FetchInv(y)'
  <2>1. body \in Texts /\ "POST" \in Symbol /\ "req" \in Directions /\ "res" \in Directions
    BY Bodies DEF Directions
  <2>2. /\ Put(wire', wire, x, "req", head("POST")) /\ Put(toSend', toSend, x, "req", body)
        /\ Put(content', content, x, "req", body)
    BY <1>1, <1>5, <2>1, WriteCells
  <2>3. CASE y # x
    <3>1. Stays(y, "req") /\ Stays(y, "res")
      BY <1>3, <2>1, <2>2, <2>3 DEF Stays, Put
    <3>2. Idles(y)
      BY <1>1, <1>3, <1>5, <2>3, <3>1 DEF Idles, StreamEnds, TypeOK
    <3> QED BY <1>1, <3>2, IdlesKept
  <2>4. CASE y = x
    <3>1. stream'[x] = "open" /\ stage'[x] = "headers" /\ handler'[x] = "none"
      BY <1>1, <1>3, <1>5 DEF TypeOK
    <3>2. Sound(x, "req")'
      <4>1. ReaderSound(NewParser, head("POST") \o body, body, "POST")
        BY <2>1, WrittenSound
      <4>2. /\ wire'[x]["req"] = head("POST") /\ toSend'[x]["req"] = body /\ content'[x]["req"] = body
            /\ parser'[x]["req"] = NewParser /\ ended'[x]["req"] = FALSE
        BY <1>1, <1>2, <1>3, <2>2 DEF Nothing, Put
      <4>3. ReaderSound(parser'[x]["req"], wire'[x]["req"] \o toSend'[x]["req"], content'[x]["req"], word(x, "req")')
        BY <4>1, <4>2 DEF word
      <4> QED BY <3>1, <4>2, <4>3, NoEndInNothing DEF Sound
    <3>3. Nothing(x, "res")'
      <4>1. /\ wire'[x]["res"] = wire[x]["res"] /\ toSend'[x]["res"] = toSend[x]["res"]
            /\ content'[x]["res"] = content[x]["res"]
        BY <2>1, <2>2 DEF Put
      <4>2. parser[x]["res"] = NewParser
        BY <1>1, <1>2 DEF Nothing
      <4> QED BY <1>2, <1>3, <4>1, <4>2 DEF Nothing
    <3> QED BY <2>4, <3>1, <3>2, <3>3 DEF FetchInv, Early, Statuses
  <2> QED BY <2>3, <2>4
<1> QED BY <1>4, <1>5 DEF dial

(* What does not touch the streams, or ends them. *)
LEMMA InvEnds ==
    ASSUME Http2pInv, NEW x \in Fetches,
           \/ fetch(x) \/ ping(x) \/ checkEnds(x) \/ abort(x) \/ responds(x) \/ breaks(x)
           \/ closeServer \/ stopClient,
           NEW y \in Fetches
    PROVE  FetchInv(y)'
<1>1. TypeOK /\ FetchInv(y)
  BY DEF Http2pInv
<1>2. UNCHANGED <<handler, wire, toSend, ended, parser, content>>
  BY DEF fetch, ping, checkEnds, abort, responds, breaks, closeServer, stopClient
<1>3. stage'[y] \in Early => stage[y] \in Early
  BY <1>1 DEF fetch, ping, checkEnds, abort, responds, breaks, closeServer, stopClient, clientVars, Early, TypeOK
<1>4. StreamEnds(y)
  BY <1>1 DEF fetch, ping, checkEnds, abort, responds, breaks, closeServer, stopClient, StreamEnds, TypeOK
<1>5. Idles(y)
  BY <1>2, <1>3, <1>4 DEF Idles, Stays
<1> QED BY <1>1, <1>5, IdlesKept

LEMMA InvCancel ==
    ASSUME Http2pInv, NEW x \in Fetches, cancel(x), NEW y \in Fetches
    PROVE  FetchInv(y)'
<1>1. TypeOK /\ FetchInv(y) /\ "res" \in Directions /\ "req" \in Directions
  BY DEF Http2pInv, Directions
<1>2. /\ PhasePut(x, "res", "failed") /\ "failed" \in Phases /\ parser[x]["res"].phase = "body"
      /\ UNCHANGED <<handler, wire, toSend, ended, content>> /\ stage' = stage
  BY DEF cancel, PhasePut, Phases, clientVars
<1>3. StreamEnds(y) /\ StreamEnds(x)
  BY <1>1 DEF cancel, StreamEnds, TypeOK
<1>4. Put(parser', parser, x, "res", [parser[x]["res"] EXCEPT !.phase = "failed"])
  BY <1>1, <1>2, PhaseCell
<1>5. Keeps(x, "res")
  BY <1>1, <1>2, <1>3, PhaseMoves
<1>6. Stays(y, "req") /\ (y # x => Stays(y, "res"))
  BY <1>1, <1>2, <1>4 DEF Put, Stays
<1>7. Keeps(y, "req") /\ Keeps(y, "res")
  BY <1>2, <1>3, <1>5, <1>6, StaysKeeps
<1> QED BY <1>1, <1>2, <1>3, <1>7, FetchKept

(* The listeners are asked, or answer: the response is written into a stream that is open. *)
LEMMA InvAnswer ==
    ASSUME Http2pInv, NEW x \in Fetches, NEW name \in Statuses, NEW body \in Texts, answer(x, name, body),
           handler[x] \notin Statuses, stream[x] # "none",
           UNCHANGED <<closed, stopped, check, clientVars, stream, ended, parser>>,
           NEW y \in Fetches
    PROVE  FetchInv(y)'
<1>1. TypeOK /\ FetchInv(x) /\ FetchInv(y) /\ name \in Symbol /\ name # "CR"
  BY Bodies DEF Http2pInv, Statuses
<1>2. handler' = [handler EXCEPT ![x] = name] /\ handler'[x] = name
  BY <1>1 DEF answer, TypeOK
<1>3. stage' = stage /\ stream' = stream /\ ended' = ended /\ parser' = parser
  BY DEF clientVars
<1>4. "req" \in Directions /\ "res" \in Directions /\ StreamEnds(y) /\ StreamEnds(x)
  BY <1>3 DEF Directions, StreamEnds
<1>5. Nothing(x, "res") /\ Sound(x, "req")
  BY <1>1 DEF FetchInv, Sound
<1>6. ASSUME \A z \in Fetches, e \in Directions : (z # x \/ e # "res") => Stays(z, e)
      PROVE  (y # x => FetchInv(y)') /\ Sound(x, "req")'
  <2>1. ASSUME y # x PROVE FetchInv(y)'
    <3>1. Idles(y)
      BY <1>1, <1>2, <1>3, <1>4, <1>6, <2>1 DEF Idles, TypeOK
    <3> QED BY <1>1, <3>1, IdlesKept
  <2>2. Sound(x, "req")'
    BY <1>3, <1>4, <1>5, <1>6, RequestStays
  <2> QED BY <2>1, <2>2
<1>7. CASE stream[x] = "open"
  <2>1. write(x, "res", name, body)
    BY <1>7 DEF answer
  <2>2. /\ Put(wire', wire, x, "res", head(name)) /\ Put(toSend', toSend, x, "res", body)
        /\ Put(content', content, x, "res", body)
    BY <1>1, <1>4, <2>1, WriteCells
  <2>3. \A z \in Fetches, e \in Directions : (z # x \/ e # "res") => Stays(z, e)
    BY <1>3, <2>2 DEF Put, Stays
  <2>4. (y # x => FetchInv(y)') /\ Sound(x, "req")'
    BY <2>3, <1>6
  <2>5. Sound(x, "res")'
    <3>1. ReaderSound(NewParser, head(name) \o body, body, name)
      BY <1>1, WrittenSound
    <3>2. /\ wire'[x]["res"] = head(name) /\ toSend'[x]["res"] = body /\ content'[x]["res"] = body
          /\ parser'[x]["res"] = NewParser /\ ended'[x]["res"] = FALSE /\ stream'[x] = "open"
      BY <1>3, <1>5, <1>7, <2>2 DEF Nothing, Put
    <3>3. ReaderSound(parser'[x]["res"], wire'[x]["res"] \o toSend'[x]["res"], content'[x]["res"], word(x, "res")')
      BY <1>2, <3>1, <3>2 DEF word
    <3> QED BY <1>2, <3>2, <3>3, NoEndInNothing DEF Sound
  <2> QED BY <1>1, <1>3, <1>7, <2>4, <2>5 DEF FetchInv
<1>8. CASE stream[x] # "open"
  <2>1. UNCHANGED <<wire, toSend, content>>
    BY <1>8 DEF answer
  <2>2. \A z \in Fetches, e \in Directions : Stays(z, e)
    BY <1>3, <2>1 DEF Stays
  <2>3. (y # x => FetchInv(y)') /\ Sound(x, "req")'
    BY <2>2, <1>6
  <2>4. Nothing(x, "res")'
    BY <1>3, <1>5, <2>1 DEF Nothing
  <2> QED BY <1>1, <1>3, <1>8, <2>3, <2>4 DEF FetchInv
<1> QED BY <1>7, <1>8

(* A listener that waits, or gives nothing that can be sent. *)
LEMMA InvWaits ==
    ASSUME Http2pInv, NEW x \in Fetches, NEW name \in {"waiting", "silent"},
           handler' = [handler EXCEPT ![x] = name], handler[x] \notin Statuses, stream[x] # "none",
           UNCHANGED <<wire, toSend, content>>,
           UNCHANGED <<closed, stopped, check, clientVars, stream, ended, parser>>,
           NEW y \in Fetches
    PROVE  FetchInv(y)'
<1>1. TypeOK /\ FetchInv(x) /\ FetchInv(y) /\ stage' = stage
  BY DEF Http2pInv, clientVars
<1>2. Stays(y, "req") /\ Stays(y, "res") /\ StreamEnds(y)
  BY DEF Stays, StreamEnds
<1>3. CASE y # x
  <2>1. Idles(y)
    BY <1>1, <1>2, <1>3 DEF Idles, TypeOK
  <2> QED BY <1>1, <2>1, IdlesKept
<1>4. CASE y = x
  <2>1. handler'[x] = name /\ name \notin Statuses
    BY <1>1 DEF TypeOK, Statuses
  <2>2. Nothing(x, "res") /\ Sound(x, "req")
    BY <1>1 DEF FetchInv, Sound
  <2>3. Sound(x, "req")' /\ Nothing(x, "res")'
    <3>1. Nothing(x, "res")'
      BY <2>2 DEF Nothing
    <3> QED BY <1>2, <1>4, <2>2, <3>1, RequestStays
  <2> QED BY <1>1, <1>4, <2>1, <2>3 DEF FetchInv
<1> QED BY <1>3, <1>4

LEMMA InvServer ==
    ASSUME Http2pInv, NEW x \in Fetches, dispatch(x) \/ respond(x), NEW y \in Fetches
    PROVE  FetchInv(y)'
<1>1. FetchInv(x) /\ handler[x] \notin Statuses /\ stream[x] # "none"
  <2>1. FetchInv(x) /\ handler[x] \in {"none", "waiting"}
    BY DEF Http2pInv, dispatch, respond
  <2>2. CASE handler[x] = "none"
    <3>1. parser[x]["req"].phase \in {"body", "done"}
      BY <2>2 DEF dispatch, respond, requested, hasMime
    <3>2. ~Nothing(x, "req")
      BY <3>1, NoEndInNothing DEF Nothing
    <3> QED BY <2>1, <2>2, <3>2 DEF FetchInv, Statuses
  <2>3. CASE handler[x] = "waiting"
    BY <2>1, <2>3 DEF FetchInv, Statuses
  <2> QED BY <2>1, <2>2, <2>3
<1>2. /\ "200" \in Statuses /\ "204" \in Statuses /\ "404" \in Statuses /\ "500" \in Statuses
      /\ << >> \in Texts /\ <<"stack">> \in Texts /\ ResponseBodies \subseteq Texts
  BY Bodies DEF Statuses
<1>3. UNCHANGED <<closed, stopped, check, clientVars, stream, ended, parser>>
  BY DEF dispatch, respond
<1>4. ASSUME NEW name \in Statuses, NEW body \in Texts, answer(x, name, body) PROVE FetchInv(y)'
  BY <1>1, <1>3, <1>4, InvAnswer
<1>5. ASSUME NEW name \in {"waiting", "silent"}, handler' = [handler EXCEPT ![x] = name],
             UNCHANGED <<wire, toSend, content>>
      PROVE  FetchInv(y)'
  BY <1>1, <1>3, <1>5, InvWaits
<1>6. CASE dispatch(x)
  BY <1>2, <1>4, <1>5, <1>6 DEF dispatch
<1>7. CASE respond(x)
  BY <1>2, <1>4, <1>5, <1>7 DEF respond
<1> QED BY <1>6, <1>7

LEMMA InvStep ==
    ASSUME Http2pInv, SplitCRLF = FALSE, [Next]_vars
    PROVE  Http2pInv'
<1>1. TypeOK'
  BY TypeKept DEF Http2pInv
<1>2. ASSUME NEW y \in Fetches PROVE FetchInv(y)'
  <2>1. CASE closeServer \/ stopClient
    BY <2>1, InvEnds
  <2>2. ASSUME NEW x \in Fetches, fetch(x) \/ abort(x) \/ cancel(x) \/ Exchange(x) PROVE FetchInv(y)'
    <3>1. CASE \E d \in Directions : Transfer(x, d)
      BY <3>1, InvTransfer
    <3>2. CASE fetch(x) \/ ping(x) \/ checkEnds(x) \/ abort(x) \/ responds(x) \/ breaks(x)
      BY <3>2, InvEnds
    <3>3. CASE dial(x)
      BY <3>3, InvDial
    <3>4. CASE cancel(x)
      BY <3>4, InvCancel
    <3>5. CASE dispatch(x) \/ respond(x)
      BY <3>5, InvServer
    <3> QED BY <2>2, <3>1, <3>2, <3>3, <3>4, <3>5 DEF Exchange, Progress
  <2>3. CASE UNCHANGED vars
    <3>1. FetchInv(y) /\ Idles(y)
      BY <2>3 DEF vars, clientVars, Http2pInv, Idles, Stays, StreamEnds
    <3> QED BY <3>1, IdlesKept
  <2> QED BY <2>1, <2>2, <2>3 DEF Next
<1> QED BY <1>1, <1>2 DEF Http2pInv

LEMMA InvStart == Init => Http2pInv
BY TypeStart, FetchStart DEF Http2pInv

-----------------------------------------------------------------------------
(* What the invariant says of a message. *)

LEMMA SoundIfRead ==
    ASSUME Http2pInv, NEW x \in Fetches, NEW d \in Directions, hasMime(x, d)
    PROVE  Sound(x, d)
<1>1. ~Nothing(x, d)
  BY NoEndInNothing DEF Nothing, hasMime
<1> QED BY <1>1 DEF Http2pInv, FetchInv, Directions

LEMMA BeginsWith ==
    ASSUME NEW a \in Texts, NEW b \in Texts
    PROVE  IsPrefix(a, a \o b)
<1> DEFINE s == a \o b
<1>1. /\ a \in Seq(Symbol) /\ s \in Seq(Symbol) /\ Len(a) \in Nat /\ Len(a) <= Len(s)
      /\ \A i \in 1 .. Len(a) : s[i] = a[i]
  BY DEF Texts
<1> HIDE DEF s
<1>2. SubSeq(a, 1, Len(a)) = a
  BY <1>1
<1>3. SubSeq(s, 1, Len(a)) = a
  BY <1>1
<1>4. IsPrefix(a, s)
  BY <1>1, <1>2, <1>3 DEF IsPrefix
<1> QED BY <1>4 DEF s

LEMMA HeadFromInv == Http2pInv => HeadIntact
<1> SUFFICES ASSUME Http2pInv, NEW x \in Fetches, NEW d \in Directions, hasMime(x, d)
             PROVE  /\ parser[x][d].start = <<IF d = "req" THEN "POST" ELSE handler[x], "CR", "LF">>
                    /\ parser[x][d].headers = << <<"header", "CR", "LF">> >>
                    /\ IsPrefix(parser[x][d].body, content[x][d])
  BY DEF HeadIntact
<1> DEFINE p == parser[x][d]
           w == wire[x][d] \o toSend[x][d]
<1>1. ReaderSound(p, w, content[x][d], word(x, d))
  BY SoundIfRead DEF Sound
<1>2. p.start = lineOf(word(x, d)) /\ p.headers = <<header>> /\ p.body \o w = content[x][d]
  BY <1>1 DEF ReaderSound, hasMime
<1>3. p.body \in Texts /\ w \in Texts
  <2>1. TypeOK
    BY DEF Http2pInv
  <2> QED BY <2>1, CellTypes, ParserParts
<1>4. IsPrefix(p.body, content[x][d])
  BY <1>2, <1>3, BeginsWith
<1> QED BY <1>2, <1>4 DEF lineOf, header, word

LEMMA EndFromInv == Http2pInv => EndMeansWhole
<1> SUFFICES ASSUME Http2pInv, NEW x \in Fetches, NEW d \in Directions,
                    parser[x][d].phase \in {"done", "spin"}, stream[x] # "closed"
             PROVE  parser[x][d].phase = "done" /\ parser[x][d].body = content[x][d]
  BY DEF EndMeansWhole
<1>1. TypeOK /\ (Nothing(x, d) \/ Sound(x, d))
  BY DEF Http2pInv, FetchInv, Directions
<1>2. Sound(x, d)
  BY <1>1, NoEndInNothing DEF Nothing
<1>3. parser[x][d].phase = "done" /\ wire[x][d] = << >> /\ toSend[x][d] = << >>
  BY <1>2 DEF Sound
<1>4. parser[x][d].body \o (<< >> \o << >>) = content[x][d]
  BY <1>2, <1>3 DEF Sound, ReaderSound
<1>5. parser[x][d].body \in Texts
  BY <1>1, CellTypes, ParserParts
<1>6. parser[x][d].body \o (<< >> \o << >>) = parser[x][d].body
  BY <1>5 DEF Texts
<1> QED BY <1>3, <1>4, <1>6

(* However a message is cut into chunks, but for a cut within CRLF, whatever the bodies
   are, and whoever closes or breaks a stream, sourceToMime reads the start line and the
   header that were written, and no more than a beginning of the body. *)
THEOREM HeadStaysIntact ==
    ASSUME SplitCRLF = FALSE
    PROVE  Spec => []HeadIntact
BY InvStart, InvStep, HeadFromInv, PTL DEF Spec

(* Nor does a message end for its reader, or a node get stuck in the header loop,
   before all of it was read, unless the client closed the stream. *)
THEOREM WholeAtTheEnd ==
    ASSUME SplitCRLF = FALSE
    PROVE  Spec => []EndMeansWhole
BY InvStart, InvStep, EndFromInv, PTL DEF Spec

-----------------------------------------------------------------------------
(* The callers of fetch. *)

CallersTyped ==
    /\ web \in [Fetches -> {"none", "waiting", "head", "ended", "local"}]
    /\ sent \in [Fetches -> Texts]

(* A body that has ended for the web was written to its end. *)
WebInv(x) == web[x] = "ended" => parser[x]["res"].phase = "done" /\ sent[x] = parser[x]["res"].body

ClientsInv == Http2pInv /\ CallersTyped /\ \A x \in Fetches : WebInv(x)

LEMMA ClientsStart == ClientsInit => ClientsInv
<1> SUFFICES ASSUME ClientsInit PROVE ClientsInv
  OBVIOUS
<1>1. Http2pInv
  BY InvStart DEF ClientsInit
<1>2. CallersTyped
  BY Bodies DEF ClientsInit, CallersTyped
<1>3. \A x \in Fetches : WebInv(x)
  BY DEF ClientsInit, Init, WebInv
<1> QED BY <1>1, <1>2, <1>3 DEF ClientsInv

(* What the callers do, they do through Http2p. *)
LEMMA ClientsUse ==
    ASSUME [ClientsNext]_<<vars, callerVars>>
    PROVE  [Next]_vars
BY DEF ClientsNext, Next, listener, answersItself, forwards, writeHead, writeBody, serviceUp,
       dialAddress, stopMdns

(* A body that was read to its end is not touched again. *)
LEMMA DoneStays ==
    ASSUME TypeOK, NEW y \in Fetches, parser[y]["res"].phase = "done", [Next]_vars
    PROVE  parser'[y]["res"] = parser[y]["res"]
<1>1. "res" \in Directions
  BY DEF Directions
<1>2. ASSUME NEW x \in Fetches, NEW d \in Directions, NEW q, Put(parser', parser, x, d, q),
             parser[x][d].phase # "done"
      PROVE  parser'[y]["res"] = parser[y]["res"]
  <2>1. y # x \/ "res" # d
    BY <1>2
  <2> QED BY <1>1, <1>2, <2>1 DEF Put
<1>3. ASSUME NEW x \in Fetches, NEW d \in Directions, Transfer(x, d)
      PROVE  parser'[y]["res"] = parser[y]["res"]
  <2>1. CASE send(x, d)
    BY <2>1 DEF send
  <2>2. CASE readLine(x, d)
    BY <1>2, <2>2, ReadCells
  <2>3. CASE receive(x, d)
    BY <1>2, <2>3, ReceiveCells DEF Received, receive, wants
  <2>4. CASE receiveEnd(x, d)
    BY <1>2, <2>4, EndPhase, PhaseCell DEF receiveEnd, wants
  <2>5. CASE receiveError(x, d)
    <3>1. PhasePut(x, d, "failed") /\ "failed" \in Phases
      BY <2>5 DEF receiveError, PhasePut, Phases
    <3> QED BY <1>2, <2>5, <3>1, PhaseCell DEF receiveError, wants
  <2> QED BY <1>3, <2>1, <2>2, <2>3, <2>4, <2>5 DEF Transfer
<1>4. ASSUME NEW x \in Fetches, cancel(x)
      PROVE  parser'[y]["res"] = parser[y]["res"]
  <2>1. PhasePut(x, "res", "failed") /\ "failed" \in Phases /\ parser[x]["res"].phase # "done"
    BY <1>4 DEF cancel, PhasePut, Phases
  <2> QED BY <1>1, <1>2, <2>1, PhaseCell
<1>5. CASE UNCHANGED parser
  BY <1>5
<1>6. ASSUME NEW x \in Fetches, fetch(x) \/ abort(x) \/ cancel(x) \/ Exchange(x)
      PROVE  parser'[y]["res"] = parser[y]["res"]
  <2>1. CASE fetch(x) \/ abort(x) \/ ping(x) \/ checkEnds(x) \/ dial(x) \/ responds(x) \/ dispatch(x) \/ respond(x) \/ breaks(x)
    BY <1>5, <2>1 DEF fetch, abort, ping, checkEnds, dial, responds, dispatch, respond, breaks
  <2>2. CASE cancel(x) \/ \E d \in Directions : Transfer(x, d)
    BY <2>2, <1>3, <1>4
  <2> QED BY <1>6, <2>1, <2>2 DEF Exchange, Progress
<1>7. CASE closeServer \/ stopClient \/ UNCHANGED vars
  BY <1>5, <1>7 DEF closeServer, stopClient, vars
<1> QED BY <1>6, <1>7 DEF Next

(* What the web client has got stays as it was, or goes on. *)
LEMMA WebKept ==
    ASSUME TypeOK, [Next]_vars, NEW y \in Fetches, WebInv(y),
           \/ web'[y] = web[y] /\ sent'[y] = sent[y]
           \/ web'[y] # "ended"
           \/ parser'[y]["res"].phase = "done" /\ sent'[y] = parser'[y]["res"].body
    PROVE  WebInv(y)'
BY DoneStays DEF WebInv

LEMMA ClientsStep ==
    ASSUME ClientsInv, SplitCRLF = FALSE, [ClientsNext]_<<vars, callerVars>>
    PROVE  ClientsInv'
<1>1. Http2pInv /\ TypeOK /\ CallersTyped /\ [Next]_vars
  BY ClientsUse DEF ClientsInv, Http2pInv
<1>2. Http2pInv'
  BY <1>1, InvStep
<1>3. CallersTyped'
  <2>1. \A x \in Fetches : parser[x]["res"].body \in Texts
    BY <1>1, CellTypes, ParserParts DEF Directions
  <2>2. CASE UNCHANGED callerVars
    BY <1>1, <2>2 DEF callerVars, CallersTyped
  <2>3. ASSUME NEW x \in Fetches, listener(x) PROVE CallersTyped'
    BY <1>1, <2>3 DEF listener, answersItself, forwards, CallersTyped
  <2>4. ASSUME NEW x \in Fetches, writeHead(x) PROVE CallersTyped'
    BY <1>1, <2>4 DEF writeHead, CallersTyped
  <2>5. ASSUME NEW x \in Fetches, writeBody(x) PROVE CallersTyped'
    BY <1>1, <2>1, <2>5 DEF writeBody, CallersTyped
  <2>6. ASSUME NEW x \in Fetches, serviceUp(x) \/ dialAddress(x) \/ stopMdns(x) PROVE CallersTyped'
    BY <1>1, <2>6 DEF serviceUp, dialAddress, stopMdns, callerVars, CallersTyped
  <2> QED BY <2>2, <2>3, <2>4, <2>5, <2>6 DEF ClientsNext
<1>4. ASSUME NEW y \in Fetches PROVE WebInv(y)'
  <2>1. WebInv(y)
    BY DEF ClientsInv
  <2>2. CASE UNCHANGED <<web, sent>>
    BY <1>1, <2>1, <2>2, WebKept
  <2>3. ASSUME NEW x \in Fetches, listener(x) PROVE WebInv(y)'
    <3>1. sent' = sent /\ \E s \in {"local", "waiting"} : web' = [web EXCEPT ![x] = s]
      BY <2>3 DEF listener, answersItself, forwards
    <3>2. sent'[y] = sent[y] /\ (web'[y] = web[y] \/ web'[y] # "ended")
      BY <1>1, <3>1 DEF CallersTyped
    <3> QED BY <1>1, <2>1, <3>2, WebKept
  <2>4. ASSUME NEW x \in Fetches, writeHead(x) PROVE WebInv(y)'
    <3>1. sent' = sent /\ web' = [web EXCEPT ![x] = "head"]
      BY <2>4 DEF writeHead
    <3>2. sent'[y] = sent[y] /\ (web'[y] = web[y] \/ web'[y] # "ended")
      BY <1>1, <3>1 DEF CallersTyped
    <3> QED BY <1>1, <2>1, <3>2, WebKept
  <2>5. ASSUME NEW x \in Fetches, writeBody(x) PROVE WebInv(y)'
    <3>1. parser' = parser /\ web[x] = "head"
      BY <2>5 DEF writeBody, vars
    <3>2. \/ sent' = [sent EXCEPT ![x] = parser[x]["res"].body] /\ web' = web
          \/ /\ sent' = sent /\ web' = [web EXCEPT ![x] = "ended"]
             /\ sent[x] = parser[x]["res"].body /\ parser[x]["res"].phase = "done"
      BY <2>5 DEF writeBody, mayEnd
    <3>3. CASE y # x
      <4>1. web'[y] = web[y] /\ sent'[y] = sent[y]
        BY <1>1, <3>2, <3>3 DEF CallersTyped
      <4> QED BY <1>1, <2>1, <4>1, WebKept
    <3>4. CASE y = x
      <4>1. \/ web'[y] # "ended"
            \/ parser'[y]["res"].phase = "done" /\ sent'[y] = parser'[y]["res"].body
        BY <1>1, <3>1, <3>2, <3>4 DEF CallersTyped
      <4> QED BY <1>1, <2>1, <4>1, WebKept
    <3> QED BY <3>3, <3>4
  <2>6. ASSUME NEW x \in Fetches, serviceUp(x) \/ dialAddress(x) \/ stopMdns(x) PROVE WebInv(y)'
    <3>1. UNCHANGED <<web, sent>>
      BY <2>6 DEF serviceUp, dialAddress, stopMdns, callerVars
    <3> QED BY <2>2, <3>1
  <2> QED BY <2>2, <2>3, <2>4, <2>5, <2>6 DEF ClientsNext, callerVars
<1> QED BY <1>2, <1>3, <1>4 DEF ClientsInv

LEMMA WebFromInv == ClientsInv => WebEndsWhole
<1> SUFFICES ASSUME ClientsInv, NEW x \in Fetches, web[x] = "ended", stream[x] # "closed"
             PROVE  sent[x] = content[x]["res"] /\ parser[x]["res"].start[1] = handler[x]
  BY DEF WebEndsWhole
<1>1. Http2pInv /\ "res" \in Directions
  BY DEF ClientsInv, Directions
<1>2. parser[x]["res"].phase = "done" /\ sent[x] = parser[x]["res"].body
  BY DEF ClientsInv, WebInv
<1>3. sent[x] = content[x]["res"]
  BY <1>1, <1>2, EndFromInv DEF EndMeansWhole
<1>4. parser[x]["res"].start = <<handler[x], "CR", "LF">>
  BY <1>1, <1>2, HeadFromInv DEF HeadIntact, hasMime
<1> QED BY <1>3, <1>4

(* What ends for a web client, behind the gateway, is the whole response that the handler
   of the other node wrote, with its status, however it was cut into chunks and whatever
   breaks between the nodes, unless stop() has closed the stream of its fetch. *)
THEOREM WebGetsWhole ==
    ASSUME SplitCRLF = FALSE
    PROVE  ClientsSpec => []WebEndsWhole
<1>1. ClientsSpec => ClientsInit /\ [][ClientsNext]_<<vars, callerVars>>
  BY PTL DEF ClientsSpec
<1> QED BY <1>1, ClientsStart, ClientsStep, WebFromInv, PTL
=============================================================================
