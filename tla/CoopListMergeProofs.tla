------------------------- MODULE CoopListMergeProofs -------------------------
(***************************************************************************)
(* Proofs about CoopListMerge: whatever arrives, in whatever order, the    *)
(* replica is the last writer of every slot of every owner.                *)
(***************************************************************************)
EXTENDS CoopListMerge, TLAPS

-----------------------------------------------------------------------------
SameSlot(p, q) == p.coop = q.coop /\ p.slot = q.slot

(* The replica holds received facts, one per slot, and none newer is missing. *)
MergeInv ==
    /\ MergeTypeOK
    /\ Consistent(received)
    /\ list \subseteq received
    /\ \A p, q \in list : SameSlot(p, q) => p = q
    /\ \A g \in received : \E p \in list : SameSlot(p, g) /\ AtLeast(p.ver, g.ver)

LEMMA PastOrder ==
    ASSUME NEW u \in Version, NEW v \in Version, NEW w \in Version
    PROVE  /\ ~isPast(v, v)
           /\ isPast(v, w) => ~isPast(w, v)
           /\ isPast(v, w) \/ v = w \/ isPast(w, v)
           /\ AtLeast(v, u) /\ AtLeast(w, v) => AtLeast(w, u)
<1>1. /\ u = [time |-> u.time, clock |-> u.clock] /\ v = [time |-> v.time, clock |-> v.clock]
      /\ w = [time |-> w.time, clock |-> w.clock]
  BY DEF Version
<1>2. /\ u.time \in Nat /\ u.clock \in Nat /\ v.time \in Nat /\ v.clock \in Nat
      /\ w.time \in Nat /\ w.clock \in Nat
  BY DEF Version
<1> QED BY <1>1, <1>2 DEF isPast, AtLeast

(* Storing contents and learning the facts they tell keeps the invariant. *)
LEMMA StoreKeepsMergeInv ==
    ASSUME MergeInv, NEW coop \in Coops, NEW ver \in Version, NEW contents,
           DOMAIN contents \subseteq Slots,
           \A s \in DOMAIN contents : contents[s] \in Content,
           store(coop, contents, ver),
           received' = received \cup {fact(coop, s, contents[s], ver) : s \in DOMAIN contents},
           Consistent(received')
    PROVE  MergeInv'
<1> DEFINE fresh == outdated(coop, DOMAIN contents, ver)
           new(s) == [coop |-> coop, slot |-> s, value |-> contents[s], ver |-> ver]
           kept == {p \in list : p.coop # coop \/ p.slot \notin fresh}
<1>1. list' = kept \cup {new(s) : s \in fresh}
  BY DEF store
<1>2. fresh = {s \in DOMAIN contents :
                 \A p \in list : (p.coop = coop /\ p.slot = s) => isPast(p.ver, ver)}
  BY DEF outdated, find
<1>3. received' = received \cup {new(s) : s \in DOMAIN contents}
  BY DEF fact
<1>4. \A s \in DOMAIN contents : new(s) \in Prop
  BY DEF Prop
<1>5. list \subseteq Prop /\ received \subseteq Prop /\ \A p \in Prop : p.ver \in Version
  BY DEF MergeInv, MergeTypeOK, ListTypeOK, Prop
<1>6. MergeTypeOK' /\ list' \subseteq received'
  BY <1>1, <1>2, <1>3, <1>4, <1>5 DEF MergeInv, MergeTypeOK, ListTypeOK
<1>7. \A p, q \in list' : SameSlot(p, q) => p = q
  <2>1. \A s \in fresh : new(s).coop = coop /\ new(s).slot = s
    OBVIOUS
  <2>2. \A p \in kept, s \in fresh : ~SameSlot(p, new(s)) /\ ~SameSlot(new(s), p)
    BY <2>1 DEF SameSlot
  <2>3. \A s, t \in fresh : SameSlot(new(s), new(t)) => s = t
    BY <2>1 DEF SameSlot
  <2>4. \A p, q \in kept : SameSlot(p, q) => p = q
    BY DEF MergeInv
  <2> HIDE DEF new, fresh, kept
  <2> QED BY <1>1, <2>2, <2>3, <2>4
<1>8. ASSUME NEW g \in received'
      PROVE  \E p \in list' : SameSlot(p, g) /\ AtLeast(p.ver, g.ver)
  <2>1. ASSUME NEW p \in list, SameSlot(p, g), AtLeast(p.ver, g.ver)
        PROVE  \E q \in list' : SameSlot(q, g) /\ AtLeast(q.ver, g.ver)
    <3>1. CASE p \in kept
      BY <3>1, <2>1, <1>1
    <3>2. CASE p.coop = coop /\ p.slot \in fresh
      <4>1. new(p.slot) \in list' /\ new(p.slot).ver = ver /\ SameSlot(new(p.slot), g)
        BY <3>2, <2>1, <1>1 DEF SameSlot
      <4>2. AtLeast(ver, p.ver)
        BY <3>2, <1>2 DEF AtLeast
      <4>3. g.ver \in Version /\ p.ver \in Version
        BY <1>3, <1>4, <1>5
      <4> QED BY <4>1, <4>2, <4>3, <2>1, PastOrder
    <3> QED BY <3>1, <3>2, <2>1
  <2>2. CASE g \in received
    BY <2>1, <2>2 DEF MergeInv
  <2>3. ASSUME NEW s \in DOMAIN contents, g = new(s)
        PROVE  \E q \in list' : SameSlot(q, g) /\ AtLeast(q.ver, g.ver)
    <3>1. CASE s \in fresh
      BY <3>1, <2>3, <1>1 DEF SameSlot, AtLeast
    <3>2. CASE s \notin fresh
      <4>1. PICK p \in list : p.coop = coop /\ p.slot = s /\ ~isPast(p.ver, ver)
        BY <3>2, <1>2
      <4>2. AtLeast(p.ver, ver)
        BY <4>1, <1>5, PastOrder DEF AtLeast
      <4> QED BY <4>1, <4>2, <2>3, <2>1 DEF SameSlot
    <3> QED BY <3>1, <3>2
  <2> QED BY <2>2, <2>3, <1>3
<1> QED BY <1>6, <1>7, <1>8 DEF MergeInv

LEMMA MergeStep == MergeInv /\ [MergeNext]_mergeVars => MergeInv'
<1> SUFFICES ASSUME MergeInv, [MergeNext]_mergeVars PROVE MergeInv'
  OBVIOUS
<1>1. Stamp \subseteq Version
  BY MergeAssumption DEF Stamp, Version
<1>2. ASSUME NEW coop \in Coops, NEW table \in Table, NEW ver \in Stamp,
             ReceiveLinks(coop, table, ver)
      PROVE  MergeInv'
  <2> DEFINE contents == [s \in {t \in Slots : table[t] # None} |-> table[s]]
  <2>1. store(coop, contents, ver)
    BY <1>2 DEF ReceiveLinks, addFromLinks
  <2>2. /\ DOMAIN contents = {t \in Slots : table[t] # None}
        /\ \A s \in DOMAIN contents : contents[s] \in Content /\ contents[s] = table[s]
    BY DEF Table
  <2>3. /\ received' = received \cup {fact(coop, s, contents[s], ver) : s \in DOMAIN contents}
        /\ Consistent(received')
    BY <1>2, <2>2 DEF ReceiveLinks, learn
  <2>4. ver \in Version /\ DOMAIN contents \subseteq Slots
    BY <1>1, <2>2
  <2> HIDE DEF contents
  <2> QED BY <2>1, <2>2, <2>3, <2>4, StoreKeepsMergeInv
<1>3. ASSUME NEW ev \in [type: {"link-added", "link-removed"}, coop: Coops, slot: Slots,
                         value: Values, ver: Stamp],
             ReceiveEvent(ev)
      PROVE  MergeInv'
  <2> DEFINE v == IF ev.type = "link-added" THEN ev.value ELSE None
             contents == [s \in {ev.slot} |-> v]
  <2>1. store(ev.coop, contents, ev.ver)
    BY <1>3 DEF ReceiveEvent, updateFromEvent
  <2>2. ev.coop \in Coops /\ ev.slot \in Slots /\ ev.ver \in Version /\ v \in Content
    BY <1>1 DEF Content
  <2>3. DOMAIN contents = {ev.slot} /\ contents[ev.slot] = v
    OBVIOUS
  <2>4. received' = received \cup {fact(ev.coop, ev.slot, v, ev.ver)} /\ Consistent(received')
    BY <1>3 DEF ReceiveEvent, learn
  <2> HIDE DEF contents, v
  <2>5. received' = received \cup {fact(ev.coop, s, contents[s], ev.ver) : s \in DOMAIN contents}
    BY <2>3, <2>4
  <2> QED BY <2>1, <2>2, <2>3, <2>4, <2>5, StoreKeepsMergeInv
<1>4. CASE UNCHANGED mergeVars
  BY <1>4 DEF mergeVars, MergeInv, MergeTypeOK, ListTypeOK
<1> QED BY <1>2, <1>3, <1>4 DEF MergeNext

LEMMA MergeStart == MergeInit => MergeInv
BY DEF MergeInit, ListInit, MergeInv, MergeTypeOK, ListTypeOK, Consistent

-----------------------------------------------------------------------------
(* Whatever arrives, the replica holds props of the owners that were told of, and the
   facts received stay within what owners tell. *)
THEOREM MergeTypeCorrect == MergeSpec => []MergeTypeOK
<1>1. MergeInv => MergeTypeOK
  BY DEF MergeInv
<1> QED BY <1>1, MergeStart, MergeStep, PTL DEF MergeSpec

(* The replica is exactly the newest of the facts received: a function of what
   arrived, and not of the order in which it did. *)
THEOREM MergeIsLastWriterWins == MergeSpec => []LastWriterWins
<1>1. MergeInv => LastWriterWins
  <2> SUFFICES ASSUME MergeInv
               PROVE  list = {f \in received :
                                \A g \in received :
                                   (g.coop = f.coop /\ g.slot = f.slot) => ~isPast(f.ver, g.ver)}
    BY DEF LastWriterWins
  <2>1. /\ list \subseteq received /\ received \subseteq Prop
        /\ \A p \in Prop : p.ver \in Version
    BY DEF MergeInv, MergeTypeOK, Prop
  <2>2. ASSUME NEW f \in list, NEW g \in received, g.coop = f.coop, g.slot = f.slot
        PROVE  ~isPast(f.ver, g.ver)
    <3>1. AtLeast(f.ver, g.ver)
      BY <2>2 DEF MergeInv, SameSlot
    <3> QED BY <3>1, <2>1, PastOrder DEF AtLeast
  <2>3. ASSUME NEW f \in received,
               \A g \in received : (g.coop = f.coop /\ g.slot = f.slot) => ~isPast(f.ver, g.ver)
        PROVE  f \in list
    <3>1. PICK p \in list : SameSlot(p, f) /\ AtLeast(p.ver, f.ver)
      BY DEF MergeInv
    <3>2. p.ver = f.ver
      BY <3>1, <2>1, <2>3 DEF AtLeast, SameSlot
    <3>3. p.value = f.value
      BY <3>1, <3>2, <2>1 DEF MergeInv, Consistent, SameSlot
    <3>4. p \in Prop /\ f \in Prop
      BY <2>1
    <3> QED BY <3>1, <3>2, <3>3, <3>4 DEF Prop, SameSlot
  <2> QED BY <2>1, <2>2, <2>3
<1> QED BY <1>1, MergeStart, MergeStep, PTL DEF MergeSpec
=============================================================================
