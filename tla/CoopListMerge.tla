---------------------------- MODULE CoopListMerge ----------------------------
(***************************************************************************)
(* coop-list.js on its own: list responses and events of several owners    *)
(* arrive in any order, some more than once and some not at all.           *)
(***************************************************************************)
EXTENDS CoopList, FiniteSets

CONSTANTS
    MaxTime, MaxClock,  \* bounds: the versions that occur
    MaxReceived         \* bound: how many facts arrive

ASSUME MergeAssumption == MaxTime \in Nat /\ MaxClock \in Nat /\ MaxReceived \in Nat

(* received (history): what the messages have told, one prop per slot told of. *)
VARIABLE received

mergeVars == <<list, received>>

Stamp == [time: 1 .. MaxTime, clock: 0 .. MaxClock]

fact(coop, s, v, ver) == [coop |-> coop, slot |-> s, value |-> v, ver |-> ver]

(* Owners do not contradict themselves (VersionNamesTable): two messages of one
   owner and version agree on what they tell of a slot. *)
Consistent(F) ==
    \A f, g \in F :
        (f.coop = g.coop /\ f.slot = g.slot /\ f.ver = g.ver) => f.value = g.value

learn(F) ==
    /\ received' = received \cup F
    /\ Cardinality(received') <= MaxReceived
    /\ Consistent(received')

MergeInit == ListInit /\ received = {}

ReceiveLinks(coop, table, ver) ==
    /\ addFromLinks(coop, table, ver)
    /\ learn({fact(coop, s, table[s], ver) : s \in {t \in Slots : table[t] # None}})

ReceiveEvent(ev) ==
    /\ updateFromEvent(ev)
    /\ learn({fact(ev.coop, ev.slot, IF ev.type = "link-added" THEN ev.value ELSE None,
                   ev.ver)})

MergeNext ==
    \/ \E coop \in Coops, table \in Table, ver \in Stamp : ReceiveLinks(coop, table, ver)
    \/ \E ev \in [type: {"link-added", "link-removed"}, coop: Coops, slot: Slots,
                  value: Values, ver: Stamp] : ReceiveEvent(ev)

MergeSpec == MergeInit /\ [][MergeNext]_mergeVars

-----------------------------------------------------------------------------
MergeTypeOK ==
    /\ ListTypeOK
    /\ received \subseteq Prop

(* The replica is the last writer of every slot of every owner: exactly the
   newest facts of those received.  It is a function of the set of what arrived,
   so neither the order of arrival nor repetition matters, one owner cannot
   overwrite another's prop of the same slot, and a removal is not undone by an
   older addition that arrives after it. *)
LastWriterWins ==
    list = {f \in received :
              \A g \in received :
                  (g.coop = f.coop /\ g.slot = f.slot) => ~isPast(f.ver, g.ver)}
=============================================================================
