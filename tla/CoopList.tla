------------------------------- MODULE CoopList -------------------------------
(***************************************************************************)
(* coop-list.js: what a node has learned of the links of other nodes.      *)
(* Map<uri, Set<prop>> is flattened to one set of props; a prop whose      *)
(* value is None is the record of a deletion (its "value" is deleted, its  *)
(* version stays).                                                         *)
(***************************************************************************)
EXTENDS LinkVersion

VARIABLE list

Prop == [coop: Coops, slot: Slots, value: Content, ver: Version]

ListInit == list = {}

(* Mutant of find: the owner of a prop is not compared. *)
findAnyOwner(coop, s) == {p \in list : p.slot = s}

find(coop, s) == {p \in list : p.coop = coop /\ p.slot = s}

(* Mutant of outdated: what a message tells is always stored. *)
outdatedAlways(coop, S, ver) == S

(* Mutant of outdated: only what is not yet known is stored. *)
outdatedNew(coop, S, ver) == {s \in S : find(coop, s) = {}}

(* The slots about which the replica holds nothing, or something older. *)
outdated(coop, S, ver) ==
    {s \in S : \A p \in find(coop, s) : isPast(p.ver, ver)}

(* Mutant of store: the clock is not recorded. *)
storeWithoutClock(coop, contents, ver) ==
    LET fresh == outdated(coop, DOMAIN contents, ver)
    IN  list' = {p \in list : p.coop # coop \/ p.slot \notin fresh}
                \cup {[coop |-> coop, slot |-> s, value |-> contents[s],
                       ver |-> [time |-> ver.time]] : s \in fresh}

(* Props of coop are set from contents, a function on some of the slots. *)
store(coop, contents, ver) ==
    LET fresh == outdated(coop, DOMAIN contents, ver)
    IN  list' = {p \in list : p.coop # coop \/ p.slot \notin fresh}
                \cup {[coop |-> coop, slot |-> s, value |-> contents[s], ver |-> ver] :
                         s \in fresh}

(* Every link of a list response is stamped with the version of the list;
   a slot the list does not mention is left alone. *)
addFromLinks(coop, table, ver) ==
    store(coop, [s \in {t \in Slots : table[t] # None} |-> table[s]], ver)

updateFromEvent(ev) ==
    store(ev.coop,
          [s \in {ev.slot} |-> IF ev.type = "link-added" THEN ev.value ELSE None],
          ev.ver)

(* getProps: deleted props and props of coops that are not followed are hidden. *)
getProps(following) == {p \in list : p.value # None /\ p.coop \in following}

ListTypeOK == list \subseteq Prop
=============================================================================
