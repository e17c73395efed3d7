----------------------------- MODULE StaleReplica -----------------------------
(***************************************************************************)
(* What following promises, without its messages: the replica shows of     *)
(* each slot some state the owner's table has really been in, and never    *)
(* goes back to an older one.  It may lag for ever, and different slots    *)
(* may lag by different amounts.                                           *)
(***************************************************************************)
EXTENDS LinkVersion

VARIABLES
    table,      \* the owner's links
    history,    \* every (version, table) there has been
    view        \* what the replica holds of each slot

staleVars == <<table, history, view>>

Init ==
    /\ table = EmptyTable
    /\ history = {[ver |-> ZeroVersion, table |-> EmptyTable]}
    /\ view = [s \in Slots |-> [ver |-> ZeroVersion, value |-> None]]

(* The owner changes one slot, under a version newer than all before. *)
Change(s, v) ==
    /\ table[s] # v
    /\ table' = [table EXCEPT ![s] = v]
    /\ \E h \in history' :
        /\ history' = history \cup {h}
        /\ h.table = table'
        /\ \A g \in history : isPast(g.ver, h.ver)
    /\ UNCHANGED view

(* The replica learns of the slots in S as they were at h, where that is news. *)
Refresh(h, S) ==
    /\ view' = [s \in Slots |->
                  IF s \in S /\ isPast(view[s].ver, h.ver)
                  THEN [ver |-> h.ver, value |-> h.table[s]]
                  ELSE view[s]]
    /\ UNCHANGED <<table, history>>

Next ==
    \/ \E s \in Slots, v \in Content : Change(s, v)
    \/ \E h \in history, S \in SUBSET Slots : Refresh(h, S)

Spec == Init /\ [][Next]_staleVars
=============================================================================
