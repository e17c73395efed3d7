----------------------------- MODULE EventChannel -----------------------------
(***************************************************************************)
(* What an event stream promises to each of its readers: the events meant  *)
(* for it, in their order, each of them once and none left out.            *)
(***************************************************************************)
EXTENDS Sequences, Naturals

CONSTANTS Readers, Events

VARIABLES
    due,    \* the events meant for a reader
    got     \* the events it has been given

channelVars == <<due, got>>

Init ==
    /\ due = [r \in Readers |-> << >>]
    /\ got = [r \in Readers |-> << >>]

Send(e, to) ==
    /\ due' = [r \in Readers |-> IF r \in to THEN Append(due[r], e) ELSE due[r]]
    /\ UNCHANGED got

Give(r) ==
    /\ Len(got[r]) < Len(due[r])
    /\ got' = [got EXCEPT ![r] = Append(@, due[r][Len(@) + 1])]
    /\ UNCHANGED due

Next ==
    \/ \E r \in Readers : Give(r)
    \/ \E e \in Events, to \in SUBSET Readers : Send(e, to)

Spec == Init /\ [][Next]_channelVars
=============================================================================
