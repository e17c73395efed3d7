----------------------------- MODULE LinkVersion -----------------------------
(***************************************************************************)
(* The data that coop-links.js (the owner of a table of links) and         *)
(* coop-list.js (the replicas of it) share: slots, values, versions and    *)
(* the order on versions.                                                  *)
(*                                                                         *)
(* A slot is a (uri, key) pair: the code keeps Map<uri, Map<key, value>>   *)
(* and no property below tells a uri from a key.  A version is the         *)
(* (time, clock) pair every message carries: time is toUTCString(), that   *)
(* is whole seconds, and clock counts the updates of one second.           *)
(***************************************************************************)
EXTENDS Naturals

CONSTANTS
    Coops,      \* coop URIs, the names of the nodes
    Slots,      \* (uri, key) pairs
    Values,     \* link values
    None        \* the slot holds no value

ASSUME NoneAssumption == None \notin Values

Version == [time: Nat, clock: Nat]

ZeroVersion == [time |-> 0, clock |-> 0]

Content == Values \cup {None}

Table == [Slots -> Content]

EmptyTable == [s \in Slots |-> None]

(* isPast(prop, time, clock): what a replica holds is older than (time, clock). *)
isPast(v, w) ==
    \/ v.time < w.time
    \/ v.time = w.time /\ v.clock < w.clock

AtLeast(v, w) == v = w \/ isPast(w, v)
=============================================================================
