---------------------------- MODULE MCEventStream ----------------------------
(* EventStream for TLC: an EventSource of a node that is followed, and watchers. *)
EXTENDS EventStream

CONSTANTS follow1, links1, any1

(* watchEventSource *)
ListensTo == [r \in Sources |-> {"key-added", "link-added"}]

(* A query that wants links of the events it is given, and one that reads the link
   of every event, of which a key-added event has none. *)
Wants == [w \in Watchers |-> {"link-added"}]

ThrowsFor == [w \in Watchers |-> IF w = any1 THEN {"key-added"} ELSE {}]
=============================================================================
