----------------------------- MODULE MCCoopHelia -----------------------------
(* CoopHelia for TLC: b follows a and c, which do not know each other. *)
EXTENDS CoopHelia

CONSTANTS a, b, c

Line == {{a, b}, {b, c}}

(* The ends share, b puts a type, and the first two drop. *)
SomeCallers == ({a, c} \X {"share"}) \cup ({b} \X {"type"}) \cup ({a, b} \X {"drop"})
=============================================================================
