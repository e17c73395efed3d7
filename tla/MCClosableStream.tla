--------------------------- MODULE MCClosableStream ---------------------------
(* ClosableStream for TLC: how much the iterable of each end yields. *)
EXTENDS ClosableStream

CONSTANTS dialer, listener

DialerSends == [e \in Ends |-> IF e = dialer THEN 2 ELSE 0]
=============================================================================
