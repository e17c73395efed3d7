-------------------------- MODULE MCLinkReplication --------------------------
(* LinkReplication for TLC.  No operation tells one slot from another, so the
   runs that check only invariants may take the slots up to permutation. *)
EXTENDS LinkReplication, TLC

SlotSymmetry == Permutations(Slots)
=============================================================================
