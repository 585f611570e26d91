----------------------------- MODULE MCEdgeStore -----------------------------
(***************************************************************************)
(* A small instance of EdgeStore for TLC: 3-bit integers, with increments  *)
(* that are nothing, small, up to the limit and beyond it.                 *)
(***************************************************************************)
EXTENDS EdgeStore, TLC

CallSymmetry == Permutations(Calls)

=============================================================================
