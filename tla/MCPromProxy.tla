----------------------------- MODULE MCPromProxy -----------------------------
(***************************************************************************)
(* Small instances of PromProxy for TLC: an upstream that stores or fails, *)
(* and calls of the right type, of another one, or unreadable.             *)
(***************************************************************************)
EXTENDS PromProxy, TLC

\* One status of each kind.
MCStatuses == {204, 500}

\* Calls are interchangeable, and so are servers.
ServerSymmetry == Permutations(Conns) \cup Permutations(Servers)

=============================================================================
