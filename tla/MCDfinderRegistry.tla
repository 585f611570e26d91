------------------------- MODULE MCDfinderRegistry -------------------------
(***************************************************************************)
(* Small instances of DfinderRegistry for TLC: two labels, two kinds of    *)
(* registration, and peers that may leave the labels out.                  *)
(***************************************************************************)
EXTENDS DfinderRegistry, TLC

CONSTANTS api, web, blank

\* `web' carries both labels, `api' one, `blank' none.
MCLabelsOf == [i \in Infos |-> CASE i = web   -> {"l1", "l2"}
                                 [] i = api   -> {"l1"}
                                 [] i = blank -> {}]

MCLabels == {"l1", "l2"}

\* Queries for both labels at once: only `web' matches.
MCBothLabels == {MCLabels}

\* The query for both, and the empty query of a peer without client.rs.
MCBothOrNone == {MCLabels, {}}

IpSymmetry == Permutations(Ips)

=============================================================================
