---------------------------- MODULE PromForwarder ----------------------------
(***************************************************************************)
(* What a remote_write proxy promises the callers in front of it and the   *)
(* upstream behind it, without connections, tasks, processes or Redis.     *)
(*                                                                         *)
(* The body of a write call may be stored upstream at any instant after    *)
(* the call was made, even if its caller has failed by then; nothing else  *)
(* is stored.  A call returns `ok' only after that instant.  The total of  *)
(* the successes only grows, is no more than what was stored, and is       *)
(* reported only when it has been reached.                                 *)
(***************************************************************************)
EXTENDS Naturals, FiniteSets

CONSTANTS Calls,    \* calls, each made at most once
          Lossless  \* every success is counted before its call returns

VARIABLES outcome,  \* the calls, as their callers see them
          writes,   \* the calls made with a write request
          stored,   \* the calls whose body the upstream has stored
          total,    \* the total of successes
          reported  \* the totals that were reported to the upstream

vars == <<outcome, writes, stored, total, reported>>

In(state) == {k \in Calls : outcome[k] = state}

Init == /\ outcome = [k \in Calls |-> "unmade"]
        /\ writes = {}
        /\ stored = {}
        /\ total = 0
        /\ reported = {}

\* A call is made; it may fail on the spot.
Make(k, result, write) ==
  /\ outcome[k] = "unmade"
  /\ outcome' = [outcome EXCEPT ![k] = result]
  /\ writes' = IF write THEN writes \cup {k} ELSE writes
  /\ UNCHANGED <<stored, total, reported>>

\* A call returns.
Return(k) ==
  /\ outcome[k] = "waiting"
  /\ k \in stored
  /\ Lossless => Cardinality(In("ok") \cup {k}) <= total
  /\ outcome' = [outcome EXCEPT ![k] = "ok"]
  /\ UNCHANGED <<writes, stored, total, reported>>

\* Calls fail, bodies are stored, successes are counted and totals are reported:
\* one of these at a time, or all of them when there is an outage.
Proceed ==
  /\ \E failed \in SUBSET In("waiting") :
       outcome' = [k \in Calls |-> IF k \in failed THEN "err" ELSE outcome[k]]
  /\ \E late \in SUBSET (writes \ stored) : stored' = stored \cup late
  /\ total' \in total .. Cardinality(stored')
  /\ \E totals \in SUBSET (0 .. total') : reported' = reported \cup totals
  /\ UNCHANGED writes

Next == \/ \E k \in Calls, result \in {"waiting", "err"}, write \in BOOLEAN :
             Make(k, result, write)
        \/ \E k \in Calls : Return(k)
        \/ Proceed

Spec == Init /\ [][Next]_vars

=============================================================================
