------------------------------ MODULE EdgeStore ------------------------------
(***************************************************************************)
(* The edge counters: src/src/prom_proxy/edge.rs on a Redis hash.          *)
(*                                                                         *)
(* EdgeStore and EdgeStoreBlocking offer the same two calls, incr and      *)
(* totals, over a shared connection or over a new one.  A call fails when  *)
(* there is no connection or when the answer does not come; the command    *)
(* may then have reached Redis all the same, and may reach it later.       *)
(* Redis itself is external: a hash of signed integers whose HINCRBY       *)
(* refuses to overflow.                                                    *)
(***************************************************************************)
EXTENDS Integers, FiniteSets

CONSTANTS
  Calls,   \* the calls of all the processes that use the hash
  Fields,  \* its fields
  Limit,   \* i64::MAX + 1: 2^63 in the code
  Deltas   \* the u64 increments of callers

ASSUME CallsAssumption == IsFiniteSet(Calls)
ASSUME LimitAssumption == Limit \in Nat \ {0}
ASSUME DeltasAssumption == Deltas \subseteq 0 .. 2 * Limit - 1

VARIABLES
  req,    \* what each call asks for; Unused before it begins
  cli,    \* how the call stands for its caller
  redis,  \* how the command stands at Redis
  hash,   \* the hash; a field that does not exist reads as zero
  read    \* the totals on their way to the caller, and what it has got

vars == <<req, cli, redis, hash, read>>

-----------------------------------------------------------------------------

Signed == -Limit .. Limit - 1

Incrs == [op : {"incr"}, field : Fields, delta : Deltas]

\* A totals call; "before" are the calls that had returned Ok when it began.
Reads == [op : {"totals"}, before : SUBSET Calls]

Unused == [op |-> "unused"]

Zero == [f \in Fields |-> 0]

\* A variant of AsI64: the cast goes through a narrower type.
AsI32(delta) == IF 2 * delta < Limit THEN delta ELSE delta - Limit

\* `delta as i64`.
AsI64(delta) == IF delta < Limit THEN delta ELSE delta - 2 * Limit

\* A variant of TotalOf: `v as u64` of every value.
TotalOfCast(v) == IF v >= 0 THEN v ELSE v + 2 * Limit

\* A negative value is left out of the totals, like a field that is not there.
TotalOf(v) == IF v >= 0 THEN v ELSE 0

\* A variant of OnError: the error is swallowed.
Swallowed == "ok"

\* Every RedisError becomes the Err of the call.
OnError == "err"

-----------------------------------------------------------------------------

Init ==
  /\ req = [c \in Calls |-> Unused]
  /\ cli = [c \in Calls |-> "unused"]
  /\ redis = [c \in Calls |-> "unsent"]
  /\ hash = Zero
  /\ read = [c \in Calls |-> Zero]

\* incr of zero returns at once; any other sends HINCRBY.
Incr(c, f, delta) ==
  /\ req[c] = Unused
  /\ req' = [req EXCEPT ![c] = [op |-> "incr", field |-> f, delta |-> delta]]
  /\ cli' = [cli EXCEPT ![c] = IF delta = 0 THEN "ok" ELSE "waiting"]
  /\ redis' = [redis EXCEPT ![c] = IF delta = 0 THEN @ ELSE "sent"]
  /\ UNCHANGED <<hash, read>>

Succeeded == {c \in Calls : cli[c] = "ok"}

\* totals sends HGETALL.
Totals(c) ==
  /\ req[c] = Unused
  /\ req' = [req EXCEPT ![c] = [op |-> "totals", before |-> Succeeded]]
  /\ cli' = [cli EXCEPT ![c] = "waiting"]
  /\ redis' = [redis EXCEPT ![c] = "sent"]
  /\ UNCHANGED <<hash, read>>

\* Redis executes HINCRBY; a sum out of range is refused.
HIncrBy(c) ==
  LET f   == req[c].field
      sum == hash[f] + AsI64(req[c].delta) IN
  /\ redis[c] = "sent"
  /\ req[c].op = "incr"
  /\ hash' = IF sum \in Signed THEN [hash EXCEPT ![f] = sum] ELSE hash
  /\ redis' = [redis EXCEPT ![c] = IF sum \in Signed THEN "done" ELSE "refused"]
  /\ UNCHANGED <<req, cli, read>>

\* Redis executes HGETALL.
HGetAll(c) ==
  /\ redis[c] = "sent"
  /\ req[c].op = "totals"
  /\ redis' = [redis EXCEPT ![c] = "done"]
  /\ read' = [read EXCEPT ![c] = [f \in Fields |-> TotalOf(hash[f])]]
  /\ UNCHANGED <<req, cli, hash>>

\* No connection, or one that breaks before Redis has read the command.
Lost(c) ==
  /\ redis[c] = "sent"
  /\ redis' = [redis EXCEPT ![c] = "lost"]
  /\ UNCHANGED <<req, cli, hash, read>>

\* The answer of Redis reaches the caller.
Answer(c) ==
  /\ cli[c] = "waiting"
  /\ redis[c] \in {"done", "refused"}
  /\ cli' = [cli EXCEPT ![c] = IF redis[c] = "done" THEN "ok" ELSE OnError]
  /\ UNCHANGED <<req, redis, hash, read>>

\* The connection fails while the caller waits.
Broken(c) ==
  /\ cli[c] = "waiting"
  /\ cli' = [cli EXCEPT ![c] = OnError]
  /\ UNCHANGED <<req, redis, hash, read>>

Step(c) == \/ \E f \in Fields, delta \in Deltas : Incr(c, f, delta)
           \/ Totals(c)
           \/ HIncrBy(c)
           \/ HGetAll(c)
           \/ Lost(c)
           \/ Answer(c)
           \/ Broken(c)

Next == \E c \in Calls : Step(c)

Spec == Init /\ [][Next]_vars

-----------------------------------------------------------------------------

\* The hash holds i64 values and the totals are the u64 values they stand for.
TypeOK ==
  /\ req \in [Calls -> Incrs \cup Reads \cup {Unused}]
  /\ cli \in [Calls -> {"unused", "waiting", "ok", "err"}]
  /\ redis \in [Calls -> {"unsent", "sent", "lost", "done", "refused"}]
  /\ hash \in [Fields -> Signed]
  /\ read \in [Calls -> [Fields -> 0 .. Limit - 1]]
  /\ \A c \in Calls : redis[c] # "unsent" => req[c] # Unused

\* The increments of a field by some of the calls.
On(f, calls) == {c \in calls : req[c].op = "incr" /\ req[c].field = f}

\* What they ask for, unit by unit: a sum is the number of its units.
Units(f, calls) == UNION {{c} \X (1 .. req[c].delta) : c \in On(f, calls)}

Sum(f, calls) == Cardinality(Units(f, calls))

\* No caller has asked for an increment that an i64 cannot hold.
Small(f) == \A c \in On(f, Calls) : req[c].delta < Limit

\* Each increment that returned Ok is in the hash, none is there twice, and a
\* failed one at most once, whenever its command arrives (edge.rs:37-44, :80-87).
CountedOnce ==
  \A f \in Fields : Small(f) => /\ Sum(f, Succeeded) <= hash[f]
                                /\ hash[f] <= Sum(f, Calls)

\* Totals that are returned have every increment that had returned before the
\* call, and no more than was ever asked for: a read that fails is no zero
\* (edge.rs:47-54, :90-97).
TotalsAreCurrent ==
  \A c \in Succeeded, f \in Fields :
    req[c].op = "totals" /\ Small(f) =>
      /\ Sum(f, req[c].before) <= read[c][f]
      /\ read[c][f] <= Sum(f, Calls)

\* A counter only grows, up to its limit, as long as no increment is too large
\* for an i64 (edge.rs:36, :42).
OnlyGrows == [][\A f \in Fields : Small(f) => hash[f] <= hash'[f]]_vars

=============================================================================
