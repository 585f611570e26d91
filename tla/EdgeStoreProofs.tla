--------------------------- MODULE EdgeStoreProofs ---------------------------
(***************************************************************************)
(* Theorems about EdgeStore, for every number of calls and fields and for  *)
(* integers of every width.                                                *)
(***************************************************************************)
EXTENDS EdgeStore, FiniteSetTheorems, TLAPS

\* The cast of a u64 is an i64, and keeps what fits.
LEMMA CastOk ==
  ASSUME NEW delta \in Deltas
  PROVE  AsI64(delta) \in Signed /\ (delta < Limit => AsI64(delta) = delta /\ delta >= 0)
<1>1. delta \in Int /\ 0 <= delta /\ delta <= 2 * Limit - 1
  BY DeltasAssumption, LimitAssumption
<1>2. QED
  BY <1>1, LimitAssumption DEF AsI64, Signed

\* A total that is returned is an i64 value that is not negative.
LEMMA TotalOk ==
  ASSUME NEW v \in Signed
  PROVE  TotalOf(v) \in 0 .. Limit - 1
BY LimitAssumption DEF TotalOf, Signed

\* The state of every step is one of the code's.
LEMMA StepType ==
  ASSUME TypeOK, NEW c \in Calls, Step(c)
  PROVE  TypeOK'
<1>1. ASSUME NEW f \in Fields, NEW delta \in Deltas, Incr(c, f, delta)
      PROVE  TypeOK'
  <2>1. [op |-> "incr", field |-> f, delta |-> delta] \in Incrs
    BY DEF Incrs
  <2>2. [op |-> "incr", field |-> f, delta |-> delta] # Unused
    BY DEF Unused
  <2>3. req' \in [Calls -> Incrs \cup Reads \cup {Unused}]
    BY <1>1, <2>1 DEF Incr, TypeOK
  <2>4. QED
    BY <1>1, <2>1, <2>2, <2>3 DEF Incr, TypeOK
<1>2. CASE Totals(c)
  <2>1. [op |-> "totals", before |-> Succeeded] \in Reads
    BY DEF Reads, Succeeded
  <2>2. [op |-> "totals", before |-> Succeeded] # Unused
    BY DEF Unused
  <2>3. req' \in [Calls -> Incrs \cup Reads \cup {Unused}]
    BY <1>2, <2>1 DEF Totals, TypeOK
  <2>4. QED
    BY <1>2, <2>1, <2>2, <2>3 DEF Totals, TypeOK
<1>3. CASE HIncrBy(c)
  <2>1. hash' \in [Fields -> Signed]
    BY <1>3 DEF HIncrBy, TypeOK
  <2>2. redis' \in [Calls -> {"unsent", "sent", "lost", "done", "refused"}]
        /\ \A d \in Calls : redis'[d] # "unsent" => redis[d] # "unsent"
    BY <1>3 DEF HIncrBy, TypeOK
  <2>3. QED
    BY <1>3, <2>1, <2>2 DEF HIncrBy, TypeOK
<1>4. CASE HGetAll(c)
  <2>1. [f \in Fields |-> TotalOf(hash[f])] \in [Fields -> 0 .. Limit - 1]
    BY TotalOk DEF TypeOK
  <2>2. QED
    BY <1>4, <2>1 DEF HGetAll, TypeOK
<1>5. CASE Lost(c)
  BY <1>5 DEF Lost, TypeOK
<1>6. CASE Answer(c)
  BY <1>6 DEF Answer, OnError, TypeOK
<1>7. CASE Broken(c)
  BY <1>7 DEF Broken, OnError, TypeOK
<1>8. QED
  BY <1>1, <1>2, <1>3, <1>4, <1>5, <1>6, <1>7 DEF Step

\* The hash holds i64 values and the totals are never the image of a negative
\* one (edge.rs:52), whatever increments are asked for.
THEOREM Typing == Spec => []TypeOK
<1>1. Init => TypeOK
  BY LimitAssumption DEF Init, TypeOK, Zero, Signed
<1>2. TypeOK /\ [Next]_vars => TypeOK'
  <2>1. TypeOK /\ UNCHANGED vars => TypeOK'
    BY DEF TypeOK, vars
  <2>2. QED
    BY <2>1, StepType DEF Next
<1>3. QED
  BY <1>1, <1>2, PTL DEF Spec

\* The counter of edge.rs:36 only grows, provided every increment asked of it fits
\* in an i64: HINCRBY refuses to overflow, and the cast keeps the sign.
THEOREM CountersGrow == Spec => OnlyGrows
<1>1. TypeOK /\ [Next]_vars => [\A f \in Fields : Small(f) => hash[f] <= hash'[f]]_vars
  <2> SUFFICES ASSUME TypeOK, NEW c \in Calls, Step(c), NEW f \in Fields, Small(f)
               PROVE  hash[f] <= hash'[f]
    BY DEF Next
  <2>0. hash[f] \in Int
    BY LimitAssumption DEF TypeOK, Signed
  <2>1. CASE HIncrBy(c) /\ req[c].field = f
    <3>1. req[c] \in Incrs
      BY <2>1 DEF HIncrBy, TypeOK, Reads, Unused
    <3>2. req[c].delta \in Deltas /\ req[c].delta < Limit
      BY <2>1, <3>1 DEF HIncrBy, Small, On, Incrs
    <3>3. AsI64(req[c].delta) = req[c].delta /\ req[c].delta \in Nat
      <4>1. \A delta \in Deltas : delta \in Int /\ (delta < Limit => AsI64(delta) = delta
                                                                       /\ delta >= 0)
        BY CastOk, DeltasAssumption
      <4>2. QED
        BY <3>2, <4>1
    <3>4. hash'[f] = hash[f] \/ hash'[f] = hash[f] + req[c].delta
      BY <2>1, <3>3 DEF HIncrBy, TypeOK
    <3>5. QED
      BY <2>0, <3>3, <3>4
  <2>2. CASE HIncrBy(c) /\ req[c].field # f
    <3>1. hash'[f] = hash[f]
      BY <2>2 DEF HIncrBy, TypeOK
    <3>2. QED
      BY <2>0, <3>1
  <2>3. CASE ~HIncrBy(c)
    <3>1. hash' = hash
      BY <2>3 DEF Step, Incr, Totals, HGetAll, Lost, Answer, Broken
    <3>2. QED
      BY <2>0, <3>1
  <2>4. QED
    BY <2>1, <2>2, <2>3
<1>2. QED
  BY <1>1, Typing, PTL DEF Spec, OnlyGrows

-----------------------------------------------------------------------------
(* Sums.  A sum is the number of its units, so what the proofs need to     *)
(* know of sums is what the library says of finite sets.                   *)

Requests == [Calls -> Incrs \cup Reads \cup {Unused}]

IsOn(r, c, f) == r[c].op = "incr" /\ r[c].field = f

\* The units of some calls, as a subset of all that there could be.
UnitsOf(r, f, calls) ==
  {u \in Calls \X (1 .. 2 * Limit - 1) :
     u[1] \in calls /\ IsOn(r, u[1], f) /\ u[2] <= r[u[1]].delta}

SumOf(r, f, calls) == Cardinality(UnitsOf(r, f, calls))

\* A call that is on a field is an increment of the code's.
LEMMA OnIsIncr ==
  ASSUME NEW r \in Requests, NEW c \in Calls, NEW f, IsOn(r, c, f)
  PROVE  r[c] \in Incrs /\ r[c].delta \in Deltas /\ r[c].delta \in Nat
         /\ r[c].delta <= 2 * Limit - 1
<1>1. r[c] \in Incrs
  BY DEF Requests, IsOn, Reads, Unused
<1>2. r[c].delta \in Deltas
  BY <1>1 DEF Incrs
<1>3. \A delta \in Deltas : delta \in Nat /\ delta <= 2 * Limit - 1
  BY DeltasAssumption, LimitAssumption
<1>4. QED
  BY <1>1, <1>2, <1>3

\* The sum of the model is the number of these units.
LEMMA SumIsSumOf ==
  ASSUME NEW r \in Requests, NEW f, NEW calls \in SUBSET Calls
  PROVE  Cardinality(UNION {{c} \X (1 .. r[c].delta) :
                              c \in {c \in calls : r[c].op = "incr" /\ r[c].field = f}})
           = SumOf(r, f, calls)
<1> DEFINE U == UNION {{c} \X (1 .. r[c].delta) :
                         c \in {c \in calls : r[c].op = "incr" /\ r[c].field = f}}
<1>1. ASSUME NEW u \in U PROVE u \in UnitsOf(r, f, calls)
  <2>1. PICK c \in calls : IsOn(r, c, f) /\ u \in {c} \X (1 .. r[c].delta)
    BY DEF IsOn
  <2>2. u[1] = c /\ u[2] \in 1 .. r[c].delta /\ u = <<u[1], u[2]>>
    BY <2>1
  <2>3. u[2] \in 1 .. 2 * Limit - 1 /\ u[2] <= r[c].delta
    BY <2>1, <2>2, OnIsIncr, LimitAssumption
  <2>4. QED
    BY <2>1, <2>2, <2>3 DEF UnitsOf
<1>2. ASSUME NEW u \in UnitsOf(r, f, calls) PROVE u \in U
  <2>1. /\ u[1] \in calls /\ IsOn(r, u[1], f) /\ u[2] <= r[u[1]].delta
        /\ u[2] \in 1 .. 2 * Limit - 1 /\ u = <<u[1], u[2]>>
    BY DEF UnitsOf
  <2>2. u[2] \in 1 .. r[u[1]].delta
    BY <2>1, OnIsIncr, LimitAssumption
  <2>3. u \in {u[1]} \X (1 .. r[u[1]].delta)
    BY <2>1, <2>2
  <2>4. QED
    BY <2>1, <2>3 DEF IsOn
<1>3. U = UnitsOf(r, f, calls)
  BY <1>1, <1>2
<1>4. QED
  BY <1>3 DEF SumOf

\* There are finitely many units.
LEMMA UnitsFinite ==
  ASSUME NEW r, NEW f, NEW calls
  PROVE  IsFiniteSet(UnitsOf(r, f, calls)) /\ SumOf(r, f, calls) \in Nat
<1>1. IsFiniteSet(1 .. 2 * Limit - 1)
  BY FS_Interval, LimitAssumption
<1>2. IsFiniteSet(Calls \X (1 .. 2 * Limit - 1))
  BY <1>1, FS_Product, CallsAssumption
<1>3. UnitsOf(r, f, calls) \in SUBSET (Calls \X (1 .. 2 * Limit - 1))
  BY DEF UnitsOf
<1>4. IsFiniteSet(UnitsOf(r, f, calls))
  BY <1>2, <1>3, FS_Subset
<1>5. QED
  BY <1>4, FS_CardinalityType DEF SumOf

\* More calls, some of them begun since, have no smaller a sum.
LEMMA SumGrows ==
  ASSUME NEW r, NEW q, NEW f, NEW some, NEW more,
         \A c \in some \cap Calls :
           IsOn(r, c, f) /\ r[c].delta # 0 /\ r[c].delta \in Nat =>
             c \in more /\ q[c] = r[c],
         r \in Requests
  PROVE  SumOf(r, f, some) <= SumOf(q, f, more)
<1>1. ASSUME NEW u \in UnitsOf(r, f, some) PROVE u \in UnitsOf(q, f, more)
  <2>1. /\ u \in Calls \X (1 .. 2 * Limit - 1)
        /\ u[1] \in some \cap Calls /\ IsOn(r, u[1], f)
        /\ u[2] <= r[u[1]].delta /\ u[2] \in 1 .. 2 * Limit - 1
    BY DEF UnitsOf
  <2>2. r[u[1]].delta \in Nat
    BY <2>1, OnIsIncr
  <2>3. r[u[1]].delta # 0
    BY <2>1, <2>2
  <2>4. u[1] \in more /\ q[u[1]] = r[u[1]]
    BY <2>1, <2>2, <2>3
  <2>5. QED
    BY <2>1, <2>4 DEF UnitsOf, IsOn
<1>2. UnitsOf(r, f, some) \in SUBSET UnitsOf(q, f, more)
  BY <1>1
<1>3. QED
  BY <1>2, UnitsFinite, FS_Subset DEF SumOf

\* The sum of calls that have begun does not change.
LEMMA SumStays ==
  ASSUME NEW r, NEW q, NEW f, NEW calls, \A c \in calls : q[c] = r[c]
  PROVE  SumOf(q, f, calls) = SumOf(r, f, calls)
<1>1. UnitsOf(q, f, calls) = UnitsOf(r, f, calls)
  BY DEF UnitsOf, IsOn
<1>2. QED
  BY <1>1 DEF SumOf

\* A call with an increment of n has n units.
LEMMA OwnUnits ==
  ASSUME NEW c, NEW n \in Nat
  PROVE  IsFiniteSet({c} \X (1 .. n)) /\ Cardinality({c} \X (1 .. n)) = n
<1>1. IsFiniteSet(1 .. n) /\ Cardinality(1 .. n) = n
  <2>1. 1 \in Int /\ n \in Int /\ (IF 1 > n THEN 0 ELSE n - 1 + 1) = n
    OBVIOUS
  <2>2. QED
    BY <2>1, FS_Interval
<1>2. IsFiniteSet({c}) /\ Cardinality({c}) = 1
  BY FS_Singleton
<1>3. /\ IsFiniteSet({c} \X (1 .. n))
      /\ Cardinality({c} \X (1 .. n)) = Cardinality({c}) * Cardinality(1 .. n)
  BY <1>1, <1>2, FS_Product
<1>4. QED
  BY <1>1, <1>2, <1>3

\* One more call adds its increment.
LEMMA SumAdds ==
  ASSUME NEW r \in Requests, NEW f, NEW calls, NEW c \in Calls, c \notin calls
  PROVE  SumOf(r, f, calls \cup {c}) =
           SumOf(r, f, calls) + (IF IsOn(r, c, f) THEN r[c].delta ELSE 0)
<1>1. CASE IsOn(r, c, f)
  <2> DEFINE own == {c} \X (1 .. r[c].delta)
  <2>1. r[c].delta \in Nat /\ r[c].delta <= 2 * Limit - 1
    BY <1>1, OnIsIncr
  <2>3. IsFiniteSet(own) /\ Cardinality(own) = r[c].delta
    BY <2>1, OwnUnits
  <2>4. UnitsOf(r, f, calls \cup {c}) = UnitsOf(r, f, calls) \cup own
    <3>1. ASSUME NEW u \in UnitsOf(r, f, calls \cup {c})
          PROVE  u \in UnitsOf(r, f, calls) \cup own
      <4>1. /\ u \in Calls \X (1 .. 2 * Limit - 1)
            /\ u[1] \in calls \cup {c} /\ IsOn(r, u[1], f) /\ u[2] <= r[u[1]].delta
            /\ u[2] \in 1 .. 2 * Limit - 1 /\ u = <<u[1], u[2]>>
        BY DEF UnitsOf
      <4>2. CASE u[1] = c
        <5>1. u[2] \in 1 .. r[c].delta
          BY <2>1, <4>1, <4>2
        <5>2. QED
          BY <4>1, <4>2, <5>1
      <4>3. CASE u[1] \in calls
        BY <4>1, <4>3 DEF UnitsOf
      <4>4. QED
        BY <4>1, <4>2, <4>3
    <3>2. ASSUME NEW u \in own PROVE u \in UnitsOf(r, f, calls \cup {c})
      <4>1. u[1] = c /\ u[2] \in 1 .. r[c].delta /\ u = <<u[1], u[2]>>
        OBVIOUS
      <4>2. u[2] \in 1 .. 2 * Limit - 1 /\ u[2] <= r[c].delta
        BY <2>1, <4>1, LimitAssumption
      <4>3. QED
        BY <1>1, <4>1, <4>2 DEF UnitsOf
    <3>3. UnitsOf(r, f, calls) \subseteq UnitsOf(r, f, calls \cup {c})
      BY DEF UnitsOf
    <3>4. QED
      BY <3>1, <3>2, <3>3
  <2>5. UnitsOf(r, f, calls) \cap own = {}
    BY DEF UnitsOf
  <2>6. IsFiniteSet(UnitsOf(r, f, calls)) /\ SumOf(r, f, calls) \in Nat
    BY UnitsFinite
  <2>7. Cardinality(UnitsOf(r, f, calls) \cup own) =
          Cardinality(UnitsOf(r, f, calls)) + Cardinality(own)
            - Cardinality(UnitsOf(r, f, calls) \cap own)
    BY <2>3, <2>6, FS_Union
  <2>8. SumOf(r, f, calls \cup {c}) = SumOf(r, f, calls) + r[c].delta - 0
    BY <2>3, <2>4, <2>5, <2>7, FS_EmptySet DEF SumOf
  <2>9. QED
    BY <1>1, <2>1, <2>6, <2>8
<1>2. CASE ~IsOn(r, c, f)
  <2>1. UnitsOf(r, f, calls \cup {c}) = UnitsOf(r, f, calls)
    BY <1>2 DEF UnitsOf
  <2>2. SumOf(r, f, calls) \in Nat
    BY UnitsFinite
  <2>3. QED
    BY <1>2, <2>1, <2>2 DEF SumOf
<1>3. QED
  BY <1>1, <1>2

-----------------------------------------------------------------------------
(* The inductive invariant of the counts.                                  *)

\* The calls that Redis has executed.
Executed == {c \in Calls : redis[c] = "done"}

\* A counter is the sum of the increments that Redis has executed: the answers
\* that callers have got, or not got, play no part in it.
HashIsSum == \A f \in Fields : Small(f) => hash[f] = SumOf(req, f, Executed)

\* A call returns Ok when Redis has executed it, or when there is nothing to do.
OkIsExecuted ==
  \A c \in Succeeded : redis[c] = "done" \/ (req[c].op = "incr" /\ req[c].delta = 0)

BeforeIsOk == \A c \in Calls : req[c].op = "totals" => req[c].before \subseteq Succeeded

\* Totals that Redis has answered, whether or not the answer reaches the caller.
ReadIsCurrent ==
  \A c \in Executed, f \in Fields :
    req[c].op = "totals" /\ Small(f) => /\ SumOf(req, f, req[c].before) <= read[c][f]
                                        /\ read[c][f] <= SumOf(req, f, Calls)

UnusedIsQuiet == \A c \in Calls : req[c] = Unused => cli[c] = "unused"

Counted == /\ TypeOK
           /\ HashIsSum
           /\ OkIsExecuted
           /\ BeforeIsOk
           /\ ReadIsCurrent
           /\ UnusedIsQuiet

\* A call that has begun keeps its request, and an increment that is not small
\* does not become so.
LEMMA RequestStays ==
  ASSUME TypeOK, NEW c \in Calls, Step(c)
  PROVE  /\ \A d \in Calls : req[d] # Unused \/ d # c => req'[d] = req[d]
         /\ \A f : Small(f)' => Small(f)
         /\ \A f : SumOf(req, f, Calls) <= SumOf(req', f, Calls)
<1>1. \A d \in Calls : req[d] # Unused \/ d # c => req'[d] = req[d]
  BY DEF Step, Incr, Totals, HIncrBy, HGetAll, Lost, Answer, Broken, TypeOK
<1>2. \A f : \A d \in Calls : IsOn(req, d, f) => req'[d] = req[d]
  BY <1>1 DEF IsOn, Unused
<1>3. \A f : Small(f)' => Small(f)
  BY <1>2 DEF Small, On, IsOn
<1>4. req \in Requests
  BY DEF TypeOK, Requests
<1>5. \A f : SumOf(req, f, Calls) <= SumOf(req', f, Calls)
  BY <1>2, <1>4, SumGrows
<1>6. QED
  BY <1>1, <1>3, <1>5

\* The calls that Redis has executed have begun, and so have those that are done.
LEMMA HaveBegun ==
  ASSUME TypeOK, UnusedIsQuiet
  PROVE  \A c \in Executed \cup Succeeded : c \in Calls /\ req[c] # Unused
BY DEF TypeOK, UnusedIsQuiet, Executed, Succeeded

\* The increments that returned Ok are among those executed.
LEMMA OkSum ==
  ASSUME TypeOK, OkIsExecuted, NEW f, NEW calls \in SUBSET Succeeded
  PROVE  SumOf(req, f, calls) <= SumOf(req, f, Executed)
<1>1. req \in Requests
  BY DEF TypeOK, Requests
<1>2. \A c \in calls : c \in Succeeded /\ c \in Calls
  BY DEF Succeeded
<1>3. \A c \in calls \cap Calls : IsOn(req, c, f) /\ req[c].delta # 0 => c \in Executed
  BY <1>2 DEF OkIsExecuted, Executed
<1>4. QED
  BY <1>1, <1>3, SumGrows

\* And those executed are among those asked for.
LEMMA ExecutedSum ==
  ASSUME TypeOK, NEW f
  PROVE  SumOf(req, f, Executed) <= SumOf(req, f, Calls)
<1>1. req \in Requests
  BY DEF TypeOK, Requests
<1>2. QED
  BY <1>1, SumGrows

\* The sum of calls that have begun is the same after a step.
LEMMA BegunSum ==
  ASSUME TypeOK, UnusedIsQuiet, NEW c \in Calls, Step(c), NEW f,
         NEW calls \in SUBSET (Executed \cup Succeeded)
  PROVE  SumOf(req', f, calls) = SumOf(req, f, calls)
<1>1. \A d \in calls : req'[d] = req[d]
  BY HaveBegun, RequestStays
<1>2. QED
  BY <1>1, SumStays

\* HINCRBY and HGETALL are what makes a call executed.
LEMMA HashStep ==
  ASSUME TypeOK, HashIsSum, UnusedIsQuiet, NEW c \in Calls, Step(c)
  PROVE  HashIsSum'
<1> SUFFICES ASSUME NEW f \in Fields, Small(f)'
             PROVE  hash'[f] = SumOf(req', f, Executed')
  BY DEF HashIsSum
<1>1. Small(f) /\ hash[f] = SumOf(req, f, Executed)
  BY RequestStays DEF HashIsSum
<1>2. req \in Requests
  BY DEF TypeOK, Requests
<1>3. SumOf(req', f, Executed) = SumOf(req, f, Executed)
  BY BegunSum
<1>4. CASE hash' = hash /\ Executed' = Executed
  BY <1>1, <1>3, <1>4
<1>5. CASE HIncrBy(c) /\ redis'[c] = "done"
  <2>1. c \notin Executed /\ Executed' = Executed \cup {c} /\ req' = req
    BY <1>5 DEF HIncrBy, Executed, TypeOK
  <2>2. SumOf(req, f, Executed \cup {c}) =
          SumOf(req, f, Executed) + (IF IsOn(req, c, f) THEN req[c].delta ELSE 0)
    BY <1>2, <2>1, SumAdds
  <2>3. req[c].op = "incr" /\ redis[c] = "sent"
    BY <1>5 DEF HIncrBy
  <2>4. hash' = [hash EXCEPT ![req[c].field] = hash[req[c].field] + AsI64(req[c].delta)]
    BY <1>5 DEF HIncrBy, TypeOK
  <2>5. CASE req[c].field = f
    <3>1. IsOn(req, c, f) /\ req[c].delta \in Deltas /\ req[c].delta < Limit
      BY <1>1, <1>2, <2>3, <2>5, OnIsIncr DEF IsOn, Small, On
    <3>2. AsI64(req[c].delta) = req[c].delta
      BY <3>1, CastOk
    <3>3. hash'[f] = hash[f] + req[c].delta
      BY <2>4, <2>5, <3>2 DEF TypeOK
    <3>4. QED
      BY <1>1, <2>1, <2>2, <3>1, <3>3
  <2>6. CASE req[c].field # f
    <3>1. hash'[f] = hash[f] /\ ~IsOn(req, c, f)
      BY <2>4, <2>6 DEF TypeOK, IsOn
    <3>2. SumOf(req, f, Executed) \in Nat
      BY UnitsFinite
    <3>3. QED
      BY <1>1, <2>1, <2>2, <3>1, <3>2
  <2>7. QED
    BY <2>5, <2>6
<1>6. CASE HGetAll(c)
  <2>1. c \notin Executed /\ Executed' = Executed \cup {c} /\ req' = req /\ hash' = hash
    BY <1>6 DEF HGetAll, Executed, TypeOK
  <2>2. ~IsOn(req, c, f)
    BY <1>6 DEF HGetAll, IsOn
  <2>3. SumOf(req, f, Executed \cup {c}) =
          SumOf(req, f, Executed) + (IF IsOn(req, c, f) THEN req[c].delta ELSE 0)
    BY <1>2, <2>1, SumAdds
  <2>4. SumOf(req, f, Executed) \in Nat
    BY UnitsFinite
  <2>5. QED
    BY <1>1, <2>1, <2>2, <2>3, <2>4
<1>7. HIncrBy(c) /\ redis'[c] # "done" => hash' = hash /\ Executed' = Executed
  BY DEF HIncrBy, Executed, TypeOK
<1>8. ~HIncrBy(c) /\ ~HGetAll(c) => hash' = hash /\ Executed' = Executed
  <2>1. ASSUME NEW g \in Fields, NEW delta \in Deltas, Incr(c, g, delta)
        PROVE  hash' = hash /\ Executed' = Executed
    BY <2>1 DEF Incr, Executed, TypeOK
  <2>2. Totals(c) \/ Lost(c) => hash' = hash /\ Executed' = Executed
    BY DEF Totals, Lost, Executed, TypeOK
  <2>3. Answer(c) \/ Broken(c) => hash' = hash /\ Executed' = Executed
    BY DEF Answer, Broken, Executed
  <2>4. QED
    BY <2>1, <2>2, <2>3 DEF Step
<1>9. QED
  BY <1>4, <1>5, <1>6, <1>7, <1>8

\* Ok is the end of a call, and Redis does not undo what it has executed.
LEMMA OkStays ==
  ASSUME TypeOK, UnusedIsQuiet, NEW c \in Calls, Step(c)
  PROVE  /\ Succeeded \subseteq Succeeded'
         /\ Executed \subseteq Executed'
         /\ UnusedIsQuiet'
<1>1. ASSUME NEW f \in Fields, NEW delta \in Deltas, Incr(c, f, delta)
      PROVE  Succeeded \subseteq Succeeded' /\ Executed \subseteq Executed' /\ UnusedIsQuiet'
  <2>1. req'[c] # Unused /\ \A d \in Calls : d # c => req'[d] = req[d] /\ cli'[d] = cli[d]
    BY <1>1 DEF Incr, TypeOK, Unused
  <2>2. QED
    BY <1>1, <2>1 DEF Incr, TypeOK, UnusedIsQuiet, Succeeded, Executed
<1>2. CASE Totals(c)
  <2>1. req'[c] # Unused /\ \A d \in Calls : d # c => req'[d] = req[d] /\ cli'[d] = cli[d]
    BY <1>2 DEF Totals, TypeOK, Unused
  <2>2. QED
    BY <1>2, <2>1 DEF Totals, TypeOK, UnusedIsQuiet, Succeeded, Executed
<1>3. CASE HIncrBy(c) \/ HGetAll(c) \/ Lost(c)
  <2>1. req' = req /\ cli' = cli
        /\ \A d \in Calls : redis[d] = "done" => redis'[d] = "done"
    BY <1>3 DEF HIncrBy, HGetAll, Lost, TypeOK
  <2>2. QED
    BY <2>1 DEF UnusedIsQuiet, Succeeded, Executed
<1>4. CASE Answer(c) \/ Broken(c)
  <2>1. req' = req /\ redis' = redis /\ cli[c] = "waiting"
        /\ \A d \in Calls : d # c => cli'[d] = cli[d]
    BY <1>4 DEF Answer, Broken, TypeOK
  <2>2. QED
    BY <2>1 DEF UnusedIsQuiet, Succeeded, Executed
<1>5. QED
  BY <1>1, <1>2, <1>3, <1>4 DEF Step

\* A call that returns Ok has been answered by Redis, or had nothing to send.
LEMMA OkStep ==
  ASSUME TypeOK, OkIsExecuted, UnusedIsQuiet, NEW c \in Calls, Step(c)
  PROVE  OkIsExecuted'
<1> SUFFICES ASSUME NEW d \in Calls, cli'[d] = "ok"
             PROVE  redis'[d] = "done" \/ (req'[d].op = "incr" /\ req'[d].delta = 0)
  BY DEF OkIsExecuted, Succeeded
<1>1. CASE cli[d] = "ok"
  <2>1. redis[d] = "done" \/ (req[d].op = "incr" /\ req[d].delta = 0)
    BY <1>1 DEF OkIsExecuted, Succeeded
  <2>2. req[d] # Unused /\ req'[d] = req[d]
    BY <1>1, HaveBegun, RequestStays DEF Succeeded
  <2>3. redis[d] = "done" => redis'[d] = "done"
    BY OkStays DEF Executed
  <2>4. QED
    BY <2>1, <2>2, <2>3
<1>2. CASE cli[d] # "ok"
  <2>1. d = c
    BY <1>2 DEF Step, Incr, Totals, HIncrBy, HGetAll, Lost, Answer, Broken, TypeOK
  <2>2. ASSUME NEW f \in Fields, NEW delta \in Deltas, Incr(c, f, delta)
        PROVE  req'[d].op = "incr" /\ req'[d].delta = 0
    BY <2>1, <2>2 DEF Incr, TypeOK
  <2>3. ~Totals(c) /\ ~Broken(c)
    BY <2>1 DEF Totals, Broken, OnError, TypeOK
  <2>4. Answer(c) => redis'[d] = "done"
    BY <2>1 DEF Answer, OnError, TypeOK
  <2>5. ~HIncrBy(c) /\ ~HGetAll(c) /\ ~Lost(c)
    BY <1>2 DEF HIncrBy, HGetAll, Lost
  <2>6. QED
    BY <2>2, <2>3, <2>4, <2>5 DEF Step
<1>3. QED
  BY <1>1, <1>2

\* What had returned Ok when a read began is among what has now.
LEMMA BeforeStep ==
  ASSUME TypeOK, BeforeIsOk, UnusedIsQuiet, NEW c \in Calls, Step(c)
  PROVE  BeforeIsOk'
<1> SUFFICES ASSUME NEW d \in Calls, req'[d].op = "totals"
             PROVE  req'[d].before \subseteq Succeeded'
  BY DEF BeforeIsOk
<1>1. CASE req'[d] = req[d]
  BY <1>1, OkStays DEF BeforeIsOk
<1>2. CASE req'[d] # req[d]
  <2>1. d = c /\ req[c] = Unused
    BY <1>2, RequestStays
  <2>2. ASSUME NEW f \in Fields, NEW delta \in Deltas, Incr(c, f, delta) PROVE FALSE
    <3>1. req'[d].op = "incr"
      BY <2>1, <2>2 DEF Incr, TypeOK
    <3>2. QED
      BY <3>1
  <2>3. CASE Totals(c)
    <3>1. req'[d].before = Succeeded
      BY <2>1, <2>3 DEF Totals, TypeOK
    <3>2. QED
      BY <3>1, OkStays
  <2>4. CASE HIncrBy(c) \/ HGetAll(c) \/ Lost(c) \/ Answer(c) \/ Broken(c)
    BY <1>2, <2>4 DEF HIncrBy, HGetAll, Lost, Answer, Broken
  <2>5. QED
    BY <2>2, <2>3, <2>4 DEF Step
<1>3. QED
  BY <1>1, <1>2

\* A read sees the hash at one moment between its beginning and its end.
LEMMA ReadStep ==
  ASSUME Counted, NEW c \in Calls, Step(c)
  PROVE  ReadIsCurrent'
<1> USE DEF Counted
<1> SUFFICES ASSUME NEW d \in Calls, redis'[d] = "done", NEW f \in Fields,
                    req'[d].op = "totals", Small(f)'
             PROVE  /\ SumOf(req', f, req'[d].before) <= read'[d][f]
                    /\ read'[d][f] <= SumOf(req', f, Calls)
  BY DEF ReadIsCurrent, Executed
<1>1. Small(f) /\ SumOf(req, f, Calls) <= SumOf(req', f, Calls)
  BY RequestStays
<1>2. /\ SumOf(req, f, Calls) \in Nat /\ SumOf(req', f, Calls) \in Nat
      /\ SumOf(req, f, Executed) \in Nat
      /\ SumOf(req, f, req[d].before) \in Nat
  BY UnitsFinite
<1>3. redis[d] # "unsent" => req'[d] = req[d]
  BY RequestStays DEF TypeOK
<1>4. redis[d] # "unsent"
  <2>1. ASSUME NEW g \in Fields, NEW delta \in Deltas, Incr(c, g, delta)
        PROVE  redis[d] # "unsent"
    BY <2>1 DEF Incr, TypeOK
  <2>2. Totals(c) => redis[d] # "unsent"
    BY DEF Totals, TypeOK
  <2>3. HIncrBy(c) \/ HGetAll(c) \/ Lost(c) \/ Answer(c) \/ Broken(c) => redis[d] # "unsent"
    BY DEF HIncrBy, HGetAll, Lost, Answer, Broken, TypeOK
  <2>4. QED
    BY <2>1, <2>2, <2>3 DEF Step
<1>5. req'[d] = req[d] /\ req[d].op = "totals"
  BY <1>3, <1>4
<1>6. req[d].before \in SUBSET Succeeded
  BY <1>5 DEF BeforeIsOk
<1>7. SumOf(req', f, req[d].before) = SumOf(req, f, req[d].before)
  BY <1>6, BegunSum
<1>8. CASE redis[d] = "done"
  <2>1. read'[d] = read[d]
    BY <1>8 DEF Step, Incr, Totals, HIncrBy, HGetAll, Lost, Answer, Broken, TypeOK
  <2>2. /\ SumOf(req, f, req[d].before) <= read[d][f]
        /\ read[d][f] <= SumOf(req, f, Calls)
    BY <1>1, <1>5, <1>8 DEF ReadIsCurrent, Executed
  <2>3. read[d][f] \in Int
    BY LimitAssumption DEF TypeOK
  <2>4. QED
    BY <1>1, <1>2, <1>5, <1>7, <2>1, <2>2, <2>3
<1>9. CASE redis[d] # "done"
  <2>1. HGetAll(c) /\ d = c
    <3>1. HIncrBy(c) => d # c
      BY <1>5 DEF HIncrBy
    <3>2. QED
      BY <1>9, <3>1 DEF Step, Incr, Totals, HIncrBy, HGetAll, Lost, Answer, Broken, TypeOK
  <2>2. read'[d][f] = TotalOf(hash[f])
    BY <2>1 DEF HGetAll, TypeOK
  <2>3. hash[f] = SumOf(req, f, Executed)
    BY <1>1 DEF HashIsSum
  <2>4. read'[d][f] = SumOf(req, f, Executed)
    BY <1>2, <2>2, <2>3 DEF TotalOf
  <2>5. SumOf(req, f, req[d].before) <= SumOf(req, f, Executed)
    BY <1>6, OkSum
  <2>6. SumOf(req, f, Executed) <= SumOf(req, f, Calls)
    BY ExecutedSum
  <2>7. QED
    BY <1>1, <1>2, <1>5, <1>7, <2>4, <2>5, <2>6
<1>10. QED
  BY <1>8, <1>9

\* The invariant holds in every state.
LEMMA Counts == Spec => []Counted
<1>1. Init => Counted
  <2> SUFFICES ASSUME Init PROVE Counted
    OBVIOUS
  <2>1. TypeOK
    BY LimitAssumption DEF Init, TypeOK, Zero, Signed
  <2>2. ASSUME NEW f \in Fields PROVE hash[f] = SumOf(req, f, Executed)
    <3>1. UnitsOf(req, f, Executed) = {}
      BY DEF Init, Executed, UnitsOf
    <3>2. SumOf(req, f, Executed) = 0
      BY <3>1, FS_EmptySet DEF SumOf
    <3>3. QED
      BY <3>2 DEF Init, Zero
  <2>3. OkIsExecuted /\ BeforeIsOk /\ ReadIsCurrent /\ UnusedIsQuiet
    BY DEF Init, OkIsExecuted, BeforeIsOk, ReadIsCurrent, UnusedIsQuiet, Succeeded, Executed,
           Unused
  <2>4. QED
    BY <2>1, <2>2, <2>3 DEF Counted, HashIsSum
<1>2. Counted /\ [Next]_vars => Counted'
  <2>1. ASSUME Counted, UNCHANGED vars PROVE Counted'
    BY <2>1 DEF Counted, vars, TypeOK, HashIsSum, OkIsExecuted, BeforeIsOk, ReadIsCurrent,
                UnusedIsQuiet, Succeeded, Executed, Small, On
  <2>2. ASSUME Counted, NEW c \in Calls, Step(c) PROVE Counted'
    <3>1. TypeOK' /\ HashIsSum'
      BY <2>2, StepType, HashStep DEF Counted
    <3>2. OkIsExecuted' /\ BeforeIsOk' /\ UnusedIsQuiet'
      BY <2>2, OkStep, BeforeStep, OkStays DEF Counted
    <3>3. ReadIsCurrent'
      BY <2>2, ReadStep
    <3>4. QED
      BY <3>1, <3>2, <3>3 DEF Counted
  <2>3. QED
    BY <2>1, <2>2 DEF Next
<1>3. QED
  BY <1>1, <1>2, PTL DEF Spec

\* The sums of the model are those of the proofs.
LEMMA SumsAgree ==
  ASSUME TypeOK, NEW f, NEW calls \in SUBSET Calls
  PROVE  Sum(f, calls) = SumOf(req, f, calls)
<1>1. req \in Requests
  BY DEF TypeOK, Requests
<1>2. QED
  BY <1>1, SumIsSumOf DEF Sum, Units, On

\* No increment is counted twice and none that returned Ok is missing, whatever
\* becomes of connections and answers (edge.rs:37-44): at every moment the counter
\* lies between what has returned Ok and what was ever asked for.
THEOREM CountsAreExact == Spec => []CountedOnce
<1>1. Counted => CountedOnce
  <2> SUFFICES ASSUME Counted, NEW f \in Fields, Small(f)
               PROVE  Sum(f, Succeeded) <= hash[f] /\ hash[f] <= Sum(f, Calls)
    BY DEF CountedOnce
  <2>1. TypeOK /\ OkIsExecuted /\ hash[f] = SumOf(req, f, Executed)
    BY DEF Counted, HashIsSum
  <2>2. Sum(f, Succeeded) = SumOf(req, f, Succeeded) /\ Sum(f, Calls) = SumOf(req, f, Calls)
    <3>1. Succeeded \in SUBSET Calls /\ Calls \in SUBSET Calls
      BY DEF Succeeded
    <3>2. QED
      BY <2>1, <3>1, SumsAgree
  <2>3. SumOf(req, f, Succeeded) <= SumOf(req, f, Executed)
    BY <2>1, OkSum
  <2>4. SumOf(req, f, Executed) <= SumOf(req, f, Calls)
    BY <2>1, ExecutedSum
  <2>5. QED
    BY <2>1, <2>2, <2>3, <2>4
<1>2. QED
  BY <1>1, Counts, PTL

\* Totals that a caller gets are those of a moment during its call (edge.rs:47-54):
\* they have all that had returned Ok before it and nothing that was not asked for.
THEOREM TotalsAreExact == Spec => []TotalsAreCurrent
<1>1. Counted => TotalsAreCurrent
  <2> SUFFICES ASSUME Counted, NEW c \in Succeeded, NEW f \in Fields,
                      req[c].op = "totals", Small(f)
               PROVE  Sum(f, req[c].before) <= read[c][f] /\ read[c][f] <= Sum(f, Calls)
    BY DEF TotalsAreCurrent
  <2>1. c \in Calls /\ c \in Executed
    BY DEF Counted, OkIsExecuted, Succeeded, Executed
  <2>2. /\ SumOf(req, f, req[c].before) <= read[c][f]
        /\ read[c][f] <= SumOf(req, f, Calls)
    BY <2>1 DEF Counted, ReadIsCurrent
  <2>3. req[c].before \in SUBSET Calls /\ Calls \in SUBSET Calls
    BY <2>1 DEF Counted, BeforeIsOk, Succeeded
  <2>4. QED
    BY <2>2, <2>3, SumsAgree DEF Counted
<1>2. QED
  BY <1>1, Counts, PTL

=============================================================================
