----------------------------- MODULE TxIdProofs ------------------------------
(***************************************************************************)
(* Theorems about TxId, for every number of goroutines and every width of  *)
(* the counter.                                                            *)
(***************************************************************************)
EXTENDS TxId, SequenceTheorems, TLAPS

\* The two languages count in the same way: wrapping_add(1).max(1) in Rust, an
\* addition that steps over 0 in Go.
THEOREM SameSuccessor ==
  ASSUME NEW n \in 0..(Modulus - 1)
  PROVE  RustSucc(n) = Succ(n) /\ Succ(n) \in Ids
<1>0. n \in Nat /\ Modulus \in Nat /\ Modulus > 2 /\ n + 1 <= Modulus
  BY ModulusAssumption
<1>1. CASE n + 1 = Modulus
  <2>1. (n + 1) % Modulus = 0
    BY <1>0, <1>1
  <2>2. QED
    BY <1>0, <1>1, <2>1 DEF RustSucc, Succ, Ids
<1>2. CASE n + 1 < Modulus
  <2>1. (n + 1) % Modulus = n + 1
    BY <1>0, <1>2
  <2>2. QED
    BY <1>0, <1>2, <2>1 DEF RustSucc, Succ, Ids
<1>3. QED
  BY <1>0, <1>1, <1>2

\* The successor of an id is an id.
LEMMA SuccType == ASSUME NEW n \in Ids PROVE Succ(n) \in Ids
BY ModulusAssumption DEF Succ, Ids

\* The types: in particular no id is ever 0.
THEOREM TxIdTyping == Spec => []TypeOK
<1>1. Init => TypeOK
  BY ModulusAssumption, MaxCallsAssumption DEF Init, TypeOK, Ids
<1>2. TypeOK /\ [Next]_vars => TypeOK'
  <2> SUFFICES ASSUME TypeOK, [Next]_vars PROVE TypeOK'
    OBVIOUS
  <2>1. ASSUME NEW c \in Callers, Begin(c) PROVE TypeOK'
    BY <2>1, MaxCallsAssumption DEF Begin, TypeOK
  <2>2. ASSUME NEW c \in Callers, Load(c) PROVE TypeOK'
    BY <2>2 DEF Load, TypeOK
  <2>3. ASSUME NEW c \in Callers, Swap(c) PROVE TypeOK'
    <3>1. id[c] \in Ids
      BY <2>3 DEF Swap, TypeOK
    <3>2. Succ(id[c]) \in Ids /\ Append(issued, id[c]) \in Seq(Ids)
      BY <3>1, SuccType, AppendProperties DEF TypeOK
    <3>3. QED
      BY <2>3, <3>2 DEF Swap, Again, TypeOK
  <2>4. CASE UNCHANGED vars
    BY <2>4 DEF vars, TypeOK
  <2>5. QED
    BY <2>1, <2>2, <2>3, <2>4 DEF Next, Step
<1>3. QED
  BY <1>1, <1>2, PTL DEF Spec

\* The id that is d swaps after another, where d is less than a turn.
After(first, d, later) == later = first + d \/ later = first + d - (Modulus - 1)

\* Along the ids handed out, with the counter as the next one, each is as far
\* from an earlier one as the swaps between them.
Spacing ==
  \A i \in 1..Len(issued) :
    /\ \A j \in 1..Len(issued) :
         (i <= j /\ j - i < Modulus - 1) => After(issued[i], j - i, issued[j])
    /\ Len(issued) + 1 - i <= Modulus - 1 => After(issued[i], Len(issued) + 1 - i, nextTx)

\* One more swap moves the distance on by one.
LEMMA OneFurther ==
  ASSUME NEW m \in Nat, m = Modulus - 1,
         NEW first \in 1..m, NEW d \in Nat, d + 1 <= m, NEW x \in 1..m, NEW y \in 1..m,
         After(first, d, x), y = x + 1 \/ y = x + 1 - m
  PROVE  After(first, d + 1, y)
BY DEF After

\* A swap that succeeds appends the counter and moves it on.
LEMMA SpacingStep ==
  ASSUME TypeOK, Spacing, issued' = Append(issued, nextTx), nextTx' = Succ(nextTx)
  PROVE  Spacing'
<1> DEFINE n == Len(issued)
           m == Modulus - 1
<1>0. /\ n \in Nat /\ m \in Nat /\ m > 1 /\ Modulus = m + 1
      /\ nextTx \in Nat /\ nextTx >= 1 /\ nextTx <= m
      /\ \A i \in 1..n : issued[i] \in Nat /\ issued[i] >= 1 /\ issued[i] <= m
  BY ModulusAssumption DEF TypeOK, Ids
<1>1. /\ Len(issued') = n + 1
      /\ \A i \in 1..n : issued'[i] = issued[i]
      /\ issued'[n + 1] = nextTx
  BY AppendProperties DEF TypeOK
<1>2. nextTx' = nextTx + 1 \/ nextTx' = nextTx + 1 - m
  BY <1>0 DEF Succ
<1>2a. nextTx' \in Nat /\ nextTx' >= 1 /\ nextTx' <= m
  BY <1>0 DEF Succ
<1>3. ASSUME NEW i \in 1..n, NEW j \in 1..n, i <= j, j - i < m
      PROVE  After(issued'[i], j - i, issued'[j])
  BY <1>0, <1>1, <1>3 DEF Spacing
<1>4. ASSUME NEW i \in 1..n, n + 1 - i < m
      PROVE  After(issued'[i], n + 1 - i, issued'[n + 1])
  BY <1>0, <1>1, <1>4 DEF Spacing
<1>5. ASSUME NEW i \in 1..n, n + 2 - i <= m
      PROVE  After(issued'[i], n + 2 - i, nextTx')
  <2>1. After(issued[i], n + 1 - i, nextTx)
    BY <1>0, <1>5 DEF Spacing
  <2>2. /\ issued[i] \in 1..m /\ nextTx \in 1..m /\ nextTx' \in 1..m
        /\ n + 1 - i \in Nat /\ (n + 1 - i) + 1 <= m /\ (n + 1 - i) + 1 = n + 2 - i
    BY <1>0, <1>2a, <1>5
  <2> HIDE DEF n, m
  <2>3. After(issued[i], (n + 1 - i) + 1, nextTx')
    BY <1>0, <1>2, <2>1, <2>2, OneFurther DEF m
  <2>4. QED
    BY <1>1, <2>2, <2>3
<1>6. After(issued'[n + 1], 0, issued'[n + 1]) /\ After(issued'[n + 1], 1, nextTx')
  BY <1>0, <1>1, <1>2 DEF After
<1>7. QED
  BY <1>0, <1>1, <1>3, <1>4, <1>5, <1>6 DEF Spacing

\* NoIdTwice for every number of goroutines and every width of the counter.
THEOREM IdsAreFresh == Spec => []NoIdTwice
<1>1. Init => Spacing
  BY DEF Init, Spacing
<1>2. TypeOK /\ Spacing /\ [Next]_vars => Spacing'
  <2> SUFFICES ASSUME TypeOK, Spacing, [Next]_vars PROVE Spacing'
    OBVIOUS
  <2>1. CASE UNCHANGED <<issued, nextTx>>
    BY <2>1 DEF Spacing
  <2>2. ASSUME NEW c \in Callers, Swap(c) PROVE Spacing'
    <3>1. CASE Free(c)
      BY <2>2, <3>1, SpacingStep DEF Swap, Free
    <3>2. CASE ~Free(c)
      BY <2>1, <2>2, <3>2 DEF Swap
    <3>3. QED
      BY <3>1, <3>2
  <2>3. QED
    BY <2>1, <2>2 DEF Next, Step, Begin, Load, vars
<1>3. TypeOK /\ Spacing => NoIdTwice
  <2> SUFFICES ASSUME TypeOK, Spacing,
                      NEW i \in 1..Len(issued), NEW j \in 1..Len(issued),
                      i < j, j - i < Modulus - 1
               PROVE  issued[i] # issued[j]
    BY DEF NoIdTwice
  <2>1. After(issued[i], j - i, issued[j])
    BY DEF Spacing, TypeOK
  <2>2. issued[i] \in Nat /\ issued[j] \in Nat /\ i \in Nat /\ j \in Nat /\ Modulus \in Nat
    BY ModulusAssumption DEF TypeOK, Ids
  <2>3. QED
    BY <2>1, <2>2 DEF After
<1>4. QED
  BY <1>1, <1>2, <1>3, TxIdTyping, PTL DEF Spec

=============================================================================
