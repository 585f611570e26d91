-------------------------------- MODULE TxId ---------------------------------
(***************************************************************************)
(* The transaction ids of a client.  Client::next_tx_id of the two Rust    *)
(* clients takes `&mut self': one caller at a time.  Client.nextTxID of    *)
(* src/promproxy/client.go shares an atomic counter among goroutines, in a *)
(* compare-and-swap loop; that loop is modelled here, and a single caller  *)
(* of it is the Rust client.                                               *)
(***************************************************************************)
EXTENDS Naturals, Sequences

CONSTANTS
  Callers,   \* goroutines that share the client
  Modulus,   \* the number of values of a uint64
  MaxCalls   \* bound: calls of nextTxID

ASSUME ModulusAssumption == Modulus \in Nat /\ Modulus > 2
ASSUME MaxCallsAssumption == MaxCalls \in Nat

VARIABLES
  nextTx,   \* the atomic counter
  pc,       \* where each caller stands
  id,       \* what it has loaded
  calls,    \* calls begun
  issued    \* history: the ids handed out, in the order of the swaps

vars == <<nextTx, pc, id, calls, issued>>

\* wrapping_add(1).max(1) of the Rust clients.
RustSucc(n) == LET m == (n + 1) % Modulus IN IF m > 1 THEN m ELSE 1

\* A variant of Succ: the counter wraps to 0.
SuccWithZero(n) == IF n + 1 = Modulus THEN 0 ELSE n + 1

\* The Go code: add, and step over 0.
Succ(n) == IF n + 1 = Modulus THEN 1 ELSE n + 1

Init == /\ nextTx = 1
        /\ pc = [c \in Callers |-> "idle"]
        /\ id = [c \in Callers |-> 0]
        /\ calls = 0
        /\ issued = <<>>

\* A call of nextTxID begins.
Begin(c) == /\ pc[c] = "idle"
            /\ calls < MaxCalls
            /\ calls' = calls + 1
            /\ pc' = [pc EXCEPT ![c] = "load"]
            /\ UNCHANGED <<nextTx, id, issued>>

Load(c) == /\ pc[c] = "load"
           /\ id' = [id EXCEPT ![c] = nextTx]
           /\ pc' = [pc EXCEPT ![c] = "swap"]
           /\ UNCHANGED <<nextTx, calls, issued>>

\* A variant of Free: a plain store.
Always(c) == TRUE

\* The counter still is what c has loaded.
Free(c) == nextTx = id[c]

\* A variant of Again: the loop does not load afresh.
AgainStale == "swap"

\* Where a caller goes on that lost its swap.
Again == "load"

\* CompareAndSwap: c has its id, or it starts over.
Swap(c) == /\ pc[c] = "swap"
           /\ IF Free(c)
                THEN /\ nextTx' = Succ(id[c])
                     /\ issued' = Append(issued, id[c])
                     /\ pc' = [pc EXCEPT ![c] = "idle"]
                ELSE /\ pc' = [pc EXCEPT ![c] = Again]
                     /\ UNCHANGED <<nextTx, issued>>
           /\ UNCHANGED <<id, calls>>

Step(c) == Load(c) \/ Swap(c)

Next == \E c \in Callers : Begin(c) \/ Step(c)

Spec == Init /\ [][Next]_vars

\* The scheduler runs every goroutine that can go on.
FairSpec == Spec /\ \A c \in Callers : WF_vars(Step(c))

-----------------------------------------------------------------------------

Ids == 1..(Modulus - 1)

TypeOK == /\ nextTx \in Ids
          /\ pc \in [Callers -> {"idle", "load", "swap"}]
          /\ id \in [Callers -> Ids \cup {0}]
          /\ \A c \in Callers : pc[c] = "swap" => id[c] \in Ids
          /\ calls \in 0..MaxCalls
          /\ issued \in Seq(Ids)

\* No id is handed out twice before all the others have been, however the loads
\* and swaps of the goroutines interleave and wherever the counter wraps
\* (promproxy/client.go:111-122).
NoIdTwice ==
  \A i, j \in 1..Len(issued) :
    (i < j /\ j - i < Modulus - 1) => issued[i] # issued[j]

\* Every caller gets its id: a lost swap is retried with a fresh load, and the
\* number of swaps one can lose is bounded by the calls of the others.
CallersReturn == \A c \in Callers : pc[c] # "idle" ~> pc[c] = "idle"

=============================================================================
