-------------------------- MODULE DfinderDirectory -------------------------
(***************************************************************************)
(* What a dfinder registry promises its clients, without locks, probes,    *)
(* tasks or connections.                                                   *)
(*                                                                         *)
(* The directory is one row per IP.  A call takes effect at most once, at  *)
(* one instant after it was made; it returns `ok' only after that instant; *)
(* a call that failed may still take effect later, but only once.  What a  *)
(* query returns is taken from the rows of one instant.  A row goes away   *)
(* only after the registry has found its node overdue, and an outage takes *)
(* no other row; what was found overdue may be forgotten.                  *)
(***************************************************************************)
EXTENDS Naturals, FiniteSets

CONSTANTS Ips,       \* addresses
          Infos,     \* what is registered under an address
          Labels,    \* labels in use
          LabelsOf,  \* the labels of each member of Infos
          Queries,   \* label sets asked for
          Calls,     \* calls, each made at most once
          NoRow,     \* nothing registered
          NoCall     \* call not made yet

VARIABLES dir,   \* the rows
          due,   \* the addresses found overdue and not yet dealt with
          call,  \* the calls: address, request, outcome and answer
          took   \* the calls that have taken effect

vars == <<dir, due, call, took>>

Requests == [kind : {"register"}, info : Infos]
              \cup [kind : {"query"}, labels : Queries]

\* An answer never names a row that lacks one of the labels.
Answers(labels) ==
  SUBSET {[ip |-> ip, info |-> dir[ip]] :
            ip \in {i \in Ips : dir[i] # NoRow /\ labels \subseteq LabelsOf[dir[i]]}}

Made(k, outcome) == call[k] # NoCall /\ call[k].outcome = outcome

Init == /\ dir = [ip \in Ips |-> NoRow]
        /\ due = {}
        /\ call = [k \in Calls |-> NoCall]
        /\ took = {}

\* A call is made; it may fail on the spot.
Make(k, ip, r, outcome) ==
  /\ call[k] = NoCall
  /\ call' = [call EXCEPT ![k] = [ip |-> ip, req |-> r, outcome |-> outcome, answer |-> {}]]
  /\ UNCHANGED <<dir, due, took>>

Effective(k) == /\ call[k] # NoCall
                /\ k \notin took
                /\ took' = took \cup {k}

\* A registration takes effect, for a caller that waits or has given up.
Enter(k) ==
  /\ Effective(k)
  /\ call[k].req.kind = "register"
  /\ LabelsOf[call[k].req.info] # {}
  /\ dir' = [dir EXCEPT ![call[k].ip] = call[k].req.info]
  /\ UNCHANGED <<due, call>>

\* A query looks at the rows; the answer matters to a waiting caller only.
Look(k, answer) ==
  /\ Effective(k)
  /\ call[k].req.kind = "query"
  /\ answer \in Answers(call[k].req.labels)
  /\ call[k].outcome = "waiting" \/ answer = {}
  /\ call' = [call EXCEPT ![k].answer = answer]
  /\ UNCHANGED <<dir, due>>

\* A call returns; the caller may drop nodes from the answer.
Return(k, answer) ==
  /\ Made(k, "waiting")
  /\ k \in took
  /\ answer \subseteq call[k].answer
  /\ call' = [call EXCEPT ![k].outcome = "ok", ![k].answer = answer]
  /\ UNCHANGED <<dir, due, took>>

\* A node is found overdue.  Its row may go from now on, even when the node has
\* registered again in the meantime.
Judge(ip) ==
  /\ due' = due \cup {ip}
  /\ UNCHANGED <<dir, call, took>>

\* Calls fail and rows that are due are deregistered, together when there is an
\* outage; what stays due is dealt with later.
Lose(failed, gone, still) ==
  /\ gone \subseteq due
  /\ still \subseteq due
  /\ due' = still
  /\ \A k \in failed : Made(k, "waiting")
  /\ call' = [k \in Calls |-> IF k \in failed
                                THEN [call[k] EXCEPT !.outcome = "err", !.answer = {}]
                                ELSE call[k]]
  /\ dir' = [ip \in Ips |-> IF ip \in gone THEN NoRow ELSE dir[ip]]
  /\ UNCHANGED took

Next == \/ \E k \in Calls, ip \in Ips, r \in Requests, outcome \in {"waiting", "err"} :
             Make(k, ip, r, outcome)
        \/ \E k \in Calls : Enter(k)
        \/ \E k \in Calls : call[k] # NoCall /\ call[k].req.kind = "query"
             /\ \E answer \in Answers(call[k].req.labels) : Look(k, answer)
        \/ \E k \in Calls : Made(k, "waiting")
             /\ \E answer \in SUBSET call[k].answer : Return(k, answer)
        \/ \E ip \in Ips : Judge(ip)
        \/ \E failed \in SUBSET Calls, gone \in SUBSET due, still \in SUBSET due :
             Lose(failed, gone, still)

Spec == Init /\ [][Next]_vars

=============================================================================
