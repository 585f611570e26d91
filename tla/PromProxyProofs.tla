--------------------------- MODULE PromProxyProofs ---------------------------
(***************************************************************************)
(* Theorems about PromProxy, for every number of servers, connections,     *)
(* statuses and crashes: its types, what an ack stands for, how the edge   *)
(* counters stand to stored bodies and acks, and what their samples say.   *)
(***************************************************************************)
EXTENDS PromProxy, FiniteSetTheorems, TLAPS

\* Incrementing never loses a count.
LEMMA IncrementedGrows ==
  ASSUME TypeOK, NEW calls, calls \subseteq Conns
  PROVE  Incremented(calls) \in Totals /\ AtMost(edges, Incremented(calls))
<1>1. ASSUME NEW key \in Keys
      PROVE  Cardinality({k \in calls : KeyOf(conn[k]) = key}) \in Nat
  <2>1. {k \in calls : KeyOf(conn[k]) = key} \subseteq Conns
    OBVIOUS
  <2>2. QED
    BY <2>1, ConnsAssumption, FS_Subset, FS_CardinalityType
<1>2. \A key \in Keys : edges[key] \in Nat
  BY DEF TypeOK, Totals
<1>3. QED
  BY <1>1, <1>2 DEF Incremented, Totals, AtMost

\* The history of the hash keeps its type.
LEMMA NotedType ==
  ASSUME TypeOK, NEW totals \in Totals
  PROVE  Noted(totals) \in [0..MaxTime -> Totals]
BY DEF Noted, TypeOK

\* A reset connection is a connection.
LEMMA ResetType ==
  ASSUME NEW c \in ConnStates
  PROVE  Reset(c) \in ConnStates /\ Reset(c).cli # "waiting" /\ Reset(c).srv = "closed"
         /\ (Reset(c).cli = "ok" => c.cli = "ok")
BY DEF Reset, ConnStates

\* The connections that stand at a stage are connections.
LEMMA StandingConns ==
  ASSUME TypeOK, NEW s, NEW stages
  PROVE  Standing(s, stages) \subseteq Conns
         /\ \A k \in Standing(s, stages) : conn[k] \in ConnStates
BY DEF Standing, TypeOK

\* Resetting some of the connections keeps their type.
LEMMA ResetAllType ==
  ASSUME TypeOK, NEW s, NEW stages
  PROVE  ResetAll(Standing(s, stages)) \in [Conns -> ConnStates \cup {NoConn}]
<1>1. \A k \in Standing(s, stages) : Reset(conn[k]) \in ConnStates
  BY StandingConns, ResetType
<1>2. QED
  BY <1>1 DEF ResetAll, TypeOK

\* A round that starts or stops is a state of a flush task.
LEMMA FlushAtType ==
  ASSUME NEW pc \in {"idle", "stopped"}
  PROVE  FlushAt(pc) \in FlushStates /\ FlushAt(pc).pc = pc
BY DEF FlushAt, FlushStates, None, Totals

\* A timestamp of the bounded clock is a number.
LEMMA TimeIsNat == ASSUME TypeOK PROVE clock \in Nat /\ 0..MaxTime \subseteq Nat
BY BoundsAssumption DEF TypeOK

\* A stamped flush is a well-formed report when its timestamp is in range.
LEMMA ReportType ==
  ASSUME TypeOK, NEW s \in Servers, flush[s].at \in 0..MaxTime
  PROVE  Report(s) \in [at : 0..MaxTime, totals : Totals]
         /\ Report(s).at = flush[s].at /\ Report(s).totals = flush[s].totals
BY DEF Report, TypeOK, FlushStates

\* The timestamp of a post under way is one the clock has shown.
StampsPast == \A s \in Servers : flush[s].pc = "posting" => flush[s].at <= clock

\* A step of a caller or of a handler keeps TypeOK, whatever the handler does
\* to the history of what was taken.
LEMMA CallType ==
  ASSUME TypeOK, NEW k \in Conns, Caller(k) \/ Accept(k) \/ Handler(k)
  PROVE  TypeOK'
<1>1. CASE GiveUp(k)
  <2>1. conn[k] \in ConnStates
    BY <1>1 DEF GiveUp, TypeOK
  <2>2. [conn[k] EXCEPT !.cli = "err"] \in ConnStates
    BY <2>1 DEF ConnStates
  <2>3. QED
    BY <1>1, <2>2 DEF GiveUp, TypeOK
<1>2. ASSUME NEW s \in Servers, NEW type \in Types, Call(k, s, type)
      PROVE  TypeOK'
  <2> DEFINE c == [server |-> s,
                   type   |-> type,
                   srv    |-> IF s \in listening THEN "backlog" ELSE "closed",
                   status |-> NoStatus,
                   cli    |-> IF s \in listening THEN "waiting" ELSE "err"]
  <2>1. c \in ConnStates
    BY DEF ConnStates
  <2>2. conn' = [conn EXCEPT ![k] = c]
    BY <1>2 DEF Call
  <2> HIDE DEF c
  <2>3. QED
    BY <1>2, <2>1, <2>2 DEF Call, TypeOK
<1>3. ASSUME NEW stage \in {"accepted", "posting", "counting", "ack", "error", "closed"},
             conn[k] # NoConn, conn' = [conn EXCEPT ![k].srv = stage]
      PROVE  conn' \in [Conns -> ConnStates \cup {NoConn}]
  <2>1. conn[k] \in ConnStates
    BY <1>3 DEF TypeOK
  <2>2. [conn[k] EXCEPT !.srv = stage] \in ConnStates
    BY <2>1 DEF ConnStates
  <2>3. QED
    BY <1>3, <2>2 DEF TypeOK
<1>4. CASE Accept(k)
  BY <1>3, <1>4 DEF Accept, AtServer, TypeOK
<1>5. CASE ReadFails(k)
  <2>1. Reset(conn[k]) \in ConnStates
    BY <1>5, ResetType DEF ReadFails, AtServer, TypeOK
  <2>2. QED
    BY <1>5, <2>1 DEF ReadFails, TypeOK
<1>6. CASE Refuse(k) \/ Forward(k)
  BY <1>3, <1>6 DEF Refuse, Forward, AtServer, TypeOK
<1>7. ASSUME NEW status \in Statuses \cup {NoStatus}, NEW took \in BOOLEAN,
             PostReturns(k, status, took)
      PROVE  TypeOK'
  <2>1. conn[k] \in ConnStates
    BY <1>7 DEF PostReturns, AtServer, TypeOK
  <2>2. [conn[k] EXCEPT !.srv = "counting"] \in ConnStates
    BY <2>1 DEF ConnStates
  <2>3. [conn[k] EXCEPT !.srv = "counting", !.status = status] \in ConnStates
    BY <2>2 DEF ConnStates
  <2>4. conn' = [conn EXCEPT ![k] = [conn[k] EXCEPT !.srv = "counting", !.status = status]]
    BY <1>7, <2>1 DEF PostReturns, TypeOK
  <2>5. conn' \in [Conns -> ConnStates \cup {NoConn}]
    BY <2>3, <2>4 DEF TypeOK
  <2>6. QED
    BY <1>7, <2>5 DEF PostReturns, TypeOK
<1>8. CASE Count(k)
  <2>1. conn' \in [Conns -> ConnStates \cup {NoConn}]
    BY <1>3, <1>8 DEF Count, AtServer, ReplyTo
  <2>2. PICK calls \in SUBSET Conns : /\ edges' = Incremented(calls)
                                      /\ edgesAt' = Noted(Incremented(calls))
    BY <1>8 DEF Count
  <2>3. Incremented(calls) \in Totals
    BY IncrementedGrows
  <2>4. edges' \in Totals /\ edgesAt' \in [0..MaxTime -> Totals]
    BY <2>2, <2>3, NotedType
  <2>5. QED
    BY <1>8, <2>1, <2>4 DEF Count, TypeOK
<1>9. CASE Reply(k)
  <2>1. conn[k] \in ConnStates
    BY <1>9 DEF Reply, AtServer, TypeOK
  <2>2. [conn[k] EXCEPT !.srv = "closed"] \in ConnStates
    BY <2>1 DEF ConnStates
  <2> DEFINE c == [conn[k] EXCEPT !.srv = "closed",
                                  !.cli = IF @ # "waiting" THEN @
                                          ELSE IF conn[k].srv = "ack" THEN "ok" ELSE "err"]
  <2>3. c \in ConnStates
    BY <2>1, <2>2 DEF ConnStates
  <2>4. conn' = [conn EXCEPT ![k] = c]
    BY <1>9 DEF Reply
  <2> HIDE DEF c
  <2>5. QED
    BY <1>9, <2>3, <2>4 DEF Reply, TypeOK
<1>10. QED
  BY <1>1, <1>2, <1>4, <1>5, <1>6, <1>7, <1>8, <1>9 DEF Caller, Handler

\* A step of a flush task keeps TypeOK: what it reports was stamped by the clock.
LEMMA FlusherType ==
  ASSUME TypeOK, StampsPast, NEW s \in Servers, Flusher(s)
  PROVE  TypeOK' /\ StampsPast'
<1>0. flush[s] \in FlushStates /\ clock \in Nat /\ clock <= MaxTime /\ MaxTime \in Nat
  BY BoundsAssumption DEF TypeOK
<1>1. CASE ReadTotals(s)
  <2>1. [pc |-> "read", totals |-> edges, at |-> 0] \in FlushStates
    BY DEF FlushStates, TypeOK
  <2>2. QED
    BY <1>1, <2>1 DEF ReadTotals, TypeOK, StampsPast
<1>2. CASE Stamp(s)
  <2>1. [flush[s] EXCEPT !.pc = "posting"] \in FlushStates
    BY <1>0 DEF FlushStates
  <2>2. [flush[s] EXCEPT !.pc = "posting", !.at = clock] \in FlushStates
    BY <1>0, <2>1 DEF FlushStates
  <2>3. flush' = [flush EXCEPT ![s] = [flush[s] EXCEPT !.pc = "posting", !.at = clock]]
    BY <1>2 DEF Stamp, StampAs, TypeOK
  <2>4. flush'[s].at = clock
    BY <1>0, <2>3 DEF TypeOK, FlushStates
  <2>5. \A r \in Servers : r # s => flush'[r] = flush[r]
    BY <2>3 DEF TypeOK
  <2>6. flush' \in [Servers -> FlushStates]
    BY <2>2, <2>3 DEF TypeOK
  <2>7. QED
    BY <1>0, <1>2, <2>4, <2>5, <2>6 DEF Stamp, StampAs, TypeOK, StampsPast
<1>3. ASSUME NEW status, NEW took, FlushReturns(s, status, took)
      PROVE  TypeOK' /\ StampsPast'
  <2>1. flush[s].pc = "posting" /\ flush[s].at \in 0..MaxTime
    BY <1>0, <1>3 DEF FlushReturns, FlushStands, StampsPast, FlushStates
  <2>2. Report(s) \in [at : 0..MaxTime, totals : Totals]
    BY <2>1, ReportType
  <2>3. FlushAt("idle") \in FlushStates /\ FlushAt("idle").pc = "idle"
    BY FlushAtType
  <2>4. flush' = [flush EXCEPT ![s] = FlushAt("idle")]
    BY <1>3 DEF FlushReturns, NextRound
  <2>5. QED
    BY <1>3, <2>2, <2>3, <2>4 DEF FlushReturns, TypeOK, StampsPast
<1>4. QED
  BY <1>1, <1>2, <1>3 DEF Flusher

\* A process that starts or stops keeps TypeOK.
LEMMA ProcessType ==
  ASSUME TypeOK, StampsPast, NEW s \in Servers, Process(s)
  PROVE  TypeOK' /\ StampsPast'
<1>0. clock \in Nat /\ clock <= MaxTime /\ MaxTime \in Nat
  BY BoundsAssumption DEF TypeOK
<1>1. CASE ListenerStops(s)
  BY <1>1, ResetAllType DEF ListenerStops, Unaccepted, TypeOK, StampsPast
<1>2. CASE Crash(s) \/ Exit(s)
  <2>0. End(s)
    BY <1>2 DEF Crash, Exit
  <2>1. edges' \in Totals /\ edgesAt' \in [0..MaxTime -> Totals]
    <3>1. PICK calls \in SUBSET Standing(s, {"counting"}) :
            edges' = Incremented(calls) /\ edgesAt' = Noted(Incremented(calls))
      BY <2>0 DEF End
    <3>2. calls \subseteq Conns
      BY StandingConns
    <3>3. QED
      BY <3>1, <3>2, IncrementedGrows, NotedType
  <2>2. conn' \in [Conns -> ConnStates \cup {NoConn}]
    BY <2>0, ResetAllType DEF End
  <2>3. flush' \in [Servers -> FlushStates] /\ StampsPast'
    <3>1. flush' = [flush EXCEPT ![s] = FlushAt("stopped")] /\ clock' = clock
      BY <2>0 DEF End
    <3>2. FlushAt("stopped") \in FlushStates /\ FlushAt("stopped").pc = "stopped"
      BY FlushAtType
    <3>3. QED
      BY <3>1, <3>2 DEF TypeOK, StampsPast
  <2>4. samples' \in SUBSET [at : 0..MaxTime, totals : Totals]
    <3>1. flush[s].pc = "posting" => Report(s) \in [at : 0..MaxTime, totals : Totals]
      BY <1>0, ReportType DEF StampsPast, TypeOK, FlushStates
    <3>2. QED
      BY <2>0, <3>1 DEF End, TypeOK
  <2>5. taken' \in SUBSET Conns
    <3>1. Standing(s, {"posting"}) \subseteq Conns
      BY StandingConns
    <3>2. QED
      BY <2>0, <3>1 DEF End, TypeOK
  <2>6. crashes' \in 0..MaxCrashes
    BY <1>2, BoundsAssumption DEF Crash, Exit, TypeOK
  <2>7. up' \in SUBSET Servers /\ listening' \in SUBSET up' /\ clock' \in 0..MaxTime
    BY <2>0 DEF End, TypeOK
  <2>8. QED
    BY <2>1, <2>2, <2>3, <2>4, <2>5, <2>6, <2>7 DEF TypeOK
<1>3. CASE Boot(s)
  <2>1. FlushAt("idle") \in FlushStates /\ FlushAt("idle").pc = "idle"
    BY FlushAtType
  <2>2. Noted(edges) \in [0..MaxTime -> Totals]
    BY NotedType DEF TypeOK
  <2>3. QED
    BY <1>3, <2>1, <2>2 DEF Boot, BootOn, TypeOK, StampsPast
<1>4. QED
  BY <1>1, <1>2, <1>3 DEF Process

\* A call leaves the flush tasks and the clock alone.
LEMMA CallLeaves ==
  ASSUME NEW k \in Conns, Caller(k) \/ Accept(k) \/ Handler(k)
  PROVE  UNCHANGED <<flush, up, listening, clock, crashes, samples>>
BY DEF Caller, GiveUp, Call, Accept, Handler, ReadFails, Refuse, Forward, PostReturns, Count,
       Reply

\* The shape of every variable, for every number of servers and calls.
THEOREM ProxyTyping == Spec => [](TypeOK /\ StampsPast)
<1>1. Init => TypeOK /\ StampsPast
  <2>1. FlushAt("idle") \in FlushStates /\ FlushAt("idle").pc = "idle"
    BY FlushAtType
  <2>2. QED
    BY <2>1, BoundsAssumption DEF Init, TypeOK, StampsPast, None, Totals
<1>2. TypeOK /\ StampsPast /\ [Next]_vars => (TypeOK /\ StampsPast)'
  <2> SUFFICES ASSUME TypeOK, StampsPast, [Next]_vars
               PROVE  TypeOK' /\ StampsPast'
    OBVIOUS
  <2>1. CASE UNCHANGED vars
    BY <2>1 DEF vars, TypeOK, StampsPast
  <2>2. ASSUME NEW k \in Conns, Caller(k) \/ Accept(k) \/ Handler(k)
        PROVE  TypeOK' /\ StampsPast'
    BY <2>2, CallType, CallLeaves DEF StampsPast
  <2>3. ASSUME NEW s \in Servers, Flusher(s) \/ Process(s)
        PROVE  TypeOK' /\ StampsPast'
    BY <2>3, FlusherType, ProcessType
  <2>4. CASE Tick
    BY <2>4, BoundsAssumption DEF Tick, TypeOK, StampsPast, FlushStates
  <2>5. QED
    BY <2>1, <2>2, <2>3, <2>4 DEF Next
<1>3. QED
  BY <1>1, <1>2, PTL DEF Spec

-----------------------------------------------------------------------------
(* What an ack stands for.                                                 *)

\* What a call may claim at each stage: an ack is due only for a success, and
\* a success means that the upstream has stored the body.
CallOk(k) ==
  conn[k] # NoConn =>
    /\ conn[k].srv \in {"counting", "ack"} /\ IsSuccess(conn[k].status) => k \in taken
    /\ conn[k].srv = "ack" => IsSuccess(conn[k].status)
    /\ conn[k].cli = "ok" => k \in taken

\* A step of a call keeps what it may claim.
LEMMA OwnStep ==
  ASSUME TypeOK, NEW k \in Conns, CallOk(k), Caller(k) \/ Accept(k) \/ Handler(k)
  PROVE  CallOk(k)'
<1>0. conn[k] # NoConn => conn[k] \in ConnStates
  BY DEF TypeOK
<1>1. CASE GiveUp(k)
  BY <1>0, <1>1 DEF GiveUp, CallOk, TypeOK, ConnStates
<1>2. ASSUME NEW s, NEW type, Call(k, s, type)
      PROVE  CallOk(k)'
  BY <1>2 DEF Call, CallOk, TypeOK
<1>3. CASE Accept(k) \/ Refuse(k) \/ Forward(k)
  BY <1>0, <1>3 DEF Accept, Refuse, Forward, AtServer, CallOk, TypeOK, ConnStates
<1>4. CASE ReadFails(k)
  BY <1>0, <1>4 DEF ReadFails, AtServer, Reset, CallOk, TypeOK, ConnStates
<1>5. ASSUME NEW status, NEW took, PostReturns(k, status, took)
      PROVE  CallOk(k)'
  <2>1. conn[k] \in ConnStates
    BY <1>0, <1>5 DEF PostReturns, AtServer
  <2>2. conn'[k].srv = "counting" /\ conn'[k].status = status /\ conn'[k].cli = conn[k].cli
    BY <1>5, <2>1 DEF PostReturns, TypeOK, ConnStates
  <2>3. IsSuccess(status) => k \in taken'
    BY <1>5 DEF PostReturns, Answered, Stored, IsSuccess
  <2>4. taken \subseteq taken'
    BY <1>5 DEF PostReturns
  <2>5. QED
    BY <1>5, <2>2, <2>3, <2>4 DEF CallOk, PostReturns, AtServer
<1>6. CASE Count(k)
  <2>1. conn[k] \in ConnStates /\ conn[k] # NoConn /\ conn[k].srv = "counting"
    BY <1>0, <1>6 DEF Count, AtServer
  <2>2. /\ conn'[k].srv = ReplyTo(conn[k])
        /\ conn'[k].status = conn[k].status
        /\ conn'[k].cli = conn[k].cli
    BY <1>6, <2>1 DEF Count, TypeOK, ConnStates
  <2>3. taken' = taken
    BY <1>6 DEF Count
  <2>4. QED
    BY <2>1, <2>2, <2>3 DEF ReplyTo, CallOk
<1>7. CASE Reply(k)
  <2>1. conn[k] \in ConnStates /\ conn[k] # NoConn /\ conn[k].srv \in {"ack", "error"}
    BY <1>0, <1>7 DEF Reply, AtServer
  <2>2. /\ conn'[k].srv = "closed"
        /\ conn'[k].cli = "ok" => conn[k].cli = "ok" \/ conn[k].srv = "ack"
    BY <1>7, <2>1 DEF Reply, TypeOK, ConnStates
  <2>3. taken' = taken
    BY <1>7 DEF Reply
  <2>4. QED
    BY <2>1, <2>2, <2>3 DEF CallOk
<1>8. QED
  BY <1>1, <1>2, <1>3, <1>4, <1>5, <1>6, <1>7 DEF Caller, Handler

\* A step of a call leaves the other calls alone and takes nothing back.
LEMMA OtherCalls ==
  ASSUME TypeOK, NEW k \in Conns, Caller(k) \/ Accept(k) \/ Handler(k),
         NEW j \in Conns, j # k
  PROVE  conn'[j] = conn[j] /\ taken \subseteq taken'
BY DEF Caller, GiveUp, Call, Accept, Handler, ReadFails, Refuse, Forward, PostReturns, Count,
       Reply, TypeOK

\* A process that starts or stops leaves a call as it is or resets it.
LEMMA ProcessCalls ==
  ASSUME TypeOK, NEW s \in Servers, Flusher(s) \/ Process(s), NEW k \in Conns
  PROVE  /\ taken \subseteq taken'
         /\ \/ conn'[k] = conn[k]
            \/ conn[k] \in ConnStates /\ conn'[k] = Reset(conn[k])
<1>1. CASE Flusher(s)
  BY <1>1 DEF Flusher, ReadTotals, Stamp, StampAs, FlushReturns
<1>2. ASSUME NEW stages, conn' = ResetAll(Standing(s, stages))
      PROVE  \/ conn'[k] = conn[k]
             \/ conn[k] \in ConnStates /\ conn'[k] = Reset(conn[k])
  BY <1>2, StandingConns DEF ResetAll
<1>3. CASE ListenerStops(s)
  BY <1>2, <1>3 DEF ListenerStops, Unaccepted
<1>4. CASE Crash(s) \/ Exit(s)
  BY <1>2, <1>4 DEF Crash, Exit, End
<1>5. CASE Boot(s)
  BY <1>5 DEF Boot, BootOn
<1>6. QED
  BY <1>1, <1>3, <1>4, <1>5 DEF Process

\* Every call claims no more than it may, at every moment.
LEMMA Claims == Spec => [](\A k \in Conns : CallOk(k))
<1> DEFINE Inv == \A k \in Conns : CallOk(k)
<1>1. Init => Inv
  BY DEF Init, CallOk
<1>2. TypeOK /\ Inv /\ [Next]_vars => Inv'
  <2> SUFFICES ASSUME TypeOK, Inv, [Next]_vars, NEW k \in Conns
               PROVE  CallOk(k)'
    OBVIOUS
  <2>0. CallOk(k)
    OBVIOUS
  <2>1. CASE UNCHANGED <<conn, taken>>
    BY <2>0, <2>1 DEF CallOk
  <2>2. ASSUME NEW j \in Conns, Caller(j) \/ Accept(j) \/ Handler(j)
        PROVE  CallOk(k)'
    <3>1. CASE j = k
      BY <2>0, <2>2, <3>1, OwnStep
    <3>2. CASE j # k
      BY <2>0, <2>2, <3>2, OtherCalls DEF CallOk
    <3>3. QED
      BY <3>1, <3>2
  <2>3. ASSUME NEW s \in Servers, Flusher(s) \/ Process(s)
        PROVE  CallOk(k)'
    <3>1. /\ taken \subseteq taken'
          /\ \/ conn'[k] = conn[k]
             \/ conn[k] \in ConnStates /\ conn'[k] = Reset(conn[k])
      BY <2>3, ProcessCalls
    <3>2. CASE conn'[k] = conn[k]
      BY <2>0, <3>1, <3>2 DEF CallOk
    <3>3. CASE conn[k] \in ConnStates /\ conn'[k] = Reset(conn[k])
      <4>1. conn[k] # NoConn
        BY <3>3, NoConnAssumption
      <4>2. conn'[k].srv = "closed" /\ (conn'[k].cli = "ok" => conn[k].cli = "ok")
        BY <3>3, ResetType
      <4>3. QED
        BY <2>0, <3>1, <4>1, <4>2 DEF CallOk
    <3>4. QED
      BY <3>1, <3>2, <3>3
  <2>4. CASE Tick
    BY <2>0, <2>4 DEF Tick, CallOk
  <2>5. QED
    BY <2>1, <2>2, <2>3, <2>4 DEF Next, vars
<1>3. QED
  BY <1>1, <1>2, ProxyTyping, PTL DEF Spec

\* AckedIsTaken for every number of servers and calls: no crash, lost answer or
\* caller that gives up makes an ack of a body that is not stored.
THEOREM AcksAreTrue == Spec => []AckedIsTaken
<1>1. (\A k \in Conns : CallOk(k)) => AckedIsTaken
  BY DEF CallOk, AckedIsTaken, Acked
<1>2. QED
  BY <1>1, Claims, PTL

-----------------------------------------------------------------------------
(* What the counters stand for.                                            *)

Ok == "remote_write_ok"

\* The successes that are on their way into the hash.
Uncounted ==
  {k \in Conns : conn[k] # NoConn /\ conn[k].srv = "counting" /\ IsSuccess(conn[k].status)}

\* A body is sent once, so none is stored before the answer to it.
Fresh ==
  \A k \in Conns :
    conn[k] = NoConn \/ conn[k].srv \in {"backlog", "accepted", "posting"} => k \notin taken

\* Every count of a success, and every success not counted yet, has its body.
CountsCovered == edges[Ok] + Cardinality(Uncounted) <= Cardinality(taken)

\* A finite set of calls has a size, and a part of it a smaller one.
LEMMA Sizes ==
  ASSUME NEW S, S \subseteq Conns
  PROVE  /\ IsFiniteSet(S) /\ Cardinality(S) \in Nat
         /\ \A T \in SUBSET S : Cardinality(T) \in Nat /\ Cardinality(T) <= Cardinality(S)
<1>1. IsFiniteSet(S)
  BY ConnsAssumption, FS_Subset
<1>2. \A T \in SUBSET S : IsFiniteSet(T) /\ Cardinality(T) <= Cardinality(S)
  BY <1>1, FS_Subset
<1>3. QED
  BY <1>1, <1>2, FS_CardinalityType

\* Moving calls from the uncounted to the counted keeps the balance.
LEMMA Balance ==
  ASSUME NEW U, U \subseteq Conns, NEW V, NEW A \in SUBSET U, V \subseteq U \ A,
         NEW T, NEW T2, T \subseteq T2, T2 \subseteq Conns,
         NEW n \in Nat, n + Cardinality(U) <= Cardinality(T)
  PROVE  n + Cardinality(A) + Cardinality(V) <= Cardinality(T2)
<1>1. /\ IsFiniteSet(U) /\ Cardinality(U) \in Nat /\ Cardinality(A) \in Nat
      /\ Cardinality(T) \in Nat /\ Cardinality(T2) \in Nat
      /\ Cardinality(T) <= Cardinality(T2)
  BY Sizes
<1>2. Cardinality(U \ A) = Cardinality(U) - Cardinality(A)
  <2>1. U \cap A = A
    OBVIOUS
  <2>2. QED
    BY <1>1, <2>1, FS_Difference
<1>3. Cardinality(V) \in Nat /\ Cardinality(V) <= Cardinality(U \ A)
  <2>1. U \ A \subseteq Conns /\ V \in SUBSET (U \ A)
    OBVIOUS
  <2>2. QED
    BY <2>1, Sizes
<1>4. Cardinality(U \ A) \in Nat
  <2>1. U \ A \subseteq Conns
    OBVIOUS
  <2>2. QED
    BY <2>1, Sizes
<1>5. QED
  BY <1>1, <1>2, <1>3, <1>4

\* The increments of some calls reach the ok field for the successes among them.
LEMMA OkIncremented ==
  ASSUME TypeOK, NEW calls \in SUBSET Conns
  PROVE  Incremented(calls)[Ok] =
           edges[Ok] + Cardinality({k \in calls : IsSuccess(conn[k].status)})
<1>1. {k \in calls : KeyOf(conn[k]) = Ok} = {k \in calls : IsSuccess(conn[k].status)}
  BY DEF KeyOf, Ok
<1>2. Ok \in Keys
  BY DEF Ok, Keys
<1>3. QED
  BY <1>1, <1>2 DEF Incremented

\* A step moves some of the uncounted successes into the hash, or loses them.
Counting ==
  \E A \in SUBSET Uncounted : /\ edges'[Ok] = edges[Ok] + Cardinality(A)
                              /\ Uncounted' \subseteq Uncounted \ A
                              /\ taken \subseteq taken'

\* A step that leaves the hash alone and adds no success.
LEMMA NoCounting ==
  ASSUME TypeOK, edges' = edges, taken \subseteq taken', Uncounted' \subseteq Uncounted
  PROVE  Counting
<1>1. edges[Ok] \in Nat
  BY DEF TypeOK, Totals, Keys, Ok
<1>2. edges'[Ok] = edges[Ok] + Cardinality({})
  BY <1>1, FS_EmptySet
<1>3. QED
  BY <1>2 DEF Counting

\* What the steps of a call do to the counts.
LEMMA CallCounts ==
  ASSUME TypeOK, Fresh, NEW k \in Conns, Caller(k) \/ Accept(k) \/ Handler(k)
  PROVE  /\ Fresh'
         /\ \/ Counting
            \/ /\ edges' = edges /\ k \notin taken /\ taken' = taken \cup {k}
               /\ Uncounted' \subseteq Uncounted \cup {k}
<1>0. /\ \A l \in Conns : l # k => conn'[l] = conn[l]
      /\ conn[k] # NoConn => conn[k] \in ConnStates
  BY OtherCalls DEF TypeOK
<1>1. ASSUME edges' = edges, taken' = taken,
             conn'[k].srv \in {"counting", "ack"} => conn'[k] = NoConn,
             \/ conn[k] = NoConn
             \/ conn[k].srv \in {"backlog", "accepted", "posting"}
             \/ conn'[k] # NoConn /\ conn'[k].srv \in {"error", "closed"}
      PROVE  Fresh' /\ Counting
  <2>1. Uncounted' \subseteq Uncounted
    BY <1>0, <1>1 DEF Uncounted
  <2>2. Fresh'
    BY <1>0, <1>1 DEF Fresh
  <2>3. QED
    BY <1>1, <2>1, <2>2, NoCounting
<1>2. CASE GiveUp(k)
  <2>1. /\ conn'[k] # NoConn => conn[k] # NoConn /\ conn'[k].srv = conn[k].srv
                                /\ conn'[k].status = conn[k].status
        /\ conn[k] # NoConn /\ conn'[k].srv = conn[k].srv /\ conn'[k].status = conn[k].status
    BY <1>0, <1>2 DEF GiveUp, TypeOK, ConnStates
  <2>2. edges' = edges /\ taken' = taken
    BY <1>2 DEF GiveUp
  <2>3. Uncounted' \subseteq Uncounted /\ Fresh'
    <3>1. conn'[k] # NoConn
      BY <1>2, <1>0, NoConnAssumption DEF GiveUp, TypeOK, ConnStates
    <3>2. QED
      BY <1>0, <2>1, <2>2, <3>1 DEF Uncounted, Fresh
  <2>4. QED
    BY <2>2, <2>3, NoCounting
<1>3. ASSUME NEW s \in Servers, NEW type \in Types, Call(k, s, type)
      PROVE  Fresh' /\ Counting
  <2>1. conn'[k].srv \in {"backlog", "closed"} /\ conn[k] = NoConn
    BY <1>3 DEF Call, TypeOK
  <2>2. QED
    BY <1>1, <1>3, <2>1 DEF Call
<1>4. CASE Accept(k) \/ Refuse(k) \/ Forward(k)
  <2>1. /\ conn[k] \in ConnStates /\ conn[k].srv \in {"backlog", "accepted"}
        /\ conn'[k].srv \in {"accepted", "error", "posting"}
    BY <1>0, <1>4 DEF Accept, Refuse, Forward, AtServer, TypeOK, ConnStates
  <2>2. QED
    BY <1>1, <1>4, <2>1 DEF Accept, Refuse, Forward
<1>5. CASE ReadFails(k)
  <2>1. conn[k] \in ConnStates /\ conn[k].srv = "accepted" /\ conn'[k].srv = "closed"
    BY <1>0, <1>5, ResetType DEF ReadFails, AtServer, TypeOK
  <2>2. QED
    BY <1>1, <1>5, <2>1 DEF ReadFails
<1>6. ASSUME NEW status, NEW took, PostReturns(k, status, took)
      PROVE  /\ Fresh'
             /\ \/ Counting
                \/ /\ edges' = edges /\ k \notin taken /\ taken' = taken \cup {k}
                   /\ Uncounted' \subseteq Uncounted \cup {k}
  <2>1. /\ conn[k] \in ConnStates /\ conn[k].srv = "posting"
        /\ conn'[k] \in ConnStates /\ conn'[k].srv = "counting" /\ conn'[k].status = status
    <3>1. conn[k] \in ConnStates /\ conn[k].srv = "posting"
      BY <1>0, <1>6 DEF PostReturns, AtServer
    <3>2. [conn[k] EXCEPT !.srv = "counting"] \in ConnStates
      BY <3>1 DEF ConnStates
    <3>3. [conn[k] EXCEPT !.srv = "counting", !.status = status] \in ConnStates
      BY <1>6, <3>2 DEF ConnStates, PostReturns, Answered
    <3>4. conn'[k] = [conn[k] EXCEPT !.srv = "counting", !.status = status]
      BY <1>6, <3>1 DEF PostReturns, TypeOK
    <3>5. QED
      BY <3>1, <3>3, <3>4 DEF ConnStates
  <2>2. conn[k] # NoConn /\ conn'[k] # NoConn
    BY <2>1, NoConnAssumption
  <2>3. k \notin taken /\ edges' = edges
    BY <1>6, <2>1 DEF Fresh, PostReturns
  <2>4. Fresh'
    BY <1>0, <1>6, <2>1, <2>2 DEF Fresh, PostReturns
  <2>5. CASE took
    BY <1>0, <1>6, <2>3, <2>4, <2>5 DEF PostReturns, Uncounted
  <2>6. CASE ~took
    <3>1. taken' = taken /\ ~IsSuccess(status)
      BY <1>6, <2>6 DEF PostReturns, Answered, Stored, IsSuccess
    <3>2. Uncounted' \subseteq Uncounted
      BY <1>0, <2>1, <3>1 DEF Uncounted
    <3>3. QED
      BY <2>3, <2>4, <3>1, <3>2, NoCounting
  <2>7. QED
    BY <2>5, <2>6
<1>7. CASE Count(k)
  <2>1. /\ conn[k] # NoConn /\ conn[k] \in ConnStates /\ conn[k].srv = "counting"
        /\ taken' = taken
    BY <1>0, <1>7 DEF Count, AtServer
  <2>2. conn'[k].srv \in {"ack", "error"}
    BY <1>7, <2>1 DEF Count, ReplyTo, TypeOK, ConnStates
  <2>3. PICK calls \in SUBSET {k} : edges' = Incremented(calls)
    BY <1>7 DEF Count
  <2> DEFINE A == {l \in calls : IsSuccess(conn[l].status)}
  <2>4. edges'[Ok] = edges[Ok] + Cardinality(A)
    BY <2>3, OkIncremented
  <2>5. A \in SUBSET Uncounted
    BY <2>1, <2>3 DEF Uncounted
  <2>6. Uncounted' \subseteq Uncounted \ A
    BY <1>0, <2>2, <2>3 DEF Uncounted
  <2>7. conn'[k] # NoConn
    <3>1. TypeOK'
      BY CallType
    <3>2. conn' = [conn EXCEPT ![k].srv = ReplyTo(conn[k])]
      BY <1>7 DEF Count
    <3>3. [conn[k] EXCEPT !.srv = ReplyTo(conn[k])] \in ConnStates
      BY <2>1 DEF ConnStates, ReplyTo
    <3>4. conn'[k] \in ConnStates
      BY <3>2, <3>3 DEF TypeOK
    <3>5. QED
      BY <3>4, NoConnAssumption
  <2>8. Fresh'
    BY <1>0, <2>1, <2>2, <2>7 DEF Fresh
  <2>9. QED
    BY <2>1, <2>4, <2>5, <2>6, <2>8 DEF Counting
<1>8. CASE Reply(k)
  <2>1. conn[k] \in ConnStates /\ conn[k] # NoConn
    BY <1>0, <1>8 DEF Reply, AtServer
  <2>2. [conn[k] EXCEPT !.srv = "closed"] \in ConnStates
    BY <2>1 DEF ConnStates
  <2>3. conn'[k].srv = "closed" /\ conn'[k] \in ConnStates
    BY <1>8, <2>1, <2>2 DEF Reply, TypeOK, ConnStates
  <2>4. conn'[k] # NoConn
    BY <2>3, NoConnAssumption
  <2>5. QED
    BY <1>1, <1>8, <2>3, <2>4 DEF Reply
<1>9. QED
  BY <1>2, <1>3, <1>4, <1>5, <1>6, <1>7, <1>8 DEF Caller, Handler

\* What the flush task and the life of a process do to the counts.
LEMMA ProcessCounts ==
  ASSUME TypeOK, Fresh, NEW s \in Servers, Flusher(s) \/ Process(s)
  PROVE  Fresh' /\ Counting
<1>0. \A k \in Conns : \/ conn'[k] = conn[k]
                       \/ conn'[k].srv = "closed" /\ conn'[k] # NoConn
  <2>1. ASSUME NEW k \in Conns, conn[k] \in ConnStates, conn'[k] = Reset(conn[k])
        PROVE  conn'[k].srv = "closed" /\ conn'[k] # NoConn
    BY <2>1, ResetType, NoConnAssumption
  <2>2. QED
    BY <2>1, ProcessCalls
<1>1. Uncounted' \subseteq Uncounted
  BY <1>0 DEF Uncounted
<1>2. CASE Flusher(s) \/ ListenerStops(s) \/ Boot(s)
  <2>1. taken' = taken /\ edges' = edges
    BY <1>2 DEF Flusher, ReadTotals, Stamp, StampAs, FlushReturns, ListenerStops, Boot, BootOn
  <2>2. QED
    BY <1>0, <1>1, <2>1, NoCounting DEF Fresh
<1>3. CASE Crash(s) \/ Exit(s)
  <2>0. End(s)
    BY <1>3 DEF Crash, Exit
  <2>1. PICK calls \in SUBSET Standing(s, {"counting"}) : edges' = Incremented(calls)
    BY <2>0 DEF End
  <2>2. PICK late \in SUBSET Standing(s, {"posting"}) : taken' = taken \cup late
    BY <2>0 DEF End
  <2> DEFINE A == {k \in calls : IsSuccess(conn[k].status)}
  <2>3. calls \in SUBSET Conns
    BY StandingConns
  <2>4. \A k \in Standing(s, {"counting", "posting"}) : conn'[k].srv = "closed" /\ conn'[k] # NoConn
    <3>1. ASSUME NEW k \in Standing(s, {"counting", "posting"})
          PROVE  conn'[k].srv = "closed" /\ conn'[k] # NoConn
      <4>1. k \in Standing(s, {"backlog", "accepted", "posting", "counting", "ack", "error"})
        BY DEF Standing
      <4>2. conn'[k] = Reset(conn[k]) /\ conn[k] \in ConnStates
        BY <2>0, <4>1, StandingConns DEF End, ResetAll
      <4>3. QED
        BY <4>2, ResetType, NoConnAssumption
    <3>2. QED
      BY <3>1
  <2>5. /\ \A k \in calls : k \in Standing(s, {"counting", "posting"})
        /\ \A k \in late : k \in Standing(s, {"counting", "posting"})
    BY DEF Standing
  <2>6. A \in SUBSET Uncounted
    BY <2>3 DEF Standing, Uncounted
  <2>7. Uncounted' \subseteq Uncounted \ A
    BY <1>1, <2>4, <2>5 DEF Uncounted
  <2>8. edges'[Ok] = edges[Ok] + Cardinality(A)
    BY <2>1, <2>3, OkIncremented
  <2>9. Fresh'
    <3>1. ASSUME NEW k \in Conns,
                 conn'[k] = NoConn \/ conn'[k].srv \in {"backlog", "accepted", "posting"}
          PROVE  k \notin taken'
      BY <1>0, <2>2, <2>4, <2>5, <3>1 DEF Fresh
    <3>2. QED
      BY <3>1 DEF Fresh
  <2>10. QED
    BY <2>2, <2>6, <2>7, <2>8, <2>9 DEF Counting
<1>4. QED
  BY <1>2, <1>3 DEF Process

\* The bodies are sent once and the counts covered, at every moment.
LEMMA Covered == Spec => [](Fresh /\ CountsCovered)
<1>1. Init => Fresh /\ CountsCovered
  <2> SUFFICES ASSUME Init PROVE Fresh /\ CountsCovered
    OBVIOUS
  <2>1. Uncounted = {} /\ taken = {} /\ edges[Ok] = 0
    BY DEF Init, Uncounted, None, Ok, Keys
  <2>2. QED
    BY <2>1, FS_EmptySet DEF Fresh, CountsCovered
<1>2. TypeOK /\ TypeOK' /\ Fresh /\ CountsCovered /\ [Next]_vars => Fresh' /\ CountsCovered'
  <2> SUFFICES ASSUME TypeOK, TypeOK', Fresh, CountsCovered, [Next]_vars
               PROVE  Fresh' /\ CountsCovered'
    OBVIOUS
  <2>0. /\ edges[Ok] \in Nat /\ taken \subseteq Conns /\ taken' \subseteq Conns
        /\ Uncounted \subseteq Conns /\ Uncounted' \subseteq Conns
    BY DEF TypeOK, Totals, Ok, Keys, Uncounted
  <2>1. ASSUME Counting PROVE CountsCovered'
    <3>1. PICK A \in SUBSET Uncounted : /\ edges'[Ok] = edges[Ok] + Cardinality(A)
                                        /\ Uncounted' \subseteq Uncounted \ A
                                        /\ taken \subseteq taken'
      BY <2>1 DEF Counting
    <3>2. edges[Ok] + Cardinality(Uncounted) <= Cardinality(taken)
      BY DEF CountsCovered
    <3>3. edges[Ok] + Cardinality(A) + Cardinality(Uncounted') <= Cardinality(taken')
      BY <2>0, <3>1, <3>2, Balance
    <3>4. QED
      BY <3>1, <3>3 DEF CountsCovered
  <2>2. ASSUME NEW k \in Conns, edges' = edges, k \notin taken, taken' = taken \cup {k},
               Uncounted' \subseteq Uncounted \cup {k}
        PROVE  CountsCovered'
    <3>1. Cardinality(taken') = Cardinality(taken) + 1 /\ Cardinality(taken) \in Nat
      BY <2>0, <2>2, Sizes, FS_AddElement
    <3>2. Cardinality(Uncounted') <= Cardinality(Uncounted \cup {k})
          /\ Cardinality(Uncounted') \in Nat
      <4>1. Uncounted \cup {k} \subseteq Conns /\ Uncounted' \in SUBSET (Uncounted \cup {k})
        BY <2>0, <2>2
      <4>2. QED
        BY <4>1, Sizes
    <3>3. Cardinality(Uncounted \cup {k}) <= Cardinality(Uncounted) + 1
          /\ Cardinality(Uncounted \cup {k}) \in Nat /\ Cardinality(Uncounted) \in Nat
      BY <2>0, Sizes, FS_AddElement
    <3>4. QED
      BY <2>0, <2>2, <3>1, <3>2, <3>3 DEF CountsCovered
  <2>3. ASSUME NEW k \in Conns, Caller(k) \/ Accept(k) \/ Handler(k)
        PROVE  Fresh' /\ CountsCovered'
    BY <2>1, <2>2, <2>3, CallCounts
  <2>4. ASSUME NEW s \in Servers, Flusher(s) \/ Process(s)
        PROVE  Fresh' /\ CountsCovered'
    BY <2>1, <2>4, ProcessCounts
  <2>5. CASE UNCHANGED <<conn, edges, taken>>
    <3>1. Uncounted' = Uncounted
      BY <2>5 DEF Uncounted
    <3>2. QED
      BY <2>5, <3>1 DEF Fresh, CountsCovered
  <2>6. QED
    BY <2>3, <2>4, <2>5 DEF Next, Tick, vars
<1>3. QED
  BY <1>1, <1>2, ProxyTyping, PTL DEF Spec

\* CountsAreTaken for every number of servers and calls: increments that are lost
\* or arrive after a crash never make the ok counter claim a body too many.
THEOREM CountsAreTrue == Spec => []CountsAreTaken
<1>1. TypeOK /\ CountsCovered => CountsAreTaken
  <2> SUFFICES ASSUME TypeOK, CountsCovered PROVE CountsAreTaken
    OBVIOUS
  <2>1. edges[Ok] \in Nat /\ taken \subseteq Conns /\ Uncounted \subseteq Conns
    BY DEF TypeOK, Totals, Ok, Keys, Uncounted
  <2>2. Cardinality(Uncounted) \in Nat /\ Cardinality(taken) \in Nat
    BY <2>1, Sizes
  <2>3. QED
    BY <2>1, <2>2 DEF CountsCovered, CountsAreTaken, Ok
<1>2. QED
  BY <1>1, Covered, ProxyTyping, PTL

-----------------------------------------------------------------------------
(* What the samples say.                                                   *)

\* The hash only grows, and so does each entry of its history.
LEMMA EdgesGrow ==
  ASSUME TypeOK, [Next]_vars
  PROVE  /\ AtMost(edges, edges')
         /\ \/ edges' = edges /\ edgesAt' = edgesAt
            \/ edgesAt' = Noted(edges') /\ clock' = clock
<1>0. AtMost(edges, edges)
  BY DEF AtMost, TypeOK, Totals
<1>1. ASSUME NEW k \in Conns, Caller(k) \/ Accept(k) \/ Handler(k), ~Count(k)
      PROVE  UNCHANGED <<edges, edgesAt>>
  BY <1>1 DEF Caller, GiveUp, Call, Accept, Handler, ReadFails, Refuse, Forward, PostReturns,
              Reply
<1>2. ASSUME NEW k \in Conns, Count(k)
      PROVE  /\ AtMost(edges, edges')
             /\ edgesAt' = Noted(edges') /\ clock' = clock
  <2>1. PICK calls \in SUBSET Conns : /\ edges' = Incremented(calls)
                                      /\ edgesAt' = Noted(Incremented(calls))
    BY <1>2 DEF Count
  <2>2. QED
    BY <1>2, <2>1, IncrementedGrows DEF Count
<1>3. ASSUME NEW s \in Servers, Crash(s) \/ Exit(s)
      PROVE  /\ AtMost(edges, edges')
             /\ edgesAt' = Noted(edges') /\ clock' = clock
  <2>1. PICK calls \in SUBSET Standing(s, {"counting"}) :
          edges' = Incremented(calls) /\ edgesAt' = Noted(Incremented(calls))
    BY <1>3 DEF Crash, Exit, End
  <2>2. calls \subseteq Conns
    BY StandingConns
  <2>3. QED
    BY <1>3, <2>1, <2>2, IncrementedGrows DEF Crash, Exit, End
<1>4. ASSUME NEW s \in Servers, Boot(s)
      PROVE  edges' = edges /\ edgesAt' = Noted(edges') /\ clock' = clock
  BY <1>4 DEF Boot, BootOn
<1>5. ASSUME NEW s \in Servers, Flusher(s) \/ ListenerStops(s)
      PROVE  UNCHANGED <<edges, edgesAt>>
  BY <1>5 DEF Flusher, ReadTotals, Stamp, StampAs, FlushReturns, ListenerStops
<1>6. CASE Tick \/ UNCHANGED vars
  BY <1>0, <1>6 DEF Tick, vars
<1>7. QED
  BY <1>0, <1>1, <1>2, <1>3, <1>4, <1>5, <1>6 DEF Next, Process

\* The calls that have their ack or are about to get it.
Due == {k \in Conns : conn[k] # NoConn /\ (conn[k].cli = "ok" \/ conn[k].srv = "ack")}

\* Each of them is in the hash.
DueCounted == Cardinality(Due) <= edges[Ok]

\* A call is due an ack only once its increment is in the hash.
LEMMA CallDue ==
  ASSUME TypeOK, "redis" \notin Faults, NEW k \in Conns, Caller(k) \/ Accept(k) \/ Handler(k)
  PROVE  \/ Due' \subseteq Due
         \/ Due' \subseteq Due \cup {k} /\ edges'[Ok] = edges[Ok] + 1
<1>0. /\ \A l \in Conns : l # k => conn'[l] = conn[l]
      /\ conn[k] # NoConn => conn[k] \in ConnStates
  BY OtherCalls DEF TypeOK
<1>1. ASSUME conn'[k].cli = "ok" \/ conn'[k].srv = "ack" =>
               conn[k] # NoConn /\ (conn[k].cli = "ok" \/ conn[k].srv = "ack")
      PROVE  Due' \subseteq Due
  BY <1>0, <1>1 DEF Due
<1>2. ASSUME NEW s \in Servers, NEW type \in Types, Call(k, s, type)
      PROVE  Due' \subseteq Due
  BY <1>1, <1>2 DEF Call, TypeOK
<1>3. CASE GiveUp(k) \/ Accept(k) \/ Refuse(k) \/ Forward(k)
  BY <1>0, <1>1, <1>3 DEF GiveUp, Accept, Refuse, Forward, AtServer, TypeOK, ConnStates
<1>4. CASE ReadFails(k)
  BY <1>0, <1>1, <1>4, ResetType DEF ReadFails, AtServer, TypeOK
<1>5. ASSUME NEW status, NEW took, PostReturns(k, status, took)
      PROVE  Due' \subseteq Due
  <2>1. conn[k] \in ConnStates
    BY <1>0, <1>5 DEF PostReturns, AtServer
  <2>2. conn'[k].srv = "counting" /\ conn'[k].cli = conn[k].cli
    BY <1>5, <2>1 DEF PostReturns, TypeOK, ConnStates
  <2>3. QED
    BY <1>1, <1>5, <2>2 DEF PostReturns, AtServer
<1>6. CASE Count(k)
  <2>1. conn[k] # NoConn /\ conn[k] \in ConnStates
    BY <1>0, <1>6 DEF Count, AtServer
  <2>2. conn'[k].srv = ReplyTo(conn[k]) /\ conn'[k].cli = conn[k].cli
    BY <1>6, <2>1 DEF Count, TypeOK, ConnStates
  <2>3. CASE IsSuccess(conn[k].status)
    <3>1. edges' = Incremented({k})
      BY <1>6 DEF Count
    <3>2. {l \in {k} : IsSuccess(conn[l].status)} = {k}
      BY <2>3
    <3>3. Cardinality({k}) = 1
      BY FS_Singleton
    <3>4. edges'[Ok] = edges[Ok] + 1
      <4>1. {k} \in SUBSET Conns
        OBVIOUS
      <4>2. Incremented({k})[Ok] =
              edges[Ok] + Cardinality({l \in {k} : IsSuccess(conn[l].status)})
        BY <4>1, OkIncremented
      <4>3. QED
        BY <3>1, <3>2, <3>3, <4>2
    <3>5. Due' \subseteq Due \cup {k}
      BY <1>0 DEF Due
    <3>6. QED
      BY <3>4, <3>5
  <2>4. CASE ~IsSuccess(conn[k].status)
    BY <1>1, <2>1, <2>2, <2>4 DEF ReplyTo
  <2>5. QED
    BY <2>3, <2>4
<1>7. CASE Reply(k)
  <2>1. conn[k] \in ConnStates /\ conn[k] # NoConn
    BY <1>0, <1>7 DEF Reply, AtServer
  <2>2. /\ conn'[k].srv = "closed"
        /\ conn'[k].cli = "ok" => conn[k].cli = "ok" \/ conn[k].srv = "ack"
    BY <1>7, <2>1 DEF Reply, TypeOK, ConnStates
  <2>3. QED
    BY <1>1, <2>1, <2>2
<1>8. QED
  BY <1>2, <1>3, <1>4, <1>5, <1>6, <1>7 DEF Caller, Handler

\* A process that starts or stops makes no ack due.
LEMMA ProcessDue ==
  ASSUME TypeOK, NEW s \in Servers, Flusher(s) \/ Process(s)
  PROVE  Due' \subseteq Due
<1> SUFFICES ASSUME NEW k \in Conns, conn'[k] # NoConn,
                    conn'[k].cli = "ok" \/ conn'[k].srv = "ack"
             PROVE  conn[k] # NoConn /\ (conn[k].cli = "ok" \/ conn[k].srv = "ack")
  BY DEF Due
<1>1. CASE conn'[k] = conn[k]
  BY <1>1
<1>2. CASE conn[k] \in ConnStates /\ conn'[k] = Reset(conn[k])
  <2>1. conn[k] # NoConn
    BY <1>2, NoConnAssumption
  <2>2. conn'[k].srv = "closed" /\ (conn'[k].cli = "ok" => conn[k].cli = "ok")
    BY <1>2, ResetType
  <2>3. QED
    BY <2>1, <2>2
<1>3. QED
  BY <1>1, <1>2, ProcessCalls

\* While Redis works, what is due an ack is counted at every moment.
LEMMA DuesAreCounted ==
  ASSUME "redis" \notin Faults
  PROVE  Spec => []DueCounted
<1>1. Init => DueCounted
  <2> SUFFICES ASSUME Init PROVE DueCounted
    OBVIOUS
  <2>1. Due = {} /\ edges[Ok] = 0
    BY DEF Init, Due, None, Ok, Keys
  <2>2. QED
    BY <2>1, FS_EmptySet DEF DueCounted
<1>2. "redis" \notin Faults /\ TypeOK /\ TypeOK' /\ DueCounted /\ [Next]_vars => DueCounted'
  <2> SUFFICES ASSUME "redis" \notin Faults, TypeOK, TypeOK', DueCounted, [Next]_vars
               PROVE  DueCounted'
    OBVIOUS
  <2>0. /\ edges[Ok] \in Nat /\ edges'[Ok] \in Nat /\ edges[Ok] <= edges'[Ok]
        /\ Due \subseteq Conns /\ Due' \subseteq Conns
    BY EdgesGrow DEF TypeOK, Totals, Ok, Keys, Due, AtMost
  <2>1. /\ IsFiniteSet(Due)
        /\ Cardinality(Due) \in Nat /\ Cardinality(Due') \in Nat
        /\ Cardinality(Due) <= edges[Ok]
    BY <2>0, Sizes DEF DueCounted
  <2>2. ASSUME Due' \subseteq Due PROVE DueCounted'
    <3>1. Cardinality(Due') <= Cardinality(Due)
      BY <2>0, <2>2, Sizes
    <3>2. QED
      BY <2>0, <2>1, <3>1 DEF DueCounted
  <2>3. ASSUME NEW k \in Conns, Due' \subseteq Due \cup {k}, edges'[Ok] = edges[Ok] + 1
        PROVE  DueCounted'
    <3>1. Cardinality(Due') <= Cardinality(Due \cup {k})
      <4>1. Due \cup {k} \subseteq Conns
        BY <2>0
      <4>2. QED
        BY <2>3, <4>1, Sizes
    <3>2. Cardinality(Due \cup {k}) \in Nat /\ Cardinality(Due \cup {k}) <= Cardinality(Due) + 1
      <4>1. Cardinality(Due \cup {k}) =
              IF k \in Due THEN Cardinality(Due) ELSE Cardinality(Due) + 1
        BY <2>1, FS_AddElement
      <4>2. QED
        BY <2>1, <4>1
    <3>3. QED
      BY <2>0, <2>1, <2>3, <3>1, <3>2 DEF DueCounted
  <2>4. ASSUME NEW k \in Conns, Caller(k) \/ Accept(k) \/ Handler(k)
        PROVE  DueCounted'
    BY <2>2, <2>3, <2>4, CallDue
  <2>5. ASSUME NEW s \in Servers, Flusher(s) \/ Process(s)
        PROVE  DueCounted'
    BY <2>2, <2>5, ProcessDue
  <2>6. CASE UNCHANGED conn
    <3>1. Due' = Due
      BY <2>6 DEF Due
    <3>2. QED
      BY <2>2, <3>1
  <2>7. QED
    BY <2>4, <2>5, <2>6 DEF Next, Tick, vars
<1>3. QED
  BY <1>1, <1>2, ProxyTyping, PTL DEF Spec

\* AckedIsCounted for every number of servers and calls: while Redis works, the
\* ok counter has every ack, over crashes and restarts.
THEOREM AcksAreCounted == Spec => []AckedIsCounted
<1>1. TypeOK /\ DueCounted => AckedIsCounted
  <2> SUFFICES ASSUME TypeOK, DueCounted PROVE Cardinality(Acked) <= edges[Ok]
    BY DEF AckedIsCounted, Ok
  <2>1. edges[Ok] \in Nat /\ Due \subseteq Conns /\ Acked \in SUBSET Due
    BY DEF TypeOK, Totals, Ok, Keys, Due, Acked
  <2>2. /\ Cardinality(Due) \in Nat /\ Cardinality(Acked) \in Nat
        /\ Cardinality(Acked) <= Cardinality(Due)
    BY <2>1, Sizes
  <2>3. QED
    BY <2>1, <2>2 DEF DueCounted
<1>2. CASE "redis" \notin Faults
  BY <1>1, <1>2, DuesAreCounted, ProxyTyping, PTL
<1>3. CASE "redis" \in Faults
  <2>1. AckedIsCounted
    BY <1>3 DEF AckedIsCounted
  <2>2. QED
    BY <2>1, PTL
<1>4. QED
  BY <1>2, <1>3

\* At most is transitive on totals.
LEMMA AtMostTrans ==
  ASSUME NEW x \in Totals, NEW y \in Totals, NEW z \in Totals, AtMost(x, y), AtMost(y, z)
  PROVE  AtMost(x, z)
BY DEF AtMost, Totals

\* The history of the hash is that of a growing hash, and it ends with the hash.
HistoryGrows ==
  /\ \A t \in 0..MaxTime : AtMost(edgesAt[t], edges)
  /\ \A t \in 0..MaxTime : t >= clock => edgesAt[t] = edges

\* What a flush task has read was in the hash when it read the clock.
FlushNotAhead ==
  \A s \in Servers :
    /\ flush[s].pc = "read" => AtMost(flush[s].totals, edges)
    /\ flush[s].pc = "posting" => AtMost(flush[s].totals, edgesAt[flush[s].at])

\* The history keeps growing.
LEMMA HistoryStep ==
  ASSUME TypeOK, TypeOK', HistoryGrows, [Next]_vars, clock <= clock'
  PROVE  HistoryGrows' /\ \A t \in 0..MaxTime : AtMost(edgesAt[t], edgesAt'[t])
<1>0. /\ edges \in Totals /\ edges' \in Totals
      /\ clock \in Nat /\ clock' \in Nat
      /\ \A t \in 0..MaxTime : edgesAt[t] \in Totals
      /\ 0..MaxTime \subseteq Nat
      /\ AtMost(edges, edges')
  BY EdgesGrow, BoundsAssumption DEF TypeOK
<1>1. \A x \in Totals : AtMost(x, x)
  BY DEF AtMost, Totals
<1>2. CASE edges' = edges /\ edgesAt' = edgesAt
  BY <1>0, <1>1, <1>2 DEF HistoryGrows
<1>3. CASE edgesAt' = Noted(edges') /\ clock' = clock
  <2>1. \A t \in 0..MaxTime : edgesAt'[t] = IF t >= clock THEN edges' ELSE edgesAt[t]
    BY <1>3 DEF Noted
  <2>2. \A t \in 0..MaxTime : AtMost(edgesAt[t], edges')
    BY <1>0, AtMostTrans DEF HistoryGrows
  <2>3. QED
    BY <1>0, <1>1, <1>3, <2>1, <2>2 DEF HistoryGrows
<1>4. QED
  BY <1>2, <1>3, EdgesGrow

\* Time does not run backwards in the model.
LEMMA ClockStep ==
  ASSUME TypeOK, [Next]_vars
  PROVE  clock <= clock' /\ (clock' # clock => UNCHANGED <<flush, samples, edges, edgesAt>>)
<1>0. clock \in Nat
  BY BoundsAssumption DEF TypeOK
<1>1. ASSUME NEW s \in Servers, Flusher(s) \/ Process(s) PROVE clock' = clock
  BY <1>1 DEF Flusher, ReadTotals, Stamp, StampAs, FlushReturns, Process, ListenerStops, Crash,
              Exit, End, Boot, BootOn
<1>2. QED
  BY <1>0, <1>1, CallLeaves DEF Next, Tick, vars

\* The flush tasks change one at a time, and only there.
FlushStep(s) ==
  \/ flush'[s] = flush[s]
  \/ flush'[s].pc \in {"idle", "stopped"}
  \/ flush'[s].pc = "read" /\ flush'[s].totals = edges /\ edges' = edges
  \/ /\ flush[s].pc = "read" /\ flush'[s].pc = "posting"
     /\ flush'[s].totals = flush[s].totals /\ flush'[s].at = clock
     /\ UNCHANGED <<clock, edges, edgesAt>>

\* What a step may do to a flush task and to the samples.
LEMMA FlushSteps ==
  ASSUME TypeOK, [Next]_vars
  PROVE  /\ \A s \in Servers : FlushStep(s)
         /\ \/ samples' = samples
            \/ \E s \in Servers :
                 /\ flush[s].pc = "posting" /\ samples' = samples \cup {Report(s)}
                 /\ flush'[s].pc \in {"idle", "stopped"}
<1>1. ASSUME NEW r \in Servers, ReadTotals(r) \/ Stamp(r)
      PROVE  (\A s \in Servers : FlushStep(s)) /\ samples' = samples
  <2>1. CASE ReadTotals(r)
    BY <2>1 DEF ReadTotals, FlushStep, TypeOK
  <2>2. CASE Stamp(r)
    <3>1. flush[r].pc = "read" /\ flush[r] \in FlushStates
      BY <2>2 DEF Stamp, StampAs, FlushStands, TypeOK
    <3>2. /\ flush'[r].pc = "posting" /\ flush'[r].at = clock
          /\ flush'[r].totals = flush[r].totals
      BY <2>2, <3>1 DEF Stamp, StampAs, TypeOK, FlushStates
    <3>3. \A s \in Servers : s # r => flush'[s] = flush[s]
      BY <2>2 DEF Stamp, StampAs, TypeOK
    <3>4. UNCHANGED <<clock, edges, edgesAt, samples>>
      BY <2>2 DEF Stamp, StampAs
    <3>5. QED
      BY <3>1, <3>2, <3>3, <3>4 DEF FlushStep
  <2>3. QED
    BY <1>1, <2>1, <2>2
<1>2. ASSUME NEW r \in Servers, NEW pc \in {"idle", "stopped"},
             flush' = [flush EXCEPT ![r] = FlushAt(pc)]
      PROVE  (\A s \in Servers : FlushStep(s)) /\ flush'[r].pc = pc
  BY <1>2, FlushAtType DEF FlushStep, TypeOK
<1>3. ASSUME NEW r \in Servers, NEW status, NEW took, FlushReturns(r, status, took)
      PROVE  /\ \A s \in Servers : FlushStep(s)
             /\ flush[r].pc = "posting" /\ flush'[r].pc = "idle"
             /\ samples' = samples \/ samples' = samples \cup {Report(r)}
  BY <1>2, <1>3 DEF FlushReturns, FlushStands, NextRound
<1>4. ASSUME NEW r \in Servers, Crash(r) \/ Exit(r)
      PROVE  /\ \A s \in Servers : FlushStep(s)
             /\ \/ samples' = samples
                \/ /\ flush[r].pc = "posting" /\ flush'[r].pc = "stopped"
                   /\ samples' = samples \cup {Report(r)}
  BY <1>2, <1>4 DEF Crash, Exit, End
<1>5. ASSUME NEW r \in Servers, ListenerStops(r) \/ Boot(r)
      PROVE  (\A s \in Servers : FlushStep(s)) /\ samples' = samples
  <2>1. CASE ListenerStops(r)
    BY <2>1 DEF ListenerStops, FlushStep
  <2>2. CASE Boot(r)
    BY <1>2, <2>2 DEF Boot, BootOn
  <2>3. QED
    BY <1>5, <2>1, <2>2
<1>6. CASE UNCHANGED <<flush, samples>>
  BY <1>6 DEF FlushStep
<1>7. QED
  BY <1>1, <1>3, <1>4, <1>5, <1>6, CallLeaves DEF Next, Flusher, Process, Tick, vars

\* What is read, stamped and sent was in the hash, at every moment.
LEMMA NothingAhead == Spec => [](HistoryGrows /\ FlushNotAhead /\ SamplesNotAhead)
<1> DEFINE Inv == HistoryGrows /\ FlushNotAhead /\ SamplesNotAhead
<1>1. Init => Inv
  BY BoundsAssumption DEF Init, HistoryGrows, FlushNotAhead, SamplesNotAhead, FlushAt, AtMost,
                          None
<1>2. TypeOK /\ TypeOK' /\ StampsPast /\ Inv /\ [Next]_vars => Inv'
  <2> SUFFICES ASSUME TypeOK, TypeOK', StampsPast, HistoryGrows, FlushNotAhead,
                      SamplesNotAhead, [Next]_vars
               PROVE  Inv'
    OBVIOUS
  <2>1. HistoryGrows' /\ \A t \in 0..MaxTime : AtMost(edgesAt[t], edgesAt'[t])
    BY ClockStep, HistoryStep
  <2>2. /\ edges \in Totals /\ edges' \in Totals
        /\ \A t \in 0..MaxTime : edgesAt[t] \in Totals /\ edgesAt'[t] \in Totals
        /\ \A s \in Servers : flush[s] \in FlushStates /\ flush[s].totals \in Totals
        /\ \A x \in samples : x.at \in 0..MaxTime /\ x.totals \in Totals
        /\ clock \in Nat /\ clock \in 0..MaxTime
        /\ AtMost(edges, edges')
    BY EdgesGrow, BoundsAssumption DEF TypeOK, FlushStates
  <2>3. \A s \in Servers : flush[s].pc = "posting" => flush[s].at \in 0..MaxTime
    BY <2>2, BoundsAssumption DEF StampsPast, FlushStates
  <2>4. ASSUME NEW s \in Servers
        PROVE  /\ flush'[s].pc = "read" => AtMost(flush'[s].totals, edges')
               /\ flush'[s].pc = "posting" => AtMost(flush'[s].totals, edgesAt'[flush'[s].at])
    <3>1. FlushStep(s)
      BY FlushSteps
    <3>2. CASE flush'[s] = flush[s]
      <4>1. flush[s].pc = "read" => AtMost(flush[s].totals, edges')
        BY <2>2, AtMostTrans DEF FlushNotAhead
      <4>2. flush[s].pc = "posting" => AtMost(flush[s].totals, edgesAt'[flush[s].at])
        BY <2>1, <2>2, <2>3, AtMostTrans DEF FlushNotAhead
      <4>3. QED
        BY <3>2, <4>1, <4>2
    <3>3. CASE flush'[s].pc \in {"idle", "stopped"}
      BY <3>3
    <3>4. CASE flush'[s].pc = "read" /\ flush'[s].totals = edges /\ edges' = edges
      BY <2>2, <3>4
    <3>5. CASE /\ flush[s].pc = "read" /\ flush'[s].pc = "posting"
               /\ flush'[s].totals = flush[s].totals /\ flush'[s].at = clock
               /\ UNCHANGED <<clock, edges, edgesAt>>
      <4>1. edgesAt[clock] = edges
        BY <2>2 DEF HistoryGrows
      <4>2. QED
        BY <3>5, <4>1 DEF FlushNotAhead
    <3>6. QED
      BY <3>1, <3>2, <3>3, <3>4, <3>5 DEF FlushStep
  <2>5. FlushNotAhead'
    BY <2>4 DEF FlushNotAhead
  <2>6. \A x \in samples : AtMost(x.totals, edgesAt'[x.at])
    BY <2>1, <2>2, AtMostTrans DEF SamplesNotAhead
  <2>7. \A s \in Servers : flush[s].pc = "posting"
          => AtMost(Report(s).totals, edgesAt'[Report(s).at])
    BY <2>1, <2>2, <2>3, AtMostTrans, ReportType DEF FlushNotAhead
  <2>8. SamplesNotAhead'
    BY <2>6, <2>7, FlushSteps DEF SamplesNotAhead
  <2>9. QED
    BY <2>1, <2>5, <2>8
<1>3. QED
  BY <1>1, <1>2, ProxyTyping, PTL DEF Spec

\* SamplesNotAhead for every number of servers on one hash.
THEOREM SamplesAreHonest == Spec => []SamplesNotAhead
BY NothingAhead, PTL

\* One process on the hash, which is what the prom_proxy binary starts.
OneServer == \A r, s \in Servers : r = s

\* The samples sent so far are of the past.
SamplesPast == \A x \in samples : AtMost(x.totals, edges) /\ x.at <= clock

\* What is about to be sent comes after all that was sent before.
FlushAfter ==
  \A s \in Servers :
    /\ flush[s].pc \in {"read", "posting"} =>
         /\ AtMost(flush[s].totals, edges)
         /\ \A x \in samples : AtMost(x.totals, flush[s].totals)
    /\ flush[s].pc = "posting" => \A x \in samples : x.at <= flush[s].at

\* SamplesMonotone for one server: its rounds do not overlap, and a restart
\* begins with the hash that the last round has read or a later one.
THEOREM CounterNeverStepsBack ==
  ASSUME OneServer
  PROVE  Spec => []SamplesMonotone
<1> DEFINE Inv == SamplesPast /\ FlushAfter /\ SamplesMonotone
<1>1. Init => Inv
  BY DEF Init, SamplesPast, FlushAfter, SamplesMonotone, FlushAt
<1>2. TypeOK /\ TypeOK' /\ StampsPast /\ Inv /\ [Next]_vars => Inv'
  <2> SUFFICES ASSUME TypeOK, TypeOK', StampsPast, SamplesPast, FlushAfter,
                      SamplesMonotone, [Next]_vars
               PROVE  Inv'
    OBVIOUS
  <2>1. /\ edges \in Totals /\ edges' \in Totals
        /\ \A s \in Servers : flush[s].totals \in Totals /\ flush[s].at \in Nat
        /\ \A x \in samples : x.at \in Nat /\ x.totals \in Totals
        /\ clock \in Nat /\ clock' \in Nat /\ clock <= clock'
        /\ AtMost(edges, edges')
    BY EdgesGrow, ClockStep, BoundsAssumption DEF TypeOK, FlushStates
  <2>2. \A x \in samples : AtMost(x.totals, edges') /\ x.at <= clock'
    BY <2>1, AtMostTrans DEF SamplesPast
  <2>3. CASE samples' = samples
    <3>1. ASSUME NEW s \in Servers
          PROVE  /\ flush'[s].pc \in {"read", "posting"} =>
                      /\ AtMost(flush'[s].totals, edges')
                      /\ \A x \in samples : AtMost(x.totals, flush'[s].totals)
                 /\ flush'[s].pc = "posting" => \A x \in samples : x.at <= flush'[s].at
      <4>1. FlushStep(s)
        BY FlushSteps
      <4>2. CASE flush'[s] = flush[s]
        <5>1. flush[s].pc \in {"read", "posting"} => AtMost(flush[s].totals, edges')
          BY <2>1, AtMostTrans DEF FlushAfter
        <5>2. QED
          BY <4>2, <5>1 DEF FlushAfter
      <4>3. CASE flush'[s].pc \in {"idle", "stopped"}
        BY <4>3
      <4>4. CASE flush'[s].pc = "read" /\ flush'[s].totals = edges /\ edges' = edges
        BY <2>1, <2>2, <4>4
      <4>5. CASE /\ flush[s].pc = "read" /\ flush'[s].pc = "posting"
                 /\ flush'[s].totals = flush[s].totals /\ flush'[s].at = clock
                 /\ UNCHANGED <<clock, edges, edgesAt>>
        BY <4>5 DEF FlushAfter, SamplesPast
      <4>6. QED
        BY <4>1, <4>2, <4>3, <4>4, <4>5 DEF FlushStep
    <3>2. FlushAfter'
      BY <2>3, <3>1 DEF FlushAfter
    <3>3. SamplesPast' /\ SamplesMonotone'
      BY <2>2, <2>3 DEF SamplesPast, SamplesMonotone
    <3>4. QED
      BY <3>2, <3>3
  <2>4. ASSUME NEW s \in Servers, flush[s].pc = "posting",
               samples' = samples \cup {Report(s)}, flush'[s].pc \in {"idle", "stopped"}
        PROVE  Inv'
    <3>0. Report(s).at = flush[s].at /\ Report(s).totals = flush[s].totals
      BY DEF Report
    <3>1. FlushAfter'
      BY <2>4, OneServer DEF FlushAfter, OneServer
    <3>2. /\ AtMost(flush[s].totals, edges) /\ flush[s].at <= clock
          /\ \A x \in samples : AtMost(x.totals, flush[s].totals) /\ x.at <= flush[s].at
      BY <2>4 DEF FlushAfter, StampsPast
    <3>3. AtMost(flush[s].totals, edges') /\ flush[s].at <= clock'
      BY <2>1, <3>2, AtMostTrans
    <3>4. SamplesPast'
      BY <2>2, <2>4, <3>0, <3>3 DEF SamplesPast
    <3>5. SamplesMonotone'
      BY <2>1, <2>4, <3>0, <3>2 DEF SamplesMonotone
    <3>6. QED
      BY <3>1, <3>4, <3>5
  <2>5. QED
    BY <2>3, <2>4, FlushSteps
<1>3. QED
  BY <1>1, <1>2, ProxyTyping, PTL DEF Spec

=============================================================================
