------------------------- MODULE PromForwarderProofs -------------------------
(***************************************************************************)
(* The proxy implements the forwarder: every step of PromProxy is a step   *)
(* of PromForwarder, or leaves what callers and upstream see alone.        *)
(***************************************************************************)
EXTENDS PromProxyProofs

\* The calls as the forwarder sees them.
AbsOutcome == [k \in Conns |-> IF k \in Made THEN conn[k].cli ELSE "unmade"]
AbsWrites == {k \in Made : conn[k].type = MessageType}

\* The forwarder counts as the proxy does.
LEMMA SameCardinality == ASSUME NEW S PROVE Forwarder!Cardinality(S) = Cardinality(S)
BY DEF Forwarder!Cardinality, Cardinality

\* A body is under way only if its type is right.
PostsWrites == \A k \in Made : conn[k].srv = "posting" => conn[k].type = MessageType

\* A call goes on: it keeps its type, and stays as it was for its caller or fails.
GoesOn(k) ==
  \/ conn'[k] = conn[k]
  \/ /\ conn[k] # NoConn /\ conn'[k] # NoConn
     /\ conn'[k].type = conn[k].type
     /\ \/ conn'[k].cli = conn[k].cli
        \/ conn[k].cli = "waiting" /\ conn'[k].cli = "err"

\* Where calls go on, the forwarder proceeds.
LEMMA ProceedStep ==
  ASSUME TypeOK, TypeOK', CountsAreTaken', AtMost(edges, edges'),
         \A k \in Conns : GoesOn(k),
         taken \subseteq taken', taken' \ taken \subseteq AbsWrites,
         samples \subseteq samples',
         \A x \in samples' \ samples : AtMost(x.totals, edges')
  PROVE  Forwarder!Proceed
<1>1. AbsWrites' = AbsWrites
  BY DEF GoesOn, AbsWrites, Made
<1>2. /\ AbsOutcome' = [k \in Conns |-> IF k \in Made' THEN conn'[k].cli ELSE "unmade"]
      /\ \A k \in Conns : k \in Made' <=> k \in Made
  BY DEF GoesOn, AbsOutcome, Made
<1>3. \E failed \in SUBSET {k \in Conns : AbsOutcome[k] = "waiting"} :
        AbsOutcome' = [k \in Conns |-> IF k \in failed THEN "err" ELSE AbsOutcome[k]]
  <2> DEFINE failed == {k \in Conns : AbsOutcome[k] = "waiting" /\ AbsOutcome'[k] = "err"}
  <2>1. \A k \in Conns : AbsOutcome'[k] = IF k \in failed THEN "err" ELSE AbsOutcome[k]
    BY <1>2 DEF GoesOn, AbsOutcome, Made
  <2>2. AbsOutcome' = [k \in Conns |-> IF k \in failed THEN "err" ELSE AbsOutcome[k]]
    BY <1>2, <2>1
  <2>3. failed \in SUBSET {k \in Conns : AbsOutcome[k] = "waiting"}
    OBVIOUS
  <2>4. QED
    BY <2>2, <2>3
<1>4. taken' = taken \cup (taken' \ taken) /\ taken' \ taken \in SUBSET (AbsWrites \ taken)
  OBVIOUS
<1>5. /\ edges[Ok] \in Nat /\ edges'[Ok] \in Nat
      /\ edges[Ok] <= edges'[Ok] /\ edges'[Ok] <= Cardinality(taken')
      /\ Cardinality(taken') \in Nat
  <2>1. taken' \subseteq Conns
    BY DEF TypeOK
  <2>2. Cardinality(taken') \in Nat
    BY <2>1, Sizes
  <2>3. QED
    BY <2>2 DEF TypeOK, Totals, Keys, Ok, AtMost, CountsAreTaken
<1>6. edges'[Ok] \in edges[Ok] .. Forwarder!Cardinality(taken')
  BY <1>5, SameCardinality
<1>7. \E totals \in SUBSET (0 .. edges'[Ok]) :
        {x.totals[Ok] : x \in samples'} = {x.totals[Ok] : x \in samples} \cup totals
  <2> DEFINE totals == {x.totals[Ok] : x \in samples' \ samples}
  <2>1. \A x \in samples' \ samples : x.totals[Ok] \in Nat /\ x.totals[Ok] <= edges'[Ok]
    BY DEF TypeOK, Totals, Keys, Ok, AtMost
  <2>2. totals \in SUBSET (0 .. edges'[Ok])
    BY <1>5, <2>1
  <2>3. {x.totals[Ok] : x \in samples'} = {x.totals[Ok] : x \in samples} \cup totals
    OBVIOUS
  <2>4. QED
    BY <2>2, <2>3
<1>8. \E failed \in SUBSET Forwarder!In("waiting") :
        AbsOutcome' = [k \in Conns |-> IF k \in failed THEN "err" ELSE AbsOutcome[k]]
  <2>1. Forwarder!In("waiting") = {k \in Conns : AbsOutcome[k] = "waiting"}
    BY DEF Forwarder!In, AbsOutcome
  <2>2. QED
    BY <1>3, <2>1
<1>9. \E late \in SUBSET (AbsWrites \ taken) : taken' = taken \cup late
  BY <1>4
<1>10. \E totals \in SUBSET (0 .. edges'[Ok]) :
         {x.totals[Ok] : x \in samples'} = {x.totals[Ok] : x \in samples} \cup totals
  BY <1>7
<1>11. QED
  BY <1>1, <1>6, <1>8, <1>9, <1>10 DEF Forwarder!Proceed, AbsOutcome, AbsWrites, Ok

\* What the steps of a call do to it, other than making it and returning it.
LEMMA CallGoesOn ==
  ASSUME TypeOK, PostsWrites, NEW k \in Conns,
         GiveUp(k) \/ Accept(k) \/ Handler(k),
         ~(Reply(k) /\ conn[k].srv = "ack" /\ conn[k].cli = "waiting")
  PROVE  /\ PostsWrites'
         /\ \A j \in Conns : GoesOn(j)
         /\ taken \subseteq taken' /\ taken' \ taken \subseteq AbsWrites
         /\ samples' = samples
<1>0. (\A j \in Conns : j # k => conn'[j] = conn[j]) /\ samples' = samples
  BY OtherCalls, CallLeaves DEF Caller
<1>1. conn[k] # NoConn /\ conn[k] \in ConnStates
  BY DEF GiveUp, Accept, Handler, ReadFails, Refuse, Forward, PostReturns, Count, Reply,
         AtServer, TypeOK
<1>2. conn' \in [Conns -> ConnStates \cup {NoConn}]
  BY CallType DEF TypeOK, Caller
<1>3. /\ conn'[k] # NoConn /\ conn'[k].type = conn[k].type
      /\ conn'[k].cli = conn[k].cli \/ (conn[k].cli = "waiting" /\ conn'[k].cli = "err")
      /\ conn'[k].srv = "posting" => conn[k].srv = "posting" \/ conn[k].type = MessageType
  <2>1. CASE GiveUp(k)
    <3>1. [conn[k] EXCEPT !.cli = "err"] \in ConnStates
      BY <1>1 DEF ConnStates
    <3>2. QED
      BY <1>1, <2>1, <3>1, NoConnAssumption DEF GiveUp, TypeOK, ConnStates
  <2>2. CASE Accept(k) \/ Refuse(k) \/ Forward(k) \/ Count(k)
    <3>1. ASSUME NEW stage, conn' = [conn EXCEPT ![k].srv = stage],
                 stage \in {"accepted", "error", "ack"}
                   \/ (stage = "posting" /\ conn[k].type = MessageType)
          PROVE  /\ conn'[k] # NoConn /\ conn'[k].type = conn[k].type
                 /\ conn'[k].cli = conn[k].cli
                 /\ conn'[k].srv = "posting" => conn[k].type = MessageType
      <4>1. [conn[k] EXCEPT !.srv = stage] \in ConnStates
        BY <1>1, <3>1 DEF ConnStates
      <4>2. conn'[k] = [conn[k] EXCEPT !.srv = stage]
        BY <3>1 DEF TypeOK
      <4>3. QED
        BY <1>1, <3>1, <4>1, <4>2, NoConnAssumption DEF ConnStates
    <3>2. QED
      BY <2>2, <3>1 DEF Accept, Refuse, Forward, Count, ReplyTo
  <2>3. CASE ReadFails(k)
    <3>1. conn'[k] = Reset(conn[k])
      BY <2>3 DEF ReadFails, TypeOK
    <3>2. conn'[k] \in ConnStates /\ conn'[k].srv = "closed"
      BY <1>1, <3>1, ResetType
    <3>3. /\ conn'[k].type = conn[k].type
          /\ conn'[k].cli = IF conn[k].cli = "waiting" THEN "err" ELSE conn[k].cli
      BY <1>1, <3>1 DEF Reset, ConnStates
    <3>4. QED
      BY <3>2, <3>3, NoConnAssumption
  <2>4. ASSUME NEW status \in Statuses \cup {NoStatus}, NEW took \in BOOLEAN,
               PostReturns(k, status, took)
        PROVE  /\ conn'[k] # NoConn /\ conn'[k].type = conn[k].type
               /\ conn'[k].cli = conn[k].cli /\ conn'[k].srv = "counting"
    <3>1. /\ conn'[k].srv = "counting" /\ conn'[k].cli = conn[k].cli
          /\ conn'[k].type = conn[k].type
          /\ conn'[k] = [conn[k] EXCEPT !.srv = "counting", !.status = status]
      BY <1>1, <2>4 DEF PostReturns, TypeOK, ConnStates
    <3>2. [conn[k] EXCEPT !.srv = "counting", !.status = status] \in ConnStates
      BY <1>1 DEF ConnStates
    <3>3. QED
      BY <3>1, <3>2, NoConnAssumption
  <2>5. CASE Reply(k)
    <3>1. conn[k].srv # "ack" \/ conn[k].cli # "waiting"
      BY <2>5
    <3>2. /\ conn'[k].srv = "closed" /\ conn'[k].type = conn[k].type
          /\ conn'[k].cli = IF conn[k].cli # "waiting" THEN conn[k].cli ELSE "err"
          /\ conn'[k] \in ConnStates
      BY <1>1, <2>5, <3>1 DEF Reply, TypeOK, ConnStates
    <3>3. QED
      BY <3>2, NoConnAssumption
  <2>6. QED
    BY <2>1, <2>2, <2>3, <2>4, <2>5 DEF Handler
<1>4. taken \subseteq taken' /\ taken' \ taken \subseteq AbsWrites
  <2>1. ASSUME NEW status, NEW took, PostReturns(k, status, took)
        PROVE  taken \subseteq taken' /\ taken' \ taken \subseteq AbsWrites
    <3>1. k \in AbsWrites
      BY <2>1 DEF PostReturns, AtServer, PostsWrites, AbsWrites, Made
    <3>2. QED
      BY <2>1, <3>1 DEF PostReturns
  <2>2. GiveUp(k) \/ Accept(k) \/ ReadFails(k) \/ Refuse(k) \/ Forward(k) \/ Count(k) \/ Reply(k)
          => taken' = taken
    BY DEF GiveUp, Accept, ReadFails, Refuse, Forward, Count, Reply
  <2>3. QED
    BY <2>1, <2>2 DEF Handler
<1>5. \A j \in Conns : GoesOn(j)
  BY <1>0, <1>1, <1>3 DEF GoesOn
<1>6. PostsWrites'
  BY <1>0, <1>1, <1>3 DEF PostsWrites, Made
<1>7. QED
  BY <1>0, <1>4, <1>5, <1>6

\* What the flush task and the life of a process do to the calls.
LEMMA ProcessGoesOn ==
  ASSUME TypeOK, PostsWrites, NEW s \in Servers, Flusher(s) \/ Process(s)
  PROVE  /\ PostsWrites'
         /\ \A j \in Conns : GoesOn(j)
         /\ taken \subseteq taken' /\ taken' \ taken \subseteq AbsWrites
<1>1. ASSUME NEW k \in Conns
      PROVE  /\ GoesOn(k) /\ taken \subseteq taken'
             /\ conn'[k] = conn[k] \/ conn'[k].srv = "closed"
  <2>1. CASE conn'[k] = conn[k]
    BY <2>1, ProcessCalls DEF GoesOn
  <2>2. CASE conn[k] \in ConnStates /\ conn'[k] = Reset(conn[k])
    <3>1. conn'[k] \in ConnStates /\ conn'[k].srv = "closed"
      BY <2>2, ResetType
    <3>2. /\ conn'[k].type = conn[k].type
          /\ conn'[k].cli = IF conn[k].cli = "waiting" THEN "err" ELSE conn[k].cli
      BY <2>2 DEF Reset, ConnStates
    <3>3. conn[k] # NoConn /\ conn'[k] # NoConn
      BY <2>2, <3>1, NoConnAssumption
    <3>4. QED
      BY <3>1, <3>2, <3>3, ProcessCalls DEF GoesOn
  <2>3. QED
    BY <2>1, <2>2, ProcessCalls
<1>2. PostsWrites'
  BY <1>1 DEF PostsWrites, Made
<1>3. taken \subseteq taken' /\ taken' \ taken \subseteq AbsWrites
  <2>1. CASE Flusher(s) \/ ListenerStops(s) \/ Boot(s)
    BY <2>1 DEF Flusher, ReadTotals, Stamp, StampAs, FlushReturns, ListenerStops, Boot, BootOn
  <2>2. CASE Crash(s) \/ Exit(s)
    <3>1. PICK late \in SUBSET Standing(s, {"posting"}) : taken' = taken \cup late
      BY <2>2 DEF Crash, Exit, End
    <3>2. late \subseteq AbsWrites
      BY DEF Standing, PostsWrites, AbsWrites, Made
    <3>3. QED
      BY <3>1, <3>2
  <2>3. QED
    BY <2>1, <2>2 DEF Process
<1>4. QED
  BY <1>1, <1>2, <1>3

\* A new sample says no more than has been counted.
LEMMA NewSamples ==
  ASSUME TypeOK, TypeOK', StampsPast, HistoryGrows, FlushNotAhead, [Next]_vars
  PROVE  samples \subseteq samples' /\ \A x \in samples' \ samples : AtMost(x.totals, edges')
<1>1. ASSUME NEW s \in Servers, flush[s].pc = "posting"
      PROVE  AtMost(Report(s).totals, edges')
  <2>1. /\ flush[s] \in FlushStates /\ flush[s].at \in 0..MaxTime
        /\ edges \in Totals /\ edges' \in Totals /\ flush[s].totals \in Totals
        /\ edgesAt[flush[s].at] \in Totals
    <3>1. flush[s] \in FlushStates /\ flush[s].at \in Nat /\ flush[s].at <= clock
      BY <1>1 DEF TypeOK, StampsPast, FlushStates
    <3>2. flush[s].at \in 0..MaxTime
      BY <3>1, BoundsAssumption DEF TypeOK
    <3>3. QED
      BY <3>1, <3>2 DEF TypeOK, FlushStates
  <2>2. /\ AtMost(flush[s].totals, edgesAt[flush[s].at])
        /\ AtMost(edgesAt[flush[s].at], edges)
    BY <1>1, <2>1 DEF FlushNotAhead, HistoryGrows
  <2>3. AtMost(flush[s].totals, edges)
    BY <2>1, <2>2, AtMostTrans
  <2>4. AtMost(flush[s].totals, edges')
    BY <2>1, <2>3, EdgesGrow, AtMostTrans
  <2>5. QED
    BY <2>4 DEF Report
<1>2. QED
  BY <1>1, FlushSteps

\* A call is made: the forwarder sees it for the first time.
LEMMA MakeStep ==
  ASSUME TypeOK, PostsWrites, NEW k \in Conns, NEW s \in Servers, NEW type \in Types,
         Call(k, s, type)
  PROVE  PostsWrites' /\ Forwarder!Next
<1> DEFINE result == IF s \in listening THEN "waiting" ELSE "err"
<1>1. /\ conn[k] = NoConn
      /\ conn'[k].type = type /\ conn'[k].cli = result /\ conn'[k].srv # "posting"
      /\ conn'[k] \in ConnStates
      /\ \A j \in Conns : j # k => conn'[j] = conn[j]
      /\ UNCHANGED <<taken, edges, samples>>
  BY DEF Call, TypeOK, ConnStates
<1>2. conn'[k] # NoConn
  BY <1>1, NoConnAssumption
<1>3. k \notin Made /\ Made' = Made \cup {k}
  BY <1>1, <1>2 DEF Made
<1>4. AbsOutcome[k] = "unmade" /\ AbsOutcome' = [AbsOutcome EXCEPT ![k] = result]
  BY <1>1, <1>3 DEF AbsOutcome
<1>5. AbsWrites' = IF type = MessageType THEN AbsWrites \cup {k} ELSE AbsWrites
  <2>1. \A j \in Made : conn'[j].type = conn[j].type
    BY <1>1, <1>3 DEF Made
  <2>2. AbsWrites' = {j \in Made \cup {k} : conn'[j].type = MessageType}
    BY <1>3 DEF AbsWrites
  <2>3. QED
    BY <1>1, <2>1, <2>2 DEF AbsWrites
<1>6. PostsWrites'
  BY <1>1, <1>2 DEF PostsWrites, Made
<1>7. Forwarder!Make(k, result, type = MessageType)
  BY <1>1, <1>4, <1>5 DEF Forwarder!Make, AbsOutcome, AbsWrites
<1>8. result \in {"waiting", "err"} /\ (type = MessageType) \in BOOLEAN
  OBVIOUS
<1>9. QED
  BY <1>6, <1>7, <1>8 DEF Forwarder!Next

\* A caller reads its ack: the body is stored and, while Redis works, counted.
LEMMA ReturnStep ==
  ASSUME TypeOK, PostsWrites, \A k \in Conns : CallOk(k), "redis" \notin Faults => DueCounted,
         NEW k \in Conns, Reply(k), conn[k].srv = "ack", conn[k].cli = "waiting"
  PROVE  PostsWrites' /\ Forwarder!Next
<1>1. /\ conn[k] # NoConn /\ conn[k] \in ConnStates
      /\ \A j \in Conns : j # k => conn'[j] = conn[j]
      /\ conn'[k].srv = "closed" /\ conn'[k].cli = "ok" /\ conn'[k].type = conn[k].type
      /\ conn'[k] \in ConnStates
      /\ UNCHANGED <<taken, edges, samples>>
  BY DEF Reply, AtServer, TypeOK, ConnStates
<1>2. Made' = Made /\ k \in Made
  BY <1>1, NoConnAssumption DEF Made
<1>3. AbsOutcome[k] = "waiting" /\ AbsOutcome' = [AbsOutcome EXCEPT ![k] = "ok"]
  BY <1>1, <1>2 DEF AbsOutcome
<1>4. AbsWrites' = AbsWrites
  <2>1. \A j \in Made : conn'[j].type = conn[j].type
    BY <1>1 DEF Made
  <2>2. QED
    BY <1>2, <2>1 DEF AbsWrites
<1>5. k \in taken
  BY <1>1 DEF CallOk
<1>6. "redis" \notin Faults => Forwarder!Cardinality(Forwarder!In("ok") \cup {k}) <= edges[Ok]
  <2> SUFFICES ASSUME "redis" \notin Faults
               PROVE  Cardinality(Forwarder!In("ok") \cup {k}) <= edges[Ok]
    BY SameCardinality
  <2>1. Forwarder!In("ok") \cup {k} \in SUBSET Due
    BY <1>1 DEF Forwarder!In, Made, Due
  <2>2. Due \subseteq Conns
    BY DEF Due
  <2>3. /\ Cardinality(Forwarder!In("ok") \cup {k}) <= Cardinality(Due)
        /\ Cardinality(Forwarder!In("ok") \cup {k}) \in Nat /\ Cardinality(Due) \in Nat
    BY <2>1, <2>2, Sizes
  <2>4. Cardinality(Due) <= edges[Ok] /\ edges[Ok] \in Nat
    BY DEF DueCounted, TypeOK, Totals, Keys, Ok
  <2>5. QED
    BY <2>3, <2>4
<1>7. PostsWrites'
  BY <1>1 DEF PostsWrites, Made
<1>8. Forwarder!Return(k)
  BY <1>1, <1>3, <1>4, <1>5, <1>6 DEF Forwarder!Return, AbsOutcome, AbsWrites, Ok
<1>9. QED
  BY <1>7, <1>8 DEF Forwarder!Next

\* ImplementsForwarder for every number of servers, calls and crashes: whatever is
\* lost, late or cut short, callers, upstream and counter agree as promised.
THEOREM ProxyIsForwarder == Spec => ImplementsForwarder
<1> DEFINE Facts == /\ TypeOK /\ StampsPast /\ CountsAreTaken
                    /\ \A k \in Conns : CallOk(k)
                    /\ HistoryGrows /\ FlushNotAhead
                    /\ "redis" \notin Faults => DueCounted
<1>1. Init => PostsWrites /\ Forwarder!Init
  <2> SUFFICES ASSUME Init PROVE PostsWrites /\ Forwarder!Init
    OBVIOUS
  <2>1. Made = {} /\ taken = {} /\ samples = {} /\ edges["remote_write_ok"] = 0
    BY DEF Init, Made, None, Keys
  <2>2. QED
    BY <2>1 DEF PostsWrites, Forwarder!Init
<1>2. Facts /\ Facts' /\ PostsWrites /\ [Next]_vars
        => PostsWrites' /\ [Forwarder!Next]_(Forwarder!vars)
  <2> SUFFICES ASSUME Facts, Facts', PostsWrites, [Next]_vars
               PROVE  PostsWrites' /\ (Forwarder!Next \/ UNCHANGED Forwarder!vars)
    OBVIOUS
  <2>0. /\ AtMost(edges, edges')
        /\ samples \subseteq samples' /\ \A x \in samples' \ samples : AtMost(x.totals, edges')
    BY EdgesGrow, NewSamples
  <2>1. ASSUME \A k \in Conns : GoesOn(k),
               taken \subseteq taken', taken' \ taken \subseteq AbsWrites
        PROVE  Forwarder!Next
    BY <2>0, <2>1, ProceedStep DEF Forwarder!Next
  <2>2. CASE UNCHANGED <<conn, taken, edges, samples>>
    BY <2>2 DEF PostsWrites, Made, Forwarder!vars
  <2>3. ASSUME NEW k \in Conns, Caller(k) \/ Accept(k) \/ Handler(k)
        PROVE  PostsWrites' /\ Forwarder!Next
    <3>1. ASSUME NEW s \in Servers, NEW type \in Types, Call(k, s, type)
          PROVE  PostsWrites' /\ Forwarder!Next
      BY <3>1, MakeStep
    <3>2. CASE Reply(k) /\ conn[k].srv = "ack" /\ conn[k].cli = "waiting"
      BY <3>2, ReturnStep
    <3>3. CASE /\ GiveUp(k) \/ Accept(k) \/ Handler(k)
               /\ ~(Reply(k) /\ conn[k].srv = "ack" /\ conn[k].cli = "waiting")
      BY <2>1, <3>3, CallGoesOn
    <3>4. QED
      BY <2>3, <3>1, <3>2, <3>3 DEF Caller
  <2>4. ASSUME NEW s \in Servers, Flusher(s) \/ Process(s)
        PROVE  PostsWrites' /\ Forwarder!Next
    BY <2>1, <2>4, ProcessGoesOn
  <2>5. QED
    BY <2>2, <2>3, <2>4 DEF Next, Tick, vars
<1>3. Spec => []Facts
  <2>1. Spec => []("redis" \notin Faults => DueCounted)
    <3>1. CASE "redis" \notin Faults
      BY <3>1, DuesAreCounted, PTL
    <3>2. CASE "redis" \in Faults
      <4>1. "redis" \notin Faults => DueCounted
        BY <3>2
      <4>2. QED
        BY <4>1, PTL
    <3>3. QED
      BY <3>1, <3>2
  <2>2. QED
    BY <2>1, ProxyTyping, CountsAreTrue, Claims, NothingAhead, PTL
<1>4. QED
  BY <1>1, <1>2, <1>3, PTL DEF Spec, ImplementsForwarder, Forwarder!Spec

=============================================================================
