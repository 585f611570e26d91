----------------------- MODULE DfinderDirectoryProofs -----------------------
(***************************************************************************)
(* The registry implements the directory: every step of DfinderRegistry is *)
(* a step of DfinderDirectory, or leaves the rows and the calls alone.     *)
(***************************************************************************)
EXTENDS DfinderRegistryProofs

\* Where the server stands with a request, and what has become of it.
StageOK(c) == /\ c.cli = "ok" => c.srv = "closed"
              /\ c.srv = "closed" => c.cli # "waiting"
              /\ c.srv \in {"backlog", "accepted"} => ~c.took
              /\ c.srv \in {"ack", "result"} => c.took

ConnInv == \A k \in Conns : conn[k] # NoConn => StageOK(conn[k])

\* The calls as the directory sees them.
AbsCall == [k \in Conns |-> CallOf(conn[k])]
AbsTook == {k \in Conns : conn[k] # NoConn /\ conn[k].took}

\* A step that changes one connection.
LEMMA OneConnection ==
  ASSUME TypeOK, ConnInv, NEW k \in Conns, NEW c \in ConnStates,
         conn' = [conn EXCEPT ![k] = c],
         StageOK(c)
  PROVE  /\ ConnInv'
         /\ AbsCall' = [AbsCall EXCEPT ![k] = CallOf(c)]
         /\ AbsTook' = IF c.took THEN AbsTook \cup {k} ELSE AbsTook \ {k}
<1>1. conn'[k] = c /\ \A j \in Conns : j # k => conn'[j] = conn[j]
  BY DEF TypeOK
<1>2. ConnInv'
  BY <1>1 DEF ConnInv
<1>3. AbsCall' = [AbsCall EXCEPT ![k] = CallOf(c)]
  BY <1>1 DEF AbsCall, CallOf
<1>4. AbsTook' = IF c.took THEN AbsTook \cup {k} ELSE AbsTook \ {k}
  BY <1>1, NoValuesAssumption DEF AbsTook
<1>5. QED
  BY <1>2, <1>3, <1>4

\* The directory sees a call where there is a connection.
LEMMA CallIsMade ==
  ASSUME NEW c \in ConnStates
  PROVE  /\ CallOf(c) # NoConn
         /\ CallOf(c) = [ip |-> c.ip, req |-> c.req, outcome |-> c.cli,
                         answer |-> IF c.cli = "err" THEN {} ELSE c.answer]
<1>1. c # NoConn
  BY NoValuesAssumption
<1>2. CallOf(c) \in CallStates
  BY <1>1 DEF CallOf, CallStates, ConnStates
<1>3. QED
  BY <1>1, <1>2, NoValuesAssumption DEF CallOf

\* A connection whose caller stops waiting is a call that fails.
LEMMA FailedCall ==
  ASSUME NEW old \in ConnStates, NEW c \in ConnStates,
         old.cli = "waiting", c.cli = "err",
         c.ip = old.ip, c.req = old.req
  PROVE  CallOf(c) = [CallOf(old) EXCEPT !.outcome = "err", !.answer = {}]
<1>1. CallOf(old) = [ip |-> old.ip, req |-> old.req, outcome |-> "waiting", answer |-> old.answer]
  BY CallIsMade
<1>2. CallOf(c) = [ip |-> old.ip, req |-> old.req, outcome |-> "err", answer |-> {}]
  BY CallIsMade
<1>3. [CallOf(old) EXCEPT !.outcome = "err"]
        = [ip |-> old.ip, req |-> old.req, outcome |-> "err", answer |-> old.answer]
  BY <1>1
<1>4. [[ip |-> old.ip, req |-> old.req, outcome |-> "err", answer |-> old.answer] EXCEPT !.answer = {}]
        = [ip |-> old.ip, req |-> old.req, outcome |-> "err", answer |-> {}]
  OBVIOUS
<1>5. QED
  BY <1>2, <1>3, <1>4

\* A call that fails, seen from the directory.
LEMMA ResetCall ==
  ASSUME NEW c \in ConnStates, StageOK(c), c.srv # "closed"
  PROVE  /\ StageOK(Reset(c))
         /\ Reset(c) # NoConn /\ Reset(c).took = c.took
         /\ CallOf(Reset(c)) = IF c.cli = "waiting"
                                 THEN [CallOf(c) EXCEPT !.outcome = "err", !.answer = {}]
                                 ELSE CallOf(c)
<1>1. Reset(c) \in ConnStates /\ Reset(c) # NoConn /\ c # NoConn
  BY ResetType, NoValuesAssumption
<1>2. /\ Reset(c).srv = "closed" /\ Reset(c).cli = "err" /\ Reset(c).answer = {}
      /\ Reset(c).ip = c.ip /\ Reset(c).req = c.req /\ Reset(c).took = c.took
      /\ c.cli # "waiting" => c.cli = "err"
  BY DEF Reset, ConnStates, StageOK
<1>3. StageOK(Reset(c))
  BY <1>2 DEF StageOK
<1>4. QED
  BY <1>1, <1>2, <1>3 DEF CallOf

\* What is marked moves only with the probe loops, and shrinks with each of them.
LEMMA MarkedStays ==
  ASSUME probe' = probe
  PROVE  Marked(Probers)' = Marked(Probers)
BY DEF Marked

LEMMA MarkedShrinks ==
  ASSUME \A p \in Probers : probe'[p].expired \subseteq probe[p].expired
  PROVE  Marked(Probers)' \subseteq Marked(Probers)
BY DEF Marked

\* Losing a set of calls and of marked rows is a step of the directory.
LEMMA LoseStep ==
  ASSUME TypeOK, ConnInv,
         NEW hit \in SUBSET Conns, NEW gone \in SUBSET Marked(Probers),
         Marked(Probers)' \subseteq Marked(Probers),
         \A k \in hit : conn[k] # NoConn /\ conn[k].srv # "closed",
         conn' = [k \in Conns |-> IF k \in hit THEN Reset(conn[k]) ELSE conn[k]],
         store' = Without(store, gone, NoRow)
  PROVE  ConnInv' /\ Directory!Next
<1> DEFINE failed == {k \in hit : conn[k].cli = "waiting"}
<1>1. \A k \in hit : conn[k] \in ConnStates /\ StageOK(conn[k])
  BY DEF TypeOK, ConnInv
<1>2. ConnInv'
  BY <1>1, ResetCall DEF ConnInv
<1>3. \A k \in failed : AbsCall[k] # NoConn /\ AbsCall[k].outcome = "waiting"
  BY <1>1, CallIsMade DEF AbsCall
<1>4. AbsCall' = [k \in Conns |-> IF k \in failed
                                    THEN [AbsCall[k] EXCEPT !.outcome = "err", !.answer = {}]
                                    ELSE AbsCall[k]]
  BY <1>1, ResetCall DEF AbsCall
<1>5. AbsTook' = AbsTook
  BY <1>1, ResetCall DEF AbsTook
<1>6. Directory!Lose(failed, gone, Marked(Probers)')
  BY <1>3, <1>4, <1>5 DEF Directory!Lose, Directory!Made, AbsCall, AbsTook, Without
<1>7. QED
  BY <1>2, <1>6 DEF Directory!Next

\* Losing one call and no row.
LEMMA LoseOne ==
  ASSUME TypeOK, ConnInv, NEW k \in Conns,
         conn[k] # NoConn, conn[k].srv # "closed",
         conn' = [conn EXCEPT ![k] = Reset(@)], store' = store, probe' = probe
  PROVE  ConnInv' /\ Directory!Next
<1>1. conn' = [j \in Conns |-> IF j \in {k} THEN Reset(conn[j]) ELSE conn[j]]
  BY DEF TypeOK
<1>2. store' = Without(store, {}, NoRow)
  BY DEF Without, TypeOK
<1>3. /\ {k} \in SUBSET Conns /\ {} \in SUBSET Marked(Probers)
      /\ \A j \in {k} : conn[j] # NoConn /\ conn[j].srv # "closed"
  OBVIOUS
<1>4. Marked(Probers)' \subseteq Marked(Probers)
  BY MarkedStays
<1>5. QED
  BY <1>1, <1>2, <1>3, <1>4, LoseStep

\* A step that the directory does not see.
LEMMA Unseen ==
  ASSUME TypeOK, ConnInv, NEW k \in Conns, NEW c \in ConnStates,
         conn[k] # NoConn, conn' = [conn EXCEPT ![k] = c], store' = store, probe' = probe,
         StageOK(c), CallOf(c) = CallOf(conn[k]), c.took = conn[k].took
  PROVE  ConnInv' /\ UNCHANGED Directory!vars
<1>1. ConnInv' /\ AbsCall' = [AbsCall EXCEPT ![k] = CallOf(conn[k])]
  BY OneConnection
<1>2. AbsCall' = AbsCall
  BY <1>1 DEF AbsCall
<1>3. AbsTook' = AbsTook
  BY OneConnection DEF AbsTook
<1>4. QED
  BY <1>1, <1>2, <1>3, MarkedStays DEF AbsCall, AbsTook, Directory!vars

\* A caller stops waiting for its call, and no row changes.
LEMMA FailStep ==
  ASSUME TypeOK, ConnInv, NEW k \in Conns, NEW c \in ConnStates,
         conn[k] \in ConnStates, conn[k].cli = "waiting",
         StageOK(c), c.cli = "err",
         c.ip = conn[k].ip, c.req = conn[k].req, c.took = conn[k].took,
         conn' = [conn EXCEPT ![k] = c], store' = store, probe' = probe
  PROVE  ConnInv' /\ Directory!Next
<1>1. CallOf(c) = [CallOf(conn[k]) EXCEPT !.outcome = "err", !.answer = {}]
  BY FailedCall
<1>2. ConnInv' /\ AbsCall' = [AbsCall EXCEPT ![k] = CallOf(c)] /\ AbsTook' = AbsTook
  BY OneConnection, NoValuesAssumption DEF AbsTook
<1>3. AbsCall[k] # NoConn /\ AbsCall[k].outcome = "waiting"
  BY CallIsMade DEF AbsCall
<1>4. AbsCall' = [j \in Conns |-> IF j \in {k}
                                    THEN [AbsCall[j] EXCEPT !.outcome = "err", !.answer = {}]
                                    ELSE AbsCall[j]]
  BY <1>1, <1>2 DEF AbsCall
<1>5. store' = [ip \in Ips |-> IF ip \in {} THEN NoRow ELSE store[ip]]
  BY DEF TypeOK
<1>6. Directory!Lose({k}, {}, Marked(Probers))
  BY <1>2, <1>3, <1>4, <1>5, MarkedStays DEF Directory!Lose, Directory!Made, AbsCall, AbsTook
<1>7. QED
  BY <1>2, <1>6 DEF Directory!Next

\* The callers' steps.
LEMMA CallerStep ==
  ASSUME TypeOK, ConnInv, NEW k \in Conns, Caller(k)
  PROVE  ConnInv' /\ Directory!Next
<1>1. CASE GiveUp(k)
  <2> DEFINE c == [conn[k] EXCEPT !.cli = "err"]
  <2>1. conn[k] \in ConnStates /\ StageOK(conn[k]) /\ conn[k].cli = "waiting"
    BY <1>1 DEF GiveUp, TypeOK, ConnInv
  <2>2. /\ c \in ConnStates /\ StageOK(c) /\ c.cli = "err"
        /\ c.ip = conn[k].ip /\ c.req = conn[k].req /\ c.took = conn[k].took
    BY <2>1 DEF ConnStates, StageOK
  <2>3. conn' = [conn EXCEPT ![k] = c] /\ store' = store /\ probe' = probe
    BY <1>1 DEF GiveUp
  <2>4. QED
    BY <2>1, <2>2, <2>3, FailStep
<1>2. ASSUME NEW ip \in Ips, NEW r \in Requests, Call(k, ip, r)
      PROVE  ConnInv' /\ Directory!Next
  <2> DEFINE outcome == IF listening THEN "waiting" ELSE "err"
             c == [ip |-> ip, req |-> r,
                   srv |-> IF listening THEN "backlog" ELSE "closed",
                   cli |-> outcome, answer |-> {}, took |-> FALSE]
  <2>1. c \in ConnStates /\ StageOK(c)
    BY DEF ConnStates, StageOK
  <2>2. conn' = [conn EXCEPT ![k] = c] /\ conn[k] = NoConn /\ store' = store /\ probe' = probe
    BY <1>2 DEF Call
  <2>3. ConnInv' /\ AbsCall' = [AbsCall EXCEPT ![k] = CallOf(c)] /\ AbsTook' = AbsTook
    BY <2>1, <2>2, OneConnection DEF AbsTook
  <2>4. CallOf(c) = [ip |-> ip, req |-> r, outcome |-> outcome, answer |-> {}]
    BY <2>1, CallIsMade
  <2>5. AbsCall[k] = NoConn
    BY <2>2 DEF AbsCall, CallOf
  <2>6. r \in Directory!Requests
    BY DEF Requests, Register, Query, Directory!Requests
  <2>7. Directory!Make(k, ip, r, outcome)
    BY <2>2, <2>3, <2>4, <2>5, MarkedStays DEF Directory!Make, AbsCall, AbsTook
  <2>8. QED
    BY <2>3, <2>6, <2>7 DEF Directory!Next
<1>3. QED
  BY <1>1, <1>2 DEF Caller

\* A registration is the directory's Enter.
LEMMA RegisterStep ==
  ASSUME TypeOK, ConnInv, NEW k \in Conns, HandleRegister(k)
  PROVE  ConnInv' /\ Directory!Next
<1> DEFINE old == conn[k]
           c   == [old EXCEPT !.srv = "ack", !.took = TRUE]
<1>1. /\ old \in ConnStates /\ StageOK(old) /\ old.srv = "accepted"
      /\ old.req.kind = "register" /\ LabelsIn(old.req) # {}
      /\ store' = [store EXCEPT ![old.ip] = old.req.info]
      /\ conn' = [conn EXCEPT ![k] = c] /\ probe' = probe
  BY DEF HandleRegister, StoreRegistration, AtServer, TypeOK, ConnInv
<1>2. c \in ConnStates /\ StageOK(c)
  BY <1>1 DEF ConnStates, StageOK
<1>3. ~old.took
  BY <1>1 DEF StageOK
<1>4. /\ c.ip = old.ip /\ c.req = old.req
      /\ c.cli = old.cli /\ c.answer = old.answer /\ c.took
  BY <1>1 DEF ConnStates
<1> HIDE DEF c
<1>5. /\ ConnInv' /\ AbsCall' = [AbsCall EXCEPT ![k] = CallOf(c)]
      /\ AbsTook' = AbsTook \cup {k} /\ k \notin AbsTook
  BY <1>1, <1>2, <1>3, <1>4, OneConnection DEF AbsTook
<1>6. CallOf(c) = CallOf(old)
  BY <1>1, <1>2, <1>4, CallIsMade
<1>7. AbsCall' = AbsCall
  BY <1>5, <1>6 DEF AbsCall
<1>8. AbsCall[k] # NoConn /\ AbsCall[k].req = old.req /\ AbsCall[k].ip = old.ip
  BY <1>1, CallIsMade DEF AbsCall
<1>9. LabelsOf[old.req.info] # {}
  BY <1>1 DEF LabelsIn
<1>10. Directory!Enter(k)
  BY <1>1, <1>5, <1>7, <1>8, <1>9, MarkedStays
     DEF Directory!Enter, Directory!Effective, AbsCall, AbsTook
<1>11. QED
  BY <1>5, <1>10 DEF Directory!Next

\* A query that fits its frame is the directory's Look, any other is lost.
LEMMA QueryStep ==
  ASSUME TypeOK, ConnInv, NEW k \in Conns, HandleQuery(k)
  PROVE  ConnInv' /\ Directory!Next
<1> DEFINE old    == conn[k]
           nodes  == Matching(old.req.labels)
           c      == [old EXCEPT !.srv = "result", !.answer = nodes, !.took = TRUE]
           answer == IF old.cli = "err" THEN {} ELSE nodes
<1>1. /\ old \in ConnStates /\ StageOK(old) /\ old.srv = "accepted"
      /\ old # NoConn /\ old.req.kind = "query" /\ store' = store /\ probe' = probe
      /\ conn' = [conn EXCEPT ![k] = IF Cardinality(nodes) <= MaxAnswer THEN c ELSE Reset(old)]
  BY DEF HandleQuery, AtServer, TypeOK, ConnInv
<1>2. CASE Cardinality(nodes) <= MaxAnswer
  <2>1. c \in ConnStates
    BY <1>1, MatchingType DEF ConnStates
  <2>2. /\ c.ip = old.ip /\ c.req = old.req /\ c.cli = old.cli
        /\ c.srv = "result" /\ c.answer = nodes /\ c.took
    BY <1>1 DEF ConnStates
  <2>3. ~old.took
    BY <1>1 DEF StageOK
  <2> HIDE DEF c
  <2>4. StageOK(c)
    BY <1>1, <2>2 DEF StageOK
  <2>5. /\ ConnInv' /\ AbsCall' = [AbsCall EXCEPT ![k] = CallOf(c)]
        /\ AbsTook' = AbsTook \cup {k} /\ k \notin AbsTook
    BY <1>1, <1>2, <2>1, <2>2, <2>3, <2>4, OneConnection DEF AbsTook
  <2> DEFINE before == IF old.cli = "err" THEN {} ELSE old.answer
  <2>6. AbsCall[k] = [ip |-> old.ip, req |-> old.req, outcome |-> old.cli, answer |-> before]
    BY <1>1, CallIsMade DEF AbsCall
  <2>7. CallOf(c) = [ip |-> old.ip, req |-> old.req, outcome |-> old.cli, answer |-> answer]
    BY <2>1, <2>2, CallIsMade
  <2>8. AbsCall[k] # NoConn /\ AbsCall[k].outcome = old.cli /\ AbsCall[k].req = old.req
    BY <1>1, <2>6, CallIsMade DEF AbsCall
  <2>9. answer \in Directory!Answers(old.req.labels)
    BY DEF Directory!Answers, Matching, Rows, Node
  <2>10. old.cli = "waiting" \/ answer = {}
    BY <1>1 DEF StageOK, ConnStates
  <2> HIDE DEF before, answer
  <2>11. [AbsCall[k] EXCEPT !.answer = answer]
          = [ip |-> old.ip, req |-> old.req, outcome |-> old.cli, answer |-> answer]
    BY <2>6
  <2>12. AbsCall' = [AbsCall EXCEPT ![k].answer = answer]
    BY <2>5, <2>7, <2>11
  <2>13. Directory!Look(k, answer)
    BY <1>1, <2>5, <2>8, <2>9, <2>10, <2>12, MarkedStays
       DEF Directory!Look, Directory!Effective, AbsCall, AbsTook
  <2>14. QED
    BY <1>1, <2>5, <2>8, <2>9, <2>13 DEF Directory!Next, AbsCall
<1>3. CASE ~(Cardinality(nodes) <= MaxAnswer)
  BY <1>1, <1>3, LoseOne
<1>4. QED
  BY <1>2, <1>3

\* A reply is the directory's Return, a failure, or news for nobody.
LEMMA ReplyStep ==
  ASSUME TypeOK, ConnInv, NEW k \in Conns, Reply(k)
  PROVE  ConnInv' /\ (Directory!Next \/ UNCHANGED Directory!vars)
<1> DEFINE old == conn[k]
<1>1. /\ old \in ConnStates /\ StageOK(old) /\ old # NoConn
      /\ old.srv \in {"ack", "result", "error"} /\ store' = store /\ probe' = probe
  BY DEF Reply, AtServer, TypeOK, ConnInv
<1>2. PICK checked \in SUBSET old.answer :
        conn' = [conn EXCEPT ![k] =
          IF old.cli = "waiting"
            THEN [old EXCEPT !.srv = "closed",
                             !.cli = IF old.srv = "error" THEN "err" ELSE "ok",
                             !.answer = checked]
            ELSE [old EXCEPT !.srv = "closed", !.answer = {}]]
  BY DEF Reply
<1>3. CASE old.cli # "waiting"
  <2> DEFINE c == [old EXCEPT !.srv = "closed", !.answer = {}]
  <2>1. c \in ConnStates
    BY <1>1 DEF ConnStates
  <2>2. /\ c.ip = old.ip /\ c.req = old.req /\ c.cli = "err" /\ old.cli = "err"
        /\ c.took = old.took /\ c.srv = "closed"
    BY <1>1, <1>3 DEF ConnStates, StageOK
  <2>3. conn' = [conn EXCEPT ![k] = c]
    BY <1>2, <1>3
  <2> HIDE DEF c
  <2>4. StageOK(c) /\ CallOf(c) = CallOf(old)
    BY <1>1, <2>1, <2>2, CallIsMade DEF StageOK
  <2>5. QED
    BY <1>1, <2>1, <2>2, <2>3, <2>4, Unseen
<1>4. CASE old.cli = "waiting" /\ old.srv = "error"
  <2> DEFINE c == [old EXCEPT !.srv = "closed", !.cli = "err", !.answer = checked]
  <2>1. c \in ConnStates
    BY <1>1 DEF ConnStates
  <2>2. /\ c.ip = old.ip /\ c.req = old.req /\ c.cli = "err"
        /\ c.took = old.took /\ c.srv = "closed"
    BY <1>1 DEF ConnStates
  <2>3. conn' = [conn EXCEPT ![k] = c]
    BY <1>2, <1>4
  <2> HIDE DEF c
  <2>4. StageOK(c)
    BY <2>2 DEF StageOK
  <2>5. QED
    BY <1>1, <1>4, <2>1, <2>2, <2>3, <2>4, FailStep
<1>5. CASE old.cli = "waiting" /\ old.srv # "error"
  <2> DEFINE c == [old EXCEPT !.srv = "closed", !.cli = "ok", !.answer = checked]
  <2>1. c \in ConnStates
    BY <1>1 DEF ConnStates
  <2>2. /\ c.ip = old.ip /\ c.req = old.req /\ c.cli = "ok"
        /\ c.took = old.took /\ c.srv = "closed" /\ c.answer = checked
    BY <1>1 DEF ConnStates
  <2>3. conn' = [conn EXCEPT ![k] = c]
    BY <1>2, <1>5
  <2> HIDE DEF c
  <2>4. StageOK(c) /\ old.took
    BY <1>1, <1>5, <2>2 DEF StageOK
  <2>5. /\ ConnInv' /\ AbsCall' = [AbsCall EXCEPT ![k] = CallOf(c)]
        /\ AbsTook' = AbsTook /\ k \in AbsTook
    BY <1>1, <2>1, <2>2, <2>3, <2>4, OneConnection DEF AbsTook
  <2>6. AbsCall[k] = [ip |-> old.ip, req |-> old.req, outcome |-> "waiting",
                      answer |-> old.answer]
    BY <1>1, <1>5, CallIsMade DEF AbsCall
  <2>7. CallOf(c) = [ip |-> old.ip, req |-> old.req, outcome |-> "ok", answer |-> checked]
    BY <2>1, <2>2, CallIsMade
  <2>8. [AbsCall[k] EXCEPT !.outcome = "ok"]
          = [ip |-> old.ip, req |-> old.req, outcome |-> "ok", answer |-> old.answer]
    BY <2>6
  <2>9. [[ip |-> old.ip, req |-> old.req, outcome |-> "ok", answer |-> old.answer]
           EXCEPT !.answer = checked]
          = [ip |-> old.ip, req |-> old.req, outcome |-> "ok", answer |-> checked]
    OBVIOUS
  <2>10. AbsCall' = [AbsCall EXCEPT ![k].outcome = "ok", ![k].answer = checked]
    <3>1. AbsCall' = [AbsCall EXCEPT ![k] = [@ EXCEPT !.outcome = "ok", !.answer = checked]]
      BY <2>5, <2>7, <2>8, <2>9
    <3>2. QED
      BY <3>1 DEF AbsCall
  <2>11. AbsCall[k] # NoConn
    BY <1>1, CallIsMade DEF AbsCall
  <2>12. checked \subseteq AbsCall[k].answer
    BY <1>2, <2>6
  <2>13. Directory!Return(k, checked)
    BY <1>1, <2>5, <2>6, <2>10, <2>11, <2>12, MarkedStays
       DEF Directory!Return, Directory!Made, AbsCall, AbsTook
  <2>14. QED
    BY <2>5, <2>6, <2>11, <2>12, <2>13 DEF Directory!Next, Directory!Made, AbsCall
<1>6. QED
  BY <1>3, <1>4, <1>5

\* The steps of a connection that the directory does not see, or sees fail.
LEMMA ServerStep ==
  ASSUME TypeOK, ConnInv, NEW k \in Conns,
         Accept(k) \/ ReadFails(k) \/ Refuse(k) \/ HandlerFails(k)
  PROVE  ConnInv' /\ (Directory!Next \/ UNCHANGED Directory!vars)
<1> DEFINE old == conn[k]
<1>1. /\ old \in ConnStates /\ StageOK(old) /\ old # NoConn
      /\ old.srv \in {"backlog", "accepted"} /\ store' = store /\ probe' = probe
  BY DEF Accept, ReadFails, Refuse, HandlerFails, AtServer, TypeOK, ConnInv
<1>2. ASSUME NEW stage \in {"accepted", "error"}, conn' = [conn EXCEPT ![k].srv = stage]
      PROVE  ConnInv' /\ UNCHANGED Directory!vars
  <2> DEFINE c == [old EXCEPT !.srv = stage]
  <2>1. c \in ConnStates
    BY <1>1 DEF ConnStates
  <2>2. /\ c.ip = old.ip /\ c.req = old.req /\ c.cli = old.cli /\ c.answer = old.answer
        /\ c.took = old.took /\ c.srv = stage
    BY <1>1 DEF ConnStates
  <2>3. conn' = [conn EXCEPT ![k] = c]
    BY <1>2
  <2> HIDE DEF c
  <2>4. StageOK(c) /\ CallOf(c) = CallOf(old)
    BY <1>1, <2>1, <2>2, CallIsMade DEF StageOK
  <2>5. QED
    BY <1>1, <2>1, <2>2, <2>3, <2>4, Unseen
<1>3. CASE Accept(k)
  BY <1>2, <1>3 DEF Accept
<1>4. CASE Refuse(k)
  BY <1>2, <1>4 DEF Refuse
<1>5. CASE ReadFails(k) \/ HandlerFails(k)
  <2>1. conn' = [conn EXCEPT ![k] = Reset(@)] /\ old.srv # "closed"
    BY <1>1, <1>5 DEF ReadFails, HandlerFails
  <2>2. QED
    BY <1>1, <2>1, LoseOne
<1>6. QED
  BY <1>3, <1>4, <1>5

\* Losing marked rows and marks, and no call.
LEMMA LoseRows ==
  ASSUME TypeOK, ConnInv, NEW gone \in SUBSET Marked(Probers),
         Marked(Probers)' \subseteq Marked(Probers),
         conn' = conn, store' = Without(store, gone, NoRow)
  PROVE  ConnInv' /\ Directory!Next
<1>1. conn' = [k \in Conns |-> IF k \in {} THEN Reset(conn[k]) ELSE conn[k]]
  BY DEF TypeOK
<1>2. {} \in SUBSET Conns /\ \A k \in {} : conn[k] # NoConn /\ conn[k].srv # "closed"
  OBVIOUS
<1>3. QED
  BY <1>1, <1>2, LoseStep

\* A verdict is the directory's Judge, and the end of a cycle deregisters rows.
LEMMA ProbeStep ==
  ASSUME TypeOK, ConnInv, NEW p \in Probers, Prober(p)
  PROVE  ConnInv' /\ (Directory!Next \/ UNCHANGED Directory!vars)
<1>1. conn' = conn /\ ConnInv'
  BY DEF Prober, ListNodes, ReadClock, ProbeReturns, ApplyResult, RemoveExpired, Remove, ConnInv
<1>2. \A q \in Probers : q # p => probe'[q] = probe[q]
  BY DEF Prober, ListNodes, ReadClock, ProbeReturns, ApplyResult, RemoveExpired, Remove, TypeOK
<1>3. ASSUME probe'[p].expired \subseteq probe[p].expired
      PROVE  Marked(Probers)' \subseteq Marked(Probers)
  <2>1. \A q \in Probers : probe'[q].expired \subseteq probe[q].expired
    BY <1>2, <1>3
  <2>2. QED
    BY <2>1, MarkedShrinks
<1>4. CASE ListNodes(p) \/ ReadClock(p) \/ \E ip \in Ips, ok \in BOOLEAN : ProbeReturns(p, ip, ok)
  <2>1. probe'[p].expired \subseteq probe[p].expired
    <3>1. ListNodes(p) => probe'[p].expired = {}
      BY DEF ListNodes, ProbeAt, TypeOK
    <3>2. probe[p] \in ProbeStates
      BY DEF TypeOK
    <3>3. ReadClock(p) => probe'[p].expired = probe[p].expired
      BY <3>2 DEF ReadClock, TypeOK, ProbeStates
    <3>4. ASSUME NEW ip \in Ips, NEW ok \in BOOLEAN, ProbeReturns(p, ip, ok)
          PROVE  probe'[p].expired = probe[p].expired
      BY <3>2, <3>4 DEF ProbeReturns, TypeOK, ProbeStates
    <3>5. QED
      BY <1>4, <3>1, <3>3, <3>4
  <2>2. store' = Without(store, {}, NoRow)
    BY <1>4 DEF ListNodes, ReadClock, ProbeReturns, Without, TypeOK
  <2>3. {} \in SUBSET Marked(Probers) /\ Marked(Probers)' \subseteq Marked(Probers)
    BY <1>3, <2>1
  <2>4. QED
    BY <1>1, <2>2, <2>3, LoseRows
<1>5. CASE ApplyResult(p)
  <2>1. store' = store
    BY <1>5 DEF ApplyResult
  <2>2. CASE probe'[p].expired = probe[p].expired \cup {probe[p].cur}
    <3>1. \A q \in Probers : probe'[q].expired = IF q = p THEN probe[p].expired \cup {probe[p].cur}
                                                        ELSE probe[q].expired
      BY <1>2, <2>2
    <3>2. Marked(Probers)' = Marked(Probers) \cup {probe[p].cur}
      BY <3>1 DEF Marked
    <3>3. Directory!Judge(probe[p].cur)
      BY <1>1, <2>1, <3>2 DEF Directory!Judge
    <3>4. QED
      BY <1>1, <1>5, <3>3, ApplyFacts DEF Directory!Next
  <2>3. CASE probe'[p].expired = probe[p].expired
    <3>1. \A q \in Probers : probe'[q].expired = probe[q].expired
      BY <1>2, <2>3
    <3>2. Marked(Probers)' = Marked(Probers)
      BY <3>1 DEF Marked
    <3>3. QED
      BY <1>1, <2>1, <3>2 DEF Directory!vars
  <2>4. QED
    BY <1>5, <2>2, <2>3, ApplyFacts
<1>6. CASE RemoveExpired(p)
  <2>1. PICK gone \in SUBSET probe[p].expired : store' = Without(store, gone, NoRow)
    BY <1>6 DEF RemoveExpired, Removable, Remove
  <2>2. gone \in SUBSET Marked(Probers)
    BY DEF Marked
  <2>3. probe'[p].expired = {}
    BY <1>6 DEF RemoveExpired, Remove, ProbeAt, TypeOK
  <2>4. Marked(Probers)' \subseteq Marked(Probers)
    BY <1>3, <2>3
  <2>5. ConnInv' /\ Directory!Next
    BY <1>1, <2>1, <2>2, <2>4, LoseRows
  <2>6. QED
    BY <2>5
<1>7. QED
  BY <1>4, <1>5, <1>6 DEF Prober

\* The end of a listener or of the process is an outage, a boot forgets what was
\* marked, and the clock is not seen.
LEMMA ProcessStep ==
  ASSUME TypeOK, ConnInv, AcceptFails \/ AbortHandle \/ Crash \/ Boot \/ Tick
  PROVE  ConnInv' /\ (Directory!Next \/ UNCHANGED Directory!vars)
<1>1. Marked(Probers)' \subseteq Marked(Probers)
  <2>1. CASE AcceptFails \/ Crash \/ Boot
    <3>1. \A p \in Probers : probe'[p].expired \subseteq probe[p].expired
      BY <2>1, ProbersReset
    <3>2. QED
      BY <3>1, MarkedShrinks
  <2>2. CASE AbortHandle \/ Tick
    BY <2>2, MarkedStays DEF AbortHandle, Tick
  <2>3. QED
    BY <2>1, <2>2
<1>2. {} \in SUBSET Marked(Probers)
  OBVIOUS
<1>3. CASE AcceptFails \/ AbortHandle
  <2> DEFINE hit == {k \in Conns : conn[k] # NoConn /\ conn[k].srv = "backlog"}
  <2>1. conn' = [k \in Conns |-> IF k \in hit THEN Reset(conn[k]) ELSE conn[k]]
    BY <1>3 DEF AcceptFails, AbortHandle, ResetBacklog
  <2>2. store' = Without(store, {}, NoRow)
    BY <1>3 DEF AcceptFails, AbortHandle, Without, TypeOK
  <2>3. /\ hit \in SUBSET Conns
        /\ \A k \in hit : conn[k] # NoConn /\ conn[k].srv # "closed"
    OBVIOUS
  <2> HIDE DEF hit
  <2>4. ConnInv' /\ Directory!Next
    BY <1>1, <1>2, <2>1, <2>2, <2>3, LoseStep
  <2>5. QED
    BY <2>4
<1>4. CASE Crash
  <2> DEFINE hit == {k \in Conns : conn[k] # NoConn /\ conn[k].srv # "closed"}
  <2>1. conn' = [k \in Conns |-> IF k \in hit THEN Reset(conn[k]) ELSE conn[k]]
    BY <1>4 DEF Crash, CrashLosing
  <2>2. PICK gone \in SUBSET Marked({p \in Probers : CycleOver(p)}) :
          store' = Without(store, gone, NoRow)
    BY <1>4 DEF Crash, CrashLosing
  <2>3. gone \in SUBSET Marked(Probers)
    BY DEF Marked
  <2>4. /\ hit \in SUBSET Conns
        /\ \A k \in hit : conn[k] # NoConn /\ conn[k].srv # "closed"
    OBVIOUS
  <2> HIDE DEF hit
  <2>5. ConnInv' /\ Directory!Next
    BY <1>1, <2>1, <2>2, <2>3, <2>4, LoseStep
  <2>6. QED
    BY <2>5
<1>5. CASE Boot
  <2>1. conn' = conn /\ store' = Without(store, {}, NoRow)
    BY <1>5 DEF Boot, BootWith, Without, TypeOK
  <2>2. QED
    BY <1>1, <1>2, <2>1, LoseRows
<1>6. CASE Tick
  BY <1>6, MarkedStays DEF Tick, ConnInv, Directory!vars
<1>7. QED
  BY <1>3, <1>4, <1>5, <1>6

\* The registry implements the directory, for every value of the constants:
\* acknowledged means stored exactly once, an answer comes from the rows of one
\* instant, and no crash, boot or outage takes a row that no probe cycle has
\* found overdue.
THEOREM RegistryIsDirectory == Spec => ImplementsDirectory
<1>1. Init => ConnInv /\ Directory!Init
  BY DEF Init, ConnInv, Directory!Init, CallOf, Marked, ProbeAt
<1>2. TypeOK /\ ConnInv /\ [Next]_vars => ConnInv' /\ [Directory!Next]_(Directory!vars)
  <2> SUFFICES ASSUME TypeOK, ConnInv, [Next]_vars
               PROVE  ConnInv' /\ (Directory!Next \/ UNCHANGED Directory!vars)
    OBVIOUS
  <2>1. CASE UNCHANGED vars
    BY <2>1, MarkedStays DEF vars, ConnInv, Directory!vars
  <2>2. ASSUME NEW k \in Conns, Caller(k) \/ Accept(k) \/ Handler(k) \/ Reply(k)
        PROVE  ConnInv' /\ (Directory!Next \/ UNCHANGED Directory!vars)
    BY <2>2, CallerStep, ServerStep, RegisterStep, QueryStep, ReplyStep DEF Handler
  <2>3. ASSUME NEW p \in Probers, Prober(p)
        PROVE  ConnInv' /\ (Directory!Next \/ UNCHANGED Directory!vars)
    BY <2>3, ProbeStep
  <2>4. CASE AcceptFails \/ AbortHandle \/ Crash \/ Boot \/ Tick
    BY <2>4, ProcessStep
  <2>5. QED
    BY <2>1, <2>2, <2>3, <2>4 DEF Next
<1>3. QED
  BY <1>1, <1>2, Typing, PTL DEF Spec, ImplementsDirectory, Directory!Spec

-----------------------------------------------------------------------------
(* What follows for a caller, from the promises of the directory alone.    *)

\* Some call that has taken effect has registered this under this address.
Registered(calls, effective, ip, info) ==
  \E j \in effective : /\ j \in Conns /\ calls[j] # NoConn
                       /\ calls[j].req.kind = "register" /\ calls[j].req.info = info
                       /\ calls[j].ip = ip

\* A call that returned ok has taken effect; a row, and a node that an answer names,
\* is what a caller has registered under that address; and the node has all the
\* labels asked for.
Honoured(rows, calls, effective) ==
  /\ \A k \in Conns : calls[k] # NoConn /\ calls[k].outcome = "ok" => k \in effective
  /\ \A ip \in Ips : rows[ip] # NoRow => Registered(calls, effective, ip, rows[ip])
  /\ \A k \in Conns : calls[k] # NoConn /\ calls[k].req.kind = "query"
                        => \A n \in calls[k].answer :
                             /\ calls[k].req.labels \subseteq LabelsOf[n.info]
                             /\ Registered(calls, effective, n.ip, n.info)

AbsCallType == AbsCall \in [Conns -> CallStates \cup {NoConn}]

LEMMA CallsHaveType == ASSUME TypeOK PROVE AbsCallType
<1>1. ASSUME NEW k \in Conns, conn[k] # NoConn
      PROVE  CallOf(conn[k]) \in CallStates
  BY <1>1, CallIsMade DEF TypeOK, CallStates, ConnStates
<1>2. QED
  BY <1>1 DEF AbsCallType, AbsCall, CallOf

\* What was registered stays so, as long as calls keep what they are about and no
\* effect is undone.
LEMMA RegisteredStays ==
  ASSUME NEW calls, NEW later, NEW effective, NEW more, effective \subseteq more,
         \A k \in Conns : calls[k] # NoConn => /\ later[k] # NoConn
                                               /\ later[k].ip = calls[k].ip
                                               /\ later[k].req = calls[k].req,
         NEW ip, NEW info, Registered(calls, effective, ip, info)
  PROVE  Registered(later, more, ip, info)
BY DEF Registered

\* A step that keeps the rows but for those that go, and gives no call an answer
\* it did not have.
LEMMA StaysHonoured ==
  ASSUME NEW rows, NEW left, NEW calls, NEW later, NEW effective, NEW more,
         Honoured(rows, calls, effective), effective \subseteq more,
         \A ip \in Ips : left[ip] \in {rows[ip], NoRow},
         \A k \in Conns : calls[k] # NoConn => /\ later[k] # NoConn
                                               /\ later[k].ip = calls[k].ip
                                               /\ later[k].req = calls[k].req,
         \A k \in Conns : later[k] # NoConn =>
           /\ later[k].outcome = "ok" => k \in more
           /\ \/ later[k].answer = {}
              \/ calls[k] # NoConn /\ later[k].answer \subseteq calls[k].answer
  PROVE  Honoured(left, later, more)
<1>1. ASSUME NEW ip \in Ips, left[ip] # NoRow
      PROVE  Registered(later, more, ip, left[ip])
  <2>1. left[ip] = rows[ip] /\ Registered(calls, effective, ip, rows[ip])
    BY <1>1 DEF Honoured
  <2>2. QED
    BY <2>1, RegisteredStays
<1>2. ASSUME NEW k \in Conns, later[k] # NoConn, later[k].req.kind = "query",
             NEW n \in later[k].answer
      PROVE  /\ later[k].req.labels \subseteq LabelsOf[n.info]
             /\ Registered(later, more, n.ip, n.info)
  <2>1. calls[k] # NoConn /\ n \in calls[k].answer /\ later[k].req = calls[k].req
    BY <1>2
  <2>2. /\ calls[k].req.labels \subseteq LabelsOf[n.info]
        /\ Registered(calls, effective, n.ip, n.info)
    BY <1>2, <2>1 DEF Honoured
  <2>3. QED
    BY <2>1, <2>2, RegisteredStays
<1>3. QED
  BY <1>1, <1>2 DEF Honoured

\* What failing makes of a call.
Lost(c) == [c EXCEPT !.outcome = "err", !.answer = {}]

LEMMA DirectoryHonours ==
  ASSUME AbsCallType, store \in [Ips -> Infos \cup {NoRow}],
         Honoured(store, AbsCall, AbsTook), [Directory!Next]_(Directory!vars)
  PROVE  Honoured(store, AbsCall, AbsTook)'
<1>1. SUFFICES Honoured(store', AbsCall', AbsTook')
  BY DEF Honoured, Registered
<1>2. CASE UNCHANGED Directory!vars
  BY <1>2 DEF Directory!vars, AbsCall, AbsTook
<1>3. ASSUME NEW k \in Conns, NEW ip \in Ips, NEW r \in Directory!Requests,
             NEW outcome \in {"waiting", "err"}, Directory!Make(k, ip, r, outcome)
      PROVE  Honoured(store', AbsCall', AbsTook')
  <2>1. /\ AbsCall[k] = NoConn
        /\ AbsCall' = [AbsCall EXCEPT ![k] =
                        [ip |-> ip, req |-> r, outcome |-> outcome, answer |-> {}]]
        /\ AbsTook' = AbsTook /\ store' = store
    BY <1>3 DEF Directory!Make, AbsCall, AbsTook
  <2>2. \A c \in Conns : c # k => AbsCall'[c] = AbsCall[c]
    BY <2>1 DEF AbsCallType
  <2>3. AbsCall'[k].outcome # "ok" /\ AbsCall'[k].answer = {}
    BY <2>1 DEF AbsCallType
  <2>4. \A c \in Conns : AbsCall[c] # NoConn /\ AbsCall[c].outcome = "ok" => c \in AbsTook
    BY DEF Honoured
  <2>5. \A c \in Conns : AbsCall[c] # NoConn => /\ AbsCall'[c] # NoConn
                                               /\ AbsCall'[c].ip = AbsCall[c].ip
                                               /\ AbsCall'[c].req = AbsCall[c].req
    BY <2>1, <2>2
  <2>6. \A c \in Conns : AbsCall'[c] # NoConn =>
         /\ AbsCall'[c].outcome = "ok" => c \in AbsTook'
         /\ \/ AbsCall'[c].answer = {}
            \/ AbsCall[c] # NoConn /\ AbsCall'[c].answer \subseteq AbsCall[c].answer
    BY <2>1, <2>2, <2>3, <2>4
  <2>7. AbsTook \subseteq AbsTook' /\ \A a \in Ips : store'[a] \in {store[a], NoRow}
    BY <2>1
  <2>8. QED
    BY <2>5, <2>6, <2>7, StaysHonoured
<1>4. ASSUME NEW k \in Conns, Directory!Enter(k)
      PROVE  Honoured(store', AbsCall', AbsTook')
  <2>1. /\ AbsCall' = AbsCall /\ AbsTook' = AbsTook \cup {k}
        /\ AbsCall[k] # NoConn /\ AbsCall[k].req.kind = "register"
        /\ store' = [store EXCEPT ![AbsCall[k].ip] = AbsCall[k].req.info]
    BY <1>4 DEF Directory!Enter, Directory!Effective, AbsCall, AbsTook
  <2>2. Honoured(store, AbsCall', AbsTook')
    BY <2>1, StaysHonoured DEF Honoured
  <2>3. AbsCall[k].ip \in Ips /\ Registered(AbsCall', AbsTook', AbsCall[k].ip, AbsCall[k].req.info)
    BY <2>1 DEF Registered, AbsCallType, CallStates
  <2>4. \A ip \in Ips : store'[ip] = IF ip = AbsCall[k].ip THEN AbsCall[k].req.info ELSE store[ip]
    BY <2>1, <2>3
  <2>5. QED
    BY <2>2, <2>3, <2>4 DEF Honoured
<1>5. ASSUME NEW k \in Conns, NEW answer, AbsCall[k] # NoConn,
             AbsCall[k].req.kind = "query",
             answer \in Directory!Answers(AbsCall[k].req.labels), Directory!Look(k, answer)
      PROVE  Honoured(store', AbsCall', AbsTook')
  <2>1. /\ AbsCall' = [AbsCall EXCEPT ![k].answer = answer]
        /\ AbsTook' = AbsTook \cup {k} /\ store' = store
    BY <1>5 DEF Directory!Look, Directory!Effective, AbsCall, AbsTook
  <2>2. \A c \in Conns : c # k => AbsCall'[c] = AbsCall[c]
    BY <2>1 DEF AbsCallType
  <2>3. /\ AbsCall'[k].outcome = AbsCall[k].outcome /\ AbsCall'[k].ip = AbsCall[k].ip
        /\ AbsCall'[k].req = AbsCall[k].req /\ AbsCall'[k].answer = answer
        /\ AbsCall'[k] # NoConn
    <3>1. AbsCall[k] \in CallStates /\ AbsCall'[k] = [AbsCall[k] EXCEPT !.answer = answer]
      BY <1>5, <2>1 DEF AbsCallType
    <3>2. answer \in SUBSET Nodes
      BY <1>5 DEF Directory!Answers, Nodes, Node
    <3>3. AbsCall'[k] \in CallStates
      BY <3>1, <3>2 DEF CallStates
    <3>4. QED
      BY <3>1, <3>3, NoValuesAssumption DEF CallStates
  <2>4. /\ AbsTook \subseteq AbsTook'
        /\ \A c \in Conns : AbsCall[c] # NoConn => /\ AbsCall'[c] # NoConn
                                                  /\ AbsCall'[c].ip = AbsCall[c].ip
                                                  /\ AbsCall'[c].req = AbsCall[c].req
    BY <2>1, <2>2, <2>3
  <2>5. ASSUME NEW n \in answer
        PROVE  /\ AbsCall[k].req.labels \subseteq LabelsOf[n.info]
               /\ Registered(AbsCall', AbsTook', n.ip, n.info)
    <3>1. PICK ip \in Ips : /\ n = [ip |-> ip, info |-> store[ip]] /\ store[ip] # NoRow
                            /\ AbsCall[k].req.labels \subseteq LabelsOf[store[ip]]
      BY <1>5, <2>5 DEF Directory!Answers
    <3>2. Registered(AbsCall, AbsTook, n.ip, n.info)
      BY <3>1 DEF Honoured
    <3>3. QED
      BY <2>4, <3>1, <3>2, RegisteredStays
  <2>6. \A c \in Conns : AbsCall'[c] # NoConn /\ AbsCall'[c].outcome = "ok" => c \in AbsTook'
    BY <1>5, <2>1, <2>2, <2>3 DEF Honoured
  <2>7. ASSUME NEW ip \in Ips, store'[ip] # NoRow
        PROVE  Registered(AbsCall', AbsTook', ip, store'[ip])
    <3>1. Registered(AbsCall, AbsTook, ip, store'[ip])
      BY <2>1, <2>7 DEF Honoured
    <3>2. QED
      BY <2>4, <3>1, RegisteredStays
  <2>8. ASSUME NEW c \in Conns, c # k, AbsCall'[c] # NoConn, AbsCall'[c].req.kind = "query",
               NEW n \in AbsCall'[c].answer
        PROVE  /\ AbsCall'[c].req.labels \subseteq LabelsOf[n.info]
               /\ Registered(AbsCall', AbsTook', n.ip, n.info)
    <3>1. /\ AbsCall'[c].req.labels \subseteq LabelsOf[n.info]
          /\ Registered(AbsCall, AbsTook, n.ip, n.info)
      BY <2>2, <2>8 DEF Honoured
    <3>2. QED
      BY <2>4, <3>1, RegisteredStays
  <2>9. QED
    BY <2>3, <2>5, <2>6, <2>7, <2>8 DEF Honoured
<1>6. ASSUME NEW k \in Conns, AbsCall[k] # NoConn, NEW answer \in SUBSET AbsCall[k].answer,
             Directory!Return(k, answer)
      PROVE  Honoured(store', AbsCall', AbsTook')
  <2>1. /\ AbsCall' = [AbsCall EXCEPT ![k].outcome = "ok", ![k].answer = answer]
        /\ AbsTook' = AbsTook /\ k \in AbsTook /\ store' = store
    BY <1>6 DEF Directory!Return, AbsCall, AbsTook
  <2>2. \A c \in Conns : c # k => AbsCall'[c] = AbsCall[c]
    BY <2>1 DEF AbsCallType
  <2>3. /\ AbsCall'[k].ip = AbsCall[k].ip /\ AbsCall'[k].req = AbsCall[k].req
        /\ AbsCall'[k].answer = answer /\ AbsCall'[k] # NoConn
    <3>1. /\ AbsCall[k] \in CallStates
          /\ AbsCall'[k] = [AbsCall[k] EXCEPT !.outcome = "ok", !.answer = answer]
      BY <1>6, <2>1 DEF AbsCallType
    <3>2. AbsCall'[k] \in CallStates
      BY <1>6, <3>1 DEF CallStates
    <3>3. QED
      BY <3>1, <3>2, NoValuesAssumption DEF CallStates
  <2>4. \A c \in Conns : AbsCall[c] # NoConn /\ AbsCall[c].outcome = "ok" => c \in AbsTook
    BY DEF Honoured
  <2>5. \A c \in Conns : AbsCall[c] # NoConn => /\ AbsCall'[c] # NoConn
                                               /\ AbsCall'[c].ip = AbsCall[c].ip
                                               /\ AbsCall'[c].req = AbsCall[c].req
    BY <2>2, <2>3
  <2>6. \A c \in Conns : AbsCall'[c] # NoConn =>
         /\ AbsCall'[c].outcome = "ok" => c \in AbsTook'
         /\ \/ AbsCall'[c].answer = {}
            \/ AbsCall[c] # NoConn /\ AbsCall'[c].answer \subseteq AbsCall[c].answer
    BY <1>6, <2>1, <2>2, <2>3, <2>4
  <2>7. AbsTook \subseteq AbsTook' /\ \A a \in Ips : store'[a] \in {store[a], NoRow}
    BY <2>1
  <2>8. QED
    BY <2>5, <2>6, <2>7, StaysHonoured
<1>7. ASSUME NEW failed \in SUBSET Conns, NEW gone, NEW still, Directory!Lose(failed, gone, still)
      PROVE  Honoured(store', AbsCall', AbsTook')
  <2>1. /\ AbsCall' = [k \in Conns |-> IF k \in failed THEN Lost(AbsCall[k]) ELSE AbsCall[k]]
        /\ store' = [ip \in Ips |-> IF ip \in gone THEN NoRow ELSE store[ip]]
        /\ AbsTook' = AbsTook
        /\ \A k \in failed : AbsCall[k] # NoConn
    BY <1>7, Zenon DEF Directory!Lose, Directory!Made, AbsCall, AbsTook, Lost
  <2>2. ASSUME NEW k \in failed
        PROVE  /\ AbsCall'[k].outcome = "err" /\ AbsCall'[k].answer = {}
               /\ AbsCall'[k].ip = AbsCall[k].ip /\ AbsCall'[k].req = AbsCall[k].req
               /\ AbsCall'[k] # NoConn
    <3>1. AbsCall[k] \in CallStates /\ AbsCall'[k] = Lost(AbsCall[k])
      BY <2>1, <2>2 DEF AbsCallType
    <3>2. AbsCall'[k] \in CallStates
      BY <3>1 DEF CallStates, Lost
    <3>3. QED
      BY <3>1, <3>2, NoValuesAssumption DEF CallStates, Lost
  <2>3. \A k \in Conns : k \notin failed => AbsCall'[k] = AbsCall[k]
    BY <2>1
  <2>4. \A c \in Conns : AbsCall[c] # NoConn /\ AbsCall[c].outcome = "ok" => c \in AbsTook
    BY DEF Honoured
  <2>5. \A a \in Ips : store'[a] \in {store[a], NoRow}
    BY <2>1
  <2>6. QED
    BY <2>1, <2>2, <2>3, <2>4, <2>5, StaysHonoured
<1>8. ASSUME NEW ip \in Ips, Directory!Judge(ip)
      PROVE  Honoured(store', AbsCall', AbsTook')
  BY <1>8 DEF Directory!Judge, AbsCall, AbsTook
<1>9. QED
  BY <1>2, <1>3, <1>4, <1>5, <1>6, <1>7, <1>8
     DEF Directory!Next, Directory!Made, AbsCall

\* What a caller may rely on: an acknowledged registration was stored, rows and
\* answers hold nothing that no caller has registered, and a query answers with
\* nodes that have its labels (client.rs:72-146).
THEOREM CallersAreHonoured == Spec => []Honoured(store, AbsCall, AbsTook)
<1>1. Directory!Init => Honoured(store, AbsCall, AbsTook)
  BY DEF Directory!Init, Honoured, AbsCall, AbsTook
<1>2. TypeOK /\ Honoured(store, AbsCall, AbsTook) /\ [Directory!Next]_(Directory!vars)
        => Honoured(store, AbsCall, AbsTook)'
  <2>1. TypeOK => store \in [Ips -> Infos \cup {NoRow}]
    BY DEF TypeOK
  <2>2. QED
    BY <2>1, CallsHaveType, DirectoryHonours
<1>3. QED
  BY <1>1, <1>2, Typing, RegistryIsDirectory, PTL DEF ImplementsDirectory, Directory!Spec

\* What a node may rely on: whatever happens to the process, its row goes only
\* when a probe cycle has found it overdue (server.rs:219-230).
THEOREM OnlyOverdueRowsGo ==
  Spec => [][\A ip \in Ips : store[ip] # NoRow /\ store'[ip] = NoRow
                               => ip \in Marked(Probers)]_(Directory!vars)
<1>1. TypeOK /\ [Directory!Next]_(Directory!vars)
        => [\A ip \in Ips : store[ip] # NoRow /\ store'[ip] = NoRow
                             => ip \in Marked(Probers)]_(Directory!vars)
  <2> SUFFICES ASSUME TypeOK, Directory!Next,
                      NEW ip \in Ips, store[ip] # NoRow, store'[ip] = NoRow
               PROVE  ip \in Marked(Probers)
    OBVIOUS
  <2>1. ASSUME NEW k \in Conns, Directory!Enter(k) PROVE FALSE
    <3>1. /\ AbsCall[k] # NoConn /\ AbsCall[k].req.kind = "register"
          /\ store' = [store EXCEPT ![AbsCall[k].ip] = AbsCall[k].req.info]
      BY <2>1 DEF Directory!Enter, Directory!Effective, AbsCall
    <3>2. AbsCall[k].req.info \in Infos
      BY <3>1, CallsHaveType DEF AbsCallType, CallStates, Requests, Register, Query
    <3>3. QED
      BY <3>1, <3>2, NullsAssumption DEF TypeOK
  <2>2. ASSUME NEW failed, NEW gone, NEW still, Directory!Lose(failed, gone, still)
        PROVE  ip \in Marked(Probers)
    BY <2>2 DEF Directory!Lose
  <2>3. CASE store' = store
    BY <2>3
  <2>4. QED
    BY <2>1, <2>2, <2>3
       DEF Directory!Next, Directory!Make, Directory!Look, Directory!Return, Directory!Judge
<1>2. QED
  BY <1>1, Typing, RegistryIsDirectory, PTL DEF ImplementsDirectory, Directory!Spec

=============================================================================
