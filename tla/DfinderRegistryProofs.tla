----------------------- MODULE DfinderRegistryProofs -----------------------
(***************************************************************************)
(* Theorems about DfinderRegistry, for every value of its constants.       *)
(***************************************************************************)
EXTENDS DfinderRegistry, TLAPS

-----------------------------------------------------------------------------
(* Types.                                                                  *)

\* An entry is what it was made from, and never the absence of one.
LEMMA EntryFacts ==
  ASSUME NEW ok \in BOOLEAN, NEW t \in 0..MaxTime
  PROVE  /\ Entry(ok, t) \in HealthStates
         /\ Entry(ok, t) # NoEntry
         /\ Entry(ok, t).healthy = ok
         /\ Entry(ok, t).last_ok = t
<1>1. Entry(ok, t) \in HealthStates
  BY DEF Entry, HealthStates
<1>2. QED
  BY <1>1, NoValuesAssumption DEF Entry

\* The clock is a number within the bound.
LEMMA ClockIsNat == ASSUME TypeOK PROVE clock \in Nat /\ clock \in 0..MaxTime
BY BoundsAssumption DEF TypeOK

\* A reset connection is a connection.
LEMMA ResetType ==
  ASSUME NEW c \in ConnStates
  PROVE  Reset(c) \in ConnStates
BY DEF Reset, ConnStates

\* The backlog of a listener that goes away still holds connections.
LEMMA ResetBacklogType ==
  ASSUME TypeOK
  PROVE  ResetBacklog \in [Conns -> ConnStates \cup {NoConn}]
<1>1. ASSUME NEW k \in Conns, conn[k] # NoConn
      PROVE  Reset(conn[k]) \in ConnStates
  BY <1>1, ResetType DEF TypeOK
<1>2. QED
  BY <1>1 DEF ResetBacklog, TypeOK

\* What a query returns is a set of nodes.
LEMMA MatchingType ==
  ASSUME TypeOK, NEW labels
  PROVE  Matching(labels) \in SUBSET Nodes
BY DEF Matching, Node, Nodes, Rows, TypeOK

\* A caller keeps TypeOK.
LEMMA CallerType ==
  ASSUME TypeOK, NEW k \in Conns, Caller(k)
  PROVE  TypeOK'
<1>1. CASE GiveUp(k)
  <2>1. conn[k] \in ConnStates
    BY <1>1 DEF GiveUp, TypeOK
  <2>2. [conn[k] EXCEPT !.cli = "err"] \in ConnStates
    BY <2>1 DEF ConnStates
  <2>3. QED
    BY <1>1, <2>2 DEF GiveUp, TypeOK
<1>2. ASSUME NEW ip \in Ips, NEW r \in Requests, Call(k, ip, r)
      PROVE  TypeOK'
  <2>1. [ip |-> ip, req |-> r,
         srv |-> IF listening THEN "backlog" ELSE "closed",
         cli |-> IF listening THEN "waiting" ELSE "err",
         answer |-> {}, took |-> FALSE] \in ConnStates
    BY DEF ConnStates
  <2>2. QED
    BY <1>2, <2>1 DEF Call, TypeOK
<1>3. QED
  BY <1>1, <1>2 DEF Caller

\* The server's steps for a connection keep TypeOK.
LEMMA HandlerType ==
  ASSUME TypeOK, NEW k \in Conns, Accept(k) \/ Handler(k) \/ Reply(k)
  PROVE  TypeOK'
<1> DEFINE c == conn[k]
<1>0. c \in ConnStates
  BY DEF TypeOK, Accept, Handler, Reply, ReadFails, Refuse, HandleRegister,
         HandleQuery, HandlerFails, AtServer
<1>1. CASE Accept(k)
  <2>1. [c EXCEPT !.srv = "accepted"] \in ConnStates
    BY <1>0 DEF ConnStates
  <2>2. QED
    BY <1>1, <2>1 DEF Accept, TypeOK
<1>2. CASE ReadFails(k)
  BY <1>0, <1>2, ResetType DEF ReadFails, TypeOK
<1>3. CASE Refuse(k)
  <2>1. [c EXCEPT !.srv = "error"] \in ConnStates
    BY <1>0 DEF ConnStates
  <2>2. QED
    BY <1>3, <2>1 DEF Refuse, TypeOK
<1>4. CASE HandleRegister(k)
  <2>1. [c EXCEPT !.srv = "ack", !.took = TRUE] \in ConnStates
    BY <1>0 DEF ConnStates
  <2>2. c.ip \in Ips
    BY <1>0 DEF ConnStates
  <2>3. c.req.info \in Infos
    BY <1>0, <1>4 DEF HandleRegister, StoreRegistration, ConnStates, Requests, Register, Query
  <2>4. clock \in 0..MaxTime /\ clock \in Nat
    BY BoundsAssumption DEF TypeOK
  <2>5. Entry(TRUE, clock) \in HealthStates
    BY <2>4 DEF Entry, HealthStates
  <2>6. QED
    BY <1>4, <2>1, <2>2, <2>3, <2>4, <2>5 DEF HandleRegister, StoreRegistration, TypeOK
<1>5. CASE HandleQuery(k)
  <2>1. [c EXCEPT !.srv = "result", !.answer = Matching(c.req.labels), !.took = TRUE]
          \in ConnStates
    BY <1>0, MatchingType DEF ConnStates
  <2>2. Reset(c) \in ConnStates
    BY <1>0, ResetType
  <2>3. QED
    BY <1>5, <2>1, <2>2 DEF HandleQuery, TypeOK
<1>6. CASE HandlerFails(k)
  BY <1>0, <1>6, ResetType DEF HandlerFails, TypeOK
<1>7. CASE Reply(k)
  <2>1. ASSUME NEW checked \in SUBSET c.answer
        PROVE  [c EXCEPT !.srv = "closed",
                         !.cli = IF c.srv = "error" THEN "err" ELSE "ok",
                         !.answer = checked] \in ConnStates
    BY <1>0 DEF ConnStates
  <2>2. [c EXCEPT !.srv = "closed", !.answer = {}] \in ConnStates
    BY <1>0 DEF ConnStates
  <2>3. QED
    BY <1>7, <2>1, <2>2 DEF Reply, TypeOK
<1>8. QED
  BY <1>1, <1>2, <1>3, <1>4, <1>5, <1>6, <1>7 DEF Handler

\* A probe loop keeps TypeOK.
LEMMA ProberType ==
  ASSUME TypeOK, NEW p \in Probers, Prober(p)
  PROVE  TypeOK'
<1> DEFINE me == probe[p]
<1>0. me \in ProbeStates /\ clock \in 0..MaxTime
  BY BoundsAssumption DEF TypeOK
<1>1. CASE ListNodes(p)
  <2>1. [ProbeAt("listed") EXCEPT !.todo = Rows] \in ProbeStates
    <3>1. 0 \in 0..MaxTime
      BY BoundsAssumption
    <3>2. QED
      BY <3>1 DEF ProbeAt, ProbeStates, Rows
  <2>2. QED
    BY <1>1, <2>1 DEF ListNodes, ProbeAt, TypeOK
<1>2. CASE ReadClock(p)
  <2>1. [me EXCEPT !.pc = "loop", !.now = clock] \in ProbeStates
    BY <1>0 DEF ProbeStates, TypeOK
  <2>2. QED
    BY <1>2, <2>1 DEF ReadClock, TypeOK
<1>3. ASSUME NEW ip \in Ips, NEW ok \in BOOLEAN, ProbeReturns(p, ip, ok)
      PROVE  TypeOK'
  <2>1. [me EXCEPT !.pc = "apply", !.todo = @ \ {ip}, !.cur = ip, !.ok = ok] \in ProbeStates
    BY <1>0 DEF ProbeStates
  <2>2. QED
    BY <1>3, <2>1 DEF ProbeReturns, TypeOK
<1>4. CASE ApplyResult(p)
  <2> DEFINE entry == EntryOrNew(me.cur, me.now)
  <2>1. me.cur \in Ips /\ me.now \in 0..MaxTime /\ me.ok \in BOOLEAN
    BY <1>0, <1>4 DEF ApplyResult, ProberAt, ProbeStates, TypeOK
  <2>2. Updated(entry, me.ok, me.now) \in HealthStates
    BY <2>1 DEF EntryOrNew, Updated, Entry, HealthStates, TypeOK
  <2>3. health' \in [Ips -> HealthStates \cup {NoEntry}]
    BY <1>4, <2>1, <2>2 DEF ApplyResult, TypeOK
  <2>4. [me EXCEPT !.pc = "loop", !.cur = NoIp, !.ok = FALSE,
                   !.expired = IF ~me.ok /\ Expires(entry, me.now)
                                 THEN @ \cup {me.cur} ELSE @] \in ProbeStates
    BY <1>0, <2>1 DEF ProbeStates
  <2>5. QED
    BY <1>4, <2>3, <2>4 DEF ApplyResult, TypeOK
<1>5. CASE RemoveExpired(p)
  <2>1. ProbeAt("idle") \in ProbeStates
    BY BoundsAssumption DEF ProbeAt, ProbeStates
  <2>2. QED
    BY <1>5, <2>1 DEF RemoveExpired, Remove, Without, ProbeAt, TypeOK
<1>6. QED
  BY <1>1, <1>2, <1>3, <1>4, <1>5 DEF Prober

\* The process, its accept loop and the clock keep TypeOK.
LEMMA ProcessType ==
  ASSUME TypeOK, AcceptFails \/ AbortHandle \/ Crash \/ Boot \/ Tick
  PROVE  TypeOK'
<1>0. \A pc \in {"idle", "stopped"} : ProbeAt(pc) \in ProbeStates /\ ProbeAt(pc).pc = pc
  BY BoundsAssumption DEF ProbeAt, ProbeStates
<1>1. CASE AcceptFails
  BY <1>0, <1>1, ResetBacklogType DEF AcceptFails, TypeOK
<1>2. CASE AbortHandle
  BY <1>2, ResetBacklogType DEF AbortHandle, TypeOK
<1>3. CASE Crash
  <2>1. ASSUME NEW k \in Conns, conn[k] # NoConn
        PROVE  Reset(conn[k]) \in ConnStates
    BY <2>1, ResetType DEF TypeOK
  <2>2. conn' \in [Conns -> ConnStates \cup {NoConn}]
    BY <1>3, <2>1 DEF Crash, CrashLosing, TypeOK
  <2>3. store' \in [Ips -> Infos \cup {NoRow}]
    BY <1>3 DEF Crash, CrashLosing, Without, TypeOK
  <2>4. crashes' \in 0..MaxCrashes
    BY <1>3, BoundsAssumption DEF Crash, CrashLosing, TypeOK
  <2>5. QED
    BY <1>0, <1>3, <2>2, <2>3, <2>4 DEF Crash, CrashLosing, TypeOK
<1>4. CASE Boot
  <2>1. Entry(FALSE, clock) \in HealthStates
    BY ClockIsNat, EntryFacts
  <2>2. QED
    BY <1>0, <1>4, <2>1 DEF Boot, BootWith, TypeOK
<1>5. CASE Tick
  BY <1>5, BoundsAssumption DEF Tick, TypeOK
<1>6. QED
  BY <1>1, <1>2, <1>3, <1>4, <1>5

\* Every reachable state is well typed: the type invariant of the server.
THEOREM Typing == Spec => []TypeOK
<1>1. Init => TypeOK
  BY BoundsAssumption DEF Init, TypeOK, ProbeAt, ProbeStates
<1>2. TypeOK /\ [Next]_vars => TypeOK'
  <2> SUFFICES ASSUME TypeOK, [Next]_vars PROVE TypeOK'
    OBVIOUS
  <2>1. CASE UNCHANGED vars
    BY <2>1 DEF vars, TypeOK
  <2>2. CASE Next
    BY <2>2, CallerType, HandlerType, ProberType, ProcessType DEF Next
  <2>3. QED
    BY <2>1, <2>2
<1>3. QED
  BY <1>1, <1>2, PTL DEF Spec

-----------------------------------------------------------------------------
(* Rows and health entries.  Each invariant is preserved by the handful of *)
(* actions that touch the table or the map; every other action leaves them *)
(* alone, which the next lemma says once.                                  *)

Quiet == UNCHANGED <<store, health, up, confirmed>>

\* Only these actions change a row, an entry, the process or what is confirmed.
LEMMA WhoWrites ==
  ASSUME [Next]_vars
  PROVE  \/ Quiet
         \/ \E k \in Conns : HandleRegister(k)
         \/ \E p \in Probers : \/ \E ip \in Ips, ok \in BOOLEAN : ProbeReturns(p, ip, ok)
                               \/ ApplyResult(p)
                               \/ RemoveExpired(p)
         \/ Crash
         \/ Boot
<1>1. CASE UNCHANGED vars
  BY <1>1 DEF vars, Quiet
<1>2. ASSUME NEW k \in Conns, Caller(k) \/ Accept(k) \/ Handler(k) \/ Reply(k)
      PROVE  Quiet \/ HandleRegister(k)
  BY <1>2 DEF Caller, GiveUp, Call, Accept, Handler, ReadFails, Refuse,
              HandleQuery, HandlerFails, Reply, Quiet
<1>3. ASSUME NEW p \in Probers, ListNodes(p) \/ ReadClock(p)
      PROVE  Quiet
  BY <1>3 DEF ListNodes, ReadClock, Quiet
<1>4. CASE AcceptFails \/ AbortHandle \/ Tick
  BY <1>4 DEF AcceptFails, AbortHandle, Tick, Quiet
<1>5. QED
  BY <1>1, <1>2, <1>3, <1>4 DEF Next, Prober

\* The entry that ApplyResult writes is an entry.
LEMMA UpdatedIsEntry ==
  ASSUME TypeOK, NEW p \in Probers, ApplyResult(p)
  PROVE  /\ probe[p].cur \in Ips
         /\ health'[probe[p].cur] \in HealthStates
         /\ health'[probe[p].cur] # NoEntry
         /\ health'[probe[p].cur].healthy = probe[p].ok
<1>1. probe[p].cur \in Ips /\ probe[p].now \in 0..MaxTime /\ probe[p].ok \in BOOLEAN
  BY DEF ApplyResult, ProberAt, ProbeStates, TypeOK
<1> DEFINE old == EntryOrNew(probe[p].cur, probe[p].now)
           t   == IF probe[p].ok THEN probe[p].now ELSE old.last_ok
<1>2. old \in HealthStates
  BY <1>1, EntryFacts DEF EntryOrNew, TypeOK
<1>3. t \in 0..MaxTime
  BY <1>1, <1>2 DEF HealthStates
<1>4. Updated(old, probe[p].ok, probe[p].now) = Entry(probe[p].ok, t)
  BY <1>1 DEF Updated
<1>5. health'[probe[p].cur] = Entry(probe[p].ok, t)
  BY <1>1, <1>4 DEF ApplyResult, TypeOK
<1> HIDE DEF t
<1>6. QED
  BY <1>1, <1>3, <1>5, EntryFacts

\* Where each step of a probe loop leaves it.
LEMMA ProberPc ==
  ASSUME TypeOK, NEW p \in Probers
  PROVE  /\ ListNodes(p) => probe'[p].pc = "listed"
         /\ ReadClock(p) => probe'[p].pc = "loop"
         /\ ApplyResult(p) => probe'[p].pc = "loop"
         /\ RemoveExpired(p) => probe'[p].pc = "idle"
<1>0. probe[p] \in ProbeStates
  BY DEF TypeOK
<1>1. ListNodes(p) => probe'[p].pc = "listed"
  BY DEF ListNodes, ProbeAt, TypeOK
<1>2. ReadClock(p) => probe'[p].pc = "loop"
  BY <1>0 DEF ReadClock, ProbeStates, TypeOK
<1>3. ApplyResult(p) => probe'[p].pc = "loop"
  BY <1>0 DEF ApplyResult, ProbeStates, TypeOK
<1>4. RemoveExpired(p) => probe'[p].pc = "idle"
  BY DEF RemoveExpired, Remove, ProbeAt, TypeOK
<1>5. QED
  BY <1>1, <1>2, <1>3, <1>4

\* What applying a result does to the loop.
LEMMA ApplyFacts ==
  ASSUME TypeOK, NEW p \in Probers, ApplyResult(p)
  PROVE  /\ probe[p].pc = "apply" /\ probe[p].cur \in Ips
         /\ probe'[p].pc = "loop"
         /\ probe'[p].todo = probe[p].todo /\ probe'[p].now = probe[p].now
         /\ probe'[p].expired =
              IF ~probe[p].ok /\ Expires(EntryOrNew(probe[p].cur, probe[p].now), probe[p].now)
                THEN probe[p].expired \cup {probe[p].cur} ELSE probe[p].expired
         /\ \A q \in Probers : q # p => probe'[q] = probe[q]
         /\ \A ip \in Ips : ip # probe[p].cur => health'[ip] = health[ip]
<1>1. probe[p] \in ProbeStates /\ probe[p].pc = "apply" /\ probe[p].cur \in Ips
  BY DEF ApplyResult, ProberAt, TypeOK
<1>2. probe'[p].pc = "loop" /\ probe'[p].todo = probe[p].todo /\ probe'[p].now = probe[p].now
  BY <1>1 DEF ApplyResult, TypeOK, ProbeStates
<1>3. probe'[p].expired =
        IF ~probe[p].ok /\ Expires(EntryOrNew(probe[p].cur, probe[p].now), probe[p].now)
          THEN probe[p].expired \cup {probe[p].cur} ELSE probe[p].expired
  BY <1>1 DEF ApplyResult, TypeOK, ProbeStates
<1>4. /\ \A q \in Probers : q # p => probe'[q] = probe[q]
      /\ \A ip \in Ips : ip # probe[p].cur => health'[ip] = health[ip]
  BY <1>1 DEF ApplyResult, TypeOK
<1>5. QED
  BY <1>1, <1>2, <1>3, <1>4

\* A boot and a crash put every probe loop at one place; a failing accept does
\* that to the loop of run_and_notify and leaves the table and the map alone.
LEMMA ProbersReset ==
  ASSUME TypeOK, NEW p \in Probers, AcceptFails \/ Crash \/ Boot
  PROVE  \/ probe'[p].pc \in {"idle", "stopped"} /\ probe'[p].todo = {} /\ probe'[p].expired = {}
         \/ probe'[p] = probe[p] /\ UNCHANGED <<store, health, clock, regAt, confirmed>>
<1>1. \/ probe'[p] = ProbeAt("idle") \/ probe'[p] = ProbeAt("stopped")
      \/ probe'[p] = probe[p] /\ AcceptFails
  BY DEF AcceptFails, Crash, CrashLosing, Boot, BootWith, TypeOK
<1>2. QED
  BY <1>1 DEF ProbeAt, AcceptFails

\* RowHasHealth for every number of probe loops and every failing statement:
\* no interleaving of registrations, probes, removals and crashes leaves a row
\* that handle_query can never show.
THEOREM RowsAreTracked == Spec => []RowHasHealth
<1>1. Init => RowHasHealth
  BY DEF Init, RowHasHealth
<1>2. TypeOK /\ TypeOK' /\ RowHasHealth /\ [Next]_vars => RowHasHealth'
  <2> SUFFICES ASSUME TypeOK, TypeOK', RowHasHealth, [Next]_vars
               PROVE  RowHasHealth'
    OBVIOUS
  <2>1. CASE Quiet
    BY <2>1 DEF Quiet, RowHasHealth
  <2>2. ASSUME NEW k \in Conns, HandleRegister(k) PROVE RowHasHealth'
    <3>1. Entry(TRUE, clock) # NoEntry
      BY ClockIsNat, EntryFacts
    <3>2. QED
      BY <2>2, <3>1 DEF HandleRegister, StoreRegistration, RowHasHealth, TypeOK
  <2>3. ASSUME NEW p \in Probers, NEW ip \in Ips, NEW ok \in BOOLEAN, ProbeReturns(p, ip, ok)
        PROVE  RowHasHealth'
    BY <2>3 DEF ProbeReturns, RowHasHealth
  <2>4. ASSUME NEW p \in Probers, ApplyResult(p) PROVE RowHasHealth'
    BY <2>4, UpdatedIsEntry DEF ApplyResult, RowHasHealth, TypeOK
  <2>5. ASSUME NEW p \in Probers, RemoveExpired(p) PROVE RowHasHealth'
    BY <2>5 DEF RemoveExpired, Remove, Without, RowHasHealth
  <2>6. CASE Crash
    BY <2>6 DEF Crash, CrashLosing, RowHasHealth
  <2>7. CASE Boot
    <3>1. Entry(FALSE, clock) # NoEntry
      BY ClockIsNat, EntryFacts
    <3>2. QED
      BY <2>7, <3>1 DEF Boot, BootWith, RowHasHealth
  <2>8. QED
    BY <2>1, <2>2, <2>3, <2>4, <2>5, <2>6, <2>7, WhoWrites
<1>3. QED
  BY <1>1, <1>2, Typing, PTL DEF Spec

\* What HealthySinceBoot needs to be inductive: a result that waits to be
\* applied as a success has been confirmed.
PendingConfirmed ==
  \A p \in Probers : probe[p].pc = "apply" /\ probe[p].ok => probe[p].cur \in confirmed

\* HealthySinceBoot for every number of probe loops: after a crash nothing is
\* shown as healthy on the word of an earlier life of the process.
THEOREM NothingHealthyUnconfirmed == Spec => []HealthySinceBoot
<1> DEFINE Inv == HealthySinceBoot /\ PendingConfirmed
<1>1. Init => Inv
  BY DEF Init, HealthySinceBoot, PendingConfirmed, IsHealthy, ProbeAt
<1>2. TypeOK /\ Inv /\ [Next]_vars => Inv'
  <2> SUFFICES ASSUME TypeOK, HealthySinceBoot, PendingConfirmed, [Next]_vars
               PROVE  Inv'
    OBVIOUS
  <2>1. HealthySinceBoot'
    <3>1. CASE Quiet
      BY <3>1 DEF Quiet, HealthySinceBoot, IsHealthy
    <3>2. ASSUME NEW k \in Conns, HandleRegister(k) PROVE HealthySinceBoot'
      BY <3>2 DEF HandleRegister, StoreRegistration, HealthySinceBoot, IsHealthy, TypeOK
    <3>3. ASSUME NEW p \in Probers, NEW ip \in Ips, NEW ok \in BOOLEAN, ProbeReturns(p, ip, ok)
          PROVE  HealthySinceBoot'
      BY <3>3 DEF ProbeReturns, HealthySinceBoot, IsHealthy
    <3>4. ASSUME NEW p \in Probers, ApplyResult(p) PROVE HealthySinceBoot'
      <4>1. \A ip \in Ips : ip # probe[p].cur => health'[ip] = health[ip]
        BY <3>4 DEF ApplyResult, TypeOK
      <4>2. health'[probe[p].cur].healthy => probe[p].cur \in confirmed
        BY <3>4, UpdatedIsEntry DEF ApplyResult, ProberAt, PendingConfirmed
      <4>3. confirmed' = confirmed
        BY <3>4 DEF ApplyResult
      <4>4. QED
        BY <4>1, <4>2, <4>3 DEF HealthySinceBoot, IsHealthy
    <3>5. ASSUME NEW p \in Probers, RemoveExpired(p) PROVE HealthySinceBoot'
      BY <3>5 DEF RemoveExpired, Remove, Without, HealthySinceBoot, IsHealthy
    <3>6. CASE Crash
      BY <3>6 DEF Crash, CrashLosing, HealthySinceBoot, IsHealthy
    <3>7. CASE Boot
      BY <3>7, ClockIsNat, EntryFacts DEF Boot, BootWith, HealthySinceBoot, IsHealthy
    <3>8. QED
      BY <3>1, <3>2, <3>3, <3>4, <3>5, <3>6, <3>7, WhoWrites
  <2>2. PendingConfirmed'
    <3>1. CASE probe' = probe /\ confirmed \subseteq confirmed'
      BY <3>1 DEF PendingConfirmed
    <3>2. ASSUME NEW p \in Probers, Prober(p) PROVE PendingConfirmed'
      <4>1. confirmed \subseteq confirmed'
        BY <3>2 DEF Prober, ListNodes, ReadClock, ProbeReturns, ApplyResult, RemoveExpired, Remove
      <4>2. \A q \in Probers : q # p => probe'[q] = probe[q]
        BY <3>2 DEF Prober, ListNodes, ReadClock, ProbeReturns, ApplyResult, RemoveExpired,
                    Remove, TypeOK
      <4>3. probe'[p].pc = "apply" /\ probe'[p].ok => probe'[p].cur \in confirmed'
        <5>1. ASSUME NEW ip \in Ips, NEW ok \in BOOLEAN, ProbeReturns(p, ip, ok)
              PROVE  probe'[p].ok => probe'[p].cur \in confirmed'
          BY <5>1 DEF ProbeReturns, TypeOK, ProbeStates
        <5>2. ListNodes(p) \/ ReadClock(p) \/ ApplyResult(p) \/ RemoveExpired(p)
                => probe'[p].pc # "apply"
          BY ProberPc
        <5>3. QED
          BY <3>2, <5>1, <5>2 DEF Prober
      <4>4. QED
        BY <4>1, <4>2, <4>3 DEF PendingConfirmed
    <3>3. CASE AcceptFails \/ Crash \/ Boot
      <4>1. \A p \in Probers : \/ probe'[p].pc # "apply"
                               \/ probe'[p] = probe[p] /\ confirmed' = confirmed
        BY <3>3, ProbersReset
      <4>2. QED
        BY <4>1 DEF PendingConfirmed
    <3>4. CASE AbortHandle \/ Tick
      BY <3>4 DEF AbortHandle, Tick, PendingConfirmed
    <3>5. ASSUME NEW k \in Conns, Caller(k) \/ Accept(k) \/ Handler(k) \/ Reply(k)
          PROVE  probe' = probe /\ confirmed \subseteq confirmed'
      BY <3>5 DEF Caller, GiveUp, Call, Accept, Handler, ReadFails, Refuse,
                  HandleRegister, StoreRegistration, HandleQuery, HandlerFails, Reply
    <3>6. QED
      BY <3>1, <3>2, <3>3, <3>4, <3>5 DEF Next, vars
  <2>3. QED
    BY <2>1, <2>2
<1>3. QED
  BY <1>1, <1>2, Typing, PTL DEF Spec

\* RowsHaveLabels: the check of handle_register is the only way in.
THEOREM EveryRowCanBeFound == Spec => []RowsHaveLabels
<1>1. Init => RowsHaveLabels
  BY DEF Init, RowsHaveLabels, Rows
<1>2. TypeOK /\ RowsHaveLabels /\ [Next]_vars => RowsHaveLabels'
  <2> SUFFICES ASSUME TypeOK, RowsHaveLabels, [Next]_vars PROVE RowsHaveLabels'
    OBVIOUS
  <2>1. CASE store' = store
    BY <2>1 DEF RowsHaveLabels, Rows
  <2>2. ASSUME NEW k \in Conns, HandleRegister(k) PROVE RowsHaveLabels'
    <3>1. conn[k] \in ConnStates /\ LabelsOf[conn[k].req.info] # {}
      BY <2>2 DEF HandleRegister, StoreRegistration, LabelsIn, TypeOK
    <3>2. store' = [store EXCEPT ![conn[k].ip] = conn[k].req.info]
      BY <2>2 DEF HandleRegister, StoreRegistration
    <3>3. QED
      BY <3>1, <3>2 DEF RowsHaveLabels, Rows, TypeOK
  <2>3. ASSUME NEW gone, store' = Without(store, gone, NoRow) PROVE RowsHaveLabels'
    BY <2>3 DEF Without, RowsHaveLabels, Rows
  <2>4. QED
    BY <2>1, <2>2, <2>3, WhoWrites
       DEF Quiet, ProbeReturns, ApplyResult, RemoveExpired, Remove, Crash, CrashLosing, Boot, BootWith
<1>3. QED
  BY <1>1, <1>2, Typing, PTL DEF Spec

-----------------------------------------------------------------------------
(* With one probe loop, which is what run starts, more holds: nobody else  *)
(* removes a row while a cycle is between its critical sections.           *)

OneProbeLoop == \A p, q \in Probers : p = q

\* The nodes a cycle has still to probe, to judge or to remove are in the table.
PendingHasRow ==
  \A p \in Probers : /\ \A ip \in probe[p].todo \cup probe[p].expired : store[ip] # NoRow
                     /\ probe[p].pc = "apply" => store[probe[p].cur] # NoRow

\* The steps of connections that leave the table, the map and the loops alone.
LEMMA ConnectionSteps ==
  ASSUME NEW k \in Conns, Caller(k) \/ Accept(k) \/ Handler(k) \/ Reply(k), ~HandleRegister(k)
  PROVE  UNCHANGED <<store, health, clock, up, probe, regAt, since, confirmed>>
BY DEF Caller, GiveUp, Call, Accept, Handler, ReadFails, Refuse, HandleQuery,
       HandlerFails, Reply

\* What a registration does to the table and the map.
LEMMA RegistrationStep ==
  ASSUME TypeOK, NEW k \in Conns, HandleRegister(k)
  PROVE  \E ip \in Ips, info \in Infos :
            /\ store' = [store EXCEPT ![ip] = info]
            /\ health' = [health EXCEPT ![ip] = Entry(TRUE, clock)]
            /\ regAt' = [regAt EXCEPT ![ip] = clock]
            /\ since' = [since EXCEPT ![ip] = IF store[ip] = NoRow THEN clock ELSE @]
            /\ UNCHANGED <<clock, probe>>
<1>1. conn[k] \in ConnStates /\ conn[k].req.kind = "register"
  BY DEF HandleRegister, StoreRegistration, TypeOK
<1>2. conn[k].ip \in Ips /\ conn[k].req.info \in Infos
  BY <1>1 DEF ConnStates, Requests, Register, Query
<1>3. QED
  BY <1>2 DEF HandleRegister, StoreRegistration

\* HealthHasRow with what makes it inductive.
LEMMA RowsInHand ==
  ASSUME OneProbeLoop
  PROVE  Spec => [](HealthHasRow /\ PendingHasRow)
<1> DEFINE Inv == HealthHasRow /\ PendingHasRow
<1>1. Init => Inv
  BY DEF Init, HealthHasRow, PendingHasRow, ProbeAt
<1>2. TypeOK /\ Inv /\ [Next]_vars => Inv'
  <2> SUFFICES ASSUME TypeOK, HealthHasRow, PendingHasRow, [Next]_vars
               PROVE  Inv'
    OBVIOUS
  <2>1. CASE UNCHANGED <<store, health, probe>>
    BY <2>1 DEF HealthHasRow, PendingHasRow
  <2>2. ASSUME NEW k \in Conns, HandleRegister(k) PROVE Inv'
    <3>1. PICK ip \in Ips, info \in Infos :
            /\ store' = [store EXCEPT ![ip] = info]
            /\ health' = [health EXCEPT ![ip] = Entry(TRUE, clock)]
            /\ probe' = probe
      BY <2>2, RegistrationStep
    <3>2. \A i \in Ips : store[i] # NoRow => store'[i] # NoRow
      BY <3>1, NullsAssumption DEF TypeOK
    <3>3. HealthHasRow'
      BY <3>1, <3>2, NullsAssumption DEF HealthHasRow, TypeOK
    <3>4. \A p \in Probers : /\ probe[p].todo \cup probe[p].expired \subseteq Ips
                             /\ probe[p].pc = "apply" => probe[p].cur \in Ips
      BY DEF TypeOK, ProbeStates
    <3>5. PendingHasRow'
      BY <3>1, <3>2, <3>4 DEF PendingHasRow
    <3>6. QED
      BY <3>3, <3>5
  <2>3. ASSUME NEW p \in Probers, Prober(p) PROVE Inv'
    <3>0. \A q \in Probers : q = p
      BY OneProbeLoop DEF OneProbeLoop
    <3>1. CASE ListNodes(p)
      <4>1. probe'[p].todo = Rows /\ probe'[p].expired = {} /\ probe'[p].pc = "listed"
        BY <3>1, ProberPc DEF ListNodes, ProbeAt, TypeOK
      <4>2. store' = store /\ health' = health
        BY <3>1 DEF ListNodes
      <4>3. QED
        BY <3>0, <4>1, <4>2 DEF Rows, HealthHasRow, PendingHasRow
    <3>2. CASE ReadClock(p)
      <4>1. /\ probe'[p].todo = probe[p].todo /\ probe'[p].expired = probe[p].expired
            /\ probe'[p].pc = "loop"
        BY <3>2, ProberPc DEF ReadClock, TypeOK, ProbeStates
      <4>2. store' = store /\ health' = health
        BY <3>2 DEF ReadClock
      <4>3. QED
        BY <3>0, <4>1, <4>2 DEF HealthHasRow, PendingHasRow
    <3>3. ASSUME NEW ip \in Ips, NEW ok \in BOOLEAN, ProbeReturns(p, ip, ok) PROVE Inv'
      <4>1. /\ probe'[p].todo \subseteq probe[p].todo /\ probe'[p].cur = ip /\ ip \in probe[p].todo
            /\ probe'[p].expired = probe[p].expired
        BY <3>3 DEF ProbeReturns, TypeOK, ProbeStates
      <4>2. store' = store /\ health' = health
        BY <3>3 DEF ProbeReturns
      <4>3. QED
        BY <3>0, <4>1, <4>2 DEF HealthHasRow, PendingHasRow
    <3>4. CASE ApplyResult(p)
      <4>1. /\ probe'[p].todo = probe[p].todo /\ probe'[p].pc = "loop"
            /\ probe'[p].expired \subseteq probe[p].expired \cup {probe[p].cur}
            /\ \A ip \in Ips : ip # probe[p].cur => health'[ip] = health[ip]
        BY <3>4, ApplyFacts
      <4>2. store' = store /\ store[probe[p].cur] # NoRow
        BY <3>4 DEF ApplyResult, ProberAt, PendingHasRow
      <4>3. QED
        BY <3>0, <4>1, <4>2 DEF HealthHasRow, PendingHasRow
    <3>5. CASE RemoveExpired(p)
      <4>1. probe'[p].todo = {} /\ probe'[p].expired = {} /\ probe'[p].pc = "idle"
        BY <3>5, ProberPc DEF RemoveExpired, Remove, ProbeAt, TypeOK
      <4>2. HealthHasRow'
        BY <3>5 DEF RemoveExpired, Remove, Without, HealthHasRow
      <4>3. QED
        BY <3>0, <4>1, <4>2 DEF PendingHasRow
    <3>6. QED
      BY <2>3, <3>1, <3>2, <3>3, <3>4, <3>5 DEF Prober
  <2>4. CASE AcceptFails \/ Crash \/ Boot
    <3>1. PendingHasRow'
      BY <2>4, ProbersReset DEF PendingHasRow
    <3>2. HealthHasRow'
      BY <2>4 DEF AcceptFails, Crash, CrashLosing, Boot, BootWith, HealthHasRow
    <3>3. QED
      BY <3>1, <3>2
  <2>5. CASE AbortHandle \/ Tick
    BY <2>1, <2>5 DEF AbortHandle, Tick
  <2>6. QED
    BY <2>1, <2>2, <2>3, <2>4, <2>5, ConnectionSteps DEF Next, vars
<1>3. QED
  BY <1>1, <1>2, Typing, PTL DEF Spec

\* HealthHasRow when there is one probe loop: its or_insert never makes an
\* entry for a node that has left the table.
THEOREM NoEntryOutlivesItsRow ==
  ASSUME OneProbeLoop
  PROVE  Spec => []HealthHasRow
BY RowsInHand, PTL

\* The nodes a cycle has not judged yet.
Pending(p, ip) == ip \in probe[p].todo \/ (probe[p].pc = "apply" /\ ip = probe[p].cur)

\* No registration is in the future, and neither is the clock of a cycle.
TimesPast == /\ \A ip \in Ips : regAt[ip] <= clock
             /\ \A p \in Probers : probe[p].pc \in {"loop", "apply"} => probe[p].now <= clock

\* A node that registered after the cycle read its clock carries that time, or
\* a later one, in its entry until the cycle judges it.
FreshKnown ==
  \A p \in Probers, ip \in Ips :
    (probe[p].pc \in {"loop", "apply"} /\ Pending(p, ip) /\ regAt[ip] > probe[p].now)
      => health[ip] # NoEntry /\ health[ip].last_ok >= probe[p].now

\* A node is judged once in a cycle.
JudgedOnce == \A p \in Probers : probe[p].pc = "apply" => probe[p].cur \notin probe[p].todo

FreshInv == TimesPast /\ FreshKnown /\ JudgedOnce

\* A probe loop's step keeps FreshInv when it is the only loop.
LEMMA FreshProber ==
  ASSUME OneProbeLoop, TypeOK, FreshInv, NEW p \in Probers, Prober(p)
  PROVE  FreshInv'
<1>0. /\ \A q \in Probers : q = p
      /\ probe[p] \in ProbeStates
      /\ clock \in Nat
      /\ \A ip \in Ips : regAt[ip] \in Nat
  BY OneProbeLoop, BoundsAssumption DEF OneProbeLoop, TypeOK
<1>1. CASE ListNodes(p)
  <2>1. probe'[p].pc = "listed" /\ UNCHANGED <<clock, regAt>>
    BY <1>1, ProberPc DEF ListNodes
  <2>2. QED
    BY <1>0, <2>1 DEF FreshInv, TimesPast, FreshKnown, JudgedOnce
<1>2. CASE ReadClock(p)
  <2>1. /\ probe'[p].pc = "loop" /\ probe'[p].now = clock
        /\ UNCHANGED <<clock, regAt>>
    BY <1>0, <1>2, ProberPc DEF ReadClock, TypeOK, ProbeStates
  <2>2. QED
    BY <1>0, <2>1 DEF FreshInv, TimesPast, FreshKnown, JudgedOnce
<1>3. ASSUME NEW ip \in Ips, NEW ok \in BOOLEAN, ProbeReturns(p, ip, ok)
      PROVE  FreshInv'
  <2>1. /\ probe[p].pc = "loop" /\ ip \in probe[p].todo
        /\ probe'[p].pc = "apply" /\ probe'[p].cur = ip
        /\ probe'[p].todo = probe[p].todo \ {ip} /\ probe'[p].now = probe[p].now
        /\ UNCHANGED <<clock, regAt, health>>
    BY <1>0, <1>3 DEF ProbeReturns, ProberAt, TypeOK, ProbeStates
  <2>2. QED
    BY <1>0, <2>1 DEF FreshInv, TimesPast, FreshKnown, JudgedOnce, Pending
<1>4. CASE ApplyResult(p)
  <2>1. /\ probe[p].pc = "apply" /\ probe'[p].pc = "loop"
        /\ probe'[p].todo = probe[p].todo /\ probe'[p].now = probe[p].now
    BY <1>4, ApplyFacts
  <2>2. /\ \A ip \in Ips : ip # probe[p].cur => health'[ip] = health[ip]
        /\ UNCHANGED <<clock, regAt>>
    BY <1>4, ApplyFacts DEF ApplyResult
  <2>3. QED
    BY <1>0, <2>1, <2>2 DEF FreshInv, TimesPast, FreshKnown, JudgedOnce, Pending
<1>5. CASE RemoveExpired(p)
  <2>1. probe'[p].pc = "idle" /\ UNCHANGED <<clock, regAt>>
    BY <1>5, ProberPc DEF RemoveExpired, Remove
  <2>2. QED
    BY <1>0, <2>1 DEF FreshInv, TimesPast, FreshKnown, JudgedOnce
<1>6. QED
  BY <1>1, <1>2, <1>3, <1>4, <1>5 DEF Prober

\* FreshRegistrationNotMarked when there is one probe loop: the older clock
\* reading of a cycle never expires a node that registered after it.
THEOREM FreshRegistrationIsSafe ==
  ASSUME OneProbeLoop
  PROVE  Spec => FreshRegistrationNotMarked
<1>1. Init => FreshInv
  BY DEF Init, FreshInv, TimesPast, FreshKnown, JudgedOnce, ProbeAt
<1>2. TypeOK /\ FreshInv /\ [Next]_vars => FreshInv'
  <2> SUFFICES ASSUME TypeOK, FreshInv, [Next]_vars PROVE FreshInv'
    OBVIOUS
  <2>0. clock \in Nat /\ \A ip \in Ips : regAt[ip] \in Nat
    BY BoundsAssumption DEF TypeOK
  <2>1. CASE UNCHANGED <<health, clock, probe, regAt>>
    BY <2>1 DEF FreshInv, TimesPast, FreshKnown, JudgedOnce, Pending
  <2>2. ASSUME NEW k \in Conns, HandleRegister(k) PROVE FreshInv'
    <3>1. PICK ip \in Ips :
            /\ health' = [health EXCEPT ![ip] = Entry(TRUE, clock)]
            /\ regAt' = [regAt EXCEPT ![ip] = clock]
            /\ UNCHANGED <<clock, probe>>
      BY <2>2, RegistrationStep
    <3>2. health'[ip] = Entry(TRUE, clock) /\ regAt'[ip] = clock
      BY <3>1 DEF TypeOK
    <3>3. \A i \in Ips : i # ip => health'[i] = health[i] /\ regAt'[i] = regAt[i]
      BY <3>1 DEF TypeOK
    <3>4. Entry(TRUE, clock) # NoEntry /\ Entry(TRUE, clock).last_ok = clock
      BY ClockIsNat, EntryFacts
    <3>5. TimesPast'
      BY <2>0, <3>1, <3>2, <3>3 DEF FreshInv, TimesPast
    <3>6. FreshKnown'
      BY <2>0, <3>1, <3>2, <3>3, <3>4 DEF FreshInv, TimesPast, FreshKnown, Pending
    <3>7. QED
      BY <3>1, <3>5, <3>6 DEF FreshInv, JudgedOnce
  <2>3. ASSUME NEW p \in Probers, Prober(p) PROVE FreshInv'
    BY <2>3, OneProbeLoop, FreshProber
  <2>4. CASE AcceptFails \/ Crash \/ Boot
    <3>1. UNCHANGED <<clock, regAt>>
      BY <2>4 DEF AcceptFails, Crash, CrashLosing, Boot, BootWith
    <3>2. \A p \in Probers :
            \/ probe'[p].pc \notin {"loop", "apply"} /\ probe'[p].todo = {}
            \/ probe'[p] = probe[p] /\ health' = health
      BY <2>4, ProbersReset
    <3>3. TimesPast' /\ JudgedOnce'
      BY <3>1, <3>2 DEF FreshInv, TimesPast, JudgedOnce
    <3>4. FreshKnown'
      BY <3>1, <3>2 DEF FreshInv, FreshKnown, Pending
    <3>5. QED
      BY <3>3, <3>4 DEF FreshInv
  <2>5. CASE AbortHandle
    BY <2>1, <2>5 DEF AbortHandle
  <2>6. CASE Tick
    <3>1. clock' = clock + 1 /\ UNCHANGED <<health, probe, regAt>>
      BY <2>6 DEF Tick
    <3>2. \A p \in Probers : probe[p].now \in Nat
      BY DEF TypeOK, ProbeStates
    <3>3. QED
      BY <2>0, <3>1, <3>2 DEF FreshInv, TimesPast, FreshKnown, JudgedOnce, Pending
  <2>7. QED
    BY <2>1, <2>2, <2>3, <2>4, <2>5, <2>6, ConnectionSteps DEF Next, vars
<1>3. TypeOK /\ FreshInv /\ [Next]_vars
        => [\A p \in Probers, ip \in Ips :
              ip \in probe'[p].expired \ probe[p].expired => regAt[ip] <= probe[p].now]_vars
  <2> SUFFICES ASSUME TypeOK, FreshInv, Next,
                      NEW p \in Probers, NEW ip \in Ips,
                      ip \in probe'[p].expired, ip \notin probe[p].expired
               PROVE  regAt[ip] <= probe[p].now
    BY DEF vars
  <2>0. /\ regAt[ip] \in Nat /\ probe[p].now \in Nat /\ probe[p] \in ProbeStates
        /\ OfflineTTL \in Nat \ {0}
    BY BoundsAssumption, TTLAssumption DEF TypeOK, ProbeStates
  <2>1. probe' # probe
    OBVIOUS
  <2>2. probe'[p].expired # {} /\ probe'[p] # probe[p]
    OBVIOUS
  <2>3. PICK q \in Probers : Prober(q)
    <3>1. ~(AcceptFails \/ Crash \/ Boot)
      BY <2>2, ProbersReset
    <3>2. ASSUME NEW k \in Conns, HandleRegister(k) PROVE FALSE
      BY <2>1, <3>2 DEF HandleRegister, StoreRegistration
    <3>3. QED
      BY <2>1, <3>1, <3>2, ConnectionSteps DEF Next, AbortHandle, Tick
  <2>4. q = p
    BY OneProbeLoop DEF OneProbeLoop
  <2>5. ~(ListNodes(p) \/ RemoveExpired(p))
    BY <2>2 DEF ListNodes, RemoveExpired, Remove, ProbeAt, TypeOK
  <2>6. ~ReadClock(p) /\ ~(\E i \in Ips, ok \in BOOLEAN : ProbeReturns(p, i, ok))
    <3>1. ReadClock(p) => probe'[p].expired = probe[p].expired
      BY <2>0 DEF ReadClock, TypeOK, ProbeStates
    <3>2. ASSUME NEW i \in Ips, NEW ok \in BOOLEAN, ProbeReturns(p, i, ok)
          PROVE  probe'[p].expired = probe[p].expired
      BY <2>0, <3>2 DEF ProbeReturns, TypeOK, ProbeStates
    <3>3. QED
      BY <3>1, <3>2
  <2>7. ApplyResult(p)
    BY <2>3, <2>4, <2>5, <2>6 DEF Prober
  <2> DEFINE entry == EntryOrNew(probe[p].cur, probe[p].now)
  <2>8. ip = probe[p].cur /\ probe[p].pc = "apply" /\ Expires(entry, probe[p].now)
    BY <2>7, ApplyFacts
  <2>9. ASSUME regAt[ip] > probe[p].now PROVE FALSE
    <3>1. health[ip] # NoEntry /\ health[ip].last_ok >= probe[p].now
      BY <2>8, <2>9 DEF FreshInv, FreshKnown, Pending
    <3>2. entry = health[ip] /\ health[ip].last_ok \in Nat
      BY <2>8, <3>1 DEF EntryOrNew, TypeOK, HealthStates
    <3>3. Since(probe[p].now, health[ip].last_ok) = 0
      BY <2>0, <3>1, <3>2 DEF Since
    <3>4. QED
      BY <2>0, <2>8, <3>2, <3>3 DEF Expires
  <2>10. QED
    BY <2>0, <2>9
<1>4. QED
  BY <1>1, <1>2, <1>3, Typing, PTL DEF Spec, FreshRegistrationNotMarked

-----------------------------------------------------------------------------
(* How long a row stays.                                                   *)

\* What a cycle holds against a node is no older than its row: the clock
\* reading it judges by, the last sign of life in its entry, and, for a node
\* it has marked, a whole offline_ttl in between.
RowAge ==
  /\ \A ip \in Ips : since[ip] <= clock
  /\ \A ip \in Ips : health[ip] # NoEntry => since[ip] <= health[ip].last_ok
  /\ \A p \in Probers : probe[p].pc \in {"loop", "apply"} =>
       /\ probe[p].now <= clock
       /\ \A ip \in Ips : Pending(p, ip) => since[ip] <= probe[p].now
  /\ \A p \in Probers, ip \in Ips : ip \in probe[p].expired =>
       /\ probe[p].pc \in {"loop", "apply"}
       /\ since[ip] + OfflineTTL <= probe[p].now

\* The numbers that RowAge compares.
LEMMA AgesAreNumbers ==
  ASSUME TypeOK
  PROVE  /\ clock \in Nat /\ OfflineTTL \in Nat \ {0}
         /\ \A ip \in Ips : since[ip] \in Nat
         /\ \A ip \in Ips : health[ip] # NoEntry => health[ip].last_ok \in Nat
         /\ \A p \in Probers : /\ probe[p] \in ProbeStates /\ probe[p].now \in Nat
                                /\ probe[p].expired \subseteq Ips
<1>1. \A ip \in Ips : health[ip] # NoEntry => health[ip].last_ok \in 0..MaxTime
  BY DEF TypeOK, HealthStates
<1>2. \A p \in Probers : /\ probe[p] \in ProbeStates /\ probe[p].now \in 0..MaxTime
                         /\ probe[p].expired \subseteq Ips
  BY DEF TypeOK, ProbeStates
<1>3. QED
  BY <1>1, <1>2, BoundsAssumption, TTLAssumption DEF TypeOK

\* Only a registration of an address without a row moves `since'.
LEMMA RowAgeRegister ==
  ASSUME TypeOK, PendingHasRow, RowAge, NEW k \in Conns, HandleRegister(k)
  PROVE  RowAge'
<1>1. PICK ip \in Ips :
        /\ health' = [health EXCEPT ![ip] = Entry(TRUE, clock)]
        /\ since' = [since EXCEPT ![ip] = IF store[ip] = NoRow THEN clock ELSE @]
        /\ UNCHANGED <<clock, probe>>
  BY RegistrationStep
<1>2. health'[ip] = Entry(TRUE, clock) /\ Entry(TRUE, clock).last_ok = clock
  BY <1>1, ClockIsNat, EntryFacts DEF TypeOK
<1>3. /\ since'[ip] = IF store[ip] = NoRow THEN clock ELSE since[ip]
      /\ \A i \in Ips : i # ip => since'[i] = since[i] /\ health'[i] = health[i]
  BY <1>1 DEF TypeOK
<1>4. since'[ip] <= clock
  BY <1>3, AgesAreNumbers DEF RowAge
<1>5. \A p \in Probers : Pending(p, ip) \/ ip \in probe[p].expired => store[ip] # NoRow
  BY DEF PendingHasRow, Pending
<1>6. \A p \in Probers, i \in Ips : Pending(p, i) \/ i \in probe[p].expired => since'[i] = since[i]
  BY <1>3, <1>5
<1>7. \A i \in Ips : since'[i] <= clock
  BY <1>3, <1>4 DEF RowAge
<1>8. \A i \in Ips : health'[i] # NoEntry => since'[i] <= health'[i].last_ok
  BY <1>2, <1>3, <1>4 DEF RowAge
<1>9. clock' = clock /\ probe' = probe /\ \A p \in Probers, i \in Ips : Pending(p, i)' = Pending(p, i)
  BY <1>1 DEF Pending
<1>10. QED
  BY <1>6, <1>7, <1>8, <1>9 DEF RowAge

\* The step of the one probe loop.
LEMMA RowAgeProber ==
  ASSUME OneProbeLoop, TypeOK, RowAge, NEW p \in Probers, Prober(p)
  PROVE  RowAge'
<1>0. \A q \in Probers : q = p
  BY OneProbeLoop DEF OneProbeLoop
<1>1. UNCHANGED <<clock, since>>
  BY DEF Prober, ListNodes, ReadClock, ProbeReturns, ApplyResult, RemoveExpired, Remove
<1>2. CASE ListNodes(p)
  <2>1. probe'[p].pc = "listed" /\ probe'[p].expired = {} /\ health' = health
    BY <1>2, ProberPc DEF ListNodes, ProbeAt, TypeOK
  <2>2. QED
    BY <1>0, <1>1, <2>1 DEF RowAge
<1>3. CASE ReadClock(p)
  <2>1. /\ probe[p].pc = "listed" /\ probe'[p].pc = "loop" /\ probe'[p].now = clock
        /\ probe'[p].expired = probe[p].expired /\ health' = health
    BY <1>3, ProberPc DEF ReadClock, ProberAt, TypeOK, ProbeStates
  <2>2. clock <= clock
    BY AgesAreNumbers
  <2>3. QED
    BY <1>0, <1>1, <2>1, <2>2 DEF RowAge
<1>4. ASSUME NEW ip \in Ips, NEW ok \in BOOLEAN, ProbeReturns(p, ip, ok)
      PROVE  RowAge'
  <2>1. /\ probe[p].pc = "loop" /\ probe'[p].pc = "apply" /\ probe'[p].now = probe[p].now
        /\ probe'[p].expired = probe[p].expired /\ health' = health
        /\ ip \in probe[p].todo /\ probe'[p].cur = ip /\ probe'[p].todo = probe[p].todo \ {ip}
    BY <1>4 DEF ProbeReturns, ProberAt, TypeOK, ProbeStates
  <2>2. \A i \in Ips : Pending(p, i)' => Pending(p, i)
    BY <2>1 DEF Pending
  <2>3. QED
    BY <1>0, <1>1, <2>1, <2>2 DEF RowAge
<1>5. CASE ApplyResult(p)
  <2> DEFINE cur   == probe[p].cur
             now   == probe[p].now
             entry == EntryOrNew(cur, now)
  <2>1. /\ cur \in Ips /\ now \in 0..MaxTime /\ probe[p].ok \in BOOLEAN /\ now \in Nat
        /\ since[cur] <= now /\ since[cur] \in Nat /\ OfflineTTL \in Nat \ {0}
    BY <1>5, ApplyFacts, AgesAreNumbers DEF RowAge, Pending, TypeOK, ProbeStates
  <2>2. entry \in HealthStates /\ since[cur] <= entry.last_ok
    BY <2>1, EntryFacts DEF EntryOrNew, RowAge, TypeOK
  <2>3. entry.last_ok \in 0..MaxTime /\ entry.last_ok \in Nat
    BY <2>2 DEF HealthStates
  <2> HIDE DEF entry
  <2>4. health'[cur] = Updated(entry, probe[p].ok, now)
    BY <1>5, <2>1 DEF ApplyResult, TypeOK, entry
  <2>5. since[cur] <= health'[cur].last_ok
    BY <2>1, <2>2, <2>3, <2>4, EntryFacts DEF Updated
  <2>6. Expires(entry, now) => since[cur] + OfflineTTL <= now
    BY <2>1, <2>2, <2>3 DEF Expires, Since
  <2>7. \A ip \in probe'[p].expired :
          ip \in probe[p].expired \/ (ip = cur /\ Expires(entry, now))
    BY <1>5, ApplyFacts DEF entry
  <2>8. \A ip \in probe'[p].expired : since[ip] + OfflineTTL <= now
    BY <2>6, <2>7, AgesAreNumbers DEF RowAge
  <2>9. \A ip \in Ips : health'[ip] # NoEntry => since[ip] <= health'[ip].last_ok
    BY <1>5, <2>5, ApplyFacts DEF RowAge
  <2>10. /\ probe[p].pc = "apply" /\ probe'[p].pc = "loop"
         /\ probe'[p].todo = probe[p].todo /\ probe'[p].now = now
    BY <1>5, ApplyFacts
  <2>11. QED
    BY <1>0, <1>1, <2>8, <2>9, <2>10 DEF RowAge, Pending
<1>6. CASE RemoveExpired(p)
  <2>1. probe'[p].pc = "idle" /\ probe'[p].expired = {}
    BY <1>6, ProberPc DEF RemoveExpired, Remove, ProbeAt, TypeOK
  <2>2. \A ip \in Ips : health'[ip] # NoEntry => health'[ip] = health[ip]
    BY <1>6 DEF RemoveExpired, Remove, Without
  <2>3. QED
    BY <1>0, <1>1, <2>1, <2>2 DEF RowAge
<1>7. QED
  BY <1>2, <1>3, <1>4, <1>5, <1>6 DEF Prober

\* A boot gives every row a whole offline_ttl; a crash forgets what was marked.
LEMMA RowAgeProcess ==
  ASSUME TypeOK, RowAge, AcceptFails \/ AbortHandle \/ Crash \/ Boot \/ Tick
  PROVE  RowAge'
<1>1. CASE AcceptFails \/ Crash \/ Boot
  <2>1. UNCHANGED <<clock, since>>
    BY <1>1 DEF AcceptFails, Crash, CrashLosing, Boot, BootWith
  <2>2. \A ip \in Ips : health'[ip] # NoEntry => since[ip] <= health'[ip].last_ok
    <3>1. CASE Boot
      <4>1. Entry(FALSE, clock).last_ok = clock
        BY ClockIsNat, EntryFacts
      <4>2. \A ip \in Ips : health'[ip] # NoEntry => health'[ip] = Entry(FALSE, clock)
        BY <3>1 DEF Boot, BootWith
      <4>3. QED
        BY <4>1, <4>2 DEF RowAge
    <3>2. CASE AcceptFails \/ Crash
      BY <3>2 DEF AcceptFails, Crash, CrashLosing, RowAge
    <3>3. QED
      BY <1>1, <3>1, <3>2
  <2>3. \A p \in Probers :
          \/ probe'[p].pc \in {"idle", "stopped"} /\ probe'[p].expired = {}
          \/ probe'[p] = probe[p]
    BY <1>1, ProbersReset
  <2>4. QED
    BY <2>1, <2>2, <2>3 DEF RowAge, Pending
<1>2. CASE AbortHandle
  BY <1>2 DEF AbortHandle, RowAge, Pending
<1>3. CASE Tick
  <2>1. clock' = clock + 1 /\ UNCHANGED <<health, probe, since>>
    BY <1>3 DEF Tick
  <2>2. /\ \A ip \in Ips : since[ip] <= clock'
        /\ \A p \in Probers : probe[p].pc \in {"loop", "apply"} => probe[p].now <= clock'
    BY <2>1, AgesAreNumbers DEF RowAge
  <2>3. QED
    BY <2>1, <2>2 DEF RowAge, Pending
<1>4. QED
  BY <1>1, <1>2, <1>3

\* RowsKeptForTTL when there is one probe loop: no crash, boot, late result or
\* failing removal takes a row before offline_ttl has passed since it was entered.
THEOREM NoRowIsTakenEarly ==
  ASSUME OneProbeLoop
  PROVE  Spec => RowsKeptForTTL
<1>1. Init => RowAge
  BY BoundsAssumption DEF Init, RowAge, ProbeAt
<1>2. TypeOK /\ PendingHasRow /\ RowAge /\ [Next]_vars => RowAge'
  <2> SUFFICES ASSUME TypeOK, PendingHasRow, RowAge, [Next]_vars PROVE RowAge'
    OBVIOUS
  <2>1. CASE UNCHANGED <<health, clock, probe, since>>
    BY <2>1 DEF RowAge, Pending
  <2>2. ASSUME NEW p \in Probers, Prober(p) PROVE RowAge'
    BY <2>2, OneProbeLoop, RowAgeProber
  <2>3. QED
    BY <2>1, <2>2, ConnectionSteps, RowAgeRegister, RowAgeProcess DEF Next, vars
<1>3. TypeOK /\ RowAge /\ [Next]_vars
        => [\A ip \in Ips : store[ip] # NoRow /\ store'[ip] = NoRow
                            => clock - since[ip] >= OfflineTTL]_vars
  <2> SUFFICES ASSUME TypeOK, RowAge, Next, NEW ip \in Ips, store[ip] # NoRow, store'[ip] = NoRow
               PROVE  clock - since[ip] >= OfflineTTL
    BY DEF vars
  <2>1. PICK p \in Probers : ip \in probe[p].expired
    <3>1. ASSUME NEW k \in Conns, HandleRegister(k) PROVE FALSE
      <4>1. PICK i \in Ips, info \in Infos : store' = [store EXCEPT ![i] = info]
        BY <3>1, RegistrationStep
      <4>2. QED
        BY <4>1, NullsAssumption DEF TypeOK
    <3>2. ASSUME NEW p \in Probers, RemoveExpired(p) PROVE ip \in probe[p].expired
      BY <3>2 DEF RemoveExpired, Removable, Remove, Without
    <3>3. CASE Crash
      BY <3>3 DEF Crash, CrashLosing, Marked, Without
    <3>4. QED
      BY <3>1, <3>2, <3>3, WhoWrites
         DEF Quiet, ProbeReturns, ApplyResult, Boot, BootWith
  <2>2. since[ip] + OfflineTTL <= probe[p].now /\ probe[p].now <= clock
    BY <2>1 DEF RowAge
  <2>3. QED
    BY <2>2, AgesAreNumbers
<1>4. Spec => []PendingHasRow
  BY RowsInHand, OneProbeLoop, PTL
<1>5. QED
  BY <1>1, <1>2, <1>3, <1>4, Typing, PTL DEF Spec, RowsKeptForTTL

=============================================================================
