-------------------------- MODULE DfinderRegistry --------------------------
(***************************************************************************)
(* The dfinder registry: src/src/dfinder/server.rs with the SQLite table   *)
(* of store.rs behind it and the calls of client.rs in front of it.        *)
(*                                                                         *)
(* The server keeps two things under one tokio RwLock: the table `store'   *)
(* (on disk, one row per peer IP) and the map `health' (in memory).  Three *)
(* kinds of task work on them: one task per accepted connection, the probe *)
(* loops, and the accept loop.  No task awaits anything inside a critical  *)
(* section, so each critical section is one action here, and every await   *)
(* between two of them is a point where the other tasks may step in.       *)
(***************************************************************************)
EXTENDS Naturals, FiniteSets

CONSTANTS
  Ips,          \* peer addresses, the primary key of the table
  Infos,        \* what a registration carries: port, labels and extra
  Labels,       \* the labels in use
  LabelsOf,     \* the labels of each member of Infos
  Queries,      \* the label sets that clients query for
  Conns,        \* TCP connections; a client opens a new one for every call
  RawConns,     \* the connections of peers that do not use client.rs
  Probers,      \* probe loops on this server (run starts one, spawn_probe more)
  RunProber,    \* the one that run_and_notify starts
  OfflineTTL,   \* ServerConfig.offline_ttl, in clock ticks
  MaxAnswer,    \* how many nodes fit in one frame (its length is a u16)
  Faults,       \* the SQLite operations that may fail
  NoRow,        \* no row for this IP
  NoEntry,      \* no health entry for this IP
  NoConn,       \* connection not opened yet
  NoIp,         \* no node is being probed
  MaxTime,      \* bound: the clock stops here
  MaxCrashes    \* bound: crashes of the process

ASSUME TTLAssumption == OfflineTTL \in Nat \ {0}
ASSUME BoundsAssumption == /\ MaxTime \in Nat
                           /\ MaxCrashes \in Nat
                           /\ MaxAnswer \in Nat
ASSUME LabelsAssumption == /\ LabelsOf \in [Infos -> SUBSET Labels]
                           /\ Queries \subseteq SUBSET Labels
ASSUME FaultsAssumption == Faults \subseteq {"upsert", "list", "remove"}
ASSUME NullsAssumption == /\ NoRow \notin Infos
                          /\ NoIp \notin Ips

VARIABLES
  store,      \* the nodes table
  health,     \* Inner.health
  clock,      \* Instant::now()
  up,         \* the process is running
  listening,  \* the accept loop is running
  conn,       \* the connections, server and client side
  probe,      \* the probe loops
  crashes,    \* crashes so far
  regAt,      \* history: when the last registration of an IP was committed
  since,      \* history: when the row of an IP came into being
  confirmed   \* history: the IPs that gave a sign of life since the last boot

vars == <<store, health, clock, up, listening, conn, probe, crashes,
          regAt, since, confirmed>>

-----------------------------------------------------------------------------
(* Data.                                                                   *)

\* RegisterRequest and QueryRequest.
Register(info) == [kind |-> "register", info |-> info]
Query(labels)  == [kind |-> "query", labels |-> labels]

Requests == {Register(i) : i \in Infos} \cup {Query(q) : q \in Queries}

LabelsIn(r) == IF r.kind = "register" THEN LabelsOf[r.info] ELSE r.labels

\* HealthState.
Entry(ok, t) == [healthy |-> ok, last_ok |-> t]

HealthStates == [healthy : BOOLEAN, last_ok : 0..MaxTime]

\* NodeInfo as a query returns it: the row under its key.
Node(ip, info) == [ip |-> ip, info |-> info]

Nodes == [ip : Ips, info : Infos]

\* srv is where the server's task for the connection stands, cli what the
\* caller knows, took (history) whether the request had its effect.
ConnStates == [ip     : Ips,
               req    : Requests,
               srv    : {"backlog", "accepted", "ack", "result", "error", "closed"},
               cli    : {"waiting", "ok", "err"},
               answer : SUBSET Nodes,
               took   : BOOLEAN]

ProbeStates == [pc      : {"idle", "listed", "loop", "apply", "stopped"},
                now     : 0..MaxTime,
                todo    : SUBSET Ips,
                cur     : Ips \cup {NoIp},
                ok      : BOOLEAN,
                expired : SUBSET Ips]

ProbeAt(pc) == [pc |-> pc, now |-> 0, todo |-> {}, cur |-> NoIp,
                ok |-> FALSE, expired |-> {}]

Rows == {ip \in Ips : store[ip] # NoRow}

IsHealthy(ip) == health[ip] # NoEntry /\ health[ip].healthy

\* A variant of Matching: one label is enough.
MatchingAny(labels) ==
  {Node(ip, store[ip]) : ip \in {i \in Rows : /\ labels \cap LabelsOf[store[i]] # {}
                                              /\ IsHealthy(i)}}

\* NodeStore::list_by_labels, then the health filter of handle_query.
Matching(labels) ==
  {Node(ip, store[ip]) : ip \in {i \in Rows : /\ labels \subseteq LabelsOf[store[i]]
                                              /\ IsHealthy(i)}}

\* A table or map without the keys of gone.
Without(f, gone, none) == [ip \in Ips |-> IF ip \in gone THEN none ELSE f[ip]]

\* A variant of Since that does not saturate.
Distance(now, then) == IF now > then THEN now - then ELSE then - now

\* Instant::duration_since saturates at zero.
Since(now, then) == IF now > then THEN now - then ELSE 0

\* A lost connection: the caller's read fails, the server's task ends.
Reset(c) == [c EXCEPT !.srv = "closed",
                      !.cli = IF @ = "waiting" THEN "err" ELSE @,
                      !.answer = {}]

\* What a caller knows of its call: nothing of the server's side, and no
\* answer when the call failed.
CallOf(c) == IF c = NoConn THEN NoConn
             ELSE [ip      |-> c.ip,
                   req     |-> c.req,
                   outcome |-> c.cli,
                   answer  |-> IF c.cli = "err" THEN {} ELSE c.answer]

CallStates == [ip : Ips, req : Requests, outcome : {"waiting", "ok", "err"},
               answer : SUBSET Nodes]

ASSUME NoValuesAssumption == /\ NoEntry \notin HealthStates
                             /\ NoConn \notin ConnStates
                             /\ NoConn \notin CallStates

-----------------------------------------------------------------------------
(* Start.  The registry starts on an empty table.                          *)

Init ==
  /\ store = [ip \in Ips |-> NoRow]
  /\ health = [ip \in Ips |-> NoEntry]
  /\ clock = 0
  /\ up = TRUE
  /\ listening = TRUE
  /\ conn = [k \in Conns |-> NoConn]
  /\ probe = [p \in Probers |-> ProbeAt("idle")]
  /\ crashes = 0
  /\ regAt = [ip \in Ips |-> 0]
  /\ since = [ip \in Ips |-> 0]
  /\ confirmed = {}

-----------------------------------------------------------------------------
(* Calls: Client::register and Client::query_healthy on their connections. *)

\* A client calls: it refuses empty labels, connects and writes its request.
\* With nobody listening the connect fails.
Call(k, ip, r) ==
  /\ conn[k] = NoConn
  /\ LabelsIn(r) # {} \/ k \in RawConns
  /\ conn' = [conn EXCEPT ![k] =
       [ip     |-> ip,
        req    |-> r,
        srv    |-> IF listening THEN "backlog" ELSE "closed",
        cli    |-> IF listening THEN "waiting" ELSE "err",
        answer |-> {},
        took   |-> FALSE]]
  /\ UNCHANGED <<store, health, clock, up, listening, probe, crashes, regAt, since, confirmed>>

\* The caller is cancelled or its connection breaks: it has no answer, while
\* the server may still be working on the request.
GiveUp(k) ==
  /\ conn[k] # NoConn
  /\ conn[k].cli = "waiting"
  /\ conn' = [conn EXCEPT ![k].cli = "err"]
  /\ UNCHANGED <<store, health, clock, up, listening, probe, crashes, regAt, since, confirmed>>

-----------------------------------------------------------------------------
(* The server's side of a connection.                                      *)

AtServer(k, stage) == /\ up
                      /\ conn[k] # NoConn
                      /\ conn[k].srv = stage

\* listener.accept and the spawn of handle_conn.
Accept(k) ==
  /\ listening
  /\ AtServer(k, "backlog")
  /\ conn' = [conn EXCEPT ![k].srv = "accepted"]
  /\ UNCHANGED <<store, health, clock, up, listening, probe, crashes, regAt, since, confirmed>>

\* read_frame fails on a connection the caller has left.
ReadFails(k) ==
  /\ AtServer(k, "accepted")
  /\ conn[k].cli # "waiting"
  /\ conn' = [conn EXCEPT ![k] = Reset(@)]
  /\ UNCHANGED <<store, health, clock, up, listening, probe, crashes, regAt, since, confirmed>>

\* MSG_ERROR: both handlers refuse empty labels, and handle_conn a frame of an
\* unknown type, which only a peer without client.rs sends.
Refuse(k) ==
  /\ AtServer(k, "accepted")
  /\ LabelsIn(conn[k].req) = {} \/ k \in RawConns
  /\ conn' = [conn EXCEPT ![k].srv = "error"]
  /\ UNCHANGED <<store, health, clock, up, listening, probe, crashes, regAt, since, confirmed>>

\* The write lock of handle_register: row, then health entry.
StoreRegistration(k) ==
  LET c == conn[k] IN
  /\ AtServer(k, "accepted")
  /\ c.req.kind = "register"
  /\ store' = [store EXCEPT ![c.ip] = c.req.info]
  /\ health' = [health EXCEPT ![c.ip] = Entry(TRUE, clock)]
  /\ conn' = [conn EXCEPT ![k].srv = "ack", ![k].took = TRUE]
  /\ regAt' = [regAt EXCEPT ![c.ip] = clock]
  /\ since' = [since EXCEPT ![c.ip] = IF store[c.ip] = NoRow THEN clock ELSE @]
  /\ confirmed' = confirmed \cup {c.ip}
  /\ UNCHANGED <<clock, up, listening, probe, crashes>>

\* handle_register, up to its reply.
HandleRegister(k) == /\ conn[k] # NoConn
                     /\ LabelsIn(conn[k].req) # {}
                     /\ StoreRegistration(k)

\* handle_query under its read lock.  A result that does not fit in a frame
\* is an error of write_frame_plain: the task ends without a reply.
HandleQuery(k) ==
  LET c == conn[k] IN
  /\ AtServer(k, "accepted")
  /\ c.req.kind = "query"
  /\ LabelsIn(c.req) # {}
  /\ LET nodes == Matching(c.req.labels) IN
       conn' = [conn EXCEPT ![k] =
         IF Cardinality(nodes) <= MaxAnswer
           THEN [c EXCEPT !.srv = "result", !.answer = nodes, !.took = TRUE]
           ELSE Reset(c)]
  /\ UNCHANGED <<store, health, clock, up, listening, probe, crashes, regAt, since, confirmed>>

\* `?' ends the task without a reply: the statement on SQLite fails, or what a
\* peer without client.rs has sent does not parse.
HandlerFails(k) ==
  /\ AtServer(k, "accepted")
  /\ \/ /\ LabelsIn(conn[k].req) # {}
        /\ (IF conn[k].req.kind = "register" THEN "upsert" ELSE "list") \in Faults
     \/ k \in RawConns
  /\ conn' = [conn EXCEPT ![k] = Reset(@)]
  /\ UNCHANGED <<store, health, clock, up, listening, probe, crashes, regAt, since, confirmed>>

\* The reply is written and, if the caller still waits, read by it; the
\* caller keeps the nodes that pass its own health check.
Reply(k) ==
  LET c == conn[k] IN
  /\ \E stage \in {"ack", "result", "error"} : AtServer(k, stage)
  /\ \E checked \in SUBSET c.answer :
       conn' = [conn EXCEPT ![k] =
         IF c.cli = "waiting"
           THEN [c EXCEPT !.srv = "closed",
                          !.cli = IF c.srv = "error" THEN "err" ELSE "ok",
                          !.answer = checked]
           ELSE [c EXCEPT !.srv = "closed", !.answer = {}]]
  /\ UNCHANGED <<store, health, clock, up, listening, probe, crashes, regAt, since, confirmed>>

-----------------------------------------------------------------------------
(* run_probe_cycle, cut at its awaits.                                     *)

ProberAt(p, pc) == up /\ probe[p].pc = pc

\* The tick: list_all under the read lock.  A list_all that fails ends the
\* cycle with nothing changed: a stuttering step.
ListNodes(p) ==
  /\ ProberAt(p, "idle")
  /\ probe' = [probe EXCEPT ![p] = [ProbeAt("listed") EXCEPT !.todo = Rows]]
  /\ UNCHANGED <<store, health, clock, up, listening, conn, crashes, regAt, since, confirmed>>

\* The one clock reading of the cycle, after the read lock is released.
ReadClock(p) ==
  /\ ProberAt(p, "listed")
  /\ probe' = [probe EXCEPT ![p].pc = "loop", ![p].now = clock]
  /\ UNCHANGED <<store, health, clock, up, listening, conn, crashes, regAt, since, confirmed>>

\* (probe)(node).await comes back.
ProbeReturns(p, ip, ok) ==
  /\ ProberAt(p, "loop")
  /\ ip \in probe[p].todo
  /\ probe' = [probe EXCEPT ![p].pc = "apply",
                            ![p].todo = @ \ {ip},
                            ![p].cur = ip,
                            ![p].ok = ok]
  /\ confirmed' = IF ok THEN confirmed \cup {ip} ELSE confirmed
  /\ UNCHANGED <<store, health, clock, up, listening, conn, crashes, regAt, since>>

\* The entry the cycle works on: health.entry(ip).or_insert(..).
EntryOrNew(ip, now) == IF health[ip] = NoEntry THEN Entry(FALSE, now) ELSE health[ip]

\* A variant of Expires that looks only at the step from healthy to unhealthy.
ExpiresOnce(entry, now) == entry.healthy /\ Since(now, entry.last_ok) >= OfflineTTL

\* Unhealthy for offline_ttl or longer by the cycle's clock.
Expires(entry, now) == Since(now, entry.last_ok) >= OfflineTTL

\* Variants of Updated: last_ok alone is refreshed; it holds a deadline.
UpdatedTime(entry, ok, now) == Entry(ok /\ entry.healthy, IF ok THEN now ELSE entry.last_ok)
UpdatedDeadline(entry, ok, now) == Entry(ok, IF ok THEN now + OfflineTTL ELSE entry.last_ok)

\* The entry after a probe.
Updated(entry, ok, now) == IF ok THEN Entry(TRUE, now) ELSE Entry(FALSE, entry.last_ok)

\* The result is applied under the write lock.
ApplyResult(p) ==
  LET me    == probe[p]
      entry == EntryOrNew(me.cur, me.now)
  IN
  /\ ProberAt(p, "apply")
  /\ health' = [health EXCEPT ![me.cur] = Updated(entry, me.ok, me.now)]
  /\ probe' = [probe EXCEPT ![p] =
       [me EXCEPT !.pc = "loop", !.cur = NoIp, !.ok = FALSE,
                  !.expired = IF ~me.ok /\ Expires(entry, me.now)
                                THEN @ \cup {me.cur} ELSE @]]
  /\ UNCHANGED <<store, clock, up, listening, conn, crashes, regAt, since, confirmed>>

\* Every node of the list is done.
CycleOver(p) == probe[p].pc = "loop" /\ probe[p].todo = {}

\* What the removal loop gets through: all of them, or those before the
\* one whose DELETE fails.
Removable(p) ==
  {gone \in SUBSET probe[p].expired : gone = probe[p].expired \/ "remove" \in Faults}

\* What the cycles of these loops have found overdue, and are to remove.
Marked(loops) == UNION {probe[p].expired : p \in loops}

\* The last critical section: rows and entries go, and the cycle is over.
Remove(p, rows, entries) ==
  /\ up
  /\ CycleOver(p)
  /\ store' = Without(store, rows, NoRow)
  /\ health' = Without(health, entries, NoEntry)
  /\ probe' = [probe EXCEPT ![p] = ProbeAt("idle")]
  /\ UNCHANGED <<clock, up, listening, conn, crashes, regAt, since, confirmed>>

\* Variants of RemoveExpired: the entries go although a DELETE fails; the
\* entries stay.
RemoveEntriesFirst(p) == \E gone \in Removable(p) : Remove(p, gone, probe[p].expired)
RemoveRowsOnly(p)     == \E gone \in Removable(p) : Remove(p, gone, {})

\* An entry goes after its row, when the DELETE has succeeded.
RemoveExpired(p) == \E gone \in Removable(p) : Remove(p, gone, gone)

-----------------------------------------------------------------------------
(* The process and its accept loop.                                        *)

\* A variant of ResetBacklog: the listening socket outlives the accept loop.
KeepBacklog == conn

\* What becomes of the connections nobody has accepted when the listener goes.
ResetBacklog == [k \in Conns |-> IF conn[k] # NoConn /\ conn[k].srv = "backlog"
                                   THEN Reset(conn[k]) ELSE conn[k]]

\* listener.accept fails: run_and_notify aborts its own probe loop and returns.
\* The tasks of accepted connections and the other probe loops stay.
AcceptFails ==
  /\ up
  /\ listening
  /\ listening' = FALSE
  /\ conn' = ResetBacklog
  /\ probe' = [probe EXCEPT ![RunProber] = ProbeAt("stopped")]
  /\ UNCHANGED <<store, health, clock, up, crashes, regAt, since, confirmed>>

\* The owner of the handle aborts it: the future of run_and_notify is dropped,
\* and the listener with it.  Dropping probe_task only detaches that task.
AbortHandle ==
  /\ up
  /\ listening
  /\ listening' = FALSE
  /\ conn' = ResetBacklog
  /\ UNCHANGED <<store, health, clock, up, probe, crashes, regAt, since, confirmed>>

\* The process dies: health is lost, and of the table the rows of gone.
CrashLosing(gone) ==
  /\ up
  /\ crashes < MaxCrashes
  /\ crashes' = crashes + 1
  /\ up' = FALSE
  /\ listening' = FALSE
  /\ store' = Without(store, gone, NoRow)
  /\ health' = [ip \in Ips |-> NoEntry]
  /\ conn' = [k \in Conns |-> IF conn[k] # NoConn /\ conn[k].srv # "closed"
                                THEN Reset(conn[k]) ELSE conn[k]]
  /\ probe' = [p \in Probers |-> ProbeAt("stopped")]
  /\ confirmed' = {}
  /\ UNCHANGED <<clock, regAt, since>>

\* A variant of Crash: the table is not on disk.
CrashWiping == CrashLosing(Ips)

\* The table outlives the process.  Each DELETE of a removal loop commits by
\* itself, so a crash may leave it half done.
Crash == \E gone \in SUBSET Marked({p \in Probers : CycleOver(p)}) : CrashLosing(gone)

\* Server::new on the table it finds, then run.
BootWith(entry) ==
  /\ ~up
  /\ up' = TRUE
  /\ listening' = TRUE
  /\ health' = [ip \in Ips |-> IF store[ip] = NoRow THEN NoEntry ELSE entry]
  /\ probe' = [p \in Probers |-> ProbeAt("idle")]
  /\ UNCHANGED <<store, clock, conn, crashes, regAt, since, confirmed>>

\* Variants of Boot: it trusts the rows it finds; it knows nothing of their last
\* sign of life.
BootTrusting  == BootWith(Entry(TRUE, clock))
BootForgetful == BootWith(Entry(FALSE, 0))

\* The rows of an earlier life start unhealthy, with all of offline_ttl to come.
Boot == BootWith(Entry(FALSE, clock))

Tick ==
  /\ clock < MaxTime
  /\ clock' = clock + 1
  /\ UNCHANGED <<store, health, up, listening, conn, probe, crashes, regAt, since, confirmed>>

-----------------------------------------------------------------------------

Caller(k) == GiveUp(k) \/ \E ip \in Ips, r \in Requests : Call(k, ip, r)

Handler(k) == \/ ReadFails(k)
              \/ Refuse(k)
              \/ HandleRegister(k)
              \/ HandleQuery(k)
              \/ HandlerFails(k)

Prober(p) == \/ ListNodes(p)
             \/ ReadClock(p)
             \/ \E ip \in Ips, ok \in BOOLEAN : ProbeReturns(p, ip, ok)
             \/ ApplyResult(p)
             \/ RemoveExpired(p)

Next == \/ \E k \in Conns : Caller(k) \/ Accept(k) \/ Handler(k) \/ Reply(k)
        \/ \E p \in Probers : Prober(p)
        \/ AcceptFails
        \/ AbortHandle
        \/ Crash
        \/ Boot
        \/ Tick

Spec == Init /\ [][Next]_vars

\* The runtime polls every task that can go on, a probe comes back in the end,
\* and time passes.  Nothing forces a call, a failure, a crash or a reboot.
Fairness == /\ \A k \in Conns : /\ WF_vars(Accept(k))
                                /\ WF_vars(Handler(k))
                                /\ WF_vars(Reply(k))
            /\ \A p \in Probers : WF_vars(Prober(p))
            /\ WF_vars(Tick)

FairSpec == Spec /\ Fairness

-----------------------------------------------------------------------------
(* Types.                                                                  *)

\* Every variable keeps the shape its Rust type gives it.
TypeOK ==
  /\ store \in [Ips -> Infos \cup {NoRow}]
  /\ health \in [Ips -> HealthStates \cup {NoEntry}]
  /\ clock \in 0..MaxTime
  /\ up \in BOOLEAN
  /\ listening \in BOOLEAN
  /\ conn \in [Conns -> ConnStates \cup {NoConn}]
  /\ probe \in [Probers -> ProbeStates]
  /\ \A p \in Probers : probe[p].pc = "apply" => probe[p].cur \in Ips
  /\ crashes \in 0..MaxCrashes
  /\ regAt \in [Ips -> 0..MaxTime]
  /\ since \in [Ips -> 0..MaxTime]
  /\ confirmed \in SUBSET Ips

-----------------------------------------------------------------------------
(* Safety.                                                                 *)

\* Every row has a health entry while the process runs: the filter of
\* handle_query (server.rs:313) hides a row without one for good.  The two are
\* written one after the other at server.rs:284-285, :228-229 and on boot.
RowHasHealth == up => \A ip \in Ips : store[ip] # NoRow => health[ip] # NoEntry

\* With one probe loop no entry outlives its row: the or_insert of
\* server.rs:210 meets only nodes that are still in the table, although the
\* lock was released since they were listed.
HealthHasRow == \A ip \in Ips : health[ip] # NoEntry => store[ip] # NoRow

\* A node counts as healthy only after it registered or passed a probe in
\* this life of the process: rows found on boot start unhealthy (server.rs:97-104).
HealthySinceBoot == \A ip \in Ips : IsHealthy(ip) => ip \in confirmed

\* No row without labels gets into the table, whoever sends the request
\* (server.rs:270): no query could ever find it.
RowsHaveLabels == \A ip \in Rows : LabelsOf[store[ip]] # {}

\* A cycle never marks as expired a node that registered after the cycle read
\* its clock, although it compares that older reading with the newer last_ok:
\* duration_since saturates (server.rs:219).
FreshRegistrationNotMarked ==
  [][\A p \in Probers, ip \in Ips :
       ip \in probe'[p].expired \ probe[p].expired => regAt[ip] <= probe[p].now]_vars

\* With one probe loop a node stays in the table for offline_ttl at least after
\* it was entered, through crashes, boots, failing removals and results applied
\* under an old clock reading (server.rs:102, :203, :216-221).
RowsKeptForTTL ==
  [][\A ip \in Ips : store[ip] # NoRow /\ store'[ip] = NoRow
                       => clock - since[ip] >= OfflineTTL]_vars

\* The registry keeps the promises of the directory: what client.rs returns to
\* its callers is what DfinderDirectory allows, across crashes and lost replies.
Directory == INSTANCE DfinderDirectory WITH
  Calls  <- Conns,
  NoCall <- NoConn,
  dir    <- store,
  due    <- Marked(Probers),
  call   <- [k \in Conns |-> CallOf(conn[k])],
  took   <- {k \in Conns : conn[k] # NoConn /\ conn[k].took}

\* Every behaviour of the registry is one of the directory: an acknowledged
\* registration was stored exactly once (server.rs:283-294), its row survives
\* crashes and goes only when a probe cycle has found the node overdue
\* (server.rs:219-221, :225-230), and a query answers from the rows of one instant
\* (server.rs:308-315).
ImplementsDirectory == Directory!Spec

-----------------------------------------------------------------------------
(* Liveness, under FairSpec.                                               *)

Probing == up /\ \A p \in Probers : probe[p].pc # "stopped"

\* The node registers again or answers a probe.
SignOfLife(ip) ==
  \/ \E k \in Conns : HandleRegister(k) /\ conn[k].ip = ip
  \/ \E p \in Probers : ProbeReturns(p, ip, TRUE)

\* A failing DELETE ends a removal loop before it comes to this row.
RemovalCutShort(ip) ==
  \E p \in Probers : ip \in probe[p].expired /\ RemoveExpired(p) /\ store'[ip] # NoRow

\* offline_ttl after the last sign of life is past the end of the clock.
BeyondTheClock(ip) == health[ip] # NoEntry /\ health[ip].last_ok + OfflineTTL > MaxTime

\* A node that falls silent is deregistered in the end, while the probe loop lives
\* and no DELETE on it fails (server.rs:206-230), whatever the clock reading its
\* last results were applied under, and however the cycles of its neighbours end.
SilentRowsRemoved ==
  \A ip \in Ips :
    (/\ <>[]Probing
     /\ <>[][~SignOfLife(ip) /\ ~RemovalCutShort(ip)]_vars)
      => <>[](store[ip] = NoRow \/ BeyondTheClock(ip))

FailedProbe(p, ip) == ProbeReturns(p, ip, FALSE)

\* A row whose probes succeed from some time on keeps coming back as healthy:
\* no stale result hides it for ever (server.rs:206-216).
LiveRowsVisible ==
  \A ip \in Ips :
    (<>[][\A p \in Probers : ~FailedProbe(p, ip)]_vars)
      => []<>(Probing /\ store[ip] # NoRow => IsHealthy(ip))

\* Every call returns to its caller, with the process up or down
\* (client.rs:93, :120): the server answers, or the connection is reset.
CallsReturn ==
  \A k \in Conns : (conn[k] # NoConn /\ conn[k].cli = "waiting")
                    ~> (conn[k] # NoConn /\ conn[k].cli # "waiting")

-----------------------------------------------------------------------------
(* What the comments in server.rs say, and the code does not do.           *)

\* server.rs:53: a node is deregistered when it has been unhealthy without a
\* break for longer than offline_ttl.  So a row that is healthy is not removed.
HealthyRowNotRemoved ==
  [][\A ip \in Ips : IsHealthy(ip) => ~(store[ip] # NoRow /\ store'[ip] = NoRow)]_vars

\* server.rs:53 again: when a node is marked for removal, offline_ttl has
\* passed since its last registration was accepted.
MarkedOnlyAfterTTL ==
  [][\A p \in Probers, ip \in Ips :
       ip \in probe'[p].expired \ probe[p].expired
         => clock - regAt[ip] >= OfflineTTL]_vars

\* server.rs:119: the service and the timed probes stop when the handle is
\* aborted.  So no probe cycle starts once the listener is gone.
AbortStopsProbing ==
  [][\A p \in Probers : ~listening /\ probe[p].pc = "idle" => probe'[p].pc # "listed"]_vars

=============================================================================
