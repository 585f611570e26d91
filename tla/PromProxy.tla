------------------------------ MODULE PromProxy ------------------------------
(***************************************************************************)
(* The Prometheus remote_write proxy: src/src/prom_proxy/server.rs with    *)
(* the edge counters of edge.rs and the calls of client.rs in front of it. *)
(*                                                                         *)
(* A server forwards the body of each call to the upstream over HTTP,      *)
(* counts the outcome in a Redis hash and answers the caller.  Its flush   *)
(* task sends the totals of that hash upstream as samples of a counter.    *)
(* Several servers, one process each, may share the hash.  Redis and the   *)
(* upstream are external: they are modelled by what the server sees.       *)
(***************************************************************************)
EXTENDS Naturals, FiniteSets

CONSTANTS
  Servers,      \* processes that run a proxy on the same hash and upstream
  Binaries,     \* those of them that are the prom_proxy binary, not an embedding program
  Conns,        \* TCP connections; a client opens a new one for every call
  Types,        \* the message types of calls
  MessageType,  \* ServerConfig.message_type
  Unreadable,   \* the type of a frame that cannot be decrypted or inflated
  Statuses,     \* HTTP statuses of the upstream
  NoStatus,     \* the request failed below HTTP
  Faults,       \* the externals that may fail: "redis", "flush"
  NoConn,       \* connection not opened yet
  MaxTime,      \* bound: the clock stops here
  MaxCrashes    \* bound: crashes of processes

ASSUME ConnsAssumption == IsFiniteSet(Conns)
ASSUME StatusAssumption == Statuses \subseteq Nat /\ NoStatus \notin Nat
ASSUME TypesAssumption == MessageType # Unreadable
ASSUME BoundsAssumption == MaxTime \in Nat /\ MaxCrashes \in Nat

VARIABLES
  conn,       \* the connections, server and client side
  edges,      \* the Redis hash; a field that was never incremented is zero
  flush,      \* the flush tasks
  up,         \* the processes that run
  listening,  \* the processes whose accept loop runs
  clock,      \* the wall clock, in the unit of sample timestamps
  crashes,    \* crashes so far
  taken,      \* history: the calls whose body the upstream has stored
  samples,    \* history: the edge samples the upstream has stored
  edgesAt     \* history: the hash at the end of each instant, as far as it is known

vars == <<conn, edges, flush, up, listening, clock, crashes, taken, samples, edgesAt>>

-----------------------------------------------------------------------------
(* Data.                                                                   *)

Keys == {"remote_write_ok", "remote_write_err"}

Totals == [Keys -> Nat]

None == [key \in Keys |-> 0]

\* The statuses by which the upstream says that it has stored a body.
Stored(status) == status \in 200..299

\* A variant of IsSuccess: any answer will do.
IsAnswer(status) == status # NoStatus

\* What post_remote_write takes for success.
IsSuccess(status) == status \in 200..299

ConnStates == [server : Servers,
               type   : Types,
               srv    : {"backlog", "accepted", "posting", "counting", "ack", "error", "closed"},
               status : Statuses \cup {NoStatus},
               cli    : {"waiting", "ok", "err"}]

ASSUME NoConnAssumption == NoConn \notin ConnStates

FlushStates == [pc     : {"idle", "read", "posting", "stopped"},
                totals : Totals,
                at     : Nat]

FlushAt(pc) == [pc |-> pc, totals |-> None, at |-> 0]

\* The WriteRequest of a flush: every series has the same timestamp.
Report(s) == [at |-> flush[s].at, totals |-> flush[s].totals]

\* A variant of KeyOf: every answer of the upstream counts as ok.
KeyOfAnswer(c) == IF IsAnswer(c.status) THEN "remote_write_ok" ELSE "remote_write_err"

\* The field that handle_conn increments for a call.
KeyOf(c) == IF IsSuccess(c.status) THEN "remote_write_ok" ELSE "remote_write_err"

\* The hash after the increments of some calls.
Incremented(calls) ==
  [key \in Keys |-> edges[key] + Cardinality({k \in calls : KeyOf(conn[k]) = key})]

\* The history of the hash, from now on.
Noted(totals) == [t \in 0..MaxTime |-> IF t >= clock THEN totals ELSE edgesAt[t]]

\* A lost connection: the caller's read fails, the server's task ends.
Reset(c) == [c EXCEPT !.srv = "closed", !.cli = IF @ = "waiting" THEN "err" ELSE @]

\* The connections of s that stand at one of the stages.
Standing(s, stages) ==
  {k \in Conns : conn[k] # NoConn /\ conn[k].server = s /\ conn[k].srv \in stages}

ResetAll(calls) == [k \in Conns |-> IF k \in calls THEN Reset(conn[k]) ELSE conn[k]]

-----------------------------------------------------------------------------

Init ==
  /\ conn = [k \in Conns |-> NoConn]
  /\ edges = None
  /\ flush = [s \in Servers |-> FlushAt("idle")]
  /\ up = Servers
  /\ listening = Servers
  /\ clock = 0
  /\ crashes = 0
  /\ taken = {}
  /\ samples = {}
  /\ edgesAt = [t \in 0..MaxTime |-> None]

-----------------------------------------------------------------------------
(* Calls: Client::remote_write on its connection.                          *)

\* A client connects and writes its request.
Call(k, s, type) ==
  /\ conn[k] = NoConn
  /\ conn' = [conn EXCEPT ![k] =
       [server |-> s,
        type   |-> type,
        srv    |-> IF s \in listening THEN "backlog" ELSE "closed",
        status |-> NoStatus,
        cli    |-> IF s \in listening THEN "waiting" ELSE "err"]]
  /\ UNCHANGED <<edges, flush, up, listening, clock, crashes, taken, samples, edgesAt>>

\* The deadline of a Go caller passes, or the call is cancelled.
GiveUp(k) ==
  /\ conn[k] # NoConn
  /\ conn[k].cli = "waiting"
  /\ conn' = [conn EXCEPT ![k].cli = "err"]
  /\ UNCHANGED <<edges, flush, up, listening, clock, crashes, taken, samples, edgesAt>>

-----------------------------------------------------------------------------
(* handle_conn, cut at its awaits.                                         *)

AtServer(k, stage) == /\ conn[k] # NoConn
                      /\ conn[k].srv = stage
                      /\ conn[k].server \in up

Accept(k) ==
  /\ AtServer(k, "backlog")
  /\ conn[k].server \in listening
  /\ conn' = [conn EXCEPT ![k].srv = "accepted"]
  /\ UNCHANGED <<edges, flush, up, listening, clock, crashes, taken, samples, edgesAt>>

\* read_frame fails: the caller has left or the frame is not readable.
ReadFails(k) ==
  /\ AtServer(k, "accepted")
  /\ conn[k].cli # "waiting" \/ conn[k].type = Unreadable
  /\ conn' = [conn EXCEPT ![k] = Reset(@)]
  /\ UNCHANGED <<edges, flush, up, listening, clock, crashes, taken, samples, edgesAt>>

\* A frame of another type is answered with MSG_ERROR; nothing is counted.
Refuse(k) ==
  /\ AtServer(k, "accepted")
  /\ conn[k].type \notin {MessageType, Unreadable}
  /\ conn' = [conn EXCEPT ![k].srv = "error"]
  /\ UNCHANGED <<edges, flush, up, listening, clock, crashes, taken, samples, edgesAt>>

\* A variant of Forward: the type is not looked at.
ForwardAnyType(k) ==
  /\ AtServer(k, "accepted")
  /\ conn[k].type # Unreadable
  /\ conn' = [conn EXCEPT ![k].srv = "posting"]
  /\ UNCHANGED <<edges, flush, up, listening, clock, crashes, taken, samples, edgesAt>>

\* forward_frame sends the body, as it is, to the upstream.
Forward(k) ==
  /\ AtServer(k, "accepted")
  /\ conn[k].type = MessageType
  /\ conn' = [conn EXCEPT ![k].srv = "posting"]
  /\ UNCHANGED <<edges, flush, up, listening, clock, crashes, taken, samples, edgesAt>>

\* What the upstream may answer, and whether it has stored the body: after
\* anything but a success of its own, the sender cannot know.
Answered(status, took) == /\ status \in Statuses \cup {NoStatus}
                          /\ took \in BOOLEAN
                          /\ Stored(status) => took

\* The answer of the upstream arrives, or the request fails.
PostReturns(k, status, took) ==
  /\ AtServer(k, "posting")
  /\ Answered(status, took)
  /\ conn' = [conn EXCEPT ![k].srv = "counting", ![k].status = status]
  /\ taken' = IF took THEN taken \cup {k} ELSE taken
  /\ UNCHANGED <<edges, flush, up, listening, clock, crashes, samples, edgesAt>>

\* The reply that is due once the outcome is counted.
ReplyTo(c) == IF IsSuccess(c.status) THEN "ack" ELSE "error"

\* A variant of Count that is cut short by the reply.
ReplyUncounted(k) ==
  /\ AtServer(k, "counting")
  /\ conn' = [conn EXCEPT ![k].srv = ReplyTo(conn[k])]
  /\ UNCHANGED <<edges, flush, up, listening, clock, crashes, taken, samples, edgesAt>>

\* incr_edge, before the reply.  An increment that fails is logged only, and
\* may have reached Redis all the same.
Count(k) ==
  /\ AtServer(k, "counting")
  /\ \E calls \in IF "redis" \in Faults THEN SUBSET {k} ELSE {{k}} :
       /\ edges' = Incremented(calls)
       /\ edgesAt' = Noted(Incremented(calls))
  /\ conn' = [conn EXCEPT ![k].srv = ReplyTo(conn[k])]
  /\ UNCHANGED <<flush, up, listening, clock, crashes, taken, samples>>

\* The reply is written and, if the caller still waits, read by it.  An error
\* whose text does not fit in a frame is no reply: the caller has an error too.
Reply(k) ==
  LET c == conn[k] IN
  /\ AtServer(k, "ack") \/ AtServer(k, "error")
  /\ conn' = [conn EXCEPT ![k] =
       [c EXCEPT !.srv = "closed",
                 !.cli = IF @ # "waiting" THEN @ ELSE IF c.srv = "ack" THEN "ok" ELSE "err"]]
  /\ UNCHANGED <<edges, flush, up, listening, clock, crashes, taken, samples, edgesAt>>

-----------------------------------------------------------------------------
(* flush_edges, cut at its awaits.                                         *)

FlushStands(s, pc) == s \in up /\ flush[s].pc = pc

\* The tick: one HGETALL.  With no fields, or when it fails, the round is over
\* with nothing changed: a stuttering step.
ReadTotals(s) ==
  /\ FlushStands(s, "idle")
  /\ edges # None
  /\ flush' = [flush EXCEPT ![s] = [pc |-> "read", totals |-> edges, at |-> 0]]
  /\ UNCHANGED <<conn, edges, up, listening, clock, crashes, taken, samples, edgesAt>>

StampAs(s, at) ==
  /\ FlushStands(s, "read")
  /\ flush' = [flush EXCEPT ![s].pc = "posting", ![s].at = at]
  /\ UNCHANGED <<conn, edges, up, listening, clock, crashes, taken, samples, edgesAt>>

\* Variants of Stamp: rounded down to the instant before, up to the next one.
StampEarly(s) == StampAs(s, IF clock = 0 THEN 0 ELSE clock - 1)
StampLate(s)  == StampAs(s, clock + 1)

\* chrono_now_ms, after the totals have arrived; then the post begins.
Stamp(s) == StampAs(s, clock)

\* A variant of NextRound: an error ends the loop.
NextRoundOrEnd(status) == IF IsSuccess(status) THEN "idle" ELSE "stopped"

\* An error of a round is logged, and the loop goes on.
NextRound(status) == "idle"

\* The post of the samples comes back.
FlushReturns(s, status, took) ==
  /\ FlushStands(s, "posting")
  /\ Answered(status, took)
  /\ Stored(status) \/ "flush" \in Faults
  /\ flush' = [flush EXCEPT ![s] = FlushAt(NextRound(status))]
  /\ samples' = IF took THEN samples \cup {Report(s)} ELSE samples
  /\ UNCHANGED <<conn, edges, up, listening, clock, crashes, taken, edgesAt>>

-----------------------------------------------------------------------------
(* The processes.                                                          *)

\* A variant of Unaccepted: the listening socket outlives the accept loop.
NobodyUnaccepted(s) == {}

\* The connections of s that nobody has accepted.
Unaccepted(s) == Standing(s, {"backlog"})

\* listener.accept fails, or the handle of spawn is aborted.  The tasks of the
\* accepted connections and the flush task were spawned on their own and stay.
ListenerStops(s) ==
  /\ s \in listening
  /\ listening' = listening \ {s}
  /\ conn' = ResetAll(Unaccepted(s))
  /\ UNCHANGED <<edges, flush, up, clock, crashes, taken, samples, edgesAt>>

\* A process ends.  What it had sent may still arrive: a body or the samples
\* at the upstream, an increment at Redis.
End(s) ==
  /\ s \in up
  /\ up' = up \ {s}
  /\ listening' = listening \ {s}
  /\ \E calls \in SUBSET Standing(s, {"counting"}) :
       /\ edges' = Incremented(calls)
       /\ edgesAt' = Noted(Incremented(calls))
  /\ \E late \in SUBSET Standing(s, {"posting"}) : taken' = taken \cup late
  /\ \E late \in SUBSET (IF flush[s].pc = "posting" THEN {Report(s)} ELSE {}) :
       samples' = samples \cup late
  /\ conn' = ResetAll(Standing(s, {"backlog", "accepted", "posting", "counting", "ack", "error"}))
  /\ flush' = [flush EXCEPT ![s] = FlushAt("stopped")]
  /\ UNCHANGED clock

Crash(s) ==
  /\ crashes < MaxCrashes
  /\ crashes' = crashes + 1
  /\ End(s)

\* main of the binary ends with the accept loop, and takes its tasks with it.
Exit(s) ==
  /\ s \in Binaries \ listening
  /\ crashes' = crashes
  /\ End(s)

BootOn(s, totals) ==
  /\ s \notin up
  /\ up' = up \cup {s}
  /\ listening' = listening \cup {s}
  /\ flush' = [flush EXCEPT ![s] = FlushAt("idle")]
  /\ edges' = totals
  /\ edgesAt' = Noted(totals)
  /\ UNCHANGED <<conn, clock, crashes, taken, samples>>

\* A variant of Boot: the counters start again.
BootAnew(s) == BootOn(s, None)

\* Server::new and spawn: the counters are where they were left.
Boot(s) == BootOn(s, edges)

Tick ==
  /\ clock < MaxTime
  /\ clock' = clock + 1
  /\ UNCHANGED <<conn, edges, flush, up, listening, crashes, taken, samples, edgesAt>>

-----------------------------------------------------------------------------

Caller(k) == GiveUp(k) \/ \E s \in Servers, type \in Types : Call(k, s, type)

Handler(k) == \/ ReadFails(k)
              \/ Refuse(k)
              \/ Forward(k)
              \/ \E status \in Statuses \cup {NoStatus}, took \in BOOLEAN :
                   PostReturns(k, status, took)
              \/ Count(k)
              \/ Reply(k)

Flusher(s) == \/ ReadTotals(s)
              \/ Stamp(s)
              \/ \E status \in Statuses \cup {NoStatus}, took \in BOOLEAN :
                   FlushReturns(s, status, took)

Process(s) == ListenerStops(s) \/ Crash(s) \/ Exit(s) \/ Boot(s)

Next == \/ \E k \in Conns : Caller(k) \/ Accept(k) \/ Handler(k)
        \/ \E s \in Servers : Flusher(s) \/ Process(s)
        \/ Tick

Spec == Init /\ [][Next]_vars

\* The runtime polls every task that can go on, main among them, and the upstream
\* answers in the end.  Nothing forces a call, a crash or a restart.
Fairness == /\ \A k \in Conns : WF_vars(Accept(k)) /\ WF_vars(Handler(k))
            /\ \A s \in Servers : WF_vars(Flusher(s)) /\ WF_vars(Exit(s))

FairSpec == Spec /\ Fairness

-----------------------------------------------------------------------------
(* Types.                                                                  *)

\* Every variable keeps the shape its Rust type gives it.
TypeOK ==
  /\ conn \in [Conns -> ConnStates \cup {NoConn}]
  /\ edges \in Totals
  /\ flush \in [Servers -> FlushStates]
  /\ up \in SUBSET Servers
  /\ listening \in SUBSET up
  /\ clock \in 0..MaxTime
  /\ crashes \in 0..MaxCrashes
  /\ taken \in SUBSET Conns
  /\ samples \in SUBSET [at : 0..MaxTime, totals : Totals]
  /\ edgesAt \in [0..MaxTime -> Totals]

-----------------------------------------------------------------------------
(* Safety.                                                                 *)

Acked == {k \in Conns : conn[k] # NoConn /\ conn[k].cli = "ok"}

\* A caller that got an ack can rely on it: the upstream has stored its body,
\* whatever was lost, refused or cut short on the way (server.rs:162-176, :236-244).
AckedIsTaken == Acked \subseteq taken

\* The ok counter never runs ahead of the bodies the upstream has stored, in
\* spite of crashes and increments whose answer was lost (server.rs:164).
CountsAreTaken == edges["remote_write_ok"] <= Cardinality(taken)

\* As long as Redis works, the ok counter has every call whose ack was read,
\* and keeps it over restarts: the increment is awaited before the reply
\* (server.rs:164-175) and the hash outlives the process (edge.rs:1).
AckedIsCounted == "redis" \notin Faults => Cardinality(Acked) <= edges["remote_write_ok"]

AtMost(x, y) == \A key \in Keys : x[key] <= y[key]

\* A sample never claims more than had been counted at its timestamp: the
\* totals are read before the clock (server.rs:192, :197), and a request of
\* another server or of a process that died may arrive at any later time.
SamplesNotAhead == \A x \in samples : AtMost(x.totals, edgesAt[x.at])

\* With one server the reported counter never steps back over time, although
\* the clock is read after the totals and a round may fail or be cut short by a
\* restart: a step back is a counter reset to the upstream (server.rs:192-220).
SamplesMonotone == \A x, y \in samples : x.at < y.at => AtMost(x.totals, y.totals)

-----------------------------------------------------------------------------
(* What the proxy promises, all in all.                                    *)

Made == {k \in Conns : conn[k] # NoConn}

\* Whatever fails, crashes or arrives late, what callers and upstream see of the
\* servers on one hash is what PromForwarder allows: only a body of the right type
\* is stored, if need be after its call has failed, an outcome is final, and the
\* total stays between what was acked and what was stored (server.rs:149-220).
Forwarder == INSTANCE PromForwarder WITH
  Calls    <- Conns,
  Lossless <- "redis" \notin Faults,
  outcome  <- [k \in Conns |-> IF k \in Made THEN conn[k].cli ELSE "unmade"],
  writes   <- {k \in Made : conn[k].type = MessageType},
  stored   <- taken,
  total    <- edges["remote_write_ok"],
  reported <- {x.totals["remote_write_ok"] : x \in samples}

ImplementsForwarder == Forwarder!Spec

-----------------------------------------------------------------------------
(* Liveness, under FairSpec.                                               *)

\* Every call returns to its caller, with the process up or down: a refused or
\* unreadable frame, a failed post and a reply that does not fit included
\* (server.rs:149-185, client.rs:88).
CallsReturn ==
  \A k \in Conns : (conn[k] # NoConn /\ conn[k].cli = "waiting")
                    ~> (conn[k] # NoConn /\ conn[k].cli # "waiting")

FailedRound(s) == \E status \in Statuses \cup {NoStatus}, took \in BOOLEAN :
                    ~Stored(status) /\ FlushReturns(s, status, took)

Reported(key) == edges[key] = 0 \/ \E x \in samples : x.totals[key] = edges[key]

\* If some server stays up and its rounds succeed from some time on, the
\* totals keep reaching the upstream: failed rounds do not end the flush loop,
\* and neither does, in a program that embeds the server, an accept loop that has
\* gone (server.rs:125-134).
TotalsReported ==
  \A s \in Servers :
    (<>[](s \in up) /\ <>[][~FailedRound(s)]_vars) => \A key \in Keys : []<>Reported(key)

=============================================================================
