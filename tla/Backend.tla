------------------------------- MODULE Backend -------------------------------
(***************************************************************************)
(* The process of the awareness service (butler/awareness): its start and   *)
(* its shutdown (api/app.py), the loops it runs, which are the polling      *)
(* workers and the MQTT ingress with its reconnects                         *)
(* (ingestion/mqtt_client.py), and the health answer that a request puts    *)
(* together from them and from the database (api/routes/health.py,          *)
(* health/service.py).                                                      *)
(*                                                                         *)
(* One event loop runs everything: a step lasts from one await to the next. *)
(* What a pass of a worker does is in SourceState, Attention and Briefing;  *)
(* here it succeeds or fails with the database.                             *)
(***************************************************************************)
EXTENDS Integers, Sequences

CONSTANTS
  StopOrder,    \* the workers, as lifespan stops them
  ReadFirst,    \* workers a health request reads after its first await
  ReadSecond,   \* and after its second; the others it reads at once
  Ignored,      \* workers switched off by configuration
  Topics,       \* how many subscriptions the ingress makes
  Cap           \* attempts after which the backoff grows no more

Workers == {StopOrder[i] : i \in DOMAIN StopOrder}

ASSUME BackendAssumption ==
  /\ StopOrder \in Seq(STRING) /\ Workers \cap {"database", "schema", "mqtt"} = {}
  /\ ReadFirst \cap ReadSecond = {} /\ ReadFirst \cup ReadSecond \cup Ignored \subseteq Workers
  /\ {Topics, Cap} \subseteq Nat \ {0}

VARIABLES
  process,  \* phase: starting, serving, stopping, stopped; at: what it stops now
  world,    \* database, schema and broker
  loop,     \* of each worker: where it is, _state, _last_error, stop, cancel
  ingress,  \* where MqttIngress is, _state, _last_error, attempt, subscriptions to
            \* make, whether the link is cut, stop, cancel
  query     \* a request for the health, with what is watched meanwhile

bkVars == <<process, world, loop, ingress, query>>

Components == Workers \cup {"database", "schema", "mqtt"}
NoQuery == [stage |-> "none", sick |-> FALSE, watch |-> "database", fine |-> FALSE, ill |-> FALSE]

BkInit ==
  /\ process = [phase |-> "starting", at |-> 1]
  /\ world \in [database : {"up", "down"}, schema : {"none", "behind", "head"},
                broker : {"up", "down"}]
  /\ loop = [w \in Workers |->
       [pc |-> "off", state |-> "stopped", failed |-> FALSE, stop |-> FALSE, cancel |-> FALSE]]
  /\ ingress = [pc |-> "off", state |-> "disconnected", failed |-> FALSE, attempt |-> 0,
                left |-> Topics, cut |-> FALSE, stop |-> FALSE, cancel |-> FALSE]
  /\ query = NoQuery

-----------------------------------------------------------------------------
(* The surroundings                                                         *)

Linked == {"subscribing", "listening", "handling"}

DatabaseFlips ==
  /\ world' = [world EXCEPT !.database = IF @ = "up" THEN "down" ELSE "up"]
  /\ UNCHANGED <<process, loop, ingress>>

\* A broker that goes away cuts the link; the loop learns of it at its next await.
BrokerFlips ==
  /\ world' = [world EXCEPT !.broker = IF @ = "up" THEN "down" ELSE "up"]
  /\ ingress' = [ingress EXCEPT !.cut = @ \/ (ingress.pc \in Linked /\ world.broker = "up")]
  /\ UNCHANGED <<process, loop>>

\* python -m butler.awareness migrate, by an operator
Migrate ==
  /\ world.database = "up" /\ world.schema # "head"
  /\ world' = [world EXCEPT !.schema = "head"]
  /\ UNCHANGED <<process, loop, ingress>>

-----------------------------------------------------------------------------
(* Start and shutdown                                                       *)

\* The policy, the registry and its snapshot go to the database first; that none
\* of them is written does not stop the start.
Boot ==
  /\ process.phase = "starting"
  /\ process' = [process EXCEPT !.phase = "serving"]
  /\ loop' = [w \in Workers |-> [loop[w] EXCEPT !.pc = "pass", !.state = "running"]]
  /\ ingress' = [ingress EXCEPT !.pc = "retry"]
  /\ UNCHANGED world

\* The server lets requests finish before it shuts down.
Shutdown ==
  /\ process.phase = "serving" /\ query.stage = "none"
  /\ process' = [process EXCEPT !.phase = "stopping"]
  /\ UNCHANGED <<world, loop, ingress>>

Stopping(i) == process.phase = "stopping" /\ process.at = i

StopWorker ==
  \E i \in DOMAIN StopOrder :
    /\ Stopping(i) /\ ~loop[StopOrder[i]].stop
    /\ loop' = [loop EXCEPT ![StopOrder[i]] = [@ EXCEPT !.stop = TRUE, !.cancel = TRUE]]
    /\ UNCHANGED <<process, world, ingress>>

Joined == \E i \in DOMAIN StopOrder : Stopping(i) /\ loop[StopOrder[i]].stop /\ loop[StopOrder[i]].pc = "gone"

NextTask ==
  /\ Joined
  /\ process' = [process EXCEPT !.at = @ + 1]
  /\ UNCHANGED <<world, loop, ingress>>

StopIngress ==
  /\ Stopping(Len(StopOrder) + 1) /\ ~ingress.stop
  /\ ingress' = [ingress EXCEPT !.stop = TRUE, !.cancel = ingress.pc # "gone"]
  /\ UNCHANGED <<process, world, loop>>

\* engine.dispose, the last thing
Dispose ==
  /\ Stopping(Len(StopOrder) + 1) /\ ingress.stop /\ ingress.pc = "gone"
  /\ process' = [process EXCEPT !.phase = "stopped"]
  /\ UNCHANGED <<world, loop, ingress>>

-----------------------------------------------------------------------------
(* A polling worker                                                         *)

\* An outbox worker that found something does not wait.
PassEnds(w, ok) ==
  \E next \in {"wait", "pass"} :
    loop' = [loop EXCEPT ![w] = [@ EXCEPT !.pc = next, !.failed = ~ok]]

Pass(w) ==
  /\ loop[w].pc = "pass" /\ ~loop[w].cancel
  /\ \/ world.database = "up" /\ world.schema # "none" /\ PassEnds(w, TRUE)
     \/ (world.database = "down" \/ world.schema # "head") /\ PassEnds(w, FALSE)
  /\ UNCHANGED <<process, world, ingress>>

Wake(w) ==
  /\ loop[w].pc = "wait" /\ ~loop[w].cancel
  /\ loop' = [loop EXCEPT ![w].pc = "pass"]
  /\ UNCHANGED <<process, world, ingress>>

\* CancelledError passes the except clause; finally says stopped.
Cancelled(w) ==
  /\ loop[w].cancel /\ loop[w].pc # "gone"
  /\ loop' = [loop EXCEPT ![w] = [@ EXCEPT !.pc = "gone", !.state = "stopped", !.cancel = FALSE]]
  /\ UNCHANGED <<process, world, ingress>>

\* wait_for may return what was set a moment before instead of raising: then only
\* the loop's own look at the event ends it.
CancelSwallowed(w) ==
  /\ loop[w].cancel /\ loop[w].pc = "wait" /\ loop[w].stop
  /\ loop' = [loop EXCEPT ![w] = [@ EXCEPT !.pc = "gone", !.state = "stopped", !.cancel = FALSE]]
  /\ UNCHANGED <<process, world, ingress>>

WorkerStep(w) == Pass(w) \/ Wake(w) \/ Cancelled(w) \/ CancelSwallowed(w)

-----------------------------------------------------------------------------
(* The MQTT ingress                                                         *)

Running == ~ingress.cancel

Ended == [ingress EXCEPT !.pc = "gone", !.state = "stopped", !.cancel = FALSE]

Connect ==
  /\ ingress.pc = "retry" /\ Running
  /\ ingress' = [ingress EXCEPT !.pc = "connecting", !.state = "connecting"]
  /\ UNCHANGED <<process, world, loop>>

\* A certificate file that cannot be read is no MqttError and ends the loop.
CertificateUnreadable ==
  /\ ingress.pc = "retry" /\ Running
  /\ ingress' = Ended
  /\ UNCHANGED <<process, world, loop>>

Connected ==
  /\ ingress.pc = "connecting" /\ Running /\ world.broker = "up"
  /\ ingress' = [ingress EXCEPT !.pc = "subscribing", !.state = "connected", !.failed = FALSE,
                                !.attempt = 0, !.left = Topics, !.cut = FALSE]
  /\ UNCHANGED <<process, world, loop>>

Subscribe ==
  /\ ingress.pc = "subscribing" /\ Running /\ ~ingress.cut
  /\ ingress' = [ingress EXCEPT !.left = @ - 1, !.pc = IF ingress.left = 1 THEN "listening" ELSE @]
  /\ UNCHANGED <<process, world, loop>>

MessageArrives ==
  /\ ingress.pc = "listening" /\ Running /\ ~ingress.cut
  /\ ingress' = [ingress EXCEPT !.pc = "handling"]
  /\ UNCHANGED <<process, world, loop>>

\* IngestionPipeline.handle never raises.
Handled ==
  /\ ingress.pc = "handling" /\ Running
  /\ ingress' = [ingress EXCEPT !.pc = "listening"]
  /\ UNCHANGED <<process, world, loop>>

\* Fault for mutation: the loss of a link is not shown.
LinkFails_StillConnected ==
  /\ Running
  /\ \/ ingress.pc = "connecting" /\ world.broker = "down"
     \/ ingress.pc \in {"subscribing", "listening"} /\ ingress.cut
  /\ ingress' = [ingress EXCEPT !.pc = "backoff", !.failed = TRUE, !.cut = FALSE,
                                !.attempt = IF @ < Cap THEN @ + 1 ELSE @]
  /\ UNCHANGED <<process, world, loop>>

\* MqttError
LinkFails ==
  /\ Running
  /\ \/ ingress.pc = "connecting" /\ world.broker = "down"
     \/ ingress.pc \in {"subscribing", "listening"} /\ ingress.cut
  /\ ingress' = [ingress EXCEPT !.pc = "backoff", !.state = "disconnected", !.failed = TRUE,
                                !.cut = FALSE, !.attempt = IF @ < Cap THEN @ + 1 ELSE @]
  /\ UNCHANGED <<process, world, loop>>

\* backoff_delay is over
BackoffEnds ==
  /\ ingress.pc = "backoff" /\ Running
  /\ ingress' = [ingress EXCEPT !.pc = "retry"]
  /\ UNCHANGED <<process, world, loop>>

IngressCancelled ==
  /\ ingress.cancel /\ ingress.pc # "gone"
  /\ ingress' = Ended
  /\ UNCHANGED <<process, world, loop>>

IngressStep ==
  \/ Connect \/ CertificateUnreadable \/ Connected \/ Subscribe \/ Handled \/ LinkFails
  \/ BackoffEnds \/ IngressCancelled

-----------------------------------------------------------------------------
(* GET /health                                                              *)

WorkerSick(S) == \E w \in S \ Ignored : loop[w].state # "running" \/ loop[w].failed

Reads(stage, next, sick) ==
  /\ query.stage = stage
  /\ query' = [query EXCEPT !.stage = next, !.sick = @ \/ sick]
  /\ UNCHANGED <<process, world, loop, ingress>>

\* Whether a component is as it should be.
Fine(c) ==
  IF c = "database" THEN world.database = "up"
  ELSE IF c = "schema" THEN world.database = "up" /\ world.schema = "head"
  ELSE IF c = "mqtt" THEN ingress.pc \in Linked
  ELSE c \in Ignored \/ (loop[c].pc \in {"pass", "wait"} /\ ~loop[c].failed)

\* A component chosen to be watched from here to the answer: has it been fine at
\* some moment of the request, has it been ill at some?
Ask ==
  /\ process.phase = "serving" /\ query.stage = "none"
  /\ \E c \in Components :
       query' = [NoQuery EXCEPT !.stage = "first", !.watch = c,
                   !.sick = WorkerSick(Workers \ (ReadFirst \cup ReadSecond)),
                   !.fine = Fine(c), !.ill = ~Fine(c)]
  /\ UNCHANGED <<process, world, loop, ingress>>

\* OutboxWorker.status awaits its backlog, whether or not the database has it.
ReadLoops ==
  Reads("first", "second", WorkerSick(ReadFirst) \/ ingress.state # "connected")

ReadOutbox == Reads("second", "database", WorkerSick(ReadSecond))

Unreachable ==
  /\ world.database = "down"
  /\ query.stage = "database"
  /\ query' = [query EXCEPT !.stage = "unavailable"]
  /\ UNCHANGED <<process, world, loop, ingress>>

Reachable == world.database = "up" /\ Reads("database", "extensions", FALSE)

\* The database may be gone by now: unavailable extensions make the whole degraded.
ReadExtensions == Reads("extensions", "migrations", world.database = "down" \/ world.schema = "none")

ReadMigrations ==
  /\ query.stage = "migrations"
  /\ query' = [query EXCEPT !.stage =
       IF query.sick \/ world.database = "down" \/ world.schema # "head" THEN "degraded" ELSE "healthy"]
  /\ UNCHANGED <<process, world, loop, ingress>>

Answers == {"healthy", "degraded", "unavailable"}

Forget ==
  /\ query.stage \in Answers
  /\ query' = NoQuery
  /\ UNCHANGED <<process, world, loop, ingress>>

Health ==
  \/ Ask \/ ReadLoops \/ ReadOutbox \/ Unreachable \/ Reachable \/ ReadExtensions
  \/ ReadMigrations \/ Forget

Asking == query.stage \notin {"none"} \cup Answers

Watched ==
  \E c \in {query.watch} :
    query' = IF Asking THEN [query EXCEPT !.fine = @ \/ Fine(c)', !.ill = @ \/ ~Fine(c)'] ELSE query

-----------------------------------------------------------------------------
Work ==
  \/ DatabaseFlips \/ BrokerFlips \/ Migrate
  \/ Boot \/ Shutdown \/ StopWorker \/ NextTask \/ StopIngress \/ Dispose
  \/ \E w \in Workers : WorkerStep(w)
  \/ IngressStep \/ MessageArrives

BkNext == Health \/ (Work /\ Watched)

\* The event loop runs what is ready; timers fire and a broken link is noticed.
LoopRuns(w) == WorkerStep(w) /\ Watched
IngressRuns == IngressStep /\ Watched
StopRuns == (StopWorker \/ NextTask \/ StopIngress \/ Dispose) /\ Watched

BkSpec ==
  /\ BkInit /\ [][BkNext]_bkVars
  /\ \A w \in Workers : WF_bkVars(LoopRuns(w))
  /\ WF_bkVars(IngressRuns) /\ WF_bkVars(StopRuns)

-----------------------------------------------------------------------------
BackendTypeOK ==
  /\ process \in [phase : {"starting", "serving", "stopping", "stopped"}, at : 1 .. Len(StopOrder) + 1]
  /\ world \in [database : {"up", "down"}, schema : {"none", "behind", "head"},
                broker : {"up", "down"}]
  /\ loop \in [Workers -> [pc : {"off", "pass", "wait", "gone"}, state : {"running", "stopped"},
                           failed : BOOLEAN, stop : BOOLEAN, cancel : BOOLEAN]]
  /\ ingress \in [pc : {"off", "retry", "connecting", "backoff", "gone"} \cup Linked,
                  state : {"disconnected", "connecting", "connected", "stopped"}, failed : BOOLEAN,
                  attempt : 0 .. Cap, left : 0 .. Topics, cut : BOOLEAN, stop : BOOLEAN, cancel : BOOLEAN]
  /\ query \in [stage : {"none", "first", "second", "database", "extensions", "migrations"}
                         \cup Answers,
                sick : BOOLEAN, watch : Components, fine : BOOLEAN, ill : BOOLEAN]

\* "Callers are never told a broken system is fine" (api/routes/health.py): every
\* component of a healthy answer was fine at some moment of the request, and 503
\* is said only if the database was away at some moment of it.
HealthIsTruthful ==
  /\ query.stage = "healthy" => query.fine
  /\ query.stage = "unavailable" /\ query.watch = "database" => query.ill

\* The engine is disposed of when nothing runs that could use it.
EngineOutlivesItsUsers ==
  process.phase = "stopped" => ingress.pc = "gone" /\ \A w \in Workers : loop[w].pc = "gone"

Serving == process.phase = "serving"
Usable == world.database = "up" /\ world.schema = "head"

\* An outage leaves no error behind, the ingress finds a broker that is there, as
\* long as its loop lives, and a shutdown ends.
ErrorsClear ==
  \A w \in Workers : Serving /\ loop[w].failed ~> ~loop[w].failed \/ ~Usable \/ ~Serving

Listens ==
  Serving /\ world.broker = "up" ~>
    \/ ingress.pc \in {"listening", "handling"}
    \/ ingress.pc = "gone" \/ world.broker = "down" \/ ~Serving

ShutdownEnds == process.phase = "stopping" ~> process.phase = "stopped"

=============================================================================
