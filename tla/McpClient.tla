----------------------------- MODULE McpClient -----------------------------
(* The tool client of the agent (butler/mcp_client/client.py): one asyncio    *)
(* loop owns a connection per provider; the threads of the main process ask   *)
(* it for the catalogue, for calls and for retries.  A step is what the loop  *)
(* does between two awaits.                                                   *)
EXTENDS Integers, Sequences, FiniteSets

CONSTANTS Eager,     \* providers started by whoever needs them, numbered in the order of _configs
          Deferred,  \* providers that warm in the background
          Callers,   \* threads that use the client
          Attempts,  \* reconnect_attempts + 1
          Tolerance, \* failure_threshold; the count is not told apart beyond it
          Opens      \* bound: connections opened per provider

ASSUME McpAssumption ==
  /\ Eager \cap Deferred = {} /\ Eager \cup Deferred \subseteq Nat
  /\ Attempts \in Nat \ {0} /\ Tolerance \in Nat \ {0} /\ Opens \in Nat

Providers == Eager \cup Deferred
StartTasks == 1 .. Opens

VARIABLES session, \* [Providers -> the start task whose session _session is, or 0]
          up,      \* [Providers -> that session has been initialised]
          stack,   \* [Providers -> _exit_stack is set]
          starts,  \* [Providers -> [StartTasks -> what has become of connection.start()]]
          warmed,  \* [Providers -> the tasks under way of _background_warmup]
          pending, \* [Providers -> the task in _pending_starts, or 0]
          stray,   \* [Providers -> tasks under way that have lost their place there]
          broken,  \* [Providers -> cleanups scheduled for a start that raised]
          status,  \* [Providers -> McpServerStatus.status]
          failures,
          routes, cache, \* providers with tools in _tool_routes, _tool_cache
          caller,  \* [Callers -> its request]
          born     \* [Providers -> start tasks so far]

mcVars == <<session, up, stack, starts, warmed, pending, stray, broken, status, failures,
            routes, cache, caller, born>>
tasks == <<starts, warmed, born>>
connection == <<session, up, stack>>
link == <<connection, tasks, pending, stray, broken>>
health == <<status, failures>>
catalogue == <<routes, cache>>

NoCache == {-1}   \* no provider has this number
NoRequest == [goal |-> "idle", target |-> {}, todo |-> {}, at |-> "ensure",
              task |-> 0, found |-> {}, tries |-> 0]

Requests ==
  [goal : {"idle", "list", "wake", "run", "retry", "store"}, target : SUBSET Providers,
   todo : SUBSET Providers, at : {"ensure", "starting", "started", "refused", "closing", "ask"},
   task : 0 .. Opens, found : SUBSET Providers, tries : 0 .. Attempts]

\* "won" and "raised" are done, with _on_start_task_done still to be called.
Phases == {"none", "new", "transport", "handshake", "won", "raised", "over"}

McpTypeOK ==
  /\ session \in [Providers -> 0 .. Opens] /\ {up, stack} \subseteq [Providers -> BOOLEAN]
  /\ starts \in [Providers -> [StartTasks -> Phases]] /\ born \in [Providers -> 0 .. Opens]
  /\ {warmed, stray} \subseteq [Providers -> SUBSET StartTasks]
  /\ pending \in [Providers -> 0 .. Opens] /\ broken \in [Providers -> Nat]
  /\ status \in [Providers -> {"not_started", "starting", "warming", "reconnecting",
                               "healthy", "degraded", "failed"}]
  /\ failures \in [Providers -> 0 .. Tolerance]
  /\ routes \subseteq Providers /\ (cache = NoCache \/ cache \subseteq Providers)
  /\ caller \in [Callers -> Requests]

McInit ==
  /\ session = [s \in Providers |-> 0]
  /\ up = [s \in Providers |-> FALSE] /\ stack = [s \in Providers |-> FALSE]
  /\ starts = [s \in Providers |-> [i \in StartTasks |-> "none"]]
  /\ pending = [s \in Providers |-> 0] /\ broken = [s \in Providers |-> 0]
  /\ warmed = [s \in Providers |-> {}] /\ stray = [s \in Providers |-> {}]
  /\ status = [s \in Providers |-> "not_started"]
  /\ failures = [s \in Providers |-> 0]
  /\ routes = {} /\ cache = NoCache
  /\ caller = [c \in Callers |-> NoRequest] /\ born = [s \in Providers |-> 0]

-----------------------------------------------------------------------------
(* What marks a provider.                                                     *)

\* The provider that a request is at: the first that is left.
Asks(c, s) == s \in caller[c].todo /\ \A r \in caller[c].todo : s <= r

\* The start tasks that are not done.
UnderWay(s) == {i \in StartTasks : starts[s][i] \in {"new", "transport", "handshake"}}

ServerRunning(s) == session[s] # 0   \* is_running, from before initialize() on
Ready(s) == status[s] = "healthy" /\ ServerRunning(s)   \* _deferred_provider_ready

MarkHealthy(s) ==
  /\ status' = [status EXCEPT ![s] = "healthy"]
  /\ failures' = [failures EXCEPT ![s] = 0]

MarkTransient(s, as) ==
  status' = [status EXCEPT ![s] = as] /\ UNCHANGED failures

\* The count, the status and the routes of _mark_server_failed.
CountFailure(s) ==
  LET n == failures[s] + 1
  IN /\ failures' = [failures EXCEPT ![s] = IF n > Tolerance THEN Tolerance ELSE n]
     /\ status' = [status EXCEPT ![s] = IF n >= Tolerance THEN "failed" ELSE "degraded"]
     /\ routes' = routes \ {s} /\ cache' = NoCache

\* connection.stop() as it ends.  With a stack there is an await before, in which
\* nothing has changed yet; when that raises or runs out of time, nothing ever does.
StopConnection(s) ==
  \/ /\ session' = [session EXCEPT ![s] = 0]
     /\ up' = [up EXCEPT ![s] = FALSE] /\ stack' = [stack EXCEPT ![s] = FALSE]
  \/ stack[s] /\ UNCHANGED connection

NewTask(s) ==
  /\ born[s] < Opens
  /\ born' = [born EXCEPT ![s] = @ + 1]
  /\ starts' = [starts EXCEPT ![s][born[s] + 1] = "new"]
  /\ pending' = [pending EXCEPT ![s] = born[s] + 1]

\* The pop of _pending_starts that asks for its own task first.
Unlist(s, i) == pending' = [pending EXCEPT ![s] = IF @ = i THEN 0 ELSE @]

-----------------------------------------------------------------------------
(* The start tasks.                                                           *)

Become(s, i, phase) == starts' = [starts EXCEPT ![s][i] = phase]

\* A task that finds a session set has nothing to do.
BeginTask(s, i) ==
  /\ starts[s][i] = "new" /\ ~ServerRunning(s)
  /\ Become(s, i, "transport")
  /\ UNCHANGED <<connection, warmed, pending, stray, broken, health, catalogue, caller, born>>

\* The session is set as soon as the transport is open, before initialize().
OpenSession(s, i) ==
  /\ starts[s][i] = "transport"
  /\ Become(s, i, "handshake")
  /\ session' = [session EXCEPT ![s] = i] /\ up' = [up EXCEPT ![s] = FALSE]
  /\ UNCHANGED <<stack, warmed, pending, stray, broken, health, catalogue, caller, born>>

\* connection.start() is over for whoever waits for it.
StartOver(s, i, as) ==
  /\ warmed' = [warmed EXCEPT ![s] = @ \ {i}] /\ stray' = [stray EXCEPT ![s] = @ \ {i}]
  /\ caller' = [c \in Callers |->
       IF caller[c].at = "starting" /\ Asks(c, s) /\ caller[c].task = i
         THEN [caller[c] EXCEPT !.at = as, !.task = 0] ELSE caller[c]]

\* initialize() answered, whether or not somebody stopped the connection meanwhile.
StartSucceeds(s, i) ==
  /\ \/ /\ starts[s][i] = "handshake"
        /\ stack' = [stack EXCEPT ![s] = TRUE]
        /\ up' = [up EXCEPT ![s] = @ \/ session[s] = i]
     \/ /\ starts[s][i] = "new" /\ ServerRunning(s)
        /\ UNCHANGED <<up, stack>>
  /\ IF i \in warmed[s]
       THEN /\ Become(s, i, "over") /\ Unlist(s, i)
            /\ MarkHealthy(s) /\ cache' = NoCache
       ELSE Become(s, i, "won") /\ UNCHANGED <<pending, health, cache>>
  /\ StartOver(s, i, "started")
  /\ UNCHANGED <<session, broken, routes, born>>

\* It raised and its own stack is closed.  _background_warmup marks the failure
\* before it gives up its place.
StartFails(s, i) ==
  /\ starts[s][i] \in {"transport", "handshake"}
  /\ IF i \in warmed[s]
       THEN /\ Become(s, i, "over") /\ Unlist(s, i)
            /\ StopConnection(s) /\ CountFailure(s)
       ELSE Become(s, i, "raised") /\ UNCHANGED <<pending, connection, health, catalogue>>
  /\ StartOver(s, i, "refused")
  /\ UNCHANGED <<broken, born>>

\* _on_start_task_done: the provider is healthy and the catalogues are dropped, or
\* the cleanup becomes a task of its own.
TaskDone(s, i) ==
  /\ Become(s, i, "over") /\ Unlist(s, i)
  /\ \/ /\ starts[s][i] = "won"
        /\ MarkHealthy(s) /\ cache' = NoCache
        /\ UNCHANGED <<broken, routes>>
     \/ /\ starts[s][i] = "raised"
        /\ broken' = [broken EXCEPT ![s] = @ + 1]
        /\ UNCHANGED <<health, catalogue>>
  /\ UNCHANGED <<connection, warmed, stray, caller, born>>

CleanUp(s) ==
  /\ broken[s] > 0
  /\ broken' = [broken EXCEPT ![s] = @ - 1]
  /\ StopConnection(s) /\ CountFailure(s)
  /\ UNCHANGED <<tasks, pending, stray, caller>>

\* _schedule_background_start: autostart, start_server in the background.
Warm(s) ==
  /\ s \in Deferred
  /\ IF ServerRunning(s)
       THEN MarkHealthy(s) /\ UNCHANGED link
       ELSE /\ pending[s] \notin UnderWay(s)
            /\ MarkTransient(s, "warming") /\ NewTask(s)
            /\ warmed' = [warmed EXCEPT ![s] = @ \cup {born[s] + 1}]
            /\ UNCHANGED <<connection, stray, broken>>
  /\ UNCHANGED <<catalogue, caller>>

-----------------------------------------------------------------------------
(* Requests.                                                                  *)

\* list_tools, call_tool, retry_server.  A cached catalogue is answered at once;
\* a tool without a route first wakes its deferred owner and lists again.
Request(c) ==
  /\ caller[c] = NoRequest
  /\ \/ /\ cache = NoCache
        /\ caller' = [caller EXCEPT ![c].goal = "list", ![c].todo = Providers]
     \/ \E s \in Providers :
          caller' = [caller EXCEPT ![c].target = {s},
            ![c].goal = IF s \in routes THEN "run"
                        ELSE IF s \in Deferred /\ ~ServerRunning(s) THEN "wake" ELSE "list",
            ![c].todo = IF s \in routes \/ (s \in Deferred /\ ~ServerRunning(s))
                          THEN {s} ELSE Providers]
     \/ caller' = [caller EXCEPT ![c].goal = "retry",
                     ![c].todo = {s \in Providers : status[s] # "healthy"}]
  /\ UNCHANGED <<link, health, catalogue>>

\* The next provider, when this one is done with (found or not).
Advance(c, s, found) ==
  caller' = [caller EXCEPT ![c].todo = @ \ {s}, ![c].at = "ensure", ![c].task = 0,
                           ![c].found = @ \cup found, ![c].tries = 0]

GiveUp(c) == caller' = [caller EXCEPT ![c] = NoRequest]

\* What a provider that is not to be had means for the request.
Refuse(c, s) == IF caller[c].goal = "run" THEN GiveUp(c) ELSE Advance(c, s, {})

ForceRetry(c) == caller[c].goal \in {"retry", "wake"} \/ caller[c].tries > 0
Settled(c, s) == IF caller[c].goal \in {"retry", "wake"}
                 THEN Advance(c, s, {})
                 ELSE caller' = [caller EXCEPT ![c].at = "ask"]

\* The pop that asks for nothing: it takes out whatever task is there.
DropPending(s) ==
  /\ pending' = [pending EXCEPT ![s] = 0]
  /\ stray' = [stray EXCEPT ![s] = @ \cup ({pending[s]} \cap UnderWay(s))]

\* A start that is done, for the request that had it in its hand.
Accepted(c, s) ==
  /\ DropPending(s) /\ MarkHealthy(s) /\ Settled(c, s)
  /\ UNCHANGED <<connection, tasks, broken, catalogue>>

Rejected(c, s) ==
  /\ DropPending(s)
  /\ IF stack[s]
       THEN /\ caller' = [caller EXCEPT ![c].at = "closing"]
            /\ UNCHANGED <<connection, health, catalogue>>
       ELSE StopConnection(s) /\ CountFailure(s) /\ Refuse(c, s)
  /\ UNCHANGED <<tasks, broken>>

Closed(c, s) ==
  /\ caller[c].at = "closing"
  /\ StopConnection(s) /\ CountFailure(s) /\ Refuse(c, s)
  /\ UNCHANGED <<tasks, pending, stray, broken>>

\* The request creates the start task and waits for it.
StartFor(c, s) ==
  /\ NewTask(s)
  /\ caller' = [caller EXCEPT ![c].at = "starting", ![c].task = born[s] + 1]
  /\ UNCHANGED <<connection, warmed, stray, broken>>

\* Mutant: _pending_starts is not asked.
Ensure_Fault(c, s) ==
  /\ caller[c].at = "ensure"
  /\ \/ /\ ServerRunning(s)
        /\ MarkHealthy(s) /\ Settled(c, s)
        /\ UNCHANGED link
     \/ /\ ~ServerRunning(s)
        /\ MarkTransient(s, "starting")
        /\ StartFor(c, s)
     \/ /\ ~ServerRunning(s) /\ born[s] = Opens
        /\ Refuse(c, s) /\ UNCHANGED <<link, health>>
  /\ UNCHANGED catalogue

\* A deferred provider is only listed when it is ready.
PassOver(c, s) ==
  /\ UNCHANGED <<link, health>>
  /\ IF Ready(s) THEN caller' = [caller EXCEPT ![c].at = "ask"] ELSE Advance(c, s, {})

\* _async_ensure_started up to its wait.
EnsureStarted(c, s) ==
  \/ /\ ServerRunning(s)
     /\ MarkHealthy(s) /\ Settled(c, s)
     /\ UNCHANGED link
  \/ /\ ~ServerRunning(s) /\ pending[s] \in UnderWay(s)
     /\ MarkTransient(s, IF status[s] = "warming" THEN "warming"
                         ELSE IF failures[s] > 0 THEN "reconnecting" ELSE "starting")
     /\ Refuse(c, s) /\ UNCHANGED link
  \/ /\ ~ServerRunning(s) /\ pending[s] = 0
     /\ (failures[s] > 0 /\ ~ForceRetry(c)) \/ born[s] = Opens
     /\ Refuse(c, s) /\ UNCHANGED <<link, health>>
  \/ /\ ~ServerRunning(s) /\ pending[s] = 0
     /\ failures[s] = 0 \/ ForceRetry(c)
     /\ MarkTransient(s, IF failures[s] > 0 THEN "reconnecting" ELSE "starting")
     /\ StartFor(c, s)

Ensure(c, s) ==
  /\ caller[c].at = "ensure"
  /\ \/ /\ UNCHANGED catalogue
        /\ IF caller[c].goal = "list" /\ s \in Deferred THEN PassOver(c, s)
                                                       ELSE EnsureStarted(c, s)
     \/ /\ ~(caller[c].goal = "list" /\ s \in Deferred)
        /\ ~ServerRunning(s) /\ pending[s] \in StartTasks \ UnderWay(s)
        /\ IF starts[s][pending[s]] = "won" THEN Accepted(c, s) ELSE Rejected(c, s)

\* Mutant: the wait for a start has no timeout.
StartEnded_Fault(c, s) ==
  \/ caller[c].at = "started" /\ Accepted(c, s)
  \/ caller[c].at = "refused" /\ Rejected(c, s)

\* The wait for the start task: over, failed, or given up after the timeout with
\* the task left to itself.
StartEnded(c, s) ==
  \/ caller[c].at = "started" /\ Accepted(c, s)
  \/ caller[c].at = "refused" /\ Rejected(c, s)
  \/ /\ caller[c].at = "starting"
     /\ CountFailure(s) /\ Refuse(c, s)
     /\ UNCHANGED link

\* The provider answers a listing or a call; only one that is initialised can.
Answered(c, s) ==
  /\ caller[c].at = "ask"
  /\ up[s] /\ MarkHealthy(s)
  /\ IF caller[c].goal = "run" THEN GiveUp(c) ELSE Advance(c, s, {s})
  /\ UNCHANGED <<link, catalogue>>

\* It raises, is not running any more, or does not answer in time, and the connection
\* is stopped.  A call is tried again after the backoff.
Failed(c, s) ==
  /\ caller[c].at = "ask"
  /\ StopConnection(s) /\ CountFailure(s)
  /\ IF caller[c].goal = "run" /\ caller[c].tries + 1 < Attempts
       THEN caller' = [caller EXCEPT ![c].tries = @ + 1, ![c].at = "ensure"]
       ELSE Refuse(c, s)
  /\ UNCHANGED <<tasks, pending, stray, broken>>

\* All providers were visited.  A catalogue replaces the routes; the thread that
\* asked for it caches it in a step of its own.
Finish(c) ==
  /\ caller[c].goal \in {"list", "wake", "retry"} /\ caller[c].todo = {}
  /\ \/ /\ caller[c].goal = "wake"
        /\ caller' = [caller EXCEPT ![c].goal = "list", ![c].todo = Providers]
        /\ UNCHANGED catalogue
     \/ /\ caller[c].goal = "retry"
        /\ GiveUp(c) /\ cache' = NoCache /\ UNCHANGED routes
     \/ /\ caller[c].goal = "list"
        /\ routes' = caller[c].found
        /\ LET was == caller[c]
           IN caller' = [caller EXCEPT ![c] =
                IF was.target = {} THEN [NoRequest EXCEPT !.goal = "store", !.found = was.found]
                ELSE IF was.target \subseteq was.found
                  THEN [NoRequest EXCEPT !.goal = "run", !.target = was.target,
                                         !.todo = was.target]
                ELSE NoRequest]
        /\ UNCHANGED cache
  /\ UNCHANGED <<link, health>>

Store(c) ==
  /\ caller[c].goal = "store"
  /\ cache' = caller[c].found /\ GiveUp(c)
  /\ UNCHANGED <<link, health, routes>>

\* The bridge's own timeout cancels the coroutine wherever it is; a start task
\* that it waited for goes on.  One that is done by then has its failure marked
\* all the same, by nobody's request.
BridgeTimesOut(c) ==
  /\ caller[c].goal \notin {"idle", "store"}
  /\ GiveUp(c)
  /\ IF caller[c].at \in {"started", "refused"}
       THEN \E s \in Providers : Asks(c, s) /\ broken' = [broken EXCEPT ![s] = @ + 1]
       ELSE UNCHANGED broken
  /\ UNCHANGED <<connection, tasks, pending, stray, health, catalogue>>

-----------------------------------------------------------------------------
CallerStep(c) ==
  \/ \E s \in Providers :
       /\ Asks(c, s)
       /\ Ensure(c, s) \/ StartEnded(c, s) \/ Closed(c, s) \/ Answered(c, s) \/ Failed(c, s)
  \/ Finish(c) \/ Store(c)

McNext ==
  \/ \E s \in Providers :
       \/ CleanUp(s) \/ Warm(s)
       \/ \E i \in StartTasks : \/ BeginTask(s, i) \/ OpenSession(s, i) \/ StartSucceeds(s, i)
                           \/ StartFails(s, i) \/ TaskDone(s, i)
  \/ \E c \in Callers : Request(c) \/ CallerStep(c) \/ BridgeTimesOut(c)

\* The loop runs what is due; a provider need not answer or come up at all.
McFairness == \A c \in Callers : WF_mcVars(CallerStep(c))

McSpec == McInit /\ [][McNext]_mcVars /\ McFairness

-----------------------------------------------------------------------------
(* Whoever asks, retries, times out or cancels: two start tasks of a provider are *)
(* under way at once only when one of them lost its place in _pending_starts to    *)
(* the waiter of an earlier start, which woke late and took out what it found      *)
(* (client.py:888).                                                                *)
OneStartAtATime ==
  \A s \in Providers : \A i, j \in UnderWay(s) \ stray[s] : i = j

(* A thread that asks the client gets an answer or an error, though a provider  *)
(* may hang in its start or in any answer.                                      *)
RequestsReturn == \A c \in Callers : (caller[c].goal # "idle") ~> (caller[c].goal = "idle")

(* What _async_ensure_started says to a second caller (client.py:862), that a     *)
(* start in progress is not doubled; it does not hold (README, section 6).         *)
NoDuplicateProcess == \A s \in Providers : \A i, j \in UnderWay(s) : i = j

=============================================================================
