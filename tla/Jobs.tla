-------------------------------- MODULE Jobs --------------------------------
(***************************************************************************)
(* The background lane of butler/jobs.py: the job table and its event log  *)
(* (JobStore), the queue and worker threads (JobManager), the router thread *)
(* that submits and shuts down (butler/router.py), and the terminal client *)
(* that polls the event log (butler/text/client.py).                       *)
(*                                                                         *)
(* Every store call is its own transaction, so a step between two of them  *)
(* is a place where another thread runs, a call fails or the process dies. *)
(* The log is the sequence events; an event's id is its position in it.    *)
(***************************************************************************)
EXTENDS Naturals, Sequences, FiniteSets

CONSTANTS
  Jobs,        \* background requests of one session
  Workers,     \* worker threads
  NoJob, Stop, \* no job; the None that ends a worker
  PageSize,    \* limit of list_session_events
  MaxFailures    \* bound on failing store calls and process deaths

JobsAssumption ==
  /\ NoJob \notin Jobs /\ Stop \notin Jobs /\ NoJob # Stop /\ IsFiniteSet(Jobs)
  /\ PageSize \in Nat \ {0} /\ MaxFailures \in Nat
  /\ Workers # {} /\ IsFiniteSet(Workers)

VARIABLES
  status,   \* jobs.status, "none" while there is no row
  events,   \* job_events in id order
  queue,    \* the in-memory queue of job ids
  router,   \* where the router thread is in submit()
  worker,   \* where each worker thread is in _worker_loop
  client,   \* the poller: its cursor, whether it synced, and what it printed
  failures    \* failing store calls and process deaths so far

jbVars == <<status, events, queue, router, worker, client, failures>>

Terminal == {"succeeded", "failed", "interrupted"}
Statuses == {"none", "queued", "running"} \cup Terminal
Verdicts == {"completed", "failed", "interrupted"}
EventTypes == {"queued", "started"} \cup Verdicts
WorkerPhases == {"waiting", "taken", "running", "executing", "outcome", "verdict", "dead"}

Waiting == [phase |-> "waiting", job |-> NoJob, result |-> "none"]
Dead == [phase |-> "dead", job |-> NoJob, result |-> "none"]

JbInit ==
  /\ status = [j \in Jobs |-> "none"]
  /\ events = <<>>
  /\ queue = <<>>
  /\ router = [phase |-> "idle", job |-> NoJob]
  /\ worker = [w \in Workers |-> Waiting]
  /\ client = [state |-> "off", since |-> 0, cursor |-> 0, shown |-> {}]
  /\ failures = 0

AddEvent(j, type) == events' = Append(events, [job |-> j, type |-> type])

-----------------------------------------------------------------------------
(* submit() on the router thread: row, event, queue                         *)

CreateJob(j) ==
  /\ router.phase = "idle" /\ status[j] = "none"
  /\ status' = [status EXCEPT ![j] = "queued"]
  /\ router' = [phase |-> "announce", job |-> j]
  /\ UNCHANGED <<events, queue, worker, client, failures>>

AnnounceQueued ==
  /\ router.phase = "announce"
  /\ AddEvent(router.job, "queued")
  /\ router' = [router EXCEPT !.phase = "enqueue"]
  /\ UNCHANGED <<status, queue, worker, client, failures>>

Enqueue ==
  /\ router.phase = "enqueue"
  /\ queue' = Append(queue, router.job)
  /\ router' = [phase |-> "idle", job |-> NoJob]
  /\ UNCHANGED <<status, events, worker, client, failures>>

\* shutdown(): one None per worker.
PutStops == queue' = queue \o [i \in 1..Cardinality(Workers) |-> Stop]

Shutdown ==
  /\ router.phase = "idle"
  /\ router' = [phase |-> "gone", job |-> NoJob]
  /\ PutStops
  /\ UNCHANGED <<status, events, worker, client, failures>>

\* A store call of submit() fails.  The router survives a failed text command;
\* a failed voice command ends its loop, whose finally shuts the manager down.
SubmitFails ==
  /\ router.phase = "announce" /\ failures < MaxFailures
  /\ failures' = failures + 1
  /\ \/ /\ router' = [phase |-> "idle", job |-> NoJob]
        /\ UNCHANGED queue
     \/ /\ router' = [phase |-> "gone", job |-> NoJob]
        /\ PutStops
  /\ UNCHANGED <<status, events, worker, client>>

-----------------------------------------------------------------------------
(* _worker_loop and _run_job                                                *)

Take(w) ==
  /\ worker[w].phase = "waiting" /\ queue # <<>>
  /\ queue' = Tail(queue)
  /\ worker' = [worker EXCEPT ![w] =
       IF Head(queue) = Stop THEN Dead ELSE [Waiting EXCEPT !.phase = "taken", !.job = Head(queue)]]
  /\ UNCHANGED <<status, events, router, client, failures>>

MarkRunning(w) ==
  /\ worker[w].phase = "taken"
  /\ status' = [status EXCEPT ![worker[w].job] = "running"]
  /\ worker' = [worker EXCEPT ![w].phase = "running"]
  /\ UNCHANGED <<events, queue, router, client, failures>>

AnnounceStarted(w) ==
  /\ worker[w].phase = "running"
  /\ AddEvent(worker[w].job, "started")
  /\ worker' = [worker EXCEPT ![w].phase = "executing"]
  /\ UNCHANGED <<status, queue, router, client, failures>>

\* The executor answers, raises with a text, or raises with an empty one.
Execute(w) ==
  /\ worker[w].phase = "executing"
  /\ \E result \in {"completed", "failed", "failed without text"} :
       worker' = [worker EXCEPT ![w].phase = "outcome", ![w].result = result]
  /\ UNCHANGED <<status, events, queue, router, client, failures>>

RecordOutcome(w) ==
  /\ worker[w].phase = "outcome"
  /\ status' = [status EXCEPT ![worker[w].job] =
       IF worker[w].result = "completed" THEN "succeeded" ELSE "failed"]
  /\ worker' = [worker EXCEPT ![w].phase = "verdict"]
  /\ UNCHANGED <<events, queue, router, client, failures>>

\* add_event refuses an empty message: the ValueError ends the thread.
AnnounceVerdict(w) ==
  /\ worker[w].phase = "verdict"
  /\ IF worker[w].result = "failed without text"
     THEN /\ worker' = [worker EXCEPT ![w] = Dead]
          /\ UNCHANGED events
     ELSE /\ AddEvent(worker[w].job, worker[w].result)
          /\ worker' = [worker EXCEPT ![w] = Waiting]
  /\ UNCHANGED <<status, queue, router, client, failures>>

\* Any store call of _run_job that raises ends the thread as well.
StoreCallFails(w) ==
  /\ worker[w].phase \in {"taken", "running", "outcome", "verdict"} /\ failures < MaxFailures
  /\ failures' = failures + 1
  /\ worker' = [worker EXCEPT ![w] = Dead]
  /\ UNCHANGED <<status, events, queue, router, client>>

-----------------------------------------------------------------------------
(* A process dies; the next one marks what it left interrupted              *)

\* Fault for mutation: 'interrupted' is missing from the settled states.
Incomplete_ForgetsInterrupted(j) == status[j] \notin {"succeeded", "failed", "none"}

Incomplete(j) == status[j] \notin Terminal \cup {"none"}

Interruption(order) == [i \in DOMAIN order |-> [job |-> order[i], type |-> "interrupted"]]

\* mark_incomplete_jobs_interrupted: one transaction, rows in any order.
Recover ==
  /\ failures < MaxFailures
  /\ failures' = failures + 1
  /\ status' = [j \in Jobs |-> IF Incomplete(j) THEN "interrupted" ELSE status[j]]
  /\ \E order \in [1..Cardinality({j \in Jobs : Incomplete(j)}) -> {j \in Jobs : Incomplete(j)}] :
       /\ \A a, b \in DOMAIN order : order[a] = order[b] => a = b
       /\ events' = events \o Interruption(order)
  /\ queue' = <<>>
  /\ router' = [phase |-> "idle", job |-> NoJob]
  /\ worker' = [w \in Workers |-> Waiting]
  /\ UNCHANGED client

-----------------------------------------------------------------------------
(* _poll_session_events in the terminal client.  since only serves the       *)
(* properties: the event it reads on from.                                   *)

\* _initial_event_cursor: latest_event_id, or 0 when the request fails.
Connect ==
  /\ client.state = "off"
  /\ \E c \in {0, Len(events)} :
       client' = [state |-> IF c > 0 THEN "synced" ELSE "unsynced",
                  since |-> c, cursor |-> c, shown |-> {}]
  /\ UNCHANGED <<status, events, queue, router, worker, failures>>

Page == {i \in client.cursor + 1 .. client.cursor + PageSize : i <= Len(events)}
PageEnd == client.cursor + Cardinality(Page)
ToPrint == {i \in Page : events[i].type \in Verdicts}

\* The first answer after a cursor of 0 is taken for history and skipped.
PollUnsynced ==
  /\ client.state = "unsynced"
  /\ client' = [client EXCEPT !.state = "synced", !.cursor = Len(events),
                              !.since = Len(events)]
  /\ UNCHANGED <<status, events, queue, router, worker, failures>>

\* Fault for mutation: the cursor follows latest_event_id instead of the page.
PollSynced_JumpsToLatest ==
  /\ client.state = "synced"
  /\ client' = [client EXCEPT !.cursor = Len(events), !.shown = @ \cup ToPrint]
  /\ UNCHANGED <<status, events, queue, router, worker, failures>>

PollSynced ==
  /\ client.state = "synced" /\ Page # {}
  /\ client' = [client EXCEPT !.cursor = PageEnd, !.shown = @ \cup ToPrint]
  /\ UNCHANGED <<status, events, queue, router, worker, failures>>

Submit == AnnounceQueued \/ Enqueue
Run(w) == \/ Take(w) \/ MarkRunning(w) \/ AnnounceStarted(w) \/ Execute(w)
          \/ RecordOutcome(w) \/ AnnounceVerdict(w)
Poll == PollUnsynced \/ PollSynced

JbNext ==
  \/ \E j \in Jobs : CreateJob(j)
  \/ Submit \/ Shutdown \/ SubmitFails
  \/ \E w \in Workers : Run(w) \/ StoreCallFails(w)
  \/ Recover
  \/ Connect \/ Poll

JbSpec == JbInit /\ [][JbNext]_jbVars

\* Threads run, and an executor comes back; nothing is owed about restarts.
JbFairSpec == /\ JbSpec
              /\ WF_jbVars(Submit)
              /\ \A w \in Workers : WF_jbVars(Run(w))
              /\ WF_jbVars(Poll)
-----------------------------------------------------------------------------
JobsTypeOK ==
  /\ status \in [Jobs -> Statuses]
  /\ events \in Seq([job : Jobs, type : EventTypes])
  /\ queue \in Seq(Jobs \cup {Stop})
  /\ router \in [phase : {"idle", "announce", "enqueue", "gone"}, job : Jobs \cup {NoJob}]
  /\ worker \in [Workers -> [phase : WorkerPhases, job : Jobs \cup {NoJob},
                             result : {"none", "completed", "failed", "failed without text"}]]
  /\ client \in [state : {"off", "unsynced", "synced"},
                 since : Nat, cursor : Nat, shown : SUBSET Nat]
  /\ failures \in 0..MaxFailures

VerdictOf(s) == CASE s = "succeeded"   -> {"completed"}
                  [] s = "failed"      -> {"failed"}
                  [] s = "interrupted" -> {"interrupted"}
                  [] OTHER             -> {}

VerdictIds(j) == {i \in DOMAIN events : events[i].job = j /\ events[i].type \in Verdicts}

\* One run, one verdict: no two workers run a job and what waits in the queue
\* nobody runs; the log tells of a job at most one verdict, the one in its row,
\* so a restart or a second worker never contradicts what was announced.
OneRunOneVerdict ==
  /\ \A w, v \in Workers : w # v /\ worker[w].job # NoJob => worker[w].job # worker[v].job
  /\ \A i \in DOMAIN queue : queue[i] \in Jobs => \A w \in Workers : worker[w].job # queue[i]
  /\ \A j \in Jobs : /\ Cardinality(VerdictIds(j)) <= 1
                    /\ \A i \in VerdictIds(j) : events[i].type \in VerdictOf(status[j])

\* Once it reads on, the poller prints every verdict its cursor has passed,
\* whatever the page size and however many events other jobs put between.
VerdictsAreShown ==
  client.state = "synced" =>
    \A i \in client.since + 1 .. client.cursor : events[i].type \in Verdicts => i \in client.shown

Behind ==
  /\ client.state = "synced"
  /\ \E i \in DOMAIN events :
       i > client.since /\ events[i].type \in Verdicts /\ i \notin client.shown

\* A job handed to the queue is settled, unless a worker thread has ended, and
\* a poller that reads on catches up with every verdict logged since it began.
JobsSettle ==
  /\ \A j \in Jobs : router = [phase |-> "enqueue", job |-> j]
                     ~> status[j] \in Terminal \/ \E w \in Workers : worker[w].phase = "dead"
  /\ Behind ~> ~Behind

\* docs: a failed job produces a summary the user can read.
FailureIsAnnounced ==
  \A j \in Jobs : status[j] = "failed" ~> \E i \in VerdictIds(j) : events[i].type = "failed"

=============================================================================
