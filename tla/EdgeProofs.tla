----------------------------- MODULE EdgeProofs -----------------------------
(* What the background lane guarantees for every set of jobs and workers,     *)
(* every page size and any number of failing store calls and restarts: a job  *)
(* is run by one worker and told of once, as its row says, and the poller     *)
(* prints every verdict its cursor has passed.  What PhoneCalls guarantees for *)
(* any calls, webhooks and requests: no row, summary or event says an end that *)
(* the call did not have, and none that was pushed is forgotten.  And, for any *)
(* tools, turns and pre-ramps, that the prompts stay warm (Prewarm).          *)
EXTENDS Jobs, PhoneCalls, Prewarm, SequenceTheorems, FiniteSetTheorems, TLAPS

Event == [job : Jobs, type : EventTypes]

\* What a worker holds, by where it is in _run_job.
Holds(w) ==
  /\ worker[w].phase \in {"waiting", "dead"} <=> worker[w].job = NoJob
  /\ worker[w].phase = "taken" => status[worker[w].job] = "queued"
  /\ worker[w].phase \in {"running", "executing", "outcome"} => status[worker[w].job] = "running"
  /\ worker[w].phase \in {"outcome", "verdict"} => worker[w].result # "none"
  /\ worker[w].phase = "verdict" =>
       status[worker[w].job] = IF worker[w].result = "completed" THEN "succeeded" ELSE "failed"

Free(j, ws) == \A w \in Workers : ws[w].job # j
Unqueued(j) == \A i \in 1 .. Len(queue) : queue[i] # j

\* A job is with the router, in the queue once, or with one worker.
OneHolder ==
  \A w, v \in Workers : w # v /\ worker[w].job # NoJob => worker[w].job # worker[v].job
RouterHolds ==
  /\ router.phase \in {"idle", "gone"} => router.job = NoJob
  /\ router.phase \in {"announce", "enqueue"} =>
       /\ router.job \in Jobs /\ status[router.job] = "queued"
       /\ Free(router.job, worker) /\ Unqueued(router.job)
QueueHolds ==
  \A i \in 1 .. Len(queue) : queue[i] # Stop =>
    /\ status[queue[i]] = "queued" /\ Free(queue[i], worker)
    /\ \A k \in 1 .. Len(queue) : queue[k] = queue[i] => k = i

\* A verdict in the log is the one of the row, the only one of its job, and no worker
\* has that job any more.
IsVerdict(e) == e.type \in Verdicts
LogIsTrue ==
  \A i \in 1 .. Len(events) : IsVerdict(events[i]) =>
    /\ events[i].type \in VerdictOf(status[events[i].job]) /\ Free(events[i].job, worker)
    /\ \A k \in 1 .. Len(events) :
         IsVerdict(events[k]) /\ events[k].job = events[i].job => k = i

\* The poller never reads past the log.
PollerIsBehind == client.since <= client.cursor /\ client.cursor <= Len(events)

Lane == (\A w \in Workers : Holds(w)) /\ OneHolder /\ RouterHolds /\ QueueHolds
IInv == JobsTypeOK /\ Lane /\ LogIsTrue /\ PollerIsBehind /\ VerdictsAreShown

LEMMA Appended ==
  ASSUME NEW S, NEW q \in Seq(S), NEW x \in S
  PROVE  /\ Append(q, x) \in Seq(S) /\ Len(Append(q, x)) = Len(q) + 1
         /\ \A j \in 1 .. Len(q) + 1 : Append(q, x)[j] = IF j = Len(q) + 1 THEN x ELSE q[j]
  OBVIOUS

LEMMA Entries ==
  ASSUME NEW S, NEW q \in Seq(S)
  PROVE  Len(q) \in Nat /\ \A i \in 1 .. Len(q) : q[i] \in S
  OBVIOUS

LEMMA Logged ==
  ASSUME JobsTypeOK
  PROVE  /\ events \in Seq(Event) /\ Len(events) \in Nat
         /\ \A i \in 1 .. Len(events) : events[i] \in Event /\ events[i].job \in Jobs
<1>1. events \in Seq(Event)
  BY DEF JobsTypeOK, Event
<1>2. Len(events) \in Nat /\ \A i \in 1 .. Len(events) : events[i] \in Event
  BY <1>1, Entries
<1> QED BY <1>1, <1>2 DEF Event

\* A verdict belongs to a settled row: a row that is none, queued or running has none.
LEMMA Unsettled ==
  ASSUME NEW s \in {"none", "queued", "running"}
  PROVE  VerdictOf(s) = {}
  BY DEF VerdictOf

LEMMA Settled ==
  /\ VerdictOf("succeeded") = {"completed"} /\ VerdictOf("failed") = {"failed"}
  /\ VerdictOf("interrupted") = {"interrupted"}
  BY DEF VerdictOf

LEMMA InitIInv == JobsAssumption /\ JbInit => IInv
<1> SUFFICES ASSUME JobsAssumption, JbInit PROVE IInv
  OBVIOUS
<1>1. events \in Seq(Event) /\ queue \in Seq(Jobs \cup {Stop}) /\ Len(events) = 0 /\ Len(queue) = 0
  BY DEF JbInit
<1>2. JobsTypeOK
  BY <1>1 DEF JbInit, JobsTypeOK, Event, Statuses, WorkerPhases, Waiting, JobsAssumption
<1>3. Lane
  BY <1>1 DEF JbInit, Lane, Holds, OneHolder, RouterHolds, QueueHolds, Waiting
<1> QED BY <1>1, <1>2, <1>3 DEF IInv, JbInit, LogIsTrue, PollerIsBehind, VerdictsAreShown

-----------------------------------------------------------------------------
(* The log and its reader.                                                    *)

\* The log only grows, so what the poller has read stays what it was.
LEMMA ReaderKeeps ==
  ASSUME JobsTypeOK, PollerIsBehind, VerdictsAreShown, UNCHANGED client,
         NEW n \in Nat, Len(events') = Len(events) + n,
         \A i \in 1 .. Len(events) : events'[i] = events[i]
  PROVE  PollerIsBehind' /\ VerdictsAreShown'
<1>1. Len(events) \in Nat /\ client.cursor \in Nat /\ client.since \in Nat
  BY LenProperties DEF JobsTypeOK
<1> QED BY <1>1 DEF PollerIsBehind, VerdictsAreShown

\* An event that is no verdict, or the first one about a job that nobody runs and
\* whose row it repeats.
LEMMA LogKeeps ==
  ASSUME JobsTypeOK, PollerIsBehind, VerdictsAreShown, UNCHANGED client,
         NEW e \in Event, events' = Append(events, e),
         \A i \in 1 .. Len(events) : IsVerdict(events[i]) =>
           /\ events[i].type \in VerdictOf(status'[events[i].job]) /\ Free(events[i].job, worker')
           /\ \A k \in 1 .. Len(events) :
                IsVerdict(events[k]) /\ events[k].job = events[i].job => k = i
           /\ IsVerdict(e) => events[i].job # e.job,
         IsVerdict(e) => e.type \in VerdictOf(status'[e.job]) /\ Free(e.job, worker')
  PROVE  events' \in Seq(Event) /\ LogIsTrue' /\ PollerIsBehind' /\ VerdictsAreShown'
<1>1. events \in Seq(Event) /\ Len(events) \in Nat
  BY LenProperties DEF JobsTypeOK, Event
<1>2. /\ events' \in Seq(Event) /\ Len(events') = Len(events) + 1
      /\ \A j \in 1 .. Len(events) + 1 : events'[j] = IF j = Len(events) + 1 THEN e ELSE events[j]
  BY <1>1, Appended
<1>3. PollerIsBehind' /\ VerdictsAreShown'
  BY <1>1, <1>2, ReaderKeeps
<1>4. LogIsTrue'
  <2> SUFFICES ASSUME NEW i \in 1 .. Len(events'), IsVerdict(events'[i])
               PROVE  /\ events'[i].type \in VerdictOf(status'[events'[i].job])
                      /\ Free(events'[i].job, worker')
                      /\ \A k \in 1 .. Len(events') :
                           IsVerdict(events'[k]) /\ events'[k].job = events'[i].job => k = i
    BY DEF LogIsTrue, IsVerdict
  <2> DEFINE n == Len(events) + 1
  <2> HIDE DEF n
  <2>a. /\ n \in Nat /\ Len(events') = n /\ events'[n] = e
        /\ \A k \in 1 .. n : k # n => k \in 1 .. Len(events) /\ events'[k] = events[k]
    BY <1>1, <1>2 DEF n
  <2>1. CASE i = n
    BY <2>a, <2>1
  <2>2. CASE i # n
    <3>1. i \in 1 .. Len(events) /\ events'[i] = events[i] /\ IsVerdict(events[i])
      BY <2>a, <2>2
    <3>2. IsVerdict(e) => events[i].job # e.job
      BY <3>1
    <3>3. ASSUME NEW k \in 1 .. Len(events'), IsVerdict(events'[k]), events'[k].job = events'[i].job
          PROVE  k = i
      BY <2>a, <3>1, <3>2, <3>3
    <3> QED BY <3>1, <3>3
  <2> QED BY <2>1, <2>2
<1> QED BY <1>2, <1>3, <1>4

\* A step that writes no event, leaves the settled rows alone and takes no settled job.
LEMMA LogStays ==
  ASSUME JobsTypeOK, LogIsTrue, UNCHANGED events,
         \A j \in Jobs : status[j] \in Terminal /\ Free(j, worker) =>
                           status'[j] = status[j] /\ Free(j, worker')
  PROVE  LogIsTrue'
<1> SUFFICES ASSUME NEW i \in 1 .. Len(events), IsVerdict(events[i])
             PROVE  /\ events[i].type \in VerdictOf(status'[events[i].job])
                    /\ Free(events[i].job, worker')
                    /\ \A k \in 1 .. Len(events) :
                         IsVerdict(events[k]) /\ events[k].job = events[i].job => k = i
  BY DEF LogIsTrue, IsVerdict
<1>1. events[i].job \in Jobs /\ status[events[i].job] \in Statuses
  BY Logged DEF JobsTypeOK
<1>2. status[events[i].job] \in Terminal
  BY <1>1, Unsettled DEF LogIsTrue, Statuses
<1> QED BY <1>1, <1>2 DEF LogIsTrue

-----------------------------------------------------------------------------
(* The router thread.                                                         *)

LEMMA CreateKeeps ==
  ASSUME JobsAssumption, IInv, NEW j \in Jobs, CreateJob(j)
  PROVE  IInv'
<1> USE DEF IInv
<1>1. /\ status[j] = "none" /\ status' = [status EXCEPT ![j] = "queued"]
      /\ router' = [phase |-> "announce", job |-> j]
      /\ UNCHANGED <<events, queue, worker, client, failures>>
  BY DEF CreateJob
<1>2. \A i \in Jobs : status'[i] = IF i = j THEN "queued" ELSE status[i]
  BY <1>1 DEF JobsTypeOK
<1>3. JobsTypeOK'
  BY <1>1 DEF JobsTypeOK, Statuses
<1>4. Free(j, worker) /\ Unqueued(j)
  <2>1. ASSUME NEW w \in Workers PROVE worker[w].job # j
    BY <1>1 DEF Lane, Holds, JobsTypeOK, WorkerPhases, JobsAssumption
  <2>2. ASSUME NEW i \in 1 .. Len(queue) PROVE queue[i] # j
    BY <1>1 DEF Lane, QueueHolds, JobsAssumption
  <2> QED BY <2>1, <2>2 DEF Free, Unqueued
<1>5. \A w \in Workers : Holds(w)'
  BY <1>1, <1>2, <1>4 DEF Lane, Holds, Free, JobsTypeOK, JobsAssumption
<1>6. QueueHolds'
  <2>1. \A i \in 1 .. Len(queue) : queue[i] \in Jobs \cup {Stop} /\ queue[i] # j
    <3>1. queue \in Seq(Jobs \cup {Stop})
      BY DEF JobsTypeOK
    <3> QED BY <1>4, <3>1, Entries DEF Unqueued
  <2> QED BY <1>1, <1>2, <2>1 DEF Lane, QueueHolds
<1>7. OneHolder' /\ RouterHolds'
  BY <1>1, <1>2, <1>4 DEF Lane, OneHolder, RouterHolds, Unqueued
<1>8. LogIsTrue'
  BY <1>1, <1>2, LogStays DEF Terminal
<1>9. PollerIsBehind' /\ VerdictsAreShown'
  BY <1>1 DEF PollerIsBehind, VerdictsAreShown
<1> QED BY <1>3, <1>5, <1>6, <1>7, <1>8, <1>9 DEF Lane

LEMMA AnnounceQueuedKeeps ==
  ASSUME JobsAssumption, IInv, AnnounceQueued
  PROVE  IInv'
<1> USE DEF IInv
<1> DEFINE e == [job |-> router.job, type |-> "queued"]
<1>1. /\ events' = Append(events, e) /\ router.phase = "announce"
      /\ router' = [router EXCEPT !.phase = "enqueue"]
      /\ UNCHANGED <<status, queue, worker, client, failures>>
  BY DEF AnnounceQueued, AddEvent
<1>2. e \in Event /\ ~IsVerdict(e)
  BY <1>1 DEF Lane, RouterHolds, Event, EventTypes, IsVerdict, Verdicts
<1> HIDE DEF e
<1>3. events' \in Seq(Event) /\ LogIsTrue' /\ PollerIsBehind' /\ VerdictsAreShown'
  BY <1>1, <1>2, LogKeeps DEF LogIsTrue
<1>4. JobsTypeOK'
  BY <1>1, <1>3 DEF JobsTypeOK, Event
<1>5. router'.job = router.job /\ router'.phase = "enqueue"
  BY <1>1 DEF JobsTypeOK
<1>6. (\A w \in Workers : Holds(w)') /\ OneHolder' /\ QueueHolds'
  BY <1>1 DEF Lane, Holds, OneHolder, QueueHolds
<1>7. RouterHolds'
  BY <1>1, <1>5 DEF Lane, RouterHolds, Unqueued
<1> QED BY <1>3, <1>4, <1>6, <1>7 DEF Lane

LEMMA EnqueueKeeps ==
  ASSUME JobsAssumption, IInv, Enqueue
  PROVE  IInv'
<1> USE DEF IInv
<1> DEFINE j == router.job
           n == Len(queue) + 1
<1>1. /\ queue' = Append(queue, j) /\ router.phase = "enqueue"
      /\ router' = [phase |-> "idle", job |-> NoJob]
      /\ UNCHANGED <<status, events, worker, client, failures>>
  BY DEF Enqueue
<1>2. j \in Jobs /\ status[j] = "queued" /\ Free(j, worker) /\ Unqueued(j)
  BY <1>1 DEF Lane, RouterHolds
<1> HIDE DEF j
<1>3. queue \in Seq(Jobs \cup {Stop}) /\ Len(queue) \in Nat
  BY LenProperties DEF JobsTypeOK
<1>4. /\ queue' \in Seq(Jobs \cup {Stop}) /\ Len(queue') = n
      /\ \A i \in 1 .. n : queue'[i] = IF i = n THEN j ELSE queue[i]
  BY <1>1, <1>2, <1>3, Appended
<1>5. JobsTypeOK'
  BY <1>1, <1>4 DEF JobsTypeOK
<1>6. QueueHolds'
  <2>1. n \in Nat /\ \A i \in 1 .. n : i # n => i \in 1 .. Len(queue)
    BY <1>3
  <2> HIDE DEF n
  <2> QED BY <1>1, <1>2, <1>4, <2>1 DEF Lane, QueueHolds, Unqueued
<1>7. (\A w \in Workers : Holds(w)') /\ OneHolder' /\ RouterHolds'
  BY <1>1 DEF Lane, Holds, OneHolder, RouterHolds
<1>8. LogIsTrue' /\ PollerIsBehind' /\ VerdictsAreShown'
  BY <1>1 DEF LogIsTrue, PollerIsBehind, VerdictsAreShown
<1> QED BY <1>5, <1>6, <1>7, <1>8 DEF Lane

\* The Nones that end the workers are no jobs.
LEMMA StopsKeep ==
  ASSUME JobsAssumption, IInv, UNCHANGED <<status, worker>>, PutStops
  PROVE  queue' \in Seq(Jobs \cup {Stop}) /\ QueueHolds'
<1> USE DEF IInv
<1> DEFINE m == Cardinality(Workers)
           stops == [i \in 1 .. m |-> Stop]
<1>1. m \in Nat
  BY FS_CardinalityType DEF JobsAssumption
<1>2. stops \in Seq(Jobs \cup {Stop}) /\ Len(stops) = m /\ \A i \in 1 .. m : stops[i] = Stop
  BY <1>1
<1>3. queue \in Seq(Jobs \cup {Stop}) /\ Len(queue) \in Nat
  BY LenProperties DEF JobsTypeOK
<1>4. queue' = queue \o stops
  BY DEF PutStops
<1> HIDE DEF m, stops
<1>5. /\ queue' \in Seq(Jobs \cup {Stop}) /\ Len(queue') = Len(queue) + m
      /\ \A i \in 1 .. Len(queue) + m :
           queue'[i] = IF i <= Len(queue) THEN queue[i] ELSE stops[i - Len(queue)]
  BY <1>2, <1>3, <1>4, ConcatProperties
<1>6. \A i \in 1 .. Len(queue') : queue'[i] # Stop => i \in 1 .. Len(queue) /\ queue'[i] = queue[i]
  BY <1>1, <1>2, <1>3, <1>5
<1>7. QueueHolds'
  BY <1>6 DEF Lane, QueueHolds
<1> QED BY <1>5, <1>7

LEMMA RouterEndsKeeps ==
  ASSUME JobsAssumption, IInv, Shutdown \/ SubmitFails
  PROVE  IInv'
<1> USE DEF IInv
<1>1. /\ UNCHANGED <<status, events, worker, client>>
      /\ UNCHANGED queue \/ PutStops
      /\ \/ router' = [phase |-> "idle", job |-> NoJob]
         \/ router' = [phase |-> "gone", job |-> NoJob]
  BY DEF Shutdown, SubmitFails
<1>2. failures' \in 0 .. MaxFailures
  <2>1. MaxFailures \in Nat /\ failures \in 0 .. MaxFailures
    BY DEF JobsTypeOK, JobsAssumption
  <2>2. failures' = failures \/ (failures < MaxFailures /\ failures' = failures + 1)
    BY DEF Shutdown, SubmitFails
  <2> QED BY <2>1, <2>2
<1>3. queue' \in Seq(Jobs \cup {Stop}) /\ QueueHolds'
  <2>1. CASE UNCHANGED queue
    <3>1. queue \in Seq(Jobs \cup {Stop}) /\ QueueHolds
      BY DEF Lane, JobsTypeOK
    <3> QED BY ONLY <1>1, <2>1, <3>1 DEF QueueHolds, Free
  <2>2. CASE PutStops
    BY <1>1, <2>2, StopsKeep
  <2> QED BY <1>1, <2>1, <2>2
<1>4. JobsTypeOK'
  <2>1. router' \in [phase : {"idle", "announce", "enqueue", "gone"}, job : Jobs \cup {NoJob}]
    BY <1>1
  <2> QED BY <1>1, <1>2, <1>3, <2>1 DEF JobsTypeOK
<1>5. (\A w \in Workers : Holds(w)') /\ OneHolder' /\ RouterHolds'
  BY <1>1 DEF Lane, Holds, OneHolder, RouterHolds
<1>6. LogIsTrue' /\ PollerIsBehind' /\ VerdictsAreShown'
  BY <1>1 DEF LogIsTrue, PollerIsBehind, VerdictsAreShown
<1> QED BY <1>3, <1>4, <1>5, <1>6 DEF Lane

-----------------------------------------------------------------------------
(* The worker threads.                                                        *)

Result == {"none", "completed", "failed", "failed without text"}
WorkerType == [phase : WorkerPhases, job : Jobs \cup {NoJob}, result : Result]

\* The new verdict of a job is the first: its worker had it in hand.
LEMMA HeldHasNoVerdict ==
  ASSUME LogIsTrue, NEW w \in Workers, NEW i \in 1 .. Len(events), IsVerdict(events[i])
  PROVE  events[i].job # worker[w].job
  BY DEF LogIsTrue, Free

\* A worker that goes on with its job, or lets go of it, changes the row of no other.
LEMMA GoesOn ==
  ASSUME JobsAssumption, JobsTypeOK, Lane, NEW w \in Workers, worker[w].job # NoJob,
         worker' \in [Workers -> WorkerType], worker'[w].job \in {worker[w].job, NoJob},
         \A v \in Workers : v # w => worker'[v] = worker[v],
         \A j \in Jobs : j # worker[w].job => status'[j] = status[j],
         Holds(w)', UNCHANGED <<queue, router>>
  PROVE  Lane'
<1>1. \A v \in Workers : worker[v].job \in Jobs \cup {NoJob} /\ worker[v].phase \in WorkerPhases
  BY DEF JobsTypeOK
<1>2. \A v \in Workers : Holds(v)'
  <2> SUFFICES ASSUME NEW v \in Workers, v # w PROVE Holds(v)'
    OBVIOUS
  <2>1. worker'[v] = worker[v] /\ Holds(v)
    BY DEF Lane
  <2>2. worker[v].job # NoJob => status'[worker[v].job] = status[worker[v].job]
    BY <1>1 DEF Lane, OneHolder
  <2> QED BY <2>1, <2>2, <1>1 DEF Holds, WorkerPhases
<1>3. OneHolder'
  BY DEF Lane, OneHolder
<1>4. \A j : Free(j, worker) /\ j # NoJob => Free(j, worker') /\ j # worker[w].job
  BY DEF Free
<1>5. RouterHolds'
  BY <1>4 DEF Lane, RouterHolds, Unqueued, JobsAssumption
<1>6. QueueHolds'
  <2>1. queue \in Seq(Jobs \cup {Stop})
    BY DEF JobsTypeOK
  <2>2. \A i \in 1 .. Len(queue) : queue[i] # Stop => queue[i] \in Jobs
    BY <2>1, Entries
  <2> QED BY <1>4, <2>2 DEF Lane, QueueHolds, JobsAssumption
<1> QED BY <1>2, <1>3, <1>5, <1>6 DEF Lane

LEMMA TakeKeeps ==
  ASSUME JobsAssumption, IInv, NEW w \in Workers, Take(w)
  PROVE  IInv'
<1> USE DEF IInv
<1> DEFINE h == Head(queue)
<1>1. /\ worker[w].phase = "waiting" /\ queue # <<>> /\ queue' = Tail(queue)
      /\ worker' = [worker EXCEPT ![w] =
           IF h = Stop THEN Dead ELSE [Waiting EXCEPT !.phase = "taken", !.job = h]]
      /\ UNCHANGED <<status, events, router, client, failures>>
  BY DEF Take
<1>2. queue \in Seq(Jobs \cup {Stop}) /\ Len(queue) \in Nat /\ Len(queue) # 0
  <2>1. queue \in Seq(Jobs \cup {Stop})
    BY DEF JobsTypeOK
  <2> QED BY <1>1, <2>1, EmptySeq, Entries
<1>3. /\ h = queue[1] /\ h \in Jobs \cup {Stop}
      /\ queue' \in Seq(Jobs \cup {Stop}) /\ Len(queue') = Len(queue) - 1
      /\ \A i \in 1 .. Len(queue') : queue'[i] = queue[i + 1]
  BY <1>1, <1>2, HeadTailProperties
<1> HIDE DEF h
<1>4. h # Stop => /\ h \in Jobs /\ status[h] = "queued" /\ Free(h, worker)
                  /\ \A i \in 1 .. Len(queue') : queue'[i] # h
  BY <1>2, <1>3 DEF Lane, QueueHolds
<1>5. /\ worker' \in [Workers -> WorkerType]
      /\ \A v \in Workers : v # w => worker'[v] = worker[v]
      /\ h = Stop => worker'[w].phase = "dead" /\ worker'[w].job = NoJob
      /\ h # Stop => worker'[w].phase = "taken" /\ worker'[w].job = h
  BY <1>1, <1>3 DEF JobsTypeOK, WorkerType, WorkerPhases, Result, Dead, Waiting
<1>6. JobsTypeOK'
  BY <1>1, <1>3, <1>5 DEF JobsTypeOK, WorkerType, Result
<1>7. \A v \in Workers : Holds(v)'
  BY <1>1, <1>4, <1>5 DEF Lane, Holds, JobsAssumption
<1>8. OneHolder'
  BY <1>4, <1>5 DEF Lane, OneHolder, Free
<1>9. RouterHolds'
  <2>1. router.phase \in {"announce", "enqueue"} =>
          /\ Free(router.job, worker') /\ \A i \in 1 .. Len(queue') : queue'[i] # router.job
    <3> SUFFICES ASSUME router.phase \in {"announce", "enqueue"}
                 PROVE  /\ Free(router.job, worker')
                        /\ \A i \in 1 .. Len(queue') : queue'[i] # router.job
      OBVIOUS
    <3>1. router.job \in Jobs /\ Free(router.job, worker) /\ Unqueued(router.job)
      BY DEF Lane, RouterHolds
    <3>2. \A i \in 1 .. Len(queue') : i + 1 \in 1 .. Len(queue) /\ queue'[i] = queue[i + 1]
      BY <1>2, <1>3
    <3>3. \A i \in 1 .. Len(queue') : queue'[i] # router.job
      BY <3>1, <3>2 DEF Unqueued
    <3>4. h # router.job
      BY <1>2, <1>3, <3>1 DEF Unqueued
    <3>5. Free(router.job, worker')
      BY <1>5, <3>1, <3>4, JobsAssumption DEF Free, JobsAssumption
    <3> QED BY <3>3, <3>5
  <2> QED BY <1>1, <2>1 DEF Lane, RouterHolds, Unqueued
<1>10. QueueHolds'
  <2> SUFFICES ASSUME NEW i \in 1 .. Len(queue'), queue'[i] # Stop
               PROVE  /\ status'[queue'[i]] = "queued" /\ Free(queue'[i], worker')
                      /\ \A k \in 1 .. Len(queue') : queue'[k] = queue'[i] => k = i
    BY DEF QueueHolds
  <2>1. queue'[i] = queue[i + 1] /\ i + 1 \in 1 .. Len(queue)
    BY <1>2, <1>3
  <2>2. /\ status[queue[i + 1]] = "queued" /\ Free(queue[i + 1], worker)
        /\ \A k \in 1 .. Len(queue) : queue[k] = queue[i + 1] => k = i + 1
    BY <2>1 DEF Lane, QueueHolds
  <2>3. Free(queue'[i], worker')
    <3>1. queue'[i] # NoJob
      BY <1>3, Entries DEF JobsAssumption
    <3> QED BY <1>4, <1>5, <2>1, <2>2, <3>1 DEF Free
  <2>4. ASSUME NEW k \in 1 .. Len(queue'), queue'[k] = queue'[i] PROVE k = i
    <3>1. queue[k + 1] = queue[i + 1] /\ k + 1 \in 1 .. Len(queue)
      BY <1>2, <1>3, <2>1, <2>4
    <3> QED BY <2>2, <3>1
  <2> QED BY <1>1, <2>1, <2>2, <2>3, <2>4
<1>11. LogIsTrue'
  <2>1. \A j \in Jobs : status[j] \in Terminal /\ Free(j, worker) => Free(j, worker')
    BY <1>4, <1>5 DEF Free, Terminal, JobsAssumption
  <2> QED BY <1>1, <2>1, LogStays
<1>12. PollerIsBehind' /\ VerdictsAreShown'
  BY <1>1 DEF PollerIsBehind, VerdictsAreShown
<1> QED BY <1>6, <1>7, <1>8, <1>9, <1>10, <1>11, <1>12 DEF Lane

\* _run_job between its events: the row and the worker's place in it.
LEMMA RunKeeps ==
  ASSUME JobsAssumption, IInv, NEW w \in Workers,
         MarkRunning(w) \/ Execute(w) \/ RecordOutcome(w) \/ StoreCallFails(w)
         \/ (AnnounceVerdict(w) /\ worker[w].result = "failed without text")
  PROVE  IInv'
<1> USE DEF IInv
<1> DEFINE j == worker[w].job
<1>1. j \in Jobs /\ j # NoJob /\ Holds(w)
  BY DEF MarkRunning, Execute, RecordOutcome, StoreCallFails, AnnounceVerdict, Lane, Holds, JobsTypeOK,
         JobsAssumption
<1>2. UNCHANGED <<events, queue, router, client>>
  BY DEF MarkRunning, Execute, RecordOutcome, StoreCallFails, AnnounceVerdict
<1>3. failures' \in 0 .. MaxFailures
  <2>1. MaxFailures \in Nat /\ failures \in 0 .. MaxFailures
    BY DEF JobsTypeOK, JobsAssumption
  <2>2. CASE StoreCallFails(w)
    <3>1. failures < MaxFailures /\ failures' = failures + 1
      BY <2>2 DEF StoreCallFails
    <3> QED BY ONLY <2>1, <3>1
  <2>3. CASE MarkRunning(w) \/ Execute(w) \/ RecordOutcome(w) \/ AnnounceVerdict(w)
    <3>1. UNCHANGED failures
      BY <2>3 DEF MarkRunning, Execute, RecordOutcome, AnnounceVerdict
    <3> QED BY <2>1, <3>1
  <2> QED BY <2>2, <2>3
<1>4. /\ status' \in [Jobs -> Statuses]
      /\ \A i \in Jobs : i # j => status'[i] = status[i]
      /\ worker' \in [Workers -> WorkerType]
      /\ \A v \in Workers : v # w => worker'[v] = worker[v]
      /\ worker'[w].job \in {j, NoJob} /\ Holds(w)'
  <2> USE DEF JobsTypeOK, WorkerType, Result, Holds, Statuses, Terminal, WorkerPhases
  <2>1. CASE MarkRunning(w)
    BY <1>1, <2>1 DEF MarkRunning
  <2>2. CASE Execute(w)
    <3>1. PICK result \in {"completed", "failed", "failed without text"} :
            worker' = [worker EXCEPT ![w].phase = "outcome", ![w].result = result]
      BY <2>2 DEF Execute
    <3>2. UNCHANGED status /\ worker[w].phase = "executing"
      BY <2>2 DEF Execute
    <3>3. /\ worker' \in [Workers -> WorkerType]
          /\ \A v \in Workers : v # w => worker'[v] = worker[v]
          /\ worker'[w].job = j /\ worker'[w].phase = "outcome" /\ worker'[w].result # "none"
      <4>1. worker \in [Workers -> WorkerType] /\ w \in Workers
        OBVIOUS
      <4> QED BY ONLY <3>1, <4>1 DEF WorkerType, WorkerPhases, Result
    <3>4. status[j] = "running" /\ j \in Jobs /\ status \in [Jobs -> Statuses] /\ j # NoJob
      BY <1>1, <3>2, JobsAssumption DEF JobsAssumption
    <3>5. Holds(w)'
      BY ONLY <3>2, <3>3, <3>4 DEF Holds
    <3> QED BY ONLY <3>2, <3>3, <3>4, <3>5
  <2>3. CASE RecordOutcome(w)
    BY <1>1, <2>3 DEF RecordOutcome
  <2>4. CASE StoreCallFails(w) \/ (AnnounceVerdict(w) /\ worker[w].result = "failed without text")
    <3>1. UNCHANGED status /\ worker' = [worker EXCEPT ![w] = Dead]
      BY <2>4 DEF StoreCallFails, AnnounceVerdict
    <3> QED BY <1>1, <3>1 DEF Dead
  <2> QED BY <2>1, <2>2, <2>3, <2>4
<1>5. JobsTypeOK'
  BY <1>2, <1>3, <1>4 DEF JobsTypeOK, WorkerType, Result
<1>6. Lane'
  BY <1>1, <1>2, <1>4, GoesOn
<1>7. LogIsTrue'
  <2>1. \A i \in Jobs : Free(i, worker) => i # j /\ Free(i, worker')
    BY <1>4 DEF Free, JobsAssumption
  <2> QED BY <1>2, <1>4, <2>1, LogStays
<1>8. PollerIsBehind' /\ VerdictsAreShown'
  BY <1>2 DEF PollerIsBehind, VerdictsAreShown
<1> QED BY <1>5, <1>6, <1>7, <1>8

\* The two events of a run: its start, and the verdict that its row holds already.
LEMMA TellKeeps ==
  ASSUME JobsAssumption, IInv, NEW w \in Workers,
         AnnounceStarted(w) \/ (AnnounceVerdict(w) /\ worker[w].result # "failed without text")
  PROVE  IInv'
<1> USE DEF IInv
<1> DEFINE j == worker[w].job
           verdict == worker[w].phase = "verdict"
           e == [job |-> j, type |-> IF verdict THEN worker[w].result ELSE "started"]
<1>1. j \in Jobs /\ j # NoJob /\ Holds(w)
  BY DEF AnnounceStarted, AnnounceVerdict, Lane, Holds, JobsTypeOK, JobsAssumption
<1>2. /\ events' = Append(events, e) /\ UNCHANGED <<status, queue, router, client, failures>>
      /\ \/ worker' = [worker EXCEPT ![w] = Waiting] /\ verdict
         \/ worker' = [worker EXCEPT ![w].phase = "executing"] /\ worker[w].phase = "running"
  BY DEF AnnounceStarted, AnnounceVerdict, AddEvent
<1>3. verdict => worker[w].result \in {"completed", "failed"}
  BY <1>1 DEF Holds, AnnounceStarted, AnnounceVerdict, JobsTypeOK
<1>4. /\ e \in Event /\ e.job = j
      /\ IsVerdict(e) => verdict
      /\ verdict => e.type \in VerdictOf(status[j])
  BY <1>1, <1>3, Settled DEF Holds, Event, EventTypes, IsVerdict, Verdicts
<1>5. /\ worker' \in [Workers -> WorkerType] /\ worker'[w].job \in {j, NoJob}
      /\ \A v \in Workers : v # w => worker'[v] = worker[v]
      /\ verdict => worker'[w] = Waiting
      /\ Holds(w)'
  <2> USE DEF JobsTypeOK, WorkerType, Result, WorkerPhases, Waiting, Holds
  <2>1. CASE worker' = [worker EXCEPT ![w] = Waiting] /\ verdict
    BY <1>1, <1>2, <2>1
  <2>2. CASE worker' = [worker EXCEPT ![w].phase = "executing"] /\ worker[w].phase = "running"
    BY <1>1, <1>2, <2>2
  <2> QED BY <1>2, <2>1, <2>2
<1>7. Lane'
  BY <1>1, <1>2, <1>5, GoesOn
<1>8. Free(j, worker') \/ ~verdict
  <2>1. ASSUME verdict, NEW v \in Workers PROVE worker'[v].job # j
    <3>1. CASE v = w
      <4>1. worker'[v] = Waiting /\ Waiting.job = NoJob
        BY <1>5, <2>1, <3>1 DEF Waiting
      <4> QED BY <1>1, <4>1
    <3>2. CASE v # w
      BY <1>1, <1>5, <3>2 DEF Lane, OneHolder
    <3> QED BY <3>1, <3>2
  <2> QED BY <2>1 DEF Free
<1>9. \A i \in 1 .. Len(events) : IsVerdict(events[i]) =>
        events[i].job # j /\ Free(events[i].job, worker')
  <2> SUFFICES ASSUME NEW i \in 1 .. Len(events), IsVerdict(events[i])
               PROVE  events[i].job # j /\ Free(events[i].job, worker')
    OBVIOUS
  <2>1. events[i].job \in Jobs /\ Free(events[i].job, worker)
    BY Logged DEF LogIsTrue
  <2> QED BY <1>5, <2>1 DEF Free, JobsAssumption
<1> HIDE DEF e, j, verdict
<1>10. events' \in Seq(Event) /\ LogIsTrue' /\ PollerIsBehind' /\ VerdictsAreShown'
  BY <1>2, <1>4, <1>8, <1>9, LogKeeps DEF LogIsTrue
<1>11. JobsTypeOK'
  BY <1>2, <1>5, <1>10 DEF JobsTypeOK, WorkerType, Result, Event
<1> QED BY <1>7, <1>10, <1>11

-----------------------------------------------------------------------------
(* A restart.                                                                 *)

\* mark_incomplete_jobs_interrupted: one event for each row that was not settled, which
\* had no verdict.
LEMMA RestartKeeps ==
  ASSUME JobsAssumption, IInv, Recover
  PROVE  IInv'
<1> USE DEF IInv
<1> DEFINE open == {j \in Jobs : Incomplete(j)}
           n == Cardinality(open)
<1>1. n \in Nat
  BY FS_Subset, FS_CardinalityType DEF JobsAssumption
<1>2. PICK order \in [1 .. n -> open] :
        /\ \A a, b \in DOMAIN order : order[a] = order[b] => a = b
        /\ events' = events \o Interruption(order)
  BY DEF Recover
<1>3. /\ status' = [j \in Jobs |-> IF Incomplete(j) THEN "interrupted" ELSE status[j]]
      /\ queue' = <<>> /\ router' = [phase |-> "idle", job |-> NoJob]
      /\ worker' = [w \in Workers |-> Waiting] /\ UNCHANGED client
  BY DEF Recover
<1>4. failures' \in 0 .. MaxFailures
  <2>1. MaxFailures \in Nat /\ failures \in 0 .. MaxFailures
    BY DEF JobsTypeOK, JobsAssumption
  <2>2. failures < MaxFailures /\ failures' = failures + 1
    BY DEF Recover
  <2> QED BY <2>1, <2>2
<1> DEFINE added == Interruption(order)
<1>5. /\ added \in Seq(Event) /\ Len(added) = n
      /\ \A i \in 1 .. n : added[i] = [job |-> order[i], type |-> "interrupted"]
  <2>1. added = [i \in 1 .. n |-> [job |-> order[i], type |-> "interrupted"]]
    BY DEF Interruption
  <2>2. \A i \in 1 .. n : [job |-> order[i], type |-> "interrupted"] \in Event
    BY DEF Event, EventTypes, Verdicts
  <2> HIDE DEF added
  <2> QED BY <1>1, <2>1, <2>2
<1>6. \A i \in 1 .. n : order[i] \in Jobs /\ Incomplete(order[i])
  BY <1>2
<1>7. \A i, k \in 1 .. n : order[i] = order[k] => i = k
  BY <1>2
<1> HIDE DEF open, n, added
<1>8. events \in Seq(Event) /\ Len(events) \in Nat
  BY Logged
<1> DEFINE m == Len(events)
<1>9. /\ events' \in Seq(Event) /\ Len(events') = m + n
      /\ \A i \in 1 .. m + n : events'[i] = IF i <= m THEN events[i] ELSE added[i - m]
  <2>1. events' = events \o added
    BY <1>2 DEF added
  <2> QED BY <2>1, <1>5, <1>8, ConcatProperties
<1>10. \A i \in 1 .. m : events'[i] = events[i]
  BY <1>1, <1>8, <1>9
<1>11. PollerIsBehind' /\ VerdictsAreShown'
  BY <1>1, <1>3, <1>9, <1>10, ReaderKeeps
<1>12. JobsTypeOK'
  <2>1. <<>> \in Seq(Jobs \cup {Stop})
    OBVIOUS
  <2> QED BY <1>3, <1>4, <1>9, <2>1
          DEF JobsTypeOK, Event, Statuses, Terminal, Waiting, WorkerPhases
<1>13. Lane'
  <2>1. Len(queue') = 0
    BY <1>3
  <2> QED BY <1>3, <2>1 DEF Lane, Holds, OneHolder, RouterHolds, QueueHolds, Waiting
<1>14. \A j \in Jobs : Free(j, worker')
  BY <1>3 DEF Free, Waiting, JobsAssumption
<1>15. \A i \in 1 .. m : IsVerdict(events[i]) =>
         events[i].job \in Jobs /\ ~Incomplete(events[i].job)
  <2> SUFFICES ASSUME NEW i \in 1 .. m, IsVerdict(events[i])
               PROVE  events[i].job \in Jobs /\ ~Incomplete(events[i].job)
    OBVIOUS
  <2>1. events[i].job \in Jobs
    BY Logged DEF m
  <2>2. status[events[i].job] \in Statuses
    BY <2>1 DEF JobsTypeOK
  <2>3. VerdictOf(status[events[i].job]) # {}
    BY DEF LogIsTrue
  <2> QED BY <2>1, <2>2, <2>3, Unsettled DEF Incomplete, Statuses
<1>16. ASSUME NEW i \in 1 .. m + n
       PROVE  \/ i \in 1 .. m /\ events'[i] = events[i]
              \/ /\ i - m \in 1 .. n
                 /\ events'[i] = [job |-> order[i - m], type |-> "interrupted"]
  <2>1. CASE i <= m
    <3>1. i \in 1 .. m
      BY <1>1, <1>8, <2>1
    <3> QED BY <3>1, <1>10
  <2>2. CASE i > m
    <3>1. i - m \in 1 .. n
      BY <1>1, <1>8, <2>2
    <3>2. events'[i] = added[i - m]
      BY <1>1, <1>8, <1>9, <2>2
    <3> QED BY <3>1, <3>2, <1>5
  <2> QED BY <1>1, <1>8, <2>1, <2>2
<1> HIDE DEF m
<1>17. LogIsTrue'
  <2> SUFFICES ASSUME NEW i \in 1 .. m + n, IsVerdict(events'[i])
               PROVE  /\ events'[i].type \in VerdictOf(status'[events'[i].job])
                      /\ Free(events'[i].job, worker')
                      /\ \A k \in 1 .. m + n :
                           IsVerdict(events'[k]) /\ events'[k].job = events'[i].job => k = i
    BY <1>9 DEF LogIsTrue, IsVerdict
  <2>1. CASE i \in 1 .. m /\ events'[i] = events[i]
    <3>1. events[i].job \in Jobs /\ ~Incomplete(events[i].job)
      BY <1>15, <2>1
    <3>2. /\ events[i].type \in VerdictOf(status[events[i].job])
          /\ \A k \in 1 .. m : IsVerdict(events[k]) /\ events[k].job = events[i].job => k = i
      BY <2>1 DEF LogIsTrue, m
    <3>3. status'[events[i].job] = status[events[i].job]
      BY <1>3, <3>1
    <3>4. ASSUME NEW k \in 1 .. m + n, IsVerdict(events'[k]), events'[k].job = events'[i].job
          PROVE  k = i
      <4>1. CASE k \in 1 .. m /\ events'[k] = events[k]
        BY <2>1, <3>2, <3>4, <4>1
      <4>2. CASE /\ k - m \in 1 .. n
                 /\ events'[k] = [job |-> order[k - m], type |-> "interrupted"]
        BY <1>6, <2>1, <3>1, <3>4, <4>2
      <4> QED BY <1>16, <4>1, <4>2
    <3> QED BY <1>14, <2>1, <3>1, <3>2, <3>3, <3>4
  <2>2. CASE /\ i - m \in 1 .. n
             /\ events'[i] = [job |-> order[i - m], type |-> "interrupted"]
    <3>1. order[i - m] \in Jobs /\ Incomplete(order[i - m])
      BY <1>6, <2>2
    <3>2. status'[order[i - m]] = "interrupted"
      BY <1>3, <3>1
    <3>3. ASSUME NEW k \in 1 .. m + n, IsVerdict(events'[k]), events'[k].job = events'[i].job
          PROVE  k = i
      <4>1. CASE k \in 1 .. m /\ events'[k] = events[k]
        BY <1>15, <2>2, <3>1, <3>3, <4>1
      <4>2. CASE /\ k - m \in 1 .. n
                 /\ events'[k] = [job |-> order[k - m], type |-> "interrupted"]
        <5>1. order[k - m] = order[i - m]
          BY <2>2, <3>3, <4>2
        <5>2. k - m = i - m
          BY <1>7, <2>2, <4>2, <5>1
        <5> QED BY <1>8, <5>2 DEF m
      <4> QED BY <1>16, <4>1, <4>2
    <3> QED BY <1>14, <2>2, <3>1, <3>2, <3>3, Settled
  <2> QED BY <1>16, <2>1, <2>2
<1> QED BY <1>11, <1>12, <1>13, <1>17

-----------------------------------------------------------------------------
(* The terminal's poller.                                                     *)

\* It advances to the end of the page it printed: no event is passed unread.
LEMMA PollKeeps ==
  ASSUME JobsAssumption, IInv, Connect \/ Poll
  PROVE  IInv'
<1> USE DEF IInv
<1>1. UNCHANGED <<status, events, queue, router, worker, failures>>
  BY DEF Connect, Poll, PollUnsynced, PollSynced
<1>2. Len(events) \in Nat /\ client.cursor \in Nat /\ client.since \in Nat /\ PageSize \in Nat
  BY Logged DEF JobsTypeOK, JobsAssumption
<1>3. client' \in [state : {"off", "unsynced", "synced"}, since : Nat, cursor : Nat,
                   shown : SUBSET Nat]
      /\ PollerIsBehind' /\ VerdictsAreShown'
  <2>1. CASE Connect
    <3>1. PICK c \in {0, Len(events)} :
            client' = [state |-> IF c > 0 THEN "synced" ELSE "unsynced",
                       since |-> c, cursor |-> c, shown |-> {}]
      BY <2>1 DEF Connect
    <3> QED BY <1>1, <1>2, <3>1 DEF PollerIsBehind, VerdictsAreShown
  <2>2. CASE PollUnsynced
    <3>1. /\ client'.cursor = Len(events) /\ client'.since = Len(events)
          /\ client' \in [state : {"off", "unsynced", "synced"}, since : Nat, cursor : Nat,
                          shown : SUBSET Nat]
      BY <1>2, <2>2 DEF PollUnsynced, JobsTypeOK
    <3> QED BY <1>1, <1>2, <3>1 DEF PollerIsBehind, VerdictsAreShown
  <2>3. CASE PollSynced
    <3> DEFINE c == client.cursor
               last == IF c + PageSize <= Len(events) THEN c + PageSize ELSE Len(events)
    <3>1. last \in Nat /\ c <= last /\ last <= Len(events)
      BY <1>2 DEF PollerIsBehind
    <3>2. Page = c + 1 .. last
      BY <1>2 DEF Page, PollerIsBehind
    <3>3. PageEnd = last
      <4>1. Cardinality(c + 1 .. last) = last - c
        <5> HIDE DEF last
        <5>1. c + 1 \in Int /\ last \in Int
          BY <1>2, <3>1
        <5>2. Cardinality(c + 1 .. last) = IF c + 1 > last THEN 0 ELSE last - (c + 1) + 1
          BY <5>1, FS_Interval
        <5> QED BY <1>2, <3>1, <5>2
      <4> QED BY <1>2, <3>1, <3>2, <4>1 DEF PageEnd
    <3>4. /\ client'.cursor = last /\ client'.since = client.since
          /\ client'.state = client.state /\ client'.shown = client.shown \cup ToPrint
          /\ client' \in [state : {"off", "unsynced", "synced"}, since : Nat, cursor : Nat,
                          shown : SUBSET Nat]
      <4>1. ToPrint \subseteq Nat
        BY <1>2, <3>1, <3>2 DEF ToPrint
      <4> QED BY <2>3, <3>1, <3>3, <4>1 DEF PollSynced, JobsTypeOK
    <3>5. \A i \in c + 1 .. last : events[i].type \in Verdicts => i \in ToPrint
      BY <3>2 DEF ToPrint
    <3> HIDE DEF last
    <3> QED BY <1>1, <1>2, <3>1, <3>4, <3>5 DEF PollerIsBehind, VerdictsAreShown
  <2> QED BY <2>1, <2>2, <2>3 DEF Poll
<1>4. JobsTypeOK'
  BY <1>1, <1>3 DEF JobsTypeOK
<1>5. Lane' /\ LogIsTrue'
  BY <1>1 DEF Lane, Holds, OneHolder, RouterHolds, QueueHolds, Unqueued, LogIsTrue
<1> QED BY <1>3, <1>4, <1>5

-----------------------------------------------------------------------------

LEMMA NextIInv == JobsAssumption /\ IInv /\ [JbNext]_jbVars => IInv'
<1> SUFFICES ASSUME JobsAssumption, IInv, [JbNext]_jbVars PROVE IInv'
  OBVIOUS
<1>1. CASE \E j \in Jobs : CreateJob(j)
  BY <1>1, CreateKeeps
<1>2. CASE Submit \/ Shutdown \/ SubmitFails
  BY <1>2, AnnounceQueuedKeeps, EnqueueKeeps, RouterEndsKeeps DEF Submit
<1>3. CASE \E w \in Workers : Run(w) \/ StoreCallFails(w)
  <2>1. PICK w \in Workers : Run(w) \/ StoreCallFails(w)
    BY <1>3
  <2> QED BY <2>1, TakeKeeps, RunKeeps, TellKeeps DEF Run
<1>4. CASE Recover \/ Connect \/ Poll
  BY <1>4, RestartKeeps, PollKeeps
<1>5. CASE UNCHANGED jbVars
  <2>1. JobsTypeOK'
    BY <1>5 DEF jbVars, IInv, JobsTypeOK
  <2>2. Lane'
    BY <1>5 DEF jbVars, IInv, Lane, Holds, OneHolder, RouterHolds, QueueHolds, Unqueued
  <2>3. LogIsTrue' /\ PollerIsBehind' /\ VerdictsAreShown'
    BY <1>5 DEF jbVars, IInv, LogIsTrue, PollerIsBehind, VerdictsAreShown
  <2> QED BY <2>1, <2>2, <2>3 DEF IInv
<1> QED BY <1>1, <1>2, <1>3, <1>4, <1>5 DEF JbNext

\* The inductive invariant, for every set of jobs, every pool of workers and every page.
THEOREM LaneInvariant == ASSUME JobsAssumption PROVE JbSpec => []IInv
<1>1. JbInit => IInv
  BY InitIInv
<1>2. IInv /\ [JbNext]_jbVars => IInv'
  BY NextIInv
<1> QED BY <1>1, <1>2, PTL DEF JbSpec

\* A job is run by one worker at a time and told of at most once, by the verdict its
\* row holds (jobs.py, _run_job and mark_incomplete_jobs_interrupted).
THEOREM OneVerdict == ASSUME JobsAssumption PROVE JbSpec => []OneRunOneVerdict
<1>1. IInv => OneRunOneVerdict
  <2> SUFFICES ASSUME IInv PROVE OneRunOneVerdict
    OBVIOUS
  <2>1. events \in Seq(Event) /\ Len(events) \in Nat /\ queue \in Seq(Jobs \cup {Stop})
        /\ DOMAIN events = 1 .. Len(events) /\ DOMAIN queue = 1 .. Len(queue)
    <3>1. JobsTypeOK
      BY DEF IInv
    <3>2. events \in Seq(Event) /\ Len(events) \in Nat
      BY <3>1, Logged
    <3>3. queue \in Seq(Jobs \cup {Stop})
      BY <3>1 DEF JobsTypeOK
    <3> QED BY <3>2, <3>3
  <2>2. \A i \in DOMAIN queue : queue[i] \in Jobs => \A w \in Workers : worker[w].job # queue[i]
    BY <2>1 DEF IInv, Lane, QueueHolds, Free, JobsAssumption
  <2>3. ASSUME NEW j \in Jobs
        PROVE  /\ Cardinality(VerdictIds(j)) <= 1
               /\ \A i \in VerdictIds(j) : events[i].type \in VerdictOf(status[j])
    <3>1. \A i, k \in VerdictIds(j) : i = k
      BY <2>1 DEF VerdictIds, IInv, LogIsTrue, IsVerdict
    <3>2. VerdictIds(j) = {} \/ \E x : VerdictIds(j) = {x}
      BY <3>1
    <3>3. Cardinality(VerdictIds(j)) <= 1
      <4>1. Cardinality(VerdictIds(j)) = 0 \/ Cardinality(VerdictIds(j)) = 1
        BY <3>2, FS_EmptySet, FS_Singleton
      <4> QED BY <4>1
    <3> QED BY <2>1, <3>3 DEF VerdictIds, IInv, LogIsTrue, IsVerdict
  <2> QED BY <2>2, <2>3 DEF IInv, Lane, OneHolder, OneRunOneVerdict
<1> QED BY <1>1, LaneInvariant, PTL

\* The poller prints every verdict its cursor has passed, whatever the page size
\* (text/client.py, _poll_session_events).
THEOREM VerdictsShown == ASSUME JobsAssumption PROVE JbSpec => []VerdictsAreShown
<1>1. IInv => VerdictsAreShown
  BY DEF IInv
<1> QED BY <1>1, LaneInvariant, PTL

-----------------------------------------------------------------------------
(* PhoneCalls: the inductive invariant.  What a path has read or is about to   *)
(* write is true, wherever it waits; the memory is the witness of a summary.   *)

\* How a call ended is as the call ended.
Sound(c, v) == v \in Ended => talk[c] = v

\* An end of the call is in the conversation memory, and a summary says no other.
Remembered(c, end) == \E m \in memory : m[1] = c /\ m[3] = end
Backed(c, summary) ==
  \A end \in Ended, x \in Sessions : summary = <<end, x>> => Remembered(c, end)

RowIsTrue(c, have) ==
  Sound(c, have.status) /\ Sound(c, have.outcome) /\ Backed(c, have.summary)
WriteIsTrue(s) == s.status # "none" /\ Sound(s.call, s.status) /\ Sound(s.call, s.outcome)

\* What a path has in hand at each of its places.
Carries(p, h) ==
  /\ h.pc # "idle" => h.call \in CallIds
  /\ p \notin Requests => h.pc \notin {"fetch", "refresh", "next"}
  /\ p \notin Pushes => h.pc # "announce"
  /\ \A s \in h.snap \cup h.todo : WriteIsTrue(s)
  /\ \A s \in h.snap :
       /\ p \in Placings => s.kept = "row"
       /\ p \in Pushes => s.kept = "nothing" /\ s.outcome \in Ended
  /\ h.pc \in {"sent", "lookup", "store"} => \E s \in WriteRec : h.snap = {s} /\ s.call = h.call
  /\ h.pc \in {"store", "finalize"} => RowIsTrue(h.call, h.row)
  /\ p \in Requests /\ h.pc \in {"fetch", "refresh", "next", "lookup", "store"} => h.about \in CallIds
  /\ p \in Placings /\ h.pc \in {"reread", "finalize", "done", "failed"} =>
       near[h.call].status # "none"

\* While nobody asks, a push leaves its end in the row, and from there in the memory.
Quiet == \A q \in Requests : op[q].pc = "idle"
Leaves(h) ==
  /\ h.pc \in {"reread", "finalize", "announce", "done"} => near[h.call].outcome \in Ended
  /\ h.pc = "finalize" => h.row.outcome \in Ended
  /\ h.pc \in {"announce", "done"} => \E end \in Ended : Remembered(h.call, end)

Rows ==
  \A c \in CallIds :
    /\ RowIsTrue(c, far[c]) /\ RowIsTrue(c, near[c])
    /\ far[c].status = "none" => far[c].at = 0
    /\ near[c].at <= second
Sayings ==
  /\ \A m \in memory : Sound(m[1], m[3])
  /\ \A t \in told : Backed(t[1], t[2])

PhInv ==
  /\ PhoneTypeOK /\ Rows /\ Sayings
  /\ \A p \in Ops : Carries(p, op[p])
  /\ Quiet => \A p \in Pushes : Leaves(op[p])

-----------------------------------------------------------------------------
\* The three kinds of paths.
LEMMA Kinds ==
  ASSUME NEW p \in Ops
  PROVE  /\ p \in Placings => p \notin Pushes /\ p \notin Requests
         /\ p \in Pushes => p \notin Requests
  BY DEF Ops, Placings, Pushes, Requests

LEMMA EmptyRow == NoCall \in CallRec /\ Nothing \in OpRec
  BY DEF NoCall, CallRec, Nothing, OpRec, Says, Sessions

LEMMA PhoneInit == PhInit => PhInv
<1> SUFFICES ASSUME PhInit PROVE PhInv
  OBVIOUS
<1>1. PhoneTypeOK
  BY EmptyRow, PhoneAssumption DEF PhInit, PhoneTypeOK
<1>2. Rows
  BY DEF PhInit, Rows, RowIsTrue, Sound, Backed, NoCall, Ended
<1>3. Sayings
  BY DEF PhInit, Sayings
<1>4. ASSUME NEW p \in Ops PROVE Carries(p, op[p])
  BY DEF PhInit, Carries, Nothing
<1>5. ASSUME NEW p \in Pushes PROVE Leaves(op[p])
  <2>1. p \in Ops
    BY DEF Ops
  <2> QED BY <2>1 DEF PhInit, Leaves, Nothing
<1> QED BY <1>1, <1>2, <1>3, <1>4, <1>5 DEF PhInv

\* An end stays an end, what is remembered stays, and a row is not removed.
Grows ==
  /\ \A c \in CallIds : talk[c] \in Ended => talk'[c] = talk[c]
  /\ memory \subseteq memory'
  /\ \A c \in CallIds : near[c].status # "none" => near'[c].status # "none"

LEMMA CarriesStays ==
  ASSUME PhInv, Grows, NEW p \in Ops, NEW h \in OpRec, Carries(p, h), op'[p] = h
  PROVE  Carries(p, op[p])'
<1>1. ASSUME NEW s \in h.snap \cup h.todo PROVE WriteIsTrue(s)'
  <2>1. s.call \in CallIds /\ WriteIsTrue(s)
    BY DEF OpRec, WriteRec, Carries
  <2> QED BY <2>1 DEF WriteIsTrue, Sound, Grows
<1>2. ASSUME h.pc \in {"store", "finalize"}
      PROVE  Sound(h.call, h.row.status)' /\ Sound(h.call, h.row.outcome)' /\ Backed(h.call, h.row.summary)'
  <2>1. h.call \in CallIds /\ RowIsTrue(h.call, h.row)
    BY <1>2 DEF Carries
  <2> QED BY <2>1 DEF RowIsTrue, Sound, Backed, Remembered, Grows
<1>3. p \in Placings /\ h.pc \in {"reread", "finalize", "done", "failed"} => near'[h.call].status # "none"
  BY DEF Carries, Grows
<1> QED BY <1>1, <1>2, <1>3 DEF Carries, RowIsTrue

LEMMA LeavesStays ==
  ASSUME PhInv, Grows, NEW p \in Pushes, NEW h \in OpRec, Carries(p, h), Leaves(h), op'[p] = h,
         \A c \in CallIds : near[c].outcome \in Ended => near'[c].outcome \in Ended
  PROVE  Leaves(op[p])'
  BY DEF Leaves, Carries, Remembered, Grows

\* A step that changes nothing but one path, or begins a call.
LEMMA PathStep ==
  ASSUME PhInv, NEW p \in Ops, NEW h \in OpRec, op' = [op EXCEPT ![p] = h],
         UNCHANGED <<second, bridged, far, near, hooks, memory, told>>,
         talk' \in [CallIds -> {"none", "on"} \cup Ended],
         \A c \in CallIds : talk[c] \in Ended => talk'[c] = talk[c],
         h.pc # "idle", Carries(p, h), p \in Pushes /\ Quiet => Leaves(h)
  PROVE  PhInv'
<1>1. Grows
  BY DEF Grows
<1>2. PhoneTypeOK'
  BY DEF PhInv, PhoneTypeOK
<1>3. Rows'
  <2> SUFFICES ASSUME NEW c \in CallIds
               PROVE  /\ RowIsTrue(c, far[c])' /\ RowIsTrue(c, near[c])'
                      /\ far[c].status = "none" => far[c].at = 0
                      /\ near[c].at <= second
    BY DEF Rows
  <2>1. /\ RowIsTrue(c, far[c]) /\ RowIsTrue(c, near[c])
        /\ far[c].status = "none" => far[c].at = 0
        /\ near[c].at <= second
    BY DEF PhInv, Rows
  <2> QED BY <2>1 DEF RowIsTrue, Sound, Backed, Remembered
<1>4. Sayings'
  <2>1. Sayings /\ memory \subseteq CallIds \X Sessions \X Says
    BY DEF PhInv, PhoneTypeOK
  <2> QED BY <2>1 DEF Sayings, Sound, Backed, Remembered
<1>5. ASSUME NEW q \in Ops PROVE Carries(q, op[q])'
  <2>1. op'[q] \in OpRec /\ Carries(q, op'[q])
    BY DEF PhInv, PhoneTypeOK
  <2> QED BY <1>1, <2>1, CarriesStays
<1>6. ASSUME Quiet', NEW q \in Pushes PROVE Leaves(op[q])'
  <2>1. q \in Ops
    BY DEF Ops
  <2>2. Quiet
    BY <1>6, Kinds DEF Quiet, PhInv, PhoneTypeOK, Ops
  <2>3. op'[q] \in OpRec /\ Carries(q, op'[q]) /\ Leaves(op'[q])
    BY <2>1, <2>2 DEF PhInv, PhoneTypeOK
  <2> QED BY <1>1, <2>3, LeavesStays
<1> QED BY <1>2, <1>3, <1>4, <1>5, <1>6 DEF PhInv

\* A step that leaves the paths and the tables alone.
LEMMA OutsideKeeps ==
  ASSUME PhInv, UNCHANGED <<bridged, far, near, hooks, op, memory, told>>,
         second' \in Nat, second <= second',
         talk' \in [CallIds -> {"none", "on"} \cup Ended],
         \A c \in CallIds : talk[c] \in Ended => talk'[c] = talk[c]
  PROVE  PhInv'
<1>1. Grows
  BY DEF Grows
<1>2. PhoneTypeOK'
  BY DEF PhInv, PhoneTypeOK
<1>3. Rows'
  <2> SUFFICES ASSUME NEW c \in CallIds
               PROVE  /\ RowIsTrue(c, far[c])' /\ RowIsTrue(c, near[c])'
                      /\ far[c].status = "none" => far[c].at = 0
                      /\ near[c].at <= second'
    BY DEF Rows
  <2>1. near[c].at \in Nat /\ near[c].at <= second /\ second \in Nat
    BY DEF PhInv, PhoneTypeOK, Rows, CallRec
  <2> QED BY <2>1 DEF PhInv, Rows, RowIsTrue, Sound, Backed, Remembered
<1>4. Sayings'
  BY DEF PhInv, PhoneTypeOK, Sayings, Sound, Backed, Remembered
<1>5. ASSUME NEW p \in Ops PROVE Carries(p, op[p])'
  BY <1>1, CarriesStays DEF PhInv, PhoneTypeOK
<1>6. ASSUME Quiet', NEW p \in Pushes PROVE Leaves(op[p])'
  <2>1. p \in Ops /\ Quiet
    BY <1>6 DEF Ops, Quiet
  <2> QED BY <1>1, <2>1, LeavesStays DEF PhInv, PhoneTypeOK
<1> QED BY <1>2, <1>3, <1>4, <1>5, <1>6 DEF PhInv

LEMMA RingKeeps == ASSUME PhInv, NEW c \in CallIds, Ring(c) \/ HangUp(c) PROVE PhInv'
<1>1. second \in Nat /\ second' = second
  BY DEF PhInv, PhoneTypeOK, Ring, HangUp
<1>2. \A d \in CallIds : talk[d] \in Ended => talk'[d] = talk[d]
  BY DEF PhInv, PhoneTypeOK, Ring, HangUp, Ended
<1>3. talk' \in [CallIds -> {"none", "on"} \cup Ended]
  BY DEF PhInv, PhoneTypeOK, Ring, HangUp, Ended
<1> QED BY <1>1, <1>2, <1>3, OutsideKeeps DEF Ring, HangUp

LEMMA SecondKeeps == ASSUME PhInv, SecondPasses \/ UNCHANGED phoneVars PROVE PhInv'
<1>1. second \in Nat /\ talk \in [CallIds -> {"none", "on"} \cup Ended]
  BY DEF PhInv, PhoneTypeOK
<1>2. second' \in Nat /\ second <= second'
  BY <1>1 DEF SecondPasses, phoneVars
<1> QED BY <1>1, <1>2, OutsideKeeps DEF SecondPasses, phoneVars

-----------------------------------------------------------------------------
(* ElevenLabs and the bridge.                                                 *)

\* What a webhook makes of the bridge's row is true of the call.
LEMMA ToldIsTrue ==
  ASSUME PhInv, NEW c \in CallIds, talk[c] # "none",
         NEW ended \in {FALSE} \cup {talk[c] \in Ended}
  PROVE  /\ Told(c, ended) \in CallRec /\ RowIsTrue(c, Told(c, ended))
         /\ Told(c, ended).status # "none"
         /\ ended => Told(c, ended).outcome \in Ended
<1>1. /\ far[c] \in CallRec /\ second \in Nat /\ RowIsTrue(c, far[c])
      /\ talk[c] \in {"none", "on"} \cup Ended
  BY DEF PhInv, PhoneTypeOK, Rows
<1>2. Told(c, ended) \in CallRec
  BY <1>1 DEF Told, CallRec, Says, Sessions, Ended
<1> QED BY <1>1, <1>2 DEF Told, RowIsTrue, Sound, Backed, Ended

LEMMA WebhookKeeps == ASSUME PhInv, NEW c \in CallIds, Webhook(c) PROVE PhInv'
<1> PICK ended \in {FALSE} \cup {talk[c] \in Ended} :
      /\ far' = [far EXCEPT ![c] = Told(c, ended)]
      /\ op' = IF ended THEN [op EXCEPT ![<<"push", c, hooks'[c]>>] =
                    [Nothing EXCEPT !.pc = "sent", !.call = c,
                     !.snap = {Copy(c, far'[c])}]]
                ELSE op
  BY DEF Webhook
<1> DEFINE P == <<"push", c, hooks'[c]>>
           w == Copy(c, Told(c, ended))
           h == [Nothing EXCEPT !.pc = "sent", !.call = c, !.snap = {w}]
<1>0. UNCHANGED <<second, bridged, talk, near, memory, told>> /\ talk[c] # "none"
  BY DEF Webhook
<1>1. /\ Told(c, ended) \in CallRec /\ RowIsTrue(c, Told(c, ended))
      /\ Told(c, ended).status # "none" /\ (ended => Told(c, ended).outcome \in Ended)
  BY <1>0, ToldIsTrue
<1>2. far' \in [CallIds -> CallRec] /\ far'[c] = Told(c, ended)
  BY <1>1 DEF PhInv, PhoneTypeOK
<1>3. hooks' \in [CallIds -> 0 .. Hooks] /\ hooks'[c] \in 1 .. Hooks
  BY PhoneAssumption DEF PhInv, PhoneTypeOK, Webhook
<1>4. P \in Ops /\ P \in Pushes
  BY <1>3 DEF Ops, Pushes
<1>5. w \in WriteRec /\ w.call = c /\ WriteIsTrue(w) /\ w.kept = "nothing"
      /\ (ended => w.outcome \in Ended)
  BY <1>1 DEF Copy, Write, WriteRec, CallRec, WriteIsTrue, RowIsTrue
<1>6. h \in OpRec /\ h.pc = "sent" /\ h.call = c /\ h.snap = {w} /\ h.todo = {}
  BY <1>5, EmptyRow DEF OpRec, Nothing
<1>7. ended => Carries(P, h) /\ Leaves(h)
  BY <1>4, <1>5, <1>6, Kinds DEF Carries, Leaves
<1>8. Grows
  BY <1>0 DEF Grows
<1>9. op' = IF ended THEN [op EXCEPT ![P] = h] ELSE op
  BY <1>2
<1> HIDE DEF w, h
<1>10. PhoneTypeOK'
  BY <1>0, <1>2, <1>3, <1>6, <1>9 DEF PhInv, PhoneTypeOK
<1>11. Rows'
  <2> SUFFICES ASSUME NEW d \in CallIds
               PROVE  /\ RowIsTrue(d, far'[d]) /\ RowIsTrue(d, near[d])
                      /\ far'[d].status = "none" => far'[d].at = 0
                      /\ near[d].at <= second
    BY <1>0 DEF Rows, RowIsTrue, Sound, Backed, Remembered
  <2>1. far'[d] = IF d = c THEN Told(c, ended) ELSE far[d]
    BY DEF PhInv, PhoneTypeOK
  <2> QED BY <1>1, <2>1 DEF PhInv, Rows
<1>12. Sayings'
  BY <1>0 DEF PhInv, Sayings, Sound, Backed, Remembered
<1>13. ASSUME NEW q \in Ops PROVE Carries(q, op[q])'
  <2>1. op'[q] \in OpRec /\ Carries(q, op'[q])
    BY <1>4, <1>6, <1>7, <1>9 DEF PhInv, PhoneTypeOK
  <2> QED BY <1>8, <2>1, CarriesStays
<1>14. ASSUME Quiet', NEW q \in Pushes PROVE Leaves(op[q])'
  <2>1. q \in Ops
    BY DEF Ops
  <2>2. Quiet
    BY <1>4, <1>9, <1>14, Kinds DEF Quiet, PhInv, PhoneTypeOK, Ops
  <2>3. op'[q] \in OpRec /\ Carries(q, op'[q]) /\ Leaves(op'[q])
    BY <1>4, <1>6, <1>7, <1>9, <2>1, <2>2 DEF PhInv, PhoneTypeOK
  <2> QED BY <1>0, <1>8, <2>3, LeavesStays
<1> QED BY <1>10, <1>11, <1>12, <1>13, <1>14 DEF PhInv

LEMMA PushKeeps == ASSUME PhInv, NEW p \in Pushes, Push(p) PROVE PhInv'
<1> DEFINE sent(pc) == [op[p] EXCEPT !.pc = pc]
<1>1. p \in Ops /\ op[p] \in OpRec /\ Carries(p, op[p]) /\ op[p].pc = "sent"
  BY DEF Push, Ops, PhInv, PhoneTypeOK
<1>2. PICK pc \in {"lookup", "lost"} : op' = [op EXCEPT ![p] = sent(pc)]
  BY DEF Push, Steps
<1> DEFINE h == sent(pc)
<1>3. /\ h \in OpRec /\ h.pc = pc /\ h.call = op[p].call /\ h.snap = op[p].snap
      /\ h.todo = op[p].todo /\ h.row = op[p].row
  BY <1>1 DEF OpRec
<1> HIDE DEF h
<1>4. Carries(p, h) /\ Leaves(h)
  BY <1>1, <1>3, Kinds DEF Carries, Leaves
<1>5. talk \in [CallIds -> {"none", "on"} \cup Ended]
  BY DEF PhInv, PhoneTypeOK
<1> QED BY <1>1, <1>2, <1>3, <1>4, <1>5, PathStep DEF Push, h

LEMMA PlaceKeeps == ASSUME PhInv, NEW c \in CallIds, Place(c) PROVE PhInv'
<1> DEFINE P == <<"place", c, 0>>
           w == Write(c, "initiated", "none", "user", "row")
           h == [Nothing EXCEPT !.pc = "lookup", !.call = c, !.snap = {w}]
<1>1. P \in Ops /\ P \in Placings /\ P \notin Pushes /\ P \notin Requests
  BY Kinds DEF Place, Ops, Placings
<1>2. w \in WriteRec /\ w.call = c /\ WriteIsTrue(w) /\ w.kept = "row"
  BY DEF Write, WriteRec, WriteIsTrue, Sound, Says, Sessions, Ended
<1>3. h \in OpRec /\ h.pc = "lookup" /\ h.call = c /\ h.snap = {w} /\ h.todo = {}
  BY <1>2, EmptyRow DEF OpRec, Nothing
<1>4. op' = [op EXCEPT ![P] = h]
  BY DEF Place
<1> HIDE DEF w, h
<1>5. Carries(P, h)
  BY <1>1, <1>2, <1>3 DEF Carries
<1>6. \A d \in CallIds : talk[d] \in Ended => talk'[d] = talk[d]
  BY DEF PhInv, PhoneTypeOK, Place, Ended
<1>7. talk' \in [CallIds -> {"none", "on"} \cup Ended]
  BY DEF PhInv, PhoneTypeOK, Place
<1> QED BY <1>1, <1>3, <1>4, <1>5, <1>6, <1>7, PathStep DEF Place

-----------------------------------------------------------------------------
(* The paths of the main machine.                                             *)

LEMMA PathTypes ==
  ASSUME PhInv, NEW p \in Ops
  PROVE  /\ op[p] \in OpRec /\ Carries(p, op[p])
         /\ p \in Pushes /\ Quiet => Leaves(op[p])
         /\ talk \in [CallIds -> {"none", "on"} \cup Ended]
         /\ \A c \in CallIds : near[c] \in CallRec /\ far[c] \in CallRec
  BY DEF PhInv, PhoneTypeOK

LEMMA LookupKeeps == ASSUME PhInv, NEW p \in Ops, Lookup(p) \/ Reread(p) PROVE PhInv'
<1> DEFINE pc == IF op[p].pc = "lookup" THEN "store" ELSE "finalize"
           h == [op[p] EXCEPT !.pc = pc, !.row = near[op[p].call]]
<1>1. op[p].pc \in {"lookup", "reread"}
  BY DEF Lookup, Reread
<1>2. op[p].call \in CallIds
  BY <1>1, PathTypes DEF Carries
<1>3. /\ h \in OpRec /\ h.pc = pc /\ h.row = near[op[p].call] /\ h.call = op[p].call
      /\ h.snap = op[p].snap /\ h.todo = op[p].todo /\ h.about = op[p].about
  BY <1>2, PathTypes DEF OpRec
<1>4. RowIsTrue(op[p].call, near[op[p].call])
  BY <1>2 DEF PhInv, Rows
<1>5. op' = [op EXCEPT ![p] = h]
  BY PathTypes DEF Lookup, Reread, PhInv, PhoneTypeOK
<1> HIDE DEF h
<1>6. Carries(p, h)
  BY <1>1, <1>2, <1>3, <1>4, PathTypes, Kinds DEF Carries
<1>7. p \in Pushes /\ Quiet => Leaves(h)
  BY <1>1, <1>3, PathTypes DEF Leaves
<1> QED BY <1>1, <1>3, <1>5, <1>6, <1>7, PathTypes, PathStep DEF Lookup, Reread

\* The newest local write is a second that has been.
LEMMA WatermarkIsSecond ==
  ASSUME PhInv, NEW c \in CallIds
  PROVE  Watermark \in Nat
<1> DEFINE S == {n \in Nat : \A d \in CallIds : near[d].at <= n}
           R == OpToRel(<, Nat)
<1>1. \A d \in CallIds : near[d].at \in Nat /\ near[d].at <= second
  BY DEF PhInv, PhoneTypeOK, Rows, CallRec
<1>2. second \in S
  BY <1>1 DEF PhInv, PhoneTypeOK
<1>3. PICK n \in S : \A m \in S : ~(<<m, n>> \in R)
  <2>1. S \subseteq Nat /\ S # {}
    BY <1>2
  <2> HIDE DEF S, R
  <2> QED BY <2>1, NatLessThanWellFounded, WFMin DEF R
<1>4. \E d \in CallIds : near[d].at = n
  <2> SUFFICES ASSUME \A d \in CallIds : near[d].at # n PROVE FALSE
    OBVIOUS
  <2>1. \A d \in CallIds : near[d].at < n
    BY <1>1
  <2>2. n - 1 \in S
    BY <1>1, <2>1
  <2>3. <<n - 1, n>> \in R <=> n - 1 \in Nat /\ n \in Nat /\ n - 1 < n
    BY DEF OpToRel
  <2>4. n \in Nat /\ n - 1 \in Nat /\ n - 1 < n
    BY <2>2
  <2> HIDE DEF R
  <2> QED BY <1>3, <2>2, <2>3, <2>4
<1>5. \E t \in {near[d].at : d \in CallIds} : \A d \in CallIds : near[d].at <= t
  BY <1>4
<1>6. Watermark \in {near[d].at : d \in CallIds}
  BY <1>5 DEF Watermark
<1> QED BY <1>1, <1>6

LEMMA AskKeeps == ASSUME PhInv, NEW p \in Requests, NEW c \in CallIds, Ask(p, c) PROVE PhInv'
<1> DEFINE pc == IF bridged THEN "fetch" ELSE "refresh"
           h == [op[p] EXCEPT !.pc = pc, !.call = c, !.about = c, !.since = Watermark]
<1>1. p \in Ops
  BY DEF Ops
<1>2. /\ h \in OpRec /\ h.pc = pc /\ h.call = c /\ h.about = c
      /\ h.snap = op[p].snap /\ h.todo = op[p].todo
  BY <1>1, PathTypes, WatermarkIsSecond DEF OpRec
<1>3. op' = [op EXCEPT ![p] = h]
  BY <1>1, PathTypes DEF Ask, PhInv, PhoneTypeOK
<1> HIDE DEF h
<1>4. Carries(p, h)
  BY <1>1, <1>2, PathTypes, Kinds DEF Carries
<1> QED BY <1>1, <1>2, <1>3, <1>4, PathTypes, Kinds, PathStep DEF Ask

LEMMA FetchKeeps == ASSUME PhInv, NEW p \in Ops, Fetch(p) PROVE PhInv'
<1>1. op[p].pc = "fetch" /\ p \notin Pushes /\ p \notin Placings
  BY PathTypes, Kinds DEF Fetch, Carries, Ops
<1>2. CASE \E S \in BridgePage(op[p].since) :
             op' = [op EXCEPT ![p].pc = "next", ![p].again = S,
                      ![p].todo = {Copy(c, far[c]) : c \in S}]
  <2>1. PICK S \in BridgePage(op[p].since) :
             op' = [op EXCEPT ![p].pc = "next", ![p].again = S,
                      ![p].todo = {Copy(c, far[c]) : c \in S}]
    BY <1>2
  <2> DEFINE T == {Copy(c, far[c]) : c \in S}
             h == [op[p] EXCEPT !.pc = "next", !.again = S, !.todo = T]
  <2>2. S \subseteq Changed(op[p].since)
    BY DEF BridgePage
  <2>3. \A c \in S : c \in CallIds /\ far[c].status # "none"
    <3> SUFFICES ASSUME NEW c \in S PROVE c \in CallIds /\ far[c].status # "none"
      OBVIOUS
    <3>1. c \in CallIds /\ far[c].at > op[p].since
      BY <2>2 DEF Changed
    <3>2. far[c].at \in Nat /\ op[p].since \in Nat
      BY <3>1, PathTypes DEF CallRec, OpRec
    <3>3. far[c].at # 0
      BY <3>1, <3>2
    <3> QED BY <3>1, <3>3 DEF PhInv, Rows
  <2>4. T \subseteq WriteRec /\ \A s \in T : WriteIsTrue(s)
    <3> SUFFICES ASSUME NEW c \in S PROVE Copy(c, far[c]) \in WriteRec /\ WriteIsTrue(Copy(c, far[c]))
      OBVIOUS
    <3>1. c \in CallIds /\ far[c] \in CallRec /\ RowIsTrue(c, far[c]) /\ far[c].status # "none"
      BY <2>3, PathTypes DEF PhInv, Rows
    <3> QED BY <3>1 DEF Copy, Write, WriteRec, CallRec, WriteIsTrue, RowIsTrue
  <2>5. /\ h \in OpRec /\ h.pc = "next" /\ h.todo = T /\ h.call = op[p].call
        /\ h.snap = op[p].snap /\ h.about = op[p].about
    BY <2>3, <2>4, PathTypes DEF OpRec
  <2>6. op' = [op EXCEPT ![p] = h]
    BY <2>1, PathTypes DEF PhInv, PhoneTypeOK
  <2> HIDE DEF h, T
  <2>7. Carries(p, h)
    BY <1>1, <2>4, <2>5, PathTypes DEF Carries
  <2> QED BY <1>1, <2>5, <2>6, <2>7, PathTypes, PathStep DEF Fetch
<1>3. CASE Steps(p, "failed")
  <2> DEFINE h == [op[p] EXCEPT !.pc = "failed"]
  <2>1. /\ h \in OpRec /\ h.pc = "failed" /\ h.todo = op[p].todo /\ h.call = op[p].call
        /\ h.snap = op[p].snap /\ h.about = op[p].about
    BY PathTypes DEF OpRec
  <2>2. op' = [op EXCEPT ![p] = h]
    BY <1>3, PathTypes DEF Steps, PhInv, PhoneTypeOK
  <2> HIDE DEF h
  <2>3. Carries(p, h)
    BY <1>1, <2>1, PathTypes DEF Carries
  <2> QED BY <1>1, <2>1, <2>2, <2>3, PathTypes, PathStep DEF Fetch
<1> QED BY <1>2, <1>3 DEF Fetch

LEMMA NextCallKeeps == ASSUME PhInv, NEW p \in Ops, NextCall(p) PROVE PhInv'
<1>1. op[p].pc = "next" /\ p \notin Pushes /\ p \notin Placings
  BY PathTypes, Kinds DEF NextCall, Carries, Ops
<1>2. op[p].about \in CallIds /\ p \in Requests
  BY <1>1, PathTypes DEF Carries, Ops
<1>3. ASSUME NEW s \in op[p].todo,
             op' = [op EXCEPT ![p].pc = "lookup", ![p].call = s.call, ![p].snap = {s}, ![p].todo = @ \ {s}]
      PROVE  PhInv'
  <2> DEFINE h == [op[p] EXCEPT !.pc = "lookup", !.call = s.call, !.snap = {s}, !.todo = @ \ {s}]
  <2>1. s \in WriteRec /\ s.call \in CallIds /\ WriteIsTrue(s)
    BY PathTypes DEF Carries, OpRec, WriteRec
  <2>2. /\ h \in OpRec /\ h.pc = "lookup" /\ h.call = s.call /\ h.snap = {s}
        /\ h.todo \subseteq op[p].todo /\ h.about = op[p].about
    BY <2>1, PathTypes DEF OpRec
  <2>3. op' = [op EXCEPT ![p] = h]
    BY <1>3, PathTypes DEF PhInv, PhoneTypeOK
  <2> HIDE DEF h
  <2>4. Carries(p, h)
    BY <1>1, <1>2, <2>1, <2>2, PathTypes DEF Carries
  <2> QED BY <1>1, <2>2, <2>3, <2>4, PathTypes, PathStep DEF NextCall
<1>4. ASSUME NEW c \in op[p].again,
             op' = [op EXCEPT ![p].pc = "reread", ![p].call = c, ![p].again = @ \ {c}]
      PROVE  PhInv'
  <2> DEFINE h == [op[p] EXCEPT !.pc = "reread", !.call = c, !.again = @ \ {c}]
  <2>1. c \in CallIds
    BY PathTypes DEF OpRec
  <2>2. /\ h \in OpRec /\ h.pc = "reread" /\ h.call = c /\ h.snap = op[p].snap
        /\ h.todo = op[p].todo /\ h.about = op[p].about
    BY <2>1, PathTypes DEF OpRec
  <2>3. op' = [op EXCEPT ![p] = h]
    BY <1>4, PathTypes DEF PhInv, PhoneTypeOK
  <2> HIDE DEF h
  <2>4. Carries(p, h)
    BY <1>1, <1>2, <2>1, <2>2, PathTypes DEF Carries
  <2> QED BY <1>1, <2>2, <2>3, <2>4, PathTypes, PathStep DEF NextCall
<1>5. ASSUME op' = [op EXCEPT ![p].pc = "failed"] PROVE PhInv'
  <2> DEFINE h == [op[p] EXCEPT !.pc = "failed"]
  <2>1. /\ h \in OpRec /\ h.pc = "failed" /\ h.todo = op[p].todo /\ h.call = op[p].call
        /\ h.snap = op[p].snap /\ h.about = op[p].about
    BY PathTypes DEF OpRec
  <2>2. op' = [op EXCEPT ![p] = h]
    BY <1>5, PathTypes DEF PhInv, PhoneTypeOK
  <2> HIDE DEF h
  <2>3. Carries(p, h)
    BY <1>1, <2>1, PathTypes DEF Carries
  <2> QED BY <1>1, <2>1, <2>2, <2>3, PathTypes, PathStep DEF NextCall
<1>6. ASSUME op' = [op EXCEPT ![p].pc = "reread", ![p].call = op[p].about, ![p].about = "none"]
      PROVE  PhInv'
  <2> DEFINE h == [op[p] EXCEPT !.pc = "reread", !.call = op[p].about, !.about = "none"]
  <2>1. /\ h \in OpRec /\ h.pc = "reread" /\ h.call = op[p].about /\ h.snap = op[p].snap
        /\ h.todo = op[p].todo
    BY PathTypes DEF OpRec
  <2>2. op' = [op EXCEPT ![p] = h]
    BY <1>6, PathTypes DEF PhInv, PhoneTypeOK
  <2> HIDE DEF h
  <2>3. Carries(p, h)
    BY <1>1, <1>2, <2>1, PathTypes DEF Carries
  <2> QED BY <1>1, <2>1, <2>2, <2>3, PathTypes, PathStep DEF NextCall
<1> QED BY <1>3, <1>4, <1>5, <1>6 DEF NextCall

LEMMA RefreshKeeps == ASSUME PhInv, NEW p \in Ops, Refresh(p) PROVE PhInv'
<1> DEFINE c == op[p].call
           says == IF talk[c] = "on" THEN "in_progress" ELSE talk[c]
           w == Write(c, says, says, Carried(c), "read")
<1>1. op[p].pc = "refresh" /\ p \in Requests /\ p \notin Pushes /\ p \notin Placings
  BY PathTypes, Kinds DEF Refresh, Carries, Ops
<1>2. c \in CallIds /\ op[p].about \in CallIds
  BY <1>1, PathTypes DEF Carries
<1>3. CASE talk[c] # "none" /\ op' = [op EXCEPT ![p].pc = "lookup", ![p].snap = {w}]
  <2> DEFINE h == [op[p] EXCEPT !.pc = "lookup", !.snap = {w}]
  <2>1. Carried(c) \in Sessions
    BY <1>2, PathTypes DEF Carried, CallRec, Sessions
  <2>2. talk[c] \in {"none", "on"} \cup Ended
    BY <1>2, PathTypes
  <2>3. w \in WriteRec /\ w.call = c /\ WriteIsTrue(w)
    BY <1>2, <1>3, <2>1, <2>2 DEF Write, WriteRec, WriteIsTrue, Sound, Says, Ended
  <2>4. /\ h \in OpRec /\ h.pc = "lookup" /\ h.call = c /\ h.snap = {w}
        /\ h.todo = op[p].todo /\ h.about = op[p].about
    BY <2>3, PathTypes DEF OpRec
  <2>5. op' = [op EXCEPT ![p] = h]
    BY <1>3, PathTypes DEF PhInv, PhoneTypeOK
  <2> HIDE DEF h, w
  <2>6. Carries(p, h)
    BY <1>1, <1>2, <2>3, <2>4, PathTypes DEF Carries
  <2> QED BY <1>1, <2>4, <2>5, <2>6, PathTypes, PathStep DEF Refresh
<1>4. CASE Steps(p, "next")
  <2> DEFINE h == [op[p] EXCEPT !.pc = "next"]
  <2>1. /\ h \in OpRec /\ h.pc = "next" /\ h.todo = op[p].todo /\ h.call = op[p].call
        /\ h.snap = op[p].snap /\ h.about = op[p].about
    BY PathTypes DEF OpRec
  <2>2. op' = [op EXCEPT ![p] = h]
    BY <1>4, PathTypes DEF Steps, PhInv, PhoneTypeOK
  <2> HIDE DEF h
  <2>3. Carries(p, h)
    BY <1>1, <1>2, <2>1, PathTypes DEF Carries
  <2> QED BY <1>1, <2>1, <2>2, <2>3, PathTypes, PathStep DEF Refresh
<1> QED BY <1>3, <1>4 DEF Refresh

LEMMA AnnounceKeeps == ASSUME PhInv, NEW p \in Ops, Announce(p) PROVE PhInv'
<1> DEFINE c == op[p].call
           h == [op[p] EXCEPT !.pc = "done"]
<1>1. op[p].pc = "announce" /\ c \in CallIds /\ p \in Pushes
  BY PathTypes DEF Announce, Carries
<1>2. near[c] \in CallRec /\ RowIsTrue(c, near[c])
  BY <1>1, PathTypes DEF PhInv, Rows
<1>3. /\ h \in OpRec /\ h.pc = "done" /\ h.call = c /\ h.snap = op[p].snap /\ h.todo = op[p].todo
      /\ h.about = op[p].about
  BY PathTypes DEF OpRec
<1>4. op' = [op EXCEPT ![p] = h]
  BY PathTypes DEF Announce, Steps, PhInv, PhoneTypeOK
<1> HIDE DEF h
<1>5. Carries(p, h) /\ (Quiet => Leaves(h))
  BY <1>1, <1>3, PathTypes, Kinds DEF Carries, Leaves
<1>6. UNCHANGED <<second, bridged, talk, far, near, hooks, memory>>
  BY DEF Announce
<1>7. told' = told \cup {<<c, near[c].summary>>}
  BY DEF Announce
<1>8. PhoneTypeOK'
  <2>1. <<c, near[c].summary>> \in CallIds \X ({<<>>} \cup (Says \X Sessions))
    BY <1>1, <1>2 DEF CallRec
  <2>2. told' \subseteq CallIds \X ({<<>>} \cup (Says \X Sessions))
    BY <1>7, <2>1 DEF PhInv, PhoneTypeOK
  <2>3. op' \in [Ops -> OpRec]
    BY <1>3, <1>4 DEF PhInv, PhoneTypeOK
  <2> QED BY <1>6, <2>2, <2>3 DEF PhInv, PhoneTypeOK
<1>9. Rows'
  BY <1>6 DEF PhInv, Rows, RowIsTrue, Sound, Backed, Remembered
<1>10. Sayings'
  <2>1. \A t \in told' : Backed(t[1], t[2])
    BY <1>2, <1>7 DEF PhInv, Sayings, RowIsTrue
  <2> QED BY <1>6, <2>1 DEF PhInv, Sayings, Sound, Backed, Remembered
<1>11. Grows
  BY <1>6 DEF Grows
<1>12. ASSUME NEW q \in Ops PROVE Carries(q, op[q])'
  <2>1. op'[q] \in OpRec /\ Carries(q, op'[q])
    BY <1>3, <1>4, <1>5 DEF PhInv, PhoneTypeOK
  <2> QED BY <1>11, <2>1, CarriesStays
<1>13. ASSUME Quiet', NEW q \in Pushes PROVE Leaves(op[q])'
  <2>1. q \in Ops
    BY DEF Ops
  <2>2. Quiet
    BY <1>1, <1>4, <1>13, Kinds DEF Quiet, PhInv, PhoneTypeOK, Ops
  <2>3. op'[q] \in OpRec /\ Carries(q, op'[q]) /\ Leaves(op'[q])
    BY <1>3, <1>4, <1>5, <2>1, <2>2 DEF PhInv, PhoneTypeOK
  <2> QED BY <1>6, <1>11, <2>3, LeavesStays
<1> QED BY <1>8, <1>9, <1>10, <1>12, <1>13 DEF PhInv

\* A row that may replace the row of c.
Writes(c, r) ==
  /\ r.at = second /\ (near[c].status # "none" => r.status # "none")
  /\ Sound(c, r.status) /\ Sound(c, r.outcome)
  /\ \A end \in Ended, x \in Sessions :
       r.summary = <<end, x>> => \E m \in memory' : m[1] = c /\ m[3] = end
  /\ Quiet /\ near[c].outcome \in Ended => r.outcome \in Ended

\* A path writes a row, and maybe the memory, and goes on.
LEMMA RowStep ==
  ASSUME PhInv, NEW p \in Ops, NEW h \in OpRec, NEW c \in CallIds, NEW r \in CallRec,
         near' = [near EXCEPT ![c] = r], op' = [op EXCEPT ![p] = h],
         UNCHANGED <<second, bridged, talk, far, hooks, told>>,
         memory \subseteq memory', memory' \subseteq CallIds \X Sessions \X Says,
         \A m \in memory' : Sound(m[1], m[3]),
         Writes(c, r),
         h.pc # "idle", Carries(p, op[p])', p \in Pushes /\ Quiet => Leaves(op[p])'
  PROVE  PhInv'
<1>1. \A d \in CallIds : near'[d] = IF d = c THEN r ELSE near[d]
  BY DEF PhInv, PhoneTypeOK
<1>2. Grows
  BY <1>1 DEF Grows, Writes
<1>3. PhoneTypeOK'
  BY DEF PhInv, PhoneTypeOK
<1>4. Rows'
  <2> SUFFICES ASSUME NEW d \in CallIds
               PROVE  /\ RowIsTrue(d, far[d])' /\ RowIsTrue(d, near[d])'
                      /\ far[d].status = "none" => far[d].at = 0
                      /\ near'[d].at <= second
    BY DEF Rows
  <2>1. second \in Nat
    BY DEF PhInv, PhoneTypeOK
  <2>2. RowIsTrue(d, far[d])' /\ (far[d].status = "none" => far[d].at = 0)
    BY DEF PhInv, Rows, RowIsTrue, Sound, Backed, Remembered
  <2>3. CASE d = c
    BY <1>1, <2>1, <2>2, <2>3 DEF Writes, RowIsTrue, Sound, Backed, Remembered
  <2>4. CASE d # c
    BY <1>1, <2>2, <2>4 DEF PhInv, Rows, RowIsTrue, Sound, Backed, Remembered
  <2> QED BY <2>3, <2>4
<1>5. Sayings'
  BY DEF PhInv, Sayings, Sound, Backed, Remembered
<1>6. ASSUME NEW q \in Ops PROVE Carries(q, op[q])'
  <2>1. CASE q = p
    BY <2>1
  <2>2. CASE q # p
    <3>1. op[q] \in OpRec /\ Carries(q, op[q]) /\ op'[q] = op[q]
      BY <2>2 DEF PhInv, PhoneTypeOK
    <3> QED BY <1>2, <3>1, CarriesStays
  <2> QED BY <2>1, <2>2
<1>7. ASSUME Quiet', NEW q \in Pushes PROVE Leaves(op[q])'
  <2>1. q \in Ops
    BY DEF Ops
  <2>2. Quiet
    BY <1>7, Kinds DEF Quiet, PhInv, PhoneTypeOK, Ops
  <2>3. CASE q = p
    BY <2>2, <2>3
  <2>4. CASE q # p
    <3>1. op[q] \in OpRec /\ Carries(q, op[q]) /\ op'[q] = op[q] /\ Leaves(op[q])
      BY <2>1, <2>2, <2>4 DEF PhInv, PhoneTypeOK
    <3>2. \A d \in CallIds : near[d].outcome \in Ended => near'[d].outcome \in Ended
      BY <1>1, <2>2 DEF Writes
    <3> QED BY <1>2, <3>1, <3>2, LeavesStays
  <2> QED BY <2>3, <2>4
<1> QED BY <1>3, <1>4, <1>5, <1>6, <1>7 DEF PhInv

LEMMA StoreKeeps == ASSUME PhInv, NEW p \in Ops, Store(p) PROVE PhInv'
<1> DEFINE c == op[p].call
           s == CHOOSE x \in op[p].snap : TRUE
           r == Stored(s, near[c], op[p].row)
<1>1. op[p].pc = "store" /\ c \in CallIds
  BY PathTypes DEF Store, Carries
<1>2. s \in WriteRec /\ op[p].snap = {s} /\ s.call = c /\ WriteIsTrue(s)
  BY <1>1, PathTypes DEF Carries
<1>3. near[c] \in CallRec /\ RowIsTrue(c, near[c]) /\ op[p].row \in CallRec /\ RowIsTrue(c, op[p].row)
  BY <1>1, PathTypes DEF Carries, PhInv, Rows, OpRec
<1>4. CASE op[p].row.status = "none" /\ near[c].status # "none"
  <2> DEFINE pc == IF p \in Requests /\ ~bridged THEN "next" ELSE "failed"
             h == [op[p] EXCEPT !.pc = pc]
  <2>1. /\ h \in OpRec /\ h.pc = pc /\ h.todo = op[p].todo /\ h.call = c
        /\ h.snap = op[p].snap /\ h.about = op[p].about
    BY PathTypes DEF OpRec
  <2>2. op' = [op EXCEPT ![p] = h] /\ UNCHANGED near
    BY <1>4, PathTypes DEF Store, Steps, PhInv, PhoneTypeOK
  <2>0. pc \in {"next", "failed"} /\ (pc = "next" => p \in Requests)
    OBVIOUS
  <2> HIDE DEF h, pc
  <2>3. Leaves(h)
    BY <2>0, <2>1 DEF Leaves
  <2>4. Carries(p, op[p]) /\ h.pc \in {"next", "failed"} /\ (h.pc = "next" => p \in Requests)
    BY <2>0, <2>1, PathTypes
  <2>5. near[h.call].status # "none"
    BY <1>4, <2>1
  <2> HIDE DEF c
  <2>6. op[p].about = h.about /\ op[p].snap = h.snap /\ op[p].todo = h.todo /\ h.call \in CallIds
    BY <1>1, <2>1
  <2>7. Carries(p, h)
    BY <1>1, <2>4, <2>5, <2>6 DEF Carries
  <2> QED BY <2>1, <2>2, <2>3, <2>4, <2>7, PathTypes, PathStep DEF Store
<1>5. CASE ~(op[p].row.status = "none" /\ near[c].status # "none")
  <2> DEFINE pc == IF p \in Requests THEN "next" ELSE "reread"
             h == [op[p] EXCEPT !.pc = pc]
  <2>1. /\ h \in OpRec /\ h.pc = pc /\ h.todo = op[p].todo /\ h.call = c
        /\ h.snap = {s} /\ h.about = op[p].about
    BY <1>2, PathTypes DEF OpRec
  <2>2. op' = [op EXCEPT ![p] = h]
    BY <1>5, PathTypes DEF Store, Steps, PhInv, PhoneTypeOK
  <2>3. near' = [near EXCEPT ![c] = r]
    BY <1>5 DEF Store
  <2>4. /\ r \in CallRec /\ r.status = s.status /\ r.at = second
        /\ r.outcome = IF s.kept = "row" THEN near[c].outcome ELSE s.outcome
        /\ r.summary \in {near[c].summary, op[p].row.summary, <<>>}
    <3>1. second \in Nat /\ <<>> \in {<<>>} \cup (Says \X Sessions)
      BY DEF PhInv, PhoneTypeOK
    <3>2. /\ near[c].summary \in {<<>>} \cup (Says \X Sessions)
          /\ op[p].row.summary \in {<<>>} \cup (Says \X Sessions)
          /\ near[c].outcome \in Says
      BY <1>3 DEF CallRec
    <3>3. s.status \in Says /\ s.outcome \in Says /\ s.session \in Sessions
      BY <1>2 DEF WriteRec
    <3> HIDE DEF s, c
    <3> QED BY <3>1, <3>2, <3>3 DEF Stored, CallRec
  <2> HIDE DEF h, r, s
  <2>5. UNCHANGED <<second, bridged, talk, far, hooks, told, memory>>
    BY DEF Store
  <2>6. memory \subseteq CallIds \X Sessions \X Says /\ \A m \in memory : Sound(m[1], m[3])
    BY DEF PhInv, PhoneTypeOK, Sayings
  <2>7. Sound(c, r.status) /\ Sound(c, r.outcome) /\ r.status # "none"
    BY <1>2, <1>3, <2>4 DEF WriteIsTrue, RowIsTrue
  <2>8. ASSUME NEW end \in Ended, NEW x \in Sessions, r.summary = <<end, x>>
        PROVE  \E m \in memory : m[1] = c /\ m[3] = end
    <3>1. <<end, x>> # <<>>
      OBVIOUS
    <3>2. r.summary \in {near[c].summary, op[p].row.summary}
      BY <2>4, <2>8, <3>1
    <3> QED BY <1>3, <2>8, <3>2 DEF RowIsTrue, Backed, Remembered
  <2>9. p \in Pushes => s.kept = "nothing" /\ s.outcome \in Ended
    BY <1>2, PathTypes DEF Carries
  <2>10. p \in Placings => s.kept = "row"
    BY <1>2, PathTypes DEF Carries
  <2>11. Quiet /\ near[c].outcome \in Ended => r.outcome \in Ended
    BY <1>1, <2>4, <2>9, <2>10 DEF Quiet, Ops
  <2>12. near'[c] = r /\ op'[p] = h
    BY <1>1, <2>2, <2>3 DEF PhInv, PhoneTypeOK
  <2>13. Carries(p, op[p])'
    <3>1. \A w \in h.snap \cup h.todo : WriteIsTrue(w)'
      BY <1>2, <2>1, <2>5, PathTypes DEF Carries, WriteIsTrue, Sound
    <3>2. p \in Placings => near'[h.call].status # "none"
      BY <2>1, <2>7, <2>12
    <3>3. p \in Requests => h.about \in CallIds
      BY <1>1, <2>1, PathTypes DEF Carries
    <3>4. h.call \in CallIds /\ h.pc \in {"next", "reread"} /\ (p \in Requests <=> h.pc = "next")
      BY <1>1, <2>1
    <3> QED BY <2>1, <2>9, <2>10, <2>12, <3>1, <3>2, <3>3, <3>4 DEF Carries
  <2>14. p \in Pushes => Leaves(op[p])'
    BY <2>1, <2>4, <2>9, <2>12, Kinds DEF Leaves
  <2>15. memory \subseteq memory' /\ memory' \subseteq CallIds \X Sessions \X Says
         /\ (\A m \in memory' : Sound(m[1], m[3])) /\ Writes(c, r)
    BY <2>4, <2>5, <2>6, <2>7, <2>8, <2>11 DEF Writes
  <2> HIDE DEF c, pc
  <2>16. h.pc # "idle"
    BY <2>1 DEF pc
  <2> QED BY <1>1, <2>1, <2>2, <2>3, <2>4, <2>5, <2>13, <2>14, <2>15, <2>16, RowStep
<1> QED BY <1>4, <1>5

LEMMA FinalizeKeeps == ASSUME PhInv, NEW p \in Ops, Finalize(p) PROVE PhInv'
<1> DEFINE c == op[p].call
           row == op[p].row
           sum == Summary(row)
           pc == AfterFinalize(p)
           h == [op[p] EXCEPT !.pc = pc]
<1>1. op[p].pc = "finalize" /\ c \in CallIds
  BY PathTypes DEF Finalize, Carries
<1>2. near[c] \in CallRec /\ RowIsTrue(c, near[c]) /\ row \in CallRec /\ RowIsTrue(c, row)
  BY <1>1, PathTypes DEF Carries, PhInv, Rows, OpRec
<1>3. /\ sum = <<sum[1], row.session>> /\ sum \in Says \X Sessions /\ sum[1] \in Says
      /\ Sound(c, sum[1]) /\ row.session \in Sessions
      /\ row.outcome \in Ended => sum[1] = row.outcome
  BY <1>2 DEF Summary, CallRec, RowIsTrue, Ended
<1>4. /\ p \in Placings => pc = "done"
      /\ p \in Pushes => pc = "announce"
      /\ p \in Requests => pc = IF op[p].about = "none" THEN "done" ELSE "next"
  BY Kinds DEF AfterFinalize, Ops
<1> HIDE DEF pc, row, sum
<1>5. pc \in {"done", "announce", "next"}
  BY <1>4 DEF Ops
<1>6. /\ h \in OpRec /\ h.pc = pc /\ h.todo = op[p].todo /\ h.call = c
      /\ h.snap = op[p].snap /\ h.about = op[p].about
  BY <1>5, PathTypes DEF OpRec
<1>7. op' = [op EXCEPT ![p] = h]
  BY PathTypes DEF Finalize, Steps, PhInv, PhoneTypeOK, pc
<1>8. p \in Requests /\ pc = "next" => op[p].about \in CallIds
  BY <1>4, PathTypes DEF OpRec
<1>9. op'[p] = h
  BY <1>7 DEF PhInv, PhoneTypeOK
<1> HIDE DEF h
<1>10. UNCHANGED <<second, bridged, talk, far, hooks, told>>
  BY DEF Finalize
<1>11. Carries(p, h)
  BY <1>1, <1>4, <1>5, <1>6, <1>8, PathTypes, Kinds DEF Carries, Ops
<1>12. p \in Pushes /\ Quiet => near[c].outcome \in Ended /\ row.outcome \in Ended
  BY <1>1, PathTypes DEF Leaves, row
<1>13. CASE sum = row.summary
  <2>1. UNCHANGED <<near, memory>>
    BY <1>13 DEF Finalize, row, sum
  <2>2. ASSUME p \in Pushes, Quiet PROVE Remembered(c, row.outcome)
    BY <1>2, <1>3, <1>12, <1>13, <2>2 DEF RowIsTrue, Backed
  <2>3. p \in Pushes /\ Quiet => Leaves(h)
    BY <1>4, <1>6, <1>12, <2>2 DEF Leaves
  <2> QED BY <1>5, <1>6, <1>7, <1>10, <1>11, <2>1, <2>3, PathTypes, PathStep
<1>14. CASE sum # row.summary
  <2> DEFINE r == [near[c] EXCEPT !.summary = sum, !.at = second]
             m == <<c, near[c].session, sum[1]>>
  <2>1. near' = [near EXCEPT ![c] = r]
    BY <1>14, <1>1 DEF Finalize, row, sum, PhInv, PhoneTypeOK
  <2>2. memory' = memory \cup {m}
    BY <1>14 DEF Finalize, row, sum
  <2>3. m \in CallIds \X Sessions \X Says /\ m[1] = c /\ m[3] = sum[1]
    BY <1>1, <1>2, <1>3 DEF CallRec
  <2>4. /\ r \in CallRec /\ r.status = near[c].status /\ r.outcome = near[c].outcome
        /\ r.summary = sum /\ r.at = second
    <3>1. second \in Nat
      BY DEF PhInv, PhoneTypeOK
    <3> QED BY <1>2, <1>3, <3>1 DEF CallRec
  <2> HIDE DEF r, m
  <2>5. /\ memory \subseteq memory' /\ memory' \subseteq CallIds \X Sessions \X Says
        /\ \A x \in memory' : Sound(x[1], x[3])
    <3>1. memory \subseteq CallIds \X Sessions \X Says /\ \A x \in memory : Sound(x[1], x[3])
      BY DEF PhInv, PhoneTypeOK, Sayings
    <3>2. Sound(m[1], m[3])
      BY <1>3, <2>3
    <3> QED BY <2>2, <2>3, <3>1, <3>2
  <2>6. ASSUME NEW end \in Ended, NEW x \in Sessions, r.summary = <<end, x>>
        PROVE  \E n \in memory' : n[1] = c /\ n[3] = end
    <3>1. end = sum[1]
      BY <1>3, <2>4, <2>6
    <3> QED BY <2>2, <2>3, <3>1
  <2>7. near'[c] = r /\ Grows
    <3>1. near'[c] = r /\ \A d \in CallIds : near'[d] = IF d = c THEN r ELSE near[d]
      BY <1>1, <2>1 DEF PhInv, PhoneTypeOK
    <3> QED BY <1>10, <2>4, <2>5, <3>1 DEF Grows
  <2>8. Carries(p, op[p])'
    BY <1>6, <1>9, <1>11, <2>7, CarriesStays
  <2>9. p \in Pushes /\ Quiet => Leaves(op[p])'
    <3> SUFFICES ASSUME p \in Pushes, Quiet PROVE Leaves(op[p])'
      OBVIOUS
    <3>1. near'[h.call].outcome \in Ended
      BY <1>6, <1>12, <2>4, <2>7
    <3>2. h.pc = "announce" /\ \E end \in Ended : \E n \in memory' : n[1] = h.call /\ n[3] = end
      BY <1>3, <1>4, <1>6, <1>12, <2>2, <2>3
    <3> QED BY <1>9, <3>1, <3>2 DEF Leaves, Remembered
  <2>10. /\ near[c].status # "none" => r.status # "none"
         /\ Sound(c, r.status) /\ Sound(c, r.outcome)
         /\ near[c].outcome \in Ended => r.outcome \in Ended
    BY <1>2, <2>4 DEF RowIsTrue
  <2>11. h.pc # "idle"
    BY <1>5, <1>6
  <2>12. Writes(c, r)
    BY <2>4, <2>6, <2>10 DEF Writes
  <2> HIDE DEF c
  <2> QED BY <1>1, <1>6, <1>7, <1>10, <2>1, <2>4, <2>5, <2>8, <2>9, <2>11, <2>12, RowStep
<1> QED BY <1>13, <1>14

-----------------------------------------------------------------------------
LEMMA PhoneStep == PhInv /\ [PhNext]_phoneVars => PhInv'
<1> SUFFICES ASSUME PhInv, [PhNext]_phoneVars PROVE PhInv'
  OBVIOUS
<1>1. CASE SecondPasses \/ UNCHANGED phoneVars
  BY <1>1, SecondKeeps
<1>2. ASSUME NEW c \in CallIds, Ring(c) \/ Place(c) \/ HangUp(c) \/ Webhook(c)
      PROVE  PhInv'
  BY <1>2, RingKeeps, PlaceKeeps, WebhookKeeps
<1>3. ASSUME NEW p \in Pushes, Push(p)
      PROVE  PhInv'
  BY <1>3, PushKeeps
<1>4. ASSUME NEW p \in Requests, NEW c \in CallIds, Ask(p, c)
      PROVE  PhInv'
  BY <1>4, AskKeeps
<1>5. ASSUME NEW p \in Ops, Handle(p)
      PROVE  PhInv'
  BY <1>5, LookupKeeps, StoreKeeps, FinalizeKeeps, AnnounceKeeps, FetchKeeps, NextCallKeeps,
     RefreshKeeps DEF Handle
<1> QED BY <1>1, <1>2, <1>3, <1>4, <1>5 DEF PhNext

\* What is written anywhere of an end is true, and while nobody asks a push leaves it.
THEOREM PhoneInvariant == PhSpec => []PhInv
<1> QED BY PhoneInit, PhoneStep, PTL DEF PhSpec

\* The types of the calls and of the paths hold.
THEOREM PhoneTypes == PhSpec => []PhoneTypeOK
<1>1. PhInv => PhoneTypeOK
  BY DEF PhInv
<1> QED BY PhoneInvariant, <1>1, PTL

\* How a call ended is never made up, a placing leaves a row, and while nobody asks an
\* accepted push is remembered.
THEOREM CallsStayFaithful == PhSpec => []CallsAreFaithful
<1>1. PhInv => NoOutcomeInvented
  <2> SUFFICES ASSUME PhInv, NEW c \in CallIds, NEW end \in Ended,
                      \/ end \in {near[c].status, near[c].outcome}
                      \/ \E m \in memory : m[1] = c /\ m[3] = end
                      \/ \E t \in told : t[1] = c /\ t[2] \in {<<end, "user">>, <<end, "inbound">>, <<end, "none">>}
               PROVE  talk[c] = end
    BY DEF NoOutcomeInvented
  <2>1. CASE end \in {near[c].status, near[c].outcome}
    BY <2>1 DEF PhInv, Rows, RowIsTrue, Sound
  <2>2. CASE \E m \in memory : m[1] = c /\ m[3] = end
    BY <2>2 DEF PhInv, Sayings, Sound
  <2>3. ASSUME NEW t \in told, t[1] = c, NEW x \in Sessions, t[2] = <<end, x>>
        PROVE  talk[c] = end
    <3>1. Remembered(c, end)
      BY <2>3 DEF PhInv, Sayings, Backed
    <3> QED BY <3>1 DEF PhInv, Sayings, Sound, Remembered
  <2> QED BY <2>1, <2>2, <2>3 DEF Sessions
<1>2. PhInv => PlacedIsRecorded
  <2> SUFFICES ASSUME PhInv, NEW p \in Placings, op[p].pc \in {"done", "failed"}
               PROVE  near[op[p].call].status # "none"
    BY DEF PlacedIsRecorded
  <2> QED BY PathTypes DEF Ops, Carries
<1>3. PhInv => OutcomesAreRemembered
  <2> SUFFICES ASSUME PhInv, NEW p \in Pushes, op[p].pc = "done", Quiet
               PROVE  \E m \in memory : m[1] = op[p].call /\ m[3] \in Ended
    BY DEF OutcomesAreRemembered, Quiet
  <2>1. \E end \in Ended : Remembered(op[p].call, end)
    BY PathTypes DEF Ops, Leaves
  <2> QED BY <2>1 DEF Remembered
<1>4. PhInv => CallsAreFaithful
  BY <1>1, <1>2, <1>3 DEF CallsAreFaithful
<1> QED BY PhoneInvariant, <1>4, PTL

-----------------------------------------------------------------------------
(* The prompts the model server is kept warm with (Prewarm).                   *)

\* The order of the tools (_order_tools_by_volatility).

LEMMA BeforeIsStrict ==
  ASSUME PrewarmAssumption, NEW t \in Tools, NEW u \in Tools
  PROVE  /\ ~Before(t, t)
         /\ t # u => Before(t, u) \/ Before(u, t)
         /\ \A x \in Tools : Before(x, t) /\ Before(t, u) => Before(x, u)
<1>1. t \in Nat /\ u \in Nat /\ \A x \in Tools : x \in Nat
  BY DEF PrewarmAssumption
<1> QED BY <1>1 DEF Before

LEMMA PositionsAreDistinct ==
  ASSUME PrewarmAssumption, NEW T \in SUBSET Tools
  PROVE  /\ IsFiniteSet(T) /\ Cardinality(T) \in Nat
         /\ \A t \in T : Position(t, T) \in 1 .. Cardinality(T)
         /\ \A t, u \in T : Position(t, T) = Position(u, T) => t = u
<1>1. IsFiniteSet(T) /\ Cardinality(T) \in Nat
  BY FS_Subset, FS_CardinalityType DEF PrewarmAssumption
<1> DEFINE P(t) == {u \in T : Before(u, t)}
<1>2. \A t \in T : Position(t, T) = 1 + Cardinality(P(t))
  BY DEF Position
<1>3. \A t \in T : t \notin P(t)
  BY BeforeIsStrict
<1>4. \A t, u \in T : Before(t, u) => P(t) \cup {t} \subseteq P(u)
  BY BeforeIsStrict
<1>5. \A t, u \in T : t # u => Before(t, u) \/ Before(u, t)
  BY BeforeIsStrict
<1>6. \A t \in T : P(t) \subseteq T
  OBVIOUS
<1> HIDE DEF P
<1>7. \A t \in T : IsFiniteSet(P(t)) /\ Cardinality(P(t)) \in Nat
  BY <1>1, <1>6, FS_Subset, FS_CardinalityType
<1>8. \A t \in T : Cardinality(P(t) \cup {t}) = Cardinality(P(t)) + 1
  BY <1>3, <1>7, FS_AddElement
<1>9. ASSUME NEW t \in T PROVE Cardinality(P(t)) + 1 <= Cardinality(T)
  <2>1. P(t) \cup {t} \in SUBSET T
    BY <1>6
  <2>2. Cardinality(P(t) \cup {t}) <= Cardinality(T)
    BY <1>1, <2>1, FS_Subset
  <2> QED BY <1>8, <2>2
<1>10. ASSUME NEW t \in T, NEW u \in T, Before(t, u) PROVE Cardinality(P(t)) + 1 <= Cardinality(P(u))
  <2>1. P(t) \cup {t} \in SUBSET P(u)
    BY <1>4, <1>10
  <2>2. Cardinality(P(t) \cup {t}) <= Cardinality(P(u))
    BY <1>7, <2>1, FS_Subset
  <2> QED BY <1>8, <2>2
<1>11. \A t \in T : Position(t, T) \in 1 .. Cardinality(T)
  BY <1>1, <1>2, <1>7, <1>9
<1>12. ASSUME NEW t \in T, NEW u \in T, Position(t, T) = Position(u, T) PROVE t = u
  <2>1. Cardinality(P(t)) = Cardinality(P(u))
    BY <1>2, <1>7, <1>12
  <2>2. ~Before(t, u) /\ ~Before(u, t)
    BY <1>7, <1>10, <2>1
  <2> QED BY <1>5, <2>2
<1> QED BY <1>1, <1>11, <1>12

LEMMA EveryPositionIsTaken ==
  ASSUME PrewarmAssumption, NEW T \in SUBSET Tools
  PROVE  \A k \in 1 .. Cardinality(T) : \E t \in T : Position(t, T) = k
<1> DEFINE f == [t \in T |-> Position(t, T)]
           n == Cardinality(T)
<1>1. /\ IsFiniteSet(T) /\ n \in Nat
      /\ \A t \in T : f[t] \in 1 .. n
      /\ \A t, u \in T : f[t] = f[u] => t = u
  BY PositionsAreDistinct
<1>2. f \in [T -> 1 .. n]
  BY <1>1
<1> HIDE DEF f, n
<1>3. f \in Injection(T, 1 .. n)
  <2>1. DOMAIN f = T
    BY <1>2
  <2> QED BY <1>1, <1>2, <2>1 DEF Injection, IsInjective
<1>4. IsFiniteSet(1 .. n) /\ Cardinality(1 .. n) = n
  BY <1>1, FS_Interval
<1>5. Cardinality(T) = Cardinality(1 .. n)
  BY <1>4 DEF n
<1>6. f \in Surjection(T, 1 .. n)
  BY <1>3, <1>4, <1>5, FS_Injection
<1>7. \A k \in 1 .. n : \E t \in T : f[t] = k
  BY <1>6 DEF Surjection
<1> QED BY <1>7 DEF f, n

LEMMA OrderedIs ==
  ASSUME PrewarmAssumption, NEW T \in SUBSET Tools
  PROVE  /\ DOMAIN Ordered(T) = 1 .. Cardinality(T) /\ Cardinality(T) \in Nat
         /\ \A k \in 1 .. Cardinality(T) : Ordered(T)[k] \in T /\ Position(Ordered(T)[k], T) = k
         /\ \A t \in T : Ordered(T)[Position(t, T)] = t
         /\ ToSet(Ordered(T)) = T
<1>1. Cardinality(T) \in Nat /\ DOMAIN Ordered(T) = 1 .. Cardinality(T)
  BY PositionsAreDistinct DEF Ordered
<1>2. ASSUME NEW k \in 1 .. Cardinality(T)
      PROVE  Ordered(T)[k] \in T /\ Position(Ordered(T)[k], T) = k
  <2>1. \E t \in T : Position(t, T) = k
    BY EveryPositionIsTaken
  <2>2. Ordered(T)[k] = CHOOSE t \in T : Position(t, T) = k
    BY DEF Ordered
  <2> QED BY <2>1, <2>2
<1>3. ASSUME NEW t \in T PROVE Position(t, T) \in 1 .. Cardinality(T) /\ Ordered(T)[Position(t, T)] = t
  <2>1. Position(t, T) \in 1 .. Cardinality(T)
    BY PositionsAreDistinct
  <2>2. Ordered(T)[Position(t, T)] \in T /\ Position(Ordered(T)[Position(t, T)], T) = Position(t, T)
    BY <1>2, <2>1
  <2> QED BY <2>1, <2>2, PositionsAreDistinct
<1>4. ToSet(Ordered(T)) = T
  <2>1. ToSet(Ordered(T)) = {Ordered(T)[k] : k \in 1 .. Cardinality(T)}
    BY <1>1 DEF ToSet
  <2>2. ToSet(Ordered(T)) \subseteq T
    BY <1>2, <2>1
  <2>3. T \subseteq ToSet(Ordered(T))
    BY <1>3, <2>1
  <2> QED BY <2>2, <2>3
<1> QED BY <1>1, <1>2, <1>3, <1>4

\* The tools that are always there come first, in the same places whatever follows.
LEMMA StableComesFirst ==
  ASSUME PrewarmAssumption, NEW T \in SUBSET Tools, Stable \subseteq T
  PROVE  /\ Cardinality(Stable) \in Nat
         /\ \A k \in 1 .. Cardinality(Stable) : Ordered(T)[k] = Ordered(Stable)[k] /\ Ordered(T)[k] \in Tools
<1>1. Stable \in SUBSET Tools
  BY DEF Stable
<1>2. ASSUME NEW t \in Stable PROVE Position(t, T) = Position(t, Stable)
  <2>1. \A u \in T : Before(u, t) => u \in Stable
    BY <1>2 DEF Before, Stable
  <2>2. {u \in T : Before(u, t)} = {u \in Stable : Before(u, t)}
    BY <2>1
  <2> QED BY <2>2 DEF Position
<1>3. Cardinality(Stable) \in Nat
  BY <1>1, OrderedIs
<1>4. ASSUME NEW k \in 1 .. Cardinality(Stable)
      PROVE  Ordered(T)[k] = Ordered(Stable)[k] /\ Ordered(T)[k] \in Tools
  <2>1. Ordered(Stable)[k] \in Stable /\ Position(Ordered(Stable)[k], Stable) = k
    BY <1>1, OrderedIs
  <2>2. Position(Ordered(Stable)[k], T) = k
    BY <1>2, <2>1
  <2>3. Ordered(T)[Position(Ordered(Stable)[k], T)] = Ordered(Stable)[k]
    BY <2>1, OrderedIs
  <2> QED BY <1>1, <2>1, <2>2, <2>3
<1> QED BY <1>3, <1>4

LEMMA PrefixIsSteady ==
  ASSUME PrewarmAssumption, NEW T \in SUBSET Tools, NEW U \in SUBSET Tools,
         Stable \subseteq T, Stable \subseteq U
  PROVE  SubSeq(Ordered(T), 1, Cardinality(Stable)) = SubSeq(Ordered(U), 1, Cardinality(Stable))
<1> DEFINE n == Cardinality(Stable)
           a == SubSeq(Ordered(T), 1, n)
           b == SubSeq(Ordered(U), 1, n)
<1>1. n \in Nat /\ \A k \in 1 .. n : Ordered(T)[k] = Ordered(U)[k] /\ Ordered(T)[k] \in Tools
                                     /\ Ordered(U)[k] \in Tools
  BY StableComesFirst
<1> HIDE DEF n
<1>2. /\ a \in Seq(Tools) /\ Len(a) = IF 1 <= n THEN n - 1 + 1 ELSE 0
      /\ \A i \in 1 .. n - 1 + 1 : a[i] = Ordered(T)[1 + i - 1]
  BY <1>1, SubSeqProperties
<1>3. /\ b \in Seq(Tools) /\ Len(b) = IF 1 <= n THEN n - 1 + 1 ELSE 0
      /\ \A i \in 1 .. n - 1 + 1 : b[i] = Ordered(U)[1 + i - 1]
  BY <1>1, SubSeqProperties
<1>4. Len(a) = n /\ Len(b) = n /\ \A i \in 1 .. n : a[i] = Ordered(T)[i] /\ b[i] = Ordered(U)[i]
  <2>1. n - 1 + 1 = n /\ (IF 1 <= n THEN n - 1 + 1 ELSE 0) = n
    BY <1>1
  <2>2. \A i \in 1 .. n : 1 + i - 1 = i
    BY <1>1
  <2> QED BY <1>2, <1>3, <2>1, <2>2
<1> HIDE DEF a, b
<1>5. a = b
  BY <1>1, <1>2, <1>3, <1>4, SeqEqual
<1> QED BY <1>5 DEF a, b, n
\* The invariant.

TurnRec == [pc : {"idle", "context", "record", "send"}, rounds : 0 .. Rounds, kicad : BOOLEAN,
            note : BOOLEAN]
Going == {"checked", "sending", "sent"}
RampRec == [pc : {"new", "over", "done"} \cup Going, prompt : Nat, at : Nat, done : Nat]

PwTypes ==
  /\ clock \in Nat /\ lastRamp \in 0 .. clock /\ made \in Nat \ {0}
  /\ provider \in {"cold", "warming", "ready"} /\ warm \in {"build", "record", "done"}
  /\ turn \in TurnRec /\ recorded \in 0 .. made /\ cached \in 0 .. made
  /\ ramp \in [Ramps -> RampRec] /\ \A w \in Ramps : ramp[w].prompt <= made
  /\ turn.pc \in {"context", "record"} => turn.rounds < Rounds

\* The KiCad tools are there together or not at all.
Surfaces == {Ordered(Tools \ Trimmed), Ordered(Tools \ Kicad)}
OneSurface == surface \in Surfaces /\ former \in Surfaces

\* Nothing goes on beside a warm-up, a pre-ramp begins without a turn, and what it
\* replays is what was sent last.
Replays ==
  ~crossed =>
    /\ warm # "done" => turn.pc = "idle" /\ Ramping = {} /\ recorded = Never
    /\ warm = "record" => cached = Startup
    /\ Ramping # {} => turn.pc = "idle"
    /\ \A w \in Ramping : ramp[w].prompt = recorded
    /\ turn.pc = "send" => recorded = made
    /\ turn.pc # "send" /\ warm # "record" /\ recorded # Never => cached = recorded

Spaces ==
  /\ \A v \in Ramps : ramp[v].pc = "done" => ramp[v].done <= lastRamp
  /\ \A v \in Ramps : ramp[v].pc \in Going \cup {"done"} => ramp[v].at <= clock
  /\ \A v, w \in Ramps : v # w => ~(v \in Sending /\ w \in Sending)
  /\ \A v, w \in Ramps :
       ramp[v].pc = "done" /\ ramp[w].pc \in Going \cup {"done"} /\ ramp[v].done < ramp[w].at
         => ramp[w].at - ramp[v].done >= Interval

PwInv == PwTypes /\ OneSurface /\ NotesAreTrue /\ Replays /\ Spaces

LEMMA SurfaceIs ==
  ASSUME PrewarmAssumption
  PROVE  Ordered(Reduced(Published)) \in Surfaces
<1>1. CASE provider = "ready"
  BY <1>1 DEF Surfaces, Reduced, Published
<1>2. CASE provider # "ready"
  <2>1. Reduced(Published) = Tools \ Kicad
    BY <1>2 DEF Reduced, Published, PrewarmAssumption
  <2> QED BY <2>1 DEF Surfaces
<1> QED BY <1>1, <1>2

LEMMA PwInitInv == ASSUME PrewarmAssumption, PwInit PROVE PwInv
<1>1. Interval \in Nat \ {0} /\ Rounds \in Nat \ {0}
  BY DEF PrewarmAssumption
<1>2. PwTypes
  <2>1. NoTurn \in TurnRec /\ NoTurn.pc = "idle"
    BY <1>1 DEF NoTurn, TurnRec
  <2>2. NoRamp \in RampRec /\ NoRamp.prompt = 0
    BY DEF NoRamp, RampRec, Never
  <2>3. clock \in Nat /\ lastRamp \in 0 .. clock /\ made \in Nat \ {0}
    BY <1>1 DEF PwInit, Startup
  <2>4. recorded \in 0 .. made /\ cached \in 0 .. made
    BY DEF PwInit, Startup, Never
  <2>5. ramp \in [Ramps -> RampRec] /\ \A w \in Ramps : ramp[w].prompt <= made
    BY <2>2, <2>3 DEF PwInit
  <2> QED BY <2>1, <2>3, <2>4, <2>5 DEF PwInit, PwTypes
<1>3. OneSurface
  BY SurfaceIs DEF PwInit, OneSurface
<1>4. NotesAreTrue
  BY DEF PwInit, NotesAreTrue, NoTurn
<1>5. \A w \in Ramps : ramp[w].pc = "new"
  BY DEF PwInit, NoRamp
<1>6. Ramping = {} /\ Sending = {}
  BY <1>5 DEF Ramping, Sending
<1>7. Replays
  BY <1>6 DEF PwInit, Replays, NoTurn, Never
<1>8. Spaces
  BY <1>5, <1>6 DEF Spaces, Going
<1> QED BY <1>2, <1>3, <1>4, <1>7, <1>8 DEF PwInv

\* A step that leaves the pre-ramps alone.
LEMMA SpacesKeep ==
  ASSUME PwTypes, Spaces, UNCHANGED <<ramp, lastRamp>>, clock' \in Nat, clock <= clock'
  PROVE  Spaces'
<1>1. Sending' = Sending
  BY DEF Sending
<1>2. \A v \in Ramps : ramp[v].at \in Nat
  BY DEF PwTypes, RampRec
<1> QED BY <1>1, <1>2 DEF Spaces, PwTypes

LEMMA WaitKeeps == ASSUME PrewarmAssumption, PwInv, Wait PROVE PwInv'
<1>0. PwTypes /\ OneSurface /\ NotesAreTrue /\ Replays /\ Spaces
  BY DEF PwInv
<1>1. /\ clock' = clock + 1 /\ clock \in Nat /\ lastRamp \in 0 .. clock
      /\ UNCHANGED <<provider, turn, begun, surface, former, made, recorded, cached, warm, ramp,
                     lastRamp, crossed>>
  BY <1>0 DEF Wait, PwTypes
<1>2. Spaces'
  BY <1>0, <1>1, SpacesKeep
<1>3. lastRamp' \in 0 .. clock'
  BY <1>1
<1>4. PwTypes'
  BY <1>0, <1>1, <1>3 DEF PwTypes
<1> QED BY <1>0, <1>1, <1>2, <1>4 DEF PwInv, OneSurface, NotesAreTrue, Replays, Ramping

LEMMA ProviderKeeps == ASSUME PrewarmAssumption, PwInv, ProviderMoves PROVE PwInv'
<1>0. PwTypes /\ OneSurface /\ NotesAreTrue /\ Replays /\ Spaces
  BY DEF PwInv
<1>1. UNCHANGED <<clock, turn, begun, surface, former, made, recorded, cached, warm, ramp,
                  lastRamp, crossed>>
  BY DEF ProviderMoves
<1>2. provider' \in {"cold", "warming", "ready"}
  BY <1>0 DEF ProviderMoves, PwTypes
<1>3. Spaces'
  BY <1>0, <1>1, SpacesKeep DEF PwTypes
<1> QED BY <1>0, <1>1, <1>2, <1>3 DEF PwInv, PwTypes, OneSurface, NotesAreTrue, Replays, Ramping

LEMMA BeginTurnKeeps ==
  ASSUME PrewarmAssumption, PwInv, NEW kicad \in BOOLEAN, BeginTurn(kicad) PROVE PwInv'
<1>0. PwTypes /\ OneSurface /\ NotesAreTrue /\ Replays /\ Spaces
  BY DEF PwInv
<1>1. /\ turn.pc = "idle" /\ turn' = [NoTurn EXCEPT !.pc = "context", !.kicad = kicad]
      /\ former' = surface /\ surface' = Ordered(Reduced(Published))
      /\ UNCHANGED <<clock, provider, made, recorded, cached, warm, ramp, lastRamp>>
  BY DEF BeginTurn
<1>2. ~crossed' => ~crossed /\ Ramping = {} /\ warm = "done"
  BY DEF BeginTurn, Warming
<1>3. turn'.pc = "context" /\ turn' \in TurnRec /\ turn'.note = FALSE /\ turn'.rounds < Rounds
  <2>1. Rounds \in Nat \ {0} /\ 0 \in 0 .. Rounds
    BY DEF PrewarmAssumption
  <2>2. turn' = [pc |-> "context", rounds |-> 0, kicad |-> kicad, note |-> FALSE]
    BY <1>1 DEF NoTurn
  <2> QED BY <2>1, <2>2 DEF TurnRec
<1>4. PwTypes'
  BY <1>0, <1>1, <1>3 DEF PwTypes
<1>5. OneSurface'
  BY <1>0, <1>1, SurfaceIs DEF OneSurface, Surfaces
<1>6. NotesAreTrue'
  BY <1>3 DEF NotesAreTrue
<1>7. Ramping' = Ramping
  BY <1>1 DEF Ramping
<1>8. Replays'
  BY <1>0, <1>1, <1>2, <1>3, <1>7 DEF Replays
<1>9. Spaces'
  BY <1>0, <1>1, SpacesKeep DEF PwTypes
<1> QED BY <1>4, <1>5, <1>6, <1>8, <1>9 DEF PwInv

LEMMA AddContextKeeps == ASSUME PrewarmAssumption, PwInv, AddContext PROVE PwInv'
<1>0. PwTypes /\ OneSurface /\ NotesAreTrue /\ Replays /\ Spaces
  BY DEF PwInv
<1> DEFINE asks == turn.kicad /\ Kicad \cap ToSet(surface) = {} /\ provider # "ready"
<1>1. /\ turn.pc = "context" /\ turn' = [turn EXCEPT !.pc = "record", !.note = asks]
      /\ provider' = IF asks THEN "warming" ELSE provider
      /\ UNCHANGED <<clock, begun, surface, former, made, recorded, cached, warm, ramp,
                     lastRamp, crossed>>
  BY DEF AddContext
<1>a. asks \in BOOLEAN /\ (asks => turn.kicad /\ Kicad \cap ToSet(surface) = {})
  BY <1>0 DEF PwTypes, TurnRec
<1> HIDE DEF asks
<1>2. turn' \in TurnRec /\ turn'.pc = "record" /\ turn'.kicad = turn.kicad /\ turn'.note = asks
      /\ turn'.rounds = turn.rounds
  BY <1>0, <1>1, <1>a DEF PwTypes, TurnRec
<1>3. NotesAreTrue'
  BY <1>1, <1>2, <1>a DEF NotesAreTrue
<1>b. ~crossed => Ramping = {} /\ warm = "done"
  BY <1>0, <1>1 DEF Replays
<1>4. Ramping' = Ramping
  BY <1>1 DEF Ramping
<1>5. Replays'
  BY <1>0, <1>1, <1>2, <1>4, <1>b DEF Replays
<1>6. Spaces'
  BY <1>0, <1>1, SpacesKeep DEF PwTypes
<1>7. PwTypes'
  <2>1. provider' \in {"cold", "warming", "ready"} /\ turn'.rounds < Rounds
    BY <1>0, <1>1, <1>2 DEF PwTypes
  <2> QED BY <1>0, <1>1, <1>2, <2>1 DEF PwTypes
<1> QED BY <1>0, <1>1, <1>3, <1>5, <1>6, <1>7 DEF PwInv, OneSurface

LEMMA RecordKeeps == ASSUME PrewarmAssumption, PwInv, Record PROVE PwInv'
<1>0. PwTypes /\ OneSurface /\ NotesAreTrue /\ Replays /\ Spaces
  BY DEF PwInv
<1>1. /\ turn.pc = "record" /\ turn' = [turn EXCEPT !.pc = "send", !.rounds = @ + 1]
      /\ made' = made + 1 /\ recorded' = made + 1
      /\ UNCHANGED <<clock, provider, begun, surface, former, cached, warm, ramp, lastRamp, crossed>>
  BY DEF Record
<1>2. turn' \in TurnRec /\ turn'.pc = "send" /\ turn'.kicad = turn.kicad /\ turn'.note = turn.note
  <2>1. turn \in TurnRec /\ turn.rounds \in 0 .. Rounds /\ turn.rounds < Rounds /\ Rounds \in Nat
    BY <1>0, <1>1 DEF PwTypes, TurnRec, PrewarmAssumption
  <2>2. turn.rounds + 1 \in 0 .. Rounds
    BY <2>1
  <2> QED BY <1>1, <2>1, <2>2 DEF TurnRec
<1>3. made' \in Nat \ {0} /\ recorded' \in 0 .. made' /\ cached' \in 0 .. made'
      /\ \A w \in Ramps : ramp'[w].prompt <= made'
  <2>1. \A w \in Ramps : ramp[w].prompt \in Nat /\ ramp[w].prompt <= made
    BY <1>0 DEF PwTypes, RampRec
  <2> QED BY <1>0, <1>1, <2>1 DEF PwTypes
<1>4. PwTypes'
  BY <1>0, <1>1, <1>2, <1>3 DEF PwTypes
<1>5. NotesAreTrue'
  BY <1>0, <1>1, <1>2 DEF NotesAreTrue
<1>6. Ramping' = Ramping
  BY <1>1 DEF Ramping
<1>7. Replays'
  BY <1>0, <1>1, <1>2, <1>6 DEF Replays
<1>8. Spaces'
  BY <1>0, <1>1, SpacesKeep DEF PwTypes
<1> QED BY <1>0, <1>1, <1>4, <1>5, <1>7, <1>8 DEF PwInv, OneSurface

LEMMA SendKeeps == ASSUME PrewarmAssumption, PwInv, Send PROVE PwInv'
<1>0. PwTypes /\ OneSurface /\ NotesAreTrue /\ Replays /\ Spaces
  BY DEF PwInv
<1>1. /\ turn.pc = "send" /\ cached' = made
      /\ \/ turn.rounds < Rounds /\ turn' = [turn EXCEPT !.pc = "record"]
         \/ turn' = NoTurn
      /\ UNCHANGED <<clock, provider, begun, surface, former, made, recorded, warm, ramp,
                     lastRamp, crossed>>
  BY DEF Send
<1>2. /\ turn' \in TurnRec /\ turn'.pc \in {"record", "idle"}
      /\ turn'.pc = "record" => turn'.rounds < Rounds
      /\ turn'.note => turn.note /\ turn'.kicad = turn.kicad
  <2>1. CASE turn.rounds < Rounds /\ turn' = [turn EXCEPT !.pc = "record"]
    BY <1>0, <2>1 DEF PwTypes, TurnRec
  <2>2. CASE turn' = NoTurn
    BY <2>2 DEF NoTurn, TurnRec, PrewarmAssumption
  <2> QED BY <1>1, <2>1, <2>2
<1>3. cached' \in 0 .. made'
  BY <1>0, <1>1 DEF PwTypes
<1>4. PwTypes'
  BY <1>0, <1>1, <1>2, <1>3 DEF PwTypes
<1>5. NotesAreTrue'
  BY <1>0, <1>1, <1>2 DEF NotesAreTrue
<1>6. Ramping' = Ramping
  BY <1>1 DEF Ramping
<1>7. Replays'
  BY <1>0, <1>1, <1>2, <1>6 DEF Replays
<1>8. Spaces'
  BY <1>0, <1>1, SpacesKeep DEF PwTypes
<1> QED BY <1>0, <1>1, <1>4, <1>5, <1>7, <1>8 DEF PwInv, OneSurface

LEMMA WarmKeeps ==
  ASSUME PrewarmAssumption, PwInv, WarmSend \/ WarmFails \/ WarmRecord PROVE PwInv'
<1>0. PwTypes /\ OneSurface /\ NotesAreTrue /\ Replays /\ Spaces
  BY DEF PwInv
<1>1. UNCHANGED <<clock, provider, turn, begun, surface, former, made, ramp, lastRamp>>
  BY DEF WarmSend, WarmFails, WarmRecord
<1>2. Ramping' = Ramping /\ Startup \in 0 .. made
  BY <1>0, <1>1 DEF Ramping, PwTypes, Startup
<1>3. PwTypes'
  <2>1. warm' \in {"build", "record", "done"} /\ recorded' \in 0 .. made /\ cached' \in 0 .. made
    BY <1>0, <1>2 DEF WarmSend, WarmFails, WarmRecord, PwTypes
  <2> QED BY <1>0, <1>1, <2>1 DEF PwTypes
<1>4. Replays'
  <2>1. CASE WarmSend
    BY <1>0, <1>1, <1>2, <2>1 DEF WarmSend, Replays
  <2>2. CASE WarmFails
    BY <1>0, <1>1, <1>2, <2>2 DEF WarmFails, Replays
  <2>3. CASE WarmRecord
    BY <1>0, <1>1, <1>2, <2>3 DEF WarmRecord, Replays
  <2> QED BY <2>1, <2>2, <2>3
<1>5. Spaces'
  BY <1>0, <1>1, SpacesKeep DEF PwTypes
<1> QED BY <1>0, <1>1, <1>3, <1>4, <1>5 DEF PwInv, OneSurface, NotesAreTrue

LEMMA CheckKeeps == ASSUME PrewarmAssumption, PwInv, NEW w \in Ramps, Check(w) PROVE PwInv'
<1>0. PwTypes /\ OneSurface /\ NotesAreTrue /\ Replays /\ Spaces
  BY DEF PwInv
<1> DEFINE r == IF turn.pc # "idle" \/ recorded = Never \/ clock - lastRamp < Interval
                  THEN [ramp[w] EXCEPT !.pc = "over"]
                  ELSE [ramp[w] EXCEPT !.pc = "checked", !.prompt = recorded, !.at = clock]
<1>1. /\ ramp[w].pc = "new" /\ ramp' = [ramp EXCEPT ![w] = r]
      /\ crossed' = (crossed \/ (ramp'[w].pc = "checked" /\ (Warming \/ Ramping # {})))
      /\ UNCHANGED <<clock, provider, turn, begun, surface, former, made, recorded, cached, warm,
                     lastRamp>>
  BY DEF Check
<1>2. /\ ramp[w] \in RampRec /\ recorded \in Nat /\ recorded <= made /\ clock \in Nat
      /\ lastRamp \in Nat /\ Interval \in Nat /\ ramp[w].prompt <= made
  BY <1>0 DEF PwTypes, PrewarmAssumption
<1>3. /\ r \in RampRec /\ r.prompt <= made
      /\ \/ r.pc = "over"
         \/ /\ r.pc = "checked" /\ r.prompt = recorded /\ r.at = clock /\ turn.pc = "idle"
            /\ clock - lastRamp >= Interval
  <2>1. CASE turn.pc # "idle" \/ recorded = Never \/ clock - lastRamp < Interval
    <3>1. r = [ramp[w] EXCEPT !.pc = "over"]
      BY <2>1
    <3> HIDE DEF r
    <3> QED BY <1>2, <3>1 DEF RampRec
  <2>2. CASE ~(turn.pc # "idle" \/ recorded = Never \/ clock - lastRamp < Interval)
    <3>1. r = [ramp[w] EXCEPT !.pc = "checked", !.prompt = recorded, !.at = clock]
      BY <2>2
    <3> HIDE DEF r
    <3>2. clock - lastRamp >= Interval /\ turn.pc = "idle"
      BY <1>2, <2>2
    <3> QED BY <1>2, <3>1, <3>2 DEF RampRec, Going
  <2> QED BY <2>1, <2>2
<1> HIDE DEF r
<1>4. /\ ramp' \in [Ramps -> RampRec] /\ ramp'[w] = r
      /\ \A v \in Ramps \ {w} : ramp'[v] = ramp[v]
  BY <1>0, <1>1, <1>3 DEF PwTypes
<1>5. PwTypes'
  BY <1>0, <1>1, <1>3, <1>4 DEF PwTypes
<1>6. Sending' = Sending
  BY <1>1, <1>3, <1>4 DEF Sending
<1>7. /\ r.pc = "over" => Ramping' = Ramping
      /\ r.pc = "checked" => Ramping' = Ramping \cup {w}
  BY <1>1, <1>3, <1>4 DEF Ramping
<1>8. Replays'
  <2>1. CASE r.pc = "over"
    <3>1. \A v \in Ramping : ramp'[v] = ramp[v]
      BY <1>1, <1>4 DEF Ramping
    <3>2. ~crossed' => ~crossed
      BY <1>1
    <3> QED BY <1>0, <1>1, <1>7, <2>1, <3>1, <3>2 DEF Replays
  <2>2. CASE r.pc = "checked"
    <3>1. ~crossed' => ~crossed /\ warm = "done" /\ Ramping = {} /\ turn.pc = "idle"
      BY <1>1, <1>3, <1>4, <2>2 DEF Warming
    <3>2. ~crossed' => \A v \in Ramping' : ramp'[v].prompt = recorded
      BY <1>3, <1>4, <1>7, <2>2, <3>1
    <3> QED BY <1>0, <1>1, <3>1, <3>2 DEF Replays
  <2> QED BY <1>3, <2>1, <2>2
<1>9. Spaces'
  <2>1. \A v \in Ramps : ramp[v].pc = "done" => ramp[v].done <= lastRamp /\ ramp[v].done \in Nat
    BY <1>0 DEF Spaces, PwTypes, RampRec
  <2>2. \A v \in Ramps : ramp'[v].pc = "done" => v # w
    BY <1>3, <1>4
  <2>3. \A v, u \in Ramps :
          ramp'[v].pc = "done" /\ ramp'[u].pc \in Going \cup {"done"} /\ ramp'[v].done < ramp'[u].at
            => ramp'[u].at - ramp'[v].done >= Interval
    <3>1. ASSUME NEW v \in Ramps, NEW u \in Ramps, ramp'[v].pc = "done",
                 ramp'[u].pc \in Going \cup {"done"}, ramp'[v].done < ramp'[u].at
          PROVE  ramp'[u].at - ramp'[v].done >= Interval
      <4>1. v # w /\ ramp'[v] = ramp[v]
        BY <1>4, <2>2, <3>1
      <4>2. CASE u # w
        BY <1>0, <1>4, <3>1, <4>1, <4>2 DEF Spaces
      <4>3. CASE u = w
        <5>1. ramp'[u].at = clock /\ clock - lastRamp >= Interval
          BY <1>3, <1>4, <3>1, <4>3 DEF Going
        <5> QED BY <1>2, <2>1, <3>1, <4>1, <5>1
      <4> QED BY <4>2, <4>3
    <3> QED BY <3>1
  <2>4. \A v \in Ramps : ramp'[v].pc \in Going \cup {"done"} => ramp'[v].at <= clock
    BY <1>0, <1>2, <1>3, <1>4 DEF Spaces, Going
  <2> QED BY <1>0, <1>1, <1>4, <1>6, <2>1, <2>2, <2>3, <2>4 DEF Spaces
<1> QED BY <1>0, <1>1, <1>5, <1>8, <1>9 DEF PwInv, OneSurface, NotesAreTrue

\* A pre-ramp that goes on or gives up, and is not through yet.
LEMMA RampGoesOn ==
  ASSUME PwTypes, Spaces, NEW w \in Ramps, ramp[w].pc \in Going,
         UNCHANGED <<clock, made, lastRamp>>, ramp' \in [Ramps -> RampRec],
         \A v \in Ramps \ {w} : ramp'[v] = ramp[v],
         \/ ramp'[w].pc = "over"
         \/ ramp'[w].pc \in Going /\ ramp'[w].at = ramp[w].at,
         w \in Sending' => \A v \in Sending : v = w
  PROVE  Spaces'
<1>1. \A v \in Ramps \ {w} : v \in Sending' <=> v \in Sending
  BY DEF Sending
<1>2. \A v, u \in Ramps : v # u => ~(v \in Sending' /\ u \in Sending')
  <2>1. \A v, u \in Ramps : v # u => ~(v \in Sending /\ u \in Sending)
    BY DEF Spaces
  <2> QED BY <1>1, <2>1
<1>3. \A v \in Ramps : ramp'[v].pc = "done" => v # w /\ ramp'[v] = ramp[v]
  BY DEF Going
<1>4. \A v \in Ramps : ramp'[v].pc \in Going \cup {"done"} =>
        ramp[v].pc \in Going \cup {"done"} /\ ramp'[v].at = ramp[v].at
  BY DEF Going
<1> QED BY <1>2, <1>3, <1>4 DEF Spaces

LEMMA AcquireKeeps == ASSUME PrewarmAssumption, PwInv, NEW w \in Ramps, Acquire(w) PROVE PwInv'
<1>0. PwTypes /\ OneSurface /\ NotesAreTrue /\ Replays /\ Spaces
  BY DEF PwInv
<1> DEFINE r == IF Sending = {} THEN [ramp[w] EXCEPT !.pc = "sending"] ELSE [NoRamp EXCEPT !.pc = "over"]
<1>1. /\ ramp[w].pc = "checked" /\ ramp' = [ramp EXCEPT ![w] = r]
      /\ UNCHANGED <<clock, provider, turn, begun, surface, former, made, recorded, cached, warm,
                     lastRamp, crossed>>
  BY DEF Acquire
<1>2. ramp[w] \in RampRec /\ ramp[w].prompt <= made /\ made \in Nat
  BY <1>0 DEF PwTypes
<1>3. /\ r \in RampRec /\ r.prompt <= made
      /\ \/ r.pc = "over"
         \/ r.pc = "sending" /\ r.at = ramp[w].at /\ r.prompt = ramp[w].prompt /\ Sending = {}
  <2>1. CASE Sending = {}
    BY <1>2, <2>1 DEF RampRec, Going
  <2>2. CASE Sending # {}
    BY <1>2, <2>2 DEF RampRec, Going, NoRamp, Never
  <2> QED BY <2>1, <2>2
<1> HIDE DEF r
<1>4. /\ ramp' \in [Ramps -> RampRec] /\ ramp'[w] = r
      /\ \A v \in Ramps \ {w} : ramp'[v] = ramp[v]
  BY <1>0, <1>1, <1>3 DEF PwTypes
<1>5. PwTypes'
  BY <1>0, <1>1, <1>3, <1>4 DEF PwTypes
<1>6. Spaces'
  <2>1. w \in Sending' => \A v \in Sending : v = w
    BY <1>3, <1>4 DEF Sending
  <2> QED BY <1>0, <1>1, <1>3, <1>4, <2>1, RampGoesOn DEF Going
<1>7. Replays'
  <2>1. Ramping' \subseteq Ramping /\ w \in Ramping
    BY <1>1, <1>4 DEF Ramping
  <2>2. \A v \in Ramping' : ramp'[v].prompt = ramp[v].prompt
    BY <1>1, <1>3, <1>4 DEF Ramping
  <2> QED BY <1>0, <1>1, <2>1, <2>2 DEF Replays
<1> QED BY <1>0, <1>1, <1>5, <1>6, <1>7 DEF PwInv, OneSurface, NotesAreTrue

LEMMA ReplayKeeps == ASSUME PrewarmAssumption, PwInv, NEW w \in Ramps, Replay(w) PROVE PwInv'
<1>0. PwTypes /\ OneSurface /\ NotesAreTrue /\ Replays /\ Spaces
  BY DEF PwInv
<1>1. /\ ramp[w].pc = "sending"
      /\ \/ cached' = ramp[w].prompt /\ ramp' = [ramp EXCEPT ![w].pc = "sent"]
         \/ ramp' = [ramp EXCEPT ![w] = [NoRamp EXCEPT !.pc = "over"]] /\ cached' = cached
      /\ UNCHANGED <<clock, provider, turn, begun, surface, former, made, recorded, warm,
                     lastRamp, crossed>>
  BY DEF Replay
<1>2. ramp[w] \in RampRec /\ ramp[w].prompt <= made /\ made \in Nat /\ ramp[w].prompt \in Nat
  BY <1>0 DEF PwTypes, RampRec
<1>3. /\ ramp' \in [Ramps -> RampRec] /\ \A v \in Ramps \ {w} : ramp'[v] = ramp[v]
      /\ ramp'[w].prompt <= made
      /\ \/ ramp'[w].pc = "over" /\ cached' = cached
         \/ /\ ramp'[w].pc = "sent" /\ ramp'[w].at = ramp[w].at /\ ramp'[w].prompt = ramp[w].prompt
            /\ cached' = ramp[w].prompt
  <2>1. CASE cached' = ramp[w].prompt /\ ramp' = [ramp EXCEPT ![w].pc = "sent"]
    <3>1. [ramp[w] EXCEPT !.pc = "sent"] \in RampRec
      BY <1>2 DEF RampRec, Going
    <3>2. ramp' = [ramp EXCEPT ![w] = [ramp[w] EXCEPT !.pc = "sent"]]
      BY <2>1
    <3> QED BY <1>0, <1>2, <2>1, <3>1, <3>2 DEF PwTypes, RampRec
  <2>2. CASE ramp' = [ramp EXCEPT ![w] = [NoRamp EXCEPT !.pc = "over"]] /\ cached' = cached
    <3>1. [NoRamp EXCEPT !.pc = "over"] \in RampRec /\ [NoRamp EXCEPT !.pc = "over"].prompt = 0
          /\ [NoRamp EXCEPT !.pc = "over"].pc = "over"
      BY DEF RampRec, NoRamp, Never
    <3> QED BY <1>0, <1>2, <2>2, <3>1 DEF PwTypes
  <2> QED BY <1>1, <2>1, <2>2
<1>4. PwTypes'
  <2>1. cached' \in 0 .. made
    BY <1>0, <1>2, <1>3 DEF PwTypes
  <2> QED BY <1>0, <1>1, <1>3, <2>1 DEF PwTypes
<1>5. Spaces'
  <2>1. w \in Sending' => \A v \in Sending : v = w
    BY <1>0, <1>1 DEF Sending, Spaces
  <2> QED BY <1>0, <1>1, <1>3, <2>1, RampGoesOn DEF Going
<1>6. Replays'
  <2>1. Ramping' \subseteq Ramping /\ w \in Ramping
    BY <1>1, <1>3 DEF Ramping
  <2>2. \A v \in Ramping' : ramp'[v].prompt = ramp[v].prompt
    BY <1>1, <1>3 DEF Ramping
  <2>3. ~crossed => ramp[w].prompt = recorded /\ turn.pc = "idle" /\ warm = "done"
    BY <1>0, <2>1 DEF Replays
  <2>4. ~crossed /\ recorded # Never => cached' = recorded
    BY <1>0, <1>3, <2>3 DEF Replays
  <2> QED BY <1>0, <1>1, <2>1, <2>2, <2>3, <2>4 DEF Replays
<1> QED BY <1>0, <1>1, <1>4, <1>5, <1>6 DEF PwInv, OneSurface, NotesAreTrue

LEMMA ReleaseKeeps == ASSUME PrewarmAssumption, PwInv, NEW w \in Ramps, Release(w) PROVE PwInv'
<1>0. PwTypes /\ OneSurface /\ NotesAreTrue /\ Replays /\ Spaces
  BY DEF PwInv
<1>1. /\ ramp[w].pc = "sent" /\ lastRamp' = clock
      /\ ramp' = [ramp EXCEPT ![w] = [@ EXCEPT !.pc = "done", !.done = clock, !.prompt = Never]]
      /\ UNCHANGED <<clock, provider, turn, begun, surface, former, made, recorded, cached, warm,
                     crossed>>
  BY DEF Release
<1>2. /\ ramp[w] \in RampRec /\ made \in Nat /\ clock \in Nat /\ lastRamp <= clock /\ lastRamp \in Nat
      /\ \A v \in Ramps : ramp[v].at \in Nat /\ ramp[v].done \in Nat
  BY <1>0 DEF PwTypes, RampRec
<1>3. /\ ramp' \in [Ramps -> RampRec] /\ \A v \in Ramps \ {w} : ramp'[v] = ramp[v]
      /\ ramp'[w].pc = "done" /\ ramp'[w].done = clock /\ ramp'[w].at = ramp[w].at
      /\ ramp'[w].prompt = 0
  BY <1>0, <1>1, <1>2 DEF PwTypes, RampRec, Never
<1>4. PwTypes'
  <2>1. lastRamp' \in 0 .. clock' /\ \A v \in Ramps : ramp'[v].prompt <= made
    BY <1>0, <1>1, <1>2, <1>3 DEF PwTypes
  <2> QED BY <1>0, <1>1, <1>3, <2>1 DEF PwTypes
<1>5. Spaces'
  <2>1. \A v \in Ramps : ramp'[v].pc = "done" => ramp'[v].done <= lastRamp'
    BY <1>0, <1>1, <1>2, <1>3 DEF Spaces
  <2>2. \A v \in Ramps : ramp'[v].pc \in Going \cup {"done"} =>
          /\ ramp[v].pc \in Going \cup {"done"} /\ ramp'[v].at = ramp[v].at
          /\ ramp'[v].at <= clock
    BY <1>0, <1>1, <1>3 DEF Spaces, Going
  <2>3. \A v, u \in Ramps : v # u => ~(v \in Sending' /\ u \in Sending')
    <3>1. Sending' \subseteq Sending
      BY <1>1, <1>3 DEF Sending
    <3> QED BY <1>0, <3>1 DEF Spaces
  <2>4. ASSUME NEW v \in Ramps, NEW u \in Ramps, ramp'[v].pc = "done",
               ramp'[u].pc \in Going \cup {"done"}, ramp'[v].done < ramp'[u].at
        PROVE  ramp'[u].at - ramp'[v].done >= Interval
    <3>1. v # w
      BY <1>2, <1>3, <2>2, <2>4
    <3>2. ramp'[v] = ramp[v] /\ ramp[u].pc \in Going \cup {"done"} /\ ramp'[u].at = ramp[u].at
      BY <1>3, <2>2, <2>4, <3>1
    <3> QED BY <1>0, <2>4, <3>2 DEF Spaces
  <2> QED BY <1>1, <2>1, <2>2, <2>3, <2>4 DEF Spaces
<1>6. Replays'
  <2>1. Ramping' \subseteq Ramping
    BY <1>3 DEF Ramping
  <2>2. \A v \in Ramping' : ramp'[v].prompt = ramp[v].prompt
    BY <1>3 DEF Ramping
  <2> QED BY <1>0, <1>1, <2>1, <2>2 DEF Replays
<1> QED BY <1>0, <1>1, <1>4, <1>5, <1>6 DEF PwInv, OneSurface, NotesAreTrue

LEMMA PwStep == ASSUME PrewarmAssumption, PwInv, [PwNext]_prewarmVars PROVE PwInv'
<1>1. CASE UNCHANGED prewarmVars
  BY <1>1 DEF prewarmVars, PwInv, PwTypes, OneSurface, NotesAreTrue, Replays, Spaces, Ramping, Sending
<1>2. ASSUME NEW w \in Ramps, Check(w) \/ Acquire(w) \/ Replay(w) \/ Release(w) PROVE PwInv'
  BY <1>2, CheckKeeps, AcquireKeeps, ReplayKeeps, ReleaseKeeps
<1>3. CASE \E kicad \in BOOLEAN : BeginTurn(kicad)
  BY <1>3, BeginTurnKeeps
<1>4. CASE Wait \/ ProviderMoves \/ AddContext \/ Record \/ Send \/ WarmSend \/ WarmFails \/ WarmRecord
  BY <1>4, WaitKeeps, ProviderKeeps, AddContextKeeps, RecordKeeps, SendKeeps, WarmKeeps
<1> QED BY <1>1, <1>2, <1>3, <1>4 DEF PwNext

LEMMA PwEnds ==
  ASSUME PrewarmAssumption, PwInv
  PROVE  PrewarmTypeOK /\ SurfaceIsSteady /\ NotesAreTrue /\ ReplayIsExact /\ RampsAreSpaced
<1>0. PwTypes /\ OneSurface /\ NotesAreTrue /\ Replays /\ Spaces
  BY DEF PwInv
<1>1. PrewarmTypeOK
  BY <1>0 DEF PwTypes, PrewarmTypeOK, TurnRec, RampRec, Going
<1>2. SurfaceIsSteady
  <2>1. PICK T \in SUBSET Tools : surface = Ordered(T) /\ Stable \subseteq T
    BY <1>0 DEF OneSurface, Surfaces, Stable, PrewarmAssumption
  <2>2. PICK U \in SUBSET Tools : former = Ordered(U) /\ Stable \subseteq U
    BY <1>0 DEF OneSurface, Surfaces, Stable, PrewarmAssumption
  <2>3. ToSet(surface) = T /\ ToSet(former) = U
    BY <2>1, <2>2, OrderedIs
  <2>4. SubSeq(Ordered(U), 1, Cardinality(Stable)) = SubSeq(Ordered(T), 1, Cardinality(Stable))
    BY <2>1, <2>2, PrefixIsSteady
  <2> QED BY <2>1, <2>2, <2>3, <2>4 DEF SurfaceIsSteady
<1>3. ReplayIsExact
  BY <1>0 DEF Replays, ReplayIsExact
<1>4. RampsAreSpaced
  <2>1. \A v, w \in Ramps : v # w => ~({v, w} \subseteq Sending)
    BY <1>0 DEF Spaces
  <2>2. \A v, w \in Ramps :
          ramp[v].pc = "done" /\ ramp[w].pc \in {"checked", "sending", "sent", "done"}
            /\ ramp[v].done < ramp[w].at => ramp[w].at - ramp[v].done >= Interval
    BY <1>0 DEF Spaces, Going
  <2> QED BY <2>1, <2>2 DEF RampsAreSpaced
<1> QED BY <1>0, <1>1, <1>2, <1>3, <1>4

\* For any tools, requests for a pre-ramp, rounds, turns and time: the tools that are always
\* there keep their places at the head of every list, the note on a missing KiCad is true,
\* the server holds the prompt that was sent last unless a warm-up met a turn, and
\* pre-ramps are spaced (_order_tools_by_volatility, _maybe_add_kicad_status_note,
\* prewarm_llm).
THEOREM PromptsStayWarm ==
  PrewarmAssumption =>
    (PwSpec => [](PrewarmTypeOK /\ SurfaceIsSteady /\ NotesAreTrue /\ ReplayIsExact /\ RampsAreSpaced))
<1> SUFFICES ASSUME PrewarmAssumption
             PROVE  PwSpec => [](PrewarmTypeOK /\ SurfaceIsSteady /\ NotesAreTrue /\ ReplayIsExact
                                 /\ RampsAreSpaced)
  OBVIOUS
<1>1. PwInit => PwInv
  BY PwInitInv
<1>2. PwInv /\ [PwNext]_prewarmVars => PwInv'
  BY PwStep
<1>3. PwInv => PrewarmTypeOK /\ SurfaceIsSteady /\ NotesAreTrue /\ ReplayIsExact /\ RampsAreSpaced
  BY PwEnds
<1> QED BY <1>1, <1>2, <1>3, PTL DEF PwSpec

=============================================================================
