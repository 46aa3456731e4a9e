------------------------------- MODULE Attention -------------------------------
(***************************************************************************)
(* From a condition to a human in butler/awareness: incidents               *)
(* (rules/engine.py, alerts/service.py), reminders (reminders/), the        *)
(* attention item with its notification outbox row, the outbox worker       *)
(* (outbox/worker.py) and the delivery over the channels                    *)
(* (notifications/handler.py).                                              *)
(*                                                                         *)
(* A database transaction is one step, except the event transaction, which  *)
(* meets the active incident in one statement and locks it in another.  An  *)
(* attention item and its outbox row are one record: the idempotency key    *)
(* notification:{attention_id} makes them one to one.                       *)
(***************************************************************************)
EXTENDS Integers, Sequences, FiniteSets

CONSTANTS
  Events,       \* accepted events about one critical condition
  Raising,      \* those that report it; the others report the all-clear
  Device,       \* Events -> the source that sends it
  Reminders,    \* idempotency keys of reminders
  Due,          \* Reminders -> due_at
  Channels,     \* adapter names, preferred first, then in fallback order
  AlwaysUp,     \* channels that confirm every time (log)
  Workers,      \* outbox workers of the general lane
  BatchSize, MaxAttempts, StaleLock, Backoff,  \* settings.outbox_*
  Cooldown,     \* cooldown_seconds of the rule
  Quiet,        \* instants inside the quiet hours
  Never,        \* an SQL NULL
  MaxTime,      \* the last instant stands for all later time
  MaxFaults     \* bound on database errors, lost answers and restarts

ASSUME AttentionAssumption ==
  /\ IsFiniteSet(Events) /\ IsFiniteSet(Reminders) /\ IsFiniteSet(Workers)
  /\ Raising \subseteq Events /\ Due \in [Reminders -> Nat] /\ Reminders \cap Nat = {}
  /\ Channels \in Seq(STRING) /\ Channels # <<>>
  /\ BatchSize \in Nat \ {0} /\ MaxAttempts \in Nat \ {0}
  /\ {StaleLock, Backoff, Cooldown, MaxTime, MaxFaults} \subseteq Nat
  /\ Quiet \subseteq 0..(MaxTime - 1)
  /\ Never \notin Nat /\ Never \notin Workers

VARIABLES
  now,
  event,      \* what became of each event
  incidents,  \* alerts rows of the condition, oldest first
  episodes,   \* incidents with a memory_episode outbox row
  reminder,   \* reminders.status
  notices,    \* attention_items with their outbox rows, in outbox_id order
  ledger,     \* notification_deliveries: notice, channel, confirmed
  spoken,     \* how often the channels have taken each notice
  retried,    \* notices an operator has sent back from the dead letters
  worker,     \* where each run_once is
  faults

alarms == <<event, incidents, episodes, reminder>>
vars == <<now, alarms, notices, ledger, spoken, retried, worker, faults>>

Active == {"open", "acknowledged"}
Numbers == 1 .. Cardinality(Events) + Cardinality(Reminders)
Idle == [phase |-> "idle", batch |-> <<>>, channel |-> 0, ok |-> FALSE]

Init ==
  /\ now = 0
  /\ event = [e \in Events |-> "new"]
  /\ incidents = <<>>
  /\ episodes = {}
  /\ reminder = [r \in Reminders |-> "none"]
  /\ notices = <<>>
  /\ ledger = {}
  /\ spoken = [n \in Numbers |-> 0]
  /\ retried = {}
  /\ worker = [w \in Workers |-> Idle]
  /\ faults = 0

-----------------------------------------------------------------------------
(* raise_attention                                                          *)

QuietEnd(t) == CHOOSE u \in t..MaxTime : u \notin Quiet /\ t..(u - 1) \subseteq Quiet

\* Fault for mutation: only reminders are looked at, not severity.
Available_AlwaysNow(severity) == now

Available(severity) == IF severity = "critical" THEN now ELSE QuietEnd(now)

Notice(about, severity) ==
  [about |-> about, severity |-> severity, made |-> now, attention |-> "pending", item |-> "pending",
   available |-> Available(severity), attempts |-> 0, next |-> Never, lock |-> Never]

ActiveOnes == {i \in DOMAIN incidents : incidents[i].status \in Active}

InCooldown ==
  \E n \in DOMAIN notices : notices[n].severity = "critical" /\ notices[n].made > now - Cooldown

\* Within the cooldown the incident is updated and nobody is interrupted.
Interrupt(i) ==
  notices' = IF InCooldown THEN notices ELSE Append(notices, Notice(i, "critical"))

-----------------------------------------------------------------------------
(* RuleEngine.apply_event inside the event transaction, which holds the     *)
(* source's row until it commits                                            *)

Ready(e) ==
  /\ event[e] = "new"
  /\ \A f \in Events : Device[f] = Device[e] => event[f] # "conflict"

OpenIncident(e) ==
  /\ Ready(e) /\ e \in Raising /\ ActiveOnes = {}
  /\ incidents' = Append(incidents, [status |-> "open", evidence |-> {e}])
  /\ Interrupt(Len(incidents) + 1)
  /\ event' = [event EXCEPT ![e] = "stored"]
  /\ UNCHANGED <<now, episodes, reminder, ledger, spoken, retried, worker, faults>>

\* The insert does nothing on the active deduplication key.
MeetIncident(e) ==
  /\ Ready(e) /\ e \in Raising /\ ActiveOnes # {}
  /\ event' = [event EXCEPT ![e] = "conflict"]
  /\ UNCHANGED <<now, incidents, episodes, reminder, notices, ledger, spoken, retried, worker, faults>>

\* SELECT ... FOR UPDATE finds it still active.
UpdateIncident(e) ==
  /\ event[e] = "conflict"
  /\ \E i \in ActiveOnes :
       /\ incidents' = [incidents EXCEPT ![i].evidence = @ \cup {e}]
       /\ Interrupt(i)
  /\ event' = [event EXCEPT ![e] = "stored"]
  /\ UNCHANGED <<now, episodes, reminder, ledger, spoken, retried, worker, faults>>

\* Fault for mutation: the event is stored although its incident is gone.
IncidentGone_Stored(e) ==
  /\ event[e] = "conflict" /\ ActiveOnes = {}
  /\ event' = [event EXCEPT ![e] = "stored"]
  /\ UNCHANGED <<now, incidents, episodes, reminder, notices, ledger, spoken, retried, worker, faults>>

\* It was resolved in between: scalar_one raises and the event is rolled back
\* to a dead letter.
IncidentGone(e) ==
  /\ event[e] = "conflict" /\ ActiveOnes = {}
  /\ event' = [event EXCEPT ![e] = "dead"]
  /\ UNCHANGED <<now, incidents, episodes, reminder, notices, ledger, spoken, retried, worker, faults>>

\* resolve_by_key with _queue_episode
ClearIncident(e) ==
  /\ Ready(e) /\ e \notin Raising
  /\ incidents' = [i \in DOMAIN incidents |->
       IF i \in ActiveOnes THEN [incidents[i] EXCEPT !.status = "resolved"] ELSE incidents[i]]
  /\ episodes' = episodes \cup ActiveOnes
  /\ event' = [event EXCEPT ![e] = "stored"]
  /\ UNCHANGED <<now, reminder, notices, ledger, spoken, retried, worker, faults>>

\* The partial unique index: one active incident per deduplication key.
Allowed(i, status) == status \in Active => ActiveOnes \subseteq {i}

\* set_status
SetStatus(i, status) ==
  /\ incidents[i].status # status /\ Allowed(i, status)
  /\ incidents' = [incidents EXCEPT ![i].status = status]
  /\ episodes' = IF status = "resolved" THEN episodes \cup {i} ELSE episodes
  /\ UNCHANGED <<now, event, reminder, notices, ledger, spoken, retried, worker, faults>>

Acknowledge(i) == SetStatus(i, "acknowledged")
Resolve(i) == SetStatus(i, "resolved")

-----------------------------------------------------------------------------
(* ReminderService and ReminderWorker.tick                                  *)

\* create() refuses a due_at that is not in the future.
CreateReminder(r) ==
  /\ reminder[r] = "none" /\ Due[r] > now
  /\ reminder' = [reminder EXCEPT ![r] = "scheduled"]
  /\ UNCHANGED <<now, event, incidents, episodes, notices, ledger, spoken, retried, worker, faults>>

CancelReminder(r) ==
  /\ reminder[r] = "scheduled"
  /\ reminder' = [reminder EXCEPT ![r] = "cancelled"]
  /\ UNCHANGED <<now, event, incidents, episodes, notices, ledger, spoken, retried, worker, faults>>

\* Fault for mutation: cancelled reminders are due as well.
DueNow_NotFired == {r \in Reminders : reminder[r] \in {"scheduled", "cancelled"} /\ Due[r] <= now}

DueNow == {r \in Reminders : reminder[r] = "scheduled" /\ Due[r] <= now}

\* All due reminders in one transaction, by due time.
FireReminders ==
  /\ DueNow # {}
  /\ reminder' = [r \in Reminders |-> IF r \in DueNow THEN "fired" ELSE reminder[r]]
  /\ \E order \in [1..Cardinality(DueNow) -> DueNow] :
       /\ \A a, b \in DOMAIN order : a < b => order[a] # order[b] /\ Due[order[a]] <= Due[order[b]]
       /\ notices' = notices \o [a \in DOMAIN order |-> Notice(order[a], "notice")]
  /\ UNCHANGED <<now, event, incidents, episodes, ledger, spoken, retried, worker, faults>>

-----------------------------------------------------------------------------
(* OutboxWorker.run_once and NotificationHandler                            *)

Reached(t) == t <= now \/ now = MaxTime

Unlocked(n) == notices[n].lock = Never \/ Reached(notices[n].lock + StaleLock + 1)

Claimable(n) ==
  /\ notices[n].item = "pending" /\ notices[n].available <= now
  /\ notices[n].next = Never \/ Reached(notices[n].next)
  /\ Unlocked(n)

\* The oldest items, at most BatchSize of them; RETURNING hands them over in any order.
Claims ==
  LET claimable == {n \in DOMAIN notices : Claimable(n)} IN
  {batch \in UNION {[1..k -> claimable] : k \in 1..BatchSize} :
     /\ \A a, b \in DOMAIN batch : a # b => batch[a] # batch[b]
     /\ \A n \in claimable : \/ \E a \in DOMAIN batch : batch[a] = n
                             \/ Len(batch) = BatchSize /\ \A a \in DOMAIN batch : batch[a] < n}

Booking(n) == [notice |-> n, attempts |-> notices[n].attempts]

Claim(w) ==
  /\ worker[w].phase = "idle"
  /\ \E claimed \in Claims :
       /\ notices' = [n \in DOMAIN notices |->
            IF \E a \in DOMAIN claimed : claimed[a] = n THEN [notices[n] EXCEPT !.lock = now]
                                                        ELSE notices[n]]
       /\ worker' = [worker EXCEPT ![w] =
            [phase |-> "send", channel |-> 1, ok |-> FALSE,
             batch |-> [a \in DOMAIN claimed |-> Booking(claimed[a])]]]
  /\ UNCHANGED <<now, alarms, ledger, spoken, retried, faults>>

Current(w) == Head(worker[w].batch).notice
Channel(w) == Channels[worker[w].channel]
Goto(w, phase) == worker' = [worker EXCEPT ![w].phase = phase]

\* The rest of the batch, or the next poll.
NextItem(w) ==
  worker' = [worker EXCEPT ![w] =
    IF Len(@.batch) = 1 THEN Idle
    ELSE [phase |-> "send", channel |-> 1, ok |-> FALSE, batch |-> Tail(@.batch)]]

Counted(k) == IF k < MaxFaults + 2 THEN k + 1 ELSE k

\* The channel takes the message or not; its answer may be lost on the way,
\* which the adapter reports like a refusal.
Send(w) ==
  /\ worker[w].phase = "send"
  /\ \E taken, ok \in BOOLEAN :
       /\ Channel(w) \in AlwaysUp => ok
       /\ ok => taken
       /\ taken /\ ~ok => faults < MaxFaults
       /\ spoken' = IF taken THEN [spoken EXCEPT ![Current(w)] = Counted(@)] ELSE spoken
       /\ faults' = IF taken /\ ~ok THEN faults + 1 ELSE faults
       /\ worker' = [worker EXCEPT ![w].phase = "record", ![w].ok = ok]
  /\ UNCHANGED <<now, alarms, notices, ledger, retried>>

\* Fault for mutation: any attempt that was made counts as delivery.
AfterAttempt_Attempted(w) == "mark"

\* A confirmed attempt ends the handler, otherwise the next channel is tried.
AfterAttempt(w) ==
  IF worker[w].ok THEN "mark" ELSE IF worker[w].channel < Len(Channels) THEN "send" ELSE "fail"

RecordAttempt(w) ==
  /\ worker[w].phase = "record"
  /\ ledger' = ledger \cup {[notice |-> Current(w), channel |-> Channel(w), confirmed |-> worker[w].ok]}
  /\ worker' = [worker EXCEPT ![w].phase = AfterAttempt(w),
                              ![w].channel = IF AfterAttempt(w) = "send" THEN @ + 1 ELSE @]
  /\ UNCHANGED <<now, alarms, notices, spoken, retried, faults>>

MarkDelivered(w) ==
  /\ worker[w].phase = "mark"
  /\ notices' = [notices EXCEPT ![Current(w)].attention = "delivered"]
  /\ Goto(w, "complete")
  /\ UNCHANGED <<now, alarms, ledger, spoken, retried, faults>>

\* Fault for mutation: the lock is released and the status forgotten.
Completed_Unlocked(n) == [n EXCEPT !.lock = Never]

Completed(n) == [n EXCEPT !.item = "completed", !.lock = Never]

Complete(w) ==
  /\ worker[w].phase = "complete"
  /\ notices' = [notices EXCEPT ![Current(w)] = Completed(@)]
  /\ NextItem(w)
  /\ UNCHANGED <<now, alarms, ledger, spoken, retried, faults>>

\* Fault for mutation: an exhausted item waits for ever instead.
Failed_NoDeadLetter(n, tried) ==
  IF tried + 1 >= MaxAttempts THEN [n EXCEPT !.attempts = MaxAttempts, !.available = MaxTime + 1, !.lock = Never]
  ELSE [n EXCEPT !.attempts = tried + 1, !.next = now + Backoff, !.lock = Never]

\* _record_failure counts from the attempts the claim returned.
Failed(n, tried) ==
  IF tried + 1 >= MaxAttempts THEN [n EXCEPT !.attempts = MaxAttempts, !.item = "dead_letter", !.lock = Never]
  ELSE [n EXCEPT !.attempts = tried + 1, !.next = now + Backoff, !.lock = Never]

RecordFailure(w) ==
  /\ worker[w].phase = "fail"
  /\ notices' = [notices EXCEPT ![Current(w)] = Failed(@, Head(worker[w].batch).attempts)]
  /\ NextItem(w)
  /\ UNCHANGED <<now, alarms, ledger, spoken, retried, faults>>

\* A database error makes the handler raise; one while the outcome is written
\* ends the pass, and what it had claimed stays locked.
DatabaseFails(w) ==
  /\ worker[w].phase # "idle" /\ faults < MaxFaults
  /\ faults' = faults + 1
  /\ IF worker[w].phase \in {"complete", "fail"} THEN worker' = [worker EXCEPT ![w] = Idle]
                                                 ELSE Goto(w, "fail")
  /\ UNCHANGED <<now, alarms, notices, ledger, spoken, retried>>

\* The process dies: passes are gone, and so is an event in mid-transaction,
\* because the broker was answered on receipt.
Restart ==
  /\ faults < MaxFaults
  /\ faults' = faults + 1
  /\ worker' = [w \in Workers |-> Idle]
  /\ event' = [e \in Events |-> IF event[e] = "conflict" THEN "lost" ELSE event[e]]
  /\ UNCHANGED <<now, incidents, episodes, reminder, notices, ledger, spoken, retried>>

\* retry_outbox_item
Retry(n) ==
  /\ notices[n].item = "dead_letter"
  /\ notices' = [notices EXCEPT ![n] = [@ EXCEPT !.item = "pending", !.next = Never, !.lock = Never,
                                                 !.available = now]]
  /\ retried' = retried \cup {n}
  /\ UNCHANGED <<now, alarms, ledger, spoken, worker, faults>>

Tick ==
  /\ now < MaxTime
  /\ now' = now + 1
  /\ UNCHANGED <<alarms, notices, ledger, spoken, retried, worker, faults>>

Work(w) == \/ Claim(w) \/ Send(w) \/ RecordAttempt(w) \/ MarkDelivered(w)
           \/ Complete(w) \/ RecordFailure(w)

Handle(e) == \/ OpenIncident(e) \/ MeetIncident(e) \/ UpdateIncident(e) \/ IncidentGone(e)
             \/ ClearIncident(e)

Next ==
  \/ \E e \in Events : Handle(e)
  \/ \E i \in DOMAIN incidents : Acknowledge(i) \/ Resolve(i)
  \/ \E r \in Reminders : CreateReminder(r) \/ CancelReminder(r)
  \/ FireReminders
  \/ \E w \in Workers : Work(w) \/ DatabaseFails(w)
  \/ \E n \in DOMAIN notices : Retry(n)
  \/ Restart \/ Tick

Spec == Init /\ [][Next]_vars

\* The worker polls and its handlers come back, the reminder worker polls and
\* time passes; nothing is owed about events, operators and faults.
FairSpec == /\ Spec /\ WF_vars(Tick) /\ WF_vars(FireReminders)
            /\ \A w \in Workers : WF_vars(Work(w))

-----------------------------------------------------------------------------
Instants == 0..(MaxTime + Backoff)
Items == {"pending", "completed", "dead_letter"}

Rows ==
  [about : Numbers \cup Reminders, severity : {"critical", "notice"}, made : 0..MaxTime,
   attention : {"pending", "delivered"}, item : Items, available : 0..MaxTime,
   attempts : 0..MaxAttempts, next : Instants \cup {Never}, lock : (0..MaxTime) \cup {Never}]

Passes ==
  [phase : {"idle", "send", "record", "mark", "complete", "fail"},
   batch : Seq([notice : Numbers, attempts : 0..MaxAttempts]), channel : 0..Len(Channels), ok : BOOLEAN]

TypeOK ==
  /\ now \in 0..MaxTime /\ faults \in 0..MaxFaults
  /\ event \in [Events -> {"new", "conflict", "stored", "dead", "lost"}]
  /\ incidents \in Seq([status : Active \cup {"resolved"}, evidence : SUBSET Raising])
  /\ episodes \subseteq Nat /\ retried \subseteq Numbers
  /\ reminder \in [Reminders -> {"none", "scheduled", "fired", "cancelled"}]
  /\ notices \in Seq(Rows)
  /\ ledger \subseteq [notice : Numbers, channel : {Channels[k] : k \in DOMAIN Channels}, confirmed : BOOLEAN]
  /\ spoken \in [Numbers -> 0..(MaxFaults + 2)]
  /\ worker \in [Workers -> Passes]

\* Every stored report of the condition is evidence of exactly one incident,
\* a report that was not stored of none, and at most one incident is active:
\* repeats, all-clears and the operator never split or merge incidents.
EvidenceIsKept ==
  /\ \A e \in Raising :
       Cardinality({i \in DOMAIN incidents : e \in incidents[i].evidence})
         = IF event[e] = "stored" THEN 1 ELSE 0
  /\ Cardinality(ActiveOnes) <= 1

\* Interruptions about the condition are a cooldown apart, also when the
\* incident was resolved and opened anew in between.
InterruptionsAreSpaced ==
  \A m, n \in DOMAIN notices :
    m < n /\ notices[m].severity = "critical" /\ notices[n].severity = "critical"
      => notices[n].made - notices[m].made >= Cooldown

\* Whoever reports, clears or resolves, incidents say what was reported, and their
\* interruptions keep the cooldown.
IncidentsAreFaithful == EvidenceIsKept /\ InterruptionsAreSpaced

\* A noncritical notice made in quiet hours is not spoken before they end,
\* unless an operator asks for it; a critical one never waits for them.
QuietHoursHold ==
  [][\A n \in DOMAIN notices :
       /\ spoken'[n] > spoken[n] /\ notices[n].severity # "critical" /\ n \notin retried
            => now >= QuietEnd(notices[n].made)
       /\ notices[n].severity = "critical" /\ n \notin retried => notices[n].available = notices[n].made]_vars

\* At least once, but not freely: with the one general lane of the process,
\* every repetition of a notice costs a lost answer, a database error or a
\* restart; fallback channels, retries and dead letters alone never repeat it.
RepeatsCostFaults ==
  Cardinality(Workers) = 1 => \A n \in Numbers : spoken[n] <= 1 + faults

\* A fired reminder has exactly one notice, any other none, and one that was
\* cancelled in time stays silent, whatever the worker was doing.
RemindersFireOnce ==
  /\ [](\A r \in Reminders :
         Cardinality({n \in DOMAIN notices : notices[n].about = r})
           = IF reminder[r] = "fired" THEN 1 ELSE 0)
  /\ [][\A r \in Reminders : reminder[r] = "cancelled" => reminder'[r] = "cancelled"]_vars

\* What the contract calls the promise and the confirmations.
Promise ==
  [n \in Numbers |->
    IF n \notin DOMAIN notices THEN "none"
    ELSE IF notices[n].attention = "delivered" THEN "delivered"
    ELSE IF notices[n].item = "dead_letter" THEN "given_up" ELSE "owed"]
Receipts == {n \in Numbers : \E d \in ledger : d.notice = n /\ d.confirmed}

\* Every notice is delivered, or given up in view of the operator.
Contract == INSTANCE AttentionContract WITH
  Notices <- Numbers, promise <- Promise, confirmed <- Receipts
KeepsPromise == Contract!ContractSpec

NoticeSettles ==
  \A n \in Numbers :
    n \in DOMAIN notices ~> n \in DOMAIN notices /\ notices[n].item # "pending"

\* README: a critical alert is never deferred or silently dropped.
CriticalIsAnnounced ==
  \A i \in DOMAIN incidents : \E n \in DOMAIN notices : notices[n].about = i
=============================================================================
