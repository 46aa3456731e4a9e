# Verification of B.U.T.L.E.R.

B.U.T.L.E.R. is a house assistant. A voice, text, SMS and phone front end talks
to a language model; a background lane runs long work; an awareness service
ingests device messages into PostgreSQL, derives current state, raises alerts
and reminders, tells people about them, and drives physical devices.

This directory holds TLA+ modules translated from that code, the configurations
with which TLC checks them on small instances, and theorems that TLAPS proves
for every value of the constants. `PROJECT.json` lists the components, the runs,
the source lines behind every definition (`map`), a code fault for every
property that the property must catch (`mutants`), the hazards of the code, and
the theorems.

    tlc -workers 2 -config House.cfg MCHouse.tla       # one of the runs below
    tlapm ConversationProofs.tla                       # one of the proof modules

1. [Inventory](#1-inventory)
2. [The modules and the code](#2-the-modules-and-the-code)
3. [What the runs show](#3-what-the-runs-show)
4. [Fairness](#4-fairness)
5. [What is proved](#5-what-is-proved)
6. [Where code and documents differ](#6-where-code-and-documents-differ)
7. [What is not modelled](#7-what-is-not-modelled)
8. [Plan](#8-plan)

Paths are relative to `src/butler/` unless they start with `Peripherals/`.

## 1. Inventory

### Processes, threads, tasks

| process | what runs in it |
|---|---|
| awareness service (`awareness/api/app.py`) | one asyncio loop: the HTTP routes, MQTT ingress, one outbox worker for everything but briefings, one for briefings, the freshness, reminder and briefing workers. State is in PostgreSQL; a restart loses only coroutines and caches. |
| main process (`main.py`) | threads: router, text and SMS server, background job workers, scheduler, displays, signal worker, MCP loop. State is in memory, plus SQLite for conversation, jobs and phone calls. |
| room voice worker (`voice/`) | threads: microphone or AudioGraph, duplex dispatcher, recognizer, ASR worker, playback, cue. It reaches the main process over HTTP. |
| phone bridge (`phone_bridge/`) | a public machine that takes ElevenLabs' webhooks and pushes finished calls. |
| launcher (`launcher/`) | a window, a start thread and a stop thread; the others are its children. |
| devices, broker | the fan controller's firmware is in this repository, other firmware is not; the broker is MQTT with QoS 1. |

### Components

| component | state | operations | hard behaviour | what makes it correct |
|---|---|---|---|---|
| Actions `awareness/actions/` | `action_requests`, two outbox items per request | request, confirm, cancel, dispatch, acknowledgement, state report, timeout | handlers that span a transaction, a publish and a second transaction; restarts; duplicate calls | no command leaves twice; cancel is final; completed means backed; every request settles |
| Ingestion `awareness/ingestion/` | `events`, dead letters | `handle()` from MQTT and `/ingest` | overlapping calls, redelivery, a cached sequence | one row per message |
| Process, ingress, health `awareness/api/app.py`, `ingestion/mqtt_client.py`, `health/` | tasks, their last errors, the connection | start, shutdown, reconnect, GET /health | cancellation at any await; a report built over several awaits | never healthy of what was ill; the engine goes last; errors clear |
| Registry `awareness/registry/` | `sources`, a cached snapshot | refresh, note_advance, seeding | the snapshot is stale while used; two processes seed at once | an operator's change survives; no false incident |
| Current state `awareness/state/manager.py` | `current_state`, `state_transitions` | apply | clocks, ranks, deadband | never backwards, never drifting away unseen |
| Freshness `awareness/state/freshness.py` | health, its history, offline alerts | tick | races ingestion | health, history and alert tell one story |
| Rules, alerts `awareness/rules/`, `alerts/` | `alerts`, evidence, `attention_items` | raise, resolve, set_status, cooldown, quiet hours | overlapping event transactions and the operator | an incident keeps its evidence; interruptions are spaced |
| Reminders `awareness/reminders/` | `reminders` | create, cancel, tick | cancel against firing | fires once |
| Outbox, notifications | `outbox`, `notification_deliveries` | claim, handle, retry | crash after the effect, stale locks, a lost answer | every notice is delivered or visibly given up, and repeats have a cause |
| Briefing `awareness/briefing/` | parts in the outbox payload, receipts | enqueue, defer, recheck, send, record | two lanes over the same attention items; deaths between sending and recording | a repeat is explained; what was chosen is kept |
| Memory `awareness/memory/`, `retention/` | `memories` and their relations | add, supersede, confirm, expire, consolidate, purge | concurrent writers of one key | the history of a fact is a chain |
| Situation `awareness/context/`, `services/awareness_client.py` | a cached picture | query, budget, cache | sections and budget truncate; queries are apart | what is critical is in the picture |
| Background jobs `jobs.py` | `jobs`, `job_events`, a queue | submit, run, shutdown, recover | threads, restarts, failing store calls | one run, one verdict, told to the client |
| Router, text, SMS `router.py`, `text/`, `sms/` | a queue, waiting clients | dispatch, answer, poll | exceptions, repeated webhooks, a cursor taken while the log grows | a command runs once, a text message as long as its sid is remembered; everybody is answered |
| Displays `display/` | numbered content, a slot | publish, poll | a poller that fails | the panel catches up |
| Agent `agent/runtime.py` | rounds, response ids, cancel registry, last prompt | ask, stream, interrupt, prewarm | broken-off rounds; a replay while a turn runs | claims are backed by commands |
| Conversation `memory/store.py` | turns, summary, facts | record, amend, clear | interruption, clearing across a turn | turns read their past; cleared stays cleared |
| Room voice `voice/agent.py` | speaking flag, sessions, ASR queue | play, capture, transcribe, cue | five threads around one reply | a cut answers the reply it was spoken over |
| Streaming speech `voice/streaming/` | two bounded queues, gates, rings, the graph | feed, play, endpoint, detect, start, stop | errors and stops of either side | what is reported was heard; nobody waits for ever |
| Sleep mode `services/sleep_mode.py` | a flag file, a cache per process | sleep, wake, gate | several processes | the night is quiet |
| Signals `services/awareness_signals.py` | a bounded queue | emit, post | several producers at the bound | order, spacing, counted losses |
| Smart plugs `services/smart_plugs.py` | devices and connections | switch one, switch all | refused logins, failed disconnects | counted lamps were switched |
| Phone `phone/`, `phone_bridge/` | SQLite of calls on both sides | place, push, page, refresh | a watermark in whole seconds; overlapping copies | no outcome is made up |
| Launcher `launcher/` | supervisors and their children | start, stop, close, clear | start against stop; partial clears | dependents go first; a clear says what it did |
| MCP client `mcp_client/` | sessions, cache, failures | eager, deferred and background start, reset, call | several starters, callers that time out, waiters that wake late | one start at a time but for one that lost its place; calls return |

How they interact: a device message goes through ingestion, which in one event
transaction stores the event, moves the source's health, applies rules
(incidents, attention items and their outbox rows), lets the action service see
acknowledgements and reports, and updates current state. The outbox lane then
publishes commands, times them out and notifies people; the briefing lane tells
what may wait. The freshness and reminder workers write alerts and attention
items on their own clock. The main process meets the awareness service over HTTP:
it posts signals, reads the situation and is told what to announce. A spoken
command goes from the voice worker to the main process, whose answer comes back
as a stream of sentences; a barge-in cancels the turn and cuts the stored answer
back to what was heard.

## 2. The modules and the code

| module | what it is | checked in |
|---|---|---|
| `ActionContract` | what the action service promises: the lifecycle and when a command may leave | `action_live` |
| `ActionLifecycle` | the action service, its outbox items, the lane's coroutines, broker and device; implements `ActionContract` | `action_*` |
| `SourceState` | ingestion, registry cache, current state, freshness, the offline alert | `source_serial`, `edge` |
| `AttentionContract` | what is promised about a notice | `attention_delivery` |
| `Attention` | incidents, reminders, outbox worker, channels; implements `AttentionContract` | `attention_*` |
| `Jobs` | job table and log, worker threads, router side, poller | `edge`, `jobs_announce` |
| `PhoneCalls` | calls on the bridge and on the main machine | `edge` |
| `BargeIn`, `Conversation` | talking over a reply, in the voice worker; a session with interruptions, in both processes | `house` |
| `Speaker`, `Capture`, `Detector`, `Listener`, `EchoCapture` | the reply's three threads; endpointing; the energy detector; from clip to command with the cue; the echo-cancelled microphone's start and end | `house` |
| `AgentLoop`, `Prewarm` | the rounds of a turn; what the model server is sent and keeps | `house` |
| `FrontDesk`, `Panel`, `Nightfall` | router, HTTP and SMS clients; the display and a panel that polls it; sleep mode and announcements | `house` |
| `Signals`, `Situation` | what is reported to awareness; the picture it gives back | `house`, `situation_crowded` |
| `Lights`, `Seeding`, `Forgetting` | smart plugs; the registry at start; every way to clear a memory | `house` |
| `McpClient`, `Briefing`, `Recall`, `Launcher`, `Backend` | tool providers; briefings; long-term memory; the launcher; the awareness process and its health | `back` |
| `MCAction`, `MCActionLive`, `MCActionFan`, `MCSourceState`, `MCAttention`, `MCSituation` | casts for TLC | |
| `MCHouse`, `MCBack`, `MCEdge` | sums of parts: a behaviour runs one part, chosen in `Init`, and the others rest. Each extends the modules whose properties it checks by name, as the theorems state them, and instantiates the others; what it says of those is guarded by `part = ...`, and a conjunction of them is one property of the run | |
| `...Proofs` | theorems, section 5 | TLAPS |

Operators named `X_Fault` (or `X_` and a word) stand before `X` and are what a
mutation of `X` puts in its place; nothing else refers to them.

**ActionLifecycle.** The request row is `status`, `createdAt` and `timeoutAt`;
`dispatchItem`, `attempts` and `timeoutItem` are its outbox items. `request()`
is `CheckRequest` (reads: dedupe, cooldown) and `CommitRequest` or
`Deduplicate` (the insert, which the unique index may turn into an answer for
the earlier row); between them other requests commit. `dispatch_handler` is
`DispatchAtMostOnce` or `DispatchDeviceKey`, then `PublishSucceeds` or
`PublishRaises`, then `MarkUnsent` or `MarkSent`, then `Finish`, with the
coroutine's place in `exec`. `_handle_ack` is `ObserveAck` and `IgnoreAck`,
`_handle_state_evidence` is `ObserveReport`, which settles every matching row at
once as the code does, and `timeout_handler` is `RunTimeout`. `PassDies` is a
pass whose lock goes stale, `Crash` a restart with a possibly different set of
registered actions. What the broker took is `sent`, what the device did is
`executed`.

**SourceState.** `handle()` is `Receive`, `RefreshReads`, `RefreshStores`,
`AssessSequence`, `Touch`, `Persist` or `PersistDuplicate`, and `NoteAdvance`;
every await is a place where another call runs. `Persist` is the event
transaction with everything it does. `Tick` is the freshness worker with both
phases of its one transaction. `PersistFails` is a database error, `Restart` a
new process, which loses what it was handling because the broker was answered on
receipt. `row[p].anchor` is `transition_anchor`, `cmp` the comparison time.

**Attention.** The event transaction is one step, except that an insert that
meets the active incident and the lock it then takes are two (`MeetIncident`,
then `UpdateIncident` or `IncidentGone`). `Claim` takes a batch and keeps the
attempts it read; `Send`, `RecordAttempt`, `MarkDelivered`, `Complete` and
`RecordFailure` are the handler and the bookkeeping around it. A channel may take
a message and its answer be lost. An attention item and its outbox row are one
record because the idempotency key `notification:{id}` ties them one to one.

**Jobs.** Every store call is its own transaction and its own step: `submit()` is
`CreateJob`, `AnnounceQueued`, `Enqueue`; `_run_job` is `MarkRunning`,
`AnnounceStarted`, `Execute`, `RecordOutcome`, `AnnounceVerdict`. The poller's
page, cursor and first synchronisation are `Connect`, `PollUnsynced`, `PollSynced`.

**BargeIn, Detector, Capture, Listener, EchoCapture, Speaker.** The audio threads.
A frame is a step; loudness is one of a few levels, and what a recognizer hears
is a choice. `BargeIn` has the gate, the bounded ASR queue and the worker that
may accept a capture after the reply it was spoken over has ended. The gate decides
under its lock and calls back when it has let go of it (`voice/streaming/vad.py:246`),
so that a decision (`OpenCapture`, `CloseCapture`) and its callback (`Candidate`,
`HandOver`) are two steps, and `owed` is what stands between them: a reply may end
there and the next be armed. `late` marks a recording handed over after its own
reply had ended, `stranded` the replies at the low volume that nothing under way
will restore. `Capture` is
the endpointing of both lanes with its ring and queue. `EchoCapture` follows the
order in which the graph's thread sets its events and writes its error.

**Conversation.** One session from both sides: the utterance a voice holds, its
token in the cancellation registry, the session lock, the stored turns. `report`
is what the voice worker tells of the cut; the correction waits for the lock and
gives up, which the model keeps apart (`unlocked`). A turn reads what the store
gives it, the newest rows that fit `Window`, a tool exchange whole or not at all
(`Readable`); the code's limits on messages and on characters are one budget, in
which an exchange with its calls and results weighs `ToolWeight` more. The read may
fail, which leaves the turn without a history (`blind`), and so may the write, or
what comes before the `try` that makes it, which leaves no row (`unkept`); the
correction of such a turn falls on the last answer before it.

**AgentLoop, Prewarm.** A turn is rounds of a response, its tool calls and their
results; `Deferred` says that the model's words must wait for the outcome of a
command. The row is written in `Finish`, and a store that fails there, or when the
session was recorded, leaves none (`Losses`). `Prewarm` is
the tool surface, the note about a provider that is not ready and the last
prompt, which the pre-ramp replays while a turn may change it. A tool is a number,
in the order of the names: the sort asks for that order and nothing else of a name.

**FrontDesk, Panel, Nightfall, Signals, Situation.** One queue, the router's thread,
a reply queue of one per client. Each delivery of a webhook is a client of its own:
what Twilio repeats has the same `Sid`, and `seen` holds the last `SeenLimit` sids; a
delivery without one is always accepted. `RunText` ends with the answer or with the
acknowledgement of a background job, whose own life is in `Jobs`. `Panel` is the
numbered projection and a poller whose poll may fail; the sleep flag has a cached
copy per process; the signal queue drops its oldest; the broker's queries are made
one after the other.

**Seeding, Forgetting, Lights.** Seeding transactions keep their row locks until
they commit, and an operator edits the metadata as often as he likes. Forgetting
has three ways to clear with every file and statement
in the code's order; files behave as on Windows, where the launcher runs: an open
file cannot be unlinked. A lamp's task is one coroutine per device.

**McpClient, Briefing, Recall, Launcher.** A step of `McpClient` is what its loop
does between two awaits; callers time out on their own thread. Start tasks are
numbered: `starts` is what has become of each, `pending` the one in `_pending_starts`.
A start is over for its waiter before its done-callback has run, and the callback
(`TaskDone`) and the waiter (`StartEnded`) are steps of their own, in either order.
The callback gives up its own place only (`Unlist`); the waiter takes out whatever is
there (`DropPending`, `mcp_client/client.py:888`), and a task under way that loses its
place so is `stray`. A stop that runs out of time leaves the session as it was
(`StopConnection`). On Python 3.12 the end of a stop's await and the count of the
failure are one step of the loop; what a coroutine that is cancelled there would
still do with its other providers is left out. `Briefing`
claims, locks, rechecks, sends and records in separate steps, with a death
between any two. `Recall` reads what is committed, locks with FOR UPDATE and
takes effect at its commit. `Launcher` is the start thread and the stop threads over
the children, with the buttons that start and stop them; a start thread works on the
Supervisor that its press of Start made (in the code it reads `self.supervisor` when
it begins, `launcher/gui.py:693`, long before another press could replace it).

**Backend.** The process of the awareness service. A polling worker is its place
(`pass`, `wait`, `gone`), `_state`, `_last_error`, and the two ways it is told to
stop; what a pass does is in the other modules, here it succeeds or fails with
the database. `CancelSwallowed` is `asyncio.wait_for` that returns instead of
raising. The ingress is `MqttIngress._run_loop` with its state as health sees it.
A health request reads the workers, the ingress and the database in the code's
order with the awaits between them; `query.watch` is a component picked when it
starts, for which the model notes whether it was ever fine or ever ill.

### Abstract specifications

`ActionContract` knows `status` and `sent` only: the legal transitions (several
requests may be settled by one report), and that a command whose device cannot
deduplicate leaves once, after its dispatch was recorded. `ActionLifecycle`
implements it with the same two variables (`ImplementsContract`, checked by
`action_live` and proved). `AttentionContract` knows a promise per notice (none,
owed, delivered, given up) and which were confirmed by a channel; `Attention`
implements it with the mapping in `Contract` (`KeepsPromise`, checked by
`attention_delivery` and proved).

## 3. What the runs show

States are distinct states; with two TLC workers each run takes between a second
and three minutes.

| run | instance | properties | what could go wrong |
|---|---|---|---|
| `action_safe` | two `run_pump` calls and a `toggle_fan` call with one caller key, two coroutines, a restart (1.7 M with symmetry) | `OneRowPerKey`, `AtMostOncePublish`, `CancelStopsAtMostOnce`, `CompletionIsBacked`, `AcknowledgedIsCompleted` | overlapping duplicates, double claims of one item, a publish that raises although the broker took it, a cancel against a running handler |
| `action_live` | one confirmed `device_key` command with receipts only, two coroutines, a restart, two attempts (240 k) | `NothingLeftHanging`, `ImplementsContract`, `RequestsSettle` | a request that waits for ever because the item that drives it is gone |
| `source_serial` | one handler, a numbered probe (three readings, one sent twice, one after a reboot), a weaker device, a message that is refused, an operator (5.4 M) | `LogsEndInTheRows`, `AlertFollowsHealth`, `DriftIsBounded`, `StateMovesForward`, `CounterIsSound` | late and weak readings, small moves that add up, silence in the middle of a message, a failed transaction between table and cache |
| `attention_delivery` | two stories: two sources that report and clear one condition with an operator; a critical notice and a reminder due in quiet hours, voice then log, one lane, two faults (554 k) | `IncidentsAreFaithful`, `RepeatsCostFaults`, `RemindersFireOnce`, `QuietHoursHold`, `KeepsPromise`, `NoticeSettles` | incidents that split or lose evidence, a crash between speaking and recording, lost answers, an item that always fails |
| `house` | seventeen parts of the voice worker and the main process (524 k), below | `CutsAnswerTheirOwnReply`, `SpeechIsFaithful`, `SessionIsFaithful`, `MemoryIsHonest`, `AnswersAreHonest`, `NightIsQuiet`, `CommandsRunOnce`, `NobodyWaitsForEver` | the threads around a reply, a session, the router and the agent |
| `back` | five parts that work in the background (824 k), below | `TypesOK`, `OrderlyStartsAndStops`, `BriefingsAreFaithful`, `HealthIsTruthful`, `HistoryIsChained`, `WorkIsFinished` | starts and stops that overlap, deaths between sending and recording, concurrent writers, a health answer over several awaits |
| `edge` | calls on two machines; two handlers with two copies of each message; two background jobs on two workers with two faults and a poller (630 k) | `CallsAreFaithful`, `StoredOnce`, `OneRunOneVerdict`, `VerdictsAreShown`, `EdgeSettles` | pages against pushes, redelivery, a restart between a row and its event |

`house`, `back` and `edge` are sums: a behaviour runs one part. The table says
which of a run's properties speaks about which part. A conjunction is violated if
any part violates its conjunct, so nothing is weakened by naming them together.
The types of the parts are conjuncts of `SpeechIsFaithful` and `AnswersAreHonest`
in `house` and of `TypesOK` in `back`.

| part | module and instance | in which property |
|---|---|---|
| barge_in | `BargeIn`: three replies of two slices, three captures, a queue of one | `CutsAnswerTheirOwnReply`, `DucksAreBrief` in `SpeechIsFaithful` |
| speaker | `Speaker`: three chunks, queues of two, one error of the model, synthesis or sink | `ReportsMatchHearing`, `SpeakReturns` in `NobodyWaitsForEver` |
| conversation | `Conversation`: a command, a follow-up spoken over its reply, a background turn, a window of four messages, reads, writes and corrections that fail; alerts are in the theorems | `TurnsReadTheirPast`, `CutsNeverReachBack`, `FollowUpsReadTheCut` in `SessionIsFaithful`; `EveryUtteranceEnds` |
| agent | `AgentLoop`: two turns of two rounds | `ClaimsAreBacked`, `OnlyTheLimitStrands`, `SentIsRemembered` in `AnswersAreHonest` |
| night | `Nightfall`: a user, an announcement, a scheduled job, a failing write or television | `NightIsQuiet` |
| desk | `FrontDesk`: a terminal, a text message delivered twice, an empty one that pushes its sid out of a memory of one, another message | `CommandsRunOnce`, with `InteractionsAreClosed` a conjunct of it; `EveryoneIsAnswered` |
| panel | `Panel`: four pieces of content, two polls that fail | its type in `AnswersAreHonest`; `PanelCatchesUp` |
| signals | `Signals`: two producers, a queue of one, three signals | `SignalsAreCounted`, `SignalsKeepOrder`, `PresenceIsSpaced` in `AnswersAreHonest`; `QueueDrains` |
| picture | `Situation`: two alerts, one critical, a section of one, a budget of three | `CriticalIsShown`, `BudgetHolds` |
| microphone | `Capture`: eight frames, a ring of four | `LeadInIsKept`, `OverlapIsBounded`, `EchoOnlyFromTheTail` |
| detector | `Detector`: two replies, three loudnesses | `CandidatesAreBrief`, `RepliesAreWatched` |
| prewarm | `Prewarm`: five tools, two pre-ramps, one turn of two rounds | `SurfaceIsSteady`, `NotesAreTrue`, `ReplayIsExact`, `RampsAreSpaced` |
| lights | `Lights`: a lamp and another device, two calls, a retry, four faults | `NothingIsLeftOpen`, `CountedWereSwitched` |
| registry | `Seeding`: two processes that seed, a freshness tick, an operator | `EditsSurvive`, `NoFalseIncident`, `HistoryIsTrue` in `AnswersAreHonest` |
| listener | `Listener`: two clips, one saying, a cue, a fallback | `DeafOnlyWhileSpeaking`, `RepliesAreArmed`, `WakesAreMet` |
| memories | `Forgetting`: two turns, two starts, one full clear, four faults | `FactsOutliveClears`, `ClearedStaysCleared`, `ClearAllTellsTheTruth` in `MemoryIsHonest` |
| echo | `EchoCapture`: six faults, an outlet of two | `FallbackIsAlone`, `UpMeansOpened`; `GraphsClose`, `ReadersAreReleased` |
| tools | `McpClient`: a deferred provider, a caller beside the background start, two attempts, three starts | `OneStartAtATime`; `RequestsReturn` |
| briefing | `Briefing`: two items, one critical, two workers, a mishap | `RepeatsAreExplained`, `ChosenAreKept` in `BriefingsAreFaithful`; `BriefingsSettle` |
| memory | `Recall`: one key, two values, two writers, three rows | `HistoryIsChained` |
| launcher | `Launcher`: three children, two starts, a click | `OneButler`, `DependentsGoFirst`, `StopLeavesNothing`; `StopReturns` |
| backend | `Backend`: the outbox worker, one subscription, a watched component, unlimited outages | `HealthIsTruthful`, `EngineOutlivesItsUsers`; `ErrorsClear`, `Listens`, `ShutdownEnds` |

Five more runs check one property each that a document states and the code does
not keep; TLC finds the violation (section 6): `action_cooldown`,
`action_stale_report`, `attention_cooldown`, `jobs_announce`, `situation_crowded`.

### Bounds and why they are enough

- *Requests, messages, jobs, turns.* What the properties relate is at most two of
  a kind and what stands between them: two calls with one key and a third that
  reuses it with other content; a reading, its copy, its successor and one of the
  next boot; two jobs, so that one waits behind the other; a command and the
  follow-up spoken over it; three replies, so that a capture over the first is
  transcribed during the second and another waits.
- *Starts of a provider.* Three: the one whose waiter wakes late, the one that loses
  its place to it, and one beside that. *Deliveries*: one text twice, and between them
  another sid, which a memory of one forgets the first for. *History*: a window of four
  messages holds two plain exchanges, or one with a tool and nothing else.
- *Coroutines, threads, processes.* Two of each kind that the code can run twice,
  the least number that can interleave; the threads that exist once exist once.
- *Queues* have one or two places, the code's hundreds: the cases are room and
  no room.
- *MaxAttempts* is 2 or 1, the code's 8: a failure with attempts left, and the
  last one. `Cap` of `Backend` only tells a first attempt from a later one.
- *Clock.* Instants are ordered, not measured: each deadline falls on an instant
  of its own. In `Attention` the last instant stands for all later time
  (`Reached`), so every backoff ends.
- *Faults.* One, or two where one fault may meet the recovery from another
  (`jobs`, `attention_delivery`). In `Backend` the database and the broker come
  and go without a bound, which keeps the model finite all the same.
- *Symmetry* is used in `action_safe` only, over the two identical calls and the
  coroutines; that run has no temporal property.
- What is proved (section 5) needs none of these bounds to be small.

Deadlock is not checked: with the inputs used up and the clock at its bound, all
of these systems rest. That nobody waits for ever is a liveness property of each
module instead.

## 4. Fairness

Weak fairness stands for a loop or a thread the code has, and for nothing else.

- The outbox worker polls, claims in order of `outbox_id` and its handlers return:
  `Work(w)` in `Attention`, `Claim(w)` and `Handle(w)` in `Briefing`,
  `Continue(e)` in `ActionLifecycle`. There, a due item may be claimed and failed
  again and again, so its claim is strongly fair; the code justifies this because
  a failed item backs off and claims go by id, so no item is passed over for ever.
- The freshness and reminder workers run on an interval (`Tick`, `FireReminders`);
  a coroutine that may run does run (`Work(h)`, `LoopRuns(w)`, `IngressRuns`).
- Threads run: the job manager's, the router between two of its calls, the poller,
  the speaker's three, the graph's and the dispatcher's, the signal worker, the
  launcher's stop thread, the callers of the MCP loop. An executor, a model and a
  tool come back; a synthesis or a sink returns or raises.
- A cut connection is noticed at the next await (`LinkFails`), a lock goes stale,
  quiet hours end, and time passes.

Nothing is assumed of users, operators, devices, sources, faults or restarts.
`Listens` promises a connection only as long as the broker stays; `ErrorsClear`
that an error goes when the database is usable. A liveness property speaks of what
the system itself owes and names the visible failures it allows: a timeout item in
the dead letters (`RequestsSettle`), an ended worker thread (`JobsSettle` in
`EdgeSettles`), an
ingress that ended on an unreadable certificate (`Listens`), a synthesis or a sink
that raised (`SpeakReturns`).

The number of outbox workers is a constant although one process runs one general
lane: `FOR UPDATE SKIP LOCKED`, `worker_id` and the stale lock are written for
more. `RepeatsCostFaults` says in its formula that it needs one lane: a batch of
slow channels can outlive its locks, and a second process would then speak again.

## 5. What is proved

Each theorem holds for every set of requests, messages, turns, workers and
threads, every bound and every number of faults, from the assumption named. These
are facts about types and, for the actions, the ties that
`ActionDefinition.validate_definition` checks; TLC evaluates each on the instance
of a run.

| module | theorem | what it states | assumption |
|---|---|---|---|
| `ActionLifecycleProofs` | `InductiveInvariant`, `TypeCorrect` | `IInv`, `TypeOK` | `LifecycleAssumption` |
| | `PublishedAtMostOnce` | `AtMostOncePublish` | |
| | `CancelIsFinal` | `CancelStopsAtMostOnce` | |
| | `CompletedWasBacked` | `CompletionIsBacked` | |
| | `AcknowledgementsCount` | `AcknowledgedIsCompleted` | |
| | `NothingIsLost` | `NothingLeftHanging` | |
| | `KeysAreUnique` | `OneRowPerKey` | |
| | `Refinement` | `ImplementsContract` | |
| `SourceStateProofs` | `TypeCorrect` | `TypeOK` | `SourceStateAssumption` |
| | `LogsAreTrue` | `LogsEndInTheRows` | |
| | `NoDuplicateRow` | `StoredOnce` | |
| | `AlertIsTrue` | `AlertFollowsHealth` | |
| | `StateOrder` | `StateMovesForward` | |
| | `DriftStaysBounded` | `DriftIsBounded` (it names `NarrowerIsWeaker`) | |
| | `PositionsAreWitnessed` | `Positions`: no counter without its row | |
| | `CriticalStaysInThePicture` | `CriticalIsShown`, `BudgetHolds` | `SituationAssumption` |
| `EdgeProofs` | `LaneInvariant` | `IInv` | `JobsAssumption` |
| | `OneVerdict` | `OneRunOneVerdict` | |
| | `VerdictsShown` | `VerdictsAreShown` | |
| | `PhoneInvariant`, `PhoneTypes` | `PhInv` | `PhoneAssumption` |
| | `CallsStayFaithful` | `CallsAreFaithful` | |
| | `PromptsStayWarm` | `SurfaceIsSteady`, `NotesAreTrue`, `ReplayIsExact`, `RampsAreSpaced` | `PrewarmAssumption` |
| `ConversationProofs` | `ConversationInvariant` | `IInv` | `ConversationAssumption` |
| | `TurnsAreSerial` | `TurnsReadTheirPast` | |
| | `CutsStayForward` | `CutsNeverReachBack` | |
| | `FollowUpsHearTheCut` | `FollowUpsReadTheCut` | |
| | `SessionStaysFaithful` | `SessionIsFaithful` (the three) | |
| | `WakesAreHeard` | `DeafOnlyWhileSpeaking`, `RepliesAreArmed`, `WakesAreMet` | `ListenerAssumption` |
| | `ReportsAreTrue` | `ReportsMatchHearing` | `SpeakerAssumption` |
| `AttentionProofs` | `AttentionInvariant`, `AttentionTypes` | `IInv`, `TypeOK` | `AttentionAssumption` |
| | `IncidentsFaithful` | `IncidentsAreFaithful` | |
| | `RepeatsArePaid` | `RepeatsCostFaults` | |
| | `QuietHours` | `QuietHoursHold` | |
| | `RemindersOnce` | `RemindersFireOnce` | |
| | `PromiseIsKept` | `KeepsPromise` (refinement) | |
| | `TheRoomIsHeard` | `LeadInIsKept`, `OverlapIsBounded`, `EchoOnlyFromTheTail` | `CaptureAssumption` |
| `HouseProofs` | `BargeInInvariant`, `BargeInTypes` | `BiInv` | `BargeInAssumption` |
| | `CutsAreOwn` | `CutsAnswerTheirOwnReply` | |
| | `DetectorWatchesThePlaying` | `OnePlays`, `WatchesThePlaying` | |
| | `VolumesComeBack` | `DucksAreBrief` | |
| | `FrontDeskInvariant`, `FrontDeskTypes` | `FdInv` | `FrontDeskAssumption` |
| | `CommandsOnce` | `CommandsRunOnce` | |
| | `NightfallInvariant`, `NightfallTypes` | `NfInv` | `NightfallAssumption` |
| | `NightStaysQuiet` | `NightIsQuiet` | |
| | `MemoriesHold` | `FgInv` | none |
| | `FactsStay` | `FactsOutliveClears` | |
| | `DialogueStaysCleared` | `ClearedStaysCleared` | |
| | `ClearAllIsTrue` | `ClearAllTellsTheTruth` | |
| | `MemoryStaysHonest` | `MemoryIsHonest` (the three) | |
| | `LightsAreCounted` | `NothingIsLeftOpen`, `CountedWereSwitched` | `LightsAssumption` |
| | `SignalsAreFaithful` | `SignalsAreCounted`, `SignalsKeepOrder`, `PresenceIsSpaced` | `SignalsAssumption` |
| `RoomProofs` | `CaptureStartsOrYields` | `FallbackIsAlone`, `UpMeansOpened` | `EchoCaptureAssumption` |
| | `DetectorIsFair` | `CandidatesAreBrief`, `RepliesAreWatched` | `DetectorAssumption` |
| | `TurnsAreHonest` | `ClaimsAreBacked`, `OnlyTheLimitStrands`, `SentIsRemembered` | `AgentLoopAssumption` |
| | `RestartsAreTruthful` | `EditsSurvive`, `NoFalseIncident`, `HistoryIsTrue` | `SeedingAssumption` |
| `BackProofs` | `BackendInvariant` | `IInv` | `BackendAssumption` |
| | `HealthIsBacked` | `HealthIsTruthful` | |
| | `EngineIsLast` | `EngineOutlivesItsUsers` | |
| | `RecallInvariant`, `RecallTypes` | `RcInv` | `RecallAssumption` |
| | `HistoryChained` | `HistoryIsChained` | |
| | `BriefingInvariant`, `BriefingTypes` | `BfInv` | `BriefingAssumption` |
| | `BriefingsStayFaithful` | `BriefingsAreFaithful` | |
| | `McpInvariant`, `OneStart` | `McInv`, `OneStartAtATime` | `McpAssumption` |
| | `LauncherInvariant`, `LauncherIsOrderly` | `LaInv`, the three properties of `Launcher` | `LauncherAssumption` |
| | `PartsInvariant` | `BackInv`, the five invariants together | those of the parts |
| | `StartsAndStopsAreOrderly` | `OrderlyStartsAndStops` | |
| | `BackTypes` | `TypesOK` | |

None of the safety properties is inductive; what each strengthening adds:

- *Actions.* `AtMostOncePublish` does not say why a second coroutine that claimed
  the same item cannot publish. `IInv` adds what a coroutine knows at each place
  (`ExecInv`: before its publish the command has not left and the row is past
  "approved" and not cancelled), that two coroutines are never both about to
  publish one command (`OnePublisher`), that the outbox items agree with the row
  (`RowInv`), and that an acknowledgement on its way has an execution behind it
  (`MessageInv`). `KeysAreUnique` uses that only `CommitRequest` makes rows, after
  the unique index let it; `Refinement` that each action is one `Advance`, one
  `Send` or a stutter of the contract.
- *Sources.* The table properties and the types are inductive together
  (`Tables`): the three tables are written in one transaction in every action
  that changes health. `StateOrder` needs that an empty row carries comparison
  time and rank zero; a step is then a replacement, which the verdict guards, an
  ageing, which keeps both, or nothing.
- *Drift.* The anchor of a row is what its last transition announced (`Anchored`):
  the verdict compares with the deadband of the message's own source, so the row
  can be as far from the announcement as that source allows. The property names its
  hypothesis, `NarrowerIsWeaker`: of two sources of one property the one with the
  narrower deadband has the lower rank. Section 6 says what happens without it.
- *Positions.* However many handlers overlap, the position in a registry row, in the
  cache and in the snapshot a call compares with is that of a row in the events table,
  and what a call drops as a duplicate has its twin there. `CounterIsSound` says more,
  that the counter does not go back, and holds of one handler only; the runs check it
  there, and section 6 says what overlapping calls do.
- *Jobs.* A job is in one place: with the router, in the queue once, or with one
  worker (`OneHolder`, `RouterHolds`, `QueueHolds`); the log ends as the rows say
  (`LogIsTrue`), and the poller is behind it.
- *Phone.* Every status and outcome that waits anywhere, in a row, in what a path
  has read or is about to write, or in the memory, is how the call ended (`Rows`,
  `Carries`, `Sayings`); an end is final, so a stale copy can be old but not false. A
  summary that says an end has its witness in the memory (`Backed`), which is why a
  path that finds its summary unchanged may skip the memory. While nobody asks, no
  page of the bridge overwrites what a push stored, and a placing keeps the outcome
  column (`Leaves`).
- *Conversation.* A turn is under way exactly if it holds the lock (`OneTurn`), a
  turn that is done has asked once, or is `unkept` and has left nothing, and no other
  has yet (`Questions`); a tool exchange stands behind its question in the store and
  in every history (`Wholes`), and a turn has read what its
  history reaches of the rows there were (`Taking`); a report that is done under the lock has
  its cut in the rows (`Corrected`), and a follow-up is spawned only after the report.
- *Attention.* Every notice and every incident has a cause of its own, so the rows
  fit the numbers there are (`Bounded`). The incident of a rule holds the evidence
  of all that reported it (`Evidence`); a second interruption keeps its distance
  (`Spaced`, `Announced`); what is spoken passed the hours when it was claimed
  (`Passing`, `Hours`). For the repeats: without a second lane a claimed notice
  stays pending until its own outcome is written (`Paid`), so that every sending
  beyond the first is paid by a crash, a lost answer or a failure. For the
  refinement: a confirmed attempt is in the ledger before its notice is called
  delivered, and delivered before its outbox row is completed (`Confirmed`).
- *BargeIn.* At most one reply plays, the detector is armed for that one, and a
  recording, owed, queued or under transcription, was begun over the reply it names
  or, handed over late, over an earlier one that had ended. A reply at the low volume
  is the one the detector watches (`DucksAreWatched`), so it is not begun at that
  volume, and it has its capture, or is `stranded` (section 6).
- *FrontDesk.* A command is once in the queue, or in the router's hand, or has run
  (`AtOnePlace`); one that was never sent is nowhere. Claims are numbered, and the
  memory of sids is the last of them in order (`Remembered`), so that a sid that is
  not in it was claimed `SeenLimit` claims ago or never.
- *Nightfall.* What is being spoken was let through while the house was awake, and
  the morning briefing in the router's hand has woken it, unless the flag has changed
  since or a write of it failed (`Hushed`).
- *Forgetting.* What a clear removed while no turn was under way is held by nobody
  (`Undisturbed`); an open connection keeps the file from being unlinked
  (`HeldOpen`), which is why a full clear that says so emptied both stores
  (`Emptied`).
- *Lights.* A call counts only what the plug confirmed, and the last call to write a
  device is the one whose power it has; every exit closes the connection it opened.
- *Signals.* Of one producer's signals the stored are older than the one being posted,
  that one than those that wait, and those than the one in hand (`Line`); a thread
  that senses has read a clock an interval past the presence that counts (`Spacing`).
  The types showed that the interval must not exceed the bound on the clock: a
  presence is otherwise stamped past it. `SignalsAssumption` says so now.
- *Listener.* Without a reply the flag is the cue's (`Owned`), and a reply that has
  played a slice has put it up again (`Declared`), which a cue that ends may undo only
  until the next slice.
- *Speaker.* Sentences and frames wait in the order of the reply (`Sentences`,
  `FramesInOrder`), and the reports stay behind what waits (`ReportsInOrder`). While
  nobody stops the reply, every frame that was made is heard, waits or is being
  written, and no sentence is begun and untold but the one that plays (`Covered`); of
  the text nothing is lost either (`Fed`). The proof showed what was missing: a sink
  that raised leaves a playback that drains or is dead, so it reports nothing more
  (`Places`).
- *Situation.* The selection takes what fits in the order of the candidates, so
  what it keeps of the rest comes last (`LastKept`), and what stood before it together
  with it was within the budget (`SelectedIs`): over the budget stand critical alerts
  alone. An open alert carries an instant of now or before (`Listing`), so whatever
  a question may still find had been opened when the question came (`Found`), also
  when alerts are resolved and opened between its queries; the cache adds its own
  life to the age that is promised.
- *Capture.* A gate that is given every frame holds the last ones without a gap
  (`Continuous`, `Followed`). The overlap of two utterances rests on where the first
  ended and in what silence, and on the loud frames that must follow before the second
  may begin (`Apart`): the set of shared voiced frames then lies in an interval whose
  length is the bound.
- *EchoCapture.* The event of the start means that the graph was opened or could not be,
  and a thread that failed has left its error behind (`Steps`); a start that was given
  up has let go of its graph or has told it to stop (`LetGo`).
- *Detector.* The detector is armed for the reply that plays or for none (`Watch`), and one
  thread records and transcribes, so that a lowered reply has its capture (`Candidate`).
- *AgentLoop.* A turn without a command has had no success, and the one round over the
  limit is the admonition (`Earned`).
- *Seeding.* A row has one writer until it commits (`SeedingTypeOK`), so what a
  transaction reads of it is what it has written or what is committed; the old
  metadata is in nobody's hand but a seeder's that has not migrated yet, and once a
  seeder is past a statement what that statement cleared stays clean, but for a tick
  or another process that had read before.
- *Prewarm.* The sort gives every tool a place of its own and leaves none out
  (`PositionsAreDistinct`, `EveryPositionIsTaken`), so lists of the same tools are the
  same, and those that are always there come first (`StableComesFirst`). While nothing
  crossed, a pre-ramp under way holds the prompt that was recorded last (`Replays`).
- *Backend.* What a loop says of itself is true (`Honest`), those before the one
  that is being stopped have ended (`Ends`), the watch knows the moment it is at
  (`Eyes`), and if a request has met nothing ill, each component it has read
  (`ReadBy`) was fine when it was read (`Backed`).
- *Recall.* The locks carry the argument: what a writer has locked is active and
  its own until it commits (`Locked`), so nobody else replaces or deletes it; nothing
  points at an active memory (`Points`), and a replaced one is pointed at by exactly
  one younger row (`Replaced`).
- *Briefing.* Only the lane that holds the advisory lock is between loading a part
  and recording it (`Sole`); the parts of a moment follow each other, and one that
  ended has nothing left (`Chained`); what a lane has in hand is what its part says
  (`Carries`), even when its claim has gone stale and another lane has claimed the
  part: that one defers. The count is the heart of it: to the times an item was
  told `Explained` adds the tellings that nothing stands against any more (a pending
  notification, a batch in hand, an item a briefing may still take), and the sum is
  at most one more than the crashes, lost answers and retries. `BriefingAssumption`
  asks for enough parts: every part but the last tells an item, so as many as there
  are items are enough, and the bound `Parts` cuts nothing off.
- *McpClient.* A start task that is under way is the one in `_pending_starts`, or a
  late waiter took it out of there (`Placed`); a new one is only made where none is
  pending, or the pending one is done.
- *Launcher.* A stop thread has told what is behind it in its list and nothing
  before that (`Descending`), which holds because no two stops work on one run: the
  event `_stopping` turns the second away. What a stop took when its start was over
  is all there is of that run (`Covered`). One Butler at a time rests on the buttons:
  while every start so far came to its end, Start is pressed only when the run is
  over, and Stop has one thread under way (`Alternate`, `InTurn`). The invariant
  showed that this fails from the third run on, once a start was cut short (section
  6, `OnlyTheCutRunOverlaps`), and `OneButler` says so.
- *The sum.* A step of `MCBack` is a step of one part and leaves the others alone
  (`PartsStep`), so the invariants of the parts hold together and what the run
  checks follows for every value of the constants.

Each proof has a lemma for each action or group of actions that leave the same
variables alone; the properties follow by projection.

*Only model-checked:* what needs fairness (`RequestsSettle`, `EdgeSettles`,
`NoticeSettles`, `WorkIsFinished`, `NobodyWaitsForEver`), because liveness and
ENABLED are out of this prover's reach. `CounterIsSound` is checked for one handler,
of whom alone it holds. `SpeechIsFaithful` and `AnswersAreHonest`
of `MCHouse` are conjunctions of properties of seventeen modules, twelve of which
`MCHouse` instantiates with the sizes of the run: each conjunct but the types of
`Panel` is proved by the theorem of its module, for every value of the constants;
that the sum runs one part and leaves the others alone is what TLC checks. No
module declares a RECURSIVE operator: sums are folds of the community modules or
cardinalities.

## 6. Where code and documents differ

Shown by a run:

| run | the code | the document |
|---|---|---|
| `action_cooldown` | two overlapping requests of one scope both pass `_check_cooldown` (`awareness/actions/service.py:840`) and are published | PHASE_07_ACTIONS.md:49 "cooldown violation is rejected before dispatch" |
| `action_stale_report` | the report of one `toggle_fan` completes a second that never reached the device (`awareness/actions/service.py:502`) | TEST_STRATEGY.md:63 "Only acknowledged/result-confirmed command completes" |
| `attention_cooldown` | an incident that opens within the cooldown of an earlier one is announced to nobody (`awareness/alerts/service.py:275`) | `awareness/README.md:270` "a critical alert is never deferred or silently dropped" |
| `jobs_announce` | an exception with an empty text is never announced and ends its worker thread (`jobs.py:497`) | async-background-execution-plan.md:540 "failures should produce a user-readable summary" |
| `situation_crowded` | only the newest open alerts of every severity become candidates (`awareness/context/broker.py:279`), so an older critical one is not shown | `awareness/context/broker.py:7` "active critical alerts are always included and never truncated" |

Stated in the modules as a property that the model does not have, and checked by
no run (the property to put into a `.cfg` is named):

| property | what happens |
|---|---|
| `Signals.DropsAreCounted` | a signal that loses the race at the bound is dropped and not counted (`services/awareness_signals.py:150`) |
| `PhoneCalls.RefreshShowsTheBridge` | a call the bridge changed before the newest local write and after the last page is not fetched (`phone/service.py:194`) |
| `Launcher.OnlyTheCutRunOverlaps` | a start that was cut short and then raises gives the Start button back while the next run is starting, so a third run comes up beside it (`launcher/gui.py:698`) |
| `Launcher.StopEndsEverything` | children that a start goes on starting after `stop()` took its list are left running (`launcher/core.py:634`) |
| `Nightfall.DisplayFollowsFlag` | of a sleep and a wake in quick succession the slower display command wins (`services/sleep_mode.py:226`) |
| `Recall.OneActivePerKey` | two writers of a new key both see none, so two values stay active (`awareness/memory/service.py:719`) |
| `McpClient.NoDuplicateProcess` | the waiter of a start that is over wakes late and takes a newer start out of `_pending_starts` (`mcp_client/client.py:888`); a third then runs beside it |
| `Speaker.ErrorsReachTheCaller` | an error of a thread after the caller's last look is reported by nobody |
| `Conversation.AlertsCorrectTheirOwnRow` | a correction of an interrupted alert falls on the last answer of the session |
| `AgentLoop.DenialIsTrue` | the note that no command was sent is also given when its answer was lost |

Met while modelling; the modules follow the code:

- *Actions.* A `device_key` command is published before its row is marked, so a
  cancel can succeed for a command that has left
  (`awareness/actions/service.py:673`); an acknowledgement that comes before the
  mark is thrown away, and the request times out although it ran (`:434`,
  `:704`). `AcknowledgedIsCompleted` is therefore about `at_most_once` actions.
- *Ingestion.* Of two overlapping calls for one source the later commit can move
  `last_sequence` back (`awareness/ingestion/pipeline.py:289`), against
  `awareness/ingestion/sequence.py:6` "never advancing the counter";
  `registry/sources.py:126` assumes messages are handled serially, and so does
  `CounterIsSound`. A duplicate does not bring a source back from offline
  (`:395`). A numbered message without a boot id is stored twice when it comes
  twice, because NULLs are distinct in the unique index
  (`awareness/db/models.py:220`). Rows in conflict are never marked offline
  (`awareness/state/freshness.py:319`). Two sources of equal rank and different
  deadbands let a property drift: with deadbands 3 and 1, the readings a:0, a:2, b:2,
  a:4 leave the row at 4 while the last transition announced 0, because the second
  source moved the anchor without a transition (`awareness/README.md:194`,
  `awareness/db/models.py:501`); `DriftIsBounded` is about sources where this cannot
  be. Messages are answered on receipt, so a
  restart loses what was being handled.
- *Alerts.* `set_status` has no guard: acknowledging a resolved alert makes it
  active again (`awareness/alerts/service.py:228`).
- *Awareness process.* An exception that is no `MqttError`, such as an unreadable
  certificate, ends the ingress loop for good, and health then says "stopped";
  the backoff is reset by a connection even if its subscriptions fail, and
  "connected" is said before they are made (`awareness/ingestion/mqtt_client.py:120`).
  An ingestion that failed to start is left out of the health answer
  (`awareness/api/routes/health.py:41`).
- *Jobs.* The poller that could not read its first cursor takes the first answer
  for history and prints none of it (`text/client.py:202`).
- *Voice.* The echo level that the energy detector learns can be the user's voice,
  which the comment at `voice/streaming/barge_in.py:396` excludes. The fallback of
  the recognizer is permanent although the comment at the preload expects
  recovery; a capture device that dies leaves the room deaf until a restart. A
  candidate that ends under `min_speech_ms` leaves its reply at the low volume
  (`voice/streaming/vad.py:218`, `voice/agent.py:1446`), and so does one whose callback
  comes when the next reply is in the detector: it lowers that one, over which nothing
  is being captured. A recording handed over so late is tagged to the next reply and
  may cut it (`voice/streaming/vad.py:246`, `voice/agent.py:1455`). A
  start of the echo-cancelled capture can succeed on a graph that has just failed,
  and a dispatcher that looks before the source is started gives up for good.
- *Agent.* Two pre-ramps can pass the debounce together (`Prewarm`). A store that
  cannot be written loses the row of a turn, also of one that sent a command
  (`agent/runtime.py:975`, `:2522`); when that turn was talked over, its correction
  rewrites the answer before it.
- *SMS.* A repeat whose sid was pushed out of the memory by 500 others, or that carries
  no sid, runs again (`sms/server.py:62`, `:68`).
- *Sleep.* The morning briefing that wakes the house is itself suppressed when the flag
  cannot be written (`text/server.py:285`).
- *Registry.* A freshness tick that overlaps an operator's opt-out can leave its
  state stale, and a row of the health history without the change (`Seeding`).
- *Plugs.* A lamp can be switched and reported failed; a failed disconnect
  replaces the refused login and stops the retries (`services/smart_plugs.py:99`).
- *Clearing.* A session summary survives a clear that a turn ran across; the
  launcher's clear of the chats leaves the response ids of a running Butler; the
  command-line clear does not look whether Butler runs; a full clear that failed
  half-way is reported as failed but leaves one memory empty (`Forgetting`).

## 7. What is not modelled

- In modelled parts: authentication, permissions, JSON schemas and safety checks
  of an action (a choice of the input: they only refuse), formatting, audit and
  log rows, metrics; topic matching and payload normalisation; telemetry points;
  rule matching and templates; suppressing an alert; the ranking of memories and
  of briefing items; embeddings; signal levels and transcription (a choice); the
  model's words (a choice). Row locks decide who waits and who is aborted; they are
  in `Seeding` and `Recall`, and left out of the freshness and ingestion
  transactions of `SourceState`.
- Components: the MCP servers and tools, thin wrappers without state; dashboards,
  telemetry, diagnostics and backups, which read and log; the peripheral displays,
  single loops around hardware; one-off migrations; `prototypes`, `tools`,
  `tests`. Prompts, model calls and rendering keep no state a property could be
  about.

## 8. Plan

Done: the actions, the sources, attention, jobs; the voice threads, the session,
the agent, router, displays, signals and situation; phone, launcher, tool client,
briefing, memory, forgetting, seeding; the awareness process.

Next, most important first:

1. One composition across modules: `Attention` with `Briefing` over the same
   notices, so that "told once" spans both lanes.
2. Row locks of ingestion, freshness and alerts with the database's abort as a
   step (`awareness/state/freshness.py:193`).
3. An abstract specification of a session ("each command is answered once, in
   order, with what was heard") and `Conversation` with `FrontDesk` under it.
4. `MCHouse` with the constants of its twelve instances as constants of its own, and
   `SpeechIsFaithful` and `AnswersAreHonest` as theorems of that sum, from the
   theorems of the parts, as `BackProofs` does it for `MCBack`.
