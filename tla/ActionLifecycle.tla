-------------------------- MODULE ActionLifecycle ---------------------------
(***************************************************************************)
(* The action service of butler/awareness/actions/service.py together with *)
(* the two outbox items it queues per request, the outbox worker coroutines *)
(* that run their handlers, the broker and the device.                     *)
(*                                                                         *)
(* A database transaction is one action; a handler that spans transactions *)
(* and network calls is one action per piece, with the coroutine's place   *)
(* kept in exec.  A request is identified with the API call that makes it. *)
(* Branches that only append an audit row change nothing modelled here and *)
(* are the negation of the guards.                                         *)
(***************************************************************************)
EXTENDS Integers, FiniteSets

CONSTANTS
  Requests,      \* calls of ActionService.request
  Definition,    \* the registered action each call names, with its parameters
  Key,           \* the caller's idempotency key of each call, or NoKey
  Fingerprint,   \* what the dedupe compares: action, parameters, actor, correlation
  Actor,         \* who makes each call
  NoKey, NoRequest,
  Executors,     \* outbox worker coroutines that may run at the same time
  MaxOpenCalls,  \* request transactions that may be open at the same time
  MaxAttempts,   \* settings.outbox_max_attempts
  MaxSends,      \* sent saturates here
  MaxTime,       \* bound on the clock
  MaxCrashes     \* bound on process restarts and passes that die

Names == {Definition[r].name : r \in Requests}
Actors == {Actor[r] : r \in Requests} \cup {"operator"}

DefinitionType ==
  [name : STRING, scope : STRING, atMostOnce : BOOLEAN,
   ackMode : {"state_confirmation", "command_ack"},
   ackSemantics : {"state_result", "execution_result", "receipt_only"},
   confirmation : BOOLEAN, cooldown : Nat, ttl : Nat, timeout : Nat,
   actors : SUBSET STRING, property : STRING, value : BOOLEAN]

\* ActionDefinition.validate_definition ties the ack fields together.
ASSUME LifecycleAssumption ==
  /\ Definition \in [Requests -> DefinitionType]
  /\ \A r \in Requests :
       Definition[r].ackMode = "state_confirmation" <=> Definition[r].ackSemantics = "state_result"
  /\ Actor \in [Requests -> STRING]
  /\ NoRequest \notin Requests
  /\ MaxAttempts \in Nat \ {0}
  /\ MaxSends \in Nat /\ MaxSends >= 2
  /\ MaxTime \in Nat
  /\ MaxCrashes \in Nat
  /\ MaxOpenCalls \in Nat

VARIABLES
  registry,      \* names of the actions the running process has registered
  clock,         \* wall-clock time
  call,          \* progress of each request() call
  verdict,       \* what the checks of an open request() transaction concluded
  status,        \* action_requests.status, "none" while there is no row
  createdAt,     \* action_requests.created_at (start of the transaction)
  timeoutAt,     \* outbox available_at of the action_timeout item
  dispatchItem,  \* outbox status of action_dispatch:{id}
  attempts,      \* outbox attempt_count of action_dispatch:{id}
  timeoutItem,   \* outbox status of action_timeout:{id}
  exec,          \* what each worker coroutine is doing
  sent,          \* publishes that may have reached the broker
  executed,      \* physical executions by the device
  messages,      \* acknowledgements and state reports the device has published
  heard,         \* requests whose ok acknowledgement was ingested before they settled
  crashes

rowVars == <<status, createdAt, timeoutAt, dispatchItem, attempts, timeoutItem>>
worldVars == <<sent, executed, messages>>
callVars == <<call, verdict>>
vars == <<registry, clock, callVars, rowVars, exec, worldVars, heard, crashes>>

Terminal == {"rejected", "completed", "failed", "timed_out", "cancelled"}
Statuses == {"none", "awaiting_confirmation", "approved", "dispatched",
             "acknowledged"} \cup Terminal
ItemStatuses == {"none", "pending", "completed", "dead_letter"}
Phases == {"idle", "publish", "unsent", "mark", "finish", "finishTimeout"}
Idle == [phase |-> "idle", req |-> NoRequest, attempt |-> 0]

Once == {r \in Requests : Definition[r].atMostOnce}
Acks == [kind : {"ack"}, req : Requests, ok : BOOLEAN]
Reports == [kind : {"report"}, property : STRING, value : BOOLEAN]

Init ==
  /\ registry = Names
  /\ clock = 0
  /\ call = [r \in Requests |-> "new"]
  /\ verdict = [r \in Requests |-> "none"]
  /\ status = [r \in Requests |-> "none"]
  /\ createdAt = [r \in Requests |-> 0]
  /\ timeoutAt = [r \in Requests |-> 0]
  /\ dispatchItem = [r \in Requests |-> "none"]
  /\ attempts = [r \in Requests |-> 0]
  /\ timeoutItem = [r \in Requests |-> "none"]
  /\ exec = [e \in Executors |-> Idle]
  /\ sent = [r \in Requests |-> 0]
  /\ executed = [r \in Requests |-> 0]
  /\ messages = {}
  /\ heard = {}
  /\ crashes = 0

-----------------------------------------------------------------------------
(* request(): the checks read committed rows, the insert comes later        *)

SameKey(r, q) == Key[r] # NoKey /\ Key[q] = Key[r]
HasRow(r) == status[r] # "none"

\* _check_cooldown: a row of the same scope younger than the cooldown.
CoolingDown(r) ==
  \E q \in Requests \ {r} :
     /\ HasRow(q)
     /\ Definition[q].scope = Definition[r].scope
     /\ status[q] \notin {"rejected", "cancelled"}
     /\ createdAt[q] > clock - Definition[r].cooldown

Permitted(r) == Actor[r] \in Definition[r].actors
Registered(r) == Definition[r].name \in registry

\* A call whose key already has a row replies from that row and writes only audit.
Deduplicate(r) ==
  /\ call[r] = "new"
  /\ \E q \in Requests :
       /\ HasRow(q) /\ SameKey(r, q)
       /\ call' = [call EXCEPT ![r] = IF Fingerprint[q] = Fingerprint[r] /\ status[q] # "rejected"
                                      THEN "accepted" ELSE "refused"]
  /\ UNCHANGED <<registry, clock, verdict, rowVars, exec, worldVars, heard, crashes>>

\* paramsOk and stateOk: schema validation and the allowed_state safety check.
CheckRequest(r) ==
  /\ call[r] = "new"
  /\ Cardinality({q \in Requests : call[q] = "open"}) < MaxOpenCalls
  /\ ~ \E q \in Requests : HasRow(q) /\ SameKey(r, q)
  /\ call' = [call EXCEPT ![r] = "open"]
  /\ \E paramsOk, stateOk \in BOOLEAN :
       verdict' = [verdict EXCEPT ![r] =
         IF Registered(r) /\ paramsOk /\ Permitted(r) /\ stateOk /\ ~ CoolingDown(r)
         THEN "accept" ELSE "reject"]
  /\ createdAt' = [createdAt EXCEPT ![r] = clock]
  /\ UNCHANGED <<registry, clock, status, timeoutAt, dispatchItem, attempts, timeoutItem,
                 exec, worldVars, heard, crashes>>

\* _approve_and_queue: the outbox insert does nothing on a key that exists.
ApproveAndQueue(r) ==
  /\ status' = [status EXCEPT ![r] = "approved"]
  /\ dispatchItem' = [dispatchItem EXCEPT ![r] = IF @ = "none" THEN "pending" ELSE @]

\* Fault for mutation: no unique constraint on idempotency_key.
KeyTaken_NoConstraint(r) == FALSE

\* The commit fails as a whole when another call inserted the key meanwhile.
KeyTaken(r) == \E q \in Requests : HasRow(q) /\ SameKey(r, q)

CommitRequest(r) ==
  /\ call[r] = "open"
  /\ IF KeyTaken(r)
     THEN /\ call' = [call EXCEPT ![r] = "error"]
          /\ UNCHANGED <<status, dispatchItem>>
     ELSE \/ /\ verdict[r] = "reject"
             /\ call' = [call EXCEPT ![r] = "refused"]
             /\ status' = [status EXCEPT ![r] = "rejected"]
             /\ UNCHANGED dispatchItem
          \/ /\ verdict[r] = "accept"
             /\ call' = [call EXCEPT ![r] = "accepted"]
             /\ IF Definition[r].confirmation
                THEN /\ status' = [status EXCEPT ![r] = "awaiting_confirmation"]
                     /\ UNCHANGED dispatchItem
                ELSE ApproveAndQueue(r)
  /\ UNCHANGED <<registry, clock, verdict, createdAt, timeoutAt, attempts, timeoutItem,
                 exec, worldVars, heard, crashes>>

-----------------------------------------------------------------------------
(* confirm() and cancel(): one transaction each, the row locked             *)

Confirm(r, a) ==
  /\ status[r] = "awaiting_confirmation"
  /\ a = Actor[r]
  /\ \E stateOk \in BOOLEAN :
       \/ /\ createdAt[r] + Definition[r].ttl < clock
          /\ status' = [status EXCEPT ![r] = "cancelled"]
          /\ UNCHANGED dispatchItem
       \/ /\ createdAt[r] + Definition[r].ttl >= clock
          /\ \/ /\ ~ Registered(r)
                /\ status' = [status EXCEPT ![r] = "failed"]
                /\ UNCHANGED dispatchItem
             \/ /\ Registered(r)
                /\ ~ stateOk \/ CoolingDown(r)
                /\ status' = [status EXCEPT ![r] = "rejected"]
                /\ UNCHANGED dispatchItem
             \/ /\ Registered(r) /\ stateOk /\ ~ CoolingDown(r)
                /\ ApproveAndQueue(r)
  /\ UNCHANGED <<registry, clock, callVars, createdAt, timeoutAt, attempts, timeoutItem,
                 exec, worldVars, heard, crashes>>

\* Fault for mutation: the test for dispatched rows is missing.
Cancellable_AlsoDispatched(r) == status[r] \notin Terminal \cup {"none"}

Cancellable(r) == status[r] \notin Terminal \cup {"none", "dispatched"}

Cancel(r, a) ==
  /\ \/ a = Actor[r]
     \/ a = "operator" /\ Registered(r) /\ a \in Definition[r].actors
  /\ Cancellable(r)
  /\ status' = [status EXCEPT ![r] = "cancelled"]
  /\ UNCHANGED <<registry, clock, callVars, createdAt, timeoutAt, dispatchItem, attempts,
                 timeoutItem, exec, worldVars, heard, crashes>>

-----------------------------------------------------------------------------
(* observe_event(): inside the ingestion transaction of a device message    *)

Pending(r) == status[r] \in {"dispatched", "acknowledged"}

\* Fault for mutation: a negative acknowledgement completes the request.
ObserveAck_IgnoresOk(m) ==
  /\ m \in messages /\ m.kind = "ack"
  /\ Registered(m.req) /\ Definition[m.req].ackMode = "command_ack"
  /\ Pending(m.req)
  /\ status' = [status EXCEPT ![m.req] = "completed"]
  /\ UNCHANGED <<registry, clock, callVars, createdAt, timeoutAt, dispatchItem, attempts,
                 timeoutItem, exec, worldVars, heard, crashes>>

ObserveAck(m) ==
  /\ m \in messages /\ m.kind = "ack"
  /\ Registered(m.req) /\ Definition[m.req].ackMode = "command_ack"
  /\ Pending(m.req)
  /\ status' = [status EXCEPT ![m.req] =
       IF ~ m.ok THEN "failed"
       ELSE IF Definition[m.req].ackSemantics = "execution_result" THEN "completed"
       ELSE "acknowledged"]
  /\ heard' = IF m.ok THEN heard \cup {m.req} ELSE heard
  /\ UNCHANGED <<registry, clock, callVars, createdAt, timeoutAt, dispatchItem, attempts,
                 timeoutItem, exec, worldVars, crashes>>

\* The same ingestion when the row is not pending: audited as late, then dropped.
IgnoreAck(m) ==
  /\ m \in messages /\ m.kind = "ack"
  /\ Registered(m.req) /\ Definition[m.req].ackMode = "command_ack"
  /\ m.ok /\ status[m.req] \notin Terminal /\ ~ Pending(m.req)
  /\ heard' = heard \cup {m.req}
  /\ UNCHANGED <<registry, clock, callVars, rowVars, exec, worldVars, crashes>>

\* _handle_state_evidence settles every dispatched row the report is about.
Concerns(m, r) ==
  /\ status[r] = "dispatched"
  /\ Registered(r) /\ Definition[r].ackMode = "state_confirmation"
  /\ Definition[r].property = m.property

ObserveReport(m) ==
  /\ m \in messages /\ m.kind = "report"
  /\ status' = [r \in Requests |->
       IF ~ Concerns(m, r) THEN status[r]
       ELSE IF Definition[r].value = m.value THEN "completed" ELSE "failed"]
  /\ UNCHANGED <<registry, clock, callVars, createdAt, timeoutAt, dispatchItem, attempts,
                 timeoutItem, exec, worldVars, heard, crashes>>

-----------------------------------------------------------------------------
(* The action_dispatch and action_timeout handlers under the outbox worker  *)

Deadline(t) == IF clock + t > MaxTime THEN MaxTime ELSE clock + t

\* Fault for mutation: the timeout item is not queued.
RecordDispatch_NoTimeout(r) ==
  /\ status' = [status EXCEPT ![r] = "dispatched"]
  /\ UNCHANGED <<timeoutItem, timeoutAt>>

\* _mark_dispatched: the status and the timeout item in one transaction.
RecordDispatch(r) ==
  /\ status' = [status EXCEPT ![r] = "dispatched"]
  /\ timeoutItem' = [timeoutItem EXCEPT ![r] = IF @ = "none" THEN "pending" ELSE @]
  /\ timeoutAt' = [timeoutAt EXCEPT ![r] = Deadline(Definition[r].timeout)]

\* A worker claims a pending item; a stale lock does not keep others out.
Claim(e, r) == exec[e] = Idle /\ dispatchItem[r] = "pending"

\* The claim returns the attempt count the handler's outcome is judged by.
Start(e, r, phase) ==
  exec' = [exec EXCEPT ![e] = [phase |-> phase, req |-> r, attempt |-> attempts[r]]]

Goto(e, phase) == exec' = [exec EXCEPT ![e].phase = phase]

DispatchNoLongerApproved(e, r) ==
  /\ Claim(e, r)
  /\ status[r] # "approved"
  /\ Start(e, r, "finish")
  /\ UNCHANGED <<registry, clock, callVars, rowVars, worldVars, heard, crashes>>

DispatchUnregistered(e, r) ==
  /\ Claim(e, r)
  /\ status[r] = "approved" /\ ~ Registered(r)
  /\ status' = [status EXCEPT ![r] = "failed"]
  /\ Start(e, r, "finish")
  /\ UNCHANGED <<registry, clock, callVars, createdAt, timeoutAt, dispatchItem, attempts,
                 timeoutItem, worldVars, heard, crashes>>

\* Fault for mutation: publish first, record afterwards, as for device_key.
DispatchAtMostOnce_PublishFirst(e, r) ==
  /\ Claim(e, r)
  /\ status[r] = "approved" /\ Registered(r) /\ r \in Once
  /\ Start(e, r, "publish")
  /\ UNCHANGED <<registry, clock, callVars, rowVars, worldVars, heard, crashes>>

\* at_most_once: the attempt is recorded before any network I/O.
DispatchAtMostOnce(e, r) ==
  /\ Claim(e, r)
  /\ status[r] = "approved" /\ Registered(r) /\ r \in Once
  /\ RecordDispatch(r)
  /\ Start(e, r, "publish")
  /\ UNCHANGED <<registry, clock, callVars, createdAt, dispatchItem, attempts,
                 worldVars, heard, crashes>>

\* device_key: the command is published first, the same envelope on every retry.
DispatchDeviceKey(e, r) ==
  /\ Claim(e, r)
  /\ status[r] = "approved" /\ Registered(r) /\ r \notin Once
  /\ Start(e, r, "publish")
  /\ UNCHANGED <<registry, clock, callVars, rowVars, worldVars, heard, crashes>>

Sent(n) == IF n < MaxSends THEN n + 1 ELSE n

PublishSucceeds(e) ==
  LET r == exec[e].req IN
  /\ exec[e].phase = "publish"
  /\ sent' = [sent EXCEPT ![r] = Sent(@)]
  /\ Goto(e, IF r \in Once THEN "finish" ELSE "mark")
  /\ UNCHANGED <<registry, clock, callVars, rowVars, executed, messages, heard, crashes>>

\* Fault for mutation: the budget is never spent.
RecordFailure_NoBudget(r, tried) ==
  /\ attempts' = [attempts EXCEPT ![r] = tried + 1]
  /\ UNCHANGED dispatchItem

\* _record_failure: the last attempt of the budget dead-letters the item.
RecordFailure(r, tried) ==
  /\ attempts' = [attempts EXCEPT ![r] = IF tried < MaxAttempts THEN tried + 1 ELSE tried]
  /\ dispatchItem' = [dispatchItem EXCEPT ![r] =
                        IF tried + 1 >= MaxAttempts THEN "dead_letter" ELSE @]

\* A database error in the handler's first transaction: only an attempt is lost.
DispatchRaises(e, r) ==
  /\ Claim(e, r)
  /\ RecordFailure(r, attempts[r])
  /\ UNCHANGED <<registry, clock, callVars, status, createdAt, timeoutAt, timeoutItem, exec,
                 worldVars, heard, crashes>>

\* The publish raises; whether the broker got the message is unknown.
PublishRaises(e, reached) ==
  LET r == exec[e].req IN
  /\ exec[e].phase = "publish"
  /\ sent' = [sent EXCEPT ![r] = IF reached THEN Sent(@) ELSE @]
  /\ IF r \in Once
     THEN Goto(e, "unsent") /\ UNCHANGED <<dispatchItem, attempts>>
     ELSE RecordFailure(r, exec[e].attempt) /\ exec' = [exec EXCEPT ![e] = Idle]
  /\ UNCHANGED <<registry, clock, callVars, status, createdAt, timeoutAt, timeoutItem,
                 executed, messages, heard, crashes>>

MarkUnsent(e) ==
  LET r == exec[e].req IN
  /\ exec[e].phase = "unsent"
  /\ status' = [status EXCEPT ![r] = IF @ = "dispatched" THEN "failed" ELSE @]
  /\ Goto(e, "finish")
  /\ UNCHANGED <<registry, clock, callVars, createdAt, timeoutAt, dispatchItem, attempts,
                 timeoutItem, worldVars, heard, crashes>>

MarkSent(e) ==
  LET r == exec[e].req IN
  /\ exec[e].phase = "mark"
  /\ IF status[r] = "approved" THEN RecordDispatch(r)
                               ELSE UNCHANGED <<status, timeoutItem, timeoutAt>>
  /\ Goto(e, "finish")
  /\ UNCHANGED <<registry, clock, callVars, createdAt, dispatchItem, attempts,
                 worldVars, heard, crashes>>

\* A database error in the handler's second transaction costs an attempt.
SecondTransactionFails(e) ==
  /\ exec[e].phase \in {"unsent", "mark"}
  /\ RecordFailure(exec[e].req, exec[e].attempt)
  /\ exec' = [exec EXCEPT ![e] = Idle]
  /\ UNCHANGED <<registry, clock, callVars, status, createdAt, timeoutAt, timeoutItem,
                 worldVars, heard, crashes>>

Finish(e) ==
  LET r == exec[e].req IN
  /\ exec[e].phase = "finish"
  /\ dispatchItem' = [dispatchItem EXCEPT ![r] = "completed"]
  /\ exec' = [exec EXCEPT ![e] = Idle]
  /\ UNCHANGED <<registry, clock, callVars, status, createdAt, timeoutAt, attempts,
                 timeoutItem, worldVars, heard, crashes>>

\* Fault for mutation: an acknowledged request is taken for settled.
RunTimeout_DispatchedOnly(e, r) ==
  /\ exec[e] = Idle
  /\ timeoutItem[r] = "pending" /\ timeoutAt[r] <= clock
  /\ status' = [status EXCEPT ![r] = IF @ = "dispatched" THEN "timed_out" ELSE @]
  /\ Start(e, r, "finishTimeout")
  /\ UNCHANGED <<registry, clock, callVars, createdAt, timeoutAt, dispatchItem, attempts,
                 timeoutItem, worldVars, heard, crashes>>

RunTimeout(e, r) ==
  /\ exec[e] = Idle
  /\ timeoutItem[r] = "pending" /\ timeoutAt[r] <= clock
  /\ status' = [status EXCEPT ![r] = IF Pending(r) THEN "timed_out" ELSE @]
  /\ Start(e, r, "finishTimeout")
  /\ UNCHANGED <<registry, clock, callVars, createdAt, timeoutAt, dispatchItem, attempts,
                 timeoutItem, worldVars, heard, crashes>>

FinishTimeout(e) ==
  LET r == exec[e].req IN
  /\ exec[e].phase = "finishTimeout"
  /\ timeoutItem' = [timeoutItem EXCEPT ![r] = "completed"]
  /\ exec' = [exec EXCEPT ![e] = Idle]
  /\ UNCHANGED <<registry, clock, callVars, status, createdAt, timeoutAt, dispatchItem,
                 attempts, worldVars, heard, crashes>>

\* The timeout handler's transaction fails until its budget is spent; the
\* failures before the last leave the item as it was.
TimeoutRaises(e, r) ==
  /\ exec[e] = Idle
  /\ timeoutItem[r] = "pending" /\ timeoutAt[r] <= clock
  /\ timeoutItem' = [timeoutItem EXCEPT ![r] = "dead_letter"]
  /\ UNCHANGED <<registry, clock, callVars, status, createdAt, timeoutAt, dispatchItem,
                 attempts, exec, worldVars, heard, crashes>>

\* retry_outbox_item: back to pending with the attempt count it had.
Retried(item, r) == [item EXCEPT ![r] = IF @ = "dead_letter" THEN "pending" ELSE @]

RetryDeadLetter(r) ==
  /\ \/ /\ dispatchItem[r] = "dead_letter"
        /\ dispatchItem' = Retried(dispatchItem, r)
        /\ UNCHANGED timeoutItem
     \/ /\ timeoutItem[r] = "dead_letter"
        /\ timeoutItem' = Retried(timeoutItem, r)
        /\ UNCHANGED dispatchItem
  /\ UNCHANGED <<registry, clock, callVars, status, createdAt, timeoutAt, attempts,
                 exec, worldVars, heard, crashes>>

-----------------------------------------------------------------------------
(* The device, time and the process                                         *)

Outcome(r, ok) ==
  IF Definition[r].ackMode = "command_ack"
  THEN [kind |-> "ack", req |-> r, ok |-> ok]
  ELSE [kind |-> "report", property |-> Definition[r].property, value |-> Definition[r].value]

\* A device without deduplication acts on every copy it gets, a device with
\* a stored command key acts once; either publishes the outcome afterwards.
DeviceExecutes(r) ==
  /\ executed[r] < IF r \in Once \/ sent[r] = 0 THEN sent[r] ELSE 1
  /\ executed' = [executed EXCEPT ![r] = @ + 1]
  /\ messages' = messages \cup {Outcome(r, TRUE)}
  /\ UNCHANGED <<registry, clock, callVars, rowVars, exec, sent, heard, crashes>>

DeviceRefuses(r) ==
  /\ Definition[r].ackMode = "command_ack"
  /\ sent[r] > 0 /\ executed[r] = 0
  /\ messages' = messages \cup {Outcome(r, FALSE)}
  /\ UNCHANGED <<registry, clock, callVars, rowVars, exec, sent, executed, heard, crashes>>

Tick ==
  /\ clock < MaxTime
  /\ clock' = clock + 1
  /\ UNCHANGED <<registry, callVars, rowVars, exec, worldVars, heard, crashes>>

\* A restart loses every coroutine and open transaction; the registry file
\* may have been edited before the process comes back.
Crash(reg) ==
  /\ crashes < MaxCrashes
  /\ crashes' = crashes + 1
  /\ registry' = reg
  /\ exec' = [e \in Executors |-> Idle]
  /\ call' = [r \in Requests |-> IF call[r] = "open" THEN "error" ELSE call[r]]
  /\ UNCHANGED <<clock, verdict, rowVars, worldVars, heard>>

\* The pass dies because the outcome cannot be written: the item stays locked
\* until the lock is stale.
PassDies(e) ==
  /\ exec[e] # Idle /\ crashes < MaxCrashes
  /\ crashes' = crashes + 1
  /\ exec' = [exec EXCEPT ![e] = Idle]
  /\ UNCHANGED <<registry, clock, callVars, rowVars, worldVars, heard>>

Handler(e) ==
  \/ \E r \in Requests : \/ DispatchNoLongerApproved(e, r)
                         \/ DispatchUnregistered(e, r)
                         \/ DispatchAtMostOnce(e, r)
                         \/ DispatchDeviceKey(e, r)
                         \/ DispatchRaises(e, r)
                         \/ RunTimeout(e, r)
                         \/ TimeoutRaises(e, r)
  \/ PublishSucceeds(e)
  \/ \E reached \in BOOLEAN : PublishRaises(e, reached)
  \/ MarkUnsent(e) \/ MarkSent(e) \/ SecondTransactionFails(e)
  \/ Finish(e) \/ FinishTimeout(e)

Next ==
  \/ \E r \in Requests : Deduplicate(r) \/ CheckRequest(r) \/ CommitRequest(r)
  \/ \E r \in Requests, a \in Actors : Confirm(r, a) \/ Cancel(r, a)
  \/ \E m \in messages : ObserveAck(m) \/ IgnoreAck(m) \/ ObserveReport(m)
  \/ \E e \in Executors : Handler(e)
  \/ \E r \in Requests : RetryDeadLetter(r) \/ DeviceExecutes(r) \/ DeviceRefuses(r)
  \/ Tick
  \/ \E e \in Executors : PassDies(e)
  \/ \E reg \in SUBSET Names : Crash(reg)

Spec == Init /\ [][Next]_vars

-----------------------------------------------------------------------------
(* Fairness: the worker loop keeps polling, a coroutine is not suspended    *)
(* forever, time passes.  An item that is due again and again is claimed:   *)
(* claims go by outbox_id and failed items back off.  Clients, the device   *)
(* and operators owe nothing.                                               *)

Dispatch(e, r) == \/ DispatchNoLongerApproved(e, r) \/ DispatchUnregistered(e, r)
                  \/ DispatchAtMostOnce(e, r) \/ DispatchDeviceKey(e, r)

Continue(e) == exec[e] # Idle /\ Handler(e)

FairSpec ==
  /\ Spec
  /\ WF_vars(Tick)
  /\ \A e \in Executors : WF_vars(Continue(e))
  /\ \A r \in Requests : /\ SF_vars(\E e \in Executors : Dispatch(e, r))
                          /\ SF_vars(\E e \in Executors : RunTimeout(e, r))

-----------------------------------------------------------------------------
(* Properties                                                               *)

\* The type of every variable.
TypeOK ==
  /\ registry \in SUBSET Names
  /\ clock \in 0..MaxTime
  /\ call \in [Requests -> {"new", "open", "accepted", "refused", "error"}]
  /\ verdict \in [Requests -> {"none", "accept", "reject"}]
  /\ status \in [Requests -> Statuses]
  /\ createdAt \in [Requests -> 0..MaxTime]
  /\ timeoutAt \in [Requests -> 0..MaxTime]
  /\ dispatchItem \in [Requests -> ItemStatuses]
  /\ attempts \in [Requests -> 0..MaxAttempts]
  /\ timeoutItem \in [Requests -> ItemStatuses]
  /\ exec \in [Executors -> [phase : Phases, req : Requests \cup {NoRequest},
                            attempt : 0..MaxAttempts]]
  /\ \A e \in Executors : exec[e].req = NoRequest <=> exec[e].phase = "idle"
  /\ sent \in [Requests -> 0..MaxSends]
  /\ executed \in [Requests -> Nat]
  /\ messages \subseteq Acks \cup Reports
  /\ heard \subseteq Requests
  /\ crashes \in 0..MaxCrashes

\* A command whose device cannot deduplicate is published at most once,
\* whatever crashes, double claims and failed publishes happen (dispatch_handler).
AtMostOncePublish == \A r \in Once : sent[r] <= 1

\* A request acknowledged by command id is completed only if the device
\* executed that very command (_handle_ack).
CompletionIsBacked ==
  \A r \in Requests :
    status[r] = "completed" /\ Definition[r].ackMode = "command_ack" => executed[r] > 0

\* No live request loses what drives it on: an approved one has a dispatch
\* item, a dispatched one a timeout item, that is queued or visibly dead.
NothingLeftHanging ==
  \A r \in Requests :
    /\ status[r] = "approved" => dispatchItem[r] \in {"pending", "dead_letter"}
    /\ Pending(r) => timeoutItem[r] \in {"pending", "dead_letter"}

\* cancel() of an at_most_once action that is not a mere receipt stops it:
\* the command never leaves, not even from a handler already running.
CancelStopsAtMostOnce ==
  \A r \in Once :
    status[r] = "cancelled" /\ Definition[r].ackSemantics # "receipt_only" => sent[r] = 0

\* Calls with one caller key never make two rows, also when they run at once.
OneRowPerKey ==
  \A r, q \in Requests : r # q /\ SameKey(r, q) => ~ (HasRow(r) /\ HasRow(q))

\* An at_most_once action whose execution acknowledgement came in before it
\* settled is completed, never timed out (mark before publish).
AcknowledgedIsCompleted ==
  \A r \in Once :
    r \in heard /\ Definition[r].ackSemantics = "execution_result" => status[r] = "completed"

\* Two requests of one cooldown scope that were let through were made at
\* least the cooldown apart (_check_cooldown).
CooldownHolds ==
  \A r, q \in Requests :
    /\ r # q /\ Definition[r].scope = Definition[q].scope
    /\ status[r] \notin {"none", "rejected", "cancelled"}
    /\ status[q] \notin {"none", "rejected", "cancelled"}
    /\ createdAt[r] >= createdAt[q]
    => createdAt[r] - createdAt[q] >= Definition[r].cooldown

\* The lifecycle and the publishing rules of the contract.
Contract == INSTANCE ActionContract
ImplementsContract == Contract!ContractSpec

\* Silence never lasts: what was approved is dispatched or dropped, what was
\* dispatched settles, or the work that should do it is dead in view.
RequestsSettle ==
  \A r \in Requests :
    /\ status[r] = "approved" ~> status[r] # "approved" \/ dispatchItem[r] = "dead_letter"
    /\ Pending(r) ~> status[r] \in Terminal \/ timeoutItem[r] = "dead_letter"

(* What a document says and the code does not keep                          *)

\* ACTION-004: only an acknowledged or result-confirmed command completes.
CompletedWasExecuted ==
  \A r \in Requests : status[r] = "completed" => executed[r] > 0

=============================================================================
