----------------------- MODULE ActionLifecycleProofs ------------------------
(***************************************************************************)
(* Proofs about the action service, for any number of requests, worker     *)
(* coroutines, restarts and any registered definitions.                    *)
(*                                                                         *)
(* The argument: a request's command can be on its way to the broker only  *)
(* through a coroutine that claimed its dispatch item.  For an at_most_once *)
(* action that coroutine moved the row out of "approved" first, and no step *)
(* moves a row back, so no second coroutine reaches the publish (RowInv,   *)
(* ExecInv, OnePublisher).  Device messages exist only for commands that   *)
(* were sent (MessageInv).                                                 *)
(***************************************************************************)
EXTENDS ActionLifecycle, TLAPS

\* Past validation and confirmation.
Started(r) == status[r] \notin {"none", "awaiting_confirmation", "rejected"}

RowInv ==
  \A r \in Requests :
    /\ call[r] \in {"new", "open"} => ~ HasRow(r)
    /\ ~ Started(r) => /\ sent[r] = 0
                       /\ dispatchItem[r] = "none" /\ timeoutItem[r] = "none"
    /\ status[r] = "approved" => /\ dispatchItem[r] \in {"pending", "dead_letter"}
                                 /\ timeoutItem[r] = "none"
                                 /\ r \in Once => sent[r] = 0
    /\ Pending(r) => timeoutItem[r] \in {"pending", "dead_letter"}
    /\ status[r] = "acknowledged" => /\ Definition[r].ackSemantics = "receipt_only"
                                     /\ sent[r] > 0
    /\ executed[r] > 0 => sent[r] > 0

ExecInv ==
  \A e \in Executors :
    LET r == exec[e].req IN
    /\ exec[e].phase # "idle" => Started(r)
    /\ exec[e].phase = "publish" /\ r \in Once =>
         sent[r] = 0 /\ status[r] \notin {"approved", "cancelled"}
    /\ exec[e].phase = "unsent" => r \in Once /\ status[r] # "approved"
    /\ exec[e].phase = "mark" => r \notin Once
    /\ exec[e].phase = "finish" => status[r] # "approved"
    /\ exec[e].phase = "finishTimeout" => status[r] \in Terminal

OnePublisher ==
  \A e, f \in Executors :
    /\ exec[e].phase = "publish" /\ exec[f].phase = "publish"
    /\ exec[e].req = exec[f].req /\ exec[e].req \in Once
    => e = f

MessageInv ==
  \A m \in messages :
    m.kind = "ack" => sent[m.req] > 0 /\ (m.ok => executed[m.req] > 0)

IInv ==
  /\ TypeOK
  /\ RowInv
  /\ ExecInv
  /\ OnePublisher
  /\ MessageInv
  /\ AtMostOncePublish
  /\ CompletionIsBacked
  /\ CancelStopsAtMostOnce
  /\ AcknowledgedIsCompleted

LEMMA DefinitionFacts ==
  ASSUME NEW r \in Requests
  PROVE  /\ Definition[r] \in DefinitionType
         /\ Definition[r].name \in Names
         /\ Definition[r].atMostOnce \in BOOLEAN
         /\ Definition[r].confirmation \in BOOLEAN
         /\ Definition[r].timeout \in Nat /\ Definition[r].ttl \in Nat
         /\ Definition[r].cooldown \in Nat
         /\ Definition[r].ackMode \in {"state_confirmation", "command_ack"}
         /\ Definition[r].ackSemantics \in {"state_result", "execution_result", "receipt_only"}
         /\ Definition[r].ackMode = "command_ack" => Definition[r].ackSemantics # "state_result"
         /\ Definition[r].property \in STRING /\ Definition[r].value \in BOOLEAN
BY LifecycleAssumption DEF DefinitionType, Names

LEMMA DeadlineType ==
  ASSUME TypeOK, NEW t \in Nat
  PROVE  Deadline(t) \in 0..MaxTime
BY LifecycleAssumption DEF TypeOK, Deadline

LEMMA BusyFacts ==
  ASSUME TypeOK, NEW e \in Executors, exec[e].phase # "idle"
  PROVE  /\ exec[e].req \in Requests
         /\ exec[e].attempt \in 0..MaxAttempts
BY DEF TypeOK

\* What TypeOK says of the executors.
ExecutorsOK ==
  /\ exec \in [Executors -> [phase : Phases, req : Requests \cup {NoRequest},
                            attempt : 0..MaxAttempts]]
  /\ \A e \in Executors : exec[e].req = NoRequest <=> exec[e].phase = "idle"

LEMMA GotoType ==
  ASSUME TypeOK, NEW e \in Executors, exec[e].phase # "idle",
         NEW p \in Phases, p # "idle", exec' = [exec EXCEPT ![e].phase = p]
  PROVE  ExecutorsOK'
BY DEF TypeOK, ExecutorsOK

LEMMA IdleType ==
  ASSUME TypeOK, NEW e \in Executors, exec' = [exec EXCEPT ![e] = Idle]
  PROVE  ExecutorsOK'
BY LifecycleAssumption DEF TypeOK, ExecutorsOK, Idle, Phases

LEMMA OutcomeType ==
  ASSUME NEW r \in Requests, NEW ok \in BOOLEAN
  PROVE  /\ Outcome(r, ok) \in Acks \cup Reports
         /\ Outcome(r, ok).kind = "ack" => Outcome(r, ok) = [kind |-> "ack", req |-> r, ok |-> ok]
BY DefinitionFacts DEF Outcome, Acks, Reports

LEMMA OutcomeAck ==
  ASSUME NEW r \in Requests, NEW ok \in BOOLEAN, NEW m, m = Outcome(r, ok), m.kind = "ack"
  PROVE  m.req = r /\ m.ok = ok
<1>1. m = [kind |-> "ack", req |-> r, ok |-> ok]
  BY OutcomeType
<1>2. QED
  BY <1>1

LEMMA InitIInv == Init => IInv
BY LifecycleAssumption
   DEF Init, IInv, TypeOK, RowInv, ExecInv, OnePublisher, MessageInv, AtMostOncePublish,
       CompletionIsBacked, CancelStopsAtMostOnce, AcknowledgedIsCompleted, Statuses,
       ItemStatuses, Phases, Idle, Started, HasRow, Pending, Terminal, Once, Acks, Reports

-----------------------------------------------------------------------------
(* Every action preserves IInv.  The parts of the invariant and the sets of *)
(* values are open from here on; an action is opened where it is used.      *)

USE DefinitionFacts, LifecycleAssumption
    DEF IInv, TypeOK, RowInv, ExecInv, OnePublisher, MessageInv, AtMostOncePublish,
        CompletionIsBacked, CancelStopsAtMostOnce, AcknowledgedIsCompleted, Statuses,
        ItemStatuses, Phases, Started, HasRow, Pending, Terminal, Once, Acks, Reports,
        callVars, rowVars, worldVars

LEMMA CheckRequestStep ==
  ASSUME IInv, NEW r \in Requests, CheckRequest(r)
  PROVE  IInv'
BY DEF CheckRequest

LEMMA DeduplicateStep ==
  ASSUME IInv, NEW r \in Requests, Deduplicate(r)
  PROVE  IInv'
BY DEF Deduplicate

LEMMA CommitRequestStep ==
  ASSUME IInv, NEW r \in Requests, CommitRequest(r)
  PROVE  IInv'
<1> USE DEF CommitRequest, ApproveAndQueue
<1>1. TypeOK'
  <2>1. status' \in [Requests -> Statuses]
    OBVIOUS
  <2>2. dispatchItem' \in [Requests -> ItemStatuses]
    OBVIOUS
  <2>3. call' \in [Requests -> {"new", "open", "accepted", "refused", "error"}]
    OBVIOUS
  <2>4. QED
    BY <2>1, <2>2, <2>3
<1>2. RowInv'
  OBVIOUS
<1>3. ExecInv'
  OBVIOUS
<1>4. OnePublisher' /\ MessageInv'
  OBVIOUS
<1>5. AtMostOncePublish' /\ CompletionIsBacked'
  OBVIOUS
<1>6. CancelStopsAtMostOnce' /\ AcknowledgedIsCompleted'
  OBVIOUS
<1>7. QED
  BY <1>1, <1>2, <1>3, <1>4, <1>5, <1>6

LEMMA ConfirmStep ==
  ASSUME IInv, NEW r \in Requests, NEW a \in Actors, Confirm(r, a)
  PROVE  IInv'
<1> USE DEF Confirm, ApproveAndQueue
<1>1. CASE status' = [status EXCEPT ![r] = "cancelled"] /\ UNCHANGED dispatchItem
  BY <1>1
<1>2. CASE status' = [status EXCEPT ![r] = "failed"] /\ UNCHANGED dispatchItem
  BY <1>2
<1>3. CASE status' = [status EXCEPT ![r] = "rejected"] /\ UNCHANGED dispatchItem
  BY <1>3
<1>4. CASE ApproveAndQueue(r)
  BY <1>4
<1>5. QED
  BY <1>1, <1>2, <1>3, <1>4

LEMMA CancelStep ==
  ASSUME IInv, NEW r \in Requests, NEW a \in Actors, Cancel(r, a)
  PROVE  IInv'
BY DEF Cancel, Cancellable

LEMMA ObserveAckStep ==
  ASSUME IInv, NEW m \in messages, ObserveAck(m)
  PROVE  IInv'
BY DEF ObserveAck

LEMMA IgnoreAckStep ==
  ASSUME IInv, NEW m \in messages, IgnoreAck(m)
  PROVE  IInv'
BY DEF IgnoreAck

LEMMA ObserveReportStep ==
  ASSUME IInv, NEW m \in messages, ObserveReport(m)
  PROVE  IInv'
BY DEF ObserveReport, Concerns

LEMMA DispatchNoLongerApprovedStep ==
  ASSUME IInv, NEW e \in Executors, NEW r \in Requests, DispatchNoLongerApproved(e, r)
  PROVE  IInv'
BY DEF DispatchNoLongerApproved, Claim, Start, Idle

LEMMA DispatchUnregisteredStep ==
  ASSUME IInv, NEW e \in Executors, NEW r \in Requests, DispatchUnregistered(e, r)
  PROVE  IInv'
BY DEF DispatchUnregistered, Claim, Start, Idle

LEMMA DispatchAtMostOnceStep ==
  ASSUME IInv, NEW e \in Executors, NEW r \in Requests, DispatchAtMostOnce(e, r)
  PROVE  IInv'
BY DEF DispatchAtMostOnce, Claim, Start, Idle, RecordDispatch, Deadline

LEMMA DispatchDeviceKeyStep ==
  ASSUME IInv, NEW e \in Executors, NEW r \in Requests, DispatchDeviceKey(e, r)
  PROVE  IInv'
BY DEF DispatchDeviceKey, Claim, Start, Idle

LEMMA PublishSucceedsStep ==
  ASSUME IInv, NEW e \in Executors, PublishSucceeds(e)
  PROVE  IInv'
<1> DEFINE r == exec[e].req
<1>1. r \in Requests /\ exec[e].phase = "publish"
  BY BusyFacts DEF PublishSucceeds
<1>2. exec' = [exec EXCEPT ![e].phase = IF r \in Once THEN "finish" ELSE "mark"]
  BY DEF PublishSucceeds, Goto
<1>3. TypeOK'
  <2>1. ExecutorsOK'
    BY <1>1, <1>2, GotoType
  <2>2. QED
    BY <1>1, <2>1 DEF PublishSucceeds, Sent, ExecutorsOK
<1>4. RowInv' /\ MessageInv'
  BY <1>1 DEF PublishSucceeds, Sent
<1>5. ExecInv'
  BY <1>1, <1>2 DEF PublishSucceeds, Sent
<1>6. OnePublisher'
  BY <1>1, <1>2 DEF PublishSucceeds
<1>7. AtMostOncePublish' /\ CancelStopsAtMostOnce'
  BY <1>1 DEF PublishSucceeds, Sent
<1>8. CompletionIsBacked' /\ AcknowledgedIsCompleted'
  BY <1>1 DEF PublishSucceeds
<1>9. QED
  BY <1>3, <1>4, <1>5, <1>6, <1>7, <1>8

LEMMA PublishRaisesStep ==
  ASSUME IInv, NEW e \in Executors, NEW reached \in BOOLEAN, PublishRaises(e, reached)
  PROVE  IInv'
<1> DEFINE r == exec[e].req
<1>1. r \in Requests /\ exec[e].phase = "publish"
  BY BusyFacts DEF PublishRaises
<1>2. CASE r \in Once
  <2>1. /\ exec' = [exec EXCEPT ![e].phase = "unsent"]
        /\ UNCHANGED <<dispatchItem, attempts>>
    BY <1>2 DEF PublishRaises, Goto
  <2>2. TypeOK'
    <3>1. ExecutorsOK'
      BY <1>1, <2>1, GotoType
    <3>2. QED
      BY <1>1, <2>1, <3>1 DEF PublishRaises, Sent, ExecutorsOK
  <2>3. RowInv' /\ ExecInv'
    BY <1>1, <1>2, <2>1 DEF PublishRaises, Sent
  <2>4. OnePublisher' /\ MessageInv'
    BY <1>1, <1>2, <2>1 DEF PublishRaises, Sent
  <2>5. AtMostOncePublish' /\ CancelStopsAtMostOnce'
    BY <1>1, <1>2, <2>1 DEF PublishRaises, Sent
  <2>6. CompletionIsBacked' /\ AcknowledgedIsCompleted'
    BY <1>1, <1>2, <2>1 DEF PublishRaises
  <2>7. QED
    BY <2>2, <2>3, <2>4, <2>5, <2>6
<1>3. CASE r \notin Once
  <2>1. RecordFailure(r, exec[e].attempt) /\ exec' = [exec EXCEPT ![e] = Idle]
    BY <1>3 DEF PublishRaises
  <2>2. TypeOK'
    <3>1. ExecutorsOK'
      BY <2>1, IdleType
    <3>2. QED
      BY <1>1, <2>1, <3>1 DEF PublishRaises, Sent, RecordFailure, ExecutorsOK
  <2>3. RowInv' /\ ExecInv'
    BY <1>1, <1>3, <2>1 DEF PublishRaises, Sent, RecordFailure, Idle
  <2>4. OnePublisher' /\ MessageInv'
    BY <1>1, <1>3, <2>1 DEF PublishRaises, Sent, Idle
  <2>5. AtMostOncePublish' /\ CancelStopsAtMostOnce'
    BY <1>1, <1>3, <2>1 DEF PublishRaises, Sent
  <2>6. CompletionIsBacked' /\ AcknowledgedIsCompleted'
    BY <1>1, <1>3, <2>1 DEF PublishRaises
  <2>7. QED
    BY <2>2, <2>3, <2>4, <2>5, <2>6
<1>4. QED
  BY <1>2, <1>3

LEMMA MarkUnsentStep ==
  ASSUME IInv, NEW e \in Executors, MarkUnsent(e)
  PROVE  IInv'
<1> DEFINE r == exec[e].req
<1>1. r \in Requests /\ exec[e].phase = "unsent"
  BY BusyFacts DEF MarkUnsent
<1>2. exec' = [exec EXCEPT ![e].phase = "finish"]
  BY DEF MarkUnsent, Goto
<1>3. TypeOK'
  <2>1. ExecutorsOK'
    BY <1>1, <1>2, GotoType
  <2>2. QED
    BY <1>1, <2>1 DEF MarkUnsent, ExecutorsOK
<1>4. RowInv' /\ OnePublisher'
  BY <1>1, <1>2 DEF MarkUnsent
<1>5. ExecInv'
  BY <1>1, <1>2 DEF MarkUnsent
<1>6. AtMostOncePublish' /\ CompletionIsBacked' /\ MessageInv'
  BY <1>1 DEF MarkUnsent
<1>7. CancelStopsAtMostOnce' /\ AcknowledgedIsCompleted'
  BY <1>1 DEF MarkUnsent
<1>8. QED
  BY <1>3, <1>4, <1>5, <1>6, <1>7

LEMMA MarkSentStep ==
  ASSUME IInv, NEW e \in Executors, MarkSent(e)
  PROVE  IInv'
<1> DEFINE r == exec[e].req
<1>1. r \in Requests /\ exec[e].phase = "mark"
  BY BusyFacts DEF MarkSent
<1>2. exec' = [exec EXCEPT ![e].phase = "finish"]
  BY DEF MarkSent, Goto
<1>0. ExecutorsOK'
  BY <1>1, <1>2, GotoType
<1>3. CASE status[r] = "approved"
  <2>1. Deadline(Definition[r].timeout) \in 0..MaxTime
    BY <1>1, DeadlineType
  <2>2. /\ status' = [status EXCEPT ![r] = "dispatched"]
        /\ timeoutItem' = [timeoutItem EXCEPT ![r] = IF @ = "none" THEN "pending" ELSE @]
        /\ timeoutAt' = [timeoutAt EXCEPT ![r] = Deadline(Definition[r].timeout)]
    BY <1>3 DEF MarkSent, RecordDispatch
  <2>3. TypeOK'
    BY <1>1, <2>1, <2>2, <1>0 DEF MarkSent, ExecutorsOK
  <2>4. RowInv' /\ ExecInv'
    BY <1>1, <1>2, <1>3, <2>2 DEF MarkSent
  <2>5. OnePublisher' /\ MessageInv'
    BY <1>1, <1>2 DEF MarkSent
  <2>6. AtMostOncePublish' /\ CompletionIsBacked'
    BY <1>1, <2>2 DEF MarkSent
  <2>7. CancelStopsAtMostOnce' /\ AcknowledgedIsCompleted'
    BY <1>1, <1>3, <2>2 DEF MarkSent
  <2>8. QED
    BY <2>3, <2>4, <2>5, <2>6, <2>7
<1>4. CASE status[r] # "approved"
  <2>1. UNCHANGED <<status, timeoutItem, timeoutAt>>
    BY <1>4 DEF MarkSent
  <2>2. TypeOK'
    BY <1>0, <2>1 DEF MarkSent, ExecutorsOK
  <2>3. UNCHANGED <<registry, clock, callVars, createdAt, dispatchItem, attempts,
                    worldVars, heard, crashes>>
    BY DEF MarkSent
  <2>4. RowInv' /\ MessageInv'
    BY <2>1, <2>3
  <2>5. ExecInv'
    <3>1. \A f \in Executors \ {e} : exec'[f] = exec[f]
      BY <1>2
    <3>2. exec'[e].phase = "finish" /\ exec'[e].req = r
      BY <1>1, <1>2
    <3>3. Started(r) /\ status[r] # "approved"
      BY <1>1, <1>4
    <3>4. UNCHANGED <<status, timeoutItem, timeoutAt, sent>>
      BY <2>1, <2>3
    <3> HIDE DEF Started
    <3>5. Started(r)' /\ (\A f \in Executors : Started(exec[f].req) => Started(exec[f].req)')
      BY <3>1, <3>2, <3>3, <3>4 DEF Started
    <3>6. QED
      BY <3>1, <3>2, <3>3, <3>4, <3>5
  <2>6. OnePublisher'
    BY <1>1, <1>2, <2>3
  <2>7. /\ AtMostOncePublish' /\ CompletionIsBacked'
        /\ CancelStopsAtMostOnce' /\ AcknowledgedIsCompleted'
    BY <2>1, <2>3
  <2>8. QED
    BY <2>2, <2>4, <2>5, <2>6, <2>7
<1>5. QED
  BY <1>3, <1>4

LEMMA SecondTransactionFailsStep ==
  ASSUME IInv, NEW e \in Executors, SecondTransactionFails(e)
  PROVE  IInv'
BY DEF SecondTransactionFails, RecordFailure, Idle

LEMMA FinishStep ==
  ASSUME IInv, NEW e \in Executors, Finish(e)
  PROVE  IInv'
BY DEF Finish, Idle

LEMMA RunTimeoutStep ==
  ASSUME IInv, NEW e \in Executors, NEW r \in Requests, RunTimeout(e, r)
  PROVE  IInv'
BY DEF RunTimeout, Start, Idle

LEMMA FinishTimeoutStep ==
  ASSUME IInv, NEW e \in Executors, FinishTimeout(e)
  PROVE  IInv'
<1> DEFINE r == exec[e].req
<1>1. r \in Requests /\ exec[e].phase = "finishTimeout"
  BY BusyFacts DEF FinishTimeout
<1>2. status[r] \in Terminal
  BY <1>1
<1>3. TypeOK'
  <2>1. ExecutorsOK'
    BY IdleType DEF FinishTimeout
  <2>2. QED
    BY <1>1, <2>1 DEF FinishTimeout, ExecutorsOK
<1>4. RowInv'
  BY <1>1, <1>2 DEF FinishTimeout
<1>5. ExecInv' /\ OnePublisher'
  BY <1>1 DEF FinishTimeout, Idle
<1>6. QED
  BY <1>3, <1>4, <1>5 DEF FinishTimeout

LEMMA RetryDeadLetterStep ==
  ASSUME IInv, NEW r \in Requests, RetryDeadLetter(r)
  PROVE  IInv'
<1>1. ASSUME dispatchItem[r] = "dead_letter",
             dispatchItem' = [dispatchItem EXCEPT ![r] = "pending"], UNCHANGED timeoutItem
      PROVE  IInv'
  BY <1>1 DEF RetryDeadLetter
<1>2. ASSUME timeoutItem[r] = "dead_letter",
             timeoutItem' = [timeoutItem EXCEPT ![r] = "pending"], UNCHANGED dispatchItem
      PROVE  IInv'
  BY <1>2 DEF RetryDeadLetter
<1>3. QED
  BY <1>1, <1>2 DEF RetryDeadLetter, Retried

LEMMA DispatchRaisesStep ==
  ASSUME IInv, NEW e \in Executors, NEW r \in Requests, DispatchRaises(e, r)
  PROVE  IInv'
BY DEF DispatchRaises, Claim, RecordFailure, Idle

LEMMA TimeoutRaisesStep ==
  ASSUME IInv, NEW e \in Executors, NEW r \in Requests, TimeoutRaises(e, r)
  PROVE  IInv'
BY DEF TimeoutRaises

LEMMA PassDiesStep ==
  ASSUME IInv, NEW e \in Executors, PassDies(e)
  PROVE  IInv'
BY DEF PassDies, Idle

LEMMA DeviceExecutesStep ==
  ASSUME IInv, NEW r \in Requests, DeviceExecutes(r)
  PROVE  IInv'
<1> USE DEF DeviceExecutes
<1>0. Outcome(r, TRUE) \in Acks \cup Reports
  BY OutcomeType
<1>1. TypeOK'
  <2>1. messages' \subseteq Acks \cup Reports
    <3>1. messages' = messages \cup {Outcome(r, TRUE)}
      OBVIOUS
    <3>2. messages \subseteq Acks \cup Reports
      OBVIOUS
    <3>3. QED
      BY ONLY <1>0, <3>1, <3>2
  <2>2. executed' \in [Requests -> Nat]
    OBVIOUS
  <2>3. QED
    BY <2>1, <2>2
<1>2. RowInv'
  OBVIOUS
<1>3. ExecInv'
  OBVIOUS
<1>4. OnePublisher' /\ MessageInv'
  <2>1. OnePublisher'
    OBVIOUS
  <2>2. ASSUME NEW m \in messages', m.kind = "ack"
        PROVE  sent'[m.req] > 0 /\ (m.ok => executed'[m.req] > 0)
    <3>1. CASE m \in messages
      BY <2>2, <3>1
    <3>2. CASE m = Outcome(r, TRUE)
      <4>1. m.req = r /\ m.ok = TRUE
        BY ONLY OutcomeAck, <2>2, <3>2
      <4>2. sent[r] > 0 /\ sent' = sent /\ executed'[r] > 0
        OBVIOUS
      <4>3. QED
        BY <4>1, <4>2
    <3>3. QED
      BY <2>2, <3>1, <3>2
  <2>3. QED
    BY <2>1, <2>2
<1>5. AtMostOncePublish' /\ CompletionIsBacked'
  OBVIOUS
<1>6. CancelStopsAtMostOnce' /\ AcknowledgedIsCompleted'
  OBVIOUS
<1>7. QED
  BY <1>1, <1>2, <1>3, <1>4, <1>5, <1>6

LEMMA DeviceRefusesStep ==
  ASSUME IInv, NEW r \in Requests, DeviceRefuses(r)
  PROVE  IInv'
<1> USE DEF DeviceRefuses
<1>0. Outcome(r, FALSE) \in Acks \cup Reports
  BY OutcomeType
<1>1. TypeOK'
  <2>1. messages' \subseteq Acks \cup Reports
    <3>1. messages' = messages \cup {Outcome(r, FALSE)}
      OBVIOUS
    <3>2. messages \subseteq Acks \cup Reports
      OBVIOUS
    <3>3. QED
      BY ONLY <1>0, <3>1, <3>2
  <2>2. UNCHANGED <<registry, clock, callVars, rowVars, exec, sent, executed, heard, crashes>>
    OBVIOUS
  <2> HIDE DEF DeviceRefuses
  <2>3. QED
    BY <2>1, <2>2
<1>2. RowInv'
  OBVIOUS
<1>3. ExecInv'
  OBVIOUS
<1>4. OnePublisher' /\ MessageInv'
  <2>1. OnePublisher'
    OBVIOUS
  <2>2. ASSUME NEW m \in messages', m.kind = "ack"
        PROVE  sent'[m.req] > 0 /\ (m.ok => executed'[m.req] > 0)
    <3>1. CASE m \in messages
      BY <2>2, <3>1
    <3>2. CASE m = Outcome(r, FALSE)
      <4>1. m.req = r /\ m.ok = FALSE
        BY ONLY OutcomeAck, <2>2, <3>2
      <4>2. sent[r] > 0 /\ sent' = sent
        OBVIOUS
      <4>3. QED
        BY <4>1, <4>2
    <3>3. QED
      BY <2>2, <3>1, <3>2
  <2>3. QED
    BY <2>1, <2>2
<1>5. AtMostOncePublish' /\ CompletionIsBacked'
  OBVIOUS
<1>6. CancelStopsAtMostOnce' /\ AcknowledgedIsCompleted'
  OBVIOUS
<1>7. QED
  BY <1>1, <1>2, <1>3, <1>4, <1>5, <1>6

LEMMA TickStep ==
  ASSUME IInv, Tick
  PROVE  IInv'
BY DEF Tick

LEMMA CrashStep ==
  ASSUME IInv, NEW reg \in SUBSET Names, Crash(reg)
  PROVE  IInv'
BY DEF Crash, Idle

LEMMA StutterStep == ASSUME IInv, UNCHANGED vars PROVE IInv'
BY DEF vars

HIDE DEF IInv, TypeOK, RowInv, ExecInv, OnePublisher, MessageInv, AtMostOncePublish,
         CompletionIsBacked, CancelStopsAtMostOnce, AcknowledgedIsCompleted, Statuses,
         ItemStatuses, Phases, Started, HasRow, Pending, Terminal, Once, Acks, Reports,
         callVars, rowVars, worldVars

LEMMA StepIInv == IInv /\ [Next]_vars => IInv'
<1> SUFFICES ASSUME IInv, [Next]_vars PROVE IInv'
  OBVIOUS
<1>1. ASSUME NEW r \in Requests, Deduplicate(r) \/ CheckRequest(r) \/ CommitRequest(r)
      PROVE  IInv'
  BY <1>1, DeduplicateStep, CheckRequestStep, CommitRequestStep
<1>2. ASSUME NEW r \in Requests, NEW a \in Actors, Confirm(r, a) \/ Cancel(r, a)
      PROVE  IInv'
  BY <1>2, ConfirmStep, CancelStep
<1>3. ASSUME NEW m \in messages, ObserveAck(m) \/ IgnoreAck(m) \/ ObserveReport(m)
      PROVE  IInv'
  BY <1>3, ObserveAckStep, IgnoreAckStep, ObserveReportStep
<1>4. ASSUME NEW e \in Executors, Handler(e)
      PROVE  IInv'
  BY <1>4, DispatchNoLongerApprovedStep, DispatchUnregisteredStep, DispatchAtMostOnceStep,
     DispatchDeviceKeyStep, DispatchRaisesStep, RunTimeoutStep, TimeoutRaisesStep, PublishSucceedsStep, PublishRaisesStep,
     MarkUnsentStep, MarkSentStep, SecondTransactionFailsStep, FinishStep, FinishTimeoutStep
     DEF Handler
<1>5. ASSUME NEW r \in Requests, RetryDeadLetter(r) \/ DeviceExecutes(r) \/ DeviceRefuses(r)
      PROVE  IInv'
  BY <1>5, RetryDeadLetterStep, DeviceExecutesStep, DeviceRefusesStep
<1>6. ASSUME Tick PROVE IInv'
  BY <1>6, TickStep
<1>7. ASSUME NEW reg \in SUBSET Names, Crash(reg) PROVE IInv'
  BY <1>7, CrashStep
<1>8. ASSUME NEW e \in Executors, PassDies(e) PROVE IInv'
  BY <1>8, PassDiesStep
<1>9. ASSUME UNCHANGED vars PROVE IInv'
  BY <1>9, StutterStep
<1>10. QED
  BY <1>1, <1>2, <1>3, <1>4, <1>5, <1>6, <1>7, <1>8, <1>9 DEF Next

-----------------------------------------------------------------------------
(* What follows for every behaviour                                         *)

\* The strengthened invariant holds in every reachable state of the service.
THEOREM InductiveInvariant == Spec => []IInv
<1>1. Init => IInv
  BY InitIInv
<1>2. IInv /\ [Next]_vars => IInv'
  BY StepIInv
<1>3. QED
  BY <1>1, <1>2, PTL DEF Spec

\* Every variable of the service keeps its type.
THEOREM TypeCorrect == Spec => []TypeOK
<1>1. IInv => TypeOK
  BY DEF IInv
<1>2. QED
  BY <1>1, InductiveInvariant, PTL

\* A command the device cannot deduplicate is published at most once, for any
\* number of workers, restarts, failed publishes and operator retries.
THEOREM PublishedAtMostOnce == Spec => []AtMostOncePublish
<1>1. IInv => AtMostOncePublish
  BY DEF IInv
<1>2. QED
  BY <1>1, InductiveInvariant, PTL

\* A cancelled at_most_once command never leaves, whatever was running when
\* cancel() committed.
THEOREM CancelIsFinal == Spec => []CancelStopsAtMostOnce
<1>1. IInv => CancelStopsAtMostOnce
  BY DEF IInv
<1>2. QED
  BY <1>1, InductiveInvariant, PTL

\* A request confirmed by command acknowledgement is completed only after the
\* device executed that command.
THEOREM CompletedWasBacked == Spec => []CompletionIsBacked
<1>1. IInv => CompletionIsBacked
  BY DEF IInv
<1>2. QED
  BY <1>1, InductiveInvariant, PTL

\* No execution acknowledgement of an at_most_once command is lost to a
\* status write that comes later.
THEOREM AcknowledgementsCount == Spec => []AcknowledgedIsCompleted
<1>1. IInv => AcknowledgedIsCompleted
  BY DEF IInv
<1>2. QED
  BY <1>1, InductiveInvariant, PTL

\* Every approved request keeps its dispatch item, every dispatched one its timeout.
THEOREM NothingIsLost == Spec => []NothingLeftHanging
<1>1. IInv => NothingLeftHanging
  BY DEF IInv, RowInv, NothingLeftHanging
<1>2. QED
  BY <1>1, InductiveInvariant, PTL

-----------------------------------------------------------------------------
(* One row per caller key: only the commit of request() makes a row.        *)

LEMMA OnlyCommitMakesRows ==
  ASSUME IInv, [Next]_vars, NEW r \in Requests, ~ HasRow(r), HasRow(r)'
  PROVE  CommitRequest(r)
<1> USE DEF HasRow, IInv, TypeOK
<1>1. ASSUME NEW q \in Requests, Deduplicate(q) \/ CheckRequest(q) \/ CommitRequest(q)
      PROVE  CommitRequest(r)
  BY <1>1 DEF Deduplicate, CheckRequest, CommitRequest, ApproveAndQueue, rowVars
<1>2. ASSUME NEW q \in Requests, NEW a \in Actors, Confirm(q, a) \/ Cancel(q, a)
      PROVE  FALSE
  BY <1>2 DEF Confirm, Cancel, Cancellable, ApproveAndQueue
<1>3. ASSUME NEW m \in messages, ObserveAck(m) \/ IgnoreAck(m) \/ ObserveReport(m)
      PROVE  FALSE
  BY <1>3 DEF ObserveAck, IgnoreAck, ObserveReport, Concerns, Pending, rowVars
<1>4. ASSUME NEW e \in Executors, Handler(e)
      PROVE  FALSE
  <2>1. ASSUME NEW q \in Requests,
               \/ DispatchNoLongerApproved(e, q) \/ DispatchUnregistered(e, q)
               \/ DispatchAtMostOnce(e, q) \/ DispatchDeviceKey(e, q) \/ RunTimeout(e, q)
        PROVE  FALSE
    BY <2>1 DEF DispatchNoLongerApproved, DispatchUnregistered, DispatchAtMostOnce,
                DispatchDeviceKey, RunTimeout, RecordDispatch, Pending, rowVars
  <2>2. ASSUME MarkUnsent(e) \/ MarkSent(e) PROVE FALSE
    BY <2>2 DEF MarkUnsent, MarkSent, RecordDispatch
  <2>3. QED
    BY <1>4, <2>1, <2>2 DEF Handler, PublishSucceeds, PublishRaises, SecondTransactionFails,
                            DispatchRaises, TimeoutRaises, Finish, FinishTimeout, rowVars
<1>5. ASSUME NEW q \in Requests, RetryDeadLetter(q) \/ DeviceExecutes(q) \/ DeviceRefuses(q)
      PROVE  FALSE
  BY <1>5 DEF RetryDeadLetter, DeviceExecutes, DeviceRefuses, rowVars
<1>6. ASSUME Tick PROVE FALSE
  BY <1>6 DEF Tick, rowVars
<1>7. ASSUME NEW reg \in SUBSET Names, Crash(reg) PROVE FALSE
  BY <1>7 DEF Crash, rowVars
<1>8. ASSUME NEW e \in Executors, PassDies(e) PROVE FALSE
  BY <1>8 DEF PassDies, rowVars
<1>9. ASSUME UNCHANGED vars PROVE FALSE
  BY <1>9 DEF vars, rowVars
<1>10. QED
  BY <1>1, <1>2, <1>3, <1>4, <1>5, <1>6, <1>7, <1>8, <1>9 DEF Next

\* Two calls of request() with the same caller key never both make a row, however
\* their transactions overlap.
THEOREM KeysAreUnique == Spec => []OneRowPerKey
<1>1. Init => OneRowPerKey
  BY DEF Init, OneRowPerKey, HasRow
<1>2. IInv /\ OneRowPerKey /\ [Next]_vars => OneRowPerKey'
  <2> SUFFICES ASSUME IInv, OneRowPerKey, [Next]_vars,
                      NEW r \in Requests, NEW q \in Requests,
                      r # q, SameKey(r, q), HasRow(r)', HasRow(q)'
               PROVE  FALSE
    BY DEF OneRowPerKey, SameKey
  <2>0. SameKey(q, r)
    BY DEF SameKey
  <2>1. ASSUME NEW a \in Requests, NEW b \in Requests, a # b, SameKey(a, b),
               HasRow(b), ~ HasRow(a), HasRow(a)'
        PROVE  FALSE
    BY <2>1, OnlyCommitMakesRows DEF CommitRequest, KeyTaken, HasRow
  <2>2. CASE ~ HasRow(r) /\ ~ HasRow(q)
    <3>1. CommitRequest(r) /\ CommitRequest(q)
      BY <2>2, OnlyCommitMakesRows
    <3>2. call[r] # call'[r] /\ call[q] # call'[q]
      BY <3>1 DEF CommitRequest, IInv, TypeOK
    <3>3. \A x \in Requests : x # r => call'[x] = call[x]
      BY <3>1 DEF CommitRequest, IInv, TypeOK
    <3>4. QED
      BY <3>2, <3>3
  <2>3. QED
    BY <2>0, <2>1, <2>2 DEF OneRowPerKey
<1>3. QED
  BY <1>1, <1>2, InductiveInvariant, PTL DEF Spec

-----------------------------------------------------------------------------
(* Refinement: every step is a step of the contract or changes nothing in it *)

ContractVars == <<status, sent>>

LEMMA MoveOne ==
  ASSUME TypeOK, NEW r \in Requests, NEW s \in Statuses,
         s \in Contract!Successors(status[r]),
         status' = [status EXCEPT ![r] = s], UNCHANGED sent
  PROVE  Contract!Advance
<1> DEFINE S == {r}
           new == [x \in S |-> s]
<1>1. S \in SUBSET Requests /\ new \in [S -> Contract!Statuses]
  BY DEF Contract!Statuses, Statuses, Contract!Terminal, Terminal
<1>2. \A x \in S : new[x] \in Contract!Successors(status[x])
  OBVIOUS
<1>3. status' = [x \in Requests |-> IF x \in S THEN new[x] ELSE status[x]]
  BY DEF TypeOK
<1>4. QED
  BY <1>1, <1>2, <1>3 DEF Contract!Advance

LEMMA MoveSettled ==
  ASSUME TypeOK, NEW m \in messages, ObserveReport(m)
  PROVE  Contract!Advance
<1> DEFINE S == {r \in Requests : Concerns(m, r)}
           new == [r \in S |-> IF Definition[r].value = m.value THEN "completed" ELSE "failed"]
<1>1. S \in SUBSET Requests /\ new \in [S -> Contract!Statuses]
  BY DEF Contract!Statuses, Contract!Terminal
<1>2. \A r \in S : new[r] \in Contract!Successors(status[r])
  BY DEF Concerns, Contract!Successors
<1>3. status' = [r \in Requests |-> IF r \in S THEN new[r] ELSE status[r]]
  BY DEF ObserveReport
<1>4. UNCHANGED sent
  BY DEF ObserveReport, worldVars
<1>5. QED
  BY <1>1, <1>2, <1>3, <1>4 DEF Contract!Advance

LEMMA SendOne ==
  ASSUME IInv, NEW e \in Executors, exec[e].phase = "publish", UNCHANGED status,
         sent' = [sent EXCEPT ![exec[e].req] = Sent(@)]
  PROVE  [Contract!ContractNext]_ContractVars
<1> DEFINE r == exec[e].req
<1>1. r \in Requests /\ Started(r)
  BY BusyFacts DEF IInv, ExecInv
<1>2. r \in Once => sent[r] = 0 /\ status[r] \notin {"approved", "cancelled"}
  BY DEF IInv, ExecInv
<1>3. sent \in [Requests -> 0..MaxSends]
  BY DEF IInv, TypeOK
<1>4. CASE sent[r] < MaxSends
  <2>1. sent' = [sent EXCEPT ![r] = @ + 1]
    BY <1>1, <1>3, <1>4 DEF Sent
  <2>2. Contract!Send(r)
    BY <1>1, <1>2, <2>1 DEF Contract!Send, Started
  <2>3. QED
    BY <1>1, <2>2 DEF Contract!ContractNext
<1>5. CASE ~ sent[r] < MaxSends
  BY <1>1, <1>3, <1>5 DEF Sent, ContractVars
<1>6. QED
  BY <1>4, <1>5

LEMMA StepRefines ==
  ASSUME IInv, [Next]_vars
  PROVE  [Contract!ContractNext]_ContractVars
<1> USE DEF ContractVars
<1>0. TypeOK
  BY DEF IInv
<1>1. ASSUME Contract!Advance PROVE Contract!ContractNext
  BY <1>1 DEF Contract!ContractNext
<1>2. ASSUME UNCHANGED <<status, sent>> PROVE [Contract!ContractNext]_ContractVars
  BY <1>2
<1>3. ASSUME NEW r \in Requests, NEW s \in Statuses,
             s \in Contract!Successors(status[r]),
             status' = [status EXCEPT ![r] = s], UNCHANGED sent
      PROVE  Contract!ContractNext
  BY ONLY <1>0, <1>1, <1>3, MoveOne
<1>4. ASSUME NEW r \in Requests, Deduplicate(r) \/ CheckRequest(r) \/ CommitRequest(r)
      PROVE  [Contract!ContractNext]_ContractVars
  <2>1. CASE Deduplicate(r) \/ CheckRequest(r)
    BY <1>2, <2>1 DEF Deduplicate, CheckRequest, rowVars, worldVars
  <2>2. CASE CommitRequest(r)
    <3>1. UNCHANGED sent
      BY <2>2 DEF CommitRequest, worldVars
    <3>2. call[r] = "open" => status[r] = "none"
      BY DEF IInv, RowInv, HasRow
    <3>3. \/ UNCHANGED status
          \/ \E s \in {"rejected", "awaiting_confirmation", "approved"} :
               status' = [status EXCEPT ![r] = s]
      BY <2>2 DEF CommitRequest, ApproveAndQueue
    <3>4. QED
      BY <1>2, <1>3, <2>2, <3>1, <3>2, <3>3
         DEF CommitRequest, Contract!Successors, Statuses, Terminal
  <2>3. QED
    BY <1>4, <2>1, <2>2
<1>5. ASSUME NEW r \in Requests, NEW a \in Actors, Confirm(r, a) \/ Cancel(r, a)
      PROVE  [Contract!ContractNext]_ContractVars
  <2>1. CASE Confirm(r, a)
    <3>1. UNCHANGED sent /\ status[r] = "awaiting_confirmation"
      BY <2>1 DEF Confirm, worldVars
    <3>2. \E s \in {"cancelled", "failed", "rejected", "approved"} :
            status' = [status EXCEPT ![r] = s]
      BY <2>1 DEF Confirm, ApproveAndQueue
    <3>3. QED
      BY <1>3, <3>1, <3>2 DEF Contract!Successors, Statuses, Terminal
  <2>2. CASE Cancel(r, a)
    <3>1. /\ UNCHANGED sent
          /\ status[r] \in {"awaiting_confirmation", "approved", "acknowledged"}
          /\ status' = [status EXCEPT ![r] = "cancelled"]
      BY <1>0, <2>2 DEF Cancel, Cancellable, worldVars, TypeOK, Statuses
    <3>2. QED
      BY <1>3, <3>1 DEF Contract!Successors, Statuses, Terminal
  <2>3. QED
    BY <1>5, <2>1, <2>2
<1>6. ASSUME NEW m \in messages, ObserveAck(m) \/ IgnoreAck(m) \/ ObserveReport(m)
      PROVE  [Contract!ContractNext]_ContractVars
  <2>1. CASE ObserveAck(m)
    <3>1. m.req \in Requests
      BY <1>0, <2>1 DEF ObserveAck, TypeOK, Acks, Reports
    <3>2. /\ UNCHANGED sent /\ status[m.req] \in {"dispatched", "acknowledged"}
          /\ \E s \in {"failed", "completed", "acknowledged"} :
               status' = [status EXCEPT ![m.req] = s]
      BY <2>1 DEF ObserveAck, Pending, worldVars
    <3>3. QED
      BY <1>3, <3>1, <3>2 DEF Contract!Successors, Statuses, Terminal
  <2>2. CASE IgnoreAck(m)
    BY <1>2, <2>2 DEF IgnoreAck, rowVars, worldVars
  <2>3. CASE ObserveReport(m)
    BY <1>0, <1>1, <2>3, MoveSettled
  <2>4. QED
    BY <1>6, <2>1, <2>2, <2>3
<1>7. ASSUME NEW e \in Executors, Handler(e)
      PROVE  [Contract!ContractNext]_ContractVars
  <2>1. ASSUME NEW r \in Requests,
               \/ DispatchNoLongerApproved(e, r) \/ DispatchUnregistered(e, r)
               \/ DispatchAtMostOnce(e, r) \/ DispatchDeviceKey(e, r)
        PROVE  [Contract!ContractNext]_ContractVars
    <3>1. UNCHANGED sent
      BY <2>1 DEF DispatchNoLongerApproved, DispatchUnregistered, DispatchAtMostOnce,
                  DispatchDeviceKey, worldVars
    <3>2. \/ UNCHANGED status
          \/ status[r] = "approved" /\ \E s \in {"failed", "dispatched"} :
                                         status' = [status EXCEPT ![r] = s]
      BY <2>1 DEF DispatchNoLongerApproved, DispatchUnregistered, DispatchAtMostOnce,
                  DispatchDeviceKey, RecordDispatch, rowVars
    <3>3. QED
      BY <1>2, <1>3, <3>1, <3>2 DEF Contract!Successors, Statuses, Terminal
  <2>2. ASSUME NEW r \in Requests, RunTimeout(e, r)
        PROVE  [Contract!ContractNext]_ContractVars
    <3>1. UNCHANGED sent
      BY <2>2 DEF RunTimeout, worldVars
    <3>2. \/ UNCHANGED status
          \/ Pending(r) /\ status' = [status EXCEPT ![r] = "timed_out"]
      BY <1>0, <2>2 DEF RunTimeout, TypeOK
    <3>3. QED
      BY <1>2, <1>3, <3>1, <3>2 DEF Contract!Successors, Statuses, Terminal, Pending
  <2>3. ASSUME NEW reached \in BOOLEAN, PublishSucceeds(e) \/ PublishRaises(e, reached)
        PROVE  [Contract!ContractNext]_ContractVars
    <3>1. exec[e].phase = "publish" /\ UNCHANGED status
      BY <2>3 DEF PublishSucceeds, PublishRaises, rowVars
    <3>2. UNCHANGED sent \/ sent' = [sent EXCEPT ![exec[e].req] = Sent(@)]
      BY <1>0, <2>3 DEF PublishSucceeds, PublishRaises, TypeOK
    <3>3. QED
      BY <1>2, <3>1, <3>2, SendOne
  <2>4. CASE MarkUnsent(e) \/ MarkSent(e)
    <3>1. UNCHANGED sent /\ exec[e].phase # "idle"
      BY <2>4 DEF MarkUnsent, MarkSent, worldVars
    <3>2. exec[e].req \in Requests
      BY <1>0, <3>1, BusyFacts
    <3>3. \/ UNCHANGED status
          \/ \E r \in Requests :
               \/ status[r] = "approved" /\ status' = [status EXCEPT ![r] = "dispatched"]
               \/ status[r] = "dispatched" /\ status' = [status EXCEPT ![r] = "failed"]
      BY <1>0, <2>4, <3>2 DEF MarkUnsent, MarkSent, RecordDispatch, TypeOK
    <3>4. QED
      BY <1>2, <1>3, <3>1, <3>3 DEF Contract!Successors, Statuses, Terminal
  <2>5. CASE SecondTransactionFails(e) \/ Finish(e) \/ FinishTimeout(e)
    BY <1>2, <2>5 DEF SecondTransactionFails, Finish, FinishTimeout, worldVars
  <2>6. ASSUME NEW r \in Requests, DispatchRaises(e, r) \/ TimeoutRaises(e, r)
        PROVE  [Contract!ContractNext]_ContractVars
    BY <1>2, <2>6 DEF DispatchRaises, TimeoutRaises, worldVars
  <2>7. QED
    BY <1>7, <2>1, <2>2, <2>3, <2>4, <2>5, <2>6 DEF Handler
<1>8. ASSUME NEW r \in Requests, RetryDeadLetter(r) \/ DeviceExecutes(r) \/ DeviceRefuses(r)
      PROVE  [Contract!ContractNext]_ContractVars
  BY <1>2, <1>8 DEF RetryDeadLetter, DeviceExecutes, DeviceRefuses, rowVars, worldVars
<1>9. ASSUME Tick PROVE [Contract!ContractNext]_ContractVars
  BY <1>2, <1>9 DEF Tick, rowVars, worldVars
<1>10. ASSUME NEW reg \in SUBSET Names, Crash(reg)
       PROVE  [Contract!ContractNext]_ContractVars
  BY <1>2, <1>10 DEF Crash, rowVars, worldVars
<1>11. ASSUME NEW e \in Executors, PassDies(e)
       PROVE  [Contract!ContractNext]_ContractVars
  BY <1>2, <1>11 DEF PassDies, rowVars, worldVars
<1>12. ASSUME UNCHANGED vars PROVE [Contract!ContractNext]_ContractVars
  BY <1>2, <1>12 DEF vars, rowVars, worldVars
<1>13. QED
  BY <1>4, <1>5, <1>6, <1>7, <1>8, <1>9, <1>10, <1>11, <1>12 DEF Next

\* The service with its transactions, workers and restarts implements the contract.
THEOREM Refinement == Spec => ImplementsContract
<1>1. Init => Contract!ContractInit
  BY DEF Init, Contract!ContractInit
<1>2. IInv /\ [Next]_vars => [Contract!ContractNext]_ContractVars
  BY StepRefines
<1>3. QED
  BY <1>1, <1>2, InductiveInvariant, PTL
     DEF Spec, ImplementsContract, Contract!ContractSpec, ContractVars

=============================================================================
