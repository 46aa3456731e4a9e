------------------------------ MODULE SourceState ------------------------------
(***************************************************************************)
(* Ingestion, current state and freshness of butler/awareness: the pipeline *)
(* (ingestion/pipeline.py, sequence.py), the registry row and its cached    *)
(* copy (registry/sources.py), current_state (state/manager.py), the        *)
(* freshness worker (state/freshness.py), and the source_offline alert with *)
(* its operator (rules/engine.py, alerts/service.py).                       *)
(*                                                                         *)
(* A database transaction is one step; the pipeline's handlers interleave   *)
(* between transactions and at the other awaits.                            *)
(***************************************************************************)
EXTENDS Integers, FiniteSets

CONSTANTS
  Sources,
  Properties,    \* (entity, property) pairs
  Messages,      \* what the devices send
  About,         \* Messages -> [src, prop, boot, seq, obs, val]
  Identified,    \* messages whose payload carries an event_id
  Unacceptable,  \* messages the pipeline rejects: topic, transport, size or form
  Rank,          \* Sources -> metadata.authority_rank
  Trusted,       \* sources with a trusted clock
  Scheduled,     \* sources without offline_detection = false
  Expiring,      \* sources without state_freshness_detection = false
  Deadband,      \* [Sources -> [Properties -> metadata.deadbands]], 0 for none
  StaleAfter, OfflineAfter,
  Handlers,      \* concurrent calls of IngestionPipeline.handle
  None,          \* an SQL NULL
  MaxDeliveries, \* bound on the copies of one message
  MaxTime, MaxFaults

ASSUME SourceStateAssumption ==
  /\ About \in [Messages -> [src : Sources, prop : Properties, boot : {None, "b1", "b2"},
                             seq : Nat \cup {None}, obs : Nat \cup {None}, val : Int]]
  /\ Unacceptable \subseteq Messages /\ Identified \subseteq Messages /\ Trusted \subseteq Sources
  /\ Scheduled \subseteq Sources /\ Expiring \subseteq Sources
  /\ Rank \in [Sources -> Int] /\ Deadband \in [Sources -> [Properties -> Nat]]
  /\ {StaleAfter, OfflineAfter, MaxDeliveries, MaxTime, MaxFaults} \subseteq Nat
  /\ None \notin Sources \cup {"unknown"}

VARIABLES
  now,
  source,      \* the registry row: health, last_received_at, last sequence and boot
  cached,      \* SourceRepository._snapshot: sequence and boot
  row,         \* current_state
  stored,      \* event rows per message
  deadLetters, \* messages in dead_letter_events
  alert,       \* status of the last source_offline alert of each source
  operated,    \* sources whose alert an operator has changed
  healthLog,   \* the last source_health_history entry
  stateLog,    \* the last state_transitions entry
  handler,     \* where each handle() call is
  delivered,   \* copies of each message so far
  faults

vars == <<now, source, cached, row, stored, deadLetters, alert, operated, healthLog, stateLog,
          handler, delivered, faults>>
effects == <<source, row, stored, alert, healthLog, stateLog>>
tables == <<source, row, stored, deadLetters, alert, operated, healthLog, stateLog>>

Active == {"open", "acknowledged"}
Position == [seq : Nat \cup {None}, boot : {None, "b1", "b2"}]
NoRow == [status |-> "none", val |-> 0, rank |-> 0, cmp |-> 0, received |-> 0,
          src |-> None, anchor |-> 0]
Idle == [phase |-> "idle"]

At(s) == [seq |-> source[s].seq, boot |-> source[s].boot]

Init ==
  /\ now = 0
  /\ source = [s \in Sources |-> [health |-> "unknown", heard |-> None, seq |-> None, boot |-> None]]
  /\ cached = [s \in Sources |-> [seq |-> None, boot |-> None]]
  /\ row = [p \in Properties |-> NoRow]
  /\ stored = [m \in Messages |-> 0]
  /\ deadLetters = {}
  /\ alert = [s \in Sources |-> "none"]
  /\ operated = {}
  /\ healthLog = [s \in Sources |-> [from |-> None, to |-> "unknown"]]
  /\ stateLog = [p \in Properties |-> [from |-> None, to |-> "none", val |-> 0]]
  /\ handler = [h \in Handlers |-> Idle]
  /\ delivered = [m \in Messages |-> 0]
  /\ faults = 0

-----------------------------------------------------------------------------
(* assess_sequence                                                          *)

Assess(seen, m) ==
  IF About[m].seq = None THEN "unnumbered"
  ELSE IF seen.seq = None \/ About[m].boot # seen.boot THEN "advance"
  ELSE IF About[m].seq = seen.seq THEN "duplicate"
  ELSE IF About[m].seq < seen.seq THEN "late" ELSE "advance"

-----------------------------------------------------------------------------
(* StateManager._apply_one                                                  *)

Comparison(m, at) ==
  IF About[m].obs # None /\ About[m].src \in Trusted THEN About[m].obs ELSE at

Distance(a, b) == IF a < b THEN b - a ELSE a - b

Replaceable(r) == r.status \in {"stale", "offline"}

\* The deadband of the message's source for the property it is about.
Band(m) == Deadband[About[m].src][About[m].prop]

Jitter(r, m) ==
  /\ Band(m) > 0 /\ r.status = "current"
  /\ Distance(About[m].val, r.anchor) < Band(m)

\* Fault for mutation: the anchor follows every value.
Accepted_AnchorFollows(r, m, at, cmp) ==
  LET s == About[m].src  v == About[m].val IN
  [status |-> "current", val |-> v, rank |-> Rank[s], cmp |-> cmp, received |-> at, src |-> s,
   anchor |-> v]

Accepted(r, m, at, cmp) ==
  LET s == About[m].src  v == About[m].val IN
  [status |-> "current", val |-> v, rank |-> Rank[s], cmp |-> cmp, received |-> at, src |-> s,
   anchor |-> IF Jitter(r, m) THEN r.anchor ELSE v]

\* Fault for mutation: only a later message is compared with the authority.
Verdict_OlderReplaces(r, m, cmp) ==
  LET stronger == Rank[About[m].src] > r.rank
      weaker   == Rank[About[m].src] < r.rank
      same     == About[m].val = r.val IN
  IF r.status = "none" THEN "replace"
  ELSE IF cmp <= r.cmp /\ same THEN "keep"
  ELSE IF (cmp = r.cmp /\ ~stronger) \/ (weaker /\ ~Replaceable(r))
    THEN IF same THEN "keep" ELSE "conflict"
  ELSE "replace"

Verdict(r, m, cmp) ==
  LET stronger == Rank[About[m].src] > r.rank
      weaker   == Rank[About[m].src] < r.rank
      same     == About[m].val = r.val IN
  IF r.status = "none" THEN "replace"
  ELSE IF cmp < r.cmp \/ (cmp = r.cmp /\ same) THEN "keep"
  ELSE IF (cmp = r.cmp /\ ~stronger) \/ (cmp > r.cmp /\ weaker /\ ~Replaceable(r))
    THEN IF same THEN "keep" ELSE "conflict"
  ELSE "replace"

\* The row and the last transition after a message.  Jitter, and a value that
\* is neither new nor recovered, leave no transition.
ApplyState(m, at) ==
  LET p == About[m].prop
      r == row[p]
      cmp == Comparison(m, at)
      v == Verdict(r, m, cmp)
      new == CASE v = "replace"  -> Accepted(r, m, at, cmp)
               [] v = "conflict" -> [r EXCEPT !.status = "conflicting"]
               [] OTHER          -> r
      quiet == \/ v = "replace" /\ Jitter(r, m)
               \/ new.status = r.status /\ new.val = r.val
  IN /\ row' = [row EXCEPT ![p] = new]
     /\ stateLog' = IF quiet THEN stateLog
                    ELSE [stateLog EXCEPT ![p] = [from |-> r.status, to |-> new.status, val |-> new.val]]

-----------------------------------------------------------------------------
(* IngestionPipeline.handle                                                 *)

\* The cached registry is young enough, or its TTL has passed and it is read again.
Receive(h, m) ==
  /\ handler[h] = Idle /\ delivered[m] < MaxDeliveries
  /\ delivered' = [delivered EXCEPT ![m] = @ + 1]
  /\ \E phase \in {"refresh", "assess"} :
       handler' = [handler EXCEPT ![h] = [phase |-> phase, msg |-> m, at |-> now]]
  /\ UNCHANGED <<now, cached, faults, tables>>

RefreshReads(h) ==
  /\ handler[h].phase = "refresh"
  /\ handler' = [handler EXCEPT ![h] = [phase |-> "loaded", msg |-> @.msg, at |-> @.at,
                                        snapshot |-> [s \in Sources |-> At(s)]]]
  /\ UNCHANGED <<now, cached, delivered, faults, tables>>

RefreshStores(h) ==
  /\ handler[h].phase = "loaded"
  /\ cached' = handler[h].snapshot
  /\ handler' = [handler EXCEPT ![h] = [phase |-> "assess", msg |-> @.msg, at |-> @.at]]
  /\ UNCHANGED <<now, delivered, faults, tables>>

\* _reject: a dead letter and nothing else.
Reject(h) ==
  /\ handler[h].phase = "assess" /\ handler[h].msg \in Unacceptable
  /\ deadLetters' = deadLetters \cup {handler[h].msg}
  /\ handler' = [handler EXCEPT ![h] = Idle]
  /\ UNCHANGED <<now, cached, operated, delivered, faults, effects>>

AssessSequence(h) ==
  /\ handler[h].phase = "assess" /\ handler[h].msg \notin Unacceptable
  /\ LET m == handler[h].msg
         a == Assess(cached[About[m].src], m) IN
     handler' = [handler EXCEPT ![h] =
       IF a = "duplicate" THEN [phase |-> "touch", msg |-> m, at |-> @.at]
                          ELSE [phase |-> "persist", msg |-> m, at |-> @.at, advance |-> a = "advance"]]
  /\ UNCHANGED <<now, cached, delivered, faults, tables>>

\* _touch_source
Touch(h) ==
  /\ handler[h].phase = "touch"
  /\ source' = [source EXCEPT ![About[handler[h].msg].src].heard = handler[h].at]
  /\ handler' = [handler EXCEPT ![h] = Idle]
  /\ UNCHANGED <<now, cached, row, stored, deadLetters, alert, operated, healthLog, stateLog,
                 delivered, faults>>

\* Fault for mutation: only the primary key stops a duplicate.
AlreadyStored_KeyOnly(m) == m \in Identified /\ stored[m] > 0

\* The primary key, and the partial unique index on (source, boot, sequence).
AlreadyStored(m) ==
  \/ m \in Identified /\ stored[m] > 0
  \/ /\ About[m].seq # None /\ About[m].boot # None
     /\ \E n \in Messages :
          /\ stored[n] > 0
          /\ <<About[n].src, About[n].boot, About[n].seq>> = <<About[m].src, About[m].boot, About[m].seq>>

PersistDuplicate(h) ==
  /\ handler[h].phase = "persist" /\ AlreadyStored(handler[h].msg)
  /\ handler' = [handler EXCEPT ![h] = [phase |-> "touch", msg |-> @.msg, at |-> @.at]]
  /\ UNCHANGED <<now, cached, delivered, faults, tables>>

\* Fault for mutation: the status is the name of the resolve rule.
Recovered_Renamed(s) == IF alert[s] \in Active THEN "recovered" ELSE alert[s]

\* Fault for mutation: the recovery leaves the alert to the operator.
Recovered_Manual(s) == alert[s]

\* apply_source_recovered
Recovered(s) == IF alert[s] \in Active THEN "resolved" ELSE alert[s]

\* Fault for mutation: the history entry is written for every message.
LogHealth_Always(s, to) == [healthLog EXCEPT ![s] = [from |-> source[s].health, to |-> to]]

LogHealth(s, to) ==
  IF source[s].health = to THEN healthLog
  ELSE [healthLog EXCEPT ![s] = [from |-> source[s].health, to |-> to]]

\* The event transaction: event row, source row, health, alert, current state.
Persist(h) ==
  /\ handler[h].phase = "persist" /\ ~AlreadyStored(handler[h].msg)
  /\ LET m == handler[h].msg
         s == About[m].src
         pos == IF handler[h].advance THEN [seq |-> About[m].seq, boot |-> About[m].boot] ELSE At(s) IN
     /\ stored' = [stored EXCEPT ![m] = @ + 1]
     /\ source' = [source EXCEPT ![s] = [health |-> "healthy", heard |-> handler[h].at,
                                         seq |-> pos.seq, boot |-> pos.boot]]
     /\ healthLog' = LogHealth(s, "healthy")
     /\ alert' = IF source[s].health = "healthy" THEN alert ELSE [alert EXCEPT ![s] = Recovered(s)]
     /\ ApplyState(m, handler[h].at)
     /\ handler' = [handler EXCEPT ![h] =
          IF @.advance THEN [phase |-> "note", msg |-> m, at |-> @.at] ELSE Idle]
  /\ UNCHANGED <<now, cached, deadLetters, operated, delivered, faults>>

\* Fault for mutation: the cached boot is left alone.
NoteAdvance_SequenceOnly(h) ==
  /\ handler[h].phase = "note"
  /\ LET m == handler[h].msg IN cached' = [cached EXCEPT ![About[m].src].seq = About[m].seq]
  /\ handler' = [handler EXCEPT ![h] = Idle]
  /\ UNCHANGED <<now, delivered, faults, tables>>

\* note_advance on the cached registry
NoteAdvance(h) ==
  /\ handler[h].phase = "note"
  /\ LET m == handler[h].msg IN
     cached' = [cached EXCEPT ![About[m].src] = [seq |-> About[m].seq, boot |-> About[m].boot]]
  /\ handler' = [handler EXCEPT ![h] = Idle]
  /\ UNCHANGED <<now, delivered, faults, tables>>

\* A transaction is rolled back: the message becomes a dead letter, or, when
\* the database is gone, is only logged.
PersistFails(h) ==
  /\ handler[h].phase \in {"refresh", "touch", "persist"} /\ faults < MaxFaults
  /\ faults' = faults + 1
  /\ \E lost \in BOOLEAN :
       deadLetters' = IF lost THEN deadLetters ELSE deadLetters \cup {handler[h].msg}
  /\ handler' = [handler EXCEPT ![h] = Idle]
  /\ UNCHANGED <<now, cached, operated, delivered, effects>>

\* The process restarts; seed_registry leaves the rows, refresh(force) reads them.
Restart ==
  /\ faults < MaxFaults
  /\ faults' = faults + 1
  /\ handler' = [h \in Handlers |-> Idle]
  /\ cached' = [s \in Sources |-> At(s)]
  /\ UNCHANGED <<now, delivered, tables>>

-----------------------------------------------------------------------------
(* FreshnessWorker.tick: one transaction                                    *)

Overdue(p) ==
  /\ row[p].status = "current" /\ row[p].src \in Expiring
  /\ now - row[p].received > StaleAfter

\* Fault for mutation: a bare comparison with the missing metadata key drops
\* the scheduled sources instead of the others.
Silent_NullFlag(s) ==
  /\ s \notin Scheduled /\ source[s].health \notin {"offline", "unknown"} /\ source[s].heard # None
  /\ now - source[s].heard > OfflineAfter

Silent(s) ==
  /\ s \in Scheduled /\ source[s].health \notin {"offline", "unknown"} /\ source[s].heard # None
  /\ now - source[s].heard > OfflineAfter

\* _mark_stale_state, then _mark_source_state_offline for the silent sources.
Aged(p) ==
  IF row[p].status \in {"current", "stale"} /\ Silent(row[p].src) THEN "offline"
  ELSE IF Overdue(p) THEN "stale" ELSE row[p].status

NothingDue == \A s \in Sources : ~Silent(s) /\ \A p \in Properties : ~Overdue(p)

\* A row that goes stale and offline in one pass leaves both transitions.
Tick ==
  /\ ~NothingDue
  /\ row' = [p \in Properties |-> [row[p] EXCEPT !.status = Aged(p)]]
  /\ stateLog' = [p \in Properties |->
       IF Aged(p) = row[p].status THEN stateLog[p]
       ELSE [from |-> IF Overdue(p) /\ Aged(p) = "offline" THEN "stale" ELSE row[p].status,
             to |-> Aged(p), val |-> row[p].val]]
  /\ source' = [s \in Sources |->
       IF Silent(s) THEN [source[s] EXCEPT !.health = "offline"] ELSE source[s]]
  /\ healthLog' = [s \in Sources |->
       IF Silent(s) THEN [from |-> source[s].health, to |-> "offline"] ELSE healthLog[s]]
  /\ alert' = [s \in Sources |->
       IF Silent(s) /\ alert[s] \notin Active THEN "open" ELSE alert[s]]
  /\ UNCHANGED <<now, cached, stored, deadLetters, operated, handler, delivered, faults>>

-----------------------------------------------------------------------------
(* The operator, through the alert routes and set_status                    *)

Operate(s, status) ==
  /\ alert[s] # "none" /\ alert[s] # status
  /\ alert' = [alert EXCEPT ![s] = status]
  /\ operated' = operated \cup {s}
  /\ UNCHANGED <<now, source, cached, row, stored, deadLetters, healthLog, stateLog, handler,
                 delivered, faults>>

Acknowledge(s) == Operate(s, "acknowledged")
Resolve(s) == Operate(s, "resolved")

Advance ==
  /\ now < MaxTime
  /\ now' = now + 1
  /\ UNCHANGED <<cached, handler, delivered, faults, tables>>

Work(h) == \/ RefreshReads(h) \/ RefreshStores(h) \/ Reject(h) \/ AssessSequence(h)
           \/ Touch(h) \/ PersistDuplicate(h) \/ Persist(h) \/ NoteAdvance(h)

Next ==
  \/ \E h \in Handlers : (\E m \in Messages : Receive(h, m)) \/ Work(h) \/ PersistFails(h)
  \/ Restart \/ Tick \/ Advance
  \/ \E s \in Sources : Acknowledge(s) \/ Resolve(s)

Spec == Init /\ [][Next]_vars

\* The freshness worker runs on an interval and the event loop runs handlers.
FairSpec == Spec /\ WF_vars(Tick) /\ \A h \in Handlers : WF_vars(Work(h))

-----------------------------------------------------------------------------
Healths == {"unknown", "healthy", "offline"}
RowStatuses == {"none", "current", "stale", "offline", "conflicting"}

Calls ==
  [phase : {"idle"}]
    \cup [phase : {"refresh", "assess", "touch", "note"}, msg : Messages, at : 0..MaxTime]
    \cup [phase : {"loaded"}, msg : Messages, at : 0..MaxTime, snapshot : [Sources -> Position]]
    \cup [phase : {"persist"}, msg : Messages, at : 0..MaxTime, advance : BOOLEAN]

SourceRows ==
  [health : Healths, heard : (0..MaxTime) \cup {None}, seq : Nat \cup {None}, boot : {None, "b1", "b2"}]

StateRows ==
  [status : RowStatuses, val : Int, rank : Int, cmp : Nat, received : 0..MaxTime,
   src : Sources \cup {None}, anchor : Int]

TypeOK ==
  /\ now \in 0..MaxTime /\ faults \in 0..MaxFaults
  /\ source \in [Sources -> SourceRows]
  /\ cached \in [Sources -> Position]
  /\ row \in [Properties -> StateRows]
  /\ stored \in [Messages -> Nat] /\ delivered \in [Messages -> 0..MaxDeliveries]
  /\ deadLetters \subseteq Messages /\ operated \subseteq Sources
  /\ alert \in [Sources -> Active \cup {"none", "resolved"}]
  /\ healthLog \in [Sources -> [from : Healths \cup {None}, to : Healths]]
  /\ stateLog \in [Properties -> [from : RowStatuses \cup {None}, to : RowStatuses, val : Int]]
  /\ handler \in [Handlers -> Calls]

\* source_health_history and state_transitions end in what the rows say, and a
\* change of health is recorded once: no entry goes from a status to itself.
LogsEndInTheRows ==
  /\ \A s \in Sources : healthLog[s].to = source[s].health /\ healthLog[s].from # healthLog[s].to
  /\ \A p \in Properties : stateLog[p].to = row[p].status

\* The message with this row says the same, as the unique indices see it.
Twin(n, m) ==
  \/ n = m
  \/ /\ About[m].seq # None
     /\ <<About[n].src, About[n].boot, About[n].seq>> = <<About[m].src, About[m].boot, About[m].seq>>

\* One event row for a message with an event_id or a (boot, sequence), however
\* often it is delivered and whatever the cached registry said; and a message that is
\* dropped as a duplicate, by a cache however stale or by an index, has a twin in the
\* table, so that nothing is lost (assess_sequence, note_advance).
StoredOnce ==
  /\ \A m \in Messages :
       (m \in Identified \/ (About[m].boot # None /\ About[m].seq # None)) => stored[m] <= 1
  /\ \A h \in Handlers :
       handler[h].phase = "touch" => \E n \in Messages : stored[n] > 0 /\ Twin(n, handler[h].msg)

\* As long as no operator steps in, a source_offline alert is active exactly
\* while its source is offline.
AlertFollowsHealth ==
  \A s \in Sources \ operated : alert[s] \in Active <=> source[s].health = "offline"

\* Current state never moves back in comparison time, and a value yields to a
\* weaker source only after it went stale or offline.
StateMovesForward ==
  [][\A p \in Properties :
       /\ row'[p].cmp >= row[p].cmp
       /\ row[p].status # "none" /\ row'[p].rank < row[p].rank
            => row[p].status \in {"stale", "offline"}]_vars

\* The properties of which a source with a narrower deadband than another one's has
\* less authority than that one.
NarrowerIsWeaker ==
  {p \in Properties : \A m, n \in Messages :
     About[m].prop = p /\ About[n].prop = p /\ Band(m) < Band(n)
       => Rank[About[m].src] < Rank[About[n].src]}

\* Small moves add up: the value of a current row stays within the deadband of
\* the value its last recorded transition announced.  A source with a narrower
\* deadband that may confirm a drifted value would make it the anchor unrecorded.
DriftIsBounded ==
  \A p \in NarrowerIsWeaker :
    row[p].status = "current" /\ row[p].val # stateLog[p].val
      => Distance(row[p].val, stateLog[p].val) < Deadband[row[p].src][p]

\* In an instance of one handler: between messages the cached position is the stored
\* one, and a late arrival never moves the counter of its boot back.
CounterIsSound ==
  /\ []((\A h \in Handlers : handler[h] = Idle) => \A s \in Sources : cached[s] = At(s))
  /\ [][\A s \in Sources :
         source[s].seq # None /\ source'[s].boot = source[s].boot
           => source'[s].seq >= source[s].seq]_vars

PastDeadline(s) == source[s].heard # None /\ now - source[s].heard > OfflineAfter

\* A scheduled source that stays silent past its deadline is marked offline.
SilenceIsNoticed ==
  \A s \in Scheduled :
    (source[s].health = "healthy" /\ PastDeadline(s))
      ~> (source[s].health = "offline" \/ ~PastDeadline(s))
=============================================================================
