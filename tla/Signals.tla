-------------------------------- MODULE Signals --------------------------------
(* What the main agent reports to awareness: any thread of the process puts a   *)
(* signal into a bounded queue and goes on, one daemon thread posts them to     *)
(* /ingest (services/awareness_signals.py).  A reported presence is written at  *)
(* most once per interval, unless it is forced.                                 *)
EXTENDS Integers, Sequences, FiniteSets

CONSTANTS
  Producers,  \* the threads that report: router, jobs, text server
  Sensing,    \* those that report a presence
  Depth,      \* MAX_QUEUE_DEPTH
  Interval,   \* PRESENCE_MIN_INTERVAL_SECONDS, in ticks
  Signals,    \* bound on the signals
  Ticks       \* bound on the clock

SignalsAssumption ==
  /\ Sensing \subseteq Producers /\ IsFiniteSet(Producers)
  /\ {Depth, Interval, Signals, Ticks} \subseteq Nat \ {0} /\ Interval <= Ticks

VARIABLES
  clock, lastPresence,  \* time.monotonic() and _last_presence_at
  made,      \* the signals: who made each, of which kind, when
  queue,     \* the signals that wait
  emitter,   \* where the call of each producer is
  drain,     \* what the worker posts, 0 for nothing
  counted,   \* _stats
  stored,    \* the signals the backend has, in its order
  unheard    \* the signals a producer lost without a count

signalVars == <<clock, lastPresence, made, queue, emitter, drain, counted, stored, unheard>>

Resting == [pc |-> "rest", sig |-> 0, read |-> 0]

\* time.monotonic() starts with the host and not with the process.
SgInit ==
  /\ clock \in 0 .. Interval /\ lastPresence = 0
  /\ made = <<>> /\ queue = <<>> /\ stored = <<>> /\ drain = 0 /\ unheard = {}
  /\ emitter = [p \in Producers |-> Resting]
  /\ counted = [queued |-> 0, sent |-> 0, failed |-> 0, dropped |-> 0]

Wait == clock < Ticks /\ clock' = clock + 1
        /\ UNCHANGED <<lastPresence, made, queue, emitter, drain, counted, stored, unheard>>

Bumped(keys) == [k \in DOMAIN counted |-> counted[k] + IF k \in keys THEN 1 ELSE 0]

-----------------------------------------------------------------------------
(* The producers                                                               *)

Mint(p, kind, at) ==
  /\ Len(made) < Signals
  /\ made' = Append(made, [by |-> p, kind |-> kind, at |-> at])
  /\ emitter' = [emitter EXCEPT ![p] = [pc |-> "put", sig |-> Len(made) + 1, read |-> 0]]

\* record_interaction_started, record_interaction_ended, record_agent_event
Report(p) ==
  /\ emitter[p].pc = "rest" /\ Mint(p, "event", clock)
  /\ UNCHANGED <<clock, lastPresence, queue, drain, counted, stored, unheard>>

Due == clock - lastPresence >= Interval

\* The limit is looked at and renewed without a lock.
Sense(p) ==
  /\ p \in Sensing /\ emitter[p].pc = "rest" /\ Due
  /\ emitter' = [emitter EXCEPT ![p] = [pc |-> "stamp", sig |-> 0, read |-> clock]]
  /\ UNCHANGED <<clock, lastPresence, made, queue, drain, counted, stored, unheard>>

Stamp(p) ==
  /\ emitter[p].pc = "stamp"
  /\ lastPresence' = emitter[p].read /\ Mint(p, "presence", emitter[p].read)
  /\ UNCHANGED <<clock, queue, drain, counted, stored, unheard>>

\* A wake word is reported whatever the limit says (by the voice worker, whose
\* process has a queue and a limit of its own).
Wake(p) ==
  /\ p \in Sensing /\ emitter[p].pc = "rest"
  /\ lastPresence' = clock /\ Mint(p, "wake", clock)
  /\ UNCHANGED <<clock, queue, drain, counted, stored, unheard>>

\* put_nowait, with its count, which nothing decides on; where the queue is full, the oldest makes room.
Put(p) ==
  /\ emitter[p].pc = "put"
  /\ IF Len(queue) < Depth
       THEN /\ queue' = Append(queue, emitter[p].sig)
            /\ counted' = Bumped({"queued"})
            /\ emitter' = [emitter EXCEPT ![p] = Resting]
       ELSE /\ emitter' = [emitter EXCEPT ![p].pc = "evict"] /\ UNCHANGED <<queue, counted>>
  /\ UNCHANGED <<clock, lastPresence, made, drain, stored, unheard>>

\* get_nowait finds nothing when the worker has emptied the queue in between:
\* then the new signal is the one that is dropped.
Evict(p) ==
  /\ emitter[p].pc = "evict" /\ counted' = Bumped({"dropped"})
  /\ IF queue = <<>>
       THEN emitter' = [emitter EXCEPT ![p] = Resting] /\ UNCHANGED queue
       ELSE emitter' = [emitter EXCEPT ![p].pc = "again"] /\ queue' = Tail(queue)
  /\ UNCHANGED <<clock, lastPresence, made, drain, stored, unheard>>

\* The second put_nowait; its Full passes the handler of Empty and is printed.
PutAgain(p) ==
  /\ emitter[p].pc = "again"
  /\ IF Len(queue) < Depth
       THEN queue' = Append(queue, emitter[p].sig) /\ counted' = Bumped({"queued"})
            /\ UNCHANGED unheard
       ELSE unheard' = unheard \cup {emitter[p].sig} /\ UNCHANGED <<queue, counted>>
  /\ emitter' = [emitter EXCEPT ![p] = Resting]
  /\ UNCHANGED <<clock, lastPresence, made, drain, stored>>

-----------------------------------------------------------------------------
(* The worker                                                                  *)

Take ==
  /\ drain = 0 /\ queue # <<>>
  /\ drain' = Head(queue) /\ queue' = Tail(queue)
  /\ UNCHANGED <<clock, lastPresence, made, emitter, counted, stored, unheard>>

\* post_json: answered, refused or unreachable, or stored with its answer late.
\* There is no second attempt.
Post ==
  /\ drain # 0 /\ drain' = 0
  /\ \/ stored' = Append(stored, drain) /\ counted' = Bumped({"sent"})
     \/ stored' \in {stored, Append(stored, drain)} /\ counted' = Bumped({"failed"})
  /\ UNCHANGED <<clock, lastPresence, made, queue, emitter, unheard>>

Emit(p) == Stamp(p) \/ Put(p) \/ Evict(p) \/ PutAgain(p)

SgNext ==
  \/ Wait \/ Take \/ Post
  \/ \E p \in Producers : Report(p) \/ Sense(p) \/ Wake(p) \/ Emit(p)

SgSpec == SgInit /\ [][SgNext]_signalVars /\ WF_signalVars(Take) /\ WF_signalVars(Post)

-----------------------------------------------------------------------------
SignalsTypeOK ==
  /\ clock \in 0 .. Ticks /\ lastPresence \in 0 .. Ticks
  /\ made \in Seq([by : Producers, kind : {"event", "presence", "wake"}, at : 0 .. Ticks])
  /\ Len(queue) <= Depth /\ drain \in 0 .. Signals
  /\ \A p \in Producers : emitter[p].pc \in {"rest", "stamp", "put", "evict", "again"}

Emitting == {p \in Producers : emitter[p].pc \in {"put", "evict", "again"}}

(* The counters are truthful: every signal is sent, failed, dropped, waiting or  *)
(* in somebody's hand, except those that lost the race for a freed place.        *)
SignalsAreCounted ==
  Len(made) = counted.sent + counted.failed + counted.dropped + Len(queue)
              + (IF drain = 0 THEN 0 ELSE 1) + Cardinality(Emitting) + Cardinality(unheard)

(* What one producer reports arrives in its order, whatever is dropped: an       *)
(* interaction never seems to end before it starts.                              *)
SignalsKeepOrder ==
  \A j, k \in DOMAIN stored :
    j < k /\ made[stored[j]].by = made[stored[k]].by => stored[j] < stored[k]

(* With one thread that sees people, an unforced presence keeps its distance from *)
(* the presence before it.                                                       *)
PresenceIsSpaced ==
  Cardinality(Sensing) = 1 =>
    \A j, k \in DOMAIN made :
      j < k /\ made[k].kind = "presence" /\ made[j].kind # "event"
        => made[k].at - made[j].at >= Interval

(* Signals never wait for ever: once the reports stop, the queue runs dry.        *)
QueueDrains == queue # <<>> ~> queue = <<>>

(* The module's promise, which the race at the bound breaks.                     *)
DropsAreCounted == unheard = {}

===============================================================================
