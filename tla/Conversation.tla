---------------------------- MODULE Conversation ----------------------------
(* One spoken session of the agent, seen from both processes.  The voice      *)
(* worker plays one utterance at a time (butler/voice/agent.py); the agent    *)
(* process answers its commands, one turn of the session at a time under the  *)
(* conversation lock, and keeps the dialogue (butler/agent/runtime.py,        *)
(* butler/text/server.py, butler/memory/store.py).  A barge-in cancels the    *)
(* turn, has the stored answer cut back to what was heard, and may dispatch   *)
(* the command that was spoken over the reply.                                *)
EXTENDS Integers, Sequences, FiniteSets

CONSTANTS Commands,  \* utterances that answer a command of the user
          FollowUps, \* those of them that a barge-in dispatches
          Alerts,    \* utterances that vocalise a text already composed
          Others,    \* turns of the same session in the background lane
          ReportFaults,    \* "wait": INTERRUPTION_LOCK_TIMEOUT, "lost": no /interrupt answer
          StoreFaults,     \* what may fail: "read" of history, "write" of a turn
                     \* (or what comes before the try that writes it), "amend"
          Window,    \* what a turn reads of the session, in messages
          ToolWeight \* messages that a tool exchange has beside its question and answer

Utterances == Commands \cup Alerts
Nobody == "nobody"

ASSUME ConversationAssumption ==
  /\ FollowUps \subseteq Commands /\ Nobody \notin Utterances
  /\ Commands \cap Alerts = {} /\ Others \cap Utterances = {}
  /\ Window \in Nat /\ ToolWeight \in Nat

VARIABLES voice,    \* [Utterances -> "idle", "queued", "speaking", "ended"]
          cut,      \* utterances the user talked over
          report,   \* [Utterances -> "none", "sent", "waiting", "done", "failed"]
          turn,     \* [Commands -> "none", "posted", "thinking", "tool", "answering", "done"]
          holder,   \* the turn that holds the conversation lock of the session
          tokens,   \* cancellation tokens: [live: registered, set: raised]
          rows,     \* the messages of the session in the store, oldest first
          past,     \* [Commands -> the rows the turn read as history]
          offered,   \* [Commands -> the rows there were when it read them]
          blind,    \* turns whose history could not be read
          unkept,    \* turns that ended and left no row
          spawned,  \* [FollowUps -> the utterance that was talked over, or Nobody]
          unlocked  \* interruptions whose acquire of the lock timed out

dialogue == <<past, offered, blind, unkept>>
cvVars == <<voice, cut, report, turn, holder, tokens, rows, dialogue, spawned, unlocked>>

\* A row, the interruptions that have rewritten its content, and whether the calls and
\* results of a tool exchange are kept with it.
Row(u, role, tool) == [of |-> u, role |-> role, by |-> {}, tool |-> tool]
Exchange(u, said, tool) ==
  IF said \/ tool THEN <<Row(u, "user", FALSE), Row(u, "assistant", tool)>>
                  ELSE <<Row(u, "user", FALSE)>>

\* get_recent_messages: the newest rows that fit, a tool exchange whole or not at all.  The
\* limits on messages and on characters are one budget.
Fits(r, k) ==
  (Len(r) + 1 - k) + ToolWeight * Cardinality({i \in k .. Len(r) : r[i].tool}) <= Window
Readable(r, k) == Fits(r, k) /\ (k <= Len(r) => ~r[k].tool)

ConversationTypeOK ==
  /\ voice \in [Utterances -> {"idle", "queued", "speaking", "ended"}]
  /\ report \in [Utterances -> {"none", "sent", "waiting", "done", "failed"}]
  /\ turn \in [Commands -> {"none", "posted", "thinking", "tool", "answering", "done"}]
  /\ holder \in Commands \cup {Nobody}

CvInit ==
  /\ voice = [u \in Utterances |-> "idle"] /\ cut = {}
  /\ report = [u \in Utterances |-> "none"]
  /\ turn = [u \in Commands |-> "none"] /\ holder = Nobody
  /\ tokens = [live |-> {}, set |-> {}]
  /\ rows = <<>> /\ past = [u \in Commands |-> <<>>] /\ offered = past
  /\ blind = {} /\ unkept = {}
  /\ spawned = [u \in FollowUps |-> Nobody] /\ unlocked = {}

-----------------------------------------------------------------------------
(* The voice worker.                                                          *)

\* A wake word and a command, or a POST to the speak server: submitted to the
\* pool of two workers.
Dispatch(u) ==
  /\ voice[u] = "idle" /\ u \notin FollowUps
  /\ voice' = [voice EXCEPT ![u] = "queued"]
  /\ UNCHANGED <<cut, report, turn, holder, tokens, rows, dialogue, spawned, unlocked>>

\* A worker gets the playback lock; a command is posted to /chat/stream, whose
\* handler registers the cancellation token before the turn begins.
Speak(u) ==
  /\ voice[u] = "queued"
  /\ \A w \in Utterances : voice[w] # "speaking"
  /\ voice' = [voice EXCEPT ![u] = "speaking"]
  /\ IF u \in Commands
       THEN /\ turn' = [turn EXCEPT ![u] = "posted"]
            /\ tokens' = [tokens EXCEPT !.live = @ \cup {u}]
       ELSE UNCHANGED <<turn, tokens>>
  /\ UNCHANGED <<cut, report, holder, rows, dialogue, spawned, unlocked>>

\* A confirmed barge-in: there is something to talk over once the turn has begun,
\* and the reply may have ended while the recording of it was transcribed.  The
\* session is cancelled first; a thread of its own then reports.
BargeIn(u) ==
  /\ voice[u] \in {"speaking", "ended"} /\ u \notin cut
  /\ u \in Commands => turn[u] \in {"thinking", "tool", "answering", "done"}
  /\ cut' = cut \cup {u}
  /\ report' = [report EXCEPT ![u] = "sent"]
  /\ UNCHANGED <<voice, turn, holder, tokens, rows, dialogue, spawned, unlocked>>

\* Playback unwinds: at the end of the reply, or when the cancelled reader gets
\* hold of the stream again (a delta or its end), never inside a tool call.
FallSilent(u) ==
  /\ voice[u] = "speaking"
  /\ u \in Commands => turn[u] = "done" \/ (u \in cut /\ turn[u] # "tool")
  /\ voice' = [voice EXCEPT ![u] = "ended"]
  /\ UNCHANGED <<cut, report, turn, holder, tokens, rows, dialogue, spawned, unlocked>>

\* Mutant: the command does not wait for the report.
Redispatch_Fault(u, f) ==
  /\ report[u] # "none"
  /\ voice[f] = "idle" /\ u \notin {spawned[g] : g \in FollowUps}
  /\ voice' = [voice EXCEPT ![f] = "queued"]
  /\ spawned' = [spawned EXCEPT ![f] = u]
  /\ UNCHANGED <<cut, report, turn, holder, tokens, rows, dialogue, unlocked>>

\* _report_then_redispatch: the report first, whether it worked or not, and only
\* then the command that was spoken over the reply (none after a plain "stop").
Redispatch(u, f) ==
  /\ report[u] \in {"done", "failed"}
  /\ voice[f] = "idle" /\ u \notin {spawned[g] : g \in FollowUps}
  /\ voice' = [voice EXCEPT ![f] = "queued"]
  /\ spawned' = [spawned EXCEPT ![f] = u]
  /\ UNCHANGED <<cut, report, turn, holder, tokens, rows, dialogue, unlocked>>

-----------------------------------------------------------------------------
(* A turn of the agent: run_command_stream under the conversation lock.       *)

TakeTurn(u) ==
  /\ turn[u] = "posted" /\ holder = Nobody
  /\ turn' = [turn EXCEPT ![u] = "thinking"]
  /\ holder' = u
  /\ offered' = [offered EXCEPT ![u] = rows]
  /\ \/ /\ \E k \in 1 .. Len(rows) + 1 :
             /\ Readable(rows, k) /\ \A j \in 1 .. k - 1 : ~Readable(rows, j)
             /\ past' = [past EXCEPT ![u] = SubSeq(rows, k, Len(rows))]
        /\ UNCHANGED blind
     \/ /\ "read" \in StoreFaults
        /\ blind' = blind \cup {u} /\ UNCHANGED past
  /\ UNCHANGED <<voice, cut, report, tokens, rows, unkept, spawned, unlocked>>

\* Between two looks at the token the turn may sit in a tool call: one stands
\* for the rounds that MAX_TOOL_CALL_ROUNDS allows.
CallTool(u) ==
  /\ turn[u] = "thinking" /\ u \notin tokens.set
  /\ turn' = [turn EXCEPT ![u] = "tool"]
  /\ UNCHANGED <<voice, cut, report, holder, tokens, rows, dialogue, spawned, unlocked>>

ToolReturns(u) ==
  /\ turn[u] = "tool"
  /\ turn' = [turn EXCEPT ![u] = "answering"]
  /\ UNCHANGED <<voice, cut, report, holder, tokens, rows, dialogue, spawned, unlocked>>

\* The end of the generation, the token, a closed connection or an exception:
\* the finally clause records what was produced, the lock and the token go.  Nothing
\* is left of a turn that raised before the try, or whose write failed.
EndTurn(u, said) ==
  /\ turn[u] \in {"thinking", "answering"}
  /\ turn' = [turn EXCEPT ![u] = "done"]
  /\ holder' = Nobody
  /\ tokens' = [live |-> tokens.live \ {u}, set |-> tokens.set \ {u}]
  /\ \/ rows' = rows \o Exchange(u, said, turn[u] = "answering") /\ UNCHANGED unkept
     \/ "write" \in StoreFaults /\ unkept' = unkept \cup {u} /\ UNCHANGED rows
  /\ UNCHANGED <<voice, cut, report, past, offered, blind, spawned, unlocked>>

-----------------------------------------------------------------------------
(* The report of an interruption.                                             *)

\* POST /interrupt: the token of the turn is raised if it is still registered
\* (an alert has no request id), then note_interruption waits for the lock.
Report(u) ==
  /\ report[u] = "sent"
  /\ report' = [report EXCEPT ![u] = "waiting"]
  /\ tokens' = [tokens EXCEPT !.set = @ \cup ({u} \cap tokens.live)]
  /\ UNCHANGED <<voice, cut, turn, holder, rows, dialogue, spawned, unlocked>>

ReportFails(u) ==
  /\ "lost" \in ReportFaults
  /\ report[u] = "sent"
  /\ report' = [report EXCEPT ![u] = "failed"]
  /\ UNCHANGED <<voice, cut, turn, holder, tokens, rows, dialogue, spawned, unlocked>>

\* amend_last_assistant_message: the newest row of the session is rewritten if it
\* is an answer, and an answer is added if it is a question.  Whose row that is
\* is not asked.
AmendLast(r, u) ==
  CASE r = <<>> -> r
    [] r # <<>> /\ r[Len(r)].role = "assistant" -> [r EXCEPT ![Len(r)].by = @ \cup {u}]
    [] OTHER -> Append(r, [Row(r[Len(r)].of, "assistant", FALSE) EXCEPT !.by = {u}])

\* After the timeout the row is rewritten all the same; what fails may fail before or
\* after the row is.
NoteInterruption(u) ==
  /\ report[u] = "waiting"
  /\ \/ holder = Nobody /\ UNCHANGED unlocked
     \/ holder # Nobody /\ "wait" \in ReportFaults /\ unlocked' = unlocked \cup {u}
  /\ \/ /\ rows' = AmendLast(rows, u)
        /\ report' = [report EXCEPT ![u] = "done"]
     \/ /\ "amend" \in StoreFaults
        /\ rows' \in {rows, AmendLast(rows, u)}
        /\ report' = [report EXCEPT ![u] = "failed"]
  /\ UNCHANGED <<voice, cut, turn, holder, tokens, dialogue, spawned>>

\* A background job of the session records its turn; its lane has another lock.
RecordElsewhere(j) ==
  /\ \A i \in 1 .. Len(rows) : rows[i].of # j
  /\ \E tool \in BOOLEAN : rows' = rows \o Exchange(j, TRUE, tool)
  /\ UNCHANGED <<voice, cut, report, turn, holder, tokens, dialogue, spawned, unlocked>>

-----------------------------------------------------------------------------
Answer(u) == TakeTurn(u) \/ CallTool(u) \/ ToolReturns(u) \/ \E said \in BOOLEAN : EndTurn(u, said)

CvNext ==
  \/ \E u \in Utterances : Dispatch(u) \/ Speak(u) \/ BargeIn(u) \/ FallSilent(u)
  \/ \E u \in Utterances, f \in FollowUps : Redispatch(u, f)
  \/ \E u \in Commands : Answer(u)
  \/ \E u \in Utterances : Report(u) \/ ReportFails(u) \/ NoteInterruption(u)
  \/ \E j \in Others : RecordElsewhere(j)

\* The pool, the server threads and the report thread run; a model or a tool
\* that is called comes back.  Speaking, interrupting and asking are the user's.
CvFairness ==
  /\ \A u \in Utterances :
       WF_cvVars(Speak(u)) /\ WF_cvVars(FallSilent(u)) /\ WF_cvVars(Report(u) \/ NoteInterruption(u))
  /\ \A u \in Commands :
       WF_cvVars(TakeTurn(u)) /\ WF_cvVars(ToolReturns(u) \/ \E said \in BOOLEAN : EndTurn(u, said))

CvSpec == CvInit /\ [][CvNext]_cvVars /\ CvFairness

-----------------------------------------------------------------------------
Taken(u) == turn[u] \in {"thinking", "tool", "answering", "done"}
RowsOf(r, u) == {i \in 1 .. Len(r) : r[i].of = u}

\* What is row i of the rows that turn u could have read is read, unless the read failed
\* or the row is further back than anything the history reaches.
Reached(u, i) == u \notin blind /\ \E k \in 1 .. i : Readable(offered[u], k)
Reads(u, w) ==
  /\ RowsOf(offered[u], w) # {}
  /\ (\E i \in RowsOf(offered[u], w) : Reached(u, i)) => RowsOf(past[u], w) # {}

(* Turns of the session are serial: of two turns that have begun and left rows  *)
(* one came after the other and read what the history still reached of it.  A   *)
(* tool exchange is read whole, never a result without its question, whatever   *)
(* the other lane records meanwhile.  And a turn that ended, however it ended,  *)
(* has left its question exactly once, or nothing at all if its write failed.   *)
TurnsReadTheirPast ==
  /\ \A u, w \in Commands \ unkept : u # w /\ Taken(u) /\ Taken(w) => Reads(u, w) \/ Reads(w, u)
  /\ \A u \in Commands : \A i \in 1 .. Len(past[u]) : past[u][i].tool =>
       i > 1 /\ past[u][i - 1].of = past[u][i].of /\ past[u][i - 1].role = "user"
  /\ \A u \in Commands : turn[u] = "done" =>
       Cardinality({i \in RowsOf(rows, u) : rows[i].role = "user"}) = IF u \in unkept THEN 0 ELSE 1

(* A correction made under the lock falls on the interrupted answer or on one   *)
(* recorded after it, never on an older one, unless the turn left no row.       *)
CutsNeverReachBack ==
  \A u \in Commands \ (unlocked \cup unkept) : \A i \in 1 .. Len(rows) :
    u \in rows[i].by => \E k \in RowsOf(rows, u) : k <= i

(* The command spoken over a reply is answered by a turn that reads a history   *)
(* with that reply's correction in it, as far as its history reaches: reporting *)
(* and dispatching are one thread, in that order.  Set apart are a report that  *)
(* failed or gave up on the lock, and a reply that left no row.                 *)
FollowUpsReadTheCut ==
  \A f \in FollowUps : Taken(f) =>
    LET u == spawned[f]
    IN  u \in Commands \ (unlocked \cup unkept) /\ report[u] = "done" =>
          \E i \in 1 .. Len(offered[f]) :
            /\ u \in offered[f][i].by
            /\ Reached(f, i) => \E n \in 1 .. Len(past[f]) : u \in past[f][n].by

(* Turns of a session read the turns before them and none is lost to another; a *)
(* correction under the lock changes no older answer, and a follow-up reads the *)
(* correction of the reply it was spoken over (amend_interrupted_turn,          *)
(* _run_barge_in_session).                                                      *)
SessionIsFaithful == TurnsReadTheirPast /\ CutsNeverReachBack /\ FollowUpsReadTheCut

(* Nobody waits for ever on the playback lock, on the conversation lock or on   *)
(* each other: what is dispatched is spoken or interrupted to its end.          *)
EveryUtteranceEnds == \A u \in Utterances : voice[u] = "queued" ~> voice[u] = "ended"

(* agent.py says that an interrupted alert is corrected where it was written.   *)
AlertsCorrectTheirOwnRow ==
  \A u \in Alerts, i \in 1 .. Len(rows) : u \in rows[i].by => rows[i].of = u

=============================================================================
