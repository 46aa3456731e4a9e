----------------------------- MODULE AgentLoop -----------------------------
(* One turn of the agent runtime (butler/agent/runtime.py), in its two forms: *)
(* run_command_stream speaks text while the model writes it and feeds every   *)
(* tool result back in the same request; run_command chains responses of the  *)
(* Responses API through the id the session remembers.  Turns of a session    *)
(* run one after the other, under the lock of the session's thread.           *)
EXTENDS Integers, FiniteSets

CONSTANTS MaxRounds,     \* MAX_TOOL_CALL_ROUNDS
          MaxRecoveries, \* OPENAI_SERVER_ERROR_RECOVERY_ATTEMPTS
          Turns          \* bound: turns begun

AgentLoopAssumption ==
  MaxRounds \in Nat /\ MaxRecoveries \in Nat /\ Turns \in Nat

Lanes == {"stream", "create"}

\* What a call of request_device_action comes to: accepted, refused, or sent to
\* the action service whose answer was lost and is reported as an error.
Outcomes == {"sent", "refused", "lost"}
Reaches(o) == o # "refused"
Failed(o) == o # "sent"

\* A turn and why it left no row: an exception, or a store that failed.
Losses == Lanes \X {"raised", "store"}

VARIABLES turn,      \* [lane, pc, physical]: the request the lock is held for
          rounds, recoveries,
          attempted, succeeded, retried,  \* of the physical action
          calls,     \* the response in hand has unanswered tool calls
          sent,      \* a device command of this turn reached the action service
          said,      \* kinds of text the user was given in this turn
          unbacked,    \* kinds said before any action call had succeeded
          thread,    \* the remembered response: "none", "answered", "unanswered"
          limited,   \* the thread's last remembered turn ended at the limit
          forgotten, \* losses of turns that had sent a command
          begun

alVars == <<turn, rounds, recoveries, attempted, succeeded, retried, calls, sent,
            said, unbacked, thread, limited, forgotten, begun>>
flags == <<attempted, succeeded, retried>>

AgentLoopTypeOK ==
  /\ turn \in [lane : Lanes, pc : {"idle", "preroute", "round", "create", "collect", "followup"},
               physical : BOOLEAN]
  /\ rounds \in 0 .. MaxRounds + 1 /\ recoveries \in 0 .. MaxRecoveries
  /\ {attempted, succeeded, retried, calls, sent, limited} \subseteq BOOLEAN
  /\ said \subseteq {"text", "raw", "result", "denial", "limit", "fallback"}
  /\ unbacked \subseteq said
  /\ thread \in {"none", "answered", "unanswered"} /\ forgotten \subseteq Losses

AlInit ==
  /\ turn = [lane |-> "stream", pc |-> "idle", physical |-> FALSE]
  /\ rounds = 0 /\ recoveries = 0
  /\ attempted = FALSE /\ succeeded = FALSE /\ retried = FALSE
  /\ calls = FALSE /\ sent = FALSE /\ said = {} /\ unbacked = {}
  /\ thread = "none" /\ limited = FALSE /\ forgotten = {} /\ begun = 0

Goto(pc) == turn' = [turn EXCEPT !.pc = pc]

\* _speak: the text is yielded and kept for the record.
SpeakAlso(kinds) ==
  /\ said' = said \cup kinds
  /\ unbacked' = unbacked \cup (IF sent THEN {} ELSE kinds)

\* The turn is over; its row is written unless an exception leaves run_command.  A
\* failure of the session's row or of the turn's own is swallowed and leaves none.
Finish(record) ==
  /\ Goto("idle")
  /\ \E end \in IF record THEN {"written", "store"} ELSE {"raised"} :
       forgotten' = IF sent' /\ end # "written" THEN forgotten \cup {<<turn.lane, end>>}
                                                ELSE forgotten

Begin(lane, physical) ==
  /\ turn.pc = "idle" /\ begun < Turns
  /\ begun' = begun + 1
  /\ turn' = [lane |-> lane, physical |-> physical,
              pc |-> IF lane = "stream" THEN "preroute" ELSE "create"]
  /\ rounds' = 0 /\ recoveries' = 0
  /\ attempted' = FALSE /\ succeeded' = FALSE /\ retried' = FALSE
  /\ calls' = FALSE /\ sent' = FALSE /\ said' = {} /\ unbacked' = {}
  /\ UNCHANGED <<thread, limited, forgotten>>

-----------------------------------------------------------------------------
(* run_command_stream.                                                        *)

\* A pump and a verb in one sentence are one kind of request for a device.
MayBeExplicit == turn.physical

\* The note on a pump command: its status, or that it was not sent; an error of
\* the action service is told as the one or the other.
PumpNotes(o) == CASE o = "sent" -> {"result"}
                  [] o = "refused" -> {"denial"}
                  [] o = "lost" -> {"result", "denial"}

\* An unambiguous pump command is called without the model and answered from the
\* tool's result.  Anything else goes to the loop, which an exception in what prepares
\* the prompt keeps it from reaching.
Preroute ==
  /\ turn.pc = "preroute"
  /\ \/ /\ MayBeExplicit
        /\ \E o \in Outcomes : \E note \in PumpNotes(o) :
             sent' = Reaches(o) /\ said' = {note}
        /\ UNCHANGED unbacked
        /\ Finish(TRUE)
     \/ /\ Goto("round")
        /\ UNCHANGED <<sent, said, unbacked, forgotten>>
     \/ /\ UNCHANGED <<sent, said, unbacked>>
        /\ Finish(FALSE)
  /\ UNCHANGED <<rounds, recoveries, flags, calls, thread, limited, begun>>

\* Mutant: an attempt is taken for a success.
Deferred_Fault == turn.physical /\ ~attempted
Deferred == turn.physical /\ ~succeeded
Spoken(text) == CASE text = "natural" /\ ~Deferred -> {"text"}
                  [] text = "brace" -> {"raw"}
                  [] OTHER -> {}
Texts == {"none", "natural", "brace", "leak"}

\* The text of a physical request waits until an action call has succeeded.
\* Text that begins like a tool call is held back, and spoken raw after all when
\* no call can be recovered from it.
\* Cancelled before the round, in it, or the stream raised or ended without a
\* completion: the finally clause writes what was said all the same.
BreakOff ==
  /\ turn.pc = "round"
  /\ \E text \in {"none", "natural"} : SpeakAlso(Spoken(text))
  /\ UNCHANGED sent /\ Finish(TRUE)
  /\ UNCHANGED <<rounds, recoveries, flags, calls, thread, limited, begun>>

\* A completion without calls: one admonition when a physical request called no
\* action tool, and a denial at the end when none succeeded in the last round.
Conclude(text) ==
  /\ turn.pc = "round" /\ text # "leak"
  /\ UNCHANGED <<recoveries, attempted, succeeded, calls, sent, thread, limited, begun>>
  /\ IF turn.physical /\ ~attempted /\ ~retried
       THEN /\ retried' = TRUE /\ rounds' = rounds + 1
            /\ SpeakAlso(Spoken(text))
            /\ UNCHANGED <<turn, forgotten>>
       ELSE /\ SpeakAlso(Spoken(text) \cup (IF Deferred THEN {"denial"} ELSE {}))
            /\ Finish(TRUE)
            /\ UNCHANGED <<retried, rounds>>

\* The calls of the action tools, with the outcomes given.
Execute(outcomes) ==
  /\ sent' = (sent \/ \E o \in outcomes : Reaches(o))
  /\ IF outcomes = {}
       THEN UNCHANGED <<attempted, succeeded>>
       ELSE attempted' = TRUE /\ succeeded' = (\E o \in outcomes : ~Failed(o))

\* A completion with calls, of action tools or of others.  At the limit they are
\* not run.
CallTools(text, outcomes) ==
  /\ turn.pc = "round" /\ turn.lane = "stream"
  /\ IF rounds >= MaxRounds
       THEN /\ UNCHANGED <<attempted, succeeded, rounds, sent>>
            /\ SpeakAlso(Spoken(text) \cup {"limit"})
            /\ Finish(TRUE)
       ELSE /\ SpeakAlso(Spoken(text))
            /\ rounds' = rounds + 1
            /\ Execute(outcomes)
            /\ UNCHANGED <<turn, forgotten>>
  /\ UNCHANGED <<recoveries, retried, calls, thread, limited, begun>>

-----------------------------------------------------------------------------
(* run_command.                                                               *)

Raise ==
  /\ Finish(FALSE)
  /\ UNCHANGED <<rounds, recoveries, calls, said, unbacked, thread, limited>>

\* The API refuses a request that leaves calls of the previous response unanswered.
Continues == thread # "unanswered"

\* The first request continues the remembered response.
Create ==
  /\ turn.pc = "create"
  /\ UNCHANGED <<flags, sent, begun>>
  /\ \/ /\ Continues
        /\ calls' \in BOOLEAN
        /\ Goto("collect")
        /\ UNCHANGED <<rounds, recoveries, said, unbacked, thread, limited, forgotten>>
     \/ Raise

\* _collect_tool_outputs runs the calls before anything looks at the limit.
Remember(state, kind) ==
  /\ thread' = state /\ limited' = (kind = "limit")
  /\ SpeakAlso({kind})
  /\ Finish(TRUE)

Collect ==
  /\ turn.pc = "collect"
  /\ IF calls THEN sent' \in {sent, TRUE} ELSE UNCHANGED sent
  /\ \/ /\ ~calls
        /\ Remember("answered", "text")
     \/ /\ calls /\ rounds >= MaxRounds
        /\ Remember("unanswered", "limit")
     \/ /\ calls /\ rounds < MaxRounds
        /\ Goto("followup")
        /\ UNCHANGED <<said, unbacked, thread, limited, forgotten>>
  /\ UNCHANGED <<rounds, recoveries, flags, calls, begun>>

\* A server error: a fresh request without the thread, that carries what the
\* tools returned.
Recover ==
  /\ recoveries < MaxRecoveries
  /\ recoveries' = recoveries + 1
  /\ calls' \in BOOLEAN /\ Goto("collect")
  /\ UNCHANGED <<rounds, said, unbacked, thread, limited, forgotten>>

\* The outputs go back: the next response, a recovery, or, when the recoveries
\* are used up, a text made from the tool's error and the id dropped.
FollowUp ==
  /\ turn.pc = "followup"
  /\ UNCHANGED <<flags, sent, begun>>
  /\ \/ /\ calls' \in BOOLEAN /\ rounds' = rounds + 1
        /\ Goto("collect")
        /\ UNCHANGED <<recoveries, said, unbacked, thread, limited, forgotten>>
     \/ Recover
     \/ /\ recoveries = MaxRecoveries
        /\ Remember("none", "fallback")
        /\ UNCHANGED <<rounds, recoveries, calls>>
     \/ Raise

\* reset_session forgets the ids of the session.
Reset ==
  /\ turn.pc = "idle" /\ thread # "none"
  /\ thread' = "none" /\ limited' = FALSE
  /\ UNCHANGED <<turn, rounds, recoveries, flags, calls, sent, said, unbacked, forgotten, begun>>

-----------------------------------------------------------------------------
AlNext ==
  \/ \E lane \in Lanes, physical \in BOOLEAN : Begin(lane, physical)
  \/ Preroute \/ BreakOff \/ Create \/ Collect \/ FollowUp \/ Reset
  \/ \E text \in Texts : Conclude(text)
  \/ \E text \in Texts, outcomes \in SUBSET Outcomes : CallTools(text, outcomes)

AlSpec == AlInit /\ [][AlNext]_alVars

-----------------------------------------------------------------------------
(* On a request for a device the model's own sentences reach the user only after *)
(* a command of this turn went out: the model cannot claim what it never asked   *)
(* for.  (Text mistaken for a tool call is the exception the code makes.)        *)
ClaimsAreBacked ==
  turn.lane = "stream" /\ turn.physical => "text" \notin unbacked

(* The remembered response has unanswered calls only after a turn that ran into  *)
(* the limit; errors and recoveries never leave the session on such a response.  *)
OnlyTheLimitStrands == thread = "unanswered" => limited

(* A streamed turn that sent a device command, cancelled, cut or failed, leaves  *)
(* its row in the conversation: only a store that fails loses it, an exception   *)
(* never does.                                                                   *)
SentIsRemembered == <<"stream", "raised">> \notin forgotten

(* The note that no device command was sent is true (the admonition in the loop  *)
(* asks the model to "state truthfully that no command was sent").               *)
DenialIsTrue == "denial" \in said => ~sent

=============================================================================
