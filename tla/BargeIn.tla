------------------------------ MODULE BargeIn ------------------------------
(* Talking over a reply in the room (butler/voice/agent.py with the AEC back  *)
(* end, butler/voice/streaming/barge_in.py, vad.py, duplex.py and             *)
(* butler/voice/asr_queue.py).  Four threads meet: playback writes slices of  *)
(* the reply that holds the playback lock, the duplex dispatcher runs the     *)
(* voice-activity gate, the recognizer hands over idle utterances, and one    *)
(* ASR worker transcribes what the bounded queue gives it.                    *)
EXTENDS Integers, Sequences, FiniteSets

CONSTANTS Replies,    \* 1..n, in the order they are spoken
          Slices,     \* slices of PCM in a reply
          QueueLimit, \* capacity of the ASR queue
          Captures    \* bound: captures the gate begins

ASSUME BargeInAssumption ==
  /\ Replies \in Nat \ {0} /\ Slices \in Nat \ {0} /\ QueueLimit \in Nat \ {0}
  /\ Captures \in Nat

NoReply == 0
Idle == [kind |-> "idle", reply |-> NoReply, over |-> NoReply, late |-> FALSE]
Barge(r, o, late) == [kind |-> "barge_in", reply |-> r, over |-> o, late |-> late]

VARIABLES stage,      \* [1..Replies -> "queued", "playing", "ended"]
          written,    \* slices written of the reply that is playing
          cancelled,  \* SpeechSession.cancel was called
          ducked,     \* SpeechSession.duck
          cutBy,      \* [1..Replies -> the recording that cut the reply]
          armed,      \* the session the detector holds, or NoReply
          speaking,   \* the duplex pipeline's flag
          gate,       \* [active, over]: the capture of the gate and where it began
          owed,       \* [to, over]: the callback the dispatcher owes, the gate's lock released
          stranded,   \* replies at the low volume that nothing under way will restore
          captures,   \* captures begun so far
          asrQ,       \* the queue, in order of arrival
          asr         \* [pc, item]: the ASR worker

biVars == <<stage, written, cancelled, ducked, cutBy, armed, speaking, gate, owed,
            stranded, captures, asrQ, asr>>

All == 1 .. Replies
Quiet == [active |-> FALSE, over |-> NoReply]
NoCall == [to |-> "nobody", over |-> NoReply]
Listening == armed # NoReply /\ armed \notin cancelled

BargeInTypeOK ==
  /\ stage \in [All -> {"queued", "playing", "ended"}]
  /\ written \in 0 .. Slices /\ cancelled \subseteq All /\ ducked \subseteq All
  /\ armed \in All \cup {NoReply} /\ speaking \in BOOLEAN
  /\ owed.to \in {"nobody", "candidate", "utterance"} /\ stranded \subseteq All
  /\ Len(asrQ) <= QueueLimit /\ asr.pc \in {"get", "confirm"}

BiInit ==
  /\ stage = [r \in All |-> "queued"] /\ written = 0
  /\ cancelled = {} /\ ducked = {} /\ stranded = {} /\ cutBy = [r \in All |-> Idle]
  /\ armed = NoReply /\ speaking = FALSE
  /\ gate = Quiet /\ owed = NoCall /\ captures = 0
  /\ asrQ = <<>> /\ asr = [pc |-> "get", item |-> Idle]

-----------------------------------------------------------------------------
(* Playback.                                                                  *)

\* A worker of the pool takes the playback lock and opens the stream.
BeginReply(r) ==
  /\ stage[r] = "queued" /\ \A s \in All : stage[s] # "playing"
  /\ \A s \in 1 .. r - 1 : stage[s] = "ended"
  /\ stage' = [stage EXCEPT ![r] = "playing"]
  /\ written' = 0
  /\ UNCHANGED <<cancelled, ducked, cutBy, armed, speaking, gate, owed, stranded, captures,
                 asrQ, asr>>

\* _write_pcm: the first slice turns the speaking flag on and arms the detector.
WriteSlice(r) ==
  /\ stage[r] = "playing" /\ r \notin cancelled /\ written < Slices
  /\ written' = written + 1
  /\ speaking' = TRUE
  /\ armed' = IF speaking THEN armed ELSE r
  /\ UNCHANGED <<stage, cancelled, ducked, cutBy, gate, owed, stranded, captures, asrQ, asr>>

\* speak_stream is over; _disarm_playback: the detector is disarmed only if it
\* still watches this reply, the flag goes down, the gate forgets its capture.  A
\* callback the dispatcher owes already is not taken back.
EndReply(r) ==
  /\ stage[r] = "playing" /\ (r \in cancelled \/ written = Slices)
  /\ stage' = [stage EXCEPT ![r] = "ended"]
  /\ armed' = IF armed = r THEN NoReply ELSE armed
  /\ speaking' = FALSE
  /\ gate' = Quiet
  /\ UNCHANGED <<written, cancelled, ducked, cutBy, owed, stranded, captures, asrQ, asr>>

-----------------------------------------------------------------------------
(* The duplex dispatcher: the barge-in lane is chosen while a reply is being  *)
(* played, and kept until a capture in progress is over.  The gate decides     *)
(* under its lock and calls back after it has let go of it: by then another    *)
(* reply may be in the detector.                                               *)

\* start_frames hot frames: a capture, and a candidate to tell of.
OpenCapture ==
  /\ owed = NoCall /\ speaking /\ ~gate.active /\ captures < Captures
  /\ \E r \in All :
       /\ stage[r] = "playing"
       /\ gate' = [active |-> TRUE, over |-> r]
       /\ owed' = [to |-> "candidate", over |-> r]
  /\ captures' = captures + 1
  /\ UNCHANGED <<stage, written, cancelled, ducked, cutBy, armed, speaking, stranded, asrQ, asr>>

\* _on_barge_vad_candidate ducks the reply the detector holds now; if that is not the
\* one it was heard over, no capture is under way that could restore the volume.
Candidate ==
  /\ owed.to = "candidate"
  /\ owed' = NoCall
  /\ \/ /\ ~Listening
        /\ UNCHANGED <<ducked, stranded>>
     \/ /\ Listening
        /\ ducked' = ducked \cup {armed}
        /\ stranded' = IF armed = owed.over THEN stranded \ {armed} ELSE stranded \cup {armed}
  /\ UNCHANGED <<stage, written, cancelled, cutBy, armed, speaking, gate, captures, asrQ, asr>>

\* The end of the capture.  Too little speech: the gate calls nobody, and nobody
\* restores the volume.
CloseCapture ==
  /\ owed = NoCall /\ gate.active
  /\ gate' = Quiet
  /\ \/ /\ owed' = [to |-> "utterance", over |-> gate.over]
        /\ UNCHANGED stranded
     \/ /\ stranded' = stranded \cup {gate.over}
        /\ UNCHANGED owed
  /\ UNCHANGED <<stage, written, cancelled, ducked, cutBy, armed, speaking, captures, asrQ, asr>>

\* Mutant: a recording that the full queue rejects leaves the volume low.
HandOver_Fault ==
  /\ owed.to = "utterance"
  /\ owed' = NoCall
  /\ asrQ' = IF Listening /\ Len(asrQ) < QueueLimit
               THEN Append(asrQ, Barge(armed, owed.over, stage[owed.over] = "ended")) ELSE asrQ
  /\ UNCHANGED <<stage, written, cancelled, ducked, cutBy, armed, speaking, gate, stranded,
                 captures, asr>>

\* _on_barge_vad_utterance: the recording is queued for the reply the detector holds
\* now, late if the one it was begun over has ended; a full queue rejects it and
\* restores the volume.
HandOver ==
  /\ owed.to = "utterance"
  /\ owed' = NoCall
  /\ \/ /\ ~Listening
        /\ UNCHANGED <<ducked, stranded, asrQ>>
     \/ /\ Listening /\ Len(asrQ) < QueueLimit
        /\ asrQ' = Append(asrQ, Barge(armed, owed.over, stage[owed.over] = "ended"))
        /\ UNCHANGED <<ducked, stranded>>
     \/ /\ Listening /\ Len(asrQ) = QueueLimit
        /\ ducked' = ducked \ {armed} /\ stranded' = stranded \ {armed}
        /\ UNCHANGED asrQ
  /\ UNCHANGED <<stage, written, cancelled, cutBy, armed, speaking, gate, captures, asr>>

\* recognition_callback: the recognizer hears silence while a reply is playing;
\* a full queue drops the utterance.
HearIdle ==
  /\ ~speaking /\ captures < Captures
  /\ captures' = captures + 1
  /\ asrQ' = IF Len(asrQ) < QueueLimit THEN Append(asrQ, Idle) ELSE asrQ
  /\ UNCHANGED <<stage, written, cancelled, ducked, cutBy, armed, speaking, gate, owed,
                 stranded, asr>>

-----------------------------------------------------------------------------
(* The ASR worker.                                                            *)

\* Idle commands go first, confirmations after them, each in order of arrival.
Foremost(q, i) ==
  \/ q[i].kind = "idle" /\ \A j \in 1 .. i - 1 : q[j].kind # "idle"
  \/ i = 1 /\ \A j \in 1 .. Len(q) : q[j].kind # "idle"
Without(q, i) == SubSeq(q, 1, i - 1) \o SubSeq(q, i + 1, Len(q))

\* Mutant: the recording is confirmed against whatever reply is playing now.
TakeWork_Fault ==
  /\ asr.pc = "get"
  /\ \E i \in 1 .. Len(asrQ) :
       LET item == asrQ[i]
       IN /\ Foremost(asrQ, i)
          /\ asrQ' = Without(asrQ, i)
          /\ asr' = IF item.kind = "barge_in" /\ Listening
                      THEN [pc |-> "confirm", item |-> [item EXCEPT !.reply = armed]]
                      ELSE asr
  /\ UNCHANGED <<stage, written, cancelled, ducked, cutBy, armed, speaking, gate, owed,
                 stranded, captures>>

\* _confirm_barge_in drops a recording whose reply is not in the detector any more.
TakeWork ==
  /\ asr.pc = "get"
  /\ \E i \in 1 .. Len(asrQ) :
       LET item == asrQ[i]
       IN /\ Foremost(asrQ, i)
          /\ asrQ' = Without(asrQ, i)
          /\ asr' = IF item.kind = "barge_in" /\ Listening /\ armed = item.reply
                      THEN [pc |-> "confirm", item |-> item]
                      ELSE asr
  /\ UNCHANGED <<stage, written, cancelled, ducked, cutBy, armed, speaking, gate, owed,
                 stranded, captures>>

\* Transcribed, and it is nobody, echo or too uncertain: resume_after_rejection
\* restores the volume of the reply the detector holds by now.
Reject ==
  /\ asr.pc = "confirm"
  /\ asr' = [asr EXCEPT !.pc = "get"]
  /\ ducked' = ducked \ {armed} /\ stranded' = stranded \ {armed}
  /\ UNCHANGED <<stage, written, cancelled, cutBy, armed, speaking, gate, owed, captures, asrQ>>

\* The user: _accept_barge_in cancels the reply found before the transcription.
Accept ==
  /\ asr.pc = "confirm"
  /\ asr' = [asr EXCEPT !.pc = "get"]
  /\ LET r == asr.item.reply
     IN /\ cancelled' = cancelled \cup {r}
        /\ cutBy' = [cutBy EXCEPT ![r] = asr.item]
        /\ armed' = IF armed = r THEN NoReply ELSE armed
  /\ UNCHANGED <<stage, written, ducked, speaking, gate, owed, stranded, captures, asrQ>>

-----------------------------------------------------------------------------
BiNext ==
  \/ \E r \in All : BeginReply(r) \/ WriteSlice(r) \/ EndReply(r)
  \/ OpenCapture \/ Candidate \/ CloseCapture \/ HandOver \/ HearIdle
  \/ TakeWork \/ Reject \/ Accept

\* The pool, the audio device, the gate's endpointing and the ASR worker run.
BiFairness ==
  /\ \A r \in All : WF_biVars(BeginReply(r) \/ WriteSlice(r) \/ EndReply(r))
  /\ WF_biVars(Candidate \/ CloseCapture \/ HandOver)
  /\ WF_biVars(TakeWork \/ Reject \/ Accept)

BiSpec == BiInit /\ [][BiNext]_biVars /\ BiFairness

-----------------------------------------------------------------------------
(* A reply is only ever cut short by something that was said over that reply,   *)
(* however long the recording waited in the queue and was transcribed: but for  *)
(* a recording of an earlier reply that had ended before the dispatcher came to *)
(* hand it over, which is tagged to the reply in the detector by then           *)
(* (_on_barge_vad_utterance reads the session after the gate's lock).           *)
CutsAnswerTheirOwnReply ==
  \A r \in cancelled : cutBy[r].over = r \/ (cutBy[r].late /\ cutBy[r].over < r)

Pending(r) ==
  \/ gate.active /\ gate.over = r
  \/ owed.to = "utterance" /\ owed.over = r
  \/ asr.pc = "confirm" /\ asr.item.reply = r
  \/ \E i \in 1 .. Len(asrQ) : asrQ[i].kind = "barge_in" /\ asrQ[i].reply = r

(* Ducking is for the time a candidate is looked at: a reply that goes on at    *)
(* the low volume has its capture under way, handed over, queued or being       *)
(* transcribed, and whatever ends that restores the volume.  Two cases of the   *)
(* code are set apart as stranded: the capture ended under min_speech_ms, and   *)
(* the gate tells nobody; the candidate was heard over the reply before, and    *)
(* its callback came after this one had begun.  A later capture over the reply  *)
(* may end either.                                                              *)
DucksAreBrief ==
  \A r \in All : stage[r] = "playing" /\ r \in ducked \ cancelled => Pending(r) \/ r \in stranded

=============================================================================
