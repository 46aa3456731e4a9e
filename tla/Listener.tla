------------------------------- MODULE Listener --------------------------------
(* From a clip of speech to the words that answer it (butler/voice/agent.py): the  *)
(* one worker that transcribes, the cue that acknowledges the wake word on a       *)
(* thread of its own, and the playback it shares the speaking flag with.           *)
EXTENDS Integers, Sequences

CONSTANTS
  Clips,      \* bound: clips the recognizer delivers
  Sayings,    \* bound: announcements (POST /speak) that wait to be spoken
  QueueLimit, \* the queue of the ASR worker
  CueSlices, Slices, \* slices of the cue and of a reply
  Fallback,   \* BUTLER_REMOTE_STT_FALLBACK
  Faults      \* what may go wrong: "stt", "device", "capture"

ListenerAssumption ==
  /\ {Clips, Sayings} \subseteq Nat /\ {QueueLimit, CueSlices, Slices} \subseteq Nat \ {0}
  /\ Fallback \in BOOLEAN

VARIABLES
  clips,          \* how many were heard
  queue, asr,     \* the clips that wait, and the one in hand
  latch,          \* _stt_unavailable
  event, cue,     \* _wake_cue_event and its thread
  unmet,          \* a wake word that no cue was begun for
  waiting,        \* replies that wait for the playback lock
  reply,          \* the one that has it: pc, slices, cancelled
  healthy,        \* the duplex pipeline runs
  flag,           \* it is told that we speak
  session,        \* the detector watches the reply
  handed          \* the cue gave the flag back since the last slice of the reply

listenerVars == <<clips, queue, asr, latch, event, cue, unmet, waiting, reply, healthy,
                  flag, session, handed>>

Kinds == {"other", "bare", "command"}
ears == <<clips, queue, asr, latch>>
cueVars == <<event, cue, unmet>>
speech == <<waiting, reply, session, handed>>
NoReply == [pc |-> "none", slices |-> 0, cancelled |-> FALSE]
NoCue == [pc |-> "wait", slices |-> 0, declared |-> FALSE]
Available == ~latch /\ healthy   \* _barge_in_available

LsInit ==
  /\ clips = 0 /\ queue = <<>> /\ asr = [pc |-> "get", clip |-> "other"]
  /\ latch = FALSE /\ event = FALSE /\ cue = NoCue /\ unmet = FALSE
  /\ waiting \in {0, 1}  \* the boot phrase
  /\ reply = NoReply /\ healthy = TRUE /\ flag = FALSE /\ session = FALSE /\ handed = FALSE

-----------------------------------------------------------------------------
(* From the clip to the command                                                  *)

\* recognition_callback: a reader of a speaking pipeline is given silence, and a full
\* queue drops the clip.
Hear(clip) ==
  /\ healthy /\ ~flag /\ clips < Clips /\ clips' = clips + 1
  /\ queue' = IF Len(queue) < QueueLimit THEN Append(queue, clip) ELSE queue
  /\ UNCHANGED <<cueVars, speech, healthy, asr, latch, flag>>

\* _dispatch: a capture device that is gone ends the pipeline for good, and whoever
\* reads from it hears nothing.
Die ==
  /\ healthy /\ "capture" \in Faults /\ healthy' = FALSE /\ flag' = FALSE
  /\ UNCHANGED <<ears, cueVars, speech>>

\* _asr_loop and the energy gate of _process_recognition_audio, under which nobody speaks.
Take ==
  /\ asr.pc = "get" /\ queue # <<>> /\ queue' = Tail(queue)
  /\ \/ asr' = [pc |-> "transcribe", clip |-> Head(queue)]
     \/ Head(queue) = "other" /\ UNCHANGED asr
  /\ UNCHANGED <<cueVars, speech, healthy, clips, latch, flag>>

\* _acquire_transcript: the first local failure is for good, and without the remote
\* fallback the clip is lost, like every later one.
Transcribe ==
  /\ asr.pc = "transcribe"
  /\ \/ ~latch /\ asr' = [asr EXCEPT !.pc = "heard"] /\ UNCHANGED latch
     \/ /\ latch \/ "stt" \in Faults
        /\ latch' = TRUE
        /\ asr' = [asr EXCEPT !.pc = IF Fallback THEN "remote" ELSE "get"]
  /\ UNCHANGED <<cueVars, speech, healthy, clips, queue, flag>>

\* The wake gate, and then the remote model; either may end it.
TranscribeRemotely ==
  /\ asr.pc = "remote"
  /\ \/ asr' = [asr EXCEPT !.pc = "heard"]
     \/ (asr.clip = "other" \/ "stt" \in Faults) /\ asr' = [asr EXCEPT !.pc = "get"]
  /\ UNCHANGED <<cueVars, speech, healthy, clips, queue, latch, flag>>

\* The wake word sets the event before anything else; the command goes to the pool.
Address ==
  /\ asr.pc = "heard"
  /\ asr' = [asr EXCEPT !.pc = IF asr.clip = "command" THEN "submit" ELSE "get"]
  /\ event' = (event \/ asr.clip \in {"bare", "command"})
  /\ unmet' = (unmet \/ asr.clip \in {"bare", "command"})
  /\ UNCHANGED <<speech, healthy, clips, queue, latch, cue, flag>>

Submit ==
  /\ asr.pc = "submit" /\ asr' = [asr EXCEPT !.pc = "get"] /\ waiting' = waiting + 1
  /\ UNCHANGED <<cueVars, healthy, clips, queue, latch, reply, flag, session, handed>>

\* run_speak_server answers at once and leaves the words to the pool.
Post ==
  /\ waiting < Sayings /\ waiting' = waiting + 1
  /\ UNCHANGED <<ears, cueVars, healthy, reply, flag, session, handed>>

-----------------------------------------------------------------------------
(* The cue                                                                       *)

\* _wake_cue_loop: waits, clears and plays, in this order.
CueWakes ==
  /\ cue.pc = "wait" /\ event /\ cue' = [cue EXCEPT !.pc = "clear"]
  /\ UNCHANGED <<ears, speech, healthy, event, unmet, flag>>

CueClears ==
  /\ cue.pc = "clear" /\ event' = FALSE /\ cue' = [cue EXCEPT !.pc = "begin"]
  /\ UNCHANGED <<ears, speech, healthy, unmet, flag>>

CueBegins ==
  /\ cue.pc = "begin" /\ unmet' = FALSE
  /\ cue' = [pc |-> "play", slices |-> 0, declared |-> Available]
  /\ UNCHANGED <<ears, speech, healthy, event, flag>>

\* Each slice is declared after it is written; a device that fails ends the cue.
CueSlice ==
  /\ cue.pc = "play"
  /\ \/ /\ cue.slices < CueSlices /\ cue' = [cue EXCEPT !.slices = @ + 1]
        /\ flag' = (flag \/ cue.declared)
     \/ /\ cue.slices = CueSlices \/ "device" \in Faults
        /\ cue' = [cue EXCEPT !.pc = "check"] /\ UNCHANGED flag
  /\ UNCHANGED <<ears, speech, healthy, event, unmet>>

\* The flag is given back unless a reply has claimed it by now: read here, ...
CueChecks ==
  /\ cue.pc = "check"
  /\ cue' = IF cue.declared /\ ~session THEN [cue EXCEPT !.pc = "finish"] ELSE NoCue
  /\ UNCHANGED <<ears, speech, healthy, event, unmet, flag>>

\* ... and cleared here.
CueFinishes ==
  /\ cue.pc = "finish" /\ cue' = NoCue /\ flag' = FALSE /\ handed' = TRUE
  /\ UNCHANGED <<ears, healthy, event, unmet, waiting, reply, session>>

-----------------------------------------------------------------------------
(* The reply                                                                     *)

BeginReply ==
  /\ reply.pc = "none" /\ waiting > 0 /\ waiting' = waiting - 1
  /\ reply' = [NoReply EXCEPT !.pc = "write"] /\ handed' = FALSE
  /\ UNCHANGED <<ears, cueVars, healthy, flag, session>>

\* _write_pcm: the slice that turns the flag on is the one that arms the detector.
WriteSlice ==
  /\ reply.pc = "write" /\ ~reply.cancelled /\ reply.slices < Slices
  /\ reply' = [reply EXCEPT !.slices = @ + 1,
                 !.pc = IF Available /\ ~flag THEN "arm" ELSE "write"]
  /\ flag' = (flag \/ Available) /\ handed' = FALSE
  /\ UNCHANGED <<ears, cueVars, healthy, waiting, session>>

Arm ==
  /\ reply.pc = "arm" /\ reply' = [reply EXCEPT !.pc = "write"] /\ session' = TRUE
  /\ UNCHANGED <<ears, cueVars, healthy, waiting, flag, handed>>

\* _accept_barge_in: only a reply that the detector watches is cut (BargeIn).
Interrupt ==
  /\ session /\ asr.pc = "get" /\ ~reply.cancelled /\ session' = FALSE
  /\ reply' = [reply EXCEPT !.cancelled = TRUE]
  /\ UNCHANGED <<ears, cueVars, healthy, waiting, flag, handed>>

\* speak_stream returns; _disarm_playback disarms, and then puts the flag down.
Disarm ==
  /\ reply.pc = "write" /\ (reply.cancelled \/ reply.slices = Slices \/ "device" \in Faults)
  /\ reply' = [reply EXCEPT !.pc = "finish"] /\ session' = FALSE
  /\ UNCHANGED <<ears, cueVars, healthy, waiting, flag, handed>>

Finish ==
  /\ reply.pc = "finish" /\ reply' = NoReply /\ flag' = FALSE
  /\ UNCHANGED <<ears, cueVars, healthy, waiting, session, handed>>

LsNext ==
  \/ (\E clip \in Kinds : Hear(clip))
  \/ Die \/ Take \/ Transcribe \/ TranscribeRemotely \/ Address \/ Submit \/ Post
  \/ CueWakes \/ CueClears \/ CueBegins \/ CueSlice \/ CueChecks \/ CueFinishes
  \/ BeginReply \/ WriteSlice \/ Arm \/ Interrupt \/ Disarm \/ Finish

LsSpec == LsInit /\ [][LsNext]_listenerVars

-----------------------------------------------------------------------------
ListenerTypeOK ==
  /\ clips \in 0 .. Clips
  /\ Len(queue) <= QueueLimit /\ asr.clip \in Kinds
  /\ asr.pc \in {"get", "transcribe", "remote", "heard", "submit"}
  /\ cue.pc \in {"wait", "clear", "begin", "play", "check", "finish"}
  /\ reply.pc \in {"none", "write", "arm", "finish"} /\ waiting \in 0 .. Clips + Sayings + 1

\* The recognizer is given silence only while something is being played: whatever the
\* order in which a cue and a reply end, one of them puts the flag down.
DeafOnlyWhileSpeaking == flag => reply.pc # "none" \/ cue.pc \in {"play", "check", "finish"}

\* A reply that is being heard can be interrupted: the cue may have had the flag when
\* it began, or have taken it away, and the next slice makes up for that.  Only a
\* failed transcriber or a lost microphone makes it deaf.
RepliesAreArmed ==
  /\ reply.pc = "write" /\ reply.slices > 0 /\ ~reply.cancelled /\ Available
     /\ cue.pc \notin {"play", "check", "finish"} /\ ~handed
       => flag /\ session
  /\ session => reply.pc \in {"write", "arm"}

\* Every wake word is acknowledged by a cue that begins after it, one cue for several
\* at the most: a signal during the clear is not lost.
WakesAreMet == unmet => event \/ cue.pc \in {"clear", "begin"}

=============================================================================
