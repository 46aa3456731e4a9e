-------------------------------- MODULE Detector --------------------------------
(* The energy detector of the heuristic back end (BargeInDetector of             *)
(* voice/streaming/barge_in.py, _MicrophoneTap of voice/agent.py): the thread    *)
(* that reads the microphone measures every frame against the echo it has        *)
(* learned and transcribes a capture itself, while the playback thread arms and  *)
(* disarms the detector around each reply.                                       *)
EXTENDS Integers, FiniteSets

CONSTANTS
  Replies,      \* 1..n, in the order they are spoken
  Loudness,     \* the levels of a frame
  Floor,        \* floor_rms
  Margin,       \* echo_margin
  Calibration,  \* calibration_frames
  Trigger,      \* trigger_frames
  Silence,      \* endpoint_silence_ms, in frames
  MinSpeech,    \* min_speech_ms, in frames
  MaxCapture,   \* max_capture_ms, in frames
  Refractory    \* refractory_ms, in frames

DetectorAssumption ==
  /\ Loudness \subseteq Nat /\ IsFiniteSet(Loudness) /\ {Floor, Calibration} \subseteq Nat
  /\ {Replies, Margin, Trigger, Silence, MinSpeech, MaxCapture, Refractory} \subseteq Nat \ {0}

NoReply == 0
All == 1 .. Replies

VARIABLES
  stage,      \* reply -> "queued", "playing", "ended"
  ducked, cancelled,  \* the replies whose session is
  state,      \* "idle", "listening", "capturing"
  session,    \* the reply the detector is armed for
  peak,       \* _echo_peak, which outlives the replies
  measured,   \* _calibration_frames
  hot,        \* _hot_frames
  capture,    \* its frames, those with speech, the silence at its end, its reply
  settling,   \* frames until _refractory_until
  mic         \* the microphone thread, and the reply it confirms a capture for

detectorVars == <<stage, ducked, cancelled, state, session, peak, measured, hot, capture,
                  settling, mic>>

NoCapture == [frames |-> 0, speech |-> 0, silence |-> 0, of |-> NoReply]
AtRest == [pc |-> "read", of |-> NoReply]

DeInit ==
  /\ stage = [r \in All |-> "queued"] /\ ducked = {} /\ cancelled = {}
  /\ state = "idle" /\ session = NoReply /\ peak = 0 /\ measured = 0 /\ hot = 0
  /\ capture = NoCapture /\ settling = 0 /\ mic = AtRest

-----------------------------------------------------------------------------
(* Playback                                                                     *)

Arm(r) ==
  /\ session' = r /\ state' = "listening"
  /\ measured' = 0 /\ settling' = 0 /\ hot' = 0 /\ capture' = NoCapture

BeginReply(r) ==
  /\ stage[r] = "queued" /\ \A s \in All : stage[s] # "playing" /\ (s < r => stage[s] = "ended")
  /\ stage' = [stage EXCEPT ![r] = "playing"] /\ Arm(r)
  /\ UNCHANGED <<ducked, cancelled, peak, mic>>

\* disarm: nothing happens to a detector that watches another reply by now.
Disarm(r) ==
  IF session # r THEN UNCHANGED <<session, state, hot, capture>>
  ELSE session' = NoReply /\ state' = "idle" /\ hot' = 0 /\ capture' = NoCapture

EndReply(r) ==
  /\ stage[r] = "playing" /\ stage' = [stage EXCEPT ![r] = "ended"] /\ Disarm(r)
  /\ UNCHANGED <<ducked, cancelled, peak, measured, settling, mic>>

-----------------------------------------------------------------------------
(* The microphone                                                               *)

\* should_mute_recognizer: an armed detector gets the frame, the recognizer silence.
Check ==
  /\ mic.pc = "read" /\ state # "idle" /\ mic' = [mic EXCEPT !.pc = "observe"]
  /\ UNCHANGED <<stage, ducked, cancelled, state, session, peak, measured, hot, capture, settling>>

Threshold(sounding) == IF sounding /\ peak * Margin > Floor THEN peak * Margin ELSE Floor
Larger(a, b) == IF a > b THEN a ELSE b
Settled == settling' = IF settling > 0 THEN settling - 1 ELSE 0

\* The first frames of every reply are taken for its echo.
Calibrate(level) ==
  /\ measured < Calibration
  /\ peak' = Larger(level, peak) /\ measured' = measured + 1 /\ hot' = 0 /\ Settled
  /\ UNCHANGED <<state, capture, ducked>>

\* A frame under the threshold is echo and teaches its level, which decays; enough
\* loud frames in a row begin a capture with the lead-in and duck the reply.
Listen(level, sounding) ==
  /\ measured' = measured
  /\ LET loud == level > Threshold(sounding)
         run == IF loud /\ settling = 0 THEN hot + 1 ELSE 0
     IN /\ IF sounding /\ ~loud
             THEN \E old \in {peak, Larger(peak - 1, 0)} : peak' = Larger(level, old)
             ELSE peak' = peak
        /\ Settled
        /\ IF run < Trigger
             THEN hot' = run /\ UNCHANGED <<state, capture, ducked>>
             ELSE /\ hot' = 0 /\ state' = "capturing" /\ ducked' = ducked \cup {session}
                  /\ capture' = [frames |-> Trigger, speech |-> 0, silence |-> 0, of |-> session]

\* Too little speech: nothing for the recognizer, the volume is restored.
Settle == settling' = Refractory /\ ducked' = ducked \ {session}

\* A lower bar keeps a capture going than began it.
Record(level, sounding) ==
  LET speech == 5 * level > 3 * Threshold(sounding)
      grown == [capture EXCEPT !.frames = @ + 1,
                               !.speech = IF speech THEN @ + 1 ELSE @,
                               !.silence = IF speech THEN 0 ELSE @ + 1]
      over == grown.silence >= Silence \/ grown.frames >= MaxCapture
  IN /\ UNCHANGED <<peak, measured, hot>>
     /\ \/ /\ ~over /\ capture' = grown /\ Settled /\ mic' = AtRest
           /\ UNCHANGED <<state, ducked>>
        \/ /\ over /\ capture' = NoCapture /\ state' = "listening"
           /\ IF grown.speech < MinSpeech THEN Settle /\ mic' = AtRest
              ELSE Settled /\ UNCHANGED ducked /\ mic' = [pc |-> "captured", of |-> capture.of]

\* observe_input; the reply may have been disarmed since the check.
Observe(level, sounding) ==
  /\ mic.pc = "observe"
  /\ \/ /\ state = "idle" /\ mic' = AtRest
        /\ UNCHANGED <<state, peak, measured, hot, capture, settling, ducked>>
     \/ /\ state = "listening" /\ mic' = AtRest
        /\ IF sounding /\ measured < Calibration THEN Calibrate(level) ELSE Listen(level, sounding)
     \/ state = "capturing" /\ Record(level, sounding)
  /\ UNCHANGED <<stage, cancelled, session>>

\* _confirm_barge_in takes the reply that is armed by now.
Confirm ==
  /\ mic.pc = "captured"
  /\ mic' = IF session = NoReply \/ session \in cancelled THEN AtRest
            ELSE [pc |-> "confirm", of |-> session]
  /\ UNCHANGED <<stage, ducked, cancelled, state, session, peak, measured, hot, capture, settling>>

\* Nobody, an echo or an error: resume_after_rejection.
Reject ==
  /\ mic.pc = "confirm" /\ mic' = AtRest
  /\ ducked' = ducked \ {session} /\ settling' = Refractory /\ hot' = 0
  /\ UNCHANGED <<stage, cancelled, state, session, peak, measured, capture>>

Accept ==
  /\ mic.pc = "confirm" /\ mic' = AtRest
  /\ cancelled' = cancelled \cup {mic.of} /\ Disarm(mic.of)
  /\ UNCHANGED <<stage, ducked, peak, measured, settling>>

DeNext ==
  \/ \E r \in All : BeginReply(r) \/ EndReply(r)
  \/ Check \/ (\E level \in Loudness, sounding \in BOOLEAN : Observe(level, sounding))
  \/ Confirm \/ Reject \/ Accept

DeSpec == DeInit /\ [][DeNext]_detectorVars

-----------------------------------------------------------------------------
DetectorTypeOK ==
  /\ stage \in [All -> {"queued", "playing", "ended"}] /\ ducked \cup cancelled \subseteq All
  /\ state \in {"idle", "listening", "capturing"} /\ session \in All \cup {NoReply}
  /\ peak \in Nat /\ measured \in 0 .. Calibration
  /\ hot \in 0 .. Trigger - 1 /\ settling \in 0 .. Refractory
  /\ mic.pc \in {"read", "observe", "captured", "confirm"}

\* A reply that goes on at the low volume has a capture under way or in transcription:
\* coughs, rejected captures and failed transcriptions all restore the volume.
CandidatesAreBrief ==
  \A r \in All : stage[r] = "playing" /\ r \in ducked \ cancelled =>
    state = "capturing" \/ mic.pc \in {"captured", "confirm"}

\* The detector watches the reply that plays until the user has cut it, and what it
\* records was all said over it: the end of a transcription that began over an earlier
\* reply does not disarm the one that replaced it.
RepliesAreWatched ==
  /\ \A r \in All : stage[r] = "playing" /\ r \notin cancelled => session = r
  /\ state = "capturing" => capture.of = session /\ session \in ducked

=============================================================================
