-------------------------------- MODULE Capture --------------------------------
(* How the room is listened to while replies come and go: the duplex pipeline   *)
(* hands every clean frame of the microphone to the recognizer's queue and to   *)
(* one of two voice-activity gates (voice/streaming/duplex.py, vad.py and       *)
(* _on_clean_aec_frame of voice/agent.py).  The barge-in gate listens while a   *)
(* reply is played; between replies either the idle gate listens, or nobody     *)
(* does and the recognizer takes what is in its queue.                          *)
EXTENDS Integers, Sequences, FiniteSets, SequencesExt

CONSTANTS
  Ring,       \* preroll_ms, in frames
  Start,      \* start_frames
  Silence,    \* end_silence_ms, in frames
  MinSpeech,  \* min_speech_ms, in frames
  MaxLength,  \* max_utterance_ms, in frames
  Depth,      \* recognizer_queue_frames
  Frames,     \* bound on the frames
  Replies     \* bound on the replies

CaptureAssumption ==
  /\ {Ring, Start, Silence, MinSpeech, MaxLength, Depth} \subseteq Nat \ {0}
  /\ Start + Silence <= Ring /\ Ring < MaxLength /\ {Frames, Replies} \subseteq Nat

\* The probability of a frame: over start_probability, over end_probability, under.
Sounds == {"speech", "trailing", "quiet"}

VARIABLES
  endpointing,  \* _vad_endpointing_active: the idle gate and no recognizer
  frame,        \* frames dispatched so far
  speaking,     \* the pipeline's flag
  left,         \* replies still to come
  lane,         \* _vad_lane: "barge_in", "idle", "none"
  barge, idle,  \* the two gates
  voiced,       \* the frames in which somebody was heard
  last,         \* the last utterance of the idle gate: its frames, its end
  recognizer,   \* the recognizer's queue: "room" or "echo", or "late" for the echo
                \* that was still unread when the reply ended
  hand,         \* the frame read_for_recognizer has taken, or "none"
  heard         \* the kinds of frame the recognizer was given as they are

captureVars == <<endpointing, frame, speaking, left, lane, barge, idle, voiced, last,
                 recognizer, hand, heard>>
gating == <<lane, barge, idle, voiced, last>>

Deaf == [ring |-> <<>>, active |-> FALSE, capture |-> <<>>, hot |-> 0, speech |-> 0,
         silence |-> 0]
Nothing == [frames |-> <<>>, silent |-> TRUE]

CpInit ==
  /\ endpointing \in BOOLEAN /\ frame = 0 /\ speaking = FALSE /\ left = Replies
  /\ lane = "none" /\ barge = Deaf /\ idle = Deaf /\ voiced = {} /\ last = Nothing
  /\ recognizer = <<>> /\ hand = "none" /\ heard = {}

-----------------------------------------------------------------------------
(* A gate                                                                      *)

LastOf(s, k) == SubSeq(s, IF Len(s) > k THEN Len(s) - k + 1 ELSE 1, Len(s))
Buffered(g, f) == IF g.active THEN g ELSE [g EXCEPT !.ring = LastOf(Append(@, f), Ring)]

\* A candidate starts after enough loud frames in a row, with the lead-in.
Waiting(g, f, sound) ==
  LET h == Buffered(g, f)
      hot == IF sound = "speech" THEN g.hot + 1 ELSE 0
  IN IF hot < Start THEN [h EXCEPT !.hot = hot]
     ELSE [h EXCEPT !.active = TRUE, !.capture = h.ring, !.hot = 0, !.speech = hot,
                    !.silence = 0]

Grown(g, f, sound) ==
  [g EXCEPT !.capture = Append(@, f),
            !.speech = IF sound = "quiet" THEN @ ELSE @ + 1,
            !.silence = IF sound = "quiet" THEN @ + 1 ELSE 0]
Over(g) == g.silence >= Silence \/ Len(g.capture) >= MaxLength

\* The next turn is seeded with the tail of this one.
Seed(capture) == LastOf(capture, Ring)

Observed(g, f, sound) ==
  IF ~g.active THEN Waiting(g, f, sound)
  ELSE LET h == Grown(g, f, sound)
       IN IF Over(h) THEN [Deaf EXCEPT !.ring = Seed(h.capture)] ELSE h

Ended(g, f, sound) == g.active /\ Over(Grown(g, f, sound))
Pending(g) == g.active \/ g.hot > 0

-----------------------------------------------------------------------------
(* The dispatcher                                                              *)

SelectLane ==
  CASE lane = "barge_in" /\ Pending(barge) -> "barge_in"
    [] lane = "idle" /\ Pending(idle) -> "idle"
    [] OTHER -> IF speaking THEN "barge_in" ELSE IF endpointing THEN "idle" ELSE "none"

\* The lead-in that was buffered while the other gate listened is kept.
EnterIdle(g) == [Deaf EXCEPT !.ring = g.ring]

DropOldest(q, f) == LastOf(Append(q, f), Depth)

\* _dispatch and _on_clean_aec_frame: the recognizer's queue, the lane, its gate.
Dispatch(sound) ==
  /\ frame < Frames
  /\ frame' = frame + 1
  /\ voiced' = IF sound = "quiet" \/ ~endpointing THEN voiced ELSE voiced \cup {frame'}
  /\ recognizer' = IF endpointing THEN recognizer
                     ELSE DropOldest(recognizer, IF speaking THEN "echo" ELSE "room")
  /\ lane' = SelectLane
  /\ LET b == IF lane' # lane /\ "barge_in" \in {lane, lane'} /\ lane' # "idle"
                THEN Deaf ELSE barge
         i == IF lane' # lane /\ lane' = "idle" THEN EnterIdle(idle) ELSE idle
     IN /\ barge' = IF lane' = "barge_in" THEN Observed(b, frame', sound) ELSE b
        /\ idle' = CASE lane' = "idle" -> Observed(i, frame', sound)
                     [] lane' = "barge_in" /\ endpointing -> Buffered(i, frame')
                     [] OTHER -> i
        /\ last' = IF lane' = "idle" /\ Ended(i, frame', sound)
                     THEN LET h == Grown(i, frame', sound)
                          IN [frames |-> IF h.speech >= MinSpeech THEN h.capture ELSE <<>>,
                              silent |-> h.silence >= Silence]
                     ELSE last
  /\ UNCHANGED <<endpointing, speaking, left, hand, heard>>

-----------------------------------------------------------------------------
(* The replies, and the recognizer                                             *)

\* note_render_submitted of the first slice.
BeginReply ==
  /\ ~speaking /\ left > 0 /\ left' = left - 1 /\ speaking' = TRUE
  /\ UNCHANGED <<endpointing, frame, gating, recognizer, hand, heard>>

Unread(kind) == IF kind = "echo" THEN "late" ELSE kind

\* _disarm_playback: finish_speaking, and the gate forgets its capture.
EndReply ==
  /\ speaking /\ speaking' = FALSE /\ barge' = Deaf
  /\ recognizer' = [k \in DOMAIN recognizer |-> Unread(recognizer[k])]
  /\ hand' = Unread(hand)
  /\ UNCHANGED <<endpointing, frame, left, lane, idle, voiced, last, heard>>

Take ==
  /\ ~endpointing /\ hand = "none" /\ recognizer # <<>>
  /\ hand' = Head(recognizer) /\ recognizer' = Tail(recognizer)
  /\ UNCHANGED <<endpointing, frame, speaking, left, gating, heard>>

\* The flag is read after the frame was taken: silence instead of what was said
\* while a reply is played.
Hear ==
  /\ hand # "none" /\ hand' = "none"
  /\ heard' = IF speaking THEN heard ELSE heard \cup {hand}
  /\ UNCHANGED <<endpointing, frame, speaking, left, gating, recognizer>>

CpNext ==
  \/ \E sound \in Sounds : Dispatch(sound)
  \/ BeginReply \/ EndReply \/ Take \/ Hear

CpSpec == CpInit /\ [][CpNext]_captureVars

-----------------------------------------------------------------------------
Gates == [ring : Seq(Nat), active : BOOLEAN, capture : Seq(Nat), hot : 0 .. Start,
          speech : Nat, silence : 0 .. Silence]

CaptureTypeOK ==
  /\ lane \in {"barge_in", "idle", "none"} /\ {barge, idle} \subseteq Gates
  /\ frame \in 0 .. Frames /\ left \in 0 .. Replies /\ Len(recognizer) <= Depth
  /\ ToSet(recognizer) \cup heard \subseteq {"room", "echo", "late"}
  /\ voiced \subseteq 1 .. frame

Since(first) == [k \in 1 .. frame - first + 1 |-> first + k - 1]

\* A command spoken right after a reply is recorded from before its first word: the
\* idle gate holds the last frames of the room, however often the lane changed, and a
\* capture has no gap (buffer_only, reset(preserve_preroll=True)).
LeadInIsKept ==
  endpointing =>
    IF idle.active
      THEN idle.capture = Since(Head(idle.capture))
      ELSE Len(idle.ring) = (IF frame < Ring THEN frame ELSE Ring)
           /\ (frame > 0 => idle.ring = Since(Head(idle.ring)))

\* Two commands close together share no more speech than the ring holds beyond the
\* silence that ended the first and the frames that started the second: with the
\* values of _start_aec_duplex 96 ms of it ("only with the most recent tail").  After
\* an utterance cut at its maximal length there is no such silence.
OverlapIsBounded ==
  idle.active /\ last.frames # <<>> =>
    Cardinality(ToSet(idle.capture) \cap ToSet(last.frames) \cap voiced)
      <= Ring - Start - IF last.silent THEN Silence ELSE 0

\* The recognizer hears a reply only in the frames it had not finished reading when
\* the reply ended (read_for_recognizer reads the flag of now).
EchoOnlyFromTheTail == "echo" \notin heard

=============================================================================
