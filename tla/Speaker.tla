------------------------------ MODULE Speaker ------------------------------
(* StreamingSpeaker.speak_stream (butler/voice/streaming/speaker.py): the     *)
(* caller turns model text into sentence chunks, a synthesis thread turns     *)
(* chunks into frames of PCM, a playback thread writes the frames, and two    *)
(* bounded queues lie between them.  should_stop is raised from outside by a  *)
(* barge-in.  Each thread is a record with its program counter.               *)
EXTENDS Integers, Sequences, FiniteSets

CONSTANTS Chunks,     \* sentences of the reply, the last one is the flushed tail
          Frames,     \* frames of PCM the synthesis of a chunk yields
          MaxQueue,   \* max_queue, of both queues
          Faulty      \* "model", "synth" and "sink": which stage may raise

SpeakerAssumption ==
  /\ Chunks \in Nat \ {0} /\ Frames \in Nat \ {0} /\ MaxQueue \in Nat \ {0}
  /\ Faulty \subseteq {"model", "synth", "sink"}

VARIABLES caller,     \* [pc, chunk]: the thread that called speak_stream
          synth,      \* [pc, chunk, frame]
          playback,   \* [pc, playing, frame, partial]
          textQ, pcmQ,
          halted,     \* what should_stop answers
          errors,     \* the stages that raised
          heard,      \* <<chunk, frame>> pairs the sink wrote completely
          reports     \* what on_chunk_playing and on_chunk_partial were told

spVars == <<caller, synth, playback, textQ, pcmQ, halted, errors, heard, reports>>

NoChunk == 0
Close == [kind |-> "close"]
Text(c) == [kind |-> "text", chunk |-> c]
Pcm(c, f) == [kind |-> "pcm", chunk |-> c, frame |-> f]
Done(c) == [kind |-> "done", chunk |-> c]

HasRoom(q) == Len(q) < MaxQueue

SpTypeOK ==
  /\ caller.pc \in {"feed", "check", "wait", "close", "join_synth", "join_playback", "returned"}
  /\ synth.pc \in {"get", "produce", "check", "wait", "last", "dead"}
  /\ playback.pc \in {"get", "sink", "drain", "dead"}
  /\ Len(textQ) <= MaxQueue /\ Len(pcmQ) <= MaxQueue
  /\ heard \subseteq (1 .. Chunks) \X (1 .. Frames)
  /\ errors \subseteq {"model", "synth", "sink"}

SpInit ==
  /\ caller = [pc |-> "feed", chunk |-> NoChunk]
  /\ synth = [pc |-> "get", chunk |-> NoChunk, frame |-> 0]
  /\ playback = [pc |-> "get", playing |-> NoChunk, frame |-> 0, partial |-> FALSE]
  /\ textQ = <<>> /\ pcmQ = <<>>
  /\ halted = FALSE /\ errors = {}
  /\ heard = {} /\ reports = <<>>

-----------------------------------------------------------------------------
(* The caller's thread.                                                       *)

\* One turn of the loop over the deltas: stop, take the next sentence to _put,
\* or come to the end (the tail is flushed only when nothing stopped the reply).
Feed ==
  /\ caller.pc = "feed"
  /\ IF halted \/ caller.chunk = Chunks
       THEN caller' = [caller EXCEPT !.pc = "close"]
       ELSE caller' = [pc |-> "check", chunk |-> caller.chunk + 1]
  /\ UNCHANGED <<synth, playback, textQ, pcmQ, halted, errors, heard, reports>>

\* The generator of deltas raises: the finally clause still closes the queue.
ModelFails ==
  /\ "model" \in Faulty
  /\ caller.pc = "feed" /\ ~halted
  /\ caller' = [caller EXCEPT !.pc = "close"]
  /\ errors' = errors \cup {"model"}
  /\ UNCHANGED <<synth, playback, textQ, pcmQ, halted, heard, reports>>

\* _put on the text queue: look at should_stop, then wait in Queue.put for room,
\* and look again after every timeout.  Only a stop makes it give up.
FeedPut ==
  /\ \/ /\ caller.pc = "check"
        /\ caller' = [caller EXCEPT !.pc = IF halted THEN "feed" ELSE "wait"]
        /\ UNCHANGED textQ
     \/ /\ caller.pc = "wait" /\ HasRoom(textQ)
        /\ textQ' = Append(textQ, Text(caller.chunk))
        /\ caller' = [caller EXCEPT !.pc = "feed"]
     \/ /\ caller.pc = "wait" /\ ~HasRoom(textQ)
        /\ caller' = [caller EXCEPT !.pc = "check"]
        /\ UNCHANGED textQ
  /\ UNCHANGED <<synth, playback, pcmQ, halted, errors, heard, reports>>

\* The finally clause: offer _CLOSE until there is room or the synthesis thread
\* is dead, then join the two threads.
CloseText ==
  /\ caller.pc = "close"
  /\ \/ /\ HasRoom(textQ)
        /\ textQ' = Append(textQ, Close)
     \/ /\ ~HasRoom(textQ) /\ synth.pc = "dead"
        /\ UNCHANGED textQ
  /\ caller' = [caller EXCEPT !.pc = "join_synth"]
  /\ UNCHANGED <<synth, playback, pcmQ, halted, errors, heard, reports>>

Join ==
  /\ \/ /\ caller.pc = "join_synth" /\ synth.pc = "dead"
        /\ caller' = [caller EXCEPT !.pc = "join_playback"]
     \/ /\ caller.pc = "join_playback" /\ playback.pc = "dead"
        /\ caller' = [caller EXCEPT !.pc = "returned"]
  /\ UNCHANGED <<synth, playback, textQ, pcmQ, halted, errors, heard, reports>>

-----------------------------------------------------------------------------
(* The synthesis thread.                                                      *)

\* Chunks taken after the stop are thrown away, so the caller never blocks.
SynthGet ==
  /\ synth.pc = "get" /\ textQ # <<>>
  /\ textQ' = Tail(textQ)
  /\ synth' = IF Head(textQ) = Close THEN [synth EXCEPT !.pc = "last"]
              ELSE IF halted THEN synth
              ELSE [pc |-> "produce", chunk |-> Head(textQ).chunk, frame |-> 0]
  /\ UNCHANGED <<caller, playback, pcmQ, halted, errors, heard, reports>>

\* The next frame of the chunk, or after the last one the mark of its end.
Produce ==
  /\ synth.pc = "produce"
  /\ synth' = [synth EXCEPT !.pc = "check", !.frame = @ + 1]
  /\ UNCHANGED <<caller, playback, textQ, pcmQ, halted, errors, heard, reports>>

SynthFails ==
  /\ "synth" \in Faulty
  /\ synth.pc = "produce" /\ synth.frame < Frames
  /\ synth' = [synth EXCEPT !.pc = "last"]
  /\ errors' = errors \cup {"synth"}
  /\ UNCHANGED <<caller, playback, textQ, pcmQ, halted, heard, reports>>

\* _put on the PCM queue; giving up on a frame leaves the chunk, and the mark
\* that follows gives up as well since a stop is never taken back.
SynthPut ==
  /\ \/ /\ synth.pc = "check"
        /\ synth' = [synth EXCEPT !.pc = IF halted THEN "get" ELSE "wait"]
        /\ UNCHANGED pcmQ
     \/ /\ synth.pc = "wait" /\ HasRoom(pcmQ)
        /\ IF synth.frame <= Frames
             THEN /\ pcmQ' = Append(pcmQ, Pcm(synth.chunk, synth.frame))
                  /\ synth' = [synth EXCEPT !.pc = "produce"]
             ELSE /\ pcmQ' = Append(pcmQ, Done(synth.chunk))
                  /\ synth' = [synth EXCEPT !.pc = "get"]
     \/ /\ synth.pc = "wait" /\ ~HasRoom(pcmQ)
        /\ synth' = [synth EXCEPT !.pc = "check"]
        /\ UNCHANGED pcmQ
  /\ UNCHANGED <<caller, playback, textQ, halted, errors, heard, reports>>

\* The finally clause puts _CLOSE with no timeout and without asking anybody.
CloseSynth ==
  /\ synth.pc = "last" /\ HasRoom(pcmQ)
  /\ pcmQ' = Append(pcmQ, Close)
  /\ synth' = [synth EXCEPT !.pc = "dead"]
  /\ UNCHANGED <<caller, playback, textQ, halted, errors, heard, reports>>

-----------------------------------------------------------------------------
(* The playback thread.                                                       *)

Partial(p) == IF p.partial THEN reports ELSE Append(reports, <<"partial", p.playing>>)

PlaybackGet ==
  /\ playback.pc = "get" /\ pcmQ # <<>>
  /\ pcmQ' = Tail(pcmQ)
  /\ LET item == Head(pcmQ)
         now == [playback EXCEPT
                   !.playing = item.chunk, !.frame = item.frame,
                   !.partial = @ /\ playback.playing = item.chunk]
     IN \/ /\ item.kind = "close"
           /\ playback' = [playback EXCEPT !.pc = "dead"]
           /\ UNCHANGED reports
        \/ /\ item.kind = "done"
           /\ playback' = [playback EXCEPT !.playing = NoChunk, !.partial = FALSE]
           /\ IF playback.playing = item.chunk /\ ~playback.partial /\ ~halted
                THEN reports' = Append(reports, <<"played", item.chunk>>)
                ELSE UNCHANGED reports
        \/ /\ item.kind = "pcm" /\ halted
           /\ playback' = [now EXCEPT !.partial = TRUE]
           /\ reports' = Partial(now)
        \/ /\ item.kind = "pcm" /\ ~halted
           /\ playback' = [now EXCEPT !.pc = "sink"]
           /\ UNCHANGED reports
  /\ UNCHANGED <<caller, synth, textQ, halted, errors, heard>>

\* The sink writes in slices and answers False when a cancellation cut it short;
\* a stop seen after it counts as a cut as well, however much was written.
Sink ==
  /\ playback.pc = "sink"
  /\ \/ /\ heard' = heard \cup {<<playback.playing, playback.frame>>}
     \/ /\ halted /\ UNCHANGED heard
  /\ playback' = [playback EXCEPT !.pc = "get", !.partial = @ \/ halted]
  /\ IF halted THEN reports' = Partial(playback) ELSE UNCHANGED reports
  /\ UNCHANGED <<caller, synth, textQ, pcmQ, halted, errors>>

SinkFails ==
  /\ "sink" \in Faulty
  /\ playback.pc = "sink"
  /\ playback' = [playback EXCEPT !.pc = "drain"]
  /\ errors' = errors \cup {"sink"}
  /\ UNCHANGED <<caller, synth, textQ, pcmQ, halted, heard, reports>>

\* _drain_until_close: an empty queue ends it, whether or not _CLOSE has come.
DrainUntilClose ==
  /\ playback.pc = "drain"
  /\ IF pcmQ = <<>>
       THEN /\ playback' = [playback EXCEPT !.pc = "dead"]
            /\ UNCHANGED pcmQ
       ELSE /\ pcmQ' = Tail(pcmQ)
            /\ playback' = [playback EXCEPT !.pc = IF Head(pcmQ) = Close THEN "dead" ELSE @]
  /\ UNCHANGED <<caller, synth, textQ, halted, errors, heard, reports>>

-----------------------------------------------------------------------------
\* A barge-in cancels the session that should_stop reads, once and for good.
Cancel ==
  /\ ~halted /\ caller.pc # "returned"
  /\ halted' = TRUE
  /\ UNCHANGED <<caller, synth, playback, textQ, pcmQ, errors, heard, reports>>

Caller == Feed \/ ModelFails \/ FeedPut \/ CloseText \/ Join
Synth == SynthGet \/ Produce \/ SynthFails \/ SynthPut \/ CloseSynth
Playback == PlaybackGet \/ Sink \/ SinkFails \/ DrainUntilClose

SpNext == Caller \/ Synth \/ Playback \/ Cancel

\* Three running threads; nothing obliges a user to interrupt.
SpFairness == WF_spVars(Caller) /\ WF_spVars(Synth) /\ WF_spVars(Playback)

SpSpec == SpInit /\ [][SpNext]_spVars /\ SpFairness

-----------------------------------------------------------------------------
Reported(how) == {c \in 1 .. Chunks : \E i \in 1 .. Len(reports) : reports[i] = <<how, c>>}
Started == {c \in 1 .. Chunks : \E f \in 1 .. Frames : <<c, f>> \in heard}
Finished == {c \in 1 .. Chunks : \A f \in 1 .. Frames : <<c, f>> \in heard}

(* What the reports claim was heard was heard, to the last frame, in the order  *)
(* of the reply and once; and once playback is over they leave out at most the  *)
(* one sentence whose end the stop overtook (note_playing and note_partial of   *)
(* the session are all the agent learns about the answer).                      *)
ReportsMatchHearing ==
  /\ Reported("played") \subseteq Finished
  /\ \A i, j \in 1 .. Len(reports) : i < j => reports[i][2] < reports[j][2]
  /\ playback.pc = "dead" /\ errors = {} =>
       /\ Cardinality(Started \ (Reported("played") \cup Reported("partial"))) <= 1
       /\ ~halted => Reported("played") = 1 .. Chunks

(* Interrupted or not, speak_stream comes back: no stage waits for ever on a    *)
(* queue whose other end is gone, as long as neither synthesis nor sink raises. *)
SpeakReturns == <>(caller.pc = "returned" \/ errors \cap {"synth", "sink"} # {})

(* The docstring of speak_stream: an exception of the synthesis or of the sink  *)
(* reaches the caller after the workers are drained.  The code may hang instead.*)
ErrorsReachTheCaller == errors # {} ~> caller.pc = "returned"

=============================================================================
