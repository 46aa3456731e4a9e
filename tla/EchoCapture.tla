---------------------------- MODULE EchoCapture -----------------------------
(* The start and the end of the echo-cancelled microphone: the thread of the  *)
(* room voice worker that starts it or falls back to the plain microphone     *)
(* (_start_aec_duplex, run_voice_recognition), the thread of the Windows       *)
(* AudioGraph (WindowsAecCapture) with the callback of its quanta, and the     *)
(* dispatcher of the pipeline over it (DuplexAudioPipeline).                  *)
EXTENDS Integers

CONSTANTS Depth,  \* bound of the capture queue, in frames
          Faults  \* subset of {"moved", "query", "create", "nodes", "slow", "quantum"}

EchoCaptureAssumption ==
  /\ Depth \in Nat \ {0}
  /\ Faults \subseteq {"moved", "query", "create", "nodes", "slow", "quantum"}

VARIABLES starter,   \* the thread that starts it all
          graph,     \* [pc, failing]: the AudioGraph thread
          handle,    \* WindowsAecCapture._thread is set
          stopping,  \* WindowsAecCapture._stop
          ready,     \* WindowsAecCapture._ready
          error,     \* WindowsAecCapture._error is set
          sink,      \* WindowsAecCapture._on_frame is set
          reference, \* how the echo reference is bound
          outlet,    \* a default endpoint is no longer the pinned one: "render", "capture"
          frames,    \* in the capture queue
          running,   \* DuplexAudioPipeline._running
          halted,    \* DuplexAudioPipeline._stop
          dispatcher,
          left       \* threads a join gave up on

ecVars == <<starter, graph, handle, stopping, ready, error, sink, reference, outlet, frames,
            running, halted, dispatcher, left>>
source == <<graph, handle, stopping, ready, error, sink, reference>>
pipe == <<frames, running, halted, dispatcher>>

EchoCaptureTypeOK ==
  /\ starter \in {"new", "starting", "waiting", "ready", "joining", "halting", "up", "fallback"}
  /\ graph \in [pc : {"none", "started", "inside", "open", "closing", "closed", "ended"},
                failing : BOOLEAN]
  /\ {handle, stopping, ready, error, sink, running, halted} \subseteq BOOLEAN
  /\ reference \in {"none", "explicit", "default"}
  /\ outlet \in {"pinned", "render", "capture"}
  /\ frames \in 0 .. Depth
  /\ dispatcher \in {"none", "running", "ended"}
  /\ left \subseteq {"graph", "dispatcher"}

EcInit ==
  /\ starter = "new" /\ graph = [pc |-> "none", failing |-> FALSE]
  /\ handle = FALSE /\ stopping = FALSE /\ ready = FALSE /\ error = FALSE /\ sink = FALSE
  /\ reference = "none" /\ outlet = "pinned" /\ frames = 0
  /\ running = FALSE /\ halted = FALSE /\ dispatcher = "none" /\ left = {}

Alive == handle /\ graph.pc \notin {"none", "ended"}
\* DuplexAudioPipeline.healthy
Healthy == running /\ Alive /\ ~error

-----------------------------------------------------------------------------
(* The starting thread.                                                       *)

\* The pinned endpoints must be the defaults; then the dispatcher runs before its
\* source does.
Start ==
  /\ starter = "new"
  /\ IF outlet = "pinned"
       THEN starter' = "starting" /\ running' = TRUE /\ halted' = FALSE /\ dispatcher' = "running"
       ELSE starter' = "fallback" /\ UNCHANGED <<running, halted, dispatcher>>
  /\ UNCHANGED <<source, outlet, frames, left>>

\* WindowsAecCapture.start, under its lock: the effect is queried, and bound to the
\* render endpoint or checked to follow it.
QueryAec(mode) ==
  /\ starter = "starting"
  /\ sink' = TRUE /\ stopping' = FALSE /\ ready' = FALSE /\ error' = FALSE
  /\ \/ /\ mode = "default" => outlet # "render"
        /\ reference' = mode
        /\ handle' = TRUE /\ graph' = [graph EXCEPT !.pc = "started"]
        /\ starter' = "waiting"
     \/ /\ "query" \in Faults \/ (mode = "default" /\ outlet = "render")
        /\ starter' = "halting"
        /\ UNCHANGED <<reference, handle, graph>>
  /\ UNCHANGED <<pipe, outlet, left>>

\* _ready.wait, at most startup_timeout.
AwaitReady ==
  /\ starter = "waiting"
  /\ \/ ready /\ starter' = "ready" /\ UNCHANGED stopping
     \/ ~ready /\ "slow" \in Faults /\ starter' = "joining" /\ stopping' = TRUE
  /\ UNCHANGED <<graph, handle, ready, error, sink, reference, pipe, outlet, left>>

\* The error is read after the event, under the lock.
CheckError ==
  /\ starter = "ready"
  /\ IF error THEN starter' = "joining" /\ stopping' = TRUE
              ELSE starter' = "up" /\ UNCHANGED stopping
  /\ UNCHANGED <<graph, handle, ready, error, sink, reference, pipe, outlet, left>>

\* WindowsAecCapture.stop joins the graph's thread for a while and lets go of it.
JoinGraph ==
  /\ starter = "joining"
  /\ graph.pc = "ended" \/ "slow" \in Faults
  /\ left' = IF graph.pc = "ended" THEN left ELSE left \cup {"graph"}
  /\ handle' = FALSE /\ sink' = FALSE /\ starter' = "halting"
  /\ UNCHANGED <<graph, stopping, ready, error, reference, pipe, outlet>>

\* DuplexAudioPipeline.stop, and the plain microphone.
Halt ==
  /\ starter = "halting"
  /\ halted' = TRUE /\ stopping' = TRUE /\ sink' = FALSE
  /\ starter' = "fallback" /\ running' = FALSE
  /\ left' = IF dispatcher = "ended" THEN left ELSE left \cup {"dispatcher"}
  /\ UNCHANGED <<graph, handle, ready, error, reference, frames, dispatcher, outlet>>

Starter == \/ Start \/ (\E mode \in {"explicit", "default"} : QueryAec(mode))
           \/ AwaitReady \/ CheckError \/ JoinGraph \/ Halt

-----------------------------------------------------------------------------
(* The graph's thread, and the callback of a quantum.                         *)

Graph(pc, failing) == graph' = [pc |-> pc, failing |-> failing]

\* Until the graph exists, an error goes straight to _thread_main, which writes it and
\* then sets the event.
CreateGraph ==
  /\ graph.pc = "started"
  /\ \/ Graph("inside", FALSE) /\ UNCHANGED <<error, ready>>
     \/ "create" \in Faults /\ Graph("ended", TRUE) /\ error' = TRUE /\ ready' = TRUE
  /\ UNCHANGED <<starter, handle, stopping, sink, reference, pipe, outlet, left>>

OpenNodes ==
  /\ graph.pc = "inside"
  /\ \/ Graph("open", FALSE) /\ ready' = TRUE /\ UNCHANGED stopping
     \/ "nodes" \in Faults /\ Graph("closing", TRUE) /\ stopping' = TRUE /\ UNCHANGED ready
  /\ UNCHANGED <<starter, handle, error, sink, reference, pipe, outlet, left>>

\* The loop looks at the stop event, and now and then at the default endpoints.
Misplaced == outlet = "capture" \/ (outlet = "render" /\ reference = "default")
Poll ==
  /\ graph.pc = "open" /\ (stopping \/ Misplaced)
  /\ Graph("closing", ~stopping) /\ stopping' = TRUE
  /\ UNCHANGED <<starter, handle, ready, error, sink, reference, pipe, outlet, left>>

\* The finally clause sets the event before _thread_main has written the error.
CloseGraph ==
  /\ graph.pc = "closing"
  /\ Graph("closed", graph.failing) /\ ready' = TRUE
  /\ UNCHANGED <<starter, handle, stopping, error, sink, reference, pipe, outlet, left>>

EndThread ==
  /\ graph.pc = "closed"
  /\ Graph("ended", graph.failing) /\ error' = (error \/ graph.failing)
  /\ UNCHANGED <<starter, handle, stopping, ready, sink, reference, pipe, outlet, left>>

\* A quantum is queued, the oldest one making room; an error of the callback itself
\* stays for good.
Quantum ==
  /\ graph.pc = "open"
  /\ \/ /\ frames' = IF sink /\ frames < Depth THEN frames + 1 ELSE frames
        /\ UNCHANGED error
     \/ "quantum" \in Faults /\ error' = TRUE /\ UNCHANGED frames
  /\ UNCHANGED <<starter, graph, handle, stopping, ready, sink, reference, running, halted,
                 dispatcher, outlet, left>>

\* Another device becomes a default endpoint.
MoveDefault ==
  /\ "moved" \in Faults /\ outlet = "pinned"
  /\ outlet' \in {"render", "capture"}
  /\ UNCHANGED <<starter, source, pipe, left>>

-----------------------------------------------------------------------------
(* The dispatcher.                                                            *)

Dispatch ==
  /\ dispatcher = "running"
  /\ \/ halted /\ dispatcher' = "ended" /\ UNCHANGED <<frames, running, halted>>
     \/ /\ ~halted /\ frames > 0
        /\ frames' = frames - 1
        /\ UNCHANGED <<running, halted, dispatcher>>
     \/ /\ ~halted /\ frames = 0 /\ (error \/ ~Alive)
        /\ running' = FALSE /\ halted' = TRUE
        /\ UNCHANGED <<frames, dispatcher>>
  /\ UNCHANGED <<starter, source, outlet, left>>

GraphThread == CreateGraph \/ OpenNodes \/ Poll \/ CloseGraph \/ EndThread

EcNext == Starter \/ GraphThread \/ Quantum \/ MoveDefault \/ Dispatch

-----------------------------------------------------------------------------

\* The plain microphone is used only once the pipeline delivers nothing more: its
\* readers are released, no quantum reaches it, and the graph is on its way down
\* wherever its thread is.
FallbackIsAlone ==
  starter = "fallback" =>
    /\ ~running /\ ~sink
    /\ dispatcher # "none" => halted
    /\ graph.pc \notin {"none", "ended"} => stopping /\ "graph" \in left

\* A start that returns means a graph that was opened, or that failed at its nodes with
\* the error still unwritten: never one that is still being created or could not be.
\* A failure it missed is in the snapshot once the thread has ended.
UpMeansOpened ==
  starter = "up" => /\ graph.pc \in {"open", "closing", "closed", "ended"} /\ handle
                    /\ graph.pc = "ended" => ~Healthy /\ (graph.failing => error)

\* A capture that lost its echo reference or was told to stop closes its graph, and the
\* readers of a pipeline whose source has ended are released.
GraphsClose == (graph.pc = "open" /\ (stopping \/ Misplaced)) ~> (graph.pc = "ended")
ReadersAreReleased == (starter = "up" /\ graph.pc = "ended") ~> halted

=============================================================================
