------------------------------- MODULE RoomProofs -------------------------------
(* The room and the agent, for every value of their constants.  The start of   *)
(* the echo-cancelled microphone, whatever fails: it runs or the plain one     *)
(* does, alone.  The energy detector: it watches the reply that is played.  A  *)
(* turn of the agent: what it says of a command is backed by the command.  The  *)
(* registry as processes start: an edit survives, no incident is left behind.  *)
EXTENDS EchoCapture, Detector, AgentLoop, Seeding, FiniteSetTheorems, TLAPS

-----------------------------------------------------------------------------
(* The start of the echo-cancelled microphone (EchoCapture).                  *)

Opened == {"open", "closing", "closed", "ended"}

GraphRec == [pc : {"none", "started", "inside"} \cup Opened, failing : BOOLEAN]

EcFlags ==
  /\ handle \in BOOLEAN /\ stopping \in BOOLEAN /\ ready \in BOOLEAN /\ error \in BOOLEAN
  /\ sink \in BOOLEAN /\ running \in BOOLEAN /\ halted \in BOOLEAN
EcFields ==
  /\ starter \in {"new", "starting", "waiting", "ready", "joining", "halting", "up", "fallback"}
  /\ graph \in GraphRec
  /\ reference \in {"none", "explicit", "default"} /\ outlet \in {"pinned", "render", "capture"}
  /\ frames \in 0 .. Depth /\ dispatcher \in {"none", "running", "ended"}
  /\ left \subseteq {"graph", "dispatcher"}

\* There is no graph before it is asked for and a thread after; the event means that the
\* graph was opened or could not be, and a thread that failed has left its error.
Steps ==
  /\ starter \in {"new", "starting"} => graph.pc = "none"
  /\ starter \in {"waiting", "ready", "joining", "up"} => graph.pc # "none"
  /\ starter \in {"waiting", "ready", "up"} => handle
  /\ starter = "joining" => stopping
  /\ starter \in {"ready", "up"} => ready
  /\ ready => graph.pc \in Opened
  /\ graph.pc = "ended" /\ graph.failing => error

\* A start that is given up has let go of its graph, or never had one.
LetGo ==
  /\ starter = "new" => ~running /\ ~sink /\ dispatcher = "none"
  /\ starter \in {"halting", "fallback"} /\ graph.pc \notin {"none", "ended"} =>
       stopping /\ "graph" \in left
  /\ starter = "fallback" => ~running /\ ~sink /\ (dispatcher # "none" => halted)

EcInv == EcFlags /\ EcFields /\ Steps /\ LetGo

LEMMA EcInitInv == ASSUME EchoCaptureAssumption, EcInit PROVE EcInv
<1>1. graph \in GraphRec
  BY DEF EcInit, GraphRec
<1>2. frames \in 0 .. Depth
  BY DEF EcInit, EchoCaptureAssumption
<1>3. EcFields
  BY <1>1, <1>2 DEF EcInit, EcFields
<1>4. EcFlags
  BY DEF EcInit, EcFlags
<1> QED BY <1>3, <1>4 DEF EcInit, EcInv, Steps, LetGo, Opened

LEMMA StarterKeeps == ASSUME EchoCaptureAssumption, EcInv, Starter PROVE EcInv'
<1>0. EcFlags /\ EcFields /\ Steps /\ LetGo
  BY DEF EcInv
<1>1. CASE Start
  <2>1. EcFields'
    BY <1>0, <1>1 DEF Start, EcFields, source
  <2>f. EcFlags'
    BY <1>0, <1>1 DEF Start, EcFlags, source
  <2>2. Steps'
    BY <1>0, <1>1 DEF Start, Steps, source
  <2>3. LetGo'
    BY <1>0, <1>1 DEF Start, LetGo, Steps, source
  <2> QED BY <2>f, <2>1, <2>2, <2>3 DEF EcInv
<1>2. ASSUME NEW mode \in {"explicit", "default"}, QueryAec(mode) PROVE EcInv'
  <2>1. graph' = graph \/ graph' = [graph EXCEPT !.pc = "started"]
    BY <1>2 DEF QueryAec
  <2>2. graph' \in GraphRec
    BY <1>0, <2>1 DEF EcFields, GraphRec
  <2>3. EcFields'
    BY <1>0, <1>2, <2>2 DEF QueryAec, EcFields, pipe
  <2>f. EcFlags'
    BY <1>0, <1>2 DEF QueryAec, EcFlags, pipe
  <2>4. /\ starter = "starting" /\ graph.pc = "none" /\ ready' = FALSE /\ left' = left
        /\ \/ starter' = "waiting" /\ handle' = TRUE /\ graph'.pc = "started"
           \/ starter' = "halting" /\ graph' = graph
    <3>1. \/ /\ starter' = "waiting" /\ handle' = TRUE
             /\ graph' = [graph EXCEPT !.pc = "started"]
          \/ starter' = "halting" /\ graph' = graph
      BY <1>2 DEF QueryAec
    <3>2. starter = "starting" /\ ready' = FALSE /\ left' = left
      BY <1>2 DEF QueryAec
    <3> QED BY <1>0, <3>1, <3>2 DEF EcFields, GraphRec, Steps
  <2>5. Steps'
    BY <2>4 DEF Steps
  <2>6. LetGo'
    BY <2>4 DEF LetGo
  <2> QED BY <2>f, <2>3, <2>5, <2>6 DEF EcInv
<1>3. CASE AwaitReady
  <2>1. EcFields'
    BY <1>0, <1>3 DEF AwaitReady, EcFields, pipe
  <2>f. EcFlags'
    BY <1>0, <1>3 DEF AwaitReady, EcFlags, pipe
  <2>2. Steps' /\ LetGo'
    BY <1>0, <1>3 DEF AwaitReady, Steps, LetGo, pipe
  <2> QED BY <2>f, <2>1, <2>2 DEF EcInv
<1>4. CASE CheckError
  <2>1. EcFields'
    BY <1>0, <1>4 DEF CheckError, EcFields, pipe
  <2>f. EcFlags'
    BY <1>0, <1>4 DEF CheckError, EcFlags, pipe
  <2>2. Steps' /\ LetGo'
    BY <1>0, <1>4 DEF CheckError, Steps, LetGo, pipe
  <2> QED BY <2>f, <2>1, <2>2 DEF EcInv
<1>5. CASE JoinGraph
  <2>1. EcFields'
    BY <1>0, <1>5 DEF JoinGraph, EcFields, pipe
  <2>f. EcFlags'
    BY <1>0, <1>5 DEF JoinGraph, EcFlags, pipe
  <2>2. Steps' /\ LetGo'
    BY <1>0, <1>5 DEF JoinGraph, Steps, LetGo, pipe
  <2> QED BY <2>f, <2>1, <2>2 DEF EcInv
<1>6. CASE Halt
  <2>1. EcFields'
    BY <1>0, <1>6 DEF Halt, EcFields
  <2>f. EcFlags'
    BY <1>0, <1>6 DEF Halt, EcFlags
  <2>2. Steps' /\ LetGo'
    BY <1>0, <1>6 DEF Halt, Steps, LetGo
  <2> QED BY <2>f, <2>1, <2>2 DEF EcInv
<1> QED BY <1>1, <1>2, <1>3, <1>4, <1>5, <1>6 DEF Starter

LEMMA GraphGoes ==
  ASSUME NEW at \in {"none", "started", "inside"} \cup Opened, NEW failing \in BOOLEAN,
         Graph(at, failing)
  PROVE  /\ graph' \in GraphRec
         /\ graph'.pc = at /\ graph'.failing = failing
  BY DEF Graph, GraphRec

LEMMA GraphKeeps == ASSUME EchoCaptureAssumption, EcInv, GraphThread \/ Quantum PROVE EcInv'
<1>0. EcFlags /\ EcFields /\ Steps /\ LetGo /\ graph.failing \in BOOLEAN
  BY DEF EcInv, EcFields, GraphRec
<1>1. CASE CreateGraph
  <2>1. \/ Graph("inside", FALSE) /\ UNCHANGED <<error, ready>>
        \/ Graph("ended", TRUE) /\ error' = TRUE /\ ready' = TRUE
    BY <1>1 DEF CreateGraph
  <2>2. /\ graph.pc = "started"
        /\ UNCHANGED <<starter, handle, stopping, sink, reference, pipe, outlet, left>>
    BY <1>1 DEF CreateGraph
  <2>3. /\ graph' \in GraphRec
        /\ \/ graph'.pc = "inside" /\ graph'.failing = FALSE /\ UNCHANGED <<error, ready>>
           \/ graph'.pc = "ended" /\ graph'.failing = TRUE /\ error' = TRUE /\ ready' = TRUE
    BY <1>0, <2>1, GraphGoes DEF Opened
  <2>4. EcFlags'
    BY <1>0, <2>1, <2>2 DEF EcFlags, pipe
  <2>5. EcFields'
    BY <1>0, <2>2, <2>3 DEF EcFields, pipe
  <2>6. Steps'
    BY <1>0, <2>2, <2>3 DEF Steps, pipe, Opened
  <2>7. LetGo'
    BY <1>0, <2>2, <2>3 DEF LetGo, Steps, pipe
  <2> QED BY <2>4, <2>5, <2>6, <2>7 DEF EcInv
<1>2. CASE OpenNodes
  <2>1. \/ Graph("open", FALSE) /\ ready' = TRUE /\ UNCHANGED stopping
        \/ Graph("closing", TRUE) /\ stopping' = TRUE /\ UNCHANGED ready
    BY <1>2 DEF OpenNodes
  <2>2. /\ graph.pc = "inside"
        /\ UNCHANGED <<starter, handle, error, sink, reference, pipe, outlet, left>>
    BY <1>2 DEF OpenNodes
  <2>3. /\ graph' \in GraphRec
        /\ \/ graph'.pc = "open" /\ graph'.failing = FALSE /\ ready' = TRUE /\ UNCHANGED stopping
           \/ graph'.pc = "closing" /\ graph'.failing = TRUE /\ stopping' = TRUE /\ UNCHANGED ready
    BY <1>0, <2>1, GraphGoes DEF Opened
  <2>4. EcFlags'
    BY <1>0, <2>1, <2>2 DEF EcFlags, pipe
  <2>5. EcFields'
    BY <1>0, <2>2, <2>3 DEF EcFields, pipe
  <2>6. Steps'
    BY <1>0, <2>2, <2>3 DEF Steps, pipe, Opened
  <2>7. LetGo'
    BY <1>0, <2>2, <2>3 DEF LetGo, Steps, pipe
  <2> QED BY <2>4, <2>5, <2>6, <2>7 DEF EcInv
<1>3. CASE Poll
  <2>1. Graph("closing", ~stopping) /\ stopping' = TRUE
    BY <1>3 DEF Poll
  <2>2. /\ graph.pc = "open"
        /\ UNCHANGED <<starter, handle, ready, error, sink, reference, pipe, outlet, left>>
    BY <1>3 DEF Poll
  <2>3. /\ graph' \in GraphRec
        /\ graph'.pc = "closing" /\ graph'.failing = ~stopping /\ stopping' = TRUE
    BY <1>0, <2>1, GraphGoes DEF Opened
  <2>4. EcFlags'
    BY <1>0, <2>1, <2>2 DEF EcFlags, pipe
  <2>5. EcFields'
    BY <1>0, <2>2, <2>3 DEF EcFields, pipe
  <2>6. Steps'
    BY <1>0, <2>2, <2>3 DEF Steps, pipe, Opened
  <2>7. LetGo'
    BY <1>0, <2>2, <2>3 DEF LetGo, Steps, pipe
  <2> QED BY <2>4, <2>5, <2>6, <2>7 DEF EcInv
<1>4. CASE CloseGraph
  <2>1. Graph("closed", graph.failing) /\ ready' = TRUE
    BY <1>4 DEF CloseGraph
  <2>2. /\ graph.pc = "closing"
        /\ UNCHANGED <<starter, handle, stopping, error, sink, reference, pipe, outlet, left>>
    BY <1>4 DEF CloseGraph
  <2>3. /\ graph' \in GraphRec
        /\ graph'.pc = "closed" /\ graph'.failing = graph.failing /\ ready' = TRUE
    BY <1>0, <2>1, GraphGoes DEF Opened
  <2>4. EcFlags'
    BY <1>0, <2>1, <2>2 DEF EcFlags, pipe
  <2>5. EcFields'
    BY <1>0, <2>2, <2>3 DEF EcFields, pipe
  <2>6. Steps'
    BY <1>0, <2>2, <2>3 DEF Steps, pipe, Opened
  <2>7. LetGo'
    BY <1>0, <2>2, <2>3 DEF LetGo, Steps, pipe
  <2> QED BY <2>4, <2>5, <2>6, <2>7 DEF EcInv
<1>5. CASE EndThread
  <2>1. Graph("ended", graph.failing) /\ error' = (error \/ graph.failing)
    BY <1>5 DEF EndThread
  <2>2. /\ graph.pc = "closed"
        /\ UNCHANGED <<starter, handle, stopping, ready, sink, reference, pipe, outlet, left>>
    BY <1>5 DEF EndThread
  <2>3. /\ graph' \in GraphRec
        /\ graph'.pc = "ended" /\ graph'.failing = graph.failing /\ error' = (error \/ graph.failing)
    BY <1>0, <2>1, GraphGoes DEF Opened
  <2>4. EcFlags'
    BY <1>0, <2>1, <2>2 DEF EcFlags, pipe
  <2>5. EcFields'
    BY <1>0, <2>2, <2>3 DEF EcFields, pipe
  <2>6. Steps'
    BY <1>0, <2>2, <2>3 DEF Steps, pipe, Opened
  <2>7. LetGo'
    BY <1>0, <2>2, <2>3 DEF LetGo, Steps, pipe
  <2> QED BY <2>4, <2>5, <2>6, <2>7 DEF EcInv
<1>6. CASE Quantum
  <2>1. frames' \in 0 .. Depth
    BY <1>0, <1>6 DEF Quantum, EcFields, EchoCaptureAssumption
  <2>2. EcFields'
    BY <1>0, <1>6, <2>1 DEF Quantum, EcFields
  <2>f. EcFlags'
    BY <1>0, <1>6 DEF Quantum, EcFlags
  <2>3. Steps' /\ LetGo'
    BY <1>0, <1>6 DEF Quantum, Steps, LetGo
  <2> QED BY <2>f, <2>2, <2>3 DEF EcInv
<1> QED BY <1>1, <1>2, <1>3, <1>4, <1>5, <1>6 DEF GraphThread

LEMMA EcStep == EchoCaptureAssumption /\ EcInv /\ [EcNext]_ecVars => EcInv'
<1> SUFFICES ASSUME EchoCaptureAssumption, EcInv, [EcNext]_ecVars PROVE EcInv'
  OBVIOUS
<1>0. EcFlags /\ EcFields /\ Steps /\ LetGo
  BY DEF EcInv
<1>1. CASE UNCHANGED ecVars
  BY <1>1 DEF ecVars, EcInv, EcFlags, EcFields, Steps, LetGo
<1>2. CASE MoveDefault
  <2>1. outlet' \in {"render", "capture"} /\ UNCHANGED <<starter, source, pipe, left>>
    BY <1>2 DEF MoveDefault
  <2> QED BY <1>0, <2>1 DEF source, pipe, EcInv, EcFlags, EcFields, Steps, LetGo
<1>3. CASE Dispatch
  <2>1. frames' \in 0 .. Depth
    BY <1>0, <1>3 DEF Dispatch, EcFields, EchoCaptureAssumption
  <2>2. UNCHANGED <<starter, source, outlet, left>>
    BY <1>3 DEF Dispatch
  <2>3. EcFields'
    BY <1>0, <1>3, <2>1, <2>2 DEF Dispatch, EcFields, source
  <2>f. EcFlags'
    BY <1>0, <1>3, <2>2 DEF Dispatch, EcFlags, source
  <2>4. Steps'
    BY <1>0, <2>2 DEF Steps, source
  <2>5. LetGo'
    BY <1>0, <1>3, <2>2 DEF Dispatch, LetGo, source
  <2> QED BY <2>f, <2>3, <2>4, <2>5 DEF EcInv
<1> QED BY <1>1, <1>2, <1>3, StarterKeeps, GraphKeeps DEF EcNext

LEMMA EcEnds == EcInv => EchoCaptureTypeOK /\ FallbackIsAlone /\ UpMeansOpened
<1> SUFFICES ASSUME EcInv PROVE EchoCaptureTypeOK /\ FallbackIsAlone /\ UpMeansOpened
  OBVIOUS
<1>1. EchoCaptureTypeOK
  BY DEF EcInv, EcFlags, EcFields, EchoCaptureTypeOK, GraphRec, Opened
<1>2. FallbackIsAlone
  BY DEF EcInv, LetGo, FallbackIsAlone
<1>3. UpMeansOpened
  BY DEF EcInv, Steps, UpMeansOpened, Opened, Healthy, Alive
<1> QED BY <1>1, <1>2, <1>3

\* A start of the echo-cancelled capture that returns has opened its graph, whatever
\* fails and whenever, and the plain microphone that replaces it is alone
\* (WindowsAecCapture.start, DuplexAudioPipeline.start): for any depth of the queue.
THEOREM CaptureStartsOrYields ==
  EchoCaptureAssumption =>
    (EcInit /\ [][EcNext]_ecVars => [](EchoCaptureTypeOK /\ FallbackIsAlone /\ UpMeansOpened))
<1> SUFFICES ASSUME EchoCaptureAssumption
             PROVE  EcInit /\ [][EcNext]_ecVars
                      => [](EchoCaptureTypeOK /\ FallbackIsAlone /\ UpMeansOpened)
  OBVIOUS
<1>1. EcInit => EcInv
  BY EcInitInv
<1>2. EcInv /\ [EcNext]_ecVars => EcInv'
  BY EcStep
<1> QED BY <1>1, <1>2, EcEnds, PTL

-----------------------------------------------------------------------------
(* The energy detector (Detector).                                            *)

DeFields ==
  /\ stage \in [All -> {"queued", "playing", "ended"}] /\ ducked \subseteq All /\ cancelled \subseteq All
  /\ state \in {"idle", "listening", "capturing"} /\ session \in All \cup {NoReply}
  /\ mic \in [pc : {"read", "observe", "captured", "confirm"}, of : All \cup {NoReply}]

Recording == [frames : Nat, speech : Nat, silence : Nat, of : All \cup {NoReply}]
DeCounts ==
  /\ capture \in Recording /\ peak \in Nat /\ measured \in 0 .. Calibration
  /\ hot \in 0 .. Trigger - 1 /\ settling \in 0 .. Refractory

\* One reply is played, the detector is armed for it or for none, and no reply is ducked
\* before it is played.
Watch ==
  /\ \A r, s \in All : stage[r] = "playing" /\ stage[s] = "playing" => r = s
  /\ \A r \in All : stage[r] = "playing" /\ r \notin cancelled => session = r
  /\ session # NoReply => stage[session] = "playing"
  /\ state = "idle" <=> session = NoReply
  /\ \A r \in All : stage[r] = "queued" => r \notin ducked

\* One thread records and transcribes, so there is one of the two, and it is about the
\* reply that is ducked.
Candidate ==
  /\ state = "capturing" => /\ capture.of = session /\ session \in ducked
                            /\ mic.pc \in {"read", "observe"}
  /\ \A r \in All : stage[r] = "playing" /\ r \in ducked \ cancelled =>
       state = "capturing" \/ (mic.pc \in {"captured", "confirm"} /\ mic.of = r)
  /\ mic.pc = "confirm" => mic.of # NoReply

DeInv == DeFields /\ DeCounts /\ Watch /\ Candidate

LEMMA NobodyIsNoReply == \A r \in All : r # NoReply
  BY DEF All, NoReply

LEMMA NoRecording == NoCapture \in Recording
  BY DEF NoCapture, Recording

LEMMA DeInitInv == ASSUME DetectorAssumption, DeInit PROVE DeInv
<1>1. DeCounts
  BY NoRecording DEF DetectorAssumption, DeInit, DeCounts
<1>2. DeFields
  BY DEF DeInit, DeFields, AtRest
<1>3. Watch /\ Candidate
  BY <1>2 DEF DeInit, DeFields, AtRest, Watch, Candidate, NoReply
<1> QED BY <1>1, <1>2, <1>3 DEF DeInv

LEMMA PlaybackKeeps ==
  ASSUME DetectorAssumption, DeInv, NEW r \in All, BeginReply(r) \/ EndReply(r) PROVE DeInv'
<1>0. DeFields /\ DeCounts /\ Watch /\ Candidate
  BY DEF DeInv
<1>1. CASE BeginReply(r)
  <2>1. /\ stage[r] = "queued" /\ (\A s \in All : stage[s] # "playing")
        /\ stage' = [stage EXCEPT ![r] = "playing"]
        /\ session' = r /\ state' = "listening"
        /\ ducked' = ducked /\ cancelled' = cancelled /\ mic' = mic
    BY <1>1 DEF BeginReply, Arm
  <2>2. DeCounts'
    BY <1>0, <1>1, NoRecording DEF BeginReply, Arm, DeCounts, DetectorAssumption
  <2>3. DeFields'
    BY <1>0, <2>1 DEF DeFields
  <2>4. Watch' /\ Candidate'
    BY <1>0, <2>1, NobodyIsNoReply DEF DeFields, Watch, Candidate
  <2> QED BY <2>2, <2>3, <2>4 DEF DeInv
<1>2. CASE EndReply(r)
  <2>1. /\ stage[r] = "playing" /\ stage' = [stage EXCEPT ![r] = "ended"]
        /\ IF session # r THEN session' = session /\ state' = state /\ capture' = capture
           ELSE session' = NoReply /\ state' = "idle"
        /\ ducked' = ducked /\ cancelled' = cancelled /\ mic' = mic
    BY <1>2 DEF EndReply, Disarm
  <2>2. DeCounts'
    BY <1>0, <1>2, NoRecording DEF EndReply, Disarm, DeCounts, DetectorAssumption
  <2>3. DeFields'
    BY <1>0, <2>1 DEF DeFields
  <2>4. Watch'
    BY <1>0, <2>1, NobodyIsNoReply DEF DeFields, Watch
  <2>5. Candidate'
    BY <1>0, <2>1, NobodyIsNoReply DEF DeFields, Watch, Candidate
  <2> QED BY <2>2, <2>3, <2>4, <2>5 DEF DeInv
<1> QED BY <1>1, <1>2

LEMMA PeakStays ==
  ASSUME DetectorAssumption, peak \in Nat, NEW level \in Loudness, NEW old \in {peak, Larger(peak - 1, 0)}
  PROVE  Larger(level, old) \in Nat
<1>1. level \in Nat
  BY DEF DetectorAssumption
<1> QED BY <1>1 DEF Larger

LEMMA Grows ==
  ASSUME NEW r \in Recording, NEW spoke \in Nat, NEW still \in Nat
  PROVE  LET g == [r EXCEPT !.frames = @ + 1, !.speech = spoke, !.silence = still]
         IN g \in Recording /\ g.of = r.of
<1> DEFINE f == [r EXCEPT !.frames = @ + 1]
           s == [f EXCEPT !.speech = spoke]
           g == [s EXCEPT !.silence = still]
<1>1. f \in Recording /\ f.of = r.of
  BY DEF Recording
<1> HIDE DEF f
<1>2. s \in Recording /\ s.of = r.of
  BY <1>1 DEF Recording
<1> HIDE DEF s
<1>3. g \in Recording /\ g.of = r.of
  BY <1>2 DEF Recording
<1> QED BY <1>3 DEF s, f

LEMMA ObserveKeeps ==
  ASSUME DetectorAssumption, DeInv, NEW level \in Loudness, NEW sounding \in BOOLEAN,
         Observe(level, sounding)
  PROVE  DeInv'
<1>0. DeFields /\ DeCounts /\ Watch /\ Candidate
  BY DEF DeInv
<1>1. mic.pc = "observe" /\ UNCHANGED <<stage, cancelled, session>>
  BY DEF Observe
<1>2. AtRest.pc = "read" /\ AtRest \in [pc : {"read", "observe", "captured", "confirm"}, of : All \cup {NoReply}]
  BY DEF AtRest
<1>3. ASSUME Settled PROVE settling' \in 0 .. Refractory
  BY <1>0, <1>3 DEF Settled, DeCounts, DetectorAssumption
<1>4. CASE state = "idle" /\ mic' = AtRest
           /\ UNCHANGED <<state, peak, measured, hot, capture, settling, ducked>>
  <2>1. DeCounts'
    BY <1>0, <1>4 DEF DeCounts
  <2> QED BY <1>0, <1>1, <1>2, <1>4, <2>1 DEF DeInv, DeFields, Watch, Candidate
<1>5. CASE state = "listening" /\ mic' = AtRest /\ Calibrate(level) /\ measured < Calibration
  <2>a. /\ peak' = Larger(level, peak) /\ measured' = measured + 1 /\ hot' = 0 /\ Settled
        /\ UNCHANGED <<state, capture, ducked>>
    BY <1>5 DEF Calibrate
  <2>b. peak' \in Nat
    BY <1>0, <2>a, PeakStays DEF DeCounts
  <2>c. measured' \in 0 .. Calibration /\ hot' \in 0 .. Trigger - 1
    BY <1>0, <1>5, <2>a DEF DeCounts, DetectorAssumption
  <2>1. DeCounts'
    BY <1>0, <1>3, <2>a, <2>b, <2>c DEF DeCounts
  <2>2. UNCHANGED <<state, capture, ducked>>
    BY <2>a
  <2> QED BY <1>0, <1>1, <1>2, <1>5, <2>1, <2>2 DEF DeInv, DeFields, Watch, Candidate
<1>6. CASE state = "listening" /\ mic' = AtRest /\ Listen(level, sounding)
  <2>1. /\ measured' = measured /\ Settled
        /\ peak' = peak \/ \E old \in {peak, Larger(peak - 1, 0)} : peak' = Larger(level, old)
    BY <1>6 DEF Listen
  <2>2. \E run \in {hot + 1, 0} :
          IF run < Trigger THEN hot' = run /\ UNCHANGED <<state, capture, ducked>>
          ELSE /\ hot' = 0 /\ state' = "capturing" /\ ducked' = ducked \cup {session}
               /\ capture' = [frames |-> Trigger, speech |-> 0, silence |-> 0, of |-> session]
    BY <1>6 DEF Listen
  <2>a. [frames |-> Trigger, speech |-> 0, silence |-> 0, of |-> session] \in Recording
    BY <1>0 DEF DetectorAssumption, Recording, DeFields
  <2>b. peak' \in Nat
    BY <1>0, <2>1, PeakStays DEF DeCounts
  <2>c. hot' \in 0 .. Trigger - 1 /\ capture' \in Recording
    BY <1>0, <2>2, <2>a DEF DeCounts, DetectorAssumption
  <2>3. DeCounts'
    BY <1>0, <1>3, <2>1, <2>b, <2>c DEF DeCounts
  <2>4. \/ UNCHANGED <<state, capture, ducked>>
        \/ state' = "capturing" /\ ducked' = ducked \cup {session} /\ capture'.of = session
    BY <2>2
  <2>5. session \in All
    BY <1>0, <1>6 DEF DeFields, Watch
  <2> QED BY <1>0, <1>1, <1>2, <1>6, <2>3, <2>4, <2>5 DEF DeInv, DeFields, Watch, Candidate
<1>7. CASE state = "capturing" /\ Record(level, sounding)
  <2>1. /\ UNCHANGED <<peak, measured, hot>>
        /\ \/ /\ capture' \in Recording /\ capture'.of = capture.of
              /\ Settled /\ mic' = AtRest /\ UNCHANGED <<state, ducked>>
           \/ state' = "listening" /\ Settle /\ mic' = AtRest /\ capture' = NoCapture
           \/ /\ state' = "listening" /\ Settled /\ UNCHANGED ducked /\ capture' = NoCapture
              /\ mic' = [pc |-> "captured", of |-> capture.of]
    <3> DEFINE speech == 5 * level > 3 * Threshold(sounding)
               spoke == IF speech THEN capture.speech + 1 ELSE capture.speech
               still == IF speech THEN 0 ELSE capture.silence + 1
               grown == [capture EXCEPT !.frames = @ + 1, !.speech = spoke, !.silence = still]
    <3>1. spoke \in Nat /\ still \in Nat
      BY <1>0 DEF DeCounts, Recording
    <3>2. \/ capture' = grown /\ Settled /\ mic' = AtRest /\ UNCHANGED <<state, ducked>>
          \/ state' = "listening" /\ Settle /\ mic' = AtRest /\ capture' = NoCapture
          \/ /\ state' = "listening" /\ Settled /\ UNCHANGED ducked /\ capture' = NoCapture
             /\ mic' = [pc |-> "captured", of |-> capture.of]
      BY <1>7 DEF Record
    <3>3. UNCHANGED <<peak, measured, hot>>
      BY <1>7 DEF Record
    <3>4. grown \in Recording /\ grown.of = capture.of
      <4> HIDE DEF spoke, still
      <4> QED BY <1>0, <3>1, Grows DEF DeCounts
    <3> HIDE DEF grown
    <3> QED BY <3>2, <3>3, <3>4
  <2>b. capture' \in Recording /\ (capture' # NoCapture => capture'.of = capture.of)
    BY <2>1, NoRecording
  <2>2. DeCounts'
    BY <1>0, <1>3, <2>1, <2>b DEF DeCounts, Settle, DetectorAssumption
  <2>3. capture.of = session /\ session \in All
    BY <1>0, <1>7 DEF DeFields, Watch, Candidate
  <2> QED BY <1>0, <1>1, <1>2, <1>7, <2>1, <2>b, <2>2, <2>3 DEF DeInv, DeFields, Watch, Candidate, Settle
<1> QED BY <1>4, <1>5, <1>6, <1>7 DEF Observe

LEMMA ConfirmKeeps ==
  ASSUME DetectorAssumption, DeInv, Check \/ Confirm \/ Reject \/ Accept PROVE DeInv'
<1>0. DeFields /\ DeCounts /\ Watch /\ Candidate
  BY DEF DeInv
<1>2. AtRest.pc = "read" /\ AtRest \in [pc : {"read", "observe", "captured", "confirm"}, of : All \cup {NoReply}]
  BY DEF AtRest
<1>3. CASE Check
  <2>1. /\ mic.pc = "read" /\ mic' = [mic EXCEPT !.pc = "observe"]
        /\ UNCHANGED <<stage, ducked, cancelled, state, session, peak, measured, hot, capture, settling>>
    BY <1>3 DEF Check
  <2> QED BY <1>0, <2>1 DEF DeInv, DeFields, DeCounts, Watch, Candidate
<1>4. CASE Confirm
  <2>1. /\ mic.pc = "captured"
        /\ mic' = IF session = NoReply \/ session \in cancelled THEN AtRest
                  ELSE [pc |-> "confirm", of |-> session]
        /\ UNCHANGED <<stage, ducked, cancelled, state, session, peak, measured, hot, capture, settling>>
    BY <1>4 DEF Confirm
  <2>2. mic' \in [pc : {"read", "observe", "captured", "confirm"}, of : All \cup {NoReply}]
    BY <1>0, <1>2, <2>1 DEF DeFields
  <2> QED BY <1>0, <1>2, <2>1, <2>2, NobodyIsNoReply DEF DeInv, DeFields, DeCounts, Watch, Candidate
<1>5. CASE Reject
  <2>1. /\ mic.pc = "confirm" /\ mic' = AtRest /\ ducked' = ducked \ {session}
        /\ UNCHANGED <<stage, cancelled, state, session, capture>>
    BY <1>5 DEF Reject
  <2>2. DeCounts'
    BY <1>0, <1>5 DEF Reject, DeCounts, DetectorAssumption
  <2> QED BY <1>0, <1>2, <2>1, <2>2 DEF DeInv, DeFields, Watch, Candidate
<1>6. CASE Accept
  <2>1. /\ mic.pc = "confirm" /\ mic' = AtRest /\ cancelled' = cancelled \cup {mic.of}
        /\ IF session # mic.of THEN session' = session /\ state' = state /\ capture' = capture
           ELSE session' = NoReply /\ state' = "idle"
        /\ UNCHANGED <<stage, ducked>>
    BY <1>6 DEF Accept, Disarm
  <2>2. DeCounts'
    BY <1>0, <1>6, NoRecording DEF Accept, Disarm, DeCounts, DetectorAssumption
  <2>3. mic.of \in All
    BY <1>0, <2>1 DEF DeFields, Candidate
  <2> QED BY <1>0, <1>2, <2>1, <2>2, <2>3 DEF DeInv, DeFields, Watch, Candidate
<1> QED BY <1>3, <1>4, <1>5, <1>6

LEMMA DeStep == DetectorAssumption /\ DeInv /\ [DeNext]_detectorVars => DeInv'
<1> SUFFICES ASSUME DetectorAssumption, DeInv, [DeNext]_detectorVars PROVE DeInv'
  OBVIOUS
<1>1. CASE UNCHANGED detectorVars
  BY <1>1 DEF detectorVars, DeInv, DeFields, DeCounts, Watch, Candidate
<1> QED BY <1>1, PlaybackKeeps, ObserveKeeps, ConfirmKeeps DEF DeNext

LEMMA DeEnds == DeInv => DetectorTypeOK /\ CandidatesAreBrief /\ RepliesAreWatched
  BY DEF DeInv, DeFields, DeCounts, Watch, Candidate, DetectorTypeOK, CandidatesAreBrief,
         RepliesAreWatched

\* A reply at the low volume has a capture under way, and the detector watches the reply
\* that is played and no other (BargeInDetector): for any replies and any thresholds.
THEOREM DetectorIsFair ==
  DetectorAssumption =>
    (DeSpec => [](DetectorTypeOK /\ CandidatesAreBrief /\ RepliesAreWatched))
<1> SUFFICES ASSUME DetectorAssumption
             PROVE  DeSpec => [](DetectorTypeOK /\ CandidatesAreBrief /\ RepliesAreWatched)
  OBVIOUS
<1>1. DeInit => DeInv
  BY DeInitInv
<1>2. DeInv /\ [DeNext]_detectorVars => DeInv'
  BY DeStep
<1> QED BY <1>1, <1>2, DeEnds, PTL DEF DeSpec

-----------------------------------------------------------------------------
(* A turn of the agent (AgentLoop): the inductive invariant.                  *)

\* Each form of a turn has its own places.
Streams == {"preroute", "round"}
Creates == {"create", "collect", "followup"}

\* A turn without a command has had no success, an error that leaves a turn without
\* its row is one of run_command, and the admonition is the one round over the limit.
Earned ==
  /\ turn.pc \in Streams => turn.lane = "stream"
  /\ turn.pc \in Creates => turn.lane = "create"
  /\ succeeded => sent
  /\ turn.pc \in Streams /\ ~retried => rounds <= MaxRounds
  /\ turn.pc = "followup" => rounds < MaxRounds
  /\ turn.pc = "preroute" => unbacked = {} /\ ~succeeded /\ rounds = 0 /\ ~sent

AlInv == AgentLoopTypeOK /\ Earned /\ ClaimsAreBacked /\ OnlyTheLimitStrands /\ SentIsRemembered

TurnRec == [lane : Lanes, pc : {"idle"} \cup Streams \cup Creates, physical : BOOLEAN]
Kinds == {"text", "raw", "result", "denial", "limit", "fallback"}

LEMMA AlTypes ==
  AgentLoopTypeOK <=>
    /\ turn \in TurnRec /\ rounds \in 0 .. MaxRounds + 1 /\ recoveries \in 0 .. MaxRecoveries
    /\ attempted \in BOOLEAN /\ succeeded \in BOOLEAN /\ retried \in BOOLEAN /\ calls \in BOOLEAN
    /\ sent \in BOOLEAN /\ limited \in BOOLEAN
    /\ said \subseteq Kinds /\ unbacked \subseteq said
    /\ thread \in {"none", "answered", "unanswered"} /\ forgotten \subseteq Losses
  BY DEF AgentLoopTypeOK, TurnRec, Kinds, Streams, Creates

LEMMA AlInitInv == ASSUME AgentLoopAssumption, AlInit PROVE AlInv
<1>1. AgentLoopTypeOK
  <2>1. turn \in TurnRec
    BY DEF AlInit, TurnRec, Lanes
  <2>2. rounds \in 0 .. MaxRounds + 1 /\ recoveries \in 0 .. MaxRecoveries
    BY DEF AgentLoopAssumption, AlInit
  <2>3. /\ attempted \in BOOLEAN /\ succeeded \in BOOLEAN /\ retried \in BOOLEAN /\ calls \in BOOLEAN
        /\ sent \in BOOLEAN /\ limited \in BOOLEAN
    BY DEF AlInit
  <2> QED BY <2>1, <2>2, <2>3, AlTypes DEF AlInit
<1> QED BY <1>1 DEF AlInit, AlInv, Earned, Streams, Creates, ClaimsAreBacked, OnlyTheLimitStrands, SentIsRemembered

\* Where a turn is.
LEMMA GoesTo ==
  ASSUME AgentLoopTypeOK, NEW at \in {"idle"} \cup Streams \cup Creates, Goto(at)
  PROVE  turn' \in TurnRec /\ turn'.pc = at /\ turn'.lane = turn.lane /\ turn'.physical = turn.physical
  BY AlTypes DEF Goto, TurnRec

\* What a streamed turn may say of itself in a round.
LEMMA SpeaksTrue ==
  ASSUME AlInv, turn.lane = "stream", NEW text \in Texts, NEW more \in SUBSET {"denial", "limit"},
         SpeakAlso(Spoken(text) \cup more)
  PROVE  /\ said' \subseteq Kinds /\ unbacked' \subseteq said'
         /\ turn.physical => "text" \notin unbacked'
<1>1. /\ said \subseteq Kinds /\ unbacked \subseteq said
      /\ turn.physical => "text" \notin unbacked
      /\ succeeded => sent
  BY AlTypes DEF AlInv, ClaimsAreBacked, Earned
<1>2. Spoken(text) \subseteq {"text", "raw"} /\ ("text" \in Spoken(text) => ~Deferred)
  BY DEF Spoken, Texts
<1>3. said' = said \cup (Spoken(text) \cup more)
      /\ unbacked' = unbacked \cup (IF sent THEN {} ELSE Spoken(text) \cup more)
  BY DEF SpeakAlso
<1>4. turn.physical /\ ~sent => "text" \notin Spoken(text)
  BY <1>1, <1>2 DEF Deferred
<1> QED BY <1>1, <1>2, <1>3, <1>4 DEF Kinds

\* What a round and a response leave alone.
LEMMA RoundLeaves ==
  ASSUME NEW text
  PROVE  /\ Conclude(text) =>
              /\ attempted' = attempted /\ succeeded' = succeeded /\ sent' = sent /\ calls' = calls
              /\ recoveries' = recoveries /\ thread' = thread /\ limited' = limited
         /\ \A outcomes : CallTools(text, outcomes) =>
              /\ recoveries' = recoveries /\ retried' = retried /\ calls' = calls
              /\ thread' = thread /\ limited' = limited
<1>1. Conclude(text) =>
              /\ attempted' = attempted /\ succeeded' = succeeded /\ sent' = sent /\ calls' = calls
              /\ recoveries' = recoveries /\ thread' = thread /\ limited' = limited
  BY DEF Conclude
<1>2. \A outcomes : CallTools(text, outcomes) =>
              /\ recoveries' = recoveries /\ retried' = retried /\ calls' = calls
              /\ thread' = thread /\ limited' = limited
  BY DEF CallTools
<1> QED BY <1>1, <1>2

LEMMA RoundKeeps ==
  ASSUME AgentLoopAssumption, AlInv, BreakOff \/ (\E text \in Texts : Conclude(text))
                \/ (\E text \in Texts, outcomes \in SUBSET Outcomes : CallTools(text, outcomes))
  PROVE  AlInv'
<1> USE DEF AlInv
<1>0. /\ turn \in TurnRec /\ rounds \in Nat /\ rounds <= MaxRounds + 1 /\ MaxRounds \in Nat
      /\ turn.pc = "round" /\ turn.lane = "stream"
      /\ forgotten \subseteq Losses /\ <<"stream", "raised">> \notin forgotten
      /\ (~retried => rounds <= MaxRounds)
  <2>1. turn.pc = "round"
    BY DEF BreakOff, Conclude, CallTools
  <2>2. turn.lane = "stream" /\ <<"stream", "raised">> \notin forgotten
    BY <2>1 DEF Earned, Streams, SentIsRemembered
  <2>3. turn \in TurnRec /\ rounds \in 0 .. MaxRounds + 1 /\ forgotten \subseteq Losses
    BY AlTypes
  <2>4. ~retried => rounds <= MaxRounds
    BY <2>1 DEF Earned, Streams
  <2> QED BY <2>1, <2>2, <2>3, <2>4 DEF AgentLoopAssumption
<1>1. /\ turn' \in TurnRec /\ turn'.lane = "stream" /\ turn'.physical = turn.physical
      /\ turn'.pc \in {"idle", "round"} /\ forgotten' \subseteq Losses
      /\ <<"stream", "raised">> \notin forgotten'
  <2>1. \/ Finish(TRUE)
        \/ turn' = turn /\ forgotten' = forgotten
    BY DEF BreakOff, Conclude, CallTools
  <2>2. CASE Finish(TRUE)
    <3>1. forgotten' = forgotten \/ forgotten' = forgotten \cup {<<"stream", "store">>}
      BY <1>0, <2>2 DEF Finish
    <3>2. <<"stream", "store">> \in Losses /\ <<"stream", "store">> # <<"stream", "raised">>
      BY DEF Losses, Lanes
    <3>3. Goto("idle")
      BY <2>2 DEF Finish
    <3> QED BY <1>0, <3>1, <3>2, <3>3, GoesTo
  <2> QED BY <1>0, <2>1, <2>2
<1>2. /\ said' \subseteq Kinds /\ unbacked' \subseteq said'
      /\ turn.physical => "text" \notin unbacked'
  <2>1. CASE BreakOff
    <3>1. PICK text \in Texts : SpeakAlso(Spoken(text))
      BY <2>1 DEF BreakOff, Texts
    <3>2. SpeakAlso(Spoken(text) \cup {})
      BY <3>1 DEF SpeakAlso
    <3> QED BY <1>0, <3>2, SpeaksTrue
  <2>2. ASSUME NEW text \in Texts, Conclude(text)
        PROVE  /\ said' \subseteq Kinds /\ unbacked' \subseteq said'
               /\ turn.physical => "text" \notin unbacked'
    <3>1. PICK more \in SUBSET {"denial", "limit"} : SpeakAlso(Spoken(text) \cup more)
      <4>1. CASE turn.physical /\ ~attempted /\ ~retried
        <5>1. SpeakAlso(Spoken(text) \cup {})
          BY <2>2, <4>1 DEF Conclude, SpeakAlso
        <5> QED BY <5>1
      <4>2. CASE ~(turn.physical /\ ~attempted /\ ~retried)
        BY <2>2, <4>2 DEF Conclude
      <4> QED BY <4>1, <4>2
    <3> QED BY <1>0, <3>1, SpeaksTrue
  <2>3. ASSUME NEW text \in Texts, NEW outcomes \in SUBSET Outcomes, CallTools(text, outcomes)
        PROVE  /\ said' \subseteq Kinds /\ unbacked' \subseteq said'
               /\ turn.physical => "text" \notin unbacked'
    <3>1. PICK more \in SUBSET {"denial", "limit"} : SpeakAlso(Spoken(text) \cup more)
      <4>1. CASE rounds >= MaxRounds
        BY <2>3, <4>1 DEF CallTools
      <4>2. CASE ~(rounds >= MaxRounds)
        <5>1. SpeakAlso(Spoken(text) \cup {})
          BY <2>3, <4>2 DEF CallTools, SpeakAlso
        <5> QED BY <5>1
      <4> QED BY <4>1, <4>2
    <3> QED BY <1>0, <3>1, SpeaksTrue
  <2> QED BY <2>1, <2>2, <2>3
<1>3. /\ attempted' \in BOOLEAN /\ succeeded' \in BOOLEAN /\ sent' \in BOOLEAN
      /\ succeeded' => sent'
      /\ rounds' \in 0 .. MaxRounds + 1 /\ retried' \in BOOLEAN
      /\ (~retried' => rounds' <= MaxRounds)
      /\ UNCHANGED <<recoveries, calls, thread, limited>>
  <2>1. CASE BreakOff
    BY <1>0, <2>1, AlTypes DEF BreakOff, flags, Earned
  <2>2. ASSUME NEW text \in Texts, Conclude(text)
        PROVE  /\ UNCHANGED <<attempted, succeeded, sent, recoveries, calls, thread, limited>>
               /\ rounds' \in 0 .. MaxRounds + 1 /\ retried' \in BOOLEAN
               /\ (~retried' => rounds' <= MaxRounds)
    <3>1. UNCHANGED <<attempted, succeeded, sent, recoveries, calls, thread, limited>>
      BY <2>2, RoundLeaves
    <3>2. CASE turn.physical /\ ~attempted /\ ~retried
      <4>1. retried' = TRUE /\ rounds' = rounds + 1
        BY <2>2, <3>2 DEF Conclude
      <4> QED BY <1>0, <3>1, <3>2, <4>1
    <3>3. CASE ~(turn.physical /\ ~attempted /\ ~retried)
      <4>1. retried' = retried /\ rounds' = rounds
        BY <2>2, <3>3 DEF Conclude
      <4> QED BY <1>0, <3>1, <4>1, AlTypes
    <3> QED BY <3>1, <3>2, <3>3
  <2>3. ASSUME NEW text \in Texts, NEW outcomes \in SUBSET Outcomes, CallTools(text, outcomes)
        PROVE  /\ attempted' \in BOOLEAN /\ succeeded' \in BOOLEAN /\ sent' \in BOOLEAN
               /\ succeeded' => sent'
               /\ rounds' \in 0 .. MaxRounds + 1 /\ retried' \in BOOLEAN
               /\ (~retried' => rounds' <= MaxRounds)
               /\ UNCHANGED <<recoveries, calls, thread, limited>>
    <3>1. \A o \in Outcomes : ~Failed(o) => Reaches(o)
      BY DEF Outcomes, Failed, Reaches
    <3>2. CASE rounds >= MaxRounds
      <4>1. UNCHANGED <<attempted, succeeded, rounds, sent>>
        BY <2>3, <3>2, Zenon DEF CallTools
      <4> QED BY <1>0, <2>3, <4>1, AlTypes, RoundLeaves DEF Earned
    <3>3. CASE rounds < MaxRounds
      <4>1. /\ Execute(outcomes) /\ rounds' = rounds + 1
            /\ UNCHANGED <<recoveries, retried, calls, thread, limited>>
        <5>1. ~(rounds >= MaxRounds)
          BY <1>0, <3>3
        <5>2. Execute(outcomes) /\ rounds' = rounds + 1
          BY <2>3, <5>1, Zenon DEF CallTools
        <5> QED BY <2>3, <5>2, RoundLeaves
      <4>2. rounds' \in 0 .. MaxRounds + 1 /\ retried' \in BOOLEAN /\ rounds' <= MaxRounds
        BY <1>0, <3>3, <4>1, AlTypes
      <4>3. /\ attempted' \in BOOLEAN /\ succeeded' \in BOOLEAN /\ sent' \in BOOLEAN
            /\ succeeded' => sent'
        BY <3>1, <4>1, AlTypes DEF Execute, Earned
      <4> QED BY <4>1, <4>2, <4>3
    <3> QED BY <1>0, <3>2, <3>3
  <2> QED BY <2>1, <2>2, <2>3, AlTypes DEF Earned
<1>4. AgentLoopTypeOK'
  BY <1>0, <1>1, <1>2, <1>3, AlTypes DEF AgentLoopTypeOK, TurnRec, Kinds, Streams, Creates
<1>5. Earned' /\ ClaimsAreBacked' /\ OnlyTheLimitStrands' /\ SentIsRemembered'
  BY <1>0, <1>1, <1>2, <1>3 DEF Earned, ClaimsAreBacked, OnlyTheLimitStrands, SentIsRemembered, Streams, Creates
<1> QED BY <1>4, <1>5

\* The steps of a response one by one.
LEMMA CreateKeeps == ASSUME AgentLoopAssumption, AlInv, Create \/ Collect \/ FollowUp PROVE AlInv'
<1>0. /\ turn \in TurnRec /\ rounds \in 0 .. MaxRounds + 1 /\ recoveries \in 0 .. MaxRecoveries
      /\ MaxRounds \in Nat /\ MaxRecoveries \in Nat
      /\ said \subseteq Kinds /\ unbacked \subseteq said /\ forgotten \subseteq Losses
      /\ <<"stream", "raised">> \notin forgotten /\ thread \in {"none", "answered", "unanswered"}
      /\ thread = "unanswered" => limited
  BY AlTypes DEF AlInv, AgentLoopAssumption, SentIsRemembered, OnlyTheLimitStrands
<1>a. /\ attempted \in BOOLEAN /\ succeeded \in BOOLEAN /\ retried \in BOOLEAN /\ calls \in BOOLEAN
      /\ sent \in BOOLEAN /\ limited \in BOOLEAN /\ (succeeded => sent)
  BY AlTypes DEF AlInv, Earned
<1>b. turn.lane = "create"
  BY DEF AlInv, Earned, Creates, Create, Collect, FollowUp
<1>1. /\ turn' \in TurnRec /\ turn'.lane = "create"
      /\ turn'.pc \in {"idle"} \cup Creates
      /\ forgotten' \subseteq forgotten \cup {<<"create", "raised">>, <<"create", "store">>}
  <2>1. \E at \in {"idle"} \cup Creates : Goto(at)
    BY DEF Create, Collect, FollowUp, Recover, Remember, Raise, Finish, Creates
  <2>2. forgotten' = forgotten \/ \E record \in BOOLEAN : Finish(record)
    BY DEF Create, Collect, FollowUp, Recover, Remember, Raise
  <2>3. forgotten' \subseteq forgotten \cup {<<"create", "raised">>, <<"create", "store">>}
    BY <1>b, <2>2 DEF Finish
  <2>4. AgentLoopTypeOK
    BY DEF AlInv
  <2> QED BY <1>b, <2>1, <2>3, <2>4, GoesTo
<1>c. forgotten' \subseteq Losses /\ <<"stream", "raised">> \notin forgotten'
  <2>1. <<"create", "raised">> \in Losses /\ <<"create", "store">> \in Losses
    BY DEF Losses, Lanes
  <2>2. /\ <<"create", "raised">> # <<"stream", "raised">>
        /\ <<"create", "store">> # <<"stream", "raised">>
    OBVIOUS
  <2> QED BY <1>0, <1>1, <2>1, <2>2
<1>2. said' \subseteq Kinds /\ unbacked' \subseteq said'
  <2>1. (said' = said /\ unbacked' = unbacked) \/ \E kind \in Kinds : SpeakAlso({kind})
    BY DEF Create, Collect, FollowUp, Recover, Remember, Raise, Kinds
  <2> QED BY <1>0, <2>1 DEF SpeakAlso
<1>3. UNCHANGED flags
  BY DEF Create, Collect, FollowUp
<1>4. sent' \in BOOLEAN /\ (sent => sent')
  <2>1. UNCHANGED sent \/ sent' \in {sent, TRUE}
    BY DEF Create, Collect, FollowUp
  <2> QED BY <1>a, <2>1
<1>5. calls' \in BOOLEAN
  <2>1. UNCHANGED calls \/ calls' \in BOOLEAN
    BY DEF Create, Collect, FollowUp, Recover, Raise
  <2> QED BY <1>a, <2>1
<1>6. recoveries' \in 0 .. MaxRecoveries
  <2>1. UNCHANGED recoveries \/ (recoveries < MaxRecoveries /\ recoveries' = recoveries + 1)
    BY DEF Create, Collect, FollowUp, Recover, Raise
  <2> QED BY <1>0, <2>1
<1>7. /\ thread' \in {"none", "answered", "unanswered"} /\ limited' \in BOOLEAN
      /\ thread' = "unanswered" => limited'
  <2>1. \/ UNCHANGED <<thread, limited>>
        \/ \E after \in {"none", "answered"}, kind \in Kinds : Remember(after, kind)
        \/ Remember("unanswered", "limit")
    BY DEF Create, Collect, FollowUp, Recover, Raise, Kinds
  <2>2. CASE UNCHANGED <<thread, limited>>
    BY <1>0, <1>a, <2>2
  <2>3. CASE \E after \in {"none", "answered"}, kind \in Kinds : Remember(after, kind)
    BY <2>3 DEF Remember
  <2>4. CASE Remember("unanswered", "limit")
    BY <2>4 DEF Remember
  <2> QED BY <2>1, <2>2, <2>3, <2>4
<1>8. rounds' \in 0 .. MaxRounds + 1 /\ (turn'.pc = "followup" => rounds' < MaxRounds)
  <2>1. \/ turn.pc = "followup" /\ rounds' = rounds + 1 /\ Goto("collect")
        \/ rounds' = rounds /\ rounds < MaxRounds
        \/ rounds' = rounds /\ \E at \in {"idle", "collect"} : Goto(at)
    BY DEF Create, Collect, FollowUp, Recover, Remember, Raise, Finish
  <2>2. turn.pc = "followup" => rounds < MaxRounds
    BY DEF AlInv, Earned
  <2>3. AgentLoopTypeOK
    BY DEF AlInv
  <2>4. \A at \in {"idle", "collect"} : Goto(at) => turn'.pc = at
    BY <2>3, GoesTo DEF Creates
  <2> QED BY <1>0, <2>1, <2>2, <2>4
<1>9. AgentLoopTypeOK'
  BY <1>0, <1>a, <1>c, <1>1, <1>2, <1>3, <1>4, <1>5, <1>6, <1>7, <1>8
     DEF AgentLoopTypeOK, TurnRec, Kinds, Streams, Creates, Lanes, flags
<1> QED BY <1>0, <1>a, <1>c, <1>1, <1>3, <1>4, <1>7, <1>8, <1>9
        DEF AlInv, Creates, Streams, flags, Earned, ClaimsAreBacked, OnlyTheLimitStrands, SentIsRemembered

LEMMA PrerouteKeeps == ASSUME AgentLoopAssumption, AlInv, Preroute PROVE AlInv'
<1>0. /\ turn \in TurnRec /\ turn.lane = "stream" /\ turn.pc = "preroute"
      /\ said \subseteq Kinds /\ unbacked \subseteq said /\ forgotten \subseteq Losses
      /\ <<"stream", "raised">> \notin forgotten /\ ~sent /\ rounds \in 0 .. MaxRounds + 1
  BY AlTypes DEF AlInv, Earned, Streams, Preroute, SentIsRemembered
<1>1. /\ turn' \in TurnRec /\ turn'.lane = "stream" /\ turn'.pc \in {"idle", "round"}
      /\ turn'.physical = turn.physical /\ forgotten' \subseteq Losses
      /\ <<"stream", "raised">> \notin forgotten'
      /\ turn'.pc = "round" => sent' = sent
  <2>1. \/ Finish(TRUE)
        \/ Goto("round") /\ UNCHANGED <<sent, forgotten>>
        \/ Finish(FALSE) /\ UNCHANGED sent
    BY DEF Preroute
  <2>2. /\ (forgotten' = forgotten) \/ (forgotten' = forgotten \cup {<<"stream", "store">>})
        /\ Goto("idle") \/ (Goto("round") /\ UNCHANGED sent)
    BY <1>0, <2>1 DEF Finish
  <2>3. <<"stream", "store">> \in Losses /\ <<"stream", "store">> # <<"stream", "raised">>
    BY DEF Losses, Lanes
  <2>4. AgentLoopTypeOK
    BY DEF AlInv
  <2>5. /\ turn' \in TurnRec /\ turn'.lane = "stream" /\ turn'.physical = turn.physical
        /\ turn'.pc \in {"idle", "round"}
        /\ turn'.pc = "round" => UNCHANGED sent
    <3>1. CASE Goto("idle")
      BY <1>0, <2>4, <3>1, GoesTo
    <3>2. CASE Goto("round") /\ UNCHANGED sent
      BY <1>0, <2>4, <3>2, GoesTo DEF Streams
    <3> QED BY <2>2, <3>1, <3>2
  <2> QED BY <1>0, <2>2, <2>3, <2>5
<1>2. /\ UNCHANGED flags /\ rounds' = rounds /\ recoveries' = recoveries /\ calls' = calls
      /\ thread' = thread /\ limited' = limited /\ unbacked' = unbacked
  BY DEF Preroute
<1>3. said' \subseteq Kinds /\ sent' \in BOOLEAN
  <2>1. \/ said' = said /\ sent' = sent
        \/ \E o \in Outcomes : \E note \in PumpNotes(o) : sent' = Reaches(o) /\ said' = {note}
    BY DEF Preroute
  <2>2. \A o \in Outcomes : PumpNotes(o) \subseteq Kinds
    BY DEF Outcomes, PumpNotes, Kinds
  <2>3. sent \in BOOLEAN
    BY AlTypes DEF AlInv
  <2>4. CASE said' = said /\ sent' = sent
    BY <1>0, <2>3, <2>4
  <2>5. CASE \E o \in Outcomes : \E note \in PumpNotes(o) : sent' = Reaches(o) /\ said' = {note}
    BY <2>2, <2>5 DEF Reaches
  <2> QED BY <2>1, <2>4, <2>5
<1>4. /\ attempted \in BOOLEAN /\ succeeded \in BOOLEAN /\ retried \in BOOLEAN /\ calls \in BOOLEAN
      /\ limited \in BOOLEAN /\ recoveries \in 0 .. MaxRecoveries
      /\ thread \in {"none", "answered", "unanswered"}
  BY AlTypes DEF AlInv
<1>5. unbacked = {} /\ ~succeeded /\ rounds = 0 /\ MaxRounds \in Nat
      /\ (thread = "unanswered" => limited)
  BY <1>0 DEF AlInv, Earned, AgentLoopAssumption, OnlyTheLimitStrands
<1>6. AgentLoopTypeOK'
  BY <1>0, <1>1, <1>2, <1>3, <1>4, <1>5
     DEF AgentLoopTypeOK, TurnRec, Kinds, Streams, Creates, flags
<1> QED BY <1>0, <1>1, <1>2, <1>5, <1>6
        DEF AlInv, Creates, Streams, flags, Earned, ClaimsAreBacked, OnlyTheLimitStrands, SentIsRemembered

LEMMA BeginKeeps ==
  ASSUME AgentLoopAssumption, AlInv, NEW lane \in Lanes, NEW physical \in BOOLEAN, Begin(lane, physical)
  PROVE  AlInv'
<1>1. /\ turn' \in TurnRec
      /\ \/ turn'.pc = "preroute" /\ turn'.lane = "stream"
         \/ turn'.pc = "create" /\ turn'.lane = "create"
  <2>1. turn' = [lane |-> lane, physical |-> physical,
                 pc |-> IF lane = "stream" THEN "preroute" ELSE "create"]
    BY DEF Begin
  <2>2. CASE lane = "stream"
    <3>1. turn' = [lane |-> "stream", physical |-> physical, pc |-> "preroute"]
      BY <2>1, <2>2
    <3> QED BY <3>1 DEF TurnRec, Lanes, Streams
  <2>3. CASE lane = "create"
    <3>1. turn' = [lane |-> "create", physical |-> physical, pc |-> "create"]
      BY <2>1, <2>3
    <3> QED BY <3>1 DEF TurnRec, Lanes, Creates
  <2> QED BY <2>2, <2>3 DEF Lanes
<1>2. /\ rounds' = 0 /\ recoveries' = 0 /\ attempted' = FALSE /\ succeeded' = FALSE /\ retried' = FALSE
      /\ calls' = FALSE /\ sent' = FALSE /\ said' = {} /\ unbacked' = {}
      /\ thread' = thread /\ limited' = limited /\ forgotten' = forgotten
  BY DEF Begin
<1>3. /\ limited \in BOOLEAN /\ thread \in {"none", "answered", "unanswered"} /\ forgotten \subseteq Losses
      /\ MaxRounds \in Nat /\ MaxRecoveries \in Nat
      /\ (thread = "unanswered" => limited) /\ <<"stream", "raised">> \notin forgotten
  BY AlTypes DEF AlInv, AgentLoopAssumption, OnlyTheLimitStrands, SentIsRemembered
<1>4. AgentLoopTypeOK'
  <2>1. {attempted', succeeded', retried', calls', sent', limited'} \subseteq BOOLEAN
    BY <1>2, <1>3
  <2>2. rounds' \in 0 .. MaxRounds + 1 /\ recoveries' \in 0 .. MaxRecoveries
    BY <1>2, <1>3
  <2> QED BY <1>1, <1>2, <1>3, <2>1, <2>2 DEF AgentLoopTypeOK, TurnRec, Kinds, Streams, Creates
<1> QED BY <1>1, <1>2, <1>3, <1>4
        DEF AlInv, Creates, Streams, Earned, ClaimsAreBacked, OnlyTheLimitStrands, SentIsRemembered

LEMMA AlStep == AgentLoopAssumption /\ AlInv /\ [AlNext]_alVars => AlInv'
<1> SUFFICES ASSUME AgentLoopAssumption, AlInv, [AlNext]_alVars PROVE AlInv'
  OBVIOUS
<1>1. CASE UNCHANGED alVars
  BY <1>1 DEF alVars, AlInv, AgentLoopTypeOK, Earned, ClaimsAreBacked, OnlyTheLimitStrands, SentIsRemembered
<1>2. CASE Reset
  <2>1. /\ thread' = "none" /\ limited' = FALSE
        /\ UNCHANGED <<turn, rounds, recoveries, flags, calls, sent, said, unbacked, forgotten>>
    BY <1>2 DEF Reset
  <2> QED BY <2>1 DEF flags, AlInv, AgentLoopTypeOK, Earned, ClaimsAreBacked, OnlyTheLimitStrands,
                      SentIsRemembered
<1> QED BY <1>1, <1>2, BeginKeeps, PrerouteKeeps, RoundKeeps, CreateKeeps DEF AlNext

\* On a request for a device the model's own sentences come after a command of the
\* turn went out (_speak and the deferral of handle_command_stream), only a turn at its
\* limit leaves calls unanswered, and only a failing store loses a streamed turn that sent
\* a command: for any limits of rounds and recoveries and any number of turns.
THEOREM TurnsAreHonest ==
  AgentLoopAssumption => (AlSpec => [](ClaimsAreBacked /\ OnlyTheLimitStrands /\ SentIsRemembered))
<1> SUFFICES ASSUME AgentLoopAssumption
             PROVE  AlSpec => [](ClaimsAreBacked /\ OnlyTheLimitStrands /\ SentIsRemembered)
  OBVIOUS
<1>1. AlInit => AlInv
  BY AlInitInv
<1>2. AlInv /\ [AlNext]_alVars => AlInv'
  BY AlStep
<1>3. AlInv => ClaimsAreBacked /\ OnlyTheLimitStrands /\ SentIsRemembered
  BY DEF AlInv
<1> QED BY <1>1, <1>2, <1>3, PTL DEF AlSpec

-----------------------------------------------------------------------------
(* The registry as processes seed it (Seeding).                               *)

\* What a transaction has written and what it sees, field by field.
W(p) == DOMAIN own[p]
V(p, f) == IF f \in W(p) THEN own[p][f] ELSE row[f]
Fields == SourceRow \cup StateRow \cup AlertRow
Metas == {"old", "optout", "edited"}
Healths == {"online", "offline", "unknown"}
States == {"none", "current", "stale", "offline"}
Alerts == {"none", "open", "resolved"}
Items == {"none", "pending", "cancelled"}
Proper(r) ==
  /\ DOMAIN r = Fields /\ r.present \in BOOLEAN /\ r.meta \in Metas /\ r.health \in Healths
  /\ r.state \in States /\ r.alert \in Alerts /\ r.item \in Items

\* How far a seeding has come.
AtCommit == {"commit", "seeded"}
AtExpiring == {"expiring"} \cup AtCommit
AtAlerts == {"alerts"} \cup AtExpiring
AtStates == {"states"} \cup AtAlerts
Sorted == {"select", "noted", "health"} \cup AtStates
Begun == {"migrate"} \cup Sorted

SdTypes ==
  /\ Proper(row) /\ passes \in 0 .. Ticks
  /\ DOMAIN own = Transactions /\ \A p \in Transactions : W(p) \subseteq Fields
  /\ pc \in [Transactions -> {"insert"} \cup Begun] /\ pc["tick"] \in {"insert", "select", "commit"}
  /\ DOMAIN history = Seeders /\ recovered \subseteq Seeders
  /\ edited \in {"no", "edited", "optout"}

\* No two transactions have written the same row.
Locks ==
  \A p, q \in Transactions : p # q =>
    \A group \in {SourceRow, StateRow, AlertRow} : W(p) \cap group = {} \/ W(q) \cap group = {}

\* The committed rows.  Only the row of a source with the old seed is still to be
\* migrated: its state is what its health says, so that a tick that has expired the state
\* alone goes on to the health.
Rows ==
  /\ row.item = "pending" => row.alert = "open"
  /\ edited # "no" => row.present /\ row.meta = edited
  /\ row.meta = "old" => /\ row.present
                         /\ row.health = "unknown" => row.state = "none"
                         /\ row.health = "online" => row.state = "current"
                         /\ row.health = "offline" => row.state = "offline"
  /\ ~row.present => /\ row.meta = "optout" /\ row.health = "unknown" /\ row.state = "none"
                     /\ row.alert = "none"

\* What a seeding has written and what its next statements rely on.
Seeds(p) ==
  /\ pc[p] \in {"insert", "seeded"} => W(p) = {}
  /\ "present" \in W(p) => own[p]["present"]
  /\ "meta" \in W(p) => own[p]["meta"] = "optout" /\ (row.meta = "old" \/ ~row.present)
  /\ "health" \in W(p) => own[p]["health"] = "unknown"
  /\ "state" \in W(p) => \/ own[p]["state"] = "current"
                         \/ own[p]["state"] = "stale" /\ row.state = "offline"
  /\ "alert" \in W(p) <=> "item" \in W(p)
  /\ "alert" \in W(p) => own[p]["alert"] = "resolved" /\ own[p]["item"] \in {"none", "cancelled"}
  /\ pc[p] \in Begun => V(p, "present")
  /\ pc[p] \in Sorted => V(p, "meta") # "old"
  /\ pc[p] = "noted" => V(p, "health") = "offline" \/ p \in recovered

\* What the tick has written, and the metadata it had read: a source that opted out in
\* between is one it overlapped with.
Ages ==
  /\ pc["tick"] = "insert" => W("tick") = {}
  /\ pc["tick"] = "select" => W("tick") \subseteq {"state"} /\ ("state" \in W("tick") => row.state = "current")
  /\ W("tick") \subseteq {"health", "state", "alert", "item"}
  /\ W("tick") # {} => row.present
  /\ "alert" \in W("tick") <=> "item" \in W("tick")
  /\ "alert" \in W("tick") => own["tick"]["alert"] = "open" /\ own["tick"]["item"] = "pending" /\ "health" \in W("tick")
  /\ "health" \in W("tick") =>
       /\ row.meta # "optout" /\ own["tick"]["health"] \in {"online", "offline"}
       /\ row.meta = "old" =>
            V("tick", "state") = IF own["tick"]["health"] = "online" THEN "current" ELSE "offline"
  /\ "state" \in W("tick") =>
       /\ row.meta = "optout" => overlap
       /\ \/ own["tick"]["state"] \in {"current", "stale"}
          \/ "health" \in W("tick") /\ own["tick"]["state"] \in {"none", "offline"}
       /\ own["tick"]["state"] = "stale" => silent
       /\ pc["tick"] = "commit" /\ row.meta = "old" => "health" \in W("tick")

\* What a seeding has cleared of a source that is not expected to report stays cleared.
Clean(p) ==
  /\ pc[p] \in AtStates => V(p, "health") # "offline"
  /\ pc[p] \in AtAlerts => V(p, "state") # "offline"
  /\ pc[p] \in AtExpiring => V(p, "alert") # "open"
  /\ pc[p] \in AtCommit => (V(p, "state") = "stale" => overlap)

SdInv ==
  /\ SdTypes /\ Locks /\ Rows /\ Ages /\ \A p \in Seeders : Seeds(p)
  /\ \A p \in Seeders \ early : V(p, "meta") = "optout" => Clean(p)
  /\ HistoryIsTrue


LEMMA ViewIs ==
  ASSUME SdTypes, NEW p \in Transactions
  PROVE  /\ DOMAIN View(p) = Fields
         /\ View(p).present = V(p, "present") /\ View(p).meta = V(p, "meta")
         /\ View(p).health = V(p, "health") /\ View(p).state = V(p, "state")
         /\ View(p).alert = V(p, "alert") /\ View(p).item = V(p, "item")
<1>1. W(p) \subseteq Fields /\ DOMAIN row = Fields
  BY DEF SdTypes, Proper
<1>2. DOMAIN View(p) = Fields
  BY <1>1 DEF View, Over, W
<1>3. \A f \in Fields : View(p)[f] = V(p, f)
  BY <1>1 DEF View, Over, W, V
<1> QED BY <1>2, <1>3 DEF Fields, SourceRow, StateRow, AlertRow

LEMMA SdInitInv == ASSUME SeedingAssumption, SdInit PROVE SdInv
<1>1. \A p \in Transactions : W(p) = {}
  BY DEF SdInit, Nothing, W
<1>2. SdTypes
  <2>1. Proper(row)
    BY DEF SdInit, Proper, Fields, SourceRow, StateRow, AlertRow, Metas, Healths, States, Alerts, Items
  <2>2. pc \in [Transactions -> {"insert"} \cup Begun] /\ pc["tick"] = "insert"
    BY DEF SdInit, Transactions
  <2> QED BY <1>1, <2>1, <2>2 DEF SdInit, SdTypes, SeedingAssumption
<1>3. Locks
  BY <1>1 DEF Locks
<1>4. Rows
  BY DEF SdInit, Rows
<1>5. Ages
  BY <1>1 DEF SdInit, Ages, Transactions
<1>6. \A p \in Transactions : pc[p] = "insert"
  BY DEF SdInit
<1>7. \A p \in Seeders : Seeds(p)
  BY <1>1, <1>6 DEF Seeds, Begun, Sorted, AtStates, AtAlerts, AtExpiring, AtCommit, Transactions
<1>8. \A p \in Seeders : Clean(p)
  BY <1>6 DEF Clean, AtStates, AtAlerts, AtExpiring, AtCommit, Transactions
<1>9. HistoryIsTrue
  BY DEF SdInit, HistoryIsTrue
<1> QED BY <1>2, <1>3, <1>4, <1>5, <1>7, <1>8, <1>9 DEF SdInv

\* A step of one seeder, before it commits.
LEMMA SeederStep ==
  ASSUME SeedingAssumption, SdInv, NEW p \in Seeders,
         UNCHANGED <<row, silent, passes, recovered, edited, early, overlap>>,
         DOMAIN own' = Transactions, \A q \in Transactions \ {p} : own'[q] = own[q],
         NEW to \in Begun, pc' = [pc EXCEPT ![p] = to],
         W(p)' \subseteq Fields, Locks', Seeds(p)',
         p \notin early /\ V(p, "meta")' = "optout" => Clean(p)',
         history' = history \/ \E h : history' = [history EXCEPT ![p] = h] /\ (h = "missed" => p \in recovered)
  PROVE  SdInv'
<1>0. /\ SdTypes /\ Locks /\ Rows /\ Ages /\ \A q \in Seeders : Seeds(q)
      /\ \A q \in Seeders \ early : V(q, "meta") = "optout" => Clean(q)
      /\ HistoryIsTrue
  BY DEF SdInv
<1>1. /\ p \in Transactions /\ "tick" \in Transactions /\ "tick" # p
      /\ \A q \in Seeders : q \in Transactions
  BY DEF Transactions, SeedingAssumption
<1>2. /\ pc' \in [Transactions -> {"insert"} \cup Begun] /\ pc'[p] = to
      /\ \A q \in Transactions \ {p} : pc'[q] = pc[q]
  BY <1>0, <1>1 DEF SdTypes
<1>3. \A q \in Transactions \ {p} : /\ own'[q] = own[q] /\ W(q)' = W(q)
                                   /\ V(q, "present")' = V(q, "present") /\ V(q, "meta")' = V(q, "meta")
                                   /\ V(q, "health")' = V(q, "health") /\ V(q, "state")' = V(q, "state")
                                   /\ V(q, "alert")' = V(q, "alert")
  BY DEF W, V
<1>4. DOMAIN history' = Seeders
  BY <1>0 DEF SdTypes
<1>5. SdTypes'
  BY <1>0, <1>1, <1>2, <1>3, <1>4 DEF SdTypes, Proper
<1>6. Rows'
  BY <1>0 DEF Rows
<1>7. Ages'
  BY <1>0, <1>1, <1>2, <1>3 DEF Ages
<1>8. \A q \in Seeders \ {p} : Seeds(q)'
  BY <1>0, <1>1, <1>2, <1>3 DEF Seeds
<1>9. \A q \in Seeders \ early : V(q, "meta")' = "optout" => Clean(q)'
  BY <1>0, <1>1, <1>2, <1>3 DEF Clean
<1>10. HistoryIsTrue'
  BY <1>0, <1>4 DEF HistoryIsTrue, SdTypes
<1> QED BY <1>5, <1>6, <1>7, <1>8, <1>9, <1>10 DEF SdInv


LEMMA LocksKeep ==
  ASSUME Locks, NEW p \in Transactions, \A q \in Transactions \ {p} : own'[q] = own[q],
         NEW F, NEW D, W(p)' = W(p) \cup D,
         D # {} => \A q \in Transactions \ {p} : W(q) \cap F = {},
         \A group \in {SourceRow, StateRow, AlertRow} : group \subseteq F \/ D \cap group = {}
  PROVE  Locks'
<1>1. \A q \in Transactions \ {p} : W(q)' = W(q)
  BY DEF W
<1>2. ASSUME NEW q \in Transactions \ {p}, NEW group \in {SourceRow, StateRow, AlertRow}
      PROVE  W(p)' \cap group = {} \/ W(q)' \cap group = {}
  <2>1. W(p) \cap group = {} \/ W(q) \cap group = {}
    BY DEF Locks
  <2>2. CASE D \cap group = {}
    BY <1>1, <2>1, <2>2
  <2>3. CASE D # {} /\ group \subseteq F
    BY <1>1, <2>3
  <2> QED BY <1>2, <2>2, <2>3
<1> QED BY <1>1, <1>2 DEF Locks


\* What a statement writes whose WHERE matches.
LEMMA Wrote ==
  ASSUME SdTypes, Locks, NEW p \in Transactions, NEW F, NEW w,
         Free(p, F), DOMAIN own' = Transactions, own'[p] = Over(w, own[p]),
         \A q \in Transactions \ {p} : own'[q] = own[q], DOMAIN w \subseteq F,
         \A group \in {SourceRow, StateRow, AlertRow} : group \subseteq F \/ DOMAIN w \cap group = {}
  PROVE  /\ Locks' /\ DOMAIN own'[p] = DOMAIN own[p] \cup DOMAIN w
         /\ \A q \in Transactions \ {p} : DOMAIN own[q] \cap F = {}
         /\ \A f \in DOMAIN w : own'[p][f] = w[f]
         /\ \A f \in DOMAIN own[p] \ DOMAIN w : own'[p][f] = own[p][f]
<1>2. /\ DOMAIN Over(w, own[p]) = DOMAIN own[p] \cup DOMAIN w
      /\ \A f \in DOMAIN w : Over(w, own[p])[f] = w[f]
      /\ \A f \in DOMAIN own[p] \ DOMAIN w : Over(w, own[p])[f] = own[p][f]
  BY DEF Over
<1>3. \A q \in Transactions \ {p} : DOMAIN own[q] \cap F = {}
  BY DEF Free
<1>4. Locks'
  <2>1. W(p)' = W(p) \cup DOMAIN w /\ \A q \in Transactions \ {p} : W(q) \cap F = {}
    BY <1>2, <1>3 DEF W
  <2> QED BY <2>1, LocksKeep
<1> QED BY <1>2, <1>3, <1>4

LEMMA Groups ==
  /\ SourceRow \cap StateRow = {} /\ SourceRow \cap AlertRow = {} /\ StateRow \cap AlertRow = {}
  /\ SourceRow \subseteq Fields /\ StateRow \subseteq Fields /\ AlertRow \subseteq Fields
  /\ \A F \in {SourceRow, StateRow, AlertRow} : \A D \in SUBSET F :
       \A group \in {SourceRow, StateRow, AlertRow} : group \subseteq F \/ D \cap group = {}
BY DEF SourceRow, StateRow, AlertRow, Fields


LEMMA InsertKeeps == ASSUME SeedingAssumption, SdInv, NEW p \in Seeders, Insert(p) PROVE SdInv'
<1>0. SdTypes /\ Locks /\ Rows /\ Seeds(p) /\ p \in Transactions
  BY DEF SdInv, Transactions
<1>1. /\ pc[p] = "insert" /\ pc' = [pc EXCEPT ![p] = "migrate"] /\ pc'[p] = "migrate"
      /\ Update(p, ~View(p).present, SourceRow, [present |-> TRUE, meta |-> "optout", health |-> "unknown"])
      /\ UNCHANGED <<row, silent, passes, history, recovered, edited, early, overlap>>
  BY <1>0 DEF Insert, Statement, SdTypes
<1>2. W(p) = {} /\ V(p, "present") = row.present /\ row.present \in BOOLEAN
  BY <1>0, <1>1 DEF Seeds, V, SdTypes, Proper
<1> DEFINE w == [present |-> TRUE, meta |-> "optout", health |-> "unknown"]
<1>3. /\ DOMAIN w = {"present", "meta", "health"} /\ DOMAIN w = SourceRow
      /\ w["present"] = TRUE /\ w["meta"] = "optout" /\ w["health"] = "unknown"
  BY DEF SourceRow
<1> HIDE DEF w
<1>4. /\ Locks' /\ DOMAIN own' = Transactions /\ \A q \in Transactions \ {p} : own'[q] = own[q]
      /\ ~row.present => /\ W(p)' = W(p) \cup DOMAIN w
                         /\ \A f \in DOMAIN w : own'[p][f] = w[f]
      /\ row.present => own' = own /\ W(p)' = W(p)
  <2>1. View(p).present = row.present
    BY <1>0, <1>2, ViewIs
  <2>2. CASE row.present
    <3>1. own' = own
      BY <1>1, <2>1, <2>2 DEF Update
    <3> QED BY <1>0, <2>2, <3>1 DEF SdTypes, Locks, W
  <2>3. CASE ~row.present
    <3>1. Free(p, SourceRow) /\ own' = [own EXCEPT ![p] = Over(w, own[p])]
      BY <1>1, <2>1, <2>3 DEF Update, w
    <3>2. \A group \in {SourceRow, StateRow, AlertRow} :
            group \subseteq SourceRow \/ DOMAIN w \cap group = {}
      BY <1>3, Groups
    <3>3. /\ DOMAIN own' = Transactions /\ own'[p] = Over(w, own[p])
          /\ \A q \in Transactions \ {p} : own'[q] = own[q]
      BY <1>0, <3>1 DEF SdTypes
    <3>4. /\ Locks' /\ DOMAIN own'[p] = DOMAIN own[p] \cup DOMAIN w
          /\ \A f \in DOMAIN w : own'[p][f] = w[f]
          /\ \A f \in DOMAIN own[p] \ DOMAIN w : own'[p][f] = own[p][f]
      BY <1>0, <1>3, <3>1, <3>2, <3>3, Wrote
    <3> QED BY <2>3, <3>3, <3>4 DEF W
  <2> QED BY <1>2, <2>2, <2>3
<1>5. Seeds(p)'
  <2>1. CASE row.present
    BY <1>0, <1>1, <1>2, <1>4, <2>1 DEF Seeds, V, Sorted, AtStates, AtAlerts, AtExpiring, AtCommit
  <2>2. CASE ~row.present
    BY <1>1, <1>2, <1>3, <1>4, <2>2 DEF Seeds, V, Sorted, AtStates, AtAlerts, AtExpiring, AtCommit
  <2> QED BY <1>2, <2>1, <2>2
<1>6. Clean(p)'
  BY <1>1 DEF Clean, AtStates, AtAlerts, AtExpiring, AtCommit
<1>7. W(p)' \subseteq Fields
  BY <1>2, <1>3, <1>4, Groups
<1> QED BY <1>1, <1>4, <1>5, <1>6, <1>7, SeederStep DEF Begun

LEMMA MigrateKeeps == ASSUME SeedingAssumption, SdInv, NEW p \in Seeders, Migrate(p) PROVE SdInv'
<1>0. SdTypes /\ Locks /\ Rows /\ Seeds(p) /\ p \in Transactions
  BY DEF SdInv, Transactions
<1>1. /\ pc[p] = "migrate" /\ pc' = [pc EXCEPT ![p] = "select"] /\ pc'[p] = "select"
      /\ Update(p, View(p).meta = "old", SourceRow, [meta |-> "optout"])
      /\ UNCHANGED <<row, silent, passes, history, recovered, edited, early, overlap>>
  BY <1>0 DEF Migrate, Statement, SdTypes
<1> DEFINE w == [meta |-> "optout"]
<1>2. DOMAIN w = {"meta"} /\ w["meta"] = "optout" /\ DOMAIN w \subseteq SourceRow
  BY DEF SourceRow
<1> HIDE DEF w
<1>3. /\ Locks' /\ DOMAIN own' = Transactions /\ \A q \in Transactions \ {p} : own'[q] = own[q]
      /\ V(p, "meta") = "old" => /\ W(p)' = W(p) \cup DOMAIN w
                                 /\ \A f \in DOMAIN w : own'[p][f] = w[f]
                                 /\ \A f \in W(p) \ DOMAIN w : own'[p][f] = own[p][f]
      /\ V(p, "meta") # "old" => own' = own /\ W(p)' = W(p)
  <2>1. View(p).meta = V(p, "meta")
    BY <1>0, ViewIs
  <2>2. CASE V(p, "meta") # "old"
    <3>1. own' = own
      BY <1>1, <2>1, <2>2 DEF Update
    <3> QED BY <1>0, <2>2, <3>1 DEF SdTypes, Locks, W
  <2>3. CASE V(p, "meta") = "old"
    <3>1. Free(p, SourceRow) /\ own' = [own EXCEPT ![p] = Over(w, own[p])]
      BY <1>1, <2>1, <2>3 DEF Update, w
    <3>2. \A group \in {SourceRow, StateRow, AlertRow} :
            group \subseteq SourceRow \/ DOMAIN w \cap group = {}
      BY <1>2, Groups
    <3>3. /\ DOMAIN own' = Transactions /\ own'[p] = Over(w, own[p])
          /\ \A q \in Transactions \ {p} : own'[q] = own[q]
      BY <1>0, <3>1 DEF SdTypes
    <3>4. /\ Locks' /\ DOMAIN own'[p] = DOMAIN own[p] \cup DOMAIN w
          /\ \A f \in DOMAIN w : own'[p][f] = w[f]
          /\ \A f \in DOMAIN own[p] \ DOMAIN w : own'[p][f] = own[p][f]
      BY <1>0, <1>2, <3>1, <3>2, <3>3, Wrote
    <3> QED BY <2>3, <3>3, <3>4 DEF W
  <2> QED BY <2>2, <2>3
<1>4. V(p, "present")
  BY <1>0, <1>1 DEF Seeds, Begun
<1>5. Seeds(p)'
  <2>1. CASE V(p, "meta") # "old"
    BY <1>0, <1>1, <1>3, <1>4, <2>1 DEF Seeds, V
  <2>2. CASE V(p, "meta") = "old"
    <3>1. "meta" \notin W(p) /\ row.meta = "old"
      BY <1>0, <2>2 DEF V, Seeds
    <3> QED BY <1>0, <1>1, <1>2, <1>3, <1>4, <2>2, <3>1 DEF Seeds, V
  <2> QED BY <2>1, <2>2
<1>6. Clean(p)'
  BY <1>1 DEF Clean, AtStates, AtAlerts, AtExpiring, AtCommit
<1>7. W(p)' \subseteq Fields
  BY <1>0, <1>2, <1>3, Groups DEF SdTypes
<1> QED BY <1>1, <1>3, <1>5, <1>6, <1>7, SeederStep DEF Begun, Sorted

LEMMA SelectKeeps == ASSUME SeedingAssumption, SdInv, NEW p \in Seeders, SelectOffline(p) PROVE SdInv'
<1>0. SdTypes /\ Locks /\ Rows /\ Seeds(p) /\ p \in Transactions
  BY DEF SdInv, Transactions
<1> DEFINE to == IF ~OptedOut(p) THEN "expiring" ELSE IF View(p).health = "offline" THEN "noted" ELSE "health"
<1>1. /\ pc[p] = "select" /\ pc' = [pc EXCEPT ![p] = to] /\ pc'[p] = to
      /\ UNCHANGED <<row, own, silent, passes, history, recovered, edited, early, overlap>>
  BY <1>0 DEF SelectOffline, SdTypes
<1>2. V(p, "present") /\ V(p, "meta") # "old"
  BY <1>0, <1>1 DEF Seeds, Begun, Sorted
<1>3. \/ V(p, "meta") # "optout" /\ to = "expiring"
      \/ V(p, "meta") = "optout" /\ V(p, "health") = "offline" /\ to = "noted"
      \/ V(p, "meta") = "optout" /\ to = "health"
  BY <1>0, <1>2, ViewIs DEF OptedOut
<1> HIDE DEF to
<1>4. /\ W(p)' = W(p) /\ V(p, "meta")' = V(p, "meta") /\ V(p, "health")' = V(p, "health")
      /\ V(p, "present")' = V(p, "present")
  BY <1>1 DEF W, V
<1>5. Seeds(p)'
  BY <1>0, <1>1, <1>2, <1>3, <1>4 DEF Seeds
<1>6. V(p, "meta")' = "optout" => Clean(p)'
  BY <1>1, <1>3, <1>4 DEF Clean, AtStates, AtAlerts, AtExpiring, AtCommit
<1>7. Locks' /\ DOMAIN own' = Transactions /\ W(p)' \subseteq Fields
  BY <1>0, <1>1 DEF Locks, W, SdTypes
<1>8. to \in Begun
  BY <1>3 DEF Begun, Sorted, AtStates, AtAlerts, AtExpiring
<1> QED BY <1>1, <1>5, <1>6, <1>7, <1>8, SeederStep


LEMMA SetHealthKeeps == ASSUME SeedingAssumption, SdInv, NEW p \in Seeders, SetHealth(p) PROVE SdInv'
<1>0. SdTypes /\ Locks /\ Rows /\ Seeds(p) /\ p \in Transactions
  BY DEF SdInv, Transactions
<1>a. p \notin early /\ V(p, "meta") = "optout" => Clean(p)
  BY DEF SdInv
<1>1. /\ pc[p] \in {"noted", "health"} /\ pc' = [pc EXCEPT ![p] = "states"] /\ pc'[p] = "states"
      /\ Update(p, View(p).health = "offline", SourceRow, [health |-> "unknown"])
      /\ UNCHANGED <<row, silent, passes, recovered, edited, early, overlap>>
  BY <1>0 DEF SetHealth, SdTypes
<1> DEFINE w == [health |-> "unknown"]
<1>2. /\ DOMAIN w = {"health"} /\ DOMAIN w \subseteq SourceRow
      /\ w["health"] = "unknown"
  BY DEF SourceRow
<1> HIDE DEF w
<1>3. /\ DOMAIN own' = Transactions /\ \A q \in Transactions \ {p} : own'[q] = own[q]
      /\ V(p, "health") = "offline" => /\ Locks' /\ W(p)' = W(p) \cup DOMAIN w
                                       /\ \A f \in DOMAIN w : own'[p][f] = w[f]
                                       /\ \A f \in W(p) \ DOMAIN w : own'[p][f] = own[p][f]
      /\ ~(V(p, "health") = "offline") => Locks' /\ own' = own /\ W(p)' = W(p)
  <2>1. View(p).health = V(p, "health")
    BY <1>0, ViewIs
  <2>2. CASE ~(V(p, "health") = "offline")
    <3>1. own' = own
      BY <1>1, <2>1, <2>2 DEF Update
    <3> QED BY <1>0, <2>2, <3>1 DEF SdTypes, Locks, W
  <2>3. CASE V(p, "health") = "offline"
    <3>1. Free(p, SourceRow) /\ own' = [own EXCEPT ![p] = Over(w, own[p])]
      BY <1>1, <2>1, <2>3 DEF Update, w
    <3>2. \A group \in {SourceRow, StateRow, AlertRow} :
            group \subseteq SourceRow \/ DOMAIN w \cap group = {}
      BY <1>2, Groups
    <3>3. /\ DOMAIN own' = Transactions /\ own'[p] = Over(w, own[p])
          /\ \A q \in Transactions \ {p} : own'[q] = own[q]
      BY <1>0, <3>1 DEF SdTypes
    <3>4. /\ Locks' /\ DOMAIN own'[p] = DOMAIN own[p] \cup DOMAIN w
          /\ \A f \in DOMAIN w : own'[p][f] = w[f]
          /\ \A f \in DOMAIN own[p] \ DOMAIN w : own'[p][f] = own[p][f]
      BY <1>0, <1>2, <3>1, <3>2, <3>3, Wrote
    <3> QED BY <2>3, <3>3, <3>4 DEF W
  <2> QED BY <2>2, <2>3
<1>4. /\ V(p, "meta")' = V(p, "meta") /\ V(p, "present")' = V(p, "present")
      /\ V(p, "health")' # "offline"
  <2>1. CASE V(p, "health") = "offline"
    BY <1>1, <1>2, <1>3, <2>1 DEF V
  <2>2. CASE V(p, "health") # "offline"
    BY <1>1, <1>3, <2>2 DEF V
  <2> QED BY <2>1, <2>2
<1>5. Seeds(p)'
  <2>1. V(p, "present") /\ V(p, "meta") # "old"
    BY <1>0, <1>1 DEF Seeds, Begun, Sorted
  <2>2. CASE V(p, "health") = "offline"
    BY <1>0, <1>1, <1>2, <1>3, <1>4, <2>1, <2>2 DEF Seeds
  <2>3. CASE V(p, "health") # "offline"
    BY <1>0, <1>1, <1>3, <1>4, <2>1, <2>3 DEF Seeds
  <2> QED BY <2>2, <2>3
<1>6. Clean(p)'
  BY <1>1, <1>4 DEF Clean, AtStates, AtAlerts, AtExpiring, AtCommit
<1>7. W(p)' \subseteq Fields
  BY <1>0, <1>2, <1>3, Groups DEF SdTypes
<1>8. \E h : history' = [history EXCEPT ![p] = h] /\ (h = "missed" => p \in recovered)
  <2>1. View(p).health = V(p, "health")
    BY <1>0, ViewIs
  <2>2. pc[p] = "noted" => V(p, "health") = "offline" \/ p \in recovered
    BY <1>0 DEF Seeds
  <2> DEFINE h == IF pc[p] # "noted" THEN "none" ELSE IF View(p).health = "offline" THEN "done" ELSE "missed"
  <2>3. history' = [history EXCEPT ![p] = h]
    BY DEF SetHealth
  <2>4. h = "missed" => p \in recovered
    BY <2>1, <2>2
  <2> HIDE DEF h
  <2> QED BY <2>3, <2>4
<1> QED BY <1>1, <1>3, <1>5, <1>6, <1>7, <1>8, SeederStep DEF Begun, Sorted, AtStates

LEMMA SetStatesKeeps == ASSUME SeedingAssumption, SdInv, NEW p \in Seeders, SetStates(p) PROVE SdInv'
<1>0. SdTypes /\ Locks /\ Rows /\ Seeds(p) /\ p \in Transactions
  BY DEF SdInv, Transactions
<1>a. p \notin early /\ V(p, "meta") = "optout" => Clean(p)
  BY DEF SdInv
<1>1. /\ pc[p] = "states" /\ pc' = [pc EXCEPT ![p] = "alerts"] /\ pc'[p] = "alerts"
      /\ Update(p, View(p).state = "offline", StateRow, [state |-> "stale"])
      /\ UNCHANGED <<row, silent, passes, history, recovered, edited, early, overlap>>
  BY <1>0 DEF SetStates, Statement, SdTypes
<1> DEFINE w == [state |-> "stale"]
<1>2. /\ DOMAIN w = {"state"} /\ DOMAIN w \subseteq StateRow
      /\ w["state"] = "stale"
  BY DEF StateRow
<1> HIDE DEF w
<1>3. /\ DOMAIN own' = Transactions /\ \A q \in Transactions \ {p} : own'[q] = own[q]
      /\ V(p, "state") = "offline" => /\ Locks' /\ W(p)' = W(p) \cup DOMAIN w
                                      /\ \A f \in DOMAIN w : own'[p][f] = w[f]
                                      /\ \A f \in W(p) \ DOMAIN w : own'[p][f] = own[p][f]
      /\ ~(V(p, "state") = "offline") => Locks' /\ own' = own /\ W(p)' = W(p)
  <2>1. View(p).state = V(p, "state")
    BY <1>0, ViewIs
  <2>2. CASE ~(V(p, "state") = "offline")
    <3>1. own' = own
      BY <1>1, <2>1, <2>2 DEF Update
    <3> QED BY <1>0, <2>2, <3>1 DEF SdTypes, Locks, W
  <2>3. CASE V(p, "state") = "offline"
    <3>1. Free(p, StateRow) /\ own' = [own EXCEPT ![p] = Over(w, own[p])]
      BY <1>1, <2>1, <2>3 DEF Update, w
    <3>2. \A group \in {SourceRow, StateRow, AlertRow} :
            group \subseteq StateRow \/ DOMAIN w \cap group = {}
      BY <1>2, Groups
    <3>3. /\ DOMAIN own' = Transactions /\ own'[p] = Over(w, own[p])
          /\ \A q \in Transactions \ {p} : own'[q] = own[q]
      BY <1>0, <3>1 DEF SdTypes
    <3>4. /\ Locks' /\ DOMAIN own'[p] = DOMAIN own[p] \cup DOMAIN w
          /\ \A f \in DOMAIN w : own'[p][f] = w[f]
          /\ \A f \in DOMAIN own[p] \ DOMAIN w : own'[p][f] = own[p][f]
      BY <1>0, <1>2, <3>1, <3>2, <3>3, Wrote
    <3> QED BY <2>3, <3>3, <3>4 DEF W
  <2> QED BY <2>2, <2>3
<1>4. /\ V(p, "meta")' = V(p, "meta") /\ V(p, "present")' = V(p, "present")
      /\ V(p, "health")' = V(p, "health") /\ V(p, "state")' # "offline"
  <2>1. CASE V(p, "state") = "offline"
    BY <1>1, <1>2, <1>3, <2>1 DEF V
  <2>2. CASE V(p, "state") # "offline"
    BY <1>1, <1>3, <2>2 DEF V
  <2> QED BY <2>1, <2>2
<1>5. Seeds(p)'
  <2>1. V(p, "present") /\ V(p, "meta") # "old"
    BY <1>0, <1>1 DEF Seeds, Begun, Sorted, AtStates
  <2>2. CASE V(p, "state") = "offline"
    <3>1. row.state = "offline"
      BY <1>0, <2>2 DEF Seeds, V
    <3> QED BY <1>0, <1>1, <1>2, <1>3, <1>4, <2>1, <2>2, <3>1 DEF Seeds
  <2>3. CASE V(p, "state") # "offline"
    BY <1>0, <1>1, <1>3, <1>4, <2>1, <2>3 DEF Seeds
  <2> QED BY <2>2, <2>3
<1>6. p \notin early /\ V(p, "meta")' = "optout" => Clean(p)'
  BY <1>a, <1>1, <1>4 DEF Clean, AtStates, AtAlerts, AtExpiring, AtCommit
<1>7. W(p)' \subseteq Fields
  BY <1>0, <1>2, <1>3, Groups DEF SdTypes
<1> QED BY <1>1, <1>3, <1>5, <1>6, <1>7, SeederStep DEF Begun, Sorted, AtStates, AtAlerts

LEMMA ResolveKeeps == ASSUME SeedingAssumption, SdInv, NEW p \in Seeders, ResolveAlert(p) PROVE SdInv'
<1>0. SdTypes /\ Locks /\ Rows /\ Seeds(p) /\ p \in Transactions
  BY DEF SdInv, Transactions
<1>a. p \notin early /\ V(p, "meta") = "optout" => Clean(p)
  BY DEF SdInv
<1>1. /\ pc[p] = "alerts" /\ pc' = [pc EXCEPT ![p] = "expiring"] /\ pc'[p] = "expiring"
      /\ Update(p, View(p).alert = "open", AlertRow,
                [alert |-> "resolved",
                 item |-> IF View(p).item = "pending" THEN "cancelled" ELSE View(p).item])
      /\ UNCHANGED <<row, silent, passes, history, recovered, edited, early, overlap>>
  BY <1>0 DEF ResolveAlert, Statement, SdTypes
<1>b. V(p, "item") \in Items
  BY <1>0 DEF SdTypes, Proper, Seeds, V, Items
<1> DEFINE w == [alert |-> "resolved", item |-> IF V(p, "item") = "pending" THEN "cancelled" ELSE V(p, "item")]
<1>2. /\ DOMAIN w = {"alert", "item"} /\ DOMAIN w \subseteq AlertRow
      /\ w["alert"] = "resolved" /\ w["item"] \in {"none", "cancelled"}
  BY <1>b DEF AlertRow, Items
<1> HIDE DEF w
<1>3. /\ DOMAIN own' = Transactions /\ \A q \in Transactions \ {p} : own'[q] = own[q]
      /\ V(p, "alert") = "open" => /\ Locks' /\ W(p)' = W(p) \cup DOMAIN w
                                   /\ \A f \in DOMAIN w : own'[p][f] = w[f]
                                   /\ \A f \in W(p) \ DOMAIN w : own'[p][f] = own[p][f]
      /\ ~(V(p, "alert") = "open") => Locks' /\ own' = own /\ W(p)' = W(p)
  <2>1. View(p).alert = V(p, "alert") /\ View(p).item = V(p, "item")
    BY <1>0, ViewIs
  <2>2. CASE ~(V(p, "alert") = "open")
    <3>1. own' = own
      BY <1>1, <2>1, <2>2 DEF Update
    <3> QED BY <1>0, <2>2, <3>1 DEF SdTypes, Locks, W
  <2>3. CASE V(p, "alert") = "open"
    <3>1. Free(p, AlertRow) /\ own' = [own EXCEPT ![p] = Over(w, own[p])]
      BY <1>1, <2>1, <2>3 DEF Update, w
    <3>2. \A group \in {SourceRow, StateRow, AlertRow} :
            group \subseteq AlertRow \/ DOMAIN w \cap group = {}
      BY <1>2, Groups
    <3>3. /\ DOMAIN own' = Transactions /\ own'[p] = Over(w, own[p])
          /\ \A q \in Transactions \ {p} : own'[q] = own[q]
      BY <1>0, <3>1 DEF SdTypes
    <3>4. /\ Locks' /\ DOMAIN own'[p] = DOMAIN own[p] \cup DOMAIN w
          /\ \A f \in DOMAIN w : own'[p][f] = w[f]
          /\ \A f \in DOMAIN own[p] \ DOMAIN w : own'[p][f] = own[p][f]
      BY <1>0, <1>2, <3>1, <3>2, <3>3, Wrote
    <3> QED BY <2>3, <3>3, <3>4 DEF W
  <2> QED BY <2>2, <2>3
<1>4. /\ V(p, "meta")' = V(p, "meta") /\ V(p, "present")' = V(p, "present")
      /\ V(p, "health")' = V(p, "health") /\ V(p, "state")' = V(p, "state")
      /\ V(p, "alert")' # "open"
  <2>1. CASE V(p, "alert") = "open"
    BY <1>1, <1>2, <1>3, <2>1 DEF V
  <2>2. CASE V(p, "alert") # "open"
    BY <1>1, <1>3, <2>2 DEF V
  <2> QED BY <2>1, <2>2
<1>5. Seeds(p)'
  <2>1. V(p, "present") /\ V(p, "meta") # "old"
    BY <1>0, <1>1 DEF Seeds, Begun, Sorted, AtStates, AtAlerts
  <2>2. CASE V(p, "alert") = "open"
    BY <1>0, <1>1, <1>2, <1>3, <1>4, <2>1, <2>2 DEF Seeds
  <2>3. CASE V(p, "alert") # "open"
    BY <1>0, <1>1, <1>3, <1>4, <2>1, <2>3 DEF Seeds
  <2> QED BY <2>2, <2>3
<1>6. p \notin early /\ V(p, "meta")' = "optout" => Clean(p)'
  BY <1>a, <1>1, <1>4 DEF Clean, AtStates, AtAlerts, AtExpiring, AtCommit
<1>7. W(p)' \subseteq Fields
  BY <1>0, <1>2, <1>3, Groups DEF SdTypes
<1> QED BY <1>1, <1>3, <1>5, <1>6, <1>7, SeederStep DEF Begun, Sorted, AtStates, AtAlerts, AtExpiring

LEMMA UnExpireKeeps == ASSUME SeedingAssumption, SdInv, NEW p \in Seeders, UnExpire(p) PROVE SdInv'
<1>0. SdTypes /\ Locks /\ Rows /\ Seeds(p) /\ p \in Transactions
  BY DEF SdInv, Transactions
<1>a. p \notin early /\ V(p, "meta") = "optout" => Clean(p)
  BY DEF SdInv
<1>1. /\ pc[p] = "expiring" /\ pc' = [pc EXCEPT ![p] = "commit"] /\ pc'[p] = "commit"
      /\ Update(p, OptedOut(p) /\ View(p).state = "stale", StateRow, [state |-> "current"])
      /\ UNCHANGED <<row, silent, passes, history, recovered, edited, early, overlap>>
  BY <1>0 DEF UnExpire, Statement, SdTypes
<1>b. V(p, "present") /\ V(p, "meta") # "old"
  BY <1>0, <1>1 DEF Seeds, Begun, Sorted, AtStates, AtAlerts, AtExpiring
<1> DEFINE expired == V(p, "meta") = "optout" /\ V(p, "state") = "stale"
<1>c. expired <=> OptedOut(p) /\ View(p).state = "stale"
  BY <1>0, <1>b, ViewIs DEF OptedOut
<1> HIDE DEF expired
<1> DEFINE w == [state |-> "current"]
<1>2. /\ DOMAIN w = {"state"} /\ DOMAIN w \subseteq StateRow
      /\ w["state"] = "current"
  BY DEF StateRow
<1> HIDE DEF w
<1>3. /\ DOMAIN own' = Transactions /\ \A q \in Transactions \ {p} : own'[q] = own[q]
      /\ expired => /\ Locks' /\ W(p)' = W(p) \cup DOMAIN w
                    /\ \A f \in DOMAIN w : own'[p][f] = w[f]
                    /\ \A f \in W(p) \ DOMAIN w : own'[p][f] = own[p][f]
      /\ ~(expired) => Locks' /\ own' = own /\ W(p)' = W(p)
  <2>1. expired <=> OptedOut(p) /\ View(p).state = "stale"
    BY <1>c
  <2>2. CASE ~(expired)
    <3>1. own' = own
      BY <1>1, <2>1, <2>2 DEF Update
    <3> QED BY <1>0, <2>2, <3>1 DEF SdTypes, Locks, W
  <2>3. CASE expired
    <3>1. Free(p, StateRow) /\ own' = [own EXCEPT ![p] = Over(w, own[p])]
      BY <1>1, <2>1, <2>3 DEF Update, w
    <3>2. \A group \in {SourceRow, StateRow, AlertRow} :
            group \subseteq StateRow \/ DOMAIN w \cap group = {}
      BY <1>2, Groups
    <3>3. /\ DOMAIN own' = Transactions /\ own'[p] = Over(w, own[p])
          /\ \A q \in Transactions \ {p} : own'[q] = own[q]
      BY <1>0, <3>1 DEF SdTypes
    <3>4. /\ Locks' /\ DOMAIN own'[p] = DOMAIN own[p] \cup DOMAIN w
          /\ \A f \in DOMAIN w : own'[p][f] = w[f]
          /\ \A f \in DOMAIN own[p] \ DOMAIN w : own'[p][f] = own[p][f]
      BY <1>0, <1>2, <3>1, <3>2, <3>3, Wrote
    <3> QED BY <2>3, <3>3, <3>4 DEF W
  <2> QED BY <2>2, <2>3
<1>4. /\ V(p, "meta")' = V(p, "meta") /\ V(p, "present")' = V(p, "present")
      /\ V(p, "health")' = V(p, "health") /\ V(p, "alert")' = V(p, "alert")
      /\ expired => V(p, "state")' = "current"
      /\ ~expired => V(p, "state")' = V(p, "state")
  <2>1. CASE expired
    BY <1>1, <1>2, <1>3, <2>1 DEF V
  <2>2. CASE ~expired
    BY <1>1, <1>3, <2>2 DEF V
  <2> QED BY <2>1, <2>2
<1>5. Seeds(p)'
  <2>2. CASE expired
    BY <1>0, <1>b, <1>1, <1>2, <1>3, <1>4, <2>2 DEF Seeds
  <2>3. CASE ~expired
    BY <1>0, <1>b, <1>1, <1>3, <1>4, <2>3 DEF Seeds
  <2> QED BY <2>2, <2>3
<1>6. p \notin early /\ V(p, "meta")' = "optout" => Clean(p)'
  BY <1>a, <1>1, <1>4 DEF Clean, expired, AtStates, AtAlerts, AtExpiring, AtCommit
<1>7. W(p)' \subseteq Fields
  BY <1>0, <1>2, <1>3, Groups DEF SdTypes
<1> QED BY <1>1, <1>3, <1>5, <1>6, <1>7, SeederStep DEF Begun, Sorted, AtStates, AtAlerts, AtExpiring, AtCommit


\* The freshness tick.
LEMMA TickStep ==
  ASSUME SeedingAssumption, SdInv, UNCHANGED <<row, silent, history, recovered, edited, early, overlap>>,
         DOMAIN own' = Transactions, \A q \in Transactions \ {"tick"} : own'[q] = own[q],
         NEW to \in {"select", "commit"}, pc' = [pc EXCEPT !["tick"] = to], passes' \in 0 .. Ticks,
         W("tick")' \subseteq Fields, Locks', Ages'
  PROVE  SdInv'
<1>0. /\ SdTypes /\ Locks /\ Rows /\ Ages /\ \A q \in Seeders : Seeds(q)
      /\ \A q \in Seeders \ early : V(q, "meta") = "optout" => Clean(q)
      /\ HistoryIsTrue
  BY DEF SdInv
<1>1. "tick" \in Transactions /\ \A q \in Seeders : q \in Transactions \ {"tick"}
  BY DEF Transactions, SeedingAssumption
<1>2. /\ pc' \in [Transactions -> {"insert"} \cup Begun] /\ pc'["tick"] = to
      /\ \A q \in Transactions \ {"tick"} : pc'[q] = pc[q]
  BY <1>0, <1>1 DEF SdTypes, Begun, Sorted, AtStates, AtAlerts, AtExpiring, AtCommit
<1>3. \A q \in Transactions \ {"tick"} :
        /\ own'[q] = own[q] /\ W(q)' = W(q)
        /\ V(q, "present")' = V(q, "present") /\ V(q, "meta")' = V(q, "meta")
        /\ V(q, "health")' = V(q, "health") /\ V(q, "state")' = V(q, "state")
        /\ V(q, "alert")' = V(q, "alert")
  BY DEF W, V
<1>5. SdTypes'
  BY <1>0, <1>1, <1>2, <1>3 DEF SdTypes, Proper
<1>6. Rows'
  BY <1>0 DEF Rows
<1>8. \A q \in Seeders : Seeds(q)'
  BY <1>0, <1>1, <1>2, <1>3 DEF Seeds
<1>9. \A q \in Seeders \ early : V(q, "meta")' = "optout" => Clean(q)'
  BY <1>0, <1>1, <1>2, <1>3 DEF Clean
<1>10. HistoryIsTrue'
  BY <1>0 DEF HistoryIsTrue
<1> QED BY <1>5, <1>6, <1>8, <1>9, <1>10 DEF SdInv

LEMMA MarkStaleKeeps == ASSUME SeedingAssumption, SdInv, MarkStale PROVE SdInv'
<1>0. SdTypes /\ Locks /\ Rows /\ Ages /\ "tick" \in Transactions
  BY DEF SdInv, Transactions
<1> DEFINE expires == row.meta # "optout" /\ row.state = "current"
           w == [state |-> IF silent THEN "stale" ELSE "current"]
<1>1. /\ pc["tick"] = "insert" /\ pc' = [pc EXCEPT !["tick"] = "select"] /\ pc'["tick"] = "select"
      /\ Update("tick", expires, StateRow, w) /\ row.present /\ W("tick") = {}
      /\ passes' \in 0 .. Ticks
      /\ UNCHANGED <<row, silent, history, recovered, edited, early, overlap>>
  BY <1>0 DEF MarkStale, Statement, SdTypes, Ages, SeedingAssumption
<1>2. /\ DOMAIN w = {"state"} /\ DOMAIN w \subseteq StateRow
      /\ w["state"] \in {"current", "stale"} /\ (w["state"] = "stale" => silent)
  BY DEF StateRow
<1> HIDE DEF w
<1>3. CASE ~expires
  <2>1. own' = own
    BY <1>1, <1>3 DEF Update
  <2>2. Locks' /\ DOMAIN own' = Transactions /\ W("tick")' = {}
    BY <1>0, <1>1, <2>1 DEF Locks, W, SdTypes
  <2>3. Ages'
    BY <1>1, <2>2 DEF Ages
  <2> QED BY <1>1, <2>1, <2>2, <2>3, TickStep
<1>4. CASE expires
  <2>1. Free("tick", StateRow) /\ own' = [own EXCEPT !["tick"] = Over(w, own["tick"])]
    BY <1>1, <1>4 DEF Update
  <2>2. \A group \in {SourceRow, StateRow, AlertRow} : group \subseteq StateRow \/ DOMAIN w \cap group = {}
    BY <1>2, Groups
  <2>3. /\ DOMAIN own' = Transactions /\ own'["tick"] = Over(w, own["tick"])
        /\ \A q \in Transactions \ {"tick"} : own'[q] = own[q]
    BY <1>0, <2>1 DEF SdTypes
  <2>4. /\ Locks' /\ DOMAIN own'["tick"] = DOMAIN own["tick"] \cup DOMAIN w
        /\ \A f \in DOMAIN w : own'["tick"][f] = w[f]
    BY <1>0, <1>2, <2>1, <2>2, <2>3, Wrote
  <2>5. W("tick")' = {"state"} /\ own'["tick"]["state"] = w["state"]
    BY <1>1, <1>2, <2>4 DEF W
  <2>6. Ages'
    BY <1>1, <1>2, <1>4, <2>5 DEF Ages
  <2> QED BY <1>1, <2>3, <2>4, <2>5, <2>6, TickStep DEF Fields, StateRow
<1> QED BY <1>3, <1>4

LEMMA MarkOfflineKeeps == ASSUME SeedingAssumption, SdInv, MarkOffline PROVE SdInv'
<1>0. SdTypes /\ Locks /\ Rows /\ Ages /\ "tick" \in Transactions
  BY DEF SdInv, Transactions
<1> DEFINE reports == row.meta # "optout" /\ row.health = "online"
           F == SourceRow \cup IF silent THEN StateRow \cup AlertRow ELSE {}
           w == IF silent THEN [health |-> "offline", alert |-> "open", item |-> "pending",
                                state |-> IF V("tick", "state") = "none" THEN "none" ELSE "offline"]
                ELSE [health |-> "online"]
<1>a. View("tick").state = V("tick", "state")
  BY <1>0, ViewIs
<1>1. /\ pc["tick"] = "select" /\ pc' = [pc EXCEPT !["tick"] = "commit"] /\ pc'["tick"] = "commit"
      /\ UNCHANGED <<row, silent, passes, history, recovered, edited, early, overlap>>
      /\ W("tick") \subseteq {"state"} /\ ("state" \in W("tick") => row.state = "current")
      /\ passes \in 0 .. Ticks
  BY <1>0 DEF MarkOffline, Statement, SdTypes, Ages
<1>b. Update("tick", reports, F, w)
  BY <1>a DEF MarkOffline
<1>2. /\ silent => /\ DOMAIN w = {"health", "alert", "item", "state"} /\ w["health"] = "offline"
                   /\ w["alert"] = "open" /\ w["item"] = "pending"
                   /\ w["state"] = IF V("tick", "state") = "none" THEN "none" ELSE "offline"
      /\ ~silent => DOMAIN w = {"health"} /\ w["health"] = "online"
  OBVIOUS
<1>c. /\ DOMAIN w \subseteq F
      /\ \A group \in {SourceRow, StateRow, AlertRow} : group \subseteq F \/ DOMAIN w \cap group = {}
  <2> HIDE DEF w
  <2>1. CASE silent
    <3>1. F = Fields
      BY <2>1 DEF Fields
    <3> QED BY <1>2, <2>1, <3>1, Groups DEF SourceRow, StateRow, AlertRow
  <2>2. CASE ~silent
    <3>1. F = SourceRow
      BY <2>2
    <3> QED BY <1>2, <2>2, <3>1 DEF SourceRow, StateRow, AlertRow
  <2> QED BY <2>1, <2>2
<1> HIDE DEF w, F
<1>3. CASE ~reports
  <2>1. own' = own
    BY <1>b, <1>3 DEF Update
  <2>2. Locks' /\ DOMAIN own' = Transactions /\ W("tick")' = W("tick") /\ W("tick") \subseteq Fields
    BY <1>0, <2>1 DEF Locks, W, SdTypes
  <2>3. row.meta = "old" => "state" \notin W("tick")
    BY <1>0, <1>1, <1>3 DEF Rows, SdTypes, Proper, Healths
  <2>4. Ages'
    BY <1>0, <1>1, <2>1, <2>2, <2>3 DEF Ages
  <2> QED BY <1>1, <2>1, <2>2, <2>4, TickStep
<1>4. CASE reports
  <2>1. Free("tick", F) /\ own' = [own EXCEPT !["tick"] = Over(w, own["tick"])]
    BY <1>b, <1>4 DEF Update
  <2>3. /\ DOMAIN own' = Transactions /\ own'["tick"] = Over(w, own["tick"])
        /\ \A q \in Transactions \ {"tick"} : own'[q] = own[q]
    BY <1>0, <2>1 DEF SdTypes
  <2>4. /\ Locks' /\ DOMAIN own'["tick"] = DOMAIN own["tick"] \cup DOMAIN w
        /\ \A f \in DOMAIN w : own'["tick"][f] = w[f]
        /\ \A f \in DOMAIN own["tick"] \ DOMAIN w : own'["tick"][f] = own["tick"][f]
    BY <1>0, <1>c, <2>1, <2>3, Wrote
  <2>5. W("tick")' = W("tick") \cup DOMAIN w
    BY <2>4 DEF W
  <2>6. row.present /\ row.meta # "optout"
    BY <1>0, <1>4 DEF Rows
  <2>7. Ages'
    <3>1. CASE silent
      <4>1. W("tick")' = {"health", "alert", "item", "state"}
        BY <1>1, <1>2, <2>5, <3>1
      <4>2. row.meta = "old" => V("tick", "state") # "none"
        <5>1. row.meta = "old" => row.state = "current"
          BY <1>0, <1>4 DEF Rows
        <5>2. "state" \in W("tick") => own["tick"]["state"] \in {"current", "stale"}
          BY <1>0, <1>1 DEF Ages
        <5> QED BY <5>1, <5>2 DEF V
      <4>3. /\ own'["tick"]["health"] = "offline" /\ own'["tick"]["alert"] = "open"
            /\ own'["tick"]["item"] = "pending" /\ own'["tick"]["state"] \in {"none", "offline"}
            /\ row.meta = "old" => V("tick", "state")' = "offline"
        BY <1>2, <2>4, <3>1, <4>1, <4>2 DEF V
      <4> QED BY <1>1, <2>6, <4>1, <4>3 DEF Ages
    <3>2. CASE ~silent
      <4>1. W("tick")' = W("tick") \cup {"health"} /\ own'["tick"]["health"] = "online"
        BY <1>2, <2>4, <2>5, <3>2
      <4>2. "state" \in W("tick") => own'["tick"]["state"] = own["tick"]["state"]
        BY <1>1, <1>2, <2>4, <3>2 DEF W
      <4>3. "state" \in W("tick") => own["tick"]["state"] = "current"
        BY <1>0, <1>1, <3>2 DEF Ages
      <4>4. row.meta = "old" => V("tick", "state")' = "current"
        BY <1>0, <1>1, <1>4, <4>1, <4>2, <4>3 DEF Rows, V
      <4> QED BY <1>1, <2>6, <4>1, <4>2, <4>3, <4>4 DEF Ages
    <3> QED BY <3>1, <3>2
  <2>8. W("tick")' \subseteq Fields
    BY <1>1, <1>2, <2>5 DEF Fields, SourceRow, StateRow, AlertRow
  <2> QED BY <1>1, <2>3, <2>4, <2>7, <2>8, TickStep
<1> QED BY <1>3, <1>4


\* What the transactions see when one has committed.
LEMMA Committed ==
  ASSUME SeedingAssumption, SdInv, NEW p \in Transactions, pc[p] = "commit", Commit(p)
  PROVE  /\ DOMAIN own' = Transactions /\ W(p)' = {}
         /\ \A q \in Transactions \ {p} : own'[q] = own[q]
         /\ DOMAIN row' = Fields /\ \A f \in Fields : row'[f] = V(p, f)
         /\ row'.present = V(p, "present") /\ row'.meta = V(p, "meta") /\ row'.health = V(p, "health")
         /\ row'.state = V(p, "state") /\ row'.alert = V(p, "alert") /\ row'.item = V(p, "item")
<1>1. SdTypes
  BY DEF SdInv
<1>2. row' = View(p) /\ own' = [own EXCEPT ![p] = Nothing]
  BY DEF Commit
<1>3. DOMAIN Nothing = {}
  BY DEF Nothing
<1>4. /\ DOMAIN own' = Transactions /\ W(p)' = {}
      /\ \A q \in Transactions \ {p} : own'[q] = own[q]
  BY <1>1, <1>2, <1>3 DEF SdTypes, W
<1>5. \A f \in Fields : View(p)[f] = V(p, f)
  BY <1>1 DEF View, Over, W, V, SdTypes, Proper
<1> QED BY <1>1, <1>2, <1>4, <1>5, ViewIs

LEMMA SeedCommitKeeps == ASSUME SeedingAssumption, SdInv, NEW p \in Seeders, Commit(p) PROVE SdInv'
<1>0. /\ SdTypes /\ Locks /\ Rows /\ Ages /\ \A q \in Seeders : Seeds(q)
      /\ \A q \in Seeders \ early : V(q, "meta") = "optout" => Clean(q)
      /\ HistoryIsTrue
  BY DEF SdInv
<1>1. /\ p \in Transactions /\ "tick" \in Transactions /\ p # "tick"
      /\ \A q \in Seeders : q \in Transactions /\ q # "tick"
  BY DEF Transactions, SeedingAssumption
<1>2. /\ pc[p] = "commit" /\ pc' = [pc EXCEPT ![p] = "seeded"]
      /\ overlap' = (overlap \/ ("meta" \in W(p) /\ pc["tick"] # "insert"))
      /\ recovered' = recovered \cup IF "health" \in W(p) THEN Noting ELSE {}
      /\ UNCHANGED <<silent, passes, history, edited, early>>
  BY <1>1 DEF Commit, W
<1>3. /\ pc' \in [Transactions -> {"insert"} \cup Begun] /\ pc'[p] = "seeded"
      /\ \A q \in Transactions \ {p} : pc'[q] = pc[q]
  BY <1>0, <1>1, <1>2 DEF SdTypes, Begun, Sorted, AtStates, AtAlerts, AtExpiring, AtCommit
<1>4. /\ DOMAIN own' = Transactions /\ W(p)' = {}
      /\ \A q \in Transactions \ {p} : own'[q] = own[q]
      /\ DOMAIN row' = Fields /\ \A f \in Fields : row'[f] = V(p, f)
      /\ row'.present = V(p, "present") /\ row'.meta = V(p, "meta") /\ row'.health = V(p, "health")
      /\ row'.state = V(p, "state") /\ row'.alert = V(p, "alert") /\ row'.item = V(p, "item")
  BY <1>1, <1>2, Committed
<1>5. \A q \in Transactions \ {p} : W(q)' = W(q)
  BY <1>4 DEF W
<1>6. V(p, "present") = TRUE /\ V(p, "meta") # "old"
  BY <1>0, <1>2 DEF Seeds, Begun, Sorted, AtStates, AtAlerts, AtExpiring, AtCommit, V, SdTypes, Proper
<1>7. /\ "meta" \in W(p) => V(p, "meta") = "optout" /\ (row.meta = "old" \/ ~row.present)
      /\ "health" \in W(p) => V(p, "health") = "unknown"
      /\ "state" \in W(p) => \/ V(p, "state") = "current"
                             \/ V(p, "state") = "stale" /\ row.state = "offline"
      /\ "alert" \in W(p) <=> "item" \in W(p)
      /\ "alert" \in W(p) => V(p, "alert") = "resolved" /\ V(p, "item") \in {"none", "cancelled"}
  BY <1>0 DEF Seeds, V
<1>8. /\ "meta" \notin W(p) => V(p, "meta") = row.meta
      /\ "health" \notin W(p) => V(p, "health") = row.health
      /\ "state" \notin W(p) => V(p, "state") = row.state
      /\ "alert" \notin W(p) => V(p, "alert") = row.alert
      /\ "item" \notin W(p) => V(p, "item") = row.item
      /\ "present" \notin W(p) => V(p, "present") = row.present
  BY DEF V
<1>9. \A q \in Transactions \ {p} :
        /\ W(p) \cap SourceRow = {} \/ W(q) \cap SourceRow = {}
        /\ W(p) \cap StateRow = {} \/ W(q) \cap StateRow = {}
        /\ W(p) \cap AlertRow = {} \/ W(q) \cap AlertRow = {}
  BY <1>0, <1>1 DEF Locks
<1>10. Proper(row')
  BY <1>0, <1>4, <1>6, <1>7, <1>8 DEF Proper, SdTypes, Metas, Healths, States, Alerts, Items
<1>11. SdTypes'
  <2>1. recovered' \subseteq Seeders
    BY <1>0, <1>2 DEF SdTypes, Noting
  <2>2. \A q \in Transactions : W(q)' \subseteq Fields
    BY <1>0, <1>4, <1>5 DEF SdTypes
  <2>3. pc'["tick"] = pc["tick"]
    BY <1>1, <1>3
  <2> QED BY <1>0, <1>2, <1>3, <1>4, <1>10, <2>1, <2>2, <2>3 DEF SdTypes, Proper
<1>12. Locks'
  BY <1>0, <1>4, <1>5 DEF Locks
<1>13. Rows'
  <2>1. row'.item = "pending" => row'.alert = "open"
    BY <1>0, <1>4, <1>7, <1>8 DEF Rows
  <2>2. edited # "no" => row'.present /\ row'.meta = edited
    BY <1>0, <1>4, <1>6, <1>7, <1>8 DEF Rows, SdTypes
  <2> QED BY <1>2, <1>4, <1>6, <2>1, <2>2 DEF Rows
<1>14. Ages'
  <2>1. W("tick")' = W("tick") /\ own'["tick"] = own["tick"] /\ pc'["tick"] = pc["tick"]
    BY <1>1, <1>3, <1>4, <1>5
  <2>2. "state" \in W("tick") => row'.state = row.state
    BY <1>1, <1>4, <1>8, <1>9 DEF StateRow
  <2>3. "health" \in W("tick") => row'.meta = row.meta
    BY <1>1, <1>4, <1>8, <1>9 DEF SourceRow
  <2>4. "state" \in W("tick") /\ row'.meta = "optout" => overlap'
    BY <1>0, <1>2, <1>4, <1>8 DEF Ages
  <2> QED BY <1>0, <1>2, <1>4, <1>6, <2>1, <2>2, <2>3, <2>4 DEF Ages
<1>15. \A q \in Seeders : Seeds(q)'
  <2>1. ASSUME NEW q \in Seeders, q # p PROVE Seeds(q)'
    <3>1. /\ q \in Transactions \ {p} /\ W(q)' = W(q) /\ own'[q] = own[q] /\ pc'[q] = pc[q] /\ Seeds(q)
      BY <1>0, <1>1, <1>3, <1>4, <1>5, <2>1
    <3>2. "meta" \in W(q) => row'.meta = row.meta /\ row'.present = row.present
      BY <1>4, <1>8, <1>9, <3>1 DEF SourceRow
    <3>3. "state" \in W(q) => row'.state = row.state
      BY <1>4, <1>8, <1>9, <3>1 DEF StateRow
    <3>4. V(q, "present") => V(q, "present")'
      BY <1>4, <1>6, <3>1 DEF V
    <3>5. V(q, "meta") # "old" => V(q, "meta")' # "old"
      BY <1>4, <1>6, <3>1 DEF V
    <3>6. pc[q] = "noted" => V(q, "health")' = "offline" \/ q \in recovered'
      BY <1>2, <1>4, <1>8, <2>1, <3>1 DEF V, Noting, Seeds
    <3> QED BY <1>2, <3>1, <3>2, <3>3, <3>4, <3>5, <3>6 DEF Seeds
  <2>2. Seeds(p)'
    BY <1>3, <1>4, <1>6 DEF Seeds, V
  <2> QED BY <2>1, <2>2
<1>16. ASSUME NEW q \in Seeders \ early, V(q, "meta")' = "optout" PROVE Clean(q)'
  <2>1. CASE q = p
    <3>1. /\ V(p, "meta")' = V(p, "meta") /\ V(p, "health")' = V(p, "health")
          /\ V(p, "state")' = V(p, "state") /\ V(p, "alert")' = V(p, "alert")
      BY <1>4 DEF V
    <3>2. Clean(p) /\ (overlap => overlap')
      BY <1>0, <1>2, <1>16, <2>1, <3>1
    <3> QED BY <1>2, <1>3, <2>1, <3>1, <3>2 DEF Clean, AtStates, AtAlerts, AtExpiring, AtCommit
  <2>2. CASE q # p /\ pc[q] \in AtStates
    <3>1. /\ q \in Transactions \ {p} /\ W(q)' = W(q) /\ own'[q] = own[q] /\ pc'[q] = pc[q] /\ Seeds(q)
      BY <1>0, <1>1, <1>3, <1>4, <1>5, <2>2
    <3>2. V(q, "present") /\ V(q, "meta") # "old"
      BY <2>2, <3>1 DEF Seeds, Begun, Sorted
    <3>3. V(q, "meta") = "optout"
      <4>1. CASE "meta" \in W(q)
        BY <1>16, <3>1, <4>1 DEF V
      <4>2. CASE "meta" \notin W(q) /\ "meta" \notin W(p)
        BY <1>4, <1>8, <1>16, <3>1, <4>2 DEF V
      <4>3. CASE "meta" \notin W(q) /\ "meta" \in W(p)
        <5>1. "present" \notin W(q)
          BY <1>9, <3>1, <4>3 DEF SourceRow
        <5> QED BY <1>7, <3>2, <4>3, <5>1 DEF V
      <4> QED BY <4>1, <4>2, <4>3
    <3>4. Clean(q) /\ (overlap => overlap')
      BY <1>0, <1>2, <3>3
    <3>5. V(q, "health") # "offline" => V(q, "health")' # "offline"
      BY <1>4, <1>7, <1>8, <3>1 DEF V
    <3>6. V(q, "state") # "offline" => V(q, "state")' = V(q, "state") \/ V(q, "state")' = "current"
      BY <1>4, <1>7, <1>8, <1>9, <3>1 DEF V, StateRow
    <3>7. V(q, "alert") # "open" => V(q, "alert")' # "open"
      BY <1>4, <1>7, <1>8, <3>1 DEF V
    <3> QED BY <3>1, <3>4, <3>5, <3>6, <3>7 DEF Clean, AtAlerts, AtExpiring, AtCommit
  <2>3. CASE q # p /\ pc[q] \notin AtStates
    BY <1>1, <1>3, <2>3 DEF Clean, AtStates, AtAlerts, AtExpiring
  <2> QED BY <2>1, <2>2, <2>3
<1>17. HistoryIsTrue'
  BY <1>0, <1>2 DEF HistoryIsTrue
<1> QED BY <1>2, <1>11, <1>12, <1>13, <1>14, <1>15, <1>16, <1>17 DEF SdInv


\* What the tick commits.
LEMMA TickCommitKeeps == ASSUME SeedingAssumption, SdInv, Commit("tick") PROVE SdInv'
<1>0. /\ SdTypes /\ Locks /\ Rows /\ Ages /\ \A q \in Seeders : Seeds(q)
      /\ \A q \in Seeders \ early : V(q, "meta") = "optout" => Clean(q)
      /\ HistoryIsTrue
  BY DEF SdInv
<1>1. "tick" \in Transactions /\ \A q \in Seeders : q \in Transactions \ {"tick"}
  BY DEF Transactions, SeedingAssumption
<1>2. /\ pc["tick"] = "commit" /\ pc' = [pc EXCEPT !["tick"] = "insert"]
      /\ recovered' = recovered \cup IF "health" \in W("tick") THEN Noting ELSE {}
      /\ UNCHANGED <<silent, passes, history, edited, early>>
  BY DEF Commit, W
<1>b. overlap => overlap'
  BY DEF Commit
<1>3. /\ pc' \in [Transactions -> {"insert"} \cup Begun] /\ pc'["tick"] = "insert"
      /\ \A q \in Transactions \ {"tick"} : pc'[q] = pc[q]
  BY <1>0, <1>1, <1>2 DEF SdTypes
<1>4. /\ DOMAIN own' = Transactions /\ W("tick")' = {}
      /\ \A q \in Transactions \ {"tick"} : own'[q] = own[q]
      /\ DOMAIN row' = Fields /\ \A f \in Fields : row'[f] = V("tick", f)
      /\ row'.present = V("tick", "present") /\ row'.meta = V("tick", "meta")
      /\ row'.health = V("tick", "health") /\ row'.state = V("tick", "state")
      /\ row'.alert = V("tick", "alert") /\ row'.item = V("tick", "item")
  BY <1>1, <1>2, Committed
<1>5. \A q \in Transactions \ {"tick"} : W(q)' = W(q)
  BY <1>4 DEF W
<1>6. /\ W("tick") \subseteq {"health", "state", "alert", "item"}
      /\ row'.present = row.present /\ row'.meta = row.meta
  BY <1>0, <1>4 DEF Ages, V
<1>7. /\ "health" \in W("tick") => row'.health = own["tick"]["health"] /\ row'.health \in {"online", "offline"}
      /\ "state" \in W("tick") => row'.state = own["tick"]["state"] /\ row'.state \in States
      /\ "alert" \in W("tick") => row'.alert = "open" /\ row'.item = "pending"
      /\ "alert" \in W("tick") <=> "item" \in W("tick")
  BY <1>0, <1>4 DEF Ages, V, States
<1>8. /\ "health" \notin W("tick") => row'.health = row.health
      /\ "state" \notin W("tick") => row'.state = row.state
      /\ "alert" \notin W("tick") => row'.alert = row.alert
      /\ "item" \notin W("tick") => row'.item = row.item
  BY <1>4 DEF V
<1>9. \A q \in Transactions \ {"tick"} :
        /\ W("tick") \cap SourceRow = {} \/ W(q) \cap SourceRow = {}
        /\ W("tick") \cap StateRow = {} \/ W(q) \cap StateRow = {}
  BY <1>0, <1>1 DEF Locks
<1>10. Proper(row')
  BY <1>0, <1>4, <1>6, <1>7, <1>8 DEF Proper, SdTypes, Healths, States, Alerts, Items
<1>11. SdTypes'
  <2>1. recovered' \subseteq Seeders
    BY <1>0, <1>2 DEF SdTypes, Noting
  <2>2. \A q \in Transactions : W(q)' \subseteq Fields
    BY <1>0, <1>4, <1>5 DEF SdTypes
  <2> QED BY <1>0, <1>2, <1>3, <1>4, <1>10, <2>1, <2>2 DEF SdTypes, Proper
<1>12. Locks'
  BY <1>0, <1>4, <1>5 DEF Locks
<1>13. Rows'
  <2>1. row'.item = "pending" => row'.alert = "open"
    BY <1>0, <1>7, <1>8 DEF Rows
  <2>2. edited' # "no" => row'.present /\ row'.meta = edited'
    BY <1>0, <1>2, <1>6 DEF Rows
  <2>3. row'.meta = "old" => /\ row'.present
                             /\ row'.health = "unknown" => row'.state = "none"
                             /\ row'.health = "online" => row'.state = "current"
                             /\ row'.health = "offline" => row'.state = "offline"
    <3>1. CASE "health" \in W("tick")
      BY <1>0, <1>4, <1>6, <1>7, <3>1 DEF Ages, Rows
    <3>2. CASE "health" \notin W("tick")
      <4>1. row.meta = "old" => "state" \notin W("tick")
        BY <1>0, <1>2, <3>2 DEF Ages
      <4> QED BY <1>0, <1>6, <1>8, <3>2, <4>1 DEF Rows
    <3> QED BY <3>1, <3>2
  <2>4. ~row'.present => /\ row'.meta = "optout" /\ row'.health = "unknown" /\ row'.state = "none"
                         /\ row'.alert = "none"
    <3>1. ~row.present => W("tick") = {}
      BY <1>0 DEF Ages
    <3> QED BY <1>0, <1>6, <1>8, <3>1 DEF Rows
  <2> QED BY <2>1, <2>2, <2>3, <2>4 DEF Rows
<1>14. Ages'
  BY <1>3, <1>4 DEF Ages
<1>15. ASSUME NEW q \in Seeders PROVE Seeds(q)'
  <2>1. /\ q \in Transactions \ {"tick"} /\ W(q)' = W(q) /\ own'[q] = own[q] /\ pc'[q] = pc[q] /\ Seeds(q)
    BY <1>0, <1>1, <1>3, <1>4, <1>5
  <2>2. "state" \in W(q) => row'.state = row.state
    BY <1>8, <1>9, <2>1 DEF StateRow
  <2>3. V(q, "present")' = V(q, "present") /\ V(q, "meta")' = V(q, "meta")
    BY <1>6, <2>1 DEF V
  <2>4. pc[q] = "noted" => V(q, "health")' = "offline" \/ q \in recovered'
    BY <1>2, <1>8, <2>1 DEF V, Noting, Seeds
  <2> QED BY <1>2, <1>6, <2>1, <2>2, <2>3, <2>4 DEF Seeds
<1>16. ASSUME NEW q \in Seeders \ early', V(q, "meta")' = "optout" PROVE Clean(q)'
  <2>1. /\ q \in Transactions \ {"tick"} /\ W(q)' = W(q) /\ own'[q] = own[q] /\ pc'[q] = pc[q] /\ Seeds(q)
    BY <1>0, <1>1, <1>3, <1>4, <1>5
  <2>2. V(q, "meta") = "optout" /\ Clean(q)
    BY <1>0, <1>2, <1>6, <1>16, <2>1 DEF V
  <2>3. "health" \notin W("tick") /\ "alert" \notin W("tick")
    <3>1. "health" \in W("tick") => row.meta # "optout" /\ "meta" \notin W(q)
      BY <1>0, <1>9, <2>1 DEF Ages, SourceRow
    <3> QED BY <1>0, <2>2, <3>1 DEF Ages, V
  <2>4. V(q, "health")' = V(q, "health") /\ V(q, "alert")' = V(q, "alert")
    BY <1>8, <2>1, <2>3 DEF V
  <2>5. CASE "state" \notin W("tick")
    <3>1. V(q, "state")' = V(q, "state")
      BY <1>8, <2>1, <2>5 DEF V
    <3> QED BY <1>b, <2>1, <2>2, <2>4, <3>1 DEF Clean
  <2>6. CASE "state" \in W("tick")
    <3>1. V(q, "state")' = own["tick"]["state"] /\ own["tick"]["state"] \in {"current", "stale"}
      BY <1>0, <1>7, <1>9, <2>1, <2>3, <2>6 DEF V, StateRow, Ages
    <3>2. overlap
      <4>1. row.meta = "optout" => overlap
        BY <1>0, <2>6 DEF Ages
      <4>2. row.meta # "optout" => row.meta = "old" \/ ~row.present
        BY <2>1, <2>2 DEF Seeds, V
      <4>3. row.present /\ row.meta # "old"
        BY <1>0, <1>2, <2>3, <2>6 DEF Ages
      <4> QED BY <4>1, <4>2, <4>3
    <3> QED BY <1>b, <2>1, <2>2, <2>4, <3>1, <3>2 DEF Clean
  <2> QED BY <2>5, <2>6
<1>17. HistoryIsTrue'
  BY <1>0, <1>2 DEF HistoryIsTrue
<1> QED BY <1>11, <1>12, <1>13, <1>14, <1>15, <1>16, <1>17 DEF SdInv

LEMMA ReadingKeeps == ASSUME SeedingAssumption, SdInv, Reading PROVE SdInv'
<1>0. /\ SdTypes /\ Locks /\ Rows /\ Ages /\ \A q \in Seeders : Seeds(q)
      /\ \A q \in Seeders \ early : V(q, "meta") = "optout" => Clean(q)
      /\ HistoryIsTrue
  BY DEF SdInv
<1>1. "tick" \in Transactions /\ \A q \in Seeders : q \in Transactions
  BY DEF Transactions
<1>2. /\ row.present /\ UNCHANGED <<own, pc, passes, history, edited, early, overlap>>
      /\ recovered' = recovered \cup Noting
  BY DEF Reading
<1>3. \A q \in Transactions : W(q) = {} /\ W(q)' = {}
  <2>1. "none" \notin Transactions
    BY DEF Transactions, SeedingAssumption
  <2>2. \A q \in Transactions : W(q) \cap Fields = {}
    BY <2>1 DEF Reading, Free, W, Fields
  <2>3. \A q \in Transactions : W(q) \subseteq Fields
    BY <1>0 DEF SdTypes
  <2>4. \A q \in Transactions : W(q)' = W(q)
    BY <1>2 DEF W
  <2> QED BY <2>2, <2>3, <2>4
<1>4. /\ DOMAIN row' = Fields /\ row'.present = row.present /\ row'.meta = row.meta
      /\ row'.health = "online" /\ row'.state = "current"
      /\ row'.alert = (IF row.alert = "open" THEN "resolved" ELSE row.alert)
      /\ row'.item = (IF row.item = "pending" THEN "cancelled" ELSE row.item)
  <2>1. DOMAIN row = Fields
    BY <1>0 DEF SdTypes, Proper
  <2> QED BY <2>1 DEF Reading, Fields, SourceRow, StateRow, AlertRow
<1>5. Proper(row')
  BY <1>0, <1>4 DEF SdTypes, Proper, Metas, Healths, States, Alerts, Items
<1>6. SdTypes'
  <2>1. recovered' \subseteq Seeders
    BY <1>0, <1>2 DEF SdTypes, Noting
  <2> QED BY <1>0, <1>2, <1>3, <1>5, <2>1 DEF SdTypes, Proper
<1>7. Locks'
  BY <1>3 DEF Locks
<1>8. Rows'
  BY <1>0, <1>2, <1>4 DEF Rows
<1>9. Ages'
  BY <1>1, <1>3 DEF Ages
<1>10. ASSUME NEW q \in Seeders PROVE Seeds(q)'
  <2>1. q \in Transactions /\ W(q) = {} /\ W(q)' = {} /\ Seeds(q)
    BY <1>0, <1>1, <1>3
  <2>2. /\ V(q, "present") = row.present /\ V(q, "present")' = row'.present
        /\ V(q, "meta") = row.meta /\ V(q, "meta")' = row'.meta
    BY <2>1 DEF V
  <2>3. pc[q] = "noted" => q \in recovered'
    BY <1>2 DEF Noting
  <2> QED BY <1>2, <1>4, <2>1, <2>2, <2>3 DEF Seeds
<1>11. ASSUME NEW q \in Seeders \ early', V(q, "meta")' = "optout" PROVE Clean(q)'
  <2>1. q \in Transactions /\ W(q) = {} /\ W(q)' = {}
    BY <1>1, <1>3
  <2>2. /\ V(q, "health")' = "online" /\ V(q, "state")' = "current"
        /\ V(q, "alert")' # "open"
    BY <1>4, <2>1 DEF V
  <2> QED BY <2>2 DEF Clean
<1>12. HistoryIsTrue'
  BY <1>0, <1>2 DEF HistoryIsTrue
<1> QED BY <1>6, <1>7, <1>8, <1>9, <1>10, <1>11, <1>12 DEF SdInv

LEMMA EditKeeps == ASSUME SeedingAssumption, SdInv, Edit PROVE SdInv'
<1>0. /\ SdTypes /\ Locks /\ Rows /\ Ages /\ \A q \in Seeders : Seeds(q)
      /\ \A q \in Seeders \ early : V(q, "meta") = "optout" => Clean(q)
      /\ HistoryIsTrue
  BY DEF SdInv
<1>1. "tick" \in Transactions /\ \A q \in Seeders : q \in Transactions
  BY DEF Transactions
<1>2. /\ row.present /\ UNCHANGED <<own, pc, silent, passes, history, recovered>>
      /\ edited' \in {"edited", "optout"} /\ early' = {p \in Seeders : pc[p] # "insert"}
      /\ overlap' = (overlap \/ pc["tick"] # "insert")
  BY DEF Edit
<1>3. \A q \in Transactions : W(q) \cap SourceRow = {} /\ W(q)' = W(q)
  <2>1. "none" \notin Transactions
    BY DEF Transactions, SeedingAssumption
  <2>2. \A q \in Transactions : W(q) \cap SourceRow = {}
    BY <2>1 DEF Edit, Free, W
  <2>4. \A q \in Transactions : W(q)' = W(q)
    BY <1>2 DEF W
  <2> QED BY <2>2, <2>4
<1>4. /\ DOMAIN row' = Fields /\ row'.present = row.present /\ row'.meta = edited'
      /\ row'.health = row.health /\ row'.state = row.state
      /\ row'.alert = row.alert /\ row'.item = row.item
  <2>1. DOMAIN row = Fields
    BY <1>0 DEF SdTypes, Proper
  <2> QED BY <2>1 DEF Edit, Fields, SourceRow, StateRow, AlertRow
<1>5. Proper(row')
  BY <1>0, <1>2, <1>4 DEF SdTypes, Proper, Metas
<1>6. SdTypes'
  BY <1>0, <1>2, <1>3, <1>5 DEF SdTypes, Proper
<1>7. Locks'
  BY <1>0, <1>3 DEF Locks
<1>8. Rows'
  BY <1>0, <1>2, <1>4 DEF Rows
<1>9. Ages'
  <2>1. "health" \notin W("tick") /\ "alert" \notin W("tick") /\ W("tick")' = W("tick")
    BY <1>0, <1>1, <1>3 DEF SourceRow, Ages
  <2>2. "state" \in W("tick") => overlap'
    BY <1>0, <1>2 DEF Ages
  <2> QED BY <1>0, <1>2, <1>4, <2>1, <2>2 DEF Ages
<1>10. ASSUME NEW q \in Seeders PROVE Seeds(q)'
  <2>1. /\ q \in Transactions /\ W(q)' = W(q) /\ own'[q] = own[q] /\ pc'[q] = pc[q] /\ Seeds(q)
        /\ "present" \notin W(q) /\ "meta" \notin W(q) /\ "health" \notin W(q)
    BY <1>0, <1>1, <1>2, <1>3 DEF SourceRow
  <2>2. /\ V(q, "present")' = row.present /\ V(q, "meta")' = edited'
        /\ V(q, "health")' = V(q, "health")
    BY <1>4, <2>1 DEF V
  <2> QED BY <1>2, <1>4, <2>1, <2>2 DEF Seeds
<1>11. ASSUME NEW q \in Seeders \ early' PROVE Clean(q)'
  BY <1>2 DEF Clean, AtStates, AtAlerts, AtExpiring, AtCommit
<1>12. HistoryIsTrue'
  BY <1>0, <1>2 DEF HistoryIsTrue
<1> QED BY <1>6, <1>7, <1>8, <1>9, <1>10, <1>11, <1>12 DEF SdInv

LEMMA RollBackKeeps == ASSUME SeedingAssumption, SdInv, NEW p \in Seeders, RollBack(p) PROVE SdInv'
<1>0. /\ SdTypes /\ Locks /\ Rows /\ Ages /\ \A q \in Seeders : Seeds(q)
      /\ \A q \in Seeders \ early : V(q, "meta") = "optout" => Clean(q)
      /\ HistoryIsTrue
  BY DEF SdInv
<1>1. /\ p \in Transactions /\ "tick" \in Transactions \ {p}
      /\ \A q \in Seeders : q \in Transactions
  BY DEF Transactions, SeedingAssumption
<1>2. /\ own' = [own EXCEPT ![p] = Nothing] /\ pc' = [pc EXCEPT ![p] = "insert"]
      /\ history' = [history EXCEPT ![p] = "none"] /\ early' = early \ {p}
      /\ UNCHANGED <<row, silent, passes, recovered, edited, overlap>>
  BY DEF RollBack
<1>3. /\ pc' \in [Transactions -> {"insert"} \cup Begun] /\ pc'[p] = "insert"
      /\ \A q \in Transactions \ {p} : pc'[q] = pc[q]
  BY <1>0, <1>1, <1>2 DEF SdTypes
<1>4. /\ DOMAIN own' = Transactions /\ W(p)' = {} /\ DOMAIN history' = Seeders
      /\ \A q \in Transactions \ {p} : own'[q] = own[q] /\ W(q)' = W(q)
  BY <1>0, <1>1, <1>2 DEF SdTypes, W, Nothing
<1>5. \A q \in Transactions \ {p} :
        /\ V(q, "present")' = V(q, "present") /\ V(q, "meta")' = V(q, "meta")
        /\ V(q, "health")' = V(q, "health") /\ V(q, "state")' = V(q, "state")
        /\ V(q, "alert")' = V(q, "alert")
  BY <1>2, <1>4 DEF V
<1>6. SdTypes'
  <2>1. pc'["tick"] = pc["tick"] /\ \A q \in Transactions : W(q)' \subseteq Fields
    BY <1>0, <1>1, <1>3, <1>4 DEF SdTypes
  <2> QED BY <1>0, <1>2, <1>3, <1>4, <2>1 DEF SdTypes, Proper
<1>7. Locks'
  BY <1>0, <1>4 DEF Locks
<1>8. Rows'
  BY <1>0, <1>2 DEF Rows
<1>9. Ages'
  BY <1>0, <1>1, <1>2, <1>3, <1>4, <1>5 DEF Ages
<1>10. ASSUME NEW q \in Seeders PROVE Seeds(q)'
  <2>1. CASE q = p
    BY <1>3, <1>4, <2>1 DEF Seeds, Begun, Sorted, AtStates, AtAlerts, AtExpiring, AtCommit
  <2>2. CASE q # p
    BY <1>0, <1>1, <1>2, <1>3, <1>4, <1>5, <2>2 DEF Seeds
  <2> QED BY <2>1, <2>2
<1>11. ASSUME NEW q \in Seeders \ early', V(q, "meta")' = "optout" PROVE Clean(q)'
  <2>1. CASE q = p
    BY <1>3, <2>1 DEF Clean, AtStates, AtAlerts, AtExpiring, AtCommit
  <2>2. CASE q # p
    BY <1>0, <1>1, <1>2, <1>3, <1>4, <1>5, <1>11, <2>2 DEF Clean
  <2> QED BY <2>1, <2>2
<1>12. HistoryIsTrue'
  BY <1>0, <1>2 DEF HistoryIsTrue, SdTypes
<1> QED BY <1>6, <1>7, <1>8, <1>9, <1>10, <1>11, <1>12 DEF SdInv

LEMMA FallSilentKeeps == ASSUME SdInv, FallSilent PROVE SdInv'
<1>1. silent' = TRUE /\ UNCHANGED <<row, own, pc, passes, history, recovered, edited, early, overlap>>
  BY DEF FallSilent
<1>2. SdTypes' /\ Locks' /\ Rows'
  BY <1>1 DEF SdInv, SdTypes, Proper, Locks, Rows, W
<1>3. Ages'
  BY <1>1 DEF SdInv, Ages, W, V
<1>4. \A q \in Seeders : Seeds(q)'
  BY <1>1 DEF SdInv, Seeds, W, V
<1>5. \A q \in Seeders \ early' : V(q, "meta")' = "optout" => Clean(q)'
  BY <1>1 DEF SdInv, Clean, W, V
<1>6. HistoryIsTrue'
  BY <1>1 DEF SdInv, HistoryIsTrue
<1> QED BY <1>2, <1>3, <1>4, <1>5, <1>6 DEF SdInv

\* Every step.
LEMMA SdStep == ASSUME SeedingAssumption, SdInv, [SdNext]_seedingVars PROVE SdInv'
<1>1. ASSUME NEW p \in Seeders,
             \/ Insert(p) \/ Migrate(p) \/ SelectOffline(p) \/ SetHealth(p) \/ SetStates(p)
             \/ ResolveAlert(p) \/ UnExpire(p) \/ RollBack(p)
      PROVE  SdInv'
  BY <1>1, InsertKeeps, MigrateKeeps, SelectKeeps, SetHealthKeeps, SetStatesKeeps, ResolveKeeps,
     UnExpireKeeps, RollBackKeeps
<1>2. ASSUME NEW p \in Transactions, Commit(p) PROVE SdInv'
  BY <1>2, SeedCommitKeeps, TickCommitKeeps DEF Transactions
<1>3. ASSUME MarkStale \/ MarkOffline \/ Reading \/ FallSilent \/ Edit PROVE SdInv'
  BY <1>3, MarkStaleKeeps, MarkOfflineKeeps, ReadingKeeps, FallSilentKeeps, EditKeeps
<1>4. ASSUME UNCHANGED seedingVars PROVE SdInv'
  <2>1. UNCHANGED <<row, own, pc, silent, passes, history, recovered, edited, early, overlap>>
    BY <1>4 DEF seedingVars
  <2>2. SdTypes' /\ Locks' /\ Rows' /\ Ages' /\ HistoryIsTrue'
    BY <2>1 DEF SdInv, SdTypes, Proper, Locks, Rows, Ages, HistoryIsTrue, W, V
  <2>3. \A q \in Seeders : Seeds(q)'
    BY <2>1 DEF SdInv, Seeds, W, V
  <2>4. \A q \in Seeders \ early' : V(q, "meta")' = "optout" => Clean(q)'
    BY <2>1 DEF SdInv, Clean, W, V
  <2> QED BY <2>2, <2>3, <2>4 DEF SdInv
<1> QED BY <1>1, <1>2, <1>3, <1>4 DEF SdNext

LEMMA SdEnds ==
  ASSUME SeedingAssumption, SdInv
  PROVE  SeedingTypeOK /\ EditsSurvive /\ NoFalseIncident /\ HistoryIsTrue
<1>1. SeedingTypeOK
  BY DEF SdInv, SdTypes, Proper, Locks, W, SeedingTypeOK, Metas, Healths, States, Alerts, Items
<1>2. EditsSurvive
  BY DEF SdInv, Rows, EditsSurvive
<1>3. NoFalseIncident
  <2>1. SUFFICES ASSUME NEW p \in Seeders \ early, pc[p] = "seeded", row.meta = "optout"
                 PROVE  /\ row.health # "offline" /\ row.state # "offline"
                        /\ row.alert # "open" /\ row.item # "pending"
                        /\ row.state = "stale" => overlap
    BY DEF NoFalseIncident
  <2>2. W(p) = {} /\ (row.item = "pending" => row.alert = "open")
    BY <2>1 DEF SdInv, Seeds, Rows
  <2>3. /\ V(p, "meta") = row.meta /\ V(p, "health") = row.health /\ V(p, "state") = row.state
        /\ V(p, "alert") = row.alert
    BY <2>2 DEF V
  <2>4. Clean(p)
    BY <2>1, <2>3 DEF SdInv
  <2> QED BY <2>1, <2>2, <2>3, <2>4 DEF Clean, AtStates, AtAlerts, AtExpiring, AtCommit
<1> QED BY <1>1, <1>2, <1>3 DEF SdInv

\* For any processes that seed, in any interleaving of their statements and with any number
\* of ticks, edits, readings and lost transactions: what an operator has set survives
\* (apply_source_migrations), no false incident is left about a source that is not expected
\* to report (reconcile_non_reporting_sources), and the history names no change of health
\* that nothing else explains.
THEOREM RestartsAreTruthful ==
  SeedingAssumption => (SdSpec => [](SeedingTypeOK /\ EditsSurvive /\ NoFalseIncident /\ HistoryIsTrue))
<1> SUFFICES ASSUME SeedingAssumption
             PROVE  SdSpec => [](SeedingTypeOK /\ EditsSurvive /\ NoFalseIncident /\ HistoryIsTrue)
  OBVIOUS
<1>1. SdInit => SdInv
  BY SdInitInv
<1>2. SdInv /\ [SdNext]_seedingVars => SdInv'
  BY SdStep
<1>3. SdInv => SeedingTypeOK /\ EditsSurvive /\ NoFalseIncident /\ HistoryIsTrue
  BY SdEnds
<1> QED BY <1>1, <1>2, <1>3, PTL DEF SdSpec

=================================================================================
