------------------------------ MODULE MCHouse ------------------------------
(* TLC instances of the parts that answer in the house, each with state of   *)
(* its own.  A behaviour runs one of them, chosen in Init; the others stay in *)
(* their initial states.                                                      *)
EXTENDS BargeIn, FrontDesk, Nightfall, Conversation, Forgetting, TLC

\* A terminal, two deliveries of one text message and an empty text that pushes its
\* sid out; each turn matches the fact of the second.
HouseKind == "t" :> "terminal" @@ "s" :> "sms" @@ "r" :> "sms" @@ "e" :> "blank"
HouseSid == "t" :> "" @@ "s" :> "x" @@ "r" :> "x" @@ "e" :> "y"
HouseAbout == "a" :> {"b"} @@ "b" :> {"b"}

VARIABLES part,
          \* Speaker
          caller, synth, playback, textQ, pcmQ, halted, errors, heard, reports,
          \* AgentLoop
          request, rounds, recoveries, attempted, succeeded, retried, calls, sent,
          said, unbacked, thread, limited, forgotten, begun,
          \* Signals
          uptime, lastPresence, made, signalQueue, emitter, drain, counted, stored, unheard,
          \* Situation
          second, since, latest, pending, noticed, topic, kept, left, asker,
          \* Capture
          endpointing, frame, playing, tail, lane, barge, idle, voiced, last, recognizer,
          hand, taken,
          \* Detector
          phase, lowered, dropped, state, watched, peak, measured, hot, capture, settling, mic,
          \* Prewarm
          ticks, provider, round, opened, surface, former, newest, recorded, cached, warm,
          ramp, lastRamp, crossed,
          \* Lights
          power, call, task,
          \* Seeding
          row, own, pc, silent, passes, history, recovered, edited, early, overlap,
          \* Listener
          clips, clipQueue, worker, latch, event, cue, unmet, waiting, utterance,
          healthy, flag, watching, handed,
          \* EchoCapture
          starter, graph, handle, stopping, ready, error, sink, reference, outlet, frames,
          running, gaveUp, dispatcher, abandoned,
          \* Panel
          sequence, slot, shown, outages

SP == INSTANCE Speaker WITH Chunks <- 3, Frames <- 1, MaxQueue <- 2,
        Faulty <- {"model", "synth", "sink"}
AL == INSTANCE AgentLoop WITH MaxRounds <- 2, MaxRecoveries <- 1, Turns <- 2,
        turn <- request
SG == INSTANCE Signals WITH Producers <- {"router", "jobs"}, Sensing <- {"router"},
        Depth <- 1, Interval <- 1, Signals <- 3, Ticks <- 1,
        clock <- uptime, queue <- signalQueue
SI == INSTANCE Situation WITH Alerts <- {"leak", "bin"}, Critical <- {"leak"},
        Items <- {"item"}, Passive <- {"item"}, Immediate <- {},
        ById <- <<"bin", "house", "item", "leak", "presence">>,
        Cost <- ("bin" :> 2 @@ "house" :> 1 @@ "item" :> 1 @@ "leak" :> 2 @@ "presence" :> 1),
        Budget <- 3, Section <- 1, Life <- 1, Askers <- {"router"}, Asks <- 2,
        Ticks <- 1, clock <- second, seen <- noticed, cache <- kept
CP == INSTANCE Capture WITH Ring <- 4, Start <- 1, Silence <- 2, MinSpeech <- 2, MaxLength <- 6,
        Depth <- 1, Frames <- 8, Replies <- 1,
        speaking <- playing, left <- tail, heard <- taken
DE == INSTANCE Detector WITH Replies <- 2, Loudness <- {0, 1, 3}, Floor <- 1, Margin <- 2,
        Calibration <- 1, Trigger <- 2, Silence <- 1, MinSpeech <- 2, MaxCapture <- 4,
        Refractory <- 1,
        stage <- phase, ducked <- lowered, cancelled <- dropped, session <- watched
PW == INSTANCE Prewarm WITH
        Tools <- 1 .. 5,  \* briefing, kicad_add, kicad_trace, phone, weather
        Volatile <- {2, 3, 4}, Trimmed <- {3}, Kicad <- {2, 3}, Ramps <- {"n1", "n2"},
        Interval <- 1, Rounds <- 2, Turns <- 1, Ticks <- 1,
        clock <- ticks, turn <- round, begun <- opened, made <- newest
LI == INSTANCE Lights WITH Devices <- {"lamp", "pot"}, Lamps <- {"lamp"}, Calls <- {"p", "q"},
        Retries <- 1, Faults <- {"auth", "host", "switch", "close"}
SD == INSTANCE Seeding WITH Seeders <- {"api", "ingestion"}, Ticks <- 1
LS == INSTANCE Listener WITH Clips <- 2, Sayings <- 1, QueueLimit <- 1, CueSlices <- 1,
        Slices <- 2, Fallback <- TRUE, Faults <- {"stt", "device", "capture"},
        queue <- clipQueue, asr <- worker, reply <- utterance, session <- watching
EC == INSTANCE EchoCapture WITH Depth <- 2,
        Faults <- {"moved", "query", "create", "nodes", "slow", "quantum"},
        halted <- gaveUp, left <- abandoned
PA == INSTANCE Panel WITH Contents <- 4, Outages <- 2

ASSUME SP!SpeakerAssumption /\ AL!AgentLoopAssumption
       /\ SG!SignalsAssumption /\ SI!SituationAssumption /\ CP!CaptureAssumption
       /\ DE!DetectorAssumption /\ PW!PrewarmAssumption /\ LI!LightsAssumption
       /\ SD!SeedingAssumption /\ LS!ListenerAssumption
       /\ EC!EchoCaptureAssumption /\ PA!PanelAssumption

speaker == <<caller, synth, playback, textQ, pcmQ, halted, errors, heard, reports>>
agent == <<request, rounds, recoveries, attempted, succeeded, retried, calls, sent, said,
           unbacked, thread, limited, forgotten, begun>>
signals == <<uptime, lastPresence, made, signalQueue, emitter, drain, counted, stored,
             unheard>>
picture == <<second, since, latest, pending, noticed, topic, kept, left, asker>>
microphone == <<endpointing, frame, playing, tail, lane, barge, idle, voiced, last,
                recognizer, hand, taken>>
detector == <<phase, lowered, dropped, state, watched, peak, measured, hot, capture,
              settling, mic>>
prewarm == <<ticks, provider, round, opened, surface, former, newest, recorded, cached, warm,
             ramp, lastRamp, crossed>>
lights == <<power, call, task>>
registry == <<row, own, pc, silent, passes, history, recovered, edited, early, overlap>>
listener == <<clips, clipQueue, worker, latch, event, cue, unmet, waiting, utterance,
              healthy, flag, watching, handed>>
echo == <<starter, graph, handle, stopping, ready, error, sink, reference, outlet, frames,
          running, gaveUp, dispatcher, abandoned>>
panel == <<sequence, slot, shown, outages>>
houseVars == <<part, biVars, speaker, cvVars, agent, nfVars, fdVars, signals, picture,
               microphone, detector, prewarm, lights, registry, listener, fgVars, echo, panel>>
Parts == {"barge_in", "speaker", "conversation", "agent", "night", "desk", "signals", "picture",
          "microphone", "detector", "prewarm", "lights", "registry", "listener", "memories",
          "echo", "panel"}

Init ==
  /\ part \in Parts
  /\ BiInit /\ SP!SpInit /\ CvInit /\ AL!AlInit /\ FdInit /\ NfInit
  /\ SG!SgInit /\ SI!SiInit /\ CP!CpInit /\ DE!DeInit /\ PW!PwInit /\ LI!LiInit
  /\ SD!SdInit /\ LS!LsInit /\ FgInit /\ EC!EcInit /\ PA!PaInit
  /\ part # "signals" => uptime = 0
  /\ part # "microphone" => ~endpointing
  /\ part # "prewarm" => provider = "cold"
  /\ part # "registry" => row.present /\ row.meta = "old"
  /\ part # "listener" => waiting = 0
  /\ part # "night" =>
       /\ ~asleep /\ \A u \in DOMAIN turns : ~turns[u].intent
       /\ \A a \in DOMAIN news : news[a].kind = "routine"

\* A step of one part leaves the others alone.
Alone(p, step) ==
  /\ part = p /\ step /\ UNCHANGED part
  /\ p # "barge_in" => UNCHANGED biVars
  /\ p # "speaker" => UNCHANGED speaker
  /\ p # "conversation" => UNCHANGED cvVars
  /\ p # "agent" => UNCHANGED agent
  /\ p # "night" => UNCHANGED nfVars
  /\ p # "desk" => UNCHANGED fdVars
  /\ p # "signals" => UNCHANGED signals
  /\ p # "picture" => UNCHANGED picture
  /\ p # "microphone" => UNCHANGED microphone
  /\ p # "detector" => UNCHANGED detector
  /\ p # "prewarm" => UNCHANGED prewarm
  /\ p # "lights" => UNCHANGED lights
  /\ p # "registry" => UNCHANGED registry
  /\ p # "listener" => UNCHANGED listener
  /\ p # "memories" => UNCHANGED fgVars
  /\ p # "echo" => UNCHANGED echo
  /\ p # "panel" => UNCHANGED panel

Next ==
  \/ Alone("barge_in", BiNext)
  \/ Alone("speaker", SP!SpNext)
  \/ Alone("conversation", CvNext)
  \/ Alone("agent", AL!AlNext)
  \/ Alone("night", NfNext)
  \/ Alone("desk", FdNext)
  \/ Alone("signals", SG!SgNext)
  \/ Alone("picture", SI!SiNext)
  \/ Alone("microphone", CP!CpNext)
  \/ Alone("detector", DE!DeNext)
  \/ Alone("prewarm", PW!PwNext)
  \/ Alone("lights", LI!LiNext)
  \/ Alone("registry", SD!SdNext)
  \/ Alone("listener", LS!LsNext)
  \/ Alone("memories", FgNext)
  \/ Alone("echo", EC!EcNext)
  \/ Alone("panel", PA!PaNext)

\* The fairness of each part, for its own steps.
Fairness ==
  /\ WF_speaker(part = "speaker" /\ SP!Caller)
  /\ WF_speaker(part = "speaker" /\ SP!Synth)
  /\ WF_speaker(part = "speaker" /\ SP!Playback)
  /\ \A u \in Utterances :
       /\ WF_cvVars(part = "conversation" /\ Speak(u))
       /\ WF_cvVars(part = "conversation" /\ FallSilent(u))
       /\ WF_cvVars(part = "conversation" /\ (Report(u) \/ NoteInterruption(u)))
  /\ \A u \in Commands :
       /\ WF_cvVars(part = "conversation" /\ TakeTurn(u))
       /\ WF_cvVars(part = "conversation" /\
            (ToolReturns(u) \/ \E said_ \in BOOLEAN : EndTurn(u, said_)))
  /\ WF_fdVars(part = "desk" /\ RouterStep)
  /\ \A c \in Clients :
       /\ WF_fdVars(part = "desk" /\ HearReply(c))
       /\ WF_fdVars(part = "desk" /\ Follow(c))
  /\ WF_signals(part = "signals" /\ (SG!Take \/ SG!Post))
  /\ WF_echo(part = "echo" /\ EC!GraphThread)
  /\ WF_echo(part = "echo" /\ EC!Dispatch)
  /\ WF_panel(part = "panel" /\ PA!Poll)
  /\ WF_panel(part = "panel" /\ PA!Render)

Spec == Init /\ [][Next]_houseVars /\ Fairness

-----------------------------------------------------------------------------

\* What speak_stream reports as played was played, in order and once, and all that
\* was played is reported but for one sentence a stop may overtake; a reply that goes
\* on at the low volume has a capture under way, handed over, queued or transcribed, but
\* for a capture that was too short and a candidate told of late.  A recording
\* keeps the audio before its trigger and none of Butler's own words but the tail of a
\* reply (BargeInVadGate, DuplexAudioPipeline), the recognizer is deaf only while
\* something is played, and a wake word is acknowledged.  A start of the echo-cancelled
\* capture that returns has opened its graph, and the plain microphone that replaces a
\* failed one is alone (DuplexAudioPipeline.start).
SpeechIsFaithful ==
  /\ part = "speaker" => SP!SpTypeOK /\ SP!ReportsMatchHearing
  /\ part = "barge_in" => BargeInTypeOK /\ DucksAreBrief
  /\ part = "microphone" =>
       /\ CP!CaptureTypeOK
       /\ CP!LeadInIsKept /\ CP!OverlapIsBounded /\ CP!EchoOnlyFromTheTail
  /\ part = "detector" => DE!DetectorTypeOK /\ DE!CandidatesAreBrief /\ DE!RepliesAreWatched
  /\ part = "listener" =>
       LS!ListenerTypeOK /\ LS!DeafOnlyWhileSpeaking /\ LS!RepliesAreArmed /\ LS!WakesAreMet
  /\ part = "echo" => EC!EchoCaptureTypeOK /\ EC!FallbackIsAlone /\ EC!UpMeansOpened

\* On a device request the model's own words come after a command of the turn, only a
\* turn at its limit leaves calls unanswered, and a streamed turn that sent a command
\* is in the conversation unless the store failed (run_command_stream); the picture it
\* answers from shows the critical alerts that fit a section (SituationBroker), what it
\* is told of its tools is true and a pre-ramp repeats the last prompt (prewarm_llm), and
\* the lights it says it switched it did switch (set_all_devices_power).  Signals reach
\* awareness in the order of their thread, and a lost one is counted, but for the race
\* at the bound (awareness_signals._emit).  A restart keeps what an operator set and
\* leaves no incident about a source that is not expected to report (seed_registry).
\* With the types of the parts whose own properties are checked by name.
AnswersAreHonest ==
  /\ ConversationTypeOK /\ ForgettingTypeOK /\ NightfallTypeOK /\ FrontDeskTypeOK
  /\ part = "panel" => PA!PanelTypeOK
  /\ part = "agent" =>
       AL!AgentLoopTypeOK /\ AL!ClaimsAreBacked /\ AL!OnlyTheLimitStrands /\ AL!SentIsRemembered
  /\ part = "picture" => SI!SituationTypeOK /\ SI!CriticalIsShown /\ SI!BudgetHolds
  /\ part = "prewarm" =>
       /\ PW!PrewarmTypeOK
       /\ PW!SurfaceIsSteady /\ PW!NotesAreTrue /\ PW!ReplayIsExact /\ PW!RampsAreSpaced
  /\ part = "lights" => LI!LightsTypeOK /\ LI!NothingIsLeftOpen /\ LI!CountedWereSwitched
  /\ part = "signals" =>
       /\ SG!SignalsTypeOK
       /\ SG!SignalsAreCounted /\ SG!SignalsKeepOrder /\ SG!PresenceIsSpaced
  /\ part = "registry" =>
       SD!SeedingTypeOK /\ SD!EditsSurvive /\ SD!NoFalseIncident /\ SD!HistoryIsTrue

\* speak_stream returns, every utterance ends, every client hears of its command and
\* the panel shows the newest content, and a capture that ends releases its readers,
\* given running threads.
NobodyWaitsForEver ==
  /\ part = "speaker" => SP!SpeakReturns
  /\ part = "conversation" => EveryUtteranceEnds
  /\ part = "desk" => EveryoneIsAnswered
  /\ part = "signals" => SG!QueueDrains
  /\ part = "echo" => EC!GraphsClose /\ EC!ReadersAreReleased
  /\ part = "panel" => PA!PanelCatchesUp

=============================================================================
