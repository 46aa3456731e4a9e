------------------------------- MODULE MCBack -------------------------------
(* TLC instances of parts that work in the background, each with state of its *)
(* own.  A behaviour runs one of them, chosen in Init; the others stay in     *)
(* their initial states.                                                      *)
EXTENDS Backend, Recall, Briefing, McpClient, Launcher

\* The service stops one worker; the launcher starts three components.
OneWorker == <<"outbox">>
ThreeComponents == <<"docker", "main", "voice">>

VARIABLE part

backVars == <<part, mcVars, bfVars, rcVars, launcherVars, bkVars>>

Init ==
  /\ part \in {"tools", "briefing", "memory", "launcher", "backend"}
  /\ McInit /\ RcInit
  /\ LaInit /\ (part # "launcher" => window.mode = "gui")
  /\ BkInit
  /\ part # "backend" => world = [database |-> "up", schema |-> "head", broker |-> "up"]
  /\ BfInit /\ (part # "briefing" => ~quiet)

Run(p, step, rest) == part = p /\ step /\ UNCHANGED part /\ UNCHANGED rest

Next ==
  \/ Run("tools", McNext, <<bfVars, rcVars, launcherVars, bkVars>>)
  \/ Run("briefing", BfNext, <<mcVars, rcVars, launcherVars, bkVars>>)
  \/ Run("memory", RcNext, <<mcVars, bfVars, launcherVars, bkVars>>)
  \/ Run("launcher", LaNext, <<mcVars, bfVars, rcVars, bkVars>>)
  \/ Run("backend", BkNext, <<mcVars, bfVars, rcVars, launcherVars>>)

\* The fairness of each part, for its own steps.
Fairness ==
  /\ \A c \in Callers : WF_mcVars(part = "tools" /\ CallerStep(c))
  /\ \A w \in Lanes :
       /\ WF_bfVars(part = "briefing" /\ Handle(w))
       /\ WF_bfVars(part = "briefing" /\ Claim(w))
  /\ \A k \in PartKeys : WF_bfVars(part = "briefing" /\ LockGoesStale(k))
  /\ WF_bfVars(part = "briefing" /\ quiet /\ QuietHours)
  /\ WF_launcherVars(part = "launcher" /\ \E t \in Stoppers : StopStep(t))
  /\ \A w \in Workers : WF_bkVars(part = "backend" /\ LoopRuns(w))
  /\ WF_bkVars(part = "backend" /\ IngressRuns)
  /\ WF_bkVars(part = "backend" /\ StopRuns)

Spec == Init /\ [][Next]_backVars /\ Fairness

-----------------------------------------------------------------------------
\* The types of every part.
TypesOK ==
  /\ part = "tools" => McpTypeOK
  /\ part = "briefing" => BriefingTypeOK
  /\ part = "memory" => RecallTypeOK
  /\ part = "launcher" => LauncherTypeOK
  /\ part = "backend" => BackendTypeOK

\* One start of a tool server at a time, however many callers, the background
\* thread and a retry ask for it, but for a start that the late waiter of an earlier
\* one took out of _pending_starts (_async_ensure_started); one Butler at a
\* time, whatever is clicked, stopped dependents first and completely, unless its
\* start was cut short (Supervisor, LauncherGUI); the awareness service lets go of
\* its database engine when no loop of its own is left (lifespan).
OrderlyStartsAndStops ==
  /\ part = "tools" => OneStartAtATime
  /\ part = "launcher" => OneButler /\ DependentsGoFirst /\ StopLeavesNothing
  /\ part = "backend" => EngineOutlivesItsUsers

\* A tool call comes back to its caller, a briefing settles and a stop ends, with
\* threads that run and an outbox worker that polls; the loops of the awareness
\* service recover from an outage of the database or the broker.
WorkIsFinished ==
  /\ part = "tools" => RequestsReturn
  /\ part = "launcher" => StopReturns
  /\ part = "briefing" => BriefingsSettle
  /\ part = "backend" => ErrorsClear
  /\ part = "backend" => Listens
  /\ part = "backend" => ShutdownEnds

=============================================================================
