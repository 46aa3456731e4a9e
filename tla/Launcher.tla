------------------------------- MODULE Launcher -------------------------------
(* The launcher: a Supervisor starts the parts of Butler in dependency order on *)
(* a worker thread and stops them in reverse order on another (launcher/core.py); *)
(* the window's buttons make and stop Supervisors (launcher/gui.py), or         *)
(* run_headless does it without a window.                                       *)
EXTENDS Integers, Sequences, FiniteSets

CONSTANTS
  Order,     \* the enabled components in the order start() takes them
  Awaited,   \* those whose port is waited for
  Blocking,  \* those that run to their end: docker compose, the migrations
  Starts,    \* bound on the Supervisors
  Clicks     \* bound on the presses of Stop

ASSUME LauncherAssumption ==
  /\ Order \in Seq(STRING) /\ Awaited \cap Blocking = {}
  /\ \A j, k \in DOMAIN Order : Order[j] = Order[k] => j = k
  /\ Awaited \cup Blocking \subseteq {Order[k] : k \in DOMAIN Order}
  /\ Starts \in Nat \ {0} /\ Clicks \in Nat

VARIABLES
  window,   \* mode, whether it is open, its buttons, status and Supervisor
  starter,  \* where start() of each Supervisor is, and its _stopping event
  child,    \* the processes of each Supervisor
  stopper,  \* the stop threads: where they are, whose, and what is left
  early     \* Supervisors whose stop began before their start had ended

launcherVars == <<window, starter, child, stopper, early>>

Enabled == {Order[k] : k \in DOMAIN Order}
Sups == 1 .. Starts
\* One thread per press of Stop, and the one that closes the window or the run.
Stoppers == 0 .. Clicks
Ongoing == {"up", "told"}
NoStop == [pc |-> "idle", sup |-> 0, todo |-> {}, mine |-> {}]

LaInit ==
  /\ window \in [mode : {"gui", "headless"}, open : {TRUE}, start : {TRUE}, stop : {FALSE},
                 status : {"idle"}, sup : {0}]
  /\ starter = [s \in Sups |-> [pc |-> "none", at |-> 1, stopping |-> FALSE]]
  /\ child = [s \in Sups |-> [c \in Enabled |-> "none"]]
  /\ stopper = [t \in Stoppers |-> NoStop]
  /\ early = {}

Living(s) == {c \in Enabled : child[s][c] \in Ongoing}
IsRunning(s) == s # 0 /\ Living(s) # {}
Clickable == window.open /\ window.mode = "gui" /\ stopper[0].pc = "idle"

-----------------------------------------------------------------------------
\* It ends of itself, or because it was told to.
Exits(s, c) ==
  /\ window.open /\ child[s][c] \in Ongoing
  /\ child' = [child EXCEPT ![s][c] = "dead"]
  /\ UNCHANGED <<window, starter, stopper, early>>

-----------------------------------------------------------------------------
(* Supervisor.start on the thread of _start_worker                             *)

\* _on_start, or run_headless
Startable ==
  IF window.mode = "gui" THEN Clickable /\ window.start /\ ~IsRunning(window.sup)
                         ELSE window.sup = 0

PressStart ==
  /\ Startable /\ window.sup < Starts
  /\ window' = [window EXCEPT !.start = FALSE, !.stop = TRUE, !.status = "starting",
                              !.sup = @ + 1]
  /\ starter' = [starter EXCEPT ![window'.sup].pc = "clear"]
  /\ UNCHANGED <<child, stopper, early>>

\* The thread starts the Supervisor of the press that made it.  (The code reads
\* self.supervisor when the thread runs; a thread that sleeps through a whole stop and
\* the next press is left out.)
BeginStart(s) ==
  /\ window.open /\ starter[s].pc = "clear"
  /\ starter' = [starter EXCEPT ![s].pc = "spawn", ![s].stopping = FALSE]
  /\ UNCHANGED <<window, child, stopper, early>>

\* The component after the one at hand, or the end.
Onward(s) == [starter[s] EXCEPT !.pc = "spawn", !.at = @ + 1]

\* The _start_ methods: what follows the spawning of a component.
AfterSpawn(s, c) == IF c \in Awaited THEN [starter[s] EXCEPT !.pc = "wait"] ELSE Onward(s)

\* start() never looks at _stopping.  What is not found, or runs already, is skipped.
Spawn(s) ==
  LET c == Order[starter[s].at] IN
  /\ window.open /\ starter[s].pc = "spawn" /\ starter[s].at <= Len(Order)
  /\ \/ /\ c \notin Blocking
        /\ child' = [child EXCEPT ![s][c] = "up"]
        /\ starter' = [starter EXCEPT ![s] = AfterSpawn(s, c)]
     \/ /\ c \in Blocking
        /\ starter' = [starter EXCEPT ![s].pc = "block"] /\ UNCHANGED child
     \/ starter' = [starter EXCEPT ![s] = Onward(s)] /\ UNCHANGED child
  /\ UNCHANGED <<window, stopper, early>>

\* Nobody can stop it, and its exit code changes nothing.
RunBlocking(s) ==
  /\ window.open /\ starter[s].pc = "block"
  /\ starter' = [starter EXCEPT ![s] = Onward(s)]
  /\ UNCHANGED <<window, child, stopper, early>>

\* _wait_port ends when the port is open, the process gone, the launcher
\* stopping, or the time up.
WaitPort(s) ==
  /\ window.open /\ starter[s].pc = "wait"
  /\ starter' = [starter EXCEPT ![s] = Onward(s)]
  /\ UNCHANGED <<window, child, stopper, early>>

EndStart(s) ==
  /\ window.open /\ starter[s].pc = "spawn" /\ starter[s].at = Len(Order) + 1
  /\ starter' = [starter EXCEPT ![s].pc = "done"]
  /\ window' = [window EXCEPT !.status = "running"]
  /\ UNCHANGED <<child, stopper, early>>

\* Popen fails otherwise than by FileNotFoundError: _on_start_failed.
StartRaises(s) ==
  /\ window.open /\ window.mode = "gui" /\ starter[s].pc = "spawn" /\ starter[s].at <= Len(Order)
  /\ starter' = [starter EXCEPT ![s].pc = "raised"]
  /\ window' = [window EXCEPT !.status = "error", !.start = TRUE, !.stop = FALSE]
  /\ UNCHANGED <<child, stopper, early>>

-----------------------------------------------------------------------------
(* Supervisor.stop on the thread of _stop_worker, of _on_close or of wait       *)

PressStop(t) ==
  /\ Clickable /\ window.stop /\ t # 0 /\ stopper[t].pc = "idle"
  /\ stopper' = [stopper EXCEPT ![t].pc = "called"]
  /\ window' = [window EXCEPT !.stop = FALSE, !.status = "stopping"]
  /\ UNCHANGED <<starter, child, early>>

\* _on_close, or the end of wait(): a run that is over or interrupted.
Close ==
  /\ window.open /\ stopper[0].pc = "idle"
  /\ \/ Clickable
     \/ window.mode = "headless" /\ window.sup # 0 /\ starter[window.sup].pc = "done"
  /\ IF window.mode = "headless" \/ IsRunning(window.sup)
       THEN stopper' = [stopper EXCEPT ![0].pc = "called"] /\ UNCHANGED window
       ELSE window' = [window EXCEPT !.open = FALSE] /\ UNCHANGED stopper
  /\ UNCHANGED <<starter, child, early>>

\* The places of what was started, for reversed(self._procs).
Begun(s) == {k \in DOMAIN Order : child[s][Order[k]] # "none"}

\* A second stop() of a Supervisor returns at once.
BeginStop(t) ==
  LET s == window.sup IN
  /\ window.open /\ stopper[t].pc = "called"
  /\ IF starter[s].stopping
       THEN stopper' = [stopper EXCEPT ![t].pc = "ended"] /\ UNCHANGED <<starter, early>>
       ELSE /\ starter' = [starter EXCEPT ![s].stopping = TRUE]
            /\ stopper' = [stopper EXCEPT ![t] = [pc |-> "terminate", sup |-> s, todo |-> Begun(s),
                                                  mine |-> Begun(s)]]
            /\ early' = IF starter[s].pc = "done" THEN early ELSE early \cup {s}
  /\ UNCHANGED <<window, child>>

Terminate(t) ==
  LET s == stopper[t].sup
      left == stopper[t].todo IN
  /\ window.open /\ stopper[t].pc = "terminate"
  /\ \/ /\ left = {}
        /\ stopper' = [stopper EXCEPT ![t].pc = "wait"] /\ UNCHANGED child
     \/ \E k \in left :
          /\ \A j \in left : j <= k
          /\ child' = [child EXCEPT ![s][Order[k]] = IF @ \in Ongoing THEN "told" ELSE @]
          /\ stopper' = [stopper EXCEPT ![t].todo = @ \ {k}]
  /\ UNCHANGED <<window, starter, early>>

\* Ten seconds for all together, then the stragglers are killed.
KillStragglers(t) ==
  /\ window.open /\ stopper[t].pc = "wait"
  /\ child' = [child EXCEPT ![stopper[t].sup] =
                 [c \in Enabled |-> IF \E k \in stopper[t].mine : c = Order[k] THEN "dead" ELSE @[c]]]
  /\ stopper' = [stopper EXCEPT ![t].pc = "ended"]
  /\ UNCHANGED <<window, starter, early>>

\* _on_stopped, or the end of the program, which takes its threads along.
EndStop(t) ==
  /\ window.open /\ stopper[t].pc = "ended"
  /\ stopper' = [stopper EXCEPT ![t] = [NoStop EXCEPT !.pc = "gone"]]
  /\ window' = IF t = 0 THEN [window EXCEPT !.open = FALSE]
               ELSE [window EXCEPT !.start = TRUE, !.stop = FALSE, !.status = "idle"]
  /\ UNCHANGED <<starter, child, early>>

StartStep(s) == BeginStart(s) \/ Spawn(s) \/ RunBlocking(s) \/ WaitPort(s) \/ EndStart(s)
StopStep(t) == BeginStop(t) \/ Terminate(t) \/ KillStragglers(t) \/ EndStop(t)

LaNext ==
  \/ PressStart \/ Close
  \/ \E t \in Stoppers : PressStop(t) \/ StopStep(t)
  \/ \E s \in Sups : StartStep(s) \/ StartRaises(s)
  \/ \E s \in Sups, c \in Enabled : Exits(s, c)

-----------------------------------------------------------------------------
LauncherTypeOK ==
  /\ window \in [mode : {"gui", "headless"}, open : BOOLEAN, start : BOOLEAN, stop : BOOLEAN,
                 status : {"idle", "starting", "running", "stopping", "error"}, sup : 0 .. Starts]
  /\ starter \in [Sups -> [pc : {"none", "clear", "spawn", "block", "wait", "done", "raised"},
                           at : 1 .. Len(Order) + 1, stopping : BOOLEAN]]
  /\ child \in [Sups -> [Enabled -> Ongoing \cup {"none", "dead"}]]
  /\ stopper \in [Stoppers -> [pc : {"idle", "called", "terminate", "wait", "ended", "gone"},
                                sup : 0 .. Starts, todo : SUBSET DOMAIN Order, mine : SUBSET DOMAIN Order]]
  /\ early \subseteq Sups

\* No start up to this one was stopped before its end, and none raised.
Clean(s) == \A q \in 1 .. s : q \notin early /\ starter[q].pc # "raised"

(* What was fully started is fully stopped: a stop that began after the start    *)
(* leaves no process of that run when it reports the end.                        *)
StopLeavesNothing ==
  \A t \in Stoppers : stopper[t].pc = "ended" /\ stopper[t].sup \notin early \cup {0}
    => Living(stopper[t].sup) = {}

(* Dependents first: while stop() works down the list, whatever was started      *)
(* after a process that has been told to end has been told as well.              *)
DependentsGoFirst ==
  \A t \in Stoppers, j, k \in DOMAIN Order :
    LET s == stopper[t].sup IN
    /\ stopper[t].pc = "terminate" /\ j < k /\ {j, k} \subseteq stopper[t].mine
    /\ child[s][Order[j]] = "told"
    => child[s][Order[k]] \in {"told", "dead"}

(* One Butler at a time, whatever is clicked: two runs have living processes     *)
(* only after a start, of the earlier of them or before it, that was stopped     *)
(* before its end or that raised.                                                *)
OneButler ==
  \A s, r \in Sups :
    s < r /\ Living(s) # {} /\ Living(r) # {} => ~Clean(s)

(* What one expects of the button: only the run that was cut short, or that      *)
(* raised, is still alive beside another.  But a start that was cut short and    *)
(* raises then gives the Start button back during the start of the next run      *)
(* (_on_start_failed does not ask whose start it was).                           *)
OnlyTheCutRunOverlaps ==
  \A s, r \in Sups :
    s < r /\ Living(s) # {} /\ Living(r) # {} => s \in early \/ starter[s].pc = "raised"

(* Stop gives the Start button back, unless the window is closed.                *)
StopReturns ==
  window.status = "stopping" ~> window.status # "stopping" \/ ~window.open

(* Terminate managed processes: a stop leaves none, also during the start.       *)
StopEndsEverything ==
  \A t \in Stoppers : stopper[t].pc = "ended" /\ stopper[t].sup # 0
    => Living(stopper[t].sup) = {}

=============================================================================
