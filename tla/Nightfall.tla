----------------------------- MODULE Nightfall -----------------------------
(* Sleep mode and what hangs on it: the flag in a file that several processes *)
(* read through a cache (butler/services/sleep_mode.py), the television that  *)
(* daemon threads switch (display_power.py), the spoken phrases, the tool and *)
(* the two scheduler jobs that set the flag, and the announcements that /speak*)
(* (butler/text/server.py) and the router hold back while the house sleeps.   *)
EXTENDS Integers, Sequences, FiniteSets

CONSTANTS Users,         \* handler threads with a turn about sleep
          Announcements, \* announcements the awareness backend sends
          Jobs,          \* bound: runs of the scheduler's and the tool's writes
          NightFaults    \* "write": the state file; "tv": the television

ASSUME NightfallAssumption == Jobs \in Nat /\ NightFaults \subseteq {"write", "tv"}

Procs == {"main", "tools"}
Kinds == {"routine", "critical", "morning"}

VARIABLES asleep,   \* the flag in the file
          cache,    \* [Procs -> BOOLEAN]: what each process believes
          display,  \* the television is dark
          commands, \* display commands on their threads: <<number, dark>>
          issued, lost,  \* commands so far; one failed or was sent without the flag
          turns,    \* [Users -> [pc, intent]]
          news,     \* [Announcements -> [kind, at, raced: the flag changed in the router's hand]]
          queued,   \* announcements in the central queue
          spoken,   \* [Announcements -> "no", "awake", "asleep"]
          jobs

nfVars == <<asleep, cache, display, commands, issued, lost, turns, news, queued, spoken, jobs>>

NightfallTypeOK ==
  /\ asleep \in BOOLEAN /\ cache \in [Procs -> BOOLEAN] /\ display \in BOOLEAN
  /\ commands \subseteq (1 .. issued) \X BOOLEAN /\ lost \in BOOLEAN
  /\ turns \in [Users -> [pc : {"new", "apply", "done"}, intent : BOOLEAN]]
  /\ news \in [Announcements -> [kind : Kinds, raced : BOOLEAN,
               at : {"backend", "queued", "router", "speaking", "done", "suppressed"}]]
  /\ spoken \in [Announcements -> {"no", "awake", "asleep"}]

NfInit ==
  /\ asleep \in BOOLEAN /\ cache = [p \in Procs |-> asleep] /\ display = asleep
  /\ commands = {} /\ issued = 0 /\ lost = FALSE
  /\ turns \in [Users -> [pc : {"new"}, intent : BOOLEAN]]
  /\ news \in [Announcements -> [kind : Kinds, at : {"backend"}, raced : {FALSE}]]
  /\ queued = <<>> /\ spoken = [a \in Announcements |-> "no"] /\ jobs = 0

-----------------------------------------------------------------------------
\* display_power.apply: a thread of its own is started for the command.
Command(dark) ==
  /\ issued' = issued + 1
  /\ commands' = commands \cup {<<issued + 1, dark>>}

InHand == {a \in Announcements : news[a].at \in {"router", "speaking"}}
RaceAll(value) ==
  [a \in Announcements |->
    IF a \in InHand /\ asleep # value THEN [news[a] EXCEPT !.raced = TRUE] ELSE news[a]]

\* _set: file and own cache under the lock; the display after its release.
Set(p, value) ==
  /\ asleep' = value
  /\ cache' = [cache EXCEPT ![p] = value]
  /\ Command(value)

SetFails == "write" \in NightFaults /\ UNCHANGED <<asleep, cache, commands, issued>>

\* state(): a process looks at the file again when its half second is over.
Refresh(p) ==
  /\ cache[p] # asleep
  /\ cache' = [cache EXCEPT ![p] = asleep]
  /\ UNCHANGED <<asleep, display, commands, issued, lost, turns, news, queued, spoken, jobs>>

\* A thread reaches the television: adb standby or the wake-up publish.
Deliver(c) ==
  /\ c \in commands
  /\ commands' = commands \ {c}
  /\ \/ display' = c[2] /\ UNCHANGED lost
     \/ "tv" \in NightFaults /\ lost' = TRUE /\ UNCHANGED display
  /\ UNCHANGED <<asleep, cache, issued, turns, news, queued, spoken, jobs>>

-----------------------------------------------------------------------------
\* apply_phrase: the state read here decides whether anything is to be done.
HearPhrase(u) ==
  /\ turns[u].pc = "new"
  /\ turns' = [turns EXCEPT ![u].pc = IF cache["main"] # turns[u].intent THEN "apply" ELSE "done"]
  /\ UNCHANGED <<asleep, cache, display, commands, issued, lost, news, queued, spoken, jobs>>

ApplyPhrase(u) ==
  /\ turns[u].pc = "apply"
  /\ turns' = [turns EXCEPT ![u].pc = "done"]
  /\ \/ Set("main", turns[u].intent) /\ news' = RaceAll(turns[u].intent)
     \/ SetFails /\ UNCHANGED news
  /\ UNCHANGED <<display, lost, queued, spoken, jobs>>

\* sleep_mode_control in the tool process sets the flag whatever it was.
ToolSets(value) ==
  /\ jobs < Jobs /\ jobs' = jobs + 1
  /\ Set("tools", value) /\ news' = RaceAll(value)
  /\ UNCHANGED <<display, lost, turns, queued, spoken>>

\* dim_display and wake_display; when the file cannot be written the television
\* is switched all the same.
ScheduledJob(value) ==
  /\ jobs < Jobs /\ jobs' = jobs + 1
  /\ \/ Set("main", value) /\ news' = RaceAll(value) /\ UNCHANGED lost
     \/ /\ "write" \in NightFaults
        /\ Command(value) /\ lost' = TRUE
        /\ UNCHANGED <<asleep, cache, news>>
  /\ UNCHANGED <<display, turns, queued, spoken>>

-----------------------------------------------------------------------------
ShouldSpeak(a) == ~cache["main"] \/ news[a].kind = "critical"
Move(a, at) == news' = [news EXCEPT ![a].at = at]
Gate(a, at) == news' = [news EXCEPT ![a].at = at, ![a].raced = @ \/ cache["main"] # asleep]

\* _handle_speak: the morning briefing wakes the house, then the gate decides
\* between the queue and the answer "suppressed". A wake() that cannot write the
\* file is caught, and the gate then holds the morning briefing back as well.
Announce(a) ==
  /\ news[a].at = "backend"
  /\ \/ /\ news[a].kind = "morning" /\ cache["main"]
        /\ Set("main", FALSE)
        /\ news' = [RaceAll(FALSE) EXCEPT ![a].at = "queued"]
        /\ queued' = Append(queued, a)
     \/ /\ news[a].kind # "morning" \/ ~cache["main"] \/ "write" \in NightFaults
        /\ IF ShouldSpeak(a)
             THEN Move(a, "queued") /\ queued' = Append(queued, a)
             ELSE Move(a, "suppressed") /\ UNCHANGED queued
        /\ UNCHANGED <<asleep, cache, commands, issued>>
  /\ UNCHANGED <<display, lost, turns, spoken, jobs>>

\* The announcement branch of router_loop: the banner, the wake-up (without
\* asking whether the house sleeps), the gate again, the voice worker.
RouterTakes ==
  /\ queued # <<>> /\ \A a \in Announcements : news[a].at \notin {"router", "speaking"}
  /\ LET a == Head(queued)
     IN \/ /\ news[a].kind = "morning"
           /\ Set("main", FALSE)
           /\ news' = [RaceAll(FALSE) EXCEPT ![a].at = "router"]
        \/ /\ news[a].kind = "morning" /\ SetFails
           /\ news' = [news EXCEPT ![a].at = "router", ![a].raced = TRUE]
        \/ /\ news[a].kind # "morning"
           /\ Move(a, "router")
           /\ UNCHANGED <<asleep, cache, commands, issued>>
  /\ queued' = Tail(queued)
  /\ UNCHANGED <<display, lost, turns, spoken, jobs>>

\* Mutant: the router trusts the gate of /speak.
RouterGates_Fault(a) ==
  /\ news[a].at = "router"
  /\ Gate(a, "speaking")
  /\ UNCHANGED <<asleep, cache, display, commands, issued, lost, turns, queued, spoken, jobs>>

RouterGates(a) ==
  /\ news[a].at = "router"
  /\ Gate(a, IF ShouldSpeak(a) THEN "speaking" ELSE "done")
  /\ UNCHANGED <<asleep, cache, display, commands, issued, lost, turns, queued, spoken, jobs>>

SpeakNews(a) ==
  /\ news[a].at = "speaking"
  /\ news' = [news EXCEPT ![a].at = "done"]
  /\ spoken' = [spoken EXCEPT ![a] = IF asleep THEN "asleep" ELSE "awake"]
  /\ UNCHANGED <<asleep, cache, display, commands, issued, lost, turns, queued, jobs>>

-----------------------------------------------------------------------------
NfNext ==
  \/ RouterTakes \/ \E a \in Announcements : RouterGates(a) \/ SpeakNews(a)
  \/ \E p \in Procs : Refresh(p)
  \/ \E c \in commands : Deliver(c)
  \/ \E u \in Users : HearPhrase(u) \/ ApplyPhrase(u)
  \/ \E v \in BOOLEAN : ToolSets(v) \/ ScheduledJob(v)
  \/ \E a \in Announcements : Announce(a)

NfSpec == NfInit /\ [][NfNext]_nfVars

-----------------------------------------------------------------------------
(* What was accepted at the door is said or held back for a reason the caller   *)
(* could not know: a routine announcement sounds in a sleeping house, and the   *)
(* morning briefing is silenced, only if the flag changed (or a write of it     *)
(* failed) in the moment the router had it in hand, however long it had waited  *)
(* in the queue; and a critical one is never silenced.                          *)
NightIsQuiet ==
  \A a \in Announcements :
    /\ spoken[a] = "asleep" => news[a].kind = "critical" \/ news[a].raced
    /\ news[a].at = "done" /\ spoken[a] = "no" =>
         news[a].kind = "routine" \/ (news[a].kind = "morning" /\ news[a].raced)

(* "so the two can no longer disagree" (display_power.apply): once no command   *)
(* is under way the television shows what the flag says, unless it was out of   *)
(* reach or the file could not be written.                                      *)
DisplayFollowsFlag == commands = {} /\ ~lost => display = asleep

=============================================================================
