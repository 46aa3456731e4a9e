------------------------------- MODULE Panel -------------------------------
(* The display projection (butler/display/state.py) and a panel that polls it *)
(* (RemoteDisplayQueue, butler/display/client.py).  The router, its jobs and  *)
(* the scheduler put content; each piece has a number.                        *)
EXTENDS Integers

CONSTANTS Contents, \* bound: pieces of content put on the display
          Outages   \* bound: polls of the panel that fail

PanelAssumption == Contents \in Nat /\ Outages \in Nat

VARIABLES sequence, \* of the projection
          slot,     \* the panel's queue of one
          shown,    \* what the panel rendered last
          outages

paVars == <<sequence, slot, shown, outages>>

NoSnapshot == -1
Lost == -2   \* the snapshot of a poll that failed

PanelTypeOK ==
  /\ sequence \in 0 .. Contents /\ outages \in 0 .. Outages
  /\ slot \in {NoSnapshot, Lost} \cup 0 .. sequence
  /\ shown \in {Lost} \cup 0 .. sequence

PaInit == sequence = 0 /\ slot = NoSnapshot /\ shown = 0 /\ outages = 0

\* DisplayState.put: a command with its answer, or a status.
Put ==
  /\ sequence < Contents
  /\ sequence' = sequence + 1
  /\ UNCHANGED <<slot, shown, outages>>

\* The poller replaces whatever still lies in its queue of one.  It goes on after
\* a failure.
Poll ==
  /\ slot # sequence
  /\ slot' = sequence
  /\ UNCHANGED <<sequence, shown, outages>>

PollFails ==
  /\ outages < Outages /\ outages' = outages + 1
  /\ slot' = Lost
  /\ UNCHANGED <<sequence, shown>>

\* get_nowait in the render loop.
Render ==
  /\ slot # NoSnapshot
  /\ shown' = slot /\ slot' = NoSnapshot
  /\ UNCHANGED <<sequence, outages>>

PaNext == Put \/ Poll \/ PollFails \/ Render

\* The poller's thread and the render loop go on.
PaFairness == WF_paVars(Poll) /\ WF_paVars(Render)

PaSpec == PaInit /\ [][PaNext]_paVars /\ PaFairness

-----------------------------------------------------------------------------
(* A panel ends up with the newest content whatever it missed on the way: an    *)
(* unread snapshot never keeps back a newer one.                                *)
PanelCatchesUp == <>[](shown = sequence)

=============================================================================
