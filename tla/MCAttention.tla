----------------------------- MODULE MCAttention -----------------------------
(* TLC instances of Attention.  A behaviour runs one of two stories: reports   *)
(* and all-clears of two devices about one condition, without faults; or one   *)
(* report and a reminder that falls due in quiet hours, with faults.           *)
EXTENDS Attention

CONSTANTS reminder1, DeliveryReports

Devices == [e \in {"a1", "a2", "b1", "a clear", "b clear"} |->
              IF e \in {"b1", "b clear"} THEN "b" ELSE "a"]
NoReminder == [r \in {} |-> 0]
AtOne == [r \in {reminder1} |-> 1]
VoiceThenLog == <<"voice", "log">>

Fresh ==
  /\ now = 0 /\ incidents = <<>> /\ episodes = {} /\ notices = <<>> /\ ledger = {}
  /\ spoken = [n \in Numbers |-> 0] /\ retried = {} /\ worker = [w \in Workers |-> Idle]

\* The reminder was cancelled before, and every fault has been spent.
Reporting ==
  /\ event = [e \in Events |-> "new"]
  /\ reminder = [r \in Reminders |-> "cancelled"] /\ faults = MaxFaults

\* All events but one were lost on the way.
Delivering ==
  /\ event = [e \in Events |-> IF e \in DeliveryReports THEN "new" ELSE "lost"]
  /\ reminder = [r \in Reminders |-> "none"] /\ faults = 0

StoriesInit == Fresh /\ (Reporting \/ Delivering)

StoriesSpec ==
  /\ StoriesInit /\ [][Next]_vars
  /\ WF_vars(Tick) /\ WF_vars(FireReminders)
  /\ \A w \in Workers : WF_vars(Work(w))

=============================================================================
