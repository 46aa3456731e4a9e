--------------------------- MODULE ActionContract ---------------------------
(***************************************************************************)
(* What the action service promises about a physical action, whatever its  *)
(* handlers, transactions and retries do: the lifecycle a request follows, *)
(* and when its command may leave the house controller.  ActionLifecycle   *)
(* is shown to implement this module.                                      *)
(***************************************************************************)
EXTENDS Naturals

CONSTANTS Requests,   \* the action requests
          Once        \* those whose action is registered "at_most_once"

VARIABLES status,     \* the status column of action_requests
          sent        \* how often the command was handed to the broker

Terminal == {"rejected", "completed", "failed", "timed_out", "cancelled"}

Statuses == {"none", "awaiting_confirmation", "approved", "dispatched",
             "acknowledged"} \cup Terminal

\* Where a request in status s may go in one transaction.
Successors(s) ==
  CASE s = "none"                  -> {"rejected", "awaiting_confirmation", "approved"}
    [] s = "awaiting_confirmation" -> {"approved", "rejected", "failed", "cancelled"}
    [] s = "approved"              -> {"dispatched", "failed", "cancelled"}
    [] s = "dispatched"            -> {"acknowledged", "completed", "failed", "timed_out"}
    [] s = "acknowledged"          -> {"acknowledged", "completed", "failed", "timed_out",
                                       "cancelled"}
    [] OTHER                       -> {}

ContractInit ==
  /\ status = [r \in Requests |-> "none"]
  /\ sent = [r \in Requests |-> 0]

\* One report may settle several requests of the same device at once.
Advance ==
  /\ \E S \in SUBSET Requests :
       \E new \in [S -> Statuses] :
          /\ \A r \in S : new[r] \in Successors(status[r])
          /\ status' = [r \in Requests |-> IF r \in S THEN new[r] ELSE status[r]]
  /\ UNCHANGED sent

\* A command leaves after approval only, and a command the device cannot
\* deduplicate leaves once, after its dispatch was recorded.
Send(r) ==
  /\ status[r] \notin {"none", "awaiting_confirmation", "rejected"}
  /\ r \in Once => /\ sent[r] = 0
                   /\ status[r] \notin {"approved", "cancelled"}
  /\ sent' = [sent EXCEPT ![r] = @ + 1]
  /\ UNCHANGED status

ContractNext == Advance \/ \E r \in Requests : Send(r)

ContractSpec == ContractInit /\ [][ContractNext]_<<status, sent>>
=============================================================================
