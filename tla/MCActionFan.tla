------------------------------- MODULE MCActionFan -------------------------------
\* toggle_fan on, then again on, while the first report is still on its way.
EXTENDS ActionLifecycle, TLC

CONSTANTS r1, r2

Fan(value) ==
  [name |-> "toggle_fan", scope |-> "toggle_fan", atMostOnce |-> TRUE,
   ackMode |-> "state_confirmation", ackSemantics |-> "state_result",
   confirmation |-> FALSE, cooldown |-> 1, ttl |-> 0, timeout |-> 2,
   actors |-> {"llm", "operator"}, property |-> "pin_16", value |-> value]

MCRequests == {r1, r2}
MCDefinition == r1 :> Fan(TRUE) @@ r2 :> Fan(TRUE)
MCKey == [r \in MCRequests |-> NoKey]
MCFingerprint == [r \in MCRequests |-> r]
MCActor == [r \in MCRequests |-> "llm"]

=============================================================================
