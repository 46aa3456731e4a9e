---------------------------- MODULE MCActionLive ----------------------------
\* One device_key command with confirmation whose device only sends receipts:
\* the longest lifecycle the registry allows.
EXTENDS ActionLifecycle, TLC

CONSTANTS r1

Sim ==
  [name |-> "sim_command", scope |-> "sim_command", atMostOnce |-> FALSE,
   ackMode |-> "command_ack", ackSemantics |-> "receipt_only",
   confirmation |-> TRUE, cooldown |-> 0, ttl |-> 1, timeout |-> 1,
   actors |-> {"llm", "operator"}, property |-> "none", value |-> TRUE]

MCRequests == {r1}
MCDefinition == r1 :> Sim
MCKey == [r \in MCRequests |-> NoKey]
MCFingerprint == [r \in MCRequests |-> r]
MCActor == [r \in MCRequests |-> "llm"]
=============================================================================
