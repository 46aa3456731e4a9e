-------------------------------- MODULE MCAction --------------------------------
\* run_pump called twice with one caller key, a call and its retry, next to a
\* toggle_fan call that reuses the key: at_most_once commands, settled by an
\* execution acknowledgement and by a report of the pin.
EXTENDS ActionLifecycle, TLC

CONSTANTS r1, r2, r3, k1

Pump ==
  [name |-> "run_pump", scope |-> "run_pump channel 1", atMostOnce |-> TRUE,
   ackMode |-> "command_ack", ackSemantics |-> "execution_result",
   confirmation |-> FALSE, cooldown |-> 0, ttl |-> 0, timeout |-> 1,
   actors |-> {"llm"}, property |-> "none", value |-> TRUE]

Fan ==
  [name |-> "toggle_fan", scope |-> "toggle_fan", atMostOnce |-> TRUE,
   ackMode |-> "state_confirmation", ackSemantics |-> "state_result",
   confirmation |-> FALSE, cooldown |-> 1, ttl |-> 0, timeout |-> 1,
   actors |-> {"llm", "operator"}, property |-> "pin_16", value |-> TRUE]

MCRequests == {r1, r2, r3}
MCDefinition == r1 :> Pump @@ r2 :> Pump @@ r3 :> Fan
MCKey == [r \in MCRequests |-> k1]
MCFingerprint == r1 :> "same" @@ r2 :> "same" @@ r3 :> "other"
MCActor == [r \in MCRequests |-> "llm"]

\* The two pump calls differ in nothing but their name, nor do the executors.
Interchangeable == Permutations({r1, r2}) \cup Permutations(Executors)
=============================================================================
