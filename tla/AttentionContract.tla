--------------------------- MODULE AttentionContract ---------------------------
(***************************************************************************)
(* What the awareness backend promises for a notice it raised: it is owed   *)
(* from the moment its cause is committed, it counts as delivered only      *)
(* after a channel confirmed it, and then for good; it may be given up, in  *)
(* view of the operator, and taken up again.                                *)
(***************************************************************************)
CONSTANT Notices

VARIABLES promise, confirmed

cvars == <<promise, confirmed>>

ContractInit ==
  /\ promise = [n \in Notices |-> "none"]
  /\ confirmed = {}

Become(N, from, to) ==
  /\ \A n \in N : promise[n] \in from
  /\ promise' = [n \in Notices |-> IF n \in N THEN to ELSE promise[n]]
  /\ UNCHANGED confirmed

\* One transaction may owe several notices.
Owe(N) == Become(N, {"none"}, "owed")

Confirm(n) ==
  /\ promise[n] \in {"owed", "given_up", "delivered"}
  /\ confirmed' = confirmed \cup {n}
  /\ UNCHANGED promise

Deliver(n) == n \in confirmed /\ Become({n}, {"owed", "given_up"}, "delivered")
GiveUp(n) == Become({n}, {"owed"}, "given_up")
TakeUp(n) == Become({n}, {"given_up"}, "owed")

ContractNext ==
  \/ \E N \in SUBSET Notices : Owe(N)
  \/ \E n \in Notices : Confirm(n) \/ Deliver(n) \/ GiveUp(n) \/ TakeUp(n)

ContractSpec == ContractInit /\ [][ContractNext]_cvars
=============================================================================
