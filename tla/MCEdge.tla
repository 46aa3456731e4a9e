------------------------------- MODULE MCEdge -------------------------------
(* TLC instances of the parts at the edge of the house, where other systems    *)
(* speak, each with state of its own.  A behaviour runs one of them, chosen in *)
(* Init; the others stay in their initial states.                              *)
EXTENDS SourceState, Jobs, PhoneCalls

VARIABLE part

Pair == {"m", "w"}
PairAbout ==
  [m |-> [src |-> "probe", prop |-> "level", boot |-> "b1", seq |-> 2, obs |-> 2, val |-> 1],
   w |-> [src |-> "device", prop |-> "level", boot |-> None, seq |-> None, obs |-> None, val |-> 3]]
PairRank == [probe |-> 1, device |-> 0]
PairDeadband == [probe |-> [level |-> 2], device |-> [level |-> 0]]

edgeVars == <<part, phoneVars, jbVars, vars>>

EdgeInit ==
  /\ part \in {"phone", "jobs", "probe"}
  /\ Init /\ PhInit /\ JbInit
  /\ part # "phone" => ~bridged

Alone(p, step, rest) == part = p /\ step /\ UNCHANGED part /\ UNCHANGED rest

OneHook == \A c, d \in CallIds : hooks[c] > 0 /\ hooks[d] > 0 => c = d

EdgeNext ==
  \/ Alone("phone", PhNext /\ OneHook', <<jbVars, vars>>)
  \/ Alone("jobs", JbNext, <<phoneVars, vars>>)
  \/ Alone("probe", Next, <<phoneVars, jbVars>>)

\* The fairness of each part, for its own steps.
EdgeFairness ==
  /\ WF_vars(part = "probe" /\ Tick)
  /\ \A h \in {"mqtt", "http"} : WF_vars(part = "probe" /\ Work(h))
  /\ WF_jbVars(part = "jobs" /\ Submit)
  /\ \A w \in Workers : WF_jbVars(part = "jobs" /\ Run(w))
  /\ WF_jbVars(part = "jobs" /\ Poll)

EdgeSpec == EdgeInit /\ [][EdgeNext]_edgeVars /\ EdgeFairness

-----------------------------------------------------------------------------
\* A source that falls silent goes offline; a job handed to the queue is settled and the
\* poller catches up, given running threads.
EdgeSettles ==
  /\ part = "probe" => SilenceIsNoticed
  /\ part = "jobs" => JobsSettle

=============================================================================
