-------------------------------- MODULE Seeding --------------------------------
(* The registry at start-up (butler/awareness/registry/bootstrap.py): one source,   *)
(* the state it reported and the incident about it, as the seeding transaction of   *)
(* each process, the freshness tick and the ingestion of a reading change them.     *)
(* A transaction keeps its writes, and with them its row locks, until it commits.   *)
EXTENDS Integers, FiniteSets

CONSTANTS
  Seeders,       \* processes that seed when they start
  Ticks          \* bound: passes of the freshness worker

SeedingAssumption == {"tick", "none"} \cap Seeders = {} /\ Ticks \in Nat

VARIABLES
  row,       \* the committed rows
  own,       \* transaction -> what it has written
  pc,        \* seeder -> its next statement; the tick's too
  silent,    \* nothing was heard for longer than the deadlines
  passes,    \* ticks begun
  history,   \* seeder -> "done", "missed": the change of health it recorded was made, or not
  recovered, \* the seeders during whose statements the source changed otherwise
  edited,    \* what an operator has set the metadata to, if one has
  early,     \* the seeders that had begun before that
  overlap    \* a tick read the metadata that was then replaced

seedingVars == <<row, own, pc, silent, passes, history, recovered, edited, early, overlap>>

SourceRow == {"present", "meta", "health"}
StateRow == {"state"}
AlertRow == {"alert", "item"}
Transactions == Seeders \cup {"tick"}
Nothing == [f \in {} |-> ""]
Over(f, g) == [x \in DOMAIN f \cup DOMAIN g |-> IF x \in DOMAIN f THEN f[x] ELSE g[x]]

\* What a transaction reads, and the rows that no other one has written.
View(p) == Over(own[p], row)
Free(p, fields) == \A q \in Transactions \ {p} : DOMAIN own[q] \cap fields = {}

\* UPDATE ... WHERE: a row that does not match is left alone without waiting for it,
\* one that does is waited for and looked at again.
Update(p, matches, fields, writes) ==
  IF matches THEN Free(p, fields) /\ own' = [own EXCEPT ![p] = Over(writes, @)] ELSE UNCHANGED own

SdInit ==
  /\ \E present, optout \in BOOLEAN :
       row = [present |-> present, meta |-> IF present /\ ~optout THEN "old" ELSE "optout",
              health |-> "unknown", state |-> "none", alert |-> "none", item |-> "none"]
  /\ own = [p \in Transactions |-> Nothing] /\ pc = [p \in Transactions |-> "insert"]
  /\ history = [p \in Seeders |-> "none"]
  /\ silent = FALSE /\ passes = 0 /\ recovered = {} /\ edited = "no" /\ early = {} /\ overlap = FALSE

Statement(p, from, to) == pc[p] = from /\ pc' = [pc EXCEPT ![p] = to]

\* INSERT ... ON CONFLICT DO NOTHING waits for an insert that is under way.
Insert(p) ==
  /\ p \in Seeders /\ Statement(p, "insert", "migrate")
  /\ Update(p, ~View(p).present, SourceRow,
            [present |-> TRUE, meta |-> "optout", health |-> "unknown"])
  /\ UNCHANGED <<row, silent, passes, history, recovered, edited, early, overlap>>

\* apply_source_migrations: only a row that holds what was seeded before.
Migrate(p) ==
  /\ Statement(p, "migrate", "select")
  /\ Update(p, View(p).meta = "old", SourceRow, [meta |-> "optout"])
  /\ UNCHANGED <<row, silent, passes, history, recovered, edited, early, overlap>>

Noting == {p \in Seeders : pc[p] = "noted"}
OptedOut(p) == View(p).present /\ View(p).meta = "optout"

\* reconcile_non_reporting_sources: the offline ones, whose history is written before
\* their health.
SelectOffline(p) ==
  /\ pc[p] = "select"
  /\ pc' = [pc EXCEPT ![p] = IF ~OptedOut(p) THEN "expiring"
                             ELSE IF View(p).health = "offline" THEN "noted" ELSE "health"]
  /\ UNCHANGED <<row, own, silent, passes, history, recovered, edited, early, overlap>>

SetHealth(p) ==
  /\ pc[p] \in {"noted", "health"} /\ pc' = [pc EXCEPT ![p] = "states"]
  /\ Update(p, View(p).health = "offline", SourceRow, [health |-> "unknown"])
  /\ history' = [history EXCEPT ![p] =
       IF pc[p] # "noted" THEN "none"
       ELSE IF View(p).health = "offline" THEN "done" ELSE "missed"]
  /\ UNCHANGED <<row, silent, passes, recovered, edited, early, overlap>>

SetStates(p) ==
  /\ Statement(p, "states", "alerts")
  /\ Update(p, View(p).state = "offline", StateRow, [state |-> "stale"])
  /\ UNCHANGED <<row, silent, passes, history, recovered, edited, early, overlap>>

\* The alert of the source, and the item that is still to be told.
ResolveAlert(p) ==
  /\ Statement(p, "alerts", "expiring")
  /\ Update(p, View(p).alert = "open", AlertRow,
            [alert |-> "resolved",
             item |-> IF View(p).item = "pending" THEN "cancelled" ELSE View(p).item])
  /\ UNCHANGED <<row, silent, passes, history, recovered, edited, early, overlap>>

\* reconcile_never_expiring_state
UnExpire(p) ==
  /\ Statement(p, "expiring", "commit")
  /\ Update(p, OptedOut(p) /\ View(p).state = "stale", StateRow, [state |-> "current"])
  /\ UNCHANGED <<row, silent, passes, history, recovered, edited, early, overlap>>

Commit(p) ==
  /\ pc[p] = "commit" /\ pc' = [pc EXCEPT ![p] = IF p = "tick" THEN "insert" ELSE "seeded"]
  /\ row' = View(p) /\ own' = [own EXCEPT ![p] = Nothing]
  /\ overlap' = (overlap \/ (p \in Seeders /\ "meta" \in DOMAIN own[p] /\ pc["tick"] # "insert"))
  /\ recovered' = recovered \cup IF "health" \in DOMAIN own[p] THEN Noting ELSE {}
  /\ UNCHANGED <<silent, passes, history, edited, early>>

\* The database goes away: everything of the transaction is undone, and the process
\* goes on without it until it is started again.
RollBack(p) ==
  /\ p \in Seeders /\ pc[p] \notin {"insert", "seeded"}
  /\ own' = [own EXCEPT ![p] = Nothing] /\ pc' = [pc EXCEPT ![p] = "insert"]
  /\ history' = [history EXCEPT ![p] = "none"] /\ early' = early \ {p}
  /\ UNCHANGED <<row, silent, passes, recovered, edited, overlap>>

-----------------------------------------------------------------------------
(* The others                                                                    *)

\* _mark_stale_state and, next, _mark_offline_sources: each has the metadata that is
\* committed as it begins, or, when it had to wait for the row, as it goes on.
MarkStale ==
  /\ passes < Ticks /\ row.present /\ Statement("tick", "insert", "select") /\ passes' = passes + 1
  /\ LET expires == row.meta # "optout" /\ row.state = "current"
     IN Update("tick", expires, StateRow, [state |-> IF silent THEN "stale" ELSE "current"])
  /\ UNCHANGED <<row, silent, history, recovered, edited, early, overlap>>

MarkOffline ==
  /\ Statement("tick", "select", "commit")
  /\ LET reports == row.meta # "optout" /\ row.health = "online"
         v == View("tick")
     IN Update("tick", reports, SourceRow \cup IF silent THEN StateRow \cup AlertRow ELSE {},
          IF silent THEN [health |-> "offline", alert |-> "open", item |-> "pending",
                          state |-> IF v.state = "none" THEN "none" ELSE "offline"]
          ELSE [health |-> "online"])
  /\ UNCHANGED <<row, silent, passes, history, recovered, edited, early, overlap>>

\* A reading is one short transaction (SourceState): it makes the source online, its
\* state current, and an incident about it is over.
Reading ==
  /\ row.present /\ Free("none", SourceRow \cup StateRow \cup AlertRow)
  /\ row' = [row EXCEPT !.health = "online", !.state = "current",
               !.alert = IF @ = "open" THEN "resolved" ELSE @,
               !.item = IF @ = "pending" THEN "cancelled" ELSE @]
  /\ silent' = FALSE /\ recovered' = recovered \cup Noting
  /\ UNCHANGED <<own, pc, passes, history, edited, early, overlap>>

FallSilent == ~silent /\ silent' = TRUE
              /\ UNCHANGED <<row, own, pc, passes, history, recovered, edited, early, overlap>>

\* An operator sets the metadata, to the policy of the seed or to one of their own.
Edit ==
  /\ row.present /\ Free("none", SourceRow)
  /\ edited' \in {"edited", "optout"} /\ early' = {p \in Seeders : pc[p] # "insert"}
  /\ row' = [row EXCEPT !.meta = edited'] /\ overlap' = (overlap \/ pc["tick"] # "insert")
  /\ UNCHANGED <<own, pc, silent, passes, history, recovered>>

SdNext ==
  \/ \E p \in Seeders :
       \/ Insert(p) \/ Migrate(p) \/ SelectOffline(p) \/ SetHealth(p) \/ SetStates(p)
       \/ ResolveAlert(p) \/ UnExpire(p) \/ RollBack(p)
  \/ \E p \in Transactions : Commit(p)
  \/ MarkStale \/ MarkOffline \/ Reading \/ FallSilent \/ Edit

SdSpec == SdInit /\ [][SdNext]_seedingVars

-----------------------------------------------------------------------------
SeedingTypeOK ==
  /\ row.meta \in {"old", "optout", "edited"} /\ row.health \in {"online", "offline", "unknown"}
  /\ row.state \in {"none", "current", "stale", "offline"}
  /\ row.alert \in {"none", "open", "resolved"} /\ row.item \in {"none", "pending", "cancelled"}
  /\ passes \in 0 .. Ticks
  /\ \A p, q \in Transactions : p # q =>
       \A group \in {SourceRow, StateRow, AlertRow} :
         DOMAIN own[p] \cap group = {} \/ DOMAIN own[q] \cap group = {}

\* What an operator has set stays set, whichever process starts next
\* (apply_source_migrations).
EditsSurvive == edited # "no" => row.meta = edited

\* A process that has seeded leaves no false incident about a source that is not
\* expected to report: it is not offline, nothing about it is to be told, and its
\* state is not expired, except by a tick that had read the metadata before.
NoFalseIncident ==
  (\E p \in Seeders \ early : pc[p] = "seeded") /\ row.meta = "optout" =>
    /\ row.health # "offline" /\ row.state # "offline"
    /\ row.alert # "open" /\ row.item # "pending"
    /\ row.state = "stale" => overlap

\* The history is written before the change and apart from it: a change that it
\* records was made, but for a reading or another process in between.
HistoryIsTrue == \A p \in Seeders : history[p] = "missed" => p \in recovered

=============================================================================
