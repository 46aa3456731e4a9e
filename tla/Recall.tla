------------------------------- MODULE Recall -------------------------------
(* Long-term memory (butler/awareness/memory/service.py) with the retention of *)
(* discarded rows (butler/awareness/retention).  A transaction reads what is   *)
(* committed, locks rows with FOR UPDATE and takes effect when it commits.     *)
EXTENDS Integers, Sequences, FiniteSets

CONSTANTS Keys, Values, \* structured_content key and value; both make the statement
          Writers,      \* concurrent calls
          MaxRows,      \* bound: rows of the table
          Threshold     \* consolidation_episode_threshold

ASSUME RecallAssumption ==
  MaxRows \in Nat /\ Threshold \in Nat \ {0}

\* explicit: deterministic or confirmed by the user
Kinds == {"explicit", "inferred", "episode"}
Ids == 1 .. MaxRows
NoKey == "none" \* of an episode, a summary, a row without content

VARIABLES row,    \* sequence of rows of memories, with their relations
          writer, \* [Writers -> [pc, kind, key, value, seen, held, old]]
          consolidation  \* [pc, count, sources, summary]

rcVars == <<row, writer, consolidation>>

Idle == [pc |-> "idle", kind |-> "explicit", key |-> NoKey, value |-> 0, seen |-> {},
         held |-> {}, old |-> 0]
NoPass == [pc |-> "idle", count |-> 0, sources |-> {}, summary |-> 0]

\* discarded: rejected or deleted, which nothing here tells apart; gone: purged.
Statuses == {"active", "superseded", "discarded", "gone"}

RecallTypeOK ==
  /\ Len(row) \in 0 .. MaxRows
  /\ \A i \in DOMAIN row :
       /\ row[i].status \in Statuses /\ row[i].kind \in Kinds \cup {"summary"}
       /\ row[i].supersedes \in 0 .. MaxRows /\ row[i].linked \subseteq Ids
  /\ \A w \in Writers : writer[w].pc \in {"idle", "look", "lock", "commit"}
  /\ consolidation.pc \in {"idle", "read", "write", "link"}

RcInit ==
  /\ row = <<>> /\ writer = [w \in Writers |-> Idle]
  /\ consolidation = NoPass

Row(kind, key, value, status, supersedes) ==
  [kind |-> kind, key |-> key, value |-> value, status |-> status,
   supersedes |-> supersedes, linked |-> {}]

Alive(i) == row[i].status # "gone"
Live(i) == row[i].status = "active"
SameHash(i, kind, key, value) ==
  row[i].key = key /\ row[i].value = value /\ ((row[i].kind = "episode") <=> (kind = "episode"))
Held == UNION {writer[w].held : w \in Writers}

-----------------------------------------------------------------------------
(* write_deterministic and propose_candidate.                                 *)

\* A proposal with dangling evidence leaves a rejected row, whose words are of
\* no further use.
Reject ==
  /\ Len(row) < MaxRows
  /\ row' = Append(row, Row("inferred", NoKey, 0, "discarded", 0))
  /\ UNCHANGED <<writer, consolidation>>

\* _live_by_hash: what is live already is only reported.
Begin(w) ==
  /\ writer[w].pc = "idle" /\ Len(row) < MaxRows
  /\ \E kind \in Kinds, key \in Keys \cup {NoKey}, value \in Values \cup {Len(row)} :
       /\ IF kind = "episode" THEN key = NoKey /\ value = Len(row)
                              ELSE key \in Keys /\ value \in Values
       /\ ~\E i \in DOMAIN row : Live(i) /\ SameHash(i, kind, key, value)
       /\ writer' = [writer EXCEPT ![w] =
            [pc |-> IF kind = "episode" THEN "commit" ELSE "look", kind |-> kind, key |-> key,
             value |-> value, seen |-> {}, held |-> {}, old |-> 0]]
  /\ UNCHANGED <<row, consolidation>>

\* The SELECT ... FOR UPDATE takes its snapshot, waits for the rows in it that
\* another transaction holds, and looks at those again.
Look(w) ==
  /\ writer[w].pc = "look"
  /\ writer' = [writer EXCEPT ![w].pc = "lock",
       ![w].seen = {i \in DOMAIN row : Live(i) /\ row[i].kind # "episode"
                                       /\ row[i].key = writer[w].key}]
  /\ UNCHANGED <<row, consolidation>>

\* Mutant: the rows are read without FOR UPDATE.
Lock_Fault(w) ==
  /\ writer[w].pc = "lock"
  /\ \E old \in IF writer[w].seen = {} THEN {0} ELSE writer[w].seen :
       writer' = [writer EXCEPT ![w].pc = "commit", ![w].seen = {}, ![w].old = old]
  /\ UNCHANGED <<row, consolidation>>

Lock(w) ==
  /\ writer[w].pc = "lock" /\ writer[w].seen \cap Held = {}
  /\ LET rows == {i \in writer[w].seen : Live(i)}
     IN \E old \in IF rows = {} THEN {0} ELSE rows :
          writer' = [writer EXCEPT ![w].pc = "commit", ![w].seen = {},
                                   ![w].held = rows, ![w].old = old]
  /\ UNCHANGED <<row, consolidation>>

\* The old value is superseded, or a weak inference put beside it in conflict (the
\* relation conflicts_with of the two is left out); the
\* new row with its provenance and its embedding work; or the unique index on
\* live content refuses, and nothing remains.
Commit(w) ==
  /\ writer[w].pc = "commit"
  /\ LET t == writer[w]
         changed == t.old # 0 /\ row[t.old].value # t.value
         replaces == changed /\ t.kind # "inferred"
         mine == Row(t.kind, t.key, t.value, "active", IF replaces THEN t.old ELSE 0)
         closed == IF replaces THEN [row EXCEPT ![t.old].status = "superseded"] ELSE row
     IN IF \E i \in DOMAIN row : Live(i) /\ SameHash(i, t.kind, t.key, t.value)
                                 /\ ~(replaces /\ i = t.old)
          THEN UNCHANGED row
          ELSE Len(row) < MaxRows /\ row' = Append(closed, mine)
  /\ writer' = [writer EXCEPT ![w] = Idle]
  /\ UNCHANGED consolidation

\* A full table (the bound of the model) or a database error.
RollBack(w) ==
  /\ writer[w].pc # "idle"
  /\ writer' = [writer EXCEPT ![w] = Idle]
  /\ UNCHANGED <<row, consolidation>>

-----------------------------------------------------------------------------
(* Deletion, retention.                                                       *)

Delete(i) ==
  /\ i \in DOMAIN row \ Held /\ row[i].status \notin {"discarded", "gone"}
  /\ row' = [row EXCEPT ![i].status = "discarded"]
  /\ UNCHANGED <<writer, consolidation>>

\* discarded_memories: references to the row are set to null or cascade; what it
\* superseded is kept here to tell that it once had a replacement.
Purge(i) ==
  /\ i \in DOMAIN row \ Held /\ row[i].status = "discarded"
  /\ row' = [j \in DOMAIN row |->
       IF j = i THEN Row("inferred", NoKey, 0, "gone", row[i].supersedes)
       ELSE [row[j] EXCEPT !.supersedes = IF @ = i THEN 0 ELSE @,
                           !.linked = @ \ {i}]]
  /\ UNCHANGED <<writer, consolidation>>

-----------------------------------------------------------------------------
(* consolidate(): count, read, write and link are four transactions.          *)

Episodes == {i \in DOMAIN row : Live(i) /\ row[i].kind = "episode"}

Group ==
  /\ consolidation.pc = "idle" /\ Cardinality(Episodes) >= Threshold
  /\ consolidation' = [NoPass EXCEPT !.pc = "read", !.count = Cardinality(Episodes)]
  /\ UNCHANGED <<row, writer>>

ReadSources ==
  /\ consolidation.pc = "read"
  /\ consolidation' = [consolidation EXCEPT !.pc = "write", !.sources = Episodes]
  /\ UNCHANGED <<row, writer>>

\* A summary of the same words is live already: nothing is written or linked.
WriteSummary ==
  /\ consolidation.pc = "write"
  /\ IF \/ Len(row) = MaxRows
        \/ \E i \in DOMAIN row : Live(i) /\ row[i].kind = "summary"
                                 /\ row[i].value = consolidation.count
       THEN consolidation' = NoPass /\ UNCHANGED row
       ELSE /\ row' = Append(row, Row("summary", NoKey, consolidation.count, "active", 0))
            /\ consolidation' = [consolidation EXCEPT !.pc = "link", !.summary = Len(row) + 1]
  /\ UNCHANGED writer

LinkSummary ==
  /\ consolidation.pc = "link"
  /\ row' = IF Alive(consolidation.summary) /\ \A i \in consolidation.sources : Alive(i)
              THEN [row EXCEPT ![consolidation.summary].linked = consolidation.sources]
              ELSE row
  /\ consolidation' = NoPass
  /\ UNCHANGED writer

\* A database error or the end of the process between two of them.
AbandonPass ==
  /\ consolidation.pc # "idle"
  /\ consolidation' = NoPass
  /\ UNCHANGED <<row, writer>>

-----------------------------------------------------------------------------
RcNext ==
  \/ Reject
  \/ \E w \in Writers : Begin(w) \/ Look(w) \/ Lock(w) \/ Commit(w) \/ RollBack(w)
  \/ \E i \in Ids : Delete(i) \/ Purge(i)
  \/ Group \/ ReadSources \/ WriteSummary \/ LinkSummary \/ AbandonPass

RcSpec == RcInit /\ [][RcNext]_rcVars

-----------------------------------------------------------------------------
(* "Changed facts are never overwritten": whatever writers, owners and the      *)
(* retention do, a superseded value has one replacement that points back at it, *)
(* never none and never two (it may have been deleted in its turn).             *)
HistoryIsChained ==
  \A i \in DOMAIN row :
    /\ Cardinality({j \in DOMAIN row : row[j].supersedes = i}) <= 1
    /\ row[i].status = "superseded" => \E j \in DOMAIN row : row[j].supersedes = i
    /\ row[i].supersedes # 0 => row[row[i].supersedes].status \in {"superseded", "discarded"}

(* Two values of one key are active together only in an explicit conflict       *)
(* (service.py:13-16, an explicit write supersedes).                            *)
OneActivePerKey ==
  \A i, j \in DOMAIN row :
    i < j /\ Live(i) /\ Live(j) /\ row[i].key = row[j].key /\ row[i].value # row[j].value
    /\ {row[i].kind, row[j].kind} = {"explicit"} => FALSE

=============================================================================
