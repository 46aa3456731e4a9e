--------------------------- MODULE SourceStateProofs ---------------------------
(***************************************************************************)
(* What SourceState guarantees for every set of sources, properties and     *)
(* messages and every number of concurrent handlers: its types, one event   *)
(* row per identified message and none lost as a duplicate, logs that end   *)
(* in the rows, an offline alert that follows the health of its source, and *)
(* a reported value that has not moved further from the announced one than  *)
(* a deadband.  And of the picture that is made of it (Situation): a        *)
(* critical alert that was open before the question stays in it.            *)
(***************************************************************************)
EXTENDS SourceState, Situation, SequenceTheorems, FiniteSetTheorems, WellFoundedInduction,
        NaturalsInduction, TLAPS

LEMMA InitTypeOK == Init => TypeOK
  BY SourceStateAssumption
  DEF SourceStateAssumption, Init, TypeOK, Calls, Idle, NoRow, Position, Active, Healths,
      RowStatuses, SourceRows, StateRows

\* Replacing one field of a row.
LEMMA SetStatus ==
  ASSUME NEW r \in StateRows, NEW x \in RowStatuses
  PROVE  [r EXCEPT !.status = x] \in StateRows
  BY DEF StateRows

LEMMA SetHealth ==
  ASSUME NEW r \in SourceRows, NEW x \in Healths
  PROVE  [r EXCEPT !.health = x] \in SourceRows
  BY DEF SourceRows

LEMMA SetHeard ==
  ASSUME NEW r \in SourceRows, NEW t \in 0..MaxTime
  PROVE  [r EXCEPT !.heard = t] \in SourceRows
  BY DEF SourceRows

\* The verdict on a message and the row it leaves keep the type of current_state.
LEMMA RowType ==
  ASSUME TypeOK, NEW m \in Messages, NEW at \in 0..MaxTime, ApplyState(m, at)
  PROVE  /\ row' \in [Properties -> StateRows]
         /\ stateLog' \in [Properties -> [from : RowStatuses \cup {None}, to : RowStatuses, val : Int]]
<1> DEFINE p == About[m].prop
           r == row[p]
           cmp == Comparison(m, at)
           new == CASE Verdict(r, m, cmp) = "replace"  -> Accepted(r, m, at, cmp)
                    [] Verdict(r, m, cmp) = "conflict" -> [r EXCEPT !.status = "conflicting"]
                    [] OTHER                           -> r
<1>1. About[m] \in [src : Sources, prop : Properties, boot : {None, "b1", "b2"},
                    seq : Nat \cup {None}, obs : Nat \cup {None}, val : Int]
  BY SourceStateAssumption DEF SourceStateAssumption
<1>2. p \in Properties /\ r \in StateRows
  BY <1>1 DEF TypeOK
<1>3. cmp \in Nat /\ Rank[About[m].src] \in Int /\ MaxTime \in Nat
  BY <1>1, SourceStateAssumption DEF SourceStateAssumption, Comparison
<1>4. Accepted(r, m, at, cmp) \in StateRows
  BY <1>1, <1>2, <1>3 DEF Accepted, RowStatuses, StateRows
<1>5. [r EXCEPT !.status = "conflicting"] \in StateRows
  BY <1>2, SetStatus DEF RowStatuses
<1>6. new \in StateRows
  BY <1>2, <1>4, <1>5
<1>7. row' = [row EXCEPT ![p] = new]
  BY DEF ApplyState
<1>8. \/ stateLog' = stateLog
      \/ stateLog' = [stateLog EXCEPT ![p] = [from |-> r.status, to |-> new.status, val |-> new.val]]
  BY DEF ApplyState
<1> HIDE DEF new
<1>9. row' \in [Properties -> StateRows]
  BY <1>6, <1>7 DEF TypeOK
<1>10. stateLog' \in [Properties -> [from : RowStatuses \cup {None}, to : RowStatuses, val : Int]]
  <2>1. r.status \in RowStatuses /\ new.status \in RowStatuses /\ new.val \in Int
    BY <1>2, <1>6 DEF StateRows
  <2>2. [from |-> r.status, to |-> new.status, val |-> new.val]
          \in [from : RowStatuses \cup {None}, to : RowStatuses, val : Int]
    BY <2>1
  <2> QED BY <1>2, <1>8, <2>2 DEF TypeOK
<1> QED BY <1>9, <1>10

\* What a call of handle() holds between its awaits.
LEMMA CallType ==
  ASSUME TypeOK, NEW h \in Handlers, handler[h].phase # "idle"
  PROVE  /\ handler[h].msg \in Messages /\ handler[h].at \in 0..MaxTime
         /\ handler[h].phase = "loaded" => handler[h].snapshot \in [Sources -> Position]
         /\ handler[h].phase = "persist" => handler[h].advance \in BOOLEAN
  BY DEF TypeOK, Calls

LEMMA MessageType ==
  ASSUME NEW m \in Messages
  PROVE  /\ About[m] \in [src : Sources, prop : Properties, boot : {None, "b1", "b2"},
                          seq : Nat \cup {None}, obs : Nat \cup {None}, val : Int]
         /\ About[m].src \in Sources /\ About[m].prop \in Properties
         /\ About[m].seq \in Nat \cup {None} /\ About[m].boot \in {None, "b1", "b2"}
  BY SourceStateAssumption DEF SourceStateAssumption

\* Every step keeps the types.
LEMMA NextTypeOK == TypeOK /\ [Next]_vars => TypeOK'
<1> SUFFICES ASSUME TypeOK, [Next]_vars PROVE TypeOK'
  OBVIOUS
<1> USE SourceStateAssumption DEF SourceStateAssumption
<1>1. ASSUME NEW h \in Handlers, NEW m \in Messages, Receive(h, m) PROVE TypeOK'
  BY <1>1 DEF Receive, tables, TypeOK, Calls
<1>2. ASSUME NEW h \in Handlers, RefreshReads(h) PROVE TypeOK'
  <2>1. [s \in Sources |-> At(s)] \in [Sources -> Position]
    BY DEF TypeOK, At, Position, SourceRows
  <2> QED BY <1>2, <2>1, CallType DEF RefreshReads, tables, TypeOK, Calls
<1>3. ASSUME NEW h \in Handlers, RefreshStores(h) PROVE TypeOK'
  BY <1>3, CallType DEF RefreshStores, tables, TypeOK, Calls
<1>4. ASSUME NEW h \in Handlers, Reject(h) PROVE TypeOK'
  BY <1>4, CallType DEF Reject, effects, TypeOK, Calls, Idle
<1>5. ASSUME NEW h \in Handlers, AssessSequence(h) PROVE TypeOK'
  BY <1>5, CallType DEF AssessSequence, tables, TypeOK, Calls
<1>6. ASSUME NEW h \in Handlers, Touch(h) PROVE TypeOK'
  <2> DEFINE s == About[handler[h].msg].src
  <2>1. s \in Sources /\ handler[h].at \in 0..MaxTime
    BY <1>6, CallType, MessageType DEF Touch
  <2>2. source' = [source EXCEPT ![s] = [source[s] EXCEPT !.heard = handler[h].at]]
    BY <1>6 DEF Touch
  <2>3. [source[s] EXCEPT !.heard = handler[h].at]
          \in SourceRows
    BY <2>1, SetHeard DEF TypeOK
  <2> HIDE DEF s
  <2>4. source' \in [Sources -> SourceRows]
    BY <2>2, <2>3 DEF TypeOK
  <2>5. handler' \in [Handlers -> Calls]
    BY <1>6 DEF Touch, TypeOK, Calls, Idle
  <2> QED BY <1>6, <2>4, <2>5 DEF Touch, TypeOK
<1>7. ASSUME NEW h \in Handlers, PersistDuplicate(h) PROVE TypeOK'
  BY <1>7, CallType DEF PersistDuplicate, tables, TypeOK, Calls
<1>8. ASSUME NEW h \in Handlers, NoteAdvance(h) PROVE TypeOK'
  BY <1>8, CallType, MessageType DEF NoteAdvance, tables, TypeOK, Calls, Idle, Position
<1>9. ASSUME NEW h \in Handlers, PersistFails(h) PROVE TypeOK'
  BY <1>9, CallType DEF PersistFails, effects, TypeOK, Calls, Idle
<1>10. ASSUME Restart PROVE TypeOK'
  <2>1. [s \in Sources |-> At(s)] \in [Sources -> Position]
    BY DEF TypeOK, At, Position, SourceRows
  <2> QED BY <1>10, <2>1 DEF Restart, tables, TypeOK, Calls, Idle
<1>11. ASSUME Advance PROVE TypeOK'
  BY <1>11 DEF Advance, tables, TypeOK
<1>12. ASSUME NEW s \in Sources, NEW status \in {"acknowledged", "resolved"}, Operate(s, status)
       PROVE TypeOK'
  BY <1>12 DEF Operate, TypeOK, Active
<1>13. ASSUME Tick PROVE TypeOK'
  <2>1. \A p \in Properties : Aged(p) \in RowStatuses
    BY DEF Aged, TypeOK, RowStatuses, StateRows
  <2>2. row' \in [Properties -> StateRows]
    <3>1. ASSUME NEW p \in Properties
          PROVE  [row[p] EXCEPT !.status = Aged(p)]
                   \in StateRows
      BY <2>1, SetStatus DEF TypeOK
    <3>2. row' = [p \in Properties |-> [row[p] EXCEPT !.status = Aged(p)]]
      BY <1>13 DEF Tick
    <3> QED BY <3>1, <3>2
  <2>3. stateLog' \in [Properties -> [from : RowStatuses \cup {None}, to : RowStatuses, val : Int]]
    BY <1>13, <2>1 DEF Tick, TypeOK, RowStatuses, StateRows
  <2>4. source' \in [Sources -> SourceRows]
    <3>1. ASSUME NEW s \in Sources
          PROVE  [source[s] EXCEPT !.health = "offline"]
                   \in SourceRows
      <4>1. source[s] \in SourceRows /\ "offline" \in Healths
        BY DEF TypeOK, Healths
      <4> QED BY <4>1, SetHealth
    <3>2. source' = [s \in Sources |->
                       IF Silent(s) THEN [source[s] EXCEPT !.health = "offline"] ELSE source[s]]
      BY <1>13 DEF Tick
    <3> QED BY <3>1, <3>2 DEF TypeOK
  <2>5. /\ healthLog' \in [Sources -> [from : Healths \cup {None}, to : Healths]]
        /\ alert' \in [Sources -> Active \cup {"none", "resolved"}]
    BY <1>13 DEF Tick, TypeOK, Healths, Active, SourceRows
  <2> QED BY <1>13, <2>2, <2>3, <2>4, <2>5 DEF Tick, TypeOK
<1>14. ASSUME NEW h \in Handlers, Persist(h) PROVE TypeOK'
  <2> DEFINE m == handler[h].msg
             s == About[m].src
  <2>1. /\ m \in Messages /\ handler[h].at \in 0..MaxTime /\ handler[h].advance \in BOOLEAN
        /\ s \in Sources
    BY <1>14, CallType, MessageType DEF Persist
  <2>2. ApplyState(m, handler[h].at)
    BY <1>14 DEF Persist
  <2>3. /\ row' \in [Properties -> StateRows]
        /\ stateLog' \in [Properties -> [from : RowStatuses \cup {None}, to : RowStatuses, val : Int]]
    BY <2>1, <2>2, RowType
  <2>4. source' \in [Sources -> SourceRows]
    <3> DEFINE pos == IF handler[h].advance THEN [seq |-> About[m].seq, boot |-> About[m].boot]
                      ELSE At(s)
               new == [health |-> "healthy", heard |-> handler[h].at, seq |-> pos.seq, boot |-> pos.boot]
    <3>1. pos.seq \in Nat \cup {None} /\ pos.boot \in {None, "b1", "b2"}
      <4>1. source[s].seq \in Nat \cup {None} /\ source[s].boot \in {None, "b1", "b2"}
        BY <2>1 DEF TypeOK, SourceRows
      <4>2. About[m].seq \in Nat \cup {None} /\ About[m].boot \in {None, "b1", "b2"}
        BY <2>1, MessageType
      <4> QED BY <4>1, <4>2 DEF At
    <3>2. source' = [source EXCEPT ![s] = new]
      BY <1>14 DEF Persist
    <3> HIDE DEF pos
    <3>3. new \in SourceRows
      BY <2>1, <3>1 DEF SourceRows, Healths
    <3> QED BY <2>1, <3>2, <3>3 DEF TypeOK
  <2>5. /\ healthLog' \in [Sources -> [from : Healths \cup {None}, to : Healths]]
        /\ alert' \in [Sources -> Active \cup {"none", "resolved"}]
    BY <1>14, <2>1 DEF Persist, TypeOK, LogHealth, Recovered, Healths, Active, SourceRows
  <2>6. handler' \in [Handlers -> Calls]
    BY <1>14, <2>1 DEF Persist, TypeOK, Calls, Idle
  <2>7. stored' \in [Messages -> Nat]
    BY <1>14, <2>1 DEF Persist, TypeOK
  <2> QED BY <1>14, <2>3, <2>4, <2>5, <2>6, <2>7 DEF Persist, TypeOK
<1>15. CASE UNCHANGED vars
  BY <1>15 DEF vars, TypeOK
<1> QED
  BY <1>1, <1>2, <1>3, <1>4, <1>5, <1>6, <1>7, <1>8, <1>9, <1>10, <1>11, <1>12, <1>13, <1>14, <1>15
  DEF Next, Work, Acknowledge, Resolve

-----------------------------------------------------------------------------
\* The types hold in every reachable state.
THEOREM TypeCorrect == Spec => []TypeOK
<1>1. Init => TypeOK
  BY InitTypeOK
<1>2. TypeOK /\ [Next]_vars => TypeOK'
  BY NextTypeOK
<1> QED BY <1>1, <1>2, PTL DEF Spec

OneRowEach ==
  \A m \in Messages :
    (m \in Identified \/ (About[m].boot # None /\ About[m].seq # None)) => stored[m] <= 1

\* The three invariants of the tables; each is inductive with the types.
Tables == LogsEndInTheRows /\ OneRowEach /\ AlertFollowsHealth

LEMMA InitTables == Init => Tables
<1> SUFFICES ASSUME Init PROVE Tables
  OBVIOUS
<1>1. LogsEndInTheRows
  BY SourceStateAssumption DEF SourceStateAssumption, Init, LogsEndInTheRows, NoRow
<1>2. OneRowEach
  BY DEF Init, OneRowEach
<1>3. AlertFollowsHealth
  BY DEF Init, AlertFollowsHealth, Active
<1> QED BY <1>1, <1>2, <1>3 DEF Tables

\* What a step that changes no table does to the three invariants.
LEMMA OtherStep ==
  ASSUME Tables, UNCHANGED effects, operated \subseteq operated'
  PROVE  Tables'
  BY DEF Tables, effects, LogsEndInTheRows, OneRowEach, AlertFollowsHealth

LEMMA PersistTables ==
  ASSUME TypeOK, Tables, NEW h \in Handlers, Persist(h)
  PROVE  Tables'
<1> DEFINE m == handler[h].msg
           s == About[m].src
           p == About[m].prop
<1>1. m \in Messages /\ handler[h].at \in 0..MaxTime /\ s \in Sources /\ p \in Properties
  BY CallType, MessageType DEF Persist
<1>2. OneRowEach'
  <2>1. ~AlreadyStored(m) /\ stored' = [stored EXCEPT ![m] = @ + 1]
    BY DEF Persist
  <2>2. ASSUME m \in Identified \/ (About[m].boot # None /\ About[m].seq # None)
        PROVE  stored[m] = 0
    BY <1>1, <2>1, <2>2 DEF AlreadyStored, TypeOK
  <2> QED BY <1>1, <2>1, <2>2 DEF OneRowEach, Tables, TypeOK
<1>3. AlertFollowsHealth'
  BY <1>1 DEF Persist, Tables, AlertFollowsHealth, Recovered, Active, TypeOK, SourceRows
<1>4. ASSUME NEW t \in Sources
      PROVE  healthLog'[t].to = source'[t].health /\ healthLog'[t].from # healthLog'[t].to
  BY <1>1 DEF Persist, Tables, LogsEndInTheRows, LogHealth, TypeOK, SourceRows
<1>5. ASSUME NEW q \in Properties PROVE stateLog'[q].to = row'[q].status
  <2>1. ApplyState(m, handler[h].at)
    BY DEF Persist
  <2>2. stateLog[q].to = row[q].status
    BY DEF Tables, LogsEndInTheRows
  <2>3. CASE q # p
    BY <2>1, <2>2, <2>3 DEF ApplyState, TypeOK
  <2>4. CASE q = p
    BY <1>1, <2>1, <2>2, <2>4 DEF ApplyState, TypeOK, Accepted, Jitter, Verdict
  <2> QED BY <2>3, <2>4
<1> QED BY <1>2, <1>3, <1>4, <1>5 DEF Tables, LogsEndInTheRows

LEMMA TickTables ==
  ASSUME TypeOK, Tables, Tick
  PROVE  Tables'
<1>1. OneRowEach'
  BY DEF Tick, Tables, OneRowEach
<1>2. AlertFollowsHealth'
  BY DEF Tick, Tables, AlertFollowsHealth, Silent, Active, TypeOK, SourceRows
<1>3. ASSUME NEW s \in Sources
      PROVE  healthLog'[s].to = source'[s].health /\ healthLog'[s].from # healthLog'[s].to
  BY DEF Tick, Tables, LogsEndInTheRows, Silent, TypeOK, SourceRows
<1>4. ASSUME NEW p \in Properties PROVE stateLog'[p].to = row'[p].status
  BY DEF Tick, Tables, LogsEndInTheRows, TypeOK, StateRows
<1> QED BY <1>1, <1>2, <1>3, <1>4 DEF Tables, LogsEndInTheRows

LEMMA NextTables == TypeOK /\ Tables /\ [Next]_vars => Tables'
<1> SUFFICES ASSUME TypeOK, Tables, [Next]_vars PROVE Tables'
  OBVIOUS
<1>1. ASSUME NEW h \in Handlers, NEW m \in Messages, Receive(h, m) PROVE Tables'
  BY <1>1, OtherStep DEF Receive, tables, effects
<1>2. ASSUME NEW h \in Handlers, RefreshReads(h) \/ RefreshStores(h) \/ AssessSequence(h)
                                 \/ PersistDuplicate(h) \/ NoteAdvance(h)
      PROVE Tables'
  BY <1>2, OtherStep
  DEF RefreshReads, RefreshStores, AssessSequence, PersistDuplicate, NoteAdvance, tables, effects
<1>3. ASSUME NEW h \in Handlers, Reject(h) \/ PersistFails(h) PROVE Tables'
  BY <1>3, OtherStep DEF Reject, PersistFails
<1>4. ASSUME NEW h \in Handlers, Touch(h) PROVE Tables'
  <2> DEFINE s == About[handler[h].msg].src
  <2>1. s \in Sources
    BY <1>4, CallType, MessageType DEF Touch
  <2>2. \A t \in Sources : source'[t].health = source[t].health
    BY <1>4, <2>1 DEF Touch, TypeOK, SourceRows
  <2> QED BY <1>4, <2>2 DEF Touch, Tables, LogsEndInTheRows, OneRowEach, AlertFollowsHealth
<1>5. ASSUME NEW h \in Handlers, Persist(h) PROVE Tables'
  BY <1>5, PersistTables
<1>6. ASSUME Restart \/ Advance PROVE Tables'
  BY <1>6, OtherStep DEF Restart, Advance, tables, effects
<1>7. ASSUME Tick PROVE Tables'
  BY <1>7, TickTables
<1>8. ASSUME NEW s \in Sources, NEW status \in {"acknowledged", "resolved"}, Operate(s, status)
      PROVE Tables'
  BY <1>8 DEF Operate, Tables, LogsEndInTheRows, OneRowEach, AlertFollowsHealth, TypeOK
<1>9. CASE UNCHANGED vars
  BY <1>9, OtherStep DEF vars, effects
<1> QED
  BY <1>1, <1>2, <1>3, <1>4, <1>5, <1>6, <1>7, <1>8, <1>9 DEF Next, Work, Acknowledge, Resolve

LEMMA TablesAlways == Spec => []Tables
<1>1. Init => TypeOK /\ Tables
  BY InitTypeOK, InitTables
<1>2. (TypeOK /\ Tables) /\ [Next]_vars => (TypeOK /\ Tables)'
  BY NextTypeOK, NextTables
<1> QED BY <1>1, <1>2, PTL DEF Spec

\* The history tables end in what the rows say, for any number of handlers.
THEOREM LogsAreTrue == Spec => []LogsEndInTheRows
<1>1. Tables => LogsEndInTheRows
  BY DEF Tables
<1> QED BY <1>1, TablesAlways, PTL

-----------------------------------------------------------------------------
(* Every position a call can compare a message with is that of a stored row.   *)

Witnessed(pos, s) ==
  pos.seq # None =>
    \E n \in Messages : /\ stored[n] > 0
                        /\ <<About[n].src, About[n].boot, About[n].seq>> = <<s, pos.boot, pos.seq>>

\* What the registry row, the cache and a snapshot that was read hold, what a call is
\* about to note, and what it dropped.
Positions ==
  /\ \A s \in Sources : Witnessed(At(s), s) /\ Witnessed(cached[s], s)
  /\ \A h \in Handlers :
       /\ handler[h].phase = "loaded" => \A s \in Sources : Witnessed(handler[h].snapshot[s], s)
       /\ handler[h].phase = "note" => stored[handler[h].msg] > 0
       /\ handler[h].phase = "touch" => \E n \in Messages : stored[n] > 0 /\ Twin(n, handler[h].msg)

\* A step that keeps the positions and takes one call to a place without a claim.
LEMMA PositionsKept ==
  ASSUME Positions, NEW h \in Handlers, UNCHANGED <<stored, cached>>,
         \A s \in Sources : source'[s].seq = source[s].seq /\ source'[s].boot = source[s].boot,
         \A g \in Handlers : g # h => handler'[g] = handler[g],
         handler'[h].phase \notin {"loaded", "note", "touch"}
  PROVE  Positions'
<1>1. \A s \in Sources : At(s)' = At(s) /\ cached'[s] = cached[s]
  BY DEF At
<1>2. \A s \in Sources : Witnessed(At(s), s)' /\ Witnessed(cached[s], s)'
  BY <1>1 DEF Positions, Witnessed
<1>3. ASSUME NEW g \in Handlers
      PROVE  /\ handler'[g].phase = "loaded" => \A s \in Sources : Witnessed(handler[g].snapshot[s], s)'
             /\ handler'[g].phase = "note" => stored'[handler'[g].msg] > 0
             /\ handler'[g].phase = "touch" =>
                  \E n \in Messages : stored'[n] > 0 /\ Twin(n, handler'[g].msg)
  <2>1. CASE g = h
    BY <2>1
  <2>2. CASE g # h
    BY <2>2 DEF Positions, Witnessed
  <2> QED BY <2>1, <2>2
<1> QED BY <1>2, <1>3 DEF Positions, Witnessed, Twin

\* The event transaction: the position it writes is the message's own, or the one there was.
LEMMA PersistPositions ==
  ASSUME TypeOK, Positions, NEW h \in Handlers, Persist(h)
  PROVE  Positions'
<1>0. PICK m \in Messages, t \in Sources : m = handler[h].msg /\ t = About[m].src
  BY CallType, MessageType DEF Persist
<1>1. handler[h].advance \in BOOLEAN
  BY CallType DEF Persist
<1>2. /\ stored[m] \in Nat /\ stored'[m] = stored[m] + 1 /\ cached' = cached
      /\ \A n \in Messages : n # m => stored'[n] = stored[n]
      /\ \A g \in Handlers : g # h => handler'[g] = handler[g]
  BY <1>0 DEF Persist, TypeOK
<1>3. /\ stored'[m] > 0 /\ \A n \in Messages : stored[n] > 0 => stored'[n] > 0
  BY <1>2
<1> DEFINE pos == IF handler[h].advance THEN [seq |-> About[m].seq, boot |-> About[m].boot] ELSE At(t)
<1>4. /\ source'[t].seq = pos.seq /\ source'[t].boot = pos.boot
      /\ \A s \in Sources \ {t} : source'[s] = source[s]
  BY <1>0 DEF Persist, TypeOK
<1>4a. /\ handler[h].advance => source'[t].seq = About[m].seq /\ source'[t].boot = About[m].boot
       /\ \A s \in Sources : (s = t => ~handler[h].advance) =>
            source'[s].seq = source[s].seq /\ source'[s].boot = source[s].boot
  BY <1>4 DEF At
<1> HIDE DEF pos
<1>5. \/ handler'[h].phase = "note" /\ handler'[h].msg = m
      \/ handler'[h].phase = "idle"
  BY <1>0, <1>1 DEF Persist, TypeOK, Idle
<1>6. ASSUME NEW s \in Sources PROVE Witnessed(At(s), s)' /\ Witnessed(cached[s], s)'
  <2>1. Witnessed(cached[s], s)'
    BY <1>2, <1>3 DEF Positions, Witnessed
  <2>2. CASE s = t /\ handler[h].advance
    <3>1. source'[s].seq = About[m].seq /\ source'[s].boot = About[m].boot
      BY <1>4a, <2>2
    <3>2. stored'[m] > 0 /\ About[m].src = s
      BY <1>0, <1>3, <2>2
    <3>3. \E n \in Messages :
            stored'[n] > 0 /\ <<About[n].src, About[n].boot, About[n].seq>> = <<s, source'[s].boot, source'[s].seq>>
      BY <1>0, <3>1, <3>2
    <3> QED BY <2>1, <3>3 DEF Witnessed, At
  <2>3. CASE ~(s = t /\ handler[h].advance)
    <3>1. source'[s].seq = source[s].seq /\ source'[s].boot = source[s].boot
      BY <1>1, <1>4a, <2>3
    <3>2. source[s].seq # None =>
            \E n \in Messages :
              stored'[n] > 0
              /\ <<About[n].src, About[n].boot, About[n].seq>> = <<s, source[s].boot, source[s].seq>>
      BY <1>3 DEF Positions, Witnessed, At
    <3> QED BY <2>1, <3>1, <3>2 DEF Witnessed, At
  <2> QED BY <2>1, <2>2, <2>3
<1>7. ASSUME NEW g \in Handlers
      PROVE  /\ handler'[g].phase = "loaded" => \A s \in Sources : Witnessed(handler[g].snapshot[s], s)'
             /\ handler'[g].phase = "note" => stored'[handler'[g].msg] > 0
             /\ handler'[g].phase = "touch" =>
                  \E n \in Messages : stored'[n] > 0 /\ Twin(n, handler'[g].msg)
  <2>1. CASE g = h
    BY <1>3, <1>5, <2>1
  <2>2. CASE g # h
    <3>1. handler[g].phase = "note" => handler[g].msg \in Messages
      BY CallType
    <3> QED BY <1>2, <1>3, <2>2, <3>1 DEF Positions, Witnessed
  <2> QED BY <2>1, <2>2
<1> QED BY <1>6, <1>7 DEF Positions, Witnessed, Twin

LEMMA NextPositions == TypeOK /\ Positions /\ [Next]_vars => Positions'
<1> SUFFICES ASSUME TypeOK, Positions, [Next]_vars PROVE Positions'
  OBVIOUS
<1>1. ASSUME NEW h \in Handlers, NEW m \in Messages, Receive(h, m) PROVE Positions'
  <2>1. /\ UNCHANGED <<source, cached, stored>> /\ handler'[h].phase \in {"refresh", "assess"}
        /\ \A g \in Handlers : g # h => handler'[g] = handler[g]
    BY <1>1 DEF Receive, tables, TypeOK
  <2> QED BY <2>1, PositionsKept
<1>2. ASSUME NEW h \in Handlers, Reject(h) \/ PersistFails(h) PROVE Positions'
  <2>1. /\ UNCHANGED <<source, cached, stored>> /\ handler'[h].phase = "idle"
        /\ \A g \in Handlers : g # h => handler'[g] = handler[g]
    BY <1>2 DEF Reject, PersistFails, effects, TypeOK, Idle
  <2> QED BY <2>1, PositionsKept
<1>3. ASSUME NEW h \in Handlers, Touch(h) PROVE Positions'
  <2>1. About[handler[h].msg].src \in Sources
    BY <1>3, CallType, MessageType DEF Touch
  <2>2. /\ UNCHANGED <<cached, stored>> /\ handler'[h].phase = "idle"
        /\ \A s \in Sources : source'[s].seq = source[s].seq /\ source'[s].boot = source[s].boot
        /\ \A g \in Handlers : g # h => handler'[g] = handler[g]
    BY <1>3, <2>1 DEF Touch, TypeOK, SourceRows, Idle
  <2> QED BY <2>2, PositionsKept
<1>4. ASSUME NEW h \in Handlers, Persist(h) PROVE Positions'
  BY <1>4, PersistPositions
<1>5. ASSUME NEW h \in Handlers, RefreshReads(h) PROVE Positions'
  <2>1. /\ UNCHANGED <<source, cached, stored>> /\ handler'[h].phase = "loaded"
        /\ handler'[h].snapshot = [s \in Sources |-> At(s)]
        /\ \A g \in Handlers : g # h => handler'[g] = handler[g]
    BY <1>5 DEF RefreshReads, tables, TypeOK
  <2>2. \A s \in Sources : At(s)' = At(s) /\ handler'[h].snapshot[s] = At(s)
    BY <2>1 DEF At
  <2> QED BY <2>1, <2>2 DEF Positions, Witnessed
<1>6. ASSUME NEW h \in Handlers, RefreshStores(h) PROVE Positions'
  <2>1. /\ UNCHANGED <<source, stored>> /\ handler'[h].phase = "assess"
        /\ handler[h].phase = "loaded" /\ cached' = handler[h].snapshot
        /\ \A g \in Handlers : g # h => handler'[g] = handler[g]
    BY <1>6 DEF RefreshStores, tables, TypeOK
  <2>2. \A s \in Sources : At(s)' = At(s) /\ cached'[s] = handler[h].snapshot[s]
    BY <2>1 DEF At
  <2> QED BY <2>1, <2>2 DEF Positions, Witnessed
<1>7. ASSUME NEW h \in Handlers, AssessSequence(h) PROVE Positions'
  <2> DEFINE m == handler[h].msg
             t == About[m].src
             a == Assess(cached[t], m)
  <2>1. m \in Messages /\ t \in Sources
    BY <1>7, CallType, MessageType DEF AssessSequence
  <2>2. /\ UNCHANGED <<source, cached, stored>>
        /\ \A g \in Handlers : g # h => handler'[g] = handler[g]
        /\ a = "duplicate" => handler'[h].phase = "touch" /\ handler'[h].msg = m
        /\ a # "duplicate" => handler'[h].phase = "persist"
    BY <1>7 DEF AssessSequence, tables, TypeOK
  <2>3. CASE a = "duplicate"
    <3>1. /\ About[m].seq # None /\ About[m].seq = cached[t].seq /\ About[m].boot = cached[t].boot
      BY <2>3 DEF Assess
    <3>2. Witnessed(cached[t], t)
      BY <2>1 DEF Positions
    <3> HIDE DEF m
    <3>3. \E n \in Messages : stored[n] > 0 /\ Twin(n, m)
      BY <3>1, <3>2 DEF Witnessed, Twin
    <3>4. \A s \in Sources : At(s)' = At(s)
      BY <2>2 DEF At
    <3> QED BY <2>2, <2>3, <3>3, <3>4 DEF Positions, Witnessed, Twin
  <2>4. CASE a # "duplicate"
    <3>1. handler'[h].phase = "persist"
      BY <2>2, <2>4
    <3> QED BY <2>2, <3>1, PositionsKept
  <2> QED BY <2>3, <2>4
<1>8. ASSUME NEW h \in Handlers, PersistDuplicate(h) PROVE Positions'
  <2> DEFINE m == handler[h].msg
  <2>1. /\ UNCHANGED <<source, cached, stored>> /\ AlreadyStored(m)
        /\ \A g \in Handlers : g # h => handler'[g] = handler[g]
        /\ handler'[h].phase = "touch" /\ handler'[h].msg = m
    BY <1>8 DEF PersistDuplicate, tables, TypeOK
  <2>2. m \in Messages
    BY <1>8, CallType DEF PersistDuplicate
  <2>3. \E n \in Messages : stored[n] > 0 /\ Twin(n, m)
    BY <2>1, <2>2 DEF AlreadyStored, Twin
  <2> HIDE DEF m
  <2>4. \A s \in Sources : At(s)' = At(s)
    BY <2>1 DEF At
  <2> QED BY <2>1, <2>3, <2>4 DEF Positions, Witnessed, Twin
<1>9. ASSUME NEW h \in Handlers, NoteAdvance(h) PROVE Positions'
  <2>1. PICK m \in Messages, t \in Sources :
          m = handler[h].msg /\ t = About[m].src /\ stored[m] > 0
    BY <1>9, CallType, MessageType DEF NoteAdvance, Positions
  <2>2. /\ UNCHANGED <<source, stored>> /\ handler'[h].phase = "idle"
        /\ \A g \in Handlers : g # h => handler'[g] = handler[g]
        /\ cached' = [cached EXCEPT ![t] = [seq |-> About[m].seq, boot |-> About[m].boot]]
    BY <1>9, <2>1 DEF NoteAdvance, tables, TypeOK, Idle
  <2>3. ASSUME NEW s \in Sources PROVE Witnessed(At(s), s)' /\ Witnessed(cached[s], s)'
    <3>1. Witnessed(At(s), s)'
      BY <2>2 DEF Positions, Witnessed, At
    <3>2. CASE s = t
      <4>1. cached'[s] = [seq |-> About[m].seq, boot |-> About[m].boot]
        BY <2>1, <2>2, <3>2 DEF TypeOK
      <4> QED BY <2>1, <2>2, <3>1, <3>2, <4>1 DEF Witnessed
    <3>3. CASE s # t
      <4>1. cached'[s] = cached[s]
        BY <2>1, <2>2, <3>3 DEF TypeOK
      <4> QED BY <2>2, <3>1, <4>1 DEF Positions, Witnessed
    <3> QED BY <3>2, <3>3
  <2> QED BY <2>2, <2>3 DEF Positions, Witnessed
<1>10. ASSUME Restart PROVE Positions'
  <2>1. /\ UNCHANGED <<source, stored>> /\ \A h \in Handlers : handler'[h].phase = "idle"
        /\ cached' = [s \in Sources |-> At(s)]
    BY <1>10 DEF Restart, tables, Idle
  <2>2. \A s \in Sources : At(s)' = At(s) /\ cached'[s] = At(s)
    BY <2>1 DEF At
  <2> QED BY <2>1, <2>2 DEF Positions, Witnessed
<1>11. ASSUME \/ Tick \/ Advance \/ (\E s \in Sources : Acknowledge(s) \/ Resolve(s))
              \/ UNCHANGED vars
       PROVE  Positions'
  <2>1. /\ UNCHANGED <<cached, stored, handler>>
        /\ \A s \in Sources : source'[s].seq = source[s].seq /\ source'[s].boot = source[s].boot
    <3>1. CASE Tick
      BY <3>1 DEF Tick, TypeOK, SourceRows
    <3>2. CASE Advance \/ (\E s \in Sources : Acknowledge(s) \/ Resolve(s)) \/ UNCHANGED vars
      BY <3>2 DEF Advance, Acknowledge, Resolve, Operate, tables, vars
    <3> QED BY <1>11, <3>1, <3>2
  <2>2. \A s \in Sources : At(s)' = At(s)
    BY <2>1 DEF At
  <2> QED BY <2>1, <2>2 DEF Positions, Witnessed
<1> QED
  BY <1>1, <1>2, <1>3, <1>4, <1>5, <1>6, <1>7, <1>8, <1>9, <1>10, <1>11 DEF Next, Work

\* The inductive invariant of the positions: whatever a call compares a message with,
\* through a cache that overlapping calls, refreshes and restarts leave stale, is the
\* position of a row of the events table.
THEOREM PositionsAreWitnessed == Spec => []Positions
<1>1. Init => Positions
  BY DEF Init, Positions, Witnessed, At, Idle
<1>2. TypeOK /\ Positions /\ [Next]_vars => Positions'
  BY NextPositions
<1> QED BY <1>1, <1>2, TypeCorrect, PTL DEF Spec

\* A message with an event_id or a (boot, sequence) has at most one event row, and what
\* is dropped as a duplicate has a twin in the table, for any number of handlers.
THEOREM NoDuplicateRow == Spec => []StoredOnce
<1>1. Tables /\ Positions => StoredOnce
  BY DEF Tables, OneRowEach, Positions, StoredOnce
<1> QED BY <1>1, TablesAlways, PositionsAreWitnessed, PTL

\* Without an operator the offline alert is active exactly while the source is offline.
THEOREM AlertIsTrue == Spec => []AlertFollowsHealth
<1>1. Tables => AlertFollowsHealth
  BY DEF Tables
<1> QED BY <1>1, TablesAlways, PTL

\* A row that does not exist holds the zeroes it was given.
NothingInNoRow == \A p \in Properties : row[p].status = "none" => row[p].cmp = 0

LEMMA NextNothing == TypeOK /\ NothingInNoRow /\ [Next]_vars => NothingInNoRow'
<1> SUFFICES ASSUME TypeOK, NothingInNoRow, [Next]_vars, NEW p \in Properties,
                    row'[p].status = "none"
             PROVE  row'[p].cmp = 0
  BY DEF NothingInNoRow
<1>1. CASE row' = row
  BY <1>1 DEF NothingInNoRow
<1>2. CASE Tick
  <2>1. row'[p] = [row[p] EXCEPT !.status = Aged(p)] /\ row[p] \in StateRows
    BY <1>2 DEF Tick, TypeOK
  <2>2. row'[p].status = Aged(p) /\ row'[p].cmp = row[p].cmp
    BY <2>1 DEF StateRows
  <2> QED BY <2>2 DEF Aged, NothingInNoRow
<1>3. ASSUME NEW h \in Handlers, Persist(h) PROVE row'[p].cmp = 0
  <2> DEFINE m == handler[h].msg
             v == Verdict(row[p], m, Comparison(m, handler[h].at))
  <2>1. ApplyState(m, handler[h].at) /\ row[p] \in StateRows
    BY <1>3 DEF Persist, TypeOK
  <2>2. CASE p # About[m].prop
    BY <2>1, <2>2 DEF ApplyState, TypeOK, NothingInNoRow
  <2>3. CASE p = About[m].prop
    <3>1. row'[p] = CASE v = "replace"  -> Accepted(row[p], m, handler[h].at, Comparison(m, handler[h].at))
                      [] v = "conflict" -> [row[p] EXCEPT !.status = "conflicting"]
                      [] OTHER          -> row[p]
      BY <2>1, <2>3 DEF ApplyState, TypeOK
    <3>2. v # "replace"
      BY <3>1 DEF Accepted
    <3>3. v # "conflict"
      <4> SUFFICES ASSUME v = "conflict" PROVE FALSE
        OBVIOUS
      <4>1. row'[p] = [row[p] EXCEPT !.status = "conflicting"]
        BY <3>1
      <4> QED BY <2>1, <4>1 DEF StateRows
    <3> QED BY <3>1, <3>2, <3>3 DEF NothingInNoRow
  <2> QED BY <2>2, <2>3
<1> QED
  BY <1>1, <1>2, <1>3
  DEF Next, vars, Work, Receive, RefreshReads, RefreshStores, Reject, AssessSequence, Touch,
      PersistDuplicate, NoteAdvance, PersistFails, Restart, Advance, Acknowledge, Resolve,
      Operate, tables, effects

\* Current state never moves back, and yields to a weaker source only once aged.
THEOREM StateOrder == Spec => StateMovesForward
<1>1. TypeOK /\ NothingInNoRow /\ [Next]_vars =>
        [\A p \in Properties :
           /\ row'[p].cmp >= row[p].cmp
           /\ row[p].status # "none" /\ row'[p].rank < row[p].rank => row[p].status \in {"stale", "offline"}]_vars
  <2> SUFFICES ASSUME TypeOK, NothingInNoRow, Next, NEW p \in Properties
               PROVE  /\ row'[p].cmp >= row[p].cmp
                      /\ row[p].status # "none" /\ row'[p].rank < row[p].rank => row[p].status \in {"stale", "offline"}
    OBVIOUS
  <2>1. row[p].cmp \in Nat /\ row[p].rank \in Int
    BY DEF TypeOK, StateRows
  <2>2. CASE row' = row
    BY <2>1, <2>2
  <2>3. CASE Tick
    <3>1. row'[p] = [row[p] EXCEPT !.status = Aged(p)] /\ row[p] \in StateRows
      BY <2>3 DEF Tick, TypeOK
    <3>2. row'[p].cmp = row[p].cmp /\ row'[p].rank = row[p].rank
      BY <3>1 DEF StateRows
    <3> QED BY <2>1, <3>2
  <2>4. ASSUME NEW h \in Handlers, Persist(h)
        PROVE  /\ row'[p].cmp >= row[p].cmp
               /\ row[p].status # "none" /\ row'[p].rank < row[p].rank => row[p].status \in {"stale", "offline"}
    <3> DEFINE m == handler[h].msg
    <3>1. /\ m \in Messages /\ handler[h].at \in 0..MaxTime /\ ApplyState(m, handler[h].at)
          /\ About[m].prop \in Properties
      BY <2>4, CallType, MessageType DEF Persist
    <3>2. Comparison(m, handler[h].at) \in Nat /\ Rank[About[m].src] \in Int
      BY <3>1, SourceStateAssumption DEF SourceStateAssumption, Comparison
    <3>3. CASE p # About[m].prop
      <4>1. row'[p] = row[p]
        BY <3>1, <3>3 DEF ApplyState, TypeOK
      <4> QED BY <2>1, <4>1
    <3>4. CASE p = About[m].prop
      <4> DEFINE cmp == Comparison(m, handler[h].at)
                 v == Verdict(row[p], m, cmp)
      <4>1. row'[p] = CASE v = "replace"  -> Accepted(row[p], m, handler[h].at, cmp)
                        [] v = "conflict" -> [row[p] EXCEPT !.status = "conflicting"]
                        [] OTHER          -> row[p]
        BY <3>1, <3>4 DEF ApplyState, TypeOK
      <4>2. CASE v = "replace"
        <5>1. row'[p].cmp = cmp /\ row'[p].rank = Rank[About[m].src]
          BY <4>1, <4>2 DEF Accepted
        <5>2. row[p].status # "none" =>
                /\ cmp >= row[p].cmp
                /\ Rank[About[m].src] < row[p].rank => Replaceable(row[p])
          BY <2>1, <3>2, <4>2 DEF Verdict
        <5>3. row[p].status = "none" => row[p].cmp = 0
          BY DEF NothingInNoRow
        <5> QED BY <2>1, <3>2, <5>1, <5>2, <5>3 DEF Replaceable
      <4>3. CASE v = "conflict"
        <5>1. row'[p] = [row[p] EXCEPT !.status = "conflicting"] /\ row[p] \in StateRows
          BY <4>1, <4>3 DEF TypeOK
        <5>2. row'[p].cmp = row[p].cmp /\ row'[p].rank = row[p].rank
          BY <5>1 DEF StateRows
        <5> QED BY <2>1, <5>2
      <4>4. CASE v \notin {"replace", "conflict"}
        BY <2>1, <4>1, <4>4
      <4> QED BY <4>2, <4>3, <4>4
    <3> QED BY <3>3, <3>4
  <2> QED
    BY <2>2, <2>3, <2>4
    DEF Next, Work, Receive, RefreshReads, RefreshStores, Reject, AssessSequence, Touch,
        PersistDuplicate, NoteAdvance, PersistFails, Restart, Advance, Acknowledge, Resolve,
        Operate, tables, effects
<1>2. Init => NothingInNoRow
  BY DEF Init, NothingInNoRow, NoRow
<1>3. Spec => []NothingInNoRow
  BY <1>2, InitTypeOK, NextNothing, NextTypeOK, PTL DEF Spec
<1> QED BY <1>1, <1>3, TypeCorrect, PTL DEF Spec, StateMovesForward

-----------------------------------------------------------------------------
(* Small moves add up to no more than a deadband.                             *)

\* The row of a current value: its anchor is what the last transition announced, the
\* value is within the deadband of its source, and its rank is that source's.
Anchored ==
  \A p \in NarrowerIsWeaker :
    row[p].status = "current" =>
      /\ row[p].anchor = stateLog[p].val
      /\ row[p].val = row[p].anchor
           \/ Distance(row[p].val, row[p].anchor) < Deadband[row[p].src][p]
      /\ \E m \in Messages :
           About[m].prop = p /\ About[m].src = row[p].src /\ Rank[row[p].src] = row[p].rank

LEMMA BandType ==
  ASSUME NEW m \in Messages
  PROVE  Band(m) \in Nat
<1>1. About[m].src \in Sources /\ About[m].prop \in Properties
  BY SourceStateAssumption DEF SourceStateAssumption
<1>2. Deadband \in [Sources -> [Properties -> Nat]]
  BY SourceStateAssumption DEF SourceStateAssumption
<1> QED BY <1>1, <1>2 DEF Band

\* Of two reports of a property in NarrowerIsWeaker the narrower is the weaker.
LEMMA Weaker ==
  ASSUME NEW p \in NarrowerIsWeaker, NEW m \in Messages, NEW n \in Messages,
         About[m].prop = p, About[n].prop = p, Band(m) < Band(n)
  PROVE  Rank[About[m].src] < Rank[About[n].src]
  BY DEF NarrowerIsWeaker

\* Of a current row the same value is taken again only from a source no weaker than its own.
LEMMA ConfirmedByEqual ==
  ASSUME NEW r, NEW m, NEW cmp \in Nat, r.cmp \in Nat, r.rank \in Int,
         Rank[About[m].src] \in Int, r.status = "current", About[m].val = r.val,
         Verdict(r, m, cmp) = "replace"
  PROVE  ~(Rank[About[m].src] < r.rank)
<1>1. ASSUME Rank[About[m].src] < r.rank PROVE FALSE
  <2>1. ~Replaceable(r)
    BY DEF Replaceable
  <2>2. ~(cmp < r.cmp) /\ cmp # r.cmp
    BY DEF Verdict
  <2>3. cmp > r.cmp
    BY <2>2
  <2> QED BY <1>1, <2>1, <2>3 DEF Verdict
<1> QED BY <1>1

LEMMA PersistAnchored ==
  ASSUME TypeOK, Anchored, NEW m \in Messages, NEW at \in 0..MaxTime, ApplyState(m, at)
  PROVE  Anchored'
<1> DEFINE p == About[m].prop
           r == row[p]
           cmp == Comparison(m, at)
           v == Verdict(r, m, cmp)
           new == CASE v = "replace"  -> Accepted(r, m, at, cmp)
                    [] v = "conflict" -> [r EXCEPT !.status = "conflicting"]
                    [] OTHER          -> r
           quiet == \/ v = "replace" /\ Jitter(r, m)
                    \/ new.status = r.status /\ new.val = r.val
<1>1. /\ About[m].src \in Sources /\ p \in Properties /\ About[m].val \in Int /\ cmp \in Nat
      /\ Rank \in [Sources -> Int] /\ Deadband \in [Sources -> [Properties -> Nat]]
  BY SourceStateAssumption DEF SourceStateAssumption, Comparison
<1>2. r \in StateRows /\ Band(m) \in Nat /\ v \in {"replace", "conflict", "keep"}
  <2>1. r \in StateRows
    BY <1>1 DEF TypeOK
  <2>2. v \in {"replace", "conflict", "keep"}
    BY DEF Verdict
  <2>3. Band(m) \in Nat
    BY BandType
  <2> QED BY <2>1, <2>2, <2>3
<1>3. /\ row' = [row EXCEPT ![p] = new]
      /\ stateLog' = IF quiet THEN stateLog
                     ELSE [stateLog EXCEPT ![p] = [from |-> r.status, to |-> new.status, val |-> new.val]]
  BY DEF ApplyState
<1>4. ASSUME NEW q \in NarrowerIsWeaker, q # p
      PROVE  row'[q] = row[q] /\ stateLog'[q] = stateLog[q]
  <2>1. q \in Properties
    BY DEF NarrowerIsWeaker
  <2> HIDE DEF new, quiet
  <2> QED BY <1>3, <1>4, <2>1 DEF TypeOK
<1>5. ASSUME p \in NarrowerIsWeaker, row'[p].status = "current"
      PROVE  /\ row'[p].anchor = stateLog'[p].val
             /\ row'[p].val = row'[p].anchor
                  \/ Distance(row'[p].val, row'[p].anchor) < Deadband[row'[p].src][p]
             /\ \E n \in Messages :
                  About[n].prop = p /\ About[n].src = row'[p].src /\ Rank[row'[p].src] = row'[p].rank
  <2>1. row'[p] = new /\ (quiet => stateLog'[p] = stateLog[p])
        /\ (~quiet => stateLog'[p].val = new.val)
    BY <1>1, <1>3 DEF TypeOK
  <2>2. CASE v = "replace"
    <3>1. /\ new.status = "current" /\ new.val = About[m].val /\ new.src = About[m].src
          /\ new.rank = Rank[About[m].src]
          /\ new.anchor = IF Jitter(r, m) THEN r.anchor ELSE About[m].val
      BY <2>2 DEF Accepted
    <3>2. \E n \in Messages :
            About[n].prop = p /\ About[n].src = row'[p].src /\ Rank[row'[p].src] = row'[p].rank
      BY <2>1, <3>1
    <3>3. CASE Jitter(r, m)
      <4>1. quiet /\ r.status = "current" /\ Distance(About[m].val, r.anchor) < Band(m)
        BY <2>2, <3>3 DEF Jitter
      <4>2. r.anchor = stateLog[p].val
        BY <1>5, <4>1 DEF Anchored
      <4> HIDE DEF new, quiet
      <4> QED BY <2>1, <3>1, <3>2, <3>3, <4>1, <4>2 DEF Band
    <3>4. CASE ~Jitter(r, m) /\ ~quiet
      <4> HIDE DEF new, quiet
      <4> QED BY <2>1, <3>1, <3>2, <3>4
    <3>5. CASE ~Jitter(r, m) /\ quiet
      <4>1. r.status = "current" /\ About[m].val = r.val
        BY <2>2, <3>1, <3>5
      <4>2. /\ r.anchor = stateLog[p].val
            /\ r.val = r.anchor \/ Distance(r.val, r.anchor) < Deadband[r.src][p]
        BY <1>5, <4>1 DEF Anchored
      <4>3. PICK n \in Messages :
              About[n].prop = p /\ About[n].src = r.src /\ Rank[r.src] = r.rank
        BY <1>5, <4>1 DEF Anchored
      <4>4. ~(Rank[About[m].src] < r.rank)
        <5>1. r.cmp \in Nat /\ r.rank \in Int /\ Rank[About[m].src] \in Int
          BY <1>1, <1>2 DEF StateRows
        <5>2. Verdict(r, m, cmp) = "replace"
          BY <2>2
        <5> HIDE DEF r, cmp, v, new, quiet
        <5> QED BY <1>1, <4>1, <5>1, <5>2, ConfirmedByEqual
      <4>5. Band(n) <= Band(m)
        <5>1. ~(Band(m) < Band(n))
          BY <1>5, <4>3, <4>4, Weaker
        <5>2. Band(n) \in Nat
          BY <4>3, BandType
        <5> QED BY <1>2, <5>1, <5>2
      <4>6. r.val = r.anchor
        <5>1. Band(n) = Deadband[r.src][p] /\ Band(n) \in Nat
          BY <4>3, BandType DEF Band
        <5>2. Distance(r.val, r.anchor) \in Nat /\ ~(Band(m) > 0 /\ Distance(r.val, r.anchor) < Band(m))
          BY <1>2, <3>5, <4>1 DEF Jitter, Distance, StateRows
        <5> QED BY <1>2, <4>2, <4>5, <5>1, <5>2
      <4> HIDE DEF new, quiet
      <4> QED BY <2>1, <3>1, <3>2, <3>5, <4>1, <4>2, <4>6
    <3> QED BY <3>3, <3>4, <3>5
  <2>3. CASE v = "conflict"
    <3>1. new.status = "conflicting"
      BY <1>2, <2>3 DEF StateRows
    <3> QED BY <1>5, <2>1, <3>1
  <2>4. CASE v = "keep"
    <3>1. new = r /\ quiet
      BY <2>4
    <3> HIDE DEF new, quiet
    <3> QED BY <1>5, <2>1, <3>1 DEF Anchored
  <2> QED BY <1>2, <2>2, <2>3, <2>4
<1> QED BY <1>4, <1>5 DEF Anchored

LEMMA NextAnchored == TypeOK /\ Anchored /\ [Next]_vars => Anchored'
<1> SUFFICES ASSUME TypeOK, Anchored, [Next]_vars PROVE Anchored'
  OBVIOUS
<1>1. CASE UNCHANGED <<row, stateLog>>
  BY <1>1 DEF Anchored
<1>2. CASE Tick
  <2> SUFFICES ASSUME NEW p \in NarrowerIsWeaker, row'[p].status = "current"
               PROVE  row'[p] = row[p] /\ stateLog'[p] = stateLog[p]
    BY DEF Anchored
  <2>1. p \in Properties /\ row[p] \in StateRows
    BY DEF NarrowerIsWeaker, TypeOK
  <2>2. row'[p] = [row[p] EXCEPT !.status = Aged(p)]
    BY <1>2, <2>1 DEF Tick
  <2>3. Aged(p) = "current"
    BY <2>1, <2>2 DEF StateRows
  <2>4. row[p].status = "current"
    BY <2>3 DEF Aged
  <2> QED BY <1>2, <2>1, <2>2, <2>3, <2>4 DEF Tick, StateRows
<1>3. ASSUME NEW h \in Handlers, Persist(h) PROVE Anchored'
  <2>1. handler[h].msg \in Messages /\ handler[h].at \in 0..MaxTime
    BY <1>3, CallType DEF Persist
  <2> QED BY <1>3, <2>1, PersistAnchored DEF Persist
<1> QED
  BY <1>1, <1>2, <1>3
  DEF Next, vars, Work, Receive, RefreshReads, RefreshStores, Reject, AssessSequence, Touch,
      PersistDuplicate, NoteAdvance, PersistFails, Restart, Advance, Acknowledge, Resolve,
      Operate, tables, effects

\* The value of a current row is within the deadband of its source of what the last
\* transition announced, for any messages in any order, where no source with a narrower
\* deadband outranks or equals another one (StateManager._apply_one).
THEOREM DriftStaysBounded == Spec => []DriftIsBounded
<1>1. Init => Anchored
  <2> SUFFICES ASSUME Init, NEW p \in NarrowerIsWeaker PROVE row[p].status # "current"
    BY DEF Anchored
  <2>1. p \in Properties
    BY DEF NarrowerIsWeaker
  <2> QED BY <2>1 DEF Init, NoRow
<1>2. Anchored => DriftIsBounded
  BY DEF Anchored, DriftIsBounded
<1> QED BY <1>1, <1>2, InitTypeOK, NextTypeOK, NextAnchored, PTL DEF Spec

-----------------------------------------------------------------------------
(* Situation: what is listed was opened by now, a question of an earlier instant    *)
(* finds it, and what the selection keeps of the rest comes last in its order.      *)

Ids == Alerts \cup Items \cup {"presence", "house"}
Picture == [items : SUBSET Ids, used : Nat, crowded : BOOLEAN]
Question == [pc : {"rest", "focus", "alerts", "attention", "told", "own"}, asked : 0 .. Ticks,
             focus : [present : BOOLEAN, about : SUBSET Items], found : SUBSET Alerts,
             crowded : BOOLEAN, told : Picture]

SiTypes ==
  /\ clock \in 0 .. Ticks /\ since \in [Alerts -> -1 .. Ticks + 1] /\ latest \in Seq(Alerts)
  /\ pending \subseteq Items /\ seen \in BOOLEAN /\ topic \subseteq Items
  /\ cache \in [at : -1 .. Ticks, picture : Picture] /\ asker \in [Askers -> Question]

\* An alert is listed once, and was opened by now.
Listed == ToSet(latest)
Listing ==
  /\ \A i, j \in DOMAIN latest : latest[i] = latest[j] => i = j
  /\ \A a \in Listed : since[a] \in 1 .. clock + 1

\* No question is of the future.
Asked == cache.at <= clock /\ \A q \in Askers : asker[q].asked <= clock

\* What was open before the question is found, unless the section is too small.
Found ==
  /\ \A q \in Askers : asker[q].pc = "attention" /\ ~asker[q].crowded =>
       \A a \in Critical \cap Listed : since[a] - 1 < asker[q].asked => a \in asker[q].found
  /\ ~cache.picture.crowded =>
       \A a \in Critical \cap Listed : since[a] - 1 < cache.at => a \in cache.picture.items
  /\ CriticalIsShown

\* What is over the budget is critical, and a picture with a passing remark was made
\* for somebody.
Modest(p) ==
  /\ p.used > Budget => p.items \subseteq Critical
  /\ p.items \cap Passive # {} => seen
Pictures ==
  /\ Modest(cache.picture)
  /\ \A q \in Askers : Modest(asker[q].told) /\ (asker[q].focus.present => seen)

SiInv == SiTypes /\ Listing /\ Asked /\ Found /\ Pictures

LEMMA NothingShown ==
  ASSUME SituationAssumption
  PROVE  /\ NoPicture \in Picture /\ NoAnswer \in Question
         /\ NoPicture.items = {} /\ NoPicture.used = 0 /\ ~NoPicture.crowded
         /\ Modest(NoPicture) /\ Ticks \in Nat \ {0} /\ Budget \in Nat \ {0} /\ Life \in Nat \ {0}
         /\ Critical \subseteq Alerts /\ Passive \subseteq Items
<1>1. NoPicture \in Picture /\ NoPicture.items = {} /\ NoPicture.used = 0 /\ ~NoPicture.crowded
  BY DEF NoPicture, Picture
<1>2. /\ Ticks \in Nat \ {0} /\ Budget \in Nat \ {0} /\ Life \in Nat \ {0}
      /\ Critical \subseteq Alerts /\ Passive \subseteq Items
  BY DEF SituationAssumption
<1>3. [present |-> FALSE, about |-> {}] \in [present : BOOLEAN, about : SUBSET Items]
  OBVIOUS
<1>4. NoAnswer \in Question
  BY <1>1, <1>2, <1>3 DEF NoAnswer, Question
<1>5. Modest(NoPicture)
  BY <1>1, <1>2 DEF Modest
<1> QED BY <1>1, <1>2, <1>4, <1>5

LEMMA SiInitInv == ASSUME SituationAssumption, SiInit PROVE SiInv
<1>1. /\ clock = 0 /\ since = [a \in Alerts |-> 0] /\ latest = <<>> /\ pending = {}
      /\ seen = FALSE /\ topic = {} /\ cache = [at |-> -1, picture |-> NoPicture]
      /\ asker = [q \in Askers |-> NoAnswer]
  BY DEF SiInit
<1>2. Listed = {} /\ DOMAIN latest = {}
  <2>1. DOMAIN latest = {}
    BY <1>1
  <2> QED BY <2>1 DEF Listed, ToSet
<1>3. \A q \in Askers : asker[q] = NoAnswer /\ asker[q].pc = "rest" /\ asker[q].asked = 0
                        /\ asker[q].told = NoPicture /\ ~asker[q].focus.present
  BY <1>1 DEF NoAnswer
<1>4. cache.at = -1 /\ cache.picture = NoPicture
  BY <1>1
<1>5. SiTypes
  <2>1. clock \in 0 .. Ticks /\ since \in [Alerts -> -1 .. Ticks + 1] /\ latest \in Seq(Alerts)
    BY <1>1, NothingShown
  <2>2. cache \in [at : -1 .. Ticks, picture : Picture]
    <3>1. -1 \in -1 .. Ticks
      BY NothingShown
    <3> QED BY <1>1, <3>1, NothingShown
  <2>3. asker \in [Askers -> Question]
    BY <1>1, NothingShown
  <2> QED BY <1>1, <2>1, <2>2, <2>3 DEF SiTypes
<1>6. Listing
  BY <1>2 DEF Listing
<1>7. Asked
  BY <1>1, <1>3, <1>4 DEF Asked
<1>8. Found
  <2>1. CriticalIsShown
    BY <1>3 DEF CriticalIsShown
  <2> QED BY <1>2, <1>3, <2>1 DEF Found
<1>9. Pictures
  BY <1>3, <1>4, NothingShown DEF Pictures
<1> QED BY <1>5, <1>6, <1>7, <1>8, <1>9 DEF SiInv

\* The house goes on: what is listed was listed, or is opened now.
LEMMA HouseKeeps ==
  ASSUME SituationAssumption, SiInv, SiTypes', Listing', UNCHANGED <<cache, asker>>,
         clock' >= clock, seen => seen',
         \A a \in Listed' : since'[a] = clock + 1 \/ (a \in Listed /\ since'[a] = since[a])
  PROVE  SiInv'
<1>1. /\ clock \in Nat /\ clock' \in Nat /\ cache.at \in Int /\ Life \in Nat \ {0}
      /\ \A q \in Askers : asker[q] \in Question /\ asker[q].asked \in Nat
      /\ \A a \in Listed : since[a] \in Int
  <2>1. clock \in 0 .. Ticks /\ clock' \in 0 .. Ticks /\ cache.at \in -1 .. Ticks
        /\ asker \in [Askers -> Question] /\ Ticks \in Nat /\ Life \in Nat \ {0}
    BY NothingShown DEF SiInv, SiTypes
  <2>2. \A q \in Askers : asker[q].asked \in 0 .. Ticks
    BY <2>1 DEF Question
  <2>3. \A a \in Listed : since[a] \in 1 .. clock + 1
    BY DEF SiInv, Listing
  <2> QED BY <2>1, <2>2, <2>3
<1>2. cache.at <= clock /\ \A q \in Askers : asker[q].asked <= clock
  BY DEF SiInv, Asked
<1>3. Asked'
  BY <1>1, <1>2 DEF Asked
\* Of the alerts a question could see, none is new.
<1>4. ASSUME NEW a \in Listed', NEW t \in Int, t <= clock, since'[a] - 1 < t
      PROVE  a \in Listed /\ since'[a] = since[a]
  <2>1. since'[a] # clock + 1
    BY <1>1, <1>4
  <2> QED BY <2>1
<1>5. Found'
  <2>1. ASSUME NEW q \in Askers, asker[q].pc = "attention", ~asker[q].crowded,
               NEW a \in Critical \cap Listed', since'[a] - 1 < asker[q].asked
        PROVE  a \in asker[q].found
    <3>1. a \in Listed /\ since'[a] = since[a]
      BY <1>1, <1>2, <1>4, <2>1
    <3> QED BY <2>1, <3>1 DEF SiInv, Found
  <2>2. ASSUME ~cache.picture.crowded, NEW a \in Critical \cap Listed', since'[a] - 1 < cache.at
        PROVE  a \in cache.picture.items
    <3>1. a \in Listed /\ since'[a] = since[a]
      BY <1>1, <1>2, <1>4, <2>2
    <3> QED BY <2>2, <3>1 DEF SiInv, Found
  <2>3. ASSUME NEW q \in Askers, NEW a \in Critical,
               asker[q].pc = "told", ~asker[q].told.crowded, a \in Listed',
               since'[a] - 1 <= asker[q].asked - Life
        PROVE  a \in asker[q].told.items
    <3>1. a \in Listed /\ since'[a] = since[a]
      <4>1. since'[a] \in Int
        BY <1>1, <2>3
      <4>2. since'[a] - 1 < asker[q].asked
        BY <1>1, <2>3, <4>1
      <4> QED BY <1>1, <1>2, <1>4, <2>3, <4>2
    <3> QED BY <2>3, <3>1 DEF SiInv, Found, CriticalIsShown, Told, Listed
  <2>4. CriticalIsShown'
    BY <2>3 DEF CriticalIsShown, Told, Listed
  <2> QED BY <2>1, <2>2, <2>4 DEF Found
<1>6. Pictures'
  <2>1. \A p : Modest(p) => (p.items \cap Passive # {} => seen') /\ (p.used > Budget => p.items \subseteq Critical)
    BY DEF Modest
  <2> QED BY <2>1 DEF SiInv, Pictures, Modest
<1> QED BY <1>3, <1>5, <1>6 DEF SiInv

LEMMA AlertOpens == ASSUME SituationAssumption, SiInv, NEW a \in Alerts, Opens(a) PROVE SiInv'
<1>1. /\ since[a] = 0 /\ since' = [since EXCEPT ![a] = clock + 1] /\ latest' = <<a>> \o latest
      /\ UNCHANGED <<clock, pending, seen, topic, cache, left, asker>>
  BY DEF Opens
<1>2. /\ clock \in 0 .. Ticks /\ since \in [Alerts -> -1 .. Ticks + 1] /\ latest \in Seq(Alerts)
      /\ Ticks \in Nat /\ Len(latest) \in Nat
  BY NothingShown DEF SiInv, SiTypes
<1>3. \A i, j \in DOMAIN latest : latest[i] = latest[j] => i = j
  BY DEF SiInv, Listing
<1>4. /\ \A b \in Listed : since[b] \in 1 .. clock + 1
      /\ a \notin Listed
  BY <1>1 DEF SiInv, Listing
<1>5. /\ latest' \in Seq(Alerts) /\ Len(latest') = Len(latest) + 1
      /\ latest'[1] = a /\ \A i \in 2 .. Len(latest') : latest'[i] = latest[i - 1] /\ i - 1 \in DOMAIN latest
  <2>1. <<a>> \in Seq(Alerts) /\ Len(<<a>>) = 1 /\ <<a>>[1] = a
    OBVIOUS
  <2>2. /\ latest' \in Seq(Alerts) /\ Len(latest') = 1 + Len(latest)
        /\ \A i \in 1 .. 1 + Len(latest) :
             latest'[i] = IF i <= 1 THEN <<a>>[i] ELSE latest[i - 1]
    BY <1>1, <1>2, <2>1, ConcatProperties
  <2>3. latest'[1] = a
    BY <1>2, <2>1, <2>2
  <2>4. \A i \in 2 .. Len(latest') : latest'[i] = latest[i - 1] /\ i - 1 \in DOMAIN latest
    BY <1>2, <2>2
  <2> QED BY <1>2, <2>2, <2>3, <2>4
<1>6. DOMAIN latest' = 1 .. Len(latest')
  BY <1>5
<1>7. \A i \in DOMAIN latest' : i = 1 \/ (i \in 2 .. Len(latest') /\ latest'[i] \in Listed)
  <2> TAKE i \in DOMAIN latest'
  <2>1. i = 1 \/ i \in 2 .. Len(latest')
    BY <1>2, <1>5, <1>6
  <2>2. ASSUME i \in 2 .. Len(latest') PROVE latest'[i] \in Listed
    BY <1>5, <2>2 DEF Listed, ToSet
  <2> QED BY <2>1, <2>2
<1>8. Listed' \subseteq Listed \cup {a}
  BY <1>5, <1>7 DEF Listed, ToSet
<1>9. /\ since' \in [Alerts -> -1 .. Ticks + 1] /\ since'[a] = clock + 1
      /\ \A b \in Listed : since'[b] = since[b]
  <2>1. clock + 1 \in -1 .. Ticks + 1
    BY <1>2
  <2>2. Listed \subseteq Alerts
    BY <1>2 DEF Listed, ToSet
  <2> QED BY <1>1, <1>2, <1>4, <2>1, <2>2
<1>10. SiTypes'
  BY <1>1, <1>5, <1>9 DEF SiInv, SiTypes
<1>11. Listing'
  <2>1. ASSUME NEW i \in DOMAIN latest', NEW j \in DOMAIN latest', latest'[i] = latest'[j]
        PROVE  i = j
    <3>1. CASE i = 1 \/ j = 1
      BY <1>4, <1>5, <1>7, <2>1, <3>1
    <3>2. CASE i # 1 /\ j # 1
      <4>1. i \in 2 .. Len(latest') /\ j \in 2 .. Len(latest')
        BY <1>7, <3>2
      <4>2. i - 1 = j - 1
        BY <1>3, <1>5, <2>1, <4>1
      <4> QED BY <4>1, <4>2
    <3> QED BY <3>1, <3>2
  <2>2. \A b \in Listed' : since'[b] \in 1 .. clock' + 1
    BY <1>1, <1>2, <1>4, <1>8, <1>9
  <2> QED BY <2>1, <2>2 DEF Listing
<1>12. clock' >= clock /\ (seen => seen')
  BY <1>1, <1>2
<1> QED BY <1>1, <1>8, <1>9, <1>10, <1>11, <1>12, HouseKeeps

LEMMA AlertResolves == ASSUME SituationAssumption, SiInv, NEW a \in Alerts, Resolves(a) PROVE SiInv'
<1>1. /\ since' = [since EXCEPT ![a] = -1]
      /\ UNCHANGED <<clock, pending, seen, topic, cache, left, asker>>
  BY DEF Resolves
<1>2. PICK n \in DOMAIN latest : latest[n] = a /\ latest' = RemoveAt(latest, n)
  BY DEF Resolves
<1>3. /\ clock \in 0 .. Ticks /\ since \in [Alerts -> -1 .. Ticks + 1] /\ latest \in Seq(Alerts)
      /\ Ticks \in Nat /\ Len(latest) \in Nat /\ DOMAIN latest = 1 .. Len(latest)
  BY NothingShown DEF SiInv, SiTypes
<1>4. /\ \A i, j \in DOMAIN latest : latest[i] = latest[j] => i = j
      /\ \A b \in Listed : since[b] \in 1 .. clock + 1
  BY DEF SiInv, Listing
<1> DEFINE l == SubSeq(latest, 1, n - 1)
           r == SubSeq(latest, n + 1, Len(latest))
<1>5. /\ l \in Seq(Alerts) /\ Len(l) = n - 1 /\ \A i \in 1 .. n - 1 : l[i] = latest[i]
  <2>1. \A i \in 1 .. n - 1 : latest[i] \in Alerts
    BY <1>3
  <2>2. n - 1 \in Int /\ 1 \in Int
    BY <1>3
  <2>3. /\ l \in Seq(Alerts) /\ Len(l) = IF 1 <= n - 1 THEN (n - 1) - 1 + 1 ELSE 0
        /\ \A i \in 1 .. (n - 1) - 1 + 1 : l[i] = latest[1 + i - 1]
    BY <2>1, <2>2, SubSeqProperties
  <2> QED BY <1>3, <2>3
<1>6. /\ r \in Seq(Alerts) /\ Len(r) = Len(latest) - n
      /\ \A i \in 1 .. Len(latest) - n : r[i] = latest[n + i]
  <2>1. \A i \in n + 1 .. Len(latest) : latest[i] \in Alerts
    BY <1>3
  <2>2. n + 1 \in Int /\ Len(latest) \in Int
    BY <1>3
  <2>3. /\ r \in Seq(Alerts)
        /\ Len(r) = IF n + 1 <= Len(latest) THEN Len(latest) - (n + 1) + 1 ELSE 0
        /\ \A i \in 1 .. Len(latest) - (n + 1) + 1 : r[i] = latest[(n + 1) + i - 1]
    <3> DEFINE k == n + 1
               e == Len(latest)
    <3>1. k \in Int /\ e \in Int /\ \A i \in k .. e : latest[i] \in Alerts
      BY <2>1, <2>2
    <3> HIDE DEF k, e
    <3>2. /\ SubSeq(latest, k, e) \in Seq(Alerts)
          /\ Len(SubSeq(latest, k, e)) = IF k <= e THEN e - k + 1 ELSE 0
          /\ \A i \in 1 .. e - k + 1 : SubSeq(latest, k, e)[i] = latest[k + i - 1]
      BY <3>1, SubSeqProperties
    <3> QED BY <3>2 DEF k, e
  <2>4. n \in Nat /\ Len(latest) \in Nat /\ n <= Len(latest)
    BY <1>3
  <2>5. Len(latest) - (n + 1) + 1 = Len(latest) - n
    BY <2>4
  <2>6. Len(r) = Len(latest) - n
    BY <2>3, <2>4
  <2>7. ASSUME NEW i \in 1 .. Len(latest) - n PROVE r[i] = latest[n + i]
    <3>1. (n + 1) + i - 1 = n + i
      BY <2>4
    <3>2. r[i] = latest[(n + 1) + i - 1]
      BY <2>3, <2>5
    <3> QED BY <3>1, <3>2
  <2> QED BY <2>3, <2>6, <2>7
<1>7. latest' = l \o r
  BY <1>2 DEF RemoveAt
<1> HIDE DEF l, r
<1>8. /\ latest' \in Seq(Alerts) /\ DOMAIN latest' = 1 .. Len(latest) - 1
      /\ \A i \in 1 .. Len(latest) - 1 :
           latest'[i] = IF i < n THEN latest[i] ELSE latest[i + 1]
  <2>1. /\ latest' \in Seq(Alerts) /\ Len(latest') = Len(l) + Len(r)
        /\ \A i \in 1 .. Len(l) + Len(r) : latest'[i] = IF i <= Len(l) THEN l[i] ELSE r[i - Len(l)]
    BY <1>5, <1>6, <1>7, ConcatProperties
  <2>2. Len(l) + Len(r) = Len(latest) - 1
    BY <1>3, <1>5, <1>6
  <2>3. ASSUME NEW i \in 1 .. Len(latest) - 1
        PROVE  latest'[i] = IF i < n THEN latest[i] ELSE latest[i + 1]
    <3>1. CASE i < n
      <4>1. i <= Len(l) /\ i \in 1 .. n - 1
        BY <1>3, <1>5, <3>1
      <4> QED BY <1>5, <2>1, <2>2, <3>1, <4>1
    <3>2. CASE ~(i < n)
      <4>1. ~(i <= Len(l)) /\ i - Len(l) \in 1 .. Len(latest) - n /\ n + (i - Len(l)) = i + 1
        <5>1. n \in Nat /\ Len(latest) \in Nat /\ Len(l) = n - 1 /\ i \in Nat /\ i <= Len(latest) - 1
          BY <1>3, <1>5
        <5> QED BY <3>2, <5>1
      <4>2. latest'[i] = r[i - Len(l)]
        BY <2>1, <2>2, <4>1
      <4>3. r[i - Len(l)] = latest[n + (i - Len(l))]
        BY <1>6, <4>1
      <4> QED BY <3>2, <4>1, <4>2, <4>3
    <3> QED BY <3>1, <3>2
  <2> QED BY <2>1, <2>2, <2>3
<1>9. ASSUME NEW i \in DOMAIN latest'
      PROVE  \E k \in DOMAIN latest : /\ k # n /\ latest'[i] = latest[k]
                                      /\ k = IF i < n THEN i ELSE i + 1
  <2>3. n \in Nat /\ Len(latest) \in Nat /\ n <= Len(latest) /\ i \in 1 .. Len(latest) - 1
    BY <1>3, <1>8
  <2>1. CASE i < n
    <3>1. latest'[i] = latest[i]
      BY <1>8, <2>1, <2>3
    <3>2. i \in DOMAIN latest /\ i # n
      BY <1>3, <2>1, <2>3
    <3> QED BY <2>1, <3>1, <3>2
  <2>2. CASE ~(i < n)
    <3>1. latest'[i] = latest[i + 1]
      BY <1>8, <2>2, <2>3
    <3>2. i + 1 \in DOMAIN latest /\ i + 1 # n
      BY <1>3, <2>2, <2>3
    <3> QED BY <2>2, <3>1, <3>2
  <2> QED BY <2>1, <2>2
<1>10. Listed' \subseteq Listed \ {a}
  <2> SUFFICES ASSUME NEW i \in DOMAIN latest' PROVE latest'[i] \in Listed \ {a}
    BY DEF Listed, ToSet
  <2>1. PICK k \in DOMAIN latest : k # n /\ latest'[i] = latest[k]
    BY <1>9
  <2>2. latest[k] # a
    BY <1>2, <1>4, <2>1
  <2> QED BY <2>1, <2>2 DEF Listed, ToSet
<1>11. /\ since' \in [Alerts -> -1 .. Ticks + 1]
       /\ \A b \in Listed \ {a} : since'[b] = since[b]
  <2>1. -1 \in -1 .. Ticks + 1
    BY <1>3
  <2>2. Listed \subseteq Alerts
    BY <1>3 DEF Listed, ToSet
  <2> QED BY <1>1, <1>3, <2>1, <2>2
<1>12. SiTypes'
  BY <1>1, <1>8, <1>11 DEF SiInv, SiTypes
<1>13. Listing'
  <2>1. ASSUME NEW i \in DOMAIN latest', NEW j \in DOMAIN latest', latest'[i] = latest'[j]
        PROVE  i = j
    <3>1. PICK k \in DOMAIN latest : latest'[i] = latest[k] /\ k = IF i < n THEN i ELSE i + 1
      BY <1>9
    <3>2. PICK m \in DOMAIN latest : latest'[j] = latest[m] /\ m = IF j < n THEN j ELSE j + 1
      BY <1>9
    <3>3. k = m
      BY <1>4, <2>1, <3>1, <3>2
    <3>4. i \in Int /\ j \in Int /\ n \in Int
      BY <1>3, <1>8
    <3> QED BY <3>1, <3>2, <3>3, <3>4
  <2>2. \A b \in Listed' : since'[b] \in 1 .. clock' + 1
    BY <1>1, <1>4, <1>10, <1>11
  <2> QED BY <2>1, <2>2 DEF Listing
<1>14. clock' >= clock /\ (seen => seen')
  BY <1>1, <1>3
<1> QED BY <1>1, <1>10, <1>11, <1>12, <1>13, <1>14, HouseKeeps

LEMMA TheHouseGoesOn ==
  ASSUME SituationAssumption, SiInv,
         Wait \/ \E i \in Items : Raises(i) \/ Speaks({i}) \/ Speaks({})
  PROVE  SiInv'
<1>1. /\ UNCHANGED <<since, latest, cache, left, asker>>
      /\ (clock' = clock + 1 /\ clock < Ticks) \/ clock' = clock
      /\ seen' = seen \/ seen' = TRUE
  BY DEF Wait, Raises, Speaks
<1>2. pending' \subseteq Items /\ topic' \subseteq Items
  <2>1. CASE Wait
    BY <2>1 DEF Wait, SiInv, SiTypes
  <2>2. CASE \E i \in Items : Raises(i)
    BY <2>2 DEF Raises, SiInv, SiTypes
  <2>3. CASE \E i \in Items : Speaks({i}) \/ Speaks({})
    BY <2>3 DEF Speaks, SiInv, SiTypes
  <2> QED BY <2>1, <2>2, <2>3
<1>3. clock \in 0 .. Ticks /\ Ticks \in Nat /\ seen \in BOOLEAN
  BY NothingShown DEF SiInv, SiTypes
<1>4. clock' \in 0 .. Ticks /\ clock' >= clock /\ seen' \in BOOLEAN /\ (seen => seen')
  <2>1. clock' \in 0 .. Ticks /\ clock' >= clock
    BY <1>1, <1>3
  <2>2. seen' \in BOOLEAN /\ (seen => seen')
    BY <1>1, <1>3, Zenon
  <2> QED BY <2>1, <2>2
<1>5. SiTypes'
  BY <1>1, <1>2, <1>4 DEF SiInv, SiTypes
<1>6. Listed' = Listed
  BY <1>1 DEF Listed, ToSet
<1>7. Listing'
  <2>1. \A a \in Listed : since[a] \in 1 .. clock + 1
    BY DEF SiInv, Listing
  <2>2. \A a \in Listed : since[a] \in 1 .. clock' + 1
    BY <1>3, <1>4, <2>1
  <2> QED BY <1>1, <1>6, <2>2 DEF SiInv, Listing
<1> QED BY <1>1, <1>4, <1>5, <1>6, <1>7, HouseKeeps

\* The tokens are counted.
LEMMA Bill ==
  ASSUME SituationAssumption, NEW T \in SUBSET Ids
  PROVE  /\ IsFiniteSet(UNION {{i} \X (1 .. Cost[i]) : i \in T}) /\ Spent(T) \in Nat
         /\ IsFiniteSet(T)
<1>1. /\ IsFiniteSet(Alerts \cup Items) /\ Cost \in [Ids -> Nat \ {0}]
  BY DEF SituationAssumption, Ids
<1>2. IsFiniteSet(T)
  <2>1. IsFiniteSet((Alerts \cup Items) \cup {"presence"})
    BY <1>1, FS_AddElement
  <2>2. IsFiniteSet(((Alerts \cup Items) \cup {"presence"}) \cup {"house"})
    BY <2>1, FS_AddElement
  <2>3. ((Alerts \cup Items) \cup {"presence"}) \cup {"house"} = Ids
    BY DEF Ids
  <2> QED BY <2>2, <2>3, FS_Subset
<1> DEFINE F == {{i} \X (1 .. Cost[i]) : i \in T}
           g == [i \in T |-> {i} \X (1 .. Cost[i])]
<1>3. IsFiniteSet(F)
  <2>1. g \in Surjection(T, F)
    BY DEF Surjection
  <2> QED BY <1>2, <2>1, FS_Surjection
<1>4. \A U \in F : IsFiniteSet(U)
  <2> SUFFICES ASSUME NEW i \in T PROVE IsFiniteSet({i} \X (1 .. Cost[i]))
    OBVIOUS
  <2>1. Cost[i] \in Int /\ 1 \in Int
    BY <1>1
  <2>2. IsFiniteSet(1 .. Cost[i]) /\ IsFiniteSet({i})
    BY <2>1, FS_Interval, FS_Singleton
  <2> QED BY <2>2, FS_Product
<1>5. IsFiniteSet(UNION F)
  BY <1>3, <1>4, FS_UNION
<1> QED BY <1>2, <1>5, FS_CardinalityType DEF Spent

LEMMA OneMore ==
  ASSUME SituationAssumption, NEW T \in SUBSET Ids, NEW i \in Ids, i \notin T
  PROVE  Spent(T \cup {i}) = Spent(T) + Cost[i]
<1> DEFINE A == UNION {{j} \X (1 .. Cost[j]) : j \in T}
           B == {i} \X (1 .. Cost[i])
<1>1. UNION {{j} \X (1 .. Cost[j]) : j \in T \cup {i}} = A \cup B
  OBVIOUS
<1>2. A \cap B = {}
  OBVIOUS
<1>3. Cost[i] \in Nat \ {0}
  BY DEF SituationAssumption, Ids
<1>4. IsFiniteSet(A) /\ Cardinality(A) \in Nat
  BY Bill DEF Spent
<1>5. IsFiniteSet(B) /\ Cardinality(B) = Cost[i]
  <2> DEFINE c == Cost[i]
             C == 1 .. c
             I == {i}
  <2>1. c \in Nat \ {0} /\ c \in Int /\ 1 \in Int
    BY <1>3
  <2> HIDE DEF c
  <2>2. IsFiniteSet(C) /\ Cardinality(C) = IF 1 > c THEN 0 ELSE c - 1 + 1
    BY <2>1, FS_Interval
  <2>3. Cardinality(C) = c
    BY <2>1, <2>2
  <2>4. IsFiniteSet(I) /\ Cardinality(I) = 1
    BY FS_Singleton
  <2> HIDE DEF C, I
  <2>5. IsFiniteSet(I \X C) /\ Cardinality(I \X C) = Cardinality(I) * Cardinality(C)
    BY <2>2, <2>4, FS_Product
  <2>6. Cardinality(I \X C) = c
    BY <2>1, <2>3, <2>4, <2>5
  <2> QED BY <2>5, <2>6 DEF c, C, I
<1>6. Cardinality(A \cup B) = Cardinality(A) + Cardinality(B) - Cardinality(A \cap B)
  BY <1>4, <1>5, FS_Union
<1>7. Cardinality(A \cap B) = 0
  BY <1>2, FS_EmptySet
<1>8. Cardinality(A \cup B) = Cardinality(A) + Cost[i]
  <2> HIDE DEF A, B
  <2> QED BY <1>3, <1>4, <1>5, <1>6, <1>7
<1> QED BY <1>1, <1>8 DEF Spent

\* A set of numbers below a bound has a largest one.
LEMMA Largest ==
  ASSUME NEW S \in SUBSET Nat, S # {}, NEW n \in Nat, \A k \in S : k <= n
  PROVE  \E k \in S : \A m \in S : m <= k
<1> DEFINE D == {d \in 0 .. n : n - d \in S}
           R == OpToRel(<, Nat)
<1>1. D \subseteq Nat /\ D # {}
  <2>1. PICK k \in S : TRUE
    OBVIOUS
  <2>2. n - k \in D
    BY <2>1
  <2> QED BY <2>2
<1>2. PICK d \in D : \A e \in D : ~(<<e, d>> \in R)
  <2> HIDE DEF D, R
  <2> QED BY <1>1, NatLessThanWellFounded, WFMin DEF R
<1>3. \A e \in D : ~(e < d)
  BY <1>1, <1>2 DEF OpToRel
<1>4. n - d \in S /\ d \in Nat
  OBVIOUS
<1>5. ASSUME NEW m \in S PROVE m <= n - d
  <2>1. n - m \in D /\ m \in Nat /\ m <= n
    OBVIOUS
  <2>2. ~(n - m < d)
    BY <1>3, <2>1
  <2> QED BY <1>4, <2>1, <2>2
<1> QED BY <1>4, <1>5

\* The place of everything is a number, and that of an id in the order is its own.
LEMMA Places ==
  ASSUME SituationAssumption, NEW f
  PROVE  /\ \A i : Place(i, f) \in 0 .. 7
         /\ \A i \in Ids : Place(i, f) = 0 <=> i \in Critical
<1>1. \A i : Relevance(i, f) \in 0 .. 3
  BY DEF Relevance
<1>2. ASSUME NEW i PROVE Place(i, f) \in 0 .. 7 /\ (Place(i, f) = 0 <=> i \in Critical)
  <2>1. Relevance(i, f) \in 0 .. 3
    BY <1>1
  <2>2. 6 - Relevance(i, f) \in 3 .. 6
    BY <2>1
  <2>3. CASE i \in Critical
    BY <2>3 DEF Place
  <2>4. CASE i \notin Critical
    <3>1. Place(i, f) \in 1 .. 7
      BY <2>2, <2>4 DEF Place
    <3> QED BY <2>4, <3>1
  <2> QED BY <2>3, <2>4
<1> QED BY <1>2

\* What is not critical and kept has a last one, and all that is kept comes before it.
LEMMA LastKept ==
  ASSUME SituationAssumption, NEW T \in SUBSET Ids, NEW f, ~(T \subseteq Critical)
  PROVE  \E i \in T \ Critical : \A j \in T : j = i \/ (Before(j, i, f) /\ j # i)
<1> DEFINE N == T \ Critical
           P == {Place(j, f) : j \in N}
<1>1. N # {} /\ N \subseteq Ids
  OBVIOUS
<1>2. PICK p \in P : \A m \in P : m <= p
  <2>1. P \in SUBSET Nat /\ \A k \in P : k <= 7
    BY Places
  <2>2. P # {} /\ 7 \in Nat
    BY <1>1
  <2> HIDE DEF P
  <2> QED BY <2>1, <2>2, Largest
<1> DEFINE M == {j \in N : Place(j, f) = p}
           X == {x \in DOMAIN ById : ById[x] \in M}
<1>3. ById \in Seq(Ids) /\ Ids = {ById[x] : x \in DOMAIN ById}
      /\ \A x, y \in DOMAIN ById : ById[x] = ById[y] => x = y
  BY DEF SituationAssumption, ToSet, IsInjective, Ids
<1>4. DOMAIN ById = 1 .. Len(ById) /\ Len(ById) \in Nat
  BY <1>3
<1>5. X # {}
  <2>1. PICK j \in N : p = Place(j, f)
    OBVIOUS
  <2>2. PICK x \in DOMAIN ById : ById[x] = j
    BY <1>1, <1>3, <2>1
  <2> QED BY <2>1, <2>2
<1>6. PICK x \in X : \A y \in X : y <= x
  <2>1. X \in SUBSET Nat /\ \A k \in X : k <= Len(ById)
    BY <1>4
  <2> HIDE DEF X
  <2> QED BY <1>4, <1>5, <2>1, Largest
<1>7. ById[x] \in N /\ Place(ById[x], f) = p
  OBVIOUS
<1>8. ASSUME NEW j \in T, j # ById[x] PROVE Before(j, ById[x], f)
  <2>1. Place(j, f) \in 0 .. 7 /\ p \in 1 .. 7
    <3>1. p \in 0 .. 7 /\ p # 0
      BY <1>1, <1>7, Places
    <3> QED BY <3>1, Places
  <2>2. CASE j \in Critical
    <3>1. Place(j, f) = 0
      BY <2>2, Places
    <3> QED BY <1>7, <2>1, <3>1 DEF Before
  <2>3. CASE j \notin Critical
    <3>1. Place(j, f) <= p
      BY <1>2, <2>3
    <3>2. CASE Place(j, f) < p
      BY <1>7, <3>2 DEF Before
    <3>3. CASE Place(j, f) = p
      <4>1. PICK y \in DOMAIN ById : ById[y] = j
        BY <1>3
      <4>2. y \in X /\ y # x
        BY <1>8, <2>3, <3>3, <4>1
      <4>3. y < x
        BY <1>4, <1>6, <4>2
      <4> QED BY <1>7, <3>3, <4>1, <4>3 DEF Before
    <3> QED BY <2>1, <3>1, <3>2, <3>3
  <2> QED BY <2>2, <2>3
<1> QED BY <1>7, <1>8

\* What select_items keeps.
LEMMA SelectedIs ==
  ASSUME SituationAssumption, NEW C \in SUBSET Ids, NEW T \in SUBSET C, NEW f, Selected(T, C, f)
  PROVE  /\ Critical \cap C \subseteq T
         /\ Spent(T) > Budget => T \subseteq Critical
<1>1. Critical \cap C \subseteq T
  BY DEF Selected
<1>2. ASSUME ~(T \subseteq Critical) PROVE Spent(T) <= Budget
  <2>1. PICK i \in T \ Critical : \A j \in T : j = i \/ (Before(j, i, f) /\ j # i)
    BY <1>2, LastKept
  <2> DEFINE B == {j \in T : Before(j, i, f)}
  <2>2. Spent(B) + Cost[i] <= Budget
    BY <2>1 DEF Selected
  <2>3. i \notin B
    <3>1. ~Before(i, i, f)
      <4>1. Place(i, f) \in 0 .. 7
        BY Places
      <4>2. ~(Place(i, f) < Place(i, f))
        BY <4>1
      <4>3. \A m, n \in DOMAIN ById : ~(m < n /\ ById[m] = i /\ ById[n] = i)
        <5>1. ById \in Seq(Ids) /\ \A x, y \in DOMAIN ById : ById[x] = ById[y] => x = y
          BY DEF SituationAssumption, IsInjective, Ids
        <5>2. DOMAIN ById \subseteq Nat
          BY <5>1
        <5>3. ASSUME NEW m \in DOMAIN ById, NEW n \in DOMAIN ById, m < n, ById[m] = i, ById[n] = i
              PROVE  FALSE
          <6>1. m = n
            BY <5>1, <5>3
          <6> QED BY <5>2, <5>3, <6>1
        <5> QED BY <5>3
      <4> QED BY <4>2, <4>3 DEF Before
    <3> QED BY <3>1
  <2>4. T = B \cup {i}
    BY <2>1
  <2>5. B \in SUBSET Ids /\ i \in Ids
    OBVIOUS
  <2> HIDE DEF B
  <2>6. Spent(T) = Spent(B) + Cost[i]
    BY <2>3, <2>4, <2>5, OneMore
  <2> QED BY <2>2, <2>6
<1>3. Spent(T) \in Nat /\ Budget \in Nat
  BY Bill DEF SituationAssumption
<1> QED BY <1>1, <1>2, <1>3

\* One asker's question moves on.
LEMMA AnswerKeeps ==
  ASSUME SituationAssumption, SiInv, NEW q \in Askers, NEW r \in Question,
         UNCHANGED <<clock, since, latest, pending, seen, topic>>,
         asker' = [asker EXCEPT ![q] = r], r.asked <= clock,
         cache' \in [at : -1 .. Ticks, picture : Picture], cache'.at <= clock,
         r.pc = "attention" /\ ~r.crowded =>
           \A a \in Critical \cap Listed : since[a] - 1 < r.asked => a \in r.found,
         ~cache'.picture.crowded =>
           \A a \in Critical \cap Listed : since[a] - 1 < cache'.at => a \in cache'.picture.items,
         r.pc = "told" /\ ~r.told.crowded =>
           \A a \in Critical \cap Listed : since[a] - 1 <= r.asked - Life => a \in r.told.items,
         Modest(cache'.picture), Modest(r.told), r.focus.present => seen
  PROVE  SiInv'
<1>1. asker \in [Askers -> Question]
  BY DEF SiInv, SiTypes
<1>2. asker'[q] = r /\ \A p \in Askers : p # q => asker'[p] = asker[p]
  BY <1>1
<1>3. SiTypes'
  <2>1. asker' \in [Askers -> Question]
    BY <1>1
  <2> QED BY <2>1 DEF SiInv, SiTypes
<1>4. Listed' = Listed
  BY DEF Listed, ToSet
<1>5. Listing'
  BY <1>4 DEF SiInv, Listing
<1>6. Asked'
  <2>1. \A p \in Askers : asker'[p].asked <= clock
    BY <1>2 DEF SiInv, Asked
  <2> QED BY <2>1 DEF Asked
<1>7. Found'
  <2>1. ASSUME NEW p \in Askers, asker'[p].pc = "attention", ~asker'[p].crowded,
               NEW a \in Critical \cap Listed, since[a] - 1 < asker'[p].asked
        PROVE  a \in asker'[p].found
    <3>1. CASE p = q
      BY <1>2, <2>1, <3>1
    <3>2. CASE p # q
      BY <1>2, <2>1, <3>2 DEF SiInv, Found
    <3> QED BY <3>1, <3>2
  <2>2. ASSUME NEW p \in Askers, NEW a \in Critical, asker'[p].pc = "told",
               ~asker'[p].told.crowded, a \in Listed, since[a] - 1 <= asker'[p].asked - Life
        PROVE  a \in asker'[p].told.items
    <3>1. CASE p = q
      BY <1>2, <2>2, <3>1
    <3>2. CASE p # q
      BY <1>2, <2>2, <3>2 DEF SiInv, Found, CriticalIsShown, Told, Listed
    <3> QED BY <3>1, <3>2
  <2>3. CriticalIsShown'
    <3> SUFFICES ASSUME NEW p \in Askers, NEW a \in Critical, asker'[p].pc = "told",
                        ~asker'[p].told.crowded, a \in Listed',
                        since'[a] - 1 <= asker'[p].asked - Life
                 PROVE  a \in asker'[p].told.items
      BY DEF CriticalIsShown, Told, Listed
    <3> QED BY <1>4, <2>2
  <2> QED BY <1>4, <2>1, <2>3 DEF Found
<1>8. Pictures'
  <2>1. \A p : Modest(p) <=> Modest(p)'
    BY DEF Modest
  <2>2. \A p \in Askers : Modest(asker'[p].told) /\ (asker'[p].focus.present => seen)
    BY <1>2 DEF SiInv, Pictures
  <2>3. seen' = seen
    OBVIOUS
  <2> QED BY <2>2, <2>3 DEF Pictures, Modest
<1> QED BY <1>3, <1>5, <1>6, <1>7, <1>8 DEF SiInv

\* A question and the fields of it.
LEMMA QuestionIs ==
  ASSUME SituationAssumption, SiInv, NEW q \in Askers
  PROVE  /\ asker[q] \in Question /\ asker \in [Askers -> Question]
         /\ asker[q].asked \in 0 .. Ticks /\ asker[q].asked <= clock
         /\ asker[q].focus \in [present : BOOLEAN, about : SUBSET Items]
         /\ asker[q].found \subseteq Alerts /\ asker[q].crowded \in BOOLEAN
         /\ asker[q].told \in Picture /\ Modest(asker[q].told)
         /\ asker[q].focus.present => seen
         /\ clock \in 0 .. Ticks /\ Ticks \in Nat /\ cache \in [at : -1 .. Ticks, picture : Picture]
         /\ cache.at <= clock /\ Modest(cache.picture) /\ cache.picture \in Picture
         /\ ~cache.picture.crowded =>
              \A a \in Critical \cap Listed : since[a] - 1 < cache.at => a \in cache.picture.items
         /\ \A a \in Listed : since[a] \in 1 .. clock + 1
<1>1. /\ asker \in [Askers -> Question] /\ clock \in 0 .. Ticks
      /\ cache \in [at : -1 .. Ticks, picture : Picture] /\ Ticks \in Nat
  BY NothingShown DEF SiInv, SiTypes
<1>2. asker[q] \in Question
  BY <1>1
<1>3. /\ asker[q].asked \in 0 .. Ticks
      /\ asker[q].focus \in [present : BOOLEAN, about : SUBSET Items]
      /\ asker[q].found \subseteq Alerts /\ asker[q].crowded \in BOOLEAN
      /\ asker[q].told \in Picture
  BY <1>2 DEF Question
<1>4. asker[q].asked <= clock /\ cache.at <= clock
  BY DEF SiInv, Asked
<1>5. Modest(asker[q].told) /\ (asker[q].focus.present => seen) /\ Modest(cache.picture)
  BY DEF SiInv, Pictures
<1>6. ~cache.picture.crowded =>
        \A a \in Critical \cap Listed : since[a] - 1 < cache.at => a \in cache.picture.items
  BY DEF SiInv, Found
<1>7. cache.picture \in Picture
  BY <1>1
<1> QED BY <1>1, <1>2, <1>3, <1>4, <1>5, <1>6, <1>7 DEF SiInv, Listing

LEMMA QuestionAsked == ASSUME SituationAssumption, SiInv, NEW q \in Askers, Ask(q) PROVE SiInv'
<1> DEFINE t == IF Kept THEN cache.picture ELSE NoPicture
           p == IF Kept THEN "told" ELSE "focus"
           r == [NoAnswer EXCEPT !.asked = clock, !.pc = p, !.told = t]
<1>1. /\ UNCHANGED <<clock, since, latest, pending, seen, topic, cache>>
      /\ asker' = [asker EXCEPT ![q] = r]
  BY DEF Ask
<1>2. t \in Picture /\ Modest(t) /\ p \in {"told", "focus"} /\ (p = "told" => Kept /\ t = cache.picture)
  BY QuestionIs, NothingShown
<1> HIDE DEF t, p
<1>3. /\ r \in Question /\ r.pc = p /\ r.asked = clock /\ r.told = t
      /\ ~r.focus.present
  <2>1. clock \in 0 .. Ticks
    BY QuestionIs
  <2>2. /\ NoAnswer \in [pc : {"rest", "focus", "alerts", "attention", "told", "own"}, asked : 0 .. Ticks,
             focus : [present : BOOLEAN, about : SUBSET Items], found : SUBSET Alerts,
             crowded : BOOLEAN, told : Picture]
        /\ NoAnswer.focus.present = FALSE
    BY NothingShown DEF Question, NoAnswer
  <2>3. r \in Question
    BY <1>2, <2>1, <2>2 DEF Question
  <2>4. r.pc = p /\ r.asked = clock /\ r.told = t /\ r.focus = NoAnswer.focus
    BY <2>2
  <2> QED BY <2>2, <2>3, <2>4
<1> HIDE DEF r
<1>4. ASSUME r.pc = "told", ~r.told.crowded, NEW a \in Critical \cap Listed,
             since[a] - 1 <= r.asked - Life
      PROVE  a \in r.told.items
  <2>1. Kept /\ t = cache.picture
    BY <1>2, <1>3, <1>4
  <2>2. clock - cache.at < Life
    BY <2>1 DEF Kept
  <2>3. clock \in Nat /\ cache.at \in Int /\ Life \in Nat /\ since[a] \in Int
    <3>1. clock \in 0 .. Ticks /\ cache.at \in -1 .. Ticks /\ since[a] \in 1 .. clock + 1
      BY QuestionIs
    <3> QED BY <3>1, NothingShown
  <2>4. since[a] - 1 < cache.at
    BY <1>3, <1>4, <2>2, <2>3
  <2> QED BY <1>3, <1>4, <2>1, <2>4, QuestionIs
<1>5. r.asked <= clock /\ r.pc # "attention"
  <2>1. clock \in Nat
    BY QuestionIs
  <2> QED BY <1>2, <1>3, <2>1
<1>6. /\ cache' \in [at : -1 .. Ticks, picture : Picture] /\ cache'.at <= clock
      /\ Modest(cache'.picture)
      /\ ~cache'.picture.crowded =>
           \A a \in Critical \cap Listed : since[a] - 1 < cache'.at => a \in cache'.picture.items
  BY <1>1, QuestionIs
<1> QED BY <1>1, <1>2, <1>3, <1>4, <1>5, <1>6, AnswerKeeps

\* A question that goes on and leaves the picture that is kept alone.
LEMMA StepKeeps ==
  ASSUME SituationAssumption, SiInv, NEW q \in Askers, NEW r \in Question,
         UNCHANGED <<clock, since, latest, pending, seen, topic, cache>>,
         asker' = [asker EXCEPT ![q] = r], r.asked <= clock, r.pc # "told",
         r.pc = "attention" /\ ~r.crowded =>
           \A a \in Critical \cap Listed : since[a] - 1 < r.asked => a \in r.found,
         Modest(r.told), r.focus.present => seen
  PROVE  SiInv'
<1>1. /\ cache' \in [at : -1 .. Ticks, picture : Picture] /\ cache'.at <= clock
      /\ Modest(cache'.picture)
      /\ ~cache'.picture.crowded =>
           \A a \in Critical \cap Listed : since[a] - 1 < cache'.at => a \in cache'.picture.items
  BY QuestionIs
<1>2. r.pc = "told" /\ ~r.told.crowded =>
        \A a \in Critical \cap Listed : since[a] - 1 <= r.asked - Life => a \in r.told.items
  OBVIOUS
<1> QED BY <1>1, <1>2, AnswerKeeps

LEMMA FocusRead == ASSUME SituationAssumption, SiInv, NEW q \in Askers, ReadFocus(q) PROVE SiInv'
<1> DEFINE f == [present |-> seen, about |-> topic]
           r == [asker[q] EXCEPT !.pc = "alerts", !.focus = f]
<1>1. UNCHANGED <<clock, since, latest, pending, seen, topic, cache>>
  BY DEF ReadFocus
<1>2. asker' = [asker EXCEPT ![q] = r]
  BY QuestionIs DEF ReadFocus
<1>3. f \in [present : BOOLEAN, about : SUBSET Items] /\ f.present = seen
  BY DEF SiInv, SiTypes
<1> HIDE DEF f
<1>4. /\ r \in Question /\ r.pc = "alerts" /\ r.asked = asker[q].asked /\ r.told = asker[q].told
      /\ r.focus = f
  BY <1>3, QuestionIs DEF Question
<1> HIDE DEF r
<1>5. r.pc # "told" /\ r.pc # "attention" /\ r.asked <= clock /\ Modest(r.told)
      /\ (r.focus.present => seen)
  BY <1>3, <1>4, QuestionIs
<1> QED BY <1>1, <1>2, <1>4, <1>5, StepKeeps

LEMMA AlertsRead == ASSUME SituationAssumption, SiInv, NEW q \in Askers, ReadAlerts(q) PROVE SiInv'
<1> DEFINE s == ToSet(FirstOf(latest, Section))
           c == Len(latest) > Section
           r == [asker[q] EXCEPT !.pc = "attention", !.found = s, !.crowded = c]
<1>1. UNCHANGED <<clock, since, latest, pending, seen, topic, cache>>
  BY DEF ReadAlerts
<1>2. asker' = [asker EXCEPT ![q] = r]
  BY QuestionIs DEF ReadAlerts
<1>3. s \subseteq Alerts /\ c \in BOOLEAN /\ (~c => s = Listed)
  <2>1. latest \in Seq(Alerts) /\ Len(latest) \in Nat /\ Section \in Nat
    BY DEF SiInv, SiTypes, SituationAssumption
  <2>2. c \in BOOLEAN
    OBVIOUS
  <2> DEFINE k == IF Len(latest) < Section THEN Len(latest) ELSE Section
  <2>3. k \in 0 .. Len(latest) /\ (~c => k = Len(latest))
    BY <2>1
  <2>4. FirstOf(latest, Section) = SubSeq(latest, 1, k)
    BY DEF FirstOf
  <2> HIDE DEF k, c
  <2>5. k \in Int /\ 1 \in Int /\ \A i \in 1 .. k : latest[i] \in Alerts
    BY <2>1, <2>3
  <2>6. /\ FirstOf(latest, Section) \in Seq(Alerts)
        /\ Len(FirstOf(latest, Section)) = IF 1 <= k THEN k - 1 + 1 ELSE 0
        /\ \A i \in 1 .. k - 1 + 1 : FirstOf(latest, Section)[i] = latest[1 + i - 1]
    BY <2>4, <2>5, SubSeqProperties
  <2>7. /\ DOMAIN FirstOf(latest, Section) = 1 .. k
        /\ \A i \in 1 .. k : FirstOf(latest, Section)[i] = latest[i]
    BY <2>1, <2>3, <2>6
  <2>8. s \subseteq Alerts
    BY <2>5, <2>7 DEF ToSet
  <2>9. ~c => s = Listed
    BY <2>1, <2>3, <2>7 DEF ToSet, Listed
  <2> QED BY <2>2, <2>8, <2>9 DEF c
<1> HIDE DEF s, c
<1>4. /\ r \in Question /\ r.pc = "attention" /\ r.asked = asker[q].asked /\ r.told = asker[q].told
      /\ r.focus = asker[q].focus /\ r.found = s /\ r.crowded = c
  BY <1>3, QuestionIs DEF Question
<1> HIDE DEF r
<1>5. r.pc # "told" /\ r.asked <= clock /\ Modest(r.told) /\ (r.focus.present => seen)
  BY <1>4, QuestionIs
<1>6. r.pc = "attention" /\ ~r.crowded =>
        \A a \in Critical \cap Listed : since[a] - 1 < r.asked => a \in r.found
  BY <1>3, <1>4
<1> QED BY <1>1, <1>2, <1>4, <1>5, <1>6, StepKeeps

LEMMA FallsBack == ASSUME SituationAssumption, SiInv, NEW q \in Askers, FallBack(q) PROVE SiInv'
<1> DEFINE r == [NoAnswer EXCEPT !.pc = "own"]
<1>1. UNCHANGED <<clock, since, latest, pending, seen, topic, cache>> /\ asker' = [asker EXCEPT ![q] = r]
  BY DEF FallBack
<1>2. /\ r \in Question /\ r.pc = "own" /\ r.asked = 0 /\ r.told = NoPicture /\ ~r.focus.present
  <2>1. NoAnswer \in Question /\ NoAnswer.asked = 0 /\ NoAnswer.told = NoPicture
        /\ NoAnswer.focus.present = FALSE
    BY NothingShown DEF NoAnswer
  <2> QED BY <2>1 DEF Question
<1> HIDE DEF r
<1>3. r.asked <= clock /\ Modest(r.told) /\ r.pc # "told" /\ r.pc # "attention"
  <2>1. clock \in Nat
    BY QuestionIs
  <2> QED BY <1>2, <2>1, NothingShown
<1> QED BY <1>1, <1>2, <1>3, StepKeeps

LEMMA AttentionRead ==
  ASSUME SituationAssumption, SiInv, NEW q \in Askers, ReadAttention(q) PROVE SiInv'
<1> DEFINE C == Candidates(q)
           f == asker[q].focus
<1>1. PICK T \in SUBSET C :
        LET picture == [items |-> T, used |-> Spent(T), crowded |-> asker[q].crowded] IN
        /\ Selected(T, C, f)
        /\ asker' = [asker EXCEPT ![q] = [NoAnswer EXCEPT !.pc = "told", !.asked = asker[q].asked,
                                                 !.told = picture]]
        /\ cache' = [at |-> asker[q].asked, picture |-> picture]
  BY DEF ReadAttention
<1> DEFINE p == [items |-> T, used |-> Spent(T), crowded |-> asker[q].crowded]
           r == [NoAnswer EXCEPT !.pc = "told", !.asked = asker[q].asked, !.told = p]
<1>2. /\ Selected(T, C, f) /\ asker' = [asker EXCEPT ![q] = r]
      /\ cache' = [at |-> asker[q].asked, picture |-> p]
  BY <1>1
<1>3. UNCHANGED <<clock, since, latest, pending, seen, topic>> /\ asker[q].pc = "attention"
  BY DEF ReadAttention
<1>4. /\ C \in SUBSET Ids /\ asker[q].found \subseteq C
      /\ \A i \in C \cap Passive : f.present
  <2>1. /\ asker[q].found \subseteq Alerts /\ Passive \subseteq Items /\ Alerts \cap Items = {}
        /\ {"presence", "house"} \cap (Alerts \cup Items) = {}
    BY QuestionIs DEF SituationAssumption
  <2>2. pending \subseteq Items
    BY DEF SiInv, SiTypes
  <2>3. Raisable(f) \subseteq Items /\ \A i \in Raisable(f) \cap Passive : f.present
    BY <2>2 DEF Raisable
  <2>4. C = asker[q].found \cup Raisable(f) \cup {"house"}
            \cup (IF f.present THEN {"presence"} ELSE {})
    BY DEF Candidates, OfTheHouse
  <2>5. C \in SUBSET Ids /\ asker[q].found \subseteq C
    BY <2>1, <2>3, <2>4 DEF Ids
  <2>6. ASSUME NEW i \in C \cap Passive PROVE f.present
    <3>1. i \in Items /\ i \notin Alerts /\ i # "house" /\ i # "presence"
      BY <2>1, <2>6
    <3>2. i \in Raisable(f) \cap Passive
      BY <2>1, <2>4, <2>6, <3>1
    <3> QED BY <2>3, <3>2
  <2> QED BY <2>5, <2>6
<1> HIDE DEF C
<1>5. /\ T \in SUBSET Ids /\ T \subseteq C /\ Critical \cap C \subseteq T
      /\ Spent(T) > Budget => T \subseteq Critical
  BY <1>2, <1>4, SelectedIs
<1>6. p \in Picture /\ p.items = T /\ p.used = Spent(T) /\ p.crowded = asker[q].crowded
  BY <1>5, Bill, QuestionIs DEF Picture
<1>7. Modest(p)
  <2>1. p.used > Budget => p.items \subseteq Critical
    BY <1>5, <1>6
  <2>2. p.items \cap Passive # {} => seen
    BY <1>4, <1>5, <1>6, QuestionIs
  <2> QED BY <2>1, <2>2 DEF Modest
<1>8. ~p.crowded => \A a \in Critical \cap Listed : since[a] - 1 < asker[q].asked => a \in p.items
  <2>1. ~asker[q].crowded =>
          \A a \in Critical \cap Listed : since[a] - 1 < asker[q].asked => a \in asker[q].found
    BY <1>3 DEF SiInv, Found
  <2> QED BY <1>4, <1>5, <1>6, <2>1
<1> HIDE DEF p
<1>9. /\ r \in Question /\ r.pc = "told" /\ r.asked = asker[q].asked /\ r.told = p
      /\ ~r.focus.present
  <2>1. NoAnswer \in Question /\ NoAnswer.focus.present = FALSE
    BY NothingShown DEF NoAnswer
  <2>2. asker[q].asked \in 0 .. Ticks
    BY QuestionIs
  <2> QED BY <1>6, <2>1, <2>2 DEF Question
<1> HIDE DEF r
<1>10. /\ cache' \in [at : -1 .. Ticks, picture : Picture] /\ cache'.at = asker[q].asked
       /\ cache'.picture = p /\ asker[q].asked <= clock
  <2>1. asker[q].asked \in -1 .. Ticks /\ asker[q].asked <= clock
    <3>1. asker[q].asked \in 0 .. Ticks /\ Ticks \in Nat /\ asker[q].asked <= clock
      BY QuestionIs
    <3> QED BY <3>1
  <2> QED BY <1>2, <1>6, <2>1
<1>11. ASSUME ~r.told.crowded, NEW a \in Critical \cap Listed, since[a] - 1 <= r.asked - Life
       PROVE  a \in r.told.items
  <2>1. since[a] \in Int /\ asker[q].asked \in Int /\ Life \in Nat \ {0}
    <3>1. since[a] \in 1 .. clock + 1 /\ asker[q].asked \in 0 .. Ticks
      BY QuestionIs
    <3> QED BY <3>1, NothingShown
  <2>2. since[a] - 1 < asker[q].asked
    BY <1>9, <1>11, <2>1
  <2> QED BY <1>8, <1>9, <1>11, <2>2
<1> QED BY <1>2, <1>3, <1>7, <1>8, <1>9, <1>10, <1>11, AnswerKeeps

LEMMA SiStutter == ASSUME SituationAssumption, SiInv, UNCHANGED sitVars PROVE SiInv'
<1> USE DEF sitVars
<1>1. SiTypes' /\ Listing' /\ Asked'
  BY DEF SiInv, SiTypes, Listing, Listed, Asked
<1>2. CriticalIsShown'
  BY DEF SiInv, Found, CriticalIsShown, Told
<1>3. Found'
  BY <1>2 DEF SiInv, Found, Listed
<1>4. Pictures'
  BY DEF SiInv, Pictures, Modest
<1> QED BY <1>1, <1>3, <1>4 DEF SiInv

LEMMA SiStep == ASSUME SituationAssumption, SiInv, [SiNext]_sitVars PROVE SiInv'
<1>1. CASE UNCHANGED sitVars
  BY <1>1, SiStutter
<1>2. CASE SiNext
  <2>1. ASSUME NEW q \in Askers, Ask(q) \/ Answer(q) PROVE SiInv'
    BY <2>1, QuestionAsked, FocusRead, AlertsRead, AttentionRead, FallsBack DEF Answer
  <2>2. CASE Wait \/ (\E a \in Alerts : Opens(a) \/ Resolves(a))
             \/ (\E i \in Items : Raises(i) \/ Speaks({i}) \/ Speaks({}))
    BY <2>2, AlertOpens, AlertResolves, TheHouseGoesOn
  <2> QED BY <1>2, <2>1, <2>2 DEF SiNext
<1> QED BY <1>1, <1>2

LEMMA SiEnds ==
  ASSUME SituationAssumption, SiInv PROVE SituationTypeOK /\ CriticalIsShown /\ BudgetHolds
<1>1. SituationTypeOK
  <2>1. \A q \in Askers : asker[q].pc \in {"rest", "focus", "alerts", "attention", "told", "own"}
    <3> TAKE q \in Askers
    <3> QED BY QuestionIs DEF Question
  <2>2. ToSet(latest) \subseteq Alerts
    BY DEF SiInv, SiTypes, ToSet
  <2> QED BY <2>1, <2>2 DEF SiInv, SiTypes, SituationTypeOK
<1>2. CriticalIsShown
  BY DEF SiInv, Found
<1>3. BudgetHolds
  BY DEF SiInv, Pictures, Modest, BudgetHolds, Told
<1> QED BY <1>1, <1>2, <1>3

(* What the agent answers from, whatever the budget, the life of the cache and the  *)
(* alerts that come and go between the queries: the picture shows every critical    *)
(* alert that was open for the life of the cache when the question came (if the     *)
(* section held the open alerts), is over the budget by critical alerts alone, and  *)
(* holds a remark to be made in passing only once somebody was seen                 *)
(* (awareness/context/broker.py, services/awareness_client.py).                     *)
THEOREM CriticalStaysInThePicture ==
  ASSUME SituationAssumption
  PROVE  SiSpec => [](SituationTypeOK /\ CriticalIsShown /\ BudgetHolds)
<1>1. SiInit => SiInv
  BY SiInitInv
<1>2. SiInv /\ [SiNext]_sitVars => SiInv'
  BY SiStep
<1>3. SiInv => SituationTypeOK /\ CriticalIsShown /\ BudgetHolds
  BY SiEnds
<1> QED BY <1>1, <1>2, <1>3, PTL DEF SiSpec

=============================================================================
