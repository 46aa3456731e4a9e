---------------------------- MODULE AttentionProofs ----------------------------
(* What Attention guarantees for every set of events, reminders, workers and  *)
(* channels, every order of faults and every length of a behaviour: reports   *)
(* are evidence of one incident, interruptions keep the cooldown, a reminder  *)
(* fires once, quiet hours hold, repeats cost faults, and the delivery keeps  *)
(* the abstract promise.  The last section is about what the house attends    *)
(* to while it speaks: the gates of the microphone (Capture).                 *)
EXTENDS Attention, Capture, TLAPS, FiniteSetTheorems, SequenceTheorems

Incidents == [status : Active \cup {"resolved"}, evidence : SUBSET Raising]
Bookings == [notice : Numbers, attempts : 0..MaxAttempts]
Attempts == [notice : Numbers, channel : {Channels[k] : k \in DOMAIN Channels}, confirmed : BOOLEAN]
Busy == {w \in Workers : worker[w].phase # "idle"}

Stored == {e \in Events : event[e] = "stored"}
Fired == {r \in Reminders : reminder[r] = "fired"}

\* Every notice and every incident has a cause of its own.
Bounded ==
  /\ Len(incidents) <= Cardinality(Stored)
  /\ Len(notices) <= Cardinality(Stored) + Cardinality(Fired)

\* A stored report is evidence of one incident, and one at most is active.
Evidence ==
  /\ \A e \in Raising :
       IF event[e] = "stored"
         THEN \E i \in DOMAIN incidents : /\ e \in incidents[i].evidence
                                          /\ \A j \in DOMAIN incidents \ {i} : e \notin incidents[j].evidence
         ELSE \A i \in DOMAIN incidents : e \notin incidents[i].evidence
  /\ \A i, j \in ActiveOnes : i = j
  /\ \A e \in Events \ Raising : event[e] # "conflict"

Spaced == InterruptionsAreSpaced /\ \A n \in DOMAIN notices : notices[n].made <= now

\* A fired reminder has one notice, any other none.
Announced ==
  \A r \in Reminders :
    IF reminder[r] = "fired"
      THEN \E n \in DOMAIN notices : notices[n].about = r /\ \A m \in DOMAIN notices \ {n} : notices[m].about # r
      ELSE \A n \in DOMAIN notices : notices[n].about # r

\* A pass that is under way holds distinct notices, on a channel that exists.
Passing ==
  \A w \in Workers :
    /\ w \in Busy => worker[w].batch # <<>> /\ worker[w].channel \in DOMAIN Channels
    /\ w \notin Busy => worker[w].batch = <<>>
    /\ \A a \in DOMAIN worker[w].batch : worker[w].batch[a].notice \in DOMAIN notices
    /\ \A a, b \in DOMAIN worker[w].batch :
         a # b => worker[w].batch[a].notice # worker[w].batch[b].notice

\* When a notice may be spoken: from its hour on, or when an operator says so.
Hours ==
  /\ \A n \in DOMAIN notices \ retried :
       notices[n].available = IF notices[n].severity = "critical" THEN notices[n].made
                                                                  ELSE QuietEnd(notices[n].made)
  /\ \A w \in Workers : \A a \in DOMAIN worker[w].batch :
       notices[worker[w].batch[a].notice].available <= now

\* What a pass goes on from: a confirmed attempt is in the ledger before the notice
\* counts as delivered, and it counts before its item is completed.
Confirmed ==
  \A w \in Workers :
    /\ worker[w].phase = "mark" =>
         \E d \in ledger : d.notice = Current(w) /\ d.confirmed
    /\ worker[w].phase = "complete" => notices[Current(w)].attention = "delivered"

\* A notice is at the end of its delivery from the confirmation to the completed item.
Ending(n) == \/ n \in DOMAIN notices /\ notices[n].item = "completed"
             \/ \E w \in Busy : /\ Current(w) = n
                                /\ \/ worker[w].phase \in {"mark", "complete"}
                                   \/ worker[w].phase = "record" /\ worker[w].ok

\* Without a second lane, what is claimed stays pending until its own outcome.
Paid ==
  (\A v, w \in Workers : v = w) =>
    /\ \A w \in Workers : \A a \in DOMAIN worker[w].batch :
         notices[worker[w].batch[a].notice].item = "pending"
    /\ \A n \in Numbers : /\ spoken[n] <= 1 + faults
                          /\ spoken[n] <= faults \/ Ending(n)

IInv == TypeOK /\ Bounded /\ Evidence /\ Spaced /\ Announced /\ Passing /\ Hours /\ Confirmed /\ Paid

-----------------------------------------------------------------------------
(* Quiet hours end, and cardinalities are numbers.                            *)

\* There is a first instant outside the quiet hours, because they end in time.
LEMMA QuietEnds ==
  ASSUME NEW t \in 0..MaxTime
  PROVE  QuietEnd(t) \in t..MaxTime
<1> DEFINE T == {u \in t..MaxTime : u \notin Quiet}
           R == OpToRel(<, Nat)
<1>1. T \subseteq Nat /\ MaxTime \in T
  BY AttentionAssumption
<1>2. PICK u \in T : \A v \in T : ~(<<v, u>> \in R)
  <2> HIDE DEF R, T
  <2> QED BY <1>1, NatLessThanWellFounded, WFMin DEF R
<1>3. \A v \in T : ~(v < u)
  BY <1>1, <1>2 DEF OpToRel
<1>4. u \notin Quiet /\ t..(u - 1) \subseteq Quiet
  BY <1>1, <1>3, AttentionAssumption
<1>5. u \in t..MaxTime
  OBVIOUS
<1> QED BY <1>4, <1>5 DEF QuietEnd

LEMMA Counting ==
  /\ IsFiniteSet(Stored) /\ IsFiniteSet(Fired)
  /\ Cardinality(Stored) \in 0..Cardinality(Events)
  /\ Cardinality(Fired) \in 0..Cardinality(Reminders)
  /\ Cardinality(Events) \in Nat /\ Cardinality(Reminders) \in Nat
<1>1. IsFiniteSet(Events) /\ IsFiniteSet(Reminders)
  BY AttentionAssumption
<1>2. Stored \in SUBSET Events /\ Fired \in SUBSET Reminders
  BY DEF Stored, Fired
<1>3. /\ IsFiniteSet(Stored) /\ Cardinality(Stored) <= Cardinality(Events)
      /\ IsFiniteSet(Fired) /\ Cardinality(Fired) <= Cardinality(Reminders)
  BY <1>1, <1>2, FS_Subset
<1> QED BY <1>1, <1>3, FS_CardinalityType

\* The rows fit into Numbers.
LEMMA RowsAreNumbers ==
  ASSUME TypeOK, Bounded
  PROVE  /\ DOMAIN notices = 1..Len(notices) /\ Len(notices) \in Nat
         /\ DOMAIN incidents = 1..Len(incidents) /\ Len(incidents) \in Nat
         /\ DOMAIN notices \subseteq Numbers /\ DOMAIN incidents \subseteq Numbers
         /\ \A n \in DOMAIN notices : notices[n] \in Rows
         /\ \A i \in DOMAIN incidents : incidents[i] \in Incidents
<1>1. notices \in Seq(Rows) /\ incidents \in Seq(Incidents)
  BY DEF TypeOK, Incidents
<1> QED BY <1>1, Counting DEF Bounded, Numbers

\* A notice made now has the form of a row.
LEMMA NoticeForm ==
  ASSUME TypeOK, NEW about \in Numbers \cup Reminders, NEW severity \in {"critical", "notice"}
  PROVE  Notice(about, severity) \in Rows
<1>1. now \in 0..MaxTime /\ QuietEnd(now) \in 0..MaxTime
  BY QuietEnds DEF TypeOK
<1>2. 0 \in 0..MaxAttempts
  BY AttentionAssumption
<1>3. Available(severity) \in 0..MaxTime
  BY <1>1 DEF Available
<1>4. "pending" \in {"pending", "delivered"} /\ "pending" \in Items
  BY DEF Items
<1> QED BY <1>1, <1>2, <1>3, <1>4 DEF Notice, Rows

LEMMA InitIInv == Init => IInv
<1> SUFFICES ASSUME Init PROVE IInv
  OBVIOUS
<1> USE AttentionAssumption
<1>1. TypeOK
  BY DEF Init, TypeOK, Active, Passes, Idle
<1>2. Bounded
  BY Counting DEF Init, Bounded
<1>3. DOMAIN notices = {} /\ DOMAIN incidents = {} /\ Busy = {}
      /\ \A w \in Workers : worker[w].batch = <<>> /\ worker[w].phase = "idle"
  BY DEF Init, Busy, Idle
<1>4. Evidence /\ Announced /\ Spaced
  BY <1>3 DEF Init, Evidence, Announced, Spaced, InterruptionsAreSpaced, ActiveOnes
<1>5. Passing /\ Hours /\ Confirmed
  BY <1>3 DEF Init, Passing, Hours, Confirmed
<1>6. Paid
  BY <1>3 DEF Init, Paid
<1> QED BY <1>1, <1>2, <1>4, <1>5, <1>6 DEF IInv

-----------------------------------------------------------------------------
(* What several steps have in common.                                         *)

\* What a pass has in hand.
LEMMA InHand ==
  ASSUME TypeOK, Passing, NEW w \in Busy
  PROVE  /\ w \in Workers /\ worker[w] \in Passes
         /\ worker[w].batch \in Seq(Bookings) /\ Len(worker[w].batch) \in Nat \ {0}
         /\ DOMAIN worker[w].batch = 1..Len(worker[w].batch)
         /\ Head(worker[w].batch) = worker[w].batch[1] /\ worker[w].batch[1] \in Bookings
         /\ Current(w) = worker[w].batch[1].notice
         /\ Current(w) \in DOMAIN notices /\ Current(w) \in Numbers
<1>1. w \in Workers /\ worker[w] \in Passes /\ worker[w].batch # <<>>
  BY DEF Busy, TypeOK, Passing
<1>2. worker[w].batch \in Seq(Bookings)
  BY <1>1 DEF Passes, Bookings
<1>3. /\ Len(worker[w].batch) \in Nat \ {0} /\ DOMAIN worker[w].batch = 1..Len(worker[w].batch)
      /\ Head(worker[w].batch) = worker[w].batch[1] /\ worker[w].batch[1] \in Bookings
  BY <1>1, <1>2, EmptySeq, ElementOfSeq
<1> QED BY <1>1, <1>2, <1>3 DEF Current, Passing, Bookings

\* Rows that are added disturb no pass.
LEMMA AddedRows ==
  ASSUME IInv, TypeOK', DOMAIN notices \subseteq DOMAIN notices',
         \A n \in DOMAIN notices : notices'[n] = notices[n],
         \A n \in DOMAIN notices' \ DOMAIN notices :
           \E about \in Numbers \cup Reminders, severity \in {"critical", "notice"} :
             notices'[n] = Notice(about, severity),
         UNCHANGED <<now, ledger, spoken, retried, worker, faults>>
  PROVE  Passing' /\ Hours' /\ Confirmed' /\ Paid'
<1> USE DEF IInv
<1>1. Passing'
  BY DEF Passing, Busy
<1>2. Hours'
  <2>1. ASSUME NEW n \in DOMAIN notices' \ DOMAIN notices
        PROVE  notices'[n].available = IF notices'[n].severity = "critical"
                 THEN notices'[n].made ELSE QuietEnd(notices'[n].made)
    BY <2>1 DEF Notice, Available
  <2> QED BY <2>1 DEF Hours, Passing
<1>3. Confirmed'
  <2>1. \A w \in Workers : worker[w].phase \in {"mark", "complete"} => Current(w) \in DOMAIN notices
    BY InHand DEF Busy
  <2> QED BY <2>1 DEF Confirmed, Current
<1>4. Paid'
  <2>1. \A n \in Numbers : Ending(n) => Ending(n)'
    BY DEF Ending, Busy, Current
  <2> QED BY <2>1 DEF Paid, Passing
<1> QED BY <1>1, <1>2, <1>3, <1>4

LEMMA StoredGrows ==
  ASSUME TypeOK, NEW e \in Events, event[e] # "stored", event' = [event EXCEPT ![e] = "stored"]
  PROVE  Cardinality(Stored') = Cardinality(Stored) + 1
<1>1. Stored' = Stored \cup {e} /\ e \notin Stored
  BY DEF Stored, TypeOK
<1> QED BY <1>1, Counting, FS_AddElement

\* raise_attention for an incident: at most one row, a cooldown after the last.
LEMMA Interrupted ==
  ASSUME IInv, NEW i \in Numbers, Interrupt(i), UNCHANGED now
  PROVE  /\ notices' \in Seq(Rows) /\ Len(notices') \in {Len(notices), Len(notices) + 1}
         /\ DOMAIN notices \subseteq DOMAIN notices'
         /\ \A n \in DOMAIN notices : notices'[n] = notices[n]
         /\ \A n \in DOMAIN notices' \ DOMAIN notices : notices'[n] = Notice(i, "critical")
         /\ Spaced'
<1> USE DEF IInv
<1>1. CASE notices' = notices
  BY <1>1 DEF TypeOK, Spaced, InterruptionsAreSpaced
<1>2. CASE ~InCooldown /\ notices' = Append(notices, Notice(i, "critical"))
  <2>1. Notice(i, "critical") \in Rows /\ notices \in Seq(Rows)
    BY NoticeForm DEF TypeOK
  <2>2. /\ notices' \in Seq(Rows) /\ Len(notices') = Len(notices) + 1 /\ Len(notices) \in Nat
        /\ DOMAIN notices' = 1..(Len(notices) + 1) /\ DOMAIN notices = 1..Len(notices)
        /\ notices'[Len(notices) + 1] = Notice(i, "critical")
        /\ \A n \in DOMAIN notices : notices'[n] = notices[n]
    BY <1>2, <2>1
  <2>3. Spaced'
    <3> \A n \in DOMAIN notices : notices[n].made \in Nat
      BY RowsAreNumbers DEF Rows
    <3> now \in Nat /\ Cooldown \in Nat
      BY AttentionAssumption DEF TypeOK
    <3>1. \A n \in DOMAIN notices :
            notices[n].severity = "critical" => notices[n].made <= now - Cooldown
      BY <1>2 DEF InCooldown
    <3>2. now \in Nat /\ Cooldown \in Nat /\ notices'[Len(notices) + 1].made = now
      BY <2>2, AttentionAssumption DEF TypeOK, Notice
    <3> QED BY SMTT(30), <2>2, <3>1, <3>2 DEF Spaced, InterruptionsAreSpaced
  <2> QED BY <2>2, <2>3
<1> QED BY <1>1, <1>2 DEF Interrupt

\* What an added row about an incident leaves to show of the step.
LEMMA InterruptKeeps ==
  ASSUME IInv, NEW i \in Numbers, Interrupt(i), NEW e \in Events, event[e] \in {"new", "conflict"},
         event' = [event EXCEPT ![e] = "stored"],
         incidents' \in Seq(Incidents), Len(incidents') \in {Len(incidents), Len(incidents) + 1},
         Evidence',
         UNCHANGED <<now, episodes, reminder, ledger, spoken, retried, worker, faults>>
  PROVE  IInv'
<1> USE DEF IInv
<1>1. TypeOK'
  BY Interrupted DEF TypeOK, Incidents
<1>2. Bounded'
  <2>1. Cardinality(Stored') = Cardinality(Stored) + 1 /\ Fired' = Fired
    BY StoredGrows DEF Fired
  <2> QED BY SMTT(30), <2>1, Counting, Interrupted, RowsAreNumbers DEF Bounded
<1>3. Announced'
  <2>1. \A n \in DOMAIN notices' \ DOMAIN notices : notices'[n].about \notin Reminders
    BY SMTT(30), Interrupted, AttentionAssumption, Counting DEF Notice, Numbers
  <2> QED BY <2>1, Interrupted DEF Announced
<1>4. Passing' /\ Hours' /\ Confirmed' /\ Paid'
  BY <1>1, AddedRows, Interrupted
<1> QED BY <1>1, <1>2, <1>3, <1>4, Interrupted

-----------------------------------------------------------------------------
(* Incidents.                                                                 *)

LEMMA OpenKeeps ==
  ASSUME IInv, NEW e \in Events, OpenIncident(e)
  PROVE  IInv'
<1> USE DEF IInv
<1> DEFINE row == [status |-> "open", evidence |-> {e}]
<1>1. e \in Raising /\ ActiveOnes = {} /\ event[e] = "new"
      /\ event' = [event EXCEPT ![e] = "stored"] /\ incidents' = Append(incidents, row)
  BY DEF OpenIncident, Ready
<1>2. incidents \in Seq(Incidents) /\ row \in Incidents
  BY <1>1 DEF TypeOK, Incidents, Active
<1>3. /\ incidents' \in Seq(Incidents) /\ Len(incidents') = Len(incidents) + 1
      /\ DOMAIN incidents' = 1..(Len(incidents) + 1) /\ DOMAIN incidents = 1..Len(incidents)
      /\ incidents'[Len(incidents) + 1] = row /\ Len(incidents) \in Nat
      /\ \A i \in DOMAIN incidents : incidents'[i] = incidents[i]
  BY <1>1, <1>2
<1>4. Len(incidents) + 1 \in Numbers
  <2>1. Cardinality(Stored') = Cardinality(Stored) + 1
    BY <1>1, StoredGrows
  <2>2. Stored' \in SUBSET Events /\ IsFiniteSet(Events)
    BY AttentionAssumption, <1>1 DEF Stored
  <2>3. Cardinality(Stored') <= Cardinality(Events)
    BY <2>2, FS_Subset
  <2> QED BY <1>3, <2>1, <2>3, Counting DEF Numbers, Bounded
<1>5. Evidence'
  <2>1. \A f \in Raising \ {e} : event'[f] = event[f]
    BY <1>1 DEF TypeOK
  <2>2. event'[e] = "stored"
    BY <1>1, AttentionAssumption DEF TypeOK
  <2>3. ActiveOnes' \subseteq {Len(incidents) + 1}
    BY <1>1, <1>3 DEF ActiveOnes
  <2>4. \A i \in DOMAIN incidents : e \notin incidents[i].evidence
    BY <1>1 DEF Evidence
  <2>5. ASSUME NEW f \in Raising
        PROVE  IF event'[f] = "stored"
                 THEN \E i \in DOMAIN incidents' :
                        /\ f \in incidents'[i].evidence
                        /\ \A j \in DOMAIN incidents' \ {i} : f \notin incidents'[j].evidence
                 ELSE \A i \in DOMAIN incidents' : f \notin incidents'[i].evidence
    <3>1. CASE f = e
      BY <1>3, <2>2, <2>4, <3>1
    <3>2. CASE f # e
      BY <1>3, <2>1, <3>2 DEF Evidence
    <3> QED BY <3>1, <3>2
  <2>6. \A f \in Events \ Raising : event'[f] # "conflict"
    BY <1>1 DEF Evidence, TypeOK
  <2> QED BY <2>3, <2>5, <2>6 DEF Evidence
<1> QED BY <1>1, <1>3, <1>4, <1>5, InterruptKeeps DEF OpenIncident

LEMMA UpdateKeeps ==
  ASSUME IInv, NEW e \in Events, UpdateIncident(e)
  PROVE  IInv'
<1> USE DEF IInv
<1>1. PICK i \in ActiveOnes :
        /\ incidents' = [incidents EXCEPT ![i].evidence = @ \cup {e}] /\ Interrupt(i)
  BY DEF UpdateIncident
<1>2. event[e] = "conflict" /\ event' = [event EXCEPT ![e] = "stored"]
  BY DEF UpdateIncident
<1>3. /\ e \in Raising
      /\ i \in DOMAIN incidents /\ i \in Numbers
  BY <1>2, RowsAreNumbers DEF ActiveOnes, Evidence
<1>4. /\ incidents' \in Seq(Incidents) /\ Len(incidents') = Len(incidents)
      /\ DOMAIN incidents' = DOMAIN incidents
      /\ \A j \in DOMAIN incidents : /\ incidents'[j].status = incidents[j].status
                                     /\ incidents'[j].evidence = IF j = i THEN incidents[j].evidence \cup {e}
                                                                 ELSE incidents[j].evidence
  <2> DEFINE row == [incidents[i] EXCEPT !.evidence = @ \cup {e}]
  <2>1. incidents \in Seq(Incidents) /\ incidents[i] \in Incidents
    BY <1>3, RowsAreNumbers DEF TypeOK, Incidents
  <2>2. row \in Incidents /\ row.status = incidents[i].status
        /\ row.evidence = incidents[i].evidence \cup {e}
    BY <1>3, <2>1 DEF Incidents
  <2>3. incidents' = [incidents EXCEPT ![i] = row]
    BY <1>1
  <2> HIDE DEF row
  <2>4. i \in 1..Len(incidents) /\ DOMAIN incidents = 1..Len(incidents)
    BY <1>3, <2>1
  <2>5. /\ incidents' \in Seq(Incidents) /\ Len(incidents') = Len(incidents)
        /\ \A j \in 1..Len(incidents) : incidents'[j] = IF j = i THEN row ELSE incidents[j]
    BY <2>1, <2>2, <2>3, <2>4, ExceptSeq
  <2>6. DOMAIN incidents' = DOMAIN incidents
    BY <2>1, <2>4, <2>5
  <2> QED BY <2>2, <2>4, <2>5, <2>6
<1>5. Evidence'
  <2>1. ActiveOnes' = ActiveOnes
    BY <1>4 DEF ActiveOnes
  <2>2. \A f \in Events : event'[f] = IF f = e THEN "stored" ELSE event[f]
    BY <1>2 DEF TypeOK
  <2>3. e \in Events /\ Raising \subseteq Events
    BY AttentionAssumption
  <2>4. \A j \in DOMAIN incidents : e \notin incidents[j].evidence
    BY <1>2, <1>3 DEF Evidence
  <2>5. \A f \in Raising, j \in DOMAIN incidents :
          f \in incidents'[j].evidence <=> f \in incidents[j].evidence \/ (f = e /\ j = i)
    BY <1>3, <1>4
  <2> QED BY SMTT(30), <1>3, <1>4, <2>1, <2>2, <2>3, <2>4, <2>5 DEF Evidence
<1> QED BY <1>1, <1>2, <1>3, <1>4, <1>5, InterruptKeeps DEF UpdateIncident

\* Steps that leave the rows, the passes and the clock alone.
LEMMA CauseKeeps ==
  ASSUME IInv, TypeOK', Evidence', Announced', Len(incidents') = Len(incidents),
         Stored \subseteq Stored', Fired' = Fired,
         UNCHANGED <<now, notices, ledger, spoken, retried, worker, faults>>
  PROVE  IInv'
<1> USE DEF IInv
<1>1. Cardinality(Stored) <= Cardinality(Stored')
  <2>1. Stored' \in SUBSET Events /\ IsFiniteSet(Events)
    BY AttentionAssumption DEF Stored
  <2> QED BY <2>1, FS_Subset
<1>2. Bounded'
  <2>1. Cardinality(Stored') \in Nat
    <3>1. Stored' \in SUBSET Events /\ IsFiniteSet(Events)
      BY AttentionAssumption DEF Stored
    <3> QED BY <3>1, FS_Subset, FS_CardinalityType
  <2> QED BY <1>1, <2>1, Counting, RowsAreNumbers DEF Bounded
<1>3. Passing' /\ Hours' /\ Confirmed' /\ Paid'
  BY AddedRows
<1>4. Spaced'
  BY DEF Spaced, InterruptionsAreSpaced
<1> QED BY <1>2, <1>3, <1>4

LEMMA MeetKeeps ==
  ASSUME IInv, NEW e \in Events, MeetIncident(e) \/ IncidentGone(e)
  PROVE  IInv'
<1> USE DEF IInv
<1>1. PICK s \in {"conflict", "dead"} :
        /\ event' = [event EXCEPT ![e] = s] /\ (s = "conflict" => e \in Raising)
        /\ event[e] \in {"new", "conflict"}
  BY DEF MeetIncident, IncidentGone, Ready
<1>2. UNCHANGED <<now, incidents, episodes, reminder, notices, ledger, spoken, retried, worker, faults>>
  BY DEF MeetIncident, IncidentGone
<1>3. \A f \in Events : event'[f] = IF f = e THEN s ELSE event[f]
  BY <1>1 DEF TypeOK
<1>4. TypeOK'
  BY <1>1, <1>2 DEF TypeOK
<1>5. Evidence' /\ Announced'
  BY <1>1, <1>2, <1>3, AttentionAssumption DEF Evidence, Announced, ActiveOnes
<1>6. Stored' = Stored /\ Fired' = Fired
  BY <1>1, <1>2, <1>3 DEF Stored, Fired
<1> QED BY <1>2, <1>4, <1>5, <1>6, CauseKeeps

LEMMA ClearKeeps ==
  ASSUME IInv, NEW e \in Events, ClearIncident(e)
  PROVE  IInv'
<1> USE DEF IInv
<1>1. /\ e \notin Raising /\ event' = [event EXCEPT ![e] = "stored"]
      /\ episodes' = episodes \cup ActiveOnes
      /\ UNCHANGED <<now, reminder, notices, ledger, spoken, retried, worker, faults>>
  BY DEF ClearIncident
<1>2. \A f \in Events : event'[f] = IF f = e THEN "stored" ELSE event[f]
  BY <1>1 DEF TypeOK
<1>3. /\ incidents' \in Seq(Incidents) /\ Len(incidents') = Len(incidents)
      /\ DOMAIN incidents' = DOMAIN incidents /\ ActiveOnes' = {}
      /\ \A i \in DOMAIN incidents : incidents'[i].evidence = incidents[i].evidence
  <2> DEFINE row(i) == IF i \in ActiveOnes THEN [incidents[i] EXCEPT !.status = "resolved"]
                                           ELSE incidents[i]
  <2>1. \A i \in DOMAIN incidents : /\ row(i) \in Incidents /\ row(i).status \notin Active
                                    /\ row(i).evidence = incidents[i].evidence
    BY RowsAreNumbers DEF Incidents, ActiveOnes, Active
  <2>2. incidents' = [i \in DOMAIN incidents |-> row(i)]
    BY DEF ClearIncident
  <2>3. DOMAIN incidents = 1..Len(incidents) /\ Len(incidents) \in Nat
    BY RowsAreNumbers
  <2> HIDE DEF row
  <2>4. incidents' \in Seq(Incidents) /\ Len(incidents') = Len(incidents)
        /\ DOMAIN incidents' = DOMAIN incidents
    BY <2>1, <2>2, <2>3
  <2> QED BY <2>1, <2>2, <2>4 DEF ActiveOnes
<1>4. TypeOK'
  <2>1. ActiveOnes \subseteq Nat
    BY RowsAreNumbers DEF ActiveOnes
  <2> QED BY <1>1, <1>3, <2>1 DEF TypeOK, Incidents
<1>5. Evidence' /\ Announced'
  <2>1. \A f \in Raising : f \in Events /\ event'[f] = event[f]
    BY <1>1, <1>2, AttentionAssumption
  <2>2. \A f \in Events \ Raising : event'[f] # "conflict"
    BY <1>2 DEF Evidence
  <2> QED BY <1>1, <1>3, <2>1, <2>2 DEF Evidence, Announced
<1>6. Stored \subseteq Stored' /\ Fired' = Fired
  BY <1>1, <1>2 DEF Stored, Fired
<1> QED BY <1>1, <1>3, <1>4, <1>5, <1>6, CauseKeeps

LEMMA StatusKeeps ==
  ASSUME IInv, NEW i \in DOMAIN incidents, NEW status \in Active \cup {"resolved"}, SetStatus(i, status)
  PROVE  IInv'
<1> USE DEF IInv
<1>1. /\ incidents' = [incidents EXCEPT ![i].status = status]
      /\ episodes' \in {episodes, episodes \cup {i}}
      /\ UNCHANGED <<now, event, reminder, notices, ledger, spoken, retried, worker, faults>>
      /\ status \in Active => ActiveOnes \subseteq {i}
  BY DEF SetStatus, Allowed
<1>2. /\ incidents' \in Seq(Incidents) /\ Len(incidents') = Len(incidents)
      /\ DOMAIN incidents' = DOMAIN incidents
      /\ \A j \in DOMAIN incidents : /\ incidents'[j].status = IF j = i THEN status ELSE incidents[j].status
                                     /\ incidents'[j].evidence = incidents[j].evidence
  <2> DEFINE row == [incidents[i] EXCEPT !.status = status]
  <2>1. incidents \in Seq(Incidents) /\ incidents[i] \in Incidents
    BY RowsAreNumbers DEF TypeOK, Incidents
  <2>2. row \in Incidents /\ row.status = status /\ row.evidence = incidents[i].evidence
    BY <2>1 DEF Incidents
  <2>3. incidents' = [incidents EXCEPT ![i] = row]
    BY <1>1
  <2> HIDE DEF row
  <2>4. i \in 1..Len(incidents) /\ DOMAIN incidents = 1..Len(incidents)
    BY RowsAreNumbers
  <2>5. /\ incidents' \in Seq(Incidents) /\ Len(incidents') = Len(incidents)
        /\ \A j \in 1..Len(incidents) : incidents'[j] = IF j = i THEN row ELSE incidents[j]
    BY <2>1, <2>2, <2>3, <2>4, ExceptSeq
  <2>6. DOMAIN incidents' = DOMAIN incidents
    BY <2>1, <2>4, <2>5
  <2> QED BY <2>2, <2>4, <2>5, <2>6
<1>3. TypeOK'
  BY <1>1, <1>2, RowsAreNumbers DEF TypeOK, Incidents
<1>4. Evidence' /\ Announced'
  <2>1. \A j, k \in ActiveOnes' : j = k
    BY <1>1, <1>2 DEF Evidence, ActiveOnes, Active
  <2> QED BY <1>1, <1>2, <2>1 DEF Evidence, Announced
<1>5. Stored' = Stored /\ Fired' = Fired
  BY <1>1 DEF Stored, Fired
<1> QED BY <1>1, <1>2, <1>3, <1>4, <1>5, CauseKeeps

-----------------------------------------------------------------------------
(* Reminders.                                                                 *)

LEMMA PlanKeeps ==
  ASSUME IInv, NEW r \in Reminders, CreateReminder(r) \/ CancelReminder(r)
  PROVE  IInv'
<1> USE DEF IInv
<1>1. PICK s \in {"scheduled", "cancelled"} :
        reminder' = [reminder EXCEPT ![r] = s] /\ reminder[r] \in {"none", "scheduled"}
  BY DEF CreateReminder, CancelReminder
<1>2. UNCHANGED <<now, event, incidents, episodes, notices, ledger, spoken, retried, worker, faults>>
  BY DEF CreateReminder, CancelReminder
<1>3. \A q \in Reminders : reminder'[q] = IF q = r THEN s ELSE reminder[q]
  BY <1>1 DEF TypeOK
<1>4. TypeOK'
  BY <1>1, <1>2 DEF TypeOK
<1>5. Evidence' /\ Announced'
  BY <1>1, <1>2, <1>3 DEF Evidence, Announced, ActiveOnes
<1>6. Stored' = Stored /\ Fired' = Fired
  BY <1>1, <1>2, <1>3 DEF Stored, Fired
<1> QED BY <1>2, <1>4, <1>5, <1>6, CauseKeeps

\* The due reminders are all numbered, each once.
LEMMA DueOrder ==
  ASSUME NEW order \in [1..Cardinality(DueNow) -> DueNow],
         \A a, b \in DOMAIN order : a < b => order[a] # order[b]
  PROVE  /\ Cardinality(DueNow) \in Nat
         /\ \A a, b \in DOMAIN order : order[a] = order[b] => a = b
         /\ \A r \in DueNow : \E a \in DOMAIN order : order[a] = r
<1> DEFINE k == Cardinality(DueNow)
<1>1. IsFiniteSet(DueNow)
  <2>1. DueNow \in SUBSET Reminders /\ IsFiniteSet(Reminders)
    BY AttentionAssumption DEF DueNow
  <2> QED BY <2>1, FS_Subset
<1>2. k \in Nat
  BY <1>1, FS_CardinalityType
<1>3. \A a, b \in DOMAIN order : order[a] = order[b] => a = b
  BY <1>2
<1>4. order \in Injection(1..k, DueNow)
  BY <1>3 DEF Injection, IsInjective
<1>5. IsFiniteSet(1..k) /\ Cardinality(1..k) = k
  BY <1>2, FS_Interval
<1>6. order \in Surjection(1..k, DueNow)
  <2> HIDE DEF k
  <2> QED BY <1>1, <1>4, <1>5, FS_Injection DEF k
<1> QED BY <1>2, <1>3, <1>6 DEF Surjection

LEMMA FireKeeps ==
  ASSUME IInv, FireReminders
  PROVE  IInv'
<1> USE DEF IInv
<1> DEFINE k == Cardinality(DueNow)
<1>1. PICK order \in [1..k -> DueNow] :
        /\ \A a, b \in DOMAIN order : a < b => order[a] # order[b]
        /\ notices' = notices \o [a \in DOMAIN order |-> Notice(order[a], "notice")]
  BY DEF FireReminders
<1> DEFINE new == [a \in DOMAIN order |-> Notice(order[a], "notice")]
           L == Len(notices)
<1>2. /\ reminder' = [r \in Reminders |-> IF r \in DueNow THEN "fired" ELSE reminder[r]]
      /\ UNCHANGED <<now, event, incidents, episodes, ledger, spoken, retried, worker, faults>>
  BY DEF FireReminders
<1>3. /\ k \in Nat /\ DOMAIN order = 1..k
      /\ \A a, b \in 1..k : order[a] = order[b] => a = b
      /\ \A r \in DueNow : \E a \in 1..k : order[a] = r
  BY <1>1, DueOrder
<1>4. \A a \in 1..k : new[a] = Notice(order[a], "notice") /\ new[a] \in Rows
                      /\ order[a] \in DueNow /\ order[a] \in Reminders
  BY <1>3, NoticeForm DEF DueNow
<1>5. new \in Seq(Rows) /\ Len(new) = k /\ notices \in Seq(Rows) /\ L \in Nat
  <2>1. new \in [1..k -> Rows]
    BY <1>3, <1>4
  <2>2. notices \in Seq(Rows)
    BY DEF TypeOK
  <2> HIDE DEF new, k
  <2> QED BY <1>3, <2>1, <2>2
<1> HIDE DEF new
<1>6. /\ notices' \in Seq(Rows) /\ Len(notices') = L + k
      /\ DOMAIN notices' = 1..(L + k) /\ DOMAIN notices = 1..L
      /\ \A n \in 1..L : notices'[n] = notices[n]
      /\ \A n \in (L + 1)..(L + k) : n - L \in 1..k /\ notices'[n] = new[n - L]
  <2>1. notices' = notices \o new
    BY <1>1 DEF new
  <2>2. /\ notices' \in Seq(Rows) /\ Len(notices') = L + k
        /\ \A n \in 1..(L + k) : notices'[n] = IF n <= L THEN notices[n] ELSE new[n - L]
    BY <1>5, <2>1, ConcatProperties
  <2>3. DOMAIN notices' = 1..(L + k) /\ DOMAIN notices = 1..L
    BY <1>5, <2>2
  <2> HIDE DEF L, k
  <2>4. \A n \in 1..L : notices'[n] = notices[n]
    BY <1>3, <1>5, <2>2
  <2>5. \A n \in (L + 1)..(L + k) :
          n \in 1..(L + k) /\ ~(n <= L) /\ n - L \in 1..k
    BY <1>3, <1>5
  <2>6. \A n \in (L + 1)..(L + k) : notices'[n] = new[n - L]
    BY <2>2, <2>5
  <2> QED BY <2>2, <2>3, <2>4, <2>5, <2>6
<1>7. \A a \in 1..k : L + a \in DOMAIN notices' /\ notices'[L + a] = Notice(order[a], "notice")
  BY <1>3, <1>4, <1>5, <1>6
<1>8. TypeOK'
  BY <1>2, <1>6 DEF TypeOK
<1>9. \A n \in DOMAIN notices' \ DOMAIN notices :
        \E a \in 1..k : n = L + a /\ notices'[n] = Notice(order[a], "notice")
  <2>1. ASSUME NEW n \in DOMAIN notices' \ DOMAIN notices
        PROVE  n - L \in 1..k /\ n = L + (n - L) /\ notices'[n] = Notice(order[n - L], "notice")
    <3> HIDE DEF L, k
    <3>1. n \in (L + 1)..(L + k)
      BY <1>3, <1>5, <1>6
    <3>2. n - L \in 1..k /\ n = L + (n - L) /\ notices'[n] = new[n - L]
      BY <1>3, <1>5, <1>6, <3>1
    <3> QED BY <1>4, <3>2
  <2> QED BY <2>1
<1>10. Passing' /\ Hours' /\ Confirmed' /\ Paid'
  <2>1. \A n \in DOMAIN notices' \ DOMAIN notices :
          \E about \in Numbers \cup Reminders, severity \in {"critical", "notice"} :
            notices'[n] = Notice(about, severity)
    BY <1>4, <1>9
  <2>2. DOMAIN notices \subseteq DOMAIN notices' /\ \A n \in DOMAIN notices : notices'[n] = notices[n]
    BY <1>3, <1>5, <1>6
  <2> QED BY <1>2, <1>8, <2>1, <2>2, AddedRows
<1>11. Evidence'
  BY <1>2 DEF Evidence, ActiveOnes
<1>12. Bounded'
  <2>1. Fired' = Fired \cup DueNow /\ Fired \cap DueNow = {} /\ Stored' = Stored
    BY <1>2 DEF Fired, DueNow, Stored, TypeOK
  <2>2. IsFiniteSet(DueNow)
    BY AttentionAssumption, FS_Subset DEF DueNow
  <2>3. Cardinality(Fired') = Cardinality(Fired) + k
    <3>1. Cardinality(Fired \cup DueNow) = Cardinality(Fired) + k - Cardinality(Fired \cap DueNow)
      BY <2>2, Counting, FS_Union
    <3>2. Cardinality(Fired \cap DueNow) = 0
      BY <2>1, FS_EmptySet
    <3> QED BY <1>3, <2>1, <3>1, <3>2, Counting
  <2> QED BY <1>2, <1>3, <1>5, <1>6, <2>1, <2>3, Counting DEF Bounded
<1>13. Spaced'
  <2>1. \A n \in DOMAIN notices' \ DOMAIN notices :
          notices'[n].severity = "notice" /\ notices'[n].made = now
    BY <1>9 DEF Notice
  <2>2. now \in Nat
    BY AttentionAssumption DEF TypeOK
  <2>3. DOMAIN notices \subseteq DOMAIN notices' /\ \A n \in DOMAIN notices : notices'[n] = notices[n]
    BY <1>3, <1>5, <1>6
  <2>4. \A n \in DOMAIN notices' : notices'[n].severity = "critical" => n \in DOMAIN notices
    BY <2>1
  <2>5. InterruptionsAreSpaced'
    BY <2>3, <2>4 DEF Spaced, InterruptionsAreSpaced
  <2>6. \A n \in DOMAIN notices' : notices'[n].made <= now'
    BY <1>2, <2>1, <2>2, <2>3 DEF Spaced
  <2> QED BY <2>5, <2>6 DEF Spaced
<1>14. Announced'
  <2>1. ASSUME NEW r \in Reminders, r \in DueNow
        PROVE  /\ reminder'[r] = "fired"
               /\ \E n \in DOMAIN notices' : /\ notices'[n].about = r
                                             /\ \A m \in DOMAIN notices' \ {n} : notices'[m].about # r
    <3>1. reminder[r] = "scheduled" /\ reminder'[r] = "fired"
      BY <1>2, <2>1 DEF DueNow
    <3>2. \A n \in DOMAIN notices : notices'[n].about # r
      BY <1>6, <3>1 DEF Announced
    <3>3. PICK a \in 1..k : order[a] = r
      BY <1>3, <2>1
    <3> HIDE DEF L, k
    <3>4. L + a \in DOMAIN notices' /\ notices'[L + a].about = r
      <4>1. Notice(r, "notice").about = r
        BY DEF Notice
      <4> QED BY <1>7, <3>3, <4>1
    <3>5. \A m \in DOMAIN notices' \ {L + a} : notices'[m].about # r
      <4>1. ASSUME NEW m \in DOMAIN notices' \ DOMAIN notices, m # L + a
            PROVE  notices'[m].about # r
        <5>1. PICK b \in 1..k : m = L + b /\ notices'[m] = Notice(order[b], "notice")
          BY <1>9
        <5>2. order[b] # r
          BY <1>3, <3>3, <4>1, <5>1
        <5> QED BY <5>1, <5>2 DEF Notice
      <4> QED BY <3>2, <4>1
    <3> QED BY <3>1, <3>4, <3>5
  <2>2. ASSUME NEW r \in Reminders, r \notin DueNow
        PROVE  /\ reminder'[r] = reminder[r]
               /\ \A n \in DOMAIN notices' \ DOMAIN notices : notices'[n].about # r
    <3>1. \A n \in DOMAIN notices' \ DOMAIN notices : notices'[n].about \in DueNow
      BY <1>4, <1>9 DEF Notice
    <3>2. reminder'[r] = reminder[r]
      BY <1>2, <2>2
    <3> QED BY <2>2, <3>1, <3>2
  <2>3. DOMAIN notices \subseteq DOMAIN notices' /\ \A n \in DOMAIN notices : notices'[n] = notices[n]
    BY <1>3, <1>5, <1>6
  <2> QED BY <2>1, <2>2, <2>3 DEF Announced
<1> QED BY <1>8, <1>10, <1>11, <1>12, <1>13, <1>14

-----------------------------------------------------------------------------
(* The outbox workers.                                                        *)

\* A step of a pass touches neither causes nor what the rows are about.
LEMMA PassFrame ==
  ASSUME IInv, TypeOK', Len(notices') = Len(notices), DOMAIN notices' = DOMAIN notices,
         \A n \in DOMAIN notices : /\ notices'[n].about = notices[n].about
                                   /\ notices'[n].severity = notices[n].severity
                                   /\ notices'[n].made = notices[n].made,
         UNCHANGED <<now, alarms>>
  PROVE  Bounded' /\ Evidence' /\ Spaced' /\ Announced'
<1> USE DEF IInv, alarms
<1>1. Stored' = Stored /\ Fired' = Fired
  BY DEF Stored, Fired
<1>2. Bounded'
  BY <1>1 DEF Bounded
<1>3. Evidence'
  BY DEF Evidence, ActiveOnes
<1>4. Spaced'
  BY DEF Spaced, InterruptionsAreSpaced
<1>5. Announced'
  BY DEF Announced
<1> QED BY <1>2, <1>3, <1>4, <1>5

\* The row under way is edited, all others stay.
LEMMA RowEdited ==
  ASSUME TypeOK, Bounded, NEW c \in DOMAIN notices, NEW row \in Rows,
         notices' = [notices EXCEPT ![c] = row]
  PROVE  /\ notices' \in Seq(Rows) /\ Len(notices') = Len(notices) /\ DOMAIN notices' = DOMAIN notices
         /\ \A n \in DOMAIN notices : notices'[n] = IF n = c THEN row ELSE notices[n]
<1>1. notices \in Seq(Rows) /\ c \in 1..Len(notices) /\ DOMAIN notices = 1..Len(notices)
  BY RowsAreNumbers DEF TypeOK
<1>2. /\ notices' \in Seq(Rows) /\ Len(notices') = Len(notices)
      /\ \A n \in 1..Len(notices) : notices'[n] = IF n = c THEN row ELSE notices[n]
  BY <1>1, ExceptSeq
<1> QED BY <1>1, <1>2

\* The rest of the batch moves up.
LEMMA MovedUp ==
  ASSUME TypeOK, Passing, NEW w \in Busy, NextItem(w)
  PROVE  /\ worker' \in [Workers -> Passes]
         /\ \A v \in Workers \ {w} : worker'[v] = worker[v]
         /\ worker'[w].phase = IF worker'[w].batch = <<>> THEN "idle" ELSE "send"
         /\ worker'[w].batch # <<>> => worker'[w].channel \in DOMAIN Channels
         /\ \A a \in DOMAIN worker'[w].batch :
              /\ a \in Nat /\ a + 1 \in DOMAIN worker[w].batch
              /\ worker'[w].batch[a] = worker[w].batch[a + 1]
<1> DEFINE b == worker[w].batch
<1>1. /\ w \in Workers /\ worker \in [Workers -> Passes] /\ b \in Seq(Bookings)
      /\ Len(b) \in Nat \ {0} /\ DOMAIN b = 1..Len(b) /\ b # <<>>
  BY InHand DEF TypeOK, Passing
<1>2. 1 \in DOMAIN Channels
  BY AttentionAssumption, EmptySeq
<1>3. Tail(b) \in Seq(Bookings) /\ Len(Tail(b)) = Len(b) - 1 /\ DOMAIN Tail(b) = 1..(Len(b) - 1)
      /\ \A a \in 1..(Len(b) - 1) : Tail(b)[a] = b[a + 1]
  <2> HIDE DEF b
  <2> QED BY <1>1, HeadTailProperties
<1>4. CASE Len(b) = 1
  <2>1. worker' = [worker EXCEPT ![w] = Idle]
    BY <1>1, <1>4 DEF NextItem
  <2>2. Idle \in Passes
    BY AttentionAssumption DEF Idle, Passes
  <2> QED BY <1>1, <2>1, <2>2 DEF Idle
<1>5. CASE Len(b) # 1
  <2> DEFINE pass == [phase |-> "send", channel |-> 1, ok |-> FALSE, batch |-> Tail(b)]
  <2>1. worker' = [worker EXCEPT ![w] = pass]
    BY <1>1, <1>5 DEF NextItem
  <2>2. pass \in Passes
    BY <1>2, <1>3, AttentionAssumption DEF Passes, Bookings
  <2>3. worker'[w] = pass /\ \A v \in Workers \ {w} : worker'[v] = worker[v]
    BY <1>1, <2>1
  <2>4. Tail(b) # <<>>
    <3>1. Len(Tail(b)) # 0
      BY <1>1, <1>3, <1>5
    <3> QED BY <3>1, EmptySeq
  <2>5. worker' \in [Workers -> Passes]
    BY <1>1, <2>1, <2>2
  <2>6. pass.phase = "send" /\ pass.channel = 1 /\ pass.batch = Tail(b)
    OBVIOUS
  <2> HIDE DEF pass, b
  <2>7. \A a \in DOMAIN Tail(b) : a \in Nat /\ a + 1 \in DOMAIN b
    BY <1>1, <1>3
  <2> QED BY <1>2, <1>3, <2>3, <2>4, <2>5, <2>6, <2>7 DEF b
<1> QED BY <1>4, <1>5

LEMMA MovedUpKeeps ==
  ASSUME IInv, NEW w \in Busy, NextItem(w), DOMAIN notices' = DOMAIN notices, UNCHANGED now,
         \A n \in DOMAIN notices : notices'[n].available = notices[n].available
  PROVE  /\ Passing'
         /\ \A v \in Workers : \A a \in DOMAIN worker'[v].batch :
              notices'[worker'[v].batch[a].notice].available <= now'
<1> USE DEF IInv
<1>1. ASSUME NEW a \in DOMAIN worker'[w].batch
      PROVE  /\ a \in Nat /\ a + 1 \in DOMAIN worker[w].batch
             /\ worker'[w].batch[a] = worker[w].batch[a + 1]
  BY MovedUp
<1>2. w \in Workers
  BY DEF Busy
<1>3. \A v \in Workers \ {w} : worker'[v] = worker[v]
  BY MovedUp
<1>4. \A a \in DOMAIN worker'[w].batch : worker'[w].batch[a].notice \in DOMAIN notices
  BY <1>1, <1>2 DEF Passing
<1>5. ASSUME NEW a \in DOMAIN worker'[w].batch, NEW b \in DOMAIN worker'[w].batch, a # b
      PROVE  worker'[w].batch[a].notice # worker'[w].batch[b].notice
  <2>1. a + 1 # b + 1
    BY <1>1, <1>5
  <2> QED BY <1>1, <1>2, <2>1 DEF Passing
<1>6. Passing'
  <2>1. /\ w \in Busy' <=> worker'[w].batch # <<>>
        /\ worker'[w].batch # <<>> => worker'[w].channel \in DOMAIN Channels
    BY <1>2, MovedUp DEF Busy
  <2> QED BY <1>2, <1>3, <1>4, <1>5, <2>1 DEF Passing, Busy
<1>7. \A v \in Workers : \A a \in DOMAIN worker'[v].batch :
        notices'[worker'[v].batch[a].notice].available <= now'
  <2>1. \A a \in DOMAIN worker'[w].batch : notices'[worker'[w].batch[a].notice].available <= now
    BY <1>1, <1>2, <1>4 DEF Hours, Passing
  <2> QED BY <1>3, <2>1 DEF Hours, Passing
<1> QED BY <1>6, <1>7

\* Claiming takes pending rows that are due and locks them.
LEMMA ClaimKeeps ==
  ASSUME IInv, NEW w \in Workers, Claim(w)
  PROVE  IInv'
<1> USE DEF IInv
<1>1. PICK claimed \in Claims :
        /\ notices' = [n \in DOMAIN notices |->
             IF \E a \in DOMAIN claimed : claimed[a] = n THEN [notices[n] EXCEPT !.lock = now]
                                                         ELSE notices[n]]
        /\ worker' = [worker EXCEPT ![w] =
             [phase |-> "send", channel |-> 1, ok |-> FALSE,
              batch |-> [a \in DOMAIN claimed |-> Booking(claimed[a])]]]
  BY DEF Claim
<1>2. worker[w].phase = "idle" /\ UNCHANGED <<now, alarms, ledger, spoken, retried, faults>>
  BY DEF Claim
<1>3. PICK k \in 1..BatchSize : claimed \in [1..k -> {n \in DOMAIN notices : Claimable(n)}]
  BY DEF Claims
<1> DEFINE batch == [a \in DOMAIN claimed |-> Booking(claimed[a])]
           pass == [phase |-> "send", channel |-> 1, ok |-> FALSE, batch |-> batch]
<1>4. /\ k \in Nat \ {0} /\ DOMAIN claimed = 1..k /\ 1 \in DOMAIN Channels
      /\ \A a \in 1..k : /\ claimed[a] \in DOMAIN notices /\ notices[claimed[a]] \in Rows
                         /\ notices[claimed[a]].item = "pending"
                         /\ notices[claimed[a]].available <= now
                         /\ batch[a].notice = claimed[a] /\ batch[a] \in Bookings
  <2>1. k \in Nat \ {0} /\ DOMAIN claimed = 1..k /\ 1 \in DOMAIN Channels
    BY <1>3, AttentionAssumption, EmptySeq
  <2>2. ASSUME NEW a \in 1..k
        PROVE  /\ claimed[a] \in DOMAIN notices /\ notices[claimed[a]] \in Rows
               /\ notices[claimed[a]].item = "pending" /\ notices[claimed[a]].available <= now
               /\ batch[a].notice = claimed[a] /\ batch[a] \in Bookings
    <3>1. claimed[a] \in DOMAIN notices /\ Claimable(claimed[a])
      BY <1>3
    <3>2. notices[claimed[a]] \in Rows /\ claimed[a] \in Numbers
      BY <3>1, RowsAreNumbers
    <3>3. batch[a] = Booking(claimed[a])
      BY <2>1
    <3> QED BY <3>1, <3>2, <3>3 DEF Claimable, Booking, Bookings, Rows
  <2> QED BY <2>1, <2>2
<1>5. \A a, b \in 1..k : a # b => batch[a].notice # batch[b].notice
  BY <1>4 DEF Claims
<1>6. batch \in Seq(Bookings) /\ Len(batch) = k /\ DOMAIN batch = 1..k
  <2>1. batch \in [1..k -> Bookings]
    BY <1>4
  <2> HIDE DEF batch
  <2> QED BY <1>4, <2>1
<1> HIDE DEF batch
<1>7. pass \in Passes /\ pass.phase = "send" /\ pass.channel = 1 /\ pass.batch = batch
  BY <1>4, <1>6 DEF Passes, Bookings
<1>8. /\ worker' \in [Workers -> Passes] /\ worker'[w] = pass
      /\ \A v \in Workers \ {w} : worker'[v] = worker[v]
  <2>1. worker' = [worker EXCEPT ![w] = pass]
    BY <1>1 DEF batch
  <2> HIDE DEF pass
  <2> QED BY <1>7, <2>1 DEF TypeOK
<1> HIDE DEF pass
<1>9. /\ notices' \in Seq(Rows) /\ Len(notices') = Len(notices) /\ DOMAIN notices' = DOMAIN notices
      /\ \A n \in DOMAIN notices : \E lock \in (0..MaxTime) \cup {Never} :
           notices'[n] = [notices[n] EXCEPT !.lock = lock]
  <2> DEFINE row(n) == IF \E a \in DOMAIN claimed : claimed[a] = n THEN [notices[n] EXCEPT !.lock = now]
                                                                   ELSE notices[n]
  <2>1. now \in 0..MaxTime /\ DOMAIN notices = 1..Len(notices) /\ Len(notices) \in Nat
        /\ \A n \in DOMAIN notices : notices[n] \in Rows
    BY RowsAreNumbers DEF TypeOK
  <2>2. ASSUME NEW n \in DOMAIN notices
        PROVE  row(n) \in Rows /\ \E lock \in (0..MaxTime) \cup {Never} :
                                    row(n) = [notices[n] EXCEPT !.lock = lock]
    <3>1. notices[n] = [notices[n] EXCEPT !.lock = notices[n].lock]
          /\ notices[n].lock \in (0..MaxTime) \cup {Never}
      BY <2>1 DEF Rows
    <3>2. [notices[n] EXCEPT !.lock = now] \in Rows
      BY <2>1 DEF Rows
    <3> QED BY <2>1, <3>1, <3>2
  <2>3. notices' = [n \in DOMAIN notices |-> row(n)]
    BY <1>1
  <2> HIDE DEF row
  <2> QED BY <2>1, <2>2, <2>3
<1>10. \A n \in DOMAIN notices :
         /\ notices'[n].about = notices[n].about /\ notices'[n].severity = notices[n].severity
         /\ notices'[n].made = notices[n].made /\ notices'[n].available = notices[n].available
         /\ notices'[n].item = notices[n].item /\ notices'[n].attention = notices[n].attention
  BY <1>9, RowsAreNumbers DEF Rows
<1>11. TypeOK'
  BY <1>2, <1>8, <1>9 DEF TypeOK, alarms
<1>12. Passing'
  <2>1. batch # <<>>
    BY <1>4, <1>6, EmptySeq
  <2>2. /\ worker'[w].phase # "idle" /\ worker'[w].batch # <<>>
        /\ worker'[w].channel \in DOMAIN Channels
        /\ \A a \in DOMAIN worker'[w].batch : worker'[w].batch[a].notice \in DOMAIN notices'
        /\ \A a, b \in DOMAIN worker'[w].batch :
             a # b => worker'[w].batch[a].notice # worker'[w].batch[b].notice
    <3>1. worker'[w].batch = batch /\ worker'[w].phase = "send" /\ worker'[w].channel = 1
      BY <1>7, <1>8
    <3>2. \A a \in DOMAIN batch : batch[a].notice \in DOMAIN notices'
      BY <1>4, <1>6, <1>9
    <3>3. \A a, b \in DOMAIN batch : a # b => batch[a].notice # batch[b].notice
      BY <1>5, <1>6
    <3> QED BY <1>4, <2>1, <3>1, <3>2, <3>3
  <2> QED BY <1>8, <1>9, <2>2 DEF Passing, Busy
<1>13. Hours'
  <2>1. \A v \in Workers : \A a \in DOMAIN worker'[v].batch :
          notices'[worker'[v].batch[a].notice].available <= now'
    BY <1>2, <1>4, <1>6, <1>7, <1>8, <1>10 DEF Hours, Passing
  <2> QED BY <1>2, <1>9, <1>10, <2>1 DEF Hours
<1>14. Confirmed'
  <2>1. \A v \in Workers : worker'[v].phase \in {"mark", "complete"} =>
          worker'[v] = worker[v] /\ Current(v) \in DOMAIN notices
    BY <1>7, <1>8, InHand DEF Busy
  <2> QED BY <1>2, <1>10, <2>1 DEF Confirmed, Current
<1>15. Paid'
  <2>1. \A n \in Numbers : Ending(n) => Ending(n)'
    BY <1>2, <1>8, <1>9, <1>10 DEF Ending, Busy, Current
  <2>2. (\A u, v \in Workers : u = v) =>
          \A v \in Workers : \A a \in DOMAIN worker'[v].batch :
            notices'[worker'[v].batch[a].notice].item = "pending"
    BY <1>4, <1>6, <1>7, <1>8, <1>10
  <2> QED BY <1>2, <2>1, <2>2 DEF Paid
<1> QED BY <1>2, <1>9, <1>10, <1>11, <1>12, <1>13, <1>14, <1>15, PassFrame

\* Steps within one item of the batch: the batch stays, so do the rows.
LEMMA WithinItem ==
  ASSUME IInv, NEW w \in Busy, NEW pass \in Passes, worker' = [worker EXCEPT ![w] = pass],
         pass.batch = worker[w].batch, pass.phase # "idle", pass.channel \in DOMAIN Channels
  PROVE  /\ worker' \in [Workers -> Passes] /\ worker'[w] = pass
         /\ \A v \in Workers \ {w} : worker'[v] = worker[v]
         /\ \A v \in Workers : worker'[v].batch = worker[v].batch
         /\ Busy' = Busy /\ \A v \in Busy : Current(v)' = Current(v)
<1> USE DEF IInv
<1>1. w \in Workers /\ worker \in [Workers -> Passes]
  BY DEF Busy, TypeOK
<1>2. /\ worker' \in [Workers -> Passes] /\ worker'[w] = pass
      /\ \A v \in Workers \ {w} : worker'[v] = worker[v]
  BY <1>1
<1>3. \A v \in Workers : worker'[v].batch = worker[v].batch
  BY <1>2
<1>4. Busy' = Busy
  BY <1>1, <1>2 DEF Busy
<1> QED BY <1>2, <1>3, <1>4 DEF Busy, Current

LEMMA SendKeeps ==
  ASSUME IInv, NEW w \in Workers, Send(w)
  PROVE  IInv'
<1> USE DEF IInv
<1> DEFINE c == Current(w)
<1>1. PICK taken \in BOOLEAN, ok \in BOOLEAN :
        /\ ok => taken
        /\ taken /\ ~ok => faults < MaxFaults
        /\ spoken' = IF taken THEN [spoken EXCEPT ![c] = Counted(@)] ELSE spoken
        /\ faults' = IF taken /\ ~ok THEN faults + 1 ELSE faults
        /\ worker' = [worker EXCEPT ![w].phase = "record", ![w].ok = ok]
  BY DEF Send
<1>2. worker[w].phase = "send" /\ w \in Busy /\ UNCHANGED <<now, alarms, notices, ledger, retried>>
  BY DEF Send, Busy
<1> DEFINE pass == [worker[w] EXCEPT !.phase = "record", !.ok = ok]
<1>3. /\ worker[w] \in Passes /\ worker[w].channel \in DOMAIN Channels
      /\ c \in DOMAIN notices /\ c \in Numbers
      /\ c = worker[w].batch[1].notice /\ 1 \in DOMAIN worker[w].batch
  BY <1>2, InHand DEF Passing
<1>4. /\ pass \in Passes /\ pass.batch = worker[w].batch /\ pass.phase = "record"
      /\ pass.ok = ok /\ pass.channel = worker[w].channel
  BY <1>3 DEF Passes
<1>5. worker' = [worker EXCEPT ![w] = pass]
  BY <1>1
<1> HIDE DEF pass, c
<1>6. /\ worker' \in [Workers -> Passes] /\ worker'[w] = pass
      /\ \A v \in Workers \ {w} : worker'[v] = worker[v]
      /\ \A v \in Workers : worker'[v].batch = worker[v].batch
      /\ Busy' = Busy /\ \A v \in Busy : Current(v)' = Current(v)
  BY <1>2, <1>3, <1>4, <1>5, WithinItem
<1>7. /\ MaxFaults \in Nat /\ faults \in 0..MaxFaults /\ faults' \in 0..MaxFaults /\ faults <= faults'
      /\ spoken' \in [Numbers -> 0..(MaxFaults + 2)] /\ spoken \in [Numbers -> 0..(MaxFaults + 2)]
      /\ \A n \in Numbers : IF taken /\ n = c THEN spoken'[n] <= spoken[n] + 1 ELSE spoken'[n] = spoken[n]
  <2>1. MaxFaults \in Nat /\ faults \in 0..MaxFaults /\ spoken \in [Numbers -> 0..(MaxFaults + 2)]
    BY AttentionAssumption DEF TypeOK
  <2>2. \A k \in 0..(MaxFaults + 2) : Counted(k) \in 0..(MaxFaults + 2) /\ Counted(k) <= k + 1
    BY <2>1 DEF Counted
  <2>3. spoken[c] \in 0..(MaxFaults + 2)
    BY <1>3, <2>1
  <2> QED BY <1>1, <1>3, <2>1, <2>2, <2>3
<1>8. TypeOK'
  BY <1>2, <1>6, <1>7 DEF TypeOK, alarms
<1>9. Passing' /\ Hours'
  BY <1>2, <1>3, <1>4, <1>6 DEF Passing, Hours
<1>10. Confirmed'
  BY <1>2, <1>4, <1>6 DEF Confirmed, Busy
<1>11. ASSUME \A u, v \in Workers : u = v, NEW n \in Numbers
       PROVE  spoken'[n] <= 1 + faults' /\ (spoken'[n] <= faults' \/ Ending(n)')
  <2>1. spoken[n] <= 1 + faults /\ (spoken[n] <= faults \/ Ending(n))
    BY <1>11 DEF Paid
  <2>2. spoken[n] \in Nat /\ faults \in Nat /\ faults' \in Nat /\ spoken'[n] \in Nat
    BY <1>7
  <2>3. CASE n = c
    <3>1. notices[c].item = "pending"
      BY <1>3, <1>11 DEF Paid
    <3>2. ~Ending(n)
      BY <1>2, <1>11, <2>3, <3>1 DEF Ending, Busy
    <3>3. spoken[n] <= faults
      BY <2>1, <3>2
    <3>4. CASE taken /\ ok
      <4>1. Ending(n)'
        BY <1>2, <1>4, <1>6, <2>3, <3>4 DEF Ending, c
      <4> QED BY <1>1, <1>7, <2>2, <2>3, <3>3, <3>4, <4>1
    <3>5. CASE ~(taken /\ ok)
      BY <1>1, <1>7, <2>2, <2>3, <3>3, <3>5
    <3> QED BY <3>4, <3>5
  <2>4. CASE n # c
    <3>1. Ending(n) => Ending(n)'
      <4>1. \A v \in Workers : v = w
        BY <1>11
      <4>2. Current(w) # n
        BY <2>4 DEF c
      <4>3. Ending(n) => n \in DOMAIN notices /\ notices[n].item = "completed"
        BY <4>1, <4>2 DEF Ending, Busy
      <4> QED BY <1>2, <4>3 DEF Ending
    <3> QED BY <1>7, <2>1, <2>2, <2>4, <3>1
  <2> QED BY <2>3, <2>4
<1>12. Paid'
  <2>1. (\A u, v \in Workers : u = v) =>
          \A v \in Workers : \A a \in DOMAIN worker'[v].batch :
            notices'[worker'[v].batch[a].notice].item = "pending"
    BY <1>2, <1>6 DEF Paid
  <2> QED BY <1>11, <2>1 DEF Paid
<1>13. Bounded' /\ Evidence' /\ Spaced' /\ Announced'
  BY <1>2, <1>8, PassFrame
<1> QED BY <1>8, <1>9, <1>10, <1>12, <1>13

LEMMA RecordKeeps ==
  ASSUME IInv, NEW w \in Workers, RecordAttempt(w)
  PROVE  IInv'
<1> USE DEF IInv
<1> DEFINE c == Current(w)
           pass == [worker[w] EXCEPT !.phase = AfterAttempt(w),
                                     !.channel = IF AfterAttempt(w) = "send" THEN @ + 1 ELSE @]
           attempt == [notice |-> c, channel |-> Channel(w), confirmed |-> worker[w].ok]
<1>1. /\ worker[w].phase = "record" /\ w \in Busy
      /\ ledger' = ledger \cup {attempt} /\ worker' = [worker EXCEPT ![w] = pass]
      /\ UNCHANGED <<now, alarms, notices, spoken, retried, faults>>
  BY DEF RecordAttempt, Busy
<1>2. /\ worker[w] \in Passes /\ worker[w].channel \in DOMAIN Channels
      /\ c \in DOMAIN notices /\ c \in Numbers
  BY <1>1, InHand DEF Passing
<1>3. Len(Channels) \in Nat /\ DOMAIN Channels = 1..Len(Channels)
  BY AttentionAssumption
<1>4. /\ AfterAttempt(w) \in {"mark", "send", "fail"}
      /\ AfterAttempt(w) = "mark" <=> worker[w].ok
      /\ AfterAttempt(w) = "send" => worker[w].channel + 1 \in DOMAIN Channels
  <2>1. worker[w].ok \in BOOLEAN /\ worker[w].channel \in 1..Len(Channels)
    BY <1>2, <1>3 DEF Passes
  <2>2. CASE worker[w].ok
    BY <2>2 DEF AfterAttempt
  <2>3. CASE ~worker[w].ok /\ worker[w].channel < Len(Channels)
    <3>1. AfterAttempt(w) = "send"
      BY <2>3 DEF AfterAttempt
    <3> QED BY <1>3, <2>1, <2>3, <3>1
  <2>4. CASE ~worker[w].ok /\ ~(worker[w].channel < Len(Channels))
    <3>1. AfterAttempt(w) = "fail"
      BY <2>4 DEF AfterAttempt
    <3> QED BY <2>4, <3>1
  <2> QED BY <2>1, <2>2, <2>3, <2>4
<1>5. /\ pass \in Passes /\ pass.batch = worker[w].batch /\ pass.phase = AfterAttempt(w)
      /\ pass.channel \in DOMAIN Channels
  <2> DEFINE channel == IF AfterAttempt(w) = "send" THEN worker[w].channel + 1 ELSE worker[w].channel
  <2>1. channel \in DOMAIN Channels /\ channel \in 0..Len(Channels)
    BY <1>2, <1>3, <1>4
  <2>2. pass = [worker[w] EXCEPT !.phase = AfterAttempt(w), !.channel = channel]
    OBVIOUS
  <2> HIDE DEF channel, pass
  <2> QED BY <1>2, <1>4, <2>1, <2>2 DEF Passes
<1> HIDE DEF pass
<1>6. /\ worker' \in [Workers -> Passes] /\ worker'[w] = pass
      /\ \A v \in Workers \ {w} : worker'[v] = worker[v]
      /\ \A v \in Workers : worker'[v].batch = worker[v].batch
      /\ Busy' = Busy /\ \A v \in Busy : Current(v)' = Current(v)
  BY <1>1, <1>4, <1>5, WithinItem
<1>7. attempt \in Attempts /\ attempt.notice = c /\ attempt.confirmed = worker[w].ok
  BY <1>2 DEF Attempts, Channel, Passes
<1> HIDE DEF attempt
<1>8. TypeOK'
  BY <1>1, <1>6, <1>7 DEF TypeOK, alarms, Attempts
<1>9. Passing' /\ Hours'
  BY <1>1, <1>5, <1>6 DEF Passing, Hours
<1>10. Confirmed'
  <2>1. worker'[w].phase = "mark" => \E d \in ledger' : d.notice = Current(w)' /\ d.confirmed
    BY <1>1, <1>4, <1>5, <1>6, <1>7
  <2>2. worker'[w].phase # "complete"
    BY <1>4, <1>5, <1>6
  <2> QED BY <1>1, <1>6, <2>1, <2>2 DEF Confirmed, Busy
<1>11. Paid'
  <2>1. \A n \in Numbers : Ending(n) => Ending(n)'
    <3>1. ASSUME NEW n \in Numbers, NEW v \in Busy, Current(v) = n,
                 worker[v].phase \in {"mark", "complete"} \/ (worker[v].phase = "record" /\ worker[v].ok)
          PROVE  Ending(n)'
      <4>1. CASE v = w
        BY <1>1, <1>4, <1>5, <1>6, <3>1, <4>1 DEF Ending
      <4>2. CASE v # w
        BY <1>6, <3>1, <4>2 DEF Ending, Busy
      <4> QED BY <4>1, <4>2
    <3> QED BY <1>1, <3>1 DEF Ending
  <2> QED BY <1>1, <1>6, <2>1 DEF Paid
<1>12. Bounded' /\ Evidence' /\ Spaced' /\ Announced'
  BY <1>1, <1>8, PassFrame
<1> QED BY <1>8, <1>9, <1>10, <1>11, <1>12

LEMMA MarkKeeps ==
  ASSUME IInv, NEW w \in Workers, MarkDelivered(w)
  PROVE  IInv'
<1> USE DEF IInv
<1> DEFINE c == Current(w)
           row == [notices[c] EXCEPT !.attention = "delivered"]
           pass == [worker[w] EXCEPT !.phase = "complete"]
<1>1. /\ worker[w].phase = "mark" /\ w \in Busy
      /\ notices' = [notices EXCEPT ![c] = row] /\ worker' = [worker EXCEPT ![w] = pass]
      /\ UNCHANGED <<now, alarms, ledger, spoken, retried, faults>>
  BY DEF MarkDelivered, Goto, Busy
<1>2. /\ worker[w] \in Passes /\ worker[w].channel \in DOMAIN Channels
      /\ c \in DOMAIN notices /\ notices[c] \in Rows
  BY <1>1, InHand, RowsAreNumbers DEF Passing
<1>3. /\ row \in Rows /\ row.attention = "delivered"
      /\ row.about = notices[c].about /\ row.severity = notices[c].severity
      /\ row.made = notices[c].made /\ row.item = notices[c].item
      /\ row.available = notices[c].available
  BY <1>2 DEF Rows
<1>4. /\ pass \in Passes /\ pass.batch = worker[w].batch /\ pass.phase = "complete"
      /\ pass.channel \in DOMAIN Channels
  BY <1>2 DEF Passes
<1> HIDE DEF pass, row, c
<1>5. /\ worker' \in [Workers -> Passes] /\ worker'[w] = pass
      /\ \A v \in Workers \ {w} : worker'[v] = worker[v]
      /\ \A v \in Workers : worker'[v].batch = worker[v].batch
      /\ Busy' = Busy /\ \A v \in Busy : Current(v)' = Current(v)
  BY <1>1, <1>4, WithinItem
<1>6. /\ notices' \in Seq(Rows) /\ Len(notices') = Len(notices) /\ DOMAIN notices' = DOMAIN notices
      /\ \A n \in DOMAIN notices : notices'[n] = IF n = c THEN row ELSE notices[n]
  BY <1>1, <1>2, <1>3, RowEdited
<1>7. TypeOK'
  BY <1>1, <1>5, <1>6 DEF TypeOK, alarms
<1>8. \A n \in DOMAIN notices :
        /\ notices'[n].about = notices[n].about /\ notices'[n].severity = notices[n].severity
        /\ notices'[n].made = notices[n].made /\ notices'[n].available = notices[n].available
        /\ notices'[n].item = notices[n].item
        /\ notices[n].attention = "delivered" => notices'[n].attention = "delivered"
  BY <1>3, <1>6
<1>9. Passing' /\ Hours'
  BY <1>1, <1>4, <1>5, <1>6, <1>8 DEF Passing, Hours
<1>10. Confirmed'
  <2>1. notices'[Current(w)'].attention = "delivered"
    BY <1>1, <1>2, <1>3, <1>5, <1>6 DEF c
  <2>2. \A v \in Busy : Current(v) \in DOMAIN notices
    BY InHand
  <2> QED BY <1>1, <1>4, <1>5, <1>8, <2>1, <2>2 DEF Confirmed, Busy
<1>11. Paid'
  <2>1. \A n \in Numbers : Ending(n) => Ending(n)'
    BY <1>1, <1>4, <1>5, <1>6, <1>8 DEF Ending, Busy
  <2>2. \A v \in Workers : \A a \in DOMAIN worker[v].batch : worker[v].batch[a].notice \in DOMAIN notices
    BY DEF Passing
  <2> QED BY <1>1, <1>5, <1>8, <2>1, <2>2 DEF Paid
<1>12. Bounded' /\ Evidence' /\ Spaced' /\ Announced'
  BY <1>1, <1>6, <1>7, <1>8, PassFrame
<1> QED BY <1>7, <1>9, <1>10, <1>11, <1>12

\* The outcome of an item is written and the pass goes on to the next.
LEMMA OutcomeKeeps ==
  ASSUME IInv, NEW w \in Workers, Complete(w) \/ RecordFailure(w)
  PROVE  IInv'
<1> USE DEF IInv
<1> DEFINE c == Current(w)
<1>1. /\ worker[w].phase \in {"complete", "fail"} /\ w \in Busy /\ NextItem(w)
      /\ UNCHANGED <<now, alarms, ledger, spoken, retried, faults>>
  BY DEF Complete, RecordFailure, Busy
<1>2. c \in DOMAIN notices /\ notices[c] \in Rows /\ Head(worker[w].batch).attempts \in 0..MaxAttempts
      /\ c = worker[w].batch[1].notice /\ 1 \in DOMAIN worker[w].batch
  BY <1>1, InHand, RowsAreNumbers DEF Bookings
<1>3. PICK row \in Rows :
        /\ notices' = [notices EXCEPT ![c] = row]
        /\ row.about = notices[c].about /\ row.severity = notices[c].severity
        /\ row.made = notices[c].made /\ row.available = notices[c].available
        /\ row.attention = notices[c].attention
        /\ (worker[w].phase = "complete" => row.item = "completed")
        /\ (worker[w].phase = "fail" => row.item \in {notices[c].item, "dead_letter"})
  <2>1. CASE Complete(w)
    <3>1. notices' = [notices EXCEPT ![c] = Completed(notices[c])] /\ worker[w].phase = "complete"
      BY <2>1 DEF Complete
    <3>2. Completed(notices[c]) \in Rows
      BY <1>2 DEF Completed, Rows, Items
    <3> QED BY <1>2, <3>1, <3>2 DEF Completed, Rows
  <2>2. CASE RecordFailure(w)
    <3> DEFINE tried == Head(worker[w].batch).attempts
    <3>1. notices' = [notices EXCEPT ![c] = Failed(notices[c], tried)] /\ worker[w].phase = "fail"
      BY <2>2 DEF RecordFailure
    <3>2. /\ MaxAttempts \in Nat \ {0} /\ now \in 0..MaxTime /\ Backoff \in Nat /\ MaxTime \in Nat
          /\ tried \in 0..MaxAttempts
      BY <1>2, AttentionAssumption DEF TypeOK
    <3>3. now + Backoff \in Instants /\ ~(tried + 1 >= MaxAttempts) => tried + 1 \in 0..MaxAttempts
      BY <3>2 DEF Instants
    <3> HIDE DEF tried
    <3>4. now + Backoff \in Instants /\ MaxAttempts \in 0..MaxAttempts
      BY <3>2 DEF Instants
    <3>5. Failed(notices[c], tried) \in Rows
      BY <1>2, <3>2, <3>3, <3>4 DEF Failed, Rows, Items
    <3> QED BY <1>2, <3>1, <3>5 DEF Failed, Rows
  <2> QED BY <2>1, <2>2
<1> HIDE DEF c
<1>4. /\ notices' \in Seq(Rows) /\ Len(notices') = Len(notices) /\ DOMAIN notices' = DOMAIN notices
      /\ \A n \in DOMAIN notices : notices'[n] = IF n = c THEN row ELSE notices[n]
  BY <1>2, <1>3, RowEdited
<1>5. /\ worker' \in [Workers -> Passes]
      /\ \A v \in Workers \ {w} : worker'[v] = worker[v]
      /\ worker'[w].phase = IF worker'[w].batch = <<>> THEN "idle" ELSE "send"
      /\ \A a \in DOMAIN worker'[w].batch :
           /\ a \in Nat /\ a + 1 \in DOMAIN worker[w].batch
           /\ worker'[w].batch[a] = worker[w].batch[a + 1]
  BY <1>1, MovedUp
<1>6. TypeOK'
  BY <1>1, <1>4, <1>5 DEF TypeOK, alarms
<1>7. \A n \in DOMAIN notices :
        /\ notices'[n].about = notices[n].about /\ notices'[n].severity = notices[n].severity
        /\ notices'[n].made = notices[n].made /\ notices'[n].available = notices[n].available
        /\ notices'[n].attention = notices[n].attention
  BY <1>3, <1>4
<1>8. /\ Passing'
      /\ \A v \in Workers : \A a \in DOMAIN worker'[v].batch :
           notices'[worker'[v].batch[a].notice].available <= now'
  BY <1>1, <1>4, <1>7, MovedUpKeeps
<1>9. Hours'
  BY <1>1, <1>4, <1>7, <1>8 DEF Hours
<1>10. Confirmed'
  <2>1. worker'[w].phase \in {"idle", "send"}
    BY <1>5
  <2>2. \A v \in Workers : worker'[v].phase \in {"mark", "complete"} =>
          v # w /\ worker'[v] = worker[v] /\ Current(v) \in DOMAIN notices
    BY <1>5, <2>1, InHand DEF Busy
  <2> QED BY <1>1, <1>7, <2>2 DEF Confirmed, Current
<1>11. Paid'
  <2> SUFFICES ASSUME \A u, v \in Workers : u = v
               PROVE  /\ \A v \in Workers : \A a \in DOMAIN worker'[v].batch :
                           notices'[worker'[v].batch[a].notice].item = "pending"
                      /\ \A n \in Numbers : /\ spoken'[n] <= 1 + faults'
                                            /\ spoken'[n] <= faults' \/ Ending(n)'
    BY DEF Paid
  <2>1. \A v \in Workers : v = w
    OBVIOUS
  <2>2. \A a \in DOMAIN worker[w].batch : /\ notices[worker[w].batch[a].notice].item = "pending"
                                          /\ worker[w].batch[a].notice \in DOMAIN notices
    BY DEF Paid, Passing
  <2>3. ASSUME NEW a \in DOMAIN worker'[w].batch
        PROVE  notices'[worker'[w].batch[a].notice].item = "pending"
    <3>1. a + 1 \in DOMAIN worker[w].batch /\ a + 1 # 1
          /\ worker'[w].batch[a] = worker[w].batch[a + 1]
      <4>1. worker'[w].batch \in Seq(Bookings)
        BY <1>5 DEF Passes, Bookings
      <4>2. a # 0
        BY <4>1
      <4> QED BY <1>5, <4>2
    <3>2. worker[w].batch[a + 1].notice # c
      BY <1>2, <3>1 DEF Passing
    <3> QED BY <1>4, <2>2, <3>1, <3>2
  <2>4. ASSUME NEW n \in Numbers, Ending(n)
        PROVE  Ending(n)' \/ (n = c /\ worker[w].phase = "fail" /\ ~Ending(n))
    <3>1. notices[c].item = "pending"
      BY <1>2, <2>2
    <3>2. CASE n = c
      <4>1. CASE worker[w].phase = "complete"
        BY <1>2, <1>3, <1>4, <3>2, <4>1 DEF Ending
      <4>2. CASE worker[w].phase = "fail"
        BY <2>1, <3>1, <3>2, <4>2 DEF Ending, Busy
      <4> QED BY <1>1, <4>1, <4>2
    <3>3. CASE n # c
      <4>1. n \in DOMAIN notices /\ notices[n].item = "completed"
        BY <2>1, <2>4, <3>3 DEF Ending, Busy, c
      <4> QED BY <1>4, <3>3, <4>1 DEF Ending
    <3> QED BY <3>2, <3>3
  <2> QED BY <1>1, <2>1, <2>3, <2>4 DEF Paid
<1>12. Bounded' /\ Evidence' /\ Spaced' /\ Announced'
  BY <1>1, <1>4, <1>6, <1>7, PassFrame
<1> QED BY <1>6, <1>8, <1>9, <1>10, <1>11, <1>12

-----------------------------------------------------------------------------
(* Faults, the operator and the clock.                                        *)

\* With one fault more nothing is owed about repetitions.
LEMMA PaidByFault ==
  ASSUME IInv, faults' = faults + 1, UNCHANGED <<notices, spoken>>,
         \A v \in Workers : worker'[v].batch = worker[v].batch \/ worker'[v].batch = <<>>
  PROVE  Paid'
<1> USE DEF IInv
<1>1. faults \in Nat /\ spoken \in [Numbers -> Nat]
  BY AttentionAssumption DEF TypeOK
<1>2. ASSUME \A u, v \in Workers : u = v, NEW n \in Numbers
      PROVE  spoken'[n] <= faults' /\ spoken'[n] <= 1 + faults'
  <2>1. spoken[n] \in Nat /\ spoken[n] <= 1 + faults
    BY <1>1, <1>2 DEF Paid
  <2> QED BY <1>1, <2>1
<1>3. ASSUME \A u, v \in Workers : u = v, NEW v \in Workers, NEW a \in DOMAIN worker'[v].batch
      PROVE  notices'[worker'[v].batch[a].notice].item = "pending"
  <2>1. worker'[v].batch = worker[v].batch
    BY <1>3
  <2> QED BY <1>3, <2>1 DEF Paid
<1> QED BY <1>2, <1>3 DEF Paid

LEMMA DatabaseKeeps ==
  ASSUME IInv, NEW w \in Workers, DatabaseFails(w)
  PROVE  IInv'
<1> USE DEF IInv
<1>1. /\ w \in Busy /\ worker[w] \in Passes /\ faults < MaxFaults /\ faults' = faults + 1
      /\ worker \in [Workers -> Passes] /\ worker[w].channel \in DOMAIN Channels
      /\ UNCHANGED <<now, alarms, notices, ledger, spoken, retried>>
  BY DEF DatabaseFails, Busy, Passing, TypeOK
<1>2. PICK pass \in Passes :
        /\ worker' = [worker EXCEPT ![w] = pass]
        /\ \/ pass.phase = "idle" /\ pass.batch = <<>>
           \/ pass.phase = "fail" /\ pass.batch = worker[w].batch /\ pass.channel = worker[w].channel
  <2>1. CASE worker' = [worker EXCEPT ![w] = Idle]
    <3>1. Idle \in Passes
      BY AttentionAssumption DEF Idle, Passes
    <3> QED BY <2>1, <3>1 DEF Idle
  <2>2. CASE Goto(w, "fail")
    <3> DEFINE pass == [worker[w] EXCEPT !.phase = "fail"]
    <3>1. worker' = [worker EXCEPT ![w] = pass]
      BY <2>2 DEF Goto
    <3>2. pass \in Passes /\ pass.phase = "fail" /\ pass.batch = worker[w].batch
          /\ pass.channel = worker[w].channel
      BY <1>1 DEF Passes
    <3> QED BY <3>1, <3>2
  <2> QED BY <2>1, <2>2 DEF DatabaseFails
<1>3. /\ worker' \in [Workers -> Passes] /\ worker'[w] = pass
      /\ \A v \in Workers \ {w} : worker'[v] = worker[v]
  BY <1>1, <1>2
<1>4. TypeOK'
  <2>1. faults' \in 0..MaxFaults
    BY <1>1, AttentionAssumption DEF TypeOK
  <2> QED BY <1>1, <1>3, <2>1 DEF TypeOK, alarms
<1>5. Passing' /\ Hours'
  <2>1. w \in Workers /\ worker[w].batch # <<>>
    BY <1>1 DEF Passing
  <2> QED BY <1>1, <1>2, <1>3, <2>1 DEF Passing, Hours, Busy
<1>6. Confirmed'
  BY <1>1, <1>2, <1>3 DEF Confirmed, Current
<1>7. Paid'
  BY <1>1, <1>2, <1>3, PaidByFault
<1>8. Bounded' /\ Evidence' /\ Spaced' /\ Announced'
  BY <1>1, <1>4, PassFrame
<1> QED BY <1>4, <1>5, <1>6, <1>7, <1>8

LEMMA RestartKeeps ==
  ASSUME IInv, Restart
  PROVE  IInv'
<1> USE DEF IInv
<1>1. /\ faults < MaxFaults /\ faults' = faults + 1 /\ worker' = [w \in Workers |-> Idle]
      /\ event' = [e \in Events |-> IF event[e] = "conflict" THEN "lost" ELSE event[e]]
      /\ UNCHANGED <<now, incidents, episodes, reminder, notices, ledger, spoken, retried>>
  BY DEF Restart
<1>2. \A w \in Workers : worker'[w].phase = "idle" /\ worker'[w].batch = <<>>
  BY <1>1 DEF Idle
<1>3. TypeOK'
  <2>1. Idle \in Passes /\ faults' \in 0..MaxFaults
    BY <1>1, AttentionAssumption DEF Idle, Passes, TypeOK
  <2> QED BY <1>1, <2>1 DEF TypeOK
<1>4. Stored' = Stored /\ Fired' = Fired
  BY <1>1 DEF Stored, Fired
<1>5. Bounded' /\ Spaced' /\ Announced'
  BY <1>1, <1>4 DEF Bounded, Spaced, InterruptionsAreSpaced, Announced
<1>6. Evidence'
  BY <1>1, AttentionAssumption DEF Evidence, ActiveOnes
<1>7. Passing' /\ Hours' /\ Confirmed'
  BY <1>1, <1>2 DEF Passing, Hours, Confirmed, Busy
<1>8. Paid'
  BY <1>1, <1>2, PaidByFault
<1> QED BY <1>3, <1>5, <1>6, <1>7, <1>8

LEMMA RetryKeeps ==
  ASSUME IInv, NEW n \in DOMAIN notices, Retry(n)
  PROVE  IInv'
<1> USE DEF IInv
<1> DEFINE row == [notices[n] EXCEPT !.item = "pending", !.next = Never, !.lock = Never,
                                     !.available = now]
<1>1. /\ notices[n].item = "dead_letter" /\ notices' = [notices EXCEPT ![n] = row]
      /\ retried' = retried \cup {n}
      /\ UNCHANGED <<now, alarms, ledger, spoken, worker, faults>>
  BY DEF Retry
<1>2. now \in 0..MaxTime /\ notices[n] \in Rows /\ n \in Numbers
  BY RowsAreNumbers DEF TypeOK
<1>3. /\ row \in Rows /\ row.item = "pending" /\ row.available = now
      /\ row.about = notices[n].about /\ row.severity = notices[n].severity
      /\ row.made = notices[n].made /\ row.attention = notices[n].attention
  BY <1>2 DEF Rows, Items
<1> HIDE DEF row
<1>4. /\ notices' \in Seq(Rows) /\ Len(notices') = Len(notices) /\ DOMAIN notices' = DOMAIN notices
      /\ \A m \in DOMAIN notices : notices'[m] = IF m = n THEN row ELSE notices[m]
  BY <1>1, <1>3, RowEdited
<1>5. TypeOK'
  BY <1>1, <1>2, <1>4 DEF TypeOK, alarms
<1>6. Passing'
  BY <1>1, <1>4 DEF Passing, Busy
<1>7. Hours'
  <2>1. \A m \in DOMAIN notices' \ retried' : m # n /\ notices'[m] = notices[m]
    BY <1>1, <1>4
  <2>2. now <= now
    BY <1>2, AttentionAssumption
  <2>3. \A w \in Workers : \A a \in DOMAIN worker'[w].batch :
          notices'[worker'[w].batch[a].notice].available <= now'
    BY <1>1, <1>3, <1>4, <2>2 DEF Hours, Passing
  <2> QED BY <1>1, <2>1, <2>3 DEF Hours
<1>8. Confirmed'
  <2>1. \A w \in Workers : worker[w].phase = "complete" => Current(w) \in DOMAIN notices
    BY InHand DEF Busy
  <2> QED BY <1>1, <1>3, <1>4, <2>1 DEF Confirmed, Current
<1>9. Paid'
  <2>1. \A m \in Numbers : Ending(m) => Ending(m)'
    BY <1>1, <1>4 DEF Ending, Busy, Current
  <2>2. \A m \in DOMAIN notices : notices[m].item = "pending" => notices'[m].item = "pending"
    BY <1>3, <1>4
  <2>3. \A w \in Workers : \A a \in DOMAIN worker[w].batch : worker[w].batch[a].notice \in DOMAIN notices
    BY DEF Passing
  <2> QED BY <1>1, <2>1, <2>2, <2>3 DEF Paid
<1>10. Bounded' /\ Evidence' /\ Spaced' /\ Announced'
  BY <1>1, <1>3, <1>4, <1>5, PassFrame
<1> QED BY <1>5, <1>6, <1>7, <1>8, <1>9, <1>10

LEMMA TickKeeps ==
  ASSUME IInv, Tick
  PROVE  IInv'
<1> USE DEF IInv
<1>1. /\ now < MaxTime /\ now' = now + 1
      /\ UNCHANGED <<alarms, notices, ledger, spoken, retried, worker, faults>>
  BY DEF Tick
<1>2. now \in Nat /\ now' \in 0..MaxTime /\ MaxTime \in Nat
  BY <1>1, AttentionAssumption DEF TypeOK
<1>3. TypeOK'
  BY <1>1, <1>2 DEF TypeOK, alarms
<1>4. \A n \in DOMAIN notices : notices[n].made \in Nat /\ notices[n].available \in Nat
  BY <1>2, RowsAreNumbers DEF Rows
<1>5. Bounded' /\ Evidence' /\ Announced'
  BY <1>1 DEF alarms, Bounded, Stored, Fired, Evidence, ActiveOnes, Announced
<1>6. Spaced'
  BY <1>1, <1>2, <1>4 DEF Spaced, InterruptionsAreSpaced
<1>7. Passing' /\ Confirmed'
  BY <1>1 DEF Passing, Confirmed, Busy, Current
<1>8. Hours'
  BY <1>1, <1>2, <1>4 DEF Hours, Passing
<1>9. Paid'
  BY <1>1 DEF Paid, Ending, Busy, Current
<1> QED BY <1>3, <1>5, <1>6, <1>7, <1>8, <1>9

-----------------------------------------------------------------------------
(* The theorems.                                                              *)

LEMMA NextIInv == IInv /\ [Next]_vars => IInv'
<1> SUFFICES ASSUME IInv, [Next]_vars PROVE IInv'
  OBVIOUS
<1>1. CASE \E e \in Events : Handle(e)
  BY <1>1, OpenKeeps, UpdateKeeps, MeetKeeps, ClearKeeps DEF Handle
<1>2. CASE \E i \in DOMAIN incidents : Acknowledge(i) \/ Resolve(i)
  BY <1>2, StatusKeeps DEF Acknowledge, Resolve, Active
<1>3. CASE \E r \in Reminders : CreateReminder(r) \/ CancelReminder(r)
  BY <1>3, PlanKeeps
<1>4. CASE \E w \in Workers : Work(w) \/ DatabaseFails(w)
  BY <1>4, ClaimKeeps, SendKeeps, RecordKeeps, MarkKeeps, OutcomeKeeps, DatabaseKeeps DEF Work
<1>5. CASE \E n \in DOMAIN notices : Retry(n)
  BY <1>5, RetryKeeps
<1>6. CASE UNCHANGED vars
  BY <1>6 DEF vars, alarms, IInv, TypeOK, Bounded, Stored, Fired, Evidence, ActiveOnes, Spaced,
              InterruptionsAreSpaced, Announced, Passing, Busy, Hours, Confirmed, Current, Paid, Ending
<1> QED BY <1>1, <1>2, <1>3, <1>4, <1>5, <1>6, FireKeeps, RestartKeeps, TickKeeps DEF Next

\* The inductive invariant, for any events, reminders, workers, channels and bounds.
THEOREM AttentionInvariant == Spec => []IInv
<1> QED BY InitIInv, NextIInv, PTL DEF Spec

\* Every variable keeps its type; notices and incidents never outnumber their causes
\* (raise_attention, RuleEngine, ReminderWorker).
THEOREM AttentionTypes == Spec => []TypeOK
<1>1. IInv => TypeOK
  BY DEF IInv
<1> QED BY <1>1, AttentionInvariant, PTL

\* A stored report is evidence of exactly one incident and at most one is active;
\* interruptions about the condition are a cooldown apart (AlertService).
THEOREM IncidentsFaithful == Spec => []IncidentsAreFaithful
<1>1. IInv => IncidentsAreFaithful
  <2> SUFFICES ASSUME IInv PROVE IncidentsAreFaithful
    OBVIOUS
  <2>1. ASSUME NEW e \in Raising
        PROVE  Cardinality({i \in DOMAIN incidents : e \in incidents[i].evidence})
                 = IF event[e] = "stored" THEN 1 ELSE 0
    <3> DEFINE I == {i \in DOMAIN incidents : e \in incidents[i].evidence}
    <3>1. CASE event[e] = "stored"
      <4>1. PICK i \in DOMAIN incidents : /\ e \in incidents[i].evidence
                                          /\ \A j \in DOMAIN incidents \ {i} : e \notin incidents[j].evidence
        BY <3>1 DEF IInv, Evidence
      <4>2. I = {i}
        BY <4>1
      <4> QED BY <3>1, <4>2, FS_Singleton
    <3>2. CASE event[e] # "stored"
      <4>1. I = {}
        BY <3>2 DEF IInv, Evidence
      <4> QED BY <3>2, <4>1, FS_EmptySet
    <3> QED BY <3>1, <3>2
  <2>2. Cardinality(ActiveOnes) <= 1
    <3>1. CASE ActiveOnes = {}
      BY <3>1, FS_EmptySet
    <3>2. CASE ActiveOnes # {}
      <4>1. PICK i \in ActiveOnes : TRUE
        BY <3>2
      <4>2. \A j \in ActiveOnes : j = i
        BY <4>1 DEF IInv, Evidence
      <4>3. ActiveOnes = {i}
        BY <4>1, <4>2
      <4>4. Cardinality({i}) = 1
        BY FS_Singleton
      <4> QED BY <4>3, <4>4
    <3> QED BY <3>1, <3>2
  <2> QED BY <2>1, <2>2 DEF IncidentsAreFaithful, EvidenceIsKept, IInv, Spaced
<1> QED BY <1>1, AttentionInvariant, PTL

\* With one general lane, a notice is spoken once more than there were lost answers,
\* database errors and restarts, at most (OutboxWorker, NotificationHandler).
THEOREM RepeatsArePaid == Spec => []RepeatsCostFaults
<1>1. IInv => RepeatsCostFaults
  <2>1. Cardinality(Workers) = 1 => \A v, w \in Workers : v = w
    BY AttentionAssumption, FS_Singleton
  <2> QED BY <2>1 DEF IInv, Paid, RepeatsCostFaults
<1> QED BY <1>1, AttentionInvariant, PTL

\* A notice made in quiet hours is silent until they end, unless an operator asks
\* for it; a critical one never waits for them (quiet_hours_deferral).
THEOREM QuietHours == Spec => QuietHoursHold
<1> DEFINE Quietly ==
      \A n \in DOMAIN notices :
        /\ spoken'[n] > spoken[n] /\ notices[n].severity # "critical" /\ n \notin retried
             => now >= QuietEnd(notices[n].made)
        /\ notices[n].severity = "critical" /\ n \notin retried => notices[n].available = notices[n].made
<1>1. IInv /\ [Next]_vars => [Quietly]_vars
  <2> SUFFICES ASSUME IInv, Next PROVE Quietly
    OBVIOUS
  <2> USE DEF IInv
  <2>1. \A n \in DOMAIN notices : spoken[n] \in Nat /\ n \in Numbers
    BY SMTT(30), RowsAreNumbers, AttentionAssumption DEF TypeOK
  <2>2. CASE \E w \in Workers : Send(w)
    <3>1. PICK w \in Workers : Send(w)
      BY <2>2
    <3>2. w \in Busy
      BY <3>1 DEF Send, Busy
    <3>3. ASSUME NEW n \in DOMAIN notices, spoken'[n] > spoken[n],
                 notices[n].severity # "critical", n \notin retried
          PROVE  now >= QuietEnd(notices[n].made)
      <4>1. n = Current(w)
        <5>1. \/ spoken' = spoken
              \/ spoken' = [spoken EXCEPT ![Current(w)] = Counted(@)]
          BY <3>1 DEF Send
        <5>2. CASE n # Current(w)
          <6>1. spoken'[n] = spoken[n]
            BY <5>1, <5>2, <2>1 DEF TypeOK
          <6> QED BY <2>1, <3>3, <6>1
        <5> QED BY <5>2
      <4>2. notices[n].available <= now
        BY <3>2, <4>1, InHand DEF Hours
      <4>3. notices[n].available = QuietEnd(notices[n].made)
        BY <3>3 DEF Hours
      <4>4. QuietEnd(notices[n].made) \in Nat /\ now \in Nat
        <5>1. notices[n].made \in 0..MaxTime
          BY RowsAreNumbers DEF Rows
        <5>2. QuietEnd(notices[n].made) \in notices[n].made..MaxTime
          BY <5>1, QuietEnds
        <5> QED BY <5>1, <5>2, AttentionAssumption DEF TypeOK
      <4> QED BY <4>2, <4>3, <4>4
    <3> QED BY <3>3 DEF Hours
  <2>3. CASE ~(\E w \in Workers : Send(w))
    <3>1. UNCHANGED spoken
      BY <2>3 DEF Next, Handle, OpenIncident, MeetIncident, UpdateIncident, IncidentGone, ClearIncident,
                  Acknowledge, Resolve, SetStatus, CreateReminder, CancelReminder, FireReminders, Work,
                  Claim, RecordAttempt, MarkDelivered, Complete, RecordFailure, DatabaseFails, Retry,
                  Restart, Tick
    <3> QED BY <2>1, <3>1 DEF Hours
  <2> QED BY <2>2, <2>3
<1> QED BY <1>1, AttentionInvariant, PTL DEF Spec, QuietHoursHold

\* A fired reminder has exactly one notice, any other none, and a cancelled one stays
\* cancelled (ReminderWorker.tick, ReminderService.cancel).
THEOREM RemindersOnce == Spec => RemindersFireOnce
<1> DEFINE Once ==
      \A r \in Reminders :
        Cardinality({n \in DOMAIN notices : notices[n].about = r}) = IF reminder[r] = "fired" THEN 1 ELSE 0
<1> DEFINE Stays ==
      \A r \in Reminders : reminder[r] = "cancelled" => reminder'[r] = "cancelled"
<1>1. IInv => Once
  <2> SUFFICES ASSUME IInv, NEW r \in Reminders
               PROVE  Cardinality({n \in DOMAIN notices : notices[n].about = r})
                        = IF reminder[r] = "fired" THEN 1 ELSE 0
    OBVIOUS
  <2> DEFINE N == {n \in DOMAIN notices : notices[n].about = r}
  <2>1. CASE reminder[r] = "fired"
    <3>1. PICK n \in DOMAIN notices :
            notices[n].about = r /\ \A m \in DOMAIN notices \ {n} : notices[m].about # r
      BY <2>1 DEF IInv, Announced
    <3>2. N = {n}
      BY <3>1
    <3> QED BY <2>1, <3>2, FS_Singleton
  <2>2. CASE reminder[r] # "fired"
    <3>1. N = {}
      BY <2>2 DEF IInv, Announced
    <3> QED BY <2>2, <3>1, FS_EmptySet
  <2> QED BY <2>1, <2>2
<1>2. IInv /\ [Next]_vars => [Stays]_vars
  <2> SUFFICES ASSUME IInv, Next PROVE Stays
    OBVIOUS
  <2>1. reminder \in [Reminders -> {"none", "scheduled", "fired", "cancelled"}]
    BY DEF IInv, TypeOK
  <2>2. CASE \E r \in Reminders : CreateReminder(r) \/ CancelReminder(r)
    BY <2>1, <2>2 DEF CreateReminder, CancelReminder
  <2>3. CASE FireReminders
    BY <2>1, <2>3 DEF FireReminders, DueNow
  <2>4. CASE ~FireReminders /\ ~(\E r \in Reminders : CreateReminder(r) \/ CancelReminder(r))
    <3>1. UNCHANGED reminder
      BY <2>4 DEF Next, Handle, OpenIncident, MeetIncident, UpdateIncident, IncidentGone, ClearIncident,
                  Acknowledge, Resolve, SetStatus, Work, Claim, Send, RecordAttempt, MarkDelivered,
                  Complete, RecordFailure, DatabaseFails, Retry, Restart, Tick, alarms
    <3> QED BY <3>1
  <2> QED BY <2>2, <2>3, <2>4
<1> QED BY <1>1, <1>2, AttentionInvariant, PTL DEF Spec, RemindersFireOnce

-----------------------------------------------------------------------------
(* The delivery implements the contract.                                      *)

\* Steps that touch neither the rows nor the ledger.
LEMMA PromiseStays ==
  ASSUME UNCHANGED <<notices, ledger>>
  PROVE  Promise' = Promise /\ Receipts' = Receipts
BY DEF Promise, Receipts

\* Rows that are added are owed.
LEMMA PromiseMade ==
  ASSUME IInv, UNCHANGED ledger, DOMAIN notices \subseteq DOMAIN notices',
         \A n \in DOMAIN notices : notices'[n] = notices[n],
         \A n \in DOMAIN notices' \ DOMAIN notices :
           notices'[n].attention = "pending" /\ notices'[n].item = "pending"
  PROVE  \E N \in SUBSET Numbers : Contract!Owe(N)
<1> DEFINE N == {n \in Numbers : n \in DOMAIN notices' \ DOMAIN notices}
<1>1. Receipts' = Receipts /\ \A n \in N : Promise[n] = "none"
  BY DEF Receipts, Promise
<1>2. Promise' = [n \in Numbers |-> IF n \in N THEN "owed" ELSE Promise[n]]
  BY DEF Promise
<1>3. N \in SUBSET Numbers
  OBVIOUS
<1> HIDE DEF N
<1>4. \A n \in N : Promise[n] \in {"none"}
  BY <1>1
<1>5. Contract!Owe(N)
  BY <1>1, <1>2, <1>4 DEF Contract!Owe, Contract!Become
<1> QED BY <1>3, <1>5

\* A row that is edited moves its own promise only.
LEMMA PromiseMoves ==
  ASSUME IInv, UNCHANGED ledger, NEW c \in DOMAIN notices, DOMAIN notices' = DOMAIN notices,
         \A n \in DOMAIN notices \ {c} : notices'[n] = notices[n]
  PROVE  /\ c \in Numbers /\ Receipts' = Receipts
         /\ Promise'[c] \in {"delivered", "given_up", "owed"} /\ Promise[c] \in {"delivered", "given_up", "owed"}
         /\ Promise' = [n \in Numbers |-> IF n \in {c} THEN Promise'[c] ELSE Promise[n]]
         /\ Promise'[c] = Promise[c] => Promise' = Promise
         /\ Promise'[c] = "delivered" <=> notices'[c].attention = "delivered"
         /\ Promise'[c] = "given_up" <=>
              notices'[c].attention # "delivered" /\ notices'[c].item = "dead_letter"
         /\ Promise[c] = "delivered" <=> notices[c].attention = "delivered"
         /\ Promise[c] = "given_up" <=>
              notices[c].attention # "delivered" /\ notices[c].item = "dead_letter"
<1>1. c \in Numbers
  BY RowsAreNumbers DEF IInv
<1> QED BY <1>1 DEF Promise, Receipts

\* Every step is a step of the contract or leaves the promises alone.
LEMMA StepKeepsPromise ==
  ASSUME IInv, Next
  PROVE  Contract!ContractNext \/ (Promise' = Promise /\ Receipts' = Receipts)
<1> USE DEF IInv
<1>1. ASSUME NEW w \in Workers, RecordAttempt(w)
      PROVE  Contract!ContractNext \/ (Promise' = Promise /\ Receipts' = Receipts)
  <2> DEFINE c == Current(w)
             attempt == [notice |-> c, channel |-> Channel(w), confirmed |-> worker[w].ok]
  <2>1. ledger' = ledger \cup {attempt} /\ UNCHANGED notices /\ w \in Busy
    BY <1>1 DEF RecordAttempt, Busy
  <2>2. c \in DOMAIN notices /\ c \in Numbers
    BY <2>1, InHand
  <2>3. Promise' = Promise /\ Promise[c] \in {"owed", "given_up", "delivered"}
    BY <2>1, <2>2 DEF Promise
  <2>4. attempt.notice = c /\ attempt.confirmed = worker[w].ok
    OBVIOUS
  <2> HIDE DEF attempt, c
  <2>5. CASE worker[w].ok
    <3>1. Receipts' = Receipts \cup {c}
      BY <2>1, <2>2, <2>4, <2>5 DEF Receipts
    <3>2. Contract!Confirm(c)
      BY <2>3, <3>1 DEF Contract!Confirm
    <3> QED BY <2>2, <3>2 DEF Contract!ContractNext
  <2>6. CASE ~worker[w].ok
    <3>1. Receipts' = Receipts
      BY <2>1, <2>4, <2>6 DEF Receipts
    <3> QED BY <2>3, <3>1
  <2> QED BY <2>5, <2>6
<1>2. ASSUME NEW c \in DOMAIN notices, UNCHANGED ledger, DOMAIN notices' = DOMAIN notices,
             \A n \in DOMAIN notices \ {c} : notices'[n] = notices[n],
             \/ /\ notices'[c].attention = "delivered"
                /\ notices[c].attention = "delivered" \/ c \in Receipts
             \/ /\ notices'[c].attention = notices[c].attention
                /\ notices'[c].item \in {notices[c].item, "dead_letter", "pending"}
      PROVE  Contract!ContractNext \/ (Promise' = Promise /\ Receipts' = Receipts)
  <2> DEFINE p == Promise[c]
             q == Promise'[c]
  <2>1. /\ c \in Numbers /\ Receipts' = Receipts
        /\ p \in {"delivered", "given_up", "owed"} /\ q \in {"delivered", "given_up", "owed"}
        /\ Promise' = [n \in Numbers |-> IF n \in {c} THEN q ELSE Promise[n]]
        /\ q = p => Promise' = Promise
        /\ p = "delivered" => q = "delivered"
        /\ q = "delivered" /\ p # "delivered" => c \in Receipts
    BY <1>2, PromiseMoves
  <2> HIDE DEF p, q
  <2>2. CASE q = p
    BY <2>1, <2>2
  <2>3. CASE q = "delivered" /\ p # "delivered"
    <3>1. Contract!Deliver(c)
      BY <2>1, <2>3 DEF Contract!Deliver, Contract!Become, p
    <3> QED BY <2>1, <3>1 DEF Contract!ContractNext
  <2>4. CASE q = "given_up" /\ p = "owed"
    <3>1. Contract!GiveUp(c)
      BY <2>1, <2>4 DEF Contract!GiveUp, Contract!Become, p
    <3> QED BY <2>1, <3>1 DEF Contract!ContractNext
  <2>5. CASE q = "owed" /\ p = "given_up"
    <3>1. Contract!TakeUp(c)
      BY <2>1, <2>5 DEF Contract!TakeUp, Contract!Become, p
    <3> QED BY <2>1, <3>1 DEF Contract!ContractNext
  <2> QED BY <2>1, <2>2, <2>3, <2>4, <2>5
<1>3. ASSUME NEW e \in Events, OpenIncident(e) \/ UpdateIncident(e)
      PROVE  Contract!ContractNext
  <2>1. PICK i \in Nat : Interrupt(i)
    <3>1. CASE OpenIncident(e)
      <4>1. Len(incidents) + 1 \in Nat
        BY RowsAreNumbers
      <4> QED BY <3>1, <4>1 DEF OpenIncident
    <3>2. CASE UpdateIncident(e)
      BY <3>2, RowsAreNumbers DEF UpdateIncident, ActiveOnes
    <3> QED BY <1>3, <3>1, <3>2
  <2>2. UNCHANGED ledger
    BY <1>3 DEF OpenIncident, UpdateIncident
  <2>3. /\ DOMAIN notices \subseteq DOMAIN notices'
        /\ \A n \in DOMAIN notices : notices'[n] = notices[n]
        /\ \A n \in DOMAIN notices' \ DOMAIN notices : notices'[n] = Notice(i, "critical")
    <3>1. CASE notices' = notices
      BY <3>1
    <3>2. CASE notices' = Append(notices, Notice(i, "critical"))
      BY <3>2 DEF TypeOK
    <3> QED BY <2>1, <3>1, <3>2 DEF Interrupt
  <2>4. \A n \in DOMAIN notices' \ DOMAIN notices :
          notices'[n].attention = "pending" /\ notices'[n].item = "pending"
    BY <2>3 DEF Notice
  <2> QED BY <2>2, <2>3, <2>4, PromiseMade DEF Contract!ContractNext
<1>4. ASSUME FireReminders
      PROVE  Contract!ContractNext
  <2>1. PICK order \in [1..Cardinality(DueNow) -> DueNow] :
          /\ \A a, b \in DOMAIN order : a < b => order[a] # order[b]
          /\ notices' = notices \o [a \in DOMAIN order |-> Notice(order[a], "notice")]
    BY <1>4 DEF FireReminders
  <2> DEFINE new == [a \in DOMAIN order |-> Notice(order[a], "notice")]
             k == Cardinality(DueNow)
             L == Len(notices)
  <2>2. k \in Nat /\ DOMAIN order = 1..k
    BY <2>1, DueOrder
  <2>3. new \in [1..k -> Rows] /\ \A a \in 1..k : new[a].attention = "pending" /\ new[a].item = "pending"
    <3>1. ASSUME NEW a \in 1..k
          PROVE  new[a] \in Rows /\ new[a].attention = "pending" /\ new[a].item = "pending"
      <4>1. new[a] = Notice(order[a], "notice") /\ order[a] \in Reminders
        BY <2>2 DEF DueNow
      <4> QED BY <4>1, NoticeForm DEF Notice
    <3> QED BY <2>2, <3>1
  <2>4. notices' = notices \o new /\ notices \in Seq(Rows)
    BY <2>1 DEF TypeOK
  <2>5. new \in Seq(Rows) /\ Len(new) = k /\ L \in Nat
    <3> HIDE DEF new, k
    <3> QED BY <2>2, <2>3, <2>4
  <2> HIDE DEF new, k, L
  <2>6. /\ notices' \in Seq(Rows) /\ Len(notices') = L + k
        /\ \A n \in 1..(L + k) : notices'[n] = IF n <= L THEN notices[n] ELSE new[n - L]
    BY <2>4, <2>5, ConcatProperties DEF L
  <2>7. DOMAIN notices = 1..L /\ DOMAIN notices' = 1..(L + k)
    BY <2>2, <2>4, <2>5, <2>6 DEF L
  <2>8. \A n \in DOMAIN notices : n \in DOMAIN notices' /\ notices'[n] = notices[n]
    BY <2>2, <2>5, <2>6, <2>7
  <2>9. \A n \in DOMAIN notices' \ DOMAIN notices :
          notices'[n].attention = "pending" /\ notices'[n].item = "pending"
    <3>1. ASSUME NEW n \in DOMAIN notices' \ DOMAIN notices
          PROVE  n - L \in 1..k /\ notices'[n] = new[n - L]
      BY <2>2, <2>5, <2>6, <2>7
    <3> QED BY <2>3, <3>1
  <2>10. UNCHANGED ledger
    BY <1>4 DEF FireReminders
  <2> QED BY <2>8, <2>9, <2>10, PromiseMade DEF Contract!ContractNext
<1>5. ASSUME NEW w \in Workers, MarkDelivered(w) \/ Complete(w) \/ RecordFailure(w)
      PROVE  Contract!ContractNext \/ (Promise' = Promise /\ Receipts' = Receipts)
  <2> DEFINE c == Current(w)
  <2>1. w \in Busy /\ UNCHANGED ledger
    BY <1>5 DEF MarkDelivered, Complete, RecordFailure, Busy
  <2>2. c \in DOMAIN notices /\ c \in Numbers /\ notices[c] \in Rows
    BY <2>1, InHand, RowsAreNumbers
  <2>3. CASE MarkDelivered(w)
    <3>1. notices' = [notices EXCEPT ![c] = [notices[c] EXCEPT !.attention = "delivered"]]
      BY <2>3 DEF MarkDelivered
    <3>2. c \in Receipts
      BY <2>2, <2>3 DEF MarkDelivered, Confirmed, Receipts
    <3>3. notices'[c].attention = "delivered" /\ DOMAIN notices' = DOMAIN notices
          /\ \A n \in DOMAIN notices \ {c} : notices'[n] = notices[n]
      BY <2>2, <3>1 DEF Rows
    <3> QED BY <1>2, <2>1, <2>2, <3>2, <3>3
  <2>4. CASE Complete(w)
    <3>1. notices' = [notices EXCEPT ![c] = Completed(notices[c])]
      BY <2>4 DEF Complete
    <3>2. notices[c].attention = "delivered"
      BY <2>4 DEF Complete, Confirmed
    <3>3. notices'[c].attention = "delivered" /\ DOMAIN notices' = DOMAIN notices
          /\ \A n \in DOMAIN notices \ {c} : notices'[n] = notices[n]
      BY <2>2, <3>1, <3>2 DEF Completed, Rows
    <3> QED BY <1>2, <2>1, <2>2, <3>2, <3>3
  <2>5. CASE RecordFailure(w)
    <3> DEFINE row == Failed(notices[c], Head(worker[w].batch).attempts)
    <3>1. notices' = [notices EXCEPT ![c] = row]
      BY <2>5 DEF RecordFailure
    <3>2. row.attention = notices[c].attention /\ row.item \in {notices[c].item, "dead_letter"}
      BY <2>2 DEF Failed, Rows
    <3> HIDE DEF row
    <3>3. notices'[c] = row /\ DOMAIN notices' = DOMAIN notices
          /\ \A n \in DOMAIN notices \ {c} : notices'[n] = notices[n]
      BY <2>2, <3>1
    <3> QED BY <1>2, <2>1, <2>2, <3>2, <3>3
  <2> QED BY <1>5, <2>3, <2>4, <2>5
<1>6. ASSUME NEW n \in DOMAIN notices, Retry(n)
      PROVE  Contract!ContractNext \/ (Promise' = Promise /\ Receipts' = Receipts)
  <2>1. /\ DOMAIN notices' = DOMAIN notices /\ UNCHANGED ledger
        /\ notices'[n].attention = notices[n].attention /\ notices'[n].item = "pending"
        /\ \A m \in DOMAIN notices \ {n} : notices'[m] = notices[m]
    BY <1>6, RowsAreNumbers DEF Retry, Rows
  <2> QED BY <1>2, <2>1
<1>7. ASSUME NEW w \in Workers, Claim(w)
      PROVE  Promise' = Promise /\ Receipts' = Receipts
  <2>1. /\ DOMAIN notices' = DOMAIN notices /\ UNCHANGED ledger
        /\ \A n \in DOMAIN notices : /\ notices'[n].attention = notices[n].attention
                                     /\ notices'[n].item = notices[n].item
    <3>1. PICK claimed \in Claims :
            notices' = [n \in DOMAIN notices |->
              IF \E a \in DOMAIN claimed : claimed[a] = n THEN [notices[n] EXCEPT !.lock = now]
                                                          ELSE notices[n]]
      BY <1>7 DEF Claim
    <3>2. UNCHANGED ledger
      BY <1>7 DEF Claim
    <3> QED BY <3>1, <3>2, RowsAreNumbers DEF Rows
  <2> QED BY <2>1 DEF Promise, Receipts
<1>8. CASE UNCHANGED <<notices, ledger>>
  BY <1>8, PromiseStays
<1> QED BY <1>1, <1>3, <1>4, <1>5, <1>6, <1>7, <1>8
        DEF Next, Handle, MeetIncident, IncidentGone, ClearIncident, Acknowledge, Resolve, SetStatus,
            CreateReminder, CancelReminder, Work, Send, DatabaseFails, Restart, Tick

\* Every notice is owed from its transaction on, delivered only after a confirmation
\* and then for good, or given up in view of the operator (NotificationHandler,
\* OutboxWorker, retry_outbox_item).
THEOREM PromiseIsKept == Spec => KeepsPromise
<1>1. Init => Contract!ContractInit
  BY DEF Init, Contract!ContractInit, Promise, Receipts
<1>2. IInv /\ [Next]_vars => [Contract!ContractNext]_(Contract!cvars)
  <2> SUFFICES ASSUME IInv, [Next]_vars
               PROVE  Contract!ContractNext \/ UNCHANGED Contract!cvars
    OBVIOUS
  <2>1. CASE Next
    BY <2>1, StepKeepsPromise DEF Contract!cvars
  <2>2. CASE UNCHANGED vars
    BY <2>2, PromiseStays DEF vars, Contract!cvars
  <2> QED BY <2>1, <2>2
<1> QED BY <1>1, <1>2, AttentionInvariant, PTL DEF Spec, KeepsPromise, Contract!ContractSpec

-----------------------------------------------------------------------------
(* The microphone's two gates (Capture)                                        *)

\* The last frames up to f, without a gap.
Run(s, f) == Len(s) <= f /\ \A k \in 1 .. Len(s) : s[k] = f - Len(s) + k
Least(f) == IF f < Ring THEN f ELSE Ring

\* What a gate that has been given every frame holds.
Continuous(g, f) ==
  /\ g.active => Run(g.capture, f) /\ Len(g.capture) >= Least(f) /\ f > 0
  /\ ~g.active => Run(g.ring, f) /\ Len(g.ring) = Least(f)

Kinds == {"room", "echo", "late"}

CpTypes ==
  /\ lane \in {"barge_in", "idle", "none"} /\ barge \in Gates /\ idle \in Gates
  /\ frame \in 0 .. Frames /\ left \in 0 .. Replies
  /\ recognizer \in Seq(Kinds) /\ Len(recognizer) <= Depth
  /\ hand \in Kinds \cup {"none"} /\ heard \subseteq Kinds
  /\ voiced \subseteq 1 .. frame
  /\ last.frames \in Seq(Nat) /\ last \in [frames : Seq(Nat), silent : BOOLEAN]

\* What is in the recognizer's way is the reply that is played, and none otherwise.
Echoes ==
  /\ "echo" \notin heard
  /\ ~speaking => hand # "echo" /\ \A k \in 1 .. Len(recognizer) : recognizer[k] # "echo"

\* The idle gate is in the middle of nothing while another listens.
Lanes ==
  /\ lane = "idle" => endpointing
  /\ lane # "idle" => ~idle.active

Followed == endpointing => Continuous(idle, frame)

\* The silence at the end of a capture is silent.
Silent == idle.active => \A k \in 0 .. idle.silence - 1 : frame - k \notin voiced

\* The frames of the utterance before end where the silence began that ended it, and
\* the next one begins a lead-in before the frames that started it.
End == last.frames[Len(last.frames)]
Apart ==
  last.frames # <<>> =>
    /\ endpointing
    /\ End \in 0 .. frame /\ \A k \in 1 .. Len(last.frames) : last.frames[k] <= End
    /\ last.silent => \A k \in 0 .. Silence - 1 : End - k \notin voiced
    /\ ~idle.active => idle.hot <= frame - End
    /\ idle.active => \A k \in 1 .. Len(idle.capture) :
                        idle.capture[k] >= End + Start - Ring + 1

CpInv == CpTypes /\ Echoes /\ Lanes /\ Followed /\ Silent /\ Apart

\* A gate.

LEMMA LastOfIs ==
  ASSUME NEW S, NEW s \in Seq(S), NEW k \in Nat
  PROVE  /\ LastOf(s, k) \in Seq(S)
         /\ Len(LastOf(s, k)) = IF Len(s) > k THEN k ELSE Len(s)
         /\ \A j \in 1 .. Len(LastOf(s, k)) :
              LastOf(s, k)[j] = s[Len(s) - Len(LastOf(s, k)) + j]
<1> DEFINE m == IF Len(s) > k THEN Len(s) - k + 1 ELSE 1
<1>1. Len(s) \in Nat /\ m \in Int /\ m \in 1 .. Len(s) + 1 /\ \A i \in 1 .. Len(s) : s[i] \in S
  OBVIOUS
<1>2. \A i \in m .. Len(s) : s[i] \in S
  BY <1>1
<1>3. LastOf(s, k) = SubSeq(s, m, Len(s))
  BY DEF LastOf
<1>4. Len(s) - m + 1 = IF Len(s) > k THEN k ELSE Len(s)
  OBVIOUS
<1> HIDE DEF m
<1>5. /\ LastOf(s, k) \in Seq(S)
      /\ Len(LastOf(s, k)) = IF m <= Len(s) THEN Len(s) - m + 1 ELSE 0
      /\ \A j \in 1 .. Len(s) - m + 1 : LastOf(s, k)[j] = s[m + j - 1]
  BY <1>1, <1>2, <1>3, SubSeqProperties
<1>6. Len(LastOf(s, k)) = Len(s) - m + 1
  BY <1>1, <1>5
<1>7. ASSUME NEW j \in 1 .. Len(LastOf(s, k))
      PROVE  LastOf(s, k)[j] = s[Len(s) - Len(LastOf(s, k)) + j]
  <2>1. j \in 1 .. Len(s) - m + 1 /\ m + j - 1 = Len(s) - Len(LastOf(s, k)) + j
    BY <1>1, <1>6
  <2>2. LastOf(s, k)[j] = s[m + j - 1]
    BY <1>5, <2>1
  <2> QED BY <2>1, <2>2
<1> QED BY <1>4, <1>5, <1>6, <1>7

LEMMA LastOfRun ==
  ASSUME NEW s \in Seq(Nat), NEW f \in Nat, NEW k \in Nat, Run(s, f)
  PROVE  Run(LastOf(s, k), f)
<1> DEFINE t == LastOf(s, k)
<1>1. /\ t \in Seq(Nat) /\ Len(t) = IF Len(s) > k THEN k ELSE Len(s)
      /\ \A j \in 1 .. Len(t) : t[j] = s[Len(s) - Len(t) + j]
  BY LastOfIs
<1> HIDE DEF t
<1>2. Len(t) \in Nat /\ Len(s) \in Nat /\ Len(t) <= Len(s)
  BY <1>1
<1>3. ASSUME NEW j \in 1 .. Len(t) PROVE t[j] = f - Len(t) + j
  <2>1. Len(s) - Len(t) + j \in 1 .. Len(s)
    BY <1>2
  <2>2. s[Len(s) - Len(t) + j] = f - Len(s) + (Len(s) - Len(t) + j)
    BY <2>1 DEF Run
  <2>3. t[j] = s[Len(s) - Len(t) + j]
    BY <1>1
  <2>4. f - Len(s) + (Len(s) - Len(t) + j) = f - Len(t) + j
    BY <1>2
  <2> QED BY <2>2, <2>3, <2>4
<1>4. Len(t) <= f
  BY <1>2 DEF Run
<1> QED BY <1>3, <1>4 DEF Run, t

LEMMA AppendRun ==
  ASSUME NEW s \in Seq(Nat), NEW f \in Nat, Run(s, f)
  PROVE  /\ Append(s, f + 1) \in Seq(Nat) /\ Len(Append(s, f + 1)) = Len(s) + 1
         /\ Run(Append(s, f + 1), f + 1)
<1>1. /\ Append(s, f + 1) \in Seq(Nat) /\ Len(Append(s, f + 1)) = Len(s) + 1 /\ Len(s) \in Nat
      /\ \A i \in 1 .. Len(s) : Append(s, f + 1)[i] = s[i]
      /\ Append(s, f + 1)[Len(s) + 1] = f + 1
  BY AppendProperties
<1> QED BY <1>1 DEF Run

LEMMA DeafIs ==
  ASSUME CaptureAssumption
  PROVE  Deaf \in Gates /\ ~Deaf.active /\ Deaf.hot = 0 /\ Deaf.silence = 0 /\ Deaf.ring = <<>>
<1>1. <<>> \in Seq(Nat) /\ Start \in Nat /\ Silence \in Nat => Deaf \in Gates
  BY DEF Deaf, Gates
<1>2. Start \in Nat /\ Silence \in Nat
  BY DEF CaptureAssumption
<1> QED BY <1>1, <1>2 DEF Deaf

LEMMA GateFields ==
  ASSUME NEW g \in Gates
  PROVE  /\ g.ring \in Seq(Nat) /\ g.capture \in Seq(Nat) /\ g.hot \in 0 .. Start
         /\ g.speech \in Nat /\ g.silence \in 0 .. Silence /\ g.active \in BOOLEAN
  BY DEF Gates

LEMMA SetRing ==
  ASSUME NEW g \in Gates, NEW r \in Seq(Nat)
  PROVE  [g EXCEPT !.ring = r] \in Gates
  BY DEF Gates

LEMMA BufferedIs ==
  ASSUME CaptureAssumption, NEW g \in Gates, NEW f \in Nat
  PROVE  /\ Buffered(g, f) \in Gates /\ Buffered(g, f).active = g.active
         /\ Buffered(g, f).capture = g.capture /\ Buffered(g, f).hot = g.hot
         /\ Buffered(g, f).silence = g.silence /\ Buffered(g, f).speech = g.speech
         /\ g.active => Buffered(g, f) = g
         /\ ~g.active => Buffered(g, f).ring = LastOf(Append(g.ring, f), Ring)
<1> DEFINE r == LastOf(Append(g.ring, f), Ring)
<1>1. r \in Seq(Nat)
  <2>1. Append(g.ring, f) \in Seq(Nat)
    BY GateFields, AppendProperties
  <2> QED BY <2>1, LastOfIs DEF CaptureAssumption
<1>2. [g EXCEPT !.ring = LastOf(Append(@, f), Ring)] = [g EXCEPT !.ring = r]
  BY DEF Gates
<1> HIDE DEF r
<1> DEFINE h == [g EXCEPT !.ring = r]
<1>3. /\ h \in Gates /\ h.active = g.active /\ h.capture = g.capture /\ h.hot = g.hot
      /\ h.silence = g.silence /\ h.speech = g.speech /\ h.ring = r
  BY <1>1 DEF Gates
<1> HIDE DEF h
<1>4. CASE g.active
  <2>1. Buffered(g, f) = g
    BY <1>4, Zenon DEF Buffered
  <2> QED BY <1>4, <2>1
<1>5. CASE ~g.active
  <2>1. Buffered(g, f) = h
    BY <1>5, <1>2, Zenon DEF Buffered, h
  <2> QED BY <1>5, <1>3, <2>1 DEF r
<1> QED BY <1>4, <1>5

LEMMA SetHot ==
  ASSUME NEW g \in Gates, NEW n \in 0 .. Start
  PROVE  /\ [g EXCEPT !.hot = n] \in Gates
         /\ [g EXCEPT !.hot = n].active = g.active /\ [g EXCEPT !.hot = n].ring = g.ring
         /\ [g EXCEPT !.hot = n].hot = n
  BY DEF Gates

LEMMA SetCapture ==
  ASSUME NEW g \in Gates, NEW c \in Seq(Nat), NEW n \in Nat, NEW z \in 0 .. Silence,
         0 \in 0 .. Start
  PROVE  /\ [g EXCEPT !.active = TRUE, !.capture = c, !.hot = 0, !.speech = n, !.silence = z]
              \in Gates
         /\ [g EXCEPT !.capture = c, !.speech = n, !.silence = z] \in Gates
  BY DEF Gates

LEMMA WaitingIs ==
  ASSUME CaptureAssumption, NEW g \in Gates, ~g.active, NEW f \in Nat, NEW sound
  PROVE  /\ Waiting(g, f, sound) \in Gates
         /\ \/ /\ ~Waiting(g, f, sound).active
               /\ Waiting(g, f, sound).ring = LastOf(Append(g.ring, f), Ring)
               /\ Waiting(g, f, sound).hot <= g.hot + 1
            \/ /\ Waiting(g, f, sound).active
               /\ Waiting(g, f, sound).capture = LastOf(Append(g.ring, f), Ring)
               /\ Waiting(g, f, sound).silence = 0
               /\ g.hot + 1 >= Start
<1> DEFINE h == Buffered(g, f)
           n == IF sound = "speech" THEN g.hot + 1 ELSE 0
           a == [h EXCEPT !.hot = n]
           b == [h EXCEPT !.active = TRUE, !.capture = h.ring, !.hot = 0, !.speech = n,
                          !.silence = 0]
<1>1. h \in Gates /\ h.ring = LastOf(Append(g.ring, f), Ring) /\ h.active = g.active
  BY BufferedIs
<1>2. n \in Nat /\ n <= g.hot + 1 /\ Start \in Nat /\ Silence \in Nat
  BY GateFields DEF CaptureAssumption
<1>3. Waiting(g, f, sound) = IF n < Start THEN a ELSE b
  BY DEF Waiting
<1> HIDE DEF h, n
<1>4. CASE n < Start
  <2>1. Waiting(g, f, sound) = a
    BY <1>3, <1>4
  <2>2. a \in Gates /\ a.active = h.active /\ a.ring = h.ring /\ a.hot = n
    <3>1. n \in 0 .. Start
      BY <1>2, <1>4
    <3> QED BY <1>1, <3>1, SetHot
  <2> HIDE DEF a
  <2> QED BY <1>1, <1>2, <2>1, <2>2
<1>5. CASE ~(n < Start)
  <2>1. Waiting(g, f, sound) = b
    BY <1>3, <1>5
  <2>2. b \in Gates
    <3>1. 0 \in 0 .. Start /\ 0 \in 0 .. Silence /\ h.ring \in Seq(Nat)
      BY <1>1, <1>2, GateFields
    <3> QED BY <1>1, <1>2, <3>1, SetCapture
  <2>4. b.active /\ b.capture = h.ring /\ b.silence = 0
    BY <1>1 DEF Gates
  <2>3. g.hot + 1 >= Start
    BY <1>2, <1>5, GateFields
  <2> HIDE DEF b
  <2> QED BY <1>1, <2>1, <2>2, <2>3, <2>4
<1> QED BY <1>4, <1>5

LEMMA GrownIs ==
  ASSUME CaptureAssumption, NEW g \in Gates, g.active, NEW f \in Nat, NEW sound
  PROVE  /\ Grown(g, f, sound).capture = Append(g.capture, f) /\ Grown(g, f, sound).active
         /\ Grown(g, f, sound).silence \in Nat
         /\ Grown(g, f, sound).silence = IF sound = "quiet" THEN g.silence + 1 ELSE 0
         /\ Grown(g, f, sound).silence <= Silence => Grown(g, f, sound) \in Gates
<1> DEFINE c == Append(g.capture, f)
           p == IF sound = "quiet" THEN g.speech ELSE g.speech + 1
           s == IF sound = "quiet" THEN g.silence + 1 ELSE 0
           h == [g EXCEPT !.capture = c, !.speech = p, !.silence = s]
<1>1. Grown(g, f, sound) = h
  BY DEF Grown, Gates
<1>2. c \in Seq(Nat) /\ p \in Nat /\ s \in Nat
  <2>1. c \in Seq(Nat)
    BY GateFields, AppendProperties
  <2>2. g.speech \in Nat /\ g.silence \in Nat
    BY GateFields DEF CaptureAssumption
  <2> QED BY <2>1, <2>2
<1> HIDE DEF c, p, s
<1>3. h.capture = c /\ h.active = g.active /\ h.silence = s
  BY DEF Gates
<1>4. s <= Silence => h \in Gates
  <2>1. s <= Silence => s \in 0 .. Silence
    BY <1>2 DEF CaptureAssumption
  <2>2. 0 \in 0 .. Start
    BY DEF CaptureAssumption
  <2> QED BY <1>2, <2>1, <2>2, SetCapture
<1> HIDE DEF h
<1> QED BY <1>1, <1>2, <1>3, <1>4 DEF c, s

LEMMA ObservedIs ==
  ASSUME CaptureAssumption, NEW g \in Gates, NEW f \in Nat, NEW sound
  PROVE  /\ Observed(g, f, sound) \in Gates
         /\ ~g.active => Observed(g, f, sound) = Waiting(g, f, sound) /\ ~Ended(g, f, sound)
         /\ g.active /\ Ended(g, f, sound) =>
              /\ Over(Grown(g, f, sound))
              /\ ~Observed(g, f, sound).active /\ Observed(g, f, sound).hot = 0
              /\ Observed(g, f, sound).ring = LastOf(Append(g.capture, f), Ring)
         /\ g.active /\ ~Ended(g, f, sound) => Observed(g, f, sound) = Grown(g, f, sound)
<1> DEFINE h == Grown(g, f, sound)
           d == [Deaf EXCEPT !.ring = Seed(h.capture)]
<1>1. CASE ~g.active
  <2>1. Observed(g, f, sound) = Waiting(g, f, sound) /\ ~Ended(g, f, sound)
    BY <1>1, Zenon DEF Observed, Ended
  <2> QED BY <1>1, <2>1, WaitingIs
<1>2. CASE g.active /\ Over(h)
  <2>1. h.capture = Append(g.capture, f) /\ Append(g.capture, f) \in Seq(Nat)
    BY <1>2, GrownIs, GateFields, AppendProperties
  <2>2. Seed(h.capture) = LastOf(Append(g.capture, f), Ring) /\ Seed(h.capture) \in Seq(Nat)
    BY <2>1, LastOfIs DEF Seed, CaptureAssumption
  <2>3. Observed(g, f, sound) = d /\ Ended(g, f, sound)
    BY <1>2, Zenon DEF Observed, Ended
  <2>4. d \in Gates /\ d.active = FALSE /\ d.hot = 0 /\ d.ring = Seed(h.capture)
    <3> HIDE DEF h
    <3> QED BY <2>2, DeafIs DEF Gates
  <2> HIDE DEF d
  <2> QED BY <1>2, <2>2, <2>3, <2>4
<1>3. CASE g.active /\ ~Over(h)
  <2>1. Observed(g, f, sound) = h /\ ~Ended(g, f, sound)
    BY <1>3, Zenon DEF Observed, Ended
  <2>4. h.silence \in Nat /\ Silence \in Nat
    BY <1>3, GrownIs DEF CaptureAssumption
  <2>5. ~(h.silence >= Silence)
    BY <1>3, Zenon DEF Over
  <2>2. h.silence <= Silence
    <3> HIDE DEF h
    <3> QED BY <2>4, <2>5
  <2>3. h \in Gates
    BY <1>3, <2>2, GrownIs
  <2> QED BY <1>3, <2>1, <2>3
<1> QED BY <1>1, <1>2, <1>3

\* A gate that is given every frame has no gap.
LEMMA BufferedContinues ==
  ASSUME CaptureAssumption, NEW g \in Gates, ~g.active, NEW f \in Nat, Continuous(g, f)
  PROVE  /\ LastOf(Append(g.ring, f + 1), Ring) \in Seq(Nat)
         /\ Run(LastOf(Append(g.ring, f + 1), Ring), f + 1)
         /\ Len(LastOf(Append(g.ring, f + 1), Ring)) = Least(f + 1)
<1>1. g.ring \in Seq(Nat) /\ Run(g.ring, f) /\ Len(g.ring) = Least(f)
  BY GateFields DEF Continuous
<1> DEFINE a == Append(g.ring, f + 1)
<1>2. a \in Seq(Nat) /\ Len(a) = Len(g.ring) + 1 /\ Run(a, f + 1)
  BY <1>1, AppendRun
<1>3. Ring \in Nat
  BY DEF CaptureAssumption
<1> HIDE DEF a
<1>4. /\ LastOf(a, Ring) \in Seq(Nat) /\ Run(LastOf(a, Ring), f + 1)
      /\ Len(LastOf(a, Ring)) = IF Len(a) > Ring THEN Ring ELSE Len(a)
  <2>1. f + 1 \in Nat
    OBVIOUS
  <2>2. Run(LastOf(a, Ring), f + 1)
    BY <1>2, <1>3, <2>1, LastOfRun
  <2> QED BY <1>2, <1>3, <2>2, LastOfIs
<1>5. Len(LastOf(a, Ring)) = Least(f + 1)
  BY <1>1, <1>2, <1>3, <1>4 DEF Least
<1> QED BY <1>4, <1>5 DEF a

LEMMA BufferedStaysContinuous ==
  ASSUME CaptureAssumption, NEW g \in Gates, ~g.active, NEW f \in Nat, Continuous(g, f)
  PROVE  Continuous(Buffered(g, f + 1), f + 1)
<1>1. /\ Buffered(g, f + 1).active = g.active
      /\ Buffered(g, f + 1).ring = LastOf(Append(g.ring, f + 1), Ring)
  BY BufferedIs
<1> QED BY <1>1, BufferedContinues DEF Continuous

LEMMA ObservedContinues ==
  ASSUME CaptureAssumption, NEW g \in Gates, NEW f \in Nat, NEW sound, Continuous(g, f)
  PROVE  Continuous(Observed(g, f + 1, sound), f + 1)
<1> DEFINE o == Observed(g, f + 1, sound)
<1>1. CASE ~g.active
  <2>1. o = Waiting(g, f + 1, sound)
    BY <1>1, ObservedIs
  <2> DEFINE w == Waiting(g, f + 1, sound)
             l == LastOf(Append(g.ring, f + 1), Ring)
  <2>2. \/ ~w.active /\ w.ring = l
        \/ w.active /\ w.capture = l
    BY <1>1, WaitingIs
  <2>3. Run(l, f + 1) /\ Len(l) = Least(f + 1) /\ Len(l) \in Nat
    BY <1>1, BufferedContinues
  <2> HIDE DEF w, l
  <2>4. Continuous(w, f + 1)
    BY <2>2, <2>3 DEF Continuous
  <2> QED BY <2>1, <2>4 DEF w
<1>2. CASE g.active
  <2> DEFINE c == Append(g.capture, f + 1)
  <2>1. Run(g.capture, f) /\ Len(g.capture) >= Least(f) /\ g.capture \in Seq(Nat)
    BY <1>2, GateFields DEF Continuous
  <2>2. c \in Seq(Nat) /\ Len(c) = Len(g.capture) + 1 /\ Run(c, f + 1) /\ Len(c) \in Nat
    BY <2>1, AppendRun
  <2>3. Len(c) >= Least(f + 1) /\ Ring \in Nat
    BY <2>1, <2>2 DEF Least, CaptureAssumption
  <2> HIDE DEF c
  <2>4. CASE Ended(g, f + 1, sound)
    <3>1. ~o.active /\ o.ring = LastOf(c, Ring)
      BY <1>2, <2>4, ObservedIs DEF c
    <3>2. /\ Run(LastOf(c, Ring), f + 1)
          /\ Len(LastOf(c, Ring)) = IF Len(c) > Ring THEN Ring ELSE Len(c)
      <4>1. f + 1 \in Nat
        OBVIOUS
      <4>2. Run(LastOf(c, Ring), f + 1)
        BY <2>2, <2>3, <4>1, LastOfRun
      <4> QED BY <2>2, <2>3, <4>2, LastOfIs
    <3>3. Len(c) <= f + 1
      BY <2>2 DEF Run
    <3>4. Len(LastOf(c, Ring)) = Least(f + 1)
      BY <2>2, <2>3, <3>2, <3>3 DEF Least
    <3> HIDE DEF o
    <3> QED BY <3>1, <3>2, <3>4 DEF Continuous, o
  <2>5. CASE ~Ended(g, f + 1, sound)
    <3>1. o.active /\ o.capture = c
      BY <1>2, <2>5, ObservedIs, GrownIs DEF c
    <3> HIDE DEF o
    <3> QED BY <2>2, <2>3, <3>1 DEF Continuous, o
  <2> QED BY <2>4, <2>5
<1> QED BY <1>1, <1>2

LEMMA CpInitInv == ASSUME CaptureAssumption, CpInit PROVE CpInv
<1>1. Deaf \in Gates /\ ~Deaf.active /\ Deaf.ring = <<>>
  BY DeafIs
<1>2. /\ lane = "none" /\ barge = Deaf /\ idle = Deaf /\ frame = 0 /\ left = Replies
      /\ recognizer = <<>> /\ hand = "none" /\ heard = {} /\ voiced = {} /\ last = Nothing
  BY DEF CpInit
<1>3. <<>> \in Seq(Kinds) /\ <<>> \in Seq(Nat) /\ Len(<<>>) = 0
  OBVIOUS
<1>4. /\ Depth \in Nat /\ Frames \in Nat /\ Replies \in Nat /\ Ring \in Nat \ {0}
  BY DEF CaptureAssumption
<1>5. last \in [frames : Seq(Nat), silent : BOOLEAN] /\ last.frames = <<>>
  BY <1>2, <1>3 DEF Nothing
<1>6. CpTypes
  BY <1>1, <1>2, <1>3, <1>4, <1>5 DEF CpTypes, Kinds
<1>7. Followed
  BY <1>1, <1>2, <1>3, <1>4 DEF Followed, Continuous, Run, Least
<1> QED BY <1>1, <1>2, <1>3, <1>5, <1>6, <1>7
        DEF CpInv, Echoes, Lanes, Silent, Apart

\* Where the dispatcher sends a frame.
LEMMA LaneMoves ==
  ASSUME CpInv, NEW sound, Dispatch(sound)
  PROVE  /\ lane' \in {"barge_in", "idle", "none"}
         /\ lane' = "idle" => endpointing
         /\ endpointing => lane' # "none"
         /\ lane' # "idle" => ~idle.active
<1>1. lane' = SelectLane
  BY DEF Dispatch
<1>2. \/ lane = "barge_in" /\ SelectLane = "barge_in"
      \/ lane = "idle" /\ SelectLane = "idle"
      \/ /\ lane = "idle" => ~Pending(idle)
         /\ SelectLane = IF speaking THEN "barge_in" ELSE IF endpointing THEN "idle" ELSE "none"
  BY Zenon DEF SelectLane
<1>3. (lane # "idle" => ~idle.active) /\ (lane = "idle" => endpointing)
  BY DEF CpInv, Lanes
<1>4. ~Pending(idle) => ~idle.active
  BY Zenon DEF Pending
<1> QED BY <1>1, <1>2, <1>3, <1>4

\* What it does to the idle gate.
Entered == IF lane' # lane /\ lane' = "idle" THEN EnterIdle(idle) ELSE idle

LEMMA EnteredIs ==
  ASSUME CaptureAssumption, CpInv, NEW sound, Dispatch(sound)
  PROVE  /\ Entered \in Gates
         /\ Entered.active => idle.active /\ Entered = idle
         /\ ~Entered.active => ~idle.active /\ Entered.ring = idle.ring /\ Entered.hot <= idle.hot
<1>1. idle \in Gates
  BY DEF CpInv, CpTypes
<1>2. CASE lane' # lane /\ lane' = "idle"
  <2>1. ~idle.active
    BY <1>2 DEF CpInv, Lanes
  <2>2. EnterIdle(idle) \in Gates /\ ~EnterIdle(idle).active /\ EnterIdle(idle).hot = 0
        /\ EnterIdle(idle).ring = idle.ring
    BY <1>1, DeafIs, GateFields DEF EnterIdle, Gates
  <2>3. Entered = EnterIdle(idle)
    BY <1>2 DEF Entered
  <2>4. 0 <= idle.hot
    BY <1>1, GateFields DEF CaptureAssumption
  <2> QED BY <2>1, <2>2, <2>3, <2>4
<1>3. CASE ~(lane' # lane /\ lane' = "idle")
  <2>1. Entered = idle
    BY <1>3, Zenon DEF Entered
  <2>2. idle.hot <= idle.hot
    BY <1>1, GateFields DEF CaptureAssumption
  <2> QED BY <1>1, <2>1, <2>2
<1> QED BY <1>2, <1>3

LEMMA IdleMoves ==
  ASSUME CaptureAssumption, CpInv, NEW sound, Dispatch(sound)
  PROVE  \/ /\ lane' = "idle" /\ endpointing
            /\ idle' = Observed(Entered, frame + 1, sound)
            /\ ~Ended(Entered, frame + 1, sound) => last' = last
            /\ Ended(Entered, frame + 1, sound) =>
                 last' = [frames |-> IF Grown(Entered, frame + 1, sound).speech >= MinSpeech
                                       THEN Grown(Entered, frame + 1, sound).capture ELSE <<>>,
                          silent |-> Grown(Entered, frame + 1, sound).silence >= Silence]
         \/ /\ lane' # "idle" /\ ~idle.active /\ endpointing
            /\ idle' = Buffered(idle, frame + 1) /\ last' = last
         \/ /\ lane' # "idle" /\ ~idle.active /\ ~endpointing
            /\ idle' = idle /\ last' = last
<1>1. frame' = frame + 1
  BY DEF Dispatch
<1>2. /\ idle' = CASE lane' = "idle" -> Observed(Entered, frame', sound)
                   [] lane' = "barge_in" /\ endpointing -> Buffered(Entered, frame')
                   [] OTHER -> Entered
      /\ last' = IF lane' = "idle" /\ Ended(Entered, frame', sound)
                   THEN [frames |-> IF Grown(Entered, frame', sound).speech >= MinSpeech
                                      THEN Grown(Entered, frame', sound).capture ELSE <<>>,
                         silent |-> Grown(Entered, frame', sound).silence >= Silence]
                   ELSE last
  BY Zenon DEF Dispatch, Entered
<1>3. /\ lane' \in {"barge_in", "idle", "none"}
      /\ lane' = "idle" => endpointing
      /\ endpointing => lane' # "none"
      /\ lane' # "idle" => ~idle.active
  BY LaneMoves
<1>4. CASE lane' = "idle"
  <2>1. idle' = Observed(Entered, frame', sound)
    BY <1>2, <1>4
  <2>2. ~Ended(Entered, frame', sound) => last' = last
    BY <1>2, Zenon
  <2>3. Ended(Entered, frame', sound) =>
          last' = [frames |-> IF Grown(Entered, frame', sound).speech >= MinSpeech
                                THEN Grown(Entered, frame', sound).capture ELSE <<>>,
                   silent |-> Grown(Entered, frame', sound).silence >= Silence]
    BY <1>2, <1>4, Zenon
  <2> QED BY <1>1, <1>3, <1>4, <2>1, <2>2, <2>3, Zenon
<1>5. CASE lane' # "idle"
  <2>1. Entered = idle /\ last' = last
    BY <1>2, <1>5, Zenon DEF Entered
  <2>2. idle' = CASE lane' = "barge_in" /\ endpointing -> Buffered(idle, frame')
                  [] OTHER -> idle
    BY <1>2, <1>5, <2>1
  <2>3. endpointing => lane' = "barge_in"
    BY <1>3, <1>5
  <2> QED BY <1>1, <1>3, <1>5, <2>1, <2>2, <2>3
<1> QED BY <1>4, <1>5

LEMMA BargeMoves ==
  ASSUME CaptureAssumption, CpInv, NEW sound, Dispatch(sound)
  PROVE  barge' \in Gates
<1> DEFINE b == IF lane' # lane /\ "barge_in" \in {lane, lane'} /\ lane' # "idle"
                  THEN Deaf ELSE barge
<1>1. b \in Gates
  BY DeafIs DEF CpInv, CpTypes
<1>2. barge' = IF lane' = "barge_in" THEN Observed(b, frame', sound) ELSE b
  BY Zenon DEF Dispatch
<1>3. frame' \in Nat
  <2>1. frame' = frame + 1
    BY DEF Dispatch
  <2>2. frame \in Nat
    BY DEF CpInv, CpTypes, CaptureAssumption
  <2> QED BY <2>1, <2>2
<1> HIDE DEF b
<1>4. Observed(b, frame', sound) \in Gates
  BY <1>1, <1>3, ObservedIs
<1> QED BY <1>1, <1>2, <1>4

\* What the dispatcher leaves of the rest.
LEMMA FrameMoves ==
  ASSUME CaptureAssumption, CpInv, NEW sound, Dispatch(sound)
  PROVE  /\ frame \in Nat /\ frame' = frame + 1 /\ frame' \in 0 .. Frames
         /\ voiced \subseteq 1 .. frame /\ voiced' \subseteq voiced \cup {frame + 1}
         /\ sound = "quiet" => voiced' = voiced
         /\ UNCHANGED <<endpointing, speaking, left, hand, heard>>
<1>1. frame \in 0 .. Frames /\ Frames \in Nat /\ voiced \subseteq 1 .. frame
  BY DEF CpInv, CpTypes, CaptureAssumption
<1>2. /\ frame < Frames /\ frame' = frame + 1
      /\ voiced' = IF sound = "quiet" \/ ~endpointing THEN voiced ELSE voiced \cup {frame'}
      /\ UNCHANGED <<endpointing, speaking, left, hand, heard>>
  BY DEF Dispatch
<1>3. voiced' \subseteq voiced \cup {frame + 1} /\ (sound = "quiet" => voiced' = voiced)
  BY <1>2
<1> QED BY <1>1, <1>2, <1>3

LEMMA DispatchEchoes ==
  ASSUME CaptureAssumption, CpInv, NEW sound, Dispatch(sound)
  PROVE  /\ recognizer' \in Seq(Kinds) /\ Len(recognizer') <= Depth
         /\ Echoes'
<1> DEFINE kind == IF speaking THEN "echo" ELSE "room"
           a == Append(recognizer, kind)
<1>1. recognizer \in Seq(Kinds) /\ Len(recognizer) <= Depth /\ Depth \in Nat /\ Echoes
  BY DEF CpInv, CpTypes, CaptureAssumption
<1>2. recognizer' = IF endpointing THEN recognizer ELSE LastOf(a, Depth)
  BY DEF Dispatch, DropOldest
<1>3. UNCHANGED <<speaking, hand, heard>>
  BY FrameMoves
<1>4. kind \in Kinds /\ (~speaking => kind # "echo")
  BY DEF Kinds
<1> HIDE DEF kind
<1>5. /\ a \in Seq(Kinds) /\ Len(a) = Len(recognizer) + 1
      /\ \A i \in 1 .. Len(recognizer) : a[i] = recognizer[i]
      /\ a[Len(recognizer) + 1] = kind
  BY <1>1, <1>4, AppendProperties
<1> HIDE DEF a
<1>6. /\ LastOf(a, Depth) \in Seq(Kinds)
      /\ Len(LastOf(a, Depth)) = IF Len(a) > Depth THEN Depth ELSE Len(a)
      /\ \A j \in 1 .. Len(LastOf(a, Depth)) :
           LastOf(a, Depth)[j] = a[Len(a) - Len(LastOf(a, Depth)) + j]
  BY <1>1, <1>5, LastOfIs
<1>7. ASSUME ~speaking, NEW k \in 1 .. Len(recognizer')
      PROVE  recognizer'[k] # "echo"
  <2>1. \A i \in 1 .. Len(recognizer) : recognizer[i] # "echo"
    BY <1>1, <1>7 DEF Echoes
  <2>2. CASE endpointing
    BY <1>2, <1>7, <2>1, <2>2
  <2>3. CASE ~endpointing
    <3>1. recognizer' = LastOf(a, Depth)
      BY <1>2, <2>3
    <3>2. Len(a) \in Nat /\ Len(recognizer) \in Nat
      BY <1>1, <1>5
    <3>3. \A i \in 1 .. Len(a) : a[i] # "echo"
      BY <1>4, <1>5, <1>7, <2>1, <3>2
    <3>4. Len(a) - Len(LastOf(a, Depth)) + k \in 1 .. Len(a)
      BY <1>1, <1>6, <1>7, <3>1, <3>2
    <3> QED BY <1>6, <1>7, <3>1, <3>3, <3>4
  <2> QED BY <2>2, <2>3
<1>8. Echoes'
  BY <1>1, <1>3, <1>7 DEF Echoes
<1>9. recognizer' \in Seq(Kinds) /\ Len(recognizer') <= Depth
  BY <1>1, <1>2, <1>6
<1> QED BY <1>8, <1>9

LEMMA DispatchFollows ==
  ASSUME CaptureAssumption, CpInv, NEW sound, Dispatch(sound)
  PROVE  idle' \in Gates /\ Lanes' /\ Followed'
<1>1. idle \in Gates /\ Followed /\ Lanes
  BY DEF CpInv, CpTypes
<1>2. frame \in Nat /\ frame' = frame + 1 /\ endpointing' = endpointing /\ frame + 1 \in Nat
  BY FrameMoves
<1>3. /\ Entered \in Gates
      /\ Entered.active => idle.active /\ Entered = idle
      /\ ~Entered.active => ~idle.active /\ Entered.ring = idle.ring
  BY EnteredIs
<1>4. CASE /\ lane' = "idle" /\ endpointing
           /\ idle' = Observed(Entered, frame + 1, sound)
  <2>1. Continuous(idle, frame)
    BY <1>1, <1>4 DEF Followed
  <2>2. Continuous(Entered, frame)
    BY <1>3, <2>1 DEF Continuous
  <2>3. idle' \in Gates
    BY <1>2, <1>3, <1>4, ObservedIs
  <2>4. Continuous(idle', frame')
    BY <1>2, <1>3, <1>4, <2>2, ObservedContinues
  <2> QED BY <1>2, <1>4, <2>3, <2>4 DEF Lanes, Followed
<1>5. CASE /\ lane' # "idle" /\ ~idle.active /\ endpointing
           /\ idle' = Buffered(idle, frame + 1)
  <2>1. Continuous(idle, frame)
    BY <1>1, <1>5 DEF Followed
  <2>2. idle' \in Gates /\ ~idle'.active
    BY <1>1, <1>2, <1>5, BufferedIs
  <2>3. Continuous(idle', frame')
    BY <1>1, <1>2, <1>5, <2>1, BufferedStaysContinuous
  <2> QED BY <1>2, <1>5, <2>2, <2>3 DEF Lanes, Followed
<1>6. CASE lane' # "idle" /\ ~idle.active /\ ~endpointing /\ idle' = idle
  BY <1>1, <1>2, <1>6 DEF Lanes, Followed
<1> QED BY <1>4, <1>5, <1>6, IdleMoves

\* A capture goes on: what it knows of its silence.
LEMMA SilenceGoesOn ==
  ASSUME CaptureAssumption, CpInv, NEW sound, Dispatch(sound), idle.active,
         NEW s \in Nat, s = IF sound = "quiet" THEN idle.silence + 1 ELSE 0
  PROVE  \A k \in 0 .. s - 1 : frame + 1 - k \notin voiced'
<1>1. /\ frame \in Nat /\ voiced \subseteq 1 .. frame /\ (sound = "quiet" => voiced' = voiced)
  BY FrameMoves
<1>2. idle.silence \in 0 .. Silence /\ Silence \in Nat
  BY GateFields DEF CpInv, CpTypes, CaptureAssumption
<1>3. \A k \in 0 .. idle.silence - 1 : frame - k \notin voiced
  BY DEF CpInv, Silent
<1> SUFFICES ASSUME NEW k \in 0 .. s - 1
             PROVE  frame + 1 - k \notin voiced'
  OBVIOUS
<1>4. sound = "quiet" /\ s = idle.silence + 1 /\ voiced' = voiced
  BY <1>1
<1>5. CASE k = 0
  BY <1>1, <1>4, <1>5
<1>6. CASE k # 0
  <2>1. k - 1 \in 0 .. idle.silence - 1 /\ frame - (k - 1) = frame + 1 - k
    BY <1>1, <1>2, <1>4, <1>6
  <2>2. frame - (k - 1) \notin voiced
    BY <1>3, <2>1
  <2> QED BY <1>4, <2>1, <2>2
<1> QED BY <1>5, <1>6

LEMMA DispatchSilent ==
  ASSUME CaptureAssumption, CpInv, NEW sound, Dispatch(sound)
  PROVE  Silent'
<1>1. idle \in Gates
  BY DEF CpInv, CpTypes
<1>2. frame \in Nat /\ frame' = frame + 1 /\ frame + 1 \in Nat
  BY FrameMoves
<1>3. /\ Entered \in Gates
      /\ Entered.active => idle.active /\ Entered = idle
      /\ ~Entered.active => ~idle.active
  BY EnteredIs
<1> SUFFICES ASSUME idle'.active
             PROVE  \A k \in 0 .. idle'.silence - 1 : frame' - k \notin voiced'
  BY DEF Silent
<1>4. CASE idle' = Observed(Entered, frame + 1, sound)
  <2>1. CASE ~Entered.active
    <3>1. idle' = Waiting(Entered, frame + 1, sound)
      BY <1>2, <1>3, <1>4, <2>1, ObservedIs
    <3>2. idle'.silence = 0
      BY <1>2, <1>3, <2>1, <3>1, WaitingIs
    <3> QED BY <3>2
  <2>2. CASE Entered.active
    <3>1. Entered = idle /\ idle.active
      BY <1>3, <2>2
    <3>2. ~Ended(idle, frame + 1, sound)
      BY <1>1, <1>2, <1>4, <3>1, ObservedIs
    <3>3. idle' = Grown(idle, frame + 1, sound)
      BY <1>1, <1>2, <1>4, <3>1, <3>2, ObservedIs
    <3>4. idle'.silence \in Nat /\ idle'.silence = IF sound = "quiet" THEN idle.silence + 1 ELSE 0
      BY <1>1, <1>2, <3>1, <3>3, GrownIs
    <3>5. \A k \in 0 .. idle'.silence - 1 : frame + 1 - k \notin voiced'
      BY <3>1, <3>4, SilenceGoesOn
    <3> QED BY <1>2, <3>5
  <2> QED BY <2>1, <2>2
<1>5. CASE ~idle.active /\ idle' = Buffered(idle, frame + 1)
  BY <1>1, <1>2, <1>5, BufferedIs
<1>6. CASE ~idle.active /\ idle' = idle
  BY <1>6
<1> QED BY <1>4, <1>5, <1>6, IdleMoves

\* An utterance ends: where, and in what silence.
LEMMA LastIs ==
  ASSUME NEW c \in Seq(Nat), NEW n, NEW z,
         last' = [frames |-> IF n >= MinSpeech THEN c ELSE <<>>, silent |-> z >= Silence]
  PROVE  /\ last' \in [frames : Seq(Nat), silent : BOOLEAN]
         /\ last'.frames = <<>> \/ last'.frames = c
         /\ last'.silent => z >= Silence
<1>1. <<>> \in Seq(Nat)
  OBVIOUS
<1>2. (z >= Silence) \in BOOLEAN
  OBVIOUS
<1> DEFINE b == z >= Silence
           e == IF n >= MinSpeech THEN c ELSE <<>>
<1>3. last' = [frames |-> e, silent |-> b] /\ b \in BOOLEAN /\ (b => z >= Silence)
  OBVIOUS
<1>4. e \in Seq(Nat) /\ (e = <<>> \/ e = c)
  BY <1>1
<1> HIDE DEF b, e
<1> QED BY <1>3, <1>4

LEMMA CaptureGrows ==
  ASSUME CaptureAssumption, CpInv, idle.active, endpointing
  PROVE  /\ Append(idle.capture, frame + 1) \in Seq(Nat)
         /\ Append(idle.capture, frame + 1)[Len(Append(idle.capture, frame + 1))] = frame + 1
         /\ \A k \in 1 .. Len(Append(idle.capture, frame + 1)) :
              Append(idle.capture, frame + 1)[k] <= frame + 1
<1>1. frame \in Nat /\ idle.capture \in Seq(Nat) /\ Run(idle.capture, frame)
  BY GateFields DEF CpInv, CpTypes, CaptureAssumption, Followed, Continuous
<1> DEFINE c == Append(idle.capture, frame + 1)
           l == Len(idle.capture)
<1>2. /\ c \in Seq(Nat) /\ Len(c) = l + 1 /\ l \in Nat
      /\ \A i \in 1 .. l : c[i] = idle.capture[i]
      /\ c[l + 1] = frame + 1
  BY <1>1, AppendProperties
<1>3. \A k \in 1 .. l : idle.capture[k] = frame - l + k
  BY <1>1, Zenon DEF Run
<1> HIDE DEF c, l
<1>4. c[Len(c)] = frame + 1
  BY <1>2
<1>5. ASSUME NEW k \in 1 .. Len(c) PROVE c[k] <= frame + 1
  <2>1. CASE k = l + 1
    BY <1>1, <1>2, <2>1
  <2>2. CASE k # l + 1
    <3>1. k \in 1 .. l
      BY <1>2, <2>2
    <3>2. c[k] = frame - l + k
      BY <1>2, <1>3, <3>1, Zenon
    <3> QED BY <1>1, <1>2, <3>1, <3>2
  <2> QED BY <2>1, <2>2
<1> QED BY <1>2, <1>4, <1>5 DEF c

LEMMA EndsApart ==
  ASSUME CaptureAssumption, CpInv, NEW sound, Dispatch(sound), endpointing,
         idle' = Observed(Entered, frame + 1, sound), Ended(Entered, frame + 1, sound),
         last'.frames = <<>> \/ last'.frames = Grown(Entered, frame + 1, sound).capture,
         last'.silent => Grown(Entered, frame + 1, sound).silence >= Silence
  PROVE  Apart'
<1>1. /\ frame \in Nat /\ frame' = frame + 1 /\ frame + 1 \in Nat
      /\ endpointing' = endpointing
  <2>1. frame \in Nat /\ frame' = frame + 1 /\ endpointing' = endpointing
    BY FrameMoves, Zenon
  <2> QED BY <2>1
<1>2. Entered = idle /\ idle.active /\ idle \in Gates
  <2>1. Entered.active
    BY Zenon DEF Ended
  <2>2. Entered \in Gates /\ Entered = idle /\ idle.active
    BY <2>1, EnteredIs
  <2> QED BY <2>2
<1> DEFINE h == Grown(idle, frame + 1, sound)
           c == Append(idle.capture, frame + 1)
<1>3. /\ h.capture = c /\ h.silence \in Nat
      /\ h.silence = IF sound = "quiet" THEN idle.silence + 1 ELSE 0
  BY <1>1, <1>2, GrownIs
<1>4. ~idle'.active /\ idle'.hot = 0
  BY <1>1, <1>2, ObservedIs
<1>7. Silence \in Nat \ {0}
  BY DEF CaptureAssumption
<1>8. (last'.frames = <<>> \/ last'.frames = c) /\ (last'.silent => h.silence >= Silence)
  BY <1>2, <1>3
<1>9. h.silence >= Silence => \A k \in 0 .. Silence - 1 : frame + 1 - k \notin voiced'
  <2>1. \A k \in 0 .. h.silence - 1 : frame + 1 - k \notin voiced'
    BY <1>2, <1>3, SilenceGoesOn
  <2> HIDE DEF h
  <2> QED BY <1>3, <1>7, <2>1
<1> HIDE DEF c, h
<1>10. c[Len(c)] = frame + 1 /\ \A k \in 1 .. Len(c) : c[k] <= frame + 1
  BY <1>2, CaptureGrows DEF c
<1>12. CASE last'.frames = <<>>
  BY <1>12 DEF Apart
<1>13. CASE last'.frames = c
  <2>2. End' = frame + 1
    BY <1>10, <1>13 DEF End
  <2>4. last'.silent => \A k \in 0 .. Silence - 1 : frame + 1 - k \notin voiced'
    BY <1>8, <1>9
  <2>5. End' \in 0 .. frame' /\ idle'.hot <= frame' - End'
    BY <1>1, <1>4, <2>2
  <2> QED BY <1>1, <1>4, <1>10, <1>13, <2>2, <2>4, <2>5 DEF Apart
<1> QED BY <1>8, <1>12, <1>13

\* Nothing ends.
LEMMA GoesOnApart ==
  ASSUME CaptureAssumption, CpInv, NEW sound, Dispatch(sound), last' = last
  PROVE  Apart'
<1>1. /\ frame \in Nat /\ frame' = frame + 1 /\ frame + 1 \in Nat
      /\ endpointing' = endpointing
      /\ voiced \subseteq 1 .. frame /\ voiced' \subseteq voiced \cup {frame + 1}
  BY FrameMoves
<1>2. Ring \in Nat /\ Start \in Nat \ {0} /\ Silence \in Nat \ {0} /\ Start <= Ring
  BY DEF CaptureAssumption
<1> SUFFICES ASSUME last.frames # <<>>
             PROVE  Apart'
  BY DEF Apart
<1> DEFINE e == End
<1>3. /\ endpointing /\ e \in 0 .. frame
      /\ \A k \in 1 .. Len(last.frames) : last.frames[k] <= e
      /\ last.silent => \A k \in 0 .. Silence - 1 : e - k \notin voiced
      /\ ~idle.active => idle.hot <= frame - e
      /\ idle.active => \A k \in 1 .. Len(idle.capture) : idle.capture[k] >= e + Start - Ring + 1
  BY DEF CpInv, Apart
<1>4. End' = e
  BY DEF End
<1> HIDE DEF e
<1>5. last.silent => \A k \in 0 .. Silence - 1 : e - k \notin voiced'
  BY <1>1, <1>2, <1>3
<1>6. idle \in Gates /\ idle.hot \in 0 .. Start
  BY GateFields DEF CpInv, CpTypes
<1>7. /\ Entered \in Gates
      /\ Entered.active => idle.active /\ Entered = idle
      /\ ~Entered.active => ~idle.active /\ Entered.ring = idle.ring /\ Entered.hot <= idle.hot
      /\ Entered.hot \in 0 .. Start
  BY EnteredIs, GateFields
<1>8. /\ ~idle'.active => idle'.hot <= frame + 1 - e
      /\ idle'.active => \A k \in 1 .. Len(idle'.capture) : idle'.capture[k] >= e + Start - Ring + 1
  <2>1. CASE /\ idle' = Observed(Entered, frame + 1, sound)
             /\ Ended(Entered, frame + 1, sound)
    <3>1. ~idle'.active /\ idle'.hot = 0
      <4>1. Entered.active
        BY <2>1, Zenon DEF Ended
      <4> QED BY <1>1, <1>7, <2>1, <4>1, ObservedIs
    <3> QED BY <1>1, <1>3, <3>1
  <2>2. CASE /\ idle' = Observed(Entered, frame + 1, sound) /\ Entered.active
             /\ ~Ended(Entered, frame + 1, sound)
    <3>1. Entered = idle /\ idle.active
      BY <1>7, <2>2
    <3>2. idle' = Grown(idle, frame + 1, sound)
      BY <1>1, <1>6, <2>2, <3>1, ObservedIs
    <3>3. idle'.active /\ idle'.capture = Append(idle.capture, frame + 1)
      BY <1>1, <1>6, <3>1, <3>2, GrownIs
    <3>4. /\ Len(idle'.capture) = Len(idle.capture) + 1 /\ Len(idle.capture) \in Nat
          /\ \A k \in 1 .. Len(idle.capture) : idle'.capture[k] = idle.capture[k]
          /\ idle'.capture[Len(idle.capture) + 1] = frame + 1
      BY <1>1, <1>6, <3>3, GateFields, AppendProperties
    <3>5. frame + 1 >= e + Start - Ring + 1
      BY <1>1, <1>2, <1>3
    <3> QED BY <1>3, <3>1, <3>3, <3>4, <3>5
  <2>3. CASE /\ idle' = Observed(Entered, frame + 1, sound) /\ ~Entered.active
    <3> DEFINE w == Waiting(Entered, frame + 1, sound)
               l == LastOf(Append(Entered.ring, frame + 1), Ring)
    <3>1. idle' = w
      BY <1>1, <1>7, <2>3, ObservedIs
    <3>2. \/ ~w.active /\ w.hot <= Entered.hot + 1
          \/ w.active /\ w.capture = l /\ Entered.hot + 1 >= Start
      BY <1>1, <1>7, <2>3, WaitingIs
    <3>3. ~idle.active /\ idle.hot <= frame - e /\ Entered.hot <= frame - e
      BY <1>1, <1>3, <1>6, <1>7, <2>3
    <3>4. w.hot \in 0 .. Start
      BY <1>1, <1>7, <2>3, WaitingIs, GateFields
    <3>5. CASE ~w.active /\ w.hot <= Entered.hot + 1
      <4>1. w.hot <= frame + 1 - e
        BY <1>1, <1>2, <1>3, <1>7, <3>3, <3>4, <3>5
      <4> QED BY <3>1, <3>5, <4>1
    <3>6. CASE w.active /\ w.capture = l /\ Entered.hot + 1 >= Start
      <4>1. Continuous(Entered, frame)
        <5>1. Continuous(idle, frame)
          BY <1>3 DEF CpInv, Followed
        <5> QED BY <1>7, <2>3, <5>1 DEF Continuous
      <4>2. l \in Seq(Nat) /\ Run(l, frame + 1) /\ Len(l) = Least(frame + 1)
        BY <1>1, <1>7, <2>3, <4>1, BufferedContinues
      <4>3. Len(l) \in Nat /\ Len(l) <= Ring
        BY <1>1, <1>2, <4>2 DEF Least
      <4> HIDE DEF l
      <4>4. \A k \in 1 .. Len(l) : l[k] = frame + 1 - Len(l) + k
        BY <1>1, <4>2 DEF Run
      <4>5. frame + 1 >= e + Start
        BY <1>1, <1>2, <1>3, <1>7, <3>3, <3>6
      <4>6. \A k \in 1 .. Len(l) : l[k] >= e + Start - Ring + 1
        BY <1>1, <1>2, <1>3, <4>3, <4>4, <4>5
      <4> QED BY <3>1, <3>6, <4>6
    <3> QED BY <3>2, <3>5, <3>6
  <2>4. CASE ~idle.active /\ idle' = Buffered(idle, frame + 1)
    <3>1. ~idle'.active /\ idle'.hot = idle.hot
      <4> DEFINE b == Buffered(idle, frame + 1)
      <4>1. b.active = idle.active /\ b.hot = idle.hot
        BY <1>1, <1>6, BufferedIs, Zenon
      <4>2. idle' = b
        BY <2>4
      <4> HIDE DEF b
      <4> QED BY <2>4, <4>1, <4>2, Zenon
    <3>2. idle.hot <= frame - e /\ idle.hot \in Nat
      BY <1>2, <1>3, <1>6, <2>4
    <3>3. idle'.hot <= frame + 1 - e
      BY <1>1, <1>3, <3>1, <3>2
    <3> QED BY <3>1, <3>3
  <2>5. CASE ~idle.active /\ idle' = idle
    BY <1>1, <1>2, <1>3, <1>6, <2>5
  <2> QED BY <2>1, <2>2, <2>3, <2>4, <2>5, IdleMoves
<1> QED BY <1>1, <1>3, <1>4, <1>5, <1>8 DEF Apart

LEMMA DispatchKeeps ==
  ASSUME CaptureAssumption, CpInv, NEW sound, Dispatch(sound)
  PROVE  CpInv'
<1>1. last' \in [frames : Seq(Nat), silent : BOOLEAN] /\ Apart'
  <2>1. CASE last' = last
    <3>1. last \in [frames : Seq(Nat), silent : BOOLEAN]
      BY DEF CpInv, CpTypes
    <3> QED BY <2>1, <3>1, GoesOnApart
  <2>2. CASE last' # last
    <3> DEFINE h == Grown(Entered, frame + 1, sound)
    <3>1. /\ endpointing
          /\ idle' = Observed(Entered, frame + 1, sound) /\ Ended(Entered, frame + 1, sound)
          /\ last' = [frames |-> IF h.speech >= MinSpeech THEN h.capture ELSE <<>>,
                      silent |-> h.silence >= Silence]
      BY <2>2, IdleMoves, Zenon
    <3>2. h.capture \in Seq(Nat)
      <4>1. Entered \in Gates /\ Entered.active
        BY <3>1, EnteredIs, Zenon DEF Ended
      <4>2. frame + 1 \in Nat
        BY FrameMoves
      <4>3. h.capture = Append(Entered.capture, frame + 1)
        BY <4>1, <4>2, GrownIs
      <4>4. Entered.capture \in Seq(Nat)
        BY <4>1, GateFields
      <4> HIDE DEF h
      <4> QED BY <4>2, <4>3, <4>4, AppendProperties
    <3> HIDE DEF h
    <3>3. /\ last' \in [frames : Seq(Nat), silent : BOOLEAN]
          /\ last'.frames = <<>> \/ last'.frames = h.capture
          /\ last'.silent => h.silence >= Silence
      BY <3>1, <3>2, LastIs
    <3> QED BY <3>1, <3>3, EndsApart DEF h
  <2> QED BY <2>1, <2>2
<1>2. /\ frame' \in 0 .. Frames /\ frame' = frame + 1 /\ frame \in Nat
      /\ voiced \subseteq 1 .. frame /\ voiced' \subseteq voiced \cup {frame + 1}
      /\ UNCHANGED <<endpointing, speaking, left, hand, heard>>
  BY FrameMoves
<1>3. lane' \in {"barge_in", "idle", "none"} /\ barge' \in Gates
  BY LaneMoves, BargeMoves
<1>4. recognizer' \in Seq(Kinds) /\ Len(recognizer') <= Depth /\ Echoes'
  BY DispatchEchoes
<1>5. idle' \in Gates /\ Lanes' /\ Followed'
  BY DispatchFollows
<1>6. voiced' \subseteq 1 .. frame'
  BY <1>2
<1>7. last'.frames \in Seq(Nat)
  BY <1>1
<1>8. CpTypes'
  BY <1>1, <1>2, <1>3, <1>4, <1>5, <1>6, <1>7 DEF CpInv, CpTypes
<1> QED BY <1>1, <1>4, <1>5, <1>8, DispatchSilent DEF CpInv

LEMMA ReplyKeeps ==
  ASSUME CaptureAssumption, CpInv, BeginReply \/ EndReply PROVE CpInv'
<1>1. CASE BeginReply
  <2>1. /\ left > 0 /\ left' = left - 1 /\ speaking' = TRUE
        /\ UNCHANGED <<endpointing, frame, lane, barge, idle, voiced, last, recognizer, hand, heard>>
    BY <1>1 DEF BeginReply, gating
  <2>2. left' \in 0 .. Replies
    BY <2>1 DEF CpInv, CpTypes, CaptureAssumption
  <2>3. CpTypes' /\ Echoes'
    BY <2>1, <2>2 DEF CpInv, CpTypes, Echoes
  <2>4. Lanes' /\ Followed' /\ Silent' /\ Apart'
    BY <2>1 DEF CpInv, Lanes, Followed, Silent, Apart, End
  <2> QED BY <2>3, <2>4 DEF CpInv
<1>2. CASE EndReply
  <2>1. /\ speaking' = FALSE /\ barge' = Deaf
        /\ recognizer' = [k \in DOMAIN recognizer |-> Unread(recognizer[k])]
        /\ hand' = Unread(hand)
        /\ UNCHANGED <<endpointing, frame, left, lane, idle, voiced, last, heard>>
    BY <1>2 DEF EndReply
  <2>2. recognizer \in Seq(Kinds) /\ Len(recognizer) <= Depth /\ hand \in Kinds \cup {"none"}
    BY DEF CpInv, CpTypes
  <2>3. \A x \in Kinds \cup {"none"} : Unread(x) \in (Kinds \cup {"none"}) \ {"echo"}
                                       /\ (x # "none" => Unread(x) # "none")
    BY DEF Unread, Kinds
  <2>4. /\ recognizer' \in Seq(Kinds) /\ Len(recognizer') = Len(recognizer)
        /\ \A k \in 1 .. Len(recognizer') : recognizer'[k] # "echo"
    <3>1. DOMAIN recognizer = 1 .. Len(recognizer) /\ Len(recognizer) \in Nat
          /\ \A k \in 1 .. Len(recognizer) : recognizer[k] \in Kinds
      BY <2>2
    <3>2. recognizer' = [k \in 1 .. Len(recognizer) |-> Unread(recognizer[k])]
      BY <2>1, <3>1
    <3>3. "none" \notin Kinds
      BY DEF Kinds
    <3>4. \A k \in 1 .. Len(recognizer) : Unread(recognizer[k]) \in Kinds \ {"echo"}
      BY <2>3, <3>1, <3>3
    <3> QED BY <3>1, <3>2, <3>4
  <2>5. Deaf \in Gates
    BY DeafIs
  <2>6. CpTypes'
    BY <2>1, <2>2, <2>3, <2>4, <2>5 DEF CpInv, CpTypes
  <2>7. Echoes'
    BY <2>1, <2>2, <2>3, <2>4 DEF CpInv, Echoes
  <2>8. Lanes' /\ Followed' /\ Silent' /\ Apart'
    BY <2>1 DEF CpInv, Lanes, Followed, Silent, Apart, End
  <2> QED BY <2>6, <2>7, <2>8 DEF CpInv
<1> QED BY <1>1, <1>2

LEMMA ReaderKeeps ==
  ASSUME CaptureAssumption, CpInv, Take \/ Hear PROVE CpInv'
<1>1. CASE Take
  <2>1. /\ recognizer # <<>> /\ hand' = Head(recognizer) /\ recognizer' = Tail(recognizer)
        /\ UNCHANGED <<endpointing, frame, speaking, left, lane, barge, idle, voiced, last, heard>>
    BY <1>1 DEF Take, gating
  <2>2. recognizer \in Seq(Kinds) /\ Len(recognizer) <= Depth /\ Depth \in Nat
    BY DEF CpInv, CpTypes, CaptureAssumption
  <2>3. /\ Head(recognizer) = recognizer[1] /\ Head(recognizer) \in Kinds
        /\ recognizer' \in Seq(Kinds) /\ Len(recognizer') = Len(recognizer) - 1
        /\ Len(recognizer) \in Nat \ {0}
        /\ \A k \in 1 .. Len(recognizer') : recognizer'[k] = recognizer[k + 1]
    BY <2>1, <2>2, HeadTailProperties
  <2>4. CpTypes'
    BY <2>1, <2>2, <2>3 DEF CpInv, CpTypes
  <2>5. Echoes'
    BY <2>1, <2>3 DEF CpInv, Echoes
  <2>6. Lanes' /\ Followed' /\ Silent' /\ Apart'
    BY <2>1 DEF CpInv, Lanes, Followed, Silent, Apart, End
  <2> QED BY <2>4, <2>5, <2>6 DEF CpInv
<1>2. CASE Hear
  <2>1. /\ hand # "none" /\ hand' = "none"
        /\ heard' = IF speaking THEN heard ELSE heard \cup {hand}
        /\ UNCHANGED <<endpointing, frame, speaking, left, lane, barge, idle, voiced, last,
                       recognizer>>
    BY <1>2 DEF Hear, gating
  <2>2. CpTypes'
    BY <2>1 DEF CpInv, CpTypes
  <2>3. Echoes'
    BY <2>1 DEF CpInv, Echoes
  <2>4. Lanes' /\ Followed' /\ Silent' /\ Apart'
    BY <2>1 DEF CpInv, Lanes, Followed, Silent, Apart, End
  <2> QED BY <2>2, <2>3, <2>4 DEF CpInv
<1> QED BY <1>1, <1>2

LEMMA CpStep == ASSUME CaptureAssumption, CpInv, [CpNext]_captureVars PROVE CpInv'
<1>1. CASE UNCHANGED captureVars
  <2>1. UNCHANGED <<endpointing, frame, speaking, left, lane, barge, idle, voiced, last,
                    recognizer, hand, heard>>
    BY <1>1 DEF captureVars
  <2>2. CpTypes' /\ Echoes' /\ Lanes' /\ Followed' /\ Silent' /\ Apart'
    BY <2>1 DEF CpInv, CpTypes, Echoes, Lanes, Followed, Silent, Apart, End
  <2> QED BY <2>2 DEF CpInv
<1>2. ASSUME NEW sound \in Sounds, Dispatch(sound) PROVE CpInv'
  BY <1>2, DispatchKeeps
<1> QED BY <1>1, <1>2, ReplyKeeps, ReaderKeeps DEF CpNext

\* What the run checks of the microphone follows.
LEMMA CpEnds ==
  ASSUME CaptureAssumption, CpInv
  PROVE  CaptureTypeOK /\ LeadInIsKept /\ OverlapIsBounded /\ EchoOnlyFromTheTail
<1>1. CaptureTypeOK
  <2>1. ToSet(recognizer) \subseteq Kinds
    BY DEF CpInv, CpTypes, ToSet
  <2> QED BY <2>1 DEF CpInv, CpTypes, CaptureTypeOK, Kinds
<1>2. idle \in Gates /\ frame \in Nat /\ Ring \in Nat
  BY DEF CpInv, CpTypes, CaptureAssumption
<1>3. ASSUME NEW s \in Seq(Nat), Run(s, frame), Len(s) > 0
      PROVE  s = Since(Head(s))
  <2>1. Len(s) \in Nat /\ Len(s) <= frame /\ \A k \in 1 .. Len(s) : s[k] = frame - Len(s) + k
    BY <1>3 DEF Run
  <2>2. Head(s) = frame - Len(s) + 1
    BY <1>3, <2>1, HeadTailProperties
  <2>3. frame - Head(s) + 1 = Len(s)
    BY <1>2, <2>1, <2>2
  <2>4. Since(Head(s)) = [k \in 1 .. Len(s) |-> Head(s) + k - 1]
    BY <2>3 DEF Since
  <2>5. s = [k \in 1 .. Len(s) |-> s[k]]
    OBVIOUS
  <2>6. \A k \in 1 .. Len(s) : s[k] = Head(s) + k - 1
    BY <1>2, <2>1, <2>2
  <2> QED BY <2>4, <2>5, <2>6
<1>4. LeadInIsKept
  <2> SUFFICES ASSUME endpointing
               PROVE  IF idle.active
                        THEN idle.capture = Since(Head(idle.capture))
                        ELSE Len(idle.ring) = (IF frame < Ring THEN frame ELSE Ring)
                             /\ (frame > 0 => idle.ring = Since(Head(idle.ring)))
    BY DEF LeadInIsKept
  <2>1. Continuous(idle, frame)
    BY DEF CpInv, Followed
  <2>2. idle.ring \in Seq(Nat) /\ idle.capture \in Seq(Nat) /\ Ring > 0
    BY <1>2, GateFields DEF CaptureAssumption
  <2>3. CASE idle.active
    <3>1. Run(idle.capture, frame) /\ Len(idle.capture) >= Least(frame) /\ frame > 0
      BY <2>1, <2>3 DEF Continuous
    <3>2. Len(idle.capture) > 0
      BY <1>2, <2>2, <3>1 DEF Least
    <3> QED BY <1>3, <2>2, <2>3, <3>1, <3>2
  <2>4. CASE ~idle.active
    <3>1. Run(idle.ring, frame) /\ Len(idle.ring) = Least(frame)
      BY <2>1, <2>4 DEF Continuous
    <3>2. frame > 0 => Len(idle.ring) > 0
      BY <1>2, <2>2, <3>1 DEF Least
    <3>3. frame > 0 => idle.ring = Since(Head(idle.ring))
      BY <1>3, <2>2, <3>1, <3>2
    <3> QED BY <2>4, <3>1, <3>3 DEF Least
  <2> QED BY <2>3, <2>4
<1>5. OverlapIsBounded
  <2> SUFFICES ASSUME idle.active, last.frames # <<>>
               PROVE  Cardinality(ToSet(idle.capture) \cap ToSet(last.frames) \cap voiced)
                        <= Ring - Start - IF last.silent THEN Silence ELSE 0
    BY DEF OverlapIsBounded
  <2> DEFINE O == ToSet(idle.capture) \cap ToSet(last.frames) \cap voiced
             d == IF last.silent THEN Silence ELSE 0
             a == End + Start - Ring + 1
             b == End - d
  <2>1. /\ End \in 0 .. frame
        /\ \A k \in 1 .. Len(last.frames) : last.frames[k] <= End
        /\ last.silent => \A k \in 0 .. Silence - 1 : End - k \notin voiced
        /\ \A k \in 1 .. Len(idle.capture) : idle.capture[k] >= a
    BY DEF CpInv, Apart
  <2>2. /\ Start \in Nat /\ Silence \in Nat /\ Start + Silence <= Ring
        /\ d \in Nat /\ Start + d <= Ring
    BY DEF CaptureAssumption
  <2>3. End \in Nat /\ End \in Int /\ a \in Int /\ b \in Int
    BY <1>2, <2>1, <2>2
  <2>4. idle.capture \in Seq(Nat) /\ last.frames \in Seq(Nat) /\ voiced \subseteq 1 .. frame
    BY <1>2, GateFields DEF CpInv, CpTypes
  <2> HIDE DEF a
  <2>5. ASSUME NEW x \in O PROVE x \in a .. b
    <3> DEFINE c == idle.capture
               l == last.frames
    <3>0. /\ x \in ToSet(c) /\ c \in Seq(Nat)
          /\ x \in ToSet(l) /\ l \in Seq(Nat)
      BY <2>4
    <3> HIDE DEF c, l
    <3>1. PICK k \in 1 .. Len(idle.capture) : x = idle.capture[k]
      <4>1. PICK k \in 1 .. Len(c) : x = c[k]
        BY <3>0 DEF ToSet
      <4> QED BY <4>1 DEF c
    <3>2. PICK j \in 1 .. Len(last.frames) : x = last.frames[j]
      <4>1. PICK j \in 1 .. Len(l) : x = l[j]
        BY <3>0 DEF ToSet
      <4> QED BY <4>1 DEF l
    <3>3. x \in Nat /\ x >= a /\ x <= End /\ x \in voiced
      <4>1. x \in voiced
        BY Zenon
      <4>4. x \in Nat
        BY <1>2, <2>4, <4>1
      <4>2. x >= a
        BY <2>1, <3>1
      <4>3. x <= End
        BY <2>1, <3>2
      <4> QED BY <4>1, <4>2, <4>3, <4>4
    <3>4. x <= b
      <4>1. CASE last.silent
        <5>1. d = Silence
          BY <4>1
        <5>2. SUFFICES ASSUME x > End - Silence PROVE FALSE
          BY <2>2, <2>3, <3>3, <5>1
        <5>3. End - x \in 0 .. Silence - 1 /\ End - (End - x) = x
          BY <2>2, <2>3, <3>3, <5>2
        <5>4. End - (End - x) \notin voiced
          BY <2>1, <4>1, <5>3
        <5> QED BY <3>3, <5>3, <5>4
      <4>2. CASE ~last.silent
        BY <2>3, <3>3, <4>2
      <4> QED BY <4>1, <4>2
    <3> QED BY <2>3, <3>3, <3>4
  <2> HIDE DEF O, b, d
  <2>6. IsFiniteSet(a .. b) /\ Cardinality(a .. b) = IF a > b THEN 0 ELSE b - a + 1
    BY <2>3, FS_Interval
  <2>7. O \subseteq a .. b
    BY <2>5
  <2>8. Cardinality(O) <= Cardinality(a .. b) /\ Cardinality(O) \in Nat
    BY <2>6, <2>7, FS_Subset, FS_CardinalityType
  <2>9. b - a + 1 = Ring - Start - d
    BY <1>2, <2>2, <2>3 DEF a, b
  <2>10. Cardinality(O) <= Ring - Start - d
    BY <1>2, <2>2, <2>3, <2>6, <2>8, <2>9
  <2> QED BY <2>10 DEF O, d
<1>6. EchoOnlyFromTheTail
  BY DEF CpInv, Echoes, EchoOnlyFromTheTail
<1> QED BY <1>1, <1>4, <1>5, <1>6

\* For any ring, thresholds and queue, the microphone keeps its word: a command that
\* follows a reply is recorded from before its first word and without a gap, two
\* commands share no more speech than the ring holds beyond the silence between them,
\* and the recognizer hears nothing of a reply that it had not left unread
\* (_on_clean_aec_frame, BargeInVadGate, read_for_recognizer).
THEOREM TheRoomIsHeard ==
  CaptureAssumption =>
    (CpSpec => [](CaptureTypeOK /\ LeadInIsKept /\ OverlapIsBounded /\ EchoOnlyFromTheTail))
<1> SUFFICES ASSUME CaptureAssumption
             PROVE  CpSpec => [](CaptureTypeOK /\ LeadInIsKept /\ OverlapIsBounded
                                 /\ EchoOnlyFromTheTail)
  OBVIOUS
<1>1. CpInit => CpInv
  BY CpInitInv
<1>2. CpInv /\ [CpNext]_captureVars => CpInv'
  BY CpStep
<1>3. CpInv => CaptureTypeOK /\ LeadInIsKept /\ OverlapIsBounded /\ EchoOnlyFromTheTail
  BY CpEnds
<1> QED BY <1>1, <1>2, <1>3, PTL DEF CpSpec

=============================================================================
