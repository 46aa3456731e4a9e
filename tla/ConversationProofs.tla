------------------------- MODULE ConversationProofs -------------------------
(* What Conversation guarantees for every set of commands, follow-ups, alerts *)
(* and background turns: turns are serial and none is lost, a correction made *)
(* under the lock changes no older answer, and the command spoken over a      *)
(* reply reads that reply's correction.  And of the threads that hear: the     *)
(* recognizer is deaf only while something is played (Listener), and what is   *)
(* reported as played of a streamed reply was played (Speaker).               *)
EXTENDS Conversation, Listener, Speaker, SequenceTheorems, FiniteSetTheorems, TLAPS

Message == [of : Commands \cup Others, role : {"user", "assistant"}, by : SUBSET Utterances,
            tool : BOOLEAN]

Types ==
  /\ voice \in [Utterances -> {"idle", "queued", "speaking", "ended"}]
  /\ report \in [Utterances -> {"none", "sent", "waiting", "done", "failed"}]
  /\ turn \in [Commands -> {"none", "posted", "thinking", "tool", "answering", "done"}]
  /\ holder \in Commands \cup {Nobody}
  /\ past \in [Commands -> Seq(Message)]
  /\ offered \in [Commands -> Seq(Message)]
  /\ spawned \in [FollowUps -> Utterances \cup {Nobody}]

\* The turn that is under way holds the lock.
OneTurn == \A u \in Commands : turn[u] \in {"thinking", "tool", "answering"} <=> holder = u

\* A turn that ended has left one question, and one that has not, or whose write failed,
\* has left nothing.
Asked(r, u) ==
  \E k \in 1 .. Len(r) :
    /\ r[k].of = u /\ r[k].role = "user"
    /\ \A i \in 1 .. Len(r) : r[i].of = u /\ r[i].role = "user" => i = k
Silent(r, u) == \A i \in 1 .. Len(r) : r[i].of # u
Questions ==
  /\ \A u \in unkept \cap Commands : turn[u] = "done"
  /\ \A u \in Commands :
       IF turn[u] = "done" /\ u \notin unkept THEN Asked(rows, u) ELSE Silent(rows, u)

\* A row with the calls and results of a tool exchange comes right after its question.
ToolsWhole(r) == \A i \in 1 .. Len(r) : r[i].tool => i > 1 /\ r[i - 1].of = r[i].of
                                                           /\ r[i - 1].role = "user"
Wholes == ToolsWhole(rows) /\ \A u \in Commands : ToolsWhole(past[u])

\* What a turn has read is the end of what there was, from the first row it could read.
Taking ==
  \A u \in Commands : Taken(u) /\ u \notin blind =>
    \A i \in 1 .. Len(offered[u]) : Reached(u, i) =>
      \E n \in 1 .. Len(past[u]) : past[u][n] = offered[u][i]

\* Of two turns that have begun and left rows one was there for the other.
ReadsOther(u, w) == RowsOf(offered[u], w) # {} \/ RowsOf(offered[w], u) # {}
Serial == \A u, w \in Commands \ unkept : u # w /\ Taken(u) /\ Taken(w) => ReadsOther(u, w)

\* Only what the user talked over is reported, and only a turn that began.
Reports ==
  \A u \in Utterances : report[u] # "none" => u \in cut /\ (u \in Commands => Taken(u))

\* A correction under the lock is in the rows.
CutIn(r, u) == \E i \in 1 .. Len(r) : u \in r[i].by
Corrected == \A u \in Commands \ (unlocked \cup unkept) : report[u] = "done" => CutIn(rows, u)

\* A turn is posted by the voice that speaks it, and a follow-up is dispatched after the
\* report of what it was spoken over.
Posted == \A u \in Commands : voice[u] \in {"idle", "queued"} => turn[u] = "none"
Spawns ==
  \A f \in FollowUps : voice[f] # "idle" =>
    spawned[f] \in Utterances /\ report[spawned[f]] \in {"done", "failed"}
FollowUpsRead ==
  \A f \in FollowUps : Taken(f) /\ spawned[f] \in Commands \ (unlocked \cup unkept)
                       /\ report[spawned[f]] = "done" => CutIn(offered[f], spawned[f])

IInv == /\ Types /\ rows \in Seq(Message)
        /\ OneTurn /\ Questions /\ Serial /\ Reports /\ Corrected /\ Posted /\ Spawns
        /\ FollowUpsRead /\ CutsNeverReachBack /\ Wholes /\ Taking

-----------------------------------------------------------------------------
(* The three ways in which the store changes.                                 *)

LEMMA Entries ==
  ASSUME NEW q \in Seq(Message)
  PROVE  Len(q) \in Nat /\ \A i \in 1 .. Len(q) : q[i] \in Message
  OBVIOUS

\* A turn adds its question and perhaps its answer, with the tool exchange it made.
LEMMA Exchanged ==
  ASSUME NEW u \in Commands \cup Others, NEW said \in BOOLEAN, NEW tool \in BOOLEAN
  PROVE  /\ Exchange(u, said, tool) \in Seq(Message) /\ Len(Exchange(u, said, tool)) \in {1, 2}
         /\ Exchange(u, said, tool)[1] = Row(u, "user", FALSE)
         /\ Len(Exchange(u, said, tool)) = 2 =>
              Exchange(u, said, tool)[2] = Row(u, "assistant", tool)
<1> DEFINE q == Row(u, "user", FALSE)
           a == Row(u, "assistant", tool)
           x == Exchange(u, said, tool)
<1>1. q \in Message /\ a \in Message
  BY DEF Row, Message
<1>2. x = <<q, a>> \/ x = <<q>>
  BY DEF Exchange
<1> HIDE DEF x, q, a
<1>3. x \in Seq(Message) /\ Len(x) \in {1, 2} /\ x[1] = q /\ (Len(x) = 2 => x[2] = a)
  <2>1. CASE x = <<q, a>>
    BY <1>1, <2>1
  <2>2. CASE x = <<q>>
    BY <1>1, <2>2
  <2> QED BY <1>2, <2>1, <2>2
<1> QED BY <1>3 DEF x, q, a

\* One or two rows are put behind the others, which stay as they are.
LEMMA Behind ==
  ASSUME NEW r \in Seq(Message), NEW x \in Seq(Message), Len(x) \in {1, 2}
  PROVE  /\ r \o x \in Seq(Message) /\ Len(r \o x) >= Len(r) + 1
         /\ \A i \in 1 .. Len(r) : (r \o x)[i] = r[i]
         /\ (r \o x)[Len(r) + 1] = x[1]
         /\ \A i \in 1 .. Len(r \o x) : i > Len(r) + 1 =>
              i = Len(r) + 2 /\ Len(x) = 2 /\ (r \o x)[i] = x[2]
<1>1. /\ r \o x \in Seq(Message) /\ Len(r \o x) = Len(r) + Len(x)
      /\ \A i \in 1 .. Len(r) + Len(x) : (r \o x)[i] = IF i <= Len(r) THEN r[i] ELSE x[i - Len(r)]
  BY ConcatProperties
<1>2. Len(r) \in Nat
  BY Entries
<1>3. \A i \in 1 .. Len(r) : (r \o x)[i] = r[i]
  BY <1>1, <1>2
<1>4. (r \o x)[Len(r) + 1] = x[1]
  BY <1>1, <1>2
<1>5. \A i \in 1 .. Len(r \o x) : i > Len(r) + 1 =>
        i = Len(r) + 2 /\ Len(x) = 2 /\ (r \o x)[i] = x[2]
  <2> SUFFICES ASSUME NEW i \in 1 .. Len(r \o x), i > Len(r) + 1
               PROVE  i = Len(r) + 2 /\ Len(x) = 2 /\ (r \o x)[i] = x[2]
    OBVIOUS
  <2>1. i \in 1 .. Len(r) + Len(x)
    BY <1>1
  <2>2. i = Len(r) + 2 /\ Len(x) = 2 /\ ~(i <= Len(r)) /\ i - Len(r) = 2
    <3>1. CASE Len(x) = 1
      BY <1>2, <2>1, <3>1
    <3>2. CASE Len(x) = 2
      BY <1>2, <2>1, <3>2
    <3> QED BY <3>1, <3>2
  <2>3. (r \o x)[i] = x[i - Len(r)]
    BY <1>1, <2>1, <2>2
  <2> QED BY <2>2, <2>3
<1>6. Len(r \o x) >= Len(r) + 1
  BY <1>1, <1>2
<1> QED BY <1>1, <1>3, <1>4, <1>5, <1>6

\* An interruption marks the newest row, or adds an answer to it.
LEMMA Amended ==
  ASSUME NEW r \in Seq(Message), NEW u \in Utterances
  PROVE  LET s == AmendLast(r, u)
         IN  /\ s \in Seq(Message) /\ Len(s) \in {Len(r), Len(r) + 1}
             /\ \A i \in 1 .. Len(r) : /\ s[i].of = r[i].of /\ s[i].role = r[i].role
                                       /\ s[i].tool = r[i].tool
                                       /\ r[i].by \subseteq s[i].by
                                       /\ s[i].by \subseteq r[i].by \cup {u}
                                       /\ i # Len(r) => s[i].by = r[i].by
             /\ Len(s) # Len(r) => /\ Len(r) # 0 /\ s[Len(s)].of = r[Len(r)].of
                                   /\ s[Len(s)].role = "assistant" /\ s[Len(s)].by = {u}
                                   /\ ~s[Len(s)].tool
             /\ Len(r) # 0 => u \in s[Len(s)].by
<1> DEFINE s == AmendLast(r, u)
           n == Len(r)
<1>1. n \in Nat /\ \A i \in 1 .. n : r[i] \in Message
  BY Entries
<1>2. CASE r = <<>>
  <2>1. s = r /\ n = 0
    BY <1>2 DEF AmendLast
  <2> HIDE DEF s
  <2> QED BY <1>1, <2>1 DEF s
<1>3. CASE r # <<>> /\ r[n].role = "assistant"
  <2>1. s = [r EXCEPT ![n].by = @ \cup {u}] /\ n # 0
    BY <1>1, <1>3, EmptySeq DEF AmendLast
  <2>2. n \in 1 .. n /\ r[n] \in Message
    BY <1>1, <2>1
  <2>3. s = [r EXCEPT ![n] = [r[n] EXCEPT !.by = @ \cup {u}]]
    BY <2>1
  <2>4. [r[n] EXCEPT !.by = @ \cup {u}] \in Message
    BY <2>2 DEF Message
  <2> HIDE DEF s
  <2>5. s \in Seq(Message) /\ Len(s) = n
        /\ \A i \in 1 .. n : s[i] = IF i = n THEN [r[n] EXCEPT !.by = @ \cup {u}] ELSE r[i]
    BY <2>2, <2>3, <2>4, ExceptSeq
  <2>6. /\ s[n].of = r[n].of /\ s[n].role = r[n].role /\ s[n].by = r[n].by \cup {u}
        /\ s[n].tool = r[n].tool
    BY <2>2, <2>5 DEF Message
  <2> HIDE DEF n
  <2>7. \A i \in 1 .. n : /\ s[i].of = r[i].of /\ s[i].role = r[i].role /\ s[i].tool = r[i].tool
                          /\ r[i].by \subseteq s[i].by /\ s[i].by \subseteq r[i].by \cup {u}
                          /\ i # n => s[i].by = r[i].by
    BY <2>5, <2>6
  <2> QED BY <2>5, <2>6, <2>7 DEF s, n
<1>4. CASE r # <<>> /\ r[n].role # "assistant"
  <2> DEFINE x == [Row(r[n].of, "assistant", FALSE) EXCEPT !.by = {u}]
  <2>1. s = Append(r, x) /\ n # 0
    BY <1>1, <1>4, EmptySeq DEF AmendLast
  <2>2. x \in Message /\ x.of = r[n].of /\ x.role = "assistant" /\ x.by = {u} /\ ~x.tool
    <3>1. r[n] \in Message
      BY <1>1, <2>1
    <3> QED BY <3>1 DEF Row, Message
  <2> HIDE DEF s, x
  <2>3. s \in Seq(Message) /\ Len(s) = n + 1 /\ s[n + 1] = x /\ \A i \in 1 .. n : s[i] = r[i]
    BY <2>1, <2>2, AppendProperties
  <2> QED BY <1>1, <2>1, <2>2, <2>3 DEF s
<1> QED BY <1>2, <1>3, <1>4

LEMMA InitIInv == ConversationAssumption /\ CvInit => IInv
<1> SUFFICES ASSUME ConversationAssumption, CvInit PROVE IInv
  OBVIOUS
<1>1. rows \in Seq(Message) /\ Len(rows) = 0
  BY DEF CvInit
<1>2. Types
  <2>1. past \in [Commands -> Seq(Message)] /\ offered \in [Commands -> Seq(Message)]
    BY DEF CvInit
  <2> QED BY <2>1 DEF CvInit, Types
<1>3. OneTurn /\ Questions /\ Serial /\ Wholes /\ Taking
  <2>1. /\ \A u \in Commands : turn[u] = "none" /\ u # Nobody /\ holder = Nobody
        /\ unkept = {} /\ \A u \in Commands : Len(past[u]) = 0
    BY DEF CvInit, ConversationAssumption, Utterances
  <2>2. OneTurn /\ Questions /\ Serial /\ Taking
    BY <1>1, <2>1 DEF OneTurn, Questions, Silent, Serial, Taking, Taken
  <2>3. Wholes
    BY <1>1, <2>1 DEF Wholes, ToolsWhole
  <2> QED BY <2>2, <2>3
<1>4. Reports /\ Corrected /\ Posted /\ Spawns /\ FollowUpsRead
  <2>1. /\ \A u \in Utterances : report[u] = "none" /\ voice[u] = "idle"
        /\ \A u \in Commands : turn[u] = "none" /\ u \in Utterances
        /\ FollowUps \subseteq Commands
    BY DEF CvInit, ConversationAssumption, Utterances
  <2> QED BY <2>1 DEF Reports, Corrected, Posted, Spawns, FollowUpsRead, Taken
<1> QED BY <1>1, <1>2, <1>3, <1>4 DEF IInv, CutsNeverReachBack

\* Nothing of this changes while no turn begins or ends and no row is written.
LEMMA DialogueStays ==
  ASSUME IInv, UNCHANGED <<rows, past, offered, blind, unkept>>,
         \A w \in Commands : /\ Taken(w)' <=> Taken(w)
                             /\ turn'[w] = "done" <=> turn[w] = "done"
  PROVE  Questions' /\ Serial' /\ Wholes' /\ Taking' /\ (UNCHANGED unlocked => CutsNeverReachBack')
<1> USE DEF IInv
<1>1. Questions'
  BY DEF Questions, Asked, Silent
<1>2. Serial'
  BY DEF Serial, ReadsOther, RowsOf
<1>3. Wholes'
  BY DEF Wholes, ToolsWhole
<1>4. Taking'
  BY DEF Taking, Reached
<1>5. UNCHANGED unlocked => CutsNeverReachBack'
  BY DEF CutsNeverReachBack, RowsOf
<1> QED BY <1>1, <1>2, <1>3, <1>4, <1>5

-----------------------------------------------------------------------------
(* The voice worker.                                                          *)

LEMMA VoiceKeeps ==
  ASSUME ConversationAssumption, IInv, NEW u \in Utterances,
         Dispatch(u) \/ Speak(u) \/ FallSilent(u)
  PROVE  IInv'
<1> USE DEF IInv
<1>1. UNCHANGED <<cut, report, holder, rows, past, offered, blind, unkept, spawned, unlocked>>
  BY DEF Dispatch, Speak, FallSilent, dialogue
<1>2. /\ voice' \in [Utterances -> {"idle", "queued", "speaking", "ended"}]
      /\ \A w \in Utterances : w # u => voice'[w] = voice[w]
      /\ voice'[u] = "queued" => u \notin FollowUps /\ voice[u] = "idle"
      /\ voice'[u] # "idle"
      /\ u \in FollowUps => voice[u] # "idle"
  BY DEF Dispatch, Speak, FallSilent, Types
<1>3. \/ turn' = turn
      \/ /\ u \in Commands /\ turn[u] = "none" /\ turn' = [turn EXCEPT ![u] = "posted"]
         /\ voice'[u] = "speaking"
  BY DEF Dispatch, Speak, FallSilent, Posted, Types
<1>4. FollowUps \subseteq Commands /\ Commands \subseteq Utterances
  BY DEF ConversationAssumption, Utterances
<1>5. Types'
  BY <1>1, <1>2, <1>3 DEF Types
<1>6. \A w \in Commands : /\ Taken(w)' <=> Taken(w)
                          /\ turn'[w] = "done" <=> turn[w] = "done"
                          /\ turn'[w] \in {"thinking", "tool", "answering"}
                               <=> turn[w] \in {"thinking", "tool", "answering"}
  BY <1>3 DEF Taken, Types
<1>7. OneTurn' /\ Questions' /\ Serial' /\ Wholes' /\ Taking' /\ CutsNeverReachBack'
  BY <1>1, <1>6, DialogueStays DEF OneTurn
<1>8. Reports' /\ Corrected' /\ FollowUpsRead'
  BY <1>1, <1>4, <1>6 DEF Reports, Corrected, FollowUpsRead, CutIn
<1>9. Posted'
  BY <1>2, <1>3, <1>4 DEF Posted, Types
<1>10. Spawns'
  BY <1>1, <1>2, <1>4 DEF Spawns
<1> QED BY <1>1, <1>5, <1>7, <1>8, <1>9, <1>10

LEMMA BargeInKeeps ==
  ASSUME ConversationAssumption, IInv, NEW u \in Utterances, BargeIn(u)
  PROVE  IInv'
<1> USE DEF IInv
<1>1. /\ cut' = cut \cup {u} /\ report' = [report EXCEPT ![u] = "sent"] /\ u \notin cut
      /\ u \in Commands => Taken(u)
      /\ UNCHANGED <<voice, turn, holder, rows, past, offered, blind, unkept, spawned, unlocked>>
  BY DEF BargeIn, Taken, dialogue
<1>2. report[u] = "none" /\ Commands \subseteq Utterances /\ FollowUps \subseteq Commands
  BY <1>1 DEF Reports, ConversationAssumption, Utterances
<1>3. \A w \in Utterances : report'[w] = IF w = u THEN "sent" ELSE report[w]
  BY <1>1 DEF Types
<1>4. Types'
  BY <1>1 DEF Types
<1>5. /\ OneTurn' /\ Questions' /\ Serial' /\ Wholes' /\ Taking' /\ Posted'
      /\ CutsNeverReachBack'
  <2>1. \A w \in Commands : /\ Taken(w)' <=> Taken(w)
                            /\ turn'[w] = "done" <=> turn[w] = "done"
    BY <1>1 DEF Taken
  <2> QED BY <1>1, <2>1, DialogueStays DEF OneTurn, Posted
<1>6. Reports' /\ Corrected' /\ FollowUpsRead'
  BY <1>1, <1>2, <1>3 DEF Reports, Corrected, FollowUpsRead, CutIn, Taken
<1>7. Spawns'
  BY <1>1, <1>2, <1>3 DEF Spawns
<1> QED BY <1>1, <1>4, <1>5, <1>6, <1>7

LEMMA RedispatchKeeps ==
  ASSUME ConversationAssumption, IInv, NEW u \in Utterances, NEW f \in FollowUps,
         Redispatch(u, f)
  PROVE  IInv'
<1> USE DEF IInv
<1>1. /\ report[u] \in {"done", "failed"} /\ voice[f] = "idle"
      /\ voice' = [voice EXCEPT ![f] = "queued"] /\ spawned' = [spawned EXCEPT ![f] = u]
      /\ UNCHANGED <<cut, report, turn, holder, rows, past, offered, blind, unkept, unlocked>>
  BY DEF Redispatch, dialogue
<1>2. f \in Commands /\ f \in Utterances /\ Commands \subseteq Utterances
      /\ FollowUps \subseteq Commands
  BY DEF ConversationAssumption, Utterances
<1>3. turn[f] = "none"
  BY <1>1, <1>2 DEF Posted
<1>4. \A g \in FollowUps : spawned'[g] = IF g = f THEN u ELSE spawned[g]
  BY <1>1 DEF Types
<1>5. \A w \in Utterances : voice'[w] = IF w = f THEN "queued" ELSE voice[w]
  BY <1>1 DEF Types
<1>6. Types'
  BY <1>1, <1>2 DEF Types
<1>7. /\ OneTurn' /\ Questions' /\ Serial' /\ Wholes' /\ Taking' /\ CutsNeverReachBack'
      /\ Reports' /\ Corrected'
  <2>1. \A w \in Commands : /\ Taken(w)' <=> Taken(w)
                            /\ turn'[w] = "done" <=> turn[w] = "done"
    BY <1>1 DEF Taken
  <2> QED BY <1>1, <2>1, DialogueStays DEF OneTurn, Reports, Corrected, CutIn
<1>8. Posted' /\ Spawns'
  BY <1>1, <1>2, <1>3, <1>4, <1>5 DEF Posted, Spawns
<1>9. FollowUpsRead'
  BY <1>1, <1>3, <1>4 DEF FollowUpsRead, Taken, CutIn
<1> QED BY <1>1, <1>6, <1>7, <1>8, <1>9

-----------------------------------------------------------------------------
(* A turn under the lock.                                                     *)

\* What a turn reads is the end of the rows, whole from the first that it can read.
LEMMA Replayed ==
  ASSUME NEW r \in Seq(Message), NEW k \in 1 .. Len(r) + 1, ToolsWhole(r), Readable(r, k)
  PROVE  /\ SubSeq(r, k, Len(r)) \in Seq(Message)
         /\ ToolsWhole(SubSeq(r, k, Len(r)))
         /\ \A i \in 1 .. Len(r) : i >= k =>
              \E n \in 1 .. Len(SubSeq(r, k, Len(r))) : SubSeq(r, k, Len(r))[n] = r[i]
<1> DEFINE q == SubSeq(r, k, Len(r))
<1>1. Len(r) \in Nat
  BY Entries
<1>2. /\ q \in Seq(Message) /\ Len(q) = Len(r) + 1 - k
      /\ \A n \in 1 .. Len(r) + 1 - k : q[n] = r[k + n - 1]
  <2>1. CASE k = Len(r) + 1
    <3>1. q = <<>>
      BY <1>1, <2>1, SubSeqProperties
    <3> HIDE DEF q
    <3> QED BY <1>1, <2>1, <3>1
  <2>2. CASE k # Len(r) + 1
    BY <1>1, <2>2, SubSeqProperties
  <2> QED BY <2>1, <2>2
<1> HIDE DEF q
<1>3. ToolsWhole(q)
  <2> SUFFICES ASSUME NEW n \in 1 .. Len(q), q[n].tool
               PROVE  n > 1 /\ q[n - 1].of = q[n].of /\ q[n - 1].role = "user"
    BY DEF ToolsWhole
  <2>1. q[n] = r[k + n - 1] /\ k + n - 1 \in 1 .. Len(r)
    BY <1>1, <1>2
  <2>2. r[k + n - 2].of = q[n].of /\ r[k + n - 2].role = "user"
    <3>1. (k + n - 1) - 1 = k + n - 2
      BY <1>1, <1>2
    <3> QED BY <2>1, <3>1 DEF ToolsWhole
  <2>3. n # 1
    <3> SUFFICES ASSUME n = 1 PROVE FALSE
      OBVIOUS
    <3>1. k + n - 1 = k /\ k <= Len(r)
      BY <1>1, <2>1
    <3>2. r[k].tool
      BY <2>1, <3>1
    <3>3. k <= Len(r) => ~r[k].tool
      BY DEF Readable
    <3> QED BY <3>1, <3>2, <3>3
  <2>4. q[n - 1] = r[k + n - 2]
    <3>1. n - 1 \in 1 .. Len(r) + 1 - k /\ k + (n - 1) - 1 = k + n - 2
      BY <1>1, <1>2, <2>3
    <3>2. q[n - 1] = r[k + (n - 1) - 1]
      BY <1>2, <3>1
    <3> QED BY <3>1, <3>2
  <2> QED BY <2>2, <2>3, <2>4
<1>4. ASSUME NEW i \in 1 .. Len(r), i >= k PROVE \E n \in 1 .. Len(q) : q[n] = r[i]
  <2>1. i - k + 1 \in 1 .. Len(q) /\ q[i - k + 1] = r[i]
    BY <1>1, <1>2, <1>4
  <2> QED BY <2>1
<1> QED BY <1>2, <1>3, <1>4 DEF q

\* The turns that have begun have ended, and those that left rows are there to be read.
LEMMA TakeTurnKeeps ==
  ASSUME ConversationAssumption, IInv, NEW u \in Commands, TakeTurn(u)
  PROVE  IInv'
<1> USE DEF IInv
<1>1. /\ turn[u] = "posted" /\ holder = Nobody /\ turn' = [turn EXCEPT ![u] = "thinking"]
      /\ holder' = u /\ offered' = [offered EXCEPT ![u] = rows]
      /\ UNCHANGED <<voice, cut, report, rows, unkept, spawned, unlocked>>
  BY DEF TakeTurn
<1>2. /\ Nobody \notin Commands /\ FollowUps \subseteq Commands /\ Commands \subseteq Utterances
  BY DEF ConversationAssumption, Utterances
<1>3. /\ \A w \in Commands : turn'[w] = IF w = u THEN "thinking" ELSE turn[w]
      /\ \A w \in Commands : offered'[w] = IF w = u THEN rows ELSE offered[w]
  BY <1>1 DEF Types
<1>4. \A w \in Commands : Taken(w) => turn[w] = "done" /\ w # u
  BY <1>1, <1>2 DEF Taken, OneTurn
<1>5. /\ past' \in [Commands -> Seq(Message)]
      /\ \A w \in Commands : w # u => past'[w] = past[w] /\ (w \in blind' <=> w \in blind)
      /\ ToolsWhole(past'[u])
      /\ u \notin blind' => \A i \in 1 .. Len(rows) :
           (\E k \in 1 .. i : Readable(rows, k)) =>
             \E n \in 1 .. Len(past'[u]) : past'[u][n] = rows[i]
  <2>1. CASE /\ blind' = blind
             /\ \E k \in 1 .. Len(rows) + 1 :
                  /\ Readable(rows, k) /\ \A j \in 1 .. k - 1 : ~Readable(rows, j)
                  /\ past' = [past EXCEPT ![u] = SubSeq(rows, k, Len(rows))]
    <3>1. PICK k \in 1 .. Len(rows) + 1 :
            /\ Readable(rows, k) /\ \A j \in 1 .. k - 1 : ~Readable(rows, j)
            /\ past' = [past EXCEPT ![u] = SubSeq(rows, k, Len(rows))]
      BY <2>1
    <3> DEFINE q == SubSeq(rows, k, Len(rows))
    <3>2. /\ q \in Seq(Message) /\ ToolsWhole(q)
          /\ \A i \in 1 .. Len(rows) : i >= k => \E n \in 1 .. Len(q) : q[n] = rows[i]
      BY <3>1, Replayed DEF Wholes
    <3> HIDE DEF q
    <3>3. past' = [past EXCEPT ![u] = q]
      BY <3>1 DEF q
    <3>4. /\ past' \in [Commands -> Seq(Message)] /\ past'[u] = q
          /\ \A w \in Commands : w # u => past'[w] = past[w]
      BY <3>2, <3>3 DEF Types
    <3>5. \A i \in 1 .. Len(rows) : (\E j \in 1 .. i : Readable(rows, j)) => i >= k
      <4> SUFFICES ASSUME NEW i \in 1 .. Len(rows), NEW j \in 1 .. i, Readable(rows, j), ~(i >= k)
                   PROVE  FALSE
        OBVIOUS
      <4>1. Len(rows) \in Nat
        BY Entries
      <4>2. j \in 1 .. k - 1
        BY <4>1
      <4> QED BY <3>1, <4>2
    <3> QED BY <2>1, <3>2, <3>4, <3>5
  <2>2. CASE blind' = blind \cup {u} /\ past' = past
    BY <2>2 DEF Types, Wholes
  <2> QED BY <2>1, <2>2 DEF TakeTurn
<1>6. Types'
  BY <1>1, <1>5 DEF Types
<1>7. OneTurn' /\ Posted'
  <2>1. \A w \in Commands : turn[w] \notin {"thinking", "tool", "answering"}
    BY <1>1, <1>2 DEF OneTurn
  <2>2. voice[u] \notin {"idle", "queued"}
    BY <1>1 DEF Posted
  <2> QED BY <1>1, <1>3, <2>1, <2>2 DEF OneTurn, Posted
<1>8. Questions'
  <2>1. u \notin unkept
    BY <1>1 DEF Questions
  <2> QED BY <1>1, <1>3, <2>1 DEF Questions, Asked, Silent
<1>9. Serial'
  <2>1. ASSUME NEW w \in Commands \ unkept, w # u, Taken(w) PROVE RowsOf(rows, w) # {}
    <3>1. Asked(rows, w)
      BY <1>4, <2>1 DEF Questions
    <3> QED BY <3>1 DEF Asked, RowsOf
  <2>2. \A w \in Commands : Taken(w)' <=> (w = u \/ Taken(w))
    BY <1>3 DEF Taken
  <2> SUFFICES ASSUME NEW v \in Commands \ unkept, NEW w \in Commands \ unkept, v # w,
                      Taken(v)', Taken(w)'
               PROVE  ReadsOther(v, w)'
    BY <1>1 DEF Serial
  <2>3. CASE v = u
    <3>1. RowsOf(rows, w) # {} /\ offered'[v] = rows
      BY <1>3, <2>1, <2>2, <2>3
    <3> QED BY <3>1 DEF ReadsOther, RowsOf
  <2>4. CASE w = u
    <3>1. RowsOf(rows, v) # {} /\ offered'[w] = rows
      BY <1>3, <2>1, <2>2, <2>4
    <3> QED BY <3>1 DEF ReadsOther, RowsOf
  <2>5. CASE v # u /\ w # u
    <3>1. Taken(v) /\ Taken(w) /\ offered'[v] = offered[v] /\ offered'[w] = offered[w]
      BY <1>3, <2>2, <2>5
    <3>2. ReadsOther(v, w)
      BY <3>1 DEF Serial
    <3> QED BY <3>1, <3>2 DEF ReadsOther, RowsOf
  <2> QED BY <2>3, <2>4, <2>5
<1>10. Wholes'
  <2>1. \A w \in Commands : ToolsWhole(past'[w])
    BY <1>5 DEF Wholes
  <2>2. ToolsWhole(rows')
    BY <1>1 DEF Wholes
  <2> QED BY <2>1, <2>2 DEF Wholes, ToolsWhole
<1>11. Taking'
  <2> SUFFICES ASSUME NEW w \in Commands, Taken(w)', w \notin blind',
                      NEW i \in 1 .. Len(offered'[w]), Reached(w, i)'
               PROVE  \E n \in 1 .. Len(past'[w]) : past'[w][n] = offered'[w][i]
    BY DEF Taking
  <2>1. \E k \in 1 .. i : Readable(offered'[w], k)
    BY DEF Reached
  <2>2. CASE w = u
    BY <1>3, <1>5, <2>1, <2>2
  <2>3. CASE w # u
    <3>1. /\ Taken(w) /\ w \notin blind /\ offered'[w] = offered[w] /\ past'[w] = past[w]
      BY <1>3, <1>5, <2>3 DEF Taken
    <3>2. Reached(w, i)
      BY <2>1, <3>1 DEF Reached
    <3> QED BY <3>1, <3>2 DEF Taking
  <2> QED BY <2>2, <2>3
<1>12. Reports' /\ Corrected' /\ Spawns' /\ CutsNeverReachBack'
  BY <1>1, <1>3 DEF Reports, Corrected, Spawns, CutsNeverReachBack, CutIn, Taken, RowsOf
<1>13. FollowUpsRead'
  <2>1. spawned[u] \in Commands \ (unlocked \cup unkept) /\ report[spawned[u]] = "done"
          => CutIn(rows, spawned[u])
    BY DEF Corrected
  <2>2. \A f \in FollowUps : Taken(f)' => f = u \/ Taken(f)
    BY <1>2, <1>3 DEF Taken
  <2> QED BY <1>1, <1>2, <1>3, <2>1, <2>2 DEF FollowUpsRead, CutIn
<1> QED BY <1>1, <1>6, <1>7, <1>8, <1>9, <1>10, <1>11, <1>12, <1>13

LEMMA ToolKeeps ==
  ASSUME ConversationAssumption, IInv, NEW u \in Commands, CallTool(u) \/ ToolReturns(u)
  PROVE  IInv'
<1> USE DEF IInv
<1>1. /\ turn[u] \in {"thinking", "tool"}
      /\ \/ turn' = [turn EXCEPT ![u] = "tool"]
         \/ turn' = [turn EXCEPT ![u] = "answering"]
      /\ UNCHANGED <<voice, cut, report, holder, rows, past, offered, blind, unkept,
                     spawned, unlocked>>
  BY DEF CallTool, ToolReturns, dialogue
<1>2. /\ turn' \in [Commands -> {"none", "posted", "thinking", "tool", "answering", "done"}]
      /\ turn'[u] \in {"tool", "answering"} /\ \A w \in Commands : w # u => turn'[w] = turn[w]
  BY <1>1 DEF Types
<1>3. \A w \in Commands : /\ Taken(w)' <=> Taken(w)
                          /\ turn'[w] = "done" <=> turn[w] = "done"
                          /\ turn'[w] = "none" <=> turn[w] = "none"
                          /\ turn'[w] \in {"thinking", "tool", "answering"}
                               <=> turn[w] \in {"thinking", "tool", "answering"}
  BY <1>1, <1>2 DEF Taken
<1>4. Types'
  BY <1>1, <1>2 DEF Types
<1>5. OneTurn' /\ Posted' /\ Questions' /\ Serial' /\ Wholes' /\ Taking' /\ CutsNeverReachBack'
  <2>1. OneTurn' /\ Posted'
    BY <1>1, <1>3 DEF OneTurn, Posted
  <2> QED BY <1>1, <1>3, <2>1, DialogueStays
<1>6. Reports' /\ Corrected' /\ Spawns' /\ FollowUpsRead'
  <2>1. FollowUps \subseteq Commands
    BY DEF ConversationAssumption
  <2> QED BY <1>1, <1>3, <2>1 DEF Reports, Corrected, Spawns, FollowUpsRead, CutIn
<1> QED BY <1>1, <1>4, <1>5, <1>6

\* The rows of one speaker are added behind the others, which stay as they are.
LEMMA Recorded ==
  ASSUME ConversationAssumption, IInv, NEW u \in Commands \cup Others, NEW said \in BOOLEAN,
         NEW tool \in BOOLEAN,
         rows' = rows \o Exchange(u, said, tool), UNCHANGED <<unlocked, unkept>>
  PROVE  /\ rows' \in Seq(Message) /\ CutsNeverReachBack' /\ ToolsWhole(rows')
         /\ \A w \in Commands \ {u} : /\ Asked(rows, w) => Asked(rows', w)
                                      /\ Silent(rows, w) => Silent(rows', w)
         /\ Silent(rows, u) => Asked(rows', u)
         /\ \A w \in Utterances : CutIn(rows, w) => CutIn(rows', w)
<1> DEFINE n == Len(rows)
           m == Len(rows')
<1>1. /\ rows' \in Seq(Message) /\ m >= n + 1 /\ n \in Nat /\ m \in Nat
      /\ \A i \in 1 .. n : rows'[i] = rows[i]
      /\ rows'[n + 1] = Row(u, "user", FALSE)
      /\ \A i \in 1 .. m : i > n + 1 =>
           i = n + 2 /\ rows'[i] = Row(u, "assistant", tool)
  <2>1. rows \in Seq(Message)
    BY DEF IInv
  <2> DEFINE x == Exchange(u, said, tool)
  <2>2. /\ x \in Seq(Message) /\ Len(x) \in {1, 2} /\ x[1] = Row(u, "user", FALSE)
        /\ Len(x) = 2 => x[2] = Row(u, "assistant", tool)
    BY Exchanged
  <2>3. rows' = rows \o x
    OBVIOUS
  <2> HIDE DEF x
  <2>4. /\ rows \o x \in Seq(Message) /\ Len(rows \o x) >= n + 1
        /\ \A i \in 1 .. n : (rows \o x)[i] = rows[i]
        /\ (rows \o x)[n + 1] = x[1]
        /\ \A i \in 1 .. Len(rows \o x) : i > n + 1 =>
             i = n + 2 /\ Len(x) = 2 /\ (rows \o x)[i] = x[2]
    BY <2>1, <2>2, Behind
  <2>5. n \in Nat /\ m \in Nat
    BY <2>1, <2>3, <2>4, Entries
  <2> QED BY <2>2, <2>3, <2>4, <2>5
<1> HIDE DEF n, m
<1>2. /\ \A i \in 1 .. n : i \in 1 .. m
      /\ n + 1 \in 1 .. m
      /\ \A i \in 1 .. m : i \in 1 .. n \/ i = n + 1 \/ i > n + 1
      /\ \A i \in 1 .. n : i <= i
  BY <1>1
<1>3. ASSUME NEW i \in 1 .. m, i \notin 1 .. n
      PROVE  /\ rows'[i].of = u /\ rows'[i].by = {}
             /\ rows'[i].role = "user" <=> i = n + 1
             /\ rows'[i].tool => i = n + 2
  <2> DEFINE a == Row(u, "assistant", tool)
  <2>1. /\ Row(u, "user", FALSE).role = "user" /\ Row(u, "user", FALSE).of = u /\ Row(u, "user", FALSE).by = {}
        /\ ~Row(u, "user", FALSE).tool
        /\ a.role = "assistant" /\ a.of = u /\ a.by = {}
    BY DEF Row
  <2> HIDE DEF a
  <2>2. CASE i = n + 1
    <3>1. rows'[i] = Row(u, "user", FALSE)
      BY <1>1, <2>2
    <3> QED BY <2>1, <2>2, <3>1
  <2>3. CASE i > n + 1
    <3>1. rows'[i] = a /\ i = n + 2
      BY <1>1, <2>3 DEF a
    <3>2. i # n + 1
      BY <1>1, <2>3
    <3> QED BY <2>1, <3>1, <3>2
  <2> QED BY <1>2, <1>3, <2>2, <2>3
<1>4. \A w \in Commands \ {u} : Silent(rows, w) => Silent(rows', w)
  BY <1>1, <1>3 DEF Silent, n, m
<1>5. ASSUME NEW w \in Commands \ {u}, Asked(rows, w) PROVE Asked(rows', w)
  <2>1. PICK k \in 1 .. n : /\ rows[k].of = w /\ rows[k].role = "user"
                            /\ \A i \in 1 .. n : rows[i].of = w /\ rows[i].role = "user" => i = k
    BY <1>5 DEF Asked, n
  <2>2. k \in 1 .. m /\ rows'[k].of = w /\ rows'[k].role = "user"
    BY <1>1, <1>2, <2>1
  <2>3. \A i \in 1 .. m : rows'[i].of = w /\ rows'[i].role = "user" => i = k
    BY <1>1, <1>3, <2>1
  <2> QED BY <2>2, <2>3 DEF Asked, m
<1>6. Silent(rows, u) => Asked(rows', u)
  <2> SUFFICES ASSUME Silent(rows, u) PROVE Asked(rows', u)
    OBVIOUS
  <2>1. \A i \in 1 .. m : rows'[i].of = u /\ rows'[i].role = "user" => i = n + 1
    BY <1>1, <1>3 DEF Silent, n
  <2>2. rows'[n + 1].of = u /\ rows'[n + 1].role = "user"
    BY <1>1 DEF Row
  <2> QED BY <1>2, <2>1, <2>2 DEF Asked, m
<1>7. \A w \in Utterances : CutIn(rows, w) => CutIn(rows', w)
  BY <1>1, <1>2 DEF CutIn, n, m
<1>8. CutsNeverReachBack'
  <2> SUFFICES ASSUME NEW w \in Commands \ (unlocked \cup unkept), NEW i \in 1 .. m,
                      w \in rows'[i].by
               PROVE  \E k \in RowsOf(rows', w) : k <= i
    BY DEF CutsNeverReachBack, m
  <2>1. i \in 1 .. n /\ w \in rows[i].by
    BY <1>1, <1>3
  <2>2. PICK k \in RowsOf(rows, w) : k <= i
    BY <2>1 DEF IInv, CutsNeverReachBack, n
  <2>3. k \in RowsOf(rows', w)
    BY <1>1, <1>2 DEF RowsOf, n, m
  <2> QED BY <2>2, <2>3
<1>9. ToolsWhole(rows')
  <2> SUFFICES ASSUME NEW i \in 1 .. m, rows'[i].tool
               PROVE  i > 1 /\ rows'[i - 1].of = rows'[i].of /\ rows'[i - 1].role = "user"
    BY DEF ToolsWhole, m
  <2>1. CASE i \in 1 .. n
    <3>1. i > 1 /\ rows[i - 1].of = rows[i].of /\ rows[i - 1].role = "user"
      BY <1>1, <2>1 DEF IInv, Wholes, ToolsWhole, n
    <3>2. i - 1 \in 1 .. n
      BY <1>1, <2>1, <3>1
    <3>3. rows'[i - 1] = rows[i - 1] /\ rows'[i] = rows[i]
      BY <1>1, <2>1, <3>2
    <3> QED BY <3>1, <3>3
  <2>2. CASE i \notin 1 .. n
    <3>1. i = n + 2 /\ rows'[i].of = u
      BY <1>3, <2>2
    <3>2. i - 1 = n + 1 /\ i > 1
      BY <1>1, <3>1
    <3>3. rows'[n + 1].of = u /\ rows'[n + 1].role = "user"
      BY <1>1, <1>2 DEF Row
    <3> QED BY <3>1, <3>2, <3>3
  <2> QED BY <2>1, <2>2
<1> QED BY <1>1, <1>4, <1>5, <1>6, <1>7, <1>8, <1>9

\* The end of a turn, and a turn of the background lane.
LEMMA RecordKeeps ==
  ASSUME ConversationAssumption, IInv,
         NEW u \in Commands \cup Others, NEW said \in BOOLEAN,
         \/ u \in Commands /\ EndTurn(u, said) /\ ~UNCHANGED rows
         \/ u \in Others /\ said = TRUE /\ RecordElsewhere(u)
  PROVE  IInv'
<1> USE DEF IInv
<1>1. /\ \E tool \in BOOLEAN : rows' = rows \o Exchange(u, said, tool)
      /\ UNCHANGED <<voice, cut, report, past, offered, blind, unkept, spawned, unlocked>>
  BY DEF EndTurn, RecordElsewhere, dialogue
<1>2. /\ rows' \in Seq(Message) /\ CutsNeverReachBack' /\ ToolsWhole(rows')
      /\ \A w \in Commands \ {u} : /\ Asked(rows, w) => Asked(rows', w)
                                   /\ Silent(rows, w) => Silent(rows', w)
      /\ Silent(rows, u) => Asked(rows', u)
      /\ \A w \in Utterances : CutIn(rows, w) => CutIn(rows', w)
  <2>1. PICK tool \in BOOLEAN : rows' = rows \o Exchange(u, said, tool)
    BY <1>1
  <2> QED BY <1>1, <2>1, Recorded
<1>3. Commands \subseteq Utterances /\ FollowUps \subseteq Commands /\ Nobody \notin Commands
      /\ Others \cap Commands = {}
  BY DEF ConversationAssumption, Utterances
<1>4. /\ Types' /\ OneTurn'
      /\ \A w \in Commands : /\ Taken(w)' <=> Taken(w)
                             /\ turn'[w] = "none" <=> turn[w] = "none"
                             /\ turn'[w] = IF w = u THEN "done" ELSE turn[w]
                             /\ w = u => turn[w] # "done"
  <2>1. CASE u \in Commands /\ EndTurn(u, said)
    <3>1. /\ turn[u] \in {"thinking", "answering"} /\ holder' = Nobody
          /\ turn' = [turn EXCEPT ![u] = "done"]
      BY <2>1 DEF EndTurn
    <3>2. \A w \in Commands : turn'[w] = IF w = u THEN "done" ELSE turn[w]
      BY <3>1 DEF Types
    <3>3. Types'
      BY <1>1, <2>1, <3>1 DEF Types
    <3>4. OneTurn'
      BY <1>3, <2>1, <3>1, <3>2 DEF OneTurn
    <3> QED BY <3>1, <3>2, <3>3, <3>4 DEF Taken
  <2>2. CASE u \in Others /\ RecordElsewhere(u)
    <3>1. turn' = turn /\ holder' = holder
      BY <2>2 DEF RecordElsewhere
    <3> QED BY <1>1, <1>3, <2>2, <3>1 DEF Types, OneTurn, Taken
  <2> QED BY <2>1, <2>2
<1>5. Questions'
  BY <1>1, <1>2, <1>4 DEF Questions
<1>6. Serial' /\ Taking'
  BY <1>1, <1>4 DEF Serial, ReadsOther, RowsOf, Taking, Reached
<1>7. Wholes'
  BY <1>1, <1>2 DEF Wholes
<1>8. Reports' /\ Corrected' /\ Posted' /\ Spawns'
  BY <1>1, <1>2, <1>3, <1>4 DEF Reports, Corrected, Posted, Spawns
<1>9. FollowUpsRead'
  BY <1>1, <1>3, <1>4 DEF FollowUpsRead
<1> QED BY <1>2, <1>4, <1>5, <1>6, <1>7, <1>8, <1>9

\* The end of a turn that leaves no row.
LEMMA LoseKeeps ==
  ASSUME ConversationAssumption, IInv, NEW u \in Commands, NEW said \in BOOLEAN,
         EndTurn(u, said), unkept' = unkept \cup {u}, UNCHANGED rows
  PROVE  IInv'
<1> USE DEF IInv
<1>1. /\ turn[u] \in {"thinking", "answering"} /\ holder' = Nobody
      /\ turn' = [turn EXCEPT ![u] = "done"]
      /\ UNCHANGED <<voice, cut, report, rows, past, offered, blind, spawned, unlocked>>
  BY DEF EndTurn
<1>2. Commands \subseteq Utterances /\ FollowUps \subseteq Commands /\ Nobody \notin Commands
  BY DEF ConversationAssumption, Utterances
<1>3. \A w \in Commands : /\ turn'[w] = IF w = u THEN "done" ELSE turn[w]
                          /\ Taken(w)' <=> Taken(w)
                          /\ turn'[w] = "none" <=> turn[w] = "none"
  BY <1>1 DEF Types, Taken
<1>4. Types' /\ OneTurn'
  BY <1>1, <1>2, <1>3 DEF Types, OneTurn
<1>5. Questions'
  BY <1>1, <1>3 DEF Questions, Asked, Silent
<1>6. Serial' /\ Taking' /\ Wholes'
  BY <1>1, <1>3 DEF Serial, ReadsOther, RowsOf, Taking, Reached, Wholes, ToolsWhole
<1>7. Reports' /\ Corrected' /\ Posted' /\ Spawns' /\ CutsNeverReachBack'
  BY <1>1, <1>2, <1>3 DEF Reports, Corrected, Posted, Spawns, CutsNeverReachBack, CutIn, RowsOf
<1>8. FollowUpsRead'
  BY <1>1, <1>2, <1>3 DEF FollowUpsRead, CutIn
<1> QED BY <1>1, <1>4, <1>5, <1>6, <1>7, <1>8

-----------------------------------------------------------------------------
(* The report of an interruption.                                             *)

LEMMA ReportKeeps ==
  ASSUME ConversationAssumption, IInv, NEW u \in Utterances, Report(u) \/ ReportFails(u)
  PROVE  IInv'
<1> USE DEF IInv
<1>1. /\ report[u] = "sent"
      /\ \/ report' = [report EXCEPT ![u] = "waiting"]
         \/ report' = [report EXCEPT ![u] = "failed"]
      /\ UNCHANGED <<voice, cut, turn, holder, rows, past, offered, blind, unkept, spawned, unlocked>>
  BY DEF Report, ReportFails, dialogue
<1>2. /\ report' \in [Utterances -> {"none", "sent", "waiting", "done", "failed"}]
      /\ report'[u] \in {"waiting", "failed"}
      /\ \A w \in Utterances : w # u => report'[w] = report[w]
  BY <1>1 DEF Types
<1>3. Commands \subseteq Utterances /\ FollowUps \subseteq Commands
  BY DEF ConversationAssumption, Utterances
<1>4. Types'
  BY <1>1, <1>2 DEF Types
<1>5. /\ OneTurn' /\ Questions' /\ Serial' /\ Wholes' /\ Taking' /\ Posted'
      /\ CutsNeverReachBack'
  <2>1. \A w \in Commands : /\ Taken(w)' <=> Taken(w)
                            /\ turn'[w] = "done" <=> turn[w] = "done"
    BY <1>1 DEF Taken
  <2> QED BY <1>1, <2>1, DialogueStays DEF OneTurn, Posted
<1>6. Reports' /\ Corrected' /\ FollowUpsRead'
  BY <1>1, <1>2, <1>3 DEF Reports, Corrected, FollowUpsRead, CutIn, Taken
<1>7. Spawns'
  BY <1>1, <1>2, <1>3 DEF Spawns
<1> QED BY <1>1, <1>4, <1>5, <1>6, <1>7

\* Under the lock the interrupted turn has ended, so its rows are there and the newest
\* row is not older than they are.
LEMMA NoteKeeps ==
  ASSUME ConversationAssumption, IInv, NEW u \in Utterances, NoteInterruption(u),
         rows' = AmendLast(rows, u)
  PROVE  IInv'
<1> USE DEF IInv
<1> DEFINE n == Len(rows)
           m == Len(rows')
<1>1. /\ report[u] = "waiting" /\ rows' = AmendLast(rows, u)
      /\ \E how \in {"done", "failed"} : report' = [report EXCEPT ![u] = how]
      /\ \/ holder = Nobody /\ unlocked' = unlocked
         \/ unlocked' = unlocked \cup {u}
      /\ UNCHANGED <<voice, cut, turn, holder, past, offered, blind, unkept, spawned>>
  BY DEF NoteInterruption, dialogue
<1>2. /\ rows' \in Seq(Message) /\ m \in {n, n + 1} /\ n \in Nat
      /\ \A i \in 1 .. n : /\ rows'[i].of = rows[i].of /\ rows'[i].role = rows[i].role
                           /\ rows'[i].tool = rows[i].tool
                           /\ rows[i].by \subseteq rows'[i].by
                           /\ rows'[i].by \subseteq rows[i].by \cup {u}
                           /\ i # n => rows'[i].by = rows[i].by
      /\ m # n => /\ n # 0 /\ rows'[m].of = rows[n].of
                  /\ rows'[m].role = "assistant" /\ rows'[m].by = {u} /\ ~rows'[m].tool
      /\ n # 0 => u \in rows'[m].by
  <2>1. rows \in Seq(Message)
    OBVIOUS
  <2> DEFINE s == AmendLast(rows, u)
  <2>2. /\ s \in Seq(Message) /\ Len(s) \in {n, n + 1}
        /\ \A i \in 1 .. n : /\ s[i].of = rows[i].of /\ s[i].role = rows[i].role
                             /\ s[i].tool = rows[i].tool
                             /\ rows[i].by \subseteq s[i].by
                             /\ s[i].by \subseteq rows[i].by \cup {u}
                             /\ i # n => s[i].by = rows[i].by
        /\ Len(s) # n => /\ n # 0 /\ s[Len(s)].of = rows[n].of
                         /\ s[Len(s)].role = "assistant" /\ s[Len(s)].by = {u}
                          /\ ~s[Len(s)].tool
        /\ n # 0 => u \in s[Len(s)].by
    BY ONLY <2>1, u \in Utterances, Amended
  <2>3. rows' = s /\ n \in Nat
    BY <1>1, <2>1, Entries
  <2> HIDE DEF s
  <2> QED BY ONLY <2>2, <2>3
<1> HIDE DEF n, m
<1>3. Commands \subseteq Utterances /\ FollowUps \subseteq Commands /\ Nobody \notin Commands
  BY DEF ConversationAssumption, Utterances
<1>4. /\ report' \in [Utterances -> {"none", "sent", "waiting", "done", "failed"}]
      /\ report'[u] \in {"done", "failed"}
      /\ \A w \in Utterances : w # u => report'[w] = report[w]
  BY <1>1 DEF Types
<1>5. /\ \A i \in 1 .. n : i \in 1 .. m
      /\ \A i \in 1 .. m : i \in 1 .. n \/ (i = m /\ m # n)
      /\ n # 0 => n \in 1 .. n /\ m \in 1 .. m
  BY <1>2
<1>6. Types'
  BY <1>1, <1>4 DEF Types
<1>7. OneTurn' /\ Serial' /\ Posted' /\ Taking'
  BY <1>1 DEF OneTurn, Serial, ReadsOther, RowsOf, Taken, Posted, Taking, Reached
<1>8. \A i \in 1 .. m : \E k \in 1 .. n : rows'[i].of = rows[k].of
  BY <1>2, <1>5
<1>9. Questions'
  <2>1. ASSUME NEW w \in Commands, Silent(rows, w) PROVE Silent(rows', w)
    BY <1>8, <2>1 DEF Silent, n, m
  <2>2. ASSUME NEW w \in Commands, Asked(rows, w) PROVE Asked(rows', w)
    <3>1. PICK k \in 1 .. n : /\ rows[k].of = w /\ rows[k].role = "user"
                              /\ \A i \in 1 .. n : rows[i].of = w /\ rows[i].role = "user" => i = k
      BY <2>2 DEF Asked, n
    <3>2. k \in 1 .. m /\ rows'[k].of = w /\ rows'[k].role = "user"
      BY <1>2, <1>5, <3>1
    <3>3. \A i \in 1 .. m : rows'[i].of = w /\ rows'[i].role = "user" => i = k
      BY <1>2, <1>5, <3>1
    <3> QED BY <3>2, <3>3 DEF Asked, m
  <2> QED BY <1>1, <2>1, <2>2 DEF Questions
<1>10. Reports' /\ Spawns'
  BY <1>1, <1>3, <1>4 DEF Reports, Spawns, Taken
<1>11. u \in Commands /\ u \notin unlocked' => turn[u] = "done"
  BY <1>1, <1>3 DEF Reports, OneTurn, Taken
<1>12. u \in Commands \ unkept /\ turn[u] = "done" => \E k \in 1 .. n : rows[k].of = u
  BY DEF Questions, Asked, n
<1>13. ASSUME NEW w \in Utterances, CutIn(rows, w) PROVE CutIn(rows', w)
  BY <1>2, <1>5, <1>13 DEF CutIn, n, m
<1>14. Corrected'
  <2> SUFFICES ASSUME NEW w \in Commands \ unkept, w \notin unlocked', report'[w] = "done"
               PROVE  CutIn(rows', w)
    BY <1>1 DEF Corrected
  <2>1. CASE w = u
    <3>1. n # 0
      BY <1>2, <1>11, <1>12, <2>1
    <3> QED BY <1>2, <1>5, <2>1, <3>1 DEF CutIn, m
  <2>2. CASE w # u
    BY <1>1, <1>3, <1>4, <1>13, <2>2 DEF Corrected
  <2> QED BY <2>1, <2>2
<1>15. FollowUpsRead'
  <2> SUFFICES ASSUME NEW f \in FollowUps, Taken(f), spawned[f] \in Commands,
                      spawned[f] \notin unlocked' \cup unkept, report'[spawned[f]] = "done"
               PROVE  CutIn(offered[f], spawned[f])
    BY <1>1 DEF FollowUpsRead, Taken
  <2>1. report[spawned[f]] \in {"done", "failed"}
    BY <1>3 DEF Spawns, Posted, Taken
  <2> QED BY <1>1, <1>3, <1>4, <2>1 DEF FollowUpsRead
<1>16. CutsNeverReachBack'
  <2> SUFFICES ASSUME NEW w \in Commands \ unkept, w \notin unlocked', NEW i \in 1 .. m,
                      w \in rows'[i].by
               PROVE  \E k \in RowsOf(rows', w) : k <= i
    BY <1>1 DEF CutsNeverReachBack, m
  <2>1. \A k \in RowsOf(rows, w) : k \in RowsOf(rows', w)
    BY <1>2, <1>5 DEF RowsOf, n, m
  <2>2. CASE i \in 1 .. n /\ w \in rows[i].by
    BY <1>1, <2>1, <2>2 DEF CutsNeverReachBack, n
  <2>3. CASE ~(i \in 1 .. n /\ w \in rows[i].by)
    <3>1. w = u /\ i >= n
      BY <1>2, <1>5, <2>3
    <3>2. PICK k \in 1 .. n : rows[k].of = u
      BY <1>11, <1>12, <3>1
    <3>3. k \in RowsOf(rows, w) /\ k <= i
      BY <1>2, <3>1, <3>2 DEF RowsOf, n
    <3> QED BY <2>1, <3>3
  <2> QED BY <2>2, <2>3
<1>17. Wholes'
  <2>1. ToolsWhole(rows')
    <3> SUFFICES ASSUME NEW i \in 1 .. m, rows'[i].tool
                 PROVE  i > 1 /\ rows'[i - 1].of = rows'[i].of /\ rows'[i - 1].role = "user"
      BY DEF ToolsWhole, m
    <3>1. i \in 1 .. n /\ rows[i].tool
      BY <1>2, <1>5
    <3>2. i > 1 /\ rows[i - 1].of = rows[i].of /\ rows[i - 1].role = "user"
      BY <3>1 DEF Wholes, ToolsWhole, n
    <3>3. i - 1 \in 1 .. n
      BY <1>2, <3>1, <3>2
    <3> QED BY <1>2, <3>1, <3>2, <3>3
  <2> QED BY <1>1, <2>1 DEF Wholes
<1> QED BY <1>2, <1>6, <1>7, <1>9, <1>10, <1>14, <1>15, <1>16, <1>17

\* It failed, and no row was rewritten.
LEMMA NoteFailsKeeps ==
  ASSUME ConversationAssumption, IInv, NEW u \in Utterances, NoteInterruption(u),
         report' = [report EXCEPT ![u] = "failed"], UNCHANGED rows
  PROVE  IInv'
<1> USE DEF IInv
<1>1. /\ report[u] = "waiting"
      /\ unlocked' \in {unlocked, unlocked \cup {u}}
      /\ UNCHANGED <<voice, cut, turn, holder, rows, past, offered, blind, unkept, spawned>>
  BY DEF NoteInterruption, dialogue
<1>2. /\ report' \in [Utterances -> {"none", "sent", "waiting", "done", "failed"}]
      /\ report'[u] = "failed" /\ \A w \in Utterances : w # u => report'[w] = report[w]
  BY <1>1 DEF Types
<1>3. Commands \subseteq Utterances /\ FollowUps \subseteq Commands
  BY DEF ConversationAssumption, Utterances
<1>4. Types' /\ OneTurn' /\ Posted'
  BY <1>1, <1>2 DEF Types, OneTurn, Posted
<1>5. Questions' /\ Serial' /\ Wholes' /\ Taking'
  <2>1. \A w \in Commands : /\ Taken(w)' <=> Taken(w)
                            /\ turn'[w] = "done" <=> turn[w] = "done"
    BY <1>1 DEF Taken
  <2> QED BY <1>1, <2>1, DialogueStays
<1>6. Reports' /\ Corrected' /\ FollowUpsRead'
  BY <1>1, <1>2, <1>3 DEF Reports, Corrected, FollowUpsRead, CutIn, Taken
<1>7. Spawns' /\ CutsNeverReachBack'
  BY <1>1, <1>2 DEF Spawns, CutsNeverReachBack, RowsOf
<1> QED BY <1>1, <1>4, <1>5, <1>6, <1>7

-----------------------------------------------------------------------------

LEMMA NextIInv == ConversationAssumption /\ IInv /\ [CvNext]_cvVars => IInv'
<1> SUFFICES ASSUME ConversationAssumption, IInv, [CvNext]_cvVars PROVE IInv'
  OBVIOUS
<1>1. CASE \E u \in Utterances : Dispatch(u) \/ Speak(u) \/ BargeIn(u) \/ FallSilent(u)
  BY <1>1, VoiceKeeps, BargeInKeeps
<1>2. CASE \E u \in Utterances, f \in FollowUps : Redispatch(u, f)
  BY <1>2, RedispatchKeeps
<1>3. CASE \E u \in Commands : Answer(u)
  <2>1. PICK u \in Commands : Answer(u)
    BY <1>3
  <2>2. CASE TakeTurn(u) \/ CallTool(u) \/ ToolReturns(u)
    BY <2>2, TakeTurnKeeps, ToolKeeps
  <2>3. CASE \E said \in BOOLEAN : EndTurn(u, said)
    <3>1. PICK said \in BOOLEAN : EndTurn(u, said)
      BY <2>3
    <3>2. CASE UNCHANGED rows
      <4>1. CASE unkept' = unkept \cup {u}
        BY <3>1, <3>2, <4>1, LoseKeeps
      <4>2. CASE \E tool \in BOOLEAN : rows' = rows \o Exchange(u, said, tool)
        <5>1. PICK tool \in BOOLEAN : rows' = rows \o Exchange(u, said, tool)
          BY <4>2
        <5>2. Len(rows') >= Len(rows) + 1 /\ Len(rows) \in Nat
          <6> DEFINE x == Exchange(u, said, tool)
          <6>1. x \in Seq(Message) /\ Len(x) \in {1, 2}
            BY <5>1, Exchanged
          <6>2. rows' = rows \o x /\ rows \in Seq(Message)
            BY <5>1 DEF IInv
          <6> HIDE DEF x
          <6> QED BY <6>1, <6>2, Behind, Entries
        <5> QED BY <3>2, <5>2
      <4> QED BY <3>1, <4>1, <4>2 DEF EndTurn
    <3>3. CASE ~UNCHANGED rows
      BY <3>1, <3>3, RecordKeeps
    <3> QED BY <3>2, <3>3
  <2> QED BY <2>1, <2>2, <2>3 DEF Answer
<1>4. CASE \E u \in Utterances : Report(u) \/ ReportFails(u) \/ NoteInterruption(u)
  <2>1. PICK u \in Utterances : Report(u) \/ ReportFails(u) \/ NoteInterruption(u)
    BY <1>4
  <2>2. CASE Report(u) \/ ReportFails(u)
    BY <2>2, ReportKeeps
  <2>3. CASE NoteInterruption(u)
    <3>1. \/ rows' = AmendLast(rows, u)
          \/ rows' = rows /\ report' = [report EXCEPT ![u] = "failed"]
      BY <2>3 DEF NoteInterruption
    <3> QED BY <2>3, <3>1, NoteKeeps, NoteFailsKeeps
  <2> QED BY <2>1, <2>2, <2>3
<1>5. CASE \E j \in Others : RecordElsewhere(j)
  BY <1>5, RecordKeeps
<1>6. CASE UNCHANGED cvVars
  <2>1. UNCHANGED <<voice, cut, report, turn, holder, rows, past, offered, blind, unkept,
                    spawned, unlocked>>
    BY <1>6 DEF cvVars, dialogue
  <2>2. Types' /\ OneTurn' /\ rows' \in Seq(Message)
    BY <2>1 DEF IInv, Types, OneTurn
  <2>3. /\ Questions' /\ Serial' /\ Wholes' /\ Taking' /\ CutsNeverReachBack'
    <3>1. \A w \in Commands : /\ Taken(w)' <=> Taken(w)
                              /\ turn'[w] = "done" <=> turn[w] = "done"
      BY <2>1 DEF Taken
    <3> QED BY <2>1, <3>1, DialogueStays
  <2>4. Reports' /\ Corrected' /\ Posted' /\ Spawns' /\ FollowUpsRead'
    BY <2>1 DEF IInv, Reports, Corrected, Posted, Spawns, FollowUpsRead, CutIn, Taken
  <2> QED BY <2>2, <2>3, <2>4 DEF IInv
<1> QED BY <1>1, <1>2, <1>3, <1>4, <1>5, <1>6 DEF CvNext

\* The inductive invariant, for every set of commands, follow-ups, alerts and others.
THEOREM ConversationInvariant == CvSpec => []IInv
<1>1. CvInit => IInv
  BY InitIInv, ConversationAssumption
<1>2. IInv /\ [CvNext]_cvVars => IInv'
  BY NextIInv, ConversationAssumption
<1> QED BY <1>1, <1>2, PTL DEF CvSpec

\* What the invariant says of the turn that came second.
LEMMA SecondReads ==
  ASSUME IInv, NEW u \in Commands, NEW w \in Commands, Taken(u), RowsOf(offered[u], w) # {}
  PROVE  Reads(u, w)
<1>1. ASSUME NEW i \in RowsOf(offered[u], w), Reached(u, i) PROVE RowsOf(past[u], w) # {}
  <2>1. i \in 1 .. Len(offered[u]) /\ offered[u][i].of = w /\ u \notin blind
    BY <1>1 DEF RowsOf, Reached
  <2>2. PICK n \in 1 .. Len(past[u]) : past[u][n] = offered[u][i]
    BY <1>1, <2>1 DEF IInv, Taking
  <2> QED BY <2>1, <2>2 DEF RowsOf
<1> QED BY <1>1 DEF Reads

\* The turns of a session are serial: of two that left rows one came after the other and
\* read what its history still reached of it; tool exchanges are read whole, and an ended
\* turn has left its question once, or nothing if its write failed (runtime.py, the
\* conversation lock and the finally clause of a streamed turn).
THEOREM TurnsAreSerial == CvSpec => []TurnsReadTheirPast
<1>1. IInv => TurnsReadTheirPast
  <2> SUFFICES ASSUME IInv PROVE TurnsReadTheirPast
    OBVIOUS
  <2>1. ASSUME NEW u \in Commands, turn[u] = "done"
        PROVE  Cardinality({i \in RowsOf(rows, u) : rows[i].role = "user"})
                 = IF u \in unkept THEN 0 ELSE 1
    <3> DEFINE asked == {i \in RowsOf(rows, u) : rows[i].role = "user"}
    <3>1. CASE u \in unkept
      <4>1. asked = {}
        BY <2>1, <3>1 DEF IInv, Questions, Silent, RowsOf
      <4> QED BY <3>1, <4>1, FS_EmptySet
    <3>2. CASE u \notin unkept
      <4>1. \E k : asked = {k}
        BY <2>1, <3>2 DEF IInv, Questions, Asked, RowsOf
      <4> QED BY <3>2, <4>1, FS_Singleton
    <3> QED BY <3>1, <3>2
  <2>2. ASSUME NEW u \in Commands \ unkept, NEW w \in Commands \ unkept, u # w, Taken(u), Taken(w)
        PROVE  Reads(u, w) \/ Reads(w, u)
    <3>1. RowsOf(offered[u], w) # {} \/ RowsOf(offered[w], u) # {}
      BY <2>2 DEF IInv, Serial, ReadsOther
    <3> QED BY <2>2, <3>1, SecondReads
  <2>3. ASSUME NEW u \in Commands, NEW i \in 1 .. Len(past[u]), past[u][i].tool
        PROVE  i > 1 /\ past[u][i - 1].of = past[u][i].of /\ past[u][i - 1].role = "user"
    BY <2>3 DEF IInv, Wholes, ToolsWhole
  <2> QED BY <2>1, <2>2, <2>3 DEF TurnsReadTheirPast
<1> QED BY <1>1, ConversationInvariant, PTL

\* A correction made under the lock never changes an answer older than the reply that
\* was talked over, if that reply left a row (store.py, amend_last_assistant_message).
THEOREM CutsStayForward == CvSpec => []CutsNeverReachBack
<1>1. IInv => CutsNeverReachBack
  BY DEF IInv
<1> QED BY <1>1, ConversationInvariant, PTL

\* The command that was spoken over a reply is answered by a turn whose history, as far
\* as it reaches, holds that reply's correction (voice/agent.py,
\* _report_then_redispatch).
THEOREM FollowUpsHearTheCut == CvSpec => []FollowUpsReadTheCut
<1>1. IInv => FollowUpsReadTheCut
  <2> SUFFICES ASSUME IInv, NEW f \in FollowUps, Taken(f), report[spawned[f]] = "done",
                      spawned[f] \in Commands \ (unlocked \cup unkept)
               PROVE  \E i \in 1 .. Len(offered[f]) :
                        /\ spawned[f] \in offered[f][i].by
                        /\ Reached(f, i) => \E n \in 1 .. Len(past[f]) : spawned[f] \in past[f][n].by
    BY DEF FollowUpsReadTheCut
  <2>1. f \in Commands
    BY ConversationAssumption DEF ConversationAssumption
  <2>2. PICK i \in 1 .. Len(offered[f]) : spawned[f] \in offered[f][i].by
    BY DEF IInv, FollowUpsRead, CutIn
  <2>3. ASSUME Reached(f, i) PROVE \E n \in 1 .. Len(past[f]) : spawned[f] \in past[f][n].by
    <3>1. f \notin blind
      BY <2>3 DEF Reached
    <3>2. PICK n \in 1 .. Len(past[f]) : past[f][n] = offered[f][i]
      BY <2>1, <2>3, <3>1 DEF IInv, Taking
    <3> QED BY <2>2, <3>2
  <2> QED BY <2>2, <2>3
<1> QED BY <1>1, ConversationInvariant, PTL

\* The three together: what a session remembers is what was said in it.
THEOREM SessionStaysFaithful == CvSpec => []SessionIsFaithful
<1>1. TurnsReadTheirPast /\ CutsNeverReachBack /\ FollowUpsReadTheCut => SessionIsFaithful
  BY DEF SessionIsFaithful
<1> QED BY <1>1, TurnsAreSerial, CutsStayForward, FollowUpsHearTheCut, PTL

-----------------------------------------------------------------------------
(* From the clip to the words that answer it (Listener).                      *)

LsFlags ==
  /\ latch \in BOOLEAN /\ event \in BOOLEAN /\ unmet \in BOOLEAN /\ healthy \in BOOLEAN
  /\ flag \in BOOLEAN /\ session \in BOOLEAN /\ handed \in BOOLEAN
LsFields ==
  /\ queue \in Seq(Kinds)
  /\ asr \in [pc : {"get", "transcribe", "remote", "heard", "submit"}, clip : Kinds]
  /\ cue \in [pc : {"wait", "clear", "begin", "play", "check", "finish"}, slices : 0 .. CueSlices,
              declared : BOOLEAN]
  /\ reply \in [pc : {"none", "write", "arm", "finish"}, slices : 0 .. Slices, cancelled : BOOLEAN]

\* A reply waits for a clip that was heard, for an announcement or for the boot phrase.
InHand == IF asr.pc = "get" THEN 0 ELSE 1
LsCounts ==
  /\ clips \in 0 .. Clips /\ waiting \in Nat /\ Len(queue) <= QueueLimit
  /\ Len(queue) + InHand <= clips
  /\ waiting + Len(queue) + InHand <= clips + Sayings + 1

\* Without a reply the flag is the cue's, and a reply that finds the flag up without a
\* cue is the one the detector watches.
Sounds == cue.pc \in {"play", "check", "finish"} /\ cue.declared
Owned ==
  /\ flag /\ reply.pc = "none" => Sounds
  /\ flag /\ reply.pc = "write" /\ ~reply.cancelled /\ ~Sounds => session
  /\ session => reply.pc \in {"write", "arm"}
Declared ==
  reply.pc \in {"write", "arm"} /\ reply.slices > 0 /\ ~latch /\ healthy /\ ~handed => flag

LsInv == LsFlags /\ LsFields /\ LsCounts /\ Owned /\ Declared /\ WakesAreMet

LEMMA LsInitInv == ASSUME ListenerAssumption, LsInit PROVE LsInv
<1>1. LsFlags
  BY DEF LsInit, LsFlags
<1>2. LsFields
  BY DEF ListenerAssumption, LsInit, LsFields, NoCue, NoReply, Kinds
<1>3. LsCounts
  BY DEF ListenerAssumption, LsInit, LsCounts, InHand
<1>4. Owned /\ Declared /\ WakesAreMet
  BY DEF LsInit, Owned, Declared, WakesAreMet, NoReply
<1> QED BY <1>1, <1>2, <1>3, <1>4 DEF LsInv


\* What the counts are about, as numbers.
LEMMA CountTypes ==
  ASSUME ListenerAssumption, LsFields, LsCounts
  PROVE  /\ clips \in Nat /\ Clips \in Nat /\ Sayings \in Nat /\ QueueLimit \in Nat
         /\ Len(queue) \in Nat /\ InHand \in {0, 1} /\ waiting \in Nat
  BY DEF ListenerAssumption, LsFields, LsCounts, InHand

\* The worker and its queue.
LEMMA HearKeeps ==
  ASSUME ListenerAssumption, LsInv, NEW clip \in Kinds, Hear(clip)
  PROVE  LsInv'
<1>0. LsFlags /\ LsFields /\ LsCounts /\ Owned /\ Declared /\ WakesAreMet
  BY DEF LsInv
<1>1. /\ clips < Clips /\ clips' = clips + 1 /\ asr' = asr
      /\ queue' = IF Len(queue) < QueueLimit THEN Append(queue, clip) ELSE queue
      /\ waiting' = waiting
      /\ UNCHANGED <<cue, reply>> /\ UNCHANGED <<latch, event, unmet, healthy, flag, session, handed>>
  BY DEF Hear, cueVars, speech
<1>2. /\ queue' \in Seq(Kinds) /\ Len(queue') \in Nat /\ Len(queue') <= Len(queue) + 1
      /\ Len(queue') <= QueueLimit
  <2>1. queue \in Seq(Kinds) /\ Len(queue) <= QueueLimit
    BY <1>0 DEF LsFields, LsCounts
  <2> QED BY <1>0, <1>1, <2>1, CountTypes
<1>3. InHand' = InHand
  BY <1>1 DEF InHand
<1>4. LsCounts'
  <2>1. /\ clips \in Nat /\ Clips \in Nat /\ Sayings \in Nat
        /\ Len(queue) \in Nat /\ InHand \in {0, 1} /\ waiting \in Nat
        /\ Len(queue) + InHand <= clips /\ waiting + Len(queue) + InHand <= clips + Sayings + 1
    BY <1>0, CountTypes DEF LsCounts
  <2>2. Len(queue') + InHand <= clips + 1 /\ waiting + Len(queue') + InHand <= clips + 1 + Sayings + 1
    BY <1>2, <2>1
  <2>3. clips' \in 0 .. Clips
    BY <1>1, <2>1
  <2> QED BY <1>1, <1>2, <1>3, <2>1, <2>2, <2>3 DEF LsCounts
<1>5. LsFields'
  BY <1>0, <1>1, <1>2 DEF LsFields
<1> QED BY <1>0, <1>1, <1>4, <1>5 DEF LsInv, LsFlags, Owned, Declared, WakesAreMet, Sounds

LEMMA TakeKeeps == ASSUME ListenerAssumption, LsInv, Take PROVE LsInv'
<1>0. LsFlags /\ LsFields /\ LsCounts /\ Owned /\ Declared /\ WakesAreMet
  BY DEF LsInv
<1>1. /\ asr.pc = "get" /\ queue # <<>> /\ queue' = Tail(queue)
      /\ asr' = [pc |-> "transcribe", clip |-> Head(queue)] \/ asr' = asr
      /\ UNCHANGED <<clips, waiting>>
      /\ UNCHANGED <<cue, reply>> /\ UNCHANGED <<latch, event, unmet, healthy, flag, session, handed>>
  BY DEF Take, cueVars, speech
<1>2. /\ queue' \in Seq(Kinds) /\ Len(queue') = Len(queue) - 1 /\ Head(queue) \in Kinds
  <2>1. queue \in Seq(Kinds)
    BY <1>0 DEF LsFields
  <2> QED BY <1>1, <2>1
<1>3. InHand = 0 /\ InHand' \in {0, 1}
  BY <1>1 DEF InHand
<1>4. LsCounts'
  BY <1>0, <1>1, <1>2, <1>3, CountTypes DEF LsCounts
<1>5. LsFields'
  BY <1>0, <1>1, <1>2 DEF LsFields
<1> QED BY <1>0, <1>1, <1>4, <1>5 DEF LsInv, LsFlags, Owned, Declared, WakesAreMet, Sounds

LEMMA TranscriptKeeps ==
  ASSUME ListenerAssumption, LsInv, Transcribe \/ TranscribeRemotely PROVE LsInv'
<1>0. LsFlags /\ LsFields /\ LsCounts /\ Owned /\ Declared /\ WakesAreMet
  BY DEF LsInv
<1>1. /\ asr.pc # "get" /\ \E to \in {"heard", "remote", "get"} : asr' = [asr EXCEPT !.pc = to]
      /\ latch' = latch \/ latch' = TRUE
      /\ UNCHANGED <<clips, waiting, queue>>
      /\ UNCHANGED <<cue, reply>> /\ UNCHANGED <<event, unmet, healthy, flag, session, handed>>
  BY Zenon DEF Transcribe, TranscribeRemotely, cueVars, speech
<1>2. InHand = 1 /\ InHand' \in {0, 1}
  BY <1>1 DEF InHand
<1>3. LsCounts'
  BY <1>0, <1>1, <1>2, CountTypes DEF LsCounts
<1>4. LsFields'
  BY <1>0, <1>1 DEF LsFields
<1>5. LsFlags'
  BY <1>0, <1>1 DEF LsFlags
<1> QED BY <1>0, <1>1, <1>3, <1>4, <1>5 DEF LsInv, Owned, Declared, WakesAreMet, Sounds, LsFlags

LEMMA AddressKeeps == ASSUME ListenerAssumption, LsInv, Address PROVE LsInv'
<1>0. LsFlags /\ LsFields /\ LsCounts /\ Owned /\ Declared /\ WakesAreMet
  BY DEF LsInv
<1>1. /\ asr.pc = "heard" /\ \E to \in {"submit", "get"} : asr' = [asr EXCEPT !.pc = to]
      /\ UNCHANGED <<clips, waiting, queue>>
      /\ UNCHANGED <<cue, reply>> /\ UNCHANGED <<latch, healthy, flag, session, handed>>
  BY Zenon DEF Address, speech
<1>2. InHand = 1 /\ InHand' \in {0, 1}
  BY <1>1 DEF InHand
<1>3. LsCounts'
  BY <1>0, <1>1, <1>2, CountTypes DEF LsCounts
<1>4. LsFields'
  BY <1>0, <1>1 DEF LsFields
<1>5. /\ event' = (event \/ asr.clip \in {"bare", "command"})
      /\ unmet' = (unmet \/ asr.clip \in {"bare", "command"})
  BY DEF Address
<1>6. LsFlags'
  BY <1>0, <1>1, <1>5 DEF LsFlags
<1>7. WakesAreMet'
  BY <1>0, <1>1, <1>5 DEF WakesAreMet
<1> QED BY <1>0, <1>1, <1>3, <1>4, <1>6, <1>7 DEF LsInv, Owned, Declared, Sounds

\* A reply that is asked for takes the place of the clip it answers.
LEMMA AskKeeps == ASSUME ListenerAssumption, LsInv, Submit \/ Post PROVE LsInv'
<1>0. LsFlags /\ LsFields /\ LsCounts /\ Owned /\ Declared /\ WakesAreMet
  BY DEF LsInv
<1>1. /\ waiting' = waiting + 1
      /\ UNCHANGED <<clips, queue>>
      /\ UNCHANGED <<cue, reply>> /\ UNCHANGED <<latch, event, unmet, healthy, flag, session, handed>>
  BY DEF Submit, Post, cueVars, ears
<1>2. LsCounts' /\ LsFields'
  <2>1. CASE Submit
    <3>1. asr.pc = "submit" /\ asr' = [asr EXCEPT !.pc = "get"]
      BY <2>1 DEF Submit
    <3>2. LsFields'
      BY <1>0, <1>1, <3>1 DEF LsFields
    <3>3. InHand = 1 /\ InHand' = 0
      BY <1>0, <3>1 DEF InHand, LsFields
    <3> QED BY <1>0, <1>1, <3>2, <3>3, CountTypes DEF LsCounts
  <2>2. CASE Post
    <3>1. waiting < Sayings /\ asr' = asr
      BY <2>2 DEF Post, ears
    <3>2. LsFields'
      BY <1>0, <1>1, <3>1 DEF LsFields
    <3>3. InHand' = InHand
      BY <3>1 DEF InHand
    <3> QED BY <1>0, <1>1, <3>1, <3>2, <3>3, CountTypes DEF LsCounts
  <2> QED BY <2>1, <2>2
<1> QED BY <1>0, <1>1, <1>2 DEF LsInv, LsFlags, Owned, Declared, WakesAreMet, Sounds

LEMMA DieKeeps == ASSUME LsInv, Die PROVE LsInv'
<1>0. LsFlags /\ LsFields /\ LsCounts /\ Owned /\ Declared /\ WakesAreMet
  BY DEF LsInv
<1>1. /\ healthy' = FALSE /\ flag' = FALSE
      /\ UNCHANGED <<clips, queue, asr, waiting>>
      /\ UNCHANGED <<cue, reply>> /\ UNCHANGED <<latch, event, unmet, session, handed>>
  BY DEF Die, ears, cueVars, speech
<1>2. LsCounts'
  BY <1>0, <1>1 DEF LsCounts, InHand
<1>3. LsFields'
  BY <1>0, <1>1 DEF LsFields
<1>4. LsFlags'
  BY <1>0, <1>1 DEF LsFlags
<1> QED BY <1>0, <1>1, <1>2, <1>3, <1>4 DEF LsInv, Owned, Declared, WakesAreMet, Sounds

\* The cue.
LEMMA CueKeeps ==
  ASSUME ListenerAssumption, LsInv,
         CueWakes \/ CueClears \/ CueBegins \/ CueSlice \/ CueChecks \/ CueFinishes
  PROVE  LsInv'
<1>0. LsFlags /\ LsFields /\ LsCounts /\ Owned /\ Declared /\ WakesAreMet
  BY DEF LsInv
<1>1. UNCHANGED <<clips, queue, asr, waiting, reply>> /\ UNCHANGED <<latch, healthy, session>>
  BY DEF CueWakes, CueClears, CueBegins, CueSlice, CueChecks, CueFinishes, ears, speech
<1>2. LsCounts'
  BY <1>0, <1>1 DEF LsCounts, InHand
<1>a. cue.slices \in 0 .. CueSlices /\ cue.declared \in BOOLEAN
      /\ cue.pc \in {"wait", "clear", "begin", "play", "check", "finish"}
  BY <1>0 DEF LsFields
<1>3. CASE CueWakes
  <2>1. /\ cue.pc = "wait" /\ event /\ cue' = [cue EXCEPT !.pc = "clear"]
        /\ UNCHANGED <<event, unmet, flag, handed>>
    BY <1>3 DEF CueWakes, speech
  <2>2. LsFields' /\ cue'.pc = "clear"
    BY <1>0, <1>1, <2>1 DEF LsFields
  <2> QED BY <1>0, <1>1, <1>2, <2>1, <2>2 DEF LsInv, LsFlags, Owned, Declared, WakesAreMet, Sounds
<1>4. CASE CueClears
  <2>1. /\ cue.pc = "clear" /\ event' = FALSE /\ cue' = [cue EXCEPT !.pc = "begin"]
        /\ UNCHANGED <<unmet, flag, handed>>
    BY <1>4 DEF CueClears, speech
  <2>2. LsFields' /\ cue'.pc = "begin"
    BY <1>0, <1>1, <2>1 DEF LsFields
  <2>3. LsFlags'
    BY <1>0, <1>1, <2>1 DEF LsFlags
  <2> QED BY <1>0, <1>1, <1>2, <2>1, <2>2, <2>3 DEF LsInv, Owned, Declared, WakesAreMet, Sounds
<1>5. CASE CueBegins
  <2>1. /\ cue.pc = "begin" /\ unmet' = FALSE
        /\ cue' = [pc |-> "play", slices |-> 0, declared |-> Available]
        /\ UNCHANGED <<event, flag, handed>>
    BY <1>5 DEF CueBegins, speech
  <2>2. Available \in BOOLEAN
    BY <1>0 DEF Available, LsFlags
  <2>3. LsFields'
    <3>1. 0 \in 0 .. CueSlices
      BY DEF ListenerAssumption
    <3> QED BY <1>0, <1>1, <2>1, <2>2, <3>1 DEF LsFields
  <2>4. LsFlags'
    BY <1>0, <1>1, <2>1 DEF LsFlags
  <2>5. Owned' /\ Declared' /\ WakesAreMet'
    BY <1>0, <1>1, <2>1 DEF Owned, Declared, WakesAreMet, Sounds
  <2> QED BY <1>2, <2>3, <2>4, <2>5 DEF LsInv
<1>6. CASE CueSlice
  <2>1. cue.pc = "play" /\ UNCHANGED <<event, unmet, handed>>
    BY <1>6 DEF CueSlice, speech
  <2>2. CASE cue.slices < CueSlices /\ cue' = [cue EXCEPT !.slices = @ + 1]
             /\ flag' = (flag \/ cue.declared)
    <3>1. cue.slices + 1 \in 0 .. CueSlices
      BY <1>a, <2>2 DEF ListenerAssumption
    <3>2. LsFields'
      BY <1>0, <1>1, <2>2, <3>1 DEF LsFields
    <3>3. cue'.pc = "play" /\ cue'.declared = cue.declared
      BY <1>0, <2>1, <2>2 DEF LsFields
    <3>4. LsFlags'
      BY <1>0, <1>1, <1>a, <2>1, <2>2 DEF LsFlags
    <3>5. Owned' /\ Declared' /\ WakesAreMet'
      BY <1>0, <1>1, <1>a, <2>1, <2>2, <3>3 DEF Owned, Declared, WakesAreMet, Sounds
    <3> QED BY <1>2, <3>2, <3>4, <3>5 DEF LsInv
  <2>3. CASE cue' = [cue EXCEPT !.pc = "check"] /\ UNCHANGED flag
    <3>1. LsFields' /\ cue'.pc = "check" /\ cue'.declared = cue.declared
      BY <1>0, <1>1, <2>3 DEF LsFields
    <3> QED BY <1>0, <1>1, <1>2, <2>1, <2>3, <3>1
            DEF LsInv, LsFlags, Owned, Declared, WakesAreMet, Sounds
  <2> QED BY <1>6, <2>2, <2>3 DEF CueSlice
<1>7. CASE CueChecks
  <2>1. /\ cue.pc = "check"
        /\ UNCHANGED <<event, unmet, flag, handed>>
    BY <1>7 DEF CueChecks, speech
  <2>2. CASE cue.declared /\ ~session /\ cue' = [cue EXCEPT !.pc = "finish"]
    <3>1. LsFields' /\ cue'.pc = "finish" /\ cue'.declared = cue.declared
      BY <1>0, <1>1, <2>2 DEF LsFields
    <3> QED BY <1>0, <1>1, <1>2, <2>1, <2>2, <3>1
            DEF LsInv, LsFlags, Owned, Declared, WakesAreMet, Sounds
  <2>3. CASE ~(cue.declared /\ ~session) /\ cue' = NoCue
    <3>1. LsFields' /\ cue'.pc = "wait"
      BY <1>0, <1>1, <2>3, <1>a DEF LsFields, NoCue, ListenerAssumption
    <3>2. flag => session \/ ~cue.declared
      BY <2>3
    <3>3. Owned'
      BY <1>0, <1>1, <2>1, <2>3, <3>1 DEF Owned, Sounds
    <3>4. LsFlags' /\ Declared' /\ WakesAreMet'
      BY <1>0, <1>1, <2>1, <3>1 DEF LsFlags, Declared, WakesAreMet
    <3> QED BY <1>2, <3>1, <3>3, <3>4 DEF LsInv
  <2> QED BY <1>7, <2>2, <2>3, Zenon DEF CueChecks
<1>8. CASE CueFinishes
  <2>1. /\ cue.pc = "finish" /\ cue' = NoCue /\ flag' = FALSE /\ handed' = TRUE
        /\ UNCHANGED <<event, unmet>>
    BY <1>8 DEF CueFinishes
  <2>2. LsFields' /\ cue'.pc = "wait"
    BY <1>0, <1>1, <2>1, <1>a DEF LsFields, NoCue, ListenerAssumption
  <2>3. LsFlags'
    BY <1>0, <1>1, <2>1 DEF LsFlags
  <2> QED BY <1>0, <1>1, <1>2, <2>1, <2>2, <2>3 DEF LsInv, Owned, Declared, WakesAreMet, Sounds
<1> QED BY <1>3, <1>4, <1>5, <1>6, <1>7, <1>8

\* The reply.
LEMMA ReplyKeeps ==
  ASSUME ListenerAssumption, LsInv, BeginReply \/ WriteSlice \/ Arm \/ Interrupt \/ Disarm \/ Finish
  PROVE  LsInv'
<1>0. LsFlags /\ LsFields /\ LsCounts /\ Owned /\ Declared /\ WakesAreMet
  BY DEF LsInv
<1>1. UNCHANGED <<clips, queue, asr, cue>> /\ UNCHANGED <<latch, event, unmet, healthy>>
  BY DEF BeginReply, WriteSlice, Arm, Interrupt, Disarm, Finish, ears, cueVars
<1>2. WakesAreMet'
  BY <1>0, <1>1 DEF WakesAreMet
<1>a. /\ reply.slices \in 0 .. Slices /\ reply.cancelled \in BOOLEAN
      /\ reply.pc \in {"none", "write", "arm", "finish"}
  BY <1>0 DEF LsFields
<1>b. InHand' = InHand
  BY <1>1 DEF InHand
<1>3. CASE BeginReply
  <2>1. /\ reply.pc = "none" /\ waiting > 0 /\ waiting' = waiting - 1
        /\ reply' = [NoReply EXCEPT !.pc = "write"] /\ handed' = FALSE /\ UNCHANGED <<flag, session>>
    BY <1>3 DEF BeginReply
  <2>2. LsCounts'
    <3>1. /\ clips \in 0 .. Clips /\ Clips \in Nat /\ Sayings \in Nat
          /\ Len(queue) \in Nat /\ InHand \in {0, 1} /\ waiting \in Nat
          /\ Len(queue) <= QueueLimit /\ Len(queue) + InHand <= clips
          /\ waiting + Len(queue) + InHand <= clips + Sayings + 1
      BY <1>0, CountTypes DEF LsCounts
    <3>2. waiting' \in Nat /\ waiting' + Len(queue) + InHand <= clips + Sayings + 1
      BY <2>1, <3>1
    <3>3. clips' = clips /\ queue' = queue
      BY <1>1
    <3> QED BY <1>b, <3>1, <3>2, <3>3 DEF LsCounts
  <2>a. reply' = [pc |-> "write", slices |-> 0, cancelled |-> FALSE]
    BY <2>1 DEF NoReply
  <2>b. 0 \in 0 .. Slices
    BY DEF ListenerAssumption
  <2>3. LsFields' /\ reply'.pc = "write" /\ reply'.slices = 0
    BY <1>0, <1>1, <2>a, <2>b DEF LsFields
  <2>4. LsFlags'
    BY <1>0, <1>1, <2>1 DEF LsFlags
  <2> QED BY <1>0, <1>1, <1>2, <2>1, <2>2, <2>3, <2>4 DEF LsInv, Owned, Declared, Sounds
<1>4. CASE WriteSlice
  <2>1. /\ reply.pc = "write" /\ ~reply.cancelled /\ reply.slices < Slices
        /\ reply' = [reply EXCEPT !.slices = @ + 1,
                                  !.pc = IF Available /\ ~flag THEN "arm" ELSE "write"]
        /\ flag' = (flag \/ Available) /\ handed' = FALSE /\ UNCHANGED <<waiting, session>>
    BY <1>4 DEF WriteSlice
  <2>2. LsCounts'
    BY <1>0, <1>1, <2>1, <1>b DEF LsCounts
  <2>3. reply.slices + 1 \in 0 .. Slices
    BY <1>a, <2>1 DEF ListenerAssumption
  <2> DEFINE to == IF Available /\ ~flag THEN "arm" ELSE "write"
  <2>a. to \in {"arm", "write"} /\ reply' = [reply EXCEPT !.slices = @ + 1, !.pc = to]
    BY <2>1
  <2>4. LsFields' /\ reply'.pc = to /\ reply'.cancelled = reply.cancelled
    <3> HIDE DEF to
    <3> QED BY <1>0, <1>1, <2>a, <2>3 DEF LsFields
  <2>5. LsFlags'
    BY <1>0, <1>1, <2>1 DEF LsFlags, Available
  <2>6. CASE Available /\ ~flag
    <3>1. reply'.pc = "arm"
      BY <2>4, <2>6
    <3> QED BY <1>0, <1>1, <1>2, <2>1, <2>2, <2>4, <2>5, <2>6, <3>1
            DEF LsInv, Owned, Declared, Sounds
  <2>7. CASE ~(Available /\ ~flag)
    <3>1. reply'.pc = "write"
      BY <2>4, <2>7
    <3>2. flag' = flag
      BY <1>0, <2>1, <2>7 DEF LsFlags, Available
    <3>3. ~flag => latch \/ ~healthy
      BY <2>7 DEF Available
    <3> QED BY <1>0, <1>1, <1>2, <2>1, <2>2, <2>4, <2>5, <3>1, <3>2, <3>3
            DEF LsInv, Owned, Declared, Sounds
  <2> QED BY <2>6, <2>7
<1>5. CASE Arm
  <2>1. /\ reply.pc = "arm" /\ reply' = [reply EXCEPT !.pc = "write"] /\ session' = TRUE
        /\ UNCHANGED <<waiting, flag, handed>>
    BY <1>5 DEF Arm
  <2>2. LsCounts'
    BY <1>0, <1>1, <2>1, <1>b DEF LsCounts
  <2>3. LsFields' /\ reply'.pc = "write" /\ reply'.slices = reply.slices
    BY <1>0, <1>1, <2>1 DEF LsFields
  <2>4. LsFlags'
    BY <1>0, <1>1, <2>1 DEF LsFlags
  <2> QED BY <1>0, <1>1, <1>2, <2>1, <2>2, <2>3, <2>4 DEF LsInv, Owned, Declared, Sounds
<1>6. CASE Interrupt
  <2>1. /\ session /\ session' = FALSE /\ reply' = [reply EXCEPT !.cancelled = TRUE]
        /\ UNCHANGED <<waiting, flag, handed>>
    BY <1>6 DEF Interrupt
  <2>2. LsCounts'
    BY <1>0, <1>1, <2>1, <1>b DEF LsCounts
  <2>3. LsFields' /\ reply'.pc = reply.pc /\ reply'.slices = reply.slices /\ reply'.cancelled
    BY <1>0, <1>1, <2>1 DEF LsFields
  <2>4. LsFlags'
    BY <1>0, <1>1, <2>1 DEF LsFlags
  <2> QED BY <1>0, <1>1, <1>2, <2>1, <2>2, <2>3, <2>4 DEF LsInv, Owned, Declared, Sounds
<1>7. CASE Disarm
  <2>1. /\ reply.pc = "write" /\ reply' = [reply EXCEPT !.pc = "finish"] /\ session' = FALSE
        /\ UNCHANGED <<waiting, flag, handed>>
    BY <1>7 DEF Disarm
  <2>2. LsCounts'
    BY <1>0, <1>1, <2>1, <1>b DEF LsCounts
  <2>3. LsFields' /\ reply'.pc = "finish"
    BY <1>0, <1>1, <2>1 DEF LsFields
  <2>4. LsFlags'
    BY <1>0, <1>1, <2>1 DEF LsFlags
  <2> QED BY <1>0, <1>1, <1>2, <2>1, <2>2, <2>3, <2>4 DEF LsInv, Owned, Declared, Sounds
<1>8. CASE Finish
  <2>1. /\ reply.pc = "finish" /\ reply' = NoReply /\ flag' = FALSE
        /\ UNCHANGED <<waiting, session, handed>>
    BY <1>8 DEF Finish
  <2>2. LsCounts'
    BY <1>0, <1>1, <2>1, <1>b DEF LsCounts
  <2>3. LsFields' /\ reply'.pc = "none"
    BY <1>0, <1>1, <2>1 DEF LsFields, NoReply, ListenerAssumption
  <2>4. LsFlags'
    BY <1>0, <1>1, <2>1 DEF LsFlags
  <2> QED BY <1>0, <1>1, <1>2, <2>1, <2>2, <2>3, <2>4 DEF LsInv, Owned, Declared, Sounds
<1> QED BY <1>3, <1>4, <1>5, <1>6, <1>7, <1>8

LEMMA LsStep == ListenerAssumption /\ LsInv /\ [LsNext]_listenerVars => LsInv'
<1> SUFFICES ASSUME ListenerAssumption, LsInv, [LsNext]_listenerVars PROVE LsInv'
  OBVIOUS
<1>1. CASE UNCHANGED listenerVars
  BY <1>1 DEF listenerVars, LsInv, LsFlags, LsFields, LsCounts, InHand, Owned, Declared, WakesAreMet,
              Sounds
<1> QED BY <1>1, HearKeeps, TakeKeeps, TranscriptKeeps, AddressKeeps, AskKeeps, DieKeeps, CueKeeps,
           ReplyKeeps DEF LsNext

LEMMA LsEnds ==
  ListenerAssumption /\ LsInv =>
    ListenerTypeOK /\ DeafOnlyWhileSpeaking /\ RepliesAreArmed /\ WakesAreMet
<1> SUFFICES ASSUME ListenerAssumption, LsInv
             PROVE  ListenerTypeOK /\ DeafOnlyWhileSpeaking /\ RepliesAreArmed /\ WakesAreMet
  OBVIOUS
<1>0. LsFlags /\ LsFields /\ LsCounts /\ Owned /\ Declared /\ WakesAreMet
  BY DEF LsInv
<1>1. waiting \in 0 .. Clips + Sayings + 1
  BY <1>0, CountTypes DEF LsCounts
<1>2. ListenerTypeOK
  BY <1>0, <1>1 DEF ListenerTypeOK, LsFields, LsCounts
<1>3. DeafOnlyWhileSpeaking
  BY <1>0 DEF DeafOnlyWhileSpeaking, Owned, Sounds
<1>4. RepliesAreArmed
  BY <1>0 DEF RepliesAreArmed, Owned, Declared, Sounds, Available
<1> QED BY <1>0, <1>2, <1>3, <1>4

\* The recognizer is deaf only while something is played, a reply that is heard can be
\* interrupted unless the cue took the flag or a part failed, and every wake word is
\* acknowledged: for any clips, announcements, slices and faults (butler/voice/agent.py).
THEOREM WakesAreHeard ==
  ListenerAssumption =>
    (LsSpec => [](ListenerTypeOK /\ DeafOnlyWhileSpeaking /\ RepliesAreArmed /\ WakesAreMet))
<1> SUFFICES ASSUME ListenerAssumption
             PROVE  LsSpec
                      => [](ListenerTypeOK /\ DeafOnlyWhileSpeaking /\ RepliesAreArmed /\ WakesAreMet)
  OBVIOUS
<1>1. LsInit => LsInv
  BY LsInitInv
<1>2. LsInv /\ [LsNext]_listenerVars => LsInv'
  BY LsStep
<1>3. LsInv => ListenerTypeOK /\ DeafOnlyWhileSpeaking /\ RepliesAreArmed /\ WakesAreMet
  BY LsEnds
<1> QED BY <1>1, <1>2, <1>3, PTL DEF LsSpec

-----------------------------------------------------------------------------
(* Speaker: what the two queues hold is the rest of the reply, in its order, so *)
(* that what playback reports of a sentence is what the sink wrote of it.       *)

Items == {Pcm(c, f) : c \in 1 .. Chunks, f \in 1 .. Frames} \cup {Done(c) : c \in 1 .. Chunks}
           \cup {Close}
Texts == {Text(c) : c \in 1 .. Chunks} \cup {Close}

Busy == synth.pc \in {"produce", "check", "wait"}
Closed == caller.pc \in {"join_synth", "join_playback", "returned"}

SpTypes ==
  /\ caller \in [pc : {"feed", "check", "wait", "close", "join_synth", "join_playback", "returned"},
                 chunk : 0 .. Chunks]
  /\ synth \in [pc : {"get", "produce", "check", "wait", "last", "dead"}, chunk : 0 .. Chunks,
                frame : 0 .. Frames + 1]
  /\ playback \in [pc : {"get", "sink", "drain", "dead"}, playing : 0 .. Chunks,
                   frame : 0 .. Frames, partial : BOOLEAN]
  /\ textQ \in Seq(Texts) /\ Len(textQ) <= MaxQueue
  /\ pcmQ \in Seq(Items) /\ Len(pcmQ) <= MaxQueue
  /\ halted \in BOOLEAN /\ errors \subseteq {"model", "synth", "sink"}
  /\ heard \subseteq (1 .. Chunks) \X (1 .. Frames)
  /\ reports \in Seq({"played", "partial"} \X (1 .. Chunks))

Places ==
  /\ caller.pc \in {"check", "wait"} => caller.chunk > 0
  /\ Busy => synth.chunk > 0
  /\ synth.pc = "produce" => synth.frame <= Frames
  /\ synth.pc \in {"check", "wait"} => synth.frame > 0
  /\ playback.pc = "sink" => playback.playing > 0 /\ playback.frame > 0
  /\ playback.partial => halted
  /\ playback.pc = "drain" => "sink" \in errors
  /\ "sink" \in errors => playback.pc \in {"drain", "dead"}
  /\ "synth" \in errors => synth.pc \in {"last", "dead"}

\* The sentences that wait are those the synthesis has not taken, in their order.
Sentences ==
  /\ synth.chunk <= caller.chunk
  /\ caller.pc \in {"check", "wait"} => synth.chunk < caller.chunk
  /\ \A i \in 1 .. Len(textQ), c \in 1 .. Chunks : textQ[i] = Text(c) =>
       /\ synth.chunk < c /\ c <= caller.chunk
       /\ caller.pc \in {"check", "wait"} => c < caller.chunk
       /\ \A j \in 1 .. Len(textQ), d \in 1 .. Chunks : i < j /\ textQ[j] = Text(d) => c < d
  /\ \A i \in 1 .. Len(textQ) : textQ[i] = Close => Closed

\* The frames that wait come in the order of the reply, and after the mark of a chunk's
\* end comes none of that chunk.
FramesInOrder ==
  /\ \A i \in 1 .. Len(pcmQ) : pcmQ[i] # Close =>
       /\ playback.playing <= pcmQ[i].chunk /\ pcmQ[i].chunk <= synth.chunk
       /\ \A j \in 1 .. Len(pcmQ) : i < j /\ pcmQ[j] # Close =>
            /\ pcmQ[i].chunk <= pcmQ[j].chunk
            /\ pcmQ[i].kind = "done" => pcmQ[i].chunk < pcmQ[j].chunk
       /\ Busy /\ pcmQ[i].kind = "done" => pcmQ[i].chunk < synth.chunk
  /\ \A i \in 1 .. Len(pcmQ) : pcmQ[i] = Close => i = Len(pcmQ) /\ synth.pc = "dead"
  /\ playback.playing <= synth.chunk

\* The last chunk told of.
Told == IF reports = <<>> THEN 0 ELSE reports[Len(reports)][2]
ReportsInOrder ==
  /\ \A i, j \in 1 .. Len(reports) : i < j => reports[i][2] < reports[j][2]
  /\ Told <= synth.chunk
  /\ playback.partial =>
       /\ reports # <<>> /\ reports[Len(reports)] = <<"partial", playback.playing>>
  /\ ~playback.partial =>
       /\ \A i \in 1 .. Len(pcmQ) : pcmQ[i] # Close => Told < pcmQ[i].chunk
       /\ Busy => Told < synth.chunk
       /\ playback.playing # NoChunk => Told < playback.playing

\* The marks that wait, and the frames that are heard, wait or are being written.
Marks == {c \in 1 .. Chunks : \E i \in 1 .. Len(pcmQ) : pcmQ[i] = Done(c)}
Written == {x \in (1 .. Chunks) \X (1 .. Frames) :
              \/ x \in heard
              \/ \E i \in 1 .. Len(pcmQ) : pcmQ[i] = Pcm(x[1], x[2])
              \/ playback.pc = "sink" /\ playback.playing = x[1] /\ playback.frame = x[2]}

\* The frames that were made of the chunk under synthesis, and the chunks made.
Made == IF synth.pc = "produce" THEN synth.frame ELSE synth.frame - 1
Through == {c \in 1 .. Chunks : c < synth.chunk \/ (c = synth.chunk /\ ~Busy /\ "synth" \notin errors)}

Played == Reported("played")
Cut == Reported("partial")
Unreported == Started \ (Played \cup Cut)

\* Nothing is lost on the way to the loudspeaker while nobody stops the reply.
Covered ==
  ~halted /\ "sink" \notin errors =>
    /\ \A c \in Marks, f \in 1 .. Frames : <<c, f>> \in Written
    /\ Busy => \A f \in 1 .. Frames : f <= Made => <<synth.chunk, f>> \in Written
    /\ Through \subseteq Marks \cup Played
    /\ Unreported \subseteq {playback.playing}

\* And nothing of the text.
Given == IF caller.pc \in {"check", "wait"} THEN caller.chunk - 1 ELSE caller.chunk
Fed ==
  ~halted =>
    /\ synth.pc \in {"get", "produce", "check", "wait"} =>
         /\ synth.chunk + Len(textQ) = IF Closed THEN Given + 1 ELSE Given
         /\ \A i \in 1 .. Len(textQ) :
              textQ[i] = IF Closed /\ i = Len(textQ) THEN Close ELSE Text(synth.chunk + i)
    /\ synth.pc \in {"last", "dead"} /\ "synth" \notin errors =>
         Closed /\ synth.chunk = caller.chunk
    /\ "model" \notin errors /\ (caller.pc = "close" \/ Closed) => caller.chunk = Chunks

Ends ==
  /\ playback.pc = "dead" /\ "sink" \notin errors => pcmQ = <<>> /\ synth.pc = "dead"
  /\ Played \subseteq Finished
  /\ "sink" \notin errors => \A x, y \in Unreported : x = y

SpInv == SpTypes /\ Places /\ Sentences /\ FramesInOrder /\ ReportsInOrder /\ Covered /\ Fed /\ Ends

LEMMA TextIs ==
  /\ \A c, d : Text(c) = Text(d) => c = d
  /\ \A c : Text(c) # Close /\ Text(c).chunk = c
<1>1. \A c : Text(c).kind = "text" /\ Text(c).chunk = c
  BY DEF Text
<1>2. Close.kind = "close"
  BY DEF Close
<1>3. ASSUME NEW c, NEW d, Text(c) = Text(d) PROVE c = d
  <2>1. Text(c).chunk = Text(d).chunk
    BY <1>3
  <2> QED BY <1>1, <2>1
<1>4. ASSUME NEW c PROVE Text(c) # Close
  BY <1>1, <1>2
<1> QED BY <1>1, <1>3, <1>4

LEMMA PcmIs ==
  /\ \A c, f : Pcm(c, f).kind = "pcm" /\ Pcm(c, f).chunk = c /\ Pcm(c, f).frame = f
  /\ \A c : Done(c).kind = "done" /\ Done(c).chunk = c
  /\ Close.kind = "close"
  /\ \A c, f : Pcm(c, f) # Close
  /\ \A c : Done(c) # Close
  /\ \A c, d, f : Pcm(c, f) # Done(d)
<1>1. \A c, f : Pcm(c, f).kind = "pcm" /\ Pcm(c, f).chunk = c /\ Pcm(c, f).frame = f
  BY DEF Pcm
<1>2. \A c : Done(c).kind = "done" /\ Done(c).chunk = c
  BY DEF Done
<1>3. Close.kind = "close"
  BY DEF Close
<1>4. ASSUME NEW c, NEW f PROVE Pcm(c, f) # Close
  BY <1>1, <1>3
<1>5. ASSUME NEW c PROVE Done(c) # Close
  BY <1>2, <1>3
<1>6. ASSUME NEW c, NEW d, NEW f PROVE Pcm(c, f) # Done(d)
  BY <1>1, <1>2
<1> QED BY <1>1, <1>2, <1>3, <1>4, <1>5, <1>6

LEMMA ItemIs ==
  ASSUME NEW x \in Items, x # Close
  PROVE  /\ x.chunk \in 1 .. Chunks
         /\ \/ x.kind = "pcm" /\ x.frame \in 1 .. Frames /\ x = Pcm(x.chunk, x.frame)
            \/ x.kind = "done" /\ x = Done(x.chunk)
<1>1. CASE \E c \in 1 .. Chunks, f \in 1 .. Frames : x = Pcm(c, f)
  BY <1>1, PcmIs
<1>2. CASE \E c \in 1 .. Chunks : x = Done(c)
  BY <1>2, PcmIs
<1> QED BY <1>1, <1>2 DEF Items

LEMMA QueueHead ==
  ASSUME NEW S, NEW q \in Seq(S), q # <<>>
  PROVE  /\ Tail(q) \in Seq(S) /\ Len(q) \in Nat \ {0} /\ Len(Tail(q)) = Len(q) - 1
         /\ Head(q) = q[1] /\ Head(q) \in S
         /\ \A i \in 1 .. Len(Tail(q)) : Tail(q)[i] = q[i + 1]
  BY HeadTailProperties

LEMMA QueueEnd ==
  ASSUME NEW S, NEW q \in Seq(S), NEW x \in S
  PROVE  /\ Append(q, x) \in Seq(S) /\ Len(q) \in Nat /\ Len(Append(q, x)) = Len(q) + 1
         /\ \A i \in 1 .. Len(q) : Append(q, x)[i] = q[i]
         /\ Append(q, x)[Len(q) + 1] = x
  BY AppendProperties

\* The types, field by field.
LEMMA SpFields ==
  ASSUME SpeakerAssumption, SpInv
  PROVE  /\ caller.pc \in {"feed", "check", "wait", "close", "join_synth", "join_playback", "returned"}
         /\ caller.chunk \in 0 .. Chunks
         /\ synth.pc \in {"get", "produce", "check", "wait", "last", "dead"}
         /\ synth.chunk \in 0 .. Chunks /\ synth.frame \in 0 .. Frames + 1
         /\ playback.pc \in {"get", "sink", "drain", "dead"}
         /\ playback.playing \in 0 .. Chunks /\ playback.frame \in 0 .. Frames
         /\ textQ \in Seq(Texts) /\ Len(textQ) \in Nat
         /\ pcmQ \in Seq(Items) /\ Len(pcmQ) \in Nat
         /\ Chunks \in Nat \ {0} /\ Frames \in Nat \ {0} /\ MaxQueue \in Nat \ {0}
<1>1. textQ \in Seq(Texts) /\ pcmQ \in Seq(Items)
  BY DEF SpInv, SpTypes
<1>2. Len(textQ) \in Nat /\ Len(pcmQ) \in Nat
  BY <1>1
<1>3. /\ caller.pc \in {"feed", "check", "wait", "close", "join_synth", "join_playback", "returned"}
      /\ caller.chunk \in 0 .. Chunks
  BY DEF SpInv, SpTypes
<1>4. /\ synth.pc \in {"get", "produce", "check", "wait", "last", "dead"}
      /\ synth.chunk \in 0 .. Chunks /\ synth.frame \in 0 .. Frames + 1
  BY DEF SpInv, SpTypes
<1>5. /\ playback.pc \in {"get", "sink", "drain", "dead"}
      /\ playback.playing \in 0 .. Chunks /\ playback.frame \in 0 .. Frames
  BY DEF SpInv, SpTypes
<1>6. Chunks \in Nat \ {0} /\ Frames \in Nat \ {0} /\ MaxQueue \in Nat \ {0}
  BY DEF SpeakerAssumption
<1> QED BY <1>1, <1>2, <1>3, <1>4, <1>5, <1>6

LEMMA SpInitInv == ASSUME SpeakerAssumption, SpInit PROVE SpInv
<1>1. /\ caller.pc = "feed" /\ caller.chunk = 0 /\ synth.pc = "get" /\ synth.chunk = 0
      /\ synth.frame = 0 /\ playback.pc = "get" /\ playback.playing = 0
      /\ playback.frame = 0 /\ playback.partial = FALSE
      /\ textQ = <<>> /\ pcmQ = <<>> /\ halted = FALSE /\ errors = {} /\ heard = {}
      /\ reports = <<>> /\ Len(textQ) = 0 /\ Len(pcmQ) = 0 /\ Len(reports) = 0
  BY DEF SpInit, NoChunk
<1>2. Chunks \in Nat \ {0} /\ Frames \in Nat \ {0} /\ MaxQueue \in Nat \ {0}
  BY DEF SpeakerAssumption
<1>3. SpTypes
  <2>4. textQ \in Seq(Texts) /\ pcmQ \in Seq(Items)
        /\ reports \in Seq({"played", "partial"} \X (1 .. Chunks))
    BY <1>1
  <2>1. caller \in [pc : {"feed", "check", "wait", "close", "join_synth", "join_playback", "returned"},
                 chunk : 0 .. Chunks]
    BY <1>2 DEF SpInit, NoChunk
  <2>2. synth \in [pc : {"get", "produce", "check", "wait", "last", "dead"}, chunk : 0 .. Chunks,
                frame : 0 .. Frames + 1]
    BY <1>2 DEF SpInit, NoChunk
  <2>3. playback \in [pc : {"get", "sink", "drain", "dead"}, playing : 0 .. Chunks,
                   frame : 0 .. Frames, partial : BOOLEAN]
    BY <1>2 DEF SpInit, NoChunk
  <2>5. Len(textQ) <= MaxQueue /\ Len(pcmQ) <= MaxQueue
    BY <1>1, <1>2
  <2>6. /\ halted \in BOOLEAN /\ errors \subseteq {"model", "synth", "sink"}
        /\ heard \subseteq (1 .. Chunks) \X (1 .. Frames)
    BY <1>1
  <2> QED BY <2>1, <2>2, <2>3, <2>4, <2>5, <2>6, Zenon DEF SpTypes
<1>4. Places /\ Sentences /\ FramesInOrder
  <2>1. Places
    BY <1>1, <1>2 DEF Places, Busy
  <2>2. Sentences
    BY <1>1, <1>2 DEF Sentences
  <2>3. FramesInOrder
    BY <1>1, <1>2 DEF FramesInOrder
  <2> QED BY <2>1, <2>2, <2>3
<1>5. ReportsInOrder
  BY <1>1, <1>2 DEF ReportsInOrder, Told, NoChunk, Busy
<1>6. Unreported = {} /\ Played = {}
  BY <1>1 DEF Unreported, Started, Reported, Played, Cut
<1>7. Covered /\ Ends
  <2>1. Marks = {} /\ Through = {}
    BY <1>1, <1>2 DEF Marks, Through, Busy
  <2>2. ~Busy
    BY <1>1 DEF Busy
  <2>3. Covered
    BY <1>1, <1>2, <1>6, <2>1, <2>2 DEF Covered
  <2>4. Ends
    BY <1>1, <1>6 DEF Ends
  <2> QED BY <2>3, <2>4
<1>8. Fed
  BY <1>1, <1>2 DEF Fed, Closed, Given
<1> QED BY <1>3, <1>4, <1>5, <1>7, <1>8 DEF SpInv

\* The caller.
LEMMA CallerRest ==
  ASSUME SpInv, UNCHANGED <<synth, playback, pcmQ, halted, heard, reports>>,
         errors' = errors \/ errors' = errors \cup {"model"}
  PROVE  FramesInOrder' /\ ReportsInOrder' /\ Covered' /\ Ends'
<1>1. /\ "sink" \in errors' <=> "sink" \in errors
      /\ "synth" \in errors' <=> "synth" \in errors
  OBVIOUS
<1>2. Busy' = Busy
  BY DEF Busy
<1>3. FramesInOrder'
  BY <1>2 DEF SpInv, FramesInOrder
<1>4. Told' = Told
  BY DEF Told
<1>5. ReportsInOrder'
  BY <1>2, <1>4 DEF SpInv, ReportsInOrder
<1>6. Unreported' = Unreported /\ Played' = Played /\ Finished' = Finished
  BY DEF Unreported, Reported, Started, Finished, Played, Cut
<1>7. Written' = Written /\ Marks' = Marks /\ Made' = Made /\ Through' = Through
  BY <1>1, <1>2 DEF Written, Marks, Made, Through
<1>9. Covered'
  BY <1>1, <1>2, <1>6, <1>7 DEF SpInv, Covered
<1>10. Ends'
  BY <1>1, <1>6 DEF SpInv, Ends
<1> QED BY <1>3, <1>5, <1>9, <1>10

\* What the caller may change, by the place it comes from.
LEMMA CallerTypes ==
  ASSUME SpInv, UNCHANGED <<synth, playback, pcmQ, halted, heard, reports>>,
         errors' = errors \/ errors' = errors \cup {"model"},
         caller' \in [pc : {"feed", "check", "wait", "close", "join_synth", "join_playback",
                            "returned"}, chunk : 0 .. Chunks],
         textQ' \in Seq(Texts), Len(textQ') <= MaxQueue,
         caller'.pc \in {"check", "wait"} => caller'.chunk > 0
  PROVE  SpTypes' /\ Places'
<1>1. /\ errors' \subseteq {"model", "synth", "sink"} /\ ("sink" \in errors => "sink" \in errors')
     /\ ("sink" \in errors' => "sink" \in errors)
      /\ "synth" \in errors' => "synth" \in errors
  BY DEF SpInv, SpTypes
<1>2. SpTypes'
  BY <1>1 DEF SpInv, SpTypes
<1>3. Places'
  BY <1>1 DEF SpInv, Places, Busy
<1> QED BY <1>2, <1>3

LEMMA FeedKeeps ==
  ASSUME SpeakerAssumption, SpInv, Feed \/ ModelFails PROVE SpInv'
<1>0. caller.pc = "feed" /\ ~Closed /\ caller.chunk \in 0 .. Chunks /\ Chunks \in Nat
  BY SpFields DEF Feed, ModelFails, Closed
<1>1. /\ UNCHANGED <<synth, playback, pcmQ, halted, heard, reports, textQ>>
      /\ errors' = errors \/ errors' = errors \cup {"model"}
  BY DEF Feed, ModelFails
<1>2. \/ /\ halted \/ caller.chunk = Chunks \/ "model" \in errors'
         /\ caller' = [caller EXCEPT !.pc = "close"]
      \/ /\ ~halted /\ caller.chunk # Chunks
         /\ caller' = [pc |-> "check", chunk |-> caller.chunk + 1] /\ errors' = errors
  BY DEF Feed, ModelFails
<1>3. caller \in [pc : {"feed", "check", "wait", "close", "join_synth", "join_playback", "returned"},
                  chunk : 0 .. Chunks]
  BY DEF SpInv, SpTypes
<1>4. /\ caller' \in [pc : {"feed", "check", "wait", "close", "join_synth", "join_playback",
                            "returned"}, chunk : 0 .. Chunks]
      /\ \/ /\ halted \/ caller.chunk = Chunks \/ "model" \in errors'
            /\ caller'.pc = "close" /\ caller'.chunk = caller.chunk
         \/ /\ ~halted /\ caller.chunk # Chunks
            /\ caller'.pc = "check" /\ caller'.chunk = caller.chunk + 1 /\ errors' = errors
  <2>1. CASE /\ halted \/ caller.chunk = Chunks \/ "model" \in errors'
             /\ caller' = [caller EXCEPT !.pc = "close"]
    BY <1>3, <2>1
  <2>2. CASE /\ ~halted /\ caller.chunk # Chunks
             /\ caller' = [pc |-> "check", chunk |-> caller.chunk + 1] /\ errors' = errors
    BY <1>0, <2>2
  <2> QED BY <1>2, <2>1, <2>2
<1>5. SpTypes' /\ Places'
  <2>1. textQ' \in Seq(Texts) /\ Len(textQ') <= MaxQueue
    BY <1>1 DEF SpInv, SpTypes
  <2>2. caller'.pc \in {"check", "wait"} => caller'.chunk > 0
    BY <1>0, <1>4
  <2> QED BY <1>1, <1>4, <2>1, <2>2, CallerTypes
<1>6. ~Closed'
  BY <1>4 DEF Closed
<1>7. synth.chunk \in 0 .. Chunks /\ synth.chunk <= caller.chunk
  BY SpFields DEF SpInv, Sentences
<1>8. Sentences'
  <2>1. \A i \in 1 .. Len(textQ), c \in 1 .. Chunks : textQ[i] = Text(c) =>
          /\ synth.chunk < c /\ c <= caller.chunk
          /\ \A j \in 1 .. Len(textQ), d \in 1 .. Chunks : i < j /\ textQ[j] = Text(d) => c < d
    BY DEF SpInv, Sentences
  <2>2. \A i \in 1 .. Len(textQ) : textQ[i] # Close
    BY <1>0 DEF SpInv, Sentences
  <2>3. /\ caller'.chunk >= caller.chunk /\ caller'.chunk \in Nat
        /\ caller'.pc \in {"check", "wait"} => caller'.chunk > caller.chunk
    BY <1>0, <1>4
  <2> QED BY <1>0, <1>1, <1>7, <2>1, <2>2, <2>3 DEF Sentences
<1>9. Fed'
  <2> SUFFICES ASSUME ~halted' PROVE Fed'
    BY DEF Fed
  <2>1. Given' = Given
    BY <1>0, <1>4 DEF Given
  <2>2. /\ synth.pc \in {"get", "produce", "check", "wait"} =>
             /\ synth.chunk + Len(textQ) = Given
             /\ \A i \in 1 .. Len(textQ) : textQ[i] = Text(synth.chunk + i)
        /\ ~(synth.pc \in {"last", "dead"} /\ "synth" \notin errors)
    BY <1>0, <1>1 DEF SpInv, Fed
  <2>3. "model" \notin errors' /\ caller'.pc = "close" => caller'.chunk = Chunks
    BY <1>1, <1>4
  <2>4. "synth" \in errors => "synth" \in errors'
    BY <1>1
  <2> QED BY <1>1, <1>6, <2>1, <2>2, <2>3, <2>4 DEF Fed
<1> QED BY <1>1, <1>5, <1>8, <1>9, CallerRest DEF SpInv

\* The caller looks again, or goes from one join to the next.
LEMMA MovesKeep ==
  ASSUME SpeakerAssumption, SpInv, NEW p, UNCHANGED <<synth, playback, pcmQ, halted, errors, heard, reports, textQ>>,
         caller' = [caller EXCEPT !.pc = p],
         \/ caller.pc \in {"check", "wait"} /\ p \in {"check", "wait"}
         \/ caller.pc \in {"check", "wait"} /\ halted /\ p = "feed"
         \/ Closed /\ p \in {"join_playback", "returned"}
         \/ caller.pc = "close" /\ p = "join_synth" /\ synth.pc = "dead" /\ "synth" \in errors
         \/ caller.pc = "close" /\ p = "join_synth" /\ halted
  PROVE  SpInv'
<1>1. /\ caller' \in [pc : {"feed", "check", "wait", "close", "join_synth", "join_playback",
                            "returned"}, chunk : 0 .. Chunks]
      /\ caller'.pc = p /\ caller'.chunk = caller.chunk
  <2>1. /\ caller \in [pc : {"feed", "check", "wait", "close", "join_synth", "join_playback",
                             "returned"}, chunk : 0 .. Chunks]
        /\ p \in {"feed", "check", "wait", "close", "join_synth", "join_playback", "returned"}
    BY DEF SpInv, SpTypes
  <2> QED BY <2>1
<1>2. SpTypes' /\ Places'
  <2>1. textQ' \in Seq(Texts) /\ Len(textQ') <= MaxQueue
    BY DEF SpInv, SpTypes
  <2>2. caller'.pc \in {"check", "wait"} => caller'.chunk > 0
    BY <1>1 DEF SpInv, Places, Closed
  <2> QED BY <1>1, <2>1, <2>2, CallerTypes
<1>3. /\ Closed => Closed'
      /\ caller'.pc \in {"check", "wait"} => caller.pc \in {"check", "wait"}
  BY <1>1 DEF Closed
<1>4. Sentences'
  BY <1>1, <1>3 DEF SpInv, Sentences
<1>5. Fed'
  <2> SUFFICES ASSUME ~halted' PROVE Fed'
    BY DEF Fed
  <2>1. CASE caller.pc \in {"check", "wait"} /\ p \in {"check", "wait"}
    <3>1. Given' = Given /\ ~Closed /\ ~Closed' /\ caller'.pc # "close"
      BY <1>1, <2>1 DEF Given, Closed
    <3> QED BY <1>1, <2>1, <3>1 DEF SpInv, Fed
  <2>2. CASE Closed /\ p \in {"join_playback", "returned"}
    <3>1. Given' = Given /\ Closed'
      BY <1>1, <2>2 DEF Given, Closed
    <3> QED BY <1>1, <2>2, <3>1 DEF SpInv, Fed
  <2>3. CASE caller.pc = "close" /\ p = "join_synth" /\ synth.pc = "dead" /\ "synth" \in errors
    <3>1. "model" \notin errors => caller.chunk = Chunks
      BY <2>3 DEF SpInv, Fed
    <3> QED BY <1>1, <2>3, <3>1 DEF Fed
  <2> QED BY <2>1, <2>2, <2>3
<1> QED BY <1>2, <1>4, <1>5, CallerRest DEF SpInv

LEMMA OneFurther ==
  ASSUME NEW a \in Nat, NEW b \in Nat, NEW l \in Nat, NEW m, NEW g,
         a + l = b - 1, g = b, m = l + 1
  PROVE  a + m = g /\ b = a + (l + 1)
  OBVIOUS

\* Something is put on the text queue.
LEMMA TextPut ==
  ASSUME SpeakerAssumption, SpInv, NEW p, UNCHANGED <<synth, playback, pcmQ, halted, errors, heard, reports>>,
         caller' = [caller EXCEPT !.pc = p], HasRoom(textQ),
         \/ caller.pc = "wait" /\ p = "feed" /\ textQ' = Append(textQ, Text(caller.chunk))
         \/ caller.pc = "close" /\ p = "join_synth" /\ textQ' = Append(textQ, Close)
  PROVE  SpInv'
<1>1. /\ caller' \in [pc : {"feed", "check", "wait", "close", "join_synth", "join_playback",
                            "returned"}, chunk : 0 .. Chunks]
      /\ caller'.pc = p /\ caller'.chunk = caller.chunk
  <2>1. /\ caller \in [pc : {"feed", "check", "wait", "close", "join_synth", "join_playback",
                             "returned"}, chunk : 0 .. Chunks]
        /\ p \in {"feed", "check", "wait", "close", "join_synth", "join_playback", "returned"}
    BY DEF SpInv, SpTypes
  <2> QED BY <2>1
<1>2. /\ caller.chunk \in 0 .. Chunks /\ synth.chunk \in 0 .. Chunks /\ synth.chunk <= caller.chunk
      /\ caller.pc = "wait" => synth.chunk < caller.chunk
      /\ Chunks \in Nat /\ textQ \in Seq(Texts)
  BY SpFields DEF SpInv, Sentences
<1>3. PICK x \in Texts :
        /\ textQ' = Append(textQ, x)
        /\ \/ caller.pc = "wait" /\ p = "feed" /\ x = Text(caller.chunk)
           \/ caller.pc = "close" /\ p = "join_synth" /\ x = Close
  <2>1. caller.pc = "wait" => caller.chunk \in 1 .. Chunks
    BY <1>2 DEF SpInv, Places
  <2>2. (caller.pc = "wait" => Text(caller.chunk) \in Texts) /\ Close \in Texts
    BY <2>1 DEF Texts
  <2>3. CASE caller.pc = "wait" /\ p = "feed" /\ textQ' = Append(textQ, Text(caller.chunk))
    BY <2>2, <2>3
  <2>4. CASE caller.pc = "close" /\ p = "join_synth" /\ textQ' = Append(textQ, Close)
    BY <2>2, <2>4
  <2> QED BY <2>3, <2>4
<1>4. /\ textQ' \in Seq(Texts) /\ Len(textQ) \in Nat /\ Len(textQ') = Len(textQ) + 1
      /\ \A i \in 1 .. Len(textQ) : textQ'[i] = textQ[i]
      /\ textQ'[Len(textQ) + 1] = x
  BY <1>2, <1>3, QueueEnd
<1>5. SpTypes' /\ Places'
  <2>1. Len(textQ') <= MaxQueue
    BY <1>4, SpFields DEF HasRoom
  <2>2. caller'.pc \in {"check", "wait"} => caller'.chunk > 0
    BY <1>1, <1>3
  <2> QED BY <1>1, <1>4, <2>1, <2>2, CallerTypes
<1>6. /\ ~Closed
      /\ Closed' <=> p = "join_synth"
      /\ Given = IF p = "feed" THEN caller.chunk - 1 ELSE caller.chunk
      /\ Given' = caller.chunk
  BY <1>1, <1>3 DEF Closed, Given
<1>7. /\ \A i \in 1 .. Len(textQ), c \in 1 .. Chunks : textQ[i] = Text(c) =>
          /\ synth.chunk < c /\ c <= caller.chunk
          /\ caller.pc \in {"check", "wait"} => c < caller.chunk
          /\ \A j \in 1 .. Len(textQ), d \in 1 .. Chunks : i < j /\ textQ[j] = Text(d) => c < d
      /\ \A i \in 1 .. Len(textQ) : textQ[i] # Close
  BY <1>6 DEF SpInv, Sentences
<1>8. Sentences'
  <2>1. ASSUME NEW i \in 1 .. Len(textQ'), NEW c \in 1 .. Chunks, textQ'[i] = Text(c)
        PROVE  /\ synth.chunk < c /\ c <= caller.chunk
               /\ \A j \in 1 .. Len(textQ'), d \in 1 .. Chunks : i < j /\ textQ'[j] = Text(d) => c < d
    <3>1. CASE i = Len(textQ) + 1
      <4>1. x = Text(caller.chunk) /\ caller.pc = "wait"
        BY <1>3, <1>4, <2>1, <3>1, TextIs
      <4>2. c = caller.chunk
        BY <1>4, <2>1, <3>1, <4>1, TextIs
      <4>3. \A j \in 1 .. Len(textQ') : ~(i < j)
        BY <1>4, <3>1
      <4> QED BY <1>2, <4>1, <4>2, <4>3
    <3>2. CASE i # Len(textQ) + 1
      <4>1. i \in 1 .. Len(textQ) /\ textQ[i] = Text(c)
        BY <1>4, <2>1, <3>2
      <4>2. ASSUME NEW j \in 1 .. Len(textQ'), NEW d \in 1 .. Chunks, i < j, textQ'[j] = Text(d)
            PROVE  c < d
        <5>1. CASE j = Len(textQ) + 1
          <6>1. caller.pc = "wait" /\ x = Text(caller.chunk)
            BY <1>3, <1>4, <4>2, <5>1, TextIs
          <6>2. d = caller.chunk
            BY <1>4, <4>2, <5>1, <6>1, TextIs
          <6> QED BY <1>7, <4>1, <6>1, <6>2
        <5>2. CASE j # Len(textQ) + 1
          <6>1. j \in 1 .. Len(textQ) /\ textQ[j] = Text(d)
            BY <1>4, <4>2, <5>2
          <6> QED BY <1>7, <4>1, <4>2, <6>1
        <5> QED BY <5>1, <5>2
      <4> QED BY <1>7, <4>1, <4>2
    <3> QED BY <3>1, <3>2
  <2>2. \A i \in 1 .. Len(textQ') : textQ'[i] = Close => Closed'
    <3>1. CASE x = Close
      <4>1. p = "join_synth"
        BY <1>3, <3>1, TextIs
      <4> QED BY <1>6, <4>1
    <3>2. CASE x # Close
      <4>1. \A i \in 1 .. Len(textQ') : i \in 1 .. Len(textQ) \/ i = Len(textQ) + 1
        BY <1>4
      <4> QED BY <1>4, <1>7, <3>2, <4>1
    <3> QED BY <3>1, <3>2
  <2>3. caller'.pc \notin {"check", "wait"}
    BY <1>1, <1>3
  <2> QED BY <1>1, <1>2, <2>1, <2>2, <2>3 DEF Sentences
<1>9. Fed'
  <2> SUFFICES ASSUME ~halted' PROVE Fed'
    BY DEF Fed
  <2>1. /\ synth.pc \in {"get", "produce", "check", "wait"} =>
             /\ synth.chunk + Len(textQ) = Given
             /\ \A i \in 1 .. Len(textQ) : textQ[i] = Text(synth.chunk + i)
        /\ ~(synth.pc \in {"last", "dead"} /\ "synth" \notin errors)
        /\ "model" \notin errors /\ caller.pc = "close" => caller.chunk = Chunks
    BY <1>6 DEF SpInv, Fed
  <2>2. ASSUME synth.pc \in {"get", "produce", "check", "wait"}
        PROVE  /\ synth.chunk + Len(textQ') = IF Closed' THEN Given' + 1 ELSE Given'
               /\ \A i \in 1 .. Len(textQ') :
                    textQ'[i] = IF Closed' /\ i = Len(textQ') THEN Close ELSE Text(synth.chunk + i)
    <3>1. CASE p = "join_synth"
      <4>1. x = Close /\ Closed' /\ Given = caller.chunk
        BY <1>3, <1>6, <3>1
      <4>2. ASSUME NEW i \in 1 .. Len(textQ')
            PROVE  textQ'[i] = IF Closed' /\ i = Len(textQ') THEN Close ELSE Text(synth.chunk + i)
        <5>1. CASE i = Len(textQ')
          BY <1>4, <4>1, <5>1
        <5>2. CASE i # Len(textQ')
          <6>1. i \in 1 .. Len(textQ)
            BY <1>4, <5>2
          <6> QED BY <1>4, <2>1, <2>2, <5>2, <6>1
        <5> QED BY <5>1, <5>2
      <4>3. synth.chunk + Len(textQ') = Given' + 1
        BY <1>2, <1>4, <1>6, <2>1, <2>2, <4>1
      <4> QED BY <4>1, <4>2, <4>3
    <3>2. CASE p = "feed"
      <4>1. x = Text(caller.chunk) /\ ~Closed' /\ Given = caller.chunk - 1
        BY <1>3, <1>6, <3>2
      <4>2. synth.chunk + Len(textQ') = Given' /\ caller.chunk = synth.chunk + (Len(textQ) + 1)
        <5> DEFINE a == synth.chunk
                   b == caller.chunk
                   l == Len(textQ)
                   m == Len(textQ')
                   g == Given'
        <5>1. a + l = b - 1
          BY <2>1, <2>2, <4>1, Zenon
        <5>2. g = b /\ m = l + 1 /\ l \in Nat /\ a \in Nat /\ b \in Nat
          BY <1>2, <1>4, <1>6
        <5> HIDE DEF a, b, l, m, g
        <5>3. a + m = g /\ b = a + (l + 1)
          BY <5>1, <5>2, OneFurther
        <5> QED BY <5>3 DEF a, b, l, m, g
      <4>3. ASSUME NEW i \in 1 .. Len(textQ')
            PROVE  textQ'[i] = Text(synth.chunk + i)
        <5>1. CASE i = Len(textQ) + 1
          BY <1>4, <4>1, <4>2, <5>1
        <5>2. CASE i # Len(textQ) + 1
          <6>1. i \in 1 .. Len(textQ)
            BY <1>4, <5>2
          <6> QED BY <1>4, <2>1, <2>2, <6>1
        <5> QED BY <5>1, <5>2
      <4> QED BY <4>1, <4>2, <4>3
    <3> QED BY <1>3, <3>1, <3>2
  <2>3. "model" \notin errors /\ (caller'.pc = "close" \/ Closed') => caller'.chunk = Chunks
    BY <1>1, <1>3, <1>6, <2>1
  <2> QED BY <2>1, <2>2, <2>3 DEF Fed
<1> QED BY <1>5, <1>8, <1>9, CallerRest DEF SpInv

LEMMA CallerKeeps ==
  ASSUME SpeakerAssumption, SpInv, Caller PROVE SpInv'
<1>1. CASE Feed \/ ModelFails
  BY <1>1, FeedKeeps
<1>2. CASE FeedPut
  <2>1. UNCHANGED <<synth, playback, pcmQ, halted, errors, heard, reports>>
    BY <1>2 DEF FeedPut
  <2>2. \/ /\ caller.pc = "check" /\ textQ' = textQ
           /\ caller' = [caller EXCEPT !.pc = IF halted THEN "feed" ELSE "wait"]
        \/ /\ caller.pc = "wait" /\ HasRoom(textQ)
           /\ textQ' = Append(textQ, Text(caller.chunk))
           /\ caller' = [caller EXCEPT !.pc = "feed"]
        \/ /\ caller.pc = "wait" /\ textQ' = textQ
           /\ caller' = [caller EXCEPT !.pc = "check"]
    BY <1>2 DEF FeedPut
  <2>3. CASE /\ caller.pc = "check" /\ textQ' = textQ
             /\ caller' = [caller EXCEPT !.pc = IF halted THEN "feed" ELSE "wait"]
    <3>1. CASE halted
      <4>1. caller' = [caller EXCEPT !.pc = "feed"]
        BY <2>3, <3>1
      <4> QED BY <2>1, <2>3, <3>1, <4>1, MovesKeep
    <3>2. CASE ~halted
      <4>1. caller' = [caller EXCEPT !.pc = "wait"]
        BY <2>3, <3>2
      <4> QED BY <2>1, <2>3, <3>2, <4>1, MovesKeep
    <3> QED BY <3>1, <3>2
  <2>4. CASE /\ caller.pc = "wait" /\ HasRoom(textQ)
             /\ textQ' = Append(textQ, Text(caller.chunk))
             /\ caller' = [caller EXCEPT !.pc = "feed"]
    BY <2>1, <2>4, TextPut
  <2>5. CASE /\ caller.pc = "wait" /\ textQ' = textQ
             /\ caller' = [caller EXCEPT !.pc = "check"]
    BY <2>1, <2>5, MovesKeep
  <2> QED BY <2>2, <2>3, <2>4, <2>5
<1>3. CASE CloseText
  <2>1. /\ UNCHANGED <<synth, playback, pcmQ, halted, errors, heard, reports>>
        /\ caller.pc = "close" /\ caller' = [caller EXCEPT !.pc = "join_synth"]
    BY <1>3 DEF CloseText
  <2>2. CASE HasRoom(textQ) /\ textQ' = Append(textQ, Close)
    BY <2>1, <2>2, TextPut
  <2>3. CASE synth.pc = "dead" /\ textQ' = textQ
    <3>1. halted \/ "synth" \in errors
      BY <2>1, <2>3 DEF SpInv, Fed, Closed
    <3> QED BY <2>1, <2>3, <3>1, MovesKeep
  <2> QED BY <1>3, <2>2, <2>3 DEF CloseText
<1>4. CASE Join
  <2>1. UNCHANGED <<synth, playback, textQ, pcmQ, halted, errors, heard, reports>>
    BY <1>4 DEF Join
  <2>2. \/ /\ caller.pc = "join_synth" /\ caller' = [caller EXCEPT !.pc = "join_playback"]
        \/ /\ caller.pc = "join_playback" /\ caller' = [caller EXCEPT !.pc = "returned"]
    BY <1>4 DEF Join
  <2>3. Closed
    BY <2>2 DEF Closed
  <2> QED BY <2>1, <2>2, <2>3, MovesKeep
<1> QED BY <1>1, <1>2, <1>3, <1>4 DEF Caller

\* The synthesis goes on, with nothing put or taken of the frames.
LEMMA SynthRest ==
  ASSUME SpeakerAssumption, SpInv, UNCHANGED <<caller, playback, pcmQ, halted, heard, reports>>,
         errors' = errors \/ errors' = errors \cup {"synth"},
         synth' \in [pc : {"get", "produce", "check", "wait", "last", "dead"}, chunk : 0 .. Chunks,
                     frame : 0 .. Frames + 1],
         synth.pc # "dead", synth'.pc # "dead", synth'.chunk >= synth.chunk,
         Busy' => (Busy /\ synth'.chunk = synth.chunk) \/ synth'.chunk > synth.chunk
  PROVE  FramesInOrder' /\ ReportsInOrder' /\ Ends'
<1>1. /\ synth.chunk \in 0 .. Chunks /\ synth'.chunk \in 0 .. Chunks /\ Chunks \in Nat
      /\ pcmQ \in Seq(Items) /\ Len(pcmQ) \in Nat /\ playback.playing \in 0 .. Chunks
  BY SpFields
<1>2. \A i \in 1 .. Len(pcmQ) : pcmQ[i] # Close
  BY DEF SpInv, FramesInOrder
<1>3. \A i \in 1 .. Len(pcmQ) : pcmQ[i].chunk \in 1 .. Chunks
  <2> SUFFICES ASSUME NEW i \in 1 .. Len(pcmQ) PROVE pcmQ[i].chunk \in 1 .. Chunks
    OBVIOUS
  <2>1. pcmQ[i] \in Items
    BY <1>1
  <2> QED BY <1>2, <2>1, ItemIs
<1>4. FramesInOrder'
  <2>1. ASSUME NEW i \in 1 .. Len(pcmQ)
        PROVE  /\ playback.playing <= pcmQ[i].chunk /\ pcmQ[i].chunk <= synth'.chunk
               /\ \A j \in 1 .. Len(pcmQ) : i < j /\ pcmQ[j] # Close =>
                    /\ pcmQ[i].chunk <= pcmQ[j].chunk
                    /\ pcmQ[i].kind = "done" => pcmQ[i].chunk < pcmQ[j].chunk
               /\ Busy' /\ pcmQ[i].kind = "done" => pcmQ[i].chunk < synth'.chunk
    <3>1. /\ playback.playing <= pcmQ[i].chunk /\ pcmQ[i].chunk <= synth.chunk
          /\ \A j \in 1 .. Len(pcmQ) : i < j /\ pcmQ[j] # Close =>
               /\ pcmQ[i].chunk <= pcmQ[j].chunk
               /\ pcmQ[i].kind = "done" => pcmQ[i].chunk < pcmQ[j].chunk
          /\ Busy /\ pcmQ[i].kind = "done" => pcmQ[i].chunk < synth.chunk
      BY <1>2 DEF SpInv, FramesInOrder
    <3>2. pcmQ[i].chunk \in 1 .. Chunks
      BY <1>3
    <3>3. pcmQ[i].chunk <= synth'.chunk
      BY <1>1, <3>1, <3>2
    <3>4. Busy' /\ pcmQ[i].kind = "done" => pcmQ[i].chunk < synth'.chunk
      BY <1>1, <3>1, <3>2
    <3> QED BY <3>1, <3>3, <3>4
  <2>2. playback.playing <= synth'.chunk
    <3>1. playback.playing <= synth.chunk
      BY DEF SpInv, FramesInOrder
    <3> QED BY <1>1, <3>1
  <2> QED BY <1>2, <2>1, <2>2 DEF FramesInOrder
<1>5. Told \in 0 .. Chunks /\ Told' = Told
  <2>1. reports \in Seq({"played", "partial"} \X (1 .. Chunks)) /\ Chunks \in Nat
    BY <1>1 DEF SpInv, SpTypes
  <2>2. reports # <<>> => reports[Len(reports)] \in {"played", "partial"} \X (1 .. Chunks)
    BY <2>1
  <2>3. reports # <<>> => reports[Len(reports)][2] \in 1 .. Chunks
    BY <2>2
  <2>4. Told \in 0 .. Chunks
    BY <2>1, <2>3 DEF Told
  <2>5. Told' = Told
    BY DEF Told
  <2> QED BY <2>4, <2>5
<1>6. ReportsInOrder'
  <2>1. Told <= synth.chunk /\ (~playback.partial /\ Busy => Told < synth.chunk)
    BY DEF SpInv, ReportsInOrder
  <2>2. Told' <= synth'.chunk /\ (~playback.partial /\ Busy' => Told' < synth'.chunk)
    BY <1>1, <1>5, <2>1
  <2> QED BY <1>5, <2>2 DEF SpInv, ReportsInOrder
<1>7. /\ Unreported' = Unreported /\ Played' = Played /\ Finished' = Finished
  BY DEF Unreported, Reported, Started, Finished, Played, Cut
<1>8. Ends'
  <2>1. "sink" \in errors' <=> "sink" \in errors
    OBVIOUS
  <2> QED BY <1>7, <2>1 DEF SpInv, Ends
<1> QED BY <1>4, <1>6, <1>8

LEMMA SynthTypes ==
  ASSUME SpInv, UNCHANGED <<caller, playback, halted, heard, reports>>,
         errors' = errors \/ errors' = errors \cup {"synth"},
         synth' \in [pc : {"get", "produce", "check", "wait", "last", "dead"}, chunk : 0 .. Chunks,
                     frame : 0 .. Frames + 1],
         textQ' \in Seq(Texts), Len(textQ') <= MaxQueue,
         pcmQ' \in Seq(Items), Len(pcmQ') <= MaxQueue,
         Busy' => synth'.chunk > 0,
         synth'.pc = "produce" => synth'.frame <= Frames,
         synth'.pc \in {"check", "wait"} => synth'.frame > 0,
         "synth" \in errors' => synth'.pc \in {"last", "dead"}
  PROVE  SpTypes' /\ Places'
<1>1. errors' \subseteq {"model", "synth", "sink"} /\ ("sink" \in errors => "sink" \in errors')
      /\ ("sink" \in errors' => "sink" \in errors)
  BY DEF SpInv, SpTypes
<1>2. SpTypes'
  BY <1>1 DEF SpInv, SpTypes
<1>3. Places'
  BY <1>1 DEF SpInv, Places
<1> QED BY <1>2, <1>3

LEMMA SynthCovered ==
  ASSUME SpInv, UNCHANGED <<playback, pcmQ, halted, heard, reports>>,
         "sink" \in errors' <=> "sink" \in errors,
         ~halted => Through' \subseteq Through,
         ~halted /\ Busy' =>
            \A f \in 1 .. Frames : f <= Made' => Busy /\ f <= Made /\ synth'.chunk = synth.chunk
  PROVE  Covered'
<1>1. Written' = Written /\ Marks' = Marks
  BY DEF Written, Marks
<1>2. Unreported' = Unreported /\ Played' = Played
  BY DEF Unreported, Reported, Started, Played, Cut
<1> SUFFICES ASSUME ~halted, "sink" \notin errors PROVE Covered'
  BY DEF Covered
<1>3. /\ \A c \in Marks, f \in 1 .. Frames : <<c, f>> \in Written
      /\ Busy => \A f \in 1 .. Frames : f <= Made => <<synth.chunk, f>> \in Written
      /\ Through \subseteq Marks \cup Played
      /\ Unreported \subseteq {playback.playing}
  BY DEF SpInv, Covered
<1>4. Busy' => \A f \in 1 .. Frames : f <= Made' => <<synth'.chunk, f>> \in Written'
  BY <1>1, <1>3
<1>5. Through' \subseteq Marks' \cup Played'
  BY <1>1, <1>2, <1>3
<1> QED BY <1>1, <1>2, <1>3, <1>4, <1>5 DEF Covered

\* It stays at its chunk.
LEMMA SynthStays ==
  ASSUME SpeakerAssumption, SpInv, NEW p, NEW n,
         UNCHANGED <<caller, playback, textQ, pcmQ, halted, heard, reports>>,
         synth' = [synth EXCEPT !.pc = p, !.frame = n],
         \/ synth.pc = "produce" /\ p = "check" /\ n = synth.frame + 1 /\ errors' = errors
         \/ synth.pc = "produce" /\ p = "last" /\ n = synth.frame /\ errors' = errors \cup {"synth"}
         \/ synth.pc \in {"check", "wait"} /\ p \in {"check", "wait"} /\ n = synth.frame /\ errors' = errors
         \/ synth.pc = "check" /\ halted /\ p = "get" /\ n = synth.frame /\ errors' = errors
  PROVE  SpInv'
<1>1. /\ synth.pc \in {"get", "produce", "check", "wait", "last", "dead"}
      /\ synth.chunk \in 0 .. Chunks /\ synth.frame \in 0 .. Frames + 1
      /\ Chunks \in Nat /\ Frames \in Nat
  BY SpFields
<1>2. Busy /\ synth.chunk > 0 /\ (synth.pc = "produce" => synth.frame <= Frames)
      /\ (synth.pc \in {"check", "wait"} => synth.frame > 0) /\ "synth" \notin errors
  BY DEF SpInv, Places, Busy
<1>3. n \in 0 .. Frames + 1
  BY <1>1, <1>2
<1>4. /\ synth' \in [pc : {"get", "produce", "check", "wait", "last", "dead"}, chunk : 0 .. Chunks,
                     frame : 0 .. Frames + 1]
      /\ synth'.pc = p /\ synth'.chunk = synth.chunk /\ synth'.frame = n
  <2>1. synth \in [pc : {"get", "produce", "check", "wait", "last", "dead"}, chunk : 0 .. Chunks,
                   frame : 0 .. Frames + 1]
    BY DEF SpInv, SpTypes
  <2>2. p \in {"get", "produce", "check", "wait", "last", "dead"}
    OBVIOUS
  <2> QED BY <1>3, <2>1, <2>2
<1>5. SpTypes' /\ Places'
  <2>1. textQ' \in Seq(Texts) /\ Len(textQ') <= MaxQueue /\ pcmQ' \in Seq(Items) /\ Len(pcmQ') <= MaxQueue
    BY DEF SpInv, SpTypes
  <2>2. /\ Busy' => synth'.chunk > 0
        /\ synth'.pc # "produce"
        /\ synth'.pc \in {"check", "wait"} => synth'.frame > 0
        /\ "synth" \in errors' => synth'.pc \in {"last", "dead"}
    BY <1>1, <1>2, <1>4
  <2>3. errors' = errors \/ errors' = errors \cup {"synth"}
    OBVIOUS
  <2> QED BY <1>4, <2>1, <2>2, <2>3, SynthTypes
<1>6. FramesInOrder' /\ ReportsInOrder' /\ Ends'
  <2>1. errors' = errors \/ errors' = errors \cup {"synth"}
    OBVIOUS
  <2>2. synth.pc # "dead" /\ synth'.pc # "dead" /\ synth'.chunk >= synth.chunk
    BY <1>1, <1>4
  <2> QED BY <1>2, <1>4, <2>1, <2>2, SynthRest
<1>7. Sentences'
  BY <1>4 DEF SpInv, Sentences, Closed
<1>8. Covered'
  <2>1. "sink" \in errors' <=> "sink" \in errors
    OBVIOUS
  <2>2. ~halted => Through' \subseteq Through
    <3> SUFFICES ASSUME ~halted, NEW c \in Through' PROVE c \in Through
      OBVIOUS
    <3>1. c < synth.chunk \/ (~Busy' /\ "synth" \notin errors')
      BY <1>4 DEF Through
    <3>2. Busy' \/ "synth" \in errors'
      BY <1>4 DEF Busy
    <3> QED BY <3>1, <3>2 DEF Through
  <2>3. ~halted /\ Busy' => Made' = Made
    BY <1>1, <1>4 DEF Made, Busy
  <2>4. ~halted /\ Busy' =>
            \A f \in 1 .. Frames : f <= Made' => Busy /\ f <= Made /\ synth'.chunk = synth.chunk
    BY <1>2, <1>4, <2>3
  <2> QED BY <2>1, <2>2, <2>4, SynthCovered
<1>9. Fed'
  <2>1. Given' = Given /\ Closed' = Closed
    BY DEF Given, Closed
  <2>2. "model" \in errors' <=> "model" \in errors
    OBVIOUS
  <2>3. synth'.pc \in {"last", "dead"} => "synth" \in errors'
    BY <1>4
  <2>4. synth.pc \in {"get", "produce", "check", "wait"}
    BY <1>2 DEF Busy
  <2> QED BY <1>4, <2>1, <2>2, <2>3, <2>4 DEF SpInv, Fed
<1> QED BY <1>5, <1>6, <1>7, <1>8, <1>9 DEF SpInv

\* It takes the next sentence, or the end.
LEMMA TextTaken ==
  ASSUME SpeakerAssumption, SpInv, SynthGet PROVE SpInv'
<1>1. /\ synth.pc = "get" /\ textQ # <<>> /\ textQ' = Tail(textQ)
      /\ UNCHANGED <<caller, playback, pcmQ, halted, errors, heard, reports>>
  BY DEF SynthGet
<1>2. /\ synth.chunk \in 0 .. Chunks /\ synth.frame \in 0 .. Frames + 1
      /\ Chunks \in Nat \ {0} /\ Frames \in Nat \ {0}
      /\ textQ \in Seq(Texts) /\ pcmQ \in Seq(Items) /\ Len(pcmQ) <= MaxQueue
      /\ Len(textQ) <= MaxQueue /\ MaxQueue \in Nat
      /\ caller.chunk \in 0 .. Chunks
  BY SpFields DEF SpInv, SpTypes
<1>3. /\ textQ' \in Seq(Texts) /\ Len(textQ) \in Nat \ {0} /\ Len(textQ') = Len(textQ) - 1
      /\ Head(textQ) = textQ[1] /\ Head(textQ) \in Texts
      /\ \A i \in 1 .. Len(textQ') : textQ'[i] = textQ[i + 1]
  BY <1>1, <1>2, QueueHead
<1>4. ~Busy /\ "synth" \notin errors
  BY <1>1 DEF Busy, SpInv, Places
<1>5. /\ \A i \in 1 .. Len(textQ), c \in 1 .. Chunks : textQ[i] = Text(c) =>
          /\ synth.chunk < c /\ c <= caller.chunk
          /\ caller.pc \in {"check", "wait"} => c < caller.chunk
          /\ \A j \in 1 .. Len(textQ), d \in 1 .. Chunks : i < j /\ textQ[j] = Text(d) => c < d
      /\ \A i \in 1 .. Len(textQ) : textQ[i] = Close => Closed
      /\ synth.chunk <= caller.chunk
      /\ caller.pc \in {"check", "wait"} => synth.chunk < caller.chunk
  BY DEF SpInv, Sentences
<1> DEFINE nc == synth'.chunk
<1>6. PICK e \in {"end", "thrown", "taken"} :
        /\ e = "end" => Head(textQ) = Close /\ synth' = [synth EXCEPT !.pc = "last"]
        /\ e = "thrown" => halted /\ synth' = synth
        /\ e = "taken" => /\ ~halted
                          /\ \E c \in 1 .. Chunks : Head(textQ) = Text(c)
                                /\ synth' = [pc |-> "produce", chunk |-> c, frame |-> 0]
  <2>1. synth' = IF Head(textQ) = Close THEN [synth EXCEPT !.pc = "last"]
                 ELSE IF halted THEN synth
                 ELSE [pc |-> "produce", chunk |-> Head(textQ).chunk, frame |-> 0]
    BY DEF SynthGet
  <2>2. CASE Head(textQ) = Close
    <3>1. synth' = [synth EXCEPT !.pc = "last"]
      BY <2>1, <2>2
    <3> QED BY <2>2, <3>1
  <2>3. CASE Head(textQ) # Close /\ halted
    <3>1. synth' = synth
      BY <2>1, <2>3
    <3> QED BY <2>3, <3>1
  <2>4. CASE Head(textQ) # Close /\ ~halted
    <3>1. PICK c \in 1 .. Chunks : Head(textQ) = Text(c)
      BY <1>3, <2>4 DEF Texts
    <3>2. synth' = [pc |-> "produce", chunk |-> c, frame |-> 0]
      BY <2>1, <2>4, <3>1, TextIs
    <3> QED BY <2>4, <3>1, <3>2
  <2> QED BY <2>2, <2>3, <2>4
<1>7. synth \in [pc : {"get", "produce", "check", "wait", "last", "dead"}, chunk : 0 .. Chunks,
                 frame : 0 .. Frames + 1]
  BY DEF SpInv, SpTypes
<1>8. /\ synth' \in [pc : {"get", "produce", "check", "wait", "last", "dead"}, chunk : 0 .. Chunks,
                     frame : 0 .. Frames + 1]
      /\ \/ synth'.pc = "last" /\ nc = synth.chunk /\ Head(textQ) = Close
         \/ synth'.pc = "get" /\ nc = synth.chunk /\ halted
         \/ /\ synth'.pc = "produce" /\ ~halted /\ nc \in 1 .. Chunks /\ Head(textQ) = Text(nc)
            /\ synth'.frame = 0
  <2>1. CASE e = "end"
    BY <1>6, <1>7, <2>1
  <2>2. CASE e = "thrown"
    BY <1>1, <1>6, <1>7, <2>2
  <2>3. CASE e = "taken"
    BY <1>2, <1>6, <2>3
  <2> QED BY <2>1, <2>2, <2>3
<1> HIDE DEF nc
<1>9. nc = synth'.chunk /\ nc >= synth.chunk /\ (synth'.pc = "produce" => nc > synth.chunk)
      /\ nc <= caller.chunk
      /\ (caller.pc \in {"check", "wait"} => nc < caller.chunk)
  <2>1. CASE synth'.pc = "produce"
    <3>1. 1 \in 1 .. Len(textQ) /\ textQ[1] = Text(nc) /\ nc \in 1 .. Chunks
      BY <1>3, <1>8, <2>1
    <3>2. synth.chunk < nc /\ nc <= caller.chunk /\ (caller.pc \in {"check", "wait"} => nc < caller.chunk)
      BY <1>5, <3>1
    <3> QED BY <1>2, <3>1, <3>2 DEF nc
  <2>2. CASE synth'.pc # "produce"
    <3>1. nc = synth.chunk
      BY <1>8, <2>2
    <3> QED BY <1>2, <1>5, <2>2, <3>1 DEF nc
  <2> QED BY <2>1, <2>2
<1>10. Busy' <=> synth'.pc = "produce"
  BY <1>8 DEF Busy
<1>11. SpTypes' /\ Places'
  <2>1. Len(textQ') <= MaxQueue
    BY <1>2, <1>3
  <2>2. pcmQ' \in Seq(Items) /\ Len(pcmQ') <= MaxQueue
    BY <1>1, <1>2
  <2>3. /\ Busy' => synth'.chunk > 0
        /\ synth'.pc = "produce" => synth'.frame <= Frames
        /\ synth'.pc \notin {"check", "wait"}
        /\ "synth" \notin errors'
    BY <1>1, <1>2, <1>4, <1>8, <1>9, <1>10
  <2> QED BY <1>1, <1>3, <1>8, <2>1, <2>2, <2>3, SynthTypes
<1>12. FramesInOrder' /\ ReportsInOrder' /\ Ends'
  <2>1. synth.pc # "dead" /\ synth'.pc # "dead"
    BY <1>1, <1>8
  <2> QED BY <1>1, <1>8, <1>9, <1>10, <2>1, SynthRest
<1>13. Sentences'
  <2>1. ASSUME NEW i \in 1 .. Len(textQ'), NEW c \in 1 .. Chunks, textQ'[i] = Text(c)
        PROVE  /\ nc < c /\ c <= caller.chunk
               /\ caller.pc \in {"check", "wait"} => c < caller.chunk
               /\ \A j \in 1 .. Len(textQ'), d \in 1 .. Chunks : i < j /\ textQ'[j] = Text(d) => c < d
    <3>1. i + 1 \in 1 .. Len(textQ) /\ textQ[i + 1] = Text(c) /\ 1 \in 1 .. Len(textQ) /\ 1 < i + 1
      BY <1>3, <2>1
    <3>2. ASSUME NEW j \in 1 .. Len(textQ'), NEW d \in 1 .. Chunks, i < j, textQ'[j] = Text(d)
          PROVE  c < d
      <4>1. i + 1 < j + 1
        BY <1>3, <3>2
      <4>2. j + 1 \in 1 .. Len(textQ) /\ textQ[j + 1] = Text(d)
        BY <1>3, <3>2
      <4> QED BY <1>5, <3>1, <4>1, <4>2
    <3>3. nc < c
      <4>1. CASE synth'.pc = "produce"
        <5>1. nc \in 1 .. Chunks /\ textQ[1] = Text(nc)
          BY <1>3, <1>8, <4>1
        <5> QED BY <1>5, <3>1, <5>1
      <4>2. CASE synth'.pc # "produce"
        <5>1. nc = synth.chunk
          BY <1>8, <4>2
        <5> QED BY <1>5, <3>1, <5>1
      <4> QED BY <4>1, <4>2
    <3> QED BY <1>5, <3>1, <3>2, <3>3
  <2>2. \A i \in 1 .. Len(textQ') : textQ'[i] = Close => Closed
    <3>1. \A i \in 1 .. Len(textQ') : i + 1 \in 1 .. Len(textQ)
      BY <1>3
    <3> QED BY <1>3, <1>5, <3>1
  <2>3. Closed' = Closed
    BY <1>1 DEF Closed
  <2> QED BY <1>1, <1>9, <2>1, <2>2, <2>3 DEF Sentences
<1>14. ~halted =>
         /\ synth.chunk + Len(textQ) = IF Closed THEN Given + 1 ELSE Given
         /\ \A i \in 1 .. Len(textQ) :
              textQ[i] = IF Closed /\ i = Len(textQ) THEN Close ELSE Text(synth.chunk + i)
         /\ "model" \notin errors /\ (caller.pc = "close" \/ Closed) => caller.chunk = Chunks
  BY <1>1 DEF SpInv, Fed
<1>15. ~halted /\ synth'.pc = "produce" => nc = synth.chunk + 1
  <2> SUFFICES ASSUME ~halted, synth'.pc = "produce" PROVE nc = synth.chunk + 1
    OBVIOUS
  <2>1. textQ[1] = Text(nc) /\ 1 \in 1 .. Len(textQ)
    BY <1>3, <1>8
  <2>2. textQ[1] = Close \/ textQ[1] = Text(synth.chunk + 1)
    BY <1>14, <2>1
  <2> QED BY <2>1, <2>2, TextIs
<1>16. Covered'
  <2>1. ~halted => Through' \subseteq Through
    <3> SUFFICES ASSUME ~halted, NEW c \in Through' PROVE c \in Through
      OBVIOUS
    <3>1. c \in 1 .. Chunks /\ (c < nc \/ (c = nc /\ ~Busy'))
      BY <1>9 DEF Through
    <3>2. CASE synth'.pc = "produce"
      <4>1. nc = synth.chunk + 1 /\ Busy'
        BY <1>10, <1>15, <3>2
      <4>2. c < synth.chunk \/ c = synth.chunk
        BY <1>2, <3>1, <4>1
      <4> QED BY <1>4, <3>1, <4>2 DEF Through
    <3>3. CASE synth'.pc # "produce"
      <4>1. nc = synth.chunk
        BY <1>8, <3>3
      <4> QED BY <1>4, <3>1, <4>1 DEF Through
    <3> QED BY <3>2, <3>3
  <2>2. Busy' => Made' = 0
    BY <1>8, <1>10 DEF Made
  <2>3. Busy' => \A f \in 1 .. Frames : ~(f <= Made')
    BY <2>2
  <2> QED BY <1>1, <2>1, <2>3, SynthCovered
<1>17. Fed'
  <2> SUFFICES ASSUME ~halted PROVE Fed'
    BY <1>1 DEF Fed
  <2>1. Given' = Given /\ Closed' = Closed
    BY <1>1 DEF Given, Closed
  <2>2. "model" \notin errors' /\ (caller'.pc = "close" \/ Closed') => caller'.chunk = Chunks
    BY <1>1, <1>14, <2>1
  <2>3. CASE synth'.pc = "produce"
    <3>1. nc = synth.chunk + 1
      BY <1>15, <2>3
    <3>2. nc + Len(textQ') = synth.chunk + Len(textQ)
      BY <1>2, <1>3, <3>1
    <3>3. ASSUME NEW i \in 1 .. Len(textQ')
          PROVE  textQ'[i] = IF Closed /\ i = Len(textQ') THEN Close ELSE Text(nc + i)
      <4>1. i + 1 \in 1 .. Len(textQ) /\ textQ'[i] = textQ[i + 1]
            /\ (i + 1 = Len(textQ) <=> i = Len(textQ'))
        BY <1>3
      <4>2. textQ[i + 1] = IF Closed /\ i + 1 = Len(textQ) THEN Close ELSE Text(synth.chunk + (i + 1))
        BY <1>14, <4>1
      <4>3. synth.chunk + (i + 1) = nc + i
        <5> DEFINE a == synth.chunk
        <5>1. nc = a + 1 /\ a \in Nat /\ i \in Nat
          BY <1>2, <1>3, <3>1
        <5> HIDE DEF a
        <5>2. a + (i + 1) = nc + i
          BY <5>1
        <5> QED BY <5>2 DEF a
      <4>4. CASE Closed /\ i = Len(textQ')
        <5>1. textQ'[i] = Close
          BY <4>1, <4>2, <4>4
        <5> QED BY <4>4, <5>1
      <4>5. CASE ~(Closed /\ i = Len(textQ'))
        <5>1. textQ'[i] = Text(nc + i)
          BY <4>1, <4>2, <4>3, <4>5
        <5> QED BY <4>5, <5>1
      <4> QED BY <4>4, <4>5
    <3> QED BY <1>9, <1>14, <2>1, <2>2, <2>3, <3>2, <3>3 DEF Fed
  <2>4. CASE synth'.pc # "produce"
    <3>1. synth'.pc = "last" /\ nc = synth.chunk /\ Head(textQ) = Close
      BY <1>8, <2>4
    <3>2. textQ[1] = Close /\ 1 \in 1 .. Len(textQ)
      BY <1>3, <3>1
    <3>3. Closed /\ 1 = Len(textQ)
      BY <1>14, <3>2, TextIs
    <3>4. Given = caller.chunk
      BY <3>3 DEF Closed, Given
    <3>5. synth.chunk = caller.chunk
      <4> DEFINE a == synth.chunk
                 b == caller.chunk
      <4>1. synth.chunk + Len(textQ) = Given + 1
        BY <1>14, <3>3
      <4>4. a + 1 = b + 1
        BY <3>3, <3>4, <4>1, Zenon
      <4>2. a + 1 = b + 1 /\ a \in Nat /\ b \in Nat
        BY <1>2, <4>4
      <4> HIDE DEF a, b
      <4>3. a = b
        BY <4>2
      <4> QED BY <4>3 DEF a, b
    <3> QED BY <1>1, <1>9, <2>1, <2>2, <3>1, <3>3, <3>5 DEF Fed
  <2> QED BY <2>3, <2>4
<1> QED BY <1>11, <1>12, <1>13, <1>16, <1>17 DEF SpInv

\* A frame, a mark or the end is put on the PCM queue.
LEMMA PcmPut ==
  ASSUME SpeakerAssumption, SpInv, NEW p, NEW x,
         UNCHANGED <<caller, playback, textQ, halted, errors, heard, reports>>,
         HasRoom(pcmQ), pcmQ' = Append(pcmQ, x), synth' = [synth EXCEPT !.pc = p],
         \/ synth.pc = "wait" /\ synth.frame <= Frames /\ p = "produce" /\ x = Pcm(synth.chunk, synth.frame)
         \/ synth.pc = "wait" /\ ~(synth.frame <= Frames) /\ p = "get" /\ x = Done(synth.chunk)
         \/ synth.pc = "last" /\ p = "dead" /\ x = Close
  PROVE  SpInv'
<1> DEFINE n == synth.chunk
           g == synth.frame
<1>1. /\ synth.pc \in {"get", "produce", "check", "wait", "last", "dead"}
      /\ n \in 0 .. Chunks /\ g \in 0 .. Frames + 1
      /\ Chunks \in Nat \ {0} /\ Frames \in Nat \ {0} /\ pcmQ \in Seq(Items)
      /\ playback.playing \in 0 .. Chunks /\ MaxQueue \in Nat
  BY SpFields
<1>2. /\ synth' \in [pc : {"get", "produce", "check", "wait", "last", "dead"}, chunk : 0 .. Chunks,
                     frame : 0 .. Frames + 1]
      /\ synth'.pc = p /\ synth'.chunk = n /\ synth'.frame = g
  <2>1. synth \in [pc : {"get", "produce", "check", "wait", "last", "dead"}, chunk : 0 .. Chunks,
                   frame : 0 .. Frames + 1]
    BY DEF SpInv, SpTypes
  <2>2. p \in {"get", "produce", "check", "wait", "last", "dead"}
    OBVIOUS
  <2> QED BY <2>1, <2>2
<1>3. /\ synth.pc = "wait" => n \in 1 .. Chunks /\ g > 0 /\ "synth" \notin errors /\ Busy
      /\ Busy' <=> p = "produce"
      /\ Busy <=> synth.pc = "wait"
  BY <1>1, <1>2 DEF SpInv, Places, Busy
<1>4. PICK k \in {"pcm", "done", "close"} :
        /\ k = "pcm" => synth.pc = "wait" /\ g \in 1 .. Frames /\ p = "produce" /\ x = Pcm(n, g)
        /\ k = "done" => synth.pc = "wait" /\ g = Frames + 1 /\ p = "get" /\ x = Done(n)
        /\ k = "close" => synth.pc = "last" /\ p = "dead" /\ x = Close
  <2>1. CASE synth.pc = "wait" /\ synth.frame <= Frames /\ p = "produce" /\ x = Pcm(synth.chunk, synth.frame)
    BY <1>1, <1>3, <2>1
  <2>2. CASE synth.pc = "wait" /\ ~(synth.frame <= Frames) /\ p = "get" /\ x = Done(synth.chunk)
    BY <1>1, <1>3, <2>2
  <2>3. CASE synth.pc = "last" /\ p = "dead" /\ x = Close
    BY <2>3
  <2> QED BY <2>1, <2>2, <2>3
<1>5. /\ x \in Items
      /\ x # Close <=> k # "close"
      /\ x # Close => x.chunk = n /\ synth.pc = "wait"
      /\ x # Close /\ x.kind = "done" => ~Busy'
  <2>1. CASE k = "pcm"
    <3>1. x = Pcm(n, g) /\ n \in 1 .. Chunks /\ g \in 1 .. Frames /\ synth.pc = "wait"
      BY <1>3, <1>4, <2>1
    <3>2. x \in Items
      BY <3>1 DEF Items
    <3>3. x # Close /\ x.chunk = n /\ x.kind = "pcm"
      BY <3>1, PcmIs
    <3> QED BY <2>1, <3>1, <3>2, <3>3
  <2>2. CASE k = "done"
    <3>1. x = Done(n) /\ n \in 1 .. Chunks /\ synth.pc = "wait" /\ ~Busy'
      BY <1>3, <1>4, <2>2
    <3>2. x \in Items
      BY <3>1 DEF Items
    <3>3. x # Close /\ x.chunk = n
      BY <3>1, PcmIs
    <3> QED BY <2>2, <3>1, <3>2, <3>3
  <2>3. CASE k = "close"
    BY <1>4, <2>3 DEF Items
  <2> QED BY <2>1, <2>2, <2>3
<1>6. /\ pcmQ' \in Seq(Items) /\ Len(pcmQ) \in Nat /\ Len(pcmQ') = Len(pcmQ) + 1
      /\ \A i \in 1 .. Len(pcmQ) : pcmQ'[i] = pcmQ[i]
      /\ pcmQ'[Len(pcmQ) + 1] = x
  BY <1>1, <1>5, QueueEnd
<1>7. SpTypes' /\ Places'
  <2>1. Len(pcmQ') <= MaxQueue
    BY <1>1, <1>6 DEF HasRoom
  <2>2. textQ' \in Seq(Texts) /\ Len(textQ') <= MaxQueue
    BY DEF SpInv, SpTypes
  <2>3. /\ Busy' => synth'.chunk > 0
        /\ synth'.pc = "produce" => synth'.frame <= Frames
    BY <1>1, <1>2, <1>3, <1>4
  <2>4. /\ synth'.pc \notin {"check", "wait"}
        /\ "synth" \in errors' => synth'.pc \in {"last", "dead"}
    BY <1>2, <1>3, <1>4
  <2> QED BY <1>2, <1>6, <2>1, <2>2, <2>3, <2>4, SynthTypes
<1>8. Sentences'
  BY <1>2 DEF SpInv, Sentences, Closed
<1>9. \A i \in 1 .. Len(pcmQ) : pcmQ[i] # Close /\ pcmQ[i].chunk \in 1 .. Chunks
  <2> SUFFICES ASSUME NEW i \in 1 .. Len(pcmQ) PROVE pcmQ[i] # Close /\ pcmQ[i].chunk \in 1 .. Chunks
    OBVIOUS
  <2>1. pcmQ[i] \in Items
    BY <1>1
  <2>2. pcmQ[i] # Close
    BY <1>3, <1>4 DEF SpInv, FramesInOrder
  <2> QED BY <2>1, <2>2, ItemIs
<1>10. playback.playing <= n
  BY DEF SpInv, FramesInOrder
<1>11. FramesInOrder'
  <2>1. ASSUME NEW i \in 1 .. Len(pcmQ'), pcmQ'[i] # Close
        PROVE  /\ playback.playing <= pcmQ'[i].chunk /\ pcmQ'[i].chunk <= n
               /\ \A j \in 1 .. Len(pcmQ') : i < j /\ pcmQ'[j] # Close =>
                    /\ pcmQ'[i].chunk <= pcmQ'[j].chunk
                    /\ pcmQ'[i].kind = "done" => pcmQ'[i].chunk < pcmQ'[j].chunk
               /\ Busy' /\ pcmQ'[i].kind = "done" => pcmQ'[i].chunk < n
    <3>1. CASE i = Len(pcmQ) + 1
      <4>1. pcmQ'[i] = x /\ x # Close /\ x.chunk = n
        BY <1>5, <1>6, <2>1, <3>1
      <4>2. \A j \in 1 .. Len(pcmQ') : ~(i < j)
        BY <1>6, <3>1
      <4> QED BY <1>1, <1>5, <1>10, <4>1, <4>2
    <3>2. CASE i # Len(pcmQ) + 1
      <4>1. i \in 1 .. Len(pcmQ) /\ pcmQ'[i] = pcmQ[i] /\ pcmQ[i] # Close
        BY <1>6, <2>1, <3>2
      <4>2. /\ playback.playing <= pcmQ[i].chunk /\ pcmQ[i].chunk <= n
            /\ \A j \in 1 .. Len(pcmQ) : i < j /\ pcmQ[j] # Close =>
                 /\ pcmQ[i].chunk <= pcmQ[j].chunk
                 /\ pcmQ[i].kind = "done" => pcmQ[i].chunk < pcmQ[j].chunk
            /\ Busy /\ pcmQ[i].kind = "done" => pcmQ[i].chunk < n
        BY <4>1 DEF SpInv, FramesInOrder
      <4>3. ASSUME NEW j \in 1 .. Len(pcmQ'), i < j, pcmQ'[j] # Close
            PROVE  /\ pcmQ'[i].chunk <= pcmQ'[j].chunk
                   /\ pcmQ'[i].kind = "done" => pcmQ'[i].chunk < pcmQ'[j].chunk
        <5>1. CASE j = Len(pcmQ) + 1
          <6>1. pcmQ'[j].chunk = n /\ Busy
            BY <1>3, <1>5, <1>6, <4>3, <5>1
          <6> QED BY <4>1, <4>2, <6>1
        <5>2. CASE j # Len(pcmQ) + 1
          <6>1. j \in 1 .. Len(pcmQ) /\ pcmQ'[j] = pcmQ[j]
            BY <1>6, <5>2
          <6> QED BY <4>1, <4>2, <4>3, <6>1
        <5> QED BY <5>1, <5>2
      <4>4. Busy' => Busy
        BY <1>3, <1>4
      <4> QED BY <4>1, <4>2, <4>3, <4>4
    <3> QED BY <3>1, <3>2
  <2>2. ASSUME NEW i \in 1 .. Len(pcmQ'), pcmQ'[i] = Close
        PROVE  i = Len(pcmQ') /\ synth'.pc = "dead"
    <3>1. i = Len(pcmQ) + 1
      <4>1. i \in 1 .. Len(pcmQ) \/ i = Len(pcmQ) + 1
        BY <1>6
      <4> QED BY <1>6, <1>9, <2>2, <4>1
    <3>2. x = Close
      BY <1>6, <2>2, <3>1
    <3> QED BY <1>2, <1>4, <1>5, <1>6, <3>1, <3>2
  <2> HIDE DEF n
  <2> QED BY <1>2, <1>10, <2>1, <2>2 DEF FramesInOrder
<1>12. Told' = Told
  BY DEF Told
<1>13. ReportsInOrder'
  <2>1. /\ Told <= n
        /\ ~playback.partial =>
             /\ \A i \in 1 .. Len(pcmQ) : pcmQ[i] # Close => Told < pcmQ[i].chunk
             /\ Busy => Told < n
    BY DEF SpInv, ReportsInOrder
  <2>2. ASSUME ~playback.partial, NEW i \in 1 .. Len(pcmQ'), pcmQ'[i] # Close
        PROVE  Told < pcmQ'[i].chunk
    <3>1. CASE i = Len(pcmQ) + 1
      <4>1. pcmQ'[i].chunk = n /\ Busy
        BY <1>3, <1>5, <1>6, <2>2, <3>1
      <4> QED BY <2>1, <2>2, <4>1
    <3>2. CASE i # Len(pcmQ) + 1
      <4>1. i \in 1 .. Len(pcmQ) /\ pcmQ'[i] = pcmQ[i]
        BY <1>6, <3>2
      <4> QED BY <2>1, <2>2, <4>1
    <3> QED BY <3>1, <3>2
  <2>3. Busy' => Busy
    BY <1>3, <1>4
  <2> HIDE DEF n
  <2> QED BY <1>2, <1>12, <2>1, <2>2, <2>3 DEF SpInv, ReportsInOrder
<1>14. /\ Unreported' = Unreported /\ Played' = Played /\ Finished' = Finished
  BY DEF Unreported, Reported, Started, Finished, Played, Cut
<1>15. Ends'
  <2>1. playback.pc = "dead" => "sink" \in errors
    BY <1>3, <1>4 DEF SpInv, Ends
  <2> QED BY <1>14, <2>1 DEF SpInv, Ends
<1>16. Covered'
  <2> SUFFICES ASSUME ~halted, "sink" \notin errors PROVE Covered'
    BY DEF Covered
  <2>1. /\ \A c \in Marks, f \in 1 .. Frames : <<c, f>> \in Written
        /\ Busy => \A f \in 1 .. Frames : f <= Made => <<n, f>> \in Written
        /\ Through \subseteq Marks \cup Played
        /\ Unreported \subseteq {playback.playing}
    BY DEF SpInv, Covered
  <2>2. /\ Len(pcmQ) + 1 \in 1 .. Len(pcmQ')
        /\ \A i \in 1 .. Len(pcmQ) : i \in 1 .. Len(pcmQ')
        /\ \A i \in 1 .. Len(pcmQ') : i = Len(pcmQ) + 1 \/ i \in 1 .. Len(pcmQ)
    BY <1>6
  <2>3. Written \subseteq Written'
    <3> SUFFICES ASSUME NEW w \in Written PROVE w \in Written'
      OBVIOUS
    <3>1. CASE \E i \in 1 .. Len(pcmQ) : pcmQ[i] = Pcm(w[1], w[2])
      <4>1. \E i \in 1 .. Len(pcmQ') : pcmQ'[i] = Pcm(w[1], w[2])
        BY <1>6, <2>2, <3>1
      <4> QED BY <4>1 DEF Written
    <3>2. CASE ~\E i \in 1 .. Len(pcmQ) : pcmQ[i] = Pcm(w[1], w[2])
      BY <3>2 DEF Written
    <3> QED BY <3>1, <3>2
  <2>4. Marks \subseteq Marks'
    BY <1>6, <2>2 DEF Marks
  <2>5. CASE k = "pcm"
    <3>1. synth.pc = "wait" /\ Busy /\ g \in 1 .. Frames /\ n \in 1 .. Chunks /\ p = "produce"
          /\ x = Pcm(n, g)
      BY <1>3, <1>4, <2>5
    <3>2. Marks' = Marks
      <4>1. \A c \in 1 .. Chunks : Done(c) # x
        BY <3>1, PcmIs
      <4> QED BY <1>6, <2>2, <4>1 DEF Marks
    <3>3. Through' \subseteq Through
      BY <1>2, <1>3, <3>1 DEF Through
    <3>4. Made' = g /\ Made = g - 1
      BY <1>2, <3>1 DEF Made
    <3>5. <<n, g>> \in Written'
      <4>1. pcmQ'[Len(pcmQ) + 1] = Pcm(n, g)
        BY <1>6, <3>1
      <4>2. <<n, g>> \in (1 .. Chunks) \X (1 .. Frames) /\ <<n, g>>[1] = n /\ <<n, g>>[2] = g
        BY <3>1
      <4> HIDE DEF n, g
      <4> QED BY <2>2, <4>1, <4>2 DEF Written
    <3>6. ASSUME NEW f \in 1 .. Frames, f <= Made' PROVE <<n, f>> \in Written'
      <4>1. f = g \/ f <= g - 1
        BY <1>1, <3>1, <3>4, <3>6
      <4> QED BY <2>1, <2>3, <3>1, <3>4, <3>5, <4>1
    <3> HIDE DEF n, g
    <3> QED BY <1>2, <1>14, <2>1, <2>3, <3>2, <3>3, <3>6 DEF Covered
  <2>6. CASE k = "done"
    <3>1. synth.pc = "wait" /\ Busy /\ g = Frames + 1 /\ n \in 1 .. Chunks /\ p = "get" /\ ~Busy'
          /\ x = Done(n)
      BY <1>3, <1>4, <2>6
    <3>2. n \in Marks'
      <4>1. pcmQ'[Len(pcmQ) + 1] = Done(n)
        BY <1>6, <3>1
      <4> HIDE DEF n
      <4> QED BY <2>2, <3>1, <4>1 DEF Marks
    <3>3. \A c \in Marks' : c \in Marks \/ c = n
      <4> SUFFICES ASSUME NEW c \in Marks' PROVE c \in Marks \/ c = n
        OBVIOUS
      <4>1. c \in 1 .. Chunks /\ \E i \in 1 .. Len(pcmQ') : pcmQ'[i] = Done(c)
        BY DEF Marks
      <4>2. PICK i \in 1 .. Len(pcmQ') : pcmQ'[i] = Done(c)
        BY <4>1
      <4>3. CASE i = Len(pcmQ) + 1
        <5>1. Done(c) = Done(n)
          BY <1>6, <3>1, <4>2, <4>3
        <5>2. Done(c).chunk = c /\ Done(n).chunk = n
          BY PcmIs
        <5> QED BY <5>1, <5>2
      <4>4. CASE i \in 1 .. Len(pcmQ)
        BY <1>6, <4>1, <4>2, <4>4 DEF Marks
      <4> QED BY <2>2, <4>3, <4>4
    <3>4. \A f \in 1 .. Frames : f <= Made
      BY <1>1, <3>1 DEF Made
    <3>5. \A c \in Marks', f \in 1 .. Frames : <<c, f>> \in Written'
      BY <2>1, <2>3, <3>1, <3>3, <3>4
    <3>6. Through' \subseteq Marks' \cup Played'
      <4> SUFFICES ASSUME NEW c \in Through' PROVE c \in Marks' \cup Played
        BY <1>14
      <4>1. c \in 1 .. Chunks /\ (c < n \/ c = n)
        BY <1>2 DEF Through
      <4>2. c < n => c \in Through
        BY <4>1 DEF Through
      <4> QED BY <2>1, <2>4, <3>2, <4>1, <4>2
    <3> HIDE DEF n, g
    <3> QED BY <1>14, <2>1, <3>1, <3>5, <3>6 DEF Covered
  <2>7. CASE k = "close"
    <3>1. synth.pc = "last" /\ p = "dead" /\ x = Close /\ ~Busy /\ ~Busy'
      BY <1>3, <1>4, <2>7
    <3>2. Marks' = Marks
      <4>1. \A c \in 1 .. Chunks : Done(c) # x
        BY <3>1, PcmIs
      <4> QED BY <1>6, <2>2, <4>1 DEF Marks
    <3>3. Through' = Through
      BY <1>2, <3>1 DEF Through
    <3> HIDE DEF n, g
    <3> QED BY <1>14, <2>1, <2>3, <3>1, <3>2, <3>3 DEF Covered
  <2> QED BY <2>5, <2>6, <2>7
<1>17. Fed'
  <2>1. Given' = Given /\ Closed' = Closed
    BY DEF Given, Closed
  <2>2. /\ synth'.pc \in {"get", "produce", "check", "wait"} =>
             synth.pc \in {"get", "produce", "check", "wait"}
        /\ synth'.pc \in {"last", "dead"} => synth.pc \in {"last", "dead"}
    BY <1>2, <1>4
  <2> QED BY <1>2, <2>1, <2>2 DEF SpInv, Fed
<1> QED BY <1>7, <1>8, <1>11, <1>13, <1>15, <1>16, <1>17 DEF SpInv

LEMMA SynthKeeps ==
  ASSUME SpeakerAssumption, SpInv, Synth PROVE SpInv'
<1>0. synth = [synth EXCEPT !.frame = synth.frame]
      /\ \A p : [synth EXCEPT !.pc = p] = [synth EXCEPT !.pc = p, !.frame = synth.frame]
  <2>1. synth \in [pc : {"get", "produce", "check", "wait", "last", "dead"}, chunk : 0 .. Chunks,
                   frame : 0 .. Frames + 1]
    BY DEF SpInv, SpTypes
  <2> QED BY <2>1
<1>1. CASE SynthGet
  BY <1>1, TextTaken
<1>2. CASE Produce
  <2>1. /\ synth.pc = "produce" /\ UNCHANGED <<caller, playback, textQ, pcmQ, halted, errors, heard, reports>>
        /\ synth' = [synth EXCEPT !.pc = "check", !.frame = synth.frame + 1]
    BY <1>2 DEF Produce
  <2> QED BY <2>1, SynthStays
<1>3. CASE SynthFails
  <2>1. /\ synth.pc = "produce" /\ UNCHANGED <<caller, playback, textQ, pcmQ, halted, heard, reports>>
        /\ errors' = errors \cup {"synth"}
        /\ synth' = [synth EXCEPT !.pc = "last"]
    BY <1>3 DEF SynthFails
  <2>2. synth' = [synth EXCEPT !.pc = "last", !.frame = synth.frame]
    BY <1>0, <2>1
  <2> QED BY <2>1, <2>2, SynthStays
<1>4. CASE SynthPut
  <2>1. UNCHANGED <<caller, playback, textQ, halted, errors, heard, reports>>
    BY <1>4 DEF SynthPut
  <2>2. \/ /\ synth.pc = "check" /\ pcmQ' = pcmQ
           /\ synth' = [synth EXCEPT !.pc = IF halted THEN "get" ELSE "wait"]
        \/ /\ synth.pc = "wait" /\ HasRoom(pcmQ) /\ synth.frame <= Frames
           /\ pcmQ' = Append(pcmQ, Pcm(synth.chunk, synth.frame))
           /\ synth' = [synth EXCEPT !.pc = "produce"]
        \/ /\ synth.pc = "wait" /\ HasRoom(pcmQ) /\ ~(synth.frame <= Frames)
           /\ pcmQ' = Append(pcmQ, Done(synth.chunk))
           /\ synth' = [synth EXCEPT !.pc = "get"]
        \/ /\ synth.pc = "wait" /\ pcmQ' = pcmQ
           /\ synth' = [synth EXCEPT !.pc = "check"]
    BY <1>4 DEF SynthPut
  <2>3. CASE /\ synth.pc = "check" /\ pcmQ' = pcmQ
             /\ synth' = [synth EXCEPT !.pc = IF halted THEN "get" ELSE "wait"]
    <3>1. CASE halted
      <4>1. synth' = [synth EXCEPT !.pc = "get", !.frame = synth.frame]
        BY <1>0, <2>3, <3>1
      <4> QED BY <2>1, <2>3, <3>1, <4>1, SynthStays
    <3>2. CASE ~halted
      <4>1. synth' = [synth EXCEPT !.pc = "wait", !.frame = synth.frame]
        BY <1>0, <2>3, <3>2
      <4> QED BY <2>1, <2>3, <3>2, <4>1, SynthStays
    <3> QED BY <3>1, <3>2
  <2>4. CASE /\ synth.pc = "wait" /\ HasRoom(pcmQ) /\ synth.frame <= Frames
             /\ pcmQ' = Append(pcmQ, Pcm(synth.chunk, synth.frame))
             /\ synth' = [synth EXCEPT !.pc = "produce"]
    BY <2>1, <2>4, PcmPut
  <2>5. CASE /\ synth.pc = "wait" /\ HasRoom(pcmQ) /\ ~(synth.frame <= Frames)
             /\ pcmQ' = Append(pcmQ, Done(synth.chunk))
             /\ synth' = [synth EXCEPT !.pc = "get"]
    BY <2>1, <2>5, PcmPut
  <2>6. CASE /\ synth.pc = "wait" /\ pcmQ' = pcmQ
             /\ synth' = [synth EXCEPT !.pc = "check"]
    <3>1. synth' = [synth EXCEPT !.pc = "check", !.frame = synth.frame]
      BY <1>0, <2>6
    <3> QED BY <2>1, <2>6, <3>1, SynthStays
  <2> QED BY <2>2, <2>3, <2>4, <2>5, <2>6
<1>5. CASE CloseSynth
  <2>1. /\ UNCHANGED <<caller, playback, textQ, halted, errors, heard, reports>>
        /\ synth.pc = "last" /\ HasRoom(pcmQ) /\ pcmQ' = Append(pcmQ, Close)
        /\ synth' = [synth EXCEPT !.pc = "dead"]
    BY <1>5 DEF CloseSynth
  <2> QED BY <2>1, PcmPut
<1> QED BY <1>1, <1>2, <1>3, <1>4, <1>5 DEF Synth

\* The playback thread.

LEMMA PlaybackRest ==
  ASSUME SpInv, UNCHANGED <<caller, synth, textQ, halted>>,
         errors' = errors \/ errors' = errors \cup {"sink"}
  PROVE  Sentences' /\ Fed'
<1>1. /\ "model" \in errors' <=> "model" \in errors
      /\ "synth" \in errors' <=> "synth" \in errors
  OBVIOUS
<1>2. Given' = Given /\ Closed' = Closed
  BY DEF Given, Closed
<1>3. Sentences'
  BY <1>2 DEF SpInv, Sentences
<1>4. Fed'
  BY <1>1, <1>2 DEF SpInv, Fed
<1> QED BY <1>3, <1>4

LEMMA PlaybackTypes ==
  ASSUME SpInv, UNCHANGED <<caller, synth, textQ>>,
         halted' \in BOOLEAN, halted => halted',
         errors' = errors \/ errors' = errors \cup {"sink"},
         playback' \in [pc : {"get", "sink", "drain", "dead"}, playing : 0 .. Chunks,
                        frame : 0 .. Frames, partial : BOOLEAN],
         pcmQ' \in Seq(Items), Len(pcmQ') <= MaxQueue,
         heard' \subseteq (1 .. Chunks) \X (1 .. Frames),
         reports' \in Seq({"played", "partial"} \X (1 .. Chunks)),
         playback'.pc = "sink" => playback'.playing > 0 /\ playback'.frame > 0,
         playback'.partial => halted',
         playback'.pc = "drain" => "sink" \in errors',
         "sink" \in errors' => playback'.pc \in {"drain", "dead"}
  PROVE  SpTypes' /\ Places'
<1>1. errors' \subseteq {"model", "synth", "sink"} /\ ("synth" \in errors' => "synth" \in errors)
  BY DEF SpInv, SpTypes
<1>2. SpTypes'
  BY <1>1 DEF SpInv, SpTypes
<1>3. Busy' = Busy
  BY DEF Busy
<1>4. Places'
  BY <1>1, <1>3 DEF SpInv, Places
<1> QED BY <1>2, <1>4

\* The reports.
LEMMA ToldIs ==
  ASSUME SpInv
  PROVE  /\ Told \in Nat /\ Len(reports) \in Nat
         /\ \A i \in 1 .. Len(reports) : reports[i][2] <= Told /\ reports[i][2] \in 1 .. Chunks
         /\ \A c \in Played \cup Cut : c <= Told
         /\ playback.partial => Told = playback.playing /\ playback.playing \in Cut
<1>1. /\ reports \in Seq({"played", "partial"} \X (1 .. Chunks)) /\ Len(reports) \in Nat
      /\ \A i \in 1 .. Len(reports) : reports[i] \in {"played", "partial"} \X (1 .. Chunks)
  BY DEF SpInv, SpTypes
<1>2. \A i \in 1 .. Len(reports) : reports[i][2] \in 1 .. Chunks
  BY <1>1
<1>3. reports # <<>> => Len(reports) \in 1 .. Len(reports)
  BY <1>1
<1>4. Told \in Nat
  BY <1>2, <1>3 DEF Told
<1>5. ASSUME NEW i \in 1 .. Len(reports) PROVE reports[i][2] <= Told
  <2>1. reports # <<>> /\ Told = reports[Len(reports)][2] /\ Len(reports) \in 1 .. Len(reports)
    BY <1>1 DEF Told
  <2>2. i < Len(reports) => reports[i][2] < reports[Len(reports)][2]
    BY <2>1 DEF SpInv, ReportsInOrder
  <2> QED BY <1>1, <1>2, <1>4, <2>1, <2>2
<1>6. \A c \in Played \cup Cut : c <= Told
  <2> SUFFICES ASSUME NEW c \in Played \cup Cut PROVE c <= Told
    OBVIOUS
  <2>1. PICK i \in 1 .. Len(reports), how \in {"played", "partial"} : reports[i] = <<how, c>>
    BY DEF Played, Cut, Reported
  <2>2. reports[i][2] = c
    BY <2>1
  <2> QED BY <1>5, <2>2
<1>7. playback.partial => Told = playback.playing /\ playback.playing \in Cut
  <2> SUFFICES ASSUME playback.partial PROVE Told = playback.playing /\ playback.playing \in Cut
    OBVIOUS
  <2>1. reports # <<>> /\ reports[Len(reports)] = <<"partial", playback.playing>>
    BY DEF SpInv, ReportsInOrder
  <2>2. Told = playback.playing
    BY <2>1 DEF Told
  <2>3. playback.playing \in 1 .. Chunks
    BY <1>2, <1>3, <2>1
  <2>4. playback.playing \in Cut
    BY <1>3, <2>1, <2>3 DEF Cut, Reported
  <2> QED BY <2>2, <2>4
<1> QED BY <1>1, <1>2, <1>4, <1>5, <1>6, <1>7

LEMMA ReportMade ==
  ASSUME SpInv, NEW how \in {"played", "partial"}, NEW c \in 1 .. Chunks, Chunks \in Nat,
         reports' = Append(reports, <<how, c>>), Told < c
  PROVE  /\ reports' \in Seq({"played", "partial"} \X (1 .. Chunks))
         /\ \A i, j \in 1 .. Len(reports') : i < j => reports'[i][2] < reports'[j][2]
         /\ Told' = c /\ reports' # <<>> /\ reports'[Len(reports')] = <<how, c>>
         /\ how = "played" => Played' = Played \cup {c} /\ Cut' = Cut
         /\ how = "partial" => Cut' = Cut \cup {c} /\ Played' = Played
<1>1. reports \in Seq({"played", "partial"} \X (1 .. Chunks))
      /\ <<how, c>> \in {"played", "partial"} \X (1 .. Chunks)
  BY DEF SpInv, SpTypes
<1>2. /\ reports' \in Seq({"played", "partial"} \X (1 .. Chunks)) /\ Len(reports) \in Nat
      /\ Len(reports') = Len(reports) + 1
      /\ \A i \in 1 .. Len(reports) : reports'[i] = reports[i]
      /\ reports'[Len(reports) + 1] = <<how, c>>
  BY <1>1, QueueEnd
<1>3. /\ Len(reports) + 1 \in 1 .. Len(reports')
      /\ \A i \in 1 .. Len(reports) : i \in 1 .. Len(reports')
      /\ \A i \in 1 .. Len(reports') : i = Len(reports) + 1 \/ i \in 1 .. Len(reports)
  BY <1>2
<1>4. reports' # <<>> /\ Told' = c /\ reports'[Len(reports')] = <<how, c>>
  BY <1>2 DEF Told
<1>5. ASSUME NEW i \in 1 .. Len(reports'), NEW j \in 1 .. Len(reports'), i < j
      PROVE  reports'[i][2] < reports'[j][2]
  <2>1. i \in 1 .. Len(reports)
    BY <1>2, <1>5
  <2>2. reports[i][2] <= Told /\ reports[i][2] \in 1 .. Chunks /\ Told \in Nat
    BY <2>1, ToldIs
  <2>3. CASE j = Len(reports) + 1
    <3>1. reports'[j][2] = c /\ reports'[i] = reports[i]
      BY <1>2, <2>1, <2>3
    <3> QED BY <2>2, <3>1
  <2>4. CASE j \in 1 .. Len(reports)
    <3>1. reports[i][2] < reports[j][2]
      BY <1>5, <2>1, <2>4 DEF SpInv, ReportsInOrder
    <3> QED BY <1>2, <2>1, <2>4, <3>1
  <2> QED BY <1>3, <2>3, <2>4
<1>6. ASSUME NEW h \in {"played", "partial"}, NEW d \in 1 .. Chunks
      PROVE  (\E i \in 1 .. Len(reports') : reports'[i] = <<h, d>>) <=>
               (\E i \in 1 .. Len(reports) : reports[i] = <<h, d>>) \/ (h = how /\ d = c)
  <2>1. ASSUME NEW i \in 1 .. Len(reports'), reports'[i] = <<h, d>>
        PROVE  (\E k \in 1 .. Len(reports) : reports[k] = <<h, d>>) \/ (h = how /\ d = c)
    <3>1. CASE i \in 1 .. Len(reports)
      <4>1. reports[i] = <<h, d>>
        BY <1>2, <2>1, <3>1, Zenon
      <4> QED BY <3>1, <4>1
    <3>2. CASE i = Len(reports) + 1
      <4>1. <<how, c>> = <<h, d>>
        BY <1>2, <2>1, <3>2, Zenon
      <4> QED BY <4>1
    <3> QED BY <1>3, <2>1, <3>1, <3>2
  <2>2. ASSUME NEW i \in 1 .. Len(reports), reports[i] = <<h, d>>
        PROVE  \E k \in 1 .. Len(reports') : reports'[k] = <<h, d>>
    BY <1>2, <1>3, <2>2
  <2>3. h = how /\ d = c => \E k \in 1 .. Len(reports') : reports'[k] = <<h, d>>
    BY <1>2, <1>3
  <2> QED BY <2>1, <2>2, <2>3
<1>7. how = "played" => Played' = Played \cup {c} /\ Cut' = Cut
  <2>1. ASSUME how = "played", NEW d \in 1 .. Chunks
        PROVE  /\ (d \in Played' <=> d \in Played \/ d = c)
               /\ (d \in Cut' <=> d \in Cut)
    BY <1>6, <2>1 DEF Played, Cut, Reported
  <2>2. Played \subseteq 1 .. Chunks /\ Played' \subseteq 1 .. Chunks
        /\ Cut \subseteq 1 .. Chunks /\ Cut' \subseteq 1 .. Chunks
    BY DEF Played, Cut, Reported
  <2> QED BY <2>1, <2>2
<1>8. how = "partial" => Cut' = Cut \cup {c} /\ Played' = Played
  <2>1. ASSUME how = "partial", NEW d \in 1 .. Chunks
        PROVE  /\ (d \in Cut' <=> d \in Cut \/ d = c)
               /\ (d \in Played' <=> d \in Played)
    BY <1>6, <2>1 DEF Played, Cut, Reported
  <2>2. Played \subseteq 1 .. Chunks /\ Played' \subseteq 1 .. Chunks
        /\ Cut \subseteq 1 .. Chunks /\ Cut' \subseteq 1 .. Chunks
    BY DEF Played, Cut, Reported
  <2> QED BY <2>1, <2>2
<1> QED BY <1>2, <1>4, <1>5, <1>7, <1>8

\* The head of the PCM queue is taken.
LEMMA HeadIs ==
  ASSUME SpeakerAssumption, SpInv, pcmQ # <<>>, pcmQ' = Tail(pcmQ)
  PROVE  /\ pcmQ' \in Seq(Items) /\ Len(pcmQ) \in Nat \ {0} /\ Len(pcmQ') = Len(pcmQ) - 1
         /\ Len(pcmQ') <= MaxQueue
         /\ Head(pcmQ) = pcmQ[1] /\ Head(pcmQ) \in Items /\ 1 \in 1 .. Len(pcmQ)
         /\ \A i \in 1 .. Len(pcmQ') : pcmQ'[i] = pcmQ[i + 1] /\ i + 1 \in 1 .. Len(pcmQ) /\ 1 < i + 1
         /\ \A i \in 1 .. Len(pcmQ) : i = 1 \/ i - 1 \in 1 .. Len(pcmQ')
<1>1. pcmQ \in Seq(Items) /\ Len(pcmQ) <= MaxQueue /\ MaxQueue \in Nat
  BY DEF SpInv, SpTypes, SpeakerAssumption
<1>2. /\ pcmQ' \in Seq(Items) /\ Len(pcmQ) \in Nat \ {0} /\ Len(pcmQ') = Len(pcmQ) - 1
      /\ Head(pcmQ) = pcmQ[1] /\ Head(pcmQ) \in Items
      /\ \A i \in 1 .. Len(pcmQ') : pcmQ'[i] = pcmQ[i + 1]
  BY <1>1, QueueHead
<1>3. \A i \in 1 .. Len(pcmQ') : i + 1 \in 1 .. Len(pcmQ) /\ 1 < i + 1
  BY <1>2
<1>4. \A i \in 1 .. Len(pcmQ) : i = 1 \/ i - 1 \in 1 .. Len(pcmQ')
  BY <1>2
<1>5. Len(pcmQ') <= MaxQueue /\ 1 \in 1 .. Len(pcmQ)
  BY <1>1, <1>2
<1> QED BY <1>2, <1>3, <1>4, <1>5

LEMMA HeadTaken ==
  ASSUME SpeakerAssumption, SpInv, pcmQ # <<>>, pcmQ' = Tail(pcmQ), UNCHANGED synth,
         playback'.playing \in 0 .. Chunks,
         playback'.playing <= playback.playing
           \/ (Head(pcmQ) # Close /\ playback'.playing = Head(pcmQ).chunk)
  PROVE  /\ FramesInOrder'
         /\ Head(pcmQ) # Close =>
              /\ Head(pcmQ).chunk \in 1 .. Chunks
              /\ playback.playing <= Head(pcmQ).chunk /\ Head(pcmQ).chunk <= synth.chunk
              /\ ~playback.partial => Told < Head(pcmQ).chunk
              /\ Head(pcmQ).kind = "done" =>
                   /\ Busy => Head(pcmQ).chunk < synth.chunk
                   /\ \A i \in 1 .. Len(pcmQ') : pcmQ'[i] # Close => Head(pcmQ).chunk < pcmQ'[i].chunk
              /\ \A i \in 1 .. Len(pcmQ') : pcmQ'[i] # Close => Head(pcmQ).chunk <= pcmQ'[i].chunk
         /\ \A i \in 1 .. Len(pcmQ') : pcmQ'[i] # Close =>
              /\ pcmQ'[i].chunk \in 1 .. Chunks
              /\ ~playback.partial => Told < pcmQ'[i].chunk
         /\ Head(pcmQ) = Close => pcmQ' = <<>> /\ synth.pc = "dead"
<1> DEFINE e == Head(pcmQ)
<1>1. /\ pcmQ' \in Seq(Items) /\ Len(pcmQ) \in Nat \ {0} /\ Len(pcmQ') = Len(pcmQ) - 1
      /\ e = pcmQ[1] /\ e \in Items /\ 1 \in 1 .. Len(pcmQ)
      /\ \A i \in 1 .. Len(pcmQ') : pcmQ'[i] = pcmQ[i + 1] /\ i + 1 \in 1 .. Len(pcmQ) /\ 1 < i + 1
  BY HeadIs
<1>2. /\ \A i \in 1 .. Len(pcmQ) : pcmQ[i] # Close =>
           /\ playback.playing <= pcmQ[i].chunk /\ pcmQ[i].chunk <= synth.chunk
           /\ \A j \in 1 .. Len(pcmQ) : i < j /\ pcmQ[j] # Close =>
                /\ pcmQ[i].chunk <= pcmQ[j].chunk
                /\ pcmQ[i].kind = "done" => pcmQ[i].chunk < pcmQ[j].chunk
           /\ Busy /\ pcmQ[i].kind = "done" => pcmQ[i].chunk < synth.chunk
      /\ \A i \in 1 .. Len(pcmQ) : pcmQ[i] = Close => i = Len(pcmQ) /\ synth.pc = "dead"
      /\ playback.playing <= synth.chunk
  BY DEF SpInv, FramesInOrder
<1>3. /\ playback.playing \in 0 .. Chunks /\ synth.chunk \in 0 .. Chunks /\ Chunks \in Nat
      /\ \A i \in 1 .. Len(pcmQ) : pcmQ[i] \in Items
  <2>1. pcmQ \in Seq(Items)
    BY SpFields
  <2> QED BY <2>1, SpFields
<1>4. \A i \in 1 .. Len(pcmQ) : ~playback.partial /\ pcmQ[i] # Close => Told < pcmQ[i].chunk
  BY DEF SpInv, ReportsInOrder
<1>5. \A i \in 1 .. Len(pcmQ') : pcmQ'[i] # Close =>
              /\ pcmQ'[i].chunk \in 1 .. Chunks
              /\ ~playback.partial => Told < pcmQ'[i].chunk
  <2> SUFFICES ASSUME NEW i \in 1 .. Len(pcmQ'), pcmQ'[i] # Close
               PROVE  /\ pcmQ'[i].chunk \in 1 .. Chunks
                      /\ ~playback.partial => Told < pcmQ'[i].chunk
    OBVIOUS
  <2>1. pcmQ'[i] = pcmQ[i + 1] /\ i + 1 \in 1 .. Len(pcmQ)
    BY <1>1
  <2>2. pcmQ[i + 1] \in Items /\ pcmQ[i + 1] # Close
    BY <1>3, <2>1
  <2> QED BY <1>4, <2>1, <2>2, ItemIs
<1>6. e # Close =>
              /\ e.chunk \in 1 .. Chunks
              /\ playback.playing <= e.chunk /\ e.chunk <= synth.chunk
              /\ ~playback.partial => Told < e.chunk
              /\ e.kind = "done" =>
                   /\ Busy => e.chunk < synth.chunk
                   /\ \A i \in 1 .. Len(pcmQ') : pcmQ'[i] # Close => e.chunk < pcmQ'[i].chunk
              /\ \A i \in 1 .. Len(pcmQ') : pcmQ'[i] # Close => e.chunk <= pcmQ'[i].chunk
  <2> SUFFICES ASSUME e # Close
               PROVE  /\ e.chunk \in 1 .. Chunks
                      /\ playback.playing <= e.chunk /\ e.chunk <= synth.chunk
                      /\ ~playback.partial => Told < e.chunk
                      /\ e.kind = "done" =>
                           /\ Busy => e.chunk < synth.chunk
                           /\ \A i \in 1 .. Len(pcmQ') : pcmQ'[i] # Close => e.chunk < pcmQ'[i].chunk
                      /\ \A i \in 1 .. Len(pcmQ') : pcmQ'[i] # Close => e.chunk <= pcmQ'[i].chunk
    OBVIOUS
  <2>1. e.chunk \in 1 .. Chunks
    BY <1>1, ItemIs
  <2> HIDE DEF e
  <2>2. /\ playback.playing <= e.chunk /\ e.chunk <= synth.chunk
        /\ ~playback.partial => Told < e.chunk
        /\ e.kind = "done" /\ Busy => e.chunk < synth.chunk
    BY <1>1, <1>2, <1>4
  <2>3. ASSUME NEW i \in 1 .. Len(pcmQ'), pcmQ'[i] # Close
        PROVE  e.chunk <= pcmQ'[i].chunk /\ (e.kind = "done" => e.chunk < pcmQ'[i].chunk)
    BY <1>1, <1>2, <2>3
  <2> QED BY <2>1, <2>2, <2>3
<1> HIDE DEF e
<1>7. e = Close => pcmQ' = <<>> /\ synth.pc = "dead"
  <2> SUFFICES ASSUME e = Close PROVE pcmQ' = <<>> /\ synth.pc = "dead"
    OBVIOUS
  <2>1. 1 = Len(pcmQ) /\ synth.pc = "dead"
    BY <1>1, <1>2
  <2>2. Len(pcmQ') = 0
    BY <1>1, <2>1
  <2> QED BY <1>1, <2>1, <2>2
<1>8. playback'.playing <= synth.chunk
      /\ \A i \in 1 .. Len(pcmQ') : pcmQ'[i] # Close => playback'.playing <= pcmQ'[i].chunk
  <2>1. CASE playback'.playing <= playback.playing
    <3>1. playback'.playing <= synth.chunk
      BY <1>2, <1>3, <2>1
    <3>2. ASSUME NEW i \in 1 .. Len(pcmQ'), pcmQ'[i] # Close PROVE playback'.playing <= pcmQ'[i].chunk
      <4>1. playback.playing <= pcmQ'[i].chunk /\ pcmQ'[i].chunk \in 1 .. Chunks
        BY <1>1, <1>2, <1>5, <3>2
      <4> QED BY <1>3, <2>1, <4>1
    <3> QED BY <3>1, <3>2
  <2>2. CASE e # Close /\ playback'.playing = e.chunk
    BY <1>6, <2>2
  <2> QED BY <2>1, <2>2 DEF e
<1>9. FramesInOrder'
  <2>1. ASSUME NEW i \in 1 .. Len(pcmQ'), pcmQ'[i] # Close
        PROVE  /\ pcmQ'[i].chunk <= synth.chunk
               /\ \A j \in 1 .. Len(pcmQ') : i < j /\ pcmQ'[j] # Close =>
                    /\ pcmQ'[i].chunk <= pcmQ'[j].chunk
                    /\ pcmQ'[i].kind = "done" => pcmQ'[i].chunk < pcmQ'[j].chunk
               /\ Busy /\ pcmQ'[i].kind = "done" => pcmQ'[i].chunk < synth.chunk
    <3>1. pcmQ'[i] = pcmQ[i + 1] /\ i + 1 \in 1 .. Len(pcmQ)
      BY <1>1
    <3>2. ASSUME NEW j \in 1 .. Len(pcmQ'), i < j, pcmQ'[j] # Close
          PROVE  /\ pcmQ'[i].chunk <= pcmQ'[j].chunk
                 /\ pcmQ'[i].kind = "done" => pcmQ'[i].chunk < pcmQ'[j].chunk
      <4>1. pcmQ'[j] = pcmQ[j + 1] /\ j + 1 \in 1 .. Len(pcmQ) /\ i + 1 < j + 1
        BY <1>1, <3>2
      <4> QED BY <1>2, <2>1, <3>1, <3>2, <4>1
    <3> QED BY <1>2, <2>1, <3>1, <3>2
  <2>2. ASSUME NEW i \in 1 .. Len(pcmQ'), pcmQ'[i] = Close
        PROVE  i = Len(pcmQ') /\ synth.pc = "dead"
    <3>1. pcmQ'[i] = pcmQ[i + 1] /\ i + 1 \in 1 .. Len(pcmQ)
      BY <1>1
    <3>2. i + 1 = Len(pcmQ) /\ synth.pc = "dead"
      BY <1>2, <2>2, <3>1
    <3>3. i \in Nat /\ Len(pcmQ) \in Nat /\ Len(pcmQ') = Len(pcmQ) - 1
      BY <1>1, HeadIs
    <3>4. i = Len(pcmQ) - 1
      BY <3>2, <3>3
    <3> QED BY <3>2, <3>3, <3>4
  <2>3. Busy' = Busy
    BY DEF Busy
  <2> QED BY <1>8, <2>1, <2>2, <2>3 DEF FramesInOrder
<1> QED BY <1>5, <1>6, <1>7, <1>9 DEF e

\* What the playback does with what it takes.
LEMMA GetIs ==
  ASSUME SpeakerAssumption, SpInv, PlaybackGet
  PROVE  /\ playback.pc = "get" /\ pcmQ # <<>> /\ pcmQ' = Tail(pcmQ)
         /\ UNCHANGED <<caller, synth, textQ, halted, errors, heard>>
         /\ playback' \in [pc : {"get", "sink", "drain", "dead"}, playing : 0 .. Chunks,
                           frame : 0 .. Frames, partial : BOOLEAN]
         /\ \/ /\ Head(pcmQ) = Close /\ playback'.pc = "dead" /\ reports' = reports
               /\ playback'.playing = playback.playing /\ playback'.partial = playback.partial
            \/ /\ Head(pcmQ) # Close /\ Head(pcmQ).kind = "done" /\ playback'.pc = "get"
               /\ Head(pcmQ) = Done(Head(pcmQ).chunk)
               /\ playback'.playing = 0 /\ ~playback'.partial
               /\ \/ /\ playback.playing = Head(pcmQ).chunk /\ ~playback.partial /\ ~halted
                     /\ reports' = Append(reports, <<"played", Head(pcmQ).chunk>>)
                  \/ /\ ~(playback.playing = Head(pcmQ).chunk /\ ~playback.partial /\ ~halted)
                     /\ reports' = reports
            \/ /\ Head(pcmQ) # Close /\ Head(pcmQ).kind = "pcm" /\ halted /\ playback'.pc = "get"
               /\ playback'.playing = Head(pcmQ).chunk /\ playback'.partial
               /\ \/ /\ playback.partial /\ playback.playing = Head(pcmQ).chunk /\ reports' = reports
                  \/ /\ ~(playback.partial /\ playback.playing = Head(pcmQ).chunk)
                     /\ reports' = Append(reports, <<"partial", Head(pcmQ).chunk>>)
            \/ /\ Head(pcmQ) # Close /\ Head(pcmQ).kind = "pcm" /\ ~halted /\ playback'.pc = "sink"
               /\ playback'.playing = Head(pcmQ).chunk /\ ~playback'.partial
               /\ playback'.frame = Head(pcmQ).frame /\ playback'.frame > 0
               /\ Head(pcmQ) = Pcm(Head(pcmQ).chunk, Head(pcmQ).frame)
               /\ reports' = reports
<1>1. /\ playback.pc = "get" /\ pcmQ # <<>> /\ pcmQ' = Tail(pcmQ)
      /\ UNCHANGED <<caller, synth, textQ, halted, errors, heard>>
  BY DEF PlaybackGet
<1> DEFINE e == Head(pcmQ)
           q == playback.partial /\ playback.playing = e.chunk
           now == [playback EXCEPT
                   !.playing = e.chunk, !.frame = e.frame,
                   !.partial = @ /\ playback.playing = e.chunk]
<1>2. \/ /\ e.kind = "close"
         /\ playback' = [playback EXCEPT !.pc = "dead"]
         /\ reports' = reports
      \/ /\ e.kind = "done"
         /\ playback' = [playback EXCEPT !.playing = 0, !.partial = FALSE]
         /\ IF playback.playing = e.chunk /\ ~playback.partial /\ ~halted
              THEN reports' = Append(reports, <<"played", e.chunk>>)
              ELSE reports' = reports
      \/ /\ e.kind = "pcm" /\ halted
         /\ playback' = [now EXCEPT !.partial = TRUE]
         /\ reports' = Partial(now)
      \/ /\ e.kind = "pcm" /\ ~halted
         /\ playback' = [now EXCEPT !.pc = "sink"]
         /\ reports' = reports
  BY Zenon DEF PlaybackGet, NoChunk
<1>3. e \in Items
  BY <1>1, HeadIs
<1>4. playback \in [pc : {"get", "sink", "drain", "dead"}, playing : 0 .. Chunks,
                    frame : 0 .. Frames, partial : BOOLEAN]
      /\ Chunks \in Nat /\ Frames \in Nat
  BY SpFields DEF SpInv, SpTypes
<1>5. /\ e # Close => e.chunk \in 1 .. Chunks
      /\ e.kind = "close" => e = Close
      /\ e.kind = "done" => e # Close /\ e = Done(e.chunk)
      /\ e.kind = "pcm" => e # Close /\ e.frame \in 1 .. Frames /\ e = Pcm(e.chunk, e.frame)
  <2>1. CASE e = Close
    <3>1. e.kind = "close"
      BY <2>1, PcmIs
    <3> HIDE DEF e
    <3> QED BY <2>1, <3>1
  <2>2. CASE e # Close
    <3>1. /\ e.chunk \in 1 .. Chunks
          /\ \/ e.kind = "pcm" /\ e.frame \in 1 .. Frames /\ e = Pcm(e.chunk, e.frame)
             \/ e.kind = "done" /\ e = Done(e.chunk)
      BY <1>3, <2>2, ItemIs
    <3> HIDE DEF e
    <3> QED BY <2>2, <3>1
  <2> QED BY <2>1, <2>2
<1> HIDE DEF e
<1>6. CASE e.kind = "close" /\ playback' = [playback EXCEPT !.pc = "dead"] /\ reports' = reports
  <2>1. e = Close
    BY <1>5, <1>6
  <2>2. playback' \in [pc : {"get", "sink", "drain", "dead"}, playing : 0 .. Chunks,
                       frame : 0 .. Frames, partial : BOOLEAN]
        /\ playback'.pc = "dead" /\ playback'.playing = playback.playing
        /\ playback'.partial = playback.partial
    BY <1>4, <1>6
  <2> QED BY <1>1, <1>6, <2>1, <2>2 DEF e
<1>7. CASE /\ e.kind = "done"
           /\ playback' = [playback EXCEPT !.playing = 0, !.partial = FALSE]
           /\ IF playback.playing = e.chunk /\ ~playback.partial /\ ~halted
                THEN reports' = Append(reports, <<"played", e.chunk>>)
                ELSE reports' = reports
  <2>1. e # Close /\ e = Done(e.chunk)
    BY <1>5, <1>7
  <2>2. playback' \in [pc : {"get", "sink", "drain", "dead"}, playing : 0 .. Chunks,
                       frame : 0 .. Frames, partial : BOOLEAN]
        /\ playback'.pc = "get" /\ playback'.playing = 0 /\ ~playback'.partial
    <3>1. playback' = [playback EXCEPT !.playing = 0, !.partial = FALSE]
      BY <1>7, Zenon
    <3>2. 0 \in 0 .. Chunks /\ FALSE \in BOOLEAN
      BY <1>4
    <3>3. playback' \in [pc : {"get", "sink", "drain", "dead"}, playing : 0 .. Chunks,
                         frame : 0 .. Frames, partial : BOOLEAN]
      BY <1>4, <3>1, <3>2
    <3>4. playback'.pc = playback.pc /\ playback'.playing = 0 /\ playback'.partial = FALSE
      BY <1>4, <3>1
    <3> QED BY <1>1, <3>3, <3>4
  <2>3. \/ /\ playback.playing = e.chunk /\ ~playback.partial /\ ~halted
           /\ reports' = Append(reports, <<"played", e.chunk>>)
        \/ /\ ~(playback.playing = e.chunk /\ ~playback.partial /\ ~halted)
           /\ reports' = reports
    BY <1>7, Zenon
  <2> QED BY <1>1, <1>7, <2>1, <2>2, <2>3, Zenon DEF e
<1>8. e.kind = "pcm" =>
        /\ now \in [pc : {"get", "sink", "drain", "dead"}, playing : 0 .. Chunks,
                    frame : 0 .. Frames, partial : BOOLEAN]
        /\ now.pc = "get" /\ now.playing = e.chunk /\ now.frame = e.frame
        /\ now.partial <=> q
  <2> SUFFICES ASSUME e.kind = "pcm"
               PROVE  /\ now \in [pc : {"get", "sink", "drain", "dead"}, playing : 0 .. Chunks,
                                  frame : 0 .. Frames, partial : BOOLEAN]
                      /\ now.pc = "get" /\ now.playing = e.chunk /\ now.frame = e.frame
                      /\ now.partial <=> q
    OBVIOUS
  <2>1. e.chunk \in 0 .. Chunks /\ e.frame \in 0 .. Frames
    BY <1>4, <1>5
  <2>2. now = [playback EXCEPT !.playing = e.chunk, !.frame = e.frame, !.partial = q]
    BY <1>4
  <2>3. q \in BOOLEAN
    OBVIOUS
  <2> HIDE DEF now, q
  <2> QED BY <1>1, <1>4, <2>1, <2>2, <2>3
<1> HIDE DEF now, q
<1>9. CASE e.kind = "pcm" /\ halted /\ playback' = [now EXCEPT !.partial = TRUE] /\ reports' = Partial(now)
  <2>1. e # Close
    BY <1>5, <1>9
  <2>2. playback' \in [pc : {"get", "sink", "drain", "dead"}, playing : 0 .. Chunks,
                       frame : 0 .. Frames, partial : BOOLEAN]
        /\ playback'.pc = "get" /\ playback'.playing = e.chunk /\ playback'.partial
    BY <1>8, <1>9
  <2>3. \/ q /\ reports' = reports
        \/ ~q /\ reports' = Append(reports, <<"partial", e.chunk>>)
    <3>1. CASE q
      <4>1. reports' = reports
        BY <1>8, <1>9, <3>1, Zenon DEF Partial
      <4> QED BY <3>1, <4>1
    <3>2. CASE ~q
      <4>1. reports' = Append(reports, <<"partial", now.playing>>)
        BY <1>8, <1>9, <3>2, Zenon DEF Partial
      <4>2. now.playing = e.chunk
        BY <1>8, <1>9
      <4> QED BY <3>2, <4>1, <4>2
    <3> QED BY <3>1, <3>2
  <2> QED BY <1>1, <1>9, <2>1, <2>2, <2>3, Zenon DEF e, q
<1>10. CASE e.kind = "pcm" /\ ~halted /\ playback' = [now EXCEPT !.pc = "sink"] /\ reports' = reports
  <2>1. e # Close /\ e = Pcm(e.chunk, e.frame) /\ e.frame \in 1 .. Frames
    BY <1>5, <1>10
  <2>2. ~playback.partial
    BY <1>10 DEF SpInv, Places
  <2>3. ~q
    BY <2>2, Zenon DEF q
  <2>4. playback' \in [pc : {"get", "sink", "drain", "dead"}, playing : 0 .. Chunks,
                       frame : 0 .. Frames, partial : BOOLEAN]
        /\ playback'.pc = "sink" /\ playback'.playing = e.chunk /\ playback'.frame = e.frame
        /\ ~playback'.partial
    BY <1>8, <1>10, <2>3
  <2>5. playback'.frame > 0
    BY <1>4, <2>1, <2>4
  <2> QED BY <1>1, <1>10, <2>1, <2>4, <2>5, Zenon DEF e
<1> QED BY <1>2, <1>6, <1>7, <1>9, <1>10, Zenon

\* The frames written and waiting when the head is taken.
LEMMA WrittenMoves ==
  ASSUME SpeakerAssumption, SpInv, pcmQ # <<>>, pcmQ' = Tail(pcmQ), UNCHANGED heard,
         playback.pc = "get"
  PROVE  /\ Marks' \subseteq Marks
         /\ \A c \in Marks : c \in Marks' \/ Head(pcmQ) = Done(c)
         /\ \A w \in Written :
              \/ w \in Written'
              \/ Head(pcmQ) = Pcm(w[1], w[2]) /\ w \in (1 .. Chunks) \X (1 .. Frames)
<1>1. /\ Head(pcmQ) = pcmQ[1]
      /\ \A i \in 1 .. Len(pcmQ') : pcmQ'[i] = pcmQ[i + 1] /\ i + 1 \in 1 .. Len(pcmQ)
      /\ \A i \in 1 .. Len(pcmQ) : i = 1 \/ i - 1 \in 1 .. Len(pcmQ')
      /\ Len(pcmQ) \in Nat
  BY HeadIs
<1>2. Marks' \subseteq Marks
  BY <1>1 DEF Marks
<1>3. \A x : (\E i \in 1 .. Len(pcmQ) : pcmQ[i] = x) =>
               x = Head(pcmQ) \/ \E i \in 1 .. Len(pcmQ') : pcmQ'[i] = x
  <2> SUFFICES ASSUME NEW i \in 1 .. Len(pcmQ)
               PROVE  pcmQ[i] = Head(pcmQ) \/ \E j \in 1 .. Len(pcmQ') : pcmQ'[j] = pcmQ[i]
    OBVIOUS
  <2>1. CASE i = 1
    BY <1>1, <2>1
  <2>2. CASE i # 1
    <3>1. i - 1 \in 1 .. Len(pcmQ') /\ (i - 1) + 1 = i
      BY <1>1, <2>2
    <3>2. pcmQ'[i - 1] = pcmQ[i]
      BY <1>1, <3>1
    <3> QED BY <3>1, <3>2
  <2> QED BY <2>1, <2>2
<1>4. \A c \in Marks : c \in Marks' \/ Head(pcmQ) = Done(c)
  BY <1>3 DEF Marks
<1>5. ASSUME NEW w \in Written
      PROVE  \/ w \in Written'
             \/ Head(pcmQ) = Pcm(w[1], w[2]) /\ w \in (1 .. Chunks) \X (1 .. Frames)
  <2>1. w \in (1 .. Chunks) \X (1 .. Frames)
    BY DEF Written
  <2>2. w \in heard \/ \E i \in 1 .. Len(pcmQ) : pcmQ[i] = Pcm(w[1], w[2])
    BY DEF Written
  <2>3. CASE w \in heard
    BY <2>1, <2>3 DEF Written
  <2>4. CASE \E i \in 1 .. Len(pcmQ) : pcmQ[i] = Pcm(w[1], w[2])
    <3>1. Pcm(w[1], w[2]) = Head(pcmQ) \/ \E i \in 1 .. Len(pcmQ') : pcmQ'[i] = Pcm(w[1], w[2])
      BY <1>3, <2>4
    <3>2. CASE \E i \in 1 .. Len(pcmQ') : pcmQ'[i] = Pcm(w[1], w[2])
      BY <2>1, <3>2 DEF Written
    <3> QED BY <2>1, <3>1, <3>2
  <2> QED BY <2>2, <2>3, <2>4
<1> QED BY <1>2, <1>4, <1>5

LEMMA GetKeeps ==
  ASSUME SpeakerAssumption, SpInv, PlaybackGet PROVE SpInv'
<1> DEFINE e == Head(pcmQ)
           c == e.chunk
<1>1. /\ playback.pc = "get" /\ pcmQ # <<>> /\ pcmQ' = Tail(pcmQ)
      /\ UNCHANGED <<caller, synth, textQ, halted, errors, heard>>
      /\ playback' \in [pc : {"get", "sink", "drain", "dead"}, playing : 0 .. Chunks,
                        frame : 0 .. Frames, partial : BOOLEAN]
  BY GetIs
<1>2. PICK k \in {"close", "done", "cut", "play"} :
        /\ k = "close" => /\ e = Close /\ playback'.pc = "dead" /\ reports' = reports
                          /\ playback'.playing = playback.playing
                          /\ playback'.partial = playback.partial
        /\ k = "done" => /\ e # Close /\ e.kind = "done" /\ playback'.pc = "get" /\ e = Done(c)
                         /\ playback'.playing = 0 /\ ~playback'.partial
                         /\ \/ /\ playback.playing = c /\ ~playback.partial /\ ~halted
                               /\ reports' = Append(reports, <<"played", c>>)
                            \/ /\ ~(playback.playing = c /\ ~playback.partial /\ ~halted)
                               /\ reports' = reports
        /\ k = "cut" => /\ e # Close /\ e.kind = "pcm" /\ halted /\ playback'.pc = "get"
                        /\ playback'.playing = c /\ playback'.partial
                        /\ \/ /\ playback.partial /\ playback.playing = c /\ reports' = reports
                           \/ /\ ~(playback.partial /\ playback.playing = c)
                              /\ reports' = Append(reports, <<"partial", c>>)
        /\ k = "play" => /\ e # Close /\ e.kind = "pcm" /\ ~halted /\ playback'.pc = "sink"
                         /\ playback'.playing = c /\ ~playback'.partial
                         /\ playback'.frame = e.frame /\ playback'.frame > 0
                         /\ e = Pcm(c, e.frame) /\ reports' = reports
  BY GetIs, Zenon
<1>3. /\ playback.playing \in 0 .. Chunks /\ synth.chunk \in 0 .. Chunks /\ Chunks \in Nat \ {0}
      /\ Frames \in Nat \ {0} /\ playback'.playing \in 0 .. Chunks
      /\ pcmQ' \in Seq(Items) /\ Len(pcmQ') <= MaxQueue
      /\ reports \in Seq({"played", "partial"} \X (1 .. Chunks))
      /\ heard \subseteq (1 .. Chunks) \X (1 .. Frames)
  BY <1>1, SpFields, HeadIs DEF SpInv, SpTypes
<1>4. playback'.playing <= playback.playing \/ (e # Close /\ playback'.playing = c)
  BY <1>2, <1>3
<1> HIDE DEF c
<1>5. /\ FramesInOrder'
      /\ e # Close =>
           /\ c \in 1 .. Chunks
           /\ playback.playing <= c /\ c <= synth.chunk
           /\ ~playback.partial => Told < c
           /\ e.kind = "done" =>
                /\ Busy => c < synth.chunk
                /\ \A i \in 1 .. Len(pcmQ') : pcmQ'[i] # Close => c < pcmQ'[i].chunk
           /\ \A i \in 1 .. Len(pcmQ') : pcmQ'[i] # Close => c <= pcmQ'[i].chunk
      /\ \A i \in 1 .. Len(pcmQ') : pcmQ'[i] # Close =>
           /\ pcmQ'[i].chunk \in 1 .. Chunks
           /\ ~playback.partial => Told < pcmQ'[i].chunk
      /\ e = Close => pcmQ' = <<>> /\ synth.pc = "dead"
  BY <1>1, <1>3, <1>4, HeadTaken DEF c
<1>6. /\ Told \in Nat
      /\ \A d \in Played \cup Cut : d <= Told
      /\ playback.partial => Told = playback.playing /\ playback.playing \in Cut
      /\ Told <= synth.chunk
      /\ ~playback.partial /\ Busy => Told < synth.chunk
      /\ playback.partial => halted
      /\ \A i, j \in 1 .. Len(reports) : i < j => reports[i][2] < reports[j][2]
      /\ playback.partial => reports # <<>> /\ reports[Len(reports)] = <<"partial", playback.playing>>
  BY ToldIs DEF SpInv, ReportsInOrder, Places
<1>7. \/ /\ reports' = reports /\ Told' = Told /\ Played' = Played /\ Cut' = Cut
         /\ k = "cut" => playback.partial /\ playback.playing = c
         /\ k = "done" => ~(playback.playing = c /\ ~playback.partial /\ ~halted)
      \/ /\ k = "done" /\ playback.playing = c /\ ~playback.partial /\ ~halted
         /\ reports' = Append(reports, <<"played", c>>) /\ Told' = c
         /\ Played' = Played \cup {c} /\ Cut' = Cut
      \/ /\ k = "cut"
         /\ reports' = Append(reports, <<"partial", c>>) /\ Told' = c /\ Told < c
         /\ Cut' = Cut \cup {c} /\ Played' = Played
  <2>1. CASE reports' = reports
    <3>1. Told' = Told /\ Played' = Played /\ Cut' = Cut
      BY <2>1 DEF Told, Played, Cut, Reported
    <3>2. reports \in Seq({"played", "partial"} \X (1 .. Chunks)) => \A x : Append(reports, x) # reports
      <4> SUFFICES ASSUME reports \in Seq({"played", "partial"} \X (1 .. Chunks)), NEW x,
                          Append(reports, x) = reports
                   PROVE  FALSE
        OBVIOUS
      <4>1. Len(Append(reports, x)) = Len(reports) + 1 /\ Len(reports) \in Nat
        OBVIOUS
      <4> QED BY <4>1
    <3>3. \A x : reports' # Append(reports, x)
      BY <1>3, <2>1, <3>2
    <3> QED BY <1>2, <2>1, <3>1, <3>3, Zenon
  <2>2. CASE k = "done" /\ playback.playing = c /\ ~playback.partial /\ ~halted
             /\ reports' = Append(reports, <<"played", c>>)
    <3>1. c \in 1 .. Chunks /\ Told < c
      BY <1>2, <1>5, <2>2
    <3>2. Told' = c /\ Played' = Played \cup {c} /\ Cut' = Cut
      BY <1>3, <2>2, <3>1, ReportMade
    <3> QED BY <2>2, <3>2
  <2>3. CASE k = "cut" /\ ~(playback.partial /\ playback.playing = c)
             /\ reports' = Append(reports, <<"partial", c>>)
    <3>1. c \in 1 .. Chunks
      BY <1>2, <1>5, <2>3
    <3>2. Told < c
      <4>1. CASE ~playback.partial
        BY <1>2, <1>5, <2>3, <4>1
      <4>2. CASE playback.partial
        <5>1. Told = playback.playing /\ playback.playing <= c /\ playback.playing # c
          BY <1>2, <1>5, <1>6, <2>3, <4>2
        <5> QED BY <1>3, <3>1, <5>1
      <4> QED BY <4>1, <4>2
    <3>3. Told' = c /\ Cut' = Cut \cup {c} /\ Played' = Played
      BY <1>3, <2>3, <3>1, <3>2, ReportMade
    <3> QED BY <2>3, <3>2, <3>3
  <2> QED BY <1>2, <2>1, <2>2, <2>3, Zenon
<1>8. /\ reports' \in Seq({"played", "partial"} \X (1 .. Chunks))
      /\ \A i, j \in 1 .. Len(reports') : i < j => reports'[i][2] < reports'[j][2]
      /\ reports' # reports => reports' # <<>> /\ reports'[Len(reports')][2] = c
      /\ k = "cut" /\ reports' # reports => reports'[Len(reports')] = <<"partial", c>>
  <2>1. CASE reports' = reports
    BY <1>3, <1>6, <2>1
  <2>2. CASE k = "done" /\ playback.playing = c /\ ~playback.partial
             /\ reports' = Append(reports, <<"played", c>>)
    <3>1. c \in 1 .. Chunks /\ Told < c
      BY <1>2, <1>5, <2>2
    <3>2. /\ reports' \in Seq({"played", "partial"} \X (1 .. Chunks))
          /\ \A i, j \in 1 .. Len(reports') : i < j => reports'[i][2] < reports'[j][2]
          /\ reports' # <<>> /\ reports'[Len(reports')] = <<"played", c>>
      BY <1>3, <2>2, <3>1, ReportMade
    <3> QED BY <2>2, <3>2
  <2>3. CASE k = "cut" /\ reports' = Append(reports, <<"partial", c>>) /\ Told < c
    <3>1. c \in 1 .. Chunks
      BY <1>2, <1>5, <2>3
    <3>2. /\ reports' \in Seq({"played", "partial"} \X (1 .. Chunks))
          /\ \A i, j \in 1 .. Len(reports') : i < j => reports'[i][2] < reports'[j][2]
          /\ reports' # <<>> /\ reports'[Len(reports')] = <<"partial", c>>
      BY <1>3, <2>3, <3>1, ReportMade
    <3> QED BY <2>3, <3>2
  <2> QED BY <1>7, <2>1, <2>2, <2>3, Zenon
<1>9. SpTypes' /\ Places'
  <2>1. /\ playback'.pc = "sink" => playback'.playing > 0 /\ playback'.frame > 0
        /\ playback'.partial => halted'
        /\ playback'.pc # "drain"
    <3>1. CASE k = "close"
      BY <1>1, <1>2, <1>6, <3>1
    <3>2. CASE k = "done"
      BY <1>2, <3>2
    <3>3. CASE k = "cut"
      BY <1>1, <1>2, <3>3
    <3>4. CASE k = "play"
      BY <1>2, <1>5, <3>4
    <3> QED BY <3>1, <3>2, <3>3, <3>4
  <2>3. "sink" \notin errors
    BY <1>1 DEF SpInv, Places
  <2>2. halted' \in BOOLEAN /\ halted' = halted /\ errors' = errors
        /\ heard' \subseteq (1 .. Chunks) \X (1 .. Frames)
    BY <1>1, <1>3 DEF SpInv, SpTypes
  <2> QED BY <1>1, <1>3, <1>8, <2>1, <2>2, <2>3, PlaybackTypes
<1>10. Sentences' /\ Fed'
  BY <1>1, PlaybackRest
<1>11. Busy' = Busy
  BY <1>1 DEF Busy
<1>12. ReportsInOrder'
  <2>1. Told' <= synth.chunk
    BY <1>2, <1>5, <1>6, <1>7
  <2>2. playback'.partial => reports' # <<>> /\ reports'[Len(reports')] = <<"partial", playback'.playing>>
    <3>1. CASE k = "close"
      <4>1. reports' = reports /\ playback'.partial = playback.partial
            /\ playback'.playing = playback.playing
        BY <1>2, <3>1
      <4> QED BY <1>6, <4>1
    <3>2. CASE k \in {"done", "play"}
      BY <1>2, <3>2
    <3>3. CASE k = "cut"
      <4>1. playback'.playing = c
        BY <1>2, <3>3
      <4>2. CASE reports' = reports
        <5>1. playback.partial /\ playback.playing = c
          BY <1>7, <3>3, <4>2, <1>8, <1>5, <1>2, <1>6
        <5> QED BY <1>6, <4>1, <4>2, <5>1
      <4>3. CASE reports' # reports
        BY <1>8, <3>3, <4>1, <4>3
      <4> QED BY <4>2, <4>3
    <3> QED BY <3>1, <3>2, <3>3
  <2>3. ~playback'.partial =>
          /\ \A i \in 1 .. Len(pcmQ') : pcmQ'[i] # Close => Told' < pcmQ'[i].chunk
          /\ Busy => Told' < synth.chunk
          /\ playback'.playing # NoChunk => Told' < playback'.playing
    <3> SUFFICES ASSUME ~playback'.partial
                 PROVE  /\ \A i \in 1 .. Len(pcmQ') : pcmQ'[i] # Close => Told' < pcmQ'[i].chunk
                        /\ Busy => Told' < synth.chunk
                        /\ playback'.playing # 0 => Told' < playback'.playing
      BY DEF NoChunk
    <3>1. CASE k = "close"
      <4>1. Told' = Told /\ playback'.playing = playback.playing /\ ~playback.partial
        BY <1>2, <1>7, <3>1
      <4>2. playback.playing # 0 => Told < playback.playing
        BY <4>1 DEF SpInv, ReportsInOrder, NoChunk
      <4> QED BY <1>5, <1>6, <4>1, <4>2
    <3>2. CASE k = "done"
      <4>1. e # Close /\ e.kind = "done" /\ playback'.playing = 0
        BY <1>2, <3>2
      <4>2. Told' <= c /\ Told' \in Nat /\ c \in 1 .. Chunks
        <5>1. Told' = c \/ Told' = Told
          BY <1>7
        <5>2. Told <= c
          <6>1. CASE playback.partial
            BY <1>5, <1>6, <4>1, <6>1
          <6>2. CASE ~playback.partial
            BY <1>5, <1>6, <4>1, <6>2
          <6> QED BY <6>1, <6>2
        <5> QED BY <1>5, <1>6, <4>1, <5>1, <5>2
      <4>3. \A i \in 1 .. Len(pcmQ') : pcmQ'[i] # Close => Told' < pcmQ'[i].chunk
        <5> SUFFICES ASSUME NEW i \in 1 .. Len(pcmQ'), pcmQ'[i] # Close PROVE Told' < pcmQ'[i].chunk
          OBVIOUS
        <5>1. c < pcmQ'[i].chunk /\ pcmQ'[i].chunk \in 1 .. Chunks
          BY <1>5, <4>1
        <5> QED BY <4>2, <5>1
      <4>4. Busy => Told' < synth.chunk
        BY <1>3, <1>5, <4>1, <4>2
      <4> QED BY <4>1, <4>3, <4>4
    <3>3. CASE k = "cut"
      BY <1>2, <3>3
    <3>4. CASE k = "play"
      <4>1. Told' = Told /\ playback'.playing = c /\ e # Close /\ ~playback.partial
        BY <1>2, <1>6, <1>7, <3>4
      <4> QED BY <1>5, <1>6, <4>1
    <3> QED BY <3>1, <3>2, <3>3, <3>4
  <2> QED BY <1>1, <1>8, <1>11, <2>1, <2>2, <2>3 DEF ReportsInOrder
<1>13. Started' = Started /\ Finished' = Finished /\ Started \subseteq 1 .. Chunks
  BY <1>1 DEF Started, Finished
<1>14. /\ Marks' \subseteq Marks
       /\ \A d \in Marks : d \in Marks' \/ e = Done(d)
       /\ \A w \in Written :
            \/ w \in Written'
            \/ e = Pcm(w[1], w[2]) /\ w \in (1 .. Chunks) \X (1 .. Frames)
  BY <1>1, WrittenMoves
<1>15. Played \subseteq Played' /\ Cut \subseteq Cut'
  BY <1>7
<1>16. Unreported' \subseteq Unreported
  BY <1>13, <1>15 DEF Unreported
<1>17. ~halted /\ "sink" \notin errors =>
         /\ \A d \in Marks, f \in 1 .. Frames : <<d, f>> \in Written
         /\ Busy => \A f \in 1 .. Frames : f <= Made => <<synth.chunk, f>> \in Written
         /\ Through \subseteq Marks \cup Played
         /\ Unreported \subseteq {playback.playing}
  BY DEF SpInv, Covered
\* The end of a sentence nobody stopped: all of it was heard, and it is the one told of.
<1>18. ASSUME k = "done", ~halted, "sink" \notin errors
       PROVE  c \in Finished /\ c = playback.playing /\ ~playback.partial
  <2>1. e # Close /\ e.kind = "done" /\ e = Done(c) /\ c \in 1 .. Chunks /\ ~playback.partial
    BY <1>2, <1>5, <1>6, <1>18
  <2>2. c \in Marks
    <3>1. 1 \in 1 .. Len(pcmQ) /\ pcmQ[1] = Done(c)
      BY <1>1, <2>1, HeadIs
    <3> QED BY <2>1, <3>1 DEF Marks
  <2>3. ASSUME NEW f \in 1 .. Frames PROVE <<c, f>> \in heard
    <3>1. <<c, f>> \in Written
      BY <1>17, <1>18, <2>2
    <3>2. <<c, f>>[1] = c /\ <<c, f>>[2] = f
      OBVIOUS
    <3>3. <<c, f>> \in heard \/ \E i \in 1 .. Len(pcmQ) : pcmQ[i] = Pcm(c, f)
      BY <1>1, <3>1, <3>2 DEF Written
    <3>4. ASSUME NEW i \in 1 .. Len(pcmQ), pcmQ[i] = Pcm(c, f) PROVE FALSE
      <4>1. i # 1
        BY <1>1, <2>1, <3>4, HeadIs, PcmIs
      <4>2. i - 1 \in 1 .. Len(pcmQ') /\ pcmQ'[i - 1] = pcmQ[(i - 1) + 1] /\ (i - 1) + 1 = i
        BY <1>1, <4>1, HeadIs
      <4>3. pcmQ'[i - 1] = Pcm(c, f)
        BY <3>4, <4>2
      <4>4. pcmQ'[i - 1] # Close /\ pcmQ'[i - 1].chunk = c
        BY <4>3, PcmIs
      <4>5. c < c
        BY <1>5, <2>1, <4>2, <4>4
      <4> QED BY <2>1, <4>5
    <3> QED BY <3>3, <3>4
  <2>4. c \in Finished /\ c \in Started
    <3>1. 1 \in 1 .. Frames
      BY <1>3
    <3> QED BY <2>1, <2>3, <3>1 DEF Finished, Started
  <2>5. c \notin Played \cup Cut
    <3>1. Told < c
      BY <1>5, <2>1
    <3>2. ~(c <= Told)
      BY <1>6, <2>1, <3>1
    <3> QED BY <1>6, <3>2
  <2>6. c \in Unreported
    BY <2>4, <2>5 DEF Unreported
  <2> QED BY <1>17, <1>18, <2>1, <2>4, <2>6
<1>19. Covered'
  <2> SUFFICES ASSUME ~halted, "sink" \notin errors PROVE Covered'
    BY <1>1 DEF Covered
  <2>1. Made' = Made /\ Through' = Through
    BY <1>1, <1>11 DEF Made, Through
  <2>2. Written \subseteq Written'
    <3> SUFFICES ASSUME NEW w \in Written, e = Pcm(w[1], w[2]), w \in (1 .. Chunks) \X (1 .. Frames)
                 PROVE  w \in Written'
      BY <1>14
    <3>1. e # Close /\ e.kind = "pcm" /\ e.chunk = w[1] /\ e.frame = w[2]
      BY PcmIs
    <3>2. k = "play"
      <4>1. k # "close"
        BY <1>2, <3>1
      <4>2. k # "done"
        BY <1>2, <3>1
      <4> QED BY <1>2, <4>1, <4>2
    <3>3. playback'.pc = "sink" /\ playback'.playing = w[1] /\ playback'.frame = w[2]
      BY <1>2, <3>1, <3>2 DEF c
    <3> QED BY <3>3 DEF Written
  <2>3. \A d \in Marks', f \in 1 .. Frames : <<d, f>> \in Written'
    BY <1>14, <1>17, <2>2
  <2>4. Busy => \A f \in 1 .. Frames : f <= Made => <<synth.chunk, f>> \in Written'
    BY <1>17, <2>2
  <2>5. Through \subseteq Marks' \cup Played'
    <3> SUFFICES ASSUME NEW d \in Through PROVE d \in Marks' \cup Played'
      OBVIOUS
    <3>1. CASE d \in Marks /\ e = Done(d)
      <4>1. e # Close /\ e.kind = "done" /\ e.chunk = d
        BY <3>1, PcmIs
      <4>2. k = "done"
        <5>1. k # "close"
          BY <1>2, <4>1
        <5>2. k # "cut" /\ k # "play"
          BY <1>2, <4>1
        <5> QED BY <1>2, <5>1, <5>2
      <4>3. d = c /\ c = playback.playing /\ ~playback.partial
        BY <1>18, <4>1, <4>2 DEF c
      <4>4. d \in Played'
        <5>1. Played' = Played \cup {c}
          BY <1>7, <4>2, <4>3
        <5> QED BY <4>3, <5>1
      <4> QED BY <4>4
    <3>2. CASE ~(d \in Marks /\ e = Done(d))
      BY <1>14, <1>15, <1>17, <3>2
    <3> QED BY <3>1, <3>2
  <2>6. Unreported' \subseteq {playback'.playing}
    <3>1. CASE k = "close"
      BY <1>2, <1>16, <1>17, <3>1
    <3>2. CASE k = "done"
      <4>1. c = playback.playing /\ Played' = Played \cup {c}
        BY <1>7, <1>18, <3>2
      <4>2. c \notin Unreported'
        BY <4>1 DEF Unreported
      <4> QED BY <1>16, <1>17, <4>1, <4>2
    <3>3. CASE k = "cut"
      BY <1>2, <3>3
    <3>4. CASE k = "play"
      <4>1. playback'.playing = c /\ e # Close /\ e.kind = "pcm" /\ e = Pcm(c, e.frame)
            /\ c \in 1 .. Chunks
        BY <1>2, <1>5, <3>4
      <4>2. ASSUME NEW d \in Unreported, d # c PROVE FALSE
        <5>1. d = playback.playing /\ d \in 1 .. Chunks /\ d < c
          BY <1>3, <1>5, <1>13, <1>17, <4>1, <4>2 DEF Unreported
        <5>2. d \in Through
          BY <1>3, <1>5, <4>1, <5>1 DEF Through
        <5>3. d \notin Played
          BY DEF Unreported
        <5>4. d \in Marks /\ Done(d) # e
          BY <1>17, <4>1, <5>2, <5>3, PcmIs
        <5>5. d \in Marks'
          BY <1>14, <5>4
        <5>6. PICK i \in 1 .. Len(pcmQ') : pcmQ'[i] = Done(d)
          BY <5>5 DEF Marks
        <5>7. pcmQ'[i] # Close /\ pcmQ'[i].chunk = d
          BY <5>6, PcmIs
        <5>8. c <= d
          BY <1>5, <4>1, <5>7
        <5> QED BY <4>1, <5>1, <5>8
      <4> QED BY <1>16, <4>1, <4>2
    <3> QED BY <3>1, <3>2, <3>3, <3>4
  <2> QED BY <1>1, <1>11, <2>1, <2>3, <2>4, <2>5, <2>6 DEF Covered
<1>20. Ends'
  <2>1. playback'.pc = "dead" => pcmQ' = <<>> /\ synth.pc = "dead"
    <3>1. playback'.pc = "dead" => k = "close"
      BY <1>2
    <3> QED BY <1>2, <1>5, <3>1
  <2>2. Played' \subseteq Finished
    <3>1. Played \subseteq Finished
      BY DEF SpInv, Ends
    <3>2. CASE Played' = Played
      BY <3>1, <3>2
    <3>3. CASE k = "done" /\ ~halted /\ Played' = Played \cup {c}
      <4>1. "sink" \notin errors
        BY <1>1 DEF SpInv, Places
      <4>2. c \in Finished
        BY <1>18, <3>3, <4>1
      <4> QED BY <3>1, <3>3, <4>2
    <3> QED BY <1>7, <3>2, <3>3
  <2>3. "sink" \notin errors => \A x, y \in Unreported' : x = y
    BY <1>16 DEF SpInv, Ends
  <2> QED BY <1>1, <1>13, <2>1, <2>2, <2>3 DEF Ends
<1> QED BY <1>5, <1>9, <1>10, <1>12, <1>19, <1>20 DEF SpInv

\* The sink has written, or was cut short.
LEMMA SinkKeeps == ASSUME SpeakerAssumption, SpInv, Sink PROVE SpInv'
<1> DEFINE p == playback.playing
<1>1. /\ playback.pc = "sink" /\ UNCHANGED <<caller, synth, textQ, pcmQ, halted, errors>>
      /\ playback' = [playback EXCEPT !.pc = "get", !.partial = @ \/ halted]
      /\ heard' = heard \cup {<<p, playback.frame>>} \/ (halted /\ heard' = heard)
  BY DEF Sink
<1>2. \/ ~halted /\ reports' = reports
      \/ halted /\ playback.partial /\ reports' = reports
      \/ halted /\ ~playback.partial /\ reports' = Append(reports, <<"partial", p>>)
  BY Zenon DEF Sink, Partial
<1>3. playback \in [pc : {"get", "sink", "drain", "dead"}, playing : 0 .. Chunks,
                    frame : 0 .. Frames, partial : BOOLEAN]
      /\ Chunks \in Nat /\ Frames \in Nat /\ synth.chunk \in 0 .. Chunks
  BY SpFields DEF SpInv, SpTypes
<1>4. /\ playback' \in [pc : {"get", "sink", "drain", "dead"}, playing : 0 .. Chunks,
                        frame : 0 .. Frames, partial : BOOLEAN]
      /\ playback'.pc = "get" /\ playback'.playing = p
  <2>1. (playback.partial \/ halted) \in BOOLEAN
    OBVIOUS
  <2> QED BY <1>1, <1>3, <2>1
<1>5. playback'.partial = (playback.partial \/ halted)
  BY <1>1, <1>3
<1>6. p \in 1 .. Chunks /\ playback.frame \in 1 .. Frames /\ "sink" \notin errors
  BY <1>1, <1>3 DEF SpInv, Places
<1> HIDE DEF p
<1>7. ~playback.partial => Told < p
  BY <1>6 DEF SpInv, ReportsInOrder, NoChunk, p
<1>8. /\ Told \in Nat /\ Told <= synth.chunk
      /\ playback.partial => Told = p /\ p \in Cut
      /\ playback.partial => reports # <<>> /\ reports[Len(reports)] = <<"partial", p>>
      /\ \A i, j \in 1 .. Len(reports) : i < j => reports[i][2] < reports[j][2]
      /\ reports \in Seq({"played", "partial"} \X (1 .. Chunks))
      /\ p <= synth.chunk
  BY ToldIs DEF SpInv, SpTypes, ReportsInOrder, FramesInOrder, p
<1>9. /\ reports' \in Seq({"played", "partial"} \X (1 .. Chunks))
      /\ \A i, j \in 1 .. Len(reports') : i < j => reports'[i][2] < reports'[j][2]
      /\ Told' <= synth.chunk /\ Played' = Played /\ Cut \subseteq Cut'
      /\ ~halted => Told' = Told /\ reports' = reports
      /\ halted => p \in Cut' /\ reports' # <<>> /\ reports'[Len(reports')] = <<"partial", p>>
  <2>1. CASE reports' = reports
    <3>1. Told' = Told /\ Played' = Played /\ Cut' = Cut
      BY <2>1 DEF Told, Played, Cut, Reported
    <3>2. ~halted \/ playback.partial
      <4>1. Append(reports, <<"partial", p>>) # reports
        <5>1. Len(Append(reports, <<"partial", p>>)) = Len(reports) + 1 /\ Len(reports) \in Nat
          BY <1>8
        <5> QED BY <5>1
      <4> QED BY <1>2, <2>1, <4>1
    <3> QED BY <1>8, <2>1, <3>1, <3>2
  <2>2. CASE halted /\ ~playback.partial /\ reports' = Append(reports, <<"partial", p>>)
    <3>1. /\ reports' \in Seq({"played", "partial"} \X (1 .. Chunks))
          /\ \A i, j \in 1 .. Len(reports') : i < j => reports'[i][2] < reports'[j][2]
          /\ Told' = p /\ reports' # <<>> /\ reports'[Len(reports')] = <<"partial", p>>
          /\ Cut' = Cut \cup {p} /\ Played' = Played
      BY <1>3, <1>6, <1>7, <2>2, ReportMade
    <3> QED BY <1>8, <2>2, <3>1
  <2> QED BY <1>2, <2>1, <2>2
<1>10. /\ heard' \subseteq (1 .. Chunks) \X (1 .. Frames) /\ heard \subseteq heard'
       /\ heard' \subseteq heard \cup {<<p, playback.frame>>}
  BY <1>1, <1>6 DEF SpInv, SpTypes
<1>11. SpTypes' /\ Places'
  <2>1. pcmQ' \in Seq(Items) /\ Len(pcmQ') <= MaxQueue /\ halted' \in BOOLEAN
        /\ halted' = halted
    BY <1>1 DEF SpInv, SpTypes
  <2>2. playback'.pc # "sink" /\ playback'.pc # "drain" /\ "sink" \notin errors'
    BY <1>1, <1>4, <1>6
  <2>3. playback'.partial => halted'
    BY <1>1, <1>5 DEF SpInv, Places
  <2> QED BY <1>1, <1>4, <1>9, <1>10, <2>1, <2>2, <2>3, PlaybackTypes
<1>12. Sentences' /\ Fed'
  BY <1>1, PlaybackRest
<1>13. Busy' = Busy /\ Marks' = Marks /\ Made' = Made
  BY <1>1 DEF Busy, Marks, Made
<1>14. FramesInOrder'
  BY <1>1, <1>4, <1>13 DEF SpInv, FramesInOrder, p
<1>15. ReportsInOrder'
  <2>1. playback'.partial => reports' # <<>> /\ reports'[Len(reports')] = <<"partial", playback'.playing>>
    <3>1. CASE halted
      BY <1>4, <1>9, <3>1
    <3>2. CASE ~halted
      BY <1>4, <1>5, <1>8, <1>9, <3>2
    <3> QED BY <3>1, <3>2
  <2>2. ~playback'.partial =>
          /\ \A i \in 1 .. Len(pcmQ) : pcmQ[i] # Close => Told' < pcmQ[i].chunk
          /\ Busy => Told' < synth.chunk
          /\ playback'.playing # NoChunk => Told' < playback'.playing
    <3> SUFFICES ASSUME ~playback'.partial
                 PROVE  /\ \A i \in 1 .. Len(pcmQ) : pcmQ[i] # Close => Told' < pcmQ[i].chunk
                        /\ Busy => Told' < synth.chunk
                        /\ playback'.playing # NoChunk => Told' < playback'.playing
      OBVIOUS
    <3>1. ~halted /\ ~playback.partial
      BY <1>5
    <3> QED BY <1>4, <1>7, <1>9, <3>1 DEF SpInv, ReportsInOrder, p
  <2> QED BY <1>1, <1>9, <1>13, <2>1, <2>2 DEF ReportsInOrder
<1>16. /\ Finished \subseteq Finished'
       /\ Unreported' \subseteq Unreported \cup {p}
       /\ halted => Unreported' \subseteq Unreported
  <2>1. Finished \subseteq Finished'
    BY <1>10 DEF Finished
  <2>2. Started' \subseteq Started \cup {p}
    <3> SUFFICES ASSUME NEW d \in 1 .. Chunks, NEW f \in 1 .. Frames, <<d, f>> \in heard', d # p
                 PROVE  <<d, f>> \in heard
      BY DEF Started
    <3> QED BY <1>10
  <2>3. Unreported' \subseteq Unreported \cup {p}
    BY <1>9, <2>2 DEF Unreported
  <2>4. halted => p \notin Unreported'
    BY <1>9 DEF Unreported
  <2> QED BY <2>1, <2>3, <2>4
<1>17. ~halted =>
         /\ \A c \in Marks, f \in 1 .. Frames : <<c, f>> \in Written
         /\ Busy => \A f \in 1 .. Frames : f <= Made => <<synth.chunk, f>> \in Written
         /\ Through \subseteq Marks \cup Played
         /\ Unreported \subseteq {p}
  BY <1>6 DEF SpInv, Covered, p
<1>18. Covered'
  <2> SUFFICES ASSUME ~halted PROVE Covered'
    BY <1>1 DEF Covered
  <2>1. Written \subseteq Written'
    <3> SUFFICES ASSUME NEW w \in Written PROVE w \in Written'
      OBVIOUS
    <3>1. w \in (1 .. Chunks) \X (1 .. Frames) /\ w = <<w[1], w[2]>>
      BY DEF Written
    <3>2. CASE w \in heard'
      BY <3>1, <3>2 DEF Written
    <3>3. CASE \E i \in 1 .. Len(pcmQ) : pcmQ[i] = Pcm(w[1], w[2])
      BY <1>1, <3>1, <3>3 DEF Written
    <3>4. CASE playback.playing = w[1] /\ playback.frame = w[2]
      <4>1. heard' = heard \cup {<<p, playback.frame>>}
        BY <1>1
      <4>2. w \in heard'
        BY <3>1, <3>4, <4>1 DEF p
      <4> QED BY <3>2, <4>2
    <3> QED BY <1>10, <3>2, <3>3, <3>4 DEF Written
  <2>2. Through' = Through
    BY <1>1, <1>13 DEF Through
  <2>3. Unreported' \subseteq {playback'.playing}
    BY <1>4, <1>16, <1>17
  <2> QED BY <1>1, <1>9, <1>13, <1>17, <2>1, <2>2, <2>3 DEF Covered
<1>19. Ends'
  <2>1. Played' \subseteq Finished'
    BY <1>9, <1>16 DEF SpInv, Ends
  <2>2. \A x, y \in Unreported' : x = y
    <3>1. CASE halted
      BY <1>6, <1>16, <3>1 DEF SpInv, Ends
    <3>2. CASE ~halted
      BY <1>16, <1>17, <3>2
    <3> QED BY <3>1, <3>2
  <2> QED BY <1>4, <2>1, <2>2 DEF Ends
<1> QED BY <1>11, <1>12, <1>14, <1>15, <1>18, <1>19 DEF SpInv

\* The sink raised, and what waits is thrown away.
LEMMA SinkFailsKeeps == ASSUME SpeakerAssumption, SpInv, SinkFails PROVE SpInv'
<1>1. /\ playback.pc = "sink" /\ UNCHANGED <<caller, synth, textQ, pcmQ, halted, heard, reports>>
      /\ playback' = [playback EXCEPT !.pc = "drain"] /\ errors' = errors \cup {"sink"}
  BY DEF SinkFails
<1>2. playback \in [pc : {"get", "sink", "drain", "dead"}, playing : 0 .. Chunks,
                    frame : 0 .. Frames, partial : BOOLEAN]
  BY DEF SpInv, SpTypes
<1>3. /\ playback' \in [pc : {"get", "sink", "drain", "dead"}, playing : 0 .. Chunks,
                        frame : 0 .. Frames, partial : BOOLEAN]
      /\ playback'.pc = "drain" /\ playback'.playing = playback.playing
      /\ playback'.partial = playback.partial /\ "sink" \in errors'
  BY <1>1, <1>2
<1>4. SpTypes' /\ Places'
  <2>1. /\ pcmQ' \in Seq(Items) /\ Len(pcmQ') <= MaxQueue /\ halted' \in BOOLEAN /\ halted' = halted
        /\ heard' \subseteq (1 .. Chunks) \X (1 .. Frames)
        /\ reports' \in Seq({"played", "partial"} \X (1 .. Chunks))
    BY <1>1 DEF SpInv, SpTypes
  <2>2. playback'.partial => halted'
    BY <1>1, <1>3 DEF SpInv, Places
  <2> QED BY <1>1, <1>3, <2>1, <2>2, PlaybackTypes
<1>5. Sentences' /\ Fed'
  BY <1>1, PlaybackRest
<1>6. Busy' = Busy /\ Told' = Told /\ Played' = Played /\ Finished' = Finished
  BY <1>1 DEF Busy, Told, Played, Reported, Finished
<1>7. FramesInOrder' /\ ReportsInOrder'
  <2>1. FramesInOrder'
    BY <1>1, <1>3, <1>6 DEF SpInv, FramesInOrder
  <2>2. ReportsInOrder'
    BY <1>1, <1>3, <1>6 DEF SpInv, ReportsInOrder
  <2> QED BY <2>1, <2>2
<1>8. Covered'
  BY <1>3 DEF Covered
<1>9. Ends'
  BY <1>3, <1>6 DEF SpInv, Ends
<1> QED BY <1>4, <1>5, <1>7, <1>8, <1>9 DEF SpInv

LEMMA DrainKeeps == ASSUME SpeakerAssumption, SpInv, DrainUntilClose PROVE SpInv'
<1>1. /\ playback.pc = "drain" /\ UNCHANGED <<caller, synth, textQ, halted, errors, heard, reports>>
      /\ \/ pcmQ = <<>> /\ pcmQ' = pcmQ
         \/ pcmQ # <<>> /\ pcmQ' = Tail(pcmQ)
  BY DEF DrainUntilClose
<1>2. \E at \in {"drain", "dead"} : playback' = [playback EXCEPT !.pc = at]
  BY DEF DrainUntilClose
<1>3. playback \in [pc : {"get", "sink", "drain", "dead"}, playing : 0 .. Chunks,
                    frame : 0 .. Frames, partial : BOOLEAN]
  BY DEF SpInv, SpTypes
<1>4. "sink" \in errors'
  BY <1>1 DEF SpInv, Places
<1>5. /\ playback' \in [pc : {"get", "sink", "drain", "dead"}, playing : 0 .. Chunks,
                        frame : 0 .. Frames, partial : BOOLEAN]
      /\ playback'.pc \in {"drain", "dead"} /\ playback'.playing = playback.playing
      /\ playback'.partial = playback.partial
  BY <1>2, <1>3
<1>6. Sentences' /\ Fed'
  BY <1>1, PlaybackRest
<1>7. Busy' = Busy /\ Told' = Told /\ Played' = Played /\ Finished' = Finished
  BY <1>1 DEF Busy, Told, Played, Reported, Finished
<1>8. playback.playing \in 0 .. Chunks /\ playback.playing <= playback.playing
  BY SpFields
<1>9. /\ pcmQ' \in Seq(Items) /\ Len(pcmQ') <= MaxQueue /\ FramesInOrder'
      /\ ~playback.partial => \A i \in 1 .. Len(pcmQ') : pcmQ'[i] # Close => Told < pcmQ'[i].chunk
  <2>1. CASE pcmQ = <<>> /\ pcmQ' = pcmQ
    <3>1. pcmQ' \in Seq(Items) /\ Len(pcmQ') <= MaxQueue
      BY <2>1 DEF SpInv, SpTypes
    <3>2. FramesInOrder'
      BY <1>1, <1>5, <1>7, <2>1 DEF SpInv, FramesInOrder
    <3>3. ~playback.partial => \A i \in 1 .. Len(pcmQ') : pcmQ'[i] # Close => Told < pcmQ'[i].chunk
      BY <2>1 DEF SpInv, ReportsInOrder
    <3> QED BY <3>1, <3>2, <3>3
  <2>2. CASE pcmQ # <<>> /\ pcmQ' = Tail(pcmQ)
    <3>1. pcmQ' \in Seq(Items) /\ Len(pcmQ') <= MaxQueue
      BY <2>2, HeadIs
    <3>2. FramesInOrder' /\ \A i \in 1 .. Len(pcmQ') : pcmQ'[i] # Close =>
                              (~playback.partial => Told < pcmQ'[i].chunk)
      BY <1>1, <1>5, <1>8, <2>2, HeadTaken
    <3> QED BY <3>1, <3>2
  <2> QED BY <1>1, <2>1, <2>2
<1>10. SpTypes' /\ Places'
  <2>1. /\ halted' \in BOOLEAN /\ halted' = halted /\ errors' = errors
        /\ heard' \subseteq (1 .. Chunks) \X (1 .. Frames)
        /\ reports' \in Seq({"played", "partial"} \X (1 .. Chunks))
    BY <1>1 DEF SpInv, SpTypes
  <2>2. playback'.partial => halted'
    BY <1>1, <1>5 DEF SpInv, Places
  <2> QED BY <1>1, <1>4, <1>5, <1>9, <2>1, <2>2, PlaybackTypes
<1>11. ReportsInOrder'
  BY <1>1, <1>5, <1>7, <1>9 DEF SpInv, ReportsInOrder
<1>12. Covered'
  BY <1>4 DEF Covered
<1>13. Ends'
  BY <1>4, <1>7 DEF SpInv, Ends
<1> QED BY <1>6, <1>9, <1>10, <1>11, <1>12, <1>13 DEF SpInv

\* A barge-in stops the reply.
LEMMA CancelKeeps == ASSUME SpInv, Cancel PROVE SpInv'
<1>1. halted' = TRUE /\ UNCHANGED <<caller, synth, playback, textQ, pcmQ, errors, heard, reports>>
  BY DEF Cancel
<1>2. SpTypes'
  BY <1>1 DEF SpInv, SpTypes
<1>3. /\ Busy' = Busy /\ Closed' = Closed /\ Told' = Told /\ Played' = Played
      /\ Finished' = Finished /\ Unreported' = Unreported
  BY <1>1 DEF Busy, Closed, Told, Played, Reported, Finished, Unreported, Started, Cut
<1>4. Places'
  BY <1>1, <1>3 DEF SpInv, Places
<1>5. Sentences'
  BY <1>1, <1>3 DEF SpInv, Sentences
<1>6. FramesInOrder'
  BY <1>1, <1>3 DEF SpInv, FramesInOrder
<1>7. ReportsInOrder'
  BY <1>1, <1>3 DEF SpInv, ReportsInOrder
<1>8. Covered' /\ Fed'
  BY <1>1 DEF Covered, Fed
<1>9. Ends'
  BY <1>1, <1>3 DEF SpInv, Ends
<1> QED BY <1>2, <1>4, <1>5, <1>6, <1>7, <1>8, <1>9 DEF SpInv

LEMMA SpStutters == ASSUME SpInv, UNCHANGED spVars PROVE SpInv'
<1>1. UNCHANGED <<caller, synth, playback, textQ, pcmQ, halted, errors, heard, reports>>
  BY DEF spVars
<1>2. SpTypes'
  BY <1>1 DEF SpInv, SpTypes
<1>3. /\ Busy' = Busy /\ Closed' = Closed /\ Told' = Told /\ Played' = Played
      /\ Finished' = Finished /\ Unreported' = Unreported
  BY <1>1 DEF Busy, Closed, Told, Played, Reported, Finished, Unreported, Started, Cut
<1>4. Places' /\ Sentences'
  BY <1>1, <1>3 DEF SpInv, Places, Sentences
<1>5. FramesInOrder' /\ ReportsInOrder'
  BY <1>1, <1>3 DEF SpInv, FramesInOrder, ReportsInOrder
<1>6. Covered'
  <2>1. Marks' = Marks /\ Written' = Written /\ Made' = Made /\ Through' = Through
    BY <1>1, <1>3 DEF Marks, Written, Made, Through
  <2> QED BY <1>1, <1>3, <2>1 DEF SpInv, Covered
<1>7. Fed'
  <2>1. Given' = Given
    BY <1>1 DEF Given
  <2> QED BY <1>1, <1>3, <2>1 DEF SpInv, Fed
<1>8. Ends'
  BY <1>1, <1>3 DEF SpInv, Ends
<1> QED BY <1>2, <1>4, <1>5, <1>6, <1>7, <1>8 DEF SpInv

\* What the reports claim follows.
LEMMA SpEnds == ASSUME SpeakerAssumption, SpInv PROVE SpTypeOK /\ ReportsMatchHearing
<1>1. SpTypeOK
  <2>1. /\ textQ \in Seq(Texts) /\ pcmQ \in Seq(Items)
        /\ Len(textQ) <= MaxQueue /\ Len(pcmQ) <= MaxQueue
    BY DEF SpInv, SpTypes
  <2>2. /\ caller.pc \in {"feed", "check", "wait", "close", "join_synth", "join_playback", "returned"}
        /\ synth.pc \in {"get", "produce", "check", "wait", "last", "dead"}
        /\ playback.pc \in {"get", "sink", "drain", "dead"}
    BY SpFields
  <2>3. heard \subseteq (1 .. Chunks) \X (1 .. Frames) /\ errors \subseteq {"model", "synth", "sink"}
    BY DEF SpInv, SpTypes
  <2> QED BY <2>1, <2>2, <2>3 DEF SpTypeOK
<1>2. /\ Played \subseteq Finished
      /\ \A i, j \in 1 .. Len(reports) : i < j => reports[i][2] < reports[j][2]
  BY DEF SpInv, Ends, ReportsInOrder
<1>3. ASSUME playback.pc = "dead", errors = {}
      PROVE  /\ Cardinality(Unreported) <= 1
             /\ ~halted => Played = 1 .. Chunks
  <2>1. "sink" \notin errors /\ "synth" \notin errors /\ "model" \notin errors
    BY <1>3
  <2>2. pcmQ = <<>> /\ synth.pc = "dead" /\ \A x, y \in Unreported : x = y
    BY <1>3, <2>1 DEF SpInv, Ends
  <2>3. Cardinality(Unreported) <= 1
    <3>1. CASE Unreported = {}
      <4>1. Cardinality(Unreported) = 0
        BY <3>1, FS_EmptySet
      <4> QED BY <4>1
    <3>2. CASE Unreported # {}
      <4>1. PICK x : x \in Unreported
        BY <3>2
      <4>2. Unreported = {x}
        BY <2>2, <4>1
      <4>3. Cardinality(Unreported) = 1
        BY <4>2, FS_Singleton
      <4> QED BY <4>3
    <3> QED BY <3>1, <3>2
  <2>4. ASSUME ~halted PROVE Played = 1 .. Chunks
    <3>1. Marks = {}
      <4>1. Len(pcmQ) = 0
        BY <2>2
      <4> QED BY <4>1 DEF Marks
    <3>2. Through \subseteq Played
      BY <2>1, <2>4, <3>1 DEF SpInv, Covered
    <3>3. Closed /\ synth.chunk = caller.chunk /\ caller.chunk = Chunks
      BY <2>1, <2>2, <2>4 DEF SpInv, Fed
    <3>4. ~Busy
      BY <2>2 DEF Busy
    <3>5. Through = 1 .. Chunks
      BY <2>1, <3>3, <3>4, SpFields DEF Through
    <3>6. Played \subseteq 1 .. Chunks
      BY DEF Played, Reported
    <3> QED BY <3>2, <3>5, <3>6
  <2> QED BY <2>3, <2>4
<1> QED BY <1>1, <1>2, <1>3 DEF ReportsMatchHearing, Played, Cut, Unreported

LEMMA SpNextInv == ASSUME SpeakerAssumption, SpInv, [SpNext]_spVars PROVE SpInv'
<1>1. CASE Caller
  BY <1>1, CallerKeeps
<1>2. CASE Synth
  BY <1>2, SynthKeeps
<1>3. CASE Playback
  BY <1>3, GetKeeps, SinkKeeps, SinkFailsKeeps, DrainKeeps DEF Playback
<1>4. CASE Cancel
  BY <1>4, CancelKeeps
<1>5. CASE UNCHANGED spVars
  BY <1>5, SpStutters
<1> QED BY <1>1, <1>2, <1>3, <1>4, <1>5 DEF SpNext

\* Whatever a barge-in overtakes and whichever stage raises, the session is told of a
\* sentence as played only when its last frame was written, of each sentence once and
\* in the order of the reply, and of all of them when nobody stopped it and no stage
\* raised; a stop leaves out at most the one sentence whose end it overtook
\* (StreamingSpeaker._playback_loop and what the two queues owe it).
THEOREM ReportsAreTrue ==
  ASSUME SpeakerAssumption
  PROVE  SpSpec => [](SpTypeOK /\ ReportsMatchHearing)
<1>1. SpInit => SpInv
  BY SpInitInv
<1>2. SpInv /\ [SpNext]_spVars => SpInv'
  BY SpNextInv
<1>3. SpInv => SpTypeOK /\ ReportsMatchHearing
  BY SpEnds
<1> QED BY <1>1, <1>2, <1>3, PTL DEF SpSpec

=============================================================================
