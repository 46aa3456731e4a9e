------------------------------ MODULE HouseProofs ------------------------------
(* Six parts of the main process and the room, for every value of their      *)
(* constants.  Talking over a reply: it is cut by what was said over it or   *)
(* handed over late, and the detector watches the reply being played.  The    *)
(* front desk: a command runs once, whoever repeats it.  Sleep mode: what is  *)
(* announced at night.  The memories: facts outlive the clears, cleared       *)
(* dialogue stays cleared, and "memory cleared" is true.  The lights: what an *)
(* answer counts was switched, and no device is left open.  The signals: in    *)
(* order, and counted when they are lost.                                      *)
EXTENDS BargeIn, FrontDesk, Nightfall, Forgetting, Lights, Signals, SequenceTheorems,
        FiniteSetTheorems, TLAPS

-----------------------------------------------------------------------------
(* Talking over a reply (BargeIn).                                            *)

Items == [kind : {"idle", "barge_in"}, reply : All \cup {NoReply}, over : All \cup {NoReply},
          late : BOOLEAN]

\* The types, with those of the queue and of the recordings.
BiTypes ==
  /\ stage \in [All -> {"queued", "playing", "ended"}]
  /\ written \in 0 .. Slices
  /\ cancelled \subseteq All /\ ducked \subseteq All /\ stranded \subseteq All
  /\ cutBy \in [All -> Items]
  /\ armed \in All \cup {NoReply} /\ speaking \in BOOLEAN
  /\ gate \in [active : BOOLEAN, over : All \cup {NoReply}]
  /\ owed \in [to : {"nobody", "candidate", "utterance"}, over : All \cup {NoReply}]
  /\ asrQ \in Seq(Items) /\ Len(asrQ) <= QueueLimit
  /\ asr \in [pc : {"get", "confirm"}, item : Items]

\* A recording was begun over the reply it names, or, handed over late, over an earlier one.
Own(item) ==
  item.kind = "barge_in" =>
    /\ item.reply \in All /\ item.over \in All
    /\ item.over = item.reply \/ (item.late /\ item.over < item.reply)

\* One reply is played at a time, in order; the detector watches that one or none.
OnePlays == \A r, s \in All : stage[r] = "playing" /\ stage[s] = "playing" => r = s
InOrder == \A r, s \in All : stage[r] # "queued" /\ s < r => stage[s] = "ended"
WatchesThePlaying == armed # NoReply => stage[armed] = "playing" /\ speaking

\* A capture under way is over the reply that is being played; a callback the dispatcher
\* owes is about a reply that has begun, and a candidate whose reply is still being played
\* has its capture under way.
CallbacksAreBegun ==
  /\ gate.active => gate.over \in All /\ stage[gate.over] = "playing"
  /\ owed.to # "nobody" => owed.over \in All /\ stage[owed.over] # "queued"
  /\ owed.to = "candidate" /\ stage[owed.over] = "playing" => gate.active /\ gate.over = owed.over

Recordings ==
  /\ \A i \in 1 .. Len(asrQ) : Own(asrQ[i])
  /\ asr.pc = "confirm" => Own(asr.item) /\ asr.item.kind = "barge_in"

BiInv == /\ BiTypes /\ OnePlays /\ InOrder /\ WatchesThePlaying /\ CallbacksAreBegun
         /\ Recordings /\ CutsAnswerTheirOwnReply

\* Taking one item out of the queue leaves the others.
LEMMA WithoutItems ==
  ASSUME NEW S, NEW q \in Seq(S), NEW i \in 1 .. Len(q)
  PROVE  /\ Without(q, i) \in Seq(S)
         /\ Len(Without(q, i)) = Len(q) - 1
         /\ \A j \in 1 .. Len(Without(q, i)) : \E k \in 1 .. Len(q) : Without(q, i)[j] = q[k]
<1> DEFINE a == SubSeq(q, 1, i - 1)
           b == SubSeq(q, i + 1, Len(q))
<1>1. a \in Seq(S) /\ Len(a) = i - 1 /\ \A j \in 1 .. i - 1 : a[j] = q[j]
  BY SubSeqProperties
<1>2. b \in Seq(S) /\ Len(b) = Len(q) - i /\ \A j \in 1 .. Len(q) - i : b[j] = q[i + j]
  <2>1. CASE i < Len(q)
    BY <2>1, SubSeqProperties
  <2>2. CASE i = Len(q)
    BY <2>2, SubSeqEmpty
  <2> QED BY <2>1, <2>2
<1> HIDE DEF a, b
<1>3. /\ a \o b \in Seq(S) /\ Len(a \o b) = Len(q) - 1
      /\ \A j \in 1 .. Len(q) - 1 : (a \o b)[j] = IF j <= i - 1 THEN a[j] ELSE b[j - (i - 1)]
  <2>1. /\ a \o b \in Seq(S) /\ Len(a \o b) = Len(a) + Len(b)
        /\ \A j \in 1 .. Len(a) + Len(b) :
             (a \o b)[j] = IF j <= Len(a) THEN a[j] ELSE b[j - Len(a)]
    BY <1>1, <1>2, ConcatProperties
  <2>2. Len(a) = i - 1 /\ Len(a) + Len(b) = Len(q) - 1
    BY <1>1, <1>2
  <2> QED BY <2>1, <2>2
<1>4. \A j \in 1 .. Len(q) - 1 : \E k \in 1 .. Len(q) : (a \o b)[j] = q[k]
  <2> TAKE j \in 1 .. Len(q) - 1
  <2>1. CASE j <= i - 1
    BY <2>1, <1>1, <1>3
  <2>2. CASE ~(j <= i - 1)
    <3>1. j - (i - 1) \in 1 .. Len(q) - i
      BY <2>2
    <3>2. (a \o b)[j] = q[i + (j - (i - 1))]
      BY <2>2, <3>1, <1>2, <1>3
    <3>3. i + (j - (i - 1)) \in 1 .. Len(q)
      BY <3>1
    <3> QED BY <3>2, <3>3, Zenon
  <2> QED BY <2>1, <2>2
<1>5. Without(q, i) = a \o b
  BY DEF Without, a, b
<1> QED BY <1>3, <1>4, <1>5

LEMMA AppendItem ==
  ASSUME NEW S, NEW q \in Seq(S), NEW x \in S
  PROVE  /\ Append(q, x) \in Seq(S) /\ Len(Append(q, x)) = Len(q) + 1
         /\ \A j \in 1 .. Len(q) + 1 : Append(q, x)[j] = IF j = Len(q) + 1 THEN x ELSE q[j]
  OBVIOUS

LEMMA BiInitInv == BiInit => BiInv
<1> SUFFICES ASSUME BiInit PROVE BiInv
  OBVIOUS
<1>1. Idle \in Items
  BY DEF Idle, Items, NoReply
<1>2. BiTypes
  <2>1. asrQ \in Seq(Items) /\ Len(asrQ) = 0 /\ asr \in [pc : {"get", "confirm"}, item : Items]
    BY <1>1 DEF BiInit
  <2>2. stage \in [All -> {"queued", "playing", "ended"}] /\ cutBy \in [All -> Items]
    BY <1>1 DEF BiInit
  <2>3. written \in 0 .. Slices /\ 0 <= QueueLimit
    BY BargeInAssumption DEF BargeInAssumption, BiInit
  <2>4. /\ gate \in [active : BOOLEAN, over : All \cup {NoReply}]
        /\ owed \in [to : {"nobody", "candidate", "utterance"}, over : All \cup {NoReply}]
    BY DEF BiInit, Quiet, NoCall
  <2>5. cancelled \subseteq All /\ ducked \subseteq All /\ stranded \subseteq All
        /\ armed \in All \cup {NoReply} /\ speaking \in BOOLEAN
    BY DEF BiInit
  <2> QED BY <2>1, <2>2, <2>3, <2>4, <2>5 DEF BiTypes
<1>3. OnePlays /\ InOrder /\ WatchesThePlaying /\ CallbacksAreBegun
  BY DEF BiInit, OnePlays, InOrder, WatchesThePlaying, CallbacksAreBegun, Quiet, NoCall, NoReply
<1>4. Recordings /\ CutsAnswerTheirOwnReply
  <2>1. Len(asrQ) = 0 /\ asr.pc = "get" /\ cancelled = {}
    BY DEF BiInit
  <2> QED BY <2>1 DEF Recordings, CutsAnswerTheirOwnReply
<1> QED BY <1>2, <1>3, <1>4 DEF BiInv


\* A step of the playback, the gate or the recognizer, and one of the worker.
LEMMA PlaybackKeeps ==
  ASSUME BiInv, NEW r \in All, BeginReply(r) \/ WriteSlice(r) \/ EndReply(r)
  PROVE  BiInv'
<1> USE DEF BiInv, NoReply
<1>0. All \subseteq Int
  BY BargeInAssumption DEF BargeInAssumption, All
<1>1. CASE BeginReply(r)
  <2>1. BiTypes'
    BY <1>1, BargeInAssumption DEF BeginReply, BiTypes, BargeInAssumption
  <2>2. \A s \in All : stage'[s] = IF s = r THEN "playing" ELSE stage[s]
    BY <1>1 DEF BeginReply, BiTypes
  <2>3. \A s \in All : stage[s] # "playing" /\ (s < r => stage[s] = "ended")
    BY <1>0, <1>1 DEF BeginReply, All
  <2>4. stage[r] = "queued"
    BY <1>1 DEF BeginReply
  <2>5. OnePlays' /\ WatchesThePlaying'
    BY <1>1, <2>2, <2>3 DEF BeginReply, OnePlays, WatchesThePlaying, BiTypes
  <2>6. InOrder'
    BY <2>2, <2>3, <2>4 DEF InOrder
  <2>7. CallbacksAreBegun'
    BY <1>1, <2>2, <2>3, <2>4 DEF BeginReply, CallbacksAreBegun
  <2> QED BY <1>1, <2>1, <2>5, <2>6, <2>7 DEF BeginReply, Recordings, CutsAnswerTheirOwnReply
<1>2. CASE WriteSlice(r)
  <2>1. BiTypes'
    BY <1>2, BargeInAssumption DEF WriteSlice, BiTypes, BargeInAssumption
  <2>2. WatchesThePlaying'
    BY <1>2 DEF WriteSlice, WatchesThePlaying
  <2>3. CallbacksAreBegun' /\ InOrder'
    BY <1>2 DEF WriteSlice, CallbacksAreBegun, InOrder
  <2> QED BY <1>2, <2>1, <2>2, <2>3
        DEF WriteSlice, OnePlays, Recordings, CutsAnswerTheirOwnReply
<1>3. CASE EndReply(r)
  <2>1. BiTypes'
    BY <1>3, BargeInAssumption DEF EndReply, BiTypes, BargeInAssumption, Quiet
  <2>2. \A s \in All : stage'[s] = IF s = r THEN "ended" ELSE stage[s]
    BY <1>3 DEF EndReply, BiTypes
  <2>3. OnePlays'
    BY <2>2 DEF OnePlays
  <2>8. InOrder'
    <3> SUFFICES ASSUME NEW p \in All, NEW s \in All, stage'[p] # "queued", s < p
                 PROVE  stage'[s] = "ended"
      BY DEF InOrder
    <3>1. stage[p] # "queued"
      BY <1>3, <2>2 DEF EndReply
    <3>2. stage[s] = "ended"
      BY <3>1 DEF InOrder
    <3> QED BY <2>2, <3>2
  <2>4. armed' = NoReply
    BY <1>3 DEF EndReply, OnePlays, WatchesThePlaying, BiTypes
  <2>5. \A s \in All : stage'[s] # "playing"
    BY <1>3, <2>2 DEF EndReply, OnePlays
  <2>6. gate'.active = FALSE /\ owed' = owed
    BY <1>3 DEF EndReply, Quiet
  <2>7. CallbacksAreBegun'
    BY <2>2, <2>5, <2>6 DEF CallbacksAreBegun
  <2> QED BY <1>3, <2>1, <2>3, <2>4, <2>7, <2>8
        DEF EndReply, WatchesThePlaying, Recordings, CutsAnswerTheirOwnReply
<1> QED BY <1>1, <1>2, <1>3

LEMMA EnqueueKeeps ==
  ASSUME BiTypes, Recordings, NEW x \in Items, Own(x), Len(asrQ) < QueueLimit,
         asrQ' = Append(asrQ, x), UNCHANGED asr
  PROVE  /\ asrQ' \in Seq(Items) /\ Len(asrQ') <= QueueLimit
         /\ Recordings'
<1>1. asrQ \in Seq(Items) /\ Len(asrQ) \in Nat /\ QueueLimit \in Nat
  BY BargeInAssumption DEF BargeInAssumption, BiTypes
<1>2. /\ asrQ' \in Seq(Items) /\ Len(asrQ') = Len(asrQ) + 1
      /\ \A j \in 1 .. Len(asrQ) + 1 : asrQ'[j] = IF j = Len(asrQ) + 1 THEN x ELSE asrQ[j]
  BY <1>1, AppendItem
<1>3. \A j \in 1 .. Len(asrQ') : Own(asrQ'[j])
  <2> TAKE j \in 1 .. Len(asrQ')
  <2>1. CASE j = Len(asrQ) + 1
    BY <2>1, <1>2
  <2>2. CASE j # Len(asrQ) + 1
    BY <2>2, <1>1, <1>2 DEF Recordings
  <2> QED BY <2>1, <2>2
<1> QED BY <1>1, <1>2, <1>3 DEF Recordings, Own

\* A recording handed over names the reply in the detector; if that is not the one it
\* was begun over, that one is earlier and has ended.
LEMMA HandedOverIsOwn ==
  ASSUME BiInv, Listening, owed.to = "utterance"
  PROVE  LET x == Barge(armed, owed.over, stage[owed.over] = "ended")
         IN  x \in Items /\ Own(x)
<1> USE DEF BiInv, NoReply
<1>1. All \subseteq Int
  BY BargeInAssumption DEF BargeInAssumption, All
<1>2. armed \in All /\ stage[armed] = "playing"
  BY DEF Listening, WatchesThePlaying, BiTypes
<1>3. owed.over \in All /\ stage[owed.over] # "queued"
  BY DEF CallbacksAreBegun
<1>4. stage[owed.over] \in {"queued", "playing", "ended"}
  BY <1>3 DEF BiTypes
<1>5. owed.over = armed \/ (stage[owed.over] = "ended" /\ owed.over < armed)
  <2>1. CASE stage[owed.over] = "playing"
    BY <2>1, <1>2, <1>3 DEF OnePlays
  <2>2. CASE stage[owed.over] = "ended"
    <3>0. \A p, q \in All : stage[p] # "queued" /\ q < p => stage[q] = "ended"
      BY DEF InOrder
    <3>1. ~(armed < owed.over)
      BY <3>0, <1>2, <1>3, Zenon
    <3>2. armed \in Int /\ owed.over \in Int
      BY <1>1, <1>2, <1>3, Zenon
    <3>3. owed.over = armed \/ owed.over < armed
      BY ONLY <3>1, <3>2
    <3> QED BY <2>2, <3>3
  <2> QED BY <2>1, <2>2, <1>3, <1>4
<1> QED BY <1>2, <1>3, <1>5 DEF Barge, Items, Own

LEMMA CaptureKeeps ==
  ASSUME BiInv, OpenCapture \/ Candidate \/ CloseCapture \/ HandOver \/ HearIdle
  PROVE  BiInv'
<1> USE DEF BiInv, NoReply
<1>1. CASE OpenCapture
  <2>1. PICK r \in All : /\ stage[r] = "playing"
                         /\ gate' = [active |-> TRUE, over |-> r]
                         /\ owed' = [to |-> "candidate", over |-> r]
    BY <1>1 DEF OpenCapture
  <2>2. UNCHANGED <<stage, written, cancelled, ducked, cutBy, armed, speaking, stranded, asrQ, asr>>
    BY <1>1 DEF OpenCapture
  <2>3. BiTypes'
    BY <2>1, <2>2 DEF BiTypes
  <2>4. CallbacksAreBegun'
    BY <2>1, <2>2 DEF CallbacksAreBegun
  <2> QED BY <2>2, <2>3, <2>4
        DEF OnePlays, InOrder, WatchesThePlaying, Recordings, Own, CutsAnswerTheirOwnReply
<1>2. CASE Candidate
  <2>1. /\ owed' = NoCall
        /\ UNCHANGED <<stage, written, cancelled, cutBy, armed, speaking, gate, asrQ, asr>>
    BY <1>2 DEF Candidate
  <2>2. ducked' \subseteq All /\ stranded' \subseteq All
    BY <1>2 DEF Candidate, BiTypes, Listening
  <2>3. BiTypes'
    BY <2>1, <2>2 DEF BiTypes, NoCall
  <2>4. CallbacksAreBegun'
    BY <2>1 DEF CallbacksAreBegun, NoCall
  <2> QED BY <2>1, <2>3, <2>4
        DEF OnePlays, InOrder, WatchesThePlaying, Recordings, Own, CutsAnswerTheirOwnReply
<1>3. CASE CloseCapture
  <2>1. /\ gate' = Quiet /\ gate.over \in All /\ stage[gate.over] = "playing"
        /\ UNCHANGED <<stage, written, cancelled, ducked, cutBy, armed, speaking, asrQ, asr>>
    BY <1>3 DEF CloseCapture, CallbacksAreBegun
  <2>2. /\ owed' = [to |-> "utterance", over |-> gate.over] \/ owed' = NoCall
        /\ stranded' \subseteq All
    BY <1>3, <2>1 DEF CloseCapture, BiTypes
  <2>3. BiTypes'
    BY <2>1, <2>2 DEF BiTypes, NoCall, Quiet
  <2>4. CallbacksAreBegun'
    BY <2>1, <2>2 DEF CallbacksAreBegun, NoCall, Quiet
  <2> QED BY <2>1, <2>3, <2>4
        DEF OnePlays, InOrder, WatchesThePlaying, Recordings, Own, CutsAnswerTheirOwnReply
<1>4. CASE HandOver
  <2>1. /\ owed' = NoCall
        /\ UNCHANGED <<stage, written, cancelled, cutBy, armed, speaking, gate, asr>>
    BY <1>4 DEF HandOver
  <2>2. ducked' \subseteq All /\ stranded' \subseteq All
    BY <1>4 DEF HandOver, BiTypes
  <2>3. asrQ' \in Seq(Items) /\ Len(asrQ') <= QueueLimit /\ Recordings'
    <3>1. CASE UNCHANGED asrQ
      BY <3>1, <2>1 DEF BiTypes, Recordings, Own
    <3>2. CASE /\ Listening /\ Len(asrQ) < QueueLimit
               /\ asrQ' = Append(asrQ, Barge(armed, owed.over, stage[owed.over] = "ended"))
      <4> DEFINE x == Barge(armed, owed.over, stage[owed.over] = "ended")
      <4>1. x \in Items /\ Own(x)
        BY <1>4, <3>2, HandedOverIsOwn DEF HandOver
      <4>2. BiTypes /\ Recordings /\ Len(asrQ) < QueueLimit /\ asrQ' = Append(asrQ, x)
            /\ UNCHANGED asr
        BY <2>1, <3>2
      <4> HIDE DEF x
      <4> QED BY ONLY <4>1, <4>2, EnqueueKeeps
    <3> QED BY <1>4, <3>1, <3>2 DEF HandOver
  <2>4. BiTypes'
    BY <2>1, <2>2, <2>3 DEF BiTypes, NoCall
  <2>5. CallbacksAreBegun'
    BY <2>1 DEF CallbacksAreBegun, NoCall
  <2> QED BY <2>1, <2>3, <2>4, <2>5
        DEF OnePlays, InOrder, WatchesThePlaying, CutsAnswerTheirOwnReply
<1>5. CASE HearIdle
  <2>1. UNCHANGED <<stage, written, cancelled, ducked, cutBy, armed, speaking, gate, owed,
                    stranded, asr>>
    BY <1>5 DEF HearIdle
  <2>2. asrQ' \in Seq(Items) /\ Len(asrQ') <= QueueLimit /\ Recordings'
    <3>1. CASE UNCHANGED asrQ
      BY <3>1, <2>1 DEF BiTypes, Recordings, Own
    <3>2. CASE Len(asrQ) < QueueLimit /\ asrQ' = Append(asrQ, Idle)
      <4>1. Idle \in Items /\ Own(Idle)
        BY DEF Idle, Items, Own
      <4> QED BY <3>2, <4>1, <2>1, EnqueueKeeps
    <3> QED BY <1>5, <3>1, <3>2 DEF HearIdle
  <2>3. BiTypes'
    BY <2>1, <2>2 DEF BiTypes
  <2>4. CallbacksAreBegun'
    BY <2>1 DEF CallbacksAreBegun
  <2> QED BY <2>1, <2>2, <2>3, <2>4 DEF OnePlays, InOrder, WatchesThePlaying, CutsAnswerTheirOwnReply
<1> QED BY <1>1, <1>2, <1>3, <1>4, <1>5

LEMMA WorkerKeeps ==
  ASSUME BiInv, TakeWork \/ Reject \/ Accept
  PROVE  BiInv'
<1> USE DEF BiInv, NoReply
<1>1. CASE TakeWork
  <2>1. UNCHANGED <<stage, written, cancelled, ducked, cutBy, armed, speaking, gate, owed, stranded>>
    BY <1>1 DEF TakeWork
  <2>2. PICK i \in 1 .. Len(asrQ) :
          /\ asrQ' = Without(asrQ, i)
          /\ \/ asr' = asr
             \/ asrQ[i].kind = "barge_in" /\ asr' = [pc |-> "confirm", item |-> asrQ[i]]
    BY <1>1 DEF TakeWork
  <2>3. asrQ \in Seq(Items) /\ Len(asrQ) <= QueueLimit /\ QueueLimit \in Nat
    BY BargeInAssumption DEF BiTypes, BargeInAssumption
  <2>4. /\ asrQ' \in Seq(Items) /\ Len(asrQ') = Len(asrQ) - 1
        /\ \A j \in 1 .. Len(asrQ') : \E k \in 1 .. Len(asrQ) : asrQ'[j] = asrQ[k]
    <3> DEFINE w == Without(asrQ, i)
    <3>1. asrQ \in Seq(Items) /\ i \in 1 .. Len(asrQ)
      BY <2>3
    <3>2. /\ Without(asrQ, i) \in Seq(Items) /\ Len(Without(asrQ, i)) = Len(asrQ) - 1
          /\ \A j \in 1 .. Len(Without(asrQ, i)) : \E k \in 1 .. Len(asrQ) : Without(asrQ, i)[j] = asrQ[k]
      BY ONLY <3>1, WithoutItems
    <3>3. /\ w \in Seq(Items) /\ Len(w) = Len(asrQ) - 1
          /\ \A j \in 1 .. Len(w) : \E k \in 1 .. Len(asrQ) : w[j] = asrQ[k]
      BY <3>2 DEF w
    <3>4. asrQ' = w
      BY <2>2
    <3> HIDE DEF w, BiInv
    <3> QED BY <3>3, <3>4
  <2>5. asrQ[i] \in Items /\ Own(asrQ[i])
    BY <2>2, <2>3 DEF Recordings
  <2>6. asr' \in [pc : {"get", "confirm"}, item : Items]
    BY <2>2, <2>5 DEF BiTypes
  <2>7. asr'.pc = "confirm" => Own(asr'.item) /\ asr'.item.kind = "barge_in"
    BY <2>2, <2>5 DEF Recordings
  <2>8. \A j \in 1 .. Len(asrQ') : Own(asrQ'[j])
    BY <2>4 DEF Recordings
  <2>9. Recordings'
    BY <2>7, <2>8 DEF Recordings, Own
  <2>10. BiTypes'
    BY <2>1, <2>3, <2>4, <2>6 DEF BiTypes
  <2> QED BY <2>1, <2>9, <2>10
        DEF OnePlays, InOrder, WatchesThePlaying, CallbacksAreBegun, CutsAnswerTheirOwnReply
<1>2. CASE Reject
  <2>1. BiTypes'
    BY <1>2 DEF Reject, BiTypes
  <2> QED BY <1>2, <2>1
        DEF Reject, BiTypes, OnePlays, InOrder, WatchesThePlaying, CallbacksAreBegun, Recordings,
            Own, CutsAnswerTheirOwnReply
<1>3. CASE Accept
  <2> DEFINE r == asr.item.reply
  <2>1. /\ UNCHANGED <<stage, written, ducked, speaking, gate, owed, stranded, asrQ>>
        /\ asr' = [asr EXCEPT !.pc = "get"]
        /\ cancelled' = cancelled \cup {r}
        /\ cutBy' = [cutBy EXCEPT ![r] = asr.item]
        /\ armed' = IF armed = r THEN NoReply ELSE armed
    BY <1>3 DEF Accept
  <2>2. /\ r \in All /\ asr.item \in Items
        /\ asr.item.over = r \/ (asr.item.late /\ asr.item.over < r)
    BY <1>3 DEF Accept, Recordings, Own, BiTypes
  <2>3. BiTypes'
    BY <2>1, <2>2 DEF BiTypes
  <2>4. CutsAnswerTheirOwnReply'
    BY <2>1, <2>2 DEF CutsAnswerTheirOwnReply, BiTypes
  <2>5. WatchesThePlaying' /\ CallbacksAreBegun' /\ OnePlays' /\ InOrder'
    BY <2>1 DEF WatchesThePlaying, CallbacksAreBegun, OnePlays, InOrder
  <2>6. Recordings'
    BY <2>1 DEF Recordings, Own, BiTypes
  <2> QED BY <2>3, <2>4, <2>5, <2>6
<1> QED BY <1>1, <1>2, <1>3

LEMMA BiNextInv == BiInv /\ [BiNext]_biVars => BiInv'
<1> SUFFICES ASSUME BiInv, [BiNext]_biVars PROVE BiInv'
  OBVIOUS
<1>1. CASE \E r \in All : BeginReply(r) \/ WriteSlice(r) \/ EndReply(r)
  BY <1>1, PlaybackKeeps
<1>2. CASE OpenCapture \/ Candidate \/ CloseCapture \/ HandOver \/ HearIdle
  BY <1>2, CaptureKeeps
<1>3. CASE TakeWork \/ Reject \/ Accept
  BY <1>3, WorkerKeeps
<1>4. CASE UNCHANGED biVars
  BY <1>4 DEF biVars, BiInv, BiTypes, OnePlays, InOrder, WatchesThePlaying, CallbacksAreBegun,
             Recordings, Own, CutsAnswerTheirOwnReply
<1> QED BY <1>1, <1>2, <1>3, <1>4 DEF BiNext

\* The inductive invariant holds of every behaviour.
THEOREM BargeInInvariant == BiSpec => []BiInv
<1>1. BiInit => BiInv
  BY BiInitInv
<1>2. BiInv /\ [BiNext]_biVars => BiInv'
  BY BiNextInv
<1> QED BY <1>1, <1>2, PTL DEF BiSpec

\* The variables keep their types, and the queue its bound (BoundedAsrQueue).
THEOREM BargeInTypes == BiSpec => []BargeInTypeOK
<1>1. BiInv => BargeInTypeOK
  BY DEF BiInv, BiTypes, BargeInTypeOK
<1> QED BY <1>1, BargeInInvariant, PTL

\* A reply is only cut by what was said over it, or by a recording of an earlier reply
\* that ended before the dispatcher handed the recording over (_on_barge_vad_utterance,
\* _accept_barge_in).
THEOREM CutsAreOwn == BiSpec => []CutsAnswerTheirOwnReply
<1>1. BiInv => CutsAnswerTheirOwnReply
  BY DEF BiInv
<1> QED BY <1>1, BargeInInvariant, PTL

\* The detector holds the reply that is being played, or none: what is ducked or
\* cancelled through it is what the room hears (_arm, _disarm_playback).
THEOREM DetectorWatchesThePlaying == BiSpec => [](OnePlays /\ WatchesThePlaying)
<1>1. BiInv => OnePlays /\ WatchesThePlaying
  BY DEF BiInv
<1> QED BY <1>1, BargeInInvariant, PTL

\* The volume is low only for the reply in the detector, and for none that waits.
DucksAreWatched ==
  \A r \in ducked : /\ stage[r] # "queued"
                    /\ stage[r] = "playing" /\ r \notin cancelled => armed = r

BiDucks == BiInv /\ DucksAreWatched /\ DucksAreBrief

\* What is taken out of the queue is the one item; every other stays in it.
LEMMA WithoutKeeps ==
  ASSUME NEW S, NEW q \in Seq(S), NEW i \in 1 .. Len(q), NEW k \in 1 .. Len(q), k # i
  PROVE  \E j \in 1 .. Len(Without(q, i)) : Without(q, i)[j] = q[k]
<1> DEFINE a == SubSeq(q, 1, i - 1)
           b == SubSeq(q, i + 1, Len(q))
<1>1. a \in Seq(S) /\ Len(a) = i - 1 /\ \A j \in 1 .. i - 1 : a[j] = q[j]
  BY SubSeqProperties
<1>2. b \in Seq(S) /\ Len(b) = Len(q) - i /\ \A j \in 1 .. Len(q) - i : b[j] = q[i + j]
  <2>1. CASE i < Len(q)
    BY <2>1, SubSeqProperties
  <2>2. CASE i = Len(q)
    BY <2>2, SubSeqEmpty
  <2> QED BY <2>1, <2>2
<1> HIDE DEF a, b
<1>3. /\ Len(a \o b) = Len(q) - 1
      /\ \A j \in 1 .. Len(q) - 1 : (a \o b)[j] = IF j <= i - 1 THEN a[j] ELSE b[j - (i - 1)]
  <2>1. /\ Len(a \o b) = Len(a) + Len(b)
        /\ \A j \in 1 .. Len(a) + Len(b) :
             (a \o b)[j] = IF j <= Len(a) THEN a[j] ELSE b[j - Len(a)]
    BY <1>1, <1>2, ConcatProperties
  <2>2. Len(a) = i - 1 /\ Len(a) + Len(b) = Len(q) - 1
    BY <1>1, <1>2
  <2> QED BY <2>1, <2>2
<1>4. \E j \in 1 .. Len(q) - 1 : (a \o b)[j] = q[k]
  <2>1. CASE k < i
    <3>1. k \in 1 .. Len(q) - 1 /\ (a \o b)[k] = q[k]
      BY <2>1, <1>1, <1>3
    <3> QED BY <3>1
  <2>2. CASE k > i
    <3> DEFINE j == k - 1
               m == k - i
    <3>1. j \in 1 .. Len(q) - 1 /\ m \in 1 .. Len(q) - i /\ ~(j <= i - 1)
      BY <2>2
    <3>2. j - (i - 1) = m /\ i + m = k
      OBVIOUS
    <3> HIDE DEF j, m
    <3>3. (a \o b)[j] = b[m]
      BY <3>1, <3>2, <1>3
    <3>4. b[m] = q[k]
      BY <3>1, <3>2, <1>2
    <3> QED BY <3>1, <3>3, <3>4
  <2>3. k < i \/ k > i
    OBVIOUS
  <2> QED BY <2>1, <2>2, <2>3
<1>5. Without(q, i) = a \o b
  BY DEF Without, a, b
<1> QED BY <1>3, <1>4, <1>5

LEMMA DucksWatchedStep ==
  ASSUME BiInv, DucksAreWatched, BiNext
  PROVE  DucksAreWatched'
<1>0. BiTypes /\ OnePlays /\ WatchesThePlaying
  BY DEF BiInv
<1>1. CASE \E r \in All : BeginReply(r) \/ WriteSlice(r) \/ EndReply(r)
  <2>1. PICK r \in All : BeginReply(r) \/ WriteSlice(r) \/ EndReply(r)
    BY <1>1
  <2>2. CASE BeginReply(r)
    <3>1. \A s \in All : stage'[s] = IF s = r THEN "playing" ELSE stage[s]
      BY <1>0, <2>2 DEF BeginReply, BiTypes
    <3>2. r \notin ducked
      BY <2>2 DEF BeginReply, DucksAreWatched
    <3> QED BY <1>0, <2>2, <3>1, <3>2 DEF BeginReply, DucksAreWatched, BiTypes
  <2>3. CASE WriteSlice(r)
    <3>1. \A s \in All : stage[s] = "playing" => s = r
      BY <1>0, <2>3 DEF WriteSlice, OnePlays
    <3> QED BY <1>0, <2>3, <3>1 DEF WriteSlice, DucksAreWatched, BiTypes
  <2>4. CASE EndReply(r)
    <3>1. \A s \in All : stage'[s] = IF s = r THEN "ended" ELSE stage[s]
      BY <1>0, <2>4 DEF EndReply, BiTypes
    <3>2. \A s \in All : stage'[s] # "playing"
      BY <1>0, <2>4, <3>1 DEF EndReply, OnePlays
    <3> QED BY <1>0, <2>4, <3>1, <3>2 DEF EndReply, DucksAreWatched, BiTypes
  <2> QED BY <2>1, <2>2, <2>3, <2>4
<1>2. CASE Candidate
  <2>1. ducked' \subseteq ducked \cup {armed} /\ (armed = NoReply => ducked' = ducked)
    BY <1>2 DEF Candidate, Listening
  <2> QED BY <1>0, <1>2, <2>1 DEF Candidate, DucksAreWatched, WatchesThePlaying
<1>3. CASE OpenCapture \/ CloseCapture \/ HandOver \/ HearIdle \/ TakeWork \/ Reject
  <2>1. ducked' \subseteq ducked /\ UNCHANGED <<stage, cancelled, armed>>
    BY <1>3 DEF OpenCapture, CloseCapture, HandOver, HearIdle, TakeWork, Reject
  <2> QED BY <2>1 DEF DucksAreWatched
<1>4. CASE Accept
  BY <1>4 DEF Accept, DucksAreWatched
<1> QED BY <1>1, <1>2, <1>3, <1>4 DEF BiNext

LEMMA DucksBriefStep ==
  ASSUME BiDucks, BiNext
  PROVE  DucksAreBrief'
<1>0. BiInv /\ BiTypes /\ OnePlays /\ CallbacksAreBegun /\ DucksAreWatched /\ DucksAreBrief
  BY DEF BiDucks, BiInv
<1>s. asrQ \in Seq(Items) /\ Len(asrQ) \in Nat
  BY <1>0 DEF BiTypes
<1> SUFFICES ASSUME NEW r \in All, stage'[r] = "playing", r \in ducked', r \notin cancelled'
             PROVE  Pending(r)' \/ r \in stranded'
  BY DEF DucksAreBrief
<1>1. CASE \E s \in All : BeginReply(s) \/ WriteSlice(s) \/ EndReply(s)
  <2>1. PICK s \in All : BeginReply(s) \/ WriteSlice(s) \/ EndReply(s)
    BY <1>1
  <2>2. r \in ducked /\ r \notin cancelled /\ UNCHANGED <<owed, stranded, asrQ, asr>>
    BY <2>1 DEF BeginReply, WriteSlice, EndReply
  <2>3. CASE BeginReply(s)
    <3>1. stage[r] = "playing"
      BY <1>0, <2>2, <2>3 DEF BeginReply, DucksAreWatched, BiTypes
    <3> QED BY <1>0, <2>2, <2>3, <3>1 DEF BeginReply, DucksAreBrief, Pending
  <2>4. CASE WriteSlice(s)
    BY <1>0, <2>2, <2>4 DEF WriteSlice, DucksAreBrief, Pending
  <2>5. CASE EndReply(s)
    BY <1>0, <2>5 DEF EndReply, OnePlays, BiTypes
  <2> QED BY <2>1, <2>3, <2>4, <2>5
<1>2. CASE OpenCapture
  <2>1. PICK p \in All : stage[p] = "playing" /\ gate' = [active |-> TRUE, over |-> p]
    BY <1>2 DEF OpenCapture
  <2>2. p = r
    BY <1>0, <1>2, <2>1 DEF OpenCapture, OnePlays
  <2> QED BY <2>1, <2>2 DEF Pending
<1>3. CASE Candidate
  <2>1. /\ r \notin cancelled /\ stage[r] = "playing" /\ UNCHANGED <<gate, asrQ, asr>>
        /\ owed.to = "candidate"
    BY <1>3 DEF Candidate
  <2>2. CASE r \in ducked \ {armed} \/ ~Listening
    <3>1. r \in ducked /\ (r \in stranded => r \in stranded')
      BY <1>3, <2>2 DEF Candidate
    <3>2. Pending(r) \/ r \in stranded
      BY <1>0, <2>1, <3>1 DEF DucksAreBrief
    <3> QED BY <2>1, <3>1, <3>2 DEF Pending
  <2>3. CASE Listening /\ armed = r
    <3>1. CASE owed.over = r
      BY <1>0, <2>1, <3>1 DEF CallbacksAreBegun, Pending
    <3>2. CASE owed.over # r
      BY <1>3, <2>3, <3>2 DEF Candidate
    <3> QED BY <3>1, <3>2
  <2> QED BY <1>3, <2>2, <2>3 DEF Candidate
<1>4. CASE CloseCapture
  <2>1. /\ stage[r] = "playing" /\ gate.active
        /\ \/ owed' = [to |-> "utterance", over |-> gate.over]
           \/ stranded' = stranded \cup {gate.over}
    BY <1>4 DEF CloseCapture
  <2>2. gate.over = r
    BY <1>0, <2>1 DEF CallbacksAreBegun, OnePlays
  <2> QED BY <2>1, <2>2 DEF Pending
<1>5. CASE HandOver
  <2> DEFINE x == Barge(armed, owed.over, stage[owed.over] = "ended")
  <2>1. /\ r \in ducked /\ r \notin cancelled /\ stage[r] = "playing"
        /\ UNCHANGED <<stage, cancelled, armed, asr>>
    BY <1>5 DEF HandOver
  <2>2. armed = r /\ Listening
    BY <1>0, <2>1 DEF DucksAreWatched, Listening, NoReply, All
  <2>3. asrQ' = Append(asrQ, x)
    BY <1>5, <2>2 DEF HandOver
  <2>4. x.kind = "barge_in" /\ x.reply = r
    BY <2>2 DEF Barge
  <2> HIDE DEF x
  <2>5. Len(asrQ') = Len(asrQ) + 1 /\ asrQ'[Len(asrQ) + 1] = x
    BY <1>s, <2>3
  <2>6. \E i \in 1 .. Len(asrQ') : asrQ'[i] = x
    BY <1>s, <2>5
  <2> QED BY <2>4, <2>6 DEF Pending
<1>6. CASE HearIdle
  <2>1. /\ r \in ducked /\ r \notin cancelled /\ stage[r] = "playing"
        /\ UNCHANGED <<gate, owed, stranded, asr>>
        /\ (asrQ' = asrQ \/ asrQ' = Append(asrQ, Idle))
    BY <1>6 DEF HearIdle
  <2>2. Pending(r) \/ r \in stranded
    BY <1>0, <2>1 DEF DucksAreBrief
  <2>3. ASSUME NEW i \in 1 .. Len(asrQ) PROVE i \in 1 .. Len(asrQ') /\ asrQ'[i] = asrQ[i]
    <3>1. CASE asrQ' = asrQ
      BY <3>1
    <3>2. CASE asrQ' = Append(asrQ, Idle)
      BY <1>s, <3>2
    <3> QED BY <2>1, <3>1, <3>2
  <2> QED BY <2>1, <2>2, <2>3 DEF Pending
<1>7. CASE TakeWork
  <2>1. /\ r \in ducked /\ r \notin cancelled /\ stage[r] = "playing"
        /\ UNCHANGED <<gate, owed, stranded>> /\ asr.pc = "get"
    BY <1>7 DEF TakeWork
  <2>2. armed = r /\ Listening
    BY <1>0, <2>1 DEF DucksAreWatched, Listening, NoReply, All
  <2>3. PICK i \in 1 .. Len(asrQ) :
          /\ asrQ' = Without(asrQ, i)
          /\ asrQ[i].kind = "barge_in" /\ asrQ[i].reply = r =>
               asr' = [pc |-> "confirm", item |-> asrQ[i]]
    BY <1>7, <2>2 DEF TakeWork
  <2>4. Pending(r) \/ r \in stranded
    BY <1>0, <2>1 DEF DucksAreBrief
  <2>5. CASE \/ r \in stranded
             \/ gate.active /\ gate.over = r
             \/ owed.to = "utterance" /\ owed.over = r
    BY <2>1, <2>5 DEF Pending
  <2>6. CASE \E k \in 1 .. Len(asrQ) : asrQ[k].kind = "barge_in" /\ asrQ[k].reply = r
    <3>1. PICK k \in 1 .. Len(asrQ) : asrQ[k].kind = "barge_in" /\ asrQ[k].reply = r
      BY <2>6
    <3>2. CASE k = i
      BY <2>3, <3>1, <3>2 DEF Pending
    <3>3. CASE k # i
      <4>1. \E j \in 1 .. Len(Without(asrQ, i)) : Without(asrQ, i)[j] = asrQ[k]
        BY ONLY <1>s, <2>3, <3>1, <3>3, WithoutKeeps
      <4>2. \E j \in 1 .. Len(asrQ') : asrQ'[j] = asrQ[k]
        BY <2>3, <4>1
      <4> QED BY <3>1, <4>2 DEF Pending
    <3> QED BY <3>2, <3>3
  <2> QED BY <2>1, <2>4, <2>5, <2>6 DEF Pending
<1>8. CASE Reject
  BY <1>0, <1>8 DEF Reject, DucksAreWatched
<1>9. CASE Accept
  <2>1. /\ r \in ducked /\ r \notin cancelled /\ stage[r] = "playing" /\ r # asr.item.reply
        /\ UNCHANGED <<gate, owed, stranded, asrQ>>
    BY <1>9 DEF Accept
  <2>2. Pending(r) \/ r \in stranded
    BY <1>0, <2>1 DEF DucksAreBrief
  <2> QED BY <2>1, <2>2 DEF Pending
<1> QED BY <1>1, <1>2, <1>3, <1>4, <1>5, <1>6, <1>7, <1>8, <1>9 DEF BiNext

\* A reply that goes on at the low volume has its capture under way, handed over, in the
\* queue or at the worker, or is one of the two cases nothing restores: a capture under
\* min_speech_ms and a candidate of the reply before (duck, resume_after_rejection), for
\* any number of replies and captures and any capacity of the queue.
THEOREM VolumesComeBack == BiSpec => []DucksAreBrief
<1>1. BiInit => BiDucks
  BY BiInitInv DEF BiInit, BiDucks, DucksAreWatched, DucksAreBrief
<1>2. BiDucks /\ [BiNext]_biVars => BiDucks'
  <2>1. CASE BiNext
    BY <2>1, BiNextInv, DucksWatchedStep, DucksBriefStep DEF BiDucks
  <2>2. CASE UNCHANGED biVars
    BY <2>2, BiNextInv DEF BiDucks, DucksAreWatched, DucksAreBrief, Pending, biVars
  <2> QED BY <2>1, <2>2
<1>3. BiDucks => DucksAreBrief
  BY DEF BiDucks
<1> QED BY <1>1, <1>2, <1>3, PTL DEF BiSpec

-----------------------------------------------------------------------------
(* The front desk (FrontDesk).                                                *)

FdTypes ==
  /\ FrontDeskTypeOK
  /\ runs \in [Clients -> Nat] /\ claim \in [Clients -> Nat] /\ claims \in Nat
  /\ started \in Nat /\ ended \in Nat

Text(c) == [kind |-> "text", client |-> c]

Queued(c) == \E i \in 1 .. Len(desk) : desk[i] = Text(c)
InRouter(c) == router.pc \in {"prepare", "run"} /\ router.msg = Text(c)

\* A command lies in the queue once, or is in the router's hand, or has run.
AtOnePlace ==
  \A c \in Clients :
    /\ \A i, j \in 1 .. Len(desk) : desk[i] = Text(c) /\ desk[j] = Text(c) => i = j
    /\ Queued(c) => ~InRouter(c) /\ runs[c] = 0
    /\ InRouter(c) => runs[c] = 0
    /\ runs[c] <= 1

\* A command that was never sent is nowhere, and a text that came with a sid and is
\* somewhere has claimed it.
Claimed ==
  \A c \in Clients :
    /\ client[c] = "new" => ~Queued(c) /\ ~InRouter(c) /\ runs[c] = 0
    /\ Kind[c] = "sms" /\ Sid[c] # NoSid /\ (Queued(c) \/ InRouter(c) \/ runs[c] # 0) => claim[c] > 0

\* The last SeenLimit sids claimed are those remembered, in their order, so that two
\* claims of one sid are further apart.
Remembered ==
  /\ Len(seen) <= SeenLimit
  /\ \A c \in Clients :
       /\ claim[c] <= claims
       /\ claim[c] > 0 /\ claims - claim[c] < SeenLimit =>
            /\ claims - claim[c] < Len(seen)
            /\ seen[Len(seen) - (claims - claim[c])] = Sid[c]
  /\ \A c, d \in Clients :
       c # d /\ Sid[c] = Sid[d] /\ claim[c] > 0 /\ claim[c] <= claim[d] =>
         claim[d] - claim[c] > SeenLimit

FdInv == FdTypes /\ AtOnePlace /\ Claimed /\ Remembered /\ InteractionsAreClosed

LEMMA TailItem ==
  ASSUME NEW S, NEW q \in Seq(S), q # <<>>
  PROVE  /\ Head(q) \in S /\ Head(q) = q[1] /\ 1 \in 1 .. Len(q)
         /\ Tail(q) \in Seq(S) /\ Len(Tail(q)) = Len(q) - 1
         /\ \A j \in 1 .. Len(q) - 1 : j + 1 \in 1 .. Len(q) /\ Tail(q)[j] = q[j + 1]
  OBVIOUS

LEMMA FdInitInv == FdInit => FdInv
<1> SUFFICES ASSUME FdInit PROVE FdInv
  OBVIOUS
<1>1. FdTypes
  <2>1. desk \in Seq(Messages) /\ router \in [pc : {"get"}, msg : {NoMessage}]
    BY DEF FdInit
  <2> QED BY <2>1 DEF FdInit, FdTypes, FrontDeskTypeOK
<1>2. Len(desk) = 0 /\ router.pc = "get" /\ started = ended
  BY DEF FdInit
<1>3. Remembered
  <2>1. Len(seen) = 0 /\ claims = 0 /\ \A c \in Clients : claim[c] = 0
    BY DEF FdInit
  <2> QED BY <2>1, FrontDeskAssumption DEF Remembered
<1> QED BY <1>1, <1>2, <1>3
      DEF FdInit, FdInv, AtOnePlace, Claimed, Queued, InRouter, InteractionsAreClosed

\* What claim_message_sid adds when the sid is not among those remembered.
LEMMA ClaimKeeps ==
  ASSUME FdInv, NEW c \in Clients, ~SidKnown(c), Claim(c)
  PROVE  /\ Remembered' /\ seen' \in Seq(Sids) /\ claim' \in [Clients -> Nat] /\ claims' \in Nat
         /\ \A d \in Clients : d # c => claim'[d] = claim[d]
         /\ claim'[c] >= claim[c]
         /\ Sid[c] # NoSid => claim'[c] > 0
<1>1. /\ seen \in Seq(Sids) /\ Len(seen) \in Nat /\ claims \in Nat /\ claim \in [Clients -> Nat]
      /\ SeenLimit \in Nat /\ SeenLimit > 0 /\ Sid[c] \in Sids \cup {NoSid}
  BY FrontDeskAssumption DEF FdInv, FdTypes, FrontDeskTypeOK
<1>2. CASE Sid[c] = NoSid
  BY <1>1, <1>2 DEF Claim, sids, FdInv, Remembered
<1>3. CASE Sid[c] # NoSid
  <2>1. /\ seen' = Noted(Sid[c]) /\ claims' = claims + 1
        /\ claim' \in [Clients -> Nat]
        /\ \A d \in Clients : claim'[d] = IF d = c THEN claims + 1 ELSE claim[d]
    BY <1>1, <1>3 DEF Claim
  <2>2. \A i \in 1 .. Len(seen) : seen[i] # Sid[c]
    BY <1>3 DEF SidKnown
  <2>3. /\ Len(seen) <= SeenLimit
        /\ \A d \in Clients : claim[d] \in Nat /\ claim[d] <= claims
    BY <1>1 DEF FdInv, Remembered
  <2>4. ASSUME NEW d \in Clients, Sid[d] = Sid[c], claim[d] > 0
        PROVE  claims + 1 - claim[d] > SeenLimit
    <3> SUFFICES ASSUME claims - claim[d] < SeenLimit PROVE FALSE
      BY <1>1, <2>3
    <3>1. /\ claims - claim[d] < Len(seen)
          /\ seen[Len(seen) - (claims - claim[d])] = Sid[d]
      BY <2>4 DEF FdInv, Remembered
    <3>2. Len(seen) - (claims - claim[d]) \in 1 .. Len(seen)
      BY <1>1, <2>3, <3>1
    <3> QED BY <2>2, <2>4, <3>1, <3>2
  <2>5. \A d, e \in Clients :
          d # e /\ Sid[d] = Sid[e] /\ claim'[d] > 0 /\ claim'[d] <= claim'[e] =>
            claim'[e] - claim'[d] > SeenLimit
    <3> SUFFICES ASSUME NEW d \in Clients, NEW e \in Clients, d # e, Sid[d] = Sid[e],
                        claim'[d] > 0, claim'[d] <= claim'[e]
                 PROVE  claim'[e] - claim'[d] > SeenLimit
      OBVIOUS
    <3>1. CASE e = c
      <4>1. claim'[e] = claims + 1 /\ claim'[d] = claim[d] /\ Sid[d] = Sid[c] /\ claim[d] > 0
        BY <2>1, <3>1
      <4>2. claims + 1 - claim[d] > SeenLimit
        BY <2>4, <4>1
      <4>3. claim'[e] - claim'[d] = claims + 1 - claim[d]
        BY ONLY <1>1, <4>1
      <4> QED BY ONLY <4>2, <4>3
    <3>2. CASE d = c
      BY <1>1, <2>1, <2>3, <3>2
    <3>3. CASE d # c /\ e # c
      <4>1. claim'[e] = claim[e] /\ claim'[d] = claim[d]
        BY <2>1, <3>3
      <4> QED BY <4>1 DEF FdInv, Remembered
    <3> QED BY <3>1, <3>2, <3>3
  <2>6. /\ seen' \in Seq(Sids) /\ Len(seen') \in Nat /\ Len(seen') <= SeenLimit /\ Len(seen') > 0
        /\ seen'[Len(seen')] = Sid[c]
        /\ \A k \in Nat : k < Len(seen) /\ k + 1 < SeenLimit =>
             k + 1 < Len(seen') /\ seen'[Len(seen') - (k + 1)] = seen[Len(seen) - k]
    <3>1. Sid[c] \in Sids
      BY <1>1, <1>3
    <3>2. CASE Len(seen) < SeenLimit
      <4>1. seen' = Append(seen, Sid[c])
        BY <2>1, <3>2 DEF Noted
      <4>2. /\ seen' \in Seq(Sids) /\ Len(seen') = Len(seen) + 1 /\ seen'[Len(seen) + 1] = Sid[c]
            /\ \A i \in 1 .. Len(seen) : seen'[i] = seen[i]
        BY <1>1, <3>1, <4>1
      <4>3. ASSUME NEW k \in Nat, k < Len(seen)
            PROVE  /\ k + 1 < Len(seen')
                   /\ Len(seen') - (k + 1) = Len(seen) - k /\ Len(seen) - k \in 1 .. Len(seen)
        BY <1>1, <4>2, <4>3
      <4>4. \A k \in Nat : k < Len(seen) =>
              k + 1 < Len(seen') /\ seen'[Len(seen') - (k + 1)] = seen[Len(seen) - k]
        BY <4>2, <4>3
      <4>5. Len(seen') \in Nat /\ Len(seen') <= SeenLimit /\ Len(seen') > 0
        BY <1>1, <3>2, <4>2
      <4> QED BY <4>2, <4>4, <4>5
    <3>3. CASE ~(Len(seen) < SeenLimit)
      <4>1. seen' = Append(Tail(seen), Sid[c]) /\ Len(seen) = SeenLimit /\ seen # << >>
        BY <1>1, <2>1, <2>3, <3>3 DEF Noted
      <4>2. /\ Tail(seen) \in Seq(Sids) /\ Len(Tail(seen)) = SeenLimit - 1
            /\ \A i \in 1 .. SeenLimit - 1 : Tail(seen)[i] = seen[i + 1]
        BY <1>1, <4>1, TailItem
      <4>3. /\ seen' \in Seq(Sids) /\ Len(seen') = SeenLimit /\ seen'[SeenLimit] = Sid[c]
            /\ \A i \in 1 .. SeenLimit - 1 : seen'[i] = Tail(seen)[i]
        BY <1>1, <3>1, <4>1, <4>2
      <4>4. ASSUME NEW k \in Nat, k + 1 < SeenLimit
            PROVE  k + 1 < Len(seen') /\ seen'[Len(seen') - (k + 1)] = seen[Len(seen) - k]
        <5>1. /\ SeenLimit - (k + 1) \in 1 .. SeenLimit - 1
              /\ SeenLimit - (k + 1) + 1 = SeenLimit - k
          BY <1>1, <4>4
        <5>2. seen'[SeenLimit - (k + 1)] = seen[SeenLimit - (k + 1) + 1]
          BY <4>2, <4>3, <5>1
        <5> QED BY <4>1, <4>3, <4>4, <5>1, <5>2
      <4>5. Len(seen') \in Nat /\ Len(seen') <= SeenLimit /\ Len(seen') > 0
        BY <1>1, <4>3
      <4> QED BY <4>1, <4>3, <4>4, <4>5
    <3> QED BY <3>2, <3>3
  <2>7. ASSUME NEW d \in Clients
        PROVE  /\ claim'[d] <= claims'
               /\ claim'[d] > 0 /\ claims' - claim'[d] < SeenLimit =>
                    /\ claims' - claim'[d] < Len(seen')
                    /\ seen'[Len(seen') - (claims' - claim'[d])] = Sid[d]
    <3>1. CASE d = c
      <4>1. claim'[d] = claims' /\ claims' - claim'[d] = 0 /\ Len(seen') - 0 = Len(seen')
        BY <1>1, <2>1, <2>6, <3>1
      <4> QED BY <1>1, <2>1, <2>6, <3>1, <4>1
    <3>2. CASE d # c
      <4> DEFINE k == claims - claim[d]
      <4>1. claim'[d] = claim[d] /\ claims' - claim'[d] = k + 1 /\ k \in Nat
            /\ claim'[d] <= claims'
        BY <1>1, <2>1, <2>3, <3>2
      <4>2. ASSUME claim[d] > 0, k + 1 < SeenLimit
            PROVE  k + 1 < Len(seen') /\ seen'[Len(seen') - (k + 1)] = Sid[d]
        <5>1. k < SeenLimit
          BY <1>1, <4>1, <4>2
        <5>2. k < Len(seen) /\ seen[Len(seen) - k] = Sid[d]
          BY <4>2, <5>1 DEF FdInv, Remembered
        <5> HIDE DEF k
        <5> QED BY <2>6, <4>1, <4>2, <5>2
      <4> HIDE DEF k
      <4> QED BY <4>1, <4>2
    <3> QED BY <3>1, <3>2
  <2>8. Remembered'
    BY <2>5, <2>6, <2>7 DEF Remembered
  <2>9. claim'[c] >= claim[c] /\ claim'[c] > 0 /\ claims' \in Nat
    BY <1>1, <2>1, <2>3
  <2> QED BY <2>1, <2>6, <2>8, <2>9
<1> QED BY <1>2, <1>3

\* A command that was not sent before is put on the queue.
LEMMA SendKeeps ==
  ASSUME FdInv, NEW c \in Clients, client[c] = "new",
         desk' = Append(desk, Text(c)),
         client' = [client EXCEPT ![c] = "waiting"],
         UNCHANGED <<router, runs>>, claim' \in [Clients -> Nat],
         \A d \in Clients : d # c => claim'[d] = claim[d],
         Kind[c] = "sms" /\ Sid[c] # NoSid => claim'[c] > 0
  PROVE  desk' \in Seq(Messages) /\ AtOnePlace' /\ Claimed'
<1>1. desk \in Seq(Messages) /\ Text(c) \in Messages
  BY DEF FdInv, FdTypes, FrontDeskTypeOK, Messages, Text
<1>2. /\ desk' \in Seq(Messages) /\ Len(desk') = Len(desk) + 1 /\ Len(desk) \in Nat
      /\ \A j \in 1 .. Len(desk) + 1 :
           desk'[j] = IF j = Len(desk) + 1 THEN Text(c) ELSE desk[j]
  BY <1>1, AppendItem
<1>3. ~Queued(c) /\ ~InRouter(c) /\ runs[c] = 0
  BY DEF FdInv, Claimed
<1>4. \A d \in Clients : /\ Text(d) = Text(c) => d = c
                         /\ InRouter(d)' = InRouter(d) /\ runs'[d] = runs[d]
  BY DEF Text, InRouter
<1>5. \A d \in Clients : Queued(d)' => Queued(d) \/ d = c
  BY <1>2, <1>4 DEF Queued, Text
<1>6. \A d \in Clients : \A i, j \in 1 .. Len(desk') :
        desk'[i] = Text(d) /\ desk'[j] = Text(d) => i = j
  <2> SUFFICES ASSUME NEW d \in Clients, NEW i \in 1 .. Len(desk'), NEW j \in 1 .. Len(desk'),
                      desk'[i] = Text(d), desk'[j] = Text(d)
               PROVE  i = j
    OBVIOUS
  <2>1. CASE d = c
    BY <2>1, <1>2, <1>3 DEF Queued
  <2>2. CASE d # c
    BY <2>2, <1>2, <1>4 DEF FdInv, AtOnePlace
  <2> QED BY <2>1, <2>2
<1>7. AtOnePlace'
  <2>1. \A d \in Clients : /\ Queued(d)' => ~InRouter(d)' /\ runs'[d] = 0
                           /\ InRouter(d)' => runs'[d] = 0
                           /\ runs'[d] <= 1
    BY <1>3, <1>4, <1>5 DEF FdInv, AtOnePlace
  <2> QED BY <2>1, <1>6 DEF AtOnePlace, Text
<1>8. Claimed'
  <2>1. \A d \in Clients : client'[d] = IF d = c THEN "waiting" ELSE client[d]
    BY DEF FdInv, FdTypes, FrontDeskTypeOK
  <2>2. ASSUME NEW d \in Clients
        PROVE  /\ client'[d] = "new" => ~Queued(d)' /\ ~InRouter(d)' /\ runs'[d] = 0
               /\ Kind[d] = "sms" /\ Sid[d] # NoSid /\ (Queued(d)' \/ InRouter(d)' \/ runs'[d] # 0)
                    => claim'[d] > 0
    <3>1. CASE d = c
      BY <3>1, <2>1
    <3>2. CASE d # c
      BY <3>2, <2>1, <1>4, <1>5 DEF FdInv, Claimed
    <3> QED BY <3>1, <3>2
  <2> QED BY <2>2 DEF Claimed, Queued, InRouter, Text
<1> QED BY <1>2, <1>7, <1>8

\* A message of another handler holds no command.
LEMMA OtherKeeps ==
  ASSUME FdInv, NEW m \in Messages, m.kind # "text", desk' = Append(desk, m),
         UNCHANGED <<router, client, runs, claim>>
  PROVE  desk' \in Seq(Messages) /\ AtOnePlace' /\ Claimed'
<1>1. /\ desk' \in Seq(Messages) /\ Len(desk') = Len(desk) + 1 /\ Len(desk) \in Nat
      /\ \A j \in 1 .. Len(desk) + 1 : desk'[j] = IF j = Len(desk) + 1 THEN m ELSE desk[j]
  BY AppendItem DEF FdInv, FdTypes, FrontDeskTypeOK
<1>2. \A d \in Clients : m # Text(d)
  BY DEF Text
<1>3. \A d \in Clients : \A j \in 1 .. Len(desk') :
        desk'[j] = Text(d) => j \in 1 .. Len(desk) /\ desk[j] = Text(d)
  BY <1>1, <1>2
<1>4. \A d \in Clients : (Queued(d)' => Queued(d)) /\ InRouter(d)' = InRouter(d)
  BY <1>3 DEF Queued, InRouter, Text
<1>5. AtOnePlace'
  <2>1. \A d \in Clients : \A i, j \in 1 .. Len(desk') :
          desk'[i] = Text(d) /\ desk'[j] = Text(d) => i = j
    BY <1>3 DEF FdInv, AtOnePlace
  <2>2. \A d \in Clients : /\ Queued(d)' => ~InRouter(d)' /\ runs'[d] = 0
                           /\ InRouter(d)' => runs'[d] = 0
                           /\ runs'[d] <= 1
    BY <1>4 DEF FdInv, AtOnePlace
  <2> QED BY <2>1, <2>2 DEF AtOnePlace, Text
<1>6. Claimed'
  BY <1>4 DEF FdInv, Claimed, Queued, InRouter, Text
<1> QED BY <1>1, <1>5, <1>6

\* Where the commands are does not change with the rest of the desk.
LEMMA RestKeeps ==
  ASSUME AtOnePlace, Claimed, UNCHANGED <<desk, router, runs>>,
         \A d \in Clients : client'[d] = "new" => client[d] = "new",
         \A d \in Clients : claim[d] > 0 /\ Kind[d] = "sms" => claim'[d] > 0
  PROVE  AtOnePlace' /\ Claimed'
<1>1. \A d \in Clients : (Queued(d)' <=> Queued(d)) /\ (InRouter(d)' <=> InRouter(d))
  BY DEF Queued, InRouter, Text
<1>2. AtOnePlace'
  BY <1>1 DEF AtOnePlace, Text
<1>3. Claimed'
  BY <1>1 DEF Claimed, Queued, InRouter, Text
<1> QED BY <1>2, <1>3

\* The sids remembered do not change with the rest of the desk.
LEMMA SidsKeep == ASSUME FdInv, UNCHANGED sids PROVE Remembered'
  BY DEF FdInv, Remembered, sids

\* The handlers, and what hears the reply.
LEMMA HandlersKeep ==
  ASSUME FdInv, NEW c \in Clients, Request(c) \/ Webhook(c) \/ HearReply(c) \/ Follow(c)
  PROVE  FdInv'
<1> USE DEF FdInv, FdTypes, FrontDeskTypeOK
<1>1. CASE Request(c)
  <2>1. desk' \in Seq(Messages) /\ AtOnePlace' /\ Claimed'
    BY <1>1, SendKeeps DEF Request, Send, Text, sids
  <2>2. Remembered'
    BY <1>1, SidsKeep DEF Request
  <2> QED BY <1>1, <2>1, <2>2 DEF Request, Send, sids, InteractionsAreClosed
<1>2. CASE Webhook(c)
  <2>1. /\ client[c] = "new" /\ UNCHANGED <<router, reply, runs, started, ended>>
        /\ InteractionsAreClosed'
    BY <1>2 DEF Webhook, InteractionsAreClosed
  <2>2. /\ Remembered' /\ seen' \in Seq(Sids) /\ claim' \in [Clients -> Nat] /\ claims' \in Nat
        /\ \A d \in Clients : d # c => claim'[d] = claim[d]
        /\ claim'[c] >= claim[c]
    <3>1. CASE SidKnown(c)
      BY <1>2, <3>1, SidsKeep DEF Webhook, sids
    <3>2. CASE ~SidKnown(c)
      BY <1>2, <3>2, ClaimKeeps DEF Webhook
    <3> QED BY <3>1, <3>2
  <2>3. /\ client' \in [Clients -> {"new", "waiting", "follow", "done"}]
        /\ desk' \in Seq(Messages) /\ AtOnePlace' /\ Claimed'
    <3>1. CASE SidKnown(c) \/ Kind[c] = "blank"
      <4>1. desk' = desk /\ client' = [client EXCEPT ![c] = "done"]
        BY <1>2, <3>1 DEF Webhook
      <4>2. \A d \in Clients : client'[d] = "new" => client[d] = "new"
        <5>1. \A d \in Clients : d # c => client'[d] = client[d]
          BY <4>1
        <5> QED BY <2>1, <5>1
      <4>3. \A d \in Clients : claim[d] > 0 => claim'[d] > 0
        <5>1. claim[c] \in Nat /\ claim'[c] \in Nat
          BY <2>2
        <5>2. claim[c] > 0 => claim'[c] > 0
          BY <2>2, <5>1
        <5> QED BY <2>2, <5>2
      <4>4. AtOnePlace' /\ Claimed'
        BY <2>1, <4>1, <4>2, <4>3, RestKeeps
      <4> QED BY <4>1, <4>4
    <3>2. CASE ~SidKnown(c) /\ Kind[c] # "blank"
      <4>1. Send(c) /\ Claim(c)
        BY <1>2, <3>2 DEF Webhook
      <4>2. Sid[c] # NoSid => claim'[c] > 0
        BY <3>2, <4>1, ClaimKeeps
      <4>3. desk' = Append(desk, Text(c)) /\ client' = [client EXCEPT ![c] = "waiting"]
        BY <4>1 DEF Send, Text
      <4> QED BY <2>1, <2>2, <4>2, <4>3, SendKeeps
    <3> QED BY <3>1, <3>2
  <2> QED BY <2>1, <2>2, <2>3
<1>4. CASE HearReply(c) \/ Follow(c)
  <2>1. /\ UNCHANGED <<desk, router, runs, sids, started, ended>>
        /\ client' \in [Clients -> {"new", "waiting", "follow", "done"}]
        /\ \A d \in Clients : client'[d] = "new" => client[d] = "new"
        /\ reply' \in [Clients -> {"none", "answer", "error", "job"}]
    <3>1. CASE HearReply(c)
      <4>3. \/ reply' = [reply EXCEPT ![c] = "none"] \/ reply' = reply
        BY <3>1 DEF HearReply
      <4>4. client[c] # "new" /\ \E k \in {"follow", "done"} : client' = [client EXCEPT ![c] = k]
        BY <3>1 DEF HearReply
      <4> QED BY <3>1, <4>3, <4>4 DEF HearReply
    <3>2. CASE Follow(c)
      BY <3>2 DEF Follow
    <3> QED BY <1>4, <3>1, <3>2
  <2>2. AtOnePlace' /\ Claimed' /\ Remembered'
    BY <2>1, RestKeeps, SidsKeep DEF sids
  <2> QED BY <2>1, <2>2 DEF InteractionsAreClosed, sids
<1> QED BY <1>1, <1>2, <1>4

LEMMA OthersKeep == ASSUME FdInv, NEW kind \in {"event", "ui"}, Other(kind) PROVE FdInv'
<1> DEFINE m == [kind |-> kind, client |-> NoClient]
<1>1. m \in Messages /\ m.kind # "text"
  BY DEF Messages
<1>2. desk' \in Seq(Messages) /\ AtOnePlace' /\ Claimed'
  BY <1>1, OtherKeeps DEF Other, sids
<1>3. Remembered'
  BY SidsKeep DEF Other
<1> QED BY <1>2, <1>3 DEF Other, sids, FdInv, FdTypes, FrontDeskTypeOK, InteractionsAreClosed

\* The router takes the oldest message: a command it takes has left the queue.
LEMMA RouterGetKeeps == ASSUME FdInv, RouterGet PROVE FdInv'
<1> USE DEF FdInv, FdTypes, FrontDeskTypeOK
<1>1. /\ Head(desk) \in Messages /\ Head(desk) = desk[1] /\ 1 \in 1 .. Len(desk)
      /\ desk' \in Seq(Messages) /\ Len(desk') = Len(desk) - 1 /\ Len(desk) \in Nat
      /\ \A j \in 1 .. Len(desk) - 1 : j + 1 \in 1 .. Len(desk) /\ desk'[j] = desk[j + 1]
  BY TailItem DEF RouterGet
<1>2. /\ router.pc = "get" /\ UNCHANGED <<client, reply, runs, sids, started, ended>>
      /\ \/ router' = router
         \/ router' = [pc |-> "prepare", msg |-> desk[1]]
  BY <1>1 DEF RouterGet
<1>3. router' \in [pc : {"get", "prepare", "run", "dead"}, msg : Messages \cup {NoMessage}]
  BY <1>1, <1>2
<1>4. \A c \in Clients : /\ Queued(c)' => Queued(c)
                         /\ InRouter(c)' => desk[1] = Text(c)
  BY <1>1, <1>2 DEF Queued, InRouter, Text
<1>5. \A c \in Clients : Queued(c)' => desk[1] # Text(c)
  <2> SUFFICES ASSUME NEW c \in Clients, NEW j \in 1 .. Len(desk'), desk'[j] = Text(c),
                      desk[1] = Text(c)
               PROVE  FALSE
    BY DEF Queued, Text
  <2>1. j + 1 \in 1 .. Len(desk) /\ desk[j + 1] = Text(c) /\ j + 1 # 1
    BY <1>1
  <2> QED BY <2>1, <1>1 DEF AtOnePlace
<1>6. \A c \in Clients : desk[1] = Text(c) => Queued(c)
  BY <1>1 DEF Queued
<1>7. AtOnePlace'
  <2>1. \A c \in Clients : \A i, j \in 1 .. Len(desk') :
          desk'[i] = Text(c) /\ desk'[j] = Text(c) => i = j
    <3> SUFFICES ASSUME NEW c \in Clients, NEW i \in 1 .. Len(desk'), NEW j \in 1 .. Len(desk'),
                        desk'[i] = Text(c), desk'[j] = Text(c)
                 PROVE  i = j
      OBVIOUS
    <3>1. /\ i + 1 \in 1 .. Len(desk) /\ j + 1 \in 1 .. Len(desk)
          /\ desk[i + 1] = Text(c) /\ desk[j + 1] = Text(c)
      BY <1>1
    <3>2. i + 1 = j + 1
      BY <3>1 DEF AtOnePlace
    <3> QED BY <3>2, <1>1
  <2>2. \A c \in Clients : /\ Queued(c)' => ~InRouter(c)' /\ runs'[c] = 0
                           /\ InRouter(c)' => runs'[c] = 0
                           /\ runs'[c] <= 1
    BY <1>2, <1>4, <1>5, <1>6 DEF AtOnePlace
  <2> QED BY <2>1, <2>2 DEF AtOnePlace, Text
<1>8. Claimed'
  BY <1>2, <1>4, <1>6 DEF Claimed, Queued, InRouter, Text, sids
<1>9. InteractionsAreClosed' /\ Remembered'
  BY <1>2, SidsKeep DEF InteractionsAreClosed
<1> QED BY <1>1, <1>2, <1>3, <1>7, <1>8, <1>9 DEF sids

LEMMA RouterWorks ==
  ASSUME FdInv, Prepare \/ RunText \/ RunEvent
  PROVE  FdInv'
<1> USE DEF FdInv, FdTypes, FrontDeskTypeOK
<1>1. CASE Prepare
  <2>1. /\ router.pc = "prepare" /\ router'.msg = router.msg /\ router'.pc \in {"run", "dead"}
        /\ router' \in [pc : {"get", "prepare", "run", "dead"}, msg : Messages \cup {NoMessage}]
        /\ UNCHANGED <<desk, client, reply, runs, sids, ended>>
        /\ started' \in Nat
    <3>1. \/ router' = [router EXCEPT !.pc = "run"] \/ router' = [router EXCEPT !.pc = "dead"]
      BY <1>1 DEF Prepare
    <3>2. started' \in {started, started + 1}
      <4>1. CASE started' = started + (IF router.msg.kind = "text" THEN 1 ELSE 0)
        BY <4>1
      <4>2. CASE started' = started
        BY <4>2
      <4>3. started' = started + (IF router.msg.kind = "text" THEN 1 ELSE 0) \/ started' = started
        BY ONLY <1>1, Zenon DEF Prepare
      <4> QED BY <4>1, <4>2, <4>3
    <3>3. router.pc = "prepare" /\ router' \in [pc : {"run", "dead"}, msg : {router.msg}]
      BY <1>1, <3>1 DEF Prepare
    <3>4. UNCHANGED <<desk, client, reply, runs, sids, ended>>
      BY <1>1 DEF Prepare
    <3>5. started' \in Nat
      BY <3>2
    <3>6. router' \in [pc : {"get", "prepare", "run", "dead"}, msg : Messages \cup {NoMessage}]
      BY <3>3
    <3> QED BY <3>3, <3>4, <3>5, <3>6
  <2>2. \A c \in Clients : (InRouter(c)' => InRouter(c)) /\ Queued(c)' = Queued(c)
    BY <2>1 DEF InRouter, Queued, Text
  <2>3. AtOnePlace' /\ Claimed' /\ Remembered'
    BY <2>1, <2>2, SidsKeep DEF AtOnePlace, Claimed, Text, sids
  <2>4. InteractionsAreClosed'
    <3>1. CASE /\ router' = [router EXCEPT !.pc = "run"]
               /\ started' = started + (IF router.msg.kind = "text" THEN 1 ELSE 0)
      BY <2>1, <3>1 DEF InteractionsAreClosed
    <3>2. CASE router' = [router EXCEPT !.pc = "dead"] /\ started' = started
      BY <2>1, <3>2 DEF InteractionsAreClosed
    <3> QED BY <1>1, <3>1, <3>2 DEF Prepare
  <2> QED BY <2>1, <2>3, <2>4 DEF sids
<1>2. CASE RunText
  <2> DEFINE c == router.msg.client
  <2>1. c \in Clients /\ router.msg = Text(c) /\ router.pc = "run"
    BY <1>2 DEF RunText, Messages, NoMessage, Text
  <2>2. /\ router' = [router EXCEPT !.pc = "get"] /\ runs' = [runs EXCEPT ![c] = @ + 1]
        /\ UNCHANGED <<desk, client, sids, started>> /\ ended' = ended + 1
        /\ reply' \in [Clients -> {"none", "answer", "error", "job"}]
    BY <1>2, <2>1 DEF RunText
  <2>3. InRouter(c)
    BY <2>1 DEF InRouter
  <2>4. runs[c] = 0 /\ ~Queued(c) /\ client[c] # "new"
    BY <2>1, <2>3 DEF AtOnePlace, Claimed
  <2> HIDE DEF c
  <2>5. \A d \in Clients : /\ ~InRouter(d)' /\ Queued(d)' = Queued(d)
                           /\ runs'[d] = IF d = c THEN 1 ELSE runs[d]
    BY <2>2, <2>4, <2>1 DEF InRouter, Queued, Text
  <2>6. AtOnePlace' /\ Claimed' /\ Remembered'
    BY <2>1, <2>2, <2>3, <2>4, <2>5, SidsKeep DEF AtOnePlace, Claimed, Text, sids
  <2>7. InteractionsAreClosed'
    BY <1>2 DEF RunText, InteractionsAreClosed
  <2>8. runs' \in [Clients -> Nat]
    <3>1. runs \in [Clients -> Nat] /\ runs' = [runs EXCEPT ![c] = runs[c] + 1]
      BY <2>2
    <3> HIDE DEF FdInv
    <3> QED BY <3>1, <2>1
  <2>10. router' \in [pc : {"get", "prepare", "run", "dead"}, msg : Messages \cup {NoMessage}]
    BY <2>2
  <2>9. ended' \in Nat
    BY <2>2
  <2> QED BY <2>2, <2>6, <2>7, <2>8, <2>9, <2>10 DEF sids
<1>3. CASE RunEvent
  <2>1. /\ router.msg.kind = "event" /\ router'.msg = router.msg
        /\ router' \in [pc : {"get", "prepare", "run", "dead"}, msg : Messages \cup {NoMessage}]
        /\ UNCHANGED <<desk, client, reply, runs, sids, started, ended>>
    BY <1>3 DEF RunEvent
  <2>2. \A c \in Clients : ~InRouter(c)' /\ Queued(c)' = Queued(c)
    BY <2>1 DEF InRouter, Queued, Text
  <2>3. AtOnePlace' /\ Claimed' /\ Remembered'
    BY <2>1, <2>2, SidsKeep DEF AtOnePlace, Claimed, Text, sids
  <2>4. InteractionsAreClosed'
    BY <1>3 DEF RunEvent, InteractionsAreClosed
  <2> QED BY <2>1, <2>3, <2>4 DEF sids
<1> QED BY <1>1, <1>2, <1>3

LEMMA DeskStutters == ASSUME FdInv, UNCHANGED fdVars PROVE FdInv'
<1>1. UNCHANGED <<desk, router, client, reply, runs, seen, claim, claims, started, ended>>
  BY DEF fdVars, sids
<1> QED BY <1>1 DEF FdInv, FdTypes, FrontDeskTypeOK, AtOnePlace, Claimed, Queued, InRouter, Text,
                    Remembered, InteractionsAreClosed

\* The inductive invariant of the front desk.
THEOREM FrontDeskInvariant == FdSpec => []FdInv
<1>1. FdInit => FdInv
  BY FdInitInv
<1>2. FdInv /\ [FdNext]_fdVars => FdInv'
  BY HandlersKeep, OthersKeep, RouterGetKeeps, RouterWorks, DeskStutters DEF FdNext, RouterStep
<1> QED BY <1>1, <1>2, PTL DEF FdSpec

\* A delivery runs at most once; two deliveries of one text message have both run only
\* if SeenLimit other sids or more were claimed in between; and every interaction that
\* began is ended (butler/sms/server.py, _seen_sids; butler/router.py,
\* the finally clause of the text branch).
THEOREM CommandsOnce == FdSpec => []CommandsRunOnce
<1>1. FdInv => CommandsRunOnce
  BY DEF FdInv, AtOnePlace, Claimed, Remembered, CommandsRunOnce, SameText
<1> QED BY <1>1, FrontDeskInvariant, PTL

\* The variables of the front desk keep their types.
THEOREM FrontDeskTypes == FdSpec => []FrontDeskTypeOK
<1>1. FdInv => FrontDeskTypeOK
  BY DEF FdInv, FdTypes
<1> QED BY <1>1, FrontDeskInvariant, PTL

-----------------------------------------------------------------------------
(* Sleep mode (Nightfall).                                                    *)

Places == {"backend", "queued", "router", "speaking", "done", "suppressed"}
News == [kind : Kinds, raced : BOOLEAN, at : Places]

NfTypes == NightfallTypeOK /\ queued \in Seq(Announcements) /\ issued \in Nat

\* What the flag has to do with an announcement on its way: the one that is spoken was
\* let through awake, and the morning briefing in the router's hand has woken the house
\* -- or the flag changed since; and what became of it in the end.
Hushed(a) ==
  /\ news[a].at = "speaking" => news[a].kind = "critical" \/ news[a].raced \/ ~asleep
  /\ news[a].at = "router" /\ news[a].kind = "morning" =>
       news[a].raced \/ (~asleep /\ ~cache["main"])
  /\ spoken[a] = "asleep" => news[a].kind = "critical" \/ news[a].raced
  /\ news[a].at = "done" /\ spoken[a] = "no" =>
       news[a].kind = "routine" \/ (news[a].kind = "morning" /\ news[a].raced)

NfInv == NfTypes /\ \A a \in Announcements : Hushed(a)

LEMMA NfInitInv == NfInit => NfInv
<1> SUFFICES ASSUME NfInit PROVE NfInv
  OBVIOUS
<1>1. news \in [Announcements -> News] /\ queued \in Seq(Announcements)
  <2>1. queued \in Seq(Announcements)
    BY DEF NfInit
  <2>2. \A a \in Announcements : news[a] \in News
    <3> SUFFICES ASSUME NEW a \in Announcements PROVE news[a] \in News
      OBVIOUS
    <3>1. news[a] \in [kind : Kinds, at : {"backend"}, raced : {FALSE}]
      BY DEF NfInit
    <3> QED BY <3>1 DEF News, Places
  <2>3. news = [a \in Announcements |-> news[a]]
    BY DEF NfInit
  <2> QED BY <2>1, <2>2, <2>3
<1>2. NfTypes
  BY <1>1, NightfallAssumption
     DEF NfInit, NfTypes, NightfallTypeOK, News, Places, NightfallAssumption
<1>3. \A a \in Announcements : news[a].at = "backend" /\ spoken[a] = "no"
  BY DEF NfInit
<1> QED BY <1>2, <1>3 DEF NfInv, Hushed

LEMMA MarkIs ==
  ASSUME NEW n \in News, NEW m, m = [n EXCEPT !.raced = TRUE]
  PROVE  m \in News /\ m.kind = n.kind /\ m.at = n.at /\ m.raced
BY DEF News

\* A change of the flag marks what the router has in hand, and nothing else.
LEMMA RaceAllMarks ==
  ASSUME NfTypes, NEW v \in BOOLEAN
  PROVE  /\ RaceAll(v) \in [Announcements -> News]
         /\ \A a \in Announcements :
              /\ RaceAll(v)[a].kind = news[a].kind /\ RaceAll(v)[a].at = news[a].at
              /\ news[a].raced => RaceAll(v)[a].raced
              /\ news[a].at \in {"router", "speaking"} /\ asleep # v => RaceAll(v)[a].raced
<1>1. news \in [Announcements -> News]
  BY DEF NfTypes, NightfallTypeOK, News, Places
<1>2. \A a \in Announcements :
        RaceAll(v)[a] = IF news[a].at \in {"router", "speaking"} /\ asleep # v
                          THEN [news[a] EXCEPT !.raced = TRUE] ELSE news[a]
  BY DEF RaceAll, InHand
<1>3. ASSUME NEW a \in Announcements
      PROVE  /\ RaceAll(v)[a] \in News
             /\ RaceAll(v)[a].kind = news[a].kind /\ RaceAll(v)[a].at = news[a].at
             /\ news[a].raced => RaceAll(v)[a].raced
             /\ news[a].at \in {"router", "speaking"} /\ asleep # v => RaceAll(v)[a].raced
  <2>1. CASE news[a].at \in {"router", "speaking"} /\ asleep # v
    <3> DEFINE n == news[a]
               m == [news[a] EXCEPT !.raced = TRUE]
    <3>1. m \in News /\ m.kind = n.kind /\ m.at = n.at /\ m.raced
      BY <1>1, MarkIs
    <3>2. RaceAll(v)[a] = m
      BY <1>2, <2>1
    <3> QED BY <3>1, <3>2
  <2>2. CASE ~(news[a].at \in {"router", "speaking"} /\ asleep # v)
    <3>1. RaceAll(v)[a] = news[a]
      BY <1>2, <2>2
    <3> QED BY <1>1, <2>2, <3>1
  <2> QED BY <2>1, <2>2
<1>4. RaceAll(v) \in [Announcements -> News]
  BY <1>3 DEF RaceAll
<1> QED BY <1>3, <1>4

LEMMA CommandTypes ==
  ASSUME NfTypes, NEW dark \in BOOLEAN, Command(dark)
  PROVE  commands' \subseteq (1 .. issued') \X BOOLEAN /\ issued' \in Nat
BY DEF Command, NfTypes, NightfallTypeOK

\* After a write of the flag everything is as it should be.
LEMMA FlagKeeps ==
  ASSUME NfInv, NEW p \in Procs, NEW v \in BOOLEAN, Set(p, v), news' = RaceAll(v),
         UNCHANGED spoken
  PROVE  /\ asleep' \in BOOLEAN /\ cache' \in [Procs -> BOOLEAN]
         /\ commands' \subseteq (1 .. issued') \X BOOLEAN /\ issued' \in Nat
         /\ news' \in [Announcements -> News]
         /\ \A a \in Announcements : Hushed(a)'
<1>1. /\ asleep' = v /\ asleep \in BOOLEAN /\ cache \in [Procs -> BOOLEAN]
      /\ cache' = [cache EXCEPT ![p] = v] /\ "main" \in Procs
  BY DEF Set, NfInv, NfTypes, NightfallTypeOK, Procs
<1>2. commands' \subseteq (1 .. issued') \X BOOLEAN /\ issued' \in Nat
  BY CommandTypes DEF Set, NfInv
<1>3. /\ news' \in [Announcements -> News]
      /\ \A a \in Announcements :
           /\ news'[a].kind = news[a].kind /\ news'[a].at = news[a].at
           /\ news[a].raced => news'[a].raced
           /\ news[a].at \in {"router", "speaking"} /\ asleep # v => news'[a].raced
  BY RaceAllMarks DEF NfInv
<1>4. asleep = v => asleep' = asleep /\ (~asleep /\ ~cache["main"] => ~cache'["main"])
  BY <1>1
<1>5. \A a \in Announcements : Hushed(a)'
  BY <1>1, <1>3, <1>4 DEF NfInv, Hushed
<1> QED BY <1>1, <1>2, <1>3, <1>5

\* The processes, the television, the turns and the jobs.
LEMMA FlagsKeep ==
  ASSUME NfInv,
         \/ \E p \in Procs : Refresh(p)
         \/ \E c \in commands : Deliver(c)
         \/ \E u \in Users : HearPhrase(u) \/ ApplyPhrase(u)
         \/ \E v \in BOOLEAN : ToolSets(v) \/ ScheduledJob(v)
         \/ UNCHANGED nfVars
  PROVE  NfInv'
<1> USE DEF NfTypes, NightfallTypeOK
<1>1. CASE \E p \in Procs : Refresh(p)
  <2>1. PICK p \in Procs : Refresh(p)
    BY <1>1
  <2>2. /\ UNCHANGED <<asleep, display, commands, issued, lost, turns, news, queued, spoken>>
        /\ cache' = [cache EXCEPT ![p] = asleep] /\ "main" \in Procs
    BY <2>1 DEF Refresh, Procs
  <2>3. cache' \in [Procs -> BOOLEAN] /\ (~asleep /\ ~cache["main"] => ~cache'["main"])
    BY <2>2 DEF NfInv
  <2> QED BY <2>2, <2>3 DEF NfInv, Hushed
<1>2. CASE \E c \in commands : Deliver(c)
  <2>1. PICK c \in commands : Deliver(c)
    BY <1>2
  <2>2. /\ UNCHANGED <<asleep, cache, issued, turns, news, queued, spoken>>
        /\ commands' \subseteq commands /\ c \in (1 .. issued) \X BOOLEAN
    BY <2>1 DEF Deliver, NfInv
  <2>3. display' \in BOOLEAN /\ lost' \in BOOLEAN
    BY <2>1, <2>2 DEF Deliver, NfInv
  <2> QED BY <2>2, <2>3 DEF NfInv, Hushed
<1>3. CASE \E u \in Users : HearPhrase(u) \/ ApplyPhrase(u)
  <2>1. PICK u \in Users : HearPhrase(u) \/ ApplyPhrase(u)
    BY <1>3
  <2>2. turns' \in [Users -> [pc : {"new", "apply", "done"}, intent : BOOLEAN]]
        /\ turns[u].intent \in BOOLEAN
    BY <2>1 DEF HearPhrase, ApplyPhrase, NfInv
  <2>3. CASE UNCHANGED <<asleep, cache, display, commands, issued, lost, news, queued, spoken>>
    BY <2>2, <2>3 DEF NfInv, Hushed
  <2>4. CASE /\ Set("main", turns[u].intent) /\ news' = RaceAll(turns[u].intent)
             /\ UNCHANGED <<display, lost, queued, spoken>>
    BY <2>2, <2>4, FlagKeeps DEF NfInv, Procs, News, Places
  <2> QED BY <2>1, <2>3, <2>4 DEF HearPhrase, ApplyPhrase, SetFails
<1>4. CASE \E v \in BOOLEAN : ToolSets(v) \/ ScheduledJob(v)
  <2>1. PICK v \in BOOLEAN : ToolSets(v) \/ ScheduledJob(v)
    BY <1>4
  <2>2. UNCHANGED <<display, turns, queued, spoken>> /\ lost' \in BOOLEAN
    BY <2>1 DEF ToolSets, ScheduledJob, NfInv
  <2>3. CASE \E p \in Procs : Set(p, v) /\ news' = RaceAll(v)
    <3>1. PICK p \in Procs : Set(p, v) /\ news' = RaceAll(v)
      BY <2>3
    <3> QED BY <2>2, <3>1, FlagKeeps DEF NfInv, News, Places
  <2>4. CASE Command(v) /\ UNCHANGED <<asleep, cache, news>>
    <3>1. commands' \subseteq (1 .. issued') \X BOOLEAN /\ issued' \in Nat
      BY <2>4, CommandTypes DEF NfInv
    <3> QED BY <2>2, <2>4, <3>1 DEF NfInv, Hushed
  <2> QED BY <2>1, <2>3, <2>4 DEF ToolSets, ScheduledJob, Procs
<1>5. CASE UNCHANGED nfVars
  BY <1>5 DEF nfVars, NfInv, Hushed
<1> QED BY <1>1, <1>2, <1>3, <1>4, <1>5

LEMMA MoveIs ==
  ASSUME NEW n \in News, NEW m, NEW at \in Places, m = [n EXCEPT !.at = at]
  PROVE  m \in News /\ m.kind = n.kind /\ m.at = at /\ m.raced = n.raced
BY DEF News

\* The morning briefing clears the flag on its way into the queue or to the router.
LEMMA WakeKeeps ==
  ASSUME NfInv, NEW a \in Announcements, NEW at \in {"queued", "router"},
         Set("main", FALSE), news' = [RaceAll(FALSE) EXCEPT ![a].at = at],
         queued' \in Seq(Announcements), UNCHANGED <<display, lost, turns, spoken>>
  PROVE  NfInv'
<1> DEFINE f == RaceAll(FALSE)
<1>1. /\ f \in [Announcements -> News]
      /\ \A b \in Announcements :
           /\ f[b].kind = news[b].kind /\ f[b].at = news[b].at
           /\ news[b].raced => f[b].raced
  BY RaceAllMarks DEF NfInv
<1>2. /\ news' \in [Announcements -> News]
      /\ news'[a].at = at /\ news'[a].kind = f[a].kind /\ news'[a].raced = f[a].raced
      /\ \A b \in Announcements : b # a => news'[b] = f[b]
  <2> DEFINE n == [f[a] EXCEPT !.at = at]
  <2>1. news' = [f EXCEPT ![a] = n]
    OBVIOUS
  <2> HIDE DEF f
  <2>2. n \in News /\ n.kind = f[a].kind /\ n.at = at /\ n.raced = f[a].raced
    BY <1>1, MoveIs DEF Places
  <2> HIDE DEF n
  <2> QED BY <1>1, <2>1, <2>2
<1> HIDE DEF f
<1>3. /\ asleep' = FALSE /\ cache \in [Procs -> BOOLEAN]
      /\ cache' = [cache EXCEPT !["main"] = FALSE] /\ "main" \in Procs
  BY DEF Set, NfInv, NfTypes, NightfallTypeOK, Procs
<1>4. cache' \in [Procs -> BOOLEAN] /\ cache'["main"] = FALSE
  BY <1>3
<1>5. commands' \subseteq (1 .. issued') \X BOOLEAN /\ issued' \in Nat
  BY CommandTypes DEF Set, NfInv
<1>6. \A b \in Announcements : Hushed(b)'
  <2> SUFFICES ASSUME NEW b \in Announcements PROVE Hushed(b)'
    OBVIOUS
  <2>1. Hushed(b) /\ asleep' = FALSE /\ cache'["main"] = FALSE /\ spoken' = spoken
    BY <1>3, <1>4 DEF NfInv
  <2>2. news'[b].kind = news[b].kind /\ (news[b].raced => news'[b].raced)
    BY <1>1, <1>2
  <2>3. news'[b].at = at \/ news'[b].at = news[b].at
    BY <1>1, <1>2
  <2> QED BY <2>1, <2>2, <2>3 DEF Hushed
<1> QED BY <1>2, <1>3, <1>4, <1>5, <1>6 DEF NfInv, NfTypes, NightfallTypeOK, News, Places

\* An announcement moves on without a word to the flag.
LEMMA MoveKeeps ==
  ASSUME NfInv, NEW a \in Announcements, NEW n \in News, news' = [news EXCEPT ![a] = n],
         n.kind = news[a].kind, news[a].raced => n.raced, queued' \in Seq(Announcements),
         n.at \in {"queued", "suppressed"} \/ (n.at = "router" /\ (n.kind = "morning" => n.raced)),
         UNCHANGED <<asleep, cache, display, commands, issued, lost, turns, spoken>>
  PROVE  NfInv'
<1>1. /\ news' \in [Announcements -> News] /\ news'[a] = n
      /\ \A b \in Announcements : b # a => news'[b] = news[b]
  BY DEF NfInv, NfTypes, NightfallTypeOK, News, Places
<1>2. \A b \in Announcements : Hushed(b)'
  BY <1>1 DEF NfInv, Hushed
<1> QED BY <1>1, <1>2 DEF NfInv, NfTypes, NightfallTypeOK, News, Places

LEMMA AnnounceKeeps == ASSUME NfInv, NEW a \in Announcements, Announce(a) PROVE NfInv'
<1>1. UNCHANGED <<display, lost, turns, spoken>> /\ queued' \in Seq(Announcements)
      /\ news \in [Announcements -> News]
  <2>1. queued \in Seq(Announcements) /\ news \in [Announcements -> News]
    BY DEF NfInv, NfTypes, NightfallTypeOK, News, Places
  <2>2. queued' \in {queued, Append(queued, a)} /\ UNCHANGED <<display, lost, turns, spoken>>
    BY DEF Announce
  <2> QED BY <2>1, <2>2, AppendItem
<1>2. CASE Set("main", FALSE) /\ news' = [RaceAll(FALSE) EXCEPT ![a].at = "queued"]
  BY <1>1, <1>2, WakeKeeps
<1>3. CASE /\ \E at \in {"queued", "suppressed"} : Move(a, at)
           /\ UNCHANGED <<asleep, cache, commands, issued>>
  <2>1. PICK at \in {"queued", "suppressed"} : news' = [news EXCEPT ![a].at = at]
    BY <1>3 DEF Move
  <2> DEFINE n == [news[a] EXCEPT !.at = at]
  <2>2. n \in News /\ n.kind = news[a].kind /\ n.raced = news[a].raced /\ n.at = at
    BY <1>1 DEF News, Places
  <2>3. news' = [news EXCEPT ![a] = n]
    BY <2>1
  <2> HIDE DEF n
  <2> QED BY <1>1, <1>3, <2>2, <2>3, MoveKeeps
<1> QED BY <1>2, <1>3 DEF Announce

LEMMA RouterTakesKeeps == ASSUME NfInv, RouterTakes PROVE NfInv'
<1> DEFINE a == Head(queued)
<1>1. /\ a \in Announcements /\ queued' \in Seq(Announcements)
      /\ UNCHANGED <<display, lost, turns, spoken>> /\ news \in [Announcements -> News]
  BY TailItem DEF RouterTakes, NfInv, NfTypes, NightfallTypeOK, News, Places
<1>2. CASE Set("main", FALSE) /\ news' = [RaceAll(FALSE) EXCEPT ![a].at = "router"]
  BY <1>1, <1>2, WakeKeeps
<1>3. CASE SetFails /\ news' = [news EXCEPT ![a].at = "router", ![a].raced = TRUE]
  <2> DEFINE n == [news[a] EXCEPT !.at = "router", !.raced = TRUE]
  <2>1. n \in News /\ n.kind = news[a].kind /\ n.raced /\ n.at = "router"
    BY <1>1 DEF News, Places
  <2>2. news' = [news EXCEPT ![a] = n]
    BY <1>1, <1>3
  <2>3. UNCHANGED <<asleep, cache, commands, issued>>
    BY <1>3 DEF SetFails
  <2> HIDE DEF n, a
  <2> QED BY <1>1, <2>1, <2>2, <2>3, MoveKeeps
<1>4. CASE news[a].kind # "morning" /\ Move(a, "router")
           /\ UNCHANGED <<asleep, cache, commands, issued>>
  <2> DEFINE n == [news[a] EXCEPT !.at = "router"]
  <2>1. n \in News /\ n.kind = news[a].kind /\ n.raced = news[a].raced /\ n.at = "router"
    BY <1>1 DEF News, Places
  <2>2. news' = [news EXCEPT ![a] = n]
    BY <1>4 DEF Move
  <2> HIDE DEF n, a
  <2> QED BY <1>1, <1>4, <2>1, <2>2, MoveKeeps
<1> QED BY <1>2, <1>3, <1>4 DEF RouterTakes

\* The gate: awake or critical goes on, and only a flag that just changed misleads it.
LEMMA RouterGatesKeeps == ASSUME NfInv, NEW a \in Announcements, RouterGates(a) PROVE NfInv'
<1> DEFINE n == news'[a]
           stale == cache["main"] # asleep
           at == IF ShouldSpeak(a) THEN "speaking" ELSE "done"
<1>1. /\ UNCHANGED <<asleep, cache, display, commands, issued, lost, turns, queued, spoken>>
      /\ news[a].at = "router" /\ news \in [Announcements -> News]
      /\ news' = [news EXCEPT ![a].at = at, ![a].raced = @ \/ stale]
  BY DEF RouterGates, Gate, NfInv, NfTypes, NightfallTypeOK, News, Places
<1>2. n = [news[a] EXCEPT !.at = at, !.raced = news[a].raced \/ stale]
  BY <1>1
<1>3. /\ n \in News /\ n.kind = news[a].kind /\ n.at = at
      /\ n.raced = (news[a].raced \/ stale)
  BY <1>1, <1>2 DEF News, Places
<1>4. /\ news' \in [Announcements -> News]
      /\ \A b \in Announcements : b # a => news'[b] = news[b]
  BY <1>1, <1>3
<1>5. Hushed(a)'
  <2>1. asleep \in BOOLEAN /\ cache["main"] \in BOOLEAN /\ Hushed(a) /\ news[a].kind \in Kinds
    BY <1>1 DEF NfInv, NfTypes, NightfallTypeOK, Procs, News, Places
  <2>2. CASE ShouldSpeak(a)
    <3>1. n.at = "speaking" /\ (news[a].kind = "critical" \/ ~cache["main"])
      BY <1>3, <2>2 DEF ShouldSpeak
    <3>2. asleep /\ ~cache["main"] => n.raced
      BY <1>3
    <3> HIDE DEF n
    <3> QED BY <1>1, <1>3, <2>1, <3>1, <3>2 DEF Hushed, n
  <2>3. CASE ~ShouldSpeak(a)
    <3>1. n.at = "done" /\ news[a].kind # "critical" /\ cache["main"]
      BY <1>3, <2>3 DEF ShouldSpeak
    <3>2. news[a].kind = "morning" => n.raced
      <4>1. news[a].kind = "morning" => news[a].raced
        BY <1>1, <2>1, <3>1 DEF Hushed
      <4> QED BY <4>1, <1>3
    <3>3. news[a].kind \in {"routine", "morning"}
      BY <2>1, <3>1 DEF Kinds
    <3> HIDE DEF n
    <3> QED BY <1>1, <1>3, <2>1, <3>1, <3>2, <3>3 DEF Hushed, n
  <2> QED BY <2>2, <2>3
<1>6. \A b \in Announcements : Hushed(b)'
  BY <1>1, <1>4, <1>5 DEF NfInv, Hushed
<1> QED BY <1>1, <1>4, <1>6 DEF NfInv, NfTypes, NightfallTypeOK, News, Places

LEMMA SpeakNewsKeeps == ASSUME NfInv, NEW a \in Announcements, SpeakNews(a) PROVE NfInv'
<1>1. /\ UNCHANGED <<asleep, cache, display, commands, issued, lost, turns, queued>>
      /\ news[a].at = "speaking" /\ news \in [Announcements -> News]
      /\ news' = [news EXCEPT ![a].at = "done"]
      /\ spoken' = [spoken EXCEPT ![a] = IF asleep THEN "asleep" ELSE "awake"]
      /\ spoken \in [Announcements -> {"no", "awake", "asleep"}]
  BY DEF SpeakNews, NfInv, NfTypes, NightfallTypeOK, News, Places
<1>2. /\ news' \in [Announcements -> News]
      /\ news'[a].at = "done" /\ news'[a].kind = news[a].kind /\ news'[a].raced = news[a].raced
      /\ \A b \in Announcements : b # a => news'[b] = news[b]
  <2> DEFINE n == [news[a] EXCEPT !.at = "done"]
  <2>1. news' = [news EXCEPT ![a] = n]
    BY <1>1
  <2>2. n \in News /\ n.kind = news[a].kind /\ n.at = "done" /\ n.raced = news[a].raced
    BY <1>1, MoveIs DEF Places
  <2> HIDE DEF n
  <2> QED BY <1>1, <2>1, <2>2
<1>3. /\ spoken' \in [Announcements -> {"no", "awake", "asleep"}]
      /\ spoken'[a] = IF asleep THEN "asleep" ELSE "awake"
      /\ \A b \in Announcements : b # a => spoken'[b] = spoken[b]
  BY <1>1
<1>4. Hushed(a)'
  BY <1>1, <1>2, <1>3 DEF NfInv, Hushed
<1>5. \A b \in Announcements : Hushed(b)'
  BY <1>1, <1>2, <1>3, <1>4 DEF NfInv, Hushed
<1> QED BY <1>1, <1>2, <1>3, <1>5 DEF NfInv, NfTypes, NightfallTypeOK, News, Places

\* The inductive invariant of sleep mode.
THEOREM NightfallInvariant == NfSpec => []NfInv
<1>1. NfInit => NfInv
  BY NfInitInv
<1>2. NfInv /\ [NfNext]_nfVars => NfInv'
  BY FlagsKeep, AnnounceKeeps, RouterTakesKeeps, RouterGatesKeeps, SpeakNewsKeeps DEF NfNext
<1> QED BY <1>1, <1>2, PTL DEF NfSpec

\* What was accepted is spoken, or silenced, for a reason the caller could not know
\* (butler/router.py, the gate in front of the voice worker).
THEOREM NightStaysQuiet == NfSpec => []NightIsQuiet
<1>1. NfInv => NightIsQuiet
  BY DEF NfInv, Hushed, NightIsQuiet
<1> QED BY <1>1, NightfallInvariant, PTL

\* The variables of sleep mode keep their types.
THEOREM NightfallTypes == NfSpec => []NightfallTypeOK
<1>1. NfInv => NightfallTypeOK
  BY DEF NfInv, NfTypes
<1> QED BY <1>1, NightfallInvariant, PTL

-----------------------------------------------------------------------------
(* The memories and their clears (Forgetting): the inductive invariant.       *)

FgSpec == FgInit /\ [][FgNext]_fgVars

Recorded == store.messages \cup store.summary
OnDisk == Recorded \cup store.facts

FgTypes ==
  /\ store \in [row : BOOLEAN, messages : SUBSET Turns, summary : SUBSET Turns,
                facts : SUBSET Turns]
  /\ steps \in [Turns -> [pc : Stages, chain : SUBSET Turns, rows : SUBSET Turns]]
  /\ chain \subseteq Turns

\* Only a turn that began has left something behind, and only one that began before a
\* press is in what the press is to clear.
OnlyBegun ==
  \A t \in Turns : steps[t].pc = "new" =>
    /\ t \notin Recorded \cup gone \cup before
    /\ \A u \in Turns : t \notin steps[u].rows

\* While a turn runs, or a response id is remembered, the agent holds the file open.
HeldOpen == (chain # {} \/ \E t \in Turns : Running(t)) => held

\* Until a clear meets a turn, nothing that was cleared is left, also in the hands of
\* the turns under way; and a reset that waits for the store has emptied the chain.
Undisturbed ==
  ~across => /\ gone \cap Recorded = {}
             /\ gone \cap chain \subseteq spared
             /\ wipe = "reset" => chain = {}
             /\ \A t \in Turns : Running(t) =>
                   /\ t \notin gone
                   /\ steps[t].rows \cap gone = {}
                   /\ steps[t].chain \cap gone \subseteq spared

\* From the moment the file is deleted nothing is left of the turns before the press;
\* those that run began after it.
Emptied ==
  (wipe \in {"sidecars", "docker", "truncate"} \/ told = "cleared") =>
    /\ before \cap (OnDisk \cup chain) = {}
    /\ told = "cleared" => before \cap mirror = {}
    /\ \A t \in Turns : Running(t) =>
         t \notin before /\ (steps[t].rows \cup steps[t].chain) \cap before = {}

NeverRelapsed == relapsed = FALSE

FgInv == /\ FgTypes /\ OnlyBegun /\ HeldOpen /\ Undisturbed /\ Emptied /\ NeverRelapsed
         /\ FactsOutliveClears

LEMMA FgInitInv == FgInit => FgInv
<1> SUFFICES ASSUME FgInit PROVE FgInv
  OBVIOUS
<1>1. FgTypes
  BY DEF FgInit, FgTypes, Empty, Stages
<1>2. \A t \in Turns : steps[t].pc = "new" /\ steps[t].rows = {}
  BY DEF FgInit
<1>3. store.messages = {} /\ store.summary = {} /\ store.facts = {}
  BY DEF FgInit, Empty
<1> QED
  BY <1>1, <1>2, <1>3
     DEF FgInit, FgInv, OnlyBegun, HeldOpen, Running, Undisturbed, Emptied, NeverRelapsed,
         FactsOutliveClears, Recorded, OnDisk

-----------------------------------------------------------------------------
(* The steps of a turn.                                                       *)

\* What the prompt of a turn shows it: nothing that has been cleared.
LEMMA BeginKeeps ==
  ASSUME FgInv, NEW t \in Turns, Begin(t)
  PROVE  FgInv'
<1> USE DEF FgInv
<1>1. /\ store' = [store EXCEPT !.row = TRUE] /\ held' = TRUE
      /\ steps[t].pc = "new"
      /\ steps' = [steps EXCEPT ![t] = [pc |-> "read", chain |-> chain, rows |-> {}]]
      /\ UNCHANGED <<chain, mirror, up, wipe, told, before, known, gone, across, spared>>
  BY DEF Begin
<1>2. steps'[t] = [pc |-> "read", chain |-> chain, rows |-> {}]
      /\ \A u \in Turns : u # t => steps'[u] = steps[u]
  BY <1>1 DEF FgTypes
<1>3. /\ store'.messages = store.messages /\ store'.summary = store.summary
      /\ store'.facts = store.facts /\ Recorded' = Recorded /\ OnDisk' = OnDisk
  BY <1>1 DEF FgTypes, Recorded, OnDisk
<1>4. FgTypes'
  <2>1. chain \subseteq Turns
    BY DEF FgTypes
  <2> QED BY <1>1, <2>1 DEF FgTypes, Stages
<1>5. OnlyBegun'
  BY <1>1, <1>2, <1>3 DEF OnlyBegun
<1>6. Undisturbed'
  BY <1>1, <1>2, <1>3 DEF Undisturbed, OnlyBegun, Running
<1>7. Emptied'
  BY <1>1, <1>2, <1>3 DEF Emptied, OnlyBegun, Running
<1>8. NeverRelapsed'
  <2>1. ~across => PromptMemory(t) \cap gone \subseteq spared
    BY DEF Undisturbed, PromptMemory, Recorded
  <2>2. told = "cleared" => Found(t) \cap before = {}
    BY DEF Emptied, OnDisk, Found
  <2> QED BY <2>1, <2>2 DEF Begin, NeverRelapsed
<1> QED BY <1>1, <1>3, <1>4, <1>5, <1>6, <1>7, <1>8 DEF HeldOpen, FactsOutliveClears

\* A turn that goes on keeps what it has in hand.
LEMMA AdvanceKeeps ==
  ASSUME FgInv, NEW t \in Turns,
         RememberFact(t) \/ Respond(t) \/ RecordSession(t) \/ RecordTurn(t)
         \/ ReadRows(t) \/ UpsertSummary(t)
  PROVE  FgInv'
<1> USE DEF FgInv
<1>1. Running(t) /\ held
  BY DEF RememberFact, Respond, RecordSession, RecordTurn, ReadRows, UpsertSummary, Running,
         HeldOpen
<1>2. UNCHANGED <<held, up, wipe, told, before, gone, spared, relapsed>>
  BY DEF RememberFact, Respond, RecordSession, RecordTurn, ReadRows, UpsertSummary, dead, ghosts
<1>3. /\ steps'[t].pc # "new" /\ steps'[t].chain = steps[t].chain
      /\ steps'[t].rows \in {steps[t].rows, store.messages}
      /\ \A u \in Turns : u # t => steps'[u] = steps[u]
  BY DEF RememberFact, Respond, RecordSession, RecordTurn, ReadRows, UpsertSummary, FgTypes
<1>4. /\ store'.messages \subseteq store.messages \cup {t}
      /\ store'.summary \in {store.summary, steps[t].rows}
      /\ \/ store'.facts = store.facts /\ known' = known
         \/ store'.facts = store.facts \cup {t} /\ known' = known \cup {t}
  BY DEF RememberFact, Respond, RecordSession, RecordTurn, ReadRows, UpsertSummary, FgTypes,
         ghosts, dead
<1>5. /\ chain' \in {chain, steps[t].chain \cup {t}}
      /\ mirror' \subseteq mirror \cup {t}
      /\ across => across'
      /\ chain' = chain \/ wipe # "reset" \/ across'
  <2>1. CASE Respond(t)
    BY <2>1 DEF Respond
  <2>2. CASE RememberFact(t) \/ RecordSession(t) \/ RecordTurn(t) \/ ReadRows(t) \/ UpsertSummary(t)
    <3>1. UNCHANGED <<chain, mirror, across>>
      BY <2>2 DEF RememberFact, RecordSession, RecordTurn, ReadRows, UpsertSummary, ghosts, dead
    <3> QED BY <3>1
  <2> QED BY <2>1, <2>2
<1>6. FgTypes'
  <2>1. steps' \in [Turns -> [pc : Stages, chain : SUBSET Turns, rows : SUBSET Turns]]
    BY DEF RememberFact, Respond, RecordSession, RecordTurn, ReadRows, UpsertSummary, FgTypes, Stages
  <2>2. store' \in [row : BOOLEAN, messages : SUBSET Turns, summary : SUBSET Turns,
                    facts : SUBSET Turns]
    <3>1. CASE UNCHANGED store
      BY <3>1 DEF FgTypes
    <3>2. CASE store' = [store EXCEPT !.row = TRUE]
      BY <3>2 DEF FgTypes
    <3>3. CASE \/ store' = [store EXCEPT !.messages = @ \cup {t}]
               \/ store' = [store EXCEPT !.facts = @ \cup {t}]
               \/ store' = [store EXCEPT !.summary = steps[t].rows]
      BY <3>3 DEF FgTypes
    <3> QED BY <3>1, <3>2, <3>3
            DEF RememberFact, Respond, RecordSession, RecordTurn, ReadRows, UpsertSummary
  <2>3. chain' \subseteq Turns
    BY <1>5 DEF FgTypes
  <2> QED BY <2>1, <2>2, <2>3 DEF FgTypes
<1>7. OnlyBegun'
  BY <1>1, <1>2, <1>3, <1>4 DEF OnlyBegun, Recorded, Running
<1>8. Undisturbed'
  BY <1>1, <1>2, <1>3, <1>4, <1>5 DEF Undisturbed, Recorded, Running
<1>9. Emptied'
  BY <1>1, <1>2, <1>3, <1>4, <1>5 DEF Emptied, OnDisk, Recorded, Running
<1> QED BY <1>1, <1>2, <1>4, <1>6, <1>7, <1>8, <1>9
        DEF HeldOpen, NeverRelapsed, FactsOutliveClears

-----------------------------------------------------------------------------
(* The agent's process and the clears.                                        *)

\* A process that ends takes its turns and its response ids with it.
LEMMA ProcessKeeps ==
  ASSUME FgInv, StartAgent \/ StopAgent
  PROVE  FgInv'
<1> USE DEF FgInv
<1>1. CASE StartAgent
  BY <1>1 DEF StartAgent, ghosts, FgTypes, OnlyBegun, HeldOpen, Running, Undisturbed, Emptied,
              NeverRelapsed, FactsOutliveClears, Recorded, OnDisk
<1>2. CASE StopAgent
  <2>1. /\ UNCHANGED <<store, mirror, told, before, known, gone, across, spared, relapsed>>
        /\ chain' = {} /\ wipe' \in {wipe, "none"}
        /\ steps' = [u \in Turns |-> IF Running(u) THEN [steps[u] EXCEPT !.pc = "done"]
                                                    ELSE steps[u]]
    BY <1>2 DEF StopAgent, ghosts
  <2>2. \A u \in Turns : ~(Running(u))' /\ steps'[u].rows = steps[u].rows
                         /\ (steps'[u].pc = "new" => steps[u].pc = "new")
    BY <2>1 DEF Running, FgTypes
  <2>3. FgTypes'
    BY <2>1 DEF FgTypes, Stages
  <2>4. OnlyBegun' /\ HeldOpen' /\ Undisturbed' /\ Emptied'
    BY <2>1, <2>2 DEF OnlyBegun, HeldOpen, Undisturbed, Emptied, Recorded, OnDisk
  <2> QED BY <2>1, <2>3, <2>4 DEF NeverRelapsed, FactsOutliveClears
<1> QED BY <1>1, <1>2

\* The rows of the session go: with no turn under way nothing of them is left.
LEMMA ClearKeeps ==
  ASSUME FgInv, ResetStore \/ ClearListed
  PROVE  FgInv'
<1> USE DEF FgInv
<1>1. /\ UNCHANGED <<chain, mirror, up, steps, told, before, known, relapsed>>
      /\ wipe' = "none" /\ (held => held')
  BY DEF ResetStore, ClearListed
<1>2. CASE UNCHANGED <<store, gone, across, spared>>
  BY <1>1, <1>2 DEF FgTypes, OnlyBegun, HeldOpen, Running, Undisturbed, Emptied, NeverRelapsed,
                    FactsOutliveClears, Recorded, OnDisk
<1>3. CASE ClearSession /\ (chain = {} \/ across \/ spared' = spared \cup Recorded)
           /\ spared \subseteq spared'
  <2>1. /\ store'.messages = {} /\ store'.summary = {} /\ store'.facts = store.facts
        /\ gone' = gone \cup Recorded
        /\ across' = (across \/ \E t \in Turns : Running(t))
        /\ FgTypes'
    BY <1>1, <1>3 DEF ClearSession, Cleared, FgTypes, Recorded
  <2>2. \A t \in Turns : Running(t)' = Running(t)
    BY <1>1 DEF Running
  <2>3. OnlyBegun' /\ HeldOpen'
    BY <1>1, <2>1, <2>2 DEF OnlyBegun, HeldOpen, Recorded, Running
  <2>4. Undisturbed'
    BY <1>1, <1>3, <2>1, <2>2 DEF Undisturbed, Recorded
  <2>5. Emptied'
    BY <1>1, <2>1, <2>2 DEF Emptied, OnDisk, Recorded
  <2> QED BY <1>1, <2>1, <2>3, <2>4, <2>5 DEF NeverRelapsed, FactsOutliveClears
<1> QED
  BY <1>2, <1>3 DEF ResetStore, ClearListed, Undisturbed, Recorded

\* A clear that begins, goes on or gives up: the full one finds the file closed.
LEMMA WipeKeeps ==
  ASSUME FgInv,
         \/ ResetSession \/ PressChatClear \/ ListSessions
         \/ \E fromWindow \in BOOLEAN : PressClearAll(fromWindow)
         \/ UnlinkStore \/ UnlinkSidecars \/ EnsureDatabase \/ TruncateMemories
  PROVE  FgInv'
<1> USE DEF FgInv
<1> DEFINE Same == UNCHANGED <<store, held, steps, before, known, gone, across, spared, relapsed>>
<1>1. CASE ResetSession \/ PressChatClear \/ ListSessions
  <2>1. /\ Same /\ UNCHANGED <<mirror, told>> /\ wipe' \in {"reset", "chat", "listed", "none"}
        /\ \/ chain' = {}
           \/ chain' = chain /\ wipe' # "reset"
    BY <1>1 DEF ResetSession, PressChatClear, ListSessions, ghosts
  <2> QED BY <2>1 DEF FgTypes, OnlyBegun, HeldOpen, Running, Undisturbed, Emptied, NeverRelapsed,
                      FactsOutliveClears, Recorded, OnDisk
<1>2. CASE \E fromWindow \in BOOLEAN : PressClearAll(fromWindow)
  <2>1. /\ UNCHANGED <<store, held, steps, chain, mirror, known, gone, across, spared, relapsed>>
        /\ before' = Begun /\ told' = "nothing" /\ wipe' = "main"
    BY <1>2 DEF PressClearAll
  <2> QED BY <2>1 DEF FgTypes, OnlyBegun, HeldOpen, Running, Undisturbed, Emptied, NeverRelapsed,
                      FactsOutliveClears, Recorded, Begun
<1>3. CASE UnlinkStore
  <2>1. /\ UNCHANGED <<held, chain, mirror, up, steps, before, gone, across, spared, relapsed>>
        /\ \/ wipe' = "none" /\ told' = "failed" /\ UNCHANGED <<store, known>>
           \/ /\ ~held /\ wipe' = "sidecars" /\ UNCHANGED told
              /\ store' = Empty /\ known' = {}
    BY <1>3 DEF UnlinkStore, Unlink
  <2>2. CASE wipe' = "none" /\ told' = "failed" /\ UNCHANGED <<store, known>>
    BY <2>1, <2>2 DEF FgTypes, OnlyBegun, HeldOpen, Running, Undisturbed, Emptied, NeverRelapsed,
                      FactsOutliveClears, Recorded
  <2>3. CASE /\ ~held /\ wipe' = "sidecars" /\ UNCHANGED told
             /\ store' = Empty /\ known' = {}
    <3>1. chain = {} /\ \A t \in Turns : ~Running(t) /\ ~Running(t)'
      BY <2>1, <2>3 DEF HeldOpen, Running
    <3>2. store'.messages = {} /\ store'.summary = {} /\ store'.facts = {} /\ FgTypes'
      BY <2>1, <2>3 DEF Empty, FgTypes
    <3>3. told = "cleared" => before \cap mirror = {}
      BY DEF Emptied
    <3> QED BY <2>1, <2>3, <3>1, <3>2, <3>3
            DEF OnlyBegun, HeldOpen, Undisturbed, Emptied, NeverRelapsed, FactsOutliveClears,
                Recorded, OnDisk
  <2> QED BY <2>1, <2>2, <2>3
<1>4. CASE UnlinkSidecars \/ EnsureDatabase \/ TruncateMemories
  <2>1. /\ Same /\ UNCHANGED chain
        /\ wipe \in {"sidecars", "docker", "truncate"} /\ wipe' # "reset"
        /\ \/ told' \in {told, "failed"} /\ mirror' = mirror
           \/ mirror' = {}
    BY <1>4 DEF UnlinkSidecars, EnsureDatabase, TruncateMemories, Unlink
  <2> QED BY <2>1 DEF FgTypes, OnlyBegun, HeldOpen, Running, Undisturbed, Emptied, NeverRelapsed,
                      FactsOutliveClears, Recorded, OnDisk
<1> QED BY <1>1, <1>2, <1>3, <1>4

LEMMA FgStep == FgInv /\ [FgNext]_fgVars => FgInv'
<1> SUFFICES ASSUME FgInv, [FgNext]_fgVars PROVE FgInv'
  OBVIOUS
<1>1. CASE \E t \in Turns : Turn(t)
  <2>1. PICK t \in Turns : Turn(t)
    BY <1>1
  <2> QED BY <2>1, BeginKeeps, AdvanceKeeps DEF Turn
<1>2. CASE UNCHANGED fgVars
  BY <1>2 DEF fgVars, FgInv, FgTypes, OnlyBegun, HeldOpen, Running, Undisturbed, Emptied,
              NeverRelapsed, FactsOutliveClears, Recorded, OnDisk
<1> QED BY <1>1, <1>2, ProcessKeeps, ClearKeeps, WipeKeeps DEF FgNext

\* The inductive invariant, for every set of turns and every bound.
THEOREM MemoriesHold == FgSpec => []FgInv
<1> QED BY FgInitInv, FgStep, PTL DEF FgSpec

\* A fact that was remembered is in the store until the file goes, however many resets
\* and chat clears came in between (store.py, clear_session).
THEOREM FactsStay == FgSpec => []FactsOutliveClears
<1>1. FgInv => FactsOutliveClears
  BY DEF FgInv
<1> QED BY <1>1, MemoriesHold, PTL

\* What a clear deleted while no turn was under way is not written back, not shown to a
\* later turn, and in the response chain only after a clear of the launcher's.
THEOREM DialogueStaysCleared == FgSpec => []ClearedStaysCleared
<1>1. FgInv => ClearedStaysCleared
  BY DEF FgInv, Undisturbed, NeverRelapsed, ClearedStaysCleared, Recorded
<1> QED BY <1>1, MemoriesHold, PTL

\* "Memory cleared" means that neither memory holds anything of the turns before the
\* press (maintenance.py, clear_all_memory).
THEOREM ClearAllIsTrue == FgSpec => []ClearAllTellsTheTruth
<1>1. FgInv => ClearAllTellsTheTruth
  BY DEF FgInv, Emptied, OnDisk, Recorded, ClearAllTellsTheTruth
<1> QED BY <1>1, MemoriesHold, PTL

\* The three together: what a clear promises of the memory is so.
THEOREM MemoryStaysHonest == FgSpec => []MemoryIsHonest
<1>1. FactsOutliveClears /\ ClearedStaysCleared /\ ClearAllTellsTheTruth => MemoryIsHonest
  BY DEF MemoryIsHonest
<1> QED BY <1>1, FactsStay, DialogueStaysCleared, ClearAllIsTrue, PTL

-----------------------------------------------------------------------------
(* The lights (Lights): the inductive invariant.                              *)

TaskRec == [pc : {"none", "discover", "update", "retry", "abandon", "switch", "close", "done"},
            attempt : 0 .. Retries, open : BOOLEAN, switched : BOOLEAN, failed : BOOLEAN]
CallRec == [pc : {"new", "running", "answered"}, on : BOOLEAN, devices : SUBSET Devices,
            counted : SUBSET Devices]
LiTypes ==
  /\ power \in [Devices -> BOOLEAN] /\ call \in [Calls -> CallRec]
  /\ task \in [Calls -> [Devices -> TaskRec]]

\* A device is open between its discovery and its close, and a task that came so far
\* without an error has switched.
Orderly(t) ==
  /\ t.open => t.pc \in {"update", "switch", "retry", "abandon", "close"}
  /\ t.pc \in {"close", "done"} /\ ~t.failed => t.switched

\* A call has a task for each of its devices and for no other; it answers when they
\* are over, and counts those without an error.
Assigned(c, d) ==
  /\ d \notin call[c].devices => task[c][d] = NoTask
  /\ d \in call[c].devices => task[c][d].pc # "none" /\ call[c].pc # "new"
  /\ d \in call[c].counted =>
       d \in call[c].devices /\ call[c].pc = "answered" /\ ~task[c][d].failed
  /\ call[c].pc = "answered" => task[c][d].pc \in Over

\* A device is as the last call that switched it was asked for.
LastWins(c, d) ==
  task[c][d].switched => power[d] = call[c].on \/ \E e \in Calls \ {c} : task[e][d].switched

LiInv ==
  /\ LiTypes
  /\ \A c \in Calls, d \in Devices : Orderly(task[c][d]) /\ Assigned(c, d) /\ LastWins(c, d)

LEMMA LiInitInv == ASSUME LightsAssumption, LiInit PROVE LiInv
<1>1. NoTask \in TaskRec /\ Orderly(NoTask) /\ ~NoTask.switched
  BY DEF LightsAssumption, NoTask, TaskRec, Orderly
<1>2. LiTypes
  BY <1>1 DEF LiInit, LiTypes, CallRec
<1>3. ASSUME NEW c \in Calls, NEW d \in Devices
      PROVE  task[c][d] = NoTask /\ call[c].devices = {} /\ call[c].counted = {} /\ call[c].pc = "new"
  BY DEF LiInit
<1> QED BY <1>1, <1>2, <1>3 DEF LiInv, Assigned, LastWins

\* What the step of a task may make of it.
Goes(t, new) == new \in TaskRec /\ Orderly(new) /\ new.pc # "none" /\ (t.switched => new.switched)

\* A step of one task leaves what holds of the others.
LEMMA OneTask ==
  ASSUME LiInv, NEW c \in Calls, NEW d \in Devices, NEW new, Goes(task[c][d], new),
         task[c][d].pc \notin Over, task' = [task EXCEPT ![c][d] = new], call' = call,
         \/ power' = power /\ new.switched = task[c][d].switched
         \/ power' = [power EXCEPT ![d] = call[c].on] /\ new.switched
  PROVE  LiInv'
<1>1. /\ power \in [Devices -> BOOLEAN] /\ call \in [Calls -> CallRec]
      /\ task \in [Calls -> [Devices -> TaskRec]] /\ new \in TaskRec
  BY DEF LiInv, LiTypes, Goes
<1>2. \A e \in Calls, g \in Devices :
        task'[e][g] = IF e = c /\ g = d THEN new ELSE task[e][g]
  BY <1>1
<1>3. call[c].on \in BOOLEAN
  BY <1>1 DEF CallRec
<1>4. LiTypes'
  <2>1. task' \in [Calls -> [Devices -> TaskRec]]
    BY <1>1
  <2>2. power' \in [Devices -> BOOLEAN]
    BY <1>1, <1>3
  <2> QED BY <1>1, <2>1, <2>2 DEF LiTypes
<1>5. ASSUME NEW e \in Calls, NEW g \in Devices
      PROVE  Orderly(task'[e][g]) /\ Assigned(e, g)' /\ LastWins(e, g)'
  <2>1. Orderly(task[e][g]) /\ Assigned(e, g) /\ LastWins(e, g)
    BY DEF LiInv
  <2>2. \A f \in Calls, h \in Devices : task[f][h].switched => task'[f][h].switched
    BY <1>2 DEF Goes
  <2>3. Orderly(task'[e][g])
    BY <1>2, <2>1 DEF Goes
  <2>4. Assigned(e, g)'
    <3>1. CASE e = c /\ g = d
      <4>1. task'[e][g] = new /\ new.pc # "none" /\ NoTask.pc = "none"
        BY <1>2, <3>1 DEF Goes, NoTask
      <4>2. call[c].pc # "answered" /\ task[c][d].pc # "none"
        BY <2>1, <3>1 DEF Assigned, Over
      <4> QED BY <2>1, <3>1, <4>1, <4>2 DEF Assigned
    <3>2. CASE ~(e = c /\ g = d)
      <4>1. task'[e][g] = task[e][g]
        BY <1>2, <3>2
      <4> QED BY <2>1, <4>1 DEF Assigned
    <3> QED BY <3>1, <3>2
  <2>5. LastWins(e, g)'
    <3>1. CASE power' = power /\ new.switched = task[c][d].switched
      <4>1. task'[e][g].switched => task[e][g].switched
        BY <1>2, <3>1
      <4> QED BY <2>1, <2>2, <3>1, <4>1 DEF LastWins
    <3>2. CASE power' = [power EXCEPT ![d] = call[c].on] /\ new.switched
      <4>1. CASE g # d
        <5>1. power'[g] = power[g] /\ task'[e][g] = task[e][g]
          BY <1>1, <1>2, <3>2, <4>1
        <5> QED BY <2>1, <2>2, <5>1 DEF LastWins
      <4>2. CASE g = d /\ e = c
        <5>1. power'[g] = call'[e].on
          BY <1>1, <3>2, <4>2
        <5> QED BY <5>1 DEF LastWins
      <4>3. CASE g = d /\ e # c
        <5>1. c \in Calls \ {e} /\ task'[c][g].switched
          BY <1>2, <3>2, <4>3
        <5> QED BY <5>1 DEF LastWins
      <4> QED BY <4>1, <4>2, <4>3
    <3> QED BY <3>1, <3>2
  <2> QED BY <2>3, <2>4, <2>5
<1> QED BY <1>4, <1>5 DEF LiInv

\* Every operation of a task ends in one of these.
LEMMA TaskDiscovers ==
  ASSUME LightsAssumption, NEW t \in TaskRec, Orderly(t), t.pc = "discover"
  PROVE  /\ Goes(t, [t EXCEPT !.pc = "update", !.open = TRUE])
         /\ Goes(t, Fail(t)) /\ Fail(t).switched = t.switched
         /\ t.attempt < Retries => Goes(t, [t EXCEPT !.attempt = @ + 1])
<1>1. Goes(t, [t EXCEPT !.pc = "update", !.open = TRUE])
  BY DEF TaskRec, Orderly, Goes
<1>2. Goes(t, Fail(t)) /\ Fail(t).switched = t.switched
  BY DEF TaskRec, Orderly, Goes, Fail
<1>3. ASSUME t.attempt < Retries PROVE Goes(t, [t EXCEPT !.attempt = @ + 1])
  <2>1. t.attempt + 1 \in 0 .. Retries
    BY <1>3 DEF LightsAssumption, TaskRec
  <2> QED BY <2>1 DEF TaskRec, Orderly, Goes
<1> QED BY <1>1, <1>2, <1>3

LEMMA TaskUpdates ==
  ASSUME NEW t \in TaskRec, Orderly(t), t.pc = "update", NEW at \in {"switch", "retry", "abandon"}
  PROVE  Goes(t, [t EXCEPT !.pc = at])
  BY DEF TaskRec, Orderly, Goes

LEMMA TaskSwitches ==
  ASSUME NEW t \in TaskRec, Orderly(t), t.pc = "switch"
  PROVE  /\ Goes(t, [t EXCEPT !.pc = "close", !.failed = TRUE])
         /\ \A late \in BOOLEAN :
              Goes(t, [t EXCEPT !.pc = "close", !.switched = TRUE, !.failed = late])
<1>1. Goes(t, [t EXCEPT !.pc = "close", !.failed = TRUE])
  BY DEF TaskRec, Orderly, Goes
<1>2. ASSUME NEW late \in BOOLEAN
      PROVE  Goes(t, [t EXCEPT !.pc = "close", !.switched = TRUE, !.failed = late])
  BY DEF TaskRec, Orderly, Goes
<1> QED BY <1>1, <1>2

LEMMA TaskCloses ==
  ASSUME NEW t \in TaskRec, Orderly(t), t.pc = "close"
  PROVE  /\ Goes(t, [t EXCEPT !.pc = "done", !.open = FALSE])
         /\ Goes(t, [[t EXCEPT !.pc = "done", !.open = FALSE] EXCEPT !.failed = TRUE])
<1>1. Goes(t, [t EXCEPT !.pc = "done", !.open = FALSE])
  BY DEF TaskRec, Orderly, Goes
<1>2. Goes(t, [[t EXCEPT !.pc = "done", !.open = FALSE] EXCEPT !.failed = TRUE])
  BY DEF TaskRec, Orderly, Goes
<1> QED BY <1>1, <1>2

LEMMA TaskRetries ==
  ASSUME LightsAssumption, NEW was \in TaskRec, Orderly(was), was.pc \in {"retry", "abandon"},
         NEW t, t = [was EXCEPT !.open = FALSE]
  PROVE  /\ Goes(was, Fail(t)) /\ Fail(t).switched = was.switched
         /\ t.pc = "retry" /\ t.attempt < Retries =>
              /\ Goes(was, [t EXCEPT !.pc = "discover", !.attempt = @ + 1])
              /\ [t EXCEPT !.pc = "discover", !.attempt = @ + 1].switched = was.switched
<1>1. Goes(was, Fail(t)) /\ Fail(t).switched = was.switched
  BY DEF TaskRec, Orderly, Goes, Fail
<1>2. ASSUME t.attempt < Retries
      PROVE  /\ Goes(was, [t EXCEPT !.pc = "discover", !.attempt = @ + 1])
             /\ [t EXCEPT !.pc = "discover", !.attempt = @ + 1].switched = was.switched
  <2>1. t.attempt + 1 \in 0 .. Retries
    BY <1>2 DEF LightsAssumption, TaskRec
  <2> QED BY <2>1 DEF TaskRec, Orderly, Goes
<1> QED BY <1>1, <1>2

LEMMA TaskKeeps ==
  ASSUME LightsAssumption, LiInv, NEW c \in Calls, NEW d \in Devices,
         Discover(c, d) \/ Update(c, d) \/ CloseFailed(c, d) \/ Switch(c, d) \/ Close(c, d)
  PROVE  LiInv'
<1> DEFINE t == task[c][d]
<1>0. t \in TaskRec /\ Orderly(t)
  BY DEF LiInv, LiTypes
<1>1. ASSUME NEW new, Goes(t, new), new.switched = t.switched, t.pc \notin Over, Become(c, d, new)
      PROVE  LiInv'
  BY <1>1, OneTask DEF Become
<1> HIDE DEF t
<1>2. CASE Discover(c, d)
  <2>1. t.pc = "discover" /\ t.pc \notin Over
    BY <1>2 DEF Discover, Over, t
  <2>2. CASE Become(c, d, [t EXCEPT !.pc = "update", !.open = TRUE])
    <3>1. [t EXCEPT !.pc = "update", !.open = TRUE].switched = t.switched
      BY <1>0 DEF TaskRec
    <3> QED BY <1>0, <1>1, <2>1, <2>2, <3>1, TaskDiscovers
  <2>3. CASE Become(c, d, Fail(t))
    BY <1>0, <1>1, <2>1, <2>3, TaskDiscovers
  <2>4. CASE t.attempt < Retries /\ Become(c, d, [t EXCEPT !.attempt = @ + 1])
    <3>1. [t EXCEPT !.attempt = @ + 1].switched = t.switched
      BY <1>0 DEF TaskRec
    <3> QED BY <1>0, <1>1, <2>1, <2>4, <3>1, TaskDiscovers
  <2> QED BY <1>2, <2>2, <2>3, <2>4 DEF Discover, t
<1>3. CASE Update(c, d)
  <2>1. t.pc = "update" /\ t.pc \notin Over
    BY <1>3 DEF Update, Over, t
  <2>2. PICK at \in {"switch", "retry", "abandon"} : Become(c, d, [t EXCEPT !.pc = at])
    BY <1>3 DEF Update, t
  <2>3. [t EXCEPT !.pc = at].switched = t.switched
    BY <1>0 DEF TaskRec
  <2> QED BY <1>0, <1>1, <2>1, <2>2, <2>3, TaskUpdates
<1>4. CASE CloseFailed(c, d)
  <2> DEFINE s == [t EXCEPT !.open = FALSE]
  <2>1. t.pc \in {"retry", "abandon"} /\ t.pc \notin Over
    BY <1>4 DEF CloseFailed, Over, t
  <2>2. \/ Become(c, d, Fail(s))
        \/ /\ s.pc = "retry" /\ s.attempt < Retries
           /\ Become(c, d, [s EXCEPT !.pc = "discover", !.attempt = @ + 1])
    BY <1>4 DEF CloseFailed, t
  <2> HIDE DEF s
  <2>3. s = [t EXCEPT !.open = FALSE]
    BY DEF s
  <2> QED BY <1>0, <1>1, <2>1, <2>2, <2>3, TaskRetries
<1>5. CASE Switch(c, d)
  <2>1. t.pc = "switch" /\ t.pc \notin Over /\ call' = call
    BY <1>5 DEF Switch, Over, t
  <2>2. \/ \E late \in BOOLEAN :
             /\ power' = [power EXCEPT ![d] = call[c].on]
             /\ task' = [task EXCEPT ![c][d] = [t EXCEPT !.pc = "close", !.switched = TRUE, !.failed = late]]
        \/ /\ power' = power
           /\ task' = [task EXCEPT ![c][d] = [t EXCEPT !.pc = "close", !.failed = TRUE]]
    BY <1>5 DEF Switch, t
  <2>3. ASSUME NEW late \in BOOLEAN, power' = [power EXCEPT ![d] = call[c].on],
               task' = [task EXCEPT ![c][d] = [t EXCEPT !.pc = "close", !.switched = TRUE, !.failed = late]]
        PROVE  LiInv'
    <3>1. [t EXCEPT !.pc = "close", !.switched = TRUE, !.failed = late].switched
      BY <1>0 DEF TaskRec
    <3> QED BY <1>0, <2>1, <2>3, <3>1, TaskSwitches, OneTask DEF t
  <2>4. CASE /\ power' = power
             /\ task' = [task EXCEPT ![c][d] = [t EXCEPT !.pc = "close", !.failed = TRUE]]
    <3>1. [t EXCEPT !.pc = "close", !.failed = TRUE].switched = t.switched
      BY <1>0 DEF TaskRec
    <3> QED BY <1>0, <2>1, <2>4, <3>1, TaskSwitches, OneTask DEF t
  <2> QED BY <2>2, <2>3, <2>4
<1>6. CASE Close(c, d)
  <2> DEFINE s == [t EXCEPT !.pc = "done", !.open = FALSE]
  <2>1. t.pc = "close" /\ t.pc \notin Over
    BY <1>6 DEF Close, Over, t
  <2>2. Become(c, d, s) \/ Become(c, d, [s EXCEPT !.failed = TRUE])
    BY <1>6 DEF Close, t
  <2>3. s.switched = t.switched /\ [s EXCEPT !.failed = TRUE].switched = t.switched
    BY <1>0 DEF TaskRec
  <2> QED BY <1>0, <1>1, <2>1, <2>2, <2>3, TaskCloses
<1> QED BY <1>2, <1>3, <1>4, <1>5, <1>6

LEMMA AskKeeps ==
  ASSUME LiInv, LightsAssumption, NEW c \in Calls, NEW on \in BOOLEAN,
         NEW devices \in {Lamps} \cup {{d} : d \in Devices}, Ask(c, on, devices)
  PROVE  LiInv'
<1>1. /\ power \in [Devices -> BOOLEAN] /\ call \in [Calls -> CallRec]
      /\ task \in [Calls -> [Devices -> TaskRec]] /\ devices \subseteq Devices
  BY DEF LiInv, LiTypes, LightsAssumption
<1>2. /\ call[c].pc = "new" /\ power' = power
      /\ call' = [call EXCEPT ![c] = [@ EXCEPT !.pc = "running", !.on = on, !.devices = devices]]
      /\ task' = [task EXCEPT ![c] =
           [d \in Devices |-> IF d \in devices THEN [NoTask EXCEPT !.pc = "discover"] ELSE NoTask]]
  BY DEF Ask
<1>3. /\ NoTask \in TaskRec /\ Orderly(NoTask) /\ ~NoTask.switched
      /\ [NoTask EXCEPT !.pc = "discover"] \in TaskRec
      /\ Orderly([NoTask EXCEPT !.pc = "discover"])
      /\ ~[NoTask EXCEPT !.pc = "discover"].switched
      /\ [NoTask EXCEPT !.pc = "discover"].pc = "discover"
  <2>1. NoTask \in TaskRec /\ Orderly(NoTask) /\ ~NoTask.switched
    BY DEF LightsAssumption, NoTask, TaskRec, Orderly
  <2>2. ASSUME NEW t \in TaskRec, Orderly(t), ~t.switched, ~t.open
        PROVE  /\ [t EXCEPT !.pc = "discover"] \in TaskRec
               /\ Orderly([t EXCEPT !.pc = "discover"])
               /\ ~[t EXCEPT !.pc = "discover"].switched
               /\ [t EXCEPT !.pc = "discover"].pc = "discover"
    BY <2>2 DEF TaskRec, Orderly
  <2>3. ~NoTask.open
    BY DEF NoTask
  <2> QED BY <2>1, <2>2, <2>3
<1>4. \A d \in Devices : task'[c][d] = IF d \in devices THEN [NoTask EXCEPT !.pc = "discover"] ELSE NoTask
  BY <1>1, <1>2
<1>5. \A e \in Calls \ {c} : task'[e] = task[e] /\ call'[e] = call[e]
  BY <1>1, <1>2
<1>6. call'[c] \in CallRec /\ call'[c].pc = "running" /\ call'[c].devices = devices
      /\ call'[c].counted = call[c].counted
  BY <1>1, <1>2 DEF CallRec
<1>7. LiTypes'
  <2>1. task' \in [Calls -> [Devices -> TaskRec]]
    BY <1>1, <1>2, <1>3
  <2>2. call' \in [Calls -> CallRec]
    BY <1>1, <1>2, <1>6
  <2> QED BY <1>1, <1>2, <2>1, <2>2 DEF LiTypes
<1>8. ASSUME NEW e \in Calls, NEW d \in Devices
      PROVE  Orderly(task'[e][d]) /\ Assigned(e, d)' /\ LastWins(e, d)'
  <2>1. Orderly(task[e][d]) /\ Assigned(e, d) /\ LastWins(e, d)
        /\ Assigned(c, d)
    BY DEF LiInv
  <2>2. ~task[c][d].switched
    BY <1>2, <1>3, <2>1 DEF Assigned
  <2>3. CASE e = c
    <3>1. Orderly(task'[e][d]) /\ ~task'[e][d].switched
      BY <1>3, <1>4, <2>3
    <3>2. Assigned(e, d)'
      BY <1>2, <1>3, <1>4, <1>6, <2>1, <2>3 DEF Assigned
    <3> QED BY <3>1, <3>2 DEF LastWins
  <2>4. CASE e # c
    <3>1. task'[e][d] = task[e][d] /\ call'[e] = call[e]
      BY <1>5, <2>4
    <3>2. \A f \in Calls \ {e} : task[f][d].switched => task'[f][d].switched
      BY <1>5, <2>2
    <3>3. LastWins(e, d)'
      BY <1>2, <2>1, <3>1, <3>2 DEF LastWins
    <3> QED BY <2>1, <3>1, <3>3 DEF Assigned
  <2> QED BY <2>3, <2>4
<1> QED BY <1>7, <1>8 DEF LiInv

LEMMA AnswerKeeps == ASSUME LiInv, NEW c \in Calls, Answer(c) PROVE LiInv'
<1>1. /\ power \in [Devices -> BOOLEAN] /\ call \in [Calls -> CallRec]
      /\ task \in [Calls -> [Devices -> TaskRec]]
  BY DEF LiInv, LiTypes
<1>2. /\ call[c].pc = "running" /\ \A d \in Devices : task[c][d].pc \in Over
      /\ call' = [call EXCEPT ![c] = [@ EXCEPT !.pc = "answered",
                     !.counted = {d \in call[c].devices : ~task[c][d].failed}]]
      /\ power' = power /\ task' = task
  BY DEF Answer
<1>3. /\ call'[c] \in CallRec /\ call'[c].pc = "answered" /\ call'[c].devices = call[c].devices
      /\ call'[c].on = call[c].on
      /\ call'[c].counted = {d \in call[c].devices : ~task[c][d].failed}
  BY <1>1, <1>2 DEF CallRec
<1>4. \A e \in Calls \ {c} : call'[e] = call[e]
  BY <1>1, <1>2
<1>5. call' \in [Calls -> CallRec]
  BY <1>1, <1>2, <1>3
<1>6. LiTypes'
  BY <1>1, <1>2, <1>5 DEF LiTypes
<1>7. ASSUME NEW e \in Calls, NEW d \in Devices
      PROVE  Orderly(task'[e][d]) /\ Assigned(e, d)' /\ LastWins(e, d)'
  <2>1. Orderly(task[e][d]) /\ Assigned(e, d) /\ LastWins(e, d)
    BY DEF LiInv
  <2>2. call'[e].on = call[e].on
    BY <1>3, <1>4
  <2>3. LastWins(e, d)'
    BY <1>2, <2>1, <2>2 DEF LastWins
  <2>4. Assigned(e, d)'
    BY <1>2, <1>3, <1>4, <2>1 DEF Assigned
  <2> QED BY <1>2, <2>1, <2>3, <2>4
<1> QED BY <1>6, <1>7 DEF LiInv

LEMMA LiStep == LightsAssumption /\ LiInv /\ [LiNext]_lightsVars => LiInv'
<1> SUFFICES ASSUME LightsAssumption, LiInv, [LiNext]_lightsVars PROVE LiInv'
  OBVIOUS
<1>1. CASE UNCHANGED lightsVars
  BY <1>1 DEF lightsVars, LiInv, LiTypes, Assigned, LastWins
<1> QED BY <1>1, AskKeeps, TaskKeeps, AnswerKeeps DEF LiNext

LEMMA LiEnds == LiInv => NothingIsLeftOpen /\ CountedWereSwitched
<1> SUFFICES ASSUME LiInv PROVE NothingIsLeftOpen /\ CountedWereSwitched
  OBVIOUS
<1>1. NothingIsLeftOpen
  BY DEF LiInv, Orderly, NothingIsLeftOpen, Over
<1>2. ASSUME NEW c \in Calls, call[c].pc = "answered", NEW d \in call[c].counted
      PROVE  /\ task[c][d].switched
             /\ power[d] = call[c].on \/ \E e \in Calls \ {c} : task[e][d].switched
  <2>1. d \in Devices
    BY DEF LiInv, LiTypes, CallRec
  <2>2. task[c][d].pc = "done" /\ ~task[c][d].failed
    BY <1>2, <2>1 DEF LiInv, Assigned, Over
  <2> QED BY <2>1, <2>2 DEF LiInv, Orderly, LastWins
<1>3. ASSUME NEW c \in Calls, NEW d \in Devices \ Lamps, call[c].devices = Lamps
      PROVE  task[c][d] = NoTask
  BY <1>3 DEF LiInv, Assigned
<1> QED BY <1>1, <1>2, <1>3 DEF CountedWereSwitched

\* A device that is counted was switched, and none is left open: for any devices,
\* calls at the same time, retries and faults (set_device_power, set_all_devices_power).
THEOREM LightsAreCounted ==
  LightsAssumption => (LiSpec => [](NothingIsLeftOpen /\ CountedWereSwitched))
<1> SUFFICES ASSUME LightsAssumption PROVE LiSpec => [](NothingIsLeftOpen /\ CountedWereSwitched)
  OBVIOUS
<1>1. LiInit => LiInv
  BY LiInitInv
<1>2. LiInv /\ [LiNext]_lightsVars => LiInv'
  BY LiStep
<1> QED BY <1>1, <1>2, LiEnds, PTL DEF LiSpec

-----------------------------------------------------------------------------
(* The signals of the main process (Signals).                                 *)

SigRec == [by : Producers, kind : {"event", "presence", "wake"}, at : 0 .. Ticks]
Calling == [pc : {"rest", "stamp", "put", "evict", "again"}, sig : Nat, read : 0 .. Ticks]
Stats == [queued : Nat, sent : Nat, failed : Nat, dropped : Nat]
Ids == 1 .. Len(made)

SgTypes ==
  /\ clock \in 0 .. Ticks /\ lastPresence \in 0 .. clock /\ made \in Seq(SigRec)
  /\ Len(made) <= Signals
  /\ queue \in Seq(Nat \ {0}) /\ Len(queue) <= Depth /\ stored \in Seq(Nat \ {0})
  /\ drain \in Nat /\ emitter \in [Producers -> Calling] /\ counted \in Stats

\* What is on its way was made, and a call has its own signal in hand, which is not lost.
Known ==
  /\ \A k \in DOMAIN queue : queue[k] \in Ids
  /\ \A k \in DOMAIN stored : stored[k] \in Ids
  /\ drain # 0 => drain \in Ids
  /\ unheard \subseteq Ids
  /\ \A p \in Emitting : emitter[p].sig \in Ids \ unheard /\ made[emitter[p].sig].by = p

\* Of one producer's signals the stored ones are older than the one that is posted, that
\* one than those that wait, and those than the one in hand.
Earlier(x, y) == made[x].by = made[y].by => x < y
Line ==
  /\ \A j, k \in DOMAIN stored : j < k => Earlier(stored[j], stored[k])
  /\ \A j, k \in DOMAIN queue : j < k => Earlier(queue[j], queue[k])
  /\ \A j \in DOMAIN stored : \A k \in DOMAIN queue : Earlier(stored[j], queue[k])
  /\ drain # 0 => /\ \A j \in DOMAIN stored : Earlier(stored[j], drain)
                  /\ \A k \in DOMAIN queue : Earlier(drain, queue[k])
  /\ \A p \in Emitting :
       /\ \A j \in DOMAIN stored : Earlier(stored[j], emitter[p].sig)
       /\ \A k \in DOMAIN queue : Earlier(queue[k], emitter[p].sig)
       /\ drain # 0 => Earlier(drain, emitter[p].sig)

\* The sum of SignalsAreCounted, term by term.
Settled == counted.sent + counted.failed + counted.dropped
Laid == Settled + Len(queue)
Posted == Laid + (IF drain = 0 THEN 0 ELSE 1)
Held == Posted + Cardinality(Emitting)
Counts == IsFiniteSet(Emitting) /\ Len(made) = Held + Cardinality(unheard)

\* With one thread that senses, what it has read is an interval past the presence that
\* counts, and no report is younger than that one.
OneSenses == \A p, q \in Sensing : p = q
Spacing ==
  /\ \A p \in Producers : emitter[p].pc = "stamp" =>
       p \in Sensing /\ emitter[p].read <= clock
         /\ (OneSenses => emitter[p].read - lastPresence >= Interval)
  /\ OneSenses => \A j \in Ids : made[j].kind # "event" => made[j].at <= lastPresence
  /\ OneSenses => \A j, k \in Ids : j < k /\ made[k].kind = "presence" /\ made[j].kind # "event"
                                      => made[k].at - made[j].at >= Interval

SgInv == SgTypes /\ Known /\ Line /\ Counts /\ Spacing

LEMMA SgConstants ==
  ASSUME SignalsAssumption
  PROVE  /\ Depth \in Nat /\ Interval \in Nat /\ Signals \in Nat /\ Ticks \in Nat /\ Interval <= Ticks
         /\ Sensing \subseteq Producers /\ IsFiniteSet(Producers) /\ Depth > 0
  BY DEF SignalsAssumption

LEMMA SgInitInv == ASSUME SignalsAssumption, SgInit PROVE SgInv
<1>1. SgTypes
  BY SgConstants DEF SgInit, SgTypes, Calling, Resting, Stats
<1>2. Emitting = {}
  BY DEF SgInit, Emitting, Resting
<1>3. Known /\ Line
  BY <1>2 DEF SgInit, Known, Line
<1>4. Counts
  BY <1>2, FS_EmptySet DEF SgInit, Counts, Held, Posted, Laid, Settled
<1>5. Spacing
  BY DEF SgInit, Spacing, Resting, Ids
<1> QED BY <1>1, <1>3, <1>4, <1>5 DEF SgInv

\* Appending to a sequence of signals.
LEMMA Appended ==
  ASSUME NEW S, NEW s \in Seq(S), NEW x \in S
  PROVE  /\ Append(s, x) \in Seq(S) /\ Len(Append(s, x)) = Len(s) + 1
         /\ DOMAIN Append(s, x) = 1 .. Len(s) + 1 /\ DOMAIN s = 1 .. Len(s) /\ Len(s) \in Nat
         /\ \A k \in 1 .. Len(s) : Append(s, x)[k] = s[k]
         /\ Append(s, x)[Len(s) + 1] = x
  BY AppendProperties

LEMMA Shortened ==
  ASSUME NEW S, NEW s \in Seq(S), s # <<>>
  PROVE  /\ Tail(s) \in Seq(S) /\ Len(Tail(s)) = Len(s) - 1 /\ Len(s) \in Nat /\ Len(s) > 0
         /\ DOMAIN Tail(s) = 1 .. Len(s) - 1 /\ DOMAIN s = 1 .. Len(s)
         /\ \A k \in 1 .. Len(s) - 1 : Tail(s)[k] = s[k + 1]
         /\ Head(s) = s[1] /\ Head(s) \in S
  BY HeadTailProperties

\* What a call does to the signals in hand.
LEMMA EmittingGrows ==
  ASSUME IsFiniteSet(Emitting), NEW p \in Producers, emitter[p].pc \notin {"put", "evict", "again"},
         emitter \in [Producers -> Calling], NEW r \in Calling, r.pc \in {"put", "evict", "again"},
         emitter' = [emitter EXCEPT ![p] = r]
  PROVE  /\ Emitting' = Emitting \cup {p} /\ IsFiniteSet(Emitting') /\ Cardinality(Emitting) \in Nat
         /\ Cardinality(Emitting') = Cardinality(Emitting) + 1
<1>1. Emitting' = Emitting \cup {p} /\ p \notin Emitting
  BY DEF Emitting
<1> QED BY <1>1, FS_AddElement, FS_CardinalityType

LEMMA HandShrinks ==
  ASSUME IsFiniteSet(Emitting), NEW p \in Emitting,
         emitter \in [Producers -> Calling], emitter' = [emitter EXCEPT ![p] = Resting]
  PROVE  /\ Emitting' = Emitting \ {p} /\ IsFiniteSet(Emitting') /\ Cardinality(Emitting) \in Nat
         /\ Cardinality(Emitting') = Cardinality(Emitting) - 1
<1>1. Emitting' = Emitting \ {p} /\ p \in Emitting
  BY DEF Emitting, Resting
<1> QED BY <1>1, FS_RemoveElement, FS_CardinalityType

LEMMA HandStays ==
  ASSUME NEW p \in Emitting, NEW to \in {"put", "evict", "again"},
         emitter \in [Producers -> Calling], emitter' = [emitter EXCEPT ![p].pc = to]
  PROVE  Emitting' = Emitting /\ emitter' \in [Producers -> Calling]
         /\ \A q \in Producers : emitter'[q].sig = emitter[q].sig
  BY DEF Emitting, Calling

LEMMA Counted ==
  ASSUME counted \in Stats, NEW keys \in SUBSET {"queued", "sent", "failed", "dropped"}
  PROVE  /\ Bumped(keys) \in Stats
         /\ Bumped(keys).sent = counted.sent + IF "sent" \in keys THEN 1 ELSE 0
         /\ Bumped(keys).failed = counted.failed + IF "failed" \in keys THEN 1 ELSE 0
         /\ Bumped(keys).dropped = counted.dropped + IF "dropped" \in keys THEN 1 ELSE 0
  BY DEF Bumped, Stats

LEMMA CountTypes ==
  ASSUME SgTypes, Known, IsFiniteSet(Emitting)
  PROVE  /\ counted \in Stats /\ Len(queue) \in Nat /\ Len(made) \in Nat
         /\ Settled \in Nat /\ Laid \in Nat /\ Posted \in Nat /\ Held \in Nat
         /\ Cardinality(Emitting) \in Nat /\ Cardinality(unheard) \in Nat /\ IsFiniteSet(unheard)
<1>a. made \in Seq(SigRec) /\ queue \in Seq(Nat \ {0}) /\ counted \in Stats
  BY DEF SgTypes
<1>1. unheard \subseteq 1 .. Len(made) /\ Len(made) \in Nat /\ counted \in Stats /\ Len(queue) \in Nat
  BY <1>a DEF Known, Ids
<1>b. IsFiniteSet(1 .. Len(made))
  BY <1>1, FS_Interval
<1>2. IsFiniteSet(unheard)
  BY <1>1, <1>b, FS_Subset
<1>3. Cardinality(Emitting) \in Nat /\ Cardinality(unheard) \in Nat
  BY <1>2, FS_CardinalityType
<1>4. Settled \in Nat
  BY <1>1 DEF Settled, Stats
<1>5. Laid \in Nat
  BY <1>1, <1>4 DEF Laid
<1>6. Posted \in Nat
  BY <1>5 DEF Posted
<1> QED BY <1>1, <1>2, <1>3, <1>4, <1>5, <1>6 DEF Held

\* A new signal is younger than all that are known.
LEMMA MintKeeps ==
  ASSUME SignalsAssumption, SgInv, NEW p \in Producers, emitter[p].pc \in {"rest", "stamp"},
         NEW kind \in {"event", "presence", "wake"}, NEW at \in 0 .. Ticks, Mint(p, kind, at),
         UNCHANGED <<queue, drain, counted, stored, unheard>>
  PROVE  /\ made' \in Seq(SigRec) /\ Len(made') = Len(made) + 1 /\ Len(made') <= Signals
         /\ Len(made) \in Nat /\ Ids' = 1 .. Len(made) + 1
         /\ \A j \in Ids : made'[j] = made[j]
         /\ made'[Len(made) + 1] = [by |-> p, kind |-> kind, at |-> at]
         /\ emitter' \in [Producers -> Calling] /\ emitter'[p].pc = "put"
         /\ \A q \in Producers \ {p} : emitter'[q] = emitter[q]
         /\ Known' /\ Line' /\ Counts'
<1> DEFINE new == [pc |-> "put", sig |-> Len(made) + 1, read |-> 0]
<1>0. SgTypes /\ Known /\ Line /\ Counts
  BY DEF SgInv
<1>1. /\ Len(made) < Signals /\ made' = Append(made, [by |-> p, kind |-> kind, at |-> at])
      /\ emitter' = [emitter EXCEPT ![p] = new]
  BY DEF Mint
<1>2. [by |-> p, kind |-> kind, at |-> at] \in SigRec /\ made \in Seq(SigRec) /\ Len(made) \in Nat
  BY <1>0 DEF SgTypes, SigRec
<1>3. /\ made' \in Seq(SigRec) /\ Len(made') = Len(made) + 1 /\ Ids' = 1 .. Len(made) + 1
      /\ \A j \in Ids : made'[j] = made[j]
      /\ made'[Len(made) + 1] = [by |-> p, kind |-> kind, at |-> at]
  BY <1>1, <1>2, Appended DEF Ids
<1>4. Len(made') <= Signals
  BY <1>1, <1>2, <1>3, SgConstants
<1>5. new \in Calling /\ emitter \in [Producers -> Calling] /\ new.pc = "put" /\ new.sig = Len(made) + 1
  BY <1>0, <1>2 DEF Calling, SgTypes, SgConstants, SignalsAssumption
<1> HIDE DEF new
<1>6. /\ emitter' \in [Producers -> Calling] /\ emitter'[p] = new
      /\ \A q \in Producers \ {p} : emitter'[q] = emitter[q]
  BY <1>1, <1>5
<1>7. /\ Emitting' = Emitting \cup {p} /\ p \notin Emitting /\ IsFiniteSet(Emitting')
      /\ Cardinality(Emitting) \in Nat /\ Cardinality(Emitting') = Cardinality(Emitting) + 1
  BY <1>0, <1>1, <1>5, EmittingGrows DEF Counts, Emitting
<1>8. \A q \in Emitting : q \in Producers /\ emitter'[q] = emitter[q]
  BY <1>6, <1>7 DEF Emitting
<1>9. Known'
  <2>1. Ids \subseteq Ids' /\ Len(made) + 1 \in Ids' \ Ids
    BY <1>2, <1>3 DEF Ids
  <2>2. \A q \in Emitting' : emitter'[q].sig \in Ids' \ unheard /\ made'[emitter'[q].sig].by = q
    <3>1. ASSUME NEW q \in Emitting PROVE emitter'[q].sig \in Ids' \ unheard /\ made'[emitter'[q].sig].by = q
      <4>1. emitter[q].sig \in Ids \ unheard /\ made[emitter[q].sig].by = q
        BY <1>0 DEF Known
      <4>2. emitter'[q] = emitter[q]
        BY <1>8
      <4> QED BY <1>3, <2>1, <4>1, <4>2
    <3>2. emitter'[p].sig \in Ids' \ unheard /\ made'[emitter'[p].sig].by = p
      BY <1>0, <1>3, <1>5, <1>6, <2>1 DEF Known
    <3> QED BY <1>7, <3>1, <3>2
  <2>3. /\ \A k \in DOMAIN queue : queue[k] \in Ids'
        /\ \A k \in DOMAIN stored : stored[k] \in Ids'
        /\ drain # 0 => drain \in Ids'
        /\ unheard \subseteq Ids'
    BY <1>0, <2>1 DEF Known
  <2> QED BY <2>2, <2>3 DEF Known
<1>10. Line'
  <2>1. \A x, y \in Ids : Earlier(x, y)' <=> Earlier(x, y)
    BY <1>3 DEF Earlier
  <2>2. \A x \in Ids : x < Len(made) + 1
    BY <1>2 DEF Ids
  <2>3. /\ \A k \in DOMAIN queue : queue[k] \in Ids
        /\ \A k \in DOMAIN stored : stored[k] \in Ids
        /\ drain # 0 => drain \in Ids
        /\ \A q \in Emitting : emitter[q].sig \in Ids
    BY <1>0 DEF Known
  <2>4. /\ \A j, k \in DOMAIN stored : j < k => Earlier(stored[j], stored[k])'
        /\ \A j, k \in DOMAIN queue : j < k => Earlier(queue[j], queue[k])'
        /\ \A j \in DOMAIN stored : \A k \in DOMAIN queue : Earlier(stored[j], queue[k])'
        /\ drain # 0 => /\ \A j \in DOMAIN stored : Earlier(stored[j], drain)'
                        /\ \A k \in DOMAIN queue : Earlier(drain, queue[k])'
    BY <1>0, <2>1, <2>3 DEF Line, Earlier
  <2>5. ASSUME NEW q \in Emitting'
        PROVE  /\ \A j \in DOMAIN stored : Earlier(stored[j], emitter[q].sig)'
               /\ \A k \in DOMAIN queue : Earlier(queue[k], emitter[q].sig)'
               /\ drain # 0 => Earlier(drain, emitter[q].sig)'
    <3>1. CASE q \in Emitting
      BY <1>0, <1>8, <2>1, <2>3, <3>1 DEF Line, Earlier
    <3>2. CASE q = p
      BY <1>5, <1>6, <2>2, <2>3, <3>2 DEF Earlier
    <3> QED BY <1>7, <2>5, <3>1, <3>2
  <2> QED BY <2>4, <2>5 DEF Line, Earlier
<1>11. Counts'
  <2>1. Posted' = Posted
    BY DEF Posted, Laid, Settled
  <2>2. Held' = Held + 1
    BY <1>0, <1>7, <2>1, CountTypes DEF Held, Counts
  <2> QED BY <1>0, <1>3, <1>7, <2>2, CountTypes DEF Counts
<1> QED BY <1>2, <1>3, <1>4, <1>5, <1>6, <1>9, <1>10, <1>11

LEMMA ReportKeeps ==
  ASSUME SignalsAssumption, SgInv, NEW p \in Producers, Report(p) \/ Stamp(p) \/ Wake(p)
  PROVE  SgInv'
<1>0. SgTypes /\ Known /\ Line /\ Counts /\ Spacing
  BY DEF SgInv
<1>1. /\ clock \in 0 .. Ticks /\ clock \in Nat /\ lastPresence \in 0 .. clock /\ Ticks \in Nat
      /\ emitter[p].read \in 0 .. Ticks /\ Interval \in Nat
      /\ made \in Seq(SigRec)
  BY <1>0, SgConstants DEF SgTypes, Calling
<1>2. PICK kind \in {"event", "presence", "wake"}, at \in 0 .. Ticks :
        /\ Mint(p, kind, at) /\ UNCHANGED <<clock, queue, drain, counted, stored, unheard>>
        /\ emitter[p].pc \in {"rest", "stamp"}
        /\ \/ kind = "event" /\ lastPresence' = lastPresence
           \/ /\ kind = "presence" /\ emitter[p].pc = "stamp" /\ at = emitter[p].read
              /\ lastPresence' = at
           \/ kind = "wake" /\ p \in Sensing /\ at = clock /\ lastPresence' = clock
  BY <1>1 DEF Report, Stamp, Wake
<1>3. /\ made' \in Seq(SigRec) /\ Len(made') = Len(made) + 1 /\ Len(made') <= Signals
      /\ Len(made) \in Nat /\ Ids' = 1 .. Len(made) + 1
      /\ \A j \in Ids : made'[j] = made[j]
      /\ made'[Len(made) + 1] = [by |-> p, kind |-> kind, at |-> at]
      /\ emitter' \in [Producers -> Calling] /\ emitter'[p].pc = "put"
      /\ \A q \in Producers \ {p} : emitter'[q] = emitter[q]
      /\ Known' /\ Line' /\ Counts'
  BY <1>2, MintKeeps
<1>4. lastPresence' \in 0 .. clock
  BY <1>0, <1>1, <1>2 DEF Spacing
<1>5. SgTypes'
  <2>1. lastPresence' \in 0 .. clock'
    BY <1>1, <1>2, <1>4
  <2> QED BY <1>0, <1>2, <1>3, <2>1 DEF SgTypes
<1>6. Spacing'
  <2>0. /\ \A q \in Producers : emitter[q].pc = "stamp" =>
             q \in Sensing /\ emitter[q].read <= clock
               /\ (OneSenses => emitter[q].read - lastPresence >= Interval)
        /\ OneSenses => \A j \in Ids : made[j].kind # "event" => made[j].at <= lastPresence
        /\ OneSenses => \A j, k \in Ids : j < k /\ made[k].kind = "presence" /\ made[j].kind # "event"
                                      => made[k].at - made[j].at >= Interval
    BY <1>0 DEF Spacing
  <2>1. Ids = 1 .. Len(made) /\ Ids' = Ids \cup {Len(made) + 1} /\ \A j \in Ids : j < Len(made) + 1
    BY <1>3 DEF Ids
  <2>a. \A j \in Ids : made[j].at \in Nat
    <3>1. \A j \in 1 .. Len(made) : made[j] \in SigRec
      BY <1>1
    <3>2. \A s \in SigRec : s.at \in Nat
      BY <1>1 DEF SigRec
    <3> QED BY <2>1, <3>1, <3>2
  <2>2. ASSUME NEW q \in Producers, emitter'[q].pc = "stamp"
        PROVE  q \in Sensing /\ emitter'[q].read <= clock'
                 /\ (OneSenses => emitter'[q].read - lastPresence' >= Interval)
    <3>1. q # p /\ emitter'[q] = emitter[q] /\ emitter[q].pc = "stamp"
      BY <1>3, <2>2
    <3>2. q \in Sensing /\ emitter'[q].read <= clock'
      BY <1>2, <2>0, <3>1
    <3>3. OneSenses => lastPresence' = lastPresence
      BY <1>2, <2>0, <3>1, <3>2 DEF OneSenses
    <3> QED BY <2>0, <3>1, <3>2, <3>3
  <2>3. OneSenses => \A j \in Ids' : made'[j].kind # "event" => made'[j].at <= lastPresence'
    <3> SUFFICES ASSUME OneSenses, NEW j \in Ids', made'[j].kind # "event"
                 PROVE  made'[j].at <= lastPresence'
      OBVIOUS
    <3>1. CASE j = Len(made) + 1
      BY <1>1, <1>2, <1>3, <3>1
    <3>2. CASE j \in Ids
      <4>1. made'[j] = made[j] /\ made[j].at \in Nat /\ made[j].at <= lastPresence
        BY <1>3, <2>0, <2>a, <3>2
      <4>2. lastPresence \in Nat /\ lastPresence' \in Nat /\ lastPresence <= lastPresence'
        <5>1. CASE kind = "presence"
          <6>1. lastPresence' = emitter[p].read /\ emitter[p].read - lastPresence >= Interval
            BY <1>2, <2>0, <5>1
          <6> QED BY <1>1, <6>1
        <5> QED BY <1>1, <1>2, <5>1
      <4> QED BY <4>1, <4>2
    <3> QED BY <2>1, <3>1, <3>2
  <2>4. OneSenses => \A j, k \in Ids' : j < k /\ made'[k].kind = "presence" /\ made'[j].kind # "event"
                                      => made'[k].at - made'[j].at >= Interval
    <3> SUFFICES ASSUME OneSenses, NEW j \in Ids', NEW k \in Ids', j < k,
                        made'[k].kind = "presence", made'[j].kind # "event"
                 PROVE  made'[k].at - made'[j].at >= Interval
      OBVIOUS
    <3>1. j \in Ids
      BY <1>3, <2>1
    <3>2. CASE k = Len(made) + 1
      <4>1. kind = "presence" /\ made'[k].at = emitter[p].read
            /\ emitter[p].read - lastPresence >= Interval
        BY <1>2, <1>3, <2>0, <3>2
      <4>2. made'[j].at \in Nat /\ made'[j].at <= lastPresence
        BY <1>3, <2>0, <2>a, <3>1
      <4> QED BY <1>1, <4>1, <4>2
    <3>3. CASE k \in Ids
      BY <1>3, <2>0, <3>1, <3>3
    <3> QED BY <2>1, <3>2, <3>3
  <2>5. OneSenses' = OneSenses
    BY DEF OneSenses
  <2> QED BY <2>2, <2>3, <2>4, <2>5 DEF Spacing
<1> QED BY <1>3, <1>5, <1>6 DEF SgInv

LEMMA SenseKeeps ==
  ASSUME SignalsAssumption, SgInv, NEW p \in Producers, Sense(p) PROVE SgInv'
<1>0. SgTypes /\ Known /\ Line /\ Counts /\ Spacing
  BY DEF SgInv
<1> DEFINE r == [pc |-> "stamp", sig |-> 0, read |-> clock]
<1>1. /\ p \in Sensing /\ emitter[p].pc = "rest" /\ clock - lastPresence >= Interval
      /\ emitter' = [emitter EXCEPT ![p] = r]
      /\ UNCHANGED <<clock, lastPresence, made, queue, drain, counted, stored, unheard>>
  BY DEF Sense, Due
<1>2. r \in Calling /\ emitter \in [Producers -> Calling] /\ r.pc = "stamp" /\ r.read = clock
  BY <1>0 DEF SgTypes, Calling
<1> HIDE DEF r
<1>3. /\ emitter' \in [Producers -> Calling] /\ emitter'[p] = r
      /\ \A q \in Producers \ {p} : emitter'[q] = emitter[q]
  BY <1>1, <1>2
<1>4. Emitting' = Emitting /\ \A q \in Emitting : emitter'[q] = emitter[q]
  BY <1>1, <1>2, <1>3 DEF Emitting
<1>5. SgTypes'
  BY <1>0, <1>1, <1>3 DEF SgTypes
<1>6. Known' /\ Line' /\ Counts'
  BY <1>0, <1>1, <1>4 DEF Known, Line, Earlier, Counts, Held, Posted, Laid, Settled, Ids
<1>7. Spacing'
  <2>1. ASSUME NEW q \in Producers, emitter'[q].pc = "stamp"
        PROVE  q \in Sensing /\ emitter'[q].read <= clock'
                 /\ (OneSenses => emitter'[q].read - lastPresence' >= Interval)
    BY <1>0, <1>1, <1>2, <1>3, <2>1 DEF Spacing, SgTypes
  <2> QED BY <1>0, <1>1, <2>1 DEF Spacing, Ids, OneSenses
<1> QED BY <1>5, <1>6, <1>7 DEF SgInv

LEMMA WaitKeeps == ASSUME SignalsAssumption, SgInv, Wait PROVE SgInv'
<1>0. SgTypes /\ Known /\ Line /\ Counts /\ Spacing
  BY DEF SgInv
<1>1. /\ clock < Ticks /\ clock' = clock + 1
      /\ UNCHANGED <<lastPresence, made, queue, emitter, drain, counted, stored, unheard>>
  BY DEF Wait
<1>2. clock \in Nat /\ clock' \in 0 .. Ticks /\ lastPresence \in 0 .. clock' /\ clock <= clock'
  BY <1>0, <1>1, SgConstants DEF SgTypes
<1>3. SgTypes'
  BY <1>0, <1>1, <1>2 DEF SgTypes
<1>4. Emitting' = Emitting
  BY <1>1 DEF Emitting
<1>5. Known' /\ Line' /\ Counts'
  BY <1>0, <1>1, <1>4 DEF Known, Line, Earlier, Counts, Held, Posted, Laid, Settled, Ids
<1>6. \A q \in Producers : emitter[q].read \in Nat
  BY <1>0, SgConstants DEF SgTypes, Calling
<1>7. Spacing'
  BY <1>0, <1>1, <1>2, <1>6 DEF Spacing, Ids, OneSenses
<1> QED BY <1>3, <1>5, <1>7 DEF SgInv

\* A call that ends has put its signal behind those of its producer.
LEMMA QueuesKeeps ==
  ASSUME SignalsAssumption, SgInv, NEW p \in Emitting, Len(queue) < Depth,
         queue' = Append(queue, emitter[p].sig), counted' = Bumped({"queued"}),
         emitter' = [emitter EXCEPT ![p] = Resting],
         UNCHANGED <<clock, lastPresence, made, drain, stored, unheard>>
  PROVE  SgInv'
<1>0. SgTypes /\ Known /\ Line /\ Counts /\ Spacing
  BY DEF SgInv
<1> DEFINE x == emitter[p].sig
<1>1. /\ emitter \in [Producers -> Calling] /\ queue \in Seq(Nat \ {0}) /\ counted \in Stats
      /\ p \in Producers
  BY <1>0 DEF SgTypes, Emitting
<1>2. x \in Ids /\ x \in Nat \ {0} /\ made[x].by = p
  BY <1>0 DEF Known, Ids
<1>3. /\ Emitting' = Emitting \ {p} /\ IsFiniteSet(Emitting') /\ Cardinality(Emitting) \in Nat
      /\ Cardinality(Emitting') = Cardinality(Emitting) - 1
  BY <1>0, <1>1, HandShrinks DEF Counts
<1>4. /\ emitter' \in [Producers -> Calling] /\ \A q \in Producers \ {p} : emitter'[q] = emitter[q]
      /\ emitter'[p].pc = "rest"
  <2>1. Resting \in Calling /\ Resting.pc = "rest"
    BY SgConstants DEF Resting, Calling
  <2> QED BY <1>1, <2>1
<1>5. \A q \in Emitting' : q \in Emitting /\ q \in Producers /\ emitter'[q] = emitter[q] /\ q # p
  BY <1>3, <1>4 DEF Emitting
<1> HIDE DEF x
<1>6. /\ queue' \in Seq(Nat \ {0}) /\ Len(queue') = Len(queue) + 1 /\ Len(queue) \in Nat
      /\ DOMAIN queue' = 1 .. Len(queue) + 1 /\ DOMAIN queue = 1 .. Len(queue)
      /\ \A k \in 1 .. Len(queue) : queue'[k] = queue[k]
      /\ queue'[Len(queue) + 1] = x
  BY <1>1, <1>2, Appended DEF x
<1>7. \A k \in DOMAIN queue' :
        \/ k \in DOMAIN queue /\ queue'[k] = queue[k]
        \/ k = Len(queue) + 1 /\ queue'[k] = x
  BY <1>6
<1>8. counted' \in Stats /\ Settled' = Settled
  <2>1. /\ counted' \in Stats /\ counted'.sent = counted.sent + 0 /\ counted'.failed = counted.failed + 0
        /\ counted'.dropped = counted.dropped + 0
    BY <1>1, Counted
  <2>2. counted.sent \in Nat /\ counted.failed \in Nat /\ counted.dropped \in Nat
    BY <1>1 DEF Stats
  <2>3. counted'.sent = counted.sent /\ counted'.failed = counted.failed /\ counted'.dropped = counted.dropped
    BY <2>1, <2>2
  <2> QED BY <2>1, <2>3 DEF Settled
<1>9. SgTypes'
  <2>1. Len(queue') <= Depth
    BY <1>6, SgConstants
  <2> QED BY <1>0, <1>4, <1>6, <1>8, <2>1 DEF SgTypes
<1>10. Known'
  <2>1. Ids' = Ids /\ made' = made /\ stored' = stored /\ drain' = drain /\ unheard' = unheard
    BY DEF Ids
  <2>2. \A k \in DOMAIN queue' : queue'[k] \in Ids
    BY <1>0, <1>2, <1>7 DEF Known
  <2>3. \A q \in Emitting' : emitter'[q].sig \in Ids \ unheard /\ made[emitter'[q].sig].by = q
    BY <1>0, <1>5 DEF Known
  <2> QED BY <1>0, <2>1, <2>2, <2>3 DEF Known
<1>11. Line'
  <2>0. /\ \A j, k \in DOMAIN stored : j < k => Earlier(stored[j], stored[k])
        /\ \A j, k \in DOMAIN queue : j < k => Earlier(queue[j], queue[k])
        /\ \A j \in DOMAIN stored : \A k \in DOMAIN queue : Earlier(stored[j], queue[k])
        /\ drain # 0 => /\ \A j \in DOMAIN stored : Earlier(stored[j], drain)
                        /\ \A k \in DOMAIN queue : Earlier(drain, queue[k])
        /\ \A q \in Emitting :
             /\ \A j \in DOMAIN stored : Earlier(stored[j], emitter[q].sig)
             /\ \A k \in DOMAIN queue : Earlier(queue[k], emitter[q].sig)
             /\ drain # 0 => Earlier(drain, emitter[q].sig)
    BY <1>0 DEF Line
  <2>1. ASSUME NEW j \in DOMAIN queue', NEW k \in DOMAIN queue', j < k
        PROVE  Earlier(queue'[j], queue'[k])
    <3>1. j \in DOMAIN queue /\ queue'[j] = queue[j]
      BY <1>6, <2>1
    <3> QED BY <1>7, <2>0, <2>1, <3>1 DEF x
  <2>2. ASSUME NEW k \in DOMAIN queue'
        PROVE  /\ \A j \in DOMAIN stored : Earlier(stored[j], queue'[k])
               /\ drain # 0 => Earlier(drain, queue'[k])
    BY <1>7, <2>0, <2>2 DEF x
  <2>3. ASSUME NEW q \in Emitting', NEW k \in DOMAIN queue' PROVE Earlier(queue'[k], emitter'[q].sig)
    <3>1. CASE k \in DOMAIN queue /\ queue'[k] = queue[k]
      BY <1>5, <2>0, <2>3, <3>1
    <3>2. CASE queue'[k] = x
      <4>1. made[emitter'[q].sig].by = q /\ q # p
        BY <1>0, <1>5 DEF Known
      <4> QED BY <1>2, <3>2, <4>1 DEF Earlier
    <3> QED BY <1>7, <3>1, <3>2
  <2>4. \A q \in Emitting' : /\ \A j \in DOMAIN stored : Earlier(stored[j], emitter'[q].sig)
                             /\ drain # 0 => Earlier(drain, emitter'[q].sig)
    BY <1>5, <2>0
  <2>5. stored' = stored /\ drain' = drain /\ made' = made
    OBVIOUS
  <2>6. (\A a, b \in DOMAIN stored : a < b => Earlier(stored[a], stored[b]))'
    BY <2>0, <2>5 DEF Earlier
  <2>7. (\A a, b \in DOMAIN queue : a < b => Earlier(queue[a], queue[b]))'
    BY <2>1, <2>5 DEF Earlier
  <2>8. (\A a \in DOMAIN stored : \A b \in DOMAIN queue : Earlier(stored[a], queue[b]))'
    BY <2>2, <2>5 DEF Earlier
  <2>9. (drain # 0 => /\ \A a \in DOMAIN stored : Earlier(stored[a], drain)
                      /\ \A b \in DOMAIN queue : Earlier(drain, queue[b]))'
    BY <2>0, <2>2, <2>5 DEF Earlier
  <2>10. (\A q \in Emitting : \A a \in DOMAIN stored : Earlier(stored[a], emitter[q].sig))'
    BY <2>4, <2>5 DEF Earlier
  <2>11. (\A q \in Emitting : \A b \in DOMAIN queue : Earlier(queue[b], emitter[q].sig))'
    <3> SUFFICES ASSUME NEW q \in Emitting', NEW b \in DOMAIN queue'
                 PROVE  Earlier(queue'[b], emitter'[q].sig)
      BY <2>5 DEF Earlier
    <3> QED BY <2>3
  <2>12. (\A q \in Emitting : drain # 0 => Earlier(drain, emitter[q].sig))'
    BY <2>4, <2>5 DEF Earlier
  <2> QED BY <2>6, <2>7, <2>8, <2>9, <2>10, <2>11, <2>12 DEF Line
<1>12. Counts'
  <2>1. Laid' = Laid + 1
    BY <1>0, <1>6, <1>8, CountTypes DEF Laid, Counts
  <2>2. Posted' = Posted + 1
    BY <1>0, <2>1, CountTypes DEF Posted, Counts
  <2>3. Held' = Held
    BY <1>0, <1>3, <2>2, CountTypes DEF Held, Counts
  <2> QED BY <1>0, <1>3, <2>3 DEF Counts
<1>13. Spacing'
  <2>1. \A q \in Producers : emitter'[q].pc = "stamp" => emitter'[q] = emitter[q]
    BY <1>1, <1>4
  <2> QED BY <1>0, <2>1 DEF Spacing, Ids, OneSenses
<1> QED BY <1>9, <1>10, <1>11, <1>12, <1>13 DEF SgInv

\* Signals that leave the line do not disturb it.
LEMMA LineShrinks ==
  ASSUME Line, UNCHANGED <<made, stored, drain>>, NEW s \in {0, 1},
         \A k \in DOMAIN queue' : k \in Nat /\ k + s \in DOMAIN queue /\ queue'[k] = queue[k + s],
         \A q \in Emitting' : q \in Emitting /\ emitter'[q].sig = emitter[q].sig
  PROVE  Line'
<1>1. \A a, b : Earlier(a, b)' <=> Earlier(a, b)
  BY DEF Earlier
<1>2. ASSUME NEW j \in DOMAIN queue', NEW k \in DOMAIN queue', j < k
      PROVE  Earlier(queue'[j], queue'[k])
  <2>1. j + s < k + s /\ j + s \in DOMAIN queue /\ k + s \in DOMAIN queue
    BY <1>2
  <2> QED BY <2>1 DEF Line
<1>3. ASSUME NEW k \in DOMAIN queue'
      PROVE  /\ \A j \in DOMAIN stored : Earlier(stored[j], queue'[k])
             /\ drain # 0 => Earlier(drain, queue'[k])
  BY <1>3 DEF Line
<1>4. ASSUME NEW q \in Emitting'
      PROVE  /\ \A j \in DOMAIN stored : Earlier(stored[j], emitter'[q].sig)
             /\ \A k \in DOMAIN queue' : Earlier(queue'[k], emitter'[q].sig)
             /\ drain # 0 => Earlier(drain, emitter'[q].sig)
  BY <1>4 DEF Line
<1>5. stored' = stored /\ drain' = drain /\ made' = made
  OBVIOUS
<1>6. \A j, k \in DOMAIN stored : j < k => Earlier(stored[j], stored[k])
  BY DEF Line
<1>7. drain # 0 => \A j \in DOMAIN stored : Earlier(stored[j], drain)
  BY DEF Line
<1> QED BY <1>1, <1>2, <1>3, <1>4, <1>5, <1>6, <1>7 DEF Line, Earlier

\* A call that ends, or that goes on with the same signal.
LEMMA CallEnds ==
  ASSUME SignalsAssumption, SgInv, NEW p \in Emitting, emitter' = [emitter EXCEPT ![p] = Resting],
         UNCHANGED <<clock, lastPresence, made>>
  PROVE  /\ emitter' \in [Producers -> Calling] /\ Spacing'
         /\ Emitting' = Emitting \ {p} /\ IsFiniteSet(Emitting') /\ Cardinality(Emitting) \in Nat
         /\ Cardinality(Emitting') = Cardinality(Emitting) - 1
         /\ \A q \in Emitting' : q \in Emitting /\ emitter'[q] = emitter[q] /\ q # p
<1>0. SgTypes /\ Counts /\ Spacing
  BY DEF SgInv
<1>1. emitter \in [Producers -> Calling] /\ p \in Producers
  BY <1>0 DEF SgTypes, Emitting
<1>2. /\ Emitting' = Emitting \ {p} /\ IsFiniteSet(Emitting') /\ Cardinality(Emitting) \in Nat
      /\ Cardinality(Emitting') = Cardinality(Emitting) - 1
  BY <1>0, <1>1, HandShrinks DEF Counts
<1>3. Resting \in Calling /\ Resting.pc = "rest"
  BY SgConstants DEF Resting, Calling
<1>4. /\ emitter' \in [Producers -> Calling] /\ \A q \in Producers \ {p} : emitter'[q] = emitter[q]
      /\ emitter'[p].pc = "rest"
  BY <1>1, <1>3
<1>5. \A q \in Emitting' : q \in Emitting /\ emitter'[q] = emitter[q] /\ q # p
  BY <1>2, <1>4 DEF Emitting
<1>6. \A q \in Producers : emitter'[q].pc = "stamp" => emitter'[q] = emitter[q]
  BY <1>1, <1>4
<1>7. Spacing'
  BY <1>0, <1>6 DEF Spacing, Ids, OneSenses
<1> QED BY <1>2, <1>4, <1>5, <1>7

LEMMA CallGoesOn ==
  ASSUME SignalsAssumption, SgInv, NEW p \in Emitting, NEW to \in {"evict", "again"},
         emitter' = [emitter EXCEPT ![p].pc = to], UNCHANGED <<clock, lastPresence, made>>
  PROVE  /\ emitter' \in [Producers -> Calling] /\ Spacing' /\ Emitting' = Emitting
         /\ \A q \in Emitting' : q \in Emitting /\ emitter'[q].sig = emitter[q].sig
<1>0. SgTypes /\ Counts /\ Spacing
  BY DEF SgInv
<1>1. emitter \in [Producers -> Calling] /\ p \in Producers
  BY <1>0 DEF SgTypes, Emitting
<1>2. Emitting' = Emitting /\ emitter' \in [Producers -> Calling]
      /\ \A q \in Producers : emitter'[q].sig = emitter[q].sig
  BY <1>1, HandStays
<1>3. \A q \in Producers : emitter'[q].pc = "stamp" => emitter'[q] = emitter[q]
  BY <1>1
<1>4. Spacing'
  BY <1>0, <1>3 DEF Spacing, Ids, OneSenses
<1> QED BY <1>2, <1>4 DEF Emitting

LEMMA PutKeeps ==
  ASSUME SignalsAssumption, SgInv, NEW p \in Producers, Put(p) \/ PutAgain(p) PROVE SgInv'
<1>0. SgTypes /\ Known /\ Line /\ Counts /\ Spacing
  BY DEF SgInv
<1>1. p \in Emitting /\ UNCHANGED <<clock, lastPresence, made, drain, stored>>
  BY DEF Put, PutAgain, Emitting
<1>2. CASE Len(queue) < Depth /\ queue' = Append(queue, emitter[p].sig)
           /\ counted' = Bumped({"queued"}) /\ emitter' = [emitter EXCEPT ![p] = Resting]
           /\ UNCHANGED unheard
  BY <1>1, <1>2, QueuesKeeps
<1>3. CASE emitter' = [emitter EXCEPT ![p].pc = "evict"] /\ UNCHANGED <<queue, counted, unheard>>
  <2>1. /\ emitter' \in [Producers -> Calling] /\ Spacing' /\ Emitting' = Emitting
        /\ \A q \in Emitting' : q \in Emitting /\ emitter'[q].sig = emitter[q].sig
    BY <1>1, <1>3, CallGoesOn
  <2>2. SgTypes'
    BY <1>0, <1>1, <1>3, <2>1 DEF SgTypes
  <2>3. Known'
    BY <1>0, <1>1, <1>3, <2>1 DEF Known, Ids
  <2>4. Line'
    BY <1>0, <1>1, <1>3, <2>1 DEF Line, Earlier
  <2>5. Counts'
    BY <1>0, <1>1, <1>3, <2>1 DEF Counts, Held, Posted, Laid, Settled
  <2> QED BY <2>1, <2>2, <2>3, <2>4, <2>5 DEF SgInv
<1>4. CASE /\ unheard' = unheard \cup {emitter[p].sig} /\ emitter' = [emitter EXCEPT ![p] = Resting]
           /\ UNCHANGED <<queue, counted>>
  <2>1. /\ emitter' \in [Producers -> Calling] /\ Spacing'
        /\ Emitting' = Emitting \ {p} /\ IsFiniteSet(Emitting') /\ Cardinality(Emitting) \in Nat
        /\ Cardinality(Emitting') = Cardinality(Emitting) - 1
        /\ \A q \in Emitting' : q \in Emitting /\ emitter'[q] = emitter[q] /\ q # p
    BY <1>1, <1>4, CallEnds
  <2>2. emitter[p].sig \in Ids \ unheard /\ made[emitter[p].sig].by = p
    BY <1>0, <1>1 DEF Known
  <2>3. SgTypes'
    BY <1>0, <1>1, <1>4, <2>1 DEF SgTypes
  <2>4. Known'
    <3>1. \A q \in Emitting' : emitter'[q].sig \in Ids \ unheard' /\ made[emitter'[q].sig].by = q
      <4> SUFFICES ASSUME NEW q \in Emitting'
                   PROVE  emitter'[q].sig \in Ids \ unheard' /\ made[emitter'[q].sig].by = q
        OBVIOUS
      <4>1. emitter'[q].sig \in Ids \ unheard /\ made[emitter'[q].sig].by = q /\ q # p
        BY <1>0, <2>1 DEF Known
      <4> QED BY <1>4, <2>2, <4>1
    <3>2. unheard' \subseteq Ids
      BY <1>0, <1>4, <2>2 DEF Known
    <3> QED BY <1>0, <1>1, <1>4, <3>1, <3>2 DEF Known, Ids
  <2>5. Line'
    BY <1>0, <1>1, <1>4, <2>1 DEF Line, Earlier
  <2>6. Counts'
    <3>1. Posted' = Posted
      BY <1>1, <1>4 DEF Posted, Laid, Settled
    <3>2. Held' = Held - 1
      BY <1>0, <2>1, <3>1, CountTypes DEF Held, Counts
    <3>3. Cardinality(unheard') = Cardinality(unheard) + 1
      BY <1>0, <1>4, <2>2, CountTypes, FS_AddElement DEF Counts
    <3> QED BY <1>0, <1>1, <2>1, <3>2, <3>3, CountTypes DEF Counts
  <2> QED BY <2>1, <2>3, <2>4, <2>5, <2>6 DEF SgInv
<1> QED BY <1>2, <1>3, <1>4 DEF Put, PutAgain

\* The oldest signal makes room, or the new one is given up.
LEMMA EvictKeeps ==
  ASSUME SignalsAssumption, SgInv, NEW p \in Producers, Evict(p) PROVE SgInv'
<1>0. SgTypes /\ Known /\ Line /\ Counts /\ Spacing
  BY DEF SgInv
<1>1. /\ p \in Emitting /\ counted' = Bumped({"dropped"})
      /\ UNCHANGED <<clock, lastPresence, made, drain, stored, unheard>>
  BY DEF Evict, Emitting
<1>2. counted' \in Stats /\ Settled' = Settled + 1
  <2>0. counted \in Stats
    BY <1>0 DEF SgTypes
  <2>1. /\ counted' \in Stats /\ counted'.sent = counted.sent + 0 /\ counted'.failed = counted.failed + 0
        /\ counted'.dropped = counted.dropped + 1
    BY <1>1, <2>0, Counted
  <2>2. counted.sent \in Nat /\ counted.failed \in Nat /\ counted.dropped \in Nat
    BY <2>0 DEF Stats
  <2>3. counted'.sent = counted.sent /\ counted'.failed = counted.failed
    BY <2>1, <2>2
  <2> QED BY <2>1, <2>2, <2>3 DEF Settled
<1>3. CASE emitter' = [emitter EXCEPT ![p] = Resting] /\ UNCHANGED queue
  <2>1. /\ emitter' \in [Producers -> Calling] /\ Spacing'
        /\ Emitting' = Emitting \ {p} /\ IsFiniteSet(Emitting') /\ Cardinality(Emitting) \in Nat
        /\ Cardinality(Emitting') = Cardinality(Emitting) - 1
        /\ \A q \in Emitting' : q \in Emitting /\ emitter'[q] = emitter[q] /\ q # p
    BY <1>1, <1>3, CallEnds
  <2>2. SgTypes'
    BY <1>0, <1>1, <1>2, <1>3, <2>1 DEF SgTypes
  <2>3. Known'
    BY <1>0, <1>1, <1>3, <2>1 DEF Known, Ids
  <2>4. Line'
    BY <1>0, <1>1, <1>3, <2>1 DEF Line, Earlier
  <2>5. Counts'
    <3>1. Laid' = Laid + 1
      BY <1>0, <1>2, <1>3, CountTypes DEF Laid, Counts
    <3>2. Posted' = Posted + 1
      BY <1>0, <1>1, <3>1, CountTypes DEF Posted, Counts
    <3>3. Held' = Held
      BY <1>0, <2>1, <3>2, CountTypes DEF Held, Counts
    <3> QED BY <1>0, <1>1, <2>1, <3>3 DEF Counts
  <2> QED BY <2>1, <2>2, <2>3, <2>4, <2>5 DEF SgInv
<1>4. CASE queue # <<>> /\ emitter' = [emitter EXCEPT ![p].pc = "again"] /\ queue' = Tail(queue)
  <2>1. /\ emitter' \in [Producers -> Calling] /\ Spacing' /\ Emitting' = Emitting
        /\ \A q \in Emitting' : q \in Emitting /\ emitter'[q].sig = emitter[q].sig
    BY <1>1, <1>4, CallGoesOn
  <2>2. /\ queue' \in Seq(Nat \ {0}) /\ Len(queue') = Len(queue) - 1 /\ Len(queue) \in Nat
        /\ DOMAIN queue' = 1 .. Len(queue) - 1 /\ DOMAIN queue = 1 .. Len(queue)
        /\ \A k \in 1 .. Len(queue) - 1 : queue'[k] = queue[k + 1]
    BY <1>0, <1>4, Shortened DEF SgTypes
  <2>3. \A k \in DOMAIN queue' : k \in Nat /\ k + 1 \in DOMAIN queue /\ queue'[k] = queue[k + 1]
    BY <2>2
  <2>4. SgTypes'
    <3>1. Len(queue') <= Depth
      BY <1>0, <2>2, SgConstants DEF SgTypes
    <3> QED BY <1>0, <1>1, <1>2, <2>1, <2>2, <3>1 DEF SgTypes
  <2>5. Known'
    BY <1>0, <1>1, <2>1, <2>3 DEF Known, Ids
  <2>6. Line'
    BY <1>0, <1>1, <2>1, <2>3, LineShrinks
  <2>7. Counts'
    <3>a. Settled \in Nat /\ Len(queue) \in Nat
      BY <1>0, CountTypes DEF Counts
    <3>1. Laid' = Laid
      BY <1>2, <2>2, <3>a DEF Laid
    <3>2. Held' = Held
      BY <1>1, <2>1, <3>1 DEF Posted, Held
    <3> QED BY <1>0, <1>1, <2>1, <3>2 DEF Counts
  <2> QED BY <2>1, <2>4, <2>5, <2>6, <2>7 DEF SgInv
<1> QED BY <1>3, <1>4 DEF Evict

\* The worker posts the oldest of the signals that wait.
LEMMA TakeKeeps == ASSUME SignalsAssumption, SgInv, Take PROVE SgInv'
<1>0. SgTypes /\ Known /\ Line /\ Counts /\ Spacing
  BY DEF SgInv
<1>1. /\ drain = 0 /\ queue # <<>> /\ drain' = Head(queue) /\ queue' = Tail(queue)
      /\ UNCHANGED <<clock, lastPresence, made, emitter, counted, stored, unheard>>
  BY DEF Take
<1>2. /\ queue' \in Seq(Nat \ {0}) /\ Len(queue') = Len(queue) - 1 /\ Len(queue) \in Nat
      /\ Len(queue) > 0 /\ DOMAIN queue' = 1 .. Len(queue) - 1 /\ DOMAIN queue = 1 .. Len(queue)
      /\ \A k \in 1 .. Len(queue) - 1 : queue'[k] = queue[k + 1]
      /\ drain' = queue[1] /\ drain' \in Nat \ {0}
  BY <1>0, <1>1, Shortened DEF SgTypes
<1>3. 1 \in DOMAIN queue /\ \A k \in DOMAIN queue' : /\ k \in Nat /\ k + 1 \in DOMAIN queue /\ 1 < k + 1
                                                     /\ queue'[k] = queue[k + 1]
  BY <1>2
<1>4. Emitting' = Emitting
  BY <1>1 DEF Emitting
<1>5. SgTypes'
  <2>1. Len(queue') <= Depth
    BY <1>0, <1>2, SgConstants DEF SgTypes
  <2> QED BY <1>0, <1>1, <1>2, <2>1 DEF SgTypes
<1>6. Known'
  BY <1>0, <1>1, <1>2, <1>3, <1>4 DEF Known, Ids
<1>7. Line'
  <2>0. /\ \A j, k \in DOMAIN stored : j < k => Earlier(stored[j], stored[k])
        /\ \A j, k \in DOMAIN queue : j < k => Earlier(queue[j], queue[k])
        /\ \A j \in DOMAIN stored : \A k \in DOMAIN queue : Earlier(stored[j], queue[k])
        /\ \A q \in Emitting :
             /\ \A j \in DOMAIN stored : Earlier(stored[j], emitter[q].sig)
             /\ \A k \in DOMAIN queue : Earlier(queue[k], emitter[q].sig)
    BY <1>0 DEF Line
  <2>1. \A a, b : Earlier(a, b)' <=> Earlier(a, b)
    BY <1>1 DEF Earlier
  <2>2. ASSUME NEW j \in DOMAIN queue', NEW k \in DOMAIN queue', j < k
        PROVE  Earlier(queue'[j], queue'[k])
    <3>1. j + 1 < k + 1
      BY <1>3, <2>2
    <3> QED BY <1>3, <2>0, <2>2, <3>1
  <2>3. ASSUME NEW k \in DOMAIN queue'
        PROVE  /\ \A j \in DOMAIN stored : Earlier(stored[j], queue'[k])
               /\ Earlier(drain', queue'[k])
    BY <1>2, <1>3, <2>0, <2>3
  <2>4. \A j \in DOMAIN stored : Earlier(stored[j], drain')
    BY <1>2, <1>3, <2>0
  <2>5. ASSUME NEW q \in Emitting
        PROVE  /\ \A j \in DOMAIN stored : Earlier(stored[j], emitter[q].sig)
               /\ \A k \in DOMAIN queue' : Earlier(queue'[k], emitter[q].sig)
               /\ Earlier(drain', emitter[q].sig)
    BY <1>2, <1>3, <2>0, <2>5
  <2> QED BY <1>1, <1>4, <2>0, <2>1, <2>2, <2>3, <2>4, <2>5 DEF Line, Earlier
<1>8. Counts'
  <2>1. Laid' = Laid - 1
    BY <1>0, <1>1, <1>2, CountTypes DEF Laid, Settled, Counts
  <2>2. Posted' = Posted
    BY <1>0, <1>1, <1>2, <2>1, CountTypes DEF Posted, Counts
  <2>3. Held' = Held
    BY <1>4, <2>2 DEF Held
  <2> QED BY <1>0, <1>1, <1>4, <2>3 DEF Counts
<1>9. Spacing'
  BY <1>0, <1>1 DEF Spacing, Ids, OneSenses
<1> QED BY <1>5, <1>6, <1>7, <1>8, <1>9 DEF SgInv

LEMMA PostKeeps == ASSUME SignalsAssumption, SgInv, Post PROVE SgInv'
<1>0. SgTypes /\ Known /\ Line /\ Counts /\ Spacing
  BY DEF SgInv
<1>1. /\ drain # 0 /\ drain' = 0 /\ stored' \in {stored, Append(stored, drain)}
      /\ counted' = Bumped({"sent"}) \/ counted' = Bumped({"failed"})
      /\ UNCHANGED <<clock, lastPresence, made, queue, emitter, unheard>>
  BY DEF Post
<1>2. drain \in Ids /\ drain \in Nat \ {0} /\ stored \in Seq(Nat \ {0})
  BY <1>0, <1>1 DEF Known, SgTypes
<1>3. counted' \in Stats /\ Settled' = Settled + 1
  <2>0. counted \in Stats
    BY <1>0 DEF SgTypes
  <2>1. counted.sent \in Nat /\ counted.failed \in Nat /\ counted.dropped \in Nat
    BY <2>0 DEF Stats
  <2>2. /\ counted' \in Stats /\ counted'.dropped = counted.dropped
        /\ \/ counted'.sent = counted.sent + 1 /\ counted'.failed = counted.failed
           \/ counted'.sent = counted.sent /\ counted'.failed = counted.failed + 1
    <3>1. CASE counted' = Bumped({"sent"})
      <4>1. /\ counted' \in Stats /\ counted'.sent = counted.sent + 1
            /\ counted'.failed = counted.failed + 0 /\ counted'.dropped = counted.dropped + 0
        BY <2>0, <3>1, Counted
      <4> QED BY <2>1, <4>1
    <3>2. CASE counted' = Bumped({"failed"})
      <4>1. /\ counted' \in Stats /\ counted'.sent = counted.sent + 0
            /\ counted'.failed = counted.failed + 1 /\ counted'.dropped = counted.dropped + 0
        BY <2>0, <3>2, Counted
      <4> QED BY <2>1, <4>1
    <3> QED BY <1>1, <3>1, <3>2
  <2> QED BY <2>1, <2>2 DEF Settled
<1>4. Emitting' = Emitting
  BY <1>1 DEF Emitting
<1>5. stored' \in Seq(Nat \ {0}) /\ \A k \in DOMAIN stored' :
        \/ k \in DOMAIN stored /\ stored'[k] = stored[k]
        \/ /\ stored'[k] = drain /\ \A j \in DOMAIN stored' : j < k => j \in DOMAIN stored /\ stored'[j] = stored[j]
           /\ \A j \in DOMAIN stored' : j <= k
  <2>1. CASE stored' = stored
    BY <1>2, <2>1
  <2>2. CASE stored' = Append(stored, drain)
    <3>1. /\ stored' \in Seq(Nat \ {0}) /\ Len(stored) \in Nat
          /\ DOMAIN stored' = 1 .. Len(stored) + 1 /\ DOMAIN stored = 1 .. Len(stored)
          /\ \A k \in 1 .. Len(stored) : stored'[k] = stored[k]
          /\ stored'[Len(stored) + 1] = drain
      BY <1>2, <2>2, Appended
    <3> QED BY <3>1
  <2> QED BY <1>1, <2>1, <2>2
<1>6. SgTypes'
  BY <1>0, <1>1, <1>3, <1>5 DEF SgTypes
<1>7. Known'
  BY <1>0, <1>1, <1>2, <1>4, <1>5 DEF Known, Ids
<1>8. Line'
  <2>0. /\ \A j, k \in DOMAIN stored : j < k => Earlier(stored[j], stored[k])
        /\ \A j, k \in DOMAIN queue : j < k => Earlier(queue[j], queue[k])
        /\ \A j \in DOMAIN stored : \A k \in DOMAIN queue : Earlier(stored[j], queue[k])
        /\ \A j \in DOMAIN stored : Earlier(stored[j], drain)
        /\ \A k \in DOMAIN queue : Earlier(drain, queue[k])
        /\ \A q \in Emitting :
             /\ \A j \in DOMAIN stored : Earlier(stored[j], emitter[q].sig)
             /\ \A k \in DOMAIN queue : Earlier(queue[k], emitter[q].sig)
             /\ Earlier(drain, emitter[q].sig)
    BY <1>0, <1>1 DEF Line
  <2>1. \A a, b : Earlier(a, b)' <=> Earlier(a, b)
    BY <1>1 DEF Earlier
  <2>2. ASSUME NEW j \in DOMAIN stored', NEW k \in DOMAIN stored', j < k
        PROVE  Earlier(stored'[j], stored'[k])
    <3>1. CASE k \in DOMAIN stored /\ stored'[k] = stored[k]
      <4>1. j \in DOMAIN stored /\ stored'[j] = stored[j]
        <5>1. j \in Nat /\ k \in Nat /\ ~(k <= j)
          BY <1>2, <1>5, <2>2
        <5> QED BY <1>5, <5>1
      <4> QED BY <2>0, <2>2, <3>1, <4>1
    <3>2. CASE stored'[k] = drain /\ j \in DOMAIN stored /\ stored'[j] = stored[j]
      BY <2>0, <3>2
    <3> QED BY <1>5, <2>2, <3>1, <3>2
  <2>3. \A j \in DOMAIN stored' : \A k \in DOMAIN queue : Earlier(stored'[j], queue[k])
    BY <1>5, <2>0
  <2>4. \A q \in Emitting : /\ \A j \in DOMAIN stored' : Earlier(stored'[j], emitter[q].sig)
                            /\ \A k \in DOMAIN queue : Earlier(queue[k], emitter[q].sig)
    BY <1>5, <2>0
  <2> QED BY <1>1, <1>4, <2>0, <2>1, <2>2, <2>3, <2>4 DEF Line, Earlier
<1>9. Counts'
  <2>1. Laid' = Laid + 1
    BY <1>0, <1>1, <1>3, CountTypes DEF Laid, Counts
  <2>2. Posted' = Posted
    BY <1>0, <1>1, <2>1, CountTypes DEF Posted, Counts
  <2>3. Held' = Held
    BY <1>4, <2>2 DEF Held
  <2> QED BY <1>0, <1>1, <1>4, <2>3 DEF Counts
<1>10. Spacing'
  BY <1>0, <1>1 DEF Spacing, Ids, OneSenses
<1> QED BY <1>6, <1>7, <1>8, <1>9, <1>10 DEF SgInv

LEMMA SgStep == SignalsAssumption /\ SgInv /\ [SgNext]_signalVars => SgInv'
<1> SUFFICES ASSUME SignalsAssumption, SgInv, [SgNext]_signalVars PROVE SgInv'
  OBVIOUS
<1>1. CASE UNCHANGED signalVars
  BY <1>1 DEF signalVars, SgInv, SgTypes, Known, Line, Earlier, Counts, Held, Posted, Laid, Settled,
              Spacing, OneSenses, Ids, Emitting
<1> QED BY <1>1, WaitKeeps, ReportKeeps, SenseKeeps, PutKeeps, EvictKeeps, TakeKeeps, PostKeeps
        DEF SgNext, Emit

LEMMA SgEnds ==
  SignalsAssumption /\ SgInv =>
    SignalsTypeOK /\ SignalsAreCounted /\ SignalsKeepOrder /\ PresenceIsSpaced
<1> SUFFICES ASSUME SignalsAssumption, SgInv
             PROVE  SignalsTypeOK /\ SignalsAreCounted /\ SignalsKeepOrder /\ PresenceIsSpaced
  OBVIOUS
<1>0. SgTypes /\ Known /\ Line /\ Counts /\ Spacing
  BY DEF SgInv
<1>1. SignalsTypeOK
  <2>1. lastPresence \in 0 .. Ticks /\ drain \in 0 .. Signals
    <3>1. clock \in 0 .. Ticks /\ lastPresence \in 0 .. clock /\ drain \in Nat /\ Len(made) <= Signals
      BY <1>0 DEF SgTypes
    <3>2. Ticks \in Nat /\ Signals \in Nat /\ Len(made) \in Nat
      BY <1>0, SgConstants, CountTypes DEF Counts
    <3>3. drain # 0 => drain \in 1 .. Len(made)
      BY <1>0 DEF Known, Ids
    <3>4. lastPresence \in 0 .. Ticks
      BY <3>1, <3>2
    <3> QED BY <3>1, <3>2, <3>3, <3>4
  <2>2. \A p \in Producers : emitter[p].pc \in {"rest", "stamp", "put", "evict", "again"}
    BY <1>0 DEF SgTypes, Calling
  <2>3. /\ clock \in 0 .. Ticks /\ Len(queue) <= Depth
        /\ made \in Seq([by : Producers, kind : {"event", "presence", "wake"}, at : 0 .. Ticks])
    BY <1>0 DEF SgTypes, SigRec
  <2> QED BY <2>1, <2>2, <2>3 DEF SignalsTypeOK
<1>2. SignalsAreCounted
  BY <1>0 DEF Counts, Held, Posted, Laid, Settled, SignalsAreCounted
<1>3. SignalsKeepOrder
  BY <1>0 DEF Line, Earlier, SignalsKeepOrder
<1>4. PresenceIsSpaced
  <2>1. Cardinality(Sensing) = 1 => OneSenses
    <3>1. IsFiniteSet(Sensing)
      BY SgConstants, FS_Subset
    <3>2. Cardinality(Sensing) = 1 => \E s : Sensing = {s}
      BY <3>1, FS_Singleton
    <3> QED BY <3>2 DEF OneSenses
  <2>2. DOMAIN made = Ids
    BY <1>0 DEF SgTypes, Ids
  <2> QED BY <1>0, <2>1, <2>2 DEF Spacing, PresenceIsSpaced
<1> QED BY <1>1, <1>2, <1>3, <1>4

\* A signal that is lost is counted but for the race at the bound, one producer's arrive
\* in their order, and one sensing thread reports a presence once an interval: for any
\* producers, any capacity and any number of signals (awareness_signals.py).
THEOREM SignalsAreFaithful ==
  SignalsAssumption =>
    (SgSpec => [](SignalsTypeOK /\ SignalsAreCounted /\ SignalsKeepOrder /\ PresenceIsSpaced))
<1> SUFFICES ASSUME SignalsAssumption
             PROVE  SgSpec
                      => [](SignalsTypeOK /\ SignalsAreCounted /\ SignalsKeepOrder /\ PresenceIsSpaced)
  OBVIOUS
<1>1. SgInit => SgInv
  BY SgInitInv
<1>2. SgInv /\ [SgNext]_signalVars => SgInv'
  BY SgStep
<1>3. SgInv => SignalsTypeOK /\ SignalsAreCounted /\ SignalsKeepOrder /\ PresenceIsSpaced
  BY SgEnds
<1> QED BY <1>1, <1>2, <1>3, PTL DEF SgSpec

=============================================================================
