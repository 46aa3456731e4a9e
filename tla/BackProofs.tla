------------------------------ MODULE BackProofs ------------------------------
(* What Backend guarantees for every set of workers in every order of         *)
(* stopping: the types, that a health answer is backed by what the service    *)
(* was during the request, and that the engine outlives what uses it; and     *)
(* what Recall guarantees for every set of writers and a table of any size:   *)
(* a value that was replaced has one replacement, which points back at it;    *)
(* what Briefing guarantees for any items, moments, lanes and mishaps: an     *)
(* item is told again only for a reason, and what was chosen is not lost;     *)
(* what McpClient guarantees for any providers and callers, and Launcher for  *)
(* any components, starts and presses of Stop; and at the end, what all of    *)
(* them are together.                                                         *)
EXTENDS MCBack, TLAPS, FiniteSetTheorems

-----------------------------------------------------------------------------
(* Backend: the inductive invariant                                           *)

\* What the loops say of themselves is true, at least of what counts as healthy.
Honest ==
  /\ \A w \in Workers : loop[w].state = "running" => loop[w].pc \in {"pass", "wait"}
  /\ ingress.state = "connected" => ingress.pc \in Linked

\* The tasks before the one that is being stopped have ended, and all have at the end.
Ends ==
  /\ process.phase \in {"starting", "serving"} => process.at = 1
  /\ process.phase = "starting" => ingress.pc = "off" /\ ingress.state = "disconnected" /\ ~ingress.cancel
  /\ \A j \in DOMAIN StopOrder : j < process.at => loop[StopOrder[j]].pc = "gone"
  /\ process.phase = "stopped" => process.at = Len(StopOrder) + 1 /\ ingress.pc = "gone"

Loops == BackendTypeOK /\ (ingress.pc = "subscribing" => ingress.left > 0) /\ Honest /\ Ends

\* The watch knows the moment it is at.
Eyes == Asking => (Fine(query.watch) => query.fine) /\ (~Fine(query.watch) => query.ill)

\* What a request has read at each of its stages.
AtOnce == Workers \ (ReadFirst \cup ReadSecond)
ReadBy(stage) ==
  IF stage = "first" THEN AtOnce
  ELSE IF stage = "second" THEN AtOnce \cup ReadFirst \cup {"mqtt"}
  ELSE IF stage = "database" THEN Workers \cup {"mqtt"}
  ELSE IF stage \in {"extensions", "migrations"} THEN Workers \cup {"mqtt", "database"}
  ELSE IF stage = "healthy" THEN Components
  ELSE {}

\* What was read as well was well at some moment.
Backed ==
  /\ ~query.sick \/ query.stage = "healthy" => (query.watch \in ReadBy(query.stage) => query.fine)
  /\ query.stage = "unavailable" /\ query.watch = "database" => query.ill

IInv == Loops /\ Eyes /\ Backed

-----------------------------------------------------------------------------
LEMMA InitHolds == BkInit => IInv
<1> SUFFICES ASSUME BkInit PROVE IInv
  OBVIOUS
<1>1. Len(StopOrder) \in Nat
  BY BackendAssumption
<1>2. BackendTypeOK
  BY <1>1, BackendAssumption DEF BkInit, BackendTypeOK, NoQuery, Components, Workers, Linked, Answers
<1>3. Honest /\ Ends
  BY <1>1 DEF BkInit, Honest, Ends
<1>4. (ingress.pc = "subscribing" => ingress.left > 0) /\ Eyes /\ Backed
  BY DEF BkInit, Eyes, Backed, ReadBy, Asking, NoQuery, Answers
<1> QED BY <1>2, <1>3, <1>4 DEF IInv, Loops

\* A request leaves the loops alone, and the watch touches only the request.
LEMMA WatchTypes ==
  ASSUME BackendTypeOK, Watched
  PROVE  /\ query'.stage = query.stage /\ query'.sick = query.sick /\ query'.watch = query.watch
         /\ query' \in [stage : {"none", "first", "second", "database", "extensions", "migrations"}
                                  \cup Answers,
                        sick : BOOLEAN, watch : Components, fine : BOOLEAN, ill : BOOLEAN]
         /\ query.fine => query'.fine
         /\ query.ill => query'.ill
         /\ Asking => (Fine(query.watch)' => query'.fine) /\ (~Fine(query.watch)' => query'.ill)
<1>1. query \in [stage : {"none", "first", "second", "database", "extensions", "migrations"}
                   \cup Answers,
                 sick : BOOLEAN, watch : Components, fine : BOOLEAN, ill : BOOLEAN]
  BY DEF BackendTypeOK
<1>2. PICK c \in {query.watch} :
        query' = IF Asking THEN [query EXCEPT !.fine = @ \/ Fine(c)', !.ill = @ \/ ~Fine(c)'] ELSE query
  BY DEF Watched
<1>3. CASE ~Asking
  BY <1>1, <1>2, <1>3
<1>4. CASE Asking
  <2> DEFINE f == Fine(c)'
  <2>1. query' = [query EXCEPT !.fine = @ \/ f, !.ill = @ \/ ~f]
    BY <1>2, <1>4
  <2> QED BY <1>1, <1>2, <2>1 
<1> QED BY <1>3, <1>4

LEMMA WatchKeeps ==
  ASSUME BackendTypeOK, Backed, Watched
  PROVE  Eyes' /\ Backed'
<1>1. Eyes'
  BY WatchTypes DEF Eyes, Asking, Answers
<1>2. Backed'
  BY WatchTypes DEF Backed, ReadBy, Components, Workers
<1> QED BY <1>1, <1>2

-----------------------------------------------------------------------------
(* What each kind of step does to the loops. The request is typed by itself.  *)

LoopRec == [pc : {"off", "pass", "wait", "gone"}, state : {"running", "stopped"},
            failed : BOOLEAN, stop : BOOLEAN, cancel : BOOLEAN]
IngressRec == [pc : {"off", "retry", "connecting", "backoff", "gone"} \cup Linked,
               state : {"disconnected", "connecting", "connected", "stopped"}, failed : BOOLEAN,
               attempt : 0 .. Cap, left : 0 .. Topics, cut : BOOLEAN, stop : BOOLEAN, cancel : BOOLEAN]

Frame ==
  /\ process \in [phase : {"starting", "serving", "stopping", "stopped"}, at : 1 .. Len(StopOrder) + 1]
  /\ world \in [database : {"up", "down"}, schema : {"none", "behind", "head"}, broker : {"up", "down"}]
  /\ loop \in [Workers -> LoopRec]
  /\ ingress \in IngressRec
  /\ (ingress.pc = "subscribing" => ingress.left > 0) /\ Honest /\ Ends

LEMMA Surroundings ==
  ASSUME Frame, DatabaseFlips \/ BrokerFlips \/ Migrate
  PROVE  Frame'
<1>1. UNCHANGED <<process, loop>>
  BY DEF DatabaseFlips, BrokerFlips, Migrate
<1>2. /\ world' \in [database : {"up", "down"}, schema : {"none", "behind", "head"}, broker : {"up", "down"}]
  BY DEF Frame, DatabaseFlips, BrokerFlips, Migrate
<1>3. ingress' = ingress \/ \E b \in BOOLEAN : ingress' = [ingress EXCEPT !.cut = b]
  BY DEF Frame, DatabaseFlips, BrokerFlips, Migrate
<1> QED BY <1>1, <1>2, <1>3 DEF Frame, LoopRec, IngressRec, Honest, Ends

LEMMA Boots ==
  ASSUME Frame, Boot
  PROVE  Frame'
<1>1. /\ process' = [process EXCEPT !.phase = "serving"] /\ process.phase = "starting"
      /\ ingress' = [ingress EXCEPT !.pc = "retry"] /\ UNCHANGED world
      /\ loop' = [w \in Workers |-> [loop[w] EXCEPT !.pc = "pass", !.state = "running"]]
  BY DEF Boot
<1>2. Len(StopOrder) \in Nat
  BY BackendAssumption
<1>3. process.at = 1
  <2>1. Ends
    BY DEF Frame
  <2> QED BY <1>1, <2>1 DEF Ends
<1>4. process' \in [phase : {"starting", "serving", "stopping", "stopped"}, at : 1 .. Len(StopOrder) + 1]
      /\ process'.phase = "serving" /\ process'.at = 1
  BY <1>1, <1>3 DEF Frame
<1>5. ingress' \in IngressRec /\ ingress'.pc = "retry" /\ (ingress'.state = "connected" => FALSE)
  <2>1. ingress \in IngressRec /\ ingress.state # "connected"
    BY <1>1 DEF Frame, Ends
  <2> QED BY <1>1, <2>1 DEF IngressRec
<1>6. /\ loop' \in [Workers -> LoopRec]
      /\ \A w \in Workers : loop'[w].pc = "pass"
  <2> SUFFICES ASSUME NEW w \in Workers
               PROVE  [loop[w] EXCEPT !.pc = "pass", !.state = "running"] \in LoopRec
                      /\ [loop[w] EXCEPT !.pc = "pass", !.state = "running"].pc = "pass"
    BY <1>1
  <2>1. loop[w] \in LoopRec
    BY DEF Frame
  <2> QED BY <2>1 DEF LoopRec
<1>7. Honest' /\ Ends'
  BY <1>2, <1>4, <1>5, <1>6 DEF Honest, Ends
<1> QED BY <1>1, <1>4, <1>5, <1>6, <1>7 DEF Frame

LEMMA Shuts ==
  ASSUME Frame, Shutdown \/ NextTask \/ StopIngress \/ Dispose
  PROVE  Frame'
<1> Len(StopOrder) \in Nat
  BY BackendAssumption
<1>1. CASE Shutdown
  BY <1>1 DEF Shutdown, Frame, Honest, Ends
<1>2. CASE NextTask
  <2>1. PICK i \in DOMAIN StopOrder : Stopping(i) /\ loop[StopOrder[i]].pc = "gone"
    BY <1>2 DEF NextTask, Joined
  <2>2. process' = [process EXCEPT !.at = @ + 1] /\ UNCHANGED <<world, loop, ingress>>
    BY <1>2 DEF NextTask
  <2>3. i \in 1 .. Len(StopOrder) /\ process.at = i /\ process.phase = "stopping"
    BY <2>1 DEF Stopping
  <2> QED BY <2>1, <2>2, <2>3 DEF Frame, LoopRec, IngressRec, Honest, Ends
<1>3. CASE StopIngress
  <2>1. UNCHANGED <<process, world, loop>> /\ process.phase = "stopping"
    BY <1>3 DEF StopIngress, Stopping
  <2>2. \E b \in BOOLEAN : ingress' = [ingress EXCEPT !.stop = TRUE, !.cancel = b]
    BY <1>3 DEF StopIngress
  <2>3. ingress' \in IngressRec
    BY <2>2 DEF Frame, IngressRec
  <2>4. ingress'.pc = ingress.pc /\ ingress'.state = ingress.state /\ ingress'.left = ingress.left
    BY <2>2 DEF Frame, IngressRec
  <2>5. Honest' /\ Ends'
    BY <2>1, <2>4 DEF Frame, Honest, Ends
  <2> QED BY <2>1, <2>3, <2>4, <2>5 DEF Frame
<1>4. CASE Dispose
  BY <1>4 DEF Dispose, Stopping, Frame, Honest, Ends
<1> QED BY <1>1, <1>2, <1>3, <1>4

\* A worker that is gone stays gone, and one that says it runs runs.
LEMMA WorkersRun ==
  ASSUME Frame, StopWorker \/ \E w \in Workers : WorkerStep(w)
  PROVE  Frame'
<1>1. UNCHANGED <<process, world, ingress>>
  BY DEF StopWorker, WorkerStep, Pass, Wake, Cancelled, CancelSwallowed
<1> loop \in [Workers -> LoopRec] /\ Honest
  BY DEF Frame
<1> DEFINE Kept(v, r) == /\ r \in LoopRec
                         /\ loop[v].pc = "gone" => r.pc = "gone"
                         /\ r.state = "running" => r.pc \in {"pass", "wait"}
<1>2. \E v \in Workers : \E r \in LoopRec : Kept(v, r) /\ loop' = [loop EXCEPT ![v] = r]
  <2>1. CASE StopWorker
    <3>1. PICK v \in Workers : loop' = [loop EXCEPT ![v] = [@ EXCEPT !.stop = TRUE, !.cancel = TRUE]]
      BY <2>1 DEF StopWorker, Workers
    <3> DEFINE r == [loop[v] EXCEPT !.stop = TRUE, !.cancel = TRUE]
    <3>2. r \in LoopRec /\ r.pc = loop[v].pc /\ r.state = loop[v].state
      BY DEF LoopRec
    <3>3. loop' = [loop EXCEPT ![v] = r]
      BY <3>1
    <3>4. Kept(v, r)
      BY <3>2 DEF Honest
    <3> HIDE DEF r, Kept
    <3> QED BY <3>2, <3>3, <3>4
  <2>2. ASSUME NEW v \in Workers, Pass(v)
        PROVE  \E r \in LoopRec : Kept(v, r) /\ loop' = [loop EXCEPT ![v] = r]
    <3>1. PICK next \in {"wait", "pass"}, ok \in BOOLEAN :
            loop' = [loop EXCEPT ![v] = [@ EXCEPT !.pc = next, !.failed = ~ok]]
      BY <2>2 DEF Pass, PassEnds
    <3> DEFINE r == [loop[v] EXCEPT !.pc = next, !.failed = ~ok]
    <3>2. loop[v].pc = "pass"
      BY <2>2 DEF Pass
    <3>3. (~ok) \in BOOLEAN
      OBVIOUS
    <3>4. r \in LoopRec
      BY <3>3 DEF LoopRec
    <3>5. r.pc = next
      BY DEF LoopRec
    <3>6. Kept(v, r)
      BY <3>2, <3>4, <3>5
    <3>7. loop' = [loop EXCEPT ![v] = r]
      BY <3>1
    <3> HIDE DEF r, Kept
    <3> QED BY <3>4, <3>6, <3>7
  <2>3. ASSUME NEW v \in Workers, Wake(v)
        PROVE  \E r \in LoopRec : Kept(v, r) /\ loop' = [loop EXCEPT ![v] = r]
    <3> DEFINE r == [loop[v] EXCEPT !.pc = "pass"]
    <3>1. Kept(v, r) /\ r \in LoopRec
      BY <2>3 DEF Wake, LoopRec, Honest
    <3>2. loop' = [loop EXCEPT ![v] = r]
      BY <2>3 DEF Wake
    <3> HIDE DEF r, Kept
    <3> QED BY <3>1, <3>2
  <2>4. ASSUME NEW v \in Workers, Cancelled(v) \/ CancelSwallowed(v)
        PROVE  \E r \in LoopRec : Kept(v, r) /\ loop' = [loop EXCEPT ![v] = r]
    <3> DEFINE r == [loop[v] EXCEPT !.pc = "gone", !.state = "stopped", !.cancel = FALSE]
    <3>1. Kept(v, r) /\ r \in LoopRec
      BY <2>4 DEF LoopRec, Honest
    <3>2. loop' = [loop EXCEPT ![v] = r]
      BY <2>4 DEF Cancelled, CancelSwallowed
    <3> HIDE DEF r, Kept
    <3> QED BY <3>1, <3>2
  <2> QED BY <2>1, <2>2, <2>3, <2>4 DEF WorkerStep
<1>3. \A v \in Workers : loop[v].pc = "gone" => loop'[v].pc = "gone"
  BY <1>2 DEF Frame
<1>4. loop' \in [Workers -> LoopRec]
  BY <1>2 DEF Frame
<1>5. Honest'
  BY <1>1, <1>2 DEF Frame, Honest
<1>6. Ends'
  BY <1>1, <1>3 DEF Frame, Ends, Workers
<1> QED BY <1>1, <1>4, <1>5, <1>6 DEF Frame

LEMMA IngressRunsOn ==
  ASSUME Frame, IngressStep \/ MessageArrives
  PROVE  Frame'
<1> Topics \in Nat /\ Topics > 0 /\ Cap \in Nat /\ Cap > 0
  BY BackendAssumption
<1>1. UNCHANGED <<process, world, loop>>
  BY DEF IngressStep, MessageArrives, Connect, CertificateUnreadable, Connected, Subscribe, Handled,
         LinkFails, BackoffEnds, IngressCancelled
<1>2. ingress.pc # "gone" /\ process.phase # "starting"
  BY DEF Frame, Ends, IngressStep, MessageArrives, Connect, CertificateUnreadable, Connected, Subscribe, Handled,
         LinkFails, BackoffEnds, IngressCancelled, Running, Linked
<1>3. Ends'
  BY <1>1, <1>2 DEF Frame, Ends
<1>4. /\ ingress \in IngressRec /\ (ingress.pc = "subscribing" => ingress.left > 0)
      /\ (ingress.state = "connected" => ingress.pc \in Linked)
  BY DEF Frame, Honest
<1> DEFINE Good == /\ ingress' \in IngressRec /\ (ingress'.pc = "subscribing" => ingress'.left > 0)
                   /\ (ingress'.state = "connected" => ingress'.pc \in Linked)
<1>5. ASSUME Connect PROVE Good
  BY <1>4, <1>5 DEF Connect, IngressRec, Linked
<1>6. ASSUME CertificateUnreadable \/ IngressCancelled PROVE Good
  BY <1>4, <1>6 DEF CertificateUnreadable, IngressCancelled, Ended, IngressRec, Linked
<1>7. ASSUME Connected PROVE Good
  <2> DEFINE r == [ingress EXCEPT !.pc = "subscribing", !.state = "connected", !.failed = FALSE,
                                  !.attempt = 0, !.left = Topics, !.cut = FALSE]
  <2>1. ingress' = r
    BY <1>7 DEF Connected
  <2>2. Topics \in 0 .. Topics /\ 0 \in 0 .. Cap
    OBVIOUS
  <2>3. r \in IngressRec /\ r.pc = "subscribing" /\ r.left = Topics
    BY <1>4, <2>2 DEF IngressRec, Linked
  <2> HIDE DEF r
  <2>4. ingress'.left > 0 /\ ingress'.pc \in Linked
    BY <2>1, <2>3 DEF Linked
  <2> QED BY <2>1, <2>3, <2>4
<1>8. ASSUME Subscribe PROVE Good
  <2> DEFINE pc == IF ingress.left = 1 THEN "listening" ELSE ingress.pc
             r == [ingress EXCEPT !.left = ingress.left - 1, !.pc = pc]
  <2>1. ingress' = r /\ ingress.pc = "subscribing"
    BY <1>8 DEF Subscribe
  <2>2. ingress.left \in 1 .. Topics
    BY <1>4, <2>1 DEF IngressRec
  <2>3. pc \in Linked /\ ingress.left - 1 \in 0 .. Topics /\ (pc = "subscribing" => ingress.left - 1 > 0)
    BY <2>1, <2>2 DEF Linked
  <2> HIDE DEF pc
  <2>4. r \in IngressRec /\ r.pc = pc /\ r.left = ingress.left - 1
    BY <1>4, <2>3 DEF IngressRec
  <2> HIDE DEF r
  <2> QED BY <2>1, <2>3, <2>4
<1>9. ASSUME MessageArrives \/ Handled PROVE Good
  BY <1>4, <1>9 DEF MessageArrives, Handled, IngressRec, Linked
<1>10. ASSUME LinkFails PROVE Good
  <2> DEFINE n == IF ingress.attempt < Cap THEN ingress.attempt + 1 ELSE ingress.attempt
             r == [ingress EXCEPT !.pc = "backoff", !.state = "disconnected", !.failed = TRUE,
                                  !.cut = FALSE, !.attempt = n]
  <2>1. ingress' = r
    BY <1>10 DEF LinkFails
  <2>2. n \in 0 .. Cap
    BY <1>4 DEF IngressRec
  <2> HIDE DEF n
  <2>3. r \in IngressRec /\ r.pc = "backoff" /\ r.state = "disconnected"
    BY <1>4, <2>2 DEF IngressRec
  <2> HIDE DEF r
  <2> QED BY <2>1, <2>3
<1>11. ASSUME BackoffEnds PROVE Good
  BY <1>4, <1>11 DEF BackoffEnds, IngressRec, Linked
<1>12. Good
  BY <1>5, <1>6, <1>7, <1>8, <1>9, <1>10, <1>11 DEF IngressStep
<1> QED BY <1>1, <1>3, <1>12 DEF Frame, Honest

-----------------------------------------------------------------------------
(* What each step of a request does to what it knows.                         *)

LEMMA FramedTypes ==
  BackendTypeOK /\ (ingress.pc = "subscribing" => ingress.left > 0) /\ Honest /\ Ends
    <=> /\ Frame
        /\ query \in [stage : {"none", "first", "second", "database", "extensions", "migrations"}
                                \cup Answers,
                      sick : BOOLEAN, watch : Components, fine : BOOLEAN, ill : BOOLEAN]
BY DEF BackendTypeOK, Frame, LoopRec, IngressRec

LEMMA WorkFrames ==
  ASSUME Frame, Work
  PROVE  Frame'
BY Surroundings, Boots, Shuts, WorkersRun, IngressRunsOn DEF Work

QueryRec == [stage : {"none", "first", "second", "database", "extensions", "migrations"} \cup Answers,
             sick : BOOLEAN, watch : Components, fine : BOOLEAN, ill : BOOLEAN]

\* A read that finds a component well finds it well at that moment.
LEMMA ReadsBack ==
  ASSUME IInv, NEW stage \in {"first", "second", "database", "extensions"}, NEW next, NEW sick \in BOOLEAN,
         query.stage = stage, query' = [query EXCEPT !.stage = next, !.sick = @ \/ sick],
         UNCHANGED <<process, world, loop, ingress>>,
         next \in {"second", "database", "extensions", "migrations"},
         ~sick => \A c \in ReadBy(next) \ ReadBy(stage) : c = query.watch => Fine(c)
  PROVE  query' \in QueryRec /\ Eyes' /\ Backed'
<1>1. query \in QueryRec
  BY DEF IInv, Loops, BackendTypeOK, QueryRec
<1>2. /\ query' \in QueryRec /\ query'.stage = next /\ query'.sick = (query.sick \/ sick)
      /\ query'.watch = query.watch /\ query'.fine = query.fine /\ query'.ill = query.ill
  BY <1>1 DEF QueryRec
<1>3. Asking
  BY DEF Asking, Answers
<1>4. Fine(query.watch)' = Fine(query.watch)
  BY <1>2 DEF Fine
<1>5. (Fine(query.watch) => query.fine) /\ (~Fine(query.watch) => query.ill)
  BY <1>3 DEF IInv, Eyes
<1>6. Eyes'
  BY <1>2, <1>4, <1>5 DEF Eyes
<1>7. Backed'
  <2>1. SUFFICES ASSUME ~query.sick, ~sick, query.watch \in ReadBy(next)
                 PROVE  query.fine
    BY <1>2 DEF Backed
  <2>2. CASE query.watch \in ReadBy(stage)
    BY <2>1, <2>2 DEF IInv, Backed
  <2>3. CASE query.watch \notin ReadBy(stage)
    BY <1>5, <2>1, <2>3
  <2> QED BY <2>2, <2>3
<1> QED BY <1>2, <1>6, <1>7

\* A worker that is not sick, and an ingress that says it is connected, are fine.
LEMMA NotSickIsFine ==
  ASSUME Honest, loop \in [Workers -> LoopRec], NEW S \in SUBSET Workers, ~WorkerSick(S), NEW c \in S
  PROVE  Fine(c)
<1>1. c \in Workers /\ c \notin {"database", "schema", "mqtt"}
  BY BackendAssumption
<1>2. c \in Ignored \/ (loop[c].state = "running" /\ ~loop[c].failed)
  BY DEF WorkerSick
<1> QED BY <1>1, <1>2 DEF Honest, Fine

LEMMA FineIsBoolean == ASSUME NEW c PROVE Fine(c) \in BOOLEAN
<1>1. CASE c = "database"
  BY <1>1 DEF Fine
<1>2. CASE c = "schema"
  BY <1>2 DEF Fine
<1>3. CASE c = "mqtt"
  BY <1>3 DEF Fine
<1>4. CASE c \notin {"database", "schema", "mqtt"}
  <2>1. (c \in Ignored \/ (loop[c].pc \in {"pass", "wait"} /\ ~loop[c].failed)) \in BOOLEAN
    OBVIOUS
  <2> QED BY <1>4, <2>1 DEF Fine
<1> QED BY <1>1, <1>2, <1>3, <1>4

LEMMA Answering ==
  ASSUME IInv, Health
  PROVE  query' \in QueryRec /\ Eyes' /\ Backed'
<1> UNCHANGED <<process, world, loop, ingress>>
  BY DEF Health, Ask, ReadLoops, ReadOutbox, Unreachable, Reachable, ReadExtensions, ReadMigrations,
         Forget, Reads
<1> query \in QueryRec /\ Frame
  BY FramedTypes DEF IInv, Loops, BackendTypeOK, QueryRec
<1> Honest /\ loop \in [Workers -> LoopRec]
  BY DEF Frame
<1> Workers \cap {"database", "schema", "mqtt"} = {}
  BY BackendAssumption
<1>1. CASE Ask
  <2> DEFINE sick == WorkerSick(AtOnce)
  <2>1. PICK c \in Components :
          query' = [NoQuery EXCEPT !.stage = "first", !.watch = c, !.sick = sick,
                                   !.fine = Fine(c), !.ill = ~Fine(c)]
    BY <1>1 DEF Ask, AtOnce
  <2>2. sick \in BOOLEAN
    BY DEF WorkerSick
  <2>3. Fine(c) \in BOOLEAN /\ (~Fine(c)) \in BOOLEAN
    BY FineIsBoolean
  <2>4. ~sick /\ c \in AtOnce => Fine(c)
    BY NotSickIsFine DEF AtOnce
  <2>5. Fine(c)' = Fine(c)
    BY DEF Fine
  <2> DEFINE f == Fine(c)
             g == ~Fine(c)
  <2> HIDE DEF sick, f, g
  <2>6. query' = [stage |-> "first", sick |-> sick, watch |-> c, fine |-> f, ill |-> g]
    BY <2>1 DEF NoQuery, f, g
  <2>7. query' \in QueryRec
    BY <2>2, <2>3, <2>6 DEF QueryRec, f, g
  <2>8. Eyes'
    BY <2>5, <2>6 DEF Eyes, f, g
  <2>9. Backed'
    BY <2>4, <2>6 DEF Backed, ReadBy, f
  <2> QED BY <2>7, <2>8, <2>9
<1>2. CASE ReadLoops
  <2> DEFINE sick == WorkerSick(ReadFirst) \/ ingress.state # "connected"
  <2>1. query.stage = "first" /\ query' = [query EXCEPT !.stage = "second", !.sick = @ \/ sick]
    BY <1>2 DEF ReadLoops, Reads
  <2>2. sick \in BOOLEAN
    BY DEF WorkerSick
  <2>3. ~sick => \A c \in ReadBy("second") \ ReadBy("first") : Fine(c)
    <3>1. ~sick => \A c \in ReadFirst : Fine(c)
      BY NotSickIsFine, BackendAssumption
    <3>2. ~sick => Fine("mqtt")
      BY DEF Honest, Fine
    <3> QED BY <3>1, <3>2 DEF ReadBy
  <2> HIDE DEF sick
  <2> QED BY <2>1, <2>2, <2>3, ReadsBack
<1>3. CASE ReadOutbox
  <2> DEFINE sick == WorkerSick(ReadSecond)
  <2>1. query.stage = "second" /\ query' = [query EXCEPT !.stage = "database", !.sick = @ \/ sick]
    BY <1>3 DEF ReadOutbox, Reads
  <2>2. sick \in BOOLEAN
    BY DEF WorkerSick
  <2>3. ~sick => \A c \in ReadBy("database") \ ReadBy("second") : Fine(c)
    <3>1. ~sick => \A c \in ReadSecond : Fine(c)
      BY NotSickIsFine, BackendAssumption
    <3> QED BY <3>1 DEF ReadBy, AtOnce
  <2> HIDE DEF sick
  <2> QED BY <2>1, <2>2, <2>3, ReadsBack
<1>4. CASE Unreachable
  <2>1. query' = [query EXCEPT !.stage = "unavailable"] /\ query.stage = "database" /\ world.database = "down"
    BY <1>4 DEF Unreachable
  <2>2. query' \in QueryRec /\ query'.stage = "unavailable" /\ query'.watch = query.watch /\ query'.ill = query.ill
    BY <2>1 DEF QueryRec, Answers
  <2>3. Eyes'
    BY <2>2 DEF Eyes, Asking, Answers
  <2>4. query.watch = "database" => query.ill
    BY <2>1 DEF IInv, Eyes, Asking, Answers, Fine
  <2> QED BY <2>2, <2>3, <2>4 DEF Backed, ReadBy
<1>5. CASE Reachable
  <2>1. /\ query.stage = "database" /\ query' = [query EXCEPT !.stage = "extensions", !.sick = @ \/ FALSE]
        /\ world.database = "up"
    BY <1>5 DEF Reachable, Reads
  <2>2. \A c \in ReadBy("extensions") \ ReadBy("database") : Fine(c)
    BY <2>1 DEF ReadBy, Fine
  <2> QED BY <2>1, <2>2, ReadsBack
<1>6. CASE ReadExtensions
  <2> DEFINE sick == world.database = "down" \/ world.schema = "none"
  <2>1. query.stage = "extensions" /\ query' = [query EXCEPT !.stage = "migrations", !.sick = @ \/ sick]
    BY <1>6 DEF ReadExtensions, Reads
  <2>2. sick \in BOOLEAN
    OBVIOUS
  <2>3. ReadBy("migrations") \ ReadBy("extensions") = {}
    BY DEF ReadBy
  <2> HIDE DEF sick
  <2> QED BY <2>1, <2>2, <2>3, ReadsBack
<1>7. CASE ReadMigrations
  <2> DEFINE bad == query.sick \/ world.database = "down" \/ world.schema # "head"
             stage == IF bad THEN "degraded" ELSE "healthy"
  <2>1. query.stage = "migrations" /\ query' = [query EXCEPT !.stage = stage]
    BY <1>7 DEF ReadMigrations
  <2>2. stage \in {"degraded", "healthy"}
    OBVIOUS
  <2>3. ~bad => query.fine
    <3>1. SUFFICES ASSUME ~query.sick, world.database # "down", world.schema = "head"
                   PROVE  query.fine
      OBVIOUS
    <3>2. world.database = "up"
      BY <3>1 DEF Frame
    <3>3. CASE query.watch \in ReadBy("migrations")
      BY <2>1, <3>1, <3>3 DEF IInv, Backed
    <3>4. CASE query.watch = "schema"
      BY <2>1, <3>1, <3>2, <3>4 DEF IInv, Eyes, Asking, Answers, Fine
    <3> QED BY <3>3, <3>4 DEF QueryRec, Components, ReadBy
  <2>4. stage = "healthy" => ~bad
    OBVIOUS
  <2> HIDE DEF stage, bad
  <2>5. query' \in QueryRec /\ query'.stage = stage /\ query'.watch = query.watch /\ query'.fine = query.fine
    BY <2>1, <2>2 DEF QueryRec, Answers
  <2>6. Eyes'
    BY <2>2, <2>5 DEF Eyes, Asking, Answers
  <2>7. Backed'
    BY <2>2, <2>3, <2>4, <2>5 DEF Backed, ReadBy
  <2> QED BY <2>5, <2>6, <2>7
<1>8. CASE Forget
  BY <1>8, BackendAssumption DEF Forget, NoQuery, QueryRec, Components, Answers, Eyes, Backed, Asking, ReadBy
<1> QED BY <1>1, <1>2, <1>3, <1>4, <1>5, <1>6, <1>7, <1>8 DEF Health

LEMMA StepHolds == IInv /\ [BkNext]_bkVars => IInv'
<1> SUFFICES ASSUME IInv, [BkNext]_bkVars PROVE IInv'
  OBVIOUS
<1>1. Frame /\ BackendTypeOK
  BY FramedTypes DEF IInv, Loops
<1>2. Frame' /\ query' \in QueryRec => Loops'
  BY FramedTypes DEF Loops, Frame, BackendTypeOK, LoopRec, IngressRec, QueryRec
<1>3. CASE Health
  <2>1. Frame'
    <3>1. UNCHANGED <<process, world, loop, ingress>>
      BY <1>3 DEF Health, Ask, ReadLoops, ReadOutbox, Unreachable, Reachable, ReadExtensions,
                  ReadMigrations, Forget, Reads
    <3> QED BY <1>1, <3>1 DEF Frame, Honest, Ends
  <2> QED BY <1>2, <1>3, <2>1, Answering DEF IInv
<1>4. CASE Work /\ Watched
  <2>1. Frame'
    BY <1>1, <1>4, WorkFrames
  <2>2. query' \in QueryRec
    BY <1>1, <1>4, WatchTypes DEF QueryRec
  <2>3. Eyes' /\ Backed'
    BY <1>1, <1>4, WatchKeeps DEF IInv
  <2> QED BY <1>2, <2>1, <2>2, <2>3 DEF IInv
<1>5. CASE UNCHANGED bkVars
  BY <1>5 DEF bkVars, IInv, Loops, BackendTypeOK, Honest, Ends, Eyes, Backed, Asking, Fine
<1> QED BY <1>3, <1>4, <1>5 DEF BkNext

THEOREM BackendInvariant == BkSpec => []IInv
<1> QED BY InitHolds, StepHolds, PTL DEF BkSpec

-----------------------------------------------------------------------------
(* The properties                                                             *)

\* Of a healthy answer every part was fine at some moment of the request, and of
\* "unavailable" the database was away at one.
THEOREM HealthIsBacked == BkSpec => []HealthIsTruthful
<1>1. IInv => HealthIsTruthful
  <2> SUFFICES ASSUME IInv PROVE HealthIsTruthful
    OBVIOUS
  <2>1. query.stage = "healthy" => query.watch \in ReadBy(query.stage)
    BY DEF IInv, Loops, BackendTypeOK, ReadBy
  <2> QED BY <2>1 DEF IInv, Backed, HealthIsTruthful
<1> QED BY <1>1, BackendInvariant, PTL

LEMMA EngineLast == IInv => EngineOutlivesItsUsers
<1> SUFFICES ASSUME IInv, process.phase = "stopped"
             PROVE  ingress.pc = "gone" /\ \A w \in Workers : loop[w].pc = "gone"
  BY DEF EngineOutlivesItsUsers
<1>1. process.at = Len(StopOrder) + 1 /\ ingress.pc = "gone"
  BY DEF IInv, Loops, Ends
<1>2. \A j \in DOMAIN StopOrder : loop[StopOrder[j]].pc = "gone"
  <2>1. DOMAIN StopOrder = 1 .. Len(StopOrder) /\ Len(StopOrder) \in Nat
    BY BackendAssumption
  <2>2. \A j \in DOMAIN StopOrder : j < process.at
    BY <1>1, <2>1
  <2> QED BY <2>2 DEF IInv, Loops, Ends
<1> QED BY <1>1, <1>2 DEF Workers

\* Nothing that may use the engine is left when it is disposed of.
THEOREM EngineIsLast == BkSpec => []EngineOutlivesItsUsers
<1> QED BY EngineLast, BackendInvariant, PTL

-----------------------------------------------------------------------------
(* Recall: the inductive invariant.  Locks carry the argument: the value that *)
(* is about to be replaced is locked and active until the commit, and nothing *)
(* points at an active row.                                                   *)

\* A row, a writer and a pass of the consolidation.
RowRec ==
  [kind : Kinds \cup {"summary"}, key : Keys \cup {NoKey}, value : Values \cup Nat,
   status : Statuses, supersedes : 0 .. MaxRows, linked : SUBSET Ids]

WriterRec ==
  [pc : {"idle", "look", "lock", "commit"}, kind : Kinds, key : Keys \cup {NoKey},
   value : Values \cup Nat, seen : SUBSET Ids, held : SUBSET Ids, old : 0 .. MaxRows]

PassRec ==
  [pc : {"idle", "read", "write", "link"}, count : Nat, sources : SUBSET Ids,
   summary : 0 .. MaxRows]

Shaped ==
  /\ row \in Seq(RowRec) /\ Len(row) <= MaxRows
  /\ writer \in [Writers -> WriterRec]
  /\ consolidation \in PassRec

\* What a writer looked at is in the table; what it locked is active, its own, and
\* has the value it is about to replace in it.
Locked ==
  \A w \in Writers :
    /\ writer[w].seen \subseteq DOMAIN row /\ writer[w].held \subseteq DOMAIN row
    /\ \A i \in writer[w].held : row[i].status = "active"
    /\ writer[w].pc # "commit" => writer[w].held = {}
    /\ writer[w].pc = "commit" /\ writer[w].old # 0 => writer[w].old \in writer[w].held
    /\ \A x \in Writers : x # w => writer[w].held \cap writer[x].held = {}

\* A row points back at an older one that was replaced, and no other row does.
Points ==
  \A i \in DOMAIN row :
    /\ row[i].supersedes < i
    /\ row[i].supersedes # 0 => row[row[i].supersedes].status \in {"superseded", "discarded"}
    /\ row[i].supersedes # 0 =>
         \A j \in DOMAIN row : row[j].supersedes = row[i].supersedes => j = i

\* A replaced row has a row that points back at it.
Replaced ==
  \A i \in DOMAIN row : row[i].status = "superseded" => \E j \in DOMAIN row : row[j].supersedes = i

RcInv == Shaped /\ Locked /\ Points /\ Replaced

-----------------------------------------------------------------------------
LEMMA RecallInit == RcInit => RcInv
  BY RecallAssumption
  DEF RcInit, RcInv, Shaped, Locked, Points, Replaced, RowRec, WriterRec, Idle, NoPass, Kinds, Ids, PassRec

LEMMA NotHeld ==
  ASSUME NEW i, i \notin Held, NEW w \in Writers
  PROVE  i \notin writer[w].held
  BY DEF Held

\* The table as a sequence of rows.
LEMMA Rows ==
  ASSUME RcInv
  PROVE  /\ DOMAIN row = 1 .. Len(row) /\ Len(row) \in Nat /\ Len(row) <= MaxRows
         /\ \A i \in DOMAIN row : row[i] \in RowRec
  BY DEF RcInv, Shaped

\* A row points at an older one or at none.
LEMMA Older ==
  ASSUME RcInv
  PROVE  \A i \in DOMAIN row : row[i].supersedes \in DOMAIN row \cup {0}
<1>1. \A i \in DOMAIN row : row[i].supersedes \in Nat /\ row[i].supersedes < i
  BY Rows, RecallAssumption DEF RowRec, RcInv, Points
<1> QED BY <1>1, Rows

\* Replacing one field of a row.
LEMMA WithStatus ==
  ASSUME NEW r \in RowRec, NEW x \in Statuses
  PROVE  /\ [r EXCEPT !.status = x] \in RowRec /\ [r EXCEPT !.status = x].status = x
         /\ [r EXCEPT !.status = x].supersedes = r.supersedes
  BY DEF RowRec

LEMMA WithLinks ==
  ASSUME NEW r \in RowRec, NEW S \in SUBSET Ids
  PROVE  /\ [r EXCEPT !.linked = S] \in RowRec /\ [r EXCEPT !.linked = S].status = r.status
         /\ [r EXCEPT !.linked = S].supersedes = r.supersedes
  BY DEF RowRec

\* One row is put in the place of another.
LEMMA ChangeRow ==
  ASSUME RcInv, NEW i \in DOMAIN row, NEW r \in RowRec
  PROVE  /\ [row EXCEPT ![i] = r] \in Seq(RowRec) /\ Len([row EXCEPT ![i] = r]) = Len(row)
         /\ \A j \in DOMAIN row : [row EXCEPT ![i] = r][j] = IF j = i THEN r ELSE row[j]
  BY DEF RcInv, Shaped

\* Append.
LEMMA PutLast ==
  ASSUME NEW c \in Seq(RowRec), NEW r \in RowRec
  PROVE  /\ Append(c, r) \in Seq(RowRec) /\ Len(Append(c, r)) = Len(c) + 1
         /\ DOMAIN Append(c, r) = 1 .. Len(c) + 1 /\ Append(c, r)[Len(c) + 1] = r
         /\ \A i \in 1 .. Len(c) : Append(c, r)[i] = c[i]
  OBVIOUS

\* A row that is put at the end.
LEMMA AppendRow ==
  ASSUME RcInv, NEW r \in RowRec, Len(row) < MaxRows, r.supersedes = 0, r.status # "superseded",
         row' = Append(row, r), UNCHANGED writer
  PROVE  /\ row' \in Seq(RowRec) /\ Len(row') <= MaxRows /\ Locked' /\ Points' /\ Replaced'
<1>1. /\ row' \in Seq(RowRec) /\ Len(row') = Len(row) + 1 /\ Len(row) \in Nat
      /\ DOMAIN row' = 1 .. Len(row) + 1 /\ DOMAIN row = 1 .. Len(row)
      /\ \A i \in DOMAIN row : row'[i] = row[i]
      /\ row'[Len(row) + 1] = r
  BY DEF RcInv, Shaped
<1>2. Len(row') <= MaxRows
  BY <1>1, RecallAssumption
<1>3. Locked'
  BY <1>1 DEF RcInv, Locked
<1>4. \A i \in DOMAIN row : row[i].supersedes \in DOMAIN row \cup {0}
  BY Older
<1>5. Points'
  BY <1>1, <1>4 DEF RcInv, Points
<1>6. Replaced'
  BY <1>1 DEF RcInv, Replaced
<1> QED BY <1>1, <1>2, <1>3, <1>5, <1>6

-----------------------------------------------------------------------------
(* Recall: the steps                                                          *)

LEMMA BeginHolds ==
  ASSUME RcInv, NEW w \in Writers, Begin(w)
  PROVE  RcInv'
<1> DEFINE new(kind, key, value) ==
             [pc |-> IF kind = "episode" THEN "commit" ELSE "look", kind |-> kind, key |-> key,
              value |-> value, seen |-> {}, held |-> {}, old |-> 0]
<1>1. PICK kind \in Kinds, key \in Keys \cup {NoKey}, value \in Values \cup {Len(row)} :
        writer' = [writer EXCEPT ![w] = new(kind, key, value)]
  BY DEF Begin
<1>3. /\ new(kind, key, value) \in WriterRec /\ new(kind, key, value).held = {}
      /\ new(kind, key, value).old = 0 /\ new(kind, key, value).seen = {}
  <2>1. value \in Values \cup Nat /\ 0 \in 0 .. MaxRows
    BY Rows, RecallAssumption
  <2> QED BY <2>1 DEF WriterRec
<1> HIDE DEF new
<1>2. /\ writer' \in [Writers -> WriterRec] /\ writer'[w].held = {} /\ writer'[w].old = 0
      /\ writer'[w].seen = {}
      /\ \A x \in Writers : x # w => writer'[x] = writer[x]
      /\ UNCHANGED <<row, consolidation>>
  BY <1>1, <1>3 DEF Begin, RcInv, Shaped
<1> QED BY <1>2 DEF RcInv, Shaped, Locked, Points, Replaced

LEMMA LookHolds ==
  ASSUME RcInv, NEW w \in Writers, Look(w)
  PROVE  RcInv'
<1> DEFINE seen == {i \in DOMAIN row : Live(i) /\ row[i].kind # "episode" /\ row[i].key = writer[w].key}
<1>1. seen \subseteq DOMAIN row /\ DOMAIN row \subseteq Ids
  BY RecallAssumption DEF RcInv, Shaped, Ids
<1>2. /\ writer' = [writer EXCEPT ![w].pc = "lock", ![w].seen = seen]
      /\ UNCHANGED <<row, consolidation>> /\ writer[w].pc = "look"
  BY DEF Look
<1> HIDE DEF seen
<1>3. /\ writer' \in [Writers -> WriterRec] /\ writer'[w].held = writer[w].held
      /\ writer'[w].pc = "lock" /\ writer'[w].seen = seen
      /\ \A x \in Writers : x # w => writer'[x] = writer[x]
  <2>1. writer \in [Writers -> WriterRec] /\ w \in Writers /\ seen \subseteq Ids
    BY <1>1 DEF RcInv, Shaped
  <2> DEFINE looked == [writer[w] EXCEPT !.pc = "lock", !.seen = seen]
  <2>2. /\ looked \in WriterRec /\ looked.held = writer[w].held
        /\ looked.pc = "lock" /\ looked.seen = seen
    <3>1. writer[w] \in WriterRec
      BY <2>1
    <3> QED BY ONLY <2>1, <3>1 DEF WriterRec
  <2>3. writer' = [writer EXCEPT ![w] = looked]
    BY <1>2
  <2> HIDE DEF looked
  <2> QED BY ONLY <2>1, <2>2, <2>3
<1>4. Shaped'
  <2>1. Shaped
    BY DEF RcInv
  <2> QED BY ONLY <1>2, <1>3, <2>1 DEF Shaped
<1>5. Locked'
  BY <1>1, <1>2, <1>3 DEF RcInv, Locked
<1>6. Points' /\ Replaced'
  BY <1>2 DEF RcInv, Points, Replaced
<1> QED BY <1>4, <1>5, <1>6 DEF RcInv

\* The rows it gets are active still and nobody else's.
LEMMA LockHolds ==
  ASSUME RcInv, NEW w \in Writers, Lock(w)
  PROVE  RcInv'
<1> DEFINE rows == {i \in writer[w].seen : Live(i)}
<1>1. PICK old \in IF rows = {} THEN {0} ELSE rows :
        writer' = [writer EXCEPT ![w].pc = "commit", ![w].seen = {},
                                 ![w].held = rows, ![w].old = old]
  BY DEF Lock
<1>2. /\ rows \subseteq DOMAIN row /\ DOMAIN row \subseteq Ids
      /\ \A i \in rows : row[i].status = "active" /\ \A x \in Writers : i \notin writer[x].held
      /\ UNCHANGED <<row, consolidation>>
  <2>1. rows \subseteq DOMAIN row /\ DOMAIN row \subseteq Ids
    BY Rows, RecallAssumption DEF RcInv, Locked, Ids
  <2>2. \A i \in rows : row[i].status = "active" /\ i \notin Held
    BY DEF Lock, Live
  <2> QED BY <2>1, <2>2, NotHeld DEF Lock
<1>3. old \in 0 .. MaxRows /\ (old # 0 => old \in rows)
  BY <1>2, RecallAssumption DEF Ids
<1> HIDE DEF rows
<1>4. /\ writer' \in [Writers -> WriterRec] /\ writer'[w].held = rows /\ writer'[w].old = old
      /\ writer'[w].pc = "commit" /\ writer'[w].seen = {}
      /\ \A x \in Writers : x # w => writer'[x] = writer[x]
  <2> DEFINE new == [writer[w] EXCEPT !.pc = "commit", !.seen = {}, !.held = rows, !.old = old]
  <2>1. new \in WriterRec /\ new.held = rows /\ new.old = old /\ new.pc = "commit" /\ new.seen = {}
    <3>1. writer[w] \in WriterRec /\ rows \subseteq Ids
      BY <1>2 DEF RcInv, Shaped
    <3> QED BY <1>3, <3>1 DEF WriterRec
  <2>2. writer' = [writer EXCEPT ![w] = new]
    BY <1>1
  <2> HIDE DEF new
  <2> QED BY <2>1, <2>2 DEF RcInv, Shaped
<1>5. Locked'
  BY <1>2, <1>3, <1>4 DEF RcInv, Locked
<1> QED BY <1>2, <1>4, <1>5 DEF RcInv, Shaped, Points, Replaced

\* Giving the locks back without a change of the table.
LEMMA ReleaseHolds ==
  ASSUME RcInv, NEW w \in Writers, writer' = [writer EXCEPT ![w] = Idle], UNCHANGED <<row, consolidation>>
  PROVE  RcInv'
<1>1. /\ writer' \in [Writers -> WriterRec] /\ writer'[w] = Idle
      /\ \A x \in Writers : x # w => writer'[x] = writer[x]
  BY RecallAssumption DEF RcInv, Shaped, WriterRec, Idle, Kinds, Ids
<1> QED BY <1>1 DEF RcInv, Shaped, Locked, Points, Replaced, Idle

\* The value it locked becomes superseded and the new row points at it: nobody
\* pointed at it before, because it was active.
LEMMA ReplaceHolds ==
  ASSUME RcInv, NEW w \in Writers, NEW r \in RowRec, Len(row) < MaxRows,
         writer[w].pc = "commit", writer[w].old # 0, r.supersedes = writer[w].old,
         r.status # "superseded",
         row' = Append([row EXCEPT ![writer[w].old].status = "superseded"], r),
         writer' = [writer EXCEPT ![w] = Idle], UNCHANGED consolidation
  PROVE  RcInv'
<1> DEFINE o == writer[w].old
           n == Len(row)
<1>0. o \in DOMAIN row /\ row[o].status = "active" /\ n \in Nat /\ DOMAIN row = 1 .. n
  BY DEF RcInv, Locked, Shaped
<1>1. PICK q \in RowRec : /\ q = [row[o] EXCEPT !.status = "superseded"]
                           /\ q.status = "superseded" /\ q.supersedes = row[o].supersedes
  <2>1. row[o] \in RowRec /\ "superseded" \in Statuses
    BY <1>0, Rows DEF Statuses
  <2> HIDE DEF o
  <2> QED BY <2>1, WithStatus
<1>2. /\ row' \in Seq(RowRec) /\ Len(row') = n + 1 /\ DOMAIN row' = 1 .. n + 1
      /\ \A i \in DOMAIN row : /\ row'[i].supersedes = row[i].supersedes
                               /\ row'[i].status = IF i = o THEN "superseded" ELSE row[i].status
      /\ row'[n + 1] = r
  <2> DEFINE closed == [row EXCEPT ![o] = q]
  <2>1. row' = Append(closed, r)
    BY <1>1
  <2>2. closed \in Seq(RowRec) /\ Len(closed) = n
        /\ \A i \in DOMAIN row : closed[i] = IF i = o THEN q ELSE row[i]
    BY <1>0, ChangeRow
  <2> HIDE DEF closed
  <2>3. /\ row' \in Seq(RowRec) /\ Len(row') = n + 1 /\ DOMAIN row' = 1 .. n + 1
        /\ row'[n + 1] = r /\ \A i \in 1 .. n : row'[i] = closed[i]
    <3>1. /\ Append(closed, r) \in Seq(RowRec) /\ Len(Append(closed, r)) = Len(closed) + 1
          /\ DOMAIN Append(closed, r) = 1 .. Len(closed) + 1 /\ Append(closed, r)[Len(closed) + 1] = r
          /\ \A i \in 1 .. Len(closed) : Append(closed, r)[i] = closed[i]
      BY <2>2, PutLast
    <3> QED BY <2>1, <2>2, <3>1
  <2>4. \A i \in DOMAIN row : row'[i] = IF i = o THEN q ELSE row[i]
    BY <1>0, <2>2, <2>3
  <2> QED BY <1>0, <1>1, <2>3, <2>4
<1>3. /\ writer' \in [Writers -> WriterRec] /\ writer'[w] = Idle
      /\ \A x \in Writers : x # w => writer'[x] = writer[x]
  BY RecallAssumption DEF RcInv, Shaped, WriterRec, Idle, Kinds, Ids
<1>4. \A x \in Writers : x # w => o \notin writer[x].held
  BY DEF RcInv, Locked
<1>5. \A i \in DOMAIN row : row[i].supersedes # o
  BY <1>0 DEF RcInv, Points
<1>6. \A i \in DOMAIN row : row[i].supersedes \in DOMAIN row \cup {0}
  BY Older
<1> HIDE DEF o, n
<1>7. Locked'
  <2>1. Locked
    BY DEF RcInv
  <2>2. writer'[w].seen = {} /\ writer'[w].held = {} /\ writer'[w].pc = "idle" /\ writer'[w].old = 0
    BY <1>3 DEF Idle
  <2>3. \A i \in DOMAIN row : i \in DOMAIN row' /\ (i # o => row'[i].status = row[i].status)
    BY <1>0, <1>2
  <2> QED BY <1>3, <1>4, <2>1, <2>2, <2>3 DEF Locked
<1>8. Points'
  BY <1>0, <1>2, <1>5, <1>6 DEF RcInv, Points, o
<1>9. Replaced'
  <2>1. Replaced
    BY DEF RcInv
  <2> SUFFICES ASSUME NEW i \in DOMAIN row', row'[i].status = "superseded"
               PROVE  \E j \in DOMAIN row' : row'[j].supersedes = i
    BY DEF Replaced
  <2>2. CASE i = o
    <3>1. n + 1 \in DOMAIN row' /\ row'[n + 1].supersedes = i
      BY <1>0, <1>2, <2>2 DEF o
    <3> QED BY <3>1
  <2>3. CASE i = n + 1
    BY <1>2, <2>3
  <2>4. CASE i # o /\ i # n + 1
    <3>1. i \in DOMAIN row /\ row[i].status = "superseded"
      BY <1>0, <1>2, <2>4
    <3>2. PICK j \in DOMAIN row : row[j].supersedes = i
      BY <2>1, <3>1 DEF Replaced
    <3>3. j \in DOMAIN row' /\ row'[j].supersedes = i
      BY <1>0, <1>2, <3>2
    <3> QED BY <3>3
  <2> QED BY <2>2, <2>3, <2>4
<1>10. Shaped'
  BY <1>0, <1>2, <1>3, RecallAssumption DEF RcInv, Shaped, n
<1> QED BY <1>7, <1>8, <1>9, <1>10 DEF RcInv

LEMMA CommitHolds ==
  ASSUME RcInv, NEW w \in Writers, Commit(w)
  PROVE  RcInv'
<1> DEFINE t == writer[w]
           replaces == t.old # 0 /\ row[t.old].value # t.value /\ t.kind # "inferred"
           mine == Row(t.kind, t.key, t.value, "active", IF replaces THEN t.old ELSE 0)
<1>1. mine \in RowRec
  BY RecallAssumption DEF RcInv, Shaped, RowRec, WriterRec, Row, Statuses
<1>2. mine.supersedes = (IF replaces THEN t.old ELSE 0) /\ mine.status = "active"
  BY DEF Row
<1>3. CASE UNCHANGED row
  BY <1>3, ReleaseHolds DEF Commit
<1>4. CASE replaces /\ row' # row
  <2>1. Len(row) < MaxRows /\ row' = Append([row EXCEPT ![t.old].status = "superseded"], mine)
    BY <1>4 DEF Commit
  <2>2. writer' = [writer EXCEPT ![w] = Idle] /\ UNCHANGED consolidation /\ t.pc = "commit"
    BY DEF Commit
  <2> HIDE DEF mine
  <2> QED BY <1>1, <1>2, <1>4, <2>1, <2>2, ReplaceHolds
<1>5. CASE ~replaces /\ row' # row
  <2>1. Len(row) < MaxRows /\ row' = Append(row, mine)
    BY <1>5 DEF Commit
  <2>2. writer' = [writer EXCEPT ![w] = Idle] /\ UNCHANGED consolidation
    BY DEF Commit
  <2> HIDE DEF mine
  <2> DEFINE n == Len(row)
  <2>3. /\ row' \in Seq(RowRec) /\ Len(row') = n + 1 /\ n \in Nat
        /\ DOMAIN row' = 1 .. n + 1 /\ DOMAIN row = 1 .. n
        /\ \A i \in DOMAIN row : row'[i] = row[i]
        /\ row'[n + 1] = mine
    BY <1>1, <2>1 DEF RcInv, Shaped
  <2>4. /\ writer' \in [Writers -> WriterRec] /\ writer'[w] = Idle
        /\ \A x \in Writers : x # w => writer'[x] = writer[x]
    BY <2>2, RecallAssumption DEF RcInv, Shaped, WriterRec, Idle, Kinds, Ids
  <2>5. \A i \in DOMAIN row : row[i].supersedes \in DOMAIN row \cup {0}
    BY Older
  <2>6. Shaped'
    BY <2>1, <2>2, <2>3, <2>4, RecallAssumption DEF RcInv, Shaped
  <2>7. Locked'
    BY <2>3, <2>4 DEF RcInv, Locked, Idle
  <2>8. Points' /\ Replaced'
    BY <1>2, <1>5, <2>3, <2>5 DEF RcInv, Points, Replaced
  <2> QED BY <2>6, <2>7, <2>8 DEF RcInv
<1> QED BY <1>3, <1>4, <1>5

LEMMA DeleteHolds ==
  ASSUME RcInv, NEW i \in Ids, Delete(i)
  PROVE  RcInv'
<1>1. i \in DOMAIN row /\ DOMAIN row = 1 .. Len(row) /\ Len(row) \in Nat
  BY DEF Delete, RcInv, Shaped
<1>2. PICK q \in RowRec : /\ q = [row[i] EXCEPT !.status = "discarded"]
                           /\ q.status = "discarded" /\ q.supersedes = row[i].supersedes
  BY <1>1, Rows, WithStatus DEF Statuses
<1>3. row' = [row EXCEPT ![i] = q] /\ UNCHANGED <<writer, consolidation>>
  BY <1>2 DEF Delete
<1>4. /\ row' \in Seq(RowRec) /\ Len(row') = Len(row) /\ DOMAIN row' = DOMAIN row
      /\ \A j \in DOMAIN row : /\ row'[j].supersedes = row[j].supersedes
                               /\ row'[j].status = IF j = i THEN "discarded" ELSE row[j].status
  <2>1. /\ row' \in Seq(RowRec) /\ Len(row') = Len(row)
        /\ \A j \in DOMAIN row : row'[j] = IF j = i THEN q ELSE row[j]
    BY <1>1, <1>3, ChangeRow
  <2>2. DOMAIN row' = DOMAIN row
    BY <1>1, <2>1
  <2> QED BY <1>2, <2>1, <2>2
<1>5. \A w \in Writers : i \notin writer[w].held
  BY NotHeld DEF Delete
<1>6. \A j \in DOMAIN row : row[j].supersedes \in DOMAIN row \cup {0}
  BY Older
<1>7. Locked'
  BY <1>3, <1>4, <1>5 DEF RcInv, Locked
<1>8. Points' /\ Replaced'
  <2>1. Points /\ Replaced
    BY DEF RcInv
  <2>2. Points'
    BY ONLY <1>1, <1>4, <1>6, <2>1 DEF Points
  <2>3. Replaced'
    BY ONLY <1>1, <1>4, <2>1 DEF Replaced
  <2> QED BY <2>2, <2>3
<1>9. Shaped'
  <2>1. Shaped
    BY DEF RcInv
  <2> QED BY ONLY <1>3, <1>4, <2>1 DEF Shaped
<1> QED BY <1>7, <1>8, <1>9 DEF RcInv

LEMMA PurgeHolds ==
  ASSUME RcInv, NEW i \in Ids, Purge(i)
  PROVE  RcInv'
<1> DEFINE n == Len(row)
           new(j) == IF j = i THEN Row("inferred", NoKey, 0, "gone", row[i].supersedes)
                     ELSE [row[j] EXCEPT !.supersedes = IF @ = i THEN 0 ELSE @,
                                         !.linked = @ \ {i}]
<1>1. /\ i \in DOMAIN row /\ DOMAIN row = 1 .. n /\ n \in Nat
      /\ row' = [j \in 1 .. n |-> new(j)] /\ UNCHANGED <<writer, consolidation>>
  BY Rows DEF Purge
<1>2. \A j \in 1 .. n : /\ new(j) \in RowRec
                        /\ new(j).supersedes = IF j # i /\ row[j].supersedes = i THEN 0 ELSE row[j].supersedes
                        /\ new(j).status = IF j = i THEN "gone" ELSE row[j].status
  <2> TAKE j \in 1 .. n
  <2>1. row[j] \in RowRec /\ row[i] \in RowRec
    BY <1>1, Rows
  <2>2. CASE j = i
    BY <2>1, <2>2 DEF RowRec, Row, Kinds, Statuses, Ids, NoKey
  <2>3. CASE j # i
    <3>1. 0 \in 0 .. MaxRows
      BY RecallAssumption
    <3> QED BY <2>1, <2>3, <3>1 DEF RowRec
  <2> QED BY <2>2, <2>3
<1> HIDE DEF new
<1>3. /\ row' \in Seq(RowRec) /\ Len(row') = n /\ DOMAIN row' = 1 .. n
      /\ \A j \in 1 .. n :
           /\ row'[j].supersedes = IF j # i /\ row[j].supersedes = i THEN 0 ELSE row[j].supersedes
           /\ row'[j].status = IF j = i THEN "gone" ELSE row[j].status
  BY <1>1, <1>2
<1>4. \A w \in Writers : i \notin writer[w].held
  BY NotHeld DEF Purge
<1>5. \A j \in DOMAIN row : row[j].supersedes \in DOMAIN row \cup {0}
  BY Older
<1> HIDE DEF n
<1>6. Locked'
  BY <1>1, <1>3, <1>4 DEF RcInv, Locked
<1>7. Points'
  BY <1>1, <1>3, <1>5 DEF RcInv, Points
<1>8. Replaced'
  BY <1>1, <1>3 DEF RcInv, Replaced
<1> QED BY <1>1, <1>3, <1>6, <1>7, <1>8 DEF RcInv, Shaped, n

LEMMA PassType ==
  ASSUME RcInv, Group \/ ReadSources \/ WriteSummary \/ LinkSummary \/ AbandonPass
  PROVE  consolidation' \in PassRec
<1>1. DOMAIN row = 1 .. Len(row) /\ Len(row) \in Nat /\ Len(row) <= MaxRows
  BY Rows
<1>2. Episodes \subseteq 1 .. Len(row)
  BY <1>1 DEF Episodes
<1>3. Cardinality(Episodes) \in Nat
  <2>1. IsFiniteSet(1 .. Len(row))
    BY <1>1, FS_Interval
  <2>2. IsFiniteSet(Episodes)
    BY <1>2, <2>1, FS_Subset
  <2> QED BY <2>2, FS_CardinalityType
<1>4. NoPass \in PassRec
  BY RecallAssumption DEF NoPass, PassRec
<1>5. consolidation \in PassRec
  BY DEF RcInv, Shaped
<1>6. CASE Group
  <2>1. consolidation' = [pc |-> "read", count |-> Cardinality(Episodes), sources |-> {}, summary |-> 0]
    BY <1>6 DEF Group, NoPass
  <2> QED BY <1>3, <2>1, RecallAssumption DEF PassRec
<1>7. CASE ReadSources
  <2>1. Episodes \in SUBSET Ids
    BY <1>1, <1>2, RecallAssumption DEF Ids
  <2> QED BY <1>5, <1>7, <2>1 DEF ReadSources, PassRec
<1>8. CASE WriteSummary
  <2>1. CASE consolidation' = NoPass
    BY <1>4, <2>1
  <2>2. CASE consolidation' # NoPass
    <3>1. consolidation' = [consolidation EXCEPT !.pc = "link", !.summary = Len(row) + 1] /\ Len(row) # MaxRows
      BY <1>8, <2>2 DEF WriteSummary
    <3>2. Len(row) + 1 \in 0 .. MaxRows
      BY <1>1, <3>1, RecallAssumption
    <3> QED BY <1>5, <3>1, <3>2 DEF PassRec
  <2> QED BY <2>1, <2>2
<1>9. CASE LinkSummary \/ AbandonPass
  BY <1>4, <1>9 DEF LinkSummary, AbandonPass
<1> QED BY <1>6, <1>7, <1>8, <1>9

\* Consolidation adds a row and links it; it changes neither states nor pointers.
LEMMA ConsolidationHolds ==
  ASSUME RcInv, Group \/ ReadSources \/ WriteSummary \/ LinkSummary \/ AbandonPass
  PROVE  RcInv'
<1>0. UNCHANGED writer /\ consolidation' \in PassRec
  BY PassType DEF Group, ReadSources, WriteSummary, LinkSummary, AbandonPass
<1>2. CASE UNCHANGED row
  BY <1>0, <1>2 DEF RcInv, Shaped, Locked, Points, Replaced
<1>3. CASE row' # row /\ WriteSummary
  <2> DEFINE r == Row("summary", NoKey, consolidation.count, "active", 0)
  <2>1. r \in RowRec /\ r.supersedes = 0 /\ r.status # "superseded"
    <3>1. consolidation.count \in Nat /\ 0 \in 0 .. MaxRows
      BY RecallAssumption DEF RcInv, Shaped, PassRec
    <3> QED BY <3>1 DEF RowRec, Row, Statuses
  <2>2. row' = Append(row, r) /\ Len(row) # MaxRows
    BY <1>3 DEF WriteSummary
  <2>3. Len(row) < MaxRows
    <3>1. Len(row) \in Nat /\ Len(row) <= MaxRows
      BY Rows
    <3> QED BY <2>2, <3>1, RecallAssumption
  <2> HIDE DEF r
  <2>4. row' \in Seq(RowRec) /\ Len(row') <= MaxRows /\ Locked' /\ Points' /\ Replaced'
    BY <1>0, <2>1, <2>2, <2>3, AppendRow
  <2> QED BY <1>0, <2>4 DEF RcInv, Shaped
<1>4. CASE row' # row /\ LinkSummary
  <2> DEFINE s == consolidation.summary
  <2>1. row' = [row EXCEPT ![s].linked = consolidation.sources]
    BY <1>4 DEF LinkSummary
  <2>2. s \in DOMAIN row
    BY <1>4, <2>1 DEF RcInv, Shaped
  <2>3. PICK q \in RowRec : /\ q = [row[s] EXCEPT !.linked = consolidation.sources]
                             /\ q.status = row[s].status /\ q.supersedes = row[s].supersedes
    <3>1. row[s] \in RowRec /\ consolidation.sources \in SUBSET Ids
      BY <2>2, Rows DEF RcInv, Shaped, PassRec
    <3> QED BY <3>1, WithLinks
  <2>4. row' = [row EXCEPT ![s] = q]
    BY <2>1, <2>3
  <2>5. /\ row' \in Seq(RowRec) /\ Len(row') = Len(row)
        /\ \A j \in DOMAIN row : row'[j] = IF j = s THEN q ELSE row[j]
    BY <2>2, <2>4, ChangeRow
  <2> HIDE DEF s
  <2>6. /\ DOMAIN row' = DOMAIN row
        /\ \A j \in DOMAIN row : row'[j].supersedes = row[j].supersedes /\ row'[j].status = row[j].status
    <3>1. DOMAIN row' = DOMAIN row
      BY <2>5, Rows
    <3> QED BY <2>3, <2>5, <3>1
  <2>7. Locked'
    BY <1>0, <2>6 DEF RcInv, Locked
  <2>8. Points' /\ Replaced'
    BY <2>6, Rows, Older DEF RcInv, Points, Replaced
  <2> QED BY <1>0, <2>5, <2>7, <2>8 DEF RcInv, Shaped
<1> QED BY <1>2, <1>3, <1>4 DEF Group, ReadSources, AbandonPass

LEMMA RecallStep == RcInv /\ [RcNext]_rcVars => RcInv'
<1> SUFFICES ASSUME RcInv, [RcNext]_rcVars PROVE RcInv'
  OBVIOUS
<1>1. CASE Reject
  <2>1. Row("inferred", NoKey, 0, "discarded", 0) \in RowRec
    BY RecallAssumption DEF RowRec, Row, Kinds, Statuses
  <2>2. /\ Row("inferred", NoKey, 0, "discarded", 0).supersedes = 0
        /\ Row("inferred", NoKey, 0, "discarded", 0).status # "superseded"
    BY DEF Row
  <2>3. row' \in Seq(RowRec) /\ Len(row') <= MaxRows /\ Locked' /\ Points' /\ Replaced'
    BY <1>1, <2>1, <2>2, AppendRow DEF Reject
  <2> QED BY <1>1, <2>3 DEF Reject, RcInv, Shaped
<1>2. CASE \E w \in Writers : Begin(w) \/ Look(w) \/ Lock(w) \/ Commit(w) \/ RollBack(w)
  BY <1>2, BeginHolds, LookHolds, LockHolds, CommitHolds, ReleaseHolds DEF RollBack
<1>3. CASE \E i \in Ids : Delete(i) \/ Purge(i)
  BY <1>3, DeleteHolds, PurgeHolds
<1>4. CASE Group \/ ReadSources \/ WriteSummary \/ LinkSummary \/ AbandonPass
  BY <1>4, ConsolidationHolds
<1>5. CASE UNCHANGED rcVars
  BY <1>5 DEF rcVars, RcInv, Shaped, Locked, Points, Replaced
<1> QED BY <1>1, <1>2, <1>3, <1>4, <1>5 DEF RcNext

\* Locks, pointers and replacements are as described in every reachable state.
THEOREM RecallInvariant == RcSpec => []RcInv
<1> QED BY RecallInit, RecallStep, PTL DEF RcSpec

LEMMA RecallTyped == RcInv => RecallTypeOK
  BY Rows DEF RcInv, Shaped, RowRec, WriterRec, PassRec, RecallTypeOK

\* The types of Recall.
THEOREM RecallTypes == RcSpec => []RecallTypeOK
<1> QED BY RecallTyped, RecallInvariant, PTL

\* "Changed facts are never overwritten" (memory/service.py): a superseded value has
\* one replacement that points back at it, and nothing points at a value in force.
THEOREM HistoryChained == RcSpec => []HistoryIsChained
<1>1. RcInv => HistoryIsChained
  <2> SUFFICES ASSUME RcInv, NEW i \in DOMAIN row
               PROVE  /\ Cardinality({j \in DOMAIN row : row[j].supersedes = i}) <= 1
                      /\ row[i].status = "superseded" => \E j \in DOMAIN row : row[j].supersedes = i
                      /\ row[i].supersedes # 0 =>
                           row[row[i].supersedes].status \in {"superseded", "discarded"}
    BY DEF HistoryIsChained
  <2> DEFINE P == {j \in DOMAIN row : row[j].supersedes = i}
  <2>1. CASE P = {}
    <3>1. Cardinality(P) = 0
      BY <2>1, FS_EmptySet
    <3> QED BY <3>1 DEF RcInv, Points, Replaced
  <2>2. CASE P # {}
    <3>1. PICK k \in DOMAIN row : row[k].supersedes = i
      BY <2>2
    <3>2. i # 0
      BY DEF RcInv, Shaped
    <3>3. P = {k}
      BY <3>1, <3>2 DEF RcInv, Points
    <3>4. Cardinality(P) = 1
      BY <3>3, FS_Singleton
    <3> QED BY <3>4 DEF RcInv, Points, Replaced
  <2> QED BY <2>1, <2>2
<1> QED BY <1>1, RecallInvariant, PTL
-----------------------------------------------------------------------------
(* Briefing: the inductive invariant.  Its last part counts, beside the times *)
(* an item was told, the tellings that nothing stands against any more.       *)

\* The places at which a lane holds the advisory lock.
Serial == {"load", "prepare", "recheck", "send", "record"}

Sole == \A w \in Lanes : hand[w].pc \in Serial => lock = w

\* An item that need not be told by a briefing any more.
Accounted(i) == told[i] > 0 \/ i \in Noticed \/ (i \in dismissed /\ i \notin Critical)

\* The parts of a briefing follow each other, and a part that ended has nothing left.
Chained ==
  \A k \in PartKeys :
    /\ work[k].status = "none" => work[k].state = "new" /\ work[k].remaining = {}
    /\ work[k].status \in {"none", "pending"} => work[k].attempts < MaxAttempts
    /\ work[k].status = "completed" => work[k].state \in {"delivered", "silent"}
    /\ work[k].state \in {"delivered", "silent"} => work[k].remaining = {}
    /\ k[2] > 0 /\ work[k].status # "none" => work[k].state # "new"
    /\ work[k].remaining # {} => Cardinality(work[k].remaining) + k[2] <= Cardinality(Items)
    /\ \A j \in PartKeys : j = <<k[1], k[2] + 1>> /\ work[j].status # "none" => work[k].state = "delivered"

\* What a lane has in hand is what its part says, but for what was dropped for a reason.
InHand(h, p) ==
  /\ h.pc # "idle" => h.key \in PartKeys /\ p.status # "none" /\ h.attempts < MaxAttempts
  /\ h.pc = "complete" => p.state \in {"delivered", "silent"}
  /\ h.pc = "prepare" => p.state = "new"
  /\ h.pc \in {"recheck", "send", "record"} => p.state = "prepared"
  /\ h.pc = "recheck" => h.remaining = p.remaining
  /\ h.pc \in {"lock", "load", "prepare", "recheck", "send"} => ~h.ok
  /\ h.pc \in {"send", "record"} =>
       /\ h.batch \subseteq h.remaining /\ h.remaining \subseteq p.remaining
       /\ h.remaining # {} => h.batch # {}
       /\ \A i \in p.remaining \ h.remaining : Accounted(i)
  /\ h.pc = "record" /\ h.ok => \A i \in h.batch : told[i] > 0

Carries == \A w \in Lanes : InHand(hand[w], work[hand[w].key])

\* Nothing is known of a notice before it is raised; a receipt is of what was told.
Raised ==
  /\ \A i \in receipts : told[i] > 0
  /\ \A i \in Noticed : attn[i] = "none" =>
       /\ notice[i] = "none" /\ i \notin receipts
       /\ \A w \in Lanes : hand[w].pc \in {"send", "record"} => i \notin hand[w].batch

Kept ==
  \A r \in Roots : \A i \in chosen[r] :
    Accounted(i) \/ \E n \in 0 .. Parts : i \in work[<<r, n>>].remaining

\* The tellings of an item that nothing stands against: by the notification lane, and
\* by a briefing that has it in hand or may take it.
Notifying(i) == i \in Noticed /\ notice[i] = "pending"
Sending(i) == \E w \in Lanes : hand[w].pc = "send" /\ i \in hand[w].batch
Sent(i) == \E w \in Lanes : hand[w].pc = "record" /\ hand[w].ok /\ i \in hand[w].batch
Free(i) == i \notin receipts /\ (i \in Noticed => attn[i] # "delivered" /\ notice[i] # "pending")
Briefable(i) == Sending(i) \/ (Free(i) /\ ~Sent(i))
Due(i) == (IF Notifying(i) THEN 1 ELSE 0) + (IF Briefable(i) THEN 1 ELSE 0)
Budget(i) == 1 + crashes + losses + (IF i \in Noticed THEN retries ELSE 0)

Explained == \A i \in Items : told[i] + Due(i) <= Budget(i)

BfInv == BriefingTypeOK /\ Sole /\ Chained /\ Carries /\ Raised /\ Kept /\ Explained

-----------------------------------------------------------------------------
\* A key is a root and a number.
LEMMA KeyParts == ASSUME NEW k \in PartKeys PROVE k = <<k[1], k[2]>> /\ k[1] \in Roots /\ k[2] \in 0 .. Parts
  BY DEF PartKeys

LEMMA AtRestIsHand == AtRest \in HandRec
  BY BriefingAssumption DEF AtRest, HandRec

LEMMA BriefingInit == BfInit => BfInv
<1> SUFFICES ASSUME BfInit PROVE BfInv
  OBVIOUS
<1>1. BriefingTypeOK
  <2>1. work \in [PartKeys -> PartRec]
    BY BriefingAssumption DEF BfInit, PartRec
  <2>2. hand \in [Lanes -> HandRec]
    BY AtRestIsHand DEF BfInit
  <2> QED BY <2>1, <2>2 DEF BfInit, BriefingTypeOK
<1>2. \A w \in Lanes : hand[w].pc = "idle"
  BY DEF BfInit, AtRest
<1>3. Sole /\ Carries /\ Raised
  BY <1>2 DEF BfInit, Sole, Serial, Carries, InHand, Raised
<1>4. Chained
  BY BriefingAssumption DEF BfInit, Chained
<1>5. Kept
  BY DEF BfInit, Kept
<1>6. \A i \in Items : Due(i) <= 1 /\ Due(i) \in Nat
  BY DEF Due, Notifying, BfInit
<1>7. Explained
  BY <1>6 DEF BfInit, Explained, Budget
<1> QED BY <1>1, <1>3, <1>4, <1>5, <1>7 DEF BfInv

\* What need not be told stays so.
LEMMA AccountedStays ==
  ASSUME BriefingTypeOK, NEW i \in Items, Accounted(i), dismissed \subseteq dismissed',
         told'[i] \in Nat, told'[i] >= told[i]
  PROVE  Accounted(i)'
  BY DEF Accounted, BriefingTypeOK

\* A lane that holds the lock is the only one.
LEMMA Alone ==
  ASSUME Sole, NEW w \in Lanes, hand[w].pc \in Serial
  PROVE  lock = w /\ \A u \in Lanes : u # w => hand[u].pc \notin Serial
  BY DEF Sole

\* Notices, preferences and the night leave the lanes alone.
LEMMA LanesStay ==
  ASSUME BfInv, UNCHANGED <<work, hand, lock, chosen>>, dismissed \subseteq dismissed',
         \A i \in Items : told'[i] \in Nat /\ told'[i] >= told[i]
  PROVE  Sole' /\ Chained' /\ Carries' /\ Kept'
<1>1. \A i \in Items : Accounted(i) => Accounted(i)'
  BY AccountedStays DEF BfInv
<1>2. Sole' /\ Chained'
  BY DEF BfInv, Sole, Chained
<1>3. Carries'
  <2> SUFFICES ASSUME NEW w \in Lanes
               PROVE  LET h == hand[w]  p == work[h.key]
                      IN /\ h.pc \in {"send", "record"} =>
                              \A i \in p.remaining \ h.remaining : Accounted(i)'
                         /\ h.pc = "record" /\ h.ok => \A i \in h.batch : told'[i] > 0
    BY DEF BfInv, Carries, InHand
  <2>1. hand[w].pc # "idle" => work[hand[w].key].remaining \subseteq Items /\ hand[w].batch \subseteq Items
    BY DEF BfInv, Carries, InHand, BriefingTypeOK, PartRec, HandRec
  <2> QED BY <1>1, <2>1 DEF BfInv, Carries, InHand, BriefingTypeOK
<1>4. Kept'
  BY <1>1 DEF BfInv, Kept, BriefingTypeOK
<1> QED BY <1>2, <1>3, <1>4

LEMMA SurroundingsKeep ==
  ASSUME BfInv, \/ QuietHours \/ UNCHANGED bfVars \/ \E i \in Items : Dismiss(i)
  PROVE  BfInv'
<1>1. /\ UNCHANGED <<work, hand, lock, chosen, told, receipts, attn, notice, crashes, losses, retries>>
      /\ dismissed \subseteq dismissed' /\ dismissed' \subseteq Items
      /\ quiet' \in BOOLEAN /\ nights' \in Nat
  <2> USE DEF BfInv, BriefingTypeOK
  <2>1. CASE QuietHours
    BY <2>1 DEF QuietHours, accounts
  <2>2. CASE UNCHANGED bfVars
    BY <2>2 DEF bfVars
  <2>3. ASSUME NEW i \in Items, Dismiss(i)
        PROVE  /\ UNCHANGED <<work, hand, lock, chosen, told, receipts, attn, notice, crashes, losses, retries>>
               /\ dismissed \subseteq dismissed' /\ dismissed' \subseteq Items
               /\ quiet' \in BOOLEAN /\ nights' \in Nat
    BY <2>3 DEF Dismiss, outside
  <2> QED BY <2>1, <2>2, <2>3
<1>2. BriefingTypeOK'
  BY <1>1 DEF BfInv, BriefingTypeOK
<1>3. Sole' /\ Chained' /\ Carries' /\ Kept'
  BY <1>1, LanesStay DEF BfInv, BriefingTypeOK
<1>4. Raised'
  BY <1>1 DEF BfInv, Raised
<1>5. Explained'
  BY <1>1 DEF BfInv, Explained, Due, Budget, Notifying, Briefable, Sending, Sent, Free
<1> QED BY <1>2, <1>3, <1>4, <1>5 DEF BfInv

\* A notice is raised, told, given up or put back.
LEMMA NoticesKeep ==
  ASSUME BfInv, NEW i \in Noticed, Raise(i) \/ Notify(i) \/ RetryNotice(i)
  PROVE  BfInv'
<1>1. /\ UNCHANGED <<work, hand, lock, chosen, dismissed, quiet, nights, crashes, losses>>
      /\ BriefingTypeOK' /\ i \in Items
      /\ \A j \in Items : told'[j] \in Nat /\ told'[j] >= told[j]
      /\ \A j \in Items : j # i => told'[j] = told[j]
      /\ \A j \in Noticed : j # i => attn'[j] = attn[j] /\ notice'[j] = notice[j]
      /\ \A j : j # i => (j \in receipts' <=> j \in receipts)
      /\ retries' >= retries
  <2>1. i \in Items
    BY BriefingAssumption
  <2>2. CASE Raise(i)
    BY <2>1, <2>2 DEF Raise, outside, BfInv, BriefingTypeOK
  <2>3. CASE Notify(i)
    BY <2>1, <2>3 DEF Notify, outside, BfInv, BriefingTypeOK
  <2>4. CASE RetryNotice(i)
    BY <2>1, <2>4 DEF RetryNotice, BfInv, BriefingTypeOK
  <2> QED BY <2>2, <2>3, <2>4
<1>2. Sole' /\ Chained' /\ Carries' /\ Kept'
  BY <1>1, LanesStay
<1>3. \A j \in Items : (Sending(j)' <=> Sending(j)) /\ (Sent(j)' <=> Sent(j))
  BY <1>1 DEF Sending, Sent
<1>4. CASE Raise(i)
  <2>1. /\ attn[i] = "none" /\ attn'[i] = "pending" /\ notice'[i] = "pending"
        /\ UNCHANGED <<told, receipts, retries>>
    BY <1>4 DEF Raise, outside, BfInv, BriefingTypeOK
  <2>2. notice[i] = "none" /\ i \notin receipts /\ ~Sending(i) /\ ~Sent(i)
    BY <2>1 DEF BfInv, Raised, Sending, Sent
  <2>3. Raised'
    BY <1>1, <2>1 DEF BfInv, Raised
  <2>4. Explained'
    BY <1>1, <1>3, <2>1, <2>2 DEF BfInv, Explained, Due, Budget, Notifying, Briefable, Free, BriefingTypeOK
  <2> QED BY <1>1, <1>2, <2>3, <2>4 DEF BfInv
<1>5. CASE Notify(i)
  <2>1. notice[i] = "pending" /\ attn[i] # "none" /\ retries' = retries
    BY <1>5 DEF Notify, outside, BfInv, Raised
  <2>2. \/ /\ told'[i] = told[i] + 1 /\ receipts' = receipts \cup {i}
           /\ attn'[i] = "delivered" /\ notice'[i] = "completed"
        \/ notice'[i] = "dead" /\ UNCHANGED <<told, receipts, attn>>
    BY <1>1, <1>5 DEF Notify, BfInv, BriefingTypeOK
  <2>3. Raised'
    BY <1>1, <2>1, <2>2 DEF BfInv, Raised, BriefingTypeOK
  <2>4. Explained'
    BY <1>1, <1>3, <2>1, <2>2 DEF BfInv, Explained, Due, Budget, Notifying, Briefable, Free, BriefingTypeOK
  <2> QED BY <1>1, <1>2, <2>3, <2>4 DEF BfInv
<1>6. CASE RetryNotice(i)
  <2>1. /\ notice[i] = "dead" /\ notice'[i] = "pending" /\ retries' = retries + 1
        /\ UNCHANGED <<told, receipts, attn>>
    BY <1>6 DEF RetryNotice, BfInv, BriefingTypeOK
  <2>2. Raised'
    BY <1>1, <2>1 DEF BfInv, Raised
  <2>3. Explained'
    BY <1>1, <1>3, <2>1 DEF BfInv, Explained, Due, Budget, Notifying, Briefable, Free, BriefingTypeOK
  <2> QED BY <1>1, <1>2, <2>2, <2>3 DEF BfInv
<1> QED BY <1>4, <1>5, <1>6

-----------------------------------------------------------------------------
\* The outbox's columns change, but not what a part says of itself.
Bookkept ==
  \A k \in PartKeys :
    /\ work'[k].state = work[k].state /\ work'[k].remaining = work[k].remaining
    /\ work[k].status # "none" => work'[k].status # "none"
    /\ k[2] > 0 /\ work[k].status = "none" => work'[k].status = "none"
    /\ work'[k].status \in {"none", "pending"} => work'[k].attempts < MaxAttempts
    /\ work'[k].status = "completed" => work[k].state \in {"delivered", "silent"}

LEMMA BookkeptChained ==
  ASSUME BfInv, Bookkept
  PROVE  Chained'
<1> SUFFICES ASSUME NEW k \in PartKeys
             PROVE  /\ work'[k].status = "none" => work'[k].state = "new" /\ work'[k].remaining = {}
                    /\ work'[k].status \in {"none", "pending"} => work'[k].attempts < MaxAttempts
                    /\ work'[k].status = "completed" => work'[k].state \in {"delivered", "silent"}
                    /\ work'[k].state \in {"delivered", "silent"} => work'[k].remaining = {}
                    /\ k[2] > 0 /\ work'[k].status # "none" => work'[k].state # "new"
                    /\ work'[k].remaining # {} => Cardinality(work'[k].remaining) + k[2] <= Cardinality(Items)
                    /\ \A j \in PartKeys : j = <<k[1], k[2] + 1>> /\ work'[j].status # "none"
                                             => work'[k].state = "delivered"
  BY DEF Chained
<1>1. \A j \in PartKeys : j = <<k[1], k[2] + 1>> => j[2] > 0
  BY KeyParts
<1> QED BY <1>1 DEF BfInv, Chained, Bookkept

\* A lane that is not, and does not get, under the lock does some of it.
LEMMA QueueKeeps ==
  ASSUME BfInv, work' \in [PartKeys -> PartRec], Bookkept,
         UNCHANGED <<lock, receipts, attn, notice, dismissed, quiet, nights, crashes, losses, retries,
                     told, chosen>>,
         \/ hand' = hand
         \/ \E w \in Lanes, x \in HandRec :
              /\ hand' = [hand EXCEPT ![w] = x] /\ hand[w].pc \notin Serial
              /\ x.pc \in {"idle", "lock"} /\ ~x.ok
              /\ x.pc # "idle" => x.key \in PartKeys /\ work[x.key].status # "none"
                                  /\ x.attempts < MaxAttempts
  PROVE  BfInv'
<1>1. BriefingTypeOK'
  BY DEF BfInv, BriefingTypeOK
<1>2. Chained'
  BY BookkeptChained
<1>3. \A u \in Lanes :
        \/ hand'[u] = hand[u]
        \/ /\ hand[u].pc \notin Serial /\ hand'[u].pc \in {"idle", "lock"} /\ ~hand'[u].ok
           /\ hand'[u].pc # "idle" => hand'[u].key \in PartKeys /\ work[hand'[u].key].status # "none"
                                      /\ hand'[u].attempts < MaxAttempts
  BY DEF BfInv, BriefingTypeOK
<1>4. Sole'
  BY <1>3 DEF BfInv, Sole, Serial
<1>5. \A i : Accounted(i)' <=> Accounted(i)
  BY DEF Accounted
<1>6. Carries'
  <2> SUFFICES ASSUME NEW u \in Lanes
               PROVE  LET h == hand'[u]  p == work'[h.key]
                      IN /\ h.pc # "idle" => h.key \in PartKeys /\ p.status # "none" /\ h.attempts < MaxAttempts
                         /\ h.pc = "complete" => p.state \in {"delivered", "silent"}
                         /\ h.pc = "prepare" => p.state = "new"
                         /\ h.pc \in {"recheck", "send", "record"} => p.state = "prepared"
                         /\ h.pc = "recheck" => h.remaining = p.remaining
                         /\ h.pc \in {"lock", "load", "prepare", "recheck", "send"} => ~h.ok
                         /\ h.pc \in {"send", "record"} =>
                              /\ h.batch \subseteq h.remaining /\ h.remaining \subseteq p.remaining
                              /\ h.remaining # {} => h.batch # {}
                              /\ \A i \in p.remaining \ h.remaining : Accounted(i)
                         /\ h.pc = "record" /\ h.ok => \A i \in h.batch : told[i] > 0
    BY <1>5 DEF Carries, InHand
  <2>1. CASE hand'[u] = hand[u]
    <3>1. hand[u].pc = "idle" \/ hand[u].key \in PartKeys
      BY DEF BfInv, Carries, InHand
    <3> QED BY <2>1, <3>1 DEF BfInv, Carries, InHand, Bookkept
  <2>2. CASE hand'[u] # hand[u]
    BY <1>3, <2>2 DEF Bookkept
  <2> QED BY <2>1, <2>2
<1>7. \A i : (Sending(i)' <=> Sending(i)) /\ (Sent(i)' <=> Sent(i))
  BY <1>3 DEF Sending, Sent, Serial
<1>8. Raised'
  <2>1. \A u \in Lanes : hand'[u].pc \in {"send", "record"} => hand'[u] = hand[u]
    BY <1>3
  <2> QED BY <2>1 DEF BfInv, Raised
<1>9. Kept'
  <2>1. \A r \in Roots, n \in 0 .. Parts : <<r, n>> \in PartKeys
    BY DEF PartKeys
  <2> QED BY <1>5, <2>1 DEF BfInv, Kept, Bookkept
<1>10. Explained'
  BY <1>7 DEF BfInv, Explained, Due, Budget, Notifying, Briefable, Free
<1> QED BY <1>1, <1>2, <1>4, <1>6, <1>8, <1>9, <1>10 DEF BfInv

\* One part's outbox item changes.
LEMMA ItemKeeps ==
  ASSUME BfInv, NEW k \in PartKeys, NEW x \in PartRec, work' = [work EXCEPT ![k] = x],
         x.state = work[k].state, x.remaining = work[k].remaining,
         work[k].status # "none" => x.status # "none",
         k[2] > 0 /\ work[k].status = "none" => x.status = "none",
         x.status \in {"none", "pending"} => x.attempts < MaxAttempts,
         x.status = "completed" => x.state \in {"delivered", "silent"}
  PROVE  work' \in [PartKeys -> PartRec] /\ Bookkept
<1>1. work' \in [PartKeys -> PartRec] /\ work'[k] = x /\ \A j \in PartKeys : j # k => work'[j] = work[j]
  BY DEF BfInv, BriefingTypeOK
<1> QED BY <1>1 DEF Bookkept, BfInv, Chained

LEMMA EnqueueKeeps == ASSUME BfInv, NEW r \in Roots, EnqueueDue(r) PROVE BfInv'
<1> DEFINE k == <<r, 0>>
           x == [work[k] EXCEPT !.status = "pending"]
<1>1. k \in PartKeys /\ ~(k[2] > 0)
  BY BriefingAssumption DEF PartKeys
<1>2. work[k] \in PartRec /\ work[k].status = "none" /\ work' = [work EXCEPT ![k] = x]
  BY <1>1 DEF EnqueueDue, BfInv, BriefingTypeOK
<1>3. x \in PartRec /\ x.state = work[k].state /\ x.remaining = work[k].remaining /\ x.status = "pending"
      /\ x.attempts = work[k].attempts
  BY <1>2 DEF PartRec
<1>4. x.attempts < MaxAttempts
  BY <1>1, <1>2, <1>3 DEF BfInv, Chained
<1>5. work' \in [PartKeys -> PartRec] /\ Bookkept
  <2> HIDE DEF k, x
  <2>1. x.status # "none" /\ x.status # "completed"
    BY <1>3
  <2> QED BY <1>1, <1>2, <1>3, <1>4, <2>1, ItemKeeps
<1> QED BY <1>5, QueueKeeps DEF EnqueueDue, accounts, outside

LEMMA StaleKeeps == ASSUME BfInv, NEW k \in PartKeys, LockGoesStale(k) PROVE BfInv'
<1> DEFINE x == [work[k] EXCEPT !.locked = FALSE]
<1>1. work[k] \in PartRec /\ work' = [work EXCEPT ![k] = x]
  BY DEF LockGoesStale, BfInv, BriefingTypeOK
<1>2. x \in PartRec /\ x.state = work[k].state /\ x.remaining = work[k].remaining
      /\ x.status = work[k].status /\ x.attempts = work[k].attempts
  BY <1>1 DEF PartRec
<1>3. work' \in [PartKeys -> PartRec] /\ Bookkept
  <2> HIDE DEF x
  <2> QED BY <1>1, <1>2, ItemKeeps DEF BfInv, Chained
<1> QED BY <1>3, QueueKeeps DEF LockGoesStale, accounts, outside

\* The lane's bookkeeping.
LEMMA ClaimKeeps == ASSUME BfInv, NEW w \in Lanes, Claim(w) PROVE BfInv'
<1>1. PICK k \in PartKeys :
        /\ work[k].status = "pending"
        /\ work' = [work EXCEPT ![k].locked = TRUE]
        /\ hand' = [hand EXCEPT ![w] = [AtRest EXCEPT !.pc = "lock", !.key = k,
                                                      !.attempts = work[k].attempts]]
  BY DEF Claim
<1> DEFINE x == [work[k] EXCEPT !.locked = TRUE]
           y == [AtRest EXCEPT !.pc = "lock", !.key = k, !.attempts = work[k].attempts]
<1>2. work[k] \in PartRec /\ work' = [work EXCEPT ![k] = x]
  BY <1>1 DEF BfInv, BriefingTypeOK
<1>3. x \in PartRec /\ x.state = work[k].state /\ x.remaining = work[k].remaining
      /\ x.status = work[k].status /\ x.attempts = work[k].attempts
  BY <1>2 DEF PartRec
<1>4. work' \in [PartKeys -> PartRec] /\ Bookkept
  <2> HIDE DEF x
  <2> QED BY <1>2, <1>3, ItemKeeps DEF BfInv, Chained
<1>5. /\ y \in HandRec /\ y.pc = "lock" /\ ~y.ok /\ y.key = k
      /\ y.attempts = work[k].attempts
  BY <1>2, AtRestIsHand DEF AtRest, HandRec, PartRec
<1>6. hand' = [hand EXCEPT ![w] = y] /\ hand[w].pc = "idle"
  BY <1>1 DEF Claim
<1>7. work[k].status # "none" /\ y.attempts < MaxAttempts
  BY <1>1, <1>5 DEF BfInv, Chained
<1> HIDE DEF y
<1>8. UNCHANGED <<lock, receipts, attn, notice, dismissed, quiet, nights, crashes, losses, retries,
                  told, chosen>>
  BY DEF Claim, accounts, outside
<1> QED BY <1>4, <1>5, <1>6, <1>7, <1>8, QueueKeeps DEF Serial

\* A lane whose part is done with lets go of it.
LEMMA LetGoKeeps ==
  ASSUME BfInv, NEW w \in Lanes, hand[w].pc \in {"defer", "complete", "fail"},
         NEW x \in PartRec, work' = [work EXCEPT ![hand[w].key] = x],
         x.state = work[hand[w].key].state, x.remaining = work[hand[w].key].remaining,
         x.status \in {work[hand[w].key].status, "dead"} \/ (hand[w].pc = "complete" /\ x.status = "completed"),
         x.status = "pending" => x.attempts < MaxAttempts,
         hand' = [hand EXCEPT ![w] = AtRest], UNCHANGED <<lock, accounts, outside, told, chosen>>
  PROVE  BfInv'
<1> DEFINE k == hand[w].key
<1>1. k \in PartKeys /\ work[k].status # "none"
  BY DEF BfInv, Carries, InHand
<1>2. x.status # "none"
  BY <1>1
<1>3. x.status = "completed" => x.state \in {"delivered", "silent"}
  BY <1>1 DEF BfInv, Carries, InHand, Chained
<1>4. work' \in [PartKeys -> PartRec] /\ Bookkept
  <2> HIDE DEF k
  <2>1. /\ work' = [work EXCEPT ![k] = x]
        /\ x.state = work[k].state /\ x.remaining = work[k].remaining
    BY DEF k
  <2> QED BY <1>1, <1>2, <1>3, <2>1, ItemKeeps
<1>5. AtRest.pc = "idle" /\ ~AtRest.ok
  BY DEF AtRest
<1>6. UNCHANGED <<lock, receipts, attn, notice, dismissed, quiet, nights, crashes, losses, retries,
                  told, chosen>>
  BY DEF accounts, outside
<1> QED BY <1>4, <1>5, <1>6, AtRestIsHand, QueueKeeps DEF Serial

LEMMA DeferKeeps == ASSUME BfInv, NEW w \in Lanes, Defer(w) PROVE BfInv'
<1> DEFINE k == hand[w].key
           x == [work[k] EXCEPT !.locked = FALSE]
<1>1. k \in PartKeys /\ hand[w].pc = "defer"
  BY DEF BfInv, Carries, InHand, Defer
<1>2. work[k] \in PartRec /\ work' = [work EXCEPT ![k] = x]
  BY <1>1 DEF BfInv, BriefingTypeOK, Defer
<1>3. x \in PartRec /\ x.state = work[k].state /\ x.remaining = work[k].remaining
      /\ x.status = work[k].status /\ x.attempts = work[k].attempts
  BY <1>2 DEF PartRec
<1>4. x.status = "pending" => x.attempts < MaxAttempts
  BY <1>1, <1>3 DEF BfInv, Chained
<1> HIDE DEF x
<1> QED BY <1>1, <1>2, <1>3, <1>4, LetGoKeeps DEF Defer

LEMMA CompleteKeeps == ASSUME BfInv, NEW w \in Lanes, Complete(w) PROVE BfInv'
<1> DEFINE k == hand[w].key
           x == [work[k] EXCEPT !.status = "completed", !.locked = FALSE]
<1>1. k \in PartKeys /\ hand[w].pc = "complete"
  BY DEF BfInv, Carries, InHand, Complete
<1>2. work[k] \in PartRec /\ work' = [work EXCEPT ![k] = x]
  BY <1>1 DEF BfInv, BriefingTypeOK, Complete
<1>3. x \in PartRec /\ x.state = work[k].state /\ x.remaining = work[k].remaining /\ x.status = "completed"
  BY <1>2 DEF PartRec
<1> HIDE DEF x
<1> QED BY <1>1, <1>2, <1>3, LetGoKeeps DEF Complete

LEMMA FailKeeps == ASSUME BfInv, NEW w \in Lanes, Fail(w) PROVE BfInv'
<1> DEFINE k == hand[w].key
           n == hand[w].attempts + 1
           x == [work[k] EXCEPT !.attempts = n, !.locked = FALSE,
                                !.status = IF n >= MaxAttempts THEN "dead" ELSE @]
<1>1. k \in PartKeys /\ hand[w].pc = "fail" /\ hand[w].attempts < MaxAttempts
  BY DEF BfInv, Carries, InHand, Fail
<1>2. work[k] \in PartRec /\ work' = [work EXCEPT ![k] = x]
  <2>1. work[k] \in PartRec
    BY <1>1 DEF BfInv, BriefingTypeOK
  <2>2. work' = [work EXCEPT ![k] = x]
    BY <1>1 DEF BfInv, BriefingTypeOK, Fail
  <2> QED BY <2>1, <2>2
<1>3. n \in 0 .. MaxAttempts
  BY <1>1, BriefingAssumption DEF BfInv, BriefingTypeOK, HandRec
<1>4. x \in PartRec /\ x.state = work[k].state /\ x.remaining = work[k].remaining /\ x.attempts = n
      /\ x.status = IF n >= MaxAttempts THEN "dead" ELSE work[k].status
  <2> HIDE DEF n, k
  <2> QED BY <1>2, <1>3 DEF PartRec
<1>5. x.status = "pending" => x.attempts < MaxAttempts
  BY <1>3, <1>4, BriefingAssumption
<1>6. x.status \in {work[k].status, "dead"}
  BY <1>4
<1> HIDE DEF x, n
<1> QED BY <1>1, <1>2, <1>4, <1>5, <1>6, LetGoKeeps DEF Fail

-----------------------------------------------------------------------------
(* Under the advisory lock.                                                   *)

\* A lane takes the lock, goes on under it, leaves, or goes on without it.
LEMMA SoleStays ==
  ASSUME BfInv, NEW w \in Lanes, NEW x \in HandRec, hand' = [hand EXCEPT ![w] = x],
         \/ x.pc \notin Serial /\ lock' = (IF lock = w THEN None ELSE lock)
         \/ x.pc \notin Serial /\ hand[w].pc \notin Serial /\ lock' = lock
         \/ x.pc \in Serial /\ hand[w].pc \in Serial /\ lock' = lock
         \/ lock = None /\ lock' = w
  PROVE  Sole' /\ hand' \in [Lanes -> HandRec] /\ lock' \in Lanes \cup {None}
<1>1. /\ hand' \in [Lanes -> HandRec] /\ hand'[w] = x
      /\ \A u \in Lanes : u # w => hand'[u] = hand[u]
  BY DEF BfInv, BriefingTypeOK
<1>2. lock' \in Lanes \cup {None}
  BY DEF BfInv, BriefingTypeOK
<1>3. Sole'
  BY <1>1, BriefingAssumption DEF BfInv, Sole
<1> QED BY <1>1, <1>2, <1>3

\* What the other lanes have in hand is as good as before while a part that is told of
\* as ended stays so and only the lane under the lock sees the others.
LEMMA OthersStay ==
  ASSUME BfInv, NEW w \in Lanes, NEW u \in Lanes, u # w, hand'[u] = hand[u],
         \A i \in Items : Accounted(i) => Accounted(i)',
         \A i \in Items : told[i] > 0 => told'[i] > 0,
         \/ UNCHANGED work
         \/ /\ hand[w].pc \in Serial
            /\ \A k \in PartKeys :
                 /\ work[k].status # "none" => work'[k].status # "none"
                 /\ work[k].state \in {"delivered", "silent"} => work'[k].state = work[k].state
  PROVE  InHand(hand[u], work[hand[u].key])'
<1>1. hand[u].pc # "idle" => hand[u].key \in PartKeys /\ work[hand[u].key].remaining \subseteq Items
  BY DEF BfInv, Carries, InHand, BriefingTypeOK, PartRec
<1>2. hand[u].batch \subseteq Items
  BY DEF BfInv, BriefingTypeOK, HandRec
<1>3. InHand(hand[u], work[hand[u].key])
  BY DEF BfInv, Carries
<1>4. CASE UNCHANGED work
  BY <1>1, <1>2, <1>3, <1>4 DEF InHand
<1>5. CASE /\ hand[w].pc \in Serial
           /\ \A k \in PartKeys :
                /\ work[k].status # "none" => work'[k].status # "none"
                /\ work[k].state \in {"delivered", "silent"} => work'[k].state = work[k].state
  <2>1. hand[u].pc \notin Serial
    BY <1>5, Alone DEF BfInv
  <2> QED BY <1>1, <1>3, <1>5, <2>1 DEF InHand, Serial
<1> QED BY <1>4, <1>5

\* A step of the lane that neither sends nor has sent changes no due telling.
LEMMA QuietStep ==
  ASSUME BfInv, NEW w \in Lanes, NEW x \in HandRec, hand' = [hand EXCEPT ![w] = x],
         hand[w].pc \notin {"send", "record"}, x.pc \notin {"send", "record"},
         UNCHANGED <<receipts, attn, notice, told, crashes, losses, retries>>
  PROVE  Explained' /\ Raised'
<1>1. /\ hand'[w] = x
      /\ \A u \in Lanes : u # w => hand'[u] = hand[u]
  BY DEF BfInv, BriefingTypeOK
<1>2. \A i : (Sending(i)' <=> Sending(i)) /\ (Sent(i)' <=> Sent(i))
  BY <1>1 DEF Sending, Sent
<1>3. Explained'
  BY <1>2 DEF BfInv, Explained, Due, Budget, Notifying, Briefable, Free
<1>4. Raised'
  BY <1>1 DEF BfInv, Raised
<1> QED BY <1>3, <1>4

\* A step of the lane that changes nothing but what it has in hand and the lock.
LEMMA LaneStep ==
  ASSUME BfInv, NEW w \in Lanes, NEW x \in HandRec, hand' = [hand EXCEPT ![w] = x],
         \/ x.pc \notin Serial /\ lock' = (IF lock = w THEN None ELSE lock)
         \/ x.pc \notin Serial /\ hand[w].pc \notin Serial /\ lock' = lock
         \/ x.pc \in Serial /\ hand[w].pc \in Serial /\ lock' = lock
         \/ lock = None /\ lock' = w,
         hand[w].pc \notin {"send", "record"}, x.pc \notin {"send", "record"},
         UNCHANGED <<work, accounts, outside, told, chosen>>,
         InHand(x, work[x.key])
  PROVE  BfInv'
<1>1. UNCHANGED <<receipts, attn, notice, dismissed, quiet, nights, crashes, losses, retries>>
  BY DEF accounts, outside
<1>2. Sole' /\ hand' \in [Lanes -> HandRec] /\ lock' \in Lanes \cup {None}
  BY SoleStays
<1>3. BriefingTypeOK'
  BY <1>1, <1>2 DEF BfInv, BriefingTypeOK
<1>4. hand'[w] = x /\ \A u \in Lanes : u # w => hand'[u] = hand[u]
  BY DEF BfInv, BriefingTypeOK
<1>5. Carries'
  <2>1. InHand(hand[w], work[hand[w].key])'
    BY <1>1, <1>4 DEF InHand, Accounted
  <2>2. ASSUME NEW u \in Lanes, u # w
        PROVE  InHand(hand[u], work[hand[u].key])'
    BY <1>1, <1>4, <2>2, OthersStay DEF Accounted
  <2> QED BY <2>1, <2>2 DEF Carries
<1>6. Chained' /\ Kept'
  BY <1>1 DEF BfInv, Chained, Kept, Accounted
<1>7. Explained' /\ Raised'
  BY <1>1, QuietStep
<1> QED BY <1>2, <1>3, <1>5, <1>6, <1>7 DEF BfInv

LEMMA TakeLockKeeps == ASSUME BfInv, NEW w \in Lanes, TakeLock(w) PROVE BfInv'
<1>1. hand[w] \in HandRec /\ hand[w].pc = "lock" /\ InHand(hand[w], work[hand[w].key])
  BY DEF TakeLock, BfInv, BriefingTypeOK, Carries
<1>2. PICK pc \in {"load", "defer"} :
        /\ hand' = [hand EXCEPT ![w].pc = pc]
        /\ \/ pc = "load" /\ lock = None /\ lock' = w
           \/ pc = "defer" /\ lock' = lock
  BY DEF TakeLock
<1> DEFINE x == [hand[w] EXCEPT !.pc = pc]
<1>3. /\ x \in HandRec /\ x.pc = pc /\ x.key = hand[w].key /\ x.attempts = hand[w].attempts
      /\ x.ok = hand[w].ok
  BY <1>1, <1>2 DEF HandRec
<1>4. hand' = [hand EXCEPT ![w] = x]
  BY <1>2 DEF BfInv, BriefingTypeOK
<1> HIDE DEF x
<1>5. InHand(x, work[x.key])
  BY <1>1, <1>2, <1>3 DEF InHand
<1> QED BY <1>1, <1>2, <1>3, <1>4, <1>5, LaneStep DEF TakeLock, Serial

\* Leaving the serialized block.
LEMMA Leaves ==
  ASSUME BfInv, NEW w \in Lanes, NEW pc \in {"complete", "fail", "defer"}, Leave(w, pc),
         hand[w].pc # "idle",
         NEW p, p.status # "none", pc = "complete" => p.state \in {"delivered", "silent"}
  PROVE  LET x == [hand[w] EXCEPT !.pc = pc]
         IN /\ x \in HandRec /\ x.pc = pc /\ x.key = hand[w].key
            /\ hand' = [hand EXCEPT ![w] = x] /\ lock' = (IF lock = w THEN None ELSE lock)
            /\ InHand(x, p)
<1>1. hand[w] \in HandRec /\ InHand(hand[w], work[hand[w].key])
  BY DEF BfInv, BriefingTypeOK, Carries
<1> DEFINE x == [hand[w] EXCEPT !.pc = pc]
<1>2. x \in HandRec /\ x.pc = pc /\ x.key = hand[w].key /\ x.attempts = hand[w].attempts
  BY <1>1 DEF HandRec
<1>3. hand' = [hand EXCEPT ![w] = x] /\ lock' = (IF lock = w THEN None ELSE lock)
  BY DEF Leave, BfInv, BriefingTypeOK
<1> HIDE DEF x
<1>4. InHand(x, p)
  BY <1>1, <1>2 DEF InHand
<1> QED BY <1>2, <1>3, <1>4 DEF x

LEMMA LoadKeeps == ASSUME BfInv, NEW w \in Lanes, Load(w) PROVE BfInv'
<1> DEFINE p == work[hand[w].key]
<1>1. /\ hand[w] \in HandRec /\ hand[w].pc = "load" /\ InHand(hand[w], p)
      /\ hand[w].key \in PartKeys /\ p \in PartRec /\ p.status # "none"
  BY DEF Load, BfInv, BriefingTypeOK, Carries, InHand
<1>2. CASE p.state \in {"delivered", "silent"}
  <2>1. Leave(w, "complete")
    BY <1>2 DEF Load
  <2> DEFINE x == [hand[w] EXCEPT !.pc = "complete"]
  <2>2. /\ x \in HandRec /\ x.pc = "complete" /\ x.key = hand[w].key
        /\ hand' = [hand EXCEPT ![w] = x] /\ lock' = (IF lock = w THEN None ELSE lock)
        /\ InHand(x, p)
    BY <1>1, <1>2, <2>1, Leaves
  <2> HIDE DEF x
  <2> QED BY <1>1, <2>2, LaneStep DEF Load, Serial
<1>3. CASE p.state \notin {"delivered", "silent"}
  <2> DEFINE pc == IF p.state = "new" THEN "prepare" ELSE "recheck"
             x == [hand[w] EXCEPT !.remaining = p.remaining, !.pc = pc]
  <2>1. hand' = [hand EXCEPT ![w] = x] /\ lock' = lock
    BY <1>3 DEF Load, BfInv, BriefingTypeOK
  <2>2. /\ x \in HandRec /\ x.pc = pc /\ x.key = hand[w].key /\ x.attempts = hand[w].attempts
        /\ x.ok = hand[w].ok /\ x.remaining = p.remaining
    BY <1>1 DEF HandRec, PartRec
  <2>3. (pc = "prepare" /\ p.state = "new") \/ (pc = "recheck" /\ p.state = "prepared")
    BY <1>1, <1>3 DEF PartRec
  <2> HIDE DEF x, pc
  <2>4. InHand(x, work[x.key])
    BY <1>1, <2>2, <2>3 DEF InHand
  <2> QED BY <1>1, <2>1, <2>2, <2>3, <2>4, LaneStep DEF Load, Serial
<1> QED BY <1>2, <1>3

\* The part in hand is changed under the lock.  What was left of it and is not told
\* is left of it still, or of the next part.
LEMMA PartStep ==
  ASSUME BfInv, NEW w \in Lanes, hand[w].pc \in Serial, hand[w].pc \notin {"send", "record"},
         work[hand[w].key].state \in {"new", "prepared"},
         NEW x \in HandRec, hand' = [hand EXCEPT ![w] = x], x.pc \notin {"send", "record"},
         \/ x.pc \notin Serial /\ lock' = (IF lock = w THEN None ELSE lock)
         \/ x.pc \in Serial /\ lock' = lock,
         NEW y \in PartRec, work' = [work EXCEPT ![hand[w].key] = y],
         y.status = work[hand[w].key].status, y.attempts = work[hand[w].key].attempts,
         y.state \in {"prepared", "silent"}, y.state = "silent" => y.remaining = {},
         \/ y.remaining \subseteq work[hand[w].key].remaining
         \/ hand[w].key[2] = 0,
         InHand(x, y), x.key = hand[w].key,
         \/ /\ UNCHANGED chosen
            /\ \A i \in work[hand[w].key].remaining \ y.remaining : Accounted(i)
         \/ chosen' = [chosen EXCEPT ![hand[w].key[1]] = y.remaining],
         UNCHANGED <<accounts, outside, told>>
  PROVE  BfInv'
<1> DEFINE k == hand[w].key
<1>1. UNCHANGED <<receipts, attn, notice, dismissed, quiet, nights, crashes, losses, retries, told>>
  BY DEF accounts, outside
<1>2. k \in PartKeys /\ work[k].status # "none" /\ k = <<k[1], k[2]>> /\ k[1] \in Roots /\ k[2] \in 0 .. Parts
  BY KeyParts DEF BfInv, Carries, InHand, Serial
<1>3. Sole' /\ hand' \in [Lanes -> HandRec] /\ lock' \in Lanes \cup {None}
  BY SoleStays
<1>4. /\ work' \in [PartKeys -> PartRec] /\ work'[k] = y
      /\ \A j \in PartKeys : j # k => work'[j] = work[j]
  BY <1>2 DEF BfInv, BriefingTypeOK
<1>5. chosen' \in [Roots -> SUBSET Items]
  BY <1>2 DEF BfInv, BriefingTypeOK, PartRec
<1>6. BriefingTypeOK'
  BY <1>1, <1>3, <1>4, <1>5 DEF BfInv, BriefingTypeOK
<1>7. Explained' /\ Raised'
  BY <1>1, QuietStep
<1>8. hand'[w] = x /\ \A u \in Lanes : u # w => hand'[u] = hand[u]
  BY DEF BfInv, BriefingTypeOK
<1>9. \A i : Accounted(i)' <=> Accounted(i)
  BY <1>1 DEF Accounted
<1>10. Carries'
  <2>1. InHand(hand[w], work[hand[w].key])'
    BY <1>1, <1>4, <1>8, <1>9 DEF InHand
  <2>2. \A j \in PartKeys :
          /\ work[j].status # "none" => work'[j].status # "none"
          /\ work[j].state \in {"delivered", "silent"} => work'[j].state = work[j].state
    BY <1>4
  <2>3. ASSUME NEW u \in Lanes, u # w
        PROVE  InHand(hand[u], work[hand[u].key])'
    BY <1>1, <1>8, <1>9, <2>2, <2>3, OthersStay
  <2> QED BY <2>1, <2>3 DEF Carries
<1>11. Chained'
  <2>1. ASSUME y.remaining # {}
        PROVE  Cardinality(y.remaining) + k[2] <= Cardinality(Items)
    <3>1. IsFiniteSet(Items) /\ y.remaining \subseteq Items /\ work[k].remaining \subseteq Items
      BY <1>2, BriefingAssumption DEF BfInv, BriefingTypeOK, PartRec
    <3>2. CASE y.remaining \subseteq work[k].remaining
      <4>1. IsFiniteSet(work[k].remaining)
        BY <3>1, FS_Subset
      <4>2. Cardinality(y.remaining) <= Cardinality(work[k].remaining) /\ Cardinality(y.remaining) \in Nat
            /\ Cardinality(work[k].remaining) \in Nat /\ Cardinality(Items) \in Nat
        BY <3>1, <3>2, <4>1, FS_Subset, FS_CardinalityType
      <4>3. Cardinality(work[k].remaining) + k[2] <= Cardinality(Items)
        BY <1>2, <2>1, <3>2 DEF BfInv, Chained
      <4> QED BY <1>2, <4>2, <4>3
    <3>3. CASE k[2] = 0
      <4>1. Cardinality(y.remaining) <= Cardinality(Items) /\ Cardinality(y.remaining) \in Nat
        BY <3>1, FS_Subset, FS_CardinalityType
      <4> QED BY <3>3, <4>1
    <3> QED BY <3>2, <3>3
  <2>2. \A j \in PartKeys : j = <<k[1], k[2] + 1>> => work[j].status = "none"
    BY <1>2 DEF BfInv, Chained
  <2>3. \A j \in PartKeys : j # k => (work'[j] = work[j])
    BY <1>4
  <2>4. \A j \in PartKeys : work'[j].status = work[j].status
    BY <1>4
  <2>5. y.status \in {"none", "pending"} => y.attempts < MaxAttempts
    BY <1>2 DEF BfInv, Chained
  <2>6. y.status # "completed"
    BY <1>2 DEF BfInv, Chained
  <2> QED BY <1>2, <1>4, <2>1, <2>2, <2>3, <2>4, <2>5, <2>6 DEF BfInv, Chained
<1>12. Kept'
  <2> SUFFICES ASSUME NEW r \in Roots, NEW i \in chosen'[r], ~Accounted(i)
               PROVE  \E n \in 0 .. Parts : i \in work'[<<r, n>>].remaining
    BY <1>9 DEF Kept
  <2>1. CASE r = k[1] /\ chosen' # chosen
    <3>1. i \in y.remaining
      BY <1>2, <2>1 DEF BfInv, BriefingTypeOK
    <3> QED BY <1>2, <1>4, <2>1, <3>1
  <2>2. CASE r # k[1] \/ chosen' = chosen
    <3>1. i \in chosen[r]
      BY <1>2, <2>2 DEF BfInv, BriefingTypeOK
    <3>2. PICK n \in 0 .. Parts : i \in work[<<r, n>>].remaining
      BY <3>1 DEF BfInv, Kept
    <3>3. <<r, n>> \in PartKeys
      BY DEF PartKeys
    <3>4. CASE <<r, n>> # k
      BY <1>4, <3>2, <3>3, <3>4
    <3>5. CASE <<r, n>> = k
      <4>1. r = k[1]
        BY <1>2, <3>5
      <4>2. i \in y.remaining
        <5>1. CASE chosen' = [chosen EXCEPT ![k[1]] = y.remaining]
          BY <1>2, <4>1, <5>1 DEF BfInv, BriefingTypeOK
        <5>2. CASE \A j \in work[k].remaining \ y.remaining : Accounted(j)
          BY <3>2, <3>5, <5>2
        <5> QED BY <5>1, <5>2
      <4> QED BY <1>4, <3>5, <4>2
    <3> QED BY <3>4, <3>5
  <2> QED BY <2>1, <2>2
<1> QED BY <1>3, <1>6, <1>7, <1>10, <1>11, <1>12 DEF BfInv

LEMMA SelectionsAreItems ==
  ASSUME NEW S \in Selections(Wanted(Items))
  PROVE  S \in SUBSET Items
  BY DEF Selections, Wanted

LEMMA PrepareKeeps == ASSUME BfInv, NEW w \in Lanes, Prepare(w) PROVE BfInv'
<1> DEFINE k == hand[w].key
           p == work[k]
<1>1. /\ hand[w] \in HandRec /\ hand[w].pc = "prepare" /\ InHand(hand[w], p)
      /\ k \in PartKeys /\ p \in PartRec /\ p.status # "none" /\ p.state = "new"
  BY DEF Prepare, BfInv, BriefingTypeOK, Carries, InHand
<1>2. k[2] = 0
  BY <1>1, KeyParts DEF BfInv, Chained
<1>3. CASE Leave(w, "fail") /\ UNCHANGED <<work, chosen>>
  <2> DEFINE x == [hand[w] EXCEPT !.pc = "fail"]
  <2>1. /\ x \in HandRec /\ x.pc = "fail" /\ x.key = k
        /\ hand' = [hand EXCEPT ![w] = x] /\ lock' = (IF lock = w THEN None ELSE lock)
        /\ InHand(x, p)
    BY <1>1, <1>3, Leaves
  <2> HIDE DEF x
  <2> QED BY <1>1, <1>3, <2>1, LaneStep DEF Prepare, Serial
<1>4. CASE \E S \in Selections(Wanted(Items)) :
             /\ work' = [work EXCEPT ![k].remaining = S,
                          ![k].state = IF S # {} \/ k[1] \in Morning THEN "prepared" ELSE "silent"]
             /\ chosen' = [chosen EXCEPT ![k[1]] = S]
             /\ IF S # {} \/ k[1] \in Morning
                  THEN hand' = [hand EXCEPT ![w].remaining = S, ![w].pc = "recheck"] /\ UNCHANGED lock
                  ELSE Leave(w, "complete")
  <2>1. PICK S \in SUBSET Items :
             /\ work' = [work EXCEPT ![k].remaining = S,
                          ![k].state = IF S # {} \/ k[1] \in Morning THEN "prepared" ELSE "silent"]
             /\ chosen' = [chosen EXCEPT ![k[1]] = S]
             /\ IF S # {} \/ k[1] \in Morning
                  THEN hand' = [hand EXCEPT ![w].remaining = S, ![w].pc = "recheck"] /\ UNCHANGED lock
                  ELSE Leave(w, "complete")
    BY <1>4, SelectionsAreItems
  <2> DEFINE some == S # {} \/ k[1] \in Morning
             y == [p EXCEPT !.remaining = S, !.state = IF some THEN "prepared" ELSE "silent"]
  <2>2. /\ y \in PartRec /\ y.status = p.status /\ y.attempts = p.attempts /\ y.remaining = S
        /\ y.state = IF some THEN "prepared" ELSE "silent"
    BY <1>1 DEF PartRec
  <2>3. work' = [work EXCEPT ![k] = y]
    BY <1>1, <2>1 DEF BfInv, BriefingTypeOK
  <2>4. \E x \in HandRec :
          /\ hand' = [hand EXCEPT ![w] = x] /\ x.pc \notin {"send", "record"} /\ x.key = k /\ InHand(x, y)
          /\ \/ x.pc \notin Serial /\ lock' = (IF lock = w THEN None ELSE lock)
             \/ x.pc \in Serial /\ lock' = lock
    <3>1. CASE some
      <4> DEFINE x == [hand[w] EXCEPT !.remaining = S, !.pc = "recheck"]
      <4>1. /\ x \in HandRec /\ x.pc = "recheck" /\ x.key = k /\ x.attempts = hand[w].attempts
            /\ x.ok = hand[w].ok /\ x.remaining = S
        BY <1>1 DEF HandRec
      <4>2. hand' = [hand EXCEPT ![w] = x] /\ lock' = lock
        BY <2>1, <3>1 DEF BfInv, BriefingTypeOK
      <4> HIDE DEF x, y
      <4>3. InHand(x, y)
        BY <1>1, <2>2, <3>1, <4>1 DEF InHand
      <4> QED BY <4>1, <4>2, <4>3 DEF Serial
    <3>2. CASE ~some
      <4> DEFINE x == [hand[w] EXCEPT !.pc = "complete"]
      <4> HIDE DEF y
      <4>1. Leave(w, "complete") /\ y.status # "none" /\ y.state \in {"delivered", "silent"}
        BY <1>1, <2>1, <2>2, <3>2
      <4>2. /\ x \in HandRec /\ x.pc = "complete" /\ x.key = k
            /\ hand' = [hand EXCEPT ![w] = x] /\ lock' = (IF lock = w THEN None ELSE lock)
            /\ InHand(x, y)
        BY <1>1, <4>1, Leaves
      <4> QED BY <4>2 DEF Serial
    <3> QED BY <3>1, <3>2
  <2>5. y.state = "silent" => y.remaining = {}
    BY <2>2
  <2>6. chosen' = [chosen EXCEPT ![k[1]] = y.remaining]
    BY <2>1, <2>2
  <2> HIDE DEF y
  <2> QED BY <1>1, <1>2, <2>2, <2>3, <2>4, <2>5, <2>6, PartStep DEF Prepare, Serial
<1> QED BY <1>3, <1>4 DEF Prepare

\* What a recheck drops need not be told.
LEMMA DroppedIsAccounted ==
  ASSUME BfInv, NEW S \in SUBSET Items, NEW i \in S \ Wanted(S)
  PROVE  Accounted(i)
  BY DEF Wanted, Unavailable, Accounted, BfInv, Raised

\* A recheck that ends with nothing to tell, or with the night.
LEMMA RecheckLeaves ==
  ASSUME BfInv, NEW w \in Lanes, hand[w].pc = "recheck",
         NEW S \in SUBSET hand[w].remaining, \A i \in hand[w].remaining \ S : Accounted(i),
         NEW state \in {"prepared", "silent"}, state = "silent" => S = {},
         NEW pc \in {"complete", "defer"}, pc = "complete" => state = "silent", Leave(w, pc),
         work' = [work EXCEPT ![hand[w].key].state = state, ![hand[w].key].remaining = S],
         UNCHANGED <<accounts, outside, told, chosen>>
  PROVE  BfInv'
<1> DEFINE k == hand[w].key
           p == work[k]
           x == [hand[w] EXCEPT !.pc = pc]
           y == [p EXCEPT !.state = state, !.remaining = S]
<1>1. /\ hand[w] \in HandRec /\ InHand(hand[w], p)
      /\ k \in PartKeys /\ p \in PartRec /\ p.status # "none" /\ p.state = "prepared"
      /\ p.remaining = hand[w].remaining
  BY DEF BfInv, BriefingTypeOK, Carries, InHand
<1>2. /\ y \in PartRec /\ y.status = p.status /\ y.attempts = p.attempts /\ y.remaining = S
      /\ y.state = state
  BY <1>1 DEF PartRec
<1>3. work' = [work EXCEPT ![k] = y]
  BY <1>1 DEF BfInv, BriefingTypeOK
<1> HIDE DEF y
<1>4. /\ x \in HandRec /\ x.pc = pc /\ x.key = k
      /\ hand' = [hand EXCEPT ![w] = x] /\ lock' = (IF lock = w THEN None ELSE lock)
      /\ InHand(x, y)
  <2>1. y.status # "none" /\ (pc = "complete" => y.state \in {"delivered", "silent"})
    BY <1>1, <1>2
  <2>2. pc \in {"complete", "fail", "defer"} /\ hand[w].pc # "idle"
    OBVIOUS
  <2> QED BY <2>1, <2>2, Leaves
<1>5. /\ y.remaining \subseteq p.remaining /\ (y.state = "silent" => y.remaining = {})
      /\ \A i \in p.remaining \ y.remaining : Accounted(i)
  BY <1>1, <1>2
<1>6. x.pc \notin Serial /\ x.pc \notin {"send", "record"} /\ hand[w].pc \in Serial
      /\ y.state \in {"prepared", "silent"}
  BY <1>2, <1>4 DEF Serial
<1> HIDE DEF x
<1> QED BY <1>1, <1>2, <1>3, <1>4, <1>5, <1>6, PartStep

\* Where nothing was told and nothing became due, all is explained as before.
LEMMA EachIsExplained ==
  ASSUME BfInv, UNCHANGED <<notice, told, retries, crashes, losses>>,
         \A i \in Items : Briefable(i)' => Briefable(i)
  PROVE  Explained'
<1> SUFFICES ASSUME NEW i \in Items
             PROVE  (told[i] + Due(i) <= Budget(i))'
  BY DEF Explained
<1>1. told[i] + Due(i) <= Budget(i) /\ told[i] \in Nat
  BY DEF BfInv, Explained, BriefingTypeOK
<1>2. Notifying(i)' <=> Notifying(i)
  BY DEF Notifying
<1>3. (Due(i)' = Due(i) \/ Due(i)' = Due(i) - 1) /\ Due(i) \in Nat
  BY <1>2 DEF Due
<1>4. Budget(i)' = Budget(i) /\ Budget(i) \in Nat
  BY DEF Budget, BfInv, BriefingTypeOK
<1> QED BY <1>1, <1>3, <1>4

\* A batch of something is something.
LEMMA BatchIsSome ==
  ASSUME NEW S \in SUBSET Items, NEW B \in Batches(S)
  PROVE  B \subseteq S /\ (S # {} => B # {})
<1>1. IsFiniteSet(S)
  BY BriefingAssumption, FS_Subset
<1>2. S # {} => Cardinality(S) # 0 /\ Cardinality(S) \in Nat
  BY <1>1, FS_EmptySet, FS_CardinalityType
<1>3. B \subseteq S /\ Cardinality(B) = (IF Cardinality(S) < MaxItems THEN Cardinality(S) ELSE MaxItems)
  BY DEF Batches
<1>4. Cardinality({}) = 0
  BY FS_EmptySet
<1> QED BY <1>2, <1>3, <1>4, BriefingAssumption

\* While a lane is under the lock and before its sending, none sends.
LEMMA NobodySends ==
  ASSUME BfInv, NEW w \in Lanes, hand[w].pc \in Serial, hand[w].pc \notin {"send", "record"}
  PROVE  \A i : ~Sending(i) /\ ~Sent(i)
<1>1. \A u \in Lanes : hand[u].pc \notin {"send", "record"}
  BY Alone DEF BfInv, Serial
<1> QED BY <1>1 DEF Sending, Sent

\* A recheck that goes on to the sending of a batch.
LEMMA RecheckSends ==
  ASSUME BfInv, NEW w \in Lanes, hand[w].pc = "recheck",
         NEW B \in SUBSET Wanted(hand[w].remaining), Wanted(hand[w].remaining) # {} => B # {},
         hand' = [hand EXCEPT ![w].remaining = Wanted(hand[w].remaining), ![w].batch = B,
                              ![w].pc = "send"],
         UNCHANGED <<work, lock, accounts, outside, told, chosen>>
  PROVE  BfInv'
<1> DEFINE k == hand[w].key
           p == work[k]
           left == Wanted(hand[w].remaining)
           x == [hand[w] EXCEPT !.remaining = left, !.batch = B, !.pc = "send"]
<1>1. /\ hand[w] \in HandRec /\ InHand(hand[w], p)
      /\ k \in PartKeys /\ p.status # "none" /\ p.state = "prepared"
      /\ p.remaining = hand[w].remaining
  BY DEF BfInv, BriefingTypeOK, Carries, InHand
<1>2. left \in SUBSET Items /\ left \subseteq hand[w].remaining
  BY <1>1 DEF Wanted, HandRec
<1>3. /\ x \in HandRec /\ x.pc = "send" /\ x.key = k /\ x.attempts = hand[w].attempts
      /\ x.ok = hand[w].ok /\ x.remaining = left /\ x.batch = B
  <2> HIDE DEF left
  <2>1. left \in SUBSET Items /\ B \in SUBSET Items
    BY <1>2 DEF left
  <2> QED BY <1>1, <2>1 DEF HandRec
<1>4. hand' = [hand EXCEPT ![w] = x]
  BY <1>1 DEF BfInv, BriefingTypeOK
<1>5. \A i \in p.remaining \ left : Accounted(i)
  BY <1>1, DroppedIsAccounted DEF HandRec
<1> HIDE DEF x
<1>6. InHand(x, p)
  <2> HIDE DEF left
  <2> QED BY <1>1, <1>2, <1>3, <1>5 DEF InHand, left
<1>7. UNCHANGED <<receipts, attn, notice, dismissed, quiet, nights, crashes, losses, retries>>
  BY DEF accounts, outside
<1>8. Sole' /\ hand' \in [Lanes -> HandRec] /\ lock' \in Lanes \cup {None}
  BY <1>3, <1>4, SoleStays DEF Serial
<1>9. BriefingTypeOK'
  BY <1>7, <1>8 DEF BfInv, BriefingTypeOK
<1>10. hand'[w] = x /\ \A u \in Lanes : u # w => hand'[u] = hand[u]
  BY <1>4 DEF BfInv, BriefingTypeOK
<1>11. Carries'
  <2>1. InHand(hand[w], work[hand[w].key])'
    BY <1>3, <1>6, <1>7, <1>10 DEF InHand, Accounted
  <2>2. ASSUME NEW u \in Lanes, u # w
        PROVE  InHand(hand[u], work[hand[u].key])'
    BY <1>7, <1>10, <2>2, OthersStay DEF Accounted
  <2> QED BY <2>1, <2>2 DEF Carries
<1>12. Chained' /\ Kept'
  BY <1>7 DEF BfInv, Chained, Kept, Accounted
<1>13. \A i \in B : /\ i \notin receipts
                    /\ i \in Noticed => attn[i] = "pending" /\ notice[i] # "pending"
  BY <1>1 DEF Wanted, Unavailable
<1>14. \A i : ~Sending(i) /\ ~Sent(i)
  BY NobodySends DEF Serial
<1>15. \A i : (Sending(i)' => i \in B) /\ ~Sent(i)'
  <2>1. \A u \in Lanes : u # w => hand[u].pc \notin Serial
    BY Alone DEF BfInv, Serial
  <2> QED BY <1>3, <1>10, <2>1 DEF Sending, Sent, Serial
<1>16. Explained'
  <2> SUFFICES ASSUME NEW i \in Items
               PROVE  Briefable(i)' => Briefable(i)
    BY <1>7, EachIsExplained
  <2> QED BY <1>7, <1>13, <1>14, <1>15 DEF Briefable, Free
<1>17. Raised'
  <2>1. \A u \in Lanes : hand'[u].pc \in {"send", "record"} => u = w
    BY <1>10, Alone DEF BfInv, Serial
  <2> QED BY <1>3, <1>7, <1>10, <1>13, <2>1 DEF BfInv, Raised
<1> QED BY <1>8, <1>9, <1>11, <1>12, <1>16, <1>17 DEF BfInv

LEMMA RecheckKeeps == ASSUME BfInv, NEW w \in Lanes, Recheck(w) PROVE BfInv'
<1> DEFINE k == hand[w].key
           left == Wanted(hand[w].remaining)
           context == k[1] \in Morning /\ k[2] = 0
           now == IF quiet THEN left \cap Critical ELSE left
<1>1. /\ hand[w] \in HandRec /\ hand[w].pc = "recheck" /\ InHand(hand[w], work[k])
      /\ k \in PartKeys /\ work[k] \in PartRec /\ work[k].state = "prepared"
      /\ UNCHANGED <<accounts, outside, told, chosen>>
  BY DEF Recheck, BfInv, BriefingTypeOK, Carries, InHand
<1>2. hand[w].remaining \in SUBSET Items /\ left \in SUBSET hand[w].remaining
  BY <1>1 DEF Wanted, HandRec
<1>3. \A i \in hand[w].remaining \ left : Accounted(i)
  BY <1>2, DroppedIsAccounted
<1>4. CASE /\ left = {} /\ ~context
           /\ work' = [work EXCEPT ![k].state = "silent", ![k].remaining = {}]
           /\ Leave(w, "complete")
  <2> HIDE DEF left
  <2> QED BY <1>1, <1>2, <1>3, <1>4, RecheckLeaves
<1>5. CASE work' = [work EXCEPT ![k].remaining = left] /\ Leave(w, "defer")
  <2>1. work' = [work EXCEPT ![k].state = "prepared", ![k].remaining = left]
    <3> HIDE DEF left
    <3>1. [work[k] EXCEPT !.remaining = left] = [work[k] EXCEPT !.state = "prepared", !.remaining = left]
      BY <1>1 DEF PartRec
    <3> QED BY <1>1, <1>5, <3>1 DEF BfInv, BriefingTypeOK
  <2> HIDE DEF left
  <2> QED BY <1>1, <1>2, <1>3, <1>5, <2>1, RecheckLeaves
<1>6. CASE /\ now # {} \/ (context /\ ~quiet)
           /\ \E B \in Batches(now) :
                hand' = [hand EXCEPT ![w].remaining = left, ![w].batch = B, ![w].pc = "send"]
           /\ UNCHANGED <<work, lock>>
  <2>1. PICK B \in Batches(now) :
          hand' = [hand EXCEPT ![w].remaining = left, ![w].batch = B, ![w].pc = "send"]
    BY <1>6
  <2>2. now \in SUBSET Items /\ now \subseteq left /\ (left # {} => now # {})
    BY <1>2, <1>6
  <2>3. B \subseteq now /\ (now # {} => B # {})
    BY <2>1, <2>2, BatchIsSome
  <2>4. B \in SUBSET left /\ (left # {} => B # {})
    BY <2>2, <2>3
  <2> QED BY <1>1, <1>6, <2>1, <2>4, RecheckSends
<1> QED BY <1>4, <1>5, <1>6 DEF Recheck

\* The sending: taken, refused, or taken without an answer.
LEMMA SendKeeps ==
  ASSUME BfInv, NEW w \in Lanes, Send(w)
  PROVE  BfInv'
<1> DEFINE k == hand[w].key
           p == work[k]
           batch == hand[w].batch
<1>1. /\ hand[w] \in HandRec /\ hand[w].pc = "send" /\ InHand(hand[w], p) /\ ~hand[w].ok
      /\ k \in PartKeys /\ batch \in SUBSET Items
  BY DEF Send, BfInv, BriefingTypeOK, Carries, InHand, HandRec
<1>2. UNCHANGED <<work, lock, receipts, attn, notice, dismissed, quiet, nights, crashes, retries, chosen>>
  BY DEF Send, accounts
<1>3. PICK ok \in BOOLEAN :
        /\ hand' = [hand EXCEPT ![w].pc = "record", ![w].ok = ok]
        /\ \/ /\ told' = [i \in Items |-> told[i] + (IF i \in batch THEN 1 ELSE 0)]
              /\ \/ ok /\ UNCHANGED losses
                 \/ ~ok /\ losses' = losses + 1
           \/ ~ok /\ UNCHANGED <<told, losses>>
  <2>1. [hand[w] EXCEPT !.pc = "record"] = [hand[w] EXCEPT !.pc = "record", !.ok = FALSE]
    BY <1>1 DEF HandRec
  <2>2. [hand EXCEPT ![w].pc = "record"] = [hand EXCEPT ![w].pc = "record", ![w].ok = FALSE]
    BY <2>1 DEF BfInv, BriefingTypeOK
  <2> QED BY <2>2 DEF Send
<1> DEFINE x == [hand[w] EXCEPT !.pc = "record", !.ok = ok]
<1>4. /\ x \in HandRec /\ x.pc = "record" /\ x.ok = ok /\ x.key = k /\ x.batch = batch
      /\ x.remaining = hand[w].remaining /\ x.attempts = hand[w].attempts
  BY <1>1 DEF HandRec
<1>5. hand' = [hand EXCEPT ![w] = x]
  BY <1>1, <1>3 DEF BfInv, BriefingTypeOK
<1> HIDE DEF x
<1>6. /\ told' \in [Items -> Nat] /\ losses' \in Nat
      /\ \A i \in Items : told'[i] \in Nat /\ told'[i] >= told[i] /\ (i \notin batch => told'[i] = told[i])
      /\ ok => \A i \in batch : told'[i] > 0
      /\ losses' >= losses
  BY <1>1, <1>3 DEF BfInv, BriefingTypeOK
<1>7. Sole' /\ hand' \in [Lanes -> HandRec] /\ lock' \in Lanes \cup {None}
  BY <1>1, <1>2, <1>4, <1>5, SoleStays DEF Serial
<1>8. BriefingTypeOK'
  BY <1>2, <1>6, <1>7 DEF BfInv, BriefingTypeOK
<1>9. hand'[w] = x /\ \A u \in Lanes : u # w => hand'[u] = hand[u]
  BY <1>5 DEF BfInv, BriefingTypeOK
<1>10. \A i \in Items : (Accounted(i) => Accounted(i)') /\ (told[i] > 0 => told'[i] > 0)
  BY <1>2, <1>6, AccountedStays DEF BfInv, BriefingTypeOK
<1>11. Carries'
  <2>1. InHand(hand[w], work[hand[w].key])'
    <3>1. work[k].remaining \subseteq Items
      BY <1>1 DEF BfInv, BriefingTypeOK, PartRec
    <3> QED BY <1>1, <1>2, <1>4, <1>6, <1>9, <1>10, <3>1 DEF InHand
  <2>2. ASSUME NEW u \in Lanes, u # w
        PROVE  InHand(hand[u], work[hand[u].key])'
    BY <1>2, <1>9, <1>10, <2>2, OthersStay
  <2> QED BY <2>1, <2>2 DEF Carries
<1>12. Chained'
  BY <1>2 DEF BfInv, Chained
<1>13. Kept'
  BY <1>2, <1>10 DEF BfInv, Kept, BriefingTypeOK
<1>14. Raised'
  <2>1. \A i \in receipts : told'[i] > 0
    BY <1>6, <1>10 DEF BfInv, Raised, BriefingTypeOK
  <2>2. \A u \in Lanes : /\ hand'[u].batch = hand[u].batch
                         /\ hand'[u].pc \in {"send", "record"} => hand[u].pc \in {"send", "record"}
    BY <1>1, <1>4, <1>9
  <2> QED BY <1>2, <2>1, <2>2 DEF BfInv, Raised
<1>15. \A u \in Lanes : u # w => hand[u].pc \notin Serial
  BY <1>1, Alone DEF BfInv, Serial
<1>16. \A i : /\ Sending(i) <=> i \in batch
              /\ ~Sent(i) /\ ~Sending(i)'
              /\ Sent(i)' <=> ok /\ i \in batch
  BY <1>1, <1>4, <1>9, <1>15 DEF Sending, Sent, Serial
<1>17. Explained'
  <2> SUFFICES ASSUME NEW i \in Items
               PROVE  (told[i] + Due(i) <= Budget(i))'
    BY DEF Explained
  <2>1. told[i] + Due(i) <= Budget(i) /\ told[i] \in Nat /\ told'[i] \in Nat
    BY <1>6 DEF BfInv, Explained, BriefingTypeOK
  <2>2. Notifying(i)' <=> Notifying(i)
    BY <1>2 DEF Notifying
  <2>3. Free(i)' <=> Free(i)
    BY <1>2 DEF Free
  <2>4. Budget(i) \in Nat /\ Budget(i)' = Budget(i) + (losses' - losses)
    BY <1>2, <1>6 DEF Budget, BfInv, BriefingTypeOK
  <2>5. CASE i \notin batch
    <3>1. Due(i)' = Due(i) /\ Due(i) \in Nat
      BY <1>16, <2>2, <2>3, <2>5 DEF Due, Briefable
    <3> QED BY <1>6, <2>1, <2>4, <2>5, <3>1 DEF BfInv, BriefingTypeOK
  <2>6. CASE i \in batch
    <3>1. Due(i) \in Nat /\ Due(i)' \in {Due(i), Due(i) - 1} /\ (ok => Due(i)' = Due(i) - 1)
      BY <1>16, <2>2, <2>6 DEF Due, Briefable
    <3>2. /\ told'[i] = told[i] + 1 \/ told'[i] = told[i]
          /\ told'[i] = told[i] + 1 => ok \/ losses' = losses + 1
      BY <1>3, <2>6 DEF BfInv, BriefingTypeOK
    <3> QED BY <1>6, <2>1, <2>4, <3>1, <3>2 DEF BfInv, BriefingTypeOK
  <2> QED BY <2>5, <2>6
<1> QED BY <1>7, <1>8, <1>11, <1>12, <1>13, <1>14, <1>17 DEF BfInv

\* A refusal, or an answer that was lost, is a failure of the item.
LEMMA RefusalKeeps ==
  ASSUME BfInv, NEW w \in Lanes, hand[w].pc = "record", ~hand[w].ok, Leave(w, "fail"),
         UNCHANGED <<work, accounts, outside, told, chosen>>
  PROVE  BfInv'
<1> DEFINE k == hand[w].key
           x == [hand[w] EXCEPT !.pc = "fail"]
<1>1. work[k].status # "none"
  BY DEF BfInv, Carries, InHand
<1>2. /\ x \in HandRec /\ x.pc = "fail" /\ x.key = k
      /\ hand' = [hand EXCEPT ![w] = x] /\ lock' = (IF lock = w THEN None ELSE lock)
      /\ InHand(x, work[k])
  BY <1>1, Leaves
<1> HIDE DEF x
<1>3. UNCHANGED <<receipts, attn, notice, dismissed, quiet, nights, crashes, losses, retries>>
  BY DEF accounts, outside
<1>4. Sole' /\ hand' \in [Lanes -> HandRec] /\ lock' \in Lanes \cup {None}
  BY <1>2, SoleStays DEF Serial
<1>5. BriefingTypeOK'
  BY <1>3, <1>4 DEF BfInv, BriefingTypeOK
<1>6. hand'[w] = x /\ \A u \in Lanes : u # w => hand'[u] = hand[u]
  BY <1>2 DEF BfInv, BriefingTypeOK
<1>7. Carries'
  <2>1. InHand(hand[w], work[hand[w].key])'
    BY <1>2, <1>3, <1>6 DEF InHand, Accounted
  <2>2. ASSUME NEW u \in Lanes, u # w
        PROVE  InHand(hand[u], work[hand[u].key])'
    BY <1>2, <1>3, <1>6, <2>2, OthersStay DEF Accounted
  <2> QED BY <2>1, <2>2 DEF Carries
<1>8. Chained' /\ Kept'
  BY <1>3 DEF BfInv, Chained, Kept, Accounted
<1>9. Raised'
  BY <1>2, <1>3, <1>6 DEF BfInv, Raised
<1>10. \A u \in Lanes : u # w => hand[u].pc \notin Serial
  BY Alone DEF BfInv, Serial
<1>11. \A i : ~Sent(i) /\ ~Sending(i)'
  BY <1>2, <1>6, <1>10 DEF Sending, Sent, Serial
<1>12. Explained'
  BY <1>3, <1>11, EachIsExplained DEF Briefable, Free
<1> QED BY <1>4, <1>5, <1>7, <1>8, <1>9, <1>12 DEF BfInv

\* An accepted batch: its part is over, and the next one begins with what is after it.
LEMMA AcceptanceKeeps ==
  ASSUME BfInv, NEW w \in Lanes, hand[w].pc = "record", hand[w].ok, Record(w)
  PROVE  BfInv'
<1> DEFINE k == hand[w].key
           p == work[k]
           batch == hand[w].batch
           next == <<k[1], k[2] + 1>>
           after == hand[w].remaining \ batch
           done == [p EXCEPT !.state = "delivered", !.remaining = {}]
           begun(j) == [work[j] EXCEPT !.status = "pending", !.state = "prepared", !.remaining = after]
           x == [hand[w] EXCEPT !.pc = "complete"]
<1>1. /\ hand[w] \in HandRec /\ InHand(hand[w], p) /\ k \in PartKeys /\ p \in PartRec
      /\ p.status # "none" /\ p.state = "prepared"
      /\ k = <<k[1], k[2]>> /\ k[1] \in Roots /\ k[2] \in 0 .. Parts
  <2>1. hand[w] \in HandRec /\ InHand(hand[w], p) /\ k \in PartKeys
    BY DEF BfInv, BriefingTypeOK, Carries, InHand
  <2> QED BY <2>1, KeyParts DEF BfInv, BriefingTypeOK, InHand
<1>2. /\ receipts' = receipts \cup batch
      /\ attn' = [i \in Noticed |-> IF i \in batch /\ attn[i] = "pending" THEN "delivered" ELSE attn[i]]
      /\ work' = [j \in PartKeys |->
           IF j = k THEN done
           ELSE IF j = next /\ after # {} /\ work[j].status = "none" THEN begun(j)
           ELSE work[j]]
      /\ Leave(w, "complete")
      /\ UNCHANGED <<notice, dismissed, quiet, nights, crashes, losses, retries, told, chosen>>
  BY <1>1 DEF Record, outside
<1>3. /\ batch \in SUBSET Items /\ after \in SUBSET Items /\ batch \subseteq hand[w].remaining
      /\ hand[w].remaining \subseteq p.remaining /\ p.remaining \subseteq Items
      /\ after # {} => batch # {}
      /\ \A i \in p.remaining \ hand[w].remaining : Accounted(i)
      /\ \A i \in batch : told[i] > 0
  BY <1>1 DEF InHand, HandRec, PartRec
<1>4. done \in PartRec /\ done.status = p.status /\ done.attempts = p.attempts
      /\ done.state = "delivered" /\ done.remaining = {}
  BY <1>1 DEF PartRec
<1>5. ASSUME NEW j \in PartKeys
      PROVE  /\ begun(j) \in PartRec /\ begun(j).status = "pending" /\ begun(j).state = "prepared"
             /\ begun(j).remaining = after /\ begun(j).attempts = work[j].attempts
  <2>1. work[j] \in PartRec
    BY DEF BfInv, BriefingTypeOK
  <2> HIDE DEF after
  <2>2. after \in SUBSET Items
    BY <1>3
  <2> QED BY <2>1, <2>2 DEF PartRec
<1> HIDE DEF done, begun
<1>6. /\ work' \in [PartKeys -> PartRec] /\ work'[k] = done
      /\ \A j \in PartKeys : j # k =>
           \/ work'[j] = work[j]
           \/ j = next /\ after # {} /\ work[j].status = "none" /\ work'[j] = begun(j)
  BY <1>1, <1>2, <1>4, <1>5 DEF BfInv, BriefingTypeOK
<1>7. /\ x \in HandRec /\ x.pc = "complete" /\ x.key = k
      /\ hand' = [hand EXCEPT ![w] = x] /\ lock' = (IF lock = w THEN None ELSE lock)
      /\ InHand(x, done)
  BY <1>1, <1>2, <1>4, Leaves
<1> HIDE DEF x
<1>8. Sole' /\ hand' \in [Lanes -> HandRec] /\ lock' \in Lanes \cup {None}
  BY <1>7, SoleStays DEF Serial
<1>9. BriefingTypeOK'
  BY <1>2, <1>3, <1>6, <1>8 DEF BfInv, BriefingTypeOK
<1>10. hand'[w] = x /\ \A u \in Lanes : u # w => hand'[u] = hand[u]
  BY <1>7 DEF BfInv, BriefingTypeOK
<1>11. \A i : Accounted(i)' <=> Accounted(i)
  BY <1>2 DEF Accounted
<1>12. Carries'
  <2>1. InHand(hand[w], work[hand[w].key])'
    BY <1>2, <1>6, <1>7, <1>10, <1>11 DEF InHand
  <2>2. \A j \in PartKeys :
          /\ work[j].status # "none" => work'[j].status # "none"
          /\ work[j].state \in {"delivered", "silent"} => work'[j].state = work[j].state
    <3>1. \A j \in PartKeys : work[j].status = "none" => work[j].state = "new"
      BY DEF BfInv, Chained
    <3> QED BY <1>1, <1>4, <1>5, <1>6, <3>1
  <2>3. ASSUME NEW u \in Lanes, u # w
        PROVE  InHand(hand[u], work[hand[u].key])'
    BY <1>2, <1>10, <1>11, <2>2, <2>3, OthersStay DEF Serial
  <2> QED BY <2>1, <2>3 DEF Carries
<1>13. ASSUME after # {}
       PROVE  /\ next \in PartKeys /\ next # k /\ work[next].status = "none"
              /\ Cardinality(after) + (k[2] + 1) <= Cardinality(Items)
  <2>1. IsFiniteSet(p.remaining) /\ Cardinality(Items) \in Nat
    BY <1>3, BriefingAssumption, FS_Subset, FS_CardinalityType
  <2>2. after \subseteq p.remaining /\ after # p.remaining /\ IsFiniteSet(after)
    BY <1>3, <1>13, <2>1, FS_Subset
  <2>3. Cardinality(after) < Cardinality(p.remaining) /\ Cardinality(after) \in Nat
        /\ Cardinality(p.remaining) \in Nat /\ Cardinality(after) # 0
    BY <1>13, <2>1, <2>2, FS_Subset, FS_CardinalityType, FS_EmptySet
  <2>4. Cardinality(p.remaining) + k[2] <= Cardinality(Items)
    BY <1>1, <1>13, <2>2 DEF BfInv, Chained
  <2>5. k[2] + 1 \in 0 .. Parts /\ Cardinality(after) + (k[2] + 1) <= Cardinality(Items)
    BY <1>1, <2>1, <2>3, <2>4, BriefingAssumption
  <2>6. next \in PartKeys /\ next # k
    BY <1>1, <2>5 DEF PartKeys
  <2>7. work[next].status = "none"
    BY <1>1, <2>6 DEF BfInv, Chained
  <2> QED BY <2>5, <2>6, <2>7
<1>14. Chained'
  <2> SUFFICES ASSUME NEW j \in PartKeys
               PROVE  /\ work'[j].status = "none" => work'[j].state = "new" /\ work'[j].remaining = {}
                      /\ work'[j].status \in {"none", "pending"} => work'[j].attempts < MaxAttempts
                      /\ work'[j].status = "completed" => work'[j].state \in {"delivered", "silent"}
                      /\ work'[j].state \in {"delivered", "silent"} => work'[j].remaining = {}
                      /\ j[2] > 0 /\ work'[j].status # "none" => work'[j].state # "new"
                      /\ work'[j].remaining # {} => Cardinality(work'[j].remaining) + j[2] <= Cardinality(Items)
                      /\ \A n \in PartKeys : n = <<j[1], j[2] + 1>> /\ work'[n].status # "none"
                                               => work'[j].state = "delivered"
    BY DEF Chained
  <2>1. CASE j = k
    BY <1>1, <1>4, <1>6, <2>1 DEF BfInv, Chained
  <2>2. CASE j # k /\ work'[j] # work[j]
    <3>1. j = next /\ after # {} /\ work[j].status = "none" /\ work'[j] = begun(j)
      BY <1>6, <2>2
    <3>2. j[2] = k[2] + 1 /\ j[1] = k[1]
      BY <3>1
    <3>3. \A n \in PartKeys : n = <<j[1], j[2] + 1>> => n # k /\ n # next
      BY <1>1, <3>2
    <3>4. \A n \in PartKeys : n = <<j[1], j[2] + 1>> => work'[n].status = "none"
      BY <1>6, <3>1, <3>3 DEF BfInv, Chained
    <3>5. work[j].attempts < MaxAttempts
      BY <3>1 DEF BfInv, Chained
    <3> QED BY <1>5, <1>13, <3>1, <3>2, <3>4, <3>5
  <2>3. CASE j # k /\ work'[j] = work[j]
    <3>1. ASSUME NEW n \in PartKeys, n = <<j[1], j[2] + 1>>, work'[n].status # "none"
          PROVE  work[j].state = "delivered"
      <4>1. CASE n = next
        <5>1. j[1] = k[1] /\ j[2] = k[2]
          BY <1>1, <3>1, <4>1, KeyParts
        <5>2. j = k
          BY <1>1, <5>1, KeyParts
        <5> QED BY <2>3, <5>2
      <4>2. CASE n # next
        <5>1. work[n].status # "none"
          BY <1>1, <1>4, <1>6, <3>1, <4>2
        <5> QED BY <3>1, <5>1 DEF BfInv, Chained
      <4> QED BY <4>1, <4>2
    <3> QED BY <2>3, <3>1 DEF BfInv, Chained
  <2> QED BY <2>1, <2>2, <2>3
<1>15. Kept'
  <2> SUFFICES ASSUME NEW r \in Roots, NEW i \in chosen[r], ~Accounted(i)
               PROVE  \E n \in 0 .. Parts : i \in work'[<<r, n>>].remaining
    BY <1>2, <1>11 DEF Kept
  <2>1. PICK n \in 0 .. Parts : i \in work[<<r, n>>].remaining
    BY DEF BfInv, Kept
  <2>2. <<r, n>> \in PartKeys
    BY DEF PartKeys
  <2>3. CASE <<r, n>> = k
    <3>1. i \in after
      BY <1>3, <2>1, <2>3 DEF Accounted
    <3>2. next \in PartKeys /\ work'[next] = begun(next) /\ begun(next).remaining = after
      BY <1>2, <1>5, <1>13, <3>1
    <3>3. r = k[1] /\ k[2] + 1 \in 0 .. Parts
      BY <2>3, <3>2 DEF PartKeys
    <3> QED BY <3>1, <3>2, <3>3
  <2>4. CASE <<r, n>> # k
    <3>1. work[<<r, n>>].status # "none"
      BY <2>1, <2>2 DEF BfInv, Chained
    <3>2. work'[<<r, n>>] = work[<<r, n>>]
      BY <1>6, <2>2, <2>4, <3>1
    <3> QED BY <2>1, <3>2
  <2> QED BY <2>3, <2>4
<1>16. Raised'
  <2>1. \A i \in Noticed : attn'[i] = "none" => attn[i] = "none" /\ i \notin batch
    BY <1>2 DEF BfInv, Raised
  <2> QED BY <1>2, <1>3, <1>7, <1>10, <2>1 DEF BfInv, Raised
<1>17. \A u \in Lanes : u # w => hand[u].pc \notin Serial
  BY Alone DEF BfInv, Serial
<1>18. \A i : (Sent(i) <=> i \in batch) /\ ~Sending(i)'
  BY <1>7, <1>10, <1>17 DEF Sending, Sent, Serial
<1>19. \A i : Free(i)' => Free(i) /\ i \notin batch
  BY <1>2 DEF Free
<1>20. Explained'
  BY <1>2, <1>18, <1>19, EachIsExplained DEF Briefable
<1> QED BY <1>8, <1>9, <1>12, <1>14, <1>15, <1>16, <1>20 DEF BfInv

LEMMA RecordKeeps == ASSUME BfInv, NEW w \in Lanes, Record(w) PROVE BfInv'
<1>1. CASE ~hand[w].ok
  BY <1>1, RefusalKeeps DEF Record, accounts
<1>2. CASE hand[w].ok
  BY <1>2, AcceptanceKeeps DEF Record
<1> QED BY <1>1, <1>2

\* A crash is itself the reason for what is told again.
LEMMA CrashKeeps == ASSUME BfInv, Crash PROVE BfInv'
<1>1. /\ UNCHANGED <<work, receipts, attn, notice, dismissed, quiet, nights, losses, retries, told, chosen>>
      /\ crashes' = crashes + 1 /\ hand' = [w \in Lanes |-> AtRest] /\ lock' = None
  BY DEF Crash, accounts
<1>2. \A w \in Lanes : hand'[w].pc = "idle"
  BY <1>1 DEF AtRest
<1>3. BriefingTypeOK'
  BY <1>1, AtRestIsHand DEF BfInv, BriefingTypeOK
<1>4. Sole' /\ Carries' /\ Chained' /\ Kept'
  BY <1>1, <1>2 DEF BfInv, Sole, Serial, Carries, InHand, Chained, Kept, Accounted
<1>5. Raised'
  BY <1>1, <1>2 DEF BfInv, Raised
<1>6. Explained'
  <2> SUFFICES ASSUME NEW i \in Items
               PROVE  (told[i] + Due(i) <= Budget(i))'
    BY DEF Explained
  <2>1. told[i] + Due(i) <= Budget(i) /\ told[i] \in Nat
    BY DEF BfInv, Explained, BriefingTypeOK
  <2>2. Notifying(i)' <=> Notifying(i)
    BY <1>1 DEF Notifying
  <2>3. Due(i)' \in Nat /\ Due(i) \in Nat /\ Due(i)' <= Due(i) + 1
    BY <2>2 DEF Due
  <2>4. Budget(i) \in Nat /\ Budget(i)' = Budget(i) + 1
    BY <1>1 DEF Budget, BfInv, BriefingTypeOK
  <2> QED BY <1>1, <2>1, <2>3, <2>4
<1> QED BY <1>3, <1>4, <1>5, <1>6 DEF BfInv

-----------------------------------------------------------------------------
LEMMA BriefingStep == BfInv /\ [BfNext]_bfVars => BfInv'
<1> SUFFICES ASSUME BfInv, [BfNext]_bfVars PROVE BfInv'
  OBVIOUS
<1>1. CASE UNCHANGED bfVars
  BY <1>1, SurroundingsKeep
<1>2. ASSUME NEW r \in Roots, EnqueueDue(r)
      PROVE  BfInv'
  BY <1>2, EnqueueKeeps
<1>3. ASSUME NEW w \in Lanes, Claim(w) \/ Handle(w)
      PROVE  BfInv'
  BY <1>3, ClaimKeeps, TakeLockKeeps, LoadKeeps, PrepareKeeps, RecheckKeeps, SendKeeps,
     RecordKeeps, DeferKeeps, CompleteKeeps, FailKeeps DEF Handle
<1>4. ASSUME NEW k \in PartKeys, LockGoesStale(k)
      PROVE  BfInv'
  BY <1>4, StaleKeeps
<1>5. ASSUME NEW i \in Noticed, Raise(i) \/ Notify(i) \/ RetryNotice(i)
      PROVE  BfInv'
  BY <1>5, NoticesKeep
<1>6. CASE Crash
  BY <1>6, CrashKeeps
<1>7. CASE QuietHours \/ \E i \in Items : Dismiss(i)
  BY <1>7, SurroundingsKeep
<1> QED BY <1>1, <1>2, <1>3, <1>4, <1>5, <1>6, <1>7 DEF BfNext

\* The invariant of a briefing holds of its specification.
THEOREM BriefingInvariant == BfSpec => []BfInv
<1> QED BY BriefingInit, BriefingStep, PTL DEF BfSpec

\* An item is told again only for a crash, a lost answer or an operator's retry, and
\* what was chosen is told, kept in an open part or given up for a reason.
THEOREM BriefingsStayFaithful == BfSpec => []BriefingsAreFaithful
<1>1. BfInv => RepeatsAreExplained
  <2> SUFFICES ASSUME BfInv, NEW i \in Items
               PROVE  told[i] <= 1 + crashes + losses + (IF i \in Noticed THEN retries ELSE 0)
    BY DEF RepeatsAreExplained
  <2>1. told[i] + Due(i) <= Budget(i) /\ told[i] \in Nat /\ Due(i) \in Nat
    BY DEF BfInv, Explained, BriefingTypeOK, Due
  <2>2. Budget(i) \in Nat
    BY DEF Budget, BfInv, BriefingTypeOK
  <2> QED BY <2>1, <2>2 DEF Budget
<1>2. BfInv => ChosenAreKept
  <2> SUFFICES ASSUME BfInv, NEW r \in Roots, NEW i \in chosen[r], ~Accounted(i)
               PROVE  \E n \in 0 .. Parts : i \in work[<<r, n>>].remaining
                                            /\ work[<<r, n>>].status \in {"pending", "dead"}
    BY DEF ChosenAreKept, Accounted
  <2>1. PICK n \in 0 .. Parts : i \in work[<<r, n>>].remaining
    BY DEF BfInv, Kept
  <2>2. <<r, n>> \in PartKeys
    BY DEF PartKeys
  <2>3. work[<<r, n>>].status \in {"none", "pending", "completed", "dead"}
    BY <2>2 DEF BfInv, BriefingTypeOK, PartRec
  <2>4. work[<<r, n>>].status \notin {"none", "completed"}
    BY <2>1, <2>2 DEF BfInv, Chained
  <2> QED BY <2>1, <2>3, <2>4
<1>3. BfInv => BriefingsAreFaithful
  BY <1>1, <1>2 DEF BriefingsAreFaithful
<1> QED BY BriefingInvariant, <1>3, PTL

\* The types of a briefing hold.
THEOREM BriefingTypes == BfSpec => []BriefingTypeOK
<1>1. BfInv => BriefingTypeOK
  BY DEF BfInv
<1> QED BY BriefingInvariant, <1>1, PTL

-----------------------------------------------------------------------------
(* McpClient: the inductive invariant                                         *)

\* Of the tool client's links: what they are, and where a start task is written down.
Wired ==
  /\ session \in [Providers -> 0 .. Opens]
  /\ up \in [Providers -> BOOLEAN] /\ stack \in [Providers -> BOOLEAN]
  /\ starts \in [Providers -> [StartTasks -> Phases]] /\ born \in [Providers -> 0 .. Opens]
  /\ warmed \in [Providers -> SUBSET StartTasks] /\ stray \in [Providers -> SUBSET StartTasks]
  /\ pending \in [Providers -> 0 .. Opens] /\ broken \in [Providers -> Nat]

\* A start task that is under way is the pending one, or a late waiter dropped it.
Placed == \A s \in Providers : UnderWay(s) \subseteq {pending[s]} \cup stray[s]

Marked ==
  /\ status \in [Providers -> {"not_started", "starting", "warming", "reconnecting",
                               "healthy", "degraded", "failed"}]
  /\ failures \in [Providers -> 0 .. Tolerance]
  /\ routes \subseteq Providers /\ (cache = NoCache \/ cache \subseteq Providers)

Requesting == caller \in [Callers -> Requests]

McInv == Wired /\ Placed /\ Marked /\ Requesting

LEMMA McTypes == McInv => McpTypeOK /\ OneStartAtATime
<1> SUFFICES ASSUME McInv PROVE McpTypeOK /\ OneStartAtATime
  OBVIOUS
<1>1. McpTypeOK
  BY DEF McInv, Wired, Marked, Requesting, McpTypeOK
<1>2. OneStartAtATime
  BY DEF McInv, Placed, OneStartAtATime
<1> QED BY <1>1, <1>2

LEMMA McInitInv == McInit => McInv
<1> SUFFICES ASSUME McInit PROVE McInv
  OBVIOUS
<1>1. Wired
  BY McpAssumption DEF McInit, Wired, Phases, StartTasks
<1>2. Placed
  BY DEF McInit, Placed, UnderWay
<1>3. Marked
  BY McpAssumption DEF McInit, Marked
<1>4. Requesting
  BY McpAssumption DEF McInit, Requesting, Requests, NoRequest
<1> QED BY <1>1, <1>2, <1>3, <1>4 DEF McInv

-----------------------------------------------------------------------------
(* What the helpers keep.                                                     *)

Unfinished == {"new", "transport", "handshake"}

\* A task changes its phase; it is under way afterwards only if it was before or is new.
LEMMA TaskBecomes ==
  ASSUME Wired, NEW s \in Providers, NEW i \in StartTasks, NEW phase \in Phases,
         starts' = [starts EXCEPT ![s][i] = phase]
  PROVE  /\ starts' \in [Providers -> [StartTasks -> Phases]]
         /\ \A x \in Providers : x # s => UnderWay(x)' = UnderWay(x)
         /\ UnderWay(s)' \subseteq UnderWay(s) \cup {i}
         /\ phase \notin Unfinished => i \notin UnderWay(s)'
<1>1. starts[s] \in [StartTasks -> Phases]
  BY DEF Wired
<1> DEFINE p == [starts[s] EXCEPT ![i] = phase]
<1>2. p \in [StartTasks -> Phases] /\ p[i] = phase /\ \A j \in StartTasks : j # i => p[j] = starts[s][j]
  BY <1>1
<1>3. starts' = [starts EXCEPT ![s] = p]
  OBVIOUS
<1> HIDE DEF p
<1>4. starts' \in [Providers -> [StartTasks -> Phases]] /\ starts'[s] = p
      /\ \A x \in Providers : x # s => starts'[x] = starts[x]
  BY <1>2, <1>3 DEF Wired
<1>5. /\ \A x \in Providers : x # s => UnderWay(x)' = UnderWay(x)
      /\ UnderWay(s)' \subseteq UnderWay(s) \cup {i}
      /\ phase \notin Unfinished => i \notin UnderWay(s)'
  BY <1>2, <1>4 DEF UnderWay, Unfinished
<1> QED BY <1>4, <1>5

LEMMA TaskBegins ==
  ASSUME Wired, Placed, NEW s \in Providers, pending[s] \notin UnderWay(s), NewTask(s),
         UNCHANGED <<connection, stray, broken>>, warmed' \in [Providers -> SUBSET StartTasks]
  PROVE  Wired' /\ Placed'
<1> DEFINE i == born[s] + 1
<1>1. i \in StartTasks /\ i \in 0 .. Opens /\ "new" \in Phases
  BY McpAssumption DEF Wired, NewTask, StartTasks, Phases
<1>2. /\ starts' = [starts EXCEPT ![s][i] = "new"] /\ born' = [born EXCEPT ![s] = i]
      /\ pending' = [pending EXCEPT ![s] = i]
  BY DEF NewTask
<1> HIDE DEF i
<1>3. /\ starts' \in [Providers -> [StartTasks -> Phases]] /\ UnderWay(s)' \subseteq UnderWay(s) \cup {i}
      /\ \A x \in Providers : x # s => UnderWay(x)' = UnderWay(x)
  BY <1>1, <1>2, TaskBecomes
<1>4. Wired'
  BY <1>1, <1>2, <1>3 DEF Wired, connection
<1>5. ASSUME NEW x \in Providers PROVE UnderWay(x)' \subseteq {pending'[x]} \cup stray'[x]
  BY <1>2, <1>3 DEF Wired, Placed
<1> QED BY <1>4, <1>5 DEF Placed

LEMMA ConnectionStops ==
  ASSUME Wired, NEW s \in Providers, StopConnection(s)
  PROVE  /\ session' \in [Providers -> 0 .. Opens]
         /\ up' \in [Providers -> BOOLEAN] /\ stack' \in [Providers -> BOOLEAN]
<1>1. 0 \in 0 .. Opens
  BY McpAssumption
<1>2. CASE UNCHANGED connection
  BY <1>2 DEF Wired, connection
<1>3. CASE /\ session' = [session EXCEPT ![s] = 0] /\ up' = [up EXCEPT ![s] = FALSE]
           /\ stack' = [stack EXCEPT ![s] = FALSE]
  BY <1>1, <1>3 DEF Wired
<1> QED BY <1>2, <1>3 DEF StopConnection

\* Only the connection and the cleanups move: the tasks stay where they are.
LEMMA LinksStay ==
  ASSUME Wired, Placed, UNCHANGED <<tasks, pending, stray>>, broken' \in [Providers -> Nat],
         UNCHANGED connection \/ \E s \in Providers : StopConnection(s)
  PROVE  Wired' /\ Placed'
<1>1. /\ session' \in [Providers -> 0 .. Opens]
      /\ up' \in [Providers -> BOOLEAN] /\ stack' \in [Providers -> BOOLEAN]
  BY ConnectionStops DEF Wired, connection
<1>2. starts' = starts /\ born' = born /\ warmed' = warmed /\ pending' = pending /\ stray' = stray
  BY DEF tasks
<1> QED BY <1>1, <1>2 DEF Wired, Placed, UnderWay

LEMMA PendingDrops ==
  ASSUME Wired, Placed, NEW s \in Providers, DropPending(s), UNCHANGED <<tasks, broken>>,
         UNCHANGED connection \/ StopConnection(s)
  PROVE  Wired' /\ Placed'
<1>1. /\ session' \in [Providers -> 0 .. Opens]
      /\ up' \in [Providers -> BOOLEAN] /\ stack' \in [Providers -> BOOLEAN]
  BY ConnectionStops DEF Wired, connection
<1>2. starts' = starts /\ born' = born /\ warmed' = warmed /\ broken' = broken
  BY DEF tasks
<1>3. /\ pending' = [pending EXCEPT ![s] = 0]
      /\ stray' = [stray EXCEPT ![s] = @ \cup ({pending[s]} \cap UnderWay(s))]
  BY DEF DropPending
<1>4. UnderWay(s) \subseteq StartTasks /\ 0 \in 0 .. Opens
  BY McpAssumption DEF UnderWay
<1>5. Wired'
  BY <1>1, <1>2, <1>3, <1>4 DEF Wired
<1>6. ASSUME NEW x \in Providers PROVE UnderWay(x)' \subseteq {pending'[x]} \cup stray'[x]
  <2>1. UnderWay(x)' = UnderWay(x) /\ UnderWay(x) \subseteq {pending[x]} \cup stray[x]
    BY <1>2 DEF UnderWay, Placed
  <2>2. CASE x = s
    BY <1>3, <2>1, <2>2 DEF Wired
  <2>3. CASE x # s
    BY <1>3, <2>1, <2>3 DEF Wired
  <2> QED BY <2>2, <2>3
<1> QED BY <1>5, <1>6 DEF Placed

\* A task that is under way goes on.
LEMMA TaskGoesOn ==
  ASSUME Wired, Placed, NEW s \in Providers, NEW i \in StartTasks, BeginTask(s, i) \/ OpenSession(s, i)
  PROVE  Wired' /\ Placed'
<1>1. i \in UnderWay(s) /\ i \in 0 .. Opens
  BY McpAssumption DEF BeginTask, OpenSession, UnderWay, StartTasks
<1>2. PICK phase \in Phases : starts' = [starts EXCEPT ![s][i] = phase]
  BY DEF BeginTask, OpenSession, Become, Phases
<1>3. /\ starts' \in [Providers -> [StartTasks -> Phases]] /\ UnderWay(s)' \subseteq UnderWay(s)
      /\ \A x \in Providers : x # s => UnderWay(x)' = UnderWay(x)
  BY <1>1, <1>2, TaskBecomes
<1>4. UNCHANGED <<warmed, pending, stray, broken, born>>
  BY DEF BeginTask, OpenSession
<1>5. session' \in [Providers -> 0 .. Opens] /\ up' \in [Providers -> BOOLEAN] /\ stack' = stack
  BY <1>1 DEF BeginTask, OpenSession, Wired, connection
<1> QED BY <1>3, <1>4, <1>5 DEF Wired, Placed

\* A task ends: it leaves its place, and it is not under way any more.
LEMMA TaskEnds ==
  ASSUME Wired, Placed, NEW s \in Providers, NEW i \in StartTasks, NEW phase \in Phases \ Unfinished,
         Become(s, i, phase), Unlist(s, i) \/ UNCHANGED pending,
         \/ UNCHANGED <<warmed, stray>>
         \/ \E as : StartOver(s, i, as)
  PROVE  /\ starts' \in [Providers -> [StartTasks -> Phases]] /\ pending' \in [Providers -> 0 .. Opens]
         /\ warmed' \in [Providers -> SUBSET StartTasks] /\ stray' \in [Providers -> SUBSET StartTasks]
         /\ Placed'
<1>1. /\ starts' \in [Providers -> [StartTasks -> Phases]] /\ UnderWay(s)' \subseteq UnderWay(s) \ {i}
      /\ \A x \in Providers : x # s => UnderWay(x)' = UnderWay(x)
  BY TaskBecomes DEF Become
<1>2. /\ pending' \in [Providers -> 0 .. Opens]
      /\ pending'[s] \in {pending[s]} \/ pending[s] = i
      /\ \A x \in Providers : x # s => pending'[x] = pending[x]
  BY McpAssumption DEF Unlist, Wired
<1>3. /\ warmed' \in [Providers -> SUBSET StartTasks] /\ stray' \in [Providers -> SUBSET StartTasks]
      /\ stray[s] \ {i} \subseteq stray'[s]
      /\ \A x \in Providers : x # s => stray'[x] = stray[x]
  <2>1. \/ warmed' = warmed /\ stray' = stray
        \/ /\ warmed' = [warmed EXCEPT ![s] = @ \ {i}]
           /\ stray' = [stray EXCEPT ![s] = @ \ {i}]
    BY DEF StartOver
  <2>2. CASE warmed' = warmed /\ stray' = stray
    BY <2>2 DEF Wired
  <2>3. CASE warmed' = [warmed EXCEPT ![s] = @ \ {i}] /\ stray' = [stray EXCEPT ![s] = @ \ {i}]
    BY <2>3 DEF Wired
  <2> QED BY <2>1, <2>2, <2>3
<1>4. ASSUME NEW x \in Providers PROVE UnderWay(x)' \subseteq {pending'[x]} \cup stray'[x]
  <2>1. UnderWay(x) \subseteq {pending[x]} \cup stray[x]
    BY DEF Placed
  <2>2. CASE x = s
    BY <1>1, <1>2, <1>3, <2>1, <2>2
  <2>3. CASE x # s
    BY <1>1, <1>2, <1>3, <2>1, <2>3
  <2> QED BY <2>2, <2>3
<1> QED BY <1>1, <1>2, <1>3, <1>4 DEF Placed

LEMMA TaskSucceeds ==
  ASSUME Wired, Placed, NEW s \in Providers, NEW i \in StartTasks, StartSucceeds(s, i)
  PROVE  Wired' /\ Placed'
<1>1. PICK phase \in Phases \ Unfinished : Become(s, i, phase)
  BY DEF StartSucceeds, Phases, Unfinished
<1>2. (Unlist(s, i) \/ UNCHANGED pending) /\ StartOver(s, i, "started")
  BY DEF StartSucceeds
<1>3. /\ starts' \in [Providers -> [StartTasks -> Phases]] /\ pending' \in [Providers -> 0 .. Opens]
      /\ warmed' \in [Providers -> SUBSET StartTasks] /\ stray' \in [Providers -> SUBSET StartTasks]
      /\ Placed'
  BY <1>1, <1>2, TaskEnds
<1>4. /\ UNCHANGED <<session, broken, born>>
      /\ up' \in [Providers -> BOOLEAN] /\ stack' \in [Providers -> BOOLEAN]
  <2>1. (up[s] \/ (session[s] = i)) \in BOOLEAN
    OBVIOUS
  <2> QED BY <2>1 DEF StartSucceeds, Wired
<1> QED BY <1>3, <1>4 DEF Wired

LEMMA TaskRaises ==
  ASSUME Wired, Placed, NEW s \in Providers, NEW i \in StartTasks, StartFails(s, i)
  PROVE  Wired' /\ Placed'
<1>1. PICK phase \in Phases \ Unfinished : Become(s, i, phase)
  BY DEF StartFails, Phases, Unfinished
<1>2. (Unlist(s, i) \/ UNCHANGED pending) /\ StartOver(s, i, "refused")
  BY DEF StartFails
<1>3. /\ starts' \in [Providers -> [StartTasks -> Phases]] /\ pending' \in [Providers -> 0 .. Opens]
      /\ warmed' \in [Providers -> SUBSET StartTasks] /\ stray' \in [Providers -> SUBSET StartTasks]
      /\ Placed'
  BY <1>1, <1>2, TaskEnds
<1>4. /\ UNCHANGED <<broken, born>>
      /\ session' \in [Providers -> 0 .. Opens]
      /\ up' \in [Providers -> BOOLEAN] /\ stack' \in [Providers -> BOOLEAN]
  BY ConnectionStops DEF StartFails, Wired, connection
<1> QED BY <1>3, <1>4 DEF Wired

LEMMA TaskCalls ==
  ASSUME Wired, Placed, NEW s \in Providers, NEW i \in StartTasks, TaskDone(s, i)
  PROVE  Wired' /\ Placed'
<1>1. "over" \in Phases \ Unfinished /\ Become(s, i, "over") /\ Unlist(s, i)
      /\ UNCHANGED <<warmed, stray>>
  BY DEF TaskDone, Phases, Unfinished
<1>2. /\ starts' \in [Providers -> [StartTasks -> Phases]] /\ pending' \in [Providers -> 0 .. Opens]
      /\ warmed' \in [Providers -> SUBSET StartTasks] /\ stray' \in [Providers -> SUBSET StartTasks]
      /\ Placed'
  BY <1>1, TaskEnds
<1>3. UNCHANGED <<connection, born>> /\ broken' \in [Providers -> Nat]
  BY DEF TaskDone, Wired
<1> QED BY <1>2, <1>3 DEF Wired, connection

LEMMA Marks ==
  ASSUME Marked, NEW s \in Providers,
         \/ (MarkHealthy(s) \/ (\E as \in {"starting", "warming", "reconnecting"} : MarkTransient(s, as)))
            /\ routes' = routes /\ cache' \in {cache, NoCache}
         \/ CountFailure(s)
  PROVE  Marked'
<1> Tolerance \in Nat \ {0} /\ failures[s] \in 0 .. Tolerance
  BY McpAssumption DEF Marked
<1>1. CASE CountFailure(s)
  BY <1>1 DEF Marked, CountFailure
<1>2. CASE ~CountFailure(s)
  BY <1>2 DEF Marked, MarkHealthy, MarkTransient
<1> QED BY <1>1, <1>2

LEMMA Idles == NoRequest \in Requests
  BY McpAssumption DEF NoRequest, Requests

LEMMA Visits ==
  ASSUME NEW r \in Requests, NEW x \in SUBSET Providers, NEW y \in SUBSET Providers
  PROVE  [r EXCEPT !.todo = x, !.at = "ensure", !.task = 0, !.found = y, !.tries = 0] \in Requests
<1> 0 \in 0 .. Attempts /\ 0 \in 0 .. Opens
  BY McpAssumption
<1> QED BY DEF Requests

LEMMA Repeats ==
  ASSUME NEW r \in Requests, NEW n \in 0 .. Attempts
  PROVE  [r EXCEPT !.tries = n, !.at = "ensure"] \in Requests
  BY DEF Requests

LEMMA Aims ==
  ASSUME NEW r \in Requests, NEW g \in {"list", "wake", "run", "retry"},
         NEW x \in SUBSET Providers, NEW y \in SUBSET Providers
  PROVE  /\ [r EXCEPT !.goal = g, !.todo = x] \in Requests
         /\ [r EXCEPT !.target = y, !.goal = g, !.todo = x] \in Requests
         /\ [r EXCEPT !.goal = g, !.target = y, !.todo = x] \in Requests
         /\ [r EXCEPT !.goal = "store", !.found = y] \in Requests
<1>1. [r EXCEPT !.goal = g, !.todo = x] \in Requests
  BY DEF Requests
<1>2. [r EXCEPT !.target = y, !.goal = g, !.todo = x] \in Requests
  BY DEF Requests
<1>3. [r EXCEPT !.goal = g, !.target = y, !.todo = x] \in Requests
  BY DEF Requests
<1>4. [r EXCEPT !.goal = "store", !.found = y] \in Requests
  BY DEF Requests
<1> QED BY <1>1, <1>2, <1>3, <1>4

LEMMA Moves ==
  ASSUME Requesting, NEW c \in Callers, NEW s \in Providers,
         \/ GiveUp(c) \/ Refuse(c, s) \/ Settled(c, s)
         \/ \E found \in SUBSET {s} : Advance(c, s, found)
         \/ \E at \in {"ask", "ensure", "closing"} : caller' = [caller EXCEPT ![c].at = at]
  PROVE  Requesting'
<1>1. caller[c] \in Requests /\ NoRequest \in Requests
  BY Idles DEF Requesting
<1>2. CASE GiveUp(c)
  BY <1>1, <1>2 DEF GiveUp, Requesting
<1>3. CASE \E found \in SUBSET {s} : Advance(c, s, found)
  <2>1. PICK found \in SUBSET {s} : Advance(c, s, found)
    BY <1>3
  <2>2. [caller[c] EXCEPT !.todo = @ \ {s}, !.at = "ensure", !.task = 0,
                          !.found = @ \cup found, !.tries = 0] \in Requests
    <3>1. caller[c].todo \ {s} \in SUBSET Providers /\ caller[c].found \cup found \in SUBSET Providers
      BY <1>1 DEF Requests
    <3> QED BY <1>1, <3>1, Visits
  <2>3. caller' = [caller EXCEPT ![c] = [caller[c] EXCEPT !.todo = @ \ {s}, !.at = "ensure", !.task = 0,
                                                         !.found = @ \cup found, !.tries = 0]]
    BY <2>1 DEF Advance
  <2> QED BY <2>2, <2>3 DEF Requesting
<1>4. CASE \E at \in {"ask", "ensure", "closing"} : caller' = [caller EXCEPT ![c].at = at]
  <2>1. PICK at \in {"ask", "ensure", "closing"} : caller' = [caller EXCEPT ![c].at = at]
    BY <1>4
  <2>2. [caller[c] EXCEPT !.at = at] \in Requests
    BY <1>1 DEF Requests
  <2> QED BY <2>1, <2>2 DEF Requesting
<1> QED BY <1>2, <1>3, <1>4 DEF Refuse, Settled

-----------------------------------------------------------------------------
LEMMA TasksKeep ==
  ASSUME McInv, NEW s \in Providers, NEW i \in StartTasks,
         \/ BeginTask(s, i) \/ OpenSession(s, i) \/ StartSucceeds(s, i)
         \/ StartFails(s, i) \/ TaskDone(s, i)
  PROVE  McInv'
<1> USE DEF McInv
<1>0. ASSUME NEW as \in {"started", "refused"}, StartOver(s, i, as) PROVE Requesting'
  <2>1. 0 \in 0 .. Opens
    BY McpAssumption
  <2>2. \A c \in Callers : [caller[c] EXCEPT !.at = as, !.task = 0] \in Requests
    BY <2>1 DEF Requesting, Requests
  <2> QED BY <1>0, <2>2 DEF StartOver, Requesting
<1>1. CASE BeginTask(s, i) \/ OpenSession(s, i)
  BY <1>1, TaskGoesOn DEF BeginTask, OpenSession, health, catalogue, Marked, Requesting
<1>2. CASE StartSucceeds(s, i)
  <2>1. Marked'
    BY <1>2, Marks DEF StartSucceeds, Marked, health
  <2> QED BY <1>0, <1>2, <2>1, TaskSucceeds DEF StartSucceeds
<1>3. CASE StartFails(s, i)
  <2>1. Marked'
    BY <1>3, Marks DEF StartFails, Marked, health, catalogue
  <2> QED BY <1>0, <1>3, <2>1, TaskRaises DEF StartFails
<1>4. CASE TaskDone(s, i)
  <2>1. Marked'
    BY <1>4, Marks DEF TaskDone, Marked, health, catalogue
  <2> QED BY <1>4, <2>1, TaskCalls DEF TaskDone, Requesting
<1> QED BY <1>1, <1>2, <1>3, <1>4

LEMMA LoopKeeps ==
  ASSUME McInv, NEW s \in Providers, CleanUp(s) \/ Warm(s)
  PROVE  McInv'
<1> USE DEF McInv
<1>1. CASE CleanUp(s)
  <2>1. broken' \in [Providers -> Nat]
    BY <1>1 DEF CleanUp, Wired
  <2>2. /\ StopConnection(s) /\ CountFailure(s) /\ UNCHANGED <<tasks, pending, stray, caller>>
    BY <1>1 DEF CleanUp
  <2> QED BY <2>1, <2>2, LinksStay, Marks DEF Requesting
<1>2. CASE Warm(s)
  <2>1. UNCHANGED <<catalogue, caller>> /\ (MarkHealthy(s) \/ MarkTransient(s, "warming"))
    BY <1>2 DEF Warm
  <2>2. Marked' /\ Requesting'
    BY <2>1, Marks DEF catalogue, Requesting
  <2>3. CASE UNCHANGED link
    BY <2>2, <2>3, LinksStay DEF link, Wired
  <2>4. CASE /\ pending[s] \notin UnderWay(s) /\ NewTask(s)
             /\ warmed' = [warmed EXCEPT ![s] = @ \cup {born[s] + 1}]
             /\ UNCHANGED <<connection, stray, broken>>
    <3>1. born[s] + 1 \in StartTasks
      BY <2>4, McpAssumption DEF NewTask, Wired, StartTasks
    <3>2. warmed' \in [Providers -> SUBSET StartTasks]
      BY <2>4, <3>1 DEF Wired
    <3> QED BY <2>2, <2>4, <3>2, TaskBegins
  <2> QED BY <1>2, <2>3, <2>4 DEF Warm
<1> QED BY <1>1, <1>2

LEMMA RequestStarts ==
  ASSUME McInv, NEW c \in Callers, NEW s \in Providers, pending[s] = 0, StartFor(c, s)
  PROVE  Wired' /\ Placed' /\ Requesting'
<1> USE DEF McInv
<1>1. pending[s] \notin UnderWay(s)
  BY McpAssumption DEF UnderWay, StartTasks
<1>2. Wired' /\ Placed'
  BY <1>1, TaskBegins DEF StartFor, Wired
<1>3. born[s] + 1 \in 0 .. Opens /\ caller[c] \in Requests
  BY McpAssumption DEF StartFor, NewTask, Wired, Requesting
<1>4. [caller[c] EXCEPT !.at = "starting", !.task = born[s] + 1] \in Requests
  BY <1>3 DEF Requests
<1> QED BY <1>2, <1>4 DEF StartFor, Requesting

LEMMA Verdicts ==
  ASSUME McInv, NEW c \in Callers, NEW s \in Providers, Accepted(c, s) \/ Rejected(c, s)
  PROVE  McInv'
<1> USE DEF McInv
<1>1. Wired' /\ Placed'
  BY PendingDrops DEF Accepted, Rejected
<1>2. Marked'
  BY Marks DEF Accepted, Rejected, Marked, health, catalogue
<1>3. Requesting'
  BY Moves DEF Accepted, Rejected
<1> QED BY <1>1, <1>2, <1>3

\* What one step of a request does to the link.
LEMMA AskersKeep ==
  ASSUME McInv, NEW c \in Callers, NEW s \in Providers,
         Ensure(c, s) \/ StartEnded(c, s) \/ Closed(c, s) \/ Answered(c, s) \/ Failed(c, s)
  PROVE  McInv'
<1> USE DEF McInv
<1>0. UNCHANGED link => Wired' /\ Placed'
  BY LinksStay DEF link, Wired
<1>1. CASE Ensure(c, s)
  <2>1. CASE Accepted(c, s) \/ Rejected(c, s)
    BY <2>1, Verdicts
  <2>2. CASE UNCHANGED catalogue /\ PassOver(c, s)
    <3>1. Requesting'
      BY <2>2, Moves DEF PassOver
    <3> QED BY <1>0, <2>2, <3>1 DEF PassOver, Marked, health, catalogue
  <2>3. CASE UNCHANGED catalogue /\ EnsureStarted(c, s)
    <3>1. \/ UNCHANGED health \/ MarkHealthy(s)
          \/ \E as \in {"starting", "warming", "reconnecting"} : MarkTransient(s, as)
      BY <2>3 DEF EnsureStarted
    <3>2. Marked'
      BY <2>3, <3>1, Marks DEF Marked, health, catalogue
    <3>3. CASE pending[s] = 0 /\ StartFor(c, s)
      BY <3>2, <3>3, RequestStarts
    <3>4. CASE UNCHANGED link /\ (Settled(c, s) \/ Refuse(c, s))
      BY <1>0, <3>2, <3>4, Moves
    <3> QED BY <2>3, <3>3, <3>4 DEF EnsureStarted
  <2> QED BY <1>1, <2>1, <2>2, <2>3 DEF Ensure
<1>2. CASE StartEnded(c, s)
  <2>1. CASE Accepted(c, s) \/ Rejected(c, s)
    BY <2>1, Verdicts
  <2>2. CASE CountFailure(s) /\ Refuse(c, s) /\ UNCHANGED link
    BY <1>0, <2>2, Marks, Moves
  <2> QED BY <1>2, <2>1, <2>2 DEF StartEnded
<1>5. CASE Closed(c, s)
  <2>1. Wired' /\ Placed'
    BY <1>5, LinksStay DEF Closed, Wired
  <2> QED BY <1>5, <2>1, Marks, Moves DEF Closed
<1>3. CASE Answered(c, s)
  <2>1. Requesting'
    BY <1>3, Moves DEF Answered
  <2>2. Marked'
    BY <1>3, Marks DEF Answered, catalogue
  <2> QED BY <1>0, <1>3, <2>1, <2>2 DEF Answered
<1>4. CASE Failed(c, s)
  <2>1. Marked' /\ Wired' /\ Placed'
    BY <1>4, Marks, LinksStay DEF Failed, Wired
  <2>2. CASE Refuse(c, s)
    BY <2>1, <2>2, Moves
  <2>3. CASE /\ caller[c].tries + 1 < Attempts
             /\ caller' = [caller EXCEPT ![c].tries = @ + 1, ![c].at = "ensure"]
    <3>1. caller[c] \in Requests /\ Attempts \in Nat
      BY McpAssumption DEF Requesting
    <3>2. caller[c].tries + 1 \in 0 .. Attempts
      BY <2>3, <3>1 DEF Requests
    <3>3. [caller[c] EXCEPT !.tries = @ + 1, !.at = "ensure"] \in Requests
      BY <3>1, <3>2, Repeats
    <3> QED BY <2>1, <2>3, <3>3 DEF Requesting
  <2> QED BY <1>4, <2>2, <2>3 DEF Failed
<1> QED BY <1>1, <1>2, <1>3, <1>4, <1>5

LEMMA RequestsKeep ==
  ASSUME McInv, NEW c \in Callers, Request(c) \/ Finish(c) \/ Store(c) \/ BridgeTimesOut(c)
  PROVE  McInv'
<1> USE DEF McInv
<1>0. caller[c] \in Requests /\ NoRequest \in Requests /\ UNCHANGED health
  BY Idles DEF Requesting, Request, Finish, Store, BridgeTimesOut
<1>1. Wired' /\ Placed'
  <2>1. UNCHANGED <<connection, tasks, pending, stray>>
    BY DEF Request, Finish, Store, BridgeTimesOut, link
  <2>2. broken' \in [Providers -> Nat]
    <3>1. UNCHANGED broken \/ \E s \in Providers : broken' = [broken EXCEPT ![s] = @ + 1]
      BY DEF Request, Finish, Store, BridgeTimesOut, link
    <3> QED BY <3>1 DEF Wired
  <2> QED BY <2>1, <2>2, LinksStay
<1>2. CASE Request(c)
  <2>1. UNCHANGED catalogue
    BY <1>2 DEF Request
  <2>2. Marked'
    BY <1>0, <2>1 DEF Marked, health, catalogue
  <2>3. \E r \in Requests : caller' = [caller EXCEPT ![c] = r]
    <3>1. ASSUME NEW g \in {"list", "retry"}, NEW todo \in SUBSET Providers,
                 caller' = [caller EXCEPT ![c].goal = g, ![c].todo = todo]
          PROVE  \E r \in Requests : caller' = [caller EXCEPT ![c] = r]
      <4>1. [caller[c] EXCEPT !.goal = g, !.todo = todo] \in Requests
        BY <1>0, Aims
      <4> QED BY <3>1, <4>1
    <3>2. ASSUME NEW t \in SUBSET Providers, NEW g \in {"list", "wake", "run"}, NEW todo \in SUBSET Providers,
                 caller' = [caller EXCEPT ![c].target = t, ![c].goal = g, ![c].todo = todo]
          PROVE  \E r \in Requests : caller' = [caller EXCEPT ![c] = r]
      <4>1. [caller[c] EXCEPT !.target = t, !.goal = g, !.todo = todo] \in Requests
        BY <1>0, Aims
      <4> QED BY <3>2, <4>1
    <3>3. ASSUME NEW s \in Providers,
                 caller' = [caller EXCEPT ![c].target = {s},
                   ![c].goal = IF s \in routes THEN "run"
                               ELSE IF s \in Deferred /\ ~ServerRunning(s) THEN "wake" ELSE "list",
                   ![c].todo = IF s \in routes \/ (s \in Deferred /\ ~ServerRunning(s)) THEN {s} ELSE Providers]
          PROVE  \E r \in Requests : caller' = [caller EXCEPT ![c] = r]
      <4> DEFINE g == IF s \in routes THEN "run"
                      ELSE IF s \in Deferred /\ ~ServerRunning(s) THEN "wake" ELSE "list"
                 x == IF s \in routes \/ (s \in Deferred /\ ~ServerRunning(s)) THEN {s} ELSE Providers
      <4>1. g \in {"list", "wake", "run"} /\ x \in SUBSET Providers /\ {s} \in SUBSET Providers
        OBVIOUS
      <4>2. caller' = [caller EXCEPT ![c].target = {s}, ![c].goal = g, ![c].todo = x]
        BY <3>3
      <4> HIDE DEF g, x
      <4> QED BY <3>2, <4>1, <4>2
    <3>4. {s \in Providers : status[s] # "healthy"} \in SUBSET Providers
      OBVIOUS
    <3> QED BY <1>2, <3>1, <3>3, <3>4 DEF Request
  <2>4. Requesting'
    BY <1>0, <2>3 DEF Requesting
  <2> QED BY <1>1, <2>2, <2>4
<1>3. CASE Finish(c)
  <2>1. Marked'
    BY <1>0, <1>3 DEF Finish, Marked, health, catalogue, Requests
  <2>2. \E r \in Requests : caller' = [caller EXCEPT ![c] = r]
    <3>1. CASE caller[c].goal = "wake" /\ caller' = [caller EXCEPT ![c].goal = "list", ![c].todo = Providers]
      <4>1. [caller[c] EXCEPT !.goal = "list", !.todo = Providers] \in Requests
        BY <1>0, Aims
      <4> QED BY <3>1, <4>1
    <3>2. CASE GiveUp(c)
      BY <1>0, <3>2 DEF GiveUp
    <3>3. CASE caller[c].goal = "list"
      <4>1. /\ [NoRequest EXCEPT !.goal = "store", !.found = caller[c].found] \in Requests
            /\ [NoRequest EXCEPT !.goal = "run", !.target = caller[c].target, !.todo = caller[c].target] \in Requests
        <5>1. caller[c].found \in SUBSET Providers /\ caller[c].target \in SUBSET Providers
          BY <1>0 DEF Requests
        <5> QED BY <1>0, <5>1, Aims
      <4> QED BY <1>0, <1>3, <3>3, <4>1 DEF Finish
    <3> QED BY <1>3, <3>1, <3>2, <3>3 DEF Finish
  <2> QED BY <1>1, <2>1, <2>2 DEF Requesting
<1>4. CASE Store(c)
  BY <1>0, <1>1, <1>4 DEF Store, GiveUp, Marked, health, Requesting, Requests
<1>5. CASE BridgeTimesOut(c)
  BY <1>0, <1>1, <1>5 DEF BridgeTimesOut, GiveUp, Marked, health, catalogue, Requesting
<1> QED BY <1>2, <1>3, <1>4, <1>5

LEMMA McStep == McInv /\ [McNext]_mcVars => McInv'
<1> SUFFICES ASSUME McInv, [McNext]_mcVars PROVE McInv'
  OBVIOUS
<1>1. CASE UNCHANGED mcVars
  BY <1>1 DEF mcVars, McInv, Wired, Placed, UnderWay, Marked, Requesting
<1>2. CASE McNext
  BY <1>2, TasksKeep, LoopKeeps, AskersKeep, RequestsKeep DEF McNext, CallerStep
<1> QED BY <1>1, <1>2


\* Of the tool client: a start task under way is the one in _pending_starts, or one
\* that a late waiter has taken out of there; and the requests are what the threads
\* may ask.
THEOREM McpInvariant == McSpec => []McInv
<1> QED BY McInitInv, McStep, PTL DEF McSpec

\* Whoever asks, retries, times out or cancels, a start task runs beside another only
\* when the late waiter of an earlier one has taken it or the other out of
\* _pending_starts.
THEOREM OneStart == McSpec => []OneStartAtATime
<1> QED BY McTypes, McpInvariant, PTL

-----------------------------------------------------------------------------
(* Launcher: the inductive invariant                                          *)

\* A run that nobody has pressed Start for.
Unstarted ==
  \A s \in Sups :
    /\ starter[s].pc = "none" <=> s > window.sup
    /\ s > window.sup => s \notin early
    /\ starter[s].pc = "none" => ~starter[s].stopping
    /\ starter[s].pc \in {"none", "clear"} => starter[s].at = 1
    /\ starter[s].pc \in {"wait", "block"} => starter[s].at <= Len(Order)

\* What start() has come to so far; it comes to nothing twice.
Spawned ==
  \A s \in Sups : \A k \in Begun(s) :
    k < starter[s].at \/ (k = starter[s].at /\ starter[s].pc = "wait")

\* Only a stop tells a process to end, and its run remembers that it is stopping.
Halting(s) == starter[s].stopping /\ starter[s].pc \notin {"none", "clear"}
Descending ==
  /\ \A s \in Sups, c \in Enabled : child[s][c] = "told" => Halting(s)
  /\ \A t \in Stoppers :
       LET s == stopper[t].sup
           left == stopper[t].todo
           over == stopper[t].mine \ left IN
       /\ stopper[t].pc \in {"terminate", "wait"} =>
            /\ s \in 1 .. window.sup /\ stopper[t].mine \subseteq Begun(s) /\ left \subseteq stopper[t].mine
            /\ \A k \in over : child[s][Order[k]] \in {"told", "dead"} /\ \A j \in left : j < k
            /\ \A k \in left : child[s][Order[k]] # "told"
       /\ stopper[t].pc # "terminate" => left = {}
       /\ stopper[t].pc \in {"idle", "called", "gone"} => s = 0
       /\ left # {} => Halting(s)
  /\ \A t, u \in Stoppers :
       stopper[t].todo # {} /\ stopper[u].todo # {} /\ stopper[t].sup = stopper[u].sup => t = u

\* A stop of a run whose start was over has all its processes.
Over(s) == starter[s].pc = "done" /\ Living(s) = {}
Covered ==
  \A t \in Stoppers :
    LET s == stopper[t].sup IN
    s \notin early \cup {0} =>
      /\ stopper[t].pc \in {"terminate", "wait"} =>
           starter[s].pc = "done" /\ \A k \in Begun(s) \ stopper[t].mine : child[s][Order[k]] = "dead"
      /\ stopper[t].pc = "ended" => Over(s)

\* The buttons take turns, as long as no start was cut short or raised.
Pressed == {t \in Stoppers \ {0} : stopper[t].pc \in {"called", "terminate", "wait", "ended"}}
Alternate ==
  /\ window.start => window.sup = 0 \/ Over(window.sup)
  /\ window.stop => ~starter[window.sup].stopping
  /\ window.start \/ window.stop => Pressed = {}
  /\ ~(window.start /\ window.stop)
  /\ \A t, u \in Pressed : t = u
  /\ \A t \in Pressed :
       /\ window.sup # 0
       /\ stopper[t].pc = "called" => ~starter[window.sup].stopping
       /\ stopper[t].pc # "called" => stopper[t].sup = window.sup
InTurn ==
  /\ window.stop \/ (\E t \in Stoppers : stopper[t].pc = "called") => window.sup # 0
  /\ \A s \in Sups : s < window.sup /\ Clean(s) => Over(s)
  /\ window.mode = "headless" => window.sup <= 1 /\ Pressed = {}
  /\ window.mode = "gui" /\ stopper[0].pc = "idle" /\ Clean(window.sup) => Alternate

LaInv == LauncherTypeOK /\ Unstarted /\ Spawned /\ Descending /\ Covered /\ InTurn

-----------------------------------------------------------------------------
(* Launcher: what the pieces of the state are made of.                        *)

StarterRec == [pc : {"none", "clear", "spawn", "block", "wait", "done", "raised"},
               at : 1 .. Len(Order) + 1, stopping : BOOLEAN]
StopperRec == [pc : {"idle", "called", "terminate", "wait", "ended", "gone"}, sup : 0 .. Starts,
               todo : SUBSET DOMAIN Order, mine : SUBSET DOMAIN Order]
WindowRec == [mode : {"gui", "headless"}, open : BOOLEAN, start : BOOLEAN, stop : BOOLEAN,
              status : {"idle", "starting", "running", "stopping", "error"}, sup : 0 .. Starts]
Fates == Ongoing \cup {"none", "dead"}

LEMMA LaTypes ==
  LauncherTypeOK <=> /\ window \in WindowRec /\ starter \in [Sups -> StarterRec]
                     /\ child \in [Sups -> [Enabled -> Fates]]
                     /\ stopper \in [Stoppers -> StopperRec] /\ early \subseteq Sups
  BY DEF LauncherTypeOK, WindowRec, StarterRec, StopperRec, Fates

LEMMA LaNumbers ==
  /\ Starts \in Nat /\ Len(Order) \in Nat /\ DOMAIN Order = 1 .. Len(Order)
  /\ \A k \in DOMAIN Order : Order[k] \in Enabled
  /\ \A c \in Enabled : \E k \in DOMAIN Order : c = Order[k]
  /\ \A j, k \in DOMAIN Order : Order[j] = Order[k] => j = k
  /\ 0 \in Stoppers
  BY LauncherAssumption DEF Enabled, Stoppers

LEMMA LaFields ==
  ASSUME LauncherTypeOK
  PROVE  /\ window.sup \in 0 .. Starts /\ window.start \in BOOLEAN /\ window.stop \in BOOLEAN
         /\ \A s \in Sups : s \in Nat /\ s >= 1 /\ starter[s] \in StarterRec /\ starter[s].at \in 1 .. Len(Order) + 1
         /\ \A t \in Stoppers : /\ stopper[t] \in StopperRec /\ stopper[t].todo \subseteq DOMAIN Order
                                /\ stopper[t].mine \subseteq DOMAIN Order
         /\ \A s \in Sups : Begun(s) \subseteq DOMAIN Order
  BY LaTypes, LaNumbers DEF WindowRec, StarterRec, StopperRec, Sups, Begun

\* A change of the place of one stop thread.
LEMMA StopperMoves ==
  ASSUME LauncherTypeOK, NEW t \in Stoppers, NEW r \in StopperRec, stopper' = [stopper EXCEPT ![t] = r]
  PROVE  /\ stopper' \in [Stoppers -> StopperRec] /\ stopper'[t] = r
         /\ \A u \in Stoppers : u # t => stopper'[u] = stopper[u]
  BY LaTypes

LEMMA StopperPlace ==
  ASSUME LauncherTypeOK, NEW t \in Stoppers, NEW pc \in {"idle", "called", "terminate", "wait", "ended", "gone"},
         stopper' = [stopper EXCEPT ![t].pc = pc]
  PROVE  /\ stopper' \in [Stoppers -> StopperRec]
         /\ stopper'[t].pc = pc /\ stopper'[t].sup = stopper[t].sup
         /\ stopper'[t].todo = stopper[t].todo /\ stopper'[t].mine = stopper[t].mine
         /\ \A u \in Stoppers : u # t => stopper'[u] = stopper[u]
<1> DEFINE r == [stopper[t] EXCEPT !.pc = pc]
<1>1. /\ r \in StopperRec /\ r.pc = pc /\ r.sup = stopper[t].sup
      /\ r.todo = stopper[t].todo /\ r.mine = stopper[t].mine
  <2>1. stopper[t] \in StopperRec
    BY LaTypes
  <2> QED BY <2>1 DEF StopperRec
<1>2. stopper' = [stopper EXCEPT ![t] = r]
  OBVIOUS
<1> HIDE DEF r
<1> QED BY <1>1, <1>2, StopperMoves

LEMMA LaInitInv == LaInit => LaInv
<1> SUFFICES ASSUME LaInit PROVE LaInv
  OBVIOUS
<1> USE LaNumbers
<1>0. Len(Order) + 1 \in Nat /\ 1 \in 1 .. Len(Order) + 1 /\ 0 \in 0 .. Starts
  OBVIOUS
<1>1. /\ window \in WindowRec /\ window.sup = 0 /\ ~window.stop
  BY <1>0 DEF LaInit, WindowRec
<1>2. /\ starter \in [Sups -> StarterRec]
      /\ \A s \in Sups : starter[s].pc = "none" /\ starter[s].at = 1 /\ ~starter[s].stopping
  BY <1>0 DEF LaInit, StarterRec
<1>3. /\ stopper \in [Stoppers -> StopperRec]
      /\ \A t \in Stoppers : stopper[t].pc = "idle" /\ stopper[t].sup = 0 /\ stopper[t].todo = {}
  BY <1>0 DEF LaInit, StopperRec, NoStop
<1>4. /\ child \in [Sups -> [Enabled -> Fates]] /\ \A s \in Sups, c \in Enabled : child[s][c] = "none"
      /\ early = {}
  BY DEF LaInit, Fates
<1>5. LauncherTypeOK
  BY <1>1, <1>2, <1>3, <1>4, LaTypes
<1>6. \A s \in Sups : s \in Nat /\ s >= 1 /\ Begun(s) = {}
  BY <1>4 DEF Sups, Begun
<1>7. Unstarted /\ Spawned
  BY <1>1, <1>2, <1>4, <1>6 DEF Unstarted, Spawned
<1>8. Descending /\ Covered
  BY <1>3, <1>4 DEF Descending, Covered
<1>9. InTurn
  BY <1>1, <1>3, <1>6 DEF InTurn, Alternate, Pressed
<1> QED BY <1>5, <1>7, <1>8, <1>9 DEF LaInv

-----------------------------------------------------------------------------
(* Steps of a start thread.                                                   *)

\* Whatever it does: it may begin a process that was not there, it comes on, and
\* it forgets a stop only where nothing has begun.
LEMMA StarterMoves ==
  ASSUME LaInv, NEW s \in Sups, starter[s].pc \in {"clear", "spawn", "block", "wait"},
         LauncherTypeOK', Spawned',
         \A x \in Sups : x # s => starter'[x] = starter[x] /\ child'[x] = child[x],
         starter'[s].pc \notin {"none", "clear"},
         starter'[s].pc \in {"wait", "block"} => starter'[s].at <= Len(Order),
         starter[s].pc # "clear" => starter'[s].stopping = starter[s].stopping,
         starter'[s].stopping => starter[s].stopping,
         \A k \in DOMAIN Order : \/ child'[s][Order[k]] = child[s][Order[k]]
                                 \/ child[s][Order[k]] = "none" /\ child'[s][Order[k]] = "up",
         window'.mode = window.mode, window'.sup = window.sup,
         \/ window'.start = window.start /\ window'.stop = window.stop
         \/ starter'[s].pc = "raised" /\ window.mode = "gui" /\ ~window'.stop,
         UNCHANGED <<stopper, early>>
  PROVE  LaInv'
<1> USE LaNumbers, LaFields DEF LaInv
<1>1. s <= window.sup /\ window.sup # 0
  BY DEF Unstarted
<1>2. starter[s].pc = "clear" => Begun(s) = {}
  BY DEF Unstarted, Spawned
<1>3. \A c \in Enabled : child'[s][c] = child[s][c] \/ (child[s][c] = "none" /\ child'[s][c] = "up")
  OBVIOUS
<1>4. /\ \A x \in Sups : Begun(x) \subseteq Begun(x)'
      /\ \A x \in Sups : \A k \in Begun(x) : child'[x][Order[k]] = child[x][Order[k]]
      /\ \A x \in Sups, c \in Enabled : child'[x][c] = "told" => child[x][c] = "told"
  <2>1. ASSUME NEW x \in Sups, x # s
        PROVE  child'[x] = child[x] /\ Begun(x)' = Begun(x)
    BY <2>1 DEF Begun
  <2>2. \A k \in Begun(s) : k \in DOMAIN Order /\ child[s][Order[k]] # "none"
    BY DEF Begun
  <2>3. \A k \in Begun(s) : child'[s][Order[k]] = child[s][Order[k]]
    BY <2>2
  <2>4. Begun(s) \subseteq Begun(s)'
    BY <2>2, <2>3 DEF Begun
  <2>5. \A c \in Enabled : child'[s][c] = "told" => child[s][c] = "told"
    BY <1>3
  <2>6. \A x \in Sups : Begun(x) \subseteq Begun(x)'
    BY <2>1, <2>4
  <2>7. \A x \in Sups : \A k \in Begun(x) : child'[x][Order[k]] = child[x][Order[k]]
    BY <2>1, <2>3
  <2>8. \A x \in Sups, c \in Enabled : child'[x][c] = "told" => child[x][c] = "told"
    BY <2>1, <2>5
  <2> QED BY <2>6, <2>7, <2>8
<1>5. \A x \in Sups : x # s => Begun(x)' = Begun(x) /\ Living(x)' = Living(x) /\ Over(x)' = Over(x)
                               /\ Halting(x)' = Halting(x)
  BY DEF Begun, Living, Over, Halting
<1>6. ~Over(s) /\ (Halting(s) => Halting(s)')
  BY DEF Over, Halting
<1>7. Unstarted'
  BY <1>1 DEF Unstarted
<1>8. Descending'
  <2>1. \A x \in Sups, c \in Enabled : child'[x][c] = "told" => Halting(x)'
    BY <1>4, <1>5, <1>6 DEF Descending
  <2>2. ASSUME NEW t \in Stoppers PROVE stopper[t].todo # {} => Halting(stopper[t].sup)'
    <3>1. stopper[t].todo # {} => stopper[t].sup \in Sups /\ Halting(stopper[t].sup)
      BY DEF Descending, Sups
    <3> QED BY <1>5, <1>6, <3>1
  <2>3. ASSUME NEW t \in Stoppers, stopper[t].pc \in {"terminate", "wait"}
        PROVE  /\ stopper[t].sup \in 1 .. window.sup /\ stopper[t].sup \in Sups
               /\ stopper[t].mine \subseteq Begun(stopper[t].sup)
               /\ stopper[t].todo \subseteq stopper[t].mine
               /\ \A k \in stopper[t].mine : child'[stopper[t].sup][Order[k]] = child[stopper[t].sup][Order[k]]
    BY <1>4, <2>3 DEF Descending, Sups
  <2>4. ASSUME NEW t \in Stoppers, stopper[t].pc \in {"terminate", "wait"}
        PROVE  /\ stopper[t].mine \subseteq Begun(stopper[t].sup)'
               /\ \A k \in stopper[t].mine \ stopper[t].todo :
                    /\ child'[stopper[t].sup][Order[k]] \in {"told", "dead"}
                    /\ \A j \in stopper[t].todo : j < k
               /\ \A k \in stopper[t].todo : child'[stopper[t].sup][Order[k]] # "told"
    <3> DEFINE p == stopper[t].sup
               mine == stopper[t].mine
               todo == stopper[t].todo
    <3>1. /\ \A k \in mine \ todo : /\ child[p][Order[k]] \in {"told", "dead"}
                                    /\ \A j \in todo : j < k
          /\ \A k \in todo : child[p][Order[k]] # "told"
      BY <2>4 DEF Descending
    <3>2. /\ p \in Sups /\ mine \subseteq Begun(p) /\ todo \subseteq mine
          /\ \A k \in mine : child'[p][Order[k]] = child[p][Order[k]]
      BY <2>3, <2>4
    <3>3. Begun(p) \subseteq Begun(p)'
      BY <1>4, <3>2
    <3>4. mine \subseteq Begun(p)'
      BY <3>2, <3>3
    <3> HIDE DEF p, mine, todo
    <3>5. /\ \A k \in mine \ todo : /\ child'[p][Order[k]] \in {"told", "dead"}
                                    /\ \A j \in todo : j < k
          /\ \A k \in todo : child'[p][Order[k]] # "told"
      <4>1. ASSUME NEW k \in mine \ todo
            PROVE  child'[p][Order[k]] \in {"told", "dead"} /\ \A j \in todo : j < k
        BY <3>1, <3>2
      <4>2. ASSUME NEW k \in todo PROVE child'[p][Order[k]] # "told"
        BY <3>1, <3>2
      <4> QED BY <4>1, <4>2, Zenon
    <3> QED BY <3>4, <3>5 DEF p, mine, todo
  <2> QED BY <2>1, <2>2, <2>3, <2>4 DEF Descending
<1>9. Covered'
  <2> SUFFICES ASSUME NEW t \in Stoppers, stopper[t].sup \notin early \cup {0}
               PROVE  /\ stopper[t].pc \in {"terminate", "wait"} =>
                           /\ starter'[stopper[t].sup].pc = "done"
                           /\ \A k \in Begun(stopper[t].sup)' \ stopper[t].mine :
                                child'[stopper[t].sup][Order[k]] = "dead"
                      /\ stopper[t].pc = "ended" => Over(stopper[t].sup)'
    BY DEF Covered
  <2>1. stopper[t].sup \in Sups
    BY LaTypes DEF StopperRec, Sups
  <2>2. stopper[t].pc \in {"terminate", "wait", "ended"} => stopper[t].sup # s
    BY <1>6, <2>1 DEF Covered
  <2> QED BY <1>5, <2>1, <2>2 DEF Covered
<1>10. InTurn'
  <2>1. \A x \in Nat : Clean(x)' /\ x <= window.sup => Clean(x)
    BY DEF Clean, Sups
  <2>2. window.mode = "gui" /\ Clean(window.sup)' => window'.start = window.start /\ window'.stop = window.stop
    BY <1>1 DEF Clean
  <2>3. Clean(window.sup)' => Clean(window.sup)
    BY <2>1
  <2>4. \A x \in Sups : Over(x) => Over(x)'
    BY <1>5, <1>6
  <2>5. Pressed' = Pressed
    BY DEF Pressed
  <2>6. ~starter[window.sup].stopping => ~starter'[window.sup].stopping
    BY <1>1 DEF Sups
  <2>7. \A x \in Sups : x < window.sup /\ Clean(x)' => Over(x)'
    BY <2>1, <2>4 DEF InTurn
  <2>8. window'.stop \/ (\E t \in Stoppers : stopper'[t].pc = "called") => window'.sup # 0
    BY <1>1
  <2>9. window'.mode = "headless" => window'.sup <= 1 /\ Pressed' = {}
    BY <2>5 DEF InTurn
  <2>10. ASSUME window'.mode = "gui", stopper'[0].pc = "idle", Clean(window.sup)'
         PROVE  Alternate'
    <3>1. window'.start = window.start /\ window'.stop = window.stop /\ Clean(window.sup)
      BY <2>2, <2>3, <2>10
    <3>2. window.sup \in Sups /\ Alternate
      BY <1>1, <2>10, <3>1 DEF InTurn, Sups
    <3>3. Over(window.sup) => Over(window.sup)'
      BY <1>5, <1>6, <3>2 DEF Over, Living
    <3> QED BY <2>5, <2>6, <3>1, <3>2, <3>3 DEF Alternate
  <2> QED BY <2>7, <2>8, <2>9, <2>10 DEF InTurn
<1> QED BY <1>7, <1>8, <1>9, <1>10

LEMMA LaTyped ==
  ASSUME window' \in WindowRec, starter' \in [Sups -> StarterRec], child' \in [Sups -> [Enabled -> Fates]],
         stopper' \in [Stoppers -> StopperRec], early' \subseteq Sups
  PROVE  LauncherTypeOK'
  BY DEF LauncherTypeOK, WindowRec, StarterRec, StopperRec, Fates

\* The record of the starter at hand, changed.
LEMMA StarterChanges ==
  ASSUME LauncherTypeOK, NEW s \in Sups, NEW r \in StarterRec, starter' = [starter EXCEPT ![s] = r]
  PROVE  /\ starter' \in [Sups -> StarterRec] /\ starter'[s] = r
         /\ \A x \in Sups : x # s => starter'[x] = starter[x]
  BY LaTypes

LEMMA Onwards ==
  ASSUME LauncherTypeOK, NEW s \in Sups, starter[s].at <= Len(Order)
  PROVE  /\ Onward(s) \in StarterRec /\ Onward(s).pc = "spawn" /\ Onward(s).at = starter[s].at + 1
         /\ Onward(s).stopping = starter[s].stopping
<1>1. starter[s] \in StarterRec /\ starter[s].at + 1 \in 1 .. Len(Order) + 1
  BY LaFields, LaNumbers
<1> QED BY <1>1 DEF Onward, StarterRec

LEMMA StarterPlace ==
  ASSUME LauncherTypeOK, NEW s \in Sups, NEW pc \in {"clear", "block", "wait", "done", "raised"},
         NEW r, r = [starter[s] EXCEPT !.pc = pc]
  PROVE  r \in StarterRec /\ r.pc = pc /\ r.at = starter[s].at /\ r.stopping = starter[s].stopping
<1>1. starter[s] \in StarterRec
  BY LaTypes
<1> QED BY <1>1 DEF StarterRec

\* What the steps of a start thread share that begin no process.
Goes(s, r) ==
  /\ starter[s].pc \in {"clear", "spawn", "block", "wait"}
  /\ starter' = [starter EXCEPT ![s] = r] /\ UNCHANGED <<child, stopper, early>>
  /\ r.pc \in {"spawn", "done", "raised", "block"} /\ (r.pc = "block" => r.at <= Len(Order))
  /\ r.stopping => starter[s].stopping
  /\ starter[s].pc # "clear" => r.stopping = starter[s].stopping
  /\ r.at = starter[s].at + 1 \/ (r.at = starter[s].at /\ starter[s].pc # "wait")
  /\ window' \in WindowRec /\ window'.mode = window.mode /\ window'.sup = window.sup
  /\ \/ window'.start = window.start /\ window'.stop = window.stop
     \/ r.pc = "raised" /\ window.mode = "gui" /\ ~window'.stop

LEMMA StarterGoes ==
  ASSUME LaInv, NEW s \in Sups, NEW r \in StarterRec, Goes(s, r)
  PROVE  LaInv'
<1> USE DEF Goes
<1>1. /\ starter' \in [Sups -> StarterRec] /\ starter'[s] = r
      /\ \A x \in Sups : x # s => starter'[x] = starter[x]
  BY StarterChanges DEF LaInv
<1>2. LauncherTypeOK'
  <2>1. /\ child \in [Sups -> [Enabled -> Fates]] /\ stopper \in [Stoppers -> StopperRec]
        /\ early \subseteq Sups
    BY LaTypes DEF LaInv
  <2> QED BY <1>1, <2>1, LaTyped
<1>3. Spawned'
  <2> SUFFICES ASSUME NEW x \in Sups, NEW k \in Begun(x)
               PROVE  k < starter'[x].at \/ (k = starter'[x].at /\ starter'[x].pc = "wait")
    BY DEF Spawned, Begun
  <2>1. k \in Nat /\ starter[x].at \in Nat /\ (k < starter[x].at \/ (k = starter[x].at /\ starter[x].pc = "wait"))
    BY LaFields, LaNumbers DEF LaInv, Spawned
  <2>2. CASE x = s
    BY <1>1, <2>1, <2>2
  <2>3. CASE x # s
    BY <1>1, <2>1, <2>3
  <2> QED BY <2>2, <2>3
<1> QED BY <1>1, <1>2, <1>3, StarterMoves

LEMMA SpawnKeeps ==
  ASSUME LaInv, NEW s \in Sups, Spawn(s)
  PROVE  LaInv'
<1> USE LaNumbers
<1> DEFINE at == starter[s].at
           c == Order[at]
<1>0. /\ starter[s].pc = "spawn" /\ at \in 1 .. Len(Order) /\ at \in DOMAIN Order /\ c \in Enabled
      /\ UNCHANGED <<window, stopper, early>> /\ LauncherTypeOK
  BY LaFields DEF Spawn, LaInv
<1>1. /\ window' \in WindowRec /\ window'.mode = window.mode /\ window'.sup = window.sup
      /\ window'.start = window.start /\ window'.stop = window.stop
  BY <1>0, LaTypes
<1>2. CASE starter' = [starter EXCEPT ![s].pc = "block"] /\ UNCHANGED child
  <2> DEFINE r == [starter[s] EXCEPT !.pc = "block"]
  <2>1. /\ r \in StarterRec /\ r.pc = "block" /\ r.at = starter[s].at /\ r.at <= Len(Order)
        /\ r.stopping = starter[s].stopping
    BY <1>0, StarterPlace
  <2>2. starter' = [starter EXCEPT ![s] = r]
    BY <1>2
  <2> HIDE DEF r
  <2>3. Goes(s, r)
    BY <1>0, <1>1, <1>2, <2>1, <2>2 DEF Goes
  <2> QED BY <2>1, <2>3, StarterGoes
<1>3. CASE starter' = [starter EXCEPT ![s] = Onward(s)] /\ UNCHANGED child
  <2>1. /\ Onward(s) \in StarterRec /\ Onward(s).pc = "spawn" /\ Onward(s).at = at + 1
        /\ Onward(s).stopping = starter[s].stopping
    BY <1>0, Onwards
  <2>2. Goes(s, Onward(s))
    BY <1>0, <1>1, <1>3, <2>1 DEF Goes
  <2> QED BY <2>1, <2>2, StarterGoes
<1>4. CASE child' = [child EXCEPT ![s][c] = "up"] /\ starter' = [starter EXCEPT ![s] = AfterSpawn(s, c)]
  <2> DEFINE r == AfterSpawn(s, c)
  <2>3. r \in StarterRec /\ r.stopping = starter[s].stopping
        /\ ((r.pc = "spawn" /\ r.at = at + 1) \/ (r.pc = "wait" /\ r.at = at))
    <3>1. CASE c \in Awaited
      <4>1. r = [starter[s] EXCEPT !.pc = "wait"]
        BY <3>1 DEF AfterSpawn
      <4> QED BY <1>0, <4>1, StarterPlace
    <3>2. CASE c \notin Awaited
      <4>1. r = Onward(s)
        BY <3>2 DEF AfterSpawn
      <4> QED BY <1>0, <4>1, Onwards
    <3> QED BY <3>1, <3>2
  <2>1. starter' = [starter EXCEPT ![s] = r]
    BY <1>4
  <2> HIDE DEF r
  <2>2. /\ starter' \in [Sups -> StarterRec] /\ starter'[s] = r
        /\ \A x \in Sups : x # s => starter'[x] = starter[x]
    BY <1>0, <2>1, <2>3, StarterChanges
  <2>4. /\ child' \in [Sups -> [Enabled -> Fates]] /\ child'[s][c] = "up"
        /\ \A x \in Sups : x # s => child'[x] = child[x]
        /\ \A d \in Enabled : d # c => child'[s][d] = child[s][d]
    BY <1>0, <1>4, LaTypes DEF Fates, Ongoing
  <2>5. child[s][c] = "none"
    <3>1. at \notin Begun(s)
      BY <1>0 DEF LaInv, Spawned
    <3> QED BY <1>0, <3>1 DEF Begun
  <2>6. \A k \in DOMAIN Order : child'[s][Order[k]] = IF k = at THEN "up" ELSE child[s][Order[k]]
    BY <1>0, <2>4
  <2>7. LauncherTypeOK'
    <3>1. stopper' \in [Stoppers -> StopperRec] /\ early' \subseteq Sups
      BY <1>0, LaTypes
    <3> QED BY <1>1, <2>2, <2>4, <3>1, LaTyped
  <2>8. Spawned'
    <3> SUFFICES ASSUME NEW x \in Sups, NEW k \in DOMAIN Order, child'[x][Order[k]] # "none"
                 PROVE  k < starter'[x].at \/ (k = starter'[x].at /\ starter'[x].pc = "wait")
      BY DEF Spawned, Begun
    <3>1. CASE x # s
      BY <2>2, <2>4, <3>1 DEF LaInv, Spawned, Begun
    <3>2. CASE x = s /\ k # at
      <4>1. k \in Begun(s)
        BY <2>6, <3>2 DEF Begun
      <4>2. k < at
        BY <1>0, <3>2, <4>1 DEF LaInv, Spawned
      <4> QED BY <1>0, <2>2, <2>3, <3>2, <4>2
    <3>3. CASE x = s /\ k = at
      BY <1>0, <2>2, <2>3, <3>3
    <3> QED BY <3>1, <3>2, <3>3
  <2> HIDE DEF at, c
  <2>9. \A k \in DOMAIN Order : \/ child'[s][Order[k]] = child[s][Order[k]]
                                \/ child[s][Order[k]] = "none" /\ child'[s][Order[k]] = "up"
    BY <2>5, <2>6 DEF c
  <2>10. starter'[s].pc \in {"wait", "block"} => starter'[s].at <= Len(Order)
    BY <1>0, <2>2, <2>3
  <2> QED BY <1>0, <1>1, <2>2, <2>3, <2>4, <2>7, <2>8, <2>9, <2>10, StarterMoves
<1> QED BY <1>2, <1>3, <1>4 DEF Spawn

LEMMA StartKeeps ==
  ASSUME LaInv, NEW s \in Sups, StartStep(s) \/ StartRaises(s)
  PROVE  LaInv'
<1>0. LauncherTypeOK /\ window \in WindowRec /\ starter[s] \in StarterRec /\ starter[s].at \in Nat
  BY LaTypes, LaFields, LaNumbers DEF LaInv
<1>1. CASE BeginStart(s)
  <2> DEFINE r == [starter[s] EXCEPT !.pc = "spawn", !.stopping = FALSE]
  <2>1. r \in StarterRec /\ r.pc = "spawn" /\ r.at = starter[s].at /\ ~r.stopping
    BY <1>0 DEF StarterRec
  <2>2. starter' = [starter EXCEPT ![s] = r]
    BY <1>1 DEF BeginStart
  <2>3. starter[s].pc = "clear" /\ UNCHANGED <<window, child, stopper, early>>
    BY <1>1 DEF BeginStart
  <2> HIDE DEF r
  <2>4. Goes(s, r)
    BY <1>0, <2>1, <2>2, <2>3 DEF Goes
  <2> QED BY <2>1, <2>4, StarterGoes
<1>2. CASE RunBlocking(s) \/ WaitPort(s)
  <2>1. starter[s].at <= Len(Order)
    BY <1>2 DEF RunBlocking, WaitPort, LaInv, Unstarted
  <2>2. /\ Onward(s) \in StarterRec /\ Onward(s).pc = "spawn" /\ Onward(s).at = starter[s].at + 1
        /\ Onward(s).stopping = starter[s].stopping
    BY <1>0, <2>1, Onwards
  <2>3. /\ starter' = [starter EXCEPT ![s] = Onward(s)] /\ starter[s].pc \in {"block", "wait"}
        /\ UNCHANGED <<child, stopper, early>> /\ window' = window
    BY <1>2 DEF RunBlocking, WaitPort
  <2>4. /\ window' \in WindowRec /\ window'.mode = window.mode /\ window'.sup = window.sup
        /\ window'.start = window.start /\ window'.stop = window.stop
    BY <1>0, <2>3
  <2>5. Goes(s, Onward(s))
    BY <2>2, <2>3, <2>4 DEF Goes
  <2> QED BY <2>2, <2>5, StarterGoes
<1>3. CASE EndStart(s) \/ StartRaises(s)
  <2> DEFINE pc == IF EndStart(s) THEN "done" ELSE "raised"
             r == [starter[s] EXCEPT !.pc = pc]
  <2>1. pc \in {"done", "raised"} /\ r \in StarterRec /\ r.pc = pc /\ r.at = starter[s].at
        /\ r.stopping = starter[s].stopping
    BY <1>0, StarterPlace
  <2>2. starter' = [starter EXCEPT ![s] = r] /\ starter[s].pc = "spawn" /\ UNCHANGED <<child, stopper, early>>
    BY <1>3 DEF EndStart, StartRaises
  <2>3. /\ window' \in WindowRec /\ window'.mode = window.mode /\ window'.sup = window.sup
        /\ \/ window'.start = window.start /\ window'.stop = window.stop
           \/ pc = "raised" /\ window.mode = "gui" /\ ~window'.stop
    <3>1. CASE EndStart(s)
      BY <1>0, <3>1 DEF EndStart, WindowRec
    <3>2. CASE ~EndStart(s)
      BY <1>0, <1>3, <3>2 DEF StartRaises, WindowRec
    <3> QED BY <3>1, <3>2
  <2> HIDE DEF r, pc
  <2>4. Goes(s, r)
    BY <1>0, <2>1, <2>2, <2>3 DEF Goes
  <2> QED BY <2>1, <2>4, StarterGoes
<1> QED BY <1>1, <1>2, <1>3, SpawnKeeps DEF StartStep

-----------------------------------------------------------------------------
(* Steps that leave the start threads alone.                                  *)

LEMMA LaWindow ==
  ASSUME LaInv
  PROVE  /\ window \in WindowRec /\ window.sup \in Nat /\ window.sup <= Starts /\ Starts \in Nat
         /\ \A x : x \in Sups <=> x \in Nat /\ 1 <= x /\ x <= Starts
         /\ \A x : x \in 1 .. window.sup <=> x \in Sups /\ x <= window.sup
         /\ window.sup # 0 => window.sup \in Sups
<1>1. window \in WindowRec /\ window.sup \in 0 .. Starts /\ Starts \in Nat
  BY LaTypes, LaFields, LaNumbers DEF LaInv
<1> HIDE DEF WindowRec
<1> QED BY <1>1 DEF Sups

LEMMA LaStops ==
  ASSUME LaInv, NEW t \in Stoppers
  PROVE  /\ stopper[t].sup \in 0 .. Starts /\ (stopper[t].sup # 0 => stopper[t].sup \in Sups)
         /\ stopper[t].pc \in {"terminate", "wait"} =>
              /\ stopper[t].sup \in Sups /\ stopper[t].sup # 0 /\ stopper[t].sup <= window.sup
              /\ stopper[t].mine \subseteq Begun(stopper[t].sup) /\ stopper[t].todo \subseteq stopper[t].mine
              /\ stopper[t].mine \subseteq DOMAIN Order
         /\ stopper[t].todo # {} =>
              stopper[t].pc = "terminate" /\ stopper[t].sup \in Sups /\ Halting(stopper[t].sup)
<1>1. /\ stopper[t].sup \in 0 .. Starts /\ stopper[t].mine \subseteq DOMAIN Order
  BY LaTypes DEF LaInv, StopperRec
<1>2. stopper[t].sup # 0 => stopper[t].sup \in Sups
  BY <1>1, LaNumbers DEF Sups
<1>3. stopper[t].pc \in {"terminate", "wait"} =>
        /\ stopper[t].sup \in 1 .. window.sup
        /\ stopper[t].mine \subseteq Begun(stopper[t].sup) /\ stopper[t].todo \subseteq stopper[t].mine
  BY DEF LaInv, Descending
<1>4. stopper[t].todo # {} => stopper[t].pc = "terminate" /\ Halting(stopper[t].sup)
  BY DEF LaInv, Descending
<1> QED BY <1>1, <1>2, <1>3, <1>4, LaWindow
\* What stays true of every run while its start thread stands still, whatever ends.
LEMMA RunsStand ==
  ASSUME LauncherTypeOK, \A s \in Sups : starter'[s].pc = starter[s].pc, early \subseteq early',
         \A s \in Sups, c \in Enabled : /\ child'[s][c] = "none" <=> child[s][c] = "none"
                                        /\ child'[s][c] \in Ongoing => child[s][c] \in Ongoing
  PROVE  /\ \A s \in Sups : Begun(s)' = Begun(s) /\ (Over(s) => Over(s)')
         /\ \A n \in 0 .. Starts : Clean(n)' => Clean(n)
<1>1. \A s \in Sups : Begun(s)' = Begun(s)
  BY LaNumbers DEF Begun
<1>2. \A s \in Sups : Over(s) => Over(s)'
  BY DEF Over, Living
<1>3. \A n \in 0 .. Starts : Clean(n)' => Clean(n)
  BY LaNumbers DEF Clean, Sups
<1> QED BY <1>1, <1>2, <1>3

LEMMA ExitKeeps ==
  ASSUME LaInv, NEW s \in Sups, NEW c \in Enabled, Exits(s, c)
  PROVE  LaInv'
<1>0. LauncherTypeOK /\ Unstarted /\ Spawned /\ Descending /\ Covered /\ InTurn
  BY DEF LaInv
<1> USE <1>0
<1>1. child[s][c] \in Ongoing /\ child' = [child EXCEPT ![s][c] = "dead"]
      /\ UNCHANGED <<window, starter, stopper, early>>
  BY DEF Exits
<1>2. /\ child' \in [Sups -> [Enabled -> Fates]]
      /\ \A x \in Sups, d \in Enabled : child'[x][d] = IF x = s /\ d = c THEN "dead" ELSE child[x][d]
  BY <1>1, LaTypes DEF Fates
<1>3. LauncherTypeOK'
  BY <1>1, <1>2, LaTypes, LaTyped
<1>4. /\ \A x \in Sups, d \in Enabled : /\ child'[x][d] = "none" <=> child[x][d] = "none"
                                        /\ child'[x][d] \in Ongoing => child[x][d] \in Ongoing
                                        /\ child'[x][d] = child[x][d] \/ child'[x][d] = "dead"
  BY <1>1, <1>2 DEF Ongoing
<1>5. /\ \A x \in Sups : Begun(x)' = Begun(x) /\ (Over(x) => Over(x)')
      /\ \A n \in 0 .. Starts : Clean(n)' => Clean(n)
  BY <1>1, <1>4, RunsStand
<1>6. Unstarted' /\ Spawned'
  BY <1>1, <1>5 DEF Unstarted, Spawned
<1>7. Descending' /\ Covered'
  <2>1. \A x \in Sups : Halting(x)' = Halting(x) /\ Begun(x) \subseteq DOMAIN Order
    BY <1>1, LaFields DEF Halting
  <2>2. \A x \in Sups : \A k \in Begun(x) : Order[k] \in Enabled
    BY <2>1, LaNumbers
  <2>3. \A t \in Stoppers : stopper[t].sup \in 0 .. Starts
    BY LaTypes DEF StopperRec
  <2>4. \A t \in Stoppers : stopper[t].sup # 0 => stopper[t].sup \in Sups
    BY <2>3, LaNumbers DEF Sups
  <2>5. Descending'
    <3>1. \A x \in Sups, d \in Enabled : child'[x][d] = "told" => Halting(x)'
      BY <1>4, <2>1 DEF Descending
    <3>2. ASSUME NEW t \in Stoppers, stopper[t].pc \in {"terminate", "wait"}
          PROVE  /\ stopper[t].sup \in Sups /\ stopper[t].mine \subseteq Begun(stopper[t].sup)'
                 /\ \A k \in stopper[t].mine \ stopper[t].todo :
                      child'[stopper[t].sup][Order[k]] \in {"told", "dead"}
                 /\ \A k \in stopper[t].todo : child'[stopper[t].sup][Order[k]] # "told"
      <4>1. /\ stopper[t].sup \in Sups /\ stopper[t].mine \subseteq Begun(stopper[t].sup)
            /\ stopper[t].todo \subseteq stopper[t].mine
        BY <3>2, LaStops
      <4>2. \A k \in stopper[t].mine : Order[k] \in Enabled
        BY <2>2, <4>1
      <4>3. \A k \in stopper[t].mine \ stopper[t].todo : child[stopper[t].sup][Order[k]] \in {"told", "dead"}
        BY <3>2 DEF Descending
      <4>4. \A k \in stopper[t].todo : child[stopper[t].sup][Order[k]] # "told"
        BY <3>2 DEF Descending
      <4> QED BY <1>1, <1>4, <1>5, <4>1, <4>2, <4>3, <4>4
    <3>3. \A t \in Stoppers : stopper[t].todo # {} => Halting(stopper[t].sup)'
      BY <1>1, <2>1, <2>4 DEF Descending, Halting
    <3> QED BY <1>1, <3>1, <3>2, <3>3 DEF Descending
  <2>6. Covered'
    BY <1>1, <1>4, <1>5, <2>2, <2>4 DEF Covered
  <2> QED BY <2>5, <2>6
<1>8. InTurn'
  <2>1. Pressed' = Pressed /\ window.sup \in 0 .. Starts /\ (window.sup # 0 => window.sup \in Sups)
    BY <1>1, LaFields, LaNumbers DEF Pressed, Sups
  <2>2. Clean(window.sup)' => Clean(window.sup)
    BY <1>1, <1>5, <2>1
  <2>3. window.sup # 0 => (Over(window.sup) => Over(window.sup)')
    BY <1>1, <1>5, <2>1
  <2>4. \A x \in Sups : x < window.sup /\ Clean(x)' => Over(x)'
    BY <1>5, LaNumbers DEF InTurn, Sups
  <2>5. Alternate => Alternate'
    BY <1>1, <2>1, <2>3 DEF Alternate
  <2> QED BY <1>1, <2>1, <2>2, <2>4, <2>5 DEF InTurn
<1> QED BY <1>3, <1>6, <1>7, <1>8 DEF LaInv

LEMMA PressStartKeeps ==
  ASSUME LaInv, PressStart
  PROVE  LaInv'
<1>0. LauncherTypeOK /\ Unstarted /\ Spawned /\ Descending /\ Covered /\ InTurn
  BY DEF LaInv
<1> USE <1>0
<1>a. window.sup + 1 \in Sups
  BY LaWindow DEF PressStart
<1>1. PICK n \in Sups : n = window.sup + 1
  BY <1>a
<1>2. /\ n \in Nat /\ window.sup \in Nat /\ n > window.sup /\ n <= Starts
      /\ \A x \in Sups : x \in Nat /\ x >= 1 /\ (x # n => (x > n <=> x > window.sup) /\ (x < n <=> x <= window.sup))
  BY <1>1, LaWindow
<1> DEFINE r == [starter[n] EXCEPT !.pc = "clear"]
<1>3. /\ window' \in WindowRec /\ window'.sup = n /\ window'.mode = window.mode
      /\ ~window'.start /\ window'.stop
  <2>1. window.sup + 1 \in 0 .. Starts /\ window \in WindowRec
    BY <1>1, <1>2, LaWindow
  <2> QED BY <1>1, <2>1 DEF PressStart, WindowRec
<1>4. starter[n].pc = "none" /\ ~starter[n].stopping /\ starter[n].at = 1 /\ n \notin early
  BY <1>2 DEF Unstarted
<1>5. r \in StarterRec /\ r.pc = "clear" /\ r.at = 1 /\ ~r.stopping
  BY <1>4, StarterPlace
<1>6. starter' = [starter EXCEPT ![n] = r] /\ UNCHANGED <<child, stopper, early>>
  BY <1>3 DEF PressStart
<1> HIDE DEF r
<1>7. /\ starter' \in [Sups -> StarterRec] /\ starter'[n] = r
      /\ \A x \in Sups : x # n => starter'[x] = starter[x]
  BY <1>5, <1>6, StarterChanges
<1>8. LauncherTypeOK'
  BY <1>3, <1>6, <1>7, LaTypes, LaTyped
<1>9. Unstarted'
  <2>1. ASSUME NEW x \in Sups, x = n
        PROVE  /\ starter'[x].pc = "none" <=> x > window'.sup
               /\ x > window'.sup => x \notin early'
               /\ starter'[x].pc = "none" => ~starter'[x].stopping
               /\ starter'[x].pc \in {"none", "clear"} => starter'[x].at = 1
               /\ starter'[x].pc \in {"wait", "block"} => starter'[x].at <= Len(Order)
    BY <1>2, <1>3, <1>5, <1>7, <2>1
  <2>2. ASSUME NEW x \in Sups, x # n
        PROVE  /\ starter'[x].pc = "none" <=> x > window'.sup
               /\ x > window'.sup => x \notin early'
               /\ starter'[x].pc = "none" => ~starter'[x].stopping
               /\ starter'[x].pc \in {"none", "clear"} => starter'[x].at = 1
               /\ starter'[x].pc \in {"wait", "block"} => starter'[x].at <= Len(Order)
    <3>1. (x > window'.sup <=> x > window.sup) /\ starter'[x] = starter[x]
      BY <1>2, <1>3, <1>7, <2>2
    <3> QED BY <1>6, <3>1 DEF Unstarted
  <2> QED BY <2>1, <2>2 DEF Unstarted
<1>10. Spawned'
  <2>1. \A x \in Sups : Begun(x)' = Begun(x)
    BY <1>6 DEF Begun
  <2> QED BY <1>4, <1>5, <1>7, <2>1 DEF Spawned
<1>11. /\ ~Halting(n) /\ \A x \in Sups : x # n => Halting(x)' = Halting(x) /\ Over(x)' = Over(x)
       /\ ~Over(n) /\ \A x \in Sups : Begun(x)' = Begun(x)
  BY <1>4, <1>6, <1>7 DEF Halting, Over, Living, Begun
<1>12. Descending'
  <2>1. \A x \in Sups, c \in Enabled : child'[x][c] = "told" => Halting(x)'
    BY <1>6, <1>11 DEF Descending
  <2>2. ASSUME NEW t \in Stoppers, stopper[t].todo # {} PROVE Halting(stopper[t].sup)'
    <3>1. stopper[t].sup \in Sups /\ Halting(stopper[t].sup)
      BY <2>2, LaStops
    <3> QED BY <1>6, <1>11, <3>1
  <2>3. ASSUME NEW t \in Stoppers, stopper[t].pc \in {"terminate", "wait"}
        PROVE  /\ stopper[t].sup \in 1 .. window'.sup
               /\ stopper[t].mine \subseteq Begun(stopper[t].sup)'
    <3>1. /\ stopper[t].sup \in Sups /\ stopper[t].sup <= window.sup
          /\ stopper[t].mine \subseteq Begun(stopper[t].sup)
      BY <2>3, LaStops
    <3>2. \A x \in Sups : x <= window.sup => x \in 1 .. n
      BY <1>2
    <3>3. stopper[t].sup \in 1 .. window'.sup
      BY <1>3, <3>1, <3>2
    <3> QED BY <1>6, <1>11, <3>1, <3>3
  <2> QED BY <1>6, <2>1, <2>2, <2>3 DEF Descending
<1>13. Covered'
  <2> SUFFICES ASSUME NEW t \in Stoppers, stopper[t].sup \notin early \cup {0}
               PROVE  /\ stopper[t].pc \in {"terminate", "wait"} =>
                           /\ starter'[stopper[t].sup].pc = "done"
                           /\ \A k \in Begun(stopper[t].sup)' \ stopper[t].mine :
                                child[stopper[t].sup][Order[k]] = "dead"
                      /\ stopper[t].pc = "ended" => Over(stopper[t].sup)'
    BY <1>6 DEF Covered
  <2>1. stopper[t].sup \in Sups
    BY LaStops
  <2>2. stopper[t].pc \in {"terminate", "wait", "ended"} => stopper[t].sup # n
    BY <1>4, <1>11, <2>1 DEF Covered
  <2> QED BY <1>6, <1>7, <1>11, <2>1, <2>2 DEF Covered
<1>14. InTurn'
  <2>1. Pressed' = Pressed
    BY <1>6 DEF Pressed
  <2>2. \A m \in Nat : m <= n /\ Clean(m)' => Clean(m)
    BY <1>2, <1>4, <1>6, <1>7, LaWindow DEF Clean
  <2>3. Clean(window.sup)' <=> Clean(n)'
    BY <1>3 DEF Clean
  <2>4. Clean(n) => Clean(window.sup)
    BY <1>2 DEF Clean
  <2>5. /\ window.mode = "headless" => window.sup = 0
        /\ window.mode = "gui" => Clickable /\ window.start /\ stopper[0].pc = "idle"
    BY DEF PressStart, Startable, Clickable
  <2>6. Clean(window.sup)' /\ window.mode = "gui" => Alternate /\ Pressed = {}
    BY <1>2, <2>2, <2>3, <2>4, <2>5 DEF InTurn, Alternate
  <2>7. ASSUME NEW x \in Sups, x < n, Clean(x)' PROVE Over(x)'
    <3>1. x \in Nat /\ x <= window.sup /\ x # n /\ Clean(x) /\ 1 <= x
      BY <1>2, <2>2, <2>7
    <3>2. CASE x < window.sup
      BY <1>11, <3>1, <3>2 DEF InTurn
    <3>3. CASE x = window.sup
      <4>1. window.mode # "headless" /\ window.mode = "gui"
        BY <1>2, <2>5, <3>1, <3>3, LaWindow DEF WindowRec
      <4>2. Alternate /\ window.start
        BY <2>5, <3>1, <3>3, <4>1 DEF InTurn
      <4> QED BY <1>11, <3>1, <3>3, <4>2 DEF Alternate
    <3> QED BY <1>2, <3>1, <3>2, <3>3
  <2>8. Clean(window.sup)' /\ window.mode = "gui" => Alternate'
    <3>1. window'.sup = n /\ ~window'.start /\ window'.stop /\ ~starter'[n].stopping
      BY <1>3, <1>5, <1>7
    <3>2. Pressed = {} => Alternate'
      BY <2>1, <3>1 DEF Alternate
    <3> QED BY <2>6, <3>2
  <2>9. window.mode = "headless" => n <= 1 /\ Pressed = {}
    BY <1>1, <2>5 DEF InTurn
  <2> QED BY <1>2, <1>3, <2>1, <2>7, <2>8, <2>9 DEF InTurn
<1> QED BY <1>8, <1>9, <1>10, <1>12, <1>13, <1>14 DEF LaInv
-----------------------------------------------------------------------------
(* Steps of a stop thread that has nothing left to do, and of the window.     *)

Turns(t, r) ==
  /\ stopper' = [stopper EXCEPT ![t] = r] /\ UNCHANGED <<starter, child, early>>
  /\ r.todo = {} /\ r.sup = 0 /\ r.pc \in {"called", "ended", "gone"}
  /\ window' \in WindowRec /\ window'.mode = window.mode /\ window'.sup = window.sup

LEMMA RunsRest ==
  ASSUME UNCHANGED <<starter, child, early>>
  PROVE  /\ \A s \in Sups : /\ Over(s)' <=> Over(s)
                            /\ Begun(s)' = Begun(s)
                            /\ Halting(s)' <=> Halting(s)
         /\ \A n \in Nat : Clean(n)' <=> Clean(n)
  BY DEF Over, Living, Begun, Halting, Clean

LEMMA StopTurns ==
  ASSUME LaInv, NEW t \in Stoppers, NEW r \in StopperRec, Turns(t, r)
  PROVE  /\ LauncherTypeOK' /\ Unstarted' /\ Spawned' /\ Descending' /\ Covered'
         /\ stopper'[t] = r /\ \A u \in Stoppers : u # t => stopper'[u] = stopper[u]
<1>0. LauncherTypeOK /\ Unstarted /\ Spawned /\ Descending /\ Covered /\ InTurn
  BY DEF LaInv
<1>1. /\ stopper' \in [Stoppers -> StopperRec] /\ stopper'[t] = r
      /\ \A u \in Stoppers : u # t => stopper'[u] = stopper[u]
  BY <1>0, StopperMoves DEF Turns
<1>2. /\ UNCHANGED <<starter, child, early>> /\ window'.sup = window.sup /\ window' \in WindowRec
      /\ r.todo = {} /\ r.sup = 0 /\ r.pc \in {"called", "ended", "gone"}
  BY DEF Turns
<1>3. LauncherTypeOK'
  BY <1>0, <1>1, <1>2, LaTypes, LaTyped
<1>4. /\ \A s \in Sups : (Over(s)' <=> Over(s)) /\ Begun(s)' = Begun(s) /\ (Halting(s)' <=> Halting(s))
  BY <1>2, RunsRest
<1>5. Unstarted' /\ Spawned'
  BY <1>0, <1>2, <1>4 DEF Unstarted, Spawned
<1>6. Descending'
  <2>1. \A x \in Sups, c \in Enabled : child'[x][c] = "told" => Halting(x)'
    BY <1>0, <1>2, <1>4 DEF Descending
  <2>2. ASSUME NEW u \in Stoppers, u # t
        PROVE  /\ stopper[u].todo # {} => stopper[u].sup \in Sups /\ Halting(stopper[u].sup)
               /\ stopper[u].pc \in {"terminate", "wait"} => stopper[u].sup \in Sups
    BY LaStops
  <2>3. ASSUME NEW u \in Stoppers, NEW s \in Sups, u # t, stopper[u].sup = s
        PROVE  /\ stopper'[u].sup = s /\ Begun(s)' = Begun(s) /\ (Halting(s)' <=> Halting(s))
               /\ stopper'[u].todo = stopper[u].todo /\ stopper'[u].mine = stopper[u].mine
               /\ stopper'[u].pc = stopper[u].pc /\ child'[s] = child[s]
    BY <1>1, <1>2, <1>4, <2>3
  <2>4. ASSUME NEW u \in Stoppers, stopper'[u].pc \in {"terminate", "wait"}, NEW s, stopper'[u].sup = s
        PROVE  /\ s \in 1 .. window'.sup /\ stopper'[u].mine \subseteq Begun(s)'
               /\ stopper'[u].todo \subseteq stopper'[u].mine
               /\ \A k \in stopper'[u].mine \ stopper'[u].todo :
                    child'[s][Order[k]] \in {"told", "dead"} /\ \A j \in stopper'[u].todo : j < k
               /\ \A k \in stopper'[u].todo : child'[s][Order[k]] # "told"
    <3>1. u # t /\ stopper'[u] = stopper[u]
      BY <1>1, <1>2, <2>4
    <3>2. s \in Sups /\ stopper[u].sup = s /\ stopper[u].pc \in {"terminate", "wait"}
      BY <2>2, <2>4, <3>1
    <3>3. /\ s \in 1 .. window.sup /\ stopper[u].mine \subseteq Begun(s)
          /\ stopper[u].todo \subseteq stopper[u].mine
          /\ \A k \in stopper[u].mine \ stopper[u].todo :
               child[s][Order[k]] \in {"told", "dead"} /\ \A j \in stopper[u].todo : j < k
          /\ \A k \in stopper[u].todo : child[s][Order[k]] # "told"
      BY <1>0, <3>2 DEF Descending
    <3> QED BY <1>2, <1>4, <3>1, <3>2, <3>3
  <2>5. ASSUME NEW u \in Stoppers
        PROVE  /\ stopper'[u].pc # "terminate" => stopper'[u].todo = {}
               /\ stopper'[u].pc \in {"idle", "called", "gone"} => stopper'[u].sup = 0
    BY <1>0, <1>1, <1>2 DEF Descending
  <2>6. ASSUME NEW u \in Stoppers, stopper'[u].todo # {}, NEW s, stopper'[u].sup = s PROVE Halting(s)'
    BY <1>1, <1>2, <1>4, <2>2, <2>6
  <2>7. ASSUME NEW u \in Stoppers, NEW v \in Stoppers, stopper'[u].todo # {}, stopper'[v].todo # {},
               stopper'[u].sup = stopper'[v].sup
        PROVE  u = v
    BY <1>0, <1>1, <1>2, <2>7 DEF Descending
  <2> QED BY <2>1, <2>4, <2>5, <2>6, <2>7 DEF Descending
<1>7. Covered'
  <2>1. ASSUME NEW u \in Stoppers, NEW s, s = stopper'[u].sup, s \notin early \cup {0}
        PROVE  /\ stopper'[u].pc \in {"terminate", "wait"} =>
                    starter[s].pc = "done" /\ \A k \in Begun(s)' \ stopper'[u].mine : child[s][Order[k]] = "dead"
               /\ stopper'[u].pc = "ended" => Over(s)'
    <3>1. u # t /\ stopper'[u] = stopper[u] /\ stopper[u].sup = s
      BY <1>1, <1>2, <2>1
    <3>2. s \in Sups
      BY <2>1, <3>1, LaStops
    <3>3. /\ stopper[u].pc \in {"terminate", "wait"} =>
               starter[s].pc = "done" /\ \A k \in Begun(s) \ stopper[u].mine : child[s][Order[k]] = "dead"
          /\ stopper[u].pc = "ended" => Over(s)
      BY <1>0, <2>1, <3>1 DEF Covered
    <3> QED BY <1>4, <3>1, <3>2, <3>3
  <2> QED BY <1>2, <2>1 DEF Covered
<1> QED BY <1>1, <1>3, <1>5, <1>6, <1>7

LEMMA PressStopKeeps ==
  ASSUME LaInv, NEW t \in Stoppers, PressStop(t)
  PROVE  LaInv'
<1> DEFINE r == [stopper[t] EXCEPT !.pc = "called"]
<1>0. InTurn /\ LauncherTypeOK /\ Descending
  BY DEF LaInv
<1>1. /\ stopper[t].pc = "idle" /\ t # 0 /\ Clickable /\ window.stop /\ window.mode = "gui"
      /\ stopper[0].pc = "idle" /\ stopper[t].sup = 0 /\ stopper[t].todo = {}
  BY <1>0 DEF PressStop, Clickable, Descending
<1>2. r \in StopperRec /\ r.pc = "called" /\ r.sup = 0 /\ r.todo = {}
  BY <1>0, <1>1, LaTypes DEF StopperRec
<1>3. /\ window' \in WindowRec /\ window'.mode = window.mode /\ window'.sup = window.sup
      /\ window'.start = window.start /\ ~window'.stop
  BY LaWindow DEF PressStop, WindowRec
<1>4. stopper' = [stopper EXCEPT ![t] = r] /\ UNCHANGED <<starter, child, early>>
  BY DEF PressStop
<1> HIDE DEF r
<1>5. Turns(t, r)
  BY <1>2, <1>3, <1>4 DEF Turns
<1>6. /\ LauncherTypeOK' /\ Unstarted' /\ Spawned' /\ Descending' /\ Covered'
      /\ stopper'[t] = r /\ \A u \in Stoppers : u # t => stopper'[u] = stopper[u]
  BY <1>2, <1>5, StopTurns
<1>7. /\ \A s \in Sups : Over(s)' <=> Over(s)
      /\ \A n \in Nat : Clean(n)' <=> Clean(n)
  BY <1>4, RunsRest
<1>8. window.sup # 0 /\ window.sup \in Sups /\ window.sup \in Nat
  BY <1>0, <1>1, LaWindow DEF InTurn
<1>9. Clean(window.sup)' => Alternate /\ Pressed = {}
  BY <1>0, <1>1, <1>3, <1>7, <1>8 DEF InTurn, Alternate
<1>10. Clean(window.sup)' => Alternate'
  <2>1. Pressed = {} => Pressed' = {t}
    BY <1>1, <1>2, <1>6 DEF Pressed
  <2>2. SUFFICES ASSUME Alternate, Pressed' = {t} PROVE Alternate'
    BY <1>9, <2>1
  <2>3. ~window.start /\ ~starter[window.sup].stopping /\ starter' = starter
    BY <1>1, <1>4, <2>2 DEF Alternate
  <2> QED BY <1>2, <1>3, <1>6, <1>8, <2>2, <2>3 DEF Alternate
<1>11. InTurn'
  <2>1. \A s \in Sups : s < window'.sup /\ Clean(s)' => Over(s)'
    BY <1>0, <1>3, <1>7, LaWindow DEF InTurn
  <2> QED BY <1>1, <1>3, <1>8, <1>10, <2>1 DEF InTurn
<1> QED BY <1>6, <1>11 DEF LaInv

LEMMA CloseKeeps ==
  ASSUME LaInv, Close
  PROVE  LaInv'
<1>0. InTurn /\ LauncherTypeOK /\ Descending /\ Unstarted /\ Spawned /\ Covered /\ 0 \in Stoppers
  BY LaNumbers DEF LaInv
<1>1. CASE stopper' = [stopper EXCEPT ![0].pc = "called"] /\ UNCHANGED window
  <2> DEFINE r == [stopper[0] EXCEPT !.pc = "called"]
  <2>1. /\ stopper[0].pc = "idle" /\ stopper[0].sup = 0 /\ stopper[0].todo = {}
    BY <1>0 DEF Close, Descending
  <2>2. r \in StopperRec /\ r.pc = "called" /\ r.sup = 0 /\ r.todo = {}
    BY <1>0, <2>1, LaTypes DEF StopperRec
  <2>3. stopper' = [stopper EXCEPT ![0] = r] /\ UNCHANGED <<starter, child, early>>
    BY <1>1 DEF Close
  <2>4. window.sup # 0
    <3>1. window.mode = "headless" => ~Clickable
      BY DEF Clickable
    <3>2. CASE window.mode = "headless"
      BY <3>1, <3>2 DEF Close
    <3>3. CASE IsRunning(window.sup)
      BY <3>3 DEF IsRunning
    <3>4. CASE ~(window.mode = "headless" \/ IsRunning(window.sup))
      <4>1. window' = [window EXCEPT !.open = FALSE] /\ window.open
        BY <3>4 DEF Close
      <4>2. window'.open # window.open
        BY <4>1, LaWindow DEF WindowRec
      <4> QED BY <1>1, <4>2
    <3> QED BY <3>2, <3>3, <3>4
  <2> HIDE DEF r
  <2>5. Turns(0, r)
    BY <1>1, <2>2, <2>3, LaWindow DEF Turns
  <2>6. /\ LauncherTypeOK' /\ Unstarted' /\ Spawned' /\ Descending' /\ Covered'
        /\ stopper'[0] = r
    BY <1>0, <2>2, <2>5, StopTurns
  <2>7. Pressed' = Pressed
    BY <1>0, <2>2, <2>5, StopTurns DEF Pressed
  <2>8. InTurn'
    <3>1. \A s \in Sups : s < window'.sup /\ Clean(s)' => Over(s)'
      BY <1>0, <1>1, <2>3, RunsRest, LaWindow DEF InTurn
    <3>2. stopper'[0].pc # "idle"
      BY <2>2, <2>6
    <3>3. window'.mode = "headless" => window'.sup <= 1 /\ Pressed' = {}
      BY <1>0, <1>1, <2>7 DEF InTurn
    <3> QED BY <1>1, <2>4, <3>1, <3>2, <3>3 DEF InTurn
  <2> QED BY <2>6, <2>8 DEF LaInv
<1>2. CASE window' = [window EXCEPT !.open = FALSE] /\ UNCHANGED stopper
  <2>1. UNCHANGED <<starter, child, early, stopper>>
    BY <1>2 DEF Close
  <2>2. /\ window' \in WindowRec /\ window'.mode = window.mode /\ window'.sup = window.sup
        /\ window'.start = window.start /\ window'.stop = window.stop
    BY <1>2, LaWindow DEF WindowRec
  <2>3. LauncherTypeOK'
    BY <1>0, <2>1, <2>2, LaTypes, LaTyped
  <2>4. Unstarted' /\ Spawned' /\ Descending' /\ Covered'
    BY <1>0, <2>1, <2>2 DEF Unstarted, Spawned, Descending, Covered, Begun, Halting, Over, Living
  <2>5. InTurn'
    <3>1. Alternate' <=> Alternate
      BY <2>1, <2>2 DEF Alternate, Pressed, Over, Living
    <3>2. \A s \in Sups : s < window'.sup /\ Clean(s)' => Over(s)'
      BY <1>0, <2>1, <2>2, RunsRest, LaWindow DEF InTurn
    <3>3. Pressed' = Pressed /\ (Clean(window.sup)' <=> Clean(window.sup))
      BY <2>1, <2>2 DEF Pressed, Clean
    <3> QED BY <1>0, <2>1, <2>2, <3>1, <3>2, <3>3 DEF InTurn
  <2> QED BY <2>3, <2>4, <2>5 DEF LaInv
<1> QED BY <1>1, <1>2 DEF Close

LEMMA EndStopKeeps ==
  ASSUME LaInv, NEW t \in Stoppers, EndStop(t)
  PROVE  LaInv'
<1> DEFINE r == [NoStop EXCEPT !.pc = "gone"]
<1>0. InTurn /\ LauncherTypeOK /\ Descending /\ Covered
  BY DEF LaInv
<1>1. r \in StopperRec /\ r.pc = "gone" /\ r.sup = 0 /\ r.todo = {}
  BY LaNumbers DEF StopperRec, NoStop
<1>2. /\ stopper[t].pc = "ended"
      /\ stopper' = [stopper EXCEPT ![t] = r] /\ UNCHANGED <<starter, child, early>>
  BY DEF EndStop
<1> HIDE DEF r
<1>3. /\ window' \in WindowRec /\ window'.mode = window.mode /\ window'.sup = window.sup
      /\ IF t = 0 THEN window'.start = window.start /\ window'.stop = window.stop
                  ELSE window'.start /\ ~window'.stop
  BY LaWindow DEF EndStop, WindowRec
<1>4. Turns(t, r)
  BY <1>1, <1>2, <1>3 DEF Turns
<1>5. /\ LauncherTypeOK' /\ Unstarted' /\ Spawned' /\ Descending' /\ Covered'
      /\ stopper'[t] = r /\ \A u \in Stoppers : u # t => stopper'[u] = stopper[u]
  BY <1>1, <1>4, StopTurns
<1>6. Pressed' = Pressed \ {t}
  BY <1>1, <1>2, <1>5 DEF Pressed
<1>7. /\ \A s \in Sups : s < window'.sup /\ Clean(s)' => Over(s)'
      /\ Clean(window.sup)' <=> Clean(window.sup)
  BY <1>0, <1>2, <1>3, RunsRest, LaWindow DEF InTurn
<1>8. (\E u \in Stoppers : stopper'[u].pc = "called") => \E u \in Stoppers : stopper[u].pc = "called"
  BY <1>1, <1>5
<1>9. ASSUME window.mode = "gui", stopper'[0].pc = "idle", Clean(window.sup) PROVE Alternate'
  <2>1. t # 0 /\ stopper[0].pc = "idle" /\ Alternate
    BY <1>0, <1>1, <1>5, <1>9, LaNumbers DEF InTurn
  <2>2. t \in Pressed /\ stopper[t].sup = window.sup /\ Pressed = {t} /\ window.sup # 0
    <3>1. t \in Pressed
      BY <1>2, <2>1 DEF Pressed
    <3> QED BY <1>2, <2>1, <3>1 DEF Alternate
  <2>3. window.sup \notin early /\ window.sup \in Sups
    BY <1>9, <2>2, LaWindow DEF Clean
  <2>4. Over(window.sup)
    BY <1>0, <1>2, <2>2, <2>3 DEF Covered
  <2>5. Over(window.sup)' /\ Pressed' = {}
    BY <1>2, <1>3, <1>6, <2>2, <2>4 DEF Over, Living
  <2> QED BY <1>3, <2>1, <2>5 DEF Alternate
<1>10. window'.stop => window.stop
  BY <1>3
<1>11. window'.mode = "headless" => window'.sup <= 1 /\ Pressed' = {}
  BY <1>0, <1>3, <1>6 DEF InTurn
<1>12. InTurn'
  BY <1>0, <1>3, <1>7, <1>8, <1>9, <1>10, <1>11 DEF InTurn
<1> QED BY <1>5, <1>12 DEF LaInv

LEMMA BeginStopKeeps ==
  ASSUME LaInv, NEW t \in Stoppers, BeginStop(t)
  PROVE  LaInv'
<1>0. InTurn /\ LauncherTypeOK /\ Descending /\ Unstarted /\ Spawned /\ Covered
  BY DEF LaInv
<1>1. /\ stopper[t].pc = "called" /\ stopper[t].todo = {} /\ stopper[t].sup = 0 /\ window' = window
      /\ child' = child
  BY <1>0 DEF BeginStop, Descending
<1>2. window.sup \in Sups /\ window.sup # 0 /\ window.sup \in Nat
  BY <1>0, <1>1, LaWindow DEF InTurn
<1>3. PICK s \in Sups : s = window.sup
  BY <1>2
<1>4. starter[s].pc # "none" /\ s \in 1 .. window.sup
  BY <1>0, <1>3, LaWindow DEF Unstarted
<1>5. CASE starter[s].stopping
  <2> DEFINE r == [stopper[t] EXCEPT !.pc = "ended"]
  <2>1. r \in StopperRec /\ r.pc = "ended" /\ r.sup = 0 /\ r.todo = {}
    BY <1>0, <1>1, LaTypes DEF StopperRec
  <2>2. stopper' = [stopper EXCEPT ![t] = r] /\ UNCHANGED <<starter, child, early>>
    BY <1>3, <1>5 DEF BeginStop
  <2> HIDE DEF r
  <2>3. Turns(t, r)
    BY <1>1, <2>1, <2>2, LaWindow DEF Turns
  <2>4. /\ LauncherTypeOK' /\ Unstarted' /\ Spawned' /\ Descending' /\ Covered'
        /\ stopper'[t] = r /\ \A u \in Stoppers : u # t => stopper'[u] = stopper[u]
    BY <2>1, <2>3, StopTurns
  <2>5. Pressed' = Pressed /\ (Clean(window.sup)' <=> Clean(window.sup))
    BY <1>1, <2>1, <2>2, <2>4 DEF Pressed, Clean
  <2>6. \A x \in Sups : x < window'.sup /\ Clean(x)' => Over(x)'
    BY <1>0, <1>1, <2>2, RunsRest, LaWindow DEF InTurn
  <2>7. window.mode = "gui" /\ stopper'[0].pc = "idle" => ~Clean(window.sup)
    <3> SUFFICES ASSUME window.mode = "gui", stopper'[0].pc = "idle", Clean(window.sup) PROVE FALSE
      OBVIOUS
    <3>1. t # 0 /\ stopper[0].pc = "idle" /\ Alternate
      BY <1>0, <2>1, <2>4, LaNumbers DEF InTurn
    <3>2. t \in Pressed
      BY <1>1, <3>1 DEF Pressed
    <3> QED BY <1>1, <1>3, <1>5, <3>1, <3>2 DEF Alternate
  <2>8. InTurn'
    BY <1>0, <1>1, <1>2, <2>5, <2>6, <2>7 DEF InTurn
  <2> QED BY <2>4, <2>8 DEF LaInv
<1>6. CASE ~starter[s].stopping
  <2> DEFINE r == [pc |-> "terminate", sup |-> s, todo |-> Begun(s), mine |-> Begun(s)]
             q == [starter[s] EXCEPT !.stopping = TRUE]
  <2>1. r \in StopperRec /\ r.pc = "terminate" /\ r.sup = s /\ r.todo = Begun(s) /\ r.mine = Begun(s)
    BY <1>0, <1>3, LaFields DEF StopperRec
  <2>2. /\ q \in StarterRec /\ q.pc = starter[s].pc /\ q.at = starter[s].at /\ q.stopping
    BY <1>0, LaFields DEF StarterRec
  <2>3. /\ stopper' = [stopper EXCEPT ![t] = r] /\ starter' = [starter EXCEPT ![s] = q]
        /\ early' = IF starter[s].pc = "done" THEN early ELSE early \cup {s}
    BY <1>3, <1>6 DEF BeginStop
  <2> HIDE DEF r, q
  <2>4. /\ stopper' \in [Stoppers -> StopperRec] /\ stopper'[t] = r
        /\ \A u \in Stoppers : u # t => stopper'[u] = stopper[u]
    BY <1>0, <2>1, <2>3, StopperMoves
  <2>5. /\ starter' \in [Sups -> StarterRec] /\ starter'[s] = q
        /\ \A x \in Sups : x # s => starter'[x] = starter[x]
    BY <1>0, <2>2, <2>3, StarterChanges
  <2>6. LauncherTypeOK'
    <3>1. early' \subseteq Sups /\ window' \in WindowRec /\ child' \in [Sups -> [Enabled -> Fates]]
      BY <1>0, <1>1, <2>3, LaTypes
    <3> QED BY <2>4, <2>5, <3>1, LaTyped
  <2>7. /\ \A x \in Sups : starter'[x].pc = starter[x].pc /\ starter'[x].at = starter[x].at
        /\ \A x \in Sups : (starter'[x].stopping <=> starter[x].stopping \/ x = s)
        /\ early \subseteq early' /\ \A x \in early' : x \in early \/ (x = s /\ starter[s].pc # "done")
    BY <1>6, <2>2, <2>3, <2>5
  <2>8. /\ \A x \in Sups : Begun(x)' = Begun(x) /\ (Over(x)' <=> Over(x))
        /\ \A n \in 0 .. Starts : Clean(n)' => Clean(n)
    <3>1. \A x \in Sups : Begun(x)' = Begun(x) /\ (Over(x)' <=> Over(x))
      BY <1>1, <2>7 DEF Begun, Over, Living
    <3>2. \A n \in 0 .. Starts : Clean(n)' => Clean(n)
      BY <1>0, <1>1, <2>7, RunsStand
    <3> QED BY <3>1, <3>2
  <2>9. Unstarted' /\ Spawned'
    <3>1. Unstarted'
      BY <1>0, <1>1, <1>4, <2>7, LaWindow DEF Unstarted
    <3> QED BY <1>0, <2>7, <2>8, <3>1 DEF Spawned
  <2>10. /\ \A x \in Sups : Halting(x) => Halting(x)'
         /\ ~Halting(s) /\ (Begun(s) # {} => Halting(s)')
    <3>1. Begun(s) # {} => starter[s].pc # "clear"
      <4>1. \A k \in Begun(s) : k \in Nat /\ k >= 1
        BY <1>0, LaFields, LaNumbers
      <4> QED BY <1>0, <4>1 DEF Unstarted, Spawned
    <3> QED BY <1>4, <1>6, <2>7, <3>1 DEF Halting
  <2>11. \A k \in Begun(s) : child[s][Order[k]] # "told"
    <3>1. \A k \in Begun(s) : Order[k] \in Enabled
      BY <1>0, LaFields, LaNumbers
    <3> QED BY <1>0, <2>10, <3>1 DEF Descending
  <2>12. Descending'
    <3>1. \A x \in Sups, c \in Enabled : child'[x][c] = "told" => Halting(x)'
      BY <1>0, <1>1, <2>10 DEF Descending
    <3>2. ASSUME NEW u \in Stoppers, stopper'[u].pc \in {"terminate", "wait"}, NEW x, stopper'[u].sup = x
          PROVE  /\ x \in 1 .. window'.sup /\ stopper'[u].mine \subseteq Begun(x)'
                 /\ stopper'[u].todo \subseteq stopper'[u].mine
                 /\ \A k \in stopper'[u].mine \ stopper'[u].todo :
                      child'[x][Order[k]] \in {"told", "dead"} /\ \A j \in stopper'[u].todo : j < k
                 /\ \A k \in stopper'[u].todo : child'[x][Order[k]] # "told"
      <4>1. CASE u = t
        BY <1>1, <1>4, <2>1, <2>4, <2>8, <2>11, <3>2, <4>1
      <4>2. CASE u # t
        <5>1. x \in Sups /\ stopper'[u] = stopper[u] /\ stopper[u].sup = x
          BY <2>4, <3>2, <4>2, LaStops
        <5>2. /\ x \in 1 .. window.sup /\ stopper[u].mine \subseteq Begun(x)
              /\ stopper[u].todo \subseteq stopper[u].mine
              /\ \A k \in stopper[u].mine \ stopper[u].todo :
                   child[x][Order[k]] \in {"told", "dead"} /\ \A j \in stopper[u].todo : j < k
              /\ \A k \in stopper[u].todo : child[x][Order[k]] # "told"
          BY <1>0, <3>2, <5>1 DEF Descending
        <5> QED BY <1>1, <2>8, <5>1, <5>2
      <4> QED BY <4>1, <4>2
    <3>3. ASSUME NEW u \in Stoppers
          PROVE  /\ stopper'[u].pc # "terminate" => stopper'[u].todo = {}
                 /\ stopper'[u].pc \in {"idle", "called", "gone"} => stopper'[u].sup = 0
      BY <1>0, <2>1, <2>4 DEF Descending
    <3>4. ASSUME NEW u \in Stoppers, stopper'[u].todo # {}
          PROVE  \/ u = t /\ stopper'[u].sup = s /\ Begun(s) # {}
                 \/ /\ u # t /\ stopper'[u] = stopper[u] /\ stopper[u].todo # {}
                    /\ stopper[u].sup \in Sups /\ Halting(stopper[u].sup)
      BY <2>1, <2>4, <3>4, LaStops
    <3>5. ASSUME NEW u \in Stoppers, stopper'[u].todo # {}, NEW x, stopper'[u].sup = x PROVE Halting(x)'
      BY <2>10, <3>4, <3>5
    <3>6. ASSUME NEW u \in Stoppers, NEW v \in Stoppers, stopper'[u].todo # {}, stopper'[v].todo # {},
                 stopper'[u].sup = stopper'[v].sup
          PROVE  u = v
      <4>1. ASSUME NEW y \in Stoppers, y # t, stopper'[y].todo # {} PROVE stopper'[y].sup # s
        BY <2>10, <3>4, <4>1
      <4>2. u # t /\ v # t => stopper[u] = stopper'[u] /\ stopper[v] = stopper'[v]
        BY <2>4
      <4> QED BY <1>0, <2>1, <2>4, <3>6, <4>1, <4>2 DEF Descending
    <3> QED BY <3>1, <3>2, <3>3, <3>5, <3>6 DEF Descending
  <2>13. Covered'
    <3>1. ASSUME NEW u \in Stoppers, NEW x, x = stopper'[u].sup, x \notin early' \cup {0}
          PROVE  /\ stopper'[u].pc \in {"terminate", "wait"} =>
                      starter'[x].pc = "done" /\ \A k \in Begun(x)' \ stopper'[u].mine : child'[x][Order[k]] = "dead"
                 /\ stopper'[u].pc = "ended" => Over(x)'
      <4>1. CASE u = t
        <5>1. starter[s].pc = "done" /\ x = s /\ stopper'[u] = r
          BY <2>1, <2>3, <2>4, <3>1, <4>1
        <5> QED BY <2>1, <2>7, <2>8, <5>1
      <4>2. CASE u # t
        <5>1. x \in Sups /\ stopper'[u] = stopper[u] /\ stopper[u].sup = x /\ x \notin early
          BY <2>4, <2>7, <3>1, <4>2, LaStops
        <5>2. /\ stopper[u].pc \in {"terminate", "wait"} =>
                   starter[x].pc = "done" /\ \A k \in Begun(x) \ stopper[u].mine : child[x][Order[k]] = "dead"
              /\ stopper[u].pc = "ended" => Over(x)
          BY <1>0, <3>1, <5>1 DEF Covered
        <5> QED BY <1>1, <2>7, <2>8, <5>1, <5>2
      <4> QED BY <4>1, <4>2
    <3> QED BY <3>1 DEF Covered
  <2>14. InTurn'
    <3>1. Pressed' = Pressed
      BY <1>1, <2>1, <2>4 DEF Pressed
    <3>2. Clean(window.sup)' => Clean(window.sup)
      BY <1>1, <1>3, <2>8, LaWindow DEF Sups
    <3>3. \A x \in Sups : x < window'.sup /\ Clean(x)' => Over(x)'
      BY <1>0, <1>1, <2>8, LaWindow DEF InTurn, Sups
    <3>4. ASSUME window.mode = "gui", stopper'[0].pc = "idle", Clean(window.sup) PROVE Alternate'
      <4>1. t # 0 /\ stopper[0].pc = "idle" /\ Alternate
        BY <1>0, <2>1, <2>4, <3>4, LaNumbers DEF InTurn
      <4>2. t \in Pressed
        BY <1>1, <4>1 DEF Pressed
      <4>3. Pressed = {t} /\ ~window.start /\ ~window.stop
        BY <4>1, <4>2 DEF Alternate
      <4> QED BY <1>1, <1>2, <1>3, <2>1, <2>4, <3>1, <4>3 DEF Alternate
    <3> QED BY <1>0, <1>1, <1>2, <3>1, <3>2, <3>3, <3>4 DEF InTurn
  <2> QED BY <2>6, <2>9, <2>12, <2>13, <2>14 DEF LaInv
<1> QED BY <1>5, <1>6

\* A stop thread at work on the processes of its run: those of the places K it
\* tells to end, others it kills.
Works(t, r, K) ==
  /\ stopper' = [stopper EXCEPT ![t] = r] /\ UNCHANGED <<window, starter, early>>
  /\ r.sup = stopper[t].sup /\ r.mine = stopper[t].mine /\ r.todo = stopper[t].todo \ K
  /\ stopper[t].pc \in {"terminate", "wait"} /\ r.pc \in {"terminate", "wait", "ended"}
  /\ r.pc # "terminate" => r.todo = {}
  /\ K \subseteq stopper[t].todo
  /\ \A j \in stopper[t].todo \ K, k \in K : j < k
  /\ \A x \in Sups, j \in DOMAIN Order :
       \/ child'[x][Order[j]] = child[x][Order[j]] /\ (x = stopper[t].sup /\ j \in K => child[x][Order[j]] = "dead")
       \/ child[x][Order[j]] # "none" /\ child'[x][Order[j]] = "dead"
       \/ x = stopper[t].sup /\ j \in K /\ child[x][Order[j]] \in Ongoing /\ child'[x][Order[j]] = "told"
  /\ r.pc = "ended" => \A k \in stopper[t].mine : child'[stopper[t].sup][Order[k]] = "dead"

LEMMA StopperWorks ==
  ASSUME LaInv, NEW t \in Stoppers, NEW r \in StopperRec, NEW K \in SUBSET (DOMAIN Order), Works(t, r, K),
         child' \in [Sups -> [Enabled -> Fates]]
  PROVE  LaInv'
<1>0. InTurn /\ LauncherTypeOK /\ Descending /\ Unstarted /\ Spawned /\ Covered
  BY DEF LaInv
<1>1. /\ UNCHANGED <<window, starter, early>>
      /\ stopper[t].pc \in {"terminate", "wait"} /\ r.pc \in {"terminate", "wait", "ended"}
      /\ r.pc # "terminate" => r.todo = {}
      /\ K \subseteq stopper[t].todo /\ r.mine = stopper[t].mine /\ r.todo = stopper[t].todo \ K
      /\ \A j \in stopper[t].todo \ K, k \in K : j < k
  BY DEF Works
<1>2. PICK s \in Sups : stopper[t].sup = s
  BY <1>1, LaStops
<1>3. /\ s # 0 /\ s <= window.sup /\ r.sup = s /\ stopper[t].mine \subseteq Begun(s)
      /\ stopper[t].todo \subseteq stopper[t].mine /\ stopper[t].mine \subseteq DOMAIN Order
  BY <1>1, <1>2, LaStops DEF Works
<1>4. /\ stopper' \in [Stoppers -> StopperRec] /\ stopper'[t] = r
      /\ \A u \in Stoppers : u # t => stopper'[u] = stopper[u]
  BY <1>0, StopperMoves DEF Works
<1>5. \A x \in Sups, j \in DOMAIN Order :
        \/ child'[x][Order[j]] = child[x][Order[j]] /\ (x = s /\ j \in K => child[x][Order[j]] = "dead")
        \/ child[x][Order[j]] # "none" /\ child'[x][Order[j]] = "dead"
        \/ x = s /\ j \in K /\ child[x][Order[j]] \in Ongoing /\ child'[x][Order[j]] = "told"
  BY <1>2 DEF Works
<1>6. /\ \A x \in Sups, c \in Enabled : /\ child'[x][c] = "none" <=> child[x][c] = "none"
                                        /\ child'[x][c] \in Ongoing => child[x][c] \in Ongoing
                                        /\ child'[x][c] = "told" => child[x][c] = "told" \/ (x = s /\ K # {})
      /\ \A x \in Sups, j \in DOMAIN Order :
           /\ child[x][Order[j]] = "dead" => child'[x][Order[j]] = "dead"
           /\ child[x][Order[j]] \in {"told", "dead"} => child'[x][Order[j]] \in {"told", "dead"}
  BY <1>5, LaNumbers DEF Ongoing
<1>7. LauncherTypeOK'
  BY <1>0, <1>1, <1>4, LaTypes, LaTyped
<1>8. /\ \A x \in Sups : Begun(x)' = Begun(x) /\ (Over(x) => Over(x)') /\ (Halting(x)' <=> Halting(x))
      /\ \A n \in 0 .. Starts : Clean(n)' <=> Clean(n)
  <2>1. \A x \in Sups : Begun(x)' = Begun(x) /\ (Over(x) => Over(x)')
    BY <1>0, <1>1, <1>6, RunsStand
  <2>2. \A x \in Sups : Halting(x)' <=> Halting(x)
    BY <1>1 DEF Halting
  <2>3. \A n \in 0 .. Starts : Clean(n)' <=> Clean(n)
    BY <1>1 DEF Clean
  <2> QED BY <2>1, <2>2, <2>3
<1>9. Unstarted' /\ Spawned'
  BY <1>0, <1>1, <1>8 DEF Unstarted, Spawned
<1>10. K # {} => Halting(s)
  BY <1>1, <1>2, LaStops
<1>11. Descending'
  <2>1. \A x \in Sups, c \in Enabled : child'[x][c] = "told" => Halting(x)'
    BY <1>0, <1>6, <1>8, <1>10 DEF Descending
  <2>2. ASSUME NEW u \in Stoppers, stopper'[u].pc \in {"terminate", "wait"}, NEW x, stopper'[u].sup = x
        PROVE  /\ x \in 1 .. window'.sup /\ stopper'[u].mine \subseteq Begun(x)'
               /\ stopper'[u].todo \subseteq stopper'[u].mine
               /\ \A k \in stopper'[u].mine \ stopper'[u].todo :
                    child'[x][Order[k]] \in {"told", "dead"} /\ \A j \in stopper'[u].todo : j < k
               /\ \A k \in stopper'[u].todo : child'[x][Order[k]] # "told"
    <3>1. /\ stopper[u].pc \in {"terminate", "wait"} /\ stopper[u].sup = x /\ x \in Sups
          /\ stopper'[u].mine = stopper[u].mine
          /\ stopper[u].mine \subseteq DOMAIN Order /\ stopper[u].todo \subseteq stopper[u].mine
      BY <1>1, <1>2, <1>3, <1>4, <2>2, LaStops
    <3>2. /\ x \in 1 .. window.sup /\ stopper[u].mine \subseteq Begun(x)
          /\ \A k \in stopper[u].mine \ stopper[u].todo :
               child[x][Order[k]] \in {"told", "dead"} /\ \A j \in stopper[u].todo : j < k
          /\ \A k \in stopper[u].todo : child[x][Order[k]] # "told"
      BY <1>0, <3>1 DEF Descending
    <3>3. x \in 1 .. window'.sup /\ stopper'[u].mine \subseteq Begun(x)'
      BY <1>1, <1>8, <3>1, <3>2
    <3>4. CASE u = t
      <4>1. x = s /\ stopper'[u].todo = stopper[u].todo \ K
        BY <1>1, <1>2, <1>4, <3>1, <3>4
      <4>2. \A k \in K : child'[s][Order[k]] \in {"told", "dead"}
        BY <1>5
      <4>3. \A k \in stopper[u].mine \ stopper[u].todo :
              child'[x][Order[k]] \in {"told", "dead"} /\ \A j \in stopper'[u].todo : j < k
        BY <1>6, <3>1, <3>2, <4>1
      <4>4. \A k \in K : \A j \in stopper'[u].todo : j < k
        BY <1>1, <3>4, <4>1
      <4>5. \A k \in stopper'[u].todo : child'[x][Order[k]] # "told"
        BY <1>5, <3>1, <3>2, <4>1
      <4> QED BY <3>1, <3>3, <4>1, <4>2, <4>3, <4>4, <4>5
    <3>5. CASE u # t
      <4>1. stopper'[u] = stopper[u]
        BY <1>4, <3>5
      <4>2. \A k \in stopper[u].mine \ stopper[u].todo :
              child'[x][Order[k]] \in {"told", "dead"} /\ \A j \in stopper[u].todo : j < k
        BY <1>6, <3>1, <3>2
      <4>3. x = s /\ K # {} => stopper[u].todo = {}
        BY <1>0, <1>1, <1>2, <3>1, <3>5 DEF Descending
      <4>4. \A k \in stopper[u].todo : child'[x][Order[k]] # "told"
        BY <1>5, <3>1, <3>2, <4>3
      <4> QED BY <3>1, <3>3, <4>1, <4>2, <4>4
    <3> QED BY <3>4, <3>5
  <2>3. ASSUME NEW u \in Stoppers
        PROVE  /\ stopper'[u].pc # "terminate" => stopper'[u].todo = {}
               /\ stopper'[u].pc \in {"idle", "called", "gone"} => stopper'[u].sup = 0
    BY <1>0, <1>1, <1>4 DEF Descending
  <2>4. ASSUME NEW u \in Stoppers, stopper'[u].todo # {}
        PROVE  stopper'[u].sup = stopper[u].sup /\ stopper[u].todo # {} /\ stopper[u].sup \in Sups
    BY <1>1, <1>2, <1>3, <1>4, <2>4, LaStops
  <2>5. ASSUME NEW u \in Stoppers, stopper'[u].todo # {}, NEW x, stopper'[u].sup = x PROVE Halting(x)'
    <3>1. x \in Sups /\ Halting(x)
      BY <2>4, <2>5, LaStops
    <3> QED BY <1>8, <3>1
  <2>6. ASSUME NEW u \in Stoppers, NEW v \in Stoppers, stopper'[u].todo # {}, stopper'[v].todo # {},
               stopper'[u].sup = stopper'[v].sup
        PROVE  u = v
    BY <1>0, <2>4, <2>6 DEF Descending
  <2> QED BY <2>1, <2>2, <2>3, <2>5, <2>6 DEF Descending
<1>12. Covered'
  <2>1. ASSUME NEW u \in Stoppers, NEW x, x = stopper'[u].sup, x \notin early' \cup {0}
        PROVE  /\ stopper'[u].pc \in {"terminate", "wait"} =>
                    starter'[x].pc = "done" /\ \A k \in Begun(x)' \ stopper'[u].mine : child'[x][Order[k]] = "dead"
               /\ stopper'[u].pc = "ended" => Over(x)'
    <3>1. stopper[u].sup = x /\ x \in Sups /\ stopper'[u].mine = stopper[u].mine /\ x \notin early
      BY <1>1, <1>2, <1>3, <1>4, <2>1, LaStops
    <3>2. /\ stopper[u].pc \in {"terminate", "wait"} =>
               starter[x].pc = "done" /\ \A k \in Begun(x) \ stopper[u].mine : child[x][Order[k]] = "dead"
          /\ stopper[u].pc = "ended" => Over(x)
      BY <1>0, <2>1, <3>1 DEF Covered
    <3>3. stopper[u].pc \in {"terminate", "wait"} =>
            /\ starter'[x].pc = "done"
            /\ \A k \in Begun(x)' \ stopper[u].mine : child'[x][Order[k]] = "dead"
      <4>1. Begun(x) \subseteq DOMAIN Order
        BY <1>0, <3>1, LaFields
      <4> QED BY <1>1, <1>6, <1>8, <3>1, <3>2, <4>1
    <3>4. CASE u # t
      BY <1>4, <1>8, <3>1, <3>2, <3>3, <3>4
    <3>5. CASE u = t
      <4>1. x = s
        BY <1>2, <3>1, <3>5
      <4>2. ASSUME r.pc = "ended" PROVE Over(x)'
        <5>1. \A k \in stopper[t].mine : child'[s][Order[k]] = "dead"
          BY <1>2, <4>2 DEF Works
        <5>2. \A k \in DOMAIN Order : child'[s][Order[k]] \in {"none", "dead"}
          <6>1. \A k \in DOMAIN Order : k \notin Begun(s)' => child'[s][Order[k]] = "none"
            BY DEF Begun
          <6> QED BY <1>1, <1>8, <3>3, <3>5, <4>1, <5>1, <6>1
        <5>3. \A c \in Enabled : child'[s][c] \in {"none", "dead"}
          BY <5>2, LaNumbers
        <5> QED BY <1>1, <3>3, <3>5, <4>1, <5>3 DEF Over, Living, Ongoing
      <4> QED BY <1>1, <1>4, <3>1, <3>3, <3>5, <4>2
    <3> QED BY <3>4, <3>5
  <2> QED BY <2>1 DEF Covered
<1>13. InTurn'
  <2>1. \A u \in Stoppers : /\ stopper'[u].pc = "called" <=> stopper[u].pc = "called"
                            /\ stopper'[u].pc = "idle" <=> stopper[u].pc = "idle"
                            /\ stopper'[u].pc \in {"called", "terminate", "wait", "ended"}
                                 <=> stopper[u].pc \in {"called", "terminate", "wait", "ended"}
                            /\ stopper'[u].sup = stopper[u].sup
    BY <1>1, <1>2, <1>3, <1>4
  <2>2. Pressed' = Pressed
    BY <2>1 DEF Pressed
  <2>3. Clean(window.sup)' <=> Clean(window.sup)
    BY <1>1 DEF Clean
  <2>4. \A x \in Sups : x < window'.sup /\ Clean(x)' => Over(x)'
    BY <1>0, <1>1, <1>8, LaWindow DEF InTurn, Sups
  <2>5. Alternate => Alternate'
    <3>1. window.sup # 0 => (Over(window.sup) => Over(window.sup)')
      BY <1>1, <1>8, LaWindow
    <3>2. Pressed \subseteq Stoppers
      BY DEF Pressed
    <3> QED BY <1>1, <2>1, <2>2, <3>1, <3>2 DEF Alternate
  <2> QED BY <1>0, <1>1, <2>1, <2>2, <2>3, <2>4, <2>5, LaNumbers DEF InTurn
<1> QED BY <1>7, <1>9, <1>11, <1>12, <1>13 DEF LaInv

LEMMA TerminateKeeps ==
  ASSUME LaInv, NEW t \in Stoppers, Terminate(t)
  PROVE  LaInv'
<1>0. LauncherTypeOK /\ Descending
  BY DEF LaInv
<1>1. /\ stopper[t].pc = "terminate" /\ stopper[t] \in StopperRec /\ stopper[t].sup \in Sups
      /\ stopper[t].todo \subseteq DOMAIN Order /\ child \in [Sups -> [Enabled -> Fates]]
      /\ stopper[t].todo \subseteq stopper[t].mine /\ stopper[t].mine \subseteq Begun(stopper[t].sup)
      /\ UNCHANGED <<window, starter, early>>
  BY <1>0, LaFields, LaStops, LaTypes DEF Terminate
<1>2. CASE stopper[t].todo = {} /\ stopper' = [stopper EXCEPT ![t].pc = "wait"] /\ UNCHANGED child
  <2> DEFINE r == [stopper[t] EXCEPT !.pc = "wait"]
  <2>1. /\ r \in StopperRec /\ r.pc = "wait" /\ r.sup = stopper[t].sup /\ r.mine = stopper[t].mine
        /\ r.todo = {}
    BY <1>1, <1>2 DEF StopperRec
  <2>2. stopper' = [stopper EXCEPT ![t] = r]
    BY <1>2
  <2> HIDE DEF r
  <2>3. Works(t, r, {})
    BY <1>1, <1>2, <2>1, <2>2 DEF Works
  <2>4. child' \in [Sups -> [Enabled -> Fates]] /\ {} \in SUBSET (DOMAIN Order)
    BY <1>1, <1>2
  <2> QED BY <2>1, <2>3, <2>4, StopperWorks
<1>3. ASSUME NEW k \in stopper[t].todo, \A j \in stopper[t].todo : j <= k,
             child' = [child EXCEPT ![stopper[t].sup][Order[k]] = IF @ \in Ongoing THEN "told" ELSE @],
             stopper' = [stopper EXCEPT ![t].todo = @ \ {k}]
      PROVE  LaInv'
  <2> DEFINE r == [stopper[t] EXCEPT !.todo = @ \ {k}]
  <2>1. /\ r \in StopperRec /\ r.pc = "terminate" /\ r.sup = stopper[t].sup /\ r.mine = stopper[t].mine
        /\ r.todo = stopper[t].todo \ {k}
    BY <1>1 DEF StopperRec
  <2>2. stopper' = [stopper EXCEPT ![t] = r]
    BY <1>3
  <2> HIDE DEF r
  <2>3. PICK s \in Sups : stopper[t].sup = s
    BY <1>1
  <2>4. k \in DOMAIN Order /\ Order[k] \in Enabled /\ child[s][Order[k]] \in Fates /\ child[s][Order[k]] # "none"
    BY <1>1, <2>3, LaNumbers DEF Begun
  <2>5. /\ child' \in [Sups -> [Enabled -> Fates]]
        /\ \A x \in Sups, c \in Enabled : x # s \/ c # Order[k] => child'[x][c] = child[x][c]
        /\ child'[s][Order[k]] = IF child[s][Order[k]] \in Ongoing THEN "told" ELSE child[s][Order[k]]
    BY <1>1, <1>3, <2>3, <2>4 DEF Fates, Ongoing
  <2>6. \A x \in Sups, j \in DOMAIN Order :
          \/ child'[x][Order[j]] = child[x][Order[j]] /\ (x = s /\ j \in {k} => child[x][Order[j]] = "dead")
          \/ child[x][Order[j]] # "none" /\ child'[x][Order[j]] = "dead"
          \/ x = s /\ j \in {k} /\ child[x][Order[j]] \in Ongoing /\ child'[x][Order[j]] = "told"
    <3>1. ASSUME NEW x \in Sups, NEW j \in DOMAIN Order, ~(x = s /\ j = k)
          PROVE  child'[x][Order[j]] = child[x][Order[j]]
      BY <2>4, <2>5, <3>1, LaNumbers
    <3>2. \/ child'[s][Order[k]] = child[s][Order[k]] /\ child[s][Order[k]] = "dead"
          \/ child[s][Order[k]] \in Ongoing /\ child'[s][Order[k]] = "told"
      BY <2>4, <2>5 DEF Fates, Ongoing
    <3> QED BY <3>1, <3>2
  <2>7. \A j \in stopper[t].todo \ {k} : j < k
    BY <1>1, <1>3, LaNumbers
  <2>8. Works(t, r, {k})
    BY <1>1, <2>1, <2>2, <2>3, <2>6, <2>7 DEF Works
  <2>9. {k} \in SUBSET (DOMAIN Order)
    BY <2>4
  <2> QED BY <2>1, <2>5, <2>8, <2>9, StopperWorks
<1> QED BY <1>2, <1>3 DEF Terminate

LEMMA KillKeeps ==
  ASSUME LaInv, NEW t \in Stoppers, KillStragglers(t)
  PROVE  LaInv'
<1>0. LauncherTypeOK /\ Descending
  BY DEF LaInv
<1>1. /\ stopper[t].pc = "wait" /\ stopper[t] \in StopperRec /\ stopper[t].sup \in Sups
      /\ stopper[t].todo = {} /\ child \in [Sups -> [Enabled -> Fates]]
      /\ stopper[t].mine \subseteq Begun(stopper[t].sup) /\ stopper[t].mine \subseteq DOMAIN Order
      /\ UNCHANGED <<window, starter, early>>
  BY <1>0, LaFields, LaStops, LaTypes DEF KillStragglers
<1> DEFINE r == [stopper[t] EXCEPT !.pc = "ended"]
<1>2. /\ r \in StopperRec /\ r.pc = "ended" /\ r.sup = stopper[t].sup /\ r.mine = stopper[t].mine
      /\ r.todo = {}
  BY <1>1 DEF StopperRec
<1>3. stopper' = [stopper EXCEPT ![t] = r]
  BY DEF KillStragglers
<1> HIDE DEF r
<1>4. PICK s \in Sups : stopper[t].sup = s
  BY <1>1
<1>5. /\ child' \in [Sups -> [Enabled -> Fates]]
      /\ \A x \in Sups : x # s => child'[x] = child[x]
      /\ \A c \in Enabled : child'[s][c] = IF \E k \in stopper[t].mine : c = Order[k] THEN "dead" ELSE child[s][c]
  <2>1. child' = [child EXCEPT ![s] =
                    [c \in Enabled |-> IF \E k \in stopper[t].mine : c = Order[k] THEN "dead" ELSE @[c]]]
    BY <1>4 DEF KillStragglers
  <2> QED BY <1>1, <2>1 DEF Fates
<1>6. \A x \in Sups, j \in DOMAIN Order :
        \/ child'[x][Order[j]] = child[x][Order[j]]
        \/ child[x][Order[j]] # "none" /\ child'[x][Order[j]] = "dead"
  <2>1. \A j \in DOMAIN Order : Order[j] \in Enabled
    BY LaNumbers
  <2>2. \A k \in stopper[t].mine : child[s][Order[k]] # "none"
    BY <1>1, <1>4 DEF Begun
  <2> QED BY <1>5, <2>1, <2>2
<1>7. \A k \in stopper[t].mine : child'[s][Order[k]] = "dead"
  BY <1>1, <1>5, LaNumbers
<1>8. Works(t, r, {})
  BY <1>1, <1>2, <1>3, <1>4, <1>6, <1>7 DEF Works
<1> QED BY <1>2, <1>5, <1>8, StopperWorks

-----------------------------------------------------------------------------
(* Launcher: every step keeps the invariant, and what follows from it.        *)

LEMMA LaStep == LaInv /\ [LaNext]_launcherVars => LaInv'
<1> SUFFICES ASSUME LaInv, [LaNext]_launcherVars PROVE LaInv'
  OBVIOUS
<1>1. CASE UNCHANGED launcherVars
  BY <1>1 DEF launcherVars, LaInv, LauncherTypeOK, Unstarted, Spawned, Descending, Covered, InTurn, Alternate,
              Pressed, Begun, Halting, Over, Living, Clean
<1>2. CASE LaNext
  BY <1>2, PressStartKeeps, CloseKeeps, PressStopKeeps, BeginStopKeeps, TerminateKeeps, KillKeeps, EndStopKeeps,
     StartKeeps, ExitKeeps DEF LaNext, StopStep
<1> QED BY <1>1, <1>2

LEMMA LaEnds == LaInv => LauncherTypeOK /\ DependentsGoFirst /\ StopLeavesNothing /\ OneButler
<1> SUFFICES ASSUME LaInv PROVE LauncherTypeOK /\ DependentsGoFirst /\ StopLeavesNothing /\ OneButler
  OBVIOUS
<1>0. LauncherTypeOK /\ Descending /\ Covered /\ InTurn /\ Unstarted /\ Spawned
  BY DEF LaInv
<1>1. DependentsGoFirst
  <2> SUFFICES ASSUME NEW t \in Stoppers, NEW j \in DOMAIN Order, NEW k \in DOMAIN Order,
                      NEW s, s = stopper[t].sup, stopper[t].pc = "terminate", j < k,
                      {j, k} \subseteq stopper[t].mine, child[s][Order[j]] = "told"
               PROVE  child[s][Order[k]] \in {"told", "dead"}
    BY DEF DependentsGoFirst
  <2>1. j \notin stopper[t].todo
    BY <1>0 DEF Descending
  <2>2. k \notin stopper[t].todo
    <3>1. k \in stopper[t].todo => k < j
      BY <1>0, <2>1 DEF Descending
    <3> QED BY <3>1, LaNumbers
  <2> QED BY <1>0, <2>2 DEF Descending
<1>2. StopLeavesNothing
  <2> SUFFICES ASSUME NEW t \in Stoppers, stopper[t].pc = "ended", stopper[t].sup \notin early \cup {0}
               PROVE  Living(stopper[t].sup) = {}
    BY DEF StopLeavesNothing
  <2>1. Over(stopper[t].sup)
    BY <1>0 DEF Covered
  <2> QED BY <2>1 DEF Over
<1>3. OneButler
  <2> SUFFICES ASSUME NEW s \in Sups, NEW r \in Sups, s < r, Living(s) # {}, Living(r) # {}, Clean(s)
               PROVE  FALSE
    BY DEF OneButler
  <2>1. r <= window.sup
    <3>1. Begun(r) # {}
      <4>1. PICK c \in Enabled : child[r][c] \in Ongoing
        BY DEF Living
      <4>2. PICK k \in DOMAIN Order : c = Order[k]
        BY LaNumbers
      <4> QED BY <4>1, <4>2 DEF Begun, Ongoing
    <3>2. \A k \in Begun(r) : k \in Nat /\ k >= 1
      BY <1>0, LaFields, LaNumbers
    <3>3. starter[r].pc # "none"
      BY <1>0, <3>1, <3>2 DEF Unstarted, Spawned
    <3> QED BY <1>0, <3>3, LaWindow DEF Unstarted
  <2>2. s < window.sup
    BY <2>1, LaWindow
  <2> QED BY <1>0, <2>2 DEF InTurn, Over
<1> QED BY <1>0, <1>1, <1>2, <1>3

\* What the launcher's threads have begun, told and ended fits together, and the
\* buttons take turns as long as no start was cut short or raised.
THEOREM LauncherInvariant == LaInit /\ [][LaNext]_launcherVars => []LaInv
<1> QED BY LaInitInv, LaStep, PTL

\* Dependents first, completely, and one Butler at a time, whatever is clicked.
THEOREM LauncherIsOrderly ==
  LaInit /\ [][LaNext]_launcherVars => [](DependentsGoFirst /\ StopLeavesNothing /\ OneButler)
<1> QED BY LaEnds, LauncherInvariant, PTL

-----------------------------------------------------------------------------
(* All of them: a step is a step of one and leaves the others as they are.    *)

BackInv == McInv /\ BfInv /\ RcInv /\ LaInv /\ IInv

LEMMA PartsBegin == Init => BackInv
  BY McInitInv, BriefingInit, RecallInit, LaInitInv, InitHolds DEF Init, BackInv

LEMMA PartsStep ==
  [Next]_backVars => /\ [McNext]_mcVars /\ [BfNext]_bfVars /\ [RcNext]_rcVars
                     /\ [LaNext]_launcherVars /\ [BkNext]_bkVars
<1> SUFFICES ASSUME [Next]_backVars
             PROVE  /\ [McNext]_mcVars /\ [BfNext]_bfVars /\ [RcNext]_rcVars
                    /\ [LaNext]_launcherVars /\ [BkNext]_bkVars
  OBVIOUS
<1>1. CASE Run("tools", McNext, <<bfVars, rcVars, launcherVars, bkVars>>)
  BY <1>1 DEF Run
<1>2. CASE Run("briefing", BfNext, <<mcVars, rcVars, launcherVars, bkVars>>)
  BY <1>2 DEF Run
<1>3. CASE Run("memory", RcNext, <<mcVars, bfVars, launcherVars, bkVars>>)
  BY <1>3 DEF Run
<1>4. CASE Run("launcher", LaNext, <<mcVars, bfVars, rcVars, bkVars>>)
  BY <1>4 DEF Run
<1>5. CASE Run("backend", BkNext, <<mcVars, bfVars, rcVars, launcherVars>>)
  BY <1>5 DEF Run
<1>6. CASE UNCHANGED backVars
  BY <1>6 DEF backVars
<1> QED BY <1>1, <1>2, <1>3, <1>4, <1>5, <1>6 DEF Next

\* The invariants of the parts hold together.
THEOREM PartsInvariant == Spec => []BackInv
<1>1. BackInv /\ [Next]_backVars => BackInv'
  BY PartsStep, McStep, BriefingStep, RecallStep, LaStep, StepHolds DEF BackInv
<1> QED BY PartsBegin, <1>1, PTL DEF Spec

\* The types of every part.
THEOREM BackTypes == Spec => []TypesOK
<1>1. BackInv => TypesOK
  BY McTypes, LaEnds, RecallTyped DEF BackInv, TypesOK, BfInv, IInv, Loops
<1> QED BY <1>1, PartsInvariant, PTL

\* One start of a tool server at a time (_ensure_server), one Butler at a time and
\* stopped dependents first and completely (Supervisor, LauncherGUI), and an engine
\* that goes when no loop is left (lifespan), for any providers, callers, components,
\* starts, clicks and workers.
THEOREM StartsAndStopsAreOrderly == Spec => []OrderlyStartsAndStops
<1>1. BackInv => OrderlyStartsAndStops
  BY McTypes, LaEnds, EngineLast DEF BackInv, OrderlyStartsAndStops
<1> QED BY <1>1, PartsInvariant, PTL

=============================================================================
