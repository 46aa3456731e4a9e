------------------------------ MODULE PhoneCalls ------------------------------
(* Phone calls on two machines: the public bridge (phone_bridge/app.py) keeps a *)
(* row per call from ElevenLabs' webhooks and pushes finished calls; the main   *)
(* machine (phone/service.py, text/server.py) keeps rows of its own, fed by     *)
(* place_phone_call, by pushes and by asking the bridge what changed after the  *)
(* newest local write.  Both stores (phone/store.py) write updated_at in whole  *)
(* seconds.  The session of a row stands for its contact and purpose as well, a  *)
(* summary for what it was built from.                                          *)
EXTENDS Integers, FiniteSets

CONSTANTS
  CallIds, Outbound, \* calls; those that place_phone_call starts
  Asks,             \* phone_call_status and summarize_phone_call requests
  Hooks,            \* bound on the webhooks of a call
  Limit,            \* bridge_sync_limit
  MaxSeconds        \* bound on the seconds

ASSUME PhoneAssumption ==
  Outbound \subseteq CallIds /\ Hooks \in Nat /\ Limit \in Nat \ {0} /\ MaxSeconds \in Nat \ {0}

VARIABLES
  second,
  bridged,  \* bridge_url is configured
  talk,     \* the conversation at ElevenLabs
  far,      \* the bridge's phone_calls
  near,     \* the main machine's phone_calls
  hooks,    \* webhooks of each call so far
  op,       \* where each request, push and placing is
  memory,   \* "Phone call summary" messages of the conversation memory
  told      \* phone_call_completed events put on the router's queue

phoneVars == <<second, bridged, talk, far, near, hooks, op, memory, told>>

Ended == {"completed", "failed"}
NoCall == [status |-> "none", outcome |-> "none", session |-> "none", summary |-> <<>>, at |-> 0]
\* What a path is about to write, and from where it keeps the other columns:
\* from the row itself, from the row it read, or nowhere.
Write(c, says, end, owner, kept) ==
  [call |-> c, status |-> says, outcome |-> end, session |-> owner, kept |-> kept]
Copy(c, have) == Write(c, have.status, have.outcome, have.session, "nothing")
Nothing == [pc |-> "idle", call |-> "none", snap |-> {}, row |-> NoCall, todo |-> {},
            again |-> {}, about |-> "none", since |-> 0]

Placings == {<<"place", c, 0>> : c \in Outbound}
Pushes == {<<"push", c, n>> : c \in CallIds, n \in 1 .. Hooks}
Requests == {<<"ask", a, 0>> : a \in Asks}
Ops == Placings \cup Pushes \cup Requests

\* Fault for mutation: the status is said although there is an outcome.
Summary_Status(have) == <<have.status, have.session>>

\* _build_call_summary: the outcome, or else the status.
Summary(have) == <<IF have.outcome # "none" THEN have.outcome ELSE have.status, have.session>>
\* latest_updated_at, 0 while there is no row
Watermark == CHOOSE t \in {near[c].at : c \in CallIds} : \A c \in CallIds : near[c].at <= t
Steps(p, pc) == op' = [op EXCEPT ![p].pc = pc]

PhInit ==
  /\ second = 1 /\ bridged \in BOOLEAN
  /\ talk = [c \in CallIds |-> "none"] /\ hooks = [c \in CallIds |-> 0]
  /\ far = [c \in CallIds |-> NoCall] /\ near = [c \in CallIds |-> NoCall]
  /\ op = [p \in Ops |-> Nothing] /\ memory = {} /\ told = {}

Says == {"none", "initiated", "updated", "in_progress"} \cup Ended
Sessions == {"none", "user", "inbound"}
CallRec ==
  [status : Says, outcome : Says, session : Sessions,
   summary : {<<>>} \cup (Says \X Sessions), at : Nat]
WriteRec ==
  [call : CallIds, status : Says, outcome : Says, session : Sessions,
   kept : {"row", "read", "nothing"}]
OpRec ==
  [pc : {"idle", "sent", "lost", "lookup", "store", "reread", "finalize", "announce", "fetch",
         "refresh", "next", "failed", "done"},
   call : CallIds \cup {"none"}, snap : SUBSET WriteRec, row : CallRec, todo : SUBSET WriteRec,
   again : SUBSET CallIds, about : CallIds \cup {"none"}, since : Nat]

PhoneTypeOK ==
  /\ second \in Nat /\ bridged \in BOOLEAN
  /\ talk \in [CallIds -> {"none", "on"} \cup Ended] /\ hooks \in [CallIds -> 0 .. Hooks]
  /\ far \in [CallIds -> CallRec] /\ near \in [CallIds -> CallRec]
  /\ op \in [Ops -> OpRec]
  /\ memory \subseteq CallIds \X Sessions \X Says
  /\ told \subseteq CallIds \X ({<<>>} \cup (Says \X Sessions))

-----------------------------------------------------------------------------
(* ElevenLabs and the bridge.  The bridge's handlers run one at a time.        *)

Ring(c) ==
  /\ c \notin Outbound /\ talk[c] = "none"
  /\ talk' = [talk EXCEPT ![c] = "on"]
  /\ UNCHANGED <<second, bridged, far, near, hooks, op, memory, told>>

HangUp(c) ==
  /\ talk[c] = "on"
  /\ \E end \in {"completed"} \cup (IF c \in Outbound THEN {"failed"} ELSE {}) :
       talk' = [talk EXCEPT ![c] = end]
  /\ UNCHANGED <<second, bridged, far, near, hooks, op, memory, told>>

\* _ingest_transcription_event, _ingest_failure_event and _ingest_generic_event:
\* what the bridge's row becomes.
Told(c, ended) ==
  [status  |-> IF ended THEN talk[c] ELSE IF far[c].status = "none" THEN "updated" ELSE far[c].status,
   outcome |-> IF ended THEN talk[c] ELSE far[c].outcome,
   session |-> IF ended /\ talk[c] = "completed" /\ far[c].session = "none"
                 THEN "inbound" ELSE far[c].session,
   summary |-> far[c].summary, at |-> second]

\* A webhook is stored and a final one is pushed by a thread; Twilio and
\* ElevenLabs may send one again.
Webhook(c) ==
  /\ bridged /\ talk[c] # "none" /\ hooks[c] < Hooks
  /\ hooks' = [hooks EXCEPT ![c] = @ + 1]
  /\ \E ended \in {FALSE} \cup {talk[c] \in Ended} :
       /\ far' = [far EXCEPT ![c] = Told(c, ended)]
       /\ op' = IF ended THEN [op EXCEPT ![<<"push", c, hooks'[c]>>] =
                    [Nothing EXCEPT !.pc = "sent", !.call = c,
                     !.snap = {Copy(c, far'[c])}]]
                ELSE op
  /\ UNCHANGED <<second, bridged, talk, near, memory, told>>

\* _push_call_to_main: a push that fails is printed and forgotten.
Push(p) ==
  /\ op[p].pc = "sent"
  /\ Steps(p, "lookup") \/ Steps(p, "lost")
  /\ UNCHANGED <<second, bridged, talk, far, near, hooks, memory, told>>

-----------------------------------------------------------------------------
(* The main machine's store and what every path does with a call.             *)

\* start_outbound_call: the call is under way before anything is stored.
Place(c) ==
  /\ talk[c] = "none" /\ c \in Outbound
  /\ talk' = [talk EXCEPT ![c] = "on"]
  /\ op' = [op EXCEPT ![<<"place", c, 0>>] =
              [Nothing EXCEPT !.pc = "lookup", !.call = c,
               !.snap = {Write(c, "initiated", "none", "user", "row")}]]
  /\ UNCHANGED <<second, bridged, far, near, hooks, memory, told>>

\* get_call in upsert_snapshot and in start_outbound_call
Lookup(p) ==
  /\ op[p].pc = "lookup"
  /\ op' = [op EXCEPT ![p].pc = "store", ![p].row = near[op[p].call]]
  /\ UNCHANGED <<second, bridged, talk, far, near, hooks, memory, told>>

\* What s makes of the row the database has, after the read of another.
Stored(s, have, read) ==
  [status |-> s.status, session |-> s.session, at |-> second,
   outcome |-> IF s.kept = "row" THEN have.outcome ELSE s.outcome,
   summary |-> CASE s.kept = "row" -> have.summary [] s.kept = "read" -> read.summary [] OTHER -> <<>>]

\* create_call fails on the primary key when another path was faster; the request that
\* asked ElevenLabs itself goes on all the same (_refresh_call_from_provider).
Store(p) ==
  /\ op[p].pc = "store"
  /\ LET c == op[p].call
         s == CHOOSE x \in op[p].snap : TRUE
     IN IF op[p].row.status = "none" /\ near[c].status # "none"
          THEN /\ Steps(p, IF p \in Requests /\ ~bridged THEN "next" ELSE "failed")
               /\ UNCHANGED near
          ELSE /\ near' = [near EXCEPT ![c] = Stored(s, @, op[p].row)]
               /\ Steps(p, IF p \in Requests THEN "next" ELSE "reread")
  /\ UNCHANGED <<second, bridged, talk, far, hooks, memory, told>>

\* update_call and create_call return the row as they read it afterwards.
Reread(p) ==
  /\ op[p].pc = "reread"
  /\ op' = [op EXCEPT ![p].pc = "finalize", ![p].row = near[op[p].call]]
  /\ UNCHANGED <<second, bridged, talk, far, near, hooks, memory, told>>

AfterFinalize(p) ==
  CASE p \in Placings -> "done" [] p \in Pushes -> "announce"
    [] OTHER -> IF op[p].about = "none" THEN "done" ELSE "next"

\* _finalize_call_record works on the row it was given: a new summary is stored
\* and goes to the memory of the row's session.
Finalize(p) ==
  /\ op[p].pc = "finalize"
  /\ LET c == op[p].call
     IN IF Summary(op[p].row) = op[p].row.summary
          THEN UNCHANGED <<near, memory>>
          ELSE /\ near' = [near EXCEPT ![c].summary = Summary(op[p].row), ![c].at = second]
               /\ memory' = memory \cup {<<c, near[c].session, Summary(op[p].row)[1]>>}
  /\ Steps(p, AfterFinalize(p))
  /\ UNCHANGED <<second, bridged, talk, far, hooks, told>>

\* _handle_phone_event: the row is read again for the router's event.
Announce(p) ==
  /\ op[p].pc = "announce"
  /\ told' = told \cup {<<op[p].call, near[op[p].call].summary>>}
  /\ Steps(p, "done")
  /\ UNCHANGED <<second, bridged, talk, far, near, hooks, memory>>

-----------------------------------------------------------------------------
(* phone_call_status, summarize_phone_call, recent_phone_calls                *)

Ask(p, c) ==
  /\ op[p].pc = "idle"
  /\ op' = [op EXCEPT ![p].pc = IF bridged THEN "fetch" ELSE "refresh", ![p].call = c,
                      ![p].about = c, ![p].since = Watermark]
  /\ UNCHANGED <<second, bridged, talk, far, near, hooks, memory, told>>

\* list_calls_updated_after on the bridge: the oldest changes after the
\* watermark, or without one the newest.
Changed(since) == {c \in CallIds : far[c].at > since}
BridgePage(since) ==
  {S \in SUBSET Changed(since) :
     /\ Cardinality(S) = IF Cardinality(Changed(since)) < Limit THEN Cardinality(Changed(since)) ELSE Limit
     /\ \A c \in S, d \in Changed(since) \ S :
          IF since = 0 THEN far[c].at >= far[d].at ELSE far[c].at <= far[d].at}

Fetch(p) ==
  /\ op[p].pc = "fetch"
  /\ \/ \E S \in BridgePage(op[p].since) :
          op' = [op EXCEPT ![p].pc = "next", ![p].again = S,
                   ![p].todo = {Copy(c, far[c]) : c \in S}]
     \/ Steps(p, "failed")
  /\ UNCHANGED <<second, bridged, talk, far, near, hooks, memory, told>>

\* The page is stored call by call, then summarised call by call; the call the
\* user asked for is read and summarised last.
NextCall(p) ==
  /\ op[p].pc = "next"
  /\ \/ \E s \in op[p].todo :
          op' = [op EXCEPT ![p].pc = "lookup", ![p].call = s.call, ![p].snap = {s}, ![p].todo = @ \ {s}]
     \/ op[p].todo = {} /\ \E c \in op[p].again :
          op' = [op EXCEPT ![p].pc = "reread", ![p].call = c, ![p].again = @ \ {c}]
     \/ /\ op[p].todo = {} /\ op[p].again = {}
        /\ op' = IF near[op[p].about].status = "none"
                   THEN [op EXCEPT ![p].pc = "failed"]
                   ELSE [op EXCEPT ![p].pc = "reread", ![p].call = op[p].about, ![p].about = "none"]
  /\ UNCHANGED <<second, bridged, talk, far, near, hooks, memory, told>>

\* The session travels with an outbound call as a dynamic variable.
Carried(c) == IF c \in Outbound THEN "user" ELSE near[c].session

\* Without a bridge fetch_call_details asks ElevenLabs; any error is swallowed.
Refresh(p) ==
  /\ op[p].pc = "refresh"
  /\ \/ LET c == op[p].call
            says == IF talk[c] = "on" THEN "in_progress" ELSE talk[c]
        IN /\ talk[c] # "none"
           /\ op' = [op EXCEPT ![p].pc = "lookup",
                                ![p].snap = {Write(c, says, says, Carried(c), "read")}]
     \/ Steps(p, "next")
  /\ UNCHANGED <<second, bridged, talk, far, near, hooks, memory, told>>

SecondPasses ==
  /\ second < MaxSeconds /\ second' = second + 1
  /\ UNCHANGED <<bridged, talk, far, near, hooks, op, memory, told>>

Handle(p) == \/ Lookup(p) \/ Store(p) \/ Reread(p) \/ Finalize(p) \/ Announce(p)
             \/ Fetch(p) \/ NextCall(p) \/ Refresh(p)

PhNext ==
  \/ \E c \in CallIds : Ring(c) \/ Place(c) \/ HangUp(c) \/ Webhook(c)
  \/ \E p \in Pushes : Push(p)
  \/ \E p \in Requests, c \in CallIds : Ask(p, c)
  \/ \E p \in Ops : Handle(p)
  \/ SecondPasses

PhSpec == PhInit /\ [][PhNext]_phoneVars

-----------------------------------------------------------------------------
(* An outcome is never made up, by no order of pushes, pages and summaries: what *)
(* a row and the summaries taken from it say of an end, is how the call ended.   *)
NoOutcomeInvented ==
  \A c \in CallIds, end \in Ended :
    (\/ end \in {near[c].status, near[c].outcome}
     \/ \E m \in memory : m[1] = c /\ m[3] = end
     \/ \E t \in told : t[1] = c /\ t[2] \in {<<end, "user">>, <<end, "inbound">>, <<end, "none">>})
    => talk[c] = end

(* A placing that came back, with an answer or an error, has left a row.        *)
PlacedIsRecorded ==
  \A p \in Placings : op[p].pc \in {"done", "failed"} => near[op[p].call].status # "none"

(* A push that was accepted is remembered as an ended call, also when the       *)
(* placing that began the call is overtaken by it and writes initiated after it *)
(* (pages of the bridge apart, which may be older than the push).               *)
OutcomesAreRemembered ==
  \A p \in Pushes :
    op[p].pc = "done" /\ (\A q \in Requests : op[q].pc = "idle")
      => \E m \in memory : m[1] = op[p].call /\ m[3] \in Ended

(* No order of pushes, pages and summaries makes up how a call ended, a placing *)
(* leaves a row and an accepted push a memory of the end (phone/service.py).     *)
CallsAreFaithful == NoOutcomeInvented /\ PlacedIsRecorded /\ OutcomesAreRemembered

(* "Refresh from the phone bridge before reading": a request that has just      *)
(* fetched its page reads what the bridge knew when it asked.                   *)
RefreshShowsTheBridge ==
  \A p \in Requests :
    op[p].pc = "next" /\ bridged /\ op[p].todo = {} /\ op[p].again = {} /\ op[p].about # "none"
      => LET c == op[p].about
         IN near[c].status \in Ended \/ far[c].status \notin Ended \/ far[c].at > op[p].since

=============================================================================
