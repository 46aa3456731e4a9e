----------------------------- MODULE FrontDesk -----------------------------
(* The front desk of the main process: HTTP handlers of the text server       *)
(* (butler/text/server.py) and the SMS webhook (butler/sms/server.py) put     *)
(* messages on one queue, router_loop (butler/router.py) works them off on    *)
(* its only thread, answers come back through a queue of one per request.     *)
EXTENDS Integers, Sequences, FiniteSets

CONSTANTS Clients, \* requests with a command; of a text message every delivery of its
                   \* webhook is one, the repetitions of Twilio too
          Kind,    \* [Clients -> "terminal", "browser", "sms", or "blank": an empty text]
          Sids, Sid, \* [Clients -> Sids, or NoSid]: the MessageSid of a delivery
          SeenLimit, \* _SEEN_SID_LIMIT
          OtherMessages, \* bound: event and ui messages of other handlers
          DeskFaults \* "prepare", "agent", "event": what may raise

NoClient == "none"
NoSid == ""

ASSUME FrontDeskAssumption ==
  /\ NoClient \notin Clients /\ Kind \in [Clients -> {"terminal", "browser", "sms", "blank"}]
  /\ NoSid \notin Sids /\ Sid \in [Clients -> Sids \cup {NoSid}] /\ SeenLimit \in Nat \ {0}
  /\ OtherMessages \in Nat
  /\ DeskFaults \subseteq {"prepare", "agent", "event"}

VARIABLES desk,    \* the central queue, of Messages
          router,  \* [pc, msg]
          client,  \* [Clients -> "new", "waiting", "follow", "done"]
          reply,   \* [Clients -> the content of its reply queue, "none" when empty]
          runs,    \* [Clients -> times its command was handed to the agent]
          seen,    \* _seen_sids: the sids claimed last, the oldest first
          claim, claims, \* ghosts: which claim of a sid a delivery was; how many there were
          others,
          started, ended   \* interaction signals

sids == <<seen, claim, claims>>
fdVars == <<desk, router, client, reply, runs, sids, others, started, ended>>

Messages == [kind : {"text"}, client : Clients]
              \cup [kind : {"event", "ui"}, client : {NoClient}]
NoMessage == [kind |-> "none", client |-> NoClient]

FrontDeskTypeOK ==
  /\ desk \in Seq(Messages)
  /\ router \in [pc : {"get", "prepare", "run", "dead"}, msg : Messages \cup {NoMessage}]
  /\ client \in [Clients -> {"new", "waiting", "follow", "done"}]
  /\ reply \in [Clients -> {"none", "answer", "error", "job"}]
  /\ seen \in Seq(Sids)

FdInit ==
  /\ desk = <<>> /\ router = [pc |-> "get", msg |-> NoMessage]
  /\ client = [c \in Clients |-> "new"] /\ reply = [c \in Clients |-> "none"]
  /\ runs = [c \in Clients |-> 0]
  /\ seen = <<>> /\ claim = [c \in Clients |-> 0] /\ claims = 0
  /\ others = 0 /\ started = 0 /\ ended = 0

-----------------------------------------------------------------------------
(* The handlers.                                                              *)

\* _handle_chat and handle_inbound_text put the command and wait for the reply.
Send(c) ==
  /\ client' = [client EXCEPT ![c] = "waiting"]
  /\ desk' = Append(desk, [kind |-> "text", client |-> c])

Request(c) ==
  /\ client[c] = "new" /\ Kind[c] \in {"terminal", "browser"}
  /\ Send(c)
  /\ UNCHANGED <<router, reply, runs, sids, others, started, ended>>

\* claim_message_sid, under its lock: a sid among the last SeenLimit ones is refused,
\* a new one is noted and the oldest forgotten, a missing one is always accepted.
SidKnown(c) == Sid[c] # NoSid /\ \E i \in 1 .. Len(seen) : seen[i] = Sid[c]
Noted(s) == IF Len(seen) < SeenLimit THEN Append(seen, s) ELSE Append(Tail(seen), s)

Claim(c) ==
  IF Sid[c] = NoSid THEN UNCHANGED sids
  ELSE /\ seen' = Noted(Sid[c])
       /\ claims' = claims + 1 /\ claim' = [claim EXCEPT ![c] = claims + 1]

\* Mutant: the sid is not looked up.
Webhook_Fault(c) ==
  /\ client[c] = "new" /\ Kind[c] \in {"sms", "blank"}
  /\ Claim(c)
  /\ IF Kind[c] = "blank"
       THEN client' = [client EXCEPT ![c] = "done"] /\ UNCHANGED desk
       ELSE Send(c)
  /\ UNCHANGED <<router, reply, runs, others, started, ended>>

\* A webhook of Twilio, the first one or a repetition: the delivery that claims its
\* sid starts a thread, unless the text is empty; another is answered and dropped.
Webhook(c) ==
  /\ client[c] = "new" /\ Kind[c] \in {"sms", "blank"}
  /\ IF SidKnown(c) THEN UNCHANGED sids ELSE Claim(c)
  /\ IF SidKnown(c) \/ Kind[c] = "blank"
       THEN client' = [client EXCEPT ![c] = "done"] /\ UNCHANGED desk
       ELSE Send(c)
  /\ UNCHANGED <<router, reply, runs, others, started, ended>>

\* /notify, the scheduler's status and the banner of a streamed turn; a finished
\* phone call.
Other(kind) ==
  /\ others < OtherMessages /\ others' = others + 1
  /\ desk' = Append(desk, [kind |-> kind, client |-> NoClient])
  /\ UNCHANGED <<router, client, reply, runs, sids, started, ended>>

\* The reply, or the end of the client's patience (a terminal has no timeout).
\* A text that was handed to a background job is followed until the job is over.
HearReply(c) ==
  /\ client[c] = "waiting"
  /\ \/ /\ reply[c] # "none"
        /\ reply' = [reply EXCEPT ![c] = "none"]
        /\ client' = [client EXCEPT ![c] =
                        IF Kind[c] = "sms" /\ reply[c] = "job" THEN "follow" ELSE "done"]
     \/ /\ Kind[c] # "terminal"
        /\ client' = [client EXCEPT ![c] = "done"]
        /\ UNCHANGED reply
  /\ UNCHANGED <<desk, router, runs, sids, others, started, ended>>

\* _follow_background_job: the verdict, or the word that it is not followed on.
Follow(c) ==
  /\ client[c] = "follow"
  /\ client' = [client EXCEPT ![c] = "done"]
  /\ UNCHANGED <<desk, router, reply, runs, sids, others, started, ended>>

-----------------------------------------------------------------------------
(* router_loop.                                                               *)

\* A ui message is put on the display at once (Panel); a status changes nothing here.
RouterGet ==
  /\ router.pc = "get" /\ desk # <<>>
  /\ desk' = Tail(desk)
  /\ IF Head(desk).kind = "ui"
       THEN UNCHANGED router
       ELSE router' = [pc |-> "prepare", msg |-> Head(desk)]
  /\ UNCHANGED <<client, reply, runs, sids, others, started, ended>>

\* The snapshot, the session's jobs and the classification come before the try.
Prepare ==
  /\ router.pc = "prepare"
  /\ \/ /\ router' = [router EXCEPT !.pc = "run"]
        /\ started' = started + (IF router.msg.kind = "text" THEN 1 ELSE 0)
     \/ /\ "prepare" \in DeskFaults
        /\ router' = [router EXCEPT !.pc = "dead"]
        /\ UNCHANGED started
  /\ UNCHANGED <<desk, client, reply, runs, sids, others, ended>>

\* Mutant: an exception of the agent is logged and not answered.
RunText_Fault ==
  /\ router.pc = "run" /\ router.msg.kind = "text"
  /\ router' = [router EXCEPT !.pc = "get"]
  /\ LET c == router.msg.client
     IN /\ \/ reply' = [reply EXCEPT ![c] = "answer"]
           \/ "agent" \in DeskFaults /\ UNCHANGED reply
        /\ runs' = [runs EXCEPT ![c] = @ + 1]
  /\ ended' = ended + 1
  /\ UNCHANGED <<desk, client, sids, others, started>>

\* A command: the agent's answer, the acknowledgement of a job, or the exception,
\* each into the reply queue, whether or not anybody still waits; the end of the
\* interaction is signalled in every case.
RunText ==
  /\ router.pc = "run" /\ router.msg.kind = "text"
  /\ router' = [router EXCEPT !.pc = "get"]
  /\ LET c == router.msg.client
     IN /\ \/ \E answer \in {"answer", "job"} : reply' = [reply EXCEPT ![c] = answer]
           \/ "agent" \in DeskFaults /\ reply' = [reply EXCEPT ![c] = "error"]
        /\ runs' = [runs EXCEPT ![c] = @ + 1]
  /\ ended' = ended + 1
  /\ UNCHANGED <<desk, client, sids, others, started>>

\* A phone event runs the agent with nothing around it: an exception ends the
\* loop, and nothing starts it again.
RunEvent ==
  /\ router.pc = "run" /\ router.msg.kind = "event"
  /\ \/ router' = [router EXCEPT !.pc = "get"]
     \/ "event" \in DeskFaults /\ router' = [router EXCEPT !.pc = "dead"]
  /\ UNCHANGED <<desk, client, reply, runs, sids, others, started, ended>>

-----------------------------------------------------------------------------
RouterStep == RouterGet \/ Prepare \/ RunText \/ RunEvent

FdNext ==
  \/ \E c \in Clients : Request(c) \/ Webhook(c) \/ HearReply(c) \/ Follow(c)
  \/ \E kind \in {"event", "ui"} : Other(kind)
  \/ RouterStep

\* Every thread goes on.
FdFairness ==
  /\ WF_fdVars(RouterStep)
  /\ \A c \in Clients : WF_fdVars(HearReply(c)) /\ WF_fdVars(Follow(c))

FdSpec == FdInit /\ [][FdNext]_fdVars /\ FdFairness

-----------------------------------------------------------------------------
(* Every interaction that was signalled as begun is signalled as ended, through *)
(* every early continue and exception of the branch.                            *)
InteractionsAreClosed ==
  started = ended + (IF router.pc = "run" /\ router.msg.kind = "text" THEN 1 ELSE 0)

(* However often Twilio repeats a webhook, and whoever gave up waiting, a       *)
(* delivery is handed to the agent at most once, and so is a text message, as   *)
(* long as the server remembers it: two deliveries of one sid have both run     *)
(* only where at least SeenLimit other sids were claimed in between, or where   *)
(* the webhook named no sid at all.  No signalled interaction is left open.     *)
SameText(c, d) ==
  c # d /\ Kind[c] = "sms" /\ Kind[d] = "sms" /\ Sid[c] = Sid[d] /\ Sid[c] # NoSid

CommandsRunOnce ==
  /\ \A c \in Clients : runs[c] <= 1
  /\ \A c, d \in Clients :
       SameText(c, d) /\ runs[c] = 1 /\ runs[d] = 1 /\ claim[c] <= claim[d] =>
         claim[d] - claim[c] > SeenLimit
  /\ InteractionsAreClosed

(* Whoever sends a command hears of it: a browser and a text message in any     *)
(* case, a terminal (which waits without limit) unless the router has died.     *)
EveryoneIsAnswered ==
  \A c \in Clients :
    client[c] = "waiting" ~>
      client[c] = "done" \/ (Kind[c] = "terminal" /\ router.pc = "dead")

=============================================================================
