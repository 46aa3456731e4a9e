-------------------------------- MODULE Prewarm --------------------------------
(* What the model server is sent and keeps (butler/agent/runtime.py): the tools   *)
(* every turn publishes, the note on a KiCad that is not ready, and the prompt    *)
(* the server has evaluated last.  A pre-ramp replays the last prompt while a     *)
(* command is still being transcribed, on a thread of its own for each request.   *)
EXTENDS Integers, Sequences, FiniteSets, SequencesExt

CONSTANTS
  Tools,      \* every tool, numbered in the order of the names
  Volatile,   \* those of _tool_volatility_rank 1
  Trimmed,    \* KiCad tools that _reduce_tool_surface leaves out
  Kicad,      \* the KiCad tools
  Ramps,      \* requests for a pre-ramp
  Interval,   \* PRERAMP_MIN_INTERVAL_SECONDS, in ticks
  Rounds,     \* bound: requests of a turn
  Turns, Ticks \* bounds on the turns and on the clock

PrewarmAssumption ==
  /\ Tools \subseteq Nat /\ IsFiniteSet(Tools)
  /\ Kicad \subseteq Volatile /\ Trimmed \subseteq Kicad /\ Volatile \subseteq Tools
  /\ {Interval, Rounds} \subseteq Nat \ {0} /\ {Turns, Ticks} \subseteq Nat

Stable == Tools \ Volatile
Never == 0          \* no prompt, and no pre-ramp yet
Startup == 1        \* the prompt of warm_agent_runtime

VARIABLES
  clock,
  provider,   \* the KiCad provider: "cold", "warming", "ready"
  turn,       \* the turn of the session: pc, requests so far, topic, note
  begun,      \* turns begun
  surface, former,  \* the tools of this turn and of the one before
  made,       \* the last prompt that was put together
  recorded,   \* _last_prompt
  cached,     \* what the server has evaluated last
  warm,       \* warm_agent_runtime
  ramp,       \* request -> its thread: pc, the prompt it replays, its times
  lastRamp,   \* _last_preramp_monotonic
  crossed     \* a warm-up was under way together with a turn or another warm-up

prewarmVars == <<clock, provider, turn, begun, surface, former, made, recorded, cached,
                 warm, ramp, lastRamp, crossed>>

NoTurn == [pc |-> "idle", rounds |-> 0, kicad |-> FALSE, note |-> FALSE]
NoRamp == [pc |-> "new", prompt |-> Never, at |-> 0, done |-> 0]
Ramping == {w \in Ramps : ramp[w].pc \in {"checked", "sending", "sent"}}
Sending == {w \in Ramps : ramp[w].pc \in {"sending", "sent"}}
Warming == warm # "done"

Wait == clock < Interval + Ticks /\ clock' = clock + 1
        /\ UNCHANGED <<provider, turn, begun, surface, former, made, recorded, cached, warm,
                       ramp, lastRamp, crossed>>

-----------------------------------------------------------------------------
(* The tools of a turn                                                           *)

\* Kept out of the list of servers until the provider is ready.
Published == Tools \ IF provider = "ready" THEN {} ELSE Kicad

\* _reduce_tool_surface
Reduced(tools) == tools \ Trimmed

\* _order_tools_by_volatility: by rank, and by name within a rank.
Before(t, u) == IF t \in Volatile <=> u \in Volatile THEN t < u ELSE u \in Volatile
Position(t, tools) == 1 + Cardinality({u \in tools : Before(u, t)})
Ordered(tools) ==
  [k \in 1 .. Cardinality(tools) |-> CHOOSE t \in tools : Position(t, tools) = k]

\* The start-up warm-up builds the tools as well.
PwInit ==
  /\ clock = Interval /\ provider \in {"cold", "ready"}
  /\ turn = NoTurn /\ begun = 0
  /\ surface = Ordered(Reduced(Published)) /\ former = surface
  /\ made = Startup /\ recorded = Never /\ cached = Never
  /\ warm = "build" /\ ramp = [w \in Ramps |-> NoRamp] /\ lastRamp = 0 /\ crossed = FALSE

\* The provider goes through its phases on threads of its own (McpClient).
ProviderMoves ==
  /\ provider' \in CASE provider = "cold" -> {} [] provider = "warming" -> {"ready", "cold"}
                      [] provider = "ready" -> {"cold"}
  /\ UNCHANGED <<clock, turn, begun, surface, former, made, recorded, cached, warm, ramp,
                 lastRamp, crossed>>

\* A turn takes the lock of its session and builds its tools.
BeginTurn(kicad) ==
  /\ turn.pc = "idle" /\ begun < Turns /\ begun' = begun + 1
  /\ turn' = [NoTurn EXCEPT !.pc = "context", !.kicad = kicad]
  /\ former' = surface /\ surface' = Ordered(Reduced(Published))
  /\ crossed' = (crossed \/ Ramping # {} \/ Warming)
  /\ UNCHANGED <<clock, provider, made, recorded, cached, warm, ramp, lastRamp>>

\* _maybe_add_kicad_preflight: with its tools published the board's state is asked
\* for; without them the model is told, unless the provider is ready by now, and a
\* cold one is started in the background.
AddContext ==
  /\ turn.pc = "context"
  /\ LET asks == turn.kicad /\ Kicad \cap ToSet(surface) = {} /\ provider # "ready"
     IN /\ turn' = [turn EXCEPT !.pc = "record", !.note = asks]
        /\ provider' = IF asks THEN "warming" ELSE provider
  /\ UNCHANGED <<clock, begun, surface, former, made, recorded, cached, warm, ramp,
                 lastRamp, crossed>>

-----------------------------------------------------------------------------
(* The requests of a turn                                                        *)

\* Each round has a prompt of its own, recorded before it is sent.
Record ==
  /\ turn.pc = "record" /\ turn' = [turn EXCEPT !.pc = "send", !.rounds = @ + 1]
  /\ made' = made + 1 /\ recorded' = made'
  /\ UNCHANGED <<clock, provider, begun, surface, former, cached, warm, ramp, lastRamp, crossed>>

\* The tools the model calls are run before the next round; the last one ends it.
Send ==
  /\ turn.pc = "send" /\ cached' = made
  /\ \/ turn.rounds < Rounds /\ turn' = [turn EXCEPT !.pc = "record"]
     \/ turn' = NoTurn
  /\ UNCHANGED <<clock, provider, begun, surface, former, made, recorded, warm, ramp,
                 lastRamp, crossed>>

-----------------------------------------------------------------------------
(* Warming up                                                                    *)

\* warm_agent_runtime: no lock, and no turn in flight; a server that is not there yet
\* ends it.
WarmSend ==
  /\ warm = "build" /\ cached' = Startup /\ warm' = "record"
  /\ crossed' = (crossed \/ turn.pc # "idle" \/ Ramping # {})
  /\ UNCHANGED <<clock, provider, turn, begun, surface, former, made, recorded, ramp, lastRamp>>

WarmFails ==
  /\ warm = "build" /\ warm' = "done"
  /\ UNCHANGED <<clock, provider, turn, begun, surface, former, made, recorded, cached, ramp,
                 lastRamp, crossed>>

WarmRecord ==
  /\ warm = "record" /\ recorded' = Startup /\ warm' = "done"
  /\ UNCHANGED <<clock, provider, turn, begun, surface, former, made, cached, ramp, lastRamp,
                 crossed>>

\* prewarm_llm, under _preramp_state_lock: a turn in flight, nothing to replay and a
\* pre-ramp a moment ago each end it.
Check(w) ==
  /\ ramp[w].pc = "new"
  /\ ramp' = [ramp EXCEPT ![w] =
       IF turn.pc # "idle" \/ recorded = Never \/ clock - lastRamp < Interval
         THEN [@ EXCEPT !.pc = "over"]
         ELSE [@ EXCEPT !.pc = "checked", !.prompt = recorded, !.at = clock]]
  /\ crossed' = (crossed \/ (ramp'[w].pc = "checked" /\ (Warming \/ Ramping # {})))
  /\ UNCHANGED <<clock, provider, turn, begun, surface, former, made, recorded, cached, warm,
                 lastRamp>>

\* The request lock is not waited for.
Acquire(w) ==
  /\ ramp[w].pc = "checked"
  /\ ramp' = [ramp EXCEPT ![w] =
       IF Sending = {} THEN [@ EXCEPT !.pc = "sending"] ELSE [NoRamp EXCEPT !.pc = "over"]]
  /\ UNCHANGED <<clock, provider, turn, begun, surface, former, made, recorded, cached, warm,
                 lastRamp, crossed>>

\* One token on the prompt it has read; a server that fails is no matter.
Replay(w) ==
  /\ ramp[w].pc = "sending"
  /\ \/ cached' = ramp[w].prompt /\ ramp' = [ramp EXCEPT ![w].pc = "sent"]
     \/ ramp' = [ramp EXCEPT ![w] = [NoRamp EXCEPT !.pc = "over"]] /\ UNCHANGED cached
  /\ UNCHANGED <<clock, provider, turn, begun, surface, former, made, recorded, warm, lastRamp,
                 crossed>>

Release(w) ==
  /\ ramp[w].pc = "sent" /\ lastRamp' = clock
  /\ ramp' = [ramp EXCEPT ![w] = [@ EXCEPT !.pc = "done", !.done = clock, !.prompt = Never]]
  /\ UNCHANGED <<clock, provider, turn, begun, surface, former, made, recorded, cached, warm,
                 crossed>>

PwNext ==
  \/ Wait \/ ProviderMoves
  \/ (\E kicad \in BOOLEAN : BeginTurn(kicad)) \/ AddContext \/ Record \/ Send
  \/ WarmSend \/ WarmFails \/ WarmRecord
  \/ \E w \in Ramps : Check(w) \/ Acquire(w) \/ Replay(w) \/ Release(w)

PwSpec == PwInit /\ [][PwNext]_prewarmVars

-----------------------------------------------------------------------------
PrewarmTypeOK ==
  /\ provider \in {"cold", "warming", "ready"} /\ warm \in {"build", "record", "done"}
  /\ turn.pc \in {"idle", "context", "record", "send"} /\ turn.rounds \in 0 .. Rounds
  /\ {recorded, cached} \subseteq 0 .. made /\ lastRamp \in 0 .. clock
  /\ \A w \in Ramps : ramp[w].pc \in {"new", "over", "checked", "sending", "sent", "done"}

\* A tool that comes or goes costs the server the end of its cached prefix and never
\* one of the tools that are always there, and a list of the same tools is the same
\* list, whatever order the servers are in.
SurfaceIsSteady ==
  /\ SubSeq(former, 1, Cardinality(Stable)) = SubSeq(surface, 1, Cardinality(Stable))
  /\ ToSet(former) = ToSet(surface) => former = surface

\* A model without the KiCad tools is told why when the provider is not ready as the
\* note is written, and one that has the tools is never told that it lacks them.
NotesAreTrue == turn.note => turn.kicad /\ Kicad \cap ToSet(surface) = {}

\* The next turn finds the prompt that was sent last in the server's cache, whatever
\* was replayed in between; only a warm-up that a turn or another warm-up overlapped
\* may leave an older one there (the check and the request are not one step).
ReplayIsExact ==
  ~crossed /\ turn.pc # "send" /\ ~(warm = "record") /\ recorded # Never
    => cached = recorded

\* Two pre-ramps come closer than the interval only when both had looked before the
\* first was through: the check is not under the request lock.
RampsAreSpaced ==
  \A v, w \in Ramps :
    /\ v # w => ~({v, w} \subseteq Sending)
    /\ ramp[v].pc = "done" /\ ramp[w].pc \in {"checked", "sending", "sent", "done"}
       /\ ramp[v].done < ramp[w].at => ramp[w].at - ramp[v].done >= Interval

=============================================================================
