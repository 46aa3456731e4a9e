----------------------------- MODULE Forgetting -----------------------------
(* What is forgotten, and when: the conversation store of the main agent      *)
(* (butler/memory/store.py), the response ids the runtime remembers, and the  *)
(* three ways to clear them -- the text server's reset of a session, the      *)
(* launcher's chat clear through a connection of its own, and its full clear  *)
(* of both memories (butler/launcher/maintenance.py) -- while turns of the     *)
(* session run.  A turn stands for what it leaves behind: its two messages,    *)
(* its line of the summary, its place in the response chain, its fact.         *)
EXTENDS FiniteSets, Integers

CONSTANTS Turns,   \* the turns of the one session, in either form
          Chained, \* those of run_command: they read the summary and the chain
          About,   \* the facts, by turn, that a turn's words match
          Starts,  \* bound: starts of the main agent
          Wipes,   \* bound: clears pressed
          WipeFaults \* subset of {"busy", "mirror", "docker", "truncate"}

ASSUME ForgettingAssumption ==
  /\ IsFiniteSet(Turns) /\ Chained \subseteq Turns /\ About \in [Turns -> SUBSET Turns]
  /\ Starts \in Nat /\ Wipes \in Nat
  /\ WipeFaults \subseteq {"busy", "mirror", "docker", "truncate"}

VARIABLES store,   \* [row, messages, summary, facts] of the file on disk
          held,    \* the main agent holds the file open
          chain,   \* the turns behind the remembered response id, {} for none
          mirror,  \* facts in the awareness memory
          up,      \* the main agent runs
          steps,   \* steps[t]: where a turn is, and what it has in hand
          wipe,    \* the clear under way
          told,    \* what the launcher said of its last full clear
          before,  \* turns begun when that clear was pressed
          known,   \* facts remembered since the store was last emptied
          gone,    \* turns whose rows a clear deleted
          across,  \* a turn was under way, or a whole one ran, while a clear did
          spared,  \* turns cleared by the launcher, which has no response ids
          relapsed,\* a turn was shown what had been cleared
          starts, wipes

fgVars == <<store, held, chain, mirror, up, steps, wipe, told, before, known, gone,
            across, spared, relapsed, starts, wipes>>
ghosts == <<told, before, known, gone, across, spared, relapsed>>
dead == <<told, before, gone, across, spared, relapsed>>

Stages == {"new", "read", "asked", "answered", "row", "stored", "rows", "done"}
Running(t) == steps[t].pc \notin {"new", "done"}
Begun == {t \in Turns : steps[t].pc # "new"}

ForgettingTypeOK ==
  /\ store \in [row : BOOLEAN, messages : SUBSET Turns, summary : SUBSET Turns,
                facts : SUBSET Turns]
  /\ {held, up, across, relapsed} \subseteq BOOLEAN
  /\ steps \in [Turns -> [pc : Stages, chain : SUBSET Turns, rows : SUBSET Turns]]
  /\ wipe \in {"none", "reset", "chat", "listed", "main", "sidecars", "docker", "truncate"}
  /\ told \in {"nothing", "cleared", "failed"}
  /\ chain \cup mirror \cup before \cup known \cup gone \cup spared \subseteq Turns
  /\ starts \in 0 .. Starts /\ wipes \in 0 .. Wipes

\* A store just created: four empty tables.
Empty == [row |-> FALSE, messages |-> {}, summary |-> {}, facts |-> {}]

FgInit ==
  /\ store = Empty /\ held = FALSE /\ chain = {} /\ mirror = {} /\ up = FALSE
  /\ steps = [t \in Turns |-> [pc |-> "new", chain |-> {}, rows |-> {}]]
  /\ wipe = "none" /\ told = "nothing" /\ before = {} /\ known = {} /\ gone = {}
  /\ across = FALSE /\ spared = {} /\ relapsed = FALSE /\ starts = 0 /\ wipes = 0

-----------------------------------------------------------------------------
(* A turn.                                                                    *)

\* The facts shown to a turn: those its words match, else the first of all.
Found(t) == LET hits == About[t] \cap store.facts
            IN IF hits # {} THEN hits ELSE store.facts

\* The dialogue a turn is shown: the messages, or the summary and the chain.
PromptMemory(t) == IF t \in Chained THEN store.summary \cup chain ELSE store.messages

\* A turn opens the store, writes its session row and reads; two turns of one form
\* take the same lock.
Begin(t) ==
  /\ up /\ steps[t].pc = "new"
  /\ \A u \in Turns : Running(u) => (u \in Chained) # (t \in Chained)
  /\ held' = TRUE
  /\ store' = [store EXCEPT !.row = TRUE]
  /\ steps' = [steps EXCEPT ![t] = [pc |-> "read", chain |-> chain, rows |-> {}]]
  /\ relapsed' = \/ relapsed
                 \/ ~across /\ ~(PromptMemory(t) \cap gone \subseteq spared)
                 \/ told = "cleared" /\ Found(t) \cap before # {}
  /\ UNCHANGED <<chain, mirror, up, wipe, told, before, known, gone, across, spared, starts,
                 wipes>>

\* remember_memory_fact: the conversation store first.
RememberFact(t) ==
  /\ steps[t].pc = "read"
  /\ steps' = [steps EXCEPT ![t].pc = "asked"]
  /\ store' = [store EXCEPT !.facts = @ \cup {t}]
  /\ known' = known \cup {t}
  /\ UNCHANGED <<held, chain, mirror, up, wipe, dead, starts, wipes>>

\* The model answers; a chained turn remembers the response's id.  The copy of a fact
\* for the awareness memory was posted before that, or could not be.
Respond(t) ==
  /\ steps[t].pc \in {"read", "asked"}
  /\ steps' = [steps EXCEPT ![t].pc = "answered"]
  /\ chain' = IF t \in Chained THEN steps[t].chain \cup {t} ELSE chain
  /\ \/ mirror' = IF steps[t].pc = "asked" THEN mirror \cup {t} ELSE mirror
     \/ "mirror" \in WipeFaults /\ UNCHANGED mirror
  /\ across' = (across \/ wipe = "reset")
  /\ UNCHANGED <<store, held, up, wipe, told, before, known, gone, spared, relapsed, starts,
                 wipes>>

\* record_turn commits the session row before the transaction of the messages.
RecordSession(t) ==
  /\ steps[t].pc = "answered"
  /\ steps' = [steps EXCEPT ![t].pc = "row"]
  /\ store' = [store EXCEPT !.row = TRUE]
  /\ UNCHANGED <<held, chain, mirror, up, wipe, ghosts, starts, wipes>>

\* Without its session row a message is refused by the foreign key: the turn is only
\* in the log.
RecordTurn(t) ==
  /\ steps[t].pc = "row"
  /\ steps' = [steps EXCEPT ![t].pc = IF store.row THEN "stored" ELSE "done"]
  /\ store' = IF store.row THEN [store EXCEPT !.messages = @ \cup {t}] ELSE store
  /\ UNCHANGED <<held, chain, mirror, up, wipe, ghosts, starts, wipes>>

\* The summary is read from the rows under the lock and written in another transaction.
ReadRows(t) ==
  /\ steps[t].pc = "stored"
  /\ steps' = [steps EXCEPT ![t].pc = IF store.messages = {} THEN "done" ELSE "rows",
                            ![t].rows = store.messages]
  /\ UNCHANGED <<store, held, chain, mirror, up, wipe, ghosts, starts, wipes>>

UpsertSummary(t) ==
  /\ steps[t].pc = "rows"
  /\ steps' = [steps EXCEPT ![t].pc = "done"]
  /\ store' = [store EXCEPT !.summary = steps[t].rows]
  /\ UNCHANGED <<held, chain, mirror, up, wipe, ghosts, starts, wipes>>

Turn(t) == \/ Begin(t) \/ RememberFact(t) \/ Respond(t) \/ RecordSession(t)
           \/ RecordTurn(t) \/ ReadRows(t) \/ UpsertSummary(t)

\* The launcher starts the main agent, also while it clears; only one start waits.
StartAgent ==
  /\ ~up /\ starts < Starts
  /\ up' = TRUE /\ starts' = starts + 1
  /\ UNCHANGED <<store, held, chain, mirror, steps, wipe, ghosts, wipes>>

\* With the process go its turns, its response ids and a reset it had begun.
StopAgent ==
  /\ up
  /\ up' = FALSE /\ held' = FALSE /\ chain' = {}
  /\ steps' = [t \in Turns |-> IF Running(t) THEN [steps[t] EXCEPT !.pc = "done"] ELSE steps[t]]
  /\ wipe' = IF wipe = "reset" THEN "none" ELSE wipe
  /\ UNCHANGED <<store, mirror, ghosts, starts, wipes>>

-----------------------------------------------------------------------------
(* The clears.                                                                *)

\* The summary and the session row are deleted, and with the row its messages; facts
\* are not touched.
Cleared == [store EXCEPT !.row = FALSE, !.messages = {}, !.summary = {}]

ClearSession ==
  /\ store' = Cleared
  /\ gone' = gone \cup store.messages \cup store.summary
  /\ across' = (across \/ \E t \in Turns : Running(t))

\* Mutant: the response ids are kept, only the rows go.
ResetSession_Fault ==
  /\ up /\ wipe = "none" /\ wipes < Wipes
  /\ wipe' = "reset" /\ wipes' = wipes + 1
  /\ UNCHANGED <<store, held, chain, mirror, up, steps, ghosts, starts>>

\* /reset-session, in a thread of the agent: no conversation lock.
ResetSession ==
  /\ up /\ wipe = "none" /\ wipes < Wipes
  /\ wipe' = "reset" /\ wipes' = wipes + 1
  /\ chain' = {}
  /\ UNCHANGED <<store, held, mirror, up, steps, ghosts, starts>>

ResetStore ==
  /\ wipe = "reset"
  /\ wipe' = "none" /\ held' = TRUE
  /\ ClearSession
  /\ UNCHANGED <<chain, mirror, up, steps, told, before, known, spared, relapsed, starts,
                 wipes>>

\* "Clear chat history": whether Butler runs or not.
PressChatClear ==
  /\ wipe = "none" /\ wipes < Wipes
  /\ wipe' = "chat" /\ wipes' = wipes + 1
  /\ UNCHANGED <<store, held, chain, mirror, up, steps, ghosts, starts>>

\* The sessions are listed by their rows: a summary without one is not found.
ListSessions ==
  /\ wipe = "chat"
  /\ wipe' = IF store.row THEN "listed" ELSE "none"
  /\ UNCHANGED <<store, held, chain, mirror, up, steps, ghosts, starts, wipes>>

ClearListed ==
  /\ wipe = "listed"
  /\ wipe' = "none"
  /\ \/ /\ ClearSession
        /\ spared' = spared \cup store.messages \cup store.summary
     \/ /\ "busy" \in WipeFaults
        /\ UNCHANGED <<store, gone, across, spared>>
  /\ UNCHANGED <<held, chain, mirror, up, steps, told, before, known, relapsed, starts,
                 wipes>>

\* "Clear all memory": the window refuses while Butler runs, the command line does not
\* look.
PressClearAll(fromWindow) ==
  /\ wipe = "none" /\ wipes < Wipes
  /\ fromWindow => ~up
  /\ wipe' = "main" /\ wipes' = wipes + 1
  /\ before' = Begun /\ told' = "nothing"
  /\ UNCHANGED <<store, held, chain, mirror, up, steps, known, gone, across, spared, relapsed,
                 starts>>

\* A file that is open cannot be deleted (Windows): the clear ends there.
Unlink(next) ==
  IF held THEN wipe' = "none" /\ told' = "failed" ELSE wipe' = next /\ UNCHANGED told

UnlinkStore ==
  /\ wipe = "main"
  /\ Unlink("sidecars")
  /\ IF held THEN UNCHANGED <<store, known>> ELSE store' = Empty /\ known' = {}
  /\ UNCHANGED <<held, chain, mirror, up, steps, before, gone, across, spared, relapsed,
                 starts, wipes>>

UnlinkSidecars ==
  /\ wipe = "sidecars"
  /\ Unlink("docker")
  /\ UNCHANGED <<store, held, chain, mirror, up, steps, before, known, gone, across, spared,
                 relapsed, starts, wipes>>

\* The awareness half comes second: its database may not come up, or not truncate.
EnsureDatabase ==
  /\ wipe = "docker"
  /\ \/ wipe' = "truncate" /\ UNCHANGED told
     \/ "docker" \in WipeFaults /\ wipe' = "none" /\ told' = "failed"
  /\ UNCHANGED <<store, held, chain, mirror, up, steps, before, known, gone, across, spared,
                 relapsed, starts, wipes>>

TruncateMemories ==
  /\ wipe = "truncate"
  /\ wipe' = "none"
  /\ \/ mirror' = {} /\ told' = "cleared"
     \/ "truncate" \in WipeFaults /\ told' = "failed" /\ UNCHANGED mirror
  /\ UNCHANGED <<store, held, chain, up, steps, before, known, gone, across, spared, relapsed,
                 starts, wipes>>

FgNext ==
  \/ \E t \in Turns : Turn(t)
  \/ StartAgent \/ StopAgent
  \/ ResetSession \/ ResetStore
  \/ PressChatClear \/ ListSessions \/ ClearListed
  \/ \E fromWindow \in BOOLEAN : PressClearAll(fromWindow)
  \/ UnlinkStore \/ UnlinkSidecars \/ EnsureDatabase \/ TruncateMemories

-----------------------------------------------------------------------------

\* A remembered fact outlives every reset and chat clear: it leaves the store with the
\* file alone (clear_session deletes no facts).
FactsOutliveClears == known \subseteq store.facts

\* Dialogue a clear deleted comes back neither into the store nor into the chain of
\* responses, and no later turn is shown it -- unless a turn was under way when the rows
\* went, or, for the chain, the launcher cleared them: its process has no ids.
ClearedStaysCleared ==
  ~across => /\ gone \cap (store.messages \cup store.summary) = {}
             /\ gone \cap chain \subseteq spared
             /\ ~relapsed

\* The launcher says "memory cleared" only when nothing that existed at the press is
\* left in either memory, and no turn is shown it again.
ClearAllTellsTheTruth ==
  told = "cleared" => before \cap (store.messages \cup store.summary \cup store.facts
                                   \cup mirror \cup chain) = {}

\* What is forgotten stays forgotten unless a turn ran across, facts outlive all but the
\* full clear, and that one says "cleared" when it is (clear_session, clear_all_memory).
MemoryIsHonest == FactsOutliveClears /\ ClearedStaysCleared /\ ClearAllTellsTheTruth

=============================================================================
