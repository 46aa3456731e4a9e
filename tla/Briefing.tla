------------------------------ MODULE Briefing ------------------------------
(* Briefings (butler/awareness/briefing): a due moment becomes an outbox item  *)
(* whose payload holds the selection, the handler tells it in parts through    *)
(* the voice channel, and the notification lane owns the same notices.         *)
EXTENDS Integers, Sequences, FiniteSets

CONSTANTS Items,    \* candidates
          Critical, \* those of priority 1
          Noticed,  \* those that are attention items
          Roots,    \* due moments
          Morning,  \* those with a morning context
          Lanes,    \* briefing workers: of this process and of one before it
          MaxItems, \* briefing_max_items
          MaxAttempts, Parts,        \* bounds: attempts per item, parts per root
          Mishaps, \* bound: crashes, lost answers and retries by an operator
          Nights   \* bound: nights that begin

None == "none"

\* Every part but the last tells an item, so Parts bounds nothing.
ASSUME BriefingAssumption ==
  /\ Critical \subseteq Items /\ Noticed \subseteq Items /\ IsFiniteSet(Items)
  /\ Morning \subseteq Roots /\ MaxItems \in Nat \ {0} /\ MaxAttempts \in Nat \ {0}
  /\ Parts \in Nat /\ Cardinality(Items) <= Parts + 1 /\ {Mishaps, Nights} \subseteq Nat
  /\ None \notin Lanes

PartKeys == Roots \X (0 .. Parts)

VARIABLES work,   \* [PartKeys -> outbox item: status, state, remaining, attempts, locked]
          hand,   \* [Lanes -> [pc, key, remaining, batch, attempts, ok]]
          lock,   \* who holds advisory lock 9009009
          receipts, \* items with a delivered row in the ledger
          attn,   \* [Noticed -> delivery_status, "none" before it is raised]
          notice, \* [Noticed -> status of its notification outbox item]
          dismissed, \* items whose class the owner dismissed
          quiet, nights,
          told,   \* [Items -> times a channel took it]
          chosen, \* [Roots -> what select() returned]
          crashes, losses, retries

bfVars == <<work, hand, lock, receipts, attn, notice, dismissed, quiet, nights,
            told, chosen, crashes, losses, retries>>
accounts == <<receipts, attn, notice, dismissed>>
outside == <<quiet, nights, crashes, losses, retries>>

MayGoWrong == crashes + losses + retries < Mishaps

AtRest == [pc |-> "idle", key |-> <<None, 0>>, remaining |-> {}, batch |-> {},
         attempts |-> 0, ok |-> FALSE]

PartRec ==
  [status : {"none", "pending", "completed", "dead"},
   state : {"new", "prepared", "silent", "delivered"},
   remaining : SUBSET Items, attempts : 0 .. MaxAttempts, locked : BOOLEAN]

HandRec ==
  [pc : {"idle", "lock", "load", "prepare", "recheck", "send", "record", "complete",
         "fail", "defer"},
   key : PartKeys \cup {AtRest.key}, remaining : SUBSET Items, batch : SUBSET Items,
   attempts : 0 .. MaxAttempts, ok : BOOLEAN]

BriefingTypeOK ==
  /\ work \in [PartKeys -> PartRec] /\ hand \in [Lanes -> HandRec]
  /\ lock \in Lanes \cup {None}
  /\ receipts \subseteq Items /\ dismissed \subseteq Items
  /\ attn \in [Noticed -> {"none", "pending", "delivered"}]
  /\ notice \in [Noticed -> {"none", "pending", "completed", "dead"}]
  /\ quiet \in BOOLEAN /\ told \in [Items -> Nat] /\ chosen \in [Roots -> SUBSET Items]
  /\ crashes \in Nat /\ losses \in Nat /\ retries \in Nat /\ nights \in Nat

BfInit ==
  /\ work = [k \in PartKeys |-> [status |-> "none", state |-> "new", remaining |-> {},
                             attempts |-> 0, locked |-> FALSE]]
  /\ hand = [w \in Lanes |-> AtRest] /\ lock = None
  /\ receipts = {} /\ dismissed = {}
  /\ attn = [i \in Noticed |-> "none"] /\ notice = [i \in Noticed |-> "none"]
  /\ quiet \in BOOLEAN /\ nights = 0
  /\ told = [i \in Items |-> 0] /\ chosen = [r \in Roots |-> {}]
  /\ crashes = 0 /\ losses = 0 /\ retries = 0

-----------------------------------------------------------------------------
(* unavailable_ids, apply_preferences: what may still be told.                *)

\* Mutant: a notification that is still to be sent does not count.
Unavailable_Fault(i) ==
  i \in receipts \/ (i \in Noticed /\ attn[i] # "pending")

Unavailable(i) ==
  i \in receipts \/ (i \in Noticed /\ (notice[i] = "pending" \/ attn[i] # "pending"))
Wanted(S) == {i \in S : ~Unavailable(i) /\ ~(i \in dismissed /\ i \notin Critical)}

\* The first max_items of a selection, the critical ones before the others.
Batches(S) ==
  {B \in SUBSET S :
     /\ Cardinality(B) = (IF Cardinality(S) < MaxItems THEN Cardinality(S) ELSE MaxItems)
     /\ (\E i \in B : i \notin Critical) => (S \cap Critical) \subseteq B}

\* select(): every critical candidate, and others up to the cap.
Selections(S) ==
  {B \in SUBSET S :
     /\ (S \cap Critical) \subseteq B
     /\ \/ B \subseteq Critical
        \/ Cardinality(B) <= MaxItems}

-----------------------------------------------------------------------------
(* The moments, and the lane's bookkeeping.                                   *)

EnqueueDue(r) ==
  /\ work[<<r, 0>>].status = "none"
  /\ work' = [work EXCEPT ![<<r, 0>>].status = "pending"]
  /\ UNCHANGED <<hand, lock, accounts, outside, told, chosen>>

Claim(w) ==
  /\ hand[w].pc = "idle"
  /\ \E k \in PartKeys :
       /\ work[k].status = "pending" /\ ~work[k].locked
       /\ work' = [work EXCEPT ![k].locked = TRUE]
       /\ hand' = [hand EXCEPT ![w] = [AtRest EXCEPT !.pc = "lock", !.key = k,
                                                   !.attempts = work[k].attempts]]
  /\ UNCHANGED <<lock, accounts, outside, told, chosen>>

\* outbox_stale_lock_seconds went by.
LockGoesStale(k) ==
  /\ work[k].locked
  /\ work' = [work EXCEPT ![k].locked = FALSE]
  /\ UNCHANGED <<hand, lock, accounts, outside, told, chosen>>

\* OutboxDeferred: no attempt is counted.
Defer(w) ==
  /\ hand[w].pc = "defer"
  /\ work' = [work EXCEPT ![hand[w].key].locked = FALSE]
  /\ hand' = [hand EXCEPT ![w] = AtRest]
  /\ UNCHANGED <<lock, accounts, outside, told, chosen>>

Complete(w) ==
  /\ hand[w].pc = "complete"
  /\ work' = [work EXCEPT ![hand[w].key].status = "completed", ![hand[w].key].locked = FALSE]
  /\ hand' = [hand EXCEPT ![w] = AtRest]
  /\ UNCHANGED <<lock, accounts, outside, told, chosen>>

\* Mutant: the bound is looked at before the attempt is counted.
Fail_Fault(w) ==
  /\ hand[w].pc = "fail"
  /\ LET n == hand[w].attempts
     IN work' = [work EXCEPT ![hand[w].key] =
          [@ EXCEPT !.attempts = n + 1, !.locked = FALSE,
                    !.status = IF n >= MaxAttempts THEN "dead" ELSE @]]
  /\ hand' = [hand EXCEPT ![w] = AtRest]
  /\ UNCHANGED <<lock, accounts, outside, told, chosen>>

Fail(w) ==
  /\ hand[w].pc = "fail"
  /\ LET k == hand[w].key
         n == hand[w].attempts + 1
     IN work' = [work EXCEPT ![k].attempts = n, ![k].locked = FALSE,
                   ![k].status = IF n >= MaxAttempts THEN "dead" ELSE @]
  /\ hand' = [hand EXCEPT ![w] = AtRest]
  /\ UNCHANGED <<lock, accounts, outside, told, chosen>>

-----------------------------------------------------------------------------
(* BriefingHandler under the advisory lock.                                   *)

TakeLock(w) ==
  /\ hand[w].pc = "lock"
  /\ IF lock = None
       THEN lock' = w /\ hand' = [hand EXCEPT ![w].pc = "load"]
       ELSE UNCHANGED lock /\ hand' = [hand EXCEPT ![w].pc = "defer"]
  /\ UNCHANGED <<work, accounts, outside, told, chosen>>

\* Out of the serialized block: the lock is given back first.
Leave(w, pc) ==
  /\ hand' = [hand EXCEPT ![w].pc = pc]
  /\ lock' = IF lock = w THEN None ELSE lock

Load(w) ==
  /\ hand[w].pc = "load"
  /\ LET p == work[hand[w].key]
     IN IF p.state \in {"delivered", "silent"}
          THEN Leave(w, "complete")
          ELSE /\ hand' = [hand EXCEPT ![w].remaining = p.remaining,
                             ![w].pc = IF p.state = "new" THEN "prepare" ELSE "recheck"]
               /\ UNCHANGED lock
  /\ UNCHANGED <<work, accounts, outside, told, chosen>>

\* The assembler's snapshot, the ranking and the save of the payload, or an error.
Prepare(w) ==
  /\ hand[w].pc = "prepare"
  /\ \/ LET k == hand[w].key
        IN \E S \in Selections(Wanted(Items)) :
             /\ work' = [work EXCEPT ![k].remaining = S,
                          ![k].state = IF S # {} \/ k[1] \in Morning THEN "prepared" ELSE "silent"]
             /\ chosen' = [chosen EXCEPT ![k[1]] = S]
             /\ IF S # {} \/ k[1] \in Morning
                  THEN hand' = [hand EXCEPT ![w].remaining = S, ![w].pc = "recheck"] /\ UNCHANGED lock
                  ELSE Leave(w, "complete")
     \/ Leave(w, "fail") /\ UNCHANGED <<work, chosen>>
  /\ UNCHANGED <<accounts, outside, told>>

\* What has become unavailable or unwanted since is dropped; in quiet hours only
\* critical items are told, and the morning context is not.
Recheck(w) ==
  /\ hand[w].pc = "recheck"
  /\ LET k == hand[w].key
         left == Wanted(hand[w].remaining)
         context == k[1] \in Morning /\ k[2] = 0
         now == IF quiet THEN left \cap Critical ELSE left
     IN \/ /\ left = {} /\ ~context
           /\ work' = [work EXCEPT ![k].state = "silent", ![k].remaining = {}]
           /\ Leave(w, "complete")
        \/ /\ left # {} \/ context
           /\ now = {} /\ (quiet \/ ~context)
           /\ work' = [work EXCEPT ![k].remaining = left]
           /\ Leave(w, "defer")
        \/ /\ now # {} \/ (context /\ ~quiet)
           /\ \E B \in Batches(now) :
                hand' = [hand EXCEPT ![w].remaining = left, ![w].batch = B, ![w].pc = "send"]
           /\ UNCHANGED <<work, lock>>
  /\ UNCHANGED <<accounts, outside, told, chosen>>

\* The adapter: accepted, refused, or accepted with the answer lost.
Send(w) ==
  /\ hand[w].pc = "send"
  /\ \/ /\ told' = [i \in Items |-> told[i] + (IF i \in hand[w].batch THEN 1 ELSE 0)]
        /\ \/ hand' = [hand EXCEPT ![w].pc = "record", ![w].ok = TRUE] /\ UNCHANGED losses
           \/ /\ MayGoWrong /\ losses' = losses + 1
              /\ hand' = [hand EXCEPT ![w].pc = "record"]
     \/ hand' = [hand EXCEPT ![w].pc = "record"] /\ UNCHANGED <<told, losses>>
  /\ UNCHANGED <<work, lock, accounts, quiet, nights, crashes, retries, chosen>>

\* The receipt, the attention items, this part and the next in one transaction.
Record(w) ==
  /\ hand[w].pc = "record"
  /\ LET k == hand[w].key
         next == <<k[1], k[2] + 1>>
         after == hand[w].remaining \ hand[w].batch
     IN IF ~hand[w].ok
          THEN Leave(w, "fail") /\ UNCHANGED <<work, receipts, attn>>
          ELSE /\ receipts' = receipts \cup hand[w].batch
               /\ attn' = [i \in Noticed |-> IF i \in hand[w].batch /\ attn[i] = "pending"
                                               THEN "delivered" ELSE attn[i]]
               /\ work' = [j \in PartKeys |->
                    IF j = k THEN [work[j] EXCEPT !.state = "delivered", !.remaining = {}]
                    ELSE IF j = next /\ after # {} /\ work[j].status = "none"
                      THEN [work[j] EXCEPT !.status = "pending", !.state = "prepared",
                                           !.remaining = after]
                    ELSE work[j]]
               /\ Leave(w, "complete")
  /\ UNCHANGED <<notice, dismissed, outside, told, chosen>>

\* The process ends: the session lock goes with its connection.
Crash ==
  /\ MayGoWrong /\ crashes' = crashes + 1
  /\ hand' = [w \in Lanes |-> AtRest] /\ lock' = None
  /\ UNCHANGED <<work, accounts, quiet, nights, losses, retries, told, chosen>>

-----------------------------------------------------------------------------
(* The notification lane (Attention has it in detail), the owner, the clock.  *)

Raise(i) ==
  /\ attn[i] = "none"
  /\ attn' = [attn EXCEPT ![i] = "pending"] /\ notice' = [notice EXCEPT ![i] = "pending"]
  /\ UNCHANGED <<work, hand, lock, receipts, dismissed, outside, told, chosen>>

Notify(i) ==
  /\ notice[i] = "pending"
  /\ \/ /\ told' = [told EXCEPT ![i] = @ + 1]
        /\ receipts' = receipts \cup {i}
        /\ attn' = [attn EXCEPT ![i] = "delivered"]
        /\ notice' = [notice EXCEPT ![i] = "completed"]
     \/ notice' = [notice EXCEPT ![i] = "dead"] /\ UNCHANGED <<told, receipts, attn>>
  /\ UNCHANGED <<work, hand, lock, dismissed, outside, chosen>>

\* An operator puts a dead notification back.
RetryNotice(i) ==
  /\ notice[i] = "dead" /\ MayGoWrong /\ retries' = retries + 1
  /\ notice' = [notice EXCEPT ![i] = "pending"]
  /\ UNCHANGED <<work, hand, lock, receipts, attn, dismissed, quiet, nights, crashes, losses, told, chosen>>

\* apply_preferences keeps critical items whatever was dismissed.
Dismiss(i) ==
  /\ i \notin dismissed \cup Critical /\ dismissed' = dismissed \cup {i}
  /\ UNCHANGED <<work, hand, lock, receipts, attn, notice, outside, told, chosen>>

QuietHours ==
  /\ IF quiet THEN UNCHANGED nights ELSE nights < Nights /\ nights' = nights + 1
  /\ quiet' = ~quiet
  /\ UNCHANGED <<work, hand, lock, accounts, crashes, losses, retries, told, chosen>>

-----------------------------------------------------------------------------
Handle(w) ==
  \/ TakeLock(w) \/ Load(w) \/ Prepare(w) \/ Recheck(w) \/ Send(w) \/ Record(w)
  \/ Defer(w) \/ Complete(w) \/ Fail(w)

BfNext ==
  \/ \E r \in Roots : EnqueueDue(r)
  \/ \E w \in Lanes : Claim(w) \/ Handle(w)
  \/ \E k \in PartKeys : LockGoesStale(k)
  \/ \E i \in Noticed : Raise(i) \/ Notify(i) \/ RetryNotice(i)
  \/ \E i \in Items : Dismiss(i)
  \/ Crash \/ QuietHours

\* The lane's loop goes on, a stale lock expires, a night ends.
BfFairness ==
  /\ \A w \in Lanes : WF_bfVars(Handle(w)) /\ WF_bfVars(Claim(w))
  /\ \A k \in PartKeys : WF_bfVars(LockGoesStale(k))
  /\ WF_bfVars(quiet /\ QuietHours)

BfSpec == BfInit /\ [][BfNext]_bfVars /\ BfFairness

-----------------------------------------------------------------------------
(* The parts, the other due moments, retries of the outbox and the notification *)
(* lane share the items: one is told again only after a crash or a lost answer,  *)
(* or because an operator put its notification back.                             *)
RepeatsAreExplained ==
  \A i \in Items : told[i] <= 1 + crashes + losses + (IF i \in Noticed THEN retries ELSE 0)

(* What was selected is not lost between the parts: it is told, still remains    *)
(* in a part that is open or visibly dead, or was the owner's or the             *)
(* notification lane's to drop.                                                  *)
ChosenAreKept ==
  \A r \in Roots : \A i \in chosen[r] :
    \/ told[i] > 0 \/ i \in Noticed \/ (i \in dismissed /\ i \notin Critical)
    \/ \E n \in 0 .. Parts : i \in work[<<r, n>>].remaining
                             /\ work[<<r, n>>].status \in {"pending", "dead"}

(* Of a briefing an item is heard again only for a reason, and none is lost.     *)
BriefingsAreFaithful == RepeatsAreExplained /\ ChosenAreKept

(* Every part that is due ends: told, silent or dead-lettered; deferrals for     *)
(* the night or for the lock do not go on for ever.                              *)
BriefingsSettle ==
  \A k \in PartKeys : (work[k].status = "pending") ~> (work[k].status \in {"completed", "dead"})

=============================================================================
