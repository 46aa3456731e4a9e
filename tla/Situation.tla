------------------------------- MODULE Situation -------------------------------
(* The picture of the house the agent answers from: the broker reads alerts,    *)
(* attention and presence one query after the other, keeps what fits a budget   *)
(* (awareness/context/broker.py), and the agent's process keeps the answer for  *)
(* a few seconds (services/awareness_client.py).                                *)
EXTENDS Integers, Sequences, FiniteSets, SequencesExt

CONSTANTS
  Alerts, Critical,          \* the alerts, and those of severity critical
  Items, Passive, Immediate, \* the attention items, by interruptibility
  ById,      \* every item id of a snapshot, in the order of the ids
  Cost,      \* the tokens of each
  Budget,    \* situation_budget_tokens
  Section,   \* situation_max_items_per_section
  Life,      \* _SITUATION_CACHE_SECONDS, in ticks
  Askers,    \* the threads that ask: the router, the text server
  Asks, Ticks \* bounds on the questions and on the clock

SituationAssumption ==
  /\ Critical \subseteq Alerts /\ Passive \cup Immediate \subseteq Items
  /\ Alerts \cap Items = {} /\ {"presence", "house"} \cap (Alerts \cup Items) = {}
  /\ IsFiniteSet(Alerts \cup Items) /\ ById \in Seq(Alerts \cup Items \cup {"presence", "house"})
  /\ ToSet(ById) = Alerts \cup Items \cup {"presence", "house"} /\ IsInjective(ById)
  /\ Cost \in [ToSet(ById) -> Nat \ {0}]
  /\ {Budget, Section, Life, Ticks} \subseteq Nat \ {0} /\ Asks \in Nat

VARIABLES
  clock,
  since,    \* alert -> when it was opened; 0 not yet, -1 when resolved
  latest,   \* the open alerts, the last opened first
  pending,  \* the attention items that wait
  seen,     \* whether a presence of the owner was ever recorded
  topic,    \* the items whose entities the recent interactions named
  cache,    \* the snapshot that is kept, and when it was asked for
  left,     \* the questions still to come
  asker     \* each asker's question and its answer

sitVars == <<clock, since, latest, pending, seen, topic, cache, left, asker>>

NoPicture == [items |-> {}, used |-> 0, crowded |-> FALSE]
NoAnswer == [pc |-> "rest", asked |-> 0, focus |-> [present |-> FALSE, about |-> {}],
             found |-> {}, crowded |-> FALSE, told |-> NoPicture]

SiInit ==
  /\ clock = 0 /\ since = [a \in Alerts |-> 0] /\ latest = <<>> /\ pending = {}
  /\ seen = FALSE /\ topic = {} /\ cache = [at |-> -1, picture |-> NoPicture]
  /\ left = Asks /\ asker = [q \in Askers |-> NoAnswer]

-----------------------------------------------------------------------------
(* The house goes on                                                           *)

Wait == clock < Ticks /\ clock' = clock + 1
        /\ UNCHANGED <<since, latest, pending, seen, topic, cache, left, asker>>

Opens(a) ==
  /\ since[a] = 0 /\ since' = [since EXCEPT ![a] = clock + 1] /\ latest' = <<a>> \o latest
  /\ UNCHANGED <<clock, pending, seen, topic, cache, left, asker>>

Resolves(a) ==
  /\ since' = [since EXCEPT ![a] = -1]
  /\ \E n \in DOMAIN latest : latest[n] = a /\ latest' = RemoveAt(latest, n)
  /\ UNCHANGED <<clock, pending, seen, topic, cache, left, asker>>

Raises(i) ==
  /\ i \notin pending /\ pending' = pending \cup {i}
  /\ UNCHANGED <<clock, since, latest, seen, topic, cache, left, asker>>

\* Somebody speaks, maybe about the entity of an item.
Speaks(about) ==
  /\ seen' = TRUE /\ topic' = topic \cup about
  /\ UNCHANGED <<clock, since, latest, pending, cache, left, asker>>

-----------------------------------------------------------------------------
(* SituationBroker.build                                                       *)

FirstOf(s, n) == SubSeq(s, 1, IF Len(s) < n THEN Len(s) ELSE n)

\* The priority of a candidate: its band, and in the band its relevance.
Relevance(i, focus) == (IF i \in focus.about THEN 2 ELSE 0) + (IF i \in Immediate THEN 1 ELSE 0)
Place(i, focus) ==
  IF i \in Critical THEN 0
  ELSE IF i \in Alerts THEN 1
  ELSE IF i = "presence" THEN 2
  ELSE IF i \in Items THEN 6 - Relevance(i, focus) ELSE 7

\* By priority, in it by relevance, in it by id.
Before(i, j, focus) ==
  \/ Place(i, focus) < Place(j, focus)
  \/ /\ Place(i, focus) = Place(j, focus)
     /\ \E m, n \in DOMAIN ById : m < n /\ ById[m] = i /\ ById[n] = j

Spent(items) == Cardinality(UNION {{i} \X (1 .. Cost[i]) : i \in items})

\* select_items, in that order: what is critical always, everything else while it fits.
Selected(items, candidates, focus) ==
  \A i \in candidates :
    i \in items <=> \/ i \in Critical
                   \/ Spent({j \in items : Before(j, i, focus)}) + Cost[i] <= Budget

\* The presence of the owner is exempt from expiry: once recorded, it stays.
ReadFocus(q) ==
  /\ asker[q].pc = "focus"
  /\ asker' = [asker EXCEPT ![q].pc = "alerts", ![q].focus = [present |-> seen, about |-> topic]]
  /\ UNCHANGED <<clock, since, latest, pending, seen, topic, cache, left>>

ReadAlerts(q) ==
  /\ asker[q].pc = "alerts"
  /\ asker' = [asker EXCEPT ![q].pc = "attention", ![q].found = ToSet(FirstOf(latest, Section)),
                            ![q].crowded = Len(latest) > Section]
  /\ UNCHANGED <<clock, since, latest, pending, seen, topic, cache, left>>

\* What may only be raised in passing is withheld from an empty room.
Raisable(focus) == {i \in pending : i \in Passive => focus.present}

\* Qualified states, recent changes and sources that are not healthy: always some.
OfTheHouse == {"house"}

Candidates(q) ==
  asker[q].found \cup Raisable(asker[q].focus) \cup OfTheHouse
  \cup (IF asker[q].focus.present THEN {"presence"} ELSE {})

\* The last queries; the answer is kept with the time of the question.
ReadAttention(q) ==
  /\ asker[q].pc = "attention"
  /\ \E items \in SUBSET Candidates(q) :
       LET picture == [items |-> items, used |-> Spent(items), crowded |-> asker[q].crowded] IN
       /\ Selected(items, Candidates(q), asker[q].focus)
       /\ asker' = [asker EXCEPT ![q] = [NoAnswer EXCEPT !.pc = "told", !.asked = asker[q].asked,
                                                !.told = picture]]
       /\ cache' = [at |-> asker[q].asked, picture |-> picture]
  /\ UNCHANGED <<clock, since, latest, pending, seen, topic, left>>

-----------------------------------------------------------------------------
(* fetch_situation_text, snapshot_with_fallback                                *)

Kept == cache.at >= 0 /\ clock - cache.at < Life

Ask(q) ==
  /\ asker[q].pc \in {"rest", "told", "own"} /\ left > 0 /\ left' = left - 1
  /\ asker' = [asker EXCEPT ![q] =
       [NoAnswer EXCEPT !.asked = clock,
                        !.pc = IF Kept THEN "told" ELSE "focus",
                        !.told = IF Kept THEN cache.picture ELSE NoPicture]]
  /\ UNCHANGED <<clock, since, latest, pending, seen, topic, cache>>

\* Unreachable, refused or too late: the router's own snapshot is used instead.
FallBack(q) ==
  /\ asker[q].pc \in {"focus", "alerts", "attention"}
  /\ asker' = [asker EXCEPT ![q] = [NoAnswer EXCEPT !.pc = "own"]]
  /\ UNCHANGED <<clock, since, latest, pending, seen, topic, cache, left>>

Answer(q) == ReadFocus(q) \/ ReadAlerts(q) \/ ReadAttention(q) \/ FallBack(q)

SiNext ==
  \/ Wait
  \/ \E a \in Alerts : Opens(a) \/ Resolves(a)
  \/ \E i \in Items : Raises(i) \/ Speaks({i}) \/ Speaks({})
  \/ \E q \in Askers : Ask(q) \/ Answer(q)

SiSpec == SiInit /\ [][SiNext]_sitVars
-----------------------------------------------------------------------------
SituationTypeOK ==
  /\ clock \in 0 .. Ticks /\ since \in [Alerts -> -1 .. Ticks + 1]
  /\ ToSet(latest) \subseteq Alerts /\ pending \subseteq Items /\ topic \subseteq Items
  /\ cache.at \in -1 .. Ticks
  /\ \A q \in Askers : asker[q].pc \in {"rest", "focus", "alerts", "attention", "told", "own"}

Told(q) == asker[q].told.items

(* What the agent answers from shows every critical alert that was open for the  *)
(* life of the cache before the question, in a house with few open alerts.       *)
CriticalIsShown ==
  \A q \in Askers, a \in Critical :
    asker[q].pc = "told" /\ ~asker[q].told.crowded /\ a \in ToSet(latest)
      /\ since[a] - 1 <= asker[q].asked - Life
    => a \in Told(q)

(* The budget is exceeded by critical alerts alone, and what is only to be raised *)
(* in passing is told to nobody before a person was ever seen.                    *)
BudgetHolds ==
  \A q \in Askers : asker[q].pc = "told" =>
    /\ asker[q].told.used > Budget => Told(q) \subseteq Critical
    /\ Told(q) \cap Passive # {} => seen

(* Critical alerts are always included: the section's limit breaks it.           *)
CriticalAlwaysIncluded ==
  \A q \in Askers, a \in Critical :
    asker[q].pc = "told" /\ a \in ToSet(latest) /\ since[a] - 1 <= asker[q].asked - Life
    => a \in Told(q)
=============================================================================
