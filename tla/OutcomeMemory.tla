------------------------------ MODULE OutcomeMemory ------------------------------
(***************************************************************************)
(* The memory that the outcomes of one bug's findings leave in an          *)
(* organisation (packages/learning/src/consolidate-outcomes.ts).  Merges,  *)
(* threads and advisories each save their outcomes and then consolidate    *)
(* all of the last 90 days, at the same time as others do: a consolidation *)
(* reads the outcomes, reads the memories, deletes the one it replaces and *)
(* adds its own.                                                           *)
(***************************************************************************)
EXTENDS Naturals, FiniteSets

CONSTANTS
  Repos,
  MinRepoCount, MinOrgRepos, MinOrgCount, MinImportantCount, \* ConsolidateOptions
  MaxOutcomes,       \* bound: outcomes in the last 90 days
  MaxConsolidations, \* bound: how many consolidations there are
  MaxStoreFailures   \* bound: how often the memory store fails

ASSUME OutcomeConstants ==
  /\ IsFiniteSet(Repos)
  /\ {MinRepoCount, MinOrgRepos, MinOrgCount, MinImportantCount} \subseteq Nat \ {0}
  /\ {MaxOutcomes, MaxConsolidations, MaxStoreFailures} \subseteq Nat

Polarities == {"positive", "negative"}
Opposite(polarity) == IF polarity = "positive" THEN "negative" ELSE "positive"

\* Weights in hundredths.  The repository of an org memory is NoRepo.
NoRepo == "none"
Plans == [polarity : Polarities, scope : {"org", "repo"}, repo : Repos \cup {NoRepo},
          weight : 55..100]
NoPlan == [polarity |-> "none"]
Consolidations == 1..MaxConsolidations

VARIABLES
  outcomes,      \* how many outcomes there are, for each repository and polarity
  important,     \* some outcome is of high severity
  memories,      \* the bug's memories, numbered as they were added
  added,         \* how many were
  run,           \* each consolidation: where it is, its plan, the memory it replaces
  current,       \* consolidations since whose start no outcome was saved
  alone,         \* no two consolidations overlapped and no write failed so far
  consolidations, \* how many were begun
  storeFailures  \* failures so far

outcomeVars ==
  <<outcomes, important, memories, added, run, current, alone, consolidations, storeFailures>>

Idle == [stage |-> "idle", plan |-> NoPlan, match |-> 0]
Busy == {c \in Consolidations : run[c].stage \notin {"idle", "ended"}}

OutcomeTypeOK ==
  /\ outcomes \in [Repos \X Polarities -> 0..MaxOutcomes] /\ important \in BOOLEAN
  /\ added \in Nat /\ memories \subseteq [number : 1..added, plan : Plans]
  /\ \A m, n \in memories : m.number = n.number => m = n
  /\ run \in [Consolidations -> [stage : {"idle", "list", "delete", "add", "ended"},
                                plan : Plans \cup {NoPlan}, match : 0..added]]
  /\ current \subseteq Consolidations /\ alone \in BOOLEAN
  /\ consolidations \in 0..MaxConsolidations /\ storeFailures \in 0..MaxStoreFailures

OutcomeInit ==
  /\ outcomes = [k \in Repos \X Polarities |-> 0] /\ important \in BOOLEAN
  /\ memories = {} /\ added = 0 /\ run = [c \in Consolidations |-> Idle]
  /\ current = {} /\ alone = TRUE /\ consolidations = 0 /\ storeFailures = 0

(***************************************************************************)
(* planOutcomePromotions for the one bug.                                  *)
(***************************************************************************)
InRepo(r) == outcomes[r, "positive"] + outcomes[r, "negative"]
\* The n-th outcome of each repository, for each n.
Count(polarity) ==
  Cardinality({o \in Repos \X (1..MaxOutcomes) : o[2] <= outcomes[o[1], polarity]})
Total == Count("positive") + Count("negative")
SeenIn == {r \in Repos : InRepo(r) > 0}

\* A clear majority; for a positive memory of something important a smaller one.
Majority(polarity) ==
  /\ Count(polarity) > Count(Opposite(polarity))
  /\ \/ Count(polarity) >= MinRepoCount
     \/ polarity = "positive" /\ important /\ Count(polarity) >= MinImportantCount

AtMost100(n) == IF n < 100 THEN n ELSE 100
Weight(polarity, scope) ==
  AtMost100(55 + 8 * Count(polarity) + (IF scope = "org" THEN 10 ELSE 0)
            + (IF important THEN 5 ELSE 0))

\* Of several repositories with the most outcomes it is the one seen first.
TopRepos == {r \in Repos : \A s \in Repos : InRepo(s) <= InRepo(r)}

OrgWide(top) ==
  \/ Cardinality(SeenIn) >= MinOrgRepos /\ Total >= MinOrgCount
  \/ important /\ (InRepo(top) >= MinImportantCount \/ Total >= MinImportantCount)

Promotion(polarity, scope, repo) ==
  [polarity |-> polarity, scope |-> scope, repo |-> repo, weight |-> Weight(polarity, scope)]

Promotions ==
  {Promotion(polarity, "org", NoRepo) :
     polarity \in {p \in Polarities : Majority(p) /\ \E top \in TopRepos : OrgWide(top)}}
  \cup
  {Promotion(plan[1], "repo", plan[2]) :
     plan \in {pr \in Polarities \X TopRepos :
                 Majority(pr[1]) /\ ~OrgWide(pr[2]) /\ InRepo(pr[2]) >= MinRepoCount}}

(***************************************************************************)
(* Outcomes and consolidations.  A Slip_ operator is a plausible bug in    *)
(* the definition after it.                                                *)
(***************************************************************************)
SaveOutcome(r, polarity) ==
  /\ Total < MaxOutcomes
  /\ outcomes' = [outcomes EXCEPT ![<<r, polarity>>] = @ + 1]
  /\ current' = {}
  /\ UNCHANGED <<important, memories, added, run, alone, consolidations, storeFailures>>

\* Outcomes grow older than 90 days.
OutcomeExpires(r, polarity) ==
  /\ outcomes[r, polarity] > 0
  /\ outcomes' = [outcomes EXCEPT ![<<r, polarity>>] = @ - 1]
  /\ current' = {}
  /\ UNCHANGED <<important, memories, added, run, alone, consolidations, storeFailures>>

\* Consolidations are numbered as they begin.
PlanOutcomes(c) ==
  /\ c = consolidations + 1 /\ consolidations' = c
  /\ \E p \in IF Promotions = {} THEN {NoPlan} ELSE Promotions :
       run' = [run EXCEPT ![c] = [stage |-> IF p = NoPlan THEN "ended" ELSE "list",
                                  plan |-> p, match |-> 0]]
  /\ current' = current \cup {c}
  /\ alone' = (alone /\ Busy = {})
  /\ UNCHANGED <<outcomes, important, memories, added, storeFailures>>

\* memoryMatchesPromotion: a memory of the same bug, whatever its scope.
MatchesPromotion(m, p) == m.plan \in Plans /\ p \in Plans

Slip_AsHeavy(m, p) == m.plan.weight + 1 >= p.weight /\ m.plan.scope = p.scope

\* The memory there is says what is planned, and is as heavy.
UpToDate(m, p) ==
  /\ m.plan.weight + 1 >= p.weight
  /\ m.plan.polarity = p.polarity /\ m.plan.scope = p.scope
  /\ p.scope = "repo" => m.plan.repo = p.repo

\* listMemories, and the newest memory that matches.
ListMemories(c) ==
  /\ run[c].stage = "list"
  /\ LET p == run[c].plan
         matching == {m \in memories : MatchesPromotion(m, p)}
     IN \/ matching = {} /\ run' = [run EXCEPT ![c].stage = "add"]
        \/ \E m \in matching :
             /\ \A n \in matching : n.number <= m.number
             /\ run' = IF UpToDate(m, p) THEN [run EXCEPT ![c].stage = "ended"]
                       ELSE [run EXCEPT ![c].stage = "delete", ![c].match = m.number]
  /\ UNCHANGED <<outcomes, important, memories, added, current, alone, consolidations,
                 storeFailures>>

StoreFails ==
  /\ storeFailures < MaxStoreFailures /\ storeFailures' = storeFailures + 1
  /\ alone' = FALSE
  /\ UNCHANGED <<memories, added>>

\* A failure is ignored.
DeleteOld(c) ==
  /\ run[c].stage = "delete"
  /\ run' = [run EXCEPT ![c].stage = "add", ![c].match = 0]
  /\ \/ /\ memories' = {m \in memories : m.number # run[c].match}
        /\ UNCHANGED <<added, alone, storeFailures>>
     \/ StoreFails
  /\ UNCHANGED <<outcomes, important, current, consolidations>>

AddNew(c) ==
  /\ run[c].stage = "add"
  /\ run' = [run EXCEPT ![c].stage = "ended"]
  /\ \/ /\ added' = added + 1
        /\ memories' = memories \cup {[number |-> added + 1, plan |-> run[c].plan]}
        /\ UNCHANGED <<alone, storeFailures>>
     \/ StoreFails
  /\ UNCHANGED <<outcomes, important, current, consolidations>>

OutcomeNext ==
  \/ \E r \in Repos, polarity \in Polarities :
       SaveOutcome(r, polarity) \/ OutcomeExpires(r, polarity)
  \/ \E c \in Consolidations : PlanOutcomes(c) \/ ListMemories(c) \/ DeleteOld(c) \/ AddNew(c)

OutcomeSpec == OutcomeInit /\ [][OutcomeNext]_outcomeVars

(***************************************************************************)
(* Properties.                                                             *)
(***************************************************************************)
\* "Idempotent" (consolidate-outcomes.ts:315): consolidations one after the other,
\* whatever they find, never leave two memories of a bug.
OneMemory == alone => \A m, n \in memories : m = n

\* When a consolidation ends and nothing came in between, the memory says what the
\* outcomes say: never the opposite, for the organisation if they call for that, and no
\* less surely.
MemoryIsCurrent ==
  \A c \in Consolidations :
    alone /\ run[c].stage = "ended" /\ c \in current /\ c = consolidations /\ Promotions # {}
      => \E m \in memories, p \in Promotions :
           /\ memories = {m} /\ m.plan.polarity = p.polarity
           /\ m.plan.scope = p.scope /\ m.plan.weight + 1 >= p.weight
           /\ p.scope = "repo" => m.plan.repo = p.repo

\* A suppression comes from a majority: when a memory is negative, the negative
\* outcomes have at some time outweighed the positive ones, and no negative memory
\* is written of outcomes that are balanced.
SuppressionHasMajority ==
  \A c \in Consolidations :
    c \in current /\ run[c].plan \in Plans /\ run[c].plan.polarity = "negative"
      => /\ Count("negative") > Count("positive")
         /\ Count("negative") >= MinRepoCount

\* One memory of a bug, which says what the outcomes say.
MemorySound == OneMemory /\ MemoryIsCurrent /\ SuppressionHasMajority
=============================================================================
