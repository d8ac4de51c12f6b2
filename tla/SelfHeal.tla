------------------------------- MODULE SelfHeal -------------------------------
(***************************************************************************)
(* The units of one review in one run: the healing of a unit that fails    *)
(* (runUnitWithHeal in packages/agents/src/self-heal.ts), the splitting of *)
(* units, and what the orchestrator concludes from their ends: the status  *)
(* of the session, and which findings of earlier reviews count as fixed    *)
(* (packages/findings/src/reconcile.ts).                                   *)
(*                                                                         *)
(* The paths under review are numbered as the planner orders them; a unit  *)
(* is the interval <<first, last>> of its paths, which tells units apart,  *)
(* as a split divides them.                                                *)
(***************************************************************************)
EXTENDS Naturals, FiniteSets, Sequences

CONSTANTS
  NumPaths,         \* how many paths are under review
  Planned,          \* the units the planner made of them
  maxUnitRetries,   \* STEW_UNIT_MAX_RETRIES (default 3)
  enableSplit,      \* STEW_HEAL_SPLIT (default on)
  minPathsToSplit,  \* default 2
  MaxConcurrent     \* job.maxConcurrent or STEW_MAX_CONCURRENT (default 8)

Paths == 1..NumPaths
Units == {u \in Paths \X Paths : u[1] <= u[2]}
PathsOf(u) == u[1]..u[2]

ASSUME HealConstants ==
  /\ NumPaths \in Nat
  /\ Planned \subseteq Units
  /\ \A p \in Paths : \E u \in Planned : p \in PathsOf(u)
  /\ \A u, v \in Planned : u # v => PathsOf(u) \cap PathsOf(v) = {}
  /\ maxUnitRetries \in Nat /\ minPathsToSplit \in Nat
  /\ enableSplit \in BOOLEAN
  /\ MaxConcurrent \in Nat \ {0}

VARIABLES
  status,   \* ReviewUnit.status; "absent" as long as there is no such unit,
            \* "split" for the skipped parent of a split
  attempt,  \* ReviewUnit.attempts
  used,     \* the strategies used for the unit
  gaps,     \* units with a coverage-gap finding
  session,  \* ReviewSession.status
  fixed     \* paths whose earlier findings are auto-fixed

vars == <<status, attempt, used, gaps, session, fixed>>

HEAL_STRATEGY_ORDER == <<"retry_fresh_context", "fallback_simple_runner",
                         "split_unit", "skip_with_gap_note">>
Strategies == {"retry_fresh_context", "fallback_simple_runner", "split_unit",
               "skip_with_gap_note"}

TypeOK ==
  /\ status \in [Units -> {"absent", "pending", "running", "completed", "skipped", "split"}]
  /\ attempt \in [Units -> Nat]
  /\ \A u \in Units : attempt[u] > 1 => attempt[u] <= maxUnitRetries
  /\ used \in [Units -> SUBSET Strategies]
  /\ gaps \subseteq Units
  /\ session \in {"reviewing", "completed", "completed_with_errors", "failed"}
  /\ fixed \subseteq Paths

Init ==
  /\ status = [u \in Units |-> IF u \in Planned THEN "pending" ELSE "absent"]
  /\ attempt = [u \in Units |-> 0]
  /\ used = [u \in Units |-> {}]
  /\ gaps = {}
  /\ session = "reviewing"
  /\ fixed = {}

(***************************************************************************)
(* Strategies.  A Slip_ operator is a plausible bug in the definition      *)
(* after it.                                                               *)
(***************************************************************************)

\* The places of the strategies that have not been used and apply to the unit.
Open(u) ==
  {i \in DOMAIN HEAL_STRATEGY_ORDER :
    /\ HEAL_STRATEGY_ORDER[i] \notin used[u]
    /\ HEAL_STRATEGY_ORDER[i] = "split_unit" =>
         enableSplit /\ Cardinality(PathsOf(u)) >= minPathsToSplit}

nextHealStrategy(u) ==
  IF Open(u) = {} THEN "none"
  ELSE HEAL_STRATEGY_ORDER[CHOOSE i \in Open(u) : \A j \in Open(u) : i <= j]

\* A failed unit that is not tried again.
Spent(u) ==
  \/ nextHealStrategy(u) \in {"none", "skip_with_gap_note"}
  \/ attempt[u] >= maxUnitRetries

Slip_HalvesOverlap(u) ==
  LET mid == (u[2] - u[1]) \div 2
  IN {<<u[1], u[1] + mid>>, <<u[1] + mid, u[2]>>} \cap Units

\* splitReviewUnit: the first half takes the odd path.
Halves(u) ==
  LET mid == (u[2] - u[1]) \div 2
  IN {<<u[1], u[1] + mid>>, <<u[1] + mid + 1, u[2]>>} \cap Units

(***************************************************************************)
(* The units.                                                              *)
(***************************************************************************)
Slip_RunningCountsSplit == {u \in Units : status[u] \in {"running", "split"}}

Running == {u \in Units : status[u] = "running"}

\* A slot is free; the unit is tried for the first time.
Begin(u) ==
  /\ status[u] = "pending"
  /\ Cardinality(Running) < MaxConcurrent
  /\ status' = [status EXCEPT ![u] = "running"]
  /\ attempt' = [attempt EXCEPT ![u] = @ + 1]
  /\ used' = [used EXCEPT ![u] = {}]
  /\ UNCHANGED <<gaps, session, fixed>>

\* The runner returns findings.
Succeed(u) ==
  /\ status[u] = "running"
  /\ status' = [status EXCEPT ![u] = "completed"]
  /\ UNCHANGED <<attempt, used, gaps, session, fixed>>

Slip_RetryCountsTwice(u) ==
  /\ status[u] = "running" /\ ~Spent(u)
  /\ nextHealStrategy(u) = "split_unit" => Cardinality(Halves(u)) < 2
  /\ used' = [used EXCEPT ![u] = @ \cup {nextHealStrategy(u)}]
  /\ attempt' = [attempt EXCEPT ![u] = @ + 2]
  /\ UNCHANGED <<status, gaps, session, fixed>>

\* The runner throws; a strategy is left, and the unit is tried again.  A unit
\* that turns out to be indivisible is, too.
Retry(u) ==
  /\ status[u] = "running" /\ ~Spent(u)
  /\ nextHealStrategy(u) = "split_unit" => Cardinality(Halves(u)) < 2
  /\ used' = [used EXCEPT ![u] = @ \cup {nextHealStrategy(u)}]
  /\ attempt' = [attempt EXCEPT ![u] = @ + 1]
  /\ UNCHANGED <<status, gaps, session, fixed>>

\* The runner throws; the halves of the unit join the work queue.
Split(u) ==
  /\ status[u] = "running" /\ ~Spent(u)
  /\ nextHealStrategy(u) = "split_unit" /\ Cardinality(Halves(u)) = 2
  /\ used' = [used EXCEPT ![u] = @ \cup {"split_unit"}]
  /\ status' = [v \in Units |-> IF v \in Halves(u) THEN "pending"
                                ELSE IF v = u THEN "split" ELSE status[v]]
  /\ attempt' = [v \in Units |-> IF v \in Halves(u) THEN 0 ELSE attempt[v]]
  /\ UNCHANGED <<gaps, session, fixed>>

\* The runner throws for the last time: a gap is noted instead of findings.
GiveUp(u) ==
  /\ status[u] = "running" /\ Spent(u)
  /\ used' = [used EXCEPT ![u] = @ \cup {"skip_with_gap_note"}]
  /\ status' = [status EXCEPT ![u] = "skipped"]
  /\ gaps' = gaps \cup {u}
  /\ UNCHANGED <<attempt, session, fixed>>

(***************************************************************************)
(* The end of the run.                                                     *)
(***************************************************************************)
With(s) == {u \in Units : status[u] = s}
Reviewed == UNION {PathsOf(u) : u \in With("completed")}

Slip_VerdictCountsFailed ==
  IF With("completed") = {} THEN "failed"
  ELSE IF With("failed") # {} THEN "completed_with_errors" ELSE "completed"

\* zeroUseful and sessionStatus.  (Without SAST there are no findings but those
\* of completed units and gaps.)
Verdict ==
  IF With("completed") = {} THEN "failed"
  ELSE IF With("skipped") \cup With("split") # {} THEN "completed_with_errors"
  ELSE "completed"

\* reconcileFindingsOnRereview: each path has a finding of an earlier review,
\* which is fixed unless this one reported it, too.
Fixed(reported) == IF With("completed") = {} THEN {} ELSE Paths \ reported

Slip_ConcludeWithQueue ==
  /\ session = "reviewing"
  /\ Running = {}
  /\ session' = Verdict
  /\ \E reported \in SUBSET Reviewed : fixed' = Fixed(reported)
  /\ UNCHANGED <<status, attempt, used, gaps>>

\* The barrier is passed: the work queue is empty and no unit runs.
Conclude ==
  /\ session = "reviewing"
  /\ With("pending") \cup Running = {}
  /\ session' = Verdict
  /\ \E reported \in SUBSET Reviewed : fixed' = Fixed(reported)
  /\ UNCHANGED <<status, attempt, used, gaps>>

Next ==
  \/ \E u \in Units : Begin(u) \/ Succeed(u) \/ Retry(u) \/ Split(u) \/ GiveUp(u)
  \/ Conclude

Spec == Init /\ [][Next]_vars

\* The loop of the scheduler goes on while there is work, and every role of a
\* runner has a time limit (STEW_SPECIALIST_TIMEOUT_MS).
Fairness ==
  /\ WF_vars(\E u \in Units : Begin(u) \/ Succeed(u) \/ Retry(u) \/ Split(u) \/ GiveUp(u))
  /\ WF_vars(Conclude)
FairSpec == Spec /\ Fairness

(***************************************************************************)
(* Properties.                                                             *)
(***************************************************************************)
Leaves == {u \in Units : status[u] \notin {"absent", "split"}}

\* However units are split, every path is in exactly one unit that stands for
\* it: none is dropped, none is reviewed twice.
PathsCovered ==
  \A p \in Paths : \E u \in Leaves :
    p \in PathsOf(u) /\ \A v \in Leaves : p \in PathsOf(v) => v = u

\* "last resort -> skip_with_gap_note" (overview.md:540): where a unit can be
\* split, no gap is noted before that was tried.
GapOnlyAfterSplit ==
  enableSplit => \A u \in gaps : Cardinality(PathsOf(u)) < minPathsToSplit
                                 \/ "split_unit" \in used[u]

\* A session is completed without errors only if every path has been reviewed.
CompletedIsWhole == session = "completed" => Reviewed = Paths

Noted == UNION {PathsOf(u) : u \in gaps}

\* At the end, a path that no unit reviewed is in a noted gap.
NothingOverlooked ==
  session # "reviewing" => Paths \subseteq Reviewed \cup Noted

\* Units that keep failing do not keep the review from its end.
EventuallyConcluded == <>(session # "reviewing")

\* "we only auto-fix findings under paths that were actually reviewed"
\* (reconcile.ts:96).
FixedOnlyWhenReviewed == fixed \subseteq Reviewed
=============================================================================
