------------------------------ MODULE MergeOutcome ------------------------------
(***************************************************************************)
(* What the merge of a pull request says of the findings of its reviews    *)
(* (packages/api/src/run-outcome-job.ts, packages/learning/src/            *)
(* outcomes.ts): each is classified from its row and from what the merge   *)
(* changed, the classification is kept as an outcome, and findings that    *)
(* the merge took care of are marked as fixed.                             *)
(*                                                                         *)
(* A job is queued for each delivery of the merge.  It is one row of the   *)
(* job queue and is given to one worker at a time; if that dies or throws, *)
(* the row stays locked until its lease ends and is then claimed again,    *)
(* any number of times.  The stores are those in Postgres.                 *)
(***************************************************************************)
EXTENDS Naturals, FiniteSets

CONSTANTS
  Noted,     \* the findings of a repository
  PathOf,    \* the file of each
  ScopeOf,   \* the pull requests each is tagged with
  Pulls,     \* pull requests that were merged
  ChangedBy, \* the files that each of them changed
  AppliedBy, \* the findings whose suggested fix is in its patch
  Sensitive, \* files with a name like "auth"
  MergeJobs, \* jobs, one for each delivery of a merge
  PullOf,    \* the pull request of each
  FirstStandings, \* what a row may say before the merges
  MaxAttempts, \* bound: how often a job is claimed
  MaxSignals   \* bound: how often users say something of a finding

\* "open" is also acknowledged and reopened, "dismissed" also wontfix.
Stances == {"open", "fixed", "false_positive", "dismissed", "suppressed"}
\* A row: its status, whether it has a tag auto-fixed, and the tag of a reaction.
Standings == [status : Stances, auto : BOOLEAN, reaction : {"none", "up", "down"}]
Dispositions == {"accepted", "fixed", "thumbs_up", "false_positive", "dismissed",
                 "unaddressed_at_merge"}

ASSUME MergeConstants ==
  /\ IsFiniteSet(Noted) /\ IsFiniteSet(Pulls) /\ IsFiniteSet(MergeJobs)
  /\ ScopeOf \in [Noted -> SUBSET Pulls] /\ PullOf \in [MergeJobs -> Pulls]
  /\ \A p \in Pulls : /\ IsFiniteSet(ChangedBy[p])
                      /\ AppliedBy[p] \subseteq {f \in Noted : PathOf[f] \in ChangedBy[p]}
  /\ FirstStandings \subseteq {row \in Standings : row.status # "fixed"}
  /\ MaxAttempts \in Nat \ {0} /\ MaxSignals \in Nat

VARIABLES
  standing,  \* the row of each finding
  prRow,     \* the row of each pull request in pr_outcomes
  classified, \* finding_outcomes
  merge,     \* each job: where it is, what it listed, what is still to be done
  concluded, \* jobs whose session is completed
  said,      \* what a user last said of a finding, if merges have to leave it at that
  lapses,    \* findings that a merge failed to mark
  signals    \* how often users said something

mergeVars == <<standing, prRow, classified, merge, concluded, said, lapses, signals>>

NoRow == [by |-> "none"]
ChangedFiles == UNION {ChangedBy[p] : p \in Pulls}
Waiting == [stage |-> "queued", attempt |-> 0, seen |-> [f \in Noted |-> "unseen"],
            toSave |-> {}, toMark |-> {}, inHand |-> {}, reaction |-> "none"]

MergeOutcomes == [by : MergeJobs \X (1..MaxAttempts), pull : Pulls,
                  about : Noted \cup ChangedFiles,
                  kind : Dispositions \cup {"agent_miss_candidate"}]
Counts == [Dispositions \cup {"posted", "agent_miss_candidate"} -> Nat]

MergeTypeOK ==
  /\ standing \in [Noted -> Standings]
  /\ \A p \in Pulls : prRow[p] # NoRow =>
       prRow[p].by \in MergeJobs \X (1..MaxAttempts) /\ prRow[p].counts \in Counts
  /\ classified \subseteq MergeOutcomes
  /\ \A j \in MergeJobs :
       /\ merge[j].stage \in {"queued", "insert", "save", "mark", "update", "close",
                              "complete", "done"}
       /\ merge[j].attempt \in 0..MaxAttempts
       /\ merge[j].toMark \subseteq Noted /\ merge[j].inHand \subseteq merge[j].toMark
       /\ merge[j].toSave \subseteq MergeOutcomes
  /\ concluded \subseteq MergeJobs /\ said \in [Noted -> Stances \cup {"none"}]
  /\ lapses \subseteq Noted /\ signals \in 0..MaxSignals

MergeInit ==
  /\ standing \in [Noted -> FirstStandings]
  /\ prRow = [p \in Pulls |-> NoRow] /\ classified = {}
  /\ merge = [j \in MergeJobs |-> Waiting] /\ concluded = {}
  /\ said = [f \in Noted |-> "none"] /\ lapses = {} /\ signals = 0

(***************************************************************************)
(* analyzePrMerge.  A Slip_ operator is a plausible bug in the definition  *)
(* after it.                                                               *)
(***************************************************************************)
\* isFindingForPr: a finding without a tag belongs to every pull request.
OfPull(f, p) == p \in ScopeOf[f] \/ ScopeOf[f] = {}

Touched(f, p) == PathOf[f] \in ChangedBy[p]

\* What has been said of a finding counts before what the merge did to its file.  A
\* suppressed one has no disposition.
Disposition(row, f, p) ==
  IF row.status = "fixed" \/ row.auto THEN "fixed"
  ELSE IF row.status = "false_positive" \/ row.reaction = "down" THEN "false_positive"
  ELSE IF row.status = "dismissed" THEN "dismissed"
  ELSE IF row.reaction = "up" THEN "thumbs_up"
  ELSE IF row.status = "suppressed" THEN "none"
  ELSE IF f \in AppliedBy[p] THEN "accepted"
  ELSE IF Touched(f, p) THEN "fixed" ELSE "unaddressed_at_merge"

Slip_TakenCareOf(row, f, p) == row.status # "fixed" /\ Touched(f, p)

\* markFixedIds.
TakenCareOf(row, f, p) ==
  /\ row.status = "open" /\ ~row.auto /\ row.reaction = "none"
  /\ f \in AppliedBy[p] \/ Touched(f, p)

\* Sensitive files that were changed and in which there was no finding.
MissesOf(p) == {path \in ChangedBy[p] \cap Sensitive :
                \A f \in Noted : OfPull(f, p) => PathOf[f] # path}

ToSave(j, p, seen) ==
  LET by == <<j, merge[j].attempt>>
      mine == {f \in Noted : OfPull(f, p) /\ Disposition(seen[f], f, p) # "none"}
  IN {[by |-> by, pull |-> p, about |-> f, kind |-> Disposition(seen[f], f, p)] : f \in mine}
     \cup {[by |-> by, pull |-> p, about |-> path, kind |-> "agent_miss_candidate"] :
             path \in MissesOf(p)}

OfKind(rows, kind) == Cardinality({o \in rows : o.kind = kind})

CountsOf(j, p, seen) ==
  [k \in Dispositions \cup {"posted", "agent_miss_candidate"} |->
     IF k = "posted" THEN Cardinality({f \in Noted : OfPull(f, p)})
     ELSE OfKind(ToSave(j, p, seen), k)]

(***************************************************************************)
(* A job.                                                                  *)
(***************************************************************************)
\* The job's row stays as it is until its lease ends.
EndAttempt(j) ==
  merge' = [merge EXCEPT ![j] = [Waiting EXCEPT !.attempt = merge[j].attempt]]

\* findingsStore.list, and the analysis.
AnalyzeMerge(j) ==
  /\ merge[j].stage = "queued" /\ merge[j].attempt < MaxAttempts
  /\ merge' = [merge EXCEPT ![j] = [Waiting EXCEPT !.stage = "insert", !.seen = standing,
                                                   !.attempt = merge[j].attempt + 1]]
  /\ UNCHANGED <<standing, prRow, classified, concluded, said, lapses, signals>>

Slip_NoRowOf(p) == TRUE

\* There may be one row of a pull request (migrations/015_review_outcomes.sql:22), and
\* each attempt has an id of its own, so that ON CONFLICT (id) never applies.
NoRowOf(p) == prRow[p] = NoRow

\* savePrOutcome: the row, or an error that ends the attempt.
InsertPrRow(j) ==
  LET p == PullOf[j]
      seen == merge[j].seen
  IN
    /\ merge[j].stage = "insert"
    /\ IF NoRowOf(p)
       THEN /\ prRow' = [prRow EXCEPT ![p] = [by |-> <<j, merge[j].attempt>>,
                                              counts |-> CountsOf(j, p, seen)]]
            /\ merge' = [merge EXCEPT ![j].stage = "save", ![j].seen = Waiting.seen,
                           ![j].toSave = ToSave(j, p, seen),
                           ![j].toMark = {f \in Noted : /\ OfPull(f, p)
                                                        /\ TakenCareOf(seen[f], f, p)}]
       ELSE EndAttempt(j) /\ UNCHANGED prRow
    /\ UNCHANGED <<standing, classified, concluded, said, lapses, signals>>

\* saveFindingOutcomes, one statement for each.
SaveNext(j) ==
  /\ merge[j].stage = "save"
  /\ IF merge[j].toSave = {}
     THEN /\ merge' = [merge EXCEPT ![j].stage = "mark"]
          /\ UNCHANGED classified
     ELSE \E o \in merge[j].toSave :
            /\ classified' = classified \cup {o}
            /\ merge' = [merge EXCEPT ![j].toSave = @ \ {o}]
  /\ UNCHANGED <<standing, prRow, concluded, said, lapses, signals>>

\* findingsStore.get, for the tags.  An error is logged, and the next one is looked at.
ReadToMark(j) ==
  /\ merge[j].stage = "mark"
  /\ \E f \in merge[j].toMark :
       \/ /\ merge' = [merge EXCEPT ![j].stage = "update", ![j].inHand = {f},
                                    ![j].reaction = standing[f].reaction]
          /\ UNCHANGED lapses
       \/ /\ merge' = [merge EXCEPT ![j].toMark = @ \ {f}]
          /\ lapses' = lapses \cup {f}
  /\ UNCHANGED <<standing, prRow, classified, concluded, said, signals>>

\* findingsStore.update, which writes the tags that were read before.
MarkFixed(j) ==
  /\ merge[j].stage = "update"
  /\ merge' = [merge EXCEPT ![j].stage = "mark", ![j].toMark = @ \ merge[j].inHand,
                            ![j].inHand = {}, ![j].reaction = "none"]
  /\ \/ /\ standing' = [f \in Noted |->
             IF f \in merge[j].inHand
             THEN [status |-> "fixed", auto |-> TRUE, reaction |-> merge[j].reaction]
             ELSE standing[f]]
        /\ UNCHANGED lapses
     \/ lapses' = lapses \cup merge[j].inHand /\ UNCHANGED standing
  /\ UNCHANGED <<prRow, classified, concluded, said, signals>>

AllMarked(j) ==
  /\ merge[j].stage = "mark" /\ merge[j].toMark = {}
  /\ merge' = [merge EXCEPT ![j].stage = "close"]
  /\ UNCHANGED <<standing, prRow, classified, concluded, said, lapses, signals>>

\* Memories are consolidated (OutcomeMemory), which never fails the job.
CloseSession(j) ==
  /\ merge[j].stage = "close"
  /\ concluded' = concluded \cup {j}
  /\ merge' = [merge EXCEPT ![j].stage = "complete"]
  /\ UNCHANGED <<standing, prRow, classified, said, lapses, signals>>

\* An error is ignored, and the job's row stays locked.
CompleteJob(j) ==
  /\ merge[j].stage = "complete"
  /\ \/ merge' = [merge EXCEPT ![j].stage = "done"]
     \/ EndAttempt(j)
  /\ UNCHANGED <<standing, prRow, classified, concluded, said, lapses, signals>>

\* The process dies, or a statement fails outside of the loop that marks.
AttemptFails(j) ==
  /\ merge[j].stage \notin {"queued", "done"}
  /\ EndAttempt(j)
  /\ UNCHANGED <<standing, prRow, classified, concluded, said, lapses, signals>>

(***************************************************************************)
(* Users: PATCH /v1/findings/:id and POST /v1/findings/:id/react.          *)
(***************************************************************************)
AboutToMark(f) == \E j \in MergeJobs :
  \/ f \in merge[j].toMark
  \/ /\ merge[j].stage = "insert" /\ OfPull(f, PullOf[j])
     /\ TakenCareOf(merge[j].seen[f], f, PullOf[j])

MayBeMarked(row) == row.status = "open" /\ ~row.auto

Says(f, row) ==
  /\ signals < MaxSignals /\ signals' = signals + 1
  /\ standing' = [standing EXCEPT ![f] = row]
  /\ said' = [said EXCEPT ![f] = IF AboutToMark(f) \/ MayBeMarked(row) THEN "none"
                                  ELSE row.status]
  /\ UNCHANGED <<prRow, classified, merge, concluded, lapses>>

UserSetsStatus(f, status) == Says(f, [standing[f] EXCEPT !.status = status])

UserReacts(f) ==
  \/ Says(f, [standing[f] EXCEPT !.reaction = "up"])
  \/ Says(f, [standing[f] EXCEPT !.reaction = "down", !.status = "false_positive"])

MergeNext ==
  \/ \E j \in MergeJobs : \/ AnalyzeMerge(j) \/ InsertPrRow(j) \/ SaveNext(j)
                          \/ ReadToMark(j) \/ MarkFixed(j) \/ AllMarked(j)
                          \/ CloseSession(j) \/ CompleteJob(j) \/ AttemptFails(j)
  \/ \E f \in Noted : UserReacts(f) \/ \E status \in Stances : UserSetsStatus(f, status)

MergeSpec == MergeInit /\ [][MergeNext]_mergeVars

(***************************************************************************)
(* Properties.                                                             *)
(***************************************************************************)
OutcomesOf(p) == {o \in classified : o.pull = p}

\* A merge is counted once, however often it is delivered, and its jobs retried: what
\* pr_outcomes counts is never less than the outcomes there are, and each of these
\* was saved by the attempt that counted.
MergeCountedOnce ==
  \A p \in Pulls : OutcomesOf(p) # {} =>
    /\ prRow[p] # NoRow
    /\ \A o \in OutcomesOf(p) : o.by = prRow[p].by
    /\ \A k \in Dispositions : OfKind(OutcomesOf(p), k) <= prRow[p].counts[k]

\* "prOutcomeCounts" of a completed session (run-outcome-job.ts:143-154) are true: every
\* outcome counted was saved, whichever attempts died before, and what was accepted is
\* marked as fixed, but for errors and for what users said.
ConcludedIsWhole ==
  \A j \in concluded :
    LET p == PullOf[j] IN
      /\ prRow[p] # NoRow /\ prRow[p].by[1] = j
      /\ \A k \in Dispositions \cup {"agent_miss_candidate"} :
           OfKind(OutcomesOf(p), k) = prRow[p].counts[k]
      /\ \A o \in OutcomesOf(p) :
           o.kind = "accepted" /\ o.about \notin lapses /\ signals = 0
             => standing[o.about].status = "fixed"

\* What a user has closed stays as it is at a merge, and so does what was reopened after
\* it had been fixed, unless the merge had already read the finding as open.
VerdictsStandAtMerge ==
  \A f \in Noted : said[f] # "none" => standing[f].status = said[f]

\* A finding is fixed by a merge only with an outcome that says so.
FixesAreOnRecord ==
  signals = 0 => \A f \in Noted : standing[f].status = "fixed" =>
    \E o \in classified : o.about = f /\ o.kind \in {"accepted", "fixed"}

MergeSound == MergeCountedOnce /\ ConcludedIsWhole /\ VerdictsStandAtMerge /\ FixesAreOnRecord
=============================================================================
