--------------------------- MODULE FindingLifecycle ---------------------------
(***************************************************************************)
(* The rows of one bug, that is, of the findings of a repository with one  *)
(* fingerprint, over several reviews of several pull requests: what a      *)
(* review drops as reported before (packages/agents/src/noise.ts), what it *)
(* stores, and what it takes for fixed (packages/findings/src/             *)
(* reconcile.ts), while users judge the findings (PATCH /v1/findings/:id   *)
(* in packages/api/src/app.ts) and resolve their threads                   *)
(* (github-outcome-hooks.ts).                                              *)
(*                                                                         *)
(* A review reads the rows three times and writes them later; other        *)
(* reviews and users come in between.  One update of a row is one step.    *)
(***************************************************************************)
EXTENDS Naturals, Sequences, FiniteSets, SequencesExt

CONSTANTS
  Reviewers,   \* how many reviews run at the same time
  PullRequests,
  MaxReviews,  \* bound: how many reviews there are
  MaxVerdicts, \* bound: how often a user or a thread changes a finding
  MaxPushes    \* bound: how often the bug comes or goes

ASSUME LifecycleConstants ==
  /\ IsFiniteSet(Reviewers) /\ IsFiniteSet(PullRequests) /\ "user" \notin Reviewers
  /\ MaxReviews \in Nat /\ MaxVerdicts \in Nat /\ MaxPushes \in Nat

VARIABLES
  rows,     \* the findings of the bug, in the order of their creation
  bugIn,    \* the pull requests whose head has the bug
  review,   \* what each review has found out, and read
  quiet,    \* reviews since whose start nobody else changed anything
  reviews,  \* how many reviews were begun
  verdicts, \* how often users changed a finding
  pushes    \* how often the bug came or went

findingVars == <<rows, bugIn, review, quiet, reviews, verdicts, pushes>>

Active == {"open", "acknowledged", "reopened"}
UserClosed == {"dismissed", "wontfix", "false_positive", "suppressed"}
Statuses == Active \cup UserClosed \cup {"fixed"}

Rows == [status : Statuses, severity : 1..2, session : 1..MaxReviews, tags : SUBSET PullRequests]
NoReview == [stage |-> "none", session |-> 0, pr |-> "none", sees |-> FALSE, severity |-> 1,
             found |-> 0, read |-> <<>>]

FindingTypeOK ==
  /\ rows \in Seq(Rows)
  /\ bugIn \subseteq PullRequests
  /\ \A r \in Reviewers :
       /\ review[r].stage \in {"none", "judge", "look", "store", "list", "fix", "ended"}
       /\ review[r].session \in 0..reviews /\ review[r].found \in 0..Len(rows)
       /\ review[r].read \in Seq(Rows)
  /\ quiet \subseteq Reviewers
  /\ reviews \in 0..MaxReviews /\ verdicts \in 0..MaxVerdicts /\ pushes \in 0..MaxPushes

FindingInit ==
  /\ rows = <<>> /\ bugIn \in SUBSET PullRequests
  /\ review = [r \in Reviewers |-> NoReview] /\ quiet = {}
  /\ reviews = 0 /\ verdicts = 0 /\ pushes = 0

At(r, stage) == review[r].stage = stage
Goes(r, stage) == review' = [review EXCEPT ![r].stage = stage, ![r].found = 0, ![r].read = <<>>]
\* Reviewer r, or nobody for "user", has changed something.
Disturbs(r) == quiet' = quiet \cap {r}

(***************************************************************************)
(* What a review decides.  A Slip_ operator is a plausible bug in the      *)
(* definition after it.                                                    *)
(***************************************************************************)
Rose(new, old) == new > old

\* priorMapFromFindings over the repository's findings, newest first: the most
\* severe one, the oldest of several.
Prior == CHOOSE i \in DOMAIN rows :
  \A j \in DOMAIN rows : /\ rows[j].severity <= rows[i].severity
                         /\ rows[j].severity = rows[i].severity => i <= j

\* applyNoiseStack: what was reported before is dropped unless it is more severe
\* now, or, if it is not closed, surer.
Survives(r, surer) ==
  \/ rows = <<>>
  \/ Rose(review[r].severity, rows[Prior].severity)
  \/ surer /\ rows[Prior].status \notin {"fixed", "dismissed", "false_positive"}

Slip_OwnRows(r) == {i \in DOMAIN rows : rows[i].session = review[r].session}
KnownRows(r) == DOMAIN rows

\* findByFingerprint: the newest row, 0 if there is none.
Newest(r) == IF KnownRows(r) = {} THEN 0
             ELSE CHOOSE i \in KnownRows(r) : \A j \in KnownRows(r) : j <= i

\* findingMatchesScope: rows with a tag of this pull request, or of none.
InScope(row, pr) == pr \in row.tags \/ row.tags = {}

Slip_StaleUnlessReopened(r, row) ==
  /\ InScope(row, review[r].pr)
  /\ row.status \in {"open", "acknowledged"}
  /\ row.session # review[r].session

\* reconcileFindingsOnRereview: active findings of earlier reviews of this pull
\* request are closed if this review does not see them.
Stale(r, row) ==
  /\ InScope(row, review[r].pr)
  /\ row.status \in Active
  /\ row.session # review[r].session

(***************************************************************************)
(* A review.                                                               *)
(***************************************************************************)
\* The verified candidates are there: with the bug, if the head has it.
BeginReview(r) ==
  /\ review[r].stage \in {"none", "ended"} /\ reviews < MaxReviews
  /\ reviews' = reviews + 1
  /\ \E pr \in PullRequests :
       \E severity \in IF pr \in bugIn THEN 1..2 ELSE {1} :
         review' = [review EXCEPT ![r] =
           [NoReview EXCEPT !.stage = "judge", !.session = reviews + 1, !.pr = pr,
                            !.sees = pr \in bugIn, !.severity = severity]]
  /\ quiet' = quiet \cup {r}
  /\ UNCHANGED <<rows, bugIn, verdicts, pushes>>

\* Without a known head no findings of earlier reviews are looked at.
JudgeBug(r) ==
  /\ At(r, "judge")
  /\ \E headSha, surer \in BOOLEAN :
       Goes(r, IF review[r].sees /\ (headSha => Survives(r, surer)) THEN "look" ELSE "list")
  /\ UNCHANGED <<rows, bugIn, quiet, reviews, verdicts, pushes>>

LookUp(r) ==
  /\ At(r, "look")
  /\ review' = [review EXCEPT ![r].stage = "store", ![r].found = Newest(r), ![r].read = rows]
  /\ UNCHANGED <<rows, bugIn, quiet, reviews, verdicts, pushes>>

\* upsertFindingAcrossSessions.  The status written is the one that was read.
Store(r) ==
  /\ At(r, "store") /\ Goes(r, "list")
  /\ LET me == review[r]
         old == me.read[me.found]
         stored(status) == [status |-> status, severity |-> me.severity, session |-> me.session,
                            tags |-> rows[me.found].tags \cup {me.pr}]
     IN
       \/ /\ me.found = 0
          /\ rows' = Append(rows, [status |-> "open", severity |-> me.severity,
                                   session |-> me.session, tags |-> {me.pr}])
       \/ /\ me.found # 0 /\ old.status \in UserClosed /\ ~Rose(me.severity, old.severity)
          /\ UNCHANGED rows
       \/ /\ me.found # 0
          /\ \/ old.status \in UserClosed /\ Rose(me.severity, old.severity)
             \/ old.status = "fixed"
          /\ rows' = [rows EXCEPT ![me.found] = stored("reopened")]
       \/ /\ me.found # 0 /\ old.status \notin UserClosed \cup {"fixed"}
          /\ rows' = [rows EXCEPT ![me.found] = stored(old.status)]
  /\ Disturbs(r)
  /\ UNCHANGED <<bugIn, reviews, verdicts, pushes>>

\* The list behind reconcile; a review without a completed unit fixes nothing.
ListPrior(r) ==
  /\ At(r, "list")
  /\ \/ Goes(r, "ended") /\ quiet' = quiet \ {r}
     \/ /\ IF review[r].sees THEN Goes(r, "ended")
           ELSE review' = [review EXCEPT ![r].stage = "fix", ![r].read = rows]
        /\ UNCHANGED quiet
  /\ UNCHANGED <<rows, bugIn, reviews, verdicts, pushes>>

ToFix(r) == {i \in DOMAIN review[r].read : Stale(r, review[r].read[i])}

\* The next of the rows, as they were when they were listed, is set to fixed.
FixNext(r) ==
  /\ At(r, "fix")
  /\ IF ToFix(r) = {} THEN Goes(r, "ended") /\ UNCHANGED <<rows, quiet>>
     ELSE LET i == CHOOSE j \in ToFix(r) : \A k \in ToFix(r) : k <= j IN
            /\ rows' = [rows EXCEPT ![i].status = "fixed"]
            /\ review' = [review EXCEPT ![r].read = [@ EXCEPT ![i].status = "fixed"]]
            /\ Disturbs(r)
  /\ UNCHANGED <<bugIn, reviews, verdicts, pushes>>

(***************************************************************************)
(* Users, threads and pushes.                                              *)
(***************************************************************************)
\* PATCH sets any status; a 👎 sets false_positive.
SetStatus(i, status) ==
  /\ verdicts < MaxVerdicts /\ verdicts' = verdicts + 1
  /\ rows' = [rows EXCEPT ![i].status = status]
  /\ Disturbs("user")
  /\ UNCHANGED <<bugIn, review, reviews, pushes>>

\* handleReviewThreadOutcome.
ResolveThreadOf(i) == rows[i].status = "open" /\ SetStatus(i, "acknowledged")
UnresolveThreadOf(i) == rows[i].status \in {"acknowledged", "fixed"} /\ SetStatus(i, "reopened")

Push(pr) ==
  /\ pushes < MaxPushes /\ pushes' = pushes + 1
  /\ bugIn' = IF pr \in bugIn THEN bugIn \ {pr} ELSE bugIn \cup {pr}
  /\ UNCHANGED <<rows, review, quiet, reviews, verdicts>>

FindingNext ==
  \/ \E r \in Reviewers :
       BeginReview(r) \/ JudgeBug(r) \/ LookUp(r) \/ Store(r) \/ ListPrior(r) \/ FixNext(r)
  \/ \E i \in DOMAIN rows :
       \/ \E status \in Statuses : SetStatus(i, status)
       \/ ResolveThreadOf(i) \/ UnresolveThreadOf(i)
  \/ \E pr \in PullRequests : Push(pr)

FindingSpec == FindingInit /\ [][FindingNext]_findingVars

(***************************************************************************)
(* Properties.                                                             *)
(***************************************************************************)
\* A review that ended with nobody else's change since it began, and what it saw.
Undisturbed(r) == At(r, "ended") /\ r \in quiet
Sees(r) == Undisturbed(r) /\ review[r].sees
Misses(r) == Undisturbed(r) /\ ~review[r].sees

\* A review gives a bug that has a row another one only if somebody else changed a
\* row since the review began.
DuplicatesOnlyInRaces ==
  Len(rows') > Len(rows) /\ rows # <<>> =>
    \E r \in Reviewers : At(r, "store") /\ ~At(r, "store")' /\ r \notin quiet

\* "fixed bugs close ... instead of leaving stale open rows forever"
\* (reconcile.ts:3-4): after a review without the bug no row of its pull request
\* is active, however many rows earlier reviews have left.
StaleCloses ==
  \A r \in Reviewers : Misses(r) =>
    \A i \in DOMAIN rows : InScope(rows[i], review[r].pr) => rows[i].status \notin Active

\* A review that saw the bug leaves it on record: in an active row, or a row a
\* user closed, or one taken for fixed that was as severe.
BugOnRecord ==
  \A r \in Reviewers : Sees(r) => \E i \in DOMAIN rows :
    \/ rows[i].status \in Active \cup UserClosed
    \/ rows[i].status = "fixed" /\ rows[i].severity >= review[r].severity

\* "user-closed -> leave closed unless severity rose" (reconcile.ts:200): a review
\* opens a row that a user closed only if it has got more severe, or if the review
\* had read the row before the user closed it, or before it became as severe.
VerdictsKept ==
  \A i \in DOMAIN rows :
    /\ rows[i].status \in UserClosed /\ rows'[i].status \notin UserClosed
    /\ verdicts' = verdicts
    => \/ rows'[i].severity > rows[i].severity
       \/ \E r \in Reviewers : /\ At(r, "store") \/ At(r, "fix")
                               /\ review'[r] # review[r]
                               /\ \/ review[r].read[i].status \notin UserClosed
                                  \/ review[r].read[i].severity < rows[i].severity

\* No step of a review, whatever others do to the rows in between, adds a row that is
\* not needed or undoes a verdict.
WritesAreFair == [][VerdictsKept /\ DuplicatesOnlyInRaces]_findingVars

\* "was fixed -> reopen if it returned" (reconcile.ts:199).  The code drops a
\* finding that was fixed and returns as severe as it was.
ReturnedReopens ==
  \A r \in Reviewers : Sees(r) => \E i \in DOMAIN rows : rows[i].status # "fixed"

\* When a review has ended, the rows agree with what it saw.
RowsFollowReviews == StaleCloses /\ BugOnRecord
=============================================================================
