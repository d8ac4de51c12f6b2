----------------------------- MODULE Publication -----------------------------
(***************************************************************************)
(* The findings of a finished review on their way to the pull request      *)
(* (publishFindingsToPullRequest in packages/agents/src/                   *)
(* scm-findings-publish.ts), called at the end of a review and again by    *)
(* POST /v1/sessions/:id/publish (packages/api/src/republish-scm.ts), and  *)
(* the threads that a later review resolves.  GitHub may refuse a call, or *)
(* carry it out while its answer is lost.                                  *)
(*                                                                         *)
(* A finding is the number of its place once findings are sorted by        *)
(* severity.                                                               *)
(***************************************************************************)
EXTENDS Naturals, FiniteSets

CONSTANTS
  NumFindings,      \* how many findings the review has
  FileOf,           \* the path each finding is about
  OnDiff,           \* the findings with a line in or near the diff of the PR
  CommentCap,       \* STEW_COMMENT_CAP (default 40)
  MaxPublications,  \* bound: how often the findings are published
  MaxLost           \* bound: how many answers of GitHub are lost

Reported == 1..NumFindings

ASSUME PublicationConstants ==
  /\ NumFindings \in Nat /\ CommentCap \in Nat \ {0}
  /\ MaxPublications \in Nat /\ MaxLost \in Nat
  /\ DOMAIN FileOf = Reported
  /\ OnDiff \subseteq Reported

VARIABLES
  stage,        \* what the publication does next
  inline,       \* findings still to be posted on a line of the diff
  conversation, \* findings still to be posted in the conversation of the PR
  refusal,      \* why the review with all comments was refused
  counted,      \* the findings behind inlineCount
  conversed,    \* the findings behind conversationCount
  skipped,      \* the findings behind skippedCount
  posted,       \* what postedByFindingId says of each finding
  threads,      \* on the PR: how many review threads each finding has,
  comments,     \* how many conversation comments,
  resolved,     \* and how many of its threads are resolved
  commentId,    \* the stored scmCommentId of each finding
  finished,     \* the session has ended
  publications, \* how often publishing has begun
  lost          \* how many answers were lost

planVars == <<inline, conversation, refusal>>
tallyVars == <<counted, conversed, skipped, posted>>
prVars == <<threads, comments, resolved>>
publishVars == <<stage, planVars, tallyVars, prVars, commentId, finished, publications, lost>>

Places == {"none", "thread", "comment"}

PublishTypeOK ==
  /\ stage \in {"idle", "batch", "summary", "single", "conversation", "match", "save"}
  /\ inline \cup conversation \subseteq 1..CommentCap \cap Reported
  /\ refusal \in {"none", "line", "other"}
  /\ counted \subseteq Reported /\ conversed \subseteq Reported /\ skipped \subseteq Reported
  /\ posted \in [Reported -> Places] /\ commentId \in [Reported -> Places]
  /\ threads \in [Reported -> Nat] /\ comments \in [Reported -> Nat]
  /\ resolved \in [Reported -> {0, 1}]
  /\ finished \in BOOLEAN /\ publications \in 0..MaxPublications /\ lost \in 0..MaxLost

PublishInit ==
  /\ stage = "idle" /\ refusal = "none"
  /\ inline = {} /\ conversation = {} /\ counted = {} /\ conversed = {} /\ skipped = {}
  /\ posted = [f \in Reported |-> "none"] /\ commentId = [f \in Reported |-> "none"]
  /\ threads = [f \in Reported |-> 0] /\ comments = [f \in Reported |-> 0]
  /\ resolved = [f \in Reported |-> 0]
  /\ finished = FALSE /\ publications = 0 /\ lost = 0

\* capComments: the most severe findings.
Capped == {f \in Reported : f <= CommentCap}

\* What becomes of a call to GitHub.
Outcomes == {"done", "refused", "lost"}
Happens(o, S) == IF o = "refused" THEN {} ELSE S
Answered(o, S) == IF o = "done" THEN S ELSE {}
Call(o) == IF o = "lost" THEN lost < MaxLost /\ lost' = lost + 1 ELSE UNCHANGED lost

Bump(count, S) == [f \in Reported |-> IF f \in S THEN count[f] + 1 ELSE count[f]]

(***************************************************************************)
(* The publication.  A Slip_ operator is a plausible bug in the definition *)
(* after it.                                                               *)
(***************************************************************************)

\* pickLine: the findings with a line on the diff; none if reading it failed.
Placeable(seen) == IF seen THEN Capped \cap OnDiff ELSE {}

\* The diff is read, and every finding gets its place.
Plan ==
  /\ stage = "idle" /\ publications < MaxPublications
  /\ \E seen \in BOOLEAN : inline' = Placeable(seen)
  /\ conversation' = Capped \ inline'
  /\ stage' = "batch" /\ refusal' = "none"
  /\ counted' = {} /\ conversed' = {} /\ skipped' = {}
  /\ posted' = [f \in Reported |-> "none"]
  /\ publications' = publications + 1
  /\ UNCHANGED <<prVars, commentId, finished, lost>>

\* publishScm, at the end of a review; again if the review crashes before its end.
PublishReview == ~finished /\ Plan

\* republishSessionToScm, when the session has ended.
Republish == finished /\ Plan

\* One review with the summary and all inline comments.
PostBatch ==
  /\ stage = "batch"
  /\ \E o \in Outcomes :
       /\ Call(o)
       /\ threads' = Bump(threads, Happens(o, inline))
       /\ counted' = Answered(o, inline)
       /\ stage' = IF o = "done" THEN "conversation" ELSE "summary"
       /\ refusal' \in IF o = "done" THEN {"none"}
                       ELSE IF o = "lost" THEN {"other"} ELSE {"line", "other"}
  /\ UNCHANGED <<inline, conversation, conversed, skipped, posted, comments, resolved,
                 commentId, finished, publications>>

\* The most severe finding about the same file.
MatchByPath(f) == CHOOSE g \in Capped :
  FileOf[g] = FileOf[f] /\ \A h \in Capped : FileOf[h] = FileOf[f] => g <= h

Slip_DemotedLast == {f \in inline : \A g \in inline : g <= f}

\* Every inline finding is looked up by its path.
Demoted == {MatchByPath(f) : f \in inline}

SummaryComments == {}

\* The review was refused: the summary is posted alone.  Whether or not that
\* works, the comments are then tried one by one if a line was the reason, and
\* are demoted to the conversation if not.
PostSummary ==
  /\ stage = "summary"
  /\ \E o \in Outcomes : Call(o) /\ threads' = Bump(threads, Happens(o, SummaryComments))
  /\ stage' = IF refusal = "line" THEN "single" ELSE "conversation"
  /\ conversation' = IF refusal = "line" THEN conversation ELSE conversation \cup Demoted
  /\ UNCHANGED <<inline, refusal, tallyVars, comments, resolved, commentId,
                   finished, publications>>

\* A review for each inline comment; one that fails is demoted.
PostSingle(f) ==
  /\ stage = "single" /\ f \in inline /\ \A g \in inline : f <= g
  /\ \E o \in Outcomes :
       /\ Call(o)
       /\ threads' = Bump(threads, Happens(o, {f}))
       /\ counted' = counted \cup Answered(o, {f})
       /\ conversation' = conversation \cup ({f} \ Answered(o, {f}))
  /\ inline' = inline \ {f}
  /\ UNCHANGED <<stage, refusal, conversed, skipped, posted, comments, resolved,
                 commentId, finished, publications>>

\* A conversation comment for a finding without a place on the diff.
PostComment(f) ==
  /\ stage = "conversation" /\ f \in conversation
  /\ \E o \in Outcomes :
       /\ Call(o)
       /\ comments' = Bump(comments, Happens(o, {f}))
       /\ conversed' = conversed \cup Answered(o, {f})
       /\ skipped' = skipped \cup ({f} \ Answered(o, {f}))
       /\ posted' = [g \in Reported |-> IF g \in Answered(o, {f}) THEN "comment" ELSE posted[g]]
  /\ conversation' = conversation \ {f}
  /\ UNCHANGED <<stage, inline, refusal, counted, threads, resolved, commentId,
                   finished, publications>>

\* The loop over single reviews, or over conversation comments, is over.
EndLoop ==
  /\ \/ stage = "single" /\ inline = {} /\ stage' = "conversation"
     \/ stage = "conversation" /\ conversation = {} /\ stage' = "match"
  /\ UNCHANGED <<planVars, tallyVars, prVars, commentId, finished, publications, lost>>

\* formatFindingPrCommentBody puts the finding's id into each of its comments.
Marked == {f \in Reported : threads[f] > 0}
Matched == {f \in Capped : posted[f] = "none"} \cap Marked

\* If any comment was posted inline, the review comments are listed and matched.
MatchThreads ==
  /\ stage = "match"
  /\ \E listed \in IF counted = {} THEN {{}} ELSE {Matched, {}} :
       posted' = [f \in Reported |-> IF f \in listed THEN "thread" ELSE posted[f]]
  /\ stage' = "save"
  /\ UNCHANGED <<planVars, counted, conversed, skipped, prVars, commentId,
                   finished, publications, lost>>

\* The ids are stored with the findings.
SaveCommentIds ==
  /\ stage = "save" /\ stage' = "idle"
  /\ commentId' = [f \in Reported |-> IF posted[f] = "none" THEN commentId[f] ELSE posted[f]]
  /\ finished' = TRUE
  /\ UNCHANGED <<planVars, tallyVars, prVars, publications, lost>>

\* The publishing process stops.  Nothing takes this publication up again.
CrashPublisher ==
  /\ stage # "idle" /\ stage' = "idle"
  /\ UNCHANGED <<planVars, tallyVars, prVars, commentId, finished, publications, lost>>

\* resolveReviewThreadForComment of an auto-fixed finding: the first thread with
\* the id of its comment or one of its markers, unless that is resolved already.
ResolveThread(f) ==
  /\ threads[f] > 0 /\ resolved' = [resolved EXCEPT ![f] = 1]
  /\ UNCHANGED <<stage, planVars, tallyVars, threads, comments, commentId,
                   finished, publications, lost>>

PublishNext ==
  \/ PublishReview \/ Republish \/ PostBatch \/ PostSummary \/ EndLoop \/ MatchThreads
  \/ SaveCommentIds \/ CrashPublisher
  \/ \E f \in Reported : PostSingle(f) \/ PostComment(f) \/ ResolveThread(f)

PublishSpec == PublishInit /\ [][PublishNext]_publishVars

(***************************************************************************)
(* Properties.                                                             *)
(***************************************************************************)
Shown(f) == threads[f] + comments[f] > 0

\* "so findings are never dropped silently" (scm-findings-publish.ts:4): after a
\* publication each finding under the cap is on the PR or counted as skipped.
\* The code fails this if a batch is refused for another reason than a line and
\* two of its findings are about the same file.
NeverDropped == stage = "save" => \A f \in Capped : Shown(f) \/ f \in skipped

\* A finding is dropped silently only in the shadow of a more severe one about
\* the same file.
DroppedOnlyBehindAnother ==
  stage = "save" => \A f \in Capped :
    \/ Shown(f) \/ f \in skipped
    \/ refusal = "other" /\ (\E g \in Capped : g < f /\ FileOf[g] = FileOf[f])

\* As long as no answer is lost, a finding has at most one place on the PR for
\* each publication, whatever was refused and tried again.
OnePlacePerPublication ==
  lost = 0 => \A f \in Reported : threads[f] + comments[f] <= publications

\* inlineCount and conversationCount never claim a finding that is not shown.
CountsAreShown == \A f \in counted \cup conversed : Shown(f)

\* A stored comment id is one of a comment or a thread of this finding.
CommentIdsExist ==
  \A f \in Reported : /\ commentId[f] = "thread" => threads[f] > 0
                      /\ commentId[f] = "comment" => comments[f] > 0

\* What the publication says of each finding, in the counts it reports and the ids it
\* stores, is true of the pull request, after batches that are refused and
\* answers that are lost; and what it repeats or drops is bounded.
PublicationTrue ==
  DroppedOnlyBehindAnother /\ OnePlacePerPublication /\ CountsAreShown /\ CommentIdsExist
=============================================================================
