----------------------------- MODULE SeniorVerifier -----------------------------
(***************************************************************************)
(* The senior verifier (packages/agents/src/verifier.ts): the candidates   *)
(* of a review, or a sample of them, go in batches to a model, all batches *)
(* at once.  The rows of an answer name the candidate they judge by its    *)
(* index in the batch, or leave the index out; they may be missing,        *)
(* doubled or out of range, and a call may fail.                           *)
(*                                                                         *)
(* Candidates and rows are counted from 0, as in the code.  A row whose    *)
(* verdict is none of the four is skipped and left out here.               *)
(***************************************************************************)
EXTENDS Integers, FiniteSets

CONSTANTS
  NumCandidates,
  BatchSize, \* STEW_VERIFY_BATCH_SIZE (default 10)
  MaxRows    \* bound: rows in one answer

ASSUME SeniorVerifierConstants ==
  NumCandidates \in Nat /\ BatchSize \in Nat \ {0} /\ MaxRows \in Nat

Indices == 0..(NumCandidates - 1)
Verdicts == {"keep", "drop", "downgrade", "upgrade"}

\* An answer for one batch.  "one" is an object with a verdict of its own and no list.
NoIndex == -1
VerdictRows == [index : NoIndex..BatchSize, verdict : Verdicts]
RowLists == UNION {[1..n -> VerdictRows] : n \in 0..MaxRows}
Answers == [kind : {"list"}, rows : RowLists]
           \cup [kind : {"one"}, verdict : Verdicts]
           \cup [kind : {"unreadable", "failed"}]

VARIABLES
  bar,     \* policy.verificationBar
  replies, \* the answer of each batch, once it is there
  verdict, \* the verdict of each candidate, "none" as long as it has none
  ended,   \* all batches are back
  kept     \* the candidates verifyFindings returns

verifierVars == <<bar, replies, verdict, ended, kept>>

(***************************************************************************)
(* What is asked.  A Slip_ operator is a plausible bug in the definition   *)
(* after it.                                                               *)
(***************************************************************************)
\* A sample is every fifth candidate.
Stride == IF bar = "sample" THEN 5 ELSE 1
NumAsked == IF bar = "off" THEN 0 ELSE (NumCandidates + Stride - 1) \div Stride

Slip_LastBatchEmpty == {b \in 0..NumAsked : b * BatchSize <= NumAsked}

Batches == {b \in 0..NumAsked : b * BatchSize < NumAsked}
BatchLen(b) == IF NumAsked < (b + 1) * BatchSize THEN NumAsked - b * BatchSize ELSE BatchSize

Slip_IndexIsOriginal(b, index) == index

\* The candidate at an index of a batch.
Original(b, index) == (b * BatchSize + index) * Stride

VerifierTypeOK ==
  /\ bar \in {"off", "sample", "all"}
  /\ DOMAIN replies \subseteq Batches /\ \A b \in DOMAIN replies : replies[b] \in Answers
  /\ verdict \in [Indices -> Verdicts \cup {"none"}]
  /\ ended \in BOOLEAN /\ kept \subseteq Indices
  /\ \A b \in Batches : BatchLen(b) \in 1..BatchSize

VerifierInit ==
  /\ bar \in {"off", "sample", "all"}
  /\ replies = <<>> /\ verdict = [c \in Indices |-> "none"]
  /\ ended = FALSE /\ kept = {}

(***************************************************************************)
(* peelVerdicts: the verdict of each index of a batch of n.                *)
(***************************************************************************)
Indexed(rows, index) == {k \in DOMAIN rows : rows[k].index = index}

LastOf(rows, index) ==
  rows[CHOOSE k \in Indexed(rows, index) : \A l \in Indexed(rows, index) : l <= k].verdict

\* Indices that no row names take the rows without an index, in their order.
OpenSlots(rows, n) == {i \in 0..(n - 1) : Indexed(rows, i) = {}}
Rank(S, x) == Cardinality({y \in S : y < x})
Fillers(rows, n, i) ==
  {k \in Indexed(rows, NoIndex) :
     i \in OpenSlots(rows, n) /\ Rank(Indexed(rows, NoIndex), k) = Rank(OpenSlots(rows, n), i)}

PeelRows(rows, n) ==
  [i \in 0..(n - 1) |->
     IF Indexed(rows, i) # {} THEN LastOf(rows, i)
     ELSE IF Fillers(rows, n, i) # {} THEN rows[CHOOSE k \in Fillers(rows, n, i) : TRUE].verdict
     ELSE "keep"]

PeelVerdicts(answer, n) ==
  IF answer.kind = "list" THEN PeelRows(answer.rows, n)
  ELSE IF answer.kind = "one" /\ n = 1 THEN [i \in {0} |-> answer.verdict]
  ELSE [i \in 0..(n - 1) |-> "keep"]

(***************************************************************************)
(* verifyBatch, and the end of verifyFindings.                             *)
(***************************************************************************)
VerifyBatch(b) ==
  /\ b \in Batches \ DOMAIN replies
  /\ \E answer \in Answers :
       LET peeled == PeelVerdicts(answer, BatchLen(b)) IN
         /\ replies' = [x \in DOMAIN replies \cup {b} |-> IF x = b THEN answer ELSE replies[x]]
         /\ verdict' = [c \in Indices |->
              LET mine == {i \in DOMAIN peeled : Original(b, i) = c}
              IN IF mine = {} THEN verdict[c] ELSE peeled[CHOOSE i \in mine : TRUE]]
  /\ UNCHANGED <<bar, ended, kept>>

\* What was not asked about is kept.
Surviving == {c \in Indices : verdict[c] # "drop"}

EndVerify ==
  /\ ~ended /\ DOMAIN replies = Batches
  /\ ended' = TRUE /\ kept' = Surviving
  /\ UNCHANGED <<bar, replies, verdict>>

VerifierNext == (\E b \in Batches : VerifyBatch(b)) \/ EndVerify

VerifierSpec == VerifierInit /\ [][VerifierNext]_verifierVars

(***************************************************************************)
(* Properties.                                                             *)
(***************************************************************************)
RowsOf(b) == IF replies[b].kind = "list" THEN replies[b].rows ELSE <<>>

\* "Include one entry per input finding index" (verifier.ts, the prompt): a row
\* that names a candidate of its batch judges that candidate, the last one if
\* there are several, and no row without an index takes its place.
NamedRowsCount ==
  \A b \in DOMAIN replies : \A k \in DOMAIN RowsOf(b) :
    LET row == RowsOf(b)[k] IN
      /\ row.index \in 0..(BatchLen(b) - 1)
      /\ \A l \in DOMAIN RowsOf(b) : l > k => RowsOf(b)[l].index # row.index
      => verdict[Original(b, row.index)] = row.verdict

\* A candidate is lost only to a model that said so: no more candidates of a batch
\* are dropped than its answer drops, and none for an answer that failed, was not
\* readable or belongs to another batch, nor for not being sampled.
DropsWereAsked ==
  ended =>
    /\ \A b \in Batches :
         LET mine == {Original(b, i) : i \in 0..(BatchLen(b) - 1)}
             drops == {k \in DOMAIN RowsOf(b) : RowsOf(b)[k].verdict = "drop"}
             one == replies[b].kind = "one" /\ BatchLen(b) = 1 /\ replies[b].verdict = "drop"
         IN Cardinality(mine \ kept) <= Cardinality(drops) + IF one THEN 1 ELSE 0
    /\ \A c \in Indices \ kept :
         \E b \in Batches, i \in 0..(BatchSize - 1) : i < BatchLen(b) /\ Original(b, i) = c

\* A verdict reaches the candidate it was given for, and no other.
VerdictsLand == NamedRowsCount /\ DropsWereAsked
=============================================================================
