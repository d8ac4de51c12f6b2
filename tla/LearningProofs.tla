---------------------------- MODULE LearningProofs ----------------------------
(***************************************************************************)
(* What merges say of findings and mark (MergeOutcome), and the memory     *)
(* that is consolidated from outcomes (OutcomeMemory): for any findings,   *)
(* pull requests, repositories, jobs, deaths, signals of users and         *)
(* failures of the store.                                                  *)
(***************************************************************************)
EXTENDS MCServices, FiniteSetTheorems, TLAPS

(***************************************************************************)
(* A merge that is delivered several times.                                *)
(***************************************************************************)
MergeStages == {"queued", "insert", "save", "mark", "update", "close", "complete", "done"}
Attempts == MergeJobs \X (1..MaxAttempts)
OutcomeKinds == Dispositions \cup {"agent_miss_candidate"}
MergeRecords ==
  [stage : MergeStages, attempt : 0..MaxAttempts, seen : [Noted -> Standings \cup {"unseen"}],
   toSave : SUBSET MergeOutcomes, toMark : SUBSET Noted, inHand : SUBSET Noted,
   reaction : {"none", "up", "down"}]
PrRows == [by : Attempts, counts : Counts]

MergeTypes ==
  /\ standing \in [Noted -> Standings]
  /\ prRow \in [Pulls -> PrRows \cup {NoRow}]
  /\ classified \subseteq MergeOutcomes /\ IsFiniteSet(classified)
  /\ merge \in [MergeJobs -> MergeRecords]
  /\ concluded \subseteq MergeJobs
  /\ said \in [Noted -> Stances \cup {"none"}]
  /\ lapses \subseteq Noted /\ signals \in 0..MaxSignals

\* The attempt at work has the row of its pull request.
Wrote(j) == merge[j].stage \in {"save", "mark", "update", "close", "complete", "done"}
By(j) == <<j, merge[j].attempt>>

\* What the attempt saves, whether it has done so or not.
Found(j) == OutcomesOf(PullOf[j]) \cup merge[j].toSave

TakesCare(o) == o.kind \in {"accepted", "fixed"}

Accepted(rows1, j) == \A o \in rows1 : o.kind = "accepted" =>
  /\ o.about \in Noted
  /\ \/ o.about \in merge[j].toMark \cup lapses
     \/ standing[o.about].status = "fixed"

AttemptInv(j) ==
  /\ merge[j].stage # "queued" => merge[j].attempt # 0
  /\ merge[j].stage = "insert" => merge[j].seen \in [Noted -> Standings]
  /\ merge[j].inHand \subseteq merge[j].toMark
  /\ merge[j].inHand # {} => merge[j].stage = "update"
  /\ merge[j].toMark # {} => merge[j].stage \in {"save", "mark", "update"}
  /\ merge[j].toSave # {} => merge[j].stage = "save"
  /\ IsFiniteSet(merge[j].toSave)
  /\ \A o \in merge[j].toSave : o.pull = PullOf[j] /\ o.by = By(j)
  /\ \A f \in merge[j].toMark : \E o \in classified \cup merge[j].toSave :
       o.about = f /\ TakesCare(o)
  /\ Wrote(j) =>
       /\ prRow[PullOf[j]] # NoRow /\ prRow[PullOf[j]].by = By(j)
       /\ \A k \in OutcomeKinds : OfKind(Found(j), k) = prRow[PullOf[j]].counts[k]
       /\ signals = 0 => Accepted(Found(j), j)

\* Outcomes are of the attempt that has the row, and no more than it counted.
PullInv(p) ==
  /\ \A o \in OutcomesOf(p) : prRow[p] # NoRow /\ o.by = prRow[p].by
  /\ prRow[p] # NoRow =>
       \A k \in OutcomeKinds : OfKind(OutcomesOf(p), k) <= prRow[p].counts[k]

\* A job that concluded its session has saved and marked what there was.
EndedInv(j) ==
  /\ Wrote(j) => merge[j].stage \in {"complete", "done"}
  /\ prRow[PullOf[j]] # NoRow /\ prRow[PullOf[j]].by[1] = j
  /\ \A k \in OutcomeKinds : OfKind(OutcomesOf(PullOf[j]), k) = prRow[PullOf[j]].counts[k]
  /\ signals = 0 => \A o \in OutcomesOf(PullOf[j]) : o.kind = "accepted" =>
       o.about \in Noted /\ (o.about \in lapses \/ standing[o.about].status = "fixed")

\* What a user said stands, and no merge is about to change it.
SaidInv(f) ==
  said[f] # "none" =>
    standing[f].status = said[f] /\ ~AboutToMark(f) /\ ~MayBeMarked(standing[f])

MergeInv ==
  /\ MergeTypes /\ FixesAreOnRecord
  /\ \A j \in MergeJobs : AttemptInv(j)
  /\ \A p \in Pulls : PullInv(p)
  /\ \A j \in concluded : EndedInv(j)
  /\ \A f \in Noted : SaidInv(f)

LEMMA KindsCount ==
  ASSUME NEW S, IsFiniteSet(S), NEW k
  PROVE  /\ OfKind(S, k) \in Nat
         /\ \A T \in SUBSET S : IsFiniteSet(T) /\ OfKind(T, k) <= OfKind(S, k)
<1>1. {o \in S : o.kind = k} \in SUBSET S
  OBVIOUS
<1>2. IsFiniteSet({o \in S : o.kind = k})
  BY <1>1, FS_Subset
<1>3. ASSUME NEW T \in SUBSET S PROVE IsFiniteSet(T) /\ OfKind(T, k) <= OfKind(S, k)
  <2>1. {o \in T : o.kind = k} \in SUBSET {o \in S : o.kind = k}
    OBVIOUS
  <2> QED BY <1>2, <2>1, FS_Subset DEF OfKind
<1> QED BY <1>2, <1>3, FS_CardinalityType DEF OfKind

LEMMA NoOutcomes == \A k : OfKind({}, k) = 0
<1>1. \A k : {o \in {} : o.kind = k} = {}
  OBVIOUS
<1> QED BY <1>1, FS_EmptySet DEF OfKind

LEMMA WaitingType ==
  /\ Waiting \in MergeRecords /\ Waiting.stage = "queued" /\ Waiting.attempt = 0
  /\ Waiting.toSave = {} /\ Waiting.toMark = {} /\ Waiting.inHand = {}
<1>1. 0 \in 0..MaxAttempts
  BY MergeConstants
<1> QED BY <1>1 DEF Waiting, MergeRecords, MergeStages

LEMMA MergeStart == MergeInit => MergeInv
<1> SUFFICES ASSUME MergeInit PROVE MergeInv
  OBVIOUS
<1> USE DEF MergeInit
<1>1. MergeTypes
  <2>1. standing \in [Noted -> Standings]
    BY MergeConstants
  <2>2. merge \in [MergeJobs -> MergeRecords]
    BY WaitingType
  <2> QED BY <2>1, <2>2, MergeConstants, FS_EmptySet DEF MergeTypes
<1>2. FixesAreOnRecord
  <2>1. \A f \in Noted : standing[f].status # "fixed"
    BY MergeConstants
  <2> QED BY <2>1 DEF FixesAreOnRecord
<1>3. ASSUME NEW j \in MergeJobs PROVE AttemptInv(j)
  BY WaitingType, FS_EmptySet DEF AttemptInv, Wrote
<1>4. ASSUME NEW p \in Pulls PROVE PullInv(p)
  BY DEF PullInv, OutcomesOf
<1>5. ASSUME NEW f \in Noted PROVE SaidInv(f)
  BY DEF SaidInv
<1> QED BY <1>1, <1>2, <1>3, <1>4, <1>5 DEF MergeInv

LEMMA MergeFields ==
  ASSUME MergeTypes, NEW j \in MergeJobs
  PROVE  /\ merge \in [MergeJobs -> MergeRecords] /\ merge[j] \in MergeRecords
         /\ merge[j].stage \in MergeStages /\ merge[j].attempt \in 0..MaxAttempts
         /\ merge[j].toSave \subseteq MergeOutcomes /\ merge[j].toMark \subseteq Noted
         /\ merge[j].inHand \subseteq Noted /\ merge[j].reaction \in {"none", "up", "down"}
         /\ MaxAttempts \in Nat /\ signals \in Nat /\ PullOf[j] \in Pulls
<1>1. merge[j] \in MergeRecords
  BY DEF MergeTypes
<1> QED BY <1>1, MergeConstants DEF MergeTypes, MergeRecords

\* Nothing that was saved or marked is lost.
Onward ==
  /\ classified \subseteq classified' /\ lapses \subseteq lapses'
  /\ signals' = 0 => /\ signals = 0
                     /\ \A f \in Noted : standing[f].status = "fixed" =>
                                           standing'[f].status = "fixed"

SameRow(p) == prRow'[p] = prRow[p] /\ OutcomesOf(p)' = OutcomesOf(p)

LEMMA AttemptStays ==
  ASSUME MergeInv, NEW i \in MergeJobs, merge'[i] = merge[i], Onward,
         Wrote(i) => SameRow(PullOf[i])
  PROVE  AttemptInv(i)'
<1>1. AttemptInv(i)
  BY DEF MergeInv
<1>2. \A f \in merge[i].toMark : \E o \in classified' \cup merge[i].toSave :
        o.about = f /\ TakesCare(o)
  BY <1>1 DEF AttemptInv, Onward
<1>3. (Wrote(i) <=> Wrote(i)') /\ By(i)' = By(i)
  BY DEF Wrote, By
<1>4. ASSUME Wrote(i)
      PROVE  /\ prRow'[PullOf[i]] # NoRow /\ prRow'[PullOf[i]].by = By(i)
             /\ \A k \in OutcomeKinds : OfKind(Found(i)', k) = prRow'[PullOf[i]].counts[k]
             /\ signals' = 0 => Accepted(Found(i), i)'
  <2>1. Found(i)' = Found(i) /\ prRow'[PullOf[i]] = prRow[PullOf[i]]
    BY <1>4 DEF SameRow, Found
  <2>2. signals' = 0 => Accepted(Found(i), i)'
    BY <1>1, <1>4, <2>1 DEF AttemptInv, Accepted, Onward
  <2> QED BY <1>1, <1>4, <2>1, <2>2 DEF AttemptInv
<1> QED BY <1>1, <1>2, <1>3, <1>4 DEF AttemptInv, OfKind, TakesCare

LEMMA EndedStays ==
  ASSUME MergeInv, NEW i \in concluded, Onward, SameRow(PullOf[i]),
         Wrote(i)' => merge'[i].stage \in {"complete", "done"}
  PROVE  EndedInv(i)'
<1>1. EndedInv(i) /\ i \in MergeJobs
  BY DEF MergeInv, MergeTypes
<1>2. ASSUME signals' = 0, NEW o \in OutcomesOf(PullOf[i]), o.kind = "accepted"
      PROVE  o.about \in Noted /\ (o.about \in lapses' \/ standing'[o.about].status = "fixed")
  BY <1>1, <1>2 DEF EndedInv, Onward
<1> QED BY <1>1, <1>2 DEF EndedInv, SameRow, OfKind

\* The next job that would mark the finding.
Marks(j, f) ==
  \/ f \in merge[j].toMark
  \/ /\ merge[j].stage = "insert" /\ OfPull(f, PullOf[j])
     /\ TakenCareOf(merge[j].seen[f], f, PullOf[j])

LEMMA SaidMarks == \A f : AboutToMark(f) <=> \E j \in MergeJobs : Marks(j, f)
BY DEF AboutToMark, Marks

Moved(j) ==
  /\ merge' \in [MergeJobs -> MergeRecords]
  /\ \A i \in MergeJobs \ {j} : merge'[i] = merge[i]

\* A step of one job that saves nothing and marks nothing.
LEMMA JobGoesOn ==
  ASSUME MergeInv, NEW j \in MergeJobs,
         Moved(j), UNCHANGED <<standing, prRow, classified, said, signals>>,
         lapses \subseteq lapses', lapses' \subseteq Noted, concluded' \subseteq MergeJobs,
         AttemptInv(j)',
         \A f \in Noted : said[f] # "none" /\ Marks(j, f)' => Marks(j, f),
         j \in concluded /\ Wrote(j)' => merge'[j].stage \in {"complete", "done"},
         \A i \in concluded' : i \in concluded \/ EndedInv(i)'
  PROVE  MergeInv'
<1> USE DEF MergeInv, Moved
<1>1. MergeTypes'
  BY DEF MergeTypes
<1>2. Onward /\ \A p : SameRow(p)
  BY DEF Onward, SameRow, OutcomesOf
<1>3. ASSUME NEW i \in MergeJobs PROVE AttemptInv(i)'
  BY <1>2, AttemptStays
<1>4. ASSUME NEW p \in Pulls PROVE PullInv(p)'
  BY DEF PullInv, OutcomesOf, OfKind
<1>5. ASSUME NEW i \in concluded' PROVE EndedInv(i)'
  <2>1. CASE i \in concluded
    <3>1. EndedInv(i) /\ (i # j => merge'[i] = merge[i])
      BY <2>1 DEF MergeTypes
    <3>2. Wrote(i)' => merge'[i].stage \in {"complete", "done"}
      BY <2>1, <3>1 DEF EndedInv, Wrote
    <3> QED BY <1>2, <2>1, <3>2, EndedStays
  <2> QED BY <2>1
<1>6. ASSUME NEW f \in Noted PROVE SaidInv(f)'
  <2>1. \A i \in MergeJobs \ {j} : Marks(i, f)' <=> Marks(i, f)
    BY DEF Marks, TakenCareOf, OfPull, Touched
  <2>2. SaidInv(f)
    OBVIOUS
  <2>3. said[f] # "none" /\ AboutToMark(f)' => AboutToMark(f)
    <3>1. AboutToMark(f)' <=> \E i \in MergeJobs : Marks(i, f)'
      BY DEF AboutToMark, Marks, OfPull, TakenCareOf, Touched
    <3> QED BY <2>1, <3>1, SaidMarks
  <2> QED BY <2>2, <2>3 DEF SaidInv, MayBeMarked
<1>7. FixesAreOnRecord'
  BY DEF FixesAreOnRecord
<1> QED BY <1>1, <1>3, <1>4, <1>5, <1>6, <1>7

LEMMA AttemptEnds ==
  ASSUME MergeInv, NEW j \in MergeJobs, EndAttempt(j),
         UNCHANGED <<standing, prRow, classified, concluded, said, lapses, signals>>
  PROVE  MergeInv'
<1> DEFINE rec == [Waiting EXCEPT !.attempt = merge[j].attempt]
<1>1. MergeTypes
  BY DEF MergeInv
<1>2. /\ rec \in MergeRecords /\ rec.stage = "queued" /\ rec.toSave = {} /\ rec.toMark = {}
      /\ rec.inHand = {}
  BY <1>1, MergeFields, WaitingType DEF MergeRecords
<1>3. merge' = [merge EXCEPT ![j] = rec]
  BY DEF EndAttempt
<1> HIDE DEF rec
<1>4. Moved(j) /\ merge'[j] = rec
  BY <1>1, <1>2, <1>3, MergeFields DEF Moved
<1>5. ~Wrote(j)'
  BY <1>2, <1>4 DEF Wrote
<1>6. AttemptInv(j)'
  BY <1>2, <1>4, <1>5, FS_EmptySet DEF AttemptInv
<1>7. \A f \in Noted : ~Marks(j, f)'
  BY <1>2, <1>4 DEF Marks
<1>8. lapses \subseteq Noted /\ concluded \subseteq MergeJobs
  BY <1>1 DEF MergeTypes
<1> QED BY <1>4, <1>5, <1>6, <1>7, <1>8, JobGoesOn

LEMMA MergeAnalyzed == ASSUME MergeInv, NEW j \in MergeJobs, AnalyzeMerge(j) PROVE MergeInv'
<1> DEFINE rec == [Waiting EXCEPT !.stage = "insert", !.seen = standing,
                                  !.attempt = merge[j].attempt + 1]
<1> USE DEF AnalyzeMerge
<1>1. MergeTypes /\ standing \in [Noted -> Standings]
  BY DEF MergeInv, MergeTypes
<1>2. merge[j].attempt + 1 \in 0..MaxAttempts /\ merge[j].attempt + 1 # 0
  BY <1>1, MergeFields
<1>3. /\ rec \in MergeRecords /\ rec.stage = "insert" /\ rec.toSave = {} /\ rec.toMark = {}
      /\ rec.inHand = {} /\ rec.seen = standing /\ rec.attempt # 0
  BY <1>1, <1>2, WaitingType DEF MergeRecords, MergeStages
<1>4. merge' = [merge EXCEPT ![j] = rec]
  OBVIOUS
<1> HIDE DEF rec
<1>5. Moved(j) /\ merge'[j] = rec
  BY <1>1, <1>3, <1>4, MergeFields DEF Moved
<1>6. ~Wrote(j)'
  BY <1>3, <1>5 DEF Wrote
<1>7. AttemptInv(j)'
  BY <1>1, <1>3, <1>5, <1>6, FS_EmptySet DEF AttemptInv
<1>8. \A f \in Noted : said[f] # "none" => ~Marks(j, f)'
  <2>1. \A f \in Noted : said[f] # "none" => ~MayBeMarked(standing[f])
    BY DEF MergeInv, SaidInv
  <2> QED BY <1>3, <1>5, <2>1 DEF Marks, TakenCareOf, MayBeMarked, OfPull
<1>9. lapses \subseteq Noted /\ concluded \subseteq MergeJobs
  BY <1>1 DEF MergeTypes
<1> QED BY <1>5, <1>6, <1>7, <1>8, <1>9, JobGoesOn

\* A job that goes on with what it has to mark.
LEMMA MarkingMoves ==
  ASSUME MergeInv, NEW j \in MergeJobs, Wrote(j), merge[j].toSave = {}, Moved(j),
         merge'[j].toSave = {}, merge'[j].attempt = merge[j].attempt,
         merge'[j].toMark \subseteq merge[j].toMark,
         merge'[j].inHand \subseteq merge'[j].toMark,
         merge'[j].stage \in {"mark", "update", "close", "complete", "done"},
         merge'[j].inHand # {} => merge'[j].stage = "update",
         merge'[j].toMark # {} => merge'[j].stage \in {"mark", "update"},
         UNCHANGED <<prRow, classified>>, Onward,
         \A f \in merge[j].toMark \ merge'[j].toMark :
           f \in lapses' \/ (signals' = 0 => standing'[f].status = "fixed")
  PROVE  AttemptInv(j)' /\ \A f \in Noted : Marks(j, f)' => Marks(j, f)
<1>1. MergeTypes /\ AttemptInv(j)
  BY DEF MergeInv
<1>2. By(j)' = By(j) /\ Found(j)' = Found(j) /\ Found(j) = OutcomesOf(PullOf[j])
  BY DEF By, Found, OutcomesOf
<1>3. ASSUME signals' = 0 PROVE Accepted(Found(j), j)'
  <2>1. Accepted(Found(j), j)
    BY <1>1, <1>3 DEF AttemptInv, Onward
  <2> SUFFICES ASSUME NEW o \in Found(j), o.kind = "accepted"
               PROVE  /\ o.about \in Noted
                      /\ \/ o.about \in merge'[j].toMark \cup lapses'
                         \/ standing'[o.about].status = "fixed"
    BY <1>2 DEF Accepted
  <2> QED BY <1>3, <2>1 DEF Accepted, Onward
<1>4. AttemptInv(j)'
  BY <1>1, <1>2, <1>3, FS_EmptySet DEF AttemptInv, Wrote, OfKind, TakesCare
<1>5. \A f \in Noted : Marks(j, f)' => Marks(j, f)
  BY DEF Marks
<1> QED BY <1>4, <1>5

LEMMA MergeReads == ASSUME MergeInv, NEW j \in MergeJobs, ReadToMark(j) PROVE MergeInv'
<1> USE DEF ReadToMark
<1>1. /\ MergeTypes /\ AttemptInv(j) /\ Wrote(j) /\ merge[j].toSave = {}
      /\ merge[j].inHand \subseteq merge[j].toMark
  BY DEF MergeInv, AttemptInv, Wrote
<1>2. /\ merge[j] \in MergeRecords /\ merge \in [MergeJobs -> MergeRecords]
      /\ merge[j].toMark \subseteq Noted /\ standing \in [Noted -> Standings]
      /\ lapses \subseteq Noted /\ concluded \subseteq MergeJobs
  BY <1>1, MergeFields DEF MergeTypes
<1>3. j \notin concluded
  BY <1>1 DEF MergeInv, EndedInv, Wrote
<1>4. ASSUME NEW rec \in MergeRecords, merge' = [merge EXCEPT ![j] = rec],
             rec.toSave = {}, rec.attempt = merge[j].attempt,
             rec.toMark \subseteq merge[j].toMark, rec.inHand \subseteq rec.toMark,
             rec.stage \in {"mark", "update"}, rec.inHand # {} => rec.stage = "update",
             lapses' = lapses \cup (merge[j].toMark \ rec.toMark)
      PROVE  MergeInv'
  <2>1. Moved(j) /\ merge'[j] = rec
    BY <1>2, <1>4 DEF Moved
  <2>2. Onward /\ lapses' \subseteq Noted
    BY <1>2, <1>4 DEF Onward
  <2>3. AttemptInv(j)' /\ \A f \in Noted : Marks(j, f)' => Marks(j, f)
    BY <1>1, <1>4, <2>1, <2>2, MarkingMoves
  <2> QED BY <1>2, <1>3, <1>4, <2>1, <2>2, <2>3, JobGoesOn
<1>5. ASSUME NEW f \in merge[j].toMark, UNCHANGED lapses,
             merge' = [merge EXCEPT ![j].stage = "update", ![j].inHand = {f},
                                    ![j].reaction = standing[f].reaction]
      PROVE  MergeInv'
  <2> DEFINE read1 == standing[f].reaction
             rec == [merge[j] EXCEPT !.stage = "update", !.inHand = {f}, !.reaction = read1]
  <2>1. read1 \in {"none", "up", "down"} /\ {f} \in SUBSET Noted
    BY <1>2 DEF Standings
  <2>4. merge' = [merge EXCEPT ![j] = rec]
    BY <1>5
  <2> HIDE DEF read1
  <2>2. /\ rec \in MergeRecords /\ rec.toSave = {} /\ rec.attempt = merge[j].attempt
        /\ rec.toMark = merge[j].toMark /\ rec.inHand = {f} /\ rec.stage = "update"
    BY <1>1, <1>2, <2>1 DEF MergeRecords, MergeStages
  <2> HIDE DEF rec
  <2> QED BY <1>4, <1>5, <2>2, <2>4
<1>6. ASSUME NEW f \in merge[j].toMark, lapses' = lapses \cup {f},
             merge' = [merge EXCEPT ![j].toMark = @ \ {f}]
      PROVE  MergeInv'
  <2> DEFINE rec == [merge[j] EXCEPT !.toMark = @ \ {f}]
  <2>1. merge[j].inHand = {}
    BY DEF MergeInv, AttemptInv
  <2>2. /\ rec \in MergeRecords /\ rec.toSave = {} /\ rec.attempt = merge[j].attempt
        /\ rec.toMark = merge[j].toMark \ {f} /\ rec.inHand = {} /\ rec.stage = "mark"
    BY <1>1, <1>2, <2>1 DEF MergeRecords
  <2>3. merge' = [merge EXCEPT ![j] = rec]
    BY <1>6
  <2> HIDE DEF rec
  <2>4. lapses' = lapses \cup (merge[j].toMark \ rec.toMark)
    BY <1>6, <2>2
  <2> QED BY <1>4, <2>2, <2>3, <2>4
<1> QED BY <1>5, <1>6

LEMMA MergeAllMarked == ASSUME MergeInv, NEW j \in MergeJobs, AllMarked(j) PROVE MergeInv'
<1> USE DEF AllMarked
<1> DEFINE rec == [merge[j] EXCEPT !.stage = "close"]
<1>1. /\ MergeTypes /\ AttemptInv(j) /\ Wrote(j) /\ merge[j].toSave = {}
      /\ merge[j].inHand = {} /\ lapses \subseteq Noted /\ concluded \subseteq MergeJobs
  BY DEF MergeInv, AttemptInv, Wrote, MergeTypes
<1>2. merge[j] \in MergeRecords
  BY <1>1, MergeFields
<1>3. /\ rec \in MergeRecords /\ rec.toSave = {} /\ rec.attempt = merge[j].attempt
      /\ rec.toMark = {} /\ rec.inHand = {} /\ rec.stage = "close"
  BY <1>1, <1>2 DEF MergeRecords, MergeStages
<1>4. merge' = [merge EXCEPT ![j] = rec]
  OBVIOUS
<1> HIDE DEF rec
<1>5. Moved(j) /\ merge'[j] = rec
  BY <1>1, <1>3, <1>4, MergeFields DEF Moved
<1>6. Onward
  BY DEF Onward
<1>7. AttemptInv(j)' /\ \A f \in Noted : Marks(j, f)' => Marks(j, f)
  BY <1>1, <1>3, <1>5, <1>6, MarkingMoves
<1>8. j \notin concluded
  BY <1>1 DEF MergeInv, EndedInv
<1> QED BY <1>1, <1>5, <1>7, <1>8, JobGoesOn

LEMMA MergeClosed == ASSUME MergeInv, NEW j \in MergeJobs, CloseSession(j) PROVE MergeInv'
<1> USE DEF CloseSession
<1> DEFINE rec == [merge[j] EXCEPT !.stage = "complete"]
<1>1. /\ MergeTypes /\ AttemptInv(j) /\ Wrote(j) /\ merge[j].toSave = {} /\ merge[j].toMark = {}
      /\ merge[j].inHand = {} /\ lapses \subseteq Noted /\ concluded \subseteq MergeJobs
  BY DEF MergeInv, AttemptInv, Wrote, MergeTypes
<1>2. merge[j] \in MergeRecords
  BY <1>1, MergeFields
<1>3. /\ rec \in MergeRecords /\ rec.toSave = {} /\ rec.attempt = merge[j].attempt
      /\ rec.toMark = {} /\ rec.inHand = {} /\ rec.stage = "complete"
  BY <1>1, <1>2 DEF MergeRecords, MergeStages
<1>4. merge' = [merge EXCEPT ![j] = rec]
  OBVIOUS
<1> HIDE DEF rec
<1>5. Moved(j) /\ merge'[j] = rec
  BY <1>1, <1>3, <1>4, MergeFields DEF Moved
<1>6. Onward
  BY DEF Onward
<1>7. AttemptInv(j)' /\ \A f \in Noted : Marks(j, f)' => Marks(j, f)
  BY <1>1, <1>3, <1>5, <1>6, MarkingMoves
<1>8. EndedInv(j)'
  <2>1. /\ prRow[PullOf[j]] # NoRow /\ prRow[PullOf[j]].by = <<j, merge[j].attempt>>
        /\ \A k \in OutcomeKinds :
             OfKind(OutcomesOf(PullOf[j]), k) = prRow[PullOf[j]].counts[k]
        /\ signals = 0 => Accepted(OutcomesOf(PullOf[j]), j)
    BY <1>1 DEF AttemptInv, Found, By
  <2>2. signals = 0 => \A o \in OutcomesOf(PullOf[j]) : o.kind = "accepted" =>
          o.about \in Noted /\ (o.about \in lapses \/ standing[o.about].status = "fixed")
    BY <1>1, <2>1 DEF Accepted
  <2> QED BY <1>3, <1>5, <2>1, <2>2 DEF EndedInv, OutcomesOf, OfKind
<1> QED BY <1>1, <1>3, <1>5, <1>7, <1>8, JobGoesOn

LEMMA MergeCompleted == ASSUME MergeInv, NEW j \in MergeJobs, CompleteJob(j) PROVE MergeInv'
<1> USE DEF CompleteJob
<1>1. CASE EndAttempt(j)
  BY <1>1, AttemptEnds
<1>2. CASE merge' = [merge EXCEPT ![j].stage = "done"]
  <2> DEFINE rec == [merge[j] EXCEPT !.stage = "done"]
  <2>1. /\ MergeTypes /\ AttemptInv(j) /\ Wrote(j) /\ merge[j].toSave = {}
        /\ merge[j].toMark = {} /\ merge[j].inHand = {}
        /\ lapses \subseteq Noted /\ concluded \subseteq MergeJobs
    BY DEF MergeInv, AttemptInv, Wrote, MergeTypes
  <2>2. merge[j] \in MergeRecords
    BY <2>1, MergeFields
  <2>3. /\ rec \in MergeRecords /\ rec.toSave = {} /\ rec.attempt = merge[j].attempt
        /\ rec.toMark = {} /\ rec.inHand = {} /\ rec.stage = "done"
    BY <2>1, <2>2 DEF MergeRecords, MergeStages
  <2>4. merge' = [merge EXCEPT ![j] = rec]
    BY <1>2
  <2> HIDE DEF rec
  <2>5. Moved(j) /\ merge'[j] = rec
    BY <2>1, <2>3, <2>4, MergeFields DEF Moved
  <2>6. Onward
    BY DEF Onward
  <2>7. AttemptInv(j)' /\ \A f \in Noted : Marks(j, f)' => Marks(j, f)
    BY <2>1, <2>3, <2>5, <2>6, MarkingMoves
  <2> QED BY <2>1, <2>3, <2>5, <2>7, JobGoesOn
<1> QED BY <1>1, <1>2

LEMMA MergeFails == ASSUME MergeInv, NEW j \in MergeJobs, AttemptFails(j) PROVE MergeInv'
BY AttemptEnds DEF AttemptFails

\* Findings are marked as fixed.
LEMMA MergeMarks == ASSUME MergeInv, NEW j \in MergeJobs, MarkFixed(j) PROVE MergeInv'
<1> USE DEF MarkFixed
<1> DEFINE hand == merge[j].inHand
           left == merge[j].toMark \ hand
           rec == [merge[j] EXCEPT !.stage = "mark", !.toMark = left, !.inHand = {},
                                   !.reaction = "none"]
<1>1. /\ MergeTypes /\ AttemptInv(j) /\ Wrote(j) /\ merge[j].toSave = {}
      /\ hand \subseteq merge[j].toMark
      /\ lapses \subseteq Noted /\ concluded \subseteq MergeJobs
      /\ standing \in [Noted -> Standings]
  BY DEF MergeInv, AttemptInv, Wrote, MergeTypes
<1>2. /\ merge[j] \in MergeRecords /\ merge[j].toMark \subseteq Noted
      /\ merge[j].reaction \in {"none", "up", "down"}
  BY <1>1, MergeFields
<1>3. /\ rec \in MergeRecords /\ rec.toSave = {} /\ rec.attempt = merge[j].attempt
      /\ rec.toMark = left /\ rec.inHand = {} /\ rec.stage = "mark"
  BY <1>1, <1>2 DEF MergeRecords, MergeStages
<1>4. merge' = [merge EXCEPT ![j] = rec]
  OBVIOUS
<1> HIDE DEF rec
<1>5. Moved(j) /\ merge'[j] = rec
  <2>1. merge \in [MergeJobs -> MergeRecords] /\ rec \in MergeRecords
    BY <1>1, <1>3, MergeFields
  <2>2. merge' \in [MergeJobs -> MergeRecords]
    BY <1>4, <2>1
  <2>3. merge'[j] = rec
    BY <1>4, <2>1
  <2>4. \A i \in MergeJobs \ {j} : merge'[i] = merge[i]
    BY <1>4, <2>1
  <2> QED BY <2>2, <2>3, <2>4 DEF Moved
<1>6. j \notin concluded
  BY <1>1 DEF MergeInv, EndedInv
<1>7. CASE lapses' = lapses \cup hand /\ UNCHANGED standing
  <2>1. Onward
    BY <1>7 DEF Onward
  <2>2. AttemptInv(j)' /\ \A f \in Noted : Marks(j, f)' => Marks(j, f)
    BY <1>1, <1>3, <1>5, <1>7, <2>1, MarkingMoves
  <2>3. lapses \subseteq lapses' /\ lapses' \subseteq Noted
    BY <1>1, <1>2, <1>7
  <2> QED BY <1>1, <1>5, <1>6, <1>7, <2>2, <2>3, JobGoesOn
<1>8. CASE /\ UNCHANGED lapses
           /\ standing' = [f \in Noted |->
                IF f \in hand
                THEN [status |-> "fixed", auto |-> TRUE, reaction |-> merge[j].reaction]
                ELSE standing[f]]
  <2>1. /\ standing' \in [Noted -> Standings]
        /\ \A f \in hand : standing'[f].status = "fixed"
        /\ \A f \in Noted \ hand : standing'[f] = standing[f]
    <3>1. [status |-> "fixed", auto |-> TRUE, reaction |-> merge[j].reaction] \in Standings
      BY <1>2 DEF Standings, Stances
    <3> QED BY <1>1, <1>2, <1>8, <3>1
  <2>2. Onward
    BY <2>1 DEF Onward
  <2>3. AttemptInv(j)' /\ \A f \in Noted : Marks(j, f)' => Marks(j, f)
    BY <1>1, <1>3, <1>5, <2>1, <2>2, MarkingMoves
  <2>4. MergeTypes'
    BY <1>1, <1>5, <1>8, <2>1 DEF MergeTypes, Moved
  <2>5. \A p : SameRow(p)
    BY DEF SameRow, OutcomesOf
  <2>6. ASSUME NEW i \in MergeJobs PROVE AttemptInv(i)'
    BY <1>5, <2>2, <2>3, <2>5, AttemptStays DEF Moved
  <2>7. ASSUME NEW p \in Pulls PROVE PullInv(p)'
    BY DEF MergeInv, PullInv, OutcomesOf, OfKind
  <2>8. ASSUME NEW i \in concluded PROVE EndedInv(i)'
    <3>1. i # j /\ i \in MergeJobs /\ EndedInv(i)
      BY <1>1, <1>6 DEF MergeInv
    <3>2. Wrote(i)' => merge'[i].stage \in {"complete", "done"}
      BY <1>5, <3>1 DEF EndedInv, Wrote, Moved
    <3> QED BY <2>2, <2>5, <3>2, EndedStays
  <2>9. ASSUME NEW f \in Noted PROVE SaidInv(f)'
    <3>1. AboutToMark(f)' => AboutToMark(f)
      <4>1. AboutToMark(f)' <=> \E i \in MergeJobs : Marks(i, f)'
        BY DEF AboutToMark, Marks, OfPull, TakenCareOf, Touched
      <4>2. \A i \in MergeJobs : Marks(i, f)' => Marks(i, f)
        BY <1>5, <2>3 DEF Marks, Moved, TakenCareOf, OfPull, Touched
      <4> QED BY <4>1, <4>2, SaidMarks
    <3>2. f \in hand => AboutToMark(f)
      BY <1>1 DEF AboutToMark
    <3>3. SaidInv(f)
      BY DEF MergeInv
    <3> QED BY <2>1, <3>1, <3>2, <3>3 DEF SaidInv, MayBeMarked
  <2>10. FixesAreOnRecord'
    <3>1. ASSUME NEW f \in hand PROVE \E o \in classified : o.about = f /\ TakesCare(o)
      BY <1>1 DEF AttemptInv
    <3> QED BY <2>1, <3>1 DEF MergeInv, FixesAreOnRecord, TakesCare
  <2> QED BY <2>4, <2>6, <2>7, <2>8, <2>9, <2>10 DEF MergeInv
<1> QED BY <1>7, <1>8

(***************************************************************************)
(* What a merge is found to say.                                           *)
(***************************************************************************)
LEMMA ToSaveIsFinite ==
  ASSUME NEW j \in MergeJobs, NEW p \in Pulls, NEW seen \in [Noted -> Standings]
  PROVE  IsFiniteSet(ToSave(j, p, seen))
<1> DEFINE by == <<j, merge[j].attempt>>
           mine == {f \in Noted : OfPull(f, p) /\ Disposition(seen[f], f, p) # "none"}
           About(f) == [by |-> by, pull |-> p, about |-> f, kind |-> Disposition(seen[f], f, p)]
           Miss(path) == [by |-> by, pull |-> p, about |-> path, kind |-> "agent_miss_candidate"]
           A == {About(f) : f \in mine}
           M == {Miss(path) : path \in MissesOf(p)}
<1>1. IsFiniteSet(mine)
  BY MergeConstants, FS_Subset
<1>2. IsFiniteSet(MissesOf(p))
  BY MergeConstants, FS_Subset DEF MissesOf
<1>3. ToSave(j, p, seen) = A \cup M
  BY DEF ToSave
<1> HIDE DEF About, Miss, mine
<1>4. IsFiniteSet(A)
  <2> DEFINE g == [f \in mine |-> About(f)]
  <2>1. g \in Surjection(mine, A)
    BY DEF Surjection
  <2> QED BY <1>1, <2>1, FS_Surjection
<1>5. IsFiniteSet(M)
  <2> DEFINE g == [path \in MissesOf(p) |-> Miss(path)]
  <2>1. g \in Surjection(MissesOf(p), M)
    BY DEF Surjection
  <2> QED BY <1>2, <2>1, FS_Surjection
<1> QED BY <1>3, <1>4, <1>5, FS_Union

LEMMA DispositionKinds ==
  ASSUME NEW row \in Standings, NEW f, NEW p
  PROVE  /\ Disposition(row, f, p) \in Dispositions \cup {"none"}
         /\ Disposition(row, f, p) = "accepted" => TakenCareOf(row, f, p)
         /\ TakenCareOf(row, f, p) => Disposition(row, f, p) \in {"accepted", "fixed"}
<1>1. row.status \in Stances /\ row.auto \in BOOLEAN /\ row.reaction \in {"none", "up", "down"}
  BY DEF Standings
<1>2. Disposition(row, f, p) \in Dispositions \cup {"none"}
  BY DEF Disposition, Dispositions
<1>3. Disposition(row, f, p) = "accepted" => TakenCareOf(row, f, p)
  BY <1>1 DEF Disposition, TakenCareOf, Stances
<1>4. TakenCareOf(row, f, p) => Disposition(row, f, p) \in {"accepted", "fixed"}
  BY <1>1 DEF Disposition, TakenCareOf
<1> QED BY <1>2, <1>3, <1>4

LEMMA ToSaveSays ==
  ASSUME MergeTypes, NEW j \in MergeJobs, NEW p \in Pulls, NEW seen \in [Noted -> Standings],
         merge[j].attempt # 0
  PROVE  /\ ToSave(j, p, seen) \subseteq MergeOutcomes
         /\ \A o \in ToSave(j, p, seen) : o.pull = p /\ o.by = By(j)
         /\ \A o \in ToSave(j, p, seen) : o.kind = "accepted" =>
              /\ o.about \in Noted /\ OfPull(o.about, p)
              /\ TakenCareOf(seen[o.about], o.about, p)
         /\ \A f \in Noted : OfPull(f, p) /\ TakenCareOf(seen[f], f, p) =>
              \E o \in ToSave(j, p, seen) : o.about = f /\ TakesCare(o)
<1> DEFINE by == <<j, merge[j].attempt>>
           mine == {f \in Noted : OfPull(f, p) /\ Disposition(seen[f], f, p) # "none"}
           About(f) == [by |-> by, pull |-> p, about |-> f, kind |-> Disposition(seen[f], f, p)]
           Miss(path) == [by |-> by, pull |-> p, about |-> path, kind |-> "agent_miss_candidate"]
<1>1. by \in Attempts
  BY MergeFields DEF Attempts
<1>2. ToSave(j, p, seen) = {About(f) : f \in mine} \cup {Miss(path) : path \in MissesOf(p)}
  BY DEF ToSave
<1>3. ASSUME NEW f \in mine
      PROVE  /\ About(f) \in MergeOutcomes /\ About(f).pull = p /\ About(f).by = by
             /\ About(f).about = f /\ About(f).kind = Disposition(seen[f], f, p)
             /\ f \in Noted /\ OfPull(f, p)
  <2>1. f \in Noted /\ seen[f] \in Standings /\ Disposition(seen[f], f, p) # "none"
    OBVIOUS
  <2>2. Disposition(seen[f], f, p) \in Dispositions
    BY <2>1, DispositionKinds
  <2> QED BY <1>1, <2>1, <2>2 DEF MergeOutcomes, Attempts
<1>4. ASSUME NEW path \in MissesOf(p)
      PROVE  /\ Miss(path) \in MergeOutcomes /\ Miss(path).pull = p /\ Miss(path).by = by
             /\ Miss(path).kind # "accepted"
  <2>1. path \in ChangedFiles
    BY DEF MissesOf, ChangedFiles
  <2> QED BY <1>1, <2>1 DEF MergeOutcomes, Attempts
<1>5. ASSUME NEW f \in Noted, OfPull(f, p), TakenCareOf(seen[f], f, p)
      PROVE  f \in mine /\ TakesCare(About(f))
  <2>1. seen[f] \in Standings
    OBVIOUS
  <2>2. Disposition(seen[f], f, p) \in {"accepted", "fixed"}
    BY <1>5, <2>1, DispositionKinds
  <2>3. f \in mine
    BY <1>5, <2>2
  <2> QED BY <1>3, <2>2, <2>3 DEF TakesCare
<1> HIDE DEF About, Miss
<1>6. ToSave(j, p, seen) \subseteq MergeOutcomes
  BY <1>2, <1>3, <1>4
<1>7. ASSUME NEW o \in ToSave(j, p, seen)
      PROVE  /\ o.pull = p /\ o.by = By(j)
             /\ o.kind = "accepted" =>
                  /\ o.about \in Noted /\ OfPull(o.about, p)
                  /\ TakenCareOf(seen[o.about], o.about, p)
  <2>1. CASE o \in {About(f) : f \in mine}
    <3>1. PICK f \in mine : o = About(f)
      BY <2>1
    <3>2. seen[f] \in Standings
      OBVIOUS
    <3> QED BY <1>3, <3>1, <3>2, DispositionKinds DEF By
  <2>2. CASE o \in {Miss(path) : path \in MissesOf(p)}
    BY <1>4, <2>2 DEF By
  <2> QED BY <1>2, <2>1, <2>2
<1>8. ASSUME NEW f \in Noted, OfPull(f, p), TakenCareOf(seen[f], f, p)
      PROVE  \E o \in ToSave(j, p, seen) : o.about = f /\ TakesCare(o)
  <2>1. f \in mine /\ TakesCare(About(f))
    BY <1>5, <1>8
  <2>2. About(f).about = f /\ About(f) \in ToSave(j, p, seen)
    BY <1>2, <1>3, <2>1
  <2> QED BY <2>1, <2>2
<1> QED BY <1>6, <1>7, <1>8
\* Jobs that a step leaves alone are not about to change what a user said.
LEMMA SaidStays ==
  ASSUME MergeInv, NEW j \in MergeJobs, Moved(j), UNCHANGED <<standing, said>>,
         \A f \in Noted : Marks(j, f)' => Marks(j, f)
  PROVE  \A f \in Noted : SaidInv(f)'
<1> SUFFICES ASSUME NEW f \in Noted PROVE SaidInv(f)'
  OBVIOUS
<1>1. AboutToMark(f)' <=> \E i \in MergeJobs : Marks(i, f)'
  BY DEF AboutToMark, Marks, OfPull, TakenCareOf, Touched
<1>2. \A i \in MergeJobs : Marks(i, f)' => Marks(i, f)
  BY DEF Marks, Moved, TakenCareOf, OfPull, Touched
<1>3. SaidInv(f)
  BY DEF MergeInv
<1> QED BY <1>1, <1>2, <1>3, SaidMarks DEF SaidInv, MayBeMarked

\* The attempt has the row to itself: no other job has one of the same pull request.
LEMMA MergeInserts == ASSUME MergeInv, NEW j \in MergeJobs, InsertPrRow(j) PROVE MergeInv'
<1> DEFINE p == PullOf[j]
           seen == merge[j].seen
           found == ToSave(j, p, seen)
           care == {f \in Noted : OfPull(f, p) /\ TakenCareOf(seen[f], f, p)}
           row == [by |-> <<j, merge[j].attempt>>, counts |-> CountsOf(j, p, seen)]
           rec == [merge[j] EXCEPT !.stage = "save", !.seen = Waiting.seen,
                                   !.toSave = found, !.toMark = care]
<1> USE DEF InsertPrRow
<1>1. /\ MergeTypes /\ AttemptInv(j) /\ merge[j].stage = "insert"
      /\ UNCHANGED <<standing, classified, concluded, said, lapses, signals>>
  BY DEF MergeInv
<1>2. /\ merge[j] \in MergeRecords /\ p \in Pulls /\ seen \in [Noted -> Standings]
      /\ merge[j].attempt # 0 /\ merge[j].attempt \in 1..MaxAttempts
      /\ merge[j].inHand = {} /\ prRow \in [Pulls -> PrRows \cup {NoRow}]
      /\ merge \in [MergeJobs -> MergeRecords]
  BY <1>1, MergeFields DEF AttemptInv, MergeTypes
<1>3. CASE ~NoRowOf(p)
  BY <1>1, <1>3, AttemptEnds
<1>4. CASE NoRowOf(p)
  <2>1. /\ found \subseteq MergeOutcomes /\ IsFiniteSet(found)
        /\ \A o \in found : o.pull = p /\ o.by = By(j)
        /\ \A o \in found : o.kind = "accepted" => o.about \in care
        /\ \A f \in care : \E o \in found : o.about = f /\ TakesCare(o)
    BY <1>1, <1>2, ToSaveIsFinite, ToSaveSays
  <2>2. /\ CountsOf(j, p, seen) \in Counts
        /\ \A k \in OutcomeKinds : CountsOf(j, p, seen)[k] = OfKind(found, k)
    <3>1. \A k : OfKind(found, k) \in Nat
      BY <2>1, KindsCount
    <3>2. Cardinality({f \in Noted : OfPull(f, p)}) \in Nat
      BY MergeConstants, FS_Subset, FS_CardinalityType
    <3>3. "posted" \notin OutcomeKinds
      BY DEF OutcomeKinds, Dispositions
    <3> HIDE DEF found
    <3> QED BY <3>1, <3>2, <3>3 DEF CountsOf, Counts, OutcomeKinds, found
  <2>3. /\ row \in PrRows /\ row # NoRow /\ row.by = By(j)
        /\ \A k \in OutcomeKinds : row.counts[k] = OfKind(found, k)
    <3>1. row \in PrRows
      BY <1>2, <2>2 DEF PrRows, Attempts
    <3>2. row # NoRow
      BY DEF NoRow
    <3> QED BY <2>2, <3>1, <3>2 DEF By
  <2>4. Waiting.seen \in [Noted -> Standings \cup {"unseen"}]
    BY DEF Waiting
  <2>5. /\ rec \in MergeRecords /\ rec.toSave = found /\ rec.attempt = merge[j].attempt
        /\ rec.toMark = care /\ rec.inHand = {} /\ rec.stage = "save"
    <3>1. care \in SUBSET Noted
      OBVIOUS
    <3> HIDE DEF found, care
    <3> QED BY <1>2, <2>1, <2>4, <3>1 DEF MergeRecords, MergeStages
  <2>6. merge' = [merge EXCEPT ![j] = rec] /\ prRow' = [prRow EXCEPT ![p] = row]
    BY <1>4
  <2>7. \A f \in care : Marks(j, f)
    BY <1>1 DEF Marks
  <2> HIDE DEF rec, row, found, care
  <2>8. /\ merge' \in [MergeJobs -> MergeRecords] /\ merge'[j] = rec
        /\ \A i \in MergeJobs \ {j} : merge'[i] = merge[i]
    BY <1>2, <2>5, <2>6
  <2>9. /\ prRow' \in [Pulls -> PrRows \cup {NoRow}] /\ prRow'[p] = row
        /\ \A q \in Pulls \ {p} : prRow'[q] = prRow[q]
    BY <1>2, <2>3, <2>6
  <2>10. prRow[p] = NoRow /\ OutcomesOf(p) = {} /\ OutcomesOf(p)' = {}
    BY <1>1, <1>2, <1>4 DEF NoRowOf, MergeInv, PullInv, OutcomesOf
  <2>11. \A i \in MergeJobs : (i \in concluded \/ Wrote(i)) => PullOf[i] # p
    BY <2>10 DEF MergeInv, AttemptInv, EndedInv
  <2>12. \A q \in Pulls \ {p} : SameRow(q)
    BY <1>1, <2>9 DEF SameRow, OutcomesOf
  <2>13. Onward
    BY <1>1 DEF Onward
  <2>14. AttemptInv(j)'
    <3>1. By(j)' = By(j) /\ Found(j)' = found
      BY <2>5, <2>8, <2>10 DEF By, Found
    <3>2. Accepted(Found(j), j)'
      <4>1. \A o \in found : o.kind = "accepted" =>
              o.about \in Noted /\ o.about \in merge'[j].toMark
        BY <2>1, <2>5, <2>8 DEF care
      <4> QED BY <3>1, <4>1 DEF Accepted
    <3>3. /\ prRow'[PullOf[j]] # NoRow /\ prRow'[PullOf[j]].by = By(j)'
          /\ \A k \in OutcomeKinds : OfKind(Found(j)', k) = prRow'[PullOf[j]].counts[k]
      BY <2>3, <2>9, <3>1
    <3>4. \A o \in merge'[j].toSave : o.pull = PullOf[j] /\ o.by = By(j)'
      BY <2>1, <2>5, <2>8, <3>1
    <3>5. \A f \in merge'[j].toMark : \E o \in classified' \cup merge'[j].toSave :
            o.about = f /\ TakesCare(o)
      BY <2>1, <2>5, <2>8
    <3> QED BY <1>2, <2>1, <2>5, <2>8, <3>1, <3>2, <3>3, <3>4, <3>5
        DEF AttemptInv, Wrote, OfKind, TakesCare
  <2>15. ASSUME NEW i \in MergeJobs PROVE AttemptInv(i)'
    <3>1. CASE i = j
      BY <2>14, <3>1
    <3>2. CASE i # j
      <4>1. PullOf[i] \in Pulls
        BY MergeConstants
      <4>2. Wrote(i) => SameRow(PullOf[i])
        BY <2>11, <2>12, <4>1
      <4> QED BY <2>8, <2>13, <3>2, <4>2, AttemptStays
    <3> QED BY <3>1, <3>2
  <2>16. ASSUME NEW q \in Pulls PROVE PullInv(q)'
    <3>1. CASE q = p
      <4>1. \A k \in OutcomeKinds : OfKind({}, k) <= row.counts[k]
        BY <2>1, <2>3, KindsCount, NoOutcomes
      <4> QED BY <2>9, <2>10, <3>1, <4>1 DEF PullInv, OfKind
    <3>2. CASE q # p
      BY <2>12, <3>2 DEF MergeInv, PullInv, SameRow, OfKind
    <3> QED BY <3>1, <3>2
  <2>17. ASSUME NEW i \in concluded PROVE EndedInv(i)'
    <3>1. i \in MergeJobs /\ EndedInv(i) /\ PullOf[i] \in Pulls
      BY <1>1, MergeConstants DEF MergeInv, MergeTypes
    <3>2. PullOf[i] # p /\ i # j
      BY <2>11, <3>1
    <3>3. Wrote(i)' => merge'[i].stage \in {"complete", "done"}
      BY <2>8, <3>1, <3>2 DEF EndedInv, Wrote
    <3> QED BY <2>12, <2>13, <3>1, <3>2, <3>3, EndedStays
  <2>18. \A f \in Noted : SaidInv(f)'
    <3>1. \A f \in Noted : Marks(j, f)' => Marks(j, f)
      BY <2>5, <2>7, <2>8 DEF Marks
    <3> QED BY <1>1, <2>8, <3>1, SaidStays DEF Moved
  <2>19. MergeTypes'
    BY <1>1, <2>8, <2>9 DEF MergeTypes
  <2>20. FixesAreOnRecord'
    BY <1>1 DEF MergeInv, FixesAreOnRecord
  <2> QED BY <1>1, <2>15, <2>16, <2>17, <2>18, <2>19, <2>20 DEF MergeInv
<1> QED BY <1>3, <1>4
\* What an attempt saves it has counted, and only it saves for its pull request.
LEMMA MergeSaves == ASSUME MergeInv, NEW j \in MergeJobs, SaveNext(j) PROVE MergeInv'
<1> DEFINE p == PullOf[j]
<1> USE DEF SaveNext
<1>1. /\ MergeTypes /\ AttemptInv(j) /\ Wrote(j) /\ merge[j].stage = "save"
      /\ merge[j].inHand = {} /\ UNCHANGED <<standing, prRow, concluded, said, lapses, signals>>
      /\ lapses \subseteq Noted /\ concluded \subseteq MergeJobs
      /\ classified \subseteq MergeOutcomes /\ IsFiniteSet(classified)
  BY DEF MergeInv, Wrote, AttemptInv, MergeTypes
<1>2. /\ merge[j] \in MergeRecords /\ merge \in [MergeJobs -> MergeRecords] /\ p \in Pulls
      /\ merge[j].toSave \subseteq MergeOutcomes
  BY <1>1, MergeFields
<1>3. j \notin concluded
  BY <1>1 DEF MergeInv, EndedInv
<1>4. CASE merge[j].toSave = {}
  <2> DEFINE rec == [merge[j] EXCEPT !.stage = "mark"]
  <2>1. /\ rec \in MergeRecords /\ rec.toSave = {} /\ rec.attempt = merge[j].attempt
        /\ rec.toMark = merge[j].toMark /\ rec.inHand = {} /\ rec.stage = "mark"
    BY <1>1, <1>2, <1>4 DEF MergeRecords, MergeStages
  <2>2. merge' = [merge EXCEPT ![j] = rec] /\ UNCHANGED classified
    BY <1>4
  <2> HIDE DEF rec
  <2>3. Moved(j) /\ merge'[j] = rec
    BY <1>2, <2>1, <2>2 DEF Moved
  <2>4. Onward
    BY <1>1, <2>2 DEF Onward
  <2>5. AttemptInv(j)' /\ \A f \in Noted : Marks(j, f)' => Marks(j, f)
    BY <1>1, <1>4, <2>1, <2>2, <2>3, <2>4, MarkingMoves
  <2> QED BY <1>1, <1>3, <2>2, <2>3, <2>5, JobGoesOn
<1>5. ASSUME NEW o \in merge[j].toSave, classified' = classified \cup {o},
             merge' = [merge EXCEPT ![j].toSave = @ \ {o}]
      PROVE  MergeInv'
  <2> DEFINE rec == [merge[j] EXCEPT !.toSave = @ \ {o}]
  <2>1. /\ rec \in MergeRecords /\ rec.toSave = merge[j].toSave \ {o}
        /\ rec.attempt = merge[j].attempt /\ rec.toMark = merge[j].toMark
        /\ rec.inHand = {} /\ rec.stage = "save"
    BY <1>1, <1>2 DEF MergeRecords
  <2>2. merge' = [merge EXCEPT ![j] = rec]
    BY <1>5
  <2> HIDE DEF rec
  <2>3. Moved(j) /\ merge'[j] = rec
    BY <1>2, <2>1, <2>2 DEF Moved
  <2>4. Onward
    BY <1>1, <1>5 DEF Onward
  <2>5. o.pull = p /\ o.by = By(j) /\ o \in MergeOutcomes
    BY <1>1, <1>2, <1>5 DEF AttemptInv
  <2>6. /\ OutcomesOf(p)' = OutcomesOf(p) \cup {o}
        /\ \A q \in Pulls \ {p} : SameRow(q)
    BY <1>1, <1>5, <2>5 DEF OutcomesOf, SameRow
  <2>7. By(j)' = By(j) /\ Found(j)' = Found(j)
    BY <2>1, <2>3, <2>6 DEF By, Found
  <2>8. IsFiniteSet(merge'[j].toSave) /\ IsFiniteSet(Found(j)) /\ IsFiniteSet(classified')
    <3>1. IsFiniteSet(OutcomesOf(p)) /\ IsFiniteSet(merge[j].toSave)
      BY <1>1, FS_Subset DEF OutcomesOf, AttemptInv
    <3>2. IsFiniteSet(Found(j))
      BY <3>1, FS_Union DEF Found
    <3>3. IsFiniteSet(merge'[j].toSave)
      BY <2>1, <2>3, <3>1, FS_Subset
    <3>4. IsFiniteSet(classified')
      BY <1>1, <1>5, FS_AddElement
    <3> QED BY <3>2, <3>3, <3>4
  <2>9. AttemptInv(j)'
    <3>1. \A f \in merge'[j].toMark : \E x \in classified' \cup merge'[j].toSave :
            x.about = f /\ TakesCare(x)
      BY <1>1, <1>5, <2>1, <2>3 DEF AttemptInv
    <3>2. signals' = 0 => Accepted(Found(j), j)'
      BY <1>1, <2>1, <2>3, <2>7 DEF AttemptInv, Accepted
    <3>3. \A x \in merge'[j].toSave : x.pull = PullOf[j] /\ x.by = By(j)'
      BY <1>1, <2>1, <2>3, <2>7 DEF AttemptInv
    <3>4. /\ prRow'[PullOf[j]] # NoRow /\ prRow'[PullOf[j]].by = By(j)'
          /\ \A k \in OutcomeKinds : OfKind(Found(j)', k) = prRow'[PullOf[j]].counts[k]
      BY <1>1, <2>7 DEF AttemptInv
    <3> QED BY <1>1, <2>1, <2>3, <2>8, <3>1, <3>2, <3>3, <3>4
        DEF AttemptInv, Wrote, OfKind, TakesCare
  <2>10. \A i \in MergeJobs : i # j /\ Wrote(i) => PullOf[i] # p
    <3>1. \A i \in MergeJobs : Wrote(i) => prRow[PullOf[i]].by = By(i)
      BY DEF MergeInv, AttemptInv
    <3> QED BY <1>1, <3>1 DEF By
  <2>11. ASSUME NEW i \in MergeJobs PROVE AttemptInv(i)'
    <3>1. CASE i = j
      BY <2>9, <3>1
    <3>2. CASE i # j
      <4>1. PullOf[i] \in Pulls
        BY MergeConstants
      <4>2. Wrote(i) => SameRow(PullOf[i])
        BY <2>6, <2>10, <3>2, <4>1
      <4> QED BY <2>3, <2>4, <3>2, <4>2, AttemptStays DEF Moved
    <3> QED BY <3>1, <3>2
  <2>12. ASSUME NEW q \in Pulls PROVE PullInv(q)'
    <3>1. CASE q # p
      BY <2>6, <3>1 DEF MergeInv, PullInv, SameRow, OfKind
    <3>2. CASE q = p
      <4>1. /\ prRow[p] # NoRow /\ prRow[p].by = By(j)
            /\ \A k \in OutcomeKinds : OfKind(Found(j), k) = prRow[p].counts[k]
        BY <1>1 DEF AttemptInv
      <4>2. \A x \in OutcomesOf(p) : x.by = prRow[p].by
        BY <1>2 DEF MergeInv, PullInv
      <4>3. OutcomesOf(p)' \in SUBSET Found(j)
        BY <1>5, <2>6 DEF Found
      <4>4. \A k \in OutcomeKinds : OfKind(OutcomesOf(p)', k) <= prRow[p].counts[k]
        BY <2>8, <4>1, <4>3, KindsCount
      <4> QED BY <1>1, <2>5, <2>6, <3>2, <4>1, <4>2, <4>4 DEF PullInv, OfKind
    <3> QED BY <3>1, <3>2
  <2>13. ASSUME NEW i \in concluded PROVE EndedInv(i)'
    <3>1. i \in MergeJobs /\ EndedInv(i) /\ PullOf[i] \in Pulls /\ i # j
      BY <1>1, <1>3, MergeConstants DEF MergeInv
    <3>2. PullOf[i] # p
      <4>1. prRow[p].by = By(j) /\ prRow[PullOf[i]].by[1] = i
        BY <1>1, <3>1 DEF AttemptInv, EndedInv
      <4> QED BY <3>1, <4>1 DEF By
    <3>3. Wrote(i)' => merge'[i].stage \in {"complete", "done"}
      BY <2>3, <3>1 DEF EndedInv, Wrote, Moved
    <3> QED BY <2>4, <2>6, <3>1, <3>2, <3>3, EndedStays
  <2>14. \A f \in Noted : SaidInv(f)'
    <3>1. \A f \in Noted : Marks(j, f)' => Marks(j, f)
      BY <2>1, <2>3 DEF Marks
    <3> QED BY <1>1, <2>3, <3>1, SaidStays
  <2>15. MergeTypes'
    BY <1>1, <1>5, <2>3, <2>5, <2>8 DEF MergeTypes, Moved
  <2>16. FixesAreOnRecord'
    BY <1>1, <1>5 DEF MergeInv, FixesAreOnRecord
  <2> QED BY <1>1, <2>11, <2>12, <2>13, <2>14, <2>15, <2>16 DEF MergeInv
<1> QED BY <1>4, <1>5

(***************************************************************************)
(* Users, and the theorem.                                                 *)
(***************************************************************************)
LEMMA MergeHears ==
  ASSUME MergeInv, NEW f \in Noted, NEW row \in Standings, Says(f, row) PROVE MergeInv'
<1> USE DEF Says
<1>1. /\ MergeTypes /\ standing \in [Noted -> Standings] /\ signals \in Nat
      /\ said \in [Noted -> Stances \cup {"none"}] /\ row.status \in Stances
      /\ concluded \subseteq MergeJobs /\ MaxSignals \in Nat
  BY MergeConstants DEF MergeInv, MergeTypes, Standings
<1>2. signals' \in 0..MaxSignals /\ signals' # 0
  BY <1>1
<1> DEFINE word == IF AboutToMark(f) \/ MayBeMarked(row) THEN "none" ELSE row.status
<1>3. standing' = [standing EXCEPT ![f] = row] /\ said' = [said EXCEPT ![f] = word]
  OBVIOUS
<1>4. /\ word \in Stances \cup {"none"}
      /\ word # "none" => /\ word = row.status /\ ~AboutToMark(f)
                          /\ ~MayBeMarked(row)
  BY <1>1
<1> HIDE DEF word
<1>5. /\ standing' \in [Noted -> Standings] /\ standing'[f] = row
      /\ \A g \in Noted \ {f} : standing'[g] = standing[g]
  BY <1>1, <1>3
<1>6. /\ said' \in [Noted -> Stances \cup {"none"}] /\ said'[f] = word
      /\ \A g \in Noted \ {f} : said'[g] = said[g]
  BY <1>1, <1>3, <1>4
<1>7. MergeTypes'
  BY <1>1, <1>2, <1>5, <1>6 DEF MergeTypes
<1>8. FixesAreOnRecord'
  BY <1>2 DEF FixesAreOnRecord
<1>9. Onward /\ \A p : SameRow(p)
  BY <1>2 DEF Onward, SameRow, OutcomesOf
<1>10. ASSUME NEW i \in MergeJobs PROVE AttemptInv(i)'
  BY <1>9, AttemptStays
<1>11. ASSUME NEW p \in Pulls PROVE PullInv(p)'
  BY DEF MergeInv, PullInv, OutcomesOf, OfKind
<1>12. ASSUME NEW i \in concluded PROVE EndedInv(i)'
  <2>1. Wrote(i)' => merge'[i].stage \in {"complete", "done"}
    BY <1>1 DEF MergeInv, EndedInv, Wrote
  <2> QED BY <1>9, <2>1, EndedStays
<1>13. ASSUME NEW g \in Noted PROVE SaidInv(g)'
  <2>1. AboutToMark(g)' <=> AboutToMark(g)
    BY DEF AboutToMark, OfPull, TakenCareOf, Touched
  <2>2. CASE g = f
    BY <1>4, <1>5, <1>6, <2>1, <2>2 DEF SaidInv, MayBeMarked
  <2>3. CASE g # f
    BY <1>5, <1>6, <2>1, <2>3 DEF MergeInv, SaidInv, MayBeMarked
  <2> QED BY <2>2, <2>3
<1> QED BY <1>7, <1>8, <1>10, <1>11, <1>12, <1>13 DEF MergeInv

LEMMA MergeStep == MergeInv /\ [MergeNext]_mergeVars => MergeInv'
<1> SUFFICES ASSUME MergeInv, [MergeNext]_mergeVars PROVE MergeInv'
  OBVIOUS
<1>1. ASSUME NEW j \in MergeJobs,
             \/ AnalyzeMerge(j) \/ InsertPrRow(j) \/ SaveNext(j) \/ ReadToMark(j)
             \/ MarkFixed(j) \/ AllMarked(j) \/ CloseSession(j) \/ CompleteJob(j)
             \/ AttemptFails(j)
      PROVE  MergeInv'
  BY <1>1, MergeAnalyzed, MergeInserts, MergeSaves, MergeReads, MergeMarks, MergeAllMarked,
     MergeClosed, MergeCompleted, MergeFails
<1>2. ASSUME NEW f \in Noted,
             UserReacts(f) \/ \E status \in Stances : UserSetsStatus(f, status)
      PROVE  MergeInv'
  <2>1. standing[f] \in Standings
    BY DEF MergeInv, MergeTypes
  <2>2. CASE UserReacts(f)
    <3>1. /\ [standing[f] EXCEPT !.reaction = "up"] \in Standings
          /\ [standing[f] EXCEPT !.reaction = "down", !.status = "false_positive"] \in Standings
      BY <2>1 DEF Standings, Stances
    <3> QED BY <2>2, <3>1, MergeHears DEF UserReacts
  <2>3. ASSUME NEW status \in Stances, UserSetsStatus(f, status) PROVE MergeInv'
    <3>1. [standing[f] EXCEPT !.status = status] \in Standings
      BY <2>1 DEF Standings
    <3> QED BY <2>3, <3>1, MergeHears DEF UserSetsStatus
  <2> QED BY <1>2, <2>2, <2>3
<1>3. CASE UNCHANGED mergeVars
  <2> USE <1>3 DEF mergeVars
  <2>1. Onward /\ \A p : SameRow(p)
    BY DEF Onward, SameRow, OutcomesOf
  <2>2. ASSUME NEW i \in MergeJobs PROVE AttemptInv(i)'
    BY <2>1, AttemptStays
  <2>3. ASSUME NEW p \in Pulls PROVE PullInv(p)'
    BY DEF MergeInv, PullInv, OutcomesOf, OfKind
  <2>4. ASSUME NEW i \in concluded PROVE EndedInv(i)'
    <3>1. Wrote(i)' => merge'[i].stage \in {"complete", "done"}
      BY DEF MergeInv, EndedInv, Wrote
    <3> QED BY <2>1, <3>1, EndedStays
  <2>5. ASSUME NEW g \in Noted PROVE SaidInv(g)'
    <3>1. AboutToMark(g)' <=> AboutToMark(g)
      BY DEF AboutToMark, OfPull, TakenCareOf, Touched
    <3> QED BY <3>1 DEF MergeInv, SaidInv, MayBeMarked
  <2>6. MergeTypes' /\ FixesAreOnRecord'
    BY DEF MergeInv, MergeTypes, FixesAreOnRecord
  <2> QED BY <2>2, <2>3, <2>4, <2>5, <2>6 DEF MergeInv
<1> QED BY <1>1, <1>2, <1>3 DEF MergeNext

LEMMA MergeFollows == MergeInv => MergeTypeOK /\ MergeSound
<1> SUFFICES ASSUME MergeInv PROVE MergeTypeOK /\ MergeSound
  OBVIOUS
<1>1. MergeTypes
  BY DEF MergeInv
<1>2. MergeTypeOK
  <2>1. ASSUME NEW j \in MergeJobs
        PROVE  /\ merge[j].stage \in MergeStages
               /\ merge[j].attempt \in 0..MaxAttempts
               /\ merge[j].toMark \subseteq Noted /\ merge[j].inHand \subseteq merge[j].toMark
               /\ merge[j].toSave \subseteq MergeOutcomes
    BY <1>1, MergeFields DEF MergeInv, AttemptInv
  <2>2. ASSUME NEW p \in Pulls, prRow[p] # NoRow
        PROVE  prRow[p].by \in MergeJobs \X (1..MaxAttempts) /\ prRow[p].counts \in Counts
    <3>1. prRow[p] \in PrRows
      BY <1>1, <2>2 DEF MergeTypes
    <3> QED BY <3>1 DEF PrRows, Attempts
  <2> QED BY <1>1, <2>1, <2>2 DEF MergeTypeOK, MergeTypes, MergeStages
<1>3. MergeCountedOnce
  BY DEF MergeInv, PullInv, MergeCountedOnce, OutcomeKinds
<1>4. ConcludedIsWhole
  <2>1. ASSUME NEW j \in concluded
        PROVE  /\ prRow[PullOf[j]] # NoRow /\ prRow[PullOf[j]].by[1] = j
               /\ \A k \in OutcomeKinds :
                    OfKind(OutcomesOf(PullOf[j]), k) = prRow[PullOf[j]].counts[k]
               /\ \A o \in OutcomesOf(PullOf[j]) :
                    o.kind = "accepted" /\ o.about \notin lapses /\ signals = 0
                      => standing[o.about].status = "fixed"
    BY DEF MergeInv, EndedInv
  <2> QED BY <2>1 DEF ConcludedIsWhole, OutcomeKinds
<1>5. VerdictsStandAtMerge
  BY DEF MergeInv, SaidInv, VerdictsStandAtMerge
<1> QED BY <1>2, <1>3, <1>4, <1>5 DEF MergeInv, MergeSound

\* However often a merge is delivered, and however many attempts at it die: what is saved
\* of its findings is what one attempt counted, a completed session's counts are those
\* outcomes, what was accepted is fixed then, and what users said of a finding stands.
THEOREM MergesAreSound == MergeSpec => [](MergeTypeOK /\ MergeSound)
<1>1. MergeSpec => []MergeInv
  BY MergeStart, MergeStep, PTL DEF MergeSpec
<1> QED BY <1>1, MergeFollows, PTL

(***************************************************************************)
(* The memory of a bug.                                                    *)
(***************************************************************************)
\* A consolidation at work, which has something to write.
Writing(c) == run[c].stage \in {"list", "delete", "add"}

\* The plan is still what the outcomes call for.
PlanInv(c) ==
  /\ c <= consolidations
  /\ run[c].plan \in Promotions \/ (run[c].plan = NoPlan /\ Promotions = {})

StageInv(c) ==
  /\ Writing(c) => run[c].plan \in Plans
  /\ c > consolidations => run[c].stage = "idle"

\* A memory that says what was planned.
SaysPlan(m, p) ==
  /\ m.plan.polarity = p.polarity /\ m.plan.scope = p.scope
  /\ m.plan.weight + 1 >= p.weight
  /\ p.scope = "repo" => m.plan.repo = p.repo

\* Alone, only the last consolidation is at work, on the one memory there is, and leaves
\* one that says what it planned.
AloneInv(c) ==
  /\ Writing(c) => c = consolidations
  /\ run[c].stage = "delete" => \A m \in memories : m.number = run[c].match
  /\ run[c].stage = "add" => memories = {}
  /\ c = consolidations /\ run[c].stage = "ended" /\ run[c].plan # NoPlan =>
       \E m \in memories : memories = {m} /\ SaysPlan(m, run[c].plan)

MemoryInv ==
  /\ OutcomeTypeOK
  /\ \A c \in Consolidations : StageInv(c)
  /\ \A c \in current : PlanInv(c)
  /\ alone => OneMemory /\ \A c \in Consolidations : AloneInv(c)

LEMMA CountBounds ==
  ASSUME OutcomeTypeOK, NEW polarity \in Polarities
  PROVE  Count(polarity) \in Nat /\ \A r \in Repos : outcomes[r, polarity] <= Count(polarity)
<1> DEFINE all == Repos \X (1..MaxOutcomes)
           S == {o \in all : o[2] <= outcomes[o[1], polarity]}
<1>1. MaxOutcomes \in Nat /\ IsFiniteSet(Repos)
  BY OutcomeConstants
<1>2. IsFiniteSet(all)
  <2>1. IsFiniteSet(1..MaxOutcomes)
    BY <1>1, FS_Interval
  <2> QED BY <1>1, <2>1, FS_Product
<1>3. IsFiniteSet(S) /\ Cardinality(S) \in Nat /\ Count(polarity) = Cardinality(S)
  BY <1>2, FS_Subset, FS_CardinalityType DEF Count
<1>4. ASSUME NEW r \in Repos PROVE outcomes[r, polarity] <= Cardinality(S)
  <2> DEFINE n == outcomes[r, polarity]
             T == {r} \X (1..n)
  <2>1. n \in 0..MaxOutcomes
    BY DEF OutcomeTypeOK
  <2> HIDE DEF n
  <2>2. Cardinality(1..n) = n /\ IsFiniteSet(1..n)
    <3>1. n \in Int /\ 1 \in Int /\ (1 > n => n = 0) /\ n - 1 + 1 = n
      BY <1>1, <2>1
    <3> QED BY <3>1, FS_Interval
  <2>3. IsFiniteSet({r}) /\ Cardinality({r}) = 1
    BY FS_Singleton
  <2>4. Cardinality(T) = n
    <3>1. Cardinality(T) = 1 * n
      BY <2>2, <2>3, FS_Product
    <3> QED BY <1>1, <2>1, <3>1
  <2>5. ASSUME NEW o \in T PROVE o \in S
    <3>1. o[1] = r /\ o[2] \in 1..n /\ o = <<o[1], o[2]>>
      OBVIOUS
    <3>2. o[2] \in 1..MaxOutcomes /\ o[2] <= n
      BY <1>1, <2>1, <3>1
    <3> QED BY <3>1, <3>2 DEF n
  <2> QED BY <1>3, <2>4, <2>5, FS_Subset DEF n
<1> QED BY <1>3, <1>4

LEMMA PromotionsArePlans == ASSUME OutcomeTypeOK PROVE Promotions \subseteq Plans
<1>1. ASSUME NEW polarity \in Polarities, NEW scope \in {"org", "repo"},
             NEW repo \in Repos \cup {NoRepo}
      PROVE  Promotion(polarity, scope, repo) \in Plans
  <2>1. Count(polarity) \in Nat
    BY CountBounds
  <2>2. Weight(polarity, scope) \in 55..100
    BY <2>1 DEF Weight, AtMost100
  <2> QED BY <2>2 DEF Promotion, Plans
<1>2. TopRepos \subseteq Repos
  BY DEF TopRepos
<1> QED BY <1>1, <1>2 DEF Promotions

LEMMA SamePromotions == ASSUME UNCHANGED <<outcomes, important>> PROVE Promotions' = Promotions
<1>1. \A p \in Polarities : Count(p)' = Count(p)
  BY DEF Count
<1>2. /\ \A r : InRepo(r)' = InRepo(r)
      /\ SeenIn' = SeenIn /\ TopRepos' = TopRepos
  BY DEF InRepo, SeenIn, TopRepos
<1>3. Total' = Total
  BY <1>1 DEF Total, Polarities
<1>4. \A top : OrgWide(top)' <=> OrgWide(top)
  BY <1>2, <1>3 DEF OrgWide
<1>5. \A p \in Polarities : Majority(p)' <=> Majority(p)
  BY <1>1 DEF Majority, Opposite, Polarities
<1>6. \A p \in Polarities : \A s, r : Promotion(p, s, r)' = Promotion(p, s, r)
  BY <1>1 DEF Promotion, Weight, AtMost100
<1> QED BY <1>2, <1>4, <1>5, <1>6 DEF Promotions
Runs1 == [stage : {"idle", "list", "delete", "add", "ended"}, plan : Plans \cup {NoPlan},
          match : 0..added]

LEMMA NoPlanIsNone == NoPlan \notin Plans
BY DEF NoPlan, Plans, Polarities

LEMMA MemoryStart == OutcomeInit => MemoryInv
<1> SUFFICES ASSUME OutcomeInit PROVE MemoryInv
  OBVIOUS
<1> USE OutcomeConstants DEF OutcomeInit
<1>1. OutcomeTypeOK
  BY DEF OutcomeTypeOK, Idle
<1>2. ASSUME NEW c \in Consolidations PROVE StageInv(c) /\ AloneInv(c)
  BY DEF StageInv, AloneInv, Writing, Idle, Consolidations
<1> QED BY <1>1, <1>2 DEF MemoryInv, OneMemory

\* Outcomes come and go, and what was planned of them need no longer be right.
LEMMA OutcomesChange ==
  ASSUME MemoryInv, NEW r \in Repos, NEW polarity \in Polarities,
         SaveOutcome(r, polarity) \/ OutcomeExpires(r, polarity)
  PROVE  MemoryInv'
<1>1. /\ OutcomeTypeOK /\ outcomes \in [Repos \X Polarities -> 0..MaxOutcomes]
      /\ MaxOutcomes \in Nat /\ <<r, polarity>> \in Repos \X Polarities
  BY OutcomeConstants DEF MemoryInv, OutcomeTypeOK
<1>2. /\ current' = {}
      /\ UNCHANGED <<important, memories, added, run, alone, consolidations, storeFailures>>
  BY DEF SaveOutcome, OutcomeExpires
<1>3. outcomes' \in [Repos \X Polarities -> 0..MaxOutcomes]
  <2> DEFINE n == outcomes[r, polarity]
  <2>1. n \in Nat /\ n <= MaxOutcomes
    <3>1. n \in 0..MaxOutcomes
      BY <1>1
    <3> HIDE DEF n
    <3> QED BY <1>1, <3>1
  <2>2. ASSUME NEW k \in 0..MaxOutcomes, outcomes' = [outcomes EXCEPT ![<<r, polarity>>] = k]
        PROVE  outcomes' \in [Repos \X Polarities -> 0..MaxOutcomes]
    BY <1>1, <2>2
  <2>3. CASE SaveOutcome(r, polarity)
    <3>1. Total < MaxOutcomes /\ outcomes' = [outcomes EXCEPT ![<<r, polarity>>] = n + 1]
      BY <2>3 DEF SaveOutcome
    <3>2. Count("positive") \in Nat /\ Count("negative") \in Nat /\ n <= Count(polarity)
      BY <1>1, CountBounds DEF Polarities
    <3> HIDE DEF n
    <3>3. CASE polarity = "positive"
      BY <1>1, <2>1, <2>2, <3>1, <3>2, <3>3 DEF Total
    <3>4. CASE polarity = "negative"
      BY <1>1, <2>1, <2>2, <3>1, <3>2, <3>4 DEF Total
    <3> QED BY <3>3, <3>4 DEF Polarities
  <2>4. CASE OutcomeExpires(r, polarity)
    <3>1. n > 0 /\ outcomes' = [outcomes EXCEPT ![<<r, polarity>>] = n - 1]
      BY <2>4 DEF OutcomeExpires
    <3> HIDE DEF n
    <3> QED BY <1>1, <2>1, <2>2, <3>1
  <2> QED BY <2>3, <2>4
<1>4. OutcomeTypeOK'
  BY <1>1, <1>2, <1>3 DEF OutcomeTypeOK
<1>5. \A c \in Consolidations : StageInv(c)' /\ (alone => AloneInv(c)')
  BY <1>2 DEF MemoryInv, StageInv, AloneInv, Writing, SaysPlan
<1>6. OneMemory' <=> OneMemory
  BY <1>2 DEF OneMemory
<1> QED BY <1>2, <1>4, <1>5, <1>6 DEF MemoryInv

LEMMA PlansStay ==
  ASSUME MemoryInv, UNCHANGED <<outcomes, important, current, consolidations>>,
         \A c \in Consolidations : run'[c].plan = run[c].plan
  PROVE  \A c \in current' : PlanInv(c)'
<1>1. Promotions' = Promotions /\ current \subseteq Consolidations
  BY SamePromotions DEF MemoryInv, OutcomeTypeOK
<1> QED BY <1>1 DEF MemoryInv, PlanInv

\* A consolidation goes on.
LEMMA RunGoesOn ==
  ASSUME MemoryInv, NEW c \in Consolidations, Writing(c), OutcomeTypeOK',
         UNCHANGED <<outcomes, important, current, consolidations>>,
         \A d \in Consolidations \ {c} : run'[d] = run[d],
         run'[c].plan = run[c].plan, run'[c].stage \in {"list", "delete", "add", "ended"},
         alone' => alone /\ OneMemory' /\ AloneInv(c)'
  PROVE  MemoryInv'
<1>1. \A d \in current' : PlanInv(d)'
  BY PlansStay
<1>2. ASSUME NEW d \in Consolidations PROVE StageInv(d)'
  BY DEF MemoryInv, StageInv, Writing
<1>3. ASSUME NEW d \in Consolidations, alone' PROVE AloneInv(d)'
  <2>1. CASE d = c
    BY <1>3, <2>1
  <2>2. CASE d # c
    <3>1. c = consolidations /\ (Writing(d) => d = consolidations)
      BY <1>3 DEF MemoryInv, AloneInv
    <3>2. run'[d] = run[d] /\ run[d].stage \notin {"list", "delete", "add"}
      BY <2>2, <3>1 DEF Writing
    <3> QED BY <2>2, <3>1, <3>2 DEF AloneInv, Writing
  <2> QED BY <2>1, <2>2
<1> QED BY <1>1, <1>2, <1>3 DEF MemoryInv

LEMMA MemoryPlanned == ASSUME MemoryInv, NEW c \in Consolidations, PlanOutcomes(c) PROVE MemoryInv'
<1> USE DEF PlanOutcomes
<1>1. /\ OutcomeTypeOK /\ run \in [Consolidations -> Runs1] /\ 0 \in 0..added
      /\ current \subseteq Consolidations
      /\ UNCHANGED <<outcomes, important, memories, added, storeFailures>>
  BY DEF MemoryInv, OutcomeTypeOK, Runs1
<1>2. Promotions' = Promotions /\ Promotions \subseteq Plans /\ NoPlan \notin Plans
  BY <1>1, SamePromotions, PromotionsArePlans, NoPlanIsNone
<1>3. PICK p \in IF Promotions = {} THEN {NoPlan} ELSE Promotions :
        run' = [run EXCEPT ![c] = [stage |-> IF p = NoPlan THEN "ended" ELSE "list",
                                   plan |-> p, match |-> 0]]
  OBVIOUS
<1> DEFINE phase == IF p = NoPlan THEN "ended" ELSE "list"
           rec == [stage |-> phase, plan |-> p, match |-> 0]
<1>4. phase \in {"ended", "list"} /\ (p = NoPlan <=> phase = "ended")
  OBVIOUS
<1>5. p \in Promotions \/ (p = NoPlan /\ Promotions = {})
  OBVIOUS
<1>6. run' = [run EXCEPT ![c] = rec]
  BY <1>3
<1> HIDE DEF phase
<1>7. rec \in Runs1 /\ rec.stage = phase /\ rec.plan = p
  BY <1>1, <1>2, <1>4, <1>5 DEF Runs1
<1> HIDE DEF rec
<1>8. /\ run' \in [Consolidations -> Runs1] /\ run'[c] = rec
      /\ \A d \in Consolidations \ {c} : run'[d] = run[d]
  BY <1>1, <1>6, <1>7
<1>9. /\ consolidations \in Nat /\ consolidations' = consolidations + 1
      /\ c = consolidations + 1 /\ consolidations' \in 0..MaxConsolidations
      /\ current' = current \cup {c} /\ alone' = (alone /\ Busy = {})
  BY <1>1, OutcomeConstants DEF OutcomeTypeOK, Consolidations
<1>10. OutcomeTypeOK'
  BY <1>1, <1>8, <1>9 DEF OutcomeTypeOK, Runs1
<1>11. ASSUME NEW d \in Consolidations PROVE StageInv(d)'
  <2>1. d \in Nat
    BY OutcomeConstants DEF Consolidations
  <2>2. CASE d = c
    BY <1>2, <1>4, <1>5, <1>7, <1>8, <1>9, <2>2 DEF StageInv, Writing
  <2>3. CASE d # c
    BY <1>8, <1>9, <2>1, <2>3 DEF MemoryInv, StageInv, Writing
  <2> QED BY <2>2, <2>3
<1>12. ASSUME NEW d \in current' PROVE PlanInv(d)'
  <2>1. d \in Consolidations /\ d \in Nat
    BY <1>1, <1>9, OutcomeConstants DEF Consolidations
  <2>2. CASE d = c
    BY <1>2, <1>5, <1>7, <1>8, <1>9, <2>2 DEF PlanInv
  <2>3. CASE d # c
    BY <1>2, <1>8, <1>9, <2>1, <2>3 DEF MemoryInv, PlanInv
  <2> QED BY <2>2, <2>3
<1>13. ASSUME alone' PROVE OneMemory' /\ \A d \in Consolidations : AloneInv(d)'
  <2>1. alone /\ alone \in BOOLEAN /\ \A d \in Consolidations : ~Writing(d)
    BY <1>1, <1>9, <1>13 DEF Busy, Writing, OutcomeTypeOK
  <2>2. OneMemory'
    BY <1>1, <2>1 DEF MemoryInv, OneMemory
  <2>3. ASSUME NEW d \in Consolidations, d # c PROVE AloneInv(d)'
    BY <1>8, <1>9, <2>1, <2>3 DEF AloneInv, Writing
  <2>4. AloneInv(c)'
    BY <1>4, <1>7, <1>8, <1>9 DEF AloneInv, Writing
  <2> QED BY <2>2, <2>3, <2>4
<1> QED BY <1>10, <1>11, <1>12, <1>13 DEF MemoryInv
LEMMA WritingRuns ==
  ASSUME MemoryInv, NEW c \in Consolidations, Writing(c)
  PROVE  /\ OutcomeTypeOK /\ run \in [Consolidations -> Runs1] /\ run[c] \in Runs1
         /\ run[c].plan \in Plans /\ run[c].match \in 0..added
         /\ added \in Nat /\ storeFailures \in Nat /\ MaxStoreFailures \in Nat
         /\ alone \in BOOLEAN /\ consolidations \in 0..MaxConsolidations
         /\ memories \subseteq [number : 1..added, plan : Plans]
         /\ alone => OneMemory /\ c = consolidations /\ AloneInv(c)
<1>1. run \in [Consolidations -> Runs1] /\ OutcomeTypeOK
  BY DEF MemoryInv, OutcomeTypeOK, Runs1
<1>2. run[c] \in Runs1
  BY <1>1
<1> QED BY <1>1, <1>2, OutcomeConstants DEF MemoryInv, StageInv, AloneInv, OutcomeTypeOK, Runs1

\* A consolidation moves on, with a plan that stays.
LEMMA RunTypes ==
  ASSUME MemoryInv, NEW c \in Consolidations, Writing(c),
         NEW phase \in {"list", "delete", "add", "ended"}, NEW match \in 0..added,
         run' = [run EXCEPT ![c] = [run[c] EXCEPT !.stage = phase, !.match = match]],
         added' \in Nat, added <= added',
         memories' \subseteq [number : 1..added', plan : Plans],
         \A m, n \in memories' : m.number = n.number => m = n,
         alone' \in BOOLEAN, storeFailures' \in 0..MaxStoreFailures,
         UNCHANGED <<outcomes, important, current, consolidations>>
  PROVE  /\ OutcomeTypeOK'
         /\ \A d \in Consolidations \ {c} : run'[d] = run[d]
         /\ run'[c].plan = run[c].plan /\ run'[c].stage = phase /\ run'[c].match = match
<1> DEFINE rec == [run[c] EXCEPT !.stage = phase, !.match = match]
<1>1. run \in [Consolidations -> Runs1] /\ run[c] \in Runs1 /\ added \in Nat /\ OutcomeTypeOK
  BY WritingRuns
<1>2. rec \in Runs1 /\ rec.stage = phase /\ rec.match = match /\ rec.plan = run[c].plan
  BY <1>1 DEF Runs1
<1> HIDE DEF rec
<1>3. /\ run' \in [Consolidations -> Runs1] /\ run'[c] = rec
      /\ \A d \in Consolidations \ {c} : run'[d] = run[d]
  BY <1>1, <1>2 DEF rec
<1>4. Runs1 \subseteq Runs1'
  BY <1>1 DEF Runs1
<1>5. run' \in [Consolidations -> Runs1']
  BY <1>3, <1>4
<1> QED BY <1>1, <1>2, <1>3, <1>5 DEF OutcomeTypeOK, Runs1

\* What a step that leaves memories alone need not say of types.
LEMMA StoreTypes ==
  ASSUME MemoryInv, UNCHANGED <<memories, added>>
  PROVE  /\ added' \in Nat /\ added <= added'
         /\ memories' \subseteq [number : 1..added', plan : Plans]
         /\ \A m, n \in memories' : m.number = n.number => m = n
<1>1. OutcomeTypeOK
  BY DEF MemoryInv
<1>2. added \in Nat /\ added' = added /\ memories' = memories
  BY <1>1 DEF OutcomeTypeOK
<1> QED BY <1>1, <1>2 DEF OutcomeTypeOK

LEMMA MemoryListed == ASSUME MemoryInv, NEW c \in Consolidations, ListMemories(c) PROVE MemoryInv'
<1> DEFINE p == run[c].plan
           matching == {m \in memories : MatchesPromotion(m, p)}
<1> USE DEF ListMemories
<1>1. /\ run[c].stage = "list" /\ Writing(c)
      /\ UNCHANGED <<outcomes, important, memories, added, current, alone, consolidations,
                     storeFailures>>
  BY DEF Writing
<1>2. /\ OutcomeTypeOK /\ run \in [Consolidations -> Runs1] /\ run[c] \in Runs1 /\ p \in Plans
      /\ memories \subseteq [number : 1..added, plan : Plans] /\ run[c].match \in 0..added
      /\ added \in Nat /\ (alone => OneMemory /\ c = consolidations)
  BY <1>1, WritingRuns
<1>3. matching = memories
  <2>1. \A m \in memories : m.plan \in Plans
    BY <1>2
  <2> QED BY <1>2, <2>1 DEF MatchesPromotion
<1>4. ASSUME NEW phase \in {"list", "delete", "add", "ended"}, NEW match \in 0..added,
             run' = [run EXCEPT ![c] = [run[c] EXCEPT !.stage = phase, !.match = match]],
             alone /\ phase = "delete" => \A m \in memories : m.number = match,
             alone /\ phase = "add" => memories = {},
             alone /\ phase = "ended" =>
               \E m \in memories : memories = {m} /\ SaysPlan(m, run[c].plan)
      PROVE  MemoryInv'
  <2>1. /\ OutcomeTypeOK'
        /\ \A d \in Consolidations \ {c} : run'[d] = run[d]
        /\ run'[c].plan = run[c].plan /\ run'[c].stage = phase /\ run'[c].match = match
    <3>1. alone' \in BOOLEAN /\ storeFailures' \in 0..MaxStoreFailures
      BY <1>1, <1>2 DEF OutcomeTypeOK
    <3> QED BY <1>1, <1>4, <3>1, StoreTypes, RunTypes
  <2>2. alone => OneMemory'
    BY <1>1, <1>2 DEF OneMemory
  <2>3. alone => AloneInv(c)'
    BY <1>1, <1>2, <1>4, <2>1 DEF AloneInv, Writing, SaysPlan
  <2> QED BY <1>1, <1>4, <2>1, <2>2, <2>3, RunGoesOn
<1>5. CASE matching = {} /\ run' = [run EXCEPT ![c].stage = "add"]
  <2>1. run' = [run EXCEPT ![c] = [run[c] EXCEPT !.stage = "add", !.match = run[c].match]]
    BY <1>2, <1>5 DEF Runs1
  <2> QED BY <1>2, <1>3, <1>4, <1>5, <2>1
<1>6. ASSUME NEW m \in matching, \A n \in matching : n.number <= m.number,
             run' = IF UpToDate(m, p) THEN [run EXCEPT ![c].stage = "ended"]
                    ELSE [run EXCEPT ![c].stage = "delete", ![c].match = m.number]
      PROVE  MemoryInv'
  <2>1. m \in memories /\ m.number \in 0..added /\ (alone => memories = {m})
    BY <1>2, <1>3 DEF OneMemory
  <2>2. CASE UpToDate(m, p)
    <3>1. run' = [run EXCEPT ![c] = [run[c] EXCEPT !.stage = "ended", !.match = run[c].match]]
      BY <1>2, <1>6, <2>2 DEF Runs1
    <3>2. SaysPlan(m, p)
      BY <2>2 DEF UpToDate, SaysPlan
    <3> QED BY <1>2, <1>4, <2>1, <3>1, <3>2
  <2>3. CASE ~UpToDate(m, p)
    <3>1. run' = [run EXCEPT ![c] = [run[c] EXCEPT !.stage = "delete", !.match = m.number]]
      BY <1>2, <1>6, <2>3 DEF Runs1
    <3> QED BY <1>4, <2>1, <3>1
  <2> QED BY <2>2, <2>3
<1> QED BY <1>5, <1>6

LEMMA StoreKeeps ==
  ASSUME MemoryInv, NEW c \in Consolidations, Writing(c), StoreFails,
         NEW phase \in {"add", "ended"}, NEW match \in 0..added,
         run' = [run EXCEPT ![c] = [run[c] EXCEPT !.stage = phase, !.match = match]],
         UNCHANGED <<outcomes, important, current, consolidations>>
  PROVE  MemoryInv'
<1>1. /\ OutcomeTypeOK /\ storeFailures \in Nat /\ MaxStoreFailures \in Nat
      /\ storeFailures < MaxStoreFailures /\ storeFailures' = storeFailures + 1
      /\ alone' = FALSE /\ UNCHANGED <<memories, added>> /\ added \in Nat
      /\ memories \subseteq [number : 1..added, plan : Plans]
  BY WritingRuns DEF StoreFails
<1>2. storeFailures' \in 0..MaxStoreFailures /\ alone' \in BOOLEAN
  <2>1. storeFailures' \in 0..MaxStoreFailures
    BY <1>1
  <2>2. alone' \in BOOLEAN
    BY <1>1
  <2> QED BY <2>1, <2>2
<1>3. /\ OutcomeTypeOK'
      /\ \A d \in Consolidations \ {c} : run'[d] = run[d]
      /\ run'[c].plan = run[c].plan /\ run'[c].stage = phase
  BY <1>1, <1>2, StoreTypes, RunTypes
<1> QED BY <1>1, <1>3, RunGoesOn

LEMMA MemoryDeleted == ASSUME MemoryInv, NEW c \in Consolidations, DeleteOld(c) PROVE MemoryInv'
<1> USE DEF DeleteOld
<1>1. /\ run[c].stage = "delete" /\ Writing(c)
      /\ UNCHANGED <<outcomes, important, current, consolidations>>
      /\ run' = [run EXCEPT ![c].stage = "add", ![c].match = 0]
  BY DEF Writing
<1>2. /\ OutcomeTypeOK /\ run \in [Consolidations -> Runs1] /\ run[c] \in Runs1
      /\ added \in Nat /\ memories \subseteq [number : 1..added, plan : Plans]
      /\ alone => OneMemory /\ c = consolidations /\ AloneInv(c)
  BY <1>1, WritingRuns
<1>3. /\ run' = [run EXCEPT ![c] = [run[c] EXCEPT !.stage = "add", !.match = 0]]
      /\ 0 \in 0..added
  <2>1. 0 \in 0..added
    BY <1>2
  <2>2. run' = [run EXCEPT ![c] = [run[c] EXCEPT !.stage = "add", !.match = 0]]
    BY <1>1, <1>2 DEF Runs1
  <2> QED BY <2>1, <2>2
<1>4. CASE StoreFails
  BY <1>1, <1>3, <1>4, StoreKeeps
<1>5. CASE /\ memories' = {m \in memories : m.number # run[c].match}
           /\ UNCHANGED <<added, alone, storeFailures>>
  <2>1. /\ OutcomeTypeOK'
        /\ \A d \in Consolidations \ {c} : run'[d] = run[d]
        /\ run'[c].plan = run[c].plan /\ run'[c].stage = "add"
    <3>1. /\ added' \in Nat /\ added <= added'
          /\ memories' \subseteq [number : 1..added', plan : Plans]
          /\ \A m, n \in memories' : m.number = n.number => m = n
          /\ alone' \in BOOLEAN /\ storeFailures' \in 0..MaxStoreFailures
      BY <1>2, <1>5 DEF OutcomeTypeOK
    <3> QED BY <1>1, <1>3, <3>1, RunTypes
  <2>2. alone => memories' = {}
    BY <1>1, <1>2, <1>5 DEF AloneInv
  <2>3. alone' => alone /\ OneMemory' /\ AloneInv(c)'
    BY <1>1, <1>2, <1>5, <2>1, <2>2 DEF OneMemory, AloneInv, Writing
  <2> QED BY <1>1, <2>1, <2>3, RunGoesOn
<1> QED BY <1>4, <1>5

LEMMA MemoryAdded == ASSUME MemoryInv, NEW c \in Consolidations, AddNew(c) PROVE MemoryInv'
<1> USE DEF AddNew
<1>1. /\ run[c].stage = "add" /\ Writing(c)
      /\ UNCHANGED <<outcomes, important, current, consolidations>>
      /\ run' = [run EXCEPT ![c].stage = "ended"]
  BY DEF Writing
<1>2. /\ OutcomeTypeOK /\ run \in [Consolidations -> Runs1] /\ run[c] \in Runs1
      /\ run[c].plan \in Plans /\ run[c].match \in 0..added
      /\ added \in Nat /\ memories \subseteq [number : 1..added, plan : Plans]
      /\ alone => OneMemory /\ c = consolidations /\ AloneInv(c)
  BY <1>1, WritingRuns
<1>3. run' = [run EXCEPT ![c] = [run[c] EXCEPT !.stage = "ended", !.match = run[c].match]]
  BY <1>1, <1>2 DEF Runs1
<1>4. CASE StoreFails
  BY <1>1, <1>2, <1>3, <1>4, StoreKeeps
<1>5. CASE /\ added' = added + 1
           /\ memories' = memories \cup {[number |-> added + 1, plan |-> run[c].plan]}
           /\ UNCHANGED <<alone, storeFailures>>
  <2> DEFINE new == [number |-> added + 1, plan |-> run[c].plan]
  <2>1. /\ memories' = memories \cup {new} /\ new.number = added + 1
        /\ new.plan = run[c].plan /\ new \in [number : 1..(added + 1), plan : Plans]
    BY <1>2, <1>5
  <2> HIDE DEF new
  <2>2. /\ memories' \subseteq [number : 1..added', plan : Plans]
        /\ added' \in Nat /\ added <= added'
    BY <1>2, <1>5, <2>1
  <2>3. \A m, n \in memories' : m.number = n.number => m = n
    <3>1. \A m \in memories : m.number \in 1..added
      BY <1>2
    <3> QED BY <1>2, <2>1, <3>1 DEF OutcomeTypeOK
  <2>4. /\ OutcomeTypeOK'
        /\ \A d \in Consolidations \ {c} : run'[d] = run[d]
        /\ run'[c].plan = run[c].plan /\ run'[c].stage = "ended"
    BY <1>1, <1>2, <1>3, <1>5, <2>2, <2>3, RunTypes DEF OutcomeTypeOK
  <2>5. alone => memories' = {new}
    BY <1>1, <1>2, <2>1 DEF AloneInv
  <2>6. SaysPlan(new, run[c].plan)
    <3>1. run[c].plan.weight \in Int
      BY <1>2 DEF Plans
    <3> QED BY <2>1, <3>1 DEF SaysPlan
  <2>7. alone' => alone /\ OneMemory' /\ AloneInv(c)'
    BY <1>1, <1>2, <1>5, <2>4, <2>5, <2>6 DEF OneMemory, AloneInv, Writing, SaysPlan
  <2> QED BY <1>1, <2>4, <2>7, RunGoesOn
<1> QED BY <1>4, <1>5

LEMMA MemoryStep == MemoryInv /\ [OutcomeNext]_outcomeVars => MemoryInv'
<1> SUFFICES ASSUME MemoryInv, [OutcomeNext]_outcomeVars PROVE MemoryInv'
  OBVIOUS
<1>1. CASE OutcomeNext
  BY <1>1, OutcomesChange, MemoryPlanned, MemoryListed, MemoryDeleted, MemoryAdded
     DEF OutcomeNext
<1>2. CASE UNCHANGED outcomeVars
  <2>1. Promotions' = Promotions
    BY <1>2, SamePromotions DEF outcomeVars
  <2> QED BY <1>2, <2>1 DEF MemoryInv, outcomeVars, OutcomeTypeOK, OneMemory, StageInv,
                            PlanInv, AloneInv, Writing, SaysPlan
<1> QED BY <1>1, <1>2

LEMMA MemoryFollows == MemoryInv => OutcomeTypeOK /\ MemorySound
<1> SUFFICES ASSUME MemoryInv PROVE OutcomeTypeOK /\ MemorySound
  OBVIOUS
<1>1. OutcomeTypeOK /\ OneMemory
  BY DEF MemoryInv, OneMemory
<1>2. MemoryIsCurrent
  <2> SUFFICES ASSUME NEW c \in Consolidations, alone, run[c].stage = "ended",
                      c \in current, c = consolidations, Promotions # {}
               PROVE  \E m \in memories, p \in Promotions :
                        /\ memories = {m} /\ m.plan.polarity = p.polarity
                        /\ m.plan.scope = p.scope /\ m.plan.weight + 1 >= p.weight
                        /\ p.scope = "repo" => m.plan.repo = p.repo
    BY DEF MemoryIsCurrent
  <2>1. run[c].plan \in Promotions /\ run[c].plan # NoPlan
    BY <1>1, PromotionsArePlans, NoPlanIsNone DEF MemoryInv, PlanInv
  <2>2. \E m \in memories : memories = {m} /\ SaysPlan(m, run[c].plan)
    BY <2>1 DEF MemoryInv, AloneInv
  <2> QED BY <2>1, <2>2 DEF SaysPlan
<1>3. SuppressionHasMajority
  <2> SUFFICES ASSUME NEW c \in Consolidations, c \in current, run[c].plan \in Plans,
                      run[c].plan.polarity = "negative"
               PROVE  /\ Count("negative") > Count("positive")
                      /\ Count("negative") >= MinRepoCount
    BY DEF SuppressionHasMajority
  <2>1. run[c].plan \in Promotions
    BY NoPlanIsNone DEF MemoryInv, PlanInv
  <2>2. Majority("negative")
    BY <2>1 DEF Promotions, Promotion
  <2> QED BY <2>2 DEF Majority, Opposite
<1> QED BY <1>1, <1>2, <1>3 DEF MemorySound

\* However consolidations overlap and the store fails: undisturbed ones never leave two
\* memories of a bug (consolidateOutcomeMemories), the last of them leaves the one that
\* the outcomes call for, and only a majority suppresses.
THEOREM MemoriesAreSound == OutcomeSpec => [](OutcomeTypeOK /\ MemorySound)
<1>1. OutcomeSpec => []MemoryInv
  BY MemoryStart, MemoryStep, PTL DEF OutcomeSpec
<1> QED BY <1>1, MemoryFollows, PTL

(***************************************************************************)
(* Both beside the other modules.                                          *)
(***************************************************************************)
\* What merges and outcomes teach is sound where the modules stand beside the others, and
\* a step is a step of one of them.
THEOREM LearningIsSound == ServicesSpec => []LearningSound
<1> DEFINE Both == MergeInv /\ MemoryInv
<1>1. MCInit => Both
  BY MergeStart, MemoryStart DEF MCInit
<1>2. ASSUME Both, MCNext \/ UNCHANGED <<mergeVars, outcomeVars>>
      PROVE  Both'
  BY <1>2, MergeStep, MemoryStep DEF MCNext
<1>3. Both /\ [MCNext]_<<part, publishVars, webhookVars, findingVars, verifierVars, noiseVars,
                         outcomeVars, configVars, repoVars, memberVars, mergeVars,
                         settingsVars>> => Both'
  BY <1>2
<1>4. Both => LearningSound
  BY MergeFollows, MemoryFollows DEF LearningSound
<1> HIDE DEF Both
<1> QED BY <1>1, <1>3, <1>4, PTL DEF ServicesSpec
==============================================================================
