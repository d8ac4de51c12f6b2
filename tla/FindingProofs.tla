----------------------------- MODULE FindingProofs -----------------------------
(***************************************************************************)
(* What becomes of findings: the verdicts of the senior verifier on the    *)
(* candidates of a review (SeniorVerifier), for any number of candidates   *)
(* and any answers; the rows of one bug, which reviews and users write     *)
(* (FindingLifecycle), for any number of reviewers and reviews; and what   *)
(* the noise stack leaves of the candidates (NoiseStack), for any caps.    *)
(***************************************************************************)
EXTENDS MCServices, FiniteSetTheorems, WellFoundedInduction, TLAPS

\* A set of numbers has a least one.
LEMMA LeastNumber ==
  ASSUME NEW S \in SUBSET Nat, S # {}
  PROVE  \E x \in S : \A y \in S : x <= y
<1> DEFINE R == {ss \in Nat \X Nat : ss[1] < ss[2]}
<1>1. \A x, y \in Nat : ~(<<y, x>> \in R) => x <= y
  OBVIOUS
<1>2. IsWellFoundedOn(R, Nat)
  BY NatLessThanWellFounded, Zenon DEF OpToRel
<1> HIDE DEF R
<1>3. \E x \in S : \A y \in S : ~ (<<y, x>> \in R)
  BY <1>2, WFMin
<1> QED BY <1>1, <1>3

\* The function that starts with d and goes on as F says exists.
Unrolls(D, d, F, g) ==
  g \in [Nat -> D] /\ g[0] = d /\ \A n \in Nat \ {0} : g[n] = F[n][g[n - 1]]

LEMMA RecursionExists ==
  ASSUME NEW D, NEW d \in D, NEW F \in [Nat -> [D -> D]]
  PROVE  \E g : Unrolls(D, d, F, g)
<1> DEFINE Steps(n, g) == g[0] = d /\ \A k \in 1..n : g[k] = F[k][g[k - 1]]
<1>1. \A n \in Nat : \E g : Steps(n, g)
  <2>1. SUFFICES ASSUME {n \in Nat : ~\E g : Steps(n, g)} # {} PROVE FALSE
    OBVIOUS
  <2>2. PICK n \in {m \in Nat : ~\E g : Steps(m, g)} :
               \A m \in {k \in Nat : ~\E g : Steps(k, g)} : n <= m
    BY <2>1, LeastNumber
  <2>3. CASE n = 0
    <3>1. Steps(0, [k \in {0} |-> d])
      OBVIOUS
    <3> QED BY <2>2, <2>3, <3>1
  <2>4. CASE n # 0
    <3>1. n - 1 \in Nat /\ n - 1 < n
      BY <2>2, <2>4
    <3>2. PICK g : Steps(n - 1, g)
      <4> HIDE DEF Steps
      <4>1. ~(n <= n - 1)
        BY <2>2, <3>1
      <4> QED BY <2>2, <3>1, <4>1
    <3> DEFINE h == [k \in 0..n |-> IF k = n THEN F[n][g[n - 1]] ELSE g[k]]
    <3>3. h[0] = d /\ \A k \in 1..n : h[k] = F[k][h[k - 1]]
      <4>1. h[0] = g[0]
        BY <2>2, <2>4
      <4>2. ASSUME NEW k \in 1..n PROVE h[k] = F[k][h[k - 1]]
        <5>1. k - 1 \in 0..n /\ k - 1 # n /\ h[k - 1] = g[k - 1]
          BY <2>2
        <5>2. k # n => k \in 1..(n - 1) /\ h[k] = g[k]
          BY <2>2
        <5>3. k = n => h[k] = F[n][g[n - 1]]
          BY <2>2
        <5> QED BY <3>2, <5>1, <5>2, <5>3
      <4> QED BY <3>2, <4>1, <4>2
    <3>4. Steps(n, h)
      BY <3>3
    <3> QED BY <2>2, <3>4
  <2> QED BY <2>3, <2>4
<1>2. ASSUME NEW n \in Nat, NEW m \in Nat, NEW g, NEW h, Steps(n, g), Steps(m, h),
             NEW k \in Nat, k <= n, k <= m
      PROVE  g[k] = h[k]
  <2>1. SUFFICES ASSUME {i \in Nat : i <= n /\ i <= m /\ g[i] # h[i]} # {} PROVE FALSE
    BY <1>2
  <2>2. PICK i \in {j \in Nat : j <= n /\ j <= m /\ g[j] # h[j]} :
               \A l \in {j \in Nat : j <= n /\ j <= m /\ g[j] # h[j]} : i <= l
    BY <2>1, LeastNumber
  <2>3. i # 0
    BY <1>2, <2>2
  <2>4. i - 1 \in Nat /\ i - 1 < i /\ i - 1 <= n /\ i - 1 <= m /\ i \in 1..n /\ i \in 1..m
    BY <2>2, <2>3
  <2>5. g[i - 1] = h[i - 1]
    BY <2>2, <2>4
  <2> QED BY <1>2, <2>2, <2>4, <2>5
<1> DEFINE Approx(n) == CHOOSE g : Steps(n, g)
           W == [n \in Nat |-> Approx(n)[n]]
<1>3. \A n \in Nat : Steps(n, Approx(n))
  BY <1>1
<1> HIDE DEF Steps, Approx
<1>4. W[0] = d
  BY <1>3 DEF Steps
<1>5. ASSUME NEW n \in Nat \ {0} PROVE W[n] = F[n][W[n - 1]]
  <2>1. n - 1 \in Nat /\ n - 1 <= n /\ n - 1 <= n - 1 /\ n \in 1..n
    OBVIOUS
  <2>2. Approx(n)[n] = F[n][Approx(n)[n - 1]]
    BY <1>3, <2>1 DEF Steps
  <2>3. Approx(n)[n - 1] = Approx(n - 1)[n - 1]
    BY <1>2, <1>3, <2>1
  <2> QED BY <2>1, <2>2, <2>3
<1>6. \A n \in Nat : W[n] \in D
  <2> HIDE DEF W
  <2>1. SUFFICES ASSUME {n \in Nat : W[n] \notin D} # {} PROVE FALSE
    OBVIOUS
  <2>2. PICK n \in {m \in Nat : W[m] \notin D} : \A m \in {k \in Nat : W[k] \notin D} : n <= m
    BY <2>1, LeastNumber
  <2>3. n # 0
    BY <1>4, <2>2
  <2>4. n \in Nat \ {0} /\ n - 1 \in Nat /\ ~(n <= n - 1)
    BY <2>2, <2>3
  <2>5. W[n - 1] \in D
    BY <2>2, <2>4
  <2> QED BY <1>5, <2>2, <2>4, <2>5
<1>7. W = [n \in Nat |-> W[n]]
  OBVIOUS
<1> HIDE DEF W
<1> QED BY <1>4, <1>5, <1>6, <1>7 DEF Unrolls

(***************************************************************************)
(* The rows of a bug, and the reviews that read and write them.            *)
(***************************************************************************)
ReviewStages == {"none", "judge", "look", "store", "list", "fix", "ended"}
Reviews == [stage : ReviewStages, session : Nat, pr : PullRequests \cup {"none"},
            sees : BOOLEAN, severity : 1..2, found : Nat, read : Seq(Rows)]

RowsTypes ==
  /\ rows \in Seq(Rows) /\ \A i \in DOMAIN rows : rows[i].session <= reviews
  /\ review \in [Reviewers -> Reviews]
  /\ reviews \in 0..MaxReviews /\ quiet \subseteq Reviewers

\* Rows only get more, and a review that does not see the bug writes no row of its own.
OfReview(r) ==
  /\ review[r].session <= reviews
  /\ review[r].stage # "none" => review[r].pr \in PullRequests /\ review[r].session # 0
  /\ Len(review[r].read) <= Len(rows)
  /\ review[r].found <= Len(review[r].read)
  /\ review[r].stage \in {"look", "store"} => review[r].sees
  /\ review[r].stage = "fix" => ~review[r].sees
  /\ ~review[r].sees => \A i \in DOMAIN rows : rows[i].session # review[r].session

\* The bug is on record: with an active row, or one that says why there is none.
OnRecord(r) == \E i \in DOMAIN rows :
  \/ rows[i].status \in Active \cup UserClosed
  \/ rows[i].status = "fixed" /\ rows[i].severity >= review[r].severity

\* Nobody else has changed what the review read.
UpToNow(r) == r \in quiet =>
  /\ review[r].stage \in {"store", "fix"} => review[r].read = rows
  /\ review[r].stage = "store" => review[r].found = Len(rows)
  /\ review[r].stage \in {"list", "ended"} /\ review[r].sees => OnRecord(r)
  /\ review[r].stage = "ended" /\ ~review[r].sees =>
       \A i \in DOMAIN rows : InScope(rows[i], review[r].pr) => rows[i].status \notin Active

OwnSessions == \A r, q \in Reviewers :
  r # q /\ review[r].session # 0 => review[r].session # review[q].session

RowsInv == RowsTypes /\ OwnSessions /\ \A r \in Reviewers : OfReview(r) /\ UpToNow(r)

LEMMA RowsStart == FindingInit => RowsInv
<1> SUFFICES ASSUME FindingInit PROVE RowsInv
  OBVIOUS
<1>1. NoReview \in Reviews
  BY DEF NoReview, Reviews, ReviewStages
<1>2. RowsTypes
  BY <1>1, LifecycleConstants DEF FindingInit, RowsTypes
<1> QED BY <1>2 DEF FindingInit, RowsInv, OwnSessions, OfReview, UpToNow, NoReview

\* A step of which the review knows only that there are more rows.
LEMMA OthersStay ==
  ASSUME RowsInv, RowsTypes', NEW q \in Reviewers, review'[q] = review[q],
         reviews' >= reviews, Len(rows') >= Len(rows),
         \A i \in DOMAIN rows' : \/ i \in DOMAIN rows /\ rows'[i].session = rows[i].session
                                 \/ review[q].session # rows'[i].session,
         q \in quiet' => q \in quiet /\ rows' = rows
  PROVE  OfReview(q)' /\ UpToNow(q)'
<1> USE DEF RowsInv
<1>1. OfReview(q) /\ UpToNow(q)
  OBVIOUS
<1>2. /\ Len(rows) \in Nat /\ Len(rows') \in Nat /\ reviews \in Nat /\ reviews' \in Nat
      /\ review[q] \in Reviews
  BY LifecycleConstants DEF RowsTypes
<1>3. Len(review[q].read) \in Nat /\ review[q].session \in Nat
  BY <1>2 DEF Reviews
<1>4. OfReview(q)'
  BY <1>1, <1>2, <1>3 DEF OfReview
<1>5. UpToNow(q)'
  BY <1>1 DEF UpToNow, OnRecord, InScope, Active
<1> QED BY <1>4, <1>5

\* A review that reads on, or ends.
Keeps(r) ==
  /\ review' \in [Reviewers -> Reviews]
  /\ \A q \in Reviewers \ {r} : review'[q] = review[q]
  /\ review'[r].session = review[r].session /\ review'[r].pr = review[r].pr
  /\ review'[r].sees = review[r].sees /\ review'[r].severity = review[r].severity

LEMMA ReviewFields ==
  ASSUME RowsInv, NEW r \in Reviewers
  PROVE  /\ review \in [Reviewers -> Reviews] /\ review[r] \in Reviews
         /\ review[r].stage \in ReviewStages /\ review[r].session \in Nat
         /\ review[r].pr \in PullRequests \cup {"none"} /\ review[r].sees \in BOOLEAN
         /\ review[r].severity \in 1..2 /\ review[r].found \in Nat
         /\ review[r].read \in Seq(Rows) /\ Len(review[r].read) \in Nat
         /\ rows \in Seq(Rows) /\ Len(rows) \in Nat /\ reviews \in Nat
<1>1. /\ review \in [Reviewers -> Reviews] /\ rows \in Seq(Rows) /\ reviews \in Nat
  BY LifecycleConstants DEF RowsInv, RowsTypes
<1>2. review[r].read \in Seq(Rows)
  BY <1>1 DEF Reviews
<1> QED BY <1>1, <1>2 DEF Reviews

LEMMA GoesOn ==
  ASSUME RowsInv, NEW r \in Reviewers, NEW s \in ReviewStages, Goes(r, s)
  PROVE  /\ Keeps(r) /\ review'[r].stage = s /\ review'[r].found = 0
         /\ review'[r].read = <<>> /\ Len(review'[r].read) = 0
<1> DEFINE rec == [review[r] EXCEPT !.stage = s, !.found = 0, !.read = <<>>]
<1>1. review' = [review EXCEPT ![r] = rec]
  BY DEF Goes
<1>2. review[r] \in Reviews /\ <<>> \in Seq(Rows)
  BY ReviewFields
<1>3. rec \in Reviews
  BY <1>2 DEF Reviews
<1>4. /\ rec.session = review[r].session /\ rec.pr = review[r].pr
      /\ rec.sees = review[r].sees /\ rec.severity = review[r].severity
      /\ rec.stage = s /\ rec.found = 0 /\ rec.read = <<>>
  BY <1>2 DEF Reviews
<1> HIDE DEF rec
<1>5. review' \in [Reviewers -> Reviews] /\ review'[r] = rec
      /\ \A q \in Reviewers \ {r} : review'[q] = review[q]
  BY <1>1, <1>3, ReviewFields
<1> QED BY <1>4, <1>5 DEF Keeps

LEMMA ReviewMoves ==
  ASSUME RowsInv, NEW r \in Reviewers, Keeps(r), review[r].stage # "none",
         Len(review'[r].read) <= Len(rows), review'[r].found <= Len(review'[r].read),
         review'[r].stage \in {"look", "store"} => review[r].sees,
         review'[r].stage = "fix" => ~review[r].sees,
         UNCHANGED <<rows, reviews>>, quiet' \subseteq quiet,
         UpToNow(r)'
  PROVE  RowsInv'
<1> USE DEF RowsInv
<1>1. /\ review' \in [Reviewers -> Reviews]
      /\ \A q \in Reviewers \ {r} : review'[q] = review[q]
  BY DEF Keeps
<1>2. RowsTypes'
  BY <1>1 DEF RowsTypes
<1>3. \A q \in Reviewers : review'[q].session = review[q].session
  BY <1>1 DEF Keeps
<1>4. OwnSessions'
  BY <1>3 DEF OwnSessions
<1>5. ASSUME NEW q \in Reviewers PROVE OfReview(q)' /\ UpToNow(q)'
  <2>1. CASE q = r
    <3>1. OfReview(r)
      OBVIOUS
    <3>2. OfReview(r)'
      BY <3>1 DEF OfReview, Keeps
    <3> QED BY <2>1, <3>2
  <2>2. CASE q # r
    <3>1. Len(rows) \in Nat /\ reviews \in Nat
      BY LifecycleConstants DEF RowsTypes
    <3> QED BY <1>1, <1>2, <2>2, <3>1, OthersStay
  <2> QED BY <2>1, <2>2
<1> QED BY <1>2, <1>4, <1>5

LEMMA PriorIsRow == ASSUME rows \in Seq(Rows), rows # <<>> PROVE Prior \in DOMAIN rows
<1> DEFINE Top == {i \in DOMAIN rows : rows[i].severity = 2}
<1>1. DOMAIN rows \in SUBSET Nat /\ DOMAIN rows # {}
  <2>1. DOMAIN rows = 1..Len(rows) /\ Len(rows) \in DOMAIN rows
    OBVIOUS
  <2> QED BY <2>1
<1>2. \A i \in DOMAIN rows : rows[i].severity \in 1..2
  <2>1. \A i \in DOMAIN rows : rows[i] \in Rows
    OBVIOUS
  <2> QED BY <2>1 DEF Rows
<1>3. \E i \in DOMAIN rows : \A j \in DOMAIN rows :
        /\ rows[j].severity <= rows[i].severity
        /\ rows[j].severity = rows[i].severity => i <= j
  <2>1. CASE Top # {}
    <3>1. PICK i \in Top : \A j \in Top : i <= j
      BY <1>1, <2>1, LeastNumber
    <3> QED BY <1>1, <1>2, <3>1
  <2>2. CASE Top = {}
    <3>1. PICK i \in DOMAIN rows : \A j \in DOMAIN rows : i <= j
      BY <1>1, LeastNumber
    <3>2. \A j \in DOMAIN rows : rows[j].severity = 1
      BY <1>2, <2>2
    <3> QED BY <3>1, <3>2
  <2> QED BY <2>1, <2>2
<1> QED BY <1>3 DEF Prior

LEMMA RowsJudged == ASSUME RowsInv, NEW r \in Reviewers, JudgeBug(r) PROVE RowsInv'
<1>1. PICK headSha, surer \in BOOLEAN :
        Goes(r, IF review[r].sees /\ (headSha => Survives(r, surer)) THEN "look" ELSE "list")
  BY DEF JudgeBug
<1>2. review[r].stage = "judge" /\ UNCHANGED <<rows, reviews, quiet>>
  BY DEF JudgeBug, At
<1>3. CASE review[r].sees /\ (headSha => Survives(r, surer))
  <2>1. Goes(r, "look") /\ "look" \in ReviewStages
    BY <1>1, <1>3, Zenon DEF ReviewStages
  <2>2. /\ Keeps(r) /\ review'[r].stage = "look" /\ review'[r].found = 0
        /\ Len(review'[r].read) = 0
    BY <2>1, GoesOn
  <2>3. UpToNow(r)'
    BY <2>2 DEF UpToNow
  <2> QED BY <1>2, <1>3, <2>2, <2>3, ReviewFields, ReviewMoves
<1>4. CASE ~(review[r].sees /\ (headSha => Survives(r, surer)))
  <2>1. Goes(r, "list") /\ "list" \in ReviewStages
    BY <1>1, <1>4, Zenon DEF ReviewStages
  <2>2. /\ Keeps(r) /\ review'[r].stage = "list" /\ review'[r].found = 0
        /\ Len(review'[r].read) = 0
    BY <2>1, GoesOn
  <2>3. ASSUME review[r].sees PROVE OnRecord(r)
    <3>1. rows # <<>> /\ ~Rose(review[r].severity, rows[Prior].severity)
      BY <1>4, <2>3 DEF Survives
    <3>2. Prior \in DOMAIN rows
      BY <3>1, PriorIsRow, ReviewFields
    <3>3. rows[Prior] \in Rows
      BY <3>2, ReviewFields
    <3>4. rows[Prior].status \in Statuses /\ rows[Prior].severity \in 1..2
      BY <3>3 DEF Rows
    <3>5. rows[Prior].severity >= review[r].severity
      BY <3>1, <3>4, ReviewFields DEF Rose
    <3> QED BY <3>2, <3>4, <3>5 DEF OnRecord, Statuses
  <2>4. OnRecord(r)' <=> OnRecord(r)
    BY <1>2, <2>2 DEF OnRecord, Keeps
  <2>5. UpToNow(r)'
    BY <2>2, <2>3, <2>4 DEF UpToNow, Keeps
  <2> QED BY <1>2, <2>2, <2>5, ReviewFields, ReviewMoves
<1> QED BY <1>3, <1>4

LEMMA RowsLookedUp == ASSUME RowsInv, NEW r \in Reviewers, LookUp(r) PROVE RowsInv'
<1> DEFINE rec == [review[r] EXCEPT !.stage = "store", !.found = Newest(r), !.read = rows]
<1>1. review[r].stage = "look" /\ UNCHANGED <<rows, reviews, quiet>>
  BY DEF LookUp, At
<1>2. Newest(r) = Len(rows)
  <2>1. CASE rows = <<>>
    BY <2>1 DEF Newest, KnownRows
  <2>2. CASE rows # <<>>
    <3>1. DOMAIN rows = 1..Len(rows) /\ Len(rows) \in DOMAIN rows
      BY <2>2, ReviewFields
    <3> QED BY <3>1, ReviewFields DEF Newest, KnownRows
  <2> QED BY <2>1, <2>2
<1>3. review[r] \in Reviews /\ rows \in Seq(Rows) /\ Newest(r) \in Nat
  BY <1>2, ReviewFields
<1>4. rec \in Reviews
  BY <1>3 DEF Reviews, ReviewStages
<1>5. /\ rec.session = review[r].session /\ rec.pr = review[r].pr
      /\ rec.sees = review[r].sees /\ rec.severity = review[r].severity
      /\ rec.stage = "store" /\ rec.found = Len(rows) /\ rec.read = rows
  BY <1>2, <1>3 DEF Reviews
<1>6. review' = [review EXCEPT ![r] = rec]
  BY DEF LookUp
<1> HIDE DEF rec
<1>7. /\ review' \in [Reviewers -> Reviews] /\ review'[r] = rec
      /\ \A q \in Reviewers \ {r} : review'[q] = review[q]
  BY <1>4, <1>6, ReviewFields
<1>8. Keeps(r)
  BY <1>5, <1>7 DEF Keeps
<1>9. UpToNow(r)'
  BY <1>1, <1>5, <1>7 DEF UpToNow
<1>10. review[r].sees
  BY <1>1 DEF RowsInv, OfReview
<1> QED BY <1>1, <1>5, <1>7, <1>8, <1>9, <1>10, ReviewFields, ReviewMoves

LEMMA RowsListed == ASSUME RowsInv, NEW r \in Reviewers, ListPrior(r) PROVE RowsInv'
<1>1. /\ review[r].stage = "list" /\ UNCHANGED <<rows, reviews>> /\ quiet' \subseteq quiet
      /\ UpToNow(r) /\ OfReview(r)
  BY DEF ListPrior, At, RowsInv
<1>2. CASE Goes(r, "ended") /\ (review[r].sees \/ quiet' = quiet \ {r})
  <2>1. /\ Keeps(r) /\ review'[r].stage = "ended" /\ review'[r].found = 0
        /\ Len(review'[r].read) = 0
    BY <1>2, GoesOn DEF ReviewStages
  <2>2. OnRecord(r)' <=> OnRecord(r)
    BY <1>1, <2>1 DEF OnRecord, Keeps
  <2>3. UpToNow(r)'
    BY <1>1, <1>2, <2>1, <2>2 DEF UpToNow, Keeps
  <2> QED BY <1>1, <2>1, <2>3, ReviewFields, ReviewMoves
<1>3. CASE /\ ~review[r].sees /\ quiet' = quiet
           /\ review' = [review EXCEPT ![r].stage = "fix", ![r].read = rows]
  <2> DEFINE rec == [review[r] EXCEPT !.stage = "fix", !.read = rows]
  <2>1. review[r] \in Reviews /\ rows \in Seq(Rows)
    BY ReviewFields
  <2>2. rec \in Reviews
    BY <2>1 DEF Reviews, ReviewStages
  <2>3. /\ rec.session = review[r].session /\ rec.pr = review[r].pr
        /\ rec.sees = review[r].sees /\ rec.severity = review[r].severity
        /\ rec.stage = "fix" /\ rec.found = review[r].found /\ rec.read = rows
    BY <2>1 DEF Reviews
  <2>4. review' = [review EXCEPT ![r] = rec]
    BY <1>3
  <2> HIDE DEF rec
  <2>5. /\ review' \in [Reviewers -> Reviews] /\ review'[r] = rec
        /\ \A q \in Reviewers \ {r} : review'[q] = review[q]
    BY <2>2, <2>4, ReviewFields
  <2>6. Keeps(r)
    BY <2>3, <2>5 DEF Keeps
  <2>7. UpToNow(r)'
    BY <1>1, <2>3, <2>5 DEF UpToNow
  <2>8. review[r].found <= Len(rows)
    BY <1>1, ReviewFields DEF OfReview
  <2> QED BY <1>1, <1>3, <2>3, <2>5, <2>6, <2>7, <2>8, ReviewFields, ReviewMoves
<1> QED BY <1>1, <1>2, <1>3 DEF ListPrior

\* What a review writes: the rows, and where it goes on.
LEMMA RowsWritten ==
  ASSUME RowsInv, NEW r \in Reviewers, Keeps(r), review[r].stage # "none",
         review'[r].stage \in {"list", "fix"},
         review'[r].stage = "fix" => ~review[r].sees,
         rows' \in Seq(Rows), Len(rows') >= Len(rows),
         \A i \in DOMAIN rows' :
           \/ i \in DOMAIN rows /\ rows'[i].session = rows[i].session
           \/ rows'[i].session = review[r].session /\ review[r].sees,
         Len(review'[r].read) <= Len(rows'), review'[r].found <= Len(review'[r].read),
         UNCHANGED reviews, quiet' = quiet \cap {r},
         UpToNow(r)'
  PROVE  RowsInv'
<1> USE DEF RowsInv
<1>1. /\ review' \in [Reviewers -> Reviews]
      /\ \A q \in Reviewers \ {r} : review'[q] = review[q]
  BY DEF Keeps
<1>2. OfReview(r)
  OBVIOUS
<1>3. RowsTypes'
  <2>1. \A i \in DOMAIN rows' : rows'[i].session <= reviews
    BY <1>2 DEF RowsTypes, OfReview
  <2> QED BY <1>1, <2>1 DEF RowsTypes
<1>4. \A q \in Reviewers : review'[q].session = review[q].session
  BY <1>1 DEF Keeps
<1>5. OwnSessions'
  BY <1>4 DEF OwnSessions
<1>6. ASSUME NEW q \in Reviewers PROVE OfReview(q)' /\ UpToNow(q)'
  <2>1. CASE q = r
    <3>1. ~review[r].sees => \A i \in DOMAIN rows' : rows'[i].session # review[r].session
      BY <1>2 DEF OfReview
    <3>2. OfReview(r)'
      BY <1>2, <3>1 DEF OfReview, Keeps
    <3> QED BY <2>1, <3>2
  <2>2. CASE q # r
    <3>1. review[r].session # 0 /\ review[r].session # review[q].session
      BY <1>2, <2>2 DEF OfReview, OwnSessions
    <3>2. \A i \in DOMAIN rows' : \/ i \in DOMAIN rows /\ rows'[i].session = rows[i].session
                                  \/ review[q].session # rows'[i].session
      BY <3>1
    <3>3. q \notin quiet' /\ review'[q] = review[q] /\ reviews' >= reviews
      BY <1>1, <2>2, ReviewFields
    <3> QED BY <1>3, <3>2, <3>3, OthersStay
  <2> QED BY <2>1, <2>2
<1> QED BY <1>3, <1>5, <1>6

LEMMA RowsStored == ASSUME RowsInv, NEW r \in Reviewers, Store(r) PROVE RowsInv'
<1> DEFINE me == review[r]
           old == me.read[me.found]
           Written(status) == [status |-> status, severity |-> me.severity,
                               session |-> me.session, tags |-> rows[me.found].tags \cup {me.pr}]
<1>1. /\ me.stage = "store" /\ quiet' = quiet \cap {r} /\ UNCHANGED reviews
      /\ Goes(r, "list")
  BY DEF Store, At, Disturbs
<1>2. /\ Keeps(r) /\ review'[r].stage = "list" /\ review'[r].found = 0
      /\ Len(review'[r].read) = 0
  BY <1>1, GoesOn DEF ReviewStages
<1>3. OfReview(r) /\ UpToNow(r) /\ me.sees /\ me.pr \in PullRequests
      /\ me.session # 0 /\ me.session \in 1..MaxReviews
  <2>1. OfReview(r) /\ UpToNow(r) /\ reviews \in 0..MaxReviews
    BY DEF RowsInv, RowsTypes
  <2> QED BY <1>1, <2>1, ReviewFields, LifecycleConstants DEF OfReview
<1>4. me.found # 0 => me.found \in DOMAIN me.read /\ me.found \in DOMAIN rows
  BY <1>3, ReviewFields DEF OfReview
<1>5. me.found # 0 => old \in Rows /\ old.status \in Statuses /\ rows[me.found] \in Rows
  <2>1. me.found # 0 => old \in Rows /\ rows[me.found] \in Rows
    BY <1>4, ReviewFields
  <2> QED BY <2>1 DEF Rows
<1>6. r \in quiet => me.read = rows /\ me.found = Len(rows)
  BY <1>1, <1>3 DEF UpToNow
<1>7. ASSUME rows' \in Seq(Rows), Len(rows') >= Len(rows), r \in quiet => OnRecord(r)',
             \A i \in DOMAIN rows' :
               \/ i \in DOMAIN rows /\ rows'[i].session = rows[i].session
               \/ rows'[i].session = review[r].session
      PROVE  RowsInv'
  <2>1. UpToNow(r)'
    BY <1>1, <1>2, <1>3, <1>7 DEF UpToNow, Keeps
  <2> QED BY <1>1, <1>2, <1>3, <1>7, <2>1, ReviewFields, RowsWritten
<1>8. CASE /\ me.found = 0
           /\ rows' = Append(rows, [status |-> "open", severity |-> me.severity,
                                    session |-> me.session, tags |-> {me.pr}])
  <2> DEFINE row == [status |-> "open", severity |-> me.severity,
                     session |-> me.session, tags |-> {me.pr}]
  <2>1. row \in Rows /\ row.status = "open" /\ row.session = me.session
    BY <1>3, ReviewFields DEF Rows, Statuses, Active
  <2> HIDE DEF row
  <2>2. rows' = Append(rows, row)
    BY <1>8 DEF row
  <2>3. /\ rows' \in Seq(Rows) /\ Len(rows') = Len(rows) + 1
        /\ rows'[Len(rows')] = row /\ Len(rows') \in DOMAIN rows'
        /\ \A i \in DOMAIN rows' :
             (i \in DOMAIN rows /\ rows'[i] = rows[i]) \/ rows'[i] = row
    BY <2>1, <2>2, ReviewFields
  <2>4. OnRecord(r)'
    BY <2>1, <2>3 DEF OnRecord, Active
  <2> QED BY <1>7, <2>1, <2>3, <2>4, ReviewFields
<1>9. CASE /\ me.found # 0 /\ old.status \in UserClosed
           /\ UNCHANGED rows
  <2>1. r \in quiet => OnRecord(r)'
    BY <1>4, <1>6, <1>9 DEF OnRecord
  <2> QED BY <1>7, <1>9, <2>1, ReviewFields
<1>10. ASSUME me.found # 0, NEW status \in Active,
              rows' = [rows EXCEPT ![me.found] = Written(status)]
       PROVE  RowsInv'
  <2> DEFINE row == Written(status)
  <2>1. row \in Rows /\ row.status \in Active /\ row.session = me.session
    <3>1. rows[me.found].tags \cup {me.pr} \in SUBSET PullRequests
      BY <1>3, <1>5, <1>10 DEF Rows
    <3> QED BY <1>3, <3>1, ReviewFields DEF Rows, Statuses
  <2> HIDE DEF row
  <2>2. rows' = [rows EXCEPT ![me.found] = row]
    BY <1>10 DEF row
  <2>3. /\ rows' \in Seq(Rows) /\ Len(rows') = Len(rows) /\ DOMAIN rows' = DOMAIN rows
        /\ rows'[me.found] = row
        /\ \A i \in DOMAIN rows : rows'[i] = rows[i] \/ rows'[i] = row
    BY <1>4, <1>10, <2>1, <2>2, ReviewFields
  <2>4. OnRecord(r)'
    BY <1>4, <1>10, <2>1, <2>3 DEF OnRecord
  <2> QED BY <1>7, <2>1, <2>3, <2>4, ReviewFields
<1> HIDE DEF Written
<1>11. CASE me.found # 0 /\ rows' = [rows EXCEPT ![me.found] = Written("reopened")]
  BY <1>10, <1>11 DEF Active
<1>12. CASE /\ me.found # 0 /\ old.status \notin UserClosed \cup {"fixed"}
            /\ rows' = [rows EXCEPT ![me.found] = Written(old.status)]
  BY <1>5, <1>10, <1>12 DEF Statuses
<1> QED BY <1>8, <1>9, <1>11, <1>12 DEF Store, Written

\* The row that is fixed next is one of those to fix.
LEMMA NextToFix ==
  ASSUME RowsInv, NEW r \in Reviewers, ToFix(r) # {}
  PROVE  (CHOOSE j \in ToFix(r) : \A k \in ToFix(r) : k <= j) \in ToFix(r)
<1>1. ToFix(r) \in SUBSET (1..Len(review[r].read))
  BY ReviewFields DEF ToFix
<1> DEFINE Down == {n \in Nat : \E k \in ToFix(r) : n = Len(review[r].read) - k}
<1>2. Down \in SUBSET Nat /\ Down # {}
  <2>1. PICK k \in ToFix(r) : TRUE
    OBVIOUS
  <2>2. Len(review[r].read) - k \in Nat
    BY <1>1, <2>1, ReviewFields
  <2> QED BY <2>1, <2>2
<1>3. PICK n \in Down : \A m \in Down : n <= m
  BY <1>2, LeastNumber
<1>4. PICK k \in ToFix(r) : n = Len(review[r].read) - k
  BY <1>3
<1>5. \A j \in ToFix(r) : Len(review[r].read) - j \in Down
  BY <1>1, ReviewFields
<1>6. ASSUME NEW j \in ToFix(r) PROVE j <= k
  <2>1. n <= Len(review[r].read) - j
    BY <1>3, <1>5
  <2>2. j \in Int /\ k \in Int
    BY <1>1
  <2> QED BY <1>4, <2>1, <2>2, ReviewFields
<1> QED BY <1>6

LEMMA RowsFixed == ASSUME RowsInv, NEW r \in Reviewers, FixNext(r) PROVE RowsInv'
<1>1. /\ review[r].stage = "fix" /\ UNCHANGED reviews
      /\ OfReview(r) /\ UpToNow(r) /\ ~review[r].sees
  BY DEF FixNext, At, RowsInv, OfReview
<1>2. CASE ToFix(r) = {}
  <2>1. UNCHANGED <<rows, quiet>> /\ Goes(r, "ended")
    BY <1>2 DEF FixNext
  <2>2. /\ Keeps(r) /\ review'[r].stage = "ended" /\ review'[r].found = 0
        /\ Len(review'[r].read) = 0
    BY <2>1, GoesOn DEF ReviewStages
  <2>3. ASSUME r \in quiet, NEW i \in DOMAIN rows, InScope(rows[i], review[r].pr)
        PROVE  rows[i].status \notin Active
    BY <1>1, <1>2, <2>3 DEF UpToNow, ToFix, Stale, OfReview
  <2>4. UpToNow(r)'
    BY <1>1, <2>1, <2>2, <2>3 DEF UpToNow, Keeps, InScope, Active
  <2> QED BY <1>1, <2>1, <2>2, <2>4, ReviewFields, ReviewMoves
<1>3. CASE ToFix(r) # {}
  <2> DEFINE j == CHOOSE j \in ToFix(r) : \A k \in ToFix(r) : k <= j
  <2>2. j \in ToFix(r)
    BY <1>3, NextToFix
  <2> HIDE DEF j
  <2>3. /\ j \in DOMAIN review[r].read /\ j \in DOMAIN rows
    BY <1>1, <2>2, ReviewFields DEF ToFix, OfReview
  <2>4. /\ rows' = [rows EXCEPT ![j].status = "fixed"]
        /\ review' = [review EXCEPT ![r].read = [@ EXCEPT ![j].status = "fixed"]]
        /\ quiet' = quiet \cap {r}
    BY <1>3 DEF FixNext, Disturbs, j
  <2> DEFINE row == [rows[j] EXCEPT !.status = "fixed"]
             readRow == [review[r].read[j] EXCEPT !.status = "fixed"]
             newRead == [review[r].read EXCEPT ![j] = readRow]
             rec == [review[r] EXCEPT !.read = newRead]
  <2>5. rows[j] \in Rows /\ review[r].read[j] \in Rows /\ review[r] \in Reviews
    BY <2>3, ReviewFields
  <2>6. row \in Rows /\ readRow \in Rows /\ row.session = rows[j].session
    BY <2>5 DEF Rows, Statuses
  <2>7. rows' = [rows EXCEPT ![j] = row] /\ review' = [review EXCEPT ![r] = rec]
    BY <2>4
  <2>8. r \in quiet => row = readRow
    BY <1>1 DEF UpToNow
  <2> HIDE DEF row, readRow
  <2>9. newRead \in Seq(Rows) /\ Len(newRead) = Len(review[r].read)
    BY <2>3, <2>6, ReviewFields
  <2>10. r \in quiet => newRead = rows'
    BY <1>1, <2>7, <2>8 DEF UpToNow
  <2> HIDE DEF newRead
  <2>11. /\ rec \in Reviews /\ rec.session = review[r].session /\ rec.pr = review[r].pr
         /\ rec.sees = review[r].sees /\ rec.severity = review[r].severity
         /\ rec.stage = "fix" /\ rec.found = review[r].found /\ rec.read = newRead
    BY <1>1, <2>5, <2>9 DEF Reviews
  <2> HIDE DEF rec
  <2>12. /\ review' \in [Reviewers -> Reviews] /\ review'[r] = rec
         /\ \A q \in Reviewers \ {r} : review'[q] = review[q]
    BY <2>7, <2>11, ReviewFields
  <2>13. Keeps(r)
    BY <2>11, <2>12 DEF Keeps
  <2>14. /\ rows' \in Seq(Rows) /\ Len(rows') = Len(rows) /\ DOMAIN rows' = DOMAIN rows
         /\ \A i \in DOMAIN rows : rows'[i].session = rows[i].session
    BY <2>3, <2>6, <2>7, ReviewFields
  <2>15. UpToNow(r)'
    BY <1>1, <2>4, <2>10, <2>11, <2>12 DEF UpToNow
  <2>16. Len(review'[r].read) <= Len(rows') /\ review'[r].found <= Len(review'[r].read)
    BY <1>1, <2>9, <2>11, <2>12, <2>14, ReviewFields DEF OfReview
  <2>17. /\ review[r].stage # "none" /\ review'[r].stage \in {"list", "fix"}
         /\ ~review[r].sees /\ Len(rows') >= Len(rows)
    BY <1>1, <2>11, <2>12, <2>14, ReviewFields
  <2>18. \A i \in DOMAIN rows' : i \in DOMAIN rows /\ rows'[i].session = rows[i].session
    BY <2>14
  <2> QED BY <1>1, <2>4, <2>13, <2>14, <2>15, <2>16, <2>17, <2>18, RowsWritten
<1> QED BY <1>2, <1>3

LEMMA RowsBegun == ASSUME RowsInv, NEW r \in Reviewers, BeginReview(r) PROVE RowsInv'
<1> USE DEF RowsInv
<1>1. PICK pr \in PullRequests, severity \in 1..2 :
        review' = [review EXCEPT ![r] =
          [NoReview EXCEPT !.stage = "judge", !.session = reviews + 1, !.pr = pr,
                           !.sees = pr \in bugIn, !.severity = severity]]
  <2>1. PICK pr \in PullRequests : \E severity \in IF pr \in bugIn THEN 1..2 ELSE {1} :
          review' = [review EXCEPT ![r] =
            [NoReview EXCEPT !.stage = "judge", !.session = reviews + 1, !.pr = pr,
                             !.sees = pr \in bugIn, !.severity = severity]]
    BY DEF BeginReview
  <2>2. (IF pr \in bugIn THEN 1..2 ELSE {1}) \subseteq 1..2
    OBVIOUS
  <2> QED BY <2>1, <2>2
<1>2. /\ reviews' = reviews + 1 /\ quiet' = quiet \cup {r} /\ UNCHANGED rows
      /\ reviews' \in 0..MaxReviews /\ reviews' \in Nat /\ reviews < reviews'
  BY ReviewFields, LifecycleConstants DEF BeginReview, RowsTypes
<1> DEFINE sees == pr \in bugIn
           rec == [NoReview EXCEPT !.stage = "judge", !.session = reviews + 1, !.pr = pr,
                                   !.sees = sees, !.severity = severity]
<1>10. review' = [review EXCEPT ![r] = rec] /\ sees \in BOOLEAN
  BY <1>1
<1> HIDE DEF sees
<1>3. /\ rec \in Reviews /\ rec.stage = "judge" /\ rec.session = reviews + 1 /\ rec.pr = pr
      /\ rec.read = <<>> /\ rec.found = 0
  <2>1. NoReview \in Reviews /\ NoReview.read = <<>> /\ NoReview.found = 0
    BY DEF NoReview, Reviews, ReviewStages
  <2>2. /\ rec \in Reviews /\ rec.read = NoReview.read /\ rec.found = NoReview.found
        /\ rec.stage = "judge" /\ rec.session = reviews + 1 /\ rec.pr = pr
    BY <1>2, <1>10, <2>1 DEF Reviews, ReviewStages
  <2> QED BY <2>1, <2>2
<1>4. review' = [review EXCEPT ![r] = rec]
  BY <1>10
<1> HIDE DEF rec
<1>5. /\ review' \in [Reviewers -> Reviews] /\ review'[r] = rec
      /\ \A q \in Reviewers \ {r} : review'[q] = review[q]
  BY <1>3, <1>4, ReviewFields
<1>6. RowsTypes'
  <2>1. \A i \in DOMAIN rows : rows[i].session \in Nat /\ rows[i].session <= reviews
    <3>1. \A i \in DOMAIN rows : rows[i] \in Rows
      BY DEF RowsTypes
    <3> QED BY <3>1, LifecycleConstants DEF Rows, RowsTypes
  <2>2. \A i \in DOMAIN rows : rows[i].session <= reviews'
    BY <1>2, <2>1, ReviewFields
  <2> QED BY <1>2, <1>5, <2>2 DEF RowsTypes
<1>7. \A q \in Reviewers : review[q].session \in Nat /\ review[q].session <= reviews
  BY ReviewFields DEF OfReview
<1>8. OwnSessions'
  BY <1>2, <1>3, <1>5, <1>7, ReviewFields DEF OwnSessions
<1>9. ASSUME NEW q \in Reviewers PROVE OfReview(q)' /\ UpToNow(q)'
  <2>1. CASE q = r
    <3>1. \A i \in DOMAIN rows : rows[i].session # reviews + 1
      <4>1. \A i \in DOMAIN rows : rows[i] \in Rows /\ rows[i].session <= reviews
        BY DEF RowsTypes
      <4>2. \A i \in DOMAIN rows : rows[i].session \in Nat
        BY <4>1, LifecycleConstants DEF Rows
      <4> QED BY <4>1, <4>2, ReviewFields
    <3>2. OfReview(r)'
      BY <1>2, <1>3, <1>5, <3>1, ReviewFields DEF OfReview
    <3>3. UpToNow(r)'
      BY <1>3, <1>5 DEF UpToNow
    <3> QED BY <2>1, <3>2, <3>3
  <2>2. CASE q # r
    <3>1. review'[q] = review[q] /\ (q \in quiet' => q \in quiet)
      BY <1>2, <1>5, <2>2
    <3> QED BY <1>2, <1>6, <3>1, OthersStay, ReviewFields
  <2> QED BY <2>1, <2>2
<1> QED BY <1>6, <1>8, <1>9

\* A user or a thread changes the status of a row.
LEMMA RowsRuled ==
  ASSUME RowsInv, NEW i \in DOMAIN rows, NEW status \in Statuses, SetStatus(i, status)
  PROVE  RowsInv'
<1> USE DEF RowsInv
<1>1. /\ UNCHANGED <<review, reviews>> /\ quiet' = {}
      /\ rows' = [rows EXCEPT ![i].status = status]
  BY LifecycleConstants DEF SetStatus, Disturbs, RowsTypes
<1> DEFINE row == [rows[i] EXCEPT !.status = status]
<1>2. rows \in Seq(Rows) /\ rows[i] \in Rows
  BY DEF RowsTypes
<1>3. row \in Rows /\ row.session = rows[i].session
  BY <1>2 DEF Rows
<1>4. rows' = [rows EXCEPT ![i] = row]
  BY <1>1
<1> HIDE DEF row
<1>5. /\ rows' \in Seq(Rows) /\ Len(rows') = Len(rows) /\ DOMAIN rows' = DOMAIN rows
      /\ \A k \in DOMAIN rows : rows'[k].session = rows[k].session
  BY <1>2, <1>3, <1>4
<1>6. RowsTypes'
  BY <1>1, <1>5 DEF RowsTypes
<1>7. OwnSessions'
  BY <1>1 DEF OwnSessions
<1>8. ASSUME NEW q \in Reviewers PROVE OfReview(q)' /\ UpToNow(q)'
  <2>1. review'[q] = review[q] /\ reviews' >= reviews /\ Len(rows') >= Len(rows) /\ q \notin quiet'
    BY <1>1, <1>5, ReviewFields
  <2> QED BY <1>5, <1>6, <2>1, OthersStay
<1> QED BY <1>6, <1>7, <1>8

LEMMA RowsStay ==
  ASSUME RowsInv, UNCHANGED <<rows, review, quiet, reviews>>
  PROVE  RowsInv'
BY DEF RowsInv, RowsTypes, OwnSessions, OfReview, UpToNow, OnRecord, InScope, Active

\* The other types of the module.
Counted == /\ bugIn \subseteq PullRequests
           /\ verdicts \in 0..MaxVerdicts /\ pushes \in 0..MaxPushes

LEMMA CountedStep == Counted /\ [FindingNext]_findingVars => Counted'
<1> SUFFICES ASSUME Counted, [FindingNext]_findingVars PROVE Counted'
  OBVIOUS
<1>1. CASE UNCHANGED <<bugIn, verdicts, pushes>>
  BY <1>1 DEF Counted
<1>2. ASSUME NEW pr \in PullRequests, Push(pr) PROVE Counted'
  BY <1>2, LifecycleConstants DEF Push, Counted
<1>3. ASSUME NEW i, NEW status, SetStatus(i, status) PROVE Counted'
  BY <1>3, LifecycleConstants DEF SetStatus, Counted
<1> QED BY <1>1, <1>2, <1>3 DEF FindingNext, findingVars, BeginReview, JudgeBug, LookUp, Store,
           ListPrior, FixNext, ResolveThreadOf, UnresolveThreadOf

LEMMA RowsStep == RowsInv /\ [FindingNext]_findingVars => RowsInv'
<1> SUFFICES ASSUME RowsInv, [FindingNext]_findingVars PROVE RowsInv'
  OBVIOUS
<1>1. CASE \E pr \in PullRequests : Push(pr)
  BY <1>1, RowsStay DEF Push
<1>2. CASE UNCHANGED findingVars
  BY <1>2, RowsStay DEF findingVars
<1>3. ASSUME NEW i \in DOMAIN rows, ResolveThreadOf(i) \/ UnresolveThreadOf(i)
      PROVE  RowsInv'
  BY <1>3, RowsRuled DEF ResolveThreadOf, UnresolveThreadOf, Statuses, Active
<1> QED BY <1>1, <1>2, <1>3, RowsBegun, RowsJudged, RowsLookedUp, RowsStored, RowsListed,
           RowsFixed, RowsRuled DEF FindingNext

LEMMA RowsFollow == RowsInv /\ Counted => FindingTypeOK /\ RowsFollowReviews
<1> SUFFICES ASSUME RowsInv, Counted PROVE FindingTypeOK /\ RowsFollowReviews
  OBVIOUS
<1>1. ASSUME NEW r \in Reviewers
      PROVE  /\ review[r].stage \in ReviewStages /\ review[r].session \in 0..reviews
             /\ review[r].found \in 0..Len(rows) /\ review[r].read \in Seq(Rows)
  <2>1. OfReview(r)
    BY DEF RowsInv
  <2> QED BY <2>1, ReviewFields DEF OfReview
<1>2. FindingTypeOK
  BY <1>1 DEF FindingTypeOK, RowsInv, RowsTypes, Counted, ReviewStages
<1>3. RowsFollowReviews
  BY DEF RowsInv, UpToNow, OnRecord, RowsFollowReviews, StaleCloses, BugOnRecord, Misses,
         Sees, Undisturbed, At
<1> QED BY <1>2, <1>3

\* When a review has ended and nobody else has changed a row since it began, the rows agree
\* with what it saw (reconcileFindingsOnRereview, upsertFindingAcrossSessions).
THEOREM RowsAgree == FindingSpec => [](FindingTypeOK /\ RowsFollowReviews)
<1>1. FindingInit => Counted
  BY LifecycleConstants DEF FindingInit, Counted
<1> QED BY <1>1, RowsStart, RowsStep, CountedStep, RowsFollow, PTL DEF FindingSpec

\* What a review stores takes no verdict back, but for those it has not read, and doubles no
\* row it has read.
LEMMA FairStore ==
  ASSUME RowsInv, NEW r \in Reviewers, Store(r) PROVE VerdictsKept /\ DuplicatesOnlyInRaces
<1> DEFINE me == review[r]
           old == me.read[me.found]
<1>1. /\ me.stage = "store" /\ OfReview(r) /\ UpToNow(r) /\ Goes(r, "list")
  BY DEF Store, At, RowsInv
<1>2. review'[r].stage = "list" /\ review'[r] # review[r] /\ At(r, "store") /\ ~At(r, "store")'
  BY <1>1, GoesOn DEF ReviewStages, At
<1>3. DOMAIN rows = 1..Len(rows)
  BY ReviewFields
<1>4. me.found # 0 => me.found \in DOMAIN rows /\ me.found \in DOMAIN me.read
  BY <1>1, ReviewFields DEF OfReview
<1>5. CASE UNCHANGED rows
  BY <1>3, <1>5, ReviewFields DEF VerdictsKept, DuplicatesOnlyInRaces
<1>6. ASSUME NEW row, rows' = Append(rows, row), me.found = 0
      PROVE  VerdictsKept /\ DuplicatesOnlyInRaces
  <2>1. \A i \in DOMAIN rows : rows'[i] = rows[i]
    BY <1>3, <1>6, ReviewFields
  <2>2. r \in quiet => Len(rows) = 0
    BY <1>1, <1>6 DEF UpToNow
  <2>3. r \in quiet => rows = <<>>
    BY <2>2, ReviewFields
  <2> QED BY <1>2, <2>1, <2>3 DEF VerdictsKept, DuplicatesOnlyInRaces
<1>7. ASSUME NEW row, me.found # 0, rows' = [rows EXCEPT ![me.found] = row],
             row.severity = me.severity,
             old.status \in UserClosed => me.severity > old.severity
      PROVE  VerdictsKept /\ DuplicatesOnlyInRaces
  <2>1. Len(rows') = Len(rows)
    BY <1>3, <1>4, <1>7, ReviewFields
  <2>2. ASSUME NEW i \in DOMAIN rows, rows[i].status \in UserClosed,
               rows'[i].status \notin UserClosed
        PROVE  \/ rows'[i].severity > rows[i].severity
               \/ \E q \in Reviewers : /\ At(q, "store") \/ At(q, "fix")
                                       /\ review'[q] # review[q]
                                       /\ \/ review[q].read[i].status \notin UserClosed
                                          \/ review[q].read[i].severity < rows[i].severity
    <3>1. i = me.found /\ rows'[i].severity = me.severity
      BY <1>4, <1>7, <2>2, ReviewFields
    <3>2. old \in Rows /\ rows[i] \in Rows
      BY <1>4, <1>7, ReviewFields
    <3>3. old.severity \in 1..2 /\ rows[i].severity \in 1..2
      BY <3>2 DEF Rows
    <3>4. \/ me.severity > rows[i].severity \/ old.status \notin UserClosed
          \/ old.severity < rows[i].severity
      BY <1>7, <3>3, ReviewFields
    <3> QED BY <1>2, <3>1, <3>4
  <2> QED BY <2>1, <2>2, ReviewFields DEF VerdictsKept, DuplicatesOnlyInRaces
<1> DEFINE Written(status) == [status |-> status, severity |-> me.severity,
                               session |-> me.session, tags |-> rows[me.found].tags \cup {me.pr}]
<1>8. \A status : Written(status).severity = me.severity
  OBVIOUS
<1>9. CASE /\ me.found # 0
           /\ \/ old.status \in UserClosed /\ Rose(me.severity, old.severity)
              \/ old.status = "fixed"
           /\ rows' = [rows EXCEPT ![me.found] = Written("reopened")]
  <2>1. old.status \in UserClosed => me.severity > old.severity
    BY <1>9 DEF UserClosed, Rose
  <2> HIDE DEF Written
  <2> QED BY <1>7, <1>8, <1>9, <2>1
<1>10. CASE /\ me.found # 0 /\ old.status \notin UserClosed \cup {"fixed"}
            /\ rows' = [rows EXCEPT ![me.found] = Written(old.status)]
  <2> HIDE DEF Written
  <2> QED BY <1>7, <1>8, <1>10
<1> QED BY <1>5, <1>6, <1>9, <1>10 DEF Store

LEMMA FairStep == RowsInv /\ Counted /\ [FindingNext]_findingVars =>
                    VerdictsKept /\ DuplicatesOnlyInRaces
<1> SUFFICES ASSUME RowsInv, Counted, [FindingNext]_findingVars
             PROVE  VerdictsKept /\ DuplicatesOnlyInRaces
  OBVIOUS
<1>1. rows \in Seq(Rows) /\ DOMAIN rows = 1..Len(rows) /\ Len(rows) \in Nat
  BY DEF RowsInv, RowsTypes
<1>2. CASE UNCHANGED rows
  BY <1>1, <1>2 DEF VerdictsKept, DuplicatesOnlyInRaces
<1>3. ASSUME NEW i \in DOMAIN rows, NEW status, SetStatus(i, status)
      PROVE  VerdictsKept /\ DuplicatesOnlyInRaces
  <2>1. verdicts' # verdicts
    BY <1>3, LifecycleConstants DEF SetStatus, Counted
  <2>2. Len(rows') = Len(rows)
    BY <1>1, <1>3 DEF SetStatus
  <2> QED BY <1>1, <2>1, <2>2 DEF VerdictsKept, DuplicatesOnlyInRaces
<1>4. ASSUME NEW r \in Reviewers, FixNext(r), ToFix(r) # {}
      PROVE  VerdictsKept /\ DuplicatesOnlyInRaces
  <2> DEFINE j == CHOOSE j \in ToFix(r) : \A k \in ToFix(r) : k <= j
  <2>1. /\ rows' = [rows EXCEPT ![j].status = "fixed"] /\ At(r, "fix")
        /\ review' = [review EXCEPT ![r].read = [@ EXCEPT ![j].status = "fixed"]]
    BY <1>4 DEF FixNext
  <2>2. j \in ToFix(r)
    BY <1>4, NextToFix
  <2> HIDE DEF j
  <2>3. j \in DOMAIN review[r].read /\ review[r].read[j].status \in Active
    BY <2>2 DEF ToFix, Stale
  <2>4. review'[r] # review[r]
    <3>1. review[r] \in Reviews /\ review[r].read[j] \in Rows
      BY <2>3, ReviewFields
    <3>2. review'[r].read[j].status = "fixed"
      BY <2>1, <2>3, <3>1, ReviewFields DEF Reviews, Rows
    <3> QED BY <2>3, <3>2 DEF Active
  <2>5. ASSUME NEW i \in DOMAIN rows, rows'[i].status # rows[i].status
        PROVE  i = j
    BY <1>1, <2>1, <2>5
  <2>6. \A i \in DOMAIN rows : rows'[i].status # rows[i].status =>
          \E q \in Reviewers : /\ At(q, "store") \/ At(q, "fix")
                               /\ review'[q] # review[q]
                               /\ review[q].read[i].status \notin UserClosed
    BY <2>1, <2>3, <2>4, <2>5 DEF Active, UserClosed
  <2>7. Len(rows') = Len(rows)
    BY <1>1, <2>1
  <2> QED BY <1>1, <2>6, <2>7 DEF VerdictsKept, DuplicatesOnlyInRaces
<1>5. ASSUME NEW r \in Reviewers, FixNext(r) PROVE VerdictsKept /\ DuplicatesOnlyInRaces
  <2>1. CASE ToFix(r) = {}
    BY <1>2, <1>5, <2>1 DEF FixNext
  <2> QED BY <1>4, <1>5, <2>1
<1> QED BY <1>2, <1>3, <1>5, FairStore DEF FindingNext, findingVars, BeginReview, JudgeBug, LookUp,
           ListPrior, ResolveThreadOf, UnresolveThreadOf, Push

\* No step of a review, whatever others do to the rows in between, adds a row that is not
\* needed or takes back a verdict that the review has read (upsertFindingAcrossSessions).
THEOREM WritesStayFair == FindingSpec => WritesAreFair
<1>1. FindingInit => Counted
  BY LifecycleConstants DEF FindingInit, Counted
<1> QED BY <1>1, RowsStart, RowsStep, CountedStep, FairStep, PTL DEF FindingSpec, WritesAreFair

(***************************************************************************)
(* The senior verifier's verdicts.                                         *)
(***************************************************************************)
\* The verdicts of an answered batch are those its answer gives, and no other candidate
\* has one.
VerdictsGiven(b) ==
  \A i \in 0..(BatchLen(b) - 1) : verdict[Original(b, i)] = PeelVerdicts(replies[b], BatchLen(b))[i]

Asked(B, c) == \E b \in B : \E i \in 0..(BatchLen(b) - 1) : Original(b, i) = c

VerdictInv ==
  /\ VerifierTypeOK
  /\ \A b \in DOMAIN replies : VerdictsGiven(b)
  /\ \A c \in Indices : verdict[c] # "none" => Asked(DOMAIN replies, c)
  /\ ended => DOMAIN replies = Batches /\ kept = Surviving

(***************************************************************************)
(* Ranks.  Rank counts a finite set of numbers from 0 in order.            *)
(***************************************************************************)
LEMMA RankGrows ==
  ASSUME NEW S, IsFiniteSet(S), S \subseteq Int, NEW x \in S, NEW y \in S, x < y
  PROVE  Rank(S, x) < Rank(S, y)
<1> DEFINE T == {z \in S : z < x}
           U == {z \in S : z < y}
<1>1. x \in Int /\ y \in Int /\ \A z \in S : z \in Int
  OBVIOUS
<1>2. T \subseteq U /\ x \in U /\ x \notin T
  <2>1. \A z \in S : z < x => z < y
    BY <1>1
  <2>2. ~(x < x)
    BY <1>1
  <2> QED BY <2>1, <2>2
<1>3. IsFiniteSet(U) /\ IsFiniteSet(T)
  BY FS_Subset
<1>4. Cardinality(T) <= Cardinality(U) /\ Cardinality(T) # Cardinality(U)
  BY <1>2, <1>3, FS_Subset
<1>5. Cardinality(T) \in Nat /\ Cardinality(U) \in Nat
  BY <1>3, FS_CardinalityType
<1>6. Rank(S, x) = Cardinality(T) /\ Rank(S, y) = Cardinality(U)
  BY DEF Rank
<1> HIDE DEF T, U
<1> QED BY <1>4, <1>5, <1>6

LEMMA RankDiffers ==
  ASSUME NEW S, IsFiniteSet(S), S \subseteq Int, NEW x \in S, NEW y \in S,
         Rank(S, x) = Rank(S, y)
  PROVE  x = y
<1>1. Rank(S, x) \in Nat /\ Rank(S, y) \in Nat
  <2>1. IsFiniteSet({z \in S : z < x}) /\ IsFiniteSet({z \in S : z < y})
    BY FS_Subset
  <2> QED BY <2>1, FS_CardinalityType DEF Rank
<1>2. x \in Int /\ y \in Int
  OBVIOUS
<1>3. ~(x < y)
  <2> SUFFICES ASSUME x < y PROVE FALSE
    OBVIOUS
  <2>1. Rank(S, x) < Rank(S, y)
    BY RankGrows
  <2> QED BY <1>1, <2>1
<1>4. ~(y < x)
  <2> SUFFICES ASSUME y < x PROVE FALSE
    OBVIOUS
  <2>1. Rank(S, y) < Rank(S, x)
    BY RankGrows
  <2> QED BY <1>1, <2>1
<1> QED BY <1>2, <1>3, <1>4

\* All ranks below the size are taken, so one element has all others below it.
LEMMA LargestExists ==
  ASSUME NEW S, IsFiniteSet(S), S \subseteq Int, S # {}
  PROVE  \E x \in S : \A y \in S : y <= x
<1> DEFINE n == Cardinality(S)
           f == [x \in S |-> Rank(S, x)]
<1>1. n \in Nat /\ n # 0
  BY FS_CardinalityType, FS_EmptySet
<1>2. \A x \in S : Rank(S, x) \in 0..(n - 1)
  <2> TAKE x \in S
  <2> DEFINE T == {z \in S : z < x}
  <2>1. IsFiniteSet(T) /\ Cardinality(T) <= n
    BY FS_Subset
  <2>2. x \in S /\ x \notin T
    OBVIOUS
  <2>3. Cardinality(T) # n
    BY <2>2, FS_Subset
  <2>4. Cardinality(T) \in Nat
    BY <2>1, FS_CardinalityType
  <2>5. Rank(S, x) = Cardinality(T)
    BY DEF Rank
  <2> HIDE DEF T, n
  <2> QED BY <1>1, <2>1, <2>3, <2>4, <2>5
<1>3. f \in Injection(S, 0..(n - 1))
  BY <1>2, RankDiffers DEF Injection, IsInjective
<1>4. IsFiniteSet(0..(n - 1)) /\ Cardinality(0..(n - 1)) = n
  <2> HIDE DEF n
  <2>1. 0 \in Int /\ n - 1 \in Int /\ (0 > n - 1 => n = 0) /\ n - 1 - 0 + 1 = n
    BY <1>1
  <2> QED BY <1>1, <2>1, FS_Interval
<1>5. f \in Surjection(S, 0..(n - 1))
  BY <1>3, <1>4, FS_Injection
<1>6. n - 1 \in 0..(n - 1)
  <2> HIDE DEF n
  <2> QED BY <1>1
<1>7. PICK x \in S : Rank(S, x) = n - 1
  BY <1>5, <1>6 DEF Surjection
<1>8. \A y \in S : y <= x
  <2> SUFFICES ASSUME NEW y \in S, x < y PROVE FALSE
    OBVIOUS
  <2>1. Rank(S, x) < Rank(S, y) /\ Rank(S, y) \in 0..(n - 1)
    BY <1>2, RankGrows
  <2> HIDE DEF n
  <2> QED BY <1>1, <1>7, <2>1
<1> QED BY <1>8

(***************************************************************************)
(* What is asked about.                                                    *)
(***************************************************************************)
LEMMA Asking ==
  ASSUME VerifierTypeOK
  PROVE  /\ Stride \in {1, 5}
         /\ NumAsked \in Nat
         /\ \A k \in 0..(NumAsked - 1) : k * Stride \in Indices
<1>1. NumCandidates \in Nat
  BY SeniorVerifierConstants
<1>2. Stride = 1 \/ Stride = 5
  BY DEF Stride
<1>3. CASE bar = "off"
  BY <1>2, <1>3 DEF NumAsked
<1>4. CASE bar # "off"
  <2>1. NumAsked = (NumCandidates + Stride - 1) \div Stride
    BY <1>4 DEF NumAsked
  <2>2. CASE Stride = 1
    BY <1>1, <2>1, <2>2 DEF Indices
  <2>3. CASE Stride = 5
    <3>1. NumAsked = (NumCandidates + 4) \div 5
      BY <1>1, <2>1, <2>3
    <3> QED BY <1>1, <2>3, <3>1 DEF Indices
  <2> QED BY <1>2, <2>2, <2>3
<1> QED BY <1>3, <1>4

LEMMA Products ==
  ASSUME NEW b \in Nat, NEW d \in Nat
  PROVE  /\ b * BatchSize \in Nat
         /\ (b + 1) * BatchSize = b * BatchSize + BatchSize
         /\ b < d => (b + 1) * BatchSize <= d * BatchSize
<1>1. BatchSize \in Nat /\ BatchSize > 0
  BY SeniorVerifierConstants
<1>2. b * BatchSize \in Nat /\ (b + 1) * BatchSize = b * BatchSize + BatchSize
  BY <1>1
<1>3. ASSUME b < d PROVE (b + 1) * BatchSize <= d * BatchSize
  <2> DEFINE e == d - (b + 1)
  <2>1. e \in Nat /\ d = (b + 1) + e
    BY <1>3
  <2> HIDE DEF e
  <2>2. d * BatchSize = (b + 1) * BatchSize + e * BatchSize
    BY <1>1, <2>1
  <2>3. e * BatchSize \in Nat /\ (b + 1) * BatchSize \in Nat
    BY <1>1, <2>1
  <2> QED BY <2>2, <2>3
<1> QED BY <1>2, <1>3

LEMMA BatchFits ==
  ASSUME VerifierTypeOK, NEW b \in Batches
  PROVE  /\ b \in Nat
         /\ BatchLen(b) \in 1..BatchSize
         /\ \A i \in 0..(BatchLen(b) - 1) : b * BatchSize + i \in 0..(NumAsked - 1)
<1>1. NumAsked \in Nat /\ BatchSize \in Nat \ {0}
  BY Asking, SeniorVerifierConstants
<1>2. b \in Nat /\ b * BatchSize < NumAsked
  BY <1>1 DEF Batches
<1>3. b * BatchSize \in Nat /\ (b + 1) * BatchSize = b * BatchSize + BatchSize
  BY <1>2, Products
<1> DEFINE m == b * BatchSize
<1>4. /\ m \in Nat /\ m < NumAsked
      /\ BatchLen(b) = IF NumAsked < m + BatchSize THEN NumAsked - m ELSE BatchSize
  BY <1>2, <1>3 DEF BatchLen
<1> HIDE DEF m
<1>5. BatchLen(b) \in 1..BatchSize /\ BatchLen(b) <= NumAsked - m
  BY <1>1, <1>4
<1>6. \A i \in 0..(BatchLen(b) - 1) : m + i \in 0..(NumAsked - 1)
  BY <1>1, <1>4, <1>5
<1> QED BY <1>2, <1>5, <1>6 DEF m

LEMMA OriginalIn ==
  ASSUME VerifierTypeOK, NEW b \in Batches, NEW i \in 0..(BatchLen(b) - 1)
  PROVE  Original(b, i) \in Indices
BY Asking, BatchFits DEF Original

\* No candidate is in two batches, or twice in one.
LEMMA OriginalsDiffer ==
  ASSUME VerifierTypeOK, NEW b \in Batches, NEW d \in Batches,
         NEW i \in 0..(BatchLen(b) - 1), NEW j \in 0..(BatchLen(d) - 1),
         Original(b, i) = Original(d, j)
  PROVE  b = d /\ i = j
<1> DEFINE m == b * BatchSize
           n == d * BatchSize
<1>1. b \in Nat /\ d \in Nat /\ BatchSize \in Nat
  BY BatchFits, SeniorVerifierConstants
<1>2. /\ BatchLen(b) \in 1..BatchSize /\ BatchLen(d) \in 1..BatchSize
      /\ i \in Nat /\ j \in Nat /\ i < BatchSize /\ j < BatchSize
  <2>1. BatchLen(b) \in 1..BatchSize /\ BatchLen(d) \in 1..BatchSize
    BY BatchFits
  <2> QED BY <1>1, <2>1
<1>3. m \in Nat /\ n \in Nat
  BY <1>1, Products
<1>4. (m + i) * Stride = (n + j) * Stride
  BY DEF Original
<1>5. b < d => m + BatchSize <= n
  BY <1>1, Products
<1>6. d < b => n + BatchSize <= m
  BY <1>1, Products
<1>7. b = d => m = n
  OBVIOUS
<1> HIDE DEF m, n
<1>8. m + i = n + j
  <2>1. Stride = 1 \/ Stride = 5
    BY Asking
  <2>2. CASE Stride = 1
    BY <1>2, <1>3, <1>4, <2>2
  <2>3. CASE Stride = 5
    BY <1>2, <1>3, <1>4, <2>3
  <2> QED BY <2>1, <2>2, <2>3
<1>9. ~(b < d) /\ ~(d < b)
  BY <1>1, <1>2, <1>3, <1>5, <1>6, <1>8
<1>10. b = d
  BY <1>1, <1>9
<1> QED BY <1>2, <1>3, <1>7, <1>8, <1>10

(***************************************************************************)
(* Reading an answer.                                                      *)
(***************************************************************************)
\* The row that gives a candidate its verdict: the last that names it, or the one that
\* fills its slot.
Judges(list, n, k, i) ==
  \/ k \in Indexed(list, i) /\ \A l \in Indexed(list, i) : l <= k
  \/ /\ Indexed(list, i) = {} /\ k \in Indexed(list, NoIndex)
     /\ Rank(Indexed(list, NoIndex), k) = Rank(OpenSlots(list, n), i)

LEMMA ListRows ==
  ASSUME NEW list \in RowLists
  PROVE  /\ DOMAIN list \subseteq Int /\ IsFiniteSet(DOMAIN list)
         /\ \A k \in DOMAIN list : list[k].index \in Int /\ list[k].verdict \in Verdicts
<1>1. PICK m \in 0..MaxRows : list \in [1..m -> VerdictRows]
  BY DEF RowLists
<1>2. MaxRows \in Nat /\ BatchSize \in Nat
  BY SeniorVerifierConstants
<1>3. IsFiniteSet(1..m)
  <2>1. m \in Int /\ 1 \in Int
    BY <1>2
  <2> QED BY <2>1, FS_Interval
<1>4. \A r \in VerdictRows : r.index \in Int /\ r.verdict \in Verdicts
  BY <1>2 DEF VerdictRows, NoIndex
<1>5. DOMAIN list = 1..m /\ 1..m \subseteq Int
  BY <1>1, <1>2
<1> QED BY <1>1, <1>3, <1>4, <1>5

LEMMA IndexedRows ==
  ASSUME NEW list \in RowLists, NEW index
  PROVE  Indexed(list, index) \subseteq Int /\ IsFiniteSet(Indexed(list, index))
<1>1. Indexed(list, index) \subseteq DOMAIN list
  BY DEF Indexed
<1> QED BY <1>1, ListRows, FS_Subset

LEMMA OneJudge ==
  ASSUME NEW list \in RowLists, NEW n \in Nat, NEW k,
         NEW i \in 0..(n - 1), NEW j \in 0..(n - 1), Judges(list, n, k, i), Judges(list, n, k, j)
  PROVE  i = j
<1>1. i \in Int /\ j \in Int /\ i # NoIndex /\ j # NoIndex
  BY DEF NoIndex
<1>2. CASE k \in Indexed(list, NoIndex)
  <2>1. k \notin Indexed(list, i) /\ k \notin Indexed(list, j)
    BY <1>1, <1>2 DEF Indexed
  <2>2. i \in OpenSlots(list, n) /\ j \in OpenSlots(list, n)
    BY <2>1 DEF Judges, OpenSlots
  <2>3. Rank(OpenSlots(list, n), i) = Rank(OpenSlots(list, n), j)
    BY <2>1 DEF Judges
  <2>4. OpenSlots(list, n) \subseteq Int /\ IsFiniteSet(OpenSlots(list, n))
    <3>1. 0 \in Int /\ n - 1 \in Int
      OBVIOUS
    <3>2. IsFiniteSet(0..(n - 1)) /\ 0..(n - 1) \subseteq Int
      BY <3>1, FS_Interval
    <3>3. OpenSlots(list, n) \subseteq 0..(n - 1)
      BY DEF OpenSlots
    <3> QED BY <3>2, <3>3, FS_Subset
  <2> QED BY <2>2, <2>3, <2>4, RankDiffers
<1>3. CASE k \notin Indexed(list, NoIndex)
  BY <1>3 DEF Judges, Indexed
<1> QED BY <1>2, <1>3

LEMMA RowGives ==
  ASSUME NEW list \in RowLists, NEW n \in Nat, NEW i \in 0..(n - 1)
  PROVE  \/ PeelRows(list, n)[i] = "keep"
         \/ \E k \in DOMAIN list :
              PeelRows(list, n)[i] = list[k].verdict /\ Judges(list, n, k, i)
<1>1. CASE Indexed(list, i) # {}
  <2> DEFINE k == CHOOSE k \in Indexed(list, i) : \A l \in Indexed(list, i) : l <= k
  <2>1. \E x \in Indexed(list, i) : \A l \in Indexed(list, i) : l <= x
    BY <1>1, IndexedRows, LargestExists
  <2>2. k \in Indexed(list, i) /\ \A l \in Indexed(list, i) : l <= k
    BY <2>1
  <2>3. PeelRows(list, n)[i] = list[k].verdict
    BY <1>1 DEF PeelRows, LastOf
  <2> HIDE DEF k
  <2>4. k \in DOMAIN list
    BY <2>2 DEF Indexed
  <2> QED BY <2>2, <2>3, <2>4 DEF Judges
<1>2. CASE Indexed(list, i) = {} /\ Fillers(list, n, i) # {}
  <2> DEFINE k == CHOOSE k \in Fillers(list, n, i) : TRUE
  <2>1. k \in Fillers(list, n, i)
    BY <1>2
  <2>2. PeelRows(list, n)[i] = list[k].verdict
    BY <1>2 DEF PeelRows
  <2> HIDE DEF k
  <2>3. k \in Indexed(list, NoIndex) /\ Rank(Indexed(list, NoIndex), k) = Rank(OpenSlots(list, n), i)
    BY <2>1 DEF Fillers
  <2>4. k \in DOMAIN list
    BY <2>3 DEF Indexed
  <2> QED BY <1>2, <2>2, <2>3, <2>4 DEF Judges
<1>3. CASE Indexed(list, i) = {} /\ Fillers(list, n, i) = {}
  BY <1>3 DEF PeelRows
<1> QED BY <1>1, <1>2, <1>3

\* The last row that names a candidate gives its verdict.
LEMMA NamedRowGives ==
  ASSUME NEW list \in RowLists, NEW n \in Nat, NEW i \in 0..(n - 1), NEW k \in Indexed(list, i),
         \A l \in Indexed(list, i) : l <= k
  PROVE  PeelRows(list, n)[i] = list[k].verdict
<1> DEFINE x == CHOOSE x \in Indexed(list, i) : \A l \in Indexed(list, i) : l <= x
<1>1. x \in Indexed(list, i) /\ \A l \in Indexed(list, i) : l <= x
  OBVIOUS
<1>2. PeelRows(list, n)[i] = list[x].verdict
  BY DEF PeelRows, LastOf
<1> HIDE DEF x
<1>3. x = k
  <2>1. x <= k /\ k <= x
    BY <1>1
  <2>2. x \in Int /\ k \in Int
    BY <1>1, IndexedRows
  <2> QED BY <2>1, <2>2
<1> QED BY <1>2, <1>3

LEMMA PeelType ==
  ASSUME NEW answer \in Answers, NEW n \in Nat \ {0}
  PROVE  /\ DOMAIN PeelVerdicts(answer, n) = 0..(n - 1)
         /\ \A i \in 0..(n - 1) : PeelVerdicts(answer, n)[i] \in Verdicts
<1>1. CASE answer.kind = "list"
  <2>1. answer.rows \in RowLists
    BY <1>1 DEF Answers
  <2>2. PeelVerdicts(answer, n) = PeelRows(answer.rows, n)
    BY <1>1 DEF PeelVerdicts
  <2>3. \A i \in 0..(n - 1) : PeelRows(answer.rows, n)[i] \in Verdicts
    BY <2>1, RowGives, ListRows DEF Verdicts
  <2> QED BY <2>2, <2>3 DEF PeelRows
<1>2. CASE answer.kind = "one" /\ n = 1
  <2>1. answer.verdict \in Verdicts
    BY <1>2 DEF Answers
  <2>2. PeelVerdicts(answer, n) = [i \in {0} |-> answer.verdict]
    BY <1>2 DEF PeelVerdicts
  <2>3. 0..(n - 1) = {0}
    BY <1>2
  <2> QED BY <2>1, <2>2, <2>3
<1>3. CASE answer.kind # "list" /\ ~(answer.kind = "one" /\ n = 1)
  BY <1>3 DEF PeelVerdicts, Verdicts
<1> QED BY <1>1, <1>2, <1>3

(***************************************************************************)
(* An answer drops no more candidates than its rows say.                   *)
(***************************************************************************)
RowsIn(answer) == IF answer.kind = "list" THEN answer.rows ELSE <<>>
DropRows(answer) == {k \in DOMAIN RowsIn(answer) : RowsIn(answer)[k].verdict = "drop"}
Dropped(answer, n) == {i \in 0..(n - 1) : PeelVerdicts(answer, n)[i] = "drop"}
DropsAlone(answer, n) == answer.kind = "one" /\ n = 1 /\ answer.verdict = "drop"

LEMMA DroppedOfList ==
  ASSUME NEW answer \in Answers, NEW n \in Nat \ {0}, answer.kind = "list"
  PROVE  Cardinality(Dropped(answer, n)) <= Cardinality(DropRows(answer))
<1> DEFINE D == Dropped(answer, n)
           R == DropRows(answer)
           f == [i \in D |-> CHOOSE k \in R : Judges(answer.rows, n, k, i)]
<1>1. answer.rows \in RowLists /\ RowsIn(answer) = answer.rows
  BY DEF Answers, RowsIn
<1>2. IsFiniteSet(R)
  <2>1. R \subseteq DOMAIN answer.rows
    BY <1>1 DEF DropRows
  <2> QED BY <1>1, <2>1, ListRows, FS_Subset
<1>3. \A i \in D : \E k \in R : Judges(answer.rows, n, k, i)
  <2> TAKE i \in D
  <2>1. i \in 0..(n - 1) /\ PeelRows(answer.rows, n)[i] = "drop"
    BY DEF Dropped, PeelVerdicts
  <2>2. PICK k \in DOMAIN answer.rows :
          answer.rows[k].verdict = "drop" /\ Judges(answer.rows, n, k, i)
    BY <1>1, <2>1, RowGives
  <2> QED BY <1>1, <2>2 DEF DropRows
<1>4. \A i \in D : f[i] \in R /\ Judges(answer.rows, n, f[i], i)
  BY <1>3
<1>5. f \in [D -> R]
  BY <1>4
<1>6. D \subseteq 0..(n - 1)
  BY DEF Dropped
<1> HIDE DEF f, D, R
<1>7. \A i \in D, j \in D : f[i] = f[j] => i = j
  <2> SUFFICES ASSUME NEW i \in D, NEW j \in D, f[i] = f[j] PROVE i = j
    OBVIOUS
  <2> DEFINE k == f[i]
  <2>1. Judges(answer.rows, n, k, i) /\ Judges(answer.rows, n, k, j)
    BY <1>4
  <2> HIDE DEF k
  <2>2. i \in 0..(n - 1) /\ j \in 0..(n - 1) /\ n \in Nat
    BY <1>6
  <2> QED BY <1>1, <2>1, <2>2, OneJudge
<1>8. f \in Injection(D, R)
  BY <1>5, <1>7 DEF Injection, IsInjective
<1>9. Cardinality(D) <= Cardinality(R)
  BY <1>2, <1>8, FS_Injection
<1> QED BY <1>9 DEF D, R

LEMMA DropRowsFinite ==
  ASSUME NEW answer \in Answers
  PROVE  IsFiniteSet(DropRows(answer))
<1>1. CASE answer.kind = "list"
  <2>1. answer.rows \in RowLists /\ RowsIn(answer) = answer.rows
    BY <1>1 DEF Answers, RowsIn
  <2>2. DropRows(answer) \subseteq DOMAIN answer.rows
    BY <2>1 DEF DropRows
  <2> QED BY <2>1, <2>2, ListRows, FS_Subset
<1>2. CASE answer.kind # "list"
  <2>1. DropRows(answer) = {}
    BY <1>2 DEF DropRows, RowsIn
  <2> QED BY <2>1, FS_EmptySet
<1> QED BY <1>1, <1>2

LEMMA DropsBounded ==
  ASSUME NEW answer \in Answers, NEW n \in Nat \ {0}
  PROVE  /\ IsFiniteSet(Dropped(answer, n))
         /\ Cardinality(Dropped(answer, n))
              <= Cardinality(DropRows(answer)) + IF DropsAlone(answer, n) THEN 1 ELSE 0
<1> DEFINE D == Dropped(answer, n)
<1>1. IsFiniteSet(D)
  <2>1. 0 \in Int /\ n - 1 \in Int /\ D \subseteq 0..(n - 1)
    BY DEF Dropped
  <2> QED BY <2>1, FS_Interval, FS_Subset
<1>2. Cardinality(DropRows(answer)) \in Nat
  BY DropRowsFinite, FS_CardinalityType
<1>3. Cardinality(D) \in Nat
  BY <1>1, FS_CardinalityType
<1>4. CASE answer.kind = "list"
  <2>1. Cardinality(D) <= Cardinality(DropRows(answer))
    BY <1>4, DroppedOfList
  <2>2. ~DropsAlone(answer, n)
    BY <1>4 DEF DropsAlone
  <2> HIDE DEF D
  <2> QED BY <1>1, <1>2, <1>3, <2>1, <2>2 DEF D
<1>5. CASE DropsAlone(answer, n)
  <2>1. D \subseteq {0}
    BY <1>5 DEF DropsAlone, Dropped
  <2>2. Cardinality(D) <= 1
    <3> HIDE DEF D
    <3>1. IsFiniteSet({0}) /\ Cardinality({0}) = 1
      BY FS_Singleton
    <3>2. Cardinality(D) <= Cardinality({0})
      BY <2>1, <3>1, FS_Subset
    <3> QED BY <3>1, <3>2
  <2> HIDE DEF D
  <2>3. Cardinality(D) <= Cardinality(DropRows(answer)) + 1
    BY <1>2, <1>3, <2>2
  <2> QED BY <1>1, <1>5, <2>3 DEF D
<1>6. CASE answer.kind # "list" /\ ~DropsAlone(answer, n)
  <2>1. D = {}
    <3>1. CASE answer.kind = "one" /\ n = 1
      <4>1. answer.verdict # "drop"
        BY <1>6, <3>1 DEF DropsAlone
      <4>2. PeelVerdicts(answer, n) = [i \in {0} |-> answer.verdict]
        BY <3>1 DEF PeelVerdicts
      <4> QED BY <3>1, <4>1, <4>2 DEF Dropped
    <3>2. CASE ~(answer.kind = "one" /\ n = 1)
      <4>1. PeelVerdicts(answer, n) = [i \in 0..(n - 1) |-> "keep"]
        BY <1>6, <3>2 DEF PeelVerdicts
      <4> QED BY <4>1 DEF Dropped
    <3> QED BY <3>1, <3>2
  <2>2. Cardinality(D) = 0
    BY <2>1, FS_EmptySet
  <2>3. Cardinality(D) <= Cardinality(DropRows(answer)) + 0
    BY <1>2, <2>2
  <2> QED BY <1>1, <1>6, <2>3
<1> QED BY <1>4, <1>5, <1>6

(***************************************************************************)
(* The steps.                                                              *)
(***************************************************************************)
LEMMA VerdictStart == VerifierInit => VerdictInv
<1> SUFFICES ASSUME VerifierInit PROVE VerdictInv
  OBVIOUS
<1>1. replies = <<>> /\ DOMAIN replies = {} /\ ~ended
  BY DEF VerifierInit
<1>2. \A b \in Batches : BatchLen(b) \in 1..BatchSize
  <2> SUFFICES ASSUME NEW b \in Batches PROVE BatchLen(b) \in 1..BatchSize
    OBVIOUS
  <2>1. NumCandidates \in Nat /\ BatchSize \in Nat \ {0}
    BY SeniorVerifierConstants
  <2>2. NumAsked \in Nat
    BY <2>1 DEF VerifierInit, NumAsked, Stride
  <2>3. b \in Nat /\ b * BatchSize < NumAsked
    BY <2>2 DEF Batches
  <2>4. b * BatchSize \in Nat /\ (b + 1) * BatchSize = b * BatchSize + BatchSize
    BY <2>3, Products
  <2> DEFINE m == b * BatchSize
  <2>5. /\ m \in Nat /\ m < NumAsked
        /\ BatchLen(b) = IF NumAsked < m + BatchSize THEN NumAsked - m ELSE BatchSize
    BY <2>3, <2>4 DEF BatchLen
  <2> HIDE DEF m
  <2> QED BY <2>1, <2>2, <2>5
<1>3. VerifierTypeOK
  BY <1>1, <1>2 DEF VerifierInit, VerifierTypeOK
<1> QED BY <1>1, <1>3 DEF VerifierInit, VerdictInv

LEMMA VerdictArrives ==
  ASSUME VerdictInv, NEW b \in Batches, VerifyBatch(b)
  PROVE  VerdictInv'
<1> USE DEF VerdictInv
<1>1. b \notin DOMAIN replies /\ UNCHANGED <<bar, ended, kept>>
  BY DEF VerifyBatch
<1>2. PICK answer \in Answers :
        LET peeled == PeelVerdicts(answer, BatchLen(b)) IN
         /\ replies' = [x \in DOMAIN replies \cup {b} |-> IF x = b THEN answer ELSE replies[x]]
         /\ verdict' = [c \in Indices |->
              LET mine == {i \in DOMAIN peeled : Original(b, i) = c}
              IN IF mine = {} THEN verdict[c] ELSE peeled[CHOOSE i \in mine : TRUE]]
  BY DEF VerifyBatch
<1> DEFINE n == BatchLen(b)
           peeled == PeelVerdicts(answer, n)
<1>3. n \in Nat \ {0}
  <2>1. BatchLen(b) \in 1..BatchSize /\ BatchSize \in Nat
    BY BatchFits, SeniorVerifierConstants
  <2> QED BY <2>1
<1> HIDE DEF n
<1>4. DOMAIN peeled = 0..(n - 1) /\ \A i \in 0..(n - 1) : peeled[i] \in Verdicts
  BY <1>3, PeelType
<1>5. \A i \in 0..(n - 1) : Original(b, i) \in Indices
  BY OriginalIn DEF n
<1>6. \A i \in 0..(n - 1), j \in 0..(n - 1) : Original(b, i) = Original(b, j) => i = j
  BY OriginalsDiffer DEF n
<1> HIDE DEF peeled
<1>7. verdict' = [c \in Indices |->
              LET mine == {i \in DOMAIN peeled : Original(b, i) = c}
              IN IF mine = {} THEN verdict[c] ELSE peeled[CHOOSE i \in mine : TRUE]]
  BY <1>2 DEF peeled, n
<1>8. \A i \in 0..(n - 1) : verdict'[Original(b, i)] = peeled[i]
  <2> TAKE i \in 0..(n - 1)
  <2> DEFINE c == Original(b, i)
             mine == {j \in DOMAIN peeled : Original(b, j) = c}
  <2>1. mine = {i}
    BY <1>4, <1>6
  <2>2. (CHOOSE j \in mine : TRUE) = i
    BY <2>1
  <2>3. c \in Indices
    BY <1>5
  <2> QED BY <1>7, <2>1, <2>2, <2>3
<1>9. \A c \in Indices : (\A i \in 0..(n - 1) : Original(b, i) # c) => verdict'[c] = verdict[c]
  BY <1>4, <1>7
<1>10. verdict' \in [Indices -> Verdicts \cup {"none"}]
  <2>1. \A c \in Indices : verdict'[c] \in Verdicts \cup {"none"}
    <3> TAKE c \in Indices
    <3>1. CASE \E i \in 0..(n - 1) : Original(b, i) = c
      BY <1>4, <1>8, <3>1
    <3>2. CASE \A i \in 0..(n - 1) : Original(b, i) # c
      BY <1>9, <3>2 DEF VerifierTypeOK
    <3> QED BY <3>1, <3>2
  <2> QED BY <1>7, <2>1
<1>11. /\ DOMAIN replies' = DOMAIN replies \cup {b} /\ replies'[b] = answer
       /\ \A d \in DOMAIN replies : replies'[d] = replies[d]
  BY <1>1, <1>2
<1>12. Batches' = Batches /\ DOMAIN replies \subseteq Batches
  BY <1>1 DEF Batches, NumAsked, Stride, VerifierTypeOK
<1>13. /\ \A d : BatchLen(d)' = BatchLen(d)
       /\ \A d, i : Original(d, i)' = Original(d, i)
  BY <1>1 DEF BatchLen, NumAsked, Original, Stride
<1>14. VerifierTypeOK'
  BY <1>1, <1>10, <1>11, <1>12, <1>13 DEF VerifierTypeOK
<1>15. \A d \in DOMAIN replies' : VerdictsGiven(d)'
  <2> SUFFICES ASSUME NEW d \in DOMAIN replies', NEW i \in 0..(BatchLen(d) - 1)
      PROVE verdict'[Original(d, i)] = PeelVerdicts(replies'[d], BatchLen(d))[i]
    BY <1>13 DEF VerdictsGiven
  <2>1. CASE d = b
    BY <1>8, <1>11, <2>1 DEF n, peeled
  <2>2. CASE d # b
    <3>1. d \in DOMAIN replies /\ d \in Batches
      BY <1>11, <1>12, <2>2
    <3>2. verdict[Original(d, i)] = PeelVerdicts(replies[d], BatchLen(d))[i]
      BY <3>1 DEF VerdictsGiven
    <3>3. \A j \in 0..(n - 1) : Original(b, j) # Original(d, i)
      BY <2>2, <3>1, OriginalsDiffer DEF n
    <3>4. Original(d, i) \in Indices
      BY <3>1, OriginalIn
    <3> QED BY <1>9, <1>11, <3>1, <3>2, <3>3, <3>4
  <2> QED BY <2>1, <2>2
<1>16. \A c \in Indices : (verdict[c] # "none" => Asked(DOMAIN replies, c))'
  <2> SUFFICES ASSUME NEW c \in Indices, verdict'[c] # "none"
      PROVE \E d \in DOMAIN replies' : \E i \in 0..(BatchLen(d) - 1) : Original(d, i) = c
    BY <1>13 DEF Asked
  <2>1. CASE \E i \in 0..(n - 1) : Original(b, i) = c
    BY <1>11, <2>1 DEF n
  <2>2. CASE \A i \in 0..(n - 1) : Original(b, i) # c
    <3>1. verdict[c] # "none"
      BY <1>9, <2>2
    <3> QED BY <1>11, <3>1 DEF Asked
  <2> QED BY <2>1, <2>2
<1>17. ended' => DOMAIN replies' = Batches' /\ kept' = Surviving'
  BY <1>1, <1>11, <1>12
<1> QED BY <1>14, <1>15, <1>16, <1>17

LEMMA VerifyEnds ==
  ASSUME VerdictInv, EndVerify
  PROVE  VerdictInv'
<1> USE DEF VerdictInv
<1>1. /\ DOMAIN replies = Batches /\ ended' = TRUE /\ kept' = Surviving
      /\ UNCHANGED <<bar, replies, verdict>>
  BY DEF EndVerify
<1>2. Batches' = Batches /\ \A d : BatchLen(d)' = BatchLen(d)
  BY <1>1 DEF Batches, BatchLen, NumAsked, Stride
<1>3. \A d, i : Original(d, i)' = Original(d, i)
  BY <1>1 DEF Original, Stride
<1>4. Surviving' = Surviving /\ Surviving \subseteq Indices
  BY <1>1 DEF Surviving
<1>5. VerifierTypeOK'
  BY <1>1, <1>2, <1>4 DEF VerifierTypeOK
<1>6. \A b \in DOMAIN replies' : VerdictsGiven(b)'
  BY <1>1, <1>2, <1>3 DEF VerdictsGiven
<1>7. \A c \in Indices : (verdict[c] # "none" => Asked(DOMAIN replies, c))'
  BY <1>1, <1>2, <1>3 DEF Asked
<1>8. (ended => DOMAIN replies = Batches /\ kept = Surviving)'
  BY <1>1, <1>2, <1>4
<1> QED BY <1>5, <1>6, <1>7, <1>8

LEMMA VerdictStutter ==
  ASSUME VerdictInv, UNCHANGED verifierVars
  PROVE  VerdictInv'
<1>1. UNCHANGED <<bar, replies, verdict, ended, kept>>
  BY DEF verifierVars
<1>2. Batches' = Batches /\ \A d : BatchLen(d)' = BatchLen(d)
  BY <1>1 DEF Batches, BatchLen, NumAsked, Stride
<1>3. \A d, i : Original(d, i)' = Original(d, i)
  BY <1>1 DEF Original, Stride
<1>4. VerifierTypeOK'
  BY <1>1, <1>2 DEF VerdictInv, VerifierTypeOK
<1>5. \A b \in DOMAIN replies' : VerdictsGiven(b)'
  BY <1>1, <1>2, <1>3 DEF VerdictInv, VerdictsGiven
<1>6. \A c \in Indices : (verdict[c] # "none" => Asked(DOMAIN replies, c))'
  BY <1>1, <1>2, <1>3 DEF VerdictInv, Asked
<1>7. (ended => DOMAIN replies = Batches /\ kept = Surviving)'
  BY <1>1, <1>2 DEF VerdictInv, Surviving
<1> QED BY <1>4, <1>5, <1>6, <1>7 DEF VerdictInv

LEMMA VerdictStep ==
  ASSUME VerdictInv, VerifierNext
  PROVE  VerdictInv'
BY VerdictArrives, VerifyEnds DEF VerifierNext

(***************************************************************************)
(* What the invariant says of the rows and of the candidates dropped.      *)
(***************************************************************************)
LEMMA NamedRowsFollow == VerdictInv => NamedRowsCount
<1> SUFFICES ASSUME VerdictInv, NEW b \in DOMAIN replies, NEW k \in DOMAIN RowsOf(b),
                    RowsOf(b)[k].index \in 0..(BatchLen(b) - 1),
                    \A l \in DOMAIN RowsOf(b) : l > k => RowsOf(b)[l].index # RowsOf(b)[k].index
    PROVE  verdict[Original(b, RowsOf(b)[k].index)] = RowsOf(b)[k].verdict
  BY DEF NamedRowsCount
<1> DEFINE list == replies[b].rows
           n == BatchLen(b)
           i == RowsOf(b)[k].index
<1>1. VerifierTypeOK /\ b \in Batches /\ replies[b] \in Answers
  BY DEF VerdictInv, VerifierTypeOK
<1>2. replies[b].kind = "list" /\ RowsOf(b) = list
  BY DEF RowsOf
<1>3. list \in RowLists
  BY <1>1, <1>2 DEF Answers
<1>4. n \in Nat
  <2>1. BatchLen(b) \in 1..BatchSize /\ BatchSize \in Nat
    BY <1>1, BatchFits, SeniorVerifierConstants
  <2> QED BY <2>1
<1>5. k \in Indexed(list, i)
  BY <1>2 DEF Indexed
<1>6. \A l \in Indexed(list, i) : l <= k
  <2> SUFFICES ASSUME NEW l \in Indexed(list, i) PROVE l <= k
    OBVIOUS
  <2>1. l \in DOMAIN RowsOf(b) /\ RowsOf(b)[l].index = RowsOf(b)[k].index
    BY <1>2 DEF Indexed
  <2>2. ~(l > k)
    BY <2>1
  <2>3. l \in Int /\ k \in Int
    BY <1>2, <1>3, <2>1, ListRows
  <2> QED BY <2>2, <2>3
<1>7. verdict[Original(b, i)] = PeelVerdicts(replies[b], n)[i]
  BY DEF VerdictInv, VerdictsGiven
<1>8. PeelVerdicts(replies[b], n) = PeelRows(list, n)
  BY <1>2 DEF PeelVerdicts
<1>9. i \in 0..(n - 1)
  OBVIOUS
<1>10. RowsOf(b)[k].verdict = list[k].verdict
  BY <1>2
<1> HIDE DEF list, n, i
<1>11. PeelRows(list, n)[i] = list[k].verdict
  BY <1>3, <1>4, <1>5, <1>6, <1>9, NamedRowGives
<1>12. verdict[Original(b, i)] = RowsOf(b)[k].verdict
  BY <1>7, <1>8, <1>10, <1>11
<1> QED BY <1>12 DEF i

LEMMA DropsFollow == VerdictInv => DropsWereAsked
<1> SUFFICES ASSUME VerdictInv, ended PROVE DropsWereAsked
  BY DEF DropsWereAsked
<1>1. VerifierTypeOK /\ DOMAIN replies = Batches /\ kept = Surviving
  BY DEF VerdictInv
<1>2. ASSUME NEW b \in Batches
      PROVE  LET mine == {Original(b, i) : i \in 0..(BatchLen(b) - 1)}
                 drops == {k \in DOMAIN RowsOf(b) : RowsOf(b)[k].verdict = "drop"}
                 one == replies[b].kind = "one" /\ BatchLen(b) = 1 /\ replies[b].verdict = "drop"
             IN Cardinality(mine \ kept) <= Cardinality(drops) + IF one THEN 1 ELSE 0
  <2> DEFINE n == BatchLen(b)
             mine == {Original(b, i) : i \in 0..(n - 1)}
             D == Dropped(replies[b], n)
             f == [i \in D |-> Original(b, i)]
  <2>1. replies[b] \in Answers
    BY <1>1 DEF VerifierTypeOK
  <2>2. n \in Nat \ {0}
    <3>1. BatchLen(b) \in 1..BatchSize /\ BatchSize \in Nat
      BY <1>1, BatchFits, SeniorVerifierConstants
    <3> QED BY <3>1
  <2>3. \A i \in 0..(n - 1) :
          /\ Original(b, i) \in Indices
          /\ verdict[Original(b, i)] = PeelVerdicts(replies[b], n)[i]
    BY <1>1, OriginalIn DEF VerdictInv, VerdictsGiven
  <2>4. f \in Surjection(D, mine \ kept)
    <3>1. \A i \in D : Original(b, i) \in mine \ kept
      BY <1>1, <2>3 DEF Dropped, Surviving
    <3>2. \A c \in mine \ kept : \E i \in D : f[i] = c
      <4> TAKE c \in mine \ kept
      <4>1. PICK i \in 0..(n - 1) : Original(b, i) = c
        OBVIOUS
      <4>2. verdict[c] = "drop"
        BY <1>1, <2>3, <4>1 DEF Surviving
      <4>3. i \in D
        BY <2>3, <4>1, <4>2 DEF Dropped
      <4> QED BY <4>1, <4>3
    <3> HIDE DEF mine, D
    <3> QED BY <3>1, <3>2 DEF Surjection
  <2>5. IsFiniteSet(D)
    BY <2>1, <2>2, DropsBounded
  <2>6. Cardinality(mine \ kept) <= Cardinality(D) /\ IsFiniteSet(mine \ kept)
    BY <2>4, <2>5, FS_Surjection
  <2>7. Cardinality(D) <= Cardinality(DropRows(replies[b])) + IF DropsAlone(replies[b], n) THEN 1 ELSE 0
    BY <2>1, <2>2, DropsBounded
  <2>8. /\ DropRows(replies[b]) = {k \in DOMAIN RowsOf(b) : RowsOf(b)[k].verdict = "drop"}
        /\ DropsAlone(replies[b], n) <=>
             replies[b].kind = "one" /\ BatchLen(b) = 1 /\ replies[b].verdict = "drop"
    BY DEF DropRows, DropsAlone, RowsIn, RowsOf
  <2>9. /\ Cardinality(mine \ kept) \in Nat /\ Cardinality(D) \in Nat
        /\ Cardinality(DropRows(replies[b])) \in Nat
    BY <2>1, <2>5, <2>6, DropRowsFinite, FS_CardinalityType
  <2>10. Cardinality(mine \ kept)
           <= Cardinality(DropRows(replies[b])) + IF DropsAlone(replies[b], n) THEN 1 ELSE 0
    <3> HIDE DEF mine, D, n
    <3> QED BY <2>6, <2>7, <2>9
  <2> QED BY <2>8, <2>10
<1>3. ASSUME NEW c \in Indices \ kept
      PROVE  \E b \in Batches, i \in 0..(BatchSize - 1) : i < BatchLen(b) /\ Original(b, i) = c
  <2>1. verdict[c] # "none"
    BY <1>1 DEF Surviving
  <2>2. PICK b \in Batches : \E i \in 0..(BatchLen(b) - 1) : Original(b, i) = c
    BY <1>1, <2>1 DEF VerdictInv, Asked
  <2>3. PICK i \in 0..(BatchLen(b) - 1) : Original(b, i) = c
    BY <2>2
  <2>4. BatchLen(b) \in 1..BatchSize /\ BatchSize \in Nat
    BY <1>1, BatchFits, SeniorVerifierConstants
  <2>5. i \in 0..(BatchSize - 1) /\ i < BatchLen(b)
    BY <2>4
  <2> QED BY <2>3, <2>5
<1> QED BY <1>2, <1>3 DEF DropsWereAsked

\* A row that names a candidate of its batch is the verdict of that candidate and of no
\* other, and no more candidates are dropped than the answers say, for every number of
\* candidates, every batch size and every answer.
THEOREM VerdictsAreGiven == VerifierSpec => []VerdictsLand
<1>1. VerdictInv /\ [VerifierNext]_verifierVars => VerdictInv'
  BY VerdictStep, VerdictStutter
<1>2. VerdictInv => VerdictsLand
  BY NamedRowsFollow, DropsFollow DEF VerdictsLand
<1> QED BY VerdictStart, <1>1, <1>2, PTL DEF VerifierSpec

(***************************************************************************)
(* The noise stack.  A list is a function on places of the candidates.     *)
(***************************************************************************)
Listed(cs) == DOMAIN cs \subseteq 1..NumJudged /\ cs \in [DOMAIN cs -> Candidates]
EachOnce(cs) == \A i, j \in DOMAIN cs : cs[i].bug = cs[j].bug => i = j
\* There is a severe one of the bug of c, as sure as c.
Severe(cs, c) == \E i \in DOMAIN cs :
  cs[i].bug = c.bug /\ cs[i].severity = High /\ cs[i].confidence = c.confidence

\* Each is as sure as a candidate of its bug, and no more severe.
Owes(cs, i, k) ==
  /\ candidates[k].bug = cs[i].bug /\ candidates[k].confidence = cs[i].confidence
  /\ cs[i].severity <= candidates[k].severity
Vouched(cs) == \A i \in DOMAIN cs : \E k \in DOMAIN candidates : Owes(cs, i, k)

\* The place n takes over from k.
TakesOver(cs, bug, n, k) ==
  n \in DOMAIN cs /\ cs[n].bug = bug /\ (k = 0 \/ Stronger(cs[n], cs[k]))

LEMMA KeptOnwards ==
  ASSUME NEW cs, NEW bug
  PROVE  /\ Kept(cs, bug) \in [Nat -> Nat] /\ Kept(cs, bug)[0] = 0
         /\ \A n \in Nat \ {0} : Kept(cs, bug)[n] =
              IF TakesOver(cs, bug, n, Kept(cs, bug)[n - 1]) THEN n ELSE Kept(cs, bug)[n - 1]
<1> DEFINE F == [n \in Nat |-> [k \in Nat |-> IF TakesOver(cs, bug, n, k) THEN n ELSE k]]
           Is(V) == V = [n \in Nat |-> IF n = 0 THEN 0 ELSE IF TakesOver(cs, bug, n, V[n - 1]) THEN n ELSE V[n - 1]]
<1>1. F \in [Nat -> [Nat -> Nat]] /\ 0 \in Nat
  OBVIOUS
<1> HIDE DEF F, Is
<1>2. PICK g : Unrolls(Nat, 0, F, g)
  BY <1>1, RecursionExists
<1>3. \A n \in Nat \ {0} : g[n] = IF TakesOver(cs, bug, n, g[n - 1]) THEN n ELSE g[n - 1]
  <2> TAKE n \in Nat \ {0}
  <2>1. n - 1 \in Nat /\ g[n - 1] \in Nat
    BY <1>2 DEF Unrolls
  <2> QED BY <1>2, <2>1 DEF F, Unrolls
<1>4. Is(g)
  BY <1>2, <1>3 DEF Is, Unrolls
<1>5. Is(Kept(cs, bug))
  BY <1>4 DEF Is, Kept, TakesOver
<1>6. \A V : Is(V) => /\ V[0] = 0
                      /\ \A n \in Nat \ {0} : V[n] = IF TakesOver(cs, bug, n, V[n - 1]) THEN n ELSE V[n - 1]
  BY DEF Is
<1> DEFINE K == Kept(cs, bug)
<1>7. K[0] = 0 /\ \A n \in Nat \ {0} : K[n] = IF TakesOver(cs, bug, n, K[n - 1]) THEN n ELSE K[n - 1]
  BY <1>5, <1>6
<1>8. K = [n \in Nat |-> K[n]]
  BY <1>5 DEF Is
<1> HIDE DEF K
<1>9. \A n \in Nat : K[n] \in Nat
  <2>1. SUFFICES ASSUME {n \in Nat : K[n] \notin Nat} # {} PROVE FALSE
    OBVIOUS
  <2>2. PICK n \in {m \in Nat : K[m] \notin Nat} : \A m \in {k \in Nat : K[k] \notin Nat} : n <= m
    BY <2>1, LeastNumber
  <2>3. n # 0
    BY <1>7, <2>2
  <2>4. n \in Nat \ {0} /\ n - 1 \in Nat /\ ~(n <= n - 1)
    BY <2>2, <2>3
  <2>5. K[n - 1] \in Nat
    BY <2>2, <2>4
  <2> QED BY <1>7, <2>2, <2>4, <2>5
<1>10. K \in [Nat -> Nat]
  BY <1>8, <1>9
<1> QED BY <1>7, <1>10 DEF K

\* What is kept of a bug is a place of it, once there has been one.
LEMMA KeptIsOne ==
  ASSUME NEW cs, NEW bug, NEW n \in Nat
  PROVE  LET k == Kept(cs, bug)[n] IN
         \/ k = 0 /\ \A i \in 1..n : ~(i \in DOMAIN cs /\ cs[i].bug = bug)
         \/ k \in DOMAIN cs /\ cs[k].bug = bug
<1> DEFINE K == Kept(cs, bug)
           Right(m) == \/ K[m] = 0 /\ \A i \in 1..m : ~(i \in DOMAIN cs /\ cs[i].bug = bug)
                       \/ K[m] \in DOMAIN cs /\ cs[K[m]].bug = bug
<1>1. /\ K \in [Nat -> Nat] /\ K[0] = 0
      /\ \A m \in Nat \ {0} : K[m] = IF TakesOver(cs, bug, m, K[m - 1]) THEN m ELSE K[m - 1]
  BY KeptOnwards
<1> HIDE DEF K
<1>2. SUFFICES ASSUME {m \in Nat : ~Right(m)} # {} PROVE FALSE
  <2> HIDE DEF Right
  <2>1. Right(n)
    BY <1>2
  <2> QED BY <2>1 DEF K, Right
<1>3. PICK m \in {i \in Nat : ~Right(i)} : \A j \in {i \in Nat : ~Right(i)} : m <= j
  <2> HIDE DEF Right
  <2> QED BY <1>2, LeastNumber
<1>4. m # 0
  BY <1>1, <1>3
<1>5. m \in Nat \ {0} /\ m - 1 \in Nat /\ ~(m <= m - 1)
  BY <1>3, <1>4
<1>6. Right(m - 1)
  <2> HIDE DEF Right
  <2> QED BY <1>3, <1>5
<1>7. CASE TakesOver(cs, bug, m, K[m - 1])
  BY <1>1, <1>3, <1>5, <1>7 DEF TakesOver
<1>8. CASE ~TakesOver(cs, bug, m, K[m - 1])
  <2>1. K[m] = K[m - 1]
    BY <1>1, <1>5, <1>8
  <2>2. CASE K[m - 1] = 0
    <3>1. ~(m \in DOMAIN cs /\ cs[m].bug = bug)
      BY <1>8, <2>2 DEF TakesOver
    <3>2. ASSUME NEW i \in 1..m, ~(K[m - 1] \in DOMAIN cs /\ cs[K[m - 1]].bug = bug)
          PROVE  ~(i \in DOMAIN cs /\ cs[i].bug = bug)
      <4>1. i = m \/ i \in 1..(m - 1)
        BY <1>5
      <4> QED BY <1>6, <3>1, <3>2, <4>1
    <3> QED BY <1>3, <1>6, <2>1, <2>2, <3>2
  <2>3. CASE K[m - 1] # 0
    BY <1>3, <1>6, <2>1, <2>3
  <2> QED BY <2>2, <2>3
<1> QED BY <1>7, <1>8

LEMMA CandidateFields ==
  ASSUME NEW cs, Listed(cs)
  PROVE  \A i \in DOMAIN cs : /\ i \in 1..NumJudged /\ i \in Nat /\ cs[i] \in Candidates
                              /\ cs[i].bug \in Bugs /\ cs[i].style \in BOOLEAN
                              /\ cs[i].severity \in Severities /\ cs[i].severity \in Nat
                              /\ cs[i].severity <= High
                              /\ cs[i].confidence \in 0..1 /\ cs[i].confidence \in Nat
<1> TAKE i \in DOMAIN cs
<1>1. i \in 1..NumJudged /\ cs[i] \in Candidates
  BY DEF Listed
<1>2. i \in Nat
  BY <1>1, NoiseConstants
<1> QED BY <1>1, <1>2 DEF Candidates, Severities, Nit, Low, High

\* What is as severe as can be and as sure as any is kept, or its like is.
LEMMA StrongestKept ==
  ASSUME NEW cs, Listed(cs), NEW i \in DOMAIN cs, cs[i].severity = High,
         \A j \in DOMAIN cs : cs[j].bug = cs[i].bug => cs[j].confidence <= cs[i].confidence,
         NEW n \in Nat, i <= n
  PROVE  LET k == Kept(cs, cs[i].bug)[n] IN
         /\ k \in DOMAIN cs /\ cs[k].bug = cs[i].bug
         /\ cs[k].severity = High /\ cs[k].confidence = cs[i].confidence
<1> DEFINE bug == cs[i].bug
           K == Kept(cs, bug)
           Strong(m) == /\ K[m] \in DOMAIN cs /\ cs[K[m]].bug = bug
                        /\ cs[K[m]].severity = High /\ cs[K[m]].confidence = cs[i].confidence
<1>1. /\ K \in [Nat -> Nat]
      /\ \A m \in Nat \ {0} : K[m] = IF TakesOver(cs, bug, m, K[m - 1]) THEN m ELSE K[m - 1]
  BY KeptOnwards
<1>2. \A m \in Nat : \/ K[m] = 0
                     \/ K[m] \in DOMAIN cs /\ cs[K[m]].bug = bug
  BY KeptIsOne
<1> HIDE DEF K
<1>3. SUFFICES ASSUME {m \in Nat : i <= m /\ ~Strong(m)} # {} PROVE FALSE
  <2> HIDE DEF Strong
  <2>1. Strong(n)
    BY <1>3
  <2> QED BY <2>1 DEF K, Strong
<1>4. PICK m \in {j \in Nat : i <= j /\ ~Strong(j)} : \A j \in {l \in Nat : i <= l /\ ~Strong(l)} : m <= j
  <2> HIDE DEF Strong
  <2> QED BY <1>3, LeastNumber
<1>5. /\ i \in Nat \ {0} /\ cs[i].confidence \in Nat /\ m \in Nat \ {0} /\ m - 1 \in Nat
      /\ ~(m <= m - 1) /\ (i # m => i <= m - 1)
  BY <1>4, CandidateFields
<1>6. ASSUME NEW k \in DOMAIN cs, cs[k].bug = bug
      PROVE  /\ cs[k].severity \in Nat /\ cs[k].confidence \in Nat /\ cs[k].severity <= High
             /\ cs[k].confidence <= cs[i].confidence
             /\ Stronger(cs[i], cs[k]) <=> ~(cs[k].severity = High /\ cs[k].confidence = cs[i].confidence)
  <2>1. /\ cs[k].severity \in Nat /\ cs[k].confidence \in Nat /\ cs[k].severity <= High
        /\ cs[k].confidence <= cs[i].confidence
    BY <1>6, CandidateFields
  <2> QED BY <1>5, <2>1 DEF Stronger, High
<1>7. CASE i = m
  <2>1. TakesOver(cs, bug, m, K[m - 1]) <=> K[m - 1] = 0 \/ Stronger(cs[i], cs[K[m - 1]])
    BY <1>7 DEF TakesOver
  <2>2. CASE K[m - 1] = 0
    BY <1>1, <1>4, <1>5, <1>7, <2>1, <2>2
  <2>3. CASE K[m - 1] \in DOMAIN cs /\ cs[K[m - 1]].bug = bug
    BY <1>1, <1>4, <1>5, <1>6, <1>7, <2>1, <2>3
  <2> QED BY <1>2, <1>5, <2>2, <2>3
<1>8. CASE i # m
  <2>1. Strong(m - 1)
    <3> HIDE DEF Strong
    <3> QED BY <1>4, <1>5, <1>8
  <2>2. m \in DOMAIN cs /\ cs[m].bug = bug => ~Stronger(cs[m], cs[K[m - 1]])
    BY <1>5, <1>6, <2>1 DEF Stronger
  <2>3. K[m - 1] # 0
    BY <2>1, CandidateFields
  <2>4. K[m] = K[m - 1]
    BY <1>1, <1>5, <2>2, <2>3 DEF TakesOver
  <2> QED BY <1>4, <2>1, <2>4
<1> QED BY <1>7, <1>8

LEMMA PlacesCounted ==
  ASSUME NEW S \in SUBSET (1..NumJudged)
  PROVE  IsFiniteSet(S) /\ Cardinality(S) \in Nat
<1>1. 1 \in Int /\ NumJudged \in Int
  BY NoiseConstants
<1>2. IsFiniteSet(1..NumJudged)
  BY <1>1, FS_Interval
<1> QED BY <1>2, FS_Subset, FS_CardinalityType

LEMMA Restricted ==
  ASSUME NEW cs, Listed(cs), NEW S \in SUBSET DOMAIN cs
  PROVE  /\ DOMAIN Restrict(cs, S) = S /\ \A i \in S : Restrict(cs, S)[i] = cs[i]
         /\ Listed(Restrict(cs, S))
         /\ EachOnce(cs) => EachOnce(Restrict(cs, S))
         /\ Vouched(cs) => Vouched(Restrict(cs, S))
<1> DEFINE T == Restrict(cs, S)
<1>1. DOMAIN T = S /\ \A i \in S : T[i] = cs[i]
  BY DEF Restrict
<1>2. T = [i \in S |-> T[i]]
  BY DEF Restrict
<1> HIDE DEF T
<1>3. Listed(T)
  <2>1. \A i \in S : T[i] \in Candidates
    BY <1>1 DEF Listed
  <2> QED BY <1>1, <1>2, <2>1 DEF Listed
<1>4. EachOnce(cs) => EachOnce(T)
  BY <1>1 DEF EachOnce
<1>5. Vouched(cs) => Vouched(T)
  BY <1>1 DEF Vouched, Owes
<1> QED BY <1>1, <1>3, <1>4, <1>5 DEF T

\* One candidate of each bug is left, and of a bug the strongest of which is severe a
\* severe one.
LEMMA Deduped ==
  ASSUME NEW cs, Listed(cs)
  PROVE  /\ Listed(Dedupe(cs)) /\ EachOnce(Dedupe(cs))
         /\ Vouched(cs) => Vouched(Dedupe(cs))
         /\ \A i \in DOMAIN cs :
              /\ cs[i].severity = High
              /\ \A j \in DOMAIN cs : cs[j].bug = cs[i].bug => cs[j].confidence <= cs[i].confidence
              => Severe(Dedupe(cs), cs[i])
<1> DEFINE S == {k \in DOMAIN cs : \A j \in DOMAIN cs : j < k => cs[j].bug # cs[k].bug}
           P(i) == Kept(cs, cs[i].bug)[NumJudged]
           T == Dedupe(cs)
<1>1. DOMAIN T = S /\ T = [i \in S |-> cs[P(i)]]
  BY DEF Dedupe
<1>2. \A i \in DOMAIN cs : P(i) \in DOMAIN cs /\ cs[P(i)].bug = cs[i].bug
  <2> TAKE i \in DOMAIN cs
  <2>1. NumJudged \in Nat /\ i \in 1..NumJudged
    BY NoiseConstants DEF Listed
  <2> QED BY <2>1, KeptIsOne
<1> HIDE DEF P, T
<1>3. \A i \in S : P(i) \in DOMAIN cs /\ T[i] = cs[P(i)] /\ T[i].bug = cs[i].bug /\ T[i] \in Candidates
  BY <1>1, <1>2 DEF Listed
<1>4. Listed(T)
  BY <1>1, <1>3 DEF Listed
<1>5. EachOnce(T)
  <2> SUFFICES ASSUME NEW i \in DOMAIN T, NEW j \in DOMAIN T, T[i].bug = T[j].bug PROVE i = j
    BY DEF EachOnce
  <2> i \in S /\ j \in S /\ cs[i].bug = cs[j].bug
    BY <1>1, <1>3
  <2>1. i \in Nat /\ j \in Nat
    BY CandidateFields
  <2>2. ~(i < j) /\ ~(j < i)
    OBVIOUS
  <2> QED BY <2>1, <2>2
<1>6. Vouched(cs) => Vouched(T)
  BY <1>1, <1>3 DEF Vouched, Owes
<1>7. ASSUME NEW i \in DOMAIN cs, cs[i].severity = High,
             \A j \in DOMAIN cs : cs[j].bug = cs[i].bug => cs[j].confidence <= cs[i].confidence
      PROVE  Severe(T, cs[i])
  <2>1. {j \in DOMAIN cs : cs[j].bug = cs[i].bug} \subseteq Nat
    BY CandidateFields
  <2>2. PICK k \in {j \in DOMAIN cs : cs[j].bug = cs[i].bug} :
               \A j \in {l \in DOMAIN cs : cs[l].bug = cs[i].bug} : k <= j
    BY <2>1, LeastNumber
  <2>3. k \in S
    <3> SUFFICES ASSUME NEW j \in DOMAIN cs, j < k PROVE cs[j].bug # cs[k].bug
      BY <2>2
    <3>1. j \in Nat /\ k \in Nat
      BY <2>2, CandidateFields
    <3> QED BY <2>2, <3>1
  <2>4. NumJudged \in Nat /\ i <= NumJudged
    BY CandidateFields, NoiseConstants
  <2>5. cs[P(i)].severity = High /\ cs[P(i)].confidence = cs[i].confidence
    BY <1>7, <2>4, StrongestKept DEF P
  <2>6. P(k) = P(i)
    BY <2>2 DEF P
  <2> QED BY <1>1, <1>3, <2>2, <2>3, <2>5, <2>6 DEF Severe
<1> QED BY <1>4, <1>5, <1>6, <1>7 DEF T

LEMMA Floored ==
  ASSUME NEW cs, Listed(cs)
  PROVE  /\ Listed(AboveFloor(cs)) /\ (Vouched(cs) => Vouched(AboveFloor(cs)))
         /\ DOMAIN AboveFloor(cs) \subseteq DOMAIN cs
         /\ \A i \in DOMAIN AboveFloor(cs) : AboveFloor(cs)[i] = cs[i]
         /\ \A i \in DOMAIN cs : cs[i].severity = High /\ cs[i].bug \notin suppressed
              => i \in DOMAIN AboveFloor(cs)
<1> DEFINE S == {i \in DOMAIN cs : cs[i].severity >= SeverityFloor /\ cs[i].bug \notin suppressed}
<1>1. S \in SUBSET DOMAIN cs /\ AboveFloor(cs) = Restrict(cs, S)
  BY DEF AboveFloor
<1>2. \A i \in DOMAIN cs : cs[i].severity = High /\ cs[i].bug \notin suppressed => i \in S
  BY NoiseConstants DEF Nit, High
<1> HIDE DEF S
<1> QED BY <1>1, <1>2, Restricted

\* No more nits are left than the filter for style allows, and what is severe stays.
NitsOf(cs) == {k \in DOMAIN cs : cs[k].severity = Nit}

LEMMA NitsFiltered ==
  ASSUME NEW cs, Listed(cs), Listed(candidates)
  PROVE  /\ Listed(FilterNits(cs)) /\ (EachOnce(cs) => EachOnce(FilterNits(cs)))
         /\ Vouched(cs) => Vouched(FilterNits(cs))
         /\ Cardinality(NitsOf(FilterNits(cs))) <= Half
         /\ \A c : Severe(cs, c) => Severe(FilterNits(cs), c)
<1> DEFINE ms == [i \in DOMAIN cs |-> AsNit(cs[i])]
           S == {i \in DOMAIN cs : ~OneTooMany(ms[i], NitsUpTo(ms, i))}
           T == FilterNits(cs)
<1>1. T = Restrict(ms, S) /\ DOMAIN ms = DOMAIN cs
  BY DEF FilterNits
<1>2. \A i \in DOMAIN cs :
        /\ ms[i] \in Candidates /\ ms[i].bug = cs[i].bug /\ ms[i].confidence = cs[i].confidence
        /\ ms[i].severity <= cs[i].severity
        /\ cs[i].severity = High => ms[i].severity = High
  <2> TAKE i \in DOMAIN cs
  <2>1. /\ cs[i] \in Candidates /\ cs[i].severity \in Nat
    BY CandidateFields
  <2>2. CASE cs[i].style /\ cs[i].severity <= Low
    <3>1. ms[i] = [cs[i] EXCEPT !.severity = Nit]
      BY <2>2 DEF AsNit
    <3>2. Nit \in Severities /\ Nit <= cs[i].severity /\ cs[i].severity # High
      BY <2>1, <2>2 DEF Severities, Nit, Low, High
    <3> QED BY <2>1, <3>1, <3>2 DEF Candidates
  <2>3. CASE ~(cs[i].style /\ cs[i].severity <= Low)
    BY <2>1, <2>3 DEF AsNit
  <2> QED BY <2>2, <2>3
<1>3. Listed(ms)
  BY <1>2 DEF Listed
<1>4. (EachOnce(cs) => EachOnce(ms)) /\ (Vouched(cs) => Vouched(ms))
  <2>1. EachOnce(cs) => EachOnce(ms)
    BY <1>1, <1>2 DEF EachOnce
  <2>2. ASSUME Vouched(cs), NEW i \in DOMAIN cs
        PROVE  \E k \in DOMAIN candidates : Owes(ms, i, k)
    <3>1. PICK k \in DOMAIN candidates : Owes(cs, i, k)
      BY <2>2 DEF Vouched
    <3>2. cs[i].severity \in Nat /\ ms[i].severity \in Nat /\ candidates[k].severity \in Nat
      BY <1>1, <1>3, <2>2, CandidateFields
    <3>3. ms[i].severity <= candidates[k].severity
      BY <1>2, <3>1, <3>2 DEF Owes
    <3> QED BY <1>2, <3>1, <3>3 DEF Owes
  <2> QED BY <1>1, <2>1, <2>2 DEF Vouched
<1>5. \A i \in DOMAIN cs : cs[i].severity = High => i \in S
  BY <1>2 DEF OneTooMany, Nit, Info, High
<1>6. S \subseteq DOMAIN ms
  OBVIOUS
<1>7. \A i \in S : ms[i].severity = Nit => NitsUpTo(ms, i) <= Half
  <2> TAKE i \in S
  <2>1. NitsUpTo(ms, i) \in Nat /\ Half \in Nat
    <3>1. {k \in DOMAIN ms : k <= i /\ ms[k].severity = Nit} \subseteq 1..NumJudged
      BY <1>3 DEF Listed
    <3>2. NitsUpTo(ms, i) \in Nat
      BY <3>1, PlacesCounted DEF NitsUpTo
    <3>3. Half \in Nat
      BY NoiseConstants DEF Half
    <3> QED BY <3>2, <3>3
  <2> QED BY <2>1 DEF OneTooMany, Nit, Info
<1> HIDE DEF ms, S, T
<1>8. /\ DOMAIN T = S /\ \A i \in S : T[i] = ms[i]
      /\ Listed(T) /\ (EachOnce(ms) => EachOnce(T)) /\ (Vouched(ms) => Vouched(T))
  BY <1>1, <1>3, <1>6, Restricted
<1>9. Cardinality(NitsOf(T)) <= Half
  <2> DEFINE N == NitsOf(T)
  <2>1. N \subseteq Nat /\ N \subseteq S /\ N \subseteq 1..NumJudged
    BY <1>8, CandidateFields DEF NitsOf
  <2>2. IsFiniteSet(N)
    BY <2>1, PlacesCounted
  <2>3. Half \in Nat
    BY NoiseConstants DEF Half
  <2>4. CASE N = {}
    BY <2>3, <2>4, FS_EmptySet
  <2>5. CASE N # {}
    <3>1. N \subseteq Int
      BY <2>1
    <3>2. PICK x \in N : \A y \in N : y <= x
      <4> HIDE DEF N
      <4> QED BY <2>2, <2>5, <3>1, LargestExists
    <3> DEFINE U == {k \in DOMAIN ms : k <= x /\ ms[k].severity = Nit}
    <3>3. N \subseteq U /\ ms[x].severity = Nit
      BY <1>6, <1>8, <2>1, <3>2 DEF NitsOf
    <3>4. U \subseteq 1..NumJudged
      BY <1>3 DEF Listed
    <3>5. IsFiniteSet(U)
      BY <3>4, PlacesCounted
    <3>6. Cardinality(U) <= Half
      BY <1>7, <2>1, <3>3 DEF NitsUpTo
    <3>7. Cardinality(N) <= Cardinality(U) /\ Cardinality(N) \in Nat /\ Cardinality(U) \in Nat
      <4> HIDE DEF N, U
      <4> QED BY <3>3, <3>5, FS_Subset, FS_CardinalityType
    <3>8. Cardinality(N) <= Half
      <4> HIDE DEF N, U
      <4> QED BY <2>3, <3>6, <3>7
    <3> QED BY <3>8 DEF N
  <2> QED BY <2>4, <2>5
<1>10. \A c : Severe(cs, c) => Severe(T, c)
  BY <1>2, <1>5, <1>8 DEF Severe
<1> QED BY <1>4, <1>8, <1>9, <1>10 DEF T

\* A severe bug is news if no earlier row of it is as severe, but one still open and less sure.
News(c) ==
  LET row == earlier[c.bug] IN
    row.severity < High \/ (row.status = "open" /\ row.confidence < c.confidence)

LEMMA RowFields ==
  ASSUME earlier \in [Bugs -> EarlierRows \cup {Unreported}], NEW b \in Bugs
  PROVE  earlier[b].severity \in Nat /\ earlier[b].confidence \in Nat
<1>1. earlier[b] \in EarlierRows \/ earlier[b] = Unreported
  OBVIOUS
<1> QED BY <1>1, NoiseConstants DEF Unreported, Severities, Nit, Low, High

LEMMA ConvergedKeeps ==
  ASSUME NEW cs, Listed(cs), earlier \in [Bugs -> EarlierRows \cup {Unreported}]
  PROVE  /\ Listed(Converged(cs)) /\ (EachOnce(cs) => EachOnce(Converged(cs)))
         /\ (Vouched(cs) => Vouched(Converged(cs)))
         /\ NitsOf(Converged(cs)) \subseteq NitsOf(cs)
         /\ \A c : Severe(cs, c) /\ News(c) => Severe(Converged(cs), c)
         /\ \A i \in DOMAIN Converged(cs) : Again(Converged(cs)[i])
<1> DEFINE S == {i \in DOMAIN cs : Again(cs[i])}
           T == Converged(cs)
<1>1. S \in SUBSET DOMAIN cs /\ T = Restrict(cs, S)
  BY DEF Converged
<1>2. ASSUME NEW i \in DOMAIN cs, cs[i].severity = High, News(cs[i]) PROVE i \in S
  <2>1. /\ earlier[cs[i].bug].severity \in Nat /\ earlier[cs[i].bug].confidence \in Nat
        /\ cs[i].confidence \in Nat
    BY CandidateFields, RowFields
  <2> QED BY <1>2, <2>1 DEF News, Again, High
<1>3. \A i \in S : Again(cs[i])
  OBVIOUS
<1> HIDE DEF S, T
<1>4. /\ DOMAIN T = S /\ \A i \in S : T[i] = cs[i]
      /\ Listed(T) /\ (EachOnce(cs) => EachOnce(T)) /\ (Vouched(cs) => Vouched(T))
  BY <1>1, Restricted
<1>5. NitsOf(T) \subseteq NitsOf(cs)
  BY <1>1, <1>4 DEF NitsOf
<1>6. ASSUME NEW c, Severe(cs, c), News(c) PROVE Severe(T, c)
  <2>1. PICK i \in DOMAIN cs :
          cs[i].bug = c.bug /\ cs[i].severity = High /\ cs[i].confidence = c.confidence
    BY <1>6 DEF Severe
  <2>2. News(cs[i])
    BY <1>6, <2>1 DEF News
  <2> QED BY <1>2, <1>4, <2>1, <2>2 DEF Severe
<1>7. \A i \in DOMAIN T : Again(T[i])
  BY <1>3, <1>4
<1> QED BY <1>4, <1>5, <1>6, <1>7 DEF T

\* Before orders a list, and so do the numbers of those before.
Ahead(cs, j) == {i \in DOMAIN cs : Before(cs, i, j)}

LEMMA BeforeOrders ==
  ASSUME NEW cs, Listed(cs)
  PROVE  /\ \A i \in DOMAIN cs : ~Before(cs, i, i)
         /\ \A i, j \in DOMAIN cs : i = j \/ Before(cs, i, j) \/ Before(cs, j, i)
         /\ \A i, j, k \in DOMAIN cs : Before(cs, i, j) /\ Before(cs, j, k) => Before(cs, i, k)
<1>1. \A i \in DOMAIN cs : i \in Nat /\ cs[i].severity \in Nat
  BY CandidateFields
<1>2. \A i \in DOMAIN cs : ~Before(cs, i, i)
  BY <1>1 DEF Before
<1>3. \A i, j \in DOMAIN cs : i = j \/ Before(cs, i, j) \/ Before(cs, j, i)
  BY <1>1 DEF Before
<1>4. ASSUME NEW i \in DOMAIN cs, NEW j \in DOMAIN cs, NEW k \in DOMAIN cs,
             Before(cs, i, j), Before(cs, j, k)
      PROVE  Before(cs, i, k)
  BY <1>1, <1>4 DEF Before
<1> QED BY <1>2, <1>3, <1>4

LEMMA AheadCounts ==
  ASSUME NEW cs, Listed(cs)
  PROVE  /\ \A i \in DOMAIN cs : Cardinality(Ahead(cs, i)) \in Nat
         /\ \A i, j \in DOMAIN cs : Before(cs, i, j) => Cardinality(Ahead(cs, i)) < Cardinality(Ahead(cs, j))
<1>1. \A i \in DOMAIN cs : /\ Ahead(cs, i) \in SUBSET (1..NumJudged)
                           /\ IsFiniteSet(Ahead(cs, i)) /\ Cardinality(Ahead(cs, i)) \in Nat
  <2> TAKE i \in DOMAIN cs
  <2>1. Ahead(cs, i) \in SUBSET (1..NumJudged)
    BY DEF Ahead, Listed
  <2> QED BY <2>1, PlacesCounted
<1>2. ASSUME NEW i \in DOMAIN cs, NEW j \in DOMAIN cs, Before(cs, i, j)
      PROVE  Cardinality(Ahead(cs, i)) < Cardinality(Ahead(cs, j))
  <2> DEFINE A == Ahead(cs, i)
             B == Ahead(cs, j)
  <2>1. A \subseteq B /\ i \in B /\ i \notin A
    BY <1>2, BeforeOrders DEF Ahead
  <2>2. IsFiniteSet(A) /\ IsFiniteSet(B) /\ Cardinality(A) \in Nat /\ Cardinality(B) \in Nat
    BY <1>1
  <2> HIDE DEF A, B
  <2>3. Cardinality(A) <= Cardinality(B) /\ Cardinality(A) # Cardinality(B)
    BY <2>1, <2>2, FS_Subset
  <2>4. Cardinality(A) < Cardinality(B)
    BY <2>2, <2>3
  <2> QED BY <2>4 DEF A, B
<1> QED BY <1>1, <1>2

\* Of any places some have none of the others before them.
LEMMA FirstOfPlaces ==
  ASSUME NEW cs, Listed(cs), NEW S \in SUBSET DOMAIN cs, S # {}
  PROVE  \E x \in S : \A y \in S : ~Before(cs, y, x)
<1> DEFINE N(i) == Cardinality(Ahead(cs, i))
           R == {N(i) : i \in S}
<1>1. R \subseteq Nat /\ R # {}
  BY AheadCounts
<1>2. PICK n \in R : \A m \in R : n <= m
  <2> HIDE DEF R
  <2> QED BY <1>1, LeastNumber
<1>3. PICK x \in S : n = N(x)
  BY <1>2
<1>4. ASSUME NEW y \in S, Before(cs, y, x) PROVE FALSE
  <2>1. N(y) < N(x) /\ N(y) \in Nat /\ N(x) \in Nat /\ N(x) <= N(y)
    BY <1>2, <1>3, <1>4, AheadCounts
  <2> HIDE DEF N
  <2> QED BY <2>1
<1> QED BY <1>3, <1>4

LEMMA LastOfPlaces ==
  ASSUME NEW cs, Listed(cs), NEW S \in SUBSET DOMAIN cs, S # {}
  PROVE  \E x \in S : \A y \in S : ~Before(cs, x, y)
<1> DEFINE N(i) == Cardinality(Ahead(cs, i))
           R == {N(i) : i \in S}
<1>1. R \subseteq Nat /\ R # {}
  BY AheadCounts
<1>2. \A n \in R : n <= NumJudged
  <2> SUFFICES ASSUME NEW i \in DOMAIN cs PROVE N(i) <= NumJudged
    OBVIOUS
  <2>1. Ahead(cs, i) \in SUBSET (1..NumJudged)
    BY DEF Ahead, Listed
  <2>2. 1 \in Int /\ NumJudged \in Int /\ NumJudged \in Nat /\ (1 > NumJudged => NumJudged = 0)
        /\ NumJudged - 1 + 1 = NumJudged
    BY NoiseConstants
  <2>3. IsFiniteSet(1..NumJudged) /\ Cardinality(1..NumJudged) = NumJudged
    BY <2>2, FS_Interval
  <2> QED BY <2>1, <2>3, FS_Subset
<1>3. IsFiniteSet(R) /\ R \subseteq Int
  <2> HIDE DEF R
  <2> QED BY <1>1, <1>2, NoiseConstants, FS_BoundedSetOfNaturals
<1>4. PICK n \in R : \A m \in R : m <= n
  <2> HIDE DEF R
  <2> QED BY <1>1, <1>3, LargestExists
<1>5. PICK x \in S : n = N(x)
  BY <1>4
<1>6. ASSUME NEW y \in S, Before(cs, x, y) PROVE FALSE
  <2>1. N(x) < N(y) /\ N(y) \in Nat /\ N(x) \in Nat /\ N(y) <= N(x)
    BY <1>4, <1>5, <1>6, AheadCounts
  <2> HIDE DEF N
  <2> QED BY <2>1
<1> QED BY <1>5, <1>6

\* No more are left than the cap allows, and where some are left out it is reached, by what
\* is no less severe.
LEMMA CapKeeps ==
  ASSUME NEW cs, Listed(cs)
  PROVE  LET T == CapFindings(cs) IN
         /\ DOMAIN T \subseteq DOMAIN cs /\ \A i \in DOMAIN T : T[i] = cs[i]
         /\ Listed(T) /\ (EachOnce(cs) => EachOnce(T)) /\ (Vouched(cs) => Vouched(T))
         /\ Cardinality(DOMAIN T) <= MaxFindings
         /\ \A j \in DOMAIN cs \ DOMAIN T :
              Cardinality(DOMAIN T) = MaxFindings /\ \A i \in DOMAIN T : Before(cs, i, j)
<1> DEFINE S == {j \in DOMAIN cs : Cardinality(Ahead(cs, j)) < MaxFindings}
           T == CapFindings(cs)
<1>1. S \in SUBSET DOMAIN cs /\ T = Restrict(cs, S)
  BY DEF CapFindings, Ahead
<1>2. \A j \in DOMAIN cs : j \in S <=> Cardinality(Ahead(cs, j)) < MaxFindings
  OBVIOUS
<1> HIDE DEF S, T
<1>3. /\ DOMAIN T = S /\ \A i \in S : T[i] = cs[i]
      /\ Listed(T) /\ (EachOnce(cs) => EachOnce(T)) /\ (Vouched(cs) => Vouched(T))
  BY <1>1, Restricted
<1>4. S \in SUBSET (1..NumJudged) /\ MaxFindings \in Nat
  BY <1>1, NoiseConstants DEF Listed
<1>5. IsFiniteSet(S) /\ Cardinality(S) \in Nat
  BY <1>4, PlacesCounted
<1>6. \A j \in DOMAIN cs : /\ Cardinality(Ahead(cs, j)) \in Nat /\ IsFiniteSet(Ahead(cs, j))
                           /\ Ahead(cs, j) \subseteq DOMAIN cs
  <2> TAKE j \in DOMAIN cs
  <2>1. Ahead(cs, j) \subseteq DOMAIN cs /\ Ahead(cs, j) \in SUBSET (1..NumJudged)
    BY DEF Ahead, Listed
  <2> QED BY <2>1, PlacesCounted
<1>7. Cardinality(S) <= MaxFindings
  <2>1. CASE S = {}
    BY <1>4, <2>1, FS_EmptySet
  <2>2. CASE S # {}
    <3>1. PICK x \in S : \A y \in S : ~Before(cs, x, y)
      BY <1>1, <2>2, LastOfPlaces
    <3>2. S \ {x} \subseteq Ahead(cs, x)
      BY <1>1, <3>1, BeforeOrders DEF Ahead
    <3>3. IsFiniteSet(S \ {x}) /\ Cardinality(S \ {x}) = Cardinality(S) - 1
      BY <1>5, <3>1, FS_RemoveElement
    <3>4. Cardinality(S \ {x}) <= Cardinality(Ahead(cs, x)) /\ Cardinality(Ahead(cs, x)) \in Nat
      BY <1>1, <1>6, <3>1, <3>2, FS_Subset
    <3>5. Cardinality(Ahead(cs, x)) < MaxFindings
      BY <1>1, <1>2, <3>1
    <3> QED BY <1>4, <1>5, <3>3, <3>4, <3>5
  <2> QED BY <2>1, <2>2
<1>8. ASSUME NEW j \in DOMAIN cs \ S
      PROVE  Cardinality(S) = MaxFindings /\ \A i \in S : Before(cs, i, j)
  <2>1. ASSUME NEW i \in S, ~Before(cs, i, j) PROVE FALSE
    <3>1. Before(cs, j, i)
      BY <1>1, <1>8, <2>1, BeforeOrders
    <3>2. Cardinality(Ahead(cs, j)) < Cardinality(Ahead(cs, i)) /\ Cardinality(Ahead(cs, i)) < MaxFindings
      BY <1>1, <1>2, <3>1, AheadCounts
    <3>3. Cardinality(Ahead(cs, j)) \in Nat /\ Cardinality(Ahead(cs, i)) \in Nat
      BY <1>1, <1>6
    <3>4. Cardinality(Ahead(cs, j)) < MaxFindings
      BY <1>4, <3>2, <3>3
    <3> QED BY <1>2, <3>4
  <2>2. PICK y \in DOMAIN cs \ S : \A z \in DOMAIN cs \ S : ~Before(cs, z, y)
    <3>1. DOMAIN cs \ S \in SUBSET DOMAIN cs /\ DOMAIN cs \ S # {}
      OBVIOUS
    <3> QED BY <3>1, FirstOfPlaces
  <2>3. Ahead(cs, y) \subseteq S
    BY <2>2 DEF Ahead
  <2>4. Cardinality(Ahead(cs, y)) <= Cardinality(S) /\ Cardinality(Ahead(cs, y)) \in Nat
    BY <1>5, <1>6, <2>3, FS_Subset
  <2>5. ~(Cardinality(Ahead(cs, y)) < MaxFindings)
    BY <1>2
  <2>6. Cardinality(S) = MaxFindings
    BY <1>4, <1>5, <1>7, <2>4, <2>5
  <2> QED BY <2>1, <2>6
<1>9. /\ DOMAIN T \subseteq DOMAIN cs /\ \A i \in DOMAIN T : T[i] = cs[i]
      /\ Listed(T) /\ (EachOnce(cs) => EachOnce(T)) /\ (Vouched(cs) => Vouched(T))
  BY <1>1, <1>3
<1>10. /\ Cardinality(DOMAIN T) <= MaxFindings
       /\ \A j \in DOMAIN cs \ DOMAIN T :
            Cardinality(DOMAIN T) = MaxFindings /\ \A i \in DOMAIN T : Before(cs, i, j)
  BY <1>3, <1>7, <1>8
<1> QED BY <1>9, <1>10 DEF T

\* What is reported is what the stack makes of the candidates.
NoiseInv == NoiseTypeOK /\ (judged => reported = ApplyNoiseStack(candidates))

\* The stack as it depends on what the judge looks at.
Stack(cs, hushed, before) ==
  LET above == Restrict(cs, {i \in DOMAIN cs : cs[i].severity >= SeverityFloor /\ cs[i].bug \notin hushed})
      styled == FilterNits(Dedupe(above))
      again(c) == LET row == before[c.bug] IN
                    \/ row = Unreported
                    \/ c.severity > row.severity
                    \/ row.status = "open" /\ c.confidence > row.confidence
  IN  CapFindings(Restrict(styled, {i \in DOMAIN styled : again(styled[i])}))

LEMMA StackIs == ApplyNoiseStack(candidates) = Stack(candidates, suppressed, earlier)
BY DEF ApplyNoiseStack, Stack, AboveFloor, Converged, Again

LEMMA StackKeeps ==
  ASSUME candidates \in [1..NumJudged -> Candidates],
         earlier \in [Bugs -> EarlierRows \cup {Unreported}]
  PROVE  LET T == ApplyNoiseStack(candidates) IN
         /\ Listed(T) /\ EachOnce(T) /\ Vouched(T) /\ \A i \in DOMAIN T : Again(T[i])
         /\ Cardinality(DOMAIN T) <= MaxFindings /\ Cardinality(NitsOf(T)) <= Half
         /\ \A i \in DOMAIN candidates :
              LET c == candidates[i] IN
              c.severity = High /\ Strongest(c) /\ c.bug \notin suppressed /\ News(c) =>
                \/ Severe(T, c)
                \/ Cardinality(DOMAIN T) = MaxFindings /\ \A k \in DOMAIN T : T[k].severity = High
<1> DEFINE A == AboveFloor(candidates)
           B == Dedupe(A)
           C == FilterNits(B)
           E == Converged(C)
           T == CapFindings(E)
<1>1. T = ApplyNoiseStack(candidates)
  BY DEF ApplyNoiseStack
<1>2. Listed(candidates)
  BY DEF Listed
<1>3. Vouched(candidates)
  <2>1. ASSUME NEW i \in DOMAIN candidates PROVE Owes(candidates, i, i)
    <3>1. candidates[i].severity \in Nat
      BY <1>2, CandidateFields
    <3> QED BY <3>1 DEF Owes
  <2> QED BY <2>1 DEF Vouched
<1> HIDE DEF A, B, C, E, T
<1>4. /\ Listed(A) /\ Vouched(A) /\ DOMAIN A \subseteq DOMAIN candidates
      /\ \A i \in DOMAIN A : A[i] = candidates[i]
      /\ \A i \in DOMAIN candidates :
           candidates[i].severity = High /\ candidates[i].bug \notin suppressed => i \in DOMAIN A
  BY <1>2, <1>3, Floored DEF A
<1>5. /\ Listed(B) /\ EachOnce(B) /\ Vouched(B)
      /\ \A i \in DOMAIN A :
           /\ A[i].severity = High
           /\ \A j \in DOMAIN A : A[j].bug = A[i].bug => A[j].confidence <= A[i].confidence
           => Severe(B, A[i])
  BY <1>4, Deduped DEF B
<1>6. /\ Listed(C) /\ EachOnce(C) /\ Vouched(C) /\ Cardinality(NitsOf(C)) <= Half
      /\ \A c : Severe(B, c) => Severe(C, c)
  BY <1>2, <1>5, NitsFiltered DEF C
<1>7. /\ Listed(E) /\ EachOnce(E) /\ Vouched(E) /\ NitsOf(E) \subseteq NitsOf(C)
      /\ \A i \in DOMAIN E : Again(E[i])
      /\ \A c : Severe(C, c) /\ News(c) => Severe(E, c)
  BY <1>6, ConvergedKeeps DEF E
<1>8. /\ DOMAIN T \subseteq DOMAIN E /\ \A i \in DOMAIN T : T[i] = E[i]
      /\ Listed(T) /\ EachOnce(T) /\ Vouched(T) /\ Cardinality(DOMAIN T) <= MaxFindings
      /\ \A j \in DOMAIN E \ DOMAIN T :
           Cardinality(DOMAIN T) = MaxFindings /\ \A i \in DOMAIN T : Before(E, i, j)
  BY <1>7, CapKeeps DEF T
<1>9. \A i \in DOMAIN T : Again(T[i])
  BY <1>7, <1>8
<1>10. Cardinality(NitsOf(T)) <= Half
  <2>1. NitsOf(T) \subseteq NitsOf(C)
    BY <1>7, <1>8 DEF NitsOf
  <2>2. NitsOf(C) \in SUBSET (1..NumJudged) /\ NitsOf(T) \in SUBSET (1..NumJudged)
    BY <1>6, <1>8 DEF NitsOf, Listed
  <2>3. IsFiniteSet(NitsOf(C)) /\ Cardinality(NitsOf(C)) \in Nat /\ Cardinality(NitsOf(T)) \in Nat
    BY <2>2, PlacesCounted
  <2>4. Cardinality(NitsOf(T)) <= Cardinality(NitsOf(C))
    BY <2>1, <2>3, FS_Subset
  <2>5. Half \in Nat
    BY NoiseConstants DEF Half
  <2> QED BY <1>6, <2>3, <2>4, <2>5
<1>11. ASSUME NEW i \in DOMAIN candidates, candidates[i].severity = High,
              Strongest(candidates[i]), candidates[i].bug \notin suppressed,
              News(candidates[i])
       PROVE  \/ Severe(T, candidates[i])
              \/ Cardinality(DOMAIN T) = MaxFindings /\ \A k \in DOMAIN T : T[k].severity = High
  <2>1. i \in DOMAIN A /\ A[i] = candidates[i]
    BY <1>4, <1>11
  <2>2. \A j \in DOMAIN A : A[j].bug = A[i].bug => A[j].confidence <= A[i].confidence
    BY <1>4, <1>11, <2>1 DEF Strongest
  <2>3. Severe(B, A[i])
    BY <1>5, <1>11, <2>1, <2>2
  <2>4. PICK k \in DOMAIN E : /\ E[k].bug = candidates[i].bug /\ E[k].severity = High
                              /\ E[k].confidence = candidates[i].confidence
    <3>1. Severe(E, candidates[i])
      BY <1>6, <1>7, <1>11, <2>1, <2>3
    <3> QED BY <3>1 DEF Severe
  <2>5. CASE k \in DOMAIN T
    BY <1>8, <2>4, <2>5 DEF Severe
  <2>6. CASE k \notin DOMAIN T
    <3>1. ASSUME NEW t \in DOMAIN T PROVE T[t].severity = High
      <4>1. t \in DOMAIN E /\ T[t] = E[t] /\ Before(E, t, k)
        BY <1>8, <2>6
      <4>2. E[t].severity \in Nat /\ E[t].severity <= High
        BY <1>7, <4>1, CandidateFields
      <4>3. E[t].severity >= High
        BY <2>4, <4>1, <4>2 DEF Before, High
      <4> QED BY <4>1, <4>2, <4>3 DEF High
    <3> QED BY <1>8, <2>6, <3>1
  <2> QED BY <2>5, <2>6
<1> HIDE DEF T
<1> QED BY <1>1, <1>8, <1>9, <1>10, <1>11

LEMMA NoiseStart == NoiseInit => NoiseInv
<1> SUFFICES ASSUME NoiseInit PROVE NoiseInv
  OBVIOUS
<1>1. candidates \in [1..NumJudged -> Candidates] /\ judged = FALSE /\ reported = <<>>
  BY DEF NoiseInit
<1>2. suppressed \subseteq Bugs /\ earlier \in [Bugs -> EarlierRows \cup {Unreported}]
  BY DEF NoiseInit
<1>3. DOMAIN reported = {} /\ reported \in [DOMAIN reported -> Candidates]
  BY <1>1
<1>4. Cardinality(DOMAIN reported) <= MaxFindings
  BY <1>3, NoiseConstants, FS_EmptySet
<1> QED BY <1>1, <1>2, <1>3, <1>4 DEF NoiseInv, NoiseTypeOK

LEMMA NoiseStep == NoiseInv /\ [NoiseNext]_noiseVars => NoiseInv'
<1> SUFFICES ASSUME NoiseInv, [NoiseNext]_noiseVars PROVE NoiseInv'
  OBVIOUS
<1>1. CASE JudgeFindings
  <2> DEFINE T == ApplyNoiseStack(candidates)
  <2>1. /\ candidates' = candidates /\ suppressed' = suppressed /\ earlier' = earlier
        /\ judged' = TRUE /\ reported' = T
    BY <1>1 DEF JudgeFindings
  <2>2. /\ candidates \in [1..NumJudged -> Candidates]
        /\ earlier \in [Bugs -> EarlierRows \cup {Unreported}]
    BY DEF NoiseInv, NoiseTypeOK
  <2>3. Listed(T) /\ Cardinality(DOMAIN T) <= MaxFindings
    BY <2>2, StackKeeps
  <2>4. NoiseTypeOK'
    <3> HIDE DEF T
    <3> QED BY <2>1, <2>3 DEF NoiseInv, NoiseTypeOK, Listed
  <2>5. ApplyNoiseStack(candidates)' = T
    <3>1. ApplyNoiseStack(candidates)' = Stack(candidates', suppressed', earlier')
      BY DEF ApplyNoiseStack, Stack, AboveFloor, Converged, Again
    <3> QED BY <2>1, <3>1, StackIs
  <2> QED BY <2>1, <2>4, <2>5 DEF NoiseInv
<1>2. CASE UNCHANGED noiseVars
  <2>1. /\ candidates' = candidates /\ suppressed' = suppressed /\ earlier' = earlier
        /\ judged' = judged /\ reported' = reported
    BY <1>2 DEF noiseVars
  <2>2. ApplyNoiseStack(candidates)' = ApplyNoiseStack(candidates)
    <3>1. ApplyNoiseStack(candidates)' = Stack(candidates', suppressed', earlier')
      BY DEF ApplyNoiseStack, Stack, AboveFloor, Converged, Again
    <3> QED BY <2>1, <3>1, StackIs
  <2>3. NoiseTypeOK'
    BY <2>1 DEF NoiseInv, NoiseTypeOK
  <2> QED BY <2>1, <2>2, <2>3 DEF NoiseInv
<1> QED BY <1>1, <1>2 DEF NoiseNext

LEMMA ReportFollows == NoiseInv => NoiseTypeOK /\ ReportSound
<1> SUFFICES ASSUME NoiseInv, judged PROVE ReportSound
  BY DEF NoiseInv, ReportSound, SignalKept, NoiseBounded, ReportedOnce
<1> DEFINE T == reported
<1>1. /\ candidates \in [1..NumJudged -> Candidates] /\ reported = ApplyNoiseStack(candidates)
      /\ earlier \in [Bugs -> EarlierRows \cup {Unreported}]
  BY DEF NoiseInv, NoiseTypeOK
<1>2. /\ Listed(T) /\ EachOnce(T) /\ Vouched(T) /\ \A i \in DOMAIN T : Again(T[i])
      /\ Cardinality(NitsOf(T)) <= Half
      /\ \A i \in DOMAIN candidates :
           LET c == candidates[i] IN
           c.severity = High /\ Strongest(c) /\ c.bug \notin suppressed /\ News(c) =>
             \/ Severe(T, c)
             \/ Cardinality(DOMAIN T) = MaxFindings /\ \A k \in DOMAIN T : T[k].severity = High
  BY <1>1, StackKeeps
<1>3. SignalKept
  <2> SUFFICES ASSUME NEW i \in DOMAIN candidates,
                      candidates[i].severity = High, Strongest(candidates[i]),
                      candidates[i].bug \notin suppressed, News(candidates[i])
               PROVE  \/ \E k \in DOMAIN T : T[k].bug = candidates[i].bug /\ T[k].severity = High
                      \/ Cardinality(DOMAIN T) = MaxFindings /\ \A k \in DOMAIN T : T[k].severity = High
    BY DEF SignalKept, News
  <2>1. \/ Severe(T, candidates[i])
        \/ Cardinality(DOMAIN T) = MaxFindings /\ \A k \in DOMAIN T : T[k].severity = High
    BY <1>2
  <2> QED BY <2>1 DEF Severe
<1>4. NoiseBounded
  <2> DEFINE f == [i \in DOMAIN T |-> T[i].bug]
  <2>1. f \in Surjection(DOMAIN T, ReportedBugs)
    BY DEF Surjection, ReportedBugs
  <2>2. f \in Injection(DOMAIN T, ReportedBugs)
    BY <1>2, <2>1 DEF Injection, IsInjective, EachOnce, Surjection
  <2>3. IsFiniteSet(DOMAIN T)
    BY <1>2, PlacesCounted DEF Listed
  <2>4. Cardinality(ReportedBugs) = Cardinality(DOMAIN T)
    <3> HIDE DEF f
    <3> QED BY <2>1, <2>2, <2>3, FS_Surjection
  <2> QED BY <1>2, <2>4 DEF NoiseBounded, NitsOf
<1>5. ReportedOnce
  <2> SUFFICES ASSUME NEW i \in DOMAIN T, earlier[T[i].bug] # Unreported
               PROVE  \E k \in DOMAIN candidates :
                        /\ candidates[k].bug = T[i].bug
                        /\ \/ candidates[k].severity > earlier[T[i].bug].severity
                           \/ /\ earlier[T[i].bug].status = "open"
                              /\ candidates[k].confidence > earlier[T[i].bug].confidence
    BY DEF ReportedOnce, ReportedBugs
  <2>1. PICK k \in DOMAIN candidates : Owes(T, i, k)
    BY <1>2 DEF Vouched
  <2>2. Listed(candidates)
    BY <1>1 DEF Listed
  <2>3. /\ candidates[k].severity \in Nat /\ T[i].severity \in Nat
        /\ earlier[T[i].bug].severity \in Nat
    BY <1>1, <1>2, <2>2, CandidateFields, RowFields
  <2>4. \/ T[i].severity > earlier[T[i].bug].severity
        \/ earlier[T[i].bug].status = "open" /\ T[i].confidence > earlier[T[i].bug].confidence
    BY <1>2 DEF Again
  <2> QED BY <2>1, <2>3, <2>4 DEF Owes
<1> QED BY <1>3, <1>4, <1>5 DEF ReportSound

\* The report keeps what is severe and news, repeats nothing and is not all nits
\* (applyNoiseStack in noise.ts, judgeFindings in judge.ts), for any list of candidates, any
\* caps, any memories and any rows of earlier reviews.
THEOREM ReportIsSound == NoiseSpec => [](NoiseTypeOK /\ ReportSound)
<1> QED BY NoiseStart, NoiseStep, ReportFollows, PTL DEF NoiseSpec
==============================================================================
