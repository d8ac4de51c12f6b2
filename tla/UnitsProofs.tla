----------------------------- MODULE UnitsProofs -----------------------------
(***************************************************************************)
(* Work on units: the ladder of retries, splits and gaps (SelfHeal), for any *)
(* paths and batches and any number of retries and concurrent units; the   *)
(* roles that look at a unit (UnitRoles), for any number of roles and slots; *)
(* the bridge to the graph server (GraphBridge), for any number of callers, *)
(* calls and children.                                                     *)
(***************************************************************************)
EXTENDS MCUnits, FiniteSetTheorems, WellFoundedInduction, TLAPS

(***************************************************************************)
(* Lemmas about the operators.                                             *)
(***************************************************************************)
LEMMA UnitBounds ==
  ASSUME NEW u \in Units
  PROVE  /\ u = <<u[1], u[2]>>
         /\ u[1] \in Nat /\ u[2] \in Nat
         /\ 1 <= u[1] /\ u[1] <= u[2] /\ u[2] <= NumPaths
         /\ \A p : p \in PathsOf(u) <=> p \in Nat /\ u[1] <= p /\ p <= u[2]
  BY HealConstants DEF Units, Paths, PathsOf

\* The halves of a unit that can be split are two smaller units that share out
\* its paths.
LEMMA HalvesDivide ==
  ASSUME NEW u \in Units, Cardinality(Halves(u)) = 2
  PROVE  \E m \in Nat : /\ u[1] <= m /\ m < u[2]
                        /\ <<u[1], m>> \in Units /\ <<m + 1, u[2]>> \in Units
                        /\ Halves(u) = {<<u[1], m>>, <<m + 1, u[2]>>}
<1> DEFINE mid == (u[2] - u[1]) \div 2
           m == u[1] + mid
<1>1. /\ u[1] \in Nat /\ u[2] \in Nat
      /\ 1 <= u[1] /\ u[1] <= u[2] /\ u[2] <= NumPaths
  BY UnitBounds
<1>2. mid \in Nat /\ 2 * mid <= u[2] - u[1]
  BY <1>1
<1>3. m \in Nat /\ u[1] <= m /\ m <= u[2]
  BY <1>1, <1>2
<1>4. Halves(u) = {<<u[1], m>>, <<m + 1, u[2]>>} \cap Units
  BY DEF Halves
<1> HIDE DEF m
<1>5. <<u[1], m>> \in Units
  BY <1>1, <1>3, HealConstants DEF Units, Paths
<1>6. <<m + 1, u[2]>> \in Units
  <2> SUFFICES ASSUME <<m + 1, u[2]>> \notin Units PROVE FALSE
    OBVIOUS
  <2>1. Halves(u) = {<<u[1], m>>}
    BY <1>4, <1>5, Zenon
  <2>2. \A x : Cardinality({x}) = 1
    BY FS_Singleton
  <2>3. Cardinality(Halves(u)) = 1
    BY <2>1, <2>2, Zenon
  <2> QED
    BY <2>3
<1>7. m < u[2]
  BY <1>1, <1>3, <1>6 DEF Units
<1> QED
  BY <1>3, <1>4, <1>5, <1>6, <1>7

LEMMA NextIsOpen ==
  ASSUME NEW u, Open(u) # {}
  PROVE  \E i \in Open(u) : /\ nextHealStrategy(u) = HEAL_STRATEGY_ORDER[i]
                            /\ \A j \in Open(u) : i <= j
<1>1. Open(u) \subseteq 1..4
  BY DEF Open, HEAL_STRATEGY_ORDER
<1>2. \E i \in Open(u) : \A j \in Open(u) : i <= j
  BY <1>1
<1> QED
  BY <1>2 DEF nextHealStrategy

LEMMA NextIsStrategy ==
  ASSUME NEW u
  PROVE  nextHealStrategy(u) \in Strategies \cup {"none"}
<1>1. CASE Open(u) = {}
  BY <1>1 DEF nextHealStrategy
<1>2. CASE Open(u) # {}
  BY <1>2, NextIsOpen DEF Open, HEAL_STRATEGY_ORDER, Strategies
<1> QED
  BY <1>1, <1>2

LEMMA SpentByNext ==
  ASSUME NEW u, ~Spent(u)
  PROVE  nextHealStrategy(u) \in {"retry_fresh_context", "fallback_simple_runner", "split_unit"}
  BY NextIsStrategy DEF Spent, Strategies

(***************************************************************************)
(* Types.                                                                  *)
(***************************************************************************)
\* A unit that waits has not been tried.
Untried == \A u \in Units : status[u] = "pending" => attempt[u] = 0

TypeInv == TypeOK /\ Untried

LEMMA TypeInit == Init => TypeInv
  BY DEF Init, TypeInv, TypeOK, Untried

LEMMA TypeStep == TypeInv /\ [Next]_vars => TypeInv'
<1> SUFFICES ASSUME TypeInv, [Next]_vars PROVE TypeInv'
  OBVIOUS
<1> USE HealConstants DEF TypeInv, TypeOK, Untried
<1>1. ASSUME NEW u \in Units, Begin(u) PROVE TypeInv'
  <2>1. status' \in [Units -> {"absent", "pending", "running", "completed", "skipped", "split"}]
    BY <1>1 DEF Begin
  <2>2. attempt' \in [Units -> Nat] /\ attempt'[u] = 1
    BY <1>1 DEF Begin
  <2>3. used' \in [Units -> SUBSET Strategies]
    BY <1>1 DEF Begin
  <2> QED
    BY <1>1, <2>1, <2>2, <2>3 DEF Begin
<1>2. ASSUME NEW u \in Units, Succeed(u) PROVE TypeInv'
  BY <1>2 DEF Succeed
<1>3. ASSUME NEW u \in Units, Retry(u) PROVE TypeInv'
  <2>1. nextHealStrategy(u) \in Strategies /\ attempt[u] < maxUnitRetries
    BY <1>3, NextIsStrategy DEF Retry, Spent
  <2>2. attempt' \in [Units -> Nat] /\ attempt'[u] = attempt[u] + 1
    BY <1>3 DEF Retry
  <2>3. used' \in [Units -> SUBSET Strategies]
    BY <1>3, <2>1 DEF Retry
  <2> QED
    BY <1>3, <2>1, <2>2, <2>3 DEF Retry
<1>4. ASSUME NEW u \in Units, Split(u) PROVE TypeInv'
  BY <1>4 DEF Split, Strategies
<1>5. ASSUME NEW u \in Units, GiveUp(u) PROVE TypeInv'
  BY <1>5 DEF GiveUp, Strategies
<1>6. CASE Conclude
  <2>1. fixed' \subseteq Paths
    BY <1>6 DEF Conclude, Fixed
  <2>2. session' \in {"completed", "completed_with_errors", "failed"}
    BY <1>6 DEF Conclude, Verdict
  <2> QED
    BY <1>6, <2>1, <2>2 DEF Conclude
<1>7. CASE UNCHANGED vars
  BY <1>7 DEF vars
<1> QED
  BY <1>1, <1>2, <1>3, <1>4, <1>5, <1>6, <1>7 DEF Next

\* No step leaves the types; in particular no unit is tried more than
\* maxUnitRetries times, its first time aside.
THEOREM TypeCorrect == Spec => []TypeOK
<1>1. TypeInv => TypeOK
  BY DEF TypeInv
<1> QED
  BY <1>1, TypeInit, TypeStep, PTL DEF Spec

(***************************************************************************)
(* Every path is in exactly one unit.                                      *)
(***************************************************************************)
LEMMA CoverInit == Init => PathsCovered
<1> SUFFICES ASSUME Init, NEW p \in Paths
             PROVE  \E u \in Leaves : p \in PathsOf(u)
                      /\ \A v \in Leaves : p \in PathsOf(v) => v = u
  BY DEF PathsCovered
<1>1. Leaves = Planned
  BY HealConstants DEF Init, Leaves
<1>2. PICK u \in Planned : p \in PathsOf(u)
  BY HealConstants
<1>3. \A v \in Planned : p \in PathsOf(v) => v = u
  BY <1>2, HealConstants
<1> QED
  BY <1>1, <1>2, <1>3

LEMMA CoverKept ==
  ASSUME PathsCovered, Leaves' = Leaves
  PROVE  PathsCovered'
  BY DEF PathsCovered

LEMMA SplitCovers ==
  ASSUME TypeOK, PathsCovered, NEW u \in Units, Split(u)
  PROVE  PathsCovered'
<1>1. PICK m \in Nat : /\ u[1] <= m /\ m < u[2]
                       /\ <<u[1], m>> \in Units /\ <<m + 1, u[2]>> \in Units
                       /\ Halves(u) = {<<u[1], m>>, <<m + 1, u[2]>>}
  BY HalvesDivide DEF Split
<1> DEFINE a == <<u[1], m>>
           b == <<m + 1, u[2]>>
<1>2. /\ \A p : p \in PathsOf(u) <=> p \in PathsOf(a) \/ p \in PathsOf(b)
      /\ \A p : ~(p \in PathsOf(a) /\ p \in PathsOf(b))
  BY <1>1, UnitBounds DEF PathsOf
<1>3. a # b /\ a # u /\ b # u
  BY <1>1, UnitBounds
<1>4. a \in Units /\ b \in Units /\ Halves(u) = {a, b}
  BY <1>1
<1> HIDE DEF a, b
<1>5. u \in Leaves /\ Leaves' = (Leaves \ {u}) \cup {a, b}
  BY <1>3, <1>4 DEF Split, Leaves, TypeOK
<1> SUFFICES ASSUME NEW p \in Paths
             PROVE  \E w \in Leaves' : p \in PathsOf(w)
                      /\ \A v \in Leaves' : p \in PathsOf(v) => v = w
  BY DEF PathsCovered
<1>6. PICK w \in Leaves : /\ p \in PathsOf(w)
                          /\ \A v \in Leaves : p \in PathsOf(v) => v = w
  BY DEF PathsCovered
<1>7. CASE p \in PathsOf(a)
  BY <1>2, <1>5, <1>6, <1>7
<1>8. CASE p \in PathsOf(b)
  BY <1>2, <1>5, <1>6, <1>8
<1>9. CASE p \notin PathsOf(u)
  BY <1>2, <1>5, <1>6, <1>9
<1> QED
  BY <1>2, <1>7, <1>8, <1>9

LEMMA CoverStep == TypeOK /\ PathsCovered /\ [Next]_vars => PathsCovered'
<1> SUFFICES ASSUME TypeOK, PathsCovered, [Next]_vars PROVE PathsCovered'
  OBVIOUS
<1>1. ASSUME NEW u \in Units, Begin(u) \/ Succeed(u) \/ Retry(u) \/ GiveUp(u)
      PROVE  PathsCovered'
  <2>1. Leaves' = Leaves
    BY <1>1 DEF TypeOK, Leaves, Begin, Succeed, Retry, GiveUp
  <2> QED
    BY <2>1, CoverKept
<1>2. CASE Conclude \/ UNCHANGED vars
  BY <1>2, CoverKept DEF Conclude, vars, Leaves
<1> QED
  BY <1>1, <1>2, SplitCovers DEF Next

\* However often units fail and are split, each path stays in exactly one unit.
THEOREM PathsStayCovered == Spec => []PathsCovered
<1>1. TypeInv => TypeOK
  BY DEF TypeInv
<1> QED
  BY <1>1, TypeInit, TypeStep, CoverInit, CoverStep, PTL DEF Spec

LEMMA LeafIsAlone ==
  ASSUME PathsCovered, NEW u \in Leaves, NEW v \in Leaves,
         NEW p \in Paths, p \in PathsOf(u), p \in PathsOf(v)
  PROVE  u = v
<1>1. PICK w \in Leaves : \A x \in Leaves : p \in PathsOf(x) => x = w
  BY DEF PathsCovered
<1> QED
  BY <1>1

\* A unit that has come to its end does not come back as the half of another.
LEMMA HalvesAreNew ==
  ASSUME TypeOK, PathsCovered, NEW u \in Units, Split(u), NEW h \in Halves(u)
  PROVE  status[h] \in {"absent", "split"}
<1>1. PICK m \in Nat : /\ u[1] <= m /\ m < u[2]
                       /\ <<u[1], m>> \in Units /\ <<m + 1, u[2]>> \in Units
                       /\ Halves(u) = {<<u[1], m>>, <<m + 1, u[2]>>}
  BY HalvesDivide DEF Split
<1>2. /\ h \in Units /\ h # u
      /\ h[1] \in Paths /\ h[1] \in PathsOf(h) /\ h[1] \in PathsOf(u)
  BY <1>1, UnitBounds, HealConstants DEF PathsOf, Units, Paths
<1>3. u \in Leaves
  BY DEF Split, Leaves
<1>4. h \notin Leaves
  BY <1>2, <1>3, LeafIsAlone
<1> QED
  BY <1>2, <1>4 DEF Leaves

(***************************************************************************)
(* What the end of a review says.                                          *)
(***************************************************************************)
\* Gaps are noted for the units given up, a concluded review has no work left,
\* and one without errors has given up or split nothing.
EndInv ==
  /\ \A u \in Units : status[u] = "skipped" <=> u \in gaps
  /\ session # "reviewing" => \A u \in Units : status[u] \notin {"pending", "running"}
  /\ session = "completed" => \A u \in Units : status[u] \notin {"skipped", "split"}

LEMMA EndStep ==
  TypeOK /\ PathsCovered /\ EndInv /\ [Next]_vars => EndInv'
<1> SUFFICES ASSUME TypeOK, PathsCovered, EndInv, [Next]_vars PROVE EndInv'
  OBVIOUS
<1> USE DEF TypeOK, EndInv
<1>1. ASSUME NEW u \in Units, Begin(u) PROVE EndInv'
  BY <1>1 DEF Begin
<1>2. ASSUME NEW u \in Units, Succeed(u) PROVE EndInv'
  BY <1>2 DEF Succeed
<1>3. ASSUME NEW u \in Units, Retry(u) PROVE EndInv'
  BY <1>3 DEF Retry
<1>4. ASSUME NEW u \in Units, Split(u) PROVE EndInv'
  <2>1. \A h \in Halves(u) : status[h] \in {"absent", "split"}
    BY <1>4, HalvesAreNew
  <2>2. \A v \in Units : status'[v] = IF v \in Halves(u) THEN "pending"
                                     ELSE IF v = u THEN "split" ELSE status[v]
    BY <1>4 DEF Split
  <2>3. session = "reviewing" /\ session' = session /\ gaps' = gaps /\ status[u] = "running"
    BY <1>4 DEF Split
  <2> QED
    BY <2>1, <2>2, <2>3
<1>5. ASSUME NEW u \in Units, GiveUp(u) PROVE EndInv'
  BY <1>5 DEF GiveUp
<1>6. CASE Conclude
  BY <1>6 DEF Conclude, Verdict, With, Running
<1>7. CASE UNCHANGED vars
  BY <1>7 DEF vars
<1> QED
  BY <1>1, <1>2, <1>3, <1>4, <1>5, <1>6, <1>7 DEF Next

LEMMA EndSays ==
  ASSUME TypeOK, PathsCovered, EndInv
  PROVE  NothingOverlooked /\ CompletedIsWhole
<1>1. session # "reviewing" =>
        \A p \in Paths : \E u \in Units : p \in PathsOf(u) /\ status[u] \in {"completed", "skipped"}
  <2> SUFFICES ASSUME session # "reviewing", NEW p \in Paths
               PROVE  \E u \in Units : p \in PathsOf(u) /\ status[u] \in {"completed", "skipped"}
    OBVIOUS
  <2>1. PICK u \in Leaves : p \in PathsOf(u)
    BY DEF PathsCovered
  <2> QED
    BY <2>1 DEF Leaves, EndInv, TypeOK
<1>2. NothingOverlooked
  <2> SUFFICES ASSUME session # "reviewing", NEW p \in Paths
               PROVE  p \in Reviewed \cup Noted
    BY DEF NothingOverlooked
  <2>1. PICK u \in Units : p \in PathsOf(u) /\ status[u] \in {"completed", "skipped"}
    BY <1>1
  <2>2. CASE status[u] = "completed"
    BY <2>1, <2>2 DEF Reviewed, With
  <2>3. CASE status[u] = "skipped"
    BY <2>1, <2>3 DEF EndInv, Noted
  <2> QED
    BY <2>1, <2>2, <2>3
<1>3. ASSUME session = "completed" PROVE Reviewed = Paths
  <2>1. Paths \subseteq Reviewed
    BY <1>1, <1>3 DEF Reviewed, With, EndInv
  <2>2. Reviewed \subseteq Paths
    BY UnitBounds, HealConstants DEF Reviewed, With, Paths
  <2> QED
    BY <2>1, <2>2
<1> QED
  BY <1>2, <1>3 DEF CompletedIsWhole

LEMMA EndInit == Init => EndInv
  BY DEF Init, EndInv

\* A review ends with every path reviewed or in a noted gap.
THEOREM NothingIsOverlooked == Spec => []NothingOverlooked
<1>1. TypeInv => TypeOK
  BY DEF TypeInv
<1>2. TypeOK /\ PathsCovered /\ EndInv => NothingOverlooked
  BY EndSays
<1> QED
  BY <1>1, <1>2, TypeInit, TypeStep, CoverInit, CoverStep, EndInit, EndStep, PTL DEF Spec

\* A review without errors has reviewed every path.
THEOREM CompletedReviewsAreWhole == Spec => []CompletedIsWhole
<1>1. TypeInv => TypeOK
  BY DEF TypeInv
<1>2. TypeOK /\ PathsCovered /\ EndInv => CompletedIsWhole
  BY EndSays
<1> QED
  BY <1>1, <1>2, TypeInit, TypeStep, CoverInit, CoverStep, EndInit, EndStep, PTL DEF Spec

(***************************************************************************)
(* The ladder of strategies.                                               *)
(***************************************************************************)
fresh == "retry_fresh_context"
simple == "fallback_simple_runner"

CanSplit(u) == enableSplit /\ Cardinality(PathsOf(u)) >= minPathsToSplit

LEMMA NextOnLadder ==
  ASSUME NEW u
  PROVE  /\ used[u] = {} => nextHealStrategy(u) = fresh
         /\ used[u] = {fresh} => nextHealStrategy(u) = simple
         /\ used[u] = {fresh, simple} =>
              nextHealStrategy(u) = IF CanSplit(u) THEN "split_unit" ELSE "skip_with_gap_note"
         /\ used[u] = {fresh, simple, "split_unit"} =>
              nextHealStrategy(u) = "skip_with_gap_note"
<1> USE DEF fresh, simple, CanSplit, Open, HEAL_STRATEGY_ORDER
<1>1. ASSUME used[u] = {}
      PROVE  nextHealStrategy(u) = fresh
  <2>1. 1 \in Open(u)
    BY <1>1
  <2> QED
    BY <1>1, <2>1, NextIsOpen
<1>2. ASSUME used[u] = {fresh}
      PROVE  nextHealStrategy(u) = simple
  <2>1. 2 \in Open(u) /\ 1 \notin Open(u)
    BY <1>2
  <2> QED
    BY <1>2, <2>1, NextIsOpen
<1>3. ASSUME used[u] = {fresh, simple}
      PROVE  nextHealStrategy(u) = IF CanSplit(u) THEN "split_unit" ELSE "skip_with_gap_note"
  <2>1. /\ 4 \in Open(u) /\ 1 \notin Open(u) /\ 2 \notin Open(u)
        /\ 3 \in Open(u) <=> CanSplit(u)
    BY <1>3
  <2> QED
    BY <1>3, <2>1, NextIsOpen
<1>4. ASSUME used[u] = {fresh, simple, "split_unit"}
      PROVE  nextHealStrategy(u) = "skip_with_gap_note"
  <2>1. Open(u) = {4}
    BY <1>4
  <2> QED
    BY <1>4, <2>1, NextIsOpen
<1> QED
  BY <1>1, <1>2, <1>3, <1>4

Rungs(u) ==
  \/ attempt[u] = 1 /\ used[u] = {}
  \/ attempt[u] = 2 /\ used[u] = {fresh}
  \/ attempt[u] = 3 /\ used[u] = {fresh, simple}
  \/ attempt[u] = 4 /\ used[u] = {fresh, simple, "split_unit"}

\* Attempts and strategies climb together, and a gap is noted at the top only.
LadderInv ==
  /\ \A u \in Units : status[u] = "running" => Rungs(u)
  /\ \A u \in gaps : CanSplit(u) => "split_unit" \in used[u]

LEMMA LadderStep ==
  ASSUME maxUnitRetries >= 4
  PROVE  TypeInv /\ PathsCovered /\ EndInv /\ LadderInv /\ [Next]_vars => LadderInv'
<1> SUFFICES ASSUME TypeInv, PathsCovered, EndInv, LadderInv, [Next]_vars PROVE LadderInv'
  OBVIOUS
<1> USE DEF TypeInv, TypeOK, LadderInv
<1>1. ASSUME NEW u \in Units, Begin(u) PROVE LadderInv'
  <2>1. attempt'[u] = 1 /\ used'[u] = {} /\ u \notin gaps
    BY <1>1 DEF Begin, Untried, EndInv
  <2>2. \A v \in Units : v # u => /\ status'[v] = status[v]
                                 /\ attempt'[v] = attempt[v]
                                 /\ used'[v] = used[v]
    BY <1>1 DEF Begin
  <2>3. gaps' = gaps
    BY <1>1 DEF Begin
  <2> QED
    BY <2>1, <2>2, <2>3 DEF Rungs, CanSplit
<1>2. ASSUME NEW u \in Units, Succeed(u) PROVE LadderInv'
  BY <1>2 DEF Succeed, Rungs, CanSplit
<1>3. ASSUME NEW u \in Units, Retry(u) PROVE LadderInv'
  <2>1. /\ attempt'[u] = attempt[u] + 1
        /\ used'[u] = used[u] \cup {nextHealStrategy(u)}
        /\ u \notin gaps /\ gaps' = gaps /\ status' = status
    BY <1>3 DEF Retry, EndInv
  <2>2. \A v \in Units : v # u => attempt'[v] = attempt[v] /\ used'[v] = used[v]
    BY <1>3 DEF Retry
  <2>3. Rungs(u) /\ nextHealStrategy(u) # "skip_with_gap_note"
    BY <1>3 DEF Retry, Spent
  <2>4. Rungs(u)'
    BY <2>1, <2>3, NextOnLadder DEF Rungs
  <2> QED
    BY <2>1, <2>2, <2>4 DEF Rungs, CanSplit
<1>4. ASSUME NEW u \in Units, Split(u) PROVE LadderInv'
  <2>1. \A v \in Units : status'[v] = "running" =>
          v # u /\ status[v] = "running" /\ attempt'[v] = attempt[v] /\ used'[v] = used[v]
    BY <1>4 DEF Split
  <2>2. gaps' = gaps /\ u \notin gaps /\ \A v \in Units : v # u => used'[v] = used[v]
    BY <1>4 DEF Split, EndInv
  <2> QED
    BY <2>1, <2>2 DEF Rungs, CanSplit
<1>5. ASSUME NEW u \in Units, GiveUp(u) PROVE LadderInv'
  <2>1. Rungs(u) /\ Spent(u)
    BY <1>5 DEF GiveUp
  <2>2. CanSplit(u) => "split_unit" \in used[u]
    BY <2>1, NextOnLadder, HealConstants DEF Rungs, Spent, fresh, simple
  <2>3. /\ used'[u] = used[u] \cup {"skip_with_gap_note"}
        /\ gaps' = gaps \cup {u} /\ status'[u] = "skipped"
        /\ \A v \in Units : v # u => /\ status'[v] = status[v]
                                   /\ attempt'[v] = attempt[v]
                                   /\ used'[v] = used[v]
    BY <1>5 DEF GiveUp
  <2> QED
    BY <2>2, <2>3 DEF Rungs, CanSplit
<1>6. CASE Conclude \/ UNCHANGED vars
  BY <1>6 DEF Conclude, vars, Rungs, CanSplit
<1> QED
  BY <1>1, <1>2, <1>3, <1>4, <1>5, <1>6 DEF Next

LEMMA LadderInit == Init => LadderInv
  BY DEF Init, LadderInv

\* With four retries or more, no unit that can be split ends in a gap before
\* its halves were tried.
THEOREM GapsComeAfterSplits ==
  ASSUME maxUnitRetries >= 4
  PROVE  Spec => []GapOnlyAfterSplit
<1>1. TypeInv => TypeOK
  BY DEF TypeInv
<1>2. TypeInv /\ LadderInv => GapOnlyAfterSplit
  <2> SUFFICES ASSUME TypeInv, LadderInv, enableSplit, NEW u \in gaps
               PROVE  Cardinality(PathsOf(u)) < minPathsToSplit \/ "split_unit" \in used[u]
    BY DEF GapOnlyAfterSplit
  <2>1. Cardinality(PathsOf(u)) \in Nat
    BY UnitBounds, FS_Interval, FS_CardinalityType DEF TypeInv, TypeOK, PathsOf
  <2> QED
    BY <2>1, HealConstants DEF LadderInv, CanSplit
<1>3. TypeInv /\ PathsCovered /\ EndInv /\ LadderInv /\ [Next]_vars => LadderInv'
  BY LadderStep
<1> QED
  BY <1>1, <1>2, <1>3, TypeInit, TypeStep, CoverInit, CoverStep, EndInit, EndStep,
     LadderInit, PTL DEF Spec

\* A set of numbers has a least one.
LEMMA LeastNumber ==
  ASSUME NEW S \in SUBSET Nat, S # {}
  PROVE  \E x \in S : \A y \in S : x <= y
<1> DEFINE R == {ss \in Nat \X Nat : ss[1] < ss[2]}
<1>1. \A x, y \in Nat : ~(<<y, x>> \in R) => x <= y
  OBVIOUS
<1>2. IsWellFoundedOn(R, Nat)
  BY NatLessThanWellFounded, Zenon DEF OpToRel
<1> HIDE DEF R
<1>3. \E x \in S : \A y \in S : ~ (<<y, x>> \in R)
  BY <1>2, WFMin
<1> QED BY <1>1, <1>3

(***************************************************************************)
(* The roles of a unit.                                                    *)
(***************************************************************************)
RolePlaces == {"waiting", "woken", "entered", "deep", "simple", "settled"}
LedgerKeys == Roles \X {"deep", "simple"}

\* The count is that of the roles at work, and slots are neither exceeded nor left idle.
PoolInv ==
  /\ place \in [Roles -> RolePlaces] /\ active \in Nat
  /\ active = Cardinality(Live) /\ PoolBound /\ NoIdleSlot

\* What the ledger says of a role at each of its places.
RoleShown(r) ==
  /\ place[r] # "settled" => answer[r] = "none"
  /\ place[r] \in {"waiting", "woken", "entered"} => ledger[<<r, "simple">>] = "none"
  /\ r \in abandoned => answer[r] = "gap"
  /\ \A runner \in {"deep", "simple"} : ledger[<<r, runner>>] = "truncated" => answer[r] = "gap"
  /\ answer[r] = "swallowed" =>
       \/ ledger[<<r, "deep">>] = "error" \/ ledger[<<r, "simple">>] = "error"
       \/ tools = "missing" /\ ledger[<<r, "simple">>] = "none"

RolesInv == RolesTypeOK /\ PoolInv /\ \A r \in Roles : RoleShown(r)

LEMMA RolesAreFinite ==
  /\ IsFiniteSet(Roles) /\ Roles \subseteq Nat
  /\ \A S \in SUBSET Roles : IsFiniteSet(S) /\ Cardinality(S) \in Nat
<1>1. NumRoles \in Int /\ 1 \in Int /\ Roles \subseteq Nat
  BY UnitRolesConstants DEF Roles
<1>2. IsFiniteSet(Roles)
  BY <1>1, FS_Interval DEF Roles
<1>3. ASSUME NEW S \in SUBSET Roles PROVE IsFiniteSet(S) /\ Cardinality(S) \in Nat
  BY <1>2, FS_Subset, FS_CardinalityType
<1> QED BY <1>1, <1>2, <1>3

LEMMA RolesStart == RolesInit => RolesInv
<1> SUFFICES ASSUME RolesInit PROVE RolesInv
  OBVIOUS
<1> USE DEF RolesInit
<1>1. Entrants = 1..(IF NumRoles <= PoolSize THEN NumRoles ELSE PoolSize)
  BY UnitRolesConstants DEF Entrants, Roles
<1>2. Cardinality(Entrants) = IF NumRoles <= PoolSize THEN NumRoles ELSE PoolSize
  BY <1>1, FS_Interval, UnitRolesConstants
<1>3. /\ Live = Entrants /\ Woken = {} /\ Waiting = Roles \ Entrants
  BY DEF Live, Woken, Waiting, Entrants
<1>4. PoolInv
  <2>1. Cardinality(Woken) = 0
    BY <1>3, FS_EmptySet
  <2>2. Waiting # {} => ~(NumRoles <= PoolSize)
    BY <1>1, <1>3, UnitRolesConstants DEF Roles
  <2>3. active \in Nat /\ place \in [Roles -> RolePlaces]
    BY <1>2, UnitRolesConstants DEF RolePlaces
  <2> QED BY <1>2, <1>3, <2>1, <2>2, <2>3, UnitRolesConstants DEF PoolInv, PoolBound, NoIdleSlot
<1>5. RolesTypeOK
  BY <1>4, UnitRolesConstants DEF RolesTypeOK, PoolInv, RolePlaces
<1>6. \A r \in Roles : RoleShown(r)
  BY DEF RoleShown
<1> QED BY <1>4, <1>5, <1>6 DEF RolesInv

\* A slot is given back: the first role that waits is woken for it.
LEMMA NextWaiterIsOne ==
  ASSUME NEW n \in Nat, n < PoolSize
  PROVE  IF Waiting = {} THEN NextWaiter(n) = {}
         ELSE \E q \in Waiting : NextWaiter(n) = {q}
<1>1. Waiting \subseteq Nat
  BY RolesAreFinite DEF Waiting
<1>2. NextWaiter(n) = {r \in Waiting : \A q \in Waiting : r <= q}
  BY UnitRolesConstants DEF NextWaiter
<1>3. CASE Waiting # {}
  <2>1. PICK q \in Waiting : \A p \in Waiting : q <= p
    BY <1>1, <1>3, LeastNumber
  <2>2. \A p \in Waiting : (\A s \in Waiting : p <= s) <=> p = q
    BY <1>1, <2>1
  <2>3. NextWaiter(n) = {q}
    BY <1>2, <2>2
  <2> QED BY <1>3, <2>3
<1> QED BY <1>2, <1>3

LEMMA PoolSettles ==
  ASSUME PoolInv, NEW r \in Live, NEW a, Settle(r, a)
  PROVE  PoolInv' /\ place'[r] = "settled"
         /\ \A q \in Roles \ {r} : \/ place'[q] = place[q]
                                   \/ place[q] = "waiting" /\ place'[q] = "woken"
<1> DEFINE N == NextWaiter(active - 1)
<1>1. /\ place \in [Roles -> RolePlaces] /\ r \in Roles /\ place[r] \in {"entered", "deep", "simple"}
      /\ Live \subseteq Roles /\ Woken \subseteq Roles /\ Waiting \subseteq Roles
  BY DEF PoolInv, Live, Woken, Waiting
<1>2. /\ Cardinality(Live) \in Nat /\ Cardinality(Woken) \in Nat /\ IsFiniteSet(Live) /\ IsFiniteSet(Woken)
      /\ Cardinality(Live \ {r}) = Cardinality(Live) - 1
  BY <1>1, RolesAreFinite, FS_RemoveElement
<1>3. active \in Nat /\ active # 0 /\ active <= PoolSize /\ active = Cardinality(Live)
  <2>1. Cardinality(Live) # 0
    BY <1>2, FS_EmptySet
  <2> QED BY <1>2, <2>1, UnitRolesConstants DEF PoolInv, PoolBound
<1>4. IF Waiting = {} THEN N = {} ELSE \E q \in Waiting : N = {q}
  BY <1>3, NextWaiterIsOne, UnitRolesConstants
<1>5. active' = active - 1 /\ place' = [q \in Roles |-> IF q = r THEN "settled"
                               ELSE IF q \in N THEN "woken" ELSE place[q]]
  BY DEF Settle
<1> HIDE DEF N
<1>6. N \subseteq Waiting /\ r \notin Waiting /\ r \notin Woken
  BY <1>1, <1>4 DEF Waiting, Woken
<1>7. /\ Live' = Live \ {r} /\ Woken' = Woken \cup N /\ Waiting' = Waiting \ N
      /\ place' \in [Roles -> RolePlaces]
  BY <1>1, <1>5, <1>6 DEF Live, Woken, Waiting, RolePlaces
<1>8. ASSUME Waiting = {} PROVE PoolInv'
  <2>1. Live' = Live \ {r} /\ Woken' = Woken /\ Waiting' = {}
    BY <1>4, <1>7, <1>8
  <2>2. Cardinality(Live') = Cardinality(Live) - 1 /\ Cardinality(Woken') = Cardinality(Woken)
    BY <1>2, <2>1
  <2>3. active' = Cardinality(Live') /\ active' \in Nat
    BY <1>2, <1>3, <1>5, <2>2
  <2>4. PoolBound'
    BY <1>2, <2>2, UnitRolesConstants DEF PoolInv, PoolBound
  <2> QED BY <1>7, <2>1, <2>3, <2>4 DEF PoolInv, NoIdleSlot
<1>9. ASSUME Waiting # {} PROVE PoolInv'
  <2>1. PICK q \in Waiting : N = {q}
    BY <1>4, <1>9
  <2>2. Cardinality(Woken') = Cardinality(Woken) + 1
    BY <1>1, <1>2, <1>7, <2>1, FS_AddElement DEF Waiting, Woken
  <2>3. Cardinality(Live') = Cardinality(Live) - 1
    BY <1>2, <1>7
  <2>4. active' = Cardinality(Live') /\ active' \in Nat
    BY <1>2, <1>3, <1>5, <2>3
  <2>5. PoolBound' /\ NoIdleSlot'
    BY <1>2, <1>9, <2>2, <2>3, UnitRolesConstants DEF PoolInv, PoolBound, NoIdleSlot
  <2> QED BY <1>7, <2>4, <2>5 DEF PoolInv
<1>10. \A q \in Roles \ {r} : \/ place'[q] = place[q]
                              \/ place[q] = "waiting" /\ place'[q] = "woken"
  <2>1. \A q \in N : place[q] = "waiting"
    BY <1>6 DEF Waiting
  <2> QED BY <1>5, <2>1
<1> QED BY <1>1, <1>5, <1>8, <1>9, <1>10

LEMMA PoolEnters ==
  ASSUME PoolInv, NEW r \in Roles, Enter(r)
  PROVE  PoolInv'
<1>1. /\ place \in [Roles -> RolePlaces] /\ place[r] = "woken"
      /\ place' = [place EXCEPT ![r] = "entered"] /\ active' = active + 1
      /\ Live \subseteq Roles /\ Woken \subseteq Roles
  BY DEF PoolInv, Enter, Woken, Live
<1>2. /\ Live' = Live \cup {r} /\ Woken' = Woken \ {r} /\ Waiting' = Waiting
      /\ r \notin Live /\ r \in Woken /\ place' \in [Roles -> RolePlaces]
  BY <1>1 DEF Live, Woken, Waiting, RolePlaces
<1>3. /\ Cardinality(Live) \in Nat /\ Cardinality(Woken) \in Nat /\ IsFiniteSet(Live) /\ IsFiniteSet(Woken)
  BY <1>1, RolesAreFinite
<1>4. Cardinality(Live') = Cardinality(Live) + 1 /\ Cardinality(Woken') = Cardinality(Woken) - 1
  BY <1>2, <1>3, FS_AddElement, FS_RemoveElement
<1> QED BY <1>1, <1>2, <1>3, <1>4, UnitRolesConstants DEF PoolInv, PoolBound, NoIdleSlot

\* A role at work that stays so.
LEMMA PoolStays ==
  ASSUME PoolInv, NEW r \in Live, NEW p \in {"entered", "deep", "simple"},
         place' = [place EXCEPT ![r] = p], UNCHANGED active
  PROVE  PoolInv'
<1>1. /\ Live' = Live /\ Woken' = Woken /\ Waiting' = Waiting /\ place' \in [Roles -> RolePlaces]
  BY DEF PoolInv, Live, Woken, Waiting, RolePlaces
<1> QED BY <1>1 DEF PoolInv, PoolBound, NoIdleSlot

\* What happens to r leaves what is known of the other roles.
LEMMA OthersShown ==
  ASSUME NEW r \in Roles, \A q \in Roles : RoleShown(q),
         \A q \in Roles \ {r} : \/ place'[q] = place[q]
                                \/ place[q] = "waiting" /\ place'[q] = "woken",
         \A q \in Roles \ {r} : /\ answer'[q] = answer[q] /\ (q \in abandoned' => q \in abandoned)
                                /\ ledger'[<<q, "deep">>] = ledger[<<q, "deep">>]
                                /\ ledger'[<<q, "simple">>] = ledger[<<q, "simple">>],
         UNCHANGED tools
  PROVE  \A q \in Roles \ {r} : RoleShown(q)'
<1> TAKE q \in Roles \ {r}
<1>1. \A x \in {"deep", "simple"} : ledger'[<<q, x>>] = ledger[<<q, x>>]
  OBVIOUS
<1>2. RoleShown(q) /\ answer'[q] = answer[q]
  OBVIOUS
<1>3. place'[q] # "settled" => place[q] # "settled"
  OBVIOUS
<1>4. place'[q] \in {"waiting", "woken", "entered"} => place[q] \in {"waiting", "woken", "entered"}
  OBVIOUS
<1> QED BY <1>1, <1>2, <1>3, <1>4 DEF RoleShown

LedgerEntries == {"none", "open", "ok", "error", "truncated"}

\* A role at work ends: its answer, its ledger entry and what it leaves running.
LEMMA RoleSettles ==
  ASSUME RolesInv, NEW r \in Live, NEW a \in {"reported", "clean", "gap", "swallowed"}, Settle(r, a),
         ledger' \in [LedgerKeys -> LedgerEntries],
         \A q \in Roles \ {r}, x \in {"deep", "simple"} : ledger'[<<q, x>>] = ledger[<<q, x>>],
         \A x \in {"deep", "simple"} : ledger'[<<r, x>>] = "truncated" => a = "gap",
         a = "swallowed" => \/ ledger'[<<r, "deep">>] = "error" \/ ledger'[<<r, "simple">>] = "error"
                            \/ tools = "missing" /\ ledger'[<<r, "simple">>] = "none",
         abandoned' \in {abandoned, abandoned \cup {r}}, a # "gap" => UNCHANGED abandoned,
         UNCHANGED httpCalls
  PROVE  RolesInv'
<1>1. /\ PoolInv' /\ place'[r] = "settled" /\ r \in Roles /\ place[r] # "settled"
      /\ \A q \in Roles \ {r} : \/ place'[q] = place[q]
                                \/ place[q] = "waiting" /\ place'[q] = "woken"
  BY PoolSettles DEF RolesInv, Live
<1>2. /\ answer' = [answer EXCEPT ![r] = a] /\ UNCHANGED <<tools, toolsRequired, unitEnd>>
  BY DEF Settle, toolVars
<1>3. RolesTypeOK'
  BY <1>1, <1>2 DEF RolesInv, RolesTypeOK, PoolInv, RolePlaces, LedgerKeys, LedgerEntries
<1>4. answer'[r] = a /\ \A q \in Roles \ {r} : answer'[q] = answer[q]
  BY <1>1, <1>2 DEF RolesInv, RolesTypeOK
<1>5. \A q \in Roles \ {r} : RoleShown(q)'
  BY <1>1, <1>2, <1>4, OthersShown DEF RolesInv
<1>6. r \notin abandoned
  BY <1>1 DEF RolesInv, RoleShown
<1>7. RoleShown(r)'
  BY <1>1, <1>2, <1>4, <1>6 DEF RoleShown
<1> QED BY <1>1, <1>3, <1>5, <1>7 DEF RolesInv

\* A role at work goes on as the tool-using agent or as the single completion.
LEMMA RoleGoesOn ==
  ASSUME RolesInv, NEW r \in Live, NEW p \in {"deep", "simple"},
         place' = [place EXCEPT ![r] = p],
         ledger' \in [LedgerKeys -> LedgerEntries],
         \A q \in Roles \ {r}, x \in {"deep", "simple"} : ledger'[<<q, x>>] = ledger[<<q, x>>],
         \A x \in {"deep", "simple"} : ledger'[<<r, x>>] # "truncated" \/ ledger'[<<r, x>>] = ledger[<<r, x>>],
         UNCHANGED <<active, toolVars, httpCalls, answer, abandoned, unitEnd>>
  PROVE  RolesInv'
<1>1. /\ r \in Roles /\ place \in [Roles -> RolePlaces] /\ place[r] # "settled"
      /\ UNCHANGED <<tools, toolsRequired>>
  BY DEF RolesInv, PoolInv, Live, toolVars
<1>2. place'[r] = p /\ \A q \in Roles \ {r} : place'[q] = place[q]
  BY <1>1
<1>3. PoolInv'
  BY PoolStays DEF RolesInv
<1>4. RolesTypeOK'
  BY <1>1, <1>3 DEF RolesInv, RolesTypeOK, PoolInv, RolePlaces, LedgerKeys, LedgerEntries
<1>5. \A q \in Roles \ {r} : RoleShown(q)'
  BY <1>1, <1>2, OthersShown DEF RolesInv
<1>6. RoleShown(r)'
  BY <1>1, <1>2 DEF RolesInv, RoleShown
<1> QED BY <1>3, <1>4, <1>5, <1>6 DEF RolesInv

LEMMA RoleLaunches ==
  ASSUME RolesInv, NEW r \in Roles, Launch(r) \/ DeepFails(r)
  PROVE  RolesInv'
<1>1. /\ r \in Live /\ place[r] \in {"entered", "deep"} /\ answer[r] = "none"
      /\ ledger \in [LedgerKeys -> LedgerEntries]
      /\ \A x \in {"deep", "simple"} : ledger[<<r, x>>] # "truncated"
      /\ place[r] = "entered" => ledger[<<r, "simple">>] = "none"
  BY DEF RolesInv, RolesTypeOK, RoleShown, Launch, DeepFails, Live, LedgerKeys, LedgerEntries
<1>2. ASSUME NEW l \in [LedgerKeys -> LedgerEntries], FallBack(r, l),
             \A q \in Roles \ {r}, x \in {"deep", "simple"} : l[<<q, x>>] = ledger[<<q, x>>],
             \A x \in {"deep", "simple"} : l[<<r, x>>] # "truncated"
      PROVE  RolesInv'
  <2>1. /\ ledger' = [l EXCEPT ![<<r, "simple">>] = "open"] /\ place' = [place EXCEPT ![r] = "simple"]
        /\ UNCHANGED <<active, toolVars, httpCalls, answer, abandoned, unitEnd>>
    BY <1>2 DEF FallBack
  <2>2. /\ ledger' \in [LedgerKeys -> LedgerEntries] /\ ledger'[<<r, "simple">>] = "open"
        /\ ledger'[<<r, "deep">>] = l[<<r, "deep">>]
        /\ \A q \in Roles \ {r}, x \in {"deep", "simple"} : ledger'[<<q, x>>] = ledger[<<q, x>>]
    BY <1>1, <1>2, <2>1 DEF LedgerKeys, LedgerEntries, Live
  <2> QED BY <1>1, <1>2, <2>1, <2>2, RoleGoesOn
<1>4. CASE /\ place[r] = "entered" /\ place' = [place EXCEPT ![r] = "deep"]
           /\ ledger' = [ledger EXCEPT ![<<r, "deep">>] = "open"]
           /\ UNCHANGED <<active, toolVars, httpCalls, answer, abandoned, unitEnd>>
  <2> DEFINE new == ledger'
  <2>1. new = [ledger EXCEPT ![<<r, "deep">>] = "open"]
    BY <1>4
  <2> HIDE DEF new
  <2>2. /\ new \in [LedgerKeys -> LedgerEntries]
        /\ new[<<r, "deep">>] = "open" /\ new[<<r, "simple">>] = ledger[<<r, "simple">>]
        /\ \A q \in Roles \ {r}, x \in {"deep", "simple"} : new[<<q, x>>] = ledger[<<q, x>>]
    BY <1>1, <2>1 DEF LedgerKeys, LedgerEntries
  <2> QED BY <1>1, <1>4, <2>2, RoleGoesOn DEF new
<1>5. CASE /\ place[r] = "entered" /\ tools = "missing" /\ Settle(r, "swallowed")
           /\ UNCHANGED <<httpCalls, ledger, abandoned>>
  BY <1>1, <1>5, RoleSettles
<1>6. CASE FallBack(r, ledger)
  BY <1>1, <1>2, <1>6
<1>7. CASE Settle(r, "swallowed") /\ ledger' = Failed(r, "deep") /\ UNCHANGED <<httpCalls, abandoned>>
  <2> DEFINE new == ledger'
  <2>1. new = [ledger EXCEPT ![<<r, "deep">>] = "error"]
    BY <1>7 DEF Failed
  <2> HIDE DEF new
  <2>2. /\ new \in [LedgerKeys -> LedgerEntries]
        /\ new[<<r, "deep">>] = "error" /\ new[<<r, "simple">>] = ledger[<<r, "simple">>]
        /\ \A q \in Roles \ {r}, x \in {"deep", "simple"} : new[<<q, x>>] = ledger[<<q, x>>]
    BY <1>1, <2>1 DEF LedgerKeys, LedgerEntries
  <2> QED BY <1>1, <1>7, <2>2, RoleSettles DEF new
<1>8. CASE FallBack(r, Failed(r, "deep"))
  <2> DEFINE new == Failed(r, "deep")
  <2>1. new = [ledger EXCEPT ![<<r, "deep">>] = "error"] /\ FallBack(r, new)
    BY <1>8 DEF Failed
  <2> HIDE DEF new
  <2>2. /\ new \in [LedgerKeys -> LedgerEntries]
        /\ new[<<r, "deep">>] = "error" /\ new[<<r, "simple">>] = ledger[<<r, "simple">>]
        /\ \A q \in Roles \ {r}, x \in {"deep", "simple"} : new[<<q, x>>] = ledger[<<q, x>>]
    BY <1>1, <2>1 DEF LedgerKeys, LedgerEntries
  <2>3. \A x \in {"deep", "simple"} : new[<<r, x>>] # "truncated"
    BY <1>1, <2>2
  <2> QED BY <1>2, <2>1, <2>2, <2>3
<1> QED BY <1>4, <1>5, <1>6, <1>7, <1>8 DEF Launch, DeepFails

\* The ends of a run: its ledger entry says what the role's answer is.
LEMMA RoleEnds ==
  ASSUME RolesInv, NEW r \in Roles, NEW runner \in {"deep", "simple"}, place[r] = runner,
         NEW a \in {"reported", "clean", "gap", "swallowed"}, Settle(r, a),
         NEW e \in {"ok", "error", "truncated"}, ledger' = [ledger EXCEPT ![<<r, runner>>] = e],
         e = "truncated" => a = "gap", a = "swallowed" => e = "error",
         abandoned' \in {abandoned, abandoned \cup {r}}, a # "gap" => UNCHANGED abandoned,
         UNCHANGED httpCalls
  PROVE  RolesInv'
<1>1. /\ r \in Live /\ answer[r] = "none" /\ ledger \in [LedgerKeys -> LedgerEntries]
      /\ \A x \in {"deep", "simple"} : ledger[<<r, x>>] # "truncated"
  BY DEF RolesInv, RolesTypeOK, RoleShown, Live, LedgerKeys, LedgerEntries
<1>2. /\ ledger' \in [LedgerKeys -> LedgerEntries] /\ ledger'[<<r, runner>>] = e
      /\ \A x \in {"deep", "simple"} : x # runner => ledger'[<<r, x>>] = ledger[<<r, x>>]
      /\ \A q \in Roles \ {r}, x \in {"deep", "simple"} : ledger'[<<q, x>>] = ledger[<<q, x>>]
  BY <1>1 DEF LedgerKeys, LedgerEntries
<1>3. \A x \in {"deep", "simple"} : ledger'[<<r, x>>] = "truncated" => a = "gap"
  BY <1>1, <1>2
<1> QED BY <1>1, <1>2, <1>3, RoleSettles

\* An abandoned completion may try again, or end; then its entry is no longer a
\* truncated one, and the role's answer stays the gap.
LEMMA RoleLate ==
  ASSUME RolesInv, NEW r \in Roles, RetryCall(r) \/ LateEnd(r)
  PROVE  RolesInv'
<1>1. CASE RetryCall(r)
  <2>1. /\ httpCalls[r] < LlmRetries /\ httpCalls' = [httpCalls EXCEPT ![r] = httpCalls[r] + 1]
        /\ UNCHANGED <<place, active, tools, toolsRequired, answer, ledger, abandoned, unitEnd>>
    BY <1>1 DEF RetryCall, RetriesLeft, toolVars
  <2>2. httpCalls' \in [Roles -> 0..LlmRetries]
    BY <2>1, UnitRolesConstants DEF RolesInv, RolesTypeOK
  <2>3. PoolInv'
    BY <2>1 DEF RolesInv, PoolInv, PoolBound, NoIdleSlot, Live, Woken, Waiting
  <2> QED BY <2>1, <2>2, <2>3 DEF RolesInv, RolesTypeOK, RoleShown
<1>2. CASE LateEnd(r)
  <2>1. PICK e \in {"ok", "error"} : ledger' = [ledger EXCEPT ![<<r, "simple">>] = e]
    BY <1>2 DEF LateEnd
  <2>2. /\ r \in abandoned /\ abandoned' = abandoned \ {r} /\ answer[r] = "gap"
        /\ UNCHANGED <<place, active, tools, toolsRequired, httpCalls, answer, unitEnd>>
    BY <1>2 DEF LateEnd, toolVars, RolesInv, RoleShown
  <2>3. /\ ledger' \in [LedgerKeys -> LedgerEntries] /\ ledger'[<<r, "simple">>] = e
        /\ ledger'[<<r, "deep">>] = ledger[<<r, "deep">>]
        /\ \A q \in Roles \ {r}, x \in {"deep", "simple"} : ledger'[<<q, x>>] = ledger[<<q, x>>]
    BY <2>1 DEF RolesInv, RolesTypeOK, LedgerKeys, LedgerEntries
  <2>4. PoolInv'
    BY <2>2 DEF RolesInv, PoolInv, PoolBound, NoIdleSlot, Live, Woken, Waiting
  <2>5. RolesTypeOK'
    BY <2>2, <2>3 DEF RolesInv, RolesTypeOK, LedgerKeys, LedgerEntries
  <2>6. \A q \in Roles \ {r} : RoleShown(q)'
    BY <2>2, <2>3, OthersShown DEF RolesInv
  <2>7. RoleShown(r)'
    BY <2>2, <2>3 DEF RolesInv, RoleShown
  <2> QED BY <2>4, <2>5, <2>6, <2>7 DEF RolesInv
<1> QED BY <1>1, <1>2

LEMMA RoleEnters ==
  ASSUME RolesInv, NEW r \in Roles, Enter(r)
  PROVE  RolesInv'
<1>1. /\ place[r] = "woken" /\ place' = [place EXCEPT ![r] = "entered"] /\ place \in [Roles -> RolePlaces]
      /\ UNCHANGED <<tools, toolsRequired, httpCalls, answer, ledger, abandoned, unitEnd>>
  BY DEF Enter, Woken, toolVars, RolesInv, PoolInv
<1>2. PoolInv'
  BY PoolEnters DEF RolesInv
<1>3. RolesTypeOK'
  BY <1>1, <1>2 DEF RolesInv, RolesTypeOK, PoolInv, RolePlaces
<1>4. \A q \in Roles \ {r} : RoleShown(q)'
  BY <1>1, OthersShown DEF RolesInv
<1>5. RoleShown(r)'
  BY <1>1 DEF RolesInv, RoleShown
<1> QED BY <1>2, <1>3, <1>4, <1>5 DEF RolesInv

LEMMA RoleStepKeeps ==
  ASSUME RolesInv, RolesNext
  PROVE  RolesInv'
<1>1. CASE EndUnit
  <2>1. unitEnd' = "completed" /\ UNCHANGED <<place, active, tools, toolsRequired, httpCalls, answer,
                                             ledger, abandoned>>
    BY <1>1 DEF EndUnit, toolVars
  <2>2. PoolInv'
    BY <2>1 DEF RolesInv, PoolInv, PoolBound, NoIdleSlot, Live, Woken, Waiting
  <2> QED BY <2>1, <2>2 DEF RolesInv, RolesTypeOK, RoleShown
<1>2. ASSUME NEW r \in Roles, DeepAnswers(r) PROVE RolesInv'
  BY <1>2, RoleEnds DEF DeepAnswers
<1>3. ASSUME NEW r \in Roles, DeepTimesOut(r) PROVE RolesInv'
  BY <1>3, RoleEnds DEF DeepTimesOut, TimeOut
<1>4. ASSUME NEW r \in Roles, SimpleAnswers(r) PROVE RolesInv'
  BY <1>4, RoleEnds DEF SimpleAnswers
<1>5. ASSUME NEW r \in Roles, SimpleFails(r) PROVE RolesInv'
  BY <1>5, RoleEnds DEF SimpleFails, Failed
<1>6. ASSUME NEW r \in Roles, SimpleTimesOut(r) PROVE RolesInv'
  BY <1>6, RoleEnds DEF SimpleTimesOut, TimeOut
<1> QED BY <1>1, <1>2, <1>3, <1>4, <1>5, <1>6, RoleEnters, RoleLaunches, RoleLate DEF RolesNext, RoleStep

LEMMA RolesStutter ==
  ASSUME RolesInv, UNCHANGED roleVars
  PROVE  RolesInv'
BY DEF roleVars, toolVars, RolesInv, RolesTypeOK, PoolInv, PoolBound, NoIdleSlot, Live, Woken, Waiting,
       RoleShown

LEMMA RolesAccountedFollows == RolesInv => RolesAccounted
<1> SUFFICES ASSUME RolesInv PROVE RolesAccounted
  OBVIOUS
<1>1. PoolBound /\ NoIdleSlot
  BY DEF RolesInv, PoolInv
<1>2. TruncatedLeavesGap
  BY DEF RolesInv, RoleShown, TruncatedLeavesGap
<1>3. LedgerShowsLoss
  BY DEF RolesInv, RoleShown, LedgerShowsLoss
<1> QED BY <1>1, <1>2, <1>3 DEF RolesAccounted

\* For every number of roles, slots and retries: a unit's roles use the slots of the pool,
\* neither more nor less, a role that was cut off leaves a gap, and one whose error is
\* swallowed shows in the ledger, however late its abandoned work ends.
THEOREM RolesStayAccounted == RolesSpec => [](RolesTypeOK /\ RolesAccounted)
<1>1. RolesInv /\ [RolesNext]_roleVars => RolesInv'
  BY RoleStepKeeps, RolesStutter
<1>2. RolesInv => RolesTypeOK /\ RolesAccounted
  BY RolesAccountedFollows DEF RolesInv
<1> QED BY RolesStart, <1>1, <1>2, PTL DEF RolesSpec

(***************************************************************************)
(* The bridge to the graph server.                                         *)
(***************************************************************************)
CallerStages == {"idle", "starting", "notifying", "ready", "calling", "failed", "done"}
KidStates == {"unborn", "up", "signalled", "exiting", "gone"}

\* Ids are given out once: what a child has yet to answer under the id that a caller waits
\* for is that caller's own request.
IdsAreOnes ==
  /\ \A c \in Callers : request[c] < nextId
  /\ \A a \in asked : a.id < nextId
  /\ \A a \in asked, c \in Callers : request[c] = a.id => c = a.caller

BridgeInv == BridgeTypeOK /\ IdsAreOnes /\ AnswersMatch /\ ClosedIsQuiet

LEMMA BridgeStart == BridgeInit => BridgeInv
<1> SUFFICES ASSUME BridgeInit PROVE BridgeInv
  OBVIOUS
<1> USE DEF BridgeInit
<1>1. BridgeTypeOK
  <2>1. 0 \in 0..MaxCalls /\ 0 \in 0..MaxSpawns /\ 1 \in 1..(MaxCalls + 1)
    BY GraphBridgeConstants
  <2>2. stage \in [Callers -> CallerStages] /\ request \in [Callers -> 0..MaxCalls]
    BY <2>1 DEF CallerStages
  <2>3. kid \in [Kids -> KidStates]
    BY DEF KidStates
  <2> QED BY <2>1, <2>2, <2>3 DEF BridgeTypeOK, CallerStages, KidStates
<1>2. IdsAreOnes /\ AnswersMatch /\ ClosedIsQuiet
  BY DEF IdsAreOnes, AnswersMatch, ClosedIsQuiet, Waits
<1> QED BY <1>1, <1>2 DEF BridgeInv

\* The types of what callers and children have.
LEMMA BridgeTypes ==
  BridgeInv => /\ stage \in [Callers -> CallerStages] /\ request \in [Callers -> 0..MaxCalls]
               /\ kid \in [Kids -> KidStates] /\ child \in 0..MaxSpawns
               /\ nextId \in Nat /\ MaxCalls \in Nat /\ MaxSpawns \in Nat
BY GraphBridgeConstants DEF BridgeInv, BridgeTypeOK, CallerStages, KidStates

\* Requests that end, by rejection or with an answer: no id is given out.
LEMMA RequestsEnd ==
  ASSUME BridgeInv, NEW C \in SUBSET Callers,
         request' = NoLonger(C), stage' \in [Callers -> CallerStages],
         \A c \in C : stage'[c] \in {"failed", "notifying", "done"},
         \A c \in Callers \ C : stage'[c] = stage[c],
         kid' \in [Kids -> KidStates],
         child' \in {0, child}, started' \in BOOLEAN, residue' \in BOOLEAN,
         asked' \subseteq asked, closed' \in BOOLEAN,
         closed' /\ ~closed => child' = 0 /\ C = {c \in Callers : Waits(c)},
         UNCHANGED <<nextId, crossed>>
  PROVE  BridgeInv'
<1> USE DEF BridgeInv
<1>1. \A c \in Callers : request'[c] = IF c \in C THEN 0 ELSE request[c]
  BY DEF NoLonger
<1>2. request' \in [Callers -> 0..MaxCalls]
  BY <1>1, BridgeTypes DEF NoLonger
<1>3. \A c \in Callers : request'[c] # 0 <=> stage'[c] \in {"starting", "calling"}
  <2> TAKE c \in Callers
  <2>1. CASE c \in C
    BY <1>1, <2>1
  <2>2. CASE c \notin C
    BY <1>1, <2>2 DEF BridgeTypeOK
  <2> QED BY <2>1, <2>2
<1>4. BridgeTypeOK'
  <2>1. child' \in 0..MaxSpawns /\ nextId' \in 1..(MaxCalls + 1)
    BY GraphBridgeConstants DEF BridgeTypeOK
  <2>2. crossed' \in BOOLEAN /\ asked' \subseteq [by : Kids, id : 1..MaxCalls, caller : Callers]
    BY DEF BridgeTypeOK
  <2> QED BY <1>2, <1>3, <2>1, <2>2 DEF BridgeTypeOK, CallerStages, KidStates
<1>5. IdsAreOnes'
  <2>1. \A a \in asked : a.id # 0
    BY DEF BridgeTypeOK
  <2> QED BY <1>1, <2>1, BridgeTypes DEF IdsAreOnes
<1>6. AnswersMatch' /\ ClosedIsQuiet'
  BY <1>1 DEF AnswersMatch, ClosedIsQuiet, Waits
<1> QED BY <1>4, <1>5, <1>6

\* Requests that are rejected.
LEMMA RejectEnds ==
  ASSUME BridgeInv, NEW C \in SUBSET Callers, Reject(C, kid),
         asked' \subseteq asked, residue' \in BOOLEAN, UNCHANGED <<closed, nextId, crossed>>
  PROVE  BridgeInv'
<1>1. /\ request' = NoLonger(C)
      /\ stage' = [c \in Callers |-> IF c \in C THEN "failed" ELSE stage[c]]
      /\ child' \in {0, child} /\ started' \in {FALSE, started}
      /\ kid' \in {kid, [k \in Kids |-> IF k = child /\ kid[k] = "up" THEN "signalled" ELSE kid[k]]}
  BY DEF Reject
<1>2. stage' \in [Callers -> CallerStages] /\ kid' \in [Kids -> KidStates]
  BY <1>1, BridgeTypes DEF CallerStages, KidStates
<1>3. started' \in BOOLEAN /\ closed' \in BOOLEAN
  BY <1>1 DEF BridgeInv, BridgeTypeOK
<1> QED BY <1>1, <1>2, <1>3, RequestsEnd

\* A request goes to child k.
LEMMA RequestSent ==
  ASSUME BridgeInv, NEW c \in Callers, NEW k \in Kids, Send(c, k), ~closed,
         stage' \in [Callers -> CallerStages], stage'[c] \in {"starting", "calling"},
         \A d \in Callers \ {c} : stage'[d] = stage[d],
         kid' \in [Kids -> KidStates], child' \in 0..MaxSpawns,
         UNCHANGED <<started, closed, residue, crossed>>
  PROVE  BridgeInv'
<1> USE DEF BridgeInv
<1> DEFINE new == [by |-> k, id |-> nextId, caller |-> c]
<1>1. /\ nextId <= MaxCalls /\ nextId' = nextId + 1 /\ asked' = asked \cup {new}
      /\ request' = [request EXCEPT ![c] = nextId]
  BY DEF Send, FreshId
<1>2. nextId \in 1..MaxCalls /\ nextId' \in 1..(MaxCalls + 1)
  BY <1>1, GraphBridgeConstants DEF BridgeTypeOK
<1>3. \A d \in Callers : request'[d] = IF d = c THEN nextId ELSE request[d]
  BY <1>1, BridgeTypes
<1>4. request' \in [Callers -> 0..MaxCalls]
  BY <1>1, <1>2, BridgeTypes
<1>5. \A d \in Callers : request'[d] # 0 <=> stage'[d] \in {"starting", "calling"}
  BY <1>2, <1>3 DEF BridgeTypeOK
<1>6. asked' \subseteq [by : Kids, id : 1..MaxCalls, caller : Callers]
  BY <1>1, <1>2 DEF BridgeTypeOK
<1>7. BridgeTypeOK'
  BY <1>2, <1>4, <1>5, <1>6 DEF BridgeTypeOK, CallerStages, KidStates
<1>8. IdsAreOnes'
  <2>1. \A d \in Callers : request[d] \in Nat /\ request[d] < nextId
    BY BridgeTypes DEF IdsAreOnes
  <2>2. \A a \in asked : a.id \in Nat /\ a.id < nextId
    BY GraphBridgeConstants DEF BridgeTypeOK, IdsAreOnes
  <2>3. \A d \in Callers : request'[d] < nextId'
    BY <1>1, <1>2, <1>3, <2>1
  <2>4. \A a \in asked' : a.id < nextId'
    BY <1>1, <1>2, <2>2
  <2>5. ASSUME NEW a \in asked', NEW d \in Callers, request'[d] = a.id PROVE d = a.caller
    <3>1. CASE a = new
      BY <1>2, <1>3, <2>1, <2>5, <3>1
    <3>2. CASE a \in asked
      BY <1>2, <1>3, <2>2, <2>5, <3>2 DEF IdsAreOnes
    <3> QED BY <1>1, <3>1, <3>2
  <2> QED BY <2>3, <2>4, <2>5 DEF IdsAreOnes
<1>9. AnswersMatch' /\ ClosedIsQuiet'
  BY DEF AnswersMatch, ClosedIsQuiet
<1> QED BY <1>7, <1>8, <1>9

\* A caller that moves without a request of its own.
LEMMA CallerMoves ==
  ASSUME BridgeInv, NEW c \in Callers, ~Waits(c),
         NEW s \in CallerStages \ {"starting", "calling"}, stage' = [stage EXCEPT ![c] = s],
         started' \in BOOLEAN, UNCHANGED <<request, child, kid, closed, nextId, asked, residue, crossed>>
  PROVE  BridgeInv'
<1> USE DEF BridgeInv
<1>1. BridgeTypeOK'
  BY DEF BridgeTypeOK, CallerStages, Waits
<1>2. IdsAreOnes' /\ AnswersMatch' /\ ClosedIsQuiet'
  BY DEF IdsAreOnes, AnswersMatch, ClosedIsQuiet, Waits
<1> QED BY <1>1, <1>2

LEMMA CallerSteps ==
  ASSUME BridgeInv, NEW c \in Callers,
         EnsureStarted(c) \/ Notified(c) \/ CallTool(c) \/ RequestTimesOut(c) \/ CallAgain(c)
  PROVE  BridgeInv'
<1>1. /\ stage \in [Callers -> CallerStages] /\ kid \in [Kids -> KidStates] /\ child \in 0..MaxSpawns
      /\ started \in BOOLEAN /\ residue \in BOOLEAN /\ {c} \in SUBSET Callers
      /\ stage[c] \notin {"starting", "calling"} => ~Waits(c)
      /\ closed => child = 0
  BY BridgeTypes DEF BridgeInv, BridgeTypeOK, Waits, ClosedIsQuiet
<1>2. CASE EnsureStarted(c)
  <2>1. CASE /\ stage' = [stage EXCEPT ![c] = "ready"]
             /\ UNCHANGED <<request, child, started, kid, nextId, asked>>
    BY <1>1, <1>2, <2>1, CallerMoves DEF EnsureStarted, CallerStages
  <2>2. CASE /\ stage' = [stage EXCEPT ![c] = "failed"]
             /\ UNCHANGED <<request, child, started, kid, nextId, asked>>
    BY <1>1, <1>2, <2>2, CallerMoves DEF EnsureStarted, CallerStages
  <2>3. ASSUME ~closed, NEW k \in Kids, kid' = [kid EXCEPT ![k] = "up"], child' = k, Send(c, k),
               stage' = [stage EXCEPT ![c] = "starting"], UNCHANGED started
        PROVE  BridgeInv'
    <3>1. stage' \in [Callers -> CallerStages] /\ kid' \in [Kids -> KidStates]
      BY <1>1, <2>3 DEF CallerStages, KidStates
    <3>2. child' \in 0..MaxSpawns
      BY <2>3, GraphBridgeConstants DEF Kids
    <3>3. stage'[c] = "starting" /\ \A d \in Callers \ {c} : stage'[d] = stage[d]
      BY <1>1, <2>3
    <3> QED BY <1>2, <2>3, <3>1, <3>2, <3>3, RequestSent DEF EnsureStarted
  <2> QED BY <1>2, <2>1, <2>2, <2>3 DEF EnsureStarted
<1>3. CASE Notified(c)
  <2>1. CASE stage' = [stage EXCEPT ![c] = "ready"] /\ started' = TRUE /\ UNCHANGED <<request, child, kid>>
    BY <1>1, <1>3, <2>1, CallerMoves DEF Notified, CallerStages
  <2>2. CASE Reject({c}, kid)
    BY <1>1, <1>3, <2>2, RejectEnds DEF Notified
  <2> QED BY <1>3, <2>1, <2>2 DEF Notified
<1>4. CASE CallTool(c)
  <2>1. CASE child = 0
    BY <1>1, <1>4, <2>1, RejectEnds DEF CallTool
  <2>2. CASE child # 0
    <3>1. child \in Kids /\ ~closed
      BY <1>1, <2>2, GraphBridgeConstants DEF Kids
    <3>2. /\ Send(c, child) /\ stage' = [stage EXCEPT ![c] = "calling"]
          /\ UNCHANGED <<child, started, kid, closed, residue, crossed>>
      BY <1>4, <2>2 DEF CallTool
    <3>3. stage' \in [Callers -> CallerStages] /\ stage'[c] = "calling"
          /\ \A d \in Callers \ {c} : stage'[d] = stage[d]
      BY <1>1, <3>2 DEF CallerStages
    <3> QED BY <1>1, <3>1, <3>2, <3>3, RequestSent
  <2> QED BY <2>1, <2>2
<1>5. CASE RequestTimesOut(c)
  BY <1>1, <1>5, RejectEnds DEF RequestTimesOut
<1>6. CASE CallAgain(c)
  BY <1>1, <1>6, CallerMoves DEF CallAgain, kidVars, CallerStages
<1> QED BY <1>2, <1>3, <1>4, <1>5, <1>6

LEMMA ChildSteps ==
  ASSUME BridgeInv,
         \/ CloseBridge \/ \E a \in asked : Answer(a)
         \/ \E k \in Kids : Die(k) \/ OnExit(k)
  PROVE  BridgeInv'
<1>1. /\ stage \in [Callers -> CallerStages] /\ kid \in [Kids -> KidStates]
      /\ started \in BOOLEAN /\ residue \in BOOLEAN /\ closed \in BOOLEAN /\ Pending \in SUBSET Callers
  BY BridgeTypes DEF BridgeInv, BridgeTypeOK, Pending
<1>2. CASE CloseBridge
  <2>1. stage' \in [Callers -> CallerStages] /\ kid' \in [Kids -> KidStates]
    BY <1>1, <1>2 DEF CloseBridge, CallerStages, KidStates
  <2>2. /\ request' = NoLonger(Pending) /\ child' = 0 /\ started' = FALSE /\ closed' = TRUE
        /\ UNCHANGED <<nextId, asked, residue, crossed>>
        /\ \A c \in Pending : stage'[c] = "failed"
        /\ \A c \in Callers \ Pending : stage'[c] = stage[c]
    BY <1>1, <1>2 DEF CloseBridge
  <2> QED BY <1>1, <2>1, <2>2, RequestsEnd DEF Pending
<1>3. ASSUME NEW a \in asked, Answer(a) PROVE BridgeInv'
  <2> DEFINE to == {c \in Callers : ~residue /\ request[c] = a.id}
  <2>1. /\ asked' \subseteq asked /\ residue' = FALSE /\ UNCHANGED <<closed, nextId>>
        /\ to \in SUBSET Callers
    BY <1>3 DEF Answer
  <2>2. CASE /\ crossed' = (crossed \/ \E c \in to : c # a.caller)
             /\ request' = NoLonger(to)
             /\ stage' = [c \in Callers |-> IF c \notin to THEN stage[c]
                                            ELSE IF stage[c] = "starting" THEN "notifying" ELSE "done"]
             /\ UNCHANGED <<child, started, kid>>
    <3>1. \A c \in to : c = a.caller
      BY DEF BridgeInv, IdsAreOnes
    <3>2. crossed' = crossed
      BY <2>2, <3>1 DEF BridgeInv, BridgeTypeOK
    <3>3. stage' \in [Callers -> CallerStages]
      BY <1>1, <2>2 DEF CallerStages
    <3>4. /\ \A c \in to : stage'[c] \in {"failed", "notifying", "done"}
          /\ \A c \in Callers \ to : stage'[c] = stage[c]
      BY <2>2
    <3> HIDE DEF to
    <3> QED BY <1>1, <2>1, <2>2, <3>2, <3>3, <3>4, RequestsEnd
  <2>3. CASE Reject(to, kid) /\ UNCHANGED crossed
    <3> HIDE DEF to
    <3> QED BY <2>1, <2>3, RejectEnds
  <2> QED BY <1>3, <2>2, <2>3 DEF Answer
<1>4. ASSUME NEW k \in Kids, Die(k) PROVE BridgeInv'
  <2>1. kid' \in [Kids -> KidStates] /\ residue' \in BOOLEAN /\ asked' \subseteq asked
    BY <1>1, <1>4 DEF Die, KidStates
  <2>2. UNCHANGED <<stage, request, child, started, closed, nextId, crossed>>
    BY <1>4 DEF Die
  <2>3. BridgeTypeOK'
    BY <2>1, <2>2 DEF BridgeInv, BridgeTypeOK, KidStates
  <2> QED BY <2>1, <2>2, <2>3 DEF BridgeInv, IdsAreOnes, AnswersMatch, ClosedIsQuiet, Waits
<1>5. ASSUME NEW k \in Kids, OnExit(k) PROVE BridgeInv'
  <2>1. stage' \in [Callers -> CallerStages] /\ kid' \in [Kids -> KidStates]
    BY <1>1, <1>5 DEF OnExit, CallerStages, KidStates
  <2>2. /\ request' = NoLonger(Pending) /\ child' = 0 /\ started' = FALSE
        /\ UNCHANGED <<closed, nextId, asked, residue, crossed>>
        /\ \A c \in Pending : stage'[c] = "failed"
        /\ \A c \in Callers \ Pending : stage'[c] = stage[c]
    BY <1>1, <1>5 DEF OnExit
  <2> QED BY <1>1, <2>1, <2>2, RequestsEnd
<1> QED BY <1>2, <1>3, <1>4, <1>5

LEMMA BridgeStep ==
  ASSUME BridgeInv, BridgeNext
  PROVE  BridgeInv'
BY CallerSteps, ChildSteps DEF BridgeNext

LEMMA BridgeStutter ==
  ASSUME BridgeInv, UNCHANGED bridgeVars
  PROVE  BridgeInv'
BY DEF bridgeVars, BridgeInv, BridgeTypeOK, IdsAreOnes, AnswersMatch, ClosedIsQuiet, Waits

\* For every number of callers, children and requests: an answer, however late and of
\* whichever child, is given to nobody but the caller that asked, and a bridge that was
\* closed has no child and lets nobody wait.
THEOREM BridgeStaysSound == BridgeSpec => [](BridgeTypeOK /\ BridgeSound)
<1>1. BridgeInv /\ [BridgeNext]_bridgeVars => BridgeInv'
  BY BridgeStep, BridgeStutter
<1>2. BridgeInv => BridgeTypeOK /\ BridgeSound
  BY DEF BridgeInv, BridgeSound
<1> QED BY BridgeStart, <1>1, <1>2, PTL DEF BridgeSpec

(***************************************************************************)
(* The three modules beside one another, as the run checks them.           *)
(***************************************************************************)
HealInv == TypeInv /\ PathsCovered /\ EndInv

LEMMA HealStarts == Init => HealInv
  BY TypeInit, CoverInit, EndInit DEF HealInv

LEMMA HealSteps == HealInv /\ [Next]_vars => HealInv'
<1>1. TypeInv => TypeOK
  BY DEF TypeInv
<1> QED BY <1>1, TypeStep, CoverStep, EndStep DEF HealInv

LEMMA HealRestsSound == HealRests => HealInv
<1> SUFFICES ASSUME HealRests PROVE HealInv
  OBVIOUS
<1>1. \A u \in Units : status[u] \in {"completed", "absent"} /\ (status[u] = "completed" <=> u \in Planned)
  BY DEF HealRests
<1>2. TypeInv
  BY <1>1 DEF HealRests, TypeInv, TypeOK, Untried
<1>3. Leaves = Planned
  BY <1>1, HealConstants DEF Leaves
<1>4. PathsCovered
  <2> SUFFICES ASSUME NEW p \in Paths
               PROVE  \E u \in Leaves : p \in PathsOf(u)
                        /\ \A v \in Leaves : p \in PathsOf(v) => v = u
    BY DEF PathsCovered
  <2>1. PICK u \in Planned : p \in PathsOf(u)
    BY HealConstants
  <2>2. \A v \in Planned : p \in PathsOf(v) => v = u
    BY <2>1, HealConstants
  <2> QED BY <1>3, <2>1, <2>2
<1>5. EndInv
  BY <1>1 DEF HealRests, EndInv
<1> QED BY <1>2, <1>4, <1>5 DEF HealInv

LEMMA RolesRestSound == RolesRest => RolesInv
<1> SUFFICES ASSUME RolesRest PROVE RolesInv
  OBVIOUS
<1>1. Live = {} /\ Woken = {} /\ Waiting = {}
  BY DEF RolesRest, Live, Woken, Waiting
<1>2. PoolInv
  BY <1>1, FS_EmptySet, UnitRolesConstants DEF RolesRest, PoolInv, PoolBound, NoIdleSlot, RolePlaces
<1>3. RolesTypeOK
  BY UnitRolesConstants DEF RolesRest, RolesTypeOK
<1>4. \A r \in Roles : RoleShown(r)
  BY DEF RolesRest, RoleShown
<1> QED BY <1>2, <1>3, <1>4 DEF RolesInv

\* For the specification the run checks, and every value of the constants: the types of the
\* three modules, the limit on a unit's attempts among them, and every safety invariant of
\* the run.
THEOREM UnitsAreSound ==
  UnitsSpec => [](/\ UnitsTypeOK /\ PathsCovered /\ NothingOverlooked /\ CompletedIsWhole
                  /\ RolesAccounted /\ BridgeSound)
<1> DEFINE Inv == HealInv /\ RolesInv /\ BridgeInv
<1>1. MCInit => Inv
  BY HealStarts, HealRestsSound, RolesStart, RolesRestSound, BridgeStart DEF MCInit, BridgeRests
<1>2. Inv /\ [MCNext]_<<part, vars, roleVars, bridgeVars>> => Inv'
  <2> SUFFICES ASSUME Inv, [MCNext]_<<part, vars, roleVars, bridgeVars>> PROVE Inv'
    OBVIOUS
  <2>1. [Next]_vars /\ [RolesNext]_roleVars /\ [BridgeNext]_bridgeVars
    BY DEF MCNext
  <2> QED BY <2>1, HealSteps, RoleStepKeeps, RolesStutter, BridgeStep, BridgeStutter
<1>3. Inv => /\ UnitsTypeOK /\ PathsCovered /\ NothingOverlooked /\ CompletedIsWhole
             /\ RolesAccounted /\ BridgeSound
  BY EndSays, RolesAccountedFollows
     DEF HealInv, TypeInv, RolesInv, BridgeInv, BridgeSound, UnitsTypeOK
<1> QED BY <1>1, <1>2, <1>3, PTL DEF UnitsSpec
===============================================================================
