---------------------------- MODULE SessionsProofs ----------------------------
(***************************************************************************)
(* Splits that checkpoints hold (SplitRun), for every plan, number of      *)
(* crashes and limit of concurrent units; rows on their way to ClickHouse  *)
(* (TraceSink), for every number of rows, callers and overlapping flushes, *)
(* and every length at which the buffer flushes.                           *)
(***************************************************************************)
EXTENDS MCSessions, FiniteSetTheorems, SequenceTheorems, WellFoundedInduction, TLAPS

LEMMA HalvesCover ==
  ASSUME NEW u \in Units, NEW p \in PathsOf(u)
  PROVE  \E h \in Halves(u) : p \in PathsOf(h)
<1> DEFINE m == u[1] + ((u[2] - u[1]) \div 2)
           a == <<u[1], m>>
           b == <<m + 1, u[2]>>
<1>1. /\ u[1] \in Nat /\ u[2] \in Nat /\ p \in Nat /\ NumPaths \in Nat
      /\ 1 <= u[1] /\ u[1] <= p /\ p <= u[2] /\ u[2] <= NumPaths
  BY SplitConstants DEF Units, Paths, PathsOf
<1>2. m \in Nat /\ u[1] <= m /\ m <= u[2]
  <2>1. (u[2] - u[1]) \div 2 \in Nat /\ (u[2] - u[1]) \div 2 <= u[2] - u[1]
    BY <1>1
  <2> QED BY <1>1, <2>1
<1>3. Halves(u) = {a, b} \cap Units
  BY DEF Halves
<1> HIDE DEF m
<1>4. CASE p <= m
  <2>1. a \in Units /\ p \in PathsOf(a)
    BY <1>1, <1>2, <1>4 DEF Units, Paths, PathsOf
  <2> QED BY <1>3, <2>1
<1>5. CASE ~(p <= m)
  <2>1. b \in Units /\ p \in PathsOf(b)
    BY <1>1, <1>2, <1>5 DEF Units, Paths, PathsOf
  <2> QED BY <1>3, <2>1
<1> QED BY <1>4, <1>5

LEMMA HalvesAreUnits == \A u \in Units : Halves(u) \subseteq Units
BY DEF Halves

LEMMA HalvesAreSmaller ==
  ASSUME NEW u \in Units, Cardinality(Halves(u)) = 2
  PROVE  u \notin Halves(u)
<1> DEFINE m == u[1] + ((u[2] - u[1]) \div 2)
           a == <<u[1], m>>
           b == <<m + 1, u[2]>>
<1>1. u[1] \in Nat /\ u[2] \in Nat /\ u[1] <= u[2]
  BY SplitConstants DEF Units, Paths
<1>2. m \in Nat /\ u[1] <= m
  <2>1. (u[2] - u[1]) \div 2 \in Nat
    BY <1>1
  <2> QED BY <1>1, <2>1
<1>3. Halves(u) = {a, b} \cap Units
  BY DEF Halves
<1> HIDE DEF m
<1>4. u # b
  BY <1>1, <1>2
<1>5. ASSUME u = a PROVE FALSE
  <2>1. m = u[2]
    BY <1>1, <1>5
  <2>2. b \notin Units
    BY <1>1, <2>1 DEF Units
  <2>3. Halves(u) \subseteq {a}
    BY <1>3, <2>2
  <2>4. Halves(u) = {} \/ Halves(u) = {a}
    BY <2>3
  <2>5. Cardinality(Halves(u)) = 0 \/ Cardinality(Halves(u)) = 1
    BY <2>4, FS_EmptySet, FS_Singleton, Zenon
  <2> QED BY <2>5
<1> QED BY <1>3, <1>4, <1>5

LEMMA UnitsFinite == IsFiniteSet(Units)
<1>1. IsFiniteSet(Paths)
  BY SplitConstants, FS_Interval DEF Paths
<1>2. IsFiniteSet(Paths \X Paths)
  BY <1>1, FS_Product
<1> QED BY <1>2, FS_Subset DEF Units

(***************************************************************************)
(* The invariant.                                                          *)
(***************************************************************************)
Caught(p) == \E u \in caught : p \in PathsOf(u)

\* Units that are to be done, or were.
Stands(f, u) == f[u] \in {"pending", "running", "completed", "gap"}

\* A run, or a checkpoint, knows every path that was not caught.
Knows(f) == \A p \in Paths : Caught(p) \/ \E u \in Units : p \in PathsOf(u) /\ Stands(f, u)

\* A list that is not yet written down will know every path, if it is written down now.
Lists(known) ==
  \A p \in Paths : Caught(p) \/ \E u \in known :
    /\ p \in PathsOf(u)
    /\ Stands(status, u) \/ (status[u] = "leaving" /\ ~(Halves(u) \subseteq known))

Records == [at : {"idle", "select", "update"}, known : SUBSET Units,
            json : [Units -> Final \cup {"absent", "pending"}] \cup {<<>>}]

TypeInv ==
  /\ maxC \in Limits /\ stage \in {"absent", "saving", "specialists", "published"}
  /\ status \in [Units -> UnitStates] /\ ended \subseteq Units /\ caught \subseteq Units
  /\ saves \in [Units \cup {Main} -> Records]
  /\ stored \in [Units -> Final \cup {"absent", "pending"}] \cup {<<>>}
  /\ stage = "absent" => /\ ended = {} /\ \A u \in Units : status[u] = "absent"
                         /\ \A s \in Units \cup {Main} : saves[s].at = "idle"
  /\ stage # "saving" => saves[Main].at = "idle"
  /\ stage = "published" => \A u \in Units : status[u] \notin {"pending", "running", "leaving"}

KnowInv ==
  /\ stage # "absent" => Knows(status)
  /\ \A s \in Units \cup {Main} : saves[s].at = "select" => Lists(saves[s].known)
  /\ \A s \in Units \cup {Main} : saves[s].at = "update" => Knows(saves[s].json)
  /\ stored # <<>> => Knows(stored)

\* One unit at a time is in hand, and while it runs nothing is saved.
AloneInv ==
  /\ stage # "specialists" => InHand = {}
  /\ \A u \in Units : status[u] \in {"running", "leaving"} => u \notin ended /\ saves[u].at = "idle"
  /\ \A u, v \in InHand : u = v
  /\ caught = {}

SplitInv == TypeInv /\ KnowInv /\ (maxC = 1 => AloneInv)

LEMMA MainIsNoUnit == Main \notin Units
BY SplitConstants DEF Main, Units, Paths

LEMMA SplitStart == SplitInit => SplitInv
<1> SUFFICES ASSUME SplitInit PROVE SplitInv
  OBVIOUS
<1>1. TypeInv
  BY DEF SplitInit, TypeInv, Records, NoSave, UnitStates, Final
<1>2. KnowInv
  BY DEF SplitInit, KnowInv, NoSave
<1>3. AloneInv
  BY DEF SplitInit, AloneInv, NoSave, InHand
<1> QED BY <1>1, <1>2, <1>3 DEF SplitInv

(***************************************************************************)
(* What is known.                                                          *)
(***************************************************************************)
LEMMA TypeNext == TypeInv /\ [SplitNext]_splitVars => TypeInv'
<1> SUFFICES ASSUME TypeInv, [SplitNext]_splitVars PROVE TypeInv'
  OBVIOUS
<1> USE DEF TypeInv, Records, saveVars
<1>1. CASE UNCHANGED splitVars
  BY <1>1 DEF splitVars
<1>2. CASE StartRun
  <2>1. status' \in [Units -> Final \cup {"absent", "pending"}]
    BY <1>2, SplitConstants DEF StartRun
  <2>2. status' \in [Units -> UnitStates]
    BY <2>1 DEF UnitStates
  <2> QED BY <1>2, <2>2 DEF StartRun, Main
<1>3. CASE PublishReview \/ CrashRun
  BY <1>3 DEF PublishReview, CrashRun, NoSave, UnitStates, Final, InHand
<1>4. ASSUME NEW u \in Units, BeginUnit(u) \/ EndUnit(u) \/ SplitUnit(u) \/ LeaveUnit(u)
      PROVE  TypeInv'
  BY <1>4 DEF BeginUnit, EndUnit, SplitUnit, LeaveUnit, UnitStates, Final
<1>5. ASSUME NEW u \in Units, SaveUnit(u) PROVE TypeInv'
  <2>2. u # Main
    BY MainIsNoUnit
  <2>1. Listed \in Records
    BY DEF Listed, Known
  <2> QED BY <1>5, <2>1, <2>2 DEF SaveUnit
<1>6. ASSUME NEW s \in Units \cup {Main}, Send(s) PROVE TypeInv'
  <2>1. Json(saves[s].known) \in [Units -> Final \cup {"absent", "pending"}]
    BY DEF Json, Final
  <2> QED BY <1>6, <2>1 DEF Send
<1>7. ASSUME NEW s \in Units \cup {Main}, Store(s) PROVE TypeInv'
  BY <1>7, MainIsNoUnit DEF Store, NoSave
<1> QED BY <1>1, <1>2, <1>3, <1>4, <1>5, <1>6, <1>7 DEF SplitNext

\* Only the units of the run change.
LEMMA KnowMove ==
  ASSUME TypeInv, KnowInv, UNCHANGED <<stage, saves, stored>>, caught \subseteq caught',
         Knows(status) => Knows(status)',
         \A s \in Units \cup {Main} :
           saves[s].at = "select" => (Lists(saves[s].known) => Lists(saves[s].known)')
  PROVE  KnowInv'
<1>1. ASSUME NEW f, Knows(f)
      PROVE  \A p \in Paths : Caught(p)' \/ \E u \in Units : p \in PathsOf(u) /\ Stands(f, u)
  BY <1>1 DEF Knows, Caught
<1>2. Knows(stored) => Knows(stored)'
  BY <1>1 DEF Knows, Stands
<1>3. ASSUME NEW s \in Units \cup {Main}, Knows(saves[s].json) PROVE Knows(saves[s].json)'
  BY <1>1, <1>3 DEF Knows, Stands
<1> QED BY <1>2, <1>3 DEF KnowInv

LEMMA KnowGoesOn ==
  ASSUME TypeInv, KnowInv, UNCHANGED <<stage, saves, stored, caught>>,
         \A v \in Units : /\ Stands(status, v) => Stands(status', v)
                          /\ status[v] = "leaving" => status'[v] = "leaving"
  PROVE  KnowInv'
<1>1. Knows(status) => Knows(status)'
  BY DEF Knows, Caught, Stands
<1>2. ASSUME NEW s \in Units \cup {Main}, Lists(saves[s].known) PROVE Lists(saves[s].known)'
  <2>1. saves[s].known \subseteq Units
    BY DEF TypeInv, Records
  <2> QED BY <1>2, <2>1 DEF Lists, Caught, Stands
<1> QED BY <1>1, <1>2, KnowMove

LEMMA KnowSplit ==
  ASSUME TypeInv, KnowInv, NEW u \in Units, SplitUnit(u)
  PROVE  KnowInv'
<1>1. /\ u \notin Halves(u) /\ Halves(u) \subseteq Units
      /\ \A p \in PathsOf(u) : \E h \in Halves(u) : p \in PathsOf(h)
  BY HalvesAreSmaller, HalvesAreUnits, HalvesCover DEF SplitUnit
<1>2. /\ \A h \in Halves(u) : Stands(status', h)
      /\ status'[u] = "leaving" /\ UNCHANGED <<stage, saves, stored, caught>>
      /\ \A v \in Units \ {u} : /\ Stands(status, v) => Stands(status', v)
                                /\ status[v] = "leaving" =>
                                     Stands(status', v) \/ status'[v] = "leaving"
  BY <1>1 DEF SplitUnit, Stands, saveVars
<1>3. Knows(status) => Knows(status)'
  BY <1>1, <1>2 DEF Knows, Caught, Stands
<1>4. ASSUME NEW s \in Units \cup {Main}, Lists(saves[s].known) PROVE Lists(saves[s].known)'
  <2> DEFINE known == saves[s].known
  <2>1. known \subseteq Units /\ known' = known
    BY <1>2 DEF TypeInv, Records
  <2> SUFFICES ASSUME NEW p \in Paths, ~Caught(p)'
               PROVE  \E v \in known : /\ p \in PathsOf(v)
                                       /\ \/ Stands(status', v)
                                          \/ status'[v] = "leaving" /\ ~(Halves(v) \subseteq known)
    BY <2>1 DEF Lists, Stands
  <2>2. PICK v \in known : /\ p \in PathsOf(v)
                           /\ \/ Stands(status, v)
                              \/ status[v] = "leaving" /\ ~(Halves(v) \subseteq known)
    BY <1>2, <1>4 DEF Lists, Caught
  <2>3. CASE v # u
    BY <1>2, <2>1, <2>2, <2>3
  <2>4. CASE v = u /\ Halves(u) \subseteq known
    BY <1>1, <1>2, <2>2, <2>4
  <2>5. CASE v = u /\ ~(Halves(u) \subseteq known)
    BY <1>2, <2>2, <2>5
  <2> QED BY <2>3, <2>4, <2>5
<1> QED BY <1>2, <1>3, <1>4, KnowMove

LEMMA KnowLeave ==
  ASSUME TypeInv, KnowInv, NEW u \in Units, LeaveUnit(u)
  PROVE  KnowInv'
<1>1. /\ UNCHANGED <<stage, saves, stored>> /\ caught \subseteq caught' /\ status[u] = "leaving"
      /\ \A v \in Units \ {u} : status'[v] = status[v]
  BY DEF LeaveUnit, TypeInv
<1>2. Knows(status) => Knows(status)'
  BY <1>1 DEF Knows, Caught, Stands
<1>3. ASSUME NEW s \in Units \cup {Main}, saves[s].at = "select", Lists(saves[s].known)
      PROVE  Lists(saves[s].known)'
  <2> DEFINE known == saves[s].known
  <2>1. known \subseteq Units /\ known' = known /\ s \in DOMAIN saves
    BY <1>1 DEF TypeInv, Records
  <2>2. u \in known /\ ~(Halves(u) \subseteq known) => u \in caught'
    BY <1>3, <2>1 DEF LeaveUnit
  <2> SUFFICES ASSUME NEW p \in Paths, ~Caught(p)'
               PROVE  \E v \in known : /\ p \in PathsOf(v)
                                       /\ \/ Stands(status', v)
                                          \/ status'[v] = "leaving" /\ ~(Halves(v) \subseteq known)
    BY <2>1 DEF Lists, Stands
  <2>3. PICK v \in known : /\ p \in PathsOf(v)
                           /\ \/ Stands(status, v)
                              \/ status[v] = "leaving" /\ ~(Halves(v) \subseteq known)
    BY <1>1, <1>3 DEF Lists, Caught
  <2>4. v # u
    BY <1>1, <2>2, <2>3 DEF Caught, Stands
  <2> QED BY <1>1, <2>1, <2>3, <2>4 DEF Stands
<1> QED BY <1>1, <1>2, <1>3, KnowMove

LEMMA KnowSave ==
  ASSUME TypeInv, KnowInv, NEW s \in Units \cup {Main}, Send(s) \/ Store(s)
  PROVE  KnowInv'
<1> USE DEF TypeInv, KnowInv
<1>1. CASE Send(s)
  <2> DEFINE known == saves[s].known
  <2>1. /\ UNCHANGED <<stage, status, stored, caught>> /\ Lists(known) /\ known \subseteq Units
        /\ saves'[s].at = "update" /\ saves'[s].json = Json(known)
        /\ \A t \in (Units \cup {Main}) \ {s} : saves'[t] = saves[t]
    BY <1>1 DEF Send, Records
  <2>2. ASSUME NEW p \in Paths, ~Caught(p)
        PROVE  \E u \in Units : p \in PathsOf(u) /\ Stands(Json(known), u)
    BY <2>1, <2>2 DEF Lists, Json, Stands, Final
  <2>3. Knows(saves'[s].json)
    BY <2>1, <2>2 DEF Knows
  <2>4. ASSUME NEW t \in Units \cup {Main}, saves'[t].at = "select" PROVE Lists(saves[t].known)'
    BY <2>1, <2>4 DEF Lists, Caught, Stands
  <2>5. ASSUME NEW t \in Units \cup {Main}, saves'[t].at = "update" PROVE Knows(saves[t].json)'
    <3>1. Knows(saves'[t].json)
      BY <2>1, <2>3, <2>5
    <3> QED BY <2>1, <3>1 DEF Knows, Caught, Stands
  <2>6. (stage # "absent" => Knows(status)') /\ (stored # <<>> => Knows(stored)')
    BY <2>1 DEF Knows, Caught, Stands
  <2> QED BY <2>1, <2>4, <2>5, <2>6
<1>2. CASE Store(s)
  <2>1. /\ UNCHANGED <<status, caught>> /\ stored' = saves[s].json /\ Knows(saves[s].json)
        /\ saves'[s].at = "idle" /\ stage # "absent"
        /\ \A t \in (Units \cup {Main}) \ {s} : saves'[t] = saves[t]
    BY <1>2 DEF Store, NoSave
  <2>2. ASSUME NEW t \in Units \cup {Main}, saves'[t].at = "select" PROVE Lists(saves[t].known)'
    BY <2>1, <2>2 DEF Lists, Caught, Stands
  <2>3. ASSUME NEW t \in Units \cup {Main}, saves'[t].at = "update" PROVE Knows(saves[t].json)'
    BY <2>1, <2>3 DEF Knows, Caught, Stands
  <2>4. Knows(status)' /\ Knows(stored)'
    BY <2>1 DEF Knows, Caught, Stands
  <2> QED BY <2>2, <2>3, <2>4
<1> QED BY <1>1, <1>2

LEMMA KnowNext == TypeInv /\ KnowInv /\ [SplitNext]_splitVars => KnowInv'
<1> SUFFICES ASSUME TypeInv, KnowInv, [SplitNext]_splitVars PROVE KnowInv'
  OBVIOUS
<1>1. CASE UNCHANGED splitVars \/ PublishReview
  <2>1. UNCHANGED <<status, saves, stored, caught>> /\ (stage' # "absent" => stage # "absent")
    BY <1>1 DEF splitVars, PublishReview, saveVars
  <2> QED BY <2>1 DEF KnowInv, Knows, Lists, Caught, Stands
<1>2. CASE StartRun
  <2>1. /\ UNCHANGED <<stored, caught>> /\ stage' # "absent"
        /\ saves'[Main].at = "select" /\ saves'[Main].known = {u \in Units : status'[u] # "absent"}
        /\ \A u \in Units : saves'[u].at = "idle"
    BY <1>2, MainIsNoUnit DEF StartRun, TypeInv, Records
  <2>2. Knows(status')
    <3>1. CASE stored # <<>>
      BY <1>2, <3>1 DEF StartRun, KnowInv
    <3>2. CASE stored = <<>>
      <4>1. \A u \in Planned : u \in Units /\ Stands(status', u)
        BY <1>2, <3>2, SplitConstants DEF StartRun, Stands
      <4> QED BY <4>1, SplitConstants DEF Knows
    <3> QED BY <3>1, <3>2
  <2>3. Knows(status)' /\ (stored # <<>> => Knows(stored)')
    BY <2>1, <2>2 DEF KnowInv, Knows, Caught, Stands
  <2>4. Lists(saves[Main].known)'
    BY <2>1, <2>2 DEF Knows, Lists, Caught, Stands
  <2> QED BY <2>1, <2>3, <2>4 DEF KnowInv
<1>3. CASE CrashRun
  BY <1>3 DEF CrashRun, TypeInv, KnowInv, Knows, Caught, Stands, NoSave
<1>4. ASSUME NEW u \in Units, BeginUnit(u) \/ EndUnit(u) PROVE KnowInv'
  <2>1. \A v \in Units : /\ Stands(status, v) => Stands(status', v)
                         /\ status[v] = "leaving" => status'[v] = "leaving"
    BY <1>4 DEF BeginUnit, EndUnit, Stands, TypeInv
  <2> QED BY <1>4, <2>1, KnowGoesOn DEF BeginUnit, EndUnit, saveVars
<1>5. ASSUME NEW u \in Units, SaveUnit(u) PROVE KnowInv'
  <2>1. /\ UNCHANGED <<stage, status, stored, caught>> /\ saves'[u] = Listed /\ stage # "absent"
        /\ \A t \in (Units \cup {Main}) \ {u} : saves'[t] = saves[t]
    BY <1>5 DEF SaveUnit, TypeInv
  <2>2. Lists(Known)'
    BY <2>1 DEF KnowInv, Lists, Knows, Known, Caught, Stands
  <2>3. saves'[u].at = "select" /\ saves'[u].known = Known /\ Known' = Known
    BY <2>1 DEF Listed, Known
  <2>4. ASSUME NEW t \in Units \cup {Main}, saves'[t].at = "select" PROVE Lists(saves[t].known)'
    BY <2>1, <2>2, <2>3, <2>4 DEF KnowInv, Lists, Caught, Stands
  <2>5. ASSUME NEW t \in Units \cup {Main}, saves'[t].at = "update" PROVE Knows(saves[t].json)'
    BY <2>1, <2>3, <2>5 DEF KnowInv, Knows, Caught, Stands
  <2>6. Knows(status)' /\ (stored # <<>> => Knows(stored)')
    BY <2>1 DEF KnowInv, Knows, Caught, Stands
  <2> QED BY <2>1, <2>4, <2>5, <2>6 DEF KnowInv
<1> QED
  BY <1>1, <1>2, <1>3, <1>4, <1>5, KnowSplit, KnowLeave, KnowSave DEF SplitNext

(***************************************************************************)
(* One unit at a time.                                                     *)
(***************************************************************************)
LEMMA AloneNext ==
  TypeInv /\ maxC = 1 /\ AloneInv /\ [SplitNext]_splitVars => AloneInv'
<1> SUFFICES ASSUME TypeInv, maxC = 1, AloneInv, [SplitNext]_splitVars PROVE AloneInv'
  OBVIOUS
<1> USE DEF TypeInv, Records, AloneInv, InHand, saveVars
<1>1. CASE UNCHANGED splitVars
  BY <1>1 DEF splitVars
<1>2. CASE StartRun
  <2>1. \A u \in Units : status'[u] \in Final \cup {"absent", "pending"} /\ saves'[u] = saves[u]
    BY <1>2, MainIsNoUnit, SplitConstants DEF StartRun
  <2> QED BY <1>2, <2>1 DEF StartRun, Final
<1>3. CASE PublishReview
  BY <1>3 DEF PublishReview
<1>4. CASE CrashRun
  BY <1>4 DEF CrashRun, NoSave
<1>5. ASSUME NEW u \in Units, BeginUnit(u) PROVE AloneInv'
  <2>1. InHand = {}
    <3>1. IsFiniteSet(InHand)
      BY UnitsFinite, FS_Subset
    <3>2. Cardinality(InHand) \in Nat /\ Cardinality(InHand) < 1
      BY <1>5, <3>1, FS_CardinalityType DEF BeginUnit
    <3> HIDE DEF InHand
    <3>3. Cardinality(InHand) = 0
      BY <3>2
    <3> QED BY <3>1, <3>3, FS_EmptySet
  <2>2. UNCHANGED <<stage, saves, ended, caught>> /\ stage = "specialists"
        /\ \A v \in Units \ {u} : status'[v] = status[v]
    BY <1>5 DEF BeginUnit
  <2> QED BY <2>1, <2>2
<1>6. ASSUME NEW u \in Units, EndUnit(u) PROVE AloneInv'
  BY <1>6 DEF EndUnit
<1>7. ASSUME NEW u \in Units, SplitUnit(u) PROVE AloneInv'
  <2>1. /\ UNCHANGED <<stage, saves, ended, caught>>
        /\ \A v \in Units : status'[v] \in {"running", "leaving"} =>
                            status[v] \in {"running", "leaving"}
    BY <1>7 DEF SplitUnit
  <2> QED BY <2>1
<1>8. ASSUME NEW u \in Units, LeaveUnit(u) PROVE AloneInv'
  <2>1. u \in InHand /\ stage = "specialists" /\ saves[u].at = "idle" /\ saves[Main].at = "idle"
    BY <1>8 DEF LeaveUnit
  <2>2. \A s \in DOMAIN saves : saves[s].at = "idle"
    BY <2>1
  <2>3. caught' = {}
    BY <1>8, <2>2 DEF LeaveUnit
  <2>4. /\ UNCHANGED <<stage, saves>> /\ ended' = ended \cup {u} /\ status'[u] = "split"
        /\ \A v \in Units \ {u} : status'[v] = status[v]
    BY <1>8 DEF LeaveUnit
  <2> QED BY <2>1, <2>3, <2>4
<1>9. ASSUME NEW u \in Units, SaveUnit(u) PROVE AloneInv'
  <2>1. /\ u \in InHand /\ u \in ended /\ ended' = ended \ {u}
        /\ UNCHANGED <<stage, status, caught>>
        /\ saves'[u].at = "select" /\ u # Main
        /\ \A t \in (Units \cup {Main}) \ {u} : saves'[t] = saves[t]
    BY <1>9, MainIsNoUnit DEF SaveUnit, Listed
  <2>2. \A v \in Units : status[v] \notin {"running", "leaving"}
    BY <2>1
  <2> QED BY <2>1, <2>2
<1>10. ASSUME NEW s \in Units \cup {Main}, Send(s) PROVE AloneInv'
  <2>1. /\ UNCHANGED <<stage, status, ended, caught>>
        /\ \A t \in Units \cup {Main} : saves'[t].at = "idle" <=> saves[t].at = "idle"
    BY <1>10 DEF Send
  <2> QED BY <2>1, MainIsNoUnit DEF Main
<1>11. ASSUME NEW s \in Units \cup {Main}, Store(s) PROVE AloneInv'
  <2>1. /\ UNCHANGED <<status, ended, caught>> /\ stage' = IF s = Main THEN "specialists" ELSE stage
        /\ saves[s].at = "update"
        /\ \A t \in Units \cup {Main} : saves'[t].at # "idle" => saves[t].at # "idle" /\ t # s
    BY <1>11 DEF Store, NoSave
  <2>2. CASE s = Main
    BY <2>1, <2>2
  <2>3. CASE s \in Units
    BY <2>1, <2>3, MainIsNoUnit
  <2> QED BY <2>2, <2>3
<1> QED
  BY <1>1, <1>2, <1>3, <1>4, <1>5, <1>6, <1>7, <1>8, <1>9, <1>10, <1>11 DEF SplitNext

LEMMA SplitKept == SplitInv /\ [SplitNext]_splitVars => SplitInv'
<1> SUFFICES ASSUME SplitInv, [SplitNext]_splitVars PROVE SplitInv'
  OBVIOUS
<1>1. maxC' = maxC
  BY DEF SplitNext, StartRun, PublishReview, CrashRun, BeginUnit, EndUnit, SplitUnit, LeaveUnit,
         SaveUnit, Send, Store, splitVars
<1> QED BY <1>1, TypeNext, KnowNext, AloneNext DEF SplitInv

LEMMA SplitsAreAccounted == SplitInv => SplitsAccounted
<1> SUFFICES ASSUME SplitInv PROVE SplitsAccounted
  OBVIOUS
<1>1. maxC = 1 => caught = {}
  BY DEF SplitInv, AloneInv
<1>2. ASSUME stage = "published", NEW p \in Paths, ~Caught(p) PROVE p \in Accounted
  <2>1. PICK u \in Units : p \in PathsOf(u) /\ Stands(status, u)
    BY <1>2 DEF SplitInv, KnowInv, Knows
  <2>2. status[u] \in {"completed", "gap"}
    BY <1>2, <2>1 DEF SplitInv, TypeInv, Stands
  <2> QED BY <2>1, <2>2 DEF Accounted
<1> QED BY <1>1, <1>2 DEF SplitsAccounted, Caught

\* A published review has looked at every path, or notes it as a gap, but for the paths of
\* a unit whose split a save was caught in (persistCheckpoint in orchestrator.ts); with one
\* unit at a time no save is.
THEOREM SplitsStayAccounted == SplitSpec => []SplitsAccounted
<1> QED BY SplitsAreAccounted, SplitStart, SplitKept, PTL DEF SplitSpec

Flights == 1..Len(flights)
Sent(f) == flights[f].at = "sent"

FlightRecords == [rows : SUBSET Rows, at : {"sent", "answered", "closed"}]

RowTypes ==
  /\ recorded \in Nat /\ recorded <= NumRows /\ buffer \subseteq 1..recorded
  /\ flights \in Seq(FlightRecords) /\ \A f \in Flights : flights[f].rows \subseteq 1..recorded
  /\ inserted \in [Rows -> Nat] /\ dropped \subseteq 1..recorded

\* A row leaves the buffer with one flush only, and nothing is known of it before the answer.
Apart ==
  /\ \A f \in Flights : flights[f].rows \cap buffer = {}
  /\ \A f, g \in Flights : f # g => flights[f].rows \cap flights[g].rows = {}

Unanswered ==
  /\ \A r \in buffer : inserted[r] = 0
  /\ \A f \in Flights : Sent(f) => \A r \in flights[f].rows : inserted[r] = 0
  /\ \A r \in Rows : inserted[r] <= 1 /\ (inserted[r] = 1 => r <= recorded)

\* Every row that was recorded is somewhere.
Kept == \A r \in 1..recorded : \/ r \in buffer \/ r \in dropped \/ inserted[r] = 1
                               \/ \E f \in Flights : Sent(f) /\ r \in flights[f].rows

SinkInv == RowTypes /\ Apart /\ Unanswered /\ Kept

LEMMA SinkStart == SinkInit => SinkInv
<1> SUFFICES ASSUME SinkInit PROVE SinkInv
  OBVIOUS
<1> USE SinkConstants DEF SinkInit
<1>1. Flights = {} /\ 1..recorded = {}
  BY DEF Flights
<1>2. RowTypes
  BY <1>1 DEF RowTypes, Rows
<1> QED BY <1>1, <1>2 DEF SinkInv, Apart, Unanswered, Kept, Rows

LEMMA Appended ==
  ASSUME NEW S, NEW s \in Seq(S), NEW e \in S
  PROVE  LET t == Append(s, e) IN
         /\ t \in Seq(S) /\ Len(s) + 1 \notin 1..Len(s)
         /\ 1..Len(t) = (1..Len(s)) \cup {Len(s) + 1}
         /\ \A i \in 1..Len(s) : t[i] = s[i]
         /\ t[Len(s) + 1] = e
OBVIOUS

\* A flush takes rows, those of the buffer or one more, that no other flush has.
LEMMA TakenOff ==
  ASSUME SinkInv, NEW rows, TakeOff(rows), UNCHANGED storeVars,
         \/ rows = buffer /\ UNCHANGED recorded
         \/ rows = buffer \cup {recorded'} /\ recorded' = recorded + 1 /\ recorded < NumRows
  PROVE  SinkInv'
<1> DEFINE n == Len(flights) + 1
           flight == [rows |-> rows, at |-> "sent"]
<1>1. /\ recorded \in Nat /\ recorded' \in Nat /\ recorded' <= NumRows /\ recorded <= recorded'
      /\ rows \subseteq 1..recorded' /\ 1..recorded \subseteq 1..recorded'
      /\ 1..recorded' \subseteq Rows
      /\ 1..recorded' \subseteq (1..recorded) \cup rows
      /\ \A r \in rows : r \in buffer \/ r \notin 1..recorded
  <2>1. recorded \in Nat /\ recorded <= NumRows /\ buffer \subseteq 1..recorded /\ NumRows \in Nat
    BY SinkConstants DEF SinkInv, RowTypes
  <2>2. CASE rows = buffer /\ UNCHANGED recorded
    BY <2>1, <2>2 DEF Rows
  <2>3. CASE rows = buffer \cup {recorded'} /\ recorded' = recorded + 1 /\ recorded < NumRows
    BY <2>1, <2>3 DEF Rows
  <2> QED BY <2>2, <2>3
<1>2. /\ flights' = Append(flights, flight) /\ buffer' = {}
      /\ inserted' = inserted /\ dropped' = dropped
  BY DEF TakeOff, storeVars
<1>3. flights \in Seq(FlightRecords) /\ flight \in FlightRecords
  BY <1>1 DEF FlightRecords, SinkInv, RowTypes
<1>4. /\ flights' \in Seq(FlightRecords) /\ Flights' = Flights \cup {n} /\ n \notin Flights
      /\ \A f \in Flights : flights'[f] = flights[f]
      /\ flights'[n] = flight
  BY <1>2, <1>3, Appended DEF Flights
<1>5. /\ \A f \in Flights : flights'[f].rows = flights[f].rows /\ (Sent(f)' <=> Sent(f))
      /\ flights'[n].rows = rows /\ flights'[n].at = "sent"
  <2>1. flight.rows = rows /\ flight.at = "sent"
    OBVIOUS
  <2>2. flights'[n].rows = rows /\ flights'[n].at = "sent"
    BY <1>4, <2>1, Zenon
  <2>3. \A f \in Flights : flights'[f].rows = flights[f].rows /\ (Sent(f)' <=> Sent(f))
    BY <1>4, Zenon DEF Sent
  <2> QED BY <2>2, <2>3
<1>6. \A f \in Flights : flights[f].rows \subseteq 1..recorded /\ flights[f].rows \cap rows = {}
  BY <1>1 DEF SinkInv, RowTypes, Apart
<1>7. RowTypes'
  BY <1>1, <1>2, <1>4, <1>5, <1>6 DEF SinkInv, RowTypes
<1>8. Apart'
  BY <1>2, <1>4, <1>5, <1>6 DEF SinkInv, Apart
<1>9. \A r \in rows : inserted[r] = 0
  <2>1. \A r \in Rows \ (1..recorded) : inserted[r] = 0
    BY <1>1, SinkConstants DEF SinkInv, RowTypes, Unanswered, Rows
  <2> QED BY <1>1, <2>1 DEF SinkInv, Unanswered
<1>10. \A r \in Rows : inserted[r] <= 1 /\ (inserted[r] = 1 => r <= recorded')
  BY <1>1, SinkConstants DEF SinkInv, Unanswered, Rows
<1>11. Unanswered'
  BY <1>2, <1>4, <1>5, <1>9, <1>10 DEF SinkInv, Unanswered
<1>12. Kept'
  <2> SUFFICES ASSUME NEW r \in 1..recorded'
               PROVE  \/ r \in dropped \/ inserted[r] = 1
                      \/ \E f \in Flights' : flights'[f].at = "sent" /\ r \in flights'[f].rows
    BY <1>2 DEF Kept, Sent
  <2>1. CASE r \in rows
    BY <1>4, <1>5, <2>1
  <2>2. CASE r \notin rows
    <3>1. r \in 1..recorded /\ r \notin buffer
      BY <1>1, <2>2
    <3> QED BY <1>4, <1>5, <3>1 DEF SinkInv, Kept, Sent
  <2> QED BY <2>1, <2>2
<1> QED BY <1>7, <1>8, <1>11, <1>12 DEF SinkInv

\* A new row, that stays in the buffer or leaves it at once.
LEMMA RowAdded ==
  ASSUME SinkInv, Record
  PROVE  SinkInv'
<1> DEFINE r == recorded + 1
           rows == buffer \cup {r}
<1>1. /\ recorded' = r /\ recorded < NumRows /\ UNCHANGED storeVars
      /\ \/ buffer' = rows /\ UNCHANGED flights
         \/ TakeOff(rows)
  <2>1. rows # {}
    OBVIOUS
  <2> QED BY <2>1 DEF Record, Call
<1>2. CASE TakeOff(rows)
  BY <1>1, <1>2, TakenOff
<1>3. CASE buffer' = rows /\ UNCHANGED flights
  <2>1. /\ recorded \in Nat /\ r \in Rows /\ r \notin 1..recorded /\ 1..r = (1..recorded) \cup {r}
        /\ r <= NumRows
    BY <1>1, SinkConstants DEF SinkInv, RowTypes, Rows
  <2>2. inserted' = inserted /\ dropped' = dropped /\ inserted[r] = 0
    BY <1>1, <2>1, SinkConstants DEF SinkInv, RowTypes, Unanswered, Rows, storeVars
  <2>3. Flights' = Flights /\ \A f \in Flights : Sent(f)' <=> Sent(f)
    BY <1>3 DEF Flights, Sent
  <2>4. RowTypes'
    <3>1. flights' = flights /\ buffer' = buffer \cup {r} /\ recorded' = r /\ r \in Nat
      BY <1>1, <1>3, <2>1
    <3>2. \A S : S \subseteq 1..recorded => S \subseteq 1..r
      BY <2>1
    <3>3. buffer' \subseteq 1..r
      BY <2>1, <3>1 DEF SinkInv, RowTypes
    <3>4. \A f \in Flights : flights[f].rows \subseteq 1..r
      BY <3>2 DEF SinkInv, RowTypes
    <3> QED BY <2>1, <2>2, <2>3, <3>1, <3>2, <3>3, <3>4 DEF SinkInv, RowTypes
  <2>5. Apart'
    BY <1>3, <2>1, <2>3 DEF SinkInv, RowTypes, Apart
  <2>6. \A q \in Rows : inserted[q] <= 1 /\ (inserted[q] = 1 => q <= r)
    BY <2>1, SinkConstants DEF SinkInv, Unanswered, Rows
  <2>7. Unanswered'
    BY <1>1, <1>3, <2>2, <2>3, <2>6 DEF SinkInv, Unanswered
  <2>8. Kept'
    BY <1>1, <1>3, <2>1, <2>2, <2>3 DEF SinkInv, Kept
  <2> QED BY <2>4, <2>5, <2>7, <2>8 DEF SinkInv
<1> QED BY <1>1, <1>2, <1>3

\* Steps that move a flush on, past its answer.
LEMMA FlightMoved ==
  ASSUME SinkInv, NEW f \in Flights, NEW at \in {"answered", "closed"},
         flights' = [flights EXCEPT ![f].at = at]
  PROVE  /\ flights' \in Seq(FlightRecords) /\ Flights' = Flights
         /\ \A g \in Flights : flights'[g].rows = flights[g].rows
         /\ \A g \in Flights : Sent(g)' <=> Sent(g) /\ g # f
<1> DEFINE moved == [flights[f] EXCEPT !.at = at]
<1>1. flights \in Seq(FlightRecords) /\ f \in 1..Len(flights)
  BY DEF SinkInv, RowTypes, Flights
<1>2. flights[f] \in FlightRecords
  BY <1>1
<1>3. moved \in FlightRecords /\ moved.rows = flights[f].rows /\ moved.at = at
  BY <1>2 DEF FlightRecords
<1>4. flights' = [flights EXCEPT ![f] = moved]
  OBVIOUS
<1>5. /\ flights' \in Seq(FlightRecords) /\ Len(flights') = Len(flights)
      /\ \A g \in 1..Len(flights) : flights'[g] = IF g = f THEN moved ELSE flights[g]
  <2> HIDE DEF moved
  <2> QED BY <1>1, <1>3, <1>4
<1>6. at # "sent"
  OBVIOUS
<1> HIDE DEF moved
<1> QED BY <1>3, <1>5, <1>6 DEF Flights, Sent

LEMMA FlushAnswered ==
  ASSUME SinkInv, NEW f \in Flights, Answer(f)
  PROVE  SinkInv'
<1> DEFINE rows == flights[f].rows
           done == [r \in Rows |-> inserted[r] + IF r \in rows THEN 1 ELSE 0]
<1> USE DEF SinkInv
<1>1. /\ Sent(f) /\ UNCHANGED <<recorded, buffer>>
      /\ flights' = [flights EXCEPT ![f].at = "answered"]
      /\ inserted' \in {inserted, done} /\ dropped' \in {dropped, dropped \cup rows}
      /\ inserted' = done \/ dropped' = dropped \cup rows
  BY DEF Answer, Sent
<1>2. /\ flights' \in Seq(FlightRecords) /\ Flights' = Flights
      /\ \A g \in Flights : flights'[g].rows = flights[g].rows
      /\ \A g \in Flights : Sent(g)' <=> Sent(g) /\ g # f
  BY <1>1, FlightMoved
<1>3. rows \subseteq 1..recorded /\ 1..recorded \subseteq Rows
  BY SinkConstants DEF RowTypes, Flights, Rows
<1>4. /\ \A r \in Rows : inserted[r] \in Nat
      /\ \A r \in rows : inserted[r] = 0
  BY <1>1 DEF Unanswered, RowTypes
<1>5. /\ inserted' \in [Rows -> Nat]
      /\ \A r \in Rows : \/ inserted'[r] = inserted[r]
                         \/ r \in rows /\ inserted'[r] = 1
      /\ \A r \in rows : inserted'[r] = 1 \/ r \in dropped'
  BY <1>1, <1>3, <1>4 DEF RowTypes
<1>6. RowTypes'
  BY <1>1, <1>2, <1>3, <1>5 DEF RowTypes
<1>7. Apart'
  BY <1>1, <1>2 DEF Apart
<1>8. Unanswered'
  <2>1. \A r \in buffer' : inserted'[r] = 0
    BY <1>1, <1>3, <1>5 DEF Unanswered, Apart, RowTypes
  <2>2. \A g \in Flights : Sent(g)' => \A r \in flights'[g].rows : inserted'[r] = 0
    <3> SUFFICES ASSUME NEW g \in Flights, Sent(g)', NEW r \in flights'[g].rows
                 PROVE  inserted'[r] = 0
      OBVIOUS
    <3>1. g # f /\ Sent(g) /\ r \in flights[g].rows
      BY <1>2
    <3>2. r \notin rows /\ inserted[r] = 0 /\ r \in Rows
      BY <1>3, <3>1, SinkConstants DEF Apart, Unanswered, RowTypes, Flights, Rows
    <3> QED BY <1>5, <3>2
  <2>3. \A r \in Rows : inserted'[r] <= 1 /\ (inserted'[r] = 1 => r <= recorded')
    BY <1>1, <1>3, <1>5 DEF Unanswered, RowTypes
  <2> QED BY <1>2, <2>1, <2>2, <2>3 DEF Unanswered
<1>9. Kept'
  <2> SUFFICES ASSUME NEW r \in 1..recorded
               PROVE  \/ r \in buffer \/ r \in dropped' \/ inserted'[r] = 1
                      \/ \E g \in Flights : Sent(g)' /\ r \in flights'[g].rows
    BY <1>1, <1>2 DEF Kept
  <2>1. CASE r \in rows
    BY <1>5, <2>1
  <2>2. CASE r \notin rows
    <3>1. CASE \E g \in Flights : Sent(g) /\ r \in flights[g].rows
      BY <1>2, <2>2, <3>1
    <3>2. CASE r \in buffer \/ r \in dropped \/ inserted[r] = 1
      <4>1. r \in Rows /\ inserted'[r] = inserted[r]
        BY <1>3, <1>5, <2>2
      <4> QED BY <1>1, <3>2, <4>1
    <3> QED BY <3>1, <3>2 DEF Kept
  <2> QED BY <2>1, <2>2
<1> QED BY <1>6, <1>7, <1>8, <1>9

LEMMA Closed ==
  ASSUME SinkInv, NEW f \in Flights, Close(f)
  PROVE  SinkInv'
<1> USE DEF SinkInv
<1>1. /\ ~Sent(f) /\ UNCHANGED <<recorded, buffer, inserted, dropped>>
      /\ flights' = [flights EXCEPT ![f].at = "closed"]
  BY DEF Close, Sent, storeVars
<1>2. /\ flights' \in Seq(FlightRecords) /\ Flights' = Flights
      /\ \A g \in Flights : flights'[g].rows = flights[g].rows
      /\ \A g \in Flights : Sent(g)' <=> Sent(g)
  BY <1>1, FlightMoved
<1>3. RowTypes'
  BY <1>1, <1>2 DEF RowTypes
<1>4. Apart' /\ Unanswered' /\ Kept'
  BY <1>1, <1>2 DEF Apart, Unanswered, Kept
<1> QED BY <1>3, <1>4

LEMMA SinkKept == SinkInv /\ [SinkNext]_sinkVars => SinkInv'
<1> SUFFICES ASSUME SinkInv, [SinkNext]_sinkVars PROVE SinkInv'
  OBVIOUS
<1>1. ASSUME UNCHANGED <<recorded, buffer, flights, storeVars>> PROVE SinkInv'
  BY <1>1 DEF SinkInv, RowTypes, Apart, Unanswered, Kept, Flights, Sent, storeVars
<1>2. ASSUME Call(buffer), UNCHANGED <<recorded, storeVars>> PROVE SinkInv'
  BY <1>1, <1>2, TakenOff DEF Call, flushVars
<1>3. CASE UNCHANGED sinkVars
  BY <1>1, <1>3 DEF sinkVars, storeVars
<1>4. CASE SpecialistFlush \/ JobFlush
  BY <1>2, <1>4 DEF SpecialistFlush, JobFlush
<1>5. ASSUME NEW f \in Flights, Resume(f) PROVE SinkInv'
  BY <1>1, <1>5, TakenOff DEF Resume
<1> QED
  BY <1>3, <1>4, <1>5, RowAdded, FlushAnswered, Closed DEF SinkNext, Flights

\* No row is inserted twice or forgotten, however flushes overlap (flush of
\* createClickHouseWriter in clickhouse.ts).
THEOREM RowsAreKeptOnce == SinkSpec => []RowsOnce
<1>1. SinkInv => RowsOnce
  <2> SUFFICES ASSUME SinkInv PROVE RowsOnce
    OBVIOUS
  <2> USE DEF SinkInv, RowTypes
  <2>1. \A r : r \in UnderWay <=> \E f \in Flights : Sent(f) /\ r \in flights[f].rows
    BY DEF UnderWay, Flights, Sent
  <2>2. \A f \in Flights : flights[f].rows \subseteq 1..recorded
    OBVIOUS
  <2>3. 1..recorded \subseteq Rows
    BY SinkConstants DEF Rows
  <2>4. \A r \in Rows : inserted[r] > 0 <=> inserted[r] = 1
    BY DEF Unanswered
  <2>5. 1..recorded \subseteq buffer \cup UnderWay \cup dropped \cup {r \in Rows : inserted[r] > 0}
    BY <2>1, <2>3, <2>4 DEF Kept
  <2>6. {r \in Rows : inserted[r] > 0} \subseteq 1..recorded
    BY <2>4, SinkConstants DEF Unanswered, Rows
  <2>7. buffer \cup UnderWay \cup dropped \subseteq 1..recorded
    BY <2>1, <2>2
  <2> QED BY <2>5, <2>6, <2>7 DEF RowsOnce, Unanswered
<1> QED BY <1>1, SinkStart, SinkKept, PTL DEF SinkSpec

(***************************************************************************)
(* The record of a session: the types.                                     *)
(***************************************************************************)
JobTries == 0..(MaxTries - 1)

LEMMA SessionShape == NoSession \in Sessions /\ Created \in Sessions
<1>1. NoSession \in Sessions
  BY ReviewSessionConstants DEF Sessions, NoSession
<1>2. Created \in Sessions
  BY <1>1 DEF Created, Sessions
<1> QED BY <1>1, <1>2

\* A session whose retries are not used up can be tried once more.
LEMMA OneMore ==
  ASSUME NEW s \in Sessions, ~Exhausted(s.attempts)
  PROVE  s.attempts + 1 \in 0..MaxGlobalRetries
BY ReviewSessionConstants DEF Sessions, Exhausted

LEMMA WriteTypes ==
  ASSUME writes \in [Processes -> Seq(Sessions)], NEW p \in Processes, NEW s \in Sessions,
         WriteRow(p, s)
  PROVE  writes' \in [Processes -> Seq(Sessions)]
<1>1. Append(writes[p], s) \in Seq(Sessions)
  OBVIOUS
<1> QED BY <1>1 DEF WriteRow

LEMMA UpdateTypes ==
  ASSUME SessionTypeOK, NEW p \in Processes, NEW s \in Sessions, Update(p, s)
  PROVE  writes' \in [Processes -> Seq(Sessions)] /\ copy' \in [Processes -> Sessions]
BY WriteTypes DEF SessionTypeOK, Update

LEMMA QueueTypes ==
  ASSUME SessionTypeOK
  PROVE  /\ \A queue \in [JobTries -> Nat] : Enqueued(queue) \in [JobTries -> Nat]
         /\ GivenBack \in [JobTries -> Nat]
<1> USE ReviewSessionConstants DEF SessionTypeOK, JobTries
<1>1. ASSUME NEW queue \in [JobTries -> Nat] PROVE Enqueued(queue) \in [JobTries -> Nat]
  <2>1. 0 \in JobTries
    OBVIOUS
  <2> QED BY <2>1 DEF Enqueued
<1>2. GivenBack \in [JobTries -> Nat]
  <2>1. tries \in 1..(MaxTries - 1) => tries \in JobTries /\ pending[tries] + 1 \in Nat
    OBVIOUS
  <2> QED BY <2>1 DEF GivenBack
<1> QED BY <1>1, <1>2

LEMMA SessionStart == SessionInit => SessionTypeOK
<1> SUFFICES ASSUME SessionInit PROVE SessionTypeOK
  OBVIOUS
<1>1. <<>> \in Seq(Sessions)
  OBVIOUS
<1>2. copy \in [Processes -> Sessions]
  BY SessionShape DEF SessionInit
<1>3. pending \in [0..(MaxTries - 1) -> Nat]
  BY DEF SessionInit
<1> QED BY <1>1, <1>2, <1>3, SessionShape, ReviewSessionConstants DEF SessionInit, SessionTypeOK

LEMMA SessionStep ==
  ASSUME SessionTypeOK, SessionNext
  PROVE  SessionTypeOK'
<1> USE DEF SessionTypeOK
<1>0. "api" \in Processes /\ "worker" \in Processes
  BY DEF Processes
<1>1. ASSUME faults' = faults \/ Fault PROVE faults' \in 0..MaxFaults
  BY <1>1, ReviewSessionConstants DEF Fault
<1>2. ASSUME requests < MaxRequests, requests' = requests + 1 PROVE requests' \in 0..MaxRequests
  BY <1>2, ReviewSessionConstants
<1>3. CASE Refresh
  <2>1. copy' \in [Processes -> Sessions]
    BY <1>0, <1>3 DEF Refresh
  <2> QED BY <1>3, <2>1 DEF Refresh
<1>4. ASSUME NEW p \in Processes, NEW i \in DOMAIN writes[p], Commit(p, i) PROVE SessionTypeOK'
  <2>1. writes[p] \in Seq(Sessions) /\ i \in 1..Len(writes[p])
    OBVIOUS
  <2>2. row' \in Sessions
    BY <1>4, <2>1 DEF Commit
  <2>3. RemoveAt(writes[p], i) \in Seq(Sessions)
    <3> DEFINE list == writes[p]
    <3>0. list \in Seq(Sessions) /\ i \in 1..Len(list) /\ Len(list) \in Nat
      BY <2>1
    <3> HIDE DEF list
    <3>1. \A j \in 1..(i - 1) : list[j] \in Sessions
      BY <3>0
    <3>2. \A j \in (i + 1)..Len(list) : list[j] \in Sessions
      BY <3>0
    <3>3. 1 \in Int /\ i - 1 \in Int /\ i + 1 \in Int /\ Len(list) \in Int
      BY <3>0
    <3>4. SubSeq(list, 1, i - 1) \in Seq(Sessions)
      BY <3>1, <3>3, SubSeqProperties
    <3>5. SubSeq(list, i + 1, Len(list)) \in Seq(Sessions)
      BY <3>2, <3>3, SubSeqProperties
    <3>6. RemoveAt(list, i) \in Seq(Sessions)
      BY <3>4, <3>5, ConcatProperties DEF RemoveAt
    <3> QED BY <3>6 DEF list
  <2>4. writes' \in [Processes -> Seq(Sessions)]
    BY <1>4, <2>3 DEF Commit
  <2>5. faults' \in 0..MaxFaults
    BY <1>1, <1>4 DEF Commit
  <2> QED BY <1>4, <2>2, <2>4, <2>5 DEF Commit
<1>5. CASE StartSession
  <2>1. [copy["api"] EXCEPT !.status = "pending", !.stage = "active"] \in Sessions
    BY <1>0 DEF Sessions
  <2> QED BY <1>0, <1>2, <1>5, <2>1, UpdateTypes, QueueTypes DEF StartSession, JobTries
<1>6. CASE CancelSession
  <2>1. [copy["api"] EXCEPT !.status = "cancelled", !.stage = "cancelled"] \in Sessions
    BY <1>0 DEF Sessions
  <2> QED BY <1>0, <1>2, <1>6, <2>1, UpdateTypes DEF CancelSession
<1>7. CASE BeginResume
  BY <1>0, <1>2, <1>7 DEF BeginResume
<1>8. CASE EndResume
  <2>1. NoSession \in Sessions
    BY SessionShape
  <2>2. ASSUME NEW u \in BOOLEAN, Resumable([resuming EXCEPT !.units = u])
        PROVE  [copy["api"] EXCEPT !.status = "running", !.stage = Restaged(resuming),
                                   !.attempts = resuming.attempts + 1] \in Sessions
    <3>1. ~Exhausted(resuming.attempts)
      BY <2>2 DEF Resumable, Sessions
    <3>2. resuming.attempts + 1 \in 0..MaxGlobalRetries
      BY <3>1, OneMore
    <3>3. Restaged(resuming) \in {"none", "active", "completed", "failed", "cancelled"}
      BY DEF Restaged, Sessions
    <3> QED BY <1>0, <3>2, <3>3 DEF Sessions
  <2> QED BY <1>0, <1>8, <2>1, <2>2, UpdateTypes, QueueTypes DEF EndResume, JobTries
<1>9. ASSUME NEW t \in JobTries, RunJob(t) PROVE SessionTypeOK'
  <2>1. [row EXCEPT !.status = "running"] \in Sessions
    BY DEF Sessions
  <2>2. pending' \in [JobTries -> Nat]
    BY <1>9 DEF RunJob, JobTries
  <2>3. tries' \in 0..MaxTries
    BY <1>9, ReviewSessionConstants DEF RunJob, JobTries
  <2> QED BY <1>0, <1>1, <1>9, <2>1, <2>2, <2>3, UpdateTypes DEF RunJob, JobTries
<1>10. CASE Checkpoint
  <2>1. [copy["worker"] EXCEPT !.status = "running", !.stage = "active", !.units = TRUE] \in Sessions
    BY <1>0 DEF Sessions
  <2> QED BY <1>0, <1>10, <2>1, UpdateTypes DEF Checkpoint
<1>11. CASE EndReview
  <2>1. \A s \in {"completed", "failed"} : [copy["worker"] EXCEPT !.status = s, !.stage = s] \in Sessions
    BY <1>0 DEF Sessions
  <2> QED BY <1>0, <1>11, <2>1, UpdateTypes DEF EndReview
<1>12. CASE CompleteJob
  <2>1. copy' \in [Processes -> Sessions]
    BY <1>0, <1>12, SessionShape DEF CompleteJob, Forget
  <2> QED BY <1>12, <2>1, ReviewSessionConstants DEF CompleteJob
<1>13. CASE CrashReview
  <2>1. /\ [copy["worker"] EXCEPT !.status = "failed", !.stage = "failed"] \in Sessions
        /\ [copy["worker"] EXCEPT !.status = "running"] \in Sessions
    BY <1>0 DEF Sessions
  <2> QED BY <1>0, <1>13, <2>1, UpdateTypes DEF CrashReview
<1>14. CASE FailJob
  BY <1>14, QueueTypes, ReviewSessionConstants DEF FailJob, JobTries
<1>15. ASSUME Forget PROVE copy' \in [Processes -> Sessions]
  BY <1>0, <1>15, SessionShape DEF Forget
<1>16. CASE Requeue
  <2>1. ~Exhausted(copy["worker"].attempts) =>
          [copy["worker"] EXCEPT !.attempts = copy["worker"].attempts + 1] \in Sessions
    BY <1>0, OneMore DEF Sessions
  <2> QED BY <1>0, <1>15, <1>16, <2>1, WriteTypes, QueueTypes DEF Requeue, JobTries
<1>17. CASE WorkerDies
  <2>1. writes' \in [Processes -> Seq(Sessions)]
    <3>1. <<>> \in Seq(Sessions)
      OBVIOUS
    <3> QED BY <1>17, <3>1 DEF WorkerDies
  <2> QED BY <1>1, <1>15, <1>17, <2>1 DEF WorkerDies
<1>18. CASE Boot
  <2>1. Resumable(row) => [row EXCEPT !.status = "running", !.attempts = row.attempts + 1,
                                      !.stage = IF row.stage = "failed" THEN "active" ELSE row.stage]
                            \in Sessions
    <3> SUFFICES ASSUME Resumable(row)
                 PROVE  [row EXCEPT !.status = "running", !.attempts = row.attempts + 1,
                                    !.stage = IF row.stage = "failed" THEN "active" ELSE row.stage]
                          \in Sessions
      OBVIOUS
    <3>1. row.attempts + 1 \in 0..MaxGlobalRetries
      BY OneMore DEF Resumable
    <3> QED BY <3>1 DEF Sessions
  <2> QED BY <1>0, <1>18, <2>1, WriteTypes, QueueTypes, ReviewSessionConstants DEF Boot, JobTries
<1> QED
  BY <1>3, <1>4, <1>5, <1>6, <1>7, <1>8, <1>9, <1>10, <1>11, <1>12, <1>13, <1>14, <1>16, <1>17,
     <1>18 DEF SessionNext, JobTries

(***************************************************************************)
(* The events of a session: the types, the ids of the rows among them.     *)
(***************************************************************************)
\* Rows are of emitted events, and their ids follow one another without a gap.
EventsInv ==
  /\ EventsTypeOK
  /\ \A e \in Events : rowId[e] # 0 => e <= emitted
  /\ \A e \in Events : \A n \in 1..rowId[e] : \E f \in Events : rowId[f] = n

\* A bounded set of numbers has a largest one.
LEMMA LargestNumber ==
  ASSUME NEW b \in Nat, NEW S \in SUBSET (0..b), S # {}
  PROVE  Highest(S) \in S /\ \A m \in S : m <= Highest(S)
<1> DEFINE Bounds == {n \in Nat : \A m \in S : m <= n}
           R == {ss \in Nat \X Nat : ss[1] < ss[2]}
<1>1. Bounds \subseteq Nat /\ b \in Bounds
  OBVIOUS
<1>2. IsWellFoundedOn(R, Nat)
  BY NatLessThanWellFounded, Zenon DEF OpToRel
<1>3. \A x, y \in Nat : ~(<<y, x>> \in R) => x <= y
  OBVIOUS
<1> HIDE DEF R
<1>4. \E x \in Bounds : \A y \in Bounds : ~(<<y, x>> \in R)
  BY <1>1, <1>2, WFMin
<1>5. PICK x \in Bounds : \A y \in Bounds : x <= y
  BY <1>1, <1>3, <1>4
<1>6. x \in S
  <2> SUFFICES ASSUME x \notin S PROVE FALSE
    OBVIOUS
  <2>1. x \in Nat /\ \A m \in S : m \in Nat /\ m <= x /\ m # x
    BY <1>5
  <2>2. x # 0
    <3>1. PICK m : m \in S
      OBVIOUS
    <3>2. m \in Nat /\ m <= x /\ m # x
      BY <2>1, <3>1
    <3> QED BY <3>2
  <2>3. x - 1 \in Bounds
    BY <2>1, <2>2
  <2> QED BY <1>5, <2>1, <2>3
<1>7. \A m \in S : m <= x
  BY <1>5
<1> QED BY <1>6, <1>7 DEF Highest

LEMMA CountUpTo ==
  ASSUME NEW k \in Nat
  PROVE  IsFiniteSet(1..k) /\ Cardinality(1..k) = k
<1>1. 1 \in Int /\ k \in Int /\ (1 > k => k = 0) /\ k - 1 + 1 = k
  OBVIOUS
<1> QED BY <1>1, FS_Interval

\* A row of an event that has none gets the next number, which is within the bound.
LEMMA NextIdIsNew ==
  ASSUME EventsInv, NEW e \in Events, rowId[e] = 0
  PROVE  /\ NextRowId \in 1..NumEvents
         /\ \A f \in Events : rowId[f] < NextRowId
         /\ \A n \in 1..(NextRowId - 1) : \E f \in Events : rowId[f] = n
<1> DEFINE S == IdsOf(Events)
           k == Highest(S)
           Others == Events \ {e}
           T == {rowId[f] : f \in Others}
           rows == [f \in Others |-> rowId[f]]
<1>1. /\ NumEvents \in Nat /\ S \subseteq 0..NumEvents /\ rowId[e] \in S
      /\ \A f \in Events : rowId[f] \in S /\ rowId[f] \in Nat
  BY SessionEventsConstants DEF EventsInv, EventsTypeOK, IdsOf
<1>2. k \in S /\ \A m \in S : m <= k
  BY <1>1, LargestNumber
<1>3. k \in Nat /\ NextRowId = k + 1
  BY <1>1, <1>2 DEF NextRowId
<1>4. PICK g \in Events : rowId[g] = k
  BY <1>2 DEF IdsOf
<1> HIDE DEF k, S
<1>5. \A n \in 1..k : \E f \in Events : rowId[f] = n
  BY <1>4 DEF EventsInv
<1>6. 1..k \subseteq T
  <2> SUFFICES ASSUME NEW n \in 1..k PROVE \E f \in Others : rowId[f] = n
    OBVIOUS
  <2>1. PICK f \in Events : rowId[f] = n
    BY <1>5
  <2>2. f # e
    BY <2>1
  <2> QED BY <2>1, <2>2
<1>7. IsFiniteSet(Events) /\ Cardinality(Events) = NumEvents
  BY <1>1, CountUpTo DEF Events
<1>8. IsFiniteSet(Others) /\ Cardinality(Others) = NumEvents - 1
  BY <1>7, FS_RemoveElement
<1>9. IsFiniteSet(T) /\ Cardinality(T) <= Cardinality(Others)
  <2>1. rows \in Surjection(Others, T)
    BY DEF Surjection
  <2> QED BY <1>8, <2>1, FS_Surjection
<1>10. Cardinality(1..k) = k
  BY <1>3, CountUpTo
<1>11. Cardinality(1..k) <= Cardinality(T)
  BY <1>6, <1>9, FS_Subset
<1>12. Cardinality(T) \in Nat
  BY <1>9, FS_CardinalityType
<1> HIDE DEF T, Others, rows
<1>13. k + 1 <= NumEvents
  BY <1>1, <1>3, <1>8, <1>9, <1>10, <1>11, <1>12
<1> QED BY <1>1, <1>2, <1>3, <1>5, <1>13

\* A batch reaches the wire up to the last event.
LEMMA BatchIsWritten ==
  ASSUME wire \in Seq(Messages), NEW batch \in Seq(Messages), Write(batch)
  PROVE  wire' \in Seq(Messages) /\ link' \in {"open", "ending"}
<1> DEFINE ends == {i \in DOMAIN batch : batch[i].event = NumEvents}
           n == IF ends = {} THEN Len(batch) ELSE Highest(ends)
<1>1. Len(batch) \in Nat /\ ends \subseteq 0..Len(batch) /\ ends \subseteq 1..Len(batch)
  OBVIOUS
<1>2. n \in 0..Len(batch)
  <2>1. CASE ends = {}
    BY <1>1, <2>1
  <2>2. CASE ends # {}
    <3>1. Highest(ends) \in ends
      BY <1>1, <2>2, LargestNumber
    <3> QED BY <1>1, <2>2, <3>1
  <2> QED BY <2>1, <2>2
<1>3. /\ wire' = wire \o SubSeq(batch, 1, n)
      /\ link' \in {"open", "ending"}
  BY DEF Write
<1> HIDE DEF n
<1>4. n \in Int /\ 1 \in Int /\ \A i \in 1..n : batch[i] \in Messages
  BY <1>1, <1>2
<1>5. SubSeq(batch, 1, n) \in Seq(Messages)
  BY <1>4, SubSeqProperties
<1> QED BY <1>3, <1>5, ConcatProperties

\* A finite set of numbers can be listed in order.
LEMMA InOrderLists ==
  ASSUME NEW b \in Nat, NEW S \in SUBSET (0..b)
  PROVE  InOrder(S) \in [1..Cardinality(S) -> S] /\ Cardinality(S) \in Nat
<1> DEFINE below(x) == Cardinality({y \in S : y < x})
           n == Cardinality(S)
<1>1. IsFiniteSet(S) /\ n \in Nat /\ \A x \in S : x \in Nat
  <2>1. IsFiniteSet(0..b)
    BY FS_Interval
  <2>2. IsFiniteSet(S)
    BY <2>1, FS_Subset
  <2> QED BY <2>2, FS_CardinalityType
<1>2. \A x \in S : below(x) \in Nat /\ below(x) < n
  <2> SUFFICES ASSUME NEW x \in S PROVE below(x) \in Nat /\ below(x) < n
    OBVIOUS
  <2> DEFINE T == {y \in S : y < x}
  <2>1. x \in S /\ x \notin T /\ T \subseteq S
    BY <1>1
  <2>2. IsFiniteSet(T) /\ Cardinality(T) <= n /\ Cardinality(T) # n
    BY <1>1, <2>1, FS_Subset
  <2>3. Cardinality(T) \in Nat
    BY <2>2, FS_CardinalityType
  <2> HIDE DEF T, n
  <2>4. Cardinality(T) \in Nat /\ Cardinality(T) < n
    BY <1>1, <2>2, <2>3
  <2> QED BY <2>4 DEF T
<1>3. \A x, y \in S : x < y => below(x) < below(y)
  <2> SUFFICES ASSUME NEW x \in S, NEW y \in S, x < y PROVE below(x) < below(y)
    OBVIOUS
  <2> DEFINE T == {z \in S : z < x}
             U == {z \in S : z < y}
  <2>1. T \subseteq U /\ x \in U /\ x \notin T
    <3>1. \A z \in S : z < x => z < y
      BY <1>1
    <3>2. ~(x < x)
      BY <1>1
    <3> QED BY <3>1, <3>2
  <2>2. IsFiniteSet(U) /\ IsFiniteSet(T)
    BY <1>1, FS_Subset
  <2>3. Cardinality(T) <= Cardinality(U) /\ Cardinality(T) # Cardinality(U)
    BY <2>1, <2>2, FS_Subset
  <2>4. Cardinality(T) \in Nat /\ Cardinality(U) \in Nat
    BY <2>2, FS_CardinalityType
  <2> HIDE DEF T, U
  <2>5. Cardinality(T) < Cardinality(U)
    BY <2>3, <2>4
  <2> QED BY <2>5 DEF T, U
<1> DEFINE place == [x \in S |-> below(x) + 1]
<1>4. place \in [S -> 1..n] /\ \A x, y \in S : x < y => place[x] < place[y]
  <2> HIDE DEF below, n
  <2>1. \A x \in S : below(x) + 1 \in 1..n
    BY <1>1, <1>2
  <2>2. \A x, y \in S : x < y => below(x) + 1 < below(y) + 1
    BY <1>2, <1>3
  <2> QED BY <2>1, <2>2
<1>5. place \in Injection(S, 1..n)
  <2> HIDE DEF place, n
  <2>1. \A x, y \in S : x = y \/ x < y \/ y < x
    BY <1>1
  <2>2. \A x, y \in S : place[x] \in Int /\ place[y] \in Int
    BY <1>1, <1>4
  <2>3. \A x, y \in S : place[x] = place[y] => x = y
    BY <1>4, <2>1, <2>2
  <2> QED BY <1>4, <2>3 DEF Injection, IsInjective
<1>6. IsFiniteSet(1..n) /\ Cardinality(1..n) = n
  BY <1>1, CountUpTo
<1>7. place \in Surjection(S, 1..n)
  <2> HIDE DEF place
  <2> QED BY <1>5, <1>6, FS_Injection
<1> DEFINE list == [i \in 1..n |-> CHOOSE x \in S : place[x] = i]
<1> HIDE DEF below, place, n
<1>8. \A i \in 1..n : list[i] \in S /\ place[list[i]] = i
  BY <1>7 DEF Surjection
<1>9. list \in [1..n -> S] /\ DOMAIN list = 1..n
  BY <1>8
<1> HIDE DEF list
<1>10. \A i, j \in 1..n : i < j => list[i] < list[j]
  <2> SUFFICES ASSUME NEW i \in 1..n, NEW j \in 1..n, i < j PROVE list[i] < list[j]
    OBVIOUS
  <2> DEFINE x == list[i]
             y == list[j]
  <2>1. x \in S /\ y \in S /\ place[x] = i /\ place[y] = j
    BY <1>8
  <2> HIDE DEF x, y
  <2>2. x # y /\ ~(y < x)
    BY <1>1, <1>4, <2>1
  <2>3. x < y
    BY <1>1, <2>1, <2>2
  <2> QED BY <2>3 DEF x, y
<1>11. \E l \in [1..n -> S] : \A i, j \in DOMAIN l : i < j => l[i] < l[j]
  BY <1>9, <1>10
<1> QED BY <1>1, <1>11 DEF InOrder, n

LEMMA EventsStart == EventsInit => EventsInv
BY SessionEventsConstants DEF EventsInit, EventsInv, EventsTypeOK

LEMMA EventsStep ==
  ASSUME EventsInv, EventsNext
  PROVE  EventsInv'
<1> USE DEF EventsInv, EventsTypeOK, tableVars, pageVars
<1>0. NumEvents \in Nat /\ MaxBreaks \in Nat
  BY SessionEventsConstants
<1>1. CASE EmitEvent
  <2>1. emitted' \in 0..NumEvents /\ emitted' = emitted + 1 /\ emitted' \in Events
    BY <1>0, <1>1 DEF EmitEvent, Events
  <2>2. [event |-> emitted', id |-> 0] \in Messages
    BY <1>0, <2>1 DEF Messages
  <2>3. <<[event |-> emitted', id |-> 0]>> \in Seq(Messages)
    BY <2>2
  <2>4. wire' \in Seq(Messages) /\ link' \in {"down", "catchUp", "open", "ending"}
    BY <1>1, <2>3, BatchIsWritten DEF EmitEvent
  <2>5. visible' \subseteq {e \in 1..emitted' : rowId'[e] # 0}
    BY <1>0, <1>1, <2>1 DEF EmitEvent
  <2>6. \A e \in Events : rowId'[e] # 0 => e <= emitted'
    BY <1>0, <1>1, <2>1 DEF EmitEvent, Events
  <2> QED BY <1>1, <2>1, <2>4, <2>5, <2>6 DEF EmitEvent
<1>2. ASSUME NEW e \in Events, BeginInsert(e) PROVE EventsInv'
  <2>1. /\ e <= emitted /\ rowId[e] = 0
        /\ rowId' = [rowId EXCEPT ![e] = NextRowId]
        /\ UNCHANGED <<inline, emitted, visible, late, link, cursor, wire, lastId, seen, timeline, breaks>>
    BY <1>2 DEF BeginInsert
  <2>2. /\ NextRowId \in 1..NumEvents
        /\ \A f \in Events : rowId[f] < NextRowId
        /\ \A n \in 1..(NextRowId - 1) : \E f \in Events : rowId[f] = n
    BY <2>1, NextIdIsNew
  <2> DEFINE new == NextRowId
  <2>3. new \in Nat /\ new # 0 /\ new \in 0..NumEvents
    BY <1>0, <2>2
  <2>4. /\ rowId'[e] = new /\ \A f \in Events \ {e} : rowId'[f] = rowId[f]
        /\ rowId' \in [Events -> 0..NumEvents]
    BY <2>1, <2>3
  <2> HIDE DEF new
  <2>5. \A f, g \in Events : f # g /\ rowId'[f] # 0 => rowId'[f] # rowId'[g]
    <3>1. \A f \in Events : rowId[f] < new /\ rowId[f] # new
      <4>1. \A f \in Events : rowId[f] < new /\ rowId[f] \in Nat
        BY <2>2 DEF new
      <4> QED BY <2>3, <4>1
    <3> QED BY <2>3, <2>4, <3>1
  <2>6. visible' \subseteq {f \in 1..emitted' : rowId'[f] # 0}
    BY <1>0, <2>1, <2>3, <2>4 DEF Events
  <2>7. \A f \in Events : \A n \in 1..rowId'[f] : \E g \in Events : rowId'[g] = n
    <3> SUFFICES ASSUME NEW f \in Events, NEW n \in 1..rowId'[f]
                 PROVE  \E g \in Events : rowId'[g] = n
      OBVIOUS
    <3>1. n = new \/ \E g \in Events : rowId[g] = n
      <4>1. CASE f = e
        BY <2>2, <2>3, <2>4, <4>1 DEF new
      <4>2. CASE f # e
        BY <2>4, <4>2
      <4> QED BY <4>1, <4>2
    <3>2. ASSUME NEW g \in Events, rowId[g] = n PROVE g # e
      BY <2>1, <3>2
    <3> QED BY <2>4, <3>1, <3>2
  <2>8. \A f \in Events : rowId'[f] # 0 => f <= emitted'
    BY <2>1, <2>4
  <2> QED BY <2>1, <2>4, <2>5, <2>6, <2>7, <2>8
<1>3. ASSUME NEW e \in Events, CommitInsert(e) PROVE EventsInv'
  <2>1. e \in 1..emitted /\ rowId[e] # 0
    BY <1>0, <1>3 DEF CommitInsert, Events
  <2> QED BY <1>3, <2>1 DEF CommitInsert
<1>4. CASE Connect
  BY <1>4 DEF Connect, ResumeAt
<1>5. CASE Poll
  <2> DEFINE fresh == {n \in IdsOf(visible) : n > cursor}
             ids == InOrder(fresh)
             batch == [i \in DOMAIN ids |-> [event |-> WithId(ids[i]), id |-> ids[i]]]
  <2>1. visible \subseteq Events
    BY <1>0 DEF Events
  <2>2. fresh \subseteq 0..NumEvents /\ {cursor} \cup fresh \subseteq 0..NumEvents
    BY <2>1 DEF IdsOf
  <2>3. cursor' \in 0..NumEvents
    <3>1. cursor' = Highest({cursor} \cup fresh)
      BY <1>5 DEF Poll
    <3>2. Highest({cursor} \cup fresh) \in {cursor} \cup fresh
      BY <1>0, <2>2, LargestNumber
    <3> QED BY <2>2, <3>1, <3>2
  <2>4. ids \in [1..Cardinality(fresh) -> fresh] /\ Cardinality(fresh) \in Nat
    BY <1>0, <2>2, InOrderLists
  <2>5. \A n \in fresh : WithId(n) \in Events
    BY <2>1 DEF WithId, IdsOf
  <2>6. batch \in Seq(Messages)
    <3> DEFINE k == Cardinality(fresh)
    <3>1. \A i \in 1..k : [event |-> WithId(ids[i]), id |-> ids[i]] \in Messages
      <4> SUFFICES ASSUME NEW i \in 1..k
                   PROVE  [event |-> WithId(ids[i]), id |-> ids[i]] \in Messages
        OBVIOUS
      <4>1. ids[i] \in fresh
        BY <2>4
      <4> HIDE DEF ids, fresh
      <4> QED BY <2>2, <2>5, <4>1 DEF Messages
    <3>2. DOMAIN ids = 1..k /\ k \in Nat
      BY <2>4
    <3> HIDE DEF ids, k
    <3> QED BY <3>1, <3>2, IsASeq
  <2>7. Write(batch)
    BY <1>5 DEF Poll
  <2>8. wire' \in Seq(Messages) /\ link' \in {"open", "ending"}
    <3> HIDE DEF batch
    <3> QED BY <2>6, <2>7, BatchIsWritten
  <2>9. UNCHANGED <<inline, emitted, rowId, visible, late, lastId, seen, timeline, breaks>>
    BY <1>5 DEF Poll
  <2> QED BY <2>3, <2>8, <2>9
<1>6. CASE StreamExpires
  BY <1>6 DEF StreamExpires
<1>7. CASE StreamEnds
  BY <1>7 DEF StreamEnds
<1>8. CASE BreakLink
  <2>1. breaks' \in 0..MaxBreaks
    BY <1>0, <1>8 DEF BreakLink
  <2> QED BY <1>8, <2>1 DEF BreakLink
<1>9. CASE ReadEvent
  <2> DEFINE m == Head(wire)
  <2>1. m \in Messages /\ wire' \in Seq(Messages)
    BY <1>9 DEF ReadEvent
  <2>2. m.event \in Events /\ m.id \in 0..NumEvents
    BY <2>1 DEF Messages
  <2>3. lastId' \in 0..NumEvents
    BY <1>9, <2>2 DEF ReadEvent
  <2>4. KeyOf(m) \in {"id", "text"} \X Events
    <3>1. \A n \in 0..NumEvents : n # 0 => n \in Events
      BY <1>0 DEF Events
    <3> HIDE DEF m
    <3> QED BY <2>2, <3>1 DEF KeyOf
  <2>5. seen' \subseteq {"id", "text"} \X Events /\ timeline' \subseteq Events
    BY <1>9, <2>2, <2>4 DEF ReadEvent
  <2> QED BY <1>9, <2>1, <2>3, <2>5 DEF ReadEvent
<1> QED BY <1>1, <1>2, <1>3, <1>4, <1>5, <1>6, <1>7, <1>8, <1>9 DEF EventsNext

(***************************************************************************)
(* The page and the traces: the types.                                     *)
(***************************************************************************)
LEMMA PageStart == PageInit => PageTypeOK
<1> SUFFICES ASSUME PageInit PROVE PageTypeOK
  OBVIOUS
<1>1. requested \in [{"session", "findings"} \X Reviews -> 0..MaxUnderWay]
  BY SessionsPageConstants DEF PageInit
<1>2. /\ {selected, detail, findings} \subseteq Reviews \cup {Nothing} /\ units = Nothing
      /\ starting = FALSE /\ picks = 0 /\ fetchFailures = 0
  BY DEF PageInit
<1>3. starting \in BOOLEAN
  BY <1>2
<1>4. picks \in 0..MaxPicks /\ fetchFailures \in 0..MaxFetchFailures
  BY <1>2, SessionsPageConstants
<1> QED BY <1>1, <1>2, <1>3, <1>4, Zenon DEF PageTypeOK

LEMMA FetchTypes ==
  ASSUME PageTypeOK, NEW s \in Reviews \cup {Nothing}, Fetch(s)
  PROVE  /\ requested' \in [{"session", "findings"} \X Reviews -> 0..MaxUnderWay]
         /\ {detail', findings'} \subseteq Reviews \cup {Nothing}
<1> DEFINE Asked == {"session", "findings"} \X Reviews
<1>1. requested \in [Asked -> 0..MaxUnderWay] /\ MaxUnderWay \in Nat
  BY SessionsPageConstants DEF PageTypeOK
<1>2. CASE s = Nothing
  BY <1>1, <1>2 DEF Fetch, PageTypeOK
<1>3. CASE s # Nothing
  <2>1. /\ requested["session", s] < MaxUnderWay /\ requested["findings", s] < MaxUnderWay
        /\ UNCHANGED <<detail, findings>>
        /\ requested' = [what \in Asked |->
                           IF what[2] = s THEN requested[what] + 1 ELSE requested[what]]
    BY <1>1, <1>3 DEF Fetch, Room
  <2>2. \A what \in Asked : /\ requested[what] \in 0..MaxUnderWay
                            /\ what[2] = s => requested[what] < MaxUnderWay
    <3>1. \A what \in Asked : what[2] = s => what \in {<<"session", s>>, <<"findings", s>>}
      OBVIOUS
    <3> QED BY <1>1, <2>1, <3>1
  <2>3. \A what \in Asked :
          (IF what[2] = s THEN requested[what] + 1 ELSE requested[what]) \in 0..MaxUnderWay
    BY <1>1, <2>2
  <2> QED BY <2>1, <2>3 DEF PageTypeOK
<1> QED BY <1>2, <1>3

LEMMA SelectsTypes ==
  ASSUME PageTypeOK, NEW s \in Reviews \cup {Nothing}, Selects(s)
  PROVE  /\ requested' \in [{"session", "findings"} \X Reviews -> 0..MaxUnderWay]
         /\ {selected', detail', findings'} \subseteq Reviews \cup {Nothing}
         /\ units' \in WithUnits \cup {Nothing} /\ picks' \in 0..MaxPicks
BY FetchTypes, SessionsPageConstants DEF Selects, PageTypeOK

LEMMA PageStep ==
  ASSUME PageTypeOK, PageNext
  PROVE  PageTypeOK'
<1>1. ASSUME NEW s \in Reviews \cup {Nothing}, Pick(s) PROVE PageTypeOK'
  BY <1>1, SelectsTypes DEF Pick, PageTypeOK
<1>2. CASE StartReview
  BY <1>2 DEF StartReview, PageTypeOK, shown
<1>3. ASSUME NEW s \in Reviews, ReviewStarted(s) PROVE PageTypeOK'
  BY <1>3, SelectsTypes DEF ReviewStarted, PageTypeOK
<1>4. CASE ListArrives
  <2>1. selected \in Reviews \cup {Nothing} /\ Fetch(selected)
    BY <1>4 DEF ListArrives, Refetched, PageTypeOK
  <2> QED BY <1>4, <2>1, FetchTypes DEF ListArrives, PageTypeOK
<1>5. ASSUME NEW what \in {"session", "findings"} \X Reviews, Answered(what)
      PROVE  requested' \in [{"session", "findings"} \X Reviews -> 0..MaxUnderWay]
  <2>1. requested[what] - 1 \in 0..MaxUnderWay
    BY <1>5, SessionsPageConstants DEF Answered, PageTypeOK
  <2> QED BY <1>5, <2>1 DEF Answered, PageTypeOK
<1>6. ASSUME fetchFailures < MaxFetchFailures, fetchFailures' = fetchFailures + 1
      PROVE  fetchFailures' \in 0..MaxFetchFailures
  BY <1>6, SessionsPageConstants DEF PageTypeOK
<1>7. ASSUME NEW s \in Reviews, SessionArrives(s) PROVE PageTypeOK'
  BY <1>5, <1>7 DEF SessionArrives, UnitsShown, PageTypeOK
<1>8. ASSUME NEW s \in Reviews, SessionFails(s) PROVE PageTypeOK'
  BY <1>5, <1>6, <1>8 DEF SessionFails, PageTypeOK
<1>9. ASSUME NEW s \in Reviews, FindingsArrive(s) PROVE PageTypeOK'
  BY <1>5, <1>9 DEF FindingsArrive, PageTypeOK
<1>10. ASSUME NEW s \in Reviews, FindingsFail(s) PROVE PageTypeOK'
  BY <1>5, <1>6, <1>10 DEF FindingsFail, PageTypeOK
<1> QED BY <1>1, <1>2, <1>3, <1>4, <1>7, <1>8, <1>9, <1>10 DEF PageNext

\* Every flush took rows, so that there are no more flushes than rows.
SinkCounts ==
  /\ \A f \in Flights : flights[f].rows # {}
  /\ flushing \in 0..Len(flights) /\ waiting \in [Rows -> Nat]
  /\ flushes \in 0..MaxFlushes /\ jobEnded \in BOOLEAN /\ early \in 0..recorded

LEMMA FewFlights ==
  ASSUME SinkInv, SinkCounts
  PROVE  /\ Len(flights) \in Nat /\ Len(flights) <= NumRows
         /\ Flights \subseteq Rows
<1> DEFINE n == Len(flights)
           one == [f \in Flights |-> CHOOSE r \in flights[f].rows : TRUE]
<1>1. n \in Nat /\ NumRows \in Nat /\ recorded \in Nat /\ recorded <= NumRows
  BY SinkConstants DEF SinkInv, RowTypes
<1>2. \A f \in Flights : one[f] \in flights[f].rows
  BY DEF SinkCounts
<1> HIDE DEF one
<1>3. \A f \in Flights : one[f] \in 1..recorded
  BY <1>2 DEF SinkInv, RowTypes
<1>4. \A f, g \in Flights : one[f] = one[g] => f = g
  BY <1>2 DEF SinkInv, Apart
<1>5. one \in Injection(Flights, 1..recorded)
  <2>1. one \in [Flights -> 1..recorded]
    BY <1>3 DEF one
  <2> QED BY <1>4, <2>1 DEF Injection, IsInjective
<1>6. Cardinality(Flights) <= Cardinality(1..recorded)
  BY <1>1, <1>5, CountUpTo, FS_Injection
<1>7. Cardinality(Flights) = n /\ Cardinality(1..recorded) = recorded
  BY <1>1, CountUpTo DEF Flights
<1> HIDE DEF n
<1>8. n <= NumRows
  BY <1>1, <1>6, <1>7
<1>9. 1..n \subseteq Rows
  BY <1>1, <1>8 DEF Rows
<1> QED BY <1>1, <1>8, <1>9 DEF n, Flights

LEMMA SinkTypes == SinkInv /\ SinkCounts => SinkTypeOK
<1> SUFFICES ASSUME SinkInv, SinkCounts PROVE SinkTypeOK
  OBVIOUS
<1>1. 1..recorded \subseteq Rows /\ recorded \in 0..NumRows
  BY SinkConstants DEF SinkInv, RowTypes, Rows
<1> QED BY <1>1, FewFlights DEF SinkInv, RowTypes, SinkCounts, SinkTypeOK, FlightRecords

LEMMA SinkCountsStart == SinkInit => SinkCounts
<1> SUFFICES ASSUME SinkInit PROVE SinkCounts
  OBVIOUS
<1>1. Len(flights) = 0 /\ Flights = {}
  BY DEF SinkInit, Flights
<1>2. waiting \in [Rows -> Nat]
  BY DEF SinkInit
<1>3. flushing = 0 /\ flushes = 0 /\ jobEnded = FALSE /\ early = 0 /\ recorded = 0
  BY DEF SinkInit
<1>4. flushing \in 0..Len(flights) /\ flushes \in 0..MaxFlushes /\ early \in 0..recorded
  BY <1>1, <1>3, SinkConstants
<1>5. jobEnded \in BOOLEAN
  BY <1>3
<1> QED BY <1>1, <1>2, <1>4, <1>5, Zenon DEF SinkCounts

LEMMA FlightAdded ==
  ASSUME SinkInv, SinkCounts, NEW rows \in SUBSET Rows, rows # {}, TakeOff(rows)
  PROVE  /\ \A f \in Flights' : flights'[f].rows # {}
         /\ flushing' \in 0..Len(flights')
<1> DEFINE flight == [rows |-> rows, at |-> "sent"]
<1>1. flights \in Seq(FlightRecords) /\ flight \in FlightRecords /\ flight.rows = rows
  BY DEF SinkInv, RowTypes, FlightRecords
<1>2. flights' = Append(flights, flight) /\ flushing' = Len(flights) + 1
  BY DEF TakeOff
<1> HIDE DEF flight
<1>3. /\ Len(flights') = Len(flights) + 1 /\ Len(flights) \in Nat
      /\ 1..Len(flights') = (1..Len(flights)) \cup {Len(flights) + 1}
      /\ \A i \in 1..Len(flights) : flights'[i] = flights[i]
      /\ flights'[Len(flights) + 1] = flight
  BY <1>1, <1>2
<1> QED BY <1>1, <1>2, <1>3 DEF SinkCounts, Flights

LEMMA CallCounts ==
  ASSUME SinkInv, SinkCounts, NEW rows \in SUBSET Rows, Call(rows)
  PROVE  /\ \A f \in Flights' : flights'[f].rows # {}
         /\ flushing' \in 0..Len(flights') /\ waiting' \in [Rows -> Nat]
<1>1. CASE UNCHANGED <<flights, flushing, waiting>>
  BY <1>1 DEF SinkCounts, Flights
<1>2. CASE rows # {} /\ TakeOff(rows) /\ UNCHANGED waiting
  BY <1>2, FlightAdded DEF SinkCounts
<1>3. CASE /\ flushing # 0 /\ waiting' = [waiting EXCEPT ![flushing] = @ + 1]
           /\ UNCHANGED <<flights, flushing>>
  <2>1. flushing \in Flights
    BY <1>3, FewFlights DEF SinkCounts, Flights
  <2>2. flushing \in Rows
    BY <2>1, FewFlights
  <2> QED BY <1>3, <2>2 DEF SinkCounts, Flights
<1> QED BY <1>1, <1>2, <1>3 DEF Call, flushVars

LEMMA SinkCountsStep ==
  ASSUME SinkInv, SinkCounts, SinkNext
  PROVE  SinkCounts'
<1> USE SinkConstants
<1>0. recorded \in Nat /\ recorded <= NumRows /\ buffer \subseteq Rows /\ MaxFlushes \in Nat
  BY DEF SinkInv, RowTypes, Rows
<1>1. CASE Record
  <2> DEFINE rows == buffer \cup {recorded'}
  <2>1. recorded' = recorded + 1 /\ rows \subseteq Rows /\ UNCHANGED <<flushes, jobEnded, early>>
    BY <1>0, <1>1 DEF Record, callVars, Rows
  <2>2. Call(rows) \/ UNCHANGED <<flights, flushing, waiting>>
    BY <1>1 DEF Record
  <2>3. early' \in 0..recorded'
    BY <1>0, <2>1 DEF SinkCounts
  <2> HIDE DEF rows
  <2>4. CASE Call(rows)
    BY <2>1, <2>3, <2>4, CallCounts DEF SinkCounts
  <2>5. CASE UNCHANGED <<flights, flushing, waiting>>
    BY <2>1, <2>3, <2>5 DEF SinkCounts, Flights
  <2> QED BY <2>2, <2>4, <2>5
<1>2. CASE SpecialistFlush
  <2>1. flushes' \in 0..MaxFlushes /\ Call(buffer) /\ UNCHANGED <<recorded, jobEnded, early>>
    BY <1>0, <1>2 DEF SpecialistFlush, SinkCounts
  <2> QED BY <1>0, <2>1, CallCounts DEF SinkCounts
<1>3. CASE JobFlush
  <2>1. /\ Call(buffer) /\ jobEnded' \in BOOLEAN /\ early' = recorded
        /\ UNCHANGED <<recorded, flushes>>
    BY <1>3 DEF JobFlush
  <2>2. early' \in 0..recorded'
    BY <1>0, <2>1
  <2> QED BY <1>0, <2>1, <2>2, CallCounts DEF SinkCounts
<1>4. ASSUME NEW f \in Flights, NEW at \in {"answered", "closed"},
             flights' = [flights EXCEPT ![f].at = at], flushing' \in {flushing, 0},
             UNCHANGED <<recorded, waiting, flushes, jobEnded, early>>
      PROVE  SinkCounts'
  <2>1. Flights' = Flights /\ \A g \in Flights : flights'[g].rows = flights[g].rows
    BY <1>4, FlightMoved
  <2>2. Len(flights') = Len(flights) /\ Len(flights) \in Nat
    BY <1>4 DEF SinkInv, RowTypes
  <2> QED BY <1>4, <2>1, <2>2 DEF SinkCounts
<1>5. ASSUME NEW f \in Flights, Answer(f) \/ Close(f) PROVE SinkCounts'
  BY <1>4, <1>5 DEF Answer, Close, callVars
<1>6. ASSUME NEW f \in Flights, Resume(f) PROVE SinkCounts'
  <2>1. /\ waiting[f] > 0 /\ waiting' = [waiting EXCEPT ![f] = @ - 1]
        /\ UNCHANGED <<recorded, flushes, jobEnded, early>>
        /\ \/ UNCHANGED <<flights, flushing>>
           \/ buffer # {} /\ TakeOff(buffer)
    BY <1>6 DEF Resume, callVars
  <2>2. waiting' \in [Rows -> Nat]
    BY <2>1, FewFlights DEF SinkCounts
  <2>3. CASE UNCHANGED <<flights, flushing>>
    BY <2>1, <2>2, <2>3 DEF SinkCounts, Flights
  <2>4. CASE buffer # {} /\ TakeOff(buffer)
    BY <1>0, <2>1, <2>2, <2>4, FlightAdded DEF SinkCounts
  <2> QED BY <2>1, <2>3, <2>4
<1> QED BY <1>1, <1>2, <1>3, <1>5, <1>6 DEF SinkNext, Flights

(***************************************************************************)
(* The five modules beside one another, as the run checks them.            *)
(***************************************************************************)
LEMMA RecordRestsSound == RecordRests => SessionTypeOK
<1> SUFFICES ASSUME RecordRests PROVE SessionTypeOK
  OBVIOUS
<1>1. row \in Sessions
  BY ReviewSessionConstants DEF RecordRests, Sessions
<1>2. copy \in [Processes -> Sessions] /\ resuming \in Sessions
  BY <1>1, SessionShape DEF RecordRests
<1>3. <<>> \in Seq(Sessions)
  OBVIOUS
<1>4. pending \in [0..(MaxTries - 1) -> Nat]
  BY DEF RecordRests
<1> QED BY <1>1, <1>2, <1>3, <1>4, ReviewSessionConstants DEF RecordRests, SessionTypeOK

LEMMA EventsRestSound == EventsRest => EventsInv
<1> SUFFICES ASSUME EventsRest PROVE EventsInv
  OBVIOUS
<1>1. \A e \in Events : rowId[e] = 0
  BY DEF EventsRest
<1>2. rowId \in [Events -> 0..NumEvents] /\ wire \in Seq(Messages)
  BY SessionEventsConstants DEF EventsRest
<1>3. /\ emitted \in 0..NumEvents /\ cursor \in 0..NumEvents /\ lastId \in 0..NumEvents
      /\ breaks \in 0..MaxBreaks
  BY SessionEventsConstants DEF EventsRest
<1>4. EventsTypeOK
  BY <1>1, <1>2, <1>3, Zenon DEF EventsRest, EventsTypeOK
<1>5. \A e \in Events : \A n \in 1..rowId[e] : FALSE
  BY <1>1
<1> QED BY <1>1, <1>4, <1>5 DEF EventsInv

LEMMA SinkRestsSound == SinkRests => SinkInv /\ SinkCounts
<1> SUFFICES ASSUME SinkRests PROVE SinkInv /\ SinkCounts
  OBVIOUS
<1>1. Len(flights) = 0 /\ Flights = {} /\ 1..recorded = {}
  BY DEF SinkRests, Flights
<1>2. waiting \in [Rows -> Nat] /\ inserted \in [Rows -> Nat]
  BY DEF SinkRests
<1>3. RowTypes
  BY <1>1, <1>2, SinkConstants DEF SinkRests, RowTypes, Rows
<1>4. SinkCounts
  BY <1>1, <1>2, SinkConstants DEF SinkRests, SinkCounts
<1> QED BY <1>1, <1>3, <1>4 DEF SinkRests, SinkInv, Apart, Unanswered, Kept, Rows

CrashCount == crashes \in 0..MaxCrashes

LEMMA CrashesStart == SplitInit => CrashCount
  BY SplitConstants DEF SplitInit, CrashCount

LEMMA CrashCounts == CrashCount /\ [SplitNext]_splitVars => CrashCount'
<1> SUFFICES ASSUME CrashCount, [SplitNext]_splitVars PROVE CrashCount'
  OBVIOUS
<1>1. crashes' = crashes \/ (crashes < MaxCrashes /\ crashes' = crashes + 1)
  BY DEF SplitNext, StartRun, PublishReview, CrashRun, BeginUnit, EndUnit, SplitUnit, LeaveUnit,
         SaveUnit, Send, Store, splitVars
<1> QED BY <1>1, SplitConstants DEF CrashCount

LEMMA SplitTypes == SplitInv /\ CrashCount => SplitTypeOK
<1> SUFFICES ASSUME SplitInv, CrashCount PROVE SplitTypeOK
  OBVIOUS
<1>1. stored \in [Units -> Final \cup {"absent", "pending"}] => stored \in [Units -> UnitStates]
  BY DEF UnitStates
<1>2. \A s \in Units \cup {Main} : saves[s].at \in {"idle", "select", "update"}
  BY DEF SplitInv, TypeInv, Records
<1> QED BY <1>1, <1>2 DEF SplitInv, TypeInv, SplitTypeOK, CrashCount

\* For the specification the run checks, and every value of the constants: the types of the
\* five modules, and the splits.  No copy of the session, stale or not, has more attempts
\* than are allowed, whatever each process counts on its own; the rows of two events never
\* have the same id; and there are no more flushes of traces than rows.
THEOREM SessionsAreSound == SessionsSpec => [](SessionsTypeOK /\ SplitsAccounted)
<1> DEFINE Inv == SessionTypeOK /\ EventsInv /\ PageTypeOK /\ SinkInv /\ SinkCounts
                  /\ SplitInv /\ CrashCount
           all == <<part, sessionVars, eventVars, pageState, sinkVars, splitVars>>
<1>1. MCInit => Inv
  BY SessionStart, RecordRestsSound, EventsStart, EventsRestSound, PageStart, SinkStart,
     SinkCountsStart, SinkRestsSound, SplitStart, CrashesStart DEF MCInit, PageRests, SplitsRest
<1>2. Inv /\ [MCNext]_all => Inv'
  <2> SUFFICES ASSUME Inv, [MCNext]_all PROVE Inv'
    OBVIOUS
  <2>1. SessionNext \/ UNCHANGED sessionVars
    BY DEF MCNext
  <2>2. EventsNext \/ UNCHANGED eventVars
    BY DEF MCNext
  <2>3. PageNext \/ UNCHANGED pageState
    BY DEF MCNext
  <2>4. SinkNext \/ UNCHANGED sinkVars
    BY DEF MCNext
  <2>5. SplitNext \/ UNCHANGED splitVars
    BY DEF MCNext
  <2>6. UNCHANGED sessionVars => SessionTypeOK'
    BY DEF sessionVars, SessionTypeOK
  <2>7. UNCHANGED eventVars => EventsInv'
    BY DEF eventVars, EventsInv, EventsTypeOK
  <2>8. UNCHANGED pageState => PageTypeOK'
    BY DEF pageState, PageTypeOK
  <2>9. UNCHANGED sinkVars => SinkCounts'
    BY DEF sinkVars, SinkCounts, Flights
  <2> QED
    BY <2>1, <2>2, <2>3, <2>4, <2>5, <2>6, <2>7, <2>8, <2>9, SessionStep, EventsStep, PageStep,
       SinkKept, SinkCountsStep, SplitKept, CrashCounts
<1>3. Inv => SessionsTypeOK /\ SplitsAccounted
  BY SinkTypes, SplitTypes, SplitsAreAccounted DEF EventsInv, SessionsTypeOK
<1> QED BY <1>1, <1>2, <1>3, PTL DEF SessionsSpec
===============================================================================
