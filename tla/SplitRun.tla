------------------------------- MODULE SplitRun -------------------------------
(***************************************************************************)
(* Units that split while checkpoints are being saved (runOne, onSplit and *)
(* persistCheckpoint in packages/agents/src/orchestrator.ts), with the     *)
(* crashes that follow and the runs that resume.  SelfHeal has the reasons *)
(* of a split and ReviewRun what becomes of findings; here it matters only *)
(* which paths a run still knows of.  The session has a row in Postgres,   *)
(* which exists from the first save on; the file that is written after it  *)
(* is read only without a row.                                             *)
(*                                                                         *)
(* As in SelfHeal, a unit is the interval <<first, last>> of its paths.    *)
(***************************************************************************)
EXTENDS Naturals, FiniteSets

CONSTANTS
  NumPaths,  \* how many paths are under review
  Planned,   \* the units the planner made of them
  Limits,    \* values of STEW_MAX_CONCURRENT
  MaxCrashes \* bound: how often the process dies

Paths == 1..NumPaths
Units == {u \in Paths \X Paths : u[1] <= u[2]}
PathsOf(u) == u[1]..u[2]
Main == <<0, 0>> \* run() itself, which saves before the first unit

ASSUME SplitConstants ==
  /\ NumPaths \in Nat /\ Planned \subseteq Units
  /\ \A p \in Paths : \E u \in Planned : p \in PathsOf(u)
  /\ Limits \subseteq Nat \ {0} /\ MaxCrashes \in Nat

VARIABLES
  maxC,    \* how many units run at a time
  stage,   \* how far the run is
  status,  \* ReviewUnit.status of the objects that runOne works on; "absent" for no unit,
           \* "leaving" when onSplit has put a skipped copy in its place, "split" when it is
           \* skipped itself, "gap" when it is skipped with a note
  ended,   \* units that have ended and not yet called persistCheckpoint
  saves,   \* calls of saveSession in progress
  stored,  \* the units of session_checkpoints
  crashes,
  caught   \* units that left while a save had them and not their halves

splitVars == <<maxC, stage, status, ended, saves, stored, crashes, caught>>
saveVars == <<ended, saves, stored>>

Final == {"completed", "gap", "split"}
UnitStates == Final \cup {"absent", "pending", "running", "leaving"}
Known == {u \in Units : status[u] # "absent"}
NoSave == [at |-> "idle", known |-> {}, json |-> <<>>]

SplitTypeOK ==
  /\ maxC \in Limits /\ stage \in {"absent", "saving", "specialists", "published"}
  /\ status \in [Units -> UnitStates] /\ ended \subseteq Units
  /\ \A s \in Units \cup {Main} : saves[s].at \in {"idle", "select", "update"}
  /\ stored = <<>> \/ stored \in [Units -> UnitStates]
  /\ crashes \in 0..MaxCrashes /\ caught \subseteq Units

SplitInit ==
  /\ maxC \in Limits /\ stage = "absent"
  /\ status = [u \in Units |-> "absent"] /\ ended = {}
  /\ saves = [s \in Units \cup {Main} |-> NoSave]
  /\ stored = <<>> /\ crashes = 0 /\ caught = {}

\* splitReviewUnit.
Halves(u) ==
  LET mid == (u[2] - u[1]) \div 2
  IN {<<u[1], u[1] + mid>>, <<u[1] + mid + 1, u[2]>>} \cap Units

(***************************************************************************)
(* Checkpoints.  A Slip_ operator is a plausible bug in the definition     *)
(* after it.                                                               *)
(***************************************************************************)
\* persistCheckpoint lists the units that are known now, ...
Listed == [at |-> "select", known |-> Known, json |-> <<>>]

Slip_JsonOfParent(known) ==
  [u \in Units |-> IF u \notin known THEN "absent"
                   ELSE IF status[u] = "leaving" THEN "split"
                   ELSE IF status[u] \in Final THEN status[u] ELSE "pending"]

\* ... and jsonParam writes them down as they are later.  A list that is older than the
\* split has the object that still runs, a newer one its skipped copy and the halves.
Json(known) ==
  [u \in Units |-> IF u \notin known THEN "absent"
                   ELSE IF status[u] = "leaving" /\ Halves(u) \subseteq known THEN "split"
                   ELSE IF status[u] \in Final THEN status[u] ELSE "pending"]

\* saveSession's SELECT has answered.
Send(s) ==
  /\ saves[s].at = "select"
  /\ saves' = [saves EXCEPT ![s] = [@ EXCEPT !.at = "update", !.json = Json(saves[s].known)]]
  /\ UNCHANGED <<maxC, stage, status, ended, stored, crashes, caught>>

\* The statement takes effect, in any order with those of others.  The file has no reader.
Store(s) ==
  /\ saves[s].at = "update"
  /\ stored' = saves[s].json /\ saves' = [saves EXCEPT ![s] = NoSave]
  /\ stage' = IF s = Main THEN "specialists" ELSE stage
  /\ UNCHANGED <<maxC, status, ended, crashes, caught>>

(***************************************************************************)
(* The run.                                                                *)
(***************************************************************************)
\* run(), up to its first persistCheckpoint: the units of the checkpoint, or new ones.
StartRun ==
  /\ stage = "absent" /\ stage' = "saving"
  /\ status' = IF stored # <<>> THEN stored
               ELSE [u \in Units |-> IF u \in Planned THEN "pending" ELSE "absent"]
  /\ saves' = [saves EXCEPT ![Main] =
                 [at |-> "select", known |-> {u \in Units : status'[u] # "absent"}, json |-> <<>>]]
  /\ UNCHANGED <<maxC, ended, stored, crashes, caught>>

InHand == {u \in Units : status[u] \in {"running", "leaving"} \/ saves[u].at # "idle"} \cup ended

BeginUnit(u) ==
  /\ stage = "specialists" /\ status[u] = "pending" /\ Cardinality(InHand) < maxC
  /\ status' = [status EXCEPT ![u] = "running"]
  /\ UNCHANGED <<maxC, stage, saveVars, crashes, caught>>

\* runUnitWithHeal returns findings, or the note of a gap.
EndUnit(u) ==
  /\ status[u] = "running" /\ ended' = ended \cup {u}
  /\ \E s \in {"completed", "gap"} : status' = [status EXCEPT ![u] = s]
  /\ UNCHANGED <<maxC, stage, saves, stored, crashes, caught>>

\* onSplit: a skipped copy replaces the unit in unitIndex, and the halves join it and the
\* work queue.
SplitUnit(u) ==
  /\ status[u] = "running" /\ Cardinality(Halves(u)) = 2
  /\ status' = [v \in Units |-> IF v = u THEN "leaving"
                                ELSE IF v \in Halves(u) THEN "pending" ELSE status[v]]
  /\ UNCHANGED <<maxC, stage, saveVars, crashes, caught>>

\* After two events, Object.assign makes the unit itself skipped, wherever it is listed.
LeaveUnit(u) ==
  /\ status[u] = "leaving"
  /\ status' = [status EXCEPT ![u] = "split"] /\ ended' = ended \cup {u}
  /\ caught' = caught \cup (IF \E s \in DOMAIN saves :
                                 saves[s].at = "select" /\ u \in saves[s].known
                                 /\ ~(Halves(u) \subseteq saves[s].known) THEN {u} ELSE {})
  /\ UNCHANGED <<maxC, stage, saves, stored, crashes>>

SaveUnit(u) ==
  /\ u \in ended /\ ended' = ended \ {u}
  /\ saves' = [saves EXCEPT ![u] = Listed]
  /\ UNCHANGED <<maxC, stage, status, stored, crashes, caught>>

\* No unit is left: the review is published.
PublishReview ==
  /\ stage = "specialists" /\ InHand = {} /\ \A u \in Units : status[u] # "pending"
  /\ stage' = "published"
  /\ UNCHANGED <<maxC, status, saveVars, crashes, caught>>

\* The process dies; what it had sent was stored before, or is lost.
CrashRun ==
  /\ stage \in {"saving", "specialists"}
  /\ crashes < MaxCrashes /\ crashes' = crashes + 1
  /\ stage' = "absent" /\ status' = [u \in Units |-> "absent"] /\ ended' = {}
  /\ saves' = [s \in DOMAIN saves |-> NoSave]
  /\ UNCHANGED <<maxC, stored, caught>>

SplitNext ==
  \/ StartRun \/ PublishReview \/ CrashRun
  \/ \E u \in Units : \/ BeginUnit(u) \/ EndUnit(u) \/ SplitUnit(u) \/ LeaveUnit(u)
                      \/ SaveUnit(u)
  \/ \E s \in Units \cup {Main} : Send(s) \/ Store(s)

SplitSpec == SplitInit /\ [][SplitNext]_splitVars

(***************************************************************************)
(* Properties                                                              *)
(***************************************************************************)
Accounted == UNION {PathsOf(u) : u \in {v \in Units : status[v] \in {"completed", "gap"}}}

\* However runs crash and resume, a published review has looked at every path or notes it
\* as a gap (overview.md: "skip_with_gap_note" is the last resort), but for the paths of a
\* unit whose split a save was caught in; and with one unit at a time no save is.
SplitsAccounted ==
  /\ maxC = 1 => caught = {}
  /\ stage = "published" => Paths \subseteq Accounted \cup UNION {PathsOf(u) : u \in caught}
==============================================================================
