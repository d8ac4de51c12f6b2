------------------------------ MODULE ReviewRun ------------------------------
(***************************************************************************)
(* The runs of one review session: the unit scheduler of the orchestrator  *)
(* (packages/agents/src/orchestrator.ts), the checkpoints it saves while   *)
(* units run concurrently (CheckpointStore in packages/agents/src/         *)
(* self-heal.ts, saveSession in packages/db/src/repositories/              *)
(* checkpoints.ts), and what a later run loads after a crash.              *)
(*                                                                         *)
(* A unit's outcome (findings, or the gap note of a unit given up) is the  *)
(* unit itself: candidates are the set of units whose outcome they hold.   *)
(* JavaScript runs one turn at a time; a step ends where the code awaits.  *)
(***************************************************************************)
EXTENDS Naturals, FiniteSets

CONSTANTS
  Units,          \* what the planner made
  Bare,           \* cross-repo units without a checkout: skipped, with no outcome
  Main,           \* run() itself, which saves before and after the units
  None,           \* no checkpoint, nothing published
  MaxConcurrent,  \* job.maxConcurrent or STEW_MAX_CONCURRENT (default 8)
  Overlap,        \* TRUE: two jobs of a session may run at a time
  DbFails,        \* TRUE: a save of the row may fail
  FileFails,      \* TRUE: a save of the file may fail
  MaxRuns,        \* bound: calls of run()
  MaxFaults       \* bound: crashes and failed saves

ASSUME RunConstants ==
  /\ Main \notin Units
  /\ IsFiniteSet(Units) /\ Bare \subseteq Units
  /\ None \notin [done : SUBSET Units, cand : SUBSET Units]
  /\ MaxConcurrent \in Nat \ {0}
  /\ Overlap \in BOOLEAN /\ DbFails \in BOOLEAN /\ FileFails \in BOOLEAN
  /\ MaxRuns \in Nat /\ MaxFaults \in Nat

Runs == 1..MaxRuns
Savers == Units \cup {Main}

VARIABLES
  alive,      \* how far each run is
  phase,      \* ReviewUnit.status in the memory of each run, and its save
  cand,       \* `candidates` in the memory of each run
  save,       \* calls of CheckpointStore.save in progress
  row,        \* session_checkpoints
  file,       \* {dir}/{sessionId}.json
  published,  \* what each run published
  saved,      \* units whose checkpoint was saved and has not been deleted since
  faults

vars == <<alive, phase, cand, save, row, file, published, saved, faults>>

Fates == {"absent", "running", "closing", "closed", "unlinking", "finished",
          "settled", "rejected", "dead"}
Phases == {"pending", "running", "done", "saving", "over"}
Saves == [pc : {"idle", "row", "commit", "file"}, snap : SUBSET Units,
          done : SUBSET Units, found : {"none", "row", "stale"}]
Checkpoints == [done : SUBSET Units, cand : SUBSET Units]

Idle == [pc |-> "idle", snap |-> {}, done |-> {}, found |-> "none"]
Nothing == [done |-> {}, cand |-> {}]

TypeOK ==
  /\ alive \in [Runs -> Fates]
  /\ phase \in [Runs -> [Units -> Phases]]
  /\ cand \in [Runs -> SUBSET Units]
  /\ save \in [Runs -> [Savers -> Saves]]
  /\ row \in Checkpoints \cup {None}
  /\ file \in Checkpoints \cup {None}
  /\ published \in [Runs -> (SUBSET Units) \cup {None}]
  /\ saved \in SUBSET Units
  /\ faults \in 0..MaxFaults

Init ==
  /\ alive = [g \in Runs |-> "absent"]
  /\ phase = [g \in Runs |-> [u \in Units |-> "pending"]]
  /\ cand = [g \in Runs |-> {}]
  /\ save = [g \in Runs |-> [s \in Savers |-> Idle]]
  /\ row = None
  /\ file = None
  /\ published = [g \in Runs |-> None]
  /\ saved = {}
  /\ faults = 0

(***************************************************************************)
(* A Slip_ operator is a plausible bug in the definition after it.         *)
(***************************************************************************)
Slip_CompletedOnceSaved(g) == {u \in Units : phase[g][u] = "over"}

\* The units with status completed or skipped, as of now.
Completed(g) == {u \in Units : phase[g][u] \in {"done", "saving", "over"}}

InFlight(g) == {u \in Units : phase[g][u] \in {"running", "done", "saving"}}

\* persistCheckpoint: `candidates` is copied, `units` holds the live objects.
Snapshot(g) == [Idle EXCEPT !.pc = "row", !.snap = cand[g]]

Fault == faults < MaxFaults /\ faults' = faults + 1

\* load: the row if it can be read and exists, the file otherwise.
Loaded == {IF row # None THEN row ELSE file} \cup (IF DbFails THEN {file} ELSE {})

\* run(), up to its first persistCheckpoint: units that a checkpoint holds as
\* completed or skipped are left out of the work queue, all others start over.
Start(g) ==
  /\ alive[g] = "absent"
  /\ \A h \in 1..(g - 1) : alive[h] # "absent"
  /\ Overlap \/ \A h \in 1..(g - 1) : alive[h] \in {"rejected", "dead"}
  /\ \E found \in Loaded :
       LET from == IF found = None THEN Nothing ELSE found
       IN /\ phase' = [phase EXCEPT ![g] = [u \in Units |->
                         IF u \in from.done THEN "over" ELSE "pending"]]
          /\ cand' = [cand EXCEPT ![g] = from.cand]
          /\ save' = [save EXCEPT ![g][Main] = [Idle EXCEPT !.pc = "row", !.snap = from.cand]]
  /\ alive' = [alive EXCEPT ![g] = "running"]
  /\ UNCHANGED <<row, file, published, saved, faults>>

Slip_DispatchNeverFrees(g, u) ==
  /\ alive[g] = "running"
  /\ save[g][Main].pc = "idle"
  /\ phase[g][u] = "pending"
  /\ Cardinality(Units \ {v \in Units : phase[g][v] = "pending"}) < MaxConcurrent
  /\ phase' = [phase EXCEPT ![g][u] = "running"]
  /\ UNCHANGED <<alive, cand, save, row, file, published, saved, faults>>

\* The scheduler loop starts a unit.  Its order is the order of the work queue;
\* nothing here depends on it.
Dispatch(g, u) ==
  /\ alive[g] = "running"
  /\ save[g][Main].pc = "idle"
  /\ phase[g][u] = "pending"
  /\ Cardinality(InFlight(g)) < MaxConcurrent
  /\ phase' = [phase EXCEPT ![g][u] = "running"]
  /\ UNCHANGED <<alive, cand, save, row, file, published, saved, faults>>

\* runUnitWithHeal returns: findings are pushed and the status assigned in one
\* turn.  Units of a rejected run go on: nothing cancels them.
Finish(g, u) ==
  /\ alive[g] \in {"running", "rejected"}
  /\ phase[g][u] = "running" /\ u \notin Bare
  /\ phase' = [phase EXCEPT ![g][u] = "done"]
  /\ cand' = [cand EXCEPT ![g] = @ \cup {u}]
  /\ UNCHANGED <<alive, save, row, file, published, saved, faults>>

\* The early return of runOne: no outcome, and no checkpoint either.
Skip(g, u) ==
  /\ alive[g] \in {"running", "rejected"}
  /\ phase[g][u] = "running" /\ u \in Bare
  /\ phase' = [phase EXCEPT ![g][u] = "over"]
  /\ UNCHANGED <<alive, cand, save, row, file, published, saved, faults>>

Slip_PersistBeforePush(g, u) ==
  /\ phase[g][u] = "done"
  /\ phase' = [phase EXCEPT ![g][u] = "saving"]
  /\ save' = [save EXCEPT ![g][u] = [Snapshot(g) EXCEPT !.snap = @ \ {u}]]
  /\ UNCHANGED <<alive, cand, row, file, published, saved, faults>>

\* The unit event has been emitted; persistCheckpoint builds its payload.
Persist(g, u) ==
  /\ phase[g][u] = "done"
  /\ phase' = [phase EXCEPT ![g][u] = "saving"]
  /\ save' = [save EXCEPT ![g][u] = Snapshot(g)]
  /\ UNCHANGED <<alive, cand, row, file, published, saved, faults>>

\* saveSession: the SELECT has answered; update (of the row it found) or insert
\* is chosen, and jsonParam turns the live units into JSON only now.
SendRow(g, s) ==
  /\ save[g][s].pc = "row"
  /\ save' = [save EXCEPT ![g][s] = [@ EXCEPT !.pc = "commit", !.done = Completed(g),
                                  !.found = IF row = None THEN "none" ELSE "row"]]
  /\ UNCHANGED <<alive, phase, cand, row, file, published, saved, faults>>

Slip_CommitInsertOnly(g, s) ==
  /\ save[g][s].pc = "commit"
  /\ row' = IF row = None THEN [done |-> save[g][s].done, cand |-> save[g][s].snap] ELSE row
  /\ save' = [save EXCEPT ![g][s].pc = "file"]
  /\ UNCHANGED <<alive, phase, cand, file, published, saved, faults>>

\* The statement takes effect, in no particular order with those of other
\* connections.  An INSERT next to a row violates its key, an UPDATE of a row
\* deleted since changes nothing; either way the save goes on with the file.
CommitRow(g, s) ==
  /\ save[g][s].pc = "commit"
  /\ row' = IF save[g][s].found = (IF row = None THEN "none" ELSE "row")
              THEN [done |-> save[g][s].done, cand |-> save[g][s].snap] ELSE row
  /\ save' = [save EXCEPT ![g][s].pc = "file"]
  /\ UNCHANGED <<alive, phase, cand, file, published, saved, faults>>

\* The row cannot be read or saved: logged, "using file only".
CommitFails(g, s) ==
  /\ DbFails /\ Fault
  /\ save[g][s].pc \in {"row", "commit"}
  /\ save' = [save EXCEPT ![g][s].pc = "file"]
  /\ UNCHANGED <<alive, phase, cand, row, file, published, saved>>

\* writeFile, after mkdir: the units are turned into JSON once more.  The save
\* returns; a unit is off the scheduler's hands.
WriteFile(g, s) ==
  /\ save[g][s].pc = "file"
  /\ file' = [done |-> Completed(g), cand |-> save[g][s].snap]
  /\ save' = [save EXCEPT ![g][s] = Idle]
  /\ IF s = Main
       THEN /\ alive' = [alive EXCEPT ![g] = IF @ = "closing" THEN "closed" ELSE @]
            /\ UNCHANGED <<phase, saved>>
       ELSE /\ phase' = [phase EXCEPT ![g][s] = "over"]
            /\ saved' = saved \cup {s}
            /\ UNCHANGED alive
  /\ UNCHANGED <<cand, row, published, faults>>

\* writeFile throws: Promise.race rejects, and with it run(); the job fails and
\* is queued again.
WriteFileFails(g, s) ==
  /\ FileFails /\ Fault
  /\ save[g][s].pc = "file"
  /\ save' = [save EXCEPT ![g][s] = Idle]
  /\ alive' = [alive EXCEPT ![g] = "rejected"]
  /\ phase' = IF s = Main THEN phase ELSE [phase EXCEPT ![g][s] = "over"]
  /\ UNCHANGED <<cand, row, file, published, saved>>

\* The barrier: no unit is left.  Discourse, verification and judging work on
\* the candidates, the review is published, the last save begins.
Publish(g) ==
  /\ alive[g] = "running"
  /\ save[g][Main].pc = "idle"
  /\ \A u \in Units : phase[g][u] = "over"
  /\ published' = [published EXCEPT ![g] = cand[g]]
  /\ alive' = [alive EXCEPT ![g] = "closing"]
  /\ save' = [save EXCEPT ![g][Main] = Snapshot(g)]
  /\ UNCHANGED <<phase, cand, row, file, saved, faults>>

\* A session with gaps keeps its checkpoint.
Keep(g) ==
  /\ alive[g] = "closed"
  /\ alive' = [alive EXCEPT ![g] = "finished"]
  /\ UNCHANGED <<phase, cand, save, row, file, published, saved, faults>>

Slip_DeleteRowEmptied(g) ==
  /\ alive[g] = "closed"
  /\ alive' = [alive EXCEPT ![g] = "unlinking"]
  /\ row' = IF row = None THEN None ELSE [done |-> {}]
  /\ UNCHANGED <<phase, cand, save, file, published, saved, faults>>

\* A completed session deletes its own: the row, a failure ignored, ...
DeleteRow(g) ==
  /\ alive[g] = "closed"
  /\ alive' = [alive EXCEPT ![g] = "unlinking"]
  /\ \/ /\ row' = None
        /\ save' = [h \in Runs |-> [s \in Savers |->
                      IF save[h][s].found = "row"
                        THEN [save[h][s] EXCEPT !.found = "stale"] ELSE save[h][s]]]
     \/ DbFails /\ UNCHANGED <<row, save>>
  /\ UNCHANGED <<phase, cand, file, published, saved, faults>>

\* ... and then the file.
Unlink(g) ==
  /\ alive[g] = "unlinking"
  /\ alive' = [alive EXCEPT ![g] = "finished"]
  /\ file' = None
  /\ saved' = {}
  /\ UNCHANGED <<phase, cand, save, row, published, faults>>

\* run() has returned, the session is updated, and the job's row completed.
CompleteJob(g) ==
  /\ alive[g] = "finished"
  /\ alive' = [alive EXCEPT ![g] = "settled"]
  /\ UNCHANGED <<phase, cand, save, row, file, published, saved, faults>>

\* complete throws, whether or not it has committed: the job fails and is queued again.
CompleteFails(g) ==
  /\ alive[g] = "finished" /\ Fault
  /\ alive' = [alive EXCEPT ![g] = "rejected"]
  /\ UNCHANGED <<phase, cand, save, row, file, published, saved>>

\* The process dies: its memory and the saves it had begun are gone.  (One
\* lease passes before the next run: a statement that was sent has been
\* committed, as by CommitRow, or is lost.)  Up to complete, the job is claimed again.
Crash(g) ==
  /\ alive[g] \in {"running", "closing", "closed", "unlinking", "finished", "rejected"}
  /\ Fault
  /\ alive' = [alive EXCEPT ![g] = "dead"]
  /\ phase' = [phase EXCEPT ![g] = [u \in Units |-> "pending"]]
  /\ cand' = [cand EXCEPT ![g] = {}]
  /\ save' = [save EXCEPT ![g] = [s \in Savers |-> Idle]]
  /\ UNCHANGED <<row, file, published, saved>>

Progress(g) ==
  \/ Publish(g)
  \/ Keep(g)
  \/ DeleteRow(g)
  \/ Unlink(g)
  \/ CompleteJob(g)
  \/ \E u \in Units : Dispatch(g, u) \/ Finish(g, u) \/ Skip(g, u) \/ Persist(g, u)
  \/ \E s \in Savers : SendRow(g, s) \/ CommitRow(g, s) \/ WriteFile(g, s)

Next ==
  \E g \in Runs :
    \/ Start(g)
    \/ \E u \in Units : \/ Dispatch(g, u)
                        \/ Finish(g, u)
                        \/ Skip(g, u)
                        \/ Persist(g, u)
    \/ \E s \in Savers : \/ SendRow(g, s)
                         \/ CommitRow(g, s)
                         \/ CommitFails(g, s)
                         \/ WriteFile(g, s)
                         \/ WriteFileFails(g, s)
    \/ Publish(g)
    \/ Keep(g)
    \/ DeleteRow(g)
    \/ Unlink(g)
    \/ CompleteJob(g)
    \/ CompleteFails(g)
    \/ Crash(g)

Spec == Init /\ [][Next]_vars

\* An interrupted session is queued again until its runs are used up, and a
\* run that lives goes on: runners and saves have time limits.
Fairness == \A g \in Runs : WF_vars(Start(g)) /\ WF_vars(Progress(g))
FairSpec == Spec /\ Fairness

(***************************************************************************)
(* Properties.                                                             *)
(***************************************************************************)
\* A unit that a run has still to do is not yet among its candidates: no
\* resume, however its checkpoint was torn or overtaken, counts a finding
\* twice.
NoFindingTwice ==
  \A g \in Runs, u \in Units : phase[g][u] \in {"pending", "running"} => u \notin cand[g]

\* "other units completed and their findings were still published"
\* (self-heal.ts:154): what is published holds the outcome of every unit that
\* had one.
FindingsKept == \A g \in Runs : published[g] \in {None, Units \ Bare}

\* "a crash can resume without redoing finished units" (overview.md:98): a
\* unit whose checkpoint was saved is not run again, as long as no review was
\* completed.  That deletes the checkpoint before the job is settled, and a crash, or
\* a failing complete, in between starts the whole review again.
FinishedNotRedone ==
  [][\A g \in Runs, u \in saved :
       phase[g][u] = "pending" => phase'[g][u] # "running"]_vars

\* As long as not every run is hit by a fault, the review is published.
EventuallyPublished == <>(\E g \in Runs : published[g] # None)
=============================================================================
