--------------------------- MODULE ReviewRunProofs ---------------------------
(***************************************************************************)
(* Proofs about ReviewRun, for any set of units, any number of concurrent  *)
(* units, overlapping runs, failed saves and crashes.                      *)
(***************************************************************************)
EXTENDS ReviewRun, FiniteSetTheorems, TLAPS

\* A finding belongs to a completed unit ...
HeldByCompleted == \A g \in Runs : cand[g] \subseteq Completed(g)

\* ... also in a copy that a save still carries: completion is never undone
\* while the run lives, so the units read after the findings were copied cover
\* them ...
Carried(g, s) ==
  /\ save[g][s].pc # "idle" => save[g][s].snap \subseteq Completed(g)
  /\ save[g][s].pc = "commit" => save[g][s].snap \subseteq save[g][s].done
CarriedByCompleted == \A g \in Runs, s \in Savers : Carried(g, s)

\* ... and so in every checkpoint that a later run may load.
Whole(c) == c # None => c.cand \subseteq c.done
StoredByCompleted == Whole(row) /\ Whole(file)

\* A run that has not begun has no saves and has done nothing.
NothingBefore ==
  \A g \in Runs : alive[g] = "absent" =>
    /\ \A s \in Savers : save[g][s].pc = "idle"
    /\ \A u \in Units : phase[g][u] = "pending"

IInv == /\ TypeOK
        /\ HeldByCompleted
        /\ CarriedByCompleted
        /\ StoredByCompleted
        /\ NothingBefore

LEMMA IdleType == Idle \in Saves
  BY DEF Idle, Saves

LEMMA InitIInv == Init => IInv
<1> SUFFICES ASSUME Init PROVE IInv
  OBVIOUS
<1>1. TypeOK
  <2>1. alive \in [Runs -> Fates] /\ phase \in [Runs -> [Units -> Phases]]
    BY DEF Init, Fates, Phases
  <2>2. cand \in [Runs -> SUBSET Units] /\ saved \in SUBSET Units
    BY DEF Init
  <2>3. save \in [Runs -> [Savers -> Saves]]
    BY IdleType DEF Init
  <2>4. published \in [Runs -> (SUBSET Units) \cup {None}]
    BY DEF Init
  <2>5. faults \in 0..MaxFaults
    BY RunConstants DEF Init
  <2>6. row \in Checkpoints \cup {None} /\ file \in Checkpoints \cup {None}
    BY DEF Init
  <2> QED
    BY <2>1, <2>2, <2>3, <2>4, <2>5, <2>6 DEF TypeOK
<1>2. HeldByCompleted
  BY DEF Init, HeldByCompleted, Completed
<1>3. CarriedByCompleted
  BY DEF Init, CarriedByCompleted, Carried, Idle
<1>4. StoredByCompleted
  BY DEF Init, StoredByCompleted, Whole
<1>5. NothingBefore
  BY DEF Init, NothingBefore, Idle
<1> QED
  BY <1>1, <1>2, <1>3, <1>4, <1>5 DEF IInv

LEMMA MainSaves == Main \in Savers /\ Units \subseteq Savers
  BY DEF Savers

LEMMA SnapshotType ==
  ASSUME TypeOK, NEW g \in Runs
  PROVE  Snapshot(g) \in Saves /\ Snapshot(g).snap = cand[g] /\ Snapshot(g).pc = "row"
  BY DEF TypeOK, Snapshot, Idle, Saves

\* What a change of one save leaves: the types, and every other save.
LEMMA SaveChanged ==
  ASSUME TypeOK, NEW g \in Runs, NEW s \in Savers, NEW r \in Saves,
         save' = [save EXCEPT ![g][s] = r]
  PROVE  /\ save' \in [Runs -> [Savers -> Saves]]
         /\ save'[g][s] = r
         /\ \A h \in Runs, t \in Savers : h # g \/ t # s => save'[h][t] = save[h][t]
  BY DEF TypeOK

\* Named, so that the provers need not look into it where it is carried along.
SaveBecomes(g, s, r) == save' = [save EXCEPT ![g][s] = r]

LEMMA SaveFrame ==
  ASSUME TypeOK, NEW g \in Runs, NEW s \in Savers, NEW r \in Saves, SaveBecomes(g, s, r)
  PROVE  /\ save'[g][s] = r
         /\ \A h \in Runs, t \in Savers : h # g \/ t # s => save'[h][t] = save[h][t]
  BY DEF SaveBecomes, TypeOK

LEMMA PhaseChanged ==
  ASSUME TypeOK, NEW g \in Runs, NEW u \in Units, NEW p \in Phases,
         phase' = [phase EXCEPT ![g][u] = p]
  PROVE  /\ phase' \in [Runs -> [Units -> Phases]]
         /\ phase'[g][u] = p
         /\ \A h \in Runs, v \in Units : h # g \/ v # u => phase'[h][v] = phase[h][v]
  BY DEF TypeOK

LEMMA FaultType == ASSUME TypeOK, Fault PROVE faults' \in 0..MaxFaults
  BY RunConstants DEF TypeOK, Fault

LEMMA CompletedType == \A g : Completed(g) \subseteq Units
  BY DEF Completed

(***************************************************************************)
(* Types.                                                                  *)
(***************************************************************************)
LEMMA StartType == ASSUME TypeOK, NEW g \in Runs, Start(g) PROVE TypeOK'
<1>1. PICK found \in Loaded :
        LET from == IF found = None THEN Nothing ELSE found
        IN /\ phase' = [phase EXCEPT ![g] = [u \in Units |->
                          IF u \in from.done THEN "over" ELSE "pending"]]
           /\ cand' = [cand EXCEPT ![g] = from.cand]
           /\ save' = [save EXCEPT ![g][Main] = [Idle EXCEPT !.pc = "row", !.snap = from.cand]]
  BY DEF Start
<1> DEFINE from == IF found = None THEN Nothing ELSE found
           first == [Idle EXCEPT !.pc = "row", !.snap = from.cand]
<1>2. from \in Checkpoints
  BY DEF Loaded, TypeOK, Nothing, Checkpoints
<1>3. from.cand \in SUBSET Units
  BY <1>2 DEF Checkpoints
<1>4. first \in Saves
  BY <1>3 DEF Idle, Saves
<1>5. phase' \in [Runs -> [Units -> Phases]]
  BY <1>1 DEF TypeOK, Phases
<1>6. cand' \in [Runs -> SUBSET Units]
  BY <1>1, <1>3 DEF TypeOK
<1>7. save' \in [Runs -> [Savers -> Saves]]
  BY <1>1, <1>4, MainSaves, SaveChanged
<1>8. alive' \in [Runs -> Fates]
  BY DEF Start, TypeOK, Fates
<1> QED
  BY <1>5, <1>6, <1>7, <1>8 DEF Start, TypeOK

LEMMA UnitType ==
  ASSUME TypeOK, NEW g \in Runs, NEW u \in Units,
         Dispatch(g, u) \/ Finish(g, u) \/ Skip(g, u) \/ Persist(g, u)
  PROVE  TypeOK'
<1>1. CASE Dispatch(g, u)
  <2>1. phase' \in [Runs -> [Units -> Phases]]
    BY <1>1, PhaseChanged DEF Dispatch, Phases
  <2> QED
    BY <1>1, <2>1 DEF Dispatch, TypeOK
<1>2. CASE Finish(g, u)
  <2>1. phase' \in [Runs -> [Units -> Phases]]
    BY <1>2, PhaseChanged DEF Finish, Phases
  <2>2. cand' \in [Runs -> SUBSET Units]
    BY <1>2 DEF Finish, TypeOK
  <2> QED
    BY <1>2, <2>1, <2>2 DEF Finish, TypeOK
<1>3. CASE Skip(g, u)
  <2>1. phase' \in [Runs -> [Units -> Phases]]
    BY <1>3, PhaseChanged DEF Skip, Phases
  <2> QED
    BY <1>3, <2>1 DEF Skip, TypeOK
<1>4. CASE Persist(g, u)
  <2>1. phase' \in [Runs -> [Units -> Phases]]
    BY <1>4, PhaseChanged DEF Persist, Phases
  <2>2. save' \in [Runs -> [Savers -> Saves]]
    BY <1>4, MainSaves, SnapshotType, SaveChanged DEF Persist
  <2> QED
    BY <1>4, <2>1, <2>2 DEF Persist, TypeOK
<1> QED
  BY <1>1, <1>2, <1>3, <1>4

LEMMA SaveType ==
  ASSUME TypeOK, NEW g \in Runs, NEW s \in Savers,
         \/ SendRow(g, s) \/ CommitRow(g, s) \/ CommitFails(g, s)
         \/ WriteFile(g, s) \/ WriteFileFails(g, s)
  PROVE  TypeOK'
<1>0. save[g][s] \in Saves
  BY DEF TypeOK
<1>1. CASE SendRow(g, s)
  <2> DEFINE r == [save[g][s] EXCEPT !.pc = "commit", !.done = Completed(g),
                                     !.found = IF row = None THEN "none" ELSE "row"]
  <2>1. r \in Saves
    BY <1>0, CompletedType DEF Saves
  <2>2. save' = [save EXCEPT ![g][s] = r]
    BY <1>1 DEF SendRow, TypeOK
  <2>3. save' \in [Runs -> [Savers -> Saves]]
    BY <2>1, <2>2, SaveChanged
  <2> QED
    BY <1>1, <2>3 DEF SendRow, TypeOK
<1>2. CASE CommitRow(g, s)
  <2> DEFINE r == [save[g][s] EXCEPT !.pc = "file"]
  <2>1. r \in Saves /\ save' = [save EXCEPT ![g][s] = r]
    BY <1>0, <1>2 DEF CommitRow, TypeOK, Saves
  <2>2. save' \in [Runs -> [Savers -> Saves]]
    BY <2>1, SaveChanged
  <2>3. row' \in Checkpoints \cup {None}
    BY <1>0, <1>2 DEF CommitRow, TypeOK, Saves, Checkpoints
  <2> QED
    BY <1>2, <2>2, <2>3 DEF CommitRow, TypeOK
<1>3. CASE CommitFails(g, s)
  <2> DEFINE r == [save[g][s] EXCEPT !.pc = "file"]
  <2>1. r \in Saves /\ save' = [save EXCEPT ![g][s] = r]
    BY <1>0, <1>3 DEF CommitFails, TypeOK, Saves
  <2>2. save' \in [Runs -> [Savers -> Saves]]
    BY <2>1, SaveChanged
  <2> QED
    BY <1>3, <2>2, FaultType DEF CommitFails, TypeOK
<1>4. CASE WriteFile(g, s)
  <2>1. save' \in [Runs -> [Savers -> Saves]]
    BY <1>4, IdleType, SaveChanged DEF WriteFile
  <2>2. file' \in Checkpoints \cup {None}
    BY <1>0, <1>4, CompletedType DEF WriteFile, Saves, Checkpoints
  <2>3. alive' \in [Runs -> Fates]
    BY <1>4 DEF WriteFile, TypeOK, Fates
  <2>4. phase' \in [Runs -> [Units -> Phases]]
    <3>1. CASE s = Main
      BY <1>4, <3>1 DEF WriteFile, TypeOK
    <3>2. CASE s # Main
      BY <1>4, <3>2, PhaseChanged DEF WriteFile, Savers, Phases
    <3> QED
      BY <3>1, <3>2
  <2>5. saved' \in SUBSET Units
    BY <1>4 DEF WriteFile, TypeOK, Savers
  <2> QED
    BY <1>4, <2>1, <2>2, <2>3, <2>4, <2>5 DEF WriteFile, TypeOK
<1>5. CASE WriteFileFails(g, s)
  <2>1. save' \in [Runs -> [Savers -> Saves]]
    BY <1>5, IdleType, SaveChanged DEF WriteFileFails
  <2>2. alive' \in [Runs -> Fates]
    BY <1>5 DEF WriteFileFails, TypeOK, Fates
  <2>3. phase' \in [Runs -> [Units -> Phases]]
    <3>1. CASE s = Main
      BY <1>5, <3>1 DEF WriteFileFails, TypeOK
    <3>2. CASE s # Main
      BY <1>5, <3>2, PhaseChanged DEF WriteFileFails, Savers, Phases
    <3> QED
      BY <3>1, <3>2
  <2> QED
    BY <1>5, <2>1, <2>2, <2>3, FaultType DEF WriteFileFails, TypeOK
<1> QED
  BY <1>1, <1>2, <1>3, <1>4, <1>5

LEMMA EndType ==
  ASSUME TypeOK, NEW g \in Runs,
         Publish(g) \/ Keep(g) \/ DeleteRow(g) \/ Unlink(g) \/ Crash(g)
  PROVE  TypeOK'
<1>0. alive' \in [Runs -> Fates]
  BY DEF TypeOK, Fates, Publish, Keep, DeleteRow, Unlink, Crash
<1>1. CASE Publish(g)
  <2>1. published' \in [Runs -> (SUBSET Units) \cup {None}]
    BY <1>1 DEF Publish, TypeOK
  <2>2. save' \in [Runs -> [Savers -> Saves]]
    BY <1>1, MainSaves, SnapshotType, SaveChanged DEF Publish
  <2> QED
    BY <1>0, <1>1, <2>1, <2>2 DEF Publish, TypeOK
<1>2. CASE Keep(g)
  BY <1>0, <1>2 DEF Keep, TypeOK
<1>3. CASE DeleteRow(g)
  <2>1. save' \in [Runs -> [Savers -> Saves]]
    <3> DEFINE After(h, t) == IF save[h][t].found = "row"
                                THEN [save[h][t] EXCEPT !.found = "stale"] ELSE save[h][t]
    <3>1. ASSUME NEW h \in Runs, NEW t \in Savers PROVE After(h, t) \in Saves
      <4>1. save[h][t] \in Saves
        BY DEF TypeOK
      <4> QED
        BY <4>1 DEF Saves
    <3>2. \/ save' = [h \in Runs |-> [t \in Savers |-> After(h, t)]]
          \/ save' = save
      BY <1>3 DEF DeleteRow
    <3> HIDE DEF After
    <3> QED
      BY <3>1, <3>2 DEF TypeOK
  <2>2. row' \in Checkpoints \cup {None}
    BY <1>3 DEF DeleteRow, TypeOK
  <2> QED
    BY <1>0, <1>3, <2>1, <2>2 DEF DeleteRow, TypeOK
<1>4. CASE Unlink(g)
  BY <1>0, <1>4 DEF Unlink, TypeOK
<1>5. CASE Crash(g)
  <2>1. save' \in [Runs -> [Savers -> Saves]]
    BY <1>5, IdleType DEF Crash, TypeOK
  <2>2. phase' \in [Runs -> [Units -> Phases]]
    BY <1>5 DEF Crash, TypeOK, Phases
  <2>3. cand' \in [Runs -> SUBSET Units]
    BY <1>5 DEF Crash, TypeOK
  <2> QED
    BY <1>0, <1>5, <2>1, <2>2, <2>3, FaultType DEF Crash, TypeOK
<1> QED
  BY <1>1, <1>2, <1>3, <1>4, <1>5

\* The steps after run() has returned move the run and nothing else that they are about.
Settles(g) == CompleteJob(g) \/ CompleteFails(g)

LEMMA Settling ==
  ASSUME TypeOK, NEW g \in Runs, Settles(g)
  PROVE  /\ TypeOK'
         /\ alive[g] = "finished" /\ alive'[g] \in {"settled", "rejected"}
         /\ \A h \in Runs : h # g => alive'[h] = alive[h]
         /\ UNCHANGED <<phase, cand, save, row, file, published, saved>>
<1>1. faults' \in 0..MaxFaults
  BY FaultType DEF Settles, CompleteJob, CompleteFails, TypeOK
<1>2. /\ alive' \in [Runs -> Fates]
      /\ alive[g] = "finished" /\ alive'[g] \in {"settled", "rejected"}
      /\ \A h \in Runs : h # g => alive'[h] = alive[h]
  BY DEF Settles, CompleteJob, CompleteFails, TypeOK, Fates
<1>3. UNCHANGED <<phase, cand, save, row, file, published, saved>>
  BY DEF Settles, CompleteJob, CompleteFails
<1> QED
  BY <1>1, <1>2, <1>3 DEF TypeOK

LEMMA TypeStep == TypeOK /\ [Next]_vars => TypeOK'
<1> SUFFICES ASSUME TypeOK, [Next]_vars PROVE TypeOK'
  OBVIOUS
<1>1. CASE UNCHANGED vars
  BY <1>1 DEF vars, TypeOK
<1>2. CASE Next
  BY <1>2, StartType, UnitType, SaveType, EndType, Settling DEF Next, Settles
<1> QED
  BY <1>1, <1>2

\* No step of a run, of a save or of a crash leaves the types.
THEOREM TypeCorrect == Spec => []TypeOK
<1>1. Init => TypeOK
  BY InitIInv DEF IInv
<1> QED
  BY <1>1, TypeStep, PTL DEF Spec

(***************************************************************************)
(* Findings belong to completed units.                                     *)
(***************************************************************************)
LEMMA CompletedGrows ==
  ASSUME TypeOK, NEW g \in Runs, NEW u \in Units, NEW p \in Phases,
         phase' = [phase EXCEPT ![g][u] = p],
         p \in {"done", "saving", "over"} \/ u \notin Completed(g)
  PROVE  /\ \A h \in Runs : Completed(h) \subseteq Completed(h)'
         /\ p \in {"done", "saving", "over"} => u \in Completed(g)'
<1>1. /\ phase'[g][u] = p
      /\ \A h \in Runs, v \in Units : h # g \/ v # u => phase'[h][v] = phase[h][v]
  BY DEF TypeOK
<1>2. ASSUME NEW h \in Runs PROVE Completed(h) \subseteq Completed(h)'
  <2>1. CASE h = g
    BY <1>1, <2>1 DEF Completed
  <2>2. CASE h # g
    BY <1>1, <2>2 DEF Completed
  <2> QED
    BY <2>1, <2>2
<1>3. p \in {"done", "saving", "over"} => u \in Completed(g)'
  BY <1>1 DEF Completed
<1> QED
  BY <1>2, <1>3

LEMMA CarriedOn ==
  ASSUME NEW h \in Runs, NEW t \in Savers, Carried(h, t),
         save'[h][t] = save[h][t], Completed(h) \subseteq Completed(h)'
  PROVE  Carried(h, t)'
  BY DEF Carried

LEMMA IdleCarries ==
  ASSUME NEW h \in Runs, NEW t \in Savers, save'[h][t] = Idle
  PROVE  Carried(h, t)' /\ save'[h][t].pc = "idle"
  BY DEF Carried, Idle

LEMMA StartInv ==
  ASSUME IInv, NEW g \in Runs, Start(g)
  PROVE  IInv'
<1> USE DEF IInv
<1>0. TypeOK'
  BY StartType
<1>1. PICK found \in Loaded :
        LET from == IF found = None THEN Nothing ELSE found
        IN /\ phase' = [phase EXCEPT ![g] = [u \in Units |->
                          IF u \in from.done THEN "over" ELSE "pending"]]
           /\ cand' = [cand EXCEPT ![g] = from.cand]
           /\ save' = [save EXCEPT ![g][Main] = [Idle EXCEPT !.pc = "row", !.snap = from.cand]]
  BY DEF Start
<1> DEFINE from == IF found = None THEN Nothing ELSE found
           first == [Idle EXCEPT !.pc = "row", !.snap = from.cand]
<1>2. from \in Checkpoints /\ from.cand \subseteq from.done
  BY DEF Loaded, TypeOK, Nothing, Checkpoints, StoredByCompleted, Whole
<1>3. first \in Saves /\ first.pc = "row" /\ first.snap = from.cand
  BY <1>2 DEF Idle, Saves, Checkpoints
<1> HIDE DEF from, first
<1>4. /\ save'[g][Main] = first
      /\ \A h \in Runs, t \in Savers : h # g \/ t # Main => save'[h][t] = save[h][t]
  <2>1. SaveBecomes(g, Main, first)
    BY <1>1 DEF SaveBecomes, from, first
  <2>2. TypeOK /\ Main \in Savers
    BY MainSaves
  <2> QED
    BY <1>3, <2>1, <2>2, SaveFrame
<1>5. /\ cand'[g] = from.cand
      /\ \A h \in Runs : h # g => cand'[h] = cand[h]
  BY <1>1 DEF from, TypeOK
<1>6. from.cand \subseteq Completed(g)'
  <2>1. \A u \in Units : u \in from.done => phase'[g][u] = "over"
    BY <1>1 DEF from, TypeOK
  <2> QED
    BY <1>2, <2>1 DEF Completed, Checkpoints
<1>7. \A h \in Runs : h # g => Completed(h)' = Completed(h)
  BY <1>1 DEF TypeOK, Completed
<1>8. HeldByCompleted'
  BY <1>5, <1>6, <1>7 DEF HeldByCompleted
<1>9. CarriedByCompleted'
  <2> SUFFICES ASSUME NEW h \in Runs, NEW t \in Savers PROVE Carried(h, t)'
    BY DEF CarriedByCompleted
  <2>1. CASE h = g /\ t = Main
    BY <1>3, <1>4, <1>6, <2>1 DEF Carried
  <2>2. CASE h = g /\ t # Main
    BY <1>4, <2>2 DEF Carried, Start, NothingBefore
  <2>3. CASE h # g
    BY <1>4, <1>7, <2>3 DEF Carried, CarriedByCompleted
  <2> QED
    BY <2>1, <2>2, <2>3
<1>10. StoredByCompleted'
  BY DEF Start, StoredByCompleted, Whole
<1>11. NothingBefore'
  BY <1>4 DEF Start, TypeOK, NothingBefore
<1> QED
  BY <1>0, <1>8, <1>9, <1>10, <1>11

LEMMA UnitInv ==
  ASSUME IInv, NEW g \in Runs, NEW u \in Units,
         Dispatch(g, u) \/ Finish(g, u) \/ Skip(g, u) \/ Persist(g, u)
  PROVE  IInv'
<1> USE DEF IInv
<1>0. TypeOK'
  BY UnitType
<1>1. \A h \in Runs : Completed(h) \subseteq Completed(h)'
  BY CompletedGrows DEF Dispatch, Finish, Skip, Persist, Completed, Phases
<1>2. HeldByCompleted'
  <2>1. CASE Finish(g, u)
    <3>1. u \in Completed(g)'
      BY <2>1, CompletedGrows DEF Finish, Phases
    <3>2. /\ cand'[g] = cand[g] \cup {u}
          /\ \A h \in Runs : h # g => cand'[h] = cand[h]
      BY <2>1 DEF Finish, TypeOK
    <3> QED
      BY <1>1, <3>1, <3>2 DEF HeldByCompleted
  <2>2. CASE ~Finish(g, u)
    BY <1>1, <2>2 DEF HeldByCompleted, Dispatch, Skip, Persist
  <2> QED
    BY <2>1, <2>2
<1>3. CarriedByCompleted'
  <2>1. CASE Persist(g, u)
    <3>1. /\ save'[g][u] = Snapshot(g)
          /\ \A h \in Runs, t \in Savers : h # g \/ t # u => save'[h][t] = save[h][t]
      <4>1. TypeOK /\ u \in Savers /\ Snapshot(g) \in Saves
        BY MainSaves, SnapshotType
      <4>2. SaveBecomes(g, u, Snapshot(g))
        BY <2>1 DEF SaveBecomes, Persist
      <4> QED
        BY <4>1, <4>2, SaveFrame
    <3>2. Carried(g, u)'
      BY <1>1, <3>1, SnapshotType DEF Carried, HeldByCompleted
    <3> QED
      BY <1>1, <3>1, <3>2, CarriedOn, MainSaves DEF CarriedByCompleted
  <2>2. CASE ~Persist(g, u)
    <3>1. save' = save
      BY <2>2 DEF Dispatch, Finish, Skip
    <3> QED
      BY <1>1, <3>1, CarriedOn DEF CarriedByCompleted
  <2> QED
    BY <2>1, <2>2
<1>4. StoredByCompleted'
  BY DEF Dispatch, Finish, Skip, Persist, StoredByCompleted, Whole
<1>5. NothingBefore'
  <2>1. alive[g] # "absent" /\ alive' = alive
    BY DEF Dispatch, Finish, Skip, Persist, NothingBefore
  <2>2. \A h \in Runs, t \in Savers : h # g => save'[h][t] = save[h][t]
    BY DEF Dispatch, Finish, Skip, Persist, TypeOK
  <2>3. \A h \in Runs, v \in Units : h # g => phase'[h][v] = phase[h][v]
    BY DEF Dispatch, Finish, Skip, Persist, TypeOK
  <2> QED
    BY <2>1, <2>2, <2>3 DEF NothingBefore
<1> QED
  BY <1>0, <1>2, <1>3, <1>4, <1>5

LEMMA SaveInv ==
  ASSUME IInv, NEW g \in Runs, NEW s \in Savers,
         \/ SendRow(g, s) \/ CommitRow(g, s) \/ CommitFails(g, s)
         \/ WriteFile(g, s) \/ WriteFileFails(g, s)
  PROVE  IInv'
<1> USE DEF IInv
<1>0. TypeOK'
  BY SaveType
<1> DEFINE After == IF WriteFile(g, s) \/ WriteFileFails(g, s) THEN Idle
                    ELSE IF SendRow(g, s)
                      THEN [save[g][s] EXCEPT !.pc = "commit", !.done = Completed(g),
                                       !.found = IF row = None THEN "none" ELSE "row"]
                      ELSE [save[g][s] EXCEPT !.pc = "file"]
<1>1. /\ save[g][s] \in Saves
      /\ save[g][s].pc # "idle"
      /\ save[g][s].snap \subseteq Completed(g)
      /\ save[g][s].pc = "commit" => save[g][s].snap \subseteq save[g][s].done
      /\ alive[g] # "absent"
  BY DEF TypeOK, CarriedByCompleted, Carried, NothingBefore,
         SendRow, CommitRow, CommitFails, WriteFile, WriteFileFails
<1>2. \A h \in Runs : Completed(h) \subseteq Completed(h)'
  <2>1. CASE phase' = phase
    BY <2>1 DEF Completed
  <2>2. CASE phase' # phase
    <3>1. s \in Units /\ phase' = [phase EXCEPT ![g][s] = "over"]
      BY <2>2 DEF SendRow, CommitRow, CommitFails, WriteFile, WriteFileFails, Savers
    <3> QED
      BY <3>1, CompletedGrows DEF Phases
  <2> QED
    BY <2>1, <2>2
<1>3. SaveBecomes(g, s, After)
  BY DEF SaveBecomes, TypeOK, SendRow, CommitRow, CommitFails, WriteFile, WriteFileFails, Idle
<1>4. After \in Saves
  BY <1>1, IdleType, CompletedType DEF Saves
<1>5. /\ save'[g][s] = After
      /\ \A h \in Runs, t \in Savers : h # g \/ t # s => save'[h][t] = save[h][t]
  <2> HIDE DEF After
  <2> QED
    BY <1>3, <1>4, SaveFrame
<1>6. HeldByCompleted'
  BY <1>2 DEF HeldByCompleted, SendRow, CommitRow, CommitFails, WriteFile, WriteFileFails
<1>7. CarriedByCompleted'
  <2>1. Carried(g, s)'
    <3>1. After.pc # "idle" => After.snap \subseteq Completed(g)'
      BY <1>1, <1>2 DEF Saves, Idle
    <3>2. After.pc = "commit" => After.snap \subseteq After.done
      BY <1>1 DEF Saves, Idle
    <3> HIDE DEF After
    <3> QED
      BY <1>5, <3>1, <3>2 DEF Carried
  <2> QED
    BY <1>2, <1>5, <2>1, CarriedOn DEF CarriedByCompleted
<1>8. StoredByCompleted'
  <2>1. Whole(row)'
    <3>1. CASE row' = row
      BY <3>1 DEF StoredByCompleted, Whole
    <3>2. CASE row' # row
      BY <1>1, <3>2 DEF Whole, SendRow, CommitRow, CommitFails, WriteFile, WriteFileFails
    <3> QED
      BY <3>1, <3>2
  <2>2. Whole(file)'
    <3>1. CASE file' = file
      BY <3>1 DEF StoredByCompleted, Whole
    <3>2. CASE file' # file
      BY <1>1, <3>2 DEF Whole, SendRow, CommitRow, CommitFails, WriteFile, WriteFileFails
    <3> QED
      BY <3>1, <3>2
  <2> QED
    BY <2>1, <2>2 DEF StoredByCompleted
<1>9. NothingBefore'
  <2>1. /\ \A h \in Runs : h # g => alive'[h] = alive[h] /\ phase'[h] = phase[h]
        /\ alive'[g] # "absent"
    BY <1>1 DEF TypeOK, SendRow, CommitRow, CommitFails, WriteFile, WriteFileFails
  <2> HIDE DEF After
  <2> QED
    BY <1>5, <2>1 DEF NothingBefore
<1> QED
  BY <1>0, <1>6, <1>7, <1>8, <1>9

\* What the deletion of the row means for a save.
LEMMA Stale ==
  ASSUME NEW g \in Runs, DeleteRow(g), NEW h \in Runs, NEW t \in Savers
  PROVE  \/ save'[h][t] = save[h][t]
         \/ save'[h][t] = [save[h][t] EXCEPT !.found = "stale"]
<1>1. CASE save' = save
  BY <1>1
<1>2. CASE save' = [k \in Runs |-> [r \in Savers |->
                     IF save[k][r].found = "row"
                       THEN [save[k][r] EXCEPT !.found = "stale"] ELSE save[k][r]]]
  <2>1. save'[h][t] = IF save[h][t].found = "row"
                        THEN [save[h][t] EXCEPT !.found = "stale"] ELSE save[h][t]
    BY ONLY <1>2, h \in Runs, t \in Savers, Zenon
  <2> QED
    BY <2>1
<1> QED
  BY <1>1, <1>2 DEF DeleteRow

LEMMA EndInv ==
  ASSUME IInv, NEW g \in Runs,
         Publish(g) \/ Keep(g) \/ DeleteRow(g) \/ Unlink(g) \/ Crash(g)
  PROVE  IInv'
<1> USE DEF IInv
<1>0. TypeOK'
  BY EndType
<1>1. StoredByCompleted'
  BY DEF StoredByCompleted, Whole, Publish, Keep, DeleteRow, Unlink, Crash
<1>2. \A h \in Runs : /\ alive'[h] = "absent" <=> alive[h] = "absent"
                      /\ h # g => alive'[h] = alive[h]
      /\ alive[g] # "absent"
  BY DEF TypeOK, Publish, Keep, DeleteRow, Unlink, Crash
<1>3. CASE Crash(g)
  <2>1. /\ cand'[g] = {}
        /\ \A t \in Savers : save'[g][t] = Idle
        /\ \A h \in Runs : h # g => /\ phase'[h] = phase[h]
                                   /\ cand'[h] = cand[h]
                                   /\ save'[h] = save[h]
    BY <1>3 DEF Crash, TypeOK
  <2>2. \A h \in Runs : h # g => Completed(h)' = Completed(h)
    BY <2>1 DEF Completed
  <2>3. HeldByCompleted'
    BY <2>1, <2>2 DEF HeldByCompleted
  <2>4. CarriedByCompleted'
    BY <2>1, <2>2, IdleCarries, CarriedOn DEF CarriedByCompleted
  <2>5. NothingBefore'
    BY <1>2, <2>1 DEF NothingBefore
  <2> QED
    BY <1>0, <1>1, <2>3, <2>4, <2>5
<1>4. CASE ~Crash(g)
  <2>1. cand' = cand /\ phase' = phase
    BY <1>4 DEF Publish, Keep, DeleteRow, Unlink
  <2>2. \A h : Completed(h)' = Completed(h)
    BY <2>1 DEF Completed
  <2>3. HeldByCompleted'
    BY <2>1, <2>2 DEF HeldByCompleted
  <2>4. ASSUME NEW h \in Runs, NEW t \in Savers
        PROVE  /\ Carried(h, t)'
               /\ save[h][t].pc = "idle" /\ h # g => save'[h][t].pc = "idle"
    <3>1. CASE save' = save
      BY <2>2, <3>1 DEF Carried, CarriedByCompleted
    <3>2. CASE Publish(g)
      <4>1. TypeOK /\ Main \in Savers /\ Snapshot(g) \in Saves
        BY MainSaves, SnapshotType
      <4>2. SaveBecomes(g, Main, Snapshot(g))
        BY <3>2 DEF SaveBecomes, Publish
      <4>3. IF h = g /\ t = Main THEN save'[h][t] = Snapshot(g)
                                ELSE save'[h][t] = save[h][t]
        BY <4>1, <4>2, SaveFrame
      <4> QED
        BY <2>2, <4>3, SnapshotType DEF Carried, CarriedByCompleted, HeldByCompleted
    <3>3. CASE DeleteRow(g) /\ save' # save
      <4>1. save[h][t] \in Saves
        BY DEF TypeOK
      <4>2. \/ save'[h][t] = save[h][t]
            \/ save'[h][t] = [save[h][t] EXCEPT !.found = "stale"]
        BY <3>3, Stale
      <4> QED
        BY <2>2, <4>1, <4>2 DEF Saves, Carried, CarriedByCompleted
    <3> QED
      BY <1>4, <3>1, <3>2, <3>3 DEF Keep, Unlink
  <2>5. NothingBefore'
    BY <1>2, <2>1, <2>4 DEF NothingBefore
  <2> QED
    BY <1>0, <1>1, <2>3, <2>4, <2>5 DEF CarriedByCompleted
<1> QED
  BY <1>3, <1>4

LEMMA SettleInv ==
  ASSUME IInv, NEW g \in Runs, Settles(g)
  PROVE  IInv'
<1>1. /\ TypeOK'
      /\ \A h \in Runs : alive'[h] = "absent" => alive[h] = "absent"
      /\ UNCHANGED <<phase, cand, save, row, file, published, saved>>
  BY Settling DEF IInv
<1>2. \A h \in Runs : Completed(h)' = Completed(h)
  BY <1>1 DEF Completed
<1> QED
  BY <1>1, <1>2 DEF IInv, HeldByCompleted, CarriedByCompleted, Carried, StoredByCompleted,
     Whole, NothingBefore

LEMMA InvStep == IInv /\ [Next]_vars => IInv'
<1> SUFFICES ASSUME IInv, [Next]_vars PROVE IInv'
  OBVIOUS
<1>1. CASE UNCHANGED vars
  BY <1>1 DEF vars, IInv, TypeOK, HeldByCompleted, CarriedByCompleted, Carried,
     StoredByCompleted, Whole, NothingBefore, Completed
<1>2. CASE Next
  BY <1>2, StartInv, UnitInv, SaveInv, EndInv, SettleInv DEF Next, Settles
<1> QED
  BY <1>1, <1>2

\* However checkpoints are torn, overtaken, half written or resumed from, a run
\* does not hold a finding of a unit that it has still to review.
THEOREM FindingsAreHeldOnce == Spec => []NoFindingTwice
<1>1. IInv => NoFindingTwice
  BY DEF IInv, HeldByCompleted, NoFindingTwice, Completed
<1> QED
  BY <1>1, InitIInv, InvStep, PTL DEF Spec

(***************************************************************************)
(* With one unit at a time (STEW_MAX_CONCURRENT=1) no finding is lost,     *)
(* whatever crashes, fails or overlaps: while a save is under way no other *)
(* unit is, so the findings it copied and the units it reads later agree.  *)
(***************************************************************************)
\* A save works on the present findings, with no unit but its own on the way.
SerialSave(g, s) ==
  save[g][s].pc # "idle" =>
    /\ save[g][s].snap = cand[g]
    /\ InFlight(g) \subseteq {s}
    /\ s \in Units => phase[g][s] = "saving"
    /\ save[g][s].pc = "commit" => save[g][s].done \ Bare \subseteq cand[g]

\* The findings of all completed units, and of no others, are there.
SerialRun(g) ==
  /\ Completed(g) \ Bare \subseteq cand[g]
  /\ cand[g] \cap Bare = {}
  /\ \A u, v \in InFlight(g) : u = v
  /\ \A s \in Savers : SerialSave(g, s)

Covers(c) == c # None => c.done \ Bare \subseteq c.cand /\ c.cand \cap Bare = {}

SerialInv ==
  /\ \A g \in Runs : SerialRun(g)
  /\ Covers(row) /\ Covers(file)
  /\ FindingsKept

LEMMA InitSerial == Init => SerialInv
  BY DEF Init, SerialInv, SerialRun, SerialSave, Covers, FindingsKept, Idle,
     Completed, InFlight

\* A run keeps its share of the invariant in the steps of others.
LEMMA SerialOn ==
  ASSUME NEW h \in Runs, SerialRun(h), phase'[h] = phase[h], cand'[h] = cand[h],
         \A t \in Savers : /\ save'[h][t].pc \in {save[h][t].pc, "idle"}
                           /\ save'[h][t].snap = save[h][t].snap \/ save'[h][t].pc = "idle"
                           /\ save'[h][t].done = save[h][t].done \/ save'[h][t].pc = "idle"
  PROVE  SerialRun(h)'
<1>1. Completed(h)' = Completed(h) /\ InFlight(h)' = InFlight(h)
  BY DEF Completed, InFlight
<1> QED
  BY <1>1 DEF SerialRun, SerialSave

\* With one slot, a unit in flight is alone, and nothing is saved until it is.
LEMMA NothingSaved ==
  ASSUME NEW g \in Runs, NEW u \in Units, SerialRun(g), NEW s \in Savers,
         phase[g][u] \in {"running", "done"}
  PROVE  save[g][s].pc = "idle"
  BY DEF SerialRun, SerialSave, InFlight

LEMMA StartSerial ==
  ASSUME IInv, IInv', SerialInv, NEW g \in Runs, Start(g)
  PROVE  SerialInv'
<1>1. PICK found \in Loaded :
        LET from == IF found = None THEN Nothing ELSE found
        IN /\ phase' = [phase EXCEPT ![g] = [u \in Units |->
                          IF u \in from.done THEN "over" ELSE "pending"]]
           /\ cand' = [cand EXCEPT ![g] = from.cand]
           /\ save' = [save EXCEPT ![g][Main] = [Idle EXCEPT !.pc = "row", !.snap = from.cand]]
  BY DEF Start
<1> DEFINE from == IF found = None THEN Nothing ELSE found
           first == [Idle EXCEPT !.pc = "row", !.snap = from.cand]
<1>2. /\ from \in Checkpoints
      /\ from.done \ Bare \subseteq from.cand
      /\ from.cand \cap Bare = {}
  BY DEF Loaded, IInv, TypeOK, Nothing, Checkpoints, SerialInv, Covers
<1>3. first \in Saves /\ first.pc = "row" /\ first.snap = from.cand
  BY <1>2 DEF Idle, Saves, Checkpoints
<1> HIDE DEF from, first
<1>4. /\ save'[g][Main] = first
      /\ \A h \in Runs, t \in Savers : h # g \/ t # Main => save'[h][t] = save[h][t]
  <2>1. SaveBecomes(g, Main, first)
    BY <1>1 DEF SaveBecomes, from, first
  <2>2. TypeOK /\ Main \in Savers
    BY MainSaves DEF IInv
  <2> QED
    BY <1>3, <2>1, <2>2, SaveFrame
<1>5. /\ cand'[g] = from.cand
      /\ \A h \in Runs : h # g => cand'[h] = cand[h] /\ phase'[h] = phase[h]
      /\ \A u \in Units : phase'[g][u] = IF u \in from.done THEN "over" ELSE "pending"
  BY <1>1 DEF from, IInv, TypeOK
<1>6. Completed(g)' \subseteq from.done /\ InFlight(g)' = {}
  BY <1>5 DEF Completed, InFlight
<1>7. SerialRun(g)'
  <2>1. ASSUME NEW s \in Savers PROVE SerialSave(g, s)'
    <3>1. CASE s = Main
      BY <1>3, <1>4, <1>5, <1>6, <3>1, RunConstants DEF SerialSave
    <3>2. CASE s # Main
      BY <1>4, <3>2 DEF SerialSave, Start, IInv, NothingBefore
    <3> QED
      BY <3>1, <3>2
  <2> QED
    BY <1>2, <1>5, <1>6, <2>1 DEF SerialRun
<1>8. ASSUME NEW h \in Runs, h # g PROVE SerialRun(h)'
  BY <1>4, <1>5, <1>8, SerialOn DEF SerialInv
<1>9. Covers(row)' /\ Covers(file)' /\ FindingsKept'
  BY DEF Start, SerialInv, Covers, FindingsKept
<1> QED
  BY <1>7, <1>8, <1>9 DEF SerialInv

\* What a change in one run means for the invariant as a whole.
LEMMA OneRun ==
  ASSUME SerialInv, NEW g \in Runs, SerialRun(g)',
         \A h \in Runs : h # g => /\ phase'[h] = phase[h]
                                /\ cand'[h] = cand[h]
                                /\ save'[h] = save[h],
         Covers(row)', Covers(file)', FindingsKept'
  PROVE  SerialInv'
<1>1. ASSUME NEW h \in Runs, h # g PROVE SerialRun(h)'
  BY <1>1, SerialOn DEF SerialInv
<1> QED
  BY <1>1 DEF SerialInv

LEMMA DispatchSerial ==
  ASSUME IInv, SerialInv, MaxConcurrent = 1,
         NEW g \in Runs, NEW u \in Units, Dispatch(g, u)
  PROVE  SerialInv'
<1>1. InFlight(g) = {}
  <2>1. IsFiniteSet(InFlight(g))
    BY RunConstants, FS_Subset DEF InFlight
  <2>2. Cardinality(InFlight(g)) \in Nat /\ Cardinality(InFlight(g)) < 1
    BY <2>1, FS_CardinalityType DEF Dispatch
  <2> QED
    BY <2>1, <2>2, FS_EmptySet
<1>2. \A s \in Savers : save[g][s].pc = "idle"
  BY <1>1 DEF SerialInv, SerialRun, SerialSave, InFlight, Savers, Dispatch
<1>3. /\ phase'[g][u] = "running"
      /\ \A h \in Runs, v \in Units : h # g \/ v # u => phase'[h][v] = phase[h][v]
  BY PhaseChanged DEF Dispatch, Phases, IInv
<1>4. \A h \in Runs : h # g => phase'[h] = phase[h]
  BY DEF Dispatch, IInv, TypeOK
<1>5. SerialRun(g)'
  <2>1. Completed(g)' = Completed(g) /\ InFlight(g)' \subseteq {u}
    BY <1>1, <1>3 DEF Completed, InFlight, Dispatch
  <2> QED
    BY <1>2, <2>1 DEF SerialInv, SerialRun, SerialSave, Dispatch
<1> QED
  BY <1>4, <1>5, OneRun DEF Dispatch, SerialInv, Covers, FindingsKept

LEMMA OutcomeSerial ==
  ASSUME IInv, SerialInv, NEW g \in Runs, NEW u \in Units, Finish(g, u) \/ Skip(g, u)
  PROVE  SerialInv'
<1>1. \A s \in Savers : save[g][s].pc = "idle"
  BY NothingSaved DEF SerialInv, Finish, Skip
<1>2. /\ phase'[g][u] \in {"done", "over"}
      /\ \A h \in Runs, v \in Units : h # g \/ v # u => phase'[h][v] = phase[h][v]
  BY PhaseChanged DEF Finish, Skip, Phases, IInv
<1>3. \A h \in Runs : h # g => phase'[h] = phase[h] /\ cand'[h] = cand[h]
  BY DEF Finish, Skip, IInv, TypeOK
<1>4. /\ Completed(g)' \subseteq Completed(g) \cup {u}
      /\ InFlight(g)' \subseteq InFlight(g)
  BY <1>2 DEF Completed, InFlight, Finish, Skip
<1>5. cand'[g] = IF u \in Bare THEN cand[g] ELSE cand[g] \cup {u}
  BY DEF Finish, Skip, IInv, TypeOK
<1>6. SerialRun(g)'
  <2>1. save' = save
    BY DEF Finish, Skip
  <2> QED
    BY <1>1, <1>4, <1>5, <2>1 DEF SerialInv, SerialRun, SerialSave
<1> QED
  BY <1>3, <1>6, OneRun DEF Finish, Skip, SerialInv, Covers, FindingsKept

LEMMA PersistSerial ==
  ASSUME IInv, SerialInv, NEW g \in Runs, NEW u \in Units, Persist(g, u)
  PROVE  SerialInv'
<1>1. \A s \in Savers : save[g][s].pc = "idle"
  BY NothingSaved DEF SerialInv, Persist
<1>2. /\ phase'[g][u] = "saving"
      /\ \A h \in Runs, v \in Units : h # g \/ v # u => phase'[h][v] = phase[h][v]
  BY PhaseChanged DEF Persist, Phases, IInv
<1>3. \A h \in Runs : h # g => phase'[h] = phase[h] /\ save'[h] = save[h]
  BY DEF Persist, IInv, TypeOK
<1>4. /\ save'[g][u] = Snapshot(g)
      /\ \A h \in Runs, t \in Savers : h # g \/ t # u => save'[h][t] = save[h][t]
  <2>1. TypeOK /\ u \in Savers /\ Snapshot(g) \in Saves
    BY MainSaves, SnapshotType DEF IInv
  <2>2. SaveBecomes(g, u, Snapshot(g))
    BY DEF SaveBecomes, Persist
  <2> QED
    BY <2>1, <2>2, SaveFrame
<1>5. Completed(g)' = Completed(g) /\ InFlight(g)' = InFlight(g)
  BY <1>2 DEF Completed, InFlight, Persist
<1>6. SerialRun(g)'
  <2>1. InFlight(g) \subseteq {u}
    BY DEF SerialInv, SerialRun, InFlight, Persist
  <2>2. SerialSave(g, u)'
    BY <1>2, <1>4, <1>5, <2>1, SnapshotType DEF SerialSave, Persist, IInv
  <2>3. \A s \in Savers : s # u => SerialSave(g, s)'
    BY <1>1, <1>4 DEF SerialSave
  <2> QED
    BY <1>5, <2>2, <2>3 DEF SerialInv, SerialRun, Persist
<1> QED
  BY <1>3, <1>6, OneRun DEF Persist, SerialInv, Covers, FindingsKept

LEMMA SaveSerial ==
  ASSUME IInv, SerialInv, NEW g \in Runs, NEW s \in Savers,
         SendRow(g, s) \/ CommitRow(g, s) \/ CommitFails(g, s)
  PROVE  SerialInv'
<1> DEFINE After == IF SendRow(g, s)
                      THEN [save[g][s] EXCEPT !.pc = "commit", !.done = Completed(g),
                                       !.found = IF row = None THEN "none" ELSE "row"]
                      ELSE [save[g][s] EXCEPT !.pc = "file"]
<1>1. /\ save[g][s] \in Saves
      /\ save[g][s].pc # "idle"
      /\ SerialSave(g, s)
      /\ SerialRun(g)
  BY DEF IInv, TypeOK, SerialInv, SerialRun, SendRow, CommitRow, CommitFails
<1>2. After \in Saves
  BY <1>1, CompletedType DEF Saves
<1>3. /\ save'[g][s] = After
      /\ \A h \in Runs, t \in Savers : h # g \/ t # s => save'[h][t] = save[h][t]
  <2>1. SaveBecomes(g, s, After)
    BY DEF SaveBecomes, IInv, TypeOK, SendRow, CommitRow, CommitFails
  <2>2. TypeOK
    BY DEF IInv
  <2> HIDE DEF After
  <2> QED
    BY <1>2, <2>1, <2>2, SaveFrame
<1>4. phase' = phase /\ cand' = cand /\ published' = published /\ file' = file
  BY DEF SendRow, CommitRow, CommitFails
<1>5. \A h \in Runs : h # g => save'[h] = save[h]
  BY DEF IInv, TypeOK, SendRow, CommitRow, CommitFails
<1>6. SerialRun(g)'
  <2>1. Completed(g)' = Completed(g) /\ InFlight(g)' = InFlight(g)
    BY <1>4 DEF Completed, InFlight
  <2>2. /\ After.snap = save[g][s].snap
        /\ After.pc = "commit" => After.done = Completed(g)
    BY <1>1 DEF Saves
  <2> HIDE DEF After
  <2>3. SerialSave(g, s)'
    BY <1>1, <1>3, <1>4, <2>1, <2>2 DEF SerialRun, SerialSave
  <2> QED
    BY <1>1, <1>3, <1>4, <2>1, <2>3 DEF SerialRun, SerialSave
<1>7. Covers(row)'
  <2>1. CASE row' = row
    BY <2>1 DEF SerialInv, Covers
  <2>2. CASE row' # row
    <3>1. /\ save[g][s].pc = "commit"
          /\ row' = [done |-> save[g][s].done, cand |-> save[g][s].snap]
      BY <2>2 DEF SendRow, CommitRow, CommitFails
    <3> QED
      BY <1>1, <3>1 DEF Covers, SerialRun, SerialSave
  <2> QED
    BY <2>1, <2>2
<1> QED
  BY <1>4, <1>5, <1>6, <1>7, OneRun DEF SerialInv, Covers, FindingsKept

LEMMA FileSerial ==
  ASSUME IInv, SerialInv, NEW g \in Runs, NEW s \in Savers,
         WriteFile(g, s) \/ WriteFileFails(g, s)
  PROVE  SerialInv'
<1>1. save[g][s].pc = "file" /\ SerialSave(g, s) /\ SerialRun(g)
  BY DEF SerialInv, SerialRun, WriteFile, WriteFileFails
<1>2. /\ save'[g][s].pc = "idle"
      /\ \A h \in Runs, t \in Savers : h # g \/ t # s => save'[h][t] = save[h][t]
  <2>1. TypeOK /\ Idle \in Saves
    BY IdleType DEF IInv
  <2>2. SaveBecomes(g, s, Idle)
    BY DEF SaveBecomes, WriteFile, WriteFileFails
  <2> QED
    BY <2>1, <2>2, SaveFrame DEF Idle
<1>3. \A v \in Units : v # s => phase'[g][v] = phase[g][v]
  <2>1. CASE phase' = phase
    BY <2>1
  <2>2. CASE phase' # phase
    <3>1. s \in Units /\ phase' = [phase EXCEPT ![g][s] = "over"]
      BY <2>2 DEF WriteFile, WriteFileFails, Savers
    <3> QED
      BY <3>1, PhaseChanged DEF Phases, IInv
  <2> QED
    BY <2>1, <2>2
<1>4. s \in Units => phase[g][s] = "saving" /\ phase'[g][s] = "over"
  BY <1>1, RunConstants DEF SerialSave, WriteFile, WriteFileFails, IInv, TypeOK
<1>5. Completed(g)' = Completed(g) /\ InFlight(g)' \subseteq InFlight(g)
  BY <1>3, <1>4 DEF Completed, InFlight
<1>6. cand' = cand /\ published' = published /\ row' = row
  BY DEF WriteFile, WriteFileFails
<1>7. SerialRun(g)'
  <2>1. ASSUME NEW t \in Savers PROVE SerialSave(g, t)'
    BY <1>1, <1>2, <1>3, <1>5, <1>6 DEF SerialRun, SerialSave
  <2> QED
    BY <1>1, <1>5, <1>6, <2>1 DEF SerialRun
<1>8. Covers(file)'
  <2>1. CASE file' = file
    BY <2>1 DEF SerialInv, Covers
  <2>2. CASE file' # file
    <3>1. file' = [done |-> Completed(g), cand |-> save[g][s].snap]
      BY <2>2 DEF WriteFile, WriteFileFails
    <3> QED
      BY <1>1, <3>1 DEF Covers, SerialRun, SerialSave
  <2> QED
    BY <2>1, <2>2
<1>9. \A h \in Runs : h # g => phase'[h] = phase[h] /\ save'[h] = save[h]
  BY DEF WriteFile, WriteFileFails, IInv, TypeOK
<1> QED
  BY <1>6, <1>7, <1>8, <1>9, OneRun DEF SerialInv, Covers, FindingsKept

LEMMA EndSerial ==
  ASSUME IInv, SerialInv, NEW g \in Runs,
         Publish(g) \/ Keep(g) \/ DeleteRow(g) \/ Unlink(g)
  PROVE  SerialInv'
<1>1. phase' = phase /\ cand' = cand /\ row' \in {row, None} /\ file' \in {file, None}
  BY DEF Publish, Keep, DeleteRow, Unlink
<1>2. Covers(row)' /\ Covers(file)'
  BY <1>1 DEF SerialInv, Covers
<1>3. \A h : Completed(h)' = Completed(h) /\ InFlight(h)' = InFlight(h)
  BY <1>1 DEF Completed, InFlight
<1>4. CASE Publish(g)
  <2>1. InFlight(g) = {} /\ Completed(g) = Units
    BY <1>4 DEF Publish, InFlight, Completed
  <2>2. FindingsKept'
    <3>1. cand[g] = Units \ Bare
      BY <2>1 DEF SerialInv, SerialRun, IInv, TypeOK
    <3> QED
      BY <1>4, <3>1 DEF Publish, SerialInv, FindingsKept, IInv, TypeOK
  <2>3. /\ save'[g][Main] = Snapshot(g)
        /\ \A h \in Runs, t \in Savers : h # g \/ t # Main => save'[h][t] = save[h][t]
    <3>1. TypeOK /\ Main \in Savers /\ Snapshot(g) \in Saves
      BY MainSaves, SnapshotType DEF IInv
    <3>2. SaveBecomes(g, Main, Snapshot(g))
      BY <1>4 DEF SaveBecomes, Publish
    <3> QED
      BY <3>1, <3>2, SaveFrame
  <2>4. SerialRun(g)'
    <3>1. SerialSave(g, Main)'
      BY <1>1, <1>3, <2>1, <2>3, SnapshotType, RunConstants DEF SerialSave, IInv
    <3>2. \A t \in Savers : t # Main => SerialSave(g, t)'
      BY <1>1, <1>3, <2>3 DEF SerialInv, SerialRun, SerialSave
    <3> QED
      BY <1>1, <1>3, <3>1, <3>2 DEF SerialInv, SerialRun
  <2>5. \A h \in Runs : h # g => save'[h] = save[h]
    BY <1>4 DEF Publish, IInv, TypeOK
  <2> QED
    BY <1>1, <1>2, <2>2, <2>4, <2>5, OneRun
<1>5. CASE ~Publish(g)
  <2>1. FindingsKept'
    BY <1>5 DEF Keep, DeleteRow, Unlink, SerialInv, FindingsKept
  <2>2. ASSUME NEW h \in Runs PROVE SerialRun(h)'
    <3>1. ASSUME NEW t \in Savers
          PROVE  /\ save'[h][t].pc = save[h][t].pc
                 /\ save'[h][t].snap = save[h][t].snap
                 /\ save'[h][t].done = save[h][t].done
      <4>1. save[h][t] \in Saves
        BY DEF IInv, TypeOK
      <4>2. \/ save'[h][t] = save[h][t]
            \/ save'[h][t] = [save[h][t] EXCEPT !.found = "stale"]
        BY <1>5, Stale DEF Keep, Unlink
      <4> QED
        BY <4>1, <4>2 DEF Saves
    <3> QED
      BY <1>1, <3>1, SerialOn DEF SerialInv
  <2> QED
    BY <1>2, <2>1, <2>2 DEF SerialInv
<1> QED
  BY <1>4, <1>5

LEMMA CrashSerial ==
  ASSUME IInv, SerialInv, NEW g \in Runs, Crash(g)
  PROVE  SerialInv'
<1>1. /\ cand'[g] = {}
      /\ \A t \in Savers : save'[g][t] = Idle
      /\ \A u \in Units : phase'[g][u] = "pending"
      /\ \A h \in Runs : h # g => /\ phase'[h] = phase[h]
                                 /\ cand'[h] = cand[h]
                                 /\ save'[h] = save[h]
  BY DEF Crash, IInv, TypeOK
<1>2. SerialRun(g)'
  BY <1>1 DEF SerialRun, SerialSave, Completed, InFlight, Idle
<1> QED
  BY <1>1, <1>2, OneRun DEF Crash, SerialInv, Covers, FindingsKept

LEMMA SettleSerial ==
  ASSUME IInv, SerialInv, NEW g \in Runs, Settles(g)
  PROVE  SerialInv'
<1>1. UNCHANGED <<phase, cand, save, row, file, published, saved>>
  BY Settling DEF IInv
<1> QED
  BY <1>1 DEF SerialInv, SerialRun, SerialSave, Covers, FindingsKept, Completed, InFlight

LEMMA SerialStep ==
  ASSUME MaxConcurrent = 1
  PROVE  IInv /\ IInv' /\ SerialInv /\ [Next]_vars => SerialInv'
<1> SUFFICES ASSUME IInv, IInv', SerialInv, [Next]_vars PROVE SerialInv'
  OBVIOUS
<1>1. CASE UNCHANGED vars
  BY <1>1 DEF vars, SerialInv, SerialRun, SerialSave, Covers, FindingsKept,
     Completed, InFlight
<1>2. CASE Next
  BY <1>2, StartSerial, DispatchSerial, OutcomeSerial, PersistSerial, SaveSerial,
     FileSerial, EndSerial, CrashSerial, SettleSerial DEF Next, Settles
<1> QED
  BY <1>1, <1>2

\* With one unit at a time, a review publishes what every unit found, however
\* often it crashed, failed to save, overlapped with itself or resumed.
THEOREM SerialReviewsAreComplete ==
  ASSUME MaxConcurrent = 1
  PROVE  Spec => []FindingsKept
<1>1. IInv /\ IInv' /\ SerialInv /\ [Next]_vars => SerialInv'
  BY SerialStep
<1>2. SerialInv => FindingsKept
  BY DEF SerialInv
<1> QED
  BY <1>1, <1>2, InitIInv, InvStep, InitSerial, PTL DEF Spec

(***************************************************************************)
(* A unit whose checkpoint was saved is not run again: with one unit and   *)
(* one run at a time, and a row that can be read and written.  Without any *)
(* one of the three a save overwrites the row with what it read before     *)
(* another one, or a run loads a file that is older than the row.          *)
(***************************************************************************)
Held(c) == c # None /\ saved \subseteq c.done

\* A run that goes on is the last, and no other does.
Working(g) == alive[g] \notin {"absent", "rejected", "dead"}
Ordered(g) == alive[g] # "absent" => \A h \in 1..(g - 1) : alive[h] \in {"rejected", "dead"}

\* A run that has stopped, or only deletes its checkpoint, has nothing under way.
Resting(g) ==
  alive[g] \notin {"running", "closing"} =>
    InFlight(g) = {} /\ \A s \in Savers : save[g][s].pc = "idle"

\* What was saved is known to the run, to the save that is under way, and to the store.
Knows(g) ==
  /\ Working(g) => \A u \in saved : phase[g][u] = "over"
  /\ alive[g] \in {"closed", "unlinking"} => Held(file)

SaveKnows(g, s) ==
  /\ save[g][s].pc = "commit" =>
       /\ save[g][s].found = (IF row = None THEN "none" ELSE "row")
       /\ saved \cup ({s} \cap Units) \subseteq save[g][s].done
  /\ save[g][s].pc = "file" => Held(row) /\ {s} \cap Units \subseteq row.done

StoreKnows ==
  /\ row # None => Held(row)
  /\ row = None => saved = {} \/ Held(file)

RunKnows(g) ==
  /\ Resting(g)
  /\ Knows(g)
  /\ \A s \in Savers : SaveKnows(g, s)

RedoInv ==
  /\ \A g \in Runs : Ordered(g) /\ RunKnows(g)
  /\ StoreKnows

LEMMA InitRedo == Init => RedoInv
  BY DEF Init, RedoInv, Ordered, RunKnows, Resting, Knows, SaveKnows, StoreKnows, Working,
     Idle, InFlight

LEMMA RunsAreNumbers == \A g \in Runs : g \in Int /\ \A h \in 1..(g - 1) : h \in Runs
  BY RunConstants DEF Runs

LEMMA OthersRest ==
  ASSUME RedoInv, NEW g \in Runs, Working(g) \/ (alive[g] = "absent" /\ Ordered(g)'),
         NEW h \in Runs, h # g, alive'[g] # "absent", alive'[h] = alive[h]
  PROVE  ~Working(h) /\ (h > g => alive[h] = "absent")
<1>1. g \in Int /\ h \in Int
  BY RunsAreNumbers
<1>2. CASE h > g
  <2>1. g \in 1..(h - 1)
    BY <1>1, <1>2, RunConstants DEF Runs
  <2>2. alive[h] # "absent" => alive[g] \in {"rejected", "dead"}
    BY <2>1 DEF RedoInv, Ordered
  <2> QED BY <2>2 DEF Working
<1>3. CASE h < g
  <2>1. h \in 1..(g - 1)
    BY <1>1, <1>3, RunConstants DEF Runs
  <2>2. alive[g] # "absent" => alive[h] \in {"rejected", "dead"}
    BY <2>1 DEF RedoInv, Ordered
  <2>3. alive[g] = "absent" /\ Ordered(g)' => alive[h] \in {"rejected", "dead"}
    BY <2>1 DEF Ordered
  <2> QED BY <1>1, <1>3, <2>2, <2>3 DEF Working
<1> QED BY <1>1, <1>2, <1>3

\* A step of the run that goes on keeps the invariant if its own share is kept.
LEMMA RedoOn ==
  ASSUME RedoInv, NEW g \in Runs, Working(g) \/ (alive[g] = "absent" /\ Ordered(g)'),
         alive'[g] # "absent",
         \A h \in Runs : h # g => /\ alive'[h] = alive[h] /\ phase'[h] = phase[h]
                                /\ \A s \in Savers : save'[h][s].pc = save[h][s].pc,
         RunKnows(g)', StoreKnows'
  PROVE  RedoInv'
<1>1. ASSUME NEW h \in Runs, h # g PROVE Ordered(h)' /\ RunKnows(h)'
  <2>1. ~Working(h) /\ (h > g => alive[h] = "absent")
    BY <1>1, OthersRest
  <2>2. Ordered(h)'
    <3>1. CASE h > g
      BY <1>1, <2>1, <3>1 DEF Ordered
    <3>2. CASE ~(h > g)
      <4>1. \A k \in 1..(h - 1) : k \in Runs /\ k # g
        BY <1>1, <3>2, RunsAreNumbers
      <4> QED BY <1>1, <4>1 DEF Ordered, RedoInv
    <3> QED BY <3>1, <3>2
  <2>3. InFlight(h)' = InFlight(h)
    BY <1>1 DEF InFlight
  <2>4. \A s \in Savers : save'[h][s].pc = "idle"
    BY <1>1, <2>1 DEF RedoInv, RunKnows, Resting, Working
  <2>5. RunKnows(h)'
    BY <1>1, <2>1, <2>3, <2>4 DEF RedoInv, RunKnows, Resting, Working, Knows, SaveKnows
  <2> QED BY <2>2, <2>5
<1>2. Ordered(g)'
  <2>1. CASE Working(g)
    <3>1. \A k \in 1..(g - 1) : k \in Runs /\ k # g
      BY RunsAreNumbers
    <3> QED BY <2>1, <3>1 DEF Ordered, RedoInv, Working
  <2>2. CASE ~Working(g)
    BY <2>2
  <2> QED BY <2>1, <2>2
<1> QED BY <1>1, <1>2 DEF RedoInv

\* Only the run that goes on has a unit or a save under way, and at most one save.
LEMMA BusyWorks ==
  ASSUME RedoInv, NEW g \in Runs,
         InFlight(g) # {} \/ \E s \in Savers : save[g][s].pc # "idle"
  PROVE  Working(g) /\ alive[g] \in {"running", "closing"}
  BY DEF RedoInv, RunKnows, Resting, Working

LEMMA OneSave ==
  ASSUME SerialInv, NEW g \in Runs, NEW s \in Savers, save[g][s].pc # "idle",
         NEW t \in Savers, t # s
  PROVE  save[g][t].pc = "idle"
<1>1. SerialSave(g, s) /\ SerialSave(g, t)
  BY DEF SerialInv, SerialRun
<1> QED BY <1>1, RunConstants DEF SerialSave, InFlight, Savers

LEMMA UnitRedo ==
  ASSUME IInv, RedoInv, NEW g \in Runs, NEW u \in Units,
         Dispatch(g, u) \/ Finish(g, u) \/ Skip(g, u)
  PROVE  RedoInv'
<1>1. Working(g) /\ alive[g] \in {"running", "closing"}
  <2>1. CASE Dispatch(g, u)
    BY <2>1 DEF Dispatch, Working
  <2>2. CASE Finish(g, u) \/ Skip(g, u)
    <3>1. u \in InFlight(g)
      BY <2>2 DEF Finish, Skip, InFlight
    <3> QED BY <3>1, BusyWorks
  <2> QED BY <2>1, <2>2
<1>2. /\ phase[g][u] \in {"pending", "running"} /\ u \in Units
      /\ \E p \in Phases : phase' = [phase EXCEPT ![g][u] = p]
      /\ UNCHANGED <<alive, save, row, file, saved>>
  BY DEF Dispatch, Finish, Skip, Phases
<1>3. \A h \in Runs, v \in Units : h # g \/ v # u => phase'[h][v] = phase[h][v]
  BY <1>2, PhaseChanged DEF IInv
<1>4. \A h \in Runs : h # g => phase'[h] = phase[h]
  BY <1>2 DEF IInv, TypeOK
<1>5. Knows(g)'
  <2>1. \A v \in saved : phase[g][v] = "over" /\ v \in Units
    BY <1>1 DEF RedoInv, RunKnows, Knows, IInv, TypeOK
  <2>2. \A v \in saved : phase'[g][v] = "over"
    BY <1>2, <1>3, <2>1
  <2> QED BY <1>1, <1>2, <2>2 DEF Knows
<1>6. RunKnows(g)'
  BY <1>1, <1>2, <1>5 DEF RedoInv, RunKnows, Resting, SaveKnows, Held
<1>7. StoreKnows'
  BY <1>2 DEF RedoInv, StoreKnows, Held
<1> QED BY <1>1, <1>2, <1>4, <1>6, <1>7, RedoOn DEF Working

LEMMA PersistRedo ==
  ASSUME IInv, SerialInv, RedoInv, NEW g \in Runs, NEW u \in Units, Persist(g, u)
  PROVE  RedoInv'
<1>1. Working(g) /\ alive[g] \in {"running", "closing"}
  <2>1. u \in InFlight(g)
    BY DEF Persist, InFlight
  <2> QED BY <2>1, BusyWorks
<1>2. UNCHANGED <<alive, row, file, saved>> /\ phase[g][u] = "done"
  BY DEF Persist
<1>3. \A h \in Runs, v \in Units : h # g \/ v # u => phase'[h][v] = phase[h][v]
  BY PhaseChanged DEF Persist, Phases, IInv
<1>4. \A h \in Runs : h # g => phase'[h] = phase[h] /\ save'[h] = save[h]
  BY DEF Persist, IInv, TypeOK
<1>5. /\ save'[g][u].pc = "row"
      /\ \A t \in Savers : t # u => save'[g][t] = save[g][t]
  <2>1. TypeOK /\ u \in Savers /\ Snapshot(g) \in Saves
    BY MainSaves, SnapshotType DEF IInv
  <2>2. SaveBecomes(g, u, Snapshot(g))
    BY DEF SaveBecomes, Persist
  <2> QED BY <2>1, <2>2, SaveFrame, SnapshotType
<1>6. Knows(g)'
  <2>1. \A v \in saved : phase[g][v] = "over" /\ v \in Units
    BY <1>1 DEF RedoInv, RunKnows, Knows, IInv, TypeOK
  <2>2. \A v \in saved : phase'[g][v] = "over"
    BY <1>2, <1>3, <2>1
  <2> QED BY <1>1, <1>2, <2>2 DEF Knows
<1>7. \A s \in Savers : SaveKnows(g, s)'
  BY <1>2, <1>5 DEF RedoInv, RunKnows, SaveKnows, Held
<1>8. Resting(g)'
  BY <1>1, <1>2 DEF Resting
<1>9. StoreKnows'
  BY <1>2 DEF RedoInv, StoreKnows, Held
<1> QED BY <1>1, <1>2, <1>4, <1>6, <1>7, <1>8, <1>9, RedoOn DEF Working, RunKnows

LEMMA SaveRedo ==
  ASSUME ~DbFails, IInv, SerialInv, RedoInv, NEW g \in Runs, NEW s \in Savers,
         SendRow(g, s) \/ CommitRow(g, s) \/ CommitFails(g, s)
  PROVE  RedoInv'
<1> DEFINE After == IF SendRow(g, s)
                      THEN [save[g][s] EXCEPT !.pc = "commit", !.done = Completed(g),
                                       !.found = IF row = None THEN "none" ELSE "row"]
                      ELSE [save[g][s] EXCEPT !.pc = "file"]
<1>1. ~CommitFails(g, s) /\ (SendRow(g, s) \/ CommitRow(g, s))
  BY DEF CommitFails
<1>2. save[g][s] \in Saves /\ save[g][s].pc # "idle" /\ SerialSave(g, s)
  BY <1>1 DEF IInv, TypeOK, SerialInv, SerialRun, SendRow, CommitRow
<1>3. Working(g) /\ alive[g] \in {"running", "closing"}
  BY <1>2, BusyWorks
<1>4. UNCHANGED <<alive, phase, file, saved>>
  BY <1>1 DEF SendRow, CommitRow
<1>5. After \in Saves
  BY <1>2, CompletedType DEF Saves
<1>6. /\ save'[g][s] = After
      /\ \A h \in Runs, t \in Savers : h # g \/ t # s => save'[h][t] = save[h][t]
  <2>1. SaveBecomes(g, s, After)
    BY <1>1 DEF SaveBecomes, IInv, TypeOK, SendRow, CommitRow
  <2>2. TypeOK
    BY DEF IInv
  <2> HIDE DEF After
  <2> QED BY <1>5, <2>1, <2>2, SaveFrame
<1>7. \A t \in Savers : t # s => save'[g][t].pc = "idle"
  BY <1>2, <1>6, OneSave
<1>8. saved \cup ({s} \cap Units) \subseteq Completed(g)
  <2>1. \A u \in saved : phase[g][u] = "over" /\ u \in Units
    BY <1>3 DEF RedoInv, RunKnows, Knows, IInv, TypeOK
  <2>2. s \in Units => phase[g][s] = "saving"
    BY <1>2 DEF SerialSave
  <2> QED BY <2>1, <2>2 DEF Completed
<1>9. SaveKnows(g, s)' /\ StoreKnows'
  <2>1. CASE SendRow(g, s)
    <3>1. row' = row
      BY <2>1 DEF SendRow
    <3>2. /\ After.pc = "commit" /\ After.done = Completed(g)
          /\ After.found = IF row = None THEN "none" ELSE "row"
      BY <1>2, <2>1 DEF Saves
    <3> HIDE DEF After
    <3>3. SaveKnows(g, s)'
      BY <1>4, <1>6, <1>8, <3>1, <3>2 DEF SaveKnows
    <3> QED BY <1>4, <3>1, <3>3 DEF RedoInv, StoreKnows, Held
  <2>2. CASE ~SendRow(g, s)
    <3>1. CommitRow(g, s) /\ save[g][s].pc = "commit"
      BY <1>1, <2>2 DEF CommitRow
    <3>2. /\ save[g][s].found = (IF row = None THEN "none" ELSE "row")
          /\ saved \cup ({s} \cap Units) \subseteq save[g][s].done
      BY <3>1 DEF RedoInv, RunKnows, SaveKnows
    <3>3. row' = [done |-> save[g][s].done, cand |-> save[g][s].snap]
      BY <3>1, <3>2 DEF CommitRow
    <3>4. row' # None /\ row'.done = save[g][s].done
      BY <1>2, <3>3, RunConstants DEF Saves
    <3>5. After.pc = "file"
      BY <1>2, <2>2 DEF Saves
    <3> HIDE DEF After
    <3>6. Held(row)' /\ {s} \cap Units \subseteq row'.done
      BY <1>4, <3>2, <3>4 DEF Held
    <3>7. SaveKnows(g, s)'
      BY <1>6, <3>5, <3>6 DEF SaveKnows
    <3> QED BY <3>4, <3>6, <3>7 DEF StoreKnows
  <2> QED BY <2>1, <2>2
<1>10. \A t \in Savers : SaveKnows(g, t)'
  BY <1>7, <1>9 DEF SaveKnows
<1>11. Knows(g)' /\ Resting(g)'
  BY <1>3, <1>4 DEF RedoInv, RunKnows, Knows, Resting, Held, Working
<1> QED BY <1>3, <1>4, <1>6, <1>9, <1>10, <1>11, RedoOn DEF Working, RunKnows

LEMMA FileRedo ==
  ASSUME IInv, SerialInv, RedoInv, NEW g \in Runs, NEW s \in Savers,
         WriteFile(g, s) \/ WriteFileFails(g, s)
  PROVE  RedoInv'
<1>1. save[g][s].pc = "file" /\ SerialSave(g, s) /\ SaveKnows(g, s)
  BY DEF SerialInv, SerialRun, WriteFile, WriteFileFails, RedoInv, RunKnows
<1>2. Working(g) /\ alive[g] \in {"running", "closing"}
  BY <1>1, BusyWorks
<1>3. /\ save'[g][s].pc = "idle"
      /\ \A h \in Runs, t \in Savers : h # g \/ t # s => save'[h][t] = save[h][t]
  <2>1. TypeOK /\ Idle \in Saves
    BY IdleType DEF IInv
  <2>2. SaveBecomes(g, s, Idle)
    BY DEF SaveBecomes, WriteFile, WriteFileFails
  <2> QED BY <2>1, <2>2, SaveFrame DEF Idle
<1>4. \A t \in Savers : save'[g][t].pc = "idle"
  BY <1>1, <1>3, OneSave
<1>5. /\ \A v \in Units : v # s => phase'[g][v] = phase[g][v]
      /\ s \in Units => phase[g][s] = "saving" /\ phase'[g][s] = "over"
      /\ \A h \in Runs : h # g => phase'[h] = phase[h]
  <2>1. s \in Units => phase[g][s] = "saving"
    BY <1>1 DEF SerialSave
  <2>2. CASE s = Main
    BY <2>2, RunConstants DEF WriteFile, WriteFileFails
  <2>3. CASE s # Main
    <3>1. s \in Units /\ phase' = [phase EXCEPT ![g][s] = "over"]
      BY <2>3 DEF WriteFile, WriteFileFails, Savers
    <3>2. \A h \in Runs : h # g => phase'[h] = phase[h]
      BY <3>1 DEF IInv, TypeOK
    <3>3. /\ phase'[g][s] = "over"
          /\ \A v \in Units : v # s => phase'[g][v] = phase[g][v]
      <4>1. phase \in [Runs -> [Units -> Phases]]
        BY DEF IInv, TypeOK
      <4> QED BY <3>1, <4>1
    <3> QED BY <2>1, <3>1, <3>2, <3>3
  <2> QED BY <2>2, <2>3
<1>6. /\ row' = row /\ alive'[g] \in {"running", "closing", "closed", "rejected"}
      /\ \A h \in Runs : h # g => alive'[h] = alive[h]
  BY <1>2 DEF WriteFile, WriteFileFails, IInv, TypeOK
<1>7. saved' \subseteq saved \cup ({s} \cap Units)
  BY DEF WriteFile, WriteFileFails, Savers, IInv, TypeOK
<1>8. /\ \A u \in saved' : u \in Units /\ phase'[g][u] = "over"
      /\ saved' \subseteq Completed(g)
  <2>1. \A u \in saved : phase[g][u] = "over" /\ u \in Units
    BY <1>2 DEF RedoInv, RunKnows, Knows, IInv, TypeOK
  <2> QED BY <1>5, <1>7, <2>1 DEF Completed
<1>9. Held(row)'
  BY <1>1, <1>6, <1>7 DEF SaveKnows, Held
<1>10. InFlight(g)' = {}
  <2>1. InFlight(g) \subseteq {s}
    BY <1>1 DEF SerialSave
  <2> QED BY <1>5, <2>1 DEF InFlight
<1>11. Resting(g)'
  BY <1>4, <1>10 DEF Resting
<1>12. Knows(g)'
  <2>1. ASSUME alive'[g] \in {"closed", "unlinking"} PROVE Held(file)'
    <3>1. WriteFile(g, s)
      BY <1>2, <2>1 DEF WriteFileFails, IInv, TypeOK
    <3>2. file' = [done |-> Completed(g), cand |-> save[g][s].snap]
      BY <3>1 DEF WriteFile
    <3>3. Completed(g) \subseteq Units /\ save[g][s].snap \subseteq Units
      BY CompletedType DEF IInv, TypeOK, Saves
    <3> QED BY <1>8, <3>2, <3>3, RunConstants DEF Held
  <2> QED BY <1>8, <2>1 DEF Knows
<1>13. StoreKnows' /\ \A t \in Savers : SaveKnows(g, t)'
  BY <1>4, <1>9 DEF StoreKnows, SaveKnows, Held
<1> QED BY <1>2, <1>3, <1>5, <1>6, <1>11, <1>12, <1>13, RedoOn DEF RunKnows

LEMMA EndRedo ==
  ASSUME IInv, RedoInv, NEW g \in Runs,
         Publish(g) \/ Keep(g) \/ DeleteRow(g) \/ Unlink(g)
  PROVE  RedoInv'
<1>1. /\ phase' = phase /\ saved' \subseteq saved /\ Working(g) /\ Working(g)'
      /\ row' \in {row, None}
      /\ \A h \in Runs : h # g => alive'[h] = alive[h]
  BY DEF Publish, Keep, DeleteRow, Unlink, Working, IInv, TypeOK
<1>2. \A u \in saved : phase[g][u] = "over"
  BY <1>1 DEF RedoInv, RunKnows, Knows
<1>3. InFlight(g)' = InFlight(g)
  BY <1>1 DEF InFlight
<1>4. CASE Publish(g)
  <2>1. /\ save'[g][Main].pc = "row"
        /\ \A h \in Runs, t \in Savers : h # g \/ t # Main => save'[h][t] = save[h][t]
    <3>1. TypeOK /\ Main \in Savers /\ Snapshot(g) \in Saves
      BY MainSaves, SnapshotType DEF IInv
    <3>2. SaveBecomes(g, Main, Snapshot(g))
      BY <1>4 DEF SaveBecomes, Publish
    <3> QED BY <3>1, <3>2, SaveFrame, SnapshotType
  <2>2. UNCHANGED <<row, file, saved>> /\ alive'[g] = "closing"
    BY <1>4 DEF Publish, IInv, TypeOK
  <2>3. \A s \in Savers : SaveKnows(g, s)'
    BY <1>1, <2>1, <2>2 DEF RedoInv, RunKnows, SaveKnows, Held
  <2>4. Resting(g)' /\ Knows(g)'
    BY <1>1, <1>2, <2>2 DEF Resting, Knows
  <2>5. StoreKnows'
    BY <2>2 DEF RedoInv, StoreKnows, Held
  <2> QED BY <1>1, <2>1, <2>3, <2>4, <2>5, RedoOn DEF Working, RunKnows
<1>5. CASE ~Publish(g)
  <2>1. /\ alive[g] \in {"closed", "unlinking"} /\ alive'[g] \in {"unlinking", "finished"}
        /\ Held(file)
        /\ saved' = {} \/ (saved' = saved /\ file' = file)
        /\ alive'[g] = "unlinking" => file' = file
    BY <1>5 DEF Keep, DeleteRow, Unlink, IInv, TypeOK, RedoInv, RunKnows, Knows
  <2>2. ASSUME NEW h \in Runs, NEW t \in Savers PROVE save'[h][t].pc = save[h][t].pc
    <3>1. save[h][t] \in Saves
      BY DEF IInv, TypeOK
    <3>2. \/ save'[h][t] = save[h][t]
          \/ save'[h][t] = [save[h][t] EXCEPT !.found = "stale"]
      BY <1>5, Stale DEF Keep, Unlink
    <3> QED BY <3>1, <3>2 DEF Saves
  <2>3. InFlight(g) = {} /\ \A s \in Savers : save[g][s].pc = "idle"
    BY <2>1 DEF RedoInv, RunKnows, Resting
  <2>4. Resting(g)' /\ \A s \in Savers : SaveKnows(g, s)'
    BY <1>3, <2>2, <2>3 DEF Resting, SaveKnows
  <2>5. saved' = {} \/ Held(file)'
    BY <2>1 DEF Held
  <2>6. Knows(g)'
    BY <1>1, <1>2, <2>1 DEF Knows, Held
  <2>7. StoreKnows'
    BY <1>1, <2>1, <2>5 DEF RedoInv, StoreKnows, Held
  <2> QED BY <1>1, <2>2, <2>4, <2>6, <2>7, RedoOn DEF Working, RunKnows
<1> QED BY <1>4, <1>5

\* A run that ended may be followed by another: nothing of it is under way.
LEMMA SettleRedo ==
  ASSUME IInv, RedoInv, NEW g \in Runs, Settles(g)
  PROVE  RedoInv'
<1>1. /\ alive[g] = "finished" /\ alive'[g] \in {"settled", "rejected"}
      /\ \A h \in Runs : h # g => alive'[h] = alive[h]
      /\ UNCHANGED <<phase, save, row, file, saved>>
  BY Settling DEF IInv
<1>2. Working(g) /\ InFlight(g) = {} /\ \A s \in Savers : save[g][s].pc = "idle"
  BY <1>1 DEF Working, RedoInv, RunKnows, Resting
<1>3. RunKnows(g)'
  <2>1. InFlight(g)' = {}
    BY <1>1, <1>2 DEF InFlight
  <2>2. \A u \in saved : phase[g][u] = "over"
    BY <1>2 DEF RedoInv, RunKnows, Knows
  <2> QED BY <1>1, <1>2, <2>1, <2>2 DEF RunKnows, Resting, Knows, SaveKnows
<1>4. StoreKnows'
  BY <1>1 DEF RedoInv, StoreKnows, Held
<1> QED BY <1>1, <1>2, <1>3, <1>4, RedoOn

LEMMA CrashRedo ==
  ASSUME IInv, RedoInv, NEW g \in Runs, Crash(g)
  PROVE  RedoInv'
<1>1. /\ alive'[g] = "dead" /\ alive[g] # "absent"
      /\ \A t \in Savers : save'[g][t] = Idle
      /\ \A u \in Units : phase'[g][u] = "pending"
      /\ \A h \in Runs : h # g => /\ alive'[h] = alive[h] /\ phase'[h] = phase[h]
                                 /\ save'[h] = save[h]
      /\ UNCHANGED <<row, file, saved>>
  BY DEF Crash, IInv, TypeOK
<1>2. ASSUME NEW h \in Runs PROVE Ordered(h)'
  <2>1. alive'[h] # "absent" => alive[h] # "absent"
    BY <1>1
  <2>2. \A k \in 1..(h - 1) : k \in Runs
    BY RunsAreNumbers
  <2>3. \A k \in 1..(h - 1) : alive[k] \in {"rejected", "dead"} => alive'[k] \in {"rejected", "dead"}
    BY <1>1, <2>2
  <2> QED BY <2>1, <2>3 DEF Ordered, RedoInv
<1>3. RunKnows(g)'
  BY <1>1 DEF RunKnows, Resting, Knows, SaveKnows, Working, InFlight, Idle
<1>4. ASSUME NEW h \in Runs, h # g PROVE RunKnows(h)'
  <2>1. InFlight(h)' = InFlight(h)
    BY <1>1, <1>4 DEF InFlight
  <2> QED BY <1>1, <1>4, <2>1 DEF RedoInv, RunKnows, Resting, Knows, SaveKnows, Working, Held
<1>5. StoreKnows'
  BY <1>1 DEF RedoInv, StoreKnows, Held
<1> QED BY <1>2, <1>3, <1>4, <1>5 DEF RedoInv

LEMMA StartRedo ==
  ASSUME ~Overlap, ~DbFails, IInv, RedoInv, NEW g \in Runs, Start(g)
  PROVE  RedoInv'
<1>1. PICK found \in Loaded :
        LET from == IF found = None THEN Nothing ELSE found
        IN /\ phase' = [phase EXCEPT ![g] = [u \in Units |->
                          IF u \in from.done THEN "over" ELSE "pending"]]
           /\ cand' = [cand EXCEPT ![g] = from.cand]
           /\ save' = [save EXCEPT ![g][Main] = [Idle EXCEPT !.pc = "row", !.snap = from.cand]]
  BY DEF Start
<1> DEFINE from == IF found = None THEN Nothing ELSE found
           first == [Idle EXCEPT !.pc = "row", !.snap = from.cand]
<1>2. /\ found = IF row # None THEN row ELSE file
      /\ from \in Checkpoints
  BY DEF Loaded, IInv, TypeOK, Nothing, Checkpoints
<1>3. first \in Saves /\ first.pc = "row"
  BY <1>2 DEF Idle, Saves, Checkpoints
<1>4. /\ alive[g] = "absent" /\ alive'[g] = "running"
      /\ \A h \in 1..(g - 1) : alive[h] \in {"rejected", "dead"}
      /\ \A h \in Runs : h # g => alive'[h] = alive[h] /\ phase'[h] = phase[h]
      /\ UNCHANGED <<row, file, saved>>
  BY <1>1 DEF Start, IInv, TypeOK
<1>5. Ordered(g)'
  <2>1. \A h \in 1..(g - 1) : h \in Runs /\ h # g
    BY RunsAreNumbers
  <2> QED BY <1>4, <2>1 DEF Ordered
<1>6. saved \subseteq from.done
  <2>1. CASE row # None
    BY <1>2, <2>1 DEF RedoInv, StoreKnows, Held
  <2>2. CASE row = None
    <3>1. saved = {} \/ Held(file)
      BY <2>2 DEF RedoInv, StoreKnows
    <3> QED BY <1>2, <2>2, <3>1 DEF Held
  <2> QED BY <2>1, <2>2
<1> HIDE DEF first
<1>7. /\ save'[g][Main].pc = "row"
      /\ \A h \in Runs, t \in Savers : h # g \/ t # Main => save'[h][t] = save[h][t]
  <2>1. SaveBecomes(g, Main, first)
    BY <1>1 DEF SaveBecomes, from, first
  <2>2. TypeOK /\ Main \in Savers
    BY MainSaves DEF IInv
  <2> QED BY <1>3, <2>1, <2>2, SaveFrame
<1>8. \A u \in saved : phase'[g][u] = "over"
  <2>1. \A u \in Units : phase'[g][u] = IF u \in from.done THEN "over" ELSE "pending"
    BY <1>1 DEF IInv, TypeOK
  <2> HIDE DEF from
  <2>2. saved \subseteq Units
    BY DEF IInv, TypeOK
  <2> QED BY <1>6, <2>1, <2>2
<1> HIDE DEF from
<1>9. Knows(g)' /\ Resting(g)'
  BY <1>4, <1>8 DEF Knows, Resting
<1>10. \A s \in Savers : SaveKnows(g, s)'
  <2> SUFFICES ASSUME NEW s \in Savers PROVE save'[g][s].pc \in {"row", "idle"}
    BY DEF SaveKnows
  <2>1. s # Main => save'[g][s].pc = "idle"
    BY <1>4, <1>7 DEF IInv, NothingBefore
  <2> QED BY <1>7, <2>1
<1>11. StoreKnows'
  BY <1>4 DEF RedoInv, StoreKnows, Held
<1> QED BY <1>4, <1>5, <1>7, <1>9, <1>10, <1>11, RedoOn DEF RunKnows

LEMMA RedoStep ==
  ASSUME ~Overlap, ~DbFails
  PROVE  IInv /\ SerialInv /\ RedoInv /\ [Next]_vars => RedoInv'
<1> SUFFICES ASSUME IInv, SerialInv, RedoInv, [Next]_vars PROVE RedoInv'
  OBVIOUS
<1>1. CASE UNCHANGED vars
  BY <1>1 DEF vars, RedoInv, Ordered, RunKnows, Resting, Knows, SaveKnows, StoreKnows, Working,
     Held, InFlight
<1>2. CASE Next
  BY <1>2, StartRedo, UnitRedo, PersistRedo, SaveRedo, FileRedo, EndRedo, SettleRedo,
     CrashRedo DEF Next, Settles
<1> QED BY <1>1, <1>2

\* A unit starts only in a run that goes on, which knows what was saved.
LEMMA RedoSays ==
  IInv /\ RedoInv /\ [Next]_vars =>
    [\A g \in Runs, u \in saved : phase[g][u] = "pending" => phase'[g][u] # "running"]_vars
<1> SUFFICES ASSUME IInv, RedoInv, Next, NEW g \in Runs, NEW u \in saved,
                    phase[g][u] = "pending"
             PROVE  phase'[g][u] # "running"
  OBVIOUS
<1>1. u \in Units /\ ~Working(g)
  BY DEF RedoInv, RunKnows, Knows, IInv, TypeOK
<1>2. \A h \in Runs, v \in Units : Dispatch(h, v) => h # g
  BY <1>1 DEF Dispatch, Working
<1>3. PICK h \in Runs :
        \/ Start(h) \/ Publish(h) \/ Keep(h) \/ DeleteRow(h) \/ Unlink(h) \/ Settles(h)
        \/ Crash(h)
        \/ \E v \in Units : Dispatch(h, v) \/ Finish(h, v) \/ Skip(h, v) \/ Persist(h, v)
        \/ \E s \in Savers : \/ SendRow(h, s) \/ CommitRow(h, s) \/ CommitFails(h, s)
                             \/ WriteFile(h, s) \/ WriteFileFails(h, s)
  BY DEF Next, Settles
<1>4. CASE h # g
  <2>1. phase'[g] = phase[g]
    BY <1>3, <1>4, Settling DEF Start, Publish, Keep, DeleteRow, Unlink, Crash, Dispatch, Finish, Skip,
       Persist, SendRow, CommitRow, CommitFails, WriteFile, WriteFileFails, IInv, TypeOK
  <2> QED BY <2>1
<1>5. CASE h = g /\ Start(h)
  <2>1. PICK found \in Loaded :
          LET from == IF found = None THEN Nothing ELSE found
          IN phase' = [phase EXCEPT ![g] = [v \in Units |->
                         IF v \in from.done THEN "over" ELSE "pending"]]
    BY <1>5 DEF Start
  <2>2. phase'[g][u] \in {"over", "pending"}
    BY <1>1, <2>1 DEF IInv, TypeOK
  <2> QED BY <2>2
<1>6. CASE h = g /\ ~Start(h)
  <2>1. \/ phase'[g][u] = phase[g][u]
        \/ phase'[g][u] \in {"pending", "done", "over", "saving"}
    <3>1. ASSUME NEW v \in Units, Finish(h, v) \/ Skip(h, v) \/ Persist(h, v)
          PROVE  \/ phase'[g][u] = phase[g][u]
                 \/ phase'[g][u] \in {"pending", "done", "over", "saving"}
      BY <1>1, <1>6, <3>1 DEF Finish, Skip, Persist, IInv, TypeOK
    <3>2. ASSUME NEW s \in Savers, WriteFile(h, s) \/ WriteFileFails(h, s)
          PROVE  \/ phase'[g][u] = phase[g][u]
                 \/ phase'[g][u] \in {"pending", "done", "over", "saving"}
      BY <1>1, <1>6, <3>2 DEF WriteFile, WriteFileFails, IInv, TypeOK
    <3>3. ASSUME \/ Publish(h) \/ Keep(h) \/ DeleteRow(h) \/ Unlink(h) \/ Settles(h)
                 \/ \E s \in Savers : SendRow(h, s) \/ CommitRow(h, s) \/ CommitFails(h, s)
          PROVE  phase' = phase
      BY <3>3, Settling DEF IInv, Publish, Keep, DeleteRow, Unlink, SendRow, CommitRow, CommitFails
    <3>4. ASSUME Crash(h) PROVE phase'[g][u] = "pending"
      BY <1>1, <1>6, <3>4 DEF Crash, IInv, TypeOK
    <3> QED BY <1>2, <1>3, <1>6, <3>1, <3>2, <3>3, <3>4
  <2> QED BY <2>1
<1> QED BY <1>4, <1>5, <1>6

\* With one unit and one run at a time and a row that can be read and written, no resume
\* runs a unit again whose checkpoint was saved and is not deleted: until a completed
\* review deletes it, a process may crash anywhere and any write of the file may fail.
\* (A crash after that, before the job is settled, starts the whole review again.)
THEOREM FinishedStaysDone ==
  ASSUME MaxConcurrent = 1, ~Overlap, ~DbFails
  PROVE  Spec => FinishedNotRedone
<1>1. IInv /\ IInv' /\ SerialInv /\ [Next]_vars => SerialInv'
  BY SerialStep
<1>2. IInv /\ SerialInv /\ RedoInv /\ [Next]_vars => RedoInv'
  BY RedoStep
<1> QED
  BY <1>1, <1>2, RedoSays, InitIInv, InvStep, InitSerial, InitRedo, PTL
     DEF Spec, FinishedNotRedone
===============================================================================
