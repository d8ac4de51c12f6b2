--------------------------- MODULE JobQueueProofs ---------------------------
(***************************************************************************)
(* Proofs about JobQueue, for every number of jobs and workers and every   *)
(* value of the timing constants.  The first part needs no assumption on   *)
(* timing; the second one assumes Timely and ends with the refinement of   *)
(* ExclusiveQueue.  The third carries both over to HybridQueue.            *)
(***************************************************************************)
EXTENDS HybridQueue, TLAPS

(***************************************************************************)
(* Type correctness.                                                       *)
(***************************************************************************)
LEMMA AgeCapNat ==
  AgeCap \in Nat /\ AgeCap > Lease /\ AgeCap > StartupLease /\ 0 \in 0..AgeCap
BY QueueConstants DEF AgeCap

LEMMA TypeInit == Init => TypeOK
BY QueueConstants, AgeCapNat DEF Init, TypeOK, Statuses, Phases

LEMMA TypeNext == TypeOK /\ [Next]_vars => TypeOK'
<1> SUFFICES ASSUME TypeOK, [Next]_vars PROVE TypeOK'
  OBVIOUS
<1> USE QueueConstants, AgeCapNat DEF TypeOK, Statuses, Phases
<1>1. CASE Enqueue
  <2>1. status' \in [Jobs -> Statuses] /\ enqueued' \in 0..NumJobs
    BY <1>1 DEF Enqueue, Jobs
  <2> QED BY <1>1, <2>1 DEF Enqueue, procs
<1>2. CASE Tick
  BY <1>2 DEF Tick, procs
<1>3. ASSUME NEW w \in Workers, NEW j \in Jobs, Take(w, j) PROVE TypeOK'
  BY <1>3 DEF Take
<1>4. ASSUME NEW w \in Workers, Claim(w) PROVE TypeOK'
  <2> PICK j \in Candidates(w) : Take(w, j)
    BY <1>4 DEF Claim
  <2> j \in Jobs
    BY DEF Candidates
  <2> QED BY <1>3
<1>5. ASSUME NEW w \in Workers, NEW j \in Jobs, ClaimById(w, j) PROVE TypeOK'
  BY <1>3, <1>5 DEF ClaimById
<1>6. ASSUME NEW w \in Workers, TouchLock(w) PROVE TypeOK'
  BY <1>6 DEF TouchLock, procs
<1>7. ASSUME NEW w \in Workers, Complete(w) PROVE TypeOK'
  BY <1>7 DEF Complete, Release
<1>8. ASSUME NEW w \in Workers, StartReview(w) PROVE TypeOK'
  BY <1>8 DEF StartReview, rows
<1>9. ASSUME NEW w \in Workers, FailRead(w) PROVE TypeOK'
  BY <1>9 DEF FailRead, rows, OutOfAttempts
<1>10. ASSUME NEW w \in Workers, FailWrite(w) PROVE TypeOK'
  BY <1>10 DEF FailWrite, Release
<1>11. ASSUME NEW w \in Workers, Abandon(w) PROVE TypeOK'
  BY <1>11 DEF Abandon, rows
<1>15. ASSUME NEW w \in Workers, Crash(w) PROVE TypeOK'
  BY <1>15 DEF Crash, rows
<1>12. ASSUME NEW w \in Workers, StartupReclaim(w) PROVE TypeOK'
  <2>1. status' \in [Jobs -> Statuses] /\ lockedBy' \in [Jobs -> Workers \cup {None}]
    BY <1>12 DEF StartupReclaim
  <2>2. lockAge' \in [Jobs -> 0..AgeCap]
    <3>1. \A j \in Jobs : (IF Expired(j, StartupLease) THEN 0 ELSE lockAge[j]) \in 0..AgeCap
      OBVIOUS
    <3> QED BY <1>12, <3>1 DEF StartupReclaim
  <2>4. delay' \in [Jobs -> Nat]
    BY <1>12 DEF StartupReclaim
  <2>3. phase' \in [Workers -> Phases]
    BY <1>12 DEF StartupReclaim
  <2> QED BY <1>12, <2>1, <2>2, <2>3, <2>4 DEF StartupReclaim
<1>13. ASSUME NEW w \in Workers, StartupReclaimFails(w) PROVE TypeOK'
  BY <1>13 DEF StartupReclaimFails, rows
<1>14. CASE UNCHANGED vars
  BY <1>14 DEF vars
<1>16. ASSUME NEW w \in Workers, CompleteUnheard(w) PROVE TypeOK'
  <2>1. faults' \in 0..MaxFaults /\ phase' \in [Workers -> Phases]
    BY <1>16 DEF CompleteUnheard
  <2>2. /\ status' \in [Jobs -> Statuses] /\ lockedBy' \in [Jobs -> Workers \cup {None}]
        /\ lockAge' \in [Jobs -> 0..AgeCap]
    BY <1>16 DEF CompleteUnheard, Release
  <2> QED BY <1>16, <2>1, <2>2 DEF CompleteUnheard
<1> QED
  BY <1>1, <1>2, <1>4, <1>5, <1>6, <1>7, <1>8, <1>9, <1>10, <1>11, <1>12, <1>13,
     <1>14, <1>15, <1>16 DEF Next

\* Every variable keeps its type: the counters never leave their ranges, no
\* statement writes a status outside JobStatus.
THEOREM TypeCorrect == Spec => []TypeOK
  BY TypeInit, TypeNext, PTL DEF Spec

(***************************************************************************)
(* Fencing tokens and the attempt limit: no assumption on timing.          *)
(***************************************************************************)
Busy == {"prepare", "review", "unheard", "failing"}

\* A worker has a job exactly in its busy phases, and decides the fate of the
\* row only while it fails.
ProcInv ==
  /\ \A w \in Workers : job[w] # 0 <=> phase[w] \in Busy
  /\ \A w \in Workers : dead[w] => phase[w] = "failing"

\* DeadOnlyWhenSpent, strengthened by what a pending decision rests on.
SpentInv ==
  /\ DeadOnlyWhenSpent
  /\ \A w \in Workers : dead[w] => attempts[job[w]] >= MaxAttempts

\* Every step but a claim is quiet: attempts and tokens stay, workers only
\* let go of jobs, and nobody becomes the holder of a lock.
Quiet ==
  /\ attempts' = attempts /\ token' = token
  /\ \A w \in Workers : job'[w] = job[w] \/ job'[w] = 0
  /\ \A w \in Workers : job'[w] # 0 /\ Holds(w)' => Holds(w)

Claiming(w, j) == job[w] = 0 /\ dead[w] = FALSE /\ Claimable(j) /\ Take(w, j)

LEMMA StepShape ==
  ASSUME TypeOK, ProcInv, [Next]_vars
  PROVE  Quiet \/ \E w \in Workers, j \in Jobs : Claiming(w, j)
<1> USE DEF TypeOK, Quiet, Holds
<1>1. CASE Enqueue
  BY <1>1 DEF Enqueue, procs
<1>2. CASE Tick
  BY <1>2 DEF Tick, procs
<1>3. ASSUME NEW w \in Workers, Claim(w) PROVE \E j \in Jobs : Claiming(w, j)
  <2> PICK j \in Candidates(w) : Take(w, j)
    BY <1>3 DEF Claim
  <2> j \in Jobs /\ Claimable(j)
    BY QueueConstants DEF Candidates
  <2> QED BY <1>3 DEF Claim, Claiming, ProcInv, Busy
<1>4. ASSUME NEW w \in Workers, NEW j \in Jobs, ClaimById(w, j) PROVE Claiming(w, j)
  BY <1>4 DEF ClaimById, Claiming, ProcInv, Busy
<1>5. ASSUME NEW w \in Workers, TouchLock(w) PROVE Quiet
  BY <1>5 DEF TouchLock, procs
<1>6. ASSUME NEW w \in Workers, Complete(w) PROVE Quiet
  BY <1>6 DEF Complete, Release
<1>7. ASSUME NEW w \in Workers, StartReview(w) PROVE Quiet
  BY <1>7 DEF StartReview, rows
<1>8. ASSUME NEW w \in Workers, FailRead(w) PROVE Quiet
  BY <1>8 DEF FailRead, rows
<1>9. ASSUME NEW w \in Workers, FailWrite(w) PROVE Quiet
  BY <1>9 DEF FailWrite, Release
<1>10. ASSUME NEW w \in Workers, Abandon(w) PROVE Quiet
  BY <1>10 DEF Abandon, rows
<1>11. ASSUME NEW w \in Workers, Crash(w) PROVE Quiet
  BY <1>11 DEF Crash, rows
<1>12. ASSUME NEW w \in Workers, StartupReclaim(w) PROVE Quiet
  BY <1>12 DEF StartupReclaim
<1>13. ASSUME NEW w \in Workers, StartupReclaimFails(w) PROVE Quiet
  BY <1>13 DEF StartupReclaimFails, rows
<1>14. CASE UNCHANGED vars
  BY <1>14 DEF vars
<1>15. ASSUME NEW w \in Workers, CompleteUnheard(w) PROVE Quiet
  BY <1>15 DEF CompleteUnheard, Release
<1> QED
  BY <1>1, <1>2, <1>3, <1>4, <1>5, <1>6, <1>7, <1>8, <1>9, <1>10, <1>11, <1>12,
     <1>13, <1>14, <1>15 DEF Next

LEMMA ProcNext == TypeOK /\ ProcInv /\ [Next]_vars => ProcInv'
<1> SUFFICES ASSUME TypeOK, ProcInv, [Next]_vars PROVE ProcInv'
  OBVIOUS
<1> USE DEF TypeOK, ProcInv, Busy
<1>1. CASE Enqueue \/ Tick
  BY <1>1 DEF Enqueue, Tick, procs
<1>2. ASSUME NEW w \in Workers, NEW j \in Jobs, Claiming(w, j) PROVE ProcInv'
  BY <1>2 DEF Claiming, Take, Jobs
<1>3. ASSUME NEW w \in Workers, Claim(w) PROVE ProcInv'
  <2> PICK j \in Candidates(w) : Take(w, j)
    BY <1>3 DEF Claim
  <2> j \in Jobs
    BY QueueConstants DEF Candidates
  <2> QED BY <1>3 DEF Claim, Take, Jobs
<1>4. ASSUME NEW w \in Workers, NEW j \in Jobs, ClaimById(w, j) PROVE ProcInv'
  BY <1>4 DEF ClaimById, Take, Jobs
<1>5. ASSUME NEW w \in Workers, TouchLock(w) PROVE ProcInv'
  BY <1>5 DEF TouchLock, procs
<1>6. ASSUME NEW w \in Workers, Complete(w) PROVE ProcInv'
  BY <1>6 DEF Complete
<1>7. ASSUME NEW w \in Workers, StartReview(w) PROVE ProcInv'
  BY <1>7 DEF StartReview
<1>8. ASSUME NEW w \in Workers, FailRead(w) PROVE ProcInv'
  BY <1>8 DEF FailRead
<1>9. ASSUME NEW w \in Workers, FailWrite(w) PROVE ProcInv'
  BY <1>9 DEF FailWrite
<1>10. ASSUME NEW w \in Workers, Abandon(w) PROVE ProcInv'
  BY <1>10 DEF Abandon
<1>11. ASSUME NEW w \in Workers, Crash(w) PROVE ProcInv'
  BY <1>11 DEF Crash
<1>12. ASSUME NEW w \in Workers, StartupReclaim(w) PROVE ProcInv'
  BY <1>12 DEF StartupReclaim
<1>13. ASSUME NEW w \in Workers, StartupReclaimFails(w) PROVE ProcInv'
  BY <1>13 DEF StartupReclaimFails
<1>14. CASE UNCHANGED vars
  BY <1>14 DEF vars
<1>15. ASSUME NEW w \in Workers, CompleteUnheard(w) PROVE ProcInv'
  BY <1>15 DEF CompleteUnheard
<1> QED
  BY <1>1, <1>3, <1>4, <1>5, <1>6, <1>7, <1>8, <1>9, <1>10, <1>11, <1>12,
     <1>13, <1>14, <1>15 DEF Next

LEMMA TokensNext ==
  ASSUME TypeOK, ProcInv, FreshTokens, [Next]_vars
  PROVE  FreshTokens'
<1>1. CASE Quiet
  <2>1. \A w \in Workers : (job[w] # 0 => token[w] \in 1..attempts[job[w]])'
    BY <1>1 DEF Quiet, FreshTokens
  <2>2. \A w \in Workers : (job[w] # 0 /\ Holds(w) => token[w] = attempts[job[w]])'
    BY <1>1 DEF Quiet, FreshTokens
  <2>3. \A v, w \in Workers :
          (job[v] # 0 /\ job[v] = job[w] /\ token[v] = token[w] => v = w)'
    BY <1>1 DEF Quiet, FreshTokens
  <2> QED BY <2>1, <2>2, <2>3 DEF FreshTokens
<1>2. ASSUME NEW w \in Workers, NEW j \in Jobs, Claiming(w, j) PROVE FreshTokens'
  <2> USE DEF TypeOK, Claiming, Take
  <2>0. /\ job'[w] = j /\ token'[w] = attempts[j] + 1 /\ attempts'[j] = attempts[j] + 1
        /\ \A v \in Workers \ {w} : job'[v] = job[v] /\ token'[v] = token[v]
        /\ \A i \in Jobs \ {j} : attempts'[i] = attempts[i]
    BY <1>2
  <2>1. \A v \in Workers : (job[v] # 0 => token[v] \in 1..attempts[job[v]])'
    BY <2>0 DEF FreshTokens
  <2>2. ASSUME NEW v \in Workers, (job[v] # 0 /\ Holds(v))'
        PROVE  (token[v] = attempts[job[v]])'
    <3>1. CASE v = w
      BY <2>0, <3>1
    <3>2. CASE v # w /\ job[v] = j
      BY <1>2, <2>0, <2>2, <3>2 DEF Holds
    <3>3. CASE v # w /\ job[v] # j
      BY <1>2, <2>0, <2>2, <3>3 DEF Holds, FreshTokens
    <3> QED BY <3>1, <3>2, <3>3
  <2>3. \A u, v \in Workers :
          (job[u] # 0 /\ job[u] = job[v] /\ token[u] = token[v] => u = v)'
    BY <2>0 DEF FreshTokens
  <2> QED BY <2>1, <2>2, <2>3 DEF FreshTokens
<1> QED BY <1>1, <1>2, StepShape

LEMMA SpentNext ==
  ASSUME TypeOK, ProcInv, SpentInv, [Next]_vars
  PROVE  SpentInv'
<1> USE QueueConstants DEF TypeOK, SpentInv, DeadOnlyWhenSpent, Busy
<1>1. CASE Enqueue
  BY <1>1 DEF Enqueue, procs
<1>2. CASE Tick
  BY <1>2 DEF Tick, procs
<1>3. ASSUME NEW w \in Workers, NEW j \in Jobs, Take(w, j), phase[w] = "idle"
      PROVE  SpentInv'
  BY <1>3 DEF Take, ProcInv
<1>4. ASSUME NEW w \in Workers, Claim(w) PROVE SpentInv'
  <2> PICK j \in Candidates(w) : Take(w, j)
    BY <1>4 DEF Claim
  <2> j \in Jobs
    BY DEF Candidates
  <2> QED BY <1>3, <1>4 DEF Claim
<1>5. ASSUME NEW w \in Workers, NEW j \in Jobs, ClaimById(w, j) PROVE SpentInv'
  BY <1>3, <1>5 DEF ClaimById
<1>6. ASSUME NEW w \in Workers, TouchLock(w) PROVE SpentInv'
  BY <1>6 DEF TouchLock, procs
<1>7. ASSUME NEW w \in Workers, Complete(w) PROVE SpentInv'
  BY <1>7 DEF Complete, Release, ProcInv
<1>8. ASSUME NEW w \in Workers, StartReview(w) PROVE SpentInv'
  BY <1>8 DEF StartReview, rows
<1>9. ASSUME NEW w \in Workers, FailRead(w) PROVE SpentInv'
  BY <1>9 DEF FailRead, rows, OutOfAttempts
\* The row may have changed since FailRead, but its attempts only grew.
<1>10. ASSUME NEW w \in Workers, FailWrite(w) PROVE SpentInv'
  BY <1>10 DEF FailWrite, Release, ProcInv
<1>11. ASSUME NEW w \in Workers, Abandon(w) PROVE SpentInv'
  BY <1>11 DEF Abandon, rows
<1>12. ASSUME NEW w \in Workers, Crash(w) PROVE SpentInv'
  BY <1>12 DEF Crash, rows
<1>13. ASSUME NEW w \in Workers, StartupReclaim(w) PROVE SpentInv'
  BY <1>13 DEF StartupReclaim
<1>14. ASSUME NEW w \in Workers, StartupReclaimFails(w) PROVE SpentInv'
  BY <1>14 DEF StartupReclaimFails, rows
<1>15. CASE UNCHANGED vars
  BY <1>15 DEF vars
<1>16. ASSUME NEW w \in Workers, CompleteUnheard(w) PROVE SpentInv'
  BY <1>16 DEF CompleteUnheard, Release, ProcInv
<1> QED
  BY <1>1, <1>2, <1>4, <1>5, <1>6, <1>7, <1>8, <1>9, <1>10, <1>11, <1>12, <1>13,
     <1>14, <1>15, <1>16 DEF Next

\* Exactly the first `enqueued` rows exist, and only they are executed.
RowsInv ==
  /\ \A j \in Jobs : status[j] = "absent" <=> j > enqueued
  /\ \A w \in Workers : job[w] =< enqueued

LEMMA RowsNext ==
  ASSUME TypeOK, ProcInv, RowsInv, [Next]_vars
  PROVE  RowsInv'
<1> USE QueueConstants DEF TypeOK, RowsInv, Busy, Jobs
<1>1. CASE Enqueue
  <2>1. enqueued \in Nat /\ enqueued' = enqueued + 1 /\ job' = job
    BY <1>1 DEF Enqueue, procs
  <2>2. \A j \in Jobs : status'[j] = IF j = enqueued + 1 THEN "pending" ELSE status[j]
    BY <1>1 DEF Enqueue
  <2>3. \A j \in Jobs : (status[j] = "absent" <=> j > enqueued)'
    BY <2>1, <2>2
  <2>4. ASSUME NEW w \in Workers PROVE (job[w] =< enqueued)'
    <3>1. job[w] \in Nat /\ job[w] =< enqueued
      OBVIOUS
    <3> QED BY <2>1, <3>1
  <2> QED BY <2>3, <2>4
<1>2. CASE Tick
  BY <1>2 DEF Tick, procs
<1>3. ASSUME NEW w \in Workers, NEW j \in Jobs, Claiming(w, j) PROVE RowsInv'
  <2>1. status[j] # "absent" /\ j =< enqueued
    BY <1>3 DEF Claiming, Claimable, Expired
  <2>2. /\ enqueued' = enqueued
        /\ \A i \in Jobs : status'[i] = IF i = j THEN "running" ELSE status[i]
        /\ \A v \in Workers : job'[v] = IF v = w THEN j ELSE job[v]
    BY <1>3 DEF Claiming, Take
  <2> QED BY <2>1, <2>2
<1>4. ASSUME NEW w \in Workers, Claim(w) PROVE RowsInv'
  <2> PICK j \in Candidates(w) : Take(w, j)
    BY <1>4 DEF Claim
  <2> j \in Jobs /\ Claimable(j)
    BY DEF Candidates
  <2> QED BY <1>3, <1>4 DEF Claim, Claiming, ProcInv
<1>5. ASSUME NEW w \in Workers, NEW j \in Jobs, ClaimById(w, j) PROVE RowsInv'
  BY <1>3, <1>5 DEF ClaimById, Claiming, ProcInv
<1>6. ASSUME NEW w \in Workers, TouchLock(w) PROVE RowsInv'
  BY <1>6 DEF TouchLock, procs
<1>7. ASSUME NEW w \in Workers, Complete(w) PROVE RowsInv'
  BY <1>7 DEF Complete, Release, ProcInv
<1>8. ASSUME NEW w \in Workers, StartReview(w) PROVE RowsInv'
  BY <1>8 DEF StartReview, rows
<1>9. ASSUME NEW w \in Workers, FailRead(w) PROVE RowsInv'
  BY <1>9 DEF FailRead, rows
<1>10. ASSUME NEW w \in Workers, FailWrite(w) PROVE RowsInv'
  <2>1. job[w] \in Jobs /\ status[job[w]] # "absent"
    BY <1>10 DEF FailWrite, ProcInv
  <2>2. /\ enqueued' = enqueued
        /\ \A v \in Workers : job'[v] = job[v] \/ job'[v] = 0
    BY <1>10 DEF FailWrite
  <2>3. \A i \in Jobs : i # job[w] => status'[i] = status[i]
    BY <1>10 DEF FailWrite, Release
  <2>4. status'[job[w]] \in {"dead", "pending"}
    BY <1>10, <2>1 DEF FailWrite, Release
  <2>5. \A i \in Jobs : (status[i] = "absent" <=> i > enqueued)'
    BY <2>1, <2>2, <2>3, <2>4
  <2>6. ASSUME NEW v \in Workers PROVE (job[v] =< enqueued)'
    <3>1. job'[v] = job[v] \/ job'[v] = 0
      BY <2>2
    <3>2. enqueued' = enqueued /\ job[v] =< enqueued /\ 0 =< enqueued
      BY <2>2
    <3> QED BY <3>1, <3>2
  <2> QED BY <2>5, <2>6
<1>11. ASSUME NEW w \in Workers, Abandon(w) PROVE RowsInv'
  BY <1>11 DEF Abandon, rows
<1>12. ASSUME NEW w \in Workers, Crash(w) PROVE RowsInv'
  BY <1>12 DEF Crash, rows
<1>13. ASSUME NEW w \in Workers, StartupReclaim(w) PROVE RowsInv'
  BY <1>13 DEF StartupReclaim, Expired
<1>14. ASSUME NEW w \in Workers, StartupReclaimFails(w) PROVE RowsInv'
  BY <1>14 DEF StartupReclaimFails, rows
<1>15. CASE UNCHANGED vars
  BY <1>15 DEF vars
<1>16. ASSUME NEW w \in Workers, CompleteUnheard(w) PROVE RowsInv'
  BY <1>16 DEF CompleteUnheard, Release, ProcInv
<1> QED
  BY <1>1, <1>2, <1>4, <1>5, <1>6, <1>7, <1>8, <1>9, <1>10, <1>11, <1>12, <1>13,
     <1>14, <1>15, <1>16 DEF Next

QueueInv == TypeOK /\ ProcInv /\ RowsInv /\ FreshTokens /\ SpentInv

THEOREM QueueInvariant == Spec => []QueueInv
<1>1. Init => QueueInv
  BY TypeInit DEF Init, QueueInv, ProcInv, Busy, RowsInv, Jobs, FreshTokens, SpentInv,
     DeadOnlyWhenSpent
<1>2. QueueInv /\ [Next]_vars => QueueInv'
  BY TypeNext, ProcNext, RowsNext, TokensNext, SpentNext DEF QueueInv
<1> QED BY <1>1, <1>2, PTL DEF Spec

\* `attempts` fences: whatever the timing, executions of one job never share a
\* token, and the current lock holder has the newest one.
THEOREM TokensAreFresh == Spec => []FreshTokens
<1>1. QueueInv => FreshTokens
  BY DEF QueueInv
<1> QED BY <1>1, QueueInvariant, PTL

\* Whatever the interleaving of the two statements of PgJobQueue.fail with
\* other workers, a job is dead only after MaxAttempts claims.
THEOREM DeadIsSpent == Spec => []DeadOnlyWhenSpent
<1>1. QueueInv => DeadOnlyWhenSpent
  BY DEF QueueInv, SpentInv
<1> QED BY <1>1, QueueInvariant, PTL

(***************************************************************************)
(* Exclusive execution: the lease outlives the longest silence.            *)
(***************************************************************************)
\* OwnerExecutes, strengthened by the age that the lock of a live worker has.
LeaseInv ==
  /\ OwnerExecutes
  /\ \A w \in Workers : job[w] # 0 => lockAge[job[w]] =< Deadline(w)

ExclInv == TypeOK /\ ProcInv /\ RowsInv /\ LeaseInv

\* What nobody executes may be claimed, and what is executed may not.
LEMMA ClaimableIsFree ==
  ASSUME Timely, ExclInv, NEW j \in Jobs, Claimable(j) \/ Expired(j, StartupLease)
  PROVE  \A w \in Workers : job[w] # j
<1> SUFFICES ASSUME NEW w \in Workers, job[w] = j PROVE FALSE
  OBVIOUS
<1>1. j # 0 /\ status[j] = "running" /\ lockAge[j] \in Nat /\ lockAge[j] =< Deadline(w)
  BY AgeCapNat DEF ExclInv, TypeOK, LeaseInv, OwnerExecutes, Holds, Jobs
<1>2. lockAge[j] =< Lease /\ lockAge[j] =< StartupLease
  BY <1>1, QueueConstants DEF Timely, Deadline
<1> QED BY <1>1, <1>2, QueueConstants DEF Claimable, Expired

LEMMA OwnersDiffer ==
  ASSUME ExclInv PROVE ExclusiveExecution
<1> SUFFICES ASSUME NEW v \in Workers, NEW w \in Workers, job[v] # 0, job[v] = job[w]
             PROVE  v = w
  BY DEF ExclusiveExecution
<1>1. lockedBy[job[v]] = v /\ lockedBy[job[w]] = w
  BY DEF ExclInv, LeaseInv, OwnerExecutes, Holds
<1> QED BY <1>1

LEMMA LeaseNext ==
  ASSUME Timely, ExclInv, [Next]_vars
  PROVE  LeaseInv'
<1> USE QueueConstants DEF ExclInv, TypeOK, ProcInv, LeaseInv, OwnerExecutes, Holds, Busy
<1>0. ExclusiveExecution
  BY OwnersDiffer
<1>1. CASE Enqueue
  BY <1>1 DEF Enqueue, procs, Deadline, RowsInv, Jobs
<1>2. CASE Tick
  <2>1. \A w \in Workers : Punctual(w)
    BY <1>2 DEF Tick, Timely
  <2>2. ASSUME NEW w \in Workers, job'[w] # 0
        PROVE  (lockAge[job[w]] =< Deadline(w))'
    BY <1>2, <2>1, <2>2 DEF Tick, procs, Punctual, Deadline, Jobs
  <2> QED BY <1>2, <2>2 DEF Tick, procs
<1>3. ASSUME NEW w \in Workers, NEW j \in Jobs, Claimable(j), Take(w, j) PROVE LeaseInv'
  <2>1. \A v \in Workers : job[v] # j
    BY <1>3, ClaimableIsFree
  <2> QED BY <1>3, <2>1 DEF Take, Deadline
<1>4. ASSUME NEW w \in Workers, Claim(w) PROVE LeaseInv'
  <2> PICK j \in Candidates(w) : Take(w, j)
    BY <1>4 DEF Claim
  <2> j \in Jobs /\ Claimable(j)
    BY DEF Candidates
  <2> QED BY <1>3
<1>5. ASSUME NEW w \in Workers, NEW j \in Jobs, ClaimById(w, j) PROVE LeaseInv'
  BY <1>3, <1>5 DEF ClaimById
<1>6. ASSUME NEW w \in Workers, TouchLock(w) PROVE LeaseInv'
  BY <1>6 DEF TouchLock, procs, Deadline
<1>7. ASSUME NEW w \in Workers, Complete(w) PROVE LeaseInv'
  BY <1>0, <1>7 DEF Complete, Release, ExclusiveExecution, Deadline
<1>8. ASSUME NEW w \in Workers, StartReview(w) PROVE LeaseInv'
  BY <1>8 DEF StartReview, rows, Deadline
<1>9. ASSUME NEW w \in Workers, FailRead(w) PROVE LeaseInv'
  BY <1>9 DEF FailRead, rows, Deadline
<1>10. ASSUME NEW w \in Workers, FailWrite(w) PROVE LeaseInv'
  BY <1>0, <1>10 DEF FailWrite, Release, ExclusiveExecution, Deadline
<1>11. ASSUME NEW w \in Workers, Abandon(w) PROVE LeaseInv'
  BY <1>11 DEF Abandon, rows, Deadline
<1>12. ASSUME NEW w \in Workers, Crash(w) PROVE LeaseInv'
  BY <1>12 DEF Crash, rows, Deadline
<1>13. ASSUME NEW w \in Workers, StartupReclaim(w) PROVE LeaseInv'
  <2>1. \A v \in Workers : job[v] # 0 => ~Expired(job[v], StartupLease)
    BY ClaimableIsFree
  <2> QED BY <1>13, <2>1 DEF StartupReclaim, Deadline
<1>14. ASSUME NEW w \in Workers, StartupReclaimFails(w) PROVE LeaseInv'
  BY <1>14 DEF StartupReclaimFails, rows, Deadline
<1>15. CASE UNCHANGED vars
  BY <1>15 DEF vars, Deadline
<1>16. ASSUME NEW w \in Workers, CompleteUnheard(w) PROVE FALSE
  BY <1>16 DEF CompleteUnheard, Timely
<1> QED
  BY <1>1, <1>2, <1>4, <1>5, <1>6, <1>7, <1>8, <1>9, <1>10, <1>11, <1>12, <1>13,
     <1>14, <1>15, <1>16 DEF Next

THEOREM ExclusiveInvariant == ASSUME Timely PROVE Spec => []ExclInv
<1>1. Init => ExclInv
  BY TypeInit DEF Init, ExclInv, ProcInv, Busy, RowsInv, Jobs, LeaseInv, OwnerExecutes
<1>2. ExclInv /\ [Next]_vars => ExclInv'
  BY TypeNext, ProcNext, RowsNext, LeaseNext DEF ExclInv
<1> QED BY <1>1, <1>2, PTL DEF Spec

\* A live worker always holds the lock of the job it executes.
THEOREM OwnersExecute == ASSUME Timely PROVE Spec => []OwnerExecutes
<1>1. ExclInv => OwnerExecutes
  BY DEF ExclInv, LeaseInv
<1> QED BY <1>1, ExclusiveInvariant, PTL

\* No job is executed twice at a time.
THEOREM ExecutionIsExclusive == ASSUME Timely PROVE Spec => []ExclusiveExecution
<1> QED BY OwnersDiffer, ExclusiveInvariant, PTL

\* A worker that goes on with its job keeps the row's lock.
THEOREM LockIsKept == ASSUME Timely PROVE Spec => LockKept
<1>1. ExclInv /\ ExclInv'
        => \A w \in Workers :
             job[w] # 0 /\ lockedBy[job[w]] = w /\ job'[w] = job[w]
               => lockedBy'[job[w]] = w
  BY DEF ExclInv, LeaseInv, OwnerExecutes, Holds
<1> QED BY <1>1, ExclusiveInvariant, PTL DEF LockKept

\* A completed job is never handed out again.
THEOREM CompletedStays == ASSUME Timely PROVE Spec => CompletedIsFinal
<1>1. ASSUME ExclInv, [Next]_vars, NEW j \in Jobs, status[j] = "completed"
      PROVE  status'[j] = "completed"
  <2> USE QueueConstants DEF ExclInv, TypeOK
  <2>0. ASSUME NEW w \in Workers, job[w] = j PROVE FALSE
    <3>1. j # 0
      BY DEF Jobs
    <3> QED BY <1>1, <2>0, <3>1 DEF LeaseInv, OwnerExecutes, Holds
  <2>1. CASE Enqueue
    BY <1>1, <2>1 DEF Enqueue, RowsInv, Jobs
  <2>2. CASE \E w \in Workers, i \in Jobs : Claiming(w, i)
    BY <1>1, <2>2 DEF Claiming, Take, Claimable, Expired
  <2>3. ASSUME NEW w \in Workers, Complete(w) \/ FailWrite(w)
        PROVE  status'[j] = "completed"
    <3>1. job[w] # j
      BY <2>0
    <3>2. PICK s \in Statuses : status' = [status EXCEPT ![job[w]] = s]
      BY <2>3 DEF Complete, FailWrite, Release, Statuses
    <3> QED BY <1>1, <3>1, <3>2
  <2>4. ASSUME NEW w \in Workers, Claim(w) PROVE status'[j] = "completed"
    <3> PICK i \in Candidates(w) : Take(w, i)
      BY <2>4 DEF Claim
    <3> i \in Jobs /\ Claimable(i)
      BY DEF Candidates
    <3> QED BY <1>1, <2>2, <2>4 DEF Claim, Claiming, ProcInv, Busy
  <2>5. ASSUME NEW w \in Workers, NEW i \in Jobs, ClaimById(w, i)
        PROVE  status'[j] = "completed"
    BY <1>1, <2>2, <2>5 DEF ClaimById, Claiming, ProcInv, Busy
  <2>6. ASSUME NEW w \in Workers, StartupReclaim(w) PROVE status'[j] = "completed"
    <3>1. ~Expired(j, StartupLease)
      BY <1>1 DEF Expired
    <3> QED BY <1>1, <2>6, <3>1 DEF StartupReclaim
  <2>7. CASE UNCHANGED status
    BY <1>1, <2>7
  <2>8. ASSUME \/ Tick \/ UNCHANGED vars
               \/ \E w \in Workers : \/ TouchLock(w) \/ StartReview(w) \/ FailRead(w)
                                     \/ Abandon(w) \/ Crash(w) \/ StartupReclaimFails(w)
        PROVE  UNCHANGED status
    BY <2>8 DEF vars, Tick, TouchLock, StartReview, FailRead, Abandon, Crash,
                StartupReclaimFails, rows
  <2>9. ASSUME NEW w \in Workers, CompleteUnheard(w) PROVE FALSE
    BY <2>9 DEF CompleteUnheard, Timely
  <2> QED
    BY <1>1, <2>1, <2>3, <2>4, <2>5, <2>6, <2>7, <2>8, <2>9 DEF Next
<1>2. ExclInv /\ [Next]_vars
        => \A j \in Jobs : status[j] = "completed" => status'[j] = "completed"
  BY <1>1
<1> QED BY <1>2, ExclusiveInvariant, PTL DEF CompletedIsFinal, Spec

(***************************************************************************)
(* JobQueue implements ExclusiveQueue.                                     *)
(***************************************************************************)
\* Under the invariant the holder of a job is the worker that executes it.
HolderIsExecutor ==
  \A j \in Jobs :
    /\ HolderOf(j) \in Workers \cup {None}
    /\ \A w \in Workers : HolderOf(j) = w <=> job[w] = j

LEMMA HolderExecutes == ExclInv => HolderIsExecutor
<1> SUFFICES ASSUME ExclInv, NEW j \in Jobs
             PROVE  /\ HolderOf(j) \in Workers \cup {None}
                    /\ \A w \in Workers : HolderOf(j) = w <=> job[w] = j
  BY DEF HolderIsExecutor
<1>1. j # 0 /\ None \notin Workers
  BY QueueConstants DEF Jobs
<1>2. \A w \in Workers : job[w] = j => lockedBy[j] = w
  BY <1>1 DEF ExclInv, LeaseInv, OwnerExecutes, Holds
<1>3. lockedBy[j] \in Workers \cup {None}
  BY DEF ExclInv, TypeOK
<1> QED BY <1>1, <1>2, <1>3 DEF HolderOf

LEMMA HolderExecutesNext == ExclInv' => HolderIsExecutor'
BY HolderExecutes, PTL

\* The abstract holder of a job changes only with the workers that execute it.
LEMMA HolderSame ==
  ASSUME HolderIsExecutor, HolderIsExecutor', NEW j \in Jobs,
         \A w \in Workers : job'[w] = j <=> job[w] = j
  PROVE  HolderOf(j)' = HolderOf(j)
BY QueueConstants DEF HolderIsExecutor

LEMMA HolderGone ==
  ASSUME HolderIsExecutor, NEW j \in Jobs, \A w \in Workers : job[w] # j
  PROVE  HolderOf(j) = None
BY DEF HolderIsExecutor

LEMMA HolderGoneNext ==
  ASSUME HolderIsExecutor', NEW j \in Jobs, \A w \in Workers : job'[w] # j
  PROVE  HolderOf(j)' = None
BY DEF HolderIsExecutor

Holder == [j \in Jobs |-> HolderOf(j)]

LEMMA StepRefines ==
  ASSUME Timely, ExclInv, HolderIsExecutor, HolderIsExecutor', Next
  PROVE  Exclusive!Next \/ UNCHANGED <<status, Holder>>
<1> USE QueueConstants DEF ExclInv, TypeOK, Holder
<1>0. 0 \notin Jobs /\ ExclusiveExecution
  BY OwnersDiffer DEF Jobs
<1>1. ASSUME job' = job PROVE Holder' = Holder
  BY <1>1, HolderSame
<1>2. CASE Enqueue
  <2>1. enqueued + 1 \in Jobs /\ status[enqueued + 1] = "absent"
    BY <1>2 DEF Enqueue, RowsInv, Jobs
  <2>2. Holder' = Holder
    BY <1>1, <1>2 DEF Enqueue, procs
  <2>3. Exclusive!Add(enqueued + 1)
    BY <1>2, <2>1, <2>2 DEF Enqueue, Exclusive!Add
  <2> QED BY <2>1, <2>3 DEF Exclusive!Next
<1>3. ASSUME NEW w \in Workers, NEW j \in Jobs, Claimable(j), job[w] = 0, Take(w, j)
      PROVE  Exclusive!Grant(w, j)
  <2>1. \A v \in Workers : job[v] # j
    BY <1>3, ClaimableIsFree
  <2>2. status[j] = "pending" \/ (status[j] = "running" /\ Holder[j] = None)
    BY <1>3, <2>1, HolderGone DEF Claimable, Expired
  <2>3. \A i \in Jobs : Holder[i] # w
    BY <1>0, <1>3 DEF HolderIsExecutor
  <2>4. job' = [job EXCEPT ![w] = j] /\ status' = [status EXCEPT ![j] = "running"]
    BY <1>3 DEF Take
  <2>5. HolderOf(j)' = w
    BY <2>4 DEF HolderIsExecutor
  <2>6. \A i \in Jobs \ {j} : HolderOf(i)' = HolderOf(i)
    BY <1>0, <1>3, <2>4, HolderSame
  <2>7. Holder' = [Holder EXCEPT ![j] = w]
    BY <2>5, <2>6
  <2> QED
    BY <2>2, <2>3, <2>4, <2>7 DEF Exclusive!Grant, Exclusive!Orphan
<1>4. ASSUME NEW w \in Workers, Claim(w) PROVE Exclusive!Next
  <2> PICK j \in Candidates(w) : Take(w, j)
    BY <1>4 DEF Claim
  <2> j \in Jobs /\ Claimable(j) /\ job[w] = 0
    BY <1>4 DEF Candidates, Claim, ProcInv, Busy
  <2> QED BY <1>3 DEF Exclusive!Next
<1>5. ASSUME NEW w \in Workers, NEW j \in Jobs, ClaimById(w, j) PROVE Exclusive!Next
  <2> job[w] = 0 /\ Claimable(j)
    BY <1>5 DEF ClaimById, ProcInv, Busy
  <2> QED BY <1>3, <1>5 DEF ClaimById, Exclusive!Next
\* A worker lets go of its job: nobody holds it, the other holders stay.
<1>6. ASSUME NEW w \in Workers, NEW j \in Jobs, job[w] = j, job' = [job EXCEPT ![w] = 0]
      PROVE  Holder[j] = w /\ Holder' = [Holder EXCEPT ![j] = None]
  <2>1. HolderOf(j) = w
    BY <1>6 DEF HolderIsExecutor
  <2>2. \A v \in Workers : job'[v] # j
    BY <1>0, <1>6 DEF ExclusiveExecution
  <2>3. HolderOf(j)' = None
    BY <2>2, HolderGoneNext
  <2>4. \A i \in Jobs \ {j} : HolderOf(i)' = HolderOf(i)
    BY <1>0, <1>6, HolderSame
  <2> QED BY <2>1, <2>3, <2>4
<1>7. ASSUME NEW w \in Workers, NEW s \in {"pending", "completed", "dead"},
             phase[w] \in Busy, Release(job[w], s), job' = [job EXCEPT ![w] = 0]
      PROVE  Exclusive!Next
  <2>1. job[w] \in Jobs
    BY <1>7 DEF ProcInv
  <2>2. Exclusive!Settle(w, job[w])
    BY <1>6, <1>7, <2>1 DEF Release, Exclusive!Settle
  <2> QED BY <2>1, <2>2 DEF Exclusive!Next
<1>8. ASSUME NEW w \in Workers, Complete(w) PROVE Exclusive!Next
  BY <1>7, <1>8 DEF Complete, Busy
<1>9. ASSUME NEW w \in Workers, FailWrite(w) PROVE Exclusive!Next
  BY <1>7, <1>9 DEF FailWrite, Busy
<1>10. ASSUME NEW w \in Workers, Abandon(w) \/ Crash(w)
       PROVE  Exclusive!Next \/ UNCHANGED <<status, Holder>>
  <2>1. job' = [job EXCEPT ![w] = 0] /\ UNCHANGED status
    BY <1>10 DEF Abandon, Crash, rows
  <2>2. CASE job[w] = 0
    BY <1>1, <2>1, <2>2
  <2>3. CASE job[w] # 0
    <3>1. job[w] \in Jobs
      BY <2>3
    <3>2. Exclusive!Vanish(w, job[w])
      BY <1>6, <2>1, <3>1 DEF Exclusive!Vanish
    <3> QED BY <3>1, <3>2 DEF Exclusive!Next
  <2> QED BY <2>2, <2>3
<1>11. ASSUME NEW w \in Workers, StartupReclaim(w) PROVE Exclusive!Next
  <2> DEFINE stale == {j \in Jobs : Expired(j, StartupLease)}
  <2>1. stale \in SUBSET {j \in Jobs : Exclusive!Orphan(j)}
    <3>1. \A j \in stale : Holder[j] = None
      BY ClaimableIsFree, HolderGone
    <3> QED BY <3>1 DEF Exclusive!Orphan, Expired
  <2>2. status' = [j \in Jobs |-> IF j \in stale THEN "pending" ELSE status[j]]
    BY <1>11 DEF StartupReclaim
  <2>3. Holder' = Holder
    BY <1>1, <1>11 DEF StartupReclaim
  <2> QED BY <2>1, <2>2, <2>3 DEF Exclusive!Next, Exclusive!Recover
<1>12. ASSUME \/ Tick
              \/ \E w \in Workers : \/ TouchLock(w) \/ StartReview(w) \/ FailRead(w)
                                    \/ StartupReclaimFails(w)
       PROVE  UNCHANGED <<status, Holder>>
  <2>1. job' = job /\ status' = status
    BY <1>12 DEF Tick, TouchLock, StartReview, FailRead, StartupReclaimFails, procs, rows
  <2> QED BY <1>1, <2>1
<1>13. ASSUME NEW w \in Workers, CompleteUnheard(w) PROVE FALSE
  BY <1>13 DEF CompleteUnheard, Timely
<1> QED
  BY <1>2, <1>4, <1>5, <1>8, <1>9, <1>10, <1>11, <1>12, <1>13 DEF Next

\* With punctual workers, JobQueue implements ExclusiveQueue: leases, heartbeats
\* and the unguarded `complete` and `fail` together keep a job with one worker,
\* and what is completed or dead stays so.
THEOREM ImplementsExclusiveQueue == ASSUME Timely PROVE Spec => ExclusiveSpec
<1>1. Init => Exclusive!Init
  BY DEF Init, Exclusive!Init, HolderOf
<1>2. ExclInv /\ ExclInv' /\ [Next]_vars
        => [Exclusive!Next]_<<status, [j \in Jobs |-> HolderOf(j)]>>
  <2> SUFFICES ASSUME ExclInv, ExclInv', [Next]_vars
               PROVE  Exclusive!Next \/ UNCHANGED <<status, Holder>>
    BY DEF Holder
  <2>1. CASE Next
    BY <2>1, HolderExecutes, HolderExecutesNext, StepRefines
  <2>2. CASE UNCHANGED vars
    BY <2>2 DEF vars, Holder, HolderOf
  <2> QED BY <2>1, <2>2
<1> QED BY <1>1, <1>2, ExclusiveInvariant, PTL DEF Spec, ExclusiveSpec, Exclusive!Spec

(***************************************************************************)
(* A broker in front of the queue changes nothing of this: every step of   *)
(* HybridQueue is a step of JobQueue or leaves the rows and the workers    *)
(* alone.                                                                  *)
(***************************************************************************)
HandInv == hand \in [Workers -> Jobs \cup {0}]

\* A message in hand names a row.
LEMMA HandNext == HandInv /\ [HNext]_hvars => HandInv'
<1> SUFFICES ASSUME HandInv, [HNext]_hvars PROVE HandInv'
  OBVIOUS
<1> USE DEF HandInv
<1>1. CASE UNCHANGED hand
  BY <1>1
<1>2. ASSUME NEW w \in Workers, NEW j \in Jobs, Consume(w, j) PROVE HandInv'
  BY <1>2 DEF Consume
<1>3. ASSUME NEW w \in Workers, ClaimMsg(w) \/ DropMsg(w) \/ MsgError(w) \/ HCrash(w)
      PROVE  HandInv'
  BY <1>3 DEF ClaimMsg, DropMsg, MsgError, HCrash
<1>4. ASSUME NEW w \in Workers, HComplete(w) \/ HFailWrite(w) \/ Poll(w)
      PROVE  UNCHANGED hand
  BY <1>4 DEF HComplete, HFailWrite, AckSettled, Poll, brokerVars
<1>5. ASSUME NEW j \in Jobs, Publish(j) \/ RepublishOne(j) PROVE UNCHANGED hand
  BY <1>5 DEF Publish, RepublishOne
<1>6. ASSUME NEW w \in Workers, NEW j \in Jobs, Redeliver(w, j) PROVE UNCHANGED hand
  BY <1>6 DEF Redeliver
<1>7. ASSUME HEnqueue \/ LoseMessages \/ Republish \/ UNCHANGED brokerVars \/ UNCHANGED hvars
      PROVE  UNCHANGED hand
  BY <1>7 DEF HEnqueue, LoseMessages, Republish, brokerVars, hvars
<1> QED
  BY <1>1, <1>2, <1>3, <1>4, <1>5, <1>6, <1>7 DEF HNext

LEMMA HybridStep == HandInv /\ [HNext]_hvars => [Next]_vars
<1> SUFFICES ASSUME HandInv, [HNext]_hvars PROVE [Next]_vars
  OBVIOUS
<1>1. CASE HEnqueue
  BY <1>1 DEF HEnqueue, Next
<1>2. CASE Tick /\ UNCHANGED brokerVars
  BY <1>2 DEF Next
<1>3. CASE LoseMessages \/ Republish
  BY <1>3 DEF LoseMessages, Republish
<1>4. ASSUME NEW j \in Jobs, Publish(j) \/ RepublishOne(j) PROVE UNCHANGED vars
  BY <1>4 DEF Publish, RepublishOne
<1>5. ASSUME NEW w \in Workers, NEW j \in Jobs, Consume(w, j) \/ Redeliver(w, j)
      PROVE  UNCHANGED vars
  BY <1>5 DEF Consume, Redeliver
<1>6. ASSUME NEW w \in Workers, DropMsg(w) \/ MsgError(w) PROVE UNCHANGED vars
  BY <1>6 DEF DropMsg, MsgError
<1>7. ASSUME NEW w \in Workers, ClaimMsg(w) PROVE Next
  <2>1. hand[w] \in Jobs
    BY <1>7 DEF ClaimMsg, HandInv
  <2> QED BY <1>7, <2>1 DEF ClaimMsg, Next
<1>8. ASSUME NEW w \in Workers, HComplete(w) \/ HFailWrite(w) \/ HCrash(w) \/ Poll(w)
      PROVE  Next
  BY <1>8 DEF HComplete, HFailWrite, HCrash, Poll, Next
<1>9. ASSUME NEW w \in Workers,
             \/ TouchLock(w) \/ CompleteUnheard(w) \/ StartReview(w) \/ FailRead(w)
             \/ Abandon(w) \/ StartupReclaim(w) \/ StartupReclaimFails(w)
      PROVE  Next
  BY <1>9 DEF Next
<1>10. CASE UNCHANGED hvars
  BY <1>10 DEF hvars
<1> QED
  BY <1>1, <1>2, <1>3, <1>4, <1>5, <1>6, <1>7, <1>8, <1>9, <1>10 DEF HNext

\* The broker is only a wake-up: HybridQueue implements JobQueue, so every
\* property of the Postgres queue holds with it, whatever messages are lost,
\* duplicated or redelivered.
THEOREM HybridImplementsJobQueue == HSpec => Spec
<1>1. HInit => Init /\ HandInv
  BY DEF HInit, HandInv
<1> QED BY <1>1, HandNext, HybridStep, PTL DEF HSpec, Spec

\* "Duplicates are safe -- workers claim in Postgres" (queue.ts:338), for every
\* number of jobs, workers and messages, when workers are punctual.
THEOREM DuplicatesAreSafe == ASSUME Timely PROVE HSpec => ExclusiveSpec
<1> QED BY HybridImplementsJobQueue, ImplementsExclusiveQueue, PTL

\* Messages, deliveries and hands stay within their types: no acknowledgement
\* takes away a delivery that a loss has already taken.
LEMMA HybridTypeNext == TypeOK /\ HybridTypeOK /\ [HNext]_hvars => HybridTypeOK'
<1> SUFFICES ASSUME TypeOK, HybridTypeOK, [HNext]_hvars PROVE HybridTypeOK'
  OBVIOUS
<1> USE DEF HybridTypeOK
<1>a. PublishBound \in Nat
  BY HybridConstants
<1>b. ASSUME NEW j \in Jobs, Send(j) \/ UNCHANGED <<wire, published>>
      PROVE  wire' \in [Jobs -> Nat] /\ published' \in 0..PublishBound
  <2>1. CASE Send(j)
    BY <2>1, <1>a DEF Send
  <2> QED BY <1>b, <2>1
<1>c. ASSUME NEW w \in Workers, NEW j \in Jobs, Ack(w, j)
      PROVE  unacked' \in [Workers -> [Jobs -> Nat]]
  <2>1. CASE unacked[w][j] > 0 /\ unacked' = [unacked EXCEPT ![w][j] = @ - 1]
    <3>1. unacked[w] \in [Jobs -> Nat] /\ unacked[w][j] \in Nat
      OBVIOUS
    <3>2. unacked[w][j] - 1 \in Nat
      BY <2>1, <3>1
    <3> QED BY <2>1, <3>1, <3>2
  <2> QED BY <1>c, <2>1 DEF Ack
<1>1. CASE HEnqueue
  <2>1. enqueued + 1 \in Jobs
    BY <1>1, QueueConstants DEF HEnqueue, Enqueue, Jobs, TypeOK
  <2> QED BY <1>1, <2>1 DEF HEnqueue
<1>2. ASSUME NEW j \in Jobs, Publish(j) \/ RepublishOne(j) PROVE HybridTypeOK'
  BY <1>2, <1>b DEF Publish, RepublishOne
<1>3. CASE LoseMessages
  BY <1>3 DEF LoseMessages
<1>4. CASE Republish
  BY <1>4 DEF Republish
<1>5. ASSUME NEW w \in Workers, NEW j \in Jobs, Consume(w, j) PROVE HybridTypeOK'
  BY <1>5 DEF Consume
<1>6. ASSUME NEW w \in Workers, NEW j \in Jobs, Redeliver(w, j) PROVE HybridTypeOK'
  BY <1>6 DEF Redeliver
<1>7. ASSUME NEW w \in Workers, ClaimMsg(w) PROVE HybridTypeOK'
  BY <1>7 DEF ClaimMsg
<1>8. ASSUME NEW w \in Workers, DropMsg(w) PROVE HybridTypeOK'
  <2>1. hand[w] \in Jobs
    BY <1>8 DEF DropMsg
  <2> QED BY <1>8, <2>1, <1>c DEF DropMsg
<1>9. ASSUME NEW w \in Workers, MsgError(w) PROVE HybridTypeOK'
  BY <1>9 DEF MsgError
<1>10. ASSUME NEW w \in Workers, AckSettled(w) PROVE HybridTypeOK'
  <2>1. job[w] \in handles[w] => job[w] \in Jobs
    OBVIOUS
  <2> QED BY <1>10, <2>1, <1>c DEF AckSettled
<1>11. ASSUME NEW w \in Workers, HComplete(w) \/ HFailWrite(w) PROVE HybridTypeOK'
  BY <1>10, <1>11 DEF HComplete, HFailWrite
<1>12. ASSUME NEW w \in Workers, HCrash(w) PROVE HybridTypeOK'
  <2>1. wire' \in [Jobs -> Nat]
    BY <1>12 DEF HCrash
  <2> QED BY <1>12, <2>1 DEF HCrash
<1>13. ASSUME UNCHANGED brokerVars PROVE HybridTypeOK'
  BY <1>13 DEF brokerVars
<1>14. ASSUME NEW w \in Workers, Poll(w) PROVE HybridTypeOK'
  BY <1>13, <1>14 DEF Poll
<1> QED
  BY <1>1, <1>2, <1>3, <1>4, <1>5, <1>6, <1>7, <1>8, <1>9, <1>11, <1>12, <1>13, <1>14
  DEF HNext, hvars

\* Type correctness of the broker queue.
THEOREM HybridTypesHold == HSpec => []HybridTypeOK
<1>1. HInit => HybridTypeOK
  BY HybridConstants DEF HInit, HybridTypeOK
<1> QED
  BY <1>1, HybridTypeNext, HybridImplementsJobQueue, TypeCorrect, PTL DEF HSpec
==============================================================================
