------------------------------ MODULE JobQueue ------------------------------
(***************************************************************************)
(* The review-job queue: the Postgres table `jobs` and the processes that  *)
(* work on it (packages/db/src/repositories/jobs.ts, PgJobQueue in         *)
(* packages/api/src/queue.ts, the loop of services/worker and of           *)
(* packages/api/src/worker-loop.ts, and the queue calls of runReviewJob    *)
(* and resumeIncompleteSessions in packages/api/src/run-job.ts).           *)
(*                                                                         *)
(* Rows are numbered in the order of their created_at; one SQL statement   *)
(* is one atomic step.  locked_at and available_at are kept relative to    *)
(* now(): lockAge[j] is now() - locked_at, delay[j] is the time until      *)
(* available_at.  A worker is a process slot: a restarted process takes    *)
(* over the slot of the one that died.  Its fresh random id makes no       *)
(* difference, because it holds no job until it claims one.                *)
(***************************************************************************)
EXTENDS Naturals

CONSTANTS
  NumJobs,         \* rows that are ever inserted
  Workers,         \* worker processes, dedicated or inline in the API
  None,            \* the SQL NULL of locked_by
  MaxAttempts,     \* jobs.max_attempts (default 5)
  ListLimit,       \* the LIMIT 200 of JobsRepository.list
  Lease,           \* STEW_JOB_LEASE_MS (default 45 min), in ticks
  StartupLease,    \* STEW_JOB_STARTUP_RECLAIM_MS (default 1 min), in ticks
  RetryDelay,      \* the 5 s of PgJobQueue.fail, in ticks
  HeartbeatEvery,  \* STEW_JOB_HEARTBEAT_MS (default 1 min), in ticks
  PrepareTime,     \* longest credential and clone phase of a job, in ticks
  Stalls,          \* TRUE: no bound on how late a live worker runs
  Serves,          \* STEW_WORKER_ORG_IDS: the jobs each worker may claim
  Broker,          \* TRUE: deliveries of a broker reach claimById
  AnswersLost,     \* TRUE: `complete` may commit and yet throw
  MaxFaults,       \* bound: crashes and unsettled returns
  AttemptBound     \* bound: claims of one row

Jobs == 1..NumJobs

ASSUME QueueConstants ==
  /\ NumJobs \in Nat
  /\ None \notin Workers
  /\ MaxAttempts \in Nat
  /\ ListLimit \in Nat
  /\ Lease \in Nat /\ StartupLease \in Nat /\ RetryDelay \in Nat
  /\ HeartbeatEvery \in Nat /\ PrepareTime \in Nat
  /\ Stalls \in BOOLEAN /\ Broker \in BOOLEAN /\ AnswersLost \in BOOLEAN
  /\ Serves \in [Workers -> SUBSET Jobs]
  /\ MaxFaults \in Nat /\ AttemptBound \in Nat

VARIABLES
  enqueued,   \* number of rows inserted so far
  status,     \* jobs.status; "absent" before the insert
  attempts,   \* jobs.attempts
  lockedBy,   \* jobs.locked_by
  lockAge,    \* now() - jobs.locked_at, 0 when not locked
  delay,      \* jobs.available_at - now(), 0 when past
  phase,      \* where each worker stands in its loop
  job,        \* the job each worker executes
  token,      \* the `attempts` its claim returned
  dead,       \* PgJobQueue.fail: the `dead` computed from the row it read
  faults      \* crashes and unsettled returns so far

rows == <<enqueued, status, attempts, lockedBy, lockAge, delay>>
procs == <<phase, job, token, dead, faults>>
vars == <<enqueued, status, attempts, lockedBy, lockAge, delay,
          phase, job, token, dead, faults>>

\* Phases: "boot" runs resumeIncompleteSessions; "prepare" is runReviewJob
\* before its heartbeat timer starts; "review", "unheard" (its `complete` threw
\* after the commit) and "failing" are after.
Phases == {"boot", "idle", "prepare", "review", "unheard", "failing"}
Statuses == {"absent", "pending", "running", "completed", "dead"}
AgeCap == (IF Lease > StartupLease THEN Lease ELSE StartupLease) + 1

TypeOK ==
  /\ enqueued \in 0..NumJobs
  /\ status \in [Jobs -> Statuses]
  /\ attempts \in [Jobs -> Nat]
  /\ lockedBy \in [Jobs -> Workers \cup {None}]
  /\ lockAge \in [Jobs -> 0..AgeCap]
  /\ delay \in [Jobs -> Nat]
  /\ phase \in [Workers -> Phases]
  /\ job \in [Workers -> Jobs \cup {0}]
  /\ token \in [Workers -> Nat]
  /\ dead \in [Workers -> BOOLEAN]
  /\ faults \in 0..MaxFaults

Init ==
  /\ enqueued = 0
  /\ status = [j \in Jobs |-> "absent"]
  /\ attempts = [j \in Jobs |-> 0]
  /\ lockedBy = [j \in Jobs |-> None]
  /\ lockAge = [j \in Jobs |-> 0]
  /\ delay = [j \in Jobs |-> 0]
  /\ phase = [w \in Workers |-> "boot"]
  /\ job = [w \in Workers |-> 0]
  /\ token = [w \in Workers |-> 0]
  /\ dead = [w \in Workers |-> FALSE]
  /\ faults = 0

(***************************************************************************)
(* Conditions of the SQL statements.  A Slip_ operator is a plausible bug   *)
(* in the definition after it: the properties are tried against it.         *)
(***************************************************************************)
Slip_ExpiredIgnoresLease(j, lease) == status[j] = "running"
Slip_ExpiredAtLease(j, lease) == status[j] = "running" /\ lockAge[j] >= lease
Slip_ExpiredNever(j, lease) == FALSE

\* `running`, with locked_at older than the lease.
Expired(j, lease) == status[j] = "running" /\ lockAge[j] > lease

Slip_ClaimableRunning(j) == status[j] \in {"pending", "running"}
Claimable(j) == status[j] = "pending" \/ Expired(j, Lease)

\* The WHERE of claim(): available, claimable, of an org on the allow list.
Candidates(w) == {j \in Serves[w] : delay[j] = 0 /\ Claimable(j)}

\* ORDER BY: pending rows first, then created_at.
Precedes(i, j) ==
  \/ status[i] = "pending" /\ status[j] # "pending"
  \/ (status[i] = "pending" <=> status[j] = "pending") /\ i =< j

\* list() returns the ListLimit newest rows.
Listed(j) == j + ListLimit > enqueued

Slip_SpentEarly(j) == Listed(j) /\ attempts[j] + 1 >= MaxAttempts

\* PgJobQueue.fail: `row ? row.attempts >= row.maxAttempts : false`.
OutOfAttempts(j) == Listed(j) /\ attempts[j] >= MaxAttempts

(***************************************************************************)
(* Statements.                                                             *)
(***************************************************************************)
\* JobsRepository.enqueue.
Enqueue ==
  /\ enqueued < NumJobs
  /\ enqueued' = enqueued + 1
  /\ status' = [status EXCEPT ![enqueued + 1] = "pending"]
  /\ UNCHANGED <<attempts, lockedBy, lockAge, delay, procs>>

Slip_TakeSameAttempt(w, j) ==
  /\ status' = [status EXCEPT ![j] = "running"]
  /\ lockedBy' = [lockedBy EXCEPT ![j] = w]
  /\ lockAge' = [lockAge EXCEPT ![j] = 0]
  /\ phase' = [phase EXCEPT ![w] = "prepare"]
  /\ job' = [job EXCEPT ![w] = j]
  /\ token' = [token EXCEPT ![w] = attempts[j]]
  /\ UNCHANGED <<enqueued, attempts, delay, dead, faults>>

\* The SET clause shared by claim and claimById, and the job handed to the loop.
Take(w, j) ==
  /\ attempts[j] < AttemptBound
  /\ status' = [status EXCEPT ![j] = "running"]
  /\ attempts' = [attempts EXCEPT ![j] = @ + 1]
  /\ lockedBy' = [lockedBy EXCEPT ![j] = w]
  /\ lockAge' = [lockAge EXCEPT ![j] = 0]
  /\ phase' = [phase EXCEPT ![w] = "prepare"]
  /\ job' = [job EXCEPT ![w] = j]
  /\ token' = [token EXCEPT ![w] = attempts[j] + 1]
  /\ UNCHANGED <<enqueued, delay, dead, faults>>

\* JobsRepository.claim, called by an idle loop.
Claim(w) ==
  /\ phase[w] = "idle"
  /\ \E j \in Candidates(w) :
       /\ \A i \in Candidates(w) : Precedes(j, i)
       /\ Take(w, j)

\* JobsRepository.claimById: no available_at, no allow list.
ClaimById(w, j) ==
  /\ Broker
  /\ phase[w] = "idle"
  /\ Claimable(j)
  /\ Take(w, j)

\* The WHERE of touchLock.
Holds(w) == status[job[w]] = "running" /\ lockedBy[job[w]] = w

\* JobsRepository.touchLock, sent by the timer that runReviewJob sets around
\* the review; an answer that is lost or late is a tick without this step.
TouchLock(w) ==
  /\ phase[w] \in {"review", "unheard", "failing"}
  /\ Holds(w)
  /\ lockAge' = [lockAge EXCEPT ![job[w]] = 0]
  /\ UNCHANGED <<enqueued, status, attempts, lockedBy, delay, procs>>

Slip_ReleaseFailed(j, s) ==
  /\ status' = [status EXCEPT ![j] = "failed"]
  /\ lockedBy' = [lockedBy EXCEPT ![j] = None]
  /\ lockAge' = [lockAge EXCEPT ![j] = 0]

\* A settled row loses its lock; neither statement looks at who holds it.
Release(j, s) ==
  /\ status' = [status EXCEPT ![j] = s]
  /\ lockedBy' = [lockedBy EXCEPT ![j] = None]
  /\ lockAge' = [lockAge EXCEPT ![j] = 0]

\* JobsRepository.complete: workspace preparation failed, a post-merge job
\* ended, or the review ended.
Complete(w) ==
  /\ phase[w] \in {"prepare", "review"}
  /\ Release(job[w], "completed")
  /\ phase' = [phase EXCEPT ![w] = "idle"]
  /\ job' = [job EXCEPT ![w] = 0]
  /\ UNCHANGED <<enqueued, attempts, delay, token, dead, faults>>

\* The same after a review, committed, but the connection breaks before the
\* answer: the catch block of runReviewJob goes on to `fail` the job.
CompleteUnheard(w) ==
  /\ AnswersLost
  /\ phase[w] = "review"
  /\ faults < MaxFaults
  /\ faults' = faults + 1
  /\ Release(job[w], "completed")
  /\ phase' = [phase EXCEPT ![w] = "unheard"]
  /\ UNCHANGED <<enqueued, attempts, delay, job, token, dead>>

\* The workspace is ready: the heartbeat timer and orch.run start.
StartReview(w) ==
  /\ phase[w] = "prepare"
  /\ phase' = [phase EXCEPT ![w] = "review"]
  /\ UNCHANGED <<rows, job, token, dead, faults>>

\* PgJobQueue.fail, first statement: list() and the decision made from it.
FailRead(w) ==
  /\ phase[w] \in {"review", "unheard"}
  /\ phase' = [phase EXCEPT ![w] = "failing"]
  /\ dead' = [dead EXCEPT ![w] = OutOfAttempts(job[w])]
  /\ UNCHANGED <<rows, job, token, faults>>

\* PgJobQueue.fail, second statement: JobsRepository.fail.
FailWrite(w) ==
  /\ phase[w] = "failing"
  /\ Release(job[w], IF dead[w] THEN "dead" ELSE "pending")
  /\ delay' = [delay EXCEPT ![job[w]] = RetryDelay]
  /\ phase' = [phase EXCEPT ![w] = "idle"]
  /\ job' = [job EXCEPT ![w] = 0]
  /\ dead' = [dead EXCEPT ![w] = FALSE]
  /\ UNCHANGED <<enqueued, attempts, token, faults>>

\* The handler returns or throws and settles nothing: the session is not
\* found, a post-merge job throws, or the failure path itself throws.  After
\* Claim, this is also a claim whose answer is lost.
Abandon(w) ==
  /\ phase[w] \in {"prepare", "review", "unheard", "failing"}
  /\ faults < MaxFaults
  /\ faults' = faults + 1
  /\ phase' = [phase EXCEPT ![w] = "idle"]
  /\ job' = [job EXCEPT ![w] = 0]
  /\ dead' = [dead EXCEPT ![w] = FALSE]
  /\ UNCHANGED <<rows, token>>

\* The process dies and is restarted.
Crash(w) ==
  /\ faults < MaxFaults
  /\ faults' = faults + 1
  /\ phase' = [phase EXCEPT ![w] = "boot"]
  /\ job' = [job EXCEPT ![w] = 0]
  /\ dead' = [dead EXCEPT ![w] = FALSE]
  /\ UNCHANGED <<rows, token>>

\* Start of a process: reclaimStale with the short start-up lease.
StartupReclaim(w) ==
  LET stale == {j \in Jobs : Expired(j, StartupLease)}
  IN /\ phase[w] = "boot"
     /\ status' = [j \in Jobs |-> IF j \in stale THEN "pending" ELSE status[j]]
     /\ lockedBy' = [j \in Jobs |-> IF j \in stale THEN None ELSE lockedBy[j]]
     /\ lockAge' = [j \in Jobs |-> IF j \in stale THEN 0 ELSE lockAge[j]]
     /\ delay' = [j \in Jobs |-> IF j \in stale THEN 0 ELSE delay[j]]
     /\ phase' = [phase EXCEPT ![w] = "idle"]
     /\ UNCHANGED <<enqueued, attempts, job, token, dead, faults>>

\* The same, when the statement fails: the error is logged and ignored.
StartupReclaimFails(w) ==
  /\ phase[w] = "boot"
  /\ phase' = [phase EXCEPT ![w] = "idle"]
  /\ UNCHANGED <<rows, job, token, dead, faults>>

\* How old the lock of a punctual worker gets: preparation sends no heartbeat,
\* and the first one follows HeartbeatEvery after it.
Deadline(w) == IF phase[w] = "prepare" THEN PrepareTime ELSE PrepareTime + HeartbeatEvery
Punctual(w) == (job[w] # 0 /\ Holds(w)) => lockAge[job[w]] < Deadline(w)

\* Time passes.
Tick ==
  /\ Stalls \/ \A w \in Workers : Punctual(w)
  /\ lockAge' = [j \in Jobs |->
                   IF status[j] = "running" /\ lockAge[j] < AgeCap
                     THEN lockAge[j] + 1 ELSE lockAge[j]]
  /\ delay' = [j \in Jobs |-> IF delay[j] > 0 THEN delay[j] - 1 ELSE 0]
  /\ UNCHANGED <<enqueued, status, attempts, lockedBy, procs>>

Handler(w) == Complete(w) \/ StartReview(w) \/ FailRead(w) \/ FailWrite(w)
Boot(w) == StartupReclaim(w) \/ StartupReclaimFails(w)

Next ==
  \/ Enqueue
  \/ Tick
  \/ \E w \in Workers :
       \/ Claim(w)
       \/ \E j \in Jobs : ClaimById(w, j)
       \/ TouchLock(w)
       \/ Complete(w)
       \/ CompleteUnheard(w)
       \/ StartReview(w)
       \/ FailRead(w)
       \/ FailWrite(w)
       \/ Abandon(w)
       \/ Crash(w)
       \/ StartupReclaim(w)
       \/ StartupReclaimFails(w)

Spec == Init /\ [][Next]_vars

\* The loop polls for ever and the handler of a live worker goes on; nothing
\* forces an enqueue, a heartbeat, a fault or the outcome of a review.
Fairness ==
  /\ WF_vars(Tick)
  /\ \A w \in Workers : WF_vars(Claim(w)) /\ WF_vars(Handler(w)) /\ WF_vars(Boot(w))

FairSpec == Spec /\ Fairness

(***************************************************************************)
(* The promise to the rest of the system, when the lease outlives the      *)
(* longest silence of a live worker and no answer of `complete` is lost: a *)
(* job is held by one worker at a time and only its holder settles it.     *)
(***************************************************************************)
Timely ==
  /\ ~Stalls /\ ~AnswersLost
  /\ PrepareTime + HeartbeatEvery =< Lease
  /\ PrepareTime + HeartbeatEvery =< StartupLease

\* The refinement mapping: who holds a job is the owner of its lock, unless
\* that process has meanwhile died or left the job.
HolderOf(j) ==
  IF lockedBy[j] # None /\ job[lockedBy[j]] = j THEN lockedBy[j] ELSE None

Exclusive == INSTANCE ExclusiveQueue
  WITH state <- status, holder <- [j \in Jobs |-> HolderOf(j)]
ExclusiveSpec == Exclusive!Spec

(***************************************************************************)
(* Properties.                                                             *)
(***************************************************************************)
\* Timely: no job is executed by two workers at a time (jobs.ts:95, "safe
\* multi-worker dequeue").
ExclusiveExecution ==
  \A v, w \in Workers : job[v] # 0 /\ job[v] = job[w] => v = w

\* Timely: a worker that executes a job holds the row's lock, so neither
\* `complete` nor `fail`, which do not ask who holds it, touches a foreign row.
OwnerExecutes == \A w \in Workers : job[w] # 0 => Holds(w)

\* A worker keeps the lock on its job for as long as it executes it: neither a
\* claim nor the reclaim of a starting process takes it away.
LockKept ==
  [][\A w \in Workers :
       job[w] # 0 /\ lockedBy[job[w]] = w /\ job'[w] = job[w]
         => lockedBy'[job[w]] = w]_vars

\* Timely: a completed job is never run again.
CompletedIsFinal ==
  [][\A j \in Jobs : status[j] = "completed" => status'[j] = "completed"]_vars

\* `attempts` is a fencing token, whatever the timing: two executions of one
\* job hold different tokens, and the one that still holds the lock has the
\* newest.
FreshTokens ==
  /\ \A w \in Workers : job[w] # 0 => token[w] \in 1..attempts[job[w]]
  /\ \A w \in Workers : job[w] # 0 /\ Holds(w) => token[w] = attempts[job[w]]
  /\ \A v, w \in Workers :
       job[v] # 0 /\ job[v] = job[w] /\ token[v] = token[w] => v = w

\* A job is declared dead only after MaxAttempts claims, although `fail`
\* decides on a row it read in an earlier statement.
DeadOnlyWhenSpent == \A j \in Jobs : status[j] = "dead" => attempts[j] >= MaxAttempts

\* With a bounded number of faults, every job that is inserted is completed or
\* dead in the end, whichever way its executions end.
EventuallySettled ==
  \A j \in Jobs : status[j] = "pending" ~> status[j] \in {"completed", "dead"}
=============================================================================
