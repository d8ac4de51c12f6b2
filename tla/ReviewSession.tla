---------------------------- MODULE ReviewSession ----------------------------
(***************************************************************************)
(* The record of one review session, which the API and the worker change   *)
(* at the same time (packages/api/src/store.ts, the session routes of      *)
(* app.ts, and run-job.ts).  Each process changes its own copy, and writes *)
(* the whole copy to Postgres without waiting: writes commit in any order  *)
(* and are lost with the process.  The jobs of the session are those of    *)
(* JobQueue, without leases: here one worker runs one job.                 *)
(***************************************************************************)
EXTENDS Naturals, Sequences, SequencesExt

CONSTANTS
  MaxGlobalRetries, \* STEW_GLOBAL_MAX_RETRIES (default 3)
  MaxTries,         \* max_attempts of a job (default 5)
  MaxRequests,      \* bound: how many routes are called
  MaxFaults,        \* bound: how often the worker dies, or a write is overtaken
  MaxInFlight       \* bound: how many writes are on their way

Processes == {"api", "worker"}

ASSUME ReviewSessionConstants ==
  /\ MaxGlobalRetries \in Nat /\ MaxTries \in Nat \ {0} /\ MaxRequests \in Nat
  /\ MaxFaults \in Nat /\ MaxInFlight \in Nat \ {0}

VARIABLES
  row,      \* the session in Postgres; its stage, while it is under way, is "active"
  copy,     \* each process's copy of it; the worker reads it anew for each job
  writes,   \* writes of each process that are on their way, oldest first
  pending,  \* how many jobs are pending that were claimed so many times
  tries,    \* how often the worker's job was claimed, 0 if it has none
  resuming, \* the copy that a resume request in progress has read, or none
  work,     \* what the worker is doing
  requests, \* how many routes were called
  faults    \* how many faults there were

sessionVars == <<row, copy, writes, pending, tries, resuming, work, requests, faults>>

NoSession == [status |-> "none", stage |-> "none", attempts |-> 0, units |-> FALSE]

Sessions == [status : {"none", "pending", "running", "completed", "failed", "cancelled"},
             stage : {"none", "active", "completed", "failed", "cancelled"},
             attempts : 0..MaxGlobalRetries,
             units : BOOLEAN]

SessionTypeOK ==
  /\ row \in Sessions /\ copy \in [Processes -> Sessions]
  /\ writes \in [Processes -> Seq(Sessions)]
  /\ pending \in [0..(MaxTries - 1) -> Nat] /\ tries \in 0..MaxTries
  /\ resuming \in Sessions
  /\ work \in {"down", "idle", "running", "ended", "crashed", "failed"}
  /\ requests \in 0..MaxRequests /\ faults \in 0..MaxFaults

Created == [NoSession EXCEPT !.status = "pending", !.stage = "active"]

\* The session exists and was started: POST /v1/reviews/gate.
SessionInit ==
  /\ row = Created /\ copy = [p \in Processes |-> IF p = "api" THEN Created ELSE NoSession]
  /\ writes = [p \in Processes |-> <<>>]
  /\ pending = [t \in 0..(MaxTries - 1) |-> IF t = 0 THEN 1 ELSE 0] /\ tries = 0
  /\ resuming = NoSession /\ work = "idle"
  /\ requests = 0 /\ faults = 0

(***************************************************************************)
(* The store and the queue.  A Slip_ operator is a plausible bug in the    *)
(* definition after it.                                                    *)
(***************************************************************************)
WriteRow(p, s) ==
  /\ Len(writes["api"]) + Len(writes["worker"]) < MaxInFlight
  /\ writes' = [writes EXCEPT ![p] = Append(@, s)]

\* PgSessionStore.update: the copy changes now, the row some time later.
Update(p, s) == copy' = [copy EXCEPT ![p] = s] /\ WriteRow(p, s)

Fault == faults < MaxFaults /\ faults' = faults + 1

\* A write commits; it may overtake older ones.
Commit(p, i) ==
  /\ i \in DOMAIN writes[p]
  /\ row' = writes[p][i]
  /\ writes' = [writes EXCEPT ![p] = RemoveAt(@, i)]
  /\ IF i = 1 THEN UNCHANGED faults ELSE Fault
  /\ UNCHANGED <<copy, pending, tries, resuming, work, requests>>

\* The worker is done with its copy, which the next job replaces.
Forget == copy' = [copy EXCEPT !["worker"] = NoSession]

\* getLive and listLive, which the routes that only read call; what they do to the
\* copy matters as long as there is a route to use it.
Refresh ==
  /\ requests < MaxRequests
  /\ copy' = [copy EXCEPT !["api"] = row]
  /\ UNCHANGED <<row, writes, pending, tries, resuming, work, requests, faults>>

\* enqueue.
Enqueued(queue) == [queue EXCEPT ![0] = @ + 1]

Slip_RetriesUncounted(a) == FALSE
Exhausted(a) == a >= MaxGlobalRetries

\* isSessionResumable.
Resumable(s) ==
  /\ ~Exhausted(s.attempts)
  /\ \/ s.status = "failed" /\ s.units
     \/ s.status \in {"running", "pending"} /\ s.stage \notin {"completed", "cancelled"}

(***************************************************************************)
(* The routes.                                                             *)
(***************************************************************************)
\* POST /v1/sessions/:id/start, whatever the status.
StartSession ==
  /\ requests < MaxRequests /\ requests' = requests + 1
  /\ pending' = Enqueued(pending)
  /\ Update("api", [copy["api"] EXCEPT !.status = "pending", !.stage = "active"])
  /\ UNCHANGED <<row, tries, resuming, work, faults>>

\* POST /v1/sessions/:id/cancel: no job is withdrawn and no worker told.
CancelSession ==
  /\ requests < MaxRequests /\ requests' = requests + 1
  /\ Update("api", [copy["api"] EXCEPT !.status = "cancelled", !.stage = "cancelled"])
  /\ UNCHANGED <<row, pending, tries, resuming, work, faults>>

\* POST /v1/sessions/:id/resume reads the session, and waits for the checkpoint.
BeginResume ==
  /\ requests < MaxRequests /\ requests' = requests + 1
  /\ resuming = NoSession /\ resuming' = copy["api"]
  /\ UNCHANGED <<row, copy, writes, pending, tries, work, faults>>

Restaged(s) == IF s.stage \in {"failed", "cancelled"} THEN "active" ELSE s.stage

\* It decides on what it has read; the checkpoint may have other units.
EndResume ==
  /\ resuming # NoSession /\ resuming' = NoSession
  /\ \/ /\ \E u \in BOOLEAN : Resumable([resuming EXCEPT !.units = u])
        /\ Update("api", [copy["api"] EXCEPT !.status = "running", !.stage = Restaged(resuming),
                                             !.attempts = resuming.attempts + 1])
        /\ pending' = Enqueued(pending)
     \/ ~Resumable(resuming) /\ UNCHANGED <<copy, writes, pending>>
  /\ UNCHANGED <<row, tries, work, requests, faults>>

(***************************************************************************)
(* The worker.                                                             *)
(***************************************************************************)
\* A job is claimed; the session is read, perhaps before the worker's last writes
\* have come through, and set to running, whatever it is.
RunJob(t) ==
  /\ work = "idle" /\ pending[t] > 0
  /\ IF writes["worker"] = <<>> THEN UNCHANGED faults ELSE Fault
  /\ pending' = [pending EXCEPT ![t] = @ - 1]
  /\ tries' = t + 1
  /\ Update("worker", [row EXCEPT !.status = "running"])
  /\ work' = "running"
  /\ UNCHANGED <<row, resuming, requests>>

\* onCheckpoint.
Checkpoint ==
  /\ work = "running"
  /\ Update("worker", [copy["worker"] EXCEPT !.status = "running", !.stage = "active",
                                             !.units = TRUE])
  /\ UNCHANGED <<row, pending, tries, resuming, work, requests, faults>>

\* The orchestrator returns, or the workspace cannot be prepared.
EndReview ==
  /\ work = "running" /\ work' = "ended"
  /\ \E s \in {"completed", "failed"} :
       Update("worker", [copy["worker"] EXCEPT !.status = s, !.stage = s])
  /\ UNCHANGED <<row, pending, tries, resuming, requests, faults>>

CompleteJob ==
  /\ work = "ended" /\ work' = "idle" /\ tries' = 0
  /\ Forget
  /\ UNCHANGED <<row, writes, pending, resuming, requests, faults>>

\* The orchestrator throws; or complete does, after the review has ended.
CrashReview ==
  /\ work \in {"running", "ended"} /\ work' = "crashed"
  /\ LET s == copy["worker"] IN
       Update("worker", IF Exhausted(s.attempts)
                        THEN [s EXCEPT !.status = "failed", !.stage = "failed"]
                        ELSE [s EXCEPT !.status = "running"])
  /\ UNCHANGED <<row, pending, tries, resuming, requests, faults>>

Slip_TriesForgotten == Enqueued(pending)

\* fail and reclaimStale: the job is pending again until its tries are spent.
GivenBack ==
  IF tries \in 1..(MaxTries - 1) THEN [pending EXCEPT ![tries] = @ + 1] ELSE pending

FailJob ==
  /\ work = "crashed" /\ work' = "failed"
  /\ pending' = GivenBack /\ tries' = 0
  /\ UNCHANGED <<row, copy, writes, resuming, requests, faults>>

\* A session with attempts left gets another job, besides the one that failed.
Requeue ==
  /\ work = "failed" /\ work' = "idle"
  /\ IF Exhausted(copy["worker"].attempts) THEN UNCHANGED <<writes, pending>>
     ELSE /\ WriteRow("worker", [copy["worker"] EXCEPT !.attempts = @ + 1])
          /\ pending' = Enqueued(pending)
  /\ Forget
  /\ UNCHANGED <<row, tries, resuming, requests, faults>>

\* The worker dies, with its copy and the writes on their way.
WorkerDies ==
  /\ work # "down" /\ work' = "down" /\ Fault
  /\ writes' = [writes EXCEPT !["worker"] = <<>>]
  /\ Forget
  /\ UNCHANGED <<row, pending, tries, resuming, requests>>

\* resumeIncompleteSessions: jobs of the dead worker are given back; a session
\* without a pending job gets one if it can be resumed.
Boot ==
  /\ work = "down" /\ work' = "idle" /\ tries' = 0
  /\ IF /\ Resumable(row) /\ ~(row.status = "pending" /\ ~row.units)
        /\ \A t \in DOMAIN pending : GivenBack[t] = 0
     THEN /\ WriteRow("worker", [row EXCEPT !.status = "running", !.attempts = @ + 1,
                                         !.stage = IF @ = "failed" THEN "active" ELSE @])
          /\ pending' = Enqueued(GivenBack)
     ELSE pending' = GivenBack /\ UNCHANGED writes
  /\ UNCHANGED <<row, copy, resuming, requests, faults>>

SessionNext ==
  \/ Refresh \/ \E p \in Processes : \E i \in DOMAIN writes[p] : Commit(p, i)
  \/ StartSession \/ CancelSession \/ BeginResume \/ EndResume
  \/ \E t \in 0..(MaxTries - 1) : RunJob(t)
  \/ Checkpoint \/ EndReview \/ CompleteJob \/ CrashReview \/ FailJob \/ Requeue
  \/ WorkerDies \/ Boot

SessionSpec == SessionInit /\ [][SessionNext]_sessionVars

\* A worker works, and is started again when it has died; Postgres answers; and
\* a review ends or crashes, however many checkpoints come before: a unit has a
\* time limit.
SessionFairness ==
  /\ WF_sessionVars(\/ \E t \in 0..(MaxTries - 1) : RunJob(t)
                     \/ CompleteJob \/ FailJob \/ Requeue \/ Boot)
  /\ SF_sessionVars(EndReview \/ CrashReview)
  /\ WF_sessionVars(EndResume)
  /\ WF_sessionVars(\E p \in Processes : \E i \in DOMAIN writes[p] : Commit(p, i))

(***************************************************************************)
(* Properties.                                                             *)
(***************************************************************************)

\* Deaths, writes that are lost or overtaken and copies that are stale keep no
\* session busy forever, although a crash makes two pending jobs of one.
SessionComesToRest ==
  <>[](work = "idle" /\ \A t \in DOMAIN pending : pending[t] = 0)

\* "Resume a failed/cancelled session" (packages/cli/src/index.ts:104): a resume
\* of a cancelled session with attempts left is accepted.  The code refuses it.
CancelledResumable ==
  resuming.status = "cancelled" /\ ~Exhausted(resuming.attempts) => Resumable(resuming)
=============================================================================
