--------------------------- MODULE ExclusiveQueue ---------------------------
(***************************************************************************)
(* What a team expects of the job queue: a job is held by at most one      *)
(* worker, only its holder settles it or gives it back, a job whose holder *)
(* vanished is handed out again, and what is completed or dead stays so.   *)
(* There is no lease, no clock and no attempt counter here: JobQueue       *)
(* implements this specification with them.                                *)
(***************************************************************************)
CONSTANTS Jobs, Workers, None

VARIABLES
  state,    \* "absent", "pending", "running", "completed" or "dead"
  holder    \* the worker that executes the job, or None

\* A job that was taken by a worker that no longer executes it.
Orphan(j) == state[j] = "running" /\ holder[j] = None

Init ==
  /\ state = [j \in Jobs |-> "absent"]
  /\ holder = [j \in Jobs |-> None]

Add(j) ==
  /\ state[j] = "absent"
  /\ state' = [state EXCEPT ![j] = "pending"]
  /\ UNCHANGED holder

\* One worker executes at most one job at a time.
Grant(w, j) ==
  /\ state[j] = "pending" \/ Orphan(j)
  /\ \A i \in Jobs : holder[i] # w
  /\ state' = [state EXCEPT ![j] = "running"]
  /\ holder' = [holder EXCEPT ![j] = w]

Settle(w, j) ==
  /\ holder[j] = w
  /\ \E s \in {"pending", "completed", "dead"} : state' = [state EXCEPT ![j] = s]
  /\ holder' = [holder EXCEPT ![j] = None]

Vanish(w, j) ==
  /\ holder[j] = w
  /\ holder' = [holder EXCEPT ![j] = None]
  /\ UNCHANGED state

\* Orphans are put back together.
Recover ==
  \E S \in SUBSET {j \in Jobs : Orphan(j)} :
    /\ state' = [j \in Jobs |-> IF j \in S THEN "pending" ELSE state[j]]
    /\ UNCHANGED holder

Next ==
  \/ \E j \in Jobs : Add(j)
  \/ \E w \in Workers, j \in Jobs : Grant(w, j) \/ Settle(w, j) \/ Vanish(w, j)
  \/ Recover

Spec == Init /\ [][Next]_<<state, holder>>
=============================================================================
