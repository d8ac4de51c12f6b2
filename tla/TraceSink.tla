------------------------------ MODULE TraceSink ------------------------------
(***************************************************************************)
(* The writer that ships the traces of a job to ClickHouse                 *)
(* (createClickHouseWriter in packages/model-router/src/clickhouse.ts).    *)
(* Model calls of many specialists record rows in one buffer; a            *)
(* specialist that ends, the buffer itself when it is long, and the job in *)
(* its finally block flush it.  Each await lets the others run, so several *)
(* callers may wait for a flush, and several flushes may be under way.     *)
(* Specialists that were given up go on recording after the job has ended. *)
(***************************************************************************)
EXTENDS Naturals, FiniteSets, Sequences

CONSTANTS
  NumRows,   \* bound: how many rows are recorded
  AutoFlush, \* the length at which the buffer flushes itself (64 in the code)
  MaxFlushes \* bound: how many specialists flush

ASSUME SinkConstants == NumRows \in Nat /\ AutoFlush \in Nat \ {0} /\ MaxFlushes \in Nat

Rows == 1..NumRows

VARIABLES
  recorded, \* how many rows have been recorded
  buffer,   \* rows that no flush has taken
  flights,  \* the flushes so far: their rows, and how far each is
  flushing, \* the flush that newcomers wait for, or 0
  waiting,  \* how many callers wait for each flush
  flushes,  \* how many specialists have flushed
  jobEnded, \* the job has flushed
  early,    \* how many rows were recorded before
  inserted, \* how often each row was inserted
  dropped   \* rows of inserts that were answered with an error

sinkVars == <<recorded, buffer, flights, flushing, waiting, flushes, jobEnded, early, inserted,
              dropped>>
storeVars == <<inserted, dropped>>
callVars == <<flushes, jobEnded, early>>
flushVars == <<buffer, flights, flushing, waiting>>

SinkTypeOK ==
  /\ recorded \in 0..NumRows /\ buffer \subseteq Rows
  /\ flights \in Seq([rows : SUBSET Rows, at : {"sent", "answered", "closed"}])
  /\ Len(flights) <= NumRows /\ flushing \in 0..Len(flights)
  /\ waiting \in [Rows -> Nat] /\ flushes \in 0..MaxFlushes /\ jobEnded \in BOOLEAN
  /\ early \in 0..recorded
  /\ inserted \in [Rows -> Nat] /\ dropped \subseteq Rows

SinkInit ==
  /\ recorded = 0 /\ buffer = {} /\ flights = <<>> /\ flushing = 0
  /\ waiting = [f \in Rows |-> 0] /\ flushes = 0 /\ jobEnded = FALSE /\ early = 0
  /\ inserted = [r \in Rows |-> 0] /\ dropped = {}

(***************************************************************************)
(* flush.  A Slip_ operator is a plausible bug in the definition after it. *)
(***************************************************************************)
\* All rows of the buffer leave it and are sent.
TakeOff(rows) ==
  /\ flights' = Append(flights, [rows |-> rows, at |-> "sent"])
  /\ flushing' = Len(flights) + 1 /\ buffer' = {}

Slip_Call(rows) ==
  \/ /\ rows = {} \/ flushing # 0
     /\ buffer' = rows /\ UNCHANGED <<flights, flushing, waiting>>
  \/ rows # {} /\ flushing = 0 /\ TakeOff(rows) /\ UNCHANGED waiting

\* A caller finds nothing to do, waits for the flush under way, or starts one.
Call(rows) ==
  \/ rows = {} /\ UNCHANGED flushVars
  \/ /\ rows # {} /\ flushing # 0 /\ buffer' = rows
     /\ waiting' = [waiting EXCEPT ![flushing] = @ + 1] /\ UNCHANGED <<flights, flushing>>
  \/ rows # {} /\ flushing = 0 /\ TakeOff(rows) /\ UNCHANGED waiting

\* record, which may flush without waiting for the end.
Record ==
  /\ recorded < NumRows /\ recorded' = recorded + 1
  /\ LET rows == buffer \cup {recorded'}
     IN  IF Cardinality(rows) >= AutoFlush THEN Call(rows)
         ELSE buffer' = rows /\ UNCHANGED <<flights, flushing, waiting>>
  /\ UNCHANGED <<callVars, storeVars>>

\* A specialist ends.
SpecialistFlush ==
  /\ flushes < MaxFlushes /\ flushes' = flushes + 1 /\ Call(buffer)
  /\ UNCHANGED <<recorded, jobEnded, early, storeVars>>

\* The job ends.
JobFlush ==
  /\ ~jobEnded /\ jobEnded' = TRUE /\ early' = recorded /\ Call(buffer)
  /\ UNCHANGED <<recorded, flushes, storeVars>>

\* The insert is answered: done, or with an error although it may be done.  Its rows are
\* not put back then, which would be "too risky (dupes)".
Answer(f) ==
  /\ flights[f].at = "sent" /\ flights' = [flights EXCEPT ![f].at = "answered"]
  /\ LET rows == flights[f].rows
         done == [r \in Rows |-> inserted[r] + IF r \in rows THEN 1 ELSE 0]
     IN  \/ inserted' = done /\ UNCHANGED dropped
         \/ inserted' \in {inserted, done} /\ dropped' = dropped \cup rows
  /\ UNCHANGED <<recorded, buffer, flushing, waiting, callVars>>

\* The caller that started a flush resumes, before those that wait for it.
Close(f) ==
  /\ flights[f].at = "answered"
  /\ flights' = [flights EXCEPT ![f].at = "closed"] /\ flushing' = 0
  /\ UNCHANGED <<recorded, buffer, waiting, callVars, storeVars>>

\* A caller that waited finds the buffer empty, or flushes; it does not look again whether
\* another flush is under way.
Resume(f) ==
  /\ flights[f].at = "closed" /\ waiting[f] > 0
  /\ waiting' = [waiting EXCEPT ![f] = @ - 1]
  /\ IF buffer = {} THEN UNCHANGED <<buffer, flights, flushing>> ELSE TakeOff(buffer)
  /\ UNCHANGED <<recorded, callVars, storeVars>>

SinkNext ==
  \/ Record \/ SpecialistFlush \/ JobFlush
  \/ \E f \in 1..Len(flights) : Answer(f) \/ Close(f) \/ Resume(f)

\* Jobs end, promises settle and continuations run; fetch gives up by itself.
SinkFairness ==
  /\ WF_sinkVars(JobFlush)
  /\ WF_sinkVars(\E f \in 1..Len(flights) : Answer(f) \/ Close(f) \/ Resume(f))

SinkSpec == SinkInit /\ [][SinkNext]_sinkVars /\ SinkFairness

(***************************************************************************)
(* Properties                                                              *)
(***************************************************************************)
UnderWay == UNION {flights[f].rows : f \in {g \in 1..Len(flights) : flights[g].at = "sent"}}

\* No row is inserted twice or forgotten: it is in the buffer, under way, inserted, or
\* dropped with an insert that failed.
RowsOnce ==
  /\ \A r \in Rows : inserted[r] <= 1
  /\ 1..recorded = buffer \cup UnderWay \cup dropped \cup {r \in Rows : inserted[r] > 0}

\* However flushes overlap, a row that is recorded before the job ends is inserted once, or
\* dropped for an insert that failed, and does not stay in the buffer, although a flush
\* returns at once when it finds the buffer empty (clickhouse.ts).
TracesSettle ==
  /\ []RowsOnce
  /\ <>(jobEnded /\ \A r \in 1..early : inserted[r] = 1 \/ r \in dropped)
==============================================================================
