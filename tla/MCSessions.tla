------------------------------ MODULE MCSessions ------------------------------
(***************************************************************************)
(* Small instances of five modules about a session, its record, its        *)
(* events, the page that shows it, the traces its jobs leave and the       *)
(* splits its checkpoints hold, checked in one configuration.  They share  *)
(* no state: part names the one that runs, and the others rest in a state  *)
(* they reach by themselves, in which nothing that is fair can happen.     *)
(***************************************************************************)
EXTENDS ReviewSession, SessionEvents, SessionsPage, TraceSink, SplitRun

VARIABLE part

\* The first job has run, and all was written.
RecordRests ==
  /\ row = [status |-> "completed", stage |-> "completed", attempts |-> 0, units |-> TRUE]
  /\ copy = [p \in Processes |-> IF p = "api" THEN row ELSE NoSession]
  /\ writes = [p \in Processes |-> <<>>]
  /\ pending = [t \in 0..(MaxTries - 1) |-> 0] /\ tries = 0
  /\ resuming = NoSession /\ work = "idle" /\ requests = 0 /\ faults = 0

\* The stream is open, and the session has no events yet.
EventsRest ==
  /\ inline = FALSE /\ emitted = 0 /\ rowId = [e \in Events |-> 0]
  /\ visible = {} /\ late = {}
  /\ link = "open" /\ cursor = 0 /\ wire = <<>>
  /\ lastId = 0 /\ seen = {} /\ timeline = {} /\ breaks = 0

\* Nothing is selected.
PageRests == PageInit

\* The job has ended and recorded nothing.
SinkRests ==
  /\ recorded = 0 /\ buffer = {} /\ flights = <<>> /\ flushing = 0
  /\ waiting = [f \in Rows |-> 0] /\ flushes = 0 /\ jobEnded = TRUE /\ early = 0
  /\ inserted = [r \in Rows |-> 0] /\ dropped = {}

\* Nothing has begun.
SplitsRest == SplitInit /\ maxC = 1

\* Units of two paths and of one.
TwoAndOne == {<<1, 2>>, <<3, 3>>}

MCInit ==
  \/ part = "record" /\ SessionInit /\ EventsRest /\ PageRests /\ SinkRests /\ SplitsRest
  \/ part = "events" /\ RecordRests /\ EventsInit /\ PageRests /\ SinkRests /\ SplitsRest
  \/ part = "page" /\ RecordRests /\ EventsRest /\ PageInit /\ SinkRests /\ SplitsRest
  \/ part = "traces" /\ RecordRests /\ EventsRest /\ PageRests /\ SinkInit /\ SplitsRest
  \/ part = "splits" /\ RecordRests /\ EventsRest /\ PageRests /\ SinkRests /\ SplitInit

MCNext ==
  /\ UNCHANGED part
  /\ \/ part = "record" /\ SessionNext /\ UNCHANGED <<eventVars, pageState, sinkVars, splitVars>>
     \/ part = "events" /\ EventsNext /\ UNCHANGED <<sessionVars, pageState, sinkVars, splitVars>>
     \/ part = "page" /\ PageNext /\ UNCHANGED <<sessionVars, eventVars, sinkVars, splitVars>>
     \/ part = "traces" /\ SinkNext /\ UNCHANGED <<sessionVars, eventVars, pageState, splitVars>>
     \/ part = "splits" /\ SplitNext /\ UNCHANGED <<sessionVars, eventVars, pageState, sinkVars>>

SessionsSpec ==
  /\ MCInit /\ [][MCNext]_<<part, sessionVars, eventVars, pageState, sinkVars, splitVars>>
  /\ SessionFairness /\ EventsFairness /\ PageFairness /\ SinkFairness

\* The types of the five modules.  No copy of the session, stale or not, has more
\* attempts than are allowed, although every process counts on its own copy.
SessionsTypeOK == SessionTypeOK /\ EventsTypeOK /\ PageTypeOK /\ SinkTypeOK /\ SplitTypeOK
=============================================================================
