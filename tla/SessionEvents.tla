----------------------------- MODULE SessionEvents -----------------------------
(***************************************************************************)
(* The events of a review session on their way to a browser: the inserts   *)
(* into session_events that nobody waits for (pushEvent in                 *)
(* packages/api/src/store.ts), the stream that polls the table (GET        *)
(* /v1/sessions/:id/events in app.ts), and the EventSource of the sessions *)
(* page (packages/ui/src/pages/Sessions.tsx).                              *)
(*                                                                         *)
(* A row gets its id when its insert begins and can be read when it has    *)
(* committed: rows become visible in another order than that of their ids. *)
(* The worker may run inside the API process, whose streams then also hear *)
(* of an event at once, without an id.                                     *)
(***************************************************************************)
EXTENDS Naturals, Sequences, FiniteSets

CONSTANTS
  NumEvents, \* how many events the session has; the last one is "completed"
  MaxBreaks  \* bound: how often the connection breaks

Events == 1..NumEvents

ASSUME SessionEventsConstants == NumEvents \in Nat /\ MaxBreaks \in Nat

VARIABLES
  inline,     \* the worker runs inside the API process
  emitted,    \* how many events the worker has emitted
  rowId,      \* the id of each event's row, 0 if its insert has not begun
  visible,    \* events whose rows have committed
  late,       \* of these, the ones that came after a row with a higher id
  link,       \* the connection of the browser
  cursor,     \* lastEventId of the stream
  wire,       \* what the stream wrote and the browser has yet to read
  lastId,     \* the EventSource's last event id
  seen,       \* the page's keys of events it has got
  timeline,   \* events shown on the page
  breaks      \* how often the connection broke

eventVars == <<inline, emitted, rowId, visible, late, link, cursor, wire, lastId, seen,
               timeline, breaks>>
tableVars == <<emitted, rowId, visible, late>>
pageVars == <<lastId, seen, timeline>>

Messages == [event : Events, id : 0..NumEvents]

EventsTypeOK ==
  /\ inline \in BOOLEAN /\ emitted \in 0..NumEvents
  /\ rowId \in [Events -> 0..NumEvents]
  /\ \A e, f \in Events : e # f /\ rowId[e] # 0 => rowId[e] # rowId[f]
  /\ visible \subseteq {e \in 1..emitted : rowId[e] # 0} /\ late \subseteq visible
  /\ link \in {"down", "catchUp", "open", "ending"}
  /\ cursor \in 0..NumEvents /\ lastId \in 0..NumEvents
  /\ wire \in Seq(Messages)
  /\ seen \subseteq {"id", "text"} \X Events /\ timeline \subseteq Events
  /\ breaks \in 0..MaxBreaks

EventsInit ==
  /\ inline \in BOOLEAN /\ emitted = 0 /\ rowId = [e \in Events |-> 0]
  /\ visible = {} /\ late = {}
  /\ link = "down" /\ cursor = 0 /\ wire = <<>>
  /\ lastId = 0 /\ seen = {} /\ timeline = {} /\ breaks = 0

Highest(S) == CHOOSE n \in S : \A m \in S : m <= n
IdsOf(S) == {rowId[e] : e \in S}
WithId(n) == CHOOSE e \in visible : rowId[e] = n

(***************************************************************************)
(* The worker.  A Slip_ operator is a plausible bug in the definition      *)
(* after it.                                                               *)
(***************************************************************************)
\* The stream ends once it has written the last event, with or without an id.
Write(batch) ==
  LET ends == {i \in DOMAIN batch : batch[i].event = NumEvents} IN
    /\ wire' = wire \o SubSeq(batch, 1, IF ends = {} THEN Len(batch) ELSE Highest(ends))
    /\ link' = IF ends = {} THEN "open" ELSE "ending"

\* pushEvent: listeners of the same process, and the insert some time later.
EmitEvent ==
  /\ emitted < NumEvents /\ emitted' = emitted + 1
  /\ IF inline /\ link = "open" THEN Write(<<[event |-> emitted', id |-> 0]>>)
     ELSE UNCHANGED <<link, wire>>
  /\ UNCHANGED <<inline, rowId, visible, late, cursor, pageVars, breaks>>

\* The sequence of the table's ids.
NextRowId == Highest(IdsOf(Events)) + 1

\* Inserts run over several connections to Postgres.
BeginInsert(e) ==
  /\ e <= emitted /\ rowId[e] = 0
  /\ rowId' = [rowId EXCEPT ![e] = NextRowId]
  /\ UNCHANGED <<inline, emitted, visible, late, link, cursor, wire, pageVars, breaks>>

CommitInsert(e) ==
  /\ rowId[e] # 0 /\ e \notin visible
  /\ visible' = visible \cup {e}
  /\ late' = IF \E f \in visible : rowId[f] > rowId[e] THEN late \cup {e} ELSE late
  /\ UNCHANGED <<inline, emitted, rowId, link, cursor, wire, pageVars, breaks>>

(***************************************************************************)
(* The stream.                                                             *)
(***************************************************************************)
Slip_ResumeAtNewest == Highest({0} \cup IdsOf(visible))

\* Last-Event-ID of a reconnection.
ResumeAt == lastId

Connect ==
  /\ link = "down" /\ link' = "catchUp"
  /\ cursor' = ResumeAt
  /\ UNCHANGED <<inline, tableVars, wire, pageVars, breaks>>

\* ORDER BY id.
InOrder(ids) ==
  CHOOSE list \in [1..Cardinality(ids) -> ids] :
    \A i, j \in DOMAIN list : i < j => list[i] < list[j]

\* listEventsSince, and everything it returned is written.
Poll ==
  /\ link \in {"catchUp", "open"}
  /\ LET fresh == {n \in IdsOf(visible) : n > cursor}
         ids == InOrder(fresh)
     IN /\ cursor' = Highest({cursor} \cup fresh)
        /\ Write([i \in DOMAIN ids |-> [event |-> WithId(ids[i]), id |-> ids[i]]])
  /\ UNCHANGED <<inline, tableVars, pageVars, breaks>>

\* 300 seconds have passed.
StreamExpires ==
  /\ link = "open" /\ link' = "ending"
  /\ UNCHANGED <<inline, tableVars, cursor, wire, pageVars, breaks>>

\* The stream was ended and read to its end; the EventSource connects again.
StreamEnds ==
  /\ link = "ending" /\ wire = <<>> /\ link' = "down"
  /\ UNCHANGED <<inline, tableVars, cursor, wire, pageVars, breaks>>

\* What is on its way is lost.
BreakLink ==
  /\ link # "down" /\ breaks < MaxBreaks /\ breaks' = breaks + 1
  /\ link' = "down" /\ wire' = <<>>
  /\ UNCHANGED <<inline, tableVars, cursor, pageVars>>

(***************************************************************************)
(* The page.                                                               *)
(***************************************************************************)
\* eventDedupeKey: the EventSource gives a message without an id the id of the
\* last one that had one.
KeyOf(m) ==
  IF m.id # 0 THEN <<"id", m.id>>
  ELSE IF lastId # 0 THEN <<"id", lastId>> ELSE <<"text", m.event>>

ReadEvent ==
  /\ wire # <<>> /\ wire' = Tail(wire)
  /\ LET m == Head(wire) IN
       /\ lastId' = IF m.id # 0 THEN m.id ELSE lastId
       /\ seen' = seen \cup {KeyOf(m)}
       /\ timeline' = IF KeyOf(m) \in seen THEN timeline ELSE timeline \cup {m.event}
  /\ UNCHANGED <<inline, tableVars, link, cursor, breaks>>

EventsNext ==
  \/ EmitEvent \/ \E e \in Events : BeginInsert(e) \/ CommitInsert(e)
  \/ Connect \/ Poll \/ StreamExpires \/ StreamEnds \/ BreakLink
  \/ ReadEvent

EventsSpec == EventsInit /\ [][EventsNext]_eventVars

\* The stream polls once a second and the browser reads and connects again.
\* Neither the worker nor an insert need come to an end.
EventsFairness ==
  /\ WF_eventVars(Connect) /\ WF_eventVars(Poll)
  /\ WF_eventVars(StreamEnds) /\ WF_eventVars(ReadEvent)

(***************************************************************************)
(* Properties.                                                             *)
(***************************************************************************)

\* The page catches up, again and again, with every event whose row came in order,
\* also one behind the last event.
EventsArrive == []<>(visible \ late \subseteq timeline)
=============================================================================
