------------------------------ MODULE SessionsPage ------------------------------
(***************************************************************************)
(* The selection of the sessions page (packages/ui/src/pages/Sessions.tsx) *)
(* and what the page shows beside the list: the session, its findings and  *)
(* its units, each fetched again with every selection and with every       *)
(* arrival of the list.  No request is ever cancelled: an answer is shown  *)
(* whatever is selected by the time it comes.                              *)
(***************************************************************************)
EXTENDS Naturals, FiniteSets

CONSTANTS
  Reviews,         \* sessions in the list
  WithUnits,       \* of these, the ones whose units are known
  Nothing,         \* no session
  MaxPicks,        \* bound: how often the user selects
  MaxUnderWay,     \* bound: requests under way for one session
  MaxFetchFailures \* bound: how often a request fails

ASSUME SessionsPageConstants ==
  /\ IsFiniteSet(Reviews) /\ WithUnits \subseteq Reviews /\ Nothing \notin Reviews
  /\ MaxPicks \in Nat /\ MaxUnderWay \in Nat \ {0} /\ MaxFetchFailures \in Nat

VARIABLES
  selected,      \* selectedId
  detail,        \* the session shown
  findings,      \* the session whose findings are shown
  units,         \* the session whose units are shown
  requested,     \* requests under way, by what they ask for and of which session
  starting,      \* start() waits for its answer
  picks,         \* selections so far
  fetchFailures  \* failed requests so far

pageState == <<selected, detail, findings, units, requested, starting, picks, fetchFailures>>
shown == <<detail, findings, units>>

PageTypeOK ==
  /\ {selected, detail, findings} \subseteq Reviews \cup {Nothing}
  /\ units \in WithUnits \cup {Nothing}
  /\ requested \in [{"session", "findings"} \X Reviews -> 0..MaxUnderWay]
  /\ starting \in BOOLEAN
  /\ picks \in 0..MaxPicks /\ fetchFailures \in 0..MaxFetchFailures

PageInit ==
  /\ selected = Nothing /\ detail = Nothing /\ findings = Nothing /\ units = Nothing
  /\ requested = [what \in {"session", "findings"} \X Reviews |-> 0]
  /\ starting = FALSE /\ picks = 0 /\ fetchFailures = 0

Room(s) == requested["session", s] < MaxUnderWay /\ requested["findings", s] < MaxUnderWay

\* The effect on [selectedId, sessions], for selection s.
Fetch(s) ==
  IF s = Nothing
  THEN /\ detail' = Nothing /\ findings' = Nothing
       /\ UNCHANGED requested
  ELSE /\ Room(s)
       /\ requested' = [what \in DOMAIN requested |->
                      IF what[2] = s THEN requested[what] + 1 ELSE requested[what]]
       /\ UNCHANGED <<detail, findings>>

\* A new selection: its event stream begins with no units.
Selects(s) ==
  /\ picks < MaxPicks /\ picks' = picks + 1
  /\ selected' = s
  /\ Fetch(s)
  /\ units' = IF s = Nothing THEN units ELSE Nothing

Pick(s) == s # selected /\ Selects(s) /\ UNCHANGED <<starting, fetchFailures>>

\* start(): the answer selects the new session, whatever was picked meanwhile.
StartReview == ~starting /\ starting' = TRUE
               /\ UNCHANGED <<selected, shown, requested, picks, fetchFailures>>
ReviewStarted(s) ==
  /\ starting /\ starting' = FALSE
  /\ s # selected /\ Selects(s)
  /\ UNCHANGED fetchFailures

Slip_NoRefetch == UNCHANGED <<detail, findings, requested>>

\* What the arrival of a list, or of an empty one for an error, makes the page do.
Refetched == Fetch(selected)

\* refresh(), every 1.5 seconds.
ListArrives ==
  /\ Refetched
  /\ UNCHANGED <<selected, units, starting, picks, fetchFailures>>

Answered(what) == requested[what] > 0 /\ requested' = [requested EXCEPT ![what] = @ - 1]

\* The units of a session that has none yet do not replace what is shown.
UnitsShown(s) == IF s \in WithUnits THEN s ELSE units

SessionArrives(s) ==
  /\ Answered(<<"session", s>>)
  /\ detail' = s
  /\ units' = UnitsShown(s)
  /\ UNCHANGED <<selected, findings, starting, picks, fetchFailures>>

FindingsArrive(s) ==
  /\ Answered(<<"findings", s>>)
  /\ findings' = s
  /\ UNCHANGED <<selected, detail, units, starting, picks, fetchFailures>>

\* The page falls back to the list it had when it asked, which may lack the session.
SessionFails(s) ==
  /\ Answered(<<"session", s>>)
  /\ fetchFailures < MaxFetchFailures /\ fetchFailures' = fetchFailures + 1
  /\ detail' \in {s, Nothing}
  /\ UNCHANGED <<selected, findings, units, starting, picks>>

FindingsFail(s) ==
  /\ Answered(<<"findings", s>>)
  /\ fetchFailures < MaxFetchFailures /\ fetchFailures' = fetchFailures + 1
  /\ findings' = Nothing
  /\ UNCHANGED <<selected, detail, units, starting, picks>>

PageNext ==
  \/ \E s \in Reviews \cup {Nothing} : Pick(s)
  \/ StartReview \/ ListArrives
  \/ \E s \in Reviews :
       \/ ReviewStarted(s)
       \/ SessionArrives(s) \/ SessionFails(s)
       \/ FindingsArrive(s) \/ FindingsFail(s)

PageSpec == PageInit /\ [][PageNext]_pageState

\* The list is polled for ever, and every request is answered or fails.
PageFairness ==
  /\ WF_pageState(ListArrives)
  /\ \A s \in Reviews : /\ WF_pageState(SessionArrives(s) \/ SessionFails(s))
                        /\ WF_pageState(FindingsArrive(s) \/ FindingsFail(s))

\* What the page shows is of the selection.
ShowsSelection ==
  /\ detail = selected /\ findings = selected
  /\ selected \in WithUnits => units = selected

\* Once the user stays with a selection, and the network holds, what is shown is
\* the selected session's for good, however late the answers for the sessions
\* selected before come.
PageSettles == <>[]ShowsSelection
=============================================================================
