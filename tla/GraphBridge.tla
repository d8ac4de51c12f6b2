----------------------------- MODULE GraphBridge -----------------------------
(***************************************************************************)
(* The bridge of a process to its graph server, a child process that is    *)
(* spoken to over pipes (McpStdioBridge in packages/graph-client/src/      *)
(* stdio-bridge.ts).  Several callers share one bridge; the server may be  *)
(* slow, die, or die in the middle of a line.                              *)
(*                                                                         *)
(* An 'exit' event of a child comes some time after the child has died.    *)
(***************************************************************************)
EXTENDS Naturals, FiniteSets

CONSTANTS
  Callers,    \* concurrent users of the bridge
  MaxSpawns,  \* bound: how many children are ever spawned
  MaxCalls    \* bound: how many requests are ever sent

Kids == 1..MaxSpawns

ASSUME GraphBridgeConstants == MaxSpawns \in Nat /\ MaxCalls \in Nat

VARIABLES
  stage,    \* where each caller is in callTool
  request,  \* the id of the request each caller waits for, 0 if none
  child,    \* this.child: the child in use, 0 if none
  started,  \* this.started
  closed,   \* this.closed
  kid,      \* what has become of each child
  nextId,   \* this.nextId
  asked,    \* requests that children have yet to answer
  residue,  \* this.buf holds the beginning of a line of a child that died
  crossed   \* a caller was given the answer to another one's request

bridgeVars == <<stage, request, child, started, closed, kid, nextId, asked, residue, crossed>>
kidVars == <<kid, residue>>

BridgeTypeOK ==
  /\ stage \in [Callers -> {"idle", "starting", "notifying", "ready", "calling", "failed", "done"}]
  /\ request \in [Callers -> 0..MaxCalls]
  /\ \A c \in Callers : request[c] # 0 <=> stage[c] \in {"starting", "calling"}
  /\ child \in 0..MaxSpawns
  /\ started \in BOOLEAN /\ closed \in BOOLEAN /\ residue \in BOOLEAN /\ crossed \in BOOLEAN
  /\ kid \in [Kids -> {"unborn", "up", "signalled", "exiting", "gone"}]
  /\ nextId \in 1..(MaxCalls + 1)
  /\ asked \subseteq [by : Kids, id : 1..MaxCalls, caller : Callers]

BridgeInit ==
  /\ stage = [c \in Callers |-> "idle"] /\ request = [c \in Callers |-> 0]
  /\ child = 0 /\ started = FALSE /\ closed = FALSE
  /\ kid = [k \in Kids |-> "unborn"]
  /\ nextId = 1 /\ asked = {} /\ residue = FALSE /\ crossed = FALSE

(***************************************************************************)
(* Requests.  A Slip_ operator is a plausible bug in the definition after  *)
(* it.                                                                     *)
(***************************************************************************)
Waits(c) == request[c] # 0

Slip_IdOfChild(k) == IF \E c \in Callers : request[c] = 1 THEN nextId ELSE 1

\* Ids are the bridge's, not the child's.
FreshId(k) == nextId

\* A request is pending before its write ends; it goes to the current child.
Send(c, k) ==
  /\ nextId <= MaxCalls
  /\ nextId' = nextId + 1
  /\ request' = [request EXCEPT ![c] = FreshId(k)]
  /\ asked' = asked \cup {[by |-> k, id |-> FreshId(k), caller |-> c]}

\* pending.delete, for the requests of these callers.
NoLonger(C) == [c \in Callers |-> IF c \in C THEN 0 ELSE request[c]]

\* What a request that is rejected does to its caller, and to the bridge if it
\* was the initialize request: whatever child is current gets a SIGTERM.
Reject(C, kids) ==
  /\ stage' = [c \in Callers |-> IF c \in C THEN "failed" ELSE stage[c]]
  /\ request' = NoLonger(C)
  /\ IF \E c \in C : stage[c] \in {"starting", "notifying"}
     THEN /\ kid' = [k \in Kids |-> IF k = child /\ kids[k] = "up" THEN "signalled" ELSE kids[k]]
          /\ child' = 0 /\ started' = FALSE
     ELSE kid' = kids /\ UNCHANGED <<child, started>>

\* failAll: every pending request.
Pending == {c \in Callers : Waits(c)}

(***************************************************************************)
(* Callers.                                                                *)
(***************************************************************************)
\* ensureStarted, up to the initialize request: a child in use is enough.  Else
\* a child is spawned, although another caller may be about to start one.
EnsureStarted(c) ==
  /\ stage[c] = "idle"
  /\ \/ /\ started /\ child # 0
        /\ stage' = [stage EXCEPT ![c] = "ready"]
        /\ UNCHANGED <<request, child, started, kid, nextId, asked>>
     \/ /\ ~(started /\ child # 0) /\ closed
        /\ stage' = [stage EXCEPT ![c] = "failed"]
        /\ UNCHANGED <<request, child, started, kid, nextId, asked>>
     \/ /\ ~(started /\ child # 0) /\ ~closed
        /\ \E k \in Kids :
             /\ kid[k] = "unborn" /\ (\A j \in 1..(k - 1) : kid[j] # "unborn")
             /\ kid' = [kid EXCEPT ![k] = "up"]
             /\ child' = k
             /\ Send(c, k)
        /\ stage' = [stage EXCEPT ![c] = "starting"]
        /\ UNCHANGED started
  /\ UNCHANGED <<closed, residue, crossed>>

\* The notification of the handshake was written: the bridge counts as started,
\* whatever has become of the child.  Or the write fails.
Notified(c) ==
  /\ stage[c] = "notifying"
  /\ \/ /\ stage' = [stage EXCEPT ![c] = "ready"]
        /\ started' = TRUE
        /\ UNCHANGED <<request, child, kid>>
     \/ Reject({c}, kid)
  /\ UNCHANGED <<closed, nextId, asked, residue, crossed>>

\* tools/call; without a child it is rejected at once.
CallTool(c) ==
  /\ stage[c] = "ready"
  /\ IF child = 0
     THEN Reject({c}, kid) /\ UNCHANGED <<nextId, asked>>
     ELSE /\ Send(c, child)
          /\ stage' = [stage EXCEPT ![c] = "calling"]
          /\ UNCHANGED <<child, started, kid>>
  /\ UNCHANGED <<closed, residue, crossed>>

Slip_TimedCalls(c) == Waits(c) /\ stage[c] = "calling"

\* Every request has a timer.
Timed(c) == Waits(c)

\* The timer of a request, or the failure of its write.
RequestTimesOut(c) ==
  /\ Timed(c) /\ Reject({c}, kid)
  /\ UNCHANGED <<closed, nextId, asked, residue, crossed>>

\* The caller makes another call.
CallAgain(c) ==
  /\ stage[c] \in {"failed", "done"} /\ nextId <= MaxCalls
  /\ stage' = [stage EXCEPT ![c] = "idle"]
  /\ UNCHANGED <<request, child, started, closed, kidVars, nextId, asked, crossed>>

\* stopEmbeddedGraphMcp.
CloseBridge ==
  /\ ~closed /\ closed' = TRUE
  /\ stage' = [c \in Callers |-> IF c \in Pending THEN "failed" ELSE stage[c]]
  /\ request' = NoLonger(Pending)
  /\ kid' = [k \in Kids |-> IF k = child /\ kid[k] = "up" THEN "signalled" ELSE kid[k]]
  /\ child' = 0 /\ started' = FALSE
  /\ UNCHANGED <<nextId, asked, residue, crossed>>

(***************************************************************************)
(* Children.                                                               *)
(***************************************************************************)
\* A child answers, in any order.  A line behind the beginning of another one
\* does not parse; an answer nobody waits for is dropped; an error rejects.
Answer(a) ==
  /\ a \in asked /\ kid[a.by] \in {"up", "signalled"}
  /\ asked' = asked \ {a}
  /\ residue' = FALSE
  /\ LET to == {c \in Callers : ~residue /\ request[c] = a.id} IN
       \/ /\ crossed' = (crossed \/ \E c \in to : c # a.caller)
          /\ request' = NoLonger(to)
          /\ stage' = [c \in Callers |-> IF c \notin to THEN stage[c]
                                         ELSE IF stage[c] = "starting" THEN "notifying" ELSE "done"]
          /\ UNCHANGED <<child, started, kid>>
       \/ to # {} /\ Reject(to, kid) /\ UNCHANGED crossed
  /\ UNCHANGED <<closed, nextId>>

\* A child dies, perhaps in the middle of a line; requests it has go with it.
Die(k) ==
  /\ kid[k] \in {"up", "signalled"}
  /\ kid' = [kid EXCEPT ![k] = "exiting"]
  /\ residue' \in {residue, residue \/ \E a \in asked : a.by = k}
  /\ asked' = {a \in asked : a.by # k}
  /\ UNCHANGED <<stage, request, child, started, closed, nextId, crossed>>

\* The 'exit' or 'error' event of a child: all requests are rejected and the
\* current child is forgotten, whichever child it was.
OnExit(k) ==
  /\ kid[k] = "exiting"
  /\ stage' = [c \in Callers |-> IF c \in Pending THEN "failed" ELSE stage[c]]
  /\ request' = NoLonger(Pending)
  /\ kid' = [kid EXCEPT ![k] = "gone"]
  /\ child' = 0 /\ started' = FALSE
  /\ UNCHANGED <<closed, nextId, asked, residue, crossed>>

BridgeNext ==
  \/ \E c \in Callers :
       EnsureStarted(c) \/ Notified(c) \/ CallTool(c) \/ RequestTimesOut(c) \/ CallAgain(c)
  \/ CloseBridge
  \/ \E a \in asked : Answer(a)
  \/ \E k \in Kids : Die(k) \/ OnExit(k)

BridgeSpec == BridgeInit /\ [][BridgeNext]_bridgeVars

\* Timers fire.  A server need not answer, and a child that is told to stop need not.
BridgeFairness == \A c \in Callers : WF_bridgeVars(RequestTimesOut(c))

(***************************************************************************)
(* Properties.                                                             *)
(***************************************************************************)
\* An answer settles the request it belongs to: also a late one, of a child that
\* was given up or runs beside the current one.
AnswersMatch == ~crossed

\* A bridge that was closed gets no child any more, and leaves nobody waiting.
ClosedIsQuiet == closed => child = 0 /\ \A c \in Callers : ~Waits(c)

\* However children die, are given up and replaced, no answer goes astray.
BridgeSound == AnswersMatch /\ ClosedIsQuiet

\* Every caller gets an answer or an error, whatever children do.
CallsSettle ==
  \A c \in Callers : Waits(c) ~> ~Waits(c)

\* "one child per worker/API process" (stdio-bridge.ts:408): at most one child
\* runs that was not told to stop.  The code forgets children that run on.
OneChild == Cardinality({k \in Kids : kid[k] = "up"}) <= 1
=============================================================================
