---------------------------- MODULE HybridQueue ----------------------------
(***************************************************************************)
(* JobQueue with the optional broker in front of it: HybridJobQueue in     *)
(* packages/api/src/queue.ts over NATS, RabbitMQ or Pulsar                 *)
(* (packages/api/src/queue-broker.ts).  A message names a job; the broker  *)
(* delivers a message to one consumer, redelivers what is not acknowledged *)
(* and may lose everything.  Postgres decides who executes what.           *)
(***************************************************************************)
EXTENDS JobQueue, FiniteSets

CONSTANTS
  RepublishLimit,  \* `limit` of POST /v1/platform/queue/republish
  PublishBound     \* bound: messages ever published

ASSUME HybridConstants == RepublishLimit \in Nat /\ PublishBound \in Nat

VARIABLES
  unpublished,  \* jobs whose enqueue call has inserted but not yet published
  wire,         \* messages of each job that wait in the broker
  unacked,      \* messages delivered to each worker and not acknowledged
  hand,         \* the message each worker's dequeue looks at, 0 if none
  handles,      \* keys of HybridJobQueue.pending, the messages of claimed jobs
  batch,        \* jobs a republish call has listed and not yet published
  published     \* messages published so far

brokerVars == <<unpublished, wire, unacked, hand, handles, batch, published>>
hvars == <<vars, brokerVars>>

HybridTypeOK ==
  /\ unpublished \in SUBSET Jobs
  /\ wire \in [Jobs -> Nat]
  /\ unacked \in [Workers -> [Jobs -> Nat]]
  /\ hand \in [Workers -> Jobs \cup {0}]
  /\ handles \in [Workers -> SUBSET Jobs]
  /\ batch \in SUBSET Jobs
  /\ published \in 0..PublishBound

HInit ==
  /\ Init
  /\ unpublished = {}
  /\ wire = [j \in Jobs |-> 0]
  /\ unacked = [w \in Workers |-> [j \in Jobs |-> 0]]
  /\ hand = [w \in Workers |-> 0]
  /\ handles = [w \in Workers |-> {}]
  /\ batch = {}
  /\ published = 0

\* enqueue: the row is inserted first.
HEnqueue ==
  /\ Enqueue
  /\ unpublished' = unpublished \cup {enqueued + 1}
  /\ UNCHANGED <<wire, unacked, hand, handles, batch, published>>

Send(j) ==
  /\ published < PublishBound
  /\ published' = published + 1
  /\ wire' = [wire EXCEPT ![j] = @ + 1]

\* enqueue, then: the publish succeeds, or it fails and is only logged (or the
\* API process dies between the two).
Publish(j) ==
  /\ j \in unpublished
  /\ unpublished' = unpublished \ {j}
  /\ Send(j) \/ UNCHANGED <<wire, published>>
  /\ UNCHANGED <<vars, unacked, hand, handles, batch>>

\* The broker loses its data.
LoseMessages ==
  /\ wire' = [j \in Jobs |-> 0]
  /\ unacked' = [w \in Workers |-> [j \in Jobs |-> 0]]
  /\ UNCHANGED <<vars, unpublished, hand, handles, batch, published>>

\* dequeue: broker.consume returns a message.
Consume(w, j) ==
  /\ phase[w] = "idle" /\ hand[w] = 0
  /\ wire[j] > 0
  /\ wire' = [wire EXCEPT ![j] = @ - 1]
  /\ unacked' = [unacked EXCEPT ![w][j] = @ + 1]
  /\ hand' = [hand EXCEPT ![w] = j]
  /\ UNCHANGED <<vars, unpublished, handles, batch, published>>

Slip_ClaimMsgUnchecked(w) ==
  /\ phase[w] = "idle" /\ hand[w] # 0
  /\ Take(w, hand[w])
  /\ handles' = [handles EXCEPT ![w] = @ \cup {hand[w]}]
  /\ hand' = [hand EXCEPT ![w] = 0]
  /\ UNCHANGED <<unpublished, wire, unacked, batch, published>>

\* dequeue: claimById hands the job over; the message stays unacknowledged.
ClaimMsg(w) ==
  /\ hand[w] # 0
  /\ ClaimById(w, hand[w])
  /\ handles' = [handles EXCEPT ![w] = @ \cup {hand[w]}]
  /\ hand' = [hand EXCEPT ![w] = 0]
  /\ UNCHANGED <<unpublished, wire, unacked, batch, published>>

\* msg.ack(), whose failure is swallowed; after a loss there is nothing to ack.
Ack(w, j) ==
  \/ UNCHANGED unacked
  \/ unacked[w][j] > 0 /\ unacked' = [unacked EXCEPT ![w][j] = @ - 1]

\* dequeue: already done or owned, the message is dropped.
DropMsg(w) ==
  /\ hand[w] # 0
  /\ ~Claimable(hand[w])
  /\ Ack(w, hand[w])
  /\ hand' = [hand EXCEPT ![w] = 0]
  /\ UNCHANGED <<vars, unpublished, wire, handles, batch, published>>

\* dequeue: claimById throws; the loop is left for the poll.
MsgError(w) ==
  /\ hand[w] # 0
  /\ hand' = [hand EXCEPT ![w] = 0]
  /\ UNCHANGED <<vars, unpublished, wire, unacked, handles, batch, published>>

Slip_PollNever(w) == FALSE

\* dequeue: no message, an error, or eight dropped messages: base.dequeue.
Poll(w) ==
  /\ hand[w] = 0
  /\ Claim(w)
  /\ UNCHANGED brokerVars

\* complete and fail: the statement, then the ack of the message kept for it.
AckSettled(w) ==
  /\ IF job[w] \in handles[w] THEN Ack(w, job[w]) ELSE UNCHANGED unacked
  /\ handles' = [handles EXCEPT ![w] = @ \ {job[w]}]
  /\ UNCHANGED <<unpublished, wire, hand, batch, published>>

HComplete(w) == Complete(w) /\ AckSettled(w)
HFailWrite(w) == FailWrite(w) /\ AckSettled(w)

\* The ack timeout (an hour) of the broker.
Redeliver(w, j) ==
  /\ unacked[w][j] > 0
  /\ unacked' = [unacked EXCEPT ![w][j] = @ - 1]
  /\ wire' = [wire EXCEPT ![j] = @ + 1]
  /\ UNCHANGED <<vars, unpublished, hand, handles, batch, published>>

\* The connection of a dead process is closed: its messages are redelivered.
HCrash(w) ==
  /\ Crash(w)
  /\ wire' = [j \in Jobs |-> wire[j] + unacked[w][j]]
  /\ unacked' = [unacked EXCEPT ![w] = [j \in Jobs |-> 0]]
  /\ hand' = [hand EXCEPT ![w] = 0]
  /\ handles' = [handles EXCEPT ![w] = {}]
  /\ UNCHANGED <<unpublished, batch, published>>

\* republishPending: the oldest pending rows are listed once ...
Republish ==
  LET pending == {j \in Jobs : status[j] = "pending"}
  IN /\ batch = {} /\ pending # {}
     /\ batch' = {j \in pending : Cardinality({i \in pending : i =< j}) =< RepublishLimit}
     /\ UNCHANGED <<vars, unpublished, wire, unacked, hand, handles, published>>

\* ... and published one by one, whatever has become of them meanwhile.
RepublishOne(j) ==
  /\ j \in batch /\ \A i \in batch : j =< i
  /\ batch' = batch \ {j}
  /\ Send(j) \/ UNCHANGED <<wire, published>>
  /\ UNCHANGED <<vars, unpublished, unacked, hand, handles>>

Resolve(w) == ClaimMsg(w) \/ DropMsg(w) \/ MsgError(w)
HHandler(w) ==
  \/ HComplete(w)
  \/ HFailWrite(w)
  \/ (StartReview(w) \/ FailRead(w)) /\ UNCHANGED brokerVars

HNext ==
  \/ HEnqueue
  \/ Tick /\ UNCHANGED brokerVars
  \/ LoseMessages
  \/ Republish
  \/ \E j \in Jobs : Publish(j) \/ RepublishOne(j)
  \/ \E w \in Workers :
       \/ \E j \in Jobs : Consume(w, j) \/ Redeliver(w, j)
       \/ ClaimMsg(w)
       \/ DropMsg(w)
       \/ MsgError(w)
       \/ Poll(w)
       \/ HComplete(w)
       \/ HFailWrite(w)
       \/ HCrash(w)
       \/ TouchLock(w) /\ UNCHANGED brokerVars
       \/ CompleteUnheard(w) /\ UNCHANGED brokerVars
       \/ StartReview(w) /\ UNCHANGED brokerVars
       \/ FailRead(w) /\ UNCHANGED brokerVars
       \/ Abandon(w) /\ UNCHANGED brokerVars
       \/ StartupReclaim(w) /\ UNCHANGED brokerVars
       \/ StartupReclaimFails(w) /\ UNCHANGED brokerVars

HSpec == HInit /\ [][HNext]_hvars

\* As in JobQueue.  A dequeue that claims nothing ends in a poll after at most
\* eight messages, so a poll that is possible again and again is made: SF.
\* The broker owes nothing: no fairness for a delivery or a redelivery.
HFairSpec ==
  /\ HSpec
  /\ WF_hvars(Tick /\ UNCHANGED brokerVars)
  /\ \A w \in Workers :
       /\ SF_hvars(Poll(w))
       /\ WF_hvars(Resolve(w))
       /\ WF_hvars(HHandler(w))
       /\ WF_hvars(Boot(w) /\ UNCHANGED brokerVars)
=============================================================================
