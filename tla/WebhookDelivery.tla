--------------------------- MODULE WebhookDelivery ---------------------------
(***************************************************************************)
(* One webhook delivery of GitHub, which is sent several times, and what   *)
(* its handlers make of it: the claim in the delivery log                  *)
(* (packages/api/src/webhook-delivery.ts over scm_delivery_log in          *)
(* packages/db/src/repositories/jobs.ts), the event's handler              *)
(* (packages/webhooks/src/github-handler.ts), the session and the job it   *)
(* makes, and the mark in the log (app.ts).  Postgres may fail at each     *)
(* statement: the log is then a file.  An API process may die.             *)
(***************************************************************************)
EXTENDS Naturals, FiniteSets

CONSTANTS
  Handlers,      \* the times the delivery is sent
  MaxPgFailures  \* bound: how many statements on the delivery log fail

ASSUME WebhookConstants == MaxPgFailures \in Nat

VARIABLES
  event,       \* what the delivery is about
  at,          \* where each handler is
  via,         \* by what each handler was accepted
  logged,      \* the delivery's row in scm_delivery_log
  filed,       \* the delivery's entry in webhook_deliveries.json
  madeSession, \* handlers whose session exists
  madeJob,     \* handlers whose job is in the queue
  lapsed,      \* an entry in flight has grown stale
  pgFailures   \* how many statements have failed

webhookVars == <<event, at, via, logged, filed, madeSession, madeJob, lapsed, pgFailures>>
makeVars == <<event, madeSession, madeJob>>

Entries == {"none", "fresh", "stale", "processed", "failed"}
Ended == {"duplicate", "answered", "error", "dead"}

WebhookTypeOK ==
  /\ event \in {"ignored", "hook", "installation", "review", "mention", "outcome"}
  /\ at \in [Handlers -> {"unsent", "look", "insert", "again", "reset", "fileLook", "fileAdd",
                          "fileReset", "react", "load", "enqueue", "ack", "markOk", "markFailed"} \cup Ended]
  /\ via \in [Handlers -> {"none", "new", "again"}]
  /\ logged \in Entries /\ filed \in Entries
  /\ madeSession \subseteq Handlers /\ madeJob \subseteq madeSession /\ lapsed \in BOOLEAN
  /\ pgFailures \in 0..MaxPgFailures

WebhookInit ==
  /\ event \in {"ignored", "hook", "installation", "review", "mention", "outcome"}
  /\ at = [h \in Handlers |-> "unsent"] /\ via = [h \in Handlers |-> "none"]
  /\ logged = "none" /\ filed = "none"
  /\ madeSession = {} /\ madeJob = {} /\ lapsed = FALSE /\ pgFailures = 0

Go(h, place) == at' = [at EXCEPT ![h] = place]
Accept(h, how) == Go(h, "react") /\ via' = [via EXCEPT ![h] = how]

(***************************************************************************)
(* The claim.  A Slip_ operator is a plausible bug in the definition after *)
(* it.                                                                     *)
(***************************************************************************)
\* The delivery is sent; its signature is good.
Send(h) ==
  /\ at[h] = "unsent" /\ Go(h, "look")
  /\ UNCHANGED <<via, logged, filed, makeVars, lapsed, pgFailures>>

\* A statement of the claim fails, or its answer is lost: the file is used instead.
PgFails(h) ==
  /\ at[h] \in {"look", "insert", "again", "reset"} /\ pgFailures < MaxPgFailures
  /\ pgFailures' = pgFailures + 1 /\ Go(h, "fileLook")
  /\ \/ UNCHANGED logged
     \/ ((at[h] = "insert" /\ logged = "none") \/ at[h] = "reset") /\ logged' = "fresh"
  /\ UNCHANGED <<via, filed, makeVars, lapsed>>

Slip_IsFree(entry) == entry # "processed"
IsFree(entry) == entry # "fresh"

\* A claim that is under way and not older than STEW_WEBHOOK_CLAIM_STALE_MS makes
\* this one a duplicate; a finished or stale one is taken over.
Judge(h, entry, takeOver) == Go(h, IF IsFree(entry) THEN takeOver ELSE "duplicate")

\* tryRecordDelivery: getDelivery.
Look(h) ==
  /\ at[h] = "look"
  /\ IF logged = "none" THEN Go(h, "insert") ELSE Judge(h, logged, "reset")
  /\ UNCHANGED <<via, logged, filed, makeVars, lapsed, pgFailures>>

\* ON CONFLICT DO NOTHING.
Inserts == logged = "none"

\* INSERT, whose conflict leads to another getDelivery.
Insert(h) ==
  /\ at[h] = "insert"
  /\ IF Inserts THEN logged' = "fresh" /\ Accept(h, "new")
                ELSE Go(h, "again") /\ UNCHANGED <<logged, via>>
  /\ UNCHANGED <<filed, makeVars, lapsed, pgFailures>>

LookAgain(h) ==
  /\ at[h] = "again" /\ Judge(h, logged, "reset")
  /\ UNCHANGED <<via, logged, filed, makeVars, lapsed, pgFailures>>

\* The row is received anew, whatever it is by now.
Reset(h) ==
  /\ at[h] = "reset"
  /\ logged' = "fresh" /\ Accept(h, "again")
  /\ UNCHANGED <<filed, makeVars, lapsed, pgFailures>>

\* The file is read ...
FileLook(h) ==
  /\ at[h] = "fileLook"
  /\ IF filed = "none" THEN Go(h, "fileAdd") ELSE Judge(h, filed, "fileReset")
  /\ UNCHANGED <<via, logged, filed, makeVars, lapsed, pgFailures>>

\* ... and written as a whole some time later: with a new entry, if it had none.
FileWrite(h) ==
  /\ at[h] \in {"fileAdd", "fileReset"}
  /\ filed' = "fresh" /\ Accept(h, IF at[h] = "fileAdd" THEN "new" ELSE "again")
  /\ UNCHANGED <<logged, makeVars, lapsed, pgFailures>>

\* Two minutes pass.
GrowStale ==
  /\ "fresh" \in {logged, filed}
  /\ logged' = IF logged = "fresh" THEN "stale" ELSE logged
  /\ filed' = IF filed = "fresh" THEN "stale" ELSE filed
  /\ lapsed' = TRUE
  /\ UNCHANGED <<at, via, makeVars, pgFailures>>

(***************************************************************************)
(* The handler.                                                            *)
(***************************************************************************)

\* A review or an outcome of a pull request makes its session at once.
MakesSession == event \in {"review", "outcome"}

\* An installation event changes the tenancy store and is answered at once, its
\* entry unmarked.  An event that is ignored is all right, and so is one that is for a
\* hook, whether the hook does its work or throws.
React(h) ==
  /\ at[h] = "react"
  /\ Go(h, CASE event = "installation" -> "answered"
             [] event \in {"ignored", "hook"} -> "markOk"
             [] event = "mention" -> "load"
             [] OTHER -> "enqueue")
  /\ madeSession' = madeSession \cup {x \in {h} : MakesSession}
  /\ UNCHANGED <<event, via, logged, filed, madeJob, lapsed, pgFailures>>

\* A mention needs the pull request; the session is made next.
LoadPullRequest(h) ==
  /\ at[h] = "load"
  /\ \/ Go(h, "enqueue") /\ madeSession' = madeSession \cup {h}
     \/ Go(h, "markFailed") /\ UNCHANGED madeSession
  /\ UNCHANGED <<event, via, logged, filed, madeJob, lapsed, pgFailures>>

\* The job is queued, or the queue throws and leaves the session without a job
\* and the delivery without a mark.
Enqueue(h) ==
  /\ at[h] = "enqueue"
  /\ \/ /\ madeJob' = madeJob \cup {h}
        /\ Go(h, IF event = "outcome" THEN "markOk" ELSE "ack")
     \/ Go(h, "error") /\ UNCHANGED madeJob
  /\ UNCHANGED <<event, via, logged, filed, madeSession, lapsed, pgFailures>>

\* The reaction and the status comment; their failures are ignored.
Acknowledge(h) ==
  /\ at[h] = "ack" /\ Go(h, "markOk")
  /\ UNCHANGED <<via, logged, filed, makeVars, lapsed, pgFailures>>

Verdict(h) == IF at[h] = "markOk" THEN "processed" ELSE "failed"

\* markDeliveryProcessed, in the file if Postgres fails.
Mark(h) ==
  /\ at[h] \in {"markOk", "markFailed"} /\ Go(h, "answered")
  /\ \/ /\ logged' = IF logged = "none" THEN "none" ELSE Verdict(h)
        /\ UNCHANGED <<filed, pgFailures>>
     \/ /\ pgFailures < MaxPgFailures /\ pgFailures' = pgFailures + 1
        /\ filed' = IF filed = "none" THEN "none" ELSE Verdict(h)
        /\ UNCHANGED logged
  /\ UNCHANGED <<via, makeVars, lapsed>>

\* The process of a handler dies.
HandlerDies(h) ==
  /\ at[h] \notin Ended \cup {"unsent"} /\ Go(h, "dead")
  /\ UNCHANGED <<via, logged, filed, makeVars, lapsed, pgFailures>>

WebhookNext ==
  \/ GrowStale
  \/ \E h \in Handlers :
       \/ Send(h) \/ PgFails(h) \/ Look(h) \/ Insert(h) \/ LookAgain(h) \/ Reset(h)
       \/ FileLook(h) \/ FileWrite(h)
       \/ React(h) \/ LoadPullRequest(h) \/ Enqueue(h) \/ Acknowledge(h) \/ Mark(h)
       \/ HandlerDies(h)

WebhookSpec == WebhookInit /\ [][WebhookNext]_webhookVars

(***************************************************************************)
(* Properties.                                                             *)
(***************************************************************************)
\* A delivery that is sent several times is new to one handler, and to one more for each
\* statement that fails: together the two reads and the insert let one through, and only a
\* handler that has lost Postgres asks the file.
FirstClaimExclusive == Cardinality({h \in Handlers : via[h] = "new"}) <= 1 + pgFailures

\* "Only skip concurrent in-flight claims" (webhook-delivery.ts:52-53): while the handler to
\* which a delivery is new has not answered, and neither has its claim grown stale nor has
\* Postgres failed, no other one works on it.
FirstHandlerAlone ==
  ~lapsed /\ pgFailures = 0 =>
    \A h \in Handlers : via[h] = "new" /\ at[h] \notin Ended =>
      \A g \in Handlers \ {h} : via[g] = "none"

\* So it is not for later ones: two redeliveries of a finished delivery both get through.
InFlightExclusive ==
  logged = "fresh" =>
    Cardinality({h \in Handlers : via[h] # "none" /\ at[h] \notin Ended}) <= 1

\* The handlers of a delivery never all leave it to another one.
DuplicateHasOwner ==
  (\E h \in Handlers : at[h] = "duplicate")
    => \E g \in Handlers : at[g] \notin {"unsent", "duplicate"}

\* A delivery that asks for a job is marked as processed only if some handler queued one,
\* whichever handler's entry it is that says so.  (One for a hook is so marked too when the
\* hook has thrown.)
ProcessedMeansQueued ==
  event \in {"review", "mention", "outcome"} /\ "processed" \in {logged, filed}
    => madeJob # {}

\* A delivery is worked on for the first time by one handler, alone; it is left to others
\* only while there is one, and is called processed only if its job was queued.
DeliveryHandled ==
  FirstClaimExclusive /\ FirstHandlerAlone /\ DuplicateHasOwner /\ ProcessedMeansQueued
=============================================================================
