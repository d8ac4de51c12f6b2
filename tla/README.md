# Formal models of Codesteward

Codesteward reviews pull requests with a team of LLM agents. A webhook or a user
creates a *review session*; the API writes a *job* for it into a queue in Postgres
(optionally announced by a broker); a *worker* claims the job, clones the code and runs
the *orchestrator*, which plans *units*, runs specialists on them, heals the units that
crash, saves *checkpoints*, merges and judges the *findings* and publishes a verdict.

The models here are about what can go wrong between those parts: two workers on one
job, a lease that expires under a live worker, a crash between two writes, a message
delivered twice, an answer that never arrives.

## 1. Inventory

| Component | State it keeps | Operations | Interacts with | What is hard | What makes it correct |
|---|---|---|---|---|---|
| Postgres job queue (`db/repositories/jobs.ts`, `PgJobQueue`) | table `jobs`: status, attempts, `locked_by`, `locked_at`, `available_at` | enqueue, claim, claimById, touchLock, complete, fail, reclaimStale, list | worker loop, `runReviewJob`, API | leases against live workers, read-then-write in `fail`, a listing of 200 rows, lost answers | one worker per job, fenced attempts, dead only when spent, every job settled |
| Broker queue (`HybridJobQueue`, `queue-broker.ts`) | messages, un-acked deliveries, a map of messages to ack | publish after insert, consume, ack, republish | Postgres queue | loss, duplicates, redelivery, stale republish | implements the Postgres queue; nothing depends on a delivery |
| Worker loop (`services/worker`, `worker-loop.ts`, `run-job.ts`) | the job in hand | start-up reclaim and resume, poll, run, heartbeat, settle | queue, session store, orchestrator | crash anywhere, unsettled returns, re-enqueue next to a retried row | see above; one resume per session |
| Orchestrator (`agents/orchestrator.ts`) | units, work queue, candidates, failure log | plan, run a unit, split, checkpoint, merge, judge, publish | self-heal, checkpoint store, limiter | concurrent units, saves that overtake each other, crash and resume | a finished unit is not redone, its findings counted once, all paths covered |
| Unit self-heal (`agents/self-heal.ts`) | attempt, strategy, strategies used, last error | attempt, fail, next strategy, backoff, split, skip with a gap note | orchestrator, runners | retry limit against the strategy list, resume in mid-retry | ends; every unit is done, split or reported as a gap |
| Checkpoint store (`self-heal.ts`, `db/repositories/checkpoints.ts`) | a row and a file per session | save, load, delete, listIncomplete | orchestrator, start-up resume | two copies, either write may fail, no compare-and-swap | what is loaded is the newest snapshot |
| Session store (`api/store.ts`, `db/repositories/sessions.ts`) | a cache per process over a table | create, update, reload, pushEvent | API, worker, webhooks | whole-row writes of stale copies, fire-and-forget | terminal states stay, no update is lost |
| Session routes (`api/app.ts`) | session status | create, start, cancel, resume | queue, store | cancel against a running worker, resume against a queued job | one live execution of a session |
| Specialists of a unit (`deep-agent-runner.ts`, `runner.ts`, `concurrency.ts`, `specialist-timeout.ts`, `session-audit.ts`, `llm-retry.ts`) | the limiter's count and waiters, a ledger of runs | enter, run with tools, fall back, retry, time out, answer | orchestrator, providers | abandoned work that ends late, throws that are swallowed, slots handed over between two turns | never more than the limit, nobody waits for a free slot, a cut-off run leaves a gap, the unit ends |
| Verifier and judge (`verifier.ts`, `judge.ts`, `noise.ts`) | candidates, verdicts | batch, verify, deduplicate, cap, converge | models, findings | rows without or with wrong indices, a failing batch, caps against severity | only what a model rejects is dropped, severe bugs survive, each reported once |
| Webhook deliveries (`api/webhook-delivery.ts`, `webhooks/github-handler.ts`, `jobs.ts`) | delivery ids and outcomes, a file if Postgres fails | claim, reset, handle, enqueue, mark | session store, queue | two deliveries at a time, crash after the claim, a queue that throws | one first claim, which works alone, an owner for each duplicate, `processed` means queued |
| Findings (`findings/reconcile.ts`, `noise.ts`, routes) | rows per fingerprint | converge, upsert, fix by absence, set status | orchestrator, users, threads | lists read before they are used, concurrent reviews, verdicts in between | verdicts are kept, stale rows close, a bug that is seen stays on record |
| Publication (`scm-findings-publish.ts`, `republish-scm.ts`) | threads and comments of a pull request | post as a batch, singly, as comments; match, resolve | GitHub | refused batches, lost answers, published twice | a finding has one place, counts are what is shown |
| Session events and page (`store.ts`, `app.ts`, `ui/pages/Sessions.tsx`) | events table, stream position, what the page shows | emit, insert, poll, reconnect; select, fetch | worker, browser | ids out of order, breaks in a batch, late answers | no event lost but for late rows, the page settles on the selection |
| Graph bridge (`graph-client/stdio-bridge.ts`) | a child process, pending requests | start, request, answer, time out, close | tools | answers after a timeout, exits of a child that was given up | every request settles, with its own answer |
| Outcomes and memory (`learning/consolidate-outcomes.ts`) | outcomes, memories | save, expire, consolidate | webhooks, prompts | overlapping consolidations, failures between delete and add | one memory of a bug, which says what the majority says |
| Outcomes of a merge (`api/run-outcome-job.ts`, `learning/outcomes.ts`, `outcome-store.ts`) | a row per pull request, outcomes, findings' rows | classify, insert, save, mark, close | webhooks, queue, users | two deliveries, an attempt that dies in between, marks from an old list | a merge is counted once, a closed session is whole, verdicts stand |
| Settings of an organisation (`api/org-settings-store.ts`) | one document, a row or a file | read, replace a section, write | administrators, jobs | whole-document saves that overlap or fail, a first read that creates the row | a section stays as it was saved, whatever is saved of the others |
| Runtime settings (`api/runtime-config.ts`) | a file, rows per organisation, `process.env` | save, resolve, paint | jobs, processes | painting under a running job, stale paint | a job reads its own organisation's settings, or what it can of them |
| Linked repositories (`agents/cross-repo`) | what was found, cloned, joined | follow links, materialize, rebuild, join, follow again | orchestrator, graph server, SCM | three budgets, two passes, every step may fail | nearest first, both passes find the same, each found one gets a unit or a reason |
| Trace sink (`model-router/clickhouse.ts`) | a buffer and a flush under way | record, flush | specialists, job | flushes that overlap, records after the job | each row sent once, none forgotten |
| Members and seats (`api/tenancy`, `license.ts`) | members and invitations, in Postgres and in files | set, remove, invite, accept, provision | routes, SSO, SCIM | two stores, whole-file rewrites, failed statements, seats counted early | answers hold, seats are exceeded only where none is counted |
| GitLab, Azure and Bitbucket, sandbox, policy, prompts, discourse, other UI pages, CLI, MCP server, roles and sign-on, connectors, evals, deploy | mostly request/response | | | outside services, formatting, access control | not modelled, see section 8 |

Calls go webhook/API -> session store + queue -> worker -> orchestrator -> heal ->
runners, and back through checkpoints, findings and the session row. All shared state
between processes is in Postgres; inside one process, interleaving happens at `await`.

## 2. Plan

1. **Queue core** (done): `ExclusiveQueue` (abstract), `JobQueue`, `HybridQueue`,
   with proofs. It carries every other promise: who executes what.
2. **Unit healing** (done): `SelfHeal`, the units of a review from pending to done, split
   or skipped, under every pattern of failing runners and every retry limit.
3. **Checkpoint and resume** (done): `ReviewRun`, the orchestrator's concurrent units, the
   saves that overtake each other, crash, load, resume; what may be redone and what may
   be lost.
4. **The rest of a unit's work** (done): `UnitRoles`, `GraphBridge`.
5. **Session** (done): `ReviewSession`, the session's row against its jobs and copies;
   `SessionEvents` and `SessionsPage`, what a user sees of it.
6. **Before and after** (done): `WebhookDelivery`, `SeniorVerifier`, `NoiseStack`,
   `FindingLifecycle`, `Publication`, `OutcomeMemory`, `RuntimeConfig`.
7. **Around it** (done): `CrossRepo`, `TraceSink`, `Membership`.
8. **Splits in checkpoints** (done): `SplitRun`, units that split while checkpoints are saved.
9. **Stores of an organisation** (done): `MergeOutcome`, `OrgSettings`.
10. **Proofs** (section 6): done for every safety invariant of the passing runs. Liveness stays
   with TLC.
11. **Open**: discourse, the providers other than GitHub, the outbox.

Abstract specifications: `ExclusiveQueue` (done). Others were considered (a register for
session rows, a once-only log for deliveries) and rejected, because the code does not
implement them: section 7 says where.

## 3. Modules

| Module | Models |
|---|---|
| `ExclusiveQueue` | What callers expect of the queue: one holder, only the holder settles, orphans are handed out again. No code maps to it. |
| `JobQueue` | The table `jobs` and the worker processes. |
| `HybridQueue` | `JobQueue` with a broker in front of it. |
| `JobQueueProofs` | Theorems about both, and that each implements the one before. |
| `MCJobQueue`, `MCHybridQueue` | Instances for TLC. |
| `ReviewRun` | The runs of one session: unit scheduler, checkpoints, crash, resume, publication. |
| `SelfHeal` | The units of one run: failures, strategies, splits, gaps, and the conclusion. |
| `ReviewRunProofs` | Theorems about `ReviewRun`. |
| `SplitRun` | The units of a run that split while checkpoints are saved, crashes, resumes. |
| `MCReviewRun`, `MCSelfHeal` | Instances for TLC. |
| `UnitRoles` | The specialists of one unit: pool, time limits, fallback, retries, ledger. |
| `GraphBridge` | The bridge of a process to its graph server. |
| `ReviewSession` | The row of a session, its copies in two processes, its jobs. |
| `SessionEvents` | The events of a session, from the worker to the page. |
| `SessionsPage` | What the sessions page fetches and shows. |
| `WebhookDelivery` | One GitHub delivery, sent several times. |
| `SeniorVerifier`, `NoiseStack` | What becomes of candidates before they are findings. |
| `FindingLifecycle` | The rows of one bug over several reviews. |
| `Publication` | Findings on their way to a pull request. |
| `OutcomeMemory` | The memories that outcomes leave. |
| `MergeOutcome` | What a merge says of the findings of its reviews. |
| `OrgSettings` | The document with an organisation's settings. |
| `RuntimeConfig` | The settings that jobs run under. |
| `CrossRepo` | The linked repositories a review reaches. |
| `TraceSink` | The traces of a job on their way to ClickHouse. |
| `Membership` | The members of an organisation and its invitations. |
| `MCUnits`, `MCSessions`, `MCServices` | Instances of several of these for TLC: see section 4. |
| `UnitsProofs` | Theorems about `SelfHeal`, `UnitRoles`, `GraphBridge`, and of `MCUnits`. |
| `SessionsProofs` | Theorems about `SplitRun`, `TraceSink`, `ReviewSession`, `SessionEvents`, `SessionsPage`, and of `MCSessions`. |
| `ServicesProofs` | Theorems about `WebhookDelivery`, `Publication`, `Membership`, `CrossRepo`, and of `MCServices`. |
| `FindingProofs` | Theorems about `FindingLifecycle`, `SeniorVerifier`, `NoiseStack`. |
| `LearningProofs` | Theorems about `MergeOutcome`, `OutcomeMemory`. |
| `SettingsProofs` | Theorems about `OrgSettings`, `RuntimeConfig`. |

### JobQueue

A row is a number, in the order of `created_at`. One SQL statement is one step.
`locked_at` and `available_at` are kept relative to `now()`: `lockAge` and `delay`.
A worker goes through the phases

    boot -> idle -> prepare -> review -> idle
                       |         |-> failing -> idle
                       |         `-> unheard -> failing
                       `-> idle

`boot` is `resumeIncompleteSessions`; `prepare` is `runReviewJob` up to its heartbeat
timer (credentials, clone; also a whole post-merge job); `review` is `orch.run`;
`failing` lies between the two statements of `PgJobQueue.fail`; `unheard` is the catch
block after a `complete` that committed and threw. A claim is `Claim` (the poll) or
`ClaimById` (a broker message); both share `Take`. `Abandon` is every way in which the
handler returns without settling the row: session not found (run-job.ts:213), a
post-merge job that throws, a failure path that throws, and, right after `Claim`, a claim
whose answer is lost. `Crash` kills the process; its slot restarts in `boot`.

Time: `Tick` ages locks and shortens delays. With `Stalls = FALSE` it waits for workers
that would otherwise be later than `Deadline`: `PrepareTime` without heartbeat, then one
heartbeat each `HeartbeatEvery`. With `Stalls = TRUE` there is no such bound: event loops
block, heartbeats fail (their errors are swallowed, run-job.ts:823).

`SKIP LOCKED` is not modelled: it lets a claim pass over a row that another statement is
just writing and take the next one; no property here depends on the order of claims.

### HybridQueue

Adds the messages (`wire`), the un-acked deliveries (`unacked`), the message that a
`dequeue` looks at (`hand`), the keys of `HybridJobQueue.pending` (`handles`) and the
calls in progress: `enqueue` between insert and publish (`unpublished`), `republishPending`
between its list and its last publish (`batch`). The broker is one model for NATS,
RabbitMQ and Pulsar: it may lose everything (`LoseMessages`), fail or deduplicate a publish
(`Send` or nothing), redeliver (`Redeliver`, `HCrash`) and swallow an ack.

### ReviewRun

A run is one call of `ReviewOrchestrator.run`; runs of a session are numbered. JavaScript
runs a turn at a time, so a step ends where the code awaits something that others can see.
A unit's phases are

    pending -> running -> done -> saving -> over
                  `-----------------------> over     (a cross-repo unit without checkout)

`done` is between `Object.assign(unit, result.unit)` and `persistCheckpoint` (an event is
emitted in between); `saving` is inside `CheckpointStore.save`. What a unit found, or its
gap note, is the unit itself, so candidates are a set of units.

A save copies `candidates` at its start (`Snapshot`) but holds the live unit objects. They
become JSON when the row statement is sent, after the SELECT (`SendRow`), and again when
the file is written, after `mkdir` (`WriteFile`). In between other units finish. `pc` goes
`row -> commit -> file`; `commit` is a statement on its way, in no order with those of other
connections. `found` remembers what the SELECT saw: an INSERT next to a row fails, an UPDATE
of a deleted row does nothing.

`alive` tells how far a run is: `running`, `closing` (published, last save), `closed`,
`unlinking` (row deleted, file not), `finished` (`run()` has returned, the job's row is not yet
completed), `settled` (`CompleteJob`); `rejected` when a save of the file threw,
which rejects `run()` while its other units go on, or when `complete` did (`CompleteFails`); `dead`
after a crash, which may come at any time before `settled`. A new run may start
after a dead or rejected one, and with `Overlap` next to a live one: a crashed job is
both retried by `fail` and queued anew (run-job.ts:1004, 1026). `saved` are the units whose checkpoint
was saved; the deletion of the checkpoint empties it.

Abstracted: the stages before the units, discourse, verification and judge (they work on
the candidates after the barrier), candidates of SAST, the order of the work queue, the
session row. Splits are in `SelfHeal` and `SplitRun`.

### SplitRun

Which paths a run still knows of, when units split between saves; findings are `ReviewRun`'s
and the reasons of a split `SelfHeal`'s. `status` is that of the object that `runOne` works on.
`onSplit` puts a skipped *copy* of the unit into `unitIndex` (`SplitUnit`; from then on the unit is
`leaving`); after two events `Object.assign` makes the object itself skipped, wherever it is
listed (`LeaveUnit`). A save lists the units known when it starts (`Listed`) and writes them
down when its SELECT has answered (`Json`): a list from before the split shows the object, a
later one the copy and the halves. A list from before that is written down after
`LeaveUnit` has neither; `caught` remembers those units. Runs follow each other; a running unit
is written as `pending`, as the work queue of a resumed run takes it. The row is there from the first save on, so the file is not read.

### SelfHeal

Paths are numbered in the order of the planner, a unit is an interval of them, which also
names it: `splitReviewUnit` halves an array. `attempt` and `used` are the locals of
`runUnitWithHeal`; its backoff sleeps change nothing that others see. A `Retry` with
`split_unit` is the fall-through for a unit that cannot be halved. `Conclude` is the code
after the barrier that turns unit statuses into a session status and marks earlier
findings as fixed: every path has one finding of an earlier review, and the review may or
may not report it again if it reviewed the path. The status `split` is the code's `skipped`
of a parent; the model keeps it apart so that properties can tell them apart, and `Verdict`
counts both, as the code does.

### UnitRoles

One call of `runUnit`. A role goes `waiting -> woken -> entered -> deep -> simple ->
settled`; `woken` lies between `next()` and the turn in which the waiter's promise resumes.
`active` is the limiter's count and not the number of live roles, so `PoolBound` compares
the two. `TimeOut` is the rejection of `withTimeout`: it settles the role and does not stop
what runs behind it, so `abandoned` keeps the completions that may still end (`LateEnd`) and
write to `ledger`. A throw that the pool swallows settles as `swallowed`.

### GraphBridge

Ids, the child in use, `started`, `closed` and the buffer are the fields of
`McpStdioBridge`; `kid` is what is true of each child. `Reject` is what a rejected request
does to its caller and, if it was the handshake, to whatever child is in use then. `Die`
and `OnExit` are apart, because the event comes some time after the death: `OnExit` of a
child that was given up forgets the one in use. `residue` is a line that was begun.

### ReviewSession, SessionEvents, SessionsPage

`row` is the row in Postgres, `copy` the cached object of each process, `writes` the
statements on their way (`Commit` takes any of them). `update` changes the copy at once and
sends the whole of it. A job is its number of tries; leases are in `JobQueue`. `work` is
the worker: `RunJob` .. `CompleteJob` is `runReviewJob`, `Boot` the start-up resume.

In `SessionEvents` a row has its id from `BeginInsert` and is visible from `CommitInsert`;
`late` are the rows that became visible after one with a higher id. The stream's position
is `cursor`, the browser's `lastId`; `wire` is written and not yet read, and lost by
`BreakLink`. With `inline` the stream also hears of events before they have an id.

In `SessionsPage` what is shown is named by the session it belongs to; `requested` counts
the requests under way, whose answers come in any order.

### WebhookDelivery

One step per statement: `Look`, `Insert`, `LookAgain`, `Reset` are `claimDelivery` over
Postgres, `FileLook` and `FileWrite` its fallback after `PgFails`. `via` says how a handler was
accepted: the delivery was `new` to it, by its INSERT or by an entry it adds to the file, or it came
`again` and an old entry was reset. `GrowStale` is the age
that makes a claim stale, and `lapsed` says that one did. `React` .. `Acknowledge` are the handler, `Mark` its end.
A hook that throws is no failure to the handler, so that an event for a hook says nothing of work done;
one that asks for a job says by `madeJob` whether there is one.

### SeniorVerifier, NoiseStack, FindingLifecycle

Pure functions over a free choice of what models answer (`SeniorVerifier`) and of what
candidates there are (`NoiseStack`): each step of the function is an operator, and one
action applies them. A list of `NoiseStack` is a function on places: what is left of a list keeps its
place, and what has a higher place comes later. `earlier` is the map of `priorMapFromFindings`: for each bug
the most severe row that earlier reviews left, with its status, severity and confidence, or none.
`FindingLifecycle` follows one fingerprint: reviews go
`judge -> look -> store -> list -> fix -> ended` and keep what they have read, users and
threads change rows in between. `quiet` are the reviews during which nobody else changed
anything; the properties that concurrency breaks are stated for those.

### Publication

`Plan` reads the diff; `PostBatch`, `PostSummary`, `PostSingle`, `PostComment` are the calls
to GitHub, each done, refused or lost (carried out without an answer). A finding is the
number of its place by severity.

### OutcomeMemory, MergeOutcome

`PlanOutcomes -> ListMemories -> DeleteOld -> AddNew` is a consolidation, of which several
run. `alone` is true while none overlapped.

`MergeOutcome` has one job for each delivery of a merge, whose attempts go
`queued -> insert -> save -> mark <-> update -> close -> complete -> done`. `seen` are the rows as
`AnalyzeMerge` listed them; what follows from them (`Disposition`, `TakenCareOf`, `MissesOf`) is
`analyzePrMerge`. Every step may fail (`AttemptFails`), and the job is claimed again, since its row stays
locked until the lease ends. Of a finding the model keeps status, the tag `auto-fixed` and the
reaction; whether a patch contains the suggested fix is a constant (`AppliedBy`). Each outcome says
which attempt saved it (`by`). `said` and `lapses` are history variables: what users said when no merge had
yet read the finding as open, and marks that failed.

### OrgSettings, RuntimeConfig

A request of `OrgSettings` is a number: it reads the document (`ReadDoc`, or `CreateRow` where there
is no row), reads the row again (`ReadAgain`), writes it (`WriteRow`), or the file after an error
(`WriteDocFile`). Two sections and the key of a provider stand for all: a section is the number of
the request that wrote it. `told` is what each section is to say; `undivided` are requests since whose read nobody
else has written. In `RuntimeConfig` two keys stand for all:
`policy` may be set by organisations, `knob` only by the platform. `EnvIsSet` asks for what
was set at boot; painting happens in one turn but after two reads. Each read may fail, and none throws:
the platform's file then sets nothing (runtime-config.ts:296-310), and of an organisation there is what an old
copy in a file says, or nothing (org-settings-store.ts:343-366). So the catch at run-job.ts:253 has nothing to
catch, and the job runs with what it got. A save that could not read the platform's file rewrites it
without the other keys (`PutPlatform`), and one of an organisation may end in the copy (`SavePolicy`). `AsDue` says that a call
whose result is not as it should be has failed, which `MaxConfigFailures` bounds.
`undisturbed` are the workers whose job no save came near and whose reads were answered.

### CrossRepo, TraceSink, Membership

`TakeRepo` is one turn of the loop of `planCrossRepoFanOut`: it takes the next repository (`cur`) and
those of its links that are followed (`outgoing`). `PassLink`, `LeaveOut` and `Discover` each follow one of
them. The function runs twice: `step` is `preview`, then `plan`. Of a link the model keeps its two ends and whether its globs match
the reviewed paths (`open`), do not (`filtered`), or the link is disabled (`off`). In the code a
link followed backwards is filtered by `from` and reviewed by `to` all the same.

In `TraceSink` a flush is a record in `flights`; `flushing` is the field of that name, which the
one that started a flush sets to null (`Close`), whichever flush it then names. `waiting` are
callers behind an `await flushing`; `Resume` is what follows it.

In `Membership` a request is a number with a program counter. `row`, `readFile` and `writeFile` are
`upsertMember` and `removeMember`, for whoever calls them; `read` is first the members that
`requireOrgSeatAvailable` counted and then the copy of the file. `promised`, `contended`, `missed`,
`clobbered` and `unseated` are history variables of the two properties. The invitations' file
changes in one step, unlike the members': a lost update there only loses an invitation.

## 4. Runs

| Run | Question | Result |
|---|---|---|
| `queue_timely` | Is the Postgres queue exclusive while leases outlive the silence of a live worker, also where `fail` does not find its row? | yes: it refines `ExclusiveQueue`, in which what is completed stays so; locks are kept |
| `queue_stalls` | What survives if workers stall and answers get lost? | attempts are fencing tokens, no early `dead`, every job settled in the end |
| `queue_startup` | Is the lock safe against a starting process with the default start-up lease? | no (finding) |
| `hybrid` | Does a broker change safety, and does anything depend on a delivery? | no; the poll suffices |
| `review_torn` | Can torn or overtaken checkpoints, failing saves, overlaps and crashes make a finding count twice? | no |
| `review_serial` | With one unit at a time: is a published review complete, is a unit left alone as long as its checkpoint is there, is the review published in the end? | yes |
| `review_lost` | Is a published review complete if two units run at a time? | no (finding) |
| `units` | When units fail and split, are all paths reviewed or noted, and the verdict right? Do a unit's roles keep to the pool, is every loss in the ledger, and does the unit end? Does every call of the bridge settle with its own answer? | yes |
| `heal_fixed` | Are earlier findings fixed only where a unit looked? | no (finding) |
| `sessions` | Do attempts stay bounded and does a session come to rest over stale copies and overtaken writes? Does the page get every event whose row came in order? Does it settle on what is selected? Does every trace arrive once, or is dropped for an insert that failed? Does any path slip through splits, saves and crashes, other than by the split a save was caught in? | yes; no |
| `services` | Deliveries, verifier, noise, findings, publication, merges, memories, settings, linked repositories, members: each with its own safety properties (section 3) | yes |
| `lifecycle_returns` | Is a fixed bug reopened when it returns? | no (finding) |

`MCUnits`, `MCSessions` and `MCServices` put modules that share no variable side by side. A
variable `part`, chosen at the start and never changed, names the module that runs, the
others rest in a state of theirs. A module's safety properties are named one by one and
checked as one conjunction (`PublicationTrue`, `DeliveryHandled`, `ReportSound` and so on), and
the type invariants of a run's modules as another; the reachable states are the union of those of the modules
alone, and so are the counterexamples. In `units` and `sessions`, which check liveness, the
others rest where nothing fair is enabled.

### Bounds

Two workers and two jobs show every race between two executions and between a job and
its neighbour (order, listing limit); a third worker adds no new pair, because a row
remembers one owner. `Lease` of 3 ticks with a preparation of 1 and a heartbeat of 1
leaves room for a lease that is met, just met and missed. `MaxFaults` bounds crashes,
unsettled returns and lost answers; two allow a crash during the recovery from another.
`AttemptBound` bounds claims of a row and exceeds `MaxAttempts`, so that the dead limit
and retries beyond it occur. `PublishBound` bounds messages: two or three give a duplicate
next to an original. `ListLimit = 1` with two rows (`queue_timely`) makes the older row invisible to
`fail`; such a row is retried for ever, so `queue_stalls`, which asks whether jobs settle, has
`ListLimit = 2`. `hybrid` has two workers and one job, the least that shows a message handled by
one worker while another has claimed the row.

`ReviewRun`: two units show every race between two saves, the third is one without a
checkout; two runs show a crash with its resume and an overlap, three a resume of a
resumed run. `MaxFaults` bounds crashes and failed saves. `review_serial` has
`MaxConcurrent = 1`, because with 2 the code does not keep its properties (`review_lost`,
section 7), and a working database without overlaps, because a row that is older than
the file is preferred to it and an overlapping run redoes everything; that findings survive
those, too, is proved (section 6). Interchangeable units are symmetric in `review_torn`.

`SelfHeal`: batches of three and two paths split unevenly, evenly and not at all, and their
halves split again. `maxUnitRetries` is 3 (the default) in `heal_fixed` and 4 (the least value
that reaches a split) in `units`. Sessions end, so deadlock is not checked there.

`units`: three roles and two slots, so that one waits and a slot is handed over; one retry.
Two callers of the bridge, three children and four requests: a child is given up and
replaced, and its exit, its late answer and the new child's requests meet.

`sessions`: two processes with two writes each on their way, one retry of the session, two
tries of a job, one request of a user and one fault; a second fault or request multiplies the
states without a new pair of writers. Three events, so that a late row has one before and
one behind it; one break. Two sessions on the page, two requests of a kind for each. Four
rows in a buffer that flushes itself at two, and two specialists that flush besides the job: three
callers meet at one flush. Three paths in units of two and one, limits of one and two: one unit
splits while the other saves; two crashes, so that a resumed run crashes as well.

`services`: three handlers of one delivery (two redeliveries next to an original) and one
failing statement, so that one handler asks the file while another has the row; three candidates in batches of two, so that the last batch is shorter;
three judged candidates, with caps of two, of which one bug may be known: suppressed by a memory, or from a
row (`SomeRows`) that is as severe as a severe candidate or less, closed or open, sure or not; two reviews of two pull requests with one
verdict and one push between any of their steps; four findings, two to a file, of which one
is off the diff and one behind the cap, published twice with one lost answer; three outcomes in two
repositories and two consolidations with one failure; two deliveries of one merge, each tried twice, over
three findings (one whose fix is in the patch and which may once have been fixed by a review, one in a changed file, one of
another pull request in a sensitive file) with one word of a user; three requests for the settings, with
one failing statement; two organisations, the API and a
worker, two saves, one restart and one failing read or write, with nothing, the policy or both keys set by the operator; four repositories with three links, any of those there are
between them, under two budgets, one that leaves a repository out and one that leaves
a unit out; three users, one a member and one invited, two seats, two requests and two
failures (a failed statement needs another request, or a second failure, to show). Deadlock is not checked in these runs: all these
histories end.

## 5. Fairness

`Tick`, because time passes. `Claim`, because the loop polls for ever
(worker-loop.ts:77-104, services/worker index.ts:68-90). `Handler`, because a handler whose process lives goes on:
specialists, LLM calls and clones have time limits. `Boot`, because start-up either
reclaims or logs an error and goes on. Nothing is assumed of enqueues, heartbeats, faults,
the outcome of a review or the broker. In `HybridQueue` the poll is strongly fair: a
`dequeue` looks at no more than eight messages before it polls (queue.ts:225), so a poll
that is possible again and again is made.

In `ReviewRun`, `Start` is fair because a rejected or dead run leaves a session that is
queued again (run-job.ts:1026, 1131-1187), and `Progress` because a live run goes on: specialists
have a time limit and statements return or fail. Failures are never assumed to happen or to
stop other than through `MaxFaults`. In `SelfHeal` a unit's steps and `Conclude` are fair
for the same reason; success is never assumed.

In `UnitRoles` time limits fire and turns of the event loop are run; a provider need not
answer. In `GraphBridge` requests have timers (stdio-bridge.ts:367-378) and callers go on; the
child need do nothing. In `ReviewSession` the worker goes on and is started again, Postgres
answers, and a review ends or crashes however many checkpoints come before (strong fairness:
units have time limits). In `SessionEvents` the stream polls and the browser reads and
reconnects; the worker and the inserts need not come to an end. In `SessionsPage` the list
arrives again and again and each request is answered or fails. In `TraceSink` the job ends,
`fetch` answers or gives up, and continuations run; nothing more need be recorded. The other modules state
no fairness.

## 6. Proofs

All theorems hold for every value of the constants: every number of jobs, workers, units,
findings and requests, every lease, every bound. The assumptions on constants give them
their types (sets of actors are finite; `None` is no checkpoint, `"user"` is no reviewer); that of
`SplitRun` says that the planned units cover the paths, that of `MergeOutcome` that a patch is
applied to a file which the merge changed. TLC evaluates them in every run.

Where a run puts several modules side by side, the theorem is stated of the run's own
specification (`UnitsAreSound`, `SessionsAreSound`, `ServicesAreSound` and, of parts of the last,
`LearningIsSound` and `SettingsAreSound`): a step is one of the module that runs, and the others rest in
states in which their invariants hold. The linked repositories rest with links that an instance names,
and need not be among `SomeLinks`; so `ServicesAreSound` speaks of them where they run.

**Without timing** (`Spec`): `QueueInv` is inductive. It joins `TypeOK`, `ProcInv` (a worker
has a job exactly in its busy phases, and a pending verdict `dead` only while it fails),
`RowsInv` (the first `enqueued` rows exist, only they are executed), `FreshTokens` and
`SpentInv`. `SpentInv` adds to `DeadOnlyWhenSpent` that a worker which has decided `dead`
has a spent job *now*: the row may change between the two statements of `fail`, but
attempts only grow. `StepShape` splits steps into claims and quiet steps, so that
`FreshTokens` needs two cases and not fifteen.

**With `Timely`** (no stalls, no lost answers, both leases at least
`PrepareTime + HeartbeatEvery`): `ExclInv` adds to `OwnerExecutes` that the lock of a job
in execution is no older than its worker's deadline. That makes an executed job neither
claimable nor stale (`ClaimableIsFree`), hence exclusive execution, kept locks and final
completion; and the same lemma gives the refinement of `ExclusiveQueue`
(`ImplementsExclusiveQueue`), action by action in `StepRefines`.

**The broker**: every step of `HybridQueue` is a step of `JobQueue` or a stutter
(`HybridImplementsJobQueue`), so all of the above carries over (`DuplicatesAreSafe`).
Its types hold for every loss and redelivery (`HybridTypesHold`): an acknowledgement never takes
away a delivery that is not there.

**Runs and checkpoints**: `FindingsAreHeldOnce` holds for every number of units, runs,
faults and concurrent units. The invariant adds to `NoFindingTwice` that the candidates of
a run are outcomes of units it has completed (`HeldByCompleted`), and that the same holds of
every snapshot on its way (`CarriedByCompleted`) and of row and file (`StoredByCompleted`); a
torn checkpoint errs on one side only, because units are serialised *after* the candidates
were copied. `NothingBefore` says that a run which has not started has nothing.

**One unit at a time** (`MaxConcurrent = 1`): `SerialReviewsAreComplete`. `SerialInv` says that
the candidates hold the outcome of every completed unit that has one, that the same is
true of each checkpoint on its way or stored, and that while a save is in progress no unit
but its own is: the findings it copied and the units it reads later agree. A copy of the
units in `persistCheckpoint` would make the same argument work for concurrent units.

`FinishedStaysDone` proves `FinishedNotRedone` for one unit at a time, if also no runs overlap
(`~Overlap`) and the row can be read and written (`~DbFails`); writes of the file may fail, and the
process crash, anywhere. Each condition is needed: without it TLC finds a unit that is run
again. The claim ends with the deletion of the checkpoint, which empties `saved`: a crash or a failing
`complete` between that and the end of the job starts the review from nothing (section 7).
`RedoInv` says of each unit in `saved` that everything which a later run
may start from knows it: the run that goes on (`Knows`), which is the last (`Ordered`), the save on
its way (`SaveKnows`), the row, and the file once the row is gone (`StoreKnows`). A run that stopped
leaves nothing under way (`Resting`); that is where one unit at a time is used.

**Members and seats**: `SeatsHold` and `MembersStayKept` hold for every set of users and
requests and every number of failures. For the first, `SeatInv` adds that a request that is
about to change a row has counted a free seat or has counted nothing (`CountedFree`); the one
statement of `ChangeRow` then adds at most one member, either below `SeatLimit` or with
`unseated` growing too. For the second, `KeptInv` adds what is true between the statement
and the answer of a request that nobody overlapped (`OwnRow`: the row is as it left it, and
nothing is promised yet about that user), from which the promise follows when it answers.

`CountsInv` gives the types of what those two leave out: seats can be exceeded only once for
each request that is past its statement (`Past`), so that their number is bounded.

**Linked repositories**: `FanOutIsSound`, for every set of repositories, links and budgets. `CrossInv`
holds the argument for breadth first: the depths in the queue never decrease and differ by one at most
(`QueueInOrder`), what is nearer than the repository at hand has been found (`Layered`), and what is still to
be found is at the end of a link in hand or of one of a repository in the queue (`AllFollowed`). A plan that has ended
is thus `Complete` for its links and its budget. Each repository on such a list follows from those before it
(`Grown`), so that there is only one (`PlansAgree`): the second plan finds what the first one
found, whatever was cloned in between.
`UnitsGiven` says that what was found has a unit or a reason, and that a tree which is here has
no unit only when the budget of units is spent.

**Noise stack**: `ReportIsSound`, for every list of candidates. Each part of the stack keeps what the
property needs: no bug twice (`EachOnce`), nothing that no candidate speaks for (`Vouched`), the severe ones
(`Severe`). Convergence keeps those that are news, and the property says what is not: a bug of which an earlier
review has a row as severe, closed, or open and no less sure. A severe bug that was fixed and returns is thus lost,
which is the finding of `lifecycle_returns`. That the strongest candidate of a bug is the one kept is an argument over the places: a
least place at which it fails has one before it at which it does not (`LeastNumber`). The cap drops
something severe only behind a full report of severe ones, because `Before` is an order and those ahead of a
candidate are counted (`AheadCounts`).

Two definitions of these modules recur over numbers (`Kept`, `Within`). That such functions exist at all is
`RecursionExists`, also by a least counterexample, since the library's theorem about them takes an
operator.

**Traces**: `RowsAreKeptOnce` proves the safety half of `TracesSettle` for every number of
rows and flushes: the rows of the buffer and of all flushes so far are disjoint (`Apart`),
nothing is inserted before its flush was answered (`Unanswered`), and a recorded row is
somewhere (`Kept`). `TakenOff` serves the flush of a specialist, of the job, of a caller that
waited and of the row that makes the buffer long.

**Splits**: `SplitsStayAccounted` holds for every plan, number of crashes and limit of concurrent
units. `KnowInv` says that a run, each checkpoint that is written down and the stored one know every path that was not
caught (`Knows`), and that a list not yet written would if it were written now (`Lists`). With one
unit at a time `AloneInv` adds that one unit is in hand and nothing is saved while it runs, so no
split is caught. `HalvesCover` is the lemma about `splitReviewUnit`: no path is in neither half.

**Healing**: `PathsStayCovered` rests on a lemma that the halves of an interval partition it;
`NothingIsOverlooked` and `CompletedReviewsAreWhole` on `EndInv` (skipped units are in noted
gaps, and after the conclusion nothing is pending or running). `GapsComeAfterSplits` assumes
`maxUnitRetries >= 4`; `LadderInv` counts attempts by the strategies used, so that a unit at
the limit has used the strategies before `skip_with_gap_note`.

**Roles of a unit**: `RolesStayAccounted`. `PoolInv` says that `active` is the number of roles
at work (`Live`), no more than the slots, and that nobody waits while a slot is free. `RoleShown` says
for each place of a role what the ledger may say of it; it is inductive for each role
alone, because only `LateEnd` writes about a role that has settled.

**Bridge**: `BridgeStaysSound`. `IdsAreOnes` adds to `BridgeSound` that ids are given out once, so
that what any child has still to answer under the id a caller waits for is that caller's own
request. Answers may thus be as late as they like, and from a child that was given up.

**Session, events, page**: `SessionsAreSound` adds to the splits and traces that no copy of a
session ever has more attempts than allowed, that no two events have the same row id, and the
types of what is shown. `EventsInv` says that row ids have no gaps and that only emitted events have
one, from which (no more ids than events) the next id is a new one. `SinkCounts` bounds the
flushes under way by the rows: each has some, and no row is in two.

**Deliveries and publication**: `DeliveriesAreHandled`, `PublicationsAreTrue`, for every number of
handlers or findings, every failing statement and every lost answer. The handlers to which a delivery is new
are counted with those that are about to ask the file (`Newcomers`): one for the row, once there is one, and one for each
statement that failed (`NewClaims`). While no claim is stale and no statement has failed, the one that
inserted the row finds it in flight for as long as it works, and nobody is about to reset it (`AloneAtWork`).
`WorkBefore` says that a handler of an event that asks for a job gets to the mark for success only over a queued one.

**Rows of a bug**: `RowsAgree` and `WritesStayFair`. `OwnSessions` says that two reviews never
write for the same session, and `OfReview` that a review which does not see the bug has written no row;
`UpToNow` is what a quiet review knows at each stage: what it read is still so, until its own
writes make the bug on record (`OnRecord`) or close its rows in scope.

**Verdicts**: `VerdictsAreGiven`. `VerdictInv` says that the verdicts so far are those of the
answers so far, for each batch, and that a candidate with a verdict was asked about. Different places
are different candidates (`OriginalsDiffer`). The last part, that no more is dropped than the answers drop, needs for each dropped candidate a row
that says so, and not the same row for two: rows without index go to the open places in order, which the
lemmas about `Rank` (the number of members below) turn into a bijection.

**Merges**: `MergesAreSound`. `AttemptInv` says of an attempt that has the row of its pull request
that what it saved and what it has still to save are what it counted; `PullInv`, that
outcomes are of the attempt that has the row, so that all later attempts, which fail
at the insert, add nothing; `EndedInv`, that a concluded job has saved everything; `SaidInv`, that no
merge is about to change what a user said. `said` and `lapses` carry the exceptions of section 7.

**Memories**: `MemoriesAreSound`. `PlanInv` says that what a consolidation is about to write is
what the outcomes of the same moment call for, as long as they have not changed (`current`);
`AloneInv` that, while none overlapped, only the last one is at work, that it takes away the one memory there is,
and leaves one that says what it planned (`SaysPlan`).

**Settings**: `SectionsStayKept` and `JobsReadTheStores`: what a request read is still in the
store for as long as nobody else wrote (`undivided`), and what is painted is what the stores
say unless a save came near or a read of the job failed. Reads that failed for earlier jobs and for requests of others leave
nothing behind in the policy, which is painted or removed each time; of the knob, which is never removed,
the invariant says that a process which has seen none go unset has it only while the platform sets it.

### What is only model-checked

- All liveness, for every run that states fairness: this prover has no rule for `ENABLED`. These are
  `EventuallySettled`, `EventuallyPublished`, `UnitEnds`, `CallsSettle`, `EventuallyConcluded`,
  `SessionComesToRest`, `EventsArrive`, `PageSettles` and `TracesSettle`.
- The properties that runs find violated (section 7), which are false.

## 7. Where code and documentation disagree

- **Start-up reclaim** (`queue_startup`). run-job.ts:1074 frees jobs "left `running` by a
  dead worker". The test is a lock older than 60 s; a live worker's lock reaches 60 s
  before every heartbeat, and more while it clones. A scale-out or a rolling restart can
  thus start a second execution of a running job; the first one then settles a row
  it does not own. The proof needs `PrepareTime + HeartbeatEvery =< StartupLease`.
- `STEW_JOB_LEASE_MS` defaults to 45 minutes (jobs.ts:110), not to the 120 s of
  session-audit.md:68.
- A `complete` whose answer is lost leads to `fail` (run-job.ts:870, 1004), which puts the
  completed row back to `pending`: the review is run again. No document speaks of it;
  `CompletedIsFinal` is proved only without lost answers.
- **Torn checkpoints** (`review_lost`). self-heal.ts:3 promises "unit results + partial
  findings for resume after crash". The units of a checkpoint are newer than its findings,
  so a crash can lose the findings of a completed unit for good. Copying the units with the
  candidates in `persistCheckpoint` would make both of one moment.
- **Done, and done again**. overview.md:98 ("resume without redoing finished units"), against the end of a
  review: its checkpoint is deleted (orchestrator.ts:1679-1681) before the session is updated and the job completed
  (run-job.ts:843-870). A crash or a failing `complete` in between leaves a job that is claimed again without a
  checkpoint, every unit is run again and the review is published a second time. `FinishedNotRedone` therefore ends with
  the deletion; `ReviewRun` has the steps (`CompleteJob`, `CompleteFails`, `Crash`).
- **Overtaken saves**. overview.md:98 ("resume without redoing finished units"), against
  `saveSession`, which increments `version` without comparing it: `FinishedNotRedone`, which
  `review_serial` checks, does not hold with two units at a time.
- **Split never reached**. overview.md:539-540 and the strategy table of
  README-self-heal.md, against the default limit of 3, which counts the first try:
  `GapOnlyAfterSplit`, which is proved for limits of four or more, does not hold with 3.
- **Fixed without a look** (`heal_fixed`). reconcile.ts:95-96, against `reviewedPaths`, which
  holds the paths of units that were given up.

- **Returned bugs** (`lifecycle_returns`). reconcile.ts:199 reopens what was fixed and returns,
  but noise.ts:211-226 has dropped it before, unless it is more severe.

Stated in the modules and not true of the code; none is the subject of a run:

- `Publication!NeverDropped`: "findings are never dropped silently"
  (scm-findings-publish.ts:4). After a batch that was refused for another reason than a
  line, comments are taken back to findings by path (scm-findings-publish.ts:423), so that of
  two in one file only the first is posted. `DroppedOnlyBehindAnother`, a part of `PublicationTrue`, is what holds.
- `GraphBridge!OneChild`: "one child per worker/API process" (stdio-bridge.ts:408). Callers
  that start at the same time each spawn one, and an exit event forgets the one in use.
- `ReviewSession!CancelledResumable`: "Resume a failed/cancelled session" (cli/src/index.ts:104);
  the API refuses a cancelled one (self-heal.ts:798-822).
- `WebhookDelivery!InFlightExclusive`: "Only skip concurrent in-flight claims"
  (webhook-delivery.ts:52-53). Two redeliveries of a finished delivery are both accepted, and so are a
  new one and another that has lost Postgres and finds no entry in the file. `FirstHandlerAlone` is what holds.
- `UnitRoles!LostUnitFails`: without DeepAgents and with STEW_REQUIRE_TOOL_AGENTS "the unit
  fails" (overview.md:185). Every role throws, the pool swallows it, the unit is completed.
- `RuntimeConfig!KnobsFollowStores` and `InlineKeepsPolicy`: the order of runtime-config.ts:8-13
  and the promise of line 638. A worker keeps an unset knob until it restarts, and an inline
  worker's job is repainted by any organisation that saves its settings. A read that fails counts as
  "nothing is set" for the whole job, and one before a save of the platform's settings drops the other keys from their file.
- `SectionsKept` excepts saves that overlap, saves of what was read from the file, and a save that the first
  read of an organisation overwrites with an empty row (configs.ts:57-60). None of them is answered with an error, and
  what went to the file after one is not seen by later reads, which find the row
  (org-settings-store.ts:413-419).
- `OutcomeMemory`: "Idempotent" (consolidate-outcomes.ts:315) holds for consolidations one
  after the other; two that overlap may leave two memories of a bug.
- `MembersKept` makes two exceptions that no document mentions: an answer "removed" or "added" stands for
  nothing where the statement failed (it is only logged, orgs.ts:387 and 409), and the file may be
  overwritten by a request about somebody else.
- specialist-timeout.ts:26 says a timed-out run is never mistaken for a clean one. The
  finding of the gap stays, but the ledger's entry is overwritten when the abandoned
  completion ends.

Seen while reading, and not the subject of a run because they restate a missing guard:

- multi-tenant-workers.md:25 says that workers only claim jobs for listed orgs; `claimById`,
  the way of a broker message, has no filter for orgs.
- queue.ts:279 says that Postgres owns the retry schedule; `claimById` does not look at
  `available_at`, so a second message of a job undercuts its retry delay.
- noise.ts:138 "keep highest severity/confidence" keeps one candidate of a fingerprint: one that
  is surer and less severe replaces one that is more severe if it comes later.
- A hook that throws, of a review thread or an advisory, is answered with `ok: true` (github-handler.ts:685-696,
  791-802), and its delivery is marked as processed (app.ts:3038) although nothing was done.
- The nit cap leaves half as many nits as it says (noise.ts:200).
- A verdict `upgrade` of the verifier changes no severity.
- `listInvitations` reads only the file (orgs.ts:522), while invitations are accepted from Postgres first:
  what was accepted there stays in the list.
- `flush` returns at once when the buffer is empty although rows are still being inserted
  (clickhouse.ts:313), so the end of a job does not wait for them.
- `readyRepoIds` holds repositories whose graph could not be rebuilt (prepare.ts:120); links to them are
  written all the same.
- outcome-store.ts:145 announces an "idempotent merge redelivery". The index on pull requests is unique
  (migrations/015_review_outcomes.sql:22), and `ON CONFLICT (id)` never applies to an id that is new, so
  that every later delivery or attempt of a merge fails at the insert, is claimed again after each lease, and never
  ends (a claim has no limit of attempts); what the first attempt had not saved stays unsaved. That is
  why `MergeCountedOnce` holds.
- Outcomes of the gate (outcomes.ts:198-248) are out of reach: nothing gives the job a `gateVerdict`, and its
  session has no verdict yet. A `suppressed` finding counts as posted and gets no outcome.
- A finding that was fixed by a review and reopened keeps its tag `auto-fixed:` and counts as fixed at the
  merge (outcomes.ts:107), without being marked.
- connectors.md:110 says that the consolidator may promote important security advisories; it
  drops every one, for their confidence is 0.45 (github-outcome-hooks.ts:149) and the least it
  looks at is 0.5 (consolidate-outcomes.ts:157).
- With two units at a time a checkpoint that was caught in a split lists the parent, by then
  skipped, without its halves (orchestrator.ts:701-710). After a crash the paths of that unit belong to no unit,
  and the review is published without them and without a gap. The cause is that of
  `review_lost`; it takes `STEW_UNIT_MAX_RETRIES` of 4 or more, as any split does.
  `SplitsAccounted` therefore excepts `caught`.
- The parent of a split has status `skipped` and makes a session without any gap
  `completed_with_errors` (orchestrator.ts:1424).

## 8. Not modelled

- What models answer, prompts, discourse, SAST tools: judgement and outside services; the
  models take their outcome as a free choice.
- GitLab, Azure DevOps and Bitbucket: their handlers and posts follow GitHub's order but
  swallow failures one by one; clones and diffs are outside services.
- The token budget (`budget.ts`): nothing in the repository sets a limit for it.
- The outbox and the file stores of a single process: written and read in one turn.
- Roles, access control, sign-on, API keys, the signing of licences, Keycloak's own members, sandbox, path
  jail: checks of one request, without state that several actors change. SCIM's changes of members
  are `Membership`'s `provision` and `remove`.
- The UI apart from the sessions page, CLI, MCP server, SARIF, reports, evaluation,
  deployment: presentation and packaging.
- The contents of a job (`payload`), logging, Langfuse, metrics.
