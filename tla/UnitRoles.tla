------------------------------ MODULE UnitRoles ------------------------------
(***************************************************************************)
(* The roles of one unit in one call of runUnit (packages/agents/src/      *)
(* deep-agent-runner.ts and runner.ts): the pool that limits how many run  *)
(* at once (concurrency.ts), a role's time limit, its fallback from the    *)
(* tool-using agent to a single completion, the retries of that            *)
(* completion's HTTP call (packages/model-router/src/llm-retry.ts), the    *)
(* ledger of runs (session-audit.ts), and the unit's end.                  *)
(*                                                                         *)
(* A time limit does not stop the work behind it: what was abandoned goes  *)
(* on, and may end, and write to the ledger, at any later time.            *)
(***************************************************************************)
EXTENDS Naturals, FiniteSets

CONSTANTS
  NumRoles,          \* how many specialist roles the unit has
  PoolSize,          \* STEW_MAX_SPECIALISTS_PER_UNIT (default 4)
  LlmRetries         \* STEW_LLM_MAX_RETRIES (default 4)

Roles == 1..NumRoles

ASSUME UnitRolesConstants ==
  /\ NumRoles \in Nat /\ PoolSize \in Nat \ {0} /\ LlmRetries \in Nat

VARIABLES
  place,    \* where each role is in the pool and in runSpecialist
  active,   \* createLimiter's count
  tools,    \* whether the deepagents package loads
  toolsRequired, \* STEW_REQUIRE_TOOL_AGENTS, strict, or production
  httpCalls, \* HTTP calls of the role's completion
  answer,   \* what the role contributes to the unit
  ledger,   \* the entry of each role and runner in the ledger
  abandoned, \* roles whose abandoned completion still runs
  unitEnd   \* whether runUnit has returned

toolVars == <<tools, toolsRequired>>
roleVars == <<place, active, toolVars, httpCalls, answer, ledger, abandoned, unitEnd>>

Live == {r \in Roles : place[r] \in {"entered", "deep", "simple"}}
Waiting == {r \in Roles : place[r] = "waiting"}
Woken == {r \in Roles : place[r] = "woken"}

RolesTypeOK ==
  /\ place \in [Roles -> {"waiting", "woken", "entered", "deep", "simple", "settled"}]
  /\ active \in Nat
  /\ tools \in {"loaded", "missing"} /\ toolsRequired \in BOOLEAN
  /\ httpCalls \in [Roles -> 0..LlmRetries]
  /\ answer \in [Roles -> {"none", "reported", "clean", "gap", "swallowed"}]
  /\ ledger \in [Roles \X {"deep", "simple"} -> {"none", "open", "ok", "error", "truncated"}]
  /\ abandoned \subseteq Roles
  /\ unitEnd \in {"running", "completed"}

\* mapPool hands all roles to the limiter at once; the first ones get a slot.
Entrants == {r \in Roles : r <= PoolSize}

RolesInit ==
  /\ place = [r \in Roles |-> IF r \in Entrants THEN "entered" ELSE "waiting"]
  /\ active = Cardinality(Entrants)
  /\ tools \in {"loaded", "missing"} /\ toolsRequired \in BOOLEAN
  /\ httpCalls = [r \in Roles |-> 0]
  /\ answer = [r \in Roles |-> "none"]
  /\ ledger = [x \in Roles \X {"deep", "simple"} |-> "none"]
  /\ abandoned = {}
  /\ unitEnd = "running"

(***************************************************************************)
(* The pool.  A Slip_ operator is a plausible bug in the definition after  *)
(* it.                                                                     *)
(***************************************************************************)
Slip_NextBeforeDecrement(n) ==
  IF n + 1 >= PoolSize THEN {} ELSE {r \in Waiting : \A q \in Waiting : r <= q}

\* next: with n roles active, the first of those that wait is woken.
NextWaiter(n) ==
  IF n >= PoolSize THEN {} ELSE {r \in Waiting : \A q \in Waiting : r <= q}

\* A role that was woken takes its slot in a step of its own.
Enter(r) ==
  /\ r \in Woken
  /\ place' = [place EXCEPT ![r] = "entered"]
  /\ active' = active + 1
  /\ UNCHANGED <<toolVars, httpCalls, answer, ledger, abandoned, unitEnd>>

Slip_SettleWithoutFinally(r, a) ==
  /\ answer' = [answer EXCEPT ![r] = a]
  /\ active' = IF a = "swallowed" THEN active ELSE active - 1
  /\ place' = [q \in Roles |-> IF q = r THEN "settled"
                               ELSE IF q \in NextWaiter(active') THEN "woken" ELSE place[q]]
  /\ UNCHANGED <<toolVars, unitEnd>>

\* A role's answer, and its slot given back.
Settle(r, a) ==
  /\ answer' = [answer EXCEPT ![r] = a]
  /\ active' = active - 1
  /\ place' = [q \in Roles |-> IF q = r THEN "settled"
                               ELSE IF q \in NextWaiter(active - 1) THEN "woken" ELSE place[q]]
  /\ UNCHANGED <<toolVars, unitEnd>>

(***************************************************************************)
(* A role with the tool-using agent.                                       *)
(***************************************************************************)
\* The role turns to the single completion, with a ledger entry of its own.
FallBack(r, entries) ==
  /\ place' = [place EXCEPT ![r] = "simple"]
  /\ ledger' = [entries EXCEPT ![<<r, "simple">>] = "open"]
  /\ UNCHANGED <<active, toolVars, httpCalls, answer, abandoned, unitEnd>>

\* ensureDeepAgents.  Where tool agents are required the role throws, and
\* runUnit takes a role that throws for one without findings.
Launch(r) ==
  /\ place[r] = "entered"
  /\ \/ /\ tools = "loaded"
        /\ place' = [place EXCEPT ![r] = "deep"]
        /\ ledger' = [ledger EXCEPT ![<<r, "deep">>] = "open"]
        /\ UNCHANGED <<active, toolVars, httpCalls, answer, abandoned, unitEnd>>
     \/ /\ tools = "missing" /\ toolsRequired
        /\ Settle(r, "swallowed")
        /\ UNCHANGED <<httpCalls, ledger, abandoned>>
     \/ /\ tools = "missing" /\ ~toolsRequired
        /\ FallBack(r, ledger)

DeepAnswers(r) ==
  /\ place[r] = "deep"
  /\ \E a \in {"reported", "clean"} : Settle(r, a)
  /\ ledger' = [ledger EXCEPT ![<<r, "deep">>] = "ok"]
  /\ UNCHANGED <<httpCalls, abandoned>>

\* endRun with an error.
Failed(r, runner) == [ledger EXCEPT ![<<r, runner>>] = "error"]

\* The agent throws: no fallback where tool agents are required.
DeepFails(r) ==
  /\ place[r] = "deep"
  /\ \/ /\ toolsRequired
        /\ Settle(r, "swallowed") /\ ledger' = Failed(r, "deep")
        /\ UNCHANGED <<httpCalls, abandoned>>
     \/ ~toolsRequired /\ FallBack(r, Failed(r, "deep"))

\* recordSpecialistFailure and specialistTimeoutGapFinding.
TimeOut(r, runner) ==
  /\ Settle(r, "gap")
  /\ ledger' = [ledger EXCEPT ![<<r, runner>>] = "truncated"]
  /\ UNCHANGED httpCalls

\* STEW_SPECIALIST_TIMEOUT_MS.  The agent goes on, but nothing follows its end.
DeepTimesOut(r) == place[r] = "deep" /\ TimeOut(r, "deep") /\ UNCHANGED abandoned

(***************************************************************************)
(* A role as a single completion.                                          *)
(***************************************************************************)

RetriesLeft(r) == httpCalls[r] < LlmRetries

\* fetchWithLlmRetry: 429, 5xx or a broken connection, and another attempt.
RetryCall(r) ==
  /\ place[r] = "simple" \/ r \in abandoned
  /\ RetriesLeft(r)
  /\ httpCalls' = [httpCalls EXCEPT ![r] = @ + 1]
  /\ UNCHANGED <<place, active, toolVars, answer, ledger, abandoned, unitEnd>>

SimpleAnswers(r) ==
  /\ place[r] = "simple"
  /\ \E a \in {"reported", "clean"} : Settle(r, a)
  /\ ledger' = [ledger EXCEPT ![<<r, "simple">>] = "ok"]
  /\ UNCHANGED <<httpCalls, abandoned>>

\* The provider refuses for good, or retries are used up; runUnit goes on.
SimpleFails(r) ==
  /\ place[r] = "simple"
  /\ Settle(r, "swallowed")
  /\ ledger' = Failed(r, "simple")
  /\ UNCHANGED <<httpCalls, abandoned>>

SimpleTimesOut(r) ==
  place[r] = "simple" /\ TimeOut(r, "simple") /\ abandoned' = abandoned \cup {r}

\* An abandoned completion ends: it closes its ledger entry once more.
LateEnd(r) ==
  /\ r \in abandoned
  /\ abandoned' = abandoned \ {r}
  /\ \E e \in {"ok", "error"} : ledger' = [ledger EXCEPT ![<<r, "simple">>] = e]
  /\ UNCHANGED <<place, active, toolVars, httpCalls, answer, unitEnd>>

(***************************************************************************)
(* The end of the unit.                                                    *)
(***************************************************************************)
\* Promise.all over the roles.
AllSettled == \A r \in Roles : place[r] = "settled"

\* runUnit returns whatever the roles gave, so the unit is completed.
EndUnit ==
  /\ unitEnd = "running" /\ AllSettled
  /\ unitEnd' = "completed"
  /\ UNCHANGED <<place, active, toolVars, httpCalls, answer, ledger, abandoned>>

RoleStep(r) ==
  \/ Enter(r) \/ Launch(r) \/ DeepAnswers(r) \/ DeepFails(r) \/ DeepTimesOut(r)
  \/ RetryCall(r) \/ SimpleAnswers(r) \/ SimpleFails(r) \/ SimpleTimesOut(r)

RolesNext == (\E r \in Roles : RoleStep(r) \/ LateEnd(r)) \/ EndUnit

RolesSpec == RolesInit /\ [][RolesNext]_roleVars

\* A role's time limit always fires; microtasks always run.  A provider need
\* never answer.
RolesFairness ==
  /\ WF_roleVars(\E r \in Roles : Enter(r) \/ Launch(r) \/ DeepTimesOut(r) \/ SimpleTimesOut(r))
  /\ WF_roleVars(EndUnit)

(***************************************************************************)
(* Properties.                                                             *)
(***************************************************************************)
\* Never more roles at work than the pool has slots, although a slot is given
\* back before the role woken for it takes it.
PoolBound == Cardinality(Live) + Cardinality(Woken) <= PoolSize

\* No role waits while a slot is free and nobody is on the way to it.
NoIdleSlot == Waiting # {} => Cardinality(Live) + Cardinality(Woken) >= PoolSize

\* "a timed-out specialist is never mistaken for 'role looked and found
\* nothing'" (specialist-timeout.ts:26): a role with a run that was cut off
\* leaves a gap, whatever its other run did.
TruncatedLeavesGap ==
  \A r \in Roles, runner \in {"deep", "simple"} :
    ledger[<<r, runner>>] = "truncated" => answer[r] = "gap"

\* A role whose throw is swallowed shows in the ledger, as a run in error or, if
\* it could not start, by having no run; a late end does not cover it up.
LedgerShowsLoss ==
  \A r \in Roles : answer[r] = "swallowed" =>
    \/ ledger[<<r, "deep">>] = "error" \/ ledger[<<r, "simple">>] = "error"
    \/ tools = "missing" /\ ledger[<<r, "simple">>] = "none"

\* However providers behave, the unit ends.
UnitEnds == <>(unitEnd = "completed")

\* "If DeepAgents cannot load and STEW_REQUIRE_TOOL_AGENTS=1, the unit fails"
\* (docs/docs/pipeline/overview.md:185): no unit is completed without the answer
\* of any role.  The code completes it.
LostUnitFails ==
  unitEnd = "completed" => \E r \in Roles : answer[r] \in {"reported", "clean", "gap"}

\* Roles use the pool's slots, neither more nor less, and no loss of a role goes unseen.
RolesAccounted == PoolBound /\ NoIdleSlot /\ TruncatedLeavesGap /\ LedgerShowsLoss
=============================================================================
