------------------------------ MODULE RuntimeConfig ------------------------------
(***************************************************************************)
(* Settings at run time (packages/api/src/runtime-config.ts): the process  *)
(* environment at boot, the install-wide settings in a file, and the       *)
(* settings of an organisation.  A job's code reads process.env, which the *)
(* job's start paints with what the three say (run-job.ts:252); so does    *)
(* every request that saves settings, in the process of the API, where an  *)
(* inline worker may be in the middle of a job of another organisation.    *)
(*                                                                         *)
(* Two keys stand for all: "policy", which organisations may set, and      *)
(* "knob", which only the platform may.                                    *)
(***************************************************************************)
EXTENDS Naturals, FiniteSets

CONSTANTS
  Tenants,    \* organisations
  Api,        \* the process of the API
  JobWorkers, \* the processes that run jobs; with an inline worker the API is one
  Settings,   \* what a key may be set to
  MaxEdits,   \* bound: saves of settings
  MaxRestarts, \* bound: restarts of processes
  MaxConfigFailures \* bound: reads and writes of the stores that fail

Processes == JobWorkers \cup {Api}
Keys == {"policy", "knob"}
Stored == Settings \cup {"unset"}

ASSUME RuntimeConfigConstants ==
  /\ IsFiniteSet(Tenants) /\ Tenants # {} /\ IsFiniteSet(JobWorkers)
  /\ Settings \cap {"unset", "pinned"} = {}
  /\ MaxEdits \in Nat /\ MaxRestarts \in Nat /\ MaxConfigFailures \in Nat

VARIABLES
  pins,      \* keys that the operator sets in the environment of every process
  platform,  \* platform-runtime.json
  policies,  \* the settings of each organisation
  env,       \* process.env of each process
  job,       \* the job of each worker, and how far its start is
  admin,     \* the request under way that saves settings of an organisation
  undisturbed, \* workers whose job no save has come near, and whose reads were answered
  unsetSeen, \* processes that were running when a knob went unset elsewhere
  edits,     \* saves so far
  restarts,  \* restarts so far
  configFailures \* reads that failed so far

configVars ==
  <<pins, platform, policies, env, job, admin, undisturbed, unsetSeen, edits, restarts,
    configFailures>>

NothingSet == [k \in Keys |-> "unset"]
NoJob == [stage |-> "none"]
NoRequest == [stage |-> "none"]
Jobs == [stage : {"readOrg", "paint"}, tenant : Tenants, platform : [Keys -> Stored],
         policy : Stored]
        \cup [stage : {"running"}, tenant : Tenants, painted : Stored]
Requests == [stage : {"save", "readOrg", "paint"}, tenant : Tenants, value : Stored,
             platform : [Keys -> Stored], policy : Stored]

ConfigTypeOK ==
  /\ pins \subseteq Keys
  /\ platform \in [Keys -> Stored] /\ policies \in [Tenants -> Stored]
  /\ env \in [Processes -> [Keys -> Stored \cup {"pinned"}]]
  /\ \A p \in Processes, k \in Keys : env[p][k] = "pinned" <=> k \in pins
  /\ job \in [JobWorkers -> Jobs \cup {NoJob}]
  /\ admin \in Requests \cup {NoRequest}
  /\ undisturbed \subseteq JobWorkers /\ unsetSeen \subseteq Processes
  /\ edits \in 0..MaxEdits /\ restarts \in 0..MaxRestarts
  /\ configFailures \in 0..MaxConfigFailures

AtBoot == [k \in Keys |-> IF k \in pins THEN "pinned" ELSE "unset"]

ConfigInit ==
  /\ pins \in SUBSET Keys
  /\ platform = NothingSet /\ policies = [t \in Tenants |-> "unset"]
  /\ env = [p \in Processes |-> AtBoot]
  /\ job = [w \in JobWorkers |-> NoJob] /\ admin = NoRequest
  /\ undisturbed = {} /\ unsetSeen = {} /\ edits = 0 /\ restarts = 0 /\ configFailures = 0

(***************************************************************************)
(* Resolution and painting.  A Slip_ operator is a plausible bug in the    *)
(* definition after it.                                                    *)
(***************************************************************************)

\* envIsSet asks for the keys at boot, not for those painted since.
EnvIsSet(p, k) == k \in pins

\* resolveRuntimeValue below the environment; "unset" is the default of the catalog.
Resolve(k, fromPlatform, fromOrg) ==
  IF fromPlatform # "unset" THEN fromPlatform
  ELSE IF k = "policy" THEN fromOrg ELSE "unset"

Slip_KeepsPainted(p, k, value) == IF value # "unset" THEN value ELSE env[p][k]

\* applyOrgRuntimeToProcess removes what no store sets, of the policies only.
Painted(p, k, value) ==
  IF value # "unset" THEN value ELSE IF k = "policy" THEN "unset" ELSE env[p][k]

Paint(p, fromPlatform, fromOrg) ==
  env' = [env EXCEPT ![p] = [k \in Keys |->
    IF EnvIsSet(p, k) THEN env[p][k]
    ELSE Painted(p, k, Resolve(k, fromPlatform[k], fromOrg))]]

(***************************************************************************)
(* Jobs.  The start of a job reads the file, then the organisation's row,  *)
(* and paints at once.  Neither read throws.  A file that is not there, or *)
(* is just being rewritten, sets nothing; where the row cannot be read,    *)
(* there is the copy in a file, if any, from whenever a save had to make   *)
(* do with it.  The job goes on with that.                                 *)
(***************************************************************************)
ConfigFails == configFailures < MaxConfigFailures /\ configFailures' = configFailures + 1

\* Unless what is read, or is kept of a write, is what it should be, the call has failed.
AsDue(got, due) == IF got = due THEN UNCHANGED configFailures ELSE ConfigFails

StartJob(w, t) ==
  /\ job[w] = NoJob
  /\ \E read \in {platform, NothingSet} :
       /\ AsDue(read, platform)
       /\ job' = [job EXCEPT ![w] = [stage |-> "readOrg", tenant |-> t, platform |-> read,
                                     policy |-> "unset"]]
       /\ undisturbed' = IF admin = NoRequest /\ read = platform
                         THEN undisturbed \cup {w} ELSE undisturbed
  /\ UNCHANGED <<pins, platform, policies, env, admin, unsetSeen, edits, restarts>>

ReadPolicy(w) ==
  /\ job[w].stage = "readOrg"
  /\ \E read \in Stored :
       /\ AsDue(read, policies[job[w].tenant])
       /\ job' = [job EXCEPT ![w].stage = "paint", ![w].policy = read]
       /\ undisturbed' = IF read = policies[job[w].tenant]
                         THEN undisturbed ELSE undisturbed \ {w}
  /\ UNCHANGED <<pins, platform, policies, env, admin, unsetSeen, edits, restarts>>

PaintForJob(w) ==
  /\ job[w].stage = "paint"
  /\ Paint(w, job[w].platform, job[w].policy)
  /\ job' = [job EXCEPT ![w] =
       [stage |-> "running", tenant |-> job[w].tenant,
        painted |-> Resolve("policy", job[w].platform["policy"], job[w].policy)]]
  /\ UNCHANGED <<pins, platform, policies, admin, undisturbed, unsetSeen, edits, restarts,
                 configFailures>>

EndJob(w) ==
  /\ job[w].stage = "running" /\ job' = [job EXCEPT ![w] = NoJob]
  /\ undisturbed' = undisturbed \ {w}
  /\ UNCHANGED <<pins, platform, policies, env, admin, unsetSeen, edits, restarts, configFailures>>

(***************************************************************************)
(* Saving settings, in the process of the API.                             *)
(***************************************************************************)
MidApply == \/ admin.stage \in {"readOrg", "paint"}
            \/ Api \in JobWorkers /\ job[Api].stage \in {"readOrg", "paint"}

\* putPlatformRuntimeConfig: the file, then this process; a key that is unset is
\* removed from it, and only from it.  If the file could not be read, it is rewritten
\* without what it said.
PutPlatform(k, value) ==
  /\ edits < MaxEdits /\ edits' = edits + 1
  /\ \E read \in {platform, NothingSet} :
       AsDue(read, platform) /\ platform' = [read EXCEPT ![k] = value]
  /\ env' = [env EXCEPT ![Api] =
               [x \in Keys |-> IF EnvIsSet(Api, x) THEN env[Api][x] ELSE platform'[x]]]
  /\ unsetSeen' = IF platform["knob"] # "unset" /\ platform'["knob"] = "unset"
                  THEN unsetSeen \cup {p \in Processes : p # Api \/ MidApply}
                  ELSE unsetSeen
  /\ undisturbed' = {}
  /\ UNCHANGED <<pins, policies, job, admin, restarts>>

\* putOrgRuntimeConfig: refused for a policy that the platform or the environment
\* sets, unless it is to be unset.
PutPolicy(t, value) ==
  /\ admin = NoRequest
  /\ \E read \in {platform, NothingSet} :
       /\ AsDue(read, platform)
       /\ value = "unset" \/ (read["policy"] = "unset" /\ ~EnvIsSet(Api, "policy"))
  /\ edits < MaxEdits /\ edits' = edits + 1
  /\ admin' = [stage |-> "save", tenant |-> t, value |-> value, platform |-> NothingSet,
               policy |-> "unset"]
  /\ undisturbed' = {}
  /\ UNCHANGED <<pins, platform, policies, env, job, unsetSeen, restarts>>

\* The row is written, or a copy in a file instead, and the platform's file read again.
SavePolicy ==
  /\ admin.stage = "save"
  /\ \E kept \in {admin.value, policies[admin.tenant]}, read \in {platform, NothingSet} :
       /\ AsDue(<<kept, read>>, <<admin.value, platform>>)
       /\ policies' = [policies EXCEPT ![admin.tenant] = kept]
       /\ admin' = [admin EXCEPT !.stage = "readOrg", !.platform = read]
  /\ UNCHANGED <<pins, platform, env, job, undisturbed, unsetSeen, edits, restarts>>

\* What has just been saved, or, if that cannot be read, the copy in the file.
ReadBack ==
  /\ admin.stage = "readOrg"
  /\ \E read \in Stored :
       /\ AsDue(read, policies[admin.tenant])
       /\ admin' = [admin EXCEPT !.stage = "paint", !.policy = read]
  /\ UNCHANGED <<pins, platform, policies, env, job, undisturbed, unsetSeen, edits, restarts>>

PaintForRequest ==
  /\ admin.stage = "paint" /\ admin' = NoRequest
  /\ Paint(Api, admin.platform, admin.policy)
  /\ UNCHANGED <<pins, platform, policies, job, undisturbed, unsetSeen, edits, restarts,
                 configFailures>>

\* A process comes up again with what the operator sets; the API's paints itself for
\* the default organisation before it serves anything, with what it can read.
RestartProcess(p) ==
  /\ restarts < MaxRestarts /\ restarts' = restarts + 1
  /\ \E read \in {platform, NothingSet}, t \in Tenants, policy \in Stored :
       /\ AsDue(<<read, policy>>, <<platform, policies[t]>>)
       /\ env' = [env EXCEPT ![p] = [k \in Keys |->
            IF k \in pins THEN "pinned"
            ELSE IF p = Api THEN Resolve(k, read[k], policy) ELSE "unset"]]
  /\ job' = [w \in JobWorkers |-> IF w = p THEN NoJob ELSE job[w]]
  /\ admin' = IF p = Api THEN NoRequest ELSE admin
  /\ undisturbed' = undisturbed \ {p} /\ unsetSeen' = unsetSeen \ {p}
  /\ UNCHANGED <<pins, platform, policies, edits>>

ConfigNext ==
  \/ \E w \in JobWorkers : \/ \E t \in Tenants : StartJob(w, t)
                           \/ ReadPolicy(w) \/ PaintForJob(w) \/ EndJob(w)
  \/ \E value \in Stored : \/ \E k \in Keys : PutPlatform(k, value)
                           \/ \E t \in Tenants : PutPolicy(t, value)
  \/ SavePolicy \/ ReadBack \/ PaintForRequest
  \/ \E p \in Processes : RestartProcess(p)

ConfigSpec == ConfigInit /\ [][ConfigNext]_configVars

(***************************************************************************)
(* Properties.                                                             *)
(***************************************************************************)
RunningJobs == {w \in JobWorkers : job[w].stage = "running"}
Effective(k, t) == IF k \in pins THEN "pinned" ELSE Resolve(k, platform[k], policies[t])

\* "Avoid sticky values from a previous job's org override" (runtime-config.ts:650):
\* in a dedicated worker a job reads its own organisation's policy from its start to
\* its end, or what it could read of it: whatever was painted for jobs before it and is
\* saved meanwhile.
JobKeepsPolicy ==
  \A w \in RunningJobs : w # Api =>
    env[w]["policy"] = IF "policy" \in pins THEN "pinned" ELSE job[w].painted

\* A job that starts when no save is under way, during which none comes, and whose reads of
\* the file and of the organisation's row are answered, runs to its end with what the stores
\* say, in the API's inline worker too and whatever jobs before it could not read; a knob
\* only if it has not gone unset elsewhere since the process came up.
JobReadsStores ==
  \A w \in RunningJobs \cap undisturbed :
    /\ env[w]["policy"] = Effective("policy", job[w].tenant)
    /\ w \notin unsetSeen => env[w]["knob"] = Effective("knob", job[w].tenant)

\* "Resolution order per key: ... 4. Catalog default" (runtime-config.ts:8-13): so it
\* would be for every knob.  A worker keeps a knob that was unset until it restarts.
KnobsFollowStores ==
  \A w \in RunningJobs \cap undisturbed :
    env[w]["knob"] = Effective("knob", job[w].tenant)

\* "Paint process.env for a review job: platform install knobs + this org's overrides"
\* (runtime-config.ts:638).  Not so for the inline worker when another organisation
\* saves its settings.
InlineKeepsPolicy ==
  \A w \in RunningJobs :
    env[w]["policy"] = IF "policy" \in pins THEN "pinned" ELSE job[w].painted

\* A job reads the settings that hold for its organisation.
JobsReadTheirOwn == JobKeepsPolicy /\ JobReadsStores
=============================================================================
