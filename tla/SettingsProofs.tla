---------------------------- MODULE SettingsProofs ----------------------------
(***************************************************************************)
(* Settings, for every set of organisations, processes and values and      *)
(* every number of saves, restarts and failures: a job reads those of its  *)
(* organisation, and a section says what its last save said.               *)
(***************************************************************************)
EXTENDS MCServices, TLAPS

(***************************************************************************)
(* Sections.                                                               *)
(***************************************************************************)
\* A request that saves has something to save.
SavesAsk ==
  \A r \in DocRequests :
    docRequest[r].stage \in {"again", "createAgain", "write"} => docRequest[r].ask # "look"

\* Nobody has written since an undivided request has read, so it has read what there is.
UndividedRead ==
  \A r \in undivided :
    /\ hasRow /\ docRequest[r].stage \notin {"none", "read", "create", "createAgain"}
    /\ docRequest[r].stage \in {"again", "write"} => docRequest[r].prev = docRow

\* Nothing is told of a row that is not there.
NothingToldYet == ~hasRow => docRow = EmptyDoc /\ told = EmptyDoc

SectionInv == SettingsTypeOK /\ SavesAsk /\ UndividedRead /\ NothingToldYet /\ SectionsKept

LEMMA EmptyDocType == EmptyDoc \in Docs /\ 0 \in 0..Unsure /\ Unsure \in 0..Unsure
BY SettingsConstants DEF EmptyDoc, Docs, Unsure

LEMMA DocSavedType ==
  ASSUME NEW r \in DocRequests, NEW prev \in Docs
  PROVE  DocSaved(r, prev) \in Docs
<1>1. r \in 0..NumDocRequests /\ 0 \in 0..NumDocRequests
  BY SettingsConstants DEF DocRequests
<1>2. prev["key"] \in 0..NumDocRequests
  BY DEF Docs, Sections
<1>3. KeyAfter(r, prev) \in 0..NumDocRequests
  BY <1>1, <1>2 DEF KeyAfter
<1> QED BY <1>1, <1>3 DEF DocSaved, Docs, Sections

\* Each section after a save: what the request says, or what it read.
LEMMA DocSavedSections ==
  ASSUME NEW r \in DocRequests, NEW prev \in Docs, NEW s \in Sections,
         docRequest[r].ask \in Asks \ {"look"}
  PROVE  DocSaved(r, prev)[s] =
           IF s \in AboutSections(docRequest[r].ask)
           THEN IF s = "key" THEN KeyAfter(r, EmptyDoc) ELSE r
           ELSE prev[s]
<1>1. CASE docRequest[r].ask = "rest"
  BY <1>1 DEF DocSaved, Docs, Sections, AboutSections
<1>2. CASE docRequest[r].ask = "models"
  BY <1>2 DEF DocSaved, Docs, Sections, AboutSections, KeyAfter
<1>3. CASE docRequest[r].ask = "modelsWithKey"
  BY <1>3 DEF DocSaved, Docs, Sections, AboutSections, KeyAfter
<1>4. CASE docRequest[r].ask = "modelsClearKey"
  BY <1>4 DEF DocSaved, Docs, Sections, AboutSections, KeyAfter
<1> QED BY <1>1, <1>2, <1>3, <1>4 DEF Asks

LEMMA SectionStart == SettingsInit => SectionInv
<1> SUFFICES ASSUME SettingsInit PROVE SectionInv
  OBVIOUS
<1> USE DEF SettingsInit
<1>1. SettingsTypeOK
  <2>1. docRequest \in [DocRequests -> [ask : Asks, prev : Docs,
          stage : {"none", "read", "create", "again", "createAgain", "write", "file", "done"}]]
    BY EmptyDocType DEF Asks
  <2>2. told \in [Sections -> 0..Unsure] /\ docFailures \in 0..MaxDocFailures
    BY EmptyDocType, SettingsConstants DEF EmptyDoc
  <2> QED BY <2>1, <2>2, EmptyDocType DEF SettingsTypeOK
<1>2. SavesAsk /\ UndividedRead /\ NothingToldYet /\ SectionsKept
  BY DEF SavesAsk, UndividedRead, NothingToldYet, SectionsKept
<1> QED BY <1>1, <1>2 DEF SectionInv

DocStages == {"none", "read", "create", "again", "createAgain", "write", "file", "done"}
DocStates == [ask : Asks, prev : Docs, stage : DocStages]

\* What is known of all requests after a step of r, whose state is then q.
StepsTo(r, q) ==
  /\ docRequest' \in [DocRequests -> DocStates] /\ docRequest'[r] = q
  /\ \A d \in DocRequests \ {r} : docRequest'[d] = docRequest[d]

LEMMA GoesTo ==
  ASSUME SettingsTypeOK, NEW r \in DocRequests, NEW next \in DocStages, DocGoes(r, next)
  PROVE  StepsTo(r, [ask |-> docRequest[r].ask, prev |-> docRequest[r].prev, stage |-> next])
BY DEF SettingsTypeOK, DocGoes, StepsTo, DocStates, DocStages

LEMMA EndsWell ==
  ASSUME SettingsTypeOK, NEW r \in DocRequests, DocEnds(r)
  PROVE  StepsTo(r, [ask |-> "look", prev |-> EmptyDoc, stage |-> "done"])
BY EmptyDocType DEF SettingsTypeOK, DocEnds, StepsTo, DocStates, DocStages, Asks

LEMMA ReadsOn ==
  ASSUME SettingsTypeOK, NEW r \in DocRequests, NEW prev \in Docs, DocRead(r, prev)
  PROVE  StepsTo(r, IF docRequest[r].ask = "look"
                    THEN [ask |-> "look", prev |-> EmptyDoc, stage |-> "done"]
                    ELSE [ask |-> docRequest[r].ask, prev |-> prev, stage |-> "again"])
<1>1. CASE docRequest[r].ask = "look"
  BY <1>1, EndsWell DEF DocRead
<1>2. CASE docRequest[r].ask # "look"
  BY <1>2 DEF SettingsTypeOK, DocRead, StepsTo, DocStates, DocStages
<1> QED BY <1>1, <1>2

LEMMA FailureCounts ==
  ASSUME SettingsTypeOK, DocFails \/ UNCHANGED docFailures
  PROVE  docFailures' \in 0..MaxDocFailures
BY SettingsConstants DEF DocFails, SettingsTypeOK

\* A request goes on, and neither the row nor what it is to say changes.
LEMMA SectionMove ==
  ASSUME SectionInv, NEW r \in DocRequests, NEW q, StepsTo(r, q),
         q.stage \in {"again", "createAgain", "write"} => q.ask # "look",
         undivided' \in {undivided, undivided \cup {r}}, docFile' \in Docs,
         DocFails \/ UNCHANGED docFailures,
         r \in undivided' => /\ hasRow /\ q.stage \notin {"none", "read", "create", "createAgain"}
                             /\ q.stage \in {"again", "write"} => q.prev = docRow,
         UNCHANGED <<hasRow, docRow, told>>
  PROVE  SectionInv'
<1> USE DEF SectionInv, StepsTo
<1>1. SettingsTypeOK'
  BY FailureCounts DEF SettingsTypeOK, DocStates, DocStages
<1>3. SavesAsk'
  BY DEF SavesAsk
<1>4. UndividedRead'
  BY DEF UndividedRead, SettingsTypeOK
<1>5. NothingToldYet' /\ SectionsKept'
  BY DEF NothingToldYet, SectionsKept
<1> QED BY <1>1, <1>3, <1>4, <1>5

LEMMA SectionAsk ==
  ASSUME SectionInv, NEW r \in DocRequests, NEW ask \in Asks, AskFor(r, ask)
  PROVE  SectionInv'
<1> DEFINE q == [ask |-> ask, prev |-> docRequest[r].prev, stage |-> "read"]
<1>1. StepsTo(r, q)
  BY DEF SectionInv, SettingsTypeOK, AskFor, StepsTo, DocStates, DocStages
<1>2. r \notin undivided
  BY DEF SectionInv, UndividedRead, AskFor, DocAt
<1> QED BY <1>1, <1>2, SectionMove DEF AskFor, SectionInv, SettingsTypeOK

LEMMA SectionRead ==
  ASSUME SectionInv, NEW r \in DocRequests, ReadDoc(r)
  PROVE  SectionInv'
<1> USE DEF SectionInv, ReadDoc, DocAt
<1>1. /\ r \notin undivided /\ docRow \in Docs /\ docFile \in Docs
      /\ SettingsTypeOK /\ docRequest[r].stage = "read"
  BY DEF UndividedRead, SettingsTypeOK
<1>2. CASE hasRow /\ DocRead(r, docRow) /\ undivided' = undivided \cup {r} /\ UNCHANGED docFailures
  BY <1>1, <1>2, ReadsOn, SectionMove
<1>3. CASE ~hasRow /\ DocGoes(r, "create") /\ UNCHANGED <<undivided, docFailures>>
  BY <1>1, <1>3, GoesTo, SectionMove DEF DocStages
<1>4. CASE DocFails /\ DocRead(r, docFile) /\ UNCHANGED undivided
  BY <1>1, <1>4, ReadsOn, SectionMove
<1> QED BY <1>2, <1>3, <1>4

\* The empty row over none, or over a row about which nothing is promised any more.
LEMMA SectionCreate ==
  ASSUME SectionInv, NEW r \in DocRequests, CreateRow(r)
  PROVE  SectionInv'
<1> USE DEF SectionInv, DocAt
<1> DEFINE d == docRequest[r]
<1>1. /\ r \notin undivided /\ d.stage \in {"create", "createAgain"}
      /\ docFile \in Docs /\ EmptyDoc \in Docs /\ docFile' = docFile /\ SettingsTypeOK
  BY EmptyDocType DEF UndividedRead, SettingsTypeOK, CreateRow
<1>2. d.stage = "createAgain" => d.ask # "look"
  BY DEF SavesAsk
<1>3. CASE DocFails /\ UNCHANGED <<hasRow, docRow, undivided, told>>
           /\ IF d.stage = "create" THEN DocRead(r, docFile) ELSE DocGoes(r, "file")
  <2>1. CASE d.stage = "create"
    BY <1>1, <1>3, <2>1, ReadsOn, SectionMove
  <2>2. CASE d.stage # "create"
    BY <1>1, <1>3, <2>2, GoesTo, SectionMove DEF DocStages
  <2> QED BY <2>1, <2>2
<1>4. CASE /\ hasRow' = TRUE /\ docRow' = EmptyDoc /\ UNCHANGED docFailures
           /\ IF d.stage = "create" THEN DocRead(r, EmptyDoc) ELSE DocGoes(r, "write")
           /\ undivided' = (IF d.stage = "create" THEN {r} ELSE undivided \cap {r})
           /\ told' = (IF hasRow THEN [s \in Sections |-> Unsure] ELSE told)
  <2>1. PICK q : /\ StepsTo(r, q) /\ q.stage \in {"again", "write", "done"}
                 /\ q.stage \in {"again", "write"} => q.ask # "look"
                 /\ q.stage = "again" => q.prev = EmptyDoc
                 /\ q.stage = "write" => undivided' = {}
    <3>1. CASE d.stage = "create"
      <4> DEFINE q == IF d.ask = "look"
                      THEN [ask |-> "look", prev |-> EmptyDoc, stage |-> "done"]
                      ELSE [ask |-> d.ask, prev |-> EmptyDoc, stage |-> "again"]
      <4>1. StepsTo(r, q)
        BY <1>1, <1>4, <3>1, ReadsOn
      <4>2. /\ q.stage \in {"again", "write", "done"} /\ q.stage # "write"
            /\ q.stage = "again" => q.ask # "look" /\ q.prev = EmptyDoc
        OBVIOUS
      <4> QED BY <4>1, <4>2
    <3>2. CASE d.stage # "create"
      BY <1>1, <1>2, <1>4, <3>2, GoesTo DEF DocStages
    <3> QED BY <3>1, <3>2
  <2>2. SettingsTypeOK'
    <3>1. told' \in [Sections -> 0..Unsure]
      BY <1>4, EmptyDocType DEF SettingsTypeOK
    <3>2. docFailures' \in 0..MaxDocFailures
      BY <1>4, FailureCounts
    <3> QED BY <1>1, <1>4, <2>1, <3>1, <3>2 DEF SettingsTypeOK, StepsTo, DocStates, DocStages
  <2>3. SavesAsk'
    BY <2>1 DEF SavesAsk, StepsTo
  <2>4. UndividedRead'
    BY <1>1, <1>4, <2>1 DEF UndividedRead, StepsTo
  <2>5. NothingToldYet'
    BY <1>4 DEF NothingToldYet
  <2>6. SectionsKept'
    BY <1>4 DEF SectionsKept, NothingToldYet
  <2> QED BY <2>2, <2>3, <2>4, <2>5, <2>6
<1> QED BY <1>1, <1>3, <1>4 DEF CreateRow

\* The row says what is told of each section: of those the request is about by what it asks,
\* of the others because nobody has written since it read them.
LEMMA SectionWrite ==
  ASSUME SectionInv, NEW r \in DocRequests, WriteRow(r)
  PROVE  SectionInv'
<1> USE DEF SectionInv
<1> DEFINE d == docRequest[r]
<1>1. /\ d.stage = "write" /\ d.ask \in Asks \ {"look"} /\ d.prev \in Docs
      /\ r \in undivided => d.prev = docRow
  BY DEF WriteRow, DocAt, SavesAsk, UndividedRead, SettingsTypeOK
<1>2. /\ hasRow' = TRUE /\ docRow' = DocSaved(r, d.prev) /\ undivided' = {} /\ docFile' = docFile
      /\ told' = [s \in Sections |->
                    IF s \in AboutSections(d.ask)
                    THEN IF s = "key" THEN KeyAfter(r, EmptyDoc) ELSE r
                    ELSE IF r \in undivided THEN told[s] ELSE Unsure]
      /\ (DocEnds(r) /\ UNCHANGED docFailures) \/ (DocGoes(r, "file") /\ DocFails)
  BY Zenon DEF WriteRow
<1>3. PICK q : StepsTo(r, q) /\ q.stage \in {"done", "file"}
  <2>1. CASE DocEnds(r)
    BY <2>1, EndsWell
  <2>2. CASE DocGoes(r, "file")
    <3> DEFINE q == [ask |-> d.ask, prev |-> d.prev, stage |-> "file"]
    <3>1. StepsTo(r, q) /\ q.stage = "file"
      BY <2>2, GoesTo DEF DocStages
    <3> QED BY <3>1
  <2> QED BY <1>2, <2>1, <2>2
<1>4. SettingsTypeOK'
  <2>1. docRow' \in Docs
    BY <1>1, <1>2, DocSavedType
  <2>2. KeyAfter(r, EmptyDoc) \in 0..Unsure /\ r \in 0..Unsure
    BY SettingsConstants DEF KeyAfter, EmptyDoc, Sections, DocRequests, Unsure
  <2>3. told' \in [Sections -> 0..Unsure]
    BY <1>2, <2>2, EmptyDocType DEF SettingsTypeOK
  <2>4. docFailures' \in 0..MaxDocFailures
    BY <1>2, FailureCounts
  <2> QED BY <1>2, <1>3, <2>1, <2>3, <2>4 DEF SettingsTypeOK, StepsTo, DocStates, DocStages
<1>5. SavesAsk'
  BY <1>3 DEF SavesAsk, StepsTo
<1>6. UndividedRead' /\ NothingToldYet'
  BY <1>2 DEF UndividedRead, NothingToldYet
<1>7. SectionsKept'
  <2> SUFFICES ASSUME NEW s \in Sections, told'[s] # Unsure PROVE docRow'[s] = told'[s]
    BY DEF SectionsKept, Unsure
  <2>1. docRow'[s] = IF s \in AboutSections(d.ask)
                     THEN IF s = "key" THEN KeyAfter(r, EmptyDoc) ELSE r
                     ELSE d.prev[s]
    BY <1>1, <1>2, DocSavedSections
  <2> QED BY <1>1, <1>2, <2>1 DEF SectionsKept
<1> QED BY <1>4, <1>5, <1>6, <1>7

LEMMA SectionStep ==
  ASSUME SectionInv, SettingsNext
  PROVE  SectionInv'
<1> PICK r \in DocRequests :
      \/ \E ask \in Asks : AskFor(r, ask)
      \/ ReadDoc(r) \/ CreateRow(r) \/ ReadAgain(r) \/ WriteRow(r) \/ WriteFails(r)
      \/ WriteDocFile(r)
  BY DEF SettingsNext
<1> DEFINE d == docRequest[r]
<1>1. /\ SettingsTypeOK /\ d.ask \in Asks /\ d.prev \in Docs /\ docFile \in Docs
      /\ r \in undivided /\ d.stage \in {"again", "write"} => hasRow /\ d.prev = docRow
      /\ d.stage \in {"again", "write"} => d.ask # "look"
  BY DEF SectionInv, SettingsTypeOK, UndividedRead, SavesAsk
<1>2. CASE ReadAgain(r)
  <2>1. CASE DocFails /\ DocGoes(r, "file")
    BY <1>1, <1>2, <2>1, GoesTo, SectionMove DEF ReadAgain, DocStages, DocAt
  <2>2. CASE DocGoes(r, IF hasRow THEN "write" ELSE "createAgain") /\ UNCHANGED docFailures
    <3>1. d.stage = "again"
      BY <1>2 DEF ReadAgain, DocAt
    <3>2. CASE hasRow
      BY <1>1, <1>2, <2>2, <3>1, <3>2, GoesTo, SectionMove DEF ReadAgain, DocStages
    <3>3. CASE ~hasRow
      <4>1. r \notin undivided
        BY <3>3 DEF SectionInv, UndividedRead
      <4> QED BY <1>1, <1>2, <2>2, <3>1, <3>3, <4>1, GoesTo, SectionMove DEF ReadAgain, DocStages
    <3> QED BY <3>2, <3>3
  <2> QED BY <1>2, <2>1, <2>2 DEF ReadAgain
<1>3. CASE WriteFails(r)
  BY <1>1, <1>3, GoesTo, SectionMove DEF WriteFails, DocStages, DocAt
<1>4. CASE WriteDocFile(r)
  <2>1. docFile' \in Docs
    BY <1>1, <1>4, DocSavedType DEF WriteDocFile
  <2>2. r \in undivided => hasRow
    BY DEF SectionInv, UndividedRead
  <2> QED BY <1>1, <1>4, <2>1, <2>2, EndsWell, SectionMove DEF WriteDocFile
<1> QED BY <1>2, <1>3, <1>4, SectionAsk, SectionRead, SectionCreate, SectionWrite

LEMMA SectionStutter ==
  ASSUME SectionInv, UNCHANGED settingsVars
  PROVE  SectionInv'
BY DEF settingsVars, SectionInv, SettingsTypeOK, SavesAsk, UndividedRead, NothingToldYet, SectionsKept

\* A section of the settings says what its last save said, for every number of requests and
\* failures, whatever is saved of the others, except where saves got in each other's way.
THEOREM SectionsStayKept == SettingsSpec => []SectionsKept
<1>1. SectionInv /\ [SettingsNext]_settingsVars => SectionInv'
  BY SectionStep, SectionStutter
<1>2. SectionInv => SectionsKept
  BY DEF SectionInv
<1> QED BY SectionStart, <1>1, <1>2, PTL DEF SettingsSpec

(***************************************************************************)
(* Jobs.                                                                   *)
(***************************************************************************)
\* A save that is under way, or about to begin, leaves no job undisturbed.
SavesDisturb == undisturbed # {} => admin = NoRequest

\* What an undisturbed job has read so far is still so.
ReadsHold ==
  \A w \in undisturbed :
    /\ job[w].stage \in {"readOrg", "paint", "running"}
    /\ job[w].stage \in {"readOrg", "paint"} => job[w].platform = platform
    /\ job[w].stage = "paint" => job[w].policy = policies[job[w].tenant]

\* A process that was not there when a knob was unset has it only while it is set, and
\* nothing it is about to paint says otherwise.
KnobsAreSet ==
  \A p \in Processes \ unsetSeen : "knob" \notin pins =>
    /\ env[p]["knob"] # "unset" => platform["knob"] # "unset"
    /\ p \in JobWorkers /\ job[p].stage \in {"readOrg", "paint"}
          /\ job[p].platform["knob"] # "unset" => platform["knob"] # "unset"
    /\ p = Api /\ admin.stage \in {"readOrg", "paint"}
          /\ admin.platform["knob"] # "unset" => platform["knob"] # "unset"

JobInv ==
  ConfigTypeOK /\ SavesDisturb /\ ReadsHold /\ KnobsAreSet /\ JobKeepsPolicy /\ JobReadsStores

LEMMA NothingSetType == NothingSet \in [Keys -> Stored] /\ NothingSet["knob"] = "unset"
BY DEF NothingSet, Keys, Stored

LEMMA JobStart == ConfigInit => JobInv
<1> SUFFICES ASSUME ConfigInit PROVE JobInv
  OBVIOUS
<1> USE DEF ConfigInit
<1>1. ConfigTypeOK
  BY RuntimeConfigConstants, NothingSetType
     DEF ConfigTypeOK, AtBoot, NoJob, NoRequest, Keys, Stored, Processes
<1>2. SavesDisturb /\ ReadsHold /\ JobReadsStores
  BY DEF SavesDisturb, ReadsHold, JobReadsStores
<1>3. KnobsAreSet
  BY DEF KnobsAreSet, AtBoot, NoJob, NoRequest, Keys, Processes
<1>4. JobKeepsPolicy
  BY DEF JobKeepsPolicy, RunningJobs, NoJob
<1> QED BY <1>1, <1>2, <1>3, <1>4 DEF JobInv

LEMMA ConfigFailureCounts ==
  ASSUME ConfigTypeOK, NEW got, NEW due, AsDue(got, due)
  PROVE  configFailures' \in 0..MaxConfigFailures
BY RuntimeConfigConstants DEF ConfigTypeOK, AsDue, ConfigFails

LEMMA ResolveType ==
  ASSUME NEW k \in Keys, NEW a \in Stored, NEW b \in Stored
  PROVE  Resolve(k, a, b) \in Stored
BY DEF Resolve, Stored

\* A process after painting, and the others.
LEMMA Painting ==
  ASSUME ConfigTypeOK, NEW p \in Processes, NEW from \in [Keys -> Stored], NEW org \in Stored,
         Paint(p, from, org)
  PROVE  /\ env' \in [Processes -> [Keys -> Stored \cup {"pinned"}]]
         /\ \A q \in Processes \ {p} : env'[q] = env[q]
         /\ \A k \in Keys : env'[p][k] = "pinned" <=> k \in pins
         /\ "policy" \notin pins => env'[p]["policy"] = Resolve("policy", from["policy"], org)
         /\ "knob" \notin pins => env'[p]["knob"] = IF from["knob"] # "unset" THEN from["knob"]
                                                    ELSE env[p]["knob"]
<1> DEFINE new == [k \in Keys |-> IF EnvIsSet(p, k) THEN env[p][k]
                                  ELSE Painted(p, k, Resolve(k, from[k], org))]
<1>1. /\ env \in [Processes -> [Keys -> Stored \cup {"pinned"}]]
      /\ \A k \in Keys : env[p][k] = "pinned" <=> k \in pins
      /\ "pinned" \notin Stored /\ "unset" \in Stored
  BY RuntimeConfigConstants DEF ConfigTypeOK, Stored
<1>2. \A k \in Keys : /\ new[k] \in Stored \cup {"pinned"}
                      /\ new[k] = "pinned" <=> k \in pins
  BY <1>1, ResolveType DEF Painted, EnvIsSet
<1>3. env' = [env EXCEPT ![p] = new]
  BY DEF Paint
<1>4. "policy" \notin pins => new["policy"] = Resolve("policy", from["policy"], org)
  BY DEF EnvIsSet, Painted, Keys
<1>5. "knob" \notin pins => new["knob"] = IF from["knob"] # "unset" THEN from["knob"]
                                          ELSE env[p]["knob"]
  BY DEF EnvIsSet, Painted, Keys, Resolve
<1>6. new \in [Keys -> Stored \cup {"pinned"}]
  BY <1>2
<1> HIDE DEF new
<1> QED BY <1>1, <1>2, <1>3, <1>4, <1>5, <1>6

LEMMA JobReading ==
  ASSUME JobInv, NEW w \in JobWorkers,
         (\E t \in Tenants : StartJob(w, t)) \/ ReadPolicy(w) \/ EndJob(w)
  PROVE  JobInv'
<1> USE DEF JobInv
<1>1. /\ UNCHANGED <<pins, platform, policies, env, admin, unsetSeen, edits, restarts>>
      /\ job' = [job EXCEPT ![w] = job'[w]] /\ job'[w] \in Jobs \cup {NoJob}
      /\ job'[w].stage # "running" /\ configFailures' \in 0..MaxConfigFailures
      /\ undisturbed' \in {undisturbed, undisturbed \cup {w}, undisturbed \ {w}}
      /\ w \in undisturbed' /\ w \notin undisturbed => admin = NoRequest
      /\ w \in undisturbed' =>
           /\ job'[w].stage \in {"readOrg", "paint"} /\ job'[w].platform = platform
           /\ job'[w].stage = "paint" => job'[w].policy = policies[job'[w].tenant]
      /\ job'[w].stage \in {"readOrg", "paint"} /\ job'[w].platform["knob"] # "unset" =>
           \/ platform["knob"] # "unset"
           \/ job[w].stage \in {"readOrg", "paint"} /\ job[w].platform["knob"] # "unset"
  <2>1. CASE \E t \in Tenants : StartJob(w, t)
    <3>0. PICK t \in Tenants : StartJob(w, t)
      BY <2>1
    <3>1. PICK fileRead \in {platform, NothingSet} :
            /\ AsDue(fileRead, platform)
            /\ job' = [job EXCEPT ![w] = [stage |-> "readOrg", tenant |-> t, platform |-> fileRead,
                                          policy |-> "unset"]]
            /\ undisturbed' = IF admin = NoRequest /\ fileRead = platform
                              THEN undisturbed \cup {w} ELSE undisturbed
      BY <3>0 DEF StartJob
    <3>2. /\ configFailures' \in 0..MaxConfigFailures /\ fileRead \in [Keys -> Stored]
          /\ fileRead["knob"] # "unset" => platform["knob"] # "unset"
      BY <3>1, ConfigFailureCounts, NothingSetType DEF ConfigTypeOK
    <3>3. job'[w] = [stage |-> "readOrg", tenant |-> t, platform |-> fileRead, policy |-> "unset"]
      BY <3>1 DEF ConfigTypeOK
    <3>4. job[w] = NoJob /\ w \notin undisturbed
      BY <3>0 DEF StartJob, ReadsHold, NoJob
    <3>5. job' = [job EXCEPT ![w] = job'[w]]
      BY <3>1, <3>3
    <3>6. job'[w] \in Jobs
      BY <3>2, <3>3 DEF Jobs, Stored
    <3>7. UNCHANGED <<pins, platform, policies, env, admin, unsetSeen, edits, restarts>>
      BY <3>0 DEF StartJob
    <3>8. job'[w].stage = "readOrg" /\ job'[w].platform = fileRead
      BY <3>3
    <3> QED BY <3>1, <3>2, <3>4, <3>5, <3>6, <3>7, <3>8
  <2>2. CASE ReadPolicy(w)
    <3>1. /\ job[w] \in [stage : {"readOrg", "paint"}, tenant : Tenants,
                         platform : [Keys -> Stored], policy : Stored]
          /\ job[w].stage = "readOrg"
      <4>1. job[w].stage = "readOrg" /\ job[w] \in Jobs \cup {NoJob}
        BY <2>2 DEF ReadPolicy, ConfigTypeOK
      <4> QED BY <4>1 DEF Jobs, NoJob
    <3>2. PICK fileRead \in Stored :
            /\ AsDue(fileRead, policies[job[w].tenant])
            /\ job' = [job EXCEPT ![w].stage = "paint", ![w].policy = fileRead]
            /\ undisturbed' = IF fileRead = policies[job[w].tenant]
                              THEN undisturbed ELSE undisturbed \ {w}
      BY <2>2 DEF ReadPolicy
    <3>3. /\ job' = [job EXCEPT ![w] = job'[w]]
          /\ job'[w] = [job[w] EXCEPT !.stage = "paint", !.policy = fileRead]
      BY <3>2 DEF ConfigTypeOK
    <3>4. /\ job'[w] \in Jobs /\ job'[w].stage = "paint" /\ job'[w].platform = job[w].platform
          /\ job'[w].tenant = job[w].tenant /\ job'[w].policy = fileRead
      BY <3>1, <3>3 DEF Jobs
    <3>5. configFailures' \in 0..MaxConfigFailures
      BY <3>2, ConfigFailureCounts
    <3>6. w \in undisturbed' => /\ w \in undisturbed /\ fileRead = policies[job[w].tenant]
                                /\ job[w].platform = platform
      BY <3>1, <3>2 DEF ReadsHold
    <3> QED BY <2>2, <3>1, <3>2, <3>3, <3>4, <3>5, <3>6 DEF ReadPolicy
  <2>3. CASE EndJob(w)
    BY <2>3 DEF EndJob, ConfigTypeOK, NoJob
  <2> QED BY <2>1, <2>2, <2>3
<1>2. \A v \in JobWorkers \ {w} : job'[v] = job[v] /\ (v \in undisturbed' <=> v \in undisturbed)
  BY <1>1 DEF ConfigTypeOK
<1>3. ConfigTypeOK'
  BY <1>1 DEF ConfigTypeOK
<1>4. SavesDisturb'
  BY <1>1 DEF SavesDisturb
<1>6. ReadsHold'
  BY <1>1, <1>2 DEF ReadsHold, ConfigTypeOK
<1>8. KnobsAreSet'
  BY <1>1, <1>2 DEF KnobsAreSet
<1>9. JobKeepsPolicy' /\ JobReadsStores'
  BY <1>1, <1>2 DEF JobKeepsPolicy, JobReadsStores, RunningJobs, Effective, Resolve
<1> QED BY <1>3, <1>4, <1>6, <1>8, <1>9

\* What a job paints is what it has read; of an undisturbed one, what the stores say.
LEMMA JobPainting ==
  ASSUME JobInv, NEW w \in JobWorkers, PaintForJob(w)
  PROVE  JobInv'
<1> USE DEF JobInv
<1> DEFINE new == [stage |-> "running", tenant |-> job[w].tenant,
                   painted |-> Resolve("policy", job[w].platform["policy"], job[w].policy)]
<1>1. /\ job[w] \in Jobs /\ job[w].stage = "paint" /\ job[w].tenant \in Tenants
      /\ job[w].platform \in [Keys -> Stored] /\ job[w].policy \in Stored
      /\ w \in Processes
  BY DEF PaintForJob, ConfigTypeOK, Jobs, NoJob, Processes
<1>2. /\ UNCHANGED <<pins, platform, policies, admin, undisturbed, unsetSeen, edits, restarts,
                     configFailures>>
      /\ Paint(w, job[w].platform, job[w].policy)
      /\ job' = [job EXCEPT ![w] = new]
  BY DEF PaintForJob
<1>3. /\ env' \in [Processes -> [Keys -> Stored \cup {"pinned"}]]
      /\ \A q \in Processes \ {w} : env'[q] = env[q]
      /\ \A k \in Keys : env'[w][k] = "pinned" <=> k \in pins
      /\ "policy" \notin pins => env'[w]["policy"] = new.painted
      /\ "knob" \notin pins => env'[w]["knob"] = IF job[w].platform["knob"] # "unset"
                                                 THEN job[w].platform["knob"]
                                                 ELSE env[w]["knob"]
  BY <1>1, <1>2, Painting
<1>4. new \in Jobs
  <2>1. "policy" \in Keys /\ job[w].platform["policy"] \in Stored
    BY <1>1 DEF Keys
  <2> QED BY <1>1, <2>1, ResolveType DEF Jobs
<1>5. job'[w] = new /\ \A v \in JobWorkers \ {w} : job'[v] = job[v]
  BY <1>2 DEF ConfigTypeOK
<1>6. ConfigTypeOK'
  BY <1>2, <1>3, <1>4, <1>5 DEF ConfigTypeOK
<1>7. SavesDisturb'
  BY <1>2 DEF SavesDisturb
<1>8. ReadsHold'
  BY <1>2, <1>5 DEF ReadsHold, ConfigTypeOK
<1>9. KnobsAreSet'
  BY <1>1, <1>2, <1>3, <1>5 DEF KnobsAreSet
<1>10. JobKeepsPolicy'
  <2> SUFFICES ASSUME NEW v \in RunningJobs', v # Api
               PROVE  env'[v]["policy"] = IF "policy" \in pins THEN "pinned" ELSE job'[v].painted
    BY <1>2 DEF JobKeepsPolicy
  <2>1. v \in JobWorkers /\ v \in Processes /\ "policy" \in Keys
    BY DEF RunningJobs, Processes, Keys
  <2> QED BY <1>3, <1>5, <2>1 DEF JobKeepsPolicy, RunningJobs
<1>11. JobReadsStores'
  <2> SUFFICES ASSUME NEW v \in RunningJobs', v \in undisturbed
               PROVE  /\ env'[v]["policy"] = Effective("policy", job'[v].tenant)
                      /\ v \notin unsetSeen => env'[v]["knob"] = Effective("knob", job'[v].tenant)
    BY <1>2 DEF JobReadsStores, Effective, Resolve
  <2>1. v \in JobWorkers /\ v \in Processes /\ "policy" \in Keys /\ "knob" \in Keys
    BY DEF RunningJobs, Processes, Keys
  <2>2. CASE v # w
    BY <1>3, <1>5, <2>1, <2>2 DEF JobReadsStores, RunningJobs
  <2>3. CASE v = w
    <3>1. job[w].platform = platform /\ job[w].policy = policies[job[w].tenant]
      BY <1>1, <2>3 DEF ReadsHold
    <3>2. env'[v]["policy"] = Effective("policy", job'[v].tenant)
      BY <1>3, <1>5, <2>1, <2>3, <3>1 DEF Effective
    <3>3. v \notin unsetSeen => env'[v]["knob"] = Effective("knob", job'[v].tenant)
      BY <1>3, <1>5, <2>1, <2>3, <3>1 DEF Effective, Resolve, KnobsAreSet
    <3> QED BY <3>2, <3>3
  <2> QED BY <2>2, <2>3
<1> QED BY <1>6, <1>7, <1>8, <1>9, <1>10, <1>11

\* No process but the API's takes part in a save, and no undisturbed job is there.
LEMMA SavingPlatform ==
  ASSUME JobInv, NEW k \in Keys, NEW value \in Stored, PutPlatform(k, value)
  PROVE  JobInv'
<1> USE DEF JobInv
<1>1. /\ UNCHANGED <<pins, policies, job, admin, restarts>> /\ undisturbed' = {}
      /\ env' = [env EXCEPT ![Api] =
               [x \in Keys |-> IF x \in pins THEN env[Api][x] ELSE platform'[x]]]
      /\ unsetSeen' = IF platform["knob"] # "unset" /\ platform'["knob"] = "unset"
                  THEN unsetSeen \cup {p \in Processes : p # Api \/ MidApply}
                  ELSE unsetSeen
      /\ edits < MaxEdits /\ edits' = edits + 1
  BY DEF PutPlatform, EnvIsSet
<1>2. /\ platform' \in [Keys -> Stored] /\ Api \in Processes /\ "knob" \in Keys
      /\ env \in [Processes -> [Keys -> Stored \cup {"pinned"}]] /\ "pinned" \notin Stored
      /\ configFailures' \in 0..MaxConfigFailures
  <2>1. PICK fileRead \in {platform, NothingSet} :
          AsDue(fileRead, platform) /\ platform' = [fileRead EXCEPT ![k] = value]
    BY DEF PutPlatform
  <2>2. fileRead \in [Keys -> Stored]
    BY NothingSetType DEF ConfigTypeOK
  <2>3. configFailures' \in 0..MaxConfigFailures
    BY <2>1, ConfigFailureCounts
  <2> QED BY <2>1, <2>2, <2>3, RuntimeConfigConstants DEF ConfigTypeOK, Processes, Keys, Stored
<1> DEFINE new == [x \in Keys |-> IF x \in pins THEN env[Api][x] ELSE platform'[x]]
<1>3. new \in [Keys -> Stored \cup {"pinned"}] /\ \A x \in Keys : new[x] = "pinned" <=> x \in pins
  BY <1>2 DEF ConfigTypeOK
<1>4. env'[Api] = new /\ \A q \in Processes \ {Api} : env'[q] = env[q]
  BY <1>1, <1>2
<1>5. ConfigTypeOK'
  <2>1. unsetSeen' \subseteq Processes /\ edits' \in 0..MaxEdits
    BY <1>1, RuntimeConfigConstants DEF ConfigTypeOK
  <2> QED BY <1>1, <1>2, <1>3, <1>4, <2>1 DEF ConfigTypeOK
<1>6. SavesDisturb' /\ ReadsHold' /\ JobReadsStores'
  BY <1>1 DEF SavesDisturb, ReadsHold, JobReadsStores
<1>7. JobKeepsPolicy'
  <2> SUFFICES ASSUME NEW v \in RunningJobs', v # Api
               PROVE  env'[v]["policy"] = IF "policy" \in pins THEN "pinned" ELSE job[v].painted
    BY <1>1 DEF JobKeepsPolicy
  <2>1. v \in RunningJobs /\ v \in Processes
    BY <1>1 DEF RunningJobs, Processes
  <2> QED BY <1>4, <2>1 DEF JobKeepsPolicy
<1>8. KnobsAreSet'
  <2> SUFFICES ASSUME NEW p \in Processes, p \notin unsetSeen', "knob" \notin pins
      PROVE
        /\ env'[p]["knob"] # "unset" => platform'["knob"] # "unset"
        /\ p \in JobWorkers /\ job[p].stage \in {"readOrg", "paint"}
              /\ job[p].platform["knob"] # "unset" => platform'["knob"] # "unset"
        /\ p = Api /\ admin.stage \in {"readOrg", "paint"}
              /\ admin.platform["knob"] # "unset" => platform'["knob"] # "unset"
    BY <1>1 DEF KnobsAreSet
  <2>1. p \notin unsetSeen /\ new["knob"] = platform'["knob"]
    BY <1>1, <1>2
  <2>2. CASE platform["knob"] # "unset" /\ platform'["knob"] = "unset"
    <3>1. p = Api /\ ~MidApply
      BY <1>1, <2>2
    <3> QED BY <1>4, <2>1, <3>1 DEF MidApply
  <2>3. CASE platform["knob"] = "unset" /\ platform'["knob"] = "unset"
    BY <1>4, <2>1, <2>3 DEF KnobsAreSet
  <2>4. CASE platform'["knob"] # "unset"
    BY <2>4
  <2> QED BY <2>2, <2>3, <2>4
<1> QED BY <1>5, <1>6, <1>7, <1>8

LEMMA SavingPolicy ==
  ASSUME JobInv,
         \/ \E t \in Tenants, value \in Stored : PutPolicy(t, value)
         \/ SavePolicy \/ ReadBack
  PROVE  JobInv'
<1> USE DEF JobInv
<1>1. /\ UNCHANGED <<pins, platform, env, job, unsetSeen, restarts>> /\ undisturbed' = {}
      /\ policies' \in [Tenants -> Stored] /\ edits' \in 0..MaxEdits
      /\ admin' \in Requests /\ configFailures' \in 0..MaxConfigFailures
      /\ admin'.stage \in {"readOrg", "paint"} /\ admin'.platform["knob"] # "unset" =>
           \/ platform["knob"] # "unset"
           \/ admin.stage \in {"readOrg", "paint"} /\ admin.platform["knob"] # "unset"
  <2>1. CASE \E t \in Tenants, value \in Stored : PutPolicy(t, value)
    <3>0. PICK t \in Tenants, value \in Stored : PutPolicy(t, value)
      BY <2>1
    <3>1. configFailures' \in 0..MaxConfigFailures
      BY <3>0, ConfigFailureCounts DEF PutPolicy
    <3>2. admin' \in Requests /\ admin'.stage = "save"
      BY <3>0, NothingSetType DEF PutPolicy, Requests, Stored
    <3>3. edits' \in 0..MaxEdits
      BY <3>0, RuntimeConfigConstants DEF PutPolicy, ConfigTypeOK
    <3> QED BY <3>0, <3>1, <3>2, <3>3 DEF PutPolicy, ConfigTypeOK
  <2>2. CASE SavePolicy
    <3>1. admin # NoRequest /\ admin \in Requests /\ admin.value \in Stored
      BY <2>2 DEF SavePolicy, ConfigTypeOK, NoRequest, Requests
    <3>2. PICK rowKept \in {admin.value, policies[admin.tenant]}, fileRead \in {platform, NothingSet} :
            /\ AsDue(<<rowKept, fileRead>>, <<admin.value, platform>>)
            /\ policies' = [policies EXCEPT ![admin.tenant] = rowKept]
            /\ admin' = [admin EXCEPT !.stage = "readOrg", !.platform = fileRead]
      BY <2>2 DEF SavePolicy
    <3>3. /\ fileRead \in [Keys -> Stored]
          /\ fileRead["knob"] # "unset" => platform["knob"] # "unset"
      BY NothingSetType DEF ConfigTypeOK
    <3>4. admin' \in Requests /\ admin'.platform = fileRead
      BY <3>1, <3>2, <3>3 DEF Requests
    <3>5. policies' \in [Tenants -> Stored]
      BY <3>1, <3>2 DEF ConfigTypeOK
    <3>6. configFailures' \in 0..MaxConfigFailures
      BY <3>2, ConfigFailureCounts
    <3> QED BY <2>2, <3>1, <3>3, <3>4, <3>5, <3>6 DEF SavePolicy, ConfigTypeOK, SavesDisturb
  <2>3. CASE ReadBack
    <3>1. admin # NoRequest /\ admin \in Requests /\ admin.tenant \in Tenants
      <4>1. admin.stage = "readOrg" /\ admin \in Requests \cup {NoRequest}
        BY <2>3 DEF ReadBack, ConfigTypeOK
      <4>2. admin \in Requests
        BY <4>1 DEF NoRequest
      <4> QED BY <4>1, <4>2 DEF Requests, NoRequest
    <3>2. PICK fileRead \in Stored : /\ AsDue(fileRead, policies[admin.tenant])
                                 /\ admin' = [admin EXCEPT !.stage = "paint", !.policy = fileRead]
      BY <2>3 DEF ReadBack
    <3>3. admin' \in Requests /\ admin'.platform = admin.platform
      BY <3>1, <3>2 DEF Requests
    <3>4. configFailures' \in 0..MaxConfigFailures
      BY <3>2, ConfigFailureCounts
    <3> QED BY <2>3, <3>1, <3>3, <3>4 DEF ReadBack, ConfigTypeOK, SavesDisturb
  <2> QED BY <2>1, <2>2, <2>3
<1>2. ConfigTypeOK'
  BY <1>1 DEF ConfigTypeOK
<1>3. SavesDisturb' /\ ReadsHold' /\ JobReadsStores'
  BY <1>1 DEF SavesDisturb, ReadsHold, JobReadsStores
<1>4. JobKeepsPolicy' /\ KnobsAreSet'
  BY <1>1 DEF JobKeepsPolicy, RunningJobs, KnobsAreSet
<1> QED BY <1>2, <1>3, <1>4

LEMMA PaintingForRequest ==
  ASSUME JobInv, PaintForRequest
  PROVE  JobInv'
<1> USE DEF JobInv
<1>1. /\ admin \in Requests /\ admin.stage = "paint" /\ undisturbed = {}
      /\ admin.platform \in [Keys -> Stored] /\ admin.policy \in Stored
      /\ Api \in Processes
  BY DEF PaintForRequest, ConfigTypeOK, Requests, NoRequest, Processes, SavesDisturb
<1>2. /\ UNCHANGED <<pins, platform, policies, job, undisturbed, unsetSeen, edits, restarts,
                     configFailures>>
      /\ Paint(Api, admin.platform, admin.policy) /\ admin' = NoRequest
  BY DEF PaintForRequest
<1>3. /\ env' \in [Processes -> [Keys -> Stored \cup {"pinned"}]]
      /\ \A q \in Processes \ {Api} : env'[q] = env[q]
      /\ \A k \in Keys : env'[Api][k] = "pinned" <=> k \in pins
      /\ "knob" \notin pins => env'[Api]["knob"] = IF admin.platform["knob"] # "unset"
                                                   THEN admin.platform["knob"]
                                                   ELSE env[Api]["knob"]
  BY <1>1, <1>2, Painting
<1>4. ConfigTypeOK'
  BY <1>2, <1>3 DEF ConfigTypeOK
<1>5. SavesDisturb' /\ ReadsHold' /\ JobReadsStores'
  BY <1>1, <1>2 DEF SavesDisturb, ReadsHold, JobReadsStores
<1>6. KnobsAreSet'
  BY <1>1, <1>2, <1>3 DEF KnobsAreSet, NoRequest
<1>7. JobKeepsPolicy'
  BY <1>2, <1>3 DEF JobKeepsPolicy, RunningJobs, Processes
<1> QED BY <1>4, <1>5, <1>6, <1>7

LEMMA Restarting ==
  ASSUME JobInv, NEW p \in Processes, RestartProcess(p)
  PROVE  JobInv'
<1> USE DEF JobInv
<1>1. PICK fileRead \in {platform, NothingSet}, t \in Tenants, policy \in Stored :
        /\ AsDue(<<fileRead, policy>>, <<platform, policies[t]>>)
        /\ env' = [env EXCEPT ![p] = [k \in Keys |->
             IF k \in pins THEN "pinned"
             ELSE IF p = Api THEN Resolve(k, fileRead[k], policy) ELSE "unset"]]
  BY DEF RestartProcess
<1> DEFINE new == [k \in Keys |->
          IF k \in pins THEN "pinned"
          ELSE IF p = Api THEN Resolve(k, fileRead[k], policy) ELSE "unset"]
<1>2. /\ job' = [w \in JobWorkers |-> IF w = p THEN NoJob ELSE job[w]]
      /\ admin' = IF p = Api THEN NoRequest ELSE admin
      /\ undisturbed' = undisturbed \ {p} /\ unsetSeen' = unsetSeen \ {p}
      /\ UNCHANGED <<pins, platform, policies, edits>>
      /\ restarts' \in 0..MaxRestarts /\ configFailures' \in 0..MaxConfigFailures
  <2>1. configFailures' \in 0..MaxConfigFailures
    BY <1>1, ConfigFailureCounts
  <2> QED BY <2>1, RuntimeConfigConstants DEF RestartProcess, ConfigTypeOK
<1>3. /\ new \in [Keys -> Stored \cup {"pinned"}]
      /\ \A k \in Keys : new[k] = "pinned" <=> k \in pins
      /\ "knob" \notin pins => new["knob"] \in {"unset", platform["knob"]}
  <2>1. "pinned" \notin Stored /\ "unset" \in Stored
    BY RuntimeConfigConstants DEF Stored
  <2>2. fileRead \in [Keys -> Stored] /\ fileRead["knob"] \in {"unset", platform["knob"]}
    BY NothingSetType DEF ConfigTypeOK
  <2>3. \A k \in Keys : Resolve(k, fileRead[k], policy) \in Stored
    BY <2>2, ResolveType
  <2>4. Resolve("knob", fileRead["knob"], policy) \in {"unset", platform["knob"]}
    BY <2>2 DEF Resolve
  <2> QED BY <2>1, <2>3, <2>4 DEF Keys
<1> HIDE DEF new
<1>4. env' = [env EXCEPT ![p] = new]
  BY <1>1 DEF new
<1>5. env'[p] = new /\ \A q \in Processes \ {p} : env'[q] = env[q]
  BY <1>4 DEF ConfigTypeOK
<1>6. ConfigTypeOK'
  BY <1>2, <1>3, <1>4, <1>5 DEF ConfigTypeOK
<1>7. SavesDisturb'
  BY <1>2 DEF SavesDisturb
<1>8. ReadsHold'
  BY <1>2 DEF ReadsHold, ConfigTypeOK
<1>9. KnobsAreSet'
  <2> SUFFICES ASSUME NEW q \in Processes, q \notin unsetSeen', "knob" \notin pins
      PROVE
        /\ env'[q]["knob"] # "unset" => platform["knob"] # "unset"
        /\ q \in JobWorkers /\ job'[q].stage \in {"readOrg", "paint"}
              /\ job'[q].platform["knob"] # "unset" => platform["knob"] # "unset"
        /\ q = Api /\ admin'.stage \in {"readOrg", "paint"}
              /\ admin'.platform["knob"] # "unset" => platform["knob"] # "unset"
    BY <1>2 DEF KnobsAreSet
  <2>1. CASE q = p
    BY <1>2, <1>3, <1>5, <2>1 DEF NoJob, NoRequest
  <2>2. CASE q # p
    BY <1>2, <1>5, <2>2 DEF KnobsAreSet, NoRequest
  <2> QED BY <2>1, <2>2
<1>10. RunningJobs' = RunningJobs \ {p} /\ \A v \in RunningJobs' : job'[v] = job[v] /\ v \in Processes
  BY <1>2 DEF RunningJobs, NoJob, Processes
<1>11. JobKeepsPolicy'
  BY <1>2, <1>5, <1>10 DEF JobKeepsPolicy
<1>12. JobReadsStores'
  BY <1>2, <1>5, <1>10 DEF JobReadsStores, Effective, Resolve
<1> QED BY <1>6, <1>7, <1>8, <1>9, <1>11, <1>12

LEMMA JobStep ==
  ASSUME JobInv, ConfigNext
  PROVE  JobInv'
BY JobReading, JobPainting, SavingPlatform, SavingPolicy, PaintingForRequest, Restarting
   DEF ConfigNext

LEMMA JobStutter ==
  ASSUME JobInv, UNCHANGED configVars
  PROVE  JobInv'
BY DEF configVars, JobInv, ConfigTypeOK, SavesDisturb, ReadsHold, KnobsAreSet, JobKeepsPolicy,
       JobReadsStores, RunningJobs, Effective, Resolve

\* A dedicated worker reads its job's policy, or what it could read of it, from the job's
\* start to its end; a job that no save came near and whose reads were answered reads what
\* the stores say: for every number of organisations, workers, saves, restarts and
\* failed reads and writes.
THEOREM JobsReadTheStores == ConfigSpec => []JobsReadTheirOwn
<1>1. JobInv /\ [ConfigNext]_configVars => JobInv'
  BY JobStep, JobStutter
<1>2. JobInv => JobsReadTheirOwn
  BY DEF JobInv, JobsReadTheirOwn
<1> QED BY JobStart, <1>1, <1>2, PTL DEF ConfigSpec

\* Both hold of the two modules beside the others, where a step is a step of one of them.
THEOREM SettingsAreSound == ServicesSpec => []SettingsSound
<1> DEFINE Both == JobInv /\ SectionInv
<1>1. MCInit => Both
  BY JobStart, SectionStart DEF MCInit
<1>2. ASSUME Both, MCNext \/ UNCHANGED <<configVars, settingsVars>>
      PROVE  Both'
  BY <1>2, JobStep, JobStutter, SectionStep, SectionStutter DEF MCNext
<1>3. Both /\ [MCNext]_<<part, publishVars, webhookVars, findingVars, verifierVars, noiseVars,
                         outcomeVars, configVars, repoVars, memberVars, mergeVars,
                         settingsVars>> => Both'
  BY <1>2
<1>4. Both => SettingsSound
  BY DEF JobInv, JobsReadTheirOwn, SectionInv, SettingsSound
<1> HIDE DEF Both
<1> QED BY <1>1, <1>3, <1>4, PTL DEF ServicesSpec
=============================================================================
