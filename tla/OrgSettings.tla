------------------------------ MODULE OrgSettings ------------------------------
(***************************************************************************)
(* The settings of an organisation (packages/api/src/                      *)
(* org-settings-store.ts): one row in Postgres, or one file when Postgres  *)
(* fails, with all of its sections.  A save of a section reads the whole   *)
(* document, replaces the section, and writes the whole document; requests *)
(* of several administrators, and the reads of jobs, overlap.              *)
(*                                                                         *)
(* Of the sections the model has the models with the key of a provider,    *)
(* and "rest", which stands for the runtime settings, the prompts, the     *)
(* tracing keys and the age of traces.  A section says which request wrote *)
(* it, 0 if none did.                                                      *)
(***************************************************************************)
EXTENDS Naturals, FiniteSets

CONSTANTS
  NumDocRequests, \* bound: how many requests there are
  MaxDocFailures  \* bound: statements that fail

ASSUME SettingsConstants == NumDocRequests \in Nat /\ MaxDocFailures \in Nat

DocRequests == 1..NumDocRequests
Sections == {"models", "key", "rest"}
Docs == [Sections -> 0..NumDocRequests]
EmptyDoc == [s \in Sections |-> 0]
\* A save of the models says nothing of the key (its value is never shown to the page),
\* gives one, or says "__clear__".
Asks == {"look", "models", "modelsWithKey", "modelsClearKey", "rest"}
Unsure == NumDocRequests + 1

VARIABLES
  hasRow,     \* there is a row of the organisation
  docRow,     \* what it says
  docFile,    \* what the file says
  docRequest, \* each request: what it asks, where it is, what it has read
  undivided,  \* requests that have read the row, and nobody else has written it since
  told,       \* what each section is to say now, Unsure if saves got in each other's way
  docFailures \* failures so far

settingsVars == <<hasRow, docRow, docFile, docRequest, undivided, told, docFailures>>

SettingsTypeOK ==
  /\ hasRow \in BOOLEAN /\ docRow \in Docs /\ docFile \in Docs
  /\ docRequest \in [DocRequests ->
       [ask : Asks, prev : Docs,
        stage : {"none", "read", "create", "again", "createAgain", "write", "file", "done"}]]
  /\ undivided \subseteq DocRequests
  /\ told \in [Sections -> 0..Unsure] /\ docFailures \in 0..MaxDocFailures

SettingsInit ==
  /\ hasRow = FALSE /\ docRow = EmptyDoc /\ docFile = EmptyDoc
  /\ docRequest = [r \in DocRequests |-> [ask |-> "look", prev |-> EmptyDoc, stage |-> "none"]]
  /\ undivided = {} /\ told = EmptyDoc /\ docFailures = 0

(***************************************************************************)
(* The document that is written.  A Slip_ operator is a plausible bug in   *)
(* the definition after it.                                                *)
(***************************************************************************)
\* The sections that a request is about.
AboutSections(ask) == CASE ask = "rest" -> {"rest"}
                [] ask = "models" -> {"models"}
                [] ask \in {"modelsWithKey", "modelsClearKey"} -> {"models", "key"}
                [] ask = "look" -> {}

\* mergeProviderSecrets: a save of the models without a key keeps the one there is.
KeyAfter(r, prev) == CASE docRequest[r].ask = "modelsWithKey" -> r
                  [] docRequest[r].ask = "modelsClearKey" -> 0
                  [] OTHER -> prev["key"]

Slip_DocSaved(r, prev) ==
  IF docRequest[r].ask = "rest" THEN [prev EXCEPT !["rest"] = r]
  ELSE [EmptyDoc EXCEPT !["models"] = r, !["key"] = KeyAfter(r, prev)]

\* putModelMatrix, putRuntimeSettings, putPromptPack, putLangfuse, putTraceTtlDays: the
\* other sections are those that were read.
DocSaved(r, prev) ==
  IF docRequest[r].ask = "rest" THEN [prev EXCEPT !["rest"] = r]
  ELSE [prev EXCEPT !["models"] = r, !["key"] = KeyAfter(r, prev)]

(***************************************************************************)
(* A request.  Each step is one statement, or an upsert, which reads the   *)
(* row again only for columns that this file does not use.                 *)
(***************************************************************************)
DocAt(r, stage) == docRequest[r].stage = stage
DocGoes(r, stage) == docRequest' = [docRequest EXCEPT ![r].stage = stage]
DocEnds(r) ==
  docRequest' = [docRequest EXCEPT ![r] = [ask |-> "look", prev |-> EmptyDoc, stage |-> "done"]]
\* With what it has read a look ends, and a save goes on.
DocRead(r, prev) ==
  IF docRequest[r].ask = "look" THEN DocEnds(r)
  ELSE docRequest' = [docRequest EXCEPT ![r].prev = prev, ![r].stage = "again"]
DocFails == docFailures < MaxDocFailures /\ docFailures' = docFailures + 1

\* Requests are numbered as they come.
AskFor(r, ask) ==
  /\ DocAt(r, "none") /\ \A q \in 1..(r - 1) : ~DocAt(q, "none")
  /\ docRequest' = [docRequest EXCEPT ![r].ask = ask, ![r].stage = "read"]
  /\ UNCHANGED <<hasRow, docRow, docFile, undivided, told, docFailures>>

\* get.  A failure counts as a document in the file, or as an empty one.
ReadDoc(r) ==
  /\ DocAt(r, "read")
  /\ \/ /\ hasRow /\ DocRead(r, docRow)
        /\ undivided' = undivided \cup {r}
        /\ UNCHANGED docFailures
     \/ ~hasRow /\ DocGoes(r, "create") /\ UNCHANGED <<undivided, docFailures>>
     \/ DocFails /\ DocRead(r, docFile) /\ UNCHANGED undivided
  /\ UNCHANGED <<hasRow, docRow, docFile, told>>

\* getOrCreate has found no row and writes an empty one, over a row that has been
\* created since.
CreateRow(r) ==
  /\ DocAt(r, "create") \/ DocAt(r, "createAgain")
  /\ \/ /\ hasRow' = TRUE /\ docRow' = EmptyDoc
        /\ IF DocAt(r, "create") THEN DocRead(r, EmptyDoc) ELSE DocGoes(r, "write")
        /\ undivided' = IF DocAt(r, "create") THEN {r} ELSE undivided \cap {r}
        /\ told' = IF hasRow THEN [s \in Sections |-> Unsure] ELSE told
        /\ UNCHANGED docFailures
     \/ /\ DocFails
        /\ IF DocAt(r, "create") THEN DocRead(r, docFile) ELSE DocGoes(r, "file")
        /\ UNCHANGED <<hasRow, docRow, undivided, told>>
  /\ UNCHANGED docFile

\* The second getOrCreate, of a save.
ReadAgain(r) ==
  /\ DocAt(r, "again")
  /\ \/ DocGoes(r, IF hasRow THEN "write" ELSE "createAgain") /\ UNCHANGED docFailures
     \/ DocFails /\ DocGoes(r, "file")
  /\ UNCHANGED <<hasRow, docRow, docFile, undivided, told>>

\* upsert, done, or lost: carried out, with an error for an answer.
WriteRow(r) ==
  /\ DocAt(r, "write")
  /\ hasRow' = TRUE /\ docRow' = DocSaved(r, docRequest[r].prev)
  /\ told' = [s \in Sections |->
                IF s \in AboutSections(docRequest[r].ask)
                THEN IF s = "key" THEN KeyAfter(r, EmptyDoc) ELSE r
                ELSE IF r \in undivided THEN told[s] ELSE Unsure]
  /\ undivided' = {}
  /\ \/ DocEnds(r) /\ UNCHANGED docFailures
     \/ DocGoes(r, "file") /\ DocFails
  /\ UNCHANGED docFile

WriteFails(r) ==
  /\ DocAt(r, "write") /\ DocFails /\ DocGoes(r, "file")
  /\ UNCHANGED <<hasRow, docRow, docFile, undivided, told>>

\* What Postgres does not take goes to the file, and is answered like a save.
WriteDocFile(r) ==
  /\ DocAt(r, "file") /\ DocEnds(r)
  /\ docFile' = DocSaved(r, docRequest[r].prev)
  /\ UNCHANGED <<hasRow, docRow, undivided, told, docFailures>>

SettingsNext == \E r \in DocRequests :
  \/ \E ask \in Asks : AskFor(r, ask)
  \/ ReadDoc(r) \/ CreateRow(r) \/ ReadAgain(r) \/ WriteRow(r) \/ WriteFails(r)
  \/ WriteDocFile(r)

SettingsSpec == SettingsInit /\ [][SettingsNext]_settingsVars

(***************************************************************************)
(* Properties.                                                             *)
(***************************************************************************)
\* Each section says what the last save of it said, whatever is saved of the others: a
\* key stays that a save does not mention, and one that was cleared does not return.
\* Not so where a save wrote what it had read before another's write, or from the file,
\* or where a first read created the row over a save.
SectionsKept == \A s \in Sections : told[s] # Unsure => docRow[s] = told[s]
=============================================================================
