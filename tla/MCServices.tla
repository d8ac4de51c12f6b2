------------------------------ MODULE MCServices ------------------------------
(***************************************************************************)
(* Small instances of eleven modules about what comes before and after the *)
(* work on units, checked in one configuration.  They share no state: part *)
(* names the one that runs, and the others stay in an initial state.       *)
(***************************************************************************)
EXTENDS Publication, WebhookDelivery, FindingLifecycle, SeniorVerifier, NoiseStack,
        OutcomeMemory, RuntimeConfig, CrossRepo, Membership, MergeOutcome, OrgSettings

CONSTANTS r1, r2, p1, p2, b1, b2, b3, q1, q2, q3, f1, f2, f3, j1, j2

VARIABLE part

\* Four findings, two to a file; one of them is not on the diff.
Files == [f \in Reported |-> IF f < 3 THEN "a" ELSE "b"]
LinesOnDiff == {1, 2, 4}

TwoReviewers == {r1, r2}
TwoPullRequests == {p1, p2}

ThreeRepos == {q1, q2, q3}
\* All links of four repositories, and one that is off.
LinksOfFour ==
  [ends : {e \in SUBSET (ThreeRepos \cup {Primary}) : Cardinality(e) = 2},
   rule : {"filtered", "open"}]
    \cup {[ends |-> {Primary, q1}, rule |-> "off"]}
SomeBudgets == {[maxRepos |-> 3, maxDepth |-> 2, maxExtraUnits |-> 2],
                [maxRepos |-> 4, maxDepth |-> 2, maxExtraUnits |-> 1]}

ThreeBugs == {b1, b2, b3}

\* A merge delivered twice.  Its patch has the fix of one finding, which is tagged with no
\* pull request, and changes the file of a second; a third is another pull request's, in a
\* sensitive file of the same patch.
ThreeNoted == {f1, f2, f3}
FileOfNoted == [f \in ThreeNoted |-> CASE f = f1 -> "api" [] f = f2 -> "db" [] f = f3 -> "auth"]
TagsOfNoted ==
  [f \in ThreeNoted |-> CASE f = f1 -> {} [] f = f2 -> {p1} [] f = f3 -> {p2}]
FilesChanged == [p \in TwoPullRequests |-> IF p = p1 THEN {"api", "db", "auth"} ELSE {}]
FixesApplied == [p \in TwoPullRequests |-> IF p = p1 THEN {f1} ELSE {}]
TwoDeliveries == [j \in {j1, j2} |-> p1]
OpenRows == [status : {"open"}, auto : BOOLEAN, reaction : {"none"}]

Parts == {"publish", "webhook", "finding", "verifier", "noise", "outcome", "config",
          "linked", "members", "merge", "settings"}

\* One bug may be known: from a memory, or from a row as severe as a candidate may be or
\* less, closed or open, sure or not.
SomeRows == {[status |-> "closed", severity |-> Low, confidence |-> 0],
             [status |-> "closed", severity |-> High, confidence |-> 0],
             [status |-> "open", severity |-> Low, confidence |-> 1],
             [status |-> "open", severity |-> High, confidence |-> 0]}
OneKnown ==
  \/ suppressed = {b1} /\ earlier = [b \in Bugs |-> Unreported]
  \/ suppressed = {} /\ \E row \in SomeRows \cup {Unreported} :
                          earlier = [b \in Bugs |-> IF b = b1 THEN row ELSE Unreported]

\* Two bugs nothing is known of are alike: the one comes before the other.
OneOfTwins == \A i \in 1..NumJudged : candidates[i].bug = b3 =>
                 \E k \in 1..(i - 1) : candidates[k].bug = b2

MCInit ==
  /\ part \in Parts
  /\ PublishInit
  /\ WebhookInit /\ (part # "webhook" => event = "ignored")
  /\ FindingInit /\ (part # "finding" => bugIn = {})
  /\ VerifierInit /\ (part # "verifier" => bar = "off")
  /\ IF part = "noise" THEN OneKnown /\ NoiseInit /\ OneOfTwins
     ELSE /\ candidates = [i \in 1..NumJudged |->
                             [bug |-> b1, severity |-> Low, confidence |-> 0, style |-> FALSE]]
          /\ suppressed = {} /\ earlier = [b \in Bugs |-> Unreported]
          /\ judged = FALSE /\ reported = <<>>
  /\ OutcomeInit /\ (part # "outcome" => ~important)
  /\ ConfigInit /\ pins \in (IF part = "config" THEN {{}, {"policy"}, Keys} ELSE {{}})
  /\ IF part = "linked" THEN RepoInit
     ELSE /\ links = [l \in 1..NumLinks |-> [ends |-> {Primary, q1}, rule |-> "off"]]
          /\ budget = CHOOSE b \in Budgets : b.maxRepos = 3
          /\ RepoStarts
  /\ MembershipInit
  /\ MergeInit /\ ~standing[f2].auto /\ ~standing[f3].auto
  /\ part # "merge" => ~standing[f1].auto
  /\ SettingsInit

MCNext ==
  /\ UNCHANGED part
  /\ \/ /\ part = "publish" /\ PublishNext
        /\ UNCHANGED <<webhookVars, findingVars, verifierVars, noiseVars, outcomeVars, configVars,
                       repoVars, memberVars, mergeVars, settingsVars>>
     \/ /\ part = "webhook" /\ WebhookNext
        /\ UNCHANGED <<publishVars, findingVars, verifierVars, noiseVars, outcomeVars, configVars,
                       repoVars, memberVars, mergeVars, settingsVars>>
     \/ /\ part = "finding" /\ FindingNext
        /\ UNCHANGED <<publishVars, webhookVars, verifierVars, noiseVars, outcomeVars, configVars,
                       repoVars, memberVars, mergeVars, settingsVars>>
     \/ /\ part = "verifier" /\ VerifierNext
        /\ UNCHANGED <<publishVars, webhookVars, findingVars, noiseVars, outcomeVars, configVars,
                       repoVars, memberVars, mergeVars, settingsVars>>
     \/ /\ part = "noise" /\ NoiseNext
        /\ UNCHANGED <<publishVars, webhookVars, findingVars, verifierVars, outcomeVars, configVars,
                       repoVars, memberVars, mergeVars, settingsVars>>
     \/ /\ part = "outcome" /\ OutcomeNext
        /\ UNCHANGED <<publishVars, webhookVars, findingVars, verifierVars, noiseVars, configVars,
                       repoVars, memberVars, mergeVars, settingsVars>>
     \/ /\ part = "config" /\ ConfigNext
        /\ UNCHANGED <<publishVars, webhookVars, findingVars, verifierVars, noiseVars, outcomeVars,
                       repoVars, memberVars, mergeVars, settingsVars>>
     \/ /\ part = "linked" /\ RepoNext
        /\ UNCHANGED <<publishVars, webhookVars, findingVars, verifierVars, noiseVars, outcomeVars,
                       configVars, memberVars, mergeVars, settingsVars>>
     \/ /\ part = "members" /\ MembershipNext
        /\ UNCHANGED <<publishVars, webhookVars, findingVars, verifierVars, noiseVars, outcomeVars,
                       configVars, repoVars, mergeVars, settingsVars>>
     \/ /\ part = "merge" /\ MergeNext
        /\ UNCHANGED <<publishVars, webhookVars, findingVars, verifierVars, noiseVars, outcomeVars,
                       configVars, repoVars, memberVars, settingsVars>>
     \/ /\ part = "settings" /\ SettingsNext
        /\ UNCHANGED <<publishVars, webhookVars, findingVars, verifierVars, noiseVars, outcomeVars,
                       configVars, repoVars, memberVars, mergeVars>>

ServicesSpec ==
  MCInit /\ [][MCNext]_<<part, publishVars, webhookVars, findingVars, verifierVars, noiseVars,
                         outcomeVars, configVars, repoVars, memberVars, mergeVars,
                         settingsVars>>

\* The types of the part that runs; the others stay as they are.
ServicesTypeOK ==
  CASE part = "publish"  -> PublishTypeOK
    [] part = "webhook"  -> WebhookTypeOK
    [] part = "finding"  -> FindingTypeOK
    [] part = "verifier" -> VerifierTypeOK
    [] part = "noise"    -> NoiseTypeOK
    [] part = "outcome"  -> OutcomeTypeOK
    [] part = "config"   -> ConfigTypeOK
    [] part = "linked"   -> RepoTypeOK
    [] part = "members"  -> MembershipTypeOK
    [] part = "merge"    -> MergeTypeOK
    [] part = "settings" -> SettingsTypeOK

\* What is learned from merges and outcomes is counted once and says what they say.
LearningSound == MemorySound /\ MergeSound

\* Settings are kept as they were saved, and a job reads those of its organisation.
SettingsSound == JobsReadTheirOwn /\ SectionsKept
=============================================================================
