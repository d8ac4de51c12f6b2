------------------------------- MODULE NoiseStack -------------------------------
(***************************************************************************)
(* The judge (packages/agents/src/judge.ts) and its noise stack            *)
(* (applyNoiseStack in noise.ts): which of a review's candidates become    *)
(* findings.  A candidate is what the stack looks at: the bug it is taken  *)
(* for (its fingerprint), a severity, a confidence, and whether it is a    *)
(* matter of style.  A list is a function on places: what is left of one   *)
(* keeps its place, and comes before what has a higher one.                *)
(***************************************************************************)
EXTENDS Naturals, FiniteSets, Functions

CONSTANTS
  Bugs,          \* fingerprints
  NumJudged,     \* how many candidates there are
  EarlierRows,   \* what an earlier review may have left of a bug
  SeverityFloor, \* policy.severityFloor
  NitCap,        \* policy.nitCap
  MaxFindings    \* policy.maxFindings

Nit == 0
Info == 1
Low == 2
High == 3
Severities == {Nit, Low, High}

\* Confidence is a matter of two levels, further apart than the step that counts.
ASSUME NoiseConstants ==
  /\ IsFiniteSet(Bugs) /\ NumJudged \in Nat
  /\ EarlierRows \subseteq [status : {"open", "closed"}, severity : Severities, confidence : 0..1]
  /\ SeverityFloor \in Nit..High /\ NitCap \in Nat /\ MaxFindings \in Nat

Candidates == [bug : Bugs, severity : Severities, confidence : 0..1, style : BOOLEAN]

\* priorMapFromFindings: the most severe row of each bug, if there is one.
Unreported == [status |-> "nothing", severity |-> Nit, confidence |-> 0]

VARIABLES
  candidates, \* what the specialists found and the verifier kept, in order
  suppressed, \* fingerprints with a negative memory
  earlier,    \* the rows of earlier reviews
  judged,     \* the judge is done
  reported    \* the findings it returns

noiseVars == <<candidates, suppressed, earlier, judged, reported>>

NoiseTypeOK ==
  /\ candidates \in [1..NumJudged -> Candidates]
  /\ suppressed \subseteq Bugs /\ earlier \in [Bugs -> EarlierRows \cup {Unreported}]
  /\ judged \in BOOLEAN
  /\ DOMAIN reported \subseteq 1..NumJudged /\ reported \in [DOMAIN reported -> Candidates]
  /\ Cardinality(DOMAIN reported) <= MaxFindings

NoiseInit ==
  /\ candidates \in [1..NumJudged -> Candidates]
  /\ suppressed \in SUBSET Bugs
  /\ earlier \in [Bugs -> EarlierRows \cup {Unreported}]
  /\ judged = FALSE /\ reported = <<>>

(***************************************************************************)
(* The five parts of the stack.  A Slip_ operator is a plausible bug in    *)
(* the definition after it.                                                *)
(***************************************************************************)
AboveFloor(cs) ==
  Restrict(cs, {i \in DOMAIN cs : cs[i].severity >= SeverityFloor /\ cs[i].bug \notin suppressed})

Slip_AsStrong(new, old) == new.severity <= old.severity
Stronger(new, old) == new.severity > old.severity \/ new.confidence > old.confidence

\* The place of the candidate that is kept of a bug, after the first n places, if any.
Kept(cs, bug) ==
  LET kept[n \in Nat] ==
        IF n = 0 THEN 0
        ELSE IF /\ n \in DOMAIN cs /\ cs[n].bug = bug
                /\ kept[n - 1] = 0 \/ Stronger(cs[n], cs[kept[n - 1]])
             THEN n ELSE kept[n - 1]
  IN kept

\* One candidate for each fingerprint, at the place of the fingerprint's first one.
Dedupe(cs) ==
  [i \in {k \in DOMAIN cs : \A j \in DOMAIN cs : j < k => cs[j].bug # cs[k].bug} |->
     cs[Kept(cs, cs[i].bug)[NumJudged]]]

\* Matters of style up to severity low count as nits.
AsNit(c) == IF c.style /\ c.severity <= Low THEN [c EXCEPT !.severity = Nit] ELSE c

Half == IF NitCap < 4 THEN 1 ELSE NitCap \div 2

NitsUpTo(cs, i) == Cardinality({k \in DOMAIN cs : k <= i /\ cs[k].severity = Nit})

\* With this many nits so far, c is one too many; the filter for style bites at half the
\* cap, and all nits are matters of style.
OneTooMany(c, nits) ==
  \/ c.severity = Nit /\ nits > NitCap
  \/ (c.severity = Nit \/ c.style) /\ c.severity <= Info /\ nits > Half

FilterNits(cs) ==
  LET marked == [i \in DOMAIN cs |-> AsNit(cs[i])]
  IN Restrict(marked, {i \in DOMAIN cs : ~OneTooMany(marked[i], NitsUpTo(marked, i))})

\* What was reported before is reported again if it is more severe than the row, or, still
\* open, surer.
Again(c) ==
  LET row == earlier[c.bug] IN
    \/ row = Unreported
    \/ c.severity > row.severity
    \/ row.status = "open" /\ c.confidence > row.confidence

Converged(cs) == Restrict(cs, {i \in DOMAIN cs : Again(cs[i])})

Before(cs, i, j) ==
  cs[i].severity > cs[j].severity \/ (cs[i].severity = cs[j].severity /\ i < j)

\* Those with fewer than maxFindings before them in the order of severity.
CapFindings(cs) ==
  Restrict(cs, {j \in DOMAIN cs : Cardinality({i \in DOMAIN cs : Before(cs, i, j)}) < MaxFindings})

ApplyNoiseStack(cs) == CapFindings(Converged(FilterNits(Dedupe(AboveFloor(cs)))))

JudgeFindings ==
  /\ ~judged /\ judged' = TRUE
  /\ reported' = ApplyNoiseStack(candidates)
  /\ UNCHANGED <<candidates, suppressed, earlier>>

NoiseNext == JudgeFindings

NoiseSpec == NoiseInit /\ [][NoiseNext]_noiseVars

(***************************************************************************)
(* Properties.                                                             *)
(***************************************************************************)
ReportedBugs == {reported[i].bug : i \in DOMAIN reported}

\* The strongest candidate of a bug: none is more severe and none surer.
Strongest(c) ==
  \A i \in DOMAIN candidates : candidates[i].bug = c.bug =>
    /\ candidates[i].severity <= c.severity
    /\ candidates[i].confidence <= c.confidence

\* No part of the stack loses a severe bug that is news: the strongest candidate of a bug
\* that no memory suppresses is reported as severe as it is, unless as many findings as
\* may be reported are as severe, or an earlier review has a row of the bug that is as
\* severe already - closed, or open and no less sure.  (So a severe bug that was fixed and
\* has come back is lost: noise.ts:213-226.)
SignalKept ==
  judged => \A i \in DOMAIN candidates :
    LET c == candidates[i]
        row == earlier[c.bug] IN
      /\ c.severity = High /\ Strongest(c) /\ c.bug \notin suppressed
      /\ row.severity < High \/ (row.status = "open" /\ row.confidence < c.confidence)
      => \/ \E k \in DOMAIN reported : reported[k].bug = c.bug /\ reported[k].severity = High
         \/ Cardinality(DOMAIN reported) = MaxFindings /\ \A k \in DOMAIN reported : reported[k].severity = High

\* A bug is reported once, and no more nits are than the cap allows, of which the
\* filter for style takes a half.
NoiseBounded ==
  judged =>
    /\ Cardinality(ReportedBugs) = Cardinality(DOMAIN reported)
    /\ Cardinality({k \in DOMAIN reported : reported[k].severity = Nit}) <= Half

\* A bug that an earlier review reported is reported again only if some candidate
\* is more severe than its row, or, for one still open, surer.
ReportedOnce ==
  judged => \A b \in ReportedBugs : earlier[b] # Unreported =>
    \E i \in DOMAIN candidates :
      /\ candidates[i].bug = b
      /\ \/ candidates[i].severity > earlier[b].severity
         \/ earlier[b].status = "open" /\ candidates[i].confidence > earlier[b].confidence

\* The report keeps what is severe and news, repeats nothing and is not all nits.
ReportSound == SignalKept /\ NoiseBounded /\ ReportedOnce
=============================================================================
