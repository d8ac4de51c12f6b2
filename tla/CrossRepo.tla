------------------------------ MODULE CrossRepo ------------------------------
(***************************************************************************)
(* A review that reaches into linked repositories                          *)
(* (packages/agents/src/cross-repo/): the links are followed breadth first *)
(* under a budget (fanout.ts), each repository found is mounted or cloned  *)
(* (materialize.ts), its graph is rebuilt, the graphs are joined           *)
(* (graph-links.ts), and the links are followed again, this time for units *)
(* (prepare.ts).  Any clone, rebuild or join may fail.  Links are followed *)
(* both ways; the globs of a link are one bit, whether the reviewed paths  *)
(* match them.                                                             *)
(***************************************************************************)
EXTENDS Naturals, Sequences, FiniteSets, Functions

CONSTANTS
  Primary,     \* the reviewed repository
  LinkedRepos, \* the others
  NumLinks,    \* how many links the organisation has
  SomeLinks,   \* what they may be
  Budgets      \* what job.crossRepoBudget may be

AllRepos == LinkedRepos \cup {Primary}

Links ==
  [ends : {e \in SUBSET AllRepos : Cardinality(e) = 2}, rule : {"off", "filtered", "open"}]

ASSUME CrossRepoConstants ==
  /\ IsFiniteSet(LinkedRepos) /\ Primary \notin LinkedRepos /\ NumLinks \in Nat
  /\ SomeLinks \subseteq Links
  /\ Budgets \subseteq [maxRepos : Nat \ {0}, maxDepth : Nat \ {0}, maxExtraUnits : Nat \ {0}]

VARIABLES
  links,    \* the organisation's links, in the order they are stored
  budget,   \* this review's budget
  step,     \* how far prepareCrossRepoReview is
  queue,    \* repositories whose links are still to be followed, with their depths
  cur,      \* the repository whose links are being followed, or were last
  outgoing, \* those of its links that are still to be followed
  repos,    \* repositories found, in order
  units,    \* repositories that get a unit
  reasons,  \* repositories with a reason for having none
  tree,     \* where the working tree of each repository is
  rebuilt,  \* repositories whose graph was rebuilt
  joined    \* links that were written to the graph

givenVars == <<links, budget>>
placeVars == <<queue, cur, outgoing>>
foundVars == <<placeVars, repos, units, reasons>>
afterVars == <<tree, rebuilt, joined>>
repoVars == <<givenVars, step, foundVars, afterVars>>

Nodes == [repo : AllRepos, depth : 0..budget.maxDepth]

RepoTypeOK ==
  /\ links \in [1..NumLinks -> SomeLinks] /\ budget \in Budgets
  /\ step \in {"preview", "materialize", "rebuild", "join", "plan", "done"}
  /\ queue \in Seq(Nodes) /\ cur \in Nodes /\ outgoing \subseteq 1..NumLinks
  /\ repos \in Seq(AllRepos) /\ IsInjective(repos)
  /\ units \subseteq LinkedRepos /\ reasons \subseteq LinkedRepos
  /\ tree \in [LinkedRepos -> {"unasked", "here", "missing"}]
  /\ rebuilt \subseteq LinkedRepos /\ joined \subseteq 1..NumLinks

Start == [repo |-> Primary, depth |-> 0]

RepoStarts ==
  /\ step = "preview"
  /\ queue = <<Start>> /\ cur = Start /\ outgoing = {} /\ repos = <<Primary>>
  /\ units = {} /\ reasons = {} /\ rebuilt = {} /\ joined = {}
  /\ tree = [r \in LinkedRepos |-> "unasked"]

RepoInit == links \in [1..NumLinks -> SomeLinks] /\ budget \in Budgets /\ RepoStarts

(***************************************************************************)
(* planCrossRepoFanOut.  A Slip_ operator is a plausible bug in the        *)
(* definition after it.                                                    *)
(***************************************************************************)
\* The repository at the other end.
Across(l, r) == CHOOSE x \in links[l].ends : x # r

Slip_Blocked(l, r) == links[l].rule = "filtered"

\* Globs bind only where a link leaves the reviewed repository.
Blocked(l, r) == r = Primary /\ links[l].rule = "filtered"

Reached == Range(repos)
Full == Len(repos) >= budget.maxRepos

\* The next repository is taken from the queue.  Its links are not followed if it is as far
\* away as the budget allows.
TakeRepo ==
  /\ step \in {"preview", "plan"} /\ outgoing = {} /\ queue # <<>> /\ ~Full
  /\ cur' = Head(queue) /\ queue' = Tail(queue)
  /\ outgoing' = {l \in 1..NumLinks : /\ cur'.depth < budget.maxDepth
                                      /\ links[l].rule # "off" /\ cur'.repo \in links[l].ends}
  /\ UNCHANGED <<givenVars, step, repos, units, reasons, afterVars>>

\* Links are followed in the order they are stored.
FollowLink(l) ==
  /\ step \in {"preview", "plan"}
  /\ l \in outgoing /\ \A k \in outgoing : l <= k
  /\ outgoing' = outgoing \ {l}
  /\ UNCHANGED <<givenVars, step, cur, afterVars>>

PassLink(l) ==
  /\ FollowLink(l) /\ Across(l, cur.repo) \in Reached
  /\ UNCHANGED <<queue, repos, units, reasons>>

LeaveOut(l) ==
  /\ FollowLink(l) /\ Across(l, cur.repo) \notin Reached /\ (Full \/ Blocked(l, cur.repo))
  /\ reasons' = reasons \cup {Across(l, cur.repo)}
  /\ UNCHANGED <<queue, repos, units>>

\* A repository that is found gets a unit if the budget has one left and its tree is here.
Discover(l) ==
  LET next == Across(l, cur.repo) IN
    /\ FollowLink(l) /\ next \notin Reached /\ ~(Full \/ Blocked(l, cur.repo))
    /\ repos' = Append(repos, next)
    /\ queue' = Append(queue, [repo |-> next, depth |-> cur.depth + 1])
    /\ IF Cardinality(units) >= budget.maxExtraUnits \/ tree[next] # "here"
       THEN reasons' = reasons \cup {next} /\ UNCHANGED units
       ELSE units' = units \cup {next} /\ UNCHANGED reasons

Explored == outgoing = {} /\ (queue = <<>> \/ Full)

\* Of the first plan only the repositories are used.
EndPreview ==
  /\ step = "preview" /\ Explored /\ step' = "materialize"
  /\ units' = {} /\ reasons' = {}
  /\ UNCHANGED <<givenVars, placeVars, repos, afterVars>>

(***************************************************************************)
(* The rest of prepareCrossRepoReview.                                     *)
(***************************************************************************)
Unasked == {r \in Reached \ {Primary} : tree[r] = "unasked"}

\* The path of a link is used if it exists; else the repository is cloned, if it has an
\* owner, cloning is on and there is a token.
Materialize(r) ==
  /\ step = "materialize" /\ r \in Unasked
  /\ \E place \in {"here", "missing"} : tree' = [tree EXCEPT ![r] = place]
  /\ UNCHANGED <<givenVars, step, foundVars, rebuilt, joined>>

EndMaterialize ==
  /\ step = "materialize" /\ Unasked = {} /\ step' = "rebuild"
  /\ UNCHANGED <<givenVars, foundVars, afterVars>>

Here == {r \in LinkedRepos : tree[r] = "here"}

\* The graphs are rebuilt one by one; one that fails is logged.
Rebuild ==
  /\ step = "rebuild" /\ step' = "join"
  /\ \E done \in SUBSET Here : rebuilt' = done
  /\ UNCHANGED <<givenVars, foundVars, tree, joined>>

\* Links between trees that are here are written to the graph, in one call that may fail,
\* and that is not made if the review has no tree of its own.
Join ==
  /\ step = "join" /\ step' = "plan"
  /\ \/ joined' = {l \in 1..NumLinks :
                     links[l].rule # "off" /\ links[l].ends \subseteq Here \cup {Primary}}
     \/ joined' = {}
  /\ queue' = <<Start>> /\ cur' = Start /\ outgoing' = {} /\ repos' = <<Primary>>
  /\ UNCHANGED <<givenVars, units, reasons, tree, rebuilt>>

EndPlan ==
  /\ step = "plan" /\ Explored /\ step' = "done"
  /\ UNCHANGED <<givenVars, foundVars, afterVars>>

RepoNext ==
  \/ TakeRepo \/ EndPreview \/ EndMaterialize \/ Rebuild \/ Join \/ EndPlan
  \/ \E l \in 1..NumLinks : PassLink(l) \/ LeaveOut(l) \/ Discover(l)
  \/ \E r \in LinkedRepos : Materialize(r)

RepoSpec == RepoInit /\ [][RepoNext]_repoVars

(***************************************************************************)
(* Properties                                                              *)
(***************************************************************************)
\* The repositories at most n links away.
Within[n \in Nat] ==
  IF n = 0 THEN {Primary}
  ELSE Within[n - 1] \cup
       UNION {links[l].ends : l \in {k \in 1..NumLinks :
                /\ links[k].ends \cap Within[n - 1] # {} /\ links[k].rule # "off"
                /\ ~(Primary \in links[k].ends /\ links[k].rule = "filtered")}}

\* What is found under the budget is what lies nearest: no repository is further away than
\* maxDepth, none is left out for one that is further away, and none is left out at all
\* unless maxRepos are found.  The second plan finds the repositories the first one found,
\* so that every clone is used and every repository was asked for; each has one unit, or a
\* reason for having none, and no unit is without a tree (fanout.ts, prepare.ts).
FanOutSound ==
  /\ Reached \subseteq Within[budget.maxDepth] /\ Len(repos) <= budget.maxRepos
  /\ Cardinality(units) <= budget.maxExtraUnits /\ units \subseteq Here
  /\ step \in {"materialize", "done"} =>
       /\ \A n \in 0..budget.maxDepth :
            Reached \subseteq Within[n] \/ Within[n] \subseteq Reached
       /\ Len(repos) < budget.maxRepos => Reached = Within[budget.maxDepth]
  /\ step = "done" =>
       /\ Reached = {Primary} \cup {r \in LinkedRepos : tree[r] # "unasked"}
       /\ \A r \in Reached \ {Primary} : r \in units \cup reasons
       /\ \A r \in Here \ units : Cardinality(units) = budget.maxExtraUnits
==============================================================================
