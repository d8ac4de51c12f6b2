---------------------------- MODULE ServicesProofs ----------------------------
(***************************************************************************)
(* A delivery that is sent several times (WebhookDelivery), findings on    *)
(* their way to the pull request (Publication), seats and members          *)
(* (Membership), linked repositories (CrossRepo): for every number of      *)
(* handlers, findings, users, requests, links and failures; and all that   *)
(* MCServices puts side by side.                                           *)
(***************************************************************************)
EXTENDS FindingProofs, LearningProofs, SettingsProofs

(***************************************************************************)
(* A delivery that is sent several times.                                  *)
(***************************************************************************)
HandlerPlaces ==
  {"unsent", "look", "insert", "again", "reset", "fileLook", "fileAdd", "fileReset",
   "react", "load", "enqueue", "ack", "markOk", "markFailed"} \cup Ended

\* Where a handler can no longer find that the delivery is another one's.
OwnPlaces ==
  {"fileAdd", "fileReset", "react", "load", "enqueue", "ack", "markOk", "markFailed",
   "answered", "error", "dead"}
Owned == \E g \in Handlers : at[g] \in OwnPlaces
Undecided == \E g \in Handlers : at[g] = "fileLook"

\* The row, the file's entry and a duplicate each show that some handler claimed the
\* delivery; the one whose answer was lost has yet to look into the file.
ClaimIsOwned ==
  /\ filed # "none" => Owned
  /\ logged # "none" => Owned \/ Undecided
  /\ (\E h \in Handlers : at[h] = "duplicate") => Owned \/ Undecided

FilePlaces == {"fileLook", "fileAdd", "fileReset"}

\* To whom the delivery is new, or may yet be: one by the row, the others after a failure.
Newcomers == {h \in Handlers : via[h] = "new" \/ at[h] \in FilePlaces}
NewClaims ==
  /\ IsFiniteSet(Newcomers)
  /\ Cardinality(Newcomers) <= pgFailures + (IF logged = "none" THEN 0 ELSE 1)

\* What a handler has made when it is about to queue the job, or to mark the delivery.
WorkBefore ==
  /\ \A h \in Handlers : at[h] = "enqueue" => h \in madeSession
  /\ event \in {"review", "mention", "outcome"} =>
       \A h \in Handlers : at[h] \in {"ack", "markOk"} => madeJob # {}

ClaimInv == WebhookTypeOK /\ ClaimIsOwned /\ NewClaims /\ WorkBefore /\ ProcessedMeansQueued

LEMMA ClaimStart == WebhookInit => ClaimInv
<1> SUFFICES ASSUME WebhookInit PROVE ClaimInv
  OBVIOUS
<1> USE DEF WebhookInit
<1>1. WebhookTypeOK
  <2>1. pgFailures \in 0..MaxPgFailures
    BY WebhookConstants
  <2>2. lapsed \in BOOLEAN
    BY Zenon
  <2> QED BY <2>1, <2>2 DEF WebhookTypeOK, Entries
<1>2. ClaimIsOwned /\ WorkBefore /\ ProcessedMeansQueued
  BY DEF ClaimIsOwned, WorkBefore, ProcessedMeansQueued
<1>3. Newcomers = {}
  BY DEF Newcomers, FilePlaces
<1>4. NewClaims
  BY <1>3, FS_EmptySet DEF NewClaims
<1> QED BY <1>1, <1>2, <1>4 DEF ClaimInv

\* A handler joins the newcomers only when a statement fails, or when it makes the row.
LEMMA FewNewcomers ==
  ASSUME NewClaims, pgFailures \in Nat, pgFailures' \in {pgFailures, pgFailures + 1},
         logged # "none" => logged' # "none",
         NEW h \in Handlers, Newcomers' \subseteq Newcomers \cup {h},
         h \in Newcomers' => \/ h \in Newcomers \/ pgFailures' = pgFailures + 1
                             \/ logged = "none" /\ logged' # "none"
  PROVE  NewClaims'
<1> DEFINE bound(p, l) == p + (IF l = "none" THEN 0 ELSE 1)
<1>1. IsFiniteSet(Newcomers) /\ Cardinality(Newcomers) <= bound(pgFailures, logged)
  BY DEF NewClaims
<1>2. SUFFICES IsFiniteSet(Newcomers') /\ Cardinality(Newcomers') <= bound(pgFailures', logged')
  BY DEF NewClaims
<1>3. Cardinality(Newcomers) \in Nat
  BY <1>1, FS_CardinalityType
<1>4. CASE h \in Newcomers' => h \in Newcomers
  <2>1. Newcomers' \subseteq Newcomers
    BY <1>4
  <2>2. /\ IsFiniteSet(Newcomers') /\ Cardinality(Newcomers') <= Cardinality(Newcomers)
        /\ Cardinality(Newcomers') \in Nat
    BY <1>1, <2>1, FS_Subset, FS_CardinalityType
  <2> QED BY <1>1, <1>3, <2>2
<1>5. CASE h \in Newcomers' /\ h \notin Newcomers
  <2>1. /\ IsFiniteSet(Newcomers \cup {h})
        /\ Cardinality(Newcomers \cup {h}) = Cardinality(Newcomers) + 1
    BY <1>1, <1>5, FS_AddElement
  <2>2. /\ IsFiniteSet(Newcomers') /\ Cardinality(Newcomers') <= Cardinality(Newcomers \cup {h})
        /\ Cardinality(Newcomers') \in Nat
    BY <2>1, FS_Subset, FS_CardinalityType
  <2>3. bound(pgFailures', logged') >= bound(pgFailures, logged) + 1
    <3>1. CASE pgFailures' = pgFailures + 1
      <4>1. CASE logged = "none"
        BY <3>1, <4>1
      <4>2. CASE logged # "none"
        BY <3>1, <4>2
      <4> QED BY <4>1, <4>2
    <3>2. CASE pgFailures' = pgFailures /\ logged = "none" /\ logged' # "none"
      BY <3>2
    <3> QED BY <1>5, <3>1, <3>2
  <2>4. bound(pgFailures', logged') \in Nat /\ bound(pgFailures, logged) \in Nat
    <3>1. pgFailures' \in Nat
      OBVIOUS
    <3>2. ASSUME NEW p \in Nat, NEW l PROVE bound(p, l) \in Nat
      OBVIOUS
    <3> HIDE DEF bound
    <3> QED BY <3>1, <3>2
  <2> HIDE DEF bound
  <2> QED BY <1>1, <1>3, <2>1, <2>2, <2>3, <2>4
<1> QED BY <1>4, <1>5

\* A handler that goes on and leaves the work as it is.  If it finds a duplicate, the row or
\* the entry of the file showed it.
LEMMA ClaimMove ==
  ASSUME ClaimInv, NEW h \in Handlers, NEW place \in HandlerPlaces,
         at' = [at EXCEPT ![h] = place],
         UNCHANGED makeVars, UNCHANGED lapsed, via' \in [Handlers -> {"none", "new", "again"}],
         pgFailures' \in {pgFailures, pgFailures + 1}, pgFailures' \in 0..MaxPgFailures,
         logged' \in Entries, filed' \in Entries,
         at[h] \in OwnPlaces => place \in OwnPlaces,
         at[h] = "fileLook" /\ place \notin OwnPlaces => place = "duplicate" /\ filed # "none",
         place = "duplicate" => logged # "none" \/ filed # "none",
         filed' # "none" => filed # "none" \/ place \in OwnPlaces,
         logged' # "none" => logged # "none" \/ place \in OwnPlaces \cup {"fileLook"},
         logged # "none" => logged' # "none",
         \A g \in Handlers \ {h} : via'[g] = via[g],
         via'[h] = "new" \/ place \in FilePlaces =>
           \/ via[h] = "new" \/ at[h] \in FilePlaces \/ pgFailures' = pgFailures + 1
           \/ logged = "none" /\ logged' # "none",
         place = "enqueue" => at[h] = "enqueue",
         place = "markOk" => at[h] = "ack", place # "ack",
         "processed" \in {logged', filed'} => "processed" \in {logged, filed} \/ at[h] = "markOk"
  PROVE  ClaimInv'
<1> USE DEF ClaimInv, makeVars
<1>1. WebhookTypeOK'
  BY DEF WebhookTypeOK, HandlerPlaces
<1>2. \A g \in Handlers : at'[g] = IF g = h THEN place ELSE at[g]
  BY DEF WebhookTypeOK
<1>3. Owned => Owned'
  BY <1>2 DEF Owned
<1>4. Undecided => Owned' \/ Undecided'
  BY <1>2, <1>3 DEF Undecided, Owned, ClaimIsOwned
<1>5. ClaimIsOwned'
  BY <1>2, <1>3, <1>4 DEF ClaimIsOwned, Owned, Undecided
<1>6. NewClaims'
  <2>1. pgFailures \in Nat
    BY DEF WebhookTypeOK
  <2>2. /\ Newcomers' \subseteq Newcomers \cup {h}
        /\ h \in Newcomers' => via'[h] = "new" \/ place \in FilePlaces
    BY <1>2 DEF Newcomers
  <2>3. via[h] = "new" \/ at[h] \in FilePlaces => h \in Newcomers
    BY DEF Newcomers
  <2> QED BY <2>1, <2>2, <2>3, FewNewcomers
<1>7. WorkBefore'
  BY <1>2 DEF WorkBefore
<1>8. ProcessedMeansQueued'
  BY DEF ProcessedMeansQueued, WorkBefore
<1> QED BY <1>1, <1>5, <1>6, <1>7, <1>8

LEMMA ClaimClaim ==
  ASSUME ClaimInv, NEW h \in Handlers,
         \/ Send(h) \/ PgFails(h) \/ Look(h) \/ Insert(h) \/ LookAgain(h) \/ Reset(h)
         \/ FileLook(h) \/ FileWrite(h)
  PROVE  ClaimInv'
<1> USE DEF Go, HandlerPlaces, OwnPlaces, FilePlaces, Ended
<1>1. /\ logged \in Entries /\ filed \in Entries /\ pgFailures \in 0..MaxPgFailures
      /\ via \in [Handlers -> {"none", "new", "again"}]
      /\ "fresh" \in Entries
  BY DEF ClaimInv, WebhookTypeOK, Entries
<1>2. CASE Send(h)
  BY <1>1, <1>2, ClaimMove DEF Send
<1>3. CASE PgFails(h)
  <2>1. pgFailures' \in 0..MaxPgFailures
    BY <1>1, <1>3, WebhookConstants DEF PgFails
  <2> QED BY <1>1, <1>3, <2>1, ClaimMove DEF PgFails
<1>4. CASE Look(h)
  <2>1. CASE logged = "none"
    BY <1>1, <1>4, <2>1, ClaimMove DEF Look
  <2>2. CASE logged # "none" /\ IsFree(logged)
    BY <1>1, <1>4, <2>2, ClaimMove DEF Look, Judge
  <2>3. CASE logged # "none" /\ ~IsFree(logged)
    BY <1>1, <1>4, <2>3, ClaimMove DEF Look, Judge
  <2> QED BY <2>1, <2>2, <2>3
<1>5. CASE Insert(h)
  <2>1. CASE logged = "none"
    <3>1. /\ via' = [via EXCEPT ![h] = "new"]
          /\ via' \in [Handlers -> {"none", "new", "again"}]
      BY <1>1, <1>5, <2>1 DEF Insert, Inserts, Accept
    <3> QED BY <1>1, <1>5, <2>1, <3>1, ClaimMove DEF Insert, Inserts, Accept
  <2>2. CASE logged # "none"
    BY <1>1, <1>5, <2>2, ClaimMove DEF Insert, Inserts
  <2> QED BY <2>1, <2>2
<1>6. CASE LookAgain(h)
  <2>1. CASE IsFree(logged)
    BY <1>1, <1>6, <2>1, ClaimMove DEF LookAgain, Judge
  <2>2. CASE ~IsFree(logged)
    BY <1>1, <1>6, <2>2, ClaimMove DEF LookAgain, Judge, IsFree
  <2> QED BY <2>1, <2>2
<1>7. CASE Reset(h)
  <2>1. /\ via' = [via EXCEPT ![h] = "again"]
        /\ via' \in [Handlers -> {"none", "new", "again"}]
    BY <1>1, <1>7 DEF Reset, Accept
  <2> QED BY <1>1, <1>7, <2>1, ClaimMove DEF Reset, Accept
<1>8. CASE FileLook(h)
  <2>1. CASE filed = "none"
    BY <1>1, <1>8, <2>1, ClaimMove DEF FileLook
  <2>2. CASE filed # "none" /\ IsFree(filed)
    BY <1>1, <1>8, <2>2, ClaimMove DEF FileLook, Judge
  <2>3. CASE ~IsFree(filed)
    BY <1>1, <1>8, <2>3, ClaimMove DEF FileLook, Judge, IsFree
  <2> QED BY <2>1, <2>2, <2>3
<1>9. CASE FileWrite(h)
  <2>1. /\ via' = [via EXCEPT ![h] = IF at[h] = "fileAdd" THEN "new" ELSE "again"]
        /\ via' \in [Handlers -> {"none", "new", "again"}]
    BY <1>1, <1>9 DEF FileWrite, Accept
  <2> QED BY <1>1, <1>9, <2>1, ClaimMove DEF FileWrite, Accept
<1> QED BY <1>2, <1>3, <1>4, <1>5, <1>6, <1>7, <1>8, <1>9

\* A handler that owns its claim does the work.
LEMMA ClaimWork ==
  ASSUME ClaimInv, NEW h \in Handlers, React(h) \/ LoadPullRequest(h) \/ Enqueue(h)
  PROVE  ClaimInv'
<1> USE DEF ClaimInv, Go
<1>1. PICK place \in HandlerPlaces :
        /\ at' = [at EXCEPT ![h] = place] /\ at[h] \in OwnPlaces /\ place \in OwnPlaces
        /\ madeSession' \in {madeSession, madeSession \cup {h}}
        /\ madeJob' \in {madeJob, madeJob \cup {h}}
        /\ madeJob' # madeJob => h \in madeSession
        /\ place = "enqueue" => h \in madeSession'
        /\ place \in {"ack", "markOk"} /\ event \in {"review", "mention", "outcome"} =>
             h \in madeJob'
        /\ UNCHANGED <<event, via, logged, filed, lapsed, pgFailures>>
        /\ at[h] \notin FilePlaces /\ place \notin FilePlaces
  <2>1. CASE React(h)
    <3>1. /\ UNCHANGED <<event, via, logged, filed, madeJob, lapsed, pgFailures>> /\ at[h] = "react"
          /\ madeSession' = madeSession \cup {x \in {h} : MakesSession}
          /\ at' = [at EXCEPT ![h] = CASE event = "installation" -> "answered"
                                       [] event \in {"ignored", "hook"} -> "markOk"
                                       [] event = "mention" -> "load"
                                       [] OTHER -> "enqueue"]
      BY <2>1 DEF React
    <3>2. event \in {"ignored", "hook", "installation", "review", "mention", "outcome"}
      BY DEF WebhookTypeOK
    <3>3. CASE event = "installation"
      BY <3>1, <3>3 DEF HandlerPlaces, OwnPlaces, FilePlaces, Ended, MakesSession
    <3>4. CASE event = "ignored"
      BY <3>1, <3>4 DEF HandlerPlaces, OwnPlaces, FilePlaces, Ended, MakesSession
    <3>5. CASE event = "hook"
      BY <3>1, <3>5 DEF HandlerPlaces, OwnPlaces, FilePlaces, Ended, MakesSession
    <3>6. CASE event = "mention"
      BY <3>1, <3>6 DEF HandlerPlaces, OwnPlaces, FilePlaces, Ended, MakesSession
    <3>7. CASE event = "review"
      BY <3>1, <3>7 DEF HandlerPlaces, OwnPlaces, FilePlaces, Ended, MakesSession
    <3>8. CASE event = "outcome"
      BY <3>1, <3>8 DEF HandlerPlaces, OwnPlaces, FilePlaces, Ended, MakesSession
    <3> QED BY <3>2, <3>3, <3>4, <3>5, <3>6, <3>7, <3>8
  <2>2. CASE LoadPullRequest(h)
    BY <2>2 DEF LoadPullRequest, HandlerPlaces, OwnPlaces, FilePlaces, Ended
  <2>3. CASE Enqueue(h)
    BY <2>3 DEF Enqueue, HandlerPlaces, OwnPlaces, FilePlaces, Ended, WorkBefore
  <2> QED BY <2>1, <2>2, <2>3
<1>2. WebhookTypeOK'
  BY <1>1 DEF WebhookTypeOK, HandlerPlaces
<1>3. \A g \in Handlers : at'[g] = IF g = h THEN place ELSE at[g]
  BY <1>1 DEF WebhookTypeOK
<1>4. Owned'
  BY <1>1, <1>3 DEF Owned
<1>5. ClaimIsOwned' /\ NewClaims'
  <2>1. Newcomers' = Newcomers
    BY <1>1, <1>3 DEF Newcomers
  <2> QED BY <1>1, <1>4, <2>1 DEF ClaimIsOwned, NewClaims
<1>6. WorkBefore'
  BY <1>1, <1>3 DEF WorkBefore
<1>7. ProcessedMeansQueued'
  BY <1>1 DEF ProcessedMeansQueued
<1> QED BY <1>2, <1>5, <1>6, <1>7

LEMMA ClaimEnd ==
  ASSUME ClaimInv, NEW h \in Handlers, Acknowledge(h) \/ Mark(h) \/ HandlerDies(h)
  PROVE  ClaimInv'
<1> USE DEF Go, HandlerPlaces, OwnPlaces, FilePlaces, Ended
<1>1. /\ logged \in Entries /\ filed \in Entries /\ pgFailures \in 0..MaxPgFailures
      /\ via \in [Handlers -> {"none", "new", "again"}]
      /\ Verdict(h) \in Entries /\ Verdict(h) # "none"
  BY DEF ClaimInv, WebhookTypeOK, Entries, Verdict
<1>2. CASE Acknowledge(h)
  BY <1>1, <1>2, ClaimMove DEF Acknowledge
<1>3. CASE Mark(h)
  <2>1. pgFailures' \in 0..MaxPgFailures
    BY <1>1, <1>3, WebhookConstants DEF Mark
  <2> QED BY <1>1, <1>3, <2>1, ClaimMove DEF Mark, Verdict
<1>4. CASE HandlerDies(h)
  BY <1>1, <1>4, ClaimMove DEF HandlerDies
<1> QED BY <1>2, <1>3, <1>4

LEMMA ClaimStep ==
  ASSUME ClaimInv, WebhookNext
  PROVE  ClaimInv'
<1>1. CASE GrowStale
  BY <1>1 DEF GrowStale, makeVars, ClaimInv, WebhookTypeOK, Entries, ClaimIsOwned, Owned,
              Undecided, Newcomers, NewClaims, WorkBefore, ProcessedMeansQueued
<1> QED BY <1>1, ClaimClaim, ClaimWork, ClaimEnd DEF WebhookNext

LEMMA ClaimStutter ==
  ASSUME ClaimInv, UNCHANGED webhookVars
  PROVE  ClaimInv'
BY DEF webhookVars, makeVars, ClaimInv, WebhookTypeOK, ClaimIsOwned, Owned, Undecided, Newcomers,
       NewClaims, WorkBefore, ProcessedMeansQueued

(***************************************************************************)
(* The handler to which the delivery is new is alone.                      *)
(***************************************************************************)
WorkPlaces == {"react", "load", "enqueue", "ack", "markOk", "markFailed"}

\* Who works has been accepted; who takes a row over has seen one; who asks the file has
\* lost Postgres.
HowTheyCame ==
  \A h \in Handlers :
    /\ at[h] \in WorkPlaces => via[h] # "none"
    /\ at[h] \in {"again", "reset"} => logged # "none"
    /\ at[h] \in FilePlaces => pgFailures # 0

\* While it is at work its row is in flight, so that nobody takes the row over.
AloneAtWork ==
  ~lapsed /\ pgFailures = 0 =>
    /\ logged = "none" => \A h \in Handlers : via[h] = "none"
    /\ \A h \in Handlers : via[h] = "new" /\ at[h] \notin Ended =>
         /\ logged = "fresh"
         /\ \A g \in Handlers \ {h} : via[g] = "none" /\ at[g] # "reset"

FirstAloneInv == HowTheyCame /\ AloneAtWork

\* A handler goes on, its acceptance and the row as they are.
LEMMA AloneMove ==
  ASSUME WebhookTypeOK, FirstAloneInv, NEW h \in Handlers, NEW place \in HandlerPlaces,
         at' = [at EXCEPT ![h] = place], at[h] \notin Ended,
         UNCHANGED <<via, logged, lapsed>>, pgFailures' \in Nat,
         pgFailures' = 0 => pgFailures = 0,
         place \in WorkPlaces => at[h] \in WorkPlaces,
         place \in {"again", "reset"} => logged # "none",
         place = "reset" => logged # "fresh" \/ pgFailures' # 0 \/ lapsed,
         place \in FilePlaces => pgFailures' # 0,
         at[h] \in FilePlaces \/ pgFailures # 0 => pgFailures' # 0
  PROVE  FirstAloneInv'
<1> USE DEF FirstAloneInv
<1>1. \A g \in Handlers : at'[g] = IF g = h THEN place ELSE at[g]
  BY DEF WebhookTypeOK
<1>2. HowTheyCame'
  BY <1>1 DEF HowTheyCame
<1>3. AloneAtWork'
  BY <1>1 DEF AloneAtWork
<1> QED BY <1>2, <1>3

LEMMA AloneStep ==
  ASSUME ClaimInv, FirstAloneInv, WebhookNext
  PROVE  FirstAloneInv'
<1> USE DEF Go
<1>0. /\ WebhookTypeOK /\ pgFailures \in Nat
      /\ \A h \in Handlers : at[h] \in HandlerPlaces
  BY DEF ClaimInv, WebhookTypeOK, HandlerPlaces
<1>1. CASE GrowStale
  <2>1. HowTheyCame'
    BY <1>1 DEF GrowStale, FirstAloneInv, HowTheyCame
  <2>2. AloneAtWork'
    BY <1>1 DEF GrowStale, AloneAtWork
  <2> QED BY <2>1, <2>2 DEF FirstAloneInv
<1>2. ASSUME NEW h \in Handlers,
             \/ Send(h) \/ Look(h) \/ LookAgain(h) \/ FileLook(h)
             \/ React(h) \/ LoadPullRequest(h) \/ Enqueue(h) \/ Acknowledge(h) \/ HandlerDies(h)
      PROVE  FirstAloneInv'
  <2> USE <1>0 DEF HandlerPlaces, WorkPlaces, FilePlaces, Ended
  <2>0. at[h] \in FilePlaces => pgFailures # 0
    BY DEF FirstAloneInv, HowTheyCame
  <2>1. CASE Send(h)
    BY <2>0, <2>1, AloneMove DEF Send
  <2>2. CASE Look(h)
    <3>1. CASE logged = "none"
      BY <2>0, <2>2, <3>1, AloneMove DEF Look
    <3>2. CASE logged # "none" /\ logged # "fresh"
      BY <2>0, <2>2, <3>2, AloneMove DEF Look, Judge, IsFree
    <3>3. CASE logged = "fresh"
      BY <2>0, <2>2, <3>3, AloneMove DEF Look, Judge, IsFree
    <3> QED BY <3>1, <3>2, <3>3
  <2>3. CASE LookAgain(h)
    <3>0. logged # "none"
      BY <2>3 DEF LookAgain, FirstAloneInv, HowTheyCame
    <3>1. CASE logged # "fresh"
      BY <2>0, <2>3, <3>0, <3>1, AloneMove DEF LookAgain, Judge, IsFree
    <3>2. CASE logged = "fresh"
      BY <2>0, <2>3, <3>2, AloneMove DEF LookAgain, Judge, IsFree
    <3> QED BY <3>1, <3>2
  <2>4. CASE FileLook(h)
    <3>1. CASE filed = "none"
      BY <2>0, <2>4, <3>1, AloneMove DEF FileLook
    <3>2. CASE filed # "none" /\ filed # "fresh"
      BY <2>0, <2>4, <3>2, AloneMove DEF FileLook, Judge, IsFree
    <3>3. CASE filed = "fresh"
      BY <2>0, <2>4, <3>3, AloneMove DEF FileLook, Judge, IsFree
    <3> QED BY <3>1, <3>2, <3>3
  <2>5. CASE React(h)
    <3>1. PICK place \in {"answered", "markOk", "load", "enqueue"} : at' = [at EXCEPT ![h] = place]
      BY <2>5 DEF React
    <3> QED BY <2>0, <2>5, <3>1, AloneMove DEF React
  <2>6. CASE LoadPullRequest(h)
    BY <2>0, <2>6, AloneMove DEF LoadPullRequest
  <2>7. CASE Enqueue(h)
    <3>1. PICK place \in {"ack", "markOk", "error"} : at' = [at EXCEPT ![h] = place]
      BY <2>7 DEF Enqueue
    <3> QED BY <2>0, <2>7, <3>1, AloneMove DEF Enqueue
  <2>8. CASE Acknowledge(h)
    BY <2>0, <2>8, AloneMove DEF Acknowledge
  <2>9. CASE HandlerDies(h)
    BY <2>0, <2>9, AloneMove DEF HandlerDies
  <2> QED BY <1>2, <2>1, <2>2, <2>3, <2>4, <2>5, <2>6, <2>7, <2>8, <2>9
<1>3. ASSUME NEW h \in Handlers, PgFails(h)
      PROVE  FirstAloneInv'
  <2>1. /\ \A g \in Handlers : at'[g] = IF g = h THEN "fileLook" ELSE at[g]
        /\ pgFailures' # 0 /\ via' = via
        /\ logged # "none" => logged' # "none"
    BY <1>0, <1>3 DEF PgFails, WebhookTypeOK
  <2>2. HowTheyCame'
    BY <2>1 DEF FirstAloneInv, HowTheyCame, WorkPlaces
  <2> QED BY <2>1, <2>2 DEF FirstAloneInv, AloneAtWork
<1>4. ASSUME NEW h \in Handlers, Insert(h)
      PROVE  FirstAloneInv'
  <2>1. CASE logged # "none"
    BY <1>0, <1>4, <2>1, AloneMove
       DEF Insert, Inserts, HandlerPlaces, WorkPlaces, FilePlaces, Ended
  <2>2. CASE logged = "none"
    <3>1. /\ \A g \in Handlers : /\ at'[g] = IF g = h THEN "react" ELSE at[g]
                                 /\ via'[g] = IF g = h THEN "new" ELSE via[g]
          /\ logged' = "fresh" /\ UNCHANGED <<lapsed, pgFailures>>
      BY <1>0, <1>4, <2>2 DEF Insert, Inserts, Accept, WebhookTypeOK
    <3>2. HowTheyCame'
      BY <3>1 DEF FirstAloneInv, HowTheyCame, FilePlaces
    <3>3. AloneAtWork'
      BY <2>2, <3>1 DEF FirstAloneInv, AloneAtWork, HowTheyCame
    <3> QED BY <3>2, <3>3 DEF FirstAloneInv
  <2> QED BY <2>1, <2>2
<1>5. ASSUME NEW h \in Handlers, Reset(h)
      PROVE  FirstAloneInv'
  <2>1. /\ \A g \in Handlers : /\ at'[g] = IF g = h THEN "react" ELSE at[g]
                               /\ via'[g] = IF g = h THEN "again" ELSE via[g]
        /\ at[h] = "reset" /\ logged' = "fresh" /\ UNCHANGED <<lapsed, pgFailures>>
    BY <1>0, <1>5 DEF Reset, Accept, WebhookTypeOK
  <2>2. HowTheyCame'
    BY <2>1 DEF FirstAloneInv, HowTheyCame, FilePlaces
  <2>3. AloneAtWork'
    BY <2>1 DEF FirstAloneInv, AloneAtWork
  <2> QED BY <2>2, <2>3 DEF FirstAloneInv
<1>6. ASSUME NEW h \in Handlers, FileWrite(h)
      PROVE  FirstAloneInv'
  <2>1. /\ \A g \in Handlers : /\ at'[g] = IF g = h THEN "react" ELSE at[g]
                               /\ via'[g] = IF g = h THEN via'[h] ELSE via[g]
        /\ via'[h] # "none" /\ UNCHANGED <<logged, pgFailures>>
        /\ pgFailures # 0
    BY <1>0, <1>6 DEF FileWrite, Accept, WebhookTypeOK, FirstAloneInv, HowTheyCame, FilePlaces
  <2>2. HowTheyCame'
    BY <2>1 DEF FirstAloneInv, HowTheyCame, FilePlaces
  <2> QED BY <2>1, <2>2 DEF FirstAloneInv, AloneAtWork
<1>7. ASSUME NEW h \in Handlers, Mark(h)
      PROVE  FirstAloneInv'
  <2>1. /\ \A g \in Handlers : at'[g] = IF g = h THEN "answered" ELSE at[g]
        /\ at[h] \in {"markOk", "markFailed"} /\ UNCHANGED <<via, lapsed>>
        /\ logged' = "none" <=> logged = "none"
        /\ pgFailures' = pgFailures \/ pgFailures' # 0
    BY <1>0, <1>7 DEF Mark, Verdict, WebhookTypeOK
  <2>2. /\ via[h] # "none"
        /\ pgFailures' = 0 => pgFailures = 0
    BY <1>0, <1>7, <2>1 DEF FirstAloneInv, HowTheyCame, WorkPlaces, Mark
  <2>3. HowTheyCame'
    BY <2>1, <2>2 DEF FirstAloneInv, HowTheyCame, WorkPlaces, FilePlaces
  <2>4. AloneAtWork'
    <3>1. \A g \in Handlers : at'[g] \notin Ended => g # h /\ at[g] \notin Ended
      BY <2>1 DEF Ended
    <3>2. \A g \in Handlers : via'[g] = "new" /\ at'[g] \notin Ended /\ ~lapsed /\ pgFailures' = 0
            => FALSE
      BY <2>1, <2>2, <3>1 DEF FirstAloneInv, AloneAtWork
    <3> QED BY <2>1, <2>2, <3>2 DEF FirstAloneInv, AloneAtWork
  <2> QED BY <2>3, <2>4 DEF FirstAloneInv
<1> QED BY <1>1, <1>2, <1>3, <1>4, <1>5, <1>6, <1>7 DEF WebhookNext

DeliveryInv == ClaimInv /\ FirstAloneInv

LEMMA DeliveryStart == WebhookInit => DeliveryInv
<1>1. WebhookInit => FirstAloneInv
  BY DEF WebhookInit, FirstAloneInv, HowTheyCame, AloneAtWork, WorkPlaces, FilePlaces
<1> QED BY <1>1, ClaimStart DEF DeliveryInv

LEMMA DeliveryStep ==
  ASSUME DeliveryInv, WebhookNext
  PROVE  DeliveryInv'
BY ClaimStep, AloneStep DEF DeliveryInv

LEMMA DeliveryStutter ==
  ASSUME DeliveryInv, UNCHANGED webhookVars
  PROVE  DeliveryInv'
<1>1. FirstAloneInv'
  BY DEF webhookVars, DeliveryInv, FirstAloneInv, HowTheyCame, AloneAtWork
<1> QED BY <1>1, ClaimStutter DEF DeliveryInv

LEMMA DeliveryHandledFollows == DeliveryInv => DeliveryHandled
<1> SUFFICES ASSUME DeliveryInv PROVE DeliveryHandled
  OBVIOUS
<1> USE DEF DeliveryInv, ClaimInv
<1>1. FirstClaimExclusive
  <2> DEFINE new == {h \in Handlers : via[h] = "new"}
  <2>1. IsFiniteSet(Newcomers) /\ Cardinality(Newcomers) <= 1 + pgFailures
    <3>1. IsFiniteSet(Newcomers) /\ Cardinality(Newcomers) \in Nat /\ pgFailures \in Nat
      BY FS_CardinalityType DEF NewClaims, WebhookTypeOK
    <3> QED BY <3>1 DEF NewClaims
  <2>2. new \subseteq Newcomers
    BY DEF Newcomers
  <2>3. IsFiniteSet(new) /\ Cardinality(new) <= Cardinality(Newcomers)
    BY <2>1, <2>2, FS_Subset
  <2>4. /\ Cardinality(new) \in Nat /\ Cardinality(Newcomers) \in Nat /\ pgFailures \in Nat
    BY <2>1, <2>3, FS_CardinalityType DEF WebhookTypeOK
  <2> QED BY <2>1, <2>3, <2>4 DEF FirstClaimExclusive
<1>2. DuplicateHasOwner
  BY DEF DuplicateHasOwner, ClaimIsOwned, Owned, Undecided, OwnPlaces
<1>3. FirstHandlerAlone
  BY DEF FirstHandlerAlone, FirstAloneInv, AloneAtWork
<1> QED BY <1>1, <1>2, <1>3 DEF DeliveryHandled

\* However often a delivery is sent, and whatever statements on its log fail: it is new to one
\* handler, and to at most one more for each failure; the first works on it alone until it
\* answers, unless its claim grows stale; it is never left by all to another one, and one
\* that asks for a job is called processed only if some handler queued it.
THEOREM DeliveriesAreHandled == WebhookSpec => [](WebhookTypeOK /\ DeliveryHandled)
<1>1. DeliveryInv /\ [WebhookNext]_webhookVars => DeliveryInv'
  BY DeliveryStep, DeliveryStutter
<1>2. DeliveryInv => WebhookTypeOK /\ DeliveryHandled
  BY DeliveryHandledFollows DEF DeliveryInv, ClaimInv
<1> QED BY DeliveryStart, <1>1, <1>2, PTL DEF WebhookSpec

(***************************************************************************)
(* The findings of a review on their way to the pull request.              *)
(***************************************************************************)
\* Hidden behind a more severe finding about the same file, in a batch that was refused.
Behind(f) == refusal = "other" /\ \E g \in Capped : g < f /\ FileOf[g] = FileOf[f]

\* Findings that this publication may still post.
Due(f) == \/ stage \in {"batch", "summary", "single"} /\ f \in inline \cup conversation
          \/ stage = "conversation" /\ f \in conversation

\* Where each finding under the cap is, at each stage.
AccountedFor ==
  /\ inline \cup conversation \subseteq Capped
  /\ stage \in {"batch", "summary"} => inline \cup conversation = Capped
  /\ stage = "summary" => refusal \in {"line", "other"}
  /\ stage \in {"batch", "summary", "single"} => inline \cap conversation = {}
  /\ stage = "single" => \A f \in Capped : Due(f) \/ Shown(f)
  /\ stage \in {"conversation", "match", "save"} =>
       \A f \in Capped : Due(f) \/ Shown(f) \/ f \in skipped \/ Behind(f)

\* A finding that may still be posted leaves room for its post.
RoomForDue ==
  lost = 0 => \A f \in Reported :
    threads[f] + comments[f] + (IF Due(f) THEN 1 ELSE 0) <= publications

\* What was counted, noted or stored was answered by GitHub.
Truthful ==
  /\ \A f \in counted : threads[f] > 0
  /\ \A f \in conversed : comments[f] > 0
  /\ \A f \in Reported : /\ posted[f] = "thread" => threads[f] > 0
                         /\ posted[f] = "comment" => comments[f] > 0
  /\ CommentIdsExist

PublishInv == PublishTypeOK /\ AccountedFor /\ RoomForDue /\ Truthful

LEMMA PublishStart == PublishInit => PublishInv
<1> SUFFICES ASSUME PublishInit PROVE PublishInv
  OBVIOUS
<1> USE DEF PublishInit
<1>1. PublishTypeOK
  <2>1. /\ posted \in [Reported -> Places] /\ commentId \in [Reported -> Places]
        /\ threads \in [Reported -> Nat] /\ comments \in [Reported -> Nat]
        /\ resolved \in [Reported -> {0, 1}]
    BY DEF Places
  <2>2. publications \in 0..MaxPublications /\ lost \in 0..MaxLost
    BY PublicationConstants
  <2> QED BY <2>1, <2>2 DEF PublishTypeOK
<1>2. AccountedFor
  BY DEF AccountedFor
<1>3. RoomForDue
  BY DEF RoomForDue, Due
<1>4. Truthful
  BY DEF Truthful, CommentIdsExist
<1> QED BY <1>1, <1>2, <1>3, <1>4 DEF PublishInv

LEMMA CappedReported == Capped = (1..CommentCap) \cap Reported /\ Capped \subseteq Nat
BY PublicationConstants DEF Capped, Reported

\* The finding that a lookup by path comes to: the most severe one about the file.
LEMMA PathMatch ==
  ASSUME NEW f \in Capped
  PROVE  /\ MatchByPath(f) \in Capped /\ FileOf[MatchByPath(f)] = FileOf[f]
         /\ MatchByPath(f) <= f
<1> DEFINE S == {g \in Capped : FileOf[g] = FileOf[f]}
<1>1. PICK g \in S : \A h \in S : g <= h
  BY CappedReported, LeastNumber
<1>2. \E x \in Capped : FileOf[x] = FileOf[f] /\ \A h \in Capped : FileOf[h] = FileOf[f] => x <= h
  BY <1>1
<1> QED BY <1>2 DEF MatchByPath

\* A call counts its lost answer.
LEMMA CallCounts ==
  ASSUME PublishTypeOK, NEW o \in Outcomes, Call(o)
  PROVE  /\ lost' \in 0..MaxLost /\ lost <= lost' /\ lost \in Nat
         /\ o = "lost" => lost' # 0
BY PublicationConstants DEF PublishTypeOK, Call, Outcomes

LEMMA BumpCounts ==
  ASSUME NEW count \in [Reported -> Nat], NEW S
  PROVE  /\ Bump(count, S) \in [Reported -> Nat]
         /\ \A f \in Reported : Bump(count, S)[f] = IF f \in S THEN count[f] + 1 ELSE count[f]
BY DEF Bump

LEMMA PublishPlan ==
  ASSUME PublishInv, Plan
  PROVE  PublishInv'
<1> USE DEF PublishInv
<1>1. /\ inline' \subseteq Capped /\ conversation' = Capped \ inline'
      /\ stage' = "batch" /\ refusal' = "none"
      /\ counted' = {} /\ conversed' = {} /\ skipped' = {}
      /\ posted' = [f \in Reported |-> "none"]
      /\ publications < MaxPublications /\ publications' = publications + 1
      /\ UNCHANGED <<threads, comments, resolved, commentId, finished, lost>>
  BY DEF Plan, prVars, Placeable
<1>2. PublishTypeOK'
  <2>1. posted' \in [Reported -> Places]
    BY <1>1 DEF Places
  <2>2. publications' \in 0..MaxPublications
    BY <1>1, PublicationConstants DEF PublishTypeOK
  <2>3. inline' \cup conversation' \subseteq 1..CommentCap \cap Reported
    BY <1>1, CappedReported
  <2> QED BY <1>1, <2>1, <2>2, <2>3 DEF PublishTypeOK
<1>3. AccountedFor'
  BY <1>1 DEF AccountedFor, Due, Capped, Reported
<1>4. RoomForDue'
  BY <1>1 DEF RoomForDue, PublishTypeOK, Reported
<1>5. Truthful'
  BY <1>1 DEF Truthful, CommentIdsExist, Reported
<1> QED BY <1>2, <1>3, <1>4, <1>5

LEMMA PublishBatch ==
  ASSUME PublishInv, PostBatch
  PROVE  PublishInv'
<1> USE DEF PublishInv
<1>1. PICK o \in Outcomes :
       /\ Call(o)
       /\ threads' = Bump(threads, Happens(o, inline))
       /\ counted' = Answered(o, inline)
       /\ stage' = IF o = "done" THEN "conversation" ELSE "summary"
       /\ refusal' \in IF o = "done" THEN {"none"}
                       ELSE IF o = "lost" THEN {"other"} ELSE {"line", "other"}
  BY DEF PostBatch
<1>2. /\ stage = "batch"
      /\ UNCHANGED <<inline, conversation, conversed, skipped, posted, comments, resolved,
                 commentId, finished, publications>>
  BY DEF PostBatch
<1>3. /\ lost' \in 0..MaxLost /\ lost <= lost' /\ lost \in Nat
      /\ o = "lost" => lost' # 0
  BY <1>1, CallCounts
<1>4. /\ inline \subseteq Reported /\ Capped \subseteq Reported
      /\ threads \in [Reported -> Nat] /\ comments \in [Reported -> Nat]
  BY CappedReported DEF PublishTypeOK
<1>5. /\ threads' \in [Reported -> Nat]
      /\ \A f \in Reported : threads'[f] = IF f \in Happens(o, inline) THEN threads[f] + 1
                                           ELSE threads[f]
  BY <1>1, <1>4, BumpCounts
<1>6. o \in {"done", "refused", "lost"}
  BY DEF Outcomes
<1>7. PublishTypeOK'
  BY <1>1, <1>2, <1>3, <1>4, <1>5, <1>6 DEF PublishTypeOK, Answered
<1>8. AccountedFor'
  <2>1. CASE o = "done"
    BY <1>1, <1>2, <1>4, <1>5, <2>1 DEF AccountedFor, Due, Shown, Happens, Capped, Reported
  <2>2. CASE o # "done"
    BY <1>1, <1>2, <1>6, <2>2 DEF AccountedFor, Capped, Reported
  <2> QED BY <2>1, <2>2
<1>9. RoomForDue'
  <2> SUFFICES ASSUME lost' = 0, NEW f \in Reported
               PROVE  threads'[f] + comments[f] + (IF Due(f)' THEN 1 ELSE 0) <= publications
    BY <1>2 DEF RoomForDue, Reported
  <2>1. lost = 0 /\ o # "lost" /\ publications \in Nat
    BY <1>3 DEF PublishTypeOK
  <2>2. threads[f] + comments[f] + (IF Due(f) THEN 1 ELSE 0) <= publications
    BY <2>1 DEF RoomForDue
  <2>3. CASE o = "done"
    BY <1>1, <1>2, <1>4, <1>5, <2>1, <2>2, <2>3 DEF AccountedFor, Due, Happens
  <2>4. CASE o = "refused"
    BY <1>1, <1>2, <1>4, <1>5, <2>1, <2>2, <2>4 DEF Due, Happens
  <2> QED BY <1>6, <2>1, <2>3, <2>4
<1>10. Truthful'
  BY <1>1, <1>2, <1>4, <1>5, <1>6 DEF Truthful, CommentIdsExist, Answered, Happens, Reported
<1> QED BY <1>7, <1>8, <1>9, <1>10

LEMMA PublishSummary ==
  ASSUME PublishInv, PostSummary
  PROVE  PublishInv'
<1> USE DEF PublishInv
<1>1. PICK o \in Outcomes : Call(o) /\ threads' = Bump(threads, Happens(o, {}))
  BY DEF PostSummary, SummaryComments
<1>2. /\ stage = "summary"
      /\ stage' = IF refusal = "line" THEN "single" ELSE "conversation"
      /\ conversation' = IF refusal = "line" THEN conversation ELSE conversation \cup Demoted
      /\ UNCHANGED <<inline, refusal, counted, conversed, skipped, posted, comments, resolved,
                     commentId, finished, publications>>
  BY DEF PostSummary, tallyVars
<1>3. lost' \in 0..MaxLost /\ lost <= lost' /\ lost \in Nat
  BY <1>1, CallCounts
<1>4. threads' = threads
  <2>1. Happens(o, {}) = {}
    BY DEF Happens
  <2>2. threads \in [Reported -> Nat]
    BY DEF PublishTypeOK
  <2> QED BY <1>1, <2>1, <2>2 DEF Bump
<1>5. inline \cup conversation = Capped /\ inline \cap conversation = {} /\ refusal \in {"line", "other"}
  BY <1>2 DEF AccountedFor
<1>6. Demoted \subseteq Capped
  BY <1>5, PathMatch DEF Demoted
<1>7. PublishTypeOK'
  BY <1>2, <1>3, <1>4, <1>5, <1>6, CappedReported DEF PublishTypeOK
<1>8. AccountedFor'
  <2>1. CASE refusal = "line"
    BY <1>2, <1>4, <1>5, <2>1 DEF AccountedFor, Due, Shown, Capped, Reported
  <2>2. CASE refusal = "other"
    <3>1. ASSUME NEW f \in inline, f \notin Demoted PROVE Behind(f)
      <4>1. f \in Capped /\ MatchByPath(f) \in Demoted
        BY <1>5 DEF Demoted
      <4>2. MatchByPath(f) # f
        BY <3>1, <4>1
      <4> QED BY <2>2, <4>1, <4>2, PathMatch, CappedReported DEF Behind
    <3>2. \A f \in Capped : f \in conversation' \/ Behind(f)
      BY <1>2, <1>5, <2>2, <3>1
    <3> QED BY <1>2, <1>5, <1>6, <2>2, <3>2 DEF AccountedFor, Due, Behind, Capped, Reported
  <2> QED BY <1>5, <2>1, <2>2
<1>9. RoomForDue'
  <2> SUFFICES ASSUME lost' = 0, NEW f \in Reported
               PROVE  threads[f] + comments[f] + (IF Due(f)' THEN 1 ELSE 0) <= publications
    BY <1>2, <1>4 DEF RoomForDue, Reported
  <2>1. Due(f)' => Due(f)
    BY <1>2, <1>5, <1>6 DEF Due
  <2>2. threads[f] + comments[f] + (IF Due(f) THEN 1 ELSE 0) <= publications
    BY <1>3 DEF RoomForDue
  <2> QED BY <2>1, <2>2 DEF PublishTypeOK
<1>10. Truthful'
  BY <1>2, <1>4 DEF Truthful, CommentIdsExist, Reported
<1> QED BY <1>7, <1>8, <1>9, <1>10

LEMMA PublishSingle ==
  ASSUME PublishInv, NEW f \in Reported, PostSingle(f)
  PROVE  PublishInv'
<1> USE DEF PublishInv
<1>1. PICK o \in Outcomes :
       /\ Call(o)
       /\ threads' = Bump(threads, Happens(o, {f}))
       /\ counted' = counted \cup Answered(o, {f})
       /\ conversation' = conversation \cup ({f} \ Answered(o, {f}))
  BY DEF PostSingle
<1>2. /\ stage = "single" /\ f \in inline /\ inline' = inline \ {f}
      /\ UNCHANGED <<stage, refusal, conversed, skipped, posted, comments, resolved,
                     commentId, finished, publications>>
  BY DEF PostSingle
<1>3. /\ lost' \in 0..MaxLost /\ lost <= lost' /\ lost \in Nat
      /\ o = "lost" => lost' # 0
  BY <1>1, CallCounts
<1>4. /\ threads \in [Reported -> Nat] /\ comments \in [Reported -> Nat]
      /\ inline \cap conversation = {}
  BY <1>2 DEF PublishTypeOK, AccountedFor
<1>5. /\ threads' \in [Reported -> Nat]
      /\ \A g \in Reported : threads'[g] = IF g \in Happens(o, {f}) THEN threads[g] + 1
                                           ELSE threads[g]
  BY <1>1, <1>4, BumpCounts
<1>6. o \in {"done", "refused", "lost"}
  BY DEF Outcomes
<1>7. PublishTypeOK'
  BY <1>1, <1>2, <1>3, <1>4, <1>5, <1>6 DEF PublishTypeOK, Answered
<1>8. AccountedFor'
  <2>1. /\ inline' \cup conversation' \subseteq Capped /\ inline' \cap conversation' = {}
        /\ f \in Capped
    BY <1>1, <1>2, <1>4 DEF AccountedFor, Answered
  <2>2. ASSUME NEW g \in Capped PROVE Due(g)' \/ Shown(g)'
    <3>1. Due(g) \/ Shown(g)
      BY <1>2 DEF AccountedFor
    <3>2. g \in Reported
      BY CappedReported
    <3>3. CASE g = f
      <4>1. CASE o = "done"
        BY <1>4, <1>5, <1>2, <3>2, <3>3, <4>1 DEF Shown, Happens
      <4>2. CASE o # "done"
        BY <1>1, <1>2, <3>3, <4>2 DEF Due, Answered
      <4> QED BY <4>1, <4>2
    <3>4. CASE g # f
      BY <1>1, <1>2, <1>5, <3>1, <3>2, <3>4 DEF Due, Shown, Happens
    <3> QED BY <3>3, <3>4
  <2> QED BY <1>2, <2>1, <2>2 DEF AccountedFor, Capped, Reported
<1>9. RoomForDue'
  <2> SUFFICES ASSUME lost' = 0, NEW g \in Reported
               PROVE  threads'[g] + comments[g] + (IF Due(g)' THEN 1 ELSE 0) <= publications
    BY <1>2 DEF RoomForDue, Reported
  <2>1. lost = 0 /\ o # "lost" /\ publications \in Nat
    BY <1>3 DEF PublishTypeOK
  <2>2. threads[g] + comments[g] + (IF Due(g) THEN 1 ELSE 0) <= publications
    BY <2>1 DEF RoomForDue
  <2>3. CASE o = "done"
    BY <1>1, <1>2, <1>4, <1>5, <2>1, <2>2, <2>3 DEF Due, Happens, Answered
  <2>4. CASE o = "refused"
    BY <1>1, <1>2, <1>4, <1>5, <2>1, <2>2, <2>4 DEF Due, Happens, Answered
  <2> QED BY <1>6, <2>1, <2>3, <2>4
<1>10. Truthful'
  <2>1. \A g \in Reported : threads[g] > 0 => threads'[g] > 0
    BY <1>4, <1>5
  <2>2. \A g \in Answered(o, {f}) : g = f /\ threads'[g] > 0
    BY <1>4, <1>5 DEF Answered, Happens
  <2>3. \A g \in counted' : g \in Reported /\ threads'[g] > 0
    BY <1>1, <2>1, <2>2 DEF Truthful, PublishTypeOK
  <2> QED BY <1>2, <2>1, <2>3 DEF Truthful, CommentIdsExist, Reported
<1> QED BY <1>7, <1>8, <1>9, <1>10

LEMMA PublishComment ==
  ASSUME PublishInv, NEW f \in Reported, PostComment(f)
  PROVE  PublishInv'
<1> USE DEF PublishInv
<1>1. PICK o \in Outcomes :
       /\ Call(o)
       /\ comments' = Bump(comments, Happens(o, {f}))
       /\ conversed' = conversed \cup Answered(o, {f})
       /\ skipped' = skipped \cup ({f} \ Answered(o, {f}))
       /\ posted' = [g \in Reported |-> IF g \in Answered(o, {f}) THEN "comment" ELSE posted[g]]
  BY DEF PostComment
<1>2. /\ stage = "conversation" /\ f \in conversation /\ conversation' = conversation \ {f}
      /\ UNCHANGED <<stage, inline, refusal, counted, threads, resolved, commentId,
                     finished, publications>>
  BY DEF PostComment
<1>3. /\ lost' \in 0..MaxLost /\ lost <= lost' /\ lost \in Nat
      /\ o = "lost" => lost' # 0
  BY <1>1, CallCounts
<1>4. threads \in [Reported -> Nat] /\ comments \in [Reported -> Nat]
  BY DEF PublishTypeOK
<1>5. /\ comments' \in [Reported -> Nat]
      /\ \A g \in Reported : comments'[g] = IF g \in Happens(o, {f}) THEN comments[g] + 1
                                            ELSE comments[g]
  BY <1>1, <1>4, BumpCounts
<1>6. o \in {"done", "refused", "lost"}
  BY DEF Outcomes
<1>7. PublishTypeOK'
  <2>1. posted' \in [Reported -> Places]
    BY <1>1 DEF PublishTypeOK, Places
  <2> QED BY <1>1, <1>2, <1>3, <1>4, <1>5, <1>6, <2>1 DEF PublishTypeOK, Answered
<1>8. AccountedFor'
  <2>1. \A g \in Capped : Behind(g) => Behind(g)'
    BY <1>2 DEF Behind, Capped, Reported
  <2> SUFFICES ASSUME NEW g \in Capped
               PROVE  Due(g)' \/ Shown(g)' \/ g \in skipped' \/ Behind(g)'
    BY <1>2 DEF AccountedFor, Capped, Reported
  <2>2. Due(g) \/ Shown(g) \/ g \in skipped \/ Behind(g)
    BY <1>2 DEF AccountedFor
  <2>3. g \in Reported
    BY CappedReported
  <2>4. CASE g = f
    <3>1. CASE o = "done"
      BY <1>2, <1>4, <1>5, <2>3, <2>4, <3>1 DEF Shown, Happens
    <3>2. CASE o # "done"
      BY <1>1, <2>4, <3>2 DEF Answered
    <3> QED BY <3>1, <3>2
  <2>5. CASE g # f
    BY <1>1, <1>2, <1>4, <1>5, <2>1, <2>2, <2>3, <2>5 DEF Due, Shown, Happens
  <2> QED BY <2>4, <2>5
<1>9. RoomForDue'
  <2> SUFFICES ASSUME lost' = 0, NEW g \in Reported
               PROVE  threads[g] + comments'[g] + (IF Due(g)' THEN 1 ELSE 0) <= publications
    BY <1>2 DEF RoomForDue, Reported
  <2>1. lost = 0 /\ publications \in Nat
    BY <1>3 DEF PublishTypeOK
  <2>2. threads[g] + comments[g] + (IF Due(g) THEN 1 ELSE 0) <= publications
    BY <2>1 DEF RoomForDue
  <2>3. CASE g = f
    <3>1. Due(g) /\ ~Due(g)'
      BY <1>2, <2>3 DEF Due
    <3>2. comments'[g] <= comments[g] + 1 /\ threads[g] \in Nat /\ comments[g] \in Nat
      BY <1>4, <1>5
    <3>3. threads[g] + comments[g] + 1 <= publications
      BY <2>2, <3>1
    <3>4. comments'[g] \in Nat
      BY <1>5
    <3>5. threads[g] + comments'[g] <= publications
      BY <2>1, <3>2, <3>3, <3>4
    <3> QED BY <3>1, <3>4, <3>2, <3>5
  <2>4. CASE g # f
    BY <1>1, <1>2, <1>4, <1>5, <2>1, <2>2, <2>4 DEF Due, Happens
  <2> QED BY <2>3, <2>4
<1>10. Truthful'
  <2>1. \A g \in Reported : comments[g] > 0 => comments'[g] > 0
    BY <1>4, <1>5
  <2>2. \A g \in Answered(o, {f}) : g = f /\ comments'[g] > 0
    BY <1>4, <1>5 DEF Answered, Happens
  <2>3. \A g \in conversed' : g \in Reported /\ comments'[g] > 0
    BY <1>1, <2>1, <2>2 DEF Truthful, PublishTypeOK
  <2>4. \A g \in Reported : /\ posted'[g] = "thread" => threads[g] > 0
                            /\ posted'[g] = "comment" => comments'[g] > 0
    BY <1>1, <2>1, <2>2 DEF Truthful
  <2> QED BY <1>2, <2>1, <2>3, <2>4 DEF Truthful, CommentIdsExist, Reported
<1> QED BY <1>7, <1>8, <1>9, <1>10

\* The other steps post nothing.
LEMMA PublishRest ==
  ASSUME PublishInv,
         \/ EndLoop \/ MatchThreads \/ SaveCommentIds \/ CrashPublisher
         \/ \E f \in Reported : ResolveThread(f)
  PROVE  PublishInv'
<1> USE DEF PublishInv, planVars, tallyVars, prVars
<1>1. CASE EndLoop
  <2>1. /\ \/ stage = "single" /\ inline = {} /\ stage' = "conversation"
           \/ stage = "conversation" /\ conversation = {} /\ stage' = "match"
        /\ UNCHANGED <<inline, conversation, refusal, counted, conversed, skipped, posted, threads,
                       comments, resolved, commentId, finished, publications, lost>>
    BY <1>1 DEF EndLoop
  <2>2. \A f \in Capped : (Due(f) => Due(f)') /\ (Behind(f) => Behind(f)') /\ (Shown(f) => Shown(f)')
    BY <2>1 DEF Due, Behind, Shown, Capped, Reported
  <2>3. \A f \in Reported : Due(f)' => Due(f)
    BY <2>1 DEF Due
  <2>4. PublishTypeOK' /\ Truthful'
    BY <2>1 DEF PublishTypeOK, Truthful, CommentIdsExist, Reported
  <2>5. RoomForDue'
    BY <2>1, <2>3 DEF RoomForDue, PublishTypeOK, Reported
  <2>6. AccountedFor'
    BY <2>1, <2>2 DEF AccountedFor, Capped, Reported
  <2> QED BY <2>4, <2>5, <2>6
<1>2. CASE MatchThreads
  <2>1. /\ stage = "match" /\ stage' = "save"
        /\ UNCHANGED <<inline, conversation, refusal, counted, conversed, skipped, threads,
                       comments, resolved, commentId, finished, publications, lost>>
    BY <1>2 DEF MatchThreads
  <2>2. PICK listed \in SUBSET Matched :
          posted' = [f \in Reported |-> IF f \in listed THEN "thread" ELSE posted[f]]
    BY <1>2 DEF MatchThreads
  <2>3. PublishTypeOK'
    <3>1. posted' \in [Reported -> Places]
      BY <2>2 DEF PublishTypeOK, Places
    <3> QED BY <2>1, <3>1 DEF PublishTypeOK
  <2>4. Truthful'
    BY <2>1, <2>2 DEF Truthful, CommentIdsExist, Reported, Matched, Marked
  <2>5. \A f : ~Due(f)
    BY <2>1 DEF Due
  <2>6. RoomForDue'
    BY <2>1, <2>5 DEF RoomForDue, Due, Reported
  <2>7. AccountedFor'
    BY <2>1, <2>5 DEF AccountedFor, Due, Behind, Shown, Capped, Reported
  <2> QED BY <2>3, <2>4, <2>6, <2>7
<1>3. CASE SaveCommentIds
  <2>1. /\ stage = "save" /\ stage' = "idle" /\ finished' = TRUE
        /\ commentId' = [f \in Reported |-> IF posted[f] = "none" THEN commentId[f] ELSE posted[f]]
        /\ UNCHANGED <<inline, conversation, refusal, counted, conversed, skipped, posted, threads,
                       comments, resolved, publications, lost>>
    BY <1>3 DEF SaveCommentIds
  <2>2. PublishTypeOK'
    <3>1. commentId' \in [Reported -> Places]
      BY <2>1 DEF PublishTypeOK, Places
    <3> QED BY <2>1, <3>1 DEF PublishTypeOK
  <2>3. RoomForDue' /\ AccountedFor'
    BY <2>1 DEF RoomForDue, Due, AccountedFor, Capped, Reported
  <2>4. Truthful'
    BY <2>1 DEF Truthful, CommentIdsExist, Reported
  <2> QED BY <2>2, <2>3, <2>4
<1>4. CASE CrashPublisher
  <2>1. /\ stage' = "idle"
        /\ UNCHANGED <<inline, conversation, refusal, counted, conversed, skipped, posted, threads,
                       comments, resolved, commentId, finished, publications, lost>>
    BY <1>4 DEF CrashPublisher
  <2>2. PublishTypeOK' /\ Truthful'
    BY <2>1 DEF PublishTypeOK, Truthful, CommentIdsExist, Reported
  <2>3. AccountedFor'
    BY <2>1 DEF AccountedFor, Capped, Reported
  <2>4. RoomForDue'
    <3> SUFFICES ASSUME lost = 0, NEW f \in Reported
                 PROVE  threads[f] + comments[f] <= publications
      BY <2>1 DEF RoomForDue, Due, Reported, PublishTypeOK
    <3> QED BY DEF RoomForDue, PublishTypeOK
  <2> QED BY <2>2, <2>3, <2>4
<1>5. ASSUME NEW f \in Reported, ResolveThread(f) PROVE PublishInv'
  <2>1. /\ resolved' = [resolved EXCEPT ![f] = 1]
        /\ UNCHANGED <<stage, inline, conversation, refusal, counted, conversed, skipped, posted,
                       threads, comments, commentId, finished, publications, lost>>
    BY <1>5 DEF ResolveThread
  <2>2. PublishTypeOK'
    BY <2>1 DEF PublishTypeOK
  <2>3. AccountedFor' /\ RoomForDue' /\ Truthful'
    BY <2>1 DEF AccountedFor, RoomForDue, Due, Behind, Shown, Truthful, CommentIdsExist, Capped,
                Reported
  <2> QED BY <2>2, <2>3
<1> QED BY <1>1, <1>2, <1>3, <1>4, <1>5

LEMMA PublishStep ==
  ASSUME PublishInv, PublishNext
  PROVE  PublishInv'
BY PublishPlan, PublishBatch, PublishSummary, PublishSingle, PublishComment, PublishRest
   DEF PublishNext, PublishReview, Republish

LEMMA PublishStutter ==
  ASSUME PublishInv, UNCHANGED publishVars
  PROVE  PublishInv'
BY DEF publishVars, planVars, tallyVars, prVars, PublishInv, PublishTypeOK, AccountedFor, RoomForDue,
       Due, Behind, Shown, Truthful, CommentIdsExist, Capped, Reported

LEMMA PublicationTrueFollows == PublishInv => PublicationTrue
<1> SUFFICES ASSUME PublishInv PROVE PublicationTrue
  OBVIOUS
<1> USE DEF PublishInv
<1>1. threads \in [Reported -> Nat] /\ comments \in [Reported -> Nat]
      /\ counted \subseteq Reported /\ conversed \subseteq Reported /\ publications \in Nat
  BY DEF PublishTypeOK
<1>2. DroppedOnlyBehindAnother
  BY DEF DroppedOnlyBehindAnother, AccountedFor, Due, Behind
<1>3. OnePlacePerPublication
  BY <1>1 DEF OnePlacePerPublication, RoomForDue
<1>4. CountsAreShown
  BY <1>1 DEF CountsAreShown, Truthful, Shown
<1>5. CommentIdsExist
  BY DEF Truthful
<1> QED BY <1>2, <1>3, <1>4, <1>5 DEF PublicationTrue

\* For every number of findings and publications, whatever GitHub refuses and however many
\* answers are lost: what is counted and stored is on the pull request, a finding has one place
\* for each publication, and one that is dropped was behind another about the same file.
THEOREM PublicationsAreTrue == PublishSpec => [](PublishTypeOK /\ PublicationTrue)
<1>1. PublishInv /\ [PublishNext]_publishVars => PublishInv'
  BY PublishStep, PublishStutter
<1>2. PublishInv => PublishTypeOK /\ PublicationTrue
  BY PublicationTrueFollows DEF PublishInv
<1> QED BY PublishStart, <1>1, <1>2, PTL DEF PublishSpec

(***************************************************************************)
(* Seats and members: more members than seats come only from requests that *)
(* did not count them, or whose count had been overtaken; and what a       *)
(* request was told of a member holds, as far as MembersKept says.         *)
(***************************************************************************)
MemberPlaces == {"unsent", "look", "seats", "row", "readFile", "writeFile", "inviteRow",
                 "inviteFile", "find", "mark", "findFile", "ended"}

\* Where a request has not yet counted.
Uncounted == {"unsent", "look", "seats", "find", "mark", "findFile"}

SeatTypes ==
  /\ members \subseteq Users /\ file \subseteq Users
  /\ about \in [Calls -> Users] /\ pc \in [Calls -> MemberPlaces]
  /\ read \in [Calls -> SUBSET Users] /\ unseated \in Nat

\* A request that is about to add a member either counted a free seat or counted nothing.
CountedFree(c) ==
  /\ pc[c] \in Uncounted => read[c] = {}
  /\ pc[c] = "row" => read[c] = {} \/ SeatFree(read[c])

SeatInv == SeatTypes /\ SeatsRespected /\ \A c \in Calls : CountedFree(c)

LEMMA SeatInit == MembershipInit => SeatInv
<1> SUFFICES ASSUME MembershipInit PROVE SeatInv
  OBVIOUS
<1> USE DEF MembershipInit
<1>1. (CHOOSE u \in Users : TRUE) \in Users
  BY MembershipConstants
<1>2. SeatTypes
  BY <1>1, MembershipConstants DEF SeatTypes, MemberPlaces
<1>3. SeatsRespected
  <2>1. IsFiniteSet(Founders)
    BY MembershipConstants, FS_Subset
  <2>2. Cardinality(Founders) \in Nat
    BY <2>1, FS_CardinalityType
  <2> QED BY <2>2, MembershipConstants DEF SeatsRespected
<1>4. \A c \in Calls : CountedFree(c)
  BY DEF CountedFree
<1> QED BY <1>2, <1>3, <1>4 DEF SeatInv

\* A request that goes on without a count and without a change of the members.
LEMMA SeatMove ==
  ASSUME SeatInv, NEW c \in Calls, NEW p \in MemberPlaces, Move(c, p),
         p \in Uncounted \cup {"row"} => pc[c] \in Uncounted,
         UNCHANGED <<members, read, unseated>>,
         file' \subseteq Users, about' \in [Calls -> Users]
  PROVE  SeatInv'
<1>1. SeatTypes'
  BY DEF SeatInv, SeatTypes, Move
<1>2. SeatsRespected'
  BY DEF SeatInv, SeatsRespected
<1>3. ASSUME NEW d \in Calls PROVE CountedFree(d)'
  <2>1. CASE d = c
    <3>1. pc'[d] = p
      BY <2>1 DEF Move, SeatInv, SeatTypes
    <3> QED BY <2>1, <3>1 DEF SeatInv, CountedFree, Uncounted
  <2>2. CASE d # c
    <3>1. pc'[d] = pc[d]
      BY <2>2 DEF Move, SeatInv, SeatTypes
    <3> QED BY <3>1 DEF SeatInv, CountedFree, SeatFree
  <2> QED BY <2>1, <2>2
<1> QED BY <1>1, <1>2, <1>3 DEF SeatInv

LEMMA SeatCount ==
  ASSUME SeatInv, NEW c \in Calls, CountSeats(c)
  PROVE  SeatInv'
<1> USE DEF SeatInv, CountSeats, requestVars, historyVars
<1>1. read' \in [Calls -> SUBSET Users]
  BY DEF SeatTypes
<1>2. PICK p \in MemberPlaces : /\ Move(c, p) /\ p \in {"ended", "inviteRow", "row"}
                                /\ p = "row" => SeatFree(read'[c])
  <2>1. CASE ~SeatFree(read'[c])
    BY <2>1, Zenon DEF MemberPlaces
  <2>2. CASE SeatFree(read'[c]) /\ kind[c] = "invite"
    BY <2>2, Zenon DEF MemberPlaces
  <2>3. CASE SeatFree(read'[c]) /\ kind[c] # "invite"
    BY <2>3, Zenon DEF MemberPlaces
  <2> QED BY <2>1, <2>2, <2>3
<1>3. SeatTypes'
  BY <1>1, <1>2 DEF SeatTypes, Move
<1>4. SeatsRespected'
  BY DEF SeatsRespected
<1>5. ASSUME NEW d \in Calls PROVE CountedFree(d)'
  <2>1. CASE d = c
    <3>1. pc'[d] = p
      BY <1>2, <2>1 DEF Move, SeatTypes
    <3> QED BY <1>2, <2>1, <3>1 DEF CountedFree, Uncounted
  <2>2. CASE d # c
    <3>1. pc'[d] = pc[d] /\ read'[d] = read[d]
      BY <1>2, <2>2 DEF Move, SeatTypes
    <3> QED BY <3>1 DEF CountedFree, SeatFree
  <2> QED BY <2>1, <2>2
<1> QED BY <1>3, <1>4, <1>5

\* The statement adds at most one member: to a count that left a seat free and still
\* holds, or to no count and no members, or unseated grows too.
LEMMA SeatTaken ==
  ASSUME SeatInv, NEW c \in Calls, ChangeRow(c)
  PROVE  SeatInv'
<1> DEFINE u == about[c]
<1> USE DEF SeatInv
<1>1. u \in Users /\ members' \in {members, members \ {u}, members \cup {u}}
  BY DEF ChangeRow, With, SeatTypes
<1>2. /\ Move(c, "readFile") /\ UNCHANGED <<file, about, read>>
      /\ unseated' = IF members' \subseteq members \/ Cardinality(members) <= Cardinality(read[c])
                     THEN unseated ELSE unseated + 1
  BY DEF ChangeRow, requestVars
<1>3. SeatTypes'
  BY <1>1, <1>2 DEF SeatTypes, Move, MemberPlaces
<1>4. SeatsRespected'
  <2>1. /\ IsFiniteSet(members) /\ IsFiniteSet(read[c])
        /\ Cardinality(members) \in Nat /\ Cardinality(read[c]) \in Nat
    BY MembershipConstants, FS_Subset, FS_CardinalityType DEF SeatTypes
  <2>2. CASE members' \subseteq members
    <3>1. Cardinality(members') \in Nat /\ Cardinality(members') <= Cardinality(members)
      BY <2>1, <2>2, FS_Subset, FS_CardinalityType
    <3> QED BY <1>2, <2>1, <2>2, <3>1, MembershipConstants DEF SeatsRespected, SeatTypes
  <2>3. CASE ~(members' \subseteq members)
    <3>1. members' = members \cup {u} /\ u \notin members
      BY <1>1, <2>3
    <3>2. Cardinality(members') = Cardinality(members) + 1
      BY <2>1, <3>1, FS_AddElement
    <3>3. CASE Cardinality(members) <= Cardinality(read[c])
      <4>1. unseated' = unseated
        BY <1>2, <3>3
      <4>2. pc[c] = "row"
        BY DEF ChangeRow
      <4>3. CASE read[c] = {}
        <5>1. Cardinality(read[c]) = 0
          BY <4>3, FS_EmptySet
        <5> QED BY <2>1, <3>2, <3>3, <4>1, <5>1, MembershipConstants DEF SeatsRespected, SeatTypes
      <4>4. CASE SeatFree(read[c])
        BY <2>1, <3>2, <3>3, <4>1, <4>4, MembershipConstants
        DEF SeatsRespected, SeatTypes, SeatFree
      <4> QED BY <4>2, <4>3, <4>4 DEF CountedFree
    <3>4. CASE ~(Cardinality(members) <= Cardinality(read[c]))
      <4>1. unseated' = unseated + 1
        BY <1>2, <2>3, <3>4
      <4> QED BY <2>1, <3>2, <4>1, MembershipConstants DEF SeatsRespected, SeatTypes
    <3> QED BY <3>3, <3>4
  <2> QED BY <2>2, <2>3
<1>5. ASSUME NEW d \in Calls PROVE CountedFree(d)'
  <2>1. pc'[d] = IF d = c THEN "readFile" ELSE pc[d]
    BY <1>2 DEF Move, SeatTypes
  <2> QED BY <1>2, <2>1 DEF CountedFree, Uncounted, SeatFree
<1> QED BY <1>3, <1>4, <1>5

LEMMA SeatWrite ==
  ASSUME SeatInv, NEW c \in Calls, WriteFile(c) \/ ReadFile(c)
  PROVE  SeatInv'
<1> USE DEF SeatInv
<1>1. PICK p \in {"ended", "writeFile"} : Move(c, p)
  BY DEF WriteFile, ReadFile
<1>2. /\ UNCHANGED <<members, unseated, about>> /\ file' \subseteq Users
      /\ \E s \in SUBSET Users : read' = [read EXCEPT ![c] = s]
  BY DEF WriteFile, ReadFile, Rewritten, With, SeatTypes, requestVars, historyVars
<1>3. SeatTypes'
  BY <1>1, <1>2 DEF SeatTypes, Move, MemberPlaces
<1>4. SeatsRespected'
  BY <1>2 DEF SeatsRespected
<1>5. ASSUME NEW d \in Calls PROVE CountedFree(d)'
  <2>1. /\ pc'[d] = IF d = c THEN p ELSE pc[d]
        /\ d # c => read'[d] = read[d]
    BY <1>1, <1>2 DEF Move, SeatTypes
  <2> QED BY <2>1 DEF CountedFree, Uncounted, SeatFree
<1> QED BY <1>3, <1>4, <1>5

LEMMA SeatNext == SeatInv /\ [MembershipNext]_memberVars => SeatInv'
<1> SUFFICES ASSUME SeatInv, [MembershipNext]_memberVars PROVE SeatInv'
  OBVIOUS
<1> USE DEF requestVars, inviteVars, historyVars
<1>1. CASE UNCHANGED memberVars
  BY <1>1 DEF SeatInv, SeatTypes, SeatsRespected, CountedFree, SeatFree, memberVars
<1>2. ASSUME NEW c \in Calls, Ask(c) PROVE SeatInv'
  <2>1. PICK u \in Users : about' = [about EXCEPT ![c] = u]
    BY <1>2 DEF Ask
  <2>2. PICK p \in {"look", "row", "seats", "find"} : Move(c, p)
    BY <1>2 DEF Ask
  <2>3. /\ pc[c] = "unsent" /\ UNCHANGED <<members, file, read, unseated>>
        /\ about' \in [Calls -> Users] /\ file \subseteq Users
    BY <1>2, <2>1 DEF Ask, SeatInv, SeatTypes
  <2> QED BY <2>2, <2>3, SeatMove DEF Uncounted, MemberPlaces
<1>3. ASSUME NEW c \in Calls, NEW p \in MemberPlaces, Move(c, p),
             p \in Uncounted \cup {"row"} => pc[c] \in Uncounted,
             UNCHANGED <<members, file, requestVars, read, historyVars>>
      PROVE  SeatInv'
  <2>1. file' \subseteq Users /\ about' \in [Calls -> Users]
    BY <1>3 DEF SeatInv, SeatTypes
  <2> QED BY <1>3, <2>1, SeatMove
<1>4. ASSUME NEW c \in Calls, LookMember(c) PROVE SeatInv'
  <2>1. PICK p \in {"row", "seats"} : Move(c, p)
    BY <1>4 DEF LookMember
  <2> QED BY <1>3, <1>4, <2>1 DEF LookMember, MemberPlaces, Uncounted
<1>5. ASSUME NEW c \in Calls, StoreInvitation(c) \/ FileInvitation(c) \/ Die(c) PROVE SeatInv'
  <2>1. PICK p \in {"inviteFile", "ended"} : Move(c, p)
    BY <1>5 DEF StoreInvitation, FileInvitation, Die
  <2> QED BY <1>3, <1>5, <2>1 DEF StoreInvitation, FileInvitation, Die, MemberPlaces, Uncounted
<1>6. ASSUME NEW c \in Calls, FindInvitation(c) PROVE SeatInv'
  <2>1. pc[c] = "find"
    BY <1>6 DEF FindInvitation
  <2>2. PICK p \in {"mark", "ended", "findFile"} : Move(c, p)
    BY <1>6 DEF FindInvitation
  <2> QED BY <1>3, <1>6, <2>1, <2>2 DEF FindInvitation, MemberPlaces, Uncounted
<1>7. ASSUME NEW c \in Calls, MarkInvitation(c) \/ FindInFile(c) PROVE SeatInv'
  <2>1. pc[c] \in Uncounted
    BY <1>7 DEF MarkInvitation, FindInFile, Uncounted
  <2>2. PICK p \in {"row", "ended", "findFile"} : Move(c, p)
    BY <1>7 DEF MarkInvitation, FindInFile
  <2> QED BY <1>3, <1>7, <2>1, <2>2 DEF MarkInvitation, FindInFile, MemberPlaces
<1> QED
  BY <1>1, <1>2, <1>4, <1>5, <1>6, <1>7, SeatCount, SeatTaken, SeatWrite DEF MembershipNext

\* There are never more members than seats but for requests that did not count them (two
\* routes call requireOrgSeatAvailable of license.ts), or whose count had been overtaken.
THEOREM SeatsHold == MembershipSpec => []SeatsRespected
<1>1. SeatInv => SeatsRespected
  BY DEF SeatInv
<1> QED BY <1>1, SeatInit, SeatNext, PTL DEF MembershipSpec

(***************************************************************************)
(* What answers said.                                                      *)
(***************************************************************************)
\* Between the statement and the answer.
AtFile(c) == pc[c] \in {"readFile", "writeFile"}

\* A request that did not overlap one about the same user has the row as it left it,
\* unless its statement failed.
OwnRow(c) ==
  AtFile(c) /\ c \notin contended =>
    /\ \A d \in Calls \ {c} : about[d] = about[c] => ~AtFile(d)
    /\ kind[c] = "remove" => about[c] \notin members \/ about[c] \in missed
    /\ kind[c] # "remove" => about[c] \in members \/ about[c] \in missed

\* Each of the two stores holds what was promised, unless something happened to it.
AnswerHolds(u) ==
  /\ promised[u] = "in" => /\ u \in members \/ u \in missed
                           /\ u \in file \/ u \in clobbered
  /\ promised[u] = "out" => /\ u \notin members \/ u \in missed
                            /\ u \notin file \/ u \in clobbered

KeptInv ==
  /\ kind \in [Calls -> Kinds \cup {"none"}] /\ promised \in [Users -> {"in", "out", "open"}]
  /\ \A c \in Calls : OwnRow(c) /\ (AtFile(c) => promised[about[c]] = "open")
  /\ \A u \in Users : AnswerHolds(u)

LEMMA KeptInit == MembershipInit => KeptInv
BY DEF MembershipInit, KeptInv, OwnRow, AtFile, AnswerHolds, Kinds

\* A step that changes neither rows nor files, and begins no change of them.
LEMMA KeptQuiet ==
  ASSUME SeatInv, KeptInv, UNCHANGED <<members, file, historyVars>>,
         kind' \in [Calls -> Kinds \cup {"none"}],
         \A c \in Calls : AtFile(c)' => /\ AtFile(c) /\ UNCHANGED <<about[c], kind[c]>>
  PROVE  KeptInv'
<1> USE DEF KeptInv, historyVars
<1>1. ASSUME NEW c \in Calls PROVE OwnRow(c)'
  BY DEF OwnRow
<1>2. ASSUME NEW c \in Calls, AtFile(c)' PROVE promised'[about'[c]] = "open"
  BY <1>2
<1>3. ASSUME NEW u \in Users PROVE AnswerHolds(u)'
  BY DEF AnswerHolds
<1> QED BY <1>1, <1>2, <1>3

\* One request moves, to a place where it changes nothing or from readFile to writeFile.
LEMMA KeptMove ==
  ASSUME SeatInv, KeptInv, NEW c \in Calls, NEW p \in MemberPlaces, Move(c, p),
         p \in {"readFile", "writeFile"} => AtFile(c),
         UNCHANGED <<members, file, requestVars, historyVars>>
  PROVE  KeptInv'
<1>1. ASSUME NEW d \in Calls, AtFile(d)' PROVE AtFile(d)
  BY <1>1 DEF AtFile, Move, SeatInv, SeatTypes
<1> QED BY <1>1, KeptQuiet DEF KeptInv, requestVars

LEMMA KeptRow ==
  ASSUME SeatInv, KeptInv, NEW c \in Calls, ChangeRow(c)
  PROVE  KeptInv'
<1> DEFINE u == about[c]
<1> USE DEF SeatInv, SeatTypes, KeptInv
<1>1. u \in Users /\ pc[c] = "row" /\ ~AtFile(c)
  BY DEF ChangeRow, AtFile
<1>2. /\ UNCHANGED <<file, about, kind, clobbered>>
      /\ promised' = [promised EXCEPT ![u] = "open"]
      /\ contended' = contended \cup (IF Updating(u) = {} THEN {} ELSE Updating(u) \cup {c})
      /\ \A d \in Calls : AtFile(d)' <=> AtFile(d) \/ d = c
  BY DEF ChangeRow, requestVars, Move, AtFile
<1>3. /\ \A v \in Users \ {u} : /\ v \in members' <=> v \in members
                                /\ v \in missed' <=> v \in missed
      /\ \/ u \in missed'
         \/ IF kind[c] = "remove" THEN u \notin members' ELSE u \in members'
  BY DEF ChangeRow, With
<1>4. \A d \in Calls : d \in Updating(u) <=> about[d] = u /\ AtFile(d)
  BY DEF Updating, AtFile
<1>5. ASSUME NEW d \in Calls PROVE OwnRow(d)'
  <2> SUFFICES ASSUME AtFile(d)', d \notin contended'
               PROVE  /\ \A e \in Calls \ {d} : about[e] = about[d] => ~AtFile(e)'
                      /\ kind[d] = "remove" => about[d] \notin members' \/ about[d] \in missed'
                      /\ kind[d] # "remove" => about[d] \in members' \/ about[d] \in missed'
    BY <1>2 DEF OwnRow
  <2>1. CASE d = c
    <3>1. Updating(u) = {}
      BY <1>2, <2>1
    <3> QED BY <1>2, <1>3, <1>4, <2>1, <3>1
  <2>2. CASE d # c
    <3>1. AtFile(d) /\ d \notin contended
      BY <1>2, <2>2
    <3>2. about[d] # u
      BY <1>2, <1>4, <3>1
    <3> QED BY <1>2, <1>3, <3>1, <3>2 DEF OwnRow
  <2> QED BY <2>1, <2>2
<1>6. ASSUME NEW d \in Calls, AtFile(d)' PROVE promised'[about'[d]] = "open"
  BY <1>1, <1>2, <1>6
<1>7. ASSUME NEW v \in Users PROVE AnswerHolds(v)'
  BY <1>1, <1>2, <1>3 DEF AnswerHolds
<1>8. kind' \in [Calls -> Kinds \cup {"none"}] /\ promised' \in [Users -> {"in", "out", "open"}]
  BY <1>1, <1>2
<1> QED BY <1>5, <1>6, <1>7, <1>8

LEMMA KeptFile ==
  ASSUME SeatInv, KeptInv, NEW c \in Calls, WriteFile(c)
  PROVE  KeptInv'
<1> DEFINE u == about[c]
<1> USE DEF SeatInv, SeatTypes, KeptInv
<1>1. u \in Users /\ AtFile(c)
  BY DEF WriteFile, AtFile
<1>2. /\ UNCHANGED <<members, about, kind, missed>>
      /\ contended' = contended \ {c}
      /\ clobbered' = (clobbered \ {u}) \cup {v \in Users \ {u} : v \in file <=> v \notin file'}
      /\ \A d \in Calls : AtFile(d)' <=> AtFile(d) /\ d # c
  BY DEF WriteFile, requestVars, Move, AtFile
<1>3. promised' = [promised EXCEPT ![u] = CASE c \in contended -> "open"
                                           [] c \notin contended /\ kind[c] = "remove" -> "out"
                                           [] OTHER -> "in"]
  BY DEF WriteFile
<1>4. IF kind[c] = "remove" THEN u \notin file' ELSE u \in file'
  BY DEF WriteFile, Rewritten, With
<1>5. \A v \in Users \ {u} : promised'[v] = promised[v]
  BY <1>3
<1>6. /\ c \in contended => promised'[u] = "open"
      /\ c \notin contended /\ kind[c] = "remove" => promised'[u] = "out"
      /\ c \notin contended /\ kind[c] # "remove" => promised'[u] = "in"
  BY <1>1, <1>3
<1>7. ASSUME NEW d \in Calls PROVE OwnRow(d)'
  BY <1>2 DEF OwnRow
<1>8. ASSUME NEW d \in Calls, AtFile(d)' PROVE promised'[about'[d]] = "open"
  <2>1. AtFile(d) /\ d # c
    BY <1>2, <1>8
  <2>2. CASE about[d] = u
    <3>1. c \in contended
      BY <1>1, <2>1, <2>2 DEF OwnRow
    <3> QED BY <1>2, <1>6, <2>2, <3>1
  <2>3. CASE about[d] # u
    BY <1>2, <1>5, <2>1, <2>3
  <2> QED BY <2>2, <2>3
<1>9. ASSUME NEW v \in Users PROVE AnswerHolds(v)'
  <2>1. CASE v = u
    <3>1. CASE c \in contended
      BY <1>6, <2>1, <3>1 DEF AnswerHolds
    <3>2. CASE c \notin contended
      BY <1>1, <1>2, <1>4, <1>6, <2>1, <3>2 DEF AnswerHolds, OwnRow
    <3> QED BY <3>1, <3>2
  <2>2. CASE v # u
    BY <1>2, <1>5, <2>2 DEF AnswerHolds
  <2> QED BY <2>1, <2>2
<1>10. promised' \in [Users -> {"in", "out", "open"}]
  <2>1. promised'[u] \in {"in", "out", "open"}
    BY <1>6
  <2> QED BY <1>1, <1>3, <2>1
<1>11. kind' \in [Calls -> Kinds \cup {"none"}]
  BY <1>2
<1> QED BY <1>7, <1>8, <1>9, <1>10, <1>11

LEMMA KeptNext == SeatInv /\ KeptInv /\ [MembershipNext]_memberVars => KeptInv'
<1> SUFFICES ASSUME SeatInv, KeptInv, [MembershipNext]_memberVars PROVE KeptInv'
  OBVIOUS
<1>1. CASE UNCHANGED memberVars
  BY <1>1, KeptQuiet DEF KeptInv, memberVars, requestVars, historyVars, AtFile
<1>2. ASSUME NEW c \in Calls, Ask(c) PROVE KeptInv'
  <2>1. PICK k \in Kinds : kind' = [kind EXCEPT ![c] = k]
    BY <1>2 DEF Ask, Kinds
  <2>2. PICK p \in {"look", "row", "seats", "find"} : Move(c, p)
    BY <1>2 DEF Ask
  <2>3. \E u \in Users : about' = [about EXCEPT ![c] = u]
    BY <1>2 DEF Ask
  <2>4. ASSUME NEW d \in Calls, AtFile(d)' PROVE AtFile(d) /\ UNCHANGED <<about[d], kind[d]>>
    <3>1. d # c /\ pc'[d] = pc[d]
      BY <2>2, <2>4 DEF AtFile, Move, SeatInv, SeatTypes
    <3> QED BY <2>1, <2>3, <2>4, <3>1 DEF AtFile, KeptInv, SeatInv, SeatTypes
  <2>5. kind' \in [Calls -> Kinds \cup {"none"}]
    BY <2>1 DEF KeptInv
  <2> QED BY <1>2, <2>4, <2>5, KeptQuiet DEF Ask
<1>3. ASSUME NEW c \in Calls, LookMember(c) \/ FindInvitation(c) PROVE KeptInv'
  <2>1. PICK p \in {"row", "seats", "mark", "ended", "findFile"} : Move(c, p)
    BY <1>3 DEF LookMember, FindInvitation
  <2> QED BY <1>3, <2>1, KeptMove DEF LookMember, FindInvitation, MemberPlaces
<1>4. ASSUME NEW c \in Calls, CountSeats(c) PROVE KeptInv'
  <2>1. PICK p \in {"row", "inviteRow", "ended"} : Move(c, p)
    <3>1. CASE ~SeatFree(read'[c])
      BY <1>4, <3>1, Zenon DEF CountSeats
    <3>2. CASE SeatFree(read'[c]) /\ kind[c] = "invite"
      BY <1>4, <3>2, Zenon DEF CountSeats
    <3>3. CASE SeatFree(read'[c]) /\ kind[c] # "invite"
      BY <1>4, <3>3, Zenon DEF CountSeats
    <3> QED BY <3>1, <3>2, <3>3
  <2> QED BY <1>4, <2>1, KeptMove DEF CountSeats, MemberPlaces
<1>5. ASSUME NEW c \in Calls, StoreInvitation(c) \/ FileInvitation(c) \/ Die(c) PROVE KeptInv'
  <2>1. PICK p \in {"inviteFile", "ended"} : Move(c, p)
    BY <1>5 DEF StoreInvitation, FileInvitation, Die
  <2> QED BY <1>5, <2>1, KeptMove DEF StoreInvitation, FileInvitation, Die, MemberPlaces
<1>6. ASSUME NEW c \in Calls, MarkInvitation(c) \/ FindInFile(c) PROVE KeptInv'
  <2>1. PICK p \in {"row", "ended", "findFile"} : Move(c, p)
    BY <1>6 DEF MarkInvitation, FindInFile
  <2> QED BY <1>6, <2>1, KeptMove DEF MarkInvitation, FindInFile, MemberPlaces
<1>7. ASSUME NEW c \in Calls, ReadFile(c) PROVE KeptInv'
  BY <1>7, KeptMove DEF ReadFile, AtFile, MemberPlaces
<1> QED
  BY <1>1, <1>2, <1>3, <1>4, <1>5, <1>6, <1>7, KeptRow, KeptFile DEF MembershipNext

\* Who was told to be a member is known as one by one of the two stores unless both
\* went wrong, and who was told to be none is unknown unless one did (getMembership in
\* orgs.ts asks Postgres and then the file).
THEOREM MembersStayKept == MembershipSpec => []MembersKept
<1>1. KeptInv => MembersKept
  BY DEF KeptInv, AnswerHolds, MembersKept, Known
<1> QED BY <1>1, SeatInit, SeatNext, KeptInit, KeptNext, PTL DEF MembershipSpec

(***************************************************************************)
(* What is counted.  A request adds a member in one step at most, after    *)
(* which it is past that step for good.                                    *)
(***************************************************************************)
Past == {c \in Calls : pc[c] \in {"readFile", "writeFile", "ended"}}

CountsInv ==
  /\ inviteRows \in [Users -> Invitation] /\ inviteFile \in [Users -> Invitation]
  /\ failures \in 0..MaxFailures
  /\ contended \subseteq Calls /\ missed \subseteq Users /\ clobbered \subseteq Users
  /\ unseated \in Nat /\ unseated <= Cardinality(Past)

LEMMA CallsCounted ==
  ASSUME NEW S \in SUBSET Calls
  PROVE  IsFiniteSet(S) /\ Cardinality(S) \in Nat /\ Cardinality(S) <= NumCalls
<1>1. /\ 1 \in Int /\ NumCalls \in Int /\ (1 > NumCalls => NumCalls = 0)
      /\ NumCalls - 1 + 1 = NumCalls
  BY MembershipConstants
<1>2. IsFiniteSet(Calls) /\ Cardinality(Calls) = NumCalls
  BY <1>1, FS_Interval DEF Calls
<1> QED BY <1>2, FS_Subset, FS_CardinalityType

LEMMA CountsInit == MembershipInit => CountsInv
<1> SUFFICES ASSUME MembershipInit PROVE CountsInv
  OBVIOUS
<1>1. Cardinality(Past) \in Nat
  BY CallsCounted DEF Past
<1> QED BY <1>1, MembershipConstants DEF MembershipInit, CountsInv, Invitation

\* The one that moves is not at the end, and is past the statement if it was.
LEMMA PastGrows ==
  ASSUME SeatInv, CountsInv, NEW c \in Calls, NEW p \in MemberPlaces, Move(c, p), pc[c] # "ended",
         pc[c] \in {"readFile", "writeFile"} => p \in {"writeFile", "ended"},
         \/ unseated' = unseated
         \/ unseated' = unseated + 1 /\ pc[c] = "row" /\ p = "readFile"
  PROVE  unseated' \in Nat /\ unseated' <= Cardinality(Past')
<1>1. \A d \in Calls : pc'[d] = IF d = c THEN p ELSE pc[d]
  BY DEF Move, SeatInv, SeatTypes
<1>2. Past \subseteq Past'
  BY <1>1 DEF Past
<1>3. Past \in SUBSET Calls /\ Past' \in SUBSET Calls
  BY DEF Past
<1>4. /\ IsFiniteSet(Past) /\ Cardinality(Past) \in Nat
      /\ IsFiniteSet(Past') /\ Cardinality(Past') \in Nat
  BY <1>3, CallsCounted
<1>5. Cardinality(Past) <= Cardinality(Past')
  BY <1>2, <1>4, FS_Subset
<1>6. ASSUME pc[c] = "row", p = "readFile" PROVE Cardinality(Past) < Cardinality(Past')
  <2>1. c \in Past' /\ c \notin Past
    BY <1>1, <1>6 DEF Past
  <2>2. Cardinality(Past) # Cardinality(Past')
    BY <1>2, <1>4, <2>1, FS_Subset
  <2> QED BY <1>4, <1>5, <2>2
<1> HIDE DEF Past
<1> QED BY <1>4, <1>5, <1>6 DEF CountsInv

LEMMA CountsNext == SeatInv /\ CountsInv /\ [MembershipNext]_memberVars => CountsInv'
<1> SUFFICES ASSUME SeatInv, CountsInv, [MembershipNext]_memberVars PROVE CountsInv'
  OBVIOUS
<1> USE DEF requestVars, inviteVars, historyVars
<1>1. CASE UNCHANGED memberVars
  BY <1>1 DEF memberVars, CountsInv, Past
<1>2. \A c \in Calls : about[c] \in Users
  BY DEF SeatInv, SeatTypes
<1>3. ASSUME NEW c \in Calls,
             \/ Ask(c) \/ LookMember(c) \/ CountSeats(c) \/ ReadFile(c) \/ StoreInvitation(c)
             \/ FileInvitation(c) \/ FindInvitation(c) \/ MarkInvitation(c) \/ FindInFile(c) \/ Die(c)
      PROVE  CountsInv'
  <2>1. PICK p \in MemberPlaces :
          /\ Move(c, p) /\ pc[c] # "ended"
          /\ pc[c] \in {"readFile", "writeFile"} => p \in {"writeFile", "ended"}
    <3>1. CASE CountSeats(c)
      <4>1. CASE ~SeatFree(read'[c])
        BY <3>1, <4>1, Zenon DEF MemberPlaces, CountSeats
      <4>2. CASE SeatFree(read'[c]) /\ kind[c] = "invite"
        BY <3>1, <4>2, Zenon DEF MemberPlaces, CountSeats
      <4>3. CASE SeatFree(read'[c]) /\ kind[c] # "invite"
        BY <3>1, <4>3, Zenon DEF MemberPlaces, CountSeats
      <4> QED BY <4>1, <4>2, <4>3
    <3> QED
      BY <1>3, <3>1 DEF Ask, LookMember, ReadFile, StoreInvitation, FileInvitation, FindInvitation,
                        MarkInvitation, FindInFile, Die, MemberPlaces
  <2>2. UNCHANGED historyVars /\ failures' \in 0..MaxFailures
    BY <1>3, MembershipConstants
       DEF CountsInv, Fails, Ask, LookMember, CountSeats, ReadFile, StoreInvitation,
           FileInvitation, FindInvitation, MarkInvitation, FindInFile, Die
  <2>3. inviteRows' \in [Users -> Invitation]
    BY <1>2, <1>3
       DEF CountsInv, Invitation, Ask, LookMember, CountSeats, ReadFile, StoreInvitation,
           FileInvitation, FindInvitation, MarkInvitation, FindInFile, Die
  <2>4. inviteFile' \in [Users -> Invitation]
    BY <1>2, <1>3
       DEF CountsInv, Invitation, Ask, LookMember, CountSeats, ReadFile, StoreInvitation,
           FileInvitation, FindInvitation, MarkInvitation, FindInFile, Die
  <2>5. unseated' \in Nat /\ unseated' <= Cardinality(Past')
    BY <2>1, <2>2, PastGrows
  <2> QED BY <2>2, <2>3, <2>4, <2>5 DEF CountsInv
<1>4. ASSUME NEW c \in Calls, ChangeRow(c) PROVE CountsInv'
  <2>1. /\ pc[c] = "row" /\ Move(c, "readFile") /\ UNCHANGED <<inviteVars, clobbered>>
        /\ unseated' = unseated \/ unseated' = unseated + 1
    BY <1>4 DEF ChangeRow
  <2>2. failures' \in 0..MaxFailures /\ missed' \subseteq Users
    BY <1>2, <1>4, MembershipConstants DEF ChangeRow, Fails, CountsInv
  <2>3. contended' \subseteq Calls
    BY <1>4 DEF ChangeRow, Updating, CountsInv
  <2>4. unseated' \in Nat /\ unseated' <= Cardinality(Past')
    BY <2>1, PastGrows DEF MemberPlaces
  <2> QED BY <2>1, <2>2, <2>3, <2>4 DEF CountsInv
<1>5. ASSUME NEW c \in Calls, WriteFile(c) PROVE CountsInv'
  <2>1. /\ pc[c] = "writeFile" /\ Move(c, "ended") /\ UNCHANGED <<inviteVars, failures, missed, unseated>>
        /\ clobbered' \subseteq Users /\ contended' \subseteq Calls
    BY <1>2, <1>5 DEF WriteFile, CountsInv
  <2>2. unseated' \in Nat /\ unseated' <= Cardinality(Past')
    BY <2>1, PastGrows DEF MemberPlaces
  <2> QED BY <2>1, <2>2 DEF CountsInv
<1> QED BY <1>1, <1>3, <1>4, <1>5 DEF MembershipNext

LEMMA MembershipTypes == SeatInv /\ KeptInv /\ CountsInv => MembershipTypeOK
<1> SUFFICES ASSUME SeatInv, KeptInv, CountsInv PROVE MembershipTypeOK
  OBVIOUS
<1>1. unseated \in 0..NumCalls
  <2>1. Cardinality(Past) \in Nat /\ Cardinality(Past) <= NumCalls
    BY CallsCounted DEF Past
  <2> QED BY <2>1, MembershipConstants DEF CountsInv
<1> QED BY <1>1 DEF SeatInv, SeatTypes, MemberPlaces, KeptInv, CountsInv, MembershipTypeOK

(***************************************************************************)
(* Linked repositories.                                                    *)
(***************************************************************************)
\* The repositories that one more link leads to.
Onwards(ls, S) ==
  UNION {ls[l].ends : l \in {k \in 1..NumLinks :
           /\ ls[k].ends \cap S # {} /\ ls[k].rule # "off"
           /\ ~(Primary \in ls[k].ends /\ ls[k].rule = "filtered")}}

Near(ls) == CHOOSE W : W = [n \in Nat |-> IF n = 0 THEN {Primary}
                                            ELSE W[n - 1] \cup Onwards(ls, W[n - 1])]

LEMMA NearExists ==
  ASSUME NEW ls
  PROVE  Near(ls) = [n \in Nat |-> IF n = 0 THEN {Primary}
                         ELSE Near(ls)[n - 1] \cup Onwards(ls, Near(ls)[n - 1])]
<1> DEFINE U == {Primary} \cup UNION {ls[l].ends : l \in 1..NumLinks}
           D == SUBSET U
           F == [n \in Nat |-> [S \in D |-> S \cup Onwards(ls, S)]]
           Is(W) == W = [n \in Nat |-> IF n = 0 THEN {Primary} ELSE W[n - 1] \cup Onwards(ls, W[n - 1])]
<1>1. \A S \in D : S \cup Onwards(ls, S) \in D
  BY DEF Onwards
<1>2. {Primary} \in D /\ F \in [Nat -> [D -> D]]
  <2> HIDE DEF D
  <2>1. F \in [Nat -> [D -> D]]
    BY <1>1
  <2> QED BY <2>1 DEF D
<1> HIDE DEF D, F, Is
<1>3. PICK g : Unrolls(D, {Primary}, F, g)
  BY <1>2, RecursionExists
<1>4. \A n \in Nat \ {0} : g[n] = g[n - 1] \cup Onwards(ls, g[n - 1])
  <2> TAKE n \in Nat \ {0}
  <2>1. n - 1 \in Nat /\ g[n - 1] \in D
    BY <1>3 DEF Unrolls
  <2> QED BY <1>3, <2>1 DEF F, Unrolls
<1>5. Is(g)
  BY <1>3, <1>4 DEF Is, Unrolls
<1>6. \E V : Is(V)
  BY <1>5
<1> QED BY <1>6 DEF Near, Is

LEMMA TwoEnds ==
  ASSUME NEW S, Cardinality(S) = 2, IsFiniteSet(S), NEW r \in S
  PROVE  \E x \in S : x # r /\ S = {r, x}
<1>1. Cardinality(S \ {r}) = 1 /\ IsFiniteSet(S \ {r})
  BY FS_RemoveElement
<1>2. PICK x : S \ {r} = {x}
  BY <1>1, FS_Singleton
<1> QED BY <1>2

AllLinks == [1..NumLinks -> SomeLinks]

\* The repository at the other end of link l.
Other(ls, l, r) == CHOOSE x \in ls[l].ends : x # r

LEMMA LinkEnds ==
  ASSUME NEW ls \in AllLinks, NEW l \in 1..NumLinks, NEW r \in ls[l].ends
  PROVE  /\ ls[l].ends \subseteq AllRepos /\ Other(ls, l, r) \in AllRepos
         /\ Other(ls, l, r) # r /\ ls[l].ends = {r, Other(ls, l, r)}
<1>1. ls[l] \in Links
  BY CrossRepoConstants DEF AllLinks
<1>2. ls[l].ends \subseteq AllRepos /\ Cardinality(ls[l].ends) = 2
  BY <1>1 DEF Links
<1>3. IsFiniteSet(AllRepos)
  BY CrossRepoConstants, FS_AddElement DEF AllRepos
<1>4. IsFiniteSet(ls[l].ends)
  BY <1>2, <1>3, FS_Subset
<1>5. \E x \in ls[l].ends : x # r /\ ls[l].ends = {r, x}
  BY <1>2, <1>4, TwoEnds
<1> QED BY <1>2, <1>5 DEF Other

\* Link l is followed from r.
Leads(ls, l, r) ==
  /\ ls[l].rule # "off" /\ r \in ls[l].ends
  /\ ~(r = Primary /\ ls[l].rule = "filtered")

LEMMA NearOnwards ==
  ASSUME NEW ls
  PROVE
  /\ Near(ls)[0] = {Primary}
  /\ \A n \in Nat : Near(ls)[n + 1] = Near(ls)[n] \cup Onwards(ls, Near(ls)[n])
<1>1. Near(ls) = [n \in Nat |-> IF n = 0 THEN {Primary}
                              ELSE Near(ls)[n - 1] \cup Onwards(ls, Near(ls)[n - 1])]
  BY NearExists
<1> DEFINE V == Near(ls)
<1> HIDE DEF V
<1>2. V = [n \in Nat |-> IF n = 0 THEN {Primary} ELSE V[n - 1] \cup Onwards(ls, V[n - 1])]
  BY <1>1 DEF V
<1>3. V[0] = {Primary}
  BY <1>2
<1>4. ASSUME NEW n \in Nat PROVE V[n + 1] = V[n] \cup Onwards(ls, V[n])
  <2>1. n + 1 \in Nat /\ n + 1 # 0 /\ (n + 1) - 1 = n
    OBVIOUS
  <2> QED BY <1>2, <2>1
<1> QED BY <1>3, <1>4 DEF V

\* What lies within n + 1 links is what one link leads to from what lies within n.
LEMMA NearGrows ==
  ASSUME NEW ls \in AllLinks, NEW n \in Nat
  PROVE  /\ Near(ls)[n] \subseteq Near(ls)[n + 1]
         /\ \A l \in 1..NumLinks, r \in Near(ls)[n] : Leads(ls, l, r) => Other(ls, l, r) \in Near(ls)[n + 1]
         /\ \A s \in Near(ls)[n + 1] \ Near(ls)[n] : \E l \in 1..NumLinks, r \in Near(ls)[n] :
              Leads(ls, l, r) /\ s = Other(ls, l, r)
<1>1. Near(ls)[n + 1] = Near(ls)[n] \cup Onwards(ls, Near(ls)[n])
  BY NearOnwards
<1>2. ASSUME NEW l \in 1..NumLinks, NEW r \in Near(ls)[n], Leads(ls, l, r), Primary \in Near(ls)[n]
      PROVE  Other(ls, l, r) \in Near(ls)[n + 1]
  <2>1. Other(ls, l, r) \in ls[l].ends /\ r \in ls[l].ends /\ ls[l].ends = {r, Other(ls, l, r)}
    BY <1>2, LinkEnds DEF Leads
  <2>2. CASE Primary \in ls[l].ends /\ ls[l].rule = "filtered"
    <3>1. r # Primary
      BY <1>2, <2>2 DEF Leads
    <3>2. Other(ls, l, r) = Primary
      BY <2>1, <2>2, <3>1
    <3> QED BY <1>1, <1>2, <3>2
  <2>3. CASE ~(Primary \in ls[l].ends /\ ls[l].rule = "filtered")
    <3>1. ls[l].ends \subseteq Onwards(ls, Near(ls)[n])
      BY <1>2, <2>1, <2>3 DEF Onwards, Leads
    <3> QED BY <1>1, <2>1, <3>1
  <2> QED BY <2>2, <2>3
<1>3. ASSUME NEW s \in Near(ls)[n + 1] \ Near(ls)[n]
      PROVE  \E l \in 1..NumLinks, r \in Near(ls)[n] : Leads(ls, l, r) /\ s = Other(ls, l, r)
  <2>1. s \in Onwards(ls, Near(ls)[n])
    BY <1>1, <1>3
  <2>2. PICK l \in 1..NumLinks : /\ s \in ls[l].ends /\ ls[l].ends \cap Near(ls)[n] # {}
                                 /\ ls[l].rule # "off"
                                 /\ ~(Primary \in ls[l].ends /\ ls[l].rule = "filtered")
    BY <2>1 DEF Onwards
  <2>3. PICK r : r \in ls[l].ends /\ r \in Near(ls)[n]
    BY <2>2
  <2>4. ls[l].ends = {r, Other(ls, l, r)}
    BY <2>3, LinkEnds
  <2>5. s = Other(ls, l, r)
    BY <1>3, <2>2, <2>3, <2>4
  <2>6. Leads(ls, l, r)
    BY <2>2, <2>3 DEF Leads
  <2> QED BY <2>3, <2>5, <2>6
<1>4. Primary \in Near(ls)[n]
  <2>1. SUFFICES ASSUME {m \in Nat : Primary \notin Near(ls)[m]} # {} PROVE FALSE
    OBVIOUS
  <2>2. PICK m \in {k \in Nat : Primary \notin Near(ls)[k]} :
               \A k \in {i \in Nat : Primary \notin Near(ls)[i]} : m <= k
    BY <2>1, LeastNumber
  <2>3. m # 0
    BY <2>2, NearOnwards
  <2>4. m - 1 \in Nat /\ m - 1 < m /\ (m - 1) + 1 = m
    BY <2>2, <2>3
  <2>5. Primary \in Near(ls)[m - 1]
    BY <2>2, <2>4
  <2> QED BY <2>2, <2>4, <2>5, NearOnwards
<1> QED BY <1>1, <1>2, <1>3, <1>4

LEMMA NearMonotone ==
  ASSUME NEW ls \in AllLinks, NEW m \in Nat, NEW n \in Nat, m <= n
  PROVE  Near(ls)[m] \subseteq Near(ls)[n]
<1>1. SUFFICES ASSUME {k \in Nat : m <= k /\ ~(Near(ls)[m] \subseteq Near(ls)[k])} # {} PROVE FALSE
  OBVIOUS
<1>2. PICK k \in {i \in Nat : m <= i /\ ~(Near(ls)[m] \subseteq Near(ls)[i])} :
             \A j \in {i \in Nat : m <= i /\ ~(Near(ls)[m] \subseteq Near(ls)[i])} : k <= j
  BY <1>1, LeastNumber
<1>3. k # m
  BY <1>2
<1>4. k - 1 \in Nat /\ k - 1 < k /\ m <= k - 1 /\ (k - 1) + 1 = k
  BY <1>2, <1>3
<1>5. Near(ls)[m] \subseteq Near(ls)[k - 1]
  BY <1>2, <1>4
<1>6. Near(ls)[k - 1] \subseteq Near(ls)[k]
  BY <1>4, NearGrows
<1> QED BY <1>2, <1>5, <1>6

(***************************************************************************)
(* The order in which repositories are found follows from the links.       *)
(***************************************************************************)
\* A link from one of the first repositories of R that leads to none of them: the place of
\* the one, and the link.
Openings(ls, b, R, k) ==
  {c \in (1..k) \X (1..NumLinks) :
     /\ Leads(ls, c[2], R[c[1]]) /\ R[c[1]] \in Near(ls)[b.maxDepth - 1]
     /\ \A j \in 1..k : R[j] # Other(ls, c[2], R[c[1]])}

NotAfter(c, e) == c[1] < e[1] \/ (c[1] = e[1] /\ c[2] <= e[2])

IsFirst(ls, b, R, k, c) == c \in Openings(ls, b, R, k) /\ \A e \in Openings(ls, b, R, k) : NotAfter(c, e)

\* Each repository was found behind the first link there was.
Grown(ls, b, R) == \A k \in 1..(Len(R) - 1) : \E c : IsFirst(ls, b, R, k, c) /\ R[k + 1] = Other(ls, c[2], R[c[1]])

\* Nothing is left out for something that is further away.
Nearest(ls, b, R) ==
  /\ Range(R) \subseteq Near(ls)[b.maxDepth]
  /\ \A n \in 0..b.maxDepth : Range(R) \subseteq Near(ls)[n] \/ Near(ls)[n] \subseteq Range(R)
  /\ Len(R) < b.maxRepos => Range(R) = Near(ls)[b.maxDepth]

InOrderFound(ls, b, R) == /\ R \in Seq(AllRepos) /\ R # <<>> /\ R[1] = Primary /\ IsInjective(R)
              /\ Len(R) <= b.maxRepos /\ Grown(ls, b, R)

\* What a plan comes to.
Complete(ls, b, R) ==
  /\ InOrderFound(ls, b, R) /\ Nearest(ls, b, R)
  /\ Len(R) < b.maxRepos => Openings(ls, b, R, Len(R)) = {}

LEMMA FirstIsOne ==
  ASSUME NEW ls, NEW b, NEW R, NEW k \in Nat, NEW c, NEW e, IsFirst(ls, b, R, k, c), IsFirst(ls, b, R, k, e)
  PROVE  c = e
<1>1. c \in (1..k) \X (1..NumLinks) /\ e \in (1..k) \X (1..NumLinks)
  BY DEF IsFirst, Openings
<1>2. NotAfter(c, e) /\ NotAfter(e, c)
  BY DEF IsFirst
<1>3. c[1] \in Nat /\ c[2] \in Nat /\ e[1] \in Nat /\ e[2] \in Nat
  BY <1>1, CrossRepoConstants
<1>4. c[1] = e[1] /\ c[2] = e[2]
  BY <1>2, <1>3 DEF NotAfter
<1> QED BY <1>1, <1>4

LEMMA OpeningsAgree ==
  ASSUME NEW ls, NEW b, NEW R, NEW Q, NEW k \in Nat, \A j \in 1..k : R[j] = Q[j]
  PROVE  Openings(ls, b, R, k) = Openings(ls, b, Q, k)
<1>1. ASSUME NEW c \in (1..k) \X (1..NumLinks) PROVE R[c[1]] = Q[c[1]]
  BY <1>1
<1>2. ASSUME NEW c \in (1..k) \X (1..NumLinks)
      PROVE  (\A j \in 1..k : R[j] # Other(ls, c[2], R[c[1]])) <=>
             (\A j \in 1..k : Q[j] # Other(ls, c[2], Q[c[1]]))
  BY <1>1
<1> QED BY <1>1, <1>2, Zenon DEF Openings

LEMMA GrownAgree ==
  ASSUME NEW ls, NEW b, NEW R \in Seq(AllRepos), NEW Q \in Seq(AllRepos), R[1] = Q[1], Grown(ls, b, R), Grown(ls, b, Q),
         NEW n \in Nat, n <= Len(R), n <= Len(Q)
  PROVE  \A j \in 1..n : R[j] = Q[j]
<1>1. SUFFICES ASSUME {k \in Nat : k \in 1..n /\ R[k] # Q[k]} # {} PROVE FALSE
  OBVIOUS
<1>2. PICK k \in {i \in Nat : i \in 1..n /\ R[i] # Q[i]} :
             \A j \in {i \in Nat : i \in 1..n /\ R[i] # Q[i]} : k <= j
  BY <1>1, LeastNumber
<1>3. k # 1 /\ k \in Nat /\ k >= 1 /\ k <= n
  BY <1>2
<1>4. /\ k - 1 \in Nat /\ k - 1 \in 1..(Len(R) - 1) /\ k - 1 \in 1..(Len(Q) - 1)
      /\ (k - 1) + 1 = k
  BY <1>3
<1>5. \A j \in 1..(k - 1) : R[j] = Q[j]
  <2>1. SUFFICES ASSUME NEW j \in 1..(k - 1), R[j] # Q[j] PROVE FALSE
    OBVIOUS
  <2>2. j \in Nat /\ j \in 1..n /\ ~(k <= j)
    BY <1>3
  <2> QED BY <1>2, <2>1, <2>2
<1>6. Openings(ls, b, R, k - 1) = Openings(ls, b, Q, k - 1)
  BY <1>4, <1>5, OpeningsAgree
<1>7. PICK c : IsFirst(ls, b, R, k - 1, c) /\ R[k] = Other(ls, c[2], R[c[1]])
  BY <1>4, Zenon DEF Grown
<1>8. PICK e : IsFirst(ls, b, Q, k - 1, e) /\ Q[k] = Other(ls, e[2], Q[e[1]])
  BY <1>4, Zenon DEF Grown
<1>9. IsFirst(ls, b, R, k - 1, e)
  BY <1>6, <1>8 DEF IsFirst
<1>10. c = e
  BY <1>4, <1>7, <1>9, FirstIsOne
<1>11. c[1] \in 1..(k - 1)
  BY <1>4, <1>7 DEF IsFirst, Openings
<1> QED BY <1>2, <1>5, <1>7, <1>8, <1>10, <1>11

\* Two plans under the same links and the same budget find the same.
LEMMA PlansAgree ==
  ASSUME NEW ls, NEW b \in Budgets, NEW R, NEW Q, Complete(ls, b, R), Complete(ls, b, Q)
  PROVE  R = Q
<1>0. b.maxRepos \in Nat
  BY CrossRepoConstants DEF AllLinks
<1>1. ASSUME NEW S, NEW T, Complete(ls, b, S), Complete(ls, b, T), Len(S) < Len(T) PROVE FALSE
  <2>1. /\ S \in Seq(AllRepos) /\ T \in Seq(AllRepos) /\ S[1] = T[1] /\ Grown(ls, b, S) /\ Grown(ls, b, T)
        /\ Len(S) \in Nat /\ Len(T) \in Nat /\ Len(T) <= b.maxRepos /\ S # <<>>
    BY <1>1 DEF Complete, InOrderFound
  <2>2. Len(S) < b.maxRepos /\ Len(S) \in 1..(Len(T) - 1)
    BY <1>0, <1>1, <2>1
  <2>3. Openings(ls, b, S, Len(S)) = {}
    BY <1>1, <2>2 DEF Complete
  <2>4. \A j \in 1..Len(S) : S[j] = T[j]
    BY <1>1, <2>1, GrownAgree
  <2>5. Openings(ls, b, T, Len(S)) = {}
    BY <2>1, <2>3, <2>4, OpeningsAgree
  <2>6. \E c : c \in Openings(ls, b, T, Len(S))
    BY <2>1, <2>2 DEF Grown, IsFirst
  <2> QED BY <2>5, <2>6
<1>2. R \in Seq(AllRepos) /\ Q \in Seq(AllRepos) /\ R[1] = Q[1] /\ Grown(ls, b, R) /\ Grown(ls, b, Q)
  BY DEF Complete, InOrderFound
<1>3. Len(R) = Len(Q)
  BY <1>1, <1>2
<1>4. \A j \in 1..Len(R) : R[j] = Q[j]
  BY <1>2, <1>3, GrownAgree
<1> QED BY <1>2, <1>3, <1>4

LEMMA LinksLead ==
  /\ Within = Near(links) /\ Within' = Near(links')
  /\ \A l, r : Across(l, r) = Other(links, l, r)
  /\ \A l, r : Leads(links, l, r) <=>
                 links[l].rule # "off" /\ r \in links[l].ends /\ ~Blocked(l, r)
<1>1. Within = Near(links) /\ Within' = Near(links')
  BY DEF Within, Near, Onwards
<1> QED BY <1>1 DEF Across, Other, Leads, Blocked

(***************************************************************************)
(* A plan that is being made.                                              *)
(***************************************************************************)
\* How many repositories were taken from the queue.
Taken == Len(repos) - Len(queue)

\* The queue is the end of what was found, in the order of distances, of which there are
\* two at most.
QueueInOrder ==
  /\ Len(queue) <= Len(repos)
  /\ \A j \in DOMAIN queue :
       /\ queue[j].repo = repos[Taken + j]
       /\ queue[j].depth \in {cur.depth, cur.depth + 1}
       /\ queue[j].repo \in Near(links)[queue[j].depth]
       /\ \A n \in Nat : n < queue[j].depth => queue[j].repo \notin Near(links)[n]
  /\ \A i, j \in DOMAIN queue : i <= j => queue[i].depth <= queue[j].depth

LinksInHand ==
  outgoing # {} =>
    /\ Taken >= 1 /\ cur.repo = repos[Taken] /\ cur.depth < budget.maxDepth
    /\ \A l \in outgoing : links[l].rule # "off" /\ cur.repo \in links[l].ends

\* What is nearer than the repository at hand has been found.
Layered ==
  /\ cur.repo \in Near(links)[cur.depth]
  /\ Near(links)[cur.depth] \subseteq Reached /\ Reached \subseteq Near(links)[cur.depth + 1]
  /\ Reached \subseteq Near(links)[budget.maxDepth]

\* What still leads on is a link in hand, or one of a repository in the queue.
AllFollowed ==
  Full \/ \A c \in Openings(links, budget, repos, Len(repos)) :
            c[1] > Taken \/ (c[1] = Taken /\ c[2] \in outgoing)

\* Each repository found has a unit, or a reason, and one that is here has no unit only if
\* there are no more.
UnitsGiven ==
  /\ Reached \ {Primary} \subseteq units \cup reasons
  /\ \A r \in (Reached \cap Here) \ units : Cardinality(units) = budget.maxExtraUnits

Planning ==
  /\ QueueInOrder /\ LinksInHand /\ Layered /\ AllFollowed
  /\ InOrderFound(links, budget, repos)

AskedFor == {r \in LinkedRepos : tree[r] # "unasked"}

UnitsCounted ==
  /\ Cardinality(units) <= budget.maxExtraUnits /\ units \subseteq Here

CrossInv ==
  /\ RepoTypeOK /\ UnitsCounted
  /\ step \in {"preview", "plan"} => Planning
  /\ step \in {"materialize", "rebuild", "join", "done"} => Complete(links, budget, repos)
  /\ step \in {"preview", "plan", "done"} => UnitsGiven
  /\ step = "preview" => AskedFor = {}
  /\ step \in {"materialize", "rebuild", "join"} => units = {} /\ reasons = {} /\ AskedFor \subseteq Reached
  /\ step \in {"rebuild", "join"} => Reached = {Primary} \cup AskedFor
  /\ step \in {"plan", "done"} =>
       \E R : Complete(links, budget, R) /\ Range(R) = {Primary} \cup AskedFor

LEMMA GivenTypes ==
  ASSUME RepoTypeOK
  PROVE  /\ links \in AllLinks /\ budget \in Budgets
         /\ budget.maxRepos \in Nat \ {0} /\ budget.maxDepth \in Nat \ {0}
         /\ budget.maxExtraUnits \in Nat \ {0}
         /\ IsFiniteSet(LinkedRepos) /\ IsFiniteSet(units) /\ Cardinality(units) \in Nat
         /\ NumLinks \in Nat /\ Primary \in AllRepos
<1>1. /\ links \in AllLinks /\ budget \in Budgets /\ units \subseteq LinkedRepos
      /\ IsFiniteSet(LinkedRepos) /\ NumLinks \in Nat /\ Primary \in AllRepos
  BY CrossRepoConstants DEF RepoTypeOK, AllLinks, AllRepos
<1>2. IsFiniteSet(units) /\ Cardinality(units) \in Nat
  BY <1>1, FS_Subset, FS_CardinalityType
<1>3. budget \in [maxRepos : Nat \ {0}, maxDepth : Nat \ {0}, maxExtraUnits : Nat \ {0}]
  BY <1>1, CrossRepoConstants
<1> QED BY <1>1, <1>2, <1>3

LEMMA CrossStart == RepoInit => CrossInv
<1> SUFFICES ASSUME RepoInit PROVE CrossInv
  OBVIOUS
<1> USE DEF RepoInit, RepoStarts
<1>1. budget.maxRepos \in Nat \ {0} /\ budget.maxDepth \in Nat \ {0} /\ budget.maxExtraUnits \in Nat \ {0}
  BY CrossRepoConstants
<1>2. Start \in Nodes /\ Start.depth = 0 /\ Start.repo = Primary /\ Primary \in AllRepos
  BY <1>1 DEF Start, Nodes, AllRepos
<1>3. repos \in Seq(AllRepos) /\ Len(repos) = 1 /\ repos[1] = Primary /\ Reached = {Primary}
  BY <1>2 DEF Reached, Range
<1>4. IsInjective(repos)
  BY DEF IsInjective
<1>5. RepoTypeOK
  BY <1>2, <1>3, <1>4 DEF RepoTypeOK
<1>6. Near(links)[0] = {Primary}
  BY NearOnwards
<1>7. links \in AllLinks
  BY <1>5, GivenTypes
<1>8. \A n \in Nat : Primary \in Near(links)[n]
  BY <1>6, <1>7, NearMonotone
<1>9. Len(queue) = 1 /\ DOMAIN queue = {1} /\ queue[1] = Start /\ Taken = 0 /\ cur = Start /\ outgoing = {}
  BY <1>3 DEF Taken
<1>10. QueueInOrder
  BY <1>2, <1>3, <1>6, <1>9 DEF QueueInOrder
<1>11. LinksInHand
  BY <1>9 DEF LinksInHand
<1>12. Layered
  BY <1>1, <1>2, <1>3, <1>6, <1>8, <1>9 DEF Layered
<1>13. AllFollowed
  <2>1. \A c \in Openings(links, budget, repos, Len(repos)) : c[1] > 0
    BY <1>3 DEF Openings
  <2> QED BY <1>9, <2>1 DEF AllFollowed
<1>14. InOrderFound(links, budget, repos)
  <2>1. Grown(links, budget, repos)
    BY <1>3 DEF Grown
  <2> QED BY <1>1, <1>3, <1>4, <2>1 DEF InOrderFound
<1>15. AskedFor = {} /\ Here = {} /\ UnitsGiven
  BY <1>3 DEF AskedFor, Here, UnitsGiven
<1>16. UnitsCounted
  BY <1>1, FS_EmptySet DEF UnitsCounted
<1> QED BY <1>5, <1>10, <1>11, <1>12, <1>13, <1>14, <1>15, <1>16 DEF CrossInv, Planning

LEMMA PlaceBehind ==
  ASSUME RepoTypeOK, NEW s \in Reached
  PROVE  \E i \in 1..Len(repos) : repos[i] = s
BY DEF RepoTypeOK, Reached, Range

LEMMA PrimaryIsFound ==
  ASSUME InOrderFound(links, budget, repos) PROVE Primary \in Reached
<1>1. repos \in Seq(AllRepos) /\ repos # <<>> /\ repos[1] = Primary
  BY DEF InOrderFound
<1>2. 1 \in DOMAIN repos
  BY <1>1
<1> QED BY <1>1, <1>2 DEF Reached, Range

\* The repository at hand is near enough for its links to be followed.
LEMMA HandNear ==
  ASSUME CrossInv, Planning, NEW l \in outgoing
  PROVE  /\ l \in 1..NumLinks /\ Taken \in 1..Len(repos) /\ repos[Taken] = cur.repo
         /\ cur.depth \in Nat /\ cur.depth + 1 <= budget.maxDepth
         /\ cur.repo \in Near(links)[budget.maxDepth - 1]
         /\ Across(l, cur.repo) \in AllRepos
         /\ (Leads(links, l, cur.repo) <=> ~Blocked(l, cur.repo))
<1>1. RepoTypeOK /\ links \in AllLinks /\ budget.maxDepth \in Nat /\ cur \in Nodes /\ l \in 1..NumLinks
  BY GivenTypes DEF CrossInv, RepoTypeOK
<1>2. cur.depth \in Nat /\ cur.depth < budget.maxDepth
  BY <1>1 DEF Planning, LinksInHand, Nodes
<1>3. cur.repo \in Near(links)[budget.maxDepth - 1]
  <2>1. budget.maxDepth - 1 \in Nat /\ cur.depth <= budget.maxDepth - 1
    BY <1>1, <1>2
  <2>2. cur.repo \in Near(links)[cur.depth]
    BY DEF Planning, Layered
  <2> QED BY <1>1, <1>2, <2>1, <2>2, NearMonotone
<1>4. links[l].rule # "off" /\ cur.repo \in links[l].ends /\ Taken >= 1 /\ repos[Taken] = cur.repo
  BY DEF Planning, LinksInHand
<1>5. Across(l, cur.repo) \in AllRepos
  BY <1>1, <1>4, LinkEnds, LinksLead
<1>6. Taken \in 1..Len(repos)
  <2>1. Len(queue) \in Nat /\ Len(repos) \in Nat
    BY <1>1 DEF RepoTypeOK
  <2> QED BY <1>4, <2>1 DEF Taken
<1> QED BY <1>1, <1>2, <1>3, <1>4, <1>5, <1>6, LinksLead

LEMMA CrossPassed ==
  ASSUME CrossInv, NEW l \in 1..NumLinks, PassLink(l) \/ LeaveOut(l)
  PROVE  CrossInv'
<1>1. /\ step \in {"preview", "plan"} /\ l \in outgoing /\ outgoing' = outgoing \ {l}
      /\ links' = links /\ budget' = budget /\ step' = step /\ cur' = cur /\ queue' = queue
      /\ repos' = repos /\ units' = units /\ tree' = tree /\ rebuilt' = rebuilt /\ joined' = joined
      /\ reasons' \in {reasons, reasons \cup {Across(l, cur.repo)}}
  BY DEF PassLink, LeaveOut, FollowLink, givenVars, afterVars
<1>2. Planning /\ RepoTypeOK
  BY <1>1 DEF CrossInv
<1>3. /\ Reached' = Reached /\ Taken' = Taken /\ Full' = Full /\ Here' = Here /\ AskedFor' = AskedFor
      /\ Nodes' = Nodes
  BY <1>1 DEF Reached, Taken, Full, Here, AskedFor, Nodes
<1>4. LeaveOut(l) => Across(l, cur.repo) # Primary
  <2>1. LeaveOut(l) => Across(l, cur.repo) \notin Reached
    BY DEF LeaveOut
  <2>2. Primary \in Reached
    BY <1>2, PrimaryIsFound DEF Planning
  <2> QED BY <2>1, <2>2
<1>5. reasons' \subseteq LinkedRepos /\ reasons \subseteq reasons'
  <2>1. Across(l, cur.repo) \in AllRepos
    BY <1>1, <1>2, HandNear
  <2>2. CASE PassLink(l)
    BY <1>2, <2>2 DEF PassLink, RepoTypeOK
  <2>3. CASE LeaveOut(l)
    BY <1>2, <1>4, <2>1, <2>3 DEF LeaveOut, PassLink, RepoTypeOK, AllRepos
  <2> QED BY <2>2, <2>3
<1>6. RepoTypeOK'
  BY <1>1, <1>2, <1>3, <1>5 DEF RepoTypeOK
<1>7. QueueInOrder'
  BY <1>1, <1>2, <1>3 DEF Planning, QueueInOrder
<1>8. LinksInHand'
  BY <1>1, <1>2, <1>3 DEF Planning, LinksInHand
<1>9. Layered'
  BY <1>1, <1>2, <1>3 DEF Planning, Layered
<1>10. InOrderFound(links, budget, repos)'
  BY <1>1, <1>2 DEF Planning
<1>11. AllFollowed'
  <2>1. SUFFICES ASSUME ~Full, NEW c \in Openings(links, budget, repos, Len(repos))
                 PROVE  c[1] > Taken \/ (c[1] = Taken /\ c[2] \in outgoing')
    BY <1>1, <1>3, Zenon DEF AllFollowed
  <2>2. c[1] > Taken \/ (c[1] = Taken /\ c[2] \in outgoing)
    BY <1>2, <2>1 DEF Planning, AllFollowed
  <2>3. c[1] = Taken => c[2] # l
    <3>1. SUFFICES ASSUME c[1] = Taken, c[2] = l PROVE FALSE
      OBVIOUS
    <3>2. repos[Taken] = cur.repo /\ (Leads(links, l, cur.repo) <=> ~Blocked(l, cur.repo))
      BY <1>1, <1>2, HandNear
    <3>3. /\ Leads(links, l, cur.repo)
          /\ \A j \in 1..Len(repos) : repos[j] # Other(links, l, cur.repo)
      BY <2>1, <3>1, <3>2 DEF Openings
    <3>4. Other(links, l, cur.repo) \notin Reached
      BY <1>2, <3>3, PlaceBehind
    <3>5. Across(l, cur.repo) \notin Reached
      BY <3>4, LinksLead
    <3>6. LeaveOut(l) /\ Blocked(l, cur.repo)
      BY <2>1, <3>5 DEF PassLink, LeaveOut
    <3> QED BY <3>2, <3>3, <3>6
  <2> QED BY <1>1, <2>2, <2>3
<1>12. UnitsGiven'
  BY <1>1, <1>3, <1>5 DEF CrossInv, UnitsGiven
<1>13. UnitsCounted'
  BY <1>1, <1>3 DEF CrossInv, UnitsCounted
<1>14. step = "plan" => (\E R : Complete(links, budget, R) /\ Range(R) = {Primary} \cup AskedFor)'
  BY <1>1, <1>3, Zenon DEF CrossInv
<1>15. step = "preview" => AskedFor' = {}
  BY <1>3 DEF CrossInv
<1>16. step' \in {"preview", "plan"}
  BY <1>1
<1>17. Planning'
  BY <1>7, <1>8, <1>9, <1>10, <1>11 DEF Planning
<1> QED BY <1>1, <1>6, <1>12, <1>13, <1>14, <1>15, <1>16, <1>17, Zenon DEF CrossInv

LEMMA CrossTaken == ASSUME CrossInv, TakeRepo PROVE CrossInv'
<1>1. /\ step \in {"preview", "plan"} /\ outgoing = {} /\ queue # <<>> /\ ~Full
      /\ cur' = Head(queue) /\ queue' = Tail(queue)
      /\ outgoing' = {l \in 1..NumLinks : /\ cur'.depth < budget.maxDepth
                                          /\ links[l].rule # "off" /\ cur'.repo \in links[l].ends}
      /\ links' = links /\ budget' = budget /\ step' = step
      /\ repos' = repos /\ units' = units /\ tree' = tree /\ rebuilt' = rebuilt /\ joined' = joined
      /\ reasons' = reasons
  BY DEF TakeRepo, givenVars, afterVars
<1>2. Planning /\ RepoTypeOK
  BY <1>1 DEF CrossInv
<1>3. /\ Reached' = Reached /\ Full' = Full /\ Here' = Here /\ AskedFor' = AskedFor
      /\ Nodes' = Nodes
  BY <1>1 DEF Reached, Full, Here, AskedFor, Nodes
<1>4. /\ queue \in Seq(Nodes) /\ repos \in Seq(AllRepos) /\ Len(queue) \in Nat /\ Len(repos) \in Nat
      /\ Len(queue) >= 1 /\ Len(queue) <= Len(repos) /\ Len(queue') = Len(queue) - 1
      /\ cur' = queue[1] /\ 1 \in DOMAIN queue /\ cur' \in Nodes /\ queue' \in Seq(Nodes)
      /\ \A j \in DOMAIN queue' : queue'[j] = queue[j + 1] /\ j + 1 \in DOMAIN queue
  BY <1>1, <1>2 DEF RepoTypeOK, Planning, QueueInOrder
<1>5. Taken' = Taken + 1 /\ Taken \in Nat /\ Taken + 1 <= Len(repos)
  BY <1>1, <1>4 DEF Taken
<1>6. /\ \A j \in DOMAIN queue : queue[j] \in Nodes
      /\ cur \in Nodes /\ budget.maxDepth \in Nat \ {0} /\ links \in AllLinks
  BY <1>2, <1>4, GivenTypes DEF RepoTypeOK
<1>7. /\ \A j \in DOMAIN queue : queue[j].depth \in Nat /\ queue[j].repo \in AllRepos
      /\ cur.depth \in Nat /\ cur'.depth \in 0..budget.maxDepth
  BY <1>4, <1>6 DEF Nodes
<1>8. RepoTypeOK'
  BY <1>1, <1>2, <1>3, <1>4 DEF RepoTypeOK
<1>9. QueueInOrder'
  <2>1. \A j \in DOMAIN queue' :
          /\ queue'[j].repo = repos[Taken + 1 + j]
          /\ queue'[j].repo \in Near(links)[queue'[j].depth]
          /\ \A n \in Nat : n < queue'[j].depth => queue'[j].repo \notin Near(links)[n]
    <3> TAKE j \in DOMAIN queue'
    <3>1. queue'[j] = queue[j + 1] /\ j + 1 \in DOMAIN queue /\ j \in Nat
      BY <1>4
    <3>2. Taken + (j + 1) = Taken + 1 + j
      BY <1>5, <3>1
    <3> QED BY <1>2, <3>1, <3>2 DEF Planning, QueueInOrder
  <2>2. \A j \in DOMAIN queue' : queue'[j].depth \in {cur'.depth, cur'.depth + 1}
    <3> TAKE j \in DOMAIN queue'
    <3>1. queue'[j] = queue[j + 1] /\ j + 1 \in DOMAIN queue /\ 1 <= j + 1
      BY <1>4
    <3>2. queue[1].depth <= queue[j + 1].depth
      BY <1>2, <1>4, <3>1 DEF Planning, QueueInOrder
    <3>3. queue[1].depth \in {cur.depth, cur.depth + 1} /\ queue[j + 1].depth \in {cur.depth, cur.depth + 1}
      BY <1>2, <1>4, <3>1 DEF Planning, QueueInOrder
    <3> QED BY <1>4, <1>7, <3>1, <3>2, <3>3
  <2>3. \A i, j \in DOMAIN queue' : i <= j => queue'[i].depth <= queue'[j].depth
    <3> TAKE i, j \in DOMAIN queue'
    <3>1. /\ queue'[i] = queue[i + 1] /\ i + 1 \in DOMAIN queue
          /\ queue'[j] = queue[j + 1] /\ j + 1 \in DOMAIN queue
      BY <1>4
    <3>2. i <= j => i + 1 <= j + 1
      BY <1>4
    <3> QED BY <1>2, <3>1, <3>2 DEF Planning, QueueInOrder
  <2>4. Len(queue') <= Len(repos)
    BY <1>4
  <2> QED BY <1>1, <1>5, <2>1, <2>2, <2>3, <2>4 DEF QueueInOrder
<1>10. cur'.repo = repos[Taken + 1] /\ cur'.repo \in Near(links)[cur'.depth]
       /\ \A n \in Nat : n < cur'.depth => cur'.repo \notin Near(links)[n]
  BY <1>2, <1>4 DEF Planning, QueueInOrder
<1>11. LinksInHand'
  BY <1>1, <1>5, <1>10 DEF LinksInHand
<1>12. Layered'
  <2>1. cur'.depth \in {cur.depth, cur.depth + 1}
    BY <1>2, <1>4 DEF Planning, QueueInOrder
  <2>2. CASE cur'.depth = cur.depth
    BY <1>1, <1>2, <1>3, <1>10, <2>2 DEF Planning, Layered
  <2>3. CASE cur'.depth = cur.depth + 1
    <3>1. /\ Reached \subseteq Near(links)[cur.depth + 1] /\ Near(links)[cur.depth] \subseteq Reached
          /\ Reached \subseteq Near(links)[budget.maxDepth]
      BY <1>2 DEF Planning, Layered
    <3>2. Near(links)[cur'.depth] \subseteq Near(links)[cur'.depth + 1]
      BY <1>6, <1>7, NearMonotone
    <3>3. ASSUME NEW s \in Near(links)[cur.depth + 1], s \notin Reached PROVE FALSE
      <4>1. s \notin Near(links)[cur.depth]
        BY <3>1, <3>3
      <4>2. PICK l \in 1..NumLinks, r \in Near(links)[cur.depth] :
                   Leads(links, l, r) /\ s = Other(links, l, r)
        BY <1>6, <1>7, <3>3, <4>1, NearGrows
      <4>3. PICK i \in 1..Len(repos) : repos[i] = r
        BY <1>2, <3>1, PlaceBehind
      <4>4. r \in Near(links)[budget.maxDepth - 1]
        <5>1. budget.maxDepth - 1 \in Nat /\ cur.depth <= budget.maxDepth - 1
          BY <1>6, <1>7, <2>3
        <5> QED BY <1>6, <1>7, <5>1, NearMonotone
      <4>5. \A j \in 1..Len(repos) : repos[j] # s
        BY <1>4, <3>3 DEF Reached, Range
      <4>6. <<i, l>> \in Openings(links, budget, repos, Len(repos))
        BY <4>2, <4>3, <4>4, <4>5 DEF Openings
      <4>7. i > Taken
        BY <1>1, <1>2, <4>6 DEF Planning, AllFollowed
      <4>8. i - Taken \in DOMAIN queue /\ Taken + (i - Taken) = i /\ 1 <= i - Taken
        BY <1>4, <1>5, <4>7 DEF Taken
      <4>9. queue[i - Taken].repo = r
        BY <1>2, <4>3, <4>8 DEF Planning, QueueInOrder
      <4>10. cur.depth + 1 <= queue[i - Taken].depth
        BY <1>2, <1>4, <2>3, <4>8 DEF Planning, QueueInOrder
      <4>11. cur.depth < queue[i - Taken].depth
        BY <1>7, <4>8, <4>10
      <4> QED BY <1>2, <1>7, <4>2, <4>8, <4>9, <4>11 DEF Planning, QueueInOrder
    <3> QED BY <1>1, <1>3, <1>10, <2>3, <3>1, <3>2, <3>3 DEF Layered
  <2> QED BY <2>1, <2>2, <2>3
<1>13. InOrderFound(links, budget, repos)'
  BY <1>1, <1>2 DEF Planning
<1>14. AllFollowed'
  <2>1. SUFFICES ASSUME NEW c \in Openings(links, budget, repos, Len(repos))
                 PROVE  c[1] > Taken + 1 \/ (c[1] = Taken + 1 /\ c[2] \in outgoing')
    BY <1>1, <1>3, <1>5, Zenon DEF AllFollowed
  <2>2. c[1] > Taken /\ c[1] \in Nat /\ c[2] \in 1..NumLinks
    BY <1>1, <1>2, <1>4, <2>1 DEF Planning, AllFollowed, Openings
  <2>3. ASSUME c[1] = Taken + 1 PROVE c[2] \in outgoing'
    <3>1. Leads(links, c[2], cur'.repo) /\ cur'.repo \in Near(links)[budget.maxDepth - 1]
      BY <1>10, <2>1, <2>3 DEF Openings
    <3>2. ~(budget.maxDepth - 1 < cur'.depth)
      <4>1. budget.maxDepth - 1 \in Nat
        BY <1>6
      <4> QED BY <1>10, <3>1, <4>1
    <3>3. cur'.depth < budget.maxDepth
      BY <1>6, <1>7, <3>2
    <3> QED BY <1>1, <2>2, <3>1, <3>3 DEF Leads
  <2> QED BY <1>5, <2>2, <2>3
<1>15. UnitsGiven' /\ UnitsCounted'
  BY <1>1, <1>3 DEF CrossInv, UnitsGiven, UnitsCounted
<1>16. step = "plan" => (\E R : Complete(links, budget, R) /\ Range(R) = {Primary} \cup AskedFor)'
  BY <1>1, <1>3, Zenon DEF CrossInv
<1>17. step = "preview" => AskedFor' = {}
  BY <1>3 DEF CrossInv
<1>18. Planning'
  BY <1>9, <1>11, <1>12, <1>13, <1>14 DEF Planning
<1> QED BY <1>1, <1>8, <1>15, <1>16, <1>17, <1>18, Zenon DEF CrossInv

LEMMA CrossDiscovered ==
  ASSUME CrossInv, NEW l \in 1..NumLinks, Discover(l)
  PROVE  CrossInv'
<1> DEFINE next == Across(l, cur.repo)
           node == [repo |-> next, depth |-> cur.depth + 1]
           n == Len(repos)
<1>1. /\ step \in {"preview", "plan"} /\ l \in outgoing /\ (\A k \in outgoing : l <= k)
      /\ outgoing' = outgoing \ {l}
      /\ links' = links /\ budget' = budget /\ step' = step /\ cur' = cur
      /\ tree' = tree /\ rebuilt' = rebuilt /\ joined' = joined
      /\ repos' = Append(repos, next) /\ queue' = Append(queue, node)
      /\ next \notin Reached /\ ~Full /\ ~Blocked(l, cur.repo)
  BY DEF Discover, FollowLink, givenVars, afterVars
<1>2. \/ /\ Cardinality(units) >= budget.maxExtraUnits \/ tree[next] # "here"
         /\ reasons' = reasons \cup {next} /\ units' = units
      \/ /\ ~(Cardinality(units) >= budget.maxExtraUnits) /\ tree[next] = "here"
         /\ units' = units \cup {next} /\ reasons' = reasons
  BY DEF Discover
<1>3. Planning /\ RepoTypeOK /\ Here' = Here /\ AskedFor' = AskedFor /\ Nodes' = Nodes
  BY <1>1 DEF CrossInv, Here, AskedFor, Nodes
<1>4. /\ Taken \in 1..n /\ repos[Taken] = cur.repo
      /\ cur.depth \in Nat /\ cur.depth + 1 <= budget.maxDepth
      /\ cur.repo \in Near(links)[budget.maxDepth - 1]
      /\ next \in AllRepos /\ Leads(links, l, cur.repo)
      /\ next = Other(links, l, cur.repo)
  BY <1>1, <1>3, HandNear, LinksLead
<1>5. /\ links \in AllLinks /\ budget.maxRepos \in Nat /\ budget.maxDepth \in Nat
      /\ NumLinks \in Nat
  BY <1>3, GivenTypes
<1>6. next \in LinkedRepos /\ next # Primary
  BY <1>1, <1>3, <1>4, PrimaryIsFound DEF Planning, AllRepos
<1>7. node \in Nodes /\ node.repo = next /\ node.depth = cur.depth + 1
  BY <1>4, <1>5 DEF Nodes
<1> HIDE DEF next, node
<1>8. /\ repos \in Seq(AllRepos) /\ queue \in Seq(Nodes) /\ n \in Nat /\ Len(queue) \in Nat
      /\ repos' \in Seq(AllRepos) /\ queue' \in Seq(Nodes)
      /\ Len(repos') = n + 1 /\ Len(queue') = Len(queue) + 1
      /\ repos'[n + 1] = next /\ queue'[Len(queue) + 1] = node
      /\ (\A i \in 1..n : repos'[i] = repos[i])
      /\ (\A i \in 1..Len(queue) : queue'[i] = queue[i])
      /\ Len(queue) <= n
  BY <1>1, <1>3, <1>4, <1>7 DEF RepoTypeOK, Planning, QueueInOrder
<1>9. Taken' = Taken /\ n < budget.maxRepos
  BY <1>1, <1>4, <1>5, <1>8 DEF Taken, Full
<1>10. Reached' = Reached \cup {next}
  <2>1. Reached = {repos[i] : i \in 1..n} /\ Reached' = {repos'[i] : i \in 1..(n + 1)}
    <3>1. DOMAIN repos = 1..n /\ DOMAIN repos' = 1..(n + 1)
      BY <1>8
    <3> QED BY <3>1 DEF Reached, Range
  <2>2. ASSUME NEW i \in 1..(n + 1) PROVE repos'[i] \in Reached \cup {next}
    BY <1>8, <2>1
  <2>3. ASSUME NEW s \in Reached PROVE s \in Reached'
    <3>1. PICK i \in 1..n : repos[i] = s
      BY <2>1
    <3> QED BY <1>8, <2>1, <3>1
  <2>4. next \in Reached'
    BY <1>8, <2>1
  <2> QED BY <2>1, <2>2, <2>3, <2>4
<1>11. \A i \in 1..n : repos[i] \in Reached
  BY <1>8 DEF Reached, Range
<1>12. IsInjective(repos')
  <2>1. \A i, j \in 1..n : repos[i] = repos[j] => i = j
    BY <1>3, <1>8 DEF RepoTypeOK, IsInjective
  <2>2. \A i \in 1..n : repos[i] # next
    BY <1>1, <1>11
  <2>3. DOMAIN repos' = 1..(n + 1)
    BY <1>8
  <2> QED BY <1>8, <2>1, <2>2, <2>3 DEF IsInjective
<1>13. RepoTypeOK'
  <2>1. units' \subseteq LinkedRepos /\ reasons' \subseteq LinkedRepos
    BY <1>2, <1>3, <1>6 DEF RepoTypeOK
  <2> QED BY <1>1, <1>3, <1>8, <1>12, <2>1 DEF RepoTypeOK
<1>14. QueueInOrder'
  <2>1. node.repo \in Near(links)[node.depth]
    BY <1>1, <1>3, <1>4, <1>5, <1>7, NearGrows DEF Planning, Layered
  <2>2. \A m \in Nat : m < node.depth => node.repo \notin Near(links)[m]
    <3> SUFFICES ASSUME NEW m \in Nat, m < node.depth PROVE next \notin Near(links)[m]
      BY <1>7
    <3>1. m <= cur.depth
      BY <1>4, <1>7
    <3>2. Near(links)[m] \subseteq Near(links)[cur.depth]
      BY <1>4, <1>5, <3>1, NearMonotone
    <3> QED BY <1>1, <1>3, <3>2 DEF Planning, Layered
  <2>3. node.repo = repos'[Taken + (Len(queue) + 1)]
    <3>1. Taken + (Len(queue) + 1) = n + 1
      BY <1>8 DEF Taken
    <3> QED BY <1>7, <1>8, <3>1
  <2>4. \A j \in 1..Len(queue) : Taken + j \in 1..n
    BY <1>4, <1>8 DEF Taken
  <2>5. \A j \in 1..Len(queue) :
          /\ queue[j].repo = repos[Taken + j]
          /\ queue[j].depth \in {cur.depth, cur.depth + 1}
          /\ queue[j].repo \in Near(links)[queue[j].depth]
          /\ \A m \in Nat : m < queue[j].depth => queue[j].repo \notin Near(links)[m]
    BY <1>3, <1>8 DEF Planning, QueueInOrder
  <2>6. \A j \in 1..(Len(queue) + 1) : j \in 1..Len(queue) \/ j = Len(queue) + 1
    BY <1>8
  <2>7. DOMAIN queue' = 1..(Len(queue) + 1)
    BY <1>8
  <2>8. ASSUME NEW j \in DOMAIN queue'
        PROVE  /\ queue'[j].repo = repos'[Taken + j]
               /\ queue'[j].depth \in {cur.depth, cur.depth + 1}
               /\ queue'[j].repo \in Near(links)[queue'[j].depth]
               /\ \A m \in Nat : m < queue'[j].depth => queue'[j].repo \notin Near(links)[m]
    <3>1. CASE j \in 1..Len(queue)
      <4>1. queue'[j] = queue[j] /\ repos'[Taken + j] = repos[Taken + j]
        BY <1>8, <2>4, <3>1
      <4> QED BY <2>5, <3>1, <4>1
    <3>2. CASE j = Len(queue) + 1
      BY <1>7, <1>8, <2>1, <2>2, <2>3, <3>2
    <3> QED BY <2>6, <2>7, <3>1, <3>2
  <2>9. ASSUME NEW i \in DOMAIN queue', NEW j \in DOMAIN queue', i <= j
        PROVE  queue'[i].depth <= queue'[j].depth
    <3>1. CASE j = Len(queue) + 1
      <4>1. queue'[j].depth = cur.depth + 1
        BY <1>7, <1>8, <3>1
      <4> QED BY <1>4, <2>8, <4>1
    <3>2. CASE j \in 1..Len(queue)
      <4>1. i \in 1..Len(queue)
        BY <1>8, <2>7, <2>9, <3>2
      <4>2. i \in DOMAIN queue /\ j \in DOMAIN queue /\ queue'[i] = queue[i] /\ queue'[j] = queue[j]
        BY <1>8, <3>2, <4>1
      <4> QED BY <1>3, <2>9, <4>2 DEF Planning, QueueInOrder
    <3> QED BY <2>6, <2>7, <3>1, <3>2
  <2>10. Len(queue') <= Len(repos')
    BY <1>8
  <2> QED BY <1>1, <1>9, <2>8, <2>9, <2>10 DEF QueueInOrder
<1>15. LinksInHand'
  <2>1. repos'[Taken] = repos[Taken]
    BY <1>4, <1>8
  <2> QED BY <1>1, <1>3, <1>9, <2>1 DEF Planning, LinksInHand
<1>16. Layered'
  <2>1. next \in Near(links)[cur.depth + 1]
    BY <1>1, <1>3, <1>4, <1>5, <1>7, NearGrows DEF Planning, Layered
  <2>2. next \in Near(links)[budget.maxDepth]
    BY <1>4, <1>5, <2>1, NearMonotone
  <2> QED BY <1>1, <1>3, <1>10, <2>1, <2>2 DEF Planning, Layered
<1> DEFINE here == Openings(links, budget, repos, n)
<1>17. here = Openings(links, budget, repos', n)
  BY <1>8, OpeningsAgree
<1>18. \A c \in here : c[1] > Taken \/ (c[1] = Taken /\ c[2] \in outgoing)
  BY <1>1, <1>3 DEF Planning, AllFollowed
<1>19. InOrderFound(links, budget, repos)'
  <2> DEFINE e == <<Taken, l>>
  <2>1. e \in here
    <3>1. e[1] = Taken /\ e[2] = l /\ e \in (1..n) \X (1..NumLinks)
      BY <1>4
    <3>2. \A j \in 1..n : repos[j] # next
      BY <1>1, <1>11
    <3> HIDE DEF e
    <3> QED BY <1>4, <3>1, <3>2 DEF Openings
  <2>2. \A c \in here : c \in (1..n) \X (1..NumLinks)
    BY DEF Openings
  <2>3. \A c \in here : NotAfter(e, c)
    <3> TAKE c \in here
    <3>1. c[1] \in Nat /\ c[2] \in Nat /\ Taken \in Nat /\ l \in Nat
      BY <1>4, <1>5, <2>2
    <3>2. c[2] \in outgoing => l <= c[2]
      BY <1>1
    <3>3. c[1] > Taken \/ (c[1] = Taken /\ c[2] \in outgoing)
      BY <1>18
    <3>4. e[1] = Taken /\ e[2] = l
      OBVIOUS
    <3> HIDE DEF e, here
    <3> QED BY <3>1, <3>2, <3>3, <3>4 DEF NotAfter
  <2>4. IsFirst(links, budget, repos', n, e)
    BY <1>17, <2>1, <2>3 DEF IsFirst
  <2>5. repos'[n + 1] = Other(links, e[2], repos'[e[1]])
    <3>1. repos'[Taken] = cur.repo
      BY <1>4, <1>8
    <3> QED BY <1>4, <1>8, <3>1
  <2>6. ASSUME NEW k \in 1..n
        PROVE  \E c : IsFirst(links, budget, repos', k, c) /\ repos'[k + 1] = Other(links, c[2], repos'[c[1]])
    <3>1. CASE k = n
      BY <2>4, <2>5, <3>1
    <3>2. CASE k # n
      <4>1. k \in 1..(n - 1) /\ k \in Nat /\ k + 1 \in 1..n /\ \A j \in 1..k : j \in 1..n
        BY <1>8, <3>2
      <4>2. PICK c : IsFirst(links, budget, repos, k, c) /\ repos[k + 1] = Other(links, c[2], repos[c[1]])
        BY <1>3, <4>1, Zenon DEF Planning, InOrderFound, Grown
      <4>3. Openings(links, budget, repos, k) = Openings(links, budget, repos', k)
        BY <1>8, <4>1, OpeningsAgree
      <4>4. c[1] \in 1..k
        BY <4>2 DEF IsFirst, Openings
      <4>5. repos'[c[1]] = repos[c[1]] /\ repos'[k + 1] = repos[k + 1]
        BY <1>8, <4>1, <4>4
      <4>6. IsFirst(links, budget, repos', k, c)
        BY <4>2, <4>3 DEF IsFirst
      <4> QED BY <4>2, <4>5, <4>6
    <3> QED BY <3>1, <3>2
  <2>7. Grown(links, budget, repos')
    <3>1. Len(repos') - 1 = n
      BY <1>8
    <3> QED BY <2>6, <3>1, Zenon DEF Grown
  <2>8. repos'[1] = Primary /\ repos' # <<>> /\ Len(repos') <= budget.maxRepos
    <3>1. 1 \in 1..n /\ repos[1] = Primary
      BY <1>3, <1>4 DEF Planning, InOrderFound
    <3> QED BY <1>5, <1>8, <1>9, <3>1
  <2> QED BY <1>1, <1>8, <1>12, <2>7, <2>8 DEF InOrderFound
<1>20. AllFollowed'
  <2>1. SUFFICES ASSUME NEW c \in Openings(links, budget, repos', n + 1)
                 PROVE  c[1] > Taken \/ (c[1] = Taken /\ c[2] \in outgoing')
    BY <1>1, <1>8, <1>9, Zenon DEF AllFollowed
  <2>2. /\ c \in (1..(n + 1)) \X (1..NumLinks)
        /\ Leads(links, c[2], repos'[c[1]]) /\ repos'[c[1]] \in Near(links)[budget.maxDepth - 1]
        /\ \A j \in 1..(n + 1) : repos'[j] # Other(links, c[2], repos'[c[1]])
    BY <2>1 DEF Openings
  <2>3. CASE c[1] = n + 1
    BY <1>4, <2>3
  <2>4. CASE c[1] # n + 1
    <3>1. c[1] \in 1..n /\ c \in (1..n) \X (1..NumLinks) /\ \A j \in 1..n : j \in 1..(n + 1)
      BY <1>8, <2>2, <2>4
    <3>2. c \in Openings(links, budget, repos', n)
      BY <2>2, <3>1 DEF Openings
    <3>3. c[1] > Taken \/ (c[1] = Taken /\ c[2] \in outgoing)
      BY <1>17, <1>18, <3>2
    <3>4. c[1] = Taken => c[2] # l
      <4>1. SUFFICES ASSUME c[1] = Taken, c[2] = l PROVE FALSE
        OBVIOUS
      <4>2. repos'[c[1]] = cur.repo
        BY <1>4, <1>8, <4>1
      <4>3. repos'[n + 1] # Other(links, l, cur.repo)
        BY <1>8, <2>2, <4>1, <4>2
      <4> QED BY <1>4, <1>8, <4>3
    <3> QED BY <1>1, <3>3, <3>4
  <2> QED BY <2>3, <2>4
<1>21. UnitsCounted' /\ UnitsGiven'
  <2>1. /\ IsFiniteSet(units) /\ Cardinality(units) \in Nat /\ budget.maxExtraUnits \in Nat
        /\ Cardinality(units) <= budget.maxExtraUnits /\ units \subseteq Here
        /\ UnitsGiven
    BY <1>1, <1>3, GivenTypes DEF CrossInv, UnitsCounted
  <2>2. CASE reasons' = reasons \cup {next} /\ units' = units
             /\ (Cardinality(units) >= budget.maxExtraUnits \/ tree[next] # "here")
    <3>1. next \in Here => Cardinality(units) = budget.maxExtraUnits
      BY <2>1, <2>2 DEF Here
    <3> QED BY <1>1, <1>3, <1>10, <2>1, <2>2, <3>1 DEF UnitsCounted, UnitsGiven
  <2>3. CASE units' = units \cup {next} /\ reasons' = reasons /\ tree[next] = "here"
             /\ ~(Cardinality(units) >= budget.maxExtraUnits)
    <3>1. Cardinality(units') <= budget.maxExtraUnits
      <4>1. \/ Cardinality(units \cup {next}) = Cardinality(units)
            \/ Cardinality(units \cup {next}) = Cardinality(units) + 1
        BY <2>1, FS_AddElement
      <4> QED BY <2>1, <2>3, <4>1
    <3>2. (Reached \cap Here) \ units = {}
      BY <2>1, <2>3 DEF UnitsGiven
    <3>3. next \in Here
      BY <1>6, <2>3 DEF Here
    <3>4. (Reached' \cap Here) \ units' = {}
      BY <1>10, <2>3, <3>2
    <3>5. Reached' \ {Primary} \subseteq units' \cup reasons'
      BY <1>10, <2>1, <2>3 DEF UnitsGiven
    <3> QED BY <1>1, <1>3, <2>1, <2>3, <3>1, <3>3, <3>4, <3>5 DEF UnitsCounted, UnitsGiven
  <2> QED BY <1>2, <2>2, <2>3
<1>22. step = "plan" => (\E R : Complete(links, budget, R) /\ Range(R) = {Primary} \cup AskedFor)'
  BY <1>1, <1>3, Zenon DEF CrossInv
<1>23. step = "preview" => AskedFor' = {}
  BY <1>3 DEF CrossInv
<1>24. Planning'
  BY <1>14, <1>15, <1>16, <1>19, <1>20 DEF Planning
<1> QED BY <1>1, <1>13, <1>21, <1>22, <1>23, <1>24, Zenon DEF CrossInv

\* A plan that has ended is complete.
LEMMA PlanComes ==
  ASSUME CrossInv, Planning, Explored
  PROVE  Complete(links, budget, repos)
<1>1. /\ links \in AllLinks /\ budget.maxRepos \in Nat /\ budget.maxDepth \in Nat \ {0}
      /\ repos \in Seq(AllRepos) /\ queue \in Seq(Nodes) /\ cur \in Nodes /\ RepoTypeOK
  BY GivenTypes DEF CrossInv, RepoTypeOK
<1>2. cur.depth \in Nat /\ outgoing = {} /\ Len(repos) \in Nat /\ Len(queue) \in Nat
  BY <1>1 DEF Nodes, Explored
<1>3. /\ Near(links)[cur.depth] \subseteq Reached /\ Reached \subseteq Near(links)[cur.depth + 1]
      /\ Reached \subseteq Near(links)[budget.maxDepth]
  BY DEF Planning, Layered
<1>4. \A n \in 0..budget.maxDepth : Reached \subseteq Near(links)[n] \/ Near(links)[n] \subseteq Reached
  <2> TAKE n \in 0..budget.maxDepth
  <2>1. n \in Nat
    BY <1>1
  <2>2. CASE n <= cur.depth
    BY <1>1, <1>2, <1>3, <2>1, <2>2, NearMonotone
  <2>3. CASE ~(n <= cur.depth)
    <3>1. cur.depth + 1 <= n /\ cur.depth + 1 \in Nat
      BY <1>2, <2>1, <2>3
    <3> QED BY <1>1, <1>3, <2>1, <3>1, NearMonotone
  <2> QED BY <2>2, <2>3
<1>5. ASSUME Len(repos) < budget.maxRepos PROVE Openings(links, budget, repos, Len(repos)) = {}
  <2>1. ~Full /\ queue = <<>>
    BY <1>1, <1>2, <1>5 DEF Explored, Full
  <2>2. Taken = Len(repos)
    BY <1>2, <2>1 DEF Taken
  <2>3. \A c \in Openings(links, budget, repos, Len(repos)) : c[1] > Len(repos)
    BY <1>2, <2>1, <2>2 DEF Planning, AllFollowed
  <2>4. \A c \in Openings(links, budget, repos, Len(repos)) : c[1] \in 1..Len(repos)
    BY DEF Openings
  <2> QED BY <1>2, <2>3, <2>4
<1>6. ASSUME Len(repos) < budget.maxRepos PROVE Reached = Near(links)[budget.maxDepth]
  <2>1. SUFFICES ASSUME {n \in Nat : n <= budget.maxDepth /\ ~(Near(links)[n] \subseteq Reached)} # {}
                 PROVE  FALSE
    <3>1. SUFFICES Near(links)[budget.maxDepth] \subseteq Reached
      BY <1>3
    <3>2. budget.maxDepth \in Nat /\ budget.maxDepth <= budget.maxDepth
      BY <1>1
    <3> QED BY <3>2
  <2>2. PICK n \in {m \in Nat : m <= budget.maxDepth /\ ~(Near(links)[m] \subseteq Reached)} :
               \A m \in {k \in Nat : k <= budget.maxDepth /\ ~(Near(links)[k] \subseteq Reached)} : n <= m
    BY <2>1, LeastNumber
  <2>3. n # 0
    BY <2>2, PrimaryIsFound, NearOnwards DEF Planning
  <2>4. /\ n - 1 \in Nat /\ n - 1 < n /\ n - 1 <= budget.maxDepth - 1 /\ (n - 1) + 1 = n
        /\ n - 1 <= budget.maxDepth /\ budget.maxDepth - 1 \in Nat
    BY <1>1, <2>2, <2>3
  <2>5. Near(links)[n - 1] \subseteq Reached
    BY <2>2, <2>4
  <2>6. PICK s \in Near(links)[n] : s \notin Reached
    BY <2>2
  <2>7. PICK l \in 1..NumLinks, r \in Near(links)[n - 1] : Leads(links, l, r) /\ s = Other(links, l, r)
    BY <1>1, <2>4, <2>5, <2>6, NearGrows
  <2>8. PICK i \in 1..Len(repos) : repos[i] = r
    BY <1>1, <2>5, <2>7, PlaceBehind
  <2>9. r \in Near(links)[budget.maxDepth - 1]
    BY <1>1, <2>4, <2>7, NearMonotone
  <2>10. \A j \in 1..Len(repos) : repos[j] # s
    BY <1>1, <2>6 DEF Reached, Range
  <2>11. <<i, l>> \in Openings(links, budget, repos, Len(repos))
    BY <2>7, <2>8, <2>9, <2>10 DEF Openings
  <2> QED BY <1>5, <1>6, <2>11
<1>7. Nearest(links, budget, repos)
  BY <1>3, <1>4, <1>6 DEF Nearest, Reached
<1> QED BY <1>5, <1>7 DEF Complete, Planning

\* What a step does that makes no plan.
LEMMA CrossOther ==
  ASSUME CrossInv, EndPreview \/ EndMaterialize \/ Rebuild \/ EndPlan
                   \/ \E r \in LinkedRepos : Materialize(r)
  PROVE  CrossInv'
<1>1. /\ links' = links /\ budget' = budget /\ queue' = queue /\ cur' = cur /\ outgoing' = outgoing
      /\ repos' = repos /\ joined' = joined
  BY DEF EndPreview, EndMaterialize, Rebuild, EndPlan, Materialize, givenVars, foundVars, placeVars,
         afterVars
<1>2. Reached' = Reached /\ Nodes' = Nodes
  BY <1>1 DEF Reached, Nodes
<1>3. RepoTypeOK
  BY DEF CrossInv
<1>4. CASE EndPreview
  <2>1. /\ step = "preview" /\ Explored /\ step' = "materialize" /\ units' = {} /\ reasons' = {}
        /\ tree' = tree /\ rebuilt' = rebuilt /\ Here' = Here /\ AskedFor' = AskedFor
    BY <1>4 DEF EndPreview, afterVars, Here, AskedFor
  <2>2. RepoTypeOK'
    BY <1>1, <1>2, <1>3, <2>1 DEF RepoTypeOK
  <2>3. Complete(links, budget, repos)
    BY <2>1, PlanComes DEF CrossInv
  <2>4. UnitsCounted'
    BY <1>1, <1>3, <2>1, FS_EmptySet, GivenTypes DEF UnitsCounted
  <2>5. AskedFor' \subseteq Reached'
    BY <2>1 DEF CrossInv
  <2> QED BY <1>1, <2>1, <2>2, <2>3, <2>4, <2>5, Zenon DEF CrossInv
<1>5. CASE EndMaterialize
  <2>1. /\ step = "materialize" /\ Unasked = {} /\ step' = "rebuild" /\ units' = units
        /\ reasons' = reasons /\ tree' = tree /\ rebuilt' = rebuilt /\ Here' = Here /\ AskedFor' = AskedFor
    BY <1>5 DEF EndMaterialize, afterVars, foundVars, Here, AskedFor
  <2>2. RepoTypeOK'
    BY <1>1, <1>2, <1>3, <2>1 DEF RepoTypeOK
  <2>3. UnitsCounted'
    BY <1>1, <2>1 DEF UnitsCounted, CrossInv
  <2>4. Complete(links, budget, repos) /\ AskedFor \subseteq Reached /\ units = {} /\ reasons = {}
    BY <2>1 DEF CrossInv
  <2>5. Reached = {Primary} \cup AskedFor
    <3>1. Reached \subseteq AllRepos
      BY <1>3 DEF RepoTypeOK, Reached, Range
    <3>2. Primary \in Reached
      BY <2>4, PrimaryIsFound DEF Complete
    <3>3. \A r \in Reached \ {Primary} : r \in AskedFor
      BY <2>1, <3>1 DEF Unasked, AskedFor, AllRepos
    <3> QED BY <2>4, <3>2, <3>3
  <2> QED BY <1>1, <1>2, <2>1, <2>2, <2>3, <2>4, <2>5, Zenon DEF CrossInv
<1>6. CASE Rebuild
  <2>1. /\ step = "rebuild" /\ step' = "join" /\ units' = units /\ rebuilt' \subseteq Here
        /\ reasons' = reasons /\ tree' = tree /\ Here' = Here /\ AskedFor' = AskedFor
    BY <1>6 DEF Rebuild, afterVars, foundVars, Here, AskedFor
  <2>2. RepoTypeOK'
    BY <1>1, <1>2, <1>3, <2>1 DEF RepoTypeOK, Here
  <2>3. UnitsCounted'
    BY <1>1, <2>1 DEF UnitsCounted, CrossInv
  <2>4. /\ Complete(links, budget, repos) /\ AskedFor \subseteq Reached /\ units = {} /\ reasons = {}
        /\ Reached = {Primary} \cup AskedFor
    BY <2>1 DEF CrossInv
  <2> QED BY <1>1, <1>2, <2>1, <2>2, <2>3, <2>4, Zenon DEF CrossInv
<1>7. CASE EndPlan
  <2>1. /\ step = "plan" /\ Explored /\ step' = "done" /\ units' = units /\ rebuilt' = rebuilt
        /\ reasons' = reasons /\ tree' = tree /\ Here' = Here /\ AskedFor' = AskedFor
    BY <1>7 DEF EndPlan, afterVars, foundVars, Here, AskedFor
  <2>2. RepoTypeOK'
    BY <1>1, <1>2, <1>3, <2>1 DEF RepoTypeOK
  <2>3. UnitsCounted' /\ UnitsGiven'
    BY <1>1, <1>2, <2>1 DEF UnitsCounted, CrossInv, UnitsGiven
  <2>4. Complete(links, budget, repos)
    BY <2>1, PlanComes DEF CrossInv
  <2>5. \E R : Complete(links, budget, R) /\ Range(R) = {Primary} \cup AskedFor
    BY <2>1 DEF CrossInv
  <2> QED BY <1>1, <1>2, <2>1, <2>2, <2>3, <2>4, <2>5, Zenon DEF CrossInv
<1>8. ASSUME NEW r \in LinkedRepos, Materialize(r) PROVE CrossInv'
  <2>1. /\ step = "materialize" /\ step' = step /\ units' = units /\ rebuilt' = rebuilt
        /\ reasons' = reasons /\ r \in Reached
    BY <1>8 DEF Materialize, foundVars, Unasked, Reached, Range
  <2>2. PICK place \in {"here", "missing"} : tree' = [tree EXCEPT ![r] = place]
    BY <1>8 DEF Materialize
  <2>3. tree' \in [LinkedRepos -> {"unasked", "here", "missing"}]
    BY <1>3, <2>2 DEF RepoTypeOK
  <2>4. RepoTypeOK'
    BY <1>1, <1>2, <1>3, <2>1, <2>3 DEF RepoTypeOK
  <2>5. /\ Complete(links, budget, repos) /\ AskedFor \subseteq Reached /\ units = {} /\ reasons = {}
    BY <2>1 DEF CrossInv
  <2>6. AskedFor' \subseteq Reached'
    <3>1. AskedFor' \subseteq AskedFor \cup {r}
      BY <1>3, <2>2 DEF AskedFor, RepoTypeOK
    <3> QED BY <1>2, <2>1, <2>5, <3>1
  <2>7. UnitsCounted'
    BY <1>1, <1>3, <2>1, <2>5, FS_EmptySet, GivenTypes DEF UnitsCounted
  <2> QED BY <1>1, <2>1, <2>4, <2>5, <2>6, <2>7, Zenon DEF CrossInv
<1> QED BY <1>4, <1>5, <1>6, <1>7, <1>8

LEMMA CrossJoined == ASSUME CrossInv, Join PROVE CrossInv'
<1>1. /\ step = "join" /\ step' = "plan" /\ links' = links /\ budget' = budget
      /\ queue' = <<Start>> /\ cur' = Start /\ outgoing' = {} /\ repos' = <<Primary>>
      /\ units' = units /\ reasons' = reasons /\ tree' = tree /\ rebuilt' = rebuilt
      /\ joined' \subseteq 1..NumLinks /\ Here' = Here /\ AskedFor' = AskedFor /\ Nodes' = Nodes
  BY DEF Join, givenVars, Here, AskedFor, Nodes
<1>2. /\ Complete(links, budget, repos) /\ units = {} /\ reasons = {}
      /\ Reached = {Primary} \cup AskedFor /\ RepoTypeOK /\ UnitsCounted
  BY <1>1 DEF CrossInv
<1>3. /\ budget.maxRepos \in Nat \ {0} /\ budget.maxDepth \in Nat \ {0} /\ links \in AllLinks
      /\ budget.maxExtraUnits \in Nat \ {0}
  BY <1>2, GivenTypes
<1>4. Start \in Nodes /\ Start.depth = 0 /\ Start.repo = Primary /\ Primary \in AllRepos
  BY <1>3 DEF Start, Nodes, AllRepos
<1>5. /\ repos' \in Seq(AllRepos) /\ Len(repos') = 1 /\ repos'[1] = Primary /\ repos' # <<>>
      /\ Reached' = {Primary} /\ queue' \in Seq(Nodes) /\ Len(queue') = 1 /\ DOMAIN queue' = {1}
      /\ queue'[1] = Start
  BY <1>1, <1>4 DEF Reached, Range
<1>6. IsInjective(repos')
  BY <1>1 DEF IsInjective
<1>7. RepoTypeOK'
  BY <1>1, <1>2, <1>4, <1>5, <1>6 DEF RepoTypeOK
<1>8. Near(links)[0] = {Primary}
  BY NearOnwards
<1>9. \A n \in Nat : Primary \in Near(links)[n]
  BY <1>3, <1>8, NearMonotone
<1>10. Taken' = 0
  BY <1>5 DEF Taken
<1>11. QueueInOrder'
  BY <1>1, <1>4, <1>5, <1>8, <1>10 DEF QueueInOrder
<1>12. LinksInHand'
  BY <1>1 DEF LinksInHand
<1>13. Layered'
  BY <1>1, <1>3, <1>4, <1>5, <1>8, <1>9 DEF Layered
<1>14. AllFollowed'
  <2>1. \A c \in Openings(links, budget, repos', 1) : c[1] > 0
    BY DEF Openings
  <2> QED BY <1>1, <1>5, <1>10, <2>1 DEF AllFollowed
<1>15. InOrderFound(links, budget, repos)'
  <2>1. Grown(links, budget, repos')
    BY <1>5 DEF Grown
  <2> QED BY <1>1, <1>3, <1>5, <1>6, <2>1 DEF InOrderFound
<1>16. UnitsCounted' /\ UnitsGiven'
  <2>1. Primary \notin Here
    BY CrossRepoConstants DEF Here
  <2>2. Reached' \cap Here' = {} /\ Reached' \ {Primary} = {}
    BY <1>1, <1>5, <2>1
  <2> QED BY <1>1, <1>2, <2>2, Zenon DEF UnitsCounted, UnitsGiven
<1>17. \E R : Complete(links, budget, R) /\ Range(R) = {Primary} \cup AskedFor
  BY <1>2 DEF Reached
<1>18. Planning'
  BY <1>11, <1>12, <1>13, <1>14, <1>15 DEF Planning
<1> QED BY <1>1, <1>7, <1>16, <1>17, <1>18, Zenon DEF CrossInv

LEMMA CrossStutter == CrossInv /\ UNCHANGED repoVars => CrossInv'
<1> SUFFICES ASSUME CrossInv, UNCHANGED repoVars PROVE CrossInv'
  OBVIOUS
<1>1. /\ links' = links /\ budget' = budget /\ queue' = queue /\ cur' = cur /\ outgoing' = outgoing
      /\ repos' = repos /\ joined' = joined /\ units' = units /\ reasons' = reasons /\ tree' = tree
      /\ rebuilt' = rebuilt /\ step' = step
  BY DEF repoVars, givenVars, foundVars, placeVars, afterVars
<1> QED BY <1>1 DEF CrossInv, RepoTypeOK, UnitsCounted, Here, Nodes, Planning, QueueInOrder, LinksInHand,
                    Layered, AllFollowed, Taken, Full, Reached, UnitsGiven, AskedFor

LEMMA CrossStep == CrossInv /\ [RepoNext]_repoVars => CrossInv'
<1>1. ASSUME CrossInv, RepoNext PROVE CrossInv'
  BY <1>1, CrossPassed, CrossTaken, CrossDiscovered, CrossOther, CrossJoined, Zenon DEF RepoNext
<1> QED BY <1>1, CrossStutter

LEMMA FanOutFollows == CrossInv => RepoTypeOK /\ FanOutSound
<1> SUFFICES ASSUME CrossInv PROVE RepoTypeOK /\ FanOutSound
  OBVIOUS
<1>1. RepoTypeOK /\ links \in AllLinks /\ budget \in Budgets /\ Within = Near(links)
  BY GivenTypes, LinksLead DEF CrossInv
<1>2. step \in {"materialize", "rebuild", "join", "done"} => Complete(links, budget, repos)
  BY DEF CrossInv
<1>3. step \in {"preview", "plan"} => Planning
  BY DEF CrossInv
<1>4. step \in {"preview", "plan"} \/ step \in {"materialize", "rebuild", "join", "done"}
  BY <1>1 DEF RepoTypeOK
<1>5. Reached \subseteq Within[budget.maxDepth] /\ Len(repos) <= budget.maxRepos
  BY <1>1, <1>2, <1>3, <1>4 DEF Complete, Nearest, InOrderFound, Planning, Layered, Reached
<1>6. Cardinality(units) <= budget.maxExtraUnits /\ units \subseteq Here
  BY DEF CrossInv, UnitsCounted
<1>7. step \in {"materialize", "done"} =>
        /\ \A n \in 0..budget.maxDepth : Reached \subseteq Within[n] \/ Within[n] \subseteq Reached
        /\ Len(repos) < budget.maxRepos => Reached = Within[budget.maxDepth]
  BY <1>1, <1>2 DEF Complete, Nearest, Reached
<1>8. ASSUME step = "done"
      PROVE  /\ Reached = {Primary} \cup AskedFor
             /\ \A r \in Reached \ {Primary} : r \in units \cup reasons
             /\ \A r \in Here \ units : Cardinality(units) = budget.maxExtraUnits
  <2>1. Complete(links, budget, repos) /\ UnitsGiven
    BY <1>8 DEF CrossInv
  <2>2. PICK R : Complete(links, budget, R) /\ Range(R) = {Primary} \cup AskedFor
    BY <1>8 DEF CrossInv
  <2>3. R = repos
    BY <1>1, <2>1, <2>2, PlansAgree
  <2>4. Reached = {Primary} \cup AskedFor
    BY <2>2, <2>3 DEF Reached
  <2>5. Here \subseteq Reached
    BY <2>4 DEF Here, AskedFor
  <2> QED BY <2>1, <2>4, <2>5 DEF UnitsGiven
<1> QED BY <1>1, <1>5, <1>6, <1>7, <1>8 DEF FanOutSound, AskedFor

\* For every number of links and every budget, whatever cannot be cloned, rebuilt or joined:
\* what is found is what lies nearest, the second plan finds what the first one found, and
\* each repository found has a unit or a reason (planCrossRepoFanOut in fanout.ts).
THEOREM FanOutIsSound == RepoSpec => [](RepoTypeOK /\ FanOutSound)
<1>1. RepoSpec => []CrossInv
  BY CrossStart, CrossStep, PTL DEF RepoSpec
<1> QED BY <1>1, FanOutFollows, PTL

(***************************************************************************)
(* All of them side by side.                                               *)
(***************************************************************************)
\* Linked repositories and the noise stack start where their own specifications do only
\* when they are the part that runs.
ServicesInv ==
  /\ part \in Parts
  /\ PublishInv /\ DeliveryInv /\ RowsInv /\ Counted /\ VerdictInv
  /\ MemoryInv /\ JobInv /\ SeatInv /\ KeptInv /\ CountsInv /\ MergeInv /\ SectionInv
  /\ IF part = "noise" THEN NoiseInv ELSE ~judged
  /\ part = "linked" => CrossInv

LEMMA ServicesStart == MCInit => ServicesInv
<1> SUFFICES ASSUME MCInit PROVE ServicesInv
  OBVIOUS
<1>1. part \in Parts /\ PublishInv /\ DeliveryInv
  BY PublishStart, DeliveryStart DEF MCInit
<1>2. RowsInv /\ Counted /\ VerdictInv
  BY RowsStart, VerdictStart, LifecycleConstants DEF MCInit, Counted, FindingInit
<1>3. MemoryInv /\ JobInv /\ MergeInv /\ SectionInv
  BY MemoryStart, JobStart, MergeStart, SectionStart DEF MCInit
<1>4. SeatInv /\ KeptInv /\ CountsInv
  BY SeatInit, KeptInit, CountsInit DEF MCInit
<1>5. IF part = "noise" THEN NoiseInv ELSE ~judged
  BY NoiseStart DEF MCInit
<1>6. part = "linked" => CrossInv
  BY CrossStart DEF MCInit
<1> QED BY <1>1, <1>2, <1>3, <1>4, <1>5, <1>6 DEF ServicesInv

LEMMA ServicesStep ==
  ASSUME ServicesInv, MCNext \/ UNCHANGED <<part, publishVars, webhookVars, findingVars, verifierVars,
                                            noiseVars, outcomeVars, configVars, repoVars, memberVars,
                                            mergeVars, settingsVars>>
  PROVE  ServicesInv'
<1>1. part' = part /\ [PublishNext]_publishVars /\ [WebhookNext]_webhookVars
  BY DEF MCNext
<1>2. [FindingNext]_findingVars /\ [VerifierNext]_verifierVars
  BY DEF MCNext
<1>3. [OutcomeNext]_outcomeVars /\ [ConfigNext]_configVars /\ [MembershipNext]_memberVars
  BY DEF MCNext
<1>4. [MergeNext]_mergeVars /\ [SettingsNext]_settingsVars
  BY DEF MCNext
<1>5. [NoiseNext]_noiseVars /\ [RepoNext]_repoVars /\ (part # "noise" => UNCHANGED noiseVars)
  BY DEF MCNext
<1>6. PublishInv' /\ DeliveryInv'
  BY <1>1, PublishStep, PublishStutter, DeliveryStep, DeliveryStutter DEF ServicesInv
<1>7. RowsInv' /\ Counted' /\ VerdictInv'
  BY <1>2, RowsStep, CountedStep, VerdictStep, VerdictStutter DEF ServicesInv
<1>8. MemoryInv' /\ JobInv'
  BY <1>3, MemoryStep, JobStep, JobStutter DEF ServicesInv
<1>9. SeatInv' /\ KeptInv' /\ CountsInv'
  BY <1>3, SeatNext, KeptNext, CountsNext DEF ServicesInv
<1>10. MergeInv' /\ SectionInv'
  BY <1>4, MergeStep, SectionStep, SectionStutter DEF ServicesInv
<1>11. (IF part = "noise" THEN NoiseInv ELSE ~judged)'
  <2>1. CASE part = "noise"
    BY <1>1, <1>5, <2>1, NoiseStep DEF ServicesInv
  <2>2. CASE part # "noise"
    <3>1. judged' = judged
      BY <1>5, <2>2 DEF noiseVars
    <3> QED BY <1>1, <2>2, <3>1 DEF ServicesInv
  <2> QED BY <2>1, <2>2
<1>12. (part = "linked" => CrossInv)'
  BY <1>1, <1>5, CrossStep DEF ServicesInv
<1> QED BY <1>1, <1>6, <1>7, <1>8, <1>9, <1>10, <1>11, <1>12 DEF ServicesInv

LEMMA ServicesFollow ==
  ASSUME ServicesInv
  PROVE  /\ ServicesTypeOK /\ PublicationTrue /\ DeliveryHandled /\ RowsFollowReviews /\ VerdictsLand
         /\ ReportSound /\ LearningSound /\ SettingsSound /\ MembersKept /\ SeatsRespected
         /\ part = "linked" => FanOutSound
<1>1. PublicationTrue /\ DeliveryHandled /\ PublishTypeOK /\ WebhookTypeOK
  BY PublicationTrueFollows, DeliveryHandledFollows
     DEF ServicesInv, PublishInv, DeliveryInv, ClaimInv
<1>2. RowsFollowReviews /\ VerdictsLand /\ FindingTypeOK /\ VerifierTypeOK
  BY RowsFollow, NamedRowsFollow, DropsFollow DEF ServicesInv, VerdictsLand, VerdictInv
<1>3. ReportSound /\ (part = "noise" => NoiseTypeOK)
  <2>1. CASE part = "noise"
    BY <2>1, ReportFollows DEF ServicesInv
  <2>2. CASE part # "noise"
    BY <2>2 DEF ServicesInv, ReportSound, SignalKept, NoiseBounded, ReportedOnce
  <2> QED BY <2>1, <2>2
<1>4. LearningSound /\ MergeTypeOK /\ OutcomeTypeOK
  BY MergeFollows, MemoryFollows DEF ServicesInv, LearningSound
<1>5. SettingsSound /\ ConfigTypeOK /\ SettingsTypeOK
  BY DEF ServicesInv, JobInv, SectionInv, JobsReadTheirOwn, SettingsSound
<1>6. MembersKept /\ SeatsRespected /\ MembershipTypeOK
  BY MembershipTypes DEF ServicesInv, SeatInv, KeptInv, AnswerHolds, MembersKept, Known
<1>7. part = "linked" => RepoTypeOK /\ FanOutSound
  BY FanOutFollows DEF ServicesInv
<1>8. ServicesTypeOK
  BY <1>1, <1>2, <1>3, <1>4, <1>5, <1>6, <1>7, Zenon DEF ServicesTypeOK, ServicesInv, Parts
<1> QED BY <1>1, <1>2, <1>3, <1>4, <1>5, <1>6, <1>7, <1>8

\* For the specification the run checks, and every value of the constants: the types of the
\* part that runs and the safety invariants of them all.
THEOREM ServicesAreSound ==
  ServicesSpec => [](/\ ServicesTypeOK /\ PublicationTrue /\ DeliveryHandled /\ RowsFollowReviews
                     /\ VerdictsLand /\ ReportSound /\ LearningSound /\ SettingsSound /\ MembersKept
                     /\ SeatsRespected /\ (part = "linked" => FanOutSound))
<1>1. ServicesInv /\ [MCNext]_<<part, publishVars, webhookVars, findingVars, verifierVars, noiseVars,
                               outcomeVars, configVars, repoVars, memberVars, mergeVars,
                               settingsVars>> => ServicesInv'
  BY ServicesStep
<1>2. ServicesInv =>
        /\ ServicesTypeOK /\ PublicationTrue /\ DeliveryHandled /\ RowsFollowReviews
        /\ VerdictsLand /\ ReportSound /\ LearningSound /\ SettingsSound /\ MembersKept
        /\ SeatsRespected /\ (part = "linked" => FanOutSound)
  BY ServicesFollow
<1> QED BY ServicesStart, <1>1, <1>2, PTL DEF ServicesSpec
===============================================================================
