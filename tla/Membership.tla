------------------------------ MODULE Membership ------------------------------
(***************************************************************************)
(* The members of an organisation and the invitations to it                *)
(* (packages/api/src/tenancy/).  TenancyStore writes each change to        *)
(* Postgres and then to a file, which it reads and writes as a whole; it   *)
(* reads Postgres, and the file where Postgres fails or has no row.  A     *)
(* statement that fails is logged and the file written all the same        *)
(* (STEW_REQUIRE_PG_TENANCY unset).  Requests count the seats of the plan  *)
(* before they take one.  Roles, who may ask for what, and deployments     *)
(* whose members are kept in Keycloak are left out.                        *)
(***************************************************************************)
EXTENDS Naturals, FiniteSets

CONSTANTS
  Users,      \* people who are members or may be
  Founders,   \* members at the start
  Invitees,   \* people with an open invitation at the start
  MaxSeats,   \* the plan's seats
  NumCalls,   \* bound: how many requests are made
  MaxFailures \* bound: how many statements fail

ASSUME MembershipConstants ==
  /\ IsFiniteSet(Users) /\ Users # {} /\ Founders \subseteq Users /\ Invitees \subseteq Users
  /\ MaxSeats \in Nat \ {0} /\ Cardinality(Founders) <= MaxSeats
  /\ NumCalls \in Nat /\ MaxFailures \in Nat

Calls == 1..NumCalls
Kinds == {"put", "remove", "invite", "accept", "provision"}

VARIABLES
  members,     \* organization_members in Postgres
  file,        \* members.json
  inviteRows,  \* org_invitations in Postgres
  inviteFile,  \* invitations.json
  kind, about, \* what each request asks for, and about whom
  pc,          \* where it is
  read,        \* what it read: members for a count of seats, or the file
  failures,    \* how many statements have failed
  \* History, for the properties.
  promised,    \* what the last request about a user was told, unless several overlapped
  contended,   \* requests that overlapped one about the same user
  missed,      \* users whose last statement failed
  clobbered,   \* users whose entry in the file another user's request changed
  unseated     \* how many requests added a member when there were more than they had counted

requestVars == <<kind, about>>
inviteVars == <<inviteRows, inviteFile>>
historyVars == <<promised, contended, missed, clobbered, unseated>>
memberVars == <<members, file, inviteVars, requestVars, pc, read, failures, historyVars>>

Invitation == {"none", "open", "accepted"}

MembershipTypeOK ==
  /\ members \subseteq Users /\ file \subseteq Users
  /\ inviteRows \in [Users -> Invitation] /\ inviteFile \in [Users -> Invitation]
  /\ kind \in [Calls -> Kinds \cup {"none"}] /\ about \in [Calls -> Users]
  /\ pc \in [Calls -> {"unsent", "look", "seats", "row", "readFile", "writeFile",
                       "inviteRow", "inviteFile", "find", "mark", "findFile", "ended"}]
  /\ read \in [Calls -> SUBSET Users] /\ failures \in 0..MaxFailures
  /\ promised \in [Users -> {"in", "out", "open"}]
  /\ contended \subseteq Calls /\ unseated \in 0..NumCalls
  /\ missed \subseteq Users /\ clobbered \subseteq Users

MembershipInit ==
  /\ members = Founders /\ file = Founders
  /\ inviteRows = [u \in Users |-> IF u \in Invitees THEN "open" ELSE "none"]
  /\ inviteFile = inviteRows
  /\ kind = [c \in Calls |-> "none"] /\ about = [c \in Calls |-> CHOOSE u \in Users : TRUE]
  /\ pc = [c \in Calls |-> "unsent"] /\ read = [c \in Calls |-> {}] /\ failures = 0
  /\ promised = [u \in Users |-> IF u \in Founders THEN "in" ELSE "out"]
  /\ contended = {} /\ missed = {} /\ clobbered = {} /\ unseated = 0

Move(c, place) == pc' = [pc EXCEPT ![c] = place]
Fails == failures < MaxFailures /\ failures' = failures + 1
Known(u) == u \in members \cup file

(***************************************************************************)
(* The routes.  A Slip_ operator is a plausible bug in the definition      *)
(* after it.                                                               *)
(***************************************************************************)
\* A request comes in: an administrator sets or removes a member or invites one, a user
\* accepts an invitation whose token was handed out, or the identity provider adds a member.
\* Nobody is invited twice.
Ask(c) ==
  /\ pc[c] = "unsent" /\ \A d \in 1..(c - 1) : pc[d] # "unsent"
  /\ \E u \in Users :
       /\ about' = [about EXCEPT ![c] = u]
       /\ \/ kind' = [kind EXCEPT ![c] = "put"] /\ Move(c, "look")
          \/ kind' = [kind EXCEPT ![c] = "remove"] /\ Move(c, "row")
          \/ kind' = [kind EXCEPT ![c] = "provision"] /\ Move(c, "row")
          \/ /\ inviteRows[u] = "none" /\ inviteFile[u] = "none"
             /\ \A d \in Calls : kind[d] # "invite" \/ about[d] # u
             /\ kind' = [kind EXCEPT ![c] = "invite"] /\ Move(c, "seats")
          \/ /\ inviteFile[u] # "none"
             /\ kind' = [kind EXCEPT ![c] = "accept"] /\ Move(c, "find")
  /\ UNCHANGED <<members, file, inviteVars, read, failures, historyVars>>

\* Who is a member already takes no seat.
LookMember(c) ==
  /\ pc[c] = "look"
  /\ \/ UNCHANGED failures /\ Move(c, IF Known(about[c]) THEN "row" ELSE "seats")
     \/ Fails /\ Move(c, IF about[c] \in file THEN "row" ELSE "seats")
  /\ UNCHANGED <<members, file, inviteVars, requestVars, read, historyVars>>

Slip_SeatFree(counted) == Cardinality(counted) <= MaxSeats
SeatFree(counted) == Cardinality(counted) + 1 <= MaxSeats

\* requireOrgSeatAvailable.
CountSeats(c) ==
  /\ pc[c] = "seats"
  /\ \/ UNCHANGED failures /\ read' = [read EXCEPT ![c] = members]
     \/ Fails /\ read' = [read EXCEPT ![c] = file]
  /\ Move(c, CASE ~SeatFree(read'[c]) -> "ended"
              [] SeatFree(read'[c]) /\ kind[c] = "invite" -> "inviteRow"
              [] OTHER -> "row")
  /\ UNCHANGED <<members, file, inviteVars, requestVars, historyVars>>

(***************************************************************************)
(* upsertMember and removeMember.                                          *)
(***************************************************************************)
With(c, before) ==
  IF kind[c] = "remove" THEN before \ {about[c]} ELSE before \cup {about[c]}

Updating(u) == {d \in Calls : about[d] = u /\ pc[d] \in {"readFile", "writeFile"}}

\* The statement on organization_members; if it fails it may have been carried out.
ChangeRow(c) ==
  LET u == about[c] IN
  /\ pc[c] = "row" /\ Move(c, "readFile")
  /\ \/ members' = With(c, members) /\ missed' = missed \ {u} /\ UNCHANGED failures
     \/ Fails /\ members' \in {members, With(c, members)} /\ missed' = missed \cup {u}
  /\ promised' = [promised EXCEPT ![u] = "open"]
  /\ contended' = contended \cup (IF Updating(u) = {} THEN {} ELSE Updating(u) \cup {c})
  /\ unseated' = IF members' \subseteq members \/ Cardinality(members) <= Cardinality(read[c])
                 THEN unseated ELSE unseated + 1
  /\ UNCHANGED <<file, inviteVars, requestVars, read, clobbered>>

\* The file is read ...
ReadFile(c) ==
  /\ pc[c] = "readFile" /\ Move(c, "writeFile") /\ read' = [read EXCEPT ![c] = file]
  /\ UNCHANGED <<members, file, inviteVars, requestVars, failures, historyVars>>

Slip_Rewritten(c) == IF kind[c] = "remove" THEN file ELSE With(c, read[c])
Rewritten(c) == With(c, read[c])

\* ... and written as a whole, and the request is answered.
WriteFile(c) ==
  LET u == about[c] IN
  /\ pc[c] = "writeFile" /\ Move(c, "ended")
  /\ file' = Rewritten(c)
  /\ clobbered' = (clobbered \ {u}) \cup {v \in Users \ {u} : v \in file <=> v \notin file'}
  /\ promised' = [promised EXCEPT ![u] = CASE c \in contended -> "open"
                                          [] c \notin contended /\ kind[c] = "remove" -> "out"
                                          [] OTHER -> "in"]
  /\ read' = [read EXCEPT ![c] = {}] /\ contended' = contended \ {c}
  /\ UNCHANGED <<members, inviteVars, requestVars, failures, missed, unseated>>

(***************************************************************************)
(* Invitations.  Their file is read and written in one step.               *)
(***************************************************************************)
\* createInvitation.
StoreInvitation(c) ==
  /\ pc[c] = "inviteRow" /\ Move(c, "inviteFile")
  /\ \/ inviteRows' = [inviteRows EXCEPT ![about[c]] = "open"] /\ UNCHANGED failures
     \/ Fails /\ UNCHANGED inviteRows
  /\ UNCHANGED <<members, file, inviteFile, requestVars, read, historyVars>>

FileInvitation(c) ==
  /\ pc[c] = "inviteFile" /\ Move(c, "ended")
  /\ inviteFile' = [inviteFile EXCEPT ![about[c]] = "open"]
  /\ UNCHANGED <<members, file, inviteRows, requestVars, read, failures, historyVars>>

\* acceptInvitation: the row is read.  It may have expired, or have been used.
FindInvitation(c) ==
  /\ pc[c] = "find"
  /\ \/ /\ UNCHANGED failures
        /\ \/ inviteRows[about[c]] = "none" /\ Move(c, "findFile")
           \/ inviteRows[about[c]] = "open" /\ Move(c, "mark")
           \/ inviteRows[about[c]] # "none" /\ Move(c, "ended")
     \/ Fails /\ Move(c, "findFile")
  /\ UNCHANGED <<members, file, inviteVars, requestVars, read, historyVars>>

\* It is marked as accepted, whatever it is by now.
MarkInvitation(c) ==
  /\ pc[c] = "mark"
  /\ \/ /\ inviteRows' = [inviteRows EXCEPT ![about[c]] = "accepted"]
        /\ Move(c, "row") /\ UNCHANGED failures
     \/ /\ Fails /\ Move(c, "findFile")
        /\ inviteRows' \in {inviteRows, [inviteRows EXCEPT ![about[c]] = "accepted"]}
  /\ UNCHANGED <<members, file, inviteFile, requestVars, read, historyVars>>

\* Where Postgres fails or has no row the file decides.
FindInFile(c) ==
  /\ pc[c] = "findFile"
  /\ \/ /\ inviteFile[about[c]] = "open"
        /\ Move(c, "row") /\ inviteFile' = [inviteFile EXCEPT ![about[c]] = "accepted"]
     \/ Move(c, "ended") /\ UNCHANGED inviteFile
  /\ UNCHANGED <<members, file, inviteRows, requestVars, read, failures, historyVars>>

\* The process dies in the middle of a request.
Die(c) ==
  /\ pc[c] \notin {"unsent", "ended"} /\ Fails /\ Move(c, "ended")
  /\ UNCHANGED <<members, file, inviteVars, requestVars, read, historyVars>>

MembershipNext ==
  \E c \in Calls :
    \/ Ask(c) \/ LookMember(c) \/ CountSeats(c)
    \/ ChangeRow(c) \/ ReadFile(c) \/ WriteFile(c)
    \/ StoreInvitation(c) \/ FileInvitation(c)
    \/ FindInvitation(c) \/ MarkInvitation(c) \/ FindInFile(c)
    \/ Die(c)

MembershipSpec == MembershipInit /\ [][MembershipNext]_memberVars

(***************************************************************************)
(* Properties                                                              *)
(***************************************************************************)
\* What an answer said of a member holds until another request about the same user: who was
\* added is known unless the statement failed and another request's copy of the file
\* overwrote the entry too, and who was removed is unknown unless one of the two happened
\* (getMembership falls through from Postgres to the file, orgs.ts).
MembersKept ==
  \A u \in Users :
    /\ promised[u] = "in" => Known(u) \/ u \in missed \cap clobbered
    /\ promised[u] = "out" => ~Known(u) \/ u \in missed \cup clobbered

\* There are more members than seats only by requests that added one without a count of
\* their own that still held: invitations that were accepted, members the identity
\* provider added, and requests that were overtaken (license.ts, routes.ts).
SeatsRespected == Cardinality(members) <= MaxSeats + unseated
===============================================================================
