------------------------------- MODULE MCUnits -------------------------------
(***************************************************************************)
(* Small instances of three modules about the work on units, checked in    *)
(* one configuration.  They share no state: part names the one that runs,  *)
(* and the others rest in a state they reach by themselves, in which       *)
(* nothing that is fair can happen.                                        *)
(***************************************************************************)
EXTENDS SelfHeal, UnitRoles, GraphBridge

VARIABLE part

\* Batches of three and two paths.
Batches == {<<1, 3>>, <<4, 5>>}

\* All units are completed.
HealRests ==
  /\ status = [u \in Units |-> IF u \in Planned THEN "completed" ELSE "absent"]
  /\ attempt = [u \in Units |-> IF u \in Planned THEN 1 ELSE 0]
  /\ used = [u \in Units |-> {}] /\ gaps = {} /\ session = "completed" /\ fixed = Paths

\* All roles have answered.
RolesRest ==
  /\ place = [r \in Roles |-> "settled"] /\ active = 0 /\ tools = "loaded" /\ toolsRequired = TRUE
  /\ httpCalls = [r \in Roles |-> 0] /\ answer = [r \in Roles |-> "clean"]
  /\ ledger = [x \in Roles \X {"deep", "simple"} |-> IF x[2] = "deep" THEN "ok" ELSE "none"]
  /\ abandoned = {} /\ unitEnd = "completed"

\* Nobody has called the bridge.
BridgeRests == BridgeInit

MCInit ==
  \/ part = "heal" /\ Init /\ RolesRest /\ BridgeRests
  \/ part = "roles" /\ HealRests /\ RolesInit /\ BridgeRests
  \/ part = "bridge" /\ HealRests /\ RolesRest /\ BridgeInit

MCNext ==
  /\ UNCHANGED part
  /\ \/ part = "heal" /\ Next /\ UNCHANGED <<roleVars, bridgeVars>>
     \/ part = "roles" /\ RolesNext /\ UNCHANGED <<vars, bridgeVars>>
     \/ part = "bridge" /\ BridgeNext /\ UNCHANGED <<vars, roleVars>>

UnitsSpec ==
  /\ MCInit /\ [][MCNext]_<<part, vars, roleVars, bridgeVars>>
  /\ Fairness /\ RolesFairness /\ BridgeFairness

\* The types of the three modules, the limit on a unit's attempts among them.
UnitsTypeOK == TypeOK /\ RolesTypeOK /\ BridgeTypeOK
=============================================================================
