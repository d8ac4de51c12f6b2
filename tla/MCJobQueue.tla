----------------------------- MODULE MCJobQueue -----------------------------
(* Small instances of JobQueue: two workers, two or three jobs. *)
EXTENDS JobQueue

CONSTANTS w1, w2

MCWorkers == {w1, w2}
AnyOrg == [w \in MCWorkers |-> Jobs]
\* w1 serves both tenants, w2 only the tenant of job 1.
TwoOrgs == [w \in MCWorkers |-> IF w = w1 THEN Jobs ELSE {1}]
=============================================================================
