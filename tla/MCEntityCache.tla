--------------------------- MODULE MCEntityCache ---------------------------
(***************************************************************************)
(* Instances of EntityCache for TLC, on one row.  Two free tasks meet the  *)
(* races of two calls; three calls of the helpers let one fill the cache   *)
(* while a second loads and a third comes.  Each may hold an instance, the *)
(* cache may hold another, and five names leave one for a new instance.    *)
(***************************************************************************)
EXTENDS EntityUpdates, TLC

CONSTANTS t1, t2, t3, i1, o1, o2, o3, o4, o5

ThreeTasks == {t1, t2, t3}
TwoTasks == {t1, t2}
OneId == {i1}
FiveObjects == {o1, o2, o3, o4, o5}

Interchangeable == Permutations(FiveObjects) \cup Permutations(TwoTasks)
=============================================================================
