------------------------ MODULE MCDispatchLifecycle ------------------------
(* Small instances of DispatchLifecycle for TLC. *)
EXTENDS DispatchLifecycle, TLC

CONSTANTS t1, t2, t3, a1, g1, null

NoDeps == [t \in Tasks |-> {}]

(* t3 depends on t1 and t2. *)
JoinDeps == [t \in Tasks |-> IF t = t3 THEN {t1, t2} ELSE {}]

(* The two dependencies of JoinDeps can be told apart by nothing. *)
Interchangeable == Permutations({t1, t2})
=============================================================================
