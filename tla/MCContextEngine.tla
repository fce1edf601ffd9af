-------------------------- MODULE MCContextEngine --------------------------
(* Instances of ContextEngine for TLC.                                     *)
EXTENDS ContextEngine, TLC

CONSTANTS r1, r2, r3

Requests2 == {r1, r2}
Requests3 == {r1, r2, r3}

\* All requests name one entity.
OneEntity == [r \in Request |-> 0]

\* r1 and r3 meet in shard 0, r2 goes to shard 1.
TwoEntities == [r \in Request |-> IF r = r2 THEN 3 ELSE 2]

\* Requests for one entity, and clients, are interchangeable.
RequestSymmetry == Permutations(Request)
Symmetry == RequestSymmetry \cup Permutations(Client)
=============================================================================
