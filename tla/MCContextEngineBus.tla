------------------------- MODULE MCContextEngineBus -------------------------
(* Instances of ContextEngineBus for TLC.                                  *)
EXTENDS ContextEngineBus, TLC

CONSTANTS r1, r2, r3

Requests3 == {r1, r2, r3}

\* All requests name one entity.
OneEntity == [r \in Request |-> 0]
=============================================================================
