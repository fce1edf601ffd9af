---------------------------- MODULE MCChangeSets ----------------------------
(***************************************************************************)
(* Instances of ChangeSets for TLC.                                        *)
(***************************************************************************)
EXTENDS ChangeSets, TLC

CONSTANTS t1, t2, a1, a2, x1, x2, o1, o2

Mix(c1, c2, kinds, legacy, n) ==
  [calls |-> t1 :> c1 @@ t2 :> c2, kinds |-> kinds, modes |-> {"apply_immediately"},
   legacy |-> legacy, commits |-> n, ops |-> 1, failures |-> 0]

Workloads ==
  {[Mix({"changeset", "review"}, {"changeset"}, {"update", "retire"}, {o1}, 2)
      EXCEPT !.modes = Mode],
   [Mix({"changeset", "review"}, {"forget"}, {"update"}, {o1, o2}, 2)
      EXCEPT !.modes = {"propose"}, !.ops = 2],
   Mix({"changeset", "backfill"}, {"changeset"}, {"remember", "update", "revert"}, {o1}, 2),
   Mix({"changeset"}, {"changeset"}, {"destroy", "update"}, {o1}, 3),
   [Mix({"changeset"}, {"remember", "recall"}, {"update", "retire", "restore"}, {o1}, 3)
      EXCEPT !.failures = 2],
   [Mix({"forget", "consolidate", "remember"}, {"recall", "prune", "forget entity"}, {}, {}, 4)
      EXCEPT !.failures = 2],
   [Mix({"changeset"}, {"changeset"}, {"retire", "restore"}, {o1}, 2)
      EXCEPT !.failures = 1]}
\* A client retires an observation, another restores it.
RetireRestore == {Mix({"changeset"}, {"changeset"}, {"retire", "restore"}, {o1}, 2)}

Symmetry == Permutations({a1, a2}) \cup Permutations({x1, x2})
=============================================================================
