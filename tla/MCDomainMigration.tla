------------------------- MODULE MCDomainMigration -------------------------
(***************************************************************************)
(* Instances of DomainMigration for TLC: two entities that share a domain  *)
(* of one and not of two, and a third that is always with the first.       *)
(***************************************************************************)
EXTENDS DomainMigration, TLC

CONSTANTS a, b, c, fa, fb, t1, t2, t3

Owners  == fa :> a @@ fb :> b
Apart   == <<a :> 1 @@ b :> 1 @@ c :> 1, a :> 1 @@ b :> 2 @@ c :> 1>>

Mix(c1, c2, c3, requests, domains, n, f) ==
  [calls |-> t1 :> c1 @@ t2 :> c2 @@ t3 :> c3, requests |-> requests,
   domains |-> domains, writes |-> n, failures |-> f]
Pair       == {r \in Request : c \notin {r.entity, r.target}}
Related    == {r \in Pair : r.target # r.entity}
FromA      == {r \in Request : /\ r.entity = a /\ r.target # a
                               /\ r.fact = NoFact \/ r.target = NoEntity}
RelationsA == {r \in Related : r.fact = NoFact /\ r.entity = a}
\* A flusher beside two callers that relate and forget the same entities; one
\* caller whose forget fails and who relates by what it has left; a recall
\* beside everything that removes, and beside a second writer; all the sizes a
\* migration can change, with two faults in it, also of a profile whose flusher
\* crashed.
Workloads == {
  Mix({"remember"}, {"add_relation"}, {"forget_entity"}, RelationsA, {2}, 2, 1),
  Mix({}, {"remember", "add_relation", "forget_entity"}, {}, FromA, {2}, 4, 1),
  Mix({"remember"}, {"add_relation"}, {"forget_entity"}, Pair, {2}, 2, 0),
  Mix({}, {"remember", "forget", "tidy"}, {"recall"}, Related, {2}, 3, 1),
  Mix({}, {"remember", "add_relation", "forget_entity"}, {}, Related, {1, 2}, 2, 2),
  Mix({"remember"}, {"remember", "recall"}, {}, Pair, {2}, 2, 0),
  Mix({"remember"}, {}, {}, Related, {1, 2}, 1, 2)}
=============================================================================
