----------------------------- MODULE DomainProofs -----------------------------
(***************************************************************************)
(* Theorems about a partitioned profile (DomainStore) and its migration    *)
(* (DomainMigration): for every set of entities, facts and threads, every  *)
(* placement of entities in domains, and wherever commits fail, sweeps     *)
(* stop and processes end.                                                 *)
(***************************************************************************)
EXTENDS DomainMigration, TLAPS

-----------------------------------------------------------------------------
(* The inductive invariants. *)

Rows  == UNION {[S -> {"canonical", "stub"}] : S \in SUBSET Entity}
Shelf == [rows : Rows, facts : SUBSET Fact, edges : SUBSET Edge]
Job   == [req : Request \cup {<<>>}, at : Nat, gone : SUBSET Fact, entity : Entity \cup {NoEntity},
          left : SUBSET Nat, version : Nat, hits : SUBSET Fact, acked : SUBSET Fact]

\* A store that belongs to domain d of k, but for the rows of X: see CanonicalAtHome.
AtHome(s, k, d, X) ==
  /\ \A e \in DOMAIN s.rows \ X : s.rows[e] = IF Home[k][e] = d THEN "canonical" ELSE "stub"
  /\ \A f \in s.facts : Home[k][FactOf[f]] = d /\ FactOf[f] \in DOMAIN s.rows
  /\ \A x \in s.edges : x[1] \in DOMAIN s.rows /\ x[2] \in DOMAIN s.rows
Partitioned(x, X) ==
  /\ x = [k |-> x.k, stores |-> x.stores] /\ x.k \in DOMAIN Home
  /\ x.stores \in [1..x.k -> Shelf]
  /\ \A d \in 1..x.k : AtHome(x.stores[d], x.k, d, X)

\* What a thread has in hand at a step.
Proper(l, j) ==
  /\ l = "idle" => j = NoJob
  /\ l \in {"mirror", "home"} => /\ j.req \in Request /\ j.req # <<>> /\ j.at \in Domain
                                 /\ j.req.fact # NoFact => j.at = HomeOf(j.req.entity)
  /\ l = "mirror" => Crosses(j.req, j.at)
  /\ l = "sweep" => j.entity \in Entity /\ j.at \in Domain /\ j.at \notin j.left
  /\ l \notin {"mirror", "home", "bump"} => j.req = <<>>
  /\ l \notin {"sweep", "bump"} => j.entity = NoEntity
  /\ l \notin {"sweep", "tidy", "fan"} => j.left = {}
  /\ j.left \subseteq Domain
BaseInv ==
  /\ Partitioned(db, strayed) /\ strayed \subseteq Entity
  /\ opened \in BOOLEAN /\ version \in Nat
  /\ cache = NoEntry \/ (cache.version \in Nat /\ cache.hits \subseteq Fact)
  /\ pc \in [Thread -> Pc] /\ job \in [Thread -> Job]
  /\ journal \subseteq Request /\ acked \subseteq Fact /\ gone \subseteq Fact /\ torn \subseteq Edge
  /\ mix \in Mixes
  /\ \A t \in Thread : Proper(pc[t], job[t])
  /\ ~opened => \A t \in Thread : pc[t] = "idle"
  /\ opened => journal = {}

\* The migration: nobody has the profile open, and each step has its files.
Held == IF backup = NoDir THEN {} ELSE backup
Old  == Files(db.k, "cur")
Staging == Files(staged.k, "next")
MigrationInv ==
  /\ mpc \in {"none", "mark", "backup", "park", "place", "clear", "commit"} /\ sentinel \in BOOLEAN
  /\ root \subseteq File /\ (backup = NoDir \/ backup \subseteq File)
  /\ staging = NoDir \/ staging \subseteq File
  /\ staged.k \in DOMAIN Home
  /\ mpc # "none" => /\ ~opened /\ journal = {}
                     /\ Routable(db) /\ staged = Route(db, staged.k)
  /\ sentinel => ~opened
  /\ mpc \in {"none", "mark"} /\ ~sentinel => root = Old
  /\ mpc = "mark" => ~sentinel /\ backup = NoDir
  /\ mpc \notin {"none", "mark"} => sentinel
  /\ mpc = "backup" => root = Old /\ backup = NoDir
  /\ mpc = "park" => root # {} /\ backup # NoDir
  /\ mpc = "place" => staging # NoDir /\ staging # {} /\ root \cup staging = Staging
  /\ mpc \in {"place", "clear", "commit"} => backup # NoDir /\ backup = Old
  /\ mpc \in {"mark", "backup", "park"} => staging = Staging
  /\ mpc \in {"clear", "commit"} => root = Staging
  /\ \A f \in root : f.gen \in {"cur", "next"}
  /\ mpc = "park" => \A f \in root : f.gen = "cur"
  /\ sentinel => {f \in root : f.gen = "cur"} \cup Held = Old

-----------------------------------------------------------------------------
(* What the operators on a store do. *)

\* A request is not the empty tuple that stands for none.
LEMMA RequestsAreSome == \A r \in Request : r # <<>>
BY DEF Request

\* The rows of a store are a function on some of the entities.
LEMMA RowsShape ==
  ASSUME NEW rows
  PROVE  rows \in Rows <=> /\ DOMAIN rows \subseteq Entity
                           /\ rows \in [DOMAIN rows -> {"canonical", "stub"}]
BY DEF Rows

\* ensure_entity adds one row and changes none.
LEMMA RowAdded ==
  ASSUME NEW rows \in Rows, NEW e \in Entity, NEW how \in {"canonical", "stub"}
  PROVE  /\ AddRow(rows, e, how) \in Rows
         /\ DOMAIN AddRow(rows, e, how) = DOMAIN rows \cup {e}
         /\ \A x \in DOMAIN rows : AddRow(rows, e, how)[x] = rows[x]
         /\ e \notin DOMAIN rows => AddRow(rows, e, how)[e] = how
<1>1. DOMAIN rows \subseteq Entity /\ rows \in [DOMAIN rows -> {"canonical", "stub"}]
  BY RowsShape
<1>2. AddRow(rows, e, how) \in [DOMAIN rows \cup {e} -> {"canonical", "stub"}]
  BY <1>1 DEF AddRow
<1>3. DOMAIN AddRow(rows, e, how) = DOMAIN rows \cup {e}
  BY DEF AddRow
<1>4. AddRow(rows, e, how) \in Rows
  BY <1>1, <1>2, <1>3, RowsShape
<1> QED
  BY <1>3, <1>4 DEF AddRow

\* Rows that are left are as they were.
LEMMA RowsLeft ==
  ASSUME NEW rows \in Rows, NEW R
  PROVE  /\ [x \in DOMAIN rows \ R |-> rows[x]] \in Rows
         /\ DOMAIN [x \in DOMAIN rows \ R |-> rows[x]] = DOMAIN rows \ R
<1>1. DOMAIN rows \subseteq Entity /\ rows \in [DOMAIN rows -> {"canonical", "stub"}]
  BY RowsShape
<1> DEFINE r == [x \in DOMAIN rows \ R |-> rows[x]]
<1>2. r \in [DOMAIN rows \ R -> {"canonical", "stub"}] /\ DOMAIN r = DOMAIN rows \ R
  BY <1>1
<1> HIDE DEF r
<1>3. r \in Rows
  BY <1>1, <1>2, RowsShape
<1> QED
  BY <1>2, <1>3 DEF r

\* A store with one row more.
Stocked(s, e, how) == [s EXCEPT !.rows = AddRow(s.rows, e, how)]

\* A store of domain d stays one when a row of the right kind is added, and when
\* rows go that no fact and no edge needs.
LEMMA ShelfRow ==
  ASSUME NEW s \in Shelf, NEW k, NEW d, NEW X, AtHome(s, k, d, X), NEW e \in Entity,
         NEW how \in {"canonical", "stub"},
         (how = "canonical" <=> Home[k][e] = d) \/ e \in X \/ e \in DOMAIN s.rows
  PROVE  /\ Stocked(s, e, how) \in Shelf /\ AtHome(Stocked(s, e, how), k, d, X)
         /\ DOMAIN Stocked(s, e, how).rows = DOMAIN s.rows \cup {e}
         /\ Stocked(s, e, how).rows = AddRow(s.rows, e, how)
         /\ Stocked(s, e, how).facts = s.facts /\ Stocked(s, e, how).edges = s.edges
<1> DEFINE r == AddRow(s.rows, e, how)
           z == Stocked(s, e, how)
<1>1. s.rows \in Rows
  BY DEF Shelf
<1>2. \A rows \in Rows :
        /\ AddRow(rows, e, how) \in Rows
        /\ DOMAIN AddRow(rows, e, how) = DOMAIN rows \cup {e}
        /\ \A x \in DOMAIN rows : AddRow(rows, e, how)[x] = rows[x]
        /\ e \notin DOMAIN rows => AddRow(rows, e, how)[e] = how
  BY RowAdded, SMTT(30)
<1>3. /\ r \in Rows /\ DOMAIN r = DOMAIN s.rows \cup {e}
      /\ \A x \in DOMAIN s.rows : r[x] = s.rows[x]
      /\ e \notin DOMAIN s.rows => r[e] = how
  BY <1>1, <1>2
<1> HIDE DEF r
<1>4. z = [s EXCEPT !.rows = r]
  BY DEF r, Stocked
<1> HIDE DEF z
<1>5. z \in Shelf /\ z.rows = r /\ z.facts = s.facts /\ z.edges = s.edges
  BY <1>3, <1>4 DEF Shelf
<1>6. AtHome(z, k, d, X)
  BY <1>3, <1>5 DEF AtHome
<1> QED
  BY <1>3, <1>5, <1>6 DEF r, z

\* A mirror keeps its domain when its source is a stub there, or is there already.
LEMMA MirrorShape ==
  ASSUME NEW s \in Shelf, NEW r \in Request, r.target # NoEntity, NEW d, NEW k, NEW X,
         AtHome(s, k, d, X), Home[k][r.target] = d,
         Home[k][r.entity] # d \/ r.entity \in X \/ r.entity \in DOMAIN s.rows
  PROVE  /\ WithMirror(s, r) \in Shelf /\ AtHome(WithMirror(s, r), k, d, X)
         /\ DOMAIN WithMirror(s, r).rows = DOMAIN s.rows \cup {r.entity, r.target}
         /\ WithMirror(s, r).facts = s.facts
         /\ WithMirror(s, r).edges = s.edges \cup {EdgeOf(r)}
         /\ EdgeOf(r) \in Edge
<1>1. r.entity \in Entity /\ r.target \in Entity
  BY DEF Request
<1> DEFINE one == Stocked(s, r.entity, "stub")
           two == Stocked(one, r.target, "canonical")
<1>2. /\ one \in Shelf /\ AtHome(one, k, d, X)
      /\ DOMAIN one.rows = DOMAIN s.rows \cup {r.entity}
      /\ one.facts = s.facts /\ one.edges = s.edges
  BY <1>1, ShelfRow
<1> HIDE DEF one
<1>3. /\ two \in Shelf /\ AtHome(two, k, d, X)
      /\ DOMAIN two.rows = DOMAIN one.rows \cup {r.target}
      /\ two.facts = one.facts /\ two.edges = one.edges
  BY <1>1, <1>2, ShelfRow
<1>4. WithMirror(s, r) = [two EXCEPT !.edges = @ \cup {EdgeOf(r)}]
  BY DEF WithMirror, Shelf, Stocked, one
<1> HIDE DEF two
<1>5. EdgeOf(r) \in Edge /\ EdgeOf(r)[1] = r.entity /\ EdgeOf(r)[2] = r.target
  BY <1>1 DEF EdgeOf, Edge
<1>6. /\ WithMirror(s, r) \in Shelf /\ WithMirror(s, r).rows = two.rows
      /\ WithMirror(s, r).facts = two.facts
      /\ WithMirror(s, r).edges = two.edges \cup {EdgeOf(r)}
  BY <1>3, <1>4, <1>5 DEF Shelf
<1>7. AtHome(WithMirror(s, r), k, d, X)
  BY <1>2, <1>3, <1>5, <1>6 DEF AtHome
<1> QED
  BY <1>2, <1>3, <1>5, <1>6, <1>7

\* The home commit of a request.
HomeEdges(r) == IF r.target = NoEntity THEN {} ELSE {EdgeOf(r)}
\* The home commit adds the stub of a target elsewhere, the canonical row, the row
\* of a target here and what was asked.
LEMMA HomeShape ==
  ASSUME NEW s \in Shelf, NEW r \in Request, NEW d, NEW X,
         AtHome(s, db.k, d, X), Observed(r) # {} => HomeOf(r.entity) = d,
         HomeOf(r.entity) = d \/ r.entity \in X \/ r.entity \in DOMAIN s.rows
  PROVE  /\ WithHome(s, r, d) \in Shelf /\ AtHome(WithHome(s, r, d), db.k, d, X)
         /\ DOMAIN WithHome(s, r, d).rows = DOMAIN s.rows \cup ({r.entity, r.target} \ {NoEntity})
         /\ WithHome(s, r, d).facts = s.facts \cup Observed(r)
         /\ WithHome(s, r, d).edges = s.edges \cup HomeEdges(r)
         /\ HomeEdges(r) \subseteq Edge
<1>1. /\ r.entity \in Entity /\ r.target \in Entity \cup {NoEntity} /\ r.entity # NoEntity
      /\ Observed(r) \subseteq Fact /\ \A f \in Observed(r) : FactOf[f] = r.entity
  BY EntityAssumption DEF Request, Observed
<1> DEFINE zero == IF Crosses(r, d) THEN Stocked(s, r.target, "stub") ELSE s
           one  == Stocked(zero, r.entity, "canonical")
           two  == IF r.target = NoEntity THEN one ELSE Stocked(one, r.target, "canonical")
<1>2. /\ zero \in Shelf /\ AtHome(zero, db.k, d, X)
      /\ DOMAIN zero.rows = DOMAIN s.rows \cup (IF Crosses(r, d) THEN {r.target} ELSE {})
      /\ zero.rows = (IF Crosses(r, d) THEN AddRow(s.rows, r.target, "stub") ELSE s.rows)
      /\ zero.facts = s.facts /\ zero.edges = s.edges
  <2>1. CASE Crosses(r, d)
    <3>1. r.target \in Entity /\ Home[db.k][r.target] # d
      BY <1>1, <2>1 DEF Crosses, HomeOf
    <3> QED
      BY <2>1, <3>1, ShelfRow
  <2>2. CASE ~Crosses(r, d)
    BY <2>2
  <2> QED
    BY <2>1, <2>2
<1> HIDE DEF zero
<1>3. /\ one \in Shelf /\ AtHome(one, db.k, d, X)
      /\ DOMAIN one.rows = DOMAIN zero.rows \cup {r.entity}
      /\ one.rows = AddRow(zero.rows, r.entity, "canonical")
      /\ one.facts = s.facts /\ one.edges = s.edges
  <2>1. Home[db.k][r.entity] = d \/ r.entity \in X \/ r.entity \in DOMAIN zero.rows
    BY <1>2 DEF HomeOf
  <2> QED
    BY <1>1, <1>2, <2>1, ShelfRow
<1> HIDE DEF one
<1>4. /\ two \in Shelf /\ AtHome(two, db.k, d, X)
      /\ DOMAIN two.rows = DOMAIN one.rows \cup ({r.target} \ {NoEntity})
      /\ two.facts = s.facts /\ two.edges = s.edges
      /\ two.rows = IF r.target = NoEntity THEN one.rows ELSE AddRow(one.rows, r.target, "canonical")
  <2>1. CASE r.target = NoEntity
    BY <1>3, <2>1
  <2>2. CASE r.target # NoEntity
    <3>1. r.target \in Entity
      BY <1>1, <2>2
    <3>2. Home[db.k][r.target] = d \/ r.target \in DOMAIN one.rows
      BY <1>2, <1>3, <2>2 DEF Crosses, HomeOf
    <3> QED
      BY <1>3, <2>2, <3>1, <3>2, ShelfRow
  <2> QED
    BY <2>1, <2>2
<1> HIDE DEF two
<1>5. /\ WithHome(s, r, d).rows = two.rows
      /\ WithHome(s, r, d).facts = s.facts \cup Observed(r)
      /\ WithHome(s, r, d).edges = s.edges \cup HomeEdges(r)
      /\ WithHome(s, r, d) = [rows |-> WithHome(s, r, d).rows, facts |-> WithHome(s, r, d).facts,
                              edges |-> WithHome(s, r, d).edges]
  BY <1>2, <1>3, <1>4 DEF WithHome, HomeEdges
<1>6. HomeEdges(r) \subseteq Edge /\ \A x \in HomeEdges(r) : x[1] = r.entity /\ x[2] = r.target /\ r.target # NoEntity
  BY <1>1 DEF EdgeOf, Edge, HomeEdges
<1>7. DOMAIN two.rows = DOMAIN s.rows \cup ({r.entity, r.target} \ {NoEntity})
  BY <1>1, <1>2, <1>3, <1>4 DEF Crosses
<1>8. WithHome(s, r, d) \in Shelf
  BY <1>1, <1>4, <1>5, <1>6 DEF Shelf
<1>9. AtHome(WithHome(s, r, d), db.k, d, X)
  <2>1. \A f \in WithHome(s, r, d).facts : Home[db.k][FactOf[f]] = d /\ FactOf[f] \in DOMAIN two.rows
    BY <1>1, <1>5, <1>7 DEF AtHome, HomeOf
  <2>2. \A x \in WithHome(s, r, d).edges : x[1] \in DOMAIN two.rows /\ x[2] \in DOMAIN two.rows
    BY <1>1, <1>5, <1>6, <1>7 DEF AtHome
  <2> QED
    BY <1>4, <1>5, <2>1, <2>2 DEF AtHome
<1> QED
  BY <1>5, <1>6, <1>7, <1>8, <1>9

\* The removal of an entity from a store.
LEMMA DropShape ==
  ASSUME NEW s \in Shelf, NEW e, NEW k, NEW d, NEW X, AtHome(s, k, d, X)
  PROVE  /\ Drop(s, e) \in Shelf /\ AtHome(Drop(s, e), k, d, X)
         /\ DOMAIN Drop(s, e).rows = DOMAIN s.rows \ {e}
         /\ Drop(s, e).facts = {f \in s.facts : FactOf[f] # e}
         /\ Drop(s, e).edges = s.edges \ Incident(e)
<1> DEFINE r == [x \in DOMAIN s.rows \ {e} |-> s.rows[x]]
<1>1. r \in Rows /\ DOMAIN r = DOMAIN s.rows \ {e} /\ \A x \in DOMAIN r : r[x] = s.rows[x]
  BY RowsLeft DEF Shelf
<1>2. Drop(s, e) = [rows |-> r, facts |-> {f \in s.facts : FactOf[f] # e}, edges |-> s.edges \ Incident(e)]
  BY DEF Drop
<1> HIDE DEF r
<1>3. Drop(s, e) \in Shelf
  BY <1>1, <1>2 DEF Shelf
<1>4. AtHome(Drop(s, e), k, d, X)
  BY <1>1, <1>2 DEF AtHome, Incident, Shelf
<1> QED
  BY <1>1, <1>2, <1>3, <1>4

-----------------------------------------------------------------------------
(* The profile is partitioned, and threads have what their steps need. *)

\* A store that is replaced by one of the same domain, while the exceptions grow.
LEMMA StoreKeeps ==
  ASSUME NEW X, NEW Y, X \subseteq Y, Partitioned(db, X),
         NEW d \in Domain, NEW s \in Shelf, AtHome(s, db.k, d, Y), Store(d, s)
  PROVE  /\ Partitioned(db', Y) /\ db'.k = db.k
         /\ db'.stores[d] = s /\ \A x \in Domain \ {d} : db'.stores[x] = db.stores[x]
<1>1. db = [k |-> db.k, stores |-> db.stores] /\ db.k \in DOMAIN Home /\ db.stores \in [1..db.k -> Shelf]
  BY DEF Partitioned
<1>2. db' = [k |-> db.k, stores |-> [db.stores EXCEPT ![d] = s]]
  BY <1>1 DEF Store
<1>3. db'.k = db.k /\ db'.stores = [db.stores EXCEPT ![d] = s]
  BY <1>2
<1>4. ASSUME NEW x \in 1..db.k PROVE AtHome(db'.stores[x], db.k, x, Y)
  <2>1. CASE x = d
    BY <1>1, <1>3, <2>1 DEF Domain
  <2>2. CASE x # d
    <3>1. AtHome(db.stores[x], db.k, x, X) /\ db'.stores[x] = db.stores[x]
      BY <1>1, <1>3, <2>2 DEF Partitioned
    <3> QED
      BY <3>1 DEF AtHome
  <2> QED
    BY <2>1, <2>2
<1>5. Partitioned(db', Y)
  BY <1>1, <1>2, <1>3, <1>4 DEF Partitioned, Domain
<1> QED
  BY <1>1, <1>3, <1>5 DEF Domain

\* Exceptions may be added.
LEMMA MoreExcepted ==
  ASSUME NEW x, NEW X, NEW Y, X \subseteq Y, Partitioned(x, X)
  PROVE  Partitioned(x, Y)
BY DEF Partitioned, AtHome

\* Each store of a partitioned profile is one of its domain.
LEMMA StoreShape ==
  ASSUME NEW X, Partitioned(db, X), NEW d \in Domain
  PROVE  db.stores[d] \in Shelf /\ AtHome(db.stores[d], db.k, d, X)
BY DEF Partitioned, Domain

\* domain_for answers with one of the domains.
LEMMA HomeIsDomain ==
  ASSUME NEW X, Partitioned(db, X), NEW e \in Entity
  PROVE  HomeOf(e) \in Domain
BY HomeAssumption DEF Partitioned, HomeOf, Domain

\* A step of t.
Others(t) == \A u \in Thread \ {t} : pc'[u] = pc[u] /\ job'[u] = job[u]
\* A step in which t gets what it needs, and nobody else is touched, keeps the
\* invariant.
LEMMA ThreadKeeps ==
  ASSUME BaseInv, NEW t \in Thread, opened, UNCHANGED <<opened, journal, mix>>,
         Partitioned(db', strayed'), strayed' \subseteq Entity, db'.k = db.k,
         Others(t), pc' \in [Thread -> Pc], job' \in [Thread -> Job], Proper(pc[t], job[t])',
         version' \in Nat, cache' = NoEntry \/ (cache'.version \in Nat /\ cache'.hits \subseteq Fact),
         acked' \subseteq Fact, gone' \subseteq Fact, torn' \subseteq Edge
  PROVE  BaseInv'
<1>1. \A u \in Thread : Proper(pc[u], job[u])'
  BY DEF BaseInv, Others, Proper, Crosses, HomeOf, Domain
<1> QED
  BY <1>1 DEF BaseInv

\* What each step does to its thread, and to the store it writes.
LEMMA NoJobShape == NoJob \in Job /\ Proper("idle", NoJob)
BY DEF NoJob, Job, Proper, Domain

\* A thread goes to l with j in hand.
LEMMA MovesTo ==
  ASSUME BaseInv, NEW t \in Thread, NEW l \in Pc, NEW j \in Job,
         pc' = [pc EXCEPT ![t] = l], job' = [job EXCEPT ![t] = j]
  PROVE  /\ Others(t) /\ pc' \in [Thread -> Pc] /\ job' \in [Thread -> Job]
         /\ pc'[t] = l /\ job'[t] = j
BY DEF BaseInv, Others

\* A request with a target has an edge.
LEMMA CrossingEdge ==
  ASSUME NEW r \in Request, r.target # NoEntity
  PROVE  /\ r.entity \in Entity /\ r.target \in Entity /\ EdgeOf(r) \in Edge
         /\ EdgeOf(r)[1] = r.entity /\ EdgeOf(r)[2] = r.target
BY DEF Request, EdgeOf, Edge

\* What every step does: the workload stays, and the strayed are recorded.
Around == UNCHANGED mix /\ strayed' = strayed \cup Astray
\* The strayed are recorded for good, and they are entities.
LEMMA StrayedGrow ==
  ASSUME BaseInv, Around
  PROVE  /\ strayed \subseteq strayed' /\ strayed' \subseteq Entity /\ Astray \subseteq strayed'
         /\ db' = db => Partitioned(db', strayed')
<1>1. strayed \subseteq strayed' /\ strayed' \subseteq Entity /\ Astray \subseteq strayed'
  BY DEF Around, Astray, BaseInv
<1>2. Partitioned(db, strayed')
  BY <1>1, MoreExcepted DEF BaseInv
<1> QED
  BY <1>1, <1>2

\* A batch that starts.
LEMMA BatchInHand ==
  ASSUME NEW r \in Request, NEW d \in Domain, r.fact # NoFact => d = HomeOf(r.entity)
  PROVE  /\ [NoJob EXCEPT !.req = r, !.at = d] \in Job /\ Start(r, d) \in {"mirror", "home"}
         /\ Start(r, d) \in Pc /\ Proper(Start(r, d), [NoJob EXCEPT !.req = r, !.at = d])
<1> DEFINE j == [NoJob EXCEPT !.req = r, !.at = d]
<1>1. d \in Nat
  BY DEF Domain
<1>2. /\ j \in Job /\ j.req = r /\ j.at = d /\ j.entity = NoEntity /\ j.left = {}
  BY <1>1, NoJobShape DEF Job, NoJob
<1> HIDE DEF j
<1>3. Start(r, d) \in {"mirror", "home"} /\ Start(r, d) \in Pc /\ (Start(r, d) = "mirror" => Crosses(r, d))
  BY DEF Start, Pc
<1>4. Proper(Start(r, d), j)
  BY <1>2, <1>3, RequestsAreSome DEF Proper
<1> QED
  BY <1>2, <1>3, <1>4 DEF j

\* What is known of a thread that takes a step.
LEMMA InHand ==
  ASSUME BaseInv, NEW t \in Thread
  PROVE  /\ Partitioned(db, strayed) /\ pc[t] \in Pc /\ job[t] \in Job /\ Proper(pc[t], job[t])
         /\ pc = [pc EXCEPT ![t] = pc[t]] /\ job = [job EXCEPT ![t] = job[t]]
         /\ pc[t] # "idle" => opened
         /\ version \in Nat /\ (cache = NoEntry \/ (cache.version \in Nat /\ cache.hits \subseteq Fact))
         /\ acked \subseteq Fact /\ gone \subseteq Fact /\ torn \subseteq Edge
BY DEF BaseInv

\* A step that takes t to l with j in hand, and the values it may write.
Goes(t, l, j) ==
  /\ opened /\ UNCHANGED <<opened, journal>>
  /\ l \in Pc /\ j \in Job /\ Proper(l, j)
  /\ pc' = [pc EXCEPT ![t] = l] /\ job' = [job EXCEPT ![t] = j]
NewValues ==
  /\ version' \in Nat
  /\ cache' = NoEntry \/ (cache'.version \in Nat /\ cache'.hits \subseteq Fact)
  /\ acked' \subseteq Fact /\ gone' \subseteq Fact /\ torn' \subseteq Edge
\* Such a step keeps the invariant when the stores stay partitioned.
LEMMA GoesKeeps ==
  ASSUME BaseInv, NEW t \in Thread, NEW l, NEW j, Goes(t, l, j), NewValues, Around,
         Partitioned(db', strayed'), db'.k = db.k
  PROVE  BaseInv'
<1>1. Others(t) /\ pc' \in [Thread -> Pc] /\ job' \in [Thread -> Job] /\ pc'[t] = l /\ job'[t] = j
  BY MovesTo DEF Goes
<1>2. Proper(pc[t], job[t])'
  BY <1>1 DEF Goes, Proper, Crosses, HomeOf, Domain
<1> QED
  BY <1>1, <1>2, ThreadKeeps, StrayedGrow DEF Goes, NewValues, Around

\* A call that leaves the stores as they are.
LEMMA ReadingKeeps ==
  ASSUME BaseInv, NEW t \in Thread, Around,
         \/ Remember(t) \/ MirrorFails(t) \/ HomeFails(t) \/ Bump(t) \/ SweepFails(t)
         \/ Tidy(t) \/ TidyFails(t) \/ AllVisited(t)
         \/ RecallStart(t) \/ RecallDomain(t) \/ RecallPut(t) \/ RecallDone(t)
  PROVE  BaseInv'
<1>1. /\ Partitioned(db, strayed) /\ pc[t] \in Pc /\ job[t] \in Job /\ Proper(pc[t], job[t])
      /\ pc = [pc EXCEPT ![t] = pc[t]] /\ job = [job EXCEPT ![t] = job[t]]
      /\ pc[t] # "idle" => opened
      /\ version \in Nat /\ (cache = NoEntry \/ (cache.version \in Nat /\ cache.hits \subseteq Fact))
      /\ acked \subseteq Fact /\ gone \subseteq Fact /\ torn \subseteq Edge
      /\ NoJob \in Job /\ Proper("idle", NoJob)
  BY InHand, NoJobShape
<1> DEFINE To(l, j) == Goes(t, l, j) /\ UNCHANGED db
<1>2. ASSUME NEW l, NEW j, To(l, j), NewValues PROVE BaseInv'
  BY <1>1, <1>2, GoesKeeps, StrayedGrow
<1> USE DEF Goto, Do, Finish, Ready, stores, history, Goes, NewValues
<1>3. CASE Remember(t)
  <2>1. PICK r \in mix.requests : StartWrite(t, r, HomeOf(r.entity))
    BY <1>3 DEF Remember
  <2>2. r \in Request
    BY MixAssumption DEF BaseInv
  <2>3. HomeOf(r.entity) \in Domain
    BY <1>1, <2>2, HomeIsDomain DEF Request
  <2> DEFINE d == HomeOf(r.entity)
  <2>4. To(Start(r, d), [NoJob EXCEPT !.req = r, !.at = d])
    BY <1>3, <2>1, <2>2, <2>3, BatchInHand DEF Remember, StartWrite
  <2> QED
    BY <1>1, <1>2, <1>3, <2>4 DEF Remember
<1>4. CASE MirrorFails(t)
  <2>1. EdgeOf(job[t].req) \in Edge
    BY <1>1, <1>4, CrossingEdge DEF MirrorFails, Proper, Crosses
  <2>2. To("home", job[t])
    BY <1>1, <1>4 DEF MirrorFails, Proper, Pc
  <2> QED
    BY <1>1, <1>2, <1>4, <2>1, <2>2 DEF MirrorFails
<1>5. CASE HomeFails(t)
  <2>1. Crosses(job[t].req, job[t].at) => EdgeOf(job[t].req) \in Edge
    BY <1>1, <1>5, CrossingEdge DEF HomeFails, Proper, Crosses
  <2>2. To("idle", NoJob)
    BY <1>1, <1>5 DEF HomeFails, Pc
  <2> QED
    BY <1>1, <1>2, <1>5, <2>1, <2>2 DEF HomeFails
<1>6. CASE Bump(t)
  <2>1. To("idle", NoJob)
    BY <1>1, <1>6 DEF Bump, Pc
  <2>2. job[t].gone \subseteq Fact
    BY <1>1 DEF Job
  <2>3. NewValues
    BY <1>1, <1>6, <2>2 DEF Bump
  <2> QED
    BY <1>2, <2>1, <2>3
<1>7. CASE SweepFails(t)
  <2>1. To("idle", NoJob)
    BY <1>1, <1>7 DEF SweepFails, Pc
  <2> QED
    BY <1>1, <1>2, <1>7, <2>1 DEF SweepFails, Incident
<1>8. CASE Tidy(t)
  <2>1. Domain \subseteq Nat
    BY DEF Domain
  <2>2. [NoJob EXCEPT !.left = Domain] \in Job
    BY <1>1, <2>1 DEF Job
  <2>3. To("tidy", [NoJob EXCEPT !.left = Domain])
    BY <1>8, <2>2 DEF Tidy, Proper, Pc, NoJob
  <2> QED
    BY <1>1, <1>2, <1>8, <2>3 DEF Tidy
<1>9. CASE TidyFails(t)
  <2>1. To("idle", NoJob)
    BY <1>1, <1>9 DEF TidyFails, Pc
  <2> QED
    BY <1>1, <1>2, <1>9, <2>1 DEF TidyFails
<1>10. CASE AllVisited(t)
  <2>1. To("bump", job[t])
    BY <1>1, <1>10 DEF AllVisited, Proper, Pc
  <2> QED
    BY <1>1, <1>2, <1>10, <2>1 DEF AllVisited
<1>11. CASE RecallStart(t)
  <2> DEFINE j == [NoJob EXCEPT !.version = version, !.acked = acked, !.gone = gone]
  <2>1. Domain \subseteq Nat
    BY DEF Domain
  <2>2. /\ j \in Job /\ j.req = <<>> /\ j.entity = NoEntity /\ j.left = {}
    BY <1>1 DEF Job, NoJob
  <2>3. CASE db.k > 1 /\ cache # NoEntry /\ cache.version = version
    <3>1. [j EXCEPT !.hits = cache.hits] \in Job
      BY <1>1, <2>2, <2>3 DEF Job
    <3>2. To("answered", [j EXCEPT !.hits = cache.hits])
      BY <1>11, <2>2, <2>3, <3>1 DEF RecallStart, Proper, Pc
    <3> QED
      BY <1>1, <1>2, <1>11, <3>2 DEF RecallStart
  <2>4. CASE ~(db.k > 1 /\ cache # NoEntry /\ cache.version = version)
    <3>1. [j EXCEPT !.left = Domain] \in Job
      BY <2>1, <2>2 DEF Job
    <3>2. To("fan", [j EXCEPT !.left = Domain])
      BY <1>11, <2>2, <2>4, <3>1 DEF RecallStart, Proper, Pc
    <3> QED
      BY <1>1, <1>2, <1>11, <3>2 DEF RecallStart
  <2> QED
    BY <2>3, <2>4
<1>12. CASE RecallDomain(t)
  <2>1. PICK d \in job[t].left :
           job' = [job EXCEPT ![t] = [job[t] EXCEPT !.left = @ \ {d}, !.hits = @ \cup db.stores[d].facts]]
    BY <1>12 DEF RecallDomain
  <2>2. db.stores[d].facts \subseteq Fact /\ d \in Domain
    BY <1>1, StoreShape DEF Shelf, Proper
  <2> DEFINE j == [job[t] EXCEPT !.left = @ \ {d}, !.hits = @ \cup db.stores[d].facts]
  <2>3. /\ j \in Job /\ j.req = job[t].req /\ j.entity = job[t].entity
        /\ j.left = job[t].left \ {d}
    BY <1>1, <2>2 DEF Job
  <2>4. To("fan", j)
    BY <1>1, <1>12, <2>1, <2>3 DEF RecallDomain, Proper, Pc
  <2> QED
    BY <1>1, <1>2, <1>12, <2>4 DEF RecallDomain
<1>13. CASE RecallPut(t)
  <2>1. To("answered", job[t])
    BY <1>1, <1>13 DEF RecallPut, Proper, Pc
  <2>2. job[t].version \in Nat /\ job[t].hits \subseteq Fact
    BY <1>1 DEF Job
  <2>3. NewValues
    BY <1>1, <1>13, <2>2 DEF RecallPut, Tag
  <2> QED
    BY <1>2, <2>1, <2>3
<1>14. CASE RecallDone(t)
  <2>1. To("idle", NoJob)
    BY <1>1, <1>14 DEF RecallDone, Pc
  <2> QED
    BY <1>1, <1>2, <1>14, <2>1 DEF RecallDone
<1> QED
  BY <1>3, <1>4, <1>5, <1>6, <1>7, <1>8, <1>9, <1>10, <1>11, <1>12, <1>13, <1>14

\* A call that writes one store.
LEMMA WritingKeeps ==
  ASSUME BaseInv, NEW t \in Thread, Around,
         \/ MirrorCommit(t) \/ HomeCommit(t) \/ AddRelation(t) \/ Forget(t) \/ ForgetEntity(t)
         \/ SweepStub(t) \/ TidyDomain(t)
  PROVE  BaseInv'
<1>1. /\ Partitioned(db, strayed) /\ pc[t] \in Pc /\ job[t] \in Job /\ Proper(pc[t], job[t])
      /\ pc = [pc EXCEPT ![t] = pc[t]] /\ job = [job EXCEPT ![t] = job[t]]
      /\ pc[t] # "idle" => opened
      /\ version \in Nat /\ (cache = NoEntry \/ (cache.version \in Nat /\ cache.hits \subseteq Fact))
      /\ acked \subseteq Fact /\ gone \subseteq Fact /\ torn \subseteq Edge
      /\ NoJob \in Job /\ Proper("idle", NoJob)
  BY InHand, NoJobShape
<1>2. ASSUME NEW l, NEW j, Goes(t, l, j), NewValues,
             NEW d \in Domain, NEW s \in Shelf, AtHome(s, db.k, d, strayed'), Store(d, s)
      PROVE  BaseInv'
  <2>1. strayed \subseteq strayed'
    BY StrayedGrow
  <2> QED
    BY <1>1, <1>2, <2>1, StoreKeeps, GoesKeeps
<1>3. \A d \in Domain : db.stores[d] \in Shelf /\ AtHome(db.stores[d], db.k, d, strayed')
  <2>1. Partitioned(db, strayed')
    BY <1>1, StrayedGrow, MoreExcepted
  <2> QED
    BY <2>1, StoreShape
<1>4. Domain \subseteq Nat
  BY DEF Domain
<1> USE DEF Goto, Do, Finish, Ready, stores, history, Goes, NewValues
<1>5. CASE MirrorCommit(t)
  <2> DEFINE r == job[t].req
             d == HomeOf(r.target)
  <2>1. r \in Request /\ r.target # NoEntity /\ Crosses(r, job[t].at) /\ r # <<>>
    BY <1>1, <1>5 DEF MirrorCommit, Proper, Crosses
  <2>2. d \in Domain /\ r.entity \in Entity
    BY <1>1, <2>1, CrossingEdge, HomeIsDomain
  <2>3. HomeOf(r.entity) # d \/ r.entity \in strayed' \/ r.entity \in DOMAIN db.stores[d].rows
    <3>1. ASSUME HomeOf(r.entity) = d, r.entity \notin Known(d) PROVE r.entity \in Astray
      BY <1>5, <2>1, <2>2, <3>1 DEF MirrorCommit, Astray, Crosses
    <3> QED
      BY <3>1, StrayedGrow DEF Known
  <2>4. WithMirror(db.stores[d], r) \in Shelf /\ AtHome(WithMirror(db.stores[d], r), db.k, d, strayed')
    BY <1>3, <2>1, <2>2, <2>3, MirrorShape DEF HomeOf
  <2>5. Goes(t, "home", job[t])
    BY <1>1, <1>5 DEF MirrorCommit, Proper, Pc
  <2> QED
    BY <1>1, <1>2, <1>5, <2>2, <2>4, <2>5 DEF MirrorCommit
<1>6. CASE HomeCommit(t)
  <2> DEFINE r == job[t].req
             d == job[t].at
  <2>1. r \in Request /\ r # <<>> /\ r.entity \in Entity /\ d \in Domain
        /\ (Observed(r) # {} => HomeOf(r.entity) = d)
    BY <1>1, <1>6 DEF HomeCommit, Proper, Request, Observed
  <2>2. HomeOf(r.entity) = d \/ r.entity \in strayed' \/ r.entity \in DOMAIN db.stores[d].rows
    <3>1. ASSUME HomeOf(r.entity) # d, r.entity \notin Known(d) PROVE r.entity \in Astray
      BY <1>6, <2>1, <3>1 DEF HomeCommit, Astray
    <3> QED
      BY <3>1, StrayedGrow DEF Known
  <2>3. WithHome(db.stores[d], r, d) \in Shelf /\ AtHome(WithHome(db.stores[d], r, d), db.k, d, strayed')
    BY <1>3, <2>1, <2>2, HomeShape
  <2>4. Goes(t, "bump", job[t])
    BY <1>1, <1>6 DEF HomeCommit, Proper, Pc
  <2> QED
    BY <1>1, <1>2, <1>6, <2>1, <2>3, <2>4 DEF HomeCommit
<1>7. CASE AddRelation(t)
  <2>1. PICK d \in Domain, c \in Domain : \E from \in Known(d), to \in Known(c) :
          /\ \/ /\ d = c
                /\ Store(d, [db.stores[d] EXCEPT !.edges = @ \cup {<<from, to>>}])
                /\ Goto(t, "bump") /\ UNCHANGED job
             \/ /\ StartWrite(t, [entity |-> from, fact |-> NoFact, target |-> to], d)
                /\ UNCHANGED db
          /\ torn' \in {torn, torn \cup {<<from, to>>}}
    BY <1>7 DEF AddRelation
  <2>2. PICK from \in Known(d), to \in Known(c) :
          /\ \/ /\ d = c
                /\ Store(d, [db.stores[d] EXCEPT !.edges = @ \cup {<<from, to>>}])
                /\ Goto(t, "bump") /\ UNCHANGED job
             \/ /\ StartWrite(t, [entity |-> from, fact |-> NoFact, target |-> to], d)
                /\ UNCHANGED db
          /\ torn' \in {torn, torn \cup {<<from, to>>}}
    BY <2>1
  <2>3. opened /\ pc[t] = "idle" /\ UNCHANGED <<opened, journal, version, cache, acked, gone>>
    BY <1>7 DEF AddRelation
  <2>4. Known(d) \subseteq Entity /\ Known(c) \subseteq Entity
    BY <1>3, RowsShape DEF Known, Shelf
  <2>5. from \in Entity /\ to \in Entity /\ <<from, to>> \in Edge /\ NewValues
    BY <1>1, <2>2, <2>3, <2>4 DEF Edge
  <2> DEFINE s == [db.stores[d] EXCEPT !.edges = @ \cup {<<from, to>>}]
             r == [entity |-> from, fact |-> NoFact, target |-> to]
  <2>6. CASE d = c /\ Store(d, s) /\ Goto(t, "bump") /\ UNCHANGED job
    <3>1. /\ s \in Shelf /\ s.rows = db.stores[d].rows /\ s.facts = db.stores[d].facts
          /\ s.edges = db.stores[d].edges \cup {<<from, to>>}
      BY <1>3, <2>5 DEF Shelf
    <3>2. from \in DOMAIN s.rows /\ to \in DOMAIN s.rows
      BY <2>6, <3>1 DEF Known
    <3> HIDE DEF s
    <3>3. AtHome(s, db.k, d, strayed')
      BY <1>3, <3>1, <3>2 DEF AtHome
    <3>4. Goes(t, "bump", job[t])
      BY <1>1, <2>3, <2>6 DEF Proper, Pc, NoJob
    <3> QED
      BY <1>2, <2>5, <2>6, <3>1, <3>3, <3>4
  <2>7. CASE StartWrite(t, r, d) /\ UNCHANGED db
    <3>1. r \in Request /\ r.fact = NoFact
      BY <2>5, EntityAssumption DEF Request
    <3> HIDE DEF r
    <3>2. Goes(t, Start(r, d), [NoJob EXCEPT !.req = r, !.at = d])
      BY <2>3, <2>7, <3>1, BatchInHand DEF StartWrite
    <3> QED
      BY <1>1, <2>5, <2>7, <3>2, GoesKeeps, StrayedGrow
  <2> QED
    BY <2>2, <2>6, <2>7
<1>8. CASE Forget(t)
  <2>1. PICK d \in Domain, out \in SUBSET Fact :
          /\ out \subseteq db.stores[d].facts
          /\ Store(d, [db.stores[d] EXCEPT !.facts = @ \ out])
          /\ Do(t, [NoJob EXCEPT !.gone = out])
    BY <1>3, <1>8 DEF Forget, Shelf
  <2> DEFINE s == [db.stores[d] EXCEPT !.facts = @ \ out]
  <2>2. /\ s \in Shelf /\ s.rows = db.stores[d].rows /\ s.facts = db.stores[d].facts \ out
        /\ s.edges = db.stores[d].edges /\ out \subseteq Fact
    BY <1>3, <2>1 DEF Shelf
  <2>3. AtHome(s, db.k, d, strayed')
    BY <1>3, <2>2 DEF AtHome
  <2>4. [NoJob EXCEPT !.gone = out] \in Job
    BY <1>1, <2>2 DEF Job
  <2>5. Goes(t, "bump", [NoJob EXCEPT !.gone = out])
    BY <1>8, <2>1, <2>4 DEF Forget, Proper, Pc, NoJob
  <2> QED
    BY <1>1, <1>2, <1>8, <2>1, <2>2, <2>3, <2>5 DEF Forget
<1>9. CASE ForgetEntity(t)
  <2>1. PICK d \in Domain : \E e \in Known(d) :
          /\ Store(d, Drop(db.stores[d], e))
          /\ Do(t, [NoJob EXCEPT !.entity = e, !.at = d, !.left = Elsewhere(d),
                      !.gone = {f \in db.stores[d].facts : FactOf[f] = e}])
          /\ torn' \in {torn, torn \cup Incident(e)}
    BY <1>9 DEF ForgetEntity
  <2>2. PICK e \in Known(d) :
          /\ Store(d, Drop(db.stores[d], e))
          /\ Do(t, [NoJob EXCEPT !.entity = e, !.at = d, !.left = Elsewhere(d),
                      !.gone = {f \in db.stores[d].facts : FactOf[f] = e}])
          /\ torn' \in {torn, torn \cup Incident(e)}
    BY <2>1
  <2> DEFINE out == {f \in db.stores[d].facts : FactOf[f] = e}
             j == [NoJob EXCEPT !.entity = e, !.at = d, !.left = Elsewhere(d), !.gone = out]
  <2>3. e \in Entity
    BY <1>3, RowsShape DEF Known, Shelf
  <2>4. Drop(db.stores[d], e) \in Shelf /\ AtHome(Drop(db.stores[d], e), db.k, d, strayed')
    BY <1>3, DropShape
  <2>5. out \subseteq Fact /\ Elsewhere(d) \subseteq Domain /\ d \notin Elsewhere(d) /\ d \in Nat
    BY <1>3, <1>4 DEF Shelf, Elsewhere
  <2> HIDE DEF out
  <2>6. j \in Job /\ j.req = <<>> /\ j.entity = e /\ j.at = d /\ j.left = Elsewhere(d)
    BY <1>1, <1>4, <2>3, <2>5 DEF Job, NoJob
  <2>7. Goes(t, "sweep", j)
    BY <1>9, <2>2, <2>3, <2>5, <2>6 DEF ForgetEntity, Proper, Pc, out
  <2>8. NewValues
    BY <1>1, <1>9, <2>2 DEF ForgetEntity, Incident
  <2> QED
    BY <1>2, <2>2, <2>4, <2>7, <2>8
<1>10. CASE SweepStub(t)
  <2> DEFINE e == job[t].entity
             stub(d) == e \in Known(d) /\ db.stores[d].rows[e] = "stub"
             out(d) == IF stub(d) THEN {f \in db.stores[d].facts : FactOf[f] = e} ELSE {}
  <2>1. PICK d \in job[t].left :
          /\ Store(d, IF stub(d) THEN Drop(db.stores[d], e) ELSE db.stores[d])
          /\ Do(t, [job[t] EXCEPT !.left = @ \ {d}, !.gone = @ \cup out(d)])
    BY <1>10 DEF SweepStub
  <2> DEFINE s == IF stub(d) THEN Drop(db.stores[d], e) ELSE db.stores[d]
             j == [job[t] EXCEPT !.left = @ \ {d}, !.gone = @ \cup out(d)]
  <2>2. d \in Domain
    BY <1>1, <2>1 DEF Proper
  <2>3. s \in Shelf /\ AtHome(s, db.k, d, strayed')
    BY <1>3, <2>2, DropShape
  <2>6. out(d) \subseteq Fact
    BY <1>3, <2>2 DEF Shelf
  <2> HIDE DEF out, stub
  <2>4. j \in Job /\ j.req = job[t].req /\ j.entity = e /\ j.left = job[t].left \ {d} /\ j.at = job[t].at
    BY <1>1, <2>6 DEF Job
  <2>5. Goes(t, "sweep", j)
    BY <1>1, <1>10, <2>1, <2>4 DEF SweepStub, Proper, Pc
  <2> QED
    BY <1>1, <1>2, <1>10, <2>1, <2>2, <2>3, <2>5 DEF SweepStub
<1>11. CASE TidyDomain(t)
  <2>1. PICK d \in job[t].left, S \in SUBSET Fact, R \in SUBSET Entity :
          LET s == db.stores[d] IN
          /\ S \subseteq s.facts
          /\ R \subseteq {e \in Known(d) : /\ s.edges \cap Incident(e) = {}
                                           /\ \A f \in s.facts \ S : FactOf[f] # e}
          /\ Store(d, [s EXCEPT !.facts = @ \ S, !.rows = [e \in DOMAIN @ \ R |-> @[e]]])
          /\ Do(t, [job[t] EXCEPT !.left = @ \ {d}, !.gone = @ \cup S])
    BY <1>11 DEF TidyDomain
  <2> DEFINE s == db.stores[d]
             rows == [e \in DOMAIN s.rows \ R |-> s.rows[e]]
             z == [s EXCEPT !.facts = @ \ S, !.rows = [e \in DOMAIN @ \ R |-> @[e]]]
             j == [job[t] EXCEPT !.left = @ \ {d}, !.gone = @ \cup S]
  <2>2. d \in Domain
    BY <1>1, <2>1 DEF Proper
  <2>3. rows \in Rows /\ DOMAIN rows = DOMAIN s.rows \ R /\ \A e \in DOMAIN rows : rows[e] = s.rows[e]
    BY <1>3, <2>2, RowsLeft DEF Shelf
  <2>10. s \in Shelf
    BY <1>3, <2>2
  <2>11. z = [s EXCEPT !.facts = s.facts \ S, !.rows = rows]
    OBVIOUS
  <2> HIDE DEF rows, z
  <2>4. /\ z = [rows |-> rows, facts |-> s.facts \ S, edges |-> s.edges]
        /\ s.facts \subseteq Fact /\ s.edges \subseteq Edge
    BY <2>10, <2>11 DEF Shelf
  <2>5. z \in Shelf
    BY <2>3, <2>4 DEF Shelf
  <2>6. AtHome(z, db.k, d, strayed')
    <3>1. \A x \in s.edges : x[1] \notin R /\ x[2] \notin R
      BY <2>1, <2>4 DEF Incident
    <3>2. \A f \in s.facts \ S : FactOf[f] \notin R
      BY <2>1
    <3> QED
      BY <1>3, <2>2, <2>3, <2>4, <3>1, <3>2 DEF AtHome
  <2>7. j \in Job /\ j.req = job[t].req /\ j.entity = job[t].entity /\ j.left = job[t].left \ {d}
    BY <1>1, <2>1 DEF Job
  <2>8. Goes(t, "tidy", j)
    BY <1>1, <1>11, <2>1, <2>7 DEF TidyDomain, Proper, Pc
  <2>9. Store(d, z)
    BY <2>1 DEF z
  <2> QED
    BY <1>1, <1>2, <1>11, <2>2, <2>5, <2>6, <2>8, <2>9 DEF TidyDomain
<1> QED
  BY <1>5, <1>6, <1>7, <1>8, <1>9, <1>10, <1>11

-----------------------------------------------------------------------------
(* Processes come and go. *)

\* Nobody is in a call.
LEMMA AllIdle ==
  /\ [t \in Thread |-> "idle"] \in [Thread -> Pc]
  /\ [t \in Thread |-> NoJob] \in [Thread -> Job]
BY NoJobShape DEF Pc

\* Opening a profile replays its journal, a crash leaves one behind.
LEMMA ProcessKeeps ==
  ASSUME BaseInv, Around, CacheExpires \/ Open \/ Close \/ Crash
  PROVE  BaseInv'
<1>1. CASE CacheExpires \/ Close
  <2>1. /\ UNCHANGED <<db, journal, version, pc, job, acked, gone, torn>>
        /\ cache' \in {cache, NoEntry}
        /\ UNCHANGED opened \/ (opened' = FALSE /\ \A t \in Thread : pc[t] = "idle")
    BY <1>1 DEF CacheExpires, Close, stores, history
  <2>2. Partitioned(db', strayed') /\ strayed' \subseteq Entity /\ mix' = mix
    BY <2>1, StrayedGrow DEF Around
  <2>3. ASSUME NEW t \in Thread PROVE Proper(pc[t], job[t])'
    BY <2>1 DEF BaseInv, Proper, Crosses, HomeOf, Domain
  <2>4. cache' = NoEntry \/ (cache'.version \in Nat /\ cache'.hits \subseteq Fact)
    BY <2>1 DEF BaseInv
  <2>5. /\ opened' \in BOOLEAN /\ (opened' => journal' = {})
        /\ ~opened' => \A t \in Thread : pc'[t] = "idle"
    <3>1. CASE opened' = opened
      BY <2>1, <3>1 DEF BaseInv
    <3>2. CASE opened' = FALSE /\ \A t \in Thread : pc[t] = "idle"
      BY <2>1, <3>2
    <3> QED
      BY <2>1, <3>1, <3>2
  <2> QED
    BY <2>1, <2>2, <2>3, <2>4, <2>5 DEF BaseInv
<1>2. CASE Open
  <2>1. PICK S \in SUBSET Journaled, replay \in [Journaled -> journal \cup {<<>>}] :
          /\ {replay[t] : t \in S} = journal
          /\ job' = [t \in Thread |->
                       IF t \in S THEN [NoJob EXCEPT !.req = replay[t], !.at = HomeOf(replay[t].entity)]
                       ELSE NoJob]
          /\ pc' = [t \in Thread |->
                      IF t \in S THEN Start(replay[t], HomeOf(replay[t].entity)) ELSE "idle"]
    BY <1>2 DEF Open
  <2>2. db' = db /\ UNCHANGED <<version, acked, gone, torn>> /\ opened' = TRUE /\ journal' = {}
        /\ cache' = NoEntry
    BY <1>2 DEF Open, history
  <2>3. ASSUME NEW t \in Thread
        PROVE  pc'[t] \in Pc /\ job'[t] \in Job /\ Proper(pc[t], job[t])'
    <3>1. CASE t \notin S
      BY <2>1, <2>2, <3>1, NoJobShape DEF Pc, Proper, NoJob
    <3>2. CASE t \in S
      <4> DEFINE r == replay[t]
                 d == HomeOf(r.entity)
                 j == [NoJob EXCEPT !.req = r, !.at = d]
      <4>1. r \in Request
        BY <2>1, <3>2 DEF BaseInv
      <4>2. d \in Domain
        BY <4>1, HomeIsDomain DEF BaseInv, Request
      <4>3. job'[t] = j /\ pc'[t] = Start(r, d)
        BY <2>1, <3>2
      <4>4. j \in Job /\ Start(r, d) \in Pc /\ Proper(Start(r, d), j)
        BY <4>1, <4>2, BatchInHand
      <4> HIDE DEF j, d, r
      <4> QED
        BY <2>2, <4>3, <4>4 DEF Proper, Crosses, HomeOf, Domain
    <3> QED
      BY <3>1, <3>2
  <2>4. pc' \in [Thread -> Pc] /\ job' \in [Thread -> Job]
    BY <2>1, <2>3
  <2>5. Partitioned(db', strayed') /\ strayed' \subseteq Entity /\ mix' = mix
    BY <2>2, StrayedGrow DEF Around
  <2> QED
    BY <2>2, <2>3, <2>4, <2>5 DEF BaseInv
<1>3. CASE Crash
  <2>1. /\ opened' = FALSE /\ UNCHANGED <<db, version, cache, acked, gone>>
        /\ pc' = [t \in Thread |-> "idle"] /\ job' = [t \in Thread |-> NoJob]
        /\ journal' = {job[t].req : t \in {u \in Journaled : pc[u] \in {"mirror", "home"}}}
        /\ torn' = torn \cup {EdgeOf(job[t].req) :
                                t \in {u \in Thread \ Journaled : pc[u] \in {"mirror", "home"} /\ Crosses(job[u].req, job[u].at)}}
                        \cup UNION {Incident(job[t].entity) : t \in {u \in Thread : pc[u] = "sweep"}}
    BY <1>3 DEF Crash
  <2>2. journal' \subseteq Request
    BY <2>1, EntityAssumption DEF BaseInv, Proper
  <2>3. \A t \in Thread : pc[t] \in {"mirror", "home"} /\ Crosses(job[t].req, job[t].at) => EdgeOf(job[t].req) \in Edge
    BY CrossingEdge DEF BaseInv, Proper, Crosses
  <2>4. torn' \subseteq Edge
    BY <2>1, <2>3 DEF BaseInv, Incident
  <2>5. \A t \in Thread : pc'[t] = "idle" /\ job'[t] = NoJob /\ Proper("idle", NoJob)'
    BY <2>1, NoJobShape DEF Proper, Crosses, HomeOf, Domain
  <2>6. Partitioned(db', strayed') /\ strayed' \subseteq Entity /\ mix' = mix
    BY <2>1, StrayedGrow DEF Around
  <2> QED
    BY <2>1, <2>2, <2>4, <2>5, <2>6, AllIdle DEF BaseInv
<1> QED
  BY <1>1, <1>2, <1>3

\* A step of the processes: the stores keep their number.
LEMMA StoreStepKeeps ==
  ASSUME BaseInv, NextStore
  PROVE  BaseInv'
<1>1. ASSUME NEW t \in Thread, Call(t) PROVE BaseInv'
  BY <1>1, ReadingKeeps, WritingKeeps DEF Call, NextStore, Around
<1> QED
  BY <1>1, ProcessKeeps DEF NextStore, Around

-----------------------------------------------------------------------------
(* What a migration writes: route. *)

\* What there is to route: facts and edges of canonical entities.
LEMMA WhatIsRouted ==
  ASSUME NEW b, NEW X, Partitioned(b, X), Routable(b)
  PROVE  /\ Canonical(b) \subseteq Entity /\ Facts(b) \subseteq Fact /\ CanonicalEdges(b) \subseteq Edge
         /\ \A f \in Facts(b) : FactOf[f] \in Canonical(b)
         /\ \A x \in CanonicalEdges(b) : x[1] \in Canonical(b) /\ x[2] \in Canonical(b)
<1>1. ASSUME NEW d \in 1..b.k
      PROVE  b.stores[d] \in Shelf /\ AtHome(b.stores[d], b.k, d, X) /\ DOMAIN b.stores[d].rows \subseteq Entity
  BY RowsShape DEF Partitioned, Shelf
<1>2. Canonical(b) \subseteq Entity
  BY <1>1 DEF Canonical
<1>3. Facts(b) \subseteq Fact
  BY <1>1 DEF Facts, Shelf
<1>4. CanonicalEdges(b) \subseteq Edge
  BY <1>1 DEF CanonicalEdges, Shelf
<1>5. ASSUME NEW f \in Facts(b) PROVE FactOf[f] \in Canonical(b)
  <2>1. PICK d \in 1..b.k : f \in b.stores[d].facts
    BY DEF Facts
  <2>2. FactOf[f] \in DOMAIN b.stores[d].rows /\ b.stores[d].rows[FactOf[f]] = "canonical"
    BY <1>1, <2>1 DEF AtHome, Routable
  <2> QED
    BY <2>2 DEF Canonical
<1>6. ASSUME NEW x \in CanonicalEdges(b) PROVE x[1] \in Canonical(b) /\ x[2] \in Canonical(b)
  <2>1. PICK d \in 1..b.k : x \in b.stores[d].edges /\ b.stores[d].rows[x[1]] = "canonical"
    BY DEF CanonicalEdges
  <2>2. x[1] \in DOMAIN b.stores[d].rows
    BY <1>1, <2>1 DEF AtHome
  <2> QED
    BY <2>1, <2>2 DEF Canonical, Routable
<1> QED
  BY <1>2, <1>3, <1>4, <1>5, <1>6

\* The parts of one routed store.
RoutedEdges(b, k, d) == {x \in CanonicalEdges(b) : d \in {Home[k][x[1]], Home[k][x[2]]}}
RoutedNames(b, k, d) ==
  {c \in Canonical(b) : Home[k][c] = d} \cup UNION {{x[1], x[2]} : x \in RoutedEdges(b, k, d)}
RoutedRows(b, k, d) ==
  [e \in RoutedNames(b, k, d) |-> IF Home[k][e] = d THEN "canonical" ELSE "stub"]
RoutedFacts(b, k, d) == {f \in Facts(b) : Home[k][FactOf[f]] = d}
\* route, store by store.
LEMMA RouteParts ==
  ASSUME NEW b, NEW k
  PROVE  /\ Route(b, k).k = k
         /\ Route(b, k) = [k |-> Route(b, k).k, stores |-> Route(b, k).stores]
         /\ Route(b, k).stores =
              [d \in 1..k |-> [rows |-> RoutedRows(b, k, d), facts |-> RoutedFacts(b, k, d),
                               edges |-> RoutedEdges(b, k, d)]]
BY DEF Route, RoutedEdges, RoutedNames, RoutedRows, RoutedFacts

\* The routed stores are partitioned, and a migration to them loses nothing.
LEMMA RouteShape ==
  ASSUME NEW b, NEW X, Partitioned(b, X), Routable(b), NEW k \in DOMAIN Home
  PROVE  /\ Partitioned(Route(b, k), {}) /\ Route(b, k).k = k
         /\ Canonical(Route(b, k)) = Canonical(b)
         /\ Facts(Route(b, k)) = Facts(b)
         /\ CanonicalEdges(Route(b, k)) = CanonicalEdges(b)
         /\ \A x \in CanonicalEdges(b), n \in {1, 2} : x \in Route(b, k).stores[Home[k][x[n]]].edges
         /\ \A x \in Edge, d \in 1..k : x \in Route(b, k).stores[d].edges =>
              x \in CanonicalEdges(b) /\ d \in {Home[k][x[1]], Home[k][x[2]]}
<1> DEFINE a == Route(b, k)
<1>1. /\ Canonical(b) \subseteq Entity /\ Facts(b) \subseteq Fact /\ CanonicalEdges(b) \subseteq Edge
      /\ \A f \in Facts(b) : FactOf[f] \in Canonical(b)
      /\ \A x \in CanonicalEdges(b) : x[1] \in Canonical(b) /\ x[2] \in Canonical(b)
  BY WhatIsRouted
<1>2. k \in Nat \ {0} /\ \A e \in Entity : Home[k][e] \in 1..k
  BY HomeAssumption
<1>3. /\ a.k = k /\ a = [k |-> a.k, stores |-> a.stores]
      /\ a.stores = [d \in 1..k |-> [rows |-> RoutedRows(b, k, d), facts |-> RoutedFacts(b, k, d),
                                     edges |-> RoutedEdges(b, k, d)]]
  BY RouteParts
<1> HIDE DEF a
<1>4. ASSUME NEW d \in 1..k
      PROVE  /\ a.stores[d] \in Shelf /\ AtHome(a.stores[d], k, d, {})
             /\ RoutedNames(b, k, d) \subseteq Canonical(b)
             /\ a.stores[d].rows = RoutedRows(b, k, d) /\ a.stores[d].facts = RoutedFacts(b, k, d)
             /\ a.stores[d].edges = RoutedEdges(b, k, d)
  <2>1. /\ a.stores[d] = [rows |-> RoutedRows(b, k, d), facts |-> RoutedFacts(b, k, d),
                          edges |-> RoutedEdges(b, k, d)]
    BY <1>3
  <2>2. RoutedNames(b, k, d) \subseteq Canonical(b)
    BY <1>1 DEF RoutedNames, RoutedEdges
  <2>3. DOMAIN RoutedRows(b, k, d) = RoutedNames(b, k, d)
        /\ RoutedRows(b, k, d) \in [RoutedNames(b, k, d) -> {"canonical", "stub"}]
    BY DEF RoutedRows
  <2>4. RoutedRows(b, k, d) \in Rows
    BY <1>1, <2>2, <2>3, RowsShape
  <2>5. a.stores[d] \in Shelf
    BY <1>1, <2>1, <2>4 DEF Shelf, RoutedFacts, RoutedEdges
  <2>6. \A e \in RoutedNames(b, k, d) : RoutedRows(b, k, d)[e] = IF Home[k][e] = d THEN "canonical" ELSE "stub"
    BY DEF RoutedRows
  <2>7. \A f \in RoutedFacts(b, k, d) : Home[k][FactOf[f]] = d /\ FactOf[f] \in RoutedNames(b, k, d)
    BY <1>1 DEF RoutedFacts, RoutedNames
  <2>8. \A x \in RoutedEdges(b, k, d) : x[1] \in RoutedNames(b, k, d) /\ x[2] \in RoutedNames(b, k, d)
    BY DEF RoutedNames
  <2>9. AtHome(a.stores[d], k, d, {})
    BY <2>1, <2>3, <2>6, <2>7, <2>8 DEF AtHome
  <2> QED
    BY <2>1, <2>2, <2>5, <2>9
<1>5. Partitioned(a, {})
  <2>1. a.stores \in [1..k -> Shelf]
    BY <1>3, <1>4
  <2> QED
    BY <1>3, <1>4, <2>1 DEF Partitioned
<1>6. ASSUME NEW d \in 1..k, NEW e \in RoutedNames(b, k, d)
      PROVE  RoutedRows(b, k, d)[e] = "canonical" <=> Home[k][e] = d
  BY DEF RoutedRows
<1>7. ASSUME NEW d \in 1..k PROVE DOMAIN a.stores[d].rows = RoutedNames(b, k, d)
  <2>1. a.stores[d].rows = RoutedRows(b, k, d)
    BY <1>4
  <2> QED
    BY <2>1 DEF RoutedRows
<1>8. Canonical(a) = Canonical(b)
  <2>1. ASSUME NEW e \in Canonical(a) PROVE e \in Canonical(b)
    <3>1. PICK d \in 1..k : e \in DOMAIN a.stores[d].rows
      BY <1>3 DEF Canonical
    <3> QED
      BY <1>4, <1>7, <3>1
  <2>2. ASSUME NEW e \in Canonical(b) PROVE e \in Canonical(a)
    <3> DEFINE d == Home[k][e]
    <3>1. d \in 1..k /\ e \in RoutedNames(b, k, d)
      BY <1>1, <1>2 DEF RoutedNames
    <3>2. e \in DOMAIN a.stores[d].rows /\ a.stores[d].rows[e] = "canonical"
      BY <1>4, <1>6, <1>7, <3>1
    <3> QED
      BY <1>3, <3>1, <3>2 DEF Canonical
  <2> QED
    BY <2>1, <2>2
<1>9. Facts(a) = Facts(b)
  <2>1. ASSUME NEW f \in Facts(a) PROVE f \in Facts(b)
    BY <1>3, <1>4 DEF Facts, RoutedFacts
  <2>2. ASSUME NEW f \in Facts(b) PROVE f \in Facts(a)
    <3>1. Home[k][FactOf[f]] \in 1..k
      BY <1>1, <1>2
    <3>2. f \in a.stores[Home[k][FactOf[f]]].facts
      BY <1>4, <3>1 DEF RoutedFacts
    <3> QED
      BY <1>3, <3>1, <3>2 DEF Facts
  <2> QED
    BY <2>1, <2>2
<1>10. ASSUME NEW x \in CanonicalEdges(b), NEW n \in {1, 2}
       PROVE  /\ x[n] \in Entity /\ Home[k][x[n]] \in 1..k
              /\ x \in a.stores[Home[k][x[n]]].edges
  <2>1. x[n] \in Entity
    BY <1>1
  <2>2. Home[k][x[n]] \in 1..k /\ Home[k][x[n]] \in {Home[k][x[1]], Home[k][x[2]]}
    BY <1>2, <2>1
  <2> QED
    BY <1>4, <2>1, <2>2 DEF RoutedEdges
<1>11. CanonicalEdges(a) = CanonicalEdges(b)
  <2>1. ASSUME NEW x \in CanonicalEdges(a) PROVE x \in CanonicalEdges(b)
    BY <1>3, <1>4 DEF CanonicalEdges, RoutedEdges
  <2>2. ASSUME NEW x \in CanonicalEdges(b) PROVE x \in CanonicalEdges(a)
    <3> DEFINE d == Home[k][x[1]]
    <3>1. d \in 1..k /\ x \in a.stores[d].edges /\ x[1] \in RoutedNames(b, k, d)
      BY <1>1, <1>10 DEF RoutedNames
    <3>2. a.stores[d].rows[x[1]] = "canonical"
      BY <1>4, <1>6, <3>1
    <3> QED
      BY <1>3, <3>1, <3>2 DEF CanonicalEdges
  <2> QED
    BY <2>1, <2>2
<1> QED
  BY <1>3, <1>4, <1>5, <1>8, <1>9, <1>10, <1>11 DEF a, RoutedEdges

-----------------------------------------------------------------------------
(* The migration keeps its place, and the profile one of its layouts. *)

\* Files of a generation.
LEMMA FilesShape ==
  ASSUME NEW k, NEW g \in {"cur", "next", "prev"}
  PROVE  /\ Files(k, g) \subseteq File /\ Files(k, g) # {}
         /\ \A f \in Files(k, g) : f.gen = g
         /\ {[f EXCEPT !.gen = "cur"] : f \in Files(k, g)} = Files(k, "cur")
<1>1. /\ 1 \in DOMAIN Names(k)
      /\ \A i \in DOMAIN Names(k) : Names(k)[i] \in {"memory", "fulltext", "vectors", "domains", "manifest"}
  <2>1. CASE k = 1
    BY <2>1 DEF Names
  <2>2. CASE k # 1
    BY <2>2 DEF Names
  <2> QED
    BY <2>1, <2>2
<1> DEFINE n == Names(k)
<1>2. \A G : Files(k, G) = {[name |-> n[i], gen |-> G] : i \in DOMAIN n}
  BY DEF Files
<1>3. /\ 1 \in DOMAIN n
      /\ \A i \in DOMAIN n : n[i] \in {"memory", "fulltext", "vectors", "domains", "manifest"}
  BY <1>1
<1> HIDE DEF n
<1>4. [name |-> n[1], gen |-> g] \in Files(k, g)
  BY <1>2, <1>3
<1>5. Files(k, g) \subseteq File
  BY <1>2, <1>3 DEF File
<1>6. ASSUME NEW f \in Files(k, g)
      PROVE  f.gen = g /\ [f EXCEPT !.gen = "cur"] \in Files(k, "cur")
  BY <1>2
<1>7. ASSUME NEW f \in Files(k, "cur")
      PROVE  \E h \in Files(k, g) : f = [h EXCEPT !.gen = "cur"]
  <2>1. PICK i \in DOMAIN n : f = [name |-> n[i], gen |-> "cur"]
    BY <1>2
  <2>2. [name |-> n[i], gen |-> g] \in Files(k, g)
    BY <1>2
  <2> QED
    BY <2>1, <2>2
<1>8. {[f EXCEPT !.gen = "cur"] : f \in Files(k, g)} = Files(k, "cur")
  <2> DEFINE all == {[f EXCEPT !.gen = "cur"] : f \in Files(k, g)}
  <2>1. ASSUME NEW x \in all PROVE x \in Files(k, "cur")
    BY <1>6
  <2>2. ASSUME NEW x \in Files(k, "cur") PROVE x \in all
    BY <1>7
  <2> HIDE DEF all
  <2>3. all = Files(k, "cur")
    BY <2>1, <2>2
  <2> QED
    BY <2>3 DEF all
<1> QED
  BY <1>4, <1>5, <1>6, <1>8

\* The next file to rename is one of those that are left.
LEMMA PickPicks ==
  ASSUME NEW k, NEW g, NEW dir, dir \cap Files(k, g) # {}
  PROVE  Pick(dir, k, g) \in dir \cap Files(k, g)
<1> DEFINE P(f) == \E i \in DOMAIN Names(k) : /\ f.name = Names(k)[i]
                                              /\ \A j \in 1..i - 1 : [name |-> Names(k)[j], gen |-> g] \notin dir
           at(i) == [name |-> Names(k)[i], gen |-> g]
<1>1. \E f \in dir \cap Files(k, g) : P(f)
  <2>1. \A i \in DOMAIN Names(k) : at(i).name = Names(k)[i] /\ at(i) \in Files(k, g)
    BY DEF Files
  <2>2. DOMAIN Names(k) = 1..3 \/ DOMAIN Names(k) = 1..2
    BY DEF Names
  <2>3. PICK i \in DOMAIN Names(k) : at(i) \in dir
    BY DEF Files
  <2>4. CASE 1 \in DOMAIN Names(k) /\ at(1) \in dir
    <3>1. P(at(1))
      BY <2>1, <2>4
    <3> QED
      BY <2>1, <2>4, <3>1
  <2>5. CASE at(1) \notin dir /\ 2 \in DOMAIN Names(k) /\ at(2) \in dir
    <3>1. P(at(2))
      <4>1. \A j \in 1..2 - 1 : at(j) \notin dir
        BY <2>5
      <4> QED
        BY <2>1, <2>5, <4>1
    <3> QED
      BY <2>1, <2>5, <3>1
  <2>6. CASE at(1) \notin dir /\ at(2) \notin dir /\ 3 \in DOMAIN Names(k) /\ at(3) \in dir
    <3>1. P(at(3))
      <4>1. \A j \in 1..3 - 1 : at(j) \notin dir
        <5>1. \A j \in 1..3 - 1 : j = 1 \/ j = 2
          OBVIOUS
        <5> QED
          BY <2>6, <5>1
      <4> QED
        BY <2>1, <2>6, <4>1
    <3> QED
      BY <2>1, <2>6, <3>1
  <2> HIDE DEF at
  <2>7. i \in {1, 2, 3} /\ 1 \in DOMAIN Names(k) /\ 2 \in DOMAIN Names(k)
    BY <2>2, <2>3
  <2> QED
    BY <2>3, <2>4, <2>5, <2>6, <2>7
<1> HIDE DEF P
<1>2. Pick(dir, k, g) = CHOOSE f \in dir \cap Files(k, g) : P(f)
  BY DEF Pick, P
<1> QED
  BY <1>1, <1>2

\* A call needs an open profile; nobody else but an opening process writes it.
LEMMA ClosedIsQuiet ==
  ASSUME BaseInv, ~opened, NextStore
  PROVE  db' = db /\ (Open \/ (opened' = FALSE /\ journal' = journal))
<1>1. ASSUME NEW t \in Thread, Call(t) PROVE FALSE
  BY <1>1 DEF Call, BaseInv, Remember, MirrorCommit, MirrorFails, HomeCommit, HomeFails, Bump, AddRelation,
     Forget, ForgetEntity, SweepStub, SweepFails, Tidy, TidyDomain, TidyFails, AllVisited, RecallStart,
     RecallDomain, RecallPut, RecallDone, Ready
<1>2. opened = FALSE
  BY DEF BaseInv
<1> QED
  BY <1>1, <1>2 DEF NextStore, CacheExpires, Open, Close, Crash, stores

\* The stores keep their number in every step of the processes.
LEMMA NumberStays ==
  ASSUME BaseInv, NextStore
  PROVE  db'.k = db.k
<1>1. \A d, s : Store(d, s) => db'.k = db.k
  BY DEF BaseInv, Partitioned, Store
<1>2. ASSUME NEW t \in Thread, Call(t) PROVE db'.k = db.k
  <2> USE DEF stores
  <2>1. CASE \/ Remember(t) \/ MirrorFails(t) \/ HomeFails(t) \/ Bump(t) \/ SweepFails(t)
             \/ Tidy(t) \/ TidyFails(t) \/ AllVisited(t)
             \/ RecallStart(t) \/ RecallDomain(t) \/ RecallPut(t) \/ RecallDone(t)
    BY <2>1 DEF Remember, MirrorFails, HomeFails, Bump, SweepFails, Tidy, TidyFails, AllVisited,
       RecallStart, RecallDomain, RecallPut, RecallDone
  <2>2. CASE MirrorCommit(t) \/ HomeCommit(t) \/ AddRelation(t)
    BY <1>1, <2>2 DEF MirrorCommit, HomeCommit, AddRelation
  <2>3. CASE Forget(t) \/ ForgetEntity(t)
    BY <1>1, <2>3 DEF Forget, ForgetEntity
  <2>4. CASE SweepStub(t) \/ TidyDomain(t)
    BY <1>1, <2>4 DEF SweepStub, TidyDomain
  <2> QED
    BY <1>2, <2>1, <2>2, <2>3, <2>4 DEF Call
<1> QED
  BY <1>2 DEF NextStore, CacheExpires, Open, Close, Crash, stores

\* A process leaves the migration where it is.
LEMMA StoreStepMigration ==
  ASSUME BaseInv, MigrationInv, NextStore, Open => MayOpen /\ mpc = "none", UNCHANGED layout
  PROVE  MigrationInv'
<1>1. db'.k = db.k
  BY NumberStays
<1>2. UNCHANGED <<root, backup, staging, sentinel, mpc, staged>>
  BY DEF layout
<1>3. ~opened => db' = db /\ (Open \/ (opened' = FALSE /\ journal' = journal))
  BY ClosedIsQuiet
<1>4. mpc' # "none" => /\ ~opened' /\ journal' = {}
                       /\ Routable(db') /\ staged' = Route(db', staged'.k)
  BY <1>2, <1>3 DEF MigrationInv
<1>5. sentinel' => ~opened'
  BY <1>2, <1>3 DEF MigrationInv, MayOpen
<1>6. Old' = Old /\ Staging' = Staging /\ Held' = Held
  BY <1>1, <1>2 DEF Old, Staging, Held
<1> QED
  BY <1>2, <1>4, <1>5, <1>6 DEF MigrationInv

\* A step of the migration, the operator's included.
LEMMA MigrationStep ==
  ASSUME BaseInv, MigrationInv, Migrate \/ Restore \/ RemoveBackup
  PROVE  BaseInv' /\ MigrationInv'
<1>1. db.k \in DOMAIN Home /\ Partitioned(db, strayed)
  BY DEF BaseInv, Partitioned
<1>2. \A k, g : g \in {"cur", "next", "prev"} =>
        /\ Files(k, g) \subseteq File /\ Files(k, g) # {} /\ \A f \in Files(k, g) : f.gen = g
        /\ {[f EXCEPT !.gen = "cur"] : f \in Files(k, g)} = Files(k, "cur")
  BY FilesShape
<1>3. \A S \in SUBSET File : S # NoDir
  BY DirAssumption
<1> USE DEF storeVars, stores, history
<1>4. ASSUME UNCHANGED <<opened, db, version, cache, pc, job, journal, acked, gone, torn, strayed, mix>>
      PROVE  BaseInv' /\ Old' = Old
  <2>1. Partitioned(db', strayed')
    BY <1>1, <1>4
  <2>2. \A t \in Thread : Proper(pc[t], job[t])'
    BY <1>4 DEF BaseInv, Proper, Crosses, HomeOf, Domain
  <2> QED
    BY <1>4, <2>1, <2>2 DEF BaseInv, Old
<1>5. CASE MigrateBuild
  <2>1. PICK k \in mix.domains : Routable(db) /\ staged' = Route(db, k) /\ staging' = Files(k, "next")
    BY <1>5 DEF MigrateBuild
  <2>2. k \in DOMAIN Home /\ staged'.k = k
    BY <2>1, MixAssumption, RouteParts DEF BaseInv
  <2>3. BaseInv' /\ Old' = Old
    BY <1>4, <1>5 DEF MigrateBuild
  <2>4. /\ ~opened /\ ~sentinel /\ backup = NoDir /\ journal = {} /\ mpc = "none" /\ mpc' = "mark"
        /\ UNCHANGED <<opened, db, journal, root, backup, sentinel>>
    BY <1>5 DEF MigrateBuild, AfterBuild
  <2>5. Routable(db') /\ staged' = Route(db', staged'.k) /\ staging' = Staging'
    BY <2>1, <2>2, <2>4 DEF Staging
  <2> QED
    BY <1>2, <2>1, <2>2, <2>3, <2>4, <2>5 DEF MigrationInv, Held
<1>6. CASE MigrateGivesUp
  <2>1. BaseInv' /\ Old' = Old
    BY <1>4, <1>6 DEF MigrateGivesUp
  <2> QED
    BY <1>6, <2>1 DEF MigrateGivesUp, MigrationInv, Held, Staging
<1>7. CASE MigrateMark
  <2>1. BaseInv' /\ Old' = Old
    BY <1>4, <1>7 DEF MigrateMark
  <2>2. \A f \in root : f.gen = "cur"
    BY <1>2, <1>7 DEF MigrateMark, MigrationInv, Old
  <2> QED
    BY <1>7, <2>1, <2>2 DEF MigrateMark, MigrationInv, Held, Staging
<1>8. CASE MigrateBackup
  <2>1. BaseInv' /\ Old' = Old
    BY <1>4, <1>8 DEF MigrateBackup
  <2>2. root # {} /\ \A f \in root : f.gen = "cur"
    BY <1>2, <1>8 DEF MigrateBackup, MigrationInv, Old
  <2> QED
    BY <1>3, <1>8, <2>1, <2>2 DEF MigrateBackup, MigrationInv, Held, Staging
<1>9. CASE MigratePark
  <2>1. BaseInv' /\ Old' = Old
    BY <1>4, <1>9 DEF MigratePark
  <2>2. /\ root # {} /\ \A f \in root : f.gen = "cur"
        /\ backup # NoDir /\ backup \subseteq File /\ root \subseteq File /\ root \cup backup = Old
        /\ sentinel
    BY <1>9 DEF MigratePark, MigrationInv, Held
  <2> DEFINE f == Pick(root, db.k, "cur")
  <2>3. f \in root
    BY <2>2, PickPicks DEF Old
  <2>4. /\ root' = root \ {f} /\ backup' = backup \cup {f}
        /\ mpc' = IF root' = {} THEN "place" ELSE "park"
        /\ UNCHANGED <<opened, db, journal, staging, sentinel, staged>>
    BY <1>9 DEF MigratePark
  <2> HIDE DEF f
  <2>5. backup' \subseteq File /\ backup' # NoDir /\ root' \cup backup' = Old
    BY <1>3, <2>2, <2>3, <2>4
  <2>6. Staging # {} /\ staging = Staging /\ staging # NoDir
    BY <1>2, <1>3, <1>9 DEF MigrationInv, MigratePark, Staging
  <2>7. {h \in root' : h.gen = "cur"} \cup Held' = Old'
    BY <2>1, <2>2, <2>4, <2>5 DEF Held
  <2>8. mpc' = "place" => backup' = Old' /\ root' \cup staging' = Staging'
    BY <2>1, <2>4, <2>5, <2>6 DEF Staging
  <2> QED
    BY <1>9, <2>1, <2>2, <2>4, <2>5, <2>6, <2>7, <2>8 DEF MigrationInv, MigratePark, Staging
<1>10. CASE MigratePlace
  <2>1. BaseInv' /\ Old' = Old
    BY <1>4, <1>10 DEF MigratePlace
  <2>2. /\ staging # NoDir /\ staging # {} /\ root \cup staging = Staging /\ sentinel
        /\ staging \subseteq File /\ root \subseteq File
        /\ {h \in root : h.gen = "cur"} \cup Held = Old
    BY <1>10 DEF MigratePlace, MigrationInv
  <2> DEFINE f == Pick(staging, staged.k, "next")
  <2>3. f \in staging /\ f \in Staging
    BY <2>2, PickPicks DEF Staging
  <2>4. /\ staging' = staging \ {f} /\ root' = root \cup {f}
        /\ mpc' = IF staging' = {} THEN "clear" ELSE "place"
        /\ UNCHANGED <<opened, db, journal, backup, sentinel, staged>>
    BY <1>10 DEF MigratePlace
  <2> HIDE DEF f
  <2>5. f.gen = "next" /\ f \in File
    BY <1>2, <2>3 DEF Staging
  <2>6. staging' \subseteq File /\ staging' # NoDir /\ root' \subseteq File /\ root' \cup staging' = Staging
    BY <1>3, <2>2, <2>3, <2>4, <2>5
  <2>7. {h \in root' : h.gen = "cur"} \cup Held' = Old' /\ Staging' = Staging
    BY <2>1, <2>2, <2>4, <2>5 DEF Held, Staging
  <2>8. \A h \in root' : h.gen \in {"cur", "next"}
    BY <2>4, <2>5 DEF MigrationInv
  <2> QED
    BY <1>10, <2>1, <2>2, <2>4, <2>6, <2>7, <2>8 DEF MigrationInv, MigratePlace
<1>11. CASE MigrateClear
  <2>1. BaseInv' /\ Old' = Old
    BY <1>4, <1>11 DEF MigrateClear
  <2> QED
    BY <1>11, <2>1 DEF MigrateClear, MigrationInv, Held, Staging
<1>12. CASE MigrateCommit
  <2>1. /\ ~opened /\ Routable(db) /\ staged = Route(db, staged.k) /\ staged.k \in DOMAIN Home
        /\ root = Staging /\ backup = Old /\ backup # NoDir /\ journal = {}
    BY <1>12 DEF MigrateCommit, MigrationInv
  <2>2. Partitioned(staged, {})
    BY <1>1, <2>1, RouteShape
  <2>3. /\ mpc' = "none" /\ sentinel' = FALSE /\ db' = staged /\ torn' = {} /\ strayed' = {}
        /\ root' = {[f EXCEPT !.gen = "cur"] : f \in root}
        /\ backup' = {[f EXCEPT !.gen = "prev"] : f \in backup}
        /\ UNCHANGED <<opened, version, cache, pc, job, journal, acked, gone, mix, staging, staged>>
    BY <1>12 DEF MigrateCommit
  <2>4. \A t \in Thread : pc'[t] = "idle" /\ job'[t] = NoJob
    BY <2>1, <2>3 DEF BaseInv, Proper
  <2>5. BaseInv'
    <3>1. Partitioned(db', strayed')
      BY <2>2, <2>3
    <3>2. ASSUME NEW t \in Thread PROVE Proper(pc[t], job[t])'
      <4>1. pc'[t] = "idle" /\ job'[t] = NoJob
        BY <2>4
      <4>2. Proper("idle", NoJob)'
        BY DEF Proper, NoJob
      <4> QED
        BY <4>1, <4>2 DEF Proper
    <3> QED
      BY <2>1, <2>3, <2>4, <3>1, <3>2 DEF BaseInv
  <2>6. root' = Files(staged.k, "cur") /\ Old' = Files(staged.k, "cur")
    BY <1>2, <2>1, <2>3 DEF Staging, Old
  <2>7. backup' \subseteq File
    BY <2>1, <2>3 DEF MigrationInv, File
  <2> QED
    BY <1>2, <2>1, <2>3, <2>5, <2>6, <2>7 DEF MigrationInv
<1>13. CASE MigrateCrash
  <2>1. BaseInv' /\ Old' = Old
    BY <1>4, <1>13 DEF MigrateCrash
  <2> QED
    BY <1>13, <2>1 DEF MigrateCrash, MigrationInv, Held, Staging
<1>14. CASE Restore
  <2>1. BaseInv' /\ Old' = Old
    BY <1>4, <1>14 DEF Restore
  <2>2. root' = Old /\ backup' = NoDir /\ sentinel' = FALSE /\ mpc' = "none"
    BY <1>14 DEF Restore, MigrationInv, Held
  <2> QED
    BY <1>2, <1>14, <2>1, <2>2 DEF Restore, MigrationInv, Old
<1>15. CASE RemoveBackup
  <2>1. BaseInv' /\ Old' = Old
    BY <1>4, <1>15 DEF RemoveBackup
  <2> QED
    BY <1>15, <2>1 DEF RemoveBackup, MigrationInv, Held, Staging
<1> QED
  BY <1>5, <1>6, <1>7, <1>8, <1>9, <1>10, <1>11, <1>12, <1>13, <1>14, <1>15 DEF Migrate

\* A profile is made with nothing in it.
LEMMA NothingStored ==
  Empty \in Shelf /\ \A k, d, X : AtHome(Empty, k, d, X)
<1>1. <<>> = [x \in {} |-> x]
  OBVIOUS
<1> DEFINE none == [x \in {} |-> x]
<1>2. none \in [{} -> {"canonical", "stub"}] /\ DOMAIN none = {}
  OBVIOUS
<1> HIDE DEF none
<1>3. none \in Rows
  BY <1>2, RowsShape
<1>4. Empty = [rows |-> none, facts |-> {}, edges |-> {}]
  BY <1>1 DEF Empty, none
<1>5. Empty \in Shelf
  BY <1>3, <1>4 DEF Shelf
<1> QED
  BY <1>2, <1>4, <1>5 DEF AtHome

\* A new profile has one whole layout and no migration.
LEMMA LayoutInit ==
  ASSUME Init
  PROVE  BaseInv /\ MigrationInv
<1>1. PICK k \in mix.domains : db = [k |-> k, stores |-> [d \in 1..k |-> Empty]]
  BY DEF Init, InitStore
<1>2. mix \in Mixes /\ k \in DOMAIN Home
  BY <1>1, MixAssumption DEF Init, InitStore
<1>3. /\ opened = FALSE /\ version = 0 /\ cache = NoEntry
      /\ pc = [t \in Thread |-> "idle"] /\ job = [t \in Thread |-> NoJob]
      /\ journal = {} /\ acked = {} /\ gone = {} /\ torn = {} /\ strayed = {}
      /\ root = Files(db.k, "cur") /\ backup = NoDir /\ staging = NoDir
      /\ sentinel = FALSE /\ mpc = "none" /\ staged = db
  BY DEF Init, InitStore
<1>4. Partitioned(db, strayed)
  BY <1>1, <1>2, NothingStored DEF Partitioned
<1>5. pc \in [Thread -> Pc] /\ job \in [Thread -> Job] /\ \A t \in Thread : Proper(pc[t], job[t])
  BY <1>3, AllIdle, NoJobShape
<1>6. BaseInv
  BY <1>2, <1>3, <1>4, <1>5 DEF BaseInv
<1>7. MigrationInv
  <2>1. root \subseteq File /\ \A f \in root : f.gen = "cur"
    BY <1>3, FilesShape
  <2> QED
    BY <1>1, <1>2, <1>3, <2>1 DEF MigrationInv, Held, Old
<1> QED
  BY <1>6, <1>7

\* The invariants of the profile and of its migration hold everywhere.
LEMMA LayoutInvStep ==
  ASSUME BaseInv /\ MigrationInv, [Next]_vars
  PROVE  BaseInv' /\ MigrationInv'
<1>1. CASE NextStore /\ (Open => MayOpen /\ mpc = "none") /\ UNCHANGED layout
  BY <1>1, StoreStepKeeps, StoreStepMigration
<1>2. CASE Migrate \/ Restore \/ RemoveBackup
  BY <1>2, MigrationStep
<1>3. CASE UNCHANGED vars
  <2>1. Partitioned(db', strayed')
    BY <1>3 DEF vars, storeVars, stores, BaseInv
  <2>2. \A t \in Thread : Proper(pc[t], job[t])'
    BY <1>3 DEF vars, storeVars, stores, BaseInv, Proper, Crosses, HomeOf, Domain
  <2>3. BaseInv'
    BY <1>3, <2>1, <2>2 DEF vars, storeVars, stores, history, BaseInv
  <2>4. MigrationInv'
    BY <1>3 DEF vars, storeVars, stores, layout, MigrationInv, Held, Old, Staging
  <2> QED
    BY <2>3, <2>4
<1> QED
  BY <1>1, <1>2, <1>3 DEF Next

\* In every reachable state the stores of the profile are its domains, with
\* every fact and edge in its place and every row of an entity that has not
\* strayed, the threads have what their steps need, and the migration's files are
\* where its program counter says.
THEOREM LayoutKept == Spec => [](BaseInv /\ MigrationInv)
<1>1. Init => BaseInv /\ MigrationInv
  BY LayoutInit
<1>2. BaseInv /\ MigrationInv /\ [Next]_vars => BaseInv' /\ MigrationInv'
  BY LayoutInvStep
<1> QED
  BY <1>1, <1>2, PTL DEF Spec

\* Every variable has its type, in the stores and in the migration.
THEOREM DomainsTyped == Spec => []TypeOK
<1>1. BaseInv /\ MigrationInv => TypeOK
  <2> SUFFICES ASSUME BaseInv, MigrationInv PROVE TypeOK
    OBVIOUS
  <2>1. \A d \in Domain : /\ Known(d) \subseteq Entity
                          /\ \A e \in Known(d) : db.stores[d].rows[e] \in {"canonical", "stub"}
                          /\ db.stores[d].facts \subseteq Fact
                          /\ db.stores[d].edges \subseteq Edge
    BY StoreShape, RowsShape DEF BaseInv, Known, Shelf
  <2>2. StoreTypeOK
    BY <2>1 DEF StoreTypeOK, BaseInv, Partitioned
  <2> QED
    BY <2>2 DEF TypeOK, MigrationInv
<1> QED
  BY <1>1, LayoutKept, PTL

\* Facts stay in the domain their entity's name hashes to, through every
\* interleaving of commits, calls by the ids of stubs, crashes and migrations, and
\* so do canonical rows, unless a batch by a stub's id wrote the entity when its
\* row there was gone: domain_for finds them.
THEOREM LookupsFindTheirDomain == Spec => []CanonicalAtHome
<1>1. BaseInv => CanonicalAtHome
  <2> SUFFICES ASSUME BaseInv, NEW d \in Domain
               PROVE  /\ \A e \in Known(d) \ strayed : (db.stores[d].rows[e] = "canonical") = (HomeOf(e) = d)
                      /\ \A f \in db.stores[d].facts : HomeOf(FactOf[f]) = d /\ FactOf[f] \in Known(d)
                      /\ \A x \in db.stores[d].edges : x[1] \in Known(d) /\ x[2] \in Known(d)
    BY DEF CanonicalAtHome
  <2>1. AtHome(db.stores[d], db.k, d, strayed)
    BY StoreShape DEF BaseInv
  <2> QED
    BY <2>1 DEF AtHome, Known, HomeOf
<1> QED
  BY <1>1, LayoutKept, PTL

\* Wherever a migration is interrupted, the profile without a sentinel is one
\* whole layout, and with one no file of the old layout is lost and nobody has
\* it open.
THEOREM LayoutIsRecoverable == Spec => []LayoutRecoverable
<1>1. BaseInv /\ MigrationInv => LayoutRecoverable
  BY DEF MigrationInv, LayoutRecoverable, Old, Held
<1> QED
  BY <1>1, LayoutKept, PTL

\* The one step that changes the number of domains writes what route made of
\* the very stores it replaces: nothing canonical is lost or invented, and both
\* sides of every edge are there.
THEOREM MigrationsPreserve == Spec => MigrationPreserves
<1> DEFINE Kept ==
       db'.k # db.k =>
         /\ Canonical(db') = Canonical(db)
         /\ Facts(db') = Facts(db)
         /\ CanonicalEdges(db') = CanonicalEdges(db)
         /\ \A x \in CanonicalEdges(db') :
              \A n \in {1, 2} : x \in db'.stores[Home[db'.k][x[n]]].edges
<1>1. BaseInv /\ MigrationInv /\ [Next]_vars => [Kept]_vars
  <2> SUFFICES ASSUME BaseInv, MigrationInv, Next PROVE Kept
    OBVIOUS
  <2> USE DEF storeVars, stores
  <2>1. CASE NextStore
    BY <2>1, NumberStays
  <2>2. CASE MigrateCommit
    <3>1. /\ Routable(db) /\ db' = Route(db, staged.k) /\ staged.k \in DOMAIN Home /\ Partitioned(db, strayed)
      BY <2>2 DEF MigrateCommit, MigrationInv, BaseInv
    <3> DEFINE k == staged.k
    <3>2. db' = Route(db, k) /\ k \in DOMAIN Home
      BY <3>1
    <3> HIDE DEF k
    <3> QED
      BY <3>1, <3>2, RouteShape
  <2>3. CASE Restore \/ RemoveBackup
    BY <2>3 DEF Restore, RemoveBackup
  <2>4. CASE Migrate /\ ~MigrateCommit
    BY <2>4 DEF Migrate, MigrateBuild, MigrateGivesUp, MigrateMark, MigrateBackup, MigratePark,
       MigratePlace, MigrateClear, MigrateCrash
  <2> QED
    BY <2>1, <2>2, <2>3, <2>4 DEF Next
<1>2. (BaseInv /\ MigrationInv) /\ [Next]_vars => [Kept]_vars
  BY <1>1
<1> QED
  BY <1>2, LayoutKept, PTL DEF Spec, MigrationPreserves
=============================================================================
