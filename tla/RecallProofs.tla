----------------------------- MODULE RecallProofs -----------------------------
(***************************************************************************)
(* What a recall of a partitioned profile answers (DomainStore): nothing   *)
(* that was removed before it began, and everything acknowledged that is   *)
(* still there, from the domains or from the cache.                        *)
(***************************************************************************)
EXTENDS DomainProofs

-----------------------------------------------------------------------------
(* Facts: nothing that was acknowledged or removed is written again. *)

Stored(f)  == \E d \in Domain : f \in db.stores[d].facts
Pending(f) == \/ \E t \in Thread : pc[t] \in {"mirror", "home"} /\ job[t].req.fact = f
              \/ \E r \in journal : r.fact = f
FactInv ==
  /\ \A t, u \in Thread :
       /\ job[t].req # <<>> /\ job[u].req # <<>> /\ job[t].req.fact \in Fact
       /\ job[t].req.fact = job[u].req.fact
       => t = u
  /\ \A r, s \in journal : r.fact \in Fact /\ r.fact = s.fact => r = s
  /\ \A f \in Fact : Pending(f) =>
       /\ ~Stored(f) /\ f \notin acked \cup gone
       /\ \A t \in Thread : f \notin job[t].gone
  /\ \A f \in Fact : (f \in gone \/ \E t \in Thread : f \in job[t].gone) => ~Stored(f)
\* A recall has what was acknowledged before it and is still in the domains it
\* has been to, and a valid entry of the cache what was acknowledged by now.
Recalled(l, j) == l \in {"fan", "answered"} =>
  /\ j.acked \subseteq acked /\ j.gone \subseteq gone /\ j.version <= version
  /\ j.version = version => j.acked = acked /\ j.gone = gone
  /\ j.hits \cap j.gone = {}
  /\ \A f \in j.acked, d \in Domain \ j.left : f \in db.stores[d].facts => f \in j.hits
CacheInv ==
  cache # NoEntry =>
    /\ cache.version <= version
    /\ cache.version = version => /\ cache.hits \cap gone = {}
                                  /\ \A f \in acked : Stored(f) => f \in cache.hits
RecallInv == CacheInv /\ \A t \in Thread : Recalled(pc[t], job[t])

-----------------------------------------------------------------------------
(* What each call does to the stores: it adds to one, or removes from one. *)

Only(d)         == /\ d \in Domain /\ db'.k = db.k
                   /\ \A x \in Domain \ {d} : db'.stores[x] = db.stores[x]
Adds(d, E, F, X) ==
  /\ Only(d)
  /\ DOMAIN db'.stores[d].rows = DOMAIN db.stores[d].rows \cup E
  /\ db'.stores[d].facts = db.stores[d].facts \cup F
  /\ db'.stores[d].edges = db.stores[d].edges \cup X
Removes(d, E, F, X) ==
  /\ Only(d)
  /\ DOMAIN db'.stores[d].rows = DOMAIN db.stores[d].rows \ E
  /\ db'.stores[d].facts = db.stores[d].facts \ F
  /\ db'.stores[d].edges = db.stores[d].edges \ X

\* A store that is written is the one that was meant, and no other.
LEMMA Written ==
  ASSUME BaseInv, NEW d \in Domain, NEW s, Store(d, s)
  PROVE  Only(d) /\ db'.stores[d] = s /\ DOMAIN db'.stores[d].rows = DOMAIN s.rows
<1>1. db = [k |-> db.k, stores |-> db.stores] /\ db.stores \in [1..db.k -> Shelf]
  BY DEF BaseInv, Partitioned
<1>2. db' = [k |-> db.k, stores |-> [db.stores EXCEPT ![d] = s]]
  BY <1>1 DEF Store
<1>3. db'.k = db.k /\ db'.stores = [db.stores EXCEPT ![d] = s]
  BY <1>2
<1> QED
  BY <1>1, <1>3 DEF Only, Domain
\* What a store holds is the same whichever rows are excepted.
LEMMA StoresHeld ==
  ASSUME BaseInv
  PROVE  Partitioned(db, Entity) /\ \A d \in Domain : /\ db.stores[d] \in Shelf
                                                   /\ AtHome(db.stores[d], db.k, d, Entity)
<1>1. Partitioned(db, Entity)
  BY MoreExcepted DEF BaseInv
<1> QED
  BY <1>1, StoreShape

\* A request adds its rows, its fact and its edge, mirrored at its target.
LEMMA MirrorAdds ==
  ASSUME BaseInv, NEW t \in Thread, MirrorCommit(t)
  PROVE  /\ job[t].req \in Request /\ Crosses(job[t].req, job[t].at)
         /\ Adds(HomeOf(job[t].req.target), {job[t].req.entity, job[t].req.target}, {},
                 {EdgeOf(job[t].req)})
<1> DEFINE r == job[t].req
           d == HomeOf(r.target)
<1>1. r \in Request /\ r.target # NoEntity /\ Crosses(r, job[t].at)
  BY DEF BaseInv, MirrorCommit, Proper, Crosses
<1>2. d \in Domain /\ r.entity \in Entity
  BY <1>1, CrossingEdge, HomeIsDomain DEF BaseInv
<1>3. db.stores[d] \in Shelf /\ AtHome(db.stores[d], db.k, d, Entity)
  BY <1>2, StoresHeld
<1> DEFINE s == WithMirror(db.stores[d], r)
<1>4. /\ DOMAIN s.rows = DOMAIN db.stores[d].rows \cup {r.entity, r.target}
      /\ s.facts = db.stores[d].facts /\ s.edges = db.stores[d].edges \cup {EdgeOf(r)}
  BY <1>1, <1>2, <1>3, MirrorShape DEF HomeOf
<1>5. Store(d, s)
  BY DEF MirrorCommit
<1> HIDE DEF d, s
<1>6. Adds(d, {r.entity, r.target}, {}, {EdgeOf(r)})
  BY <1>2, <1>4, <1>5, Written DEF Adds
<1> QED
  BY <1>1, <1>6 DEF d

\* The home commit adds the fact, and the edge.
LEMMA HomeAdds ==
  ASSUME BaseInv, NEW t \in Thread, HomeCommit(t)
  PROVE  /\ job[t].req \in Request
         /\ Adds(job[t].at, {job[t].req.entity, job[t].req.target} \ {NoEntity},
                 Observed(job[t].req), HomeEdges(job[t].req))
<1> DEFINE r == job[t].req
           d == job[t].at
<1>1. r \in Request /\ r.entity \in Entity /\ d \in Domain /\ (Observed(r) # {} => HomeOf(r.entity) = d)
  BY DEF BaseInv, HomeCommit, Proper, Request, Observed
<1>2. db.stores[d] \in Shelf /\ AtHome(db.stores[d], db.k, d, Entity)
  BY <1>1, StoresHeld
<1> DEFINE s == WithHome(db.stores[d], r, d)
<1>3. /\ DOMAIN s.rows = DOMAIN db.stores[d].rows \cup ({r.entity, r.target} \ {NoEntity})
      /\ s.facts = db.stores[d].facts \cup Observed(r)
      /\ s.edges = db.stores[d].edges \cup HomeEdges(r)
  BY <1>1, <1>2, HomeShape
<1>4. Store(d, s)
  BY DEF HomeCommit
<1> HIDE DEF d, s
<1>5. Adds(d, {r.entity, r.target} \ {NoEntity}, Observed(r), HomeEdges(r))
  BY <1>1, <1>3, <1>4, Written DEF Adds
<1> QED
  BY <1>1, <1>5 DEF d

\* A relation is an edge in the domain of both rows, or a request of the first.
LEMMA RelationAdds ==
  ASSUME BaseInv, NEW t \in Thread, AddRelation(t)
  PROVE  \E d \in Domain, from \in Entity, to \in Entity :
           \/ /\ Adds(d, {}, {}, {<<from, to>>})
              /\ torn' = IF HomeOf(from) # d \/ HomeOf(to) # d
                         THEN torn \cup {<<from, to>>} ELSE torn
              /\ Goto(t, "bump") /\ UNCHANGED job
           \/ /\ StartWrite(t, [entity |-> from, fact |-> NoFact, target |-> to], d)
              /\ torn' = IF HomeOf(from) # d THEN torn \cup {<<from, to>>} ELSE torn
              /\ UNCHANGED db
<1>1. PICK d \in Domain, c \in Domain : \E from \in Known(d), to \in Known(c) :
        /\ \/ /\ d = c
              /\ Store(d, [db.stores[d] EXCEPT !.edges = @ \cup {<<from, to>>}])
              /\ Goto(t, "bump") /\ UNCHANGED job
           \/ /\ d # c
              /\ StartWrite(t, [entity |-> from, fact |-> NoFact, target |-> to], d)
              /\ UNCHANGED db
        /\ torn' = IF HomeOf(from) # d \/ (d = c /\ HomeOf(to) # d)
                   THEN torn \cup {<<from, to>>} ELSE torn
  BY DEF AddRelation
<1>2. PICK from \in Known(d), to \in Known(c) :
        /\ \/ /\ d = c
              /\ Store(d, [db.stores[d] EXCEPT !.edges = @ \cup {<<from, to>>}])
              /\ Goto(t, "bump") /\ UNCHANGED job
           \/ /\ d # c
              /\ StartWrite(t, [entity |-> from, fact |-> NoFact, target |-> to], d)
              /\ UNCHANGED db
        /\ torn' = IF HomeOf(from) # d \/ (d = c /\ HomeOf(to) # d)
                   THEN torn \cup {<<from, to>>} ELSE torn
  BY <1>1
<1>3. /\ db.stores[d] \in Shelf /\ Known(d) \subseteq Entity /\ Known(c) \subseteq Entity
  BY StoresHeld, RowsShape DEF Known, Shelf
<1>4. from \in Entity /\ to \in Entity
  BY <1>3
<1> DEFINE s == [db.stores[d] EXCEPT !.edges = @ \cup {<<from, to>>}]
<1>5. /\ s.rows = db.stores[d].rows /\ s.facts = db.stores[d].facts
      /\ s.edges = db.stores[d].edges \cup {<<from, to>>}
  BY <1>3 DEF Shelf
<1> HIDE DEF s
<1>6. Store(d, s) => Adds(d, {}, {}, {<<from, to>>})
  BY <1>5, Written DEF Adds
<1>7. CASE d = c /\ Store(d, s) /\ Goto(t, "bump") /\ UNCHANGED job
  BY <1>2, <1>4, <1>6, <1>7
<1>8. CASE /\ d # c /\ UNCHANGED db
           /\ StartWrite(t, [entity |-> from, fact |-> NoFact, target |-> to], d)
  BY <1>2, <1>4, <1>8
<1> QED
  BY <1>2, <1>7, <1>8 DEF s

\* Observations go, and a fact is in one store only.
LEMMA ForgetRemoves ==
  ASSUME BaseInv, NEW t \in Thread, Forget(t)
  PROVE  \E d \in Domain, out \in SUBSET Fact :
           /\ out \subseteq db.stores[d].facts /\ Removes(d, {}, out, {})
           /\ Do(t, [NoJob EXCEPT !.gone = out])
<1>1. \A d \in Domain : db.stores[d] \in Shelf
  BY StoresHeld
<1>2. PICK d \in Domain, out \in SUBSET Fact :
        /\ out \subseteq db.stores[d].facts
        /\ Store(d, [db.stores[d] EXCEPT !.facts = @ \ out])
        /\ Do(t, [NoJob EXCEPT !.gone = out])
  BY <1>1 DEF Forget, Shelf
<1> DEFINE s == [db.stores[d] EXCEPT !.facts = @ \ out]
<1>3. s.rows = db.stores[d].rows /\ s.facts = db.stores[d].facts \ out /\ s.edges = db.stores[d].edges
  BY <1>1 DEF Shelf
<1>4. Store(d, s)
  BY <1>2
<1> HIDE DEF s
<1>5. Removes(d, {}, out, {})
  BY <1>3, <1>4, Written DEF Removes
<1> QED
  BY <1>2, <1>5

\* The row that is named goes with its facts and its edges, and then the stubs
\* elsewhere: no edge stays on one side unless the row is not the one at home.
LEMMA EntityRemoves ==
  ASSUME BaseInv, NEW t \in Thread, ForgetEntity(t)
  PROVE  \E d \in Domain, e \in Entity :
           /\ Removes(d, {e}, {f \in Fact : FactOf[f] = e}, Incident(e))
           /\ Do(t, [NoJob EXCEPT !.entity = e, !.at = d, !.left = Elsewhere(d),
                       !.gone = {f \in db.stores[d].facts : FactOf[f] = e}])
           /\ torn' = IF HomeOf(e) = d THEN torn ELSE torn \cup Incident(e)
<1>1. PICK d \in Domain : \E e \in Known(d) :
        /\ Store(d, Drop(db.stores[d], e))
        /\ Do(t, [NoJob EXCEPT !.entity = e, !.at = d, !.left = Elsewhere(d),
                    !.gone = {f \in db.stores[d].facts : FactOf[f] = e}])
        /\ torn' = IF HomeOf(e) = d THEN torn ELSE torn \cup Incident(e)
  BY DEF ForgetEntity
<1>2. PICK e \in Known(d) :
        /\ Store(d, Drop(db.stores[d], e))
        /\ Do(t, [NoJob EXCEPT !.entity = e, !.at = d, !.left = Elsewhere(d),
                    !.gone = {f \in db.stores[d].facts : FactOf[f] = e}])
        /\ torn' = IF HomeOf(e) = d THEN torn ELSE torn \cup Incident(e)
  BY <1>1
<1> DEFINE s == Drop(db.stores[d], e)
<1>3. db.stores[d] \in Shelf /\ AtHome(db.stores[d], db.k, d, Entity)
  BY StoresHeld
<1>4. e \in Entity
  BY <1>3, RowsShape DEF Known, Shelf
<1>5. /\ DOMAIN s.rows = DOMAIN db.stores[d].rows \ {e}
      /\ s.facts = {f \in db.stores[d].facts : FactOf[f] # e}
      /\ s.edges = db.stores[d].edges \ Incident(e)
  BY <1>3, DropShape
<1>6. s.facts = db.stores[d].facts \ {f \in Fact : FactOf[f] = e}
  BY <1>3, <1>5 DEF Shelf
<1>7. Store(d, s)
  BY <1>2
<1> HIDE DEF s
<1>8. Removes(d, {e}, {f \in Fact : FactOf[f] = e}, Incident(e))
  BY <1>5, <1>6, <1>7, Written DEF Removes
<1> QED
  BY <1>2, <1>4, <1>8

\* A sweep takes the stub with its facts and its edges, or finds none; away from
\* home it leaves nothing of an entity that has not strayed.
LEMMA SweepRemoves ==
  ASSUME BaseInv, NEW t \in Thread, SweepStub(t)
  PROVE  \E d \in job[t].left, E \in SUBSET {job[t].entity}, F \in SUBSET Fact,
            X \in SUBSET Incident(job[t].entity) :
           /\ d \in Domain /\ F \subseteq db.stores[d].facts /\ Removes(d, E, F, X)
           /\ Do(t, [job[t] EXCEPT !.left = @ \ {d}, !.gone = @ \cup F])
           /\ job[t].entity \notin strayed /\ HomeOf(job[t].entity) # d
                => E = {job[t].entity} /\ X = Incident(job[t].entity)
<1> DEFINE e == job[t].entity
           stub(d) == e \in Known(d) /\ db.stores[d].rows[e] = "stub"
           out(d) == IF stub(d) THEN {f \in db.stores[d].facts : FactOf[f] = e} ELSE {}
<1>1. PICK d \in job[t].left :
        /\ Store(d, IF stub(d) THEN Drop(db.stores[d], e) ELSE db.stores[d])
        /\ Do(t, [job[t] EXCEPT !.left = @ \ {d}, !.gone = @ \cup out(d)])
  BY DEF SweepStub
<1> DEFINE b == db.stores[d]
<1>2. d \in Domain /\ e \in Entity
  BY <1>1 DEF BaseInv, Proper, SweepStub
<1>3. b \in Shelf /\ AtHome(b, db.k, d, strayed) /\ AtHome(b, db.k, d, Entity)
  BY <1>2, StoreShape, StoresHeld DEF BaseInv
<1>4. CASE stub(d)
  <2> DEFINE s == Drop(b, e)
             F == {f \in b.facts : FactOf[f] = e}
  <2>1. /\ DOMAIN s.rows = DOMAIN b.rows \ {e}
        /\ s.facts = {f \in b.facts : FactOf[f] # e} /\ s.edges = b.edges \ Incident(e)
    BY <1>3, DropShape
  <2>2. F \in SUBSET Fact /\ F \subseteq b.facts /\ s.facts = b.facts \ F
    BY <1>3, <2>1 DEF Shelf
  <2>3. Store(d, s) /\ Do(t, [job[t] EXCEPT !.left = @ \ {d}, !.gone = @ \cup F])
    BY <1>1, <1>4
  <2> HIDE DEF s, F
  <2>4. Removes(d, {e}, F, Incident(e))
    BY <1>2, <2>1, <2>2, <2>3, Written DEF Removes
  <2> QED
    BY <1>2, <2>2, <2>3, <2>4
<1>5. CASE ~stub(d)
  <2>1. Store(d, b) /\ Do(t, [job[t] EXCEPT !.left = @ \ {d}, !.gone = @ \cup {}])
    BY <1>1, <1>5
  <2>2. /\ Only(d) /\ db'.stores[d] = b
    BY <1>2, <2>1, Written
  <2>3. ASSUME NEW E, NEW X, DOMAIN b.rows = DOMAIN b.rows \ E, b.edges = b.edges \ X
        PROVE  Removes(d, E, {}, X)
    BY <2>2, <2>3 DEF Removes
  <2>4. CASE e \in strayed \/ HomeOf(e) = d
    <3>1. Removes(d, {}, {}, {})
      BY <2>3
    <3> QED
      BY <1>2, <2>1, <2>4, <3>1
  <2>5. CASE e \notin strayed /\ HomeOf(e) # d
    <3>1. e \notin DOMAIN b.rows
      BY <1>3, <1>5, <2>5 DEF AtHome, Known, HomeOf
    <3>2. DOMAIN b.rows = DOMAIN b.rows \ {e} /\ b.edges = b.edges \ Incident(e)
      BY <1>3, <3>1 DEF AtHome, Incident
    <3>3. Removes(d, {e}, {}, Incident(e))
      BY <2>3, <3>2
    <3> WITNESS d \in job[t].left, {e} \in SUBSET {job[t].entity}, {} \in SUBSET Fact,
                Incident(e) \in SUBSET Incident(job[t].entity)
    <3> QED
      BY <1>2, <2>1, <3>3
  <2> QED
    BY <2>4, <2>5
<1> QED
  BY <1>4, <1>5

\* Rows that tidying takes have neither facts nor edges.
LEMMA TidyRemoves ==
  ASSUME BaseInv, NEW t \in Thread, TidyDomain(t)
  PROVE  \E d \in job[t].left, S \in SUBSET Fact, R \in SUBSET Entity :
           /\ S \subseteq db.stores[d].facts /\ Removes(d, R, S, {})
           /\ Do(t, [job[t] EXCEPT !.left = @ \ {d}, !.gone = @ \cup S])
<1>1. PICK d \in job[t].left, S \in SUBSET Fact, R \in SUBSET Entity :
        LET s == db.stores[d] IN
        /\ S \subseteq s.facts
        /\ R \subseteq {e \in Known(d) : /\ s.edges \cap Incident(e) = {}
                                         /\ \A f \in s.facts \ S : FactOf[f] # e}
        /\ Store(d, [s EXCEPT !.facts = @ \ S, !.rows = [e \in DOMAIN @ \ R |-> @[e]]])
        /\ Do(t, [job[t] EXCEPT !.left = @ \ {d}, !.gone = @ \cup S])
  BY DEF TidyDomain
<1> DEFINE s == db.stores[d]
           rows == [e \in DOMAIN s.rows \ R |-> s.rows[e]]
           z == [s EXCEPT !.facts = @ \ S, !.rows = [e \in DOMAIN @ \ R |-> @[e]]]
<1>2. d \in Domain
  BY <1>1 DEF BaseInv, Proper
<1>3. s \in Shelf
  BY <1>2, StoresHeld
<1>4. rows \in Rows /\ DOMAIN rows = DOMAIN s.rows \ R /\ \A e \in DOMAIN rows : rows[e] = s.rows[e]
  BY <1>3, RowsLeft DEF Shelf
<1>5. z = [s EXCEPT !.facts = s.facts \ S, !.rows = rows]
  OBVIOUS
<1>6. Store(d, z)
  BY <1>1
<1> HIDE DEF rows, z
<1>7. z = [rows |-> rows, facts |-> s.facts \ S, edges |-> s.edges]
  BY <1>3, <1>5 DEF Shelf
<1>8. Removes(d, R, S, {})
  BY <1>2, <1>4, <1>6, <1>7, Written DEF Removes
<1> QED
  BY <1>1, <1>8

\* What that means for a fact.
LEMMA OneStore ==
  ASSUME BaseInv, NEW d \in Domain, NEW e \in Domain, NEW f,
         f \in db.stores[d].facts, f \in db.stores[e].facts
  PROVE  d = e
BY StoreShape DEF BaseInv, AtHome

\* What that means for the facts of the profile.
LEMMA StoredAfter ==
  ASSUME BaseInv
  PROVE  /\ db' = db => \A f : Stored(f)' <=> Stored(f)
         /\ \A d, E, F, X : Adds(d, E, F, X) => \A f : Stored(f)' <=> Stored(f) \/ f \in F
         /\ \A d, E, F, X : Removes(d, E, F, X) =>
              /\ \A f : Stored(f)' => Stored(f)
              /\ \A f \in F \cap db.stores[d].facts : Stored(f) /\ ~Stored(f)'
<1>1. db' = db => \A f : Stored(f)' <=> Stored(f)
  BY DEF Stored, Domain
<1>2. ASSUME NEW d, NEW E, NEW F, NEW X, Adds(d, E, F, X), NEW f
      PROVE  Stored(f)' <=> Stored(f) \/ f \in F
  BY <1>2 DEF Adds, Only, Stored, Domain
<1>3. ASSUME NEW d, NEW E, NEW F, NEW X, Removes(d, E, F, X), NEW f, Stored(f)'
      PROVE  Stored(f)
  BY <1>3 DEF Removes, Only, Stored, Domain
<1>4. ASSUME NEW d, NEW E, NEW F, NEW X, Removes(d, E, F, X), NEW f \in F \cap db.stores[d].facts
      PROVE  Stored(f) /\ ~Stored(f)'
  BY <1>4, OneStore DEF Removes, Only, Stored, Domain
<1> QED
  BY <1>1, <1>2, <1>3, <1>4

-----------------------------------------------------------------------------
(* Facts are written once. *)

\* What every call leaves alone.
Thereby(t) == opened /\ UNCHANGED <<opened, journal>> /\ Others(t)
\* A call is a step of one thread in an open profile.
LEMMA CallIsOfOne ==
  ASSUME BaseInv, NEW t \in Thread, Call(t)
  PROVE  Thereby(t)
<1> USE DEF Thereby, Others, stores, Ready, Finish, Goto, Do, BaseInv
<1>3. CASE \/ MirrorFails(t) \/ HomeFails(t) \/ Bump(t) \/ SweepFails(t)
           \/ Tidy(t) \/ TidyFails(t) \/ AllVisited(t)
  BY <1>3 DEF MirrorFails, HomeFails, Bump, SweepFails, Tidy, TidyFails, AllVisited
<1>4. CASE Remember(t) \/ AddRelation(t)
  BY <1>4 DEF Remember, AddRelation, StartWrite
<1>5. CASE RecallStart(t) \/ RecallDomain(t) \/ RecallPut(t) \/ RecallDone(t)
  BY <1>5 DEF RecallStart, RecallDomain, RecallPut, RecallDone
<1>6. CASE MirrorCommit(t) \/ HomeCommit(t)
  BY <1>6 DEF MirrorCommit, HomeCommit
<1>7. CASE Forget(t) \/ ForgetEntity(t) \/ SweepStub(t) \/ TidyDomain(t)
  BY <1>7 DEF Forget, ForgetEntity, SweepStub, TidyDomain
<1> QED
  BY <1>3, <1>4, <1>5, <1>6, <1>7 DEF Call

\* A step of t to l with j in hand, which stores no fact but its request's,
\* takes a request only for a fact nobody has written, removes only what it
\* has taken out, and acknowledges only its own.
LEMMA FactKeeps ==
  ASSUME BaseInv, BaseInv', FactInv, NEW t \in Thread, Thereby(t),
         \A f \in Fact : Stored(f)' =>
           \/ Stored(f)
           \/ pc[t] = "home" /\ job[t].req.fact = f /\ pc'[t] = "bump",
         \/ job'[t].req = <<>> \/ job'[t].req.fact \notin Fact \/ Unwritten(job'[t].req.fact)
         \/ job'[t].req = job[t].req /\ (pc'[t] \in {"mirror", "home"} => pc[t] \in {"mirror", "home"}),
         \A f \in job'[t].gone : f \in job[t].gone \/ f \in gone \/ (Stored(f) /\ ~Stored(f)'),
         \A f \in gone' : f \in gone \/ f \in job[t].gone,
         \A f \in acked' : f \in acked \/ (job[t].req # <<>> /\ job[t].req.fact = f /\ pc'[t] = "idle")
  PROVE  FactInv'
<1>1. journal = {} /\ journal' = {} /\ opened
  BY DEF BaseInv, Thereby
<1>2. Others(t)
  BY DEF Thereby
<1>3. Proper(pc[t], job[t])' /\ \A u \in Thread : Proper(pc[u], job[u]) /\ job[u] \in Job
  BY DEF BaseInv
<1>4. ASSUME NEW u \in Thread \ {t}, job'[t].req # <<>>, job[u].req # <<>>, job'[t].req.fact \in Fact,
             job'[t].req.fact = job[u].req.fact
      PROVE  FALSE
  BY <1>4 DEF FactInv, Unwritten
<1>5. \A u, v \in Thread :
        /\ job'[u].req # <<>> /\ job'[v].req # <<>> /\ job'[u].req.fact \in Fact
        /\ job'[u].req.fact = job'[v].req.fact
        => u = v
  BY <1>2, <1>4 DEF Others, FactInv
<1>6. ASSUME NEW f \in Fact, NEW u \in Thread, pc[u] \in {"mirror", "home"}, job[u].req.fact = f
      PROVE  /\ job[u].req # <<>> /\ ~Stored(f) /\ f \notin acked \cup gone
             /\ \A v \in Thread : f \notin job[v].gone
             /\ \A v \in Thread \ {u} : job[v].req # <<>> => job[v].req.fact # f
  BY <1>3, <1>6 DEF FactInv, Pending, Proper
<1>7. ASSUME NEW f \in Fact, Pending(f)'
      PROVE  /\ ~Stored(f)' /\ f \notin acked' \cup gone'
             /\ \A v \in Thread : f \notin job'[v].gone
  <2>1. PICK u \in Thread : pc'[u] \in {"mirror", "home"} /\ job'[u].req.fact = f
    BY <1>1, <1>7 DEF Pending
  <2>2. CASE u # t
    <3>1. pc[u] \in {"mirror", "home"} /\ job[u].req.fact = f
      BY <1>2, <2>1, <2>2 DEF Others
    <3>2. /\ ~Stored(f) /\ f \notin acked \cup gone
          /\ \A v \in Thread : f \notin job[v].gone
          /\ job[t].req # <<>> => job[t].req.fact # f
      BY <1>6, <2>2, <3>1
    <3>3. pc[t] = "home" => job[t].req # <<>>
      BY <1>3 DEF Proper
    <3> QED
      BY <1>2, <3>2, <3>3 DEF Others
  <2>3. CASE u = t
    <3>1. pc'[t] \in {"mirror", "home"} /\ job'[t].req.fact = f /\ job'[t].req # <<>>
      BY <1>2, <1>3, <2>1, <2>3 DEF Proper
    <3>2. CASE Unwritten(f)
      BY <1>2, <3>1, <3>2 DEF Unwritten, Others, Stored
    <3>3. CASE job'[t].req = job[t].req /\ pc[t] \in {"mirror", "home"}
      <4>1. /\ ~Stored(f) /\ f \notin acked \cup gone /\ \A v \in Thread : f \notin job[v].gone
        BY <1>6, <3>1, <3>3
      <4> QED
        BY <1>2, <3>1, <4>1 DEF Others
    <3> QED
      BY <3>1, <3>2, <3>3
  <2> QED
    BY <2>2, <2>3
<1>8. ASSUME NEW f \in Fact, f \in gone' \/ \E u \in Thread : f \in job'[u].gone
      PROVE  ~Stored(f)'
  <2>1. CASE f \in gone \/ \E u \in Thread : f \in job[u].gone
    <3>1. ~Stored(f)
      BY <2>1 DEF FactInv
    <3>2. ~(pc[t] = "home" /\ job[t].req.fact = f)
      BY <1>6, <2>1
    <3> QED
      BY <3>1, <3>2
  <2>2. CASE Stored(f) /\ ~Stored(f)'
    BY <2>2
  <2> QED
    BY <1>2, <1>8, <2>1, <2>2 DEF Others
<1> QED
  BY <1>1, <1>5, <1>7, <1>8 DEF FactInv

\* Every call keeps it.
LEMMA CallKeepsFacts ==
  ASSUME BaseInv, BaseInv', FactInv, NEW t \in Thread, Call(t)
  PROVE  FactInv'
<1>1. /\ Thereby(t) /\ Proper(pc[t], job[t]) /\ job[t] \in Job
      /\ pc \in [Thread -> Pc] /\ job \in [Thread -> Job]
  BY CallIsOfOne DEF BaseInv
<1>2. /\ NoJob.req = <<>> /\ NoJob.gone = {}
      /\ \A r, d : /\ [NoJob EXCEPT !.req = r, !.at = d].req = r
                   /\ [NoJob EXCEPT !.req = r, !.at = d].gone = {}
      /\ \A S : [NoJob EXCEPT !.gone = S].req = <<>> /\ [NoJob EXCEPT !.gone = S].gone = S
  BY DEF NoJob
<1>3. /\ db' = db => \A f : Stored(f)' <=> Stored(f)
      /\ \A d, E, F, X : Adds(d, E, F, X) => \A f : Stored(f)' <=> Stored(f) \/ f \in F
      /\ \A d, E, F, X : Removes(d, E, F, X) =>
              /\ \A f : Stored(f)' => Stored(f)
              /\ \A f \in F \cap db.stores[d].facts : Stored(f) /\ ~Stored(f)'
  BY StoredAfter
<1> USE DEF stores, Goto, Do, Finish, history
<1>4. CASE \/ MirrorFails(t) \/ HomeFails(t) \/ SweepFails(t) \/ TidyFails(t) \/ AllVisited(t)
  <2>1. UNCHANGED <<db, acked, gone>> /\ job'[t] \in {job[t], NoJob}
        /\ (pc'[t] \in {"mirror", "home"} => pc[t] = "mirror")
    BY <1>1, <1>4 DEF MirrorFails, HomeFails, SweepFails, TidyFails, AllVisited
  <2> QED
    BY <1>1, <1>2, <1>3, <2>1, FactKeeps
<1>5. CASE Bump(t)
  <2>1. db' = db /\ job'[t] = NoJob /\ pc'[t] = "idle" /\ gone' = gone \cup job[t].gone
        /\ acked' = acked \cup {f \in Fact : job[t].req # <<>> /\ job[t].req.fact = f}
    BY <1>1, <1>5 DEF Bump
  <2> QED
    BY <1>1, <1>2, <1>3, <2>1, FactKeeps
<1>6. CASE RecallPut(t) \/ RecallDone(t) \/ Tidy(t)
  <2>1. /\ UNCHANGED <<db, acked, gone>> /\ pc'[t] \in {"answered", "idle", "tidy"}
        /\ job'[t] \in {job[t], NoJob, [NoJob EXCEPT !.left = Domain]}
    BY <1>1, <1>6 DEF RecallPut, RecallDone, Tidy
  <2>2. job'[t].req \in {job[t].req, <<>>} /\ job'[t].gone \subseteq job[t].gone
    BY <1>2, <2>1 DEF NoJob
  <2> QED
    BY <1>1, <1>3, <2>1, <2>2, FactKeeps
<1>7. CASE RecallStart(t)
  <2>1. UNCHANGED <<db, acked, gone>> /\ job'[t].req = <<>> /\ job'[t].gone = gone
    BY <1>1, <1>7 DEF RecallStart, NoJob
  <2> QED
    BY <1>1, <1>3, <2>1, FactKeeps
<1>8. CASE RecallDomain(t)
  <2>1. /\ UNCHANGED <<db, acked, gone>> /\ job'[t].req = job[t].req /\ job'[t].gone = job[t].gone
        /\ pc'[t] = "fan"
    BY <1>1, <1>8 DEF RecallDomain, Job
  <2> QED
    BY <1>1, <1>3, <2>1, FactKeeps
<1>9. CASE Remember(t)
  <2>1. PICK r \in mix.requests : /\ r.fact # NoFact => Unwritten(r.fact)
                                 /\ StartWrite(t, r, HomeOf(r.entity))
    BY <1>9 DEF Remember
  <2>2. /\ UNCHANGED <<db, acked, gone>> /\ job'[t] = [NoJob EXCEPT !.req = r, !.at = HomeOf(r.entity)]
        /\ r \in Request
    BY <1>1, <1>9, <2>1, MixAssumption DEF Remember, StartWrite, BaseInv
  <2>3. /\ job'[t].req = r /\ job'[t].gone = {} /\ \A f : Stored(f)' <=> Stored(f)
        /\ r.fact \notin Fact \/ Unwritten(r.fact)
    BY <1>2, <1>3, <2>1, <2>2, FactAssumption
  <2> QED
    BY <1>1, <2>2, <2>3, FactKeeps
<1>10. CASE AddRelation(t)
  <2>1. PICK d \in Domain, from \in Entity, to \in Entity :
           \/ /\ Adds(d, {}, {}, {<<from, to>>})
              /\ Goto(t, "bump") /\ UNCHANGED job
           \/ /\ StartWrite(t, [entity |-> from, fact |-> NoFact, target |-> to], d)
              /\ UNCHANGED db
    BY <1>10, RelationAdds
  <2>2. UNCHANGED <<acked, gone>>
    BY <1>10 DEF AddRelation
  <2>3. CASE Adds(d, {}, {}, {<<from, to>>}) /\ Goto(t, "bump") /\ UNCHANGED job
    <3>1. pc'[t] = "bump" /\ job'[t] = job[t] /\ \A f : Stored(f)' <=> Stored(f)
      BY <1>1, <1>3, <2>3
    <3> QED
      BY <1>1, <2>2, <3>1, FactKeeps
  <2>4. CASE StartWrite(t, [entity |-> from, fact |-> NoFact, target |-> to], d) /\ UNCHANGED db
    <3>1. job'[t] = [NoJob EXCEPT !.req = [entity |-> from, fact |-> NoFact, target |-> to], !.at = d]
      BY <1>1, <2>4 DEF StartWrite
    <3>2. job'[t].req.fact = NoFact /\ job'[t].gone = {} /\ \A f : Stored(f)' <=> Stored(f)
      BY <1>2, <1>3, <2>4, <3>1
    <3> QED
      BY <1>1, <2>2, <3>2, FactKeeps, FactAssumption
  <2> QED
    BY <2>1, <2>3, <2>4
<1>11. CASE MirrorCommit(t)
  <2>1. \A f : Stored(f)' <=> Stored(f)
    <3>1. PICK d, E, X : Adds(d, E, {}, X)
      BY <1>11, MirrorAdds
    <3>2. \A f : Stored(f)' <=> Stored(f) \/ f \in {}
      BY <1>3, <3>1
    <3> QED
      BY <3>2
  <2>2. UNCHANGED <<acked, gone>> /\ job'[t] = job[t] /\ pc[t] = "mirror"
    BY <1>1, <1>11 DEF MirrorCommit
  <2> QED
    BY <1>1, <2>1, <2>2, FactKeeps
<1>12. CASE HomeCommit(t)
  <2>1. /\ \A f : Stored(f)' <=> Stored(f) \/ f \in Observed(job[t].req)
        /\ UNCHANGED <<acked, gone>> /\ job'[t] = job[t] /\ pc[t] = "home" /\ pc'[t] = "bump"
    BY <1>1, <1>3, <1>12, HomeAdds DEF HomeCommit
  <2> QED
    BY <1>1, <2>1, FactKeeps DEF Observed
<1>13. CASE Forget(t)
  <2>1. PICK d \in Domain, out \in SUBSET Fact :
           /\ out \subseteq db.stores[d].facts /\ Removes(d, {}, out, {})
           /\ Do(t, [NoJob EXCEPT !.gone = out])
    BY <1>13, ForgetRemoves
  <2>2. UNCHANGED <<acked, gone>> /\ job'[t].req = <<>> /\ job'[t].gone = out
    BY <1>1, <1>2, <1>13, <2>1 DEF Forget
  <2>3. (\A f : Stored(f)' => Stored(f)) /\ \A f \in out : Stored(f) /\ ~Stored(f)'
    BY <1>3, <2>1
  <2> QED
    BY <1>1, <2>2, <2>3, FactKeeps
<1>14. CASE ForgetEntity(t)
  <2>1. PICK d \in Domain, e \in Entity :
           /\ Removes(d, {e}, {f \in Fact : FactOf[f] = e}, Incident(e))
           /\ Do(t, [NoJob EXCEPT !.entity = e, !.at = d, !.left = Elsewhere(d),
                       !.gone = {f \in db.stores[d].facts : FactOf[f] = e}])
           /\ torn' = IF HomeOf(e) = d THEN torn ELSE torn \cup Incident(e)
    BY <1>14, EntityRemoves
  <2> DEFINE out == {f \in db.stores[d].facts : FactOf[f] = e}
  <2>2. UNCHANGED <<acked, gone>> /\ job'[t].req = <<>> /\ job'[t].gone = out
    BY <1>1, <1>14, <2>1 DEF ForgetEntity, NoJob
  <2>3. db.stores[d].facts \subseteq Fact
    BY StoresHeld DEF Shelf
  <2>4. (\A f : Stored(f)' => Stored(f)) /\ \A f \in out : Stored(f) /\ ~Stored(f)'
    BY <1>3, <2>1, <2>3
  <2> QED
    BY <1>1, <2>2, <2>4, FactKeeps
<1>15. CASE SweepStub(t)
  <2>1. PICK d \in job[t].left, E \in SUBSET {job[t].entity}, F \in SUBSET Fact,
             X \in SUBSET Incident(job[t].entity) :
           /\ d \in Domain /\ F \subseteq db.stores[d].facts /\ Removes(d, E, F, X)
           /\ Do(t, [job[t] EXCEPT !.left = @ \ {d}, !.gone = @ \cup F])
           /\ job[t].entity \notin strayed /\ HomeOf(job[t].entity) # d
                => E = {job[t].entity} /\ X = Incident(job[t].entity)
    BY <1>15, SweepRemoves
  <2>2. /\ UNCHANGED <<acked, gone>> /\ job'[t].req = job[t].req
        /\ job'[t].gone = job[t].gone \cup F /\ pc' = pc
    BY <1>1, <1>15, <2>1 DEF SweepStub, Job
  <2>3. (\A f : Stored(f)' => Stored(f)) /\ \A f \in F : Stored(f) /\ ~Stored(f)'
    BY <1>3, <2>1
  <2> QED
    BY <1>1, <2>2, <2>3, FactKeeps
<1>16. CASE TidyDomain(t)
  <2>1. PICK d \in job[t].left, S \in SUBSET Fact, R \in SUBSET Entity :
           /\ S \subseteq db.stores[d].facts /\ Removes(d, R, S, {})
           /\ Do(t, [job[t] EXCEPT !.left = @ \ {d}, !.gone = @ \cup S])
    BY <1>16, TidyRemoves
  <2>2. /\ UNCHANGED <<acked, gone>> /\ job'[t].req = job[t].req
        /\ job'[t].gone = job[t].gone \cup S /\ pc' = pc
    BY <1>1, <1>16, <2>1 DEF TidyDomain, Job
  <2>3. (\A f : Stored(f)' => Stored(f)) /\ \A f \in S : Stored(f) /\ ~Stored(f)'
    BY <1>3, <2>1
  <2> QED
    BY <1>1, <2>2, <2>3, FactKeeps
<1> QED
  BY <1>4, <1>5, <1>6, <1>7, <1>8, <1>9, <1>10, <1>11, <1>12, <1>13, <1>14, <1>15, <1>16 DEF Call

\* The processes and the migration keep it: a journal is replayed as it was.
LEMMA ProcessKeepsFacts ==
  ASSUME BaseInv, BaseInv', MigrationInv, FactInv,
         \/ CacheExpires \/ Close \/ Open \/ Crash \/ Migrate \/ Restore \/ RemoveBackup \/ UNCHANGED vars
  PROVE  FactInv'
<1> USE DEF stores, history
<1>1. db' = db => \A f : Stored(f)' <=> Stored(f)
  BY StoredAfter
<1>2. ASSUME UNCHANGED <<db, pc, job, journal, acked, gone>>
      PROVE  FactInv'
  BY <1>1, <1>2 DEF FactInv, Pending
<1>3. CASE CacheExpires \/ Close \/ UNCHANGED vars
  BY <1>2, <1>3 DEF CacheExpires, Close, vars, storeVars
<1>4. CASE Restore \/ RemoveBackup \/ (Migrate /\ ~MigrateCommit)
  BY <1>2, <1>4 DEF Restore, RemoveBackup, Migrate, MigrateBuild, MigrateGivesUp, MigrateMark,
     MigrateBackup, MigratePark, MigratePlace, MigrateClear, MigrateCrash, storeVars
<1>5. CASE MigrateCommit
  <2>1. /\ ~opened /\ Routable(db) /\ staged = Route(db, staged.k) /\ staged.k \in DOMAIN Home
        /\ Partitioned(db, strayed) /\ db' = staged /\ UNCHANGED <<pc, job, journal, acked, gone>>
    BY <1>5 DEF MigrateCommit, MigrationInv, BaseInv
  <2>2. Facts(db') = Facts(db)
    BY <2>1, RouteShape
  <2>3. \A f : Stored(f)' <=> Stored(f)
    BY <2>2 DEF Stored, Facts, Domain
  <2> QED
    BY <2>1, <2>3 DEF FactInv, Pending
<1>6. CASE Open
  <2>1. PICK S \in SUBSET Journaled, replay \in [Journaled -> journal \cup {<<>>}] :
          /\ {replay[t] : t \in S} = journal
          /\ \A t, u \in S : replay[t] = replay[u] => t = u
          /\ LET home(t) == HomeOf(replay[t].entity) IN
             /\ job' = [t \in Thread |-> IF t \in S THEN [NoJob EXCEPT !.req = replay[t], !.at = home(t)]
                                         ELSE NoJob]
             /\ pc' = [t \in Thread |-> IF t \in S THEN Start(replay[t], home(t)) ELSE "idle"]
    BY <1>6 DEF Open
  <2>2. UNCHANGED <<db, acked, gone>> /\ journal' = {}
    BY <1>6 DEF Open
  <2>3. ASSUME NEW t \in Thread
        PROVE  /\ job'[t].gone = {}
               /\ job'[t].req # <<>> => t \in S /\ job'[t].req = replay[t] /\ replay[t] \in journal
               /\ pc'[t] \in {"mirror", "home"} => t \in S
               /\ t \in S => job'[t].req = replay[t] /\ replay[t] \in journal
    <3>1. CASE t \in S
      <4>1. job'[t] = [NoJob EXCEPT !.req = replay[t], !.at = HomeOf(replay[t].entity)] /\ replay[t] \in journal
        BY <2>1, <3>1
      <4> QED
        BY <3>1, <4>1 DEF NoJob
    <3>2. CASE t \notin S
      BY <2>1, <3>2 DEF NoJob
    <3> QED
      BY <3>1, <3>2
  <2>6. \A t, u \in S : replay[t] = replay[u] => t = u
    BY <2>1
  <2>4. \A t, u \in Thread :
       /\ job'[t].req # <<>> /\ job'[u].req # <<>> /\ job'[t].req.fact \in Fact
       /\ job'[t].req.fact = job'[u].req.fact
       => t = u
    BY <2>3, <2>6 DEF FactInv
  <2>5. \A f \in Fact : Pending(f)' => Pending(f)
    BY <2>2, <2>3 DEF Pending
  <2> QED
    BY <1>1, <2>2, <2>3, <2>4, <2>5 DEF FactInv
<1>7. CASE Crash
  <2>1. /\ UNCHANGED <<db, acked, gone>>
        /\ \A t \in Thread : pc'[t] = "idle" /\ job'[t] = NoJob
        /\ journal' = {job[t].req : t \in {u \in Journaled : pc[u] \in {"mirror", "home"}}}
    BY <1>7 DEF Crash
  <2>2. ASSUME NEW r \in journal'
        PROVE  \E t \in Thread : pc[t] \in {"mirror", "home"} /\ job[t].req = r /\ r # <<>>
    BY <2>1, EntityAssumption DEF BaseInv, Proper
  <2>3. \A r, s \in journal' : r.fact \in Fact /\ r.fact = s.fact => r = s
    BY <2>2 DEF FactInv
  <2>4. \A t \in Thread : pc'[t] = "idle" /\ job'[t].req = <<>> /\ job'[t].gone = {}
    BY <2>1 DEF NoJob
  <2>5. \A f \in Fact : Pending(f)' => Pending(f)
    BY <2>2, <2>4 DEF Pending
  <2> QED
    BY <1>1, <2>1, <2>3, <2>4, <2>5 DEF FactInv
<1> QED
  BY <1>3, <1>4, <1>5, <1>6, <1>7

-----------------------------------------------------------------------------
(* A recall, and the entry it leaves in the cache, is of its version. *)

\* What that means for the facts of each domain.
LEMMA FactsAfter ==
  ASSUME BaseInv
  PROVE  /\ \A d, E, F, X : Adds(d, E, F, X) =>
              /\ db'.k = db.k
              /\ \A x \in Domain : db'.stores[x].facts \subseteq db.stores[x].facts \cup F
         /\ \A d, E, F, X : Removes(d, E, F, X) =>
              db'.k = db.k /\ \A x \in Domain : db'.stores[x].facts \subseteq db.stores[x].facts
<1>1. ASSUME NEW d, NEW E, NEW F, NEW X, Adds(d, E, F, X)
      PROVE  db'.k = db.k /\ \A x \in Domain : db'.stores[x].facts \subseteq db.stores[x].facts \cup F
  BY <1>1 DEF Adds, Only
<1>2. ASSUME NEW d, NEW E, NEW F, NEW X, Removes(d, E, F, X)
      PROVE  db'.k = db.k /\ \A x \in Domain : db'.stores[x].facts \subseteq db.stores[x].facts
  BY <1>2 DEF Removes, Only
<1> QED
  BY <1>1, <1>2

\* A call of t which stores no acknowledged fact again, and bumps the version
\* when it acknowledges anything.
LEMMA RecallKeeps ==
  ASSUME BaseInv, BaseInv', RecallInv, NEW t \in Thread, Thereby(t), db'.k = db.k,
         \A d \in Domain, f \in acked : f \in db'.stores[d].facts => f \in db.stores[d].facts,
         \/ UNCHANGED <<version, acked, gone>>
         \/ version' = version + 1 /\ acked \subseteq acked' /\ gone \subseteq gone',
         cache' = cache \/ CacheInv', Recalled(pc[t], job[t])'
  PROVE  RecallInv'
<1>1. version \in Nat /\ Domain' = Domain /\ \A u \in Thread : job[u] \in Job
  BY DEF BaseInv, Domain
<1>2. ASSUME NEW u \in Thread PROVE Recalled(pc[u], job[u])'
  <2>1. CASE u = t
    BY <2>1
  <2>2. CASE u # t
    <3>1. pc'[u] = pc[u] /\ job'[u] = job[u] /\ Recalled(pc[u], job[u]) /\ job[u].version \in Nat
      BY <1>1, <2>2 DEF Thereby, Others, RecallInv, Job
    <3>2. CASE UNCHANGED <<version, acked, gone>>
      BY <1>1, <3>1, <3>2 DEF Recalled
    <3>3. CASE version' = version + 1 /\ acked \subseteq acked' /\ gone \subseteq gone'
      <4>1. job[u].version <= version => job[u].version <= version' /\ job[u].version # version'
        BY <1>1, <3>1, <3>3
      <4> QED
        BY <1>1, <3>1, <3>3, <4>1 DEF Recalled
    <3> QED
      BY <3>2, <3>3
  <2> QED
    BY <2>1, <2>2
<1>3. CacheInv'
  <2>1. CASE cache' = cache /\ cache # NoEntry
    <3>1. cache.version \in Nat /\ cache.version <= version
      BY <2>1 DEF BaseInv, RecallInv, CacheInv
    <3>2. CASE UNCHANGED <<version, acked, gone>>
      <4>1. \A f \in acked : Stored(f)' => Stored(f)
        BY <1>1 DEF Stored
      <4> QED
        BY <2>1, <3>2, <4>1 DEF RecallInv, CacheInv
    <3>3. CASE version' = version + 1
      <4>1. cache.version <= version' /\ cache.version # version'
        BY <1>1, <3>1, <3>3
      <4> QED
        BY <2>1, <4>1 DEF CacheInv
    <3> QED
      BY <3>2, <3>3
  <2>2. CASE cache' = cache /\ cache = NoEntry
    BY <2>2 DEF CacheInv
  <2> QED
    BY <2>1, <2>2
<1> QED
  BY <1>2, <1>3 DEF RecallInv

\* Every call keeps it.
LEMMA CallKeepsRecalls ==
  ASSUME BaseInv, BaseInv', FactInv, RecallInv, NEW t \in Thread, Call(t), db'.k = db.k
  PROVE  RecallInv'
<1>1. /\ Thereby(t) /\ Proper(pc[t], job[t]) /\ job[t] \in Job
      /\ pc \in [Thread -> Pc] /\ job \in [Thread -> Job] /\ version \in Nat
      /\ \A d \in Domain : db.stores[d].facts \subseteq Fact
  BY CallIsOfOne, StoreShape DEF BaseInv, Shelf
<1>2. /\ \A d, E, F, X : Adds(d, E, F, X) =>
              \A x \in Domain : db'.stores[x].facts \subseteq db.stores[x].facts \cup F
      /\ \A d, E, F, X : Removes(d, E, F, X) =>
              \A x \in Domain : db'.stores[x].facts \subseteq db.stores[x].facts
  BY FactsAfter
<1>3. pc'[t] \notin {"fan", "answered"} => Recalled(pc[t], job[t])'
  BY DEF Recalled
<1>4. Domain' = Domain
  BY DEF Domain
<1> USE DEF stores, Goto, Do, Finish, history
<1>5. CASE \/ Remember(t) \/ MirrorFails(t) \/ HomeFails(t) \/ SweepFails(t) \/ Tidy(t)
           \/ TidyFails(t) \/ AllVisited(t)
  <2>1. UNCHANGED <<db, version, acked, gone, cache>> /\ pc'[t] \notin {"fan", "answered"}
    BY <1>1, <1>5 DEF Remember, StartWrite, Start, MirrorFails, HomeFails, SweepFails, Tidy, TidyFails, AllVisited
  <2> QED
    BY <1>1, <1>3, <2>1, RecallKeeps
<1>6. CASE Bump(t)
  <2>1. /\ UNCHANGED <<db, cache>> /\ pc'[t] = "idle" /\ version' = version + 1
        /\ acked \subseteq acked' /\ gone \subseteq gone'
    BY <1>1, <1>6 DEF Bump
  <2> QED
    BY <1>1, <1>3, <2>1, RecallKeeps
<1>7. CASE MirrorCommit(t) \/ HomeCommit(t) \/ AddRelation(t)
  <2>1. UNCHANGED <<version, acked, gone, cache>> /\ pc'[t] \notin {"fan", "answered"}
    BY <1>1, <1>7 DEF MirrorCommit, HomeCommit, AddRelation, StartWrite, Start
  <2>2. \A d \in Domain, f \in acked : f \in db'.stores[d].facts => f \in db.stores[d].facts
    <3>1. CASE MirrorCommit(t)
      <4>1. PICK d, E, X : Adds(d, E, {}, X)
        BY <3>1, MirrorAdds
      <4>2. \A x \in Domain : db'.stores[x].facts \subseteq db.stores[x].facts \cup {}
        BY <1>2, <4>1
      <4> QED
        BY <4>2
    <3>2. CASE HomeCommit(t)
      <4>1. PICK d, E, X : Adds(d, E, Observed(job[t].req), X)
        BY <3>2, HomeAdds
      <4>2. \A x \in Domain : db'.stores[x].facts \subseteq db.stores[x].facts \cup Observed(job[t].req)
        BY <1>2, <4>1
      <4>3. \A f \in Fact \cap Observed(job[t].req) : f \notin acked
        BY <3>2 DEF HomeCommit, Observed, FactInv, Pending
      <4> QED
        BY <4>2, <4>3 DEF BaseInv
    <3>3. CASE AddRelation(t)
      <4>1. db' = db \/ \E d, E, X : Adds(d, E, {}, X)
        BY <3>3, RelationAdds
      <4>2. CASE \E d, E, X : Adds(d, E, {}, X)
        <5>1. \A x \in Domain : db'.stores[x].facts \subseteq db.stores[x].facts \cup {}
          BY <1>2, <4>2
        <5> QED
          BY <5>1
      <4> QED
        BY <4>1, <4>2
    <3> QED
      BY <1>7, <3>1, <3>2, <3>3
  <2> QED
    BY <1>1, <1>3, <2>1, <2>2, RecallKeeps
<1>8. CASE Forget(t) \/ ForgetEntity(t) \/ SweepStub(t) \/ TidyDomain(t)
  <2>1. UNCHANGED <<version, acked, gone, cache>> /\ pc'[t] \notin {"fan", "answered"}
    BY <1>1, <1>8 DEF Forget, ForgetEntity, SweepStub, TidyDomain
  <2>2. PICK d, E, F, X : Removes(d, E, F, X)
    BY <1>8, ForgetRemoves, EntityRemoves, SweepRemoves, TidyRemoves
  <2>3. \A x \in Domain : db'.stores[x].facts \subseteq db.stores[x].facts
    BY <1>2, <2>2
  <2> QED
    BY <1>1, <1>3, <2>1, <2>3, RecallKeeps
<1>9. CASE RecallStart(t)
  <2> DEFINE j == [NoJob EXCEPT !.version = version, !.acked = acked, !.gone = gone]
  <2>1. UNCHANGED <<db, version, acked, gone, cache>>
    BY <1>9 DEF RecallStart
  <2>2. CASE db.k > 1 /\ cache # NoEntry /\ cache.version = version
    <3>1. job'[t] = [j EXCEPT !.hits = cache.hits]
      BY <1>1, <1>9, <2>2 DEF RecallStart
    <3>2. /\ job'[t].version = version /\ job'[t].acked = acked /\ job'[t].gone = gone
          /\ job'[t].left = {} /\ job'[t].hits = cache.hits
      BY <3>1 DEF NoJob
    <3>3. cache.hits \cap gone = {} /\ \A f \in acked : Stored(f) => f \in cache.hits
      BY <2>2 DEF RecallInv, CacheInv
    <3>4. Recalled(pc[t], job[t])'
      BY <1>1, <1>4, <2>1, <3>2, <3>3 DEF Recalled, Stored
    <3> QED
      BY <1>1, <2>1, <3>4, RecallKeeps
  <2>3. CASE ~(db.k > 1 /\ cache # NoEntry /\ cache.version = version)
    <3>1. job'[t] = [j EXCEPT !.left = Domain]
      BY <1>1, <1>9, <2>3 DEF RecallStart
    <3>2. /\ job'[t].version = version /\ job'[t].acked = acked /\ job'[t].gone = gone
          /\ job'[t].left = Domain /\ job'[t].hits = {}
      BY <3>1 DEF NoJob
    <3>3. Recalled(pc[t], job[t])'
      BY <1>1, <1>4, <2>1, <3>2 DEF Recalled
    <3> QED
      BY <1>1, <2>1, <3>3, RecallKeeps
  <2> QED
    BY <2>2, <2>3
<1>10. CASE RecallDomain(t)
  <2>1. PICK d \in job[t].left :
          job' = [job EXCEPT ![t] = [job[t] EXCEPT !.left = @ \ {d}, !.hits = @ \cup db.stores[d].facts]]
    BY <1>10 DEF RecallDomain
  <2>2. UNCHANGED <<db, version, acked, gone, cache>> /\ pc[t] = "fan" /\ pc'[t] = "fan"
    BY <1>10 DEF RecallDomain
  <2>3. /\ job'[t].version = job[t].version /\ job'[t].acked = job[t].acked /\ job'[t].gone = job[t].gone
        /\ job'[t].left = job[t].left \ {d} /\ job'[t].hits = job[t].hits \cup db.stores[d].facts
    BY <1>1, <2>1 DEF Job
  <2>4. d \in Domain
    BY <1>1 DEF Proper
  <2>5. db.stores[d].facts \cap gone = {}
    BY <1>1, <2>4 DEF FactInv, Stored
  <2>6. Recalled(pc[t], job[t])
    BY DEF RecallInv
  <2>7. Recalled(pc[t], job[t])'
    BY <1>4, <2>2, <2>3, <2>5, <2>6 DEF Recalled
  <2> QED
    BY <1>1, <2>2, <2>7, RecallKeeps
<1>11. CASE RecallPut(t)
  <2>1. /\ UNCHANGED <<db, version, acked, gone>> /\ pc[t] = "fan" /\ job[t].left = {} /\ job'[t] = job[t]
        /\ cache' = IF db.k > 1 THEN [version |-> job[t].version, hits |-> job[t].hits] ELSE cache
    BY <1>11 DEF RecallPut, Tag
  <2>2. Recalled(pc[t], job[t])
    BY DEF RecallInv
  <2>3. Recalled(pc[t], job[t])'
    BY <1>4, <2>1, <2>2 DEF Recalled
  <2>4. cache' = cache \/ CacheInv'
    <3>1. CASE cache' = [version |-> job[t].version, hits |-> job[t].hits]
      <4>1. cache'.version = job[t].version /\ cache'.hits = job[t].hits
        BY <3>1
      <4>2. \A f : Stored(f)' => Stored(f)
        BY <1>4, <2>1 DEF Stored
      <4> QED
        BY <2>1, <2>2, <4>1, <4>2 DEF CacheInv, Recalled, Stored
    <3> QED
      BY <2>1, <3>1
  <2> QED
    BY <1>1, <2>1, <2>3, <2>4, RecallKeeps
<1>12. CASE RecallDone(t)
  <2>1. UNCHANGED <<db, version, acked, gone, cache>> /\ pc'[t] = "idle"
    BY <1>1, <1>12 DEF RecallDone
  <2> QED
    BY <1>1, <1>3, <2>1, RecallKeeps
<1> QED
  BY <1>5, <1>6, <1>7, <1>8, <1>9, <1>10, <1>11, <1>12 DEF Call

\* The processes and the migration keep it.
LEMMA ProcessKeepsRecalls ==
  ASSUME BaseInv, BaseInv', MigrationInv, RecallInv,
         \/ CacheExpires \/ Close \/ Open \/ Crash \/ Migrate \/ Restore \/ RemoveBackup \/ UNCHANGED vars
  PROVE  RecallInv'
<1> USE DEF stores, history
<1>1. ASSUME UNCHANGED <<db, pc, job, version, acked, gone>>, cache' \in {cache, NoEntry}
      PROVE  RecallInv'
  BY <1>1 DEF RecallInv, Recalled, CacheInv, Stored, Domain
<1>2. CASE CacheExpires \/ Close \/ UNCHANGED vars
  BY <1>1, <1>2 DEF CacheExpires, Close, vars, storeVars
<1>3. CASE Restore \/ RemoveBackup \/ (Migrate /\ ~MigrateCommit)
  BY <1>1, <1>3 DEF Restore, RemoveBackup, Migrate, MigrateBuild, MigrateGivesUp, MigrateMark,
     MigrateBackup, MigratePark, MigratePlace, MigrateClear, MigrateCrash, storeVars
<1>4. CASE MigrateCommit
  <2>1. /\ ~opened /\ Routable(db) /\ staged = Route(db, staged.k) /\ staged.k \in DOMAIN Home
        /\ Partitioned(db, strayed) /\ db' = staged /\ UNCHANGED <<pc, job, version, cache, acked, gone>>
    BY <1>4 DEF MigrateCommit, MigrationInv, BaseInv
  <2>2. Facts(db') = Facts(db)
    BY <2>1, RouteShape
  <2>3. \A f : Stored(f)' <=> Stored(f)
    BY <2>2 DEF Stored, Facts, Domain
  <2>4. \A t \in Thread : pc'[t] = "idle"
    BY <2>1 DEF BaseInv
  <2> QED
    BY <2>1, <2>3, <2>4 DEF RecallInv, CacheInv, Recalled
<1>5. CASE Open
  <2>1. cache' = NoEntry /\ \A t \in Thread : pc'[t] \in {"idle", "mirror", "home"}
    BY <1>5 DEF Open, Start
  <2> QED
    BY <2>1 DEF RecallInv, CacheInv, Recalled
<1>6. CASE Crash
  <2>1. UNCHANGED <<db, version, cache, acked, gone>> /\ \A t \in Thread : pc'[t] = "idle"
    BY <1>6 DEF Crash
  <2> QED
    BY <2>1 DEF RecallInv, CacheInv, Recalled, Stored, Domain
<1> QED
  BY <1>2, <1>3, <1>4, <1>5, <1>6

-----------------------------------------------------------------------------
(* What a recall answers. *)

FullInv == (BaseInv /\ MigrationInv) /\ (FactInv /\ RecallInv)
\* A new profile has no facts.
LEMMA RecallInit ==
  ASSUME Init
  PROVE  FullInv
<1>1. BaseInv /\ MigrationInv
  BY LayoutInit
<1>2. PICK k \in mix.domains : db = [k |-> k, stores |-> [d \in 1..k |-> Empty]]
  BY DEF Init, InitStore
<1>3. /\ cache = NoEntry /\ journal = {} /\ acked = {} /\ gone = {}
      /\ \A t \in Thread : pc[t] = "idle" /\ job[t] = NoJob
  BY DEF Init, InitStore
<1>4. NoJob.req = <<>> /\ NoJob.gone = {}
  BY DEF NoJob
<1>5. \A f : ~Stored(f)
  BY <1>2 DEF Stored, Domain, Empty
<1>6. FactInv
  BY <1>3, <1>4, <1>5 DEF FactInv, Pending
<1>7. RecallInv
  BY <1>3 DEF RecallInv, CacheInv, Recalled
<1> QED
  BY <1>1, <1>6, <1>7 DEF FullInv

\* Every step of the profile keeps them.
LEMMA RecallStep ==
  ASSUME FullInv, [Next]_vars
  PROVE  FullInv'
<1>1. /\ BaseInv /\ MigrationInv /\ FactInv /\ RecallInv
      /\ BaseInv' /\ MigrationInv'
  BY LayoutInvStep DEF FullInv
<1>2. ASSUME NEW t \in Thread, Call(t), NextStore
      PROVE  FactInv' /\ RecallInv'
  BY <1>1, <1>2, CallKeepsFacts, CallKeepsRecalls, NumberStays
<1>3. ASSUME CacheExpires \/ Close \/ Open \/ Crash \/ Migrate \/ Restore \/ RemoveBackup \/ UNCHANGED vars
      PROVE  FactInv' /\ RecallInv'
  BY <1>1, <1>3, ProcessKeepsFacts, ProcessKeepsRecalls
<1>4. FactInv' /\ RecallInv'
  BY <1>2, <1>3 DEF Next, NextStore
<1> QED
  BY <1>1, <1>4 DEF FullInv

\* In every reachable state facts are written once, and recalls and the cache
\* are of the version they carry.
THEOREM RecallsKept == Spec => []FullInv
<1>1. Init => FullInv
  BY RecallInit
<1>2. FullInv /\ [Next]_vars => FullInv'
  BY RecallStep
<1> QED
  BY <1>1, <1>2, PTL DEF Spec

\* An answer, read or cached, has every acknowledged fact that is still stored
\* and none whose removal was acknowledged before the recall began, for every
\* interleaving with writes, tidying, crashes and migrations.
THEOREM RecallsAreCurrent == Spec => []RecallCurrent
<1>1. FullInv => RecallCurrent
  <2> SUFFICES ASSUME FullInv, NEW t \in Thread, pc[t] = "answered"
               PROVE  /\ \A f \in job[t].acked : (\E d \in Domain : f \in db.stores[d].facts) => f \in job[t].hits
                      /\ job[t].hits \cap job[t].gone = {}
    BY DEF RecallCurrent
  <2>1. Recalled(pc[t], job[t]) /\ job[t].left = {}
    BY DEF FullInv, RecallInv, BaseInv, Proper
  <2> QED
    BY <2>1 DEF Recalled
<1> QED
  BY <1>1, RecallsKept, PTL
=============================================================================
