------------------------------ MODULE EdgeProofs ------------------------------
(***************************************************************************)
(* Both sides of an edge between two domains (DomainStore): its mirror is  *)
(* never without its canonical edge, nor the other way round, unless a     *)
(* failure or a race that the properties name is the reason.               *)
(***************************************************************************)
EXTENDS RecallProofs

-----------------------------------------------------------------------------
(* One side without the other has somebody who is about to mend it. *)

Side(x, n)     == x \in db.stores[HomeOf(x[n])].edges
PendingEdge(x) == \/ \E t \in Thread : pc[t] \in {"mirror", "home"} /\ EdgeOf(job[t].req) = x
                  \/ \E r \in journal : EdgeOf(r) = x
Excused(x)     == x \in torn \/ x[1] \in raced \cup strayed \/ x[2] \in raced \cup strayed
Crossing(x)    == HomeOf(x[1]) # HomeOf(x[2])
Swept(x)       == Forgetting(x[1]) \/ Forgetting(x[2])

\* Forgotten wherever the sweep has been, when it began at the entity's home.
SweptBy(j) ==
  j.entity \in Entity \ (raced \cup strayed) /\ j.at = HomeOf(j.entity) =>
    \A d \in Domain \ j.left : j.entity \notin Known(d)
SweepInv == \A t \in Thread : SweptBy(job[t])
\* What a call by a stub's id leaves on one side is torn from its start.
TornBy(l, j) ==
  /\ j.entity \in Entity /\ j.at # HomeOf(j.entity) => Incident(j.entity) \subseteq torn
  /\ l \in {"mirror", "home"} /\ j.req.target # NoEntity /\ j.at # HomeOf(j.req.entity)
       => EdgeOf(j.req) \in torn
TornInv == \A t \in Thread : TornBy(pc[t], job[t])
\* The mirror is written before the edge.
Mirrored(l, j) == l = "home" /\ Crosses(j.req, j.at) => Excused(EdgeOf(j.req)) \/ Side(EdgeOf(j.req), 2)
MirrorInv == \A t \in Thread : Mirrored(pc[t], job[t])
SidesInv ==
  \A x \in Edge : ~Excused(x) /\ Crossing(x) =>
    /\ Side(x, 1) => Side(x, 2) \/ Swept(x)
    /\ Side(x, 2) => Side(x, 1) \/ Swept(x) \/ PendingEdge(x)
EdgeInv == /\ Overlap \subseteq raced /\ raced \subseteq Entity
           /\ SweepInv /\ TornInv /\ MirrorInv /\ SidesInv

\* Nobody forgets with an entity that is none, and edges need their rows.
LEMMA NoneForgotten ==
  ASSUME BaseInv, NEW x \in Edge, NEW d \in Domain, x \in db.stores[d].edges
  PROVE  x[1] \in Known(d) /\ x[2] \in Known(d)
BY StoreShape DEF BaseInv, AtHome, Known

\* A step of t in which a side of an edge is lost only to somebody who forgets,
\* and added only with the other, or by a request that is still in hand.
LEMMA EdgeKeeps ==
  ASSUME BaseInv, BaseInv', EdgeInv, NEW t \in Thread, Thereby(t), db'.k = db.k,
         raced' = raced \cup Overlap', torn \subseteq torn', strayed \subseteq strayed',
         \A d \in Domain : \A e \in Known(d)' :
           \/ e \in Known(d)
           \/ job'[t].req # <<>> /\ e \in {job'[t].req.entity, job'[t].req.target},
         SweptBy(job[t])', TornBy(pc[t], job[t])', Mirrored(pc[t], job[t])',
         \A x \in Edge, n \in {1, 2} : Side(x, n) /\ ~Side(x, n)' => Excused(x)' \/ Swept(x)',
         \A x \in Edge : Crossing(x) /\ ~Excused(x)' =>
           /\ Side(x, 1)' /\ ~Side(x, 1) => Side(x, 2)'
           /\ Side(x, 2)' /\ ~Side(x, 2) => Side(x, 1)' \/ PendingEdge(x)'
           /\ PendingEdge(x) => PendingEdge(x)' \/ Side(x, 1)'
           /\ Swept(x) => Swept(x)' \/ (~Side(x, 1)' /\ ~Side(x, 2)')
  PROVE  EdgeInv'
<1>1. Others(t) /\ Domain' = Domain /\ \A x \in Edge : Crossing(x)' <=> Crossing(x)
  BY DEF Thereby, Domain, Crossing, HomeOf
<1>2. \A x : Excused(x) => Excused(x)'
  BY DEF Excused
<1>3. Overlap' \subseteq raced' /\ raced' \subseteq Entity
  BY DEF Overlap, EdgeInv
<1>4. SweepInv'
  <2>1. ASSUME NEW u \in Thread PROVE SweptBy(job[u])'
    <3>1. CASE u = t
      BY <3>1
    <3>2. CASE u # t
      <4>1. job'[u] = job[u] /\ HomeOf(job[u].entity)' = HomeOf(job[u].entity)
        BY <1>1, <3>2 DEF Others, HomeOf
      <4> SUFFICES ASSUME job[u].entity \in Entity \ (raced' \cup strayed'), job[u].at = HomeOf(job[u].entity),
                          NEW d \in Domain \ job[u].left
                   PROVE  job[u].entity \notin Known(d)'
        BY <1>1, <4>1 DEF SweptBy
      <4>2. job[u].entity \notin Known(d)
        BY DEF EdgeInv, SweepInv, SweptBy
      <4>3. ~(job'[t].req # <<>> /\ job[u].entity \in {job'[t].req.entity, job'[t].req.target})
        BY <1>3, <4>1 DEF Overlap, Writing, Forgetting
      <4> QED
        BY <4>2, <4>3
    <3> QED
      BY <3>1, <3>2
  <2> QED
    BY <2>1 DEF SweepInv
<1>7. TornInv'
  <2>1. ASSUME NEW u \in Thread, u # t PROVE TornBy(pc[u], job[u])'
    BY <1>1, <2>1 DEF Others, EdgeInv, TornInv, TornBy, HomeOf, EdgeOf
  <2> QED
    BY <2>1 DEF TornInv
<1>5. MirrorInv'
  <2>1. ASSUME NEW u \in Thread PROVE Mirrored(pc[u], job[u])'
    <3>1. CASE u = t
      BY <3>1
    <3>2. CASE u # t
      <4>1. SUFFICES ASSUME pc'[u] = "home", Crosses(job[u].req, job[u].at)'
                     PROVE  Excused(EdgeOf(job[u].req))' \/ Side(EdgeOf(job[u].req), 2)'
        BY DEF Mirrored
      <4>2. pc[u] = "home" /\ job'[u] = job[u]
        BY <1>1, <3>2, <4>1 DEF Others
      <4>3. PICK r : r = job[u].req
        OBVIOUS
      <4>4. /\ r \in Request /\ r # <<>> /\ job'[u].req = r /\ r.target # NoEntity
            /\ Crosses(r, job[u].at)
        BY <4>1, <4>2, <4>3 DEF BaseInv, Proper, Crosses, HomeOf
      <4>5. PICK x \in Edge : x = EdgeOf(r) /\ x[1] = r.entity /\ x[2] = r.target
        BY <4>4, CrossingEdge
      <4>6. Excused(x) \/ Side(x, 2)
        BY <4>2, <4>3, <4>4, <4>5 DEF EdgeInv, MirrorInv, Mirrored
      <4>7. CASE Side(x, 2) /\ ~Side(x, 2)' /\ Swept(x)'
        <5>1. \A e \in {x[1], x[2]} : Writing(e)' /\ e \in Entity
          BY <4>4, <4>5 DEF Writing, Request
        <5> QED
          BY <1>3, <4>4, <4>5, <4>7, <5>1 DEF Overlap, Swept, Excused, EdgeOf
      <4> QED
        BY <1>2, <4>4, <4>5, <4>6, <4>7 DEF EdgeOf
    <3> QED
      BY <3>1, <3>2
  <2> QED
    BY <2>1 DEF MirrorInv
<1>6. SidesInv'
  <2> SUFFICES ASSUME NEW x \in Edge, ~Excused(x)', Crossing(x)'
               PROVE  /\ Side(x, 1)' => Side(x, 2)' \/ Swept(x)'
                      /\ Side(x, 2)' => Side(x, 1)' \/ Swept(x)' \/ PendingEdge(x)'
    BY DEF SidesInv
  <2>1. ~Excused(x) /\ Crossing(x)
    BY <1>1, <1>2
  <2>2. /\ Side(x, 1) => Side(x, 2) \/ Swept(x)
        /\ Side(x, 2) => Side(x, 1) \/ Swept(x) \/ PendingEdge(x)
    BY <2>1 DEF EdgeInv, SidesInv
  <2> QED
    BY <2>1, <2>2
<1> QED
  BY <1>3, <1>4, <1>5, <1>6, <1>7 DEF EdgeInv

\* What becomes of the sides of an edge, and of those who may mend them.
LEMMA SidesAfter ==
  ASSUME BaseInv
  PROVE  /\ db' = db => /\ \A x, n : Side(x, n)' <=> Side(x, n)
                        /\ \A b : Known(b)' = Known(b)
         /\ \A d, E, F, X : Adds(d, E, F, X) =>
              /\ \A x \in Edge, n \in {1, 2} : Side(x, n)' <=> Side(x, n) \/ (HomeOf(x[n]) = d /\ x \in X)
              /\ (\A b \in Domain : Known(b)' \subseteq Known(b) \cup E) /\ db'.k = db.k
         /\ \A d, E, F, X : Removes(d, E, F, X) =>
              /\ \A x \in Edge, n \in {1, 2} : /\ Side(x, n)' => Side(x, n)
                                               /\ Side(x, n) => Side(x, n)' \/ x \in X
              /\ \A b \in Domain : Known(b)' \subseteq Known(b)
              /\ Known(d)' = Known(d) \ E /\ db'.k = db.k
<1>1. db' = db => (\A x, n : Side(x, n)' <=> Side(x, n)) /\ \A b : Known(b)' = Known(b)
  BY DEF Side, HomeOf, Known
<1>2. \A x \in Edge, n \in {1, 2} : HomeOf(x[n]) \in Domain
  <2> SUFFICES ASSUME NEW x \in Edge, NEW n \in {1, 2} PROVE HomeOf(x[n]) \in Domain
    OBVIOUS
  <2>1. x[n] \in Entity
    BY DEF Edge
  <2> QED
    BY <2>1, HomeIsDomain DEF BaseInv
<1>3. ASSUME NEW d, NEW E, NEW F, NEW X, Adds(d, E, F, X)
      PROVE  /\ \A x \in Edge, n \in {1, 2} : Side(x, n)' <=> Side(x, n) \/ (HomeOf(x[n]) = d /\ x \in X)
             /\ (\A b \in Domain : Known(b)' \subseteq Known(b) \cup E) /\ db'.k = db.k
  <2>1. ASSUME NEW x \in Edge, NEW n \in {1, 2}
        PROVE  Side(x, n)' <=> Side(x, n) \/ (HomeOf(x[n]) = d /\ x \in X)
    BY <1>2, <1>3 DEF Adds, Only, Side, HomeOf
  <2>2. ASSUME NEW b \in Domain PROVE Known(b)' \subseteq Known(b) \cup E
    BY <1>3 DEF Adds, Only, Known
  <2> QED
    BY <1>3, <2>1, <2>2 DEF Adds, Only
<1>4. ASSUME NEW d, NEW E, NEW F, NEW X, Removes(d, E, F, X)
      PROVE  /\ \A x \in Edge, n \in {1, 2} : /\ Side(x, n)' => Side(x, n)
                                              /\ Side(x, n) => Side(x, n)' \/ x \in X
             /\ \A b \in Domain : Known(b)' \subseteq Known(b)
             /\ Known(d)' = Known(d) \ E /\ db'.k = db.k
  <2>1. ASSUME NEW x \in Edge, NEW n \in {1, 2}
        PROVE  (Side(x, n)' => Side(x, n)) /\ (Side(x, n) => Side(x, n)' \/ x \in X)
    BY <1>2, <1>4 DEF Removes, Only, Side, HomeOf
  <2>2. ASSUME NEW b \in Domain PROVE Known(b)' \subseteq Known(b)
    BY <1>4 DEF Removes, Only, Known
  <2>3. Known(d)' = Known(d) \ E
    BY <1>4 DEF Removes, Known
  <2> QED
    BY <1>4, <2>1, <2>2, <2>3 DEF Removes, Only
<1> QED
  BY <1>1, <1>3, <1>4

\* Who forgets and who still has a request to write is only changed by who takes
\* the step.
LEMMA MendersAfter ==
  ASSUME BaseInv, BaseInv', NEW t \in Thread, Thereby(t)
  PROVE  /\ job'[t].entity = job[t].entity => \A x : Swept(x) => Swept(x)'
         /\ \A x : Swept(x) => Swept(x)' \/ job[t].entity \in {x[1], x[2]}
         /\ pc[t] \notin {"mirror", "home"} => \A x : PendingEdge(x) => PendingEdge(x)'
         /\ pc'[t] \in {"mirror", "home"} /\ job'[t].req = job[t].req =>
              \A x : PendingEdge(x) => PendingEdge(x)'
         /\ \A x : PendingEdge(x) => \/ PendingEdge(x)'
                                     \/ pc[t] \in {"mirror", "home"} /\ EdgeOf(job[t].req) = x
<1>1. Others(t) /\ journal' = journal
  BY DEF Thereby
<1>2. \A e : Forgetting(e) => Forgetting(e)' \/ job[t].entity = e
  BY <1>1 DEF Forgetting, Others
<1>3. job'[t].entity = job[t].entity => \A e : Forgetting(e) => Forgetting(e)'
  BY <1>1 DEF Forgetting, Others
<1>4. \A x : PendingEdge(x) => \/ PendingEdge(x)'
                               \/ pc[t] \in {"mirror", "home"} /\ EdgeOf(job[t].req) = x
  BY <1>1 DEF PendingEdge, Others, EdgeOf
<1>5. ASSUME NEW x, x = EdgeOf(job[t].req), pc'[t] \in {"mirror", "home"}, job'[t].req = job[t].req
      PROVE  PendingEdge(x)'
  BY <1>5 DEF PendingEdge, EdgeOf
<1> QED
  BY <1>2, <1>3, <1>4, <1>5 DEF Swept

-----------------------------------------------------------------------------
(* Every step leaves no side alone. *)

\* A call that writes nothing, and forgets what it did.
LEMMA ReadKeepsEdges ==
  ASSUME BaseInv, BaseInv', EdgeInv, NEW t \in Thread, Thereby(t), db' = db, torn \subseteq torn',
         raced' = raced \cup Overlap', strayed \subseteq strayed', pc[t] \notin {"mirror", "home"},
         job'[t].entity = job[t].entity,
         job'[t].entity \in Entity => job'[t].left = job[t].left /\ job'[t].at = job[t].at,
         pc'[t] \in {"mirror", "home"} => TornBy(pc[t], job[t])', Mirrored(pc[t], job[t])'
  PROVE  EdgeInv'
<1>1. (\A x, n : Side(x, n)' <=> Side(x, n)) /\ (\A b : Known(b)' = Known(b)) /\ db'.k = db.k
  BY SidesAfter
<1>2. (\A x : Swept(x) => Swept(x)') /\ \A x : PendingEdge(x) => PendingEdge(x)'
  BY MendersAfter
<1>3. SweptBy(job[t])'
  BY <1>1 DEF EdgeInv, SweepInv, SweptBy, HomeOf, Domain
<1>4. TornBy(pc[t], job[t])'
  BY DEF EdgeInv, TornInv, TornBy, HomeOf
<1> QED
  BY <1>1, <1>2, <1>3, <1>4, EdgeKeeps

\* Every call keeps the sides of every edge.
LEMMA CallKeepsEdges ==
  ASSUME BaseInv, BaseInv', EdgeInv, NEW t \in Thread, Call(t), raced' = raced \cup Overlap',
         strayed \subseteq strayed'
  PROVE  EdgeInv'
<1>1. /\ Thereby(t) /\ Proper(pc[t], job[t]) /\ job[t] \in Job
      /\ pc \in [Thread -> Pc] /\ job \in [Thread -> Job] /\ db.k \in DOMAIN Home
  BY CallIsOfOne DEF BaseInv, Partitioned
<1>2. NoJob.req = <<>> /\ NoJob.entity = NoEntity /\ NoEntity \notin Entity
  BY EntityAssumption DEF NoJob
<1>3. /\ pc'[t] \notin {"mirror", "home"} /\ job'[t].entity = NoEntity => TornBy(pc[t], job[t])'
      /\ job' = job /\ db'.k = db.k /\ (pc'[t] \in {"mirror", "home"} => pc[t] \in {"mirror", "home"})
         /\ torn \subseteq torn' => TornBy(pc[t], job[t])'
      /\ job'[t].entity = NoEntity => SweptBy(job[t])'
  BY <1>2 DEF TornBy, SweptBy, EdgeInv, TornInv, HomeOf, EdgeOf
<1>4. pc'[t] # "home" => Mirrored(pc[t], job[t])'
  BY DEF Mirrored
<1>5. /\ job'[t].entity = job[t].entity => \A x : Swept(x) => Swept(x)'
      /\ \A x : Swept(x) => Swept(x)' \/ job[t].entity \in {x[1], x[2]}
      /\ pc[t] \notin {"mirror", "home"} => \A x : PendingEdge(x) => PendingEdge(x)'
      /\ pc'[t] \in {"mirror", "home"} /\ job'[t].req = job[t].req =>
           \A x : PendingEdge(x) => PendingEdge(x)'
      /\ \A x : PendingEdge(x) => \/ PendingEdge(x)'
                                  \/ pc[t] \in {"mirror", "home"} /\ EdgeOf(job[t].req) = x
  BY <1>1, MendersAfter
<1>6. \A x : Excused(x) => Excused(x)' \/ torn # torn'
  BY DEF Excused
<1> USE DEF stores, Goto, Do, Finish, history
<1>7. CASE Remember(t)
  <2>1. PICK r \in mix.requests : StartWrite(t, r, HomeOf(r.entity))
    BY <1>7 DEF Remember
  <2>2. /\ UNCHANGED <<db, torn>> /\ pc[t] = "idle"
        /\ job'[t] = [NoJob EXCEPT !.req = r, !.at = HomeOf(r.entity)]
        /\ pc'[t] = Start(r, HomeOf(r.entity))
    BY <1>1, <1>7, <2>1 DEF Remember, StartWrite, Ready
  <2>3. /\ job'[t].req = r /\ job'[t].at = HomeOf(r.entity) /\ job'[t].entity = NoEntity
        /\ job[t].entity = NoEntity
    BY <1>1, <1>2, <2>2 DEF NoJob, Proper
  <2>4. Mirrored(pc[t], job[t])' /\ TornBy(pc[t], job[t])'
    BY <1>2, <2>2, <2>3 DEF Mirrored, TornBy, Start, Crosses, HomeOf
  <2> QED
    BY <1>1, <1>2, <2>2, <2>3, <2>4, ReadKeepsEdges
<1>8. CASE Tidy(t) \/ TidyFails(t) \/ RecallStart(t) \/ RecallDomain(t) \/ RecallPut(t) \/ RecallDone(t)
  <2>1. /\ UNCHANGED <<db, torn>> /\ pc[t] \in {"idle", "tidy", "fan", "answered"}
        /\ pc'[t] \in {"idle", "tidy", "fan", "answered"}
    BY <1>1, <1>8 DEF Tidy, TidyFails, RecallStart, RecallDomain, RecallPut, RecallDone, Ready
  <2>2. job'[t].entity = NoEntity /\ job[t].entity = NoEntity
    BY <1>1, <2>1 DEF BaseInv, Proper
  <2> QED
    BY <1>1, <1>2, <1>4, <2>1, <2>2, ReadKeepsEdges
<1>9. CASE AllVisited(t)
  <2>1. UNCHANGED <<db, torn, job>> /\ pc[t] \in {"sweep", "tidy"} /\ pc'[t] = "bump"
    BY <1>1, <1>9 DEF AllVisited
  <2> QED
    BY <1>1, <1>4, <2>1, ReadKeepsEdges
<1>10. CASE MirrorFails(t)
  <2>1. /\ db' = db /\ job' = job /\ torn' = torn \cup {EdgeOf(job[t].req)}
        /\ pc[t] = "mirror" /\ pc'[t] = "home"
    BY <1>1, <1>10 DEF MirrorFails
  <2>2. (\A x, n : Side(x, n)' <=> Side(x, n)) /\ (\A b : Known(b)' = Known(b)) /\ db'.k = db.k
    BY <2>1, SidesAfter
  <2>3. job[t].entity = NoEntity
    BY <1>1, <2>1 DEF Proper
  <2>4. Mirrored(pc[t], job[t])'
    BY <2>1 DEF Mirrored, Excused, EdgeOf
  <2> QED
    BY <1>1, <1>2, <1>3, <1>5, <2>1, <2>2, <2>3, <2>4, EdgeKeeps
<1>11. CASE HomeFails(t)
  <2>1. /\ db' = db /\ job'[t] = NoJob /\ pc[t] = "home" /\ pc'[t] = "idle"
        /\ torn' = IF Crosses(job[t].req, job[t].at) THEN torn \cup {EdgeOf(job[t].req)} ELSE torn
    BY <1>1, <1>11 DEF HomeFails
  <2>2. (\A x, n : Side(x, n)' <=> Side(x, n)) /\ (\A b : Known(b)' = Known(b)) /\ db'.k = db.k
    BY <2>1, SidesAfter
  <2>3. job[t].entity = NoEntity /\ job[t].req \in Request
    BY <1>1, <2>1 DEF Proper
  <2>4. ASSUME NEW x \in Edge, Crossing(x), EdgeOf(job[t].req) = x PROVE x \in torn'
    <3>1. job[t].req.target # NoEntity /\ HomeOf(job[t].req.entity) # HomeOf(job[t].req.target)
      BY <1>2, <2>4 DEF Crossing, EdgeOf, Edge
    <3>2. Crosses(job[t].req, job[t].at) \/ x \in torn
      BY <2>1, <2>4, <3>1 DEF Crosses, EdgeInv, TornInv, TornBy
    <3> QED
      BY <2>1, <2>4, <3>2
  <2>5. \A x \in Edge : Crossing(x) /\ ~Excused(x)' => (PendingEdge(x) => PendingEdge(x)')
    BY <1>5, <2>4 DEF Excused
  <2> QED
    BY <1>1, <1>2, <1>3, <1>4, <1>5, <2>1, <2>2, <2>3, <2>5, EdgeKeeps
<1>12. CASE Bump(t) \/ SweepFails(t)
  <2>1. /\ db' = db /\ job'[t] = NoJob /\ pc[t] \in {"bump", "sweep"} /\ pc'[t] = "idle"
        /\ torn \subseteq torn'
    BY <1>1, <1>12 DEF Bump, SweepFails
  <2>2. (\A x, n : Side(x, n)' <=> Side(x, n)) /\ (\A b : Known(b)' = Known(b)) /\ db'.k = db.k
    BY <2>1, SidesAfter
  <2>3. ASSUME NEW x \in Edge, ~Excused(x)', job[t].entity \in {x[1], x[2]}, NEW n \in {1, 2}
        PROVE  ~Side(x, n)
    <3>1. CASE SweepFails(t)
      <4>1. Incident(job[t].entity) \subseteq torn'
        BY <3>1 DEF SweepFails
      <4> QED
        BY <2>3, <4>1 DEF Incident, Excused
    <3>2. CASE Bump(t)
      <4>1. job[t].left = {} /\ job[t].entity \in Entity \ (raced \cup strayed)
        BY <1>1, <2>3, <3>2 DEF Bump, Proper, Excused, Edge
      <4>2. job[t].at = HomeOf(job[t].entity)
        BY <2>1, <2>3, <4>1 DEF EdgeInv, TornInv, TornBy, Incident, Excused
      <4>5. \A d \in Domain : job[t].entity \notin Known(d)
        BY <4>1, <4>2 DEF EdgeInv, SweepInv, SweptBy
      <4>3. HomeOf(x[n]) \in Domain
        <5>1. x[n] \in Entity
          BY DEF Edge
        <5> QED
          BY <5>1, HomeIsDomain DEF BaseInv
      <4> QED
        BY <2>3, <4>3, <4>5, NoneForgotten DEF Side
    <3> QED
      BY <1>12, <3>1, <3>2
  <2>4. \A x \in Edge : ~Excused(x)' => (Swept(x) => Swept(x)' \/ (~Side(x, 1)' /\ ~Side(x, 2)'))
    BY <1>5, <2>2, <2>3
  <2> QED
    BY <1>1, <1>2, <1>3, <1>4, <1>5, <2>1, <2>2, <2>4, EdgeKeeps
<1>13. CASE MirrorCommit(t)
  <2> DEFINE r == job[t].req
             d == HomeOf(r.target)
  <2>1. r \in Request /\ Crosses(r, job[t].at) /\ Adds(d, {r.entity, r.target}, {}, {EdgeOf(r)})
    BY <1>13, MirrorAdds
  <2>2. UNCHANGED <<job, torn>> /\ pc[t] = "mirror" /\ pc'[t] = "home" /\ job[t].entity = NoEntity
    BY <1>1, <1>13 DEF MirrorCommit, Proper
  <2>3. PICK x0 \in Edge : x0 = EdgeOf(r) /\ x0[1] = r.entity /\ x0[2] = r.target
    BY <2>1, CrossingEdge DEF Crosses
  <2>4. /\ \A x \in Edge, n \in {1, 2} : Side(x, n)' <=> Side(x, n) \/ (HomeOf(x[n]) = d /\ x \in {x0})
        /\ \A b \in Domain : Known(b)' \subseteq Known(b) \cup {r.entity, r.target}
        /\ db'.k = db.k
    BY <2>1, <2>3, SidesAfter
  <2>5. PendingEdge(x0)'
    BY <2>2, <2>3 DEF PendingEdge, EdgeOf
  <2>6. Mirrored(pc[t], job[t])'
    <3>1. Side(x0, 2)'
      BY <2>3, <2>4
    <3> QED
      BY <2>2, <2>3, <3>1 DEF Mirrored, EdgeOf
  <2>7. \A b \in Domain : \A e \in Known(b)' :
           e \in Known(b) \/ (job'[t].req # <<>> /\ e \in {job'[t].req.entity, job'[t].req.target})
    BY <2>1, <2>2, <2>4, RequestsAreSome
  <2>8. \A x \in Edge : Crossing(x) => (Side(x, 1)' => Side(x, 1))
    BY <2>3, <2>4 DEF Crossing
  <2>9. \A x \in Edge : Side(x, 2)' => Side(x, 2) \/ PendingEdge(x)'
    BY <2>4, <2>5
  <2>10. \A x \in Edge, n \in {1, 2} : Side(x, n) => Side(x, n)'
    BY <2>4
  <2>11. (\A x : Swept(x) => Swept(x)') /\ \A x : PendingEdge(x) => PendingEdge(x)'
    BY <1>5, <2>2
  <2> QED
    BY <1>1, <1>2, <1>3, <2>2, <2>4, <2>6, <2>7, <2>8, <2>9, <2>10, <2>11, EdgeKeeps
<1>14. CASE HomeCommit(t)
  <2> DEFINE r == job[t].req
             d == job[t].at
  <2>1. r \in Request /\ Adds(d, {r.entity, r.target} \ {NoEntity}, Observed(r), HomeEdges(r))
    BY <1>14, HomeAdds
  <2>2. UNCHANGED <<job, torn>> /\ pc[t] = "home" /\ pc'[t] = "bump" /\ job[t].entity = NoEntity
    BY <1>1, <1>14 DEF HomeCommit, Proper
  <2>3. /\ \A x \in Edge, n \in {1, 2} : Side(x, n)' <=> Side(x, n) \/ (HomeOf(x[n]) = d /\ x \in HomeEdges(r))
        /\ \A b \in Domain : Known(b)' \subseteq Known(b) \cup ({r.entity, r.target} \ {NoEntity})
        /\ db'.k = db.k
    BY <2>1, SidesAfter
  <2>4. \A x \in Edge : EdgeOf(r) = x => x \in HomeEdges(r)
    BY <1>2 DEF HomeEdges, EdgeOf, Edge
  <2>5. \A x \in HomeEdges(r) : /\ x \in Edge /\ x = EdgeOf(r) /\ x[1] = r.entity /\ x[2] = r.target
                                /\ r.target # NoEntity
    BY <2>1, CrossingEdge DEF HomeEdges
  <2>6. \A b \in Domain : \A e \in Known(b)' :
           e \in Known(b) \/ (job'[t].req # <<>> /\ e \in {job'[t].req.entity, job'[t].req.target})
    BY <2>1, <2>2, <2>3, RequestsAreSome
  <2>7. \A x \in Edge, n \in {1, 2} : Side(x, n) => Side(x, n)'
    BY <2>3
  <2>12. ASSUME NEW x \in Edge, ~Excused(x)', EdgeOf(r) = x PROVE HomeOf(x[1]) = d /\ x[2] # NoEntity
    <3>1. r.target # NoEntity /\ x[1] = r.entity /\ x[2] = r.target
      BY <1>2, <2>4, <2>5, <2>12
    <3>2. x \notin torn
      BY <2>2, <2>12 DEF Excused
    <3> QED
      BY <2>2, <2>12, <3>1, <3>2 DEF EdgeInv, TornInv, TornBy
  <2>8. ASSUME NEW x \in Edge, Crossing(x), ~Excused(x)', Side(x, 1)', ~Side(x, 1) PROVE Side(x, 2)'
    <3>1. x \in HomeEdges(r)
      BY <2>3, <2>8
    <3>2. x = EdgeOf(r) /\ Crosses(r, d)
      BY <2>3, <2>5, <2>8, <3>1 DEF Crosses, Crossing
    <3>3. Excused(x) \/ Side(x, 2)
      BY <2>2, <3>2 DEF EdgeInv, MirrorInv, Mirrored
    <3> QED
      BY <1>6, <2>2, <2>7, <2>8, <3>3
  <2>9. \A x \in Edge : Crossing(x) /\ ~Excused(x)' => (Side(x, 2)' => Side(x, 2))
    BY <2>3, <2>5, <2>12 DEF Crossing
  <2>10. \A x \in Edge : ~Excused(x)' => (PendingEdge(x) => PendingEdge(x)' \/ Side(x, 1)')
    BY <1>5, <2>3, <2>4, <2>12
  <2>11. \A x : Swept(x) => Swept(x)'
    BY <1>5, <2>2
  <2> QED
    BY <1>1, <1>2, <1>3, <1>4, <2>2, <2>3, <2>6, <2>7, <2>8, <2>9, <2>10, <2>11, EdgeKeeps
<1>15. CASE AddRelation(t)
  <2>1. PICK d \in Domain, from \in Entity, to \in Entity :
           \/ /\ Adds(d, {}, {}, {<<from, to>>})
              /\ torn' = IF HomeOf(from) # d \/ HomeOf(to) # d
                         THEN torn \cup {<<from, to>>} ELSE torn
              /\ Goto(t, "bump") /\ UNCHANGED job
           \/ /\ StartWrite(t, [entity |-> from, fact |-> NoFact, target |-> to], d)
              /\ torn' = IF HomeOf(from) # d THEN torn \cup {<<from, to>>} ELSE torn
              /\ UNCHANGED db
    BY <1>15, RelationAdds
  <2>2. pc[t] = "idle" /\ job[t].entity = NoEntity
    BY <1>1, <1>15 DEF AddRelation, Ready, Proper
  <2>3. CASE /\ Adds(d, {}, {}, {<<from, to>>})
             /\ torn' = IF HomeOf(from) # d \/ HomeOf(to) # d
                        THEN torn \cup {<<from, to>>} ELSE torn
             /\ Goto(t, "bump") /\ UNCHANGED job
    <3>1. Adds(d, {}, {}, {<<from, to>>}) /\ db'.k = db.k
      BY <2>3 DEF Adds, Only
    <3>2. /\ \A x \in Edge, n \in {1, 2} : Side(x, n)' <=> Side(x, n) \/ (HomeOf(x[n]) = d /\ x \in {<<from, to>>})
          /\ \A b \in Domain : Known(b)' \subseteq Known(b) \cup {}
      BY <3>1, SidesAfter
    <3>3. pc'[t] = "bump" /\ job' = job /\ torn \subseteq torn'
      BY <1>1, <2>3
    <3>4. \A x \in Edge : Crossing(x) /\ ~Excused(x)' => x # <<from, to>>
      BY <2>3 DEF Crossing, Excused
    <3>5. (\A x : Swept(x) => Swept(x)') /\ \A x : PendingEdge(x) => PendingEdge(x)'
      BY <1>5, <2>2, <3>3
    <3>6. \A x \in Edge : Crossing(x) /\ ~Excused(x)' => \A n \in {1, 2} : Side(x, n)' <=> Side(x, n)
      BY <3>2, <3>4
    <3>7. \A x \in Edge, n \in {1, 2} : Side(x, n) => Side(x, n)'
      BY <3>2
    <3> QED
      BY <1>1, <1>2, <1>3, <1>4, <2>2, <3>1, <3>2, <3>3, <3>5, <3>6, <3>7, EdgeKeeps
  <2>4. CASE /\ StartWrite(t, [entity |-> from, fact |-> NoFact, target |-> to], d)
             /\ torn' = IF HomeOf(from) # d THEN torn \cup {<<from, to>>} ELSE torn
             /\ UNCHANGED db
    <3>1. PICK r : r = [entity |-> from, fact |-> NoFact, target |-> to]
      OBVIOUS
    <3>2. job'[t] = [NoJob EXCEPT !.req = r, !.at = d] /\ pc'[t] = Start(r, d)
      BY <1>1, <2>4, <3>1 DEF StartWrite
    <3>3. job'[t].req = r /\ job'[t].at = d /\ job'[t].entity = NoEntity
      BY <1>2, <3>2 DEF NoJob
    <3>4. Mirrored(pc[t], job[t])'
      BY <2>4, <3>2, <3>3 DEF Mirrored, Start, Crosses, HomeOf
    <3>5. TornBy(pc[t], job[t])' /\ torn \subseteq torn'
      BY <1>2, <2>4, <3>1, <3>3 DEF TornBy, HomeOf, EdgeOf
    <3> QED
      BY <1>1, <1>2, <2>2, <2>4, <3>3, <3>4, <3>5, ReadKeepsEdges
  <2> QED
    BY <2>1, <2>3, <2>4
<1>16. CASE Forget(t) \/ TidyDomain(t)
  <2>1. PICK d, E, F : Removes(d, E, F, {})
    BY <1>16, ForgetRemoves, TidyRemoves
  <2>2. /\ \A x \in Edge, n \in {1, 2} : (Side(x, n)' => Side(x, n)) /\ (Side(x, n) => Side(x, n)' \/ x \in {})
        /\ \A b \in Domain : Known(b)' \subseteq Known(b)
        /\ db'.k = db.k
    BY <2>1, SidesAfter
  <2>3. torn' = torn /\ pc[t] \in {"idle", "tidy"} /\ pc'[t] \in {"bump", "tidy"}
    BY <1>1, <1>16 DEF Forget, TidyDomain, Ready
  <2>4. job'[t].entity = NoEntity /\ job[t].entity = NoEntity
    <3>1. CASE Forget(t)
      <4>1. \E out : job'[t] = [NoJob EXCEPT !.gone = out]
        BY <1>1, <3>1 DEF Forget
      <4> QED
        BY <1>1, <1>2, <3>1, <4>1 DEF Forget, Ready, Proper, NoJob
    <3>2. CASE TidyDomain(t)
      <4>1. pc[t] = "tidy" /\ pc'[t] = "tidy"
        BY <3>2 DEF TidyDomain
      <4> QED
        BY <1>1, <4>1 DEF BaseInv, Proper
    <3> QED
      BY <1>16, <3>1, <3>2
  <2>5. (\A x : Swept(x) => Swept(x)') /\ \A x : PendingEdge(x) => PendingEdge(x)'
    BY <1>5, <2>3, <2>4
  <2>6. \A x \in Edge, n \in {1, 2} : Side(x, n)' <=> Side(x, n)
    BY <2>2
  <2> QED
    BY <1>1, <1>2, <1>3, <1>4, <2>2, <2>3, <2>4, <2>5, <2>6, EdgeKeeps
<1>17. CASE ForgetEntity(t)
  <2>1. PICK d \in Domain, e \in Entity :
           /\ Removes(d, {e}, {f \in Fact : FactOf[f] = e}, Incident(e))
           /\ Do(t, [NoJob EXCEPT !.entity = e, !.at = d, !.left = Elsewhere(d),
                       !.gone = {f \in db.stores[d].facts : FactOf[f] = e}])
           /\ torn' = IF HomeOf(e) = d THEN torn ELSE torn \cup Incident(e)
    BY <1>17, EntityRemoves
  <2>3. /\ \A x \in Edge, n \in {1, 2} : (Side(x, n)' => Side(x, n)) /\ (Side(x, n) => Side(x, n)' \/ x \in Incident(e))
        /\ \A b \in Domain : Known(b)' \subseteq Known(b)
        /\ Known(d)' = Known(d) \ {e} /\ db'.k = db.k
    BY <2>1, SidesAfter
  <2>4. /\ torn \subseteq torn' /\ pc[t] = "idle" /\ pc'[t] = "sweep"
        /\ job'[t].entity = e /\ job'[t].at = d /\ job'[t].left = Elsewhere(d)
    BY <1>1, <1>17, <2>1 DEF ForgetEntity, Ready, NoJob
  <2>5. job[t].entity = NoEntity
    BY <1>1, <2>4 DEF Proper
  <2>9. SweptBy(job[t])'
    BY <2>3, <2>4 DEF SweptBy, Elsewhere, Domain
  <2>10. TornBy(pc[t], job[t])'
    BY <2>1, <2>3, <2>4 DEF TornBy, HomeOf
  <2>6. \A x \in Incident(e) : Swept(x)'
    BY <2>4 DEF Swept, Forgetting, Incident
  <2>8. (\A x \in Edge : Swept(x) => Swept(x)') /\ \A x : PendingEdge(x) => PendingEdge(x)'
    <3>1. \A x \in Edge : x[1] # NoEntity /\ x[2] # NoEntity
      BY <1>2 DEF Edge
    <3> QED
      BY <1>5, <2>4, <2>5, <3>1
  <2> QED
    BY <1>1, <1>2, <1>4, <2>3, <2>4, <2>6, <2>8, <2>9, <2>10, EdgeKeeps
<1>18. CASE SweepStub(t)
  <2>1. PICK d \in job[t].left, E \in SUBSET {job[t].entity}, F \in SUBSET Fact,
             X \in SUBSET Incident(job[t].entity) :
           /\ d \in Domain /\ F \subseteq db.stores[d].facts /\ Removes(d, E, F, X)
           /\ Do(t, [job[t] EXCEPT !.left = @ \ {d}, !.gone = @ \cup F])
           /\ job[t].entity \notin strayed /\ HomeOf(job[t].entity) # d
                => E = {job[t].entity} /\ X = Incident(job[t].entity)
    BY <1>18, SweepRemoves
  <2>2. PICK e : e = job[t].entity
    OBVIOUS
  <2>3. /\ \A x \in Edge, n \in {1, 2} : (Side(x, n)' => Side(x, n)) /\ (Side(x, n) => Side(x, n)' \/ x \in X)
        /\ \A b \in Domain : Known(b)' \subseteq Known(b)
        /\ Known(d)' = Known(d) \ E /\ db'.k = db.k
    BY <2>1, SidesAfter
  <2>4. /\ torn' = torn /\ pc[t] = "sweep" /\ pc'[t] = "sweep"
        /\ job'[t].entity = e /\ job'[t].at = job[t].at /\ job'[t].left = job[t].left \ {d}
    BY <1>1, <1>18, <2>1, <2>2 DEF SweepStub, Job
  <2>5. \A x \in X : Swept(x)'
    BY <2>2, <2>4 DEF Swept, Forgetting, Incident
  <2>6. SweptBy(job[t])'
    <3> SUFFICES ASSUME e \in Entity \ (raced' \cup strayed'), job[t].at = HomeOf(e),
                        NEW b \in Domain \ (job[t].left \ {d})
                 PROVE  e \notin Known(b)'
      BY <2>3, <2>4 DEF SweptBy, HomeOf, Domain
    <3>1. e \notin strayed /\ e \notin raced
      OBVIOUS
    <3>2. \A c \in Domain \ job[t].left : e \notin Known(c)
      BY <2>2, <3>1 DEF EdgeInv, SweepInv, SweptBy
    <3>3. HomeOf(e) # d
      BY <1>1, <2>1, <2>4 DEF Proper
    <3>4. E = {e}
      BY <2>1, <2>2, <3>1, <3>3
    <3> QED
      BY <2>3, <3>2, <3>4
  <2>7. (\A x : Swept(x) => Swept(x)') /\ \A x : PendingEdge(x) => PendingEdge(x)'
    BY <1>5, <2>2, <2>4
  <2>8. TornBy(pc[t], job[t])'
    BY <2>2, <2>3, <2>4 DEF EdgeInv, TornInv, TornBy, HomeOf
  <2> QED
    BY <1>1, <1>4, <2>3, <2>4, <2>5, <2>6, <2>7, <2>8, EdgeKeeps
<1> QED
  BY <1>7, <1>8, <1>9, <1>10, <1>11, <1>12, <1>13, <1>14, <1>15, <1>16, <1>17, <1>18 DEF Call

\* A profile that nobody has open: a replay takes up what a journal left, and a
\* migration writes both sides of every edge.
LEMMA ProcessKeepsEdges ==
  ASSUME BaseInv, BaseInv', MigrationInv, EdgeInv,
         \/ /\ CacheExpires \/ Close \/ Open \/ Crash
            /\ raced' = raced \cup Overlap' /\ strayed \subseteq strayed'
         \/ Migrate \/ Restore \/ RemoveBackup \/ UNCHANGED vars
  PROVE  EdgeInv'
<1> USE DEF stores, history
<1>1. ASSUME UNCHANGED <<db, pc, job, journal, torn>>, raced' = raced \/ raced' = raced \cup Overlap',
             strayed \subseteq strayed'
      PROVE  EdgeInv'
  <2>1. Overlap' = Overlap
    BY <1>1 DEF Overlap, Writing, Forgetting
  <2>2. raced' = raced /\ Domain' = Domain
    BY <1>1, <2>1 DEF EdgeInv, Domain
  <2>3. \A x : Excused(x) => Excused(x)'
    BY <1>1, <2>2 DEF Excused
  <2>4. SweepInv' /\ TornInv'
    BY <1>1, <2>2 DEF EdgeInv, SweepInv, SweptBy, TornInv, TornBy, HomeOf, Known, EdgeOf
  <2>5. MirrorInv'
    BY <1>1, <2>3 DEF EdgeInv, MirrorInv, Mirrored, Side, Crosses, EdgeOf, HomeOf
  <2>6. SidesInv'
    BY <1>1, <2>3 DEF EdgeInv, SidesInv, Side, Swept, Forgetting, PendingEdge, Crossing, EdgeOf, HomeOf
  <2> QED
    BY <2>1, <2>2, <2>4, <2>5, <2>6 DEF EdgeInv
<1>2. CASE \/ (CacheExpires \/ Close) /\ raced' = raced \cup Overlap' /\ strayed \subseteq strayed'
           \/ UNCHANGED vars
  BY <1>1, <1>2 DEF CacheExpires, Close, vars, storeVars
<1>3. CASE Restore \/ RemoveBackup \/ (Migrate /\ ~MigrateCommit)
  BY <1>1, <1>3 DEF Restore, RemoveBackup, Migrate, MigrateBuild, MigrateGivesUp, MigrateMark,
     MigrateBackup, MigratePark, MigratePlace, MigrateClear, MigrateCrash, storeVars
<1>4. NoJob.req = <<>> /\ NoJob.entity = NoEntity /\ NoEntity \notin Entity
  BY EntityAssumption DEF NoJob
<1>5. ASSUME ~opened
      PROVE  \A t \in Thread : pc[t] = "idle" /\ job[t] = NoJob
  BY <1>5 DEF BaseInv, Proper
<1>6. CASE MigrateCommit
  <2>1. /\ ~opened /\ Routable(db) /\ staged = Route(db, staged.k) /\ staged.k \in DOMAIN Home /\ journal = {}
        /\ Partitioned(db, strayed) /\ db' = staged /\ UNCHANGED <<pc, job, journal>> /\ raced' = {} /\ torn' = {}
    BY <1>6 DEF MigrateCommit, MigrationInv, BaseInv
  <2>2. PICK k \in DOMAIN Home : k = staged.k
    BY <2>1
  <2>3. /\ db'.k = k
        /\ \A x \in CanonicalEdges(db), n \in {1, 2} : x \in db'.stores[Home[k][x[n]]].edges
        /\ \A x \in Edge, d \in 1..k : x \in db'.stores[d].edges => x \in CanonicalEdges(db)
    <3>1. db' = Route(db, k)
      BY <2>1, <2>2
    <3> QED
      BY <2>1, <3>1, RouteShape
  <2>4. \A t \in Thread : pc'[t] = "idle" /\ job'[t] = NoJob
    BY <1>5, <2>1
  <2>5. Overlap' = {}
    BY <1>4, <2>4 DEF Overlap, Forgetting
  <2>6. ASSUME NEW x \in Edge, NEW n \in {1, 2}, Side(x, n)', NEW m \in {1, 2}
        PROVE  Side(x, m)'
    <3>1. x[n] \in Entity
      BY DEF Edge
    <3>2. Home[k][x[n]] \in 1..k
      BY <3>1, HomeAssumption
    <3>3. x \in CanonicalEdges(db)
      BY <2>3, <2>6, <3>2 DEF Side, HomeOf
    <3> QED
      BY <2>3, <3>3 DEF Side, HomeOf
  <2>7. SidesInv'
    BY <2>6 DEF SidesInv
  <2> QED
    BY <1>4, <2>1, <2>4, <2>5, <2>7
    DEF EdgeInv, SweepInv, SweptBy, TornInv, TornBy, MirrorInv, Mirrored
<1>7. CASE Open /\ raced' = raced \cup Overlap' /\ strayed \subseteq strayed'
  <2>1. PICK S \in SUBSET Journaled, replay \in [Journaled -> journal \cup {<<>>}] :
          /\ {replay[t] : t \in S} = journal
          /\ LET home(t) == HomeOf(replay[t].entity) IN
             /\ job' = [t \in Thread |-> IF t \in S THEN [NoJob EXCEPT !.req = replay[t], !.at = home(t)]
                                         ELSE NoJob]
             /\ pc' = [t \in Thread |-> IF t \in S THEN Start(replay[t], home(t)) ELSE "idle"]
    BY <1>7 DEF Open
  <2>2. ~opened /\ UNCHANGED <<db, torn>> /\ journal' = {}
    BY <1>7 DEF Open
  <2>3. ASSUME NEW t \in Thread
        PROVE  /\ job'[t].entity = NoEntity
               /\ t \in S => /\ job'[t].req = replay[t] /\ job'[t].at = HomeOf(replay[t].entity)
                             /\ pc'[t] = Start(replay[t], HomeOf(replay[t].entity))
               /\ t \notin S => pc'[t] = "idle"
    <3>1. job'[t] = IF t \in S THEN [NoJob EXCEPT !.req = replay[t], !.at = HomeOf(replay[t].entity)]
                    ELSE NoJob
      BY <2>1
    <3>2. \A r, d : /\ [NoJob EXCEPT !.req = r, !.at = d].entity = NoEntity
                    /\ [NoJob EXCEPT !.req = r, !.at = d].req = r
                    /\ [NoJob EXCEPT !.req = r, !.at = d].at = d
      BY DEF NoJob
    <3>3. CASE t \in S
      <4>1. job'[t] = [NoJob EXCEPT !.req = replay[t], !.at = HomeOf(replay[t].entity)]
        BY <3>1, <3>3
      <4> QED
        BY <2>1, <3>2, <3>3, <4>1
    <3>4. CASE t \notin S
      BY <1>4, <2>1, <3>1, <3>4
    <3> QED
      BY <3>3, <3>4
  <2>4. Overlap' = {} /\ raced' = raced
    BY <1>4, <1>7, <2>3 DEF Overlap, Forgetting
  <2>5. MirrorInv' /\ TornInv'
    <3>1. ASSUME NEW t \in Thread PROVE Mirrored(pc[t], job[t])' /\ TornBy(pc[t], job[t])'
      <4>1. CASE t \in S
        BY <1>4, <2>2, <2>3, <4>1 DEF Mirrored, TornBy, Start, Crosses, HomeOf
      <4>2. CASE t \notin S
        BY <1>4, <2>3, <4>2 DEF Mirrored, TornBy
      <4> QED
        BY <4>1, <4>2
    <3> QED
      BY <3>1 DEF MirrorInv, TornInv
  <2>6. \A x : PendingEdge(x) => PendingEdge(x)'
    <3> SUFFICES ASSUME NEW x, PendingEdge(x) PROVE PendingEdge(x)'
      OBVIOUS
    <3>1. PICK r \in journal : EdgeOf(r) = x
      BY <1>5, <2>2 DEF PendingEdge
    <3>2. PICK t \in S : replay[t] = r
      BY <2>1
    <3>3. t \in Thread
      BY <2>1, EntityAssumption
    <3> QED
      BY <2>3, <3>1, <3>2, <3>3 DEF PendingEdge, EdgeOf, Start
  <2>7. \A x \in Edge : ~Swept(x)
    BY <1>4, <1>5, <2>2 DEF Swept, Forgetting, Edge
  <2>8. SidesInv'
    BY <1>7, <2>2, <2>4, <2>6, <2>7 DEF EdgeInv, SidesInv, Excused, Side, Crossing, HomeOf
  <2> QED
    BY <1>4, <2>3, <2>4, <2>5, <2>8 DEF EdgeInv, SweepInv, SweptBy
<1>8. CASE Crash /\ raced' = raced \cup Overlap' /\ strayed \subseteq strayed'
  <2>1. /\ db' = db /\ \A t \in Thread : pc'[t] = "idle" /\ job'[t] = NoJob
        /\ journal' = {job[t].req : t \in {u \in Journaled : pc[u] \in {"mirror", "home"}}}
        /\ torn' = torn \cup {EdgeOf(job[t].req) :
                                t \in {u \in Thread \ Journaled : /\ pc[u] \in {"mirror", "home"}
                                                             /\ Crosses(job[u].req, job[u].at)}}
                        \cup UNION {Incident(job[t].entity) : t \in {u \in Thread : pc[u] = "sweep"}}
        /\ journal = {}
    BY <1>8 DEF Crash, BaseInv
  <2>2. Overlap' = {} /\ raced' = raced
    BY <1>4, <1>8, <2>1 DEF Overlap, Forgetting
  <2>3. ASSUME NEW x \in Edge, ~Excused(x)', Swept(x) PROVE ~Side(x, 1) /\ ~Side(x, 2)
    <3>1. PICK t \in Thread : job[t].entity \in {x[1], x[2]}
      BY <2>3 DEF Swept, Forgetting
    <3>2. job[t].entity \in Entity \ (raced \cup strayed)
      BY <1>8, <2>2, <2>3, <3>1 DEF Excused, Edge
    <3>3. pc[t] # "sweep"
      BY <2>1, <2>3, <3>1 DEF Incident, Excused
    <3>4. job[t].left = {}
      BY <1>4, <3>2, <3>3 DEF BaseInv, Proper
    <3>7. job[t].at = HomeOf(job[t].entity)
      BY <2>1, <2>3, <3>1, <3>2 DEF EdgeInv, TornInv, TornBy, Incident, Excused
    <3>5. \A d \in Domain : job[t].entity \notin Known(d)
      BY <3>2, <3>4, <3>7 DEF EdgeInv, SweepInv, SweptBy
    <3>6. HomeOf(x[1]) \in Domain /\ HomeOf(x[2]) \in Domain
      <4>1. x[1] \in Entity /\ x[2] \in Entity
        BY DEF Edge
      <4> QED
        BY <4>1, HomeIsDomain DEF BaseInv
    <3> QED
      BY <3>1, <3>5, <3>6, NoneForgotten DEF Side
  <2>4. ASSUME NEW x \in Edge, ~Excused(x)', Crossing(x), PendingEdge(x) PROVE PendingEdge(x)'
    <3>1. PICK t \in Thread : pc[t] \in {"mirror", "home"} /\ EdgeOf(job[t].req) = x
      BY <2>1, <2>4 DEF PendingEdge
    <3>2. CASE t \in Journaled
      <4>1. job[t].req \in journal'
        BY <2>1, <3>1, <3>2
      <4> QED
        BY <3>1, <4>1 DEF PendingEdge, EdgeOf
    <3>3. CASE t \notin Journaled
      <4>1. job[t].req.target # NoEntity /\ HomeOf(job[t].req.entity) # HomeOf(job[t].req.target)
        BY <1>4, <2>4, <3>1 DEF Crossing, EdgeOf, Edge
      <4>2. Crosses(job[t].req, job[t].at)
        BY <2>1, <2>4, <3>1, <4>1 DEF Crosses, EdgeInv, TornInv, TornBy, Excused
      <4> QED
        BY <2>1, <2>4, <3>1, <3>3, <4>2 DEF Excused
    <3> QED
      BY <3>2, <3>3
  <2>5. SidesInv'
    <3> SUFFICES ASSUME NEW x \in Edge, ~Excused(x)', Crossing(x)'
                 PROVE  /\ Side(x, 1)' => Side(x, 2)' \/ Swept(x)'
                        /\ Side(x, 2)' => Side(x, 1)' \/ Swept(x)' \/ PendingEdge(x)'
      BY DEF SidesInv
    <3>1. ~Excused(x) /\ Crossing(x) /\ (Side(x, 1)' <=> Side(x, 1)) /\ (Side(x, 2)' <=> Side(x, 2))
      BY <1>8, <2>1, <2>2 DEF Excused, Crossing, HomeOf, Side
    <3> QED
      BY <2>3, <2>4, <3>1 DEF EdgeInv, SidesInv
  <2> QED
    BY <1>4, <2>1, <2>2, <2>5 DEF EdgeInv, SweepInv, SweptBy, TornInv, TornBy, MirrorInv, Mirrored
<1> QED
  BY <1>2, <1>3, <1>6, <1>7, <1>8

-----------------------------------------------------------------------------
(* Both sides, wherever nobody is excused. *)

EdgesInv == (BaseInv /\ MigrationInv) /\ EdgeInv
\* A new profile has no edges.
LEMMA EdgesInit ==
  ASSUME Init
  PROVE  EdgesInv
<1>1. BaseInv /\ MigrationInv
  BY LayoutInit
<1>2. PICK k \in mix.domains : db = [k |-> k, stores |-> [d \in 1..k |-> Empty]]
  BY DEF Init, InitStore
<1>3. journal = {} /\ raced = {} /\ \A t \in Thread : pc[t] = "idle" /\ job[t] = NoJob
  BY DEF Init, InitStore
<1>4. NoJob.req = <<>> /\ NoJob.entity = NoEntity /\ NoEntity \notin Entity
  BY EntityAssumption DEF NoJob
<1>5. \A x \in Edge, n \in {1, 2} : ~Side(x, n)
  <2> SUFFICES ASSUME NEW x \in Edge, NEW n \in {1, 2} PROVE ~Side(x, n)
    OBVIOUS
  <2>1. HomeOf(x[n]) \in Domain
    <3>1. x[n] \in Entity
      BY DEF Edge
    <3> QED
      BY <1>1, <3>1, HomeIsDomain DEF BaseInv
  <2>2. db.stores[HomeOf(x[n])] = Empty
    BY <1>2, <2>1 DEF Domain
  <2> QED
    BY <2>2 DEF Side, Empty
<1>6. EdgeInv
  BY <1>3, <1>4, <1>5 DEF EdgeInv, Overlap, Forgetting, SweepInv, SweptBy, TornInv, TornBy,
     MirrorInv, Mirrored, SidesInv
<1> QED
  BY <1>1, <1>6 DEF EdgesInv

\* Every step of the profile keeps them.
LEMMA EdgesStep ==
  ASSUME EdgesInv, [Next]_vars
  PROVE  EdgesInv'
<1>1. BaseInv /\ MigrationInv /\ EdgeInv /\ BaseInv' /\ MigrationInv'
  BY LayoutInvStep DEF EdgesInv
<1>2. ASSUME NextStore PROVE EdgeInv'
  <2>1. raced' = raced \cup Overlap' /\ strayed \subseteq strayed'
    BY <1>2 DEF NextStore
  <2>2. ASSUME NEW t \in Thread, Call(t) PROVE EdgeInv'
    BY <1>1, <2>1, <2>2, CallKeepsEdges
  <2>3. ASSUME CacheExpires \/ Close \/ Open \/ Crash PROVE EdgeInv'
    BY <1>1, <2>1, <2>3, ProcessKeepsEdges
  <2> QED
    BY <1>2, <2>2, <2>3 DEF NextStore
<1>3. ASSUME Migrate \/ Restore \/ RemoveBackup \/ UNCHANGED vars PROVE EdgeInv'
  BY <1>1, <1>3, ProcessKeepsEdges
<1>4. EdgeInv'
  BY <1>2, <1>3 DEF Next
<1> QED
  BY <1>1, <1>4 DEF EdgesInv

\* In every reachable state an edge with one side has its excuse, or somebody
\* who writes or removes the other.
THEOREM EdgesKept == Spec => []EdgesInv
<1>1. Init => EdgesInv
  BY EdgesInit
<1>2. EdgesInv /\ [Next]_vars => EdgesInv'
  BY EdgesStep
<1> QED
  BY <1>1, <1>2, PTL DEF Spec

\* An edge is on both sides of its boundary or on neither, unless a commit of it
\* failed, its sweep was cut short, a stub's id was used, or one of its entities
\* is or was written while it was forgotten, or has strayed: the mirror before
\* the edge, and the journal, leave no other way to tear it.
THEOREM EdgesHaveBothSides == Spec => []EdgesBothSides
<1>1. EdgesInv => EdgesBothSides
  <2> SUFFICES ASSUME EdgesInv, NEW x \in Edge \ torn,
                      ~(\E n \in {1, 2} : Busy(x[n]) \/ x[n] \in raced \cup strayed)
               PROVE  Side(x, 1) <=> Side(x, 2)
    BY DEF EdgesBothSides, Side
  <2>1. ~Excused(x) /\ ~Swept(x)
    BY DEF Excused, Swept, Busy
  <2>2. ~PendingEdge(x)
    <3> SUFFICES ASSUME PendingEdge(x) PROVE Writing(x[1])
      BY DEF Busy
    <3>1. CASE \E r \in journal : EdgeOf(r) = x
      BY <3>1 DEF Writing, EdgeOf
    <3>2. CASE \E t \in Thread : pc[t] \in {"mirror", "home"} /\ EdgeOf(job[t].req) = x
      BY <3>2 DEF EdgesInv, BaseInv, Proper, Writing, EdgeOf
    <3> QED
      BY <3>1, <3>2 DEF PendingEdge
  <2>3. CASE Crossing(x)
    BY <2>1, <2>2, <2>3 DEF EdgesInv, EdgeInv, SidesInv
  <2>4. CASE ~Crossing(x)
    BY <2>4 DEF Crossing, Side
  <2> QED
    BY <2>3, <2>4
<1> QED
  BY <1>1, EdgesKept, PTL
=============================================================================
