------------------------ MODULE ContextEngineProofs ------------------------
(***************************************************************************)
(* Theorems about ContextEngine, for every value of its constants and in   *)
(* every environment, crashes and power losses included: its types, that   *)
(* the durability watermark never runs ahead of what is committed, and     *)
(* that maintenance erases a journal only when no state a store may come   *)
(* back in still needs it.                                                 *)
(***************************************************************************)
EXTENDS ContextEngine, FiniteSetTheorems, SequenceTheorems,
        WellFoundedInduction, TLAPS

-----------------------------------------------------------------------------
(* Arithmetic and the operators of replay.                                 *)

\* Routing stays in range: shard_for and domain_of_shard index their vectors.
LEMMA RoutingType ==
  /\ \A r \in Request : ShardOf(r) \in Shard
  /\ \A s \in Shard : DomainOf(s) \in Domain
<1>1. \A a \in Nat, b \in Nat \ {0} : a % b \in 0 .. b - 1
  OBVIOUS
<1> QED
  BY <1>1, CountsAssumption, DataAssumption DEF ShardOf, DomainOf, Shard, Domain

\* Larger is the maximum that upserts and watermarks take.
LEMMA LargerType ==
  ASSUME NEW a \in Nat, NEW b \in Nat
  PROVE  Larger(a, b) \in Nat /\ Larger(a, b) >= a /\ Larger(a, b) >= b
BY DEF Larger

\* The least-number principle, for a set of natural numbers.
LEMMA Least ==
  ASSUME NEW T \in SUBSET Nat, T # {}
  PROVE  \E x \in T : \A y \in T : x <= y
<1>1. PICK x \in T : \A y \in T : ~ (<<y, x>> \in OpToRel(<, Nat))
  BY NatLessThanWellFounded, WFMin
<1>2. \A y \in T : ~ (y < x)
  BY <1>1 DEF OpToRel
<1> QED
  BY <1>2

\* The sequence numbers of a journal are bounded.
LEMMA SeqBound ==
  ASSUME NEW f \in Seq(Unit)
  PROVE  \E b \in Nat : \A i \in 1 .. Len(f) : f[i].seq <= b
<1> DEFINE Bounded(k) == \E b \in Nat : \A i \in 1 .. k : f[i].seq <= b
           Bad == {k \in 0 .. Len(f) : ~ Bounded(k)}
<1>1. Len(f) \in Nat /\ \A i \in 1 .. Len(f) : f[i].seq \in Nat
  <2>1. \A i \in 1 .. Len(f) : f[i] \in Unit
    OBVIOUS
  <2> QED
    BY <2>1 DEF Unit
<1>2. Bounded(0)
  <2>1. \A i \in 1 .. 0 : f[i].seq <= 0
    OBVIOUS
  <2> QED
    BY <2>1
<1>3. ASSUME NEW k \in Nat, k < Len(f), Bounded(k)
      PROVE  Bounded(k + 1)
  <2>1. PICK b \in Nat : \A i \in 1 .. k : f[i].seq <= b
    BY <1>3
  <2>2. k + 1 \in 1 .. Len(f) /\ f[k + 1].seq \in Nat
    BY <1>1, <1>3
  <2>3. Larger(b, f[k + 1].seq) \in Nat
    BY <2>2, LargerType
  <2>4. ASSUME NEW i \in 1 .. k + 1
        PROVE  f[i].seq <= Larger(b, f[k + 1].seq)
    <3>1. f[i].seq \in Nat
      BY <1>1, <1>3
    <3>2. CASE i = k + 1
      BY <2>2, <3>2, LargerType
    <3>3. CASE i \in 1 .. k
      <4>1. f[i].seq <= b
        BY <2>1, <3>3
      <4> QED
        BY <2>2, <3>1, <4>1 DEF Larger
    <3> QED
      BY <3>2, <3>3
  <2> QED
    BY <2>3, <2>4
<1> HIDE DEF Bounded
<1>4. Bad = {}
  <2> SUFFICES ASSUME Bad # {} PROVE FALSE
    OBVIOUS
  <2>1. PICK k \in Bad : \A j \in Bad : k <= j
    <3>1. Bad \subseteq Nat
      BY <1>1
    <3> QED
      BY <3>1, Least
  <2>2. k \in 0 .. Len(f) /\ ~ Bounded(k) /\ k # 0
    BY <1>2
  <2>3. k - 1 \in Nat /\ k - 1 < Len(f) /\ k - 1 \notin Bad
    BY <1>1, <2>1, <2>2
  <2>4. Bounded(k - 1)
    BY <1>1, <2>3
  <2> QED
    BY <1>3, <2>2, <2>3, <2>4
<1>5. Bounded(Len(f))
  BY <1>1, <1>4
<1> QED
  BY <1>5 DEF Bounded

\* replay's running maximum: HighestSeq is one of the numbers it ranges over
\* and at or above each of them.
LEMMA HighestSeqType ==
  ASSUME NEW f \in Seq(Unit), NEW I \in SUBSET (1 .. Len(f)), NEW n \in Nat
  PROVE  /\ HighestSeq(f, I, n) \in Nat
         /\ HighestSeq(f, I, n) \in {n} \cup {f[i].seq : i \in I}
         /\ HighestSeq(f, I, n) >= n
         /\ \A i \in I : f[i].seq <= HighestSeq(f, I, n)
<1> DEFINE S     == {n} \cup {f[i].seq : i \in I}
           Upper == {b \in Nat : \A k \in S : k <= b}
<1>1. \A i \in I : f[i].seq \in Nat
  <2>1. \A i \in I : f[i] \in Unit
    OBVIOUS
  <2> QED
    BY <2>1 DEF Unit
<1>2. S \subseteq Nat
  BY <1>1
<1>3. PICK b \in Nat : \A i \in 1 .. Len(f) : f[i].seq <= b
  BY SeqBound
<1>4. Larger(b, n) \in Upper
  BY <1>1, <1>3 DEF Larger
<1>5. PICK u \in Upper : \A v \in Upper : u <= v
  BY <1>4, Least
<1>6. u \in S
  <2> SUFFICES ASSUME u \notin S PROVE FALSE
    OBVIOUS
  <2>1. ASSUME NEW k \in S
        PROVE  k \in Nat /\ k < u
    <3>1. k \in Nat /\ u \in Nat /\ k <= u /\ k # u
      BY <1>2
    <3> QED
      BY <3>1
  <2>2. u - 1 \in Upper
    BY <2>1
  <2> QED
    BY <2>2, <1>5
<1>7. \E m \in S : \A k \in S : k <= m
  BY <1>6
<1>8. HighestSeq(f, I, n) = CHOOSE m \in S : \A k \in S : k <= m
  BY DEF HighestSeq
<1>9. /\ HighestSeq(f, I, n) \in S
      /\ \A k \in S : k <= HighestSeq(f, I, n)
  BY <1>7, <1>8
<1> QED
  BY <1>2, <1>9

\* What a transaction adds is a count per request.
LEMMA CopiesType ==
  ASSUME NEW q, NEW I, IsFiniteSet(I)
  PROVE  Copies(q, I) \in [Request -> Nat]
<1>1. \A r \in Request : Cardinality({i \in I : q[i].req = r}) \in Nat
  BY FS_Subset, FS_CardinalityType
<1> QED
  BY <1>1 DEF Copies

-----------------------------------------------------------------------------
(* Type correctness.  TypeOK is not inductive: DrainBatch and Retry read   *)
(* the last and the first request of a drain, so the drain must hold one.  *)

DrainHoldsWork ==
  \A s \in Shard : dpc[s] \in {"sync", "batch", "retry", "mark"} => work[s] # <<>>

\* remember_batch keeps the types of the stores.
LEMMA CommitToType ==
  ASSUME TypeOK, NEW s \in Shard, NEW add \in [Request -> Nat], NEW n \in Nat,
         CommitTo(s, add, n)
  PROVE  /\ db' \in [Domain -> State]
         /\ survivors' \in [Domain -> SUBSET State]
<1> DEFINE d   == DomainOf(s)
           new == [applied |-> [r \in Request |-> db[d].applied[r] + add[r]],
                   ckpt    |-> [db[d].ckpt EXCEPT ![s] = Larger(@, n)]]
<1>1. d \in Domain
  BY RoutingType
<1>2. db[d].applied \in [Request -> Nat] /\ db[d].ckpt \in [Shard -> Nat]
  BY <1>1 DEF TypeOK, State
<1>3. Larger(db[d].ckpt[s], n) \in Nat
  BY <1>2, LargerType
<1>4. new \in State
  BY <1>2, <1>3 DEF State
<1>5. /\ db' = [db EXCEPT ![d] = new]
      /\ survivors' = [survivors EXCEPT ![d] = @ \cup {new}]
  BY DEF CommitTo
<1> HIDE DEF new
<1> QED
  BY <1>1, <1>4, <1>5 DEF TypeOK

\* Init establishes the types.
LEMMA InitType == Init => TypeOK
<1> SUFFICES ASSUME Init PROVE TypeOK
  OBVIOUS
<1>1. db \in [Domain -> State] /\ survivors \in [Domain -> SUBSET State]
  BY DEF Init, State
<1>2. /\ buf \in [Shard -> Seq(Entry)]
      /\ jbuf \in [Shard -> Seq(Unit)]
      /\ jfile \in [Shard -> Seq(Unit)]
      /\ work \in [Shard -> Seq(Entry)]
  BY DEF Init
<1>3. /\ nextSeq \in [Shard -> Nat]
      /\ jsync \in [Shard -> Nat]
      /\ pub \in [Shard -> Nat]
      /\ durable \in [Shard -> Nat]
      /\ marks \in [Shard -> Nat]
      /\ smark \in [Snapshotter -> [Shard -> Nat]]
  BY DEF Init
<1>4. /\ dpc \in [Shard -> {"idle", "sync", "batch", "retry", "mark", "publish", "notify"}]
      /\ failures \in [Shard -> SUBSET Nat]
      /\ cpc \in [Client -> {"idle", "waiting", "checked", "parked"}]
      /\ ticket \in [Client -> Entry \cup {NoTicket}]
      /\ spc \in [Snapshotter -> {"idle", "draining", "held"}]
      /\ told \in [Request -> {"none", "durable", "failed"}]
  BY DEF Init
<1> QED
  BY <1>1, <1>2, <1>3, <1>4 DEF Init, TypeOK

\* What is left after LoseMemory has the types of the volatile variables.
LEMMA LoseMemoryType ==
  ASSUME LoseMemory,
         db' \in [Domain -> State],
         survivors' \in [Domain -> SUBSET State],
         jfile' \in [Shard -> Seq(Unit)],
         jsync' \in [Shard -> Nat],
         accepted' \subseteq Request,
         told' \in [Request -> {"none", "durable", "failed"}],
         faults' \in Nat, crashes' \in Nat, losses' \in Nat
  PROVE  TypeOK'
<1>1. /\ buf' \in [Shard -> Seq(Entry)]
      /\ jbuf' \in [Shard -> Seq(Unit)]
      /\ work' \in [Shard -> Seq(Entry)]
  BY DEF LoseMemory
<1>2. /\ nextSeq' \in [Shard -> Nat]
      /\ pub' \in [Shard -> Nat]
      /\ durable' \in [Shard -> Nat]
      /\ marks' \in [Shard -> Nat]
      /\ smark' \in [Snapshotter -> [Shard -> Nat]]
  BY DEF LoseMemory
<1>3. /\ dpc' \in [Shard -> {"idle", "sync", "batch", "retry", "mark", "publish", "notify"}]
      /\ failures' \in [Shard -> SUBSET Nat]
      /\ cpc' \in [Client -> {"idle", "waiting", "checked", "parked"}]
      /\ ticket' \in [Client -> Entry \cup {NoTicket}]
      /\ spc' \in [Snapshotter -> {"idle", "draining", "held"}]
  BY DEF LoseMemory
<1> QED
  BY <1>1, <1>2, <1>3 DEF LoseMemory, TypeOK

\* A fault is counted.
LEMMA FaultType ==
  ASSUME TypeOK, NEW kinds, Fault(kinds)
  PROVE  faults' \in Nat /\ crashes' = crashes /\ losses' = losses
BY DEF Fault, TypeOK

\* try_submit keeps the types.
LEMMA SubmitType ==
  ASSUME TypeOK, NEW c \in Client, NEW r \in Request, NEW waits \in BOOLEAN,
         Submit(c, r, waits)
  PROVE  TypeOK'
<1> DEFINE s     == ShardOf(r)
           seq   == nextSeq[s] + 1
           units == jbuf[s] \o <<Record(seq, r), Mark("nl")>>
<1>1. s \in Shard /\ seq \in Nat /\ jbuf[s] \in Seq(Unit) /\ jfile[s] \in Seq(Unit)
  BY RoutingType DEF TypeOK
<1>2. units \in Seq(Unit)
  BY <1>1 DEF Record, Mark, Unit
<1>3. [seq |-> seq, req |-> r] \in Entry
  BY <1>1 DEF Entry
<1>4. PICK n \in {0, Len(jbuf[s]), Len(jbuf[s]) + 1} :
        /\ jfile' = [jfile EXCEPT ![s] = @ \o SubSeq(units, 1, n)]
        /\ jbuf' = [jbuf EXCEPT ![s] = SubSeq(units, n + 1, Len(units))]
  BY DEF Submit
<1>5. Len(units) = Len(jbuf[s]) + 2 /\ n \in 0 .. Len(units)
  BY <1>1, <1>2
<1>6. SubSeq(units, 1, n) \in Seq(Unit) /\ SubSeq(units, n + 1, Len(units)) \in Seq(Unit)
  BY <1>2, <1>5
<1> HIDE DEF units
<1>7. jfile' \in [Shard -> Seq(Unit)] /\ jbuf' \in [Shard -> Seq(Unit)]
  BY <1>1, <1>4, <1>6 DEF TypeOK
<1>8. /\ nextSeq' \in [Shard -> Nat]
      /\ buf' \in [Shard -> Seq(Entry)]
      /\ accepted' \subseteq Request
  BY <1>1, <1>3 DEF TypeOK, Submit
<1>9. /\ cpc' \in [Client -> {"idle", "waiting", "checked", "parked"}]
      /\ ticket' \in [Client -> Entry \cup {NoTicket}]
  <2>1. CASE waits
    BY <1>3, <2>1 DEF TypeOK, Submit
  <2>2. CASE ~waits
    BY <2>2 DEF TypeOK, Submit
  <2> QED
    BY <2>1, <2>2
<1> QED
  BY <1>7, <1>8, <1>9
     DEF TypeOK, Submit, queueVars, drainVars, maintVars, storeVars, agentVars,
         pastVars, envVars

\* wait_durable_result keeps the types.
LEMMA WaitType ==
  ASSUME TypeOK, NEW c \in Client, Wait(c)
  PROVE  TypeOK'
<1>1. CASE WaitReturn(c)
  BY <1>1
     DEF TypeOK, WaitReturn, queueVars, drainVars, maintVars, storeVars,
         agentVars, pastVars, envVars
<1>2. CASE WaitCheck(c)
  BY <1>2
     DEF TypeOK, WaitCheck, queueVars, drainVars, maintVars, storeVars,
         agentVars, pastVars, envVars
<1>3. CASE WaitPark(c)
  BY <1>3
     DEF TypeOK, WaitPark, queueVars, drainVars, maintVars, storeVars,
         agentVars, pastVars, envVars
<1> QED
  BY <1>1, <1>2, <1>3 DEF Wait

\* The sequence numbers of a drain's requests, and what its batches add.
LEMMA WorkType ==
  ASSUME TypeOK, NEW s \in Shard, work[s] # <<>>
  PROVE  /\ Len(work[s]) \in Nat \ {0}
         /\ work[s][Len(work[s])].seq \in Nat
         /\ Head(work[s]).seq \in Nat
         /\ Tail(work[s]) \in Seq(Entry)
         /\ Len(work[s]) # 1 => Tail(work[s]) # <<>>
         /\ Copies(work[s], DOMAIN work[s]) \in [Request -> Nat]
         /\ Copies(work[s], {1}) \in [Request -> Nat]
         /\ Copies(work[s], {}) \in [Request -> Nat]
<1>1. work[s] \in Seq(Entry)
  BY DEF TypeOK
<1>2. Len(work[s]) \in Nat \ {0} /\ DOMAIN work[s] = 1 .. Len(work[s])
  BY <1>1, EmptySeq, LenProperties
<1>3. work[s][Len(work[s])] \in Entry /\ Head(work[s]) \in Entry
  BY <1>1, <1>2
<1>4. Tail(work[s]) \in Seq(Entry) /\ Len(Tail(work[s])) = Len(work[s]) - 1
  BY <1>1, HeadTailProperties
<1>5. Len(work[s]) # 1 => Tail(work[s]) # <<>>
  <2> SUFFICES ASSUME Tail(work[s]) = <<>> PROVE Len(work[s]) = 1
    OBVIOUS
  <2>1. Len(Tail(work[s])) = 0
    <3>1. Len(<<>>) = 0
      OBVIOUS
    <3> QED
      BY <3>1, Zenon
  <2>2. Len(work[s]) - 1 = 0
    BY <1>4, <2>1
  <2> QED
    BY <1>2, <2>2
<1>6. IsFiniteSet(DOMAIN work[s]) /\ IsFiniteSet({1}) /\ IsFiniteSet({})
  <2>1. IsFiniteSet(1 .. Len(work[s]))
    BY <1>2, FS_Interval
  <2> QED
    BY <1>2, <2>1, FS_EmptySet, FS_Singleton
<1>7. \A I \in {DOMAIN work[s], {1}, {}} : Copies(work[s], I) \in [Request -> Nat]
  BY <1>6, CopiesType
<1> QED
  BY <1>2, <1>3, <1>4, <1>5, <1>7 DEF Entry

\* Every step of drain_shard keeps the types, and a drain holds work until it
\* has an outcome for all of it.
LEMMA DrainType ==
  ASSUME TypeOK, DrainHoldsWork, NEW s \in Shard, Drain(s)
  PROVE  TypeOK' /\ DrainHoldsWork'
<1>1. CASE DrainSwap(s)
  <2>1. jfile' \in [Shard -> Seq(Unit)] /\ jbuf' \in [Shard -> Seq(Unit)]
    BY <1>1 DEF TypeOK, DrainSwap
  <2>2. /\ buf' \in [Shard -> Seq(Entry)]
        /\ work' \in [Shard -> Seq(Entry)]
        /\ pub' \in [Shard -> Nat]
    BY <1>1 DEF TypeOK, DrainSwap
  <2>3. TypeOK'
    BY <1>1, <2>1, <2>2
       DEF TypeOK, DrainSwap, queueVars, drainVars, maintVars, storeVars,
           agentVars, pastVars, envVars
  <2>4. DrainHoldsWork'
    BY <1>1 DEF DrainHoldsWork, DrainSwap, TypeOK
  <2> QED
    BY <2>3, <2>4
<1>2. CASE DrainSync(s)
  <2>1. jsync' \in [Shard -> Nat]
    BY <1>2 DEF TypeOK, DrainSync
  <2>2. TypeOK'
    BY <1>2, <2>1
       DEF TypeOK, DrainSync, queueVars, drainVars, maintVars, storeVars,
           agentVars, pastVars, envVars
  <2>3. DrainHoldsWork'
    BY <1>2 DEF DrainHoldsWork, DrainSync, TypeOK
  <2> QED
    BY <2>2, <2>3
<1>3. CASE DrainBatch(s)
  <2>1. work[s] # <<>>
    BY <1>3 DEF DrainHoldsWork, DrainBatch
  <2>2. db' \in [Domain -> State] /\ survivors' \in [Domain -> SUBSET State]
    BY <1>3, <2>1, WorkType, CommitToType DEF DrainBatch
  <2>3. pub' \in [Shard -> Nat] /\ work' \in [Shard -> Seq(Entry)]
    BY <1>3, <2>1, WorkType, SMTT(30) DEF TypeOK, DrainBatch
  <2>4. TypeOK'
    BY <1>3, <2>2, <2>3
       DEF TypeOK, DrainBatch, queueVars, drainVars, maintVars, storeVars,
           agentVars, pastVars, envVars
  <2>5. DrainHoldsWork'
    BY <1>3 DEF DrainHoldsWork, DrainBatch, TypeOK
  <2> QED
    BY <2>4, <2>5
<1>4. CASE DrainBatchFails(s)
  <2>1. work[s] # <<>>
    BY <1>4 DEF DrainHoldsWork, DrainBatchFails
  <2>2. faults' \in Nat /\ crashes' = crashes /\ losses' = losses
    BY <1>4, FaultType DEF DrainBatchFails
  <2>3. db' \in [Domain -> State] /\ survivors' \in [Domain -> SUBSET State]
    BY <1>4, <2>1, WorkType, CommitToType DEF DrainBatchFails, TypeOK, storeVars
  <2>4. TypeOK'
    BY <1>4, <2>2, <2>3
       DEF TypeOK, DrainBatchFails, queueVars, drainVars, maintVars, storeVars,
           agentVars, pastVars, envVars
  <2>5. DrainHoldsWork'
    BY <1>4 DEF DrainHoldsWork, DrainBatchFails, TypeOK
  <2> QED
    BY <2>4, <2>5
<1>5. CASE Retry(s)
  <2>1. work[s] # <<>>
    BY <1>5 DEF DrainHoldsWork, Retry
  <2>2. db' \in [Domain -> State] /\ survivors' \in [Domain -> SUBSET State]
    BY <1>5, <2>1, WorkType, CommitToType DEF Retry
  <2>3. pub' \in [Shard -> Nat] /\ work' \in [Shard -> Seq(Entry)]
    BY <1>5, <2>1, WorkType DEF TypeOK, Retry
  <2>4. TypeOK'
    BY <1>5, <2>2, <2>3
       DEF TypeOK, Retry, queueVars, drainVars, maintVars, storeVars, agentVars,
           pastVars, envVars
  <2>5. DrainHoldsWork'
    BY <1>5, <2>1, WorkType DEF DrainHoldsWork, Retry, TypeOK
  <2> QED
    BY <2>4, <2>5
<1>6. CASE RetryFails(s)
  <2>1. work[s] # <<>>
    BY <1>6 DEF DrainHoldsWork, RetryFails
  <2>2. faults' \in Nat /\ crashes' = crashes /\ losses' = losses
    BY <1>6, FaultType DEF RetryFails
  <2>3. db' \in [Domain -> State] /\ survivors' \in [Domain -> SUBSET State]
    BY <1>6, <2>1, WorkType, CommitToType DEF RetryFails, TypeOK, storeVars
  <2>4. TypeOK'
    BY <1>6, <2>2, <2>3
       DEF TypeOK, RetryFails, queueVars, drainVars, maintVars, storeVars,
           agentVars, pastVars, envVars
  <2>5. DrainHoldsWork'
    BY <1>6 DEF DrainHoldsWork, RetryFails, TypeOK
  <2> QED
    BY <2>4, <2>5
<1>7. CASE Reject(s)
  <2>1. work[s] # <<>>
    BY <1>7 DEF DrainHoldsWork, Reject
  <2>2. db' \in [Domain -> State] /\ survivors' \in [Domain -> SUBSET State]
    BY <1>7, <2>1, WorkType, CommitToType DEF Reject
  <2>3. pub' \in [Shard -> Nat] /\ work' \in [Shard -> Seq(Entry)]
    BY <1>7, <2>1, WorkType DEF TypeOK, Reject
  <2>4. failures' \in [Shard -> SUBSET Nat]
    BY <1>7, <2>1, WorkType DEF TypeOK, Reject
  <2>5. TypeOK'
    BY <1>7, <2>2, <2>3, <2>4
       DEF TypeOK, Reject, queueVars, drainVars, maintVars, storeVars,
           agentVars, pastVars, envVars
  <2>6. DrainHoldsWork'
    BY <1>7, <2>1, WorkType DEF DrainHoldsWork, Reject, TypeOK
  <2> QED
    BY <2>5, <2>6
<1>8. CASE Requeue(s)
  <2>1. faults' \in Nat /\ crashes' = crashes /\ losses' = losses
    BY <1>8, FaultType DEF Requeue
  <2>2. buf' \in [Shard -> Seq(Entry)] /\ work' \in [Shard -> Seq(Entry)]
    BY <1>8 DEF TypeOK, Requeue
  <2>3. TypeOK'
    BY <1>8, <2>1, <2>2
       DEF TypeOK, Requeue, queueVars, drainVars, maintVars, storeVars,
           agentVars, pastVars, envVars
  <2>4. DrainHoldsWork'
    BY <1>8 DEF DrainHoldsWork, Requeue, TypeOK
  <2> QED
    BY <2>3, <2>4
<1>9. CASE DrainPublish(s)
  <2>1. durable' \in [Shard -> Nat]
    BY <1>9, LargerType DEF TypeOK, DrainPublish
  <2>2. TypeOK'
    BY <1>9, <2>1
       DEF TypeOK, DrainPublish, queueVars, drainVars, maintVars, storeVars,
           agentVars, pastVars, envVars
  <2>3. DrainHoldsWork'
    BY <1>9 DEF DrainHoldsWork, DrainPublish, TypeOK
  <2> QED
    BY <2>2, <2>3
<1>10. CASE DrainNotify(s)
  <2>1. cpc' \in [Client -> {"idle", "waiting", "checked", "parked"}]
    BY <1>10 DEF TypeOK, DrainNotify
  <2>2. TypeOK'
    BY <1>10, <2>1
       DEF TypeOK, DrainNotify, queueVars, drainVars, maintVars, storeVars,
           agentVars, pastVars, envVars
  <2>3. DrainHoldsWork'
    BY <1>10 DEF DrainHoldsWork, DrainNotify, TypeOK
  <2> QED
    BY <2>2, <2>3
<1> QED
  BY <1>1, <1>2, <1>3, <1>4, <1>5, <1>6, <1>7, <1>8, <1>9, <1>10 DEF Drain

\* The pause gate keeps the types.
LEMMA PauseType ==
  ASSUME TypeOK, NEW p \in Snapshotter,
         PauseAdmissions(p) \/ SnapshotReady(p) \/ ResumeAdmissions(p)
  PROVE  TypeOK'
<1>1. CASE PauseAdmissions(p)
  <2>1. smark' \in [Snapshotter -> [Shard -> Nat]]
    BY <1>1 DEF TypeOK, PauseAdmissions
  <2> QED
    BY <1>1, <2>1
       DEF TypeOK, PauseAdmissions, queueVars, drainVars, maintVars, storeVars,
           agentVars, pastVars, envVars
<1>2. CASE SnapshotReady(p)
  BY <1>2
     DEF TypeOK, SnapshotReady, queueVars, drainVars, maintVars, storeVars,
         agentVars, pastVars, envVars
<1>3. CASE ResumeAdmissions(p)
  <2>1. smark' \in [Snapshotter -> [Shard -> Nat]]
    BY <1>3 DEF TypeOK, ResumeAdmissions
  <2> QED
    BY <1>3, <2>1
       DEF TypeOK, ResumeAdmissions, queueVars, drainVars, maintVars, storeVars,
           agentVars, pastVars, envVars
<1> QED
  BY <1>1, <1>2, <1>3

\* maintenance keeps the types.
LEMMA MaintenanceType ==
  ASSUME TypeOK, Maintenance
  PROVE  TypeOK'
<1>1. CASE MaintBegin
  BY <1>1
     DEF TypeOK, MaintBegin, BeginMaintenance, queueVars, drainVars, maintVars,
         storeVars, agentVars, pastVars, envVars
<1>2. CASE MaintAbort
  BY <1>2
     DEF TypeOK, MaintAbort, queueVars, drainVars, maintVars, storeVars,
         agentVars, pastVars, envVars
<1>3. ASSUME NEW d \in Domain, MaintCheckpoint(d)
      PROVE  TypeOK'
  <2>1. survivors' \in [Domain -> SUBSET State] /\ complete' \in BOOLEAN
    <3>1. db[d] \in State
      BY DEF TypeOK
    <3> QED
      BY <1>3, <3>1 DEF TypeOK, MaintCheckpoint, WalCheckpoint, WalCheckpointShort
  <2>2. mleft' \subseteq Domain \cup Shard /\ mpc' \in {"idle", "ckpt", "truncate"}
    BY <1>3 DEF TypeOK, MaintCheckpoint, WalCheckpoint, WalCheckpointShort
  <2>3. UNCHANGED <<faults, crashes, losses>>
    BY <1>3 DEF MaintCheckpoint, envVars
  <2> QED
    BY <1>3, <2>1, <2>2, <2>3
       DEF TypeOK, MaintCheckpoint, queueVars, drainVars, maintVars, storeVars,
           agentVars, pastVars, envVars
<1>4. ASSUME NEW s \in Shard, MaintTruncate(s)
      PROVE  TypeOK'
  <2>1. /\ jfile' \in [Shard -> Seq(Unit)]
        /\ jbuf' \in [Shard -> Seq(Unit)]
        /\ jsync' \in [Shard -> Nat]
    <3>1. CASE buf[s] = <<>> /\ nextSeq[s] = marks[s]
      <4>1. /\ jbuf' = [jbuf EXCEPT ![s] = <<>>]
            /\ \/ /\ jfile' = [jfile EXCEPT ![s] = <<>>]
                  /\ jsync' = [jsync EXCEPT ![s] = 0]
               \/ /\ jfile' = [jfile EXCEPT ![s] = @ \o jbuf[s]]
                  /\ jsync' = jsync
        BY <1>4, <3>1, Zenon DEF MaintTruncate
      <4>2. jbuf' \in [Shard -> Seq(Unit)]
        BY <4>1 DEF TypeOK
      <4>3. jfile' \in [Shard -> Seq(Unit)] /\ jsync' \in [Shard -> Nat]
        <5>1. CASE /\ jfile' = [jfile EXCEPT ![s] = <<>>]
                   /\ jsync' = [jsync EXCEPT ![s] = 0]
          BY <5>1 DEF TypeOK
        <5>2. CASE /\ jfile' = [jfile EXCEPT ![s] = @ \o jbuf[s]]
                   /\ jsync' = jsync
          BY <5>2 DEF TypeOK
        <5> QED
          BY <4>1, <5>1, <5>2
      <4> QED
        BY <4>2, <4>3
    <3>2. CASE ~(buf[s] = <<>> /\ nextSeq[s] = marks[s])
      BY <1>4, <3>2 DEF TypeOK, MaintTruncate
    <3> QED
      BY <3>1, <3>2
  <2> QED
    BY <1>4, <2>1
       DEF TypeOK, MaintTruncate, queueVars, drainVars, maintVars, storeVars,
           agentVars, pastVars, envVars
<1> QED
  BY <1>1, <1>2, <1>3, <1>4 DEF Maintenance

\* What replay reads from a journal, and the commit of what it finds pending.
LEMMA ReplayType ==
  ASSUME TypeOK, NEW s \in Shard
  PROVE  /\ Ckpt(s) \in Nat
         /\ Pending(s) \subseteq Parsed(jfile[s])
         /\ Parsed(jfile[s]) \subseteq 1 .. Len(jfile[s])
         /\ HighestSeq(jfile[s], Pending(s), 0) \in Nat
         /\ HighestSeq(jfile[s], Parsed(jfile[s]), Ckpt(s)) \in Nat
         /\ Copies(jfile[s], Pending(s)) \in [Request -> Nat]
<1>1. jfile[s] \in Seq(Unit) /\ Len(jfile[s]) \in Nat
  BY DEF TypeOK
<1>2. Ckpt(s) \in Nat
  BY RoutingType DEF TypeOK, Ckpt, State
<1>3. Parsed(jfile[s]) \subseteq 1 .. Len(jfile[s]) /\ Pending(s) \subseteq Parsed(jfile[s])
  BY DEF Parsed, Pending
<1>4. IsFiniteSet(Pending(s))
  <2>1. IsFiniteSet(1 .. Len(jfile[s]))
    BY <1>1, FS_Interval
  <2> QED
    BY <1>3, <2>1, FS_Subset
<1>5. Pending(s) \in SUBSET (1 .. Len(jfile[s])) /\ Parsed(jfile[s]) \in SUBSET (1 .. Len(jfile[s]))
  BY <1>3
<1>6. 0 \in Nat
  OBVIOUS
<1> QED
  BY <1>1, <1>2, <1>3, <1>4, <1>5, <1>6, HighestSeqType, CopiesType

\* The replay commit keeps the types of the stores.
LEMMA CommitPendingType ==
  ASSUME TypeOK, NEW s \in Shard, CommitPending(s)
  PROVE  db' \in [Domain -> State] /\ survivors' \in [Domain -> SUBSET State]
<1>1. CASE Pending(s) = {}
  BY <1>1 DEF CommitPending, storeVars, TypeOK
<1>2. CASE Pending(s) # {}
  BY <1>2, ReplayType, CommitToType DEF CommitPending
<1> QED
  BY <1>1, <1>2

\* start_partitioned keeps the types.
LEMMA StartType ==
  ASSUME TypeOK, StartEngine \/ Start
  PROVE  TypeOK'
<1>1. CASE StartEngine
  BY <1>1
     DEF TypeOK, StartEngine, queueVars, drainVars, maintVars, storeVars,
         agentVars, pastVars, envVars
<1>2. ASSUME NEW s \in Shard, ReplayShard(s)
      PROVE  TypeOK'
  <2>1. db' \in [Domain -> State] /\ survivors' \in [Domain -> SUBSET State]
    BY <1>2, CommitPendingType DEF ReplayShard
  <2>2. nextSeq' \in [Shard -> Nat]
    BY <1>2, ReplayType DEF TypeOK, ReplayShard
  <2> QED
    BY <1>2, <2>1, <2>2
       DEF TypeOK, ReplayShard, queueVars, drainVars, maintVars, storeVars,
           agentVars, pastVars, envVars
<1>3. ASSUME NEW s \in Shard, ReplayFails(s)
      PROVE  TypeOK'
  <2>1. faults' \in Nat /\ crashes' \in Nat /\ losses' \in Nat
    BY <1>3, FaultType DEF ReplayFails, TypeOK, envVars
  <2>2. db' \in [Domain -> State] /\ survivors' \in [Domain -> SUBSET State]
    BY <1>3, CommitPendingType DEF ReplayFails, TypeOK, storeVars
  <2> QED
    BY <1>3, <2>1, <2>2, LoseMemoryType DEF ReplayFails, TypeOK, pastVars
<1>4. CASE StartFinish
  BY <1>4
     DEF TypeOK, StartFinish, BeginMaintenance, queueVars, drainVars, maintVars,
         storeVars, agentVars, pastVars, envVars
<1>5. CASE SpawnFlushers
  BY <1>5
     DEF TypeOK, SpawnFlushers, queueVars, drainVars, maintVars, storeVars,
         agentVars, pastVars, envVars
<1> QED
  BY <1>1, <1>2, <1>3, <1>4, <1>5 DEF Start

\* Shutdown and drop keep the types; the journals they flush are journals.
LEMMA StopType ==
  ASSUME TypeOK,
         Shutdown \/ RequestShutdown \/ JoinFlushers \/ ShutdownDone \/ DropEngine
  PROVE  TypeOK'
<1>1. CASE Shutdown
  BY <1>1
     DEF TypeOK, Shutdown, queueVars, drainVars, maintVars, storeVars,
         agentVars, pastVars, envVars
<1>2. CASE RequestShutdown
  BY <1>2
     DEF TypeOK, RequestShutdown, queueVars, drainVars, maintVars, storeVars,
         agentVars, pastVars, envVars
<1>3. CASE JoinFlushers
  BY <1>3
     DEF TypeOK, JoinFlushers, BeginMaintenance, queueVars, drainVars,
         maintVars, storeVars, agentVars, pastVars, envVars
<1>4. ASSUME DropJournals PROVE jfile' \in [Shard -> Seq(Unit)]
  BY <1>4 DEF DropJournals, TypeOK
<1>5. CASE ShutdownDone
  BY <1>4, <1>5, LoseMemoryType
     DEF ShutdownDone, TypeOK, storeVars, pastVars, envVars
<1>6. CASE DropEngine
  BY <1>4, <1>6, LoseMemoryType
     DEF DropEngine, TypeOK, storeVars, pastVars, envVars
<1> QED
  BY <1>1, <1>2, <1>3, <1>5, <1>6

\* What a power loss leaves of a journal is a journal.
LEMMA LeftoverType ==
  ASSUME NEW f \in Seq(Unit), NEW synced \in Nat, NEW left \in Leftover(f, synced)
  PROVE  left \in Seq(Unit)
<1>1. Len(f) \in Nat
  OBVIOUS
<1>2. ASSUME NEW n \in synced .. Len(f) PROVE SubSeq(f, 1, n) \in Seq(Unit)
  BY <1>1
<1>3. CASE \E n \in synced .. Len(f) : left = SubSeq(f, 1, n)
  BY <1>2, <1>3
<1>4. CASE \E n \in synced .. Len(f), k \in {"torn", "mangled"} :
             left = Append(SubSeq(f, 1, n), Mark(k))
  <2>1. PICK n \in synced .. Len(f), k \in {"torn", "mangled"} :
               left = Append(SubSeq(f, 1, n), Mark(k))
    BY <1>4
  <2>2. Mark(k) \in Unit
    BY DEF Mark, Unit
  <2> QED
    BY <1>2, <2>1, <2>2
<1> DEFINE whole == {n \in synced .. Len(f) :
                       n = synced \/ "torn" \in Faults \/ f[n].kind = "nl"}
           cut   == {n \in synced .. Len(f) - 1 : f[n + 1].kind = "rec"}
<1>5. left \in {SubSeq(f, 1, n) : n \in whole}
      \/ \E k \in {"torn", "mangled"} \cap Faults :
           left \in {Append(SubSeq(f, 1, n), Mark(k)) : n \in cut}
  BY DEF Leftover
<1>6. whole \subseteq synced .. Len(f) /\ cut \subseteq synced .. Len(f)
  BY <1>1
<1> HIDE DEF whole, cut
<1>7. (\E n \in synced .. Len(f) : left = SubSeq(f, 1, n))
      \/ \E n \in synced .. Len(f), k \in {"torn", "mangled"} :
           left = Append(SubSeq(f, 1, n), Mark(k))
  <2>1. CASE left \in {SubSeq(f, 1, n) : n \in whole}
    BY <1>6, <2>1
  <2>2. ASSUME NEW k \in {"torn", "mangled"} \cap Faults,
               left \in {Append(SubSeq(f, 1, n), Mark(k)) : n \in cut}
        PROVE  \E n \in synced .. Len(f), m \in {"torn", "mangled"} :
                 left = Append(SubSeq(f, 1, n), Mark(m))
    <3>1. PICK n \in cut : left = Append(SubSeq(f, 1, n), Mark(k))
      BY <2>2
    <3>2. n \in synced .. Len(f) /\ k \in {"torn", "mangled"}
      BY <1>6
    <3> QED
      BY <3>1, <3>2
  <2> QED
    BY <1>5, <2>1, <2>2
<1> QED
  BY <1>3, <1>4, <1>7

\* Crashes keep the types.
LEMMA CrashType ==
  ASSUME TypeOK, ProcessCrash \/ PowerLoss
  PROVE  TypeOK'
<1>1. CASE ProcessCrash
  <2>1. faults' \in Nat /\ crashes' \in Nat /\ losses' \in Nat
    BY <1>1 DEF ProcessCrash, TypeOK
  <2>2. UNCHANGED <<db, survivors, jfile, jsync, accepted, told>>
    BY <1>1 DEF ProcessCrash, storeVars, pastVars
  <2>3. LoseMemory
    BY <1>1 DEF ProcessCrash
  <2> QED
    BY <2>1, <2>2, <2>3, LoseMemoryType DEF TypeOK
<1>2. CASE PowerLoss
  <2>1. PICK left \in [Domain -> UNION {survivors[d] : d \in Domain}] :
          /\ \A d \in Domain : left[d] \in survivors[d]
          /\ db' = left
          /\ survivors' = [d \in Domain |-> {left[d]}]
    BY <1>2 DEF PowerLoss
  <2>2. \A d \in Domain : left[d] \in State
    BY <2>1 DEF TypeOK
  <2>3. db' \in [Domain -> State] /\ survivors' \in [Domain -> SUBSET State]
    BY <2>1, <2>2
  <2>4. PICK files \in [Shard -> UNION {Leftover(jfile[s], jsync[s]) : s \in Shard}] :
          /\ \A s \in Shard : files[s] \in Leftover(jfile[s], jsync[s])
          /\ jfile' = files
          /\ jsync' = [s \in Shard |-> Len(files[s])]
    BY <1>2 DEF PowerLoss
  <2>5. \A s \in Shard : files[s] \in Seq(Unit)
    BY <2>4, LeftoverType DEF TypeOK
  <2>6. jfile' \in [Shard -> Seq(Unit)] /\ jsync' \in [Shard -> Nat]
    BY <2>4, <2>5
  <2>7. faults' \in Nat /\ crashes' \in Nat /\ losses' \in Nat
    BY <1>2 DEF PowerLoss, TypeOK
  <2>8. UNCHANGED <<accepted, told>> /\ LoseMemory
    BY <1>2 DEF PowerLoss, pastVars
  <2> QED
    BY <2>3, <2>6, <2>7, <2>8, LoseMemoryType DEF TypeOK
<1> QED
  BY <1>1, <1>2

\* Outside the drain no step touches a drain's work, except by ending it.
LEMMA HoldsWorkElsewhere ==
  ASSUME DrainHoldsWork, UNCHANGED <<dpc, work>> \/ LoseMemory
  PROVE  DrainHoldsWork'
<1>1. CASE UNCHANGED <<dpc, work>>
  BY <1>1 DEF DrainHoldsWork
<1>2. CASE LoseMemory
  BY <1>2 DEF DrainHoldsWork, LoseMemory
<1> QED
  BY <1>1, <1>2

\* Every step keeps the types, and a drain past its swap has work.
LEMMA NextType ==
  ASSUME TypeOK, DrainHoldsWork, [Next]_vars
  PROVE  TypeOK' /\ DrainHoldsWork'
<1>1. ASSUME NEW c \in Client, NEW r \in Request, NEW waits \in BOOLEAN,
             Submit(c, r, waits)
      PROVE  TypeOK' /\ DrainHoldsWork'
  BY <1>1, SubmitType, HoldsWorkElsewhere DEF Submit, drainVars
<1>2. ASSUME NEW c \in Client, Wait(c)
      PROVE  TypeOK' /\ DrainHoldsWork'
  BY <1>2, WaitType, HoldsWorkElsewhere
     DEF Wait, WaitReturn, WaitCheck, WaitPark, drainVars
<1>3. ASSUME NEW s \in Shard, Drain(s)
      PROVE  TypeOK' /\ DrainHoldsWork'
  BY <1>3, DrainType
<1>4. ASSUME NEW p \in Snapshotter,
             PauseAdmissions(p) \/ SnapshotReady(p) \/ ResumeAdmissions(p)
      PROVE  TypeOK' /\ DrainHoldsWork'
  BY <1>4, PauseType, HoldsWorkElsewhere
     DEF PauseAdmissions, SnapshotReady, ResumeAdmissions, drainVars
<1>5. CASE Maintenance
  BY <1>5, MaintenanceType, HoldsWorkElsewhere
     DEF Maintenance, MaintBegin, MaintAbort, MaintCheckpoint, MaintTruncate,
         drainVars
<1>6. CASE StartEngine \/ Start
  BY <1>6, StartType, HoldsWorkElsewhere
     DEF StartEngine, Start, ReplayShard, ReplayFails, StartFinish,
         SpawnFlushers, drainVars
<1>7. CASE Shutdown \/ RequestShutdown \/ JoinFlushers \/ ShutdownDone \/ DropEngine
  BY <1>7, StopType, HoldsWorkElsewhere
     DEF Shutdown, RequestShutdown, JoinFlushers, ShutdownDone, DropEngine,
         drainVars
<1>8. CASE ProcessCrash \/ PowerLoss
  BY <1>8, CrashType, HoldsWorkElsewhere DEF ProcessCrash, PowerLoss
<1>9. CASE UNCHANGED vars
  BY <1>9, HoldsWorkElsewhere
     DEF TypeOK, vars, queueVars, drainVars, maintVars, storeVars, agentVars,
         pastVars, envVars
<1> QED
  BY <1>1, <1>2, <1>3, <1>4, <1>5, <1>6, <1>7, <1>8, <1>9 DEF Next

\* Every variable keeps its type in every reachable state, whatever fails.
THEOREM TypeCorrect == Spec => [](TypeOK /\ DrainHoldsWork)
<1>1. Init => TypeOK /\ DrainHoldsWork
  BY InitType DEF Init, DrainHoldsWork
<1>2. TypeOK /\ DrainHoldsWork /\ [Next]_vars => TypeOK' /\ DrainHoldsWork'
  BY NextType
<1> QED
  BY <1>1, <1>2, PTL DEF Spec

-----------------------------------------------------------------------------
(* The watermark and the checkpoint.  WatermarkBacked is not inductive: the *)
(* number a drain will publish, and the numbers a replay found, must lie   *)
(* under the checkpoint too.                                               *)

\* The watermark, and the number a drain will publish.
PublishBacked ==
  \A s \in Shard : durable[s] <= Ckpt(s) /\ pub[s] <= Ckpt(s)

\* The numbers replay resumes at, which StartFinish publishes.
ReplayBacked ==
  phase = "replay" => \A s \in Shard \ unreplayed : nextSeq[s] <= Ckpt(s)

\* What maintenance compares with next_seq.
MarksBacked ==
  mpc # "idle" => \A s \in Shard : marks[s] <= Ckpt(s)

\* Every state store d may come back in is as far as the marks.
Covered(d) ==
  \A s \in Shard : DomainOf(s) = d =>
    \A x \in survivors[d] : x.ckpt[s] >= marks[s]

CheckpointCovers ==
  /\ mpc = "ckpt" /\ complete => \A d \in Domain \ mleft : Covered(d)
  /\ mpc = "truncate" => \A d \in Domain : Covered(d)

\* A BufWriter belongs to a running engine.
BufferedOnlyUp ==
  phase \in {"down", "replay"} => \A s \in Shard : jbuf[s] = <<>>

CheckpointInv ==
  /\ PublishBacked
  /\ ReplayBacked
  /\ MarksBacked
  /\ CheckpointCovers
  /\ BufferedOnlyUp

\* What a committed transaction, or none, does to the stores: checkpoints do
\* not move back, and a new survivor has the checkpoints committed before it.
StoreGrows ==
  /\ \A k \in Shard : Ckpt(k)' >= Ckpt(k)
  /\ \A d \in Domain : \A x \in survivors'[d] :
       \/ x \in survivors[d]
       \/ \A k \in Shard : DomainOf(k) = d => x.ckpt[k] >= Ckpt(k)

\* Every shard has a checkpoint, a natural number, in the store of its domain.
LEMMA CkptType ==
  ASSUME TypeOK
  PROVE  \A k \in Shard : Ckpt(k) \in Nat
BY RoutingType DEF TypeOK, Ckpt, State

\* The monotonic upsert of remember_batch.
LEMMA CommitGrows ==
  ASSUME TypeOK, NEW s \in Shard, NEW add, NEW n \in Nat, CommitTo(s, add, n)
  PROVE  StoreGrows /\ Ckpt(s)' >= n
<1> DEFINE d   == DomainOf(s)
           ck  == [db[d].ckpt EXCEPT ![s] = Larger(@, n)]
           new == [applied |-> [r \in Request |-> db[d].applied[r] + add[r]],
                   ckpt    |-> ck]
<1>1. d \in Domain /\ \A k \in Shard : DomainOf(k) \in Domain
  BY RoutingType
<1>2. db[d].ckpt \in [Shard -> Nat]
  BY <1>1 DEF TypeOK, State
<1>3. ASSUME NEW k \in Shard PROVE ck[k] \in Nat /\ ck[k] >= db[d].ckpt[k]
  <2>1. CASE k = s
    <3>1. ck[k] = Larger(db[d].ckpt[s], n)
      BY <1>2, <2>1
    <3>2. db[d].ckpt[s] \in Nat
      BY <1>2
    <3> QED
      BY <2>1, <3>1, <3>2, LargerType
  <2>2. CASE k # s
    <3>1. ck[k] = db[d].ckpt[k] /\ db[d].ckpt[k] \in Nat
      BY <1>2, <2>2
    <3> QED
      BY <3>1
  <2> QED
    BY <2>1, <2>2
<1>4. ck[s] >= n
  BY <1>2, LargerType
<1>5. /\ db' = [db EXCEPT ![d] = new]
      /\ survivors' = [survivors EXCEPT ![d] = @ \cup {new}]
  BY DEF CommitTo
<1>6. new.ckpt = ck
  OBVIOUS
<1> HIDE DEF new, ck
<1>7. db'[d] = new /\ \A e \in Domain \ {d} : db'[e] = db[e]
  BY <1>1, <1>5 DEF TypeOK
<1>8. ASSUME NEW k \in Shard PROVE Ckpt(k)' >= Ckpt(k)
  <2>1. CASE DomainOf(k) = d
    BY <1>3, <1>6, <1>7, <2>1 DEF Ckpt
  <2>2. CASE DomainOf(k) # d
    <3>1. Ckpt(k)' = Ckpt(k)
      BY <1>1, <1>7, <2>2 DEF Ckpt
    <3> QED
      BY <3>1, CkptType
  <2> QED
    BY <2>1, <2>2
<1>9. Ckpt(s)' >= n
  BY <1>4, <1>6, <1>7 DEF Ckpt
<1>10. ASSUME NEW e \in Domain, NEW x \in survivors'[e]
       PROVE  \/ x \in survivors[e]
              \/ \A k \in Shard : DomainOf(k) = e => x.ckpt[k] >= Ckpt(k)
  <2>1. CASE x \in survivors[e]
    BY <2>1
  <2>2. CASE x \notin survivors[e]
    <3>1. e = d /\ x = new
      BY <1>1, <1>5, <2>2 DEF TypeOK
    <3>2. \A k \in Shard : DomainOf(k) = e => x.ckpt[k] >= Ckpt(k)
      BY <1>3, <1>6, <3>1 DEF Ckpt
    <3> QED
      BY <3>2
  <2> QED
    BY <2>1, <2>2
<1> QED
  BY <1>8, <1>9, <1>10 DEF StoreGrows

\* A step that leaves the stores alone grows them in this sense too.
LEMMA StutterGrows ==
  ASSUME TypeOK, UNCHANGED storeVars
  PROVE  StoreGrows
<1>1. db' = db /\ survivors' = survivors
  BY DEF storeVars
<1>2. \A k \in Shard : Ckpt(k)' = Ckpt(k)
  BY <1>1 DEF Ckpt
<1> QED
  BY <1>1, <1>2, CkptType DEF StoreGrows

\* Replay's commit covers every record it parsed.
LEMMA ReplayCovers ==
  ASSUME TypeOK, NEW s \in Shard, CommitPending(s)
  PROVE  /\ StoreGrows
         /\ HighestSeq(jfile[s], Parsed(jfile[s]), Ckpt(s)) <= Ckpt(s)'
<1> DEFINE f   == jfile[s]
           all == HighestSeq(f, Parsed(f), Ckpt(s))
           top == HighestSeq(f, Pending(s), 0)
<1>1. f \in Seq(Unit) /\ Ckpt(s) \in Nat
  BY CkptType DEF TypeOK
<1>2. Parsed(f) \in SUBSET (1 .. Len(f)) /\ Pending(s) \in SUBSET Parsed(f)
  BY ReplayType
<1>3. top \in Nat /\ \A i \in Pending(s) : f[i].seq <= top
  BY <1>1, <1>2, HighestSeqType
<1>4. all \in {Ckpt(s)} \cup {f[i].seq : i \in Parsed(f)}
  BY <1>1, <1>2, HighestSeqType
<1>7. ASSUME NEW i \in Parsed(f) PROVE f[i].seq \in Nat
  <2>1. f[i] \in Unit
    BY <1>1, <1>2
  <2> QED
    BY <2>1 DEF Unit
<1>5. CASE Pending(s) = {}
  <2>1. \A i \in Parsed(f) : f[i].seq \in Nat
    BY <1>7
  <2>2. \A i \in Parsed(f) : f[i].seq <= Ckpt(s)
    BY <1>1, <1>5, <2>1 DEF Pending
  <2>3. all <= Ckpt(s)
    BY <1>1, <1>4, <2>2
  <2>4. UNCHANGED storeVars
    BY <1>5 DEF CommitPending
  <2>5. Ckpt(s)' = Ckpt(s)
    BY <2>4 DEF storeVars, Ckpt
  <2> QED
    BY <2>3, <2>4, <2>5, StutterGrows
<1>6. CASE Pending(s) # {}
  <2>1. CommitTo(s, Copies(f, Pending(s)), top)
    BY <1>6 DEF CommitPending
  <2>2. StoreGrows /\ Ckpt(s)' >= top
    BY <1>3, <2>1, CommitGrows
  <2>3. Ckpt(s)' >= Ckpt(s) /\ Ckpt(s)' \in Nat
    <3>1. db' \in [Domain -> State]
      BY CommitPendingType
    <3>2. Ckpt(s)' \in Nat
      BY <3>1, RoutingType DEF Ckpt, State
    <3> QED
      BY <2>2, <3>2 DEF StoreGrows
  <2>4. \A i \in Parsed(f) : f[i].seq \in Nat
    BY <1>7
  <2>5. ASSUME NEW i \in Parsed(f) PROVE f[i].seq <= Ckpt(s)'
    <3>1. CASE i \in Pending(s)
      BY <1>3, <2>2, <2>3, <2>4, <3>1
    <3>2. CASE i \notin Pending(s)
      BY <1>1, <2>3, <2>4, <3>2 DEF Pending
    <3> QED
      BY <3>1, <3>2
  <2> QED
    BY <1>4, <2>2, <2>3, <2>5
<1> QED
  BY <1>5, <1>6

\* CkptType, after a step that keeps the types.
LEMMA CkptTypeNext ==
  ASSUME TypeOK'
  PROVE  \A k \in Shard : Ckpt(k)' \in Nat
<1>1. db' \in [Domain -> State]
  BY DEF TypeOK
<1> QED
  BY <1>1, RoutingType DEF Ckpt, State

\* When the memory of the process is lost there is nothing left to back.
LEMMA LostInv ==
  ASSUME TypeOK', LoseMemory
  PROVE  CheckpointInv'
<1>1. /\ phase' = "down" /\ mpc' = "idle"
      /\ \A s \in Shard : durable'[s] = 0 /\ pub'[s] = 0 /\ jbuf'[s] = <<>>
  BY DEF LoseMemory
<1>2. PublishBacked'
  BY <1>1, CkptTypeNext DEF PublishBacked
<1>3. ReplayBacked' /\ MarksBacked' /\ CheckpointCovers' /\ BufferedOnlyUp'
  BY <1>1 DEF ReplayBacked, MarksBacked, CheckpointCovers, BufferedOnlyUp
<1> QED
  BY <1>2, <1>3 DEF CheckpointInv

\* Commits elsewhere do not disturb a maintenance pass: checkpoints only grow,
\* and a state committed during the pass is above the marks already.
LEMMA PassUndisturbed ==
  ASSUME TypeOK, TypeOK', StoreGrows, MarksBacked, CheckpointCovers,
         UNCHANGED maintVars
  PROVE  MarksBacked' /\ CheckpointCovers'
<1>1. mpc' = mpc /\ marks' = marks /\ mleft' = mleft /\ complete' = complete
  BY DEF maintVars
<1>2. \A s \in Shard : marks[s] \in Nat /\ Ckpt(s) \in Nat /\ Ckpt(s)' \in Nat
  BY CkptType, CkptTypeNext DEF TypeOK
<1>3. MarksBacked'
  BY <1>1, <1>2 DEF MarksBacked, StoreGrows
<1>4. ASSUME NEW d \in Domain, mpc # "idle", Covered(d)
      PROVE  Covered(d)'
  <2>1. ASSUME NEW s \in Shard, DomainOf(s) = d, NEW x \in survivors'[d]
        PROVE  x.ckpt[s] >= marks'[s]
    <3>1. CASE x \in survivors[d]
      BY <1>1, <1>4, <2>1, <3>1 DEF Covered
    <3>2. CASE x \notin survivors[d]
      <4>1. x.ckpt[s] >= Ckpt(s)
        BY <2>1, <3>2 DEF StoreGrows
      <4>2. Ckpt(s) >= marks[s]
        BY <1>2, <1>4 DEF MarksBacked
      <4>3. x.ckpt[s] \in Nat
        <5>1. x \in State
          BY <2>1 DEF TypeOK
        <5> QED
          BY <5>1 DEF State
      <4> QED
        BY <1>1, <1>2, <4>1, <4>2, <4>3
    <3> QED
      BY <3>1, <3>2
  <2> QED
    BY <2>1 DEF Covered
<1>5. CheckpointCovers'
  BY <1>1, <1>4 DEF CheckpointCovers
<1> QED
  BY <1>3, <1>5

\* What a drain publishes, and what it will publish, stays under the checkpoint.
LEMMA PublishStays ==
  ASSUME TypeOK, TypeOK', StoreGrows, PublishBacked,
         \A s \in Shard : durable'[s] \in {durable[s], pub[s]},
         \A s \in Shard : pub'[s] \in {pub[s], 0} \/ pub'[s] <= Ckpt(s)'
  PROVE  PublishBacked'
<1>1. \A s \in Shard : /\ Ckpt(s) \in Nat /\ Ckpt(s)' \in Nat
                       /\ durable[s] \in Nat /\ pub[s] \in Nat
  BY CkptType, CkptTypeNext DEF TypeOK
<1>2. ASSUME NEW s \in Shard
      PROVE  durable'[s] <= Ckpt(s)' /\ pub'[s] <= Ckpt(s)'
  <2>1. /\ Ckpt(s)' >= Ckpt(s)
        /\ durable[s] <= Ckpt(s)
        /\ pub[s] <= Ckpt(s)
    BY DEF StoreGrows, PublishBacked
  <2>2. durable'[s] <= Ckpt(s)'
    BY <1>1, <2>1
  <2>3. pub'[s] <= Ckpt(s)'
    BY <1>1, <2>1
  <2> QED
    BY <2>2, <2>3
<1> QED
  BY <1>2 DEF PublishBacked

\* Outside the start of an engine there is nothing more to show.
LEMMA StartUndisturbed ==
  ASSUME TypeOK, TypeOK', StoreGrows, ReplayBacked, BufferedOnlyUp,
         \/ phase' \notin {"down", "replay"}
         \/ UNCHANGED <<phase, unreplayed, nextSeq, jbuf>>
  PROVE  ReplayBacked' /\ BufferedOnlyUp'
<1>1. CASE phase' \notin {"down", "replay"}
  BY <1>1 DEF ReplayBacked, BufferedOnlyUp
<1>2. CASE UNCHANGED <<phase, unreplayed, nextSeq, jbuf>>
  <2>1. BufferedOnlyUp'
    BY <1>2 DEF BufferedOnlyUp
  <2>2. \A s \in Shard : /\ Ckpt(s) \in Nat /\ Ckpt(s)' \in Nat
                         /\ nextSeq[s] \in Nat /\ Ckpt(s)' >= Ckpt(s)
    BY CkptType, CkptTypeNext DEF TypeOK, StoreGrows
  <2>3. ReplayBacked'
    BY <1>2, <2>2 DEF ReplayBacked
  <2> QED
    BY <2>1, <2>3
<1> QED
  BY <1>1, <1>2

\* The invariant under a step that leaves maintenance alone.
LEMMA FrameInv ==
  ASSUME TypeOK, TypeOK', CheckpointInv, StoreGrows, UNCHANGED maintVars,
         \A s \in Shard : durable'[s] \in {durable[s], pub[s]},
         \A s \in Shard : pub'[s] \in {pub[s], 0} \/ pub'[s] <= Ckpt(s)',
         \/ phase' \notin {"down", "replay"}
         \/ UNCHANGED <<phase, unreplayed, nextSeq, jbuf>>
  PROVE  CheckpointInv'
BY PublishStays, PassUndisturbed, StartUndisturbed DEF CheckpointInv

\* A drain commits the checkpoint before it takes a number to publish.
LEMMA DrainInv ==
  ASSUME TypeOK, DrainHoldsWork, TypeOK', CheckpointInv,
         NEW s \in Shard, Drain(s)
  PROVE  CheckpointInv'
<1>1. maintVars' = maintVars
  BY DEF Drain, DrainSwap, DrainSync, DrainBatch, DrainBatchFails, Retry,
         RetryFails, Reject, Requeue, DrainPublish, DrainNotify, maintVars
<1>2. \/ phase' \notin {"down", "replay"}
      \/ UNCHANGED <<phase, unreplayed, nextSeq, jbuf>>
  BY DEF Drain, DrainSwap, DrainSync, DrainBatch, DrainBatchFails, Retry,
         RetryFails, Reject, Requeue, DrainPublish, DrainNotify, Running,
         queueVars
<1>3. CASE DrainSwap(s) \/ DrainSync(s) \/ Requeue(s) \/ DrainNotify(s)
  <2>1. durable' = durable
    BY <1>3 DEF DrainSwap, DrainSync, Requeue, DrainNotify
  <2>2. pub' = pub \/ pub' = [pub EXCEPT ![s] = 0]
    BY <1>3 DEF DrainSwap, DrainSync, Requeue, DrainNotify
  <2>3. \A k \in Shard : pub'[k] \in {pub[k], 0}
    BY <2>2 DEF TypeOK
  <2>4. UNCHANGED storeVars
    BY <1>3 DEF DrainSwap, DrainSync, Requeue, DrainNotify, storeVars
  <2> QED
    BY <1>1, <1>2, <2>1, <2>3, <2>4, StutterGrows, FrameInv
<1>4. CASE DrainBatchFails(s) \/ RetryFails(s)
  <2>1. durable' = durable /\ pub' = pub
    BY <1>4 DEF DrainBatchFails, RetryFails
  <2>2. work[s] # <<>>
    BY <1>4 DEF DrainHoldsWork, DrainBatchFails, RetryFails
  <2>3. \/ UNCHANGED storeVars
        \/ CommitTo(s, Copies(work[s], DOMAIN work[s]), work[s][Len(work[s])].seq)
        \/ CommitTo(s, Copies(work[s], {1}), Head(work[s]).seq)
    BY <1>4 DEF DrainBatchFails, RetryFails
  <2>4. StoreGrows
    BY <2>2, <2>3, WorkType, CommitGrows, StutterGrows
  <2> QED
    BY <1>1, <1>2, <2>1, <2>4, FrameInv
<1>5. CASE DrainBatch(s) \/ Retry(s) \/ Reject(s)
  <2>1. durable' = durable
    BY <1>5 DEF DrainBatch, Retry, Reject
  <2>2. work[s] # <<>>
    BY <1>5 DEF DrainHoldsWork, DrainBatch, Retry, Reject
  <2>3. PICK n \in Nat :
          /\ pub' = [pub EXCEPT ![s] = n]
          /\ StoreGrows
          /\ Ckpt(s)' >= n
    <3>1. CASE DrainBatch(s)
      BY <2>2, <3>1, WorkType, CommitGrows DEF DrainBatch
    <3>2. CASE Retry(s)
      BY <2>2, <3>2, WorkType, CommitGrows DEF Retry
    <3>3. CASE Reject(s)
      BY <2>2, <3>3, WorkType, CommitGrows DEF Reject
    <3> QED
      BY <1>5, <3>1, <3>2, <3>3
  <2>4. \A k \in Shard : pub'[k] \in {pub[k], 0} \/ pub'[k] <= Ckpt(k)'
    <3>1. Ckpt(s)' \in Nat /\ pub'[s] = n /\ \A k \in Shard \ {s} : pub'[k] = pub[k]
      BY <2>3, CkptTypeNext DEF TypeOK
    <3> QED
      BY <2>3, <3>1
  <2> QED
    BY <1>1, <1>2, <2>1, <2>3, <2>4, FrameInv
<1>6. CASE DrainPublish(s)
  <2>1. pub' = pub /\ UNCHANGED storeVars
    BY <1>6 DEF DrainPublish, storeVars
  <2>2. durable' = [durable EXCEPT ![s] = Larger(@, pub[s])]
    BY <1>6 DEF DrainPublish
  <2>3. \A k \in Shard : durable'[k] \in {durable[k], pub[k]}
    BY <2>2 DEF TypeOK, Larger
  <2> QED
    BY <1>1, <1>2, <2>1, <2>3, StutterGrows, FrameInv
<1> QED
  BY <1>3, <1>4, <1>5, <1>6 DEF Drain

\* Callers and backups commit nothing and publish nothing.
LEMMA CallersInv ==
  ASSUME TypeOK, TypeOK', CheckpointInv,
         \/ \E c \in Client, r \in Request, waits \in BOOLEAN : Submit(c, r, waits)
         \/ \E c \in Client : Wait(c)
         \/ \E p \in Snapshotter :
              PauseAdmissions(p) \/ SnapshotReady(p) \/ ResumeAdmissions(p)
  PROVE  CheckpointInv'
<1>1. UNCHANGED <<storeVars, maintVars, durable, pub>>
  BY DEF Submit, Wait, WaitReturn, WaitCheck, WaitPark, PauseAdmissions,
         SnapshotReady, ResumeAdmissions, drainVars
<1>2. \/ phase' = "up"
      \/ UNCHANGED <<phase, unreplayed, nextSeq, jbuf>>
  BY DEF Submit, Wait, WaitReturn, WaitCheck, WaitPark, PauseAdmissions,
         SnapshotReady, ResumeAdmissions, queueVars
<1> QED
  BY <1>1, <1>2, StutterGrows, FrameInv

\* Beginning a pass with marks that are committed.
LEMMA BeginInv ==
  ASSUME TypeOK, TypeOK', CheckpointInv, UNCHANGED <<storeVars, pub>>,
         NEW w, BeginMaintenance(w),
         \A s \in Shard : w[s] <= Ckpt(s),
         durable' = durable \/ durable' = w,
         phase' \notin {"down", "replay"}
  PROVE  CheckpointInv'
<1>1. \A s \in Shard : Ckpt(s)' = Ckpt(s)
  BY DEF storeVars, Ckpt
<1>2. PublishBacked'
  BY <1>1 DEF CheckpointInv, PublishBacked
<1>3. MarksBacked'
  BY <1>1 DEF BeginMaintenance, MarksBacked
<1>4. CheckpointCovers'
  BY DEF BeginMaintenance, CheckpointCovers
<1>5. ReplayBacked' /\ BufferedOnlyUp'
  BY DEF ReplayBacked, BufferedOnlyUp
<1> QED
  BY <1>2, <1>3, <1>4, <1>5 DEF CheckpointInv

\* A maintenance pass: it truncates only after every store was covered.
LEMMA MaintenanceInv ==
  ASSUME TypeOK, TypeOK', CheckpointInv, Maintenance
  PROVE  CheckpointInv'
<1>1. CASE MaintBegin
  <2>1. \A s \in Shard : durable[s] <= Ckpt(s)
    BY DEF CheckpointInv, PublishBacked
  <2>2. UNCHANGED <<storeVars, pub, durable>> /\ phase' \notin {"down", "replay"}
    BY <1>1 DEF MaintBegin, Running, drainVars
  <2>3. BeginMaintenance(durable)
    BY <1>1 DEF MaintBegin
  <2> QED
    BY <2>1, <2>2, <2>3, BeginInv
<1>2. CASE MaintAbort
  <2>1. UNCHANGED <<storeVars, pub, durable, phase, unreplayed, nextSeq, jbuf>>
    BY <1>2 DEF MaintAbort, drainVars, queueVars
  <2>2. mpc' = "idle"
    BY <1>2 DEF MaintAbort
  <2>3. StoreGrows
    BY <2>1, StutterGrows
  <2>4. MarksBacked' /\ CheckpointCovers'
    BY <2>2 DEF MarksBacked, CheckpointCovers
  <2>5. PublishBacked' /\ ReplayBacked' /\ BufferedOnlyUp'
    BY <2>1, <2>3, PublishStays, StartUndisturbed DEF CheckpointInv
  <2> QED
    BY <2>4, <2>5 DEF CheckpointInv
<1>3. ASSUME NEW d \in Domain, MaintCheckpoint(d)
      PROVE  CheckpointInv'
  <2>1. UNCHANGED <<db, pub, durable, phase, unreplayed, nextSeq, jbuf, marks>>
    BY <1>3 DEF MaintCheckpoint, drainVars, queueVars
  <2>2. mpc = "ckpt" /\ d \in mleft
    BY <1>3 DEF MaintCheckpoint
  <2>3. \A s \in Shard : Ckpt(s)' = Ckpt(s)
    BY <2>1 DEF Ckpt
  <2>4. PublishBacked' /\ ReplayBacked' /\ BufferedOnlyUp' /\ MarksBacked'
    BY <2>1, <2>2, <2>3
       DEF CheckpointInv, PublishBacked, ReplayBacked, BufferedOnlyUp, MarksBacked
  <2>5. \/ survivors' = [survivors EXCEPT ![d] = {db[d]}] /\ complete' = complete
        \/ survivors' = survivors /\ complete' = FALSE
    BY <1>3 DEF MaintCheckpoint, WalCheckpoint, WalCheckpointShort
  <2>6. CASE survivors' = [survivors EXCEPT ![d] = {db[d]}] /\ complete' = complete
    <3>1. Covered(d)'
      <4>1. survivors'[d] = {db[d]}
        BY <2>6 DEF TypeOK
      <4>2. \A s \in Shard : DomainOf(s) = d => db[d].ckpt[s] >= marks[s]
        BY <2>2, CkptType DEF CheckpointInv, MarksBacked, Ckpt, TypeOK
      <4> QED
        BY <2>1, <4>1, <4>2 DEF Covered
    <3>2. ASSUME NEW e \in Domain, e # d, Covered(e) PROVE Covered(e)'
      <4>1. survivors'[e] = survivors[e]
        BY <2>6, <3>2 DEF TypeOK
      <4> QED
        BY <2>1, <3>2, <4>1 DEF Covered
    <3>3. complete => \A e \in (Domain \ mleft) \cup {d} : Covered(e)'
      BY <2>2, <3>1, <3>2 DEF CheckpointInv, CheckpointCovers
    <3>4. CASE mleft # {d}
      <4>1. mleft' = mleft \ {d} /\ mpc' = mpc
        BY <1>3, <3>4 DEF MaintCheckpoint
      <4> QED
        BY <2>2, <2>4, <2>6, <3>3, <4>1 DEF CheckpointInv, CheckpointCovers
    <3>5. CASE mleft = {d}
      <4>1. mpc' = "truncate" => complete
        BY <1>3, <2>6, <3>5 DEF MaintCheckpoint
      <4>2. mpc' \in {"truncate", "idle"}
        BY <1>3, <2>6, <3>5 DEF MaintCheckpoint
      <4>3. complete => \A e \in Domain : Covered(e)'
        BY <3>3, <3>5
      <4> QED
        BY <2>4, <4>1, <4>2, <4>3 DEF CheckpointInv, CheckpointCovers
    <3> QED
      BY <3>4, <3>5
  <2>7. CASE survivors' = survivors /\ complete' = FALSE
    <3>1. mpc' # "truncate"
      BY <1>3, <2>2, <2>7 DEF MaintCheckpoint
    <3> QED
      BY <2>4, <2>7, <3>1 DEF CheckpointInv, CheckpointCovers
  <2> QED
    BY <2>5, <2>6, <2>7
<1>4. ASSUME NEW s \in Shard, MaintTruncate(s)
      PROVE  CheckpointInv'
  <2>1. UNCHANGED <<db, survivors, pub, durable, phase, unreplayed, nextSeq, marks>>
    BY <1>4 DEF MaintTruncate, drainVars, storeVars
  <2>2. mpc = "truncate" /\ mpc' \in {"truncate", "idle"}
    BY <1>4 DEF MaintTruncate
  <2>3. jbuf' = jbuf \/ jbuf' = [jbuf EXCEPT ![s] = <<>>]
    BY <1>4 DEF MaintTruncate
  <2>4. \A k \in Shard : Ckpt(k)' = Ckpt(k)
    BY <2>1 DEF Ckpt
  <2>5. PublishBacked' /\ ReplayBacked' /\ MarksBacked'
    BY <2>1, <2>2, <2>4
       DEF CheckpointInv, PublishBacked, ReplayBacked, MarksBacked
  <2>6. BufferedOnlyUp'
    BY <2>1, <2>3 DEF CheckpointInv, BufferedOnlyUp, TypeOK
  <2>7. CheckpointCovers'
    BY <2>1, <2>2 DEF CheckpointInv, CheckpointCovers, Covered
  <2> QED
    BY <2>5, <2>6, <2>7 DEF CheckpointInv
<1> QED
  BY <1>1, <1>2, <1>3, <1>4 DEF Maintenance

\* Starting: replay resumes numbering at or under the checkpoint it commits.
LEMMA StartInv ==
  ASSUME TypeOK, TypeOK', CheckpointInv, StartEngine \/ Start
  PROVE  CheckpointInv'
<1>1. CASE StartEngine
  <2>1. UNCHANGED <<storeVars, maintVars, durable, pub, jbuf>>
    BY <1>1 DEF StartEngine, drainVars, queueVars
  <2>2. phase = "down" /\ phase' = "replay" /\ unreplayed' = Shard
    BY <1>1 DEF StartEngine
  <2>3. ReplayBacked' /\ BufferedOnlyUp'
    BY <2>1, <2>2 DEF CheckpointInv, ReplayBacked, BufferedOnlyUp
  <2> QED
    BY <2>1, <2>3, StutterGrows, PublishStays, PassUndisturbed DEF CheckpointInv
<1>2. ASSUME NEW s \in Shard, ReplayShard(s)
      PROVE  CheckpointInv'
  <2>1. CommitPending(s) /\ UNCHANGED <<maintVars, durable, pub, jbuf, phase>>
    BY <1>2 DEF ReplayShard, drainVars
  <2>2. StoreGrows
    BY <2>1, ReplayCovers
  <2>3. nextSeq'[s] <= Ckpt(s)'
    <3>1. nextSeq'[s] = HighestSeq(jfile[s], Parsed(jfile[s]), Ckpt(s))
      BY <1>2 DEF ReplayShard, TypeOK
    <3> QED
      BY <2>1, <3>1, ReplayCovers
  <2>4. ASSUME NEW k \in Shard \ unreplayed', k # s
        PROVE  nextSeq'[k] <= Ckpt(k)'
    <3>1. nextSeq'[k] = nextSeq[k] /\ k \notin unreplayed
      BY <1>2, <2>4 DEF ReplayShard, TypeOK
    <3>2. nextSeq[k] <= Ckpt(k)
      BY <1>2, <3>1 DEF CheckpointInv, ReplayBacked, ReplayShard
    <3>3. nextSeq[k] \in Nat /\ Ckpt(k) \in Nat /\ Ckpt(k)' \in Nat
      BY CkptType, CkptTypeNext DEF TypeOK
    <3> QED
      BY <2>2, <3>1, <3>2, <3>3 DEF StoreGrows
  <2>5. ReplayBacked'
    BY <2>3, <2>4 DEF ReplayBacked
  <2>6. BufferedOnlyUp'
    BY <2>1 DEF CheckpointInv, BufferedOnlyUp
  <2> QED
    BY <2>1, <2>2, <2>5, <2>6, PublishStays, PassUndisturbed DEF CheckpointInv
<1>3. ASSUME NEW s \in Shard, ReplayFails(s)
      PROVE  CheckpointInv'
  BY <1>3, LostInv DEF ReplayFails
<1>4. CASE StartFinish
  <2>1. \A s \in Shard : nextSeq[s] <= Ckpt(s)
    BY <1>4 DEF StartFinish, CheckpointInv, ReplayBacked
  <2>2. UNCHANGED <<storeVars, pub>> /\ durable' = nextSeq /\ phase' = "boot"
    BY <1>4 DEF StartFinish, drainVars
  <2>3. BeginMaintenance(nextSeq)
    BY <1>4 DEF StartFinish
  <2> QED
    BY <2>1, <2>2, <2>3, BeginInv
<1>5. CASE SpawnFlushers
  <2>1. UNCHANGED <<storeVars, maintVars, durable, pub>> /\ phase' = "up"
    BY <1>5 DEF SpawnFlushers, drainVars
  <2> QED
    BY <2>1, StutterGrows, FrameInv
<1> QED
  BY <1>1, <1>2, <1>3, <1>4, <1>5 DEF Start

\* Shutting down and dropping the engine.
LEMMA StopInv ==
  ASSUME TypeOK, TypeOK', CheckpointInv,
         Shutdown \/ RequestShutdown \/ JoinFlushers \/ ShutdownDone \/ DropEngine
  PROVE  CheckpointInv'
<1>1. CASE Shutdown \/ RequestShutdown
  <2>1. /\ UNCHANGED <<storeVars, maintVars, durable, pub>>
        /\ phase' \in {"closing", "joining"}
    BY <1>1 DEF Shutdown, RequestShutdown, drainVars
  <2> QED
    BY <2>1, StutterGrows, FrameInv
<1>2. CASE JoinFlushers
  <2>1. UNCHANGED <<storeVars, pub, durable>> /\ phase' = "final"
    BY <1>2 DEF JoinFlushers, drainVars
  <2>2. BeginMaintenance(durable) /\ \A s \in Shard : durable[s] <= Ckpt(s)
    BY <1>2 DEF JoinFlushers, CheckpointInv, PublishBacked
  <2> QED
    BY <2>1, <2>2, BeginInv
<1>3. CASE ShutdownDone \/ DropEngine
  BY <1>3, LostInv DEF ShutdownDone, DropEngine
<1> QED
  BY <1>1, <1>2, <1>3

\* The invariant is inductive.
LEMMA NextInv ==
  ASSUME TypeOK, DrainHoldsWork, TypeOK', CheckpointInv, [Next]_vars
  PROVE  CheckpointInv'
<1>1. CASE \/ \E c \in Client, r \in Request, waits \in BOOLEAN : Submit(c, r, waits)
           \/ \E c \in Client : Wait(c)
           \/ \E p \in Snapshotter :
                PauseAdmissions(p) \/ SnapshotReady(p) \/ ResumeAdmissions(p)
  BY <1>1, CallersInv
<1>2. CASE \E s \in Shard : Drain(s)
  BY <1>2, DrainInv
<1>3. CASE Maintenance
  BY <1>3, MaintenanceInv
<1>4. CASE StartEngine \/ Start
  BY <1>4, StartInv
<1>5. CASE Shutdown \/ RequestShutdown \/ JoinFlushers \/ ShutdownDone \/ DropEngine
  BY <1>5, StopInv
<1>6. CASE ProcessCrash \/ PowerLoss
  BY <1>6, LostInv DEF ProcessCrash, PowerLoss
<1>7. CASE UNCHANGED vars
  <2>1. UNCHANGED <<storeVars, maintVars, durable, pub, phase, unreplayed, nextSeq, jbuf>>
    BY <1>7 DEF vars, queueVars, drainVars
  <2> QED
    BY <2>1, StutterGrows, FrameInv
<1> QED
  BY <1>1, <1>2, <1>3, <1>4, <1>5, <1>6, <1>7 DEF Next

\* It holds of a new engine: nothing is stored and nothing is published.
LEMMA InitInv == Init => CheckpointInv
<1> SUFFICES ASSUME Init PROVE CheckpointInv
  OBVIOUS
<1>1. /\ phase = "down" /\ mpc = "idle"
      /\ \A s \in Shard : durable[s] = 0 /\ pub[s] = 0 /\ jbuf[s] = <<>>
  BY DEF Init
<1>2. \A s \in Shard : Ckpt(s) \in Nat
  BY InitType, CkptType
<1> QED
  BY <1>1, <1>2 DEF CheckpointInv, PublishBacked, ReplayBacked, MarksBacked,
                    CheckpointCovers, BufferedOnlyUp

\* The inductive invariant, together with the types it needs.
THEOREM CheckpointCorrect == Spec => [](TypeOK /\ DrainHoldsWork /\ CheckpointInv)
<1>1. Init => CheckpointInv
  BY InitInv
<1>2. /\ TypeOK /\ DrainHoldsWork /\ CheckpointInv
      /\ TypeOK' /\ DrainHoldsWork' /\ [Next]_vars
      => CheckpointInv'
  BY NextInv
<1> QED
  BY <1>1, <1>2, TypeCorrect, PTL DEF Spec

\* The watermark of a running engine never runs ahead of the checkpoint its
\* shard has committed: whatever fails, wait_durable_result never reports a
\* sequence number that no transaction has covered.
THEOREM WatermarkSafe == Spec => []WatermarkBacked
<1>1. CheckpointInv => WatermarkBacked
  BY DEF CheckpointInv, PublishBacked, WatermarkBacked
<1> QED
  BY <1>1, CheckpointCorrect, PTL

-----------------------------------------------------------------------------
(* Maintenance erases nothing that a store may still need.                 *)

\* Dropping the BufWriters moves their contents to the files.
LEMMA DropKeepsLength ==
  ASSUME TypeOK, NEW s \in Shard
  PROVE  Len(jfile[s] \o jbuf[s]) + Len(<<>>) = Len(jfile[s]) + Len(jbuf[s])
<1>1. jfile[s] \in Seq(Unit) /\ jbuf[s] \in Seq(Unit)
  BY DEF TypeOK
<1>2. Len(<<>>) = 0
  OBVIOUS
<1> QED
  BY <1>1, <1>2, ConcatProperties, LenProperties

\* A journal loses units only in maintenance, when its shard is idle at a
\* watermark that every state of its store covers; or in a crash.
LEMMA ErasedStep ==
  ASSUME TypeOK, TypeOK', CheckpointInv, [Next]_vars, NEW s \in Shard,
         Len(jfile'[s]) + Len(jbuf'[s]) < Len(jfile[s]) + Len(jbuf[s]),
         crashes' = crashes, losses' = losses
  PROVE  \A x \in survivors[DomainOf(s)] : x.ckpt[s] >= nextSeq[s]
<1>1. /\ jfile[s] \in Seq(Unit) /\ jbuf[s] \in Seq(Unit)
      /\ Len(jfile[s]) \in Nat /\ Len(jbuf[s]) \in Nat
      /\ Len(jfile'[s]) \in Nat /\ Len(jbuf'[s]) \in Nat
  <2>1. jfile[s] \in Seq(Unit) /\ jbuf[s] \in Seq(Unit)
    BY DEF TypeOK
  <2>2. jfile'[s] \in Seq(Unit) /\ jbuf'[s] \in Seq(Unit)
    BY DEF TypeOK
  <2> QED
    BY <2>1, <2>2, LenProperties
<1> DEFINE before == Len(jfile[s]) + Len(jbuf[s])
           after  == Len(jfile'[s]) + Len(jbuf'[s])
<1>0. before \in Nat /\ after \in Nat /\ before # after
  <2>1. before \in Nat /\ after \in Nat
    <3>1. \A m, n \in Nat : m + n \in Nat
      OBVIOUS
    <3> QED
      BY <1>1, <3>1, Zenon
  <2>2. after < before
    OBVIOUS
  <2> HIDE DEF before, after
  <2> QED
    BY <2>1, <2>2
<1>2. ASSUME jfile'[s] = jfile[s], jbuf'[s] = jbuf[s] PROVE FALSE
  <2>1. before = after
    BY <1>2, Zenon
  <2> QED
    BY <1>0, <2>1, Zenon
<1>3. ASSUME jfile'[s] = jfile[s] \o jbuf[s], jbuf'[s] = <<>> PROVE FALSE
  <2>1. Len(jfile'[s]) = Len(jfile[s] \o jbuf[s]) /\ Len(jbuf'[s]) = Len(<<>>)
    BY <1>3, Zenon
  <2>2. before = after
    BY <2>1, DropKeepsLength, Zenon
  <2> QED
    BY <1>0, <2>2, Zenon
<1>4. ASSUME NEW k \in Shard, MaintTruncate(k)
      PROVE  \A x \in survivors[DomainOf(s)] : x.ckpt[s] >= nextSeq[s]
  <2>1. k = s
    <3>1. \/ jfile' = jfile \/ \E v : jfile' = [jfile EXCEPT ![k] = v]
      BY <1>4 DEF MaintTruncate
    <3>2. \/ jbuf' = jbuf \/ jbuf' = [jbuf EXCEPT ![k] = <<>>]
      BY <1>4 DEF MaintTruncate
    <3>3. k # s => jfile'[s] = jfile[s] /\ jbuf'[s] = jbuf[s]
      BY <3>1, <3>2, ZenonT(30) DEF TypeOK
    <3> QED
      BY <1>2, <3>3
  <2>2. nextSeq[s] = marks[s]
    BY <1>2, <1>4, <2>1 DEF MaintTruncate
  <2>3. Covered(DomainOf(s))
    BY <1>4, RoutingType DEF MaintTruncate, CheckpointInv, CheckpointCovers
  <2> QED
    BY <2>2, <2>3 DEF Covered
<1>5. ASSUME NEW c \in Client, NEW r \in Request, NEW waits \in BOOLEAN,
             Submit(c, r, waits)
      PROVE  FALSE
  <2> DEFINE k == ShardOf(r)
             units == jbuf[k] \o <<Record(nextSeq[k] + 1, r), Mark("nl")>>
  <2>1. k \in Shard /\ jfile[k] \in Seq(Unit) /\ jbuf[k] \in Seq(Unit)
    BY RoutingType DEF TypeOK
  <2>2. PICK n \in {0, Len(jbuf[k]), Len(jbuf[k]) + 1} :
          /\ jfile' = [jfile EXCEPT ![k] = @ \o SubSeq(units, 1, n)]
          /\ jbuf' = [jbuf EXCEPT ![k] = SubSeq(units, n + 1, Len(units))]
    BY <1>5 DEF Submit
  <2>3. k = s
    <3>1. k # s => jfile'[s] = jfile[s] /\ jbuf'[s] = jbuf[s]
      BY <2>1, <2>2 DEF TypeOK
    <3> QED
      BY <1>2, <3>1
  <2>4. /\ Record(nextSeq[k] + 1, r) \in Unit /\ Mark("nl") \in Unit
    <3>1. nextSeq[k] \in Nat
      BY <2>1 DEF TypeOK
    <3> QED
      BY <3>1 DEF Record, Mark, Unit
  <2>5. units \in Seq(Unit) /\ Len(units) = Len(jbuf[k]) + 2
    BY <2>1, <2>4
  <2> HIDE DEF units
  <2>6. n \in 0 .. Len(units)
    BY <1>1, <2>2, <2>3, <2>5
  <2>7. /\ Len(SubSeq(units, 1, n)) = n
        /\ Len(SubSeq(units, n + 1, Len(units))) = Len(units) - n
        /\ SubSeq(units, 1, n) \in Seq(Unit)
    BY <2>5, <2>6
  <2>8. /\ jfile'[s] = jfile[s] \o SubSeq(units, 1, n)
        /\ jbuf'[s] = SubSeq(units, n + 1, Len(units))
    BY <2>1, <2>2, <2>3 DEF TypeOK
  <2>9. Len(jfile'[s]) = Len(jfile[s]) + n
    <3>1. Len(jfile'[s]) = Len(jfile[s] \o SubSeq(units, 1, n))
      BY <2>8, Zenon
    <3> QED
      BY <1>1, <2>7, <3>1, ConcatProperties
  <2>10. Len(jbuf'[s]) = Len(units) - n
    BY <2>7, <2>8, Zenon
  <2>11. Len(units) = Len(jbuf[s]) + 2
    BY <2>3, <2>5, Zenon
  <2>12. Len(units) \in Nat /\ n \in Nat
    BY <1>1, <2>6, <2>11
  <2>13. before + 2 = after
    <3>1. after = (Len(jfile[s]) + n) + (Len(units) - n)
      BY <2>9, <2>10, Zenon
    <3>2. \A i, j \in Nat : \A m \in Nat :
            (i + j) + 2 = (i + m) + ((j + 2) - m)
      OBVIOUS
    <3>3. \A m \in Nat :
            before + 2 = (Len(jfile[s]) + m) + ((Len(jbuf[s]) + 2) - m)
      BY <1>1, <3>2, Zenon
    <3>4. before + 2 = (Len(jfile[s]) + n) + ((Len(jbuf[s]) + 2) - n)
      BY <2>12, <3>3, Zenon
    <3> QED
      BY <2>11, <3>1, <3>4, Zenon
  <2> HIDE DEF before, after
  <2>14. after < before
    BY DEF before, after
  <2> QED
    BY <1>0, <2>13, <2>14
<1>6. ASSUME NEW k \in Shard, Drain(k)
      PROVE  FALSE
  <2>1. \/ jfile' = jfile /\ jbuf' = jbuf
        \/ /\ jfile' = [jfile EXCEPT ![k] = @ \o jbuf[k]]
           /\ jbuf' = [jbuf EXCEPT ![k] = <<>>]
    BY <1>6 DEF Drain, DrainSwap, DrainSync, DrainBatch, DrainBatchFails, Retry,
                RetryFails, Reject, Requeue, DrainPublish, DrainNotify, queueVars
  <2>2. CASE jfile' = jfile /\ jbuf' = jbuf
    BY <1>2, <2>2
  <2>3. CASE /\ jfile' = [jfile EXCEPT ![k] = @ \o jbuf[k]]
             /\ jbuf' = [jbuf EXCEPT ![k] = <<>>]
    <3>1. k # s => jfile'[s] = jfile[s] /\ jbuf'[s] = jbuf[s]
      BY <2>3 DEF TypeOK
    <3>2. k = s => jfile'[s] = jfile[s] \o jbuf[s]
      BY <2>3 DEF TypeOK
    <3>3. k = s => jbuf'[s] = <<>>
      BY <2>3 DEF TypeOK
    <3> QED
      BY <1>2, <1>3, <3>1, <3>2, <3>3
  <2> QED
    BY <2>1, <2>2, <2>3
<1>7. ASSUME ReplayFails(s) \/ \E k \in Shard : ReplayFails(k)
      PROVE  FALSE
  <2>1. phase = "replay" /\ LoseMemory /\ jfile' = jfile
    BY <1>7 DEF ReplayFails
  <2>2. jbuf[s] = <<>> /\ jbuf'[s] = <<>>
    BY <2>1 DEF CheckpointInv, BufferedOnlyUp, LoseMemory
  <2> QED
    BY <1>2, <2>1, <2>2
<1>8. ASSUME ShutdownDone \/ DropEngine
      PROVE  FALSE
  <2>1. DropJournals /\ LoseMemory
    BY <1>8 DEF ShutdownDone, DropEngine
  <2>2. jfile'[s] = jfile[s] \o jbuf[s]
    BY <2>1 DEF DropJournals
  <2>3. jbuf'[s] = <<>>
    BY <2>1 DEF LoseMemory
  <2> QED
    BY <1>3, <2>2, <2>3
<1>9. ASSUME ProcessCrash \/ PowerLoss
      PROVE  FALSE
  <2>1. crashes \in Nat /\ losses \in Nat
    BY DEF TypeOK
  <2>2. crashes' = crashes + 1 \/ losses' = losses + 1
    BY <1>9 DEF ProcessCrash, PowerLoss
  <2> QED
    BY <2>1, <2>2
<1>10. ASSUME \/ \E c \in Client : Wait(c)
              \/ \E p \in Snapshotter :
                   PauseAdmissions(p) \/ SnapshotReady(p) \/ ResumeAdmissions(p)
              \/ MaintBegin \/ MaintAbort
              \/ \E d \in Domain : MaintCheckpoint(d)
              \/ StartEngine \/ StartFinish \/ SpawnFlushers
              \/ \E k \in Shard : ReplayShard(k)
              \/ Shutdown \/ RequestShutdown \/ JoinFlushers
              \/ UNCHANGED vars
       PROVE  FALSE
  <2>1. jfile' = jfile /\ jbuf' = jbuf
    BY <1>10 DEF Wait, WaitReturn, WaitCheck, WaitPark, PauseAdmissions,
                 SnapshotReady, ResumeAdmissions, MaintBegin, MaintAbort,
                 MaintCheckpoint, StartEngine, StartFinish, SpawnFlushers,
                 ReplayShard, Shutdown, RequestShutdown, JoinFlushers, vars,
                 queueVars
  <2> QED
    BY <1>2, <2>1
<1> QED
  BY <1>4, <1>5, <1>6, <1>7, <1>8, <1>9, <1>10 DEF Next, Start, Maintenance

\* Maintenance truncates a journal only when every state its store may come
\* back in, after a power loss in the next instant, has a checkpoint at or
\* above every sequence number issued; no other step loses a journal unit.
THEOREM EraseSafe == Spec => ErasedOnlyIfCovered
<1>1. TypeOK /\ TypeOK' /\ CheckpointInv /\ [Next]_vars =>
        [\A s \in Shard :
           /\ Len(jfile'[s]) + Len(jbuf'[s]) < Len(jfile[s]) + Len(jbuf[s])
           /\ crashes' = crashes /\ losses' = losses
           => \A x \in survivors[DomainOf(s)] : x.ckpt[s] >= nextSeq[s]]_vars
  BY ErasedStep
<1> QED
  BY <1>1, CheckpointCorrect, PTL DEF Spec, ErasedOnlyIfCovered
=============================================================================
