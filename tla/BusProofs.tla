----------------------------- MODULE BusProofs -----------------------------
(***************************************************************************)
(* Theorems about the single write in ContextEngine, for every value of    *)
(* its constants: while a backup holds the gate nothing is queued or being *)
(* drained; a committed checkpoint passes no write without an outcome; a   *)
(* shutdown leaves journals empty and stores checkpointed; no step but a   *)
(* crash or a rejection loses an accepted write; nothing loses one whose   *)
(* caller was told it is durable, or applies one twice, or applies one     *)
(* whose caller was told it failed.  The types and the checkpoint, on      *)
(* which these proofs rest, are in ContextEngineProofs.                    *)
(***************************************************************************)
EXTENDS ContextEngineProofs

-----------------------------------------------------------------------------
(* The line of a shard: the writes being drained, then the writes queued,  *)
(* in the order of their sequence numbers, above everything published.     *)

Above(q, n)   == \A i \in DOMAIN q : q[i].seq > n
UpTo(q, n)    == \A i \in DOMAIN q : q[i].seq <= n
Increasing(q) == \A i, j \in DOMAIN q : i < j => q[i].seq < q[j].seq

\* Sequence numbers grow along the line.
Ordered(s) ==
  /\ Increasing(work[s])
  /\ Increasing(buf[s])
  /\ \A i \in DOMAIN work[s] : Above(buf[s], work[s][i].seq)

\* Nothing of the line is published, by the watermark or by a drain to be.
Unpublished(s) ==
  /\ Above(work[s], durable[s]) /\ Above(work[s], pub[s])
  /\ Above(buf[s], durable[s])  /\ Above(buf[s], pub[s])

\* What is queued, drained or published has been issued.
Issued(s) ==
  /\ UpTo(work[s], nextSeq[s]) /\ UpTo(buf[s], nextSeq[s])
  /\ durable[s] <= nextSeq[s] /\ pub[s] <= nextSeq[s]

\* A drain that has still to publish or to begin has no work.
Ended(s) == dpc[s] \in {"idle", "publish", "notify"} => work[s] = <<>>

Line(s) == Ordered(s) /\ Unpublished(s) /\ Issued(s) /\ Ended(s)

\* An engine that is not up yet has accepted nothing.
Dormant ==
  /\ phase \in {"down", "replay", "boot"} =>
       \A s \in Shard : buf[s] = <<>> /\ dpc[s] = "idle"
  /\ phase \in {"down", "replay"} =>
       \A s \in Shard : durable[s] = 0 /\ pub[s] = 0

\* The gate is closed in a running engine only, nothing is issued behind it,
\* and a backup that was let in found every number issued durable.
Gate ==
  \A p \in Snapshotter :
    /\ spc[p] # "idle" => phase = "up" /\ smark[p] = nextSeq
    /\ spc[p] = "held" => \A s \in Shard : durable[s] >= smark[p][s]

LineInv == (\A s \in Shard : Line(s)) /\ Dormant /\ Gate

-----------------------------------------------------------------------------
(* Sequences of entries.                                                   *)

\* The entries of a queue have sequence numbers and requests.
LEMMA EntryType ==
  ASSUME NEW q \in Seq(Entry)
  PROVE  /\ Len(q) \in Nat /\ DOMAIN q = 1 .. Len(q)
         /\ \A i \in DOMAIN q : q[i] \in Entry /\ q[i].seq \in Nat /\ q[i].req \in Request
<1>1. \A i \in DOMAIN q : q[i] \in Entry
  OBVIOUS
<1> QED
  BY <1>1, LenProperties DEF Entry

\* Whatever is said of the entries of a queue holds of an empty one.
LEMMA EmptyLine ==
  ASSUME NEW n
  PROVE  Above(<<>>, n) /\ UpTo(<<>>, n) /\ Increasing(<<>>)
<1>1. DOMAIN <<>> = {}
  OBVIOUS
<1> QED
  BY <1>1 DEF Above, UpTo, Increasing

\* An entry appended with the next sequence number keeps a queue in order.
LEMMA AppendLine ==
  ASSUME NEW q \in Seq(Entry), NEW e \in Entry, NEW n \in Nat, e.seq = n + 1,
         UpTo(q, n), Increasing(q)
  PROVE  /\ Append(q, e) \in Seq(Entry)
         /\ Increasing(Append(q, e)) /\ UpTo(Append(q, e), n + 1)
         /\ \A m \in Nat : m <= n /\ Above(q, m) => Above(Append(q, e), m)
<1> DEFINE a == Append(q, e)
<1>1. Len(q) \in Nat /\ DOMAIN q = 1 .. Len(q) /\ DOMAIN a = 1 .. Len(q) + 1
  BY LenProperties, AppendProperties
<1>2. a \in Seq(Entry) /\ a[Len(q) + 1] = e /\ \A i \in DOMAIN q : a[i] = q[i]
  BY <1>1, AppendProperties
<1>3. \A i \in DOMAIN q : q[i].seq \in Nat /\ q[i].seq <= n
  BY EntryType DEF UpTo
<1>4. \A i \in DOMAIN a : i \in DOMAIN q \/ i = Len(q) + 1
  BY <1>1
<1> HIDE DEF a
<1>5. UpTo(a, n + 1)
  BY <1>2, <1>3, <1>4 DEF UpTo
<1>6. Increasing(a)
  <2> SUFFICES ASSUME NEW i \in DOMAIN a, NEW j \in DOMAIN a, i < j
               PROVE  a[i].seq < a[j].seq
    BY DEF Increasing
  <2>1. i \in DOMAIN q
    BY <1>1, <1>4
  <2>2. CASE j \in DOMAIN q
    BY <1>2, <2>1, <2>2 DEF Increasing
  <2>3. CASE j = Len(q) + 1
    BY <1>2, <1>3, <2>1, <2>3
  <2> QED
    BY <1>4, <2>2, <2>3
<1>7. \A m \in Nat : m <= n /\ Above(q, m) => Above(a, m)
  BY <1>2, <1>4 DEF Above
<1> QED
  BY <1>2, <1>5, <1>6, <1>7 DEF a

\* The first entry of a line in order leaves the rest above it.
LEMMA TailLine ==
  ASSUME NEW q \in Seq(Entry), q # <<>>, Increasing(q)
  PROVE  /\ Tail(q) \in Seq(Entry) /\ Head(q) = q[1] /\ 1 \in DOMAIN q
         /\ \A i \in DOMAIN Tail(q) : i + 1 \in DOMAIN q /\ Tail(q)[i] = q[i + 1]
         /\ \A j \in DOMAIN q \ {1} : j - 1 \in DOMAIN Tail(q) /\ Tail(q)[j - 1] = q[j]
         /\ Increasing(Tail(q)) /\ Above(Tail(q), Head(q).seq)
         /\ \A n : Above(q, n) => Above(Tail(q), n)
         /\ \A n : UpTo(q, n) => UpTo(Tail(q), n)
<1> DEFINE t == Tail(q)
<1>1. /\ Len(q) \in Nat /\ Len(q) # 0 /\ DOMAIN q = 1 .. Len(q)
      /\ t \in Seq(Entry) /\ Len(t) = Len(q) - 1 /\ DOMAIN t = 1 .. Len(t)
      /\ Head(q) = q[1]
      /\ \A i \in 1 .. Len(q) - 1 : t[i] = q[i + 1]
  BY LenProperties, EmptySeq, HeadTailProperties
<1>2. \A i \in DOMAIN t : i \in Nat \ {0} /\ i + 1 \in DOMAIN q /\ t[i] = q[i + 1]
  BY <1>1
<1>3. \A j \in DOMAIN q \ {1} : j - 1 \in DOMAIN t /\ t[j - 1] = q[j]
  BY <1>1
<1>4. 1 \in DOMAIN q
  BY <1>1
<1> HIDE DEF t
<1>5. Increasing(t)
  <2> SUFFICES ASSUME NEW i \in DOMAIN t, NEW j \in DOMAIN t, i < j
               PROVE  t[i].seq < t[j].seq
    BY DEF Increasing
  <2>1. i + 1 < j + 1
    BY <1>2
  <2> QED
    BY <1>2, <2>1 DEF Increasing
<1>6. Above(t, Head(q).seq)
  <2> SUFFICES ASSUME NEW i \in DOMAIN t PROVE t[i].seq > q[1].seq
    BY <1>1 DEF Above
  <2>1. 1 < i + 1
    BY <1>2
  <2>2. q[1].seq < q[i + 1].seq
    BY <1>2, <1>4, <2>1 DEF Increasing
  <2>3. q[1].seq \in Nat /\ q[i + 1].seq \in Nat
    BY <1>2, <1>4, EntryType
  <2> QED
    BY <1>2, <2>2, <2>3
<1>7. \A n : Above(q, n) => Above(t, n)
  BY <1>2 DEF Above
<1>8. \A n : UpTo(q, n) => UpTo(t, n)
  BY <1>2 DEF UpTo
<1> QED
  BY <1>1, <1>2, <1>3, <1>4, <1>5, <1>6, <1>7, <1>8 DEF t

\* The last entry of a line in order is at or above the rest.
LEMMA LastLine ==
  ASSUME NEW q \in Seq(Entry), q # <<>>, Increasing(q)
  PROVE  /\ Len(q) \in DOMAIN q /\ q[Len(q)].seq \in Nat /\ UpTo(q, q[Len(q)].seq)
<1>1. Len(q) \in Nat \ {0} /\ DOMAIN q = 1 .. Len(q)
  BY LenProperties, EmptySeq
<1>2. \A i \in DOMAIN q : q[i].seq \in Nat
  BY EntryType
<1>3. ASSUME NEW i \in DOMAIN q PROVE q[i].seq <= q[Len(q)].seq
  <2>1. CASE i = Len(q)
    BY <1>1, <1>2, <2>1
  <2>2. CASE i < Len(q)
    BY <1>1, <1>2, <2>2 DEF Increasing
  <2> QED
    BY <1>1, <2>1, <2>2
<1> QED
  BY <1>1, <1>2, <1>3 DEF UpTo

-----------------------------------------------------------------------------
(* The line is an invariant.                                               *)

\* The parts of the line of a shard, with their types.
LEMMA LineType ==
  ASSUME TypeOK, NEW k \in Shard
  PROVE  /\ work[k] \in Seq(Entry) /\ buf[k] \in Seq(Entry)
         /\ durable[k] \in Nat /\ pub[k] \in Nat /\ nextSeq[k] \in Nat
BY DEF TypeOK

\* A shard no step touches keeps its line.
LEMMA LineFrame ==
  ASSUME NEW k \in Shard, Line(k),
         work'[k] = work[k], buf'[k] = buf[k], durable'[k] = durable[k],
         pub'[k] = pub[k], nextSeq'[k] = nextSeq[k], dpc'[k] = dpc[k]
  PROVE  Line(k)'
BY DEF Line, Ordered, Unpublished, Issued, Ended

\* An empty line is in order.
LEMMA LineEmpty ==
  ASSUME NEW k \in Shard, work'[k] = <<>>, buf'[k] = <<>>,
         durable'[k] <= nextSeq'[k], pub'[k] <= nextSeq'[k]
  PROVE  Line(k)'
<1>1. \A i \in DOMAIN <<>> : FALSE
  OBVIOUS
<1> QED
  BY <1>1, EmptyLine DEF Line, Ordered, Unpublished, Issued, Ended

\* What the actions of a drain leave of the rest of the engine.
LEMMA DrainElsewhere ==
  ASSUME TypeOK, NEW s \in Shard, Drain(s), NEW k \in Shard, k # s
  PROVE  /\ work'[k] = work[k] /\ buf'[k] = buf[k] /\ durable'[k] = durable[k]
         /\ pub'[k] = pub[k] /\ dpc'[k] = dpc[k]
         /\ jfile'[k] = jfile[k] /\ jbuf'[k] = jbuf[k] /\ jsync'[k] = jsync[k]
         /\ failures'[k] = failures[k]
BY SMTT(30) DEF Drain, DrainSwap, DrainSync, DrainBatch, DrainBatchFails, Retry, RetryFails,
       Reject, Requeue, DrainPublish, DrainNotify, TypeOK, queueVars

\* What no step of a drain touches: numbers, phase, backups, maintenance.
LEMMA DrainFrame ==
  ASSUME NEW s \in Shard, Drain(s)
  PROVE  nextSeq' = nextSeq /\ phase' = phase /\ unreplayed' = unreplayed
         /\ spc' = spc /\ smark' = smark /\ UNCHANGED maintVars
         /\ UNCHANGED pastVars /\ UNCHANGED <<crashes, losses>>
BY DEF Drain, DrainSwap, DrainSync, DrainBatch, DrainBatchFails, Retry, RetryFails,
       Reject, Requeue, DrainPublish, DrainNotify, queueVars, agentVars, envVars, Fault

\* Taking the queue, and starting over after a batch that failed.
LEMMA SwapLine ==
  ASSUME TypeOK, NEW s \in Shard, Line(s), DrainSwap(s)
  PROVE  Line(s)'
<1>1. /\ work'[s] = buf[s] /\ buf'[s] = <<>> /\ pub'[s] = 0 /\ durable'[s] = durable[s]
      /\ nextSeq'[s] = nextSeq[s] /\ dpc'[s] = "sync"
  BY DEF DrainSwap, TypeOK
<1>2. buf[s] \in Seq(Entry) /\ nextSeq[s] \in Nat
  BY LineType
<1>3. Above(buf[s], 0)
  <2>1. \A i \in DOMAIN buf[s] : buf[s][i].seq > durable[s] /\ buf[s][i].seq \in Nat
    BY <1>2, EntryType DEF Line, Unpublished, Above
  <2> QED
    BY <2>1, LineType DEF Above
<1> QED
  BY <1>1, <1>2, <1>3, EmptyLine DEF Line, Ordered, Unpublished, Issued, Ended, Above

\* A drain that moves on without taking or resolving any work.
LEMMA StayLine ==
  ASSUME TypeOK, NEW s \in Shard, Line(s),
         DrainSync(s) \/ DrainBatchFails(s) \/ RetryFails(s) \/ DrainNotify(s)
  PROVE  Line(s)'
<1>1. /\ work'[s] = work[s] /\ buf'[s] = buf[s] /\ pub'[s] = pub[s]
      /\ durable'[s] = durable[s] /\ nextSeq'[s] = nextSeq[s]
      /\ dpc'[s] \in {"idle", "publish", "notify"} => dpc[s] = "notify"
  BY DEF DrainSync, DrainBatchFails, RetryFails, DrainNotify, TypeOK, queueVars
<1> QED
  BY <1>1 DEF Line, Ordered, Unpublished, Issued, Ended

\* The batch commits: everything taken is resolved, up to its last number.
LEMMA BatchLine ==
  ASSUME TypeOK, DrainHoldsWork, NEW s \in Shard, Line(s), DrainBatch(s)
  PROVE  Line(s)'
<1>1. /\ work'[s] = <<>> /\ buf'[s] = buf[s] /\ durable'[s] = durable[s]
      /\ pub'[s] = work[s][Len(work[s])].seq /\ nextSeq'[s] = nextSeq[s]
  BY DEF DrainBatch, TypeOK, queueVars
<1>2. work[s] \in Seq(Entry) /\ work[s] # <<>>
  BY LineType DEF DrainHoldsWork, DrainBatch
<1>3. Len(work[s]) \in DOMAIN work[s]
  BY <1>2, LastLine DEF Line, Ordered
<1>4. Above(buf[s], pub'[s]) /\ pub'[s] <= nextSeq[s]
  BY <1>1, <1>3 DEF Line, Ordered, Issued, UpTo
<1> QED
  BY <1>1, <1>4, EmptyLine DEF Line, Ordered, Unpublished, Issued, Ended, Above

\* The first request of the work is resolved, alone.
LEMMA HeadLine ==
  ASSUME TypeOK, DrainHoldsWork, NEW s \in Shard, Line(s), Retry(s) \/ Reject(s)
  PROVE  Line(s)'
<1>1. /\ work'[s] = Tail(work[s]) /\ buf'[s] = buf[s] /\ durable'[s] = durable[s]
      /\ pub'[s] = Head(work[s]).seq /\ nextSeq'[s] = nextSeq[s]
      /\ dpc'[s] = IF Len(work[s]) = 1 THEN "publish" ELSE "retry"
  BY DEF Retry, Reject, TypeOK, queueVars
<1>2. work[s] \in Seq(Entry) /\ work[s] # <<>>
  BY LineType DEF DrainHoldsWork, Retry, Reject
<1>3. /\ Head(work[s]) = work[s][1] /\ 1 \in DOMAIN work[s]
      /\ Increasing(Tail(work[s])) /\ Above(Tail(work[s]), Head(work[s]).seq)
      /\ \A n : Above(work[s], n) => Above(Tail(work[s]), n)
      /\ \A n : UpTo(work[s], n) => UpTo(Tail(work[s]), n)
      /\ \A i \in DOMAIN Tail(work[s]) :
           i + 1 \in DOMAIN work[s] /\ Tail(work[s])[i] = work[s][i + 1]
  BY <1>2, TailLine DEF Line, Ordered
<1>4. Above(buf[s], pub'[s]) /\ pub'[s] <= nextSeq[s]
  BY <1>1, <1>3 DEF Line, Ordered, Issued, UpTo
<1>5. Ordered(s)'
  BY <1>1, <1>3 DEF Line, Ordered
<1>6. Unpublished(s)'
  BY <1>1, <1>3, <1>4 DEF Line, Unpublished
<1>7. Issued(s)'
  BY <1>1, <1>3, <1>4 DEF Line, Issued
<1>8. Ended(s)'
  <2>1. Len(work[s]) = 1 => Tail(work[s]) = <<>>
    <3>1. Tail(work[s]) \in Seq(Entry) /\ Len(Tail(work[s])) = Len(work[s]) - 1
      BY <1>2, HeadTailProperties
    <3>2. ASSUME NEW t \in Seq(Entry), Len(t) = 1 - 1 PROVE t = <<>>
      BY <3>2
    <3> QED
      BY <3>1, <3>2
  <2> QED
    BY <1>1, <2>1 DEF Ended
<1> QED
  BY <1>5, <1>6, <1>7, <1>8 DEF Line

\* The entries of a concatenation.
LEMMA ConcatEntries ==
  ASSUME NEW p \in Seq(Entry), NEW q \in Seq(Entry)
  PROVE  /\ p \o q \in Seq(Entry)
         /\ \A i \in DOMAIN p : i \in DOMAIN (p \o q) /\ (p \o q)[i] = p[i]
         /\ \A j \in DOMAIN q : Len(p) + j \in DOMAIN (p \o q) /\ (p \o q)[Len(p) + j] = q[j]
         /\ \A i \in DOMAIN (p \o q) :
              \/ i \in DOMAIN p
              \/ i - Len(p) \in DOMAIN q /\ i > Len(p) /\ (p \o q)[i] = q[i - Len(p)]
<1>1. /\ Len(p) \in Nat /\ Len(q) \in Nat
      /\ DOMAIN p = 1 .. Len(p) /\ DOMAIN q = 1 .. Len(q)
  BY LenProperties
<1>2. p \o q \in Seq(Entry) /\ Len(p \o q) = Len(p) + Len(q)
  BY ConcatProperties
<1>3. \A i \in 1 .. Len(p) + Len(q) :
        (p \o q)[i] = IF i <= Len(p) THEN p[i] ELSE q[i - Len(p)]
  BY ConcatProperties
<1>4. DOMAIN (p \o q) = 1 .. Len(p) + Len(q)
  BY <1>2, LenProperties
<1> DEFINE c == p \o q
<1> HIDE DEF c
<1>5. c \in Seq(Entry) /\ DOMAIN c = 1 .. Len(p) + Len(q)
  BY <1>2, <1>4 DEF c
<1>6. \A i \in 1 .. Len(p) + Len(q) : c[i] = IF i <= Len(p) THEN p[i] ELSE q[i - Len(p)]
  BY <1>3 DEF c
<1>7. \A i \in DOMAIN p : i \in DOMAIN c /\ c[i] = p[i]
  BY <1>1, <1>5, <1>6
<1>8. \A j \in DOMAIN q : Len(p) + j \in DOMAIN c /\ c[Len(p) + j] = q[j]
  BY <1>1, <1>5, <1>6
<1>9. \A i \in DOMAIN c :
        \/ i \in DOMAIN p
        \/ i - Len(p) \in DOMAIN q /\ i > Len(p) /\ c[i] = q[i - Len(p)]
  BY <1>1, <1>5, <1>6
<1> QED
  BY <1>5, <1>7, <1>8, <1>9 DEF c

\* The unresolved suffix goes back ahead of what was queued meanwhile.
LEMMA RequeueLine ==
  ASSUME TypeOK, DrainHoldsWork, NEW s \in Shard, Line(s), Requeue(s)
  PROVE  Line(s)'
<1> DEFINE p == work[s]
           q == buf[s]
           c == p \o q
<1>1. /\ work'[s] = <<>> /\ buf'[s] = c /\ durable'[s] = durable[s]
      /\ pub'[s] = pub[s] /\ nextSeq'[s] = nextSeq[s]
  BY DEF Requeue, TypeOK
<1>2. p \in Seq(Entry) /\ q \in Seq(Entry)
  BY LineType
<1>3. /\ \A i \in DOMAIN c :
           \/ i \in DOMAIN p /\ c[i] = p[i]
           \/ i - Len(p) \in DOMAIN q /\ i > Len(p) /\ c[i] = q[i - Len(p)]
      /\ c \in Seq(Entry)
  <2> HIDE DEF p, q
  <2> QED
    BY <1>2, ConcatEntries
<1>4. /\ DOMAIN p = 1 .. Len(p) /\ DOMAIN c = 1 .. Len(c)
      /\ Len(p) \in Nat /\ Len(c) \in Nat
  BY <1>2, <1>3, LenProperties
<1> HIDE DEF p, q, c
<1>5. /\ Increasing(p) /\ Increasing(q) /\ \A i \in DOMAIN p : Above(q, p[i].seq)
  BY DEF Line, Ordered, p, q
<1>6. Increasing(c)
  <2> SUFFICES ASSUME NEW i \in DOMAIN c, NEW j \in DOMAIN c, i < j
               PROVE  c[i].seq < c[j].seq
    BY DEF Increasing
  <2>1. CASE i \in DOMAIN p /\ c[i] = p[i] /\ j \in DOMAIN p /\ c[j] = p[j]
    BY <1>5, <2>1 DEF Increasing
  <2>2. CASE /\ i \in DOMAIN p /\ c[i] = p[i]
             /\ j - Len(p) \in DOMAIN q /\ c[j] = q[j - Len(p)]
    <3>1. q[j - Len(p)].seq > p[i].seq
      BY <1>5, <2>2 DEF Above
    <3>2. q[j - Len(p)].seq \in Nat /\ p[i].seq \in Nat
      BY <1>2, <2>2, EntryType
    <3> QED
      BY <2>2, <3>1, <3>2
  <2>3. CASE /\ i - Len(p) \in DOMAIN q /\ i > Len(p) /\ c[i] = q[i - Len(p)]
             /\ j - Len(p) \in DOMAIN q /\ c[j] = q[j - Len(p)]
    <3>1. i - Len(p) < j - Len(p)
      BY <1>4
    <3> QED
      BY <1>5, <2>3, <3>1 DEF Increasing
  <2>4. CASE i > Len(p) /\ j \in DOMAIN p
    BY <1>4, <2>4
  <2> QED
    BY <1>3, <2>1, <2>2, <2>3, <2>4
<1>7. \A n : Above(p, n) /\ Above(q, n) => Above(c, n)
  BY <1>3 DEF Above
<1>8. \A n : UpTo(p, n) /\ UpTo(q, n) => UpTo(c, n)
  BY <1>3 DEF UpTo
<1>9. \A i \in DOMAIN <<>> : FALSE
  OBVIOUS
<1>10. Ordered(s)'
  BY <1>1, <1>6, <1>9, EmptyLine DEF Ordered
<1>11. Unpublished(s)' /\ Issued(s)' /\ Ended(s)'
  BY <1>1, <1>7, <1>8, EmptyLine DEF Line, Unpublished, Issued, Ended, p, q
<1> QED
  BY <1>10, <1>11 DEF Line

\* The watermark moves to the number the drain resolved its work up to.
LEMMA PublishLine ==
  ASSUME TypeOK, NEW s \in Shard, Line(s), DrainPublish(s)
  PROVE  Line(s)' /\ durable'[s] >= durable[s] /\ pub'[s] <= durable'[s]
<1>1. /\ work'[s] = work[s] /\ buf'[s] = buf[s] /\ pub'[s] = pub[s]
      /\ nextSeq'[s] = nextSeq[s] /\ durable'[s] = Larger(durable[s], pub[s])
      /\ dpc[s] = "publish"
  BY DEF DrainPublish, TypeOK, queueVars
<1>2. durable'[s] = durable[s] \/ durable'[s] = pub[s]
  BY <1>1 DEF Larger
<1>3. Ordered(s)' /\ Unpublished(s)' /\ Issued(s)' /\ Ended(s)'
  BY <1>1, <1>2 DEF Line, Ordered, Unpublished, Issued, Ended
<1>4. durable[s] \in Nat /\ pub[s] \in Nat
  BY LineType
<1> QED
  BY <1>1, <1>3, <1>4, LargerType DEF Line

\* Every step of a drain keeps the line of its shard, and the watermark does
\* not move back.
LEMMA DrainLine ==
  ASSUME TypeOK, DrainHoldsWork, LineInv, NEW s \in Shard, Drain(s)
  PROVE  /\ \A k \in Shard : Line(k)'
         /\ \A k \in Shard : durable'[k] >= durable[k]
<1>1. Line(s)
  BY DEF LineInv
<1>2. Line(s)'
  BY <1>1, SwapLine, StayLine, BatchLine, HeadLine, RequeueLine, PublishLine DEF Drain
<1>3. durable'[s] >= durable[s]
  <2>1. CASE DrainPublish(s)
    BY <1>1, <2>1, PublishLine
  <2>2. CASE ~ DrainPublish(s)
    <3>1. durable' = durable
      BY <2>2 DEF Drain, DrainSwap, DrainSync, DrainBatch, DrainBatchFails, Retry,
                  RetryFails, Reject, Requeue, DrainNotify
    <3> QED
      BY <3>1, LineType
  <2> QED
    BY <2>1, <2>2
<1>4. ASSUME NEW k \in Shard, k # s
      PROVE  Line(k)' /\ durable'[k] >= durable[k]
  <2>1. nextSeq' = nextSeq
    BY DrainFrame
  <2>2. Line(k)
    BY DEF LineInv
  <2> QED
    BY <1>4, <2>1, <2>2, DrainElsewhere, LineFrame, LineType
<1> QED
  BY <1>2, <1>3, <1>4

\* A drain runs in an engine that has come up, and leaves it so.
LEMMA DrainInvLine ==
  ASSUME TypeOK, DrainHoldsWork, LineInv, NEW s \in Shard, Drain(s)
  PROVE  LineInv'
<1>1. \A k \in Shard : Line(k)' /\ durable'[k] >= durable[k]
  BY DrainLine
<1>2. nextSeq' = nextSeq /\ phase' = phase /\ spc' = spc /\ smark' = smark
  BY DrainFrame
<1>3. phase \notin {"down", "replay", "boot"}
  <2>1. CASE dpc[s] = "idle"
    BY <2>1 DEF Drain, DrainSwap, Running, DrainSync, DrainBatch, DrainBatchFails,
                Retry, RetryFails, Reject, Requeue, DrainPublish, DrainNotify
  <2>2. CASE dpc[s] # "idle"
    BY <2>2 DEF LineInv, Dormant
  <2> QED
    BY <2>1, <2>2
<1>4. Dormant'
  BY <1>2, <1>3 DEF Dormant
<1>5. Gate'
  <2> SUFFICES ASSUME NEW p \in Snapshotter, spc[p] = "held", NEW k \in Shard
               PROVE  durable'[k] >= smark[p][k]
    BY <1>2 DEF Gate, LineInv
  <2>1. durable[k] >= smark[p][k]
    BY DEF Gate, LineInv
  <2>2. durable[k] \in Nat /\ smark[p][k] \in Nat
    BY DEF TypeOK
  <2>3. durable'[k] >= durable[k] /\ durable'[k] \in Nat
    <3>1. TypeOK'
      BY DrainType
    <3> QED
      BY <1>1, <3>1 DEF TypeOK
  <2> QED
    BY <2>1, <2>2, <2>3
<1> QED
  BY <1>1, <1>4, <1>5 DEF LineInv

\* A submission joins the end of the line, with a number never issued; the
\* gate is open.
LEMMA SubmitLine ==
  ASSUME TypeOK, LineInv,
         NEW c \in Client, NEW r \in Request, NEW waits \in BOOLEAN,
         Submit(c, r, waits)
  PROVE  LineInv'
<1> DEFINE s == ShardOf(r)
           e == [seq |-> nextSeq[s] + 1, req |-> r]
<1>1. s \in Shard /\ nextSeq[s] \in Nat /\ e \in Entry /\ e.seq = nextSeq[s] + 1
  BY RoutingType DEF TypeOK, Entry
<1>2. /\ phase = "up" /\ phase' = phase /\ ~ Paused /\ UNCHANGED drainVars
      /\ UNCHANGED <<durable, spc, smark>>
      /\ nextSeq' = [nextSeq EXCEPT ![s] = nextSeq[s] + 1]
      /\ buf' = [buf EXCEPT ![s] = Append(@, e)]
  BY DEF Submit
<1> HIDE DEF s, e
<1>3. /\ nextSeq'[s] = nextSeq[s] + 1 /\ buf'[s] = Append(buf[s], e)
      /\ work'[s] = work[s] /\ pub'[s] = pub[s] /\ durable'[s] = durable[s]
      /\ dpc'[s] = dpc[s]
  BY <1>1, <1>2 DEF TypeOK, drainVars
<1>4. Line(s)
  BY <1>1 DEF LineInv
<1>5. buf[s] \in Seq(Entry) /\ work[s] \in Seq(Entry)
  BY <1>1, LineType
<1>6. /\ Increasing(buf'[s]) /\ UpTo(buf'[s], nextSeq[s] + 1)
      /\ \A m \in Nat : m <= nextSeq[s] /\ Above(buf[s], m) => Above(buf'[s], m)
  BY <1>1, <1>3, <1>4, <1>5, AppendLine DEF Line, Ordered, Issued
<1>7. \A i \in DOMAIN work[s] : work[s][i].seq \in Nat /\ work[s][i].seq <= nextSeq[s]
  BY <1>4, <1>5, EntryType DEF Line, Issued, UpTo
<1>8. Ordered(s)'
  BY <1>3, <1>4, <1>6, <1>7 DEF Line, Ordered
<1>9. Unpublished(s)'
  BY <1>1, <1>3, <1>4, <1>6, LineType DEF Line, Unpublished, Issued
<1>10. Issued(s)' /\ Ended(s)'
  <2>1. UpTo(work[s], nextSeq[s] + 1)
    BY <1>1, <1>7 DEF UpTo
  <2>2. durable[s] \in Nat /\ pub[s] \in Nat
    BY <1>1, LineType
  <2> QED
    BY <1>1, <1>3, <1>4, <1>6, <2>1, <2>2 DEF Line, Issued, Ended
<1>11. ASSUME NEW k \in Shard, k # s PROVE Line(k)'
  <2>1. nextSeq'[k] = nextSeq[k] /\ buf'[k] = buf[k]
    BY <1>1, <1>2, <1>11 DEF TypeOK
  <2>2. Line(k)
    BY DEF LineInv
  <2> QED
    BY <1>2, <2>1, <2>2, LineFrame DEF drainVars
<1>12. Dormant' /\ Gate'
  BY <1>2 DEF Dormant, Gate, Paused
<1> QED
  BY <1>8, <1>9, <1>10, <1>11, <1>12 DEF LineInv, Line

\* What the process held is gone, and with it the line and the gate.
LEMMA LostLine ==
  ASSUME LoseMemory
  PROVE  LineInv'
<1>1. \A k \in Shard : /\ work'[k] = <<>> /\ buf'[k] = <<>> /\ durable'[k] = 0
                       /\ pub'[k] = 0 /\ nextSeq'[k] = 0 /\ dpc'[k] = "idle"
  BY DEF LoseMemory
<1>2. \A k \in Shard : Line(k)'
  BY <1>1, LineEmpty
<1>3. \A p \in Snapshotter : spc'[p] = "idle"
  BY DEF LoseMemory
<1> QED
  BY <1>1, <1>2, <1>3 DEF LineInv, Dormant, Gate

\* The gate: a backup that closes it reads what was issued, and is let in when
\* all of it is durable.
LEMMA PauseLine ==
  ASSUME TypeOK, LineInv, NEW p \in Snapshotter,
         PauseAdmissions(p) \/ SnapshotReady(p) \/ ResumeAdmissions(p)
  PROVE  LineInv'
<1>1. /\ UNCHANGED <<work, buf, durable, pub, nextSeq, dpc, phase>>
  BY DEF PauseAdmissions, SnapshotReady, ResumeAdmissions, drainVars, queueVars
<1>2. \A k \in Shard : Line(k)'
  BY <1>1, LineFrame DEF LineInv
<1>3. Dormant'
  BY <1>1 DEF LineInv, Dormant
<1>4. \A q \in Snapshotter \ {p} : spc'[q] = spc[q] /\ smark'[q] = smark[q]
  BY DEF PauseAdmissions, SnapshotReady, ResumeAdmissions, TypeOK
<1>5. /\ spc'[p] # "idle" => phase = "up" /\ smark'[p] = nextSeq
      /\ spc'[p] = "held" => \A s \in Shard : durable[s] >= smark'[p][s]
  BY DEF PauseAdmissions, SnapshotReady, ResumeAdmissions, TypeOK, LineInv, Gate
<1>6. Gate'
  BY <1>1, <1>4, <1>5 DEF LineInv, Gate
<1> QED
  BY <1>2, <1>3, <1>6 DEF LineInv

\* Callers that wait, and maintenance, leave the line alone.
LEMMA WaitLine ==
  ASSUME LineInv, UNCHANGED <<work, buf, durable, pub, nextSeq, dpc, phase, spc, smark>>
  PROVE  LineInv'
<1>1. \A k \in Shard : Line(k)'
  BY LineFrame DEF LineInv
<1> QED
  BY <1>1 DEF LineInv, Dormant, Gate

\* Starting: nothing is in line, and what was issued is durable when it is up.
LEMMA StartLine ==
  ASSUME TypeOK, TypeOK', LineInv, StartEngine \/ Start
  PROVE  LineInv'
<1>1. CASE StartEngine
  <2>1. UNCHANGED <<work, buf, durable, pub, nextSeq, dpc, spc, smark>>
    BY <1>1 DEF StartEngine, queueVars, drainVars, agentVars
  <2>2. phase = "down" /\ phase' = "replay"
    BY <1>1 DEF StartEngine
  <2>3. \A k \in Shard : Line(k)'
    BY <2>1, LineFrame DEF LineInv
  <2> QED
    BY <2>1, <2>2, <2>3 DEF LineInv, Dormant, Gate
<1>2. ASSUME NEW s \in Shard, ReplayShard(s) PROVE LineInv'
  <2>1. UNCHANGED <<work, buf, durable, pub, dpc, phase, spc, smark>> /\ phase = "replay"
    BY <1>2 DEF ReplayShard, drainVars, agentVars
  <2>2. \A k \in Shard : buf[k] = <<>> /\ work[k] = <<>> /\ durable[k] = 0 /\ pub[k] = 0
    BY <2>1 DEF LineInv, Dormant, Line, Ended
  <2>3. \A k \in Shard : nextSeq'[k] \in Nat
    BY DEF TypeOK
  <2>4. \A k \in Shard : Line(k)'
    BY <2>1, <2>2, <2>3, LineEmpty
  <2> QED
    BY <2>1, <2>4 DEF LineInv, Dormant, Gate
<1>3. ASSUME NEW s \in Shard, ReplayFails(s) PROVE LineInv'
  BY <1>3, LostLine DEF ReplayFails
<1>4. CASE StartFinish
  <2>1. /\ UNCHANGED <<work, buf, pub, dpc, nextSeq, spc, smark>>
        /\ phase = "replay" /\ phase' = "boot" /\ durable' = nextSeq
    BY <1>4 DEF StartFinish, drainVars, queueVars, agentVars
  <2>2. \A k \in Shard : buf[k] = <<>> /\ work[k] = <<>> /\ pub[k] = 0
    BY <2>1 DEF LineInv, Dormant, Line, Ended
  <2>3. \A k \in Shard : nextSeq[k] \in Nat
    BY DEF TypeOK
  <2>4. \A k \in Shard : Line(k)'
    BY <2>1, <2>2, <2>3, LineEmpty
  <2> QED
    BY <2>1, <2>4 DEF LineInv, Dormant, Gate
<1>5. CASE SpawnFlushers
  <2>1. /\ UNCHANGED <<work, buf, durable, pub, nextSeq, dpc, spc, smark>>
        /\ phase = "boot" /\ phase' = "up"
    BY <1>5 DEF SpawnFlushers, queueVars, drainVars, agentVars
  <2>2. \A k \in Shard : Line(k)'
    BY <2>1, LineFrame DEF LineInv
  <2> QED
    BY <2>1, <2>2 DEF LineInv, Dormant, Gate
<1> QED
  BY <1>1, <1>2, <1>3, <1>4, <1>5 DEF Start

\* Stopping: shutdown waits for the gate to open, since it takes the engine.
LEMMA StopLine ==
  ASSUME LineInv,
         Shutdown \/ RequestShutdown \/ JoinFlushers \/ ShutdownDone \/ DropEngine
  PROVE  LineInv'
<1>1. CASE Shutdown \/ RequestShutdown \/ JoinFlushers
  <2>1. UNCHANGED <<work, buf, durable, pub, nextSeq, dpc, spc, smark>>
    BY <1>1 DEF Shutdown, RequestShutdown, JoinFlushers, queueVars, drainVars, agentVars
  <2>2. /\ phase' \in {"closing", "joining", "final"}
        /\ phase = "up" => ~ Paused
    BY <1>1 DEF Shutdown, RequestShutdown, JoinFlushers, Unshared
  <2>3. \A k \in Shard : Line(k)'
    BY <2>1, LineFrame DEF LineInv
  <2>4. Gate'
    BY <2>1, <2>2 DEF LineInv, Gate, Paused
  <2> QED
    BY <2>1, <2>2, <2>3, <2>4 DEF LineInv, Dormant
<1>2. CASE ShutdownDone \/ DropEngine
  BY <1>2, LostLine DEF ShutdownDone, DropEngine
<1> QED
  BY <1>1, <1>2

\* Every step keeps the line.
LEMMA NextLine ==
  ASSUME TypeOK, DrainHoldsWork, TypeOK', LineInv, [Next]_vars
  PROVE  LineInv'
<1>1. CASE \E c \in Client, r \in Request, waits \in BOOLEAN : Submit(c, r, waits)
  BY <1>1, SubmitLine
<1>2. CASE (\E c \in Client : Wait(c)) \/ Maintenance \/ UNCHANGED vars
  <2>1. UNCHANGED <<work, buf, durable, pub, nextSeq, dpc, phase, spc, smark>>
    BY <1>2 DEF Wait, WaitReturn, WaitCheck, WaitPark, Maintenance, MaintBegin,
                MaintAbort, MaintCheckpoint, MaintTruncate, vars, queueVars,
                drainVars, agentVars
  <2> QED
    BY <2>1, WaitLine
<1>3. CASE \E s \in Shard : Drain(s)
  BY <1>3, DrainInvLine
<1>4. CASE \E p \in Snapshotter :
             PauseAdmissions(p) \/ SnapshotReady(p) \/ ResumeAdmissions(p)
  BY <1>4, PauseLine
<1>5. CASE StartEngine \/ Start
  BY <1>5, StartLine
<1>6. CASE Shutdown \/ RequestShutdown \/ JoinFlushers \/ ShutdownDone \/ DropEngine
  BY <1>6, StopLine
<1>7. CASE ProcessCrash \/ PowerLoss
  BY <1>7, LostLine DEF ProcessCrash, PowerLoss
<1> QED
  BY <1>1, <1>2, <1>3, <1>4, <1>5, <1>6, <1>7 DEF Next

\* The line of every shard is in order, unpublished and issued, in every
\* reachable state, whatever fails.
THEOREM LineCorrect == Spec => [](TypeOK /\ DrainHoldsWork /\ LineInv)
<1>1. Init => LineInv
  <2> SUFFICES ASSUME Init PROVE LineInv
    OBVIOUS
  <2>1. /\ \A k \in Shard : /\ work[k] = <<>> /\ buf[k] = <<>> /\ durable[k] = 0
                           /\ pub[k] = 0 /\ nextSeq[k] = 0 /\ dpc[k] = "idle"
        /\ \A p \in Snapshotter : spc[p] = "idle"
    BY DEF Init
  <2>2. \A i \in DOMAIN <<>> : FALSE
    OBVIOUS
  <2>3. \A k \in Shard : Line(k)
    BY <2>1, <2>2, EmptyLine DEF Line, Ordered, Unpublished, Issued, Ended
  <2> QED
    BY <2>1, <2>3 DEF LineInv, Dormant, Gate
<1>2. /\ TypeOK /\ DrainHoldsWork /\ LineInv
      /\ TypeOK' /\ DrainHoldsWork' /\ [Next]_vars
      => LineInv'
  BY NextLine
<1> QED
  BY <1>1, <1>2, TypeCorrect, PTL DEF Spec

\* A line with no number issued past the watermark is empty.
LEMMA NothingLeft ==
  ASSUME TypeOK, LineInv, NEW s \in Shard, durable[s] >= nextSeq[s]
  PROVE  buf[s] = <<>> /\ work[s] = <<>>
<1>1. Line(s) /\ durable[s] \in Nat /\ nextSeq[s] \in Nat
  BY LineType DEF LineInv
<1>2. ASSUME NEW q \in Seq(Entry), Above(q, durable[s]), UpTo(q, nextSeq[s])
      PROVE  q = <<>>
  <2>1. \A i \in DOMAIN q : q[i].seq \in Nat
    BY EntryType
  <2>2. DOMAIN q = {}
    BY <1>1, <1>2, <2>1 DEF Above, UpTo
  <2> QED
    BY <2>2, LenProperties, EmptySeq
<1> QED
  BY <1>1, <1>2, LineType DEF Line, Unpublished, Issued

\* While a backup holds the gate of pause_admissions nothing is queued or
\* being drained, in every environment: what is issued is durable, and what is
\* queued or being drained would be issued and not durable.
THEOREM QuietHolds == Spec => []QuietWhileHeld
<1>1. TypeOK /\ LineInv => QuietWhileHeld
  <2> SUFFICES ASSUME TypeOK, LineInv,
                      NEW p \in Snapshotter, spc[p] = "held", NEW s \in Shard
               PROVE  buf[s] = <<>> /\ work[s] = <<>>
    BY DEF QuietWhileHeld
  <2>1. durable[s] >= nextSeq[s]
    BY DEF LineInv, Gate
  <2> QED
    BY <2>1, NothingLeft
<1> QED
  BY <1>1, LineCorrect, PTL

-----------------------------------------------------------------------------
(* The entries of a queue, wherever they are in it.                        *)

Entries(q) == {q[i] : i \in DOMAIN q}

\* The entries of the queues that the steps build.
LEMMA EntriesType ==
  ASSUME NEW q \in Seq(Entry)
  PROVE  /\ Entries(q) \subseteq Entry
         /\ \A e \in Entries(q) : e.seq \in Nat /\ e.req \in Request
         /\ Entries(<<>>) = {}
         /\ \A n : Above(q, n) <=> \A e \in Entries(q) : e.seq > n
         /\ \A e \in Entry : Entries(Append(q, e)) = Entries(q) \cup {e}
         /\ \A p \in Seq(Entry) : Entries(p \o q) = Entries(p) \cup Entries(q)
         /\ q # <<>> => Entries(q) = {Head(q)} \cup Entries(Tail(q))
<1>1. /\ Entries(q) \subseteq Entry
      /\ \A e \in Entries(q) : e.seq \in Nat /\ e.req \in Request
  BY EntryType DEF Entries
<1>2. Entries(<<>>) = {}
  BY DEF Entries
<1>3. \A n : Above(q, n) <=> \A e \in Entries(q) : e.seq > n
  BY DEF Above, Entries
<1>4. ASSUME NEW e \in Entry PROVE Entries(Append(q, e)) = Entries(q) \cup {e}
  <2> DEFINE a == Append(q, e)
  <2>1. /\ Len(q) \in Nat /\ DOMAIN q = 1 .. Len(q) /\ DOMAIN a = 1 .. Len(q) + 1
        /\ a[Len(q) + 1] = e
    BY LenProperties, AppendProperties
  <2>2. \A i \in DOMAIN q : a[i] = q[i] /\ i \in DOMAIN a
    BY <2>1, AppendProperties
  <2>3. Len(q) + 1 \in DOMAIN a /\ \A i \in DOMAIN a : i \in DOMAIN q \/ i = Len(q) + 1
    BY <2>1
  <2> HIDE DEF a
  <2>4. Entries(a) = Entries(q) \cup {e}
    BY <2>1, <2>2, <2>3 DEF Entries
  <2> QED
    BY <2>4 DEF a
<1>5. ASSUME NEW p \in Seq(Entry) PROVE Entries(p \o q) = Entries(p) \cup Entries(q)
  <2> DEFINE c == p \o q
  <2>1. \A i \in DOMAIN c :
           \/ i \in DOMAIN p /\ c[i] = p[i]
           \/ i - Len(p) \in DOMAIN q /\ c[i] = q[i - Len(p)]
    BY ConcatEntries
  <2>2. /\ \A i \in DOMAIN p : i \in DOMAIN c /\ c[i] = p[i]
        /\ \A j \in DOMAIN q : Len(p) + j \in DOMAIN c /\ c[Len(p) + j] = q[j]
    BY ConcatEntries
  <2> HIDE DEF c
  <2>3. Entries(c) = Entries(p) \cup Entries(q)
    BY <2>1, <2>2 DEF Entries
  <2> QED
    BY <2>3 DEF c
<1>6. ASSUME q # <<>> PROVE Entries(q) = {Head(q)} \cup Entries(Tail(q))
  <2> DEFINE t == Tail(q)
  <2>1. /\ Len(q) \in Nat \ {0} /\ DOMAIN q = 1 .. Len(q) /\ Head(q) = q[1]
        /\ t \in Seq(Entry) /\ Len(t) = Len(q) - 1
        /\ \A i \in 1 .. Len(q) - 1 : t[i] = q[i + 1]
    BY <1>6, LenProperties, EmptySeq, HeadTailProperties
  <2>2. DOMAIN t = 1 .. Len(q) - 1
    BY <2>1, LenProperties
  <2> HIDE DEF t
  <2>3. \A i \in DOMAIN t : i + 1 \in DOMAIN q /\ t[i] = q[i + 1]
    BY <2>1, <2>2
  <2>4. 1 \in DOMAIN q /\ \A j \in DOMAIN q \ {1} : j - 1 \in DOMAIN t /\ t[j - 1] = q[j]
    BY <2>1, <2>2
  <2>5. \A e \in Entries(q) : e = Head(q) \/ e \in Entries(t)
    <3> SUFFICES ASSUME NEW j \in DOMAIN q PROVE q[j] = Head(q) \/ q[j] \in Entries(t)
      BY DEF Entries
    <3> QED
      BY <2>1, <2>4 DEF Entries
  <2>6. Head(q) \in Entries(q) /\ \A e \in Entries(t) : e \in Entries(q)
    BY <2>1, <2>3, <2>4 DEF Entries
  <2>7. Entries(q) = {Head(q)} \cup Entries(t)
    BY <2>5, <2>6
  <2> QED
    BY <2>7 DEF t
<1> QED
  BY <1>1, <1>2, <1>3, <1>4, <1>5, <1>6

-----------------------------------------------------------------------------
(* The checkpoint passes no write without an outcome.  When remember_batch *)
(* fails after its commit the requests keep their places in the line while *)
(* the checkpoint covers them; the store holds them then.                  *)

\* How often the store of shard s holds request r.
AppliedAt(s, r) == db[DomainOf(s)].applied[r]

\* An entry of the line of shard s lies above its checkpoint, or was committed
\* by a batch that reported failure.
AheadAt(s, e) ==
  \/ e.seq > Ckpt(s)
  \/ "postcommit" \in Faults /\ AppliedAt(s, e.req) > 0

AllAhead(s, q) == \A e \in Entries(q) : AheadAt(s, e)

\* A shard hands out numbers once it is replayed ...
Counting(s) == phase # "down" /\ ~ (phase = "replay" /\ s \in unreplayed)

\* ... and its checkpoint then covers numbers issued only.
Numbered(s) == Counting(s) => Ckpt(s) <= nextSeq[s]

AheadInv ==
  \A s \in Shard : AllAhead(s, work[s]) /\ AllAhead(s, buf[s]) /\ Numbered(s)

\* What one committed transaction does to the checkpoints and the requests.
LEMMA CommitExact ==
  ASSUME TypeOK, NEW s \in Shard, NEW add \in [Request -> Nat], NEW n \in Nat,
         CommitTo(s, add, n)
  PROVE  /\ Ckpt(s)' = Larger(Ckpt(s), n)
         /\ \A k \in Shard \ {s} : Ckpt(k)' = Ckpt(k)
         /\ \A r \in Request : AppliedAt(s, r)' = AppliedAt(s, r) + add[r]
         /\ \A k \in Shard, r \in Request : AppliedAt(k, r)' >= AppliedAt(k, r)
<1> DEFINE d   == DomainOf(s)
           ap  == [r \in Request |-> db[d].applied[r] + add[r]]
           ck  == [db[d].ckpt EXCEPT ![s] = Larger(@, n)]
           new == [applied |-> ap, ckpt |-> ck]
<1>1. d \in Domain /\ \A k \in Shard : DomainOf(k) \in Domain
  BY RoutingType
<1>2. \A e \in Domain : db[e].applied \in [Request -> Nat] /\ db[e].ckpt \in [Shard -> Nat]
  BY DEF TypeOK, State
<1>3. db' = [db EXCEPT ![d] = new]
  BY DEF CommitTo
<1>4. ck[s] = Larger(db[d].ckpt[s], n) /\ \A k \in Shard \ {s} : ck[k] = db[d].ckpt[k]
  BY <1>1, <1>2
<1>5. \A r \in Request : ap[r] = db[d].applied[r] + add[r] /\ ap[r] >= db[d].applied[r]
  BY <1>1, <1>2
<1>6. new.applied = ap /\ new.ckpt = ck
  OBVIOUS
<1> HIDE DEF new, ap, ck
<1>7. db'[d] = new /\ \A e \in Domain \ {d} : db'[e] = db[e]
  BY <1>1, <1>3 DEF TypeOK
<1>8. Ckpt(s)' = Larger(Ckpt(s), n)
  BY <1>4, <1>6, <1>7 DEF Ckpt
<1>9. ASSUME NEW k \in Shard \ {s} PROVE Ckpt(k)' = Ckpt(k)
  <2>1. CASE DomainOf(k) = d
    BY <1>4, <1>6, <1>7, <2>1 DEF Ckpt
  <2>2. CASE DomainOf(k) # d
    BY <1>1, <1>7, <2>2 DEF Ckpt
  <2> QED
    BY <2>1, <2>2
<1>10. \A r \in Request : AppliedAt(s, r)' = AppliedAt(s, r) + add[r]
  BY <1>5, <1>6, <1>7 DEF AppliedAt
<1>11. ASSUME NEW k \in Shard, NEW r \in Request PROVE AppliedAt(k, r)' >= AppliedAt(k, r)
  <2>1. CASE DomainOf(k) = d
    BY <1>5, <1>6, <1>7, <2>1 DEF AppliedAt
  <2>2. CASE DomainOf(k) # d
    <3>1. AppliedAt(k, r)' = AppliedAt(k, r)
      BY <1>1, <1>7, <2>2 DEF AppliedAt
    <3>2. AppliedAt(k, r) \in Nat
      BY <1>1, <1>2 DEF AppliedAt
    <3> QED
      BY <3>1, <3>2
  <2> QED
    BY <2>1, <2>2
<1> QED
  BY <1>8, <1>9, <1>10, <1>11

\* Requests are counted by natural numbers.
LEMMA AppliedType ==
  ASSUME TypeOK
  PROVE  \A k \in Shard, r \in Request : AppliedAt(k, r) \in Nat
BY RoutingType DEF TypeOK, State, AppliedAt

\* A batch counts each request of the positions it takes.
LEMMA CopiesCount ==
  ASSUME NEW q, NEW I, IsFiniteSet(I), NEW i \in I, q[i].req \in Request
  PROVE  Copies(q, I)[q[i].req] > 0
<1> DEFINE T == {j \in I : q[j].req = q[i].req}
<1>1. IsFiniteSet(T) /\ i \in T
  BY FS_Subset
<1>2. Cardinality(T) \in Nat /\ Cardinality(T) # 0
  BY <1>1, FS_CardinalityType, FS_EmptySet
<1>3. Copies(q, I)[q[i].req] = Cardinality(T)
  BY DEF Copies
<1> HIDE DEF T
<1> QED
  BY <1>2, <1>3

\* An entry stays ahead while its checkpoint stands still.
LEMMA AheadFrame ==
  ASSUME TypeOK, NEW k \in Shard, NEW e \in Entry, AheadAt(k, e),
         Ckpt(k)' = Ckpt(k),
         \A r \in Request : AppliedAt(k, r)' >= AppliedAt(k, r),
         TypeOK'
  PROVE  AheadAt(k, e)'
<1>1. e.req \in Request
  BY DEF Entry
<1>2. AppliedAt(k, e.req) \in Nat /\ AppliedAt(k, e.req)' \in Nat
  <2>1. AppliedAt(k, e.req) \in Nat
    BY <1>1, AppliedType
  <2>2. db' \in [Domain -> State] /\ DomainOf(k) \in Domain
    BY RoutingType DEF TypeOK
  <2> QED
    BY <1>1, <2>1, <2>2 DEF State, AppliedAt
<1>3. AppliedAt(k, e.req)' >= AppliedAt(k, e.req)
  BY <1>1
<1>4. AppliedAt(k, e.req) > 0 => AppliedAt(k, e.req)' > 0
  BY <1>2, <1>3
<1> QED
  BY <1>4 DEF AheadAt

\* A transaction up to n leaves ahead what lies above n.
LEMMA AheadCommit ==
  ASSUME TypeOK, NEW s \in Shard, NEW add \in [Request -> Nat], NEW n \in Nat,
         CommitTo(s, add, n), NEW e \in Entry, AheadAt(s, e), e.seq > n
  PROVE  AheadAt(s, e)'
<1>1. e.req \in Request /\ e.seq \in Nat
  BY DEF Entry
<1>2. Ckpt(s)' = Larger(Ckpt(s), n) /\ AppliedAt(s, e.req)' = AppliedAt(s, e.req) + add[e.req]
  BY <1>1, CommitExact
<1>3. Ckpt(s) \in Nat /\ AppliedAt(s, e.req) \in Nat /\ add[e.req] \in Nat
  BY <1>1, CkptType, AppliedType
<1>4. e.seq > Ckpt(s) => e.seq > Ckpt(s)'
  BY <1>1, <1>2, <1>3 DEF Larger
<1>5. AppliedAt(s, e.req) > 0 => AppliedAt(s, e.req)' > 0
  BY <1>2, <1>3
<1> QED
  BY <1>4, <1>5 DEF AheadAt

\* A batch that commits holds each request it took.
LEMMA CommitCounts ==
  ASSUME TypeOK, NEW s \in Shard, NEW n \in Nat, NEW q, NEW I, IsFiniteSet(I),
         CommitTo(s, Copies(q, I), n), NEW i \in I, q[i].req \in Request
  PROVE  AppliedAt(s, q[i].req)' > 0
<1> DEFINE r == q[i].req
<1>1. Copies(q, I) \in [Request -> Nat] /\ Copies(q, I)[r] > 0
  BY CopiesType, CopiesCount
<1>2. AppliedAt(s, r)' = AppliedAt(s, r) + Copies(q, I)[r]
  BY <1>1, CommitExact
<1>3. AppliedAt(s, r) \in Nat /\ Copies(q, I)[r] \in Nat
  BY <1>1, AppliedType
<1> QED
  BY <1>1, <1>2, <1>3

\* What the batches of a drain are: which requests they take, up to where.
LEMMA BatchType ==
  ASSUME TypeOK, DrainHoldsWork, LineInv, NEW s \in Shard,
         dpc[s] \in {"batch", "retry", "mark"}
  PROVE  /\ work[s] \in Seq(Entry) /\ work[s] # <<>> /\ buf[s] \in Seq(Entry)
         /\ Increasing(work[s]) /\ 1 \in DOMAIN work[s]
         /\ Len(work[s]) \in DOMAIN work[s]
         /\ Head(work[s]) = work[s][1]
         /\ Head(work[s]).seq \in Nat /\ work[s][Len(work[s])].seq \in Nat
         /\ Head(work[s]).seq <= nextSeq[s] /\ work[s][Len(work[s])].seq <= nextSeq[s]
         /\ Above(buf[s], work[s][Len(work[s])].seq) /\ Above(buf[s], Head(work[s]).seq)
         /\ Above(Tail(work[s]), Head(work[s]).seq)
         /\ \A i \in DOMAIN work[s] \ {1} : work[s][i].seq > Head(work[s]).seq
<1>1. work[s] \in Seq(Entry) /\ work[s] # <<>> /\ buf[s] \in Seq(Entry)
  BY LineType DEF DrainHoldsWork
<1>2. Line(s)
  BY DEF LineInv
<1>3. Increasing(work[s])
  BY <1>2 DEF Line, Ordered
<1>4. Len(work[s]) \in DOMAIN work[s] /\ work[s][Len(work[s])].seq \in Nat
  BY <1>1, <1>3, LastLine
<1>5. /\ Head(work[s]) = work[s][1] /\ 1 \in DOMAIN work[s]
      /\ Above(Tail(work[s]), Head(work[s]).seq)
  BY <1>1, <1>3, TailLine
<1>6. Head(work[s]).seq \in Nat /\ \A i \in DOMAIN work[s] : i \in Nat \ {0} /\ work[s][i].seq \in Nat
  BY <1>1, <1>5, EntryType
<1>7. ASSUME NEW i \in DOMAIN work[s] \ {1} PROVE work[s][i].seq > Head(work[s]).seq
  <2>1. 1 < i
    BY <1>6
  <2>2. work[s][1].seq < work[s][i].seq
    BY <1>3, <1>5, <2>1 DEF Increasing
  <2> QED
    BY <1>5, <1>6, <2>2
<1> QED
  BY <1>1, <1>2, <1>3, <1>4, <1>5, <1>6, <1>7 DEF Line, Ordered, Issued, UpTo

\* The batches of a drain are transactions of its shard.
LEMMA BatchCopies ==
  ASSUME TypeOK, NEW s \in Shard, work[s] # <<>>
  PROVE  \A I \in {DOMAIN work[s], {1}, {}} : Copies(work[s], I) \in [Request -> Nat]
BY WorkType

\* A drain that commits nothing leaves the stores alone; any other makes one
\* transaction of its shard, of a number in its line.
LEMMA DrainCommits ==
  ASSUME TypeOK, DrainHoldsWork, LineInv, NEW s \in Shard, Drain(s)
  PROVE  \/ UNCHANGED storeVars
         \/ \E I \in {DOMAIN work[s], {1}, {}}, n \in Nat :
              /\ CommitTo(s, Copies(work[s], I), n)
              /\ Copies(work[s], I) \in [Request -> Nat]
              /\ n <= nextSeq[s]
<1>1. CASE DrainSwap(s) \/ DrainSync(s) \/ Requeue(s) \/ DrainPublish(s) \/ DrainNotify(s)
  BY <1>1 DEF DrainSwap, DrainSync, Requeue, DrainPublish, DrainNotify
<1>2. CASE DrainBatch(s) \/ DrainBatchFails(s)
  <2>1. dpc[s] = "batch"
    BY <1>2 DEF DrainBatch, DrainBatchFails
  <2>2. \/ UNCHANGED storeVars
        \/ CommitTo(s, Copies(work[s], DOMAIN work[s]), work[s][Len(work[s])].seq)
    BY <1>2 DEF DrainBatch, DrainBatchFails
  <2> QED
    BY <2>1, <2>2, BatchType, BatchCopies
<1>3. CASE Retry(s) \/ RetryFails(s)
  <2>1. dpc[s] = "retry"
    BY <1>3 DEF Retry, RetryFails
  <2>2. \/ UNCHANGED storeVars
        \/ CommitTo(s, Copies(work[s], {1}), Head(work[s]).seq)
    BY <1>3 DEF Retry, RetryFails
  <2> QED
    BY <2>1, <2>2, BatchType, BatchCopies
<1>4. CASE Reject(s)
  <2>1. dpc[s] = "mark" /\ CommitTo(s, Copies(work[s], {}), Head(work[s]).seq)
    BY <1>4 DEF Reject
  <2> QED
    BY <2>1, BatchType, BatchCopies
<1> QED
  BY <1>1, <1>2, <1>3, <1>4 DEF Drain

\* What a drain does to checkpoints and requests, whichever step it takes.
LEMMA DrainStores ==
  ASSUME TypeOK, DrainHoldsWork, LineInv, NEW s \in Shard, Drain(s)
  PROVE  /\ \A k \in Shard \ {s} : Ckpt(k)' = Ckpt(k)
         /\ Ckpt(s)' >= Ckpt(s)
         /\ Ckpt(s) <= nextSeq[s] => Ckpt(s)' <= nextSeq[s]
         /\ \A k \in Shard, r \in Request : AppliedAt(k, r)' >= AppliedAt(k, r)
<1>1. CASE UNCHANGED storeVars
  <2>1. db' = db
    BY <1>1 DEF storeVars
  <2>2. /\ \A k \in Shard : Ckpt(k)' = Ckpt(k)
        /\ \A k \in Shard, r \in Request : AppliedAt(k, r)' = AppliedAt(k, r)
    BY <2>1 DEF Ckpt, AppliedAt
  <2> QED
    BY <2>2, CkptType, AppliedType
<1>2. ASSUME NEW add \in [Request -> Nat], NEW n \in Nat, CommitTo(s, add, n), n <= nextSeq[s]
      PROVE  /\ \A k \in Shard \ {s} : Ckpt(k)' = Ckpt(k)
             /\ Ckpt(s)' >= Ckpt(s)
             /\ Ckpt(s) <= nextSeq[s] => Ckpt(s)' <= nextSeq[s]
             /\ \A k \in Shard, r \in Request : AppliedAt(k, r)' >= AppliedAt(k, r)
  <2>1. Ckpt(s)' = Larger(Ckpt(s), n) /\ Ckpt(s) \in Nat /\ nextSeq[s] \in Nat
    BY <1>2, CommitExact, CkptType, LineType
  <2>2. Ckpt(s)' >= Ckpt(s) /\ (Ckpt(s) <= nextSeq[s] => Ckpt(s)' <= nextSeq[s])
    BY <1>2, <2>1 DEF Larger
  <2> QED
    BY <1>2, <2>2, CommitExact
<1> QED
  BY <1>1, <1>2, DrainCommits

\* The positions of a queue are finitely many.
LEMMA PositionsFinite ==
  ASSUME NEW q \in Seq(Entry)
  PROVE  IsFiniteSet(DOMAIN q)
<1>1. Len(q) \in Int /\ 1 \in Int /\ DOMAIN q = 1 .. Len(q)
  BY LenProperties
<1>2. IsFiniteSet(1 .. Len(q))
  BY <1>1, FS_Interval
<1> QED
  BY <1>1, <1>2

\* A batch that commits covers and applies every request it took.
LEMMA BatchCovers ==
  ASSUME TypeOK, DrainHoldsWork, LineInv, NEW s \in Shard, dpc[s] = "batch",
         CommitTo(s, Copies(work[s], DOMAIN work[s]), work[s][Len(work[s])].seq)
  PROVE  \A e \in Entries(work[s]) : AppliedAt(s, e.req)' > 0 /\ e.seq <= Ckpt(s)'
<1>1. /\ work[s] \in Seq(Entry) /\ work[s] # <<>> /\ Increasing(work[s])
      /\ work[s][Len(work[s])].seq \in Nat
  BY BatchType
<1>2. /\ DOMAIN work[s] = 1 .. Len(work[s]) /\ Len(work[s]) \in Nat
      /\ \A i \in DOMAIN work[s] : work[s][i].req \in Request /\ work[s][i].seq \in Nat
  BY <1>1, EntryType
<1>4. IsFiniteSet(DOMAIN work[s]) /\ Copies(work[s], DOMAIN work[s]) \in [Request -> Nat]
  BY <1>1, PositionsFinite, BatchCopies
<1>5. Ckpt(s)' = Larger(Ckpt(s), work[s][Len(work[s])].seq) /\ Ckpt(s) \in Nat
  BY <1>1, <1>4, CommitExact, CkptType
<1>6. UpTo(work[s], work[s][Len(work[s])].seq)
  BY <1>1, LastLine
<1> SUFFICES ASSUME NEW e \in Entries(work[s])
             PROVE  AppliedAt(s, e.req)' > 0 /\ e.seq <= Ckpt(s)'
  OBVIOUS
<1>7. PICK i \in DOMAIN work[s] : e = work[s][i]
  BY DEF Entries
<1>8. \A q : q = work[s] => AppliedAt(s, q[i].req)' > 0
  BY <1>1, <1>2, <1>4, CommitCounts
<1>9. e.seq <= work[s][Len(work[s])].seq /\ e.seq \in Nat
  BY <1>2, <1>6, <1>7 DEF UpTo
<1>10. e.seq <= Ckpt(s)'
  BY <1>1, <1>5, <1>9 DEF Larger
<1> QED
  BY <1>7, <1>8, <1>10

\* The retry of one request covers it, and applies it unless it is rejected.
LEMMA HeadCovers ==
  ASSUME TypeOK, DrainHoldsWork, LineInv, NEW s \in Shard,
         dpc[s] \in {"retry", "mark"}, NEW I \in {{1}, {}},
         CommitTo(s, Copies(work[s], I), Head(work[s]).seq)
  PROVE  \A e : e = Head(work[s]) =>
           /\ e.seq <= Ckpt(s)'
           /\ I = {1} => AppliedAt(s, e.req)' > 0
<1>1. /\ work[s] \in Seq(Entry) /\ work[s] # <<>> /\ 1 \in DOMAIN work[s]
      /\ Head(work[s]) = work[s][1] /\ Head(work[s]).seq \in Nat
  BY BatchType
<1>2. Head(work[s]).req \in Request /\ Copies(work[s], I) \in [Request -> Nat]
  BY <1>1, EntryType, BatchCopies
<1>3. Ckpt(s)' = Larger(Ckpt(s), Head(work[s]).seq) /\ Ckpt(s) \in Nat
  BY <1>1, <1>2, CommitExact, CkptType
<1>4. Head(work[s]).seq <= Ckpt(s)'
  BY <1>1, <1>3 DEF Larger
<1>5. ASSUME I = {1} PROVE \A q : q = work[s] => AppliedAt(s, q[1].req)' > 0
  BY <1>1, <1>2, <1>5, FS_Singleton, CommitCounts
<1> QED
  BY <1>1, <1>4, <1>5

\* Every step of a drain keeps the line ahead of the checkpoint.
LEMMA DrainAhead ==
  ASSUME TypeOK, TypeOK', DrainHoldsWork, LineInv, AheadInv, NEW s \in Shard, Drain(s)
  PROVE  AheadInv'
<1>1. /\ \A k \in Shard \ {s} : Ckpt(k)' = Ckpt(k)
      /\ Ckpt(s) <= nextSeq[s] => Ckpt(s)' <= nextSeq[s]
      /\ \A k \in Shard, r \in Request : AppliedAt(k, r)' >= AppliedAt(k, r)
  BY DrainStores
<1>2. nextSeq' = nextSeq /\ phase' = phase /\ unreplayed' = unreplayed
  BY DrainFrame
<1>3. \A k \in Shard : Numbered(k)'
  BY <1>1, <1>2 DEF AheadInv, Numbered, Counting
<1>4. ASSUME NEW k \in Shard, k # s
      PROVE  AllAhead(k, work[k])' /\ AllAhead(k, buf[k])'
  <2>1. work'[k] = work[k] /\ buf'[k] = buf[k]
    BY <1>4, DrainElsewhere
  <2>2. \A e \in Entries(work[k]) \cup Entries(buf[k]) : e \in Entry /\ AheadAt(k, e)
    BY LineType, EntriesType DEF AheadInv, AllAhead
  <2>3. \A e \in Entries(work[k]) \cup Entries(buf[k]) : AheadAt(k, e)'
    BY <1>1, <1>4, <2>2, AheadFrame
  <2> QED
    BY <2>1, <2>3 DEF AllAhead
<1> DEFINE W == Entries(work[s])
           B == Entries(buf[s])
<1>5. /\ work[s] \in Seq(Entry) /\ buf[s] \in Seq(Entry)
      /\ \A e \in W \cup B : e \in Entry /\ AheadAt(s, e)
  BY LineType, EntriesType DEF AheadInv, AllAhead
<1>6. SUFFICES \A e \in Entries(work'[s]) \cup Entries(buf'[s]) : AheadAt(s, e)'
  BY <1>3, <1>4 DEF AheadInv, AllAhead
<1>7. ASSUME UNCHANGED storeVars, NEW e \in W \cup B PROVE AheadAt(s, e)'
  <2>1. db' = db
    BY <1>7 DEF storeVars
  <2> QED
    BY <1>5, <2>1 DEF AheadAt, Ckpt, AppliedAt
<1>8. CASE DrainSwap(s)
  <2>1. work'[s] = buf[s] /\ buf'[s] = <<>> /\ UNCHANGED storeVars
    BY <1>8 DEF DrainSwap, TypeOK
  <2> QED
    BY <1>5, <1>7, <2>1, EntriesType
<1>9. CASE DrainSync(s) \/ DrainPublish(s) \/ DrainNotify(s)
  <2>1. work' = work /\ buf' = buf /\ UNCHANGED storeVars
    BY <1>9 DEF DrainSync, DrainPublish, DrainNotify, queueVars
  <2> QED
    BY <1>7, <2>1
<1>10. ASSUME dpc[s] = "batch",
              CommitTo(s, Copies(work[s], DOMAIN work[s]), work[s][Len(work[s])].seq)
       PROVE  /\ \A e \in B : AheadAt(s, e)'
              /\ \A e \in W : AppliedAt(s, e.req)' > 0
  <2>1. /\ work[s][Len(work[s])].seq \in Nat /\ work[s] # <<>>
        /\ Above(buf[s], work[s][Len(work[s])].seq)
    BY <1>10, BatchType
  <2>2. Copies(work[s], DOMAIN work[s]) \in [Request -> Nat]
    BY <2>1, BatchCopies
  <2>3. \A e \in B : e.seq > work[s][Len(work[s])].seq
    BY <1>5, <2>1, EntriesType
  <2>4. \A e \in B : AheadAt(s, e)'
    BY <1>5, <1>10, <2>1, <2>2, <2>3, AheadCommit
  <2>6. \A e \in W : AppliedAt(s, e.req)' > 0
    BY <1>10, BatchCovers
  <2> QED
    BY <2>4, <2>6
<1>11. CASE DrainBatch(s)
  <2>1. /\ dpc[s] = "batch" /\ work'[s] = <<>> /\ buf'[s] = buf[s]
        /\ CommitTo(s, Copies(work[s], DOMAIN work[s]), work[s][Len(work[s])].seq)
    BY <1>11 DEF DrainBatch, TypeOK, queueVars
  <2> QED
    BY <1>5, <1>10, <2>1, EntriesType
<1>12. CASE DrainBatchFails(s)
  <2>1. dpc[s] = "batch" /\ work' = work /\ buf' = buf
    BY <1>12 DEF DrainBatchFails, queueVars
  <2>2. CASE UNCHANGED storeVars
    BY <1>7, <2>1, <2>2
  <2>3. CASE /\ Fault({"postcommit"})
             /\ CommitTo(s, Copies(work[s], DOMAIN work[s]), work[s][Len(work[s])].seq)
    <3>1. "postcommit" \in Faults
      BY <2>3 DEF Fault
    <3> QED
      BY <1>10, <2>1, <2>3, <3>1 DEF AheadAt
  <2> QED
    BY <1>12, <2>2, <2>3 DEF DrainBatchFails
<1>13. ASSUME NEW I \in {{1}, {}},
              CommitTo(s, Copies(work[s], I), Head(work[s]).seq),
              dpc[s] \in {"retry", "mark"}
       PROVE  \A e \in B \cup Entries(Tail(work[s])) : AheadAt(s, e)'
  <2>1. /\ Head(work[s]).seq \in Nat /\ Above(buf[s], Head(work[s]).seq)
        /\ Above(Tail(work[s]), Head(work[s]).seq) /\ work[s] # <<>>
    BY <1>13, BatchType
  <2>2. Copies(work[s], I) \in [Request -> Nat]
    BY <2>1, BatchCopies
  <2>3. /\ Entries(Tail(work[s])) \subseteq W
        /\ \A e \in B \cup Entries(Tail(work[s])) : e.seq > Head(work[s]).seq
    <3>1. Tail(work[s]) \in Seq(Entry)
      BY <2>1, WorkType
    <3> QED
      BY <1>5, <2>1, <3>1, EntriesType
  <2> QED
    BY <1>5, <1>13, <2>1, <2>2, <2>3, AheadCommit
<1>14. CASE Retry(s) \/ Reject(s)
  <2>1. /\ dpc[s] \in {"retry", "mark"} /\ work'[s] = Tail(work[s]) /\ buf'[s] = buf[s]
        /\ \E I \in {{1}, {}} : CommitTo(s, Copies(work[s], I), Head(work[s]).seq)
    BY <1>14 DEF Retry, Reject, TypeOK, queueVars
  <2> QED
    BY <1>13, <2>1
<1>15. CASE RetryFails(s)
  <2>1. dpc[s] = "retry" /\ work' = work /\ buf' = buf
    BY <1>15 DEF RetryFails, queueVars
  <2>2. CASE UNCHANGED storeVars
    BY <1>7, <2>1, <2>2
  <2>3. CASE Fault({"postcommit"}) /\ CommitTo(s, Copies(work[s], {1}), Head(work[s]).seq)
    <3>1. "postcommit" \in Faults
      BY <2>3 DEF Fault
    <3>2. \A e \in B \cup Entries(Tail(work[s])) : AheadAt(s, e)'
      BY <1>13, <2>1, <2>3
    <3>3. \A e : e = Head(work[s]) => AppliedAt(s, e.req)' > 0
      BY <2>1, <2>3, HeadCovers
    <3>4. \A e \in W : e = Head(work[s]) \/ e \in Entries(Tail(work[s]))
      BY <1>5, <2>1, BatchType, EntriesType
    <3>7. \A e \in W : AheadAt(s, e)'
      BY <3>1, <3>2, <3>3, <3>4 DEF AheadAt
    <3> QED
      BY <2>1, <3>2, <3>7
  <2> QED
    BY <1>15, <2>2, <2>3 DEF RetryFails
<1>16. CASE Requeue(s)
  <2>1. work'[s] = <<>> /\ buf'[s] = work[s] \o buf[s] /\ UNCHANGED storeVars
    BY <1>16 DEF Requeue, TypeOK
  <2>2. Entries(work[s] \o buf[s]) = W \cup B /\ Entries(<<>>) = {}
    BY <1>5, EntriesType
  <2> QED
    BY <1>7, <2>1, <2>2
<1> QED
  BY <1>8, <1>9, <1>11, <1>12, <1>14, <1>15, <1>16 DEF Drain

\* A step that leaves the stores, the line and the numbers alone keeps it
\* ahead, if it did not begin to count shards as replayed.
LEMMA AheadStay ==
  ASSUME AheadInv, UNCHANGED <<db, work, buf, nextSeq>>,
         \/ phase' = phase /\ unreplayed' = unreplayed
         \/ phase = "replay" /\ unreplayed = {} /\ phase' = "boot"
         \/ phase = "down" /\ phase' = "replay" /\ unreplayed' = Shard
         \/ phase \notin {"down", "replay"} /\ phase' # "replay"
  PROVE  AheadInv'
<1>1. \A k \in Shard : AllAhead(k, work[k])' /\ AllAhead(k, buf[k])'
  BY DEF AheadInv, AllAhead, AheadAt, Ckpt, AppliedAt
<1>2. \A k \in Shard : Numbered(k)'
  BY DEF AheadInv, Numbered, Counting, Ckpt
<1> QED
  BY <1>1, <1>2 DEF AheadInv

\* A stopped engine has no line.
LEMMA AheadLost ==
  ASSUME LoseMemory
  PROVE  AheadInv'
<1>1. \A k \in Shard : work'[k] = <<>> /\ buf'[k] = <<>>
  BY DEF LoseMemory
<1>2. phase' = "down" /\ Entries(<<>>) = {}
  BY DEF LoseMemory, Entries
<1> QED
  BY <1>1, <1>2 DEF AheadInv, AllAhead, Numbered, Counting

\* A new number is above the checkpoint, which covers numbers issued only.
LEMMA SubmitAhead ==
  ASSUME TypeOK, AheadInv,
         NEW c \in Client, NEW r \in Request, NEW waits \in BOOLEAN,
         Submit(c, r, waits)
  PROVE  AheadInv'
<1> DEFINE s == ShardOf(r)
<1>1. [seq |-> nextSeq[s] + 1, req |-> r] \in Entry /\ s \in Shard /\ nextSeq[s] \in Nat
  BY RoutingType DEF TypeOK, Entry
<1>2. PICK e \in Entry : e = [seq |-> nextSeq[s] + 1, req |-> r]
  BY <1>1
<1>3. s \in Shard /\ nextSeq[s] \in Nat /\ e \in Entry /\ e.seq = nextSeq[s] + 1
  BY <1>1, <1>2
<1>4. /\ phase = "up" /\ phase' = phase /\ work' = work /\ db' = db
      /\ nextSeq' = [nextSeq EXCEPT ![s] = nextSeq[s] + 1]
      /\ buf' = [buf EXCEPT ![s] = Append(@, e)]
  BY <1>2 DEF Submit, drainVars, storeVars
<1> HIDE DEF s
<1>5. /\ \A k \in Shard : Ckpt(k)' = Ckpt(k) /\ Ckpt(k) \in Nat
      /\ \A k \in Shard : \A f : AheadAt(k, f) => AheadAt(k, f)'
  BY <1>4, CkptType DEF Ckpt, AppliedAt, AheadAt
<1>6. ASSUME NEW k \in Shard PROVE nextSeq[k] \in Nat /\ nextSeq'[k] \in Nat /\ nextSeq'[k] >= nextSeq[k]
  <2>1. nextSeq[k] \in Nat /\ nextSeq'[k] = IF k = s THEN nextSeq[s] + 1 ELSE nextSeq[k]
    BY <1>3, <1>4 DEF TypeOK
  <2> QED
    BY <1>3, <2>1
<1>7. \A k \in Shard : Ckpt(k) <= nextSeq[k]
  BY <1>4 DEF AheadInv, Numbered, Counting
<1>8. \A k \in Shard : Numbered(k)'
  BY <1>5, <1>6, <1>7 DEF Numbered, Counting
<1>9. AheadAt(s, e)'
  <2>1. e.seq > Ckpt(s)
    BY <1>3, <1>5, <1>7
  <2> QED
    BY <1>3, <1>5, <2>1 DEF AheadAt
<1>10. ASSUME NEW k \in Shard PROVE Entries(buf'[k]) \subseteq Entries(buf[k]) \cup (IF k = s THEN {e} ELSE {})
  <2>1. CASE k = s
    <3>1. buf'[s] = Append(buf[s], e) /\ buf[s] \in Seq(Entry)
      BY <1>3, <1>4 DEF TypeOK
    <3> QED
      BY <1>3, <2>1, <3>1, EntriesType
  <2>2. CASE k # s
    <3>1. buf'[k] = buf[k]
      BY <1>3, <1>4, <2>2 DEF TypeOK
    <3> QED
      BY <3>1
  <2> QED
    BY <2>1, <2>2
<1>11. \A k \in Shard : AllAhead(k, work[k])' /\ AllAhead(k, buf[k])'
  BY <1>4, <1>5, <1>9, <1>10 DEF AheadInv, AllAhead
<1> QED
  BY <1>8, <1>11 DEF AheadInv

\* Replay's commit moves the checkpoint to the last record pending, if any.
LEMMA ReplayExact ==
  ASSUME TypeOK, NEW s \in Shard, CommitPending(s)
  PROVE  /\ Ckpt(s)' <= HighestSeq(jfile[s], Parsed(jfile[s]), Ckpt(s))
         /\ \A k \in Shard \ {s} : Ckpt(k)' = Ckpt(k)
         /\ \A k \in Shard, r \in Request : AppliedAt(k, r)' >= AppliedAt(k, r)
<1> DEFINE f   == jfile[s]
           all == HighestSeq(f, Parsed(f), Ckpt(s))
           top == HighestSeq(f, Pending(s), 0)
<1>1. f \in Seq(Unit) /\ Ckpt(s) \in Nat /\ 0 \in Nat
  BY CkptType DEF TypeOK
<1>2. /\ Parsed(f) \in SUBSET (1 .. Len(f)) /\ Pending(s) \in SUBSET Parsed(f)
      /\ Copies(f, Pending(s)) \in [Request -> Nat]
  BY ReplayType
<1>3. top \in {0} \cup {f[i].seq : i \in Pending(s)} /\ top \in Nat
  BY <1>1, <1>2, HighestSeqType
<1>4. all \in Nat /\ all >= Ckpt(s) /\ \A i \in Parsed(f) : f[i].seq <= all
  BY <1>1, <1>2, HighestSeqType
<1> HIDE DEF all, top, f
<1>5. top <= all
  BY <1>1, <1>2, <1>3, <1>4
<1>6. CASE Pending(s) = {}
  <2>1. db' = db
    BY <1>6 DEF CommitPending, storeVars
  <2>2. /\ \A k \in Shard : Ckpt(k)' = Ckpt(k)
        /\ \A k \in Shard, r \in Request : AppliedAt(k, r)' = AppliedAt(k, r)
    BY <2>1 DEF Ckpt, AppliedAt
  <2> QED
    BY <1>4, <2>2, AppliedType DEF all, f
<1>7. CASE Pending(s) # {}
  <2>1. CommitTo(s, Copies(f, Pending(s)), top)
    BY <1>7 DEF CommitPending, top, f
  <2>2. Ckpt(s)' = Larger(Ckpt(s), top)
    BY <1>2, <1>3, <2>1, CommitExact
  <2>3. Ckpt(s)' <= all
    BY <1>1, <1>3, <1>4, <1>5, <2>2 DEF Larger
  <2> QED
    BY <1>2, <1>3, <2>1, <2>3, CommitExact DEF all, f
<1> QED
  BY <1>6, <1>7

\* Starting: a shard that is replayed numbers from its checkpoint on.
LEMMA StartAhead ==
  ASSUME TypeOK, LineInv, AheadInv, StartEngine \/ Start
  PROVE  AheadInv'
<1>1. CASE StartEngine \/ StartFinish \/ SpawnFlushers
  <2>1. UNCHANGED <<db, work, buf, nextSeq>>
    BY <1>1 DEF StartEngine, StartFinish, SpawnFlushers, queueVars, drainVars, storeVars
  <2>2. \/ phase = "replay" /\ unreplayed = {} /\ phase' = "boot"
        \/ phase = "down" /\ phase' = "replay" /\ unreplayed' = Shard
        \/ phase \notin {"down", "replay"} /\ phase' # "replay"
    BY <1>1 DEF StartEngine, StartFinish, SpawnFlushers
  <2> QED
    BY <2>1, <2>2, AheadStay
<1>2. ASSUME NEW s \in Shard, ReplayShard(s) PROVE AheadInv'
  <2>1. /\ CommitPending(s) /\ work' = work /\ buf' = buf /\ phase = "replay" /\ phase' = phase
        /\ nextSeq' = [nextSeq EXCEPT ![s] = HighestSeq(jfile[s], Parsed(jfile[s]), Ckpt(s))]
        /\ unreplayed' = unreplayed \ {s}
    BY <1>2 DEF ReplayShard, drainVars
  <2>2. \A k \in Shard : work'[k] = <<>> /\ buf'[k] = <<>>
    BY <2>1 DEF LineInv, Dormant, Line, Ended
  <2>3. \A k \in Shard : AllAhead(k, work[k])' /\ AllAhead(k, buf[k])'
    BY <2>2 DEF AllAhead, Entries
  <2>4. Numbered(s)'
    BY <2>1, ReplayExact DEF Numbered, Counting, TypeOK
  <2>5. ASSUME NEW k \in Shard \ {s} PROVE Numbered(k)'
    <3>1. nextSeq'[k] = nextSeq[k] /\ Ckpt(k)' = Ckpt(k)
      BY <2>1, ReplayExact DEF TypeOK
    <3> QED
      BY <2>1, <3>1 DEF AheadInv, Numbered, Counting
  <2> QED
    BY <2>3, <2>4, <2>5 DEF AheadInv
<1>3. ASSUME NEW s \in Shard, ReplayFails(s) PROVE AheadInv'
  BY <1>3, AheadLost DEF ReplayFails
<1> QED
  BY <1>1, <1>2, <1>3 DEF Start

\* Every step keeps the line ahead of the checkpoint.
LEMMA NextAhead ==
  ASSUME TypeOK, TypeOK', DrainHoldsWork, LineInv, AheadInv, [Next]_vars
  PROVE  AheadInv'
<1>1. CASE \E c \in Client, r \in Request, waits \in BOOLEAN : Submit(c, r, waits)
  BY <1>1, SubmitAhead
<1>2. CASE \/ \E c \in Client : Wait(c)
           \/ Maintenance
           \/ \E p \in Snapshotter :
                PauseAdmissions(p) \/ SnapshotReady(p) \/ ResumeAdmissions(p)
           \/ UNCHANGED vars
  <2>1. UNCHANGED <<db, work, buf, nextSeq, phase, unreplayed>>
    BY <1>2 DEF Wait, WaitReturn, WaitCheck, WaitPark, Maintenance, MaintBegin,
                MaintAbort, MaintCheckpoint, MaintTruncate, PauseAdmissions,
                SnapshotReady, ResumeAdmissions, vars, queueVars, drainVars, storeVars
  <2> QED
    BY <2>1, AheadStay
<1>3. CASE \E s \in Shard : Drain(s)
  BY <1>3, DrainAhead
<1>4. CASE StartEngine \/ Start
  BY <1>4, StartAhead
<1>5. CASE Shutdown \/ RequestShutdown \/ JoinFlushers
  <2>1. UNCHANGED <<db, work, buf, nextSeq>>
    BY <1>5 DEF Shutdown, RequestShutdown, JoinFlushers, queueVars, drainVars, storeVars
  <2>2. phase \notin {"down", "replay"} /\ phase' # "replay"
    BY <1>5 DEF Shutdown, RequestShutdown, JoinFlushers
  <2> QED
    BY <2>1, <2>2, AheadStay
<1>6. CASE ShutdownDone \/ DropEngine \/ ProcessCrash \/ PowerLoss
  BY <1>6, AheadLost DEF ShutdownDone, DropEngine, ProcessCrash, PowerLoss
<1> QED
  BY <1>1, <1>2, <1>3, <1>4, <1>5, <1>6 DEF Next

\* In every reachable state, what is queued or being drained lies above the
\* checkpoint of its shard or has been committed with it.
THEOREM AheadCorrect == Spec => [](TypeOK /\ DrainHoldsWork /\ LineInv /\ AheadInv)
<1>1. Init => AheadInv
  <2> SUFFICES ASSUME Init PROVE AheadInv
    OBVIOUS
  <2>1. \A k \in Shard : work[k] = <<>> /\ buf[k] = <<>>
    BY DEF Init
  <2>2. phase = "down" /\ Entries(<<>>) = {}
    BY DEF Init, Entries
  <2> QED
    BY <2>1, <2>2 DEF AheadInv, AllAhead, Numbered, Counting
<1>2. /\ TypeOK /\ DrainHoldsWork /\ LineInv /\ AheadInv
      /\ TypeOK' /\ DrainHoldsWork' /\ LineInv' /\ [Next]_vars
      => AheadInv'
  BY NextAhead
<1> QED
  BY <1>1, <1>2, LineCorrect, PTL DEF Spec

\* A committed checkpoint never passes a write that has no outcome, unless
\* remember_batch reports failure after its commit: rollbacks, requeues,
\* crashes, power losses and torn journals do not make replay skip a write.
THEOREM NothingIsSkipped ==
  ASSUME "postcommit" \notin Faults
  PROVE  Spec => []NothingSkipped
<1>1. TypeOK /\ AheadInv => NothingSkipped
  BY DEF AheadInv, AllAhead, AheadAt, Entries, NothingSkipped
<1> QED
  BY <1>1, AheadCorrect, PTL

-----------------------------------------------------------------------------
(* The maintenance pass of a start and that of a shutdown run alone: they  *)
(* reclaim every journal if every checkpoint of theirs is complete.        *)

\* A shutdown joins its flushers with everything issued durable.
Joined == phase = "joining" => \A s \in Shard : durable[s] >= nextSeq[s]

\* While the pass of a start or a shutdown runs, nothing else does.
Alone ==
  phase \in {"boot", "final"} =>
    \A s \in Shard :
      durable[s] = nextSeq[s] /\ marks[s] = nextSeq[s] /\ dpc[s] = "idle"

\* What it has done so far.
Reclaimed ==
  phase \in {"boot", "final"} =>
    /\ mpc = "ckpt" /\ complete => \A d \in Domain \ mleft : survivors[d] = {db[d]}
    /\ mpc # "ckpt" /\ complete => \A d \in Domain : survivors[d] = {db[d]}
    /\ mpc = "truncate" =>
         complete /\ \A s \in Shard \ mleft : jfile[s] = <<>> /\ jbuf[s] = <<>>
    /\ mpc = "idle" /\ complete =>
         \A s \in Shard : jfile[s] = <<>> /\ jbuf[s] = <<>>

\* A pass that runs alone is not aborted and every truncation succeeds.
PassesEnd == Faults \cap {"ckpterror", "setlen"} = {}

\* Maintenance of a start or a shutdown, step by step.
LEMMA PassReclaims ==
  ASSUME PassesEnd, TypeOK, TypeOK', LineInv, Alone, Reclaimed, Maintenance
  PROVE  Reclaimed'
<1> SUFFICES ASSUME phase \in {"boot", "final"} PROVE Reclaimed'
  <2>1. phase' = phase
    BY DEF Maintenance, MaintBegin, MaintAbort, MaintCheckpoint, MaintTruncate
  <2> QED
    BY <2>1 DEF Reclaimed
<1>1. /\ phase' = phase /\ durable' = durable /\ nextSeq' = nextSeq /\ dpc' = dpc /\ db' = db
  BY DEF Maintenance, MaintBegin, MaintAbort, MaintCheckpoint, MaintTruncate,
         queueVars, drainVars, storeVars
<1>2. ~ MaintBegin /\ ~ MaintAbort
  BY DEF MaintBegin, MaintAbort, Running, PassesEnd
<1>3. ASSUME NEW d \in Domain, MaintCheckpoint(d) PROVE Reclaimed'
  <2>1. /\ mpc = "ckpt" /\ d \in mleft /\ marks' = marks /\ jfile' = jfile /\ jbuf' = jbuf
        /\ \/ survivors' = [survivors EXCEPT ![d] = {db[d]}] /\ complete' = complete
           \/ survivors' = survivors /\ complete' = FALSE
        /\ \/ mleft # {d} /\ mleft' = mleft \ {d} /\ mpc' = "ckpt"
           \/ mleft = {d} /\ complete' /\ mleft' = Shard /\ mpc' = "truncate"
           \/ mleft = {d} /\ ~ complete' /\ mpc' = "idle"
    BY <1>3 DEF MaintCheckpoint, WalCheckpoint, WalCheckpointShort, queueVars
  <2>2. complete' => \A e \in (Domain \ mleft) \cup {d} : survivors'[e] = {db[e]}
    <3> SUFFICES ASSUME complete', NEW e \in (Domain \ mleft) \cup {d}
                 PROVE  survivors'[e] = {db[e]}
      OBVIOUS
    <3>1. survivors' = [survivors EXCEPT ![d] = {db[d]}] /\ complete
      BY <2>1
    <3>2. e # d => survivors[e] = {db[e]}
      BY <2>1, <3>1 DEF Reclaimed
    <3> QED
      BY <3>1, <3>2 DEF TypeOK
  <2>3. complete' /\ mleft = {d} => \A e \in Domain : survivors'[e] = {db[e]}
    BY <2>2
  <2>4. \A s \in Shard \ Shard : FALSE
    OBVIOUS
  <2> QED
    BY <1>1, <2>1, <2>2, <2>3, <2>4 DEF Reclaimed
<1>4. ASSUME NEW s \in Shard, MaintTruncate(s) PROVE Reclaimed'
  <2>1. buf[s] = <<>> /\ nextSeq[s] = marks[s]
    <3>1. durable[s] = nextSeq[s] /\ nextSeq[s] = marks[s]
      BY DEF Alone
    <3>2. durable[s] >= nextSeq[s]
      BY <3>1, LineType
    <3> QED
      BY <3>1, <3>2, NothingLeft
  <2>2. /\ mpc = "truncate" /\ s \in mleft /\ marks' = marks /\ survivors' = survivors
        /\ complete' = complete
        /\ jbuf' = [jbuf EXCEPT ![s] = <<>>] /\ jfile' = [jfile EXCEPT ![s] = <<>>]
        /\ mleft' = mleft \ {s} /\ mpc' = IF mleft = {s} THEN "idle" ELSE "truncate"
    BY <1>4, <2>1 DEF MaintTruncate, PassesEnd, storeVars
  <2>3. \A k \in (Shard \ mleft) \cup {s} : jfile'[k] = <<>> /\ jbuf'[k] = <<>>
    BY <2>2, SMTT(30) DEF Reclaimed, TypeOK
  <2>4. complete /\ \A d \in Domain : survivors[d] = {db[d]}
    BY <2>2 DEF Reclaimed
  <2>5. mleft = {s} => \A k \in Shard : jfile'[k] = <<>> /\ jbuf'[k] = <<>>
    BY <2>3
  <2> QED
    BY <1>1, <2>2, <2>3, <2>4, <2>5 DEF Reclaimed
<1> QED
  BY <1>2, <1>3, <1>4 DEF Maintenance

\* A pass begins with everything issued durable, and nothing checkpointed.
LEMMA PassBegins ==
  ASSUME \A s \in Shard : durable'[s] = nextSeq'[s] /\ dpc'[s] = "idle",
         BeginMaintenance(durable')
  PROVE  Alone' /\ Reclaimed'
<1>1. mpc' = "ckpt" /\ marks' = durable' /\ mleft' = Domain
  BY DEF BeginMaintenance
<1>2. \A d \in Domain \ Domain : FALSE
  OBVIOUS
<1> QED
  BY <1>1, <1>2 DEF Alone, Reclaimed

\* Every step keeps what these passes have done.
LEMMA NextReclaimed ==
  ASSUME TypeOK, TypeOK', DrainHoldsWork, LineInv, Joined, Alone, [Next]_vars
  PROVE  /\ Joined' /\ Alone'
         /\ PassesEnd /\ Reclaimed => Reclaimed'
<1>1. CASE \/ \E c \in Client, r \in Request, waits \in BOOLEAN : Submit(c, r, waits)
           \/ \E p \in Snapshotter : PauseAdmissions(p)
  <2>1. phase = "up" /\ phase' = phase
    BY <1>1 DEF Submit, PauseAdmissions
  <2> QED
    BY <2>1 DEF Joined, Alone, Reclaimed
<1>2. CASE \/ \E c \in Client : Wait(c)
           \/ \E p \in Snapshotter : SnapshotReady(p) \/ ResumeAdmissions(p)
           \/ UNCHANGED vars
  <2>1. /\ UNCHANGED <<phase, durable, nextSeq, marks, dpc, mpc, complete, mleft>>
        /\ UNCHANGED <<survivors, db, jfile, jbuf>>
    BY <1>2 DEF Wait, WaitReturn, WaitCheck, WaitPark, SnapshotReady, ResumeAdmissions,
                vars, queueVars, drainVars, storeVars, maintVars
  <2> QED
    BY <2>1 DEF Joined, Alone, Reclaimed
<1>3. ASSUME NEW s \in Shard, Drain(s)
      PROVE  Joined' /\ Alone' /\ (PassesEnd /\ Reclaimed => Reclaimed')
  <2>1. phase \notin {"boot", "final"} /\ phase' = phase /\ nextSeq' = nextSeq
    <3>1. phase \in {"boot", "final"} => dpc[s] = "idle"
      BY DEF Alone
    <3>2. CASE dpc[s] = "idle"
      <4>1. phase \in {"up", "closing"}
        BY <1>3, <3>2 DEF Drain, DrainSwap, Running, DrainSync, DrainBatch,
             DrainBatchFails, Retry, RetryFails, Reject, Requeue, DrainPublish, DrainNotify
      <4> QED
        BY <1>3, <4>1, DrainFrame
    <3> QED
      BY <1>3, <3>1, <3>2, DrainFrame
  <2>2. \A k \in Shard : durable'[k] >= durable[k]
    BY <1>3, DrainLine
  <2>3. \A k \in Shard : durable[k] \in Nat /\ durable'[k] \in Nat /\ nextSeq[k] \in Nat
    BY DEF TypeOK
  <2>4. \A k \in Shard : durable[k] >= nextSeq[k] => durable'[k] >= nextSeq[k]
    BY <2>2, <2>3
  <2> QED
    BY <2>1, <2>4 DEF Joined, Alone, Reclaimed
<1>4. CASE Maintenance
  <2>1. /\ phase' = phase /\ durable' = durable /\ nextSeq' = nextSeq /\ dpc' = dpc
        /\ phase \in {"boot", "final"} => marks' = marks
    BY <1>4 DEF Maintenance, MaintBegin, Running, MaintAbort, MaintCheckpoint, MaintTruncate,
                queueVars, drainVars
  <2> QED
    BY <1>4, <2>1, PassReclaims DEF Joined, Alone
<1>5. CASE \/ StartEngine \/ SpawnFlushers \/ \E s \in Shard : ReplayShard(s)
           \/ Shutdown
  <2>1. phase' \in {"replay", "up", "closing"}
    BY <1>5 DEF StartEngine, SpawnFlushers, ReplayShard, Shutdown
  <2> QED
    BY <2>1 DEF Joined, Alone, Reclaimed
<1>6. CASE StartFinish
  <2>1. /\ phase = "replay" /\ phase' = "boot" /\ nextSeq' = nextSeq /\ durable' = nextSeq
        /\ dpc' = dpc /\ BeginMaintenance(nextSeq)
    BY <1>6 DEF StartFinish, queueVars, drainVars
  <2>2. \A s \in Shard : dpc[s] = "idle"
    BY <2>1 DEF LineInv, Dormant
  <2>3. BeginMaintenance(durable')
    BY <2>1 DEF BeginMaintenance
  <2> QED
    BY <2>1, <2>2, <2>3, PassBegins DEF Joined
<1>7. CASE RequestShutdown
  <2>1. /\ phase' = "joining" /\ durable' = durable /\ nextSeq' = nextSeq
        /\ \A s \in Shard : durable[s] >= nextSeq[s]
    BY <1>7 DEF RequestShutdown, queueVars
  <2> QED
    BY <2>1 DEF Joined, Alone, Reclaimed
<1>8. CASE JoinFlushers
  <2>1. /\ phase = "joining" /\ phase' = "final" /\ nextSeq' = nextSeq /\ durable' = durable
        /\ dpc' = dpc /\ BeginMaintenance(durable) /\ \A s \in Shard : dpc[s] = "idle"
    BY <1>8 DEF JoinFlushers, queueVars, drainVars
  <2>2. \A s \in Shard : durable[s] = nextSeq[s]
    <3> SUFFICES ASSUME NEW s \in Shard PROVE durable[s] = nextSeq[s]
      OBVIOUS
    <3>1. durable[s] >= nextSeq[s] /\ durable[s] <= nextSeq[s]
      BY <2>1 DEF Joined, LineInv, Line, Issued
    <3> QED
      BY <3>1, LineType
  <2>3. BeginMaintenance(durable')
    BY <2>1 DEF BeginMaintenance
  <2> QED
    BY <2>1, <2>2, <2>3, PassBegins DEF Joined
<1>9. CASE \/ \E s \in Shard : ReplayFails(s)
           \/ ShutdownDone \/ DropEngine \/ ProcessCrash \/ PowerLoss
  <2>1. phase' = "down"
    BY <1>9 DEF ReplayFails, ShutdownDone, DropEngine, ProcessCrash, PowerLoss, LoseMemory
  <2> QED
    BY <2>1 DEF Joined, Alone, Reclaimed
<1> QED
  BY <1>1, <1>2, <1>3, <1>4, <1>5, <1>6, <1>7, <1>8, <1>9 DEF Next, Start

\* The passes of a start and of a shutdown run alone, in every environment, ...
THEOREM PassesAreAlone ==
  Spec => [](TypeOK /\ DrainHoldsWork /\ LineInv /\ Joined /\ Alone)
<1>1. Init => Joined /\ Alone
  BY DEF Init, Joined, Alone
<1>2. /\ TypeOK /\ DrainHoldsWork /\ LineInv /\ Joined /\ Alone
      /\ TypeOK' /\ [Next]_vars
      => Joined' /\ Alone'
  BY NextReclaimed
<1> QED
  BY <1>1, <1>2, LineCorrect, PTL DEF Spec

\* ... and reclaim what they should, if they are neither aborted nor fail to
\* truncate.
THEOREM ReclaimCorrect ==
  ASSUME PassesEnd
  PROVE  Spec => []Reclaimed
<1>1. Init => Reclaimed
  BY DEF Init, Reclaimed
<1>2. /\ TypeOK /\ DrainHoldsWork /\ LineInv /\ Joined /\ Alone /\ Reclaimed
      /\ TypeOK' /\ [Next]_vars
      => Reclaimed'
  BY NextReclaimed
<1> QED
  BY <1>1, <1>2, PassesAreAlone, PTL DEF Spec

\* shutdown, if the last checkpoint was complete, leaves every journal empty
\* and in every store nothing that a power loss could take, whatever failed
\* before; the pass it ends with must neither be aborted nor fail to truncate.
THEOREM ShutdownIsClean ==
  ASSUME PassesEnd
  PROVE  Spec => CleanShutdown
<1>1. /\ TypeOK /\ Reclaimed /\ [Next]_vars
      => [phase = "final" /\ phase' = "down" /\ complete
            /\ losses' = losses /\ crashes' = crashes =>
          /\ \A s \in Shard : jfile'[s] = <<>>
          /\ \A d \in Domain : survivors'[d] = {db[d]}]_vars
  <2> SUFFICES ASSUME TypeOK, Reclaimed, Next, phase = "final", phase' = "down",
                      complete, losses' = losses, crashes' = crashes
               PROVE  /\ \A s \in Shard : jfile'[s] = <<>>
                      /\ \A d \in Domain : survivors'[d] = {db[d]}
    BY DEF vars
  <2>1. ~ ProcessCrash /\ ~ PowerLoss
    <3>1. \A n \in Nat : n + 1 # n
      OBVIOUS
    <3> QED
      BY <3>1 DEF ProcessCrash, PowerLoss, TypeOK
  <2>2. ShutdownDone
    <3>1. ASSUME NEW s \in Shard PROVE ~ Drain(s)
      BY DrainFrame
    <3>2. ~ Maintenance
      BY DEF Maintenance, MaintBegin, MaintAbort, MaintCheckpoint, MaintTruncate
    <3>3. ~ (StartEngine \/ Start)
      BY DEF StartEngine, Start, ReplayShard, ReplayFails, StartFinish, SpawnFlushers
    <3>4. ~ (Shutdown \/ RequestShutdown \/ JoinFlushers \/ DropEngine)
      BY DEF Shutdown, RequestShutdown, JoinFlushers, DropEngine
    <3>5. /\ \A c \in Client : ~ Wait(c)
          /\ \A c \in Client, r \in Request, waits \in BOOLEAN : ~ Submit(c, r, waits)
          /\ \A p \in Snapshotter :
               ~ (PauseAdmissions(p) \/ SnapshotReady(p) \/ ResumeAdmissions(p))
      BY DEF Wait, WaitReturn, WaitCheck, WaitPark, Submit, PauseAdmissions,
             SnapshotReady, ResumeAdmissions
    <3> QED
      BY <2>1, <3>1, <3>2, <3>3, <3>4, <3>5 DEF Next
  <2>3. /\ mpc = "idle" /\ survivors' = survivors
        /\ \A s \in Shard : jfile'[s] = jfile[s] \o jbuf[s]
    BY <2>2 DEF ShutdownDone, DropJournals, storeVars
  <2>4. /\ \A s \in Shard : jfile[s] = <<>> /\ jbuf[s] = <<>>
        /\ \A d \in Domain : survivors[d] = {db[d]}
    BY <2>3 DEF Reclaimed
  <2>5. <<>> \o <<>> = <<>>
    OBVIOUS
  <2> QED
    BY <2>3, <2>4, <2>5
<1> QED
  BY <1>1, TypeCorrect, ReclaimCorrect, PTL DEF Spec, CleanShutdown

-----------------------------------------------------------------------------
(* Journals as sets of entries: what replay would parse of a file, and what *)
(* is recorded in it whether or not it parses.                             *)

EntryOf(u) == [seq |-> u.seq, req |-> u.req]
Records(f) == {EntryOf(f[i]) : i \in Parsed(f)}
Loose(f)   == {EntryOf(f[i]) : i \in {j \in DOMAIN f : f[j].kind = "rec"}}

\* A journal the next record can be appended to.
EndsLine(f) == f = <<>> \/ f[Len(f)].kind = "nl"

\* The journal of shard s as the process sees it, with what it has buffered.
Whole(s) == jfile[s] \o jbuf[s]

\* The positions of a concatenation of journals.
LEMMA ConcatUnits ==
  ASSUME NEW f \in Seq(Unit), NEW g \in Seq(Unit)
  PROVE  /\ f \o g \in Seq(Unit) /\ Len(f \o g) = Len(f) + Len(g)
         /\ Len(f) \in Nat /\ Len(g) \in Nat
         /\ DOMAIN f = 1 .. Len(f) /\ DOMAIN g = 1 .. Len(g)
         /\ DOMAIN (f \o g) = 1 .. Len(f) + Len(g)
         /\ \A i \in 1 .. Len(f) : (f \o g)[i] = f[i]
         /\ \A j \in 1 .. Len(g) : (f \o g)[Len(f) + j] = g[j]
<1>1. /\ Len(f) \in Nat /\ Len(g) \in Nat
      /\ DOMAIN f = 1 .. Len(f) /\ DOMAIN g = 1 .. Len(g)
  BY LenProperties
<1>2. f \o g \in Seq(Unit) /\ Len(f \o g) = Len(f) + Len(g)
  BY ConcatProperties
<1>3. \A i \in 1 .. Len(f) + Len(g) :
        (f \o g)[i] = IF i <= Len(f) THEN f[i] ELSE g[i - Len(f)]
  BY ConcatProperties
<1>4. DOMAIN (f \o g) = 1 .. Len(f) + Len(g)
  BY <1>2, LenProperties
<1>5. \A i \in 1 .. Len(f) : (f \o g)[i] = f[i]
  BY <1>1, <1>3
<1>6. ASSUME NEW j \in 1 .. Len(g) PROVE (f \o g)[Len(f) + j] = g[j]
  <2>1. Len(f) + j \in 1 .. Len(f) + Len(g) /\ ~ (Len(f) + j <= Len(f)) /\ (Len(f) + j) - Len(f) = j
    BY <1>1
  <2> QED
    BY <1>3, <2>1
<1> QED
  BY <1>1, <1>2, <1>4, <1>5, <1>6

\* Concatenation adds no record that was not written, and unparses some.
LEMMA JournalConcat ==
  ASSUME NEW f \in Seq(Unit), NEW g \in Seq(Unit)
  PROVE  /\ Records(f) \subseteq Loose(f)
         /\ Records(f \o g) \subseteq Records(f) \cup Loose(g)
         /\ Loose(f \o g) \subseteq Loose(f) \cup Loose(g)
         /\ EndsLine(f) /\ EndsLine(g) => EndsLine(f \o g)
<1> DEFINE c == f \o g
<1>1. /\ c \in Seq(Unit) /\ Len(c) = Len(f) + Len(g) /\ Len(f) \in Nat /\ Len(g) \in Nat
      /\ DOMAIN f = 1 .. Len(f) /\ DOMAIN g = 1 .. Len(g)
      /\ DOMAIN c = 1 .. Len(f) + Len(g)
      /\ \A i \in 1 .. Len(f) : c[i] = f[i]
      /\ \A j \in 1 .. Len(g) : c[Len(f) + j] = g[j]
  BY ConcatUnits
<1> HIDE DEF c
<1>2. ASSUME NEW i \in DOMAIN c
      PROVE  \/ i \in 1 .. Len(f)
             \/ i - Len(f) \in 1 .. Len(g) /\ c[i] = g[i - Len(f)]
  <2>1. CASE i \in 1 .. Len(f)
    BY <2>1
  <2>2. CASE i \notin 1 .. Len(f)
    <3>1. i - Len(f) \in 1 .. Len(g) /\ Len(f) + (i - Len(f)) = i
      BY <1>1, <2>2
    <3> QED
      BY <1>1, <3>1
  <2> QED
    BY <2>1, <2>2
<1>3. Records(f) \subseteq Loose(f)
  BY <1>1 DEF Records, Loose, Parsed
<1>4. Loose(c) \subseteq Loose(f) \cup Loose(g)
  <2> SUFFICES ASSUME NEW i \in DOMAIN c, c[i].kind = "rec"
               PROVE  EntryOf(c[i]) \in Loose(f) \cup Loose(g)
    BY DEF Loose
  <2>1. CASE i \in 1 .. Len(f)
    BY <1>1, <2>1 DEF Loose
  <2>2. CASE i - Len(f) \in 1 .. Len(g) /\ c[i] = g[i - Len(f)]
    BY <1>1, <2>2 DEF Loose
  <2> QED
    BY <1>2, <2>1, <2>2
<1>5. Records(c) \subseteq Records(f) \cup Loose(g)
  <2> SUFFICES ASSUME NEW i \in Parsed(c)
               PROVE  EntryOf(c[i]) \in Records(f) \cup Loose(g)
    BY DEF Records
  <2>1. /\ i \in DOMAIN c /\ c[i].kind = "rec" /\ i \in Nat
        /\ i > 1 => c[i - 1].kind = "nl"
        /\ i < Len(c) => c[i + 1].kind = "nl"
    BY <1>1 DEF Parsed
  <2>2. CASE i \in 1 .. Len(f)
    <3>1. i > 1 => i - 1 \in 1 .. Len(f)
      BY <1>1, <2>2
    <3>2. i < Len(f) => i + 1 \in 1 .. Len(f) /\ i < Len(c)
      BY <1>1, <2>2
    <3>3. i \in Parsed(f)
      BY <1>1, <2>1, <2>2, <3>1, <3>2 DEF Parsed
    <3> QED
      BY <1>1, <2>2, <3>3 DEF Records
  <2>3. CASE i - Len(f) \in 1 .. Len(g) /\ c[i] = g[i - Len(f)]
    BY <1>1, <2>1, <2>3 DEF Loose
  <2> QED
    BY <1>2, <2>1, <2>2, <2>3
<1>6. ASSUME EndsLine(f), EndsLine(g) PROVE EndsLine(c)
  <2>1. CASE g = <<>>
    <3>1. c = f
      BY <2>1, ConcatEmptySeq DEF c
    <3> QED
      BY <1>6, <3>1
  <2>2. CASE g # <<>>
    <3>1. Len(g) \in 1 .. Len(g)
      BY <2>2, EmptySeq
    <3>2. c[Len(c)] = g[Len(g)]
      BY <1>1, <3>1
    <3> QED
      BY <1>6, <2>2, <3>2 DEF EndsLine
  <2> QED
    BY <2>1, <2>2
<1> QED
  BY <1>3, <1>4, <1>5, <1>6 DEF c

\* A line appended where a line ended parses, and unparses nothing.
LEMMA JournalAppend ==
  ASSUME NEW f \in Seq(Unit), EndsLine(f), NEW e \in Entry
  PROVE  /\ <<Record(e.seq, e.req), Mark("nl")>> \in Seq(Unit)
         /\ Records(f) \cup {e} \subseteq Records(f \o <<Record(e.seq, e.req), Mark("nl")>>)
         /\ EndsLine(f \o <<Record(e.seq, e.req), Mark("nl")>>)
         /\ Loose(<<Record(e.seq, e.req), Mark("nl")>>) = {e}
         /\ EndsLine(<<Record(e.seq, e.req), Mark("nl")>>)
<1> DEFINE g == <<Record(e.seq, e.req), Mark("nl")>>
           c == f \o g
<1>1. Record(e.seq, e.req) \in Unit /\ Mark("nl") \in Unit
  BY DEF Record, Mark, Unit, Entry
<1>2. /\ g \in Seq(Unit) /\ Len(g) = 2 /\ DOMAIN g = {1, 2} /\ g # <<>>
      /\ g[1] = Record(e.seq, e.req) /\ g[2] = Mark("nl")
  BY <1>1
<1>3. g[1].kind = "rec" /\ g[2].kind = "nl" /\ EntryOf(g[1]) = e
  BY <1>2 DEF Record, Mark, EntryOf, Entry
<1> HIDE DEF g
<1>4. /\ c \in Seq(Unit) /\ Len(c) = Len(f) + 2 /\ Len(f) \in Nat
      /\ DOMAIN c = 1 .. Len(f) + 2
      /\ \A i \in 1 .. Len(f) : c[i] = f[i]
      /\ \A j \in 1 .. 2 : c[Len(f) + j] = g[j]
  BY <1>2, ConcatUnits, SMTT(30)
<1> HIDE DEF c
<1>5. c[Len(f) + 1] = g[1] /\ c[Len(f) + 2] = g[2]
  BY <1>4
<1>6. Len(f) + 1 \in Parsed(c)
  <2>1. Len(f) + 1 > 1 => f # <<>>
    BY EmptySeq
  <2>2. Len(f) + 1 > 1 => c[Len(f)].kind = "nl"
    BY <1>4, <2>1 DEF EndsLine
  <2>3. (Len(f) + 1) + 1 = Len(f) + 2 /\ (Len(f) + 1) - 1 = Len(f) /\ Len(f) + 1 \in 1 .. Len(c)
    BY <1>4
  <2> QED
    BY <1>3, <1>5, <2>2, <2>3 DEF Parsed
<1>7. e \in Records(c)
  BY <1>3, <1>5, <1>6 DEF Records
<1>8. ASSUME NEW i \in Parsed(f) PROVE i \in Parsed(c) /\ EntryOf(c[i]) = EntryOf(f[i])
  <2>1. i \in 1 .. Len(f) /\ f[i].kind = "rec" /\ (i > 1 => f[i - 1].kind = "nl")
        /\ (i < Len(f) => f[i + 1].kind = "nl")
    BY DEF Parsed
  <2>2. f # <<>> /\ i # Len(f)
    BY <1>4, <2>1 DEF EndsLine
  <2>3. i < Len(f) /\ i + 1 \in 1 .. Len(f) /\ (i > 1 => i - 1 \in 1 .. Len(f)) /\ i \in 1 .. Len(c)
    BY <1>4, <2>1, <2>2
  <2> QED
    BY <1>4, <2>1, <2>3 DEF Parsed
<1>9. Records(f) \subseteq Records(c)
  <2> SUFFICES ASSUME NEW i \in Parsed(f) PROVE EntryOf(f[i]) \in Records(c)
    BY DEF Records
  <2> QED
    BY <1>8 DEF Records
<1>10. EndsLine(c)
  BY <1>3, <1>4, <1>5 DEF EndsLine
<1>11. Loose(g) = {e}
  BY <1>2, <1>3 DEF Loose
<1>12. EndsLine(g)
  BY <1>2, <1>3 DEF EndsLine
<1> QED
  BY <1>2, <1>7, <1>9, <1>10, <1>11, <1>12 DEF g, c

\* The records of a journal have sequence numbers.
LEMMA LooseType ==
  ASSUME NEW f \in Seq(Unit)
  PROVE  \A e \in Loose(f) : e.seq \in Nat
<1>1. \A i \in DOMAIN f : f[i] \in Unit
  OBVIOUS
<1>2. \A u \in Unit : EntryOf(u).seq \in Nat
  BY DEF Unit, EntryOf
<1> QED
  BY <1>1, <1>2 DEF Loose

\* Writing out a part of a buffer splits it.
LEMMA JournalSplit ==
  ASSUME NEW u \in Seq(Unit), NEW n \in 0 .. Len(u)
  PROVE  /\ SubSeq(u, 1, n) \in Seq(Unit) /\ SubSeq(u, n + 1, Len(u)) \in Seq(Unit)
         /\ SubSeq(u, 1, n) \o SubSeq(u, n + 1, Len(u)) = u
         /\ Loose(SubSeq(u, 1, n)) \subseteq Loose(u)
         /\ Loose(SubSeq(u, n + 1, Len(u))) \subseteq Loose(u)
<1>1. Len(u) \in Nat /\ n \in Nat /\ n <= Len(u) /\ DOMAIN u = 1 .. Len(u)
  BY LenProperties
<1>2. SubSeq(u, 1, n) \o SubSeq(u, n + 1, Len(u)) = SubSeq(u, 1, Len(u))
  <2>1. 1 \in 1 .. Len(u) + 1 /\ n \in 1 - 1 .. Len(u) /\ Len(u) \in n .. Len(u)
    BY <1>1
  <2> QED
    BY <2>1, ConcatAdjacentSubSeq
<1>3. SubSeq(u, 1, Len(u)) = u
  BY SubSeqFull
<1>4. ASSUME NEW m \in 1 .. Len(u) + 1, NEW k \in 0 .. Len(u)
      PROVE  SubSeq(u, m, k) \in Seq(Unit) /\ Loose(SubSeq(u, m, k)) \subseteq Loose(u)
  <2> DEFINE v == SubSeq(u, m, k)
  <2>0. m \in Int /\ k \in Int /\ \A i \in m .. k : i \in 1 .. Len(u)
    BY <1>1
  <2>1. \A i \in m .. k : u[i] \in Unit
    BY <1>1, <2>0
  <2>2. /\ v \in Seq(Unit) /\ Len(v) = IF m <= k THEN k - m + 1 ELSE 0
        /\ \A i \in 1 .. k - m + 1 : v[i] = u[m + i - 1]
    BY <2>0, <2>1, SubSeqProperties
  <2>3. DOMAIN v = 1 .. Len(v)
    BY <2>2, LenProperties
  <2> HIDE DEF v
  <2>4. ASSUME NEW i \in DOMAIN v PROVE v[i] = u[m + i - 1] /\ m + i - 1 \in DOMAIN u
    <3>1. m <= k /\ i \in 1 .. k - m + 1
      BY <2>0, <2>2, <2>3
    <3> QED
      BY <1>1, <2>0, <2>2, <3>1
  <2>5. Loose(v) \subseteq Loose(u)
    BY <2>4 DEF Loose
  <2> QED
    BY <2>2, <2>5 DEF v
<1>5. n + 1 \in 1 .. Len(u) + 1 /\ Len(u) \in 0 .. Len(u) /\ 1 \in 1 .. Len(u) + 1 /\ n \in 0 .. Len(u)
  BY <1>1
<1> QED
  BY <1>2, <1>3, <1>4, <1>5

-----------------------------------------------------------------------------
(* What the journal owes: a record above the checkpoint is in line.        *)

LineOf(s) == Entries(work[s]) \cup Entries(buf[s])

\* While a shard hands out numbers, each record above its checkpoint, in the
\* file or still buffered, is of a write queued or being drained.
Owed(s) ==
  Counting(s) =>
    \A e \in Records(jfile[s]) \cup Loose(jbuf[s]) : e.seq > Ckpt(s) => e \in LineOf(s)

\* A failure is recorded of a number published, or about to be.
Below(s) ==
  /\ \A n \in failures[s] : n <= durable[s] \/ n <= pub[s]
  /\ dpc[s] \in {"idle", "notify"} => pub[s] <= durable[s]

\* The marks of a pass are watermarks, and no pass runs before a start.
Marked ==
  /\ mpc # "idle" => \A s \in Shard : marks[s] <= durable[s]
  /\ phase \in {"down", "replay"} => mpc = "idle"

OwedInv == (\A s \in Shard : Owed(s) /\ Below(s)) /\ Marked

\* What a step of a drain takes out of the line is covered by the checkpoint,
\* and applied unless it is the request rejected.
LEMMA DrainTakes ==
  ASSUME TypeOK, DrainHoldsWork, LineInv, NEW s \in Shard, Drain(s)
  PROVE  /\ LineOf(s)' \subseteq LineOf(s)
         /\ \A e \in LineOf(s) :
              \/ e \in LineOf(s)'
              \/ /\ e.seq <= Ckpt(s)'
                 /\ AppliedAt(s, e.req)' > 0 \/ (Reject(s) /\ e = Head(work[s]))
<1>0. work[s] \in Seq(Entry) /\ buf[s] \in Seq(Entry)
  BY LineType
<1>1. CASE DrainSwap(s)
  <2>1. work'[s] = buf[s] /\ buf'[s] = <<>> /\ dpc[s] = "idle"
    BY <1>1 DEF DrainSwap, TypeOK
  <2>2. work[s] = <<>> /\ Entries(<<>>) = {}
    BY <2>1 DEF LineInv, Line, Ended, Entries
  <2> QED
    BY <2>1, <2>2 DEF LineOf
<1>2. CASE DrainSync(s) \/ DrainBatchFails(s) \/ RetryFails(s) \/ DrainPublish(s) \/ DrainNotify(s)
  <2>1. work' = work /\ buf' = buf
    BY <1>2 DEF DrainSync, DrainBatchFails, RetryFails, DrainPublish, DrainNotify, queueVars
  <2> QED
    BY <2>1 DEF LineOf
<1>3. CASE DrainBatch(s)
  <2>1. /\ dpc[s] = "batch" /\ work'[s] = <<>> /\ buf'[s] = buf[s]
        /\ CommitTo(s, Copies(work[s], DOMAIN work[s]), work[s][Len(work[s])].seq)
    BY <1>3 DEF DrainBatch, TypeOK, queueVars
  <2>2. Entries(<<>>) = {}
    BY DEF Entries
  <2>3. \A e \in Entries(work[s]) : AppliedAt(s, e.req)' > 0 /\ e.seq <= Ckpt(s)'
    BY <2>1, BatchCovers
  <2> QED
    BY <2>1, <2>2, <2>3 DEF LineOf
<1>4. CASE Retry(s) \/ Reject(s)
  <2>1. /\ dpc[s] \in {"retry", "mark"} /\ work'[s] = Tail(work[s]) /\ buf'[s] = buf[s]
        /\ \/ CommitTo(s, Copies(work[s], {1}), Head(work[s]).seq)
           \/ Reject(s) /\ CommitTo(s, Copies(work[s], {}), Head(work[s]).seq)
    BY <1>4 DEF Retry, Reject, TypeOK, queueVars
  <2>2. Entries(work[s]) = {Head(work[s])} \cup Entries(Tail(work[s]))
    BY <1>0, <2>1, EntriesType DEF DrainHoldsWork
  <2>3. \A e : e = Head(work[s]) =>
          e.seq <= Ckpt(s)' /\ (AppliedAt(s, e.req)' > 0 \/ Reject(s))
    BY <2>1, HeadCovers
  <2> QED
    BY <2>1, <2>2, <2>3 DEF LineOf
<1>5. CASE Requeue(s)
  <2>1. work'[s] = <<>> /\ buf'[s] = work[s] \o buf[s]
    BY <1>5 DEF Requeue, TypeOK
  <2>2. Entries(work[s] \o buf[s]) = Entries(work[s]) \cup Entries(buf[s]) /\ Entries(<<>>) = {}
    BY <1>0, EntriesType
  <2> QED
    BY <2>1, <2>2 DEF LineOf
<1> QED
  BY <1>1, <1>2, <1>3, <1>4, <1>5 DEF Drain

\* The journal of a draining shard: at most its buffer is written out.
LEMMA DrainJournal ==
  ASSUME TypeOK, NEW s \in Shard, Drain(s)
  PROVE  /\ Whole(s)' = Whole(s)
         /\ Records(jfile'[s]) \cup Loose(jbuf'[s]) \subseteq Records(jfile[s]) \cup Loose(jbuf[s])
<1>1. jfile[s] \in Seq(Unit) /\ jbuf[s] \in Seq(Unit)
  BY DEF TypeOK
<1>2. CASE DrainSwap(s)
  <2>1. jfile'[s] = jfile[s] \o jbuf[s] /\ jbuf'[s] = <<>>
    BY <1>2 DEF DrainSwap, TypeOK
  <2>2. jfile[s] \o jbuf[s] \in Seq(Unit)
    BY <1>1, ConcatUnits
  <2>3. (jfile[s] \o jbuf[s]) \o <<>> = jfile[s] \o jbuf[s] /\ Loose(<<>>) = {}
    BY <2>2, ConcatEmptySeq DEF Loose
  <2> QED
    BY <1>1, <2>1, <2>3, JournalConcat DEF Whole
<1>3. CASE ~ DrainSwap(s)
  <2>1. jfile' = jfile /\ jbuf' = jbuf
    BY <1>3 DEF Drain, DrainSync, DrainBatch, DrainBatchFails, Retry, RetryFails,
                Reject, Requeue, DrainPublish, DrainNotify, queueVars
  <2> QED
    BY <2>1 DEF Whole
<1> QED
  BY <1>2, <1>3

\* Failures lie below the watermark when a drain has none to publish.
LEMMA DrainBelow ==
  ASSUME TypeOK, TypeOK', DrainHoldsWork, LineInv, NEW s \in Shard, Below(s), Drain(s)
  PROVE  Below(s)'
<1>1. /\ durable[s] \in Nat /\ pub[s] \in Nat /\ durable'[s] \in Nat /\ pub'[s] \in Nat
      /\ failures[s] \subseteq Nat
  BY DEF TypeOK
<1>2. CASE DrainSwap(s)
  <2>1. /\ failures'[s] = failures[s] /\ durable'[s] = durable[s] /\ pub'[s] = 0
        /\ dpc[s] = "idle" /\ dpc'[s] = "sync"
    BY <1>2 DEF DrainSwap, TypeOK
  <2>2. \A n \in failures[s] : n <= durable[s]
    BY <1>1, <2>1 DEF Below
  <2> QED
    BY <2>1, <2>2 DEF Below
<1>3. CASE DrainSync(s) \/ DrainBatchFails(s) \/ RetryFails(s) \/ DrainNotify(s)
  <2>1. /\ failures' = failures /\ durable' = durable /\ pub' = pub
        /\ dpc'[s] \in {"idle", "notify"} => dpc[s] = "notify"
    BY <1>3, ZenonT(30) DEF DrainSync, DrainBatchFails, RetryFails, DrainNotify, TypeOK
  <2> QED
    BY <2>1 DEF Below
<1>4. CASE DrainBatch(s) \/ Retry(s) \/ Reject(s)
  <2>1. /\ dpc[s] \in {"batch", "retry", "mark"} /\ durable'[s] = durable[s]
        /\ dpc'[s] \in {"publish", "retry"}
    <3>1. CASE DrainBatch(s)
      BY <3>1 DEF DrainBatch, TypeOK
    <3>2. CASE Retry(s)
      BY <3>2 DEF Retry, TypeOK
    <3>3. CASE Reject(s)
      BY <3>3 DEF Reject, TypeOK
    <3> QED
      BY <1>4, <3>1, <3>2, <3>3
  <2>2. pub'[s] = work[s][Len(work[s])].seq \/ pub'[s] = Head(work[s]).seq
    BY <1>4 DEF DrainBatch, Retry, Reject, TypeOK
  <2>3. failures'[s] \subseteq failures[s] \cup {pub'[s]}
    <3>1. CASE Reject(s)
      <4>1. /\ pub'[s] = Head(work[s]).seq
            /\ failures'[s] = failures[s] \cup {Head(work[s]).seq}
        BY <3>1 DEF Reject, TypeOK
      <4> QED
        BY <4>1
    <3>2. CASE DrainBatch(s) \/ Retry(s)
      BY <3>2 DEF DrainBatch, Retry
    <3> QED
      BY <1>4, <3>1, <3>2
  <2>4. pub'[s] > pub[s]
    <3>1. /\ Len(work[s]) \in DOMAIN work[s] /\ 1 \in DOMAIN work[s]
          /\ Head(work[s]) = work[s][1]
      BY <2>1, BatchType
    <3>2. Above(work[s], pub[s])
      BY DEF LineInv, Line, Unpublished
    <3> QED
      BY <2>2, <3>1, <3>2 DEF Above
  <2>5. \A n \in failures'[s] : n <= durable'[s] \/ n <= pub'[s]
    <3> SUFFICES ASSUME NEW n \in failures'[s] PROVE n <= durable'[s] \/ n <= pub'[s]
      OBVIOUS
    <3>1. CASE n = pub'[s]
      BY <1>1, <3>1
    <3>2. CASE n \in failures[s]
      <4>1. n \in Nat /\ (n <= durable[s] \/ n <= pub[s])
        BY <1>1, <3>2 DEF Below
      <4> QED
        BY <1>1, <2>1, <2>4, <4>1
    <3> QED
      BY <2>3, <3>1, <3>2
  <2> QED
    BY <2>1, <2>5 DEF Below
<1>5. CASE Requeue(s)
  <2>1. /\ failures' = failures /\ durable' = durable /\ pub' = pub
        /\ dpc'[s] = IF pub[s] > 0 THEN "publish" ELSE "idle"
    BY <1>5 DEF Requeue, TypeOK
  <2>2. ~ (pub[s] > 0) => pub[s] <= durable[s]
    BY <1>1
  <2> QED
    BY <2>1, <2>2 DEF Below
<1>6. CASE DrainPublish(s)
  <2>1. failures' = failures /\ pub' = pub /\ durable'[s] = Larger(durable[s], pub[s])
    BY <1>6 DEF DrainPublish, TypeOK
  <2>2. durable'[s] >= durable[s] /\ durable'[s] >= pub[s]
    BY <1>1, <2>1, LargerType
  <2> QED
    BY <1>1, <2>1, <2>2 DEF Below
<1> QED
  BY <1>2, <1>3, <1>4, <1>5, <1>6 DEF Drain

\* Every step of a drain keeps what the journals owe.
LEMMA DrainOwed ==
  ASSUME TypeOK, TypeOK', DrainHoldsWork, LineInv, OwedInv, NEW s \in Shard, Drain(s)
  PROVE  OwedInv'
<1>1. phase' = phase /\ unreplayed' = unreplayed /\ mpc' = mpc /\ marks' = marks
  BY DrainFrame DEF maintVars
<1>2. Owed(s)'
  <2> SUFFICES ASSUME Counting(s), NEW e \in Records(jfile'[s]) \cup Loose(jbuf'[s]),
                      e.seq > Ckpt(s)'
               PROVE  e \in LineOf(s)'
    BY <1>1 DEF Owed, Counting
  <2>1. e \in Records(jfile[s]) \cup Loose(jbuf[s])
    BY DrainJournal
  <2>2. Ckpt(s) \in Nat /\ Ckpt(s)' \in Nat /\ Ckpt(s)' >= Ckpt(s) /\ e.seq \in Nat
    <3>1. Ckpt(s)' \in Nat
      BY CkptTypeNext
    <3>2. e.seq \in Nat
      <4>1. jfile[s] \in Seq(Unit) /\ jbuf[s] \in Seq(Unit)
        BY DEF TypeOK
      <4>2. e \in Loose(jfile[s]) \cup Loose(jbuf[s])
        BY <2>1, <4>1, JournalConcat
      <4> QED
        BY <4>1, <4>2, LooseType
    <3> QED
      BY <3>1, <3>2, CkptType, DrainStores
  <2>3. e \in LineOf(s)
    BY <2>1, <2>2 DEF OwedInv, Owed
  <2> QED
    BY <2>2, <2>3, DrainTakes
<1>3. ASSUME NEW k \in Shard, k # s PROVE Owed(k)'
  <2>1. /\ jfile'[k] = jfile[k] /\ jbuf'[k] = jbuf[k] /\ work'[k] = work[k] /\ buf'[k] = buf[k]
        /\ Ckpt(k)' = Ckpt(k)
    BY <1>3, DrainElsewhere, DrainStores
  <2> QED
    BY <1>1, <2>1 DEF OwedInv, Owed, Counting, LineOf
<1>4. ASSUME NEW k \in Shard PROVE Below(k)'
  <2>1. CASE k = s
    BY <2>1, DrainBelow DEF OwedInv
  <2>2. CASE k # s
    BY <2>2, DrainElsewhere DEF OwedInv, Below
  <2> QED
    BY <2>1, <2>2
<1>5. Marked'
  <2> SUFFICES ASSUME mpc # "idle", NEW k \in Shard PROVE marks[k] <= durable'[k]
    BY <1>1 DEF OwedInv, Marked
  <2>1. marks[k] <= durable[k] /\ durable'[k] >= durable[k]
    BY DrainLine DEF OwedInv, Marked
  <2>2. marks[k] \in Nat /\ durable[k] \in Nat /\ durable'[k] \in Nat
    BY DEF TypeOK
  <2> QED
    BY <2>1, <2>2
<1> QED
  BY <1>2, <1>3, <1>4, <1>5 DEF OwedInv

\* A shard whose journal and line a step does not diminish owes no more.
LEMMA OwedStay ==
  ASSUME NEW k \in Shard, Owed(k), Counting(k)' => Counting(k), Ckpt(k)' = Ckpt(k),
         Records(jfile'[k]) \cup Loose(jbuf'[k]) \subseteq Records(jfile[k]) \cup Loose(jbuf[k]),
         work'[k] = work[k], buf'[k] = buf[k]
  PROVE  Owed(k)'
BY DEF Owed, LineOf

\* Concatenation of journals is associative.
LEMMA ConcatThree ==
  ASSUME NEW f \in Seq(Unit), NEW b \in Seq(Unit), NEW g \in Seq(Unit)
  PROVE  (f \o b) \o g = f \o (b \o g)
BY ConcatAssociative

\* The first n units of buffer b, with line g added, move to file f.
Moved(f, b, g, n) ==
  LET u == b \o g
  IN  /\ (f \o SubSeq(u, 1, n)) \o SubSeq(u, n + 1, Len(u)) = (f \o b) \o g
      /\ Records(f \o SubSeq(u, 1, n)) \cup Loose(SubSeq(u, n + 1, Len(u)))
           \subseteq Records(f) \cup Loose(b) \cup Loose(g)

\* Writing out a part of a buffer adds no record, and leaves the whole.
LEMMA WriteOut ==
  ASSUME NEW f \in Seq(Unit), NEW b \in Seq(Unit), NEW g \in Seq(Unit),
         NEW n \in 0 .. Len(b) + Len(g)
  PROVE  Moved(f, b, g, n)
<1> DEFINE u == b \o g
<1>1. u \in Seq(Unit) /\ Len(u) = Len(b) + Len(g)
  BY ConcatUnits
<1>2. Loose(u) \subseteq Loose(b) \cup Loose(g)
  BY JournalConcat
<1>3. (f \o b) \o g = f \o u
  BY ConcatThree, Zenon
<1> HIDE DEF u
<1>4. n \in 0 .. Len(u)
  BY <1>1
<1> DEFINE out  == SubSeq(u, 1, n)
           rest == SubSeq(u, n + 1, Len(u))
<1>5. /\ out \in Seq(Unit) /\ rest \in Seq(Unit) /\ out \o rest = u
      /\ Loose(out) \subseteq Loose(u) /\ Loose(rest) \subseteq Loose(u)
  BY <1>1, <1>4, JournalSplit
<1> HIDE DEF out, rest
<1>6. Records(f \o out) \subseteq Records(f) \cup Loose(out)
  BY <1>5, JournalConcat
<1>7. (f \o out) \o rest = f \o u
  <2>1. out \in Seq(Unit) /\ rest \in Seq(Unit)
    BY <1>5
  <2>2. (f \o out) \o rest = f \o (out \o rest)
    BY <2>1, ConcatThree, Zenon
  <2>3. out \o rest = u
    BY <1>5
  <2> QED
    BY <2>2, <2>3, Zenon
<1>8. (f \o out) \o rest = (f \o b) \o g
  BY <1>3, <1>7, Zenon
<1>9. Records(f \o out) \cup Loose(rest) \subseteq Records(f) \cup Loose(b) \cup Loose(g)
  BY <1>2, <1>5, <1>6
<1> QED
  BY <1>8, <1>9, Zenon DEF Moved, out, rest, u

\* A submission takes the next number, joins the line and appends its line to
\* the journal, whose file gets no shorter.
Submitted(s, e) ==
  /\ e.seq = nextSeq[s] + 1
  /\ LineOf(s)' = LineOf(s) \cup {e}
  /\ Whole(s)' = Whole(s) \o <<Record(e.seq, e.req), Mark("nl")>>
  /\ Len(jfile'[s]) >= Len(jfile[s])

\* A submission writes out a part of the buffered journal and of its record.
LEMMA SubmitJournal ==
  ASSUME TypeOK,
         NEW c \in Client, NEW r \in Request, NEW waits \in BOOLEAN,
         Submit(c, r, waits)
  PROVE  /\ phase = "up" /\ phase' = phase /\ db' = db
         /\ \E s \in Shard, e \in Entry :
              /\ s = ShardOf(r) /\ e.req = r /\ Submitted(s, e)
              /\ Records(jfile'[s]) \cup Loose(jbuf'[s])
                   \subseteq Records(jfile[s]) \cup Loose(jbuf[s]) \cup {e}
              /\ Whole(s)' = Whole(s) \o <<Record(e.seq, e.req), Mark("nl")>>
              /\ LineOf(s)' = LineOf(s) \cup {e}
              /\ \A k \in Shard \ {s} : /\ jfile'[k] = jfile[k] /\ jbuf'[k] = jbuf[k]
                                        /\ work'[k] = work[k] /\ buf'[k] = buf[k]
<1>1. ShardOf(r) \in Shard /\ nextSeq[ShardOf(r)] + 1 \in Nat
  BY RoutingType DEF TypeOK
<1>2. PICK s \in Shard : s = ShardOf(r)
  BY <1>1
<1>3. PICK e \in Entry : e = [seq |-> nextSeq[s] + 1, req |-> r]
  BY <1>1, <1>2 DEF Entry
<1>4. jfile[s] \in Seq(Unit) /\ jbuf[s] \in Seq(Unit) /\ buf[s] \in Seq(Entry)
  BY DEF TypeOK
<1>5. PICK g : g = <<Record(e.seq, e.req), Mark("nl")>>
  OBVIOUS
<1>6. g \in Seq(Unit) /\ Loose(g) = {e} /\ Len(g) = 2
  <2>1. EndsLine(<<>>) /\ <<>> \in Seq(Unit)
    BY DEF EndsLine
  <2>2. g \in Seq(Unit) /\ Loose(g) = {e}
    BY <1>5, <2>1, JournalAppend
  <2> QED
    BY <1>5, <2>2
<1>7. PICK u : u = jbuf[s] \o g
  OBVIOUS
<1>8. PICK n \in {0, Len(jbuf[s]), Len(jbuf[s]) + 1} :
        /\ jfile' = [jfile EXCEPT ![s] = @ \o SubSeq(u, 1, n)]
        /\ jbuf' = [jbuf EXCEPT ![s] = SubSeq(u, n + 1, Len(u))]
  BY <1>2, <1>3, <1>5, <1>7 DEF Submit
<1>9. /\ phase = "up" /\ phase' = phase /\ db' = db /\ work' = work
      /\ buf' = [buf EXCEPT ![s] = Append(@, e)]
  BY <1>2, <1>3 DEF Submit, drainVars, storeVars
<1>10. jfile'[s] = jfile[s] \o SubSeq(u, 1, n) /\ jbuf'[s] = SubSeq(u, n + 1, Len(u))
  BY <1>8 DEF TypeOK
<1>11. /\ jfile'[s] \o jbuf'[s] = (jfile[s] \o jbuf[s]) \o g
      /\ Records(jfile'[s]) \cup Loose(jbuf'[s])
           \subseteq Records(jfile[s]) \cup Loose(jbuf[s]) \cup {e}
  <2>1. n \in 0 .. Len(jbuf[s]) + Len(g)
    BY <1>4, <1>6, LenProperties
  <2>2. Moved(jfile[s], jbuf[s], g, n)
    BY <1>4, <1>6, <2>1, WriteOut
  <2> QED
    BY <1>10, <1>6, <1>7, <2>2, Zenon DEF Moved
<1>12. LineOf(s)' = LineOf(s) \cup {e}
  <2>1. buf'[s] = Append(buf[s], e) /\ work'[s] = work[s]
    BY <1>9 DEF TypeOK
  <2> QED
    BY <1>4, <2>1, EntriesType DEF LineOf
<1>13. \A k \in Shard \ {s} : /\ jfile'[k] = jfile[k] /\ jbuf'[k] = jbuf[k]
                              /\ work'[k] = work[k] /\ buf'[k] = buf[k]
  BY <1>8, <1>9 DEF TypeOK
<1>14. e.req = r /\ e.seq = nextSeq[s] + 1
  BY <1>3
<1>15. Whole(s)' = Whole(s) \o <<Record(e.seq, e.req), Mark("nl")>>
  BY <1>5, <1>11 DEF Whole
<1>16. Len(jfile'[s]) >= Len(jfile[s])
  <2>1. u \in Seq(Unit) /\ n \in 0 .. Len(u)
    <3>1. u \in Seq(Unit) /\ Len(u) = Len(jbuf[s]) + Len(g) /\ Len(jbuf[s]) \in Nat
      BY <1>4, <1>6, <1>7, ConcatUnits
    <3> QED
      BY <1>6, <3>1
  <2>2. PICK out \in Seq(Unit) : out = SubSeq(u, 1, n)
    BY <2>1, JournalSplit
  <2>3. Len(jfile[s] \o out) = Len(jfile[s]) + Len(out) /\ Len(out) \in Nat /\ Len(jfile[s]) \in Nat
    BY <1>4, ConcatUnits
  <2>4. jfile'[s] = jfile[s] \o out
    BY <1>10, <2>2
  <2>5. Len(jfile'[s]) = Len(jfile[s]) + Len(out)
    BY <2>3, <2>4
  <2> QED
    BY <2>3, <2>5
<1>17. Submitted(s, e)
  BY <1>12, <1>14, <1>15, <1>16 DEF Submitted
<1> QED
  BY <1>2, <1>9, <1>11, <1>12, <1>13, <1>14, <1>15, <1>17

\* Every step keeps what the journals owe.
LEMMA NextOwed ==
  ASSUME TypeOK, TypeOK', DrainHoldsWork, LineInv, CheckpointInv, OwedInv, [Next]_vars
  PROVE  OwedInv'
<1>1. ASSUME NEW c \in Client, NEW r \in Request, NEW waits \in BOOLEAN, Submit(c, r, waits)
      PROVE  OwedInv'
  <2>1. /\ failures' = failures /\ durable' = durable /\ pub' = pub /\ dpc' = dpc
        /\ mpc' = mpc /\ marks' = marks
    BY <1>1 DEF Submit, drainVars, maintVars
  <2>2. PICK s \in Shard, e \in Entry :
          /\ Records(jfile'[s]) \cup Loose(jbuf'[s])
               \subseteq Records(jfile[s]) \cup Loose(jbuf[s]) \cup {e}
          /\ LineOf(s)' = LineOf(s) \cup {e}
          /\ \A k \in Shard \ {s} : /\ jfile'[k] = jfile[k] /\ jbuf'[k] = jbuf[k]
                                    /\ work'[k] = work[k] /\ buf'[k] = buf[k]
    BY <1>1, SubmitJournal, ZenonT(30)
  <2>3. /\ phase = "up" /\ phase' = phase
        /\ \A k \in Shard : Counting(k) /\ Owed(k) /\ Ckpt(k)' = Ckpt(k)
    BY <1>1, SubmitJournal DEF Ckpt, Counting, OwedInv
  <2>4. Owed(s)'
    BY <2>2, <2>3 DEF Owed
  <2>5. ASSUME NEW k \in Shard \ {s} PROVE Owed(k)'
    BY <2>2, <2>3, OwedStay
  <2>6. \A k \in Shard : Owed(k)'
    BY <2>4, <2>5
  <2> QED
    BY <2>1, <2>3, <2>6 DEF OwedInv, Below, Marked
<1>2. CASE \/ \E c \in Client : Wait(c)
           \/ \E p \in Snapshotter :
                PauseAdmissions(p) \/ SnapshotReady(p) \/ ResumeAdmissions(p)
           \/ UNCHANGED vars
  <2>1. /\ UNCHANGED <<phase, unreplayed, db, jfile, jbuf, work, buf, failures>>
        /\ UNCHANGED <<durable, pub, dpc, mpc, marks>>
    BY <1>2 DEF Wait, WaitReturn, WaitCheck, WaitPark, PauseAdmissions, SnapshotReady,
                ResumeAdmissions, vars, queueVars, drainVars, storeVars, maintVars
  <2>2. \A k \in Shard : Owed(k)'
    BY <2>1 DEF OwedInv, Owed, Counting, LineOf, Ckpt
  <2> QED
    BY <2>1, <2>2 DEF OwedInv, Below, Marked
<1>3. CASE \E s \in Shard : Drain(s)
  BY <1>3, DrainOwed
<1>4. CASE Maintenance
  <2>1. UNCHANGED <<phase, unreplayed, db, work, buf, failures, durable, pub, dpc>>
    BY <1>4 DEF Maintenance, MaintBegin, MaintAbort, MaintCheckpoint, MaintTruncate,
                queueVars, drainVars, storeVars
  <2>2. ASSUME NEW k \in Shard
        PROVE  Records(jfile'[k]) \cup Loose(jbuf'[k]) \subseteq Records(jfile[k]) \cup Loose(jbuf[k])
    <3>1. CASE jfile'[k] = jfile[k] /\ jbuf'[k] = jbuf[k]
      BY <3>1
    <3>2. CASE jbuf'[k] = <<>> /\ jfile'[k] \in {<<>>, jfile[k] \o jbuf[k]}
      <4>1. jfile[k] \in Seq(Unit) /\ jbuf[k] \in Seq(Unit)
        BY DEF TypeOK
      <4>2. Loose(<<>>) = {} /\ Records(<<>>) = {}
        BY DEF Loose, Records, Parsed
      <4> QED
        BY <3>2, <4>1, <4>2, JournalConcat
    <3>3. \/ jfile'[k] = jfile[k] /\ jbuf'[k] = jbuf[k]
          \/ jbuf'[k] = <<>> /\ jfile'[k] \in {<<>>, jfile[k] \o jbuf[k]}
      <4>1. CASE \E s \in Shard : MaintTruncate(s)
        <5>1. PICK s \in Shard : MaintTruncate(s)
          BY <4>1
        <5>2. CASE buf[s] = <<>> /\ nextSeq[s] = marks[s]
          <6>1. /\ jbuf' = [jbuf EXCEPT ![s] = <<>>]
                /\ \/ jfile' = [jfile EXCEPT ![s] = <<>>]
                   \/ jfile' = [jfile EXCEPT ![s] = @ \o jbuf[s]]
            BY <5>1, <5>2 DEF MaintTruncate
          <6>2. CASE k = s
            BY <6>1, <6>2, SMTT(30) DEF TypeOK
          <6>3. CASE k # s
            BY <6>1, <6>3, ZenonT(30) DEF TypeOK
          <6> QED
            BY <6>2, <6>3
        <5>3. CASE ~ (buf[s] = <<>> /\ nextSeq[s] = marks[s])
          BY <5>1, <5>3 DEF MaintTruncate
        <5> QED
          BY <5>2, <5>3
      <4>2. CASE MaintBegin \/ MaintAbort \/ \E d \in Domain : MaintCheckpoint(d)
        BY <4>2 DEF MaintBegin, MaintAbort, MaintCheckpoint, queueVars
      <4> QED
        BY <1>4, <4>1, <4>2 DEF Maintenance
    <3> QED
      BY <3>1, <3>2, <3>3
  <2>3. ASSUME NEW k \in Shard PROVE Owed(k)'
    <3>1. /\ Owed(k) /\ (Counting(k)' => Counting(k)) /\ Ckpt(k)' = Ckpt(k)
          /\ work'[k] = work[k] /\ buf'[k] = buf[k]
      BY <2>1 DEF OwedInv, Counting, Ckpt
    <3> QED
      BY <2>2, <3>1, OwedStay
  <2>4. Marked'
    <3>1. CASE MaintBegin
      <4>1. marks' = durable /\ phase \in {"up", "closing"}
        BY <3>1 DEF MaintBegin, BeginMaintenance, Running
      <4>2. \A k \in Shard : durable[k] <= durable[k]
        BY LineType
      <4> QED
        BY <2>1, <4>1, <4>2 DEF Marked
    <3>2. CASE ~ MaintBegin
      <4>1. marks' = marks /\ mpc # "idle"
        BY <1>4, <3>2 DEF Maintenance, MaintAbort, MaintCheckpoint, MaintTruncate
      <4> QED
        BY <2>1, <4>1 DEF OwedInv, Marked
    <3> QED
      BY <3>1, <3>2
  <2>5. \A k \in Shard : Below(k)'
    BY <2>1 DEF OwedInv, Below
  <2> QED
    BY <2>3, <2>4, <2>5 DEF OwedInv
<1>5. CASE StartEngine
  <2>1. /\ phase' = "replay" /\ unreplayed' = Shard /\ phase = "down"
        /\ UNCHANGED <<failures, durable, pub, dpc, mpc, marks>>
    BY <1>5 DEF StartEngine, drainVars, maintVars
  <2>2. \A k \in Shard : ~ Counting(k)'
    BY <2>1 DEF Counting
  <2> QED
    BY <2>1, <2>2 DEF OwedInv, Owed, Below, Marked
<1>6. ASSUME NEW s \in Shard, ReplayShard(s) PROVE OwedInv'
  <2>1. /\ phase = "replay" /\ phase' = phase /\ CommitPending(s)
        /\ unreplayed' = unreplayed \ {s}
        /\ UNCHANGED <<buf, work, jfile, jbuf, failures, durable, pub, dpc, mpc, marks>>
    BY <1>6 DEF ReplayShard, drainVars, maintVars
  <2>2. Owed(s)'
    <3>1. HighestSeq(jfile[s], Parsed(jfile[s]), Ckpt(s)) <= Ckpt(s)'
      BY <2>1, ReplayCovers
    <3>2. /\ Parsed(jfile[s]) \in SUBSET (1 .. Len(jfile[s])) /\ Ckpt(s) \in Nat
          /\ jfile[s] \in Seq(Unit) /\ Ckpt(s)' \in Nat
      BY ReplayType, CkptTypeNext DEF TypeOK
    <3>3. /\ HighestSeq(jfile[s], Parsed(jfile[s]), Ckpt(s)) \in Nat
          /\ \A i \in Parsed(jfile[s]) :
               jfile[s][i].seq <= HighestSeq(jfile[s], Parsed(jfile[s]), Ckpt(s))
      BY <3>2, HighestSeqType
    <3>4. \A e \in Records(jfile[s]) : e.seq \in Nat
      BY <3>2, LooseType, JournalConcat
    <3>5. \A e \in Records(jfile[s]) : e.seq <= HighestSeq(jfile[s], Parsed(jfile[s]), Ckpt(s))
      BY <3>3 DEF Records, EntryOf
    <3>6. \A e \in Records(jfile[s]) : ~ (e.seq > Ckpt(s)')
      BY <3>1, <3>2, <3>3, <3>4, <3>5
    <3>7. jbuf[s] = <<>> /\ Loose(<<>>) = {}
      BY <2>1 DEF CheckpointInv, BufferedOnlyUp, Loose
    <3> QED
      BY <2>1, <3>6, <3>7 DEF Owed
  <2>3. ASSUME NEW k \in Shard \ {s} PROVE Owed(k)'
    <3>1. Ckpt(k)' = Ckpt(k)
      BY <2>1, ReplayExact
    <3>2. Owed(k) /\ (Counting(k)' => Counting(k))
      BY <2>1 DEF OwedInv, Counting
    <3> QED
      BY <2>1, <3>1, <3>2, OwedStay
  <2>4. \A k \in Shard : Owed(k)'
    BY <2>2, <2>3
  <2> QED
    BY <2>1, <2>4 DEF OwedInv, Below, Marked
<1>7. CASE StartFinish
  <2>1. /\ phase = "replay" /\ phase' = "boot" /\ unreplayed = {}
        /\ durable' = nextSeq /\ marks' = nextSeq
        /\ UNCHANGED <<db, buf, work, jfile, jbuf, failures, pub, dpc>>
    BY <1>7 DEF StartFinish, BeginMaintenance, queueVars, drainVars, storeVars
  <2>2. ASSUME NEW k \in Shard PROVE Owed(k)'
    <3>1. /\ Owed(k) /\ (Counting(k)' => Counting(k)) /\ Ckpt(k)' = Ckpt(k)
      BY <2>1 DEF OwedInv, Counting, Ckpt
    <3> QED
      BY <2>1, <3>1, OwedStay
  <2>3. ASSUME NEW k \in Shard PROVE Below(k)' /\ marks'[k] <= durable'[k]
    <3>1. /\ durable[k] = 0 /\ pub[k] = 0 /\ nextSeq[k] \in Nat /\ failures[k] \subseteq Nat
      BY <2>1 DEF LineInv, Dormant, TypeOK
    <3>2. \A n \in failures[k] : n <= nextSeq[k]
      BY <3>1 DEF OwedInv, Below
    <3> QED
      BY <2>1, <3>1, <3>2 DEF Below
  <2> QED
    BY <2>1, <2>2, <2>3 DEF OwedInv, Marked
<1>8. CASE SpawnFlushers \/ Shutdown \/ RequestShutdown
  <2>1. /\ UNCHANGED <<db, jfile, jbuf, work, buf, failures, durable, pub, dpc, mpc, marks>>
        /\ phase \notin {"down", "replay"} /\ phase' \notin {"down", "replay"}
    BY <1>8 DEF SpawnFlushers, Shutdown, RequestShutdown, queueVars, drainVars, storeVars,
                maintVars
  <2>2. \A k \in Shard : Owed(k)'
    BY <2>1 DEF OwedInv, Owed, Counting, LineOf, Ckpt
  <2> QED
    BY <2>1, <2>2 DEF OwedInv, Below, Marked
<1>9. CASE JoinFlushers
  <2>1. /\ UNCHANGED <<db, jfile, jbuf, work, buf, failures, durable, pub, dpc>>
        /\ phase = "joining" /\ phase' = "final" /\ marks' = durable
    BY <1>9 DEF JoinFlushers, BeginMaintenance, queueVars, drainVars, storeVars
  <2>2. \A k \in Shard : Owed(k)'
    BY <2>1 DEF OwedInv, Owed, Counting, LineOf, Ckpt
  <2>3. \A k \in Shard : durable[k] <= durable[k]
    BY LineType
  <2> QED
    BY <2>1, <2>2, <2>3 DEF OwedInv, Below, Marked
<1>10. CASE LoseMemory
  <2>1. /\ phase' = "down" /\ mpc' = "idle"
        /\ \A k \in Shard : failures'[k] = {} /\ pub'[k] = 0 /\ durable'[k] = 0
    BY <1>10 DEF LoseMemory
  <2>2. 0 <= 0
    OBVIOUS
  <2> QED
    BY <2>1, <2>2 DEF OwedInv, Owed, Counting, Below, Marked
<1>11. CASE \/ \E s \in Shard : ReplayFails(s)
            \/ ShutdownDone \/ DropEngine \/ ProcessCrash \/ PowerLoss
  BY <1>10, <1>11 DEF ReplayFails, ShutdownDone, DropEngine, ProcessCrash, PowerLoss
<1> QED
  BY <1>1, <1>2, <1>3, <1>4, <1>5, <1>6, <1>7, <1>8, <1>9, <1>11 DEF Next, Start

\* In every reachable state the journals owe nothing that is not in line: what
\* replay would apply after a crash is queued or being drained.
THEOREM OwedCorrect == Spec => [](TypeOK /\ OwedInv)
<1>1. Init => OwedInv
  <2> SUFFICES ASSUME Init PROVE OwedInv
    OBVIOUS
  <2>1. /\ phase = "down" /\ mpc = "idle"
        /\ \A k \in Shard : failures[k] = {} /\ pub[k] = 0 /\ durable[k] = 0
    BY DEF Init
  <2>2. 0 <= 0
    OBVIOUS
  <2> QED
    BY <2>1, <2>2 DEF OwedInv, Owed, Counting, Below, Marked
<1>2. /\ TypeOK /\ DrainHoldsWork /\ LineInv /\ CheckpointInv /\ OwedInv
      /\ TypeOK' /\ [Next]_vars
      => OwedInv'
  BY NextOwed
<1> QED
  BY <1>1, <1>2, LineCorrect, CheckpointCorrect, PTL DEF Spec

-----------------------------------------------------------------------------
(* What is in line is in the journal, and parses, as long as a line is     *)
(* begun where a line ended.                                               *)

Journaled(s) == LineOf(s) \subseteq Records(Whole(s))

Tails(s) == phase \notin {"down", "replay", "boot"} => EndsLine(Whole(s))

JournalInv == \A s \in Shard : Journaled(s) /\ Tails(s)

\* The journals that the maintenance pass of a start leaves to be written on.
BootTails ==
  phase = "boot" /\ mpc = "idle" => \A s \in Shard : EndsLine(Whole(s))

\* A shard whose journal a step leaves as it is, and whose line it only empties.
LEMMA JournalStay ==
  ASSUME NEW k \in Shard, Journaled(k), Tails(k), Whole(k)' = Whole(k),
         LineOf(k)' \subseteq LineOf(k),
         phase' \in {"down", "replay", "boot"} \/ phase \notin {"down", "replay", "boot"}
  PROVE  Journaled(k)' /\ Tails(k)'
BY DEF Journaled, Tails

\* Before the engine is up, and when it is gone, nothing is in line.
LEMMA JournalDown ==
  ASSUME LineInv', phase' \in {"down", "replay", "boot"}
  PROVE  JournalInv'
<1>1. \A k \in Shard : buf'[k] = <<>> /\ work'[k] = <<>>
  BY DEF LineInv, Dormant, Line, Ended
<1>2. \A k \in Shard : LineOf(k)' = {}
  BY <1>1 DEF LineOf, Entries
<1> QED
  BY <1>2 DEF JournalInv, Journaled, Tails

\* Every step keeps what is in line in the journal.
LEMMA NextJournal ==
  ASSUME TypeOK, TypeOK', DrainHoldsWork, LineInv, LineInv', OwedInv, BootTails,
         JournalInv, [Next]_vars
  PROVE  JournalInv'
<1>1. ASSUME NEW c \in Client, NEW r \in Request, NEW waits \in BOOLEAN, Submit(c, r, waits)
      PROVE  JournalInv'
  <2>1. PICK s \in Shard, e \in Entry :
          /\ Whole(s)' = Whole(s) \o <<Record(e.seq, e.req), Mark("nl")>>
          /\ LineOf(s)' = LineOf(s) \cup {e}
          /\ \A k \in Shard \ {s} : /\ jfile'[k] = jfile[k] /\ jbuf'[k] = jbuf[k]
                                    /\ work'[k] = work[k] /\ buf'[k] = buf[k]
    BY <1>1, SubmitJournal
  <2>2. phase = "up" /\ phase' = phase
    BY <1>1, SubmitJournal
  <2>3. Journaled(s)' /\ Tails(s)'
    <3>1. jfile[s] \in Seq(Unit) /\ jbuf[s] \in Seq(Unit)
      BY DEF TypeOK
    <3>2. Whole(s) \in Seq(Unit)
      BY <3>1, ConcatUnits DEF Whole
    <3>3. EndsLine(Whole(s)) /\ LineOf(s) \subseteq Records(Whole(s))
      BY <2>2 DEF JournalInv, Journaled, Tails
    <3>4. Records(Whole(s)) \cup {e} \subseteq Records(Whole(s)') /\ EndsLine(Whole(s)')
      BY <2>1, <3>2, <3>3, JournalAppend
    <3>5. LineOf(s)' \subseteq Records(Whole(s)')
      BY <2>1, <3>3, <3>4
    <3> QED
      BY <3>4, <3>5 DEF Journaled, Tails
  <2>4. ASSUME NEW k \in Shard \ {s} PROVE Journaled(k)' /\ Tails(k)'
    <3>1. Whole(k)' = Whole(k) /\ LineOf(k)' = LineOf(k)
      BY <2>1 DEF Whole, LineOf
    <3> QED
      BY <2>2, <3>1 DEF JournalInv, Journaled, Tails
  <2> QED
    BY <2>3, <2>4 DEF JournalInv
<1>2. CASE \/ \E c \in Client : Wait(c)
           \/ \E p \in Snapshotter :
                PauseAdmissions(p) \/ SnapshotReady(p) \/ ResumeAdmissions(p)
           \/ UNCHANGED vars
  <2>1. UNCHANGED <<phase, jfile, jbuf, work, buf>>
    BY <1>2 DEF Wait, WaitReturn, WaitCheck, WaitPark, PauseAdmissions, SnapshotReady,
                ResumeAdmissions, vars, queueVars, drainVars
  <2> QED
    BY <2>1 DEF JournalInv, Journaled, Tails, LineOf, Whole
<1>3. ASSUME NEW s \in Shard, Drain(s) PROVE JournalInv'
  <2>1. phase' = phase
    BY <1>3, DrainFrame
  <2>2. ASSUME NEW k \in Shard PROVE Whole(k)' = Whole(k) /\ LineOf(k)' \subseteq LineOf(k)
    <3>1. CASE k = s
      BY <1>3, <3>1, DrainJournal, DrainTakes
    <3>2. CASE k # s
      BY <1>3, <3>2, DrainElsewhere DEF Whole, LineOf
    <3> QED
      BY <3>1, <3>2
  <2> QED
    BY <2>1, <2>2, JournalStay DEF JournalInv
<1>4. CASE MaintBegin \/ MaintAbort \/ \E d \in Domain : MaintCheckpoint(d)
  <2>1. UNCHANGED <<phase, jfile, jbuf, work, buf>>
    BY <1>4 DEF MaintBegin, MaintAbort, MaintCheckpoint, queueVars, drainVars
  <2> QED
    BY <2>1 DEF JournalInv, Journaled, Tails, LineOf, Whole
<1>5. ASSUME NEW s \in Shard, MaintTruncate(s) PROVE JournalInv'
  <2>1. UNCHANGED <<phase, work, buf>> /\ mpc = "truncate"
    BY <1>5 DEF MaintTruncate, drainVars
  <2>2. ASSUME NEW k \in Shard, Whole(k)' = Whole(k) PROVE Journaled(k)' /\ Tails(k)'
    <3>1. LineOf(k)' = LineOf(k)
      BY <2>1 DEF LineOf
    <3> QED
      BY <2>1, <2>2, <3>1 DEF JournalInv, Journaled, Tails
  <2>3. CASE ~ (buf[s] = <<>> /\ nextSeq[s] = marks[s])
    <3>1. jfile' = jfile /\ jbuf' = jbuf
      BY <1>5, <2>3 DEF MaintTruncate
    <3> QED
      BY <2>2, <3>1 DEF JournalInv, Whole
  <2>4. CASE buf[s] = <<>> /\ nextSeq[s] = marks[s]
    <3>1. jbuf' = [jbuf EXCEPT ![s] = <<>>] /\ jbuf'[s] = <<>>
      BY <1>5, <2>4 DEF MaintTruncate, TypeOK
    <3>2. CASE jfile' = [jfile EXCEPT ![s] = <<>>]
      <4>1. ASSUME NEW k \in Shard \ {s} PROVE Whole(k)' = Whole(k)
        BY <3>1, <3>2 DEF TypeOK, Whole
      <4>2. jfile'[s] = <<>> /\ <<>> \o <<>> = <<>>
        BY <3>2 DEF TypeOK
      <4>3. EndsLine(Whole(s))'
        BY <3>1, <4>2 DEF Whole, EndsLine
      <4>4. LineOf(s)' = {}
        <5>1. durable[s] >= nextSeq[s]
          <6>1. marks[s] <= durable[s] /\ marks[s] \in Nat /\ durable[s] \in Nat
            BY <2>1 DEF OwedInv, Marked, TypeOK
          <6> QED
            BY <2>4, <6>1
        <5>2. buf[s] = <<>> /\ work[s] = <<>>
          BY <5>1, NothingLeft
        <5> QED
          BY <2>1, <5>2 DEF LineOf, Entries
      <4> QED
        BY <2>2, <4>1, <4>3, <4>4 DEF JournalInv, Journaled, Tails
    <3>3. CASE jfile' = [jfile EXCEPT ![s] = @ \o jbuf[s]]
      <4>1. ASSUME NEW k \in Shard \ {s} PROVE Whole(k)' = Whole(k)
        BY <3>1, <3>3 DEF TypeOK, Whole
      <4>2. Whole(s)' = Whole(s)
        <5>1. jfile[s] \in Seq(Unit) /\ jbuf[s] \in Seq(Unit) /\ jfile'[s] = jfile[s] \o jbuf[s]
          BY <3>3 DEF TypeOK
        <5>2. jfile[s] \o jbuf[s] \in Seq(Unit)
          BY <5>1, ConcatUnits
        <5>3. (jfile[s] \o jbuf[s]) \o <<>> = jfile[s] \o jbuf[s]
          BY <5>2, ConcatEmptySeq
        <5> QED
          BY <3>1, <5>1, <5>3 DEF Whole
      <4> QED
        BY <2>2, <4>1, <4>2 DEF JournalInv
    <3> QED
      BY <1>5, <2>4, <3>2, <3>3 DEF MaintTruncate
  <2> QED
    BY <2>3, <2>4
<1>6. CASE StartEngine \/ StartFinish \/ \E s \in Shard : ReplayShard(s)
  <2>1. phase' \in {"replay", "boot"}
    BY <1>6 DEF StartEngine, StartFinish, ReplayShard
  <2> QED
    BY <2>1, JournalDown
<1>7. CASE SpawnFlushers
  <2>1. /\ phase = "boot" /\ mpc = "idle" /\ UNCHANGED <<jfile, jbuf, work, buf>>
    BY <1>7 DEF SpawnFlushers, queueVars, drainVars
  <2>2. \A k \in Shard : Whole(k)' = Whole(k) /\ LineOf(k)' = LineOf(k) /\ EndsLine(Whole(k))
    BY <2>1 DEF BootTails, Whole, LineOf
  <2> QED
    BY <2>2 DEF JournalInv, Journaled, Tails
<1>8. CASE Shutdown \/ RequestShutdown \/ JoinFlushers
  <2>1. /\ phase \notin {"down", "replay", "boot"} /\ UNCHANGED <<jfile, jbuf, work, buf>>
    BY <1>8 DEF Shutdown, RequestShutdown, JoinFlushers, queueVars, drainVars
  <2>2. \A k \in Shard : Whole(k)' = Whole(k) /\ LineOf(k)' = LineOf(k)
    BY <2>1 DEF Whole, LineOf
  <2> QED
    BY <2>1, <2>2, JournalStay DEF JournalInv
<1>9. CASE \/ \E s \in Shard : ReplayFails(s)
           \/ ShutdownDone \/ DropEngine \/ ProcessCrash \/ PowerLoss
  <2>1. phase' = "down"
    BY <1>9 DEF ReplayFails, ShutdownDone, DropEngine, ProcessCrash, PowerLoss, LoseMemory
  <2> QED
    BY <2>1, JournalDown
<1> QED
  BY <1>1, <1>2, <1>3, <1>4, <1>5, <1>6, <1>7, <1>8, <1>9 DEF Next, Start, Maintenance

-----------------------------------------------------------------------------
(* Two environments in which a start leaves journals to be written on:     *)
(* writes are whole lines, or its maintenance pass reclaims every journal. *)

\* No write tears a line, by a power loss or where a BufWriter is full.
WholeWrites == Faults \cap {"torn", "mangled", "midline"} = {}

\* Every checkpoint and every truncation of a pass succeeds.
FullPasses == Faults \cap {"busy", "ckpterror", "setlen"} = {}

\* Files and buffers hold whole lines, and so does what an fsync made safe.
LinesWhole ==
  \A s \in Shard :
    /\ EndsLine(jfile[s]) /\ EndsLine(jbuf[s])
    /\ jsync[s] \in 0 .. Len(jfile[s])
    /\ jsync[s] > 0 => jfile[s][jsync[s]].kind = "nl"

\* A journal cut after a line, and what follows the cut.
LEMMA SplitEnds ==
  ASSUME NEW u \in Seq(Unit), NEW n \in 0 .. Len(u), n > 0 => u[n].kind = "nl"
  PROVE  /\ EndsLine(SubSeq(u, 1, n))
         /\ EndsLine(u) => EndsLine(SubSeq(u, n + 1, Len(u)))
<1>1. Len(u) \in Nat /\ DOMAIN u = 1 .. Len(u)
  BY LenProperties
<1>2. ASSUME NEW m \in 1 .. Len(u) + 1, NEW k \in 0 .. Len(u), k > 0 => u[k].kind = "nl"
      PROVE  EndsLine(SubSeq(u, m, k))
  <2> DEFINE v == SubSeq(u, m, k)
  <2>0. m \in Int /\ k \in Int /\ \A i \in m .. k : i \in 1 .. Len(u)
    BY <1>1
  <2>1. \A i \in m .. k : u[i] \in Unit
    BY <1>1, <2>0
  <2>2. /\ v \in Seq(Unit) /\ Len(v) = IF m <= k THEN k - m + 1 ELSE 0
        /\ \A i \in 1 .. k - m + 1 : v[i] = u[m + i - 1]
    BY <2>0, <2>1, SubSeqProperties
  <2> HIDE DEF v
  <2>3. CASE m <= k
    <3>1. k - m + 1 \in 1 .. k - m + 1 /\ m + (k - m + 1) - 1 = k /\ k > 0
      BY <1>1, <2>3
    <3>2. v[k - m + 1] = u[k]
      BY <2>2, <3>1
    <3> QED
      BY <1>2, <2>2, <2>3, <3>1, <3>2 DEF EndsLine, v
  <2>4. CASE ~ (m <= k)
    BY <2>2, <2>4, EmptySeq DEF EndsLine, v
  <2> QED
    BY <2>3, <2>4
<1>3. 1 \in 1 .. Len(u) + 1 /\ n \in 0 .. Len(u) /\ n + 1 \in 1 .. Len(u) + 1 /\ Len(u) \in 0 .. Len(u)
  BY <1>1
<1>4. EndsLine(u) => (Len(u) > 0 => u[Len(u)].kind = "nl")
  BY EmptySeq DEF EndsLine
<1> QED
  BY <1>2, <1>3, <1>4

\* What is written after a journal does not change it.
LEMMA SyncedConcat ==
  ASSUME NEW f \in Seq(Unit), NEW g \in Seq(Unit), NEW m \in 0 .. Len(f),
         m > 0 => f[m].kind = "nl"
  PROVE  m \in 0 .. Len(f \o g) /\ (m > 0 => (f \o g)[m].kind = "nl")
<1>1. Len(f) \in Nat /\ Len(g) \in Nat /\ Len(f \o g) = Len(f) + Len(g)
  BY ConcatUnits
<1>2. \A i \in 1 .. Len(f) : (f \o g)[i] = f[i]
  BY ConcatUnits
<1>3. m \in 0 .. Len(f) + Len(g)
  BY <1>1
<1>4. m > 0 => m \in 1 .. Len(f)
  BY <1>1
<1> QED
  BY <1>1, <1>2, <1>3, <1>4

\* A shard whose journal is written on with whole lines.
LEMMA LinesWritten ==
  ASSUME TypeOK, NEW k \in Shard, NEW out \in Seq(Unit), EndsLine(out),
         EndsLine(jfile[k]), jsync[k] \in 0 .. Len(jfile[k]),
         jsync[k] > 0 => jfile[k][jsync[k]].kind = "nl",
         jfile'[k] = jfile[k] \o out, jsync'[k] = jsync[k]
  PROVE  /\ EndsLine(jfile'[k]) /\ jsync'[k] \in 0 .. Len(jfile'[k])
         /\ jsync'[k] > 0 => jfile'[k][jsync'[k]].kind = "nl"
<1>1. jfile[k] \in Seq(Unit)
  BY DEF TypeOK
<1>2. EndsLine(jfile[k] \o out)
  BY <1>1, JournalConcat
<1>3. /\ jsync[k] \in 0 .. Len(jfile[k] \o out)
      /\ jsync[k] > 0 => (jfile[k] \o out)[jsync[k]].kind = "nl"
  BY <1>1, SyncedConcat
<1> QED
  BY <1>2, <1>3

\* Every step writes whole lines.
LEMMA NextLines ==
  ASSUME WholeWrites, TypeOK, TypeOK', LinesWhole, [Next]_vars
  PROVE  LinesWhole'
<1> USE DEF LinesWhole
<1>0. \A k \in Shard : jfile[k] \in Seq(Unit) /\ jbuf[k] \in Seq(Unit)
  BY DEF TypeOK
<1>1. ASSUME NEW c \in Client, NEW r \in Request, NEW waits \in BOOLEAN, Submit(c, r, waits)
      PROVE  LinesWhole'
  <2>1. PICK s \in Shard : s = ShardOf(r)
    BY RoutingType
  <2>2. nextSeq[s] + 1 \in Nat
    <3>1. nextSeq[s] \in Nat
      BY <2>1, LineType
    <3> QED
      BY <3>1
  <2>3. PICK e \in Entry : e = [seq |-> nextSeq[s] + 1, req |-> r]
    BY <2>2 DEF Entry
  <2>4. PICK g : g = <<Record(e.seq, e.req), Mark("nl")>>
    OBVIOUS
  <2>5. g \in Seq(Unit) /\ EndsLine(g)
    <3>1. EndsLine(<<>>) /\ <<>> \in Seq(Unit)
      BY DEF EndsLine
    <3> QED
      BY <2>4, <3>1, JournalAppend
  <2>6. PICK u : u = jbuf[s] \o g
    OBVIOUS
  <2>7. PICK n \in {0, Len(jbuf[s])} :
          /\ jfile' = [jfile EXCEPT ![s] = @ \o SubSeq(u, 1, n)]
          /\ jbuf' = [jbuf EXCEPT ![s] = SubSeq(u, n + 1, Len(u))]
    <3>1. "midline" \notin Faults
      BY DEF WholeWrites
    <3>2. {0, Len(jbuf[s])} \cup
             (IF "midline" \in Faults THEN {Len(jbuf[s]) + 1} ELSE {}) = {0, Len(jbuf[s])}
      BY <3>1
    <3> QED
      BY <1>1, <2>1, <2>3, <2>4, <2>6, <3>2 DEF Submit
  <2>8. jsync' = jsync
    BY <1>1 DEF Submit
  <2>9. u \in Seq(Unit) /\ EndsLine(u) /\ n \in 0 .. Len(u) /\ (n > 0 => u[n].kind = "nl")
    <3>1. /\ Len(jbuf[s]) \in Nat /\ Len(g) \in Nat /\ u \in Seq(Unit)
          /\ Len(u) = Len(jbuf[s]) + Len(g)
          /\ \A i \in 1 .. Len(jbuf[s]) : u[i] = jbuf[s][i]
      BY <1>0, <2>5, <2>6, ConcatUnits
    <3>2. EndsLine(u)
      BY <1>0, <2>5, <2>6, JournalConcat
    <3>3. n \in 0 .. Len(u)
      BY <2>7, <3>1
    <3>4. n > 0 => n = Len(jbuf[s]) /\ n \in 1 .. Len(jbuf[s])
      BY <2>7, <3>1
    <3>5. Len(jbuf[s]) > 0 => jbuf[s] # <<>>
      OBVIOUS
    <3>6. n > 0 => u[n].kind = "nl"
      BY <3>1, <3>4, <3>5 DEF EndsLine
    <3> QED
      BY <3>1, <3>2, <3>3, <3>6
  <2> DEFINE out  == SubSeq(u, 1, n)
             rest == SubSeq(u, n + 1, Len(u))
  <2>10. out \in Seq(Unit) /\ EndsLine(out) /\ EndsLine(rest)
    BY <2>9, SplitEnds, JournalSplit
  <2>11. /\ jfile'[s] = jfile[s] \o out /\ jbuf'[s] = rest /\ jsync'[s] = jsync[s]
         /\ \A k \in Shard \ {s} : /\ jfile'[k] = jfile[k] /\ jbuf'[k] = jbuf[k]
                                   /\ jsync'[k] = jsync[k]
    BY <2>7, <2>8, SMTT(30) DEF TypeOK
  <2> HIDE DEF out, rest
  <2>12. /\ EndsLine(jfile'[s]) /\ jsync'[s] \in 0 .. Len(jfile'[s])
         /\ jsync'[s] > 0 => jfile'[s][jsync'[s]].kind = "nl"
    BY <2>10, <2>11, LinesWritten
  <2> QED
    BY <2>10, <2>11, <2>12
<1>2. ASSUME UNCHANGED <<jfile, jbuf, jsync>> PROVE LinesWhole'
  BY <1>2
<1>3. ASSUME UNCHANGED <<jfile, jsync>>, \A k \in Shard : jbuf'[k] = <<>> PROVE LinesWhole'
  BY <1>3 DEF EndsLine
<1>4. ASSUME NEW s \in Shard, jsync' = jsync,
             jfile' = [jfile EXCEPT ![s] = @ \o jbuf[s]], jbuf' = [jbuf EXCEPT ![s] = <<>>]
      PROVE  LinesWhole'
  <2>1. /\ jfile'[s] = jfile[s] \o jbuf[s] /\ jbuf'[s] = <<>> /\ jsync'[s] = jsync[s]
        /\ \A k \in Shard \ {s} : /\ jfile'[k] = jfile[k] /\ jbuf'[k] = jbuf[k]
                                  /\ jsync'[k] = jsync[k]
    BY <1>4, SMTT(30) DEF TypeOK
  <2>2. /\ EndsLine(jfile'[s]) /\ jsync'[s] \in 0 .. Len(jfile'[s])
        /\ jsync'[s] > 0 => jfile'[s][jsync'[s]].kind = "nl"
    BY <1>0, <2>1, LinesWritten
  <2> QED
    BY <2>1, <2>2 DEF EndsLine
<1>5. ASSUME NEW s \in Shard, Drain(s) PROVE LinesWhole'
  <2>1. CASE DrainSwap(s)
    <3>1. /\ jsync' = jsync /\ jfile' = [jfile EXCEPT ![s] = @ \o jbuf[s]]
          /\ jbuf' = [jbuf EXCEPT ![s] = <<>>]
      BY <2>1 DEF DrainSwap
    <3> QED
      BY <1>4, <3>1
  <2>2. CASE DrainSync(s)
    <3>1. jfile' = jfile /\ jbuf' = jbuf /\ jsync' = [jsync EXCEPT ![s] = Len(jfile[s])]
      BY <2>2 DEF DrainSync, queueVars
    <3>2. /\ jsync'[s] = Len(jfile[s])
          /\ \A k \in Shard \ {s} : jsync'[k] = jsync[k]
      BY <3>1 DEF TypeOK
    <3>3. Len(jfile[s]) \in 0 .. Len(jfile[s])
      BY <1>0, LenProperties
    <3>4. Len(jfile[s]) > 0 => jfile[s] # <<>>
      OBVIOUS
    <3>5. Len(jfile[s]) > 0 => jfile[s][Len(jfile[s])].kind = "nl"
      BY <3>4 DEF EndsLine
    <3> QED
      BY <3>1, <3>2, <3>3, <3>5
  <2>3. CASE \/ DrainBatch(s) \/ DrainBatchFails(s) \/ Retry(s) \/ RetryFails(s)
             \/ Reject(s) \/ Requeue(s) \/ DrainPublish(s) \/ DrainNotify(s)
    <3>1. UNCHANGED <<jfile, jbuf, jsync>>
      BY <2>3 DEF DrainBatch, DrainBatchFails, Retry, RetryFails, Reject, Requeue,
                  DrainPublish, DrainNotify, queueVars
    <3> QED
      BY <1>2, <3>1
  <2> QED
    BY <1>5, <2>1, <2>2, <2>3 DEF Drain
<1>6. ASSUME NEW s \in Shard, MaintTruncate(s) PROVE LinesWhole'
  <2>1. CASE ~ (buf[s] = <<>> /\ nextSeq[s] = marks[s])
    BY <1>2, <1>6, <2>1 DEF MaintTruncate
  <2>2. CASE /\ jbuf' = [jbuf EXCEPT ![s] = <<>>] /\ jfile' = [jfile EXCEPT ![s] = <<>>]
             /\ jsync' = [jsync EXCEPT ![s] = 0]
    <3>1. /\ jfile'[s] = <<>> /\ jbuf'[s] = <<>> /\ jsync'[s] = 0
          /\ \A k \in Shard \ {s} : /\ jfile'[k] = jfile[k] /\ jbuf'[k] = jbuf[k]
                                    /\ jsync'[k] = jsync[k]
      BY <2>2 DEF TypeOK
    <3>2. 0 \in 0 .. Len(<<>>) /\ ~ (0 > 0) /\ EndsLine(<<>>)
      BY DEF EndsLine
    <3> QED
      BY <3>1, <3>2
  <2>3. CASE /\ jbuf' = [jbuf EXCEPT ![s] = <<>>] /\ jfile' = [jfile EXCEPT ![s] = @ \o jbuf[s]]
             /\ jsync' = jsync
    BY <1>4, <2>3
  <2> QED
    BY <1>6, <2>1, <2>2, <2>3 DEF MaintTruncate
<1>7. CASE \/ \E c \in Client : Wait(c)
           \/ \E p \in Snapshotter :
                PauseAdmissions(p) \/ SnapshotReady(p) \/ ResumeAdmissions(p)
           \/ UNCHANGED vars
           \/ MaintBegin \/ MaintAbort \/ \E d \in Domain : MaintCheckpoint(d)
  <2>1. UNCHANGED <<jfile, jbuf, jsync>>
    BY <1>7 DEF Wait, WaitReturn, WaitCheck, WaitPark, PauseAdmissions, SnapshotReady,
                ResumeAdmissions, MaintBegin, MaintAbort, MaintCheckpoint, vars, queueVars
  <2> QED
    BY <1>2, <2>1
<1>8. CASE \/ StartEngine \/ StartFinish \/ SpawnFlushers
           \/ Shutdown \/ RequestShutdown \/ JoinFlushers
           \/ \E s \in Shard : ReplayShard(s)
  <2>1. UNCHANGED <<jfile, jbuf, jsync>>
    BY <1>8 DEF StartEngine, StartFinish, SpawnFlushers, Shutdown, RequestShutdown,
                JoinFlushers, ReplayShard, queueVars
  <2> QED
    BY <1>2, <2>1
<1>9. CASE ProcessCrash \/ \E s \in Shard : ReplayFails(s)
  <2>1. UNCHANGED <<jfile, jsync>> /\ \A k \in Shard : jbuf'[k] = <<>>
    BY <1>9 DEF ProcessCrash, ReplayFails, LoseMemory
  <2> QED
    BY <1>3, <2>1
<1>10. CASE ShutdownDone \/ DropEngine
  <2>1. /\ jsync' = jsync /\ \A k \in Shard : jbuf'[k] = <<>>
        /\ \A k \in Shard : jfile'[k] = jfile[k] \o jbuf[k]
    BY <1>10 DEF ShutdownDone, DropEngine, LoseMemory, DropJournals
  <2>2. ASSUME NEW k \in Shard
        PROVE  /\ EndsLine(jfile'[k]) /\ jsync'[k] \in 0 .. Len(jfile'[k])
               /\ jsync'[k] > 0 => jfile'[k][jsync'[k]].kind = "nl"
    BY <1>0, <2>1, LinesWritten
  <2> QED
    BY <2>1, <2>2 DEF EndsLine
<1>11. CASE PowerLoss
  <2>1. /\ \A k \in Shard : jbuf'[k] = <<>>
        /\ \A k \in Shard : jfile'[k] \in Leftover(jfile[k], jsync[k])
        /\ \A k \in Shard : jsync'[k] = Len(jfile'[k])
    <3>1. PICK left \in [Shard -> UNION {Leftover(jfile[s], jsync[s]) : s \in Shard}] :
            /\ \A s \in Shard : left[s] \in Leftover(jfile[s], jsync[s])
            /\ jfile' = left
            /\ jsync' = [s \in Shard |-> Len(left[s])]
      BY <1>11 DEF PowerLoss
    <3>2. \A k \in Shard : jbuf'[k] = <<>>
      BY <1>11 DEF PowerLoss, LoseMemory
    <3> QED
      BY <3>1, <3>2
  <2>2. ASSUME NEW k \in Shard PROVE EndsLine(jfile'[k])
    <3>1. PICK n \in jsync[k] .. Len(jfile[k]) :
            /\ n = jsync[k] \/ jfile[k][n].kind = "nl"
            /\ jfile'[k] = SubSeq(jfile[k], 1, n)
      BY <2>1 DEF Leftover, WholeWrites
    <3>2. Len(jfile[k]) \in Nat /\ jsync[k] \in 0 .. Len(jfile[k])
      BY <1>0, LenProperties
    <3>3. n \in 0 .. Len(jfile[k])
      BY <3>1, <3>2
    <3>4. n > 0 => jfile[k][n].kind = "nl"
      BY <3>1
    <3>5. EndsLine(SubSeq(jfile[k], 1, n))
      BY <1>0, <3>3, <3>4, SplitEnds
    <3> QED
      BY <3>1, <3>5
  <2>3. ASSUME NEW k \in Shard
        PROVE  /\ jsync'[k] \in 0 .. Len(jfile'[k])
               /\ jsync'[k] > 0 => jfile'[k][jsync'[k]].kind = "nl"
    <3>1. jfile'[k] \in Seq(Unit) /\ jsync'[k] = Len(jfile'[k])
      BY <2>1 DEF TypeOK
    <3>2. ASSUME NEW f \in Seq(Unit), EndsLine(f)
          PROVE  Len(f) \in 0 .. Len(f) /\ (Len(f) > 0 => f[Len(f)].kind = "nl")
      BY <3>2, LenProperties, EmptySeq DEF EndsLine
    <3> QED
      BY <2>2, <3>1, <3>2
  <2> QED
    BY <2>1, <2>2, <2>3 DEF EndsLine
<1> QED
  BY <1>1, <1>5, <1>6, <1>7, <1>8, <1>9, <1>10, <1>11 DEF Next, Start, Maintenance

\* The pass of a start is complete when no checkpoint is kept short.
BootComplete == phase = "boot" => complete

\* Every step keeps it so.
LEMMA NextBootComplete ==
  ASSUME FullPasses, TypeOK, BootComplete, [Next]_vars
  PROVE  BootComplete'
<1>1. CASE StartFinish
  BY <1>1 DEF StartFinish, BeginMaintenance, BootComplete
<1>2. ASSUME phase' # "boot" PROVE BootComplete'
  BY <1>2 DEF BootComplete
<1>3. CASE \E d \in Domain : MaintCheckpoint(d)
  <2>1. phase' = phase /\ complete' = complete
    BY <1>3 DEF MaintCheckpoint, WalCheckpointShort, FullPasses
  <2> QED
    BY <2>1 DEF BootComplete
<1>4. CASE MaintBegin
  BY <1>4 DEF MaintBegin, BeginMaintenance, BootComplete
<1>5. CASE MaintAbort \/ \E s \in Shard : MaintTruncate(s)
  <2>1. phase' = phase /\ complete' = complete
    BY <1>5 DEF MaintAbort, MaintTruncate
  <2> QED
    BY <2>1 DEF BootComplete
<1>6. CASE \/ \E c \in Client, r \in Request, waits \in BOOLEAN : Submit(c, r, waits)
           \/ \E c \in Client : Wait(c)
           \/ \E p \in Snapshotter :
                PauseAdmissions(p) \/ SnapshotReady(p) \/ ResumeAdmissions(p)
           \/ \E s \in Shard : Drain(s)
           \/ UNCHANGED vars
  <2>1. phase' = phase /\ complete' = complete
    BY <1>6, DrainFrame DEF Submit, Wait, WaitReturn, WaitCheck, WaitPark, PauseAdmissions,
         SnapshotReady, ResumeAdmissions, maintVars, vars
  <2> QED
    BY <2>1 DEF BootComplete
<1>7. CASE \/ StartEngine \/ SpawnFlushers
           \/ Shutdown \/ RequestShutdown \/ JoinFlushers \/ ShutdownDone \/ DropEngine
           \/ ProcessCrash \/ PowerLoss
           \/ \E s \in Shard : ReplayShard(s) \/ ReplayFails(s)
  <2>1. phase' # "boot"
    BY <1>7 DEF StartEngine, SpawnFlushers, Shutdown, RequestShutdown, JoinFlushers,
         ShutdownDone, DropEngine, ProcessCrash, PowerLoss, ReplayShard, ReplayFails, LoseMemory
  <2> QED
    BY <1>2, <2>1
<1> QED
  BY <1>1, <1>3, <1>4, <1>5, <1>6, <1>7 DEF Next, Start, Maintenance

\* Where no write tears a line, journals are whole lines.
LEMMA LinesCorrect ==
  ASSUME WholeWrites
  PROVE  Spec => []LinesWhole
<1>1. Init => LinesWhole
  <2> SUFFICES ASSUME Init, NEW s \in Shard
               PROVE  /\ EndsLine(jfile[s]) /\ EndsLine(jbuf[s])
                      /\ jsync[s] \in 0 .. Len(jfile[s])
                      /\ jsync[s] > 0 => jfile[s][jsync[s]].kind = "nl"
    BY DEF LinesWhole
  <2>1. jfile[s] = <<>> /\ jbuf[s] = <<>> /\ jsync[s] = 0
    BY DEF Init
  <2>2. 0 \in 0 .. Len(<<>>) /\ ~ (0 > 0) /\ EndsLine(<<>>)
    BY DEF EndsLine
  <2> QED
    BY <2>1, <2>2
<1>2. TypeOK /\ LinesWhole /\ TypeOK' /\ [Next]_vars => LinesWhole'
  BY NextLines
<1> QED
  BY <1>1, <1>2, TypeCorrect, PTL DEF Spec

\* In either environment a start leaves journals that can be written on.
THEOREM TailsCorrect ==
  ASSUME WholeWrites \/ FullPasses
  PROVE  Spec => []BootTails
<1>1. CASE WholeWrites
  <2>1. TypeOK /\ LinesWhole => BootTails
    <3> SUFFICES ASSUME TypeOK, LinesWhole, NEW s \in Shard PROVE EndsLine(Whole(s))
      BY DEF BootTails
    <3>1. jfile[s] \in Seq(Unit) /\ jbuf[s] \in Seq(Unit)
      BY DEF TypeOK
    <3>2. EndsLine(jfile[s]) /\ EndsLine(jbuf[s])
      BY DEF LinesWhole
    <3> QED
      BY <3>1, <3>2, JournalConcat DEF Whole
  <2>2. Spec => []LinesWhole
    BY <1>1, LinesCorrect
  <2> QED
    BY <2>1, <2>2, TypeCorrect, PTL
<1>2. CASE FullPasses
  <2>1. Init => BootComplete
    BY DEF Init, BootComplete
  <2>2. TypeOK /\ BootComplete /\ [Next]_vars => BootComplete'
    BY <1>2, NextBootComplete
  <2>3. Reclaimed /\ BootComplete => BootTails
    <3> SUFFICES ASSUME Reclaimed, BootComplete, phase = "boot", mpc = "idle",
                        NEW s \in Shard
                 PROVE  EndsLine(Whole(s))
      BY DEF BootTails
    <3>1. jfile[s] = <<>> /\ jbuf[s] = <<>>
      BY DEF Reclaimed, BootComplete
    <3>2. <<>> \o <<>> = <<>> /\ EndsLine(<<>>)
      BY DEF EndsLine
    <3> QED
      BY <3>1, <3>2 DEF Whole
  <2>4. PassesEnd
    BY <1>2 DEF FullPasses, PassesEnd
  <2>5. Spec => []Reclaimed
    BY <2>4, ReclaimCorrect
  <2> QED
    BY <2>1, <2>2, <2>3, <2>5, TypeCorrect, PTL DEF Spec
<1> QED
  BY <1>1, <1>2

\* In every reachable state each write queued or being drained is in the
\* journal of its shard, on a line of its own.
THEOREM JournalCorrect ==
  ASSUME WholeWrites \/ FullPasses
  PROVE  Spec => []JournalInv
<1>1. Init => JournalInv
  <2> SUFFICES ASSUME Init PROVE JournalInv
    OBVIOUS
  <2>1. phase = "down" /\ \A k \in Shard : buf[k] = <<>> /\ work[k] = <<>>
    BY DEF Init
  <2>2. \A k \in Shard : LineOf(k) = {}
    BY <2>1 DEF LineOf, Entries
  <2> QED
    BY <2>1, <2>2 DEF JournalInv, Journaled, Tails
<1>2. /\ TypeOK /\ DrainHoldsWork /\ LineInv /\ OwedInv /\ BootTails /\ JournalInv
      /\ TypeOK' /\ LineInv' /\ [Next]_vars
      => JournalInv'
  BY NextJournal
<1> QED
  BY <1>1, <1>2, LineCorrect, OwedCorrect, TailsCorrect, PTL DEF Spec

-----------------------------------------------------------------------------
(* No step but a crash or a rejection loses an accepted write.             *)

\* Where the engine keeps request r of shard s.
InStore(s, r)   == AppliedAt(s, r) > 0
InLine(s, r)    == \E e \in LineOf(s) : e.req = r
InJournal(s, r) == \E e \in Records(jfile[s]) : e.req = r /\ e.seq > Ckpt(s)

\* The pending records of a file are its entries above the checkpoint.
LEMMA RecordsAbove ==
  ASSUME NEW f, NEW r, NEW n
  PROVE  (\E e \in Records(f) : e.req = r /\ e.seq > n)
         <=> \E i \in {j \in Parsed(f) : f[j].seq > n} : f[i].req = r
<1>1. \A u : EntryOf(u).seq = u.seq /\ EntryOf(u).req = u.req
  BY DEF EntryOf
<1>2. ASSUME NEW e \in Records(f), e.req = r, e.seq > n
      PROVE  \E i \in {j \in Parsed(f) : f[j].seq > n} : f[i].req = r
  <2>1. PICK i \in Parsed(f) : e = EntryOf(f[i])
    BY <1>2 DEF Records
  <2>2. f[i].seq > n /\ f[i].req = r
    BY <1>1, <1>2, <2>1
  <2> QED
    BY <2>1, <2>2
<1>3. ASSUME NEW i \in Parsed(f), f[i].seq > n, f[i].req = r
      PROVE  \E e \in Records(f) : e.req = r /\ e.seq > n
  <2>1. EntryOf(f[i]) \in Records(f)
    BY DEF Records
  <2>2. EntryOf(f[i]).req = r /\ EntryOf(f[i]).seq > n
    BY <1>1, <1>3
  <2> QED
    BY <2>1, <2>2
<1> QED
  BY <1>2, <1>3

\* A write is kept in the store, in line, or in the journal above the checkpoint.
LEMMA KeptWhere ==
  ASSUME NEW r \in Request, NEW s, s = ShardOf(r)
  PROVE  Kept(r) <=> InStore(s, r) \/ InLine(s, r) \/ InJournal(s, r)
<1>1. InStore(s, r) <=> db[DomainOf(ShardOf(r))].applied[r] > 0
  BY DEF InStore, AppliedAt
<1>2. InLine(s, r) <=> \/ \E i \in DOMAIN buf[ShardOf(r)] : buf[ShardOf(r)][i].req = r
                       \/ \E i \in DOMAIN work[ShardOf(r)] : work[ShardOf(r)][i].req = r
  BY DEF InLine, LineOf, Entries
<1>3. InJournal(s, r) <=> \E i \in Pending(ShardOf(r)) : jfile[ShardOf(r)][i].req = r
  BY RecordsAbove DEF InJournal, Pending
<1> QED
  BY <1>1, <1>2, <1>3 DEF Kept

\* The same, after a step.
LEMMA KeptWhereNext ==
  ASSUME NEW r \in Request, NEW s, s = ShardOf(r)
  PROVE  Kept(r)' <=> InStore(s, r)' \/ InLine(s, r)' \/ InJournal(s, r)'
<1>1. InStore(s, r)' <=> db'[DomainOf(ShardOf(r))].applied[r] > 0
  BY DEF InStore, AppliedAt
<1>2. InLine(s, r)' <=> \/ \E i \in DOMAIN buf'[ShardOf(r)] : buf'[ShardOf(r)][i].req = r
                        \/ \E i \in DOMAIN work'[ShardOf(r)] : work'[ShardOf(r)][i].req = r
  BY DEF InLine, LineOf, Entries
<1>3. InJournal(s, r)' <=> \E i \in Pending(ShardOf(r))' : jfile'[ShardOf(r)][i].req = r
  BY RecordsAbove DEF InJournal, Pending
<1> QED
  BY <1>1, <1>2, <1>3 DEF Kept

\* A rejection of request r, by the drain of shard s.
Rejected(s, r) == failures'[s] \ failures[s] # {} /\ Head(work[s]).req = r

\* Replay applies what is pending in the journal of its shard.
LEMMA ReplayApplies ==
  ASSUME TypeOK, NEW s \in Shard, NEW r \in Request, InJournal(s, r), CommitPending(s)
  PROVE  InStore(s, r)'
<1>1. PICK i \in Pending(s) : jfile[s][i].req = r
  BY DEF InJournal, Records, EntryOf, Pending
<1>2. Pending(s) # {}
  BY <1>1
<1>3. CommitTo(s, Copies(jfile[s], Pending(s)), HighestSeq(jfile[s], Pending(s), 0))
  BY <1>2 DEF CommitPending
<1>4. /\ Copies(jfile[s], Pending(s)) \in [Request -> Nat]
      /\ HighestSeq(jfile[s], Pending(s), 0) \in Nat
      /\ Pending(s) \subseteq 1 .. Len(jfile[s])
  BY ReplayType
<1>5. IsFiniteSet(Pending(s))
  <2>1. jfile[s] \in Seq(Unit)
    BY DEF TypeOK
  <2>2. Len(jfile[s]) \in Int /\ 1 \in Int
    BY <2>1, LenProperties
  <2>3. IsFiniteSet(1 .. Len(jfile[s]))
    BY <2>2, FS_Interval
  <2> QED
    BY <1>4, <2>3, FS_Subset
<1>6. Copies(jfile[s], Pending(s))[r] > 0
  <2>1. \A f, I : f = jfile[s] /\ I = Pending(s) => Copies(f, I)[f[i].req] > 0
    BY <1>1, <1>5, CopiesCount
  <2> QED
    BY <1>1, <2>1
<1>7. AppliedAt(s, r)' = AppliedAt(s, r) + Copies(jfile[s], Pending(s))[r]
  BY <1>3, <1>4, CommitExact
<1>8. AppliedAt(s, r) \in Nat /\ Copies(jfile[s], Pending(s))[r] \in Nat
  BY <1>4, AppliedType
<1>9. AppliedAt(s, r)' > 0
  BY <1>6, <1>7, <1>8
<1> QED
  BY <1>9 DEF InStore

\* Only a power loss takes a committed write out of a store.
LEMMA StoreKeeps ==
  ASSUME TypeOK, TypeOK', DrainHoldsWork, LineInv, [Next]_vars, losses' = losses,
         NEW s \in Shard, NEW r \in Request, InStore(s, r)
  PROVE  InStore(s, r)'
<1>1. AppliedAt(s, r) \in Nat /\ AppliedAt(s, r)' \in Nat
  <2>1. db' \in [Domain -> State] /\ DomainOf(s) \in Domain
    BY RoutingType DEF TypeOK
  <2> QED
    BY <2>1, AppliedType DEF State, AppliedAt
<1> SUFFICES AppliedAt(s, r)' >= AppliedAt(s, r)
  BY <1>1 DEF InStore
<1>2. ASSUME db' = db PROVE AppliedAt(s, r)' >= AppliedAt(s, r)
  BY <1>1, <1>2 DEF AppliedAt
<1>3. CASE \E k \in Shard : Drain(k)
  BY <1>3, DrainStores
<1>4. CASE \E k \in Shard : ReplayShard(k)
  BY <1>4, ReplayExact DEF ReplayShard
<1>5. CASE \E k \in Shard : ReplayFails(k)
  <2>1. PICK k \in Shard : ReplayFails(k)
    BY <1>5
  <2>2. CommitPending(k) \/ UNCHANGED storeVars
    BY <2>1 DEF ReplayFails
  <2> QED
    BY <1>2, <2>2, ReplayExact DEF storeVars
<1>6. CASE \/ \E c \in Client, q \in Request, waits \in BOOLEAN : Submit(c, q, waits)
           \/ \E c \in Client : Wait(c)
           \/ \E p \in Snapshotter :
                PauseAdmissions(p) \/ SnapshotReady(p) \/ ResumeAdmissions(p)
           \/ Maintenance
           \/ UNCHANGED vars
  <2>1. db' = db
    BY <1>6 DEF Submit, Wait, WaitReturn, WaitCheck, WaitPark, PauseAdmissions,
         SnapshotReady, ResumeAdmissions, Maintenance, MaintBegin, MaintAbort,
         MaintCheckpoint, MaintTruncate, storeVars, vars
  <2> QED
    BY <1>2, <2>1
<1>7. CASE \/ StartEngine \/ StartFinish \/ SpawnFlushers
           \/ Shutdown \/ RequestShutdown \/ JoinFlushers \/ ShutdownDone \/ DropEngine
           \/ ProcessCrash
  <2>1. db' = db
    BY <1>7 DEF StartEngine, StartFinish, SpawnFlushers, Shutdown, RequestShutdown,
         JoinFlushers, ShutdownDone, DropEngine, ProcessCrash, storeVars
  <2> QED
    BY <1>2, <2>1
<1>8. ~ PowerLoss
  <2>1. \A n \in Nat : n + 1 # n
    OBVIOUS
  <2> QED
    BY <2>1 DEF PowerLoss, TypeOK
<1> QED
  BY <1>3, <1>4, <1>5, <1>6, <1>7, <1>8 DEF Next, Start

\* A drain takes a request out of its line only to apply it, or to reject it.
LEMMA DrainKeeps ==
  ASSUME TypeOK, DrainHoldsWork, LineInv, OwedInv, NEW k \in Shard, Drain(k),
         NEW s \in Shard, NEW r \in Request, InLine(s, r)
  PROVE  InLine(s, r)' \/ InStore(s, r)' \/ Rejected(s, r)
<1>1. PICK e \in LineOf(s) : e.req = r
  BY DEF InLine
<1>2. CASE k # s
  <2>1. work'[s] = work[s] /\ buf'[s] = buf[s]
    BY <1>2, DrainElsewhere
  <2> QED
    BY <1>1, <2>1 DEF InLine, LineOf
<1>3. CASE k = s
  <2>1. \/ e \in LineOf(s)'
        \/ AppliedAt(s, e.req)' > 0
        \/ Reject(s) /\ e = Head(work[s])
    BY <1>3, DrainTakes
  <2>2. ASSUME Reject(s), e = Head(work[s]) PROVE Rejected(s, r)
    <3>1. dpc[s] = "mark" /\ failures'[s] = failures[s] \cup {Head(work[s]).seq}
      BY <2>2 DEF Reject, TypeOK
    <3>2. /\ 1 \in DOMAIN work[s] /\ Head(work[s]) = work[s][1] /\ Head(work[s]).seq \in Nat
      BY <3>1, BatchType
    <3>3. Above(work[s], durable[s]) /\ Above(work[s], pub[s])
      BY DEF LineInv, Line, Unpublished
    <3>4. /\ Head(work[s]).seq > durable[s] /\ Head(work[s]).seq > pub[s]
          /\ durable[s] \in Nat /\ pub[s] \in Nat
      BY <3>2, <3>3, LineType DEF Above
    <3>5. Head(work[s]).seq \notin failures[s]
      <4>1. \A n \in failures[s] : n <= durable[s] \/ n <= pub[s]
        BY DEF OwedInv, Below
      <4> QED
        BY <3>2, <3>4, <4>1
    <3> QED
      BY <1>1, <2>2, <3>1, <3>5 DEF Rejected
  <2> QED
    BY <1>1, <2>1, <2>2 DEF InLine, InStore
<1> QED
  BY <1>2, <1>3

\* Whatever else happens in one process, a write in line is not lost: dropping
\* the engine flushes the journal it is in.
LEMMA LineKeeps ==
  ASSUME TypeOK, TypeOK', DrainHoldsWork, LineInv, AheadInv, OwedInv, JournalInv, Alone,
         [Next]_vars, crashes' = crashes, losses' = losses,
         NEW s \in Shard, NEW r \in Request, InLine(s, r)
  PROVE  InLine(s, r)' \/ InStore(s, r)' \/ InJournal(s, r)' \/ Rejected(s, r)
<1>1. PICK e \in LineOf(s) : e.req = r
  BY DEF InLine
<1>2. ASSUME work' = work, buf' = buf PROVE InLine(s, r)'
  BY <1>1, <1>2 DEF InLine, LineOf
<1>3. ASSUME NEW c \in Client, NEW q \in Request, NEW waits \in BOOLEAN, Submit(c, q, waits)
      PROVE  InLine(s, r)'
  <2>1. PICK k \in Shard, f \in Entry :
          /\ LineOf(k)' = LineOf(k) \cup {f}
          /\ \A j \in Shard \ {k} : work'[j] = work[j] /\ buf'[j] = buf[j]
    BY <1>3, SubmitJournal, ZenonT(30)
  <2>2. s # k => LineOf(s)' = LineOf(s)
    BY <2>1 DEF LineOf
  <2> QED
    BY <1>1, <2>1, <2>2 DEF InLine
<1>4. CASE \E k \in Shard : Drain(k)
  BY <1>4, DrainKeeps
<1>5. CASE \/ \E c \in Client : Wait(c)
           \/ \E p \in Snapshotter :
                PauseAdmissions(p) \/ SnapshotReady(p) \/ ResumeAdmissions(p)
           \/ Maintenance
           \/ UNCHANGED vars
  <2>1. work' = work /\ buf' = buf
    BY <1>5 DEF Wait, WaitReturn, WaitCheck, WaitPark, PauseAdmissions, SnapshotReady,
         ResumeAdmissions, Maintenance, MaintBegin, MaintAbort, MaintCheckpoint,
         MaintTruncate, queueVars, drainVars, vars
  <2> QED
    BY <1>2, <2>1
<1>6. CASE \/ StartEngine \/ StartFinish \/ SpawnFlushers
           \/ Shutdown \/ RequestShutdown \/ JoinFlushers
           \/ \E k \in Shard : ReplayShard(k)
  <2>1. work' = work /\ buf' = buf
    BY <1>6 DEF StartEngine, StartFinish, SpawnFlushers, Shutdown, RequestShutdown,
         JoinFlushers, ReplayShard, queueVars, drainVars
  <2> QED
    BY <1>2, <2>1
<1>7. ASSUME buf[s] = <<>>, work[s] = <<>> PROVE FALSE
  BY <1>1, <1>7 DEF LineOf, Entries
<1>8. CASE \E k \in Shard : ReplayFails(k)
  <2>1. phase = "replay"
    BY <1>8 DEF ReplayFails
  <2>2. buf[s] = <<>> /\ work[s] = <<>>
    BY <2>1 DEF LineInv, Dormant, Line, Ended
  <2> QED
    BY <1>7, <2>2
<1>9. CASE ShutdownDone
  <2>1. durable[s] = nextSeq[s]
    BY <1>9 DEF ShutdownDone, Alone
  <2>2. durable[s] >= nextSeq[s]
    BY <2>1, LineType
  <2> QED
    BY <1>7, <2>2, NothingLeft
<1>10. CASE DropEngine
  <2>1. /\ phase = "up" /\ dpc[s] = "idle" /\ db' = db /\ jfile'[s] = Whole(s)
    BY <1>10 DEF DropEngine, DropJournals, storeVars, Whole
  <2>2. e \in Records(jfile'[s])
    BY <1>1, <2>1 DEF JournalInv, Journaled
  <2>3. AheadAt(s, e)
    <3>1. e \in Entries(work[s]) \/ e \in Entries(buf[s])
      BY <1>1 DEF LineOf
    <3> QED
      BY <3>1 DEF AheadInv, AllAhead
  <2>4. CASE e.seq > Ckpt(s)
    <3>1. Ckpt(s)' = Ckpt(s)
      BY <2>1 DEF Ckpt
    <3> QED
      BY <1>1, <2>2, <2>4, <3>1 DEF InJournal
  <2>5. CASE AppliedAt(s, e.req) > 0
    BY <1>1, <2>1, <2>5 DEF InStore, AppliedAt
  <2> QED
    BY <2>3, <2>4, <2>5 DEF AheadAt
<1>11. ~ ProcessCrash /\ ~ PowerLoss
  <2>1. \A n \in Nat : n + 1 # n
    OBVIOUS
  <2> QED
    BY <2>1 DEF ProcessCrash, PowerLoss, TypeOK
<1> QED
  BY <1>3, <1>4, <1>5, <1>6, <1>8, <1>9, <1>10, <1>11 DEF Next, Start

\* A write that only the journal of a stopped or starting engine has is
\* applied by its replay, and by nothing else disturbed.
LEMMA JournalKeeps ==
  ASSUME TypeOK, TypeOK', DrainHoldsWork, LineInv, OwedInv,
         [Next]_vars, crashes' = crashes, losses' = losses,
         NEW s \in Shard, NEW r \in Request, InJournal(s, r), ~ Counting(s)
  PROVE  InJournal(s, r)' \/ InStore(s, r)'
<1>1. phase = "down" \/ (phase = "replay" /\ s \in unreplayed)
  BY DEF Counting
<1>2. ASSUME jfile' = jfile, Ckpt(s)' = Ckpt(s) PROVE InJournal(s, r)'
  BY <1>2 DEF InJournal
<1>3. CASE \/ StartEngine
           \/ \E c \in Client : Wait(c)
           \/ \E p \in Snapshotter :
                PauseAdmissions(p) \/ SnapshotReady(p) \/ ResumeAdmissions(p)
           \/ UNCHANGED vars
  <2>1. jfile' = jfile /\ db' = db
    BY <1>3 DEF StartEngine, Wait, WaitReturn, WaitCheck, WaitPark, PauseAdmissions,
         SnapshotReady, ResumeAdmissions, storeVars, vars
  <2> QED
    BY <1>2, <2>1 DEF Ckpt
<1>4. ASSUME NEW k \in Shard, ReplayShard(k) \/ ReplayFails(k)
      PROVE  InJournal(s, r)' \/ InStore(s, r)'
  <2>1. jfile' = jfile
    BY <1>4 DEF ReplayShard, ReplayFails
  <2>2. CommitPending(k) \/ UNCHANGED storeVars
    BY <1>4 DEF ReplayShard, ReplayFails
  <2>3. CASE UNCHANGED storeVars
    BY <1>2, <2>1, <2>3 DEF storeVars, Ckpt
  <2>4. CASE CommitPending(k) /\ k = s
    BY <2>4, ReplayApplies
  <2>5. CASE CommitPending(k) /\ k # s
    <3>1. Ckpt(s)' = Ckpt(s)
      BY <2>5, ReplayExact
    <3> QED
      BY <1>2, <2>1, <3>1
  <2> QED
    BY <2>2, <2>3, <2>4, <2>5
<1>5. ~ \E k \in Shard : Drain(k)
  <2> SUFFICES ASSUME NEW k \in Shard, Drain(k) PROVE FALSE
    OBVIOUS
  <2>1. dpc[k] = "idle" /\ phase \notin {"up", "closing"}
    BY <1>1 DEF LineInv, Dormant
  <2> QED
    BY <2>1 DEF Drain, DrainSwap, Running, DrainSync, DrainBatch, DrainBatchFails, Retry,
         RetryFails, Reject, Requeue, DrainPublish, DrainNotify
<1>6. ~ Maintenance
  <2>1. mpc = "idle" /\ phase \notin {"up", "closing"}
    BY <1>1 DEF OwedInv, Marked
  <2> QED
    BY <2>1 DEF Maintenance, MaintBegin, Running, MaintAbort, MaintCheckpoint, MaintTruncate
<1>7. /\ ~ (StartFinish \/ SpawnFlushers \/ Shutdown \/ RequestShutdown \/ JoinFlushers)
      /\ ~ (ShutdownDone \/ DropEngine)
      /\ \A c \in Client, q \in Request, waits \in BOOLEAN : ~ Submit(c, q, waits)
  BY <1>1 DEF StartFinish, SpawnFlushers, Shutdown, RequestShutdown, JoinFlushers,
       ShutdownDone, DropEngine, Submit
<1>8. ~ ProcessCrash /\ ~ PowerLoss
  <2>1. \A n \in Nat : n + 1 # n
    OBVIOUS
  <2> QED
    BY <2>1 DEF ProcessCrash, PowerLoss, TypeOK
<1> QED
  BY <1>3, <1>4, <1>5, <1>6, <1>7, <1>8 DEF Next, Start

\* Once accepted, a write stays with the engine until it has its outcome: no
\* drain, retry, requeue, journal truncation, shutdown, drop or failed start
\* loses it, in an environment where lines are written whole or where the pass
\* of a start reclaims every journal, whatever else fails.
THEOREM WritesAreKept ==
  ASSUME WholeWrites \/ FullPasses
  PROVE  Spec => KeptUntilOutcome
<1> DEFINE Step == crashes' = crashes /\ losses' = losses =>
                     \A r \in accepted : Kept(r) =>
                       \/ Kept(r)'
                       \/ LET s == ShardOf(r)
                          IN  failures'[s] \ failures[s] # {} /\ Head(work[s]).req = r
<1>1. /\ TypeOK /\ TypeOK' /\ DrainHoldsWork /\ LineInv /\ AheadInv /\ OwedInv
      /\ JournalInv /\ Alone /\ [Next]_vars
      => [Step]_vars
  <2> SUFFICES ASSUME TypeOK, TypeOK', DrainHoldsWork, LineInv, AheadInv, OwedInv,
                      JournalInv, Alone, [Next]_vars,
                      crashes' = crashes, losses' = losses,
                      NEW r \in accepted, Kept(r)
               PROVE  \/ Kept(r)'
                      \/ failures'[ShardOf(r)] \ failures[ShardOf(r)] # {}
                           /\ Head(work[ShardOf(r)]).req = r
    OBVIOUS
  <2>1. r \in Request
    BY DEF TypeOK
  <2>2. PICK s \in Shard : s = ShardOf(r)
    BY <2>1, RoutingType
  <2>3. InStore(s, r) \/ InLine(s, r) \/ InJournal(s, r)
    BY <2>1, <2>2, KeptWhere
  <2>4. CASE InStore(s, r)
    <3>1. InStore(s, r)'
      BY <2>1, <2>4, StoreKeeps
    <3> QED
      BY <2>1, <2>2, <3>1, KeptWhereNext
  <2>5. CASE InLine(s, r)
    <3>1. InLine(s, r)' \/ InStore(s, r)' \/ InJournal(s, r)' \/ Rejected(s, r)
      BY <2>1, <2>5, LineKeeps
    <3> QED
      BY <2>1, <2>2, <3>1, KeptWhereNext DEF Rejected
  <2>6. CASE InJournal(s, r) /\ Counting(s)
    <3>1. InLine(s, r)
      BY <2>6 DEF InJournal, InLine, OwedInv, Owed
    <3> QED
      BY <2>5, <3>1
  <2>7. CASE InJournal(s, r) /\ ~ Counting(s)
    <3>1. InJournal(s, r)' \/ InStore(s, r)'
      BY <2>1, <2>7, JournalKeeps
    <3> QED
      BY <2>1, <2>2, <3>1, KeptWhereNext
  <2> QED
    BY <2>3, <2>4, <2>5, <2>6, <2>7
<1>2. Spec => [][Step]_vars
  BY <1>1, AheadCorrect, OwedCorrect, JournalCorrect, PassesAreAlone, PTL DEF Spec
<1> QED
  BY <1>2 DEF KeptUntilOutcome

-----------------------------------------------------------------------------
(* The records among the first units of a journal.                         *)

RecordsTo(f, n) == {EntryOf(f[i]) : i \in {j \in Parsed(f) : j <= n}}

\* What follows a prefix can make its last record unreadable, not readable.
LEMMA RecordsPrefix ==
  ASSUME NEW f \in Seq(Unit), NEW g \in Seq(Unit), NEW n \in 0 .. Len(f)
  PROVE  RecordsTo(f \o g, n) \subseteq RecordsTo(f, n)
<1> DEFINE c == f \o g
<1>1. /\ Len(c) = Len(f) + Len(g) /\ Len(f) \in Nat /\ Len(g) \in Nat
      /\ \A i \in 1 .. Len(f) : c[i] = f[i]
  BY ConcatUnits
<1> HIDE DEF c
<1>2. ASSUME NEW i \in Parsed(c), i <= n PROVE i \in Parsed(f) /\ c[i] = f[i]
  <2>1. /\ i \in 1 .. Len(c) /\ c[i].kind = "rec"
        /\ i > 1 => c[i - 1].kind = "nl"
        /\ i < Len(c) => c[i + 1].kind = "nl"
    BY DEF Parsed
  <2>2. i \in 1 .. Len(f) /\ (i > 1 => i - 1 \in 1 .. Len(f))
        /\ (i < Len(f) => i + 1 \in 1 .. Len(f) /\ i < Len(c))
    BY <1>1, <1>2, <2>1
  <2> QED
    BY <1>1, <2>1, <2>2 DEF Parsed
<1>3. RecordsTo(c, n) \subseteq RecordsTo(f, n)
  BY <1>2 DEF RecordsTo
<1> QED
  BY <1>3 DEF c

\* What follows a whole line leaves its record readable.
LEMMA RecordsExtend ==
  ASSUME NEW f \in Seq(Unit), NEW g \in Seq(Unit), EndsLine(f), NEW n
  PROVE  RecordsTo(f, n) \subseteq RecordsTo(f \o g, n)
<1> DEFINE c == f \o g
<1>1. /\ Len(c) = Len(f) + Len(g) /\ Len(f) \in Nat /\ Len(g) \in Nat
      /\ \A i \in 1 .. Len(f) : c[i] = f[i]
  BY ConcatUnits
<1> HIDE DEF c
<1>2. ASSUME NEW i \in Parsed(f) PROVE i \in Parsed(c) /\ c[i] = f[i]
  <2>1. /\ i \in 1 .. Len(f) /\ f[i].kind = "rec" /\ (i > 1 => f[i - 1].kind = "nl")
        /\ (i < Len(f) => f[i + 1].kind = "nl")
    BY DEF Parsed
  <2>2. f # <<>> /\ i # Len(f)
    BY <1>1, <2>1 DEF EndsLine
  <2>3. i < Len(f) /\ i + 1 \in 1 .. Len(f) /\ (i > 1 => i - 1 \in 1 .. Len(f)) /\ i \in 1 .. Len(c)
    BY <1>1, <2>1, <2>2
  <2> QED
    BY <1>1, <2>1, <2>3 DEF Parsed
<1>3. RecordsTo(f, n) \subseteq RecordsTo(c, n)
  BY <1>2 DEF RecordsTo
<1> QED
  BY <1>3 DEF c

\* More units hold more records, and all units all of them.
LEMMA RecordsGrow ==
  ASSUME NEW f \in Seq(Unit), NEW n \in Nat, NEW m \in Nat
  PROVE  /\ n <= m => RecordsTo(f, n) \subseteq RecordsTo(f, m)
         /\ RecordsTo(f, n) \subseteq Records(f)
         /\ Len(f) <= n => RecordsTo(f, n) = Records(f)
<1>1. \A i \in Parsed(f) : i \in Nat /\ i <= Len(f) /\ Len(f) \in Nat
  BY LenProperties DEF Parsed
<1>2. n <= m => \A i \in Parsed(f) : i <= n => i <= m
  BY <1>1
<1>3. Len(f) <= n => \A i \in Parsed(f) : i <= n
  BY <1>1
<1> QED
  BY <1>2, <1>3 DEF RecordsTo, Records

\* A power loss takes no record an fsync has covered: the cut is behind them,
\* and the piece it may leave is of a record, so not on the line of another.
LEMMA RecordsLeft ==
  ASSUME NEW f \in Seq(Unit), NEW n \in 0 .. Len(f), NEW left \in Leftover(f, n)
  PROVE  RecordsTo(f, n) \subseteq RecordsTo(left, Len(left))
<1>0. Len(f) \in Nat
  BY LenProperties
<1>1. \/ \E m \in n .. Len(f) : left = SubSeq(f, 1, m)
      \/ \E m \in n .. Len(f) - 1, k \in {"torn", "mangled"} :
           f[m + 1].kind = "rec" /\ left = Append(SubSeq(f, 1, m), Mark(k))
  BY <1>0 DEF Leftover
<1>2. ASSUME NEW m \in n .. Len(f), m \in Nat
      PROVE  /\ SubSeq(f, 1, m) \in Seq(Unit) /\ Len(SubSeq(f, 1, m)) = m
             /\ \A i \in 1 .. m : SubSeq(f, 1, m)[i] = f[i]
  <2>1. m <= Len(f) /\ 1 \in 1 .. m + 1
    BY <1>0
  <2> QED
    BY <1>0, <2>1, SubSeqProperties
<1>3. ASSUME NEW m \in n .. Len(f), m \in Nat, Len(left) >= m, Len(left) \in Nat,
             \A i \in 1 .. m : left[i] = f[i],
             Len(left) > m => m < Len(f) /\ f[m + 1].kind = "rec"
      PROVE  RecordsTo(f, n) \subseteq RecordsTo(left, Len(left))
  <2>1. ASSUME NEW i \in Parsed(f), i <= n
        PROVE  i \in Parsed(left) /\ i <= Len(left) /\ left[i] = f[i]
    <3>1. /\ i \in 1 .. Len(f) /\ f[i].kind = "rec" /\ (i > 1 => f[i - 1].kind = "nl")
          /\ (i < Len(f) => f[i + 1].kind = "nl")
      BY DEF Parsed
    <3>2. i \in 1 .. m /\ i \in 1 .. Len(left) /\ (i > 1 => i - 1 \in 1 .. m)
      BY <1>0, <1>3, <2>1, <3>1
    <3>3. left[i] = f[i] /\ (i > 1 => left[i - 1] = f[i - 1])
      BY <1>3, <3>2
    <3>4. i < Len(left) => i + 1 \in 1 .. m /\ i < Len(f)
      <4>1. CASE i < m
        BY <1>0, <3>2, <4>1
      <4>2. CASE i = m
        BY <1>3, <3>1, <4>2
      <4> QED
        BY <3>2, <4>1, <4>2
    <3>5. i < Len(left) => left[i + 1].kind = "nl"
      BY <1>3, <3>1, <3>4
    <3> QED
      BY <3>1, <3>2, <3>3, <3>5 DEF Parsed
  <2> QED
    BY <2>1 DEF RecordsTo
<1>4. CASE \E m \in n .. Len(f) : left = SubSeq(f, 1, m)
  <2>1. PICK m \in n .. Len(f) : left = SubSeq(f, 1, m)
    BY <1>4
  <2>2. m \in Nat
    BY <1>0
  <2> QED
    BY <1>2, <1>3, <2>1, <2>2
<1>5. CASE \E m \in n .. Len(f) - 1, k \in {"torn", "mangled"} :
             f[m + 1].kind = "rec" /\ left = Append(SubSeq(f, 1, m), Mark(k))
  <2>1. PICK m \in n .. Len(f) - 1, k \in {"torn", "mangled"} :
               f[m + 1].kind = "rec" /\ left = Append(SubSeq(f, 1, m), Mark(k))
    BY <1>5
  <2>2. m \in Nat /\ m \in n .. Len(f) /\ m < Len(f)
    BY <1>0
  <2>3. PICK p \in Seq(Unit) : p = SubSeq(f, 1, m)
    BY <1>2, <2>2
  <2>4. Len(p) = m /\ \A i \in 1 .. m : p[i] = f[i]
    BY <1>2, <2>2, <2>3
  <2>5. Mark(k) \in Unit /\ left = Append(p, Mark(k))
    BY <2>1, <2>3 DEF Mark, Unit
  <2>6. Len(left) = m + 1 /\ \A i \in 1 .. m : left[i] = p[i]
    BY <2>2, <2>4, <2>5, AppendProperties
  <2> QED
    BY <1>3, <2>1, <2>2, <2>4, <2>6
<1> QED
  BY <1>1, <1>4, <1>5

-----------------------------------------------------------------------------
(* What a step can do to the journal of a shard: nothing, but write or     *)
(* sync some of it; append the line of a submission; lose what only the    *)
(* process held; lose what no fsync covers; or reclaim it.                 *)

Fit(s) == jsync[s] \in 0 .. Len(jfile[s])

JournalKept(s) ==
  Whole(s)' = Whole(s) /\ jsync'[s] >= jsync[s] /\ Len(jfile'[s]) >= Len(jfile[s])

JournalGrown(s) ==
  \E c \in Client, r \in Request, waits \in BOOLEAN, e \in Entry :
    /\ Submit(c, r, waits) /\ s = ShardOf(r) /\ e.req = r
    /\ Submitted(s, e) /\ jsync'[s] = jsync[s]

JournalCut(s) == LoseMemory /\ Whole(s)' = jfile[s] /\ jsync'[s] = jsync[s]

JournalTorn(s) ==
  /\ PowerLoss
  /\ Whole(s)' \in Leftover(jfile[s], jsync[s]) /\ jsync'[s] = Len(Whole(s)')

JournalErased(s) ==
  /\ MaintTruncate(s) /\ Whole(s)' = <<>>
  /\ work[s] = <<>> /\ buf[s] = <<>>
  /\ \A x \in survivors[DomainOf(s)] : x.ckpt[s] >= nextSeq[s]

\* A journal of which nothing was written, lost or synced.
LEMMA JournalIdle ==
  ASSUME TypeOK, NEW s \in Shard, Fit(s),
         jfile'[s] = jfile[s], jbuf'[s] = jbuf[s], jsync'[s] = jsync[s]
  PROVE  Fit(s)' /\ JournalKept(s)
<1>1. jsync[s] \in Nat /\ Len(jfile[s]) \in Nat
  <2>1. jfile[s] \in Seq(Unit) /\ jsync[s] \in Nat
    BY DEF TypeOK
  <2> QED
    BY <2>1, LenProperties
<1> QED
  BY <1>1 DEF Fit, JournalKept, Whole

\* A journal whose buffered units were written to its file.
LEMMA JournalWritten ==
  ASSUME TypeOK, NEW s \in Shard, Fit(s),
         jfile'[s] = jfile[s] \o jbuf[s], jbuf'[s] = <<>>, jsync'[s] = jsync[s]
  PROVE  Fit(s)' /\ JournalKept(s)
<1>1. jfile[s] \in Seq(Unit) /\ jbuf[s] \in Seq(Unit) /\ jsync[s] \in Nat
  BY DEF TypeOK
<1>2. /\ jfile'[s] \in Seq(Unit) /\ Len(jfile'[s]) = Len(jfile[s]) + Len(jbuf[s])
      /\ Len(jfile[s]) \in Nat /\ Len(jbuf[s]) \in Nat
  BY <1>1, ConcatUnits
<1>3. Whole(s)' = Whole(s)
  BY <1>2, ConcatEmptySeq DEF Whole
<1>4. \A a, b \in Nat : a + b >= a /\ \A m \in 0 .. a : m \in 0 .. a + b
  OBVIOUS
<1>5. Len(jfile'[s]) >= Len(jfile[s]) /\ jsync[s] \in 0 .. Len(jfile'[s])
  BY <1>2, <1>4 DEF Fit
<1>6. jsync[s] >= jsync[s]
  BY <1>1
<1>7. Fit(s)'
  BY <1>5 DEF Fit
<1> QED
  BY <1>3, <1>5, <1>6, <1>7 DEF JournalKept

\* A maintenance pass reclaims a journal only if nothing is in line and every
\* state its store may come back in is past every number issued.
LEMMA TruncateJournal ==
  ASSUME TypeOK, LineInv, CheckpointInv, OwedInv, NEW k \in Shard, MaintTruncate(k),
         NEW s \in Shard, Fit(s)
  PROVE  Fit(s)' /\ (JournalKept(s) \/ JournalErased(s))
<1>1. CASE s # k \/ ~ (buf[k] = <<>> /\ nextSeq[k] = marks[k])
  <2>1. jfile'[s] = jfile[s] /\ jbuf'[s] = jbuf[s] /\ jsync'[s] = jsync[s]
    BY <1>1 DEF MaintTruncate, TypeOK
  <2> QED
    BY <2>1, JournalIdle
<1>2. CASE s = k /\ buf[k] = <<>> /\ nextSeq[k] = marks[k]
  <2>1. /\ jbuf'[s] = <<>>
        /\ \/ jfile'[s] = <<>> /\ jsync'[s] = 0
           \/ jfile'[s] = jfile[s] \o jbuf[s] /\ jsync'[s] = jsync[s]
    BY <1>2 DEF MaintTruncate, TypeOK
  <2>2. CASE jfile'[s] = jfile[s] \o jbuf[s] /\ jsync'[s] = jsync[s]
    BY <2>1, <2>2, JournalWritten
  <2>3. CASE jfile'[s] = <<>> /\ jsync'[s] = 0
    <3>1. mpc = "truncate"
      BY DEF MaintTruncate
    <3>2. Covered(DomainOf(s)) /\ marks[s] <= durable[s]
      BY <3>1, RoutingType DEF CheckpointInv, CheckpointCovers, OwedInv, Marked
    <3>3. \A x \in survivors[DomainOf(s)] : x.ckpt[s] >= nextSeq[s]
      BY <1>2, <3>2 DEF Covered
    <3>4. marks[s] \in Nat /\ durable[s] \in Nat
      BY DEF TypeOK
    <3>5. durable[s] >= nextSeq[s]
      BY <1>2, <3>2, <3>4
    <3>6. work[s] = <<>> /\ buf[s] = <<>>
      BY <3>5, NothingLeft
    <3>7. Whole(s)' = <<>>
      <4>1. <<>> \o <<>> = <<>>
        OBVIOUS
      <4> QED
        BY <2>1, <2>3, <4>1 DEF Whole
    <3>8. 0 \in 0 .. Len(<<>>)
      OBVIOUS
    <3> QED
      BY <1>2, <2>3, <3>3, <3>6, <3>7, <3>8 DEF JournalErased, Fit
  <2> QED
    BY <2>1, <2>2, <2>3
<1> QED
  BY <1>1, <1>2

\* A power loss leaves one of the leftovers of each journal, all of it synced.
LEMMA TornJournal ==
  ASSUME TypeOK, PowerLoss, NEW s \in Shard
  PROVE  Fit(s)' /\ JournalTorn(s)
<1>1. PICK files \in [Shard -> UNION {Leftover(jfile[k], jsync[k]) : k \in Shard}] :
        /\ \A k \in Shard : files[k] \in Leftover(jfile[k], jsync[k])
        /\ jfile' = files
        /\ jsync' = [k \in Shard |-> Len(files[k])]
  BY DEF PowerLoss
<1>2. files[s] \in Seq(Unit)
  BY <1>1, LeftoverType DEF TypeOK
<1>3. jfile'[s] = files[s] /\ jsync'[s] = Len(files[s]) /\ jbuf'[s] = <<>>
  BY <1>1 DEF PowerLoss, LoseMemory
<1>4. Whole(s)' = files[s]
  BY <1>2, <1>3, ConcatEmptySeq DEF Whole
<1>5. Len(files[s]) \in 0 .. Len(files[s])
  <2>1. Len(files[s]) \in Nat
    BY <1>2, LenProperties
  <2> QED
    BY <2>1
<1> QED
  BY <1>1, <1>3, <1>4, <1>5 DEF JournalTorn, Fit

\* Every step does one of these to the journal of each shard.
LEMMA JournalStep ==
  ASSUME TypeOK, TypeOK', LineInv, CheckpointInv, OwedInv, [Next]_vars,
         NEW s \in Shard, Fit(s)
  PROVE  /\ Fit(s)'
         /\ \/ JournalKept(s) \/ JournalGrown(s)
            \/ JournalCut(s) \/ JournalTorn(s) \/ JournalErased(s)
<1>0. jfile[s] \in Seq(Unit) /\ jbuf[s] \in Seq(Unit) /\ jsync[s] \in Nat
  BY DEF TypeOK
<1>1. ASSUME NEW c \in Client, NEW r \in Request, NEW waits \in BOOLEAN, Submit(c, r, waits)
      PROVE  Fit(s)' /\ (JournalKept(s) \/ JournalGrown(s))
  <2>1. PICK t \in Shard, e \in Entry :
          /\ t = ShardOf(r) /\ e.req = r /\ Submitted(t, e)
    BY <1>1, SubmitJournal
  <2>2. /\ jsync' = jsync
        /\ s # ShardOf(r) => jfile'[s] = jfile[s] /\ jbuf'[s] = jbuf[s]
    BY <1>1, RoutingType DEF Submit, TypeOK
  <2>3. CASE s = t
    <3>1. Fit(s)'
      <4>1. jfile'[s] \in Seq(Unit)
        BY DEF TypeOK
      <4>2. Len(jfile'[s]) \in Nat /\ Len(jfile[s]) \in Nat
        BY <1>0, <4>1, LenProperties
      <4> QED
        BY <1>0, <2>1, <2>2, <2>3, <4>2 DEF Fit, Submitted
    <3>2. JournalGrown(s)
      BY <1>1, <2>1, <2>2, <2>3 DEF JournalGrown
    <3> QED
      BY <3>1, <3>2
  <2>4. CASE s # t
    BY <2>1, <2>2, <2>4, JournalIdle
  <2> QED
    BY <2>3, <2>4
<1>2. CASE UNCHANGED <<jfile, jbuf, jsync>>
  BY <1>2, JournalIdle
<1>3. CASE \/ \E c \in Client : Wait(c)
           \/ \E p \in Snapshotter :
                PauseAdmissions(p) \/ SnapshotReady(p) \/ ResumeAdmissions(p)
           \/ MaintBegin \/ MaintAbort \/ \E d \in Domain : MaintCheckpoint(d)
           \/ StartEngine \/ StartFinish \/ SpawnFlushers
           \/ \E k \in Shard : ReplayShard(k)
           \/ Shutdown \/ RequestShutdown \/ JoinFlushers
           \/ UNCHANGED vars
  BY <1>2, <1>3 DEF Wait, WaitReturn, WaitCheck, WaitPark, PauseAdmissions, SnapshotReady,
       ResumeAdmissions, MaintBegin, MaintAbort, MaintCheckpoint, StartEngine, StartFinish,
       SpawnFlushers, ReplayShard, Shutdown, RequestShutdown, JoinFlushers, vars, queueVars
<1>4. ASSUME NEW k \in Shard, Drain(k) PROVE Fit(s)' /\ JournalKept(s)
  <2>1. CASE k # s
    BY <1>4, <2>1, DrainElsewhere, JournalIdle
  <2>2. CASE k = s /\ DrainSwap(s)
    <3>1. jfile'[s] = jfile[s] \o jbuf[s] /\ jbuf'[s] = <<>> /\ jsync'[s] = jsync[s]
      BY <2>2, SMTT(30) DEF DrainSwap, TypeOK
    <3> QED
      BY <3>1, JournalWritten
  <2>3. CASE k = s /\ DrainSync(s)
    <3>1. jfile'[s] = jfile[s] /\ jbuf'[s] = jbuf[s] /\ jsync'[s] = Len(jfile[s])
      BY <2>3 DEF DrainSync, TypeOK, queueVars
    <3>2. Len(jfile[s]) \in Nat
      BY <1>0, LenProperties
    <3> QED
      BY <1>0, <3>1, <3>2 DEF Fit, JournalKept, Whole
  <2>4. CASE k = s /\ ~ DrainSwap(s) /\ ~ DrainSync(s)
    <3>1. jfile' = jfile /\ jbuf' = jbuf /\ jsync' = jsync
      BY <1>4, <2>4 DEF Drain, DrainBatch, DrainBatchFails, Retry, RetryFails,
                        Reject, Requeue, DrainPublish, DrainNotify, queueVars
    <3> QED
      BY <3>1, JournalIdle
  <2> QED
    BY <2>1, <2>2, <2>3, <2>4
<1>5. ASSUME NEW k \in Shard, MaintTruncate(k)
      PROVE  Fit(s)' /\ (JournalKept(s) \/ JournalErased(s))
  BY <1>5, TruncateJournal
<1>6. CASE ShutdownDone \/ DropEngine
  <2>1. DropJournals /\ LoseMemory /\ jsync' = jsync
    BY <1>6 DEF ShutdownDone, DropEngine
  <2>2. jfile'[s] = jfile[s] \o jbuf[s]
    BY <2>1 DEF DropJournals
  <2>3. jbuf'[s] = <<>>
    BY <2>1 DEF LoseMemory
  <2> QED
    BY <2>1, <2>2, <2>3, JournalWritten
<1>7. CASE ProcessCrash \/ \E k \in Shard : ReplayFails(k)
  <2>1. LoseMemory /\ jfile' = jfile /\ jsync' = jsync /\ jbuf'[s] = <<>>
    BY <1>7 DEF ProcessCrash, ReplayFails, LoseMemory
  <2>2. Whole(s)' = jfile[s]
    BY <1>0, <2>1, ConcatEmptySeq DEF Whole
  <2> QED
    BY <2>1, <2>2 DEF JournalCut, Fit
<1>8. CASE PowerLoss
  BY <1>8, TornJournal
<1> QED
  BY <1>1, <1>3, <1>4, <1>5, <1>6, <1>7, <1>8 DEF Next, Start, Maintenance

-----------------------------------------------------------------------------
(* What a caller was told is durable, and what no fsync has covered yet.   *)

\* What is proved above of the lines, the stores and the journals.
EngineInv ==
  /\ TypeOK /\ DrainHoldsWork /\ LineInv /\ CheckpointInv /\ AheadInv /\ OwedInv

BusInv == EngineInv /\ JournalInv

\* The records an fsync has covered, and those written to the file.
Synced(s)  == RecordsTo(Whole(s), jsync[s])
Written(s) == RecordsTo(Whole(s), Len(jfile[s]))

\* State x of the store of shard s holds request r, or the next start replays
\* it from a record that is safe.
Backed(s, r, x) ==
  x.applied[r] > 0 \/ \E e \in Synced(s) : e.req = r /\ e.seq > x.ckpt[s]

\* A shard that hands out numbers replays no more: its store holds the request.
Secure(s, r) ==
  /\ \A x \in survivors[DomainOf(s)] : Backed(s, r, x)
  /\ Counting(s) => AppliedAt(s, r) > 0

\* A journal is as a file, seen from its parts.
LEMMA WholeType ==
  ASSUME TypeOK, NEW s \in Shard, Fit(s)
  PROVE  /\ Whole(s) \in Seq(Unit) /\ jfile[s] \in Seq(Unit) /\ jbuf[s] \in Seq(Unit)
         /\ Len(Whole(s)) \in Nat /\ Len(jfile[s]) \in Nat /\ jsync[s] \in Nat
         /\ Len(jfile[s]) <= Len(Whole(s)) /\ jsync[s] <= Len(jfile[s])
         /\ jsync[s] \in 0 .. Len(jfile[s])
<1>1. jfile[s] \in Seq(Unit) /\ jbuf[s] \in Seq(Unit) /\ jsync[s] \in Nat
  BY DEF TypeOK
<1>2. /\ Whole(s) \in Seq(Unit) /\ Len(Whole(s)) = Len(jfile[s]) + Len(jbuf[s])
      /\ Len(jfile[s]) \in Nat /\ Len(jbuf[s]) \in Nat
  BY <1>1, ConcatUnits DEF Whole
<1>3. \A a, b \in Nat : a + b \in Nat /\ a <= a + b
  OBVIOUS
<1>4. Len(Whole(s)) \in Nat /\ Len(jfile[s]) <= Len(Whole(s))
  BY <1>2, <1>3
<1>5. jsync[s] \in 0 .. Len(jfile[s]) /\ jsync[s] <= Len(jfile[s])
  BY <1>1, <1>2 DEF Fit
<1> QED
  BY <1>1, <1>2, <1>4, <1>5

\* What is safe is in the file, where a start would read it.
LEMMA SyncedParsed ==
  ASSUME TypeOK, NEW s \in Shard, Fit(s)
  PROVE  /\ Synced(s) \subseteq RecordsTo(jfile[s], jsync[s])
         /\ Synced(s) \subseteq Records(jfile[s])
<1>1. /\ jfile[s] \in Seq(Unit) /\ jbuf[s] \in Seq(Unit) /\ jsync[s] \in Nat
      /\ jsync[s] \in 0 .. Len(jfile[s])
  BY WholeType
<1>2. Synced(s) \subseteq RecordsTo(jfile[s], jsync[s])
  BY <1>1, RecordsPrefix DEF Synced, Whole
<1>3. RecordsTo(jfile[s], jsync[s]) \subseteq Records(jfile[s])
  BY <1>1, RecordsGrow
<1> QED
  BY <1>2, <1>3

\* No step but the reclaiming of a journal takes a record out of what is safe,
\* and none but a crash or that takes one out of the file.
LEMMA SyncedStays ==
  ASSUME BusInv, TypeOK', [Next]_vars, NEW s \in Shard, Fit(s)
  PROVE  /\ Fit(s)'
         /\ JournalErased(s) \/ Synced(s) \subseteq Synced(s)'
         /\ JournalErased(s) \/ LoseMemory \/ Written(s) \subseteq Written(s)'
<1>0. TypeOK /\ LineInv /\ CheckpointInv /\ OwedInv /\ JournalInv
  BY DEF BusInv, EngineInv
<1>1. /\ Fit(s)'
      /\ \/ JournalKept(s) \/ JournalGrown(s)
         \/ JournalCut(s) \/ JournalTorn(s) \/ JournalErased(s)
  BY <1>0, JournalStep
<1>2. /\ Whole(s) \in Seq(Unit) /\ jfile[s] \in Seq(Unit) /\ jbuf[s] \in Seq(Unit)
      /\ Len(Whole(s)) \in Nat /\ Len(jfile[s]) \in Nat /\ jsync[s] \in Nat
      /\ jsync[s] \in 0 .. Len(jfile[s])
  BY <1>0, WholeType
<1>3. Len(jfile'[s]) \in Nat /\ jsync'[s] \in Nat
  <2>1. jfile'[s] \in Seq(Unit) /\ jsync'[s] \in Nat
    BY DEF TypeOK
  <2> QED
    BY <2>1, LenProperties
<1>4. CASE JournalKept(s)
  <2>1. RecordsTo(Whole(s), jsync[s]) \subseteq RecordsTo(Whole(s), jsync'[s])
    BY <1>2, <1>3, <1>4, RecordsGrow DEF JournalKept
  <2>2. RecordsTo(Whole(s), Len(jfile[s])) \subseteq RecordsTo(Whole(s), Len(jfile'[s]))
    BY <1>2, <1>3, <1>4, RecordsGrow DEF JournalKept
  <2> QED
    BY <1>1, <1>4, <2>1, <2>2 DEF JournalKept, Synced, Written
<1>5. CASE JournalGrown(s)
  <2>1. PICK c \in Client, r \in Request, waits \in BOOLEAN, e \in Entry :
          /\ Submit(c, r, waits) /\ Submitted(s, e) /\ jsync'[s] = jsync[s]
    BY <1>5 DEF JournalGrown
  <2>2. EndsLine(Whole(s))
    <3>1. phase = "up"
      BY <2>1 DEF Submit
    <3> QED
      BY <1>0, <3>1 DEF JournalInv, Tails
  <2>3. PICK g \in Seq(Unit) : g = <<Record(e.seq, e.req), Mark("nl")>>
    <3>1. Record(e.seq, e.req) \in Unit /\ Mark("nl") \in Unit
      BY DEF Record, Mark, Unit, Entry
    <3>2. \A u, v \in Unit : <<u, v>> \in Seq(Unit)
      OBVIOUS
    <3>3. <<Record(e.seq, e.req), Mark("nl")>> \in Seq(Unit)
      BY <3>1, <3>2, Zenon
    <3> QED
      BY <3>3, Zenon
  <2>4. Whole(s)' = Whole(s) \o g /\ Len(jfile'[s]) >= Len(jfile[s])
    BY <2>1, <2>3 DEF Submitted
  <2>5. \A n : RecordsTo(Whole(s), n) \subseteq RecordsTo(Whole(s)', n)
    BY <1>2, <2>2, <2>4, RecordsExtend
  <2>6. Synced(s) \subseteq Synced(s)'
    BY <2>1, <2>5 DEF Synced
  <2>7. Whole(s)' \in Seq(Unit)
    BY <1>2, <2>4, ConcatUnits
  <2>8. RecordsTo(Whole(s)', Len(jfile[s])) \subseteq RecordsTo(Whole(s)', Len(jfile'[s]))
    BY <1>2, <1>3, <2>4, <2>7, RecordsGrow
  <2>9. Written(s) \subseteq Written(s)'
    BY <2>5, <2>8 DEF Written
  <2> QED
    BY <1>1, <2>6, <2>9
<1>6. CASE JournalCut(s)
  <2>1. Synced(s) \subseteq RecordsTo(jfile[s], jsync[s])
    BY <1>0, SyncedParsed
  <2> QED
    BY <1>1, <1>6, <2>1 DEF JournalCut, Synced
<1>7. CASE JournalTorn(s)
  <2>1. Synced(s) \subseteq RecordsTo(jfile[s], jsync[s])
    BY <1>0, SyncedParsed
  <2>2. PICK left \in Leftover(jfile[s], jsync[s]) : left = Whole(s)' /\ jsync'[s] = Len(left)
    BY <1>7 DEF JournalTorn
  <2>3. RecordsTo(jfile[s], jsync[s]) \subseteq RecordsTo(left, Len(left))
    BY <1>2, RecordsLeft
  <2>4. LoseMemory
    BY <1>7 DEF JournalTorn, PowerLoss
  <2>5. Synced(s)' = RecordsTo(left, Len(left))
    BY <2>2 DEF Synced
  <2> QED
    BY <1>1, <2>1, <2>3, <2>4, <2>5
<1> QED
  BY <1>1, <1>4, <1>5, <1>6, <1>7

-----------------------------------------------------------------------------
(* What a step can do to the stores: commit one transaction, which adds one *)
(* state a power loss may leave; lose power; or checkpoint a WAL.          *)

\* The stores are among the states a power loss may leave.
Present == \A d \in Domain : db[d] \in survivors[d]

\* No state of a store appears but the committed one.
OnlyCommitted ==
  \A d \in Domain : \A x \in survivors'[d] : x \in survivors[d] \/ x = db'[d]

\* The store of every shard comes back as one of its states.
PowerLost ==
  \A d \in Domain : db'[d] \in survivors[d] /\ survivors'[d] = {db'[d]}

\* A start replays shard k.
Replays(k) == phase = "replay" /\ k \in unreplayed /\ CommitPending(k)

\* One transaction adds its own state.
LEMMA CommitStates ==
  ASSUME TypeOK, Present, NEW s \in Shard, NEW add, NEW n, CommitTo(s, add, n)
  PROVE  Present' /\ OnlyCommitted
<1> DEFINE d   == DomainOf(s)
           new == [applied |-> [r \in Request |-> db[d].applied[r] + add[r]],
                   ckpt    |-> [db[d].ckpt EXCEPT ![s] = Larger(@, n)]]
<1>1. d \in Domain
  BY RoutingType
<1>2. /\ db' = [db EXCEPT ![d] = new]
      /\ survivors' = [survivors EXCEPT ![d] = @ \cup {new}]
  BY DEF CommitTo
<1> HIDE DEF new, d
<1>3. db'[d] = new /\ survivors'[d] = survivors[d] \cup {new}
  BY <1>1, <1>2 DEF TypeOK
<1>4. \A e \in Domain \ {d} : db'[e] = db[e] /\ survivors'[e] = survivors[e]
  BY <1>1, <1>2 DEF TypeOK
<1> QED
  BY <1>3, <1>4 DEF Present, OnlyCommitted

\* The step of the stores.
LEMMA StoreStep ==
  ASSUME TypeOK, DrainHoldsWork, LineInv, Present, [Next]_vars
  PROVE  /\ Present' /\ OnlyCommitted
         /\ \/ db' = db
            \/ PowerLoss /\ PowerLost
            \/ \E k \in Shard : Drain(k)
            \/ \E k \in Shard : Replays(k)
         /\ PowerLoss => PowerLost
<1>1. ASSUME UNCHANGED storeVars PROVE Present' /\ OnlyCommitted /\ db' = db
  BY <1>1 DEF Present, OnlyCommitted, storeVars
<1>2. ASSUME NEW k \in Shard, Drain(k) PROVE Present' /\ OnlyCommitted
  BY <1>1, <1>2, DrainCommits, CommitStates
<1>3. ASSUME NEW k \in Shard, CommitPending(k) PROVE Present' /\ OnlyCommitted
  BY <1>1, <1>3, CommitStates DEF CommitPending
<1>4. ASSUME NEW k \in Shard, ReplayShard(k) PROVE Present' /\ OnlyCommitted /\ Replays(k)
  BY <1>3, <1>4 DEF ReplayShard, Replays
<1>5. ASSUME NEW k \in Shard, ReplayFails(k)
      PROVE  Present' /\ OnlyCommitted /\ (db' = db \/ Replays(k))
  <2>1. /\ phase = "replay" /\ k \in unreplayed
        /\ UNCHANGED storeVars \/ CommitPending(k)
    BY <1>5 DEF ReplayFails
  <2> QED
    BY <1>1, <1>3, <2>1 DEF Replays
<1>6. ASSUME NEW d \in Domain, MaintCheckpoint(d) PROVE Present' /\ OnlyCommitted /\ db' = db
  <2>1. db' = db /\ (survivors' = survivors \/ survivors' = [survivors EXCEPT ![d] = {db[d]}])
    BY <1>6 DEF MaintCheckpoint, WalCheckpoint, WalCheckpointShort
  <2> QED
    BY <2>1, ZenonT(30) DEF Present, OnlyCommitted, TypeOK
<1>7. ASSUME PowerLoss PROVE PowerLost /\ Present' /\ OnlyCommitted
  <2>1. PICK left \in [Domain -> UNION {survivors[d] : d \in Domain}] :
          /\ \A d \in Domain : left[d] \in survivors[d]
          /\ db' = left
          /\ survivors' = [d \in Domain |-> {left[d]}]
    BY <1>7 DEF PowerLoss
  <2>2. \A d \in Domain : db'[d] \in survivors[d] /\ survivors'[d] = {db'[d]}
    BY <2>1
  <2> QED
    BY <1>7, <2>2 DEF PowerLost, Present, OnlyCommitted
<1>8. CASE \/ \E c \in Client, r \in Request, waits \in BOOLEAN : Submit(c, r, waits)
           \/ \E c \in Client : Wait(c)
           \/ \E p \in Snapshotter :
                PauseAdmissions(p) \/ SnapshotReady(p) \/ ResumeAdmissions(p)
           \/ MaintBegin \/ MaintAbort \/ \E s \in Shard : MaintTruncate(s)
           \/ StartEngine \/ StartFinish \/ SpawnFlushers
           \/ Shutdown \/ RequestShutdown \/ JoinFlushers \/ ShutdownDone \/ DropEngine
           \/ ProcessCrash \/ UNCHANGED vars
  <2>1. UNCHANGED storeVars
    BY <1>8 DEF Submit, Wait, WaitReturn, WaitCheck, WaitPark, PauseAdmissions,
         SnapshotReady, ResumeAdmissions, MaintBegin, MaintAbort, MaintTruncate,
         StartEngine, StartFinish, SpawnFlushers, Shutdown, RequestShutdown,
         JoinFlushers, ShutdownDone, DropEngine, ProcessCrash, storeVars, vars
  <2> QED
    BY <1>1, <1>7, <2>1
<1> QED
  BY <1>2, <1>4, <1>5, <1>6, <1>7, <1>8 DEF Next, Start, Maintenance

\* Only a power loss takes a checkpoint or a write back, and only a drain or a
\* replay of the shard itself moves its checkpoint.
LEMMA StoreMoves ==
  ASSUME TypeOK, DrainHoldsWork, LineInv, Present, [Next]_vars, ~ PowerLoss, NEW s \in Shard
  PROVE  /\ Ckpt(s)' >= Ckpt(s)
         /\ \A r \in Request : AppliedAt(s, r)' >= AppliedAt(s, r)
         /\ Ckpt(s)' = Ckpt(s) \/ Drain(s) \/ Replays(s)
<1>1. CASE db' = db
  <2>1. Ckpt(s)' = Ckpt(s) /\ \A r \in Request : AppliedAt(s, r)' = AppliedAt(s, r)
    BY <1>1 DEF Ckpt, AppliedAt
  <2> QED
    BY <2>1, CkptType, AppliedType
<1>2. ASSUME NEW k \in Shard, Drain(k)
      PROVE  /\ Ckpt(s)' >= Ckpt(s)
             /\ \A r \in Request : AppliedAt(s, r)' >= AppliedAt(s, r)
             /\ Ckpt(s)' = Ckpt(s) \/ Drain(s)
  <2>1. \A a \in Nat : a >= a
    OBVIOUS
  <2> QED
    BY <1>2, <2>1, DrainStores, CkptType
<1>3. ASSUME NEW k \in Shard, Replays(k)
      PROVE  /\ Ckpt(s)' >= Ckpt(s)
             /\ \A r \in Request : AppliedAt(s, r)' >= AppliedAt(s, r)
             /\ Ckpt(s)' = Ckpt(s) \/ Replays(s)
  <2>1. CommitPending(k)
    BY <1>3 DEF Replays
  <2>2. StoreGrows
    BY <2>1, ReplayCovers
  <2>3. k # s => Ckpt(s)' = Ckpt(s)
    BY <2>1, ReplayExact
  <2>4. \A r \in Request : AppliedAt(s, r)' >= AppliedAt(s, r)
    BY <2>1, ReplayExact
  <2> QED
    BY <1>3, <2>2, <2>3, <2>4 DEF StoreGrows
<1> QED
  BY <1>1, <1>2, <1>3, StoreStep

\* A shard begins to hand out numbers by its replay.
LEMMA CountingStarts ==
  ASSUME [Next]_vars, NEW s \in Shard, ~ Counting(s), Counting(s)'
  PROVE  Replays(s)
<1>1. phase' # "down" /\ ~ (phase' = "replay" /\ s \in unreplayed')
  BY DEF Counting
<1>2. phase = "down" \/ (phase = "replay" /\ s \in unreplayed)
  BY DEF Counting
<1>3. ~ (phase' = phase /\ unreplayed' = unreplayed)
  BY <1>1, <1>2
<1>4. ASSUME NEW k \in Shard, ReplayShard(k) PROVE Replays(s)
  <2>1. phase' = phase /\ unreplayed' = unreplayed \ {k} /\ phase = "replay"
    BY <1>4 DEF ReplayShard
  <2>2. k = s
    BY <1>1, <1>2, <2>1
  <2> QED
    BY <1>4, <2>2 DEF ReplayShard, Replays
<1>5. ~ \E k \in Shard : Drain(k)
  BY <1>3, DrainFrame
<1>6. ~ \/ \E c \in Client, r \in Request, waits \in BOOLEAN : Submit(c, r, waits)
        \/ \E c \in Client : Wait(c)
        \/ \E p \in Snapshotter :
             PauseAdmissions(p) \/ SnapshotReady(p) \/ ResumeAdmissions(p)
        \/ Maintenance \/ UNCHANGED vars
  BY <1>3 DEF Submit, Wait, WaitReturn, WaitCheck, WaitPark, PauseAdmissions,
       SnapshotReady, ResumeAdmissions, Maintenance, MaintBegin, MaintAbort,
       MaintCheckpoint, MaintTruncate, vars
<1>7. ~ \/ StartEngine \/ StartFinish \/ SpawnFlushers
        \/ Shutdown \/ RequestShutdown \/ JoinFlushers
  BY <1>1, <1>2 DEF StartEngine, StartFinish, SpawnFlushers, Shutdown, RequestShutdown,
       JoinFlushers
<1>8. ~ \/ ShutdownDone \/ DropEngine \/ ProcessCrash \/ PowerLoss
        \/ \E k \in Shard : ReplayFails(k)
  BY <1>1 DEF ShutdownDone, DropEngine, ProcessCrash, PowerLoss, ReplayFails, LoseMemory
<1> QED
  BY <1>4, <1>5, <1>6, <1>7, <1>8 DEF Next, Start

\* A drain runs in an engine that counts, and so does a maintenance pass.
LEMMA CountingWorks ==
  ASSUME LineInv, OwedInv, NEW s \in Shard, ~ Counting(s)
  PROVE  /\ \A k \in Shard : ~ Drain(k)
         /\ ~ JournalErased(s)
<1>1. phase = "down" \/ (phase = "replay" /\ s \in unreplayed)
  BY DEF Counting
<1>2. ASSUME NEW k \in Shard, Drain(k) PROVE FALSE
  <2>1. dpc[k] = "idle" /\ phase \notin {"up", "closing"}
    BY <1>1 DEF LineInv, Dormant
  <2> QED
    BY <1>2, <2>1 DEF Drain, DrainSwap, Running, DrainSync, DrainBatch, DrainBatchFails,
         Retry, RetryFails, Reject, Requeue, DrainPublish, DrainNotify
<1>3. mpc = "idle"
  BY <1>1 DEF OwedInv, Marked
<1>4. ~ JournalErased(s)
  BY <1>3 DEF JournalErased, MaintTruncate
<1> QED
  BY <1>2, <1>4

\* The states of a store count requests and checkpoints.
LEMMA StateType ==
  ASSUME TypeOK, NEW s \in Shard, NEW x \in survivors[DomainOf(s)]
  PROVE  x.ckpt[s] \in Nat /\ \A r \in Request : x.applied[r] \in Nat
<1>1. x \in State
  BY RoutingType DEF TypeOK
<1> QED
  BY <1>1 DEF State

\* What backs a request in a state of its store goes on backing it.
LEMMA BackedStays ==
  ASSUME BusInv, TypeOK', [Next]_vars, NEW s \in Shard, Fit(s), NEW r \in Request,
         NEW x \in survivors[DomainOf(s)], Backed(s, r, x)
  PROVE  Backed(s, r, x)'
<1>0. TypeOK /\ LineInv /\ AheadInv /\ OwedInv
  BY DEF BusInv, EngineInv
<1>1. CASE Synced(s) \subseteq Synced(s)'
  BY <1>1 DEF Backed
<1>2. CASE JournalErased(s)
  <2> SUFFICES ASSUME NEW e \in Synced(s), e.req = r, e.seq > x.ckpt[s]
               PROVE  FALSE
    BY DEF Backed
  <2>1. Counting(s)
    BY <1>0, <1>2, CountingWorks
  <2>2. e \in Records(jfile[s])
    BY <1>0, SyncedParsed
  <2>3. e \notin LineOf(s) /\ x.ckpt[s] >= nextSeq[s]
    BY <1>2 DEF JournalErased, LineOf, Entries
  <2>4. ~ (e.seq > Ckpt(s))
    BY <1>0, <2>1, <2>2, <2>3 DEF OwedInv, Owed
  <2>5. Ckpt(s) <= nextSeq[s]
    BY <1>0, <2>1 DEF AheadInv, Numbered
  <2>6. e.seq \in Nat
    <3>1. jfile[s] \in Seq(Unit)
      BY <1>0 DEF TypeOK
    <3> QED
      BY <2>2, <3>1, LooseType, JournalConcat
  <2>7. Ckpt(s) \in Nat /\ nextSeq[s] \in Nat /\ x.ckpt[s] \in Nat
    BY <1>0, CkptType, StateType DEF TypeOK
  <2> QED
    BY <2>3, <2>4, <2>5, <2>6, <2>7
<1> QED
  BY <1>1, <1>2, SyncedStays

\* A request the store of a counting shard holds, and one that its replay takes
\* from the journal.
LEMMA SecureStays ==
  ASSUME BusInv, TypeOK', Present, [Next]_vars, NEW s \in Shard, Fit(s), NEW r \in Request,
         Secure(s, r)
  PROVE  Secure(s, r)'
<1>0. TypeOK /\ DrainHoldsWork /\ LineInv /\ AheadInv /\ OwedInv /\ DomainOf(s) \in Domain
  BY RoutingType DEF BusInv, EngineInv
<1>1. AppliedAt(s, r) \in Nat /\ AppliedAt(s, r)' \in Nat
  <2>1. db' \in [Domain -> State]
    BY DEF TypeOK
  <2> QED
    BY <1>0, <2>1, AppliedType DEF State, AppliedAt
<1>2. ~ PowerLoss => AppliedAt(s, r)' >= AppliedAt(s, r)
  BY <1>0, StoreMoves
<1>3. ~ PowerLoss /\ AppliedAt(s, r) > 0 => AppliedAt(s, r)' > 0
  BY <1>1, <1>2
<1>4. AppliedAt(s, r) > 0 \/ \E e \in Synced(s) : e.req = r /\ e.seq > Ckpt(s)
  <2>1. db[DomainOf(s)] \in survivors[DomainOf(s)]
    BY <1>0 DEF Present
  <2>2. \A x : x = db[DomainOf(s)] => Backed(s, r, x)
    BY <2>1 DEF Secure
  <2> QED
    BY <2>2 DEF Backed, AppliedAt, Ckpt
<1>5. ASSUME Replays(s), ~ PowerLoss PROVE AppliedAt(s, r)' > 0
  <2>1. CASE AppliedAt(s, r) > 0
    BY <1>3, <1>5, <2>1
  <2>2. CASE \E e \in Synced(s) : e.req = r /\ e.seq > Ckpt(s)
    <3>1. InJournal(s, r)
      BY <1>0, <2>2, SyncedParsed DEF InJournal
    <3> QED
      BY <1>0, <1>5, <3>1, ReplayApplies DEF Replays, InStore
  <2> QED
    BY <1>4, <2>1, <2>2
<1>6. ASSUME Counting(s)' PROVE AppliedAt(s, r)' > 0
  <2>1. ~ PowerLoss
    BY <1>6 DEF Counting, PowerLoss, LoseMemory
  <2>2. CASE Counting(s)
    BY <1>3, <2>1, <2>2 DEF Secure
  <2>3. CASE ~ Counting(s)
    BY <1>5, <1>6, <2>1, <2>3, CountingStarts
  <2> QED
    BY <2>2, <2>3
<1>7. ASSUME NEW x \in survivors'[DomainOf(s)] PROVE Backed(s, r, x)'
  <2>1. CASE x \in survivors[DomainOf(s)]
    BY <2>1, BackedStays DEF Secure
  <2>2. CASE x \notin survivors[DomainOf(s)]
    <3>1. x = db'[DomainOf(s)] /\ ~ PowerLoss /\ db' # db
      BY <1>0, <2>2, StoreStep DEF OnlyCommitted, PowerLost, Present
    <3>2. x.applied[r] = AppliedAt(s, r)' /\ x.ckpt[s] = Ckpt(s)'
      BY <3>1 DEF AppliedAt, Ckpt
    <3>3. CASE AppliedAt(s, r)' > 0
      BY <3>2, <3>3 DEF Backed
    <3>4. CASE ~ (AppliedAt(s, r)' > 0)
      <4>1. ~ (AppliedAt(s, r) > 0) /\ ~ Replays(s)
        BY <1>3, <1>5, <3>1, <3>4
      <4>2. ~ Counting(s)
        BY <4>1 DEF Secure
      <4>3. ~ Drain(s) /\ ~ JournalErased(s)
        BY <1>0, <4>2, CountingWorks
      <4>4. Ckpt(s)' = Ckpt(s)
        BY <1>0, <3>1, <4>1, <4>3, StoreMoves
      <4>5. Synced(s) \subseteq Synced(s)'
        BY <4>3, SyncedStays
      <4>6. \E e \in Synced(s)' : e.req = r /\ e.seq > x.ckpt[s]
        BY <1>4, <3>2, <4>1, <4>4, <4>5
      <4> QED
        BY <4>6 DEF Backed
    <3> QED
      BY <3>3, <3>4
  <2> QED
    BY <2>1, <2>2
<1> QED
  BY <1>6, <1>7 DEF Secure

-----------------------------------------------------------------------------
(* The line and the fsync that covers it.                                  *)

\* The batch of a drain is written out, then safe, before it is committed.
WorkSynced(s) ==
  /\ dpc[s] \in {"sync", "batch", "retry", "mark"} => Entries(work[s]) \subseteq Written(s)
  /\ dpc[s] \in {"batch", "retry", "mark"} => Entries(work[s]) \subseteq Synced(s)

\* No state a store may come back in passes a write of its line, unless it
\* holds it.
LineSafe(s) ==
  \A e \in LineOf(s) : \A x \in survivors[DomainOf(s)] :
    x.applied[e.req] > 0 \/ x.ckpt[s] < e.seq

\* Neither does it pass the checkpoint committed.
Behind(s) == \A x \in survivors[DomainOf(s)] : x.ckpt[s] <= Ckpt(s)

SyncInv ==
  /\ Present
  /\ \A s \in Shard : Fit(s) /\ Behind(s) /\ WorkSynced(s) /\ LineSafe(s)

\* What a drain takes from its line it takes from its batch, when it commits.
LEMMA DrainFinishes ==
  ASSUME TypeOK, LineInv, NEW s \in Shard, Drain(s)
  PROVE  /\ Entries(buf[s]) \subseteq LineOf(s)'
         /\ dpc[s] \notin {"batch", "retry", "mark"} => LineOf(s) \subseteq LineOf(s)'
<1>0. work[s] \in Seq(Entry) /\ buf[s] \in Seq(Entry)
  BY LineType
<1>1. CASE DrainSwap(s)
  <2>1. work'[s] = buf[s] /\ buf'[s] = <<>> /\ dpc[s] = "idle"
    BY <1>1 DEF DrainSwap, TypeOK
  <2>2. work[s] = <<>> /\ Entries(<<>>) = {}
    BY <2>1 DEF LineInv, Line, Ended, Entries
  <2> QED
    BY <2>1, <2>2 DEF LineOf
<1>2. CASE DrainSync(s) \/ DrainBatchFails(s) \/ RetryFails(s) \/ DrainPublish(s) \/ DrainNotify(s)
  <2>1. work' = work /\ buf' = buf
    BY <1>2 DEF DrainSync, DrainBatchFails, RetryFails, DrainPublish, DrainNotify, queueVars
  <2> QED
    BY <2>1 DEF LineOf
<1>3. CASE DrainBatch(s) \/ Retry(s) \/ Reject(s)
  <2>1. buf' = buf /\ dpc[s] \in {"batch", "retry", "mark"}
    BY <1>3 DEF DrainBatch, Retry, Reject, queueVars
  <2> QED
    BY <2>1 DEF LineOf
<1>4. CASE Requeue(s)
  <2>1. buf'[s] = work[s] \o buf[s] /\ dpc[s] = "mark"
    BY <1>4 DEF Requeue, TypeOK
  <2>2. Entries(work[s] \o buf[s]) = Entries(work[s]) \cup Entries(buf[s])
    BY <1>0, EntriesType
  <2> QED
    BY <2>1, <2>2 DEF LineOf
<1> QED
  BY <1>1, <1>2, <1>3, <1>4 DEF Drain

\* A drain commits what it has written and synced.
LEMMA DrainSynced ==
  ASSUME BusInv, TypeOK', [Next]_vars, NEW s \in Shard, Drain(s), Fit(s), WorkSynced(s)
  PROVE  WorkSynced(s)'
<1>0. /\ TypeOK /\ JournalInv /\ DrainHoldsWork
      /\ work[s] \in Seq(Entry) /\ buf[s] \in Seq(Entry)
  BY LineType DEF BusInv, EngineInv
<1>1. Whole(s) \in Seq(Unit) /\ Len(Whole(s)) \in Nat
  BY <1>0, WholeType
<1>2. CASE DrainSwap(s)
  <2>1. /\ jfile'[s] = Whole(s) /\ work'[s] = buf[s] /\ dpc'[s] = "sync"
    BY <1>0, <1>2 DEF DrainSwap, TypeOK, Whole
  <2>2. Whole(s)' = Whole(s)
    BY <1>0, DrainJournal
  <2>3. RecordsTo(Whole(s), Len(Whole(s))) = Records(Whole(s))
    <3>1. \A n \in Nat : n <= n
      OBVIOUS
    <3> QED
      BY <1>1, <3>1, RecordsGrow
  <2>4. Written(s)' = Records(Whole(s))
    BY <2>1, <2>2, <2>3 DEF Written
  <2>5. Entries(buf[s]) \subseteq Records(Whole(s))
    BY <1>0 DEF JournalInv, Journaled, LineOf
  <2> QED
    BY <2>1, <2>4, <2>5 DEF WorkSynced
<1>3. CASE DrainSync(s)
  <2>1. /\ dpc[s] = "sync" /\ work' = work /\ jfile' = jfile /\ jbuf' = jbuf
        /\ jsync'[s] = Len(jfile[s])
    BY <1>0, <1>3 DEF DrainSync, TypeOK, queueVars
  <2>2. Written(s)' = Written(s) /\ Synced(s)' = Written(s)
    BY <2>1 DEF Written, Synced, Whole
  <2> QED
    BY <2>1, <2>2 DEF WorkSynced
<1>4. CASE DrainPublish(s) \/ DrainNotify(s)
  <2>1. dpc'[s] \in {"notify", "idle"}
    BY <1>0, <1>4 DEF DrainPublish, DrainNotify, TypeOK
  <2> QED
    BY <2>1 DEF WorkSynced
<1>5. CASE DrainBatch(s) \/ Requeue(s)
  <2>1. dpc'[s] \in {"publish", "idle"}
    BY <1>0, <1>5 DEF DrainBatch, Requeue, TypeOK
  <2> QED
    BY <2>1 DEF WorkSynced
<1>6. CASE DrainBatchFails(s) \/ RetryFails(s) \/ Retry(s) \/ Reject(s)
  <2>1. /\ dpc[s] \in {"batch", "retry", "mark"}
        /\ jfile' = jfile /\ jbuf' = jbuf /\ jsync' = jsync
        /\ work'[s] \in {work[s], Tail(work[s])}
    BY <1>0, <1>6, SMTT(30) DEF DrainBatchFails, RetryFails, Retry, Reject, TypeOK, queueVars
  <2>2. Written(s)' = Written(s) /\ Synced(s)' = Synced(s)
    BY <2>1 DEF Written, Synced, Whole
  <2>3. Entries(work[s]) = {Head(work[s])} \cup Entries(Tail(work[s]))
    BY <1>0, <2>1, EntriesType DEF DrainHoldsWork
  <2>4. Entries(work[s])' \subseteq Entries(work[s])
    BY <2>1, <2>3
  <2> QED
    BY <2>1, <2>2, <2>4 DEF WorkSynced
<1> QED
  BY <1>2, <1>3, <1>4, <1>5, <1>6 DEF Drain

\* A step loses the memory of the process, drains the shard, adds a submission
\* to its line, or leaves its line and its drain alone.
LEMMA LineStep ==
  ASSUME TypeOK, [Next]_vars, NEW s \in Shard
  PROVE  \/ LoseMemory
         \/ Drain(s)
         \/ \E c \in Client, r \in Request, waits \in BOOLEAN, e \in Entry :
              /\ Submit(c, r, waits) /\ s = ShardOf(r) /\ e.req = r /\ Submitted(s, e)
              /\ work'[s] = work[s] /\ dpc'[s] = dpc[s]
         \/ work'[s] = work[s] /\ dpc'[s] = dpc[s] /\ buf'[s] = buf[s]
<1>1. ASSUME NEW k \in Shard, Drain(k), ~ Drain(s)
      PROVE  work'[s] = work[s] /\ dpc'[s] = dpc[s] /\ buf'[s] = buf[s]
  <2>1. k # s
    BY <1>1
  <2> QED
    BY <1>1, <2>1, DrainElsewhere
<1>2. ASSUME NEW c \in Client, NEW r \in Request, NEW waits \in BOOLEAN, Submit(c, r, waits)
      PROVE  \/ \E e \in Entry : s = ShardOf(r) /\ e.req = r /\ Submitted(s, e)
             \/ buf'[s] = buf[s]
  <2>1. PICK t \in Shard, e \in Entry :
          /\ t = ShardOf(r) /\ e.req = r /\ Submitted(t, e)
    BY <1>2, SubmitJournal
  <2>2. s # ShardOf(r) => buf'[s] = buf[s]
    BY <1>2, RoutingType DEF Submit, TypeOK
  <2> QED
    BY <2>1, <2>2
<1>3. ASSUME NEW c \in Client, NEW r \in Request, NEW waits \in BOOLEAN, Submit(c, r, waits)
      PROVE  work'[s] = work[s] /\ dpc'[s] = dpc[s]
  BY <1>3 DEF Submit, drainVars
<1>4. CASE \/ \E c \in Client : Wait(c)
           \/ \E p \in Snapshotter :
                PauseAdmissions(p) \/ SnapshotReady(p) \/ ResumeAdmissions(p)
           \/ Maintenance
           \/ UNCHANGED vars
  <2>1. work' = work /\ buf' = buf /\ dpc' = dpc
    BY <1>4 DEF Wait, WaitReturn, WaitCheck, WaitPark, PauseAdmissions, SnapshotReady,
         ResumeAdmissions, Maintenance, MaintBegin, MaintAbort, MaintCheckpoint,
         MaintTruncate, queueVars, drainVars, vars
  <2> QED
    BY <2>1
<1>5. CASE \/ StartEngine \/ StartFinish \/ SpawnFlushers
           \/ Shutdown \/ RequestShutdown \/ JoinFlushers
           \/ \E k \in Shard : ReplayShard(k)
  <2>1. work' = work /\ buf' = buf /\ dpc' = dpc
    BY <1>5 DEF StartEngine, StartFinish, SpawnFlushers, Shutdown, RequestShutdown,
         JoinFlushers, ReplayShard, queueVars, drainVars
  <2> QED
    BY <2>1
<1>6. CASE ShutdownDone \/ DropEngine \/ ProcessCrash \/ PowerLoss \/ \E k \in Shard : ReplayFails(k)
  BY <1>6 DEF ShutdownDone, DropEngine, ProcessCrash, PowerLoss, ReplayFails
<1> QED
  BY <1>1, <1>2, <1>3, <1>4, <1>5, <1>6 DEF Next, Start

\* Every step keeps the work of a drain written, and synced once it is.
LEMMA WorkStays ==
  ASSUME BusInv, TypeOK', [Next]_vars, NEW s \in Shard, Fit(s), WorkSynced(s)
  PROVE  WorkSynced(s)'
<1>0. TypeOK
  BY DEF BusInv, EngineInv
<1>1. CASE LoseMemory
  <2>1. dpc'[s] = "idle"
    BY <1>1 DEF LoseMemory
  <2> QED
    BY <2>1 DEF WorkSynced
<1>2. CASE Drain(s)
  BY <1>2, DrainSynced
<1>3. CASE work'[s] = work[s] /\ dpc'[s] = dpc[s] /\ ~ LoseMemory
  <2>1. CASE JournalErased(s)
    <3>1. Entries(work'[s]) = {}
      BY <1>3, <2>1 DEF JournalErased, Entries
    <3> QED
      BY <3>1 DEF WorkSynced
  <2>2. CASE Synced(s) \subseteq Synced(s)' /\ Written(s) \subseteq Written(s)'
    BY <1>3, <2>2 DEF WorkSynced
  <2> QED
    BY <1>3, <2>1, <2>2, SyncedStays
<1> QED
  BY <1>0, <1>1, <1>2, <1>3, LineStep

\* Every step keeps the states of a store behind its line.
LEMMA LineStaysSafe ==
  ASSUME BusInv, TypeOK', AheadInv', Present, [Next]_vars, NEW s \in Shard,
         Behind(s), LineSafe(s)
  PROVE  Behind(s)' /\ LineSafe(s)'
<1>0. /\ TypeOK /\ DrainHoldsWork /\ LineInv /\ AheadInv
      /\ DomainOf(s) \in Domain /\ Ckpt(s) \in Nat /\ Ckpt(s)' \in Nat
  BY RoutingType, CkptType, CkptTypeNext DEF BusInv, EngineInv
<1>1. /\ \A x \in survivors'[DomainOf(s)] :
           x \in survivors[DomainOf(s)] \/ x = db'[DomainOf(s)]
      /\ PowerLoss => survivors'[DomainOf(s)] = {db'[DomainOf(s)]}
  BY <1>0, StoreStep DEF OnlyCommitted, PowerLost
<1>2. Behind(s)'
  <2> SUFFICES ASSUME NEW x \in survivors'[DomainOf(s)] PROVE x.ckpt[s] <= Ckpt(s)'
    BY DEF Behind
  <2>1. CASE x = db'[DomainOf(s)]
    BY <1>0, <2>1 DEF Ckpt
  <2>2. CASE x \in survivors[DomainOf(s)] /\ ~ PowerLoss
    <3>1. x.ckpt[s] \in Nat /\ x.ckpt[s] <= Ckpt(s)
      BY <1>0, <2>2, StateType DEF Behind
    <3>2. Ckpt(s)' >= Ckpt(s)
      BY <1>0, <2>2, StoreMoves
    <3> QED
      BY <1>0, <3>1, <3>2
  <2> QED
    BY <1>1, <2>1, <2>2
<1>3. LineSafe(s)'
  <2> SUFFICES ASSUME NEW e \in LineOf(s)', NEW x \in survivors'[DomainOf(s)]
               PROVE  x.applied[e.req] > 0 \/ x.ckpt[s] < e.seq
    BY DEF LineSafe
  <2>0. e.seq \in Nat
    <3>1. work'[s] \in Seq(Entry) /\ buf'[s] \in Seq(Entry)
      BY DEF TypeOK
    <3> QED
      BY <3>1, EntriesType DEF LineOf
  <2>1. CASE x = db'[DomainOf(s)]
    <3>1. e.seq > Ckpt(s)' \/ AppliedAt(s, e.req)' > 0
      BY DEF AheadInv, AllAhead, AheadAt, LineOf
    <3> QED
      BY <1>0, <2>0, <2>1, <3>1 DEF Ckpt, AppliedAt
  <2>2. CASE x \in survivors[DomainOf(s)]
    <3>1. CASE e \in LineOf(s)
      BY <2>2, <3>1 DEF LineSafe
    <3>2. CASE phase = "up" /\ e.seq = nextSeq[s] + 1
      <4>1. Ckpt(s) <= nextSeq[s] /\ nextSeq[s] \in Nat
        BY <1>0, <3>2 DEF AheadInv, Numbered, Counting, TypeOK
      <4>2. x.ckpt[s] <= Ckpt(s) /\ x.ckpt[s] \in Nat
        BY <1>0, <2>2, StateType DEF Behind
      <4> QED
        BY <1>0, <3>2, <4>1, <4>2
    <3>3. CASE Drain(s)
      BY <1>0, <3>1, <3>3, DrainTakes
    <3>4. CASE LoseMemory
      BY <3>4 DEF LoseMemory, LineOf, Entries
    <3>5. CASE \E c \in Client, r \in Request, waits \in BOOLEAN, f \in Entry :
                 Submit(c, r, waits) /\ Submitted(s, f)
      <4>1. PICK f \in Entry : phase = "up" /\ Submitted(s, f)
        BY <3>5 DEF Submit
      <4> QED
        BY <3>1, <3>2, <4>1 DEF Submitted
    <3>6. CASE work'[s] = work[s] /\ buf'[s] = buf[s]
      BY <3>1, <3>6 DEF LineOf
    <3> QED
      BY <1>0, <3>3, <3>4, <3>5, <3>6, LineStep
  <2> QED
    BY <1>1, <2>1, <2>2
<1> QED
  BY <1>2, <1>3

\* In either environment, no state a store may come back in is ahead of its
\* line, and what a drain commits is safe in the journal before it does.
THEOREM SyncCorrect ==
  ASSUME WholeWrites \/ FullPasses
  PROVE  Spec => [](BusInv /\ SyncInv)
<1>1. Init => SyncInv
  <2> SUFFICES ASSUME Init PROVE SyncInv
    OBVIOUS
  <2>1. \A d \in Domain : survivors[d] = {db[d]}
    BY DEF Init
  <2> SUFFICES ASSUME NEW s \in Shard
               PROVE  Fit(s) /\ Behind(s) /\ WorkSynced(s) /\ LineSafe(s)
    BY <2>1 DEF SyncInv, Present
  <2>2. /\ jsync[s] = 0 /\ jfile[s] = <<>> /\ dpc[s] = "idle"
        /\ work[s] = <<>> /\ buf[s] = <<>>
    BY DEF Init
  <2>3. 0 \in 0 .. Len(<<>>)
    OBVIOUS
  <2>4. Behind(s)
    <3>1. Ckpt(s) = 0 /\ survivors[DomainOf(s)] = {db[DomainOf(s)]}
      BY <2>1, RoutingType DEF Init, Ckpt
    <3> QED
      BY <3>1 DEF Behind, Ckpt
  <2>5. LineOf(s) = {}
    BY <2>2 DEF LineOf, Entries
  <2> QED
    BY <2>2, <2>3, <2>4, <2>5 DEF Fit, WorkSynced, LineSafe
<1>2. BusInv /\ SyncInv /\ TypeOK' /\ AheadInv' /\ [Next]_vars => SyncInv'
  <2> SUFFICES ASSUME BusInv, SyncInv, TypeOK', AheadInv', [Next]_vars
               PROVE  SyncInv'
    OBVIOUS
  <2>1. Present'
    BY StoreStep DEF BusInv, EngineInv, SyncInv
  <2>2. \A s \in Shard : Fit(s)' /\ WorkSynced(s)' /\ Behind(s)' /\ LineSafe(s)'
    BY SyncedStays, WorkStays, LineStaysSafe DEF SyncInv
  <2> QED
    BY <2>1, <2>2 DEF SyncInv
<1>3. Spec => []BusInv
  <2>1. TypeOK /\ DrainHoldsWork /\ LineInv /\ CheckpointInv /\ AheadInv /\ OwedInv /\ JournalInv
        => BusInv
    BY DEF BusInv, EngineInv
  <2> QED
    BY <2>1, AheadCorrect, CheckpointCorrect, OwedCorrect, JournalCorrect, PTL
<1>4. BusInv => TypeOK /\ AheadInv
  BY DEF BusInv, EngineInv
<1> QED
  BY <1>1, <1>2, <1>3, <1>4, PTL DEF Spec

-----------------------------------------------------------------------------
(* The outcome of a ticket.                                                *)

\* An entry is in line, was rejected, or is safe for good.
Outcome(s, e) == e \in LineOf(s) \/ e.seq \in failures[s] \/ Secure(s, e.req)

\* A caller waits for an outcome, and was told of one.
Owing == \A c \in Client : cpc[c] # "idle" =>
           ticket[c] \in Entry /\ Outcome(ShardOf(ticket[c].req), ticket[c])
ToldSafe == \A r \in Request : told[r] = "durable" => Secure(ShardOf(r), r)

\* The failures of a shard are forgotten with the process only.
LEMMA FailuresStay ==
  ASSUME TypeOK, [Next]_vars, ~ LoseMemory, NEW s \in Shard
  PROVE  failures[s] \subseteq failures'[s]
<1>1. ASSUME NEW k \in Shard, Drain(k) PROVE failures[s] \subseteq failures'[s]
  <2>1. CASE Reject(k)
    BY <2>1 DEF Reject, TypeOK
  <2>2. CASE ~ Reject(k)
    BY <1>1, <2>2 DEF Drain, DrainSwap, DrainSync, DrainBatch, DrainBatchFails, Retry,
         RetryFails, Requeue, DrainPublish, DrainNotify
  <2> QED
    BY <2>1, <2>2
<1>2. CASE \/ \E c \in Client, r \in Request, waits \in BOOLEAN : Submit(c, r, waits)
           \/ \E c \in Client : Wait(c)
           \/ \E p \in Snapshotter :
                PauseAdmissions(p) \/ SnapshotReady(p) \/ ResumeAdmissions(p)
           \/ Maintenance
           \/ UNCHANGED vars
  <2>1. failures' = failures
    BY <1>2 DEF Submit, Wait, WaitReturn, WaitCheck, WaitPark, PauseAdmissions,
         SnapshotReady, ResumeAdmissions, Maintenance, MaintBegin, MaintAbort,
         MaintCheckpoint, MaintTruncate, vars
  <2> QED
    BY <2>1
<1>3. CASE \/ StartEngine \/ StartFinish \/ SpawnFlushers
           \/ Shutdown \/ RequestShutdown \/ JoinFlushers
           \/ \E k \in Shard : ReplayShard(k)
  <2>1. failures' = failures
    BY <1>3 DEF StartEngine, StartFinish, SpawnFlushers, Shutdown, RequestShutdown,
         JoinFlushers, ReplayShard
  <2> QED
    BY <2>1
<1>4. ~ \/ ShutdownDone \/ DropEngine \/ ProcessCrash \/ PowerLoss
        \/ \E k \in Shard : ReplayFails(k)
  BY DEF ShutdownDone, DropEngine, ProcessCrash, PowerLoss, ReplayFails
<1> QED
  BY <1>1, <1>2, <1>3, <1>4 DEF Next, Start

\* A drain that takes an entry out of its line has rejected it, or committed it
\* with its record safe in the journal.
LEMMA DrainResolves ==
  ASSUME BusInv, TypeOK', SyncInv, [Next]_vars, NEW s \in Shard, Drain(s),
         NEW e \in Entry, e \in LineOf(s)
  PROVE  Outcome(s, e)'
<1>0. /\ TypeOK /\ DrainHoldsWork /\ LineInv /\ DomainOf(s) \in Domain
      /\ Fit(s) /\ WorkSynced(s) /\ LineSafe(s) /\ Present
  BY RoutingType DEF BusInv, EngineInv, SyncInv
<1>1. CASE e \in LineOf(s)'
  BY <1>1 DEF Outcome
<1>2. CASE Reject(s) /\ e = Head(work[s])
  <2>1. failures'[s] = failures[s] \cup {Head(work[s]).seq}
    BY <1>0, <1>2 DEF Reject, TypeOK
  <2> QED
    BY <1>2, <2>1 DEF Outcome
<1>3. CASE e \notin LineOf(s)' /\ AppliedAt(s, e.req)' > 0
  <2>1. dpc[s] \in {"batch", "retry", "mark"} /\ e \in Entries(work[s])
    BY <1>0, <1>3, DrainFinishes DEF LineOf
  <2>2. e \in Synced(s) /\ ~ JournalErased(s)
    BY <1>0, <2>1 DEF WorkSynced, JournalErased, Entries
  <2>3. e \in Synced(s)'
    BY <1>0, <2>2, SyncedStays
  <2>4. ASSUME NEW x \in survivors'[DomainOf(s)] PROVE Backed(s, e.req, x)'
    <3>1. CASE x = db'[DomainOf(s)]
      BY <1>3, <3>1 DEF Backed, AppliedAt
    <3>2. CASE x \in survivors[DomainOf(s)]
      <4>1. x.applied[e.req] > 0 \/ x.ckpt[s] < e.seq
        BY <1>0, <3>2 DEF LineSafe
      <4>2. x.ckpt[s] \in Nat /\ e.seq \in Nat
        BY <1>0, <3>2, StateType DEF Entry
      <4>3. x.applied[e.req] > 0 \/ e.seq > x.ckpt[s]
        BY <4>1, <4>2
      <4> QED
        BY <2>3, <4>3 DEF Backed
    <3> QED
      BY <1>0, <3>1, <3>2, StoreStep DEF OnlyCommitted
  <2> QED
    BY <1>3, <2>4 DEF Outcome, Secure
<1> QED
  BY <1>0, <1>1, <1>2, <1>3, DrainTakes

\* While the process lives, an outcome is not taken back.
LEMMA OutcomeStays ==
  ASSUME BusInv, TypeOK', SyncInv, [Next]_vars, ~ LoseMemory, NEW s \in Shard,
         NEW e \in Entry, Outcome(s, e)
  PROVE  Outcome(s, e)'
<1>0. TypeOK /\ Present /\ Fit(s) /\ e.req \in Request
  BY DEF BusInv, EngineInv, SyncInv, Entry
<1>1. CASE e.seq \in failures[s]
  BY <1>0, <1>1, FailuresStay DEF Outcome
<1>2. CASE Secure(s, e.req)
  <2>1. PICK r \in Request : r = e.req
    BY <1>0
  <2>2. Secure(s, r)'
    BY <1>0, <1>2, <2>1, SecureStays
  <2> QED
    BY <2>1, <2>2 DEF Outcome
<1>3. CASE e \in LineOf(s) /\ ~ Drain(s)
  <2>1. CASE work'[s] = work[s] /\ buf'[s] = buf[s]
    BY <1>3, <2>1 DEF Outcome, LineOf
  <2>2. CASE \E f \in Entry : Submitted(s, f)
    BY <1>3, <2>2 DEF Outcome, Submitted
  <2> QED
    BY <1>0, <1>3, <2>1, <2>2, LineStep
<1>4. CASE e \in LineOf(s) /\ Drain(s)
  BY <1>4, DrainResolves
<1> QED
  BY <1>1, <1>2, <1>3, <1>4 DEF Outcome

\* The entry of a submission.
LEMMA SubmitOne ==
  ASSUME TypeOK, NEW c \in Client, NEW r \in Request, NEW waits \in BOOLEAN,
         Submit(c, r, waits)
  PROVE  \E s \in Shard, e \in Entry : s = ShardOf(r) /\ e.req = r /\ Submitted(s, e)
BY SubmitJournal

\* A caller that waits after a step waited before it, for the same ticket, or
\* has just submitted.
LEMMA TicketStep ==
  ASSUME TypeOK, [Next]_vars, NEW c \in Client, cpc'[c] # "idle"
  PROVE  /\ ~ LoseMemory
         /\ \/ cpc[c] # "idle" /\ ticket'[c] = ticket[c]
            \/ \E s \in Shard, e \in Entry :
                 ticket'[c] = e /\ s = ShardOf(e.req) /\ Submitted(s, e)
<1>0. ~ LoseMemory
  BY DEF LoseMemory
<1>1. ASSUME NEW b \in Client, NEW r \in Request, NEW waits \in BOOLEAN, Submit(b, r, waits)
      PROVE  \/ cpc[c] # "idle" /\ ticket'[c] = ticket[c]
             \/ \E s \in Shard, e \in Entry :
                  ticket'[c] = e /\ s = ShardOf(e.req) /\ Submitted(s, e)
  <2>1. CASE waits /\ b = c
    <3>1. PICK s \in Shard, e \in Entry :
            /\ s = ShardOf(r) /\ e.req = r /\ Submitted(s, e)
      BY <1>1, SubmitOne
    <3>2. ticket'[c] = [seq |-> nextSeq[ShardOf(r)] + 1, req |-> r]
      BY <1>1, <2>1 DEF Submit, TypeOK
    <3>3. e = [seq |-> e.seq, req |-> e.req] /\ e.seq = nextSeq[s] + 1
      BY <3>1 DEF Entry, Submitted
    <3>4. ticket'[c] = e
      BY <3>1, <3>2, <3>3
    <3> QED
      BY <3>1, <3>4
  <2>2. CASE ~ (waits /\ b = c)
    <3>1. cpc'[c] = cpc[c] /\ ticket'[c] = ticket[c]
      BY <1>1, <2>2 DEF Submit, TypeOK
    <3> QED
      BY <3>1
  <2> QED
    BY <2>1, <2>2
<1>2. ASSUME NEW b \in Client, Wait(b)
      PROVE  cpc[c] # "idle" /\ ticket'[c] = ticket[c]
  BY <1>2 DEF Wait, WaitReturn, WaitCheck, WaitPark, TypeOK
<1>3. ASSUME NEW k \in Shard, Drain(k)
      PROVE  cpc[c] # "idle" /\ ticket'[c] = ticket[c]
  <2>1. CASE DrainNotify(k)
    BY <2>1 DEF DrainNotify, TypeOK
  <2>2. CASE ~ DrainNotify(k)
    BY <1>3, <2>2 DEF Drain, DrainSwap, DrainSync, DrainBatch, DrainBatchFails, Retry,
         RetryFails, Reject, Requeue, DrainPublish, agentVars
  <2> QED
    BY <2>1, <2>2
<1>4. CASE \/ \E p \in Snapshotter :
                PauseAdmissions(p) \/ SnapshotReady(p) \/ ResumeAdmissions(p)
           \/ Maintenance
           \/ StartEngine \/ StartFinish \/ SpawnFlushers
           \/ Shutdown \/ RequestShutdown \/ JoinFlushers
           \/ \E k \in Shard : ReplayShard(k)
           \/ UNCHANGED vars
  <2>1. cpc' = cpc /\ ticket' = ticket
    BY <1>4 DEF PauseAdmissions, SnapshotReady, ResumeAdmissions, Maintenance, MaintBegin,
         MaintAbort, MaintCheckpoint, MaintTruncate, StartEngine, StartFinish,
         SpawnFlushers, Shutdown, RequestShutdown, JoinFlushers, ReplayShard,
         agentVars, vars
  <2> QED
    BY <1>0, <2>1
<1>5. ~ \/ ShutdownDone \/ DropEngine \/ ProcessCrash \/ PowerLoss
        \/ \E k \in Shard : ReplayFails(k)
  BY <1>0 DEF ShutdownDone, DropEngine, ProcessCrash, PowerLoss, ReplayFails
<1> QED
  BY <1>0, <1>1, <1>2, <1>3, <1>4, <1>5 DEF Next, Start

\* A step tells a caller nothing new, or tells one that waits for its ticket.
LEMMA ToldStep ==
  ASSUME TypeOK, [Next]_vars, NEW r \in Request, told'[r] # told[r]
  PROVE  \E c \in Client : /\ WaitReturn(c) /\ ticket[c].req = r
                           /\ told'[r] = IF ticket[c].seq \in failures[ShardOf(r)]
                                         THEN "failed" ELSE "durable"
<1>1. ASSUME NEW c \in Client, WaitReturn(c)
      PROVE  /\ ticket[c].req = r
             /\ told'[r] = IF ticket[c].seq \in failures[ShardOf(r)]
                           THEN "failed" ELSE "durable"
  BY <1>1 DEF WaitReturn, TypeOK
<1>2. ~ \/ \E c \in Client, q \in Request, waits \in BOOLEAN : Submit(c, q, waits)
        \/ \E c \in Client : WaitCheck(c) \/ WaitPark(c)
        \/ \E p \in Snapshotter :
             PauseAdmissions(p) \/ SnapshotReady(p) \/ ResumeAdmissions(p)
        \/ Maintenance \/ UNCHANGED vars
  BY DEF Submit, WaitCheck, WaitPark, PauseAdmissions, SnapshotReady, ResumeAdmissions,
       Maintenance, MaintBegin, MaintAbort, MaintCheckpoint, MaintTruncate, pastVars, vars
<1>3. ~ \E k \in Shard : Drain(k)
  BY DEF Drain, DrainSwap, DrainSync, DrainBatch, DrainBatchFails, Retry, RetryFails,
       Reject, Requeue, DrainPublish, DrainNotify, pastVars
<1>4. ~ \/ StartEngine \/ StartFinish \/ SpawnFlushers
        \/ Shutdown \/ RequestShutdown \/ JoinFlushers \/ ShutdownDone \/ DropEngine
        \/ ProcessCrash \/ PowerLoss
        \/ \E k \in Shard : ReplayShard(k) \/ ReplayFails(k)
  BY DEF StartEngine, StartFinish, SpawnFlushers, Shutdown, RequestShutdown, JoinFlushers,
       ShutdownDone, DropEngine, ProcessCrash, PowerLoss, ReplayShard, ReplayFails, pastVars
<1> QED
  BY <1>1, <1>2, <1>3, <1>4 DEF Next, Start, Wait

\* Every step keeps what callers are owed and what they were told.
LEMMA NextTold ==
  ASSUME BusInv, TypeOK', SyncInv, Owing, ToldSafe, [Next]_vars
  PROVE  Owing' /\ ToldSafe'
<1>0. TypeOK /\ LineInv /\ Present /\ \A s \in Shard : Fit(s)
  BY DEF BusInv, EngineInv, SyncInv
<1>1. ASSUME NEW c \in Client, cpc'[c] # "idle"
      PROVE  ticket'[c] \in Entry /\ Outcome(ShardOf(ticket[c].req), ticket[c])'
  <2>1. CASE cpc[c] # "idle" /\ ticket'[c] = ticket[c]
    <3>1. PICK e \in Entry : e = ticket[c]
      BY <2>1 DEF Owing
    <3>2. PICK s \in Shard : s = ShardOf(e.req)
      BY RoutingType DEF Entry
    <3>3. Outcome(s, e)
      BY <2>1, <3>1, <3>2 DEF Owing
    <3>4. Outcome(s, e)'
      BY <1>0, <1>1, <3>3, TicketStep, OutcomeStays
    <3> QED
      BY <2>1, <3>1, <3>2, <3>4 DEF ShardOf
  <2>2. CASE \E s \in Shard, e \in Entry :
               ticket'[c] = e /\ s = ShardOf(e.req) /\ Submitted(s, e)
    <3>1. PICK s \in Shard, e \in Entry :
            ticket'[c] = e /\ s = ShardOf(e.req) /\ Submitted(s, e)
      BY <2>2
    <3>2. Outcome(s, e)'
      BY <3>1 DEF Submitted, Outcome
    <3> QED
      BY <3>1, <3>2 DEF ShardOf
  <2> QED
    BY <1>0, <1>1, <2>1, <2>2, TicketStep
<1>2. ASSUME NEW r \in Request, told'[r] = "durable"
      PROVE  Secure(ShardOf(r), r)'
  <2>1. PICK s \in Shard : s = ShardOf(r)
    BY RoutingType
  <2>2. CASE told[r] = "durable"
    <3>1. Secure(s, r)
      BY <2>1, <2>2 DEF ToldSafe
    <3>2. Secure(s, r)'
      BY <1>0, <3>1, SecureStays
    <3> QED
      BY <2>1, <3>2 DEF ShardOf
  <2>3. CASE told[r] # "durable"
    <3>1. PICK c \in Client : /\ WaitReturn(c) /\ ticket[c].req = r
                              /\ ticket[c].seq \notin failures[ShardOf(r)]
      BY <1>0, <1>2, <2>3, ToldStep
    <3>2. PICK e \in Entry : e = ticket[c] /\ Outcome(s, e)
      BY <2>1, <3>1 DEF WaitReturn, Owing
    <3>3. durable[s] >= e.seq /\ e.seq \in Nat /\ durable[s] \in Nat
      BY <1>0, <2>1, <3>1, <3>2 DEF WaitReturn, Entry, TypeOK
    <3>4. e \notin LineOf(s)
      <4>1. Above(work[s], durable[s]) /\ Above(buf[s], durable[s])
        BY <1>0 DEF LineInv, Line, Unpublished
      <4>2. \A f \in LineOf(s) : f.seq > durable[s]
        BY <1>0, <4>1, LineType, EntriesType DEF LineOf
      <4> QED
        BY <3>3, <4>2
    <3>5. Secure(s, r)
      BY <2>1, <3>1, <3>2, <3>4 DEF Outcome
    <3>6. Secure(s, r)'
      BY <1>0, <3>5, SecureStays
    <3> QED
      BY <2>1, <3>6 DEF ShardOf
  <2> QED
    BY <2>2, <2>3
<1> QED
  BY <1>1, <1>2 DEF Owing, ToldSafe

\* In either environment callers are owed what is in line, rejected or safe.
LEMMA ToldCorrect ==
  ASSUME WholeWrites \/ FullPasses
  PROVE  Spec => [](Owing /\ ToldSafe)
<1>1. Init => Owing /\ ToldSafe
  BY DEF Init, Owing, ToldSafe
<1>2. BusInv /\ SyncInv /\ TypeOK' /\ Owing /\ ToldSafe /\ [Next]_vars => Owing' /\ ToldSafe'
  BY NextTold
<1>3. BusInv => TypeOK
  BY DEF BusInv, EngineInv
<1> QED
  BY <1>1, <1>2, <1>3, SyncCorrect, PTL DEF Spec

\* A write whose caller was told it is durable survives everything: crashes,
\* power losses that tear the journal and take back commits, failed and
\* rejected batches, requeues, truncations and checkpoints kept short, in an
\* environment where lines are written whole or where the pass of a start
\* reclaims every journal.
THEOREM DurableIsForGood ==
  ASSUME WholeWrites \/ FullPasses
  PROVE  Spec => []DurableSurvives
<1>1. BusInv /\ SyncInv /\ ToldSafe => DurableSurvives
  <2> SUFFICES ASSUME BusInv, SyncInv, ToldSafe, NEW r \in Request, told[r] = "durable",
                      NEW x \in survivors[DomainOf(ShardOf(r))], ~ (x.applied[r] > 0)
               PROVE  \E i \in Parsed(jfile[ShardOf(r)]) :
                        /\ i <= jsync[ShardOf(r)]
                        /\ jfile[ShardOf(r)][i].req = r
                        /\ jfile[ShardOf(r)][i].seq > x.ckpt[ShardOf(r)]
    BY DEF DurableSurvives
  <2>1. PICK s \in Shard : s = ShardOf(r)
    BY RoutingType
  <2>2. PICK e \in Synced(s) : e.req = r /\ e.seq > x.ckpt[s]
    BY <2>1 DEF ToldSafe, Secure, Backed
  <2>3. e \in RecordsTo(jfile[s], jsync[s])
    BY <2>2, SyncedParsed DEF BusInv, EngineInv, SyncInv
  <2>4. PICK i \in Parsed(jfile[s]) : i <= jsync[s] /\ e = EntryOf(jfile[s][i])
    BY <2>3 DEF RecordsTo
  <2>5. jfile[s][i].req = r /\ jfile[s][i].seq > x.ckpt[s]
    BY <2>2, <2>4 DEF EntryOf
  <2> QED
    BY <2>1, <2>4, <2>5
<1> QED
  BY <1>1, ToldCorrect, SyncCorrect, PTL

-----------------------------------------------------------------------------
(* A request has one place: one position of the line, one of the journal,  *)
(* or one count in the stores that were reached without it.                *)

\* No request is recorded twice in a journal.
Single(f) ==
  \A i, j \in DOMAIN f :
    f[i].kind = "rec" /\ f[j].kind = "rec" /\ f[i].req = f[j].req => i = j

\* What is left of a journal whose end is cut off.
LEMMA CutSingle ==
  ASSUME NEW f \in Seq(Unit), NEW g \in Seq(Unit),
         \A i \in DOMAIN g : g[i].kind = "rec" => i \in DOMAIN f /\ g[i] = f[i]
  PROVE  /\ Loose(g) \subseteq Loose(f)
         /\ Single(f) => Single(g)
<1>1. Loose(g) \subseteq Loose(f)
  <2> SUFFICES ASSUME NEW i \in DOMAIN g, g[i].kind = "rec" PROVE EntryOf(g[i]) \in Loose(f)
    BY DEF Loose
  <2> QED
    BY DEF Loose
<1>2. Single(f) => Single(g)
  BY DEF Single
<1> QED
  BY <1>1, <1>2

\* A power loss adds no record.
LEMMA LeftoverSingle ==
  ASSUME NEW f \in Seq(Unit), NEW n \in 0 .. Len(f), NEW left \in Leftover(f, n)
  PROVE  /\ Loose(left) \subseteq Loose(f)
         /\ Single(f) => Single(left)
<1>0. Len(f) \in Nat /\ DOMAIN f = 1 .. Len(f) /\ n \in Nat
  BY LenProperties
<1>1. \/ \E m \in n .. Len(f) : left = SubSeq(f, 1, m)
      \/ \E m \in n .. Len(f) - 1, k \in {"torn", "mangled"} :
           left = Append(SubSeq(f, 1, m), Mark(k))
  BY <1>0 DEF Leftover
<1>2. left \in Seq(Unit)
  BY <1>0, LeftoverType
<1>3. ASSUME NEW m \in n .. Len(f), m \in Nat
      PROVE  /\ SubSeq(f, 1, m) \in Seq(Unit) /\ Len(SubSeq(f, 1, m)) = m
             /\ DOMAIN SubSeq(f, 1, m) = 1 .. m
             /\ \A i \in 1 .. m : SubSeq(f, 1, m)[i] = f[i] /\ i \in DOMAIN f
  <2>1. m <= Len(f) /\ 1 \in 1 .. m + 1 /\ \A i \in 1 .. m : i \in 1 .. Len(f)
    BY <1>0
  <2>2. /\ SubSeq(f, 1, m) \in Seq(Unit) /\ Len(SubSeq(f, 1, m)) = m
        /\ \A i \in 1 .. m : SubSeq(f, 1, m)[i] = f[i]
    BY <1>0, <2>1, SubSeqProperties
  <2> QED
    BY <1>0, <2>1, <2>2, LenProperties
<1>4. \A i \in DOMAIN left : left[i].kind = "rec" => i \in DOMAIN f /\ left[i] = f[i]
  <2>1. CASE \E m \in n .. Len(f) : left = SubSeq(f, 1, m)
    <3>1. PICK m \in n .. Len(f) : left = SubSeq(f, 1, m)
      BY <2>1
    <3>2. m \in Nat
      BY <1>0
    <3> QED
      BY <1>3, <3>1, <3>2
  <2>2. CASE \E m \in n .. Len(f) - 1, k \in {"torn", "mangled"} :
               left = Append(SubSeq(f, 1, m), Mark(k))
    <3>1. PICK m \in n .. Len(f) - 1, k \in {"torn", "mangled"} :
            left = Append(SubSeq(f, 1, m), Mark(k))
      BY <2>2
    <3>2. m \in Nat /\ m \in n .. Len(f)
      BY <1>0
    <3>3. PICK p \in Seq(Unit) : p = SubSeq(f, 1, m)
      BY <1>3, <3>2
    <3>4. Len(p) = m /\ DOMAIN p = 1 .. m /\ \A i \in 1 .. m : p[i] = f[i] /\ i \in DOMAIN f
      BY <1>3, <3>2, <3>3
    <3>5. Mark(k) \in Unit /\ Mark(k).kind # "rec" /\ left = Append(p, Mark(k))
      BY <3>1, <3>3 DEF Mark, Unit
    <3>6. /\ Len(left) = m + 1 /\ \A i \in 1 .. m : left[i] = p[i]
          /\ left[m + 1] = Mark(k)
      BY <3>2, <3>4, <3>5, AppendProperties
    <3>7. DOMAIN left = 1 .. m + 1
      BY <1>2, <3>6, LenProperties
    <3>8. \A i \in 1 .. m + 1 : i \in 1 .. m \/ i = m + 1
      BY <3>2
    <3> QED
      BY <3>4, <3>5, <3>6, <3>7, <3>8
  <2> QED
    BY <1>1, <2>1, <2>2
<1> QED
  BY <1>2, <1>4, CutSingle

\* The file of a journal is its beginning.
LEMMA PrefixSingle ==
  ASSUME NEW f \in Seq(Unit), NEW g \in Seq(Unit)
  PROVE  /\ Loose(f) \subseteq Loose(f \o g)
         /\ Single(f \o g) => Single(f)
<1> DEFINE c == f \o g
<1>1. /\ c \in Seq(Unit) /\ Len(f) \in Nat /\ Len(g) \in Nat
      /\ DOMAIN f = 1 .. Len(f) /\ DOMAIN c = 1 .. Len(f) + Len(g)
      /\ \A i \in 1 .. Len(f) : c[i] = f[i]
  BY ConcatUnits
<1> HIDE DEF c
<1>2. \A i \in DOMAIN f : i \in DOMAIN c /\ f[i] = c[i]
  BY <1>1
<1>3. Loose(f) \subseteq Loose(c) /\ (Single(c) => Single(f))
  BY <1>1, <1>2, CutSingle
<1> QED
  BY <1>3 DEF c

\* The line of a request that has none.
LEMMA AppendSingle ==
  ASSUME NEW f \in Seq(Unit), NEW e \in Entry, Single(f), \A u \in Loose(f) : u.req # e.req
  PROVE  /\ Single(f \o <<Record(e.seq, e.req), Mark("nl")>>)
         /\ Loose(f \o <<Record(e.seq, e.req), Mark("nl")>>) \subseteq Loose(f) \cup {e}
<1> DEFINE g == <<Record(e.seq, e.req), Mark("nl")>>
           c == f \o g
<1>1. Record(e.seq, e.req) \in Unit /\ Mark("nl") \in Unit
  BY DEF Record, Mark, Unit, Entry
<1>2. /\ g \in Seq(Unit) /\ Len(g) = 2 /\ DOMAIN g = {1, 2}
      /\ g[1] = Record(e.seq, e.req) /\ g[2] = Mark("nl")
  BY <1>1
<1>3. g[1].req = e.req /\ g[2].kind # "rec" /\ EntryOf(g[1]) = e
  BY <1>2 DEF Record, Mark, EntryOf, Entry
<1> HIDE DEF g
<1>4. /\ c \in Seq(Unit) /\ Len(f) \in Nat /\ DOMAIN f = 1 .. Len(f)
      /\ DOMAIN c = 1 .. Len(f) + 2
      /\ \A i \in 1 .. Len(f) : c[i] = f[i]
      /\ \A j \in 1 .. 2 : c[Len(f) + j] = g[j]
  <2>1. /\ c \in Seq(Unit) /\ Len(f) \in Nat /\ DOMAIN f = 1 .. Len(f)
        /\ DOMAIN c = 1 .. Len(f) + Len(g)
        /\ \A i \in 1 .. Len(f) : c[i] = f[i]
        /\ \A j \in 1 .. Len(g) : c[Len(f) + j] = g[j]
    BY <1>2, ConcatUnits
  <2> HIDE DEF c
  <2> QED
    BY <1>2, <2>1
<1> HIDE DEF c
<1>5. c[Len(f) + 1] = g[1] /\ c[Len(f) + 2] = g[2]
  BY <1>4
<1>6. \A i \in DOMAIN c : c[i].kind = "rec" => i \in DOMAIN f \/ i = Len(f) + 1
  BY <1>3, <1>4, <1>5
<1>7. \A i \in DOMAIN f : f[i].kind = "rec" => f[i].req # e.req
  <2> SUFFICES ASSUME NEW i \in DOMAIN f, f[i].kind = "rec" PROVE f[i].req # e.req
    OBVIOUS
  <2>1. EntryOf(f[i]) \in Loose(f) /\ EntryOf(f[i]).req = f[i].req
    BY DEF Loose, EntryOf
  <2> QED
    BY <2>1
<1>8. Single(c)
  <2> SUFFICES ASSUME NEW i \in DOMAIN c, NEW j \in DOMAIN c, c[i].kind = "rec",
                      c[j].kind = "rec", c[i].req = c[j].req
               PROVE  i = j
    BY DEF Single
  <2>1. CASE i \in DOMAIN f /\ j \in DOMAIN f
    BY <1>4, <2>1 DEF Single
  <2>2. CASE i \in DOMAIN f /\ j = Len(f) + 1
    BY <1>3, <1>4, <1>5, <1>7, <2>2
  <2>3. CASE i = Len(f) + 1 /\ j \in DOMAIN f
    BY <1>3, <1>4, <1>5, <1>7, <2>3
  <2> QED
    BY <1>6, <2>1, <2>2, <2>3
<1>9. Loose(c) \subseteq Loose(f) \cup {e}
  <2> SUFFICES ASSUME NEW i \in DOMAIN c, c[i].kind = "rec"
               PROVE  EntryOf(c[i]) \in Loose(f) \cup {e}
    BY DEF Loose
  <2>1. CASE i \in DOMAIN f
    BY <1>4, <2>1 DEF Loose
  <2>2. CASE i = Len(f) + 1
    BY <1>3, <1>5, <2>2
  <2> QED
    BY <1>6, <2>1, <2>2
<1> QED
  BY <1>8, <1>9 DEF c, g

\* A request has one record in it.
LEMMA SingleEntry ==
  ASSUME NEW f, Single(f), NEW e \in Loose(f), NEW u \in Loose(f), e.req = u.req
  PROVE  e = u
<1>1. PICK i \in DOMAIN f : f[i].kind = "rec" /\ e = EntryOf(f[i])
  BY DEF Loose
<1>2. PICK j \in DOMAIN f : f[j].kind = "rec" /\ u = EntryOf(f[j])
  BY DEF Loose
<1>3. f[i].req = f[j].req
  BY <1>1, <1>2 DEF EntryOf
<1> QED
  BY <1>1, <1>2, <1>3 DEF Single

\* What shard s holds of its requests outside its store.
Held(s) == LineOf(s) \cup Loose(Whole(s))

\* Each request accepted has one entry in its shard.
Placed(s) ==
  /\ Single(Whole(s))
  /\ \A e \in Held(s) : ShardOf(e.req) = s /\ e.req \in accepted
  /\ \A e \in LineOf(s), u \in Held(s) : e.req = u.req => e = u

\* A step of shard s takes entries away, or adds one of a new request.
Shrinks(s) == LineOf(s)' \subseteq LineOf(s) /\ Loose(Whole(s)') \subseteq Loose(Whole(s))

Accepts(s, e) ==
  /\ e.req \notin accepted /\ e.req \in accepted' /\ ShardOf(e.req) = s
  /\ LineOf(s)' = LineOf(s) \cup {e}
  /\ Loose(Whole(s)') \subseteq Loose(Whole(s)) \cup {e}

\* Nothing is accepted but by a submission.
LEMMA OnlySubmits ==
  ASSUME [Next]_vars
  PROVE  \/ accepted' = accepted
         \/ \E c \in Client, r \in Request, waits \in BOOLEAN : Submit(c, r, waits)
<1>1. CASE \/ \E c \in Client : Wait(c)
           \/ \E p \in Snapshotter :
                PauseAdmissions(p) \/ SnapshotReady(p) \/ ResumeAdmissions(p)
           \/ Maintenance \/ UNCHANGED vars
  BY <1>1 DEF Wait, WaitReturn, WaitCheck, WaitPark, PauseAdmissions, SnapshotReady,
       ResumeAdmissions, Maintenance, MaintBegin, MaintAbort, MaintCheckpoint,
       MaintTruncate, pastVars, vars
<1>2. CASE \E k \in Shard : Drain(k)
  BY <1>2, DrainFrame DEF pastVars
<1>3. CASE \/ StartEngine \/ StartFinish \/ SpawnFlushers
           \/ Shutdown \/ RequestShutdown \/ JoinFlushers \/ ShutdownDone \/ DropEngine
           \/ ProcessCrash \/ PowerLoss
           \/ \E k \in Shard : ReplayShard(k) \/ ReplayFails(k)
  BY <1>3 DEF StartEngine, StartFinish, SpawnFlushers, Shutdown, RequestShutdown,
       JoinFlushers, ShutdownDone, DropEngine, ProcessCrash, PowerLoss, ReplayShard,
       ReplayFails, pastVars
<1> QED
  BY <1>1, <1>2, <1>3 DEF Next, Start

\* Accepted requests are history.
LEMMA AcceptedStays ==
  ASSUME [Next]_vars
  PROVE  accepted \subseteq accepted'
<1>1. ASSUME NEW c \in Client, NEW r \in Request, NEW waits \in BOOLEAN, Submit(c, r, waits)
      PROVE  accepted \subseteq accepted'
  BY <1>1 DEF Submit
<1> QED
  BY <1>1, OnlySubmits

\* What a step that submits nothing to shard s does to its journal.
LEMMA JournalShrinks ==
  ASSUME EngineInv, TypeOK', [Next]_vars, NEW s \in Shard, Fit(s), ~ JournalGrown(s)
  PROVE  /\ Loose(Whole(s)') \subseteq Loose(Whole(s))
         /\ Single(Whole(s)) => Single(Whole(s)')
<1>0. TypeOK /\ LineInv /\ CheckpointInv /\ OwedInv
  BY DEF EngineInv
<1>1. \/ JournalKept(s) \/ JournalCut(s) \/ JournalTorn(s) \/ JournalErased(s)
  BY <1>0, JournalStep
<1>2. /\ jfile[s] \in Seq(Unit) /\ jbuf[s] \in Seq(Unit) /\ jsync[s] \in 0 .. Len(jfile[s])
  BY <1>0, WholeType
<1>3. /\ Loose(jfile[s]) \subseteq Loose(Whole(s))
      /\ Single(Whole(s)) => Single(jfile[s])
  BY <1>2, PrefixSingle DEF Whole
<1>4. CASE JournalKept(s)
  BY <1>4 DEF JournalKept
<1>5. CASE JournalCut(s)
  BY <1>3, <1>5 DEF JournalCut
<1>6. CASE JournalTorn(s)
  <2>1. PICK left \in Leftover(jfile[s], jsync[s]) : Whole(s)' = left
    BY <1>6 DEF JournalTorn
  <2>2. /\ Loose(left) \subseteq Loose(jfile[s])
        /\ Single(jfile[s]) => Single(left)
    BY <1>2, LeftoverSingle
  <2> QED
    BY <1>3, <2>1, <2>2
<1>7. CASE JournalErased(s)
  <2>1. Loose(<<>>) = {} /\ Single(<<>>)
    BY DEF Loose, Single
  <2> QED
    BY <1>7, <2>1 DEF JournalErased
<1> QED
  BY <1>1, <1>4, <1>5, <1>6, <1>7

\* Each step keeps the places of the requests.
LEMMA PlacedStays ==
  ASSUME EngineInv, TypeOK', [Next]_vars, NEW s \in Shard, Fit(s), Placed(s)
  PROVE  Placed(s)' /\ (Shrinks(s) \/ \E e \in Entry : Accepts(s, e))
<1>0. TypeOK /\ DrainHoldsWork /\ LineInv /\ accepted \subseteq accepted'
  BY AcceptedStays DEF EngineInv
<1>1. ASSUME NEW c \in Client, NEW r \in Request, NEW waits \in BOOLEAN, NEW e \in Entry,
             Submit(c, r, waits), s = ShardOf(r), e.req = r, Submitted(s, e)
      PROVE  Placed(s)' /\ Accepts(s, e)
  <2>1. e.req \notin accepted /\ accepted' = accepted \cup {e.req}
    BY <1>1 DEF Submit
  <2>2. PICK f \in Seq(Unit) : f = Whole(s)
    BY <1>0, WholeType
  <2>3. \A u \in Loose(f) : u.req # e.req
    BY <2>1, <2>2 DEF Placed, Held
  <2>4. Single(f)
    BY <2>2 DEF Placed
  <2>5. /\ Single(f \o <<Record(e.seq, e.req), Mark("nl")>>)
        /\ Loose(f \o <<Record(e.seq, e.req), Mark("nl")>>) \subseteq Loose(f) \cup {e}
    BY <2>3, <2>4, AppendSingle
  <2>6. Whole(s)' = f \o <<Record(e.seq, e.req), Mark("nl")>> /\ LineOf(s)' = LineOf(s) \cup {e}
    BY <1>1, <2>2 DEF Submitted
  <2>7. Single(Whole(s)') /\ Loose(Whole(s)') \subseteq Loose(Whole(s)) \cup {e}
    BY <2>2, <2>5, <2>6
  <2>8. Accepts(s, e)
    BY <1>1, <2>1, <2>6, <2>7 DEF Accepts
  <2>9. \A u \in Held(s)' : u \in Held(s) \/ u = e
    BY <2>6, <2>7 DEF Held
  <2>10. \A u \in Held(s) : u.req # e.req /\ u.req \in accepted' /\ ShardOf(u.req) = s
    BY <2>1 DEF Placed
  <2>11. \A u \in LineOf(s)', v \in Held(s)' : u.req = v.req => u = v
    <3> SUFFICES ASSUME NEW u \in LineOf(s)', NEW v \in Held(s)', u.req = v.req PROVE u = v
      OBVIOUS
    <3>1. u \in LineOf(s) \/ u = e
      BY <2>6
    <3>2. u \in LineOf(s) => u \in Held(s)
      BY DEF Held
    <3> QED
      BY <2>9, <2>10, <3>1, <3>2 DEF Placed
  <2>12. \A u \in Held(s)' : ShardOf(u.req) = s /\ u.req \in accepted'
    BY <1>1, <2>1, <2>9, <2>10
  <2>13. \A q : ShardOf(q)' = ShardOf(q)
    BY DEF ShardOf
  <2> QED
    BY <2>7, <2>8, <2>11, <2>12, <2>13 DEF Placed
<1>2. CASE ~ JournalGrown(s)
  <2>1. /\ Loose(Whole(s)') \subseteq Loose(Whole(s))
        /\ Single(Whole(s)) => Single(Whole(s)')
    BY <1>2, JournalShrinks
  <2>2. LineOf(s)' \subseteq LineOf(s)
    <3>1. CASE LoseMemory
      <4>1. work'[s] = <<>> /\ buf'[s] = <<>> /\ Entries(<<>>) = {}
        BY <3>1 DEF LoseMemory, Entries
      <4> QED
        BY <4>1 DEF LineOf
    <3>2. CASE Drain(s)
      BY <1>0, <3>2, DrainTakes
    <3>3. ~ \E c \in Client, r \in Request, waits \in BOOLEAN, e \in Entry :
              Submit(c, r, waits) /\ s = ShardOf(r) /\ e.req = r /\ Submitted(s, e)
      <4> SUFFICES ASSUME NEW c \in Client, NEW r \in Request, NEW waits \in BOOLEAN,
                          NEW e \in Entry,
                          Submit(c, r, waits), s = ShardOf(r), e.req = r, Submitted(s, e)
                   PROVE  FALSE
        OBVIOUS
      <4>1. jsync' = jsync
        BY DEF Submit
      <4> QED
        BY <1>2, <4>1 DEF JournalGrown
    <3>4. CASE work'[s] = work[s] /\ buf'[s] = buf[s]
      BY <3>4 DEF LineOf
    <3> QED
      BY <1>0, <3>1, <3>2, <3>3, <3>4, LineStep
  <2>3. Held(s)' \subseteq Held(s)
    BY <2>1, <2>2 DEF Held
  <2>4. \A q : ShardOf(q)' = ShardOf(q)
    BY DEF ShardOf
  <2>5. Placed(s)'
    BY <1>0, <2>1, <2>2, <2>3, <2>4 DEF Placed
  <2> QED
    BY <2>1, <2>2, <2>5 DEF Shrinks
<1>3. CASE JournalGrown(s)
  BY <1>1, <1>3 DEF JournalGrown
<1> QED
  BY <1>2, <1>3

-----------------------------------------------------------------------------
(* What a transaction adds to its store, when none fails after its commit. *)

\* Positions of different requests count each request once.
LEMMA CopiesOnce ==
  ASSUME NEW q, NEW I, \A i, j \in I : q[i].req = q[j].req => i = j, NEW r \in Request
  PROVE  \/ Copies(q, I)[r] = 0
         \/ Copies(q, I)[r] = 1 /\ \E i \in I : q[i].req = r
<1> DEFINE at == {i \in I : q[i].req = r}
<1>1. Copies(q, I)[r] = Cardinality(at)
  BY DEF Copies
<1>2. CASE at = {}
  BY <1>1, <1>2, FS_EmptySet
<1>3. CASE at # {}
  <2>1. PICK i \in I : q[i].req = r
    BY <1>3
  <2>2. at = {i}
    BY <2>1
  <2> HIDE DEF at
  <2>3. Cardinality(at) = 1
    BY <2>2, FS_Singleton
  <2> QED
    BY <1>1, <2>1, <2>3
<1> QED
  BY <1>2, <1>3

\* Request r of shard k is added by a transaction that moves the checkpoint to
\* n: it was in line, or in the journal when nothing was in line yet.
Adds(k, r, n) ==
  \E e \in Held(k) :
    /\ e.req = r /\ e.seq \in Nat /\ e.seq <= n
    /\ e \in LineOf(k) \/ (LineOf(k) = {} /\ e.seq > Ckpt(k))

CommitsOnce(k) ==
  \E add \in [Request -> Nat], n \in Nat :
    /\ CommitTo(k, add, n)
    /\ \A r \in Request : add[r] = 0 \/ (add[r] = 1 /\ Adds(k, r, n))

\* The positions a drain commits.
LEMMA BatchOnce ==
  ASSUME TypeOK, LineInv, NEW k \in Shard, Placed(k), work[k] # <<>>,
         NEW I \in SUBSET DOMAIN work[k], NEW n \in Nat, \A i \in I : work[k][i].seq <= n
  PROVE  \A r \in Request :
           LET add == Copies(work[k], I)
           IN  add[r] = 0 \/ (add[r] = 1 /\ Adds(k, r, n))
<1> DEFINE q == work[k]
<1>1. q \in Seq(Entry) /\ Increasing(q)
  BY LineType DEF LineInv, Line, Ordered
<1>2. \A i \in DOMAIN q : i \in Nat /\ q[i].seq \in Nat /\ q[i] \in LineOf(k)
  BY <1>1, EntryType DEF LineOf, Entries
<1> HIDE DEF q
<1>3. ASSUME NEW i \in I, NEW j \in I, q[i].req = q[j].req PROVE i = j
  <2>1. q[i] \in LineOf(k) /\ q[j] \in Held(k) /\ i \in DOMAIN q /\ j \in DOMAIN q
    BY <1>2 DEF q, Held
  <2>2. q[i] = q[j]
    BY <1>3, <2>1 DEF Placed
  <2>3. ~ (i < j) /\ ~ (j < i)
    <3>1. ~ (q[i].seq < q[j].seq) /\ ~ (q[j].seq < q[i].seq)
      BY <1>2, <2>1, <2>2
    <3> QED
      BY <1>1, <2>1, <3>1 DEF Increasing
  <2> QED
    BY <1>2, <2>1, <2>3
<1>4. \A i \in I : /\ q[i] \in LineOf(k) /\ q[i] \in Held(k) /\ q[i].seq \in Nat
                   /\ q[i].seq <= n
  BY <1>2 DEF q, Held
<1> SUFFICES ASSUME NEW r \in Request
             PROVE  Copies(q, I)[r] = 0 \/ (Copies(q, I)[r] = 1 /\ Adds(k, r, n))
  BY DEF q
<1> QED
  BY <1>3, <1>4, CopiesOnce DEF Adds

\* A drain commits what is in its line.
LEMMA DrainOnce ==
  ASSUME "postcommit" \notin Faults, EngineInv, NEW k \in Shard, Placed(k), Drain(k)
  PROVE  db' = db \/ CommitsOnce(k)
<1>0. TypeOK /\ DrainHoldsWork /\ LineInv
  BY DEF EngineInv
<1>1. ASSUME NEW I \in SUBSET DOMAIN work[k], NEW n \in Nat,
             Copies(work[k], I) \in [Request -> Nat], work[k] # <<>>,
             CommitTo(k, Copies(work[k], I), n), \A i \in I : work[k][i].seq <= n
      PROVE  CommitsOnce(k)
  BY <1>0, <1>1, BatchOnce DEF CommitsOnce
<1>2. CASE DrainBatch(k)
  <2>1. /\ dpc[k] = "batch"
        /\ CommitTo(k, Copies(work[k], DOMAIN work[k]), work[k][Len(work[k])].seq)
    BY <1>2 DEF DrainBatch
  <2>2. /\ work[k] \in Seq(Entry) /\ work[k] # <<>> /\ Increasing(work[k])
        /\ work[k][Len(work[k])].seq \in Nat
    BY <1>0, <2>1, BatchType
  <2>3. \A i \in DOMAIN work[k] : work[k][i].seq <= work[k][Len(work[k])].seq
    BY <2>2, LastLine DEF UpTo
  <2>4. Copies(work[k], DOMAIN work[k]) \in [Request -> Nat]
    BY <1>0, <2>2, BatchCopies
  <2> QED
    BY <1>1, <2>1, <2>2, <2>3, <2>4
<1>3. CASE Retry(k) \/ Reject(k)
  <2>1. /\ dpc[k] \in {"retry", "mark"}
        /\ \E I \in {{1}, {}} : CommitTo(k, Copies(work[k], I), Head(work[k]).seq)
    BY <1>3 DEF Retry, Reject
  <2>2. /\ work[k] # <<>> /\ 1 \in DOMAIN work[k]
        /\ Head(work[k]) = work[k][1] /\ Head(work[k]).seq \in Nat
    BY <1>0, <2>1, BatchType
  <2>3. PICK I \in {{1}, {}} : CommitTo(k, Copies(work[k], I), Head(work[k]).seq)
    BY <2>1
  <2>4. Copies(work[k], I) \in [Request -> Nat]
    BY <1>0, <2>2, BatchCopies
  <2>5. \A i \in I : work[k][i].seq <= Head(work[k]).seq
    BY <2>2
  <2>6. I \in SUBSET DOMAIN work[k]
    BY <2>2
  <2> QED
    BY <1>1, <2>2, <2>3, <2>4, <2>5, <2>6
<1>4. CASE \/ DrainSwap(k) \/ DrainSync(k) \/ DrainBatchFails(k) \/ RetryFails(k)
           \/ Requeue(k) \/ DrainPublish(k) \/ DrainNotify(k)
  BY <1>4 DEF DrainSwap, DrainSync, DrainBatchFails, RetryFails, Requeue, DrainPublish,
       DrainNotify, Fault, storeVars
<1> QED
  BY <1>2, <1>3, <1>4 DEF Drain

\* A replay commits what is in its journal above the checkpoint.
LEMMA ReplayOnce ==
  ASSUME EngineInv, NEW k \in Shard, Placed(k), Replays(k)
  PROVE  db' = db \/ CommitsOnce(k)
<1>0. TypeOK /\ LineInv /\ CheckpointInv /\ CommitPending(k) /\ phase = "replay"
  BY DEF EngineInv, Replays
<1>1. CASE Pending(k) = {}
  BY <1>0, <1>1 DEF CommitPending, storeVars
<1>2. CASE Pending(k) # {}
  <2> DEFINE f == jfile[k]
             n == HighestSeq(f, Pending(k), 0)
  <2>1. f \in Seq(Unit) /\ Pending(k) \subseteq 1 .. Len(f) /\ DOMAIN f = 1 .. Len(f)
    BY <1>0, ReplayType, LenProperties DEF TypeOK
  <2>2. n \in Nat /\ Copies(f, Pending(k)) \in [Request -> Nat]
    BY <1>0, ReplayType
  <2>3. CommitTo(k, Copies(f, Pending(k)), n)
    BY <1>0, <1>2 DEF CommitPending
  <2>4. \A i \in Pending(k) : f[i].seq <= n
    BY <2>1, HighestSeqType
  <2>5. \A i \in Pending(k) : f[i].kind = "rec" /\ f[i].seq > Ckpt(k) /\ f[i].seq \in Nat
    <3>1. \A i \in Pending(k) : f[i] \in Unit
      BY <2>1
    <3> QED
      BY <3>1 DEF Pending, Parsed, Unit
  <2>6. Whole(k) = f
    <3>1. jbuf[k] = <<>>
      BY <1>0 DEF CheckpointInv, BufferedOnlyUp
    <3> QED
      BY <2>1, <3>1, ConcatEmptySeq DEF Whole
  <2>7. LineOf(k) = {}
    <3>1. buf[k] = <<>> /\ work[k] = <<>> /\ Entries(<<>>) = {}
      BY <1>0 DEF LineInv, Dormant, Line, Ended, Entries
    <3> QED
      BY <3>1 DEF LineOf
  <2> HIDE DEF n, f
  <2>8. \A i, j \in Pending(k) : f[i].req = f[j].req => i = j
    BY <2>1, <2>5, <2>6 DEF Placed, Single
  <2>9. \A i \in Pending(k) : EntryOf(f[i]) \in Held(k)
    BY <2>1, <2>5, <2>6 DEF Held, Loose
  <2>10. ASSUME NEW r \in Request
         PROVE  \/ Copies(f, Pending(k))[r] = 0
                \/ Copies(f, Pending(k))[r] = 1 /\ Adds(k, r, n)
    <3>1. ASSUME NEW i \in Pending(k), f[i].req = r PROVE Adds(k, r, n)
      <4>1. PICK e \in Held(k) : e = EntryOf(f[i])
        BY <2>9
      <4>2. e.req = r /\ e.seq = f[i].seq
        BY <3>1, <4>1 DEF EntryOf
      <4> QED
        BY <2>4, <2>5, <2>7, <4>2 DEF Adds
    <3> QED
      BY <2>8, <3>1, CopiesOnce
  <2> QED
    BY <2>2, <2>3, <2>10 DEF CommitsOnce
<1> QED
  BY <1>1, <1>2

\* Request r is in state x of its store: it is in no line, and replay passes
\* what the journal still has of it.
Settled(x, r) ==
  /\ r \in accepted
  /\ \A e \in LineOf(ShardOf(r)) : e.req # r
  /\ \A u \in Loose(Whole(ShardOf(r))) : u.req = r => u.seq <= x.ckpt[ShardOf(r)]

\* State x of the store of domain d holds a request once at most, and its own
\* requests only.
Counted(x, d) ==
  \A r \in Request :
    \/ x.applied[r] = 0
    \/ x.applied[r] = 1 /\ d = DomainOf(ShardOf(r)) /\ Settled(x, r)

OnceInv ==
  /\ Present
  /\ \A s \in Shard : Fit(s) /\ Placed(s)
  /\ \A d \in Domain : \A x \in survivors[d] : Counted(x, d)

\* What is settled in a state of a store stays so.
LEMMA SettledStays ==
  ASSUME EngineInv, TypeOK', [Next]_vars, \A s \in Shard : Fit(s) /\ Placed(s),
         NEW x, NEW r \in Request, Settled(x, r)
  PROVE  Settled(x, r)'
<1>1. PICK s \in Shard : s = ShardOf(r)
  BY RoutingType
<1>2. Shrinks(s) \/ \E e \in Entry : Accepts(s, e)
  BY PlacedStays
<1>3. /\ r \in accepted /\ accepted \subseteq accepted'
      /\ \A e \in LineOf(s) : e.req # r
      /\ \A u \in Loose(Whole(s)) : u.req = r => u.seq <= x.ckpt[s]
  BY <1>1, AcceptedStays DEF Settled
<1>4. /\ \A e \in LineOf(s)' : e.req # r
      /\ \A u \in Loose(Whole(s)') : u.req = r => u.seq <= x.ckpt[s]
  <2>1. CASE Shrinks(s)
    BY <1>3, <2>1 DEF Shrinks
  <2>2. ASSUME NEW e \in Entry, Accepts(s, e)
        PROVE  /\ \A f \in LineOf(s)' : f.req # r
               /\ \A u \in Loose(Whole(s)') : u.req = r => u.seq <= x.ckpt[s]
    <3>1. e.req # r
      BY <1>3, <2>2 DEF Accepts
    <3> QED
      BY <1>3, <2>2, <3>1 DEF Accepts
  <2> QED
    BY <1>2, <2>1, <2>2
<1>5. \A q : ShardOf(q)' = ShardOf(q)
  BY DEF ShardOf
<1>6. Loose(Whole(s))' = Loose(Whole(s)')
  BY DEF Loose, EntryOf
<1> QED
  BY <1>1, <1>3, <1>4, <1>5, <1>6 DEF Settled

\* What a transaction adds is settled by it.
LEMMA CommitSettles ==
  ASSUME "postcommit" \notin Faults, EngineInv, TypeOK', AheadInv', NEW k \in Shard,
         Placed(k), Shrinks(k), NEW n \in Nat, NEW r \in Request, Adds(k, r, n), Ckpt(k)' >= n,
         accepted \subseteq accepted', NEW x, x = db'[DomainOf(k)]
  PROVE  k = ShardOf(r) /\ Settled(x, r)'
<1>1. PICK e \in Held(k) : /\ e.req = r /\ e.seq \in Nat /\ e.seq <= n
                           /\ e \in LineOf(k) \/ (LineOf(k) = {} /\ e.seq > Ckpt(k))
  BY DEF Adds
<1>2. k = ShardOf(r) /\ r \in accepted
  BY <1>1 DEF Placed
<1>3. Ckpt(k)' \in Nat /\ e.seq <= Ckpt(k)'
  <2>1. Ckpt(k)' \in Nat
    BY CkptTypeNext
  <2> QED
    BY <1>1, <2>1
<1>4. ASSUME NEW f \in LineOf(k)', f.req = r PROVE FALSE
  <2>1. f \in LineOf(k)
    BY <1>4 DEF Shrinks
  <2>2. f = e
    BY <1>1, <1>4, <2>1 DEF Placed
  <2>3. f.seq > Ckpt(k)'
    BY <1>4 DEF AheadInv, AllAhead, AheadAt, LineOf
  <2> QED
    BY <1>1, <1>3, <2>2, <2>3
<1>5. ASSUME NEW u \in Loose(Whole(k)'), u.req = r PROVE u.seq <= Ckpt(k)'
  <2>1. u \in Loose(Whole(k)) /\ u \in Held(k)
    BY <1>5 DEF Shrinks, Held
  <2>2. u = e
    <3>1. CASE e \in LineOf(k)
      BY <1>1, <1>5, <2>1, <3>1 DEF Placed
    <3>2. CASE LineOf(k) = {}
      <4>1. e \in Loose(Whole(k)) /\ Single(Whole(k))
        BY <1>1, <3>2 DEF Held, Placed
      <4> QED
        BY <1>1, <1>5, <2>1, <4>1, SingleEntry
    <3> QED
      BY <1>1, <3>1, <3>2
  <2> QED
    BY <1>3, <2>2
<1>6. \A q : ShardOf(q)' = ShardOf(q)
  BY DEF ShardOf
<1>7. Loose(Whole(k))' = Loose(Whole(k)') /\ Ckpt(k)' = x.ckpt[k]
  BY DEF Loose, EntryOf, Ckpt
<1> QED
  BY <1>2, <1>4, <1>5, <1>6, <1>7 DEF Settled

\* A later checkpoint settles it too.
LEMMA SettledLater ==
  ASSUME EngineInv, TypeOK', [Next]_vars, \A s \in Shard : Fit(s) /\ Placed(s),
         NEW x, NEW y, NEW r \in Request, Settled(x, r),
         x.ckpt[ShardOf(r)] \in Nat, y.ckpt[ShardOf(r)] \in Nat,
         x.ckpt[ShardOf(r)] <= y.ckpt[ShardOf(r)]
  PROVE  Settled(y, r)'
<1>1. Settled(x, r)'
  BY SettledStays
<1>2. \A q : ShardOf(q)' = ShardOf(q)
  BY DEF ShardOf
<1>3. \A u \in Loose(Whole(ShardOf(r)))' : u.seq \in Nat
  <2>1. PICK s \in Shard : s = ShardOf(r)
    BY RoutingType
  <2>2. Whole(s)' \in Seq(Unit)
    <3>1. jfile'[s] \in Seq(Unit) /\ jbuf'[s] \in Seq(Unit)
      BY DEF TypeOK
    <3> QED
      BY <3>1, ConcatUnits DEF Whole
  <2>3. \A u \in Loose(Whole(s)') : u.seq \in Nat
    BY <2>2, LooseType
  <2>4. Loose(Whole(s))' = Loose(Whole(s)')
    BY DEF Loose, EntryOf
  <2> QED
    BY <1>2, <2>1, <2>3, <2>4
<1>4. \A a, b, c \in Nat : a <= b /\ b <= c => a <= c
  OBVIOUS
<1> QED
  BY <1>1, <1>2, <1>3, <1>4 DEF Settled

\* No transaction adds what is settled in its store.
LEMMA SettledNotAdded ==
  ASSUME TypeOK, NEW k \in Shard, Placed(k), NEW n, NEW r \in Request, Adds(k, r, n),
         NEW x, x.ckpt[k] = Ckpt(k)
  PROVE  k = ShardOf(r) /\ ~ Settled(x, r)
<1>1. PICK e \in Held(k) : /\ e.req = r /\ e.seq \in Nat
                           /\ e \in LineOf(k) \/ (LineOf(k) = {} /\ e.seq > Ckpt(k))
  BY DEF Adds
<1>2. k = ShardOf(r)
  BY <1>1 DEF Placed
<1>3. Ckpt(k) \in Nat
  BY CkptType
<1>4. ASSUME Settled(x, r) PROVE FALSE
  <2>1. e \notin LineOf(k)
    BY <1>1, <1>2, <1>4 DEF Settled
  <2>2. e \in Loose(Whole(k)) /\ e.seq > Ckpt(k)
    BY <1>1, <2>1 DEF Held
  <2>3. e.seq <= Ckpt(k)
    BY <1>1, <1>2, <1>4, <2>2 DEF Settled
  <2> QED
    BY <1>1, <1>3, <2>2, <2>3
<1> QED
  BY <1>2, <1>4

\* A transaction leaves a store that holds each request once.
LEMMA CommitCounted ==
  ASSUME "postcommit" \notin Faults, EngineInv, TypeOK', AheadInv', [Next]_vars, OnceInv,
         NEW k \in Shard, Shrinks(k), CommitsOnce(k), NEW d \in Domain, NEW y, y = db'[d]
  PROVE  Counted(y, d)'
<1>0. TypeOK /\ accepted \subseteq accepted' /\ DomainOf(k) \in Domain
  BY AcceptedStays, RoutingType DEF EngineInv
<1>1. PICK add \in [Request -> Nat], n \in Nat :
        /\ CommitTo(k, add, n)
        /\ \A r \in Request : add[r] = 0 \/ (add[r] = 1 /\ Adds(k, r, n))
  BY DEF CommitsOnce
<1>2. /\ Ckpt(k)' = Larger(Ckpt(k), n)
      /\ \A r \in Request : AppliedAt(k, r)' = AppliedAt(k, r) + add[r]
      /\ \A j \in Shard \ {k} : Ckpt(j)' = Ckpt(j)
  BY <1>0, <1>1, CommitExact
<1>3. Ckpt(k) \in Nat /\ Ckpt(k)' >= n /\ Ckpt(k)' >= Ckpt(k)
  <2>1. Ckpt(k) \in Nat
    BY <1>0, CkptType
  <2> QED
    BY <1>2, <2>1 DEF Larger
<1>4. \A q : ShardOf(q)' = ShardOf(q) /\ DomainOf(ShardOf(q))' = DomainOf(ShardOf(q))
  BY DEF ShardOf, DomainOf
<1> SUFFICES ASSUME NEW r \in Request
             PROVE  \/ y.applied[r] = 0
                    \/ /\ y.applied[r] = 1 /\ d = DomainOf(ShardOf(r))
                       /\ Settled(y, r)'
  BY <1>4 DEF Counted
<1>5. Counted(db[d], d) /\ \A s \in Shard : Fit(s) /\ Placed(s)
  BY DEF OnceInv, Present
<1>6. CASE d # DomainOf(k)
  <2>1. y = db[d]
    BY <1>0, <1>1, <1>6 DEF CommitTo, TypeOK
  <2>2. CASE db[d].applied[r] = 0
    BY <2>1, <2>2
  <2>3. CASE db[d].applied[r] = 1 /\ d = DomainOf(ShardOf(r)) /\ Settled(db[d], r)
    BY <1>5, <2>1, <2>3, SettledStays
  <2> QED
    BY <1>5, <2>2, <2>3 DEF Counted
<1>7. CASE d = DomainOf(k)
  <2>1. y.applied[r] = db[d].applied[r] + add[r]
    BY <1>2, <1>7 DEF AppliedAt
  <2>2. CASE add[r] = 1 /\ Adds(k, r, n)
    <3>1. k = ShardOf(r) /\ Settled(y, r)'
      BY <1>0, <1>3, <1>5, <1>7, <2>2, CommitSettles
    <3>2. ~ Settled(db[d], r)
      BY <1>0, <1>5, <1>7, <2>2, SettledNotAdded DEF Ckpt
    <3>3. db[d].applied[r] = 0
      BY <1>5, <3>2 DEF Counted
    <3> QED
      BY <1>7, <2>1, <2>2, <3>1, <3>3
  <2>3. CASE add[r] = 0
    <3>1. db[d].applied[r] \in Nat
      BY <1>0, AppliedType, <1>7 DEF AppliedAt
    <3>2. y.applied[r] = db[d].applied[r]
      BY <2>1, <2>3, <3>1
    <3>3. CASE db[d].applied[r] = 0
      BY <3>2, <3>3
    <3>4. CASE db[d].applied[r] = 1 /\ d = DomainOf(ShardOf(r)) /\ Settled(db[d], r)
      <4>1. PICK s \in Shard : s = ShardOf(r)
        BY RoutingType
      <4>2. Ckpt(s) = db[d].ckpt[s] /\ Ckpt(s)' = y.ckpt[s]
        BY <3>4, <4>1 DEF Ckpt
      <4>3. Ckpt(s) \in Nat /\ Ckpt(s)' \in Nat
        BY <1>0, CkptType, CkptTypeNext
      <4>4. Ckpt(s) <= Ckpt(s)'
        BY <1>2, <1>3, <4>3
      <4> QED
        BY <1>5, <3>2, <3>4, <4>1, <4>2, <4>3, <4>4, SettledLater
    <3> QED
      BY <1>5, <3>3, <3>4 DEF Counted
  <2> QED
    BY <1>1, <2>2, <2>3
<1> QED
  BY <1>6, <1>7

\* Every step keeps each request in one place.
LEMMA NextOnce ==
  ASSUME "postcommit" \notin Faults, EngineInv, TypeOK', AheadInv', [Next]_vars, OnceInv
  PROVE  OnceInv'
<1>0. /\ TypeOK /\ DrainHoldsWork /\ LineInv /\ CheckpointInv /\ OwedInv
      /\ Present /\ \A s \in Shard : Fit(s) /\ Placed(s)
  BY DEF EngineInv, OnceInv
<1>1. \A s \in Shard : Fit(s)' /\ Placed(s)'
  BY <1>0, JournalStep, PlacedStays
<1>2. /\ Present' /\ OnlyCommitted
      /\ \/ db' = db
         \/ PowerLost
         \/ \E k \in Shard : Drain(k) \/ Replays(k)
  BY <1>0, StoreStep
<1>3. ASSUME NEW d \in Domain, NEW x \in survivors[d] PROVE Counted(x, d)'
  <2>1. Counted(x, d)
    BY <1>3 DEF OnceInv
  <2>2. \A q : DomainOf(ShardOf(q))' = DomainOf(ShardOf(q))
    BY DEF ShardOf, DomainOf
  <2>3. \A r \in Request : Settled(x, r) => Settled(x, r)'
    BY <1>0, SettledStays
  <2> QED
    BY <2>1, <2>2, <2>3 DEF Counted
<1>4. ASSUME NEW d \in Domain, NEW y, y = db'[d], db' # db, ~ PowerLost PROVE Counted(y, d)'
  <2>1. PICK k \in Shard : Drain(k) \/ Replays(k)
    BY <1>2, <1>4
  <2>2. CommitsOnce(k)
    BY <1>0, <1>4, <2>1, DrainOnce, ReplayOnce
  <2>3. ~ \E e \in Entry : Accepts(k, e)
    <3>1. CASE Drain(k)
      BY <3>1, DrainFrame DEF Accepts, pastVars
    <3>2. CASE Replays(k)
      <4>1. \A c \in Client, r \in Request, waits \in BOOLEAN : ~ Submit(c, r, waits)
        BY <3>2 DEF Replays, Submit
      <4> QED
        BY <4>1, OnlySubmits DEF Accepts
    <3> QED
      BY <2>1, <3>1, <3>2
  <2>4. Shrinks(k)
    BY <1>0, <2>3, PlacedStays
  <2> QED
    BY <1>4, <2>2, <2>4, CommitCounted
<1>5. \A d \in Domain : \A x \in survivors'[d] : Counted(x, d)'
  <2> SUFFICES ASSUME NEW d \in Domain, NEW x \in survivors'[d] PROVE Counted(x, d)'
    OBVIOUS
  <2>1. CASE x \in survivors[d]
    BY <1>3, <2>1
  <2>2. CASE x \notin survivors[d]
    <3>1. x = db'[d]
      BY <1>2, <2>2 DEF OnlyCommitted
    <3>2. db' # db
      BY <1>0, <2>2, <3>1 DEF Present
    <3>3. ~ PowerLost
      BY <2>2, <3>1 DEF PowerLost
    <3> QED
      BY <1>4, <3>1, <3>2, <3>3
  <2> QED
    BY <2>1, <2>2
<1> QED
  BY <1>1, <1>2, <1>5 DEF OnceInv

\* The inductive invariant of the requests: one entry in the line, one record
\* in the journal, or one count in each state a store may come back in.
THEOREM OnceCorrect ==
  ASSUME "postcommit" \notin Faults
  PROVE  Spec => [](EngineInv /\ OnceInv)
<1>1. Init => OnceInv
  <2> SUFFICES ASSUME Init PROVE OnceInv
    OBVIOUS
  <2>1. \A d \in Domain : survivors[d] = {db[d]} /\ \A r \in Request : db[d].applied[r] = 0
    BY DEF Init
  <2>2. \A s \in Shard : /\ jsync[s] = 0 /\ jfile[s] = <<>> /\ jbuf[s] = <<>>
                         /\ work[s] = <<>> /\ buf[s] = <<>>
    BY DEF Init
  <2>3. 0 \in 0 .. Len(<<>>) /\ <<>> \o <<>> = <<>>
    OBVIOUS
  <2>4. Entries(<<>>) = {} /\ Loose(<<>>) = {} /\ Single(<<>>)
    BY DEF Entries, Loose, Single
  <2>5. \A s \in Shard : Fit(s) /\ Placed(s)
    BY <2>2, <2>3, <2>4 DEF Fit, Placed, Held, LineOf, Whole
  <2> QED
    BY <2>1, <2>5 DEF OnceInv, Present, Counted
<1>2. EngineInv /\ TypeOK' /\ AheadInv' /\ OnceInv /\ [Next]_vars => OnceInv'
  BY NextOnce
<1>3. Spec => []EngineInv
  BY AheadCorrect, CheckpointCorrect, OwedCorrect, PTL DEF EngineInv
<1>4. EngineInv => TypeOK /\ AheadInv
  BY DEF EngineInv
<1> QED
  BY <1>1, <1>2, <1>3, <1>4, PTL DEF Spec

\* No write is applied twice, in the stores or in any state they may come back
\* in, whatever was replayed, retried, requeued or lost, if no transaction
\* fails after its commit.
THEOREM OnceForAll ==
  ASSUME "postcommit" \notin Faults
  PROVE  Spec => []AppliedOnce
<1>1. OnceInv => AppliedOnce
  <2> SUFFICES ASSUME OnceInv, NEW d \in Domain, NEW x \in survivors[d] \cup {db[d]},
                      NEW r \in Request
               PROVE  x.applied[r] <= 1
    BY DEF AppliedOnce
  <2>1. Counted(x, d)
    BY DEF OnceInv, Present
  <2> QED
    BY <2>1 DEF Counted
<1> QED
  BY <1>1, OnceCorrect, PTL

-----------------------------------------------------------------------------
(* The write of a caller that was told it failed.                          *)

\* Request r was refused: no store holds it, and none will.
Out(r) == AppliedAt(ShardOf(r), r) = 0 /\ Settled(db[DomainOf(ShardOf(r))], r)

\* A request that is out stays out, unless power is lost.
LEMMA OutStays ==
  ASSUME "postcommit" \notin Faults, EngineInv, TypeOK', [Next]_vars, OnceInv, ~ PowerLoss,
         NEW r \in Request, Out(r)
  PROVE  Out(r)'
<1>0. /\ TypeOK /\ DrainHoldsWork /\ LineInv /\ Present
      /\ \A s \in Shard : Fit(s) /\ Placed(s)
  BY DEF EngineInv, OnceInv
<1>1. PICK s \in Shard : s = ShardOf(r)
  BY RoutingType
<1>2. PICK x : x = db[DomainOf(s)]
  OBVIOUS
<1>3. PICK y : y = db'[DomainOf(s)]
  OBVIOUS
<1>4. /\ x.ckpt[s] = Ckpt(s) /\ y.ckpt[s] = Ckpt(s)' /\ Settled(x, r)
      /\ AppliedAt(s, r) = 0
  BY <1>1, <1>2, <1>3 DEF Ckpt, Out
<1>5. Ckpt(s) \in Nat /\ Ckpt(s)' \in Nat /\ Ckpt(s)' >= Ckpt(s)
  BY <1>0, CkptType, CkptTypeNext, StoreMoves
<1>6. Settled(y, r)'
  <2>1. x.ckpt[s] <= y.ckpt[s]
    BY <1>4, <1>5
  <2> QED
    BY <1>0, <1>1, <1>4, <1>5, <2>1, SettledLater
<1>7. AppliedAt(s, r)' = 0
  <2>1. CASE db' = db
    BY <1>4, <2>1 DEF AppliedAt
  <2>2. ASSUME NEW k \in Shard, CommitsOnce(k) PROVE AppliedAt(s, r)' = 0
    <3>1. PICK add \in [Request -> Nat], n \in Nat :
            /\ CommitTo(k, add, n)
            /\ add[r] = 0 \/ (add[r] = 1 /\ Adds(k, r, n))
      BY <2>2 DEF CommitsOnce
    <3>2. CASE DomainOf(k) # DomainOf(s)
      <4>1. db'[DomainOf(s)] = db[DomainOf(s)]
        BY <1>0, <3>1, <3>2, RoutingType DEF CommitTo, TypeOK
      <4> QED
        BY <1>4, <4>1 DEF AppliedAt
    <3>3. CASE DomainOf(k) = DomainOf(s)
      <4>1. ~ Adds(k, r, n)
        <5>1. x.ckpt[k] = Ckpt(k)
          BY <1>2, <3>3 DEF Ckpt
        <5> QED
          BY <1>0, <1>4, <5>1, SettledNotAdded
      <4>2. AppliedAt(k, r)' = AppliedAt(k, r) + add[r]
        BY <1>0, <3>1, CommitExact
      <4>3. AppliedAt(k, r) = AppliedAt(s, r) /\ AppliedAt(k, r)' = AppliedAt(s, r)'
        BY <3>3 DEF AppliedAt
      <4> QED
        BY <1>4, <3>1, <4>1, <4>2, <4>3
    <3> QED
      BY <3>2, <3>3
  <2>3. db' = db \/ \E k \in Shard : Drain(k) \/ Replays(k)
    BY <1>0, StoreStep
  <2>4. db' = db \/ \E k \in Shard : CommitsOnce(k)
    BY <1>0, <2>3, DrainOnce, ReplayOnce
  <2> QED
    BY <2>1, <2>2, <2>4
<1> QED
  BY <1>1, <1>3, <1>6, <1>7 DEF Out, ShardOf

\* A failure is recorded by a rejection.
LEMMA FailuresStep ==
  ASSUME TypeOK, [Next]_vars, ~ LoseMemory, NEW s \in Shard, NEW n \in failures'[s]
  PROVE  n \in failures[s] \/ (Reject(s) /\ n = Head(work[s]).seq)
<1>1. ASSUME NEW k \in Shard, Drain(k)
      PROVE  n \in failures[s] \/ (Reject(s) /\ n = Head(work[s]).seq)
  <2>1. CASE Reject(k)
    BY <2>1 DEF Reject, TypeOK
  <2>2. CASE ~ Reject(k)
    <3>1. failures' = failures
      BY <1>1, <2>2 DEF Drain, DrainSwap, DrainSync, DrainBatch, DrainBatchFails, Retry,
           RetryFails, Requeue, DrainPublish, DrainNotify
    <3> QED
      BY <3>1
  <2> QED
    BY <2>1, <2>2
<1>2. CASE \/ \E c \in Client, r \in Request, waits \in BOOLEAN : Submit(c, r, waits)
           \/ \E c \in Client : Wait(c)
           \/ \E p \in Snapshotter :
                PauseAdmissions(p) \/ SnapshotReady(p) \/ ResumeAdmissions(p)
           \/ Maintenance
           \/ UNCHANGED vars
  <2>1. failures' = failures
    BY <1>2 DEF Submit, Wait, WaitReturn, WaitCheck, WaitPark, PauseAdmissions,
         SnapshotReady, ResumeAdmissions, Maintenance, MaintBegin, MaintAbort,
         MaintCheckpoint, MaintTruncate, vars
  <2> QED
    BY <2>1
<1>3. CASE \/ StartEngine \/ StartFinish \/ SpawnFlushers
           \/ Shutdown \/ RequestShutdown \/ JoinFlushers
           \/ \E k \in Shard : ReplayShard(k)
  <2>1. failures' = failures
    BY <1>3 DEF StartEngine, StartFinish, SpawnFlushers, Shutdown, RequestShutdown,
         JoinFlushers, ReplayShard
  <2> QED
    BY <2>1
<1>4. ~ \/ ShutdownDone \/ DropEngine \/ ProcessCrash \/ PowerLoss
        \/ \E k \in Shard : ReplayFails(k)
  BY DEF ShutdownDone, DropEngine, ProcessCrash, PowerLoss, ReplayFails
<1> QED
  BY <1>1, <1>2, <1>3, <1>4 DEF Next, Start

\* Power losses are history.
LEMMA LossesStep ==
  ASSUME TypeOK, [Next]_vars, losses' = 0
  PROVE  losses = 0 /\ ~ PowerLoss
<1>1. CASE PowerLoss
  <2>1. losses' = losses + 1 /\ losses \in Nat
    BY <1>1 DEF PowerLoss, TypeOK
  <2> QED
    BY <2>1
<1>2. CASE \/ \E c \in Client, r \in Request, waits \in BOOLEAN : Submit(c, r, waits)
           \/ \E c \in Client : Wait(c)
           \/ \E p \in Snapshotter :
                PauseAdmissions(p) \/ SnapshotReady(p) \/ ResumeAdmissions(p)
           \/ Maintenance \/ UNCHANGED vars
  <2>1. losses' = losses
    BY <1>2 DEF Submit, Wait, WaitReturn, WaitCheck, WaitPark, PauseAdmissions,
         SnapshotReady, ResumeAdmissions, Maintenance, MaintBegin, MaintAbort,
         MaintCheckpoint, MaintTruncate, Fault, envVars, vars
  <2> QED
    BY <1>1, <2>1
<1>3. CASE \E k \in Shard : Drain(k)
  <2>1. losses' = losses
    BY <1>3, DrainFrame
  <2> QED
    BY <1>1, <2>1
<1>4. CASE \/ StartEngine \/ StartFinish \/ SpawnFlushers
           \/ Shutdown \/ RequestShutdown \/ JoinFlushers \/ ShutdownDone \/ DropEngine
           \/ ProcessCrash
           \/ \E k \in Shard : ReplayShard(k) \/ ReplayFails(k)
  <2>1. losses' = losses
    BY <1>4 DEF StartEngine, StartFinish, SpawnFlushers, Shutdown, RequestShutdown,
         JoinFlushers, ShutdownDone, DropEngine, ProcessCrash, ReplayShard, ReplayFails,
         Fault, envVars
  <2> QED
    BY <1>1, <2>1
<1> QED
  BY <1>1, <1>2, <1>3, <1>4 DEF Next, Start
\* The entry of shard s a caller waits for is in line, or was rejected, or is
\* below the checkpoint and was not.
Decided(s, e) ==
  \/ e \in LineOf(s)
  \/ e.seq \in failures[s] /\ Out(e.req)
  \/ e.seq \notin failures[s] /\ e.seq <= Ckpt(s)

RejectInv ==
  /\ \A c \in Client : cpc[c] # "idle" =>
       ticket[c] \in Entry /\ Decided(ShardOf(ticket[c].req), ticket[c])
  /\ \A r \in Request : told[r] = "failed" /\ losses = 0 => Out(r)

\* What leaves the line is decided.
LEMMA DrainDecides ==
  ASSUME "postcommit" \notin Faults, EngineInv, TypeOK', AheadInv', [Next]_vars, OnceInv,
         ~ LoseMemory, NEW s \in Shard, Drain(s), NEW e \in Entry, e \in LineOf(s)
  PROVE  Decided(s, e)'
<1>0. /\ TypeOK /\ DrainHoldsWork /\ LineInv /\ AheadInv /\ OwedInv /\ Placed(s) /\ Fit(s)
      /\ e.seq \in Nat /\ e.req \in Request /\ DomainOf(s) \in Domain
  BY RoutingType DEF EngineInv, OnceInv, Entry
<1>1. e.seq \notin failures[s]
  <2>1. Line(s) /\ Below(s)
    BY <1>0 DEF LineInv, OwedInv
  <2>2. \A f \in LineOf(s) : f.seq > durable[s] /\ f.seq > pub[s]
    BY <1>0, <2>1, LineType, EntriesType DEF LineOf, Line, Unpublished
  <2>3. durable[s] \in Nat /\ pub[s] \in Nat
    BY <1>0, LineType
  <2> QED
    BY <1>0, <2>1, <2>2, <2>3 DEF Below
<1>2. CASE Reject(s) /\ e = Head(work[s])
  <2>1. /\ dpc[s] = "mark" /\ CommitTo(s, Copies(work[s], {}), Head(work[s]).seq)
        /\ failures'[s] = failures[s] \cup {Head(work[s]).seq}
    BY <1>0, <1>2 DEF Reject, TypeOK
  <2>2. work[s] # <<>>
    BY <1>0, <2>1, BatchType
  <2>3. Copies(work[s], {}) \in [Request -> Nat] /\ Copies(work[s], {})[e.req] = 0
    <3>1. Copies(work[s], {}) \in [Request -> Nat]
      BY <1>0, <2>2, BatchCopies
    <3>2. \A i, j \in {} : work[s][i].req = work[s][j].req => i = j
      OBVIOUS
    <3> QED
      BY <1>0, <3>1, <3>2, CopiesOnce
  <2>4. /\ Ckpt(s)' = Larger(Ckpt(s), e.seq) /\ Ckpt(s) \in Nat
        /\ AppliedAt(s, e.req)' = AppliedAt(s, e.req) + Copies(work[s], {})[e.req]
    BY <1>0, <1>2, <2>1, <2>3, CommitExact, CkptType
  <2>5. Ckpt(s)' >= e.seq
    BY <1>0, <2>4 DEF Larger
  <2>6. Adds(s, e.req, e.seq)
    BY <1>0 DEF Adds, Held
  <2>7. Shrinks(s)
    <3>1. ~ \E f \in Entry : Accepts(s, f)
      BY DrainFrame DEF Accepts, pastVars
    <3> QED
      BY <1>0, <3>1, PlacedStays
  <2>8. PICK r \in Request : r = e.req
    BY <1>0
  <2>9. PICK x : x = db[DomainOf(s)]
    OBVIOUS
  <2>10. PICK y : y = db'[DomainOf(s)]
    OBVIOUS
  <2>11. s = ShardOf(r) /\ ~ Settled(x, r)
    <3>1. x.ckpt[s] = Ckpt(s)
      BY <2>9 DEF Ckpt
    <3> QED
      BY <1>0, <2>6, <2>8, <3>1, SettledNotAdded
  <2>12. AppliedAt(s, r) = 0
    <3>1. Counted(x, DomainOf(s))
      BY <1>0, <2>9 DEF OnceInv, Present
    <3> QED
      BY <2>8, <2>9, <2>11, <3>1 DEF Counted, AppliedAt
  <2>13. AppliedAt(s, r)' = 0
    BY <2>3, <2>4, <2>8, <2>12
  <2>14. Settled(y, r)'
    BY <1>0, <2>5, <2>6, <2>7, <2>8, <2>10, AcceptedStays, CommitSettles
  <2>15. Out(r)'
    BY <2>10, <2>11, <2>13, <2>14 DEF Out, ShardOf
  <2> QED
    BY <1>2, <2>1, <2>8, <2>15 DEF Decided
<1>3. CASE e \in LineOf(s)'
  BY <1>3 DEF Decided
<1>4. CASE e \notin LineOf(s)' /\ ~ (Reject(s) /\ e = Head(work[s]))
  <2>1. e.seq <= Ckpt(s)'
    BY <1>0, <1>4, DrainTakes
  <2>2. ~ Reject(s)
    <3> SUFFICES ASSUME Reject(s) PROVE FALSE
      OBVIOUS
    <3>1. work'[s] = Tail(work[s]) /\ buf'[s] = buf[s] /\ dpc[s] = "mark"
      BY <1>0 DEF Reject, TypeOK, queueVars
    <3>2. work[s] \in Seq(Entry) /\ work[s] # <<>>
      BY <1>0, <3>1, BatchType
    <3>3. Entries(work[s]) = {Head(work[s])} \cup Entries(Tail(work[s]))
      BY <3>2, EntriesType
    <3> QED
      BY <1>4, <3>1, <3>3 DEF LineOf
  <2>3. e.seq \notin failures'[s]
    BY <1>0, <1>1, <2>2, FailuresStep
  <2> QED
    BY <2>1, <2>3 DEF Decided
<1> QED
  BY <1>2, <1>3, <1>4

\* While the process lives, what is decided stays so.
LEMMA DecidedStays ==
  ASSUME "postcommit" \notin Faults, EngineInv, TypeOK', AheadInv', [Next]_vars, OnceInv,
         ~ LoseMemory, NEW s \in Shard, NEW e \in Entry, Decided(s, e)
  PROVE  Decided(s, e)'
<1>0. /\ TypeOK /\ DrainHoldsWork /\ LineInv /\ AheadInv /\ Present /\ ~ PowerLoss
      /\ e.seq \in Nat /\ e.req \in Request
  BY DEF EngineInv, OnceInv, Entry, PowerLoss
<1>1. CASE e.seq \in failures[s] /\ Out(e.req)
  <2>1. failures[s] \subseteq failures'[s]
    BY <1>0, FailuresStay
  <2>2. PICK r \in Request : r = e.req
    BY <1>0
  <2>3. Out(r)'
    BY <1>0, <1>1, <2>2, OutStays
  <2> QED
    BY <1>1, <2>1, <2>2, <2>3 DEF Decided
<1>2. CASE e.seq \notin failures[s] /\ e.seq <= Ckpt(s)
  <2>1. Ckpt(s) \in Nat /\ Ckpt(s)' \in Nat /\ Ckpt(s)' >= Ckpt(s)
    BY <1>0, CkptType, CkptTypeNext, StoreMoves
  <2>2. e.seq <= Ckpt(s)'
    BY <1>0, <1>2, <2>1
  <2>3. e.seq \notin failures'[s]
    <3> SUFFICES ASSUME Reject(s), e.seq = Head(work[s]).seq PROVE FALSE
      BY <1>0, <1>2, FailuresStep
    <3>1. dpc[s] = "mark"
      BY DEF Reject
    <3>2. Head(work[s]) = work[s][1] /\ 1 \in DOMAIN work[s]
      BY <1>0, <3>1, BatchType
    <3>3. Head(work[s]).seq > Ckpt(s)
      BY <1>0, <3>2 DEF AheadInv, AllAhead, AheadAt, Entries
    <3> QED
      BY <1>0, <1>2, <2>1, <3>3
  <2> QED
    BY <2>2, <2>3 DEF Decided
<1>3. CASE e \in LineOf(s) /\ ~ Drain(s)
  <2>1. CASE work'[s] = work[s] /\ buf'[s] = buf[s]
    BY <1>3, <2>1 DEF Decided, LineOf
  <2>2. CASE \E f \in Entry : Submitted(s, f)
    BY <1>3, <2>2 DEF Decided, Submitted
  <2> QED
    BY <1>0, <1>3, <2>1, <2>2, LineStep
<1>4. CASE e \in LineOf(s) /\ Drain(s)
  BY <1>4, DrainDecides
<1> QED
  BY <1>1, <1>2, <1>3, <1>4 DEF Decided

\* Every step keeps refused requests out of the stores.
LEMMA NextReject ==
  ASSUME "postcommit" \notin Faults, EngineInv, TypeOK', AheadInv', [Next]_vars, OnceInv,
         RejectInv
  PROVE  RejectInv'
<1>0. TypeOK /\ LineInv
  BY DEF EngineInv
<1>1. ASSUME NEW c \in Client, cpc'[c] # "idle"
      PROVE  ticket'[c] \in Entry /\ Decided(ShardOf(ticket[c].req), ticket[c])'
  <2>1. CASE cpc[c] # "idle" /\ ticket'[c] = ticket[c]
    <3>1. PICK e \in Entry : e = ticket[c]
      BY <2>1 DEF RejectInv
    <3>2. PICK s \in Shard : s = ShardOf(e.req)
      BY RoutingType DEF Entry
    <3>3. Decided(s, e)
      BY <2>1, <3>1, <3>2 DEF RejectInv
    <3>4. Decided(s, e)'
      BY <1>0, <1>1, <3>3, TicketStep, DecidedStays
    <3> QED
      BY <2>1, <3>1, <3>2, <3>4 DEF ShardOf
  <2>2. CASE \E s \in Shard, e \in Entry :
               ticket'[c] = e /\ s = ShardOf(e.req) /\ Submitted(s, e)
    <3>1. PICK s \in Shard, e \in Entry :
            ticket'[c] = e /\ s = ShardOf(e.req) /\ Submitted(s, e)
      BY <2>2
    <3>2. Decided(s, e)'
      BY <3>1 DEF Submitted, Decided
    <3> QED
      BY <3>1, <3>2 DEF ShardOf
  <2> QED
    BY <1>0, <1>1, <2>1, <2>2, TicketStep
<1>2. ASSUME NEW r \in Request, told'[r] = "failed", losses' = 0
      PROVE  Out(r)'
  <2>1. losses = 0 /\ ~ PowerLoss
    BY <1>0, <1>2, LossesStep
  <2>2. CASE told[r] = "failed"
    BY <2>1, <2>2, OutStays DEF RejectInv
  <2>3. CASE told[r] # "failed"
    <3>1. PICK c \in Client : /\ WaitReturn(c) /\ ticket[c].req = r
                              /\ ticket[c].seq \in failures[ShardOf(r)]
      BY <1>0, <1>2, <2>3, ToldStep
    <3>2. PICK s \in Shard : s = ShardOf(r)
      BY RoutingType
    <3>3. PICK e \in Entry : e = ticket[c] /\ Decided(s, e)
      BY <3>1, <3>2 DEF WaitReturn, RejectInv
    <3>4. durable[s] >= e.seq /\ e.seq \in Nat /\ durable[s] \in Nat
      BY <1>0, <3>1, <3>2, <3>3 DEF WaitReturn, Entry, TypeOK
    <3>5. e \notin LineOf(s)
      <4>1. \A f \in LineOf(s) : f.seq > durable[s]
        BY <1>0, LineType, EntriesType DEF LineOf, LineInv, Line, Unpublished
      <4> QED
        BY <3>4, <4>1
    <3>6. Out(r)
      BY <3>1, <3>2, <3>3, <3>5 DEF Decided
    <3> QED
      BY <2>1, <3>6, OutStays
  <2> QED
    BY <2>2, <2>3
<1> QED
  BY <1>1, <1>2 DEF RejectInv

\* What callers wait for is in line or decided, and what was refused is out.
LEMMA RejectCorrect ==
  ASSUME "postcommit" \notin Faults
  PROVE  Spec => []RejectInv
<1>1. Init => RejectInv
  BY DEF Init, RejectInv
<1>2. /\ EngineInv /\ TypeOK' /\ AheadInv' /\ OnceInv /\ RejectInv /\ [Next]_vars
      => RejectInv'
  BY NextReject
<1>3. EngineInv => TypeOK /\ AheadInv
  BY DEF EngineInv
<1> QED
  BY <1>1, <1>2, <1>3, OnceCorrect, PTL DEF Spec

\* A write whose caller was told it failed is in no store and no replay will
\* put it there, through crashes and restarts, until a power loss takes back
\* the commit that refused it, if no transaction fails after its commit.
THEOREM RefusedForGood ==
  ASSUME "postcommit" \notin Faults
  PROVE  Spec => []RejectedStaysOut
<1>1. EngineInv /\ OnceInv /\ RejectInv => RejectedStaysOut
  <2> SUFFICES ASSUME EngineInv, OnceInv, RejectInv, NEW r \in Request, told[r] = "failed",
                      losses = 0
               PROVE  /\ db[DomainOf(ShardOf(r))].applied[r] = 0
                      /\ \A i \in Pending(ShardOf(r)) : jfile[ShardOf(r)][i].req # r
    BY DEF RejectedStaysOut
  <2>1. PICK s \in Shard : s = ShardOf(r)
    BY RoutingType
  <2>2. Out(r)
    BY DEF RejectInv
  <2>3. ASSUME NEW i \in Pending(s), jfile[s][i].req = r PROVE FALSE
    <3>1. /\ jfile[s] \in Seq(Unit) /\ jbuf[s] \in Seq(Unit)
          /\ DOMAIN jfile[s] = 1 .. Len(jfile[s])
      BY LenProperties DEF EngineInv, TypeOK
    <3>2. /\ i \in DOMAIN jfile[s] /\ jfile[s][i].kind = "rec" /\ jfile[s][i].seq > Ckpt(s)
          /\ jfile[s][i].seq \in Nat
      <4>1. i \in 1 .. Len(jfile[s]) /\ jfile[s][i].kind = "rec" /\ jfile[s][i].seq > Ckpt(s)
        BY DEF Pending, Parsed
      <4>2. jfile[s][i] \in Unit
        BY <3>1, <4>1
      <4> QED
        BY <3>1, <4>1, <4>2 DEF Unit
    <3>3. EntryOf(jfile[s][i]) \in Loose(Whole(s))
      <4>1. EntryOf(jfile[s][i]) \in Loose(jfile[s])
        BY <3>2 DEF Loose
      <4> QED
        BY <3>1, <4>1, PrefixSingle DEF Whole
    <3>4. EntryOf(jfile[s][i]).req = r /\ EntryOf(jfile[s][i]).seq = jfile[s][i].seq
      BY <2>3 DEF EntryOf
    <3>5. jfile[s][i].seq <= Ckpt(s)
      BY <2>1, <2>2, <3>3, <3>4 DEF Out, Settled, Ckpt
    <3>6. Ckpt(s) \in Nat
      BY CkptType DEF EngineInv
    <3> QED
      BY <3>2, <3>5, <3>6
  <2> QED
    BY <2>1, <2>2, <2>3 DEF Out, AppliedAt
<1> QED
  BY <1>1, RejectCorrect, OnceCorrect, PTL
=============================================================================
