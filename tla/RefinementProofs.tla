-------------------------- MODULE RefinementProofs --------------------------
(***************************************************************************)
(* The engine implements the bus (ContextEngineBus): every step of         *)
(* ContextEngine is a step of WriteBus, or none, for every value of the    *)
(* constants, where no machine loses power, no transaction fails after its *)
(* commit, and no line of a journal is torn or every start reclaims the    *)
(* journals.                                                               *)
(***************************************************************************)
EXTENDS BusProofs, ContextEngineBus

-----------------------------------------------------------------------------
(* Callers, numbers and the order of journals.                             *)

\* Callers wait in a running engine, for different writes, and nobody has been
\* told of one that is waited for, or not accepted.
Callers ==
  /\ \A c \in Client : cpc[c] # "idle" =>
       phase = "up" /\ ticket[c].req \in accepted /\ told[ticket[c].req] = "none"
  /\ \A c, d \in Client :
       c # d /\ cpc[c] # "idle" /\ cpc[d] # "idle" => ticket[c].req # ticket[d].req
  /\ \A r \in Request \ accepted : told[r] = "none"

\* A shard numbers no further than there are accepted requests: a restart
\* reuses the numbers nothing is left of.
Few(s, n) == nextSeq[s] <= n /\ Ckpt(s) <= n /\ \A e \in Loose(Whole(s)) : e.seq <= n
Bounded == \A s \in Shard : Few(s, Cardinality(accepted))

\* The records of a journal are in the order of their numbers, and all of them
\* parse.
Sorted(f) ==
  \A i, j \in DOMAIN f :
    i < j /\ f[i].kind = "rec" /\ f[j].kind = "rec" => f[i].seq < f[j].seq
Clean(f) == \A i \in DOMAIN f : f[i].kind = "rec" => i \in Parsed(f)

\* Numbers recorded were issued, by this start or by one before it.
Recorded(s) ==
  /\ Sorted(Whole(s)) /\ Clean(Whole(s))
  /\ Counting(s) => \A e \in Loose(Whole(s)) : e.seq <= nextSeq[s]

SortedInv == \A s \in Shard : Recorded(s)

\* A step that neither submits, drains, replays nor answers, nor ends the
\* process: what the bus would tell of stays as it is.
Quiet ==
  /\ UNCHANGED <<db, work, buf, nextSeq, ticket, accepted, told>>
  /\ \A c \in Client : cpc'[c] = "idle" <=> cpc[c] = "idle"
  /\ phase \in {"down", "replay"} => jfile' = jfile
  /\ \/ phase' = phase
     \/ phase = "down" /\ phase' = "replay"
     \/ phase = "replay" /\ unreplayed = {} /\ phase' = "boot"
     \/ /\ {phase, phase'} \cap {"down", "replay"} = {}
        /\ phase = "up" => \A c \in Client : cpc[c] = "idle"
  /\ phase' = "replay" => unreplayed' = unreplayed \/ unreplayed' = Shard

\* A process ends; its files may be flushed.
Ends ==
  /\ LoseMemory /\ UNCHANGED <<db, accepted, told>>
  /\ jfile' = jfile \/ DropJournals

\* The steps of the engine, as the bus tells them apart.
LEMMA Kinds ==
  ASSUME "postcommit" \notin Faults, MaxPowerLosses = 0, TypeOK, OwedInv, [Next]_vars
  PROVE  \/ \E c \in Client, r \in Request, waits \in BOOLEAN : Submit(c, r, waits)
         \/ \E c \in Client : WaitReturn(c)
         \/ \E s \in Shard : Drain(s) \/ ReplayShard(s)
         \/ Ends \/ Quiet
<1>1. ~ PowerLoss
  BY DEF PowerLoss, TypeOK
<1>2. CASE UNCHANGED vars
  BY <1>2 DEF vars, Quiet, queueVars, storeVars, drainVars, agentVars, pastVars
<1>3. ASSUME NEW c \in Client, Wait(c)
      PROVE  WaitReturn(c) \/ Quiet
  <2>1. CASE WaitCheck(c)
    BY <2>1 DEF WaitCheck, Quiet, TypeOK, queueVars, storeVars, drainVars, pastVars
  <2>2. CASE WaitPark(c)
    BY <2>2 DEF WaitPark, Quiet, TypeOK, queueVars, storeVars, drainVars, pastVars
  <2> QED
    BY <1>3, <2>1, <2>2 DEF Wait
<1>4. ASSUME NEW p \in Snapshotter,
             PauseAdmissions(p) \/ SnapshotReady(p) \/ ResumeAdmissions(p)
      PROVE  Quiet
  BY <1>4 DEF PauseAdmissions, SnapshotReady, ResumeAdmissions, Quiet, queueVars, storeVars,
              drainVars, pastVars
<1>5. CASE Maintenance
  <2>1. phase \notin {"down", "replay"} /\ phase' = phase
    BY <1>5 DEF OwedInv, Marked, Maintenance, MaintBegin, MaintAbort, MaintCheckpoint,
                MaintTruncate, Running
  <2>2. UNCHANGED <<db, work, buf, nextSeq, ticket, accepted, told, cpc, unreplayed>>
    BY <1>5 DEF Maintenance, MaintBegin, MaintAbort, MaintCheckpoint, MaintTruncate,
                queueVars, storeVars, drainVars, agentVars, pastVars
  <2> QED
    BY <2>1, <2>2 DEF Quiet
<1>6. CASE StartEngine \/ StartFinish \/ SpawnFlushers
  BY <1>6 DEF StartEngine, StartFinish, SpawnFlushers, Quiet, queueVars, storeVars, drainVars,
              agentVars, pastVars
<1>7. CASE Shutdown \/ RequestShutdown \/ JoinFlushers
  BY <1>7 DEF Shutdown, RequestShutdown, JoinFlushers, Unshared, Quiet, queueVars, storeVars,
              drainVars, agentVars, pastVars
<1>8. CASE ShutdownDone \/ DropEngine \/ ProcessCrash
  BY <1>8 DEF ShutdownDone, DropEngine, ProcessCrash, Ends, storeVars, pastVars
<1>9. ASSUME NEW s \in Shard, ReplayFails(s)
      PROVE  Ends
  BY <1>9 DEF ReplayFails, Fault, Ends, storeVars, pastVars
<1> QED
  BY <1>1, <1>2, <1>3, <1>4, <1>5, <1>6, <1>7, <1>8, <1>9 DEF Next, Start

\* Every step keeps what callers wait for.
LEMMA NextCallers ==
  ASSUME "postcommit" \notin Faults, MaxPowerLosses = 0, TypeOK, OwedInv, Callers, [Next]_vars
  PROVE  Callers'
<1>1. ASSUME NEW c \in Client, NEW r \in Request, NEW waits \in BOOLEAN, Submit(c, r, waits)
      PROVE  Callers'
  <2>1. /\ phase = "up" /\ phase' = "up" /\ told' = told
        /\ r \notin accepted /\ accepted' = accepted \cup {r}
    BY <1>1 DEF Submit
  <2>2. \A b \in Client : cpc'[b] # "idle" =>
          \/ cpc[b] # "idle" /\ ticket'[b] = ticket[b]
          \/ b = c /\ ticket'[b].req = r
    BY <1>1 DEF Submit, TypeOK
  <2>3. \A b \in Client : cpc[b] # "idle" => ticket[b].req \in accepted /\ told[ticket[b].req] = "none"
    BY DEF Callers
  <2>4. told[r] = "none"
    BY <2>1 DEF Callers
  <2>5. \A b \in Client : cpc'[b] # "idle" =>
          phase' = "up" /\ ticket'[b].req \in accepted' /\ told'[ticket'[b].req] = "none"
    BY <2>1, <2>2, <2>3, <2>4
  <2>6. \A b, d \in Client :
          b # d /\ cpc'[b] # "idle" /\ cpc'[d] # "idle" => ticket'[b].req # ticket'[d].req
    BY <2>1, <2>2, <2>3 DEF Callers
  <2>7. \A x \in Request \ accepted' : told'[x] = "none"
    BY <2>1 DEF Callers
  <2> QED
    BY <2>5, <2>6, <2>7 DEF Callers
<1>2. ASSUME NEW c \in Client, WaitReturn(c)
      PROVE  Callers'
  <2>1. /\ phase' = phase /\ accepted' = accepted
        /\ \A x \in Request : told'[x] = told[x] \/ x = ticket[c].req
    BY <1>2 DEF WaitReturn, TypeOK
  <2>2. cpc[c] = "waiting" /\ ticket[c].req \in accepted
    BY <1>2 DEF WaitReturn, Callers
  <2>3. \A b \in Client : cpc'[b] # "idle" => b # c /\ cpc[b] # "idle" /\ ticket'[b] = ticket[b]
    BY <1>2 DEF WaitReturn, TypeOK
  <2>4. \A b \in Client : cpc'[b] # "idle" => ticket[b].req # ticket[c].req /\ ticket[b].req \in Request
    BY <2>2, <2>3 DEF Callers, TypeOK
  <2> QED
    BY <2>1, <2>2, <2>3, <2>4 DEF Callers
<1>3. CASE \/ \E s \in Shard : Drain(s) \/ ReplayShard(s)
           \/ Quiet
  <2>1. /\ UNCHANGED <<ticket, accepted, told>>
        /\ \A c \in Client : cpc'[c] = "idle" <=> cpc[c] = "idle"
        /\ phase = "up" => phase' = "up" \/ \A c \in Client : cpc[c] = "idle"
    <3>1. CASE Quiet
      BY <3>1 DEF Quiet
    <3>2. ASSUME NEW s \in Shard, Drain(s)
          PROVE  /\ UNCHANGED <<ticket, accepted, told, phase>>
                 /\ \A c \in Client : cpc'[c] = "idle" <=> cpc[c] = "idle"
      BY <3>2 DEF Drain, DrainSwap, DrainSync, DrainBatch, DrainBatchFails, Retry, RetryFails,
                  Reject, Requeue, DrainPublish, DrainNotify, agentVars, pastVars
    <3>3. ASSUME NEW s \in Shard, ReplayShard(s)
          PROVE  UNCHANGED <<ticket, accepted, told, phase, cpc>>
      BY <3>3 DEF ReplayShard, agentVars, pastVars
    <3> QED
      BY <1>3, <3>1, <3>2, <3>3
  <2> QED
    BY <2>1 DEF Callers
<1>4. CASE Ends
  BY <1>4 DEF Ends, LoseMemory, Callers
<1> QED
  BY <1>1, <1>2, <1>3, <1>4, Kinds

\* The numbers of a replay come from its checkpoint and its journal.
LEMMA ReplayNumbers ==
  ASSUME TypeOK, CheckpointInv, NEW s \in Shard, ReplayShard(s)
  PROVE  /\ UNCHANGED <<jfile, jbuf, accepted>> /\ CommitPending(s) /\ Whole(s) = jfile[s]
         /\ \A k \in Shard \ {s} : nextSeq'[k] = nextSeq[k]
         /\ nextSeq'[s] = HighestSeq(jfile[s], Parsed(jfile[s]), Ckpt(s))
         /\ nextSeq'[s] = Ckpt(s) \/ \E e \in Loose(Whole(s)) : nextSeq'[s] = e.seq
         /\ \A e \in Records(jfile[s]) : e.seq <= nextSeq'[s]
<1>1. /\ UNCHANGED <<jfile, jbuf, accepted>> /\ CommitPending(s) /\ phase = "replay"
      /\ \A k \in Shard \ {s} : nextSeq'[k] = nextSeq[k]
      /\ nextSeq'[s] = HighestSeq(jfile[s], Parsed(jfile[s]), Ckpt(s))
  BY DEF ReplayShard, TypeOK, pastVars
<1>2. Whole(s) = jfile[s]
  <2>1. jbuf[s] = <<>> /\ jfile[s] \in Seq(Unit)
    BY <1>1 DEF CheckpointInv, BufferedOnlyUp, TypeOK
  <2> QED
    BY <2>1, ConcatProperties DEF Whole
<1>3. /\ jfile[s] \in Seq(Unit) /\ Ckpt(s) \in Nat
      /\ Parsed(jfile[s]) \in SUBSET (1 .. Len(jfile[s]))
      /\ DOMAIN jfile[s] = 1 .. Len(jfile[s])
  BY CkptType, LenProperties DEF TypeOK, Parsed
<1>4. /\ nextSeq'[s] \in {Ckpt(s)} \cup {jfile[s][i].seq : i \in Parsed(jfile[s])}
      /\ \A i \in Parsed(jfile[s]) : jfile[s][i].seq <= nextSeq'[s]
  BY <1>1, <1>3, HighestSeqType
<1>5. \A i \in Parsed(jfile[s]) : EntryOf(jfile[s][i]) \in Loose(jfile[s])
  BY <1>3 DEF Parsed, Loose
<1>6. nextSeq'[s] = Ckpt(s) \/ \E e \in Loose(Whole(s)) : nextSeq'[s] = e.seq
  <2>1. ASSUME NEW i \in Parsed(jfile[s]), nextSeq'[s] = jfile[s][i].seq
        PROVE  \E e \in Loose(Whole(s)) : nextSeq'[s] = e.seq
    <3>1. EntryOf(jfile[s][i]).seq = nextSeq'[s]
      BY <2>1 DEF EntryOf
    <3> QED
      BY <1>2, <1>5, <3>1
  <2> QED
    BY <1>4, <2>1
<1>7. \A e \in Records(jfile[s]) : e.seq <= nextSeq'[s]
  BY <1>4 DEF EntryOf, Records
<1> QED
  BY <1>1, <1>2, <1>6, <1>7

\* Every step keeps numbers no greater than what was accepted.
LEMMA NextBounded ==
  ASSUME "postcommit" \notin Faults, MaxPowerLosses = 0, EngineInv, TypeOK',
         \A s \in Shard : Fit(s), Bounded, [Next]_vars
  PROVE  Bounded'
<1> USE DEF EngineInv
<1>1. PICK n : n = Cardinality(accepted)
  OBVIOUS
<1>2. PICK m : m = Cardinality(accepted)'
  OBVIOUS
<1>3. IsFiniteSet(accepted) /\ n \in Nat
  <2>1. accepted \subseteq Request /\ IsFiniteSet(Request)
    BY DataAssumption DEF TypeOK
  <2> QED
    BY <1>1, <2>1, FS_Subset, FS_CardinalityType
<1>4. \A s \in Shard : Few(s, n)
  BY <1>1 DEF Bounded
<1>5. \A s \in Shard : /\ Ckpt(s) \in Nat /\ Ckpt(s)' \in Nat /\ nextSeq[s] \in Nat /\ nextSeq'[s] \in Nat
  BY CkptType, CkptTypeNext DEF TypeOK
<1>6. ASSUME NEW c \in Client, NEW r \in Request, NEW waits \in BOOLEAN, Submit(c, r, waits)
      PROVE  /\ m = n + 1
             /\ \A s \in Shard : nextSeq'[s] <= m /\ Ckpt(s)' <= m
  <2>1. r \notin accepted /\ accepted' = accepted \cup {r} /\ db' = db
    BY <1>6 DEF Submit, storeVars
  <2>2. m = n + 1
    BY <1>1, <1>2, <1>3, <2>1, FS_AddElement
  <2>3. \A s \in Shard : nextSeq'[s] = nextSeq[s] \/ nextSeq'[s] = nextSeq[s] + 1
    BY <1>6 DEF Submit, TypeOK
  <2>4. \A s \in Shard : Ckpt(s)' = Ckpt(s)
    BY <2>1 DEF Ckpt
  <2> QED
    BY <1>3, <1>4, <1>5, <2>2, <2>3, <2>4 DEF Few
<1>7. ASSUME ~ \E c \in Client, r \in Request, waits \in BOOLEAN : Submit(c, r, waits)
      PROVE  /\ m = n
             /\ \A s \in Shard : nextSeq'[s] <= n /\ Ckpt(s)' <= n
  <2>1. accepted' = accepted /\ m = n
    BY <1>1, <1>2, <1>7, OnlySubmits
  <2>2. ASSUME NEW s \in Shard, Drain(s)
        PROVE  \A k \in Shard : nextSeq'[k] <= n /\ Ckpt(k)' <= n
    <3>1. nextSeq' = nextSeq /\ Ckpt(s) <= nextSeq[s]
      BY <2>2, DrainFrame, CountingWorks DEF AheadInv, Numbered
    <3>2. /\ \A k \in Shard \ {s} : Ckpt(k)' = Ckpt(k)
          /\ Ckpt(s)' <= nextSeq[s]
      BY <2>2, <3>1, DrainStores
    <3> QED
      BY <1>3, <1>4, <1>5, <3>1, <3>2 DEF Few
  <2>3. ASSUME NEW s \in Shard, ReplayShard(s)
        PROVE  \A k \in Shard : nextSeq'[k] <= n /\ Ckpt(k)' <= n
    <3>1. /\ CommitPending(s)
          /\ \A k \in Shard \ {s} : nextSeq'[k] = nextSeq[k]
          /\ nextSeq'[s] = HighestSeq(jfile[s], Parsed(jfile[s]), Ckpt(s))
          /\ nextSeq'[s] = Ckpt(s) \/ \E e \in Loose(Whole(s)) : nextSeq'[s] = e.seq
      BY <2>3, ReplayNumbers
    <3>2. /\ \A k \in Shard \ {s} : Ckpt(k)' = Ckpt(k)
          /\ Ckpt(s)' <= nextSeq'[s]
      BY <3>1, ReplayExact
    <3>3. nextSeq'[s] <= n
      BY <1>4, <3>1 DEF Few
    <3> QED
      BY <1>3, <1>4, <1>5, <3>1, <3>2, <3>3 DEF Few
  <2>4. ASSUME Ends
        PROVE  \A k \in Shard : nextSeq'[k] <= n /\ Ckpt(k)' <= n
    BY <1>3, <1>4, <2>4 DEF Ends, LoseMemory, Ckpt, Few
  <2>5. ASSUME Quiet \/ \E c \in Client : WaitReturn(c)
        PROVE  \A k \in Shard : nextSeq'[k] <= n /\ Ckpt(k)' <= n
    BY <1>4, <2>5 DEF Quiet, WaitReturn, queueVars, storeVars, Ckpt, Few
  <2> QED
    BY <1>7, <2>1, <2>2, <2>3, <2>4, <2>5, Kinds
<1>8. ASSUME NEW s \in Shard
      PROVE  \A u \in Loose(Whole(s)') : u.seq <= m
  <2>1. CASE JournalGrown(s)
    <3>1. PICK c \in Client, r \in Request, waits \in BOOLEAN, e \in Entry :
            Submit(c, r, waits) /\ Submitted(s, e)
      BY <2>1 DEF JournalGrown
    <3>2. /\ m = n + 1 /\ e.seq = nextSeq[s] + 1
          /\ Whole(s)' = Whole(s) \o <<Record(e.seq, e.req), Mark("nl")>>
      BY <1>6, <3>1 DEF Submitted
    <3>3. Loose(Whole(s)') \subseteq Loose(Whole(s)) \cup {e}
      <4>1. <<>> \in Seq(Unit) /\ EndsLine(<<>>)
        BY DEF EndsLine
      <4>2. /\ <<Record(e.seq, e.req), Mark("nl")>> \in Seq(Unit)
            /\ Loose(<<Record(e.seq, e.req), Mark("nl")>>) = {e}
        BY <4>1, JournalAppend
      <4>3. Whole(s) \in Seq(Unit)
        BY WholeType
      <4> QED
        BY <3>2, <4>2, <4>3, JournalConcat
    <3>4. \A u \in Loose(Whole(s)) : u.seq <= n /\ u.seq \in Nat
      BY <1>4, WholeType, LooseType DEF Few
    <3>5. e.seq <= m /\ n <= m
      <4>1. nextSeq[s] <= n /\ nextSeq[s] \in Nat
        BY <1>4, <1>5 DEF Few
      <4> QED
        BY <1>3, <3>2, <4>1
    <3>6. \A u \in Loose(Whole(s)) : u.seq <= m
      BY <1>3, <3>2, <3>4
    <3> QED
      BY <3>3, <3>5, <3>6
  <2>2. CASE ~ JournalGrown(s)
    <3>1. \A u \in Loose(Whole(s)') : u.seq <= n /\ u.seq \in Nat
      BY <1>4, <2>2, JournalShrinks, WholeType, LooseType DEF Few
    <3> QED
      BY <1>3, <1>6, <1>7, <3>1
  <2> QED
    BY <2>1, <2>2
<1>9. \A s \in Shard : nextSeq'[s] <= m /\ Ckpt(s)' <= m
  BY <1>6, <1>7
<1> QED
  BY <1>2, <1>8, <1>9 DEF Bounded, Few

\* The beginning of a journal in order is in order.
LEMMA PrefixSorted ==
  ASSUME NEW f \in Seq(Unit), NEW g \in Seq(Unit), Sorted(f \o g), Clean(f \o g)
  PROVE  Sorted(f) /\ Clean(f)
<1>1. /\ Len(f \o g) = Len(f) + Len(g) /\ Len(f) \in Nat /\ Len(g) \in Nat
      /\ DOMAIN f = 1 .. Len(f) /\ DOMAIN (f \o g) = 1 .. Len(f) + Len(g)
      /\ \A i \in 1 .. Len(f) : (f \o g)[i] = f[i]
  BY ConcatUnits
<1>2. Sorted(f)
  BY <1>1 DEF Sorted
<1>3. Clean(f)
  <2> SUFFICES ASSUME NEW i \in DOMAIN f, f[i].kind = "rec"
               PROVE  i \in Parsed(f)
    BY DEF Clean
  <2>1. i \in Parsed(f \o g) /\ i \in 1 .. Len(f)
    BY <1>1 DEF Clean
  <2>2. i > 1 => f[i - 1].kind = "nl"
    BY <1>1, <2>1 DEF Parsed
  <2>3. i < Len(f) => f[i + 1].kind = "nl"
    BY <1>1, <2>1 DEF Parsed
  <2> QED
    BY <2>1, <2>2, <2>3 DEF Parsed
<1> QED
  BY <1>2, <1>3

\* A line with a greater number than all keeps a journal in order.
LEMMA AppendSorted ==
  ASSUME NEW f \in Seq(Unit), EndsLine(f), Sorted(f), Clean(f), NEW e \in Entry,
         \A u \in Loose(f) : u.seq < e.seq
  PROVE  /\ Sorted(f \o <<Record(e.seq, e.req), Mark("nl")>>)
         /\ Clean(f \o <<Record(e.seq, e.req), Mark("nl")>>)
<1>1. PICK g \in Seq(Unit) : g = <<Record(e.seq, e.req), Mark("nl")>>
  BY JournalAppend
<1>2. Len(g) = 2 /\ g[1].kind = "rec" /\ g[1].seq = e.seq /\ g[2].kind = "nl"
  BY <1>1 DEF Record, Mark
<1>3. PICK h : h = f \o g
  OBVIOUS
<1>4. /\ Len(h) = Len(f) + 2 /\ Len(f) \in Nat
      /\ DOMAIN f = 1 .. Len(f) /\ DOMAIN h = 1 .. Len(f) + 2
      /\ \A i \in 1 .. Len(f) : h[i] = f[i]
      /\ h[Len(f) + 1] = g[1] /\ h[Len(f) + 2] = g[2]
  <2>1. 1 \in 1 .. Len(g) /\ 2 \in 1 .. Len(g)
    BY <1>2
  <2>2. /\ Len(h) = Len(f) + Len(g) /\ Len(f) \in Nat
        /\ DOMAIN f = 1 .. Len(f) /\ DOMAIN h = 1 .. Len(f) + Len(g)
        /\ \A i \in 1 .. Len(f) : h[i] = f[i]
        /\ \A j \in 1 .. Len(g) : h[Len(f) + j] = g[j]
    BY <1>3, ConcatUnits
  <2> QED
    BY <1>2, <2>1, <2>2
<1>5. ASSUME NEW i \in DOMAIN f, f[i].kind = "rec" PROVE f[i].seq < e.seq
  <2>1. EntryOf(f[i]) \in Loose(f)
    BY <1>5 DEF Loose
  <2> QED
    BY <2>1 DEF EntryOf
<1>6. \A i \in DOMAIN h : h[i].kind = "rec" => i \in DOMAIN f \/ i = Len(f) + 1
  BY <1>2, <1>4
<1>7. Sorted(h)
  <2> SUFFICES ASSUME NEW i \in DOMAIN h, NEW j \in DOMAIN h, i < j,
                      h[i].kind = "rec", h[j].kind = "rec"
               PROVE  h[i].seq < h[j].seq
    BY DEF Sorted
  <2>1. i \in DOMAIN f /\ f[i].kind = "rec" /\ h[i] = f[i]
    BY <1>4, <1>6
  <2>2. CASE j \in DOMAIN f
    BY <1>4, <2>1, <2>2 DEF Sorted
  <2>3. CASE j = Len(f) + 1
    BY <1>2, <1>4, <1>5, <2>1, <2>3
  <2> QED
    BY <1>6, <2>2, <2>3
<1>8. Clean(h)
  <2> SUFFICES ASSUME NEW i \in DOMAIN h, h[i].kind = "rec"
               PROVE  i \in Parsed(h)
    BY DEF Clean
  <2>1. CASE i \in DOMAIN f
    <3>1. i \in Parsed(f)
      BY <1>4, <2>1 DEF Clean
    <3>2. i > 1 => h[i - 1].kind = "nl"
      BY <1>4, <3>1 DEF Parsed
    <3>3. i < Len(f) => h[i + 1].kind = "nl"
      BY <1>4, <3>1 DEF Parsed
    <3>4. i # Len(f)
      <4>1. i = Len(f) => f[i].kind = "nl"
        BY <1>4, <2>1, LenProperties DEF EndsLine
      <4> QED
        BY <1>4, <2>1, <4>1
    <3> QED
      BY <1>4, <2>1, <3>2, <3>3, <3>4 DEF Parsed
  <2>2. CASE i = Len(f) + 1
    <3>1. i > 1 => h[i - 1].kind = "nl"
      <4>1. i > 1 => f # <<>> /\ i - 1 = Len(f) /\ i - 1 \in DOMAIN f
        BY <1>4, <2>2
      <4> QED
        BY <1>4, <4>1 DEF EndsLine
    <3>2. i + 1 = Len(f) + 2
      BY <1>4, <2>2
    <3> QED
      BY <1>2, <1>4, <2>2, <3>1, <3>2 DEF Parsed
  <2> QED
    BY <1>6, <2>1, <2>2
<1> QED
  BY <1>1, <1>3, <1>7, <1>8

\* Every step keeps journals in the order of their numbers.
LEMMA NextSorted ==
  ASSUME "postcommit" \notin Faults, MaxPowerLosses = 0, EngineInv, TypeOK', JournalInv,
         [Next]_vars, NEW s \in Shard, Fit(s), Recorded(s)
  PROVE  Recorded(s)'
<1> USE DEF EngineInv
<1>1. PICK w : w = Whole(s)'
  OBVIOUS
<1>2. /\ Whole(s) \in Seq(Unit) /\ jfile[s] \in Seq(Unit) /\ jbuf[s] \in Seq(Unit)
  BY WholeType
<1>3. SUFFICES /\ Sorted(w) /\ Clean(w)
               /\ Counting(s)' => \A e \in Loose(w) : e.seq <= nextSeq'[s]
  <2>1. Whole(s)' = w
    BY <1>1
  <2> QED
    BY <1>3, <2>1 DEF Recorded
<1>4. CASE JournalGrown(s)
  <2>1. PICK c \in Client, r \in Request, waits \in BOOLEAN, e \in Entry :
          Submit(c, r, waits) /\ s = ShardOf(r) /\ Submitted(s, e)
    BY <1>4 DEF JournalGrown
  <2>2. /\ phase = "up" /\ nextSeq'[s] = nextSeq[s] + 1 /\ e.seq = nextSeq[s] + 1
        /\ w = Whole(s) \o <<Record(e.seq, e.req), Mark("nl")>>
    BY <1>1, <2>1 DEF Submit, Submitted, TypeOK
  <2>3. EndsLine(Whole(s)) /\ Counting(s) /\ nextSeq[s] \in Nat
    BY <2>2 DEF JournalInv, Tails, Counting, TypeOK
  <2>4. \A u \in Loose(Whole(s)) : u.seq \in Nat /\ u.seq <= nextSeq[s]
    BY <1>2, <2>3, LooseType DEF Recorded
  <2>5. Sorted(w) /\ Clean(w)
    BY <1>2, <2>2, <2>3, <2>4, AppendSorted DEF Recorded
  <2>6. Loose(w) \subseteq Loose(Whole(s)) \cup {e}
    <3>1. /\ <<Record(e.seq, e.req), Mark("nl")>> \in Seq(Unit)
          /\ Loose(<<Record(e.seq, e.req), Mark("nl")>>) = {e}
      BY <1>2, <2>3, JournalAppend
    <3> QED
      BY <1>2, <2>2, <3>1, JournalConcat
  <2>7. nextSeq[s] <= nextSeq'[s] /\ e.seq <= nextSeq'[s]
    BY <2>2, <2>3
  <2>8. \A u \in Loose(w) : u.seq <= nextSeq'[s]
    BY <2>2, <2>3, <2>4, <2>6, <2>7
  <2> QED
    BY <2>5, <2>8
<1>5. CASE JournalCut(s)
  <2>1. w = jfile[s] /\ ~ Counting(s)'
    BY <1>1, <1>5 DEF JournalCut, LoseMemory, Counting
  <2> QED
    BY <1>2, <2>1, PrefixSorted DEF Recorded, Whole
<1>6. CASE JournalErased(s)
  <2>1. w = <<>>
    BY <1>1, <1>6 DEF JournalErased
  <2> QED
    BY <2>1 DEF Sorted, Clean, Loose
<1>7. CASE JournalKept(s)
  <2>1. w = Whole(s)
    BY <1>1, <1>7 DEF JournalKept
  <2>2. CASE ~ Counting(s)'
    BY <2>1, <2>2 DEF Recorded
  <2>3. CASE Counting(s) /\ Counting(s)'
    <3>1. \A u \in Loose(w) : u.seq \in Nat /\ u.seq <= nextSeq[s]
      BY <1>2, <2>1, <2>3, LooseType DEF Recorded
    <3>2. nextSeq[s] \in Nat /\ nextSeq'[s] \in Nat
      BY DEF TypeOK
    <3>3. nextSeq'[s] >= nextSeq[s]
      <4>1. ASSUME NEW c \in Client, NEW r \in Request, NEW waits \in BOOLEAN, Submit(c, r, waits)
            PROVE  nextSeq'[s] >= nextSeq[s]
        <5>1. nextSeq'[s] = nextSeq[s] \/ nextSeq'[s] = nextSeq[s] + 1
          BY <4>1 DEF Submit, TypeOK
        <5> QED
          BY <3>2, <5>1
      <4>2. ASSUME NEW c \in Client, WaitReturn(c)
            PROVE  nextSeq'[s] = nextSeq[s]
        BY <4>2 DEF WaitReturn, queueVars
      <4>3. ASSUME NEW k \in Shard, Drain(k)
            PROVE  nextSeq'[s] = nextSeq[s]
        BY <4>3, DrainFrame
      <4>4. ASSUME NEW k \in Shard, ReplayShard(k)
            PROVE  nextSeq'[s] = nextSeq[s]
        BY <2>3, <4>4 DEF ReplayShard, Counting, TypeOK
      <4>5. ~ Ends
        BY <2>3 DEF Ends, LoseMemory, Counting
      <4>6. Quiet => nextSeq'[s] = nextSeq[s]
        BY DEF Quiet
      <4> QED
        BY <3>2, <4>1, <4>2, <4>3, <4>4, <4>5, <4>6, Kinds
    <3> QED
      BY <2>1, <3>1, <3>2, <3>3 DEF Recorded
  <2>4. CASE ~ Counting(s) /\ Counting(s)'
    <3>1. ReplayShard(s)
      <4>1. phase = "replay" /\ s \in unreplayed
        BY <2>4, CountingStarts DEF Replays
      <4>2. phase' # "down" /\ ~ (phase' = "replay" /\ s \in unreplayed')
        BY <2>4 DEF Counting
      <4>3. ~ Ends
        BY <4>2 DEF Ends, LoseMemory
      <4>4. ~ Quiet
        BY <4>1, <4>2 DEF Quiet
      <4>5. \A k \in Shard : ~ Drain(k)
        BY <2>4, CountingWorks
      <4>6. \A c \in Client : ~ WaitReturn(c)
        BY <4>1, <4>2 DEF WaitReturn
      <4>7. \A k \in Shard : ReplayShard(k) => k = s
        BY <4>1, <4>2 DEF ReplayShard
      <4>8. \A c \in Client, r \in Request, waits \in BOOLEAN : ~ Submit(c, r, waits)
        BY <4>1 DEF Submit
      <4> QED
        BY <4>3, <4>4, <4>5, <4>6, <4>7, <4>8, Kinds
    <3>2. Whole(s) = jfile[s] /\ \A e \in Records(jfile[s]) : e.seq <= nextSeq'[s]
      BY <3>1, ReplayNumbers
    <3>3. Loose(Whole(s)) \subseteq Records(Whole(s))
      BY DEF Recorded, Clean, Loose, Records
    <3> QED
      BY <2>1, <3>2, <3>3 DEF Recorded
  <2> QED
    BY <2>2, <2>3, <2>4
<1>8. ~ JournalTorn(s)
  BY DEF JournalTorn, PowerLoss, TypeOK
<1> QED
  BY <1>4, <1>5, <1>6, <1>7, <1>8, JournalStep

-----------------------------------------------------------------------------
(* What is pending, as a set of entries per shard.                         *)

\* What shard s owes an outcome: what a replay would find, until there has been
\* one; then its line.
Waiting(s) ==
  IF phase \in {"down", "replay"}
  THEN {e \in Records(jfile[s]) : e.seq > Ckpt(s)}
  ELSE LineOf(s)

Tag(s, e) == [lane |-> s, seq |-> e.seq, req |-> e.req]

\* The set P has the entries of W, each with its shard.
Shows(P, W) ==
  /\ \A s \in Shard : \A e \in W[s] : Tag(s, e) \in P
  /\ \A b \in P : \E s \in Shard : \E e \in W[s] : b = Tag(s, e)

\* PendingBar is what waits, with numbers that WriteBus has.
BarInv ==
  /\ \A s \in Shard : \A e \in Waiting(s) :
       e \in Entry /\ e.seq \in 1 .. Cardinality(Request)
  /\ Shows(PendingBar, [s \in Shard |-> Waiting(s)])

\* An entry of a shard has one tag.
LEMMA TagOnce ==
  ASSUME NEW s, NEW k, NEW e \in Entry, NEW f \in Entry
  PROVE  /\ Tag(s, e).lane = s /\ Tag(s, e).seq = e.seq /\ Tag(s, e).req = e.req
         /\ Tag(s, e) = Tag(k, f) => s = k /\ e = f
<1>1. /\ Tag(s, e).lane = s /\ Tag(s, e).seq = e.seq /\ Tag(s, e).req = e.req
      /\ Tag(k, f).lane = k /\ Tag(k, f).seq = f.seq /\ Tag(k, f).req = f.req
  BY DEF Tag
<1>2. e.seq = f.seq /\ e.req = f.req => e = f
  BY DEF Entry
<1> QED
  BY <1>1, <1>2

\* The pending writes are those waiting, where no transaction fails after its
\* commit: what is in line is above the checkpoint then.
LEMMA BarShows ==
  ASSUME "postcommit" \notin Faults, EngineInv
  PROVE  Shows(PendingBar, [s \in Shard |-> Waiting(s)])
<1> USE DEF EngineInv
<1>1. CASE phase \in {"down", "replay"}
  <2>1. PendingBar = UNION {JournalPending(s) : s \in Shard}
    BY <1>1 DEF PendingBar
  <2>2. ASSUME NEW s \in Shard, NEW e \in Waiting(s)
        PROVE  Tag(s, e) \in JournalPending(s)
    <3>1. PICK i \in Parsed(jfile[s]) : e = EntryOf(jfile[s][i]) /\ e.seq > Ckpt(s)
      BY <1>1, <2>2 DEF Waiting, Records
    <3>2. e.seq = jfile[s][i].seq /\ e.req = jfile[s][i].req
      BY <3>1 DEF EntryOf
    <3> QED
      BY <3>1, <3>2 DEF JournalPending, Pending, Tag
  <2>3. ASSUME NEW s \in Shard, NEW b \in JournalPending(s)
        PROVE  \E e \in Waiting(s) : b = Tag(s, e)
    <3>1. PICK i \in Pending(s) : b = [lane |-> s, seq |-> jfile[s][i].seq, req |-> jfile[s][i].req]
      BY <2>3 DEF JournalPending
    <3>2. EntryOf(jfile[s][i]) \in Waiting(s)
      BY <1>1, <3>1 DEF Waiting, Records, EntryOf, Pending
    <3>3. b = Tag(s, EntryOf(jfile[s][i]))
      BY <3>1 DEF Tag, EntryOf
    <3> QED
      BY <3>2, <3>3
  <2> QED
    BY <2>1, <2>2, <2>3 DEF Shows
<1>2. CASE phase \notin {"down", "replay"}
  <2>1. PendingBar = UNION {QueuePending(s) : s \in Shard}
    BY <1>2 DEF PendingBar
  <2>2. \A s \in Shard : Waiting(s) = LineOf(s)
    BY <1>2 DEF Waiting
  <2>3. ASSUME NEW s \in Shard
        PROVE  /\ LineOf(s) = Entries(work[s] \o buf[s])
               /\ \A e \in LineOf(s) : e.seq > Ckpt(s)
    <3>1. work[s] \in Seq(Entry) /\ buf[s] \in Seq(Entry)
      BY LineType
    <3>2. LineOf(s) = Entries(work[s] \o buf[s])
      BY <3>1, EntriesType DEF LineOf
    <3> QED
      BY <3>2 DEF AheadInv, AllAhead, AheadAt, LineOf
  <2>4. ASSUME NEW s \in Shard, NEW e \in LineOf(s)
        PROVE  Tag(s, e) \in QueuePending(s)
    <3>1. PICK q : q = work[s] \o buf[s]
      OBVIOUS
    <3>2. PICK i \in DOMAIN q : e = q[i] /\ q[i].seq > Ckpt(s)
      BY <2>3, <2>4, <3>1 DEF Entries
    <3> QED
      BY <3>1, <3>2 DEF QueuePending, Tag
  <2>5. ASSUME NEW s \in Shard, NEW b \in QueuePending(s)
        PROVE  \E e \in LineOf(s) : b = Tag(s, e)
    <3>1. PICK q : q = work[s] \o buf[s]
      OBVIOUS
    <3>2. PICK i \in DOMAIN q : b = [lane |-> s, seq |-> q[i].seq, req |-> q[i].req]
      BY <2>5, <3>1 DEF QueuePending
    <3>3. q[i] \in LineOf(s)
      BY <2>3, <3>1, <3>2 DEF Entries
    <3> QED
      BY <3>2, <3>3 DEF Tag
  <2> QED
    BY <2>1, <2>2, <2>4, <2>5 DEF Shows
<1> QED
  BY <1>1, <1>2

\* What waits is recorded, so its numbers are few.
LEMMA WaitingBounds ==
  ASSUME "postcommit" \notin Faults, BusInv, OnceInv, Bounded, NEW s \in Shard, NEW e \in Waiting(s)
  PROVE  e \in Entry /\ e.seq \in 1 .. Cardinality(Request)
<1> USE DEF BusInv, EngineInv
<1>1. /\ Whole(s) \in Seq(Unit) /\ jfile[s] \in Seq(Unit) /\ jbuf[s] \in Seq(Unit)
      /\ Fit(s) /\ Placed(s)
  BY WholeType DEF OnceInv
<1>2. e.seq > Ckpt(s) /\ e \in Loose(Whole(s))
  <2>1. CASE phase \in {"down", "replay"}
    <3>1. e \in Records(jfile[s]) /\ e.seq > Ckpt(s)
      BY <2>1 DEF Waiting
    <3> QED
      BY <1>1, <3>1, JournalConcat, PrefixSingle DEF Whole
  <2>2. CASE phase \notin {"down", "replay"}
    <3>1. e \in LineOf(s)
      BY <2>2 DEF Waiting
    <3>2. e.seq > Ckpt(s)
      BY <3>1 DEF AheadInv, AllAhead, AheadAt, LineOf
    <3>3. e \in Records(Whole(s))
      BY <3>1 DEF JournalInv, Journaled
    <3> QED
      BY <1>1, <3>2, <3>3, JournalConcat
  <2> QED
    BY <2>1, <2>2
<1>3. /\ e.seq \in Nat /\ Ckpt(s) \in Nat
      /\ e.seq <= Cardinality(accepted)
  BY <1>1, <1>2, LooseType, CkptType DEF Bounded, Few
<1>4. e \in Entry
  <2>1. e.req \in Request
    BY <1>1, <1>2 DEF Placed, Held, TypeOK
  <2>2. \E u : e = EntryOf(u)
    BY <1>2 DEF Loose
  <2> QED
    BY <1>3, <2>1, <2>2 DEF Entry, EntryOf
<1>5. Cardinality(accepted) <= Cardinality(Request) /\ Cardinality(Request) \in Nat
      /\ Cardinality(accepted) \in Nat
  <2>1. accepted \subseteq Request /\ IsFiniteSet(Request)
    BY DataAssumption DEF TypeOK
  <2> QED
    BY <2>1, FS_Subset, FS_CardinalityType
<1> QED
  BY <1>2, <1>3, <1>4, <1>5

-----------------------------------------------------------------------------
(* What a change of the entries that wait is in the eyes of the bus: P and *)
(* Q are pending, W and V waiting, before and after.                       *)

\* Nothing changes.
LEMMA ShowsSame ==
  ASSUME NEW P, NEW Q, NEW W, NEW V, Shows(P, W), Shows(Q, V), \A s \in Shard : V[s] = W[s]
  PROVE  Q = P
BY DEF Shows

\* An entry is added.
LEMMA ShowsMore ==
  ASSUME NEW P, NEW Q, NEW W, NEW V, Shows(P, W), Shows(Q, V),
         NEW l \in Shard, NEW e, V[l] = W[l] \cup {e}, \A s \in Shard \ {l} : V[s] = W[s]
  PROVE  Q = P \cup {Tag(l, e)}
<1>1. ASSUME NEW b \in Q PROVE b \in P \cup {Tag(l, e)}
  <2>1. PICK s \in Shard : \E f \in V[s] : b = Tag(s, f)
    BY <1>1 DEF Shows
  <2>2. PICK f \in V[s] : b = Tag(s, f)
    BY <2>1
  <2> QED
    BY <2>2 DEF Shows
<1>2. ASSUME NEW b \in P PROVE b \in Q
  <2>1. PICK s \in Shard : \E f \in W[s] : b = Tag(s, f)
    BY <1>2 DEF Shows
  <2>2. PICK f \in W[s] : b = Tag(s, f)
    BY <2>1
  <2>3. f \in V[s]
    BY <2>2
  <2> QED
    BY <2>2, <2>3 DEF Shows
<1>3. Tag(l, e) \in Q
  BY DEF Shows
<1> QED
  BY <1>1, <1>2, <1>3

\* The entries up to a number of one shard, as the bus selects them.
Oldest(P, l, n) == {b \in P : b.lane = l /\ b.seq <= n}

Less(P, Q, W, V, l, n) ==
  /\ W \in [Shard -> SUBSET Entry] /\ V \in [Shard -> SUBSET Entry]
  /\ Shows(P, W) /\ Shows(Q, V)
  /\ \A e \in V[l] : e \in W[l] /\ ~ (e.seq <= n)
  /\ \A e \in W[l] : ~ (e.seq <= n) => e \in V[l]
  /\ \A s \in Shard \ {l} : V[s] = W[s]

Gone(P, Q, W, l, n) ==
  /\ Q = P \ Oldest(P, l, n)
  /\ \A e \in W[l] : e.seq <= n => Tag(l, e) \in Oldest(P, l, n)
  /\ \A b \in Oldest(P, l, n) :
       \E e \in W[l] : b = Tag(l, e) /\ e.seq <= n /\ b.req = e.req

\* They are taken.
LEMMA ShowsLess ==
  ASSUME NEW P, NEW Q, NEW W, NEW V, NEW l \in Shard, NEW n, Less(P, Q, W, V, l, n)
  PROVE  Gone(P, Q, W, l, n)
<1> USE DEF Less
<1>1. \A s \in Shard : \A e \in W[s] : e \in Entry
  OBVIOUS
<1>2. \A e \in W[l] : e.seq <= n => Tag(l, e) \in Oldest(P, l, n)
  BY <1>1, TagOnce DEF Shows, Oldest
<1>3. ASSUME NEW b \in Oldest(P, l, n)
      PROVE  \E e \in W[l] : b = Tag(l, e) /\ e.seq <= n /\ b.req = e.req
  <2>1. PICK s \in Shard : \E e \in W[s] : b = Tag(s, e)
    BY <1>3 DEF Shows, Oldest
  <2>2. PICK e \in W[s] : b = Tag(s, e)
    BY <2>1
  <2>3. b.lane = s /\ b.seq = e.seq /\ b.req = e.req
    BY <1>1, <2>2, TagOnce
  <2> QED
    BY <1>3, <2>2, <2>3 DEF Oldest
<1>4. ASSUME NEW b \in Q PROVE b \in P \ Oldest(P, l, n)
  <2>1. PICK s \in Shard : \E f \in V[s] : b = Tag(s, f)
    BY <1>4 DEF Shows
  <2>2. PICK f \in V[s] : b = Tag(s, f)
    BY <2>1
  <2>3. f \in W[s] /\ (s = l => ~ (f.seq <= n))
    BY <2>2
  <2>4. b \in P /\ b.lane = s /\ b.seq = f.seq
    BY <1>1, <2>2, <2>3, TagOnce DEF Shows
  <2> QED
    BY <2>3, <2>4 DEF Oldest
<1>5. ASSUME NEW b \in P, b \notin Oldest(P, l, n) PROVE b \in Q
  <2>1. PICK s \in Shard : \E f \in W[s] : b = Tag(s, f)
    BY <1>5 DEF Shows
  <2>2. PICK f \in W[s] : b = Tag(s, f)
    BY <2>1
  <2>3. b.lane = s /\ b.seq = f.seq
    BY <1>1, <2>2, TagOnce
  <2>4. f \in V[s]
    BY <1>5, <2>2, <2>3 DEF Oldest
  <2> QED
    BY <2>2, <2>4 DEF Shows
<1> QED
  BY <1>2, <1>3, <1>4, <1>5 DEF Gone

\* Of every shard the newest entries are gone.
Cut(P, Q, W, V, n) ==
  /\ W \in [Shard -> SUBSET Entry] /\ V \in [Shard -> SUBSET Entry]
  /\ Shows(P, W) /\ Shows(Q, V)
  /\ \A s \in Shard : /\ \A e \in V[s] : e \in W[s] /\ e.seq <= n[s]
                      /\ \A e \in W[s] : e.seq <= n[s] => e \in V[s]

Rest(P, Q, n) == Q = {b \in P : b.seq <= n[b.lane]}

LEMMA ShowsCut ==
  ASSUME NEW P, NEW Q, NEW W, NEW V, NEW n, Cut(P, Q, W, V, n)
  PROVE  Rest(P, Q, n)
<1> USE DEF Cut
<1>1. \A s \in Shard : \A e \in W[s] : e \in Entry
  OBVIOUS
<1>2. ASSUME NEW b \in Q PROVE b \in P /\ b.seq <= n[b.lane]
  <2>1. PICK s \in Shard : \E f \in V[s] : b = Tag(s, f)
    BY <1>2 DEF Shows
  <2>2. PICK f \in V[s] : b = Tag(s, f)
    BY <2>1
  <2>3. f \in W[s] /\ f.seq <= n[s]
    BY <2>2
  <2>4. b \in P /\ b.lane = s /\ b.seq = f.seq
    BY <1>1, <2>2, <2>3, TagOnce DEF Shows
  <2> QED
    BY <2>3, <2>4
<1>3. ASSUME NEW b \in P, b.seq <= n[b.lane] PROVE b \in Q
  <2>1. PICK s \in Shard : \E f \in W[s] : b = Tag(s, f)
    BY <1>3 DEF Shows
  <2>2. PICK f \in W[s] : b = Tag(s, f)
    BY <2>1
  <2>3. b.lane = s /\ b.seq = f.seq
    BY <1>1, <2>2, TagOnce
  <2>4. f \in V[s]
    BY <1>3, <2>2, <2>3
  <2> QED
    BY <2>2, <2>4 DEF Shows
<1> QED
  BY <1>2, <1>3 DEF Rest

-----------------------------------------------------------------------------
(* Every step of the engine is a step of the bus.                          *)

\* What the invariants of the engine are, for this.
RefineInv ==
  /\ BusInv /\ SyncInv /\ OnceInv /\ Owing /\ RejectInv
  /\ Callers /\ Bounded /\ SortedInv /\ BarInv

\* What is pending and what waits, before and after a step.
LEMMA Bars ==
  ASSUME BarInv, BarInv'
  PROVE  \E W, V, P, Q :
           /\ W \in [Shard -> SUBSET Entry] /\ V \in [Shard -> SUBSET Entry]
           /\ P = PendingBar /\ Q = PendingBar'
           /\ \A k \in Shard : W[k] = Waiting(k) /\ V[k] = Waiting(k)'
           /\ Shows(P, W) /\ Shows(Q, V)
<1>1. PICK W : W = [k \in Shard |-> Waiting(k)]
  OBVIOUS
<1>2. PICK V : V = [k \in Shard |-> Waiting(k)']
  OBVIOUS
<1>3. PICK P : P = PendingBar
  OBVIOUS
<1>4. PICK Q : Q = PendingBar'
  OBVIOUS
<1>5. W \in [Shard -> SUBSET Entry] /\ V \in [Shard -> SUBSET Entry]
  BY <1>1, <1>2 DEF BarInv
<1>6. Shows(P, W)
  BY <1>1, <1>3 DEF BarInv
<1>7. Shows(Q, V)
  BY <1>2, <1>4 DEF BarInv, Shows
<1> QED
  BY <1>1, <1>2, <1>3, <1>4, <1>5, <1>6, <1>7

\* A step that leaves what waits and what is stored alone is none of the bus.
LEMMA NoBusStep ==
  ASSUME BarInv, BarInv', UNCHANGED <<accepted, told, db>>,
         \A s \in Shard : Waiting(s)' = Waiting(s)
  PROVE  UNCHANGED Bus!busVars
<1> DEFINE W == [s \in Shard |-> Waiting(s)]
           V == [s \in Shard |-> Waiting(s)']
<1>1. Shows(PendingBar, W) /\ Shows(PendingBar', V)
  BY DEF BarInv, Shows
<1>2. \A s \in Shard : V[s] = W[s]
  OBVIOUS
<1>3. PendingBar' = PendingBar
  BY <1>1, <1>2, ShowsSame
<1>4. StoredBar' = StoredBar
  BY DEF StoredBar
<1> QED
  BY <1>3, <1>4 DEF Bus!busVars

\* A submission joins one line.
LEMMA SubmitLines ==
  ASSUME TypeOK, NEW c \in Client, NEW r \in Request, NEW waits \in BOOLEAN,
         Submit(c, r, waits)
  PROVE  \E s \in Shard, e \in Entry :
           /\ s = ShardOf(r) /\ e.req = r /\ Submitted(s, e)
           /\ \A k \in Shard \ {s} : LineOf(k)' = LineOf(k)
<1>1. PICK s \in Shard, e \in Entry : s = ShardOf(r) /\ e.req = r /\ Submitted(s, e)
  BY SubmitOne
<1>2. \A k \in Shard \ {s} : work'[k] = work[k] /\ buf'[k] = buf[k]
  BY <1>1 DEF Submit, TypeOK, drainVars
<1>3. \A k \in Shard \ {s} : LineOf(k)' = LineOf(k)
  BY <1>2 DEF LineOf
<1> QED
  BY <1>1, <1>3

\* A submission is accepted, behind what is in line.
LEMMA SubmitAccepts ==
  ASSUME RefineInv, RefineInv',
         NEW c \in Client, NEW r \in Request, NEW waits \in BOOLEAN, Submit(c, r, waits)
  PROVE  Bus!Accept(r)
<1> DEFINE W == [s \in Shard |-> Waiting(s)]
           V == [s \in Shard |-> Waiting(s)']
<1>1. /\ TypeOK /\ LineInv /\ BarInv /\ BarInv'
  BY DEF RefineInv, BusInv, EngineInv
<1>2. /\ phase = "up" /\ phase' = "up" /\ db' = db
      /\ r \notin accepted /\ accepted' = accepted \cup {r} /\ told' = told
  BY <1>1, SubmitJournal DEF Submit
<1>3. PICK l \in Shard, e \in Entry :
        /\ l = ShardOf(r) /\ e.req = r /\ Submitted(l, e)
        /\ \A k \in Shard \ {l} : LineOf(k)' = LineOf(k)
  BY <1>1, SubmitLines
<1>4. /\ \A k \in Shard : Waiting(k) = LineOf(k) /\ Waiting(k)' = LineOf(k)'
      /\ LineOf(l)' = LineOf(l) \cup {e}
      /\ \A k \in Shard \ {l} : LineOf(k)' = LineOf(k)
  BY <1>2, <1>3 DEF Waiting, Submitted
<1>5. PendingBar' = PendingBar \cup {Tag(l, e)}
  <2>1. Shows(PendingBar, W) /\ Shows(PendingBar', V)
    BY <1>1 DEF BarInv, Shows
  <2>2. V[l] = W[l] \cup {e} /\ \A k \in Shard \ {l} : V[k] = W[k]
    BY <1>4
  <2> QED
    BY <2>1, <2>2, ShowsMore
<1>6. e.seq \in 0 .. Cardinality(Request)
  <2>1. e \in Waiting(l)'
    BY <1>4
  <2>2. e.seq \in 1 .. Cardinality(Request)
    BY <1>1, <2>1 DEF BarInv
  <2> QED
    BY <2>2
<1>7. ASSUME NEW b \in PendingBar, b.lane = ShardOf(r) PROVE b.seq < e.seq
  <2>1. PICK k \in Shard : \E f \in W[k] : b = Tag(k, f)
    BY <1>1 DEF BarInv, Shows
  <2>2. PICK f \in W[k] : b = Tag(k, f)
    BY <2>1
  <2>3. f \in LineOf(k) /\ f \in Entry
    BY <1>1, <1>4, <2>2 DEF BarInv
  <2>4. k = l /\ b.seq = f.seq
    BY <1>3, <1>7, <2>2, <2>3, TagOnce
  <2>5. f.seq <= nextSeq[l] /\ f.seq \in Nat /\ nextSeq[l] \in Nat
    BY <1>1, <2>3, <2>4 DEF LineInv, Line, Issued, LineOf, Entries, UpTo, TypeOK, Entry
  <2> QED
    BY <1>3, <2>4, <2>5 DEF Submitted
<1>8. Tag(l, e) = [lane |-> ShardOf(r), seq |-> e.seq, req |-> r]
  BY <1>3 DEF Tag
<1>9. StoredBar' = StoredBar
  BY <1>2 DEF StoredBar
<1> QED
  BY <1>2, <1>5, <1>6, <1>7, <1>8, <1>9 DEF Bus!Accept

\* What a caller is told is what became of its write.
LEMMA WaitAnswers ==
  ASSUME RefineInv, RefineInv', NEW c \in Client, WaitReturn(c)
  PROVE  \E r \in Request : Bus!Answer(r)
<1>1. /\ TypeOK /\ LineInv /\ BarInv /\ BarInv' /\ OnceInv /\ Owing /\ RejectInv /\ Callers
  BY DEF RefineInv, BusInv, EngineInv
<1>2. /\ cpc[c] # "idle" /\ phase = "up" /\ phase' = phase
      /\ UNCHANGED <<db, jfile, work, buf, accepted>>
  BY <1>1 DEF WaitReturn, Callers, queueVars, storeVars, drainVars
<1>3. PICK e \in Entry : e = ticket[c]
  BY <1>1, <1>2 DEF Owing
<1>4. PICK r \in Request : r = e.req
  BY DEF Entry
<1>5. PICK s \in Shard : s = ShardOf(r)
  BY RoutingType
<1>6. /\ r \in accepted /\ told[r] = "none"
      /\ Outcome(s, e) /\ Decided(s, e)
      /\ durable[s] >= e.seq
      /\ told' = [told EXCEPT ![r] = IF e.seq \in failures[s] THEN "failed" ELSE "durable"]
  BY <1>1, <1>2, <1>3, <1>4, <1>5 DEF Owing, RejectInv, Callers, WaitReturn
<1>7. e \notin LineOf(s)
  <2>1. durable[s] \in Nat /\ e.seq \in Nat
    BY <1>1 DEF TypeOK, Entry
  <2>2. \A f \in LineOf(s) : f.seq > durable[s]
    BY <1>1 DEF LineInv, Line, Unpublished, Above, LineOf, Entries
  <2> QED
    BY <1>6, <2>1, <2>2
<1>8. PendingBar' = PendingBar /\ StoredBar' = StoredBar
  BY <1>2 DEF PendingBar, StoredBar, JournalPending, QueuePending, Pending, Ckpt
<1>9. CASE e.seq \in failures[s]
  <2>1. Out(r)
    BY <1>4, <1>6, <1>7, <1>9 DEF Decided
  <2>2. r \notin StoredBar
    BY <1>5, <2>1 DEF StoredBar, Out, AppliedAt
  <2>3. \A b \in PendingBar : b.req # r
    <3> SUFFICES ASSUME NEW b \in PendingBar, b.req = r PROVE FALSE
      OBVIOUS
    <3>1. PICK k \in Shard : \E f \in Waiting(k) : b = Tag(k, f)
      BY <1>1 DEF BarInv, Shows
    <3>2. PICK f \in Waiting(k) : b = Tag(k, f)
      BY <3>1
    <3>3. f \in LineOf(k) /\ f.req = r
      BY <1>2, <3>2 DEF Waiting, Tag
    <3>4. k = ShardOf(r)
      BY <1>1, <3>3 DEF OnceInv, Placed, Held
    <3> QED
      BY <2>1, <3>3, <3>4 DEF Out, Settled
  <2> QED
    BY <1>2, <1>6, <1>8, <1>9, <2>2, <2>3 DEF Bus!Answer
<1>10. CASE e.seq \notin failures[s]
  <2>1. Secure(s, r)
    BY <1>4, <1>6, <1>7, <1>10 DEF Outcome
  <2>2. AppliedAt(s, r) > 0
    BY <1>2, <2>1 DEF Secure, Counting
  <2>3. AppliedAt(s, r) = 1
    <3>1. db[DomainOf(s)] \in survivors[DomainOf(s)] /\ DomainOf(s) \in Domain
      BY <1>1, RoutingType DEF OnceInv, Present
    <3> QED
      BY <1>1, <2>2, <3>1 DEF OnceInv, Counted, AppliedAt
  <2>4. r \in StoredBar
    BY <1>5, <2>3 DEF StoredBar, AppliedAt
  <2> QED
    BY <1>2, <1>6, <1>8, <1>10, <2>4 DEF Bus!Answer
<1> QED
  BY <1>9, <1>10

\* The requests a transaction of shard s adds are stored by it.
LEMMA CommitStores ==
  ASSUME TypeOK, OnceInv, OnceInv', NEW s \in Shard, NEW add \in [Request -> Nat], NEW n \in Nat,
         CommitTo(s, add, n), NEW R, \A r \in Request : add[r] > 0 <=> r \in R,
         \A r \in R : r \in Request /\ ShardOf(r) = s
  PROVE  StoredBar' = StoredBar \cup R
<1> SUFFICES ASSUME NEW r \in Request
             PROVE  AppliedAt(ShardOf(r), r)' = 1 <=> AppliedAt(ShardOf(r), r) = 1 \/ r \in R
  BY DEF StoredBar, AppliedAt
<1>1. PICK d \in Domain : d = DomainOf(ShardOf(r))
  BY RoutingType
<1>2. PICK y : y = db'[d]
  OBVIOUS
<1>3. db[d].applied[r] \in {0, 1}
  BY <1>1 DEF OnceInv, Present, Counted
<1>4. y.applied[r] \in {0, 1}
  <2>1. y \in survivors'[d]
    BY <1>2 DEF OnceInv, Present
  <2> QED
    BY <2>1 DEF OnceInv, Counted
<1>5. CASE d = DomainOf(s)
  <2>1. y.applied[r] = db[d].applied[r] + add[r]
    BY <1>2, <1>5, CommitExact DEF AppliedAt
  <2>2. add[r] \in Nat
    OBVIOUS
  <2> QED
    BY <1>1, <1>2, <1>3, <1>4, <2>1, <2>2 DEF AppliedAt
<1>6. CASE d # DomainOf(s)
  <2>1. y = db[d] /\ r \notin R
    BY <1>1, <1>2, <1>6 DEF CommitTo, TypeOK
  <2> QED
    BY <1>1, <1>2, <2>1 DEF AppliedAt
<1> QED
  BY <1>5, <1>6

\* What waits up to entry m of its shard is stored: the oldest are.
LEMMA TakenIsStored ==
  ASSUME BarInv, BarInv', UNCHANGED <<accepted, told>>, NEW s \in Shard, NEW m \in Waiting(s),
         Waiting(s)' = {e \in Waiting(s) : ~ (e.seq <= m.seq)},
         \A k \in Shard \ {s} : Waiting(k)' = Waiting(k),
         StoredBar' = StoredBar \cup {e.req : e \in {x \in Waiting(s) : x.seq <= m.seq}}
  PROVE  Bus!Next
<1>1. PICK W, V, P, Q :
        /\ W \in [Shard -> SUBSET Entry] /\ V \in [Shard -> SUBSET Entry]
        /\ P = PendingBar /\ Q = PendingBar'
        /\ \A k \in Shard : W[k] = Waiting(k) /\ V[k] = Waiting(k)'
        /\ Shows(P, W) /\ Shows(Q, V)
  BY Bars
<1>2. Less(P, Q, W, V, s, m.seq)
  BY <1>1 DEF Less
<1>3. PICK old : old = Oldest(P, s, m.seq)
  OBVIOUS
<1>4. /\ Q = P \ old
      /\ \A e \in W[s] : e.seq <= m.seq => Tag(s, e) \in old
      /\ \A b \in old : \E e \in W[s] : b = Tag(s, e) /\ e.seq <= m.seq /\ b.req = e.req
  <2>1. Gone(P, Q, W, s, m.seq)
    BY <1>2, ShowsLess
  <2> QED
    BY <1>3, <2>1 DEF Gone
<1>5. Bus!UpTo(s, m.seq) = old
  BY <1>1, <1>3 DEF Oldest, Bus!UpTo
<1>6. m.seq \in 0 .. Cardinality(Request) /\ m.seq <= m.seq
  BY DEF BarInv
<1>7. old # {}
  BY <1>1, <1>4, <1>6
<1>8. {b.req : b \in old} = {e.req : e \in {x \in Waiting(s) : x.seq <= m.seq}}
  <2>1. ASSUME NEW e \in Waiting(s), e.seq <= m.seq PROVE e.req \in {b.req : b \in old}
    <3>1. Tag(s, e) \in old /\ Tag(s, e).req = e.req
      BY <1>1, <1>4, <2>1 DEF Tag
    <3> QED
      BY <3>1
  <2>2. ASSUME NEW b \in old
        PROVE  b.req \in {e.req : e \in {x \in Waiting(s) : x.seq <= m.seq}}
    <3>1. PICK e \in W[s] : b = Tag(s, e) /\ e.seq <= m.seq /\ b.req = e.req
      BY <1>4, <2>2
    <3> QED
      BY <1>1, <3>1
  <2> QED
    BY <2>1, <2>2
<1>9. Bus!Store(s, m.seq)
  BY <1>1, <1>4, <1>5, <1>7, <1>8 DEF Bus!Store
<1> QED
  BY <1>6, <1>9 DEF Bus!Next

\* The oldest entry of its shard waits no more, and nothing is stored: it is
\* refused.
LEMMA TakenIsRefused ==
  ASSUME BarInv, BarInv', UNCHANGED <<accepted, told>>, NEW s \in Shard, NEW m \in Waiting(s),
         \A e \in Waiting(s) : e.seq <= m.seq <=> e = m,
         Waiting(s)' = Waiting(s) \ {m},
         \A k \in Shard \ {s} : Waiting(k)' = Waiting(k),
         StoredBar' = StoredBar
  PROVE  Bus!Next
<1>1. PICK W, V, P, Q :
        /\ W \in [Shard -> SUBSET Entry] /\ V \in [Shard -> SUBSET Entry]
        /\ P = PendingBar /\ Q = PendingBar'
        /\ \A k \in Shard : W[k] = Waiting(k) /\ V[k] = Waiting(k)'
        /\ Shows(P, W) /\ Shows(Q, V)
  BY Bars
<1>2. Less(P, Q, W, V, s, m.seq)
  BY <1>1 DEF Less
<1>3. PICK old : old = Oldest(P, s, m.seq)
  OBVIOUS
<1>4. /\ Q = P \ old
      /\ \A e \in W[s] : e.seq <= m.seq => Tag(s, e) \in old
      /\ \A b \in old : \E e \in W[s] : b = Tag(s, e) /\ e.seq <= m.seq /\ b.req = e.req
  <2>1. Gone(P, Q, W, s, m.seq)
    BY <1>2, ShowsLess
  <2> QED
    BY <1>3, <2>1 DEF Gone
<1>5. PICK b : b = Tag(s, m)
  OBVIOUS
<1>6. old = {b}
  BY <1>1, <1>4, <1>5
<1>7. Bus!UpTo(b.lane, b.seq) = old
  BY <1>1, <1>3, <1>5 DEF Oldest, Bus!UpTo, Tag
<1>8. b \in PendingBar /\ Bus!Refuse(b)
  BY <1>1, <1>3, <1>4, <1>6, <1>7 DEF Bus!Refuse, Oldest
<1> QED
  BY <1>8 DEF Bus!Next

\* A batch counts the requests of the positions it takes, and no others.
LEMMA CopiesWhich ==
  ASSUME NEW q, NEW I, IsFiniteSet(I), NEW r \in Request
  PROVE  Copies(q, I)[r] > 0 <=> \E i \in I : q[i].req = r
<1>1. ASSUME NEW i \in I, q[i].req = r
      PROVE  Copies(q, I)[r] > 0
  BY <1>1, CopiesCount
<1>2. ASSUME \A i \in I : q[i].req # r
      PROVE  Copies(q, I)[r] = 0
  <2>1. {i \in I : q[i].req = r} = {}
    BY <1>2
  <2>2. Cardinality({}) = 0
    BY FS_EmptySet
  <2> QED
    BY <2>1, <2>2 DEF Copies
<1> QED
  BY <1>1, <1>2

\* Entries that a number splits.
LEMMA SplitAt ==
  ASSUME NEW A, NEW B, NEW n, \A e \in A : e.seq <= n, \A e \in B : ~ (e.seq <= n)
  PROVE  /\ B = {e \in A \cup B : ~ (e.seq <= n)}
         /\ A = {e \in A \cup B : e.seq <= n}
OBVIOUS

\* A transaction of shard s takes the entries T that wait, up to the number of
\* one of them, and leaves the entries L behind them.
Takes(s, T, L, m, add) ==
  /\ T \in SUBSET Entry /\ L \in SUBSET Entry /\ m \in T
  /\ Waiting(s) = T \cup L /\ Waiting(s)' = L
  /\ \A k \in Shard \ {s} : Waiting(k)' = Waiting(k)
  /\ T \subseteq Held(s)
  /\ \A e \in T : e.seq <= m.seq
  /\ \A e \in L : e.seq > m.seq
  /\ add \in [Request -> Nat] /\ CommitTo(s, add, m.seq)
  /\ \A r \in Request : add[r] > 0 <=> \E e \in T : e.req = r

\* They reach the store together.
LEMMA TakesStores ==
  ASSUME RefineInv, RefineInv', UNCHANGED <<accepted, told>>, NEW s \in Shard,
         NEW T, NEW L, NEW m, NEW add, Takes(s, T, L, m, add)
  PROVE  Bus!Next
<1> USE DEF Takes
<1>1. /\ TypeOK /\ OnceInv /\ OnceInv' /\ BarInv /\ BarInv' /\ Placed(s)
  BY DEF RefineInv, BusInv, EngineInv, OnceInv
<1>2. \A e \in T \cup L : e.seq \in Nat /\ e.req \in Request
  BY DEF Entry
<1>3. \A e \in L : ~ (e.seq <= m.seq)
  BY <1>2
<1>4. /\ L = {e \in Waiting(s) : ~ (e.seq <= m.seq)}
      /\ T = {e \in Waiting(s) : e.seq <= m.seq}
  BY <1>3, SplitAt
<1>5. PICK R : R = {e.req : e \in T}
  OBVIOUS
<1>6. \A r \in R : r \in Request /\ ShardOf(r) = s
  BY <1>1, <1>2, <1>5 DEF Placed
<1>7. \A r \in Request : add[r] > 0 <=> r \in R
  BY <1>5
<1>8. m.seq \in Nat
  BY <1>2
<1>9. StoredBar' = StoredBar \cup R
  BY <1>1, <1>6, <1>7, <1>8, CommitStores
<1>10. {x \in Waiting(s) : x.seq <= m.seq} = T
  BY <1>4
<1>11. StoredBar' = StoredBar \cup {e.req : e \in {x \in Waiting(s) : x.seq <= m.seq}}
  BY <1>5, <1>9, <1>10
<1>12. Waiting(s)' = {e \in Waiting(s) : ~ (e.seq <= m.seq)} /\ m \in Waiting(s)
  BY <1>4
<1> QED
  BY <1>1, <1>11, <1>12, TakenIsStored

\* Every step of a drain stores the oldest writes of its lane, refuses the
\* oldest, or is none of the bus.
LEMMA DrainIsBus ==
  ASSUME "postcommit" \notin Faults, RefineInv, RefineInv', NEW s \in Shard, Drain(s)
  PROVE  Bus!Next \/ UNCHANGED Bus!busVars
<1>1. /\ TypeOK /\ DrainHoldsWork /\ LineInv /\ OnceInv /\ OnceInv' /\ BarInv /\ BarInv'
  BY DEF RefineInv, BusInv, EngineInv
<1>2. phase \notin {"down", "replay"} /\ phase' = phase /\ UNCHANGED <<accepted, told>>
  <2>1. phase' = phase /\ UNCHANGED <<accepted, told>>
    BY DrainFrame DEF pastVars
  <2>2. Running \/ dpc[s] # "idle"
    BY DEF Drain, DrainSwap, DrainSync, DrainBatch, DrainBatchFails, Retry, RetryFails,
           Reject, Requeue, DrainPublish, DrainNotify
  <2> QED
    BY <1>1, <2>1, <2>2 DEF LineInv, Dormant, Running
<1>3. \A k \in Shard : Waiting(k) = LineOf(k) /\ Waiting(k)' = LineOf(k)'
  BY <1>2 DEF Waiting
<1>4. \A k \in Shard \ {s} : Waiting(k)' = Waiting(k)
  <2>1. \A k \in Shard \ {s} : work'[k] = work[k] /\ buf'[k] = buf[k]
    BY <1>1, DrainElsewhere
  <2> QED
    BY <1>3, <2>1 DEF LineOf
<1>5. /\ work[s] \in Seq(Entry) /\ buf[s] \in Seq(Entry)
      /\ Entries(work[s]) \subseteq Entry /\ Entries(buf[s]) \subseteq Entry
      /\ Entries(<<>>) = {}
      /\ Waiting(s) = Entries(work[s]) \cup Entries(buf[s])
  BY <1>1, <1>3, LineType, EntriesType DEF LineOf
<1>6. ASSUME db' = db, LineOf(s)' = LineOf(s)
      PROVE  UNCHANGED Bus!busVars
  BY <1>1, <1>2, <1>3, <1>4, <1>6, NoBusStep
<1>7. CASE DrainSwap(s)
  <2>1. work[s] = <<>>
    BY <1>1, <1>7 DEF DrainSwap, LineInv, Line, Ended
  <2>2. work'[s] = buf[s] /\ buf'[s] = <<>> /\ db' = db
    BY <1>1, <1>7 DEF DrainSwap, TypeOK, storeVars
  <2> QED
    BY <1>5, <1>6, <2>1, <2>2 DEF LineOf
<1>8. CASE \/ DrainSync(s) \/ DrainBatchFails(s) \/ RetryFails(s)
           \/ DrainPublish(s) \/ DrainNotify(s)
  <2>1. db' = db /\ work' = work /\ buf' = buf
    BY <1>8 DEF DrainSync, DrainBatchFails, RetryFails, DrainPublish, DrainNotify, Fault,
                storeVars, queueVars
  <2> QED
    BY <1>6, <2>1 DEF LineOf
<1>9. CASE Requeue(s)
  <2>1. work'[s] = <<>> /\ buf'[s] = work[s] \o buf[s] /\ db' = db
    BY <1>1, <1>9 DEF Requeue, TypeOK, storeVars
  <2>2. Entries(work[s] \o buf[s]) = Entries(work[s]) \cup Entries(buf[s])
    BY <1>5, EntriesType
  <2> QED
    BY <1>5, <1>6, <2>1, <2>2 DEF LineOf
<1>10. CASE DrainBatch(s)
  <2>1. /\ dpc[s] = "batch" /\ work'[s] = <<>> /\ buf'[s] = buf[s]
        /\ CommitTo(s, Copies(work[s], DOMAIN work[s]), work[s][Len(work[s])].seq)
    BY <1>1, <1>10 DEF DrainBatch, TypeOK, queueVars
  <2>2. /\ work[s] # <<>> /\ Increasing(work[s])
        /\ Above(buf[s], work[s][Len(work[s])].seq)
    BY <1>1, <2>1, BatchType
  <2>3. PICK m : m = work[s][Len(work[s])]
    OBVIOUS
  <2>4. /\ m \in Entries(work[s])
        /\ \A e \in Entries(work[s]) : e.seq <= m.seq
    BY <1>5, <2>2, <2>3, LastLine DEF UpTo, Entries
  <2>5. \A e \in Entries(buf[s]) : e.seq > m.seq
    BY <1>5, <2>2, <2>3, EntriesType
  <2>6. PICK add \in [Request -> Nat] : add = Copies(work[s], DOMAIN work[s])
    BY <1>1, <2>2, WorkType
  <2>7. CommitTo(s, add, m.seq)
    BY <2>1, <2>3, <2>6
  <2>8. \A r \in Request : add[r] > 0 <=> \E e \in Entries(work[s]) : e.req = r
    <3>1. IsFiniteSet(DOMAIN work[s])
      BY <1>5, PositionsFinite
    <3> QED
      BY <2>6, <3>1, CopiesWhich DEF Entries
  <2>9. Waiting(s)' = Entries(buf[s])
    BY <1>3, <1>5, <2>1 DEF LineOf
  <2>10. Entries(work[s]) \subseteq Held(s)
    BY DEF Held, LineOf
  <2>11. Takes(s, Entries(work[s]), Entries(buf[s]), m, add)
    BY <1>4, <1>5, <2>4, <2>5, <2>6, <2>7, <2>8, <2>9, <2>10 DEF Takes
  <2> QED
    BY <1>2, <2>11, TakesStores
<1>11. CASE Retry(s)
  <2>1. /\ dpc[s] = "retry" /\ work'[s] = Tail(work[s]) /\ buf'[s] = buf[s]
        /\ CommitTo(s, Copies(work[s], {1}), Head(work[s]).seq)
    BY <1>1, <1>11 DEF Retry, TypeOK, queueVars
  <2>2. PICK m : m = Head(work[s])
    OBVIOUS
  <2>3. PICK L : L = Entries(Tail(work[s])) \cup Entries(buf[s])
    OBVIOUS
  <2>4. /\ m \in Entry /\ m = work[s][1] /\ work[s] # <<>>
        /\ L \in SUBSET Entry /\ Waiting(s) = {m} \cup L
        /\ \A e \in L : e.seq > m.seq
    <3>1. /\ work[s] # <<>> /\ m = work[s][1] /\ Above(buf[s], m.seq)
          /\ Above(Tail(work[s]), m.seq)
      BY <1>1, <2>1, <2>2, BatchType
    <3>2. Tail(work[s]) \in Seq(Entry)
      BY <1>1, <3>1, WorkType
    <3>3. Entries(work[s]) = {m} \cup Entries(Tail(work[s]))
      BY <1>5, <2>2, <3>1, EntriesType
    <3>4. /\ \A e \in Entries(Tail(work[s])) : e.seq > m.seq
          /\ \A e \in Entries(buf[s]) : e.seq > m.seq
          /\ Entries(Tail(work[s])) \subseteq Entry
      BY <1>5, <3>1, <3>2, EntriesType
    <3> QED
      BY <1>5, <2>3, <3>1, <3>3, <3>4
  <2>5. PICK add \in [Request -> Nat] : add = Copies(work[s], {1})
    BY <1>1, <2>4, WorkType
  <2>6. CommitTo(s, add, m.seq)
    BY <2>1, <2>2, <2>5
  <2>7. \A r \in Request : add[r] > 0 <=> \E e \in {m} : e.req = r
    <3>1. IsFiniteSet({1})
      BY FS_Singleton
    <3>2. \A r \in Request : add[r] > 0 <=> work[s][1].req = r
      BY <2>5, <3>1, CopiesWhich
    <3> QED
      BY <2>4, <3>2
  <2>8. Waiting(s)' = L
    BY <1>3, <2>1, <2>3 DEF LineOf
  <2>9. {m} \subseteq Held(s)
    BY <1>3, <2>4 DEF Held
  <2>10. \A e \in {m} : e.seq <= m.seq
    BY <2>4 DEF Entry
  <2>11. Takes(s, {m}, L, m, add)
    BY <1>4, <2>4, <2>5, <2>6, <2>7, <2>8, <2>9, <2>10 DEF Takes
  <2> QED
    BY <1>2, <2>11, TakesStores
<1>12. CASE Reject(s)
  <2>1. /\ dpc[s] = "mark" /\ work'[s] = Tail(work[s]) /\ buf'[s] = buf[s]
        /\ CommitTo(s, Copies(work[s], {}), Head(work[s]).seq)
    BY <1>1, <1>12 DEF Reject, TypeOK, queueVars
  <2>2. PICK m : m = Head(work[s])
    OBVIOUS
  <2>3. PICK L : L = Entries(Tail(work[s])) \cup Entries(buf[s])
    OBVIOUS
  <2>4. /\ m \in Entry /\ work[s] # <<>>
        /\ L \in SUBSET Entry /\ Waiting(s) = {m} \cup L
        /\ \A e \in L : e.seq > m.seq
    <3>1. /\ work[s] # <<>> /\ m = work[s][1] /\ Above(buf[s], m.seq)
          /\ Above(Tail(work[s]), m.seq)
      BY <1>1, <2>1, <2>2, BatchType
    <3>2. Tail(work[s]) \in Seq(Entry)
      BY <1>1, <3>1, WorkType
    <3>3. Entries(work[s]) = {m} \cup Entries(Tail(work[s]))
      BY <1>5, <2>2, <3>1, EntriesType
    <3>4. /\ \A e \in Entries(Tail(work[s])) : e.seq > m.seq
          /\ \A e \in Entries(buf[s]) : e.seq > m.seq
          /\ Entries(Tail(work[s])) \subseteq Entry
      BY <1>5, <3>1, <3>2, EntriesType
    <3> QED
      BY <1>5, <2>3, <3>1, <3>3, <3>4
  <2>5. PICK add \in [Request -> Nat] : add = Copies(work[s], {})
    BY <1>1, <2>4, WorkType
  <2>6. CommitTo(s, add, m.seq) /\ m.seq \in Nat
    BY <2>1, <2>2, <2>4, <2>5 DEF Entry
  <2>7. \A r \in Request : add[r] > 0 <=> r \in {}
    BY <2>5, FS_EmptySet, CopiesWhich
  <2>8. StoredBar' = StoredBar
    <3>1. PICK R : R = {}
      OBVIOUS
    <3>2. StoredBar' = StoredBar \cup R
      BY <1>1, <2>6, <2>7, <3>1, CommitStores
    <3> QED
      BY <3>1, <3>2
  <2>9. \A e \in L : e.seq \in Nat
    BY <2>4 DEF Entry
  <2>10. \A e \in Waiting(s) : e.seq <= m.seq <=> e = m
    BY <2>4, <2>6, <2>9
  <2>11. m \notin L
    BY <2>4, <2>6
  <2>12. Waiting(s)' = Waiting(s) \ {m} /\ m \in Waiting(s)
    BY <1>3, <2>1, <2>3, <2>4, <2>11 DEF LineOf
  <2> QED
    BY <1>1, <1>2, <1>4, <2>8, <2>10, <2>12, TakenIsRefused
<1> QED
  BY <1>7, <1>8, <1>9, <1>10, <1>11, <1>12 DEF Drain

\* A replay stores what waits in the journal of its shard, if anything does.
LEMMA ReplayIsBus ==
  ASSUME RefineInv, RefineInv', NEW s \in Shard, ReplayShard(s)
  PROVE  Bus!Next \/ UNCHANGED Bus!busVars
<1>1. /\ TypeOK /\ CheckpointInv /\ BarInv /\ BarInv' /\ Fit(s)
  BY DEF RefineInv, BusInv, EngineInv, OnceInv
<1>2. /\ phase = "replay" /\ phase' = phase /\ UNCHANGED <<accepted, told, jfile>>
      /\ CommitPending(s)
  BY DEF ReplayShard, pastVars
<1>3. \A k \in Shard : /\ Waiting(k) = {e \in Records(jfile[k]) : e.seq > Ckpt(k)}
                       /\ Waiting(k)' = {e \in Records(jfile[k]) : e.seq > Ckpt(k)'}
  BY <1>2 DEF Waiting
<1>4. CASE Pending(s) = {}
  <2>1. db' = db
    BY <1>2, <1>4 DEF CommitPending, storeVars
  <2>2. \A k \in Shard : Waiting(k)' = Waiting(k)
    BY <1>3, <2>1 DEF Ckpt
  <2> QED
    BY <1>1, <1>2, <2>1, <2>2, NoBusStep
<1>5. CASE Pending(s) # {}
  <2>1. PICK f \in Seq(Unit) : f = jfile[s]
    BY <1>1 DEF TypeOK
  <2>2. PICK I : I = Pending(s)
    OBVIOUS
  <2>3. /\ I \in SUBSET (1 .. Len(f)) /\ I # {} /\ Ckpt(s) \in Nat
        /\ I = {i \in Parsed(f) : f[i].seq > Ckpt(s)}
        /\ DOMAIN f = 1 .. Len(f)
    BY <1>1, <1>5, <2>1, <2>2, ReplayType, LenProperties DEF Pending
  <2>4. PICK h : h = HighestSeq(f, I, 0)
    OBVIOUS
  <2>5. PICK add : add = Copies(f, I)
    OBVIOUS
  <2>6. CommitTo(s, add, h) /\ add \in [Request -> Nat]
    <3>1. CommitTo(s, add, h)
      BY <1>2, <1>5, <2>1, <2>2, <2>4, <2>5 DEF CommitPending
    <3>2. add \in [Request -> Nat]
      BY <1>1, <2>1, <2>2, <2>5, ReplayType
    <3> QED
      BY <3>1, <3>2
  <2>7. \A e : e \in Waiting(s) <=> \E i \in I : e = EntryOf(f[i])
    <3>1. \A i \in I : EntryOf(f[i]).seq = f[i].seq
      BY DEF EntryOf
    <3>2. \A i \in Parsed(f) : EntryOf(f[i]).seq = f[i].seq
      BY DEF EntryOf
    <3> QED
      BY <1>3, <2>1, <2>3, <3>1, <3>2 DEF Records
  <2>8. h \in Nat /\ \A i \in I : f[i].seq <= h
    BY <2>3, <2>4, HighestSeqType
  <2>9. PICK i \in I : f[i].seq = h
    <3>1. h \in {0} \cup {f[i].seq : i \in I}
      BY <2>3, <2>4, HighestSeqType
    <3>2. PICK j \in I : TRUE
      BY <2>3
    <3>3. f[j].seq > Ckpt(s) /\ f[j].seq <= h /\ f[j].seq \in Nat
      <4>1. f[j] \in Unit
        BY <2>3, <3>2, ElementOfSeq
      <4> QED
        BY <2>3, <2>8, <3>2, <4>1 DEF Unit
    <3>4. h # 0
      BY <2>3, <2>8, <3>3
    <3> QED
      BY <3>1, <3>4
  <2>10. PICK m : m = EntryOf(f[i])
    OBVIOUS
  <2>11. m.seq = h /\ m \in Waiting(s)
    BY <2>7, <2>9, <2>10 DEF EntryOf
  <2>12. \A e \in Waiting(s) : e \in Entry /\ e.seq <= h
    <3>1. \A j \in I : EntryOf(f[j]).seq <= h
      BY <2>8 DEF EntryOf
    <3> QED
      BY <1>1, <2>7, <3>1 DEF BarInv
  <2>13. /\ Waiting(s)' = {}
         /\ \A k \in Shard \ {s} : Waiting(k)' = Waiting(k)
    <3>1. Ckpt(s)' = Larger(Ckpt(s), h) /\ \A k \in Shard \ {s} : Ckpt(k)' = Ckpt(k)
      BY <1>1, <2>6, <2>8, CommitExact
    <3>2. PICK c : c = Ckpt(s)'
      OBVIOUS
    <3>3. c >= Ckpt(s) /\ c >= h /\ c \in Nat
      BY <2>3, <2>8, <3>1, <3>2, LargerType
    <3>4. \A e \in Records(f) : ~ (e.seq > c)
      <4> SUFFICES ASSUME NEW e \in Records(f), e.seq > c PROVE FALSE
        OBVIOUS
      <4>1. e.seq \in Nat
        BY <2>1, JournalConcat, LooseType
      <4>2. e.seq > Ckpt(s) /\ e \in Waiting(s)
        BY <1>3, <2>1, <2>3, <3>3, <4>1
      <4>3. e.seq <= h
        BY <2>12, <4>2
      <4> QED
        BY <2>8, <3>3, <4>1, <4>3
    <3>5. Waiting(s)' = {}
      BY <1>3, <2>1, <3>2, <3>4
    <3>6. ASSUME NEW k \in Shard \ {s}
          PROVE  Waiting(k)' = Waiting(k)
      <4>1. PICK n : n = Ckpt(k)
        OBVIOUS
      <4>2. Ckpt(k)' = n
        BY <3>1, <4>1
      <4>3. Waiting(k) = {e \in Records(jfile[k]) : e.seq > n}
        BY <1>3, <4>1
      <4>4. Waiting(k)' = {e \in Records(jfile[k]) : e.seq > n}
        BY <1>3, <4>2
      <4> QED
        BY <4>3, <4>4
    <3> QED
      BY <3>5, <3>6
  <2>14. Waiting(s) \subseteq Held(s)
    <3>1. jfile[s] \in Seq(Unit) /\ jbuf[s] \in Seq(Unit)
      BY <1>1 DEF TypeOK
    <3>2. Records(jfile[s]) \subseteq Loose(Whole(s))
      BY <3>1, JournalConcat, PrefixSingle DEF Whole
    <3> QED
      BY <1>3, <3>2 DEF Held
  <2>15. \A r \in Request : add[r] > 0 <=> \E e \in Waiting(s) : e.req = r
    <3>1. IsFiniteSet(I)
      <4>1. Len(f) \in Int /\ 1 \in Int
        BY <2>1, LenProperties
      <4>2. IsFiniteSet(1 .. Len(f))
        BY <4>1, FS_Interval
      <4> QED
        BY <2>3, <4>2, FS_Subset
    <3>2. \A r \in Request : add[r] > 0 <=> \E j \in I : f[j].req = r
      BY <2>5, <3>1, CopiesWhich
    <3>3. \A j \in I : EntryOf(f[j]).req = f[j].req
      BY DEF EntryOf
    <3> QED
      BY <2>7, <3>2, <3>3
  <2>16. Takes(s, Waiting(s), {}, m, add)
    <3>1. Waiting(s) = Waiting(s) \cup {}
      OBVIOUS
    <3>2. CommitTo(s, add, m.seq)
      BY <2>6, <2>11
    <3> QED
      BY <2>6, <2>11, <2>12, <2>13, <2>14, <2>15, <3>1, <3>2 DEF Takes
  <2> QED
    BY <1>2, <2>16, TakesStores
<1> QED
  BY <1>4, <1>5

\* The steps of maintenance, backups, start and shutdown, and those of a waiting
\* caller: what waits stays as it is.
LEMMA QuietIsNone ==
  ASSUME RefineInv, RefineInv', Quiet
  PROVE  UNCHANGED Bus!busVars
<1>1. /\ TypeOK /\ LineInv /\ OwedInv /\ BarInv /\ BarInv'
  BY DEF RefineInv, BusInv, EngineInv
<1>2. /\ UNCHANGED <<db, work, buf, accepted, told>>
      /\ phase \in {"down", "replay"} => jfile' = jfile
  BY DEF Quiet
<1>3. SUFFICES ASSUME NEW s \in Shard PROVE Waiting(s)' = Waiting(s)
  BY <1>1, <1>2, NoBusStep
<1>4. LineOf(s)' = LineOf(s) /\ Ckpt(s)' = Ckpt(s)
  BY <1>2 DEF LineOf, Ckpt
<1>5. CASE phase \in {"down", "replay"} /\ phase' \in {"down", "replay"}
  BY <1>2, <1>4, <1>5 DEF Waiting
<1>6. CASE phase \notin {"down", "replay"} /\ phase' \notin {"down", "replay"}
  BY <1>4, <1>6 DEF Waiting
<1>7. CASE phase = "replay" /\ unreplayed = {} /\ phase' = "boot"
  <2>1. buf[s] = <<>> /\ work[s] = <<>>
    BY <1>1, <1>7 DEF LineInv, Dormant, Line, Ended
  <2>2. LineOf(s) = {}
    BY <2>1 DEF LineOf, Entries
  <2>3. \A e \in Records(jfile[s]) : ~ (e.seq > Ckpt(s))
    BY <1>1, <1>7, <2>2 DEF OwedInv, Owed, Counting
  <2> QED
    BY <1>4, <1>7, <2>2, <2>3 DEF Waiting
<1> QED
  BY <1>5, <1>6, <1>7 DEF Quiet

\* What is left of what waits in shard s, when the process ends: the entries up
\* to number n.
LeftTo(s, n) ==
  /\ Waiting(s)' \subseteq Waiting(s)
  /\ \A e \in Waiting(s)' : e.seq <= n
  /\ \A e \in Waiting(s) : e.seq <= n => e \in Waiting(s)'

\* The records of a journal in order, up to one of the records of its beginning,
\* are records of its beginning.
LEMMA SortedPrefix ==
  ASSUME NEW f \in Seq(Unit), NEW g \in Seq(Unit), Sorted(f \o g), Clean(f \o g),
         NEW e \in Records(f \o g), NEW u \in Records(f), e.seq <= u.seq
  PROVE  e \in Records(f)
<1>1. PICK w \in Seq(Unit) : w = f \o g
  BY ConcatUnits
<1>2. /\ Len(f) \in Nat /\ Len(g) \in Nat /\ DOMAIN f = 1 .. Len(f)
      /\ DOMAIN w = 1 .. Len(f) + Len(g)
      /\ \A i \in 1 .. Len(f) : w[i] = f[i]
  BY <1>1, ConcatUnits
<1>3. PICK i \in Parsed(w) : e = EntryOf(w[i])
  BY <1>1 DEF Records
<1>4. PICK j \in Parsed(f) : u = EntryOf(f[j])
  BY DEF Records
<1>5. /\ i \in DOMAIN w /\ w[i].kind = "rec" /\ j \in 1 .. Len(f) /\ f[j].kind = "rec"
      /\ Len(w) = Len(f) + Len(g)
  BY <1>1, <1>2, <1>3, <1>4, ConcatUnits DEF Parsed
<1>6. /\ j \in DOMAIN w /\ w[j] = f[j] /\ e.seq = w[i].seq /\ u.seq = w[j].seq
      /\ w[i].seq \in Nat /\ w[j].seq \in Nat
  <2>1. j \in DOMAIN w /\ w[j] = f[j] /\ e.seq = w[i].seq /\ u.seq = w[j].seq
    BY <1>2, <1>3, <1>4, <1>5 DEF EntryOf
  <2>2. w[i] \in Unit /\ w[j] \in Unit
    BY <1>2, <1>5, <2>1, ElementOfSeq
  <2> QED
    BY <2>1, <2>2 DEF Unit
<1>7. ~ (j < i)
  <2>1. j < i => w[j].seq < w[i].seq
    BY <1>1, <1>5, <1>6 DEF Sorted
  <2> QED
    BY <1>6, <2>1
<1>8. i \in 1 .. Len(f) /\ f[i] = w[i]
  BY <1>2, <1>5, <1>7
<1>9. Clean(f)
  BY PrefixSorted
<1>10. i \in Parsed(f)
  BY <1>2, <1>5, <1>8, <1>9 DEF Clean
<1> QED
  BY <1>3, <1>8, <1>10 DEF Records

\* Where the process ends, what waits in a shard is cut off behind a number.
LEMMA EndsLeaves ==
  ASSUME "postcommit" \notin Faults, RefineInv, RefineInv', Ends, NEW s \in Shard
  PROVE  \E n \in 0 .. Cardinality(Request) : LeftTo(s, n)
<1>1. /\ TypeOK /\ TypeOK' /\ LineInv /\ CheckpointInv /\ AheadInv /\ OwedInv /\ JournalInv
      /\ SortedInv /\ BarInv /\ BarInv'
  BY DEF RefineInv, BusInv, EngineInv
<1>2. phase' = "down" /\ db' = db /\ (jfile' = jfile \/ DropJournals)
  BY DEF Ends, LoseMemory
<1>3. PICK n : n = Ckpt(s)
  OBVIOUS
<1>4. Ckpt(s)' = n
  BY <1>2, <1>3 DEF Ckpt
<1>5. PICK f \in Seq(Unit) : f = jfile'[s]
  BY <1>1 DEF TypeOK
<1>6. Waiting(s)' = {e \in Records(f) : e.seq > n}
  BY <1>2, <1>4, <1>5 DEF Waiting
<1>7. /\ jfile[s] \in Seq(Unit) /\ jbuf[s] \in Seq(Unit)
      /\ f = jfile[s] \/ f = jfile[s] \o jbuf[s]
  <2>1. jfile[s] \in Seq(Unit) /\ jbuf[s] \in Seq(Unit)
    BY <1>1 DEF TypeOK
  <2>2. DropJournals => jfile'[s] = jfile[s] \o jbuf[s]
    BY DEF DropJournals
  <2> QED
    BY <1>2, <1>5, <2>1, <2>2
<1>8. Cardinality(Request) \in Nat
  BY DataAssumption, FS_CardinalityType
<1>9. \A e \in Waiting(s) : e.seq \in 1 .. Cardinality(Request)
  BY <1>1 DEF BarInv
<1>10. CASE phase \in {"down", "replay"}
  <2>1. f = jfile[s]
    <3>1. jbuf[s] = <<>>
      BY <1>1, <1>10 DEF CheckpointInv, BufferedOnlyUp
    <3> QED
      BY <1>7, <3>1, ConcatProperties
  <2>2. Waiting(s) = {e \in Records(f) : e.seq > n}
    BY <1>3, <1>10, <2>1 DEF Waiting
  <2>3. Waiting(s)' = Waiting(s)
    BY <1>6, <2>2
  <2>4. \A e \in Waiting(s) : e.seq <= Cardinality(Request)
    BY <1>8, <1>9
  <2>5. LeftTo(s, Cardinality(Request))
    BY <2>3, <2>4 DEF LeftTo
  <2> QED
    BY <1>8, <2>5
<1>11. CASE phase \notin {"down", "replay"}
  <2>1. Waiting(s) = LineOf(s) /\ Counting(s)
    BY <1>11 DEF Waiting, Counting
  <2>2. Waiting(s)' \subseteq Waiting(s)
    <3>1. Records(f) \subseteq Records(jfile[s]) \cup Loose(jbuf[s])
      BY <1>7, JournalConcat
    <3>2. \A e \in Records(jfile[s]) \cup Loose(jbuf[s]) : e.seq > n => e \in LineOf(s)
      BY <1>1, <1>3, <2>1 DEF OwedInv, Owed
    <3> QED
      BY <1>6, <2>1, <3>1, <3>2
  <2>3. PICK g \in Seq(Unit) : f \o g = Whole(s)
    <3>1. CASE f = jfile[s]
      BY <1>7, <3>1 DEF Whole
    <3>2. CASE f = jfile[s] \o jbuf[s]
      <4>1. <<>> \in Seq(Unit) /\ f \o <<>> = f
        BY ConcatProperties, EmptySeq
      <4> QED
        BY <3>2, <4>1 DEF Whole
    <3> QED
      BY <1>7, <3>1, <3>2
  <2>4. \A e \in Waiting(s), u \in Waiting(s)' : e.seq <= u.seq => e \in Waiting(s)'
    <3> SUFFICES ASSUME NEW e \in Waiting(s), NEW u \in Waiting(s)', e.seq <= u.seq
                 PROVE  e \in Waiting(s)'
      OBVIOUS
    <3>1. e \in Records(f \o g)
      BY <1>1, <2>1, <2>3 DEF JournalInv, Journaled
    <3>2. u \in Records(f)
      BY <1>6
    <3>3. Sorted(f \o g) /\ Clean(f \o g)
      BY <1>1, <2>3 DEF SortedInv, Recorded
    <3>4. e \in Records(f)
      BY <3>1, <3>2, <3>3, SortedPrefix
    <3>5. e.seq > n
      BY <1>1, <1>3, <2>1 DEF AheadInv, AllAhead, AheadAt, LineOf
    <3> QED
      BY <1>6, <3>4, <3>5
  <2>5. PICK I : I = {i \in Parsed(f) : f[i].seq > n}
    OBVIOUS
  <2>6. PICK h : h = HighestSeq(f, I, 0)
    OBVIOUS
  <2>7. I \in SUBSET (1 .. Len(f))
    BY <2>5 DEF Parsed
  <2>8. /\ h \in Nat /\ h \in {0} \cup {f[i].seq : i \in I}
        /\ \A i \in I : f[i].seq <= h
    BY <2>6, <2>7, HighestSeqType
  <2>9. \A e : e \in Waiting(s)' <=> \E i \in I : e = EntryOf(f[i])
    <3>1. \A i \in Parsed(f) : EntryOf(f[i]).seq = f[i].seq
      BY DEF EntryOf
    <3> QED
      BY <1>6, <2>5, <3>1 DEF Records
  <2>10. \A i \in I : EntryOf(f[i]).seq = f[i].seq
    BY DEF EntryOf
  <2>11. \A e \in Waiting(s)' : e.seq <= h
    BY <2>8, <2>9, <2>10
  <2>12. h = 0 \/ \E u \in Waiting(s)' : u.seq = h
    <3> SUFFICES ASSUME h # 0 PROVE \E u \in Waiting(s)' : u.seq = h
      OBVIOUS
    <3>1. PICK i \in I : h = f[i].seq
      BY <2>8
    <3>2. EntryOf(f[i]) \in Waiting(s)' /\ EntryOf(f[i]).seq = h
      BY <2>9, <2>10, <3>1
    <3> QED
      BY <3>2
  <2>13. h \in 0 .. Cardinality(Request)
    BY <1>8, <1>9, <2>2, <2>8, <2>12
  <2>14. \A e \in Waiting(s) : e.seq <= h => e \in Waiting(s)'
    <3>1. h = 0 => \A e \in Waiting(s) : ~ (e.seq <= h)
      BY <1>8, <1>9
    <3> QED
      BY <2>4, <2>12, <3>1
  <2>15. LeftTo(s, h)
    BY <2>2, <2>11, <2>14 DEF LeftTo
  <2> QED
    BY <2>13, <2>15
<1> QED
  BY <1>10, <1>11

\* So the end of a process is a crash of the bus.
LEMMA EndsIsCrash ==
  ASSUME "postcommit" \notin Faults, RefineInv, RefineInv', Ends
  PROVE  Bus!Next
<1>1. BarInv /\ BarInv'
  BY DEF RefineInv
<1>2. PICK W, V, P, Q :
        /\ W \in [Shard -> SUBSET Entry] /\ V \in [Shard -> SUBSET Entry]
        /\ P = PendingBar /\ Q = PendingBar'
        /\ \A k \in Shard : W[k] = Waiting(k) /\ V[k] = Waiting(k)'
        /\ Shows(P, W) /\ Shows(Q, V)
  BY <1>1, Bars
<1>3. PICK N : N = 0 .. Cardinality(Request)
  OBVIOUS
<1>4. \A s \in Shard : \E n \in N : /\ \A e \in V[s] : e \in W[s] /\ e.seq <= n
                                   /\ \A e \in W[s] : e.seq <= n => e \in V[s]
  <2> SUFFICES ASSUME NEW s \in Shard
               PROVE  \E n \in N : /\ \A e \in V[s] : e \in W[s] /\ e.seq <= n
                                  /\ \A e \in W[s] : e.seq <= n => e \in V[s]
    OBVIOUS
  <2>1. PICK n \in N : LeftTo(s, n)
    BY <1>3, EndsLeaves
  <2> QED
    BY <1>2, <2>1 DEF LeftTo
<1>5. \E n \in [Shard -> N] :
        \A s \in Shard : /\ \A e \in V[s] : e \in W[s] /\ e.seq <= n[s]
                        /\ \A e \in W[s] : e.seq <= n[s] => e \in V[s]
  <2> DEFINE Ok(s, n) == /\ \A e \in V[s] : e \in W[s] /\ e.seq <= n
                         /\ \A e \in W[s] : e.seq <= n => e \in V[s]
             pick == [s \in Shard |-> CHOOSE n \in N : Ok(s, n)]
  <2>1. \A s \in Shard : \E n \in N : Ok(s, n)
    BY <1>4
  <2> HIDE DEF Ok
  <2>2. \A s \in Shard : pick[s] \in N /\ Ok(s, pick[s])
    BY <2>1
  <2>3. pick \in [Shard -> N]
    BY <2>2
  <2> HIDE DEF pick
  <2> QED
    BY <2>2, <2>3 DEF Ok
<1>6. PICK n \in [Shard -> N] :
        \A s \in Shard : /\ \A e \in V[s] : e \in W[s] /\ e.seq <= n[s]
                        /\ \A e \in W[s] : e.seq <= n[s] => e \in V[s]
  BY <1>5
<1>7. Cut(P, Q, W, V, n)
  BY <1>2, <1>6 DEF Cut
<1>8. Rest(P, Q, n)
  BY <1>7, ShowsCut
<1>9. PendingBar' = {b \in PendingBar : b.seq <= n[b.lane]}
  BY <1>2, <1>8 DEF Rest
<1>10. StoredBar' = StoredBar /\ UNCHANGED <<accepted, told>>
  BY DEF Ends, StoredBar
<1>11. Bus!Crash
  BY <1>3, <1>9, <1>10 DEF Bus!Crash
<1> QED
  BY <1>11 DEF Bus!Next

\* Every step of the engine is a step of the bus, or none.
LEMMA StepIsBus ==
  ASSUME "postcommit" \notin Faults, MaxPowerLosses = 0, RefineInv, RefineInv', [Next]_vars
  PROVE  [Bus!Next]_(Bus!busVars)
<1>1. TypeOK /\ OwedInv
  BY DEF RefineInv, BusInv, EngineInv
<1>2. ASSUME NEW c \in Client, NEW r \in Request, NEW waits \in BOOLEAN, Submit(c, r, waits)
      PROVE  Bus!Next
  BY <1>2, SubmitAccepts DEF Bus!Next
<1>3. ASSUME NEW c \in Client, WaitReturn(c)
      PROVE  Bus!Next
  BY <1>3, WaitAnswers DEF Bus!Next
<1>4. ASSUME NEW s \in Shard, Drain(s) \/ ReplayShard(s)
      PROVE  Bus!Next \/ UNCHANGED Bus!busVars
  BY <1>4, DrainIsBus, ReplayIsBus
<1> QED
  BY <1>1, <1>2, <1>3, <1>4, EndsIsCrash, QuietIsNone, Kinds

\* A new engine is a new bus.
LEMMA InitIsBus == Init => Bus!Init
<1> SUFFICES ASSUME Init PROVE Bus!Init
  OBVIOUS
<1>1. phase = "down" /\ accepted = {} /\ told = [r \in Request |-> "none"]
  BY DEF Init
<1>2. \A s \in Shard : JournalPending(s) = {}
  BY DEF Init, JournalPending, Pending, Parsed
<1>3. PendingBar = {}
  BY <1>1, <1>2 DEF PendingBar
<1>4. StoredBar = {}
  <2>1. \A r \in Request : DomainOf(ShardOf(r)) \in Domain
    BY RoutingType
  <2> QED
    BY <2>1 DEF StoredBar, Init
<1> QED
  BY <1>1, <1>3, <1>4 DEF Bus!Init

\* Nobody waits for a new engine, and its journals are empty.
LEMMA InitRefine == Init => Callers /\ Bounded /\ SortedInv
<1> SUFFICES ASSUME Init PROVE Callers /\ Bounded /\ SortedInv
  OBVIOUS
<1>1. Callers
  BY DEF Init, Callers
<1>2. ASSUME NEW s \in Shard
      PROVE  nextSeq[s] = 0 /\ Ckpt(s) = 0 /\ Whole(s) = <<>>
  <2>1. jfile[s] = <<>> /\ jbuf[s] = <<>> /\ <<>> \o <<>> = <<>>
    BY <1>2 DEF Init
  <2>2. Ckpt(s) = 0
    BY <1>2, RoutingType DEF Init, Ckpt
  <2> QED
    BY <1>2, <2>1, <2>2 DEF Init, Whole
<1>3. Bounded
  <2>1. Cardinality(accepted) = 0
    BY FS_EmptySet DEF Init
  <2> QED
    BY <1>2, <2>1 DEF Bounded, Few, Loose
<1>4. SortedInv
  BY <1>2 DEF SortedInv, Recorded, Sorted, Clean, Loose
<1> QED
  BY <1>1, <1>3, <1>4

\* What is invariant makes what waits pending.
LEMMA RefineBar ==
  ASSUME "postcommit" \notin Faults, BusInv, OnceInv, Bounded
  PROVE  BarInv
<1>1. EngineInv
  BY DEF BusInv
<1> QED
  BY <1>1, BarShows, WaitingBounds DEF BarInv

\* The engine implements the bus: writes reach their store in the order of
\* their acceptance, each at most once, outcomes are final, and a crash costs
\* the newest writes of each shard only.  No machine may lose power, no
\* transaction fail after its commit, and either no write tears a line or the
\* pass of a start reclaims every journal.
THEOREM EngineIsBus ==
  ASSUME "postcommit" \notin Faults, WholeWrites \/ FullPasses, MaxPowerLosses = 0
  PROVE  Spec => ImplementsBus
<1>1. Spec => [](BusInv /\ SyncInv)
  BY SyncCorrect
<1>2. Spec => [](EngineInv /\ OnceInv)
  BY OnceCorrect
<1>3. Spec => [](Owing /\ ToldSafe)
  BY ToldCorrect
<1>4. Spec => []RejectInv
  BY RejectCorrect
<1> DEFINE Known == BusInv /\ SyncInv /\ OnceInv /\ Owing /\ RejectInv
           More == Callers /\ Bounded /\ SortedInv
<1>5. Init => More
  BY InitRefine
<1>6. Known /\ Known' /\ More /\ [Next]_vars => More'
  <2> SUFFICES ASSUME Known, Known', More, [Next]_vars PROVE More'
    OBVIOUS
  <2>1. TypeOK /\ TypeOK' /\ OwedInv /\ EngineInv /\ JournalInv /\ \A s \in Shard : Fit(s)
    BY DEF BusInv, EngineInv, SyncInv
  <2>2. Callers'
    BY <2>1, NextCallers
  <2>3. Bounded'
    BY <2>1, NextBounded
  <2>4. \A s \in Shard : Recorded(s)'
    BY <2>1, NextSorted DEF SortedInv
  <2> QED
    BY <2>2, <2>3, <2>4 DEF SortedInv
<1>7. Known /\ More => RefineInv
  BY RefineBar DEF RefineInv
<1>8. RefineInv /\ RefineInv' /\ [Next]_vars => [Bus!Next]_(Bus!busVars)
  BY StepIsBus
<1>9. Init => Bus!Init
  BY InitIsBus
<1> QED
  BY <1>1, <1>2, <1>3, <1>4, <1>5, <1>6, <1>7, <1>8, <1>9, PTL
     DEF Spec, ImplementsBus, Bus!Spec
=============================================================================
