--------------------------- MODULE ContextEngine ---------------------------
(***************************************************************************)
(* The write-behind bus of crates/openmemory-engine (engine.rs and         *)
(* journal.rs): sharded acceptance with backpressure, the buffered journal *)
(* of each shard, epoch drains that commit a whole shard as one SQLite     *)
(* transaction, the retry of a failed batch, the durability watermark and  *)
(* its condition variable, the maintenance pass that checkpoints the WAL   *)
(* and reclaims journals, the admission gate of backups, shutdown, process *)
(* crash, power loss, and replay at the next start.                        *)
(*                                                                         *)
(* Abstractions.  A request is a member of Request, submitted at most once *)
(* in a behaviour, so counting its copies in a store counts duplicates.    *)
(* Grouping by entity inside a drain merges request payloads and does not  *)
(* change which requests a transaction holds.  A journal file is the       *)
(* sequence of the writes made to it: a record, or the newline after it.   *)
(* Mirror edges in other domains and the search index are not modelled     *)
(* here.  Journal write and fsync errors, which the code ignores by        *)
(* design, do not happen.                                                  *)
(***************************************************************************)
EXTENDS Integers, Sequences, FiniteSets

CONSTANTS
  Request,        \* the writes the agents may submit
  NoReq,          \* the request field of a journal unit that is no record
  Hash,           \* Hash[r]: the hash of the entity name of request r
  Client,         \* the agent threads
  Snapshotter,    \* the threads that take backups through the pause gate
  NumShards,      \* EngineOptions.shards
  NumDomains,     \* the domain count of the store
  ShardCapacity,  \* EngineOptions.shard_capacity
  Faults,         \* the kinds of failure the environment may produce
  MaxFaults,      \* bound on failed store transactions and truncations
  MaxCrashes,     \* bound on process crashes
  MaxPowerLosses  \* bound on power losses

(***************************************************************************)
(* rollback   a store transaction fails and leaves nothing behind          *)
(* postcommit remember_batch commits, then fails to mark the index current *)
(* busy       a reader keeps a PASSIVE checkpoint from being complete      *)
(* ckpterror  the checkpoint pragma fails                                  *)
(* setlen     ftruncate of a journal fails                                 *)
(* midline    the journal buffer is written out between record and newline *)
(* torn       power loss leaves a prefix of a record at the end of a file  *)
(* mangled    the same, and the prefix ends inside a multi-byte character  *)
(***************************************************************************)
FaultKind == {"rollback", "postcommit", "busy", "ckpterror", "setlen",
              "midline", "torn", "mangled"}

Shard  == 0 .. NumShards - 1
Domain == 0 .. NumDomains - 1

ASSUME CountsAssumption ==
  /\ NumShards \in Nat \ {0}
  /\ NumDomains \in Nat \ {0}
  /\ ShardCapacity \in Nat \ {0}
  /\ MaxFaults \in Nat
  /\ MaxCrashes \in Nat
  /\ MaxPowerLosses \in Nat

\* start_partitioned refuses a shard count the domain count does not divide.
ASSUME ShardsAssumption == NumShards % NumDomains = 0

ASSUME DataAssumption ==
  /\ Hash \in [Request -> Nat]
  /\ NoReq \notin Request
  /\ Faults \subseteq FaultKind
  /\ IsFiniteSet(Request)

VARIABLES
  phase,      \* life of the engine: down, replay, boot, up, closing,
              \* joining, final
  unreplayed, \* shards whose journal the starting engine has still to replay
  buf,        \* ShardQueue.buf: accepted requests with their sequence numbers
  nextSeq,    \* ShardQueue.next_seq
  jbuf,       \* journal units still in the BufWriter of the process
  jfile,      \* journal units written to the file
  jsync,      \* how many of them an fsync has made safe from power loss
  db,         \* per domain, the committed store state the readers see
  survivors,  \* per domain, the store states a power loss may leave
  dpc,        \* where the drain of a shard is; it holds drain_lock off idle
  work,       \* requests of that drain without an outcome yet
  pub,        \* the sequence number the drain will publish (published_seq)
  durable,    \* the durability watermark
  failures,   \* sequence numbers with a terminal failure
  mpc,        \* where the maintenance pass is: idle, ckpt, truncate
  marks,      \* the watermarks it read before checkpointing
  mleft,      \* domains it has still to checkpoint, or shards to reclaim
  complete,   \* all_complete
  cpc,        \* agents: idle, waiting, checked (holds failures), parked
  ticket,     \* the request and receipt an agent waits on
  spc,        \* snapshotters: idle, draining, held
  smark,      \* the watermarks a snapshotter's quiesce waits for
  accepted,   \* history: requests a ticket was issued for
  told,       \* history: the outcome wait_durable_result reported
  faults, crashes, losses   \* environment events so far

queueVars == <<buf, nextSeq, jbuf>>
drainVars == <<dpc, work, pub>>
maintVars == <<mpc, marks, mleft, complete>>
storeVars == <<db, survivors>>
agentVars == <<cpc, ticket, spc, smark>>
pastVars  == <<accepted, told>>
envVars   == <<faults, crashes, losses>>
vars == <<phase, unreplayed, queueVars, jfile, jsync, storeVars, drainVars,
          durable, failures, maintVars, agentVars, pastVars, envVars>>

-----------------------------------------------------------------------------
(* Routing, store states and journals.                                     *)

ShardOf(r)  == Hash[r] % NumShards
DomainOf(s) == s % NumDomains

Entry  == [seq : Nat, req : Request]
Unit   == [kind : {"rec", "nl", "torn", "mangled"}, seq : Nat,
           req : Request \cup {NoReq}]
State  == [applied : [Request -> Nat], ckpt : [Shard -> Nat]]
NoTicket == [seq |-> 0, req |-> NoReq]

Record(seq, r) == [kind |-> "rec", seq |-> seq, req |-> r]
Mark(kind)     == [kind |-> kind, seq |-> 0, req |-> NoReq]

Larger(a, b) == IF a > b THEN a ELSE b
Ckpt(s) == db[DomainOf(s)].ckpt[s]

\* The units of file f that JournalRecord parsing accepts: a record alone on
\* its line.  A record that shares its line with anything does not parse.
Parsed(f) == {i \in 1 .. Len(f) :
                /\ f[i].kind = "rec"
                /\ i > 1 => f[i - 1].kind = "nl"
                /\ i < Len(f) => f[i + 1].kind = "nl"}

\* BufRead::lines fails on a line that is not UTF-8.
Readable(f) == \A i \in 1 .. Len(f) : f[i].kind # "mangled"

\* The largest sequence number at or above n among the units in I.
HighestSeq(f, I, n) ==
  CHOOSE m \in {n} \cup {f[i].seq : i \in I} :
    \A k \in {n} \cup {f[i].seq : i \in I} : k <= m

\* How often each request occurs at the positions I of q.
Copies(q, I) == [r \in Request |-> Cardinality({i \in I : q[i].req = r})]

\* Mutations of CommitTo: the batch commits without its checkpoint; an empty
\* batch returns early; the checkpoint is the queue's last number instead of
\* the batch's.
CommitToNoCheckpoint(s, add, n) ==
  LET d   == DomainOf(s)
      new == [db[d] EXCEPT !.applied = [r \in Request |-> @[r] + add[r]]]
  IN  /\ db' = [db EXCEPT ![d] = new]
      /\ survivors' = [survivors EXCEPT ![d] = @ \cup {new}]

CommitToAs(s, add, ckpt) ==
  LET d   == DomainOf(s)
      new == [applied |-> [r \in Request |-> db[d].applied[r] + add[r]],
              ckpt    |-> ckpt]
  IN  /\ db' = [db EXCEPT ![d] = new]
      /\ survivors' = [survivors EXCEPT ![d] = @ \cup {new}]

CommitToUnlessEmpty(s, add, n) ==
  IF \A r \in Request : add[r] = 0
  THEN UNCHANGED storeVars
  ELSE CommitToAs(s, add, [db[DomainOf(s)].ckpt EXCEPT ![s] = Larger(@, n)])

CommitToQueueEnd(s, add, n) ==
  CommitToAs(s, add, [db[DomainOf(s)].ckpt EXCEPT ![s] = Larger(n, nextSeq[s])])

\* One committed transaction of shard s: the requests counted by add and the
\* monotonic upsert of the shard's checkpoint to n.
CommitTo(s, add, n) ==
  LET d   == DomainOf(s)
      new == [applied |-> [r \in Request |-> db[d].applied[r] + add[r]],
              ckpt    |-> [db[d].ckpt EXCEPT ![s] = Larger(@, n)]]
  IN  /\ db' = [db EXCEPT ![d] = new]
      /\ survivors' = [survivors EXCEPT ![d] = @ \cup {new}]

\* A failure of the environment, of one of the given kinds.
Fault(kinds) ==
  /\ kinds \cap Faults # {}
  /\ faults < MaxFaults
  /\ faults' = faults + 1
  /\ UNCHANGED <<crashes, losses>>

\* Mutation: the gate is never seen closed.
PausedUnseen == FALSE

Paused == \E p \in Snapshotter : spc[p] # "idle"

\* Mutation: a waiter sleeps without giving up the mutex.
FailuresFreeUnlessParked(s) ==
  \A c \in Client :
    ~(cpc[c] \in {"checked", "parked"} /\ ShardOf(ticket[c].req) = s)

\* The mutex around the failure map of shard s is free.
FailuresFree(s) ==
  \A c \in Client : ~(cpc[c] = "checked" /\ ShardOf(ticket[c].req) = s)

-----------------------------------------------------------------------------
Init ==
  /\ phase = "down"
  /\ unreplayed = {}
  /\ buf = [s \in Shard |-> <<>>]
  /\ nextSeq = [s \in Shard |-> 0]
  /\ jbuf = [s \in Shard |-> <<>>]
  /\ jfile = [s \in Shard |-> <<>>]
  /\ jsync = [s \in Shard |-> 0]
  /\ db = [d \in Domain |-> [applied |-> [r \in Request |-> 0],
                             ckpt |-> [s \in Shard |-> 0]]]
  /\ survivors = [d \in Domain |-> {db[d]}]
  /\ dpc = [s \in Shard |-> "idle"]
  /\ work = [s \in Shard |-> <<>>]
  /\ pub = [s \in Shard |-> 0]
  /\ durable = [s \in Shard |-> 0]
  /\ failures = [s \in Shard |-> {}]
  /\ mpc = "idle"
  /\ marks = [s \in Shard |-> 0]
  /\ mleft = {}
  /\ complete = FALSE
  /\ cpc = [c \in Client |-> "idle"]
  /\ ticket = [c \in Client |-> NoTicket]
  /\ spc = [p \in Snapshotter |-> "idle"]
  /\ smark = [p \in Snapshotter |-> [s \in Shard |-> 0]]
  /\ accepted = {}
  /\ told = [r \in Request |-> "none"]
  /\ faults = 0 /\ crashes = 0 /\ losses = 0

-----------------------------------------------------------------------------
(* Acceptance.                                                             *)

\* try_submit: with room in the shard and the gate open, assign the sequence
\* number, append to the journal buffer, enqueue.  Waiting for room or for the
\* gate is the disabled guard: both conditions are notified under the mutex
\* they are tested under.  The BufWriter writes out what it holds when the
\* record, or its newline, does not fit.  A waiting caller goes on to
\* wait_durable_result; the others return the ticket at once.
Submit(c, r, waits) ==
  LET s     == ShardOf(r)
      seq   == nextSeq[s] + 1
      units == jbuf[s] \o <<Record(seq, r), Mark("nl")>>
  IN  /\ phase = "up"
      /\ cpc[c] = "idle"
      /\ r \notin accepted
      /\ Len(buf[s]) < ShardCapacity
      /\ ~Paused
      /\ nextSeq' = [nextSeq EXCEPT ![s] = seq]
      /\ \E n \in {0, Len(jbuf[s])}
                  \cup (IF "midline" \in Faults THEN {Len(jbuf[s]) + 1} ELSE {}) :
           /\ jfile' = [jfile EXCEPT ![s] = @ \o SubSeq(units, 1, n)]
           /\ jbuf' = [jbuf EXCEPT ![s] = SubSeq(units, n + 1, Len(units))]
      /\ buf' = [buf EXCEPT ![s] = Append(@, [seq |-> seq, req |-> r])]
      /\ accepted' = accepted \cup {r}
      /\ IF waits
         THEN /\ cpc' = [cpc EXCEPT ![c] = "waiting"]
              /\ ticket' = [ticket EXCEPT ![c] = [seq |-> seq, req |-> r]]
         ELSE UNCHANGED <<cpc, ticket>>
      /\ UNCHANGED <<phase, unreplayed, jsync, storeVars, drainVars, durable,
                     failures, maintVars, spc, smark, told, envVars>>

\* wait_durable_result, having taken the failures mutex: the watermark covers
\* the ticket, so report the failure recorded for it or success.
WaitReturn(c) ==
  LET s == ShardOf(ticket[c].req)
  IN  /\ cpc[c] = "waiting"
      /\ FailuresFree(s)
      /\ durable[s] >= ticket[c].seq
      /\ told' = [told EXCEPT ![ticket[c].req] =
                    IF ticket[c].seq \in failures[s] THEN "failed" ELSE "durable"]
      /\ cpc' = [cpc EXCEPT ![c] = "idle"]
      /\ ticket' = [ticket EXCEPT ![c] = NoTicket]
      /\ UNCHANGED <<phase, unreplayed, queueVars, jfile, jsync, storeVars,
                     drainVars, durable, failures, maintVars, spc, smark,
                     accepted, envVars>>

\* ... the watermark is still below the ticket: the caller goes to the
\* condition variable, holding the mutex until it is parked.
WaitCheck(c) ==
  LET s == ShardOf(ticket[c].req)
  IN  /\ cpc[c] = "waiting"
      /\ FailuresFree(s)
      /\ durable[s] < ticket[c].seq
      /\ cpc' = [cpc EXCEPT ![c] = "checked"]
      /\ UNCHANGED <<phase, unreplayed, queueVars, jfile, jsync, storeVars,
                     drainVars, durable, failures, maintVars, ticket, spc,
                     smark, pastVars, envVars>>

WaitPark(c) ==
  /\ cpc[c] = "checked"
  /\ cpc' = [cpc EXCEPT ![c] = "parked"]
  /\ UNCHANGED <<phase, unreplayed, queueVars, jfile, jsync, storeVars,
                 drainVars, durable, failures, maintVars, ticket, spc, smark,
                 pastVars, envVars>>

-----------------------------------------------------------------------------
(* The drain of a shard, under drain_lock from DrainSwap to its end.  A    *)
(* flusher and a quiescing caller run the same code, so the actor does not *)
(* matter.  Flushers run while the engine is up, and until the quiesce of  *)
(* shutdown has been answered.                                             *)

\* Mutations: flushers stop when shutdown begins; flushers honour the gate.
RunningUntilShutdown == phase = "up"
RunningUnlessPaused  == phase \in {"up", "closing"} /\ ~Paused

Running == phase \in {"up", "closing"}

\* Under the queue lock: flush the BufWriter, take the whole buffer.  The
\* callers blocked on a full shard are woken (they are Submit's guard).
DrainSwap(s) ==
  /\ Running
  /\ dpc[s] = "idle"
  /\ buf[s] # <<>>
  /\ jfile' = [jfile EXCEPT ![s] = @ \o jbuf[s]]
  /\ jbuf' = [jbuf EXCEPT ![s] = <<>>]
  /\ work' = [work EXCEPT ![s] = buf[s]]
  /\ buf' = [buf EXCEPT ![s] = <<>>]
  /\ pub' = [pub EXCEPT ![s] = 0]
  /\ dpc' = [dpc EXCEPT ![s] = "sync"]
  /\ UNCHANGED <<phase, unreplayed, nextSeq, jsync, storeVars, durable,
                 failures, maintVars, agentVars, pastVars, envVars>>

\* Mutation: no fsync before the commit.
DrainSyncSkipped(s) ==
  /\ dpc[s] = "sync"
  /\ dpc' = [dpc EXCEPT ![s] = "batch"]
  /\ UNCHANGED <<phase, unreplayed, queueVars, jfile, jsync, storeVars, work,
                 pub, durable, failures, maintVars, agentVars, pastVars, envVars>>

\* sync_data outside the queue lock, on whatever the file holds by now.
DrainSync(s) ==
  /\ dpc[s] = "sync"
  /\ jsync' = [jsync EXCEPT ![s] = Len(jfile[s])]
  /\ dpc' = [dpc EXCEPT ![s] = "batch"]
  /\ UNCHANGED <<phase, unreplayed, queueVars, jfile, storeVars, work, pub,
                 durable, failures, maintVars, agentVars, pastVars, envVars>>

\* The grouped batch commits with its checkpoint ...
DrainBatch(s) ==
  /\ dpc[s] = "batch"
  /\ CommitTo(s, Copies(work[s], DOMAIN work[s]), work[s][Len(work[s])].seq)
  /\ pub' = [pub EXCEPT ![s] = work[s][Len(work[s])].seq]
  /\ work' = [work EXCEPT ![s] = <<>>]
  /\ dpc' = [dpc EXCEPT ![s] = "publish"]
  /\ UNCHANGED <<phase, unreplayed, queueVars, jfile, jsync, durable, failures,
                 maintVars, agentVars, pastVars, envVars>>

\* ... or remember_batch returns an error, having rolled back or (when only
\* the index generation could not be marked) having committed.
DrainBatchFails(s) ==
  /\ dpc[s] = "batch"
  /\ \/ /\ Fault({"rollback"})
        /\ UNCHANGED storeVars
     \/ /\ Fault({"postcommit"})
        /\ CommitTo(s, Copies(work[s], DOMAIN work[s]),
                    work[s][Len(work[s])].seq)
  /\ dpc' = [dpc EXCEPT ![s] = "retry"]
  /\ UNCHANGED <<phase, unreplayed, queueVars, jfile, jsync, work, pub, durable,
                 failures, maintVars, agentVars, pastVars>>

\* The sequential retry: the first request still without an outcome commits
\* alone, with its own sequence number as the checkpoint ...
Retry(s) ==
  /\ dpc[s] = "retry"
  /\ CommitTo(s, Copies(work[s], {1}), Head(work[s]).seq)
  /\ pub' = [pub EXCEPT ![s] = Head(work[s]).seq]
  /\ work' = [work EXCEPT ![s] = Tail(@)]
  /\ dpc' = [dpc EXCEPT ![s] = IF Len(work[s]) = 1 THEN "publish" ELSE "retry"]
  /\ UNCHANGED <<phase, unreplayed, queueVars, jfile, jsync, durable, failures,
                 maintVars, agentVars, pastVars, envVars>>

\* ... or fails too.
RetryFails(s) ==
  /\ dpc[s] = "retry"
  /\ \/ /\ Fault({"rollback"})
        /\ UNCHANGED storeVars
     \/ /\ Fault({"postcommit"})
        /\ CommitTo(s, Copies(work[s], {1}), Head(work[s]).seq)
  /\ dpc' = [dpc EXCEPT ![s] = "mark"]
  /\ UNCHANGED <<phase, unreplayed, queueVars, jfile, jsync, work, pub, durable,
                 failures, maintVars, agentVars, pastVars>>

\* The rejection: an empty batch moves the checkpoint over the request, then
\* its failure is recorded under the failures mutex.  An empty batch has no
\* index generation to mark, so it cannot fail after its commit.
Reject(s) ==
  /\ dpc[s] = "mark"
  /\ FailuresFree(s)
  /\ CommitTo(s, Copies(work[s], {}), Head(work[s]).seq)
  /\ failures' = [failures EXCEPT ![s] = @ \cup {Head(work[s]).seq}]
  /\ pub' = [pub EXCEPT ![s] = Head(work[s]).seq]
  /\ work' = [work EXCEPT ![s] = Tail(@)]
  /\ dpc' = [dpc EXCEPT ![s] = IF Len(work[s]) = 1 THEN "publish" ELSE "retry"]
  /\ UNCHANGED <<phase, unreplayed, queueVars, jfile, jsync, durable, maintVars,
                 agentVars, pastVars, envVars>>

\* Even the empty checkpoint fails: the unresolved suffix goes back ahead of
\* newer submissions, whatever the capacity, and the loop ends.
Requeue(s) ==
  /\ dpc[s] = "mark"
  /\ Fault({"rollback"})
  /\ buf' = [buf EXCEPT ![s] = work[s] \o @]
  /\ work' = [work EXCEPT ![s] = <<>>]
  /\ dpc' = [dpc EXCEPT ![s] = IF pub[s] > 0 THEN "publish" ELSE "idle"]
  /\ UNCHANGED <<phase, unreplayed, nextSeq, jbuf, jfile, jsync, storeVars, pub,
                 durable, failures, maintVars, agentVars, pastVars>>

\* fetch_max on the watermark, without the failures mutex ...
DrainPublish(s) ==
  /\ dpc[s] = "publish"
  /\ durable' = [durable EXCEPT ![s] = Larger(@, pub[s])]
  /\ dpc' = [dpc EXCEPT ![s] = "notify"]
  /\ UNCHANGED <<phase, unreplayed, queueVars, jfile, jsync, storeVars, work,
                 pub, failures, maintVars, agentVars, pastVars, envVars>>

\* ... then completed.notify_all(), which wakes the callers parked by now.
DrainNotify(s) ==
  /\ dpc[s] = "notify"
  /\ cpc' = [c \in Client |->
               IF cpc[c] = "parked" /\ ShardOf(ticket[c].req) = s
               THEN "waiting" ELSE cpc[c]]
  /\ dpc' = [dpc EXCEPT ![s] = "idle"]
  /\ UNCHANGED <<phase, unreplayed, queueVars, jfile, jsync, storeVars, work,
                 pub, durable, failures, maintVars, ticket, spc, smark,
                 pastVars, envVars>>

Drain(s) ==
  \/ DrainSwap(s) \/ DrainSync(s) \/ DrainBatch(s) \/ DrainBatchFails(s)
  \/ Retry(s) \/ RetryFails(s) \/ Reject(s) \/ Requeue(s)
  \/ DrainPublish(s) \/ DrainNotify(s)

-----------------------------------------------------------------------------
(* pause_admissions, the gate of backups.                                  *)

\* Close the gate, then read next_seq of every shard: nothing crosses a
\* closed gate, so reading them one by one reads the same numbers.
PauseAdmissions(p) ==
  /\ phase = "up"
  /\ spc[p] = "idle"
  /\ spc' = [spc EXCEPT ![p] = "draining"]
  /\ smark' = [smark EXCEPT ![p] = nextSeq]
  /\ UNCHANGED <<phase, unreplayed, queueVars, jfile, jsync, storeVars,
                 drainVars, durable, failures, maintVars, cpc, ticket,
                 pastVars, envVars>>

\* quiesce has drained every shard and its waits have been answered.
SnapshotReady(p) ==
  /\ spc[p] = "draining"
  /\ \A s \in Shard : durable[s] >= smark[p][s]
  /\ spc' = [spc EXCEPT ![p] = "held"]
  /\ UNCHANGED <<phase, unreplayed, queueVars, jfile, jsync, storeVars,
                 drainVars, durable, failures, maintVars, cpc, ticket, smark,
                 pastVars, envVars>>

\* EnginePause is dropped; the gate opens with the last one.
ResumeAdmissions(p) ==
  /\ spc[p] = "held"
  /\ spc' = [spc EXCEPT ![p] = "idle"]
  /\ smark' = [smark EXCEPT ![p] = [s \in Shard |-> 0]]
  /\ UNCHANGED <<phase, unreplayed, queueVars, jfile, jsync, storeVars,
                 drainVars, durable, failures, maintVars, cpc, ticket,
                 pastVars, envVars>>

-----------------------------------------------------------------------------
(* maintenance: read the watermarks, checkpoint every store, reclaim the   *)
(* journals the checkpoint covers.                                         *)

\* Mutations: the marks are what was issued, not what is durable; only the
\* first store is checkpointed; one store too many is; all_complete is
\* carried over from the last pass.
BeginMaintenanceIssued(watermarks) ==
  mpc' = "ckpt" /\ marks' = nextSeq /\ mleft' = Domain /\ complete' = TRUE
BeginMaintenanceFirstStore(watermarks) ==
  mpc' = "ckpt" /\ marks' = watermarks /\ mleft' = {0} /\ complete' = TRUE
BeginMaintenanceOneMore(watermarks) ==
  mpc' = "ckpt" /\ marks' = watermarks /\ mleft' = 0 .. NumDomains /\ complete' = TRUE
BeginMaintenanceStale(watermarks) ==
  mpc' = "ckpt" /\ marks' = watermarks /\ mleft' = Domain /\ complete' = complete

\* The watermark of a shard is only compared with numbers of that shard, so
\* reading them all in one step loses nothing.
BeginMaintenance(watermarks) ==
  /\ mpc' = "ckpt"
  /\ marks' = watermarks
  /\ mleft' = Domain
  /\ complete' = TRUE

MaintBegin ==
  /\ Running
  /\ mpc = "idle"
  /\ BeginMaintenance(durable)
  /\ UNCHANGED <<phase, unreplayed, queueVars, jfile, jsync, storeVars,
                 drainVars, durable, failures, agentVars, pastVars, envVars>>

\* MemoryStore::wal_checkpoint, a PASSIVE one.  A complete one leaves nothing
\* in the WAL that a power loss could take ...
WalCheckpoint(d) == survivors' = [survivors EXCEPT ![d] = {db[d]}]

\* ... and one that a reader keeps short may leave any of it.
WalCheckpointShort == "busy" \in Faults /\ UNCHANGED survivors

\* The next store is checkpointed; after the last one, journals are reclaimed
\* if every checkpoint of the pass was complete.
MaintCheckpoint(d) ==
  /\ mpc = "ckpt"
  /\ d \in mleft
  /\ \/ WalCheckpoint(d) /\ UNCHANGED complete
     \/ WalCheckpointShort /\ complete' = FALSE
  /\ IF mleft # {d}
     THEN mleft' = mleft \ {d} /\ UNCHANGED mpc
     ELSE IF complete'
          THEN mleft' = Shard /\ mpc' = "truncate"
          ELSE mleft' = {} /\ mpc' = "idle"
  /\ UNCHANGED <<phase, unreplayed, queueVars, jfile, jsync, db, drainVars,
                 durable, failures, marks, agentVars, pastVars, envVars>>

\* wal_checkpoint fails: the pass returns.
MaintAbort ==
  /\ mpc = "ckpt"
  /\ "ckpterror" \in Faults
  /\ mpc' = "idle"
  /\ mleft' = {}
  /\ UNCHANGED <<phase, unreplayed, queueVars, jfile, jsync, storeVars,
                 drainVars, durable, failures, marks, complete, agentVars,
                 pastVars, envVars>>

\* Under the queue lock: reclaim the journal of an idle shard with no sequence
\* number issued past the watermark; set_len may fail after the flush.
MaintTruncate(s) ==
  /\ mpc = "truncate"
  /\ s \in mleft
  /\ IF buf[s] = <<>> /\ nextSeq[s] = marks[s]
     THEN /\ jbuf' = [jbuf EXCEPT ![s] = <<>>]
          /\ \/ /\ jfile' = [jfile EXCEPT ![s] = <<>>]
                /\ jsync' = [jsync EXCEPT ![s] = 0]
             \/ /\ "setlen" \in Faults
                /\ jfile' = [jfile EXCEPT ![s] = @ \o jbuf[s]]
                /\ UNCHANGED jsync
     ELSE UNCHANGED <<jbuf, jfile, jsync>>
  /\ mleft' = mleft \ {s}
  /\ mpc' = IF mleft = {s} THEN "idle" ELSE "truncate"
  /\ UNCHANGED <<phase, unreplayed, buf, nextSeq, storeVars, drainVars, durable,
                 failures, marks, complete, agentVars, pastVars, envVars>>

Maintenance ==
  \/ MaintBegin \/ MaintAbort
  \/ \E d \in Domain : MaintCheckpoint(d)
  \/ \E s \in Shard : MaintTruncate(s)

-----------------------------------------------------------------------------
(* Start, shutdown and drop.                                               *)

\* What the memory of the process holds is gone.
LoseMemory ==
  /\ phase' = "down"
  /\ unreplayed' = {}
  /\ buf' = [s \in Shard |-> <<>>]
  /\ nextSeq' = [s \in Shard |-> 0]
  /\ jbuf' = [s \in Shard |-> <<>>]
  /\ dpc' = [s \in Shard |-> "idle"]
  /\ work' = [s \in Shard |-> <<>>]
  /\ pub' = [s \in Shard |-> 0]
  /\ durable' = [s \in Shard |-> 0]
  /\ failures' = [s \in Shard |-> {}]
  /\ mpc' = "idle"
  /\ marks' = [s \in Shard |-> 0]
  /\ mleft' = {}
  /\ complete' = FALSE
  /\ cpc' = [c \in Client |-> "idle"]
  /\ ticket' = [c \in Client |-> NoTicket]
  /\ spc' = [p \in Snapshotter |-> "idle"]
  /\ smark' = [p \in Snapshotter |-> [s \in Shard |-> 0]]

\* start_partitioned, with the owner lease taken.
StartEngine ==
  /\ phase = "down"
  /\ phase' = "replay"
  /\ unreplayed' = Shard
  /\ UNCHANGED <<queueVars, jfile, jsync, storeVars, drainVars, durable,
                 failures, maintVars, agentVars, pastVars, envVars>>

\* Mutation: replay applies every record of the journal.
PendingUnfiltered(s) == Parsed(jfile[s])

\* journal::replay: the records above the checkpoint, which moves with them.
Pending(s) == {i \in Parsed(jfile[s]) : jfile[s][i].seq > Ckpt(s)}

CommitPending(s) ==
  IF Pending(s) = {}
  THEN UNCHANGED storeVars
  ELSE CommitTo(s, Copies(jfile[s], Pending(s)),
                HighestSeq(jfile[s], Pending(s), 0))

ReplayShard(s) ==
  /\ phase = "replay"
  /\ s \in unreplayed
  /\ Readable(jfile[s])
  /\ CommitPending(s)
  /\ nextSeq' = [nextSeq EXCEPT ![s] =
                   HighestSeq(jfile[s], Parsed(jfile[s]), Ckpt(s))]
  /\ unreplayed' = unreplayed \ {s}
  /\ UNCHANGED <<phase, buf, jbuf, jfile, jsync, drainVars, durable, failures,
                 maintVars, agentVars, pastVars, envVars>>

\* A line that is not UTF-8, or a store error, fails the start.
ReplayFails(s) ==
  /\ phase = "replay"
  /\ s \in unreplayed
  /\ \/ ~Readable(jfile[s]) /\ UNCHANGED <<storeVars, envVars>>
     \/ Readable(jfile[s]) /\ Fault({"rollback"}) /\ UNCHANGED storeVars
     \/ /\ Readable(jfile[s])
        /\ Pending(s) # {}
        /\ Fault({"postcommit"})
        /\ CommitPending(s)
  /\ LoseMemory
  /\ UNCHANGED <<jfile, jsync, pastVars>>

\* Every shard is replayed: the watermarks start at next_seq, and one
\* maintenance pass runs before the flushers are spawned.
StartFinish ==
  /\ phase = "replay"
  /\ unreplayed = {}
  /\ phase' = "boot"
  /\ durable' = nextSeq
  /\ BeginMaintenance(nextSeq)
  /\ UNCHANGED <<unreplayed, queueVars, jfile, jsync, storeVars, drainVars,
                 failures, agentVars, pastVars, envVars>>

SpawnFlushers ==
  /\ phase = "boot"
  /\ mpc = "idle"
  /\ phase' = "up"
  /\ UNCHANGED <<unreplayed, queueVars, jfile, jsync, storeVars, drainVars,
                 durable, failures, maintVars, agentVars, pastVars, envVars>>

\* shutdown and drop take the engine by value: no caller is inside it.
Unshared == (\A c \in Client : cpc[c] = "idle") /\ ~Paused

\* shutdown: quiesce ...
Shutdown ==
  /\ phase = "up"
  /\ Unshared
  /\ phase' = "closing"
  /\ UNCHANGED <<unreplayed, queueVars, jfile, jsync, storeVars, drainVars,
                 durable, failures, maintVars, agentVars, pastVars, envVars>>

\* ... answered: every number issued is durable; raise the shutdown flag ...
RequestShutdown ==
  /\ phase = "closing"
  /\ \A s \in Shard : durable[s] >= nextSeq[s]
  /\ phase' = "joining"
  /\ UNCHANGED <<unreplayed, queueVars, jfile, jsync, storeVars, drainVars,
                 durable, failures, maintVars, agentVars, pastVars, envVars>>

\* ... join the flushers, which end their round, run a last maintenance ...
JoinFlushers ==
  /\ phase = "joining"
  /\ mpc = "idle"
  /\ \A s \in Shard : dpc[s] = "idle"
  /\ phase' = "final"
  /\ BeginMaintenance(durable)
  /\ UNCHANGED <<unreplayed, queueVars, jfile, jsync, storeVars, drainVars,
                 durable, failures, agentVars, pastVars, envVars>>

\* Mutation: what the BufWriters hold is dropped unwritten.
DropJournalsUnflushed == UNCHANGED jfile

\* The BufWriters are dropped with the engine, which flushes them.
DropJournals == jfile' = [s \in Shard |-> jfile[s] \o jbuf[s]]

\* ... and let the engine go.
ShutdownDone ==
  /\ phase = "final"
  /\ mpc = "idle"
  /\ DropJournals
  /\ LoseMemory
  /\ UNCHANGED <<jsync, storeVars, pastVars, envVars>>

\* Drop without shutdown: the flushers end their round, nothing is drained.
DropEngine ==
  /\ phase = "up"
  /\ Unshared
  /\ mpc = "idle"
  /\ \A s \in Shard : dpc[s] = "idle"
  /\ DropJournals
  /\ LoseMemory
  /\ UNCHANGED <<jsync, storeVars, pastVars, envVars>>

-----------------------------------------------------------------------------
(* Crashes.                                                                *)

\* The process dies: files and committed transactions stay.
ProcessCrash ==
  /\ phase # "down"
  /\ crashes < MaxCrashes
  /\ crashes' = crashes + 1
  /\ LoseMemory
  /\ UNCHANGED <<jfile, jsync, storeVars, pastVars, faults, losses>>

\* What a power loss may leave of a journal: all that was synced, some of the
\* writes after it and, with torn writes, a piece of one more record.
Leftover(f, synced) ==
  LET whole == {n \in synced .. Len(f) :
                  n = synced \/ "torn" \in Faults \/ f[n].kind = "nl"}
      cut   == {n \in synced .. Len(f) - 1 : f[n + 1].kind = "rec"}
  IN  {SubSeq(f, 1, n) : n \in whole}
      \cup UNION {{Append(SubSeq(f, 1, n), Mark(k)) : n \in cut} :
                    k \in {"torn", "mangled"} \cap Faults}

\* The machine loses power: each store comes back as one of the states its WAL
\* may still yield, each journal as one of its leftovers.
PowerLoss ==
  /\ losses < MaxPowerLosses
  /\ losses' = losses + 1
  /\ \E left \in [Domain -> UNION {survivors[d] : d \in Domain}] :
       /\ \A d \in Domain : left[d] \in survivors[d]
       /\ db' = left
       /\ survivors' = [d \in Domain |-> {left[d]}]
  /\ \E left \in [Shard -> UNION {Leftover(jfile[s], jsync[s]) : s \in Shard}] :
       /\ \A s \in Shard : left[s] \in Leftover(jfile[s], jsync[s])
       /\ jfile' = left
       /\ jsync' = [s \in Shard |-> Len(left[s])]
  /\ LoseMemory
  /\ UNCHANGED <<pastVars, faults, crashes>>

-----------------------------------------------------------------------------
Wait(c) == WaitReturn(c) \/ WaitCheck(c) \/ WaitPark(c)

Start ==
  \/ \E s \in Shard : ReplayShard(s) \/ ReplayFails(s)
  \/ StartFinish
  \/ SpawnFlushers

Next ==
  \/ \E c \in Client, r \in Request, waits \in BOOLEAN : Submit(c, r, waits)
  \/ \E c \in Client : Wait(c)
  \/ \E s \in Shard : Drain(s)
  \/ \E p \in Snapshotter :
       PauseAdmissions(p) \/ SnapshotReady(p) \/ ResumeAdmissions(p)
  \/ Maintenance
  \/ StartEngine \/ Start
  \/ Shutdown \/ RequestShutdown \/ JoinFlushers \/ ShutdownDone \/ DropEngine
  \/ ProcessCrash \/ PowerLoss

Spec == Init /\ [][Next]_vars

\* Threads the scheduler does not starve: the flushers (every shard has one and
\* visits it each flush_interval), the callers inside the engine, maintenance
\* on worker 0, a start or a shutdown once begun, and a backup, which ends.
\* Agents are not obliged to submit, nor anybody to start or stop the engine.
Fairness ==
  /\ \A c \in Client : WF_vars(Wait(c))
  /\ \A s \in Shard : WF_vars(Drain(s))
  /\ \A p \in Snapshotter : WF_vars(SnapshotReady(p)) /\ WF_vars(ResumeAdmissions(p))
  /\ WF_vars(Maintenance)
  /\ WF_vars(Start)
  /\ WF_vars(RequestShutdown) /\ WF_vars(JoinFlushers)
  /\ WF_vars(ShutdownDone)

FairSpec == Spec /\ Fairness

-----------------------------------------------------------------------------
(* Properties.                                                             *)

\* Every variable has its type (the whole state of engine, journals, stores).
TypeOK ==
  /\ phase \in {"down", "replay", "boot", "up", "closing", "joining", "final"}
  /\ unreplayed \subseteq Shard
  /\ buf \in [Shard -> Seq(Entry)]
  /\ nextSeq \in [Shard -> Nat]
  /\ jbuf \in [Shard -> Seq(Unit)]
  /\ jfile \in [Shard -> Seq(Unit)]
  /\ jsync \in [Shard -> Nat]
  /\ db \in [Domain -> State]
  /\ survivors \in [Domain -> SUBSET State]
  /\ dpc \in [Shard -> {"idle", "sync", "batch", "retry", "mark", "publish", "notify"}]
  /\ work \in [Shard -> Seq(Entry)]
  /\ pub \in [Shard -> Nat]
  /\ durable \in [Shard -> Nat]
  /\ failures \in [Shard -> SUBSET Nat]
  /\ mpc \in {"idle", "ckpt", "truncate"}
  /\ marks \in [Shard -> Nat]
  /\ mleft \subseteq Domain \cup Shard
  /\ complete \in BOOLEAN
  /\ cpc \in [Client -> {"idle", "waiting", "checked", "parked"}]
  /\ ticket \in [Client -> Entry \cup {NoTicket}]
  /\ spc \in [Snapshotter -> {"idle", "draining", "held"}]
  /\ smark \in [Snapshotter -> [Shard -> Nat]]
  /\ accepted \subseteq Request
  /\ told \in [Request -> {"none", "durable", "failed"}]
  /\ faults \in Nat /\ crashes \in Nat /\ losses \in Nat

\* A write whose caller was told it is durable survives everything: each state
\* a store may come back in holds it, or lies below a record of it in the
\* synced part of the journal, which the next start replays.
DurableSurvives ==
  \A r \in Request : told[r] = "durable" =>
    LET s == ShardOf(r)
    IN  \A x \in survivors[DomainOf(s)] :
          \/ x.applied[r] > 0
          \/ \E i \in Parsed(jfile[s]) :
               /\ i <= jsync[s]
               /\ jfile[s][i].req = r
               /\ jfile[s][i].seq > x.ckpt[s]

\* No write is applied twice, in the stores or in any state they may come back
\* in, whatever was replayed or retried: replay applies journaled entries once.
AppliedOnce ==
  \A d \in Domain : \A x \in survivors[d] \cup {db[d]} :
    \A r \in Request : x.applied[r] <= 1

\* A write whose caller was told it failed is in no store and no replay will
\* put it there: the rejection moved the checkpoint over its record.  A power
\* loss may undo that commit, and the next replay then applies the write.
RejectedStaysOut ==
  \A r \in Request : told[r] = "failed" /\ losses = 0 =>
    LET s == ShardOf(r)
    IN  /\ db[DomainOf(s)].applied[r] = 0
        /\ \A i \in Pending(s) : jfile[s][i].req # r

\* The watermark of a shard never runs ahead of the checkpoint committed with
\* its writes, so what wait_durable_result reports has been committed.
WatermarkBacked ==
  phase \notin {"down", "replay"} =>
    \A s \in Shard : durable[s] <= Ckpt(s)

\* A committed checkpoint never passes a write that has no outcome yet: such a
\* write would be skipped by replay, and lost by a crash before its commit.
NothingSkipped ==
  \A s \in Shard :
    /\ \A i \in DOMAIN buf[s] : buf[s][i].seq > Ckpt(s)
    /\ \A i \in DOMAIN work[s] : work[s][i].seq > Ckpt(s)

\* A write the engine still owes an outcome, or has applied.
Kept(r) ==
  LET s == ShardOf(r)
  IN  \/ db[DomainOf(s)].applied[r] > 0
      \/ \E i \in DOMAIN buf[s] : buf[s][i].req = r
      \/ \E i \in DOMAIN work[s] : work[s][i].req = r
      \/ \E i \in Pending(s) : jfile[s][i].req = r

\* Only a crash or a rejection loses an accepted write: no drain, retry,
\* requeue, journal truncation, shutdown, drop or failed start does.
KeptUntilOutcome ==
  [][crashes' = crashes /\ losses' = losses =>
       \A r \in accepted : Kept(r) =>
         \/ Kept(r)'
         \/ LET s == ShardOf(r)
            IN  failures'[s] \ failures[s] # {} /\ Head(work[s]).req = r]_vars

\* While a backup holds the gate, no write is queued or being drained, so what
\* it copies is every accepted write and nothing moves under it.
QuietWhileHeld ==
  (\E p \in Snapshotter : spc[p] = "held") =>
    \A s \in Shard : buf[s] = <<>> /\ work[s] = <<>>

\* Maintenance erases a journal only if every state the store may come back in
\* has a checkpoint at or above every sequence number issued: erasing loses
\* nothing, even to a power loss in the next instant.
ErasedOnlyIfCovered ==
  [][\A s \in Shard :
       /\ Len(jfile'[s]) + Len(jbuf'[s]) < Len(jfile[s]) + Len(jbuf[s])
       /\ crashes' = crashes /\ losses' = losses
       => \A x \in survivors[DomainOf(s)] : x.ckpt[s] >= nextSeq[s]]_vars

\* shutdown leaves fully checkpointed WALs and truncated journals, provided the
\* last checkpoint was complete.
CleanShutdown ==
  [][phase = "final" /\ phase' = "down" /\ complete
       /\ losses' = losses /\ crashes' = crashes =>
     /\ \A s \in Shard : jfile'[s] = <<>>
     /\ \A d \in Domain : survivors'[d] = {db[d]}]_vars

\* Every sequence number issued gets its outcome while the engine runs.
OutcomeReached ==
  \A s \in Shard, n \in 1 .. Cardinality(Request) :
    (Running /\ nextSeq[s] >= n) ~> (durable[s] >= n \/ ~Running)

\* A backup that closed the gate gets its quiet store, unless a transaction
\* failed: then the wait of its quiesce may sleep through the notification.
PauseGranted ==
  \A p \in Snapshotter :
    (spc[p] = "draining") ~> (spc[p] = "held" \/ faults > 0)

\* Backpressure ends: a full shard has room again.
RoomAgain ==
  \A s \in Shard :
    (Len(buf[s]) >= ShardCapacity) ~> (Len(buf[s]) < ShardCapacity)

\* Once writes stop, maintenance reclaims the journals.
JournalReclaimed ==
  \A s \in Shard :
    (Running /\ jfile[s] # <<>>) ~> (jfile[s] = <<>> \/ ~Running)

\* A shutdown once begun ends, on the same condition.
ShutdownCompletes == (phase = "closing") ~> (phase = "down" \/ faults > 0)

\* What the documentation says and the code does not do.

\* "Block until the ticket reaches a terminal outcome": the caller returns.
ReceiptArrives ==
  \A c \in Client : (cpc[c] # "idle") ~> (cpc[c] = "idle")
=============================================================================
