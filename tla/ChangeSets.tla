----------------------------- MODULE ChangeSets -----------------------------
(***************************************************************************)
(* One memory store of openmemory-graph: its observations, the audit log   *)
(* that every change goes through (audit.rs), the search index derived     *)
(* from them, and the threads that call it.                                *)
(*                                                                         *)
(* A changeset commits rows, revisions, a semantic generation and outbox   *)
(* items in one SQLite transaction.  The index follows afterwards: an      *)
(* outbox item is published (repair_index, or the sync that ends a         *)
(* remember) and then marked.  `barrier' is the rebuild lock held for      *)
(* writing; a transaction under it is one step, as is a read statement.    *)
(*                                                                         *)
(* Abstractions.  An observation is its text and lifecycle.  The index is  *)
(* its vector arm: `mem' is what is searched, `disk' the file it is loaded *)
(* from.  The keyword arm holds at least as much, and is durable at once.  *)
(* Both arms append: an upsert does not replace an older document of the   *)
(* same observation, so a document is a member of a set of texts.  The     *)
(* search cache is emptied by every insert and delete under the barrier    *)
(* and filled only by readers that exclude it, so it changes no answer.    *)
(* Authority and the bound space never vary.  The clock only lets tokens   *)
(* expire.  The 1024-row page of a repair is never full.                   *)
(***************************************************************************)
EXTENDS Naturals, FiniteSets, SequencesExt

CONSTANTS
  Obs,            \* observation ids
  Text,           \* contents
  NoText,         \* where no content is given
  Actor,          \* human submitters and reviewers
  System,         \* the actor of the calls that name none
  Key,            \* idempotency keys chosen by callers
  NoKey,          \* a key made unique by the store itself
  Thread,
  Nobody,
  Mixes,          \* the workloads, one of which a behaviour has: the calls of
                  \* each thread, the kinds and modes that are drafted, the rows
                  \* that are older than the audit log, and its bounds: commits,
                  \* operations of a changeset, and failures (of the index or a
                  \* marking, and crashes)
  MaxTokens,      \* bound: destruction previews
  MaxSets         \* bound: recorded changesets, for proposals

ASSUME NobodyAssumption == Nobody \notin Thread
ASSUME KeyAssumption == NoKey \notin Key
ASSUME TextAssumption == NoText \notin Text
ASSUME ActorAssumption == System \notin Actor
ASSUME MixesAssumption ==
  \A m \in Mixes : m.legacy \subseteq Obs /\ m.modes \subseteq {"apply_immediately", "propose"}

VARIABLES
  rows,           \* observations: lifecycle, text, row_version, head revision
  revs,           \* observation_revisions of each observation, oldest first
  dom,            \* domain_state: generations and index_repair_required
  outbox,         \* index_outbox rows with applied_at NULL
  sets,           \* change_sets
  tokens,         \* destruction_confirmations
  mem, disk,      \* the vector index in memory and in its file
  barrier,        \* who holds the rebuild lock for writing
  pc,             \* where each thread is
  draft,          \* the changeset a thread is about to submit
  batch,          \* outbox items a thread is publishing, with the rows it loaded
  owed,           \* the rows a recall should find, as they were at its gate
  overtaken,      \* history: observations last published by an outdated repair
  mix, failures   \* environment: the workload, the failures so far

canon == <<rows, revs, dom, outbox, sets, tokens>>
index == <<mem, disk>>
env   == <<overtaken, mix, failures>>
vars  == <<canon, index, barrier, pc, draft, batch, owed, env>>

Present   == {"active", "retired"}
Kind      == {"remember", "update", "retire", "restore", "revert", "destroy"}
Row       == [st : {"absent", "active", "retired", "gone"}, text : Text \cup {NoText},
              ver : Nat, head : Nat]
Revision  == [text : Text, st : {"active", "retired", "destroyed"},
              parent : Nat, gen : Nat]
Op        == [kind : Kind, basis : Row, text : Text \cup {NoText}, rev : Nat, tok : Nat]
Item      == [gen : Nat, obs : Obs, op : {"upsert", "delete"}]
Mode      == {"apply_immediately", "propose"}
State     == {"proposed", "applied", "rejected", "conflicted"}
Draft     == [key : Key \cup {NoKey}, mode : Mode, actor : Actor \cup {System},
              ops : UNION {[S -> Op] : S \in SUBSET Obs}, by : {"caller", "consolidate"}]
Pc        == {"idle", "drafted", "select", "load", "publish", "mark",
              "sync", "search", "prune"}

NoDraft   == [key |-> NoKey, mode |-> "apply_immediately", actor |-> System,
              ops |-> <<>>, by |-> "caller"]
NotLoaded == [st |-> "absent", text |-> NoText, ver |-> 0, head |-> 0]

Init ==
  /\ mix \in Mixes
  /\ \E old \in [mix.legacy -> Text] :
       rows = [o \in Obs |-> IF o \in mix.legacy
                             THEN [st |-> "active", text |-> old[o], ver |-> 1, head |-> 0]
                             ELSE NotLoaded]
  /\ revs = [o \in Obs |-> <<>>]
  /\ dom = [gen |-> 0, indexed |-> 0, repair |-> FALSE]
  /\ outbox = {} /\ sets = <<>> /\ tokens = <<>>
  /\ mem = [o \in Obs |-> {rows[o].text} \cap Text]
  /\ disk = mem
  /\ barrier = Nobody
  /\ pc = [t \in Thread |-> "idle"]
  /\ draft = [t \in Thread |-> NoDraft]
  /\ batch = [t \in Thread |-> <<>>]
  /\ owed = [t \in Thread |-> {}]
  /\ overtaken = {} /\ failures = 0

-----------------------------------------------------------------------------
(* Applying a changeset *)

\* operation_precondition_holds, and what apply_operation_tx checks again.
Lifecycles == [update |-> {"active"}, retire |-> {"active"}, restore |-> {"retired"},
               revert |-> Present, destroy |-> Present]
HoldsAnyVersion(o, op) ==
  op.kind # "remember" => /\ rows[o].st \in Lifecycles[op.kind]
                          /\ op.kind = "revert" => op.rev \in 1..Len(revs[o])
Holds(o, op) ==
  \/ op.kind = "remember"
  \/ /\ op.kind # "remember"
     /\ rows[o].st \in Lifecycles[op.kind]
     /\ rows[o].ver = op.basis.ver
     /\ op.kind \in {"update", "destroy"} /\ op.basis.head # 0
          => rows[o].head = op.basis.head
     /\ op.kind = "revert" => op.rev \in 1..Len(revs[o])

\* The confirmation of a destruction: same object, version and actor, unused
\* and not expired.
ConfirmedForever(o, op, actor) ==
  op.kind = "destroy" => tokens[op.tok].obs = o /\ tokens[op.tok].row.ver = op.basis.ver
                           /\ tokens[op.tok].actor = actor
Confirmed(o, op, actor) ==
  op.kind = "destroy" =>
    /\ tokens[op.tok].obs = o
    /\ tokens[op.tok].row.ver = op.basis.ver
    /\ tokens[op.tok].row.head = op.basis.head
    /\ tokens[op.tok].actor = actor
    /\ tokens[op.tok].state = "fresh"

RowAfter(o, op) ==
  [st   |-> CASE op.kind = "retire"  -> "retired"
              [] op.kind = "destroy" -> "gone"
              [] op.kind = "revert"  -> revs[o][op.rev].st
              [] OTHER               -> "active",
   text |-> CASE op.kind \in {"remember", "update"} -> op.text
              [] op.kind = "revert"                 -> revs[o][op.rev].text
              [] OTHER                              -> rows[o].text,
   ver  |-> rows[o].ver + 1,
   head |-> Len(revs[o]) + 1]

\* insert_observation_revision: the row as it now is, on top of its old head.
RevisionAfterReverted(o, op) ==
  [text   |-> IF op.kind = "revert" THEN rows[o].text ELSE RowAfter(o, op).text,
   st     |-> RowAfter(o, op).st,
   parent |-> rows[o].head,
   gen    |-> dom.gen + 1]
RevisionAfter(o, op) ==
  [text   |-> RowAfter(o, op).text,
   st     |-> IF op.kind = "destroy" THEN "destroyed" ELSE RowAfter(o, op).st,
   parent |-> rows[o].head,
   gen    |-> dom.gen + 1]

OutboxOf(ops) ==
  {[gen |-> dom.gen + 1, obs |-> o,
    op |-> IF ops[o].kind \in {"retire", "destroy"} THEN "delete" ELSE "upsert"]
     : o \in DOMAIN ops}

\* The transaction of a changeset: rows, revisions, outbox and the next
\* generation together, and used tokens consumed.
CommitOps(ops) ==
  /\ dom.gen < mix.commits
  /\ rows' = [o \in Obs |-> IF o \in DOMAIN ops THEN RowAfter(o, ops[o]) ELSE rows[o]]
  /\ revs' = [o \in Obs |-> IF o \in DOMAIN ops
                            THEN Append(revs[o], RevisionAfter(o, ops[o])) ELSE revs[o]]
  /\ outbox' = outbox \cup OutboxOf(ops)
  /\ dom' = [dom EXCEPT !.gen = @ + 1, !.repair = @ \/ outbox' # {}]
  /\ tokens' = [k \in DOMAIN tokens |->
                  IF \E o \in DOMAIN ops : ops[o].kind = "destroy" /\ ops[o].tok = k
                  THEN [tokens[k] EXCEPT !.state = "consumed"] ELSE tokens[k]]

Record(d, state) ==
  [key |-> d.key, mode |-> d.mode, actor |-> d.actor, ops |-> d.ops, kept |-> TRUE,
   state |-> state, gen |-> IF state = "applied" THEN dom.gen + 1 ELSE 0]

-----------------------------------------------------------------------------
(* The threads *)

May(t, call) == pc[t] = "idle" /\ call \in mix.calls[t]
Goto(t, l)   == pc' = [pc EXCEPT ![t] = l]
Then(t)      == IF draft[t].by = "consolidate" THEN "prune" ELSE "idle"
Free(t)      == barrier = Nobody
ReleaseForgotten(t) == UNCHANGED barrier
Release(t)   == barrier' = IF barrier = t THEN Nobody ELSE barrier
Fault        == failures < mix.failures /\ failures' = failures + 1

\* A fresh id is unique: nobody else is about to remember it.
Unused(o) ==
  /\ rows[o].st = "absent"
  /\ \A t \in Thread : o \notin DOMAIN draft[t].ops
  /\ \A i \in DOMAIN sets : sets[i].state = "proposed" => o \notin DOMAIN sets[i].ops

\* What a caller may ask of an observation it has just read.
Operation(k, o, text, rev, tok) ==
  [kind |-> k, basis |-> IF k = "destroy" THEN tokens[tok].row ELSE rows[o],
   text |-> text, rev |-> rev, tok |-> tok]
Wanted(o) ==
  {op \in
     {Operation("remember", o, x, 0, 0) : x \in IF Unused(o) THEN Text ELSE {}}
       \cup {Operation("update", o, x, 0, 0) : x \in Text \ {rows[o].text}}
       \cup {Operation(k, o, NoText, 0, 0) : k \in {"retire", "restore"}}
       \cup {Operation("revert", o, NoText, r, 0) : r \in 1..Len(revs[o])}
       \cup {Operation("destroy", o, NoText, 0, k) :
               k \in {j \in DOMAIN tokens : tokens[j].obs = o}}
   : /\ op.kind \in mix.kinds
     /\ op.kind = "remember" \/ rows[o].st \in Lifecycles[op.kind]}

\* A caller reads rows and drafts a changeset about them, or repeats a
\* request whose answer it has lost.  validate_draft admits one operation per
\* observation and no proposed destruction.
DraftChange(t) ==
  /\ May(t, "changeset")
  /\ \/ \E S \in (SUBSET Obs) \ {{}}, key \in Key \cup {NoKey}, mode \in mix.modes, actor \in Actor :
          /\ Cardinality(S) <= mix.ops
          /\ \E ops \in [S -> UNION {Wanted(o) : o \in S}] :
               /\ \A o \in S : ops[o] \in Wanted(o)
               /\ mode = "propose" => \A o \in S : ops[o].kind # "destroy"
               /\ draft' = [draft EXCEPT ![t] = [key |-> key, mode |-> mode,
                              actor |-> actor, ops |-> ops, by |-> "caller"]]
     \/ \E i \in DOMAIN sets :
          /\ sets[i].key # NoKey
          /\ draft' = [draft EXCEPT ![t] = [key |-> sets[i].key, mode |-> sets[i].mode,
                         actor |-> sets[i].actor, ops |-> sets[i].ops, by |-> "caller"]]
  /\ Goto(t, "drafted")
  /\ UNCHANGED <<canon, index, barrier, batch, owed, env>>

\* forget, the retirement of an entity's observations, and consolidation
\* (which has picked duplicates and faded observations before): the versions
\* are read now, not when the observations were picked.
DraftRetirement(t) ==
  /\ \E by \in {"caller", "consolidate"}, S \in (SUBSET Obs) \ {{}} :
       /\ IF by = "caller" THEN May(t, "forget") ELSE May(t, "consolidate")
       /\ \A o \in S : rows[o].st = "active"
       /\ draft' = [draft EXCEPT ![t] = [NoDraft EXCEPT !.by = by,
                      !.ops = [o \in S |-> Operation("retire", o, NoText, 0, 0)]]]
  /\ Goto(t, "drafted")
  /\ UNCHANGED <<canon, index, barrier, batch, owed, env>>

\* submit_changeset.  A known key answers with its receipt, or with a conflict
\* if the request differs; a failing operation rolls everything back.
RecordedApplied(d) ==
  \E i \in DOMAIN sets : sets[i].key = d.key /\ d.key # NoKey /\ sets[i].state = "applied"
Recorded(d) == \E i \in DOMAIN sets : sets[i].key = d.key /\ d.key # NoKey
SubmitKnown(t) ==
  /\ Recorded(draft[t])
  /\ Goto(t, "idle")
  /\ UNCHANGED <<canon>>
SubmitProposal(t) ==
  /\ draft[t].mode = "propose" /\ Len(sets) < MaxSets
  /\ sets' = Append(sets, Record(draft[t], "proposed"))
  /\ Goto(t, "idle")
  /\ UNCHANGED <<rows, revs, dom, outbox, tokens>>
SubmitApplied(t) ==
  /\ draft[t].mode = "apply_immediately"
  /\ \A o \in DOMAIN draft[t].ops : /\ Holds(o, draft[t].ops[o])
                                    /\ Confirmed(o, draft[t].ops[o], draft[t].actor)
  /\ CommitOps(draft[t].ops)
  /\ sets' = Append(sets, Record(draft[t], "applied"))
  /\ Goto(t, "select")
SubmitRefused(t) ==
  /\ draft[t].mode = "apply_immediately"
  /\ \E o \in DOMAIN draft[t].ops : \/ ~Holds(o, draft[t].ops[o])
                                    \/ ~Confirmed(o, draft[t].ops[o], draft[t].actor)
  /\ Goto(t, "idle")
  /\ UNCHANGED <<canon>>
Submit(t) ==
  /\ pc[t] = "drafted" /\ Free(t)
  /\ \/ SubmitKnown(t)
     \/ /\ ~Recorded(draft[t])
        /\ SubmitProposal(t) \/ SubmitApplied(t) \/ SubmitRefused(t)
  /\ draft' = [draft EXCEPT ![t] = IF pc'[t] = "idle" THEN NoDraft
                                   ELSE [NoDraft EXCEPT !.by = draft[t].by]]
  /\ UNCHANGED <<index, barrier, batch, owed, env>>

\* transition_proposal and reject_changeset, by someone else than the submitter.
DecideAtBase(i, state) ==
  sets' = [sets EXCEPT ![i].state = state, ![i].gen = IF state = "applied" THEN dom.gen ELSE @]
Decide(i, state) ==
  sets' = [sets EXCEPT ![i].state = state, ![i].gen = IF state = "applied" THEN dom.gen + 1 ELSE @]
Approve(t) ==
  /\ May(t, "review") /\ Free(t)
  /\ \E i \in DOMAIN sets, reviewer \in Actor :
       \/ /\ sets[i].state = "proposed" /\ sets[i].actor # reviewer
          /\ \A o \in DOMAIN sets[i].ops : Holds(o, sets[i].ops[o])
          /\ CommitOps(sets[i].ops) /\ Decide(i, "applied")
          /\ Goto(t, "select")
       \/ /\ sets[i].state = "proposed" /\ sets[i].actor # reviewer
          /\ \E o \in DOMAIN sets[i].ops : ~Holds(o, sets[i].ops[o])
          /\ Decide(i, "conflicted")
          /\ UNCHANGED <<rows, revs, dom, outbox, tokens, pc>>
       \/ /\ sets[i].state = "applied"
          /\ Goto(t, "select")
          /\ UNCHANGED canon
  /\ UNCHANGED <<index, barrier, draft, batch, owed, env>>

Reject(t) ==
  /\ May(t, "review") /\ Free(t)
  /\ \E i \in DOMAIN sets, reviewer \in Actor :
       /\ sets[i].state = "proposed" /\ sets[i].actor # reviewer
       /\ Decide(i, "rejected")
  /\ UNCHANGED <<rows, revs, dom, outbox, tokens, index, barrier, pc, draft, batch, owed, env>>

\* compact_rejected_proposals: the payload goes, the request hash stays.
CompactRejected ==
  /\ \E i \in DOMAIN sets : /\ sets[i].state = "rejected" /\ sets[i].kept
                            /\ sets' = [sets EXCEPT ![i].kept = FALSE]
  /\ UNCHANGED <<rows, revs, dom, outbox, tokens, index, barrier, pc, draft, batch, owed, env>>

\* remember and remember_batch: the transaction, with the barrier kept for the
\* sync that follows.
Remember(t) ==
  /\ May(t, "remember") /\ Free(t)
  /\ \E o \in Obs, x \in Text :
       LET ops == [p \in {o} |-> Operation("remember", o, x, 0, 0)] IN
       /\ Unused(o)
       /\ CommitOps(ops)
       /\ sets' = Append(sets, Record([NoDraft EXCEPT !.ops = ops], "applied"))
       /\ batch' = [batch EXCEPT ![t] = [i \in OutboxOf(ops) |-> RowAfter(o, ops[o])]]
  /\ barrier' = t
  /\ Goto(t, "sync")
  /\ UNCHANGED <<index, draft, owed, env>>

\* preview_observation_destruction, and the time it is good for.
Preview(t) ==
  /\ May(t, "changeset") /\ "destroy" \in mix.kinds /\ Len(tokens) < MaxTokens
  /\ \E o \in Obs, actor \in Actor :
       /\ rows[o].st \in Present
       /\ tokens' = Append(tokens, [obs |-> o, row |-> rows[o], actor |-> actor, state |-> "fresh"])
  /\ UNCHANGED <<rows, revs, dom, outbox, sets, index, barrier, pc, draft, batch, owed, env>>
Expire ==
  /\ \E k \in DOMAIN tokens : /\ tokens[k].state = "fresh"
                              /\ tokens' = [tokens EXCEPT ![k].state = "expired"]
  /\ UNCHANGED <<rows, revs, dom, outbox, sets, index, barrier, pc, draft, batch, owed, env>>

\* backfill_audit: a page of baseline revisions, in no generation of its own.
Backfill(t) ==
  /\ May(t, "backfill") /\ Free(t)
  /\ \E S \in (SUBSET {o \in Obs : rows[o].st \in Present /\ rows[o].head = 0}) \ {{}} :
       /\ revs' = [o \in Obs |-> IF o \in S
                     THEN Append(revs[o], [text |-> rows[o].text, st |-> rows[o].st,
                                           parent |-> 0, gen |-> 0])
                     ELSE revs[o]]
       /\ rows' = [o \in Obs |-> IF o \in S THEN [rows[o] EXCEPT !.head = Len(revs'[o])]
                                 ELSE rows[o]]
  /\ UNCHANGED <<dom, outbox, sets, tokens, index, barrier, pc, draft, batch, owed, env>>

-----------------------------------------------------------------------------
(* Publishing *)

Loaded(t)   == {i \in DOMAIN batch[t] : batch[t][i] # NotLoaded}
Deletes(i, row) == i.op = "delete" \/ row.st # "active"

\* The documents after items D of the batch of t, oldest first, are published
\* over `docs': a delete removes every document of its observation.
PublishedDeletesLast(t, D, docs) ==
  [o \in Obs |->
     IF \E i \in D : i.obs = o /\ Deletes(i, batch[t][i]) THEN {}
     ELSE docs[o] \cup {batch[t][i].text : i \in {j \in D : j.obs = o}}]
Published(t, D, docs) ==
  [o \in Obs |->
     LET mine == {i \in D : i.obs = o}
         last == {i \in mine : Deletes(i, batch[t][i])}
     IN  (IF last = {} THEN docs[o] ELSE {})
           \cup {batch[t][i].text : i \in {j \in mine \ last : \A k \in last : j.gen > k.gen}}]

\* Observations that D deletes although it has not the newest item of each.
Newest(D, o) == \E i \in D : i.obs = o /\ i.gen = Last(revs[o]).gen
Late(t, D) ==
  {o \in Obs : ~Newest(D, o) /\ \E i \in D : i.obs = o /\ Deletes(i, batch[t][i])}

\* repair_index: the pending items, and then the row of each, every one a read
\* of its own.
RepairSelect(t) ==
  /\ pc[t] = "select"
  /\ batch' = [batch EXCEPT ![t] = [i \in outbox |-> NotLoaded]]
  /\ Goto(t, IF outbox = {} THEN "mark" ELSE "load")
  /\ UNCHANGED <<canon, index, barrier, draft, owed, env>>
RepairLoad(t) ==
  /\ pc[t] = "load"
  /\ \E i \in DOMAIN batch[t] \ Loaded(t) :
       /\ \A j \in DOMAIN batch[t] \ Loaded(t) : i.gen <= j.gen
       /\ batch' = [batch EXCEPT ![t][i] = rows[i.obs]]
  /\ Goto(t, IF Loaded(t)' = DOMAIN batch[t] THEN "publish" ELSE "load")
  /\ UNCHANGED <<canon, index, barrier, draft, owed, env>>

\* The publish barrier: every item and the file, or a failure on the way, which
\* record_index_failure notes.
RepairPublish(t) ==
  /\ pc[t] = "publish" /\ Free(t)
  /\ mem' = Published(t, DOMAIN batch[t], mem) /\ disk' = mem'
  /\ overtaken' = {o \in overtaken : ~Newest(DOMAIN batch[t], o)} \cup Late(t, DOMAIN batch[t])
  /\ barrier' = t
  /\ Goto(t, "mark")
  /\ UNCHANGED <<canon, draft, batch, owed, mix, failures>>
RepairFails(t) ==
  /\ pc[t] = "publish" /\ Free(t) /\ Fault
  /\ \E D \in SUBSET DOMAIN batch[t] :
       /\ \A i \in D, j \in DOMAIN batch[t] : j.gen < i.gen => j \in D
       /\ mem' = Published(t, D, mem)
       /\ overtaken' = overtaken \cup Late(t, D)
  /\ dom' = [dom EXCEPT !.repair = TRUE]
  /\ batch' = [batch EXCEPT ![t] = <<>>]
  /\ draft' = [draft EXCEPT ![t] = NoDraft]
  /\ Goto(t, Then(t))
  /\ UNCHANGED <<rows, revs, outbox, sets, tokens, disk, barrier, owed, mix>>

\* sync_search_groups, under the barrier a remember has kept.
Sync(t) ==
  /\ pc[t] = "sync"
  /\ mem' = Published(t, DOMAIN batch[t], mem) /\ disk' = mem'
  /\ barrier' = Nobody
  /\ Goto(t, "mark")
  /\ UNCHANGED <<canon, draft, batch, owed, env>>
SyncFails(t) ==
  /\ pc[t] = "sync" /\ Fault
  /\ mem' \in {mem, Published(t, DOMAIN batch[t], mem)}
  /\ barrier' = Nobody
  /\ batch' = [batch EXCEPT ![t] = <<>>]
  /\ Goto(t, "idle")
  /\ UNCHANGED <<canon, disk, draft, owed, mix, overtaken>>

\* mark_index_rows_applied: what is still pending decides how far the index is
\* current and whether it is served.
Smallest(S) == CHOOSE n \in S : \A m \in S : n <= m
CurrentThroughNewest(pending) == dom.gen
CurrentThrough(pending) ==
  IF pending = {} THEN dom.gen ELSE Smallest({i.gen : i \in pending}) - 1
MarkApplied(t) ==
  /\ pc[t] = "mark"
  /\ outbox' = outbox \ DOMAIN batch[t]
  /\ dom' = [dom EXCEPT !.indexed = CurrentThrough(outbox'), !.repair = (outbox' # {})]
  /\ batch' = [batch EXCEPT ![t] = <<>>]
  /\ draft' = [draft EXCEPT ![t] = NoDraft]
  /\ Release(t)
  /\ Goto(t, Then(t))
  /\ UNCHANGED <<rows, revs, sets, tokens, index, owed, env>>
MarkFails(t) ==
  /\ pc[t] = "mark" /\ Fault
  /\ batch' = [batch EXCEPT ![t] = <<>>]
  /\ draft' = [draft EXCEPT ![t] = NoDraft]
  /\ Release(t)
  /\ Goto(t, Then(t))
  /\ UNCHANGED <<canon, index, owed, mix, overtaken>>

\* persist_search_index, from the maintenance tick or at close.
Flush ==
  /\ disk' = mem
  /\ UNCHANGED <<canon, mem, barrier, pc, draft, batch, owed, env>>

-----------------------------------------------------------------------------
(* Recall, hard deletion, crashes *)

\* recall: the gate, then the search while nobody rebuilds.  It finds every
\* document of the text that was asked for.
GateAlwaysOpen == TRUE
GateOpen == ~dom.repair
RecallGate(t) ==
  /\ May(t, "recall") /\ GateOpen
  /\ \E x \in Text :
       owed' = [owed EXCEPT ![t] =
                    {[obs |-> o, row |-> rows[o]] :
                       o \in {p \in Obs : rows[p].st = "active" /\ rows[p].text = x}}]
  /\ Goto(t, "search")
  /\ UNCHANGED <<canon, index, barrier, draft, batch, env>>
RecallSearch(t) ==
  /\ pc[t] = "search" /\ Free(t)
  /\ owed' = [owed EXCEPT ![t] = {}]
  /\ Goto(t, "idle")
  /\ UNCHANGED <<canon, index, barrier, draft, batch, env>>

\* Rows deleted for good, and their documents as far as the index allows:
\* deleted and saved, deleted only in memory, or left.
Erase(S) ==
  /\ rows' = [o \in Obs |-> IF o \in S THEN [NotLoaded EXCEPT !.st = "gone"] ELSE rows[o]]
  /\ LET erased == [o \in Obs |-> IF o \in S THEN {} ELSE mem[o]] IN
     \/ mem' = erased /\ disk' = erased /\ UNCHANGED env
     \/ Fault /\ mem' \in {mem, erased} /\ UNCHANGED <<disk, mix, overtaken>>
  /\ UNCHANGED <<revs, dom, outbox, sets, tokens>>

\* forget_entity_by_id; the observations are those of one entity.
ForgetEntity(t) ==
  /\ May(t, "forget entity") /\ Free(t)
  /\ {o \in Obs : rows[o].st \in Present} # {}
  /\ Erase({o \in Obs : rows[o].st \in Present})
  /\ UNCHANGED <<barrier, pc, draft, batch, owed>>

\* prune_with_ttl: any retired observation may be old enough.
Prune(t) ==
  /\ May(t, "prune") \/ pc[t] = "prune"
  /\ Free(t)
  /\ \E S \in SUBSET {o \in Obs : rows[o].st = "retired"} : Erase(S)
  /\ Goto(t, "idle")
  /\ UNCHANGED <<barrier, draft, batch, owed>>

\* The process ends and is started again: open loads the file of the index.
Crash ==
  /\ Fault
  /\ mem' = disk
  /\ barrier' = Nobody
  /\ pc' = [t \in Thread |-> "idle"]
  /\ draft' = [t \in Thread |-> NoDraft]
  /\ batch' = [t \in Thread |-> <<>>]
  /\ owed' = [t \in Thread |-> {}]
  /\ UNCHANGED <<canon, disk, mix, overtaken>>

-----------------------------------------------------------------------------
Next ==
  \/ \E t \in Thread :
       \/ DraftChange(t) \/ DraftRetirement(t) \/ Submit(t) \/ Approve(t) \/ Reject(t)
       \/ Remember(t) \/ Preview(t) \/ Backfill(t)
       \/ RepairSelect(t) \/ RepairLoad(t) \/ RepairPublish(t) \/ RepairFails(t)
       \/ Sync(t) \/ SyncFails(t) \/ MarkApplied(t) \/ MarkFails(t)
       \/ RecallGate(t) \/ RecallSearch(t)
       \/ ForgetEntity(t) \/ Prune(t)
  \/ CompactRejected \/ Expire \/ Flush \/ Crash

Spec == Init /\ [][Next]_vars

-----------------------------------------------------------------------------
(* Properties *)

\* Every variable stays in its domain: the row and revision records, the
\* lifecycle of change_sets and confirmations, and the threads' places.
TypeOK ==
  /\ rows \in [Obs -> Row]
  /\ \A o \in Obs : \A k \in DOMAIN revs[o] : revs[o][k] \in Revision
  /\ dom \in [gen : Nat, indexed : Nat, repair : BOOLEAN]
  /\ outbox \subseteq Item
  /\ \A i \in DOMAIN sets : /\ sets[i].state \in State
                            /\ sets[i].gen \in 0..dom.gen
                            /\ (sets[i].state = "applied") = (sets[i].gen > 0)
  /\ \A k \in DOMAIN tokens : tokens[k].state \in {"fresh", "expired", "consumed"}
  /\ mem \in [Obs -> SUBSET Text] /\ disk \in [Obs -> SUBSET Text]
  /\ barrier \in Thread \cup {Nobody}
  /\ pc \in [Thread -> Pc]
  /\ \A t \in Thread : barrier = t => pc[t] \in {"mark", "sync"}
  /\ overtaken \subseteq Obs

\* The revision log is the history of the row: a linear chain whose head is
\* the row as it is, so a revert finds what was there (insert_observation_revision,
\* replace_observation, backfill_audit).
Lineage ==
  \A o \in Obs :
    /\ \A k \in DOMAIN revs[o] : revs[o][k].parent = k - 1
    /\ rows[o].st \in Present /\ rows[o].head # 0
         => /\ rows[o].head = Len(revs[o])
            /\ rows[o].text = Last(revs[o]).text
            /\ rows[o].st = Last(revs[o]).st

\* Every semantic generation is one applied changeset, and its revisions are
\* those of the changeset's operations, all of them: a changeset is applied
\* entirely or not at all, whether submitted, approved or a remember.
Accounted ==
  \A g \in 1..dom.gen :
    \E i \in DOMAIN sets :
      /\ \A j \in DOMAIN sets : sets[j].gen = g <=> j = i
      /\ DOMAIN sets[i].ops = {o \in Obs : \E k \in DOMAIN revs[o] : revs[o][k].gen = g}

\* A request repeated because its answer was lost is not recorded, and so not
\* applied, a second time (load_existing_receipt, under the barrier).
OncePerKey ==
  \A i, j \in DOMAIN sets : sets[i].key = sets[j].key /\ sets[i].key # NoKey => i = j

Applied == {i \in DOMAIN sets' : sets'[i].state = "applied"}
             \ {i \in DOMAIN sets : sets[i].state = "applied"}

\* An operation replaces the very row its author has read: whatever others
\* committed between the read and the commit, or the review, is never lost.
NoLostUpdate ==
  [][\A i \in Applied : \A o \in DOMAIN sets'[i].ops :
       LET op == sets'[i].ops[o] IN
       op.kind # "remember" => rows[o].text = op.basis.text /\ rows[o].st = op.basis.st]_vars

\* An observation is destroyed as its actor saw it in the preview, once, and
\* never with an expired or used confirmation.
DestroyOnlyAsPreviewed ==
  [][\A i \in Applied : \A o \in DOMAIN sets'[i].ops :
       LET op == sets'[i].ops[o] IN
       op.kind = "destroy" => /\ tokens[op.tok].state = "fresh"
                              /\ tokens'[op.tok].state = "consumed"
                              /\ tokens[op.tok].actor = sets'[i].actor
                              /\ tokens[op.tok].row.text = rows[o].text
                              /\ tokens[op.tok].row.st = rows[o].st]_vars

\* While an item is pending the domain says so, both to the recall gate and in
\* the generation the index is said to hold (mark_index_rows_applied).
OutboxHonest ==
  /\ outbox # {} => dom.repair
  /\ dom.indexed <= dom.gen
  /\ \A i \in outbox : dom.indexed < i.gen /\ i.gen <= dom.gen

InIndex(o)  == rows[o].text \in mem[o] /\ rows[o].text \in disk[o]
Settled(o)  == rows[o].st = "active" /\ \A i \in outbox : i.obs # o

\* What is active and not pending is found, now and after a restart, unless an
\* outdated repair has overtaken a newer one (see IndexFollows).
IndexComplete == \A o \in Obs : Settled(o) /\ o \notin overtaken => InIndex(o)

\* An observation that was active when a recall passed the gate, and still is
\* what it was, is among the candidates whenever the search can run, whatever
\* repairs, crashes and deletions came in between.
RecallSound ==
  \A t \in Thread : pc[t] = "search" /\ Free(t) =>
    \A w \in owed[t] : rows[w.obs] = w.row /\ w.obs \notin overtaken
                           => w.row.text \in mem[w.obs]

\* "The outbox remains authoritative if a concurrent write adds a newer
\* generation before this batch acquires the publish barrier" (repair_index):
\* what is active and not pending is found.
IndexFollows == \A o \in Obs : Settled(o) => InIndex(o)
=============================================================================
