---------------------------- MODULE ChangeSetProofs ----------------------------
(***************************************************************************)
(* Theorems about one store (ChangeSets): for every set of observations,   *)
(* texts, actors, keys and threads and every workload, whatever fails and  *)
(* wherever the process stops, the audit log accounts for the rows and     *)
(* what is active and settled is in the index.                             *)
(***************************************************************************)
EXTENDS ChangeSets, SequenceTheorems, WellFoundedInduction, TLAPS

-----------------------------------------------------------------------------
(* The inductive invariant of the audit log. *)

Ops    == UNION {[S -> Op] : S \in SUBSET Obs}
Filed  == [key : Key \cup {NoKey}, mode : Mode, actor : Actor \cup {System}, ops : Ops,
           kept : BOOLEAN, state : State, gen : Nat]
Token  == [obs : Obs, row : Row, actor : Actor, state : {"fresh", "expired", "consumed"}]
AuditTypes ==
  /\ mix \in Mixes
  /\ rows \in [Obs -> Row] /\ revs \in [Obs -> Seq(Revision)]
  /\ dom \in [gen : Nat, indexed : Nat, repair : BOOLEAN]
  /\ outbox \subseteq Item
  /\ sets \in Seq(Filed) /\ tokens \in Seq(Token)
  /\ draft \in [Thread -> Draft]

\* The revisions of an observation are numbered and dated in order, and the
\* last is the row, unless there is none yet or the row is gone.
Logged(r, log, gen) ==
  /\ r.st \in Present => r.text \in Text
  /\ r.st = "absent" => r = NotLoaded /\ log = <<>>
  /\ r.st # "gone" => r.head = Len(log)
  /\ r.st \in Present /\ log # <<>> => r.text = Last(log).text /\ r.st = Last(log).st
  /\ \A k \in 1..Len(log) :
       /\ log[k].text \in Text /\ log[k].parent = k - 1 /\ log[k].gen <= gen
       /\ log[k].st = "destroyed" => r.st = "gone"
       /\ \A l \in 1..k - 1 : log[l].gen < log[k].gen
LogInv == \A o \in Obs : Logged(rows[o], revs[o], dom.gen)

\* An item is of a revision, and one that deletes of one that is not active.
Dated(i) == \E k \in 1..Len(revs[i.obs]) :
  /\ revs[i.obs][k].gen = i.gen
  /\ i.op = "delete" => revs[i.obs][k].st # "active"
\* What is pending of an observation includes its newest item.
OutboxInv ==
  /\ \A i \in outbox : Dated(i)
  /\ \A i \in outbox : \E n \in outbox : n.obs = i.obs /\ n.gen = Last(revs[i.obs]).gen

\* A row that was read is the one that is there, or an older version of it.
Seen(o, b) == rows[o].st # "gone" =>
  /\ b.ver <= rows[o].ver
  /\ b.ver = rows[o].ver => b.text = rows[o].text /\ b.st = rows[o].st
Drafted(o, op) ==
  /\ op.kind \in {"remember", "update"} => op.text \in Text
  /\ op.kind = "destroy" => op.tok \in 1..Len(tokens)
  /\ op.kind # "remember" => rows[o].st # "absent"
  /\ Seen(o, op.basis)
Gentle(d) == d.mode = "propose" => \A o \in DOMAIN d.ops : d.ops[o].kind # "destroy"
DraftInv ==
  /\ \A t \in Thread : /\ \A o \in DOMAIN draft[t].ops : Drafted(o, draft[t].ops[o])
                       /\ Gentle(draft[t])
  /\ \A i \in 1..Len(sets) : /\ \A o \in DOMAIN sets[i].ops : Drafted(o, sets[i].ops[o])
                             /\ Gentle(sets[i])
  /\ \A k \in 1..Len(tokens) : /\ Seen(tokens[k].obs, tokens[k].row)
                               /\ rows[tokens[k].obs].st # "absent"

\* A new observation is about to be remembered by one draft or proposal only.
Creates(ops, o) == o \in DOMAIN ops /\ ops[o].kind = "remember"
Claims(t, o)    == Creates(draft[t].ops, o) /\ ~Recorded(draft[t])
Proposes(i, o)  == Creates(sets[i].ops, o) /\ sets[i].state = "proposed"
ClaimInv ==
  \A o \in Obs :
    /\ \A t \in Thread : Claims(t, o) =>
         /\ rows[o].st = "absent"
         /\ \A u \in Thread : Claims(u, o) => u = t
         /\ \A i \in 1..Len(sets) : ~Proposes(i, o)
    /\ \A i \in 1..Len(sets) : Proposes(i, o) =>
         /\ rows[o].st = "absent"
         /\ \A j \in 1..Len(sets) : Proposes(j, o) => j = i

\* Only what is applied has a generation, and only proposals are proposed.
SetInv ==
  \A i \in 1..Len(sets) :
    /\ sets[i].gen <= dom.gen /\ (sets[i].state = "applied" <=> sets[i].gen > 0)
    /\ sets[i].state = "proposed" => sets[i].mode = "propose"

AuditInv == AuditTypes /\ LogInv /\ OutboxInv /\ DraftInv /\ ClaimInv /\ SetInv
              /\ OncePerKey /\ Accounted /\ OutboxHonest

-----------------------------------------------------------------------------
(* The inductive invariant of the index. *)

Batches == UNION {[S -> Row] : S \in SUBSET Item}
IndexTypes ==
  /\ mem \in [Obs -> SUBSET Text] /\ disk \in [Obs -> SUBSET Text]
  /\ barrier \in Thread \cup {Nobody} /\ pc \in [Thread -> Pc]
  /\ batch \in [Thread -> Batches]
  /\ owed \in [Thread -> SUBSET [obs : Obs, row : Row]]
  /\ overtaken \subseteq Obs

\* A batch was pending when it was selected, so what is pending and not in it is
\* newer; the row loaded for the newest item of an active observation is the row.
BatchGood(t) ==
  /\ \A i \in DOMAIN batch[t] :
       /\ Dated(i)
       /\ batch[t][i].st = "active" => batch[t][i].text \in Text
       /\ i \in Loaded(t) /\ i.gen = Last(revs[i.obs]).gen /\ rows[i.obs].st = "active"
            => batch[t][i].st = "active" /\ batch[t][i].text = rows[i.obs].text
       /\ \A n \in outbox \ DOMAIN batch[t] : n.obs = i.obs => n.gen > i.gen
  /\ pc[t] = "publish" => Loaded(t) = DOMAIN batch[t]
BatchInv == \A t \in Thread : BatchGood(t)
\* The barrier is held from a publication to its mark, and by a remember until
\* its sync.
BarrierInv ==
  \A t \in Thread :
    /\ barrier = t => pc[t] \in {"mark", "sync"}
    /\ pc[t] = "sync" =>
         /\ barrier = t
         /\ \A i \in DOMAIN batch[t] : /\ i.op = "upsert" /\ rows[i.obs].st = "active"
                                       /\ batch[t][i] = rows[i.obs]

\* An active observation is in the index, or an item of it is pending that nobody
\* is about to mark.
Unmarked(i) == \A t \in Thread : pc[t] = "mark" => i \notin DOMAIN batch[t]
Awaited(o)  == \E i \in outbox : i.obs = o /\ Unmarked(i)
FreshInv    == \A o \in Obs \ overtaken : rows[o].st = "active" => InIndex(o) \/ Awaited(o)

\* What a recall owes was settled at its gate, and still is if it is unchanged.
OwedInv ==
  \A t \in Thread : \A w \in owed[t] :
    /\ w.row.st = "active" /\ Seen(w.obs, w.row)
    /\ rows[w.obs].st # "gone" /\ rows[w.obs].ver = w.row.ver
         => \A i \in outbox : i.obs # w.obs

IndexInv == IndexTypes /\ BatchInv /\ BarrierInv /\ FreshInv /\ OwedInv

-----------------------------------------------------------------------------
(* The operators that apply a changeset. *)

\* The operations of a changeset are a function on some of the observations.
LEMMA OpsShape ==
  ASSUME NEW f
  PROVE  f \in Ops <=> DOMAIN f \subseteq Obs /\ f \in [DOMAIN f -> Op]
BY DEF Ops

\* A batch is a function on some items.
LEMMA BatchShape ==
  ASSUME NEW f
  PROVE  f \in Batches <=> DOMAIN f \subseteq Item /\ f \in [DOMAIN f -> Row]
BY DEF Batches

\* The log of a row stays in order when generations pass.
LEMMA LoggedLater ==
  ASSUME NEW r \in Row, NEW log \in Seq(Revision), NEW g \in Nat, NEW h \in Nat, g <= h,
         Logged(r, log, g)
  PROVE  Logged(r, log, h)
<1>1. \A k \in 1..Len(log) : log[k] \in Revision
  OBVIOUS
<1>2. \A k \in 1..Len(log) : log[k].gen \in Nat
  BY <1>1 DEF Revision
<1> QED
  BY <1>2 DEF Logged

\* A revision of the next generation on top of the head keeps it so.
LEMMA LoggedAppend ==
  ASSUME NEW r \in Row, NEW log \in Seq(Revision), NEW g \in Nat, Logged(r, log, g), r.st # "gone",
         NEW s \in Row, s.st \in {"active", "retired", "gone"}, s.text \in Text,
         s.head = Len(log) + 1,
         NEW v \in Revision, v.text = s.text, v.parent = r.head, NEW h \in Nat, v.gen <= h, g <= h,
         \A k \in 1..Len(log) : log[k].gen < v.gen,
         s.st = "gone" => v.st = "destroyed", s.st # "gone" => v.st = s.st
  PROVE  Logged(s, Append(log, v), h)
<1> DEFINE new == Append(log, v)
<1>1. /\ new \in Seq(Revision) /\ Len(new) = Len(log) + 1 /\ new # <<>> /\ Last(new) = v
      /\ new[Len(log) + 1] = v /\ \A k \in 1..Len(log) : new[k] = log[k]
  BY DEF Last
<1>2. /\ \A k \in 1..Len(log) : log[k].gen \in Nat /\ log[k].gen <= g
      /\ v.gen \in Nat /\ v.text \in Text /\ v.parent = Len(log)
  <2>1. \A k \in 1..Len(log) : log[k] \in Revision
    OBVIOUS
  <2>2. \A k \in 1..Len(log) : log[k].gen \in Nat
    BY <2>1 DEF Revision
  <2> QED
    BY <2>2 DEF Logged, Revision
<1>3. v.st # "destroyed" \/ s.st = "gone"
  BY DEF Revision
<1>4. \A k \in 1..Len(new) : k = Len(log) + 1 \/ k \in 1..Len(log)
  BY <1>1
<1>5. \A k \in 1..Len(new) :
        /\ new[k].text \in Text /\ new[k].parent = k - 1 /\ new[k].gen <= h
        /\ new[k].st = "destroyed" => s.st = "gone"
        /\ \A l \in 1..k - 1 : new[l].gen < new[k].gen
  <2> SUFFICES ASSUME NEW k \in 1..Len(new)
               PROVE  /\ new[k].text \in Text /\ new[k].parent = k - 1 /\ new[k].gen <= h
                      /\ new[k].st = "destroyed" => s.st = "gone"
                      /\ \A l \in 1..k - 1 : new[l].gen < new[k].gen
    OBVIOUS
  <2>1. CASE k = Len(log) + 1
    <3>1. new[k] = v /\ \A l \in 1..k - 1 : l \in 1..Len(log) /\ new[l] = log[l]
      BY <1>1, <2>1
    <3> HIDE DEF new
    <3> QED
      BY <1>2, <1>3, <2>1, <3>1
  <2>2. CASE k \in 1..Len(log)
    <3>1. new[k] = log[k] /\ \A l \in 1..k - 1 : l \in 1..Len(log) /\ new[l] = log[l]
      BY <1>1, <2>2
    <3>2. /\ log[k].text \in Text /\ log[k].parent = k - 1 /\ log[k].gen <= g
          /\ log[k].st = "destroyed" => r.st = "gone"
          /\ \A l \in 1..k - 1 : log[l].gen < log[k].gen
      BY <2>2 DEF Logged
    <3> HIDE DEF new
    <3> QED
      BY <1>2, <2>2, <3>1, <3>2
  <2> QED
    BY <1>4, <2>1, <2>2
<1>6. /\ s.st \in Present => s.text \in Text
      /\ s.st # "absent" /\ s.head = Len(new)
      /\ s.st \in Present => s.text = Last(new).text /\ s.st = Last(new).st
  BY <1>1 DEF Present
<1> HIDE DEF new
<1> QED
  BY <1>5, <1>6 DEF Logged, new

\* Operations that may be applied to the rows as they are.
Applicable(o, op) == IF op.kind = "remember" THEN rows[o].st = "absent" ELSE Holds(o, op)
GoodOps(ops)      == /\ ops \in Ops
                     /\ \A o \in DOMAIN ops : Drafted(o, ops[o]) /\ Applicable(o, ops[o])

\* What holds of an operation that may be applied.
LEMMA ApplicableRow ==
  ASSUME AuditTypes, LogInv, NEW o \in Obs, NEW op \in Op, Drafted(o, op), Applicable(o, op)
  PROVE  /\ rows[o].st # "gone"
         /\ op.kind \notin {"remember", "update"} => rows[o].text \in Text /\ rows[o].st \in Present
         /\ op.kind = "revert" => /\ op.rev \in 1..Len(revs[o])
                                  /\ revs[o][op.rev].text \in Text
                                  /\ revs[o][op.rev].st \in {"active", "retired"}
         /\ op.kind \in {"remember", "update"} => op.text \in Text
<1>1. op.kind \in Kind
  BY DEF Op
<1>2. op.kind # "remember" => rows[o].st \in Present
  BY <1>1 DEF Applicable, Holds, Lifecycles, Kind, Present
<1>3. rows[o].st # "gone"
  BY <1>2 DEF Applicable, Present
<1>4. op.kind = "revert" => op.rev \in 1..Len(revs[o])
  BY DEF Applicable, Holds
<1>5. ASSUME op.kind = "revert"
      PROVE  revs[o][op.rev].text \in Text /\ revs[o][op.rev].st \in {"active", "retired"}
  <2>1. revs[o] \in Seq(Revision) /\ Logged(rows[o], revs[o], dom.gen)
    BY DEF AuditTypes, LogInv
  <2>2. revs[o][op.rev] \in Revision
    BY <1>4, <1>5, <2>1
  <2>3. revs[o][op.rev].text \in Text /\ (revs[o][op.rev].st = "destroyed" => rows[o].st = "gone")
    BY <1>4, <1>5, <2>1 DEF Logged
  <2> QED
    BY <1>3, <2>2, <2>3 DEF Revision
<1>6. rows[o].st \in Present => rows[o].text \in Text
  BY DEF LogInv, Logged
<1> QED
  BY <1>1, <1>2, <1>3, <1>4, <1>5, <1>6 DEF Drafted

\* The row it leaves.
LEMMA RowAfterShape ==
  ASSUME AuditTypes, LogInv, NEW o \in Obs, NEW op \in Op, Drafted(o, op), Applicable(o, op)
  PROVE  /\ RowAfter(o, op) \in Row
         /\ RowAfter(o, op).st \in {"active", "retired", "gone"}
         /\ RowAfter(o, op).st = "gone" <=> op.kind = "destroy"
         /\ op.kind = "remember" => RowAfter(o, op).st = "active"
         /\ op.kind = "retire" => RowAfter(o, op).st = "retired"
         /\ RowAfter(o, op).text \in Text
         /\ RowAfter(o, op).ver = rows[o].ver + 1 /\ RowAfter(o, op).head = Len(revs[o]) + 1
<1> DEFINE st == RowAfter(o, op).st
           text == RowAfter(o, op).text
<1>1. /\ rows[o] \in Row /\ revs[o] \in Seq(Revision) /\ op.kind \in Kind
      /\ rows[o].ver \in Nat /\ Len(revs[o]) \in Nat
  BY DEF AuditTypes, Op, Row
<1>2. /\ st \in {"active", "retired", "gone"} /\ (st = "gone" <=> op.kind = "destroy")
      /\ op.kind = "remember" => st = "active"
      /\ op.kind = "retire" => st = "retired"
  BY ApplicableRow DEF RowAfter
<1>3. text \in Text
  BY <1>1, ApplicableRow DEF RowAfter, Kind
<1>4. RowAfter(o, op) = [st |-> st, text |-> text, ver |-> rows[o].ver + 1, head |-> Len(revs[o]) + 1]
  BY DEF RowAfter
<1> HIDE DEF st, text
<1>5. RowAfter(o, op) \in Row
  BY <1>1, <1>2, <1>3, <1>4 DEF Row
<1> QED
  BY <1>2, <1>3, <1>4, <1>5 DEF st, text

\* And its revision.
LEMMA RevisionAfterShape ==
  ASSUME AuditTypes, LogInv, NEW o \in Obs, NEW op \in Op, Drafted(o, op), Applicable(o, op)
  PROVE  /\ RevisionAfter(o, op) \in Revision
         /\ RevisionAfter(o, op).text = RowAfter(o, op).text
         /\ RevisionAfter(o, op).parent = rows[o].head /\ RevisionAfter(o, op).gen = dom.gen + 1
         /\ op.kind = "destroy" => RevisionAfter(o, op).st = "destroyed"
         /\ op.kind # "destroy" => RevisionAfter(o, op).st = RowAfter(o, op).st
<1>1. rows[o].head \in Nat /\ dom.gen \in Nat
  BY DEF AuditTypes, Row
<1> DEFINE st == IF op.kind = "destroy" THEN "destroyed" ELSE RowAfter(o, op).st
           text == RowAfter(o, op).text
<1>2. st \in {"active", "retired", "destroyed"} /\ text \in Text
  BY RowAfterShape
<1>3. RevisionAfter(o, op) = [text |-> text, st |-> st, parent |-> rows[o].head, gen |-> dom.gen + 1]
  BY DEF RevisionAfter
<1>4. [text |-> text, st |-> st, parent |-> rows[o].head, gen |-> dom.gen + 1] \in Revision
  <2> HIDE DEF st, text
  <2> QED
    BY <1>1, <1>2 DEF Revision
<1> QED
  BY <1>3, <1>4

-----------------------------------------------------------------------------
(* The transaction of a changeset. *)

\* Rows and previews only move on: a row that was there is not absent again, one
\* that is gone does not come back, and its version grows with every change.
Advance ==
  \A o \in Obs :
    /\ rows[o].st # "absent" => rows'[o].st # "absent"
    /\ rows'[o].st # "gone" =>
         /\ rows[o].st # "gone"
         /\ \/ rows'[o].ver > rows[o].ver
            \/ rows'[o].ver = rows[o].ver /\ rows'[o].text = rows[o].text /\ rows'[o].st = rows[o].st
Onward ==
  /\ Advance
  /\ Len(tokens) <= Len(tokens')
  /\ \A k \in 1..Len(tokens) : tokens'[k].obs = tokens[k].obs /\ tokens'[k].row = tokens[k].row

\* What a row and its log are after a commit.
Follows(o, op) ==
  /\ rows'[o] = RowAfter(o, op) /\ revs'[o] = Append(revs[o], RevisionAfter(o, op))

\* It writes each of its rows and revisions, and no other.
LEMMA CommitShape ==
  ASSUME AuditTypes, LogInv, NEW ops, GoodOps(ops), CommitOps(ops)
  PROVE  /\ rows' \in [Obs -> Row] /\ revs' \in [Obs -> Seq(Revision)]
         /\ DOMAIN ops \subseteq Obs /\ \A o \in DOMAIN ops : ops[o] \in Op
         /\ \A o \in DOMAIN ops : Follows(o, ops[o])
         /\ \A o \in Obs \ DOMAIN ops : rows'[o] = rows[o] /\ revs'[o] = revs[o]
         /\ dom' = [gen |-> dom.gen + 1, indexed |-> dom.indexed,
                    repair |-> (dom.repair \/ outbox' # {})]
         /\ dom' \in [gen : Nat, indexed : Nat, repair : BOOLEAN]
         /\ outbox' = outbox \cup OutboxOf(ops) /\ outbox' \subseteq Item
         /\ tokens' \in Seq(Token) /\ Len(tokens') = Len(tokens)
         /\ \A k \in 1..Len(tokens) :
              /\ tokens'[k].obs = tokens[k].obs /\ tokens'[k].row = tokens[k].row
              /\ \A o \in DOMAIN ops : ops[o].kind = "destroy" /\ ops[o].tok = k
                                         => tokens'[k].state = "consumed"
<1>1. /\ DOMAIN ops \subseteq Obs /\ \A o \in DOMAIN ops : ops[o] \in Op
      /\ \A o \in DOMAIN ops : Drafted(o, ops[o]) /\ Applicable(o, ops[o])
  BY OpsShape DEF GoodOps
<1>2. \A o \in DOMAIN ops : RowAfter(o, ops[o]) \in Row /\ RevisionAfter(o, ops[o]) \in Revision
  BY <1>1, RowAfterShape, RevisionAfterShape
<1>3. rows \in [Obs -> Row] /\ revs \in [Obs -> Seq(Revision)]
  BY DEF AuditTypes
<1>4. /\ rows' \in [Obs -> Row]
      /\ \A o \in DOMAIN ops : rows'[o] = RowAfter(o, ops[o])
      /\ \A o \in Obs \ DOMAIN ops : rows'[o] = rows[o]
  BY <1>1, <1>2, <1>3 DEF CommitOps
<1>5. /\ revs' \in [Obs -> Seq(Revision)]
      /\ \A o \in DOMAIN ops : revs'[o] = Append(revs[o], RevisionAfter(o, ops[o]))
      /\ \A o \in Obs \ DOMAIN ops : revs'[o] = revs[o]
  <2>1. \A o \in DOMAIN ops : Append(revs[o], RevisionAfter(o, ops[o])) \in Seq(Revision)
    BY <1>1, <1>2, <1>3
  <2> QED
    BY <1>1, <1>3, <2>1 DEF CommitOps
<1>6. /\ dom' = [gen |-> dom.gen + 1, indexed |-> dom.indexed,
                 repair |-> (dom.repair \/ outbox' # {})]
      /\ dom' \in [gen : Nat, indexed : Nat, repair : BOOLEAN]
  <2>1. dom \in [gen : Nat, indexed : Nat, repair : BOOLEAN]
    BY DEF AuditTypes
  <2>2. dom' = [dom EXCEPT !.gen = dom.gen + 1, !.repair = dom.repair \/ outbox' # {}]
    BY DEF CommitOps
  <2> DEFINE b == dom.repair \/ outbox' # {}
  <2>3. b \in BOOLEAN
    OBVIOUS
  <2>4. dom' = [dom EXCEPT !.gen = dom.gen + 1, !.repair = b]
    BY <2>2
  <2> HIDE DEF b
  <2>5. dom' = [gen |-> dom.gen + 1, indexed |-> dom.indexed, repair |-> b]
    BY <2>1, <2>4
  <2>6. dom' \in [gen : Nat, indexed : Nat, repair : BOOLEAN]
    BY <2>1, <2>3, <2>5
  <2> QED
    BY <2>5, <2>6 DEF b
<1>7. outbox' = outbox \cup OutboxOf(ops) /\ outbox' \subseteq Item
  <2>1. dom.gen + 1 \in Nat /\ outbox \subseteq Item
    BY DEF AuditTypes
  <2>2. OutboxOf(ops) \subseteq Item
    BY <1>1, <2>1 DEF OutboxOf, Item
  <2> QED
    BY <2>1, <2>2 DEF CommitOps
<1>8. /\ tokens' \in Seq(Token) /\ Len(tokens') = Len(tokens)
      /\ \A k \in 1..Len(tokens) :
              /\ tokens'[k].obs = tokens[k].obs /\ tokens'[k].row = tokens[k].row
              /\ \A o \in DOMAIN ops : ops[o].kind = "destroy" /\ ops[o].tok = k
                                         => tokens'[k].state = "consumed"
  <2> DEFINE Used(k) == \E o \in DOMAIN ops : ops[o].kind = "destroy" /\ ops[o].tok = k
             after(k) == IF Used(k) THEN [tokens[k] EXCEPT !.state = "consumed"] ELSE tokens[k]
  <2>1. tokens \in Seq(Token) /\ DOMAIN tokens = 1..Len(tokens) /\ Len(tokens) \in Nat
    BY DEF AuditTypes
  <2>2. tokens' = [k \in 1..Len(tokens) |-> after(k)]
    BY <2>1 DEF CommitOps
  <2>3. \A k \in 1..Len(tokens) :
          /\ after(k) \in Token /\ after(k).obs = tokens[k].obs /\ after(k).row = tokens[k].row
          /\ Used(k) => after(k).state = "consumed"
    <3> SUFFICES ASSUME NEW k \in 1..Len(tokens)
                 PROVE  /\ after(k) \in Token /\ after(k).obs = tokens[k].obs /\ after(k).row = tokens[k].row
                        /\ Used(k) => after(k).state = "consumed"
      OBVIOUS
    <3>1. tokens[k] \in Token
      BY <2>1
    <3> HIDE DEF Used
    <3> QED
      BY <3>1 DEF Token
  <2> HIDE DEF after
  <2>4. tokens' \in [1..Len(tokens) -> Token]
    BY <2>2, <2>3
  <2>5. tokens' \in Seq(Token) /\ Len(tokens') = Len(tokens)
    BY <2>1, <2>4
  <2>6. \A k \in 1..Len(tokens) : tokens'[k] = after(k)
    BY <2>2
  <2> QED
    BY <2>3, <2>5, <2>6
<1> QED
  BY <1>1, <1>4, <1>5, <1>6, <1>7, <1>8 DEF Follows

\* It moves on, and the logs account for it.
LEMMA CommitLogs ==
  ASSUME AuditTypes, LogInv, NEW ops, GoodOps(ops), CommitOps(ops)
  PROVE  /\ Onward /\ LogInv'
         /\ \A o \in DOMAIN ops : rows'[o].st # "absent" /\ rows'[o].ver = rows[o].ver + 1
<1> USE CommitShape
<1>1. /\ \A o \in DOMAIN ops : Drafted(o, ops[o]) /\ Applicable(o, ops[o])
      /\ \A o \in Obs : rows[o] \in Row /\ revs[o] \in Seq(Revision) /\ rows[o].ver \in Nat
      /\ dom.gen \in Nat /\ dom'.gen = dom.gen + 1
  BY DEF GoodOps, AuditTypes, Row
<1>2. \A o \in DOMAIN ops : /\ rows[o].st # "gone" /\ rows'[o].ver = rows[o].ver + 1
                            /\ rows'[o].st # "absent"
  <2> SUFFICES ASSUME NEW o \in DOMAIN ops
               PROVE  rows[o].st # "gone" /\ rows'[o].ver = rows[o].ver + 1 /\ rows'[o].st # "absent"
    OBVIOUS
  <2>1. o \in Obs /\ ops[o] \in Op /\ Drafted(o, ops[o]) /\ Applicable(o, ops[o])
        /\ rows'[o] = RowAfter(o, ops[o])
    BY <1>1 DEF Follows
  <2>2. rows[o].st # "gone"
    BY <2>1, ApplicableRow
  <2>3. /\ RowAfter(o, ops[o]).st \in {"active", "retired", "gone"}
        /\ RowAfter(o, ops[o]).ver = rows[o].ver + 1
    BY <2>1, RowAfterShape
  <2> QED
    BY <2>1, <2>2, <2>3
<1>3. Onward
  BY <1>1, <1>2 DEF Onward, Advance
<1>4. \A o \in Obs : Logged(rows'[o], revs'[o], dom'.gen)
  <2> SUFFICES ASSUME NEW o \in Obs PROVE Logged(rows'[o], revs'[o], dom'.gen)
    OBVIOUS
  <2>1. Logged(rows[o], revs[o], dom.gen)
    BY DEF LogInv
  <2>2. CASE o \notin DOMAIN ops
    BY <1>1, <2>1, <2>2, LoggedLater
  <2>3. CASE o \in DOMAIN ops
    <3> DEFINE s == RowAfter(o, ops[o])
               v == RevisionAfter(o, ops[o])
    <3>1. rows'[o] = s /\ revs'[o] = Append(revs[o], v)
      BY <2>3 DEF Follows
    <3>2. /\ s \in Row /\ s.st \in {"active", "retired", "gone"} /\ s.text \in Text
          /\ s.head = Len(revs[o]) + 1
          /\ v \in Revision /\ v.text = s.text /\ v.parent = rows[o].head /\ v.gen = dom'.gen
          /\ s.st = "gone" => v.st = "destroyed"
          /\ s.st # "gone" => v.st = s.st
      BY <1>1, <2>3, RowAfterShape, RevisionAfterShape
    <3> HIDE DEF s, v
    <3>3. \A k \in 1..Len(revs[o]) : revs[o][k].gen < v.gen
      <4>1. \A k \in 1..Len(revs[o]) : revs[o][k] \in Revision
        BY <1>1
      <4>2. \A k \in 1..Len(revs[o]) : revs[o][k].gen \in Nat /\ revs[o][k].gen <= dom.gen
        BY <2>1, <4>1 DEF Revision, Logged
      <4> QED
        BY <1>1, <3>2, <4>2
    <3>4. /\ rows[o] \in Row /\ revs[o] \in Seq(Revision) /\ rows[o].st # "gone"
          /\ dom'.gen \in Nat /\ dom.gen <= dom'.gen /\ v.gen <= dom'.gen
      BY <1>1, <1>2, <2>3, <3>2
    <3>5. Logged(s, Append(revs[o], v), dom'.gen)
      BY <1>1, <2>1, <3>2, <3>3, <3>4, LoggedAppend
    <3> QED
      BY <3>1, <3>5
  <2> QED
    BY <2>2, <2>3
<1>5. LogInv'
  BY <1>4 DEF LogInv
<1> QED
  BY <1>2, <1>3, <1>5

\* Logs only grow.
LogsGrow ==
  \A o \in Obs : /\ revs'[o] \in Seq(Revision) /\ Len(revs[o]) <= Len(revs'[o])
                 /\ \A k \in 1..Len(revs[o]) : revs'[o][k] = revs[o][k]

\* An item stays one of its log.
LEMMA DatedStays ==
  ASSUME AuditTypes, LogsGrow, NEW i \in Item, Dated(i)
  PROVE  Dated(i)'
<1>1. PICK k \in 1..Len(revs[i.obs]) : /\ revs[i.obs][k].gen = i.gen
                                       /\ i.op = "delete" => revs[i.obs][k].st # "active"
  BY DEF Dated
<1>2. i.obs \in Obs
  BY DEF Item
<1>3. k \in 1..Len(revs'[i.obs]) /\ revs'[i.obs][k] = revs[i.obs][k]
  BY <1>1, <1>2 DEF LogsGrow, AuditTypes
<1> QED
  BY <1>1, <1>3 DEF Dated

\* The newest revision of an observation with an item is the newest date, and of
\* an active one it is no deletion.
LEMMA DatedBound ==
  ASSUME AuditTypes, LogInv, NEW i \in Item, Dated(i)
  PROVE  /\ i.obs \in Obs /\ revs[i.obs] # <<>> /\ rows[i.obs].st # "absent"
         /\ i.gen \in Nat /\ Last(revs[i.obs]).gen \in Nat
         /\ i.gen <= Last(revs[i.obs]).gen /\ Last(revs[i.obs]).gen <= dom.gen
         /\ rows[i.obs].st = "active" /\ i.gen = Last(revs[i.obs]).gen => i.op = "upsert"
<1> DEFINE o == i.obs
           n == Len(revs[o])
<1>1. PICK k \in 1..n : revs[o][k].gen = i.gen /\ (i.op = "delete" => revs[o][k].st # "active")
  BY DEF Dated
<1>2. o \in Obs /\ i.gen \in Nat /\ i.op \in {"upsert", "delete"}
  BY DEF Item
<1>3. revs[o] \in Seq(Revision) /\ n \in Nat /\ dom.gen \in Nat
  BY <1>2 DEF AuditTypes
<1>4. Logged(rows[o], revs[o], dom.gen)
  BY <1>2 DEF LogInv
<1>5. revs[o] # <<>> /\ n \in 1..n /\ k \in 1..n /\ Last(revs[o]) = revs[o][n]
  BY <1>1, <1>3 DEF Last
<1>6. revs[o][n] \in Revision
  BY <1>3, <1>5
<1>7. revs[o][n].gen \in Nat
  BY <1>6 DEF Revision
<1>8. rows[o].st # "absent" /\ revs[o][n].gen <= dom.gen /\ \A l \in 1..n - 1 : revs[o][l].gen < revs[o][n].gen
  BY <1>4, <1>5 DEF Logged
<1>9. k = n \/ revs[o][k].gen < revs[o][n].gen
  BY <1>3, <1>5, <1>8
<1>10. rows[o].st = "active" => Last(revs[o]).st = "active"
  BY <1>4, <1>5 DEF Logged, Present
<1> HIDE DEF o, n
<1>11. i.gen <= revs[o][n].gen
  BY <1>1, <1>2, <1>7, <1>9
<1>12. rows[o].st = "active" /\ i.gen = Last(revs[o]).gen => i.op = "upsert"
  <2> SUFFICES ASSUME rows[o].st = "active", i.gen = Last(revs[o]).gen, i.op = "delete" PROVE FALSE
    BY <1>2
  <2>1. k = n
    BY <1>1, <1>2, <1>5, <1>7, <1>9
  <2> QED
    BY <1>1, <1>5, <1>10, <2>1
<1> QED
  BY <1>2, <1>5, <1>7, <1>8, <1>11, <1>12 DEF o

\* After a commit what is pending is dated and includes the newest.
LEMMA CommitOutbox ==
  ASSUME AuditTypes, LogInv, OutboxInv, NEW ops, GoodOps(ops), CommitOps(ops)
  PROVE  /\ LogsGrow /\ OutboxInv'
         /\ \A i \in outbox' \ outbox : i.obs \in DOMAIN ops /\ i.gen = dom.gen + 1
<1> USE CommitShape
<1>1. /\ \A o \in DOMAIN ops : Drafted(o, ops[o]) /\ Applicable(o, ops[o])
      /\ \A o \in Obs : revs[o] \in Seq(Revision) /\ revs'[o] \in Seq(Revision)
      /\ dom.gen \in Nat
  BY DEF GoodOps, AuditTypes
<1>2. \A o \in DOMAIN ops : RevisionAfter(o, ops[o]) \in Revision
  BY <1>1, RevisionAfterShape
<1>3. \A o \in DOMAIN ops :
        /\ Len(revs'[o]) = Len(revs[o]) + 1 /\ revs'[o][Len(revs[o]) + 1] = RevisionAfter(o, ops[o])
        /\ \A k \in 1..Len(revs[o]) : revs'[o][k] = revs[o][k]
  <2> SUFFICES ASSUME NEW o \in DOMAIN ops
               PROVE  /\ Len(revs'[o]) = Len(revs[o]) + 1
                      /\ revs'[o][Len(revs[o]) + 1] = RevisionAfter(o, ops[o])
                      /\ \A k \in 1..Len(revs[o]) : revs'[o][k] = revs[o][k]
    OBVIOUS
  <2>1. o \in Obs /\ revs[o] \in Seq(Revision) /\ RevisionAfter(o, ops[o]) \in Revision
    BY <1>1, <1>2
  <2>2. revs'[o] = Append(revs[o], RevisionAfter(o, ops[o]))
    BY DEF Follows
  <2> QED
    BY <2>1, <2>2
<1>4. LogsGrow
  BY <1>1, <1>3 DEF LogsGrow
<1>5. \A i \in outbox' \ outbox :
        /\ i.obs \in DOMAIN ops /\ i.gen = dom.gen + 1
        /\ i.op = "delete" => ops[i.obs].kind \in {"retire", "destroy"}
  BY DEF OutboxOf
<1>6. \A o \in DOMAIN ops : \E n \in outbox' : n.obs = o /\ n.gen = dom.gen + 1
  <2> SUFFICES ASSUME NEW o \in DOMAIN ops
               PROVE  \E n \in outbox' : n.obs = o /\ n.gen = dom.gen + 1
    OBVIOUS
  <2> DEFINE n == [gen |-> dom.gen + 1, obs |-> o,
                   op |-> IF ops[o].kind \in {"retire", "destroy"} THEN "delete" ELSE "upsert"]
  <2>1. n \in OutboxOf(ops)
    BY DEF OutboxOf
  <2> QED
    BY <2>1
<1>7. \A o \in DOMAIN ops :
        /\ Last(revs'[o]) = RevisionAfter(o, ops[o]) /\ RevisionAfter(o, ops[o]).gen = dom.gen + 1
        /\ ops[o].kind \in {"retire", "destroy"} => RevisionAfter(o, ops[o]).st # "active"
  <2> SUFFICES ASSUME NEW o \in DOMAIN ops
               PROVE  /\ Last(revs'[o]) = RevisionAfter(o, ops[o])
                      /\ RevisionAfter(o, ops[o]).gen = dom.gen + 1
                      /\ ops[o].kind \in {"retire", "destroy"} => RevisionAfter(o, ops[o]).st # "active"
    OBVIOUS
  <2>1. o \in Obs /\ ops[o] \in Op /\ Drafted(o, ops[o]) /\ Applicable(o, ops[o])
    BY <1>1
  <2>2. /\ RevisionAfter(o, ops[o]).gen = dom.gen + 1
        /\ ops[o].kind = "destroy" => RevisionAfter(o, ops[o]).st = "destroyed"
        /\ ops[o].kind # "destroy" => RevisionAfter(o, ops[o]).st = RowAfter(o, ops[o]).st
    BY <2>1, RevisionAfterShape
  <2>3. ops[o].kind = "retire" => RowAfter(o, ops[o]).st = "retired"
    BY <2>1, RowAfterShape
  <2> QED
    BY <1>3, <2>2, <2>3 DEF Last
<1>8. \A i \in outbox' : Dated(i)'
  <2> SUFFICES ASSUME NEW i \in outbox' PROVE Dated(i)'
    OBVIOUS
  <2>1. i \in Item
    OBVIOUS
  <2>2. CASE i \in outbox
    BY <1>4, <2>1, <2>2, DatedStays DEF OutboxInv
  <2>3. CASE i \notin outbox
    <3>1. /\ i.obs \in DOMAIN ops /\ i.gen = dom.gen + 1
          /\ i.op = "delete" => ops[i.obs].kind \in {"retire", "destroy"}
      BY <1>5, <2>3
    <3>2. /\ Len(revs'[i.obs]) \in 1..Len(revs'[i.obs])
          /\ revs'[i.obs][Len(revs'[i.obs])] = RevisionAfter(i.obs, ops[i.obs])
      BY <1>1, <1>3, <3>1
    <3>3. /\ RevisionAfter(i.obs, ops[i.obs]).gen = i.gen
          /\ i.op = "delete" => RevisionAfter(i.obs, ops[i.obs]).st # "active"
      BY <1>7, <3>1
    <3> QED
      BY <3>2, <3>3 DEF Dated
  <2> QED
    BY <2>2, <2>3
<1>9. \A i \in outbox' : \E n \in outbox' : n.obs = i.obs /\ n.gen = Last(revs'[i.obs]).gen
  <2> SUFFICES ASSUME NEW i \in outbox'
               PROVE  \E n \in outbox' : n.obs = i.obs /\ n.gen = Last(revs'[i.obs]).gen
    OBVIOUS
  <2>1. CASE i.obs \in DOMAIN ops
    BY <1>6, <1>7, <2>1
  <2>2. CASE i.obs \notin DOMAIN ops
    <3>1. i \in outbox /\ revs'[i.obs] = revs[i.obs]
      BY <1>5, <2>2 DEF Item
    <3> QED
      BY <3>1 DEF OutboxInv
  <2> QED
    BY <2>1, <2>2
<1> QED
  BY <1>4, <1>5, <1>8, <1>9 DEF OutboxInv

-----------------------------------------------------------------------------
(* Drafts, proposals and previews. *)

\* What has been seen, and what has been drafted, stays so.
LEMMA SeenStays ==
  ASSUME AuditTypes, AuditTypes', Advance, NEW o \in Obs, NEW b \in Row, Seen(o, b)
  PROVE  Seen(o, b)'
<1>1. rows[o].ver \in Nat /\ rows'[o].ver \in Nat /\ b.ver \in Nat
  BY DEF AuditTypes, Row
<1> QED
  BY <1>1 DEF Onward, Advance, Seen

\* So an operation that was drafted stays drafted.
LEMMA DraftedStays ==
  ASSUME AuditTypes, AuditTypes', Onward, NEW o \in Obs, NEW op \in Op, Drafted(o, op)
  PROVE  Drafted(o, op)'
<1>1. op.basis \in Row
  BY DEF Op
<1>2. Seen(o, op.basis)'
  BY <1>1, SeenStays DEF Drafted, Onward
<1>3. Len(tokens) \in Nat /\ Len(tokens') \in Nat /\ Len(tokens) <= Len(tokens')
  BY DEF AuditTypes, Onward, Advance
<1>4. op.kind = "destroy" => op.tok \in 1..Len(tokens')
  BY <1>3 DEF Drafted
<1> QED
  BY <1>2, <1>4 DEF Drafted, Onward, Advance

\* A draft or a changeset with operations that were drafted.
Sound(d) == d.ops \in Ops /\ Gentle(d) /\ \A o \in DOMAIN d.ops : Drafted(o, d.ops[o])

\* DraftInv says that every draft and every recorded changeset is sound.
LEMMA SoundDrafts ==
  ASSUME AuditTypes, DraftInv
  PROVE  /\ \A t \in Thread : Sound(draft[t]) /\ draft[t] \in Draft
         /\ \A i \in 1..Len(sets) : Sound(sets[i]) /\ sets[i] \in Filed
<1>1. /\ \A t \in Thread : draft[t] \in Draft
      /\ \A i \in 1..Len(sets) : sets[i] \in Filed
  BY DEF AuditTypes
<1>2. /\ \A t \in Thread : draft[t].ops \in Ops
      /\ \A i \in 1..Len(sets) : sets[i].ops \in Ops
  BY <1>1 DEF Draft, Filed, Ops
<1> QED
  BY <1>1, <1>2 DEF Sound, DraftInv

\* So is a thread without a draft.
LEMMA NoDraftShape == NoDraft \in Draft /\ Sound(NoDraft) /\ DOMAIN NoDraft.ops = {}
<1>1. DOMAIN <<>> = {} /\ <<>> \in [{} -> Op]
  OBVIOUS
<1>2. <<>> \in Ops
  BY <1>1, OpsShape
<1>3. NoDraft.ops = <<>> /\ NoDraft.mode = "apply_immediately"
  BY DEF NoDraft
<1>4. NoDraft \in Draft
  BY <1>2 DEF NoDraft, Draft, Ops, Mode
<1> QED
  BY <1>1, <1>2, <1>3, <1>4 DEF Sound, Gentle

\* Sound drafts, changesets and previews are so after every step that moves on.
LEMMA DraftKeeps ==
  ASSUME AuditTypes, AuditTypes', DraftInv, Onward,
         \A t \in Thread : Sound(draft'[t]),
         \A i \in 1..Len(sets') : Sound(sets'[i]),
         \A k \in 1..Len(tokens') : \/ k \in 1..Len(tokens)
                                    \/ /\ Seen(tokens'[k].obs, tokens'[k].row)
                                       /\ rows[tokens'[k].obs].st # "absent"
  PROVE  DraftInv'
<1>1. ASSUME NEW ops \in Ops, NEW o \in DOMAIN ops, Drafted(o, ops[o])
      PROVE  Drafted(o, ops[o])'
  <2>1. o \in Obs /\ ops[o] \in Op
    BY OpsShape
  <2> QED
    BY <1>1, <2>1, DraftedStays
<1>2. \A t \in Thread : (\A o \in DOMAIN draft[t].ops : Drafted(o, draft[t].ops[o]))' /\ Gentle(draft[t])'
  <2> SUFFICES ASSUME NEW t \in Thread
               PROVE  (\A o \in DOMAIN draft[t].ops : Drafted(o, draft[t].ops[o]))' /\ Gentle(draft[t])'
    OBVIOUS
  <2>1. PICK d : d = draft'[t]
    OBVIOUS
  <2>2. Sound(d)
    BY <2>1
  <2>3. \A o \in DOMAIN d.ops : Drafted(o, d.ops[o])'
    BY <1>1, <2>2 DEF Sound
  <2>4. Gentle(d)
    BY <2>2 DEF Sound
  <2> QED
    BY <2>1, <2>3, <2>4 DEF Gentle, Drafted, Seen
<1>3. \A i \in 1..Len(sets') :
        (\A o \in DOMAIN sets[i].ops : Drafted(o, sets[i].ops[o]))' /\ Gentle(sets[i])'
  <2> SUFFICES ASSUME NEW i \in 1..Len(sets')
               PROVE  (\A o \in DOMAIN sets[i].ops : Drafted(o, sets[i].ops[o]))' /\ Gentle(sets[i])'
    OBVIOUS
  <2>1. PICK d : d = sets'[i]
    OBVIOUS
  <2>2. Sound(d)
    BY <2>1
  <2>3. \A o \in DOMAIN d.ops : Drafted(o, d.ops[o])'
    BY <1>1, <2>2 DEF Sound
  <2>4. Gentle(d)
    BY <2>2 DEF Sound
  <2> QED
    BY <2>1, <2>3, <2>4 DEF Gentle, Drafted, Seen
<1>4. \A k \in 1..Len(tokens') : Seen(tokens[k].obs, tokens[k].row)' /\ rows'[tokens'[k].obs].st # "absent"
  <2> SUFFICES ASSUME NEW k \in 1..Len(tokens')
               PROVE  Seen(tokens[k].obs, tokens[k].row)' /\ rows'[tokens'[k].obs].st # "absent"
    OBVIOUS
  <2>1. PICK d : d = tokens'[k]
    OBVIOUS
  <2>2. d.obs \in Obs /\ d.row \in Row
    <3>1. d \in Token
      BY <2>1 DEF AuditTypes
    <3> QED
      BY <3>1 DEF Token
  <2>3. Seen(d.obs, d.row) /\ rows[d.obs].st # "absent"
    <3>1. CASE k \in 1..Len(tokens)
      <4>1. d.obs = tokens[k].obs /\ d.row = tokens[k].row
        BY <2>1, <3>1 DEF Onward, Advance
      <4>2. Seen(tokens[k].obs, tokens[k].row) /\ rows[tokens[k].obs].st # "absent"
        BY <3>1 DEF DraftInv
      <4> QED
        BY <4>1, <4>2
    <3> QED
      BY <2>1, <3>1
  <2>4. Seen(d.obs, d.row)'
    BY <2>2, <2>3, SeenStays DEF Onward
  <2>5. rows'[d.obs].st # "absent"
    BY <2>2, <2>3 DEF Onward, Advance
  <2> QED
    BY <2>1, <2>4, <2>5 DEF Seen
<1> QED
  BY <1>2, <1>3, <1>4 DEF DraftInv

-----------------------------------------------------------------------------
(* Changesets, their claims and their generations. *)

\* No step takes a changeset away, or changes its key or its operations.
SetsKept ==
  /\ Len(sets) <= Len(sets')
  /\ \A i \in 1..Len(sets) : /\ sets'[i].key = sets[i].key /\ sets'[i].mode = sets[i].mode
                             /\ sets'[i].ops = sets[i].ops

\* What is recorded stays recorded.
LEMMA RecordedStays ==
  ASSUME AuditTypes, AuditTypes', SetsKept, NEW d, Recorded(d)
  PROVE  Recorded(d)'
<1>1. /\ DOMAIN sets = 1..Len(sets) /\ DOMAIN sets' = 1..Len(sets')
      /\ Len(sets) \in Nat /\ Len(sets') \in Nat
  BY DEF AuditTypes
<1>2. PICK i \in 1..Len(sets) : sets[i].key = d.key /\ d.key # NoKey
  BY <1>1 DEF Recorded
<1>3. i \in 1..Len(sets') /\ sets'[i].key = d.key
  BY <1>1, <1>2 DEF SetsKept
<1> QED
  BY <1>1, <1>2, <1>3 DEF Recorded

\* Steps after which nobody else is about to remember what is absent.
LEMMA ClaimsShrink ==
  ASSUME ClaimInv,
         \A o \in Obs : \A t \in Thread : Claims(t, o)' => Claims(t, o) /\ rows'[o].st = "absent",
         \A o \in Obs : \A i \in 1..Len(sets') : Proposes(i, o)' =>
            i \in 1..Len(sets) /\ Proposes(i, o) /\ rows'[o].st = "absent"
  PROVE  ClaimInv'
BY DEF ClaimInv

\* A change of sets that leaves generations alone, and revisions outside any.
LEMMA AccountStays ==
  ASSUME AuditTypes, AuditTypes', SetInv, Accounted, SetsKept, dom'.gen = dom.gen,
         \A i \in 1..Len(sets) : sets'[i].gen = sets[i].gen,
         \A i \in 1..Len(sets') : i \in 1..Len(sets) \/ sets'[i].gen = 0,
         \A o \in Obs, g \in Nat \ {0} : (\E k \in DOMAIN revs'[o] : revs'[o][k].gen = g)
                                           <=> (\E k \in DOMAIN revs[o] : revs[o][k].gen = g)
  PROVE  Accounted'
<1>1. /\ DOMAIN sets = 1..Len(sets) /\ DOMAIN sets' = 1..Len(sets')
      /\ Len(sets) \in Nat /\ Len(sets') \in Nat /\ dom.gen \in Nat
  BY DEF AuditTypes
<1> DEFINE at(g)  == {o \in Obs : \E k \in DOMAIN revs[o] : revs[o][k].gen = g}
           atp(g) == {o \in Obs : \E k \in DOMAIN revs'[o] : revs'[o][k].gen = g}
<1>2. \A g \in 1..dom.gen : atp(g) = at(g)
  BY <1>1
<1>3. \A g \in 1..dom.gen : \E i \in DOMAIN sets :
        /\ \A j \in DOMAIN sets : sets[j].gen = g <=> j = i
        /\ DOMAIN sets[i].ops = at(g)
  BY DEF Accounted
<1> HIDE DEF at, atp
<1>4. \A g \in 1..dom.gen : \E i \in DOMAIN sets' :
        /\ \A j \in DOMAIN sets' : sets'[j].gen = g <=> j = i
        /\ DOMAIN sets'[i].ops = atp(g)
  <2> SUFFICES ASSUME NEW g \in 1..dom.gen
               PROVE  \E i \in DOMAIN sets' :
                        /\ \A j \in DOMAIN sets' : sets'[j].gen = g <=> j = i
                        /\ DOMAIN sets'[i].ops = atp(g)
    OBVIOUS
  <2>1. PICK i \in DOMAIN sets : /\ \A j \in DOMAIN sets : sets[j].gen = g <=> j = i
                                 /\ DOMAIN sets[i].ops = at(g)
    BY <1>3
  <2>2. i \in DOMAIN sets' /\ sets'[i].ops = sets[i].ops
    BY <1>1, <2>1 DEF SetsKept
  <2>3. \A j \in DOMAIN sets' : sets'[j].gen = g <=> j = i
    BY <1>1, <2>1
  <2>4. atp(g) = at(g)
    BY <1>2
  <2> QED
    BY <2>1, <2>2, <2>3, <2>4
<1> QED
  BY <1>4 DEF Accounted, atp

\* c is the changeset a commit applies: the next generation is its.
Files(c, ops) ==
  /\ c \in 1..Len(sets') /\ sets'[c].ops = ops /\ sets'[c].gen = dom.gen + 1
  /\ sets'[c].state = "applied" /\ Gentle(sets'[c])
  /\ c \in 1..Len(sets) => sets[c].gen = 0 /\ sets[c].ops = ops
  /\ \A j \in 1..Len(sets') : j = c \/ (j \in 1..Len(sets) /\ sets'[j] = sets[j])

\* A commit that is filed so is accounted for, and so is what was before.
LEMMA CommitAccounts ==
  ASSUME AuditTypes, AuditTypes', LogInv, SetInv, Accounted, NEW ops, GoodOps(ops), CommitOps(ops),
         NEW c, Files(c, ops), SetsKept
  PROVE  SetInv' /\ Accounted'
<1>1. /\ DOMAIN sets = 1..Len(sets) /\ DOMAIN sets' = 1..Len(sets')
      /\ Len(sets) \in Nat /\ Len(sets') \in Nat /\ dom.gen \in Nat
      /\ dom'.gen = dom.gen + 1
      /\ \A i \in 1..Len(sets) : sets[i].gen \in Nat /\ sets[i].gen <= dom.gen
  <2>1. dom'.gen = dom.gen + 1
    BY CommitShape
  <2>2. \A i \in 1..Len(sets) : sets[i] \in Filed
    BY DEF AuditTypes
  <2> QED
    BY <2>1, <2>2 DEF AuditTypes, Filed, SetInv
<1>2. SetInv'
  BY <1>1 DEF SetInv, Files
<1> DEFINE at(g)  == {o \in Obs : \E k \in DOMAIN revs[o] : revs[o][k].gen = g}
           atp(g) == {o \in Obs : \E k \in DOMAIN revs'[o] : revs'[o][k].gen = g}
<1>3. /\ DOMAIN ops \subseteq Obs
      /\ \A o \in Obs \ DOMAIN ops : revs'[o] = revs[o]
      /\ \A o \in DOMAIN ops : /\ DOMAIN revs[o] = 1..Len(revs[o])
                               /\ DOMAIN revs'[o] = 1..Len(revs[o]) + 1
                               /\ revs'[o][Len(revs[o]) + 1].gen = dom.gen + 1
                               /\ \A k \in 1..Len(revs[o]) : revs'[o][k] = revs[o][k]
                               /\ Len(revs[o]) \in Nat
  <2>1. DOMAIN ops \subseteq Obs /\ \A o \in Obs \ DOMAIN ops : revs'[o] = revs[o]
    BY CommitShape
  <2>2. ASSUME NEW o \in DOMAIN ops
        PROVE  /\ DOMAIN revs[o] = 1..Len(revs[o])
               /\ DOMAIN revs'[o] = 1..Len(revs[o]) + 1
               /\ revs'[o][Len(revs[o]) + 1].gen = dom.gen + 1
               /\ \A k \in 1..Len(revs[o]) : revs'[o][k] = revs[o][k]
               /\ Len(revs[o]) \in Nat
    <3>1. /\ o \in Obs /\ ops[o] \in Op /\ Drafted(o, ops[o]) /\ Applicable(o, ops[o])
          /\ revs[o] \in Seq(Revision) /\ revs'[o] = Append(revs[o], RevisionAfter(o, ops[o]))
      BY CommitShape DEF GoodOps, Follows, AuditTypes
    <3>2. RevisionAfter(o, ops[o]) \in Revision /\ RevisionAfter(o, ops[o]).gen = dom.gen + 1
      BY <3>1, RevisionAfterShape
    <3> QED
      BY <3>1, <3>2
  <2> QED
    BY <2>1, <2>2
<1>4. \A o \in Obs : \A k \in DOMAIN revs[o] : revs[o][k].gen # dom.gen + 1
  <2> SUFFICES ASSUME NEW o \in Obs, NEW k \in DOMAIN revs[o] PROVE revs[o][k].gen # dom.gen + 1
    OBVIOUS
  <2>1. revs[o] \in Seq(Revision) /\ Logged(rows[o], revs[o], dom.gen)
    BY DEF AuditTypes, LogInv
  <2>2. k \in 1..Len(revs[o]) /\ revs[o][k] \in Revision
    BY <2>1
  <2>3. revs[o][k].gen \in Nat /\ revs[o][k].gen <= dom.gen
    BY <2>1, <2>2 DEF Revision, Logged
  <2> QED
    BY <1>1, <2>3
<1>5. atp(dom.gen + 1) = DOMAIN ops
  <2>1. \A o \in DOMAIN ops : o \in atp(dom.gen + 1)
    <3> SUFFICES ASSUME NEW o \in DOMAIN ops PROVE o \in atp(dom.gen + 1)
      OBVIOUS
    <3>1. Len(revs[o]) + 1 \in DOMAIN revs'[o] /\ revs'[o][Len(revs[o]) + 1].gen = dom.gen + 1
      BY <1>3
    <3> QED
      BY <1>3, <3>1
  <2>2. \A o \in atp(dom.gen + 1) : o \in DOMAIN ops
    BY <1>3, <1>4
  <2> QED
    BY <2>1, <2>2
<1>6. \A g \in 1..dom.gen : atp(g) = at(g)
  <2> SUFFICES ASSUME NEW g \in 1..dom.gen, NEW o \in Obs
               PROVE  (\E k \in DOMAIN revs'[o] : revs'[o][k].gen = g)
                        <=> (\E k \in DOMAIN revs[o] : revs[o][k].gen = g)
    OBVIOUS
  <2>1. g # dom.gen + 1
    BY <1>1
  <2>2. CASE o \in DOMAIN ops
    BY <1>3, <2>1, <2>2, SMTT(30)
  <2>3. CASE o \notin DOMAIN ops
    BY <1>3, <2>3
  <2> QED
    BY <2>2, <2>3
<1>7. \A g \in 1..dom.gen : \E i \in DOMAIN sets :
        /\ \A j \in DOMAIN sets : sets[j].gen = g <=> j = i
        /\ DOMAIN sets[i].ops = at(g)
  BY DEF Accounted
<1> HIDE DEF at, atp
<1>8. \A g \in 1..dom.gen + 1 : \E i \in DOMAIN sets' :
        /\ \A j \in DOMAIN sets' : sets'[j].gen = g <=> j = i
        /\ DOMAIN sets'[i].ops = atp(g)
  <2> SUFFICES ASSUME NEW g \in 1..dom.gen + 1
               PROVE  \E i \in DOMAIN sets' :
                        /\ \A j \in DOMAIN sets' : sets'[j].gen = g <=> j = i
                        /\ DOMAIN sets'[i].ops = atp(g)
    OBVIOUS
  <2>1. CASE g = dom.gen + 1
    <3>1. \A j \in DOMAIN sets' : sets'[j].gen = g <=> j = c
      BY <1>1, <2>1 DEF Files
    <3>2. c \in DOMAIN sets' /\ DOMAIN sets'[c].ops = atp(g)
      BY <1>1, <1>5, <2>1 DEF Files
    <3> QED
      BY <3>1, <3>2
  <2>2. CASE g # dom.gen + 1
    <3>1. g \in 1..dom.gen
      BY <1>1, <2>2
    <3>2. PICK i \in DOMAIN sets : /\ \A j \in DOMAIN sets : sets[j].gen = g <=> j = i
                                   /\ DOMAIN sets[i].ops = at(g)
      BY <1>7, <3>1
    <3>3. i # c
      BY <1>1, <3>1, <3>2 DEF Files
    <3>4. i \in DOMAIN sets' /\ sets'[i] = sets[i]
      BY <1>1, <3>2, <3>3 DEF SetsKept, Files
    <3>5. \A j \in DOMAIN sets' : sets'[j].gen = g <=> j = i
      BY <1>1, <2>2, <3>1, <3>2, <3>3, <3>4 DEF Files
    <3> QED
      BY <1>6, <3>1, <3>2, <3>4, <3>5
  <2> QED
    BY <2>1, <2>2
<1>9. Accounted'
  BY <1>1, <1>8 DEF Accounted, atp
<1> QED
  BY <1>2, <1>9

\* The whole invariant after a commit.
LEMMA CommitKeeps ==
  ASSUME AuditInv, NEW ops, GoodOps(ops), CommitOps(ops), mix' = mix,
         draft' \in [Thread -> Draft], \A t \in Thread : Sound(draft'[t]),
         sets' \in Seq(Filed), NEW c, Files(c, ops), SetsKept, OncePerKey',
         \A o \in Obs : \A t \in Thread : Claims(t, o)' => Claims(t, o) /\ ~Creates(ops, o),
         \A o \in Obs : \A i \in 1..Len(sets') : Proposes(i, o)' =>
            i \in 1..Len(sets) /\ Proposes(i, o) /\ ~Creates(ops, o)
  PROVE  AuditInv' /\ Onward /\ LogsGrow
<1>0. AuditTypes /\ LogInv /\ OutboxInv /\ DraftInv /\ ClaimInv /\ SetInv /\ Accounted /\ OutboxHonest
  BY DEF AuditInv
<1>1. AuditTypes'
  BY <1>0, CommitShape DEF AuditTypes
<1>2. Onward /\ LogInv' /\ LogsGrow /\ OutboxInv'
  BY <1>0, CommitLogs, CommitOutbox
<1>3. DraftInv'
  <2>1. \A i \in 1..Len(sets') : Sound(sets'[i])
    <3> SUFFICES ASSUME NEW i \in 1..Len(sets') PROVE Sound(sets'[i])
      OBVIOUS
    <3>1. CASE i = c
      BY <3>1 DEF Files, Sound, GoodOps
    <3>2. CASE i # c
      BY <1>0, <3>2, SoundDrafts DEF Files
    <3> QED
      BY <3>1, <3>2
  <2>2. Len(tokens') = Len(tokens)
    BY <1>0, CommitShape
  <2> QED
    BY <1>0, <1>1, <1>2, <2>1, <2>2, DraftKeeps
<1>4. \A o \in Obs : rows[o].st = "absent" /\ ~Creates(ops, o) => rows'[o].st = "absent"
  <2> SUFFICES ASSUME NEW o \in Obs, rows[o].st = "absent", ~Creates(ops, o)
               PROVE  rows'[o].st = "absent"
    OBVIOUS
  <2>1. o \notin DOMAIN ops
    BY DEF Creates, GoodOps, Drafted
  <2> QED
    BY <1>0, <2>1, CommitShape
<1>5. ClaimInv'
  <2>1. \A o \in Obs : \A t \in Thread : Claims(t, o)' => Claims(t, o) /\ rows'[o].st = "absent"
    BY <1>0, <1>4 DEF ClaimInv
  <2>2. \A o \in Obs : \A i \in 1..Len(sets') : Proposes(i, o)' =>
            i \in 1..Len(sets) /\ Proposes(i, o) /\ rows'[o].st = "absent"
    BY <1>0, <1>4 DEF ClaimInv
  <2> QED
    BY <1>0, <2>1, <2>2, ClaimsShrink
<1>6. SetInv' /\ Accounted'
  BY <1>0, <1>1, CommitAccounts
<1>7. OutboxHonest'
  <2>1. /\ dom'.gen = dom.gen + 1 /\ dom'.indexed = dom.indexed
        /\ dom'.repair = (dom.repair \/ outbox' # {})
    BY <1>0, CommitShape
  <2>2. \A i \in outbox' \ outbox : i.gen = dom.gen + 1
    BY <1>0, CommitOutbox
  <2>3. dom.gen \in Nat /\ dom.indexed \in Nat
    BY <1>0 DEF AuditTypes
  <2>4. \A i \in outbox : i.gen \in Nat
    BY <1>0 DEF AuditTypes, Item
  <2>5. /\ outbox # {} => dom.repair
        /\ dom.indexed <= dom.gen
        /\ \A i \in outbox : dom.indexed < i.gen /\ i.gen <= dom.gen
    BY <1>0 DEF OutboxHonest
  <2>6. outbox' # {} => dom'.repair
    BY <2>1
  <2>7. dom'.indexed <= dom'.gen
    BY <2>1, <2>3, <2>5
  <2>8. \A i \in outbox' : dom'.indexed < i.gen /\ i.gen <= dom'.gen
    <3> SUFFICES ASSUME NEW i \in outbox' PROVE dom'.indexed < i.gen /\ i.gen <= dom'.gen
      OBVIOUS
    <3>1. CASE i \in outbox
      BY <2>1, <2>3, <2>4, <2>5, <3>1
    <3>2. CASE i \notin outbox
      BY <2>1, <2>2, <2>3, <2>5, <3>2
    <3> QED
      BY <3>1, <3>2
  <2> QED
    BY <2>6, <2>7, <2>8 DEF OutboxHonest
<1> QED
  BY <1>1, <1>2, <1>3, <1>5, <1>6, <1>7 DEF AuditInv

-----------------------------------------------------------------------------
(* The steps that commit nothing. *)

\* The invariant after a step that changes no row, and of the changesets only
\* their states.
LEMMA FiledKeeps ==
  ASSUME AuditInv, UNCHANGED <<rows, revs, dom, outbox, tokens, mix>>,
         draft' \in [Thread -> Draft], \A t \in Thread : Sound(draft'[t]),
         sets' \in Seq(Filed), \A i \in 1..Len(sets') : Sound(sets'[i]), SetsKept,
         \A i \in 1..Len(sets) : sets'[i].gen = sets[i].gen,
         \A i \in 1..Len(sets') : i \in 1..Len(sets) \/ sets'[i].gen = 0,
         SetInv', OncePerKey', ClaimInv'
  PROVE  AuditInv'
<1>0. AuditTypes /\ LogInv /\ OutboxInv /\ DraftInv /\ SetInv /\ Accounted /\ OutboxHonest
  BY DEF AuditInv
<1>1. AuditTypes'
  BY <1>0 DEF AuditTypes
<1>2. Onward
  <2>1. rows' = rows /\ tokens' = tokens /\ Len(tokens) \in Nat
    BY <1>0 DEF AuditTypes
  <2> QED
    BY <2>1 DEF Onward, Advance
<1>3. LogInv' /\ OutboxInv' /\ Accounted' /\ OutboxHonest'
  <2>1. /\ rows' = rows /\ revs' = revs /\ dom' = dom /\ outbox' = outbox
    OBVIOUS
  <2>2. LogInv' /\ OutboxInv'
    BY <1>0, <2>1 DEF LogInv, Logged, OutboxInv, Dated
  <2>3. Accounted'
    BY <1>0, <1>1, <2>1, AccountStays
  <2>4. OutboxHonest'
    BY <1>0, <2>1 DEF OutboxHonest
  <2> QED
    BY <2>2, <2>3, <2>4
<1>4. DraftInv'
  BY <1>0, <1>1, <1>2, DraftKeeps
<1> QED
  BY <1>1, <1>3, <1>4 DEF AuditInv

\* The invariant of the log when the whole store is unchanged but for the drafts.
LEMMA CanonKeeps ==
  ASSUME AuditInv, UNCHANGED <<canon, mix>>, draft' \in [Thread -> Draft],
         \A t \in Thread : Sound(draft'[t]), ClaimInv'
  PROVE  AuditInv'
<1>0. AuditTypes /\ DraftInv /\ SetInv /\ OncePerKey
  BY DEF AuditInv
<1>1. /\ rows' = rows /\ revs' = revs /\ dom' = dom /\ outbox' = outbox /\ sets' = sets
      /\ tokens' = tokens /\ mix' = mix
  BY DEF canon
<1>2. SetsKept /\ sets' \in Seq(Filed) /\ \A i \in 1..Len(sets') : Sound(sets'[i])
  BY <1>0, <1>1, SoundDrafts DEF SetsKept, AuditTypes
<1>3. SetInv'
  BY <1>0, <1>1 DEF SetInv
<1>4. OncePerKey'
  BY <1>0, <1>1, Zenon DEF OncePerKey
<1> QED
  BY <1>1, <1>2, <1>3, <1>4, FiledKeeps

\* And where no thread has a new draft.
LEMMA QuietKeeps ==
  ASSUME AuditInv, UNCHANGED <<canon, mix>>, draft' \in [Thread -> Draft],
         \A t \in Thread : draft'[t] = draft[t] \/ (draft'[t].ops = <<>> /\ Gentle(draft'[t]))
  PROVE  AuditInv'
<1>0. AuditTypes /\ DraftInv /\ ClaimInv
  BY DEF AuditInv
<1>1. \A t \in Thread : draft'[t].ops = <<>> => DOMAIN draft'[t].ops = {}
  OBVIOUS
<1>2. \A t \in Thread : Sound(draft'[t])
  <2> SUFFICES ASSUME NEW t \in Thread PROVE Sound(draft'[t])
    OBVIOUS
  <2>1. CASE draft'[t] = draft[t]
    BY <1>0, <2>1, SoundDrafts
  <2>2. CASE draft'[t].ops = <<>> /\ Gentle(draft'[t])
    BY <1>1, <2>2, NoDraftShape DEF Sound, NoDraft
  <2> QED
    BY <2>1, <2>2
<1>3. ClaimInv'
  <2>1. \A o \in Obs : \A t \in Thread : Claims(t, o)' => Claims(t, o) /\ rows'[o].st = "absent"
    <3> SUFFICES ASSUME NEW o \in Obs, NEW t \in Thread, Claims(t, o)'
                 PROVE  Claims(t, o) /\ rows'[o].st = "absent"
      OBVIOUS
    <3>1. draft'[t] = draft[t]
      BY <1>1 DEF Claims, Creates
    <3>2. Claims(t, o)
      BY <3>1 DEF Claims, Creates, Recorded, canon
    <3> QED
      BY <1>0, <3>2 DEF ClaimInv, canon
  <2>2. \A o \in Obs : \A i \in 1..Len(sets') : Proposes(i, o)' =>
            i \in 1..Len(sets) /\ Proposes(i, o) /\ rows'[o].st = "absent"
    BY <1>0 DEF ClaimInv, canon, Proposes, Creates
  <2> QED
    BY <1>0, <2>1, <2>2, ClaimsShrink
<1> QED
  BY <1>2, <1>3, CanonKeeps

\* A thread that drafts d, which creates only what nobody else does.
LEMMA DraftingKeeps ==
  ASSUME AuditInv, UNCHANGED <<canon, mix>>, NEW t \in Thread, NEW d \in Draft,
         draft' = [draft EXCEPT ![t] = d], Sound(d),
         \A o \in Obs : Creates(d.ops, o) /\ ~Recorded(d) => Unused(o)
  PROVE  AuditInv'
<1>0. AuditTypes /\ DraftInv /\ ClaimInv
  BY DEF AuditInv
<1>1. draft' \in [Thread -> Draft] /\ draft'[t] = d /\ \A u \in Thread \ {t} : draft'[u] = draft[u]
  BY <1>0 DEF AuditTypes
<1>2. \A u \in Thread : Sound(draft'[u])
  BY <1>0, <1>1, SoundDrafts
<1>3. DOMAIN sets = 1..Len(sets) /\ sets' = sets /\ rows' = rows
  BY <1>0 DEF AuditTypes, canon
<1>4. \A u \in Thread \ {t}, o \in Obs : Claims(u, o)' => Claims(u, o)
  BY <1>1, <1>3 DEF Claims, Creates, Recorded
<1>5. \A o \in Obs : Claims(t, o)' => Unused(o)
  <2> SUFFICES ASSUME NEW o \in Obs, Claims(t, o)' PROVE Unused(o)
    OBVIOUS
  <2>1. Creates(d.ops, o) /\ ~Recorded(d)
    BY <1>1, <1>3 DEF Claims, Creates, Recorded
  <2> QED
    BY <2>1
<1>6. \A i \in 1..Len(sets), o \in Obs : Proposes(i, o)' => Proposes(i, o)
  BY <1>3 DEF Proposes, Creates
<1>7. \A o \in Obs : Unused(o) => /\ rows'[o].st = "absent"
                                  /\ \A u \in Thread \ {t} : ~Claims(u, o)'
                                  /\ \A i \in 1..Len(sets) : ~Proposes(i, o)
  BY <1>3, <1>4 DEF Unused, Claims, Proposes, Creates
<1>8. ClaimInv'
  <2> SUFFICES ASSUME NEW o \in Obs
               PROVE  /\ \A u \in Thread : Claims(u, o)' =>
                           /\ rows'[o].st = "absent"
                           /\ \A v \in Thread : Claims(v, o)' => v = u
                           /\ \A i \in 1..Len(sets') : ~Proposes(i, o)'
                      /\ \A i \in 1..Len(sets') : Proposes(i, o)' =>
                           /\ rows'[o].st = "absent"
                           /\ \A j \in 1..Len(sets') : Proposes(j, o)' => j = i
    BY DEF ClaimInv
  <2>1. CASE Claims(t, o)'
    BY <1>3, <1>5, <1>6, <1>7, <2>1
  <2>2. CASE ~Claims(t, o)'
    <3>1. /\ \A u \in Thread : Claims(u, o) =>
                /\ rows[o].st = "absent"
                /\ \A v \in Thread : Claims(v, o) => v = u
                /\ \A i \in 1..Len(sets) : ~Proposes(i, o)
          /\ \A i \in 1..Len(sets) : Proposes(i, o) =>
                /\ rows[o].st = "absent"
                /\ \A j \in 1..Len(sets) : Proposes(j, o) => j = i
      BY <1>0 DEF ClaimInv
    <3>2. \A u \in Thread : Claims(u, o)' => Claims(u, o)
      BY <1>4, <2>2
    <3> QED
      BY <1>3, <1>6, <3>1, <3>2
  <2> QED
    BY <2>1, <2>2
<1> QED
  BY <1>1, <1>2, <1>8, CanonKeeps

\* What a caller may ask of an observation has been seen, and creates only an
\* unused one.
LEMMA WantedShape ==
  ASSUME AuditTypes, LogInv, DraftInv, NEW o \in Obs, NEW op \in Wanted(o)
  PROVE  op \in Op /\ Drafted(o, op) /\ (op.kind = "remember" => Unused(o))
<1>1. /\ rows[o] \in Row /\ Len(revs[o]) \in Nat /\ rows[o].ver \in Nat
      /\ DOMAIN tokens = 1..Len(tokens) /\ Len(tokens) \in Nat
      /\ \A k \in 1..Len(tokens) : tokens[k] \in Token
  BY DEF AuditTypes, Row
<1>2. \A k \in 1..Len(tokens) : tokens[k].row \in Row
  BY <1>1 DEF Token
<1>3. \/ \E x \in Text : op = Operation("remember", o, x, 0, 0) /\ Unused(o)
      \/ \E x \in Text : op = Operation("update", o, x, 0, 0)
      \/ \E k \in {"retire", "restore"} : op = Operation(k, o, NoText, 0, 0)
      \/ \E r \in 1..Len(revs[o]) : op = Operation("revert", o, NoText, r, 0)
      \/ \E k \in 1..Len(tokens) : tokens[k].obs = o /\ op = Operation("destroy", o, NoText, 0, k)
  BY <1>1 DEF Wanted
<1>4. op.kind # "remember" => rows[o].st \in Lifecycles[op.kind]
  BY DEF Wanted
<1>5. Seen(o, rows[o])
  BY <1>1 DEF Seen
<1>6. /\ op.kind \in Kind /\ op.text \in Text \cup {NoText} /\ op.rev \in Nat /\ op.tok \in Nat
      /\ op.basis \in Row /\ Seen(o, op.basis)
      /\ op = [kind |-> op.kind, basis |-> op.basis, text |-> op.text, rev |-> op.rev, tok |-> op.tok]
      /\ op.kind \in {"remember", "update"} => op.text \in Text
      /\ op.kind = "destroy" => op.tok \in 1..Len(tokens)
      /\ op.kind = "remember" => Unused(o)
  <2>1. CASE \E x \in Text : op = Operation("remember", o, x, 0, 0) /\ Unused(o)
    BY <1>1, <1>5, <2>1 DEF Operation, Kind
  <2>2. CASE \E x \in Text : op = Operation("update", o, x, 0, 0)
    BY <1>1, <1>5, <2>2 DEF Operation, Kind
  <2>3. CASE \E k \in {"retire", "restore"} : op = Operation(k, o, NoText, 0, 0)
    BY <1>1, <1>5, <2>3 DEF Operation, Kind
  <2>4. CASE \E r \in 1..Len(revs[o]) : op = Operation("revert", o, NoText, r, 0)
    BY <1>1, <1>5, <2>4 DEF Operation, Kind
  <2>5. CASE \E k \in 1..Len(tokens) : tokens[k].obs = o /\ op = Operation("destroy", o, NoText, 0, k)
    <3>1. PICK k \in 1..Len(tokens) : tokens[k].obs = o /\ op = Operation("destroy", o, NoText, 0, k)
      BY <2>5
    <3>2. Seen(o, tokens[k].row)
      BY <3>1 DEF DraftInv
    <3> QED
      BY <1>1, <1>2, <3>1, <3>2 DEF Operation, Kind
  <2> QED
    BY <1>3, <2>1, <2>2, <2>3, <2>4, <2>5
<1>7. op \in Op
  BY <1>6 DEF Op
<1>8. op.kind # "remember" => rows[o].st # "absent"
  BY <1>4, <1>6 DEF Lifecycles, Kind, Present
<1> QED
  BY <1>6, <1>7, <1>8 DEF Drafted

\* A draft of what is wanted, and one that repeats a request.
LEMMA DraftChangeKeeps ==
  ASSUME AuditInv, NEW t \in Thread, DraftChange(t)
  PROVE  AuditInv'
<1>0. AuditTypes /\ LogInv /\ DraftInv
  BY DEF AuditInv
<1>1. UNCHANGED <<canon, mix>>
  BY DEF DraftChange, env
<1>2. ASSUME NEW S \in SUBSET Obs, NEW key \in Key \cup {NoKey}, NEW mode \in mix.modes, NEW actor \in Actor,
             NEW ops \in [S -> UNION {Wanted(o) : o \in S}], \A o \in S : ops[o] \in Wanted(o),
             mode = "propose" => \A o \in S : ops[o].kind # "destroy",
             draft' = [draft EXCEPT ![t] = [key |-> key, mode |-> mode,
                              actor |-> actor, ops |-> ops, by |-> "caller"]]
      PROVE  AuditInv'
  <2> DEFINE d == [key |-> key, mode |-> mode, actor |-> actor, ops |-> ops, by |-> "caller"]
  <2>1. \A o \in S : ops[o] \in Op /\ Drafted(o, ops[o]) /\ (ops[o].kind = "remember" => Unused(o))
    BY <1>0, <1>2, WantedShape
  <2>2. ops \in Ops /\ DOMAIN ops = S
    <3>1. DOMAIN ops = S /\ ops \in [S -> Op]
      BY <1>2, <2>1
    <3> QED
      BY <3>1, OpsShape
  <2>3. mode \in Mode
    BY <1>0, MixesAssumption DEF AuditTypes, Mode
  <2>4. d \in Draft
    BY <2>2, <2>3 DEF Draft, Ops
  <2>5. d.ops = ops /\ d.mode = mode
    OBVIOUS
  <2>6. draft' = [draft EXCEPT ![t] = d]
    BY <1>2
  <2> HIDE DEF d
  <2>7. Sound(d)
    BY <1>2, <2>1, <2>2, <2>5 DEF Sound, Gentle
  <2>8. \A o \in Obs : Creates(d.ops, o) => Unused(o)
    BY <2>1, <2>2, <2>5 DEF Creates
  <2> QED
    BY <1>1, <2>4, <2>6, <2>7, <2>8, DraftingKeeps
<1>3. ASSUME NEW i \in DOMAIN sets, sets[i].key # NoKey,
             draft' = [draft EXCEPT ![t] = [key |-> sets[i].key, mode |-> sets[i].mode,
                         actor |-> sets[i].actor, ops |-> sets[i].ops, by |-> "caller"]]
      PROVE  AuditInv'
  <2> DEFINE d == [key |-> sets[i].key, mode |-> sets[i].mode,
                         actor |-> sets[i].actor, ops |-> sets[i].ops, by |-> "caller"]
  <2>1. i \in 1..Len(sets)
    BY <1>0 DEF AuditTypes
  <2>2. Sound(sets[i]) /\ sets[i] \in Filed
    BY <1>0, <2>1, SoundDrafts
  <2>3. d \in Draft
    BY <2>2 DEF Draft, Filed, Ops
  <2>4. d.ops = sets[i].ops /\ d.mode = sets[i].mode /\ d.key = sets[i].key
    OBVIOUS
  <2>5. draft' = [draft EXCEPT ![t] = d]
    BY <1>3
  <2> HIDE DEF d
  <2>6. Sound(d)
    BY <2>2, <2>4 DEF Sound, Gentle
  <2>7. Recorded(d)
    BY <1>3, <2>4 DEF Recorded
  <2> QED
    BY <1>1, <2>3, <2>5, <2>6, <2>7, DraftingKeeps
<1>4. \/ \E S \in (SUBSET Obs) \ {{}}, key \in Key \cup {NoKey}, mode \in mix.modes, actor \in Actor :
          \E ops \in [S -> UNION {Wanted(o) : o \in S}] :
               /\ \A o \in S : ops[o] \in Wanted(o)
               /\ mode = "propose" => \A o \in S : ops[o].kind # "destroy"
               /\ draft' = [draft EXCEPT ![t] = [key |-> key, mode |-> mode,
                              actor |-> actor, ops |-> ops, by |-> "caller"]]
      \/ \E i \in DOMAIN sets :
          /\ sets[i].key # NoKey
          /\ draft' = [draft EXCEPT ![t] = [key |-> sets[i].key, mode |-> sets[i].mode,
                         actor |-> sets[i].actor, ops |-> sets[i].ops, by |-> "caller"]]
  BY Zenon DEF DraftChange
<1>5. CASE \E S \in (SUBSET Obs) \ {{}}, key \in Key \cup {NoKey}, mode \in mix.modes, actor \in Actor :
          \E ops \in [S -> UNION {Wanted(o) : o \in S}] :
               /\ \A o \in S : ops[o] \in Wanted(o)
               /\ mode = "propose" => \A o \in S : ops[o].kind # "destroy"
               /\ draft' = [draft EXCEPT ![t] = [key |-> key, mode |-> mode,
                              actor |-> actor, ops |-> ops, by |-> "caller"]]
  <2>1. PICK S \in (SUBSET Obs) \ {{}}, key \in Key \cup {NoKey}, mode \in mix.modes, actor \in Actor :
          \E ops \in [S -> UNION {Wanted(o) : o \in S}] :
               /\ \A o \in S : ops[o] \in Wanted(o)
               /\ mode = "propose" => \A o \in S : ops[o].kind # "destroy"
               /\ draft' = [draft EXCEPT ![t] = [key |-> key, mode |-> mode,
                              actor |-> actor, ops |-> ops, by |-> "caller"]]
    BY <1>5, Zenon
  <2>2. PICK ops \in [S -> UNION {Wanted(o) : o \in S}] :
               /\ \A o \in S : ops[o] \in Wanted(o)
               /\ mode = "propose" => \A o \in S : ops[o].kind # "destroy"
               /\ draft' = [draft EXCEPT ![t] = [key |-> key, mode |-> mode,
                              actor |-> actor, ops |-> ops, by |-> "caller"]]
    BY <2>1, Zenon
  <2>3. S \in SUBSET Obs
    BY <2>1
  <2> QED
    BY <1>2, <2>1, <2>2, <2>3, Zenon
<1> QED
  BY <1>3, <1>4, <1>5, Zenon

\* What a retirement asks of an active observation.
LEMMA RetirementShape ==
  ASSUME NEW by, NEW ops
  PROVE  [NoDraft EXCEPT !.by = by, !.ops = ops] =
           [key |-> NoKey, mode |-> "apply_immediately", actor |-> System, ops |-> ops, by |-> by]
<1>1. NoDraft = [key |-> NoKey, mode |-> "apply_immediately", actor |-> System, ops |-> <<>>, by |-> "caller"]
  BY DEF NoDraft
<1>2. [NoDraft EXCEPT !.by = by] =
        [key |-> NoKey, mode |-> "apply_immediately", actor |-> System, ops |-> <<>>, by |-> by]
  BY <1>1
<1> DEFINE e == [key |-> NoKey, mode |-> "apply_immediately", actor |-> System, ops |-> <<>>, by |-> by]
<1>3. [e EXCEPT !.ops = ops] =
        [key |-> NoKey, mode |-> "apply_immediately", actor |-> System, ops |-> ops, by |-> by]
  OBVIOUS
<1>4. [NoDraft EXCEPT !.by = by, !.ops = ops] = [e EXCEPT !.ops = ops]
  BY <1>2
<1> QED
  BY <1>3, <1>4

\* forget and consolidation draft retirements.
LEMMA DraftRetirementKeeps ==
  ASSUME AuditInv, NEW t \in Thread, DraftRetirement(t)
  PROVE  AuditInv'
<1>0. AuditTypes /\ LogInv /\ DraftInv
  BY DEF AuditInv
<1>1. UNCHANGED <<canon, mix>>
  BY DEF DraftRetirement, env
<1>2. PICK by \in {"caller", "consolidate"}, S \in (SUBSET Obs) \ {{}} :
        /\ \A o \in S : rows[o].st = "active"
        /\ draft' = [draft EXCEPT ![t] = [NoDraft EXCEPT !.by = by,
                      !.ops = [o \in S |-> Operation("retire", o, NoText, 0, 0)]]]
  BY Zenon DEF DraftRetirement
<1> DEFINE ops == [o \in S |-> Operation("retire", o, NoText, 0, 0)]
           d == [NoDraft EXCEPT !.by = by, !.ops = ops]
<1>3. \A o \in S : ops[o] \in Op /\ Drafted(o, ops[o]) /\ ops[o].kind = "retire"
  <2> SUFFICES ASSUME NEW o \in S
               PROVE  ops[o] \in Op /\ Drafted(o, ops[o]) /\ ops[o].kind = "retire"
    OBVIOUS
  <2> DEFINE op == Operation("retire", o, NoText, 0, 0)
  <2>1. rows[o] \in Row /\ rows[o].ver \in Nat
    BY <1>0 DEF AuditTypes, Row
  <2>2. op = [kind |-> "retire", basis |-> rows[o], text |-> NoText, rev |-> 0, tok |-> 0]
    BY DEF Operation
  <2>3. op \in Op /\ op.kind = "retire" /\ op.basis = rows[o]
    BY <2>1, <2>2 DEF Op, Kind
  <2>4. Seen(o, rows[o])
    BY <2>1 DEF Seen
  <2> HIDE DEF op
  <2>5. Drafted(o, op)
    BY <1>2, <2>3, <2>4 DEF Drafted
  <2> QED
    BY <2>3, <2>5 DEF op
<1>4. DOMAIN ops = S
  OBVIOUS
<1>10. ops \in [S -> Op]
  BY <1>3
<1>6. draft' = [draft EXCEPT ![t] = d]
  BY <1>2
<1> HIDE DEF ops
<1>12. d = [key |-> NoKey, mode |-> "apply_immediately", actor |-> System, ops |-> ops, by |-> by]
  BY RetirementShape
<1>5. d.ops = ops /\ d.mode = "apply_immediately"
  BY <1>12
<1>7. ops \in Ops
  BY <1>4, <1>10, OpsShape
<1>8. d \in Draft
  BY <1>7, <1>12 DEF Draft, Ops, Mode
<1>9. Sound(d)
  BY <1>3, <1>4, <1>5, <1>7 DEF Sound, Gentle
<1> QED
  BY <1>1, <1>3, <1>4, <1>5, <1>6, <1>8, <1>9, DraftingKeeps DEF Creates

\* A thread that is done with its draft.
LEMMA DoneShape ==
  ASSUME NEW b \in {"caller", "consolidate"}
  PROVE  LET d == [NoDraft EXCEPT !.by = b]
         IN  d \in Draft /\ d.ops = <<>> /\ Gentle(d) /\ Sound(d)
<1> DEFINE d == [NoDraft EXCEPT !.by = b]
<1>1. d = [key |-> NoKey, mode |-> "apply_immediately", actor |-> System, ops |-> <<>>, by |-> b]
  BY DEF NoDraft
<1>2. d.ops = <<>> /\ d.mode = "apply_immediately"
  BY <1>1
<1>3. DOMAIN NoDraft.ops = {} /\ NoDraft.ops = <<>> /\ NoDraft.ops \in Ops
  BY NoDraftShape DEF Sound, NoDraft
<1>4. d \in Draft
  BY <1>1, <1>3 DEF Draft, Ops, Mode
<1> HIDE DEF d
<1>5. Gentle(d) /\ Sound(d)
  BY <1>2, <1>3 DEF Gentle, Sound
<1> QED
  BY <1>2, <1>4, <1>5 DEF d

\* The record of a draft, which is filed after the others under its own key.
LEMMA FilingShape ==
  ASSUME AuditTypes, DraftInv, OncePerKey, NEW d \in Draft, Sound(d), ~Recorded(d),
         NEW state \in {"proposed", "applied"}, sets' = Append(sets, Record(d, state))
  PROVE  LET c == Len(sets) + 1
         IN  /\ sets' \in Seq(Filed) /\ Len(sets') = c /\ SetsKept /\ OncePerKey'
             /\ \A i \in 1..Len(sets) : sets'[i] = sets[i]
             /\ \A i \in 1..Len(sets') : Sound(sets'[i])
             /\ sets'[c].ops = d.ops /\ sets'[c].state = state /\ sets'[c].mode = d.mode
             /\ sets'[c].gen = (IF state = "applied" THEN dom.gen + 1 ELSE 0)
<1> DEFINE r == Record(d, state)
           c == Len(sets) + 1
<1>1. /\ sets \in Seq(Filed) /\ Len(sets) \in Nat /\ DOMAIN sets = 1..Len(sets) /\ dom.gen \in Nat
      /\ d.key \in Key \cup {NoKey} /\ d.mode \in Mode /\ d.actor \in Actor \cup {System}
      /\ d.ops \in Ops
  BY DEF AuditTypes, Draft, Ops
<1>2. /\ r.key = d.key /\ r.ops = d.ops /\ r.state = state /\ r.mode = d.mode
      /\ r.gen = (IF state = "applied" THEN dom.gen + 1 ELSE 0)
  BY DEF Record
<1>3. r \in Filed
  BY <1>1 DEF Record, Filed, State
<1>4. sets' = Append(sets, r)
  OBVIOUS
<1> HIDE DEF r
<1>5. /\ sets' \in Seq(Filed) /\ Len(sets') = c /\ DOMAIN sets' = 1..c
      /\ sets'[c] = r /\ \A i \in 1..Len(sets) : sets'[i] = sets[i]
  BY <1>1, <1>3, <1>4
<1>6. \A i \in 1..c : i = c \/ i \in 1..Len(sets)
  BY <1>1
<1>7. SetsKept
  BY <1>1, <1>5 DEF SetsKept
<1>8. \A i \in 1..Len(sets') : Sound(sets'[i])
  BY <1>2, <1>5, <1>6, SoundDrafts DEF Sound, Gentle
<1>9. \A i \in 1..Len(sets) : d.key # NoKey => sets[i].key # d.key
  BY <1>1 DEF Recorded
<1>10. OncePerKey'
  <2> SUFFICES ASSUME NEW i \in 1..c, NEW j \in 1..c, sets'[i].key = sets'[j].key, sets'[i].key # NoKey
               PROVE  i = j
    BY <1>5 DEF OncePerKey
  <2>1. CASE i = c
    BY <1>2, <1>5, <1>6, <1>9, <2>1
  <2>2. CASE j = c
    BY <1>2, <1>5, <1>6, <1>9, <2>2
  <2>3. CASE i # c /\ j # c
    BY <1>1, <1>5, <1>6, <2>3 DEF OncePerKey
  <2> QED
    BY <2>1, <2>2, <2>3
<1> QED
  BY <1>2, <1>5, <1>7, <1>8, <1>10

\* A proposal is filed, and creates what its draft would have.
LEMMA SubmitProposalKeeps ==
  ASSUME AuditInv, NEW t \in Thread, ~Recorded(draft[t]), SubmitProposal(t), UNCHANGED mix,
         draft' \in [Thread -> Draft], draft'[t].ops = <<>>,
         \A u \in Thread : Sound(draft'[u]), \A u \in Thread \ {t} : draft'[u] = draft[u]
  PROVE  AuditInv'
<1>0. AuditTypes /\ LogInv /\ DraftInv /\ ClaimInv /\ SetInv /\ OncePerKey
  BY DEF AuditInv
<1> DEFINE c == Len(sets) + 1
<1>1. /\ sets' = Append(sets, Record(draft[t], "proposed")) /\ draft[t].mode = "propose"
      /\ UNCHANGED <<rows, revs, dom, outbox, tokens, mix>>
  BY DEF SubmitProposal
<1>2. /\ sets' \in Seq(Filed) /\ Len(sets') = c /\ SetsKept /\ OncePerKey'
      /\ \A i \in 1..Len(sets) : sets'[i] = sets[i]
      /\ \A i \in 1..Len(sets') : Sound(sets'[i])
      /\ sets'[c].ops = draft[t].ops /\ sets'[c].state = "proposed" /\ sets'[c].mode = "propose"
      /\ sets'[c].gen = 0
  <2>1. draft[t] \in Draft /\ Sound(draft[t])
    BY <1>0, SoundDrafts
  <2>2. /\ sets' \in Seq(Filed) /\ Len(sets') = c /\ SetsKept /\ OncePerKey'
        /\ \A i \in 1..Len(sets) : sets'[i] = sets[i]
        /\ \A i \in 1..Len(sets') : Sound(sets'[i])
        /\ sets'[c].ops = draft[t].ops /\ sets'[c].state = "proposed" /\ sets'[c].mode = draft[t].mode
        /\ sets'[c].gen = (IF "proposed" = "applied" THEN dom.gen + 1 ELSE 0)
    BY <1>0, <1>1, <2>1, FilingShape
  <2> QED
    BY <1>1, <2>2
<1>3. /\ Len(sets) \in Nat /\ dom.gen \in Nat
      /\ \A i \in 1..Len(sets') : i = c \/ i \in 1..Len(sets)
  BY <1>0, <1>2 DEF AuditTypes
<1>4. /\ \A i \in 1..Len(sets) : sets'[i].gen = sets[i].gen
      /\ \A i \in 1..Len(sets') : i \in 1..Len(sets) \/ sets'[i].gen = 0
      /\ AuditTypes'
  BY <1>0, <1>1, <1>2, <1>3 DEF AuditTypes
<1>5. SetInv'
  <2> SUFFICES ASSUME NEW i \in 1..Len(sets')
               PROVE  /\ sets'[i].gen <= dom'.gen /\ (sets'[i].state = "applied" <=> sets'[i].gen > 0)
                      /\ sets'[i].state = "proposed" => sets'[i].mode = "propose"
    BY DEF SetInv
  <2>1. CASE i = c
    BY <1>1, <1>2, <1>3, <2>1
  <2>2. CASE i \in 1..Len(sets)
    BY <1>0, <1>1, <1>2, <2>2 DEF SetInv
  <2> QED
    BY <1>3, <2>1, <2>2
<1>6. \A u \in Thread, o \in Obs : Claims(u, o)' => Claims(u, o) /\ u # t
  <2> SUFFICES ASSUME NEW u \in Thread, NEW o \in Obs, Claims(u, o)' PROVE Claims(u, o) /\ u # t
    OBVIOUS
  <2>1. u # t
    <3>1. DOMAIN <<>> = {}
      OBVIOUS
    <3> QED
      BY <3>1 DEF Claims, Creates
  <2>2. PICK d : d = draft[u]
    OBVIOUS
  <2>3. draft'[u] = d
    BY <2>1, <2>2
  <2>4. Creates(d.ops, o) /\ ~Recorded(d)'
    BY <2>3 DEF Claims, Creates, Recorded
  <2>5. ~Recorded(d)
    BY <1>0, <1>2, <1>4, <2>4, RecordedStays
  <2> QED
    BY <2>1, <2>2, <2>4, <2>5 DEF Claims
<1>7. \A i \in 1..Len(sets'), o \in Obs : Proposes(i, o)' =>
        (i \in 1..Len(sets) /\ Proposes(i, o)) \/ (i = c /\ Claims(t, o))
  <2> SUFFICES ASSUME NEW i \in 1..Len(sets'), NEW o \in Obs, Proposes(i, o)'
               PROVE  (i \in 1..Len(sets) /\ Proposes(i, o)) \/ (i = c /\ Claims(t, o))
    OBVIOUS
  <2>1. CASE i = c
    BY <1>2, <2>1 DEF Proposes, Creates, Claims
  <2>2. CASE i \in 1..Len(sets)
    BY <1>2, <2>2 DEF Proposes, Creates
  <2> QED
    BY <1>3, <2>1, <2>2
<1>8. ClaimInv'
  <2> SUFFICES ASSUME NEW o \in Obs
               PROVE  /\ \A u \in Thread : Claims(u, o)' =>
                           /\ rows'[o].st = "absent"
                           /\ \A v \in Thread : Claims(v, o)' => v = u
                           /\ \A i \in 1..Len(sets') : ~Proposes(i, o)'
                      /\ \A i \in 1..Len(sets') : Proposes(i, o)' =>
                           /\ rows'[o].st = "absent"
                           /\ \A j \in 1..Len(sets') : Proposes(j, o)' => j = i
    BY DEF ClaimInv
  <2>1. /\ \A u \in Thread : Claims(u, o) =>
              /\ rows[o].st = "absent"
              /\ \A v \in Thread : Claims(v, o) => v = u
              /\ \A i \in 1..Len(sets) : ~Proposes(i, o)
        /\ \A i \in 1..Len(sets) : Proposes(i, o) =>
              /\ rows[o].st = "absent"
              /\ \A j \in 1..Len(sets) : Proposes(j, o) => j = i
    BY <1>0 DEF ClaimInv
  <2> QED
    BY <1>1, <1>6, <1>7, <2>1
<1> QED
  BY <1>1, <1>2, <1>4, <1>5, <1>8, FiledKeeps

\* What is submitted and holds may be applied: nobody else creates what it creates.
LEMMA SubmitGood ==
  ASSUME AuditInv, NEW t \in Thread, ~Recorded(draft[t]),
         \A o \in DOMAIN draft[t].ops : Holds(o, draft[t].ops[o])
  PROVE  GoodOps(draft[t].ops)
<1>0. AuditTypes /\ DraftInv /\ ClaimInv
  BY DEF AuditInv
<1> DEFINE ops == draft[t].ops
<1>1. draft[t] \in Draft /\ Sound(draft[t])
  BY <1>0, SoundDrafts
<1>2. \A o \in DOMAIN ops : Drafted(o, ops[o])
  BY <1>1 DEF Sound
<1>3. \A o \in DOMAIN ops : ops[o].kind = "remember" => rows[o].st = "absent"
  <2> SUFFICES ASSUME NEW o \in DOMAIN ops, ops[o].kind = "remember" PROVE rows[o].st = "absent"
    OBVIOUS
  <2>1. Claims(t, o)
    BY DEF Claims, Creates
  <2>2. o \in Obs
    BY <1>1, OpsShape DEF Sound
  <2> QED
    BY <1>0, <2>1, <2>2 DEF ClaimInv
<1> QED
  BY <1>1, <1>2, <1>3 DEF GoodOps, Applicable, Sound

\* A change that is applied as it is submitted.
LEMMA SubmitAppliedKeeps ==
  ASSUME AuditInv, NEW t \in Thread, ~Recorded(draft[t]), SubmitApplied(t), UNCHANGED mix,
         draft' \in [Thread -> Draft], draft'[t].ops = <<>>,
         \A u \in Thread : Sound(draft'[u]), \A u \in Thread \ {t} : draft'[u] = draft[u]
  PROVE  AuditInv' /\ Onward /\ LogsGrow /\ GoodOps(draft[t].ops)
<1>0. AuditTypes /\ LogInv /\ DraftInv /\ ClaimInv /\ SetInv /\ OncePerKey
  BY DEF AuditInv
<1> DEFINE c == Len(sets) + 1
           ops == draft[t].ops
<1>1. /\ sets' = Append(sets, Record(draft[t], "applied")) /\ CommitOps(ops)
      /\ \A o \in DOMAIN ops : Holds(o, ops[o])
  BY DEF SubmitApplied
<1>2. draft[t] \in Draft /\ Sound(draft[t])
  BY <1>0, SoundDrafts
<1>3. /\ sets' \in Seq(Filed) /\ Len(sets') = c /\ SetsKept /\ OncePerKey'
      /\ \A i \in 1..Len(sets) : sets'[i] = sets[i]
      /\ \A i \in 1..Len(sets') : Sound(sets'[i])
      /\ sets'[c].ops = ops /\ sets'[c].state = "applied"
      /\ sets'[c].gen = dom.gen + 1
  <2>1. /\ sets' \in Seq(Filed) /\ Len(sets') = c /\ SetsKept /\ OncePerKey'
        /\ \A i \in 1..Len(sets) : sets'[i] = sets[i]
        /\ \A i \in 1..Len(sets') : Sound(sets'[i])
        /\ sets'[c].ops = draft[t].ops /\ sets'[c].state = "applied" /\ sets'[c].mode = draft[t].mode
        /\ sets'[c].gen = (IF "applied" = "applied" THEN dom.gen + 1 ELSE 0)
    BY <1>0, <1>1, <1>2, FilingShape
  <2> QED
    BY <2>1
<1>4. /\ Len(sets) \in Nat /\ \A i \in 1..Len(sets') : i = c \/ i \in 1..Len(sets)
  BY <1>0, <1>3 DEF AuditTypes
<1>5. Files(c, ops)
  BY <1>3, <1>4 DEF Files, Sound
<1>6. GoodOps(ops)
  BY <1>1, SubmitGood
<1>7. \A u \in Thread, o \in Obs : Claims(u, o)' => Claims(u, o) /\ ~Creates(ops, o)
  <2> SUFFICES ASSUME NEW u \in Thread, NEW o \in Obs, Claims(u, o)'
               PROVE  Claims(u, o) /\ ~Creates(ops, o)
    OBVIOUS
  <2>1. u # t
    <3>1. DOMAIN <<>> = {}
      OBVIOUS
    <3> QED
      BY <3>1 DEF Claims, Creates
  <2>2. PICK d : d = draft[u]
    OBVIOUS
  <2>3. draft'[u] = d
    BY <2>1, <2>2
  <2>4. Creates(d.ops, o) /\ ~Recorded(d)'
    BY <2>3 DEF Claims, Creates, Recorded
  <2>5. ~Recorded(d)
    <3>1. /\ DOMAIN sets = 1..Len(sets) /\ DOMAIN sets' = 1..Len(sets')
          /\ \A i \in 1..Len(sets) : i \in 1..Len(sets')
      BY <1>0, <1>3, <1>4 DEF AuditTypes
    <3> QED
      BY <1>3, <2>4, <3>1 DEF Recorded
  <2>6. Claims(u, o)
    BY <2>2, <2>4, <2>5 DEF Claims
  <2>7. ~Claims(t, o)
    BY <1>0, <2>1, <2>6 DEF ClaimInv
  <2> QED
    BY <2>6, <2>7 DEF Claims
<1>8. \A o \in Obs, i \in 1..Len(sets') : Proposes(i, o)' =>
        i \in 1..Len(sets) /\ Proposes(i, o) /\ ~Creates(ops, o)
  <2> SUFFICES ASSUME NEW i \in 1..Len(sets'), NEW o \in Obs, Proposes(i, o)'
               PROVE  i \in 1..Len(sets) /\ Proposes(i, o) /\ ~Creates(ops, o)
    OBVIOUS
  <2>1. i \in 1..Len(sets)
    BY <1>3, <1>4 DEF Proposes
  <2>2. Proposes(i, o)
    BY <1>3, <2>1 DEF Proposes, Creates
  <2>3. ~Claims(t, o)
    BY <1>0, <2>1, <2>2 DEF ClaimInv
  <2> QED
    BY <2>1, <2>2, <2>3 DEF Claims
<1> HIDE DEF c, ops
<1>9. AuditInv' /\ Onward /\ LogsGrow
  BY <1>1, <1>3, <1>5, <1>6, <1>7, <1>8, CommitKeeps
<1> QED
  BY <1>6, <1>9 DEF ops

\* submit_changeset, whatever it answers.
LEMMA SubmitKeeps ==
  ASSUME AuditInv, NEW t \in Thread, Submit(t)
  PROVE  AuditInv'
<1>0. AuditTypes /\ DraftInv
  BY DEF AuditInv
<1>1. PICK d : draft' = [draft EXCEPT ![t] = d] /\ d \in Draft /\ d.ops = <<>> /\ Sound(d) /\ Gentle(d)
  <2>1. draft' = [draft EXCEPT ![t] = IF pc'[t] = "idle" THEN NoDraft
                                      ELSE [NoDraft EXCEPT !.by = draft[t].by]]
    BY DEF Submit
  <2>2. draft[t].by \in {"caller", "consolidate"}
    BY <1>0 DEF AuditTypes, Draft
  <2>3. NoDraft \in Draft /\ NoDraft.ops = <<>> /\ Sound(NoDraft) /\ Gentle(NoDraft)
    BY NoDraftShape DEF NoDraft, Sound
  <2> DEFINE b == draft[t].by
             e == [NoDraft EXCEPT !.by = b]
  <2>4. e \in Draft /\ e.ops = <<>> /\ Sound(e) /\ Gentle(e)
    BY <2>2, DoneShape
  <2>5. draft' = [draft EXCEPT ![t] = IF pc'[t] = "idle" THEN NoDraft ELSE e]
    BY <2>1
  <2> HIDE DEF e
  <2> QED
    BY <2>3, <2>4, <2>5
<1>2. /\ draft' \in [Thread -> Draft] /\ draft'[t] = d /\ \A u \in Thread \ {t} : draft'[u] = draft[u]
      /\ \A u \in Thread : Sound(draft'[u])
  BY <1>0, <1>1, SoundDrafts DEF AuditTypes
<1>3. UNCHANGED mix
  BY DEF Submit, env
<1>4. CASE UNCHANGED canon
  BY <1>1, <1>2, <1>3, <1>4, QuietKeeps
<1>5. CASE ~Recorded(draft[t]) /\ SubmitProposal(t)
  BY <1>1, <1>2, <1>3, <1>5, SubmitProposalKeeps
<1>6. CASE ~Recorded(draft[t]) /\ SubmitApplied(t)
  BY <1>1, <1>2, <1>3, <1>6, SubmitAppliedKeeps
<1> QED
  BY <1>4, <1>5, <1>6 DEF Submit, SubmitKnown, SubmitRefused

\* A changeset that is decided, or whose payload goes, is otherwise the same.
Restated(i, r) ==
  /\ r \in Filed /\ sets' = [sets EXCEPT ![i] = r]
  /\ r.key = sets[i].key /\ r.mode = sets[i].mode /\ r.ops = sets[i].ops

\* What a decision leaves of a changeset.
LEMMA DecideShape ==
  ASSUME AuditTypes, NEW i \in 1..Len(sets), NEW state \in State, Decide(i, state)
  PROVE  \E r : /\ Restated(i, r) /\ r.state = state
                /\ r.gen = (IF state = "applied" THEN dom.gen + 1 ELSE sets[i].gen)
<1>1. sets \in Seq(Filed) /\ sets[i] \in Filed /\ i \in DOMAIN sets /\ dom.gen + 1 \in Nat
  BY DEF AuditTypes
<1> DEFINE f == sets[i]
           g == IF state = "applied" THEN dom.gen + 1 ELSE f.gen
           r == [key |-> f.key, mode |-> f.mode, actor |-> f.actor, ops |-> f.ops,
                 kept |-> f.kept, state |-> state, gen |-> g]
<1>2. r \in Filed /\ r.key = f.key /\ r.mode = f.mode /\ r.ops = f.ops /\ r.state = state /\ r.gen = g
  BY <1>1 DEF Filed
<1>3. [f EXCEPT !.state = state, !.gen = g] = r
  <2>1. f = [key |-> f.key, mode |-> f.mode, actor |-> f.actor, ops |-> f.ops,
             kept |-> f.kept, state |-> f.state, gen |-> f.gen]
    BY <1>1 DEF Filed
  <2>2. PICK k, m, a, p, b, s, h : /\ k = f.key /\ m = f.mode /\ a = f.actor /\ p = f.ops /\ b = f.kept
                                   /\ s = f.state /\ h = f.gen
    OBVIOUS
  <2> HIDE DEF g
  <2>3. [[key |-> k, mode |-> m, actor |-> a, ops |-> p, kept |-> b, state |-> s, gen |-> h]
           EXCEPT !.state = state] =
        [key |-> k, mode |-> m, actor |-> a, ops |-> p, kept |-> b, state |-> state, gen |-> h]
    OBVIOUS
  <2>4. [[key |-> k, mode |-> m, actor |-> a, ops |-> p, kept |-> b, state |-> state, gen |-> h]
           EXCEPT !.gen = g] =
        [key |-> k, mode |-> m, actor |-> a, ops |-> p, kept |-> b, state |-> state, gen |-> g]
    OBVIOUS
  <2>5. [f EXCEPT !.state = state, !.gen = g] = [[f EXCEPT !.state = state] EXCEPT !.gen = g]
    OBVIOUS
  <2> QED
    BY <2>1, <2>2, <2>3, <2>4, <2>5
<1>4. sets' = [sets EXCEPT ![i].state = state, ![i].gen = IF state = "applied" THEN dom.gen + 1 ELSE @]
  BY DEF Decide
<1>5. sets' = [sets EXCEPT ![i] = [f EXCEPT !.state = state, !.gen = g]]
  BY <1>1, <1>4
<1>6. sets' = [sets EXCEPT ![i] = r]
  BY <1>3, <1>5
<1> QED
  BY <1>2, <1>6 DEF Restated

\* The other changesets are as they were, and all are still sound.
LEMMA RestateShape ==
  ASSUME AuditTypes, DraftInv, OncePerKey, NEW i \in 1..Len(sets), NEW r, Restated(i, r)
  PROVE  /\ sets' \in Seq(Filed) /\ Len(sets') = Len(sets) /\ sets'[i] = r
         /\ \A j \in 1..Len(sets) : j # i => sets'[j] = sets[j]
         /\ \A j \in 1..Len(sets') : Sound(sets'[j])
         /\ SetsKept /\ OncePerKey'
<1>1. sets \in Seq(Filed) /\ DOMAIN sets = 1..Len(sets) /\ Len(sets) \in Nat
  BY DEF AuditTypes
<1>2. /\ sets' \in Seq(Filed) /\ Len(sets') = Len(sets) /\ sets'[i] = r /\ DOMAIN sets' = 1..Len(sets)
      /\ \A j \in 1..Len(sets) : j # i => sets'[j] = sets[j]
  BY <1>1 DEF Restated
<1>3. \A j \in 1..Len(sets) : /\ sets'[j].key = sets[j].key /\ sets'[j].mode = sets[j].mode
                              /\ sets'[j].ops = sets[j].ops
  BY <1>2 DEF Restated
<1>4. \A j \in 1..Len(sets') : Sound(sets'[j])
  BY <1>2, <1>3, SoundDrafts DEF Sound, Gentle
<1>5. SetsKept
  BY <1>1, <1>2, <1>3 DEF SetsKept
<1>6. OncePerKey'
  BY <1>1, <1>2, <1>3 DEF OncePerKey
<1> QED
  BY <1>2, <1>4, <1>5, <1>6

\* No key is forgotten.
LEMMA RestateRecorded ==
  ASSUME AuditTypes, NEW i \in 1..Len(sets), NEW r, Restated(i, r), NEW d, Recorded(d)
  PROVE  Recorded(d)'
<1>1. sets \in Seq(Filed) /\ DOMAIN sets = 1..Len(sets)
  BY DEF AuditTypes
<1>2. DOMAIN sets' = DOMAIN sets /\ \A j \in DOMAIN sets : sets'[j].key = sets[j].key
  BY <1>1 DEF Restated
<1> QED
  BY <1>2 DEF Recorded

\* It stays the invariant when nothing is committed.
LEMMA RestateKeeps ==
  ASSUME AuditInv, UNCHANGED <<rows, revs, dom, outbox, tokens, draft, mix>>,
         NEW i \in 1..Len(sets), NEW r, Restated(i, r), r.gen = sets[i].gen,
         r.state \in {"conflicted", "rejected"}, sets[i].state \in {"proposed", "rejected"}
  PROVE  AuditInv'
<1>0. AuditTypes /\ DraftInv /\ ClaimInv /\ SetInv /\ OncePerKey
  BY DEF AuditInv
<1>1. /\ sets' \in Seq(Filed) /\ Len(sets') = Len(sets) /\ sets'[i] = r
      /\ \A j \in 1..Len(sets) : j # i => sets'[j] = sets[j]
      /\ \A j \in 1..Len(sets') : Sound(sets'[j])
      /\ SetsKept /\ OncePerKey'
  BY <1>0, RestateShape
<1>2. draft' \in [Thread -> Draft] /\ \A t \in Thread : Sound(draft'[t])
  BY <1>0, SoundDrafts DEF AuditTypes
<1>3. SetInv'
  BY <1>0, <1>1 DEF SetInv
<1>4. ClaimInv'
  <2>1. \A o \in Obs : \A t \in Thread : Claims(t, o)' => Claims(t, o)
    <3> SUFFICES ASSUME NEW o \in Obs, NEW t \in Thread, Claims(t, o)' PROVE Claims(t, o)
      OBVIOUS
    <3>1. PICK d : d = draft[t]
      OBVIOUS
    <3>2. draft'[t] = d
      BY <3>1
    <3>3. Creates(d.ops, o) /\ ~Recorded(d)'
      BY <3>2 DEF Claims, Creates, Recorded
    <3>4. ~Recorded(d)
      BY <1>0, <3>3, RestateRecorded
    <3> QED
      BY <3>1, <3>3, <3>4 DEF Claims
  <2>2. \A o \in Obs : \A j \in 1..Len(sets') : Proposes(j, o)' => j \in 1..Len(sets) /\ Proposes(j, o)
    BY <1>1 DEF Proposes, Creates
  <2> QED
    BY <1>0, <2>1, <2>2, ClaimsShrink DEF ClaimInv
<1> QED
  BY <1>1, <1>2, <1>3, <1>4, FiledKeeps

\* reject_changeset.
LEMMA RejectKeeps ==
  ASSUME AuditInv, NEW t \in Thread, Reject(t)
  PROVE  AuditInv'
<1>0. AuditTypes
  BY DEF AuditInv
<1>1. PICK i \in DOMAIN sets : sets[i].state = "proposed" /\ Decide(i, "rejected")
  BY Zenon DEF Reject
<1>2. i \in 1..Len(sets) /\ "rejected" \in State
  BY <1>0 DEF AuditTypes, State
<1>3. PICK r : /\ Restated(i, r) /\ r.state = "rejected"
               /\ r.gen = (IF "rejected" = "applied" THEN dom.gen + 1 ELSE sets[i].gen)
  BY <1>0, <1>1, <1>2, DecideShape
<1> QED
  BY <1>1, <1>2, <1>3, RestateKeeps DEF Reject, env

\* compact_rejected_proposals.
LEMMA CompactRejectedKeeps ==
  ASSUME AuditInv, CompactRejected
  PROVE  AuditInv'
<1>0. AuditTypes
  BY DEF AuditInv
<1>1. PICK i \in DOMAIN sets : sets[i].state = "rejected" /\ sets' = [sets EXCEPT ![i].kept = FALSE]
  BY Zenon DEF CompactRejected
<1>2. i \in 1..Len(sets) /\ sets[i] \in Filed
  BY <1>0 DEF AuditTypes
<1> DEFINE r == [sets[i] EXCEPT !.kept = FALSE]
<1>3. r \in Filed /\ r.key = sets[i].key /\ r.mode = sets[i].mode /\ r.ops = sets[i].ops
      /\ r.gen = sets[i].gen /\ r.state = "rejected"
  BY <1>1, <1>2 DEF Filed
<1>4. sets' = [sets EXCEPT ![i] = r]
  BY <1>1
<1> HIDE DEF r
<1>5. Restated(i, r)
  BY <1>3, <1>4 DEF Restated
<1> QED
  BY <1>1, <1>2, <1>3, <1>5, RestateKeeps DEF CompactRejected, env

\* What is proposed and holds may be applied.
LEMMA ApproveGood ==
  ASSUME AuditInv, NEW i \in 1..Len(sets), sets[i].state = "proposed",
         \A o \in DOMAIN sets[i].ops : Holds(o, sets[i].ops[o])
  PROVE  GoodOps(sets[i].ops)
<1>0. AuditTypes /\ DraftInv /\ ClaimInv
  BY DEF AuditInv
<1> DEFINE ops == sets[i].ops
<1>1. Sound(sets[i])
  BY <1>0, SoundDrafts
<1>2. \A o \in DOMAIN ops : ops[o].kind = "remember" => rows[o].st = "absent"
  <2> SUFFICES ASSUME NEW o \in DOMAIN ops, ops[o].kind = "remember" PROVE rows[o].st = "absent"
    OBVIOUS
  <2>1. Proposes(i, o)
    BY DEF Proposes, Creates
  <2>2. o \in Obs
    BY <1>1, OpsShape DEF Sound
  <2> QED
    BY <1>0, <2>1, <2>2 DEF ClaimInv
<1> QED
  BY <1>1, <1>2 DEF GoodOps, Applicable, Sound

\* transition_proposal: applied, conflicted, or decided before.
LEMMA ApproveAppliedKeeps ==
  ASSUME AuditInv, NEW i \in 1..Len(sets), sets[i].state = "proposed",
         \A o \in DOMAIN sets[i].ops : Holds(o, sets[i].ops[o]),
         CommitOps(sets[i].ops), Decide(i, "applied"), UNCHANGED <<draft, mix>>
  PROVE  AuditInv' /\ Onward /\ LogsGrow /\ GoodOps(sets[i].ops)
<1>0. AuditTypes /\ LogInv /\ DraftInv /\ ClaimInv /\ SetInv /\ OncePerKey
  BY DEF AuditInv
<1> DEFINE ops == sets[i].ops
<1>1. PICK r : /\ Restated(i, r) /\ r.state = "applied"
               /\ r.gen = (IF "applied" = "applied" THEN dom.gen + 1 ELSE sets[i].gen)
  BY <1>0, DecideShape DEF State
<1>2. /\ sets' \in Seq(Filed) /\ Len(sets') = Len(sets) /\ sets'[i] = r
      /\ \A j \in 1..Len(sets) : j # i => sets'[j] = sets[j]
      /\ \A j \in 1..Len(sets') : Sound(sets'[j])
      /\ SetsKept /\ OncePerKey'
  BY <1>0, <1>1, RestateShape
<1>3. draft' \in [Thread -> Draft] /\ \A t \in Thread : Sound(draft'[t])
  BY <1>0, SoundDrafts DEF AuditTypes
<1>4. sets[i].gen = 0
  <2>1. sets[i].gen \in Nat
    <3>1. sets[i] \in Filed
      BY <1>0 DEF AuditTypes
    <3> QED
      BY <3>1 DEF Filed
  <2> QED
    BY <1>0, <2>1 DEF SetInv
<1>5. Files(i, ops)
  BY <1>1, <1>2, <1>4 DEF Files, Restated, Sound
<1>7. GoodOps(ops)
  BY ApproveGood
<1>8. \A t \in Thread, o \in Obs : Claims(t, o)' => Claims(t, o) /\ ~Creates(ops, o)
  <2> SUFFICES ASSUME NEW t \in Thread, NEW o \in Obs, Claims(t, o)'
               PROVE  Claims(t, o) /\ ~Creates(ops, o)
    OBVIOUS
  <2>1. PICK d : d = draft[t]
    OBVIOUS
  <2>2. draft'[t] = d
    BY <2>1
  <2>3. Creates(d.ops, o) /\ ~Recorded(d)'
    BY <2>2 DEF Claims, Creates, Recorded
  <2>4. ~Recorded(d)
    BY <1>0, <1>1, <2>3, RestateRecorded
  <2>5. Claims(t, o)
    BY <2>1, <2>3, <2>4 DEF Claims
  <2>6. ~Proposes(i, o)
    BY <1>0, <2>5 DEF ClaimInv
  <2> QED
    BY <2>5, <2>6 DEF Proposes
<1>9. \A o \in Obs, j \in 1..Len(sets') : Proposes(j, o)' =>
        j \in 1..Len(sets) /\ Proposes(j, o) /\ ~Creates(ops, o)
  <2> SUFFICES ASSUME NEW j \in 1..Len(sets'), NEW o \in Obs, Proposes(j, o)'
               PROVE  j \in 1..Len(sets) /\ Proposes(j, o) /\ ~Creates(ops, o)
    OBVIOUS
  <2>1. j # i /\ j \in 1..Len(sets)
    BY <1>1, <1>2 DEF Proposes
  <2>2. Proposes(j, o)
    BY <1>2, <2>1 DEF Proposes, Creates
  <2>3. ~Proposes(i, o)
    BY <1>0, <2>1, <2>2 DEF ClaimInv
  <2> QED
    BY <2>1, <2>2, <2>3 DEF Proposes
<1> HIDE DEF ops
<1>10. CommitOps(ops)
  BY DEF ops
<1>11. AuditInv' /\ Onward /\ LogsGrow
  BY <1>2, <1>3, <1>5, <1>7, <1>8, <1>9, <1>10, CommitKeeps
<1> QED
  BY <1>7, <1>11 DEF ops

\* approve_changeset, whatever it decides.
LEMMA ApproveKeeps ==
  ASSUME AuditInv, NEW t \in Thread, Approve(t)
  PROVE  AuditInv'
<1>0. AuditTypes /\ DraftInv
  BY DEF AuditInv
<1>1. UNCHANGED <<draft, mix>>
  BY DEF Approve, env
<1>2. PICK i \in DOMAIN sets :
        \/ /\ sets[i].state = "proposed" /\ \A o \in DOMAIN sets[i].ops : Holds(o, sets[i].ops[o])
           /\ CommitOps(sets[i].ops) /\ Decide(i, "applied")
        \/ /\ sets[i].state = "proposed" /\ Decide(i, "conflicted")
           /\ UNCHANGED <<rows, revs, dom, outbox, tokens, pc>>
        \/ UNCHANGED canon
  BY Zenon DEF Approve
<1>3. i \in 1..Len(sets)
  BY <1>0 DEF AuditTypes
<1>4. CASE /\ sets[i].state = "proposed" /\ \A o \in DOMAIN sets[i].ops : Holds(o, sets[i].ops[o])
           /\ CommitOps(sets[i].ops) /\ Decide(i, "applied")
  BY <1>1, <1>3, <1>4, ApproveAppliedKeeps
<1>5. CASE /\ sets[i].state = "proposed" /\ Decide(i, "conflicted")
           /\ UNCHANGED <<rows, revs, dom, outbox, tokens, pc>>
  <2>1. PICK r : /\ Restated(i, r) /\ r.state = "conflicted"
                 /\ r.gen = (IF "conflicted" = "applied" THEN dom.gen + 1 ELSE sets[i].gen)
    BY <1>0, <1>3, <1>5, DecideShape DEF State
  <2> QED
    BY <1>1, <1>3, <1>5, <2>1, RestateKeeps
<1>6. CASE UNCHANGED canon
  <2>1. draft' \in [Thread -> Draft]
    BY <1>0, <1>1 DEF AuditTypes
  <2> QED
    BY <1>1, <1>6, <2>1, QuietKeeps
<1> QED
  BY <1>2, <1>4, <1>5, <1>6

\* remember and remember_batch commit a changeset of their own.
LEMMA RememberKeeps ==
  ASSUME AuditInv, NEW t \in Thread, NEW o \in Obs, NEW x \in Text, Unused(o), UNCHANGED <<draft, mix>>,
         CommitOps([p \in {o} |-> Operation("remember", o, x, 0, 0)]),
         sets' = Append(sets, Record([NoDraft EXCEPT !.ops =
                   [p \in {o} |-> Operation("remember", o, x, 0, 0)]], "applied"))
  PROVE  AuditInv' /\ Onward /\ LogsGrow /\ GoodOps([p \in {o} |-> Operation("remember", o, x, 0, 0)])
<1>0. AuditTypes /\ LogInv /\ DraftInv /\ ClaimInv /\ SetInv /\ OncePerKey
  BY DEF AuditInv
<1> DEFINE c == Len(sets) + 1
           op == Operation("remember", o, x, 0, 0)
           ops == [p \in {o} |-> op]
           d == [NoDraft EXCEPT !.ops = ops]
<1>1. /\ DOMAIN ops = {o} /\ ops[o] = op /\ op.kind = "remember" /\ op \in Op /\ Drafted(o, op)
      /\ rows[o].st = "absent"
  <2>1. rows[o] \in Row /\ rows[o].ver \in Nat
    BY <1>0 DEF AuditTypes, Row
  <2>2. op = [kind |-> "remember", basis |-> rows[o], text |-> x, rev |-> 0, tok |-> 0]
    BY DEF Operation
  <2>3. op \in Op /\ op.kind = "remember" /\ op.basis = rows[o] /\ op.text = x
    BY <2>1, <2>2 DEF Op, Kind
  <2>4. Seen(o, rows[o])
    BY <2>1 DEF Seen
  <2> HIDE DEF op
  <2>5. Drafted(o, op)
    BY <2>3, <2>4 DEF Drafted
  <2>6. DOMAIN ops = {o} /\ ops[o] = op
    OBVIOUS
  <2> QED
    BY <2>3, <2>5, <2>6 DEF Unused
<1> HIDE DEF op
<1>2. ops \in Ops
  <2>1. ops \in [{o} -> Op]
    BY <1>1
  <2> QED
    BY <1>1, <2>1, OpsShape
<1>3. CommitOps(ops) /\ sets' = Append(sets, Record(d, "applied"))
  BY DEF op
<1> HIDE DEF ops
<1>4. d = [key |-> NoKey, mode |-> "apply_immediately", actor |-> System, ops |-> ops, by |-> "caller"]
  BY DEF NoDraft
<1>5. d \in Draft
  BY <1>2, <1>4 DEF Draft, Ops, Mode
<1>6. d.key = NoKey /\ d.ops = ops /\ d.mode = "apply_immediately"
  BY <1>4
<1> HIDE DEF d
<1>7. Sound(d) /\ ~Recorded(d)
  BY <1>1, <1>2, <1>6 DEF Sound, Gentle, Recorded
<1>8. /\ sets' \in Seq(Filed) /\ Len(sets') = c /\ SetsKept /\ OncePerKey'
      /\ \A i \in 1..Len(sets) : sets'[i] = sets[i]
      /\ \A i \in 1..Len(sets') : Sound(sets'[i])
      /\ sets'[c].ops = ops /\ sets'[c].state = "applied"
      /\ sets'[c].gen = dom.gen + 1
  <2>1. /\ sets' \in Seq(Filed) /\ Len(sets') = c /\ SetsKept /\ OncePerKey'
        /\ \A i \in 1..Len(sets) : sets'[i] = sets[i]
        /\ \A i \in 1..Len(sets') : Sound(sets'[i])
        /\ sets'[c].ops = d.ops /\ sets'[c].state = "applied" /\ sets'[c].mode = d.mode
        /\ sets'[c].gen = (IF "applied" = "applied" THEN dom.gen + 1 ELSE 0)
    BY <1>0, <1>3, <1>5, <1>7, FilingShape
  <2> QED
    BY <1>6, <2>1
<1>9. /\ Len(sets) \in Nat /\ \A i \in 1..Len(sets') : i = c \/ i \in 1..Len(sets)
  BY <1>0, <1>8 DEF AuditTypes
<1>10. Files(c, ops)
  BY <1>8, <1>9 DEF Files, Sound
<1>11. GoodOps(ops)
  BY <1>1, <1>2 DEF GoodOps, Applicable
<1>12. draft' \in [Thread -> Draft] /\ \A u \in Thread : Sound(draft'[u])
  BY <1>0, SoundDrafts DEF AuditTypes
<1>13. \A p \in Obs, u \in Thread : Claims(u, p)' => Claims(u, p) /\ ~Creates(ops, p)
  <2> SUFFICES ASSUME NEW u \in Thread, NEW p \in Obs, Claims(u, p)'
               PROVE  Claims(u, p) /\ ~Creates(ops, p)
    OBVIOUS
  <2>1. PICK e : e = draft[u]
    OBVIOUS
  <2>2. draft'[u] = e
    BY <2>1
  <2>3. Creates(e.ops, p) /\ ~Recorded(e)'
    BY <2>2 DEF Claims, Creates, Recorded
  <2>4. ~Recorded(e)
    <3>1. /\ DOMAIN sets = 1..Len(sets) /\ DOMAIN sets' = 1..Len(sets')
          /\ \A i \in 1..Len(sets) : i \in 1..Len(sets')
      BY <1>0, <1>8, <1>9 DEF AuditTypes
    <3> QED
      BY <1>8, <2>3, <3>1 DEF Recorded
  <2>5. p # o
    BY <2>1, <2>3 DEF Creates, Unused
  <2> QED
    BY <1>1, <2>1, <2>3, <2>4, <2>5 DEF Claims, Creates
<1>14. \A p \in Obs, i \in 1..Len(sets') : Proposes(i, p)' =>
        i \in 1..Len(sets) /\ Proposes(i, p) /\ ~Creates(ops, p)
  <2> SUFFICES ASSUME NEW i \in 1..Len(sets'), NEW p \in Obs, Proposes(i, p)'
               PROVE  i \in 1..Len(sets) /\ Proposes(i, p) /\ ~Creates(ops, p)
    OBVIOUS
  <2>1. i \in 1..Len(sets)
    BY <1>8, <1>9 DEF Proposes
  <2>2. Proposes(i, p)
    BY <1>8, <2>1 DEF Proposes, Creates
  <2>3. p # o
    <3>1. i \in DOMAIN sets
      BY <1>0, <2>1 DEF AuditTypes
    <3> QED
      BY <2>2, <3>1 DEF Proposes, Creates, Unused
  <2> QED
    BY <1>1, <2>1, <2>2, <2>3 DEF Creates
<1> HIDE DEF c
<1>15. AuditInv' /\ Onward /\ LogsGrow
  BY <1>3, <1>8, <1>10, <1>11, <1>12, <1>13, <1>14, CommitKeeps
<1> QED
  BY <1>11, <1>15 DEF ops, op

-----------------------------------------------------------------------------
(* The steps outside the changesets. *)

\* A step that files nothing and creates nothing.
LEMMA StoreKeeps ==
  ASSUME AuditInv, AuditTypes', LogInv', OutboxInv', OutboxHonest', Onward, UNCHANGED sets,
         \A t \in Thread : draft'[t] = draft[t] \/ (draft'[t].ops = <<>> /\ Gentle(draft'[t])),
         \A k \in 1..Len(tokens') : \/ k \in 1..Len(tokens)
                                    \/ /\ Seen(tokens'[k].obs, tokens'[k].row)
                                       /\ rows[tokens'[k].obs].st # "absent",
         dom'.gen = dom.gen, \A o \in Obs : rows[o].st = "absent" => rows'[o].st = "absent",
         \A o \in Obs, g \in Nat \ {0} : (\E k \in DOMAIN revs'[o] : revs'[o][k].gen = g)
                                           <=> (\E k \in DOMAIN revs[o] : revs[o][k].gen = g)
  PROVE  AuditInv'
<1>0. AuditTypes /\ DraftInv /\ ClaimInv /\ SetInv /\ OncePerKey /\ Accounted
  BY DEF AuditInv
<1>1. \A t \in Thread : draft'[t].ops = <<>> => DOMAIN draft'[t].ops = {}
  OBVIOUS
<1>2. \A t \in Thread : Sound(draft'[t])
  <2> SUFFICES ASSUME NEW t \in Thread PROVE Sound(draft'[t])
    OBVIOUS
  <2>1. CASE draft'[t] = draft[t]
    BY <1>0, <2>1, SoundDrafts
  <2>2. CASE draft'[t].ops = <<>> /\ Gentle(draft'[t])
    BY <1>1, <2>2, NoDraftShape DEF Sound, NoDraft
  <2> QED
    BY <2>1, <2>2
<1>3. \A i \in 1..Len(sets') : Sound(sets'[i])
  BY <1>0, SoundDrafts
<1>4. DraftInv'
  BY <1>0, <1>2, <1>3, DraftKeeps
<1>5. ClaimInv'
  <2>1. \A o \in Obs : \A t \in Thread : Claims(t, o)' => Claims(t, o) /\ rows'[o].st = "absent"
    <3> SUFFICES ASSUME NEW o \in Obs, NEW t \in Thread, Claims(t, o)'
                 PROVE  Claims(t, o) /\ rows'[o].st = "absent"
      OBVIOUS
    <3>1. draft'[t] = draft[t]
      BY <1>1 DEF Claims, Creates
    <3>2. Claims(t, o)
      BY <3>1 DEF Claims, Creates, Recorded
    <3> QED
      BY <1>0, <3>2 DEF ClaimInv
  <2>2. \A o \in Obs : \A i \in 1..Len(sets') : Proposes(i, o)' =>
            i \in 1..Len(sets) /\ Proposes(i, o) /\ rows'[o].st = "absent"
    BY <1>0 DEF ClaimInv, Proposes, Creates
  <2> QED
    BY <1>0, <2>1, <2>2, ClaimsShrink
<1>6. SetInv'
  BY <1>0 DEF SetInv
<1>7. OncePerKey'
  BY <1>0, Zenon DEF OncePerKey
<1>8. Accounted'
  <2>1. SetsKept
    BY <1>0 DEF SetsKept, AuditTypes
  <2> QED
    BY <1>0, <2>1, AccountStays
<1> QED
  BY <1>4, <1>5, <1>6, <1>7, <1>8 DEF AuditInv

\* Previews are added, and expire.
LEMMA TokensKeep ==
  ASSUME AuditInv, UNCHANGED <<rows, revs, dom, outbox, sets, draft, mix>>, tokens' \in Seq(Token),
         Len(tokens) <= Len(tokens'),
         \A k \in 1..Len(tokens) : tokens'[k].obs = tokens[k].obs /\ tokens'[k].row = tokens[k].row,
         \A k \in 1..Len(tokens') : \/ k \in 1..Len(tokens)
                                    \/ /\ Seen(tokens'[k].obs, tokens'[k].row)
                                       /\ rows[tokens'[k].obs].st # "absent"
  PROVE  AuditInv'
<1>0. AuditTypes /\ LogInv /\ OutboxInv /\ OutboxHonest
  BY DEF AuditInv
<1>1. AuditTypes'
  BY <1>0 DEF AuditTypes
<1>2. LogInv' /\ OutboxInv' /\ OutboxHonest'
  <2>1. rows' = rows /\ revs' = revs /\ dom' = dom /\ outbox' = outbox
    OBVIOUS
  <2>2. LogInv' /\ OutboxInv'
    BY <1>0, <2>1 DEF LogInv, Logged, OutboxInv, Dated
  <2>3. OutboxHonest'
    BY <1>0, <2>1 DEF OutboxHonest
  <2> QED
    BY <2>2, <2>3
<1>3. Onward
  BY <1>0 DEF Onward, Advance
<1> QED
  BY <1>1, <1>2, <1>3, StoreKeeps

\* preview_observation_destruction records the row as it is.
LEMMA PreviewKeeps ==
  ASSUME AuditInv, NEW t \in Thread, Preview(t)
  PROVE  AuditInv'
<1>0. AuditTypes
  BY DEF AuditInv
<1>1. UNCHANGED <<rows, revs, dom, outbox, sets, draft, mix>>
  BY DEF Preview, env
<1>2. PICK o \in Obs, actor \in Actor :
        /\ rows[o].st \in Present
        /\ tokens' = Append(tokens, [obs |-> o, row |-> rows[o], actor |-> actor, state |-> "fresh"])
  BY Zenon DEF Preview
<1> DEFINE n == [obs |-> o, row |-> rows[o], actor |-> actor, state |-> "fresh"]
<1>3. tokens \in Seq(Token) /\ Len(tokens) \in Nat /\ rows[o] \in Row /\ rows[o].ver \in Nat
  BY <1>0 DEF AuditTypes, Row
<1>4. n \in Token /\ n.obs = o /\ n.row = rows[o]
  BY <1>3 DEF Token
<1>5. tokens' = Append(tokens, n)
  BY <1>2
<1> HIDE DEF n
<1>6. /\ tokens' \in Seq(Token) /\ Len(tokens') = Len(tokens) + 1
      /\ tokens'[Len(tokens) + 1] = n
      /\ \A k \in 1..Len(tokens) : tokens'[k] = tokens[k]
  BY <1>3, <1>4, <1>5
<1>7. Seen(o, rows[o]) /\ rows[o].st # "absent"
  BY <1>2, <1>3 DEF Seen, Present
<1>8. \A k \in 1..Len(tokens') : \/ k \in 1..Len(tokens)
                                 \/ /\ Seen(tokens'[k].obs, tokens'[k].row)
                                    /\ rows[tokens'[k].obs].st # "absent"
  <2> SUFFICES ASSUME NEW k \in 1..Len(tokens'), k \notin 1..Len(tokens)
               PROVE  Seen(tokens'[k].obs, tokens'[k].row) /\ rows[tokens'[k].obs].st # "absent"
    OBVIOUS
  <2>1. tokens'[k] = n
    BY <1>3, <1>6
  <2> QED
    BY <1>4, <1>7, <2>1
<1> QED
  BY <1>1, <1>3, <1>6, <1>8, TokensKeep

\* A preview that expires.
LEMMA ExpireKeeps ==
  ASSUME AuditInv, Expire
  PROVE  AuditInv'
<1>0. AuditTypes
  BY DEF AuditInv
<1>1. UNCHANGED <<rows, revs, dom, outbox, sets, draft, mix>>
  BY DEF Expire, env
<1>2. PICK k \in DOMAIN tokens : tokens' = [tokens EXCEPT ![k].state = "expired"]
  BY Zenon DEF Expire
<1>3. tokens \in Seq(Token) /\ Len(tokens) \in Nat /\ k \in 1..Len(tokens) /\ tokens[k] \in Token
  BY <1>0, <1>2 DEF AuditTypes
<1> DEFINE n == [tokens[k] EXCEPT !.state = "expired"]
<1>4. n \in Token /\ n.obs = tokens[k].obs /\ n.row = tokens[k].row
  BY <1>3 DEF Token
<1>5. tokens' = [tokens EXCEPT ![k] = n]
  BY <1>2
<1> HIDE DEF n
<1>6. /\ tokens' \in Seq(Token) /\ Len(tokens') = Len(tokens)
      /\ \A j \in 1..Len(tokens) : tokens'[j] = (IF j = k THEN n ELSE tokens[j])
  BY <1>3, <1>4, <1>5
<1> QED
  BY <1>1, <1>3, <1>4, <1>6, TokensKeep

\* A page of baseline revisions is of rows that have none.
LEMMA BackfillKeeps ==
  ASSUME AuditInv, NEW t \in Thread, Backfill(t)
  PROVE  /\ AuditInv' /\ Onward /\ LogsGrow
         /\ \A o \in Obs : /\ rows'[o].text = rows[o].text /\ rows'[o].st = rows[o].st
                           /\ rows'[o].ver = rows[o].ver
         /\ \A o \in Obs : revs[o] # <<>> => revs'[o] = revs[o] /\ rows'[o] = rows[o]
<1>0. AuditTypes /\ LogInv /\ OutboxInv /\ OutboxHonest
  BY DEF AuditInv
<1>1. UNCHANGED <<dom, outbox, sets, tokens, draft, mix>>
  BY DEF Backfill, env
<1>2. PICK S \in SUBSET {o \in Obs : rows[o].st \in Present /\ rows[o].head = 0} :
       /\ revs' = [o \in Obs |-> IF o \in S
                     THEN Append(revs[o], [text |-> rows[o].text, st |-> rows[o].st,
                                           parent |-> 0, gen |-> 0])
                     ELSE revs[o]]
       /\ rows' = [o \in Obs |-> IF o \in S THEN [rows[o] EXCEPT !.head = Len(revs'[o])]
                                 ELSE rows[o]]
  BY Zenon DEF Backfill
<1>3. /\ \A o \in Obs : rows[o] \in Row /\ revs[o] \in Seq(Revision) /\ Logged(rows[o], revs[o], dom.gen)
      /\ dom.gen \in Nat
  BY <1>0 DEF AuditTypes, LogInv
<1>4. ASSUME NEW o \in S
      PROVE  /\ o \in Obs /\ revs[o] = <<>>
             /\ revs'[o] = <<[text |-> rows[o].text, st |-> rows[o].st, parent |-> 0, gen |-> 0]>>
             /\ revs'[o] \in Seq(Revision) /\ Len(revs'[o]) = 1
             /\ rows'[o] = [rows[o] EXCEPT !.head = 1] /\ rows'[o] \in Row
             /\ Logged(rows'[o], revs'[o], dom.gen) /\ revs'[o][1].gen = 0
             /\ Len(revs[o]) = 0 /\ DOMAIN revs[o] = {} /\ DOMAIN revs'[o] = {1}
  <2> DEFINE v == [text |-> rows[o].text, st |-> rows[o].st, parent |-> 0, gen |-> 0]
  <2>1. o \in Obs /\ rows[o].st \in Present /\ rows[o].head = 0
    OBVIOUS
  <2>2. rows[o] \in Row /\ revs[o] \in Seq(Revision) /\ Logged(rows[o], revs[o], dom.gen)
    BY <1>3, <2>1
  <2>3. Len(revs[o]) = 0 /\ rows[o].text \in Text
    BY <2>1, <2>2 DEF Logged, Present
  <2>4. revs[o] = <<>>
    BY <2>2, <2>3
  <2>5. v \in Revision /\ v.text = rows[o].text /\ v.st = rows[o].st /\ v.parent = 0 /\ v.gen = 0
    BY <2>1, <2>3 DEF Revision, Present
  <2>6. revs'[o] = Append(revs[o], v)
    BY <1>2, <2>1
  <2> HIDE DEF v
  <2>7. revs'[o] = <<v>> /\ revs'[o] \in Seq(Revision) /\ Len(revs'[o]) = 1 /\ revs'[o][1] = v
    BY <2>4, <2>5, <2>6
  <2>8. rows'[o] = [rows[o] EXCEPT !.head = 1]
    BY <1>2, <2>1, <2>7
  <2>9. /\ rows'[o] \in Row /\ rows'[o].st = rows[o].st /\ rows'[o].text = rows[o].text
        /\ rows'[o].head = 1
    BY <2>2, <2>8 DEF Row
  <2>10. revs'[o] # <<>> /\ Last(revs'[o]) = v
    BY <2>7 DEF Last
  <2>11. \A k \in 1..Len(revs'[o]) : k = 1 /\ 1..k - 1 = {}
    BY <2>7
  <2>12. Logged(rows'[o], revs'[o], dom.gen)
    BY <1>3, <2>1, <2>3, <2>5, <2>7, <2>9, <2>10, <2>11 DEF Logged, Present
  <2>13. DOMAIN revs[o] = {} /\ DOMAIN revs'[o] = {1}
    BY <2>2, <2>3, <2>7
  <2> QED
    BY <2>1, <2>3, <2>4, <2>5, <2>7, <2>8, <2>9, <2>12, <2>13 DEF v
<1>5. \A o \in Obs \ S : rows'[o] = rows[o] /\ revs'[o] = revs[o]
  BY <1>2
<1>6. /\ \A o \in Obs : rows'[o] \in Row /\ revs'[o] \in Seq(Revision)
      /\ DOMAIN rows' = Obs /\ DOMAIN revs' = Obs
  BY <1>2, <1>3, <1>4, <1>5
<1>7. AuditTypes'
  <2>1. rows' \in [Obs -> Row]
    BY <1>2, <1>6
  <2>2. revs' \in [Obs -> Seq(Revision)]
    BY <1>2, <1>6
  <2> QED
    BY <1>0, <1>1, <2>1, <2>2 DEF AuditTypes
<1>8. LogInv'
  BY <1>1, <1>3, <1>4, <1>5 DEF LogInv
<1>9. \A o \in Obs : rows'[o].text = rows[o].text /\ rows'[o].st = rows[o].st /\ rows'[o].ver = rows[o].ver
  <2> SUFFICES ASSUME NEW o \in Obs
               PROVE  rows'[o].text = rows[o].text /\ rows'[o].st = rows[o].st /\ rows'[o].ver = rows[o].ver
    OBVIOUS
  <2>1. CASE o \in S
    BY <1>3, <1>4, <2>1 DEF Row
  <2> QED
    BY <1>5, <2>1
<1>10. Onward
  BY <1>1, <1>9, <1>0 DEF Onward, Advance, AuditTypes
<1>11. LogsGrow
  <2> SUFFICES ASSUME NEW o \in Obs
               PROVE  /\ revs'[o] \in Seq(Revision) /\ Len(revs[o]) <= Len(revs'[o])
                      /\ \A k \in 1..Len(revs[o]) : revs'[o][k] = revs[o][k]
    BY DEF LogsGrow
  <2>1. CASE o \in S
    <3>1. Len(revs[o]) = 0 /\ Len(revs'[o]) = 1
      BY <1>4, <2>1
    <3> QED
      BY <1>6, <3>1
  <2>2. CASE o \notin S
    BY <1>3, <1>5, <1>6, <2>2
  <2> QED
    BY <2>1, <2>2
<1>12. \A i \in outbox : i \in Item /\ i.obs \in Obs /\ revs'[i.obs] = revs[i.obs]
  <2> SUFFICES ASSUME NEW i \in outbox PROVE i \in Item /\ i.obs \in Obs /\ revs'[i.obs] = revs[i.obs]
    OBVIOUS
  <2>1. i \in Item /\ i.obs \in Obs /\ Dated(i)
    BY <1>0 DEF AuditTypes, OutboxInv, Item
  <2>2. revs[i.obs] # <<>>
    BY <1>0, <2>1, DatedBound
  <2> QED
    BY <1>4, <1>5, <2>1, <2>2
<1>13. OutboxInv'
  <2>1. \A i \in outbox' : Dated(i)'
    BY <1>0, <1>1, <1>11, <1>12, DatedStays DEF OutboxInv
  <2>2. \A i \in outbox' : \E n \in outbox' : n.obs = i.obs /\ n.gen = Last(revs'[i.obs]).gen
    BY <1>0, <1>1, <1>12 DEF OutboxInv
  <2> QED
    BY <2>1, <2>2 DEF OutboxInv
<1>14. OutboxHonest'
  BY <1>0, <1>1 DEF OutboxHonest
<1>15. \A o \in Obs, g \in Nat \ {0} : (\E k \in DOMAIN revs'[o] : revs'[o][k].gen = g)
                                           <=> (\E k \in DOMAIN revs[o] : revs[o][k].gen = g)
  <2> SUFFICES ASSUME NEW o \in Obs, NEW g \in Nat \ {0}
               PROVE  (\E k \in DOMAIN revs'[o] : revs'[o][k].gen = g)
                        <=> (\E k \in DOMAIN revs[o] : revs[o][k].gen = g)
    OBVIOUS
  <2>1. CASE o \in S
    <3>1. DOMAIN revs[o] = {} /\ DOMAIN revs'[o] = {1} /\ revs'[o][1].gen = 0
      BY <1>4, <2>1
    <3> QED
      BY <3>1
  <2>2. CASE o \notin S
    BY <1>5, <2>2
  <2> QED
    BY <2>1, <2>2
<1>16. AuditInv'
  BY <1>1, <1>7, <1>8, <1>9, <1>10, <1>13, <1>14, <1>15, StoreKeeps
<1> QED
  BY <1>4, <1>5, <1>9, <1>10, <1>11, <1>16

\* Rows deleted for good leave their logs.
LEMMA EraseKeeps ==
  ASSUME AuditInv, NEW S \in SUBSET {o \in Obs : rows[o].st \in Present}, Erase(S), UNCHANGED draft
  PROVE  /\ AuditInv' /\ Onward
         /\ \A o \in S : rows'[o].st = "gone"
         /\ \A o \in Obs \ S : rows'[o] = rows[o]
<1>0. AuditTypes /\ LogInv /\ OutboxInv /\ OutboxHonest
  BY DEF AuditInv
<1>1. UNCHANGED <<revs, dom, outbox, sets, tokens, mix>>
  BY DEF Erase, env
<1> DEFINE n == [NotLoaded EXCEPT !.st = "gone"]
<1>2. rows' = [o \in Obs |-> IF o \in S THEN n ELSE rows[o]]
  BY DEF Erase
<1>3. n = [st |-> "gone", text |-> NoText, ver |-> 0, head |-> 0]
  BY DEF NotLoaded
<1>4. n \in Row /\ n.st = "gone"
  BY <1>3 DEF Row
<1> HIDE DEF n
<1>5. /\ \A o \in S : o \in Obs /\ rows'[o] = n /\ rows[o].st \in Present
      /\ \A o \in Obs \ S : rows'[o] = rows[o]
  BY <1>2
<1>6. rows' \in [Obs -> Row]
  BY <1>0, <1>2, <1>4 DEF AuditTypes
<1>7. AuditTypes'
  BY <1>0, <1>1, <1>6 DEF AuditTypes
<1>8. Onward
  BY <1>0, <1>1, <1>4, <1>5, SMTT(30) DEF Onward, Advance, AuditTypes, Present
<1>9. LogInv'
  <2> SUFFICES ASSUME NEW o \in Obs PROVE Logged(rows'[o], revs[o], dom.gen)
    BY <1>1 DEF LogInv
  <2>1. Logged(rows[o], revs[o], dom.gen)
    BY <1>0 DEF LogInv
  <2>2. CASE o \in S
    BY <1>4, <1>5, <2>1, <2>2 DEF Logged, Present
  <2> QED
    BY <1>5, <2>1, <2>2
<1>10. OutboxInv' /\ OutboxHonest'
  BY <1>0, <1>1 DEF OutboxInv, Dated, OutboxHonest
<1>11. \A o \in Obs : rows[o].st = "absent" => rows'[o].st = "absent"
  BY <1>5 DEF Present
<1>12. AuditInv'
  BY <1>1, <1>7, <1>8, <1>9, <1>10, <1>11, StoreKeeps
<1> QED
  BY <1>4, <1>5, <1>8, <1>12

\* A set of numbers that is not empty has a smallest.
LEMMA Least ==
  ASSUME NEW S \in SUBSET Nat, S # {}
  PROVE  Smallest(S) \in S /\ \A m \in S : Smallest(S) <= m
<1>1. PICK n \in S : \A m \in S : ~ (<<m, n>> \in OpToRel(<, Nat))
  BY NatLessThanWellFounded, WFMin
<1>2. \A m \in S : ~ (m < n)
  BY <1>1 DEF OpToRel
<1>3. \E k \in S : \A m \in S : k <= m
  BY <1>2
<1> QED
  BY <1>3 DEF Smallest

\* What is marked is no longer pending, unless a newer item of it is.
LEMMA MarkAppliedKeeps ==
  ASSUME AuditInv, BatchInv, NEW t \in Thread, MarkApplied(t)
  PROVE  AuditInv'
<1>0. AuditTypes /\ LogInv /\ OutboxInv /\ OutboxHonest
  BY DEF AuditInv
<1>1. /\ UNCHANGED <<rows, revs, sets, tokens, mix>> /\ outbox' = outbox \ DOMAIN batch[t]
      /\ draft' = [draft EXCEPT ![t] = NoDraft]
  BY DEF MarkApplied, env
<1>2. /\ outbox' \subseteq outbox /\ dom.gen \in Nat
      /\ \A i \in outbox : i \in Item /\ i.gen \in Nat /\ i.obs \in Obs
  BY <1>0, <1>1 DEF AuditTypes, Item
<1> DEFINE n == CurrentThrough(outbox')
           b == outbox' # {}
<1>3. n = dom'.indexed /\ b = dom'.repair /\ dom'.gen = dom.gen
      /\ dom' = [gen |-> dom.gen, indexed |-> n, repair |-> b]
  <2>1. dom \in [gen : Nat, indexed : Nat, repair : BOOLEAN]
    BY <1>0 DEF AuditTypes
  <2>2. dom' = [dom EXCEPT !.indexed = n, !.repair = b]
    BY DEF MarkApplied
  <2> HIDE DEF n, b
  <2> QED
    BY <2>1, <2>2
<1>4. n \in Nat /\ n <= dom.gen /\ \A i \in outbox' : n < i.gen
  <2>1. CASE outbox' = {}
    BY <1>2, <2>1 DEF CurrentThrough
  <2>2. CASE outbox' # {}
    <3> DEFINE S == {i.gen : i \in outbox'}
    <3>1. S \in SUBSET Nat /\ S # {} /\ \A m \in S : 0 < m /\ m <= dom.gen
      BY <1>0, <1>2, <2>2 DEF OutboxHonest, AuditTypes
    <3>2. n = Smallest(S) - 1
      BY <2>2 DEF CurrentThrough
    <3>3. \A i \in outbox' : i.gen \in S
      OBVIOUS
    <3> HIDE DEF S, n
    <3>4. Smallest(S) \in S /\ \A m \in S : Smallest(S) <= m
      BY <3>1, Least
    <3>5. PICK k : k = Smallest(S)
      OBVIOUS
    <3>6. k \in Nat /\ 0 < k /\ k <= dom.gen /\ n = k - 1
      BY <3>1, <3>2, <3>4, <3>5
    <3>7. \A i \in outbox' : i.gen \in Nat /\ k <= i.gen
      BY <1>2, <3>3, <3>4, <3>5
    <3> QED
      BY <1>2, <3>6, <3>7
  <2> QED
    BY <2>1, <2>2
<1>5. b \in BOOLEAN
  OBVIOUS
<1> HIDE DEF n
<1>6. AuditTypes'
  <2>1. dom' \in [gen : Nat, indexed : Nat, repair : BOOLEAN]
    <3> HIDE DEF b
    <3> QED
      BY <1>2, <1>3, <1>4, <1>5
  <2>2. draft' \in [Thread -> Draft]
    BY <1>0, <1>1, NoDraftShape DEF AuditTypes
  <2> QED
    BY <1>0, <1>1, <1>2, <2>1, <2>2 DEF AuditTypes
<1>7. OutboxHonest'
  BY <1>2, <1>3, <1>4, <1>0 DEF OutboxHonest
<1>8. LogInv'
  BY <1>0, <1>1, <1>3 DEF LogInv
<1>9. OutboxInv'
  <2>1. \A i \in outbox' : Dated(i)'
    BY <1>0, <1>1, <1>2 DEF OutboxInv, Dated
  <2>2. \A i \in outbox' : \E m \in outbox' : m.obs = i.obs /\ m.gen = Last(revs'[i.obs]).gen
    <3> SUFFICES ASSUME NEW i \in outbox'
                 PROVE  \E m \in outbox' : m.obs = i.obs /\ m.gen = Last(revs[i.obs]).gen
      BY <1>1
    <3>1. i \in outbox /\ i \in Item /\ Dated(i) /\ i \notin DOMAIN batch[t]
      BY <1>0, <1>1, <1>2 DEF OutboxInv
    <3>2. PICK m \in outbox : m.obs = i.obs /\ m.gen = Last(revs[i.obs]).gen
      BY <1>0, <3>1 DEF OutboxInv
    <3>3. i.gen <= m.gen /\ i.gen \in Nat /\ m.gen \in Nat
      BY <1>0, <3>1, <3>2, DatedBound
    <3>4. m \notin DOMAIN batch[t]
      BY <3>1, <3>2, <3>3 DEF BatchInv, BatchGood
    <3> QED
      BY <1>1, <3>2, <3>4
  <2> QED
    BY <2>1, <2>2 DEF OutboxInv
<1>10. \A u \in Thread : draft'[u] = draft[u] \/ (draft'[u].ops = <<>> /\ Gentle(draft'[u]))
  <2>1. NoDraft.ops = <<>> /\ Gentle(NoDraft)
    BY NoDraftShape DEF NoDraft, Sound
  <2> QED
    BY <1>0, <1>1, <2>1 DEF AuditTypes
<1>11. Onward
  BY <1>0, <1>1 DEF Onward, Advance, AuditTypes
<1> QED
  BY <1>1, <1>3, <1>6, <1>7, <1>8, <1>9, <1>10, <1>11, StoreKeeps

\* A failure of the index is noted.
LEMMA RepairFailsKeeps ==
  ASSUME AuditInv, NEW t \in Thread, RepairFails(t)
  PROVE  AuditInv'
<1>0. AuditTypes /\ LogInv /\ OutboxInv /\ OutboxHonest
  BY DEF AuditInv
<1>1. /\ UNCHANGED <<rows, revs, outbox, sets, tokens, mix>>
      /\ draft' = [draft EXCEPT ![t] = NoDraft] /\ dom' = [dom EXCEPT !.repair = TRUE]
  BY DEF RepairFails
<1>2. /\ dom'.gen = dom.gen /\ dom'.indexed = dom.indexed /\ dom'.repair = TRUE
      /\ dom' \in [gen : Nat, indexed : Nat, repair : BOOLEAN]
  BY <1>0, <1>1 DEF AuditTypes
<1>3. AuditTypes'
  <2>1. draft' \in [Thread -> Draft]
    BY <1>0, <1>1, NoDraftShape DEF AuditTypes
  <2> QED
    BY <1>0, <1>1, <1>2, <2>1 DEF AuditTypes
<1>4. LogInv'
  BY <1>0, <1>1, <1>2 DEF LogInv
<1>5. OutboxInv'
  BY <1>0, <1>1 DEF OutboxInv, Dated
<1>6. OutboxHonest'
  BY <1>0, <1>1, <1>2 DEF OutboxHonest
<1>7. \A u \in Thread : draft'[u] = draft[u] \/ (draft'[u].ops = <<>> /\ Gentle(draft'[u]))
  <2>1. NoDraft.ops = <<>> /\ Gentle(NoDraft)
    BY NoDraftShape DEF NoDraft, Sound
  <2> QED
    BY <1>0, <1>1, <2>1 DEF AuditTypes
<1>8. Onward
  BY <1>0, <1>1 DEF Onward, Advance, AuditTypes
<1> QED
  BY <1>1, <1>2, <1>3, <1>4, <1>5, <1>6, <1>7, <1>8, StoreKeeps

-----------------------------------------------------------------------------
(* How the index follows: what each part of its invariant needs of a step. *)

\* An observation is as it was, or it has a newest revision with a pending item,
\* or its first revision was added by a backfill.
Kept(o)    == revs'[o] = revs[o] /\ (rows'[o] = rows[o] \/ rows'[o].st = "gone")
Renewed(o) == /\ Last(revs'[o]).gen = dom.gen + 1
              /\ \E n \in outbox' : n.obs = o /\ n.gen = dom.gen + 1
Based(o)   == /\ revs[o] = <<>> /\ rows'[o].text = rows[o].text /\ rows'[o].st = rows[o].st
Moves ==
  /\ Advance /\ LogsGrow
  /\ \A o \in Obs : Kept(o) \/ Renewed(o) \/ Based(o)
  /\ \A n \in outbox' \ outbox : /\ n.obs \in Obs /\ n.gen = dom.gen + 1
                                 /\ rows'[n.obs].ver > rows[n.obs].ver

\* The items of a batch are not younger than the log.
LEMMA BatchBound ==
  ASSUME AuditInv, IndexTypes, BatchInv, NEW t \in Thread, NEW i \in DOMAIN batch[t]
  PROVE  /\ i \in Item /\ Dated(i) /\ i.obs \in Obs /\ i.gen \in Nat /\ i.gen <= dom.gen
         /\ revs[i.obs] # <<>> /\ rows[i.obs].st # "absent"
         /\ Last(revs[i.obs]).gen \in Nat /\ i.gen <= Last(revs[i.obs]).gen
         /\ rows[i.obs].st = "active" /\ i.gen = Last(revs[i.obs]).gen => i.op = "upsert"
         /\ dom.gen \in Nat /\ batch[t][i] \in Row
<1>1. batch[t] \in Batches
  BY DEF IndexTypes
<1>2. i \in Item /\ batch[t][i] \in Row
  BY <1>1, BatchShape
<1>3. Dated(i)
  BY DEF BatchInv, BatchGood
<1>4. AuditTypes /\ LogInv /\ dom.gen \in Nat
  BY DEF AuditInv, AuditTypes
<1> QED
  BY <1>2, <1>3, <1>4, DatedBound

\* Batches stay good when the store moves on, and when they are dropped.
LEMMA BatchStays ==
  ASSUME AuditInv, IndexTypes, BatchInv, Moves, NEW t \in Thread,
         batch'[t] = batch[t], pc'[t] = "publish" => pc[t] = "publish"
  PROVE  BatchGood(t)'
<1>0. AuditTypes /\ LogInv /\ BatchGood(t) /\ LogsGrow
  BY DEF AuditInv, BatchInv, Moves
<1>1. Loaded(t)' = Loaded(t)
  BY DEF Loaded
<1>2. ASSUME NEW i \in DOMAIN batch[t]
      PROVE  /\ Dated(i)'
             /\ batch[t][i].st = "active" => batch[t][i].text \in Text
             /\ i \in Loaded(t) /\ i.gen = Last(revs'[i.obs]).gen /\ rows'[i.obs].st = "active"
                  => batch[t][i].st = "active" /\ batch[t][i].text = rows'[i.obs].text
             /\ \A n \in outbox' \ DOMAIN batch[t] : n.obs = i.obs => n.gen > i.gen
  <2>1. /\ i \in Item /\ Dated(i) /\ i.obs \in Obs /\ i.gen \in Nat /\ i.gen <= dom.gen
        /\ revs[i.obs] # <<>> /\ dom.gen \in Nat
    BY BatchBound
  <2>2. Dated(i)'
    BY <1>0, <2>1, DatedStays
  <2>3. /\ batch[t][i].st = "active" => batch[t][i].text \in Text
        /\ i \in Loaded(t) /\ i.gen = Last(revs[i.obs]).gen /\ rows[i.obs].st = "active"
                  => batch[t][i].st = "active" /\ batch[t][i].text = rows[i.obs].text
        /\ \A n \in outbox \ DOMAIN batch[t] : n.obs = i.obs => n.gen > i.gen
    BY <1>0 DEF BatchGood
  <2>4. Kept(i.obs) \/ Renewed(i.obs)
    BY <2>1 DEF Moves, Based
  <2>5. i.gen = Last(revs'[i.obs]).gen => Kept(i.obs)
    BY <2>1, <2>4 DEF Renewed
  <2>6. \A n \in outbox' \ DOMAIN batch[t] : n.obs = i.obs => n.gen > i.gen
    BY <2>1, <2>3 DEF Moves
  <2> QED
    BY <2>2, <2>3, <2>5, <2>6 DEF Kept
<1> QED
  BY <1>0, <1>1, <1>2 DEF BatchGood

\* An empty batch is good.
LEMMA BatchDropped ==
  ASSUME NEW t \in Thread, batch'[t] = <<>>
  PROVE  BatchGood(t)'
<1>1. DOMAIN batch'[t] = {}
  OBVIOUS
<1> QED
  BY <1>1 DEF BatchGood, Loaded

\* An active observation stays in the index, or an item of it stays unmarked.
InIndexStays ==
  \A o \in Obs \ overtaken' :
    rows[o].st = "active" /\ rows'[o].st = "active" /\ rows'[o].text = rows[o].text /\ InIndex(o)
      => InIndex(o)'

\* The index part of the invariant, for a step that marks nothing anew.
LEMMA FreshStays ==
  ASSUME AuditInv, IndexTypes, BatchInv, FreshInv, Moves, InIndexStays, overtaken \subseteq overtaken',
         \A t \in Thread : pc'[t] = "mark" => pc[t] = "mark" /\ batch'[t] = batch[t],
         \A i \in outbox : Unmarked(i) => i \in outbox'
  PROVE  FreshInv'
<1> SUFFICES ASSUME NEW o \in Obs \ overtaken', rows'[o].st = "active"
             PROVE  InIndex(o)' \/ Awaited(o)'
  BY DEF FreshInv
<1>1. ASSUME NEW i, Unmarked(i) PROVE Unmarked(i)'
  BY <1>1 DEF Unmarked
<1>2. rows[o].st = "active" => InIndex(o) \/ Awaited(o)
  BY DEF FreshInv
<1>3. Awaited(o) => Awaited(o)'
  BY <1>1 DEF Awaited
<1>4. CASE Kept(o)
  <2>1. rows'[o] = rows[o]
    BY <1>4 DEF Kept
  <2> QED
    BY <1>2, <1>3, <2>1 DEF InIndexStays
<1>5. CASE Renewed(o)
  <2>1. PICK n \in outbox' : n.obs = o /\ n.gen = dom.gen + 1
    BY <1>5 DEF Renewed
  <2>2. \A t \in Thread : n \notin DOMAIN batch[t]
    <3> SUFFICES ASSUME NEW t \in Thread, n \in DOMAIN batch[t] PROVE FALSE
      OBVIOUS
    <3>1. n.gen \in Nat /\ n.gen <= dom.gen /\ dom.gen \in Nat
      BY BatchBound
    <3> QED
      BY <2>1, <3>1
  <2>3. Unmarked(n)
    BY <2>2 DEF Unmarked
  <2>4. Unmarked(n)'
    BY <1>1, <2>3
  <2> QED
    BY <2>1, <2>4 DEF Awaited
<1>6. CASE Based(o)
  BY <1>2, <1>3, <1>6 DEF Based, InIndexStays
<1> QED
  BY <1>4, <1>5, <1>6 DEF Moves

\* What a recall owes stays owed, if the observation does not change.
LEMMA OwedStays ==
  ASSUME AuditInv, AuditInv', IndexTypes, OwedInv, Moves,
         \A t \in Thread : owed'[t] \subseteq owed[t]
  PROVE  OwedInv'
<1> SUFFICES ASSUME NEW t \in Thread, NEW w \in owed[t]
             PROVE  /\ w.row.st = "active" /\ Seen(w.obs, w.row)'
                    /\ rows'[w.obs].st # "gone" /\ rows'[w.obs].ver = w.row.ver
                         => \A i \in outbox' : i.obs # w.obs
  BY DEF OwedInv, Seen
<1>0. AuditTypes /\ AuditTypes' /\ Advance
  BY DEF AuditInv, Moves
<1>1. w.obs \in Obs /\ w.row \in Row
  <2>1. w \in [obs : Obs, row : Row]
    BY DEF IndexTypes
  <2> QED
    BY <2>1
<1>2. /\ w.row.st = "active" /\ Seen(w.obs, w.row)
      /\ rows[w.obs].st # "gone" /\ rows[w.obs].ver = w.row.ver
           => \A i \in outbox : i.obs # w.obs
  BY DEF OwedInv
<1>3. Seen(w.obs, w.row)'
  BY <1>0, <1>1, <1>2, SeenStays
<1>4. /\ rows[w.obs].ver \in Nat /\ rows'[w.obs].ver \in Nat /\ w.row.ver \in Nat
  BY <1>0, <1>1 DEF AuditTypes, Row
<1>5. ASSUME rows'[w.obs].st # "gone", rows'[w.obs].ver = w.row.ver, NEW i \in outbox', i.obs = w.obs
      PROVE  FALSE
  <2>1. rows[w.obs].st # "gone" /\ rows[w.obs].ver = w.row.ver
    BY <1>0, <1>1, <1>2, <1>4, <1>5 DEF Advance, Seen
  <2>2. i \notin outbox
    BY <1>2, <1>5, <2>1
  <2>3. rows'[i.obs].ver > rows[i.obs].ver
    BY <2>2 DEF Moves
  <2> QED
    BY <1>4, <1>5, <2>1, <2>3
<1> QED
  BY <1>2, <1>3, <1>5

\* The whole invariant after a step that begins no publication, sync or mark.
Steady ==
  /\ Moves /\ InIndexStays /\ overtaken \subseteq overtaken'
  /\ \A i \in outbox : Unmarked(i) => i \in outbox'
  /\ rows' = rows \/ barrier = Nobody
  /\ \A t \in Thread :
       /\ batch'[t] = batch[t] \/ batch'[t] = <<>>
       /\ pc'[t] \in {"publish", "mark", "sync"} => pc'[t] = pc[t] /\ batch'[t] = batch[t]
       /\ pc'[t] = "sync" => barrier' = barrier
       /\ barrier' = t => barrier = t /\ pc'[t] = pc[t]
       /\ owed'[t] \subseteq owed[t]

\* Such a step keeps the invariant of the index.
LEMMA SteadyKeeps ==
  ASSUME AuditInv, AuditInv', IndexInv, IndexTypes', Steady
  PROVE  IndexInv'
<1>0. IndexTypes /\ BatchInv /\ BarrierInv /\ FreshInv /\ OwedInv /\ Moves
  BY DEF IndexInv, Steady
<1>1. BatchInv'
  <2> SUFFICES ASSUME NEW t \in Thread PROVE BatchGood(t)'
    BY DEF BatchInv
  <2>1. CASE batch'[t] = batch[t]
    BY <1>0, <2>1, BatchStays DEF Steady
  <2>2. CASE batch'[t] = <<>>
    BY <2>2, BatchDropped
  <2> QED
    BY <2>1, <2>2 DEF Steady
<1>2. BarrierInv'
  <2> SUFFICES ASSUME NEW t \in Thread
               PROVE  /\ barrier' = t => pc'[t] \in {"mark", "sync"}
                      /\ pc'[t] = "sync" =>
                           /\ barrier' = t
                           /\ \A i \in DOMAIN batch'[t] :
                                /\ i.op = "upsert" /\ rows'[i.obs].st = "active"
                                /\ batch'[t][i] = rows'[i.obs]
    BY DEF BarrierInv
  <2>1. barrier' = t => pc'[t] \in {"mark", "sync"}
    BY <1>0 DEF Steady, BarrierInv
  <2>2. ASSUME pc'[t] = "sync"
        PROVE  /\ barrier' = t
               /\ \A i \in DOMAIN batch'[t] : /\ i.op = "upsert" /\ rows'[i.obs].st = "active"
                                              /\ batch'[t][i] = rows'[i.obs]
    <3>1. pc[t] = "sync" /\ batch'[t] = batch[t] /\ barrier' = barrier
      BY <2>2 DEF Steady
    <3>2. /\ barrier = t
          /\ \A i \in DOMAIN batch[t] : /\ i.op = "upsert" /\ rows[i.obs].st = "active"
                                        /\ batch[t][i] = rows[i.obs]
      BY <1>0, <3>1 DEF BarrierInv
    <3>3. rows' = rows
      BY <3>2, NobodyAssumption DEF Steady
    <3> QED
      BY <3>1, <3>2, <3>3
  <2> QED
    BY <2>1, <2>2
<1>3. FreshInv'
  BY <1>0, FreshStays DEF Steady
<1>4. OwedInv'
  BY <1>0, OwedStays DEF Steady
<1> QED
  BY <1>1, <1>2, <1>3, <1>4 DEF IndexInv

\* The steps that change rows move on so, and those that do not.
LEMMA StillMoves ==
  ASSUME AuditTypes, UNCHANGED <<rows, revs>>, outbox' \subseteq outbox
  PROVE  Moves
BY DEF Moves, Advance, LogsGrow, Kept, AuditTypes

\* A commit moves on: each of its observations is renewed.
LEMMA CommitMoves ==
  ASSUME AuditInv, NEW ops, GoodOps(ops), CommitOps(ops)
  PROVE  Moves /\ outbox \subseteq outbox'
<1>0. AuditTypes /\ LogInv /\ OutboxInv
  BY DEF AuditInv
<1>1. /\ DOMAIN ops \subseteq Obs /\ \A o \in DOMAIN ops : ops[o] \in Op /\ Follows(o, ops[o])
      /\ \A o \in Obs \ DOMAIN ops : rows'[o] = rows[o] /\ revs'[o] = revs[o]
      /\ outbox' = outbox \cup OutboxOf(ops)
  BY <1>0, CommitShape
<1>2. /\ Advance /\ LogsGrow
      /\ \A i \in outbox' \ outbox : i.obs \in DOMAIN ops /\ i.gen = dom.gen + 1
      /\ \A o \in DOMAIN ops : rows'[o].ver = rows[o].ver + 1
  BY <1>0, CommitLogs, CommitOutbox DEF Onward
<1>3. \A o \in DOMAIN ops : Renewed(o)
  <2> SUFFICES ASSUME NEW o \in DOMAIN ops PROVE Renewed(o)
    OBVIOUS
  <2>1. Drafted(o, ops[o]) /\ Applicable(o, ops[o]) /\ o \in Obs /\ ops[o] \in Op
    BY <1>1 DEF GoodOps
  <2>2. RevisionAfter(o, ops[o]) \in Revision /\ RevisionAfter(o, ops[o]).gen = dom.gen + 1
    BY <1>0, <2>1, RevisionAfterShape
  <2>3. revs[o] \in Seq(Revision) /\ revs'[o] = Append(revs[o], RevisionAfter(o, ops[o]))
    BY <1>0, <1>1, <2>1 DEF Follows, AuditTypes
  <2>4. Last(revs'[o]) = RevisionAfter(o, ops[o])
    BY <2>2, <2>3 DEF Last
  <2> DEFINE n == [gen |-> dom.gen + 1, obs |-> o,
                   op |-> IF ops[o].kind \in {"retire", "destroy"} THEN "delete" ELSE "upsert"]
  <2>5. n \in OutboxOf(ops)
    BY DEF OutboxOf
  <2>6. n \in outbox' /\ n.obs = o /\ n.gen = dom.gen + 1
    BY <1>1, <2>5
  <2> QED
    BY <2>2, <2>4, <2>6 DEF Renewed
<1>4. \A o \in Obs : Kept(o) \/ Renewed(o)
  BY <1>1, <1>3 DEF Kept
<1>5. \A n \in outbox' \ outbox : n.obs \in Obs /\ n.gen = dom.gen + 1 /\ rows'[n.obs].ver > rows[n.obs].ver
  <2> SUFFICES ASSUME NEW n \in outbox' \ outbox
               PROVE  n.obs \in Obs /\ n.gen = dom.gen + 1 /\ rows'[n.obs].ver > rows[n.obs].ver
    OBVIOUS
  <2>1. n.obs \in DOMAIN ops /\ n.obs \in Obs /\ n.gen = dom.gen + 1
    BY <1>1, <1>2
  <2>2. rows[n.obs].ver \in Nat
    BY <1>0, <2>1 DEF AuditTypes, Row
  <2> QED
    BY <1>2, <2>1, <2>2
<1> QED
  BY <1>1, <1>2, <1>4, <1>5 DEF Moves

\* What publishing items D of a batch does: without a deletion documents are only
\* added, and the newest item of an active observation is not deleted.
Harmless(t, D, o) == \A i \in D : i.obs = o => ~Deletes(i, batch[t][i])

\* That, for any set of loaded items of a batch.
LEMMA PublishedShape ==
  ASSUME AuditInv, IndexTypes, BatchInv, NEW t \in Thread, NEW D \in SUBSET DOMAIN batch[t],
         NEW docs \in [Obs -> SUBSET Text], D \subseteq Loaded(t)
  PROVE  /\ Published(t, D, docs) \in [Obs -> SUBSET Text]
         /\ \A o \in Obs : Harmless(t, D, o) => docs[o] \subseteq Published(t, D, docs)[o]
         /\ \A o \in Obs : rows[o].st = "active" /\ Newest(D, o)
              => rows[o].text \in Published(t, D, docs)[o]
         /\ \A i \in D : Harmless(t, D, i.obs) => batch[t][i].text \in Published(t, D, docs)[i.obs]
<1> DEFINE mine(o) == {i \in D : i.obs = o}
           last(o) == {i \in mine(o) : Deletes(i, batch[t][i])}
           fresh(o) == {j \in mine(o) \ last(o) : \A k \in last(o) : j.gen > k.gen}
           texts(o) == {batch[t][i].text : i \in fresh(o)}
<1>1. Published(t, D, docs) =
        [o \in Obs |-> (IF last(o) = {} THEN docs[o] ELSE {}) \cup texts(o)]
  BY DEF Published
<1>2. \A o \in Obs : texts(o) \subseteq Text
  <2> SUFFICES ASSUME NEW o \in Obs, NEW i \in fresh(o) PROVE batch[t][i].text \in Text
    OBVIOUS
  <2>1. i \in DOMAIN batch[t] /\ batch[t][i].st = "active"
    BY DEF Deletes
  <2> QED
    BY <2>1 DEF BatchInv, BatchGood
<1>3. \A o \in Obs : Harmless(t, D, o) => last(o) = {}
  BY DEF Harmless
<1>4. \A o \in Obs : \A i \in mine(o) :
        (\A k \in last(o) : i.gen > k.gen) /\ i \notin last(o) => batch[t][i].text \in texts(o)
  OBVIOUS
<1>5. ASSUME NEW o \in Obs, rows[o].st = "active", Newest(D, o)
      PROVE  rows[o].text \in texts(o)
  <2>1. PICK n \in D : n.obs = o /\ n.gen = Last(revs[o]).gen
    BY <1>5 DEF Newest
  <2>2. ASSUME NEW i \in D, i.obs = o, i.gen = Last(revs[o]).gen
        PROVE  ~Deletes(i, batch[t][i]) /\ batch[t][i].text = rows[o].text
    <3>1. i.op = "upsert"
      BY <1>5, <2>2, BatchBound
    <3>2. batch[t][i].st = "active" /\ batch[t][i].text = rows[o].text
      BY <1>5, <2>2 DEF BatchInv, BatchGood
    <3> QED
      BY <3>1, <3>2 DEF Deletes
  <2>3. n \in mine(o) /\ n \notin last(o)
    BY <2>1, <2>2
  <2>4. \A k \in last(o) : n.gen > k.gen
    <3> SUFFICES ASSUME NEW k \in last(o) PROVE n.gen > k.gen
      OBVIOUS
    <3>1. k \in D /\ k.obs = o /\ Deletes(k, batch[t][k])
      OBVIOUS
    <3>2. k.gen # Last(revs[o]).gen
      BY <2>2, <3>1
    <3>3. k.gen \in Nat /\ Last(revs[o]).gen \in Nat /\ k.gen <= Last(revs[o]).gen
      BY <3>1, BatchBound
    <3> QED
      BY <2>1, <3>2, <3>3
  <2>5. batch[t][n].text = rows[o].text
    BY <2>1, <2>2
  <2> QED
    BY <1>4, <2>3, <2>4, <2>5
<1>6. ASSUME NEW i \in D, Harmless(t, D, i.obs) PROVE i.obs \in Obs /\ batch[t][i].text \in texts(i.obs)
  <2>1. i.obs \in Obs
    BY BatchBound
  <2>2. last(i.obs) = {} /\ i \in mine(i.obs)
    BY <1>3, <1>6, <2>1
  <2> QED
    BY <1>4, <2>1, <2>2
<1> HIDE DEF last, texts
<1>7. Published(t, D, docs) \in [Obs -> SUBSET Text]
  BY <1>1, <1>2
<1>8. \A o \in Obs : Harmless(t, D, o) => docs[o] \subseteq Published(t, D, docs)[o]
  BY <1>1, <1>3
<1>9. \A o \in Obs : texts(o) \subseteq Published(t, D, docs)[o]
  BY <1>1
<1> QED
  BY <1>5, <1>6, <1>7, <1>8, <1>9

-----------------------------------------------------------------------------
(* The actions, one by one. *)

\* A thread moves to its next place.
LEMMA GotoShape ==
  ASSUME IndexTypes, NEW t \in Thread, NEW l \in Pc, Goto(t, l)
  PROVE  pc' \in [Thread -> Pc] /\ pc'[t] = l /\ \A u \in Thread \ {t} : pc'[u] = pc[u]
BY DEF Goto, IndexTypes

\* Where a thread goes after its repair.
LEMMA ThenShape ==
  ASSUME AuditTypes, NEW t \in Thread
  PROVE  Then(t) \in {"idle", "prune"}
BY DEF Then

\* Steps of a thread outside the publications: the index, the barrier and the
\* batches stay, and the thread comes to no publication, sync or mark.
LEMMA AsideKeeps ==
  ASSUME AuditInv, AuditInv', IndexInv, Moves, outbox \subseteq outbox', rows' = rows \/ barrier = Nobody,
         UNCHANGED <<index, barrier, batch, overtaken>>,
         \A u \in Thread : owed'[u] \subseteq owed[u],
         owed' \in [Thread -> SUBSET [obs : Obs, row : Row]],
         pc' \in [Thread -> Pc],
         \A u \in Thread : pc'[u] = pc[u] \/ (barrier # u /\ pc'[u] \notin {"publish", "mark", "sync"})
  PROVE  IndexInv'
<1>1. mem' = mem /\ disk' = disk /\ batch' = batch /\ barrier' = barrier /\ overtaken' = overtaken
  BY DEF index
<1>2. IndexTypes'
  BY <1>1 DEF IndexInv, IndexTypes
<1>3. InIndexStays
  BY <1>1 DEF InIndexStays, InIndex
<1>4. Steady
  BY <1>1, <1>3 DEF Steady
<1> QED
  BY <1>2, <1>4, SteadyKeeps

\* Drafting: DraftChange and DraftRetirement.
LEMMA DraftStep ==
  ASSUME AuditInv, IndexInv, NEW t \in Thread, DraftChange(t) \/ DraftRetirement(t)
  PROVE  AuditInv' /\ IndexInv'
<1>0. AuditTypes /\ IndexTypes /\ BarrierInv
  BY DEF AuditInv, IndexInv
<1>1. AuditInv'
  BY DraftChangeKeeps, DraftRetirementKeeps
<1>2. /\ UNCHANGED <<canon, index, barrier, batch, owed, overtaken>> /\ pc[t] = "idle"
      /\ Goto(t, "drafted")
  BY DEF DraftChange, DraftRetirement, May, env
<1>3. pc' \in [Thread -> Pc] /\ pc'[t] = "drafted" /\ \A u \in Thread \ {t} : pc'[u] = pc[u]
  BY <1>0, <1>2, GotoShape DEF Pc
<1>4. barrier # t
  BY <1>0, <1>2 DEF BarrierInv
<1>5. Moves /\ outbox \subseteq outbox' /\ rows' = rows
  BY <1>0, <1>2, StillMoves DEF canon
<1> QED
  BY <1>0, <1>1, <1>2, <1>3, <1>4, <1>5, AsideKeeps DEF IndexTypes

\* submit_changeset, before its repair begins.
LEMMA SubmitStep ==
  ASSUME AuditInv, IndexInv, NEW t \in Thread, Submit(t)
  PROVE  AuditInv' /\ IndexInv'
<1>0. AuditTypes /\ IndexTypes /\ BarrierInv
  BY DEF AuditInv, IndexInv
<1>1. AuditInv'
  BY SubmitKeeps
<1>2. /\ UNCHANGED <<index, barrier, batch, owed, env>> /\ pc[t] = "drafted" /\ barrier = Nobody
  BY DEF Submit, Free
<1>3. Goto(t, "idle") \/ Goto(t, "select")
  BY DEF Submit, SubmitKnown, SubmitProposal, SubmitApplied, SubmitRefused
<1>4. /\ pc' \in [Thread -> Pc] /\ pc'[t] \in {"idle", "select"}
      /\ \A u \in Thread \ {t} : pc'[u] = pc[u]
  BY <1>0, <1>3, GotoShape DEF Pc
<1>5. barrier # t
  BY <1>0, <1>2 DEF BarrierInv
<1>6. Moves /\ outbox \subseteq outbox'
  <2>1. CASE ~Recorded(draft[t]) /\ SubmitApplied(t)
    <3>1. GoodOps(draft[t].ops)
      BY <2>1, SubmitGood DEF SubmitApplied
    <3> QED
      BY <2>1, <3>1, CommitMoves DEF SubmitApplied
  <2>2. CASE UNCHANGED <<rows, revs, outbox>>
    BY <1>0, <2>2, StillMoves
  <2> QED
    BY <2>1, <2>2 DEF Submit, SubmitKnown, SubmitProposal, SubmitRefused, canon
<1> QED
  BY <1>0, <1>1, <1>2, <1>4, <1>5, <1>6, AsideKeeps DEF IndexTypes, env

\* approve_changeset, before its repair begins.
LEMMA ApproveStep ==
  ASSUME AuditInv, IndexInv, NEW t \in Thread, Approve(t)
  PROVE  AuditInv' /\ IndexInv'
<1>0. AuditTypes /\ IndexTypes /\ BarrierInv
  BY DEF AuditInv, IndexInv
<1>1. AuditInv'
  BY ApproveKeeps
<1>2. /\ UNCHANGED <<index, barrier, batch, owed, draft, env>> /\ pc[t] = "idle" /\ barrier = Nobody
  BY DEF Approve, May, Free
<1>3. PICK i \in DOMAIN sets :
        \/ /\ sets[i].state = "proposed" /\ \A o \in DOMAIN sets[i].ops : Holds(o, sets[i].ops[o])
           /\ CommitOps(sets[i].ops) /\ Decide(i, "applied") /\ Goto(t, "select")
        \/ UNCHANGED <<rows, revs, dom, outbox, tokens, pc>>
        \/ Goto(t, "select") /\ UNCHANGED canon
  BY Zenon DEF Approve
<1>4. /\ pc' \in [Thread -> Pc] /\ pc'[t] \in {"idle", "select"}
      /\ \A u \in Thread \ {t} : pc'[u] = pc[u]
  BY <1>0, <1>2, <1>3, GotoShape DEF Pc, IndexTypes
<1>5. barrier # t
  BY <1>0, <1>2 DEF BarrierInv
<1>6. Moves /\ outbox \subseteq outbox'
  <2>1. CASE /\ sets[i].state = "proposed" /\ \A o \in DOMAIN sets[i].ops : Holds(o, sets[i].ops[o])
             /\ CommitOps(sets[i].ops) /\ Decide(i, "applied")
    <3>1. i \in 1..Len(sets)
      BY <1>0 DEF AuditTypes
    <3>2. GoodOps(sets[i].ops)
      BY <2>1, <3>1, ApproveGood
    <3> QED
      BY <2>1, <3>2, CommitMoves
  <2>2. CASE UNCHANGED <<rows, revs, outbox>>
    BY <1>0, <2>2, StillMoves
  <2> QED
    BY <1>3, <2>1, <2>2 DEF canon
<1> QED
  BY <1>0, <1>1, <1>2, <1>4, <1>5, <1>6, AsideKeeps DEF IndexTypes, env

\* The steps that leave rows, revisions, items and threads alone.
LEMMA AsideStep ==
  ASSUME AuditInv, IndexInv,
         \/ CompactRejected \/ Expire
         \/ \E t \in Thread : Reject(t) \/ Preview(t)
  PROVE  AuditInv' /\ IndexInv'
<1>0. AuditTypes /\ IndexTypes
  BY DEF AuditInv, IndexInv
<1>1. AuditInv'
  BY CompactRejectedKeeps, ExpireKeeps, RejectKeeps, PreviewKeeps
<1>2. UNCHANGED <<rows, revs, outbox, index, barrier, pc, batch, owed, overtaken>>
  BY DEF CompactRejected, Expire, Reject, Preview, env
<1>3. Moves /\ outbox \subseteq outbox'
  BY <1>0, <1>2, StillMoves
<1> QED
  BY <1>0, <1>1, <1>2, <1>3, AsideKeeps DEF IndexTypes

\* backfill_audit: baselines are the rows as they are.
LEMMA BackfillStep ==
  ASSUME AuditInv, IndexInv, NEW t \in Thread, Backfill(t)
  PROVE  AuditInv' /\ IndexInv'
<1>0. AuditTypes /\ IndexTypes
  BY DEF AuditInv, IndexInv
<1>1. /\ AuditInv' /\ Onward /\ LogsGrow
      /\ \A o \in Obs : rows'[o].text = rows[o].text /\ rows'[o].st = rows[o].st /\ rows'[o].ver = rows[o].ver
      /\ \A o \in Obs : revs[o] # <<>> => revs'[o] = revs[o] /\ rows'[o] = rows[o]
  BY BackfillKeeps
<1>2. UNCHANGED <<outbox, index, barrier, pc, batch, owed, overtaken>> /\ barrier = Nobody
  BY DEF Backfill, Free, env
<1>3. Moves /\ outbox \subseteq outbox'
  BY <1>1, <1>2 DEF Moves, Onward, Kept, Based
<1> QED
  BY <1>0, <1>1, <1>2, <1>3, AsideKeeps DEF IndexTypes

\* Steps that change only places, batches, drafts and what is owed.
LEMMA QuietStep ==
  ASSUME AuditInv, UNCHANGED <<canon, mix>>,
         \/ UNCHANGED draft
         \/ \E t \in Thread : draft' = [draft EXCEPT ![t] = NoDraft]
         \/ draft' = [t \in Thread |-> NoDraft]
  PROVE  AuditInv' /\ Moves /\ outbox \subseteq outbox' /\ rows' = rows
<1>0. AuditTypes
  BY DEF AuditInv
<1>1. NoDraft \in Draft /\ NoDraft.ops = <<>> /\ Gentle(NoDraft)
  BY NoDraftShape DEF NoDraft, Sound
<1>2. /\ draft' \in [Thread -> Draft]
      /\ \A t \in Thread : draft'[t] = draft[t] \/ draft'[t] = NoDraft
  BY <1>0, <1>1 DEF AuditTypes
<1>3. AuditInv'
  BY <1>1, <1>2, QuietKeeps
<1> QED
  BY <1>0, <1>3, StillMoves DEF canon

\* repair_index selects what is pending: the batch misses nothing.
LEMMA RepairSelectStep ==
  ASSUME AuditInv, IndexInv, NEW t \in Thread, RepairSelect(t)
  PROVE  AuditInv' /\ IndexInv'
<1>0. /\ AuditTypes /\ OutboxInv
      /\ IndexTypes /\ BatchInv /\ BarrierInv /\ FreshInv /\ OwedInv
  BY DEF AuditInv, IndexInv
<1>1. /\ UNCHANGED <<canon, index, barrier, draft, owed, env>> /\ pc[t] = "select"
      /\ batch' = [batch EXCEPT ![t] = [i \in outbox |-> NotLoaded]]
      /\ Goto(t, IF outbox = {} THEN "mark" ELSE "load")
  BY DEF RepairSelect
<1>2. AuditInv' /\ Moves /\ outbox' = outbox /\ rows' = rows /\ revs' = revs
  BY <1>1, QuietStep DEF env, canon
<1>3. mem' = mem /\ disk' = disk /\ barrier' = barrier /\ owed' = owed /\ overtaken' = overtaken
  BY <1>1 DEF index, env
<1>4. /\ pc' \in [Thread -> Pc] /\ pc'[t] = (IF outbox = {} THEN "mark" ELSE "load")
      /\ \A u \in Thread \ {t} : pc'[u] = pc[u]
  BY <1>0, <1>1, GotoShape DEF Pc
<1> DEFINE b == [i \in outbox |-> NotLoaded]
<1>5. b \in Batches /\ DOMAIN b = outbox /\ \A i \in outbox : b[i] = NotLoaded
  <2>1. NotLoaded \in Row
    BY DEF NotLoaded, Row
  <2>2. b \in [outbox -> Row] /\ DOMAIN b = outbox
    BY <2>1
  <2>3. outbox \subseteq Item
    BY <1>0 DEF AuditTypes
  <2> QED
    BY <2>2, <2>3, BatchShape
<1>6. batch' = [batch EXCEPT ![t] = b]
  BY <1>1
<1> HIDE DEF b
<1>7. batch' \in [Thread -> Batches] /\ batch'[t] = b /\ \A u \in Thread \ {t} : batch'[u] = batch[u]
  BY <1>0, <1>5, <1>6 DEF IndexTypes
<1>8. IndexTypes'
  BY <1>0, <1>3, <1>4, <1>7 DEF IndexTypes
<1>9. BatchInv'
  <2> SUFFICES ASSUME NEW u \in Thread PROVE BatchGood(u)'
    BY DEF BatchInv
  <2>1. CASE u = t
    <3>1. \A i \in DOMAIN batch'[u] : Dated(i)' /\ batch'[u][i].st = "absent" /\ i \notin Loaded(u)'
      BY <1>0, <1>2, <1>5, <1>7, <2>1 DEF OutboxInv, Dated, NotLoaded, Loaded
    <3>2. outbox' \ DOMAIN batch'[u] = {}
      BY <1>2, <1>5, <1>7, <2>1
    <3>3. pc'[u] # "publish"
      BY <1>4, <2>1
    <3> QED
      BY <3>1, <3>2, <3>3 DEF BatchGood
  <2>2. CASE u # t
    BY <1>0, <1>2, <1>4, <1>7, <2>2, BatchStays
  <2> QED
    BY <2>1, <2>2
<1>10. BarrierInv'
  BY <1>0, <1>1, <1>2, <1>3, <1>4, <1>7 DEF BarrierInv
<1>11. FreshInv'
  <2>1. \A i \in outbox : Unmarked(i) => Unmarked(i)'
    BY <1>4, <1>5, <1>7 DEF Unmarked
  <2> QED
    BY <1>0, <1>2, <1>3, <2>1 DEF FreshInv, InIndex, Awaited
<1>12. OwedInv'
  BY <1>0, <1>2, <1>3, OwedStays
<1> QED
  BY <1>2, <1>8, <1>9, <1>10, <1>11, <1>12 DEF IndexInv

\* repair_index loads a row: it is the row that is there.
LEMMA RepairLoadStep ==
  ASSUME AuditInv, IndexInv, NEW t \in Thread, RepairLoad(t)
  PROVE  AuditInv' /\ IndexInv'
<1>0. /\ AuditTypes /\ LogInv
      /\ IndexTypes /\ BatchInv /\ BarrierInv /\ FreshInv /\ OwedInv
  BY DEF AuditInv, IndexInv
<1>1. /\ UNCHANGED <<canon, index, barrier, draft, owed, env>> /\ pc[t] = "load"
      /\ Goto(t, IF Loaded(t)' = DOMAIN batch[t] THEN "publish" ELSE "load")
  BY DEF RepairLoad
<1>2. PICK n \in DOMAIN batch[t] : batch' = [batch EXCEPT ![t][n] = rows[n.obs]]
  BY Zenon DEF RepairLoad
<1>3. AuditInv' /\ Moves /\ outbox' = outbox /\ rows' = rows /\ revs' = revs
  BY <1>1, QuietStep DEF env, canon
<1>4. mem' = mem /\ disk' = disk /\ barrier' = barrier /\ owed' = owed /\ overtaken' = overtaken
  BY <1>1 DEF index, env
<1>5. PICK b : b = batch[t]
  OBVIOUS
<1>6. b \in Batches /\ n \in Item /\ n.obs \in Obs /\ rows[n.obs] \in Row /\ n \in DOMAIN b
  BY <1>0, <1>2, <1>5, BatchBound DEF IndexTypes, AuditTypes
<1> DEFINE c == [b EXCEPT ![n] = rows[n.obs]]
<1>7. /\ c \in Batches /\ DOMAIN c = DOMAIN b /\ c[n] = rows[n.obs]
      /\ \A i \in DOMAIN b : i # n => c[i] = b[i]
  <2>1. b \in [DOMAIN b -> Row] /\ DOMAIN b \subseteq Item
    BY <1>6, BatchShape
  <2>2. c \in [DOMAIN b -> Row] /\ DOMAIN c = DOMAIN b
    BY <1>6, <2>1
  <2>3. c \in Batches
    BY <2>1, <2>2, BatchShape
  <2> QED
    BY <1>6, <2>1, <2>3
<1>8. batch' = [batch EXCEPT ![t] = c]
  BY <1>2, <1>5
<1> HIDE DEF c
<1>9. batch' \in [Thread -> Batches] /\ batch'[t] = c /\ \A u \in Thread \ {t} : batch'[u] = batch[u]
  BY <1>0, <1>7, <1>8 DEF IndexTypes
<1>10. /\ pc' \in [Thread -> Pc] /\ pc'[t] \in {"publish", "load"}
       /\ pc'[t] = "publish" => Loaded(t)' = DOMAIN batch'[t]
       /\ \A u \in Thread \ {t} : pc'[u] = pc[u]
  <2> DEFINE l == IF Loaded(t)' = DOMAIN batch[t] THEN "publish" ELSE "load"
  <2>1. l \in Pc /\ Goto(t, l)
    BY <1>1 DEF Pc
  <2>2. l = "publish" => Loaded(t)' = DOMAIN batch'[t]
    BY <1>5, <1>7, <1>9
  <2>3. l \in {"publish", "load"}
    OBVIOUS
  <2> HIDE DEF l
  <2> QED
    BY <1>0, <2>1, <2>2, <2>3, GotoShape
<1>11. IndexTypes'
  BY <1>0, <1>4, <1>9, <1>10 DEF IndexTypes
<1>12. BatchInv'
  <2> SUFFICES ASSUME NEW u \in Thread PROVE BatchGood(u)'
    BY DEF BatchInv
  <2>1. CASE u = t
    <3>1. ASSUME NEW i \in DOMAIN b
          PROVE  /\ Dated(i)'
                 /\ c[i].st = "active" => c[i].text \in Text
                 /\ c[i] # NotLoaded /\ i.gen = Last(revs[i.obs]).gen /\ rows[i.obs].st = "active"
                      => c[i].st = "active" /\ c[i].text = rows[i.obs].text
                 /\ \A m \in outbox \ DOMAIN b : m.obs = i.obs => m.gen > i.gen
      <4>1. /\ Dated(i)
            /\ b[i].st = "active" => b[i].text \in Text
            /\ b[i] # NotLoaded /\ i.gen = Last(revs[i.obs]).gen /\ rows[i.obs].st = "active"
                  => b[i].st = "active" /\ b[i].text = rows[i.obs].text
            /\ \A m \in outbox \ DOMAIN b : m.obs = i.obs => m.gen > i.gen
        BY <1>0, <1>5 DEF BatchInv, BatchGood, Loaded
      <4>2. Dated(i)'
        BY <1>3, <4>1 DEF Dated
      <4>3. CASE i = n
        <5>1. rows[n.obs].st = "active" => rows[n.obs].text \in Text
          BY <1>0, <1>6 DEF LogInv, Logged, Present
        <5> QED
          BY <1>7, <4>1, <4>2, <4>3, <5>1
      <4>4. CASE i # n
        BY <1>7, <4>1, <4>2, <4>4
      <4> QED
        BY <4>3, <4>4
    <3>2. DOMAIN batch'[u] = DOMAIN b /\ batch'[u] = c
      BY <1>7, <1>9, <2>1
    <3> QED
      BY <1>3, <1>10, <2>1, <3>1, <3>2 DEF BatchGood, Loaded
  <2>2. CASE u # t
    BY <1>0, <1>3, <1>9, <1>10, <2>2, BatchStays
  <2> QED
    BY <2>1, <2>2
<1>13. BarrierInv'
  BY <1>0, <1>1, <1>3, <1>4, <1>9, <1>10 DEF BarrierInv
<1>14. FreshInv'
  <2>1. \A i \in outbox : Unmarked(i) => Unmarked(i)'
    BY <1>9, <1>10 DEF Unmarked
  <2> QED
    BY <1>0, <1>3, <1>4, <2>1 DEF FreshInv, InIndex, Awaited
<1>15. OwedInv'
  BY <1>0, <1>3, <1>4, OwedStays
<1> QED
  BY <1>3, <1>11, <1>12, <1>13, <1>14, <1>15 DEF IndexInv

\* The publications: every item and the file, or some, or those of a sync.
LEMMA RepairPublishStep ==
  ASSUME AuditInv, IndexInv, NEW t \in Thread, RepairPublish(t)
  PROVE  AuditInv' /\ IndexInv'
<1>0. /\ AuditTypes /\ LogInv /\ OutboxInv
      /\ IndexTypes /\ BatchInv /\ BarrierInv /\ FreshInv /\ OwedInv
  BY DEF AuditInv, IndexInv
<1> DEFINE D == DOMAIN batch[t]
<1>1. /\ UNCHANGED <<canon, draft, batch, owed, mix>> /\ pc[t] = "publish" /\ barrier = Nobody
      /\ mem' = Published(t, D, mem) /\ disk' = mem'
      /\ overtaken' = {o \in overtaken : ~Newest(D, o)} \cup Late(t, D)
      /\ barrier' = t /\ Goto(t, "mark")
  BY DEF RepairPublish, Free
<1>2. AuditInv' /\ Moves /\ outbox' = outbox /\ rows' = rows /\ revs' = revs
  BY <1>1, QuietStep DEF canon
<1>3. /\ pc' \in [Thread -> Pc] /\ pc'[t] = "mark" /\ \A u \in Thread \ {t} : pc'[u] = pc[u]
  BY <1>0, <1>1, GotoShape DEF Pc
<1>4. Loaded(t) = D
  BY <1>0, <1>1 DEF BatchInv, BatchGood
<1>5. /\ mem' \in [Obs -> SUBSET Text]
      /\ \A o \in Obs : Harmless(t, D, o) => mem[o] \subseteq mem'[o]
      /\ \A o \in Obs : rows[o].st = "active" /\ Newest(D, o) => rows[o].text \in mem'[o]
  BY <1>0, <1>1, <1>4, PublishedShape DEF IndexTypes
<1>6. IndexTypes'
  BY <1>0, <1>1, <1>3, <1>5 DEF IndexTypes, Late
<1>7. BatchInv'
  BY <1>0, <1>1, <1>2, <1>3, BatchStays DEF BatchInv
<1>8. BarrierInv'
  <2>1. \A u \in Thread : pc'[u] # "sync"
    BY <1>0, <1>1, <1>3, NobodyAssumption DEF BarrierInv
  <2> QED
    BY <1>1, <1>3, <2>1 DEF BarrierInv
<1>9. FreshInv'
  <2> SUFFICES ASSUME NEW o \in Obs \ overtaken', rows[o].st = "active"
               PROVE  InIndex(o)' \/ Awaited(o)'
    BY <1>2 DEF FreshInv
  <2>1. CASE Newest(D, o)
    BY <1>1, <1>2, <1>5, <2>1 DEF InIndex
  <2>2. CASE ~Newest(D, o)
    <3>1. Harmless(t, D, o) /\ o \notin overtaken
      BY <1>1, <2>2 DEF Harmless, Late
    <3>2. CASE InIndex(o)
      BY <1>1, <1>2, <1>5, <3>1, <3>2 DEF InIndex
    <3>3. CASE Awaited(o)
      <4>1. PICK i \in outbox : i.obs = o /\ Unmarked(i)
        BY <3>3 DEF Awaited
      <4>2. PICK n \in outbox : n.obs = o /\ n.gen = Last(revs[o]).gen
        BY <1>0, <4>1 DEF OutboxInv
      <4>3. i.gen \in Nat /\ n.gen \in Nat /\ i.gen <= n.gen
        <5>1. i \in Item /\ n \in Item /\ Dated(i) /\ Dated(n)
          BY <1>0 DEF AuditTypes, OutboxInv
        <5> QED
          BY <1>0, <4>1, <4>2, <5>1, DatedBound
      <4>4. n \notin D
        BY <2>2, <4>2 DEF Newest
      <4>5. \A u \in Thread : pc[u] = "mark" => n \notin DOMAIN batch[u]
        <5> SUFFICES ASSUME NEW u \in Thread, pc[u] = "mark", n \in DOMAIN batch[u] PROVE FALSE
          OBVIOUS
        <5>1. i \notin DOMAIN batch[u]
          BY <4>1 DEF Unmarked
        <5>2. i.gen > n.gen
          BY <1>0, <4>1, <4>2, <5>1 DEF BatchInv, BatchGood
        <5> QED
          BY <4>3, <5>2
      <4>6. Unmarked(n)'
        BY <1>1, <1>3, <4>4, <4>5 DEF Unmarked
      <4> QED
        BY <1>2, <4>2, <4>6 DEF Awaited
    <3> QED
      BY <1>0, <3>1, <3>2, <3>3 DEF FreshInv
  <2> QED
    BY <2>1, <2>2
<1>10. OwedInv'
  BY <1>0, <1>1, <1>2, OwedStays
<1> QED
  BY <1>2, <1>6, <1>7, <1>8, <1>9, <1>10 DEF IndexInv

\* A repair that fails on the way has published the oldest items at most.
LEMMA RepairFailsStep ==
  ASSUME AuditInv, IndexInv, NEW t \in Thread, RepairFails(t)
  PROVE  AuditInv' /\ IndexInv'
<1>0. /\ AuditTypes /\ IndexTypes /\ BatchInv /\ BarrierInv /\ FreshInv
  BY DEF AuditInv, IndexInv
<1>1. AuditInv'
  BY RepairFailsKeeps
<1>2. /\ UNCHANGED <<rows, revs, outbox, disk, barrier, owed, mix>> /\ pc[t] = "publish" /\ barrier = Nobody
      /\ batch' = [batch EXCEPT ![t] = <<>>] /\ Goto(t, Then(t))
  BY DEF RepairFails, Free
<1>3. PICK D \in SUBSET DOMAIN batch[t] : /\ mem' = Published(t, D, mem)
                                          /\ overtaken' = overtaken \cup Late(t, D)
  BY Zenon DEF RepairFails
<1>4. Moves
  BY <1>0, <1>2, StillMoves
<1>5. /\ pc' \in [Thread -> Pc] /\ pc'[t] \in {"idle", "prune"} /\ \A u \in Thread \ {t} : pc'[u] = pc[u]
  <2>1. Then(t) \in {"idle", "prune"} /\ Then(t) \in Pc
    BY <1>0, ThenShape DEF Pc
  <2> QED
    BY <1>0, <1>2, <2>1, GotoShape
<1>6. /\ batch' \in [Thread -> Batches] /\ batch'[t] = <<>> /\ \A u \in Thread \ {t} : batch'[u] = batch[u]
  <2>1. <<>> \in Batches
    <3>1. DOMAIN <<>> = {} /\ <<>> \in [{} -> Row]
      OBVIOUS
    <3> QED
      BY <3>1, BatchShape
  <2> QED
    BY <1>0, <1>2, <2>1 DEF IndexTypes
<1>7. D \subseteq Loaded(t)
  BY <1>0, <1>2 DEF BatchInv, BatchGood
<1>8. /\ mem' \in [Obs -> SUBSET Text]
      /\ \A o \in Obs : Harmless(t, D, o) => mem[o] \subseteq mem'[o]
      /\ \A o \in Obs : rows[o].st = "active" /\ Newest(D, o) => rows[o].text \in mem'[o]
  BY <1>0, <1>3, <1>7, PublishedShape DEF IndexTypes
<1>9. IndexTypes'
  BY <1>0, <1>2, <1>3, <1>5, <1>6, <1>8 DEF IndexTypes, Late
<1>10. InIndexStays
  <2> SUFFICES ASSUME NEW o \in Obs \ overtaken', rows[o].st = "active", InIndex(o)
               PROVE  InIndex(o)'
    BY <1>2 DEF InIndexStays
  <2>1. CASE Newest(D, o)
    BY <1>2, <1>8, <2>1 DEF InIndex
  <2>2. CASE ~Newest(D, o)
    <3>1. Harmless(t, D, o)
      BY <1>3, <2>2 DEF Harmless, Late
    <3> QED
      BY <1>2, <1>8, <3>1 DEF InIndex
  <2> QED
    BY <2>1, <2>2
<1>11. Steady
  <2>1. barrier' # t
    BY <1>2, NobodyAssumption
  <2> QED
    BY <1>2, <1>3, <1>4, <1>5, <1>6, <1>10, <2>1 DEF Steady
<1> QED
  BY <1>1, <1>9, <1>11, SteadyKeeps

\* The sync of a remember publishes the row it has committed.
LEMMA SyncStep ==
  ASSUME AuditInv, IndexInv, NEW t \in Thread, Sync(t)
  PROVE  AuditInv' /\ IndexInv'
<1>0. /\ AuditTypes /\ LogInv /\ OutboxInv
      /\ IndexTypes /\ BatchInv /\ BarrierInv /\ FreshInv /\ OwedInv
  BY DEF AuditInv, IndexInv
<1> DEFINE D == DOMAIN batch[t]
<1>1. /\ UNCHANGED <<canon, draft, batch, owed, env>> /\ pc[t] = "sync"
      /\ mem' = Published(t, D, mem) /\ disk' = mem'
      /\ barrier' = Nobody /\ Goto(t, "mark")
  BY DEF Sync
<1>2. AuditInv' /\ Moves /\ outbox' = outbox /\ rows' = rows /\ revs' = revs
  BY <1>1, QuietStep DEF canon, env
<1>3. /\ pc' \in [Thread -> Pc] /\ pc'[t] = "mark" /\ \A u \in Thread \ {t} : pc'[u] = pc[u]
  BY <1>0, <1>1, GotoShape DEF Pc
<1>4. /\ barrier = t
      /\ \A i \in D : /\ i.op = "upsert" /\ rows[i.obs].st = "active"
                      /\ batch[t][i] = rows[i.obs]
  BY <1>0, <1>1 DEF BarrierInv
<1>5. D \subseteq Loaded(t)
  BY <1>4 DEF Loaded, NotLoaded
<1>6. \A o \in Obs : Harmless(t, D, o)
  BY <1>4 DEF Harmless, Deletes
<1>7. /\ mem' \in [Obs -> SUBSET Text]
      /\ \A o \in Obs : mem[o] \subseteq mem'[o]
      /\ \A i \in D : rows[i.obs].text \in mem'[i.obs]
  <2>1. /\ mem' \in [Obs -> SUBSET Text]
        /\ \A o \in Obs : Harmless(t, D, o) => mem[o] \subseteq mem'[o]
        /\ \A i \in D : Harmless(t, D, i.obs) => batch[t][i].text \in mem'[i.obs]
    BY <1>0, <1>1, <1>5, PublishedShape DEF IndexTypes
  <2>2. \A i \in D : i.obs \in Obs
    BY <1>0, BatchBound
  <2> QED
    BY <1>4, <1>6, <2>1, <2>2
<1>8. IndexTypes'
  BY <1>0, <1>1, <1>3, <1>7 DEF IndexTypes, env
<1>9. BatchInv'
  BY <1>0, <1>1, <1>2, <1>3, BatchStays DEF BatchInv
<1>10. BarrierInv'
  <2>1. \A u \in Thread : pc'[u] # "sync"
    BY <1>0, <1>3, <1>4 DEF BarrierInv
  <2> QED
    BY <1>1, <2>1, NobodyAssumption DEF BarrierInv
<1>11. FreshInv'
  <2> SUFFICES ASSUME NEW o \in Obs \ overtaken, rows[o].st = "active"
               PROVE  InIndex(o)' \/ Awaited(o)'
    BY <1>1, <1>2 DEF FreshInv, env
  <2>1. CASE InIndex(o)
    BY <1>1, <1>2, <1>7, <2>1 DEF InIndex
  <2>2. CASE Awaited(o)
    <3>1. PICK i \in outbox : i.obs = o /\ Unmarked(i)
      BY <2>2 DEF Awaited
    <3>2. CASE i \in D
      BY <1>1, <1>2, <1>7, <3>1, <3>2 DEF InIndex
    <3>3. CASE i \notin D
      <4>1. Unmarked(i)'
        BY <1>1, <1>3, <3>1, <3>3 DEF Unmarked
      <4> QED
        BY <1>2, <3>1, <4>1 DEF Awaited
    <3> QED
      BY <3>2, <3>3
  <2> QED
    BY <1>0, <2>1, <2>2 DEF FreshInv
<1>12. OwedInv'
  BY <1>0, <1>1, <1>2, OwedStays
<1> QED
  BY <1>2, <1>8, <1>9, <1>10, <1>11, <1>12 DEF IndexInv

\* A sync that fails leaves its item pending.
LEMMA SyncFailsStep ==
  ASSUME AuditInv, IndexInv, NEW t \in Thread, SyncFails(t)
  PROVE  AuditInv' /\ IndexInv'
<1>0. /\ AuditTypes /\ IndexTypes /\ BatchInv /\ BarrierInv
  BY DEF AuditInv, IndexInv
<1> DEFINE D == DOMAIN batch[t]
<1>1. /\ UNCHANGED <<canon, disk, draft, owed, mix, overtaken>> /\ pc[t] = "sync"
      /\ mem' \in {mem, Published(t, D, mem)} /\ barrier' = Nobody
      /\ batch' = [batch EXCEPT ![t] = <<>>] /\ Goto(t, "idle")
  BY DEF SyncFails
<1>2. AuditInv' /\ Moves /\ outbox' = outbox /\ rows' = rows /\ revs' = revs
  BY <1>1, QuietStep DEF canon
<1>3. /\ pc' \in [Thread -> Pc] /\ pc'[t] = "idle" /\ \A u \in Thread \ {t} : pc'[u] = pc[u]
  BY <1>0, <1>1, GotoShape DEF Pc
<1>4. /\ barrier = t
      /\ \A i \in D : /\ i.op = "upsert" /\ rows[i.obs].st = "active"
                      /\ batch[t][i] = rows[i.obs]
  BY <1>0, <1>1 DEF BarrierInv
<1>5. D \subseteq Loaded(t) /\ \A o \in Obs : Harmless(t, D, o)
  BY <1>4 DEF Loaded, NotLoaded, Harmless, Deletes
<1>6. mem' \in [Obs -> SUBSET Text] /\ \A o \in Obs : mem[o] \subseteq mem'[o]
  <2>1. mem \in [Obs -> SUBSET Text]
    BY <1>0 DEF IndexTypes
  <2>2. /\ Published(t, D, mem) \in [Obs -> SUBSET Text]
        /\ \A o \in Obs : Harmless(t, D, o) => mem[o] \subseteq Published(t, D, mem)[o]
    BY <1>0, <1>5, <2>1, PublishedShape
  <2> QED
    BY <1>1, <1>5, <2>1, <2>2
<1>7. /\ batch' \in [Thread -> Batches] /\ batch'[t] = <<>> /\ \A u \in Thread \ {t} : batch'[u] = batch[u]
  <2>1. <<>> \in Batches
    <3>1. DOMAIN <<>> = {} /\ <<>> \in [{} -> Row]
      OBVIOUS
    <3> QED
      BY <3>1, BatchShape
  <2> QED
    BY <1>0, <1>1, <2>1 DEF IndexTypes
<1>8. IndexTypes'
  BY <1>0, <1>1, <1>3, <1>6, <1>7 DEF IndexTypes
<1>9. InIndexStays
  BY <1>1, <1>6 DEF InIndexStays, InIndex
<1>10. \A u \in Thread : pc'[u] # "sync"
  BY <1>0, <1>3, <1>4 DEF BarrierInv
<1>11. Steady
  BY <1>1, <1>2, <1>3, <1>7, <1>9, <1>10, NobodyAssumption DEF Steady
<1> QED
  BY <1>2, <1>8, <1>11, SteadyKeeps

\* The marks, and the failures that leave what is pending.
LEMMA MarkStep ==
  ASSUME AuditInv, IndexInv, NEW t \in Thread, MarkApplied(t) \/ MarkFails(t)
  PROVE  AuditInv' /\ IndexInv'
<1>0. /\ AuditTypes /\ IndexTypes /\ BatchInv /\ BarrierInv
  BY DEF AuditInv, IndexInv
<1>1. /\ UNCHANGED <<rows, revs, mem, disk, owed, mix, overtaken>> /\ pc[t] = "mark" /\ Release(t)
      /\ batch' = [batch EXCEPT ![t] = <<>>] /\ Goto(t, Then(t))
      /\ outbox' = outbox \/ outbox' = outbox \ DOMAIN batch[t]
  BY DEF MarkApplied, MarkFails, canon, index, env
<1>2. AuditInv'
  <2>1. CASE MarkFails(t)
    BY <2>1, QuietStep DEF MarkFails
  <2> QED
    BY <1>0, <2>1, MarkAppliedKeeps
<1>3. Moves
  BY <1>0, <1>1, StillMoves
<1>4. /\ pc' \in [Thread -> Pc] /\ pc'[t] \in {"idle", "prune"} /\ \A u \in Thread \ {t} : pc'[u] = pc[u]
  <2>1. Then(t) \in {"idle", "prune"} /\ Then(t) \in Pc
    BY <1>0, ThenShape DEF Pc
  <2> QED
    BY <1>0, <1>1, <2>1, GotoShape
<1>5. /\ batch' \in [Thread -> Batches] /\ batch'[t] = <<>> /\ \A u \in Thread \ {t} : batch'[u] = batch[u]
  <2>1. <<>> \in Batches
    <3>1. DOMAIN <<>> = {} /\ <<>> \in [{} -> Row]
      OBVIOUS
    <3> QED
      BY <3>1, BatchShape
  <2> QED
    BY <1>0, <1>1, <2>1 DEF IndexTypes
<1>6. barrier' = (IF barrier = t THEN Nobody ELSE barrier)
  BY <1>1 DEF Release
<1>7. IndexTypes'
  BY <1>0, <1>1, <1>4, <1>5, <1>6 DEF IndexTypes
<1>8. InIndexStays
  BY <1>1 DEF InIndexStays, InIndex
<1>9. \A i \in outbox : Unmarked(i) => i \in outbox'
  BY <1>1 DEF Unmarked
<1>10. \A u \in Thread : /\ pc'[u] = "sync" => barrier' = barrier
                         /\ barrier' = u => barrier = u /\ pc'[u] = pc[u]
  BY <1>0, <1>1, <1>4, <1>6, NobodyAssumption DEF BarrierInv
<1>11. Steady
  BY <1>1, <1>3, <1>4, <1>5, <1>8, <1>9, <1>10 DEF Steady
<1> QED
  BY <1>2, <1>7, <1>11, SteadyKeeps

\* A flush, and the end of the process.
LEMMA FlushStep ==
  ASSUME AuditInv, IndexInv, Flush
  PROVE  AuditInv' /\ IndexInv'
<1>0. AuditTypes /\ IndexTypes
  BY DEF AuditInv, IndexInv
<1>1. /\ UNCHANGED <<canon, mem, barrier, pc, draft, batch, owed, overtaken, mix>> /\ disk' = mem
  BY DEF Flush, env
<1>2. AuditInv' /\ Moves /\ outbox' = outbox /\ rows' = rows
  BY <1>1, QuietStep DEF canon
<1>3. IndexTypes'
  BY <1>0, <1>1 DEF IndexTypes
<1>4. InIndexStays
  BY <1>1 DEF InIndexStays, InIndex
<1>5. Steady
  BY <1>1, <1>2, <1>4 DEF Steady
<1> QED
  BY <1>2, <1>3, <1>5, SteadyKeeps

\* The end of the process: what is in the file, or pending, is not lost.
LEMMA CrashStep ==
  ASSUME AuditInv, IndexInv, Crash
  PROVE  AuditInv' /\ IndexInv'
<1>0. AuditTypes /\ IndexTypes
  BY DEF AuditInv, IndexInv
<1>1. /\ UNCHANGED <<canon, disk, mix, overtaken>> /\ mem' = disk /\ barrier' = Nobody
      /\ pc' = [t \in Thread |-> "idle"] /\ draft' = [t \in Thread |-> NoDraft]
      /\ batch' = [t \in Thread |-> <<>>] /\ owed' = [t \in Thread |-> {}]
  BY DEF Crash
<1>2. AuditInv' /\ Moves /\ outbox' = outbox /\ rows' = rows
  BY <1>1, QuietStep DEF canon
<1>3. <<>> \in Batches
  <2>1. DOMAIN <<>> = {} /\ <<>> \in [{} -> Row]
    OBVIOUS
  <2> QED
    BY <2>1, BatchShape
<1>4. IndexTypes'
  BY <1>0, <1>1, <1>3 DEF IndexTypes, Pc
<1>5. InIndexStays
  BY <1>1, <1>2 DEF InIndexStays, InIndex
<1>6. Steady
  BY <1>1, <1>2, <1>5, NobodyAssumption DEF Steady
<1> QED
  BY <1>2, <1>4, <1>6, SteadyKeeps

\* A recall owes what is active when nothing is pending.
LEMMA RecallGateStep ==
  ASSUME AuditInv, IndexInv, NEW t \in Thread, RecallGate(t)
  PROVE  AuditInv' /\ IndexInv'
<1>0. /\ AuditTypes /\ OutboxHonest
      /\ IndexTypes /\ BatchInv /\ BarrierInv /\ FreshInv /\ OwedInv
  BY DEF AuditInv, IndexInv
<1>1. /\ UNCHANGED <<canon, index, barrier, draft, batch, env>> /\ pc[t] = "idle" /\ Goto(t, "search")
      /\ ~dom.repair
  BY DEF RecallGate, May, GateOpen
<1>2. PICK x \in Text :
        owed' = [owed EXCEPT ![t] =
                    {[obs |-> o, row |-> rows[o]] :
                       o \in {p \in Obs : rows[p].st = "active" /\ rows[p].text = x}}]
  BY Zenon DEF RecallGate
<1> DEFINE due == {[obs |-> o, row |-> rows[o]] :
                     o \in {p \in Obs : rows[p].st = "active" /\ rows[p].text = x}}
<1>3. AuditInv' /\ Moves /\ outbox' = outbox /\ rows' = rows /\ revs' = revs
  BY <1>1, QuietStep DEF canon, env
<1>4. mem' = mem /\ disk' = disk /\ barrier' = barrier /\ batch' = batch /\ overtaken' = overtaken
  BY <1>1 DEF index, env
<1>5. outbox = {}
  BY <1>0, <1>1 DEF OutboxHonest
<1>6. /\ \A o \in Obs : rows[o] \in Row /\ rows[o].ver \in Nat
  BY <1>0 DEF AuditTypes, Row
<1>7. /\ due \subseteq [obs : Obs, row : Row]
      /\ \A w \in due : w.row.st = "active" /\ w.row = rows[w.obs] /\ w.obs \in Obs
  BY <1>6
<1>8. \A w \in due : Seen(w.obs, w.row)
  BY <1>6, <1>7 DEF Seen
<1>9. owed' = [owed EXCEPT ![t] = due]
  BY <1>2
<1> HIDE DEF due
<1>10. /\ owed' \in [Thread -> SUBSET [obs : Obs, row : Row]] /\ owed'[t] = due
       /\ \A u \in Thread \ {t} : owed'[u] = owed[u]
  BY <1>0, <1>7, <1>9 DEF IndexTypes
<1>11. /\ pc' \in [Thread -> Pc] /\ pc'[t] = "search" /\ \A u \in Thread \ {t} : pc'[u] = pc[u]
  BY <1>0, <1>1, GotoShape DEF Pc
<1>12. IndexTypes'
  BY <1>0, <1>4, <1>10, <1>11 DEF IndexTypes
<1>13. BatchInv'
  BY <1>0, <1>3, <1>4, <1>11, BatchStays DEF BatchInv
<1>14. BarrierInv'
  BY <1>0, <1>1, <1>3, <1>4, <1>11 DEF BarrierInv
<1>15. FreshInv'
  <2>1. \A i \in outbox : Unmarked(i) => Unmarked(i)'
    BY <1>4, <1>11 DEF Unmarked
  <2> QED
    BY <1>0, <1>3, <1>4, <2>1 DEF FreshInv, InIndex, Awaited
<1>16. OwedInv'
  <2> SUFFICES ASSUME NEW u \in Thread, NEW w \in owed'[u]
               PROVE  /\ w.row.st = "active" /\ Seen(w.obs, w.row)
                      /\ rows[w.obs].st # "gone" /\ rows[w.obs].ver = w.row.ver
                           => \A i \in outbox : i.obs # w.obs
    BY <1>3 DEF OwedInv, Seen
  <2>1. CASE u = t
    BY <1>5, <1>7, <1>8, <1>10, <2>1
  <2>2. CASE u # t
    BY <1>0, <1>10, <2>2 DEF OwedInv
  <2> QED
    BY <2>1, <2>2
<1> QED
  BY <1>3, <1>12, <1>13, <1>14, <1>15, <1>16 DEF IndexInv

\* The search of a recall settles what it is owed.
LEMMA RecallSearchStep ==
  ASSUME AuditInv, IndexInv, NEW t \in Thread, RecallSearch(t)
  PROVE  AuditInv' /\ IndexInv'
<1>0. AuditTypes /\ IndexTypes /\ BarrierInv
  BY DEF AuditInv, IndexInv
<1>1. /\ UNCHANGED <<canon, index, barrier, draft, batch, mix, overtaken>>
      /\ pc[t] = "search" /\ Goto(t, "idle")
      /\ owed' = [owed EXCEPT ![t] = {}]
  BY DEF RecallSearch, env
<1>2. AuditInv' /\ Moves /\ outbox \subseteq outbox' /\ rows' = rows
  BY <1>1, QuietStep
<1>3. /\ owed' \in [Thread -> SUBSET [obs : Obs, row : Row]] /\ owed'[t] = {}
      /\ \A u \in Thread \ {t} : owed'[u] = owed[u]
  BY <1>0, <1>1 DEF IndexTypes
<1>4. /\ pc' \in [Thread -> Pc] /\ pc'[t] = "idle" /\ \A u \in Thread \ {t} : pc'[u] = pc[u]
  BY <1>0, <1>1, GotoShape DEF Pc
<1>5. barrier # t
  BY <1>0, <1>1 DEF BarrierInv
<1> QED
  BY <1>1, <1>2, <1>3, <1>4, <1>5, AsideKeeps

\* Rows deleted for good.
LEMMA EraseStep ==
  ASSUME AuditInv, IndexInv, NEW S \in SUBSET {o \in Obs : rows[o].st \in Present}, Erase(S),
         UNCHANGED <<barrier, draft, batch, owed>>, barrier = Nobody, pc' \in [Thread -> Pc],
         \A u \in Thread : pc'[u] = pc[u] \/ pc'[u] = "idle"
  PROVE  AuditInv' /\ IndexInv'
<1>0. AuditTypes /\ IndexTypes
  BY DEF AuditInv, IndexInv
<1>1. /\ AuditInv' /\ Onward
      /\ \A o \in S : rows'[o].st = "gone"
      /\ \A o \in Obs \ S : rows'[o] = rows[o]
  BY EraseKeeps
<1>2. UNCHANGED <<revs, outbox, overtaken>>
  BY DEF Erase, env
<1> DEFINE erased == [o \in Obs |-> IF o \in S THEN {} ELSE mem[o]]
<1>3. (mem' = erased /\ disk' = erased) \/ (mem' \in {mem, erased} /\ disk' = disk)
  BY DEF Erase
<1>4. erased \in [Obs -> SUBSET Text] /\ \A o \in Obs \ S : erased[o] = mem[o]
  BY <1>0 DEF IndexTypes
<1> HIDE DEF erased
<1>5. IndexTypes'
  BY <1>0, <1>2, <1>3, <1>4 DEF IndexTypes
<1>6. Moves
  <2>1. LogsGrow
    BY <1>0, <1>2 DEF LogsGrow, AuditTypes
  <2>2. \A o \in Obs : Kept(o)
    BY <1>1, <1>2 DEF Kept
  <2> QED
    BY <1>1, <1>2, <2>1, <2>2 DEF Moves, Onward
<1>7. InIndexStays
  BY <1>1, <1>3, <1>4 DEF InIndexStays, InIndex
<1>8. Steady
  BY <1>2, <1>6, <1>7, NobodyAssumption DEF Steady
<1> QED
  BY <1>1, <1>5, <1>8, SteadyKeeps

\* forget_entity_by_id erases every observation that is present.
LEMMA ForgetEntityStep ==
  ASSUME AuditInv, IndexInv, NEW t \in Thread, ForgetEntity(t)
  PROVE  AuditInv' /\ IndexInv'
<1>1. /\ Erase({o \in Obs : rows[o].st \in Present}) /\ barrier = Nobody
      /\ UNCHANGED <<barrier, pc, draft, batch, owed>>
  BY DEF ForgetEntity, Free
<1>2. pc \in [Thread -> Pc]
  BY DEF IndexInv, IndexTypes
<1> QED
  BY <1>1, <1>2, EraseStep

\* prune_with_ttl erases retired observations.
LEMMA PruneStep ==
  ASSUME AuditInv, IndexInv, NEW t \in Thread, Prune(t)
  PROVE  AuditInv' /\ IndexInv'
<1>1. /\ barrier = Nobody /\ UNCHANGED <<barrier, draft, batch, owed>> /\ Goto(t, "idle")
  BY DEF Prune, Free
<1>2. PICK S \in SUBSET {o \in Obs : rows[o].st = "retired"} : Erase(S)
  BY Zenon DEF Prune
<1>3. S \in SUBSET {o \in Obs : rows[o].st \in Present}
  BY DEF Present
<1>4. pc' \in [Thread -> Pc] /\ \A u \in Thread : pc'[u] = pc[u] \/ pc'[u] = "idle"
  <2>1. IndexTypes
    BY DEF IndexInv
  <2> QED
    BY <1>1, <2>1, GotoShape DEF Pc
<1> QED
  BY <1>1, <1>2, <1>3, <1>4, EraseStep

\* A remember keeps the barrier, with the row it has just committed.
LEMMA RememberStep ==
  ASSUME AuditInv, IndexInv, NEW t \in Thread, Remember(t)
  PROVE  AuditInv' /\ IndexInv'
<1>0. /\ AuditTypes /\ LogInv /\ OutboxInv
      /\ IndexTypes /\ BatchInv /\ BarrierInv /\ FreshInv /\ OwedInv
  BY DEF AuditInv, IndexInv
<1>1. /\ UNCHANGED <<index, draft, owed, env>> /\ pc[t] = "idle" /\ barrier = Nobody
      /\ barrier' = t /\ Goto(t, "sync")
  BY DEF Remember, May, Free
<1>2. PICK o \in Obs, x \in Text :
        LET ops == [p \in {o} |-> Operation("remember", o, x, 0, 0)] IN
        /\ Unused(o)
        /\ CommitOps(ops)
        /\ sets' = Append(sets, Record([NoDraft EXCEPT !.ops = ops], "applied"))
        /\ batch' = [batch EXCEPT ![t] = [i \in OutboxOf(ops) |-> RowAfter(o, ops[o])]]
  BY Zenon DEF Remember
<1> DEFINE ops == [p \in {o} |-> Operation("remember", o, x, 0, 0)]
<1>3. CommitOps(ops) /\ batch' = [batch EXCEPT ![t] = [i \in OutboxOf(ops) |-> RowAfter(o, ops[o])]]
  BY <1>2
<1>4. AuditInv' /\ Onward /\ LogsGrow /\ GoodOps(ops)
  BY <1>1, <1>2, RememberKeeps DEF env
<1>5. DOMAIN ops = {o} /\ ops[o].kind = "remember" /\ rows[o].st = "absent"
  BY <1>2 DEF Operation, Unused
<1> HIDE DEF ops
<1>6. Moves /\ outbox \subseteq outbox'
  BY <1>3, <1>4, CommitMoves
<1>7. /\ rows' \in [Obs -> Row] /\ ops[o] \in Op /\ rows'[o] = RowAfter(o, ops[o])
      /\ \A p \in Obs \ {o} : rows'[p] = rows[p]
      /\ outbox' = outbox \cup OutboxOf(ops) /\ outbox' \subseteq Item
  BY <1>0, <1>3, <1>4, <1>5, CommitShape DEF Follows
<1>8. rows'[o].st = "active" /\ rows'[o].text \in Text
  <2>1. Drafted(o, ops[o]) /\ Applicable(o, ops[o])
    BY <1>4, <1>5 DEF GoodOps
  <2> QED
    BY <1>0, <1>5, <1>7, <2>1, RowAfterShape
<1>9. \A i \in OutboxOf(ops) : i.obs = o /\ i.op = "upsert" /\ i \in outbox'
  BY <1>5, <1>7 DEF OutboxOf
<1> DEFINE b == [i \in OutboxOf(ops) |-> RowAfter(o, ops[o])]
<1>10. /\ DOMAIN b = OutboxOf(ops) /\ b \in Batches
       /\ \A i \in OutboxOf(ops) : b[i] = rows'[o]
  <2>1. OutboxOf(ops) \subseteq Item /\ rows'[o] \in Row
    BY <1>7
  <2>2. DOMAIN b = OutboxOf(ops) /\ \A i \in OutboxOf(ops) : b[i] = rows'[o]
    BY <1>7
  <2>3. b \in [DOMAIN b -> Row]
    BY <2>1, <2>2
  <2> HIDE DEF b
  <2> QED
    BY <2>1, <2>2, <2>3, BatchShape
<1>11. batch' = [batch EXCEPT ![t] = b]
  BY <1>3
<1> HIDE DEF b
<1>12. batch' \in [Thread -> Batches] /\ batch'[t] = b /\ \A u \in Thread \ {t} : batch'[u] = batch[u]
  BY <1>0, <1>10, <1>11 DEF IndexTypes
<1>13. pc' \in [Thread -> Pc] /\ pc'[t] = "sync" /\ \A u \in Thread \ {t} : pc'[u] = pc[u]
  BY <1>0, <1>1, GotoShape DEF Pc
<1>14. mem' = mem /\ disk' = disk /\ owed' = owed /\ overtaken' = overtaken
  BY <1>1 DEF index, env
<1>15. IndexTypes'
  BY <1>0, <1>1, <1>12, <1>13, <1>14 DEF IndexTypes
<1>16. BatchInv'
  <2> SUFFICES ASSUME NEW u \in Thread PROVE BatchGood(u)'
    BY DEF BatchInv
  <2>1. CASE u = t
    <3>1. AuditTypes' /\ LogInv' /\ OutboxInv'
      BY <1>4 DEF AuditInv
    <3>2. \A i \in DOMAIN batch'[u] : /\ Dated(i)' /\ i \in outbox'
                                      /\ i.obs = o /\ batch'[u][i] = rows'[o]
      BY <1>9, <1>10, <1>12, <2>1, <3>1 DEF OutboxInv
    <3>3. \A n \in outbox' \ DOMAIN batch'[u] : n.obs # o
      <4> SUFFICES ASSUME NEW n \in outbox, n.obs = o PROVE FALSE
        BY <1>7, <1>10, <1>12, <2>1
      <4>1. n \in Item /\ Dated(n)
        BY <1>0 DEF AuditTypes, OutboxInv
      <4> QED
        BY <1>0, <1>5, <4>1, DatedBound
    <3>4. pc'[u] # "publish"
      BY <1>13, <2>1
    <3> QED
      BY <1>8, <3>2, <3>3, <3>4 DEF BatchGood
  <2>2. CASE u # t
    BY <1>0, <1>6, <1>12, <1>13, <2>2, BatchStays
  <2> QED
    BY <2>1, <2>2
<1>17. BarrierInv'
  <2>1. \A u \in Thread \ {t} : pc'[u] # "sync"
    BY <1>0, <1>1, <1>13, NobodyAssumption DEF BarrierInv
  <2>2. \A i \in DOMAIN batch'[t] : /\ i.op = "upsert" /\ rows'[i.obs].st = "active"
                                    /\ batch'[t][i] = rows'[i.obs]
    BY <1>8, <1>9, <1>10, <1>12
  <2> QED
    BY <1>1, <1>13, <2>1, <2>2 DEF BarrierInv
<1>18. FreshInv'
  <2>1. InIndexStays
    BY <1>14 DEF InIndexStays, InIndex
  <2>2. \A u \in Thread : pc'[u] = "mark" => pc[u] = "mark" /\ batch'[u] = batch[u]
    BY <1>12, <1>13
  <2> QED
    BY <1>0, <1>6, <1>14, <2>1, <2>2, FreshStays
<1>19. OwedInv'
  BY <1>0, <1>4, <1>6, <1>14, OwedStays
<1> QED
  BY <1>4, <1>15, <1>16, <1>17, <1>18, <1>19 DEF IndexInv

-----------------------------------------------------------------------------
(* The invariant. *)

\* It holds in the beginning, for every workload and every text of old rows.
LEMMA InitKeeps ==
  ASSUME Init
  PROVE  AuditInv /\ IndexInv
<1>1. /\ mix \in Mixes /\ mix.legacy \subseteq Obs
      /\ revs = [o \in Obs |-> <<>>] /\ dom = [gen |-> 0, indexed |-> 0, repair |-> FALSE]
      /\ outbox = {} /\ sets = <<>> /\ tokens = <<>>
      /\ mem = [o \in Obs |-> {rows[o].text} \cap Text] /\ disk = mem
      /\ barrier = Nobody /\ pc = [t \in Thread |-> "idle"]
      /\ draft = [t \in Thread |-> NoDraft] /\ batch = [t \in Thread |-> <<>>]
      /\ owed = [t \in Thread |-> {}] /\ overtaken = {}
  BY MixesAssumption DEF Init
<1>2. /\ rows \in [Obs -> Row]
      /\ \A o \in Obs : \/ rows[o] = NotLoaded
                        \/ rows[o].st = "active" /\ rows[o].text \in Text /\ rows[o].head = 0
  <2>1. PICK old \in [mix.legacy -> Text] :
          rows = [o \in Obs |-> IF o \in mix.legacy
                                THEN [st |-> "active", text |-> old[o], ver |-> 1, head |-> 0]
                                ELSE NotLoaded]
    BY DEF Init
  <2>2. NotLoaded \in Row
    BY DEF NotLoaded, Row
  <2>3. \A x \in Text : [st |-> "active", text |-> x, ver |-> 1, head |-> 0] \in Row
    BY DEF Row
  <2>4. \A o \in mix.legacy : old[o] \in Text
    OBVIOUS
  <2> QED
    BY <2>1, <2>2, <2>3, <2>4
<1>3. AuditTypes
  <2>1. NoDraft \in Draft
    BY NoDraftShape
  <2>2. \A o \in Obs : revs[o] \in Seq(Revision)
    BY <1>1
  <2>3. sets \in Seq(Filed) /\ tokens \in Seq(Token)
    BY <1>1
  <2> QED
    BY <1>1, <1>2, <2>1, <2>2, <2>3 DEF AuditTypes
<1>4. LogInv
  <2> SUFFICES ASSUME NEW o \in Obs PROVE Logged(rows[o], revs[o], dom.gen)
    BY DEF LogInv
  <2>1. revs[o] = <<>> /\ Len(revs[o]) = 0
    BY <1>1
  <2> QED
    BY <1>2, <2>1 DEF Logged, NotLoaded, Present
<1>5. OutboxInv /\ OutboxHonest
  BY <1>1 DEF OutboxInv, OutboxHonest
<1>6. Len(sets) = 0 /\ Len(tokens) = 0
  BY <1>1
<1>7. DraftInv
  <2>1. \A t \in Thread : DOMAIN draft[t].ops = {} /\ Gentle(draft[t])
    BY <1>1, NoDraftShape DEF Sound
  <2> QED
    BY <1>6, <2>1 DEF DraftInv
<1>8. ClaimInv /\ SetInv
  <2>1. \A t \in Thread : DOMAIN draft[t].ops = {}
    BY <1>1, NoDraftShape
  <2> QED
    BY <1>6, <2>1 DEF ClaimInv, SetInv, Claims, Creates
<1>9. OncePerKey /\ Accounted
  BY <1>1 DEF OncePerKey, Accounted
<1>10. IndexTypes
  <2>1. \A t \in Thread : batch[t] \in Batches
    <3>1. DOMAIN <<>> = {} /\ <<>> \in [{} -> Row]
      OBVIOUS
    <3> QED
      BY <1>1, <3>1, BatchShape
  <2> QED
    BY <1>1, <2>1 DEF IndexTypes, Pc
<1>11. BatchInv /\ BarrierInv /\ OwedInv
  <2>1. \A t \in Thread : DOMAIN batch[t] = {} /\ pc[t] = "idle" /\ owed[t] = {}
    BY <1>1
  <2> QED
    BY <1>1, <2>1, NobodyAssumption DEF BatchInv, BatchGood, BarrierInv, OwedInv, Loaded
<1>12. FreshInv
  BY <1>1, <1>2 DEF FreshInv, InIndex, NotLoaded
<1> QED
  BY <1>3, <1>4, <1>5, <1>7, <1>8, <1>9, <1>10, <1>11, <1>12 DEF AuditInv, IndexInv

\* Every action keeps it.
LEMMA NextKeeps ==
  ASSUME AuditInv, IndexInv, [Next]_vars
  PROVE  AuditInv' /\ IndexInv'
<1>1. ASSUME NEW t \in Thread, DraftChange(t) \/ DraftRetirement(t) PROVE AuditInv' /\ IndexInv'
  BY <1>1, DraftStep
<1>2. ASSUME NEW t \in Thread, Submit(t) PROVE AuditInv' /\ IndexInv'
  BY <1>2, SubmitStep
<1>3. ASSUME NEW t \in Thread, Approve(t) PROVE AuditInv' /\ IndexInv'
  BY <1>3, ApproveStep
<1>4. ASSUME NEW t \in Thread, Reject(t) \/ Preview(t) PROVE AuditInv' /\ IndexInv'
  BY <1>4, AsideStep
<1>5. ASSUME NEW t \in Thread, Remember(t) PROVE AuditInv' /\ IndexInv'
  BY <1>5, RememberStep
<1>6. ASSUME NEW t \in Thread, Backfill(t) PROVE AuditInv' /\ IndexInv'
  BY <1>6, BackfillStep
<1>7. ASSUME NEW t \in Thread, RepairSelect(t) PROVE AuditInv' /\ IndexInv'
  BY <1>7, RepairSelectStep
<1>8. ASSUME NEW t \in Thread, RepairLoad(t) PROVE AuditInv' /\ IndexInv'
  BY <1>8, RepairLoadStep
<1>9. ASSUME NEW t \in Thread, RepairPublish(t) PROVE AuditInv' /\ IndexInv'
  BY <1>9, RepairPublishStep
<1>10. ASSUME NEW t \in Thread, RepairFails(t) PROVE AuditInv' /\ IndexInv'
  BY <1>10, RepairFailsStep
<1>11. ASSUME NEW t \in Thread, Sync(t) PROVE AuditInv' /\ IndexInv'
  BY <1>11, SyncStep
<1>12. ASSUME NEW t \in Thread, SyncFails(t) PROVE AuditInv' /\ IndexInv'
  BY <1>12, SyncFailsStep
<1>13. ASSUME NEW t \in Thread, MarkApplied(t) \/ MarkFails(t) PROVE AuditInv' /\ IndexInv'
  BY <1>13, MarkStep
<1>14. ASSUME NEW t \in Thread, RecallGate(t) PROVE AuditInv' /\ IndexInv'
  BY <1>14, RecallGateStep
<1>15. ASSUME NEW t \in Thread, RecallSearch(t) PROVE AuditInv' /\ IndexInv'
  BY <1>15, RecallSearchStep
<1>16. ASSUME NEW t \in Thread, ForgetEntity(t) PROVE AuditInv' /\ IndexInv'
  BY <1>16, ForgetEntityStep
<1>17. ASSUME NEW t \in Thread, Prune(t) PROVE AuditInv' /\ IndexInv'
  BY <1>17, PruneStep
<1>18. CASE CompactRejected \/ Expire
  BY <1>18, AsideStep
<1>19. CASE Flush
  BY <1>19, FlushStep
<1>20. CASE Crash
  BY <1>20, CrashStep
<1>21. CASE UNCHANGED vars
  <2>1. UNCHANGED <<canon, mix, draft, index, barrier, batch, overtaken, owed, pc>>
    BY <1>21 DEF vars, env
  <2>2. AuditInv' /\ Moves /\ outbox \subseteq outbox' /\ rows' = rows
    BY <2>1, QuietStep
  <2> QED
    BY <2>1, <2>2, AsideKeeps DEF IndexInv, IndexTypes
<1> QED
  BY <1>1, <1>2, <1>3, <1>4, <1>5, <1>6, <1>7, <1>8, <1>9, <1>10, <1>11, <1>12, <1>13,
     <1>14, <1>15, <1>16, <1>17, <1>18, <1>19, <1>20, <1>21 DEF Next

-----------------------------------------------------------------------------
(* The theorems. *)

\* After any number of steps the audit log and the index are as AuditInv and
\* IndexInv say: the inductive invariant of a store (audit.rs, remember.rs).
THEOREM AuditKept == Spec => [](AuditInv /\ IndexInv)
<1>1. Init => AuditInv /\ IndexInv
  BY InitKeeps
<1>2. (AuditInv /\ IndexInv) /\ [Next]_vars => (AuditInv /\ IndexInv)'
  BY NextKeeps
<1> QED
  BY <1>1, <1>2, PTL DEF Spec

\* Every variable of a store stays in its domain.
THEOREM StoreTypeCorrect == Spec => []TypeOK
<1>1. AuditInv /\ IndexInv => TypeOK
  <2> SUFFICES ASSUME AuditInv, IndexInv PROVE TypeOK
    OBVIOUS
  <2>1. AuditTypes /\ SetInv /\ IndexTypes /\ BarrierInv
    BY DEF AuditInv, IndexInv
  <2>2. \A o \in Obs : \A k \in DOMAIN revs[o] : revs[o][k] \in Revision
    <3>1. \A o \in Obs : revs[o] \in Seq(Revision)
      BY <2>1 DEF AuditTypes
    <3> QED
      BY <3>1
  <2>3. \A i \in DOMAIN sets : /\ sets[i].state \in State
                               /\ sets[i].gen \in 0..dom.gen
                               /\ (sets[i].state = "applied") = (sets[i].gen > 0)
    <3> SUFFICES ASSUME NEW i \in DOMAIN sets
                 PROVE  /\ sets[i].state \in State
                        /\ sets[i].gen \in 0..dom.gen
                        /\ (sets[i].state = "applied") = (sets[i].gen > 0)
      OBVIOUS
    <3>1. i \in 1..Len(sets) /\ sets[i] \in Filed /\ dom.gen \in Nat
      BY <2>1 DEF AuditTypes
    <3>2. sets[i].state \in State /\ sets[i].gen \in Nat
      BY <3>1 DEF Filed
    <3> QED
      BY <2>1, <3>1, <3>2 DEF SetInv
  <2>4. \A k \in DOMAIN tokens : tokens[k].state \in {"fresh", "expired", "consumed"}
    <3> SUFFICES ASSUME NEW k \in DOMAIN tokens
                 PROVE  tokens[k].state \in {"fresh", "expired", "consumed"}
      OBVIOUS
    <3>1. tokens[k] \in Token
      BY <2>1 DEF AuditTypes
    <3> QED
      BY <3>1 DEF Token
  <2> QED
    BY <2>1, <2>2, <2>3, <2>4 DEF TypeOK, AuditTypes, IndexTypes, BarrierInv
<1> QED
  BY <1>1, AuditKept, PTL

\* The revisions of an observation are a chain whose head is the row as it is,
\* whatever is submitted, approved, reverted, backfilled or erased.
THEOREM RevisionsAreLineage == Spec => []Lineage
<1>1. AuditInv => Lineage
  <2> SUFFICES ASSUME AuditInv, NEW o \in Obs
               PROVE  /\ \A k \in DOMAIN revs[o] : revs[o][k].parent = k - 1
                      /\ rows[o].st \in Present /\ rows[o].head # 0
                           => /\ rows[o].head = Len(revs[o])
                              /\ rows[o].text = Last(revs[o]).text
                              /\ rows[o].st = Last(revs[o]).st
    BY DEF Lineage
  <2>1. Logged(rows[o], revs[o], dom.gen) /\ revs[o] \in Seq(Revision)
    BY DEF AuditInv, LogInv, AuditTypes
  <2>2. DOMAIN revs[o] = 1..Len(revs[o]) /\ (revs[o] = <<>> => Len(revs[o]) = 0)
    BY <2>1
  <2> QED
    BY <2>1, <2>2 DEF Logged, Present
<1> QED
  BY <1>1, AuditKept, PTL

\* A changeset is applied entirely or not at all: each generation is one applied
\* changeset and its revisions are those of its operations (apply_transaction).
THEOREM GenerationsAccounted == Spec => []Accounted
<1>1. AuditInv => Accounted
  BY DEF AuditInv
<1> QED
  BY <1>1, AuditKept, PTL

\* No two changesets are recorded under one key, however often a request is
\* repeated and whoever repeats it (load_existing_receipt).
THEOREM KeysRecordedOnce == Spec => []OncePerKey
<1>1. AuditInv => OncePerKey
  BY DEF AuditInv
<1> QED
  BY <1>1, AuditKept, PTL

\* While an item is pending the domain says so to the recall gate, and says no
\* more of the index than the items allow (mark_index_rows_applied).
THEOREM PendingIsReported == Spec => []OutboxHonest
<1>1. AuditInv => OutboxHonest
  BY DEF AuditInv
<1> QED
  BY <1>1, AuditKept, PTL

\* What is active and not pending is in the index and in its file, unless an
\* outdated repair was the last to publish it (repair_index).
THEOREM SettledIsIndexed == Spec => []IndexComplete
<1>1. AuditInv /\ IndexInv => IndexComplete
  BY DEF IndexInv, FreshInv, Awaited, IndexComplete, Settled
<1> QED
  BY <1>1, AuditKept, PTL

\* What was active and settled at the gate of a recall, and still is what it was,
\* is found by its search (recall).
THEOREM RecallFindsSettled == Spec => []RecallSound
<1>1. AuditInv /\ IndexInv => RecallSound
  <2> SUFFICES ASSUME AuditInv, IndexInv, NEW t \in Thread, NEW w \in owed[t],
                      rows[w.obs] = w.row, w.obs \notin overtaken
               PROVE  w.row.text \in mem[w.obs]
    BY DEF RecallSound
  <2>1. AuditTypes /\ IndexTypes /\ FreshInv /\ OwedInv
    BY DEF AuditInv, IndexInv
  <2>2. w.obs \in Obs
    <3>1. w \in [obs : Obs, row : Row]
      BY <2>1 DEF IndexTypes
    <3> QED
      BY <3>1
  <2>3. rows[w.obs].st = "active" /\ \A i \in outbox : i.obs # w.obs
    BY <2>1 DEF OwedInv
  <2>4. InIndex(w.obs)
    BY <2>1, <2>2, <2>3 DEF FreshInv, Awaited
  <2> QED
    BY <2>4 DEF InIndex
<1> QED
  BY <1>1, AuditKept, PTL

\* What a changeset that becomes applied in a step has done in that step.
Done(i) ==
  /\ GoodOps(sets'[i].ops)
  /\ CommitOps(sets'[i].ops)
  /\ \A o \in DOMAIN sets'[i].ops : Confirmed(o, sets'[i].ops[o], sets'[i].actor)

\* It is filed last, as it was submitted.
LEMMA FiledDone ==
  ASSUME AuditInv, NEW d, GoodOps(d.ops), CommitOps(d.ops),
         \A o \in DOMAIN d.ops : Confirmed(o, d.ops[o], d.actor),
         sets' = Append(sets, Record(d, "applied")), NEW i \in Applied
  PROVE  Done(i)
<1>1. sets \in Seq(Filed) /\ Len(sets) \in Nat
  BY DEF AuditInv, AuditTypes
<1> DEFINE r == Record(d, "applied")
<1>2. r.ops = d.ops /\ r.actor = d.actor
  BY DEF Record
<1> HIDE DEF r
<1>3. DOMAIN sets = 1..Len(sets) /\ DOMAIN sets' = 1..Len(sets) + 1
  <2>1. sets \in Seq(Filed \cup {r}) /\ sets' = Append(sets, r)
    BY <1>1 DEF r
  <2> QED
    BY <1>1, <2>1
<1>4. \A j \in 1..Len(sets) : sets'[j] = sets[j]
  <2>1. sets \in Seq(Filed \cup {r}) /\ sets' = Append(sets, r)
    BY <1>1 DEF r
  <2> QED
    BY <1>1, <2>1
<1>5. i = Len(sets) + 1
  BY <1>1, <1>3, <1>4 DEF Applied
<1>6. sets'[i] = r
  <2>1. sets \in Seq(Filed \cup {r}) /\ sets' = Append(sets, r)
    BY <1>1 DEF r
  <2> QED
    BY <1>1, <1>5, <2>1
<1> QED
  BY <1>2, <1>6 DEF Done

\* Or it was proposed, and is as it was when it is approved.
LEMMA ApprovedDone ==
  ASSUME AuditInv, NEW c \in 1..Len(sets), sets[c].state = "proposed",
         GoodOps(sets[c].ops), CommitOps(sets[c].ops), Decide(c, "applied"), NEW i \in Applied
  PROVE  Done(i)
<1>0. AuditTypes /\ DraftInv /\ SetInv /\ OncePerKey
  BY DEF AuditInv
<1>1. PICK r : /\ Restated(c, r) /\ r.state = "applied"
               /\ r.gen = (IF "applied" = "applied" THEN dom.gen + 1 ELSE sets[c].gen)
  BY <1>0, DecideShape DEF State
<1>2. /\ Len(sets') = Len(sets) /\ sets'[c] = r /\ r.ops = sets[c].ops
      /\ \A j \in 1..Len(sets) : j # c => sets'[j] = sets[j]
      /\ DOMAIN sets = 1..Len(sets) /\ DOMAIN sets' = 1..Len(sets)
  <2>1. /\ sets' \in Seq(Filed) /\ Len(sets') = Len(sets) /\ sets'[c] = r
        /\ \A j \in 1..Len(sets) : j # c => sets'[j] = sets[j]
    BY <1>0, <1>1, RestateShape
  <2>2. sets \in Seq(Filed)
    BY <1>0 DEF AuditTypes
  <2> QED
    BY <1>1, <2>1, <2>2 DEF Restated
<1>3. i = c
  BY <1>2 DEF Applied
<1>4. \A o \in DOMAIN sets[c].ops : sets[c].ops[o].kind # "destroy"
  BY <1>0 DEF SetInv, DraftInv, Gentle
<1> QED
  BY <1>2, <1>3, <1>4 DEF Done, Confirmed

\* A decision that is not to apply makes nothing applied.
LEMMA UndecidedDone ==
  ASSUME AuditInv, NEW c \in 1..Len(sets), NEW state \in State \ {"applied"}, Decide(c, state)
  PROVE  Applied = {}
<1>0. AuditTypes /\ DraftInv /\ OncePerKey
  BY DEF AuditInv
<1>1. PICK r : Restated(c, r) /\ r.state = state
  BY <1>0, DecideShape
<1>2. /\ sets' \in Seq(Filed) /\ Len(sets') = Len(sets) /\ sets'[c] = r
      /\ \A j \in 1..Len(sets) : j # c => sets'[j] = sets[j]
  BY <1>0, <1>1, RestateShape
<1>3. DOMAIN sets = 1..Len(sets) /\ DOMAIN sets' = 1..Len(sets)
  BY <1>0, <1>2 DEF AuditTypes
<1> QED
  BY <1>1, <1>2, <1>3 DEF Applied

\* A changeset becomes applied by the step that applies it.
LEMMA AppliedDone ==
  ASSUME AuditInv, [Next]_vars, NEW i \in Applied
  PROVE  Done(i)
<1>0. AuditTypes
  BY DEF AuditInv
<1>1. sets' # sets
  BY DEF Applied
<1>2. ASSUME NEW t \in Thread, Submit(t) PROVE Done(i)
  <2>1. CASE ~Recorded(draft[t]) /\ SubmitApplied(t)
    <3>1. /\ \A o \in DOMAIN draft[t].ops : /\ Holds(o, draft[t].ops[o])
                                            /\ Confirmed(o, draft[t].ops[o], draft[t].actor)
          /\ CommitOps(draft[t].ops) /\ sets' = Append(sets, Record(draft[t], "applied"))
      BY <2>1 DEF SubmitApplied
    <3>2. GoodOps(draft[t].ops)
      BY <2>1, <3>1, SubmitGood
    <3> QED
      BY <3>1, <3>2, FiledDone
  <2>2. CASE SubmitProposal(t)
    <3>1. /\ sets' = Append(sets, Record(draft[t], "proposed"))
      BY <2>2 DEF SubmitProposal
    <3> DEFINE r == Record(draft[t], "proposed")
    <3>2. r.state = "proposed" /\ sets \in Seq(Filed) /\ Len(sets) \in Nat
      BY <1>0 DEF Record, AuditTypes
    <3>3. sets' = Append(sets, r)
      BY <3>1
    <3> HIDE DEF r
    <3>4. sets \in Seq(Filed \cup {r})
      BY <3>2
    <3>5. /\ DOMAIN sets' = 1..Len(sets) + 1 /\ DOMAIN sets = 1..Len(sets)
          /\ sets'[Len(sets) + 1] = r /\ \A j \in 1..Len(sets) : sets'[j] = sets[j]
      BY <3>2, <3>3, <3>4
    <3> QED
      BY <3>2, <3>5 DEF Applied
  <2> QED
    BY <1>1, <1>2, <2>1, <2>2 DEF Submit, SubmitKnown, SubmitRefused, canon
<1>3. ASSUME NEW t \in Thread, Approve(t) PROVE Done(i)
  <2>1. PICK c \in DOMAIN sets :
          \/ /\ sets[c].state = "proposed" /\ \A o \in DOMAIN sets[c].ops : Holds(o, sets[c].ops[o])
             /\ CommitOps(sets[c].ops) /\ Decide(c, "applied")
          \/ sets[c].state = "proposed" /\ Decide(c, "conflicted")
          \/ UNCHANGED canon
    BY <1>3, Zenon DEF Approve
  <2>2. c \in 1..Len(sets)
    BY <1>0 DEF AuditTypes
  <2>3. CASE /\ sets[c].state = "proposed" /\ \A o \in DOMAIN sets[c].ops : Holds(o, sets[c].ops[o])
             /\ CommitOps(sets[c].ops) /\ Decide(c, "applied")
    BY <2>2, <2>3, ApproveGood, ApprovedDone
  <2>4. CASE sets[c].state = "proposed" /\ Decide(c, "conflicted")
    BY <2>2, <2>4, UndecidedDone DEF State
  <2> QED
    BY <1>1, <2>1, <2>3, <2>4 DEF canon
<1>4. ASSUME NEW t \in Thread, Reject(t) PROVE Done(i)
  <2>1. PICK c \in DOMAIN sets : Decide(c, "rejected")
    BY <1>4, Zenon DEF Reject
  <2>2. c \in 1..Len(sets)
    BY <1>0 DEF AuditTypes
  <2> QED
    BY <2>1, <2>2, UndecidedDone DEF State
<1>5. CASE CompactRejected
  <2>1. PICK c \in DOMAIN sets : sets' = [sets EXCEPT ![c].kept = FALSE]
    BY <1>5, Zenon DEF CompactRejected
  <2>2. DOMAIN sets' = DOMAIN sets /\ \A j \in DOMAIN sets : sets'[j].state = sets[j].state
    <3>1. sets[c] \in Filed
      BY <1>0 DEF AuditTypes
    <3> QED
      BY <1>0, <2>1, <3>1 DEF AuditTypes, Filed
  <2> QED
    BY <2>2 DEF Applied
<1>6. ASSUME NEW t \in Thread, Remember(t) PROVE Done(i)
  <2>1. PICK o \in Obs, x \in Text :
          LET ops == [p \in {o} |-> Operation("remember", o, x, 0, 0)] IN
          /\ Unused(o)
          /\ CommitOps(ops)
          /\ sets' = Append(sets, Record([NoDraft EXCEPT !.ops = ops], "applied"))
    BY <1>6, Zenon DEF Remember
  <2> DEFINE ops == [p \in {o} |-> Operation("remember", o, x, 0, 0)]
             d == [NoDraft EXCEPT !.ops = ops]
  <2>2. UNCHANGED <<draft, mix>>
    BY <1>6 DEF Remember, env
  <2>3. GoodOps(ops)
    BY <2>1, <2>2, RememberKeeps
  <2>4. DOMAIN ops = {o} /\ ops[o].kind = "remember"
    BY DEF Operation
  <2>5. CommitOps(ops) /\ sets' = Append(sets, Record(d, "applied"))
    BY <2>1
  <2> HIDE DEF ops
  <2>6. d.ops = ops
    BY DEF NoDraft
  <2> HIDE DEF d
  <2>7. \A p \in DOMAIN d.ops : Confirmed(p, d.ops[p], d.actor)
    BY <2>4, <2>6 DEF Confirmed
  <2> QED
    BY <2>3, <2>5, <2>6, <2>7, FiledDone
<1>7. Next
  BY <1>1 DEF vars, canon
<1> QED
  BY <1>1, <1>2, <1>3, <1>4, <1>5, <1>6, <1>7
  DEF Next, DraftChange, DraftRetirement, Preview, Backfill, RepairSelect, RepairLoad, RepairPublish,
      RepairFails, Sync, SyncFails, MarkApplied, MarkFails, RecallGate, RecallSearch, ForgetEntity,
      Prune, Erase, Expire, Flush, Crash, canon

\* An operation replaces the very row its author has read: whatever others
\* commit between the read and the commit, or the review, is never lost.
THEOREM NoUpdateIsLost == Spec => NoLostUpdate
<1> DEFINE Step == \A i \in Applied : \A o \in DOMAIN sets'[i].ops :
                     LET op == sets'[i].ops[o] IN
                     op.kind # "remember" => rows[o].text = op.basis.text /\ rows[o].st = op.basis.st
<1>1. AuditInv /\ [Next]_vars => Step
  <2> SUFFICES ASSUME AuditInv, [Next]_vars, NEW i \in Applied, NEW o \in DOMAIN sets'[i].ops,
                      sets'[i].ops[o].kind # "remember"
               PROVE  /\ rows[o].text = sets'[i].ops[o].basis.text
                      /\ rows[o].st = sets'[i].ops[o].basis.st
    OBVIOUS
  <2>0. AuditTypes /\ LogInv
    BY DEF AuditInv
  <2>1. GoodOps(sets'[i].ops)
    BY AppliedDone DEF Done
  <2>2. PICK op : op = sets'[i].ops[o]
    OBVIOUS
  <2>3. o \in Obs /\ op \in Op
    BY <2>1, <2>2, OpsShape DEF GoodOps
  <2>4. Drafted(o, op) /\ Applicable(o, op)
    BY <2>1, <2>2 DEF GoodOps
  <2>5. rows[o].st # "gone" /\ Seen(o, op.basis) /\ rows[o].ver = op.basis.ver
    BY <2>0, <2>2, <2>3, <2>4, ApplicableRow DEF Drafted, Applicable, Holds
  <2> QED
    BY <2>2, <2>5 DEF Seen
<1>2. AuditInv /\ [Next]_vars => [Step]_vars
  BY <1>1
<1>3. Spec => [][Step]_vars
  BY <1>2, AuditKept, PTL DEF Spec
<1> QED
  BY <1>3 DEF NoLostUpdate

\* An observation is destroyed as its actor saw it in the preview, once, and never
\* with an expired or used confirmation.
THEOREM DestroyedAsPreviewed == Spec => DestroyOnlyAsPreviewed
<1> DEFINE Step == \A i \in Applied : \A o \in DOMAIN sets'[i].ops :
                     sets'[i].ops[o].kind = "destroy" =>
                       /\ tokens[sets'[i].ops[o].tok].state = "fresh"
                       /\ tokens'[sets'[i].ops[o].tok].state = "consumed"
                       /\ tokens[sets'[i].ops[o].tok].actor = sets'[i].actor
                       /\ tokens[sets'[i].ops[o].tok].row.text = rows[o].text
                       /\ tokens[sets'[i].ops[o].tok].row.st = rows[o].st
<1>1. AuditInv /\ [Next]_vars => Step
  <2> SUFFICES ASSUME AuditInv, [Next]_vars, NEW i \in Applied, NEW o \in DOMAIN sets'[i].ops,
                      sets'[i].ops[o].kind = "destroy"
               PROVE  /\ tokens[sets'[i].ops[o].tok].state = "fresh"
                      /\ tokens'[sets'[i].ops[o].tok].state = "consumed"
                      /\ tokens[sets'[i].ops[o].tok].actor = sets'[i].actor
                      /\ tokens[sets'[i].ops[o].tok].row.text = rows[o].text
                      /\ tokens[sets'[i].ops[o].tok].row.st = rows[o].st
    OBVIOUS
  <2>0. AuditTypes /\ LogInv /\ DraftInv
    BY DEF AuditInv
  <2>1. GoodOps(sets'[i].ops) /\ CommitOps(sets'[i].ops) /\ Confirmed(o, sets'[i].ops[o], sets'[i].actor)
    BY AppliedDone DEF Done
  <2>2. PICK ops, op, actor : ops = sets'[i].ops /\ op = ops[o] /\ actor = sets'[i].actor
    OBVIOUS
  <2>3. o \in DOMAIN ops /\ GoodOps(ops) /\ CommitOps(ops) /\ Confirmed(o, op, actor) /\ op.kind = "destroy"
    BY <2>1, <2>2
  <2>4. o \in Obs /\ op \in Op /\ Drafted(o, op) /\ Applicable(o, op)
    BY <2>2, <2>3, OpsShape DEF GoodOps
  <2>5. rows[o].st # "gone" /\ rows[o].ver = op.basis.ver /\ op.tok \in 1..Len(tokens)
    BY <2>0, <2>3, <2>4, ApplicableRow DEF Drafted, Applicable, Holds
  <2>6. tokens'[op.tok].state = "consumed"
    BY <2>0, <2>2, <2>3, <2>5, CommitShape
  <2>7. /\ tokens[op.tok].obs = o /\ tokens[op.tok].row.ver = op.basis.ver
        /\ tokens[op.tok].actor = actor /\ tokens[op.tok].state = "fresh"
    BY <2>3 DEF Confirmed
  <2>8. Seen(o, tokens[op.tok].row)
    BY <2>0, <2>5, <2>7 DEF DraftInv
  <2>9. tokens[op.tok].row.text = rows[o].text /\ tokens[op.tok].row.st = rows[o].st
    BY <2>5, <2>7, <2>8 DEF Seen
  <2> QED
    BY <2>2, <2>6, <2>7, <2>9
<1>2. AuditInv /\ [Next]_vars => [Step]_vars
  BY <1>1
<1>3. Spec => [][Step]_vars
  BY <1>2, AuditKept, PTL DEF Spec
<1> QED
  BY <1>3 DEF DestroyOnlyAsPreviewed
=============================================================================
