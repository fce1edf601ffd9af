------------------------------ MODULE DaemonProofs ---------------------------
(***************************************************************************)
(* Theorems about Daemon.  Its jobs (DaemonJobs): for every set of jobs    *)
(* and profiles, every failure to persist and every stop of the server,    *)
(* health does not lie about the durable registry and restores lose no     *)
(* profile.  Its spaces (SpaceCatalog, SpaceRegistry): for every set of    *)
(* processes, threads, spaces and ids, wherever processes and calls stop,  *)
(* a space has one identity and leases are honoured.                       *)
(***************************************************************************)
EXTENDS Daemon, FiniteSetTheorems, FunctionTheorems, WellFoundedInduction, TLAPS

-----------------------------------------------------------------------------
(* What a step of the daemon does to its jobs. *)

\* A step of Daemon is one of these for DaemonJobs, whatever the spaces do.
JobStep ==
  \/ OpenRegistry
  \/ \E j \in Job : Enqueue(j) \/ MarkRunning(j) \/ MarkOutcome(j) \/ OtherWorker(j)
  \/ \E j \in Restores : Restore(j)
  \/ PersistJob \/ PersistEvent \/ PersistFails \/ Broadcast
  \/ \E p \in Profile : MakeProfile(p)
  \/ Stop
  \/ UNCHANGED jobVars

\* Every step of the daemon is one of those steps for its jobs.
LEMMA NextIsJobStep == [Next]_vars => JobStep
BY DEF Next, vars, Crash, Jobs, StartJob, JobStep

\* The least-number principle, for a set of natural numbers.
LEMMA Least ==
  ASSUME NEW T \in SUBSET Nat, T # {}
  PROVE  \E x \in T : \A y \in T : x <= y
<1>1. PICK x \in T : \A y \in T : ~ (<<y, x>> \in OpToRel(<, Nat))
  BY NatLessThanWellFounded, WFMin
<1>2. \A y \in T : ~ (y < x)
  BY <1>1 DEF OpToRel
<1> QED
  BY <1>2

\* A bounded set of natural numbers that is not empty has a largest member.
LEMMA Greatest ==
  ASSUME NEW S \in SUBSET Nat, S # {}, NEW b \in Nat, \A k \in S : k <= b
  PROVE  \E m \in S : \A k \in S : k <= m
<1> DEFINE Upper == {u \in Nat : \A k \in S : k <= u}
<1>1. b \in Upper
  OBVIOUS
<1>2. PICK u \in Upper : \A v \in Upper : u <= v
  BY <1>1, Least
<1>3. ASSUME u \notin S PROVE FALSE
  <2>1. ASSUME NEW k \in S PROVE k \in Nat /\ k < u
    <3>1. k \in Nat /\ u \in Nat /\ k <= u /\ k # u
      BY <1>2, <1>3
    <3> QED
      BY <3>1
  <2>2. PICK k \in S : k < u
    BY <2>1
  <2>3. u - 1 \in Nat
    BY <2>2
  <2>4. \A j \in S : j <= u - 1
    BY <2>1
  <2> QED
    BY <2>3, <2>4, <1>2
<1> QED
  BY <1>2, <1>3

-----------------------------------------------------------------------------
(* The job registry. *)

\* The ranks of the states of a job, and which of them its worker has reached.
Reached == [none |-> 0, spawned |-> 1, check |-> 2, park |-> 2, place |-> 2,
            succeeded |-> 2, failed |-> 2, done |-> 3, gone |-> 3]

\* A registry that serves without a database says so, and one that is stopped
\* has nothing in the middle.
ModeInv ==
  /\ attached => serving
  /\ ~serving => update = Nothing
  /\ serving /\ ~attached => degraded

\* Sequence numbers are handed out in order: above all durable ones when the
\* registry is attached, the one of the pending update being the latest.
SequenceInv ==
  /\ \E b \in Nat : \A e \in events : e.seq <= b
  /\ attached => \A e \in events : e.seq < nextSequence
  /\ attached /\ update # Nothing =>
       /\ update.event.seq < nextSequence
       /\ update.stage < 3 => \A e \in events : e.seq < update.event.seq

\* Nothing that is durable or pending about a job is ahead of its worker, and
\* a pending event is ahead of all that is durable.
ProgressInv ==
  /\ \A e \in events : Rank[e.state] <= Reached[worker[e.job]]
  /\ update # Nothing => Rank[update.event.state] <= Reached[worker[update.event.job]]
  /\ attached /\ update # Nothing /\ update.stage < 3 =>
       \A e \in events : e.job = update.event.job => Rank[e.state] < Rank[update.event.state]

\* As long as health is good an update has left behind it what its stage says.
StageInv ==
  serving /\ ~degraded /\ update # Nothing =>
    /\ jobs = IF update.stage = 1 THEN Put(jobRows, update.event.job, update.event.state)
                                  ELSE jobRows
    /\ update.stage = 3 => update.event \in events

JobInv == JobTypeOK /\ ModeInv /\ SequenceInv /\ ProgressInv /\ StageInv /\ HealthHonest

\* The tables of ranks, of what a worker has reached, and of the stages.
LEMMA Tables ==
  /\ DOMAIN Rank = {"queued", "running", "succeeded", "failed"}
  /\ Rank["queued"] = 1 /\ Rank["running"] = 2 /\ Rank["succeeded"] = 3 /\ Rank["failed"] = 3
  /\ Reached["none"] = 0 /\ Reached["spawned"] = 1 /\ Reached["done"] = 3 /\ Reached["gone"] = 3
  /\ \A w \in {"check", "park", "place", "succeeded", "failed"} : Reached[w] = 2
  /\ DOMAIN Order = {1, 2, 3} /\ Len(Order) = 3
  /\ Order[1] = "row" /\ Order[2] = "event" /\ Order[3] = "send"
BY DEF Rank, Reached, Order

\* Updates that are pending keep their event and count their stage up to three.
LEMMA UpdateShape ==
  ASSUME JobTypeOK, update # Nothing
  PROVE  /\ update \in Update /\ update.event \in Event /\ update.stage \in {1, 2, 3}
         /\ Advance => IF update.stage = 3 THEN update' = Nothing
                       ELSE /\ update' \in Update /\ update' # Nothing
                            /\ update'.event = update.event /\ update'.stage = update.stage + 1
<1>1. update \in Update /\ update.event \in Event /\ update.stage \in {1, 2, 3}
  BY Tables DEF JobTypeOK, Update
<1>2. ASSUME Advance, update.stage # 3
      PROVE  /\ update' \in Update /\ update' # Nothing
             /\ update'.event = update.event /\ update'.stage = update.stage + 1
  <2>1. update' = [update EXCEPT !.stage = update.stage + 1]
    BY <1>2, Tables DEF Advance
  <2>2. update.stage + 1 \in {1, 2, 3}
    BY <1>1, <1>2
  <2>3. update' \in Update /\ update'.event = update.event /\ update'.stage = update.stage + 1
    BY <1>1, <2>1, <2>2, Tables DEF Update
  <2> QED
    BY <2>3, UpdateAssumption
<1> QED
  BY <1>1, <1>2, Tables DEF Advance

\* The number that an opened registry starts with is above all durable events.
LEMMA NumbersResume ==
  ASSUME JobTypeOK, NEW b \in Nat, \A e \in events : e.seq <= b
  PROVE  1 + LastSequence \in Nat /\ \A e \in events : e.seq < 1 + LastSequence
<1> DEFINE S == {e.seq : e \in events} \cup {0}
           m == CHOOSE k \in S : \A e \in events : e.seq <= k
<1>1. \A e \in events : e.seq \in Nat
  BY DEF JobTypeOK, Event
<1>2. S \in SUBSET Nat /\ S # {} /\ \A k \in S : k <= b
  BY <1>1
<1>3. PICK k \in S : \A i \in S : i <= k
  BY <1>2, Greatest
<1>4. \A e \in events : e.seq <= k
  BY <1>3
<1>5. m \in S /\ \A e \in events : e.seq <= m
  BY <1>4
<1>6. m \in Nat
  BY <1>2, <1>5
<1>7. 1 + m \in Nat /\ \A e \in events : e.seq < 1 + m
  BY <1>1, <1>5, <1>6
<1> QED
  BY <1>7 DEF LastSequence

-----------------------------------------------------------------------------
(* Types. *)

\* A job's state is put into a table of jobs.
LEMMA PutType ==
  ASSUME NEW f, f \in [DOMAIN f -> DOMAIN Rank], DOMAIN f \subseteq Job,
         NEW j \in Job, NEW state \in DOMAIN Rank
  PROVE  LET g == Put(f, j, state) IN g \in [DOMAIN g -> DOMAIN Rank] /\ DOMAIN g \subseteq Job
BY DEF Put

\* Whatever is set for a job is a pending update of the right type.
LEMMA SetStateType ==
  ASSUME JobTypeOK, NEW j \in Job, NEW state \in DOMAIN Rank, SetState(j, state)
  PROVE  /\ update' \in Update /\ update' # Nothing
         /\ update'.stage = 1
         /\ update'.event = [seq |-> nextSequence, job |-> j, state |-> state]
         /\ nextSequence' \in Nat
         /\ jobs' \in [DOMAIN jobs' -> DOMAIN Rank] /\ DOMAIN jobs' \subseteq Job
<1>1. [seq |-> nextSequence, job |-> j, state |-> state] \in Event
  BY DEF JobTypeOK, Event
<1>2. update' \in Update
  BY <1>1, Tables DEF SetState, Update
<1>3. jobs \in [DOMAIN jobs -> DOMAIN Rank] /\ DOMAIN jobs \subseteq Job
  BY DEF JobTypeOK
<1>4. jobs' \in [DOMAIN jobs' -> DOMAIN Rank] /\ DOMAIN jobs' \subseteq Job
  BY <1>3, PutType DEF SetState
<1>5. nextSequence' \in Nat
  BY DEF SetState, JobTypeOK
<1> QED
  BY <1>2, <1>4, <1>5, UpdateAssumption DEF SetState

\* The table of jobs of a registry without a database, or of none.
LEMMA NoJobsType ==
  /\ <<>> \in [DOMAIN <<>> -> DOMAIN Rank]
  /\ DOMAIN <<>> \subseteq Job
<1>1. DOMAIN <<>> = {}
  OBVIOUS
<1>2. <<>> = [x \in {} |-> "queued"]
  BY <1>1
<1> QED
  BY <1>1, <1>2

\* They keep every variable in its domain.
LEMMA JobTypeStep ==
  ASSUME JobTypeOK, NEW b \in Nat, \A e \in events : e.seq <= b, JobStep
  PROVE  JobTypeOK'
<1> USE JobAssumption
<1>1. CASE OpenRegistry
  <2>1. nextSequence' \in Nat
    BY <1>1, NumbersResume DEF OpenRegistry
  <2>2. jobs' \in [DOMAIN jobs' -> DOMAIN Rank] /\ DOMAIN jobs' \subseteq Job
    <3>1. jobs' = jobRows \/ jobs' = <<>>
      BY <1>1 DEF OpenRegistry
    <3> QED
      BY <3>1, NoJobsType DEF JobTypeOK
  <2> QED
    BY <1>1, <2>1, <2>2 DEF OpenRegistry, JobTypeOK, product, data
<1>2. ASSUME NEW j \in Job, Enqueue(j) \/ MarkRunning(j) \/ MarkOutcome(j)
      PROVE  JobTypeOK'
  <2>1. PICK state \in DOMAIN Rank, l \in {"spawned", "check", "done"} :
          SetState(j, state) /\ Step(j, l)
    BY <1>2, Tables DEF Enqueue, MarkRunning, MarkOutcome
  <2>2. worker' \in [Job -> {"none", "spawned", "check", "park", "place", "succeeded", "failed", "done", "gone"}]
    BY <2>1 DEF Step, JobTypeOK
  <2> QED
    BY <2>1, <2>2, SetStateType DEF SetState, JobTypeOK, product, data
<1>3. ASSUME NEW j \in Job, OtherWorker(j)
      PROVE  JobTypeOK'
  BY <1>3 DEF OtherWorker, Step, JobTypeOK, registry, product, data
<1>4. ASSUME NEW j \in Restores, Restore(j)
      PROVE  JobTypeOK'
  <2>1. /\ j \in Job /\ Target[j] \in Profile /\ j \in Content
        /\ profiles[Target[j]] \in Content \cup {Nothing} /\ parked[j] \in Content \cup {Nothing}
    BY DEF Content, JobTypeOK
  <2>2. worker' \in [Job -> {"none", "spawned", "check", "park", "place", "succeeded", "failed", "done", "gone"}]
    BY <1>4, <2>1 DEF Restore, RestoreCheck, RestorePark, RestorePlace, RestorePlaceFails,
          RestoreBothFail, Step, JobTypeOK
  <2>3. /\ profiles' \in [Profile -> Content \cup {Nothing}]
        /\ parked' \in [Restores -> Content \cup {Nothing}]
    BY <1>4, <2>1 DEF Restore, RestoreCheck, RestorePark, RestorePlace, RestorePlaceFails,
          RestoreBothFail, WayBack, JobTypeOK, data
  <2>4. held' \subseteq Profile \X Content
    BY <1>4, <2>1 DEF Restore, RestoreCheck, RestorePark, RestorePlace, RestorePlaceFails,
          RestoreBothFail, JobTypeOK, data
  <2>5. UNCHANGED <<registry, product>>
    BY <1>4 DEF Restore, RestoreCheck, RestorePark, RestorePlace, RestorePlaceFails, RestoreBothFail
  <2> QED
    BY <2>2, <2>3, <2>4, <2>5 DEF JobTypeOK, registry, product
<1>5. CASE PersistJob
  <2>1. update # Nothing /\ Advance
    BY <1>5 DEF PersistJob, Stage
  <2>2. update' \in Update \cup {Nothing} /\ update.event.job \in Job /\ update.event.state \in DOMAIN Rank
    BY <2>1, UpdateShape DEF Event
  <2>3. jobRows' \in [DOMAIN jobRows' -> DOMAIN Rank] /\ DOMAIN jobRows' \subseteq Job
    BY <1>5, <2>2, PutType DEF PersistJob, JobTypeOK
  <2> QED
    BY <1>5, <2>2, <2>3 DEF PersistJob, JobTypeOK, data
<1>6. CASE PersistEvent
  <2>1. update # Nothing /\ Advance
    BY <1>6 DEF PersistEvent, Stage
  <2>2. update' \in Update \cup {Nothing} /\ update.event \in Event
    BY <2>1, UpdateShape
  <2> QED
    BY <1>6, <2>2 DEF PersistEvent, JobTypeOK, data
<1>7. CASE PersistFails \/ Broadcast
  <2>1. update # Nothing /\ Advance
    BY <1>7 DEF PersistFails, Broadcast, Stage
  <2>2. update' \in Update \cup {Nothing}
    BY <2>1, UpdateShape
  <2> QED
    BY <1>7, <2>2 DEF PersistFails, Broadcast, JobTypeOK, product, data
<1>8. ASSUME NEW p \in Profile, MakeProfile(p)
      PROVE  JobTypeOK'
  BY <1>8 DEF MakeProfile, JobTypeOK, Content, registry, product
<1>9. CASE Stop
  <2>1. worker' \in [Job -> {"none", "spawned", "check", "park", "place", "succeeded", "failed", "done", "gone"}]
    BY <1>9 DEF Stop
  <2>2. jobs' \in [DOMAIN jobs' -> DOMAIN Rank] /\ DOMAIN jobs' \subseteq Job
    BY <1>9, NoJobsType DEF Stop
  <2> QED
    BY <1>9, <2>1, <2>2 DEF Stop, JobTypeOK, product
<1>10. CASE UNCHANGED jobVars
  BY <1>10 DEF JobTypeOK, jobVars, registry, product, data
<1> QED
  BY <1>1, <1>2, <1>3, <1>4, <1>5, <1>6, <1>7, <1>8, <1>9, <1>10 DEF JobStep

-----------------------------------------------------------------------------
(* The invariant of the registry. *)

\* Steps that leave the registry and the database alone, and let a worker only
\* advance: those of the workers themselves.
LEMMA WorkerStep ==
  ASSUME JobInv, JobTypeOK', UNCHANGED <<registry, product>>,
         \A j \in Job : Reached[worker[j]] <= Reached[worker'[j]]
  PROVE  JobInv'
<1> USE DEF JobInv
<1>1. ModeInv' /\ SequenceInv' /\ StageInv' /\ HealthHonest'
  BY DEF ModeInv, SequenceInv, StageInv, HealthHonest, registry, product, Put
<1>2. \A j \in Job : Reached[worker[j]] \in Nat /\ Reached[worker'[j]] \in Nat
  BY Tables DEF JobTypeOK
<1>3. \A e \in events : e.job \in Job /\ Rank[e.state] \in Nat
  BY Tables DEF JobTypeOK, Event
<1>4. update # Nothing => update.event.job \in Job /\ Rank[update.event.state] \in Nat
  BY UpdateShape, Tables DEF Event
<1>5. ProgressInv'
  BY <1>2, <1>3, <1>4 DEF ProgressInv, registry, product
<1> QED
  BY <1>1, <1>5

\* An update begins: a handler's, or a worker's of its own job.
LEMMA SetStateStep ==
  ASSUME JobInv, JobTypeOK', NEW j \in Job, NEW state \in DOMAIN Rank, NEW l \in DOMAIN Reached,
         SetState(j, state), Step(j, l),
         Reached[worker[j]] < Rank[state], Rank[state] <= Reached[l]
  PROVE  JobInv'
<1> USE DEF JobInv
<1> DEFINE new == [seq |-> nextSequence, job |-> j, state |-> state]
<1>1. /\ update = Nothing /\ update' # Nothing /\ update'.stage = 1 /\ update'.event = new
      /\ nextSequence' = nextSequence + 1 /\ jobs' = Put(jobs, j, state)
      /\ UNCHANGED <<serving, attached, degraded, jobRows, events, heard>>
      /\ serving
  BY SetStateType DEF SetState, product
<1>2. nextSequence \in Nat /\ \A e \in events : e \in Event /\ e.seq \in Nat /\ e.job \in Job /\ e.state \in DOMAIN Rank
  BY DEF JobTypeOK, Event
<1>3. worker' = [worker EXCEPT ![j] = l] /\ worker \in [Job -> DOMAIN Reached]
  BY DEF Step, JobTypeOK, Reached
<1>4. \A k \in Job : Reached[worker[k]] \in Nat /\ Reached[worker'[k]] \in Nat
                     /\ Reached[worker[k]] <= Reached[worker'[k]]
  BY <1>3, Tables DEF JobTypeOK
<1>5. \A st \in DOMAIN Rank : Rank[st] \in Nat
  BY Tables
<1>6. ModeInv'
  BY <1>1 DEF ModeInv
<1>7. SequenceInv'
  <2>1. attached => \A e \in events : e.seq < nextSequence
    BY DEF SequenceInv
  <2>2. update'.event.seq = nextSequence
    BY <1>1
  <2> QED
    BY <1>1, <1>2, <2>1, <2>2 DEF SequenceInv
<1>8. ProgressInv'
  <2>1. \A e \in events : Rank[e.state] <= Reached[worker[e.job]]
    BY DEF ProgressInv
  <2>2. \A e \in events' : Rank[e.state] <= Reached[worker'[e.job]]
    BY <1>1, <1>2, <1>4, <1>5, <2>1
  <2>3. update'.event.job = j /\ update'.event.state = state /\ worker'[j] = l
    BY <1>1, <1>3
  <2>4. \A e \in events : e.job = j => Rank[e.state] < Rank[state]
    BY <1>2, <1>4, <1>5, <2>1
  <2> QED
    BY <1>1, <2>2, <2>3, <2>4 DEF ProgressInv
<1>9. StageInv'
  <2>1. ~degraded => jobs = jobRows
    BY <1>1 DEF HealthHonest
  <2>2. update'.event.job = j /\ update'.event.state = state
    BY <1>1
  <2>3. ~degraded' => jobs' = Put(jobRows', update'.event.job, update'.event.state)
    BY <1>1, <2>1, <2>2
  <2> QED
    BY <1>1, <2>3 DEF StageInv
<1>10. HealthHonest'
  BY <1>1 DEF HealthHonest
<1> QED
  BY <1>6, <1>7, <1>8, <1>9, <1>10

\* A stage of an update ends: its row, its event or its broadcast, or the
\* failure of one of the first two.
LEMMA StageStep ==
  ASSUME JobInv, JobTypeOK', PersistJob \/ PersistEvent \/ PersistFails \/ Broadcast
  PROVE  JobInv'
<1> USE DEF JobInv
<1> DEFINE ev == update.event
<1>1. /\ update # Nothing /\ update.stage \in {1, 2, 3}
      /\ IF update.stage = 3 THEN update' = Nothing
         ELSE /\ update' # Nothing /\ update'.event = ev /\ update'.stage = update.stage + 1
      /\ ev \in Event
      /\ UNCHANGED <<serving, jobs, nextSequence, attached, worker>>
  BY UpdateShape DEF PersistJob, PersistEvent, PersistFails, Broadcast, Stage
<1>2. /\ PersistJob => update.stage = 1
      /\ PersistEvent => update.stage = 2
      /\ Broadcast => update.stage = 3
      /\ PersistFails => update.stage \in {1, 2} /\ attached
  BY <1>1, Tables DEF PersistJob, PersistEvent, PersistFails, Broadcast, Stage
<1>3. /\ events' = IF PersistEvent /\ attached THEN events \cup {ev} ELSE events
      /\ degraded' = IF PersistFails THEN TRUE ELSE degraded
      /\ jobRows' = IF PersistJob /\ attached THEN Put(jobRows, ev.job, ev.state) ELSE jobRows
      /\ heard' = IF Broadcast /\ ~degraded THEN heard \cup {ev} ELSE heard
  <2>1. CASE PersistJob
    BY <2>1, <1>2 DEF PersistJob, PersistEvent, PersistFails, Broadcast
  <2>2. CASE PersistEvent
    BY <2>2, <1>2 DEF PersistJob, PersistEvent, PersistFails, Broadcast
  <2>3. CASE PersistFails
    BY <2>3, <1>2 DEF PersistJob, PersistEvent, PersistFails, Broadcast, product
  <2>4. CASE Broadcast
    BY <2>4, <1>2 DEF PersistJob, PersistEvent, PersistFails, Broadcast
  <2> QED
    BY <2>1, <2>2, <2>3, <2>4
<1>4. /\ nextSequence \in Nat /\ ev.seq \in Nat /\ ev.job \in Job /\ ev.state \in DOMAIN Rank
      /\ \A e \in events : e.seq \in Nat /\ e.job \in Job /\ e.state \in DOMAIN Rank
      /\ {serving, attached, degraded} \subseteq BOOLEAN
  BY <1>1 DEF JobTypeOK, Event
<1>5. \A st \in DOMAIN Rank : Rank[st] \in Nat
  BY Tables
<1>6. serving
  BY <1>1 DEF ModeInv
<1>7. ModeInv'
  BY <1>1, <1>3, <1>6 DEF ModeInv
<1>8. SequenceInv'
  <2>1. PICK b \in Nat : \A e \in events : e.seq <= b
    BY DEF SequenceInv
  <2>2. \E c \in Nat : c >= b /\ c >= ev.seq
    BY <1>4
  <2>3. \E c \in Nat : \A e \in events \cup {ev} : e.seq <= c
    BY <1>4, <2>1, <2>2
  <2>4. \E c \in Nat : \A e \in events' : e.seq <= c
    BY <1>3, <2>3
  <2>5. attached => \A e \in events' : e.seq < nextSequence
    BY <1>1, <1>3 DEF SequenceInv
  <2>6. attached /\ update' # Nothing /\ update'.stage < 3 => \A e \in events' : e.seq < update'.event.seq
    <3>1. ASSUME attached, update' # Nothing, update'.stage < 3
          PROVE  update.stage = 1
      BY <3>1, <1>1
    <3> QED
      BY <3>1, <1>1, <1>2, <1>3 DEF SequenceInv
  <2>7. attached /\ update' # Nothing => update'.event.seq < nextSequence
    BY <1>1 DEF SequenceInv
  <2> QED
    BY <1>1, <2>4, <2>5, <2>6, <2>7 DEF SequenceInv
<1>9. ProgressInv'
  <2>1. \A e \in events \cup {ev} : Rank[e.state] <= Reached[worker[e.job]]
    BY <1>1 DEF ProgressInv
  <2>2. \A e \in events' : Rank[e.state] <= Reached[worker'[e.job]]
    BY <1>1, <1>3, <2>1
  <2>3. attached /\ update' # Nothing /\ update'.stage < 3 =>
          \A e \in events' : e.job = update'.event.job => Rank[e.state] < Rank[update'.event.state]
    <3>1. ASSUME attached, update' # Nothing, update'.stage < 3
          PROVE  update.stage = 1
      BY <3>1, <1>1
    <3> QED
      BY <3>1, <1>1, <1>2, <1>3 DEF ProgressInv
  <2> QED
    BY <1>1, <2>1, <2>2, <2>3 DEF ProgressInv
<1>10. StageInv'
  <2> SUFFICES ASSUME serving', ~degraded', update' # Nothing
               PROVE  /\ jobs' = IF update'.stage = 1
                                 THEN Put(jobRows', update'.event.job, update'.event.state) ELSE jobRows'
                      /\ update'.stage = 3 => update'.event \in events'
    BY DEF StageInv, Put
  <2>1. ~PersistFails /\ ~degraded /\ attached
    BY <1>3, <1>4, <1>6 DEF ModeInv
  <2>2. CASE PersistJob
    BY <2>1, <2>2, <1>1, <1>2, <1>3, <1>6 DEF StageInv
  <2>3. CASE PersistEvent
    BY <2>1, <2>3, <1>1, <1>2, <1>3, <1>6 DEF StageInv
  <2>4. ~Broadcast
    BY <1>1, <1>2
  <2> QED
    BY <2>1, <2>2, <2>3, <2>4
<1>11. HealthHonest'
  <2>1. heard' \subseteq events'
    BY <1>1, <1>2, <1>3, <1>6 DEF StageInv, HealthHonest
  <2>2. serving' /\ ~degraded' /\ update' = Nothing => jobs' = jobRows'
    BY <1>1, <1>2, <1>3, <1>6 DEF StageInv
  <2>3. \A e, f \in events' : e.job = f.job /\ e.seq < f.seq => Rank[e.state] < Rank[f.state]
    <3>1. CASE PersistEvent /\ attached
      <4>1. \A e \in events : e.seq < ev.seq /\ (e.job = ev.job => Rank[e.state] < Rank[ev.state])
        BY <3>1, <1>1, <1>2 DEF SequenceInv, ProgressInv
      <4>2. ~(ev.seq < ev.seq) /\ \A e \in events : ~(ev.seq < e.seq)
        BY <4>1, <1>4
      <4>3. events' = events \cup {ev}
        BY <3>1, <1>3
      <4>4. \A e, f \in events : e.job = f.job /\ e.seq < f.seq => Rank[e.state] < Rank[f.state]
        BY DEF HealthHonest
      <4> SUFFICES ASSUME NEW e \in events', NEW f \in events', e.job = f.job, e.seq < f.seq
                   PROVE  Rank[e.state] < Rank[f.state]
        OBVIOUS
      <4>5. CASE f = ev
        BY <4>1, <4>2, <4>3, <4>5
      <4>6. CASE f # ev
        BY <4>2, <4>3, <4>4, <4>6
      <4> QED
        BY <4>5, <4>6
    <3>2. CASE ~(PersistEvent /\ attached)
      BY <3>2, <1>3 DEF HealthHonest
    <3> QED
      BY <3>1, <3>2
  <2> QED
    BY <2>1, <2>2, <2>3 DEF HealthHonest
<1> QED
  BY <1>7, <1>8, <1>9, <1>10, <1>11

\* They keep the invariant of the jobs.
LEMMA JobInvStep == JobInv /\ JobStep => JobInv'
<1> SUFFICES ASSUME JobInv, JobStep
             PROVE  JobInv'
  OBVIOUS
<1>1. JobTypeOK'
  <2>1. PICK b \in Nat : \A e \in events : e.seq <= b
    BY DEF JobInv, SequenceInv
  <2> QED
    BY <2>1, JobTypeStep DEF JobInv
<1>2. CASE OpenRegistry
  <2>1. update = Nothing /\ update' = Nothing /\ serving'
    BY <1>2 DEF OpenRegistry, JobInv, ModeInv
  <2>2. UNCHANGED <<jobRows, events, heard, worker>>
    BY <1>2 DEF OpenRegistry, product
  <2>3. PICK b \in Nat : \A e \in events : e.seq <= b
    BY DEF JobInv, SequenceInv
  <2>4. \A e \in events : e.seq < 1 + LastSequence
    BY <2>3, NumbersResume DEF JobInv
  <2>5. ModeInv' /\ SequenceInv'
    BY <1>2, <2>1, <2>2, <2>3, <2>4 DEF OpenRegistry, ModeInv, SequenceInv
  <2>6. ProgressInv' /\ StageInv' /\ HealthHonest'
    BY <1>2, <2>1, <2>2 DEF OpenRegistry, JobInv, ProgressInv, StageInv, HealthHonest
  <2> QED
    BY <1>1, <2>5, <2>6 DEF JobInv
<1>3. ASSUME NEW j \in Job, Enqueue(j)
      PROVE  JobInv'
  BY <1>1, <1>3, SetStateStep, Tables DEF Enqueue, Reached
<1>4. ASSUME NEW j \in Job, MarkRunning(j)
      PROVE  JobInv'
  BY <1>1, <1>4, SetStateStep, Tables DEF MarkRunning, Reached
<1>5. ASSUME NEW j \in Job, MarkOutcome(j)
      PROVE  JobInv'
  BY <1>1, <1>5, SetStateStep, Tables DEF MarkOutcome, Reached
<1>6. ASSUME NEW j \in Job, OtherWorker(j)
      PROVE  JobInv'
  <2>1. \A k \in Job : Reached[worker[k]] <= Reached[worker'[k]]
    BY <1>6, Tables DEF OtherWorker, Step, JobInv, JobTypeOK
  <2> QED
    BY <1>1, <1>6, <2>1, WorkerStep DEF OtherWorker
<1>7. ASSUME NEW j \in Restores, Restore(j)
      PROVE  JobInv'
  <2>1. \E v, w \in {"check", "park", "place", "succeeded", "failed"} :
          worker[j] = v /\ worker' = [worker EXCEPT ![j] = w]
    BY <1>7 DEF Restore, RestoreCheck, RestorePark, RestorePlace, RestorePlaceFails, RestoreBothFail, Step
  <2>2. \A k \in Job : Reached[worker[k]] \in Nat
    BY Tables DEF JobInv, JobTypeOK
  <2>3. \A k \in Job : Reached[worker[k]] <= Reached[worker'[k]]
    BY <2>1, <2>2, Tables, JobAssumption DEF JobInv, JobTypeOK
  <2>4. UNCHANGED <<registry, product>>
    BY <1>7 DEF Restore, RestoreCheck, RestorePark, RestorePlace, RestorePlaceFails, RestoreBothFail
  <2> QED
    BY <1>1, <2>3, <2>4, WorkerStep
<1>8. CASE PersistJob \/ PersistEvent \/ PersistFails \/ Broadcast
  BY <1>1, <1>8, StageStep
<1>9. CASE UNCHANGED jobVars \/ \E p \in Profile : MakeProfile(p)
  <2>1. UNCHANGED <<registry, product, worker>>
    BY <1>9 DEF MakeProfile, jobVars
  <2>2. \A k \in Job : Reached[worker[k]] \in Nat
    BY Tables DEF JobInv, JobTypeOK
  <2> QED
    BY <1>1, <2>1, <2>2, WorkerStep
<1>10. CASE Stop
  <2>1. /\ serving' = FALSE /\ attached' = FALSE /\ update' = Nothing
        /\ UNCHANGED <<jobRows, events, heard>>
    BY <1>10 DEF Stop, product
  <2>2. ModeInv' /\ SequenceInv' /\ StageInv' /\ HealthHonest'
    BY <2>1 DEF JobInv, ModeInv, SequenceInv, StageInv, HealthHonest
  <2>3. \A k \in Job : Reached[worker[k]] \in Nat /\ Reached[worker[k]] <= Reached[worker'[k]]
                       /\ Reached[worker'[k]] \in Nat
    BY <1>10, Tables DEF Stop, JobInv, JobTypeOK
  <2>4. \A e \in events : e.job \in Job /\ Rank[e.state] \in Nat
    BY Tables DEF JobInv, JobTypeOK, Event
  <2>5. ProgressInv'
    BY <2>1, <2>3, <2>4 DEF JobInv, ProgressInv
  <2> QED
    BY <1>1, <2>2, <2>5 DEF JobInv
<1> QED
  BY <1>2, <1>3, <1>4, <1>5, <1>6, <1>7, <1>8, <1>9, <1>10 DEF JobStep

\* A daemon that starts has no jobs.
LEMMA JobInvInit == Init => JobInv
<1> SUFFICES ASSUME InitJobs PROVE JobInv
  BY DEF Init
<1>1. JobTypeOK
  <2>1. PICK P \in SUBSET Profile :
           /\ profiles = [p \in Profile |-> IF p \in P THEN p ELSE Nothing]
           /\ held = {<<p, p>> : p \in P}
    BY DEF InitJobs
  <2>2. held \subseteq Profile \X Content /\ profiles \in [Profile -> Content \cup {Nothing}]
    BY <2>1 DEF Content
  <2> QED
    BY <2>2, NoJobsType DEF InitJobs, JobTypeOK
<1>2. ModeInv /\ SequenceInv /\ ProgressInv /\ StageInv /\ HealthHonest
  BY DEF InitJobs, ModeInv, SequenceInv, ProgressInv, StageInv, HealthHonest
<1> QED
  BY <1>1, <1>2 DEF JobInv

\* Whatever the spaces do, however often persisting fails and the server stops,
\* the registry keeps its types and its invariant.
THEOREM JobsCorrect == Spec => []JobInv
<1>1. JobInv /\ [Next]_vars => JobInv'
  BY NextIsJobStep, JobInvStep
<1> QED
  BY <1>1, JobInvInit, PTL DEF Spec

\* Health is not better than the durable registry: what clients have heard under
\* good health is in the database, its rows are the jobs whenever no update is
\* pending, and no event takes a job back (state.rs, JobRegistry::update).
THEOREM HealthIsHonest == Spec => []HealthHonest
<1>1. JobInv => HealthHonest
  BY DEF JobInv
<1> QED
  BY <1>1, JobsCorrect, PTL

-----------------------------------------------------------------------------
(* Restores. *)

\* A restore that has not renamed anything yet has nothing parked.
RestoreInv ==
  /\ JobTypeOK
  /\ \A j \in Restores : worker[j] \in {"none", "spawned", "check", "park"} => parked[j] = Nothing
  /\ RestoreKeeps

\* Steps that neither rename nor make profiles.
LEMMA ElsewhereStep ==
  ASSUME RestoreInv, JobTypeOK', UNCHANGED data,
         \A j \in Restores : /\ worker[j] = "place" <=> worker'[j] = "place"
                             /\ worker'[j] \in {"none", "spawned", "check", "park"} =>
                                  worker[j] \in {"none", "spawned", "check", "park"}
  PROVE  RestoreInv'
BY DEF RestoreInv, RestoreKeeps, data

\* They keep the files of a restore in one of its places.
LEMMA RestoreInvStep ==
  ASSUME RestoreInv, JobTypeOK', JobStep
  PROVE  RestoreInv'
<1> USE JobAssumption DEF RestoreInv
<1>1. ASSUME NEW j \in Job, Enqueue(j) \/ MarkRunning(j) \/ MarkOutcome(j) \/ OtherWorker(j)
      PROVE  RestoreInv'
  <2>1. UNCHANGED data
    BY <1>1 DEF Enqueue, MarkRunning, MarkOutcome, OtherWorker, SetState
  <2>2. \A k \in Restores : /\ worker[k] = "place" <=> worker'[k] = "place"
                            /\ worker'[k] \in {"none", "spawned", "check", "park"} =>
                                  worker[k] \in {"none", "spawned", "check", "park"}
    BY <1>1 DEF Enqueue, MarkRunning, MarkOutcome, OtherWorker, Step, JobTypeOK
  <2> QED
    BY <2>1, <2>2, ElsewhereStep
<1>2. CASE OpenRegistry \/ PersistJob \/ PersistEvent \/ PersistFails \/ Broadcast \/ UNCHANGED jobVars
  <2>1. UNCHANGED data /\ UNCHANGED worker
    BY <1>2 DEF OpenRegistry, PersistJob, PersistEvent, PersistFails, Broadcast, jobVars
  <2> QED
    BY <2>1, ElsewhereStep
<1>3. ASSUME NEW j \in Restores, RestoreCheck(j)
      PROVE  RestoreInv'
  <2>1. UNCHANGED data
    BY <1>3 DEF RestoreCheck
  <2>2. \A k \in Restores : /\ worker[k] = "place" <=> worker'[k] = "place"
                            /\ worker'[k] \in {"none", "spawned", "check", "park"} =>
                                  worker[k] \in {"none", "spawned", "check", "park"}
    BY <1>3 DEF RestoreCheck, Step, JobTypeOK
  <2> QED
    BY <2>1, <2>2, ElsewhereStep
<1>4. ASSUME NEW j \in Restores, NEW p \in Profile, p = Target[j]
      PROVE  RestorePark(j) => RestoreInv'
  <2> SUFFICES ASSUME RestorePark(j) PROVE RestoreInv'
    OBVIOUS
  <2>1. parked[j] = Nothing /\ worker[j] = "park"
    BY DEF RestorePark
  <2>2. CASE worker' = [worker EXCEPT ![j] = "failed"] /\ UNCHANGED <<parked, profiles>>
    <3>1. UNCHANGED data
      BY <2>2 DEF RestorePark, data
    <3>2. \A k \in Restores : /\ worker[k] = "place" <=> worker'[k] = "place"
                              /\ worker'[k] \in {"none", "spawned", "check", "park"} =>
                                  worker[k] \in {"none", "spawned", "check", "park"}
      BY <2>1, <2>2 DEF JobTypeOK
    <3> QED
      BY <3>1, <3>2, ElsewhereStep
  <2>3. CASE /\ worker' = [worker EXCEPT ![j] = "place"]
             /\ parked' = [parked EXCEPT ![j] = profiles[p]]
             /\ profiles' = [profiles EXCEPT ![p] = Nothing]
    <3>1. worker'[j] = "place" /\ \A k \in Restores \ {j} : worker'[k] = worker[k]
      BY <2>3 DEF JobTypeOK
    <3>2. parked'[j] = profiles[p] /\ \A k \in Restores \ {j} : parked'[k] = parked[k]
      BY <2>3 DEF JobTypeOK
    <3>3. profiles'[p] = Nothing /\ \A q \in Profile \ {p} : profiles'[q] = profiles[q]
      BY <2>3 DEF JobTypeOK
    <3>4. held' = held /\ torn' = torn
      BY DEF RestorePark
    <3>5. \A k \in Restores : worker'[k] \in {"none", "spawned", "check", "park"} => parked'[k] = Nothing
      BY <3>1, <3>2
    <3>6. \A c \in {x[2] : x \in held} :
             c \in {profiles'[q] : q \in Profile} \cup {parked'[k] : k \in Restores}
      <4>1. ASSUME NEW c \in {x[2] : x \in held}
            PROVE  c \in {profiles'[q] : q \in Profile} \cup {parked'[k] : k \in Restores}
        <5>1. c # Nothing
          BY <4>1 DEF JobTypeOK, Content
        <5>2. c \in {profiles[q] : q \in Profile} \cup {parked[k] : k \in Restores}
          BY <4>1 DEF RestoreKeeps
        <5>3. ASSUME NEW q \in Profile, c = profiles[q]
              PROVE  c = parked'[j] \/ c = profiles'[q]
          BY <5>3, <3>2, <3>3
        <5>4. ASSUME NEW k \in Restores, c = parked[k]
              PROVE  c = parked'[k]
          BY <5>1, <5>4, <2>1, <3>2
        <5> QED
          BY <5>2, <5>3, <5>4
      <4> QED
        BY <4>1
    <3>7. ASSUME NEW q \in {x[1] : x \in held} \ torn, profiles'[q] = Nothing
          PROVE  \E k \in Restores : worker'[k] = "place" /\ Target[k] = q /\ parked'[k] # Nothing
      <4>1. q \in Profile
        BY <3>7 DEF JobTypeOK
      <4>2. CASE profiles[q] # Nothing
        BY <4>1, <4>2, <3>1, <3>2, <3>3, <3>7, <1>4
      <4>3. CASE profiles[q] = Nothing
        <5>1. PICK k \in Restores : worker[k] = "place" /\ Target[k] = q /\ parked[k] # Nothing
          BY <4>3, <3>7 DEF RestoreKeeps
        <5> QED
          BY <5>1, <2>1, <3>1, <3>2
      <4> QED
        BY <4>2, <4>3
    <3> QED
      BY <3>4, <3>5, <3>6, <3>7 DEF RestoreKeeps
  <2> QED
    BY <1>4, <2>2, <2>3 DEF RestorePark, Step
<1>5. ASSUME NEW p \in Profile, NEW c \in Content, c # Nothing,
             profiles[p] = Nothing, profiles' = [profiles EXCEPT ![p] = c],
             held' = held \cup {<<p, c>>}, UNCHANGED <<parked, torn>>,
             \A k \in Restores : /\ worker'[k] \in {"none", "spawned", "check", "park"} =>
                                      worker[k] \in {"none", "spawned", "check", "park"}
                                 /\ worker[k] = "place" /\ worker'[k] # "place" => Target[k] = p
      PROVE  RestoreInv'
  <2>1. profiles'[p] = c /\ \A q \in Profile \ {p} : profiles'[q] = profiles[q]
    BY <1>5 DEF JobTypeOK
  <2>2. \A y \in {x[2] : x \in held'} :
           y \in {profiles'[q] : q \in Profile} \cup {parked'[k] : k \in Restores}
    <3>1. ASSUME NEW y \in {x[2] : x \in held}
          PROVE  y \in {profiles'[q] : q \in Profile} \cup {parked'[k] : k \in Restores}
      <4>1. y # Nothing
        BY <3>1 DEF JobTypeOK, Content
      <4>2. y \in {profiles[q] : q \in Profile} \cup {parked[k] : k \in Restores}
        BY <3>1 DEF RestoreKeeps
      <4> QED
        BY <4>1, <4>2, <2>1, <1>5
    <3> QED
      BY <3>1, <2>1, <1>5
  <2>3. ASSUME NEW q \in {x[1] : x \in held'} \ torn', profiles'[q] = Nothing
        PROVE  \E k \in Restores : worker'[k] = "place" /\ Target[k] = q /\ parked'[k] # Nothing
    <3>1. q \in {x[1] : x \in held} \ torn /\ q # p /\ q \in Profile /\ profiles[q] = Nothing
      BY <2>1, <2>3, <1>5 DEF JobTypeOK
    <3>2. PICK k \in Restores : worker[k] = "place" /\ Target[k] = q /\ parked[k] # Nothing
      BY <3>1 DEF RestoreKeeps
    <3> QED
      BY <3>1, <3>2, <1>5
  <2> QED
    BY <2>2, <2>3, <1>5 DEF RestoreKeeps
<1>6. ASSUME NEW j \in Restores, RestorePlace(j)
      PROVE  RestoreInv'
  <2>1. PICK l \in {"succeeded", "failed"} : worker' = [worker EXCEPT ![j] = l]
    BY <1>6 DEF RestorePlace, Step
  <2>2. \A k \in Restores : /\ worker'[k] \in {"none", "spawned", "check", "park"} =>
                                      worker[k] \in {"none", "spawned", "check", "park"}
                            /\ worker[k] = "place" /\ worker'[k] # "place" => Target[k] = Target[j]
    BY <2>1 DEF JobTypeOK
  <2>3. j \in Content /\ j # Nothing /\ Target[j] \in Profile
    BY DEF Content
  <2> QED
    BY <1>5, <1>6, <2>2, <2>3 DEF RestorePlace
<1>7. ASSUME NEW p \in Profile, MakeProfile(p)
      PROVE  RestoreInv'
  <2>1. New \in Content /\ New # Nothing
    BY DEF Content
  <2> QED
    BY <1>5, <1>7, <2>1 DEF MakeProfile
<1>8. ASSUME NEW j \in Restores, RestorePlaceFails(j)
      PROVE  RestoreInv'
  <2> DEFINE p == Target[j]
  <2>1. worker'[j] = "failed" /\ \A k \in Restores \ {j} : worker'[k] = worker[k]
    BY <1>8 DEF RestorePlaceFails, Step, JobTypeOK
  <2>2. held' = held /\ torn' = torn
    BY <1>8 DEF RestorePlaceFails
  <2>3. p \in Profile
    OBVIOUS
  <2>4. CASE parked[j] # Nothing /\ profiles[p] = Nothing
    <3>1. profiles'[p] = parked[j] /\ \A q \in Profile \ {p} : profiles'[q] = profiles[q]
      BY <1>8, <2>3, <2>4 DEF RestorePlaceFails, WayBack, JobTypeOK
    <3>2. parked'[j] = Nothing /\ \A k \in Restores \ {j} : parked'[k] = parked[k]
      BY <1>8, <2>4 DEF RestorePlaceFails, WayBack, JobTypeOK
    <3>3. \A y \in {x[2] : x \in held} :
             y \in {profiles'[q] : q \in Profile} \cup {parked'[k] : k \in Restores}
      <4>1. ASSUME NEW y \in {x[2] : x \in held}
            PROVE  y \in {profiles'[q] : q \in Profile} \cup {parked'[k] : k \in Restores}
        <5>1. y # Nothing
          BY <4>1 DEF JobTypeOK, Content
        <5>2. y \in {profiles[q] : q \in Profile} \cup {parked[k] : k \in Restores}
          BY <4>1 DEF RestoreKeeps
        <5>3. ASSUME NEW q \in Profile, y = profiles[q] PROVE y = profiles'[q]
          BY <5>1, <5>3, <2>4, <3>1
        <5>4. ASSUME NEW k \in Restores, y = parked[k] PROVE y = parked'[k] \/ y = profiles'[p]
          BY <5>4, <3>1, <3>2
        <5> QED
          BY <5>2, <5>3, <5>4, <2>3
      <4> QED
        BY <4>1
    <3>4. ASSUME NEW q \in {x[1] : x \in held} \ torn, profiles'[q] = Nothing
          PROVE  \E k \in Restores : worker'[k] = "place" /\ Target[k] = q /\ parked'[k] # Nothing
      <4>1. q # p /\ q \in Profile /\ profiles[q] = Nothing
        BY <3>1, <3>4, <2>4 DEF JobTypeOK
      <4>2. PICK k \in Restores : worker[k] = "place" /\ Target[k] = q /\ parked[k] # Nothing
        BY <4>1, <3>4 DEF RestoreKeeps
      <4> QED
        BY <4>1, <4>2, <2>1, <3>2
    <3> QED
      BY <2>1, <2>2, <3>2, <3>3, <3>4 DEF RestoreKeeps
  <2>5. CASE ~(parked[j] # Nothing /\ profiles[p] = Nothing)
    <3>1. UNCHANGED <<profiles, parked>>
      BY <1>8, <2>5 DEF RestorePlaceFails, WayBack
    <3>2. ASSUME NEW q \in {x[1] : x \in held} \ torn, profiles[q] = Nothing
          PROVE  \E k \in Restores : worker'[k] = "place" /\ Target[k] = q /\ parked[k] # Nothing
      <4>1. PICK k \in Restores : worker[k] = "place" /\ Target[k] = q /\ parked[k] # Nothing
        BY <3>2 DEF RestoreKeeps
      <4>2. k # j
        BY <4>1, <3>2, <2>5
      <4> QED
        BY <4>1, <4>2, <2>1
    <3> QED
      BY <2>1, <2>2, <3>1, <3>2 DEF RestoreKeeps
  <2> QED
    BY <2>4, <2>5
<1>9. ASSUME NEW j \in Restores, RestoreBothFail(j)
       PROVE  RestoreInv'
  <2>1. worker'[j] = "failed" /\ \A k \in Restores \ {j} : worker'[k] = worker[k]
    BY <1>9 DEF RestoreBothFail, Step, JobTypeOK
  <2>2. UNCHANGED <<profiles, parked, held>> /\ torn' = torn \cup {Target[j]}
    BY <1>9 DEF RestoreBothFail
  <2> QED
    BY <2>1, <2>2 DEF RestoreKeeps
<1>10. CASE Stop
  <2>1. UNCHANGED <<profiles, parked, held>>
    BY <1>10 DEF Stop
  <2>2. \A k \in Restores : worker'[k] = IF worker[k] = "none" THEN "none" ELSE "gone"
    BY <1>10 DEF Stop
  <2>3. torn' = torn \cup {Target[j] : j \in {r \in Restores : worker[r] = "place" /\ parked[r] # Nothing}}
    BY <1>10 DEF Stop
  <2> QED
    BY <2>1, <2>2, <2>3 DEF RestoreKeeps
<1> QED
  BY <1>1, <1>2, <1>3, <1>4, <1>6, <1>7, <1>8, <1>9, <1>10 DEF JobStep, Restore

\* A restore never destroys a profile, whichever renames fail or are cut short,
\* and whoever makes profiles beside it (backup.rs, restore_blocking).
THEOREM RestoresKeep == Spec => []RestoreKeeps
<1>1. Init => RestoreInv
  <2> SUFFICES ASSUME InitJobs, JobTypeOK PROVE RestoreInv
    BY JobInvInit DEF Init, JobInv
  <2>1. PICK P \in SUBSET Profile :
           /\ profiles = [p \in Profile |-> IF p \in P THEN p ELSE Nothing]
           /\ held = {<<p, p>> : p \in P}
    BY DEF InitJobs
  <2>2. RestoreKeeps
    BY <2>1, JobAssumption DEF RestoreKeeps
  <2> QED
    BY <2>2 DEF InitJobs, RestoreInv
<1>2. RestoreInv /\ JobInv' /\ [Next]_vars => RestoreInv'
  BY NextIsJobStep, RestoreInvStep DEF JobInv
<1>3. RestoreInv => RestoreKeeps
  BY DEF RestoreInv
<1> QED
  BY <1>1, <1>2, <1>3, JobsCorrect, PTL DEF Spec

-----------------------------------------------------------------------------
(* Stores of sets of spaces, counted. *)

\* The first n numbers are n.
LEMMA FirstNumbers ==
  ASSUME NEW n \in Nat
  PROVE  IsFiniteSet(1..n) /\ Cardinality(1..n) = n
<1>1. /\ IsFiniteSet(1..n)
      /\ Cardinality(1..n) = IF 1 > n THEN 0 ELSE n - 1 + 1
  <2> DEFINE a == 1
  <2>1. a \in Int /\ n \in Int
    OBVIOUS
  <2>2. IsFiniteSet(a..n) /\ Cardinality(a..n) = IF a > n THEN 0 ELSE n - a + 1
    <3> HIDE DEF a
    <3> QED
      BY ONLY <2>1, FS_Interval
  <2> QED
    BY <2>2
<1>2. (IF 1 > n THEN 0 ELSE n - 1 + 1) = n
  OBVIOUS
<1> QED
  BY <1>1, <1>2

\* The spaces that are open have finitely many stores.
LEMMA StoresFinite ==
  ASSUME NEW S \in SUBSET Space, IsFiniteSet(S)
  PROVE  IsFiniteSet(Stores(S)) /\ Domains(S) \in Nat
<1> DEFINE Of(s) == {s} \X (1..DomainCount[s])
           f == [s \in S |-> Of(s)]
           T == {Of(s) : s \in S}
<1>1. f \in Surjection(S, T)
  BY DEF Surjection
<1>2. IsFiniteSet(T)
  BY <1>1, FS_Surjection
<1>3. \A s \in S : IsFiniteSet(Of(s))
  <2> TAKE s \in S
  <2>1. DomainCount[s] \in Nat
    BY RegistryAssumption
  <2>2. IsFiniteSet({s}) /\ IsFiniteSet(1..DomainCount[s])
    BY <2>1, FS_Singleton, FirstNumbers
  <2> QED
    BY <2>2, FS_Product
<1>4. IsFiniteSet(UNION T)
  BY <1>2, <1>3, FS_UNION
<1> QED
  BY <1>4, FS_CardinalityType DEF Stores, Domains

\* The stores of one space are as many as its domains, and of disjoint sets of
\* spaces they are counted apart.
LEMMA DomainsOne ==
  ASSUME NEW s \in Space
  PROVE  Domains({s}) = DomainCount[s]
<1>1. DomainCount[s] \in Nat
  BY RegistryAssumption
<1>2. /\ IsFiniteSet({s}) /\ Cardinality({s}) = 1
      /\ IsFiniteSet(1..DomainCount[s]) /\ Cardinality(1..DomainCount[s]) = DomainCount[s]
  BY <1>1, FS_Singleton, FirstNumbers
<1>3. Cardinality({s} \X (1..DomainCount[s])) = 1 * DomainCount[s]
  BY <1>2, FS_Product, ZenonT(30)
<1>4. Stores({s}) = {s} \X (1..DomainCount[s])
  BY DEF Stores
<1> QED
  BY <1>1, <1>3, <1>4 DEF Domains

\* Spaces that are counted apart add up.
LEMMA DomainsApart ==
  ASSUME NEW S \in SUBSET Space, NEW T \in SUBSET Space, IsFiniteSet(S), IsFiniteSet(T),
         S \cap T = {}
  PROVE  Domains(S \cup T) = Domains(S) + Domains(T)
<1>1. Stores(S \cup T) = Stores(S) \cup Stores(T)
  BY DEF Stores
<1>2. Stores(S) \cap Stores(T) = {}
  <2>1. \A e \in Stores(S) : e[1] \in S
    BY DEF Stores
  <2>2. \A e \in Stores(T) : e[1] \in T
    BY DEF Stores
  <2> QED
    BY <2>1, <2>2
<1>3. IsFiniteSet(Stores(S)) /\ IsFiniteSet(Stores(T)) /\ Domains(S) \in Nat /\ Domains(T) \in Nat
  BY StoresFinite
<1>4. Cardinality(Stores(S) \cup Stores(T))
        = Cardinality(Stores(S)) + Cardinality(Stores(T)) - Cardinality(Stores(S) \cap Stores(T))
  BY <1>3, FS_Union
<1>5. Cardinality(Stores(S) \cap Stores(T)) = 0
  BY <1>2, FS_EmptySet
<1>6. Domains(S \cup T) = Domains(S) + Domains(T) - 0
  BY ONLY <1>1, <1>4, <1>5 DEF Domains
<1> QED
  BY ONLY <1>3, <1>6

\* What an eviction leaves, and what it takes, add up.
LEMMA DomainsLeft ==
  ASSUME NEW S \in SUBSET Space, IsFiniteSet(S), NEW T \in SUBSET S
  PROVE  /\ IsFiniteSet(S \ T) /\ IsFiniteSet(T)
         /\ Domains(S \ T) = Domains(S) - Domains(T)
         /\ Domains(S) \in Nat /\ Domains(T) \in Nat /\ Domains(S \ T) \in Nat
<1>1. IsFiniteSet(S \ T) /\ IsFiniteSet(T)
  BY FS_Subset
<1>2. (S \ T) \cup T = S /\ (S \ T) \cap T = {}
  OBVIOUS
<1>3. Domains(S) = Domains(S \ T) + Domains(T)
  BY <1>1, <1>2, DomainsApart
<1>4. Domains(S) \in Nat /\ Domains(T) \in Nat /\ Domains(S \ T) \in Nat
  BY <1>1, StoresFinite
<1> QED
  BY <1>1, <1>3, <1>4

\* And so does what an opening adds.
LEMMA DomainsMore ==
  ASSUME NEW S \in SUBSET Space, IsFiniteSet(S), NEW s \in Space \ S
  PROVE  /\ IsFiniteSet(S \cup {s})
         /\ Domains(S \cup {s}) = Domains(S) + DomainCount[s]
         /\ Cardinality(S \cup {s}) = Cardinality(S) + 1
<1>1. IsFiniteSet({s}) /\ S \cap {s} = {}
  BY FS_Singleton
<1>2. Domains(S \cup {s}) = Domains(S) + Domains({s})
  BY <1>1, DomainsApart
<1> QED
  BY <1>2, DomainsOne, FS_AddElement

-----------------------------------------------------------------------------
(* What a step of the daemon does to its spaces. *)

\* A step of Daemon is one of these for the spaces, whatever the jobs do.
SpaceStep ==
  \/ \E t \in Thread : Catalog(t) /\ UNCHANGED registryVars
  \/ \E t \in Thread : Registry(t)
  \/ \E p \in Process : Crash(p)
  \/ UNCHANGED <<disk, pc, at, id, registryVars>>

\* Every disjunct of Next is accounted for.
LEMMA NextIsSpaceStep == [Next]_vars => SpaceStep
BY DEF Next, vars, catalogVars, Spaces, SpaceStep

-----------------------------------------------------------------------------
(* The inductive invariant of the catalog. *)

\* The id of a space: that of the file for the personal space, and for a managed
\* space the one its root was made with.
NameOf(s) == IF s = Legacy THEN idFile ELSE s

\* What a call knows at each of its steps.
CallInv ==
  \A t \in Thread :
    /\ pc[t] \in {"create", "write"} =>
         at[t] = Legacy /\ id[t] \in Id
    /\ pc[t] = "write" \/ (pc[t] = "create" /\ idFile = None) =>
         bound[Legacy] \in {None, id[t]}
    /\ pc[t] \in {"find", "insert", "manifest", "open", "activate"} =>
         id[t] = NameOf(at[t]) /\ (at[t] = Legacy => id[t] \in Id)
    /\ pc[t] \in {"find", "manifest"} => at[t] = Legacy
    /\ pc[t] = "insert" /\ at[t] # Legacy => manifest[at[t]] = at[t]
    /\ pc[t] \in {"manifest", "open", "activate"} => row[at[t]] # None
    /\ pc[t] \in {"open", "activate"} => manifest[at[t]] = id[t]
    /\ pc[t] = "activate" => bound[at[t]] = id[t]
\* One thread writes the file, and until it has there is neither row nor manifest.
WriterInv ==
  /\ \A t \in Thread : pc[t] = "write" => idFile = Torn
  /\ \A t, u \in Thread : pc[t] = "write" /\ pc[u] = "write" => t = u
  /\ idFile \notin Id => row[Legacy] = None /\ manifest[Legacy] = None
\* The places that name a space name it so.
PlacesInv ==
  /\ bound[Legacy] \in Id \cup {None}
  /\ \A s \in Space :
       /\ manifest[s] \in {None, NameOf(s)}
       /\ row[s] # None => row[s].id = NameOf(s)
       /\ bound[s] \in {None, NameOf(s)} \/ (s = Legacy /\ idFile \notin Id)
       /\ Active(s) => manifest[s] = NameOf(s) /\ bound[s] = NameOf(s)
CatalogInv == CallInv /\ WriterInv /\ PlacesInv

-----------------------------------------------------------------------------
(* The inductive invariant of the registry. *)

\* A space is maintained by one thread of a process at a time, and everything
\* that is counted is finite.
SoleMaintainer ==
  \A p \in Process, t, u \in Thread :
    t \in Maintainers(p) /\ u \in Maintainers(p) /\ at[t] = at[u] => t = u
Counted ==
  \A p \in Process : IsFiniteSet(runtimes[p]) /\ \A s \in Space : IsFiniteSet(Leasers(p, s))
RegistryInv ==
  /\ Counted /\ ResidentWhileLeased /\ AloneInMaintenance /\ WithinBudget
  /\ GateOwned /\ SoleMaintainer
-----------------------------------------------------------------------------
(* The catalog. *)

\* The two halves of SpaceTypeOK.
CatalogTypeOK ==
  /\ idFile \in Id \cup {None, Torn}
  /\ row \in [Space -> Row \cup {None}]
  /\ manifest \in [Space -> Id \cup Space \cup {None}] /\ bound \in [Space -> Id \cup Space \cup {None}]
  /\ at \in [Thread -> Space] /\ id \in [Thread -> Id \cup Space \cup {None}]
  /\ pc \in [Thread -> BindingStep \cup {"idle", "leased", "dropping", "lock", "exclusive", "reopen"}]
RegistryTypeOK ==
  /\ runtimes \in [Process -> SUBSET Space] /\ closing \in [Process -> SUBSET Space]
  /\ leases \in [Process -> [Space -> Nat]] /\ openDomains \in [Process -> Nat]
  /\ lastUsed \in [Process -> SUBSET (Space \X Space)]
  /\ exclusive \in [Space -> Thread \cup {None}]
\* The types of the catalog and of the registry.
LEMMA TwoTypes == SpaceTypeOK <=> CatalogTypeOK /\ RegistryTypeOK
BY DEF SpaceTypeOK, CatalogTypeOK, RegistryTypeOK

\* A step of a binding keeps the catalog's types and its invariant.
LEMMA BindingStepKeeps ==
  ASSUME CatalogTypeOK, CatalogInv, NEW t \in Thread, Catalog(t)
  PROVE  CatalogTypeOK' /\ CatalogInv'
<1> USE CatalogAssumption, RowAssumption DEF BindingStep, Goto, Begin, disk
<1>1. CASE ReadId(t)
  <2>1. CatalogTypeOK'
    BY <1>1 DEF ReadId, CatalogTypeOK, CatalogInv, CallInv, WriterInv, PlacesInv, NameOf, Row, State
  <2>2. CallInv'
    BY <1>1 DEF ReadId, CatalogTypeOK, CatalogInv, CallInv, WriterInv, PlacesInv, NameOf, Row
  <2>3. WriterInv'
    BY <1>1 DEF ReadId, CatalogTypeOK, CatalogInv, CallInv, WriterInv, PlacesInv, NameOf
  <2>4. PlacesInv'
    BY <1>1 DEF ReadId, CatalogTypeOK, CatalogInv, CallInv, WriterInv, PlacesInv, NameOf, Active, Row
  <2> QED
    BY <2>1, <2>2, <2>3, <2>4 DEF CatalogInv
<1>2. CASE CreateId(t)
  <2>1. CatalogTypeOK'
    BY <1>2 DEF CreateId, MayCreate, CatalogTypeOK, CatalogInv, CallInv, WriterInv, PlacesInv, NameOf, Row, State
  <2>2. CallInv'
    BY <1>2 DEF CreateId, MayCreate, CatalogTypeOK, CatalogInv, CallInv, WriterInv, PlacesInv, NameOf, Row
  <2>3. WriterInv'
    BY <1>2 DEF CreateId, MayCreate, CatalogTypeOK, CatalogInv, CallInv, WriterInv, PlacesInv, NameOf
  <2>4. PlacesInv'
    BY <1>2 DEF CreateId, MayCreate, CatalogTypeOK, CatalogInv, CallInv, WriterInv, PlacesInv, NameOf, Active, Row
  <2> QED
    BY <2>1, <2>2, <2>3, <2>4 DEF CatalogInv
<1>3. CASE WriteId(t)
  <2>1. CatalogTypeOK'
    BY <1>3 DEF WriteId, CatalogTypeOK, CatalogInv, CallInv, WriterInv, PlacesInv, NameOf, Row, State
  <2>2. CallInv'
    BY <1>3 DEF WriteId, CatalogTypeOK, CatalogInv, CallInv, WriterInv, PlacesInv, NameOf, Row
  <2>3. WriterInv'
    BY <1>3 DEF WriteId, CatalogTypeOK, CatalogInv, CallInv, WriterInv, PlacesInv, NameOf
  <2>4. PlacesInv'
    BY <1>3 DEF WriteId, CatalogTypeOK, CatalogInv, CallInv, WriterInv, PlacesInv, NameOf, Active, Row
  <2> QED
    BY <2>1, <2>2, <2>3, <2>4 DEF CatalogInv
<1>4. CASE FindRow(t)
  <2>1. CatalogTypeOK'
    BY <1>4 DEF FindRow, CatalogTypeOK, CatalogInv, CallInv, WriterInv, PlacesInv, NameOf, Row, State
  <2>2. CallInv'
    BY <1>4 DEF FindRow, CatalogTypeOK, CatalogInv, CallInv, WriterInv, PlacesInv, NameOf, Row
  <2>3. WriterInv'
    BY <1>4 DEF FindRow, CatalogTypeOK, CatalogInv, CallInv, WriterInv, PlacesInv, NameOf
  <2>4. PlacesInv'
    BY <1>4 DEF FindRow, CatalogTypeOK, CatalogInv, CallInv, WriterInv, PlacesInv, NameOf, Active, Row
  <2> QED
    BY <2>1, <2>2, <2>3, <2>4 DEF CatalogInv
<1>5. CASE CreateManaged(t)
  <2>1. CatalogTypeOK'
    BY <1>5 DEF CreateManaged, CatalogTypeOK, CatalogInv, CallInv, WriterInv, PlacesInv, NameOf, Row, State
  <2>2. CallInv'
    BY <1>5 DEF CreateManaged, CatalogTypeOK, CatalogInv, CallInv, WriterInv, PlacesInv, NameOf, Row
  <2>3. WriterInv'
    BY <1>5 DEF CreateManaged, CatalogTypeOK, CatalogInv, CallInv, WriterInv, PlacesInv, NameOf
  <2>4. PlacesInv'
    BY <1>5 DEF CreateManaged, CatalogTypeOK, CatalogInv, CallInv, WriterInv, PlacesInv, NameOf, Active, Row
  <2> QED
    BY <2>1, <2>2, <2>3, <2>4 DEF CatalogInv
<1>6. CASE InsertRow(t)
  <2>1. CatalogTypeOK'
    BY <1>6 DEF InsertRow, CatalogTypeOK, CatalogInv, CallInv, WriterInv, PlacesInv, NameOf, Row, State
  <2>5. id[t] \in Id \cup Space
    BY <1>6 DEF InsertRow, CatalogTypeOK, CatalogInv, CallInv, NameOf
  <2>6. [id |-> id[t], state |-> "creating"] # None
    BY <2>5 DEF Row, State
  <2>7. row[at[t]] = None => row'[at[t]] # None
    BY <1>6, <2>6 DEF InsertRow, CatalogTypeOK
  <2>8. \A s \in Space \ {at[t]} : row'[s] = row[s]
    BY <1>6 DEF InsertRow, CatalogTypeOK
  <2>9. /\ UNCHANGED <<idFile, manifest, bound, at, id>> /\ pc[t] = "insert"
        /\ \A u \in Thread \ {t} : pc'[u] = pc[u]
        /\ pc'[t] \in {"manifest", "open", "idle"}
        /\ pc'[t] = "manifest" => at[t] = Legacy /\ row[at[t]] = None
        /\ pc'[t] = "open" => at[t] # Legacy /\ row[at[t]] = None
    BY <1>6 DEF InsertRow, CatalogTypeOK
  <2>2. CallInv'
    <3>1. \A s \in Space : row[s] # None => row'[s] # None
      BY <2>7, <2>8, <1>6 DEF InsertRow
    <3> QED
      BY <2>7, <2>9, <3>1 DEF CatalogTypeOK, CatalogInv, CallInv, NameOf
  <2>3. WriterInv'
    BY <1>6 DEF InsertRow, CatalogTypeOK, CatalogInv, CallInv, WriterInv, PlacesInv, NameOf
  <2>4. PlacesInv'
    BY <1>6 DEF InsertRow, CatalogTypeOK, CatalogInv, CallInv, WriterInv, PlacesInv, NameOf, Active, Row
  <2> QED
    BY <2>1, <2>2, <2>3, <2>4 DEF CatalogInv
<1>7. CASE CheckManifest(t)
  <2>1. CatalogTypeOK'
    BY <1>7 DEF CheckManifest, CatalogTypeOK, CatalogInv, CallInv, WriterInv, PlacesInv, NameOf, Row, State
  <2>2. CallInv'
    BY <1>7 DEF CheckManifest, CatalogTypeOK, CatalogInv, CallInv, WriterInv, PlacesInv, NameOf, Row
  <2>3. WriterInv'
    BY <1>7 DEF CheckManifest, CatalogTypeOK, CatalogInv, CallInv, WriterInv, PlacesInv, NameOf
  <2>4. PlacesInv'
    BY <1>7 DEF CheckManifest, CatalogTypeOK, CatalogInv, CallInv, WriterInv, PlacesInv, NameOf, Active, Row
  <2> QED
    BY <2>1, <2>2, <2>3, <2>4 DEF CatalogInv
<1>8. CASE BindStore(t)
  <2>1. CatalogTypeOK'
    BY <1>8 DEF BindStore, CatalogTypeOK, CatalogInv, CallInv, WriterInv, PlacesInv, NameOf, Row, State
  <2>2. CallInv'
    BY <1>8 DEF BindStore, CatalogTypeOK, CatalogInv, CallInv, WriterInv, PlacesInv, NameOf, Row
  <2>3. WriterInv'
    BY <1>8 DEF BindStore, CatalogTypeOK, CatalogInv, CallInv, WriterInv, PlacesInv, NameOf
  <2>4. PlacesInv'
    BY <1>8 DEF BindStore, CatalogTypeOK, CatalogInv, CallInv, WriterInv, PlacesInv, NameOf, Active, Row
  <2> QED
    BY <2>1, <2>2, <2>3, <2>4 DEF CatalogInv
<1>9. CASE ActivateSpace(t)
  <2>1. CatalogTypeOK'
    BY <1>9 DEF ActivateSpace, CatalogTypeOK, CatalogInv, CallInv, WriterInv, PlacesInv, NameOf, Row, State
  <2>5. row[at[t]] \in Row
    BY <1>9 DEF ActivateSpace, CatalogTypeOK, CatalogInv, CallInv
  <2>6. [row[at[t]] EXCEPT !.state = "active"] \in Row
    BY <2>5 DEF Row, State
  <2>7. row' = [row EXCEPT ![at[t]] = [row[at[t]] EXCEPT !.state = "active"]]
    BY <1>9 DEF ActivateSpace
  <2>8. \A s \in Space : row[s] # None => row'[s] # None
    BY <2>6, <2>7 DEF CatalogTypeOK
  <2>9. /\ UNCHANGED <<idFile, manifest, bound, at, id>>
        /\ \A u \in Thread \ {t} : pc'[u] = pc[u]
        /\ pc'[t] = "idle"
    BY <1>9 DEF ActivateSpace, CatalogTypeOK
  <2>2. CallInv'
    BY <2>8, <2>9 DEF CatalogTypeOK, CatalogInv, CallInv, NameOf
  <2>3. WriterInv'
    BY <1>9 DEF ActivateSpace, CatalogTypeOK, CatalogInv, CallInv, WriterInv, PlacesInv, NameOf
  <2>4. PlacesInv'
    BY <1>9 DEF ActivateSpace, CatalogTypeOK, CatalogInv, CallInv, WriterInv, PlacesInv, NameOf, Active, Row
  <2> QED
    BY <2>1, <2>2, <2>3, <2>4 DEF CatalogInv
<1>10. CASE BindFails(t)
  <2>1. CatalogTypeOK'
    BY <1>10 DEF BindFails, CatalogTypeOK, CatalogInv, CallInv, WriterInv, PlacesInv, NameOf, Row, State
  <2>2. CallInv'
    BY <1>10 DEF BindFails, CatalogTypeOK, CatalogInv, CallInv, WriterInv, PlacesInv, NameOf, Row
  <2>3. WriterInv'
    BY <1>10 DEF BindFails, CatalogTypeOK, CatalogInv, CallInv, WriterInv, PlacesInv, NameOf
  <2>4. PlacesInv'
    BY <1>10 DEF BindFails, CatalogTypeOK, CatalogInv, CallInv, WriterInv, PlacesInv, NameOf, Active, Row
  <2> QED
    BY <2>1, <2>2, <2>3, <2>4 DEF CatalogInv
<1> QED
  BY <1>1, <1>2, <1>3, <1>4, <1>5, <1>6, <1>7, <1>8, <1>9, <1>10 DEF Catalog

\* A step of t: the other threads stay where they are.
OthersStay(t) == \A u \in Thread \ {t} : pc'[u] = pc[u] /\ at'[u] = at[u]
Outside       == {"idle", "leased", "dropping", "lock", "exclusive", "reopen"}

\* The registry is no part of a binding and writes none of the four places.
LEMMA RegistryFrame ==
  ASSUME CatalogTypeOK, RegistryTypeOK, NEW t \in Thread, Registry(t)
  PROVE  /\ UNCHANGED <<disk, id>> /\ OthersStay(t)
         /\ pc[t] \in Outside /\ pc'[t] \in Outside
         /\ CatalogTypeOK'
<1> DEFINE p == ProcessOf[t]
<1>1. p \in Process
  BY CatalogAssumption
<1> USE DEF Goto, Begin, Answer, Outside, OthersStay, CatalogTypeOK
<1>2. CASE AcquireOpen(t)
  BY <1>1, <1>2 DEF AcquireOpen, RegistryTypeOK, disk
<1>3. CASE AcquireNew(t)
  BY <1>1, <1>3 DEF AcquireNew, disk
<1>4. CASE AcquireFails(t)
  BY <1>1, <1>4 DEF AcquireFails, disk
<1>5. CASE GiveBack(t)
  BY <1>1, <1>5 DEF GiveBack, disk
<1>6. CASE DropRuntime(t)
  BY <1>1, <1>6 DEF DropRuntime, disk
<1>7. CASE CloseForMaintenance(t)
  BY <1>1, <1>7 DEF CloseForMaintenance, disk
<1>8. CASE LockExclusive(t)
  BY <1>1, <1>8 DEF LockExclusive, disk
<1>9. CASE Unlock(t)
  BY <1>1, <1>9 DEF Unlock, disk
<1>10. CASE Reopen(t)
  BY <1>1, <1>10 DEF Reopen, disk
<1> QED
  BY <1>2, <1>3, <1>4, <1>5, <1>6, <1>7, <1>8, <1>9, <1>10 DEF Registry

\* Every step keeps the catalog's types and its invariant.
LEMMA CatalogStep ==
  ASSUME CatalogTypeOK, RegistryTypeOK, CatalogInv, SpaceStep
  PROVE  CatalogTypeOK' /\ CatalogInv'
<1>1. ASSUME NEW t \in Thread, Registry(t)
      PROVE  CatalogTypeOK' /\ CatalogInv'
  <2>1. /\ UNCHANGED <<disk, id>> /\ OthersStay(t)
        /\ pc[t] \in Outside /\ pc'[t] \in Outside
        /\ CatalogTypeOK'
    BY <1>1, RegistryFrame
  <2>2. CallInv' /\ WriterInv'
    BY <2>1 DEF CatalogInv, CallInv, WriterInv, NameOf, disk, Outside, OthersStay
  <2>3. PlacesInv'
    BY <2>1 DEF CatalogInv, PlacesInv, NameOf, Active, disk
  <2> QED
    BY <2>1, <2>2, <2>3 DEF CatalogInv
<1>2. ASSUME NEW p \in Process, Crash(p)
      PROVE  CatalogTypeOK' /\ CatalogInv'
  <2>1. /\ UNCHANGED <<disk, at, id>>
        /\ \A u \in Thread : pc'[u] \in {pc[u], "idle"}
        /\ CatalogTypeOK'
    BY <1>2 DEF Crash, CatalogTypeOK, disk
  <2>2. CallInv' /\ WriterInv'
    BY <2>1 DEF CatalogInv, CallInv, WriterInv, NameOf, disk
  <2>3. PlacesInv'
    BY <2>1 DEF CatalogInv, PlacesInv, NameOf, Active, disk
  <2> QED
    BY <2>1, <2>2, <2>3 DEF CatalogInv
<1>3. CASE UNCHANGED <<disk, pc, at, id, registryVars>>
  BY <1>3 DEF CatalogTypeOK, CatalogInv, CallInv, WriterInv, PlacesInv, NameOf, Active, disk
<1> QED
  BY <1>1, <1>2, <1>3, BindingStepKeeps DEF SpaceStep

\* At the start only the store of the personal space may have an id.
LEMMA CatalogInit == InitCatalog => CatalogTypeOK /\ CatalogInv
<1> SUFFICES ASSUME InitCatalog PROVE CatalogTypeOK /\ CatalogInv
  OBVIOUS
<1>1. PICK x \in {None} \cup Id : bound = [s \in Space |-> IF s = Legacy THEN x ELSE None]
  BY DEF InitCatalog
<1>2. CatalogTypeOK
  BY <1>1, CatalogAssumption DEF InitCatalog, CatalogTypeOK
<1>3. CatalogInv
  BY <1>1, CatalogAssumption
     DEF InitCatalog, CatalogInv, CallInv, WriterInv, PlacesInv, NameOf, Active
<1> QED
  BY <1>2, <1>3

\* The invariant bounds the names of a space.
LEMMA NamesAgree == CatalogTypeOK /\ CatalogInv => OneIdentity
<1> SUFFICES ASSUME CatalogTypeOK, CatalogInv, NEW s \in Space
             PROVE  /\ Cardinality(Names(s)) <= 1
                    /\ Active(s) => manifest[s] = row[s].id /\ bound[s] = row[s].id
  BY DEF OneIdentity
<1>1. \E x : Names(s) \subseteq {x}
  <2>1. CASE s = Legacy /\ idFile \notin Id
    <3>1. Names(s) \subseteq {bound[s]}
      BY <2>1, CatalogAssumption DEF CatalogTypeOK, CatalogInv, WriterInv, PlacesInv, Names
    <3> QED
      BY <3>1
  <2>2. CASE ~(s = Legacy /\ idFile \notin Id)
    <3>1. Names(s) \subseteq {NameOf(s)}
      BY <2>2, CatalogAssumption DEF CatalogTypeOK, CatalogInv, PlacesInv, Names, NameOf
    <3> QED
      BY <3>1
  <2> QED
    BY <2>1, <2>2
<1>2. Cardinality(Names(s)) <= 1
  <2>1. PICK x : Names(s) \subseteq {x}
    BY <1>1
  <2>2. IsFiniteSet({x}) /\ Cardinality({x}) = 1
    BY FS_Singleton
  <2> QED
    BY <2>1, <2>2, FS_Subset
<1>3. Active(s) => manifest[s] = row[s].id /\ bound[s] = row[s].id
  BY DEF CatalogInv, PlacesInv, Active
<1> QED
  BY <1>2, <1>3

-----------------------------------------------------------------------------
(* The registry: what a step of one thread leaves as it is. *)

Maintaining == {"lock", "exclusive", "reopen"}

\* The ticks that an eviction drops, and the ones that an opening adds.
LEMMA UsedAfter ==
  ASSUME RegistryTypeOK, NEW p \in Process, NEW out
  PROVE  /\ Without(p, out) \in SUBSET (Space \X Space)
         /\ lastUsed'[p] = Without(p, out) => Used(p)' = Used(p) \ out
BY DEF RegistryTypeOK, Used, Without
\* Opening a space costs its domains.
LEMMA UsedOpened ==
  ASSUME RegistryTypeOK, NEW p \in Process, NEW out, NEW s \in Space,
         lastUsed'[p] = Without(p, out) \cup Latest(Used(p) \ out, s)
  PROVE  /\ lastUsed'[p] \in SUBSET (Space \X Space)
         /\ Used(p)' = (Used(p) \ out) \cup {s}
BY DEF RegistryTypeOK, Used, Without, Latest

\* A lease in place moves a space to the end.
LEMMA UsedTouched ==
  ASSUME RegistryTypeOK, NEW p \in Process, NEW s \in Space, lastUsed'[p] = Touch(p, s)
  PROVE  /\ Touch(p, s) \in SUBSET (Space \X Space)
         /\ Used(p)' = Used(p) \cup {s}
BY DEF RegistryTypeOK, Touch, Used, Without, Latest

\* Threads with a lease, when one thread moves.
LEMMA LeasersStay ==
  ASSUME NEW t \in Thread, OthersStay(t), pc[t] # "leased", pc'[t] # "leased"
  PROVE  \A p \in Process, s \in Space : Leasers(p, s)' = Leasers(p, s)
BY DEF OthersStay, Leasers
\* A lease that is taken, and one that is given back, change the leasers of their
\* space only.
LEMMA LeaserJoins ==
  ASSUME NEW t \in Thread, NEW s \in Space, OthersStay(t),
         pc[t] # "leased", pc'[t] = "leased", at'[t] = s
  PROVE  /\ t \notin Leasers(ProcessOf[t], s)
         /\ Leasers(ProcessOf[t], s)' = Leasers(ProcessOf[t], s) \cup {t}
         /\ \A p \in Process, x \in Space :
              p # ProcessOf[t] \/ x # s => Leasers(p, x)' = Leasers(p, x)
BY DEF OthersStay, Leasers
\* The same for a lease that ends.
LEMMA LeaserLeaves ==
  ASSUME NEW t \in Thread, NEW s \in Space, OthersStay(t),
         pc[t] = "leased", pc'[t] # "leased", at[t] = s
  PROVE  /\ t \in Leasers(ProcessOf[t], s)
         /\ Leasers(ProcessOf[t], s)' = Leasers(ProcessOf[t], s) \ {t}
         /\ \A p \in Process, x \in Space :
              p # ProcessOf[t] \/ x # s => Leasers(p, x)' = Leasers(p, x)
BY DEF OthersStay, Leasers

\* A thread that neither starts nor ends maintenance leaves the gates alone.
LEMMA GateStays ==
  ASSUME GateOwned, SoleMaintainer, NEW t \in Thread, OthersStay(t), UNCHANGED closing,
         pc[t] \in Maintaining <=> pc'[t] \in Maintaining,
         pc[t] \in Maintaining => at'[t] = at[t]
  PROVE  GateOwned' /\ SoleMaintainer'
<1>1. ASSUME NEW p \in Process PROVE Maintainers(p)' = Maintainers(p)
  BY DEF OthersStay, Maintainers, Maintaining
<1>2. \A p \in Process : \A u \in Maintainers(p) : at'[u] = at[u]
  BY DEF OthersStay, Maintainers, Maintaining
<1> QED
  BY <1>1, <1>2 DEF GateOwned, SoleMaintainer

\* A step that revives no locked space leaves whoever has a lock alone with it.
LEMMA AloneStays ==
  ASSUME AloneInMaintenance, UNCHANGED exclusive,
         \A u \in Thread : pc'[u] = "exclusive" => pc[u] = "exclusive" /\ at'[u] = at[u],
         \A p \in Process, s \in Space : exclusive[s] # None /\ Lives(p, s)' => Lives(p, s)
  PROVE  AloneInMaintenance'
<1>1. ASSUME NEW s \in Space, exclusive'[s] # None PROVE SharedBy(s)' = {}
  BY <1>1 DEF AloneInMaintenance, SharedBy
<1> QED
  BY <1>1 DEF AloneInMaintenance

\* The budget and the counters, when no runtime opens or closes.
LEMMA BudgetStays ==
  ASSUME WithinBudget, UNCHANGED <<runtimes, openDomains>>,
         \A p \in Process : Used(p)' = Used(p)
  PROVE  WithinBudget'
BY DEF WithinBudget

\* A thread outside of the registry disturbs nothing in it.
LEMMA RegistryQuiet ==
  ASSUME RegistryTypeOK, RegistryInv, UNCHANGED registryVars, NEW t \in Thread, OthersStay(t),
         {pc[t], pc'[t]} \subseteq BindingStep \cup {"idle"}
  PROVE  RegistryTypeOK' /\ RegistryInv'
<1> USE DEF registryVars, RegistryInv
<1>0. /\ pc[t] \notin {"leased", "dropping"} \cup Maintaining
      /\ pc'[t] \notin {"leased", "dropping"} \cup Maintaining
  BY DEF BindingStep, Maintaining
<1>1. RegistryTypeOK'
  BY DEF RegistryTypeOK
<1>2. Counted' /\ ResidentWhileLeased'
  BY <1>0, LeasersStay DEF Counted, ResidentWhileLeased
<1>3. GateOwned' /\ SoleMaintainer'
  BY <1>0, GateStays
<1>4. AloneInMaintenance'
  BY <1>0, AloneStays DEF OthersStay, Maintaining, Lives, Holds
<1>5. WithinBudget'
  BY BudgetStays DEF Used
<1> QED
  BY <1>1, <1>2, <1>3, <1>4, <1>5

-----------------------------------------------------------------------------
(* The registry: its steps. *)

\* A lease of a resident runtime.
LEMMA AcquireOpenKeeps ==
  ASSUME CatalogTypeOK, RegistryTypeOK, RegistryInv, NEW t \in Thread, AcquireOpen(t)
  PROVE  RegistryTypeOK' /\ RegistryInv'
<1> USE DEF RegistryInv
<1>1. PICK p \in Process : p = ProcessOf[t]
  BY CatalogAssumption
<1>2. PICK s \in runtimes[p] \ closing[p] :
        /\ pc[t] = "idle" /\ pc' = [pc EXCEPT ![t] = "leased"] /\ at' = [at EXCEPT ![t] = s]
        /\ leases' = [leases EXCEPT ![p][s] = @ + 1]
        /\ lastUsed' = [lastUsed EXCEPT ![p] = Touch(p, s)]
        /\ UNCHANGED <<runtimes, openDomains, closing, exclusive>>
  BY <1>1 DEF AcquireOpen, Answer, Begin, Goto
<1>3. s \in Space /\ pc'[t] = "leased" /\ at'[t] = s /\ OthersStay(t)
  BY <1>1, <1>2 DEF CatalogTypeOK, RegistryTypeOK, OthersStay
<1>4. /\ lastUsed'[p] = Touch(p, s) /\ \A q \in Process \ {p} : lastUsed'[q] = lastUsed[q]
      /\ leases'[p][s] = leases[p][s] + 1
      /\ \A q \in Process, x \in Space : q # p \/ x # s => leases'[q][x] = leases[q][x]
  BY <1>1, <1>2, <1>3 DEF RegistryTypeOK
<1>5. RegistryTypeOK'
  <2>1. lastUsed' \in [Process -> SUBSET (Space \X Space)]
    BY <1>1, <1>2, <1>3, <1>4, UsedTouched DEF RegistryTypeOK
  <2>2. leases' \in [Process -> [Space -> Nat]]
    BY <1>1, <1>2, <1>3 DEF RegistryTypeOK
  <2> QED
    BY <1>2, <2>1, <2>2 DEF RegistryTypeOK
<1>6. Counted' /\ ResidentWhileLeased'
  <2>1. /\ t \notin Leasers(p, s) /\ Leasers(p, s)' = Leasers(p, s) \cup {t}
        /\ \A q \in Process, x \in Space : q # p \/ x # s => Leasers(q, x)' = Leasers(q, x)
    BY <1>1, <1>2, <1>3, LeaserJoins
  <2>2. /\ IsFiniteSet(Leasers(p, s) \cup {t})
        /\ Cardinality(Leasers(p, s) \cup {t}) = Cardinality(Leasers(p, s)) + 1
    BY <1>1, <1>3, <2>1, FS_AddElement DEF Counted
  <2>3. Counted'
    BY <1>2, <2>1, <2>2 DEF Counted
  <2>4. ASSUME NEW q \in Process, NEW x \in Space
        PROVE  /\ leases'[q][x] = Cardinality(Leasers(q, x)')
               /\ Leasers(q, x)' # {} => x \in runtimes'[q] \ closing'[q]
    <3>1. CASE q = p /\ x = s
      BY <1>1, <1>2, <1>3, <1>4, <2>1, <2>2, <3>1 DEF ResidentWhileLeased
    <3>2. CASE q # p \/ x # s
      BY <1>2, <1>4, <2>1, <3>2 DEF ResidentWhileLeased
    <3> QED
      BY <3>1, <3>2
  <2> QED
    BY <2>3, <2>4 DEF ResidentWhileLeased
<1>7. GateOwned' /\ SoleMaintainer'
  BY <1>2, <1>3, GateStays DEF Maintaining
<1>8. AloneInMaintenance'
  <2>1. ASSUME NEW q \in Process, NEW x \in Space, Lives(q, x)' PROVE Lives(q, x)
    BY <1>1, <1>2, <1>3, <2>1 DEF Lives, Holds, OthersStay
  <2>2. \A u \in Thread : pc'[u] = "exclusive" => pc[u] = "exclusive" /\ at'[u] = at[u]
    BY <1>3 DEF OthersStay
  <2> QED
    BY <1>2, <2>1, <2>2, AloneStays
<1>9. WithinBudget'
  <2>1. Used(p)' = Used(p)
    <3>1. Used(p)' = Used(p) \cup {s}
      BY <1>1, <1>3, <1>4, UsedTouched
    <3>2. Used(p) = runtimes[p]
      BY <1>1 DEF WithinBudget
    <3> QED
      BY <1>2, <3>1, <3>2
  <2>2. \A q \in Process \ {p} : Used(q)' = Used(q)
    BY <1>4 DEF Used
  <2> QED
    BY <1>2, <2>1, <2>2, BudgetStays
<1> QED
  BY <1>5, <1>6, <1>7, <1>8, <1>9

\* A lease that ends.  The runtime stays.
LEMMA GiveBackKeeps ==
  ASSUME CatalogTypeOK, RegistryTypeOK, RegistryInv, NEW t \in Thread, GiveBack(t)
  PROVE  RegistryTypeOK' /\ RegistryInv'
<1> USE DEF RegistryInv
<1>1. PICK p \in Process, s \in Space : p = ProcessOf[t] /\ s = at[t]
  BY CatalogAssumption DEF CatalogTypeOK
<1>2. /\ pc[t] = "leased" /\ pc' = [pc EXCEPT ![t] = "dropping"]
      /\ leases' = [leases EXCEPT ![p][s] = @ - 1]
      /\ lastUsed' = [lastUsed EXCEPT ![p] = Touch(p, s)]
      /\ UNCHANGED <<at, runtimes, openDomains, closing, exclusive>>
  BY <1>1 DEF GiveBack, Answer, Goto
<1>3. pc'[t] = "dropping" /\ OthersStay(t)
  BY <1>1, <1>2 DEF CatalogTypeOK, OthersStay
<1>4. /\ lastUsed'[p] = Touch(p, s) /\ \A q \in Process \ {p} : lastUsed'[q] = lastUsed[q]
      /\ leases'[p][s] = leases[p][s] - 1
      /\ \A q \in Process, x \in Space : q # p \/ x # s => leases'[q][x] = leases[q][x]
  BY <1>1, <1>2 DEF RegistryTypeOK
<1>5. /\ t \in Leasers(p, s) /\ Leasers(p, s)' = Leasers(p, s) \ {t}
      /\ \A q \in Process, x \in Space : q # p \/ x # s => Leasers(q, x)' = Leasers(q, x)
  BY <1>1, <1>2, <1>3, LeaserLeaves
<1>6. /\ IsFiniteSet(Leasers(p, s) \ {t})
      /\ Cardinality(Leasers(p, s) \ {t}) = leases[p][s] - 1
      /\ leases[p][s] - 1 \in Nat
      /\ s \in runtimes[p] \ closing[p]
  <2>1. IsFiniteSet(Leasers(p, s)) /\ leases[p][s] = Cardinality(Leasers(p, s))
    BY <1>1 DEF Counted, ResidentWhileLeased
  <2>2. /\ IsFiniteSet(Leasers(p, s) \ {t})
        /\ Cardinality(Leasers(p, s) \ {t}) = leases[p][s] - 1
    BY <1>5, <2>1, FS_RemoveElement
  <2>3. Cardinality(Leasers(p, s) \ {t}) \in Nat
    BY <2>2, FS_CardinalityType
  <2> QED
    BY <1>1, <1>5, <2>2, <2>3 DEF ResidentWhileLeased
<1>7. RegistryTypeOK'
  <2>1. lastUsed' \in [Process -> SUBSET (Space \X Space)]
    BY <1>1, <1>2, <1>4, UsedTouched DEF RegistryTypeOK
  <2>2. leases' \in [Process -> [Space -> Nat]]
    BY <1>1, <1>2, <1>6 DEF RegistryTypeOK
  <2> QED
    BY <1>2, <2>1, <2>2 DEF RegistryTypeOK
<1>8. Counted' /\ ResidentWhileLeased'
  <2>1. Counted'
    BY <1>2, <1>5, <1>6 DEF Counted
  <2>2. ASSUME NEW q \in Process, NEW x \in Space
        PROVE  /\ leases'[q][x] = Cardinality(Leasers(q, x)')
               /\ Leasers(q, x)' # {} => x \in runtimes'[q] \ closing'[q]
    <3>1. CASE q = p /\ x = s
      BY <1>2, <1>4, <1>5, <1>6, <3>1
    <3>2. CASE q # p \/ x # s
      BY <1>2, <1>4, <1>5, <3>2 DEF ResidentWhileLeased
    <3> QED
      BY <3>1, <3>2
  <2> QED
    BY <2>1, <2>2 DEF ResidentWhileLeased
<1>9. GateOwned' /\ SoleMaintainer'
  BY <1>2, <1>3, GateStays DEF Maintaining
<1>10. AloneInMaintenance'
  <2>1. ASSUME NEW q \in Process, NEW x \in Space, Lives(q, x)' PROVE Lives(q, x)
    BY <1>2, <1>3, <2>1 DEF Lives, Holds, OthersStay
  <2>2. \A u \in Thread : pc'[u] = "exclusive" => pc[u] = "exclusive" /\ at'[u] = at[u]
    BY <1>3 DEF OthersStay
  <2> QED
    BY <1>2, <2>1, <2>2, AloneStays
<1>11. WithinBudget'
  <2>1. Used(p)' = Used(p)
    <3>1. Used(p)' = Used(p) \cup {s}
      BY <1>1, <1>4, UsedTouched
    <3>2. Used(p) = runtimes[p]
      BY <1>1 DEF WithinBudget
    <3> QED
      BY <1>6, <3>1, <3>2
  <2>2. \A q \in Process \ {p} : Used(q)' = Used(q)
    BY <1>4 DEF Used
  <2> QED
    BY <1>2, <2>1, <2>2, BudgetStays
<1> QED
  BY <1>7, <1>8, <1>9, <1>10, <1>11

\* The last reference to a runtime goes.
LEMMA DropRuntimeKeeps ==
  ASSUME CatalogTypeOK, RegistryTypeOK, RegistryInv, NEW t \in Thread, DropRuntime(t)
  PROVE  RegistryTypeOK' /\ RegistryInv'
<1> USE DEF RegistryInv
<1>1. /\ pc[t] = "dropping" /\ pc'[t] = "idle" /\ OthersStay(t)
      /\ UNCHANGED <<at, runtimes, leases, lastUsed, openDomains, closing, exclusive>>
  BY DEF DropRuntime, Answer, Goto, OthersStay, CatalogTypeOK
<1>2. RegistryTypeOK'
  BY <1>1 DEF RegistryTypeOK
<1>3. Counted' /\ ResidentWhileLeased'
  BY <1>1, LeasersStay DEF Counted, ResidentWhileLeased
<1>4. GateOwned' /\ SoleMaintainer'
  BY <1>1, GateStays DEF Maintaining
<1>5. AloneInMaintenance'
  BY <1>1, AloneStays DEF OthersStay, Lives, Holds
<1>6. WithinBudget'
  BY <1>1, BudgetStays DEF Used
<1> QED
  BY <1>2, <1>3, <1>4, <1>5, <1>6

\* The gate opens after the lock has been given back, or has not been had.
LEMMA GateOpens ==
  ASSUME CatalogTypeOK, RegistryTypeOK, RegistryInv, NEW t \in Thread, OthersStay(t),
         pc[t] \in {"lock", "reopen"}, pc'[t] = "idle",
         UNCHANGED <<at, runtimes, leases, lastUsed, openDomains, exclusive>>,
         closing' = [closing EXCEPT ![ProcessOf[t]] = @ \ {at[t]}]
  PROVE  RegistryTypeOK' /\ RegistryInv'
<1> USE DEF RegistryInv
<1>1. PICK p \in Process : p = ProcessOf[t]
  BY CatalogAssumption
<1>2. /\ closing'[p] = closing[p] \ {at[t]}
      /\ \A q \in Process \ {p} : closing'[q] = closing[q]
  BY <1>1 DEF RegistryTypeOK
<1>3. RegistryTypeOK'
  BY <1>1 DEF RegistryTypeOK
<1>4. Counted' /\ ResidentWhileLeased'
  BY <1>2, LeasersStay DEF Counted, ResidentWhileLeased
<1>5. AloneInMaintenance'
  BY AloneStays DEF OthersStay, Lives, Holds
<1>6. WithinBudget'
  BY BudgetStays DEF Used
<1>7. /\ t \in Maintainers(p) /\ Maintainers(p)' = Maintainers(p) \ {t}
      /\ \A q \in Process \ {p} : Maintainers(q)' = Maintainers(q)
  BY <1>1 DEF Maintainers, OthersStay
<1>8. SoleMaintainer'
  BY <1>7 DEF SoleMaintainer
<1>9. GateOwned'
  <2>1. \A u \in Maintainers(p) \ {t} : at[u] # at[t]
    BY <1>7 DEF SoleMaintainer, Maintainers
  <2>2. closing'[p] = {at'[u] : u \in Maintainers(p)'}
    BY <1>2, <1>7, <2>1 DEF GateOwned
  <2>3. \A q \in Process \ {p} : closing'[q] = {at'[u] : u \in Maintainers(q)'}
    BY <1>2, <1>7 DEF GateOwned
  <2> QED
    BY <2>2, <2>3 DEF GateOwned
<1> QED
  BY <1>3, <1>4, <1>5, <1>6, <1>8, <1>9

\* The lock is taken when nobody has the space, or the gate opens again.
LEMMA LockExclusiveKeeps ==
  ASSUME CatalogTypeOK, RegistryTypeOK, RegistryInv, NEW t \in Thread, LockExclusive(t)
  PROVE  RegistryTypeOK' /\ RegistryInv'
<1> USE DEF RegistryInv
<1>1. PICK s \in Space : s = at[t]
  BY DEF CatalogTypeOK
<1>2. CASE LockFree(t, s) /\ exclusive' = [exclusive EXCEPT ![s] = t] /\ Goto(t, "exclusive")
           /\ UNCHANGED closing
  <2>1. /\ pc[t] = "lock" /\ pc'[t] = "exclusive" /\ OthersStay(t)
        /\ UNCHANGED <<at, runtimes, leases, lastUsed, openDomains, closing>>
        /\ exclusive[s] = None /\ SharedBy(s) = {}
        /\ exclusive'[s] = t /\ \A x \in Space \ {s} : exclusive'[x] = exclusive[x]
    BY <1>2 DEF LockExclusive, Goto, OthersStay, LockFree, CatalogTypeOK, RegistryTypeOK
  <2>2. RegistryTypeOK'
    BY <1>2, <2>1 DEF RegistryTypeOK
  <2>3. Counted' /\ ResidentWhileLeased'
    BY <2>1, LeasersStay DEF Counted, ResidentWhileLeased
  <2>4. GateOwned' /\ SoleMaintainer'
    BY <2>1, GateStays DEF Maintaining
  <2>5. WithinBudget'
    BY <2>1, BudgetStays DEF Used
  <2>6. AloneInMaintenance'
    <3>1. ASSUME NEW u \in Thread, pc'[u] = "exclusive" PROVE exclusive'[at'[u]] = u
      <4>1. CASE u = t
        BY <1>1, <2>1, <4>1
      <4>2. CASE u # t
        <5>1. pc[u] = "exclusive" /\ exclusive[at[u]] = u
          BY <2>1, <3>1, <4>2 DEF OthersStay, AloneInMaintenance
        <5>2. at[u] # s
          BY <2>1, <5>1, RegistryAssumption
        <5> QED
          BY <2>1, <5>1, <5>2 DEF CatalogTypeOK
      <4> QED
        BY <4>1, <4>2
    <3>2. ASSUME NEW x \in Space PROVE SharedBy(x)' = SharedBy(x)
      BY <2>1 DEF SharedBy, Lives, Holds, OthersStay
    <3>3. ASSUME NEW x \in Space, exclusive'[x] # None PROVE SharedBy(x)' = {}
      BY <2>1, <3>2, <3>3 DEF AloneInMaintenance
    <3> QED
      BY <3>1, <3>3 DEF AloneInMaintenance
  <2> QED
    BY <2>2, <2>3, <2>4, <2>5, <2>6
<1>3. CASE closing' = [closing EXCEPT ![ProcessOf[t]] = @ \ {s}] /\ Goto(t, "idle")
           /\ UNCHANGED exclusive
  <2>1. /\ pc[t] = "lock" /\ pc'[t] = "idle" /\ OthersStay(t)
        /\ UNCHANGED <<at, runtimes, leases, lastUsed, openDomains, exclusive>>
    BY <1>3 DEF LockExclusive, Goto, OthersStay, CatalogTypeOK
  <2> QED
    BY <1>1, <1>3, <2>1, GateOpens
<1> QED
  BY <1>1, <1>2, <1>3 DEF LockExclusive

\* The lock is given back.
LEMMA UnlockKeeps ==
  ASSUME CatalogTypeOK, RegistryTypeOK, RegistryInv, NEW t \in Thread, Unlock(t)
  PROVE  RegistryTypeOK' /\ RegistryInv'
<1> USE DEF RegistryInv
<1>1. PICK s \in Space : s = at[t]
  BY DEF CatalogTypeOK
<1>2. /\ pc[t] = "exclusive" /\ pc'[t] = "reopen" /\ OthersStay(t)
      /\ UNCHANGED <<at, runtimes, leases, lastUsed, openDomains, closing>>
      /\ exclusive[s] = t
      /\ exclusive'[s] = None /\ \A x \in Space \ {s} : exclusive'[x] = exclusive[x]
  BY <1>1 DEF Unlock, Goto, OthersStay, CatalogTypeOK, RegistryTypeOK, AloneInMaintenance
<1>3. RegistryTypeOK'
  BY <1>2 DEF RegistryTypeOK, Unlock
<1>4. Counted' /\ ResidentWhileLeased'
  BY <1>2, LeasersStay DEF Counted, ResidentWhileLeased
<1>5. GateOwned' /\ SoleMaintainer'
  BY <1>2, GateStays DEF Maintaining
<1>6. WithinBudget'
  BY <1>2, BudgetStays DEF Used
<1>7. AloneInMaintenance'
  <2>1. ASSUME NEW u \in Thread, pc'[u] = "exclusive" PROVE exclusive'[at'[u]] = u
    <3>1. u # t /\ pc[u] = "exclusive" /\ exclusive[at[u]] = u
      BY <1>2, <2>1 DEF OthersStay, AloneInMaintenance
    <3> QED
      BY <1>2, <3>1 DEF CatalogTypeOK
  <2>2. ASSUME NEW x \in Space PROVE SharedBy(x)' = SharedBy(x)
    BY <1>2 DEF SharedBy, Lives, Holds, OthersStay
  <2>3. ASSUME NEW x \in Space, exclusive'[x] # None PROVE SharedBy(x)' = {}
    BY <1>2, <2>2, <2>3 DEF AloneInMaintenance
  <2> QED
    BY <2>1, <2>3 DEF AloneInMaintenance
<1> QED
  BY <1>3, <1>4, <1>5, <1>6, <1>7

\* What an eviction may take: resident, unleased runtimes.
LEMMA FirstOfShape ==
  ASSUME WithinBudget, NEW p \in Process, NEW n
  PROVE  FirstOf(p, n) \in SUBSET runtimes[p] /\ \A x \in FirstOf(p, n) : x \in Space /\ leases[p][x] = 0
<1>1. Used(p) = runtimes[p]
  BY DEF WithinBudget
<1> QED
  BY <1>1 DEF FirstOf, Evictable, Used

\* What remains is counted and within the budget.
LEMMA Remaining ==
  ASSUME RegistryTypeOK, Counted, WithinBudget, NEW p \in Process, NEW out \in SUBSET runtimes[p]
  PROVE  /\ runtimes[p] \ out \in SUBSET Space /\ IsFiniteSet(runtimes[p] \ out)
         /\ openDomains[p] - Domains(out) = Domains(runtimes[p] \ out)
         /\ Domains(runtimes[p] \ out) \in Nat /\ Domains(runtimes[p] \ out) <= MaxDomains
         /\ Cardinality(runtimes[p] \ out) \in Nat /\ Cardinality(runtimes[p] \ out) <= MaxSpaces
<1>1. runtimes[p] \in SUBSET Space /\ IsFiniteSet(runtimes[p])
  BY DEF RegistryTypeOK, Counted
<1>2. /\ openDomains[p] = Domains(runtimes[p]) /\ openDomains[p] <= MaxDomains
      /\ Cardinality(runtimes[p]) <= MaxSpaces
  BY DEF WithinBudget
<1>3. /\ IsFiniteSet(runtimes[p] \ out)
      /\ Domains(runtimes[p] \ out) = Domains(runtimes[p]) - Domains(out)
      /\ Domains(runtimes[p]) \in Nat /\ Domains(out) \in Nat /\ Domains(runtimes[p] \ out) \in Nat
  BY <1>1, DomainsLeft
<1>4. Domains(runtimes[p] \ out) <= MaxDomains
  BY <1>2, <1>3, RegistryAssumption
<1>5. /\ Cardinality(runtimes[p] \ out) \in Nat /\ Cardinality(runtimes[p]) \in Nat
      /\ Cardinality(runtimes[p] \ out) <= Cardinality(runtimes[p])
  BY <1>1, <1>3, FS_Subset, FS_CardinalityType
<1>6. Cardinality(runtimes[p] \ out) <= MaxSpaces
  BY <1>2, <1>5, RegistryAssumption
<1> QED
  BY <1>1, <1>2, <1>3, <1>4, <1>5, <1>6

\* An eviction keeps types, counts and budget.
LEMMA EvictKeeps ==
  ASSUME RegistryTypeOK, Counted, WithinBudget, NEW p \in Process, NEW out \in SUBSET runtimes[p],
         Evict(p, out)
  PROVE  /\ runtimes' \in [Process -> SUBSET Space] /\ openDomains' \in [Process -> Nat]
         /\ lastUsed' \in [Process -> SUBSET (Space \X Space)]
         /\ runtimes'[p] = runtimes[p] \ out
         /\ \A q \in Process \ {p} : runtimes'[q] = runtimes[q]
         /\ \A q \in Process : IsFiniteSet(runtimes'[q])
         /\ WithinBudget'
<1>1. /\ runtimes' = [runtimes EXCEPT ![p] = runtimes[p] \ out]
      /\ lastUsed' = [lastUsed EXCEPT ![p] = Without(p, out)]
      /\ openDomains' = [openDomains EXCEPT ![p] = Domains(runtimes[p] \ out)]
  BY Remaining DEF Evict
<1>2. /\ runtimes'[p] = runtimes[p] \ out /\ lastUsed'[p] = Without(p, out)
      /\ openDomains'[p] = Domains(runtimes[p] \ out)
      /\ \A q \in Process \ {p} : /\ runtimes'[q] = runtimes[q] /\ lastUsed'[q] = lastUsed[q]
                                  /\ openDomains'[q] = openDomains[q]
  BY <1>1 DEF RegistryTypeOK
<1>3. runtimes' \in [Process -> SUBSET Space] /\ openDomains' \in [Process -> Nat]
  BY <1>1, Remaining DEF RegistryTypeOK
<1>4. Without(p, out) \in SUBSET (Space \X Space)
  BY UsedAfter
<1>5. lastUsed' \in [Process -> SUBSET (Space \X Space)]
  BY <1>1, <1>4 DEF RegistryTypeOK
<1>6. \A q \in Process : IsFiniteSet(runtimes'[q])
  BY <1>2, Remaining, ZenonT(30) DEF Counted
<1>7. ASSUME NEW q \in Process
      PROVE  /\ openDomains'[q] = Domains(runtimes'[q]) /\ openDomains'[q] <= MaxDomains
             /\ Cardinality(runtimes'[q]) <= MaxSpaces /\ Used(q)' = runtimes'[q]
  <2>1. CASE q = p
    <3>1. Used(p)' = Used(p) \ out
      BY <1>2, UsedAfter
    <3>2. Used(p) = runtimes[p]
      BY DEF WithinBudget
    <3> QED
      BY <1>2, <2>1, <3>1, <3>2, Remaining
  <2>2. CASE q # p
    <3>1. Used(q)' = Used(q)
      BY <1>2, <2>2 DEF Used
    <3> QED
      BY <1>2, <2>2, <3>1 DEF WithinBudget
  <2> QED
    BY <2>1, <2>2
<1>8. WithinBudget'
  BY <1>7 DEF WithinBudget, Domains, Stores
<1> QED
  BY <1>2, <1>3, <1>5, <1>6, <1>8

\* The gate opens after the lock.
LEMMA ReopenKeeps ==
  ASSUME CatalogTypeOK, RegistryTypeOK, RegistryInv, NEW t \in Thread, Reopen(t)
  PROVE  RegistryTypeOK' /\ RegistryInv'
<1>1. /\ pc[t] = "reopen" /\ pc'[t] = "idle" /\ OthersStay(t)
      /\ UNCHANGED <<at, runtimes, leases, lastUsed, openDomains, exclusive>>
      /\ closing' = [closing EXCEPT ![ProcessOf[t]] = @ \ {at[t]}]
  BY DEF Reopen, Goto, OthersStay, CatalogTypeOK
<1> QED
  BY <1>1, GateOpens

\* A runtime without leases has no leasers, so that its end deprives nobody.
LEMMA UnleasedIsFree ==
  ASSUME Counted, ResidentWhileLeased, NEW p \in Process, NEW s \in Space, leases[p][s] = 0
  PROVE  Leasers(p, s) = {}
BY FS_EmptySet DEF Counted, ResidentWhileLeased

\* What a failed acquire has evicted stays evicted.
LEMMA AcquireFailsKeeps ==
  ASSUME CatalogTypeOK, RegistryTypeOK, RegistryInv, NEW t \in Thread, AcquireFails(t)
  PROVE  RegistryTypeOK' /\ RegistryInv'
<1> USE DEF RegistryInv
<1>1. PICK p \in Process : p = ProcessOf[t]
  BY CatalogAssumption
<1>2. PICK s \in Space, n \in 0..Cardinality(Evictable(p)) :
        pc[t] = "idle" /\ at' = [at EXCEPT ![t] = s] /\ Evict(p, FirstOf(p, n))
  BY <1>1 DEF AcquireFails, Begin
<1>3. /\ pc'[t] = "idle" /\ OthersStay(t) /\ UNCHANGED <<leases, closing, exclusive>>
  BY <1>2 DEF AcquireFails, Answer, Goto, OthersStay, CatalogTypeOK
<1>4. PICK out \in SUBSET runtimes[p] :
        out = FirstOf(p, n) /\ \A x \in out : x \in Space /\ leases[p][x] = 0
  BY FirstOfShape
<1>5. /\ runtimes' \in [Process -> SUBSET Space] /\ openDomains' \in [Process -> Nat]
      /\ lastUsed' \in [Process -> SUBSET (Space \X Space)]
      /\ runtimes'[p] = runtimes[p] \ out
      /\ \A q \in Process \ {p} : runtimes'[q] = runtimes[q]
      /\ \A q \in Process : IsFiniteSet(runtimes'[q])
      /\ WithinBudget'
  BY <1>2, <1>4, EvictKeeps
<1>6. RegistryTypeOK'
  BY <1>3, <1>5 DEF RegistryTypeOK
<1>7. \A q \in Process, x \in Space : Leasers(q, x)' = Leasers(q, x)
  BY <1>2, <1>3, LeasersStay
<1>8. Counted'
  BY <1>5, <1>7 DEF Counted
<1>9. ResidentWhileLeased'
  <2>1. ASSUME NEW x \in Space, Leasers(p, x) # {} PROVE x \in runtimes'[p]
    BY <1>4, <1>5, <2>1, UnleasedIsFree DEF ResidentWhileLeased
  <2>2. ASSUME NEW q \in Process, NEW x \in Space, Leasers(q, x) # {} PROVE x \in runtimes'[q]
    BY <1>5, <2>1, <2>2 DEF ResidentWhileLeased
  <2> QED
    BY <1>3, <1>7, <2>2 DEF ResidentWhileLeased
<1>10. GateOwned' /\ SoleMaintainer'
  BY <1>2, <1>3, GateStays DEF Maintaining
<1>11. AloneInMaintenance'
  <2>1. ASSUME NEW q \in Process, NEW x \in Space, Lives(q, x)' PROVE Lives(q, x)
    BY <1>1, <1>2, <1>3, <1>5, <2>1 DEF Lives, Holds, OthersStay
  <2>2. \A u \in Thread : pc'[u] = "exclusive" => pc[u] = "exclusive" /\ at'[u] = at[u]
    BY <1>3 DEF OthersStay
  <2> QED
    BY <1>3, <2>1, <2>2, AloneStays
<1> QED
  BY <1>5, <1>6, <1>8, <1>9, <1>10, <1>11

\* A space that nobody leases is closed, and the gate behind it.
LEMMA CloseForMaintenanceKeeps ==
  ASSUME CatalogTypeOK, RegistryTypeOK, RegistryInv, NEW t \in Thread, CloseForMaintenance(t)
  PROVE  RegistryTypeOK' /\ RegistryInv'
<1> USE DEF RegistryInv
<1>1. PICK p \in Process : p = ProcessOf[t]
  BY CatalogAssumption
<1>2. PICK s \in Space :
        /\ s \notin closing[p] /\ leases[p][s] = 0
        /\ pc[t] = "idle" /\ at' = [at EXCEPT ![t] = s]
        /\ closing' = [closing EXCEPT ![p] = @ \cup {s}]
        /\ Evict(p, {s} \cap runtimes[p])
  BY <1>1 DEF CloseForMaintenance, Begin, MayClose
<1>3. /\ pc'[t] = "lock" /\ at'[t] = s /\ OthersStay(t) /\ UNCHANGED <<leases, exclusive>>
      /\ closing'[p] = closing[p] \cup {s} /\ \A q \in Process \ {p} : closing'[q] = closing[q]
  BY <1>2 DEF CloseForMaintenance, Goto, OthersStay, CatalogTypeOK, RegistryTypeOK
<1>4. PICK out \in SUBSET runtimes[p] : out = {s} \cap runtimes[p]
  OBVIOUS
<1>5. /\ runtimes' \in [Process -> SUBSET Space] /\ openDomains' \in [Process -> Nat]
      /\ lastUsed' \in [Process -> SUBSET (Space \X Space)]
      /\ runtimes'[p] = runtimes[p] \ out
      /\ \A q \in Process \ {p} : runtimes'[q] = runtimes[q]
      /\ \A q \in Process : IsFiniteSet(runtimes'[q])
      /\ WithinBudget'
  BY <1>2, <1>4, EvictKeeps
<1>6. RegistryTypeOK'
  BY <1>2, <1>3, <1>5 DEF RegistryTypeOK
<1>7. \A q \in Process, x \in Space : Leasers(q, x)' = Leasers(q, x)
  BY <1>2, <1>3, LeasersStay
<1>8. Counted'
  BY <1>5, <1>7 DEF Counted
<1>9. ResidentWhileLeased'
  <2>1. Leasers(p, s) = {}
    BY <1>2, UnleasedIsFree
  <2>2. ASSUME NEW q \in Process, NEW x \in Space, Leasers(q, x) # {}
        PROVE  x \in runtimes'[q] \ closing'[q]
    <3>1. x \in runtimes[q] \ closing[q]
      BY <2>2 DEF ResidentWhileLeased
    <3> QED
      BY <1>3, <1>4, <1>5, <2>1, <2>2, <3>1
  <2> QED
    BY <1>3, <1>7, <2>2 DEF ResidentWhileLeased
<1>10. /\ t \notin Maintainers(p) /\ Maintainers(p)' = Maintainers(p) \cup {t}
       /\ \A q \in Process \ {p} : Maintainers(q)' = Maintainers(q)
       /\ \A q \in Process : \A u \in Maintainers(q) : u # t /\ at'[u] = at[u]
  BY <1>1, <1>2, <1>3 DEF Maintainers, OthersStay
<1>11. GateOwned'
  <2>1. closing'[p] = {at'[u] : u \in Maintainers(p)'}
    BY <1>3, <1>10 DEF GateOwned
  <2>2. ASSUME NEW q \in Process \ {p} PROVE closing'[q] = {at'[u] : u \in Maintainers(q)'}
    BY <1>3, <1>10 DEF GateOwned
  <2> QED
    BY <2>1, <2>2 DEF GateOwned
<1>12. SoleMaintainer'
  <2>1. \A u \in Maintainers(p) : at[u] # s
    BY <1>2 DEF GateOwned
  <2> QED
    BY <1>3, <1>10, <2>1 DEF SoleMaintainer
<1>13. AloneInMaintenance'
  <2>1. ASSUME NEW q \in Process, NEW x \in Space, Lives(q, x)' PROVE Lives(q, x)
    BY <1>1, <1>2, <1>3, <1>5, <2>1 DEF Lives, Holds, OthersStay
  <2>2. \A u \in Thread : pc'[u] = "exclusive" => pc[u] = "exclusive" /\ at'[u] = at[u]
    BY <1>3 DEF OthersStay
  <2> QED
    BY <1>3, <2>1, <2>2, AloneStays
<1> QED
  BY <1>5, <1>6, <1>8, <1>9, <1>11, <1>12, <1>13

\* A space is opened where the evicted ones were, if its lock is free.
LEMMA AcquireNewKeeps ==
  ASSUME CatalogTypeOK, RegistryTypeOK, RegistryInv, NEW t \in Thread, AcquireNew(t)
  PROVE  RegistryTypeOK' /\ RegistryInv'
<1> USE DEF RegistryInv
<1>1. PICK p \in Process : p = ProcessOf[t]
  BY CatalogAssumption
<1>2. PICK s \in Space, n \in 0..Cardinality(Evictable(p)) :
        LET out == FirstOf(p, n) IN
        /\ s \notin runtimes[p] \cup closing[p] /\ Fits(p, out, s)
        /\ exclusive[s] = None
        /\ pc[t] = "idle" /\ at' = [at EXCEPT ![t] = s]
        /\ runtimes' = [runtimes EXCEPT ![p] = (@ \ out) \cup {s}]
        /\ lastUsed' = [lastUsed EXCEPT ![p] = Without(p, out) \cup Latest(Used(p) \ out, s)]
        /\ openDomains' = [openDomains EXCEPT ![p] = @ - Domains(out) + DomainCount[s]]
        /\ leases' = [leases EXCEPT ![p][s] = 1]
  BY <1>1 DEF AcquireNew, Begin, Openable, Enough
<1>3. PICK out \in SUBSET runtimes[p] :
        out = FirstOf(p, n) /\ \A x \in out : x \in Space /\ leases[p][x] = 0
  BY FirstOfShape
<1>4. /\ pc'[t] = "leased" /\ at'[t] = s /\ OthersStay(t) /\ UNCHANGED <<closing, exclusive>>
      /\ leases'[p][s] = 1
      /\ \A q \in Process, x \in Space : q # p \/ x # s => leases'[q][x] = leases[q][x]
  BY <1>2 DEF AcquireNew, Answer, Goto, OthersStay, CatalogTypeOK, RegistryTypeOK
<1> DEFINE rest == runtimes[p] \ out
<1>5. /\ rest \in SUBSET Space /\ IsFiniteSet(rest)
      /\ openDomains[p] - Domains(out) = Domains(rest) /\ Domains(rest) \in Nat
      /\ Cardinality(rest) \in Nat
  BY Remaining
<1>6. Cardinality(rest) < MaxSpaces /\ Domains(rest) + DomainCount[s] <= MaxDomains
  BY <1>2, <1>3, <1>5 DEF Fits
<1>7. /\ IsFiniteSet(rest \cup {s}) /\ rest \cup {s} \in SUBSET Space
      /\ Domains(rest \cup {s}) = Domains(rest) + DomainCount[s]
      /\ Cardinality(rest \cup {s}) = Cardinality(rest) + 1
      /\ DomainCount[s] \in Nat
  BY <1>2, <1>5, DomainsMore, RegistryAssumption
<1> HIDE DEF rest
<1>8. /\ runtimes' = [runtimes EXCEPT ![p] = rest \cup {s}]
      /\ lastUsed' = [lastUsed EXCEPT ![p] = Without(p, out) \cup Latest(Used(p) \ out, s)]
      /\ openDomains' = [openDomains EXCEPT ![p] = Domains(rest \cup {s})]
  BY <1>2, <1>3, <1>5, <1>7 DEF rest
<1>9. /\ runtimes'[p] = rest \cup {s}
      /\ lastUsed'[p] = Without(p, out) \cup Latest(Used(p) \ out, s)
      /\ openDomains'[p] = Domains(rest \cup {s})
      /\ \A q \in Process \ {p} : /\ runtimes'[q] = runtimes[q] /\ lastUsed'[q] = lastUsed[q]
                                  /\ openDomains'[q] = openDomains[q]
  BY <1>8 DEF RegistryTypeOK
<1>10. /\ Without(p, out) \cup Latest(Used(p) \ out, s) \in SUBSET (Space \X Space)
       /\ Used(p)' = (Used(p) \ out) \cup {s}
  <2>1. lastUsed'[p] = Without(p, out) \cup Latest(Used(p) \ out, s)
    BY <1>9
  <2>2. lastUsed'[p] \in SUBSET (Space \X Space) /\ Used(p)' = (Used(p) \ out) \cup {s}
    BY ONLY RegistryTypeOK, <2>1, UsedOpened
  <2> QED
    BY <2>1, <2>2
<1>11. RegistryTypeOK'
  <2>1. Domains(rest \cup {s}) \in Nat
    BY <1>5, <1>7
  <2>2. runtimes' \in [Process -> SUBSET Space] /\ openDomains' \in [Process -> Nat]
    BY <1>7, <1>8, <2>1 DEF RegistryTypeOK
  <2>3. lastUsed' \in [Process -> SUBSET (Space \X Space)]
    BY <1>8, <1>10 DEF RegistryTypeOK
  <2>4. leases' \in [Process -> [Space -> Nat]]
    BY <1>2 DEF RegistryTypeOK
  <2> QED
    BY <1>4, <2>2, <2>3, <2>4 DEF RegistryTypeOK
<1>12. /\ t \notin Leasers(p, s) /\ Leasers(p, s)' = Leasers(p, s) \cup {t}
       /\ \A q \in Process, x \in Space : q # p \/ x # s => Leasers(q, x)' = Leasers(q, x)
  BY <1>1, <1>2, <1>4, LeaserJoins
<1>13. Leasers(p, s)' = {t}
  BY <1>2, <1>12 DEF ResidentWhileLeased
<1>14. IsFiniteSet({t}) /\ Cardinality({t}) = 1
  BY FS_Singleton
<1>15. Counted'
  <2>1. ASSUME NEW q \in Process PROVE IsFiniteSet(runtimes'[q])
    BY <1>7, <1>9 DEF Counted
  <2>2. ASSUME NEW q \in Process, NEW x \in Space PROVE IsFiniteSet(Leasers(q, x)')
    BY <1>12, <1>13, <1>14 DEF Counted
  <2> QED
    BY <2>1, <2>2 DEF Counted
<1>16. ResidentWhileLeased'
  <2>1. ASSUME NEW q \in Process, NEW x \in Space
        PROVE  /\ leases'[q][x] = Cardinality(Leasers(q, x)')
               /\ Leasers(q, x)' # {} => x \in runtimes'[q] \ closing'[q]
    <3>1. CASE q = p /\ x = s
      BY <1>2, <1>4, <1>9, <1>13, <1>14, <3>1
    <3>2. CASE q = p /\ x # s
      <4>1. Leasers(p, x) # {} => x \in runtimes[p] \ closing[p]
        BY DEF ResidentWhileLeased
      <4>2. Leasers(p, x) # {} => x \notin out
        BY <1>3, UnleasedIsFree
      <4>3. Leasers(p, x) # {} => x \in rest \ closing[p]
        BY <4>1, <4>2 DEF rest
      <4> QED
        BY <1>4, <1>9, <1>12, <3>2, <4>3 DEF ResidentWhileLeased
    <3>3. CASE q # p
      BY <1>4, <1>9, <1>12, <3>3 DEF ResidentWhileLeased
    <3> QED
      BY <3>1, <3>2, <3>3
  <2> QED
    BY <2>1 DEF ResidentWhileLeased
<1>17. GateOwned' /\ SoleMaintainer'
  BY <1>2, <1>4, GateStays DEF Maintaining
<1>18. AloneInMaintenance'
  <2>1. ASSUME NEW q \in Process, NEW x \in Space, exclusive[x] # None, Lives(q, x)'
        PROVE  Lives(q, x)
    <3>1. x # s
      BY <1>2, <2>1
    <3> QED
      BY <1>1, <1>2, <1>4, <1>9, <2>1, <3>1 DEF Lives, Holds, OthersStay, rest
  <2>2. \A u \in Thread : pc'[u] = "exclusive" => pc[u] = "exclusive" /\ at'[u] = at[u]
    BY <1>4 DEF OthersStay
  <2> QED
    BY <1>4, <2>1, <2>2, AloneStays
<1>19. WithinBudget'
  <2>1. ASSUME NEW q \in Process
        PROVE  /\ openDomains'[q] = Domains(runtimes'[q]) /\ openDomains'[q] <= MaxDomains
               /\ Cardinality(runtimes'[q]) <= MaxSpaces /\ Used(q)' = runtimes'[q]
    <3>1. CASE q = p
      <4>1. Used(p) = runtimes[p]
        BY DEF WithinBudget
      <4>2. Used(p)' = rest \cup {s}
        BY <1>10, <4>1 DEF rest
      <4>3. Domains(rest \cup {s}) <= MaxDomains /\ Cardinality(rest \cup {s}) <= MaxSpaces
        BY <1>5, <1>6, <1>7, RegistryAssumption
      <4> QED
        BY <1>9, <3>1, <4>2, <4>3
    <3>2. CASE q # p
      <4>1. Used(q)' = Used(q)
        BY <1>9, <3>2 DEF Used
      <4> QED
        BY <1>9, <3>2, <4>1 DEF WithinBudget
    <3> QED
      BY <3>1, <3>2
  <2> QED
    BY <2>1 DEF WithinBudget, Domains, Stores
<1> QED
  BY <1>11, <1>15, <1>16, <1>17, <1>18, <1>19

\* A process that stops takes its runtimes, leases, gates and locks with it.
LEMMA CrashKeeps ==
  ASSUME CatalogTypeOK, RegistryTypeOK, RegistryInv, NEW p \in Process, Crash(p)
  PROVE  RegistryTypeOK' /\ RegistryInv'
<1> DEFINE mine == {t \in Thread : ProcessOf[t] = p}
<1> USE DEF RegistryInv
<1>1. /\ \A t \in Thread : pc'[t] = IF t \in mine THEN "idle" ELSE pc[t]
      /\ \A s \in Space : exclusive'[s] = IF exclusive[s] \in mine THEN None ELSE exclusive[s]
      /\ UNCHANGED at
  BY DEF Crash
<1>2. RegistryTypeOK'
  BY DEF Crash, RegistryTypeOK
<1>3. /\ runtimes'[p] = {} /\ closing'[p] = {} /\ lastUsed'[p] = {} /\ openDomains'[p] = 0
      /\ \A s \in Space : leases'[p][s] = 0
      /\ \A q \in Process \ {p} :
           /\ runtimes'[q] = runtimes[q] /\ closing'[q] = closing[q] /\ lastUsed'[q] = lastUsed[q]
           /\ openDomains'[q] = openDomains[q] /\ leases'[q] = leases[q]
  BY DEF Crash, RegistryTypeOK
<1>4. /\ \A s \in Space : Leasers(p, s)' = {}
      /\ \A q \in Process \ {p}, s \in Space : Leasers(q, s)' = Leasers(q, s)
  BY <1>1 DEF Leasers
<1>5. /\ Maintainers(p)' = {}
      /\ \A q \in Process \ {p} : Maintainers(q)' = Maintainers(q)
  BY <1>1 DEF Maintainers
<1>6. IsFiniteSet({}) /\ Cardinality({}) = 0
  BY FS_EmptySet
<1>7. Counted'
  BY <1>3, <1>4, <1>6 DEF Counted
<1>8. ResidentWhileLeased'
  <2>1. ASSUME NEW q \in Process, NEW x \in Space
        PROVE  /\ leases'[q][x] = Cardinality(Leasers(q, x)')
               /\ Leasers(q, x)' # {} => x \in runtimes'[q] \ closing'[q]
    <3>1. CASE q = p
      BY <1>3, <1>4, <1>6, <3>1
    <3>2. CASE q # p
      BY <1>3, <1>4, <3>2 DEF ResidentWhileLeased
    <3> QED
      BY <3>1, <3>2
  <2> QED
    BY <2>1 DEF ResidentWhileLeased
<1>9. GateOwned'
  <2>1. ASSUME NEW q \in Process PROVE closing'[q] = {at'[u] : u \in Maintainers(q)'}
    BY <1>1, <1>3, <1>5 DEF GateOwned
  <2> QED
    BY <2>1 DEF GateOwned
<1>10. SoleMaintainer'
  BY <1>1, <1>5 DEF SoleMaintainer
<1>11. AloneInMaintenance'
  <2>1. ASSUME NEW t \in Thread, pc'[t] = "exclusive" PROVE exclusive'[at'[t]] = t
    BY <1>1, <2>1 DEF AloneInMaintenance, CatalogTypeOK
  <2>2. ASSUME NEW s \in Space, exclusive'[s] # None PROVE SharedBy(s)' = {}
    <3>1. exclusive[s] # None /\ SharedBy(s) = {}
      BY <1>1, <2>2 DEF AloneInMaintenance
    <3>2. \A q \in Process : Lives(q, s)' => Lives(q, s)
      BY <1>1, <1>3 DEF Lives, Holds
    <3> QED
      BY <3>1, <3>2 DEF SharedBy
  <2> QED
    BY <2>1, <2>2 DEF AloneInMaintenance
<1>12. WithinBudget'
  <2>1. Domains({}) = 0
    BY <1>6 DEF Domains, Stores
  <2>2. Used(p)' = {} /\ \A q \in Process \ {p} : Used(q)' = Used(q)
    BY <1>3 DEF Used
  <2>3. ASSUME NEW q \in Process
        PROVE  /\ openDomains'[q] = Domains(runtimes'[q]) /\ openDomains'[q] <= MaxDomains
               /\ Cardinality(runtimes'[q]) <= MaxSpaces /\ Used(q)' = runtimes'[q]
    <3>1. CASE q = p
      <4>1. openDomains'[q] = 0 /\ runtimes'[q] = {} /\ Used(q)' = {}
        BY <1>3, <2>2, <3>1
      <4>2. 0 <= MaxDomains /\ 0 <= MaxSpaces
        BY RegistryAssumption
      <4> QED
        BY <1>6, <2>1, <4>1, <4>2
    <3>2. CASE q # p
      BY <1>3, <2>2, <3>2 DEF WithinBudget
    <3> QED
      BY <3>1, <3>2
  <2> QED
    BY <2>3 DEF WithinBudget, Domains, Stores
<1> QED
  BY <1>2, <1>7, <1>8, <1>9, <1>10, <1>11, <1>12

-----------------------------------------------------------------------------
(* Theorems. *)

\* Every step keeps the registry's types and its invariant.
LEMMA RegistryStep ==
  ASSUME CatalogTypeOK, RegistryTypeOK, RegistryInv, SpaceStep
  PROVE  RegistryTypeOK' /\ RegistryInv'
<1>1. ASSUME NEW t \in Thread, Catalog(t), UNCHANGED registryVars
      PROVE  RegistryTypeOK' /\ RegistryInv'
  <2>1. OthersStay(t) /\ {pc[t], pc'[t]} \subseteq BindingStep \cup {"idle"}
    BY <1>1 DEF Catalog, ReadId, CreateId, WriteId, FindRow, CreateManaged, InsertRow, CheckManifest,
                BindStore, ActivateSpace, BindFails, Begin, Goto, OthersStay, CatalogTypeOK, BindingStep
  <2> QED
    BY <1>1, <2>1, RegistryQuiet
<1>2. ASSUME NEW t \in Thread, Registry(t)
      PROVE  RegistryTypeOK' /\ RegistryInv'
  BY <1>2, AcquireOpenKeeps, AcquireNewKeeps, AcquireFailsKeeps, GiveBackKeeps, DropRuntimeKeeps,
     CloseForMaintenanceKeeps, LockExclusiveKeeps, UnlockKeeps, ReopenKeeps DEF Registry
<1>3. CASE UNCHANGED <<disk, pc, at, id, registryVars>>
  <2>1. RegistryTypeOK'
    BY <1>3 DEF RegistryTypeOK, registryVars
  <2>2. Counted' /\ ResidentWhileLeased' /\ GateOwned' /\ SoleMaintainer'
    BY <1>3 DEF RegistryInv, Counted, ResidentWhileLeased, GateOwned, SoleMaintainer, Leasers,
                Maintainers, registryVars
  <2>3. AloneInMaintenance' /\ WithinBudget'
    BY <1>3 DEF RegistryInv, AloneInMaintenance, WithinBudget, SharedBy, Lives, Holds, Used, registryVars
  <2> QED
    BY <2>1, <2>2, <2>3 DEF RegistryInv
<1> QED
  BY <1>1, <1>2, <1>3, CrashKeeps DEF SpaceStep

\* Nothing is open at the start.
LEMMA RegistryInit == InitCatalog /\ InitRegistry => RegistryTypeOK /\ RegistryInv
<1> SUFFICES ASSUME InitCatalog, InitRegistry PROVE RegistryTypeOK /\ RegistryInv
  OBVIOUS
<1>1. /\ \A t \in Thread : pc[t] = "idle"
      /\ \A p \in Process : /\ runtimes[p] = {} /\ closing[p] = {} /\ lastUsed[p] = {}
                            /\ openDomains[p] = 0 /\ \A s \in Space : leases[p][s] = 0
      /\ \A s \in Space : exclusive[s] = None
  BY DEF InitCatalog, InitRegistry
<1>2. RegistryTypeOK
  BY DEF InitRegistry, RegistryTypeOK
<1>3. IsFiniteSet({}) /\ Cardinality({}) = 0
  BY FS_EmptySet
<1>4. \A p \in Process : Maintainers(p) = {} /\ Used(p) = {} /\ \A s \in Space : Leasers(p, s) = {}
  BY <1>1 DEF Maintainers, Used, Leasers
<1>5. Domains({}) = 0
  BY <1>3 DEF Domains, Stores
<1>6. Counted /\ ResidentWhileLeased /\ GateOwned /\ SoleMaintainer
  BY <1>1, <1>3, <1>4 DEF Counted, ResidentWhileLeased, GateOwned, SoleMaintainer
<1>7. AloneInMaintenance
  BY <1>1 DEF AloneInMaintenance
<1>8. WithinBudget
  <2>1. \A p \in Process : Domains(runtimes[p]) = 0 /\ Cardinality(runtimes[p]) = 0
    BY <1>1, <1>3, <1>5
  <2>2. 0 <= MaxDomains /\ 0 <= MaxSpaces
    BY RegistryAssumption
  <2>3. \A p \in Process : openDomains[p] = 0 /\ Used(p) = runtimes[p]
    BY <1>1, <1>4
  <2> QED
    BY ONLY <2>1, <2>2, <2>3 DEF WithinBudget
<1> QED
  BY <1>2, <1>6, <1>7, <1>8 DEF RegistryInv

SpaceInv == CatalogTypeOK /\ CatalogInv /\ RegistryTypeOK /\ RegistryInv

\* The four places that name a space and the runtime registries of all processes
\* keep their invariants in every interleaving of bindings, leases, maintenance
\* and stops (space_manifest.rs, product_store/spaces.rs, space_registry.rs).
THEOREM SpacesCorrect == Spec => []SpaceInv
<1>1. Init => SpaceInv
  BY CatalogInit, RegistryInit DEF Init, SpaceInv
<1>2. SpaceInv /\ [Next]_vars => SpaceInv'
  BY NextIsSpaceStep, CatalogStep, RegistryStep DEF SpaceInv
<1> QED
  BY <1>1, <1>2, PTL DEF Spec

\* The variables of the daemon stay in their domains (the state of the catalog,
\* the runtime registries and the job registry).
THEOREM TypeCorrect == Spec => []TypeOK
<1>1. SpaceInv /\ JobInv => TypeOK
  BY TwoTypes DEF SpaceInv, JobInv, TypeOK
<1> QED
  BY <1>1, SpacesCorrect, JobsCorrect, PTL

\* A space has one identity, whichever processes bind it at once and wherever
\* each of them stops (legacy.rs, read_or_create_legacy_id; lib.rs,
\* bind_legacy_personal_global and create_managed_root).
THEOREM IdentityIsOne == Spec => []OneIdentity
<1>1. SpaceInv => OneIdentity
  BY NamesAgree DEF SpaceInv
<1> QED
  BY <1>1, SpacesCorrect, PTL

\* Leased runtimes stay resident, maintenance is alone with its space in all
\* processes, the budget is kept and the gates are shut exactly during
\* maintenance (space_registry.rs).
THEOREM LeasesAreHonoured == Spec => []LeasesHonoured
<1>1. SpaceInv => LeasesHonoured
  BY DEF SpaceInv, RegistryInv, LeasesHonoured
<1> QED
  BY <1>1, SpacesCorrect, PTL
=============================================================================
