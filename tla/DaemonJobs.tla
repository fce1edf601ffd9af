------------------------------ MODULE DaemonJobs ------------------------------
(***************************************************************************)
(* The jobs of the daemon (openmemory-daemon: state.rs, backup.rs).  Every *)
(* change of a job is published in four steps under one mutex: in memory,  *)
(* in the job's durable row, as a durable event, and to the clients that   *)
(* listen.  Persisting may fail: the job goes on, and health reports that  *)
(* the registry is no longer durable.  A restore stages a copy of a backup *)
(* beside the profiles, parks the profile it replaces and puts the copy in *)
(* its place, while other restores and commands make profiles too.         *)
(*                                                                         *)
(* Abstractions.  A profile is a content; consolidations and backups are   *)
(* jobs that succeed or fail.  Copies, manifests and preflights are one    *)
(* step, and staging directories, whose names are unique, are left out.    *)
(***************************************************************************)
EXTENDS Naturals, FiniteSets, Sequences

CONSTANTS
  Job,          \* each queued at most once
  Restores,     \* those that restore, each from a backup of its own
  Profile,      \* also the content a profile has at first
  Target,       \* the profile of each restore
  Replace,      \* the restores with replace_existing
  New,          \* the content of a profile made by a command
  Nothing       \* in place of a profile, a job or an update that is not there

ASSUME JobAssumption ==
  /\ Restores \subseteq Job /\ Target \in [Restores -> Profile] /\ Replace \subseteq Restores
  /\ Nothing \notin Job \cup Profile \cup {New} /\ New \notin Job \cup Profile

VARIABLES
  serving,      \* the daemon runs
  jobs, nextSequence, attached, degraded,  \* JobRegistry: store is Some, durability_error
  jobRows, events,  \* product.sqlite: daemon_jobs and daemon_events
  update,       \* the update under event_order: its stage and its event
  worker,       \* where the worker of each job is
  heard,        \* history: events that clients got while health was good
  profiles,     \* the profile directories
  parked,       \* the .restore-previous directory of each restore
  held,         \* history: what each profile has held
  torn          \* history: profiles a crash or a second failure took away

registry == <<serving, jobs, nextSequence, attached, degraded, update>>
product  == <<jobRows, events, heard>>
data     == <<profiles, parked, held, torn>>
jobVars  == <<registry, product, worker, data>>

Rank     == [queued |-> 1, running |-> 2, succeeded |-> 3, failed |-> 3]
OrderSendFirst == <<"row", "send", "event">>
Order    == <<"row", "event", "send">>
Event    == [seq : Nat, job : Job, state : DOMAIN Rank]
Update   == [stage : DOMAIN Order, event : Event]
Content  == Profile \cup Restores \cup {New}

ASSUME UpdateAssumption == Nothing \notin Update

InitJobs ==
  /\ serving = FALSE /\ attached = FALSE /\ degraded = FALSE /\ update = Nothing
  /\ jobs = <<>> /\ jobRows = <<>> /\ nextSequence = 1
  /\ events = {} /\ heard = {}
  /\ worker = [j \in Job |-> "none"]
  /\ \E P \in SUBSET Profile :
       /\ profiles = [p \in Profile |-> IF p \in P THEN p ELSE Nothing]
       /\ held = {<<p, p>> : p \in P}
  /\ parked = [j \in Restores |-> Nothing] /\ torn = {}

Put(f, j, x) == [y \in DOMAIN f \cup {j} |-> IF y = j THEN x ELSE f[y]]
Step(j, l)   == worker' = [worker EXCEPT ![j] = l]

-----------------------------------------------------------------------------
(* JobRegistry *)

\* open: the durable jobs as they are, and the next number after the last
\* event; without a database the registry works in memory.
LastSequence == CHOOSE n \in {e.seq : e \in events} \cup {0} : \A e \in events : e.seq <= n
OpenRegistry ==
  /\ ~serving /\ serving' = TRUE
  /\ \/ /\ attached' = TRUE /\ degraded' = FALSE
        /\ jobs' = jobRows
        /\ nextSequence' = 1 + LastSequence
     \/ /\ attached' = FALSE /\ degraded' = TRUE
        /\ jobs' = <<>> /\ nextSequence' = 1
  /\ UNCHANGED <<update, worker, product, data>>

\* insert and update, up to the release of inner: the job and its event.
SetState(j, state) ==
  /\ serving /\ update = Nothing
  /\ jobs' = Put(jobs, j, state)
  /\ update' = [stage |-> 1, event |-> [seq |-> nextSequence, job |-> j, state |-> state]]
  /\ nextSequence' = nextSequence + 1
  /\ UNCHANGED <<serving, attached, degraded, product, data>>
\* enqueue in a handler, then mark_running, and what the worker came to.
Enqueue(j)     == worker[j] = "none" /\ SetState(j, "queued") /\ Step(j, "spawned")
MarkRunning(j) == worker[j] = "spawned" /\ SetState(j, "running") /\ Step(j, "check")
MarkOutcome(j) == worker[j] \in {"succeeded", "failed"} /\ SetState(j, worker[j]) /\ Step(j, "done")

\* persist_job, persist_event and send.  A failure is recorded, and no more;
\* sequence is the key of an event.  A registry in memory persists nothing.
Stage(l) == update # Nothing /\ Order[update.stage] = l
AdvancePast == update' = IF update.stage > Len(Order) THEN Nothing
                         ELSE [update EXCEPT !.stage = @ + 1]
Advance  == update' = IF update.stage = Len(Order) THEN Nothing
                      ELSE [update EXCEPT !.stage = @ + 1]
PersistJob ==
  /\ Stage("row") /\ Advance
  /\ jobRows' = IF attached THEN Put(jobRows, update.event.job, update.event.state) ELSE jobRows
  /\ UNCHANGED <<serving, jobs, nextSequence, attached, degraded, worker, events, heard, data>>
PersistEvent ==
  /\ Stage("event") /\ Advance
  /\ attached => \A e \in events : e.seq # update.event.seq
  /\ events' = IF attached THEN events \cup {update.event} ELSE events
  /\ UNCHANGED <<serving, jobs, nextSequence, attached, degraded, worker, jobRows, heard, data>>
PersistFails ==
  /\ attached /\ (Stage("row") \/ Stage("event"))
  /\ Advance /\ degraded' = TRUE
  /\ UNCHANGED <<serving, jobs, nextSequence, attached, worker, product, data>>
Broadcast ==
  /\ Stage("send") /\ Advance
  /\ heard' = IF degraded THEN heard ELSE heard \cup {update.event}
  /\ UNCHANGED <<serving, jobs, nextSequence, attached, degraded, worker, jobRows, events, data>>

-----------------------------------------------------------------------------
(* restore_blocking, and the other workers *)

OtherWorker(j) ==
  /\ j \notin Restores /\ worker[j] = "check"
  /\ \E l \in {"succeeded", "failed"} : Step(j, l)
  /\ UNCHANGED <<registry, product, data>>
\* The target is there and may not be replaced; or the copy is staged and its
\* store opened.
RestoreCheck(j) ==
  /\ j \in Restores /\ worker[j] = "check"
  /\ \/ Step(j, "failed")
     \/ (profiles[Target[j]] = Nothing \/ j \in Replace) /\ Step(j, "park")
  /\ UNCHANGED <<registry, product, data>>
\* What is in its place by now is renamed away, replaceable or not.
RestorePark(j) ==
  LET p == Target[j] IN
  /\ worker[j] = "park"
  /\ \/ /\ Step(j, "place")
        /\ parked' = [parked EXCEPT ![j] = profiles[p]]
        /\ profiles' = [profiles EXCEPT ![p] = Nothing]
     \/ profiles[p] # Nothing /\ Step(j, "failed") /\ UNCHANGED <<parked, profiles>>
  /\ UNCHANGED <<registry, product, held, torn>>
RestorePlace(j) ==
  LET p == Target[j] IN
  /\ worker[j] = "place" /\ profiles[p] = Nothing
  /\ \E l \in {"succeeded", "failed"} : Step(j, l)  \* the last fsync may fail
  /\ profiles' = [profiles EXCEPT ![p] = j] /\ held' = held \cup {<<p, j>>}
  /\ UNCHANGED <<registry, product, parked, torn>>
\* The rename fails, also because there is a profile again; what was parked
\* goes back if it can.
WayBackNone(j) == UNCHANGED <<profiles, parked>>
WayBack(j) ==
  LET p == Target[j] IN
  IF parked[j] # Nothing /\ profiles[p] = Nothing
  THEN profiles' = [profiles EXCEPT ![p] = parked[j]] /\ parked' = [parked EXCEPT ![j] = Nothing]
  ELSE UNCHANGED <<profiles, parked>>
RestorePlaceFails(j) ==
  /\ worker[j] = "place"
  /\ Step(j, "failed")
  /\ WayBack(j)
  /\ UNCHANGED <<registry, product, held, torn>>
\* So does the way back, or the fsync between the renames, which has none.
RestoreBothFail(j) ==
  /\ worker[j] = "place" /\ parked[j] # Nothing /\ profiles[Target[j]] = Nothing
  /\ Step(j, "failed") /\ torn' = torn \cup {Target[j]}
  /\ UNCHANGED <<registry, product, profiles, parked, held>>
\* A command makes a profile.
MakeProfile(p) ==
  /\ profiles[p] = Nothing
  /\ profiles' = [profiles EXCEPT ![p] = New] /\ held' = held \cup {<<p, New>>}
  /\ UNCHANGED <<registry, product, worker, parked, torn>>

\* The daemon stops: workers with it, and what they had not published.
Stop ==
  /\ serving /\ serving' = FALSE
  /\ attached' = FALSE /\ degraded' = FALSE /\ update' = Nothing
  /\ jobs' = <<>> /\ nextSequence' = 1
  /\ worker' = [j \in Job |-> IF worker[j] = "none" THEN "none" ELSE "gone"]
  /\ torn' = torn \cup {Target[j] : j \in {r \in Restores : worker[r] = "place" /\ parked[r] # Nothing}}
  /\ UNCHANGED <<product, profiles, parked, held>>

Restore(j) ==
  \/ RestoreCheck(j) \/ RestorePark(j) \/ RestorePlace(j) \/ RestorePlaceFails(j) \/ RestoreBothFail(j)

-----------------------------------------------------------------------------
(* Properties *)

\* Every variable in its domain.
JobTypeOK ==
  /\ \A f \in {jobs, jobRows} : f \in [DOMAIN f -> DOMAIN Rank] /\ DOMAIN f \subseteq Job
  /\ nextSequence \in Nat /\ {serving, attached, degraded} \subseteq BOOLEAN
  /\ events \subseteq Event
  /\ update \in Update \cup {Nothing}
  /\ worker \in [Job -> {"none", "spawned", "check", "park", "place", "succeeded", "failed", "done", "gone"}]
  /\ profiles \in [Profile -> Content \cup {Nothing}]
  /\ parked \in [Restores -> Content \cup {Nothing}]
  /\ held \subseteq Profile \X Content

\* As long as health says "job registry is durable", what clients hear survives
\* a restart: its events are durable under their numbers, and between updates
\* the durable rows are the jobs; and no client sees a job go back.
HealthHonest ==
  /\ heard \subseteq events
  /\ serving /\ ~degraded /\ update = Nothing => jobs = jobRows
  /\ \A e, f \in events : e.job = f.job /\ e.seq < f.seq => Rank[e.state] < Rank[f.state]

\* Restores destroy nothing: what a profile has held is a profile or parked;
\* and a profile that has been there is there, but for the moment between the
\* two renames of a restore, which a crash or a failing way back can make last.
RestoreKeeps ==
  /\ {x[2] : x \in held} \subseteq {profiles[p] : p \in Profile} \cup {parked[j] : j \in Restores}
  /\ \A p \in {x[1] : x \in held} \ torn :
       profiles[p] = Nothing =>
         \E j \in Restores : worker[j] = "place" /\ Target[j] = p /\ parked[j] # Nothing
=============================================================================
