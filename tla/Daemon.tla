--------------------------------- MODULE Daemon ---------------------------------
(***************************************************************************)
(* openmemory-daemon as a whole (lib.rs): processes that bind the personal *)
(* space, keep spaces open through their registry, and, in the one that    *)
(* serves, run jobs.  A job that needs the store starts only while the     *)
(* server has the personal space leased, as it does from its start to its  *)
(* end; a restore needs no store.  A process that stops leaves its files.  *)
(***************************************************************************)
EXTENDS SpaceRegistry, DaemonJobs

CONSTANT Server  \* the process of the daemon

ASSUME DaemonAssumption == Server \in Process

vars == <<catalogVars, registryVars, jobVars>>

Init == InitCatalog /\ InitRegistry /\ InitJobs

\* open_active_store
StoreReady == \E t \in Thread : ProcessOf[t] = Server /\ pc[t] = "leased" /\ at[t] = Legacy
StartJob(j) == j \in mix.jobs /\ (j \in Restores \/ StoreReady) /\ Enqueue(j)

\* The end of a process: a crash, or the shutdown of a server with nothing to do.
Quiet == serving /\ update = Nothing /\ \A j \in Job : worker[j] \in {"none", "done", "gone"}
Crash(p) ==
  LET mine == {t \in Thread : ProcessOf[t] = p} IN
  /\ IF p = Server /\ Quiet THEN UNCHANGED faults ELSE Fault
  /\ pc' = [t \in Thread |-> IF t \in mine THEN "idle" ELSE pc[t]]
  /\ exclusive' = [s \in Space |-> IF exclusive[s] \in mine THEN None ELSE exclusive[s]]
  /\ runtimes' = [runtimes EXCEPT ![p] = {}] /\ closing' = [closing EXCEPT ![p] = {}]
  /\ leases' = [leases EXCEPT ![p] = [s \in Space |-> 0]]
  /\ lastUsed' = [lastUsed EXCEPT ![p] = {}] /\ openDomains' = [openDomains EXCEPT ![p] = 0]
  /\ IF p = Server /\ serving THEN Stop ELSE UNCHANGED jobVars
  /\ UNCHANGED <<disk, at, id, mix>>

Spaces(t) == (Catalog(t) /\ UNCHANGED registryVars) \/ Registry(t)
Jobs ==
  \/ OpenRegistry
  \/ \E j \in Job : StartJob(j) \/ MarkRunning(j) \/ MarkOutcome(j) \/ OtherWorker(j)
  \/ \E j \in Restores : Restore(j)
  \/ PersistJob \/ PersistEvent \/ Broadcast
  \/ \E p \in Profile : MakeProfile(p)
Next ==
  \/ \E t \in Thread : Spaces(t) /\ UNCHANGED <<jobVars, mix>>
  \/ mix.jobs # {} /\ Jobs /\ UNCHANGED <<catalogVars, registryVars>>
  \/ PersistFails /\ Fault /\ UNCHANGED <<disk, pc, at, id, mix, registryVars>>
  \/ \E p \in Process : Crash(p)

Spec == Init /\ [][Next]_vars

-----------------------------------------------------------------------------
(* Properties *)

\* Every variable in its domain.
TypeOK == SpaceTypeOK /\ JobTypeOK
=============================================================================
