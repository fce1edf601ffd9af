----------------------------- MODULE SpaceRegistry -----------------------------
(***************************************************************************)
(* The runtime registry (openmemory-daemon, space_registry.rs): each       *)
(* process keeps a bounded number of spaces open, leases them to its       *)
(* threads, evicts the least recently used one that nobody leases, and     *)
(* closes a space for maintenance under an exclusive file lock.  Every     *)
(* open runtime holds the shared lock of its space until the last          *)
(* reference to it is dropped, which a thread does after it has given its  *)
(* lease back: a space may be closed, and even opened again, while an      *)
(* earlier runtime of it is still being dropped.                           *)
(*                                                                         *)
(* Abstractions.  Graph connections and index handles are multiples of the *)
(* domains, and context engines and flushers are never requested: the      *)
(* budget is spaces and domains.  acquire holds the registry's mutex from  *)
(* the lookup to the lease and is one step.                                *)
(***************************************************************************)
EXTENDS SpaceCatalog

CONSTANTS
  DomainCount,  \* of each space
  MaxSpaces, MaxDomains

ASSUME RegistryAssumption ==
  /\ DomainCount \in [Space -> Nat \ {0}]
  /\ MaxSpaces \in Nat \ {0} /\ MaxDomains \in Nat \ {0}
  /\ None \notin Thread

VARIABLES
  runtimes, leases, openDomains, closing,  \* RegistryInner of each process
  lastUsed,     \* <<x, y>>: the last tick of x is not after the one of y
  exclusive     \* the thread that holds the exclusive lock of each space, or None

registryVars == <<runtimes, leases, openDomains, closing, lastUsed, exclusive>>

InitRegistry ==
  /\ runtimes = [p \in Process |-> {}] /\ closing = [p \in Process |-> {}]
  /\ leases = [p \in Process |-> [s \in Space |-> 0]]
  /\ lastUsed = [p \in Process |-> {}]
  /\ openDomains = [p \in Process |-> 0]
  /\ exclusive = [s \in Space |-> None]

\* The stores of the spaces in S, and how many they are.
Stores(S)   == UNION {{s} \X (1..DomainCount[s]) : s \in S}
Domains(S)  == Cardinality(Stores(S))
Used(p)     == {s \in Space : <<s, s>> \in lastUsed[p]}
Without(p, out) == {e \in lastUsed[p] : e[1] \notin out /\ e[2] \notin out}
Latest(S, s) == (S \cup {s}) \X {s}
Touch(p, s) == Without(p, {s}) \cup Latest(Used(p), s)
\* Threads that reach a runtime: with a lease, or dropping their reference.
Holds(t, s)  == pc[t] \in {"leased", "dropping"} /\ at[t] = s
Lives(p, s)  == s \in runtimes[p] \/ \E t \in Thread : ProcessOf[t] = p /\ Holds(t, s)
SharedBy(s)  == {p \in Process : Lives(p, s)}

-----------------------------------------------------------------------------
(* acquire and the lease *)

\* reserve_capacity evicts these, least recently used first, until the space
\* fits, and gives up when there are none left.
EvictableAny(p) == Used(p) \ {Legacy}
Evictable(p)    == {s \in Used(p) \ {Legacy} : leases[p][s] = 0}
Fits(p, out, s) ==
  /\ Cardinality(runtimes[p] \ out) < MaxSpaces
  /\ openDomains[p] - Domains(out) + DomainCount[s] <= MaxDomains
FirstOf(p, n) ==
  {s \in Evictable(p) : Cardinality({x \in Evictable(p) : <<x, s>> \in lastUsed[p]}) <= n}
Enough(p, n, s) == Fits(p, FirstOf(p, n), s) /\ \A m \in 0..n - 1 : ~Fits(p, FirstOf(p, m), s)

\* Nothing is evicted for a space that would not fit into an empty registry.
Most(p, s) == IF DomainCount[s] > MaxDomains THEN 0 ELSE Cardinality(Evictable(p))

Answer(t, l) == /\ Goto(t, l)
                /\ UNCHANGED <<disk, id, mix, exclusive, closing>>
Evict(p, out) ==
  /\ runtimes' = [runtimes EXCEPT ![p] = @ \ out]
  /\ lastUsed' = [lastUsed EXCEPT ![p] = Without(p, out)]
  /\ openDomains' = [openDomains EXCEPT ![p] = @ - Domains(out)]

\* A resident runtime is leased as it is.
AcquireOpen(t) ==
  LET p == ProcessOf[t] IN
  /\ \E s \in runtimes[p] \ closing[p] :
       /\ Begin(t, "acquire", s)
       /\ leases' = [leases EXCEPT ![p][s] = @ + 1]
       /\ lastUsed' = [lastUsed EXCEPT ![p] = Touch(p, s)]
  /\ Answer(t, "leased")
  /\ UNCHANGED <<runtimes, openDomains, faults>>
\* Another is opened once there is room and its lock is free.
Openable(p, s) == s \notin runtimes[p] \cup closing[p] /\ Active(s)
AcquireNew(t) ==
  LET p == ProcessOf[t] IN
  /\ \E s \in Space, n \in 0..Cardinality(Evictable(p)) :
       LET out == FirstOf(p, n) IN
       /\ Openable(p, s) /\ DomainCount[s] <= MaxDomains /\ Enough(p, n, s)
       /\ exclusive[s] = None
       /\ Begin(t, "acquire", s)
       /\ runtimes' = [runtimes EXCEPT ![p] = (@ \ out) \cup {s}]
       /\ lastUsed' = [lastUsed EXCEPT ![p] = Without(p, out) \cup Latest(Used(p) \ out, s)]
       /\ openDomains' = [openDomains EXCEPT ![p] = @ - Domains(out) + DomainCount[s]]
       /\ leases' = [leases EXCEPT ![p][s] = 1]
  /\ Answer(t, "leased")
  /\ UNCHANGED faults
\* There is no room, the lock is taken, or a flush or the opening fails: what
\* was evicted until then stays so.
AcquireFails(t) ==
  LET p == ProcessOf[t] IN
  /\ \E s \in Space, n \in 0..Cardinality(Evictable(p)) :
       /\ Openable(p, s) /\ Begin(t, "acquire", s)
       /\ n <= Most(p, s)
       /\ \/ /\ n = Most(p, s) /\ ~\E m \in 0..n : Enough(p, m, s)
             /\ UNCHANGED faults
          \/ /\ Enough(p, n, s) /\ exclusive[s] # None /\ UNCHANGED faults
          \/ /\ \A m \in 0..n - 1 : ~Enough(p, m, s)
             /\ Fault
       /\ Evict(p, FirstOf(p, n))
  /\ Answer(t, "idle")
  /\ UNCHANGED leases

\* RuntimeLease::drop gives the lease back; its reference to the runtime goes
\* after that, when the mutex is free again.
GiveBack(t) ==
  LET p == ProcessOf[t] IN
  /\ pc[t] = "leased" /\ "serve" \notin mix.calls[t]
  /\ leases' = [leases EXCEPT ![p][at[t]] = @ - 1]
  /\ lastUsed' = [lastUsed EXCEPT ![p] = Touch(p, at[t])]
  /\ Answer(t, "dropping")
  /\ UNCHANGED <<at, faults, runtimes, openDomains>>
DropRuntime(t) ==
  /\ pc[t] = "dropping"
  /\ Answer(t, "idle")
  /\ UNCHANGED <<at, faults, runtimes, leases, lastUsed, openDomains>>

-----------------------------------------------------------------------------
(* close_for_maintenance and the exclusive lease *)

MayClose(p, s) == s \notin closing[p] /\ leases[p][s] = 0
CloseForMaintenance(t) ==
  LET p == ProcessOf[t] IN
  /\ \E s \in Space :
       /\ Active(s) /\ MayClose(p, s)
       /\ Begin(t, "maintain", s)
       /\ closing' = [closing EXCEPT ![p] = @ \cup {s}]
       /\ Evict(p, {s} \cap runtimes[p])
  /\ Goto(t, "lock")
  /\ UNCHANGED <<disk, id, mix, faults, leases, exclusive>>
\* The lock may be held by another process, or still by a runtime of this one.
LockFreeOfOthers(t, s) == exclusive[s] = None /\ SharedBy(s) \subseteq {ProcessOf[t]}
LockFree(t, s) == exclusive[s] = None /\ SharedBy(s) = {}
LockExclusive(t) ==
  LET s == at[t] IN
  /\ pc[t] = "lock"
  /\ \/ /\ LockFree(t, s)
        /\ exclusive' = [exclusive EXCEPT ![s] = t] /\ Goto(t, "exclusive")
        /\ UNCHANGED <<closing, faults>>
     \/ /\ IF LockFree(t, s) THEN Fault ELSE UNCHANGED faults
        /\ closing' = [closing EXCEPT ![ProcessOf[t]] = @ \ {s}] /\ Goto(t, "idle")
        /\ UNCHANGED exclusive
  /\ UNCHANGED <<disk, at, id, mix, runtimes, leases, lastUsed, openDomains>>
\* ExclusiveSpaceLease::drop: the lock, then the gate.
Unlock(t) ==
  /\ pc[t] = "exclusive"
  /\ exclusive' = [exclusive EXCEPT ![at[t]] = None] /\ Goto(t, "reopen")
  /\ UNCHANGED <<disk, at, id, mix, faults, runtimes, leases, lastUsed, openDomains, closing>>
Reopen(t) ==
  /\ pc[t] = "reopen"
  /\ closing' = [closing EXCEPT ![ProcessOf[t]] = @ \ {at[t]}] /\ Goto(t, "idle")
  /\ UNCHANGED <<disk, at, id, mix, faults, runtimes, leases, lastUsed, openDomains, exclusive>>

Registry(t) ==
  \/ AcquireOpen(t) \/ AcquireNew(t) \/ AcquireFails(t) \/ GiveBack(t) \/ DropRuntime(t)
  \/ CloseForMaintenance(t) \/ LockExclusive(t) \/ Unlock(t) \/ Reopen(t)

-----------------------------------------------------------------------------
(* Properties *)

\* Every variable in its domain.
SpaceTypeOK ==
  /\ idFile \in Id \cup {None, Torn}
  /\ row \in [Space -> Row \cup {None}]
  /\ {manifest, bound} \subseteq [Space -> Id \cup Space \cup {None}]
  /\ at \in [Thread -> Space] /\ id \in [Thread -> Id \cup Space \cup {None}]
  /\ pc \in [Thread -> BindingStep \cup {"idle", "leased", "dropping", "lock", "exclusive", "reopen"}]
  /\ {runtimes, closing} \subseteq [Process -> SUBSET Space]
  /\ leases \in [Process -> [Space -> Nat]] /\ openDomains \in [Process -> Nat]
  /\ lastUsed \in [Process -> SUBSET (Space \X Space)]
  /\ exclusive \in [Space -> Thread \cup {None}]

Leasers(p, s)  == {t \in Thread : ProcessOf[t] = p /\ pc[t] = "leased" /\ at[t] = s}
Maintainers(p) == {t \in Thread : ProcessOf[t] = p /\ pc[t] \in {"lock", "exclusive", "reopen"}}

\* A leased runtime is resident: neither an eviction nor maintenance takes it.
ResidentWhileLeased ==
  \A p \in Process, s \in Space :
    /\ leases[p][s] = Cardinality(Leasers(p, s))
    /\ Leasers(p, s) # {} => s \in runtimes[p] \ closing[p]
\* Whoever maintains a space has its exclusive lock, and has the space to himself:
\* no runtime of it lives in any process.
AloneInMaintenance ==
  /\ \A t \in Thread : pc[t] = "exclusive" => exclusive[at[t]] = t
  /\ \A s \in Space : exclusive[s] # None => SharedBy(s) = {}
\* The counters are those of the resident runtimes, and within the limits.
WithinBudget ==
  \A p \in Process :
    /\ openDomains[p] = Domains(runtimes[p]) /\ openDomains[p] <= MaxDomains
    /\ Cardinality(runtimes[p]) <= MaxSpaces
    /\ Used(p) = runtimes[p]
\* The gate is shut exactly as long as a thread of the process maintains the space.
GateOwned == \A p \in Process : closing[p] = {at[t] : t \in Maintainers(p)}

\* What leases promise, across threads and processes, evictions, failures and
\* the late drop of a runtime.
LeasesHonoured == ResidentWhileLeased /\ AloneInMaintenance /\ WithinBudget /\ GateOwned
=============================================================================
