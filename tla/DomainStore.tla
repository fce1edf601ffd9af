----------------------------- MODULE DomainStore -----------------------------
(***************************************************************************)
(* DomainStore (openmemory-engine, partition.rs): a profile split into K   *)
(* memory stores behind one facade.  An entity lives in the domain its     *)
(* name hashes to.  An edge between two domains is written twice: in the   *)
(* domain of its source, to a stub of its target, and as a mirror in the   *)
(* domain of its target, from a stub of its source.  Every store commits   *)
(* for itself, so a call of the facade is several steps: the mirror, the   *)
(* home commit, the sweeps of the other domains, and last the bump of the  *)
(* write version that invalidates cached recalls.  Calls by id take the id *)
(* of any row, a stub's too, and take the domain of that row for the home. *)
(*                                                                         *)
(* Abstractions.  A store is its entity rows, its live observations        *)
(* (facts) and its live edges; a name has one entity; a batch is one       *)
(* request with at most one fact and one relation; repeated edges are one. *)
(* A recall asks for everything: ranking, filters, top_k and spreading are *)
(* left out, and so is free text in the index, which takes the path of     *)
(* forget.  A commit is one step, with the index it has to update.         *)
(***************************************************************************)
EXTENDS Naturals, FiniteSets

CONSTANTS
  Entity,
  Fact,         \* observations, each written at most once
  FactOf,       \* the entity of each
  Home,         \* Home[k][e]: the domain of e among k (domain_for)
  NoFact, NoEntity,
  Thread,
  Journaled,    \* threads that are an engine's flusher, with a journal: they remember
  NoEntry,
  Mixes         \* the workloads, one of which a behaviour has: the calls of
                \* each thread, what they remember, the numbers of domains,
                \* and the bounds: facade writes, failures (failed commits and
                \* crashes)

ASSUME FactAssumption == FactOf \in [Fact -> Entity] /\ NoFact \notin Fact
ASSUME HomeAssumption ==
  \A k \in DOMAIN Home : k \in Nat \ {0} /\ Home[k] \in [Entity -> 1..k]
ASSUME EntityAssumption == NoEntity \notin Entity /\ Journaled \subseteq Thread

Request == {r \in [entity : Entity, fact : Fact \cup {NoFact}, target : Entity \cup {NoEntity}] :
              /\ r.fact = NoFact \/ FactOf[r.fact] = r.entity
              /\ r.fact # NoFact \/ r.target # NoEntity}
ASSUME MixAssumption ==
  \A m \in Mixes : /\ m.domains \subseteq DOMAIN Home /\ m.requests \subseteq Request
                   /\ \A t \in Journaled : m.calls[t] \subseteq {"remember"}

VARIABLES
  opened,       \* a process has the profile open
  db,           \* k and the stores
  version,      \* write_version
  cache,        \* the recall cache: one entry, for the one query
  pc, job,      \* each thread, and the call it is in
  journal,      \* requests journaled and not applied
  acked,        \* history: facts whose write was acknowledged
  gone,         \* history: facts whose removal was acknowledged
  torn,         \* history: edges a failure or a stub's id has left on one side
  raced,        \* history: entities forgotten while they were being written
  strayed,      \* history: entities written by a stub's id whose row was gone
  mix, failures \* environment: the workload, the failures so far

stores  == <<db, journal>>
history == <<acked, gone, torn>>
storeVars == <<opened, db, version, cache, pc, job, journal, history, raced, strayed,
               mix, failures>>

\* at: the domain of a batch, or of the row a forget begins with.
NoJob   == [req |-> <<>>, at |-> 0, gone |-> {}, entity |-> NoEntity, left |-> {},
            version |-> 0, hits |-> {}, acked |-> {}]
Empty   == [rows |-> <<>>, facts |-> {}, edges |-> {}]
Edge    == Entity \X Entity
Pc      == {"idle", "mirror", "home", "sweep", "tidy", "bump", "fan", "answered"}

Domain     == 1..db.k
HomeOf(e)  == Home[db.k][e]
Known(d)   == DOMAIN db.stores[d].rows
EdgeOf(r)  == <<r.entity, r.target>>
Crosses(r, d) == r.target # NoEntity /\ HomeOf(r.target) # d
Incident(e) == {x \in Edge : x[1] = e \/ x[2] = e}

InitStore ==
  /\ opened = FALSE
  /\ mix \in Mixes
  /\ \E k \in mix.domains : db = [k |-> k, stores |-> [d \in 1..k |-> Empty]]
  /\ version = 0 /\ cache = NoEntry
  /\ pc = [t \in Thread |-> "idle"] /\ job = [t \in Thread |-> NoJob]
  /\ journal = {}
  /\ acked = {} /\ gone = {} /\ torn = {} /\ raced = {} /\ strayed = {}
  /\ failures = 0

-----------------------------------------------------------------------------
Fault     == failures < mix.failures /\ failures' = failures + 1
Goto(t, l) == pc' = [pc EXCEPT ![t] = l]
Do(t, j)  == job' = [job EXCEPT ![t] = j]
Ready(t, call) ==
  opened /\ pc[t] = "idle" /\ call \in mix.calls[t] /\ version < mix.writes
Store(d, s) == db' = [db EXCEPT !.stores[d] = s]
Finish(t) == Goto(t, "idle") /\ Do(t, NoJob)

\* ensure_entity: a row that exists is taken as it is.
AddRow(rows, e, how) ==
  [x \in DOMAIN rows \cup {e} |-> IF x \in DOMAIN rows THEN rows[x] ELSE how]
Drop(s, e) ==
  [rows  |-> [x \in DOMAIN s.rows \ {e} |-> s.rows[x]],
   facts |-> {f \in s.facts : FactOf[f] # e},
   edges |-> s.edges \ Incident(e)]

\* plan_batch: what a request adds to the domain of its target, and to its own.
\* A group of relations has no observation.
ObservedAlways(r) == {r.fact}
Observed(r) == {r.fact} \ {NoFact}
WithMirrorCanonical(s, r) ==
  [s EXCEPT !.rows = AddRow(AddRow(@, r.entity, "canonical"), r.target, "canonical"),
            !.edges = @ \cup {EdgeOf(r)}]
WithMirror(s, r) ==
  [s EXCEPT !.rows = AddRow(AddRow(@, r.entity, "stub"), r.target, "canonical"),
            !.edges = @ \cup {EdgeOf(r)}]
WithHome(s, r, d) ==
  LET stubs == IF Crosses(r, d) THEN AddRow(s.rows, r.target, "stub") ELSE s.rows
      rows  == AddRow(stubs, r.entity, "canonical") IN
  [rows  |-> IF r.target = NoEntity THEN rows ELSE AddRow(rows, r.target, "canonical"),
   facts |-> s.facts \cup Observed(r),
   edges |-> s.edges \cup (IF r.target = NoEntity THEN {} ELSE {EdgeOf(r)})]

\* remember and remember_batch_in_domain_with_options, in domain d: the mirror
\* first, and its failure only logged; then the home commit; then the bump.
Start(r, d) == IF Crosses(r, d) THEN "mirror" ELSE "home"
StartWrite(t, r, d) ==
  /\ Goto(t, Start(r, d))
  /\ Do(t, [NoJob EXCEPT !.req = r, !.at = d])
Unwritten(f) ==
  /\ \A d \in Domain : f \notin db.stores[d].facts
  /\ f \notin acked \cup gone
  /\ \A t \in Thread : f \notin job[t].gone /\ (job[t].req # <<>> => job[t].req.fact # f)
Remember(t) ==
  /\ Ready(t, "remember")
  /\ \E r \in mix.requests : /\ r.fact # NoFact => Unwritten(r.fact)
                            /\ StartWrite(t, r, HomeOf(r.entity))
  /\ UNCHANGED <<opened, stores, version, cache, history, failures>>
MirrorCommit(t) ==
  /\ pc[t] = "mirror"
  /\ LET d == HomeOf(job[t].req.target) IN Store(d, WithMirror(db.stores[d], job[t].req))
  /\ Goto(t, "home")
  /\ UNCHANGED <<opened, journal, version, cache, job, history, failures>>
MirrorFails(t) ==
  /\ pc[t] = "mirror" /\ Fault
  /\ torn' = torn \cup {EdgeOf(job[t].req)}
  /\ Goto(t, "home")
  /\ UNCHANGED <<opened, stores, version, cache, job, acked, gone>>
HomeCommit(t) ==
  /\ pc[t] = "home"
  /\ LET d == job[t].at IN Store(d, WithHome(db.stores[d], job[t].req, d))
  /\ Goto(t, "bump")
  /\ UNCHANGED <<opened, journal, version, cache, job, history, failures>>
HomeFails(t) ==
  /\ pc[t] = "home" /\ Fault
  /\ torn' = IF Crosses(job[t].req, job[t].at) THEN torn \cup {EdgeOf(job[t].req)} ELSE torn
  /\ Finish(t)
  /\ UNCHANGED <<opened, stores, version, cache, acked, gone>>
\* bump_write_version, and the answer to the caller.
Bump(t) ==
  /\ pc[t] = "bump"
  /\ version' = version + 1
  /\ acked' = acked \cup {f \in Fact : job[t].req # <<>> /\ job[t].req.fact = f}
  /\ gone' = gone \cup job[t].gone
  /\ Finish(t)
  /\ UNCHANGED <<opened, stores, cache, torn, failures>>

\* add_relation, by the ids of two rows, in whichever domains those are: an
\* edge in the one they share, or a batch in the domain of the first.  A stub's
\* id, which the edges of an entity show, leaves out the home of that entity.
AddRelation(t) ==
  /\ Ready(t, "add_relation")
  /\ \E d, c \in Domain : \E from \in Known(d), to \in Known(c) :
       /\ \/ /\ d = c /\ from # to
             /\ Store(d, [db.stores[d] EXCEPT !.edges = @ \cup {<<from, to>>}])
             /\ Goto(t, "bump") /\ UNCHANGED job
          \/ /\ d # c
             /\ StartWrite(t, [entity |-> from, fact |-> NoFact, target |-> to], d)
             /\ UNCHANGED db
       /\ torn' = IF HomeOf(from) # d \/ (d = c /\ HomeOf(to) # d)
                  THEN torn \cup {<<from, to>>} ELSE torn
  /\ UNCHANGED <<opened, journal, version, cache, acked, gone, failures>>

-----------------------------------------------------------------------------
(* Removal *)

\* forget and set_observation_memory_tier (one observation, in whichever domain
\* holds it) and retire_entity_observations.
Forget(t) ==
  /\ Ready(t, "forget")
  /\ \E d \in Domain, S \in {{f} : f \in Fact} \cup {{f \in Fact : FactOf[f] = e} : e \in Entity} :
       LET out == S \cap db.stores[d].facts IN
       /\ out # {}
       /\ Store(d, [db.stores[d] EXCEPT !.facts = @ \ out])
       /\ Do(t, [NoJob EXCEPT !.gone = out])
  /\ Goto(t, "bump")
  /\ UNCHANGED <<opened, journal, version, cache, history, failures>>

\* The domains to sweep, in their order.
ElsewhereOneShort(d) == (1..db.k - 1) \ {d}
Elsewhere(d) == Domain \ {d}

\* forget_entity, of the row in its home, and forget_entity_by_id, of any row:
\* that row, then the stubs of its name in the other domains.  A failing sweep
\* returns at once.
ForgetEntity(t) ==
  /\ Ready(t, "forget_entity")
  /\ \E d \in Domain : \E e \in Known(d) :
       /\ Store(d, Drop(db.stores[d], e))
       /\ Do(t, [NoJob EXCEPT !.entity = e, !.at = d, !.left = Elsewhere(d),
                   !.gone = {f \in db.stores[d].facts : FactOf[f] = e}])
       /\ torn' = IF HomeOf(e) = d THEN torn ELSE torn \cup Incident(e)
  /\ Goto(t, "sweep")
  /\ UNCHANGED <<opened, journal, version, cache, acked, gone, failures>>
SweepStub(t) ==
  /\ pc[t] = "sweep"
  /\ \E d \in job[t].left :
       LET e    == job[t].entity
           stub == e \in Known(d) /\ db.stores[d].rows[e] = "stub" IN
       /\ \A x \in job[t].left : d <= x
       /\ Store(d, IF stub THEN Drop(db.stores[d], e) ELSE db.stores[d])
       /\ Do(t, [job[t] EXCEPT !.left = @ \ {d}, !.gone = @ \cup
                   (IF stub THEN {f \in db.stores[d].facts : FactOf[f] = e} ELSE {})])
  /\ UNCHANGED <<opened, journal, version, cache, pc, history, failures>>
SweepFails(t) ==
  /\ pc[t] = "sweep" /\ job[t].left # {} /\ Fault
  /\ torn' = torn \cup Incident(job[t].entity)
  /\ Finish(t)
  /\ UNCHANGED <<opened, stores, version, cache, acked, gone>>

\* consolidate and prune_with_ttl, domain by domain: some observations fade and
\* some of the entities with neither observations nor edges go.
Tidy(t) ==
  /\ Ready(t, "tidy")
  /\ Goto(t, "tidy") /\ Do(t, [NoJob EXCEPT !.left = Domain])
  /\ UNCHANGED <<opened, stores, version, cache, history, failures>>
TidyDomain(t) ==
  /\ pc[t] = "tidy"
  /\ \E d \in job[t].left, S \in SUBSET Fact, R \in SUBSET Entity :
       LET s == db.stores[d] IN
       /\ \A x \in job[t].left : d <= x
       /\ S \subseteq s.facts
       /\ R \subseteq {e \in Known(d) : /\ s.edges \cap Incident(e) = {}
                                        /\ \A f \in s.facts \ S : FactOf[f] # e}
       /\ Store(d, [s EXCEPT !.facts = @ \ S, !.rows = [e \in DOMAIN @ \ R |-> @[e]]])
       /\ Do(t, [job[t] EXCEPT !.left = @ \ {d}, !.gone = @ \cup S])
  /\ UNCHANGED <<opened, journal, version, cache, pc, history, failures>>
TidyFails(t) ==
  /\ pc[t] = "tidy" /\ job[t].left # {} /\ Fault
  /\ Finish(t)
  /\ UNCHANGED <<opened, stores, version, cache, history>>
AllVisited(t) ==
  /\ pc[t] \in {"sweep", "tidy"} /\ job[t].left = {}
  /\ Goto(t, "bump")
  /\ UNCHANGED <<opened, stores, version, cache, job, history, failures>>

-----------------------------------------------------------------------------
(* Recall *)

RecallStart(t) ==
  /\ opened /\ pc[t] = "idle" /\ "recall" \in mix.calls[t]
  /\ LET j == [NoJob EXCEPT !.version = version, !.acked = acked, !.gone = gone] IN
     IF db.k > 1 /\ cache # NoEntry /\ cache.version = version
     THEN Do(t, [j EXCEPT !.hits = cache.hits]) /\ Goto(t, "answered")
     ELSE Do(t, [j EXCEPT !.left = Domain]) /\ Goto(t, "fan")
  /\ UNCHANGED <<opened, stores, version, cache, history, failures>>
RecallDomain(t) ==
  /\ pc[t] = "fan"
  /\ \E d \in job[t].left :
       Do(t, [job[t] EXCEPT !.left = @ \ {d}, !.hits = @ \cup db.stores[d].facts])
  /\ UNCHANGED <<opened, stores, version, cache, pc, history, failures>>
\* An entry is valid for the version read before the domains were.
TagLate(t) == version
Tag(t) == job[t].version
RecallPut(t) ==
  /\ pc[t] = "fan" /\ job[t].left = {}
  /\ cache' = IF db.k > 1 THEN [version |-> Tag(t), hits |-> job[t].hits] ELSE cache
  /\ Goto(t, "answered")
  /\ UNCHANGED <<opened, stores, version, job, history, failures>>
RecallDone(t) ==
  /\ pc[t] = "answered"
  /\ Finish(t)
  /\ UNCHANGED <<opened, stores, version, cache, history, failures>>
\* The entry is evicted, or older than its time to live.
CacheExpires ==
  /\ cache # NoEntry /\ cache' = NoEntry
  /\ UNCHANGED <<opened, stores, version, pc, job, history, failures>>

-----------------------------------------------------------------------------
(* Processes *)

\* An engine that opens the profile replays what its journal holds, each flusher
\* its own.  The write version starts anywhere: it is compared with entries of
\* the cache only.
Open ==
  /\ ~opened /\ opened' = TRUE
  /\ cache' = NoEntry
  /\ \E S \in SUBSET Journaled, replay \in [Journaled -> journal \cup {<<>>}] :
       /\ {replay[t] : t \in S} = journal
       /\ \A t \in Journaled : replay[t] = <<>> <=> t \notin S
       /\ \A t, u \in S : replay[t] = replay[u] => t = u
       /\ LET home(t) == HomeOf(replay[t].entity) IN
          /\ job' = [t \in Thread |-> IF t \in S THEN [NoJob EXCEPT !.req = replay[t], !.at = home(t)]
                                      ELSE NoJob]
          /\ pc' = [t \in Thread |-> IF t \in S THEN Start(replay[t], home(t)) ELSE "idle"]
  /\ journal' = {}
  /\ UNCHANGED <<db, version, history, failures>>
Close ==
  /\ opened /\ opened' = FALSE
  /\ \A t \in Thread : pc[t] = "idle"
  /\ UNCHANGED <<stores, version, cache, pc, job, history, failures>>
Crash ==
  /\ opened /\ opened' = FALSE /\ Fault
  /\ LET writing(t) == pc[t] \in {"mirror", "home"} IN
     /\ journal' = {job[t].req : t \in {u \in Journaled : writing(u)}}
     /\ torn' = torn \cup {EdgeOf(job[t].req) : t \in {u \in Thread \ Journaled :
                                                        writing(u) /\ Crosses(job[u].req, job[u].at)}}
                     \cup UNION {Incident(job[t].entity) : t \in {u \in Thread : pc[u] = "sweep"}}
  /\ pc' = [t \in Thread |-> "idle"] /\ job' = [t \in Thread |-> NoJob]
  /\ UNCHANGED <<db, version, cache, acked, gone>>

\* Who is being written while it is being forgotten.
Writing(e) ==
  \/ \E t \in Thread : job[t].req # <<>> /\ e \in {job[t].req.entity, job[t].req.target}
  \/ \E r \in journal : e \in {r.entity, r.target}
Forgetting(e) == \E t \in Thread : job[t].entity = e
Overlap == {e \in Entity : Writing(e) /\ Forgetting(e)}
\* Whose row a batch in another domain than its home has lost: the mirror would
\* add it as a stub at home, the home commit as a canonical row away from home.
Astray ==
  {e \in Entity : \E t \in Thread :
     /\ job[t].req # <<>> /\ job[t].req.entity = e /\ job[t].at # HomeOf(e)
     /\ \/ pc[t] = "mirror" /\ HomeOf(job[t].req.target) = HomeOf(e) /\ e \notin Known(HomeOf(e))
        \/ pc[t] = "home" /\ e \notin Known(job[t].at)}

Call(t) ==
  \/ Remember(t) \/ MirrorCommit(t) \/ MirrorFails(t) \/ HomeCommit(t) \/ HomeFails(t)
  \/ Bump(t) \/ AddRelation(t) \/ Forget(t) \/ ForgetEntity(t) \/ SweepStub(t) \/ SweepFails(t)
  \/ Tidy(t) \/ TidyDomain(t) \/ TidyFails(t) \/ AllVisited(t)
  \/ RecallStart(t) \/ RecallDomain(t) \/ RecallPut(t) \/ RecallDone(t)
NextStore ==
  /\ (\E t \in Thread : Call(t)) \/ CacheExpires \/ Open \/ Close \/ Crash
  /\ raced' = raced \cup Overlap' /\ strayed' = strayed \cup Astray
  /\ UNCHANGED mix

-----------------------------------------------------------------------------
(* Properties *)

\* Every variable in its domain; rows name each entity once per store.
StoreTypeOK ==
  /\ db.k \in DOMAIN Home
  /\ \A d \in Domain : /\ Known(d) \subseteq Entity
                       /\ \A e \in Known(d) : db.stores[d].rows[e] \in {"canonical", "stub"}
                       /\ db.stores[d].facts \subseteq Fact
                       /\ db.stores[d].edges \subseteq Edge
  /\ cache = NoEntry \/ (cache.version \in Nat /\ cache.hits \subseteq Fact)
  /\ pc \in [Thread -> Pc]
  /\ journal \subseteq Request /\ acked \subseteq Fact /\ gone \subseteq Fact
  /\ torn \subseteq Edge /\ strayed \subseteq Entity

\* Facts are in the home domain of their entity, with its row, and no edge is
\* without its rows; canonical rows are at home and stubs elsewhere, but for an
\* entity that a call by a stub's id wrote when it was forgotten: lookups by
\* name, which go to the home only, find every entity that has facts, and "a
\* stub never shadows its canonical row".
CanonicalAtHome ==
  \A d \in Domain :
    /\ \A e \in Known(d) \ strayed : (db.stores[d].rows[e] = "canonical") = (HomeOf(e) = d)
    /\ \A f \in db.stores[d].facts : HomeOf(FactOf[f]) = d /\ FactOf[f] \in Known(d)
    /\ \A x \in db.stores[d].edges : x[1] \in Known(d) /\ x[2] \in Known(d)

Busy(e) == Writing(e) \/ Forgetting(e)

\* "The entity's own domain carries every edge incident to it (mirrors
\* included)": an edge is on both of its sides or on neither, unless one of the
\* two commits failed, its sweep was cut short, a stub's id was used, or one of
\* its entities was forgotten while it was being written or has strayed: the
\* sweep of a strayed one passes over its canonical row away from home.
EdgesBothSides ==
  \A x \in Edge \ torn :
    ~(\E n \in {1, 2} : Busy(x[n]) \/ x[n] \in raced \cup strayed)
      => (x \in db.stores[HomeOf(x[1])].edges <=> x \in db.stores[HomeOf(x[2])].edges)

\* What was acknowledged before a recall began is in its answer if it is still
\* there, and what was acknowledged as removed is not, whether the answer was
\* read or cached and whichever writes ran in between.
RecallCurrent ==
  \A t \in Thread : pc[t] = "answered" =>
    /\ \A f \in job[t].acked : (\E d \in Domain : f \in db.stores[d].facts) => f \in job[t].hits
    /\ job[t].hits \cap job[t].gone = {}
=============================================================================
