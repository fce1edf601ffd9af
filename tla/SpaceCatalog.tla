----------------------------- MODULE SpaceCatalog -----------------------------
(***************************************************************************)
(* The identity of memory spaces (openmemory-daemon: space_manifest.rs and *)
(* product_store/spaces.rs; openmemory-engine: legacy.rs).  A space is     *)
(* named in four places: its row in the product catalog, the manifest in   *)
(* its root, the metadata of its store and, for the personal space of a    *)
(* profile, a .space-id file that is there before any of them.  Nothing    *)
(* writes two of them together, several processes start at once, and each  *)
(* may stop between any two writes.                                        *)
(*                                                                         *)
(* Abstractions.  One profile, whose number of domains does not change;    *)
(* one store per space.  A manifest and a row are their space id and, for  *)
(* the row, its state; teams, projects, grants and capabilities, which     *)
(* have rows of their own, are left out.                                   *)
(***************************************************************************)
EXTENDS Naturals, FiniteSets, Sequences

CONSTANTS
  Process, Thread, ProcessOf,
  Space,        \* root keys
  Legacy,       \* the personal space, whose root is the profile's
  Id,           \* space ids that a process may draw for the personal space
  None,         \* in place of a file, a row or an id that is not there
  Torn,         \* a .space-id file that was created and not written
  Mixes         \* the workloads: the calls of each thread, the jobs of the
                \* daemon, and the bound on faults

ASSUME CatalogAssumption ==
  /\ ProcessOf \in [Thread -> Process]
  /\ Legacy \in Space /\ None \notin Space \cup Id /\ Torn \notin Space \cup Id \cup {None}
  /\ Id \cap Space = {}

VARIABLES
  idFile,       \* .space-id
  row,          \* the catalog: an id and a state for each root, or None
  manifest,     \* space.toml of each root
  bound,        \* space_id in the metadata of each store
  drawn,        \* ids drawn so far
  pc, at, id,   \* each thread: its step, the space it is about, the id it has
  faults, mix

disk        == <<idFile, row, manifest, bound, drawn>>
catalogVars == <<disk, pc, at, id, faults, mix>>

State == {"creating", "active"}  \* nothing closes or deletes a space yet
Row   == [id : Id \cup Space, state : State]
ASSUME RowAssumption == None \notin Row

InitCatalog ==
  /\ mix \in Mixes
  /\ idFile = None
  /\ row = [s \in Space |-> None] /\ manifest = [s \in Space |-> None]
  \* A store from before the catalog may have an id already.
  /\ \E x \in {None} \cup Id : /\ bound = [s \in Space |-> IF s = Legacy THEN x ELSE None]
                               /\ drawn = {x} \ {None}
  /\ pc = [t \in Thread |-> "idle"] /\ at = [t \in Thread |-> Legacy]
  /\ id = [t \in Thread |-> None]
  /\ faults = 0

Fault      == faults < mix.faults /\ faults' = faults + 1
Goto(t, l) == pc' = [pc EXCEPT ![t] = l]
Begin(t, call, s) ==
  /\ pc[t] = "idle" /\ call \in mix.calls[t]
  /\ at' = [at EXCEPT ![t] = s]

-----------------------------------------------------------------------------
(* The id of the personal space *)

\* read_or_create_legacy_id: what the file or else the store says, or a new id.
\* A file that does not parse is an error.
ReadId(t) ==
  /\ Begin(t, "bind", Legacy)
  /\ \/ /\ idFile \in Id /\ id' = [id EXCEPT ![t] = idFile] /\ Goto(t, "find")
        /\ UNCHANGED drawn
     \/ /\ idFile = Torn /\ UNCHANGED <<pc, id, drawn>>
     \/ /\ idFile = None /\ Goto(t, "create")
        /\ \E x \in IF bound[Legacy] # None THEN {bound[Legacy]} ELSE Id \ drawn :
             id' = [id EXCEPT ![t] = x] /\ drawn' = drawn \cup {x}
  /\ UNCHANGED <<idFile, row, manifest, bound, faults>>
\* create_new has one winner; "a concurrent winner is read, never replaced".
MayCreateAlways == TRUE
MayCreate == idFile = None
CreateId(t) ==
  /\ pc[t] = "create"
  /\ IF MayCreate
     THEN idFile' = Torn /\ Goto(t, "write") /\ UNCHANGED id
     ELSE /\ UNCHANGED idFile
          /\ IF idFile \in Id THEN id' = [id EXCEPT ![t] = idFile] /\ Goto(t, "find")
                              ELSE Goto(t, "idle") /\ UNCHANGED id
  /\ UNCHANGED <<row, manifest, bound, drawn, at, faults>>
WriteId(t) ==
  /\ pc[t] = "write"
  /\ idFile' = id[t] /\ Goto(t, "find")
  /\ UNCHANGED <<row, manifest, bound, drawn, at, id, faults>>

-----------------------------------------------------------------------------
(* bind_legacy_personal_global and create_managed_root *)

\* The row of the personal space is taken as it is if it has this id.
FindRow(t) ==
  /\ pc[t] = "find"
  /\ Goto(t, IF row[Legacy] = None THEN "insert"
             ELSE IF row[Legacy].id = id[t] THEN "manifest" ELSE "idle")
  /\ UNCHANGED <<disk, at, id, faults>>
\* A managed root has its directory and its manifest before its row.
CreateManaged(t) ==
  /\ \E s \in Space \ {Legacy} :
       /\ Begin(t, "create", s)
       /\ manifest' = [manifest EXCEPT ![s] = s]
       /\ id' = [id EXCEPT ![t] = s]
  /\ Goto(t, "insert")
  /\ UNCHANGED <<idFile, row, bound, drawn, faults>>
\* insert_space; the root key is unique.
InsertRow(t) ==
  /\ pc[t] = "insert"
  /\ IF row[at[t]] = None
     THEN /\ row' = [row EXCEPT ![at[t]] = [id |-> id[t], state |-> "creating"]]
          /\ Goto(t, IF at[t] = Legacy THEN "manifest" ELSE "open")
     ELSE Goto(t, "idle") /\ UNCHANGED row
  /\ UNCHANGED <<idFile, manifest, bound, drawn, at, id, faults>>
CheckManifest(t) ==
  /\ pc[t] = "manifest"
  /\ Goto(t, IF manifest[Legacy] \in {None, id[t]} THEN "open" ELSE "idle")
  /\ manifest' = IF manifest[Legacy] = None THEN [manifest EXCEPT ![Legacy] = id[t]] ELSE manifest
  /\ UNCHANGED <<idFile, row, bound, drawn, at, id, faults>>
\* DomainStore::open_scoped and verify_domain_store, without the space's lock.
BindStore(t) ==
  /\ pc[t] = "open"
  /\ Goto(t, IF bound[at[t]] \in {None, id[t]} THEN "activate" ELSE "idle")
  /\ bound' = IF bound[at[t]] = None THEN [bound EXCEPT ![at[t]] = id[t]] ELSE bound
  /\ UNCHANGED <<idFile, row, manifest, drawn, at, id, faults>>
ActivateSpace(t) ==
  /\ pc[t] = "activate"
  /\ row' = [row EXCEPT ![at[t]].state = "active"]
  /\ Goto(t, "idle")
  /\ UNCHANGED <<idFile, manifest, bound, drawn, at, id, faults>>
\* Any of these steps may fail, and the error ends the call.
BindingStep == {"create", "write", "find", "insert", "manifest", "open", "activate"}
BindFails(t) ==
  /\ pc[t] \in BindingStep /\ Fault
  /\ Goto(t, "idle")
  /\ UNCHANGED <<disk, at, id>>

Catalog(t) ==
  \/ ReadId(t) \/ CreateId(t) \/ WriteId(t) \/ FindRow(t) \/ CreateManaged(t) \/ InsertRow(t)
  \/ CheckManifest(t) \/ BindStore(t) \/ ActivateSpace(t) \/ BindFails(t)

Active(s) == row[s] # None /\ row[s].state = "active"

-----------------------------------------------------------------------------
(* Properties *)

\* "A restart after any durable boundary reuses the same UUID": the places that
\* name a space never disagree, whoever starts at once and wherever each of
\* them stops, and an active row has a manifest and a store that carry its id.
Names(s) == ({manifest[s], bound[s]} \cup (IF s = Legacy THEN {idFile} \ {Torn} ELSE {})
              \cup (IF row[s] = None THEN {} ELSE {row[s].id})) \ {None}
OneIdentity ==
  \A s \in Space :
    /\ Cardinality(Names(s)) <= 1
    /\ Active(s) => manifest[s] = row[s].id /\ bound[s] = row[s].id
=============================================================================
