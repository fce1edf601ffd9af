--------------------------- MODULE DomainMigration ---------------------------
(***************************************************************************)
(* A profile directory: the DomainStore it holds and the offline migration *)
(* to another number of domains (openmemory-engine, migrate.rs).  The new  *)
(* layout is built and verified in a staging directory; then, under an     *)
(* intent sentinel, the old files are moved to a backup and the new ones   *)
(* into place, one rename after the other.  An interrupted swap leaves the *)
(* sentinel, which keeps everyone out until the operator moves the backup  *)
(* back, as the error message says.                                        *)
(*                                                                         *)
(* Abstractions.  The index and the source records move with the facts;    *)
(* three of the eight entries of a single-store layout stand for all.      *)
(* Renames are durable in their order.  The caller keeps other processes   *)
(* away from a profile that is being migrated, as migrate_domains asks.    *)
(***************************************************************************)
EXTENDS DomainStore, Sequences

CONSTANT NoDir  \* in place of a directory that does not exist

File == [name : {"memory", "fulltext", "vectors", "domains", "manifest"},
         gen : {"cur", "next", "prev"}]
ASSUME DirAssumption == \A S \in SUBSET File : S # NoDir

VARIABLES
  root, backup, staging,  \* files of the profile, its backup and its staging directory
  sentinel,               \* .migrate-intent exists
  mpc,                    \* where the migration is
  staged                  \* the contents of the staging directory

layout == <<root, backup, staging, sentinel, mpc, staged>>
vars   == <<storeVars, layout>>

\* SINGLE_STORE_ENTRIES, or the domain directory and its manifest, in the
\* order of the renames.
Names(k)    == IF k = 1 THEN <<"memory", "fulltext", "vectors">> ELSE <<"domains", "manifest">>
Files(k, g) == {[name |-> Names(k)[i], gen |-> g] : i \in DOMAIN Names(k)}

Init ==
  /\ InitStore
  /\ root = Files(db.k, "cur") /\ backup = NoDir /\ staging = NoDir
  /\ sentinel = FALSE /\ mpc = "none" /\ staged = db

-----------------------------------------------------------------------------
(* What migrate_domains keeps *)

Canonical(b)      == UNION {{e \in DOMAIN b.stores[d].rows : b.stores[d].rows[e] = "canonical"} : d \in 1..b.k}
Facts(b)          == UNION {b.stores[d].facts : d \in 1..b.k}
\* Relations that do not start at a stub; the others are mirrors.
CanonicalEdges(b) == UNION {{x \in b.stores[d].edges : b.stores[d].rows[x[1]] = "canonical"} : d \in 1..b.k}
\* An edge to an entity without a canonical row, an observation on a stub, or
\* two canonical rows of a name stop the migration.
Routable(b) ==
  /\ \A x \in CanonicalEdges(b) : x[2] \in Canonical(b)
  /\ \A d \in 1..b.k : \A f \in b.stores[d].facts : b.stores[d].rows[FactOf[f]] = "canonical"
  /\ \A c, d \in 1..b.k : \A e \in DOMAIN b.stores[c].rows \cap DOMAIN b.stores[d].rows :
       b.stores[c].rows[e] = "canonical" /\ b.stores[d].rows[e] = "canonical" => c = d

\* route: canonical rows by name, and the stubs and mirrors of the new boundaries.
RouteCanonicalOnly(b, k) ==
  [k |-> k, stores |->
    [d \in 1..k |->
      LET edges == {x \in CanonicalEdges(b) : Home[k][x[1]] = d} IN
      [rows |-> [e \in {c \in Canonical(b) : Home[k][c] = d} \cup {x[2] : x \in edges} |->
                   IF Home[k][e] = d THEN "canonical" ELSE "stub"],
       facts |-> {f \in Facts(b) : Home[k][FactOf[f]] = d},
       edges |-> edges]]]
Route(b, k) ==
  [k |-> k, stores |->
    [d \in 1..k |->
      LET edges == {x \in CanonicalEdges(b) : d \in {Home[k][x[1]], Home[k][x[2]]}} IN
      [rows |-> [e \in {c \in Canonical(b) : Home[k][c] = d} \cup UNION {{x[1], x[2]} : x \in edges} |->
                   IF Home[k][e] = d THEN "canonical" ELSE "stub"],
       facts |-> {f \in Facts(b) : Home[k][FactOf[f]] = d},
       edges |-> edges]]]

-----------------------------------------------------------------------------
(* The steps of migrate_domains *)

\* Preconditions, export, route, build and verify.
AfterBuildUnmarked == "backup"
AfterBuild == "mark"
MigrateBuild ==
  /\ mpc = "none" /\ ~opened
  /\ ~sentinel /\ backup = NoDir /\ journal = {}
  /\ db.k = 1 => [name |-> "memory", gen |-> "cur"] \in root
  /\ \E k \in mix.domains \ {db.k} :
       /\ Routable(db)
       /\ staged' = Route(db, k) /\ staging' = Files(k, "next")
  /\ mpc' = AfterBuild
  /\ UNCHANGED <<storeVars, root, backup, sentinel>>
\* It gives up before the swap, because the profile is not routable or because
\* of something the stores do not show here (an edge or a tombstone of a row
\* that is gone, a failed build), and what it staged is cleared by the next.
MigrateGivesUp ==
  /\ mpc = "none" /\ ~opened
  /\ ~sentinel /\ backup = NoDir /\ journal = {} /\ staging = NoDir
  /\ mix.domains # {db.k} /\ staging' = {}
  /\ UNCHANGED <<storeVars, root, backup, sentinel, mpc, staged>>

\* write_sentinel, and the backup directory.
MigrateMark ==
  /\ mpc = "mark" /\ mpc' = "backup"
  /\ sentinel' = TRUE
  /\ UNCHANGED <<storeVars, root, backup, staging, staged>>
MigrateBackup ==
  /\ mpc = "backup" /\ mpc' = "park"
  /\ backup' = {}
  /\ UNCHANGED <<storeVars, root, staging, sentinel, staged>>

\* move_layout_to_backup and move_staging_into_place: the first file that is
\* still there.
Pick(dir, k, g) ==
  CHOOSE f \in dir \cap Files(k, g) :
    \E i \in DOMAIN Names(k) : /\ f.name = Names(k)[i]
                               /\ \A j \in 1..i - 1 : [name |-> Names(k)[j], gen |-> g] \notin dir
MigratePark ==
  /\ mpc = "park"
  /\ LET f == Pick(root, db.k, "cur") IN
     /\ root' = root \ {f} /\ backup' = backup \cup {f}
     /\ mpc' = IF root' = {} THEN "place" ELSE "park"
  /\ UNCHANGED <<storeVars, staging, sentinel, staged>>
MigratePlace ==
  /\ mpc = "place"
  /\ LET f == Pick(staging, staged.k, "next") IN
     /\ staging' = staging \ {f} /\ root' = root \cup {f}
     /\ mpc' = IF staging' = {} THEN "clear" ELSE "place"
  /\ UNCHANGED <<storeVars, backup, sentinel, staged>>
MigrateClear ==
  /\ mpc = "clear" /\ mpc' = "commit"
  /\ staging' = NoDir
  /\ UNCHANGED <<storeVars, root, backup, sentinel, staged>>
\* The sentinel goes, and the new layout is the profile.
MigrateCommit ==
  /\ mpc = "commit" /\ mpc' = "none"
  /\ sentinel' = FALSE
  /\ db' = staged
  /\ root' = {[f EXCEPT !.gen = "cur"] : f \in root}
  /\ backup' = {[f EXCEPT !.gen = "prev"] : f \in backup}
  /\ torn' = {} /\ raced' = {} /\ strayed' = {}
  /\ UNCHANGED <<opened, version, cache, pc, job, journal, acked, gone, mix, failures, staging, staged>>
MigrateCrash ==
  /\ mpc # "none" /\ mpc' = "none" /\ Fault
  /\ UNCHANGED <<opened, stores, version, cache, pc, job, history, raced, strayed, mix,
                 root, backup, staging, sentinel, staged>>

\* The operator restores an interrupted profile, or removes a backup.
Restore ==
  /\ mpc = "none" /\ sentinel /\ sentinel' = FALSE
  /\ root' = {f \in root : f.gen = "cur"} \cup (IF backup = NoDir THEN {} ELSE backup)
  /\ backup' = NoDir
  /\ UNCHANGED <<storeVars, staging, mpc, staged>>
RemoveBackup ==
  /\ mpc = "none" /\ ~sentinel /\ backup # NoDir /\ backup' = NoDir
  /\ UNCHANGED <<storeVars, root, staging, sentinel, mpc, staged>>

Migrate ==
  \/ MigrateBuild \/ MigrateGivesUp \/ MigrateMark \/ MigrateBackup \/ MigratePark
  \/ MigratePlace \/ MigrateClear \/ MigrateCommit \/ MigrateCrash

\* open_inner refuses a profile with a sentinel.
MayOpen == ~sentinel
Next ==
  \/ NextStore /\ (Open => MayOpen /\ mpc = "none") /\ UNCHANGED layout
  \/ Migrate \/ Restore \/ RemoveBackup

Spec == Init /\ [][Next]_vars

-----------------------------------------------------------------------------
(* Properties *)

\* Every variable in its domain.
TypeOK ==
  /\ StoreTypeOK
  /\ \A f \in root : f.gen \in {"cur", "next"}
  /\ sentinel \in BOOLEAN
  /\ mpc \in {"none", "mark", "backup", "park", "place", "clear", "commit"}
  /\ staged.k \in DOMAIN Home

\* Without a sentinel the profile has one whole layout, and with one every file
\* of the old layout is still in the profile or its backup: no crash loses it,
\* and nobody opens a mixture.
LayoutRecoverable ==
  /\ ~sentinel => root = Files(db.k, "cur")
  /\ sentinel => /\ ~opened
                 /\ Files(db.k, "cur") \subseteq root \cup (IF backup = NoDir THEN {} ELSE backup)

\* A migration keeps every canonical entity, fact and edge, and the new
\* boundaries have both sides of every edge that crosses them, also of those
\* whose mirror had been lost.
MigrationPreserves ==
  [][db'.k # db.k =>
       /\ Canonical(db') = Canonical(db)
       /\ Facts(db') = Facts(db)
       /\ CanonicalEdges(db') = CanonicalEdges(db)
       /\ \A x \in CanonicalEdges(db') :
            \A n \in {1, 2} : x \in db'.stores[Home[db'.k][x[n]]].edges]_vars
=============================================================================
