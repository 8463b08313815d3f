---------------------------- MODULE ProjectPackage ----------------------------
(***************************************************************************)
(* Project packages on disk: creating, opening and upgrading one           *)
(* (optimizer-host/src/project_package.rs, OptimizerStore::open), copying  *)
(* the open one into a backup archive, and restoring an archive            *)
(* (workspace_commands_backup.rs).                                         *)
(*                                                                         *)
(* A process is a desktop window: it has at most one project open, and one *)
(* command at a time that holds its session mutex.  An import does not     *)
(* take that mutex, so it is a thread of its own.  Every process sees the  *)
(* same folders; a process may stop between any two steps.                 *)
(*                                                                         *)
(* Abstractions.  A database is its transactions, its schema version, and  *)
(* how the transactions are spread over its two files: the first main of   *)
(* them are in project.sqlite3, those after base are frames of the log     *)
(* project.sqlite3-wal (a checkpoint copies frames over, and the first     *)
(* write after a full checkpoint starts the log again).  A staging folder  *)
(* has a random name, so what a crash leaves of one is never read again;   *)
(* it is forgotten.  Steps that only touch such a folder, or that a        *)
(* transaction makes atomic, are one action.  A file operation that fails  *)
(* is the action Fail.                                                     *)
(***************************************************************************)
EXTENDS Naturals, Sequences, SequencesExt, FiniteSets

CONSTANTS
    Procs,    \* desktop processes
    Names,    \* folders a package can have
    Old,      \* a schema version of an earlier release
    Current,  \* CURRENT_SCHEMA_VERSION
    Guards,   \* whether a transaction may leave a row that a trigger guards
    MaxRows,  \* bound: transactions of a database
    MaxIds,   \* bound: project ids made
    MaxBusy,  \* bound: commands and imports in progress at once
    None      \* no package, no project, no archive

ASSUME GuardsAreBoolean == Guards \subseteq BOOLEAN
ASSUME VersionsAreOrdered == Old \in Nat /\ Current \in Nat /\ Old < Current

VARIABLES
    dir,      \* the package under each name, and in each staging folder
    session,  \* the project a process has open
    command,  \* the command that holds a process's session mutex
    import,   \* a process's import
    archive,  \* the backup archive
    ids,      \* project ids made so far
    acked,    \* history: what a command said it had stored under a name
    removing  \* history: names an import was allowed to empty and has not filled

ppVars == <<dir, session, command, import, archive, ids, acked, removing>>

-----------------------------------------------------------------------------
(* Values *)

\* The folder .X.creating-<uuid> or .X.restoring-<uuid> a process works in.
InPlace(p, kind, n) == IF kind = "creating" THEN n ELSE <<p, kind>>   \* mutant
Staging(p, kind, n) == <<p, kind>>

Paths == Names \cup Procs \X {"creating", "restoring"}

\* A transaction is the id the project had.  A run of an AI operation, or a
\* summary, leaves a row that a trigger guards against changes; guarded is the
\* place of the first such transaction, or 0.
Db(id, version, guarded, rows) ==
    [ id |-> id, version |-> version, guarded |-> guarded,
      rows |-> rows, main |-> Len(rows), base |-> Len(rows) ]

Package(id, version) ==
    [manifest |-> id, db |-> Db(id, version, 0, <<id>>), copies |-> {}]

\* initialize_project on a new database, in one transaction.
NewPackage(id) == Package(id, Current)

\* What OpenedProject::open makes of a folder, the version aside: the manifest
\* parses, the database passes its checks, and they name the same project.
Opens(pkg) ==
    /\ pkg # None
    /\ pkg.manifest # None
    /\ pkg.db # None
    /\ pkg.db.id = pkg.manifest

Idle == [kind |-> "idle"]

FreeOrExporting(p) == command[p].kind \in {"idle", "export"}   \* mutant
\* Is the session mutex of p free?
Free(p) == command[p] = Idle

\* Bound: another command or import may begin.
MayBegin ==
    Cardinality({p \in Procs : command[p] # Idle}) + Cardinality({p \in Procs : import[p] # Idle})
        < MaxBusy

\* Bound: once every id is used, projects are neither written, copied nor restored.
Early == ids < MaxIds

\* The command of p and its new state.
Goes(p, c) == command' = [command EXCEPT ![p] = c]

-----------------------------------------------------------------------------
(* Creating a project *)

BeginCreate(p, n) ==
    /\ MayBegin /\ Free(p) /\ session[p] = None
    /\ dir[n] = None
    /\ Early
    /\ ids' = ids + 1
    /\ dir' = [dir EXCEPT ![Staging(p, "creating", n)] =
                   [manifest |-> None, db |-> None, copies |-> {}]]
    /\ Goes(p, [kind |-> "create", name |-> n, id |-> ids', built |-> FALSE])
    /\ UNCHANGED <<session, import, archive, acked, removing>>

\* create_staged_package: the database first, the manifest last.
Build(p) ==
    /\ command[p].kind = "create" /\ ~command[p].built
    /\ dir' = [dir EXCEPT ![Staging(p, "creating", command[p].name)] =
                   NewPackage(command[p].id)]
    /\ Goes(p, [command[p] EXCEPT !.built = TRUE])
    /\ UNCHANGED <<session, import, archive, ids, acked, removing>>

\* The rename, which fails if the name is taken by now; then the package is
\* opened like any other.
PublishNew(p) ==
    LET s == Staging(p, "creating", command[p].name)
        n == command[p].name IN
    /\ command[p].kind = "create" /\ command[p].built
    /\ IF dir[n] = None
          THEN /\ dir' = [dir EXCEPT ![n] = dir[s], ![s] = None]
               /\ acked' = [acked EXCEPT ![n] = dir[s].db.rows]
               /\ removing' = removing \ {n}
               /\ Goes(p, [kind |-> "open", name |-> n, step |-> "found",
                           manifest |-> dir[s].manifest, version |-> Current])
          ELSE /\ dir' = [dir EXCEPT ![s] = None]
               /\ Goes(p, Idle)
               /\ UNCHANGED <<acked, removing>>
    /\ UNCHANGED <<session, import, archive, ids>>

-----------------------------------------------------------------------------
(* Opening a project, upgrading its database *)

BeginOpen(p, n) ==
    /\ MayBegin /\ Free(p) /\ session[p] = None
    /\ dir[n] # None
    /\ dir[n].manifest # None /\ dir[n].db # None
    /\ Goes(p, [kind |-> "open", name |-> n, step |-> "found",
                manifest |-> dir[n].manifest, version |-> dir[n].db.version])
    /\ UNCHANGED <<dir, session, import, archive, ids, acked, removing>>

Opening(p, step) ==
    /\ command[p].kind = "open" /\ command[p].step = step
    /\ dir[command[p].name] # None
    /\ dir[command[p].name].db # None

SkipCopy(p) ==   \* mutant of CopyBefore
    /\ Opening(p, "found")
    /\ command[p].version < Current
    /\ Goes(p, [command[p] EXCEPT !.step = "copied"])
    /\ UNCHANGED <<dir, session, import, archive, ids, acked, removing>>

\* create_pre_migration_backup: the online backup, beside the database.
CopyBefore(p) ==
    LET n == command[p].name
        db == dir[n].db IN
    /\ Opening(p, "found")
    /\ command[p].version < Current
    /\ dir' = [dir EXCEPT ![n].copies = @ \cup {[version |-> db.version, rows |-> db.rows]}]
    /\ Goes(p, [command[p] EXCEPT !.step = "copied"])
    /\ UNCHANGED <<session, import, archive, ids, acked, removing>>

\* migrate: one transaction.  If another process was faster, then either the
\* version read here is the new one and nothing is left to do, or it was read
\* before and the statements fail on what is already there.
Migrate(p) ==
    LET n == command[p].name IN
    /\ Opening(p, "copied")
    /\ dir' = [dir EXCEPT ![n].db.version = Current]
    /\ \/ Goes(p, [command[p] EXCEPT !.version = Current])
       \/ dir[n].db.version = Current /\ Goes(p, Idle)
    /\ UNCHANGED <<session, import, archive, ids, acked, removing>>

\* verify_invariants, and the binding of manifest, project and branch.
Bind(p) ==
    LET n == command[p].name
        pkg == dir[n] IN
    /\ command[p].kind = "open" /\ command[p].version = Current
    /\ session' = IF Opens(pkg) /\ pkg.manifest = command[p].manifest
                  THEN [session EXCEPT ![p] = n]
                  ELSE session
    /\ Goes(p, Idle)
    /\ UNCHANGED <<dir, import, archive, ids, acked, removing>>

\* The last connection leaves no log behind.
Close(p) ==
    LET n == session[p]
        last == \A q \in Procs \ {p} : session[q] # n IN
    /\ Free(p) /\ n # None
    /\ session' = [session EXCEPT ![p] = None]
    /\ dir' = IF last
              THEN [dir EXCEPT ![n].db = Db(@.id, @.version, @.guarded, @.rows)]
              ELSE dir
    /\ UNCHANGED <<command, import, archive, ids, acked, removing>>

-----------------------------------------------------------------------------
(* Writing the open project *)

\* Exports of n by other processes meet a write.
Disturbed(p, n) ==
    [q \in Procs |-> IF q # p /\ command[q].kind = "export" /\ command[q].name = n
                     THEN [command[q] EXCEPT !.alone = FALSE]
                     ELSE command[q]]

\* The database after one more transaction.
Written(db, guarded) ==
    [db EXCEPT !.rows = Append(db.rows, db.id),
               !.guarded = IF guarded /\ db.guarded = 0 THEN Len(db.rows) + 1 ELSE db.guarded,
               !.base = IF db.main = Len(db.rows) THEN db.main ELSE db.base]

\* A transaction: a save, or one that leaves a guarded row.
Write(p) ==
    LET n == session[p]
        db == dir[n].db IN
    /\ Free(p) /\ n # None
    /\ Len(db.rows) < MaxRows /\ Early
    /\ \E guarded \in Guards : dir' = [dir EXCEPT ![n].db = Written(db, guarded)]
    /\ acked' = [acked EXCEPT ![n] = Append(db.rows, db.id)]
    /\ command' = Disturbed(p, n)
    /\ UNCHANGED <<session, import, archive, ids, removing>>

\* wal_autocheckpoint, by the process whose write reaches the limit.
Checkpoint(p) ==
    LET n == session[p] IN
    /\ Free(p) /\ n # None
    /\ dir[n].db.main < Len(dir[n].db.rows)
    /\ dir' = [dir EXCEPT ![n].db.main = Len(dir[n].db.rows)]
    /\ UNCHANGED <<session, command, import, archive, ids, acked, removing>>

-----------------------------------------------------------------------------
(* Copying the open project into an archive *)

BeginExport(p) ==
    /\ Early /\ MayBegin /\ Free(p) /\ session[p] # None
    /\ Goes(p, [kind |-> "export", name |-> session[p], id |-> dir[session[p]].db.id,
                manifest |-> dir[session[p]].manifest, copies |-> dir[session[p]].copies,
                main |-> None, log |-> None, alone |-> TRUE])
    /\ UNCHANGED <<dir, session, import, archive, ids, acked, removing>>

\* add_directory_to_zip reads the files one by one, in the order read_dir
\* gives; those of the database are the ones that change.
CopyFile(p) ==
    LET pkg == dir[command[p].name] IN
    /\ command[p].kind = "export" /\ pkg # None /\ pkg.db # None
    /\ \/ command[p].main = None /\ Goes(p, [command[p] EXCEPT !.main = pkg.db])
       \/ command[p].log = None /\ Goes(p, [command[p] EXCEPT !.log = pkg.db])
    /\ UNCHANGED <<dir, session, import, archive, ids, acked, removing>>

Copied(c) == c.kind = "export" /\ None \notin {c.main, c.log}

\* The two files make a database if the log is empty or goes on where the main
\* file ends; otherwise pages of different times are mixed.
Fits(main, log) ==
    \/ log.base = Len(log.rows)
    \/ main.id = log.id /\ log.base <= main.main /\ main.main <= Len(log.rows)

Joined(main, log) ==
    Db(main.id, main.version, IF main.guarded = 0 THEN log.guarded ELSE main.guarded,
       CASE ~Fits(main, log)           -> <<>>
         [] log.base = Len(log.rows)   -> SubSeq(main.rows, 1, main.main)
         [] OTHER                      -> log.rows)

\* The old archive is removed, then the temporary one renamed.
DropOldArchive(p) ==
    /\ Copied(command[p]) /\ archive # None
    /\ archive' = None
    /\ UNCHANGED <<dir, session, command, import, ids, acked, removing>>

PublishArchive(p) ==
    LET c == command[p] IN
    /\ Copied(c) /\ archive = None
    /\ archive' = [id |-> c.id, manifest |-> c.manifest, copies |-> c.copies,
                   db |-> Joined(c.main, c.log), torn |-> ~Fits(c.main, c.log), alone |-> c.alone]
    /\ Goes(p, Idle)
    /\ UNCHANGED <<dir, session, import, ids, acked, removing>>

-----------------------------------------------------------------------------
(* Restoring an archive *)

Imports(p, i) == import' = [import EXCEPT ![p] = i]

\* The target is looked at, and the archive extracted.
BeginImport(p, n, overwrite) ==
    /\ Early /\ MayBegin /\ import[p] = Idle /\ archive # None
    /\ dir[n] = None \/ overwrite
    /\ dir' = [dir EXCEPT ![Staging(p, "restoring", n)] =
                   [manifest |-> archive.manifest, db |-> archive.db, copies |-> archive.copies]]
    /\ Imports(p, [kind |-> "extracted", name |-> n, overwrite |-> overwrite,
                   id |-> archive.id, torn |-> archive.torn])
    /\ UNCHANGED <<session, command, archive, ids, acked, removing>>

\* What OptimizerStore::open makes of an extracted database.
Upgraded(pkg) ==
    IF pkg.db.version = Current
    THEN pkg
    ELSE [pkg EXCEPT !.db.version = Current,
                     !.copies = @ \cup {[version |-> pkg.db.version, rows |-> pkg.db.rows]}]

\* remap_project_id, which takes away the triggers named immutable for its
\* transaction but not the guards of operation_run and summary_record; and the
\* rewritten manifest.
RemapAborts(db) == db.guarded \in DOMAIN db.rows

Rebound(pkg, id) == [pkg EXCEPT !.db.id = id, !.manifest = id]

\* Open and check the extracted database, give the project its new id.  A torn
\* one may pass the checks.
Adopt(p) ==
    LET i == import[p]
        s == Staging(p, "restoring", i.name) IN
    /\ i.kind = "extracted"
    /\ \/ /\ dir[s].db.id = i.id /\ ~RemapAborts(dir[s].db)
          /\ Early
          /\ ids' = ids + 1
          /\ dir' = [dir EXCEPT ![s] = Rebound(Upgraded(@), ids')]
          /\ Imports(p, [i EXCEPT !.kind = "adopted"])
       \/ /\ i.torn \/ dir[s].db.id # i.id \/ RemapAborts(dir[s].db)
          /\ dir' = [dir EXCEPT ![s] = None]
          /\ Imports(p, [i EXCEPT !.kind = "refused"])
          /\ UNCHANGED ids
    /\ UNCHANGED <<session, command, archive, acked, removing>>

\* The answer of a refused import.
Refused(p) ==
    /\ import[p].kind = "refused"
    /\ Imports(p, Idle)
    /\ UNCHANGED <<dir, session, command, archive, ids, acked, removing>>

ReplacesAnything(p) == dir[import[p].name] # None   \* mutant
\* Is there a package that the import was told to replace?
Replaces(p) == dir[import[p].name] # None /\ import[p].overwrite

\* Sessions whose folder is emptied.  The code closes none of them: such a
\* window goes on with files that have no name any more, or the removal fails.
\* It is at its end here, since of a folder the user allowed to empty (it is in
\* removing) the properties ask nothing.
Evicted(n) == [q \in Procs |-> IF session[q] = n THEN None ELSE session[q]]

\* remove_dir_all, which may fail with some files gone; no one asks whether
\* the project is open.
EmptyTarget(p) ==
    LET i == import[p]
        n == i.name IN
    /\ i.kind = "adopted"
    /\ IF Replaces(p)
          THEN /\ \/ dir' = [dir EXCEPT ![n] = None] /\ Imports(p, [i EXCEPT !.kind = "emptied"])
                  \/ /\ \E pkg \in {[dir[n] EXCEPT !.manifest = None],
                                     [dir[n] EXCEPT !.db = None, !.manifest = None]} :
                            dir' = [dir EXCEPT ![n] = pkg,
                                               ![Staging(p, "restoring", n)] = None]
                     /\ Imports(p, Idle)
               /\ session' = Evicted(n)
               /\ command' = Disturbed(None, n)
               /\ acked' = IF i.overwrite THEN [acked EXCEPT ![n] = <<>>] ELSE acked
               /\ removing' = removing \cup {n}
          ELSE /\ Imports(p, [i EXCEPT !.kind = "emptied"])
               /\ UNCHANGED <<dir, session, command, acked, removing>>
    /\ UNCHANGED <<archive, ids>>

\* The rename; its retries change nothing.
PublishRestored(p) ==
    LET n == import[p].name
        s == Staging(p, "restoring", n) IN
    /\ import[p].kind = "emptied"
    /\ IF dir[n] = None
          THEN /\ dir' = [dir EXCEPT ![n] = dir[s], ![s] = None]
               /\ acked' = [acked EXCEPT ![n] = dir[s].db.rows]
               /\ removing' = removing \ {n}
          ELSE /\ dir' = [dir EXCEPT ![s] = None]
               /\ UNCHANGED <<acked, removing>>
    /\ Imports(p, Idle)
    /\ UNCHANGED <<session, command, archive, ids>>

-----------------------------------------------------------------------------
(* Failures *)

\* A file operation of a command fails; a staging folder is removed.
FailCommand(p) ==
    /\ command[p] # Idle
    /\ Goes(p, Idle)
    /\ dir' = IF command[p].kind = "create"
              THEN [dir EXCEPT ![Staging(p, "creating", command[p].name)] = None]
              ELSE dir
    /\ UNCHANGED <<session, import, archive, ids, acked, removing>>

FailImport(p) ==
    /\ import[p].kind \in {"extracted", "adopted", "emptied"}
    /\ Imports(p, Idle)
    /\ dir' = [dir EXCEPT ![Staging(p, "restoring", import[p].name)] = None]
    /\ UNCHANGED <<session, command, archive, ids, acked, removing>>

\* A process stops: committed transactions stay where they are.
Crash(p) ==
    /\ session[p] # None \/ command[p] # Idle \/ import[p] # Idle
    /\ session' = [session EXCEPT ![p] = None]
    /\ Goes(p, Idle) /\ Imports(p, Idle)
    /\ dir' = [dir EXCEPT ![<<p, "creating">>] = None, ![<<p, "restoring">>] = None]
    /\ UNCHANGED <<archive, ids, acked, removing>>

-----------------------------------------------------------------------------
(* The specification *)

\* Nothing at all, or a package of an earlier release, whose window stopped
\* before a checkpoint, or an archive of one.
PpInit ==
    /\ \E n \in Names, found, kept \in BOOLEAN :
          LET old == [Package(1, Old) EXCEPT !.db.main = 0, !.db.base = 0] IN
          /\ ~(found /\ kept)
          /\ dir = [x \in Paths |-> IF found /\ x = n THEN old ELSE None]
          /\ archive = IF kept THEN [id |-> 1, manifest |-> 1, copies |-> {}, db |-> old.db,
                                     torn |-> FALSE, alone |-> TRUE]
                       ELSE None
          /\ acked = [x \in Names |-> IF dir[x] = None THEN <<>> ELSE dir[x].db.rows]
    /\ ids = 1
    /\ session = [p \in Procs |-> None]
    /\ command = [p \in Procs |-> Idle]
    /\ import = [p \in Procs |-> Idle]
    /\ removing = {}

PpNext ==
    \E p \in Procs :
       \/ \E n \in Names :
             \/ BeginCreate(p, n) \/ BeginOpen(p, n)
             \/ \E overwrite \in BOOLEAN : BeginImport(p, n, overwrite)
       \/ Build(p) \/ PublishNew(p)
       \/ CopyBefore(p) \/ Migrate(p) \/ Bind(p) \/ Close(p)
       \/ Write(p) \/ Checkpoint(p)
       \/ BeginExport(p) \/ CopyFile(p) \/ DropOldArchive(p) \/ PublishArchive(p)
       \/ Adopt(p) \/ Refused(p) \/ EmptyTarget(p) \/ PublishRestored(p)
       \/ FailCommand(p) \/ FailImport(p) \/ Crash(p)

PpSpec == PpInit /\ [][PpNext]_ppVars

-----------------------------------------------------------------------------
(* Properties *)

Copies == [version : {Old, Current}, rows : Seq(Nat)]

Databases ==
    { db \in [ id : Nat, version : {Old, Current}, guarded : Nat,
               rows : Seq(Nat), main : Nat, base : Nat ] :
        db.base <= db.main /\ db.main <= Len(db.rows) }

Packages ==
    [manifest : Nat \cup {None}, db : Databases \cup {None}, copies : SUBSET Copies]

CommandStates ==
    {Idle}
    \cup [kind : {"create"}, name : Names, id : Nat, built : BOOLEAN]
    \cup [ kind : {"open"}, name : Names, step : {"found", "copied"},
           manifest : Nat, version : {Old, Current} ]
    \cup [ kind : {"export"}, name : Names, id : Nat, manifest : Nat, copies : SUBSET Copies,
           main : Databases \cup {None}, log : Databases \cup {None}, alone : BOOLEAN ]

ImportStates ==
    {Idle}
    \cup [ kind : {"extracted", "adopted", "emptied", "refused"}, name : Names,
           overwrite : BOOLEAN, id : Nat, torn : BOOLEAN ]

Archives ==
    [ id : Nat, manifest : Nat, copies : SUBSET Copies, db : Databases,
      torn : BOOLEAN, alone : BOOLEAN ]

ASSUME NoneIsNothing ==
    None \notin Names \cup Procs \cup Nat \cup Databases \cup Packages \cup Archives

\* A staging folder's name begins with a dot, a package's does not.
ASSUME StagingHasOtherNames == Names \cap (Procs \X {"creating", "restoring"}) = {}

PpTypeOK ==
    /\ dir \in [Paths -> Packages \cup {None}]
    /\ session \in [Procs -> Names \cup {None}]
    /\ command \in [Procs -> CommandStates]
    /\ import \in [Procs -> ImportStates]
    /\ archive \in Archives \cup {None}
    /\ ids \in Nat
    /\ acked \in [Names -> Seq(Nat)]
    /\ removing \subseteq Names

\* Whenever a process stops or a file operation fails, what stands under a
\* name is a whole package that opens, unless an import was told to replace it
\* and did not finish.
NoHalfPackage == \A n \in Names \ removing : dir[n] # None => Opens(dir[n])

\* What a command said it had stored is still there, whatever other processes
\* create, restore or upgrade, until someone asks to overwrite it.
AcknowledgedSurvives ==
    \A n \in Names :
       acked[n] # <<>> =>
          /\ dir[n] # None /\ dir[n].db # None
          /\ IsPrefix(acked[n], dir[n].db.rows)

\* An upgrade commits only when a copy of all it upgrades, at the old version,
\* lies beside it, however many processes open the project at once.
UpgradeKeepsOldCopy ==
    [][\A x \in Paths :
          /\ dir[x] # None /\ dir'[x] # None
          /\ dir[x].db # None /\ dir'[x].db # None
          /\ dir[x].db.version = Old /\ dir'[x].db.version = Current
          => [version |-> Old, rows |-> dir[x].db.rows] \in dir'[x].copies]_ppVars

\* The files copied one by one are a state of the project, if no other
\* process wrote it or took it away meanwhile.
ArchiveIsAState == archive # None /\ archive.alone => ~archive.torn

\* An import refuses only an archive that is not a state of a project.
BackupRestores == \A p \in Procs : import[p].kind = "refused" => import[p].torn

=============================================================================
