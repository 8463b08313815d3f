------------------------- MODULE ProjectPackage_proofs -------------------------
(***************************************************************************)
(* What creating, opening, upgrading, exporting and restoring packages     *)
(* never does to one, for any number of windows, folders and projects.     *)
(***************************************************************************)
EXTENDS ProjectPackage, SequenceTheorems, TLAPS

\* There is a database of that version.
Holds(pkg, version) == pkg # None /\ pkg.db # None /\ pkg.db.version = version

\* A staging folder is there while its command or import needs it, and is whole
\* and up to date before it gets its name.
StagedPackages ==
    \A p \in Procs :
        LET new == dir[<<p, "creating">>]
            old == dir[<<p, "restoring">>] IN
        /\ command[p].kind # "create" => new = None
        /\ command[p].kind = "create" => new # None
        /\ command[p].kind = "create" /\ command[p].built => Opens(new) /\ Holds(new, Current)
        /\ command[p].kind = "create" /\ ~command[p].built => new.db = None
        /\ import[p].kind \notin {"extracted", "adopted", "emptied"} => old = None
        /\ import[p].kind = "extracted" => old # None /\ old.db # None
        /\ import[p].kind \in {"adopted", "emptied"} => Opens(old) /\ Holds(old, Current)

\* A window has only a whole and upgraded package open.
SessionsOpen ==
    \A p \in Procs :
        session[p] # None => Opens(dir[session[p]]) /\ Holds(dir[session[p]], Current)

\* While a package is being opened, nothing but an upgrade changes its version,
\* and an old database stays as it was copied.
OpenKnows ==
    \A p \in Procs :
        LET c == command[p]
            pkg == dir[c.name] IN
        c.kind = "open" =>
            /\ c.version = Current => ~Holds(pkg, Old)
            /\ c.step = "copied" /\ Holds(pkg, Old) =>
                  [version |-> Old, rows |-> pkg.db.rows] \in pkg.copies

\* The transactions under a name are those last acknowledged there.
AckedStands ==
    \A n \in Names :
        acked[n] # << >> => dir[n] # None /\ dir[n].db # None /\ dir[n].db.rows = acked[n]

\* An export that nobody has disturbed copies one state, checkpoints aside.
ExportAlone ==
    \A p \in Procs :
        LET c == command[p] IN
        c.kind = "export" /\ c.alone =>
            /\ session[p] = c.name
            /\ \A file \in {c.main, c.log} \ {None} :
                  LET db == dir[c.name].db IN
                  file.id = db.id /\ file.rows = db.rows /\ file.base = db.base

PackageInvariant ==
    /\ PpTypeOK /\ StagedPackages /\ SessionsOpen /\ OpenKnows
    /\ NoHalfPackage /\ AckedStands /\ ExportAlone /\ ArchiveIsAState

-----------------------------------------------------------------------------
(* Values *)

Files == {"creating", "restoring"}

\* A staging folder has no package's name.
LEMMA PathsApart ==
    /\ \A n \in Names : n \in Paths
    /\ \A p \in Procs, f \in Files : <<p, f>> \in Paths /\ <<p, f>> \notin Names
    /\ \A p, q \in Procs, f, g \in Files : <<p, f>> = <<q, g>> => p = q /\ f = g
<1>1. \A p \in Procs, f \in Files : <<p, f>> \in Procs \X {"creating", "restoring"}
  BY DEF Files
<1> QED  BY <1>1, StagingHasOtherNames DEF Paths

LEMMA NoneApart ==
    /\ None \notin Names /\ None \notin Procs /\ None \notin Nat
    /\ None \notin Databases /\ None \notin Packages /\ None \notin Archives
BY NoneIsNothing

LEMMA DatabaseParts ==
    /\ \A db \in Databases :
          /\ db.id \in Nat /\ db.version \in {Old, Current} /\ db.guarded \in Nat
          /\ db.rows \in Seq(Nat) /\ db.main \in Nat /\ db.base \in Nat
          /\ db.base <= db.main /\ db.main <= Len(db.rows)
          /\ db = [ id |-> db.id, version |-> db.version, guarded |-> db.guarded,
                    rows |-> db.rows, main |-> db.main, base |-> db.base ]
    /\ \A id, guarded, main, base \in Nat, version \in {Old, Current}, rows \in Seq(Nat) :
          base <= main /\ main <= Len(rows) =>
             [ id |-> id, version |-> version, guarded |-> guarded,
               rows |-> rows, main |-> main, base |-> base ] \in Databases
BY DEF Databases

\* A database without a log.
LEMMA WholeDb ==
    ASSUME NEW id \in Nat, NEW version \in {Old, Current}, NEW guarded \in Nat, NEW rows \in Seq(Nat)
    PROVE  /\ Db(id, version, guarded, rows) \in Databases
           /\ Db(id, version, guarded, rows).id = id
           /\ Db(id, version, guarded, rows).version = version
           /\ Db(id, version, guarded, rows).rows = rows
<1>1. Len(rows) \in Nat
  OBVIOUS
<1> QED  BY <1>1, DatabaseParts DEF Db

LEMMA PackageParts ==
    /\ \A pkg \in Packages :
          /\ pkg.manifest \in Nat \cup {None} /\ pkg.db \in Databases \cup {None}
          /\ pkg.copies \in SUBSET Copies
          /\ pkg = [manifest |-> pkg.manifest, db |-> pkg.db, copies |-> pkg.copies]
    /\ \A manifest \in Nat \cup {None}, db \in Databases \cup {None}, copies \in SUBSET Copies :
          [manifest |-> manifest, db |-> db, copies |-> copies] \in Packages
BY DEF Packages

LEMMA CommandParts ==
    /\ Idle \in CommandStates /\ Idle.kind = "idle"
    /\ \A n \in Names, id \in Nat, built \in BOOLEAN :
          [kind |-> "create", name |-> n, id |-> id, built |-> built] \in CommandStates
    /\ \A n \in Names, step \in {"found", "copied"}, manifest \in Nat, version \in {Old, Current} :
          [ kind |-> "open", name |-> n, step |-> step,
            manifest |-> manifest, version |-> version ] \in CommandStates
    /\ \A n \in Names, id, manifest \in Nat, copies \in SUBSET Copies,
          main, log \in Databases \cup {None}, alone \in BOOLEAN :
          [ kind |-> "export", name |-> n, id |-> id, manifest |-> manifest, copies |-> copies,
            main |-> main, log |-> log, alone |-> alone ] \in CommandStates
    /\ \A c \in CommandStates :
          /\ c.kind \in {"idle", "create", "open", "export"}
          /\ c.kind = "idle" => c = Idle
          /\ c.kind # "idle" => c.name \in Names
          /\ c.kind = "create" =>
                /\ c.id \in Nat /\ c.built \in BOOLEAN
                /\ c = [kind |-> "create", name |-> c.name, id |-> c.id, built |-> c.built]
          /\ c.kind = "open" =>
                /\ c.step \in {"found", "copied"} /\ c.manifest \in Nat /\ c.version \in {Old, Current}
                /\ c = [ kind |-> "open", name |-> c.name, step |-> c.step,
                         manifest |-> c.manifest, version |-> c.version ]
          /\ c.kind = "export" =>
                /\ c.id \in Nat /\ c.manifest \in Nat /\ c.copies \in SUBSET Copies
                /\ c.main \in Databases \cup {None} /\ c.log \in Databases \cup {None}
                /\ c.alone \in BOOLEAN
                /\ c = [ kind |-> "export", name |-> c.name, id |-> c.id,
                         manifest |-> c.manifest, copies |-> c.copies,
                         main |-> c.main, log |-> c.log, alone |-> c.alone ]
BY DEF CommandStates, Idle

LEMMA ImportParts ==
    /\ Idle \in ImportStates /\ Idle.kind = "idle"
    /\ \A kind \in {"extracted", "adopted", "emptied", "refused"}, n \in Names,
          overwrite, torn \in BOOLEAN, id \in Nat :
          [ kind |-> kind, name |-> n, overwrite |-> overwrite,
            id |-> id, torn |-> torn ] \in ImportStates
    /\ \A i \in ImportStates :
          /\ i.kind \in {"idle", "extracted", "adopted", "emptied", "refused"}
          /\ i.kind = "idle" => i = Idle
          /\ i.kind # "idle" =>
                /\ i.name \in Names /\ i.overwrite \in BOOLEAN /\ i.id \in Nat /\ i.torn \in BOOLEAN
                /\ i = [ kind |-> i.kind, name |-> i.name, overwrite |-> i.overwrite,
                         id |-> i.id, torn |-> i.torn ]
BY DEF ImportStates, Idle

LEMMA ArchiveParts ==
    /\ \A a \in Archives :
          /\ a.id \in Nat /\ a.manifest \in Nat /\ a.copies \in SUBSET Copies
          /\ a.db \in Databases /\ a.torn \in BOOLEAN /\ a.alone \in BOOLEAN
    /\ \A id, manifest \in Nat, copies \in SUBSET Copies, db \in Databases,
          torn, alone \in BOOLEAN :
          [ id |-> id, manifest |-> manifest, copies |-> copies, db |-> db,
            torn |-> torn, alone |-> alone ] \in Archives
BY DEF Archives

\* A new package is whole and up to date.
LEMMA NewPackageIsWhole ==
    ASSUME NEW id \in Nat, NEW version \in {Old, Current}
    PROVE  /\ Package(id, version) \in Packages
           /\ Package(id, version) # None
           /\ Opens(Package(id, version))
           /\ Holds(Package(id, version), version)
           /\ Package(id, version).manifest = id
           /\ Package(id, version).db = Db(id, version, 0, <<id>>)
           /\ Package(id, version).db.rows = <<id>>
<1> DEFINE rows == <<id>>
           db == Db(id, version, 0, rows)
<1>1. rows \in Seq(Nat) /\ 0 \in Nat
  OBVIOUS
<1> HIDE DEF rows
<1>2. db \in Databases /\ db.id = id /\ db.version = version /\ db.rows = rows
  BY <1>1, WholeDb
<1> HIDE DEF db
<1>3. Package(id, version) = [manifest |-> id, db |-> db, copies |-> {}]
  BY DEF Package, db, rows
<1>4. Package(id, version) \in Packages
  BY <1>2, <1>3, PackageParts
<1>5. Opens(Package(id, version)) /\ Holds(Package(id, version), version)
  BY <1>2, <1>3, <1>4, NoneApart DEF Opens, Holds
<1> QED  BY <1>2, <1>3, <1>4, <1>5, NoneApart DEF db, rows

\* Two files of one state, or of one and a later one, make a database.
LEMMA JoinedIsDb ==
    ASSUME NEW main \in Databases, NEW log \in Databases
    PROVE  Joined(main, log) \in Databases
<1> DEFINE rows == CASE ~Fits(main, log)           -> <<>>
                     [] log.base = Len(log.rows)   -> SubSeq(main.rows, 1, main.main)
                     [] OTHER                      -> log.rows
<1>1. SubSeq(main.rows, 1, main.main) \in Seq(Nat)
  <2>1. main.rows \in Seq(Nat) /\ main.main \in Nat /\ main.main <= Len(main.rows)
    BY DatabaseParts
  <2>2. \A i \in 1..main.main : main.rows[i] \in Nat
    BY <2>1
  <2> QED  BY <2>1, <2>2, SubSeqProperties
<1>2. log.rows \in Seq(Nat) /\ << >> \in Seq(Nat)
  BY DatabaseParts
<1>3. rows \in Seq(Nat)
  BY <1>1, <1>2
<1>4. /\ main.id \in Nat /\ main.version \in {Old, Current}
      /\ main.guarded \in Nat /\ log.guarded \in Nat
  BY DatabaseParts
<1> HIDE DEF rows
<1>5. (IF main.guarded = 0 THEN log.guarded ELSE main.guarded) \in Nat
  BY <1>4
<1> DEFINE guarded == IF main.guarded = 0 THEN log.guarded ELSE main.guarded
<1> HIDE DEF guarded
<1>6. Joined(main, log) = Db(main.id, main.version, guarded, rows)
  BY DEF Joined, rows, guarded
<1> QED  BY <1>3, <1>4, <1>5, <1>6, WholeDb DEF guarded

-----------------------------------------------------------------------------
(* What each step changes, and that the shapes stay *)

\* Only these packages, this command, this import change.
Besides(X) == \A x \in Paths \ X : dir'[x] = dir[x]
CommandOnly(p) == \A q \in Procs \ {p} : command'[q] = command[q]
ImportOnly(p) == \A q \in Procs \ {p} : import'[q] = import[q]

\* The packages under names, and the staging folders, that stay.
NamesStay(X) == \A m \in Names \ X : dir'[m] = dir[m]
NewStay(X) == \A q \in Procs \ X : dir'[<<q, "creating">>] = dir[<<q, "creating">>]
RestoredStay(X) == \A q \in Procs \ X : dir'[<<q, "restoring">>] = dir[<<q, "restoring">>]

\* What a step changes: the package under a name, a staging folder, or both.
OnlyName(n) == NamesStay({n}) /\ NewStay({}) /\ RestoredStay({})
OnlyNew(p) == NamesStay({}) /\ NewStay({p}) /\ RestoredStay({})
OnlyRestored(p) == NamesStay({}) /\ NewStay({}) /\ RestoredStay({p})
OnlyFolders(p) == NamesStay({}) /\ NewStay({p}) /\ RestoredStay({p})
NameAndNew(n, p) == NamesStay({n}) /\ NewStay({p}) /\ RestoredStay({})
NameAndRestored(n, p) == NamesStay({n}) /\ NewStay({}) /\ RestoredStay({p})

LEMMA Untouched ==
    /\ \A n \in Names : Besides({n}) => OnlyName(n)
    /\ \A p \in Procs : Besides({<<p, "creating">>}) => OnlyNew(p)
    /\ \A p \in Procs : Besides({<<p, "restoring">>}) => OnlyRestored(p)
    /\ \A p \in Procs : Besides({<<p, "creating">>, <<p, "restoring">>}) => OnlyFolders(p)
    /\ \A p \in Procs, n \in Names : Besides({n, <<p, "creating">>}) => NameAndNew(n, p)
    /\ \A p \in Procs, n \in Names : Besides({n, <<p, "restoring">>}) => NameAndRestored(n, p)
<1> DEFINE new(q) == <<q, "creating">>
           old(q) == <<q, "restoring">>
<1>1. "creating" \in Files /\ "restoring" \in Files
  BY DEF Files
<1>2. /\ \A n \in Names : n \in Paths
      /\ \A p \in Procs : /\ new(p) \in Paths /\ new(p) \notin Names
                          /\ old(p) \in Paths /\ old(p) \notin Names
      /\ \A p, q \in Procs : /\ new(p) # old(q)
                             /\ new(p) = new(q) => p = q
                             /\ old(p) = old(q) => p = q
  BY <1>1, PathsApart
<1>3. /\ \A X : NewStay(X) <=> \A q \in Procs \ X : dir'[new(q)] = dir[new(q)]
      /\ \A X : RestoredStay(X) <=> \A q \in Procs \ X : dir'[old(q)] = dir[old(q)]
  BY DEF NewStay, RestoredStay
<1> HIDE DEF new, old
<1>4. \A n \in Names : Besides({n}) => OnlyName(n)
  BY <1>2, <1>3 DEF Besides, NamesStay, OnlyName
<1>5. ASSUME NEW p \in Procs
      PROVE  /\ Besides({new(p)}) => OnlyNew(p)
             /\ Besides({old(p)}) => OnlyRestored(p)
             /\ Besides({new(p), old(p)}) => OnlyFolders(p)
  BY <1>2, <1>3 DEF Besides, NamesStay, OnlyNew, OnlyRestored, OnlyFolders
<1>6. ASSUME NEW p \in Procs, NEW n \in Names
      PROVE  /\ Besides({n, new(p)}) => NameAndNew(n, p)
             /\ Besides({n, old(p)}) => NameAndRestored(n, p)
  BY <1>2, <1>3 DEF Besides, NamesStay, NameAndNew, NameAndRestored
<1> QED  BY <1>4, <1>5, <1>6 DEF new, old

BeginCreateEffect(p) ==
    /\ UNCHANGED <<session, import, archive, acked, removing>>
    /\ command[p] = Idle /\ CommandOnly(p)
    /\ command'[p].kind = "create" /\ ~command'[p].built
    /\ OnlyNew(p)
    /\ dir'[<<p, "creating">>] # None /\ dir'[<<p, "creating">>].db = None

LEMMA BeginCreateChanges ==
    ASSUME PpTypeOK, NEW p \in Procs, NEW n \in Names, BeginCreate(p, n)
    PROVE  PpTypeOK' /\ BeginCreateEffect(p)
<1> USE DEF BeginCreateEffect
<1> DEFINE pkg == [manifest |-> None, db |-> None, copies |-> {}]
           c == [kind |-> "create", name |-> n, id |-> ids + 1, built |-> FALSE]
<1>1. pkg \in Packages /\ pkg # None /\ pkg.db = None
  BY PackageParts, NoneApart
<1>2. ids + 1 \in Nat /\ c \in CommandStates /\ c.kind = "create" /\ ~c.built
  <2>1. ids + 1 \in Nat
    BY DEF PpTypeOK
  <2> DEFINE id == ids + 1
  <2> HIDE DEF id
  <2>2. [kind |-> "create", name |-> n, id |-> id, built |-> FALSE] \in CommandStates
    BY <2>1, CommandParts, Zenon DEF id
  <2> QED  BY <2>1, <2>2 DEF id
<1>3. <<p, "creating">> \in Paths
  BY PathsApart DEF Files
<1>4. /\ dir' = [dir EXCEPT ![<<p, "creating">>] = pkg]
      /\ command' = [command EXCEPT ![p] = c]
      /\ ids' = ids + 1 /\ command[p] = Idle
      /\ UNCHANGED <<session, import, archive, acked, removing>>
  BY DEF BeginCreate, Goes, Staging, Free
<1> HIDE DEF pkg, c
<1> QED  BY <1>1, <1>2, <1>3, <1>4, Untouched DEF PpTypeOK, Besides, CommandOnly

\* The flags of a command that change.
LEMMA CommandMoves ==
    /\ \A flag : \A c \in CommandStates : c.kind = "create" =>
          [c EXCEPT !.built = flag]
            = [kind |-> "create", name |-> c.name, id |-> c.id, built |-> flag]
    /\ \A flag : \A c \in CommandStates : c.kind = "export" =>
          [c EXCEPT !.alone = flag]
            = [ kind |-> "export", name |-> c.name, id |-> c.id,
                manifest |-> c.manifest, copies |-> c.copies,
                main |-> c.main, log |-> c.log, alone |-> flag ]
<1>1. \A flag : \A c \in CommandStates : c.kind = "create" =>
        [c EXCEPT !.built = flag]
          = [kind |-> "create", name |-> c.name, id |-> c.id, built |-> flag]
  BY CommandParts
<1>2. \A flag : \A c \in CommandStates : c.kind = "export" =>
        [c EXCEPT !.alone = flag]
          = [ kind |-> "export", name |-> c.name, id |-> c.id,
              manifest |-> c.manifest, copies |-> c.copies,
              main |-> c.main, log |-> c.log, alone |-> flag ]
  BY CommandParts
<1> QED  BY <1>1, <1>2

BuildEffect(p) ==
    /\ UNCHANGED <<session, import, archive, acked, removing>>
    /\ command[p].kind = "create" /\ CommandOnly(p)
    /\ command'[p].kind = "create" /\ command'[p].built
    /\ OnlyNew(p)
    /\ dir'[<<p, "creating">>] # None
    /\ Opens(dir'[<<p, "creating">>]) /\ Holds(dir'[<<p, "creating">>], Current)

LEMMA BuildChanges ==
    ASSUME PpTypeOK, NEW p \in Procs, Build(p)
    PROVE  PpTypeOK' /\ BuildEffect(p)
<1> USE DEF BuildEffect
<1> DEFINE pkg == Package(command[p].id, Current)
           c == [command[p] EXCEPT !.built = TRUE]
<1>1. command[p] \in CommandStates /\ command[p].kind = "create"
  BY DEF PpTypeOK, Build
<1>2. command[p].id \in Nat /\ command[p].name \in Names
  BY <1>1, CommandParts
<1>3. /\ c = [kind |-> "create", name |-> command[p].name, id |-> command[p].id, built |-> TRUE]
      /\ c \in CommandStates
  <2>2. c = [kind |-> "create", name |-> command[p].name, id |-> command[p].id, built |-> TRUE]
    BY <1>1, CommandMoves, Zenon
  <2>3. [ kind |-> "create", name |-> command[p].name,
          id |-> command[p].id, built |-> TRUE ] \in CommandStates
    BY <1>2, CommandParts, Zenon
  <2> QED  BY <2>2, <2>3
<1>4. pkg \in Packages /\ pkg # None /\ Opens(pkg) /\ Holds(pkg, Current)
  BY <1>2, NewPackageIsWhole
<1>5. <<p, "creating">> \in Paths
  BY PathsApart DEF Files
<1>6. /\ dir' = [dir EXCEPT ![<<p, "creating">>] = pkg]
      /\ command' = [command EXCEPT ![p] = c]
      /\ UNCHANGED <<session, import, archive, ids, acked, removing>>
  BY DEF Build, Goes, Staging, NewPackage
<1> HIDE DEF pkg
<1>7. c.kind = "create" /\ c.built
  BY <1>3
<1> HIDE DEF c
<1> QED  BY <1>1, <1>3, <1>4, <1>5, <1>6, <1>7, Untouched DEF PpTypeOK, Besides, CommandOnly

\* Either the package gets its name, or the name is taken.
PublishNewEffect(p) ==
    LET n == command[p].name
        s == <<p, "creating">> IN
    /\ UNCHANGED <<session, import, archive>>
    /\ n \in Names /\ CommandOnly(p)
    /\ command[p].kind = "create" /\ command[p].built
    /\ dir'[s] = None
    /\ \/ /\ dir[n] = None /\ dir'[n] = dir[s]
          /\ NameAndNew(n, p)
          /\ acked'[n] = dir[s].db.rows
          /\ \A m \in Names \ {n} : acked'[m] = acked[m]
          /\ removing' = removing \ {n}
          /\ command'[p].kind = "open" /\ command'[p].name = n
          /\ command'[p].step = "found"
       \/ /\ OnlyNew(p) /\ command'[p] = Idle
          /\ UNCHANGED <<acked, removing>>

LEMMA PublishNewChanges ==
    ASSUME PpTypeOK, StagedPackages, NEW p \in Procs, PublishNew(p)
    PROVE  PpTypeOK' /\ PublishNewEffect(p)
<1> USE DEF PublishNewEffect
<1> DEFINE n == command[p].name
           s == <<p, "creating">>
           c == [ kind |-> "open", name |-> n, step |-> "found",
                  manifest |-> dir[s].manifest, version |-> Current ]
<1>1. /\ command[p] \in CommandStates /\ command[p].kind = "create" /\ command[p].built
      /\ dir \in [Paths -> Packages \cup {None}]
      /\ acked \in [Names -> Seq(Nat)] /\ removing \subseteq Names
  BY DEF PpTypeOK, PublishNew
<1>2. n \in Names /\ n \in Paths /\ s \in Paths /\ s # n
  <2>1. n \in Names
    BY <1>1, CommandParts
  <2>2. s \in Paths /\ s \notin Names
    BY PathsApart DEF Files
  <2> QED  BY <2>1, <2>2, PathsApart
<1>3. dir[s] # None /\ Opens(dir[s])
  BY <1>1, NoneApart DEF StagedPackages, Holds
<1>4. dir[s] \in Packages /\ dir[s].manifest \in Nat /\ dir[s].db.rows \in Seq(Nat)
  BY <1>1, <1>2, <1>3, PackageParts, DatabaseParts, NoneApart DEF Opens
<1>5. c \in CommandStates /\ c.kind = "open" /\ c.name = n /\ c.step = "found"
  BY <1>2, <1>4, CommandParts
<1>6. CASE dir[n] = None
  <2>1. /\ dir' = [dir EXCEPT ![n] = dir[s], ![s] = None]
        /\ acked' = [acked EXCEPT ![n] = dir[s].db.rows]
        /\ removing' = removing \ {n}
        /\ command' = [command EXCEPT ![p] = c]
        /\ UNCHANGED <<session, import, archive, ids>>
    BY <1>6 DEF PublishNew, Staging, Goes
  <2> HIDE DEF n, s, c
  <2>2. PpTypeOK'
    BY <1>1, <1>2, <1>4, <1>5, <2>1 DEF PpTypeOK
  <2>3. dir'[n] = dir[s] /\ dir'[s] = None /\ Besides({n, s})
    BY <1>1, <1>2, <2>1 DEF Besides
  <2>4. acked'[n] = dir[s].db.rows /\ \A m \in Names \ {n} : acked'[m] = acked[m]
    BY <1>1, <1>2, <2>1
  <2>5. command'[p] = c /\ CommandOnly(p)
    BY <2>1 DEF PpTypeOK, CommandOnly
  <2> QED  BY <1>1, <1>2, <1>5, <1>6, <2>1, <2>2, <2>3, <2>4, <2>5, Untouched DEF n, s
<1>7. CASE dir[n] # None
  <2>1. /\ dir' = [dir EXCEPT ![s] = None]
        /\ command' = [command EXCEPT ![p] = Idle]
        /\ UNCHANGED <<session, import, archive, ids, acked, removing>>
    BY <1>7 DEF PublishNew, Staging, Goes
  <2> HIDE DEF n, s, c
  <2>2. PpTypeOK'
    BY <1>1, <1>2, <2>1, CommandParts DEF PpTypeOK
  <2>3. dir'[s] = None /\ Besides({s}) /\ command'[p] = Idle /\ CommandOnly(p)
    BY <1>1, <1>2, <2>1 DEF PpTypeOK, Besides, CommandOnly
  <2> QED  BY <1>1, <1>2, <2>1, <2>2, <2>3, Untouched DEF n, s
<1> QED  BY <1>6, <1>7

BeginOpenEffect(p, n) ==
    /\ UNCHANGED <<dir, session, import, archive, ids, acked, removing>>
    /\ command[p] = Idle /\ CommandOnly(p)
    /\ command'[p].kind = "open" /\ command'[p].name = n /\ command'[p].step = "found"
    /\ dir[n] # None /\ dir[n].db # None /\ command'[p].version = dir[n].db.version

LEMMA BeginOpenChanges ==
    ASSUME PpTypeOK, NEW p \in Procs, NEW n \in Names, BeginOpen(p, n)
    PROVE  PpTypeOK' /\ BeginOpenEffect(p, n)
<1> USE DEF BeginOpenEffect
<1> DEFINE c == [ kind |-> "open", name |-> n, step |-> "found",
                  manifest |-> dir[n].manifest, version |-> dir[n].db.version ]
<1>1. /\ command' = [command EXCEPT ![p] = c]
      /\ dir[n] # None /\ dir[n].manifest # None /\ dir[n].db # None
      /\ command[p] = Idle
      /\ UNCHANGED <<dir, session, import, archive, ids, acked, removing>>
  BY DEF BeginOpen, Goes, Free
<1>2. dir[n] \in Packages
  BY <1>1, PathsApart DEF PpTypeOK
<1>3. dir[n].manifest \in Nat /\ dir[n].db.version \in {Old, Current}
  BY <1>1, <1>2, PackageParts, DatabaseParts
<1>4. /\ c \in CommandStates /\ c.kind = "open" /\ c.name = n /\ c.step = "found"
      /\ c.version = dir[n].db.version
  BY <1>3, CommandParts
<1> HIDE DEF c
<1> QED  BY <1>1, <1>4 DEF PpTypeOK, CommandOnly

CopyBeforeEffect(p) ==
    LET n == command[p].name IN
    /\ UNCHANGED <<session, import, archive, ids, acked, removing>>
    /\ n \in Names /\ command[p].kind = "open" /\ CommandOnly(p) /\ OnlyName(n)
    /\ command'[p].kind = "open" /\ command'[p].name = n
    /\ command'[p].step = "copied" /\ command'[p].version = command[p].version
    /\ dir[n] # None /\ dir[n].db # None /\ dir'[n] # None
    /\ dir'[n].manifest = dir[n].manifest /\ dir'[n].db = dir[n].db
    /\ dir'[n].copies =
         dir[n].copies \cup {[version |-> dir[n].db.version, rows |-> dir[n].db.rows]}

LEMMA CopyBeforeChanges ==
    ASSUME PpTypeOK, NEW p \in Procs, CopyBefore(p)
    PROVE  PpTypeOK' /\ CopyBeforeEffect(p)
<1> USE DEF CopyBeforeEffect
<1> DEFINE n == command[p].name
           copy == [version |-> dir[n].db.version, rows |-> dir[n].db.rows]
           pkg == [manifest |-> dir[n].manifest, db |-> dir[n].db, copies |-> dir[n].copies \cup {copy}]
           c == [ kind |-> "open", name |-> n, step |-> "copied",
                  manifest |-> command[p].manifest, version |-> command[p].version ]
<1>1. /\ command[p] \in CommandStates /\ command[p].kind = "open"
      /\ dir \in [Paths -> Packages \cup {None}]
      /\ dir[n] # None /\ dir[n].db # None
  BY DEF PpTypeOK, CopyBefore, Opening
<1>2. n \in Names /\ n \in Paths
  BY <1>1, CommandParts, PathsApart
<1>3. dir[n] \in Packages /\ dir[n].db \in Databases /\ dir[n].copies \in SUBSET Copies
  BY <1>1, <1>2, PackageParts
<1>4. copy \in Copies
  BY <1>3, DatabaseParts DEF Copies
<1>5. [dir[n] EXCEPT !.copies = @ \cup {copy}] = pkg
  <2> HIDE DEF copy
  <2> QED  BY <1>3, PackageParts
<1>6. [command[p] EXCEPT !.step = "copied"] = c
  BY <1>1, CommandParts
<1>7. c \in CommandStates
  BY <1>1, <1>2, CommandParts
<1>8. pkg \in Packages
  <2> HIDE DEF copy
  <2> QED  BY <1>3, <1>4, PackageParts
<1>9. /\ dir' = [dir EXCEPT ![n] = [dir[n] EXCEPT !.copies = @ \cup {copy}]]
      /\ command' = [command EXCEPT ![p] = [command[p] EXCEPT !.step = "copied"]]
      /\ UNCHANGED <<session, import, archive, ids, acked, removing>>
  BY DEF CopyBefore, Goes
<1>10. pkg # None
  BY <1>8, NoneApart
<1>11. /\ pkg.manifest = dir[n].manifest /\ pkg.db = dir[n].db
       /\ pkg.copies = dir[n].copies \cup {copy}
       /\ c.kind = "open" /\ c.name = n /\ c.step = "copied" /\ c.version = command[p].version
  OBVIOUS
<1>12. PpTypeOK' /\ dir'[n] = pkg /\ Besides({n}) /\ command'[p] = c /\ CommandOnly(p)
  <2> HIDE DEF pkg, c, n, copy
  <2> QED  BY <1>1, <1>2, <1>5, <1>6, <1>7, <1>8, <1>9 DEF PpTypeOK, Besides, CommandOnly
<1> HIDE DEF pkg, c
<1> QED  BY <1>1, <1>2, <1>9, <1>10, <1>11, <1>12, Untouched

\* A package with another database in it.
LEMMA WithDatabase ==
    ASSUME NEW pkg \in Packages, NEW db \in Databases
    PROVE  /\ [pkg EXCEPT !.db = db] \in Packages
           /\ [pkg EXCEPT !.db = db] # None
           /\ [pkg EXCEPT !.db = db].manifest = pkg.manifest
           /\ [pkg EXCEPT !.db = db].db = db
           /\ [pkg EXCEPT !.db = db].copies = pkg.copies
<1>1. [pkg EXCEPT !.db = db] = [manifest |-> pkg.manifest, db |-> db, copies |-> pkg.copies]
  BY PackageParts
<1> QED  BY <1>1, PackageParts, NoneApart

MigrateEffect(p) ==
    LET n == command[p].name IN
    /\ UNCHANGED <<session, import, archive, ids, acked, removing>>
    /\ n \in Names /\ command[p].kind = "open" /\ command[p].step = "copied"
    /\ CommandOnly(p) /\ OnlyName(n)
    /\ \/ command'[p].kind = "open" /\ command'[p].name = n
       \/ command'[p] = Idle
    /\ dir[n] # None /\ dir[n].db # None /\ dir'[n] # None /\ dir'[n].db # None
    /\ dir'[n].manifest = dir[n].manifest /\ dir'[n].copies = dir[n].copies
    /\ dir'[n].db.version = Current
    /\ dir'[n].db.id = dir[n].db.id /\ dir'[n].db.rows = dir[n].db.rows
    /\ dir'[n].db.base = dir[n].db.base

LEMMA MigrateChanges ==
    ASSUME PpTypeOK, NEW p \in Procs, Migrate(p)
    PROVE  PpTypeOK' /\ MigrateEffect(p)
<1> USE DEF MigrateEffect
<1> DEFINE n == command[p].name
           old == dir[n].db
           db == [ id |-> old.id, version |-> Current, guarded |-> old.guarded,
                   rows |-> old.rows, main |-> old.main, base |-> old.base ]
           pkg == [dir[n] EXCEPT !.db = db]
           c == [ kind |-> "open", name |-> n, step |-> command[p].step,
                  manifest |-> command[p].manifest, version |-> Current ]
<1>1. /\ command[p] \in CommandStates /\ command[p].kind = "open" /\ command[p].step = "copied"
      /\ dir \in [Paths -> Packages \cup {None}]
      /\ dir[n] # None /\ dir[n].db # None
  BY DEF PpTypeOK, Migrate, Opening
<1>2. n \in Names /\ n \in Paths
  BY <1>1, CommandParts, PathsApart
<1>3. dir[n] \in Packages /\ old \in Databases
  BY <1>1, <1>2, PackageParts
<1>4. db \in Databases /\ [old EXCEPT !.version = Current] = db
  <2> HIDE DEF old
  <2> QED  BY <1>3, DatabaseParts
<1>5. /\ db.version = Current /\ db.id = old.id /\ db.rows = old.rows /\ db.base = old.base
      /\ db # None
  BY <1>4, NoneApart
<1>6. [command[p] EXCEPT !.version = Current] = c /\ c \in CommandStates
  BY <1>1, <1>2, CommandParts
<1>7. c.kind = "open" /\ c.name = n
  OBVIOUS
<1>8. /\ dir' = [dir EXCEPT ![n] = [dir[n] EXCEPT !.db = [old EXCEPT !.version = Current]]]
      /\ \/ command' = [command EXCEPT ![p] = [command[p] EXCEPT !.version = Current]]
         \/ command' = [command EXCEPT ![p] = Idle]
      /\ UNCHANGED <<session, import, archive, ids, acked, removing>>
  BY DEF Migrate, Goes
<1> HIDE DEF db
<1>9. /\ pkg \in Packages /\ pkg # None /\ pkg.manifest = dir[n].manifest
      /\ pkg.db = db /\ pkg.copies = dir[n].copies
  BY <1>3, <1>4, WithDatabase
<1> HIDE DEF old, pkg, c
<1>10. dir' = [dir EXCEPT ![n] = pkg]
  BY <1>4, <1>8 DEF pkg
<1>11. \/ command' = [command EXCEPT ![p] = c]
       \/ command' = [command EXCEPT ![p] = Idle]
  BY <1>6, <1>8
<1> HIDE DEF n
<1>12. PpTypeOK' /\ dir'[n] = pkg /\ Besides({n}) /\ command'[p] \in {c, Idle} /\ CommandOnly(p)
  <2>1. dir' \in [Paths -> Packages \cup {None}] /\ dir'[n] = pkg /\ Besides({n})
    BY <1>1, <1>2, <1>9, <1>10 DEF Besides
  <2>2. /\ command' \in [Procs -> CommandStates]
        /\ command'[p] \in {c, Idle} /\ CommandOnly(p)
    <3>1. command \in [Procs -> CommandStates] /\ Idle \in CommandStates
      BY CommandParts DEF PpTypeOK
    <3>2. CASE command' = [command EXCEPT ![p] = c]
      BY <1>6, <3>1, <3>2 DEF CommandOnly
    <3>3. CASE command' = [command EXCEPT ![p] = Idle]
      BY <3>1, <3>3 DEF CommandOnly
    <3> QED  BY <1>11, <3>2, <3>3
  <2> QED  BY <1>8, <2>1, <2>2 DEF PpTypeOK
<1> QED  BY <1>1, <1>2, <1>5, <1>7, <1>8, <1>9, <1>12, Untouched DEF n, old

BindEffect(p) ==
    LET n == command[p].name IN
    /\ UNCHANGED <<dir, import, archive, ids, acked, removing>>
    /\ n \in Names /\ command[p].kind = "open" /\ command[p].version = Current
    /\ command'[p] = Idle /\ CommandOnly(p)
    /\ \A q \in Procs \ {p} : session'[q] = session[q]
    /\ \/ session'[p] = session[p]
       \/ session'[p] = n /\ Opens(dir[n])

LEMMA BindChanges ==
    ASSUME PpTypeOK, NEW p \in Procs, Bind(p)
    PROVE  PpTypeOK' /\ BindEffect(p)
<1> USE DEF BindEffect
<1>1. command[p] \in CommandStates /\ command[p].kind = "open"
  BY DEF PpTypeOK, Bind
<1>2. command[p].name \in Names
  BY <1>1, CommandParts
<1>3. /\ command' = [command EXCEPT ![p] = Idle]
      /\ \/ session' = session
         \/ /\ session' = [session EXCEPT ![p] = command[p].name]
            /\ Opens(dir[command[p].name])
      /\ command[p].version = Current
      /\ UNCHANGED <<dir, import, archive, ids, acked, removing>>
  BY DEF Bind, Goes
<1> QED  BY <1>1, <1>2, <1>3, CommandParts DEF PpTypeOK, CommandOnly

\* Under n another database of the same project and version.
DatabaseMoves(n) ==
    /\ dir[n] # None /\ dir[n].db # None /\ dir'[n] # None /\ dir'[n].db # None
    /\ dir'[n].manifest = dir[n].manifest /\ dir'[n].copies = dir[n].copies
    /\ dir'[n].db.id = dir[n].db.id /\ dir'[n].db.version = dir[n].db.version

\* What an open session is good for.
LEMMA SessionHas ==
    ASSUME PpTypeOK, SessionsOpen, NEW p \in Procs, session[p] # None
    PROVE  /\ session[p] \in Names /\ session[p] \in Paths
           /\ dir[session[p]] \in Packages /\ dir[session[p]] # None
           /\ dir[session[p]].db \in Databases /\ dir[session[p]].db # None
           /\ dir[session[p]].manifest \in Nat
<1>1. session[p] \in Names /\ session[p] \in Paths
  BY PathsApart DEF PpTypeOK
<1>2. dir[session[p]] \in Packages \cup {None} /\ Opens(dir[session[p]])
  BY <1>1 DEF PpTypeOK, SessionsOpen
<1> QED  BY <1>1, <1>2, PackageParts DEF Opens

CloseEffect(p) ==
    LET n == session[p] IN
    /\ UNCHANGED <<command, import, archive, ids, acked, removing>>
    /\ n \in Names /\ command[p] = Idle
    /\ session'[p] = None /\ \A q \in Procs \ {p} : session'[q] = session[q]
    /\ \/ dir' = dir
       \/ /\ \A q \in Procs \ {p} : session[q] # n
          /\ OnlyName(n) /\ DatabaseMoves(n)
          /\ dir'[n].db.rows = dir[n].db.rows

LEMMA CloseChanges ==
    ASSUME PpTypeOK, SessionsOpen, NEW p \in Procs, Close(p)
    PROVE  PpTypeOK' /\ CloseEffect(p)
<1> USE DEF CloseEffect
<1> DEFINE n == session[p]
           old == dir[n].db
           db == Db(old.id, old.version, old.guarded, old.rows)
<1>1. /\ n # None /\ command[p] = Idle
      /\ session' = [session EXCEPT ![p] = None]
      /\ \/ dir' = dir
         \/ /\ \A q \in Procs \ {p} : session[q] # n
            /\ dir' = [dir EXCEPT ![n] = [dir[n] EXCEPT !.db = db]]
      /\ UNCHANGED <<command, import, archive, ids, acked, removing>>
  BY DEF Close, Free
<1>2. /\ n \in Names /\ n \in Paths /\ dir[n] \in Packages /\ dir[n] # None
      /\ old \in Databases /\ old # None
  BY <1>1, SessionHas
<1>3. db \in Databases /\ db.id = old.id /\ db.version = old.version /\ db.rows = old.rows
  <2>1. /\ old.id \in Nat /\ old.version \in {Old, Current} /\ old.guarded \in Nat
        /\ old.rows \in Seq(Nat)
    BY <1>2, DatabaseParts
  <2> HIDE DEF old
  <2> QED  BY <2>1, WholeDb
<1>4. db # None
  BY <1>3, NoneApart
<1> DEFINE pkg == [dir[n] EXCEPT !.db = db]
<1> HIDE DEF db
<1>5. /\ pkg \in Packages /\ pkg # None /\ pkg.manifest = dir[n].manifest
      /\ pkg.db = db /\ pkg.copies = dir[n].copies
  BY <1>2, <1>3, WithDatabase
<1> HIDE DEF pkg
<1>6. PpTypeOK' /\ session'[p] = None /\ \A q \in Procs \ {p} : session'[q] = session[q]
  <2> HIDE DEF n
  <2>1. dir' \in [Paths -> Packages \cup {None}]
    BY <1>1, <1>2, <1>5 DEF PpTypeOK, pkg
  <2> QED  BY <1>1, <2>1 DEF PpTypeOK
<1>7. CASE dir' = dir
  BY <1>1, <1>2, <1>6, <1>7
<1>8. CASE /\ \A q \in Procs \ {p} : session[q] # n
           /\ dir' = [dir EXCEPT ![n] = [dir[n] EXCEPT !.db = db]]
  <2> HIDE DEF n
  <2>1. dir' = [dir EXCEPT ![n] = pkg] /\ dir \in [Paths -> Packages \cup {None}]
    BY <1>8 DEF PpTypeOK, pkg
  <2>2. dir'[n] = pkg /\ Besides({n})
    BY <1>2, <2>1 DEF Besides
  <2>3. DatabaseMoves(n)
    BY <1>2, <1>3, <1>4, <1>5, <2>2 DEF DatabaseMoves
  <2> QED  BY <1>1, <1>2, <1>3, <1>5, <1>6, <1>8, <2>2, <2>3, Untouched DEF n
<1> QED  BY <1>1, <1>7, <1>8

\* Exports that meet a write, or lose their folder.
DisturbedOf(p, n) ==
    \A q \in Procs :
        \/ command'[q] = command[q]
           /\ ~(q # p /\ command[q].kind = "export" /\ command[q].name = n)
        \/ /\ command[q].kind = "export" /\ command[q].name = n
           /\ command'[q].kind = "export" /\ ~command'[q].alone

LEMMA DisturbedChanges ==
    ASSUME PpTypeOK, NEW p, NEW n, command' = Disturbed(p, n)
    PROVE  command' \in [Procs -> CommandStates] /\ DisturbedOf(p, n)
<1>1. command \in [Procs -> CommandStates]
  BY DEF PpTypeOK
<1> DEFINE met(q) == [command[q] EXCEPT !.alone = FALSE]
<1>2. \A q \in Procs : command[q].kind = "export" =>
         met(q) \in CommandStates /\ met(q).kind = "export" /\ ~met(q).alone
  <2> SUFFICES ASSUME NEW q \in Procs, command[q].kind = "export"
               PROVE  met(q) \in CommandStates /\ met(q).kind = "export" /\ ~met(q).alone
    OBVIOUS
  <2> DEFINE c == command[q]
             new == [ kind |-> "export", name |-> c.name, id |-> c.id,
                      manifest |-> c.manifest, copies |-> c.copies,
                      main |-> c.main, log |-> c.log, alone |-> FALSE ]
  <2>1. c \in CommandStates /\ c.kind = "export"
    BY <1>1
  <2> HIDE DEF c
  <2>2. [c EXCEPT !.alone = FALSE] = new
    BY <2>1, CommandMoves, Zenon
  <2>3. /\ c.name \in Names /\ c.id \in Nat /\ c.manifest \in Nat /\ c.copies \in SUBSET Copies
        /\ c.main \in Databases \cup {None} /\ c.log \in Databases \cup {None}
    BY <2>1, CommandParts
  <2>4. new \in CommandStates
    BY <2>3, CommandParts, Zenon
  <2>5. new.kind = "export" /\ ~new.alone
    OBVIOUS
  <2> HIDE DEF new
  <2> QED  BY <2>2, <2>4, <2>5 DEF c
<1>3. command' = [q \in Procs |-> IF q # p /\ command[q].kind = "export" /\ command[q].name = n
                                  THEN met(q) ELSE command[q]]
  BY DEF Disturbed
<1> HIDE DEF met
<1> QED  BY <1>1, <1>2, <1>3 DEF DisturbedOf

\* Fields are exchanged one after the other.
LEMMA DatabaseWith ==
    ASSUME NEW db \in Databases, NEW rows, NEW first, NEW base
    PROVE  [db EXCEPT !.rows = rows, !.guarded = first, !.base = base]
             = [ id |-> db.id, version |-> db.version, guarded |-> first,
                 rows |-> rows, main |-> db.main, base |-> base ]
<1> DEFINE db1 == [db EXCEPT !.rows = rows]
           db2 == [db1 EXCEPT !.guarded = first]
<1>1. db1 = [ id |-> db.id, version |-> db.version, guarded |-> db.guarded,
              rows |-> rows, main |-> db.main, base |-> db.base ]
  BY DatabaseParts
<1>2. [db EXCEPT !.rows = rows, !.guarded = first, !.base = base] = [db2 EXCEPT !.base = base]
  OBVIOUS
<1> HIDE DEF db1
<1>3. db2 = [ id |-> db.id, version |-> db.version, guarded |-> first,
              rows |-> rows, main |-> db.main, base |-> db.base ]
  BY <1>1
<1> HIDE DEF db2
<1>4. [db2 EXCEPT !.base = base]
        = [ id |-> db.id, version |-> db.version, guarded |-> first,
            rows |-> rows, main |-> db.main, base |-> base ]
  BY <1>3
<1> QED  BY <1>2, <1>4

LEMMA WrittenIsDb ==
    ASSUME NEW db \in Databases, NEW guarded \in BOOLEAN
    PROVE  /\ Written(db, guarded) \in Databases
           /\ Written(db, guarded).id = db.id
           /\ Written(db, guarded).version = db.version
           /\ Written(db, guarded).rows = Append(db.rows, db.id)
<1> DEFINE rows == Append(db.rows, db.id)
           first == IF guarded /\ db.guarded = 0 THEN Len(db.rows) + 1 ELSE db.guarded
           base == IF db.main = Len(db.rows) THEN db.main ELSE db.base
           new == [ id |-> db.id, version |-> db.version, guarded |-> first,
                    rows |-> rows, main |-> db.main, base |-> base ]
<1>1. /\ db.id \in Nat /\ db.version \in {Old, Current} /\ db.guarded \in Nat
      /\ db.rows \in Seq(Nat) /\ db.main \in Nat /\ db.base \in Nat
      /\ db.base <= db.main /\ db.main <= Len(db.rows) /\ Len(db.rows) \in Nat
      /\ db = [ id |-> db.id, version |-> db.version, guarded |-> db.guarded,
                rows |-> db.rows, main |-> db.main, base |-> db.base ]
  BY DatabaseParts
<1>2. rows \in Seq(Nat) /\ Len(rows) = Len(db.rows) + 1
  BY <1>1
<1>3. first = Len(db.rows) + 1 \/ first = db.guarded
  BY Zenon
<1>4. base = db.main \/ base = db.base
  OBVIOUS
<1>5. Written(db, guarded) = [db EXCEPT !.rows = rows, !.guarded = first, !.base = base]
  BY DEF Written
<1> HIDE DEF rows, first, base
<1>6. first \in Nat /\ base \in Nat /\ base <= db.main
  BY <1>1, <1>3, <1>4
<1>7. [db EXCEPT !.rows = rows, !.guarded = first, !.base = base] = new
  BY DatabaseWith, Zenon
<1>8. new \in Databases
  BY <1>1, <1>2, <1>6, DatabaseParts
<1> QED  BY <1>5, <1>7, <1>8 DEF rows

WriteEffect(p) ==
    LET n == session[p] IN
    /\ UNCHANGED <<session, import, archive, ids, removing>>
    /\ n \in Names /\ command[p] = Idle
    /\ OnlyName(n) /\ DatabaseMoves(n)
    /\ acked'[n] = dir'[n].db.rows
    /\ \A m \in Names \ {n} : acked'[m] = acked[m]
    /\ DisturbedOf(p, n)

LEMMA WriteChanges ==
    ASSUME PpTypeOK, SessionsOpen, NEW p \in Procs, Write(p)
    PROVE  PpTypeOK' /\ WriteEffect(p)
<1> USE DEF WriteEffect
<1> DEFINE n == session[p]
           old == dir[n].db
<1>1. /\ n # None /\ command[p] = Idle
      /\ acked' = [acked EXCEPT ![n] = Append(old.rows, old.id)]
      /\ command' = Disturbed(p, n)
      /\ UNCHANGED <<session, import, archive, ids, removing>>
  BY DEF Write, Free
<1>2. /\ n \in Names /\ n \in Paths /\ dir[n] \in Packages /\ dir[n] # None
      /\ old \in Databases /\ old # None
  BY <1>1, SessionHas
<1>3. PICK guarded \in BOOLEAN :
         dir' = [dir EXCEPT ![n] = [dir[n] EXCEPT !.db = Written(old, guarded)]]
  BY GuardsAreBoolean DEF Write
<1> DEFINE new == Written(old, guarded)
           pkg == [dir[n] EXCEPT !.db = new]
<1>4. /\ new \in Databases /\ new.id = old.id /\ new.version = old.version
      /\ new.rows = Append(old.rows, old.id)
  BY <1>2, WrittenIsDb
<1>5. new # None /\ new.rows \in Seq(Nat)
  BY <1>4, NoneApart, DatabaseParts
<1> HIDE DEF old, new
<1>6. /\ pkg \in Packages /\ pkg # None /\ pkg.manifest = dir[n].manifest
      /\ pkg.db = new /\ pkg.copies = dir[n].copies
  BY <1>2, <1>4, WithDatabase
<1>7. dir' = [dir EXCEPT ![n] = pkg]
  BY <1>3 DEF new
<1>8. command' \in [Procs -> CommandStates] /\ DisturbedOf(p, n)
  BY <1>1, DisturbedChanges
<1> HIDE DEF pkg, n
<1>9. acked' = [acked EXCEPT ![n] = new.rows]
  BY <1>1, <1>4
<1>10. /\ dir' \in [Paths -> Packages \cup {None}] /\ acked' \in [Names -> Seq(Nat)]
       /\ dir'[n] = pkg /\ Besides({n})
       /\ acked'[n] = new.rows /\ \A m \in Names \ {n} : acked'[m] = acked[m]
  BY <1>2, <1>5, <1>6, <1>7, <1>9 DEF PpTypeOK, Besides
<1>11. PpTypeOK'
  BY <1>1, <1>8, <1>10 DEF PpTypeOK
<1>12. DatabaseMoves(n)
  BY <1>2, <1>4, <1>5, <1>6, <1>10 DEF DatabaseMoves, old
<1> QED  BY <1>1, <1>2, <1>6, <1>8, <1>10, <1>11, <1>12, Untouched DEF n

CheckpointEffect(p) ==
    LET n == session[p] IN
    /\ UNCHANGED <<session, command, import, archive, ids, acked, removing>>
    /\ n \in Names
    /\ OnlyName(n) /\ DatabaseMoves(n)
    /\ dir'[n].db.rows = dir[n].db.rows /\ dir'[n].db.base = dir[n].db.base

LEMMA CheckpointChanges ==
    ASSUME PpTypeOK, SessionsOpen, NEW p \in Procs, Checkpoint(p)
    PROVE  PpTypeOK' /\ CheckpointEffect(p)
<1> USE DEF CheckpointEffect
<1> DEFINE n == session[p]
           old == dir[n].db
           new == [ id |-> old.id, version |-> old.version, guarded |-> old.guarded,
                    rows |-> old.rows, main |-> Len(old.rows), base |-> old.base ]
           pkg == [dir[n] EXCEPT !.db = new]
<1>1. /\ n # None
      /\ dir' = [dir EXCEPT ![n] = [dir[n] EXCEPT !.db = [old EXCEPT !.main = Len(old.rows)]]]
      /\ UNCHANGED <<session, command, import, archive, ids, acked, removing>>
  BY DEF Checkpoint
<1>2. /\ n \in Names /\ n \in Paths /\ dir[n] \in Packages /\ dir[n] # None
      /\ old \in Databases /\ old # None
  BY <1>1, SessionHas
<1> HIDE DEF old
<1>3. /\ old.id \in Nat /\ old.version \in {Old, Current} /\ old.guarded \in Nat
      /\ old.rows \in Seq(Nat) /\ old.main \in Nat /\ old.base \in Nat
      /\ old.base <= old.main /\ old.main <= Len(old.rows) /\ Len(old.rows) \in Nat
      /\ old = [ id |-> old.id, version |-> old.version, guarded |-> old.guarded,
                 rows |-> old.rows, main |-> old.main, base |-> old.base ]
  BY <1>2, DatabaseParts
<1>4. [old EXCEPT !.main = Len(old.rows)] = new
  BY SMTT(30), <1>3
<1>5. new \in Databases
  BY <1>3, DatabaseParts
<1>6. /\ new.id = old.id /\ new.version = old.version /\ new.rows = old.rows
      /\ new.base = old.base /\ new # None
  BY <1>5, NoneApart
<1> HIDE DEF new
<1>7. /\ pkg \in Packages /\ pkg # None /\ pkg.manifest = dir[n].manifest
      /\ pkg.db = new /\ pkg.copies = dir[n].copies
  BY <1>2, <1>5, WithDatabase
<1>8. dir' = [dir EXCEPT ![n] = pkg]
  BY <1>1, <1>4
<1> HIDE DEF pkg, n
<1>9. PpTypeOK' /\ dir'[n] = pkg /\ Besides({n})
  BY <1>1, <1>2, <1>7, <1>8 DEF PpTypeOK, Besides
<1>10. DatabaseMoves(n)
  BY <1>2, <1>6, <1>7, <1>9 DEF DatabaseMoves, old
<1> QED  BY <1>1, <1>2, <1>6, <1>7, <1>9, <1>10, Untouched DEF n, old


BeginExportEffect(p) ==
    /\ UNCHANGED <<dir, session, import, archive, ids, acked, removing>>
    /\ session[p] # None /\ command[p] = Idle /\ CommandOnly(p)
    /\ command'[p].kind = "export" /\ command'[p].name = session[p]
    /\ command'[p].main = None /\ command'[p].log = None

LEMMA BeginExportChanges ==
    ASSUME PpTypeOK, SessionsOpen, NEW p \in Procs, BeginExport(p)
    PROVE  PpTypeOK' /\ BeginExportEffect(p)
<1> USE DEF BeginExportEffect
<1> DEFINE n == session[p]
           c == [ kind |-> "export", name |-> n, id |-> dir[n].db.id,
                  manifest |-> dir[n].manifest, copies |-> dir[n].copies,
                  main |-> None, log |-> None, alone |-> TRUE ]
<1>1. /\ n # None /\ command[p] = Idle
      /\ command' = [command EXCEPT ![p] = c]
      /\ UNCHANGED <<dir, session, import, archive, ids, acked, removing>>
  BY DEF BeginExport, Goes, Free
<1>2. /\ n \in Names /\ dir[n].manifest \in Nat
      /\ dir[n].db.id \in Nat /\ dir[n].copies \in SUBSET Copies
  BY <1>1, SessionHas, DatabaseParts, PackageParts
<1>3. c \in CommandStates
  BY <1>2, CommandParts, Zenon
<1>4. c.kind = "export" /\ c.name = n /\ c.main = None /\ c.log = None
  OBVIOUS
<1> HIDE DEF c, n
<1>5. PpTypeOK' /\ command'[p] = c /\ CommandOnly(p)
  BY <1>1, <1>3 DEF PpTypeOK, CommandOnly
<1> QED  BY <1>1, <1>4, <1>5 DEF n

CopyFileEffect(p) ==
    LET n == command[p].name IN
    /\ UNCHANGED <<dir, session, import, archive, ids, acked, removing>>
    /\ command[p].kind = "export" /\ CommandOnly(p)
    /\ command'[p].kind = "export" /\ command'[p].name = n
    /\ command'[p].alone => command[p].alone
    /\ dir[n] # None /\ dir[n].db # None
    /\ \/ command'[p].main = dir[n].db /\ command'[p].log = command[p].log
       \/ command'[p].main = command[p].main /\ command'[p].log = dir[n].db

LEMMA CopyFileChanges ==
    ASSUME PpTypeOK, NEW p \in Procs, CopyFile(p)
    PROVE  PpTypeOK' /\ CopyFileEffect(p)
<1> USE DEF CopyFileEffect
<1> DEFINE c == command[p]
           n == c.name
           db == dir[n].db
           new(main, log) ==
               [ kind |-> "export", name |-> c.name, id |-> c.id,
                 manifest |-> c.manifest, copies |-> c.copies,
                 main |-> main, log |-> log, alone |-> c.alone ]
<1>1. /\ c.kind = "export" /\ dir[n] # None /\ db # None
      /\ \/ command' = [command EXCEPT ![p] = [c EXCEPT !.main = db]]
         \/ command' = [command EXCEPT ![p] = [c EXCEPT !.log = db]]
      /\ UNCHANGED <<dir, session, import, archive, ids, acked, removing>>
  BY DEF CopyFile, Goes
<1>2. c \in CommandStates
  BY DEF PpTypeOK
<1>3. /\ n \in Names /\ c.id \in Nat /\ c.manifest \in Nat /\ c.copies \in SUBSET Copies
      /\ c.main \in Databases \cup {None} /\ c.log \in Databases \cup {None}
      /\ c.alone \in BOOLEAN
      /\ c = new(c.main, c.log)
  BY <1>1, <1>2, CommandParts
<1>4. db \in Databases
  BY <1>1, <1>3, PathsApart, PackageParts DEF PpTypeOK
<1> HIDE DEF db
<1>5. [c EXCEPT !.main = db] = new(db, c.log) /\ [c EXCEPT !.log = db] = new(c.main, db)
  <2> HIDE DEF c
  <2> QED  BY <1>3
<1>6. new(db, c.log) \in CommandStates /\ new(c.main, db) \in CommandStates
  <2>1. db \in Databases \cup {None}
    BY <1>4
  <2> HIDE DEF c
  <2>2. new(db, c.log) \in CommandStates
    BY <1>3, <2>1, CommandParts, Zenon
  <2>3. new(c.main, db) \in CommandStates
    BY <1>3, <2>1, CommandParts, Zenon
  <2> QED  BY <2>2, <2>3
<1>7. \A main, log :
         /\ new(main, log).kind = "export" /\ new(main, log).name = n
         /\ new(main, log).main = main /\ new(main, log).log = log
         /\ new(main, log).alone = c.alone
  OBVIOUS
<1> HIDE DEF new
<1>8. CASE command' = [command EXCEPT ![p] = new(db, c.log)]
  <2>1. PpTypeOK' /\ command'[p] = new(db, c.log) /\ CommandOnly(p)
    BY <1>1, <1>6, <1>8 DEF PpTypeOK, CommandOnly
  <2> QED  BY <1>1, <1>7, <2>1 DEF db
<1>9. CASE command' = [command EXCEPT ![p] = new(c.main, db)]
  <2>1. PpTypeOK' /\ command'[p] = new(c.main, db) /\ CommandOnly(p)
    BY <1>1, <1>6, <1>9 DEF PpTypeOK, CommandOnly
  <2> QED  BY <1>1, <1>7, <2>1 DEF db
<1> QED  BY <1>1, <1>5, <1>8, <1>9

DropOldArchiveEffect(p) ==
    /\ archive' = None
    /\ UNCHANGED <<dir, session, command, import, ids, acked, removing>>

LEMMA DropOldArchiveChanges ==
    ASSUME PpTypeOK, NEW p \in Procs, DropOldArchive(p)
    PROVE  PpTypeOK' /\ DropOldArchiveEffect(p)
BY DEF PpTypeOK, DropOldArchive, DropOldArchiveEffect

PublishArchiveEffect(p) ==
    LET c == command[p] IN
    /\ UNCHANGED <<dir, session, import, ids, acked, removing>>
    /\ c.kind = "export" /\ command'[p] = Idle /\ CommandOnly(p)
    /\ c.main \in Databases /\ c.log \in Databases
    /\ archive'.torn => ~Fits(c.main, c.log)
    /\ archive'.alone => c.alone

LEMMA PublishArchiveChanges ==
    ASSUME PpTypeOK, NEW p \in Procs, PublishArchive(p)
    PROVE  PpTypeOK' /\ PublishArchiveEffect(p)
<1> USE DEF PublishArchiveEffect
<1> DEFINE c == command[p]
           torn == ~Fits(c.main, c.log)
           db == Joined(c.main, c.log)
           a == [ id |-> c.id, manifest |-> c.manifest, copies |-> c.copies,
                  db |-> db, torn |-> torn, alone |-> c.alone ]
<1>1. /\ c.kind = "export" /\ c.main # None /\ c.log # None
      /\ archive' = a /\ command' = [command EXCEPT ![p] = Idle]
      /\ UNCHANGED <<dir, session, import, ids, acked, removing>>
  BY DEF PublishArchive, Goes, Copied
<1>2. c \in CommandStates
  BY DEF PpTypeOK
<1>3. /\ c.id \in Nat /\ c.manifest \in Nat /\ c.copies \in SUBSET Copies
      /\ c.main \in Databases /\ c.log \in Databases /\ c.alone \in BOOLEAN
  BY <1>1, <1>2, CommandParts
<1>4. db \in Databases
  BY <1>3, JoinedIsDb
<1>5. torn \in BOOLEAN
  OBVIOUS
<1>6. a \in Archives
  <2> HIDE DEF torn, db, c
  <2> QED  BY <1>3, <1>4, <1>5, ArchiveParts, Zenon
<1>7. a.torn = torn /\ a.alone = c.alone
  <2> HIDE DEF torn, db, c
  <2> QED  BY Zenon
<1> HIDE DEF a, c, torn
<1>8. PpTypeOK' /\ command'[p] = Idle /\ CommandOnly(p)
  BY <1>1, <1>6, CommandParts DEF PpTypeOK, CommandOnly
<1>9. (archive'.torn => torn) /\ (archive'.alone => c.alone)
  BY <1>1, <1>7
<1> QED  BY <1>1, <1>3, <1>8, <1>9 DEF c, torn

\* The state of an import that changes.
LEMMA ImportMoves ==
    ASSUME NEW i \in ImportStates, i.kind # "idle",
           NEW kind \in {"extracted", "adopted", "emptied", "refused"}
    PROVE  /\ [i EXCEPT !.kind = kind] \in ImportStates
           /\ [i EXCEPT !.kind = kind].kind = kind
           /\ [i EXCEPT !.kind = kind].name = i.name
<1> DEFINE new == [ kind |-> kind, name |-> i.name, overwrite |-> i.overwrite,
                    id |-> i.id, torn |-> i.torn ]
<1>1. /\ i.name \in Names /\ i.overwrite \in BOOLEAN /\ i.id \in Nat /\ i.torn \in BOOLEAN
      /\ i = [ kind |-> i.kind, name |-> i.name, overwrite |-> i.overwrite,
               id |-> i.id, torn |-> i.torn ]
  BY ImportParts
<1>2. [i EXCEPT !.kind = kind] = new
  BY <1>1
<1>3. new \in ImportStates
  BY <1>1, ImportParts, Zenon
<1>4. new.kind = kind /\ new.name = i.name
  OBVIOUS
<1> QED  BY <1>2, <1>3, <1>4

BeginImportEffect(p) ==
    LET s == <<p, "restoring">> IN
    /\ UNCHANGED <<session, command, archive, ids, acked, removing>>
    /\ import[p] = Idle /\ ImportOnly(p) /\ import'[p].kind = "extracted"
    /\ OnlyRestored(p) /\ dir'[s] # None /\ dir'[s].db # None

LEMMA BeginImportChanges ==
    ASSUME PpTypeOK, NEW p \in Procs, NEW n \in Names, NEW overwrite \in BOOLEAN,
           BeginImport(p, n, overwrite)
    PROVE  PpTypeOK' /\ BeginImportEffect(p)
<1> USE DEF BeginImportEffect
<1> DEFINE s == <<p, "restoring">>
           pkg == [manifest |-> archive.manifest, db |-> archive.db, copies |-> archive.copies]
           i == [ kind |-> "extracted", name |-> n, overwrite |-> overwrite,
                  id |-> archive.id, torn |-> archive.torn ]
<1>1. /\ import[p] = Idle /\ archive # None
      /\ dir' = [dir EXCEPT ![s] = pkg]
      /\ import' = [import EXCEPT ![p] = i]
      /\ UNCHANGED <<session, command, archive, ids, acked, removing>>
  BY DEF BeginImport, Imports, Staging
<1>2. archive \in Archives
  BY <1>1 DEF PpTypeOK
<1>3. /\ archive.id \in Nat /\ archive.torn \in BOOLEAN
      /\ archive.manifest \in Nat /\ archive.db \in Databases /\ archive.copies \in SUBSET Copies
  BY <1>2, ArchiveParts
<1>4. pkg \in Packages /\ pkg # None /\ pkg.db # None
  BY <1>3, PackageParts, NoneApart
<1>5. i \in ImportStates
  BY <1>3, ImportParts, Zenon
<1>6. i.kind = "extracted"
  OBVIOUS
<1>7. s \in Paths
  BY PathsApart DEF Files
<1> HIDE DEF pkg, i, s
<1>8. PpTypeOK' /\ dir'[s] = pkg /\ Besides({s}) /\ import'[p] = i /\ ImportOnly(p)
  BY <1>1, <1>4, <1>5, <1>7 DEF PpTypeOK, Besides, ImportOnly
<1> QED  BY <1>1, <1>4, <1>6, <1>8, Untouched DEF s

\* The extracted database upgraded, with a copy beside it, and the new id.
LEMMA ReboundIsWhole ==
    ASSUME NEW pkg \in Packages, pkg.db # None, NEW id \in Nat
    PROVE  LET new == Rebound(Upgraded(pkg), id) IN
           /\ new \in Packages /\ new # None /\ Opens(new) /\ Holds(new, Current)
           /\ pkg.db.version = Old =>
                 [version |-> Old, rows |-> pkg.db.rows] \in new.copies
<1> DEFINE old == pkg.db
           copy == [version |-> old.version, rows |-> old.rows]
           up == [ id |-> old.id, version |-> Current, guarded |-> old.guarded,
                   rows |-> old.rows, main |-> old.main, base |-> old.base ]
           mine(db) == [ id |-> id, version |-> db.version, guarded |-> db.guarded,
                         rows |-> db.rows, main |-> db.main, base |-> db.base ]
           with(db, copies) == [manifest |-> pkg.manifest, db |-> db, copies |-> copies]
           copies == IF old.version = Current THEN pkg.copies ELSE pkg.copies \cup {copy}
           new == [manifest |-> id, db |-> mine(up), copies |-> copies]
<1>1. /\ old \in Databases /\ pkg.manifest \in Nat \cup {None} /\ pkg.copies \in SUBSET Copies
      /\ pkg = with(old, pkg.copies)
  BY PackageParts
<1>2. copy \in Copies
  <2> HIDE DEF old
  <2> QED  BY <1>1, DatabaseParts DEF Copies
<1>3. up \in Databases /\ mine(up) \in Databases
  <2> HIDE DEF old
  <2> QED  BY <1>1, DatabaseParts
<1>4. [old EXCEPT !.version = Current] = up /\ [up EXCEPT !.id = id] = mine(up)
  <2> HIDE DEF old
  <2>1. [old EXCEPT !.version = Current] = up
    <3>1. old = [ id |-> old.id, version |-> old.version, guarded |-> old.guarded,
                  rows |-> old.rows, main |-> old.main, base |-> old.base ]
      BY <1>1, DatabaseParts
    <3> QED  BY <3>1
  <2>2. [up EXCEPT !.id = id] = mine(up)
    OBVIOUS
  <2> QED  BY <2>1, <2>2
<1>5. old.version = Current => up = old
  <2> HIDE DEF old
  <2>1. old = [ id |-> old.id, version |-> old.version, guarded |-> old.guarded,
                rows |-> old.rows, main |-> old.main, base |-> old.base ]
    BY <1>1, DatabaseParts
  <2> QED  BY <2>1
<1>6. mine(up).id = id /\ mine(up).version = Current
  OBVIOUS
<1> HIDE DEF copy, up, mine, old
<1>7. Upgraded(pkg) = with(up, copies)
  <2>1. CASE old.version = Current
    BY <1>1, <1>5, <2>1 DEF Upgraded, old
  <2>2. CASE old.version # Current
    <3> DEFINE pkg1 == [pkg EXCEPT !.db = up]
    <3>1. pkg1 = with(up, pkg.copies)
      BY <1>1
    <3>2. [pkg EXCEPT !.db = up, !.copies = pkg.copies \cup {copy}]
            = [pkg1 EXCEPT !.copies = pkg.copies \cup {copy}]
      OBVIOUS
    <3> HIDE DEF pkg1
    <3>3. [pkg1 EXCEPT !.copies = pkg.copies \cup {copy}] = with(up, pkg.copies \cup {copy})
      BY <3>1
    <3>4. Upgraded(pkg) = [pkg EXCEPT !.db = up, !.copies = pkg.copies \cup {copy}]
      BY <1>4, <2>2 DEF Upgraded, old, copy
    <3> QED  BY <2>2, <3>2, <3>3, <3>4
  <2> QED  BY <2>1, <2>2
<1> HIDE DEF copies
<1>8. Rebound(Upgraded(pkg), id) = new
  <2> DEFINE pkg1 == with(up, copies)
             pkg2 == [pkg1 EXCEPT !.db = mine(up)]
  <2>1. pkg1.db = up
    OBVIOUS
  <2>2. pkg2 = with(mine(up), copies)
    OBVIOUS
  <2>3. [pkg2 EXCEPT !.manifest = id] = new
    <3> HIDE DEF pkg2
    <3> QED  BY <2>2
  <2>4. Rebound(Upgraded(pkg), id) = [pkg1 EXCEPT !.db = [pkg1.db EXCEPT !.id = id], !.manifest = id]
    BY <1>7 DEF Rebound
  <2> HIDE DEF pkg1
  <2>5. Rebound(Upgraded(pkg), id) = [pkg2 EXCEPT !.manifest = id]
    BY <1>4, <2>1, <2>4
  <2> QED  BY <2>3, <2>5
<1>9. copies \in SUBSET Copies
  BY <1>1, <1>2 DEF copies
<1>10. new \in Packages /\ new # None
  BY <1>3, <1>9, PackageParts, NoneApart
<1>11. Opens(new) /\ Holds(new, Current)
  <2>1. mine(up) # None /\ id # None
    BY <1>3, NoneApart
  <2> QED  BY <1>6, <1>10, <2>1 DEF Opens, Holds
<1>12. old.version = Old => copy \in copies
  BY VersionsAreOrdered DEF copies
<1> QED  BY <1>8, <1>10, <1>11, <1>12 DEF copy, old

AdoptEffect(p) ==
    LET s == <<p, "restoring">> IN
    /\ UNCHANGED <<session, command, archive, acked, removing>>
    /\ import[p].kind = "extracted" /\ ImportOnly(p) /\ OnlyRestored(p)
    /\ dir[s] # None /\ dir[s].db # None
    /\ \/ /\ import'[p].kind = "adopted"
          /\ Opens(dir'[s]) /\ Holds(dir'[s], Current)
          /\ dir[s].db.version = Old =>
                [version |-> Old, rows |-> dir[s].db.rows] \in dir'[s].copies
       \/ import'[p].kind = "refused" /\ dir'[s] = None

LEMMA AdoptChanges ==
    ASSUME PpTypeOK, StagedPackages, NEW p \in Procs, Adopt(p)
    PROVE  PpTypeOK' /\ AdoptEffect(p)
<1> USE DEF AdoptEffect
<1> DEFINE i == import[p]
           s == <<p, "restoring">>
           new == Rebound(Upgraded(dir[s]), ids + 1)
           moved(kind) == [i EXCEPT !.kind = kind]
<1>1. /\ i.kind = "extracted"
      /\ \/ /\ ids' = ids + 1
            /\ dir' = [dir EXCEPT ![s] = Rebound(Upgraded(dir[s]), ids')]
            /\ import' = [import EXCEPT ![p] = moved("adopted")]
         \/ /\ ids' = ids
            /\ dir' = [dir EXCEPT ![s] = None]
            /\ import' = [import EXCEPT ![p] = moved("refused")]
      /\ UNCHANGED <<session, command, archive, acked, removing>>
  BY DEF Adopt, Imports, Staging
<1>2. i \in ImportStates
  BY DEF PpTypeOK
<1>3. \A kind \in {"adopted", "refused"} :
         moved(kind) \in ImportStates /\ moved(kind).kind = kind
  <2>1. i.kind # "idle"
    BY <1>1
  <2> HIDE DEF i
  <2>2. \A kind \in {"extracted", "adopted", "emptied", "refused"} :
           /\ [i EXCEPT !.kind = kind] \in ImportStates
           /\ [i EXCEPT !.kind = kind].kind = kind
    BY <1>2, <2>1, ImportMoves
  <2> QED  BY <2>2, Zenon
<1>4. s \in Paths
  BY PathsApart DEF Files
<1>5. dir[s] # None /\ dir[s].db # None
  BY <1>1 DEF StagedPackages
<1>6. dir[s] \in Packages
  BY <1>4, <1>5 DEF PpTypeOK
<1>7. ids + 1 \in Nat
  BY DEF PpTypeOK
<1>8. /\ new \in Packages /\ new # None /\ Opens(new) /\ Holds(new, Current)
      /\ dir[s].db.version = Old => [version |-> Old, rows |-> dir[s].db.rows] \in new.copies
  <2> DEFINE id == ids + 1
  <2> HIDE DEF id
  <2>1. id \in Nat
    BY <1>7 DEF id
  <2>2. LET pkg == Rebound(Upgraded(dir[s]), id) IN
        /\ pkg \in Packages /\ pkg # None /\ Opens(pkg) /\ Holds(pkg, Current)
        /\ dir[s].db.version = Old => [version |-> Old, rows |-> dir[s].db.rows] \in pkg.copies
    BY <1>5, <1>6, <2>1, ReboundIsWhole
  <2> QED  BY <2>2 DEF id
<1> HIDE DEF s, moved
<1>9. CASE /\ ids' = ids + 1
           /\ dir' = [dir EXCEPT ![s] = Rebound(Upgraded(dir[s]), ids')]
           /\ import' = [import EXCEPT ![p] = moved("adopted")]
  <2>1. dir' = [dir EXCEPT ![s] = new]
    BY <1>9
  <2> HIDE DEF new
  <2>2. PpTypeOK' /\ dir'[s] = new /\ Besides({s}) /\ import'[p] = moved("adopted") /\ ImportOnly(p)
    BY <1>1, <1>3, <1>4, <1>7, <1>8, <1>9, <2>1 DEF PpTypeOK, Besides, ImportOnly
  <2> QED  BY <1>1, <1>3, <1>5, <1>8, <2>2, Untouched DEF s
<1>10. CASE /\ ids' = ids
            /\ dir' = [dir EXCEPT ![s] = None]
            /\ import' = [import EXCEPT ![p] = moved("refused")]
  <2>1. PpTypeOK' /\ dir'[s] = None /\ Besides({s}) /\ import'[p] = moved("refused") /\ ImportOnly(p)
    BY <1>1, <1>3, <1>4, <1>10 DEF PpTypeOK, Besides, ImportOnly
  <2> QED  BY <1>1, <1>3, <1>5, <2>1, Untouched DEF s
<1> QED  BY <1>1, <1>9, <1>10

RefusedEffect(p) ==
    /\ UNCHANGED <<dir, session, command, archive, ids, acked, removing>>
    /\ import[p].kind = "refused" /\ import'[p] = Idle /\ ImportOnly(p)

LEMMA RefusedChanges ==
    ASSUME PpTypeOK, NEW p \in Procs, Refused(p)
    PROVE  PpTypeOK' /\ RefusedEffect(p)
BY ImportParts DEF PpTypeOK, Refused, Imports, ImportOnly, RefusedEffect

\* A folder of which some files are gone.
LEMMA PartlyRemoved ==
    ASSUME NEW pkg \in Packages
    PROVE  /\ [pkg EXCEPT !.manifest = None] \in Packages
           /\ [pkg EXCEPT !.manifest = None] # None
           /\ [pkg EXCEPT !.manifest = None].db = pkg.db
           /\ [pkg EXCEPT !.manifest = None].copies = pkg.copies
           /\ [pkg EXCEPT !.db = None, !.manifest = None] \in Packages
           /\ [pkg EXCEPT !.db = None, !.manifest = None] # None
           /\ [pkg EXCEPT !.db = None, !.manifest = None].db = None
<1> DEFINE with(db) == [manifest |-> None, db |-> db, copies |-> pkg.copies]
           pkg1 == [pkg EXCEPT !.db = None]
<1>1. /\ pkg = [manifest |-> pkg.manifest, db |-> pkg.db, copies |-> pkg.copies]
      /\ pkg.db \in Databases \cup {None} /\ pkg.copies \in SUBSET Copies
  BY PackageParts
<1>2. [pkg EXCEPT !.manifest = None] = with(pkg.db)
  BY <1>1
<1>3. pkg1 = [manifest |-> pkg.manifest, db |-> None, copies |-> pkg.copies]
  BY <1>1
<1>4. [pkg EXCEPT !.db = None, !.manifest = None] = [pkg1 EXCEPT !.manifest = None]
  OBVIOUS
<1> HIDE DEF pkg1
<1>5. [pkg1 EXCEPT !.manifest = None] = with(None)
  BY <1>3
<1>6. with(pkg.db) \in Packages /\ with(None) \in Packages
  BY <1>1, PackageParts
<1>7. with(pkg.db).db = pkg.db /\ with(pkg.db).copies = pkg.copies /\ with(None).db = None
  OBVIOUS
<1> HIDE DEF with
<1> QED  BY <1>2, <1>4, <1>5, <1>6, <1>7, NoneApart

\* The target is taken away, in part or whole, or there is nothing to take away.
EmptyTargetEffect(p) ==
    LET n == import[p].name
        s == <<p, "restoring">> IN
    /\ UNCHANGED <<archive, ids>>
    /\ n \in Names /\ import[p].kind = "adopted" /\ ImportOnly(p)
    /\ \/ /\ UNCHANGED <<dir, session, command, acked, removing>>
          /\ import'[p].kind = "emptied"
       \/ /\ \A q \in Procs : session'[q] = IF session[q] = n THEN None ELSE session[q]
          /\ DisturbedOf(None, n)
          /\ acked'[n] = << >> /\ \A m \in Names \ {n} : acked'[m] = acked[m]
          /\ removing' = removing \cup {n}
          /\ \/ /\ import'[p].kind = "emptied" /\ OnlyName(n) /\ dir'[n] = None
             \/ /\ import'[p] = Idle /\ NameAndRestored(n, p) /\ dir'[s] = None
                /\ dir[n] # None /\ dir'[n] # None
                /\ \/ dir'[n].db = dir[n].db /\ dir'[n].copies = dir[n].copies
                   \/ dir'[n].db = None

LEMMA EmptyTargetChanges ==
    ASSUME PpTypeOK, NEW p \in Procs, EmptyTarget(p)
    PROVE  PpTypeOK' /\ EmptyTargetEffect(p)
<1> USE DEF EmptyTargetEffect
<1> DEFINE i == import[p]
           n == i.name
           s == <<p, "restoring">>
           next == [i EXCEPT !.kind = "emptied"]
           left == { [dir[n] EXCEPT !.manifest = None],
                     [dir[n] EXCEPT !.db = None, !.manifest = None] }
<1>1. i \in ImportStates /\ i.kind = "adopted"
  BY DEF PpTypeOK, EmptyTarget
<1>2. n \in Names /\ n \in Paths /\ s \in Paths /\ s # n /\ p # None
  <2>1. n \in Names
    BY <1>1, ImportParts
  <2>2. s \in Paths /\ s \notin Names
    BY PathsApart DEF Files
  <2> QED  BY <2>1, <2>2, PathsApart, NoneApart
<1>3. next \in ImportStates /\ next.kind = "emptied"
  BY <1>1, ImportMoves
<1>4. CASE Replaces(p)
  <2>1. /\ dir[n] # None /\ i.overwrite
        /\ \/ dir' = [dir EXCEPT ![n] = None] /\ import' = [import EXCEPT ![p] = next]
           \/ /\ \E pkg \in left : dir' = [dir EXCEPT ![n] = pkg, ![s] = None]
              /\ import' = [import EXCEPT ![p] = Idle]
        /\ session' = Evicted(n)
        /\ command' = Disturbed(None, n)
        /\ acked' = [acked EXCEPT ![n] = << >>]
        /\ removing' = removing \cup {n}
        /\ UNCHANGED <<archive, ids>>
    BY <1>4 DEF EmptyTarget, Replaces, Imports, Staging
  <2>2. dir[n] \in Packages
    BY <1>2, <2>1 DEF PpTypeOK
  <2>3. \A pkg \in left :
           /\ pkg \in Packages /\ pkg # None
           /\ \/ pkg.db = dir[n].db /\ pkg.copies = dir[n].copies
              \/ pkg.db = None
    BY <2>2, PartlyRemoved
  <2>4. command' \in [Procs -> CommandStates] /\ DisturbedOf(None, n)
    BY <2>1, DisturbedChanges
  <2> HIDE DEF n, s, next, left
  <2>5. /\ session' \in [Procs -> Names \cup {None}]
        /\ \A q \in Procs : session'[q] = IF session[q] = n THEN None ELSE session[q]
    BY <2>1 DEF PpTypeOK, Evicted
  <2>6. /\ acked' \in [Names -> Seq(Nat)]
        /\ acked'[n] = << >> /\ \A m \in Names \ {n} : acked'[m] = acked[m]
    <3>1. << >> \in Seq(Nat)
      OBVIOUS
    <3> QED  BY <1>2, <2>1, <3>1 DEF PpTypeOK
  <2>7. /\ archive' \in Archives \cup {None} /\ ids' \in Nat /\ removing' \subseteq Names
    BY <1>2, <2>1 DEF PpTypeOK
  <2>8. CASE dir' = [dir EXCEPT ![n] = None] /\ import' = [import EXCEPT ![p] = next]
    <3>1. /\ dir' \in [Paths -> Packages \cup {None}] /\ import' \in [Procs -> ImportStates]
          /\ dir'[n] = None /\ Besides({n}) /\ import'[p] = next /\ ImportOnly(p)
      BY <1>2, <1>3, <2>8 DEF PpTypeOK, Besides, ImportOnly
    <3>2. PpTypeOK'
      BY <2>4, <2>5, <2>6, <2>7, <3>1 DEF PpTypeOK
    <3> QED  BY <1>1, <1>2, <1>3, <2>1, <2>4, <2>5, <2>6, <3>1, <3>2, Untouched DEF n, s
  <2>9. CASE /\ \E pkg \in left : dir' = [dir EXCEPT ![n] = pkg, ![s] = None]
             /\ import' = [import EXCEPT ![p] = Idle]
    <3>1. PICK pkg \in left : dir' = [dir EXCEPT ![n] = pkg, ![s] = None]
      BY <2>9
    <3>2. /\ dir' \in [Paths -> Packages \cup {None}] /\ import' \in [Procs -> ImportStates]
          /\ dir'[n] = pkg /\ dir'[s] = None /\ Besides({n, s})
          /\ import'[p] = Idle /\ ImportOnly(p)
      BY <1>2, <2>3, <2>9, <3>1, ImportParts DEF PpTypeOK, Besides, ImportOnly
    <3>3. PpTypeOK'
      BY <2>4, <2>5, <2>6, <2>7, <3>2 DEF PpTypeOK
    <3> QED  BY <1>1, <1>2, <2>1, <2>3, <2>4, <2>5, <2>6, <3>2, <3>3, Untouched DEF n, s
  <2> QED  BY <2>1, <2>8, <2>9
<1>5. CASE ~Replaces(p)
  <2>1. /\ import' = [import EXCEPT ![p] = next]
        /\ UNCHANGED <<dir, session, command, archive, ids, acked, removing>>
    BY <1>5 DEF EmptyTarget, Imports
  <2> HIDE DEF next
  <2>2. PpTypeOK' /\ import'[p] = next /\ ImportOnly(p)
    BY <1>3, <2>1 DEF PpTypeOK, ImportOnly
  <2> QED  BY <1>1, <1>2, <1>3, <2>1, <2>2
<1> QED  BY <1>4, <1>5

PublishRestoredEffect(p) ==
    LET n == import[p].name
        s == <<p, "restoring">> IN
    /\ UNCHANGED <<session, command, archive, ids>>
    /\ n \in Names /\ ImportOnly(p)
    /\ import[p].kind = "emptied" /\ import'[p] = Idle
    /\ dir'[s] = None
    /\ \/ /\ dir[n] = None /\ dir'[n] = dir[s]
          /\ NameAndRestored(n, p)
          /\ acked'[n] = dir[s].db.rows
          /\ \A m \in Names \ {n} : acked'[m] = acked[m]
          /\ removing' = removing \ {n}
       \/ OnlyRestored(p) /\ UNCHANGED <<acked, removing>>

LEMMA PublishRestoredChanges ==
    ASSUME PpTypeOK, StagedPackages, NEW p \in Procs, PublishRestored(p)
    PROVE  PpTypeOK' /\ PublishRestoredEffect(p)
<1> USE DEF PublishRestoredEffect
<1> DEFINE n == import[p].name
           s == <<p, "restoring">>
<1>1. /\ import[p] \in ImportStates /\ import[p].kind = "emptied"
      /\ dir \in [Paths -> Packages \cup {None}]
      /\ acked \in [Names -> Seq(Nat)] /\ removing \subseteq Names
  BY DEF PpTypeOK, PublishRestored
<1>2. n \in Names /\ n \in Paths /\ s \in Paths /\ s # n
  <2>1. n \in Names
    BY <1>1, ImportParts
  <2>2. s \in Paths /\ s \notin Names
    BY PathsApart DEF Files
  <2> QED  BY <2>1, <2>2, PathsApart
<1>3. Opens(dir[s])
  BY <1>1 DEF StagedPackages
<1>4. dir[s] \in Packages /\ dir[s].db.rows \in Seq(Nat)
  BY <1>1, <1>2, <1>3, PackageParts, DatabaseParts DEF Opens
<1>5. /\ import' = [import EXCEPT ![p] = Idle]
      /\ UNCHANGED <<session, command, archive, ids>>
  BY DEF PublishRestored, Imports
<1>6. import' \in [Procs -> ImportStates] /\ import'[p] = Idle /\ ImportOnly(p)
  BY <1>5, ImportParts DEF PpTypeOK, ImportOnly
<1>7. CASE dir[n] = None
  <2>1. /\ dir' = [dir EXCEPT ![n] = dir[s], ![s] = None]
        /\ acked' = [acked EXCEPT ![n] = dir[s].db.rows]
        /\ removing' = removing \ {n}
    BY <1>7 DEF PublishRestored, Staging
  <2> HIDE DEF n, s
  <2>2. PpTypeOK'
    BY <1>1, <1>2, <1>4, <1>5, <1>6, <2>1 DEF PpTypeOK
  <2>3. dir'[n] = dir[s] /\ dir'[s] = None /\ Besides({n, s})
    BY <1>1, <1>2, <2>1 DEF Besides
  <2>4. acked'[n] = dir[s].db.rows /\ \A m \in Names \ {n} : acked'[m] = acked[m]
    BY <1>1, <1>2, <2>1
  <2> QED  BY <1>1, <1>2, <1>5, <1>6, <1>7, <2>1, <2>2, <2>3, <2>4, Untouched DEF n, s
<1>8. CASE dir[n] # None
  <2>1. /\ dir' = [dir EXCEPT ![s] = None]
        /\ UNCHANGED <<acked, removing>>
    BY <1>8 DEF PublishRestored, Staging
  <2> HIDE DEF n, s
  <2>2. PpTypeOK'
    BY <1>1, <1>2, <1>5, <1>6, <2>1 DEF PpTypeOK
  <2>3. dir'[s] = None /\ Besides({s})
    BY <1>1, <1>2, <2>1 DEF Besides
  <2> QED  BY <1>1, <1>2, <1>5, <1>6, <2>1, <2>2, <2>3, Untouched DEF n, s
<1> QED  BY <1>7, <1>8

FailCommandEffect(p) ==
    LET s == <<p, "creating">> IN
    /\ UNCHANGED <<session, import, archive, ids, acked, removing>>
    /\ command'[p] = Idle /\ CommandOnly(p)
    /\ \/ command[p].kind = "create" /\ OnlyNew(p) /\ dir'[s] = None
       \/ command[p].kind # "create" /\ dir' = dir

LEMMA FailCommandChanges ==
    ASSUME PpTypeOK, NEW p \in Procs, FailCommand(p)
    PROVE  PpTypeOK' /\ FailCommandEffect(p)
<1> USE DEF FailCommandEffect
<1> DEFINE s == <<p, "creating">>
<1>1. /\ command' = [command EXCEPT ![p] = Idle]
      /\ \/ command[p].kind = "create" /\ dir' = [dir EXCEPT ![s] = None]
         \/ command[p].kind # "create" /\ dir' = dir
      /\ UNCHANGED <<session, import, archive, ids, acked, removing>>
  BY DEF FailCommand, Goes, Staging
<1>2. s \in Paths
  BY PathsApart DEF Files
<1> HIDE DEF s
<1>3. command' \in [Procs -> CommandStates] /\ command'[p] = Idle /\ CommandOnly(p)
  BY <1>1, CommandParts DEF PpTypeOK, CommandOnly
<1>4. CASE command[p].kind = "create" /\ dir' = [dir EXCEPT ![s] = None]
  <2>1. PpTypeOK' /\ Besides({s}) /\ dir'[s] = None
    BY <1>1, <1>2, <1>3, <1>4 DEF PpTypeOK, Besides
  <2> QED  BY <1>1, <1>3, <1>4, <2>1, Untouched DEF s
<1>5. CASE command[p].kind # "create" /\ dir' = dir
  <2>1. PpTypeOK'
    BY <1>1, <1>3, <1>5 DEF PpTypeOK
  <2> QED  BY <1>1, <1>3, <1>5, <2>1
<1> QED  BY <1>1, <1>4, <1>5

FailImportEffect(p) ==
    LET s == <<p, "restoring">> IN
    /\ UNCHANGED <<session, command, archive, ids, acked, removing>>
    /\ import'[p] = Idle /\ ImportOnly(p) /\ OnlyRestored(p) /\ dir'[s] = None

LEMMA FailImportChanges ==
    ASSUME PpTypeOK, NEW p \in Procs, FailImport(p)
    PROVE  PpTypeOK' /\ FailImportEffect(p)
<1> USE DEF FailImportEffect
<1> DEFINE s == <<p, "restoring">>
<1>1. /\ import' = [import EXCEPT ![p] = Idle] /\ dir' = [dir EXCEPT ![s] = None]
      /\ UNCHANGED <<session, command, archive, ids, acked, removing>>
  BY DEF FailImport, Imports, Staging
<1>2. s \in Paths
  BY PathsApart DEF Files
<1> HIDE DEF s
<1>3. PpTypeOK' /\ import'[p] = Idle /\ ImportOnly(p) /\ Besides({s}) /\ dir'[s] = None
  BY <1>1, <1>2, ImportParts DEF PpTypeOK, ImportOnly, Besides
<1> QED  BY <1>1, <1>3, Untouched DEF s

CrashEffect(p) ==
    LET new == <<p, "creating">>
        old == <<p, "restoring">> IN
    /\ UNCHANGED <<archive, ids, acked, removing>>
    /\ command'[p] = Idle /\ CommandOnly(p)
    /\ import'[p] = Idle /\ ImportOnly(p)
    /\ session'[p] = None /\ \A q \in Procs \ {p} : session'[q] = session[q]
    /\ OnlyFolders(p) /\ dir'[new] = None /\ dir'[old] = None

LEMMA CrashChanges ==
    ASSUME PpTypeOK, NEW p \in Procs, Crash(p)
    PROVE  PpTypeOK' /\ CrashEffect(p)
<1> USE DEF CrashEffect
<1> DEFINE new == <<p, "creating">>
           old == <<p, "restoring">>
<1>1. /\ command' = [command EXCEPT ![p] = Idle] /\ import' = [import EXCEPT ![p] = Idle]
      /\ session' = [session EXCEPT ![p] = None]
      /\ dir' = [dir EXCEPT ![new] = None, ![old] = None]
      /\ UNCHANGED <<archive, ids, acked, removing>>
  BY DEF Crash, Goes, Imports
<1>2. new \in Paths /\ old \in Paths
  BY PathsApart DEF Files
<1> HIDE DEF new, old
<1>3. /\ command' \in [Procs -> CommandStates] /\ import' \in [Procs -> ImportStates]
      /\ session' \in [Procs -> Names \cup {None}]
      /\ command'[p] = Idle /\ CommandOnly(p) /\ import'[p] = Idle /\ ImportOnly(p)
      /\ session'[p] = None /\ \A q \in Procs \ {p} : session'[q] = session[q]
  BY <1>1, CommandParts, ImportParts DEF PpTypeOK, CommandOnly, ImportOnly
<1>4. /\ dir' \in [Paths -> Packages \cup {None}]
      /\ Besides({new, old}) /\ dir'[new] = None /\ dir'[old] = None
  BY <1>1, <1>2 DEF PpTypeOK, Besides
<1>5. PpTypeOK'
  BY <1>1, <1>3, <1>4 DEF PpTypeOK
<1> QED  BY <1>1, <1>3, <1>4, <1>5, Untouched DEF new, old

-----------------------------------------------------------------------------
(* Each part of the invariant *)

\* A package that opens and holds no old database holds a current one.
LEMMA OldOrCurrent ==
    /\ \A pkg \in Packages \cup {None} :
          pkg # None /\ pkg.db # None /\ ~Holds(pkg, Old) => Holds(pkg, Current)
    /\ \A pkg : Holds(pkg, Current) => ~Holds(pkg, Old)
    /\ \A pkg : Opens(pkg) => pkg # None /\ pkg.db # None
<1>1. \A pkg \in Packages \cup {None} :
        pkg # None /\ pkg.db # None /\ ~Holds(pkg, Old) => Holds(pkg, Current)
  BY PackageParts, DatabaseParts DEF Holds
<1>2. \A pkg : Holds(pkg, Current) => ~Holds(pkg, Old)
  BY VersionsAreOrdered DEF Holds
<1>3. \A pkg : Opens(pkg) => pkg # None /\ pkg.db # None
  BY DEF Opens
<1> QED  BY <1>1, <1>2, <1>3


PackageStep(p) ==
    \/ BeginCreateEffect(p)
    \/ \E n \in Names : BeginOpenEffect(p, n)
    \/ BeginImportEffect(p)
    \/ BuildEffect(p)
    \/ PublishNewEffect(p)
    \/ CopyBeforeEffect(p)
    \/ MigrateEffect(p)
    \/ BindEffect(p)
    \/ CloseEffect(p)
    \/ WriteEffect(p)
    \/ CheckpointEffect(p)
    \/ BeginExportEffect(p)
    \/ CopyFileEffect(p)
    \/ DropOldArchiveEffect(p)
    \/ PublishArchiveEffect(p)
    \/ AdoptEffect(p)
    \/ RefusedEffect(p)
    \/ EmptyTargetEffect(p)
    \/ PublishRestoredEffect(p)
    \/ FailCommandEffect(p)
    \/ FailImportEffect(p)
    \/ CrashEffect(p)

LEMMA StepHasEffect ==
    ASSUME PpTypeOK, StagedPackages, SessionsOpen, PpNext
    PROVE  PpTypeOK' /\ \E p \in Procs : PackageStep(p)
<1>1. ASSUME NEW p \in Procs, NEW n \in Names, BeginCreate(p, n)  PROVE PpTypeOK' /\ PackageStep(p)
  BY <1>1, BeginCreateChanges DEF PackageStep
<1>2. ASSUME NEW p \in Procs, NEW n \in Names, BeginOpen(p, n)  PROVE PpTypeOK' /\ PackageStep(p)
  BY <1>2, BeginOpenChanges DEF PackageStep
<1>3. ASSUME NEW p \in Procs, NEW n \in Names, NEW overwrite \in BOOLEAN,
             BeginImport(p, n, overwrite)
      PROVE  PpTypeOK' /\ PackageStep(p)
  BY <1>3, BeginImportChanges DEF PackageStep
<1>4. ASSUME NEW p \in Procs, Build(p)  PROVE PpTypeOK' /\ PackageStep(p)
  BY <1>4, BuildChanges DEF PackageStep
<1>5. ASSUME NEW p \in Procs, PublishNew(p)  PROVE PpTypeOK' /\ PackageStep(p)
  BY <1>5, PublishNewChanges DEF PackageStep
<1>6. ASSUME NEW p \in Procs, CopyBefore(p)  PROVE PpTypeOK' /\ PackageStep(p)
  BY <1>6, CopyBeforeChanges DEF PackageStep
<1>7. ASSUME NEW p \in Procs, Migrate(p)  PROVE PpTypeOK' /\ PackageStep(p)
  BY <1>7, MigrateChanges DEF PackageStep
<1>8. ASSUME NEW p \in Procs, Bind(p)  PROVE PpTypeOK' /\ PackageStep(p)
  BY <1>8, BindChanges DEF PackageStep
<1>9. ASSUME NEW p \in Procs, Close(p)  PROVE PpTypeOK' /\ PackageStep(p)
  BY <1>9, CloseChanges DEF PackageStep
<1>10. ASSUME NEW p \in Procs, Write(p)  PROVE PpTypeOK' /\ PackageStep(p)
  BY <1>10, WriteChanges DEF PackageStep
<1>11. ASSUME NEW p \in Procs, Checkpoint(p)  PROVE PpTypeOK' /\ PackageStep(p)
  BY <1>11, CheckpointChanges DEF PackageStep
<1>12. ASSUME NEW p \in Procs, BeginExport(p)  PROVE PpTypeOK' /\ PackageStep(p)
  BY <1>12, BeginExportChanges DEF PackageStep
<1>13. ASSUME NEW p \in Procs, CopyFile(p)  PROVE PpTypeOK' /\ PackageStep(p)
  BY <1>13, CopyFileChanges DEF PackageStep
<1>14. ASSUME NEW p \in Procs, DropOldArchive(p)  PROVE PpTypeOK' /\ PackageStep(p)
  BY <1>14, DropOldArchiveChanges DEF PackageStep
<1>15. ASSUME NEW p \in Procs, PublishArchive(p)  PROVE PpTypeOK' /\ PackageStep(p)
  BY <1>15, PublishArchiveChanges DEF PackageStep
<1>16. ASSUME NEW p \in Procs, Adopt(p)  PROVE PpTypeOK' /\ PackageStep(p)
  BY <1>16, AdoptChanges DEF PackageStep
<1>17. ASSUME NEW p \in Procs, Refused(p)  PROVE PpTypeOK' /\ PackageStep(p)
  BY <1>17, RefusedChanges DEF PackageStep
<1>18. ASSUME NEW p \in Procs, EmptyTarget(p)  PROVE PpTypeOK' /\ PackageStep(p)
  BY <1>18, EmptyTargetChanges DEF PackageStep
<1>19. ASSUME NEW p \in Procs, PublishRestored(p)  PROVE PpTypeOK' /\ PackageStep(p)
  BY <1>19, PublishRestoredChanges DEF PackageStep
<1>20. ASSUME NEW p \in Procs, FailCommand(p)  PROVE PpTypeOK' /\ PackageStep(p)
  BY <1>20, FailCommandChanges DEF PackageStep
<1>21. ASSUME NEW p \in Procs, FailImport(p)  PROVE PpTypeOK' /\ PackageStep(p)
  BY <1>21, FailImportChanges DEF PackageStep
<1>22. ASSUME NEW p \in Procs, Crash(p)  PROVE PpTypeOK' /\ PackageStep(p)
  BY <1>22, CrashChanges DEF PackageStep
<1> QED
  BY <1>1, <1>2, <1>3, <1>4, <1>5, <1>6, <1>7, <1>8, <1>9, <1>10, <1>11,
     <1>12, <1>13, <1>14, <1>15, <1>16, <1>17, <1>18, <1>19, <1>20, <1>21, <1>22
  DEF PpNext

LEMMA StagedStep ==
    ASSUME PpTypeOK, PpTypeOK', StagedPackages,
           NEW p \in Procs, PackageStep(p)
    PROVE  StagedPackages'
<1>1. Idle.kind = "idle"
  BY CommandParts
<1>10. CASE BeginCreateEffect(p)
  BY <1>10, <1>1 DEF BeginCreateEffect, StagedPackages, CommandOnly, NewStay, RestoredStay, OnlyNew
<1>11. CASE \E n \in Names : BeginOpenEffect(p, n)
  BY <1>11, <1>1 DEF BeginOpenEffect, StagedPackages, CommandOnly
<1>12. CASE BeginImportEffect(p)
  BY <1>12, <1>1
  DEF BeginImportEffect, StagedPackages, ImportOnly, NewStay, RestoredStay, OnlyRestored
<1>13. CASE BuildEffect(p)
  BY <1>13, <1>1 DEF BuildEffect, StagedPackages, CommandOnly, NewStay, RestoredStay, OnlyNew
<1>14. CASE PublishNewEffect(p)
  <2>1. /\ NewStay({p}) /\ RestoredStay({}) /\ dir'[<<p, "creating">>] = None
        /\ import' = import /\ command'[p].kind # "create" /\ CommandOnly(p)
    BY <1>14, <1>1 DEF PublishNewEffect, OnlyNew, NameAndNew
  <2> QED  BY ZenonT(40), <2>1 DEF StagedPackages, CommandOnly, NewStay, RestoredStay
<1>15. CASE CopyBeforeEffect(p)
  BY ZenonT(40), <1>15, <1>1
  DEF CopyBeforeEffect, StagedPackages, CommandOnly, NewStay, RestoredStay, OnlyName
<1>16. CASE MigrateEffect(p)
  BY ZenonT(40), <1>16, <1>1
  DEF MigrateEffect, StagedPackages, CommandOnly, NewStay, RestoredStay, OnlyName
<1>17. CASE BindEffect(p)
  BY <1>17, <1>1 DEF BindEffect, StagedPackages, CommandOnly
<1>18. CASE CloseEffect(p)
  BY <1>18, <1>1 DEF CloseEffect, StagedPackages, NewStay, RestoredStay, OnlyName
<1>19. CASE WriteEffect(p)
  BY <1>19, <1>1 DEF WriteEffect, StagedPackages, DisturbedOf, NewStay, RestoredStay, OnlyName
<1>20. CASE CheckpointEffect(p)
  BY <1>20, <1>1 DEF CheckpointEffect, StagedPackages, NewStay, RestoredStay, OnlyName
<1>21. CASE BeginExportEffect(p)
  BY <1>21, <1>1 DEF BeginExportEffect, StagedPackages, CommandOnly
<1>22. CASE CopyFileEffect(p)
  BY <1>22, <1>1 DEF CopyFileEffect, StagedPackages, CommandOnly
<1>23. CASE DropOldArchiveEffect(p)
  BY <1>23, <1>1 DEF DropOldArchiveEffect, StagedPackages
<1>24. CASE PublishArchiveEffect(p)
  BY <1>24, <1>1 DEF PublishArchiveEffect, StagedPackages, CommandOnly
<1>25. CASE AdoptEffect(p)
  BY <1>25, <1>1 DEF AdoptEffect, StagedPackages, ImportOnly, NewStay, RestoredStay, OnlyRestored
<1>26. CASE RefusedEffect(p)
  BY <1>26, <1>1 DEF RefusedEffect, StagedPackages, ImportOnly
<1>27. CASE EmptyTargetEffect(p)
  <2>1. \A q \in Procs :
           /\ command'[q].kind = "create" <=> command[q].kind = "create"
           /\ command[q].kind = "create" => command'[q] = command[q]
    BY <1>27 DEF EmptyTargetEffect, DisturbedOf
  <2>2. /\ NewStay({}) /\ import[p].kind = "adopted" /\ ImportOnly(p)
        /\ \/ import'[p].kind = "emptied" /\ RestoredStay({})
           \/ /\ import'[p].kind = "idle" /\ RestoredStay({p})
              /\ dir'[<<p, "restoring">>] = None
    BY <1>27, <1>1 DEF EmptyTargetEffect, OnlyName, NameAndRestored, NewStay, RestoredStay
  <2>3. CASE import'[p].kind = "emptied" /\ RestoredStay({})
    BY ZenonT(40), <2>1, <2>2, <2>3 DEF StagedPackages, ImportOnly, NewStay, RestoredStay
  <2>4. CASE /\ import'[p].kind = "idle" /\ RestoredStay({p})
             /\ dir'[<<p, "restoring">>] = None
    <3>1. \A q \in Procs : q = p \/ dir'[<<q, "restoring">>] = dir[<<q, "restoring">>]
      BY <2>4 DEF RestoredStay
    <3>2. \A q \in Procs : dir'[<<q, "creating">>] = dir[<<q, "creating">>]
      BY <2>2 DEF NewStay
    <3>3. \A q \in Procs : q = p \/ import'[q] = import[q]
      BY <2>2 DEF ImportOnly
    <3>4. \A q \in Procs :
             LET old == dir'[<<q, "restoring">>] IN
             /\ import'[q].kind \notin {"extracted", "adopted", "emptied"} => old = None
             /\ import'[q].kind = "extracted" => old # None /\ old.db # None
             /\ import'[q].kind \in {"adopted", "emptied"} => Opens(old) /\ Holds(old, Current)
      BY <2>4, <3>1, <3>3 DEF StagedPackages
    <3> QED  BY <2>1, <3>2, <3>4 DEF StagedPackages
  <2> QED  BY <2>2, <2>3, <2>4
<1>28. CASE PublishRestoredEffect(p)
  BY <1>28, <1>1
  DEF PublishRestoredEffect, StagedPackages, ImportOnly, NewStay, RestoredStay, OnlyRestored,
      NameAndRestored
<1>29. CASE FailCommandEffect(p)
  BY <1>29, <1>1 DEF FailCommandEffect, StagedPackages, CommandOnly, NewStay, RestoredStay, OnlyNew
<1>30. CASE FailImportEffect(p)
  BY <1>30, <1>1
  DEF FailImportEffect, StagedPackages, ImportOnly, NewStay, RestoredStay, OnlyRestored
<1>31. CASE CrashEffect(p)
  BY ZenonT(40), <1>31, <1>1
  DEF CrashEffect, StagedPackages, CommandOnly, ImportOnly, NewStay, RestoredStay, OnlyFolders
<1> QED
  BY <1>10, <1>11, <1>12, <1>13, <1>14, <1>15, <1>16, <1>17, <1>18, <1>19,
     <1>20, <1>21, <1>22, <1>23, <1>24, <1>25, <1>26, <1>27, <1>28, <1>29, <1>30, <1>31
  DEF PackageStep

LEMMA SessionsStep ==
    ASSUME PpTypeOK, PpTypeOK', StagedPackages, SessionsOpen, OpenKnows,
           NEW p \in Procs, PackageStep(p)
    PROVE  SessionsOpen'
<1>1. /\ \A q \in Procs : session[q] # None => session[q] \in Names
      /\ \A q \in Procs : session'[q] # None => session'[q] \in Names
  BY DEF PpTypeOK
<1>10. CASE BeginCreateEffect(p)
  BY <1>10, <1>1 DEF BeginCreateEffect, SessionsOpen, NamesStay, OnlyNew
<1>11. CASE \E n \in Names : BeginOpenEffect(p, n)
  BY <1>11, <1>1 DEF BeginOpenEffect, SessionsOpen
<1>12. CASE BeginImportEffect(p)
  BY <1>12, <1>1 DEF BeginImportEffect, SessionsOpen, NamesStay, OnlyRestored
<1>13. CASE BuildEffect(p)
  BY <1>13, <1>1 DEF BuildEffect, SessionsOpen, NamesStay, OnlyNew
<1>14. CASE PublishNewEffect(p)
  BY <1>14, <1>1, OldOrCurrent DEF PublishNewEffect, SessionsOpen, NamesStay, OnlyNew, NameAndNew
<1>15. CASE CopyBeforeEffect(p)
  BY <1>15, <1>1 DEF CopyBeforeEffect, SessionsOpen, NamesStay, OnlyName, Opens, Holds
<1>16. CASE MigrateEffect(p)
  BY <1>16, <1>1 DEF MigrateEffect, SessionsOpen, NamesStay, OnlyName, Opens, Holds
<1>17. CASE BindEffect(p)
  <2>1. dir[command[p].name] \in Packages \cup {None}
    BY <1>17, PathsApart DEF BindEffect, PpTypeOK
  <2>2. \/ session'[p] = session[p]
        \/ Opens(dir[session'[p]]) /\ Holds(dir[session'[p]], Current)
    <3>1. LET n == command[p].name IN ~Holds(dir[n], Old)
      BY <1>17 DEF BindEffect, OpenKnows
    <3>2. LET n == command[p].name IN Opens(dir[n]) => Holds(dir[n], Current)
      BY <2>1, <3>1, OldOrCurrent
    <3> QED  BY <1>17, <3>2 DEF BindEffect
  <2> QED  BY <1>17, <2>2 DEF BindEffect, SessionsOpen
<1>18. CASE CloseEffect(p)
  BY <1>18, <1>1 DEF CloseEffect, SessionsOpen, DatabaseMoves, NamesStay, OnlyName, Opens, Holds
<1>19. CASE WriteEffect(p)
  BY <1>19, <1>1 DEF WriteEffect, SessionsOpen, DatabaseMoves, NamesStay, OnlyName, Opens, Holds
<1>20. CASE CheckpointEffect(p)
  BY <1>20, <1>1
  DEF CheckpointEffect, SessionsOpen, DatabaseMoves, NamesStay, OnlyName, Opens, Holds
<1>21. CASE BeginExportEffect(p)
  BY <1>21, <1>1 DEF BeginExportEffect, SessionsOpen
<1>22. CASE CopyFileEffect(p)
  BY <1>22, <1>1 DEF CopyFileEffect, SessionsOpen
<1>23. CASE DropOldArchiveEffect(p)
  BY <1>23, <1>1 DEF DropOldArchiveEffect, SessionsOpen
<1>24. CASE PublishArchiveEffect(p)
  BY <1>24, <1>1 DEF PublishArchiveEffect, SessionsOpen
<1>25. CASE AdoptEffect(p)
  BY <1>25, <1>1 DEF AdoptEffect, SessionsOpen, NamesStay, OnlyRestored
<1>26. CASE RefusedEffect(p)
  BY <1>26, <1>1 DEF RefusedEffect, SessionsOpen
<1>27. CASE EmptyTargetEffect(p)
  BY <1>27, <1>1, OldOrCurrent
  DEF EmptyTargetEffect, SessionsOpen, NamesStay, OnlyName, NameAndRestored
<1>28. CASE PublishRestoredEffect(p)
  BY <1>28, <1>1, OldOrCurrent
  DEF PublishRestoredEffect, SessionsOpen, NamesStay, OnlyRestored, NameAndRestored
<1>29. CASE FailCommandEffect(p)
  BY <1>29, <1>1 DEF FailCommandEffect, SessionsOpen, NamesStay, OnlyNew
<1>30. CASE FailImportEffect(p)
  BY <1>30, <1>1 DEF FailImportEffect, SessionsOpen, NamesStay, OnlyRestored
<1>31. CASE CrashEffect(p)
  BY <1>31, <1>1 DEF CrashEffect, SessionsOpen, NamesStay, OnlyFolders
<1> QED
  BY <1>10, <1>11, <1>12, <1>13, <1>14, <1>15, <1>16, <1>17, <1>18, <1>19,
     <1>20, <1>21, <1>22, <1>23, <1>24, <1>25, <1>26, <1>27, <1>28, <1>29, <1>30, <1>31
  DEF PackageStep

LEMMA OpenStep ==
    ASSUME PpTypeOK, PpTypeOK', StagedPackages, SessionsOpen, OpenKnows,
           NEW p \in Procs, PackageStep(p)
    PROVE  OpenKnows'
<1>1. /\ \A q \in Procs : command[q].kind # "idle" => command[q].name \in Names
      /\ \A q \in Procs : command'[q].kind # "idle" => command'[q].name \in Names
      /\ Idle.kind = "idle"
  BY CommandParts DEF PpTypeOK
<1>10. CASE BeginCreateEffect(p)
  BY <1>10, <1>1 DEF BeginCreateEffect, OpenKnows, CommandOnly, NamesStay, OnlyNew
<1>11. CASE \E n \in Names : BeginOpenEffect(p, n)
  BY <1>11, <1>1, VersionsAreOrdered DEF BeginOpenEffect, OpenKnows, CommandOnly, Holds
<1>12. CASE BeginImportEffect(p)
  BY <1>12, <1>1 DEF BeginImportEffect, OpenKnows, NamesStay, OnlyRestored
<1>13. CASE BuildEffect(p)
  BY <1>13, <1>1 DEF BuildEffect, OpenKnows, CommandOnly, NamesStay, OnlyNew
<1>14. CASE PublishNewEffect(p)
  <2>1. Holds(dir[<<p, "creating">>], Current)
    BY <1>14 DEF PublishNewEffect, StagedPackages
  <2>2. \A m \in Names : dir'[m] # dir[m] => ~Holds(dir'[m], Old)
    BY <1>14, <2>1, OldOrCurrent DEF PublishNewEffect, NamesStay, OnlyNew, NameAndNew
  <2>3. command'[p].kind = "open" => ~Holds(dir'[command'[p].name], Old)
    BY <1>14, <1>1, <2>1, OldOrCurrent DEF PublishNewEffect
  <2> QED  BY <1>14, <1>1, <2>2, <2>3 DEF PublishNewEffect, OpenKnows, CommandOnly
<1>15. CASE CopyBeforeEffect(p)
  BY SMTT(30), <1>15, <1>1 DEF CopyBeforeEffect, OpenKnows, CommandOnly, NamesStay, OnlyName, Holds
<1>16. CASE MigrateEffect(p)
  BY SMTT(30), <1>16, <1>1, VersionsAreOrdered
  DEF MigrateEffect, OpenKnows, CommandOnly, NamesStay, OnlyName, Holds
<1>17. CASE BindEffect(p)
  BY <1>17, <1>1 DEF BindEffect, OpenKnows, CommandOnly
<1>18. CASE CloseEffect(p)
  BY <1>18, <1>1 DEF CloseEffect, OpenKnows, DatabaseMoves, NamesStay, OnlyName, Holds
<1>19. CASE WriteEffect(p)
  <2>1. /\ \A m \in Names : dir'[m] # dir[m] => ~Holds(dir'[m], Old)
        /\ \A q \in Procs : command'[q].kind = "open" => command'[q] = command[q]
    <3>1. Holds(dir[session[p]], Current)
      BY <1>19, NoneApart DEF WriteEffect, SessionsOpen
    <3> QED
      BY <1>19, <3>1, OldOrCurrent
      DEF WriteEffect, NamesStay, OnlyName, DatabaseMoves, DisturbedOf, Holds
  <2> QED  BY <1>19, <1>1, <2>1 DEF WriteEffect, OpenKnows
<1>20. CASE CheckpointEffect(p)
  BY <1>20, <1>1 DEF CheckpointEffect, OpenKnows, DatabaseMoves, NamesStay, OnlyName, Holds
<1>21. CASE BeginExportEffect(p)
  BY <1>21, <1>1 DEF BeginExportEffect, OpenKnows, CommandOnly
<1>22. CASE CopyFileEffect(p)
  BY <1>22, <1>1 DEF CopyFileEffect, OpenKnows, CommandOnly
<1>23. CASE DropOldArchiveEffect(p)
  BY <1>23, <1>1 DEF DropOldArchiveEffect, OpenKnows
<1>24. CASE PublishArchiveEffect(p)
  BY <1>24, <1>1 DEF PublishArchiveEffect, OpenKnows, CommandOnly
<1>25. CASE AdoptEffect(p)
  BY <1>25, <1>1 DEF AdoptEffect, OpenKnows, NamesStay, OnlyRestored
<1>26. CASE RefusedEffect(p)
  BY <1>26, <1>1 DEF RefusedEffect, OpenKnows
<1>27. CASE EmptyTargetEffect(p)
  <2>1. \A m \in Names : Holds(dir'[m], Old) =>
           Holds(dir[m], Old) /\ dir'[m].db = dir[m].db /\ dir'[m].copies = dir[m].copies
    BY <1>27 DEF EmptyTargetEffect, NamesStay, OnlyName, NameAndRestored, Holds
  <2>2. \A q \in Procs : command'[q].kind = "open" => command'[q] = command[q]
    BY <1>27 DEF EmptyTargetEffect, DisturbedOf
  <2> QED  BY <1>1, <2>1, <2>2 DEF OpenKnows
<1>28. CASE PublishRestoredEffect(p)
  <2>1. Holds(dir[<<p, "restoring">>], Current)
    BY <1>28 DEF PublishRestoredEffect, StagedPackages
  <2>2. \A m \in Names : dir'[m] # dir[m] => ~Holds(dir'[m], Old)
    BY <1>28, <2>1, OldOrCurrent DEF PublishRestoredEffect, NamesStay, OnlyRestored, NameAndRestored
  <2> QED  BY <1>28, <1>1, <2>2 DEF PublishRestoredEffect, OpenKnows
<1>29. CASE FailCommandEffect(p)
  BY <1>29, <1>1 DEF FailCommandEffect, OpenKnows, CommandOnly, NamesStay, OnlyNew
<1>30. CASE FailImportEffect(p)
  BY <1>30, <1>1 DEF FailImportEffect, OpenKnows, NamesStay, OnlyRestored
<1>31. CASE CrashEffect(p)
  BY <1>31, <1>1 DEF CrashEffect, OpenKnows, CommandOnly, NamesStay, OnlyFolders
<1> QED
  BY <1>10, <1>11, <1>12, <1>13, <1>14, <1>15, <1>16, <1>17, <1>18, <1>19,
     <1>20, <1>21, <1>22, <1>23, <1>24, <1>25, <1>26, <1>27, <1>28, <1>29, <1>30, <1>31
  DEF PackageStep

LEMMA WholeStep ==
    ASSUME PpTypeOK, PpTypeOK', StagedPackages, NoHalfPackage,
           NEW p \in Procs, PackageStep(p)
    PROVE  NoHalfPackage'
<1>10. CASE BeginCreateEffect(p)
  BY <1>10 DEF BeginCreateEffect, NoHalfPackage, NamesStay, OnlyNew
<1>11. CASE \E n \in Names : BeginOpenEffect(p, n)
  BY <1>11 DEF BeginOpenEffect, NoHalfPackage
<1>12. CASE BeginImportEffect(p)
  BY <1>12 DEF BeginImportEffect, NoHalfPackage, NamesStay, OnlyRestored
<1>13. CASE BuildEffect(p)
  BY <1>13 DEF BuildEffect, NoHalfPackage, NamesStay, OnlyNew
<1>14. CASE PublishNewEffect(p)
  BY ZenonT(40), <1>14
  DEF PublishNewEffect, NoHalfPackage, NamesStay, OnlyNew, NameAndNew, StagedPackages
<1>15. CASE CopyBeforeEffect(p)
  BY <1>15 DEF CopyBeforeEffect, NoHalfPackage, NamesStay, OnlyName, Opens
<1>16. CASE MigrateEffect(p)
  BY <1>16 DEF MigrateEffect, NoHalfPackage, NamesStay, OnlyName, Opens
<1>17. CASE BindEffect(p)
  BY <1>17 DEF BindEffect, NoHalfPackage
<1>18. CASE CloseEffect(p)
  BY <1>18 DEF CloseEffect, NoHalfPackage, DatabaseMoves, NamesStay, OnlyName, Opens
<1>19. CASE WriteEffect(p)
  BY <1>19 DEF WriteEffect, NoHalfPackage, DatabaseMoves, NamesStay, OnlyName, Opens
<1>20. CASE CheckpointEffect(p)
  BY <1>20 DEF CheckpointEffect, NoHalfPackage, DatabaseMoves, NamesStay, OnlyName, Opens
<1>21. CASE BeginExportEffect(p)
  BY <1>21 DEF BeginExportEffect, NoHalfPackage
<1>22. CASE CopyFileEffect(p)
  BY <1>22 DEF CopyFileEffect, NoHalfPackage
<1>23. CASE DropOldArchiveEffect(p)
  BY <1>23 DEF DropOldArchiveEffect, NoHalfPackage
<1>24. CASE PublishArchiveEffect(p)
  BY <1>24 DEF PublishArchiveEffect, NoHalfPackage
<1>25. CASE AdoptEffect(p)
  BY <1>25 DEF AdoptEffect, NoHalfPackage, NamesStay, OnlyRestored
<1>26. CASE RefusedEffect(p)
  BY <1>26 DEF RefusedEffect, NoHalfPackage
<1>27. CASE EmptyTargetEffect(p)
  BY <1>27 DEF EmptyTargetEffect, NoHalfPackage, NamesStay, OnlyName, NameAndRestored
<1>28. CASE PublishRestoredEffect(p)
  BY <1>28
  DEF PublishRestoredEffect, NoHalfPackage, NamesStay, OnlyRestored, NameAndRestored,
      StagedPackages
<1>29. CASE FailCommandEffect(p)
  BY <1>29 DEF FailCommandEffect, NoHalfPackage, NamesStay, OnlyNew
<1>30. CASE FailImportEffect(p)
  BY <1>30 DEF FailImportEffect, NoHalfPackage, NamesStay, OnlyRestored
<1>31. CASE CrashEffect(p)
  BY <1>31 DEF CrashEffect, NoHalfPackage, NamesStay, OnlyFolders
<1> QED
  BY <1>10, <1>11, <1>12, <1>13, <1>14, <1>15, <1>16, <1>17, <1>18, <1>19,
     <1>20, <1>21, <1>22, <1>23, <1>24, <1>25, <1>26, <1>27, <1>28, <1>29, <1>30, <1>31
  DEF PackageStep

LEMMA AckedStep ==
    ASSUME PpTypeOK, PpTypeOK', StagedPackages, AckedStands,
           NEW p \in Procs, PackageStep(p)
    PROVE  AckedStands'
<1>10. CASE BeginCreateEffect(p)
  BY <1>10 DEF BeginCreateEffect, AckedStands, NamesStay, OnlyNew
<1>11. CASE \E n \in Names : BeginOpenEffect(p, n)
  BY <1>11 DEF BeginOpenEffect, AckedStands
<1>12. CASE BeginImportEffect(p)
  BY <1>12 DEF BeginImportEffect, AckedStands, NamesStay, OnlyRestored
<1>13. CASE BuildEffect(p)
  BY <1>13 DEF BuildEffect, AckedStands, NamesStay, OnlyNew
<1>14. CASE PublishNewEffect(p)
  BY ZenonT(40), <1>14, OldOrCurrent
  DEF PublishNewEffect, AckedStands, NamesStay, OnlyNew, NameAndNew, StagedPackages
<1>15. CASE CopyBeforeEffect(p)
  BY <1>15 DEF CopyBeforeEffect, AckedStands, NamesStay, OnlyName
<1>16. CASE MigrateEffect(p)
  BY <1>16 DEF MigrateEffect, AckedStands, NamesStay, OnlyName
<1>17. CASE BindEffect(p)
  BY <1>17 DEF BindEffect, AckedStands
<1>18. CASE CloseEffect(p)
  BY <1>18 DEF CloseEffect, AckedStands, DatabaseMoves, NamesStay, OnlyName
<1>19. CASE WriteEffect(p)
  BY <1>19 DEF WriteEffect, AckedStands, DatabaseMoves, NamesStay, OnlyName
<1>20. CASE CheckpointEffect(p)
  BY <1>20 DEF CheckpointEffect, AckedStands, DatabaseMoves, NamesStay, OnlyName
<1>21. CASE BeginExportEffect(p)
  BY <1>21 DEF BeginExportEffect, AckedStands
<1>22. CASE CopyFileEffect(p)
  BY <1>22 DEF CopyFileEffect, AckedStands
<1>23. CASE DropOldArchiveEffect(p)
  BY <1>23 DEF DropOldArchiveEffect, AckedStands
<1>24. CASE PublishArchiveEffect(p)
  BY <1>24 DEF PublishArchiveEffect, AckedStands
<1>25. CASE AdoptEffect(p)
  BY <1>25 DEF AdoptEffect, AckedStands, NamesStay, OnlyRestored
<1>26. CASE RefusedEffect(p)
  BY <1>26 DEF RefusedEffect, AckedStands
<1>27. CASE EmptyTargetEffect(p)
  BY <1>27 DEF EmptyTargetEffect, AckedStands, NamesStay, OnlyName, NameAndRestored
<1>28. CASE PublishRestoredEffect(p)
  BY ZenonT(40), <1>28, OldOrCurrent
  DEF PublishRestoredEffect, AckedStands, NamesStay, OnlyRestored, NameAndRestored,
      StagedPackages
<1>29. CASE FailCommandEffect(p)
  BY <1>29 DEF FailCommandEffect, AckedStands, NamesStay, OnlyNew
<1>30. CASE FailImportEffect(p)
  BY <1>30 DEF FailImportEffect, AckedStands, NamesStay, OnlyRestored
<1>31. CASE CrashEffect(p)
  BY <1>31 DEF CrashEffect, AckedStands, NamesStay, OnlyFolders
<1> QED
  BY <1>10, <1>11, <1>12, <1>13, <1>14, <1>15, <1>16, <1>17, <1>18, <1>19,
     <1>20, <1>21, <1>22, <1>23, <1>24, <1>25, <1>26, <1>27, <1>28, <1>29, <1>30, <1>31
  DEF PackageStep

LEMMA ExportStep ==
    ASSUME PpTypeOK, PpTypeOK', SessionsOpen, ExportAlone,
           NEW p \in Procs, PackageStep(p)
    PROVE  ExportAlone'
<1>1. /\ \A q \in Procs : command[q].kind # "idle" => command[q].name \in Names
      /\ \A q \in Procs : command'[q].kind # "idle" => command'[q].name \in Names
      /\ Idle.kind = "idle"
  BY CommandParts DEF PpTypeOK
<1>10. CASE BeginCreateEffect(p)
  BY <1>10, <1>1 DEF BeginCreateEffect, ExportAlone, CommandOnly, NamesStay, OnlyNew
<1>11. CASE \E n \in Names : BeginOpenEffect(p, n)
  BY <1>11, <1>1 DEF BeginOpenEffect, ExportAlone, CommandOnly
<1>12. CASE BeginImportEffect(p)
  BY <1>12, <1>1 DEF BeginImportEffect, ExportAlone, NamesStay, OnlyRestored
<1>13. CASE BuildEffect(p)
  BY <1>13, <1>1 DEF BuildEffect, ExportAlone, CommandOnly, NamesStay, OnlyNew
<1>14. CASE PublishNewEffect(p)
  BY <1>14, <1>1, OldOrCurrent, NoneApart
  DEF PublishNewEffect, ExportAlone, CommandOnly, NamesStay, OnlyNew, NameAndNew, SessionsOpen
<1>15. CASE CopyBeforeEffect(p)
  BY SMTT(30), <1>15, <1>1 DEF CopyBeforeEffect, ExportAlone, CommandOnly, NamesStay, OnlyName
<1>16. CASE MigrateEffect(p)
  BY SMTT(30), <1>16, <1>1 DEF MigrateEffect, ExportAlone, CommandOnly, NamesStay, OnlyName
<1>17. CASE BindEffect(p)
  BY <1>17, <1>1 DEF BindEffect, ExportAlone, CommandOnly
<1>18. CASE CloseEffect(p)
  BY <1>18, <1>1 DEF CloseEffect, ExportAlone, DatabaseMoves, NamesStay, OnlyName
<1>19. CASE WriteEffect(p)
  BY <1>19, <1>1 DEF WriteEffect, ExportAlone, DisturbedOf, DatabaseMoves, NamesStay, OnlyName
<1>20. CASE CheckpointEffect(p)
  BY <1>20, <1>1 DEF CheckpointEffect, ExportAlone, DatabaseMoves, NamesStay, OnlyName
<1>21. CASE BeginExportEffect(p)
  BY <1>21, <1>1 DEF BeginExportEffect, ExportAlone, CommandOnly
<1>22. CASE CopyFileEffect(p)
  BY <1>22, <1>1 DEF CopyFileEffect, ExportAlone, CommandOnly
<1>23. CASE DropOldArchiveEffect(p)
  BY <1>23, <1>1 DEF DropOldArchiveEffect, ExportAlone
<1>24. CASE PublishArchiveEffect(p)
  BY <1>24, <1>1 DEF PublishArchiveEffect, ExportAlone, CommandOnly
<1>25. CASE AdoptEffect(p)
  BY <1>25, <1>1 DEF AdoptEffect, ExportAlone, NamesStay, OnlyRestored
<1>26. CASE RefusedEffect(p)
  BY <1>26, <1>1 DEF RefusedEffect, ExportAlone
<1>27. CASE EmptyTargetEffect(p)
  BY <1>27, <1>1, NoneApart
  DEF EmptyTargetEffect, ExportAlone, DisturbedOf, NamesStay, OnlyName, NameAndRestored
<1>28. CASE PublishRestoredEffect(p)
  BY <1>28, <1>1, OldOrCurrent, NoneApart
  DEF PublishRestoredEffect, ExportAlone, NamesStay, OnlyRestored, NameAndRestored, SessionsOpen
<1>29. CASE FailCommandEffect(p)
  BY <1>29, <1>1 DEF FailCommandEffect, ExportAlone, CommandOnly, NamesStay, OnlyNew
<1>30. CASE FailImportEffect(p)
  BY <1>30, <1>1 DEF FailImportEffect, ExportAlone, NamesStay, OnlyRestored
<1>31. CASE CrashEffect(p)
  BY <1>31, <1>1 DEF CrashEffect, ExportAlone, CommandOnly, NamesStay, OnlyFolders
<1> QED
  BY <1>10, <1>11, <1>12, <1>13, <1>14, <1>15, <1>16, <1>17, <1>18, <1>19,
     <1>20, <1>21, <1>22, <1>23, <1>24, <1>25, <1>26, <1>27, <1>28, <1>29, <1>30, <1>31
  DEF PackageStep

LEMMA ArchiveStep ==
    ASSUME PpTypeOK, PpTypeOK', ExportAlone, ArchiveIsAState,
           NEW p \in Procs, PackageStep(p)
    PROVE  ArchiveIsAState'
<1>10. CASE BeginCreateEffect(p)
  BY <1>10 DEF BeginCreateEffect, ArchiveIsAState
<1>11. CASE \E n \in Names : BeginOpenEffect(p, n)
  BY <1>11 DEF BeginOpenEffect, ArchiveIsAState
<1>12. CASE BeginImportEffect(p)
  BY <1>12 DEF BeginImportEffect, ArchiveIsAState
<1>13. CASE BuildEffect(p)
  BY <1>13 DEF BuildEffect, ArchiveIsAState
<1>14. CASE PublishNewEffect(p)
  BY <1>14 DEF PublishNewEffect, ArchiveIsAState
<1>15. CASE CopyBeforeEffect(p)
  BY <1>15 DEF CopyBeforeEffect, ArchiveIsAState
<1>16. CASE MigrateEffect(p)
  BY <1>16 DEF MigrateEffect, ArchiveIsAState
<1>17. CASE BindEffect(p)
  BY <1>17 DEF BindEffect, ArchiveIsAState
<1>18. CASE CloseEffect(p)
  BY <1>18 DEF CloseEffect, ArchiveIsAState
<1>19. CASE WriteEffect(p)
  BY <1>19 DEF WriteEffect, ArchiveIsAState
<1>20. CASE CheckpointEffect(p)
  BY <1>20 DEF CheckpointEffect, ArchiveIsAState
<1>21. CASE BeginExportEffect(p)
  BY <1>21 DEF BeginExportEffect, ArchiveIsAState
<1>22. CASE CopyFileEffect(p)
  BY <1>22 DEF CopyFileEffect, ArchiveIsAState
<1>23. CASE DropOldArchiveEffect(p)
  BY <1>23 DEF DropOldArchiveEffect, ArchiveIsAState
<1>24. CASE PublishArchiveEffect(p)
  <2> DEFINE c == command[p]
             db == dir[c.name].db
  <2>1. CASE c.alone
    <3>1. c.kind = "export" /\ c.main \in Databases /\ c.log \in Databases
      BY <1>24 DEF PublishArchiveEffect
    <3>2. /\ c.main.id = db.id /\ c.main.rows = db.rows /\ c.main.base = db.base
          /\ c.log.id = db.id /\ c.log.rows = db.rows /\ c.log.base = db.base
      BY <2>1, <3>1, NoneApart DEF ExportAlone
    <3>3. c.main.base <= c.main.main /\ c.main.main <= Len(c.main.rows)
      BY <3>1, DatabaseParts
    <3>4. Fits(c.main, c.log)
      BY <3>2, <3>3 DEF Fits
    <3> QED  BY <1>24, <3>4 DEF PublishArchiveEffect, ArchiveIsAState
  <2>2. CASE ~c.alone
    BY <1>24, <2>2 DEF PublishArchiveEffect, ArchiveIsAState
  <2> QED  BY <2>1, <2>2
<1>25. CASE AdoptEffect(p)
  BY <1>25 DEF AdoptEffect, ArchiveIsAState
<1>26. CASE RefusedEffect(p)
  BY <1>26 DEF RefusedEffect, ArchiveIsAState
<1>27. CASE EmptyTargetEffect(p)
  BY <1>27 DEF EmptyTargetEffect, ArchiveIsAState
<1>28. CASE PublishRestoredEffect(p)
  BY <1>28 DEF PublishRestoredEffect, ArchiveIsAState
<1>29. CASE FailCommandEffect(p)
  BY <1>29 DEF FailCommandEffect, ArchiveIsAState
<1>30. CASE FailImportEffect(p)
  BY <1>30 DEF FailImportEffect, ArchiveIsAState
<1>31. CASE CrashEffect(p)
  BY <1>31 DEF CrashEffect, ArchiveIsAState
<1> QED
  BY <1>10, <1>11, <1>12, <1>13, <1>14, <1>15, <1>16, <1>17, <1>18, <1>19,
     <1>20, <1>21, <1>22, <1>23, <1>24, <1>25, <1>26, <1>27, <1>28, <1>29, <1>30, <1>31
  DEF PackageStep

-----------------------------------------------------------------------------
(* The theorems *)

\* The package an earlier release left, its log not yet copied over.
LEMMA OldPackage ==
    LET old == [Package(1, Old) EXCEPT !.db.main = 0, !.db.base = 0] IN
    /\ old \in Packages /\ old # None /\ Opens(old) /\ old.manifest = 1
    /\ old.db \in Databases /\ old.db.rows \in Seq(Nat)
<1> DEFINE rows == <<1>>
           db == [ id |-> 1, version |-> Old, guarded |-> 0,
                   rows |-> rows, main |-> Len(rows), base |-> Len(rows) ]
           new == [ id |-> 1, version |-> Old, guarded |-> 0,
                    rows |-> rows, main |-> 0, base |-> 0 ]
           with(d) == [manifest |-> 1, db |-> d, copies |-> {}]
           old == [Package(1, Old) EXCEPT !.db.main = 0, !.db.base = 0]
<1>1. rows \in Seq(Nat) /\ Len(rows) = 1 /\ 1 \in Nat /\ 0 \in Nat
  OBVIOUS
<1> HIDE DEF rows
<1>2. Package(1, Old) = with(db)
  BY DEF Package, Db, rows
<1>3. [[db EXCEPT !.main = 0] EXCEPT !.base = 0] = new
  <2> DEFINE db1 == [db EXCEPT !.main = 0]
  <2>1. db1 = [ id |-> 1, version |-> Old, guarded |-> 0,
                rows |-> rows, main |-> 0, base |-> Len(rows) ]
    OBVIOUS
  <2> HIDE DEF db1
  <2>2. [db1 EXCEPT !.base = 0] = new
    BY <2>1
  <2> QED  BY <2>2 DEF db1
<1>4. new \in Databases
  BY <1>1 DEF Databases
<1>5. new.id = 1 /\ new.rows = rows /\ new # None
  BY <1>4, NoneApart
<1> HIDE DEF db, new
<1>6. old = with(new)
  <2> DEFINE pkg == with(db)
             pkg1 == [pkg EXCEPT !.db.main = 0]
  <2>1. pkg.db = db
    OBVIOUS
  <2>2. pkg1 = with([db EXCEPT !.main = 0])
    OBVIOUS
  <2>3. old = [pkg1 EXCEPT !.db.base = 0]
    BY <1>2
  <2> HIDE DEF pkg1
  <2>4. [pkg1 EXCEPT !.db.base = 0] = with([[db EXCEPT !.main = 0] EXCEPT !.base = 0])
    BY <2>2
  <2> QED  BY <1>3, <2>3, <2>4
<1>7. with(new) \in Packages /\ with(new) # None
  BY <1>4, PackageParts, NoneApart
<1>8. Opens(with(new)) /\ with(new).manifest = 1 /\ with(new).db = new
  <2>1. 1 # None
    BY NoneApart
  <2> QED  BY <1>5, <1>7, <2>1 DEF Opens
<1> QED  BY <1>1, <1>4, <1>5, <1>6, <1>7, <1>8

LEMMA InitPackage == PpInit => PackageInvariant
<1> SUFFICES ASSUME PpInit  PROVE PackageInvariant
  OBVIOUS
<1> DEFINE old == [Package(1, Old) EXCEPT !.db.main = 0, !.db.base = 0]
<1>1. PICK n \in Names, found, kept \in BOOLEAN :
         /\ dir = [x \in Paths |-> IF found /\ x = n THEN old ELSE None]
         /\ archive = IF kept THEN [id |-> 1, manifest |-> 1, copies |-> {}, db |-> old.db,
                                    torn |-> FALSE, alone |-> TRUE]
                      ELSE None
         /\ acked = [x \in Names |-> IF dir[x] = None THEN << >> ELSE dir[x].db.rows]
  BY DEF PpInit
<1>2. /\ old \in Packages /\ old # None /\ Opens(old) /\ old.manifest = 1
      /\ old.db \in Databases /\ old.db.rows \in Seq(Nat) /\ old.db # None
  BY OldPackage DEF Opens
<1> HIDE DEF old
<1>3. /\ ids = 1 /\ removing = {}
      /\ session = [p \in Procs |-> None]
      /\ command = [p \in Procs |-> Idle] /\ import = [p \in Procs |-> Idle]
  BY DEF PpInit
<1>4. /\ dir \in [Paths -> Packages \cup {None}]
      /\ \A x \in Paths : dir[x] = None \/ dir[x] = old
      /\ \A x \in Paths : x # n => dir[x] = None
  BY <1>1, <1>2
<1>5. archive = None \/ (archive \in Archives /\ archive.torn = FALSE)
  <2> DEFINE a == [ id |-> 1, manifest |-> 1, copies |-> {}, db |-> old.db,
                    torn |-> FALSE, alone |-> TRUE ]
  <2>1. a \in Archives
    <3>1. 1 \in Nat /\ {} \in SUBSET Copies /\ TRUE \in BOOLEAN /\ FALSE \in BOOLEAN
      OBVIOUS
    <3> QED  BY <1>2, <3>1, ArchiveParts, Zenon
  <2>2. a.torn = FALSE
    OBVIOUS
  <2>3. archive = a \/ archive = None
    BY <1>1
  <2> HIDE DEF a
  <2> QED  BY <2>1, <2>2, <2>3
<1>6. acked \in [Names -> Seq(Nat)]
  <2>1. << >> \in Seq(Nat) /\ \A x \in Names : x \in Paths
    BY PathsApart
  <2>2. \A x \in Names : (IF dir[x] = None THEN << >> ELSE dir[x].db.rows) \in Seq(Nat)
    BY <1>2, <1>4, <2>1
  <2> QED  BY <1>1, <2>2
<1>7. PpTypeOK
  BY <1>3, <1>4, <1>5, <1>6, CommandParts, ImportParts DEF PpTypeOK
<1>8. StagedPackages
  <2>1. \A p \in Procs : dir[<<p, "creating">>] = None /\ dir[<<p, "restoring">>] = None
    <3>1. "creating" \in Files /\ "restoring" \in Files
      BY DEF Files
    <3> QED  BY <1>4, <3>1, PathsApart
  <2> QED  BY <1>3, <2>1, CommandParts DEF StagedPackages
<1>9. SessionsOpen /\ OpenKnows /\ ExportAlone
  BY <1>3, CommandParts DEF SessionsOpen, OpenKnows, ExportAlone
<1>10. NoHalfPackage
  BY <1>2, <1>4, PathsApart DEF NoHalfPackage
<1>11. AckedStands
  BY <1>1, <1>2, <1>4, PathsApart DEF AckedStands
<1>12. ArchiveIsAState
  BY <1>5 DEF ArchiveIsAState
<1> QED  BY <1>7, <1>8, <1>9, <1>10, <1>11, <1>12 DEF PackageInvariant

\* The invariant holds of every reachable state.
THEOREM PackageInvariantHolds == PpSpec => []PackageInvariant
<1>1. PackageInvariant /\ [PpNext]_ppVars => PackageInvariant'
  <2> SUFFICES ASSUME PackageInvariant, [PpNext]_ppVars  PROVE PackageInvariant'
    OBVIOUS
  <2> USE DEF PackageInvariant
  <2>1. CASE PpNext
    <3>1. PpTypeOK'
      BY <2>1, StepHasEffect
    <3>2. PICK p \in Procs : PackageStep(p)
      BY <2>1, StepHasEffect
    <3>3. StagedPackages' /\ SessionsOpen' /\ OpenKnows'
      BY <3>1, <3>2, StagedStep, SessionsStep, OpenStep
    <3>4. NoHalfPackage' /\ AckedStands' /\ ExportAlone' /\ ArchiveIsAState'
      BY <3>1, <3>2, WholeStep, AckedStep, ExportStep, ArchiveStep
    <3> QED  BY <3>1, <3>3, <3>4
  <2>2. CASE UNCHANGED ppVars
    BY <2>2
    DEF ppVars, PpTypeOK, StagedPackages, SessionsOpen, OpenKnows, NoHalfPackage,
        AckedStands, ExportAlone, ArchiveIsAState
  <2> QED  BY <2>1, <2>2
<1> QED  BY <1>1, InitPackage, PTL DEF PpSpec

\* Folders, sessions, commands, imports and the archive have their shapes: no
\* handler leaves a database with more in its main file than there is.
THEOREM PackageTypeCorrect == PpSpec => []PpTypeOK
<1>1. PackageInvariant => PpTypeOK
  BY DEF PackageInvariant
<1> QED  BY <1>1, PackageInvariantHolds, PTL

\* Creating, upgrading and restoring leave no half package under a name,
\* wherever a process stops (create_staged_package, import_project_backup).
THEOREM NoHalfPackageHolds == PpSpec => []NoHalfPackage
<1>1. PackageInvariant => NoHalfPackage
  BY DEF PackageInvariant
<1> QED  BY <1>1, PackageInvariantHolds, PTL

\* A sequence begins with itself.
LEMMA BeginsWithItself ==
    ASSUME NEW s \in Seq(Nat)
    PROVE  IsPrefix(s, s)
BY DEF IsPrefix

\* What a command acknowledged stays until someone overwrites it.
THEOREM AcknowledgedStays == PpSpec => []AcknowledgedSurvives
<1>1. PackageInvariant => AcknowledgedSurvives
  <2> SUFFICES ASSUME PackageInvariant, NEW n \in Names, acked[n] # << >>
               PROVE  /\ dir[n] # None /\ dir[n].db # None
                      /\ IsPrefix(acked[n], dir[n].db.rows)
    BY DEF AcknowledgedSurvives
  <2>1. dir[n] # None /\ dir[n].db # None /\ dir[n].db.rows = acked[n]
    BY DEF PackageInvariant, AckedStands
  <2>2. acked[n] \in Seq(Nat)
    BY DEF PackageInvariant, PpTypeOK
  <2> QED  BY <2>1, <2>2, BeginsWithItself
<1> QED  BY <1>1, PackageInvariantHolds, PTL

\* An export no other process disturbs copies a state of the project, although
\* it reads the two files of the database one after the other.
THEOREM UndisturbedArchiveIsAState == PpSpec => []ArchiveIsAState
<1>1. PackageInvariant => ArchiveIsAState
  BY DEF PackageInvariant
<1> QED  BY <1>1, PackageInvariantHolds, PTL

\* An upgrade of the package in x has its copy beside it.
UpgradedWithCopy(x) ==
    /\ dir[x] # None /\ dir'[x] # None
    /\ dir[x].db # None /\ dir'[x].db # None
    /\ dir[x].db.version = Old /\ dir'[x].db.version = Current
    => [version |-> Old, rows |-> dir[x].db.rows] \in dir'[x].copies

AllWithCopy ==
    /\ \A m \in Names : UpgradedWithCopy(m)
    /\ \A q \in Procs : UpgradedWithCopy(<<q, "creating">>) /\ UpgradedWithCopy(<<q, "restoring">>)

\* Whatever stays is not upgraded.
LEMMA KeptIsNotUpgraded == \A x : dir'[x] = dir[x] => UpgradedWithCopy(x)
BY VersionsAreOrdered DEF UpgradedWithCopy

LEMMA UpgradeStep ==
    ASSUME PpTypeOK, PpTypeOK', StagedPackages, OpenKnows,
           NEW p \in Procs, PackageStep(p)
    PROVE  AllWithCopy
<1>1. /\ \A x : dir'[x] = dir[x] => UpgradedWithCopy(x)
      /\ Old # Current /\ Idle.kind = "idle"
  BY KeptIsNotUpgraded, VersionsAreOrdered, CommandParts
<1>10. CASE BeginCreateEffect(p)
  BY <1>10, <1>1
  DEF BeginCreateEffect, AllWithCopy, NamesStay, NewStay, RestoredStay, OnlyNew, UpgradedWithCopy
<1>11. CASE \E n \in Names : BeginOpenEffect(p, n)
  BY <1>11, <1>1 DEF BeginOpenEffect, AllWithCopy
<1>12. CASE BeginImportEffect(p)
  BY <1>12, <1>1
  DEF BeginImportEffect, AllWithCopy, NamesStay, NewStay, RestoredStay, OnlyRestored,
      StagedPackages, UpgradedWithCopy, Holds
<1>13. CASE BuildEffect(p)
  BY <1>13, <1>1
  DEF BuildEffect, AllWithCopy, NamesStay, NewStay, RestoredStay, OnlyNew, StagedPackages,
      UpgradedWithCopy, Holds
<1>14. CASE PublishNewEffect(p)
  BY <1>14, <1>1
  DEF PublishNewEffect, AllWithCopy, NamesStay, NewStay, RestoredStay, OnlyNew, NameAndNew,
      UpgradedWithCopy
<1>15. CASE CopyBeforeEffect(p)
  BY <1>15, <1>1
  DEF CopyBeforeEffect, AllWithCopy, NamesStay, NewStay, RestoredStay, OnlyName, UpgradedWithCopy
<1>16. CASE MigrateEffect(p)
  BY <1>16, <1>1
  DEF MigrateEffect, AllWithCopy, NamesStay, NewStay, RestoredStay, OnlyName, UpgradedWithCopy,
      OpenKnows, Holds
<1>17. CASE BindEffect(p)
  BY <1>17, <1>1 DEF BindEffect, AllWithCopy
<1>18. CASE CloseEffect(p)
  BY <1>18, <1>1
  DEF CloseEffect, AllWithCopy, NamesStay, NewStay, RestoredStay, DatabaseMoves, OnlyName,
      UpgradedWithCopy
<1>19. CASE WriteEffect(p)
  BY <1>19, <1>1
  DEF WriteEffect, AllWithCopy, NamesStay, NewStay, RestoredStay, DatabaseMoves, OnlyName,
      UpgradedWithCopy
<1>20. CASE CheckpointEffect(p)
  BY <1>20, <1>1
  DEF CheckpointEffect, AllWithCopy, NamesStay, NewStay, RestoredStay, DatabaseMoves, OnlyName,
      UpgradedWithCopy
<1>21. CASE BeginExportEffect(p)
  BY <1>21, <1>1 DEF BeginExportEffect, AllWithCopy
<1>22. CASE CopyFileEffect(p)
  BY <1>22, <1>1 DEF CopyFileEffect, AllWithCopy
<1>23. CASE DropOldArchiveEffect(p)
  BY <1>23, <1>1 DEF DropOldArchiveEffect, AllWithCopy
<1>24. CASE PublishArchiveEffect(p)
  BY <1>24, <1>1 DEF PublishArchiveEffect, AllWithCopy
<1>25. CASE AdoptEffect(p)
  BY <1>25, <1>1
  DEF AdoptEffect, AllWithCopy, NamesStay, NewStay, RestoredStay, OnlyRestored, UpgradedWithCopy
<1>26. CASE RefusedEffect(p)
  BY <1>26, <1>1 DEF RefusedEffect, AllWithCopy
<1>27. CASE EmptyTargetEffect(p)
  BY <1>27, <1>1
  DEF EmptyTargetEffect, AllWithCopy, NamesStay, NewStay, RestoredStay, OnlyName,
      NameAndRestored, UpgradedWithCopy
<1>28. CASE PublishRestoredEffect(p)
  BY <1>28, <1>1
  DEF PublishRestoredEffect, AllWithCopy, NamesStay, NewStay, RestoredStay, OnlyRestored,
      NameAndRestored, UpgradedWithCopy
<1>29. CASE FailCommandEffect(p)
  BY <1>29, <1>1
  DEF FailCommandEffect, AllWithCopy, NamesStay, NewStay, RestoredStay, OnlyNew, UpgradedWithCopy
<1>30. CASE FailImportEffect(p)
  BY <1>30, <1>1
  DEF FailImportEffect, AllWithCopy, NamesStay, NewStay, RestoredStay, OnlyRestored,
      UpgradedWithCopy
<1>31. CASE CrashEffect(p)
  BY <1>31, <1>1
  DEF CrashEffect, AllWithCopy, NamesStay, NewStay, RestoredStay, OnlyFolders, UpgradedWithCopy
<1> QED
  BY <1>10, <1>11, <1>12, <1>13, <1>14, <1>15, <1>16, <1>17, <1>18, <1>19,
     <1>20, <1>21, <1>22, <1>23, <1>24, <1>25, <1>26, <1>27, <1>28, <1>29, <1>30, <1>31
  DEF PackageStep

\* No upgrade commits before its copy lies beside it, however many processes
\* open the project at once (create_pre_migration_backup, migrate).
THEOREM UpgradesKeepOldCopy == PpSpec => UpgradeKeepsOldCopy
<1>1. PackageInvariant /\ [PpNext]_ppVars =>
        [\A x \in Paths : UpgradedWithCopy(x)]_ppVars
  <2> SUFFICES ASSUME PackageInvariant, PpNext, NEW x \in Paths
               PROVE  UpgradedWithCopy(x)
    OBVIOUS
  <2>1. PpTypeOK /\ StagedPackages /\ SessionsOpen /\ OpenKnows
    BY DEF PackageInvariant
  <2>2. PICK p \in Procs : PackageStep(p)
    BY <2>1, StepHasEffect
  <2>3. AllWithCopy
    BY <2>1, <2>2, StepHasEffect, UpgradeStep
  <2>4. CASE x \in Names
    BY <2>3, <2>4 DEF AllWithCopy
  <2>5. CASE x \notin Names
    <3>1. PICK q \in Procs, f \in {"creating", "restoring"} : x = <<q, f>>
      BY <2>5 DEF Paths
    <3> QED  BY <2>3, <3>1 DEF AllWithCopy
  <2> QED  BY <2>4, <2>5
<1> QED  BY <1>1, PackageInvariantHolds, PTL DEF PpSpec, UpgradeKeepsOldCopy, UpgradedWithCopy

=============================================================================
