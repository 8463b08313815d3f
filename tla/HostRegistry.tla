----------------------------- MODULE HostRegistry -----------------------------
(***************************************************************************)
(* The small files the desktop keeps beside its projects: the recent       *)
(* projects (optimizer-host/src/recent_projects.rs), the trusted model     *)
(* endpoints (trusted_model_endpoints.rs) with their credentials in the    *)
(* secret store (secrets.rs), and the locale (user_config.rs).             *)
(*                                                                         *)
(* A registry is a list in memory behind a mutex, and a file.  An update   *)
(* changes the memory first and then replaces the file: the new list is    *)
(* written aside, the old backup removed, the file renamed to the backup,  *)
(* the new one renamed to the file.  Every step may fail, which undoes the *)
(* memory; the desktop may stop between any two.  Commands on endpoints    *)
(* run on threads of their own and take the mutex more than once.          *)
(*                                                                         *)
(* Abstractions.  An entry is its identity and its place: project id and   *)
(* directory, endpoint id and base URL; the locale is a list of at most    *)
(* one.  Writing the list aside is part of the first step, since a failure *)
(* there shows nowhere else.  The desktop is the only process (ADR 0021).  *)
(***************************************************************************)
EXTENDS Naturals, Sequences, SequencesExt

CONSTANTS
    Projects,       \* project ids
    Places,         \* directories of projects, base URLs of endpoints
    Tags,           \* locales
    MaxRecent,      \* MAX_RECENT_PROJECTS
    MaxEndpoints,   \* MAX_ENDPOINTS
    Threads,        \* threads that run commands on endpoints
    MaxMade,        \* bound: endpoints registered
    MaxUpdates,     \* bound: updates begun
    None            \* no file, no update

ASSUME LimitsArePositive == MaxRecent \in Nat \ {0} /\ MaxEndpoints \in Nat \ {0}

VARIABLES
    running,   \* the desktop is up
    memory,    \* the list of each registry
    disk,      \* its file and its backup
    update,    \* the update that holds its mutex
    call,      \* what the threads are doing
    secrets,   \* endpoints with a credential
    made,      \* endpoints registered so far
    updates,   \* updates begun so far
    restart,   \* history: the lists a restart may show
    bare,      \* history: registries an update left with no file but the one aside
    stray      \* history: credentials stored for an endpoint that was going, or
               \* whose endpoint went with both files

hrVars == <<running, memory, disk, update, call, secrets, made, updates, restart, bare, stray>>

-----------------------------------------------------------------------------
(* Values *)

Recent    == "recent"
Endpoints == "endpoints"
Locale    == "locale"
Registries == {Recent, Endpoints, Locale}

Entry(id, place) == [id |-> id, place |-> place]
Entries == [id : Projects \cup Nat \cup {Locale}, place : Places \cup Tags]
Lists == Seq(Entries)

\* An update before the backup is removed, the file renamed, the new one renamed.
Steps == {"written", "cleared", "staged"}
Update == [step : Steps, previous : Lists]

ASSUME NoneIsNothing == None \notin Lists \cup Update

IdsOf(list) == {e.id : e \in ToSet(list)}
PlacesOf(list) == {e.place : e \in ToSet(list)}

\* load_registry: the file, else the backup, else nothing.
Loaded(files) ==
    CASE files.main # None -> files.main
      [] files.main = None /\ files.backup # None -> files.backup
      [] OTHER -> <<>>

Distinct(list) ==
    \A i, j \in DOMAIN list :
        i # j => list[i].id # list[j].id /\ list[i].place # list[j].place

\* retain: the entries of a list that are kept, in their order.
Retain(list, kept) ==
    LET upTo[n \in 0 .. Len(list)] ==
            IF n = 0 THEN << >>
            ELSE IF list[n] \in kept THEN Append(upTo[n - 1], list[n]) ELSE upTo[n - 1]
    IN  upTo[Len(list)]

WithoutId(list, id) == Retain(list, {e \in ToSet(list) : e.id # id})

\* validate_entries of the two lists, validate_locale; a file that fails it keeps the
\* desktop from starting.
RecentLoads(list) == Len(list) <= MaxRecent /\ Distinct(list)
EndpointsLoad(list) == Len(list) <= MaxEndpoints /\ Distinct(list)
LocaleLoads(list) == Len(list) <= 1
Loads(r, list) ==
    CASE r = Recent    -> RecentLoads(list)
      [] r = Endpoints -> EndpointsLoad(list)
      [] r = Locale    -> LocaleLoads(list)

-----------------------------------------------------------------------------
(* Replacing the file of a registry *)

Unlocked(r) == running /\ update[r] = None

\* The mutex is taken, the memory changed, the list written aside.
BeginUpdate(r, list) ==
    /\ updates < MaxUpdates
    /\ updates' = updates + 1
    /\ memory' = [memory EXCEPT ![r] = list]
    /\ update' = [update EXCEPT ![r] = [step |-> "written", previous |-> memory[r]]]
    /\ restart' = [restart EXCEPT ![r] = {memory[r], list}]

\* A step failed: the memory is as before, the caller gets an error.
RollBack(r) ==
    /\ memory' = [memory EXCEPT ![r] = update[r].previous]
    /\ update' = [update EXCEPT ![r] = None]
    /\ restart' = [restart EXCEPT ![r] = {update[r].previous}]

At(r, step) == update[r] # None /\ update[r].step = step
Reaches(r, step) == update' = [update EXCEPT ![r].step = step]

ClearBackup(r) ==
    /\ At(r, "written")
    /\ \/ /\ disk' = [disk EXCEPT ![r].backup = None]
          /\ bare' = IF disk[r].main = None /\ disk[r].backup # None THEN bare \cup {r} ELSE bare
          /\ Reaches(r, "cleared")
          /\ UNCHANGED <<memory, restart>>
       \/ /\ disk[r].backup # None
          /\ RollBack(r)
          /\ UNCHANGED <<disk, bare>>
    /\ UNCHANGED <<running, call, secrets, made, updates, stray>>

RemovedFile(files) == [main |-> None, backup |-> None]   \* mutant
\* The file becomes the backup.
StagedFile(files) == [main |-> None, backup |-> files.main]

StagePrevious(r) ==
    /\ At(r, "cleared")
    /\ \/ /\ disk' = IF disk[r].main = None THEN disk
                     ELSE [disk EXCEPT ![r] = StagedFile(@)]
          /\ Reaches(r, "staged")
          /\ UNCHANGED <<memory, restart>>
       \/ disk[r].main # None /\ RollBack(r) /\ UNCHANGED disk
    /\ UNCHANGED <<running, call, secrets, made, updates, bare, stray>>

\* Recent projects and the locale drop the backup, if they can; endpoints keep it.
RecentPublished(files, list) == {[main |-> list, backup |-> None], [files EXCEPT !.main = list]}
EndpointsPublished(files, list) == {[files EXCEPT !.main = list]}

Publish(r) ==
    /\ At(r, "staged")
    /\ disk' \in {[disk EXCEPT ![r] = files] :
                    files \in IF r = Endpoints THEN EndpointsPublished(disk[r], memory[r])
                              ELSE RecentPublished(disk[r], memory[r])}
    /\ update' = [update EXCEPT ![r] = None]
    /\ restart' = [restart EXCEPT ![r] = {memory[r]}]
    /\ bare' = bare \ {r}
    /\ UNCHANGED <<running, memory, call, secrets, made, updates, stray>>

\* The last rename fails; the backup goes back, if it can.
PublishFails(r) ==
    /\ At(r, "staged")
    /\ disk' \in {disk, [disk EXCEPT ![r] = [main |-> @.backup, backup |-> None]]}
    /\ RollBack(r)
    /\ UNCHANGED <<running, call, secrets, made, updates, bare, stray>>

-----------------------------------------------------------------------------
(* Recent projects and the locale *)

OthersById(list, entry) == WithoutId(list, entry.id)   \* mutant
\* The entries a new one leaves.
Others(list, entry) ==
    Retain(list, {e \in ToSet(list) : e.id # entry.id /\ e.place # entry.place})

\* A project was opened or created; an error is ignored.
RecordProject(id, place) ==
    LET entry == Entry(id, place)
        list == <<entry>> \o Others(memory[Recent], entry) IN
    /\ Unlocked(Recent)
    /\ BeginUpdate(Recent, SubSeq(list, 1, IF Len(list) < MaxRecent THEN Len(list) ELSE MaxRecent))
    /\ UNCHANGED <<running, disk, call, secrets, made, bare, stray>>

RemoveRecent(id) ==
    /\ Unlocked(Recent)
    /\ id \in IdsOf(memory[Recent])
    /\ BeginUpdate(Recent, WithoutId(memory[Recent], id))
    /\ UNCHANGED <<running, disk, call, secrets, made, bare, stray>>

SetLocale(tag) ==
    /\ Unlocked(Locale)
    /\ BeginUpdate(Locale, <<Entry(Locale, tag)>>)
    /\ UNCHANGED <<running, disk, call, secrets, made, bare, stray>>

-----------------------------------------------------------------------------
(* Trusted endpoints and their credentials *)

Idle == [kind |-> "idle"]
Goes(t, c) == call' = [call EXCEPT ![t] = c]

RegisterEndpoint(place) ==
    /\ Unlocked(Endpoints)
    /\ Len(memory[Endpoints]) < MaxEndpoints
    /\ place \notin PlacesOf(memory[Endpoints])
    /\ made < MaxMade
    /\ made' = made + 1
    /\ BeginUpdate(Endpoints, Append(memory[Endpoints], Entry(made', place)))
    /\ UNCHANGED <<running, disk, call, secrets, bare, stray>>

\* remove_trusted_model_endpoint: look the endpoint up, delete its credential,
\* take it off the list.
BeginRemove(t, id) ==
    /\ Unlocked(Endpoints) /\ call[t] = Idle
    /\ id \in IdsOf(memory[Endpoints])
    /\ Goes(t, [kind |-> "remove", id |-> id, deleted |-> FALSE])
    /\ UNCHANGED <<running, memory, disk, update, secrets, made, updates, restart, bare, stray>>

KeepSecret(t) ==   \* mutant of DeleteSecret
    /\ call[t].kind = "remove" /\ ~call[t].deleted
    /\ Goes(t, [call[t] EXCEPT !.deleted = TRUE])
    /\ UNCHANGED <<running, memory, disk, update, secrets, made, updates, restart, bare, stray>>

\* Or the secret store fails, and the command with it.
DeleteSecret(t) ==
    /\ call[t].kind = "remove" /\ ~call[t].deleted
    /\ \/ secrets' = secrets \ {call[t].id} /\ Goes(t, [call[t] EXCEPT !.deleted = TRUE])
       \/ Goes(t, Idle) /\ UNCHANGED secrets
    /\ UNCHANGED <<running, memory, disk, update, made, updates, restart, bare, stray>>

RemoveEntry(t) ==
    /\ call[t].kind = "remove" /\ call[t].deleted
    /\ Unlocked(Endpoints)
    /\ \/ /\ call[t].id \in IdsOf(memory[Endpoints])
          /\ BeginUpdate(Endpoints, WithoutId(memory[Endpoints], call[t].id))
       \/ /\ call[t].id \notin IdsOf(memory[Endpoints])
          /\ UNCHANGED <<memory, update, updates, restart>>
    /\ Goes(t, Idle)
    /\ UNCHANGED <<running, disk, secrets, made, bare, stray>>

\* store_provider_secret: is the reference that of an endpoint?
BeginStore(t, id) ==
    /\ Unlocked(Endpoints) /\ call[t] = Idle
    /\ id \in IdsOf(memory[Endpoints])
    /\ Goes(t, [kind |-> "store", id |-> id])
    /\ UNCHANGED <<running, memory, disk, update, secrets, made, updates, restart, bare, stray>>

\* The endpoint was taken off the list, or its credential deleted, meanwhile;
\* or the list is being updated: of any endpoint, a little more than the race.
Going(id) ==
    \/ id \notin IdsOf(memory[Endpoints])
    \/ update[Endpoints] # None
    \/ \E t \in Threads : call[t].kind = "remove" /\ call[t].id = id /\ call[t].deleted

PutSecret(t) ==
    /\ call[t].kind = "store"
    /\ secrets' = secrets \cup {call[t].id}
    /\ stray' = IF Going(call[t].id) THEN stray \cup {call[t].id} ELSE stray
    /\ Goes(t, Idle)
    /\ UNCHANGED <<running, memory, disk, update, made, updates, restart, bare>>

DeleteProviderSecret(id) ==
    /\ Unlocked(Endpoints)
    /\ id \in secrets \cap IdsOf(memory[Endpoints])
    /\ secrets' = secrets \ {id}
    /\ UNCHANGED <<running, memory, disk, update, call, made, updates, restart, bare, stray>>

-----------------------------------------------------------------------------
(* Start and stop *)

Start ==
    /\ ~running
    /\ \A r \in Registries : Loads(r, Loaded(disk[r]))
    /\ running' = TRUE
    /\ memory' = [r \in Registries |-> Loaded(disk[r])]
    /\ restart' = [r \in Registries |-> {Loaded(disk[r])}]
    /\ stray' = IF Endpoints \in bare
                THEN stray \cup (secrets \ IdsOf(Loaded(disk[Endpoints])))
                ELSE stray
    /\ bare' = {}
    /\ UNCHANGED <<disk, update, call, secrets, made, updates>>

\* At any time: temporary files stay, nothing reads them.
Stop ==
    /\ running
    /\ running' = FALSE
    /\ memory' = [r \in Registries |-> <<>>]
    /\ update' = [r \in Registries |-> None]
    /\ call' = [t \in Threads |-> Idle]
    /\ UNCHANGED <<disk, secrets, made, updates, restart, bare, stray>>

HrInit ==
    /\ running = FALSE
    /\ memory = [r \in Registries |-> <<>>]
    /\ disk = [r \in Registries |-> [main |-> None, backup |-> None]]
    /\ update = [r \in Registries |-> None]
    /\ call = [t \in Threads |-> Idle]
    /\ secrets = {}
    /\ made = 0
    /\ updates = 0
    /\ restart = [r \in Registries |-> {<<>>}]
    /\ bare = {}
    /\ stray = {}

HrNext ==
    \/ Start
    \/ Stop
    \/ \E r \in Registries :
          ClearBackup(r) \/ StagePrevious(r) \/ Publish(r) \/ PublishFails(r)
    \/ \E id \in Projects : RemoveRecent(id) \/ \E place \in Places : RecordProject(id, place)
    \/ \E tag \in Tags : SetLocale(tag)
    \/ \E place \in Places : RegisterEndpoint(place)
    \/ \E id \in 1 .. made : DeleteProviderSecret(id)
    \/ \E t \in Threads :
          \/ \E id \in 1 .. made : BeginRemove(t, id) \/ BeginStore(t, id)
          \/ DeleteSecret(t) \/ RemoveEntry(t) \/ PutSecret(t)

HrSpec == HrInit /\ [][HrNext]_hrVars

-----------------------------------------------------------------------------
(* Properties *)

\* Whenever the desktop stops, it can start again: what it would read passes
\* the checks of the start.
RegistryLoads == \A r \in Registries : Loads(r, Loaded(disk[r]))

\* A restart shows the list as it was before the update that was under way or
\* as that update made it, never anything older, and never a list that a
\* failed update had undone; except after an update that began with nothing
\* but the backup of an interrupted one, which it removes first.
RestartShowsLastList ==
    \A r \in Registries \ bare : Loaded(disk[r]) \in restart[r]

\* A credential belongs to an endpoint that the next start knows, unless it
\* was stored while the endpoint was being removed (or the list updated for
\* another one) or the list was lost.
SecretHasEndpoint ==
    Endpoints \notin bare => secrets \ stray \subseteq IdsOf(Loaded(disk[Endpoints]))

=============================================================================
