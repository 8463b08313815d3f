# A TLA+ model of Optimizer System

Optimizer System is a local desktop program for writing long texts with the
help of language models.  This directory models its core in TLA+: the versioned
project in its SQLite store and the commands of the Rust host that change it;
the summary queue; the context of an AI operation, its authorization, its
streaming with retries and its record; the review of what it proposes; the
page's autosave; the project package, its backups and upgrades; and the small
files of the desktop.  TLC checks the models on small instances; TLAPS proves
the safety properties of the store, the queue, the audit, the review, the model
gateway, the runner, the autosave, the package and the registries for every
instance.

- [The system](#the-system)
- [Modules](#modules)
- [From code to model](#from-code-to-model)
- [Runs](#runs)
- [Where the code and its documents disagree](#where-the-code-and-its-documents-disagree)
- [Proofs](#proofs)
- [What is not modelled](#what-is-not-modelled)
- [Plan](#plan)

## The system

A project is a directory with a manifest and one SQLite database.  A Tauri
process serves one page and holds at most one open project behind a mutex; its
commands run one at a time.  Nothing stops a second process from opening the
same package, and the database's locks and the compare-and-swaps of the store
are then all there is.

| Component | Source | State | Operations | What makes it correct |
|---|---|---|---|---|
| Versioned project store | `optimizer-store/src/store.rs`, `store/documents.rs`, `store/commits.rs`, `store/projects.rs` | project and branch head, commits, documents, blocks, edit journal, snapshots | create document, document batch, block edit, checkpoint, restore | active documents form a forest; the head's root hash binds the content; history is linear and immutable; revisions never name two states |
| Host workspace commands | `optimizer-host/src/workspace_commands*` | none of its own: what a handler has read | rename, reorder, indent, archive, restore, save, checkpoint, apply a review | the root hash a command computed in advance is right for the state it is applied to |
| Summary queue and worker | `store/knowledge.rs`, `summary_worker.rs` | invalidations (source commit per scope), summary records | enqueue with every mutation, refresh a batch, take ready summaries | no change goes unqueued; no stale summary consumes an invalidation; the queue drains |
| Operation audit store | `optimizer-store/src/operation.rs`, triggers of `migration.rs` | runs, lifecycle, attempts, artifacts, review head and log | persist a bundle, append a review event | current state = end of history; append only; run and review agree |
| Operation command host | `operation_commands.rs` | none | decode, refuse secrets, call the audit store | what is recorded is what was sent |
| AI review | `workspace_commands_review.rs`, `patch-engine/src/review.ts`, `review.js` | the page's session, the review log, candidate branches | open, decide, reject, apply, branch | an applied text is the base with the accepted hunks, once; page, host and log agree on what is decided |
| Operation runner | `operation-runner/src`, `kernel/src/operation-state-machine.ts`, `operation-client.js` | lifecycle, attempts, abort signal | compile, stream with retries, validate, build the bundle | every run that ends is recorded as it ended; no request repeated once a response started |
| Model authorization | `model_gateway*`, `confirmed_context.rs` | authorizations, active requests, the state of each stream | authorize, execute, cancel, close | one use, within 120 s, at most 32, none for a closed project or, with one process, an old head; a stopped stream ends |
| Context compiler | `kernel/src/context-compiler.ts`, `operation_context.rs`, `confirmed_context.rs` | knowledge items, style samples | collect, compile, confirm a packet | page and host make the same packet; budgets hold and are used; what is private or stale does not go out |
| Patch engine, editor bridge | `patch-engine/src`, `editor-bridge/src` | none | diff, propose, plan a transaction | a diff applied to its source gives the replacement; all steps of a transaction or none |
| Page and autosave | `workspace.js`, `main.js`, `drawers.js` | pending texts, timers, saves under way, the draft of a conflict | type, debounce, save, conflict, flush before a command | what was typed is saved or kept as a draft; a page alone has no conflict; everything is saved in the end |
| Tauri shell | `src-tauri/src/lib.rs` | session, registries, model host | every command | session mutex; close ends what runs |
| Package and backup | `project_package*`, `workspace_commands_backup.rs`, `migration.rs` | folders, database and log files, copies, archives | create, open, upgrade, export, import | nothing half written stands under a name; nothing acknowledged is lost; an archive is a state of the project |
| Registries | `recent_projects.rs`, `trusted_model_endpoints.rs`, `secrets.rs`, `user_config.rs` | lists in memory, their files and backups, credentials | remember, register, remove, store a secret | the next start reads the last list; no credential without its endpoint |

The page calls host commands over IPC; a handler makes several reads, each a
statement of its own, and then calls one store mutation, an IMMEDIATE
transaction.  The store enqueues summary invalidations in the transaction that
makes the commit.  The page, when idle, asks the host to refresh a batch of
summaries.  A finished AI run is sent to the audit store as one bundle; its
proposal is then reviewed by events that each compare and swap a revision, and
applied by one transaction that edits the block, commits and appends the last
event.

What is hard here: reads before the transaction, with another process in
between; long sequences of edits, archives, restores and rollbacks that take
the same row through different code paths; the worker's stale reads and its
death in the middle of a batch; two windows reviewing the same proposal;
cancellation and retries of model requests; two compilers in two languages that
must agree; typing into a text whose save is under way; files replaced rename
by rename, and a desktop that stops between two of them.  `PROJECT.json` lists
each hazard at its line with the properties aimed at it.

## Modules

| Module | What it is |
|---|---|
| `OperationAudit` | abstract: a run has one current state and a history it ends; recorded once, settled by the reviewer |
| `OperationStore` | the audit tables with their validations and triggers; implements `OperationAudit` |
| `MCOperationStore` | the bundles TLC tries: what a runner sends, and each with one field wrong |
| `OperationStore_proofs` | the inductive invariant of `OperationStore`, its theorems and the refinement |
| `ProjectStore` | documents, blocks, commits, journal, checkpoints, queue; the store's transactions and the host commands built on them |
| `Workspace` | composes `ProjectStore` with the interleaved reads and writes of several processes |
| `MCWorkspace` | symmetry of the processes |
| `Workspace_proofs` | what each transaction and command keeps of the invariant of the store; a handler that writes has read the present state; what a summary is made from, and the worker's invariant; the theorems about store, queue and worker |
| `SummaryWorker` | composes `ProjectStore` with the summary cache and the worker, its crashes, and another process |
| `ModelGateway` | the maps of waiting and running requests, the session mutex, the watchdog: authorize, execute, cancel, close |
| `MCModelGateway` | symmetry of requests and threads |
| `OperationRunner` | the page's runner and provider over `ModelGateway`, its bundle recorded in `OperationStore`: one operation with aborts, retries and its end |
| `OperationRunner_proofs` | the invariant of the gateway's two maps and its mutex; the invariants of the page and of the host behind it, over those of gateway and audit; the theorems about gateway and runner |
| `ContextPacket` | candidates from the host, the page's compiler and the host's own, the confirmation that authorizes a request, the command that then executes it; the project changes in between |
| `MCContextPacket` | the chapters, lengths and questions TLC tries |
| `ContextPacket_proofs` | lists in an order and sums of lengths; what the loops of the page's compiler keep true, that the host's go the same way; the invariant of an operation, and the theorems |
| `PatchHunks` | operators: hunks, decisions on them with their atomic groups, the replay of decisions, the text that comes out, over code units |
| `ReviewSession` | composes `OperationStore`, `ProjectStore` and `PatchHunks`: pages that open, decide, apply, branch and reject one proposal through host handlers |
| `MCReviewSession` | texts, proposals and symmetry |
| `ReviewSession_proofs` | what carrying out hunks and replaying decisions compute, for texts and logs of any length; the invariant of the review, and the theorems |
| `Autosave` | one page's timers, saves, conflicts, flushes and commands; the host that answers; another window |
| `MCAutosave` | the environments TLC tries |
| `Autosave_proofs` | where a text is at each moment, and the theorems |
| `ProjectPackage` | folders, databases with their logs, upgrades, archives; any step may fail, any process may stop |
| `ProjectPackage_proofs` | what each step does to a folder, and the theorems |
| `HostRegistry` | three lists in memory and on disk, replaced by renames; credentials and the threads that store and remove them |
| `HostRegistry_proofs` | what is left of a list some entries are taken from, what the files tell at each step of an update, and the theorems |
| `MCProjectPackage`, `MCHostRegistry` | symmetry |

Operators named `...` under a comment "Mutant of X", or marked `\* mutant`, are
faulty variants of the definition X; no module uses them.  Each property has at
least one, so that one can see it is able to fail.

`ProjectStore` is a library of transactions and commands: it has no next-state
relation of its own.  `Workspace`, `SummaryWorker` and `ReviewSession` drive it.

## From code to model

`PROJECT.json` maps each definition to the lines it stands for.  In general:

- One IMMEDIATE transaction is one action.  A call that returns an error rolls
  back and changes nothing: it is a disabled action.
- A row set is a function or a sequence of records: `doc[d]`, `block[d]`,
  `commits`, `journal[d]`, `queue[scope]`, `run[r]`, `review[p]`.  `deleted_at`
  is `status = "archived"` of a document and `active = FALSE` of a block: the two
  differ, since archiving a document leaves its blocks' rows alone and only a
  restored checkpoint marks them.
- A host command takes `seen`, the state its handler has read.  `ProjectStore`
  passes the present state (`Now`); `Workspace` passes what a process read over
  several steps, in the handler's order: project row, documents, blocks.
- `apply_document_batch` gets the rows the handler computed; the model passes
  the same rows and the set of the mutated ones, checks their revisions, the
  final tree and the head, and bumps revisions as the store does.
- `restore_snapshot` is one action: archive what the snapshot lacks, rewrite what
  both have, revive the rest, then edit the texts that differ, and commit.
- `surplus` is a history variable of `ProjectStore`, which no action reads: the
  blocks that a restore has shown although its checkpoint does not have them
  (*Surplus blocks* below).
- The parallel tables `branch` and `project` always move together in the code's
  transactions; they are the one record `project`.
- In `ModelGateway` an access of a map under its mutex is one action; a command
  that holds the session mutex throughout is one action.  `cancel` takes no
  session mutex and looks at two maps one after the other: two actions.
  `Take` holds the session mutex (`session.holder`) until `Register` or
  `PrepareFails`, as the guard in `execute_authorized_model_stream` does.
- In `OperationRunner` what the page runs between two awaits is one action, and
  `op.await` names the await.  Commands sent to the host are separate actions
  (`HostAuthorizes`, `HostTakes`, ...), cancel commands wait in `asked`.  The
  runner takes the events of a stream in the order the host sent them, before
  the command's answer: the code relies on Tauri's channel for this.
- In `ContextPacket` the two compilers are two sets of operators, translated one
  from TypeScript and one from Rust, and never share the step that selects.
  `authorize_model_request` and `execute_authorized_model_stream` are two actions,
  since the page awaits the first before it sends the second.
- In `ReviewSession` a host handler that reads with several statements is as many
  actions (`BeginApply`, `ReadNext`, `ApplyReviewed`), and its early returns are
  checked at its last step, since they change nothing before.  Each page is the
  window of its own process, so no mutex orders them.
- In `Autosave` a save is at one of the stages of its promise: sent, stored or
  refused by the host, and then listing the history or loading the workspace.
  What the page does when an answer arrives, up to the next await, is one action.
  `flushAll` is the stage "flushing" of `command`, which waits for the saves of
  all blocks.
- In `ProjectPackage` a step on a staging folder, whose name no one else knows, is
  joined to the step that makes it visible.  `Crash` ends one process between any
  two steps, `FailCommand` and `FailImport` are a file operation that fails.
- In `HostRegistry` an update changes the memory, then takes the renames of
  `replace_registry` one at a time; a failure undoes the memory.

Abstractions of data, none of which a property looks through:

- A content hash is the text it hashes, and a root hash the state it binds
  (`View`: metadata of active documents, texts of active blocks).
- Order keys contain a fresh UUID namespace; a key is the number of the commit
  that assigned it.  Places among siblings are not kept, so indenting may choose
  any sibling as the new parent where the code takes the preceding one.
- A document has the one block it was created with.  The host has no command
  that adds, moves, deletes or locks a block.
- A run has at most one artifact and a proposal is named after its run.
- In `Autosave` texts are numbers, each typed text a new one or the one last
  loaded.  In `ContextPacket` the content of a candidate is its source and
  version, its length a number of tokens per kind.  In `ProjectPackage` a
  transaction is the project id it was made under, and a database the spread of
  its transactions over main file and log.
- A commit of `ModelGateway` is a number.  Time is the actions `Expire` and
  `TimeOut`.  Transport, protocol and listener errors are one failure, which is
  retriable or not as the code may decide.  The n-th attempt uses request id n.
- Attempts keep what their validation reads: outcome, whether a response had
  started, whether failure columns are set, retriable, delay, and one flag
  (`bounded`) for all the values a provider chooses and the store bounds: response
  id, HTTP status, `Retry-After`.  A bundle has such a flag for the token counts
  and the message of the failure.  In `OperationRunner` the provider chooses the
  flags (`FromProvider`), since neither host nor page enforces these bounds.
- `ContextPacket` has one order of source references.  The page compares them by
  `localeCompare` (`context-compiler.ts:56` and 214), the host by their bytes
  (`confirmed_context.rs:412` and 483); for the hexadecimal ids that are generated
  the two agree in most locales, and nothing is said of the others.
- `ModelGateway` is one process.  The session mutex does not stop a second process
  with the same package, which may commit between the comparison of the head and
  the registration of a request; `HeadIsAuthorized` is about the first one only.
- An import that empties a folder ends, in `ProjectPackage`, the sessions that have
  it open (`Evicted`).  The code closes none: such a window goes on with unlinked
  files, or the removal fails.  Of such a folder the properties ask nothing.

## Runs

| Run | Bounds | States | Shows |
|---|---|---|---|
| `operation_store` | 1 run, 2 commits, 1 hunk, 21 bundles (16 of them invalid), 5 review events | 6 344 | state, lifecycle, review head and log agree; refines `OperationAudit` |
| `workspace` | 2 processes, 3 documents, 5 commits, 1 title, 2 texts; two handlers at once up to the second commit | 1 011 820 | compare-and-swap makes separate reads one consistent read: root hash, forest, revisions and queue follow the content |
| `summary_worker` | 2 documents, 3 commits, batch 2, 1 crash | 145 636 | nothing is forgotten; the queue drains; alone, a ready summary is right about its own scope |
| `context_packet` | 2 chapters, 1 knowledge item, 1 style sample, 3 projects of different lengths, 2 questions, 3 commits, 2 attempts, 8 entries per packet | 4 097 298 | page and host make the same packet; what fits goes in; what is authorized is current, what goes out still is as far as the head tells |
| `model_gateway` | 3 request ids, 2 threads, 4 authorizations, 2 waiting at most, 3 heads | 1 113 436 | nothing leaves for a closed project or an old head; stopped means stopped |
| `operation_runner` | 1 operation, 3 attempts, 1 thread, 2 heads, 2 unread events | 105 048 | what is recorded is true, what is sent to be recorded is accepted but for two named cases; nothing is left in the host; the operation ends |
| `review_session` | 2 pages, 1 proposal of 2 or 3 hunks, 2 texts, 3 commits, 3 review events | 332 245 | page, host and log agree on the decisions; the text applied or branched is the one decided on |
| `autosave` | 2 blocks, 4 environments, 3 texts typed, 2 edits of another window, 1 failure, 1 command | 559 705 | what was typed is kept; no conflict alone; a checkpoint has it all; everything settles |
| `project_package` | 2 processes, 1 name, 2 transactions per database, 3 ids, 2 commands at once | 1 764 137 | nothing half written, nothing acknowledged lost, archives and copies whole |
| `host_registry` | 2 projects, 2 places, lists of 2, 2 threads, 2 endpoints made, 4 updates | 137 027 | the next start reads a valid list, and the last one; credentials have endpoints |
| `backup_restores`, `host_context_is_well_formed` | as `project_package` with one process, as `context_packet` | | the disagreements below |

Why these bounds.  Five review events in the store are enough for decision,
conflict, rebase, decision and apply, the longest way without repetition; pages
never send conflict or rebase, so three do for two of them.  Runs of different ids
share no row, so one run suffices for TLC, and the proofs cover any number. Three
documents make a chain whose middle can be archived or moved; five commits, the
first of which makes the project, allow two creations, an archive and a rollback
to a checkpoint taken at any point, or edit, archive, rollback, edit.  Two
processes are the least that interleave; a third only repeats what the second
does, since each handler compares the head with what it read itself.  `MaxShared`
lets a handler begin beside another one while the history is short: what the race
comes down to does not depend on how long the history is, and behind it each
handler still reads and writes in its separate steps.  A batch of two with three
kinds of scope leaves scopes outside the batch.  Two executing threads interleave
an execution with the next one of the same request id, four authorizations fill a
map of two, leave one refused and replace one that was used; capacity 2 stands for
32.  Three attempts are the runner's maximum (the desktop's policy is two).  The
lengths of `MCContextPacket` exceed single shares, fill the budget exactly after
borrowing, and exceed the whole budget; eight entries stand for 2 048, and some
packets of that project have nine.  The proposals of `MCReviewSession` hold
an atomic group around an insertion that touches both its neighbours, an insertion
before a deletion at the same place, and characters of two code units.  Three
texts typed are one under way, one pending and one after the answer; two edits of
the other window make the second conflict; the failing call and the commands
differ by environment, because all of them together only hide each other.  Two
rows per database are one in the main file and one in the log, three ids are a
project, its restored copy and one more.  A list of two is full with one entry to
push out.

The bounds that are not the program's are `MaxDocuments`, `MaxCommits`,
`MaxShared`, `MaxReviewRevision`, `MaxCrashes`, `MaxAuthorizations`, `MaxHead`,
`MaxRevision`, `MaxQueue`, `MaxTyped`, `MaxEdits`, `MaxFails`, `MaxCommands`,
`MaxRows`, `MaxIds`, `MaxBusy`, `MaxMade` and `MaxUpdates`.  When they are used up
the model stops, which is why the cfgs switch deadlock checking off, all but that
of `model_gateway`.

The properties:

- `OpTypeOK`: shapes of the audit rows.  The other modules state theirs as
  `WsTypeOK`, `MgTypeOK` and so on, which are proved.
- `ReviewHeadReplaysLog`, `RunFollowsReview`: what `verify_operation_invariants`
  queries when a project is opened, as invariants of every reachable state.  What
  it queries of the lifecycle (`RunStateEndsLifecycle`) is proved, and checked as a
  part of `AuditSpec`.  `OutcomeMatchesRecords` is a part of their proof.
- `AppliedFollowsDecision`: across the history of a review, whatever command is
  sent.  `AuditSpec`: the refinement; nothing recorded changes.
- `Reopens`: what `verify_invariants` queries, for the project's tables.
- `ActiveDocumentsFormForest`: also after rollbacks, which do not check it.
- `HeadRootIsContent`, `DocumentRevisionNamesState`, `ChangeIsQueued`: the
  agreement of what one transaction writes to several tables, with values computed
  from reads made before it.  `HeadRootIsContent` and the part of `ChangeIsQueued`
  about blocks, like `NothingIsForgotten` and `ReadySummaryKnowsItsScope`, leave
  out the blocks in `surplus`.  Within the bounds of the runs there are none: the
  shortest way to one takes seven commits.  TLC finds it for
  `MaxDocuments = 2`, `MaxCommits = 8`, `MaxShared = 0` and one process, where the
  five properties as stated hold of all 9.9 million states; the proofs cover
  histories of any length.
- `ReadySummaryKnowsItsScope`, `NothingIsForgotten`, `QueueDrains`: the queue's
  promises.  "Known" is about the scope's own metadata and text; of chapters
  below a ready summary may be out of date (below).
- `UndisturbedPacketIsConfirmed`: the page's compiler and the host's give the
  same packet.  `NothingMoreFits`: an excluded candidate would not have fitted.
  The former is about packets within the limit of entries (`FewEntries`).
  `AuthorizedIsCurrent`: a request that is authorized, also a repeated one, holds
  what the project holds.  `SentIsCurrent`: what is then executed still does, as
  far as the head tells; the status of items does not move the head, and is left
  out.
- `ClosedProjectRunsNothing`, `HeadIsAuthorized`: why the session mutex is held
  from the use of an authorization to the registration of its request.
- `OneHolderPerRequest`, `StoppedEndsCancelled`: one id is never waiting and
  running, or running twice; a cancel that won the race decides the outcome.
- `BundleIsAccepted`: the contract between the runner's TypeScript and the
  store's Rust validation.  It has two exceptions, whose bundles the store refuses.
  One is a run cancelled while its proposal is hashed, since the transition tables
  differ; this takes hashing or the validation of the proposal to fail.  The other
  (`OutOfBounds`) is a provider's value beyond a bound of the store, which is a
  disagreement described below.
- `NothingLeftBehind`, `AuditTellsRequests`: page and host together, whenever the
  user aborts.  The second is about runs that are recorded.  `OperationEnds`: liveness.
- `StatusMatchesReplay`, `PageAtHeadShowsLog`: the store takes the status a page
  reports on trust; it is what the host's replay of the log gives, and a page at
  the head's revision shows just that.  `AppliedIsWhatWasDecided`,
  `BranchKeepsDecidedText`: what the transactions that join log, commit and block
  write, compared with a reading of the decisions written independently of the
  order in which hunks are carried out.
- `TypedTextIsKept`, `NoConflictWithItself`, `CommandSeesWhatWasTyped`,
  `EverythingSettles`: promises of ADR 0013.  `Orderly` names the cases the
  promise does not survive (below).
- `NoHalfPackage`, `AcknowledgedSurvives`, `ArchiveIsAState`,
  `UpgradeKeepsOldCopy`: over crashes and failures at every step and another
  window; `removing` names the folders a user allowed an import to empty, `alone`
  an archive made while no other process wrote.
- `RegistryLoads`, `RestartShowsLastList`, `SecretHasEndpoint`: the last two name
  the one case they exclude (`bare`, and a credential stored during the removal
  of its endpoint; `Going` counts any update of the list as one).

Fairness.  Three properties need it.

- `QueueDrains`: `WF(Refresh)`, the worker goes on while it can.  The page asks
  for a refresh 800 ms after it becomes idle and again after an error, with a
  delay that grows to at most 30 s (ADR 0023, decision 8), and the host's refresh
  is a loop without waiting.  Writers and crashes are not fair, and the bounds
  stop them; so the property says that the queue drains once nobody writes.
- `OperationEnds`: the host's own steps go on, the watchdog's `recv_timeout`
  returns (`WF(TimeOut)`), a transport returns once its request handle was
  closed (`WF(EndStopped)`; elsewhere than on Windows it returns at once), the
  page's promises are settled and its commands run.  The provider may be silent
  for ever.  Nothing is assumed of the user, which is why the property starts when
  the packet is confirmed: the dialog before it waits as long as the user does.
- `EverythingSettles`: `WF(SaveGoesOn(b))` and `WF(CommandGoesOn)`: timers fire
  and the host answers every call, if only with a failure.  Typing, the other
  window and the user's answer to a conflict are not fair.  It leaves out the
  environment in which the workspace cannot be loaded.

All other properties are safety properties.

## Where the code and its documents disagree

Two are runs that TLC ends with a counterexample.

- **A backup of a project that used AI cannot be restored** (`backup_restores`).
  An import gives the project a new id and takes away the triggers named
  `_immutable_` to write it into every table; the guards of summary records and
  of operation runs have other names and abort the change.
- **A summary made before the last commit stops every AI operation on its
  chapter** (`host_context_is_well_formed`).  The page wants every candidate to
  carry the head commit; a summary carries the commit its scope last changed in,
  by design (ADR 0020, decision 6).

The following happen in the models too.  The properties are stated without them,
and say where.

- *Revived blocks.*  A rollback that revives a block overwrites its text and keeps
  its revision, so the journal's last row no longer ends in the text (ADR 0003,
  ADR 0016 decision 4).  `RestoredBlock` of `ProjectStore` does as the code does.
- *Surplus blocks.*  An archived document keeps its block's row as it was when it
  was put away by a batch, and loses it when a rollback put it away; a restore
  compares its checkpoint with the blocks of active documents only
  (`read_active_snapshot_blocks`, `store.rs:1005`; `commits.rs:352` and 415-444).
  So a block the checkpoint does not have may come back with its document: add a
  chapter, roll back behind it, bring it back from the archive (now without its
  text), take a checkpoint, roll back to one that has the text, archive the
  chapter, and roll back to that checkpoint.  The new commit reuses the
  checkpoint's root hash (`commits.rs:735-745`), which does not bind the block
  shown, and the block's summary is not queued (ADR 0016, decision 3: what is there
  in excess is archived; ADR 0019, decision 5: the root binds each active block).
- *Chapters without text.*  If a rollback had put a chapter away, its block is
  marked deleted; restoring the chapter from the archive brings the document back
  without it (ADR 0020, decision 8).
- *Summaries of subtrees.*  A document's summary covers its subtree, an edit
  queues only the edited block, its chapter and the project (ADR 0020, decision 6;
  ADR 0023, decisions 2 and 3).
- *Two processes and the queue.*  A stale summary may consume a new invalidation,
  since the worker reads texts before tokens; the premise `~shared`.
- *A cancel that misses.*  Between the use of an authorization and the
  registration of its request neither map has it; a cancel command in between
  answers `cancelled: false` and the request goes out (ADR 0018, decision 7, which
  closes this window for `close_project` only).  `OperationEnds` and
  `NothingLeftBehind` show what the page makes of it: the operation ends, but only
  at the next event or at the time-out.  An abort during the await that hashes the
  proposal comes after the runner's last look at the signal, so the run goes on to
  review.
- *A provider's answer that costs a run its audit.*  The `Retry-After` of a failed
  attempt is recorded as the provider gave it (`runner.ts:404`; `parse_retry_after`,
  `model_gateway_stream.rs:671`, has no limit), and the store refuses the whole
  bundle above one day (`operation.rs:1324`); the page swallows the refusal
  (`operation-client.js:254`).  The same goes for a response id of more than 512
  characters (`operation.rs:1309`), and for a token total below input plus output
  (`operation.rs:1421`, `model_gateway_stream.rs:566`), which refuses the bundle of
  a successful run too.  ADR 0029, decisions 6 and 7, says that what is recorded of
  an attempt is bounded, and that each new execution is recorded with its attempts.
- *Items between authorization and execution.*  The execution of a request
  compares project and head only (`model_gateway.rs:713`).  A knowledge item or a
  style sample that is archived or rejected after the authorization, which lives
  for up to 120 s, still goes out.
- *Too many entries.*  A packet with more than 2 048 items and exclusions is
  refused each time it is tried (`confirmed_context.rs:216`; ADR 0026, limits); the
  page's compiler does not know the limit.
- *Autosave.*  A failed save puts its text back over what was typed meanwhile; a
  workspace that cannot be loaded in a conflict leaves newer text without timer or
  save; after a conflict the newer pending text replaces the other window's
  without a question; a second conflict, another document or a late answer of a
  rename discards the draft (ADR 0013, decisions 4 and 5).
- *Files.*  After a restart that read a backup, the next update removes that
  backup before it has another file.  The old archive is removed before the new
  one is renamed to its place.  An import told to overwrite does not ask whether
  another window has the folder open.

## Proofs

Each theorem is about the specification TLC checks, for every value of its
constants that satisfies the assumptions; in particular for any number of
documents, commits, processes, requests, threads, blocks, texts, windows and
folders, and for logs and histories of any length.

| Module | Theorem | States |
|---|---|---|
| `OperationStore_proofs` | `OpTypeCorrect`, `RunStateIsEndOfLifecycle`, `ReviewHeadIsReplay`, `RunAgreesWithReview` | `OpTypeOK`, `RunStateEndsLifecycle`, `ReviewHeadReplaysLog`, `RunFollowsReview` |
| | `OutcomeIsRecorded`, `AppliedAfterDecision` | `OutcomeMatchesRecords`, `AppliedFollowsDecision` |
| | `ImplementsAudit` | `AuditSpec`: the audit tables implement `OperationAudit` |
| `Workspace_proofs` | `WsTypeCorrect`, `HeadBindsContent`, `DocumentsStayForest`, `ProjectReopens` | `WsTypeOK`, `HeadRootIsContent`, `ActiveDocumentsFormForest`, `Reopens` |
| | `RevisionNamesState`, `ChangesAreQueued` | the action properties `DocumentRevisionNamesState`, `ChangeIsQueued` |
| | `SwTypeCorrect`, `NoInvalidationIsLost`, `ReadyMeansPresent` | `SwTypeOK`, `NothingIsForgotten`, `ReadySummaryKnowsItsScope` |
| `ReviewSession_proofs` | `ReviewInvariantHolds`, `ReviewTypeCorrect` | `ReviewInvariant`: what log, pages, handlers, texts and branches have in common at every step; `RvTypeOK` |
| | `ReviewsOpenAgain`, `CurrentPageShowsLog`, `AppliedAsDecided`, `BranchedAsDecided` | `StatusMatchesReplay`, `PageAtHeadShowsLog`, `AppliedIsWhatWasDecided`, `BranchKeepsDecidedText` |
| | `ApplyIsSpliced` | carrying out valid hunks one by one gives the text with each of them replaced, `Apply = Spliced` |
| `OperationRunner_proofs` | `MgTypeCorrect`, `ClosedRunsNothing`, `HeadStaysAuthorized`, `OneHolder`, `StoppedIsCancelled` | `MgTypeOK`, `ClosedProjectRunsNothing`, `HeadIsAuthorized`, `OneHolderPerRequest`, `StoppedEndsCancelled` |
| | `RnTypeCorrect`, `BundlesAreAccepted`, `NothingIsLeftBehind`, `AuditTellsEveryRequest` | `RnTypeOK`, `BundleIsAccepted`, `NothingLeftBehind`, `AuditTellsRequests` |
| | `RunnerUsesGateway` | the composition takes only the gateway's steps: `MgInit /\ [][MgNext]_mgVars` |
| `ContextPacket_proofs` | `PacketInvariantHolds` | `PacketInvariant`: shapes, and what a packet promises from the moment it is made |
| | `CompilersAgree`, `PacketsAreFull` | `UndisturbedPacketIsConfirmed`, `NothingMoreFits` |
| | `ContextInvariantHolds` | `ContextInvariant`: `PacketInvariant`, and what an authorized packet promises while the head stays |
| | `AuthorizedContextIsCurrent`, `SentContextIsCurrent` | the action properties `AuthorizedIsCurrent`, `SentIsCurrent` |
| `Autosave_proofs` | `AutosaveTypeCorrect`, `TypedTextKept`, `NeverConflictsWithItself`, `CheckpointSeesTyped` | `AsTypeOK`, `TypedTextIsKept`, `NoConflictWithItself`, `CommandSeesWhatWasTyped` |
| `ProjectPackage_proofs` | `PackageTypeCorrect`, `NoHalfPackageHolds`, `AcknowledgedStays`, `UndisturbedArchiveIsAState` | `PpTypeOK`, `NoHalfPackage`, `AcknowledgedSurvives`, `ArchiveIsAState` |
| | `UpgradesKeepOldCopy` | the action property `UpgradeKeepsOldCopy` |
| `HostRegistry_proofs` | `RegistryInvariantHolds` | `RegistryInvariant`: what lists, files and credentials have in common at every step |
| | `DesktopStarts`, `LastListIsShown`, `NoSecretIsLeft` | `RegistryLoads`, `RestartShowsLastList`, `SecretHasEndpoint` |

Assumptions, all evaluated by TLC in the runs of their modules:

- `BundlesAreBundles` (what callers send decodes to a bundle), `CommitsHaveNoNull`,
  `NoThreadIsNone`, `NoneIsNothing`, `GuardsAreBoolean`, `EnvironmentsAssumption`:
  constants are of their kind, and the values that stand for nothing are no values.
- `DocumentBound`, `CommitBound`, `RevisionBound`, `BoundsAreNatural`,
  `TypedIsBounded`, `WorkerConstants`: bounds are natural numbers.
- `SomethingToWrite` (there is a title and a text), `BlocksAreFinite`.
- `VersionsAreOrdered`: an old schema version is smaller than the current one.
- `StagingHasOtherNames`: the name of a staging folder begins with a dot, which no
  project's name does.
- `TextsAreTexts`, `ProposalsAssumption`: texts are sequences of characters, and
  what a run proposes decodes to a proposal; `CommitsAreNumbers`: a bundle may name
  any commit of the project.
- `ContextConstants`: chapters and items are finitely many numbers, each chapter has
  one parent or none, lengths, budgets and the limit of entries are natural numbers,
  and what is asked has its shape.  That parents form no circle is not assumed: no property depends on
  which ancestors are collected.
- `RunnerConstants`: at most three attempts, the limit `normalizeRetryPolicy`
  enforces; the attempts are the request ids.

Each module has one inductive invariant.

**Audit** (`AuditInvariant`).  `RunFollowsReview` is not inductive alone: that an
absent run has no review comes from its artifact being "none", and a run's
lifecycle can only be extended at its end because the run is already at the end of
it.  The invariant is the conjunction of the properties with the fact that a run
without review has an empty review record.  `PersistKeepsAudit` rests on
`BundleMakesRecord` (a valid bundle makes a consistent record), `AppendKeepsAudit`
on what appending one element does to a chain.  `AppliedAfterDecision` needs two
more facts about the log: a review is ready only right after a decision that made
it so (`ReadyByDecision`), and an applied log ends there (`AppliedByDecision`).
The refinement is a step simulation: persisting maps to the recording of a run or,
when the bundle is one already recorded, to a stutter; a review event to a move of
the reviewer or to a stutter.

**Store** (`StoreInvariant`).  The first half of `Workspace_proofs` proves, in one
lemma per transaction or command, that it is kept and what the step as a whole does
(`StoreStep`: revisions grow, changes are queued, the head moves on).  Besides the properties it needs that a checkpoint is what its commit
binds and a forest itself (`SnapshotsBind`), since a restore takes both on trust.
`Ancestry` is a recursive function: that it is defined, and what it gives, is
proved by a least counterexample, since no prover can instantiate an induction
over an operator.
The second half adds the processes: what one has read in separate statements is
the present state as long as the head has not moved (`SeenIsPresent`), so a
write that passes the compare-and-swap was computed from the present state.
This is the argument the code relies on and no test makes.

**Queue and worker** (`SummaryInvariant`).  The worker's tokens are read after its
texts.  With one process nothing is committed between the two reads, since both
belong to one command (`WorkerReadPresent`), so a token it consumes is not younger
than its text.  `NothingIsForgotten` holds with other processes as well: an
invalidation is only deleted with the token that was read.

**Review** (`ReviewInvariant`).  Two arguments meet.  What the operators compute:
`apply_proposal_hunks` goes from the last hunk to the first, so that what it has
replaced lies behind every offset it has yet to look up (`SpliceOne`, `CarryOne`);
that no two hunks share a place comes from `ValidHunks` (`ValidArePlaced`), and
holds for any of them (`ThoseArePlaced`); hence `ApplyIsSpliced`.  `ReplayAppend`
says that a log with one more event replays to the decisions before it with that
event carried out.  These are inductions over sequences, done with sets of
numbers and `ExtensionExists`, which gives the recursive functions their values.
And what the actors know: no copy of a review, on a page or in a handler, is ahead
of its log, and one that is not behind has its status and decisions (`PageSound`,
`HandlerSound`, in the order of `Reads`); what a handler has read of the project is
what the commit it names binds (`ChapterSound`).  So when the store finds revision
and head unchanged, the handler has decided on the present log and text.  An
applied review is closed (`ReviewGrows`), a branch is made at a beginning of the
log, which later events leave alone (`BeginningStays`).  `AuditInvariant` is part
of the invariant and kept by the lemmas of the audit.

**Gateway** (`GatewayInvariant`).  `MutexGuardsTheWay`: the thread between the use
of an authorization and the registration of its request is the one that holds the
session mutex, so what it compared still holds.  `ActiveIsRegistered` ties the map
of running requests to the threads, `OnePlace` gives each request id one place,
`StoppedStays` keeps the outcome of a stopped stream.  The properties follow from
these four and are not inductive without them.

**Runner** (`RunnerInvariant`).  The page: where the runner awaits determines how
far its lifecycle has come (`LifecycleFollows`), whether there is an artifact
(`ArtifactFollows`) and that all earlier attempts were fit to be repeated
(`AttemptsFollow`).  The host follows the page: nothing was done for a request
beyond the current one (`HostFollows`), a thread works for a page that waits
(`TakenForPage`, `AnswerEndsRequest`), and every authorization or stream the page
has given up is asked to end (`WaitsOrWithdrawn`, `RunsOrStopped`).  The store
holds what the page had at its end (`RecordedAtEnd`).  The invariants of audit and
gateway are part of it; they are kept by `PersistKeepsAudit` and `GatewayStep`,
without a second proof, because every step is a step of theirs or leaves them
alone.  `RunnerUsesGateway` is this fact as a theorem.

**Context packets** (`ContextInvariant`).  `PacketInvariant` is short, because a
packet does not change once it is made; the work is in what the compilers compute.  Both
sort by the same order, although one compares step by step and the other by a key
(`SameOrder`), and an order without ties gives one list (`InOrderLists`).  Turn by
turn the two loops keep the same selection, put off the same candidates and count
the same tokens (`TurnsMatch`, `LoopsMatch`), so the packet of the page is the one
the host expects (`CompileIsExpected`).  That no candidate is left out for room that
was there (`Consistent`, kept by `OffersKeep` and `OffersAgainKeep`) holds because
what is used only grows: a candidate that did not fit does not fit at the end.  What
is mandatory is offered first, so each mandatory candidate fits if all of them do.
`AuthorizedContextIsCurrent` does not use the packet's own history: before each
attempt the host expects only what it collects at that moment and the rules let
through (`ExpectedIsScored`, `ScoredIsCurrent`).  `SentContextIsCurrent` needs to
know what may happen between the two commands (`AuthorizationHolds`): a save or a
rename moves the head, which execution sees; a summary is only made of a scope that
is queued, and no scope of the packet is; an item may change, which is why items
are left out.

**Autosave** (`AutosaveInvariant`).  A text is pending, in the save under way, in
the journal or the draft, and newer places go before older ones (`NewestIsKept`).
That a checkpoint sees what was typed before it (`FlushedIsKept`) is not inductive:
a text typed while the flush waits must not be taken for one it waited for, which
is what `LaterTextsAreNew` says.

**Package** (`PackageInvariant`).  A staging folder is whole before its rename
(`StagedPackages`); an open session implies an upgraded database, so nobody writes
an old one between its copy and its upgrade (`SessionsOpen`, `OpenKnows`); the
transactions under a name are the acknowledged ones (`AckedStands`, stronger than
`AcknowledgedSurvives`); an export without other writers copies one state
(`ExportAlone`).  Each action is first shown to have one of a few effects on a
folder; the conjuncts are then proved per effect.

**Registries** (`RegistryInvariant`).  `RestartShowsLastList` depends on where an
update stands: until it publishes, the files give the previous list, and each step
has made room for the next without losing it (`FilesHoldPrevious`); what a restart
may show is the list in memory or the one a failure would bring back
(`RestartFollows`).  `SecretHasEndpoint` is not inductive: while an update runs, a
credential's endpoint must be on both lists, and no thread may be done with the
credential it removes (`CredentialIsKept`).  What is left of a list some entries
are taken from (`RetainIsPart`) is proved by induction over a recursive function.

Only model-checked: `QueueDrains`, `OperationEnds` and `EverythingSettles`, since
liveness under fairness is out of the prover's reach.

## What is not modelled

- The diff that makes hunks out of two texts, and their grouping into a proposal:
  a pure algorithm on characters.  `ReviewSession` starts from its results.
- The editor bridge has no caller in the desktop.
- The TypeScript provider gateway, SSE parsing and the HTTP requests: input and
  output without state to interleave; the desktop streams through the Rust host.
- Protocol validation and the snapshot codec: shape checks and an encoding, total
  and without state.
- What each step of the upgrade does to the tables; `ProjectPackage` has the
  upgrade as one transaction behind its copy.
- Timeline, version history, comparison of documents, audit queries, exports: they
  only read.
- Rendering, drawers and dialogs of the page.  In particular what the editor shows
  after a rendering (`workspace.js:562` reads the loaded text, not the pending
  one) is a hazard that no model covers.

## Plan

Modelled, checked and proved as described above.  What is left, in this order:

1. Models of the diff over bounded texts, checked against "applying all its hunks
   gives the replacement", and of the steps of the upgrade.
