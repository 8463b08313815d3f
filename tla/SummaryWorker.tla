--------------------------- MODULE SummaryWorker ----------------------------
(***************************************************************************)
(* The summary cache and the host's worker that keeps it up to date:       *)
(* put_summary_record and get_ready_summary_record of the store            *)
(* (store/knowledge.rs) and refresh_summaries of optimizer-host.           *)
(*                                                                         *)
(* A refresh reads the documents, the blocks and then a batch of the       *)
(* queue, each with its own statement, and writes one summary per          *)
(* transaction.  The desktop runs it under the session mutex, so its own   *)
(* commands wait; another process that opened the project (shared) commits *)
(* in between.                                                             *)
(* A summary is abstracted to the state it was computed from, which is     *)
(* what source_hash binds.                                                 *)
(***************************************************************************)
EXTENDS ProjectStore

CONSTANTS
    BatchSize,       \* scopes one refresh takes from the queue
    MaxCrashes       \* bound: times the desktop dies during a refresh

ASSUME WorkerConstants == BatchSize \in Nat \ {0} /\ MaxCrashes \in Nat

VARIABLES
    summary,   \* summary_record: the source of each scope's last summary
    worker,    \* the refresh in progress: stage, documents, blocks, batch
    crashes,
    shared     \* whether another process has the project open, too

swVars == <<storeVars, summary, worker, crashes, shared>>

NoSummary == [of |-> "nothing"]

-----------------------------------------------------------------------------
(* What a summary is computed from *)

Below(documents, d) == {a \in Active(documents) : d \in Ancestry(documents, a)}

\* The part of a view that belongs to some documents.
Part(view, ids) ==
    [ of     |-> "documents",
      docs   |-> [d \in DOMAIN view.docs \cap ids |-> view.docs[d]],
      blocks |-> [d \in DOMAIN view.blocks \cap ids |-> view.blocks[d]] ]

\* summary_source: a block's text, a document's subtree, or the whole project.
Source(scope, documents, blocks) ==
    CASE scope[1] = "block"    -> [of |-> "block", text |-> blocks[scope[2]].text]
      [] scope[1] = "document" -> Part(View(documents, blocks), Below(documents, scope[2]))
      [] scope[1] = "project"  -> Part(View(documents, blocks), Docs)

ActiveIn(documents, blocks) ==
    ProjectScope \cup DocumentScopes(Active(documents))
      \cup BlockScopes(ActiveBlocks(documents, blocks))

\* get_ready_summary_record: a summary with no invalidation queued.
Ready(scope) == summary[scope] # NoSummary /\ queue[scope] = 0

-----------------------------------------------------------------------------
(* Store *)

\* put_summary_record: replace the summary and consume the invalidation, if it
\* is still the one the summary was made for.
PutSummaryRecord(scope, token, source) ==
    /\ scope \in ActiveScopes
    /\ queue[scope] # 0
    /\ queue[scope] = token
    /\ summary' = [summary EXCEPT ![scope] = source]
    /\ queue' = [queue EXCEPT ![scope] = 0]
    /\ UNCHANGED <<project, commits, doc, block, journal, snapshots, surplus>>

-----------------------------------------------------------------------------
(* Worker *)

Rank(scope) == CASE scope[1] = "block" -> 0 [] scope[1] = "document" -> 1 [] OTHER -> 2

\* Blocks before documents before the project, older invalidations first.
Earlier(s, t) ==
    \/ Rank(s) < Rank(t)
    \/ Rank(s) = Rank(t) /\ queue[s] < queue[t]
    \/ Rank(s) = Rank(t) /\ queue[s] = queue[t] /\ s[2] < t[2]

\* list_summary_invalidations with a limit.
QueueHead ==
    LET rows == {s \in Scopes : queue[s] # 0}
        nth(n) == CHOOSE s \in rows : Cardinality({t \in rows : Earlier(t, s)}) = n - 1
        taken == IF Cardinality(rows) < BatchSize THEN Cardinality(rows) ELSE BatchSize
    IN  [i \in 1 .. taken |-> [scope |-> nth(i), token |-> queue[nth(i)]]]

\* An idle worker remembers nothing.
Rest == worker' = [stage |-> "idle"]

ListDocuments ==
    /\ worker.stage = "idle"
    /\ worker' = [stage |-> "documents", doc |-> doc]
    /\ UNCHANGED <<storeVars, summary, crashes, shared>>

ListBlocks ==
    /\ worker.stage = "documents"
    /\ worker' = [stage |-> "blocks", doc |-> worker.doc, block |-> block]
    /\ UNCHANGED <<storeVars, summary, crashes, shared>>

\* Mutant of ReadQueue: the rows taken are deleted, as from a work queue.
ClaimQueue ==
    /\ worker.stage = "blocks"
    /\ IF QueueHead = << >> THEN Rest
       ELSE worker' = [ stage |-> "batch", doc |-> worker.doc, block |-> worker.block,
                        batch |-> QueueHead ]
    /\ queue' = Dequeue(queue, {QueueHead[i].scope : i \in DOMAIN QueueHead})
    /\ UNCHANGED <<project, commits, doc, block, journal, snapshots, surplus, summary,
                   crashes, shared>>

ReadQueue ==
    /\ worker.stage = "blocks"
    /\ IF QueueHead = << >> THEN Rest
       ELSE worker' = [ stage |-> "batch", doc |-> worker.doc, block |-> worker.block,
                        batch |-> QueueHead ]
    /\ UNCHANGED <<storeVars, summary, crashes, shared>>

Item == Head(worker.batch)

Known == Item.scope \in ActiveIn(worker.doc, worker.block)

\* One turn of the loop of refresh_summaries.
Summarize ==
    /\ worker.stage = "batch"
    /\ Known
    /\ PutSummaryRecord(Item.scope, Item.token,
                        Source(Item.scope, worker.doc, worker.block))
    /\ IF Len(worker.batch) = 1 THEN Rest
       ELSE worker' = [worker EXCEPT !.batch = Tail(@)]
    /\ UNCHANGED <<crashes, shared>>

\* The scope is not among the documents read, is no longer active, or was
\* invalidated again: the error ends the refresh, the rest of the batch stays
\* queued, and the page asks again later.
Abandon ==
    /\ worker.stage = "batch"
    /\ \/ ~Known
       \/ Item.scope \notin ActiveScopes
       \/ queue[Item.scope] # Item.token
    /\ Rest
    /\ UNCHANGED <<storeVars, summary, crashes, shared>>

\* The desktop dies; what was written stays.
Crash ==
    /\ worker.stage # "idle"
    /\ crashes < MaxCrashes
    /\ Rest
    /\ crashes' = crashes + 1
    /\ UNCHANGED <<storeVars, summary, shared>>

Refresh == ListDocuments \/ ListBlocks \/ ReadQueue \/ Summarize \/ Abandon

\* Another process opens the same project file.
Share ==
    /\ ~shared
    /\ shared' = TRUE
    /\ UNCHANGED <<storeVars, summary, worker, crashes>>

\* Commands of the same desktop wait for the session mutex; those of another
\* process do not.
Command ==
    /\ worker.stage = "idle" \/ shared
    /\ Change(Now) \/ Checkpoint \/ Restore
    /\ UNCHANGED <<summary, worker, crashes, shared>>

SwInit ==
    /\ PsInit
    /\ summary = [s \in Scopes |-> NoSummary]
    /\ worker = [stage |-> "idle"]
    /\ crashes = 0
    /\ shared = FALSE

SwNext == Refresh \/ Crash \/ Command \/ Share

\* The page asks for a refresh again whenever it is idle, and after an error
\* with a growing delay of at most 30 s, so a refresh goes on while it can.
SwSpec == SwInit /\ [][SwNext]_swVars /\ WF_swVars(Refresh)

-----------------------------------------------------------------------------
(* Properties *)

SwTypeOK ==
    /\ PsTypeOK
    /\ DOMAIN summary = Scopes
    /\ worker.stage \in {"idle", "documents", "blocks", "batch"}
    /\ worker.stage = "batch" => worker.batch # << >>
    /\ crashes \in 0 .. MaxCrashes
    /\ shared \in BOOLEAN

\* What a summary says of the scope's own: a document's metadata and text
\* without the documents below it; everything for a block and for the project.
OwnPart(s, source) ==
    IF s[1] = "document" THEN Part(source, {s[2]}) ELSE source

\* While one process has the project (ADR 0020 promises no more), a ready
\* summary is never wrong about its own scope: no invalidation is consumed by a
\* summary made from an older text (ADR 0020, decision 5).  With another process
\* it may be: refresh_summaries reads the queue after the documents and blocks.
\* A block that a restore shows against its snapshot is not queued (SurplusBlocks).
ReadySummaryKnowsItsScope ==
    ~shared =>
      \A s \in ActiveScopes \ BlockScopes(surplus) :
        Ready(s) => OwnPart(s, summary[s]) = OwnPart(s, Source(s, doc, block))

\* No invalidation is lost: a summary of an active scope that is neither ready
\* nor queued does not exist (ADR 0020: a worker that dies loses no task).
NothingIsForgotten ==
    \A s \in ActiveScopes \ BlockScopes(surplus) : queue[s] # 0 \/ Ready(s)

\* Once nobody writes any more, every active scope gets its summary, whatever
\* crashed or was abandoned before: the queue has no item that blocks the rest.
QueueDrains == <>[](\A s \in Scopes : queue[s] = 0)

=============================================================================
