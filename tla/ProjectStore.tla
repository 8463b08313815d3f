---------------------------- MODULE ProjectStore ----------------------------
(***************************************************************************)
(* The versioned project: documents, their text, the commit history, the   *)
(* edit journal, checkpoints, and the queue of summaries to redo.          *)
(*                                                                         *)
(* The first part is the store (optimizer-store/src/store): each mutation  *)
(* is one IMMEDIATE transaction, so one action, and a refused command is a *)
(* disabled one.  The second part is the host (optimizer-host/src/         *)
(* workspace_commands): a handler reads the project with separate          *)
(* statements, computes the root hash of the state it is about to make,    *)
(* and hands both to the store.  What it read is the parameter seen; in    *)
(* this module the host is alone, so seen is the present state, and module *)
(* Workspace lets other commands run in between.                           *)
(*                                                                         *)
(* Abstractions.  Documents are numbered in the order of their creation.   *)
(* A document is created with one block and none is added or moved later,  *)
(* so the block of document d is called d.  A content hash is the text it  *)
(* hashes, a root hash the state it binds (View).  Order keys are made     *)
(* unique by a fresh UUID; a key here is the commit that assigned it, and  *)
(* the place among siblings is not kept.                                   *)
(***************************************************************************)
EXTENDS Integers, Sequences, FiniteSets

CONSTANTS
    MaxDocuments,   \* bound: documents a project may get
    MaxCommits,     \* bound: commits of the history
    Titles,         \* titles a user may give
    Texts           \* texts a user may write

ASSUME DocumentBound == MaxDocuments \in Nat \ {0}

ASSUME CommitBound == MaxCommits \in Nat \ {0}

ASSUME SomethingToWrite == Titles # {} /\ Texts # {}

VARIABLES
    project,     \* project row and its main branch: head commit, revision
    commits,     \* commit_node with commit_parent
    doc,         \* document rows
    block,       \* the block row of each document
    journal,     \* edit_journal, per block
    snapshots,   \* materialized_snapshot
    queue,       \* summary_invalidation: source commit per scope, 0 if no row
    surplus      \* history: blocks a restore has shown that its snapshot has not

storeVars == <<project, commits, doc, block, journal, snapshots, queue, surplus>>

-----------------------------------------------------------------------------
(* Values *)

Docs == 1 .. MaxDocuments
NoDoc == 0

Scopes == ({"document", "block"} \X Docs) \cup {<<"project", NoDoc>>}

Active(documents) == {d \in Docs : documents[d].status = "active"}

\* list_blocks: the blocks of active documents that are not deleted.
ActiveBlocks(documents, blocks) == {d \in Active(documents) : blocks[d].active}

\* What a snapshot restores of a document, and a root hash binds of it.
Meta(record) ==
    [parent |-> record.parent, title |-> record.title, key |-> record.key]

\* project_root_hash, and the content of a snapshot: the metadata of the
\* active documents and the texts of their active blocks.
View(documents, blocks) ==
    [ docs   |-> [d \in Active(documents) |-> Meta(documents[d])],
      blocks |-> [d \in ActiveBlocks(documents, blocks) |-> blocks[d].text] ]

NextCommit == Len(commits) + 1

\* Mutant of Enqueue: INSERT OR IGNORE, which keeps the row there may be.
EnqueueOnce(rows, scopes) ==
    [s \in Scopes |-> IF s \in scopes /\ rows[s] = 0 THEN NextCommit ELSE rows[s]]

\* Mutant of Enqueue: only documents and the project are registered.
EnqueueAggregates(rows, scopes) ==
    [s \in Scopes |-> IF s \in scopes /\ s[1] # "block" THEN NextCommit ELSE rows[s]]

\* An insert into summary_invalidation that replaces the row there may be.
Enqueue(rows, scopes) ==
    [s \in Scopes |-> IF s \in scopes THEN NextCommit ELSE rows[s]]

\* Mutant of Dequeue: what is archived stays queued.
DequeueNothing(rows, scopes) == rows

Dequeue(rows, scopes) == [s \in Scopes |-> IF s \in scopes THEN 0 ELSE rows[s]]

ProjectScope == {<<"project", NoDoc>>}
DocumentScopes(ids) == {"document"} \X ids
BlockScopes(ids) == {"block"} \X ids

-----------------------------------------------------------------------------
(* Store transactions *)

\* Every mutation ends so: a commit on top of the head, and project row and
\* main branch move to it.
MakeCommit(root) ==
    /\ commits' = Append(commits, [parent |-> project.head, root |-> root])
    /\ project' = [head |-> NextCommit, revision |-> project.revision + 1]

\* Mutant of ExpectedHead: the head is read again instead of compared.
AnyHead(seen) == seen.head \in DOMAIN commits

ExpectedHead(seen) ==
    project.head = seen.head /\ project.revision = seen.revision

CreateDocumentWithBlock(seen, d, parent, title, text, root) ==
    /\ ExpectedHead(seen)
    /\ doc[d].status = "absent"
    /\ parent \in Active(doc) \cup {NoDoc}
    /\ doc' = [doc EXCEPT ![d] =
                  [ status |-> "active", parent |-> parent, title |-> title,
                    key |-> NextCommit, revision |-> 0 ]]
    /\ block' = [block EXCEPT ![d] = [active |-> TRUE, text |-> text, revision |-> 0]]
    /\ queue' = Enqueue(queue, ProjectScope \cup DocumentScopes({d}) \cup BlockScopes({d}))
    /\ MakeCommit(root)
    /\ UNCHANGED <<journal, snapshots, surplus>>

\* The documents above d, itself included, along at most MaxDocuments links.
Ancestry(documents, d) ==
    LET up[n \in 0 .. MaxDocuments] ==
            IF n = 0 THEN {d}
            ELSE up[n - 1] \cup {documents[a].parent : a \in up[n - 1] \ {NoDoc}}
    IN  up[MaxDocuments]

\* validate_final_document_tree: some document is active, and from an active
\* document the parents are active and end in a document without parent.
FinalDocumentTree(documents) ==
    /\ Active(documents) # {}
    /\ \A d \in Active(documents) :
          /\ NoDoc \in Ancestry(documents, d)
          /\ Ancestry(documents, d) \subseteq Active(documents) \cup {NoDoc}

\* apply_document_batch: the mutated documents become what next says, their
\* revisions compared with the ones seen.
ApplyDocumentBatch(seen, next, mutated, operation, root) ==
    LET final == [d \in Docs |->
                     IF d \in mutated
                     THEN [next[d] EXCEPT !.revision = doc[d].revision + 1]
                     ELSE doc[d]]
        staying == mutated \cap Active(final)
        gone == mutated \ Active(final)
        parents == {doc[d].parent : d \in mutated} \cup {next[d].parent : d \in mutated}
        blocks == IF operation = "restore" THEN {d \in staying : block[d].active} ELSE {}
    IN  /\ ExpectedHead(seen)
        /\ mutated # {}
        /\ \A d \in mutated : /\ doc[d].status # "absent"
                              /\ doc[d].revision = seen.doc[d].revision
                              /\ next[d].parent # d
        /\ FinalDocumentTree(final)
        /\ doc' = final
        /\ queue' = Enqueue(Dequeue(queue, DocumentScopes(gone) \cup BlockScopes(gone)),
                            ProjectScope
                              \cup DocumentScopes(staying \cup (parents \cap Active(final)))
                              \cup BlockScopes(blocks))
        /\ MakeCommit(root)
        /\ UNCHANGED <<block, journal, snapshots, surplus>>

JournalRow(record, text) ==
    [ base |-> record.revision, new |-> record.revision + 1,
      before |-> record.text, after |-> text ]

\* apply_block_edit: compare-and-swap on block, head and project revision.
ApplyBlockEdit(seen, d, text, root) ==
    /\ ExpectedHead(seen)
    /\ block[d].active
    /\ block[d].revision = seen.block[d].revision
    /\ block[d].text = seen.block[d].text
    /\ doc[d].status = "active"
    /\ block' = [block EXCEPT ![d].text = text, ![d].revision = @ + 1]
    /\ journal' = [journal EXCEPT ![d] = Append(@, JournalRow(block[d], text))]
    /\ doc' = [doc EXCEPT ![d].revision = @ + 1]
    /\ queue' = Enqueue(queue, ProjectScope \cup DocumentScopes({d}) \cup BlockScopes({d}))
    /\ MakeCommit(root)
    /\ UNCHANGED <<snapshots, surplus>>

\* create_head_snapshot; a commit has at most one (UNIQUE project, commit, codec).
CreateHeadSnapshot ==
    /\ \A s \in snapshots : s.commit # project.head
    /\ snapshots' = snapshots \cup {[commit |-> project.head, view |-> View(doc, block)]}
    /\ UNCHANGED <<project, commits, doc, block, journal, queue, surplus>>

\* Of the documents the snapshot has: back from the archive, or at another
\* place, title or key than in the snapshot; and those it does not have.
RevisedDocuments(s) ==
    LET docs == DOMAIN s.view.docs
    IN  (Active(doc) \ docs) \cup (docs \ Active(doc))
          \cup {d \in docs \cap Active(doc) : Meta(doc[d]) # s.view.docs[d]}

\* Blocks that are active before and after, with another text.
EditedBlocks(s) ==
    {d \in DOMAIN s.view.blocks \cap ActiveBlocks(doc, block) :
        block[d].text # s.view.blocks[d]}

\* Blocks that are archived, come back or are edited.
ChangedBlocks(s) ==
    LET blocks == DOMAIN s.view.blocks
        current == ActiveBlocks(doc, block)
    IN  (current \ blocks) \cup (blocks \ current) \cup EditedBlocks(s)

\* Mutant of RestoredDocument: a document that is active stays where it is.
RestoredDocumentInPlace(s, d) ==
    LET target == s.view.docs[d]
    IN  [ status |-> "active", title |-> target.title, key |-> target.key,
          parent |-> IF d \in Active(doc) THEN doc[d].parent ELSE target.parent,
          revision |-> IF d \in RevisedDocuments(s) \cup ChangedBlocks(s)
                       THEN doc[d].revision + 1 ELSE doc[d].revision ]

\* Mutant of RestoredDocument: a restored text leaves the document revision.
RestoredDocumentMetaOnly(s, d) ==
    LET target == s.view.docs[d]
    IN  [ status |-> "active", parent |-> target.parent, title |-> target.title,
          key |-> target.key,
          revision |-> IF d \in RevisedDocuments(s) THEN doc[d].revision + 1
                       ELSE doc[d].revision ]

\* The row of a document that is in the snapshot.
RestoredDocument(s, d) ==
    LET target == s.view.docs[d]
    IN  [ status |-> "active", parent |-> target.parent, title |-> target.title,
          key |-> target.key,
          revision |-> IF d \in RevisedDocuments(s) \cup ChangedBlocks(s)
                       THEN doc[d].revision + 1 ELSE doc[d].revision ]

\* The row of a block; one that comes back takes the snapshot's text but keeps
\* its revision, and no journal row is written for it.
RestoredBlock(s, d) ==
    LET blocks == DOMAIN s.view.blocks
        current == ActiveBlocks(doc, block)
    IN  CASE d \in current \ blocks -> [block[d] EXCEPT !.active = FALSE]
          [] d \in blocks \ current ->
                 [block[d] EXCEPT !.active = TRUE, !.text = s.view.blocks[d]]
          [] d \in EditedBlocks(s) ->
                 [block[d] EXCEPT !.text = s.view.blocks[d], !.revision = @ + 1]
          [] OTHER -> block[d]

\* read_active_snapshot_blocks sees the blocks of active documents only.  A
\* document put away by a batch keeps its block row as it was, so it comes back
\* with a block that the restore does not put away, whatever the snapshot has.
SurplusBlocks(s) ==
    {d \in DOMAIN s.view.docs \ DOMAIN s.view.blocks :
        d \notin Active(doc) /\ block[d].active}

\* restore_snapshot: the active structure becomes the snapshot's whatever the
\* head is; what is not in it is archived, what was archived comes back.
RestoreSnapshot(s) ==
    LET docs == DOMAIN s.view.docs
        changed == DocumentScopes(RevisedDocuments(s) \cup ChangedBlocks(s))
                     \cup BlockScopes(ChangedBlocks(s))
        live == DocumentScopes(docs) \cup BlockScopes(DOMAIN s.view.blocks)
    IN  /\ RevisedDocuments(s) \cup ChangedBlocks(s) # {}
        /\ doc' = [d \in Docs |->
              CASE d \in Active(doc) \ docs ->
                       [doc[d] EXCEPT !.status = "archived", !.parent = NoDoc,
                                      !.key = NextCommit, !.revision = @ + 1]
                [] d \in docs -> RestoredDocument(s, d)
                [] OTHER -> doc[d]]
        /\ block' = [d \in Docs |-> RestoredBlock(s, d)]
        /\ journal' = [d \in Docs |->
              IF d \in EditedBlocks(s)
              THEN Append(journal[d], JournalRow(block[d], s.view.blocks[d]))
              ELSE journal[d]]
        /\ queue' = Enqueue(Dequeue(queue, changed \ live),
                            ProjectScope \cup (changed \cap live))
        /\ MakeCommit(commits[s.commit].root)
        /\ surplus' = surplus \cup SurplusBlocks(s)
        /\ UNCHANGED snapshots

-----------------------------------------------------------------------------
(* Host commands, computed from what the handler has read *)

Now == [ head |-> project.head, revision |-> project.revision,
         doc |-> doc, block |-> block ]

\* A command's state: seen with some documents or blocks replaced.
HostBatch(seen, next, mutated, operation) ==
    ApplyDocumentBatch(seen, next, mutated, operation, View(next, seen.block))

CreateDocument(seen, d, parent, title, text) ==
    LET docs == [seen.doc EXCEPT ![d] =
                    [ status |-> "active", parent |-> parent, title |-> title,
                      key |-> NextCommit, revision |-> 0 ]]
        blocks == [seen.block EXCEPT ![d] = [active |-> TRUE, text |-> text, revision |-> 0]]
    IN  /\ parent \in Active(seen.doc) \cup {NoDoc}
        /\ CreateDocumentWithBlock(seen, d, parent, title, text, View(docs, blocks))

RenameDocument(seen, d, title) ==
    /\ d \in Active(seen.doc)
    /\ seen.doc[d].title # title
    /\ HostBatch(seen, [seen.doc EXCEPT ![d].title = title], {d}, "rename")

Siblings(documents, parent) == {d \in Active(documents) : documents[d].parent = parent}

\* rekey_documents: fresh keys in one namespace for a group of siblings.
Rekey(documents, ids) ==
    [d \in Docs |-> IF d \in ids THEN [documents[d] EXCEPT !.key = NextCommit]
                    ELSE documents[d]]

\* Swapping two neighbours gives every sibling a new key.
ReorderDocument(seen, d) ==
    LET ids == Siblings(seen.doc, seen.doc[d].parent)
    IN  /\ d \in Active(seen.doc)
        /\ ids # {d}
        /\ HostBatch(seen, Rekey(seen.doc, ids), ids, "reorder")

\* change_document_depth: under the sibling before it, or beside its parent;
\* the siblings it joins are keyed anew.
ChangeDocumentDepth(seen, d, parent) ==
    LET moved == [seen.doc EXCEPT ![d].parent = parent]
        ids == Siblings(moved, parent)
    IN  /\ d \in Active(seen.doc)
        /\ \/ parent \in Siblings(seen.doc, seen.doc[d].parent) \ {d}
           \/ /\ seen.doc[d].parent # NoDoc
              /\ parent = seen.doc[seen.doc[d].parent].parent
        /\ HostBatch(seen, Rekey(moved, ids), ids, "reparent")

\* set_document_archived: a whole subtree goes, unless nothing would stay.
ArchiveDocument(seen, d) ==
    LET subtree == {a \in Active(seen.doc) : d \in Ancestry(seen.doc, a)}
    IN  /\ d \in Active(seen.doc)
        /\ subtree # Active(seen.doc)
        /\ HostBatch(seen,
                     [a \in Docs |-> IF a \in subtree
                                     THEN [seen.doc[a] EXCEPT !.status = "archived"]
                                     ELSE seen.doc[a]],
                     subtree, "archive")

\* set_document_archived: one document comes back, its parent being there.
RestoreDocument(seen, d) ==
    /\ seen.doc[d].status = "archived"
    /\ seen.doc[d].parent \in Active(seen.doc) \cup {NoDoc}
    /\ HostBatch(seen, [seen.doc EXCEPT ![d].status = "active"], {d}, "restore")

SaveBlock(seen, d, text) ==
    /\ d \in ActiveBlocks(seen.doc, seen.block)
    /\ text # seen.block[d].text
    /\ ApplyBlockEdit(seen, d, text,
                      View(seen.doc, [seen.block EXCEPT ![d].text = text]))

-----------------------------------------------------------------------------

AbsentDocument ==
    [status |-> "absent", parent |-> NoDoc, title |-> CHOOSE t \in Titles : TRUE,
     key |-> 0, revision |-> 0]

AbsentBlock == [active |-> FALSE, text |-> CHOOSE t \in Texts : TRUE, revision |-> 0]

\* initialize_project with the seed of a new package: one chapter with one block.
PsInit ==
    /\ doc = [d \in Docs |-> IF d = 1 THEN [AbsentDocument EXCEPT !.status = "active"]
                             ELSE AbsentDocument]
    /\ block = [d \in Docs |-> IF d = 1 THEN [AbsentBlock EXCEPT !.active = TRUE]
                               ELSE AbsentBlock]
    /\ project = [head |-> 1, revision |-> 0]
    /\ commits = << [parent |-> 0, root |-> View(doc, block)] >>
    /\ journal = [d \in Docs |-> << >>]
    /\ snapshots = {}
    /\ queue = [s \in Scopes |->
                   IF s \in {<<"project", NoDoc>>, <<"document", 1>>, <<"block", 1>>}
                   THEN 1 ELSE 0]
    /\ surplus = {}

\* Ids are fresh; the next unused number stands for the next UUID.
NextDocument(d) ==
    doc[d].status = "absent" /\ \A e \in 1 .. d - 1 : doc[e].status # "absent"

\* A command that makes a commit, by a host that has read seen.
Change(seen) ==
    /\ Len(commits) < MaxCommits
    /\ \E d \in Docs :
          \/ \E title \in Titles, text \in Texts, parent \in Docs \cup {NoDoc} :
                NextDocument(d) /\ CreateDocument(seen, d, parent, title, text)
          \/ \E title \in Titles : RenameDocument(seen, d, title)
          \/ ReorderDocument(seen, d)
          \/ \E parent \in Docs \cup {NoDoc} : ChangeDocumentDepth(seen, d, parent)
          \/ ArchiveDocument(seen, d)
          \/ RestoreDocument(seen, d)
          \/ \E text \in Texts : SaveBlock(seen, d, text)

Checkpoint == CreateHeadSnapshot

Restore ==
    /\ Len(commits) < MaxCommits
    /\ \E s \in snapshots : RestoreSnapshot(s)

-----------------------------------------------------------------------------
(* Properties *)

MetaRecord == [parent : Docs \cup {NoDoc}, title : Titles, key : Nat]

IsView(v) ==
    /\ DOMAIN v.docs \subseteq Docs /\ v.docs \in [DOMAIN v.docs -> MetaRecord]
    /\ DOMAIN v.blocks \subseteq Docs /\ v.blocks \in [DOMAIN v.blocks -> Texts]

PsTypeOK ==
    /\ project \in [head : Nat, revision : Nat]
    /\ \A i \in DOMAIN commits : commits[i].parent \in Nat /\ IsView(commits[i].root)
    /\ doc \in [Docs -> [ status : {"absent", "active", "archived"},
                          parent : Docs \cup {NoDoc}, title : Titles,
                          key : Nat, revision : Nat ]]
    /\ block \in [Docs -> [active : BOOLEAN, text : Texts, revision : Nat]]
    /\ journal \in [Docs -> Seq([base : Nat, new : Nat, before : Texts, after : Texts])]
    /\ \A s \in snapshots : s.commit \in Nat /\ IsView(s.view)
    /\ queue \in [Scopes -> Nat]
    /\ surplus \subseteq Docs

ActiveScopes ==
    ProjectScope \cup DocumentScopes(Active(doc)) \cup BlockScopes(ActiveBlocks(doc, block))

\* After any sequence of commands the project can be opened again: the queries
\* of verify_invariants find nothing.  Archiving and restoring must drop queue
\* rows of what they hide, and only the journal may advance a block revision.
Reopens ==
    /\ project.head \in DOMAIN commits
    /\ \A d \in Docs :
          block[d].revision = IF journal[d] = << >> THEN 0
                              ELSE journal[d][Len(journal[d])].new
    /\ \A s \in Scopes : queue[s] # 0 => queue[s] \in DOMAIN commits /\ s \in ActiveScopes

\* ADR 0019, decision 3: some document is active, no active document hangs under
\* an archived one, and there is no cycle.  Batches check the final tree;
\* create_document and restore_snapshot do not, and rely on the tree they found.
ActiveDocumentsFormForest ==
    /\ Active(doc) # {}
    /\ \A d \in Active(doc) : doc[d].parent \in Active(doc) \cup {NoDoc}
    /\ \A group \in (SUBSET Active(doc)) \ {{}} : \E d \in group : doc[d].parent \notin group

\* A view without the text of some blocks.
Without(view, ids) ==
    [ docs   |-> view.docs,
      blocks |-> [d \in DOMAIN view.blocks \ ids |-> view.blocks[d]] ]

\* The head commit binds the real state of the project.  The host computes the
\* root before the transaction from what it read, a restore reuses the root of
\* an older commit (ADR 0012: a commit must not stand for a state that never
\* was).  It does not hold for a block that a restore shows although the
\* snapshot does not have it: see SurplusBlocks.
HeadRootIsContent ==
    Without(commits[project.head].root, surplus) = Without(View(doc, block), surplus)

\* What a user sees of one document.
Visible(d) == [meta |-> Meta(doc[d]), status |-> doc[d].status,
               text |-> block[d].text, block |-> block[d].active]

\* A document revision never names two states: whatever a step changes of a
\* document that exists, it makes its revision larger, restores of old
\* checkpoints included (ADR 0019, decision 7), so that the revision a page
\* sends back is a sound compare-and-swap token.
DocumentRevisionNamesState ==
    [][ \A d \in Docs :
          doc[d].status # "absent" /\ Visible(d)' # Visible(d) =>
             doc'[d].revision > doc[d].revision
      ]_storeVars

\* There is no state in which content changed and its summary is not queued
\* (ADR 0020): a step that changes the text of an active block, or what an
\* active document shows itself, leaves the scope queued under its own commit;
\* and every commit queues the project.  A block that a restore shows against
\* its snapshot is not queued.
ChangeIsQueued ==
    [][ /\ commits' # commits => queue'[<<"project", NoDoc>>] = NextCommit
        /\ \A d \in Active(doc)' :
              Visible(d)' # Visible(d) => queue'[<<"document", d>>] = NextCommit
        /\ \A d \in ActiveBlocks(doc, block)' \ surplus' :
              d \notin ActiveBlocks(doc, block) \/ block'[d].text # block[d].text
                => queue'[<<"block", d>>] = NextCommit
      ]_storeVars

=============================================================================
