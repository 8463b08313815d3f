-------------------------- MODULE Workspace_proofs ---------------------------
(***************************************************************************)
(* The versioned project and the two modules that drive it, for every      *)
(* number of documents, commits and processes.  First the transactions of  *)
(* ProjectStore: what each leaves true of the project (StoreInvariant),    *)
(* and what a step does to what a user sees and to the queue (StoreStep).  *)
(* What is left of Workspace is that a handler whose write is not refused  *)
(* has read the present state; of SummaryWorker, that no invalidation is   *)
(* lost, and that none is consumed by a summary of an older state while    *)
(* one process has the project.                                            *)
(***************************************************************************)
EXTENDS Workspace, SummaryWorker, FiniteSetTheorems, SequenceTheorems, WellFoundedInduction, TLAPS

-----------------------------------------------------------------------------
(* Induction up to a number *)

\* A set of natural numbers that is not empty has a least element.
LEMMA Least ==
    ASSUME NEW S \in SUBSET Nat, S # {}
    PROVE  \E n \in S : \A m \in S : n <= m
<1>1. PICK n \in S : \A m \in S : <<m, n>> \notin OpToRel(<, Nat)
  BY NatLessThanWellFounded, WFMin
<1>2. \A m \in S : <<m, n>> \notin OpToRel(<, Nat) => n <= m
  BY DEF OpToRel
<1> QED  BY <1>1, <1>2

\* What holds of 0 and of the successor of whatever it holds of.
LEMMA UpTo ==
    ASSUME NEW N \in Nat, NEW S, 0 \in S, \A n \in 1 .. N : n - 1 \in S => n \in S
    PROVE  \A n \in 0 .. N : n \in S
<1> DEFINE T == {n \in 0 .. N : n \notin S}
<1> SUFFICES ASSUME T # {} PROVE FALSE
  OBVIOUS
<1>1. PICK n \in T : \A m \in T : n <= m
  <2>1. T \in SUBSET Nat
    OBVIOUS
  <2> HIDE DEF T
  <2> QED  BY <2>1, Least
<1>2. n # 0 /\ n - 1 \in 0 .. N /\ ~(n <= n - 1)
  BY <1>1
<1> QED  BY <1>1, <1>2

-----------------------------------------------------------------------------
(* The documents above a document *)

\* The function that Ancestry follows, n links far.
Follows(up, documents, d, n) ==
    up = [k \in 0 .. n |->
             IF k = 0 THEN {d}
             ELSE up[k - 1] \cup {documents[a].parent : a \in up[k - 1] \ {NoDoc}}]

\* The recursive definition defines a function.
LEMMA LinksExist ==
    ASSUME NEW documents, NEW d, NEW N \in Nat
    PROVE  \E up : Follows(up, documents, d, N)
<1> DEFINE S == {n \in 0 .. N : \E up : Follows(up, documents, d, n)}
<1>1. 0 \in S
  <2>1. Follows([k \in 0 .. 0 |-> {d}], documents, d, 0)
    BY DEF Follows
  <2> QED  BY <2>1
<1>2. \A n \in 1 .. N : n - 1 \in S => n \in S
  <2> SUFFICES ASSUME NEW n \in 1 .. N, n - 1 \in S
               PROVE  \E up : Follows(up, documents, d, n)
    OBVIOUS
  <2>1. PICK up : Follows(up, documents, d, n - 1)
    OBVIOUS
  <2> DEFINE Next(u, k) == u[k - 1] \cup {documents[a].parent : a \in u[k - 1] \ {NoDoc}}
             longer == [k \in 0 .. n |-> IF k = n THEN Next(up, n) ELSE up[k]]
  <2>2. \A k \in 1 .. n - 1 : up[k] = Next(up, k)
    BY <2>1 DEF Follows
  <2>3. up[0] = {d}
    BY <2>1 DEF Follows
  <2>4. \A k \in 1 .. n : longer[k] = Next(longer, k)
    BY <2>2
  <2>5. longer[0] = {d}
    BY <2>3
  <2>6. longer = [k \in 0 .. n |-> longer[k]]
    OBVIOUS
  <2>7. Follows(longer, documents, d, n)
    <3> HIDE DEF longer
    <3>1. \A k \in 0 .. n : longer[k] = IF k = 0 THEN {d} ELSE Next(longer, k)
      <4> TAKE k \in 0 .. n
      <4> HIDE DEF Next
      <4>1. k = 0 \/ k \in 1 .. n
        OBVIOUS
      <4> QED  BY <4>1, <2>4, <2>5
    <3> QED  BY <3>1, <2>6 DEF Follows
  <2> QED  BY <2>7
<1>3. \A n \in 0 .. N : n \in S
  <2> HIDE DEF S
  <2> QED  BY <1>1, <1>2, UpTo
<1> QED  BY <1>3

\* Ancestry is what up has collected at its last link.
Climbs(up, documents, d) ==
    /\ up[0] = {d}
    /\ \A k \in 1 .. MaxDocuments :
          up[k] = up[k - 1] \cup {documents[a].parent : a \in up[k - 1] \ {NoDoc}}
    /\ Ancestry(documents, d) = up[MaxDocuments]

LEMMA AncestryClimbs ==
    ASSUME NEW documents, NEW d
    PROVE  \E up : Climbs(up, documents, d)
<1> DEFINE up == CHOOSE u : Follows(u, documents, d, MaxDocuments)
<1>1. Follows(up, documents, d, MaxDocuments)
  BY LinksExist, DocumentBound
<1>2. Ancestry(documents, d) = up[MaxDocuments]
  BY DEF Ancestry, Follows
<1> HIDE DEF up
<1>3. up[0] = {d}
  BY <1>1, DocumentBound DEF Follows
<1>4. \A k \in 1 .. MaxDocuments :
         up[k] = up[k - 1] \cup {documents[a].parent : a \in up[k - 1] \ {NoDoc}}
  <2> DEFINE F(k) == up[k - 1] \cup {documents[a].parent : a \in up[k - 1] \ {NoDoc}}
  <2>1. up = [k \in 0 .. MaxDocuments |-> IF k = 0 THEN {d} ELSE F(k)]
    BY <1>1 DEF Follows
  <2> SUFFICES ASSUME NEW k \in 1 .. MaxDocuments PROVE up[k] = F(k)
    OBVIOUS
  <2> HIDE DEF F
  <2> QED  BY <2>1, DocumentBound
<1> QED  BY <1>2, <1>3, <1>4 DEF Climbs

\* A document is among the documents above it, and so is its parent.
LEMMA AncestryHasParent ==
    ASSUME NEW documents, NEW d, d # NoDoc
    PROVE  d \in Ancestry(documents, d) /\ documents[d].parent \in Ancestry(documents, d)
<1>1. PICK up : Climbs(up, documents, d)
  BY AncestryClimbs
<1> DEFINE S == {k \in 1 .. MaxDocuments : {d, documents[d].parent} \subseteq up[k]}
           T == {k \in Nat : k + 1 \in S}
<1>2. 0 \in T
  BY <1>1, DocumentBound DEF Climbs
<1>3. \A n \in 1 .. MaxDocuments - 1 : n - 1 \in T => n \in T
  BY <1>1, DocumentBound DEF Climbs
<1>4. MaxDocuments - 1 \in Nat /\ MaxDocuments - 1 \in 0 .. MaxDocuments - 1
  BY DocumentBound
<1>5. MaxDocuments - 1 \in T
  <2> HIDE DEF T
  <2> QED  BY <1>2, <1>3, <1>4, UpTo
<1>6. MaxDocuments \in S
  BY <1>5, DocumentBound
<1> QED  BY <1>1, <1>6 DEF Climbs

\* Nothing leads out of a group of documents that has the parents of its own.
LEMMA AncestryStays ==
    ASSUME NEW documents, NEW group, NEW d \in group,
           \A a \in group : documents[a].parent \in group
    PROVE  Ancestry(documents, d) \subseteq group
<1>1. PICK up : Climbs(up, documents, d)
  BY AncestryClimbs
<1> DEFINE S == {k \in 0 .. MaxDocuments : up[k] \subseteq group}
<1>2. 0 \in S
  BY <1>1, DocumentBound DEF Climbs
<1>3. \A n \in 1 .. MaxDocuments : n - 1 \in S => n \in S
  BY <1>1 DEF Climbs
<1>4. MaxDocuments \in Nat /\ MaxDocuments \in 0 .. MaxDocuments
  BY DocumentBound
<1>5. MaxDocuments \in S
  <2> HIDE DEF S
  <2> QED  BY <1>2, <1>3, <1>4, UpTo
<1> QED  BY <1>1, <1>5 DEF Climbs

\* The documents of a project hang together as a forest; ActiveDocumentsFormForest
\* says it of the present ones.
Forest(documents) ==
    /\ Active(documents) # {}
    /\ \A d \in Active(documents) : documents[d].parent \in Active(documents) \cup {NoDoc}
    /\ \A group \in (SUBSET Active(documents)) \ {{}} :
          \E d \in group : documents[d].parent \notin group

\* What validate_final_document_tree accepts is a forest.
LEMMA TreeIsForest ==
    ASSUME NEW documents, FinalDocumentTree(documents)
    PROVE  Forest(documents)
<1>1. NoDoc \notin Active(documents)
  BY DEF Active, Docs, NoDoc
<1>2. \A d \in Active(documents) : documents[d].parent \in Active(documents) \cup {NoDoc}
  BY <1>1, AncestryHasParent DEF FinalDocumentTree
<1>3. ASSUME NEW group \in (SUBSET Active(documents)) \ {{}},
             \A d \in group : documents[d].parent \in group
      PROVE  FALSE
  <2>1. PICK d \in group : d \in Active(documents)
    OBVIOUS
  <2>2. NoDoc \in Ancestry(documents, d)
    BY <2>1 DEF FinalDocumentTree
  <2>3. Ancestry(documents, d) \subseteq group
    BY <1>3, <2>1, AncestryStays
  <2> QED  BY <1>1, <2>2, <2>3
<1> QED  BY <1>2, <1>3 DEF Forest, FinalDocumentTree

-----------------------------------------------------------------------------
(* The invariant *)

DocRecord ==
    [ status : {"absent", "active", "archived"}, parent : Docs \cup {NoDoc},
      title : Titles, key : Nat, revision : Nat ]

BlockRecord == [active : BOOLEAN, text : Texts, revision : Nat]

JournalRecord == [base : Nat, new : Nat, before : Texts, after : Texts]

Views ==
    [ docs   : UNION {[ids -> MetaRecord] : ids \in SUBSET Docs},
      blocks : UNION {[ids -> Texts] : ids \in SUBSET Docs} ]

StoreType ==
    /\ project \in [head : Nat, revision : Nat]
    /\ commits \in Seq([parent : Nat, root : Views])
    /\ doc \in [Docs -> DocRecord]
    /\ block \in [Docs -> BlockRecord]
    /\ journal \in [Docs -> Seq(JournalRecord)]
    /\ snapshots \subseteq [commit : Nat, view : Views]
    /\ queue \in [Scopes -> Nat]
    /\ surplus \subseteq Docs

\* Nobody but the store makes commits, each on top of the last.
HeadIsLast == Len(commits) >= 1 /\ project.head = Len(commits)

\* The documents of a view are a forest, like the ones it was taken from.
ViewForest(docs) ==
    /\ DOMAIN docs # {}
    /\ \A d \in DOMAIN docs : docs[d].parent \in DOMAIN docs \cup {NoDoc}
    /\ \A group \in (SUBSET DOMAIN docs) \ {{}} : \E d \in group : docs[d].parent \notin group

\* A snapshot is what its commit binds, and a state the project was in.
SnapshotsBind ==
    \A s \in snapshots :
        /\ s.commit \in DOMAIN commits
        /\ Without(commits[s.commit].root, surplus) = Without(s.view, surplus)
        /\ DOMAIN s.view.blocks \subseteq DOMAIN s.view.docs
        /\ ViewForest(s.view.docs)

\* Second part of Reopens; a document yet to be created has no journal.
JournalGivesRevision ==
    \A d \in Docs :
        /\ block[d].revision = IF journal[d] = << >> THEN 0
                               ELSE journal[d][Len(journal[d])].new
        /\ doc[d].status = "absent" => journal[d] = << >>

\* Last part of Reopens.
QueueIsLive ==
    \A s \in Scopes : queue[s] # 0 => queue[s] \in DOMAIN commits /\ s \in ActiveScopes

StoreInvariant ==
    /\ StoreType
    /\ HeadIsLast
    /\ SnapshotsBind
    /\ HeadRootIsContent
    /\ ActiveDocumentsFormForest
    /\ JournalGivesRevision
    /\ QueueIsLive

\* The invariant contains Reopens and the type invariant.
LEMMA InvariantReopens ==
    ASSUME StoreInvariant
    PROVE  Reopens
<1>1. project.head \in DOMAIN commits
  BY DEF StoreInvariant, StoreType, HeadIsLast
<1> QED  BY <1>1 DEF StoreInvariant, JournalGivesRevision, QueueIsLive, Reopens

LEMMA ViewsAreViews ==
    ASSUME NEW v \in Views
    PROVE  IsView(v)
BY DEF Views, IsView

LEMMA InvariantTypes ==
    ASSUME StoreType
    PROVE  PsTypeOK
<1>1. \A i \in DOMAIN commits : commits[i].parent \in Nat /\ IsView(commits[i].root)
  <2> DEFINE C == [parent : Nat, root : Views]
  <2>1. \A i \in DOMAIN commits : commits[i] \in C
    <3>1. commits \in Seq(C)
      BY DEF StoreType
    <3> HIDE DEF C
    <3> QED  BY <3>1
  <2> QED  BY <2>1, ViewsAreViews
<1>2. \A s \in snapshots : s.commit \in Nat /\ IsView(s.view)
  BY ViewsAreViews DEF StoreType
<1> QED
  BY <1>1, <1>2 DEF StoreType, PsTypeOK, DocRecord, BlockRecord, JournalRecord

-----------------------------------------------------------------------------
(* Views *)

LEMMA DocsAreNumbers == Docs \subseteq Nat /\ NoDoc \notin Docs /\ 1 \in Docs
BY DocumentBound DEF Docs, NoDoc

\* The view of rows of the right type is one, and shows the active documents.
LEMMA ViewShows ==
    ASSUME NEW documents \in [Docs -> DocRecord], NEW blocks \in [Docs -> BlockRecord]
    PROVE  /\ View(documents, blocks) \in Views
           /\ DOMAIN View(documents, blocks).docs = Active(documents)
           /\ DOMAIN View(documents, blocks).blocks = ActiveBlocks(documents, blocks)
           /\ \A d \in Active(documents) :
                 View(documents, blocks).docs[d] = Meta(documents[d])
           /\ \A d \in ActiveBlocks(documents, blocks) :
                 View(documents, blocks).blocks[d] = blocks[d].text
<1> DEFINE ds == [d \in Active(documents) |-> Meta(documents[d])]
           bs == [d \in ActiveBlocks(documents, blocks) |-> blocks[d].text]
<1>1. View(documents, blocks).docs = ds /\ View(documents, blocks).blocks = bs
  BY DEF View
<1>2. ds \in [Active(documents) -> MetaRecord] /\ Active(documents) \in SUBSET Docs
  BY DEF Active, Meta, MetaRecord, DocRecord
<1>3. /\ bs \in [ActiveBlocks(documents, blocks) -> Texts]
      /\ ActiveBlocks(documents, blocks) \in SUBSET Docs
  BY DEF ActiveBlocks, Active, BlockRecord
<1>4. View(documents, blocks) \in Views
  <2>1. View(documents, blocks) = [docs |-> ds, blocks |-> bs]
    BY DEF View
  <2>2. ds \in UNION {[ids -> MetaRecord] : ids \in SUBSET Docs}
    BY <1>2
  <2>3. bs \in UNION {[ids -> Texts] : ids \in SUBSET Docs}
    BY <1>3
  <2> HIDE DEF ds, bs
  <2> QED  BY <2>1, <2>2, <2>3 DEF Views
<1> QED  BY <1>1, <1>4

\* The present project is a forest, and so is the view of it.
LEMMA PresentViewForest ==
    ASSUME StoreType, ActiveDocumentsFormForest
    PROVE  ViewForest(View(doc, block).docs)
<1>1. /\ DOMAIN View(doc, block).docs = Active(doc)
      /\ \A d \in Active(doc) : View(doc, block).docs[d] = Meta(doc[d])
  BY ViewShows DEF StoreType
<1>2. \A d \in Active(doc) : View(doc, block).docs[d].parent = doc[d].parent
  <2>1. \A d \in Active(doc) : Meta(doc[d]).parent = doc[d].parent
    BY DEF Meta
  <2> QED  BY <1>1, <2>1, Zenon
<1> QED  BY <1>1, <1>2, Zenon DEF ViewForest, ActiveDocumentsFormForest

\* Two views that differ in some blocks at most differ in more blocks at most.
LEMMA WithoutMore ==
    ASSUME NEW v, NEW w, NEW ids, NEW more, Without(v, ids) = Without(w, ids), ids \subseteq more
    PROVE  Without(v, more) = Without(w, more)
<1>1. v.docs = w.docs /\ DOMAIN v.blocks \ ids = DOMAIN w.blocks \ ids
  BY DEF Without
<1>2. \A d \in DOMAIN v.blocks \ ids : v.blocks[d] = w.blocks[d]
  BY DEF Without
<1>3. /\ DOMAIN v.blocks \ more = DOMAIN w.blocks \ more
      /\ \A d \in DOMAIN v.blocks \ more : v.blocks[d] = w.blocks[d]
  BY <1>1, <1>2
<1> QED  BY <1>1, <1>3 DEF Without

-----------------------------------------------------------------------------
(* Commits and the queue *)

\* What every mutation ends with.
LEMMA CommitGrows ==
    ASSUME StoreType, HeadIsLast, NEW root \in Views, MakeCommit(root)
    PROVE  /\ project' \in [head : Nat, revision : Nat]
           /\ commits' \in Seq([parent : Nat, root : Views])
           /\ HeadIsLast'
           /\ project'.head = NextCommit
           /\ NextCommit \in DOMAIN commits' /\ NextCommit > 0
           /\ DOMAIN commits \subseteq DOMAIN commits'
           /\ \A i \in DOMAIN commits : commits'[i] = commits[i]
           /\ commits'[NextCommit].root = root
           /\ commits' # commits /\ NextCommit > project.head
<1> DEFINE new == [parent |-> project.head, root |-> root]
<1>1. new \in [parent : Nat, root : Views]
  BY DEF StoreType
<1>2. commits' = Append(commits, new) /\ commits \in Seq([parent : Nat, root : Views])
  BY DEF MakeCommit, StoreType
<1>3. new.root = root
  OBVIOUS
<1> HIDE DEF new
<1>4. /\ commits' \in Seq([parent : Nat, root : Views])
      /\ Len(commits') = Len(commits) + 1
      /\ \A i \in 1 .. Len(commits) : commits'[i] = commits[i]
      /\ commits'[Len(commits) + 1] = new
  BY <1>1, <1>2
<1>5. DOMAIN commits = 1 .. Len(commits) /\ DOMAIN commits' = 1 .. Len(commits')
  BY <1>2, <1>4
<1>6. /\ project' = [head |-> NextCommit, revision |-> project.revision + 1]
      /\ NextCommit = Len(commits) + 1 /\ Len(commits) \in Nat
      /\ project.head = Len(commits) /\ project.revision \in Nat
  BY <1>2 DEF MakeCommit, NextCommit, HeadIsLast, StoreType
<1>7. project' \in [head : Nat, revision : Nat] /\ project'.head = NextCommit
  BY <1>6
<1>8. HeadIsLast'
  BY <1>4, <1>6, <1>7 DEF HeadIsLast
<1>9. commits' # commits
  BY <1>4, <1>6
<1> QED  BY <1>3, <1>4, <1>5, <1>6, <1>7, <1>8, <1>9

\* The snapshots stay good while the history grows.
LEMMA SnapshotsStay ==
    ASSUME SnapshotsBind, snapshots' = snapshots, surplus \subseteq surplus',
           DOMAIN commits \subseteq DOMAIN commits',
           \A i \in DOMAIN commits : commits'[i] = commits[i]
    PROVE  SnapshotsBind'
<1> SUFFICES ASSUME NEW s \in snapshots
             PROVE  /\ s.commit \in DOMAIN commits'
                    /\ Without(commits'[s.commit].root, surplus') = Without(s.view, surplus')
                    /\ DOMAIN s.view.blocks \subseteq DOMAIN s.view.docs
                    /\ ViewForest(s.view.docs)
  BY Zenon DEF SnapshotsBind
<1>1. /\ s.commit \in DOMAIN commits
      /\ Without(commits[s.commit].root, surplus) = Without(s.view, surplus)
      /\ DOMAIN s.view.blocks \subseteq DOMAIN s.view.docs
      /\ ViewForest(s.view.docs)
  BY DEF SnapshotsBind
<1>2. Without(commits[s.commit].root, surplus') = Without(s.view, surplus')
  BY <1>1, WithoutMore
<1> QED  BY <1>1, <1>2

\* What stays registered, what is dropped and what is registered anew.
LEMMA QueueMoves ==
    ASSUME StoreType, QueueIsLive, NEW come \in SUBSET Scopes, NEW gone,
           come \subseteq ActiveScopes', gone \cap ActiveScopes' = {},
           ActiveScopes \ gone \subseteq ActiveScopes',
           queue' = Enqueue(Dequeue(queue, gone), come),
           NextCommit \in Nat, NextCommit \in DOMAIN commits',
           DOMAIN commits \subseteq DOMAIN commits'
    PROVE  /\ queue' \in [Scopes -> Nat]
           /\ QueueIsLive'
           /\ \A s \in come : queue'[s] = NextCommit
           /\ \A s \in Scopes \cap ActiveScopes' : queue'[s] \in {queue[s], NextCommit}
<1>1. \A s \in Scopes :
         queue'[s] = IF s \in come THEN NextCommit ELSE IF s \in gone THEN 0 ELSE queue[s]
  BY DEF Enqueue, Dequeue
<1>2. queue' \in [Scopes -> Nat]
  <2>1. queue \in [Scopes -> Nat]
    BY DEF StoreType
  <2>2. queue' = [s \in Scopes |-> queue'[s]]
    BY DEF Enqueue
  <2>3. \A s \in Scopes : queue'[s] \in Nat
    BY <1>1, <2>1
  <2> QED  BY <2>2, <2>3
<1>3. ASSUME NEW s \in Scopes, queue'[s] # 0
      PROVE  queue'[s] \in DOMAIN commits' /\ s \in ActiveScopes'
  BY <1>1, <1>3 DEF QueueIsLive
<1>4. QueueIsLive'
  BY <1>3 DEF QueueIsLive
<1> QED  BY <1>1, <1>2, <1>4

LEMMA NothingDequeued ==
    ASSUME StoreType
    PROVE  Dequeue(queue, {}) = queue
BY DEF StoreType, Dequeue

\* Everything that is active is in the domain of the queue.
LEMMA ActiveScopesAreScopes ==
    /\ ActiveScopes \subseteq Scopes
    /\ <<"project", NoDoc>> \in ActiveScopes
    /\ \A d \in Docs : <<"document", d>> \in ActiveScopes <=> d \in Active(doc)
    /\ \A d \in Docs : <<"block", d>> \in ActiveScopes <=> d \in ActiveBlocks(doc, block)
    /\ \A s \in ActiveScopes :
          \/ s = <<"project", NoDoc>>
          \/ \E d \in Active(doc) : s = <<"document", d>>
          \/ \E d \in ActiveBlocks(doc, block) : s = <<"block", d>>
BY DEF ActiveScopes, Scopes, ProjectScope, DocumentScopes, BlockScopes, Active, ActiveBlocks

-----------------------------------------------------------------------------
(* What a step does *)

\* DocumentRevisionNamesState, of one step.
RevisionGrows ==
    \A d \in Docs :
        doc[d].status # "absent" /\ Visible(d)' # Visible(d) =>
            doc'[d].revision > doc[d].revision

\* ChangeIsQueued, of one step.
ChangeQueued ==
    /\ commits' # commits => queue'[<<"project", NoDoc>>] = NextCommit
    /\ \A d \in Active(doc)' :
          Visible(d)' # Visible(d) => queue'[<<"document", d>>] = NextCommit
    /\ \A d \in ActiveBlocks(doc, block)' \ surplus' :
          d \notin ActiveBlocks(doc, block) \/ block'[d].text # block[d].text
            => queue'[<<"block", d>>] = NextCommit

\* Nothing that is active drops out of the queue.
QueueKeepsActive == \A s \in ActiveScopes' : queue'[s] \in {queue[s], NextCommit}

\* What a host may have read changes with the head.
HeadAdvances ==
    \/ project'.head > project.head
    \/ project'.head = project.head /\ doc' = doc /\ block' = block

StoreStep ==
    /\ RevisionGrows
    /\ ChangeQueued
    /\ QueueKeepsActive
    /\ HeadAdvances
    /\ surplus \subseteq surplus'
    /\ commits' = commits \/ project'.head = NextCommit

-----------------------------------------------------------------------------
(* The initial state *)

LEMMA InitStore ==
    ASSUME PsInit
    PROVE  StoreInvariant
<1> DEFINE title == CHOOSE t \in Titles : TRUE
           text == CHOOSE t \in Texts : TRUE
<1>1. title \in Titles /\ text \in Texts
  BY SomethingToWrite
<1>2. /\ AbsentDocument = [status |-> "absent", parent |-> NoDoc, title |-> title, key |-> 0,
                           revision |-> 0]
      /\ AbsentBlock = [active |-> FALSE, text |-> text, revision |-> 0]
  BY DEF AbsentDocument, AbsentBlock
<1> HIDE DEF title, text
<1>3. doc \in [Docs -> DocRecord] /\ block \in [Docs -> BlockRecord]
  BY <1>1, <1>2 DEF PsInit, DocRecord, BlockRecord
<1>4. /\ \A d \in Docs : doc[d].status = (IF d = 1 THEN "active" ELSE "absent")
      /\ \A d \in Docs : doc[d].parent = NoDoc
      /\ \A d \in Docs : block[d].active = (d = 1) /\ block[d].revision = 0
  BY <1>2 DEF PsInit
<1>5. Active(doc) = {1} /\ ActiveBlocks(doc, block) = {1}
  <2>1. Active(doc) = {1}
    BY ZenonT(40), <1>4, DocsAreNumbers DEF Active
  <2>2. block[1].active
    BY <1>4, DocsAreNumbers
  <2> QED  BY <2>1, <2>2 DEF ActiveBlocks
<1>6. /\ commits \in Seq([parent : Nat, root : Views])
      /\ Len(commits) = 1 /\ DOMAIN commits = {1}
      /\ commits[1].root = View(doc, block)
  <2> DEFINE C == [parent : Nat, root : Views]
             first == [parent |-> 0, root |-> View(doc, block)]
  <2>1. first \in C /\ first.root = View(doc, block)
    BY <1>3, ViewShows
  <2>2. commits = <<first>>
    BY DEF PsInit
  <2> HIDE DEF C, first
  <2>3. commits \in Seq(C) /\ Len(commits) = 1 /\ DOMAIN commits = {1} /\ commits[1] = first
    BY <2>1, <2>2
  <2> QED  BY <2>1, <2>3 DEF C
<1>7. /\ project = [head |-> 1, revision |-> 0]
      /\ journal = [d \in Docs |-> << >>]
      /\ snapshots = {} /\ surplus = {}
  BY DEF PsInit
<1>8. StoreType
  <2>1. queue \in [Scopes -> Nat]
    BY DEF PsInit
  <2>2. journal \in [Docs -> Seq(JournalRecord)]
    BY <1>7
  <2> QED  BY <1>3, <1>6, <1>7, <2>1, <2>2 DEF StoreType
<1>9. HeadIsLast /\ SnapshotsBind /\ HeadRootIsContent
  BY <1>6, <1>7 DEF HeadIsLast, SnapshotsBind, HeadRootIsContent
<1>10. ActiveDocumentsFormForest
  <2>1. \A group \in (SUBSET {1}) \ {{}} : 1 \in group /\ NoDoc \notin group
    BY DocsAreNumbers
  <2> QED  BY <1>4, <1>5, <2>1, DocsAreNumbers DEF ActiveDocumentsFormForest
<1>11. JournalGivesRevision
  BY <1>4, <1>7 DEF JournalGivesRevision
<1>12. QueueIsLive
  <2>1. \A s \in Scopes : queue[s] # 0 =>
           queue[s] = 1 /\ s \in {<<"project", NoDoc>>, <<"document", 1>>, <<"block", 1>>}
    BY DEF PsInit
  <2> QED  BY <1>5, <1>6, <2>1, ActiveScopesAreScopes, DocsAreNumbers DEF QueueIsLive
<1> QED  BY <1>8, <1>9, <1>10, <1>11, <1>12 DEF StoreInvariant

-----------------------------------------------------------------------------
(* The steps *)

LEMMA NextActiveScopes ==
    /\ ActiveScopes' \subseteq Scopes
    /\ <<"project", NoDoc>> \in ActiveScopes'
    /\ \A d \in Docs : <<"document", d>> \in ActiveScopes' <=> d \in Active(doc')
    /\ \A d \in Docs : <<"block", d>> \in ActiveScopes' <=> d \in ActiveBlocks(doc', block')
    /\ \A s \in ActiveScopes' :
          \/ s = <<"project", NoDoc>>
          \/ \E d \in Active(doc') : s = <<"document", d>>
          \/ \E d \in ActiveBlocks(doc', block') : s = <<"block", d>>
<1>1. ( /\ ActiveScopes \subseteq Scopes
        /\ <<"project", NoDoc>> \in ActiveScopes
        /\ \A d \in Docs : <<"document", d>> \in ActiveScopes <=> d \in Active(doc)
        /\ \A d \in Docs : <<"block", d>> \in ActiveScopes <=> d \in ActiveBlocks(doc, block)
        /\ \A s \in ActiveScopes :
              \/ s = <<"project", NoDoc>>
              \/ \E d \in Active(doc) : s = <<"document", d>>
              \/ \E d \in ActiveBlocks(doc, block) : s = <<"block", d>> )'
  BY ActiveScopesAreScopes, PTL
<1> QED  BY <1>1 DEF Active, ActiveBlocks

\* create_document: the new document is a tree of its own or joins one.
LEMMA CreateKeeps ==
    ASSUME StoreInvariant, NEW known, ExpectedHead(known) => known.doc = doc /\ known.block = block,
           NEW d \in Docs, NEW parent \in Docs \cup {NoDoc}, NEW title \in Titles,
           NEW text \in Texts, CreateDocument(known, d, parent, title, text)
    PROVE  StoreInvariant' /\ StoreStep
<1> DEFINE new == [status |-> "active", parent |-> parent, title |-> title,
                   key |-> NextCommit, revision |-> 0]
           fresh == [active |-> TRUE, text |-> text, revision |-> 0]
           root == View([doc EXCEPT ![d] = new], [block EXCEPT ![d] = fresh])
           come == ProjectScope \cup DocumentScopes({d}) \cup BlockScopes({d})
<1>1. /\ StoreType /\ HeadIsLast /\ SnapshotsBind /\ ActiveDocumentsFormForest
      /\ JournalGivesRevision /\ QueueIsLive
  BY DEF StoreInvariant
<1>2. known.doc = doc /\ known.block = block
  BY Zenon DEF CreateDocument, CreateDocumentWithBlock
<1>3. CreateDocumentWithBlock(known, d, parent, title, text, root)
  BY <1>2, Zenon DEF CreateDocument
<1>4. /\ doc[d].status = "absent"
      /\ parent \in Active(doc) \cup {NoDoc}
      /\ doc' = [doc EXCEPT ![d] = new]
      /\ block' = [block EXCEPT ![d] = fresh]
      /\ queue' = Enqueue(queue, come)
      /\ MakeCommit(root)
      /\ journal' = journal /\ snapshots' = snapshots /\ surplus' = surplus
  BY <1>3, Zenon DEF CreateDocumentWithBlock
<1>5. NextCommit \in Nat
  BY <1>1 DEF StoreType, NextCommit
<1>6. new \in DocRecord /\ fresh \in BlockRecord
  BY <1>5 DEF DocRecord, BlockRecord
<1>7. doc' \in [Docs -> DocRecord] /\ block' \in [Docs -> BlockRecord]
  <2> HIDE DEF new, fresh
  <2> QED  BY <1>1, <1>4, <1>6 DEF StoreType
<1>8. root \in Views /\ root = View(doc', block')
  BY <1>4, <1>7, ViewShows
<1>9. /\ \A e \in Docs \ {d} : doc'[e] = doc[e] /\ block'[e] = block[e]
      /\ doc'[d] = new /\ block'[d] = fresh
  BY <1>1, <1>4 DEF StoreType
<1>10. /\ Active(doc') = Active(doc) \cup {d} /\ d \notin Active(doc)
       /\ ActiveBlocks(doc', block') = ActiveBlocks(doc, block) \cup {d}
  BY <1>4, <1>9 DEF Active, ActiveBlocks
<1> HIDE DEF new, fresh, root
<1>11. /\ project' \in [head : Nat, revision : Nat]
       /\ commits' \in Seq([parent : Nat, root : Views])
       /\ HeadIsLast'
       /\ project'.head = NextCommit
       /\ NextCommit \in DOMAIN commits' /\ NextCommit > 0
       /\ DOMAIN commits \subseteq DOMAIN commits'
       /\ \A i \in DOMAIN commits : commits'[i] = commits[i]
       /\ commits'[NextCommit].root = root
       /\ commits' # commits /\ NextCommit > project.head
  BY <1>1, <1>4, <1>8, CommitGrows
<1>12. SnapshotsBind'
  BY <1>1, <1>4, <1>11, SnapshotsStay
<1>13. HeadRootIsContent'
  BY <1>8, <1>11 DEF HeadRootIsContent
<1>14. ActiveDocumentsFormForest'
  <2>1. \A e \in Active(doc) : doc'[e].parent \in Active(doc) \cup {NoDoc} /\ doc'[e] = doc[e]
    BY <1>1, <1>9, <1>10 DEF ActiveDocumentsFormForest, Active
  <2>2. doc'[d].parent \in Active(doc) \cup {NoDoc}
    BY <1>4, <1>9 DEF new
  <2>3. ASSUME NEW group \in (SUBSET Active(doc')) \ {{}}
        PROVE  \E e \in group : doc'[e].parent \notin group
    <3>1. CASE group = {d}
      BY <1>10, <2>2, <3>1, DocsAreNumbers
    <3>2. CASE group # {d}
      <4>1. group \ {d} \in (SUBSET Active(doc)) \ {{}}
        BY <1>10, <3>2
      <4>2. PICK e \in group \ {d} : doc[e].parent \notin group \ {d}
        BY <1>1, <4>1, Zenon DEF ActiveDocumentsFormForest
      <4>3. e \in Active(doc) /\ doc'[e].parent = doc[e].parent
        BY <2>1, <4>1
      <4>4. doc'[e].parent # d
        BY <1>10, <2>1, <4>3, DocsAreNumbers
      <4> QED  BY <4>2, <4>3, <4>4
    <3> QED  BY <3>1, <3>2
  <2>4. \A e \in Active(doc') : doc'[e].parent \in Active(doc') \cup {NoDoc}
    BY <1>10, <2>1, <2>2
  <2> QED  BY <1>10, <2>3, <2>4, Zenon DEF ActiveDocumentsFormForest
<1>15. JournalGivesRevision'
  <2>1. ASSUME NEW e \in Docs
        PROVE  /\ block'[e].revision = IF journal[e] = << >> THEN 0
                                       ELSE journal[e][Len(journal[e])].new
               /\ doc'[e].status = "absent" => journal[e] = << >>
    <3>1. CASE e = d
      BY <1>1, <1>4, <1>9, <3>1 DEF JournalGivesRevision, fresh, new
    <3>2. CASE e # d
      BY <1>1, <1>9, <3>2 DEF JournalGivesRevision
    <3> QED  BY <3>1, <3>2
  <2> QED  BY <1>4, <2>1, Zenon DEF JournalGivesRevision
<1>16. /\ queue' \in [Scopes -> Nat]
       /\ QueueIsLive'
       /\ \A s \in come : queue'[s] = NextCommit
       /\ \A s \in Scopes \cap ActiveScopes' : queue'[s] \in {queue[s], NextCommit}
  <2>1. come \in SUBSET Scopes
    BY DEF Scopes, ProjectScope, DocumentScopes, BlockScopes
  <2>2. come \subseteq ActiveScopes' /\ ActiveScopes \subseteq ActiveScopes'
    BY <1>10 DEF ActiveScopes, ProjectScope, DocumentScopes, BlockScopes
  <2> HIDE DEF come
  <2>3. queue' = Enqueue(Dequeue(queue, {}), come)
    BY <1>1, <1>4, NothingDequeued
  <2>4. {} \cap ActiveScopes' = {} /\ ActiveScopes \ {} \subseteq ActiveScopes'
    BY <2>2
  <2> QED  BY <1>1, <1>5, <1>11, <2>1, <2>2, <2>3, <2>4, QueueMoves
<1>17. StoreType'
  BY <1>1, <1>4, <1>7, <1>11, <1>16 DEF StoreType
<1>18. RevisionGrows
  BY <1>4, <1>9 DEF RevisionGrows, Visible
<1>19. ChangeQueued
  <2>1. /\ <<"project", NoDoc>> \in come /\ <<"document", d>> \in come
        /\ <<"block", d>> \in come
    BY DEF ProjectScope, DocumentScopes, BlockScopes
  <2> HIDE DEF come
  <2>2. \A e \in Active(doc') : Visible(e)' # Visible(e) => e = d
    BY <1>9 DEF Visible, Active
  <2>3. \A e \in ActiveBlocks(doc', block') :
           e \notin ActiveBlocks(doc, block) \/ block'[e].text # block[e].text => e = d
    BY <1>9, <1>10 DEF ActiveBlocks, Active
  <2> QED  BY <1>16, <2>1, <2>2, <2>3 DEF ChangeQueued
<1>20. QueueKeepsActive
  BY <1>16, NextActiveScopes DEF QueueKeepsActive
<1>21. HeadAdvances
  BY <1>11 DEF HeadAdvances
<1> QED
  BY <1>4, <1>11, <1>12, <1>13, <1>14, <1>15, <1>16, <1>17, <1>18, <1>19, <1>20, <1>21
  DEF StoreInvariant, StoreStep

\* Two lists of documents that differ in revisions only show the same.
LEMMA RevisionsDoNotShow ==
    ASSUME NEW these \in [Docs -> DocRecord], NEW those \in [Docs -> DocRecord],
           NEW blocks \in [Docs -> BlockRecord],
           \A d \in Docs : /\ these[d].status = those[d].status
                           /\ Meta(these[d]) = Meta(those[d])
    PROVE  Active(these) = Active(those) /\ View(these, blocks) = View(those, blocks)
<1>1. Active(these) = Active(those)
  BY DEF Active
<1>2. ActiveBlocks(these, blocks) = ActiveBlocks(those, blocks)
  BY <1>1 DEF ActiveBlocks
<1>3. [d \in Active(these) |-> Meta(these[d])] = [d \in Active(those) |-> Meta(those[d])]
  BY <1>1 DEF Active
<1> QED  BY <1>1, <1>2, <1>3 DEF View

\* What a host batch makes of the documents: the mutated ones are there, and one
\* that was away comes back by the operation "restore" only.
Rearranges(next, mutated, operation) ==
    /\ next \in [Docs -> DocRecord]
    /\ mutated \in SUBSET Docs
    /\ \A d \in Docs \ mutated : next[d] = doc[d]
    /\ \A d \in mutated :
          /\ next[d].status # "absent"
          /\ next[d].status = "active" /\ d \notin Active(doc) => operation = "restore"

\* apply_document_batch, as the host calls it.
LEMMA BatchKeeps ==
    ASSUME StoreInvariant, NEW known, ExpectedHead(known) => known.doc = doc /\ known.block = block,
           NEW next, NEW mutated, NEW operation, Rearranges(next, mutated, operation),
           HostBatch(known, next, mutated, operation)
    PROVE  StoreInvariant' /\ StoreStep
<1> DEFINE final == [d \in Docs |-> IF d \in mutated
                                    THEN [next[d] EXCEPT !.revision = doc[d].revision + 1]
                                    ELSE doc[d]]
           staying == mutated \cap Active(final)
           away == mutated \ Active(final)
           parents == {doc[d].parent : d \in mutated} \cup {next[d].parent : d \in mutated}
           blocks == IF operation = "restore" THEN {d \in staying : block[d].active} ELSE {}
           gone == DocumentScopes(away) \cup BlockScopes(away)
           come == ProjectScope \cup DocumentScopes(staying \cup (parents \cap Active(final)))
                     \cup BlockScopes(blocks)
           root == View(next, known.block)
<1>1. /\ StoreType /\ HeadIsLast /\ SnapshotsBind /\ ActiveDocumentsFormForest
      /\ JournalGivesRevision /\ QueueIsLive
  BY DEF StoreInvariant
<1>2. /\ ExpectedHead(known)
      /\ \A d \in mutated : doc[d].status # "absent"
      /\ FinalDocumentTree(final)
      /\ doc' = final
      /\ queue' = Enqueue(Dequeue(queue, gone), come)
      /\ MakeCommit(root)
      /\ block' = block /\ journal' = journal /\ snapshots' = snapshots /\ surplus' = surplus
  BY Zenon DEF HostBatch, ApplyDocumentBatch
<1>3. known.block = block
  BY <1>2
<1>4. /\ next \in [Docs -> DocRecord]
      /\ mutated \in SUBSET Docs
      /\ \A d \in Docs \ mutated : next[d] = doc[d]
      /\ \A d \in mutated :
            /\ next[d].status # "absent"
            /\ next[d].status = "active" /\ d \notin Active(doc) => operation = "restore"
  BY DEF Rearranges
<1>5. doc \in [Docs -> DocRecord] /\ block \in [Docs -> BlockRecord]
  BY <1>1 DEF StoreType
<1>6. \A d \in Docs : final[d] \in DocRecord
  BY <1>4, <1>5 DEF DocRecord
<1>7. doc' \in [Docs -> DocRecord]
  BY <1>2, <1>6
<1>8. \A d \in Docs :
         /\ d \notin mutated => doc'[d] = doc[d]
         /\ d \in mutated => /\ doc'[d].status = next[d].status
                             /\ Meta(doc'[d]) = Meta(next[d])
                             /\ doc'[d].revision = doc[d].revision + 1
  BY <1>2, <1>4, <1>5 DEF DocRecord, Meta
<1>9. Active(final) = Active(doc')
  BY <1>2
<1> HIDE DEF final
<1>10. Active(doc') = Active(next) /\ View(doc', block) = View(next, block)
  BY <1>4, <1>5, <1>7, <1>8, RevisionsDoNotShow
<1>11. root \in Views /\ root = View(doc', block')
  BY <1>2, <1>3, <1>4, <1>5, <1>10, ViewShows
<1>12. /\ \A d \in Active(doc') \ Active(doc) : d \in mutated /\ operation = "restore"
       /\ \A d \in Active(doc) \ Active(doc') : d \in mutated
  BY <1>4, <1>8, <1>10 DEF Active
<1>13. /\ staying = mutated \cap Active(doc') /\ away = mutated \ Active(doc')
       /\ blocks \subseteq staying
       /\ operation = "restore" => blocks = {d \in staying : block[d].active}
  BY <1>9
<1> HIDE DEF staying, away, parents, blocks, root
<1>14. /\ project' \in [head : Nat, revision : Nat]
       /\ commits' \in Seq([parent : Nat, root : Views])
       /\ HeadIsLast'
       /\ project'.head = NextCommit
       /\ NextCommit \in DOMAIN commits' /\ NextCommit > 0
       /\ DOMAIN commits \subseteq DOMAIN commits'
       /\ \A i \in DOMAIN commits : commits'[i] = commits[i]
       /\ commits'[NextCommit].root = root
       /\ commits' # commits /\ NextCommit > project.head
  BY <1>1, <1>2, <1>11, CommitGrows
<1>15. SnapshotsBind'
  BY <1>1, <1>2, <1>14, SnapshotsStay
<1>16. HeadRootIsContent'
  BY <1>11, <1>14 DEF HeadRootIsContent
<1>17. ActiveDocumentsFormForest'
  BY <1>2, TreeIsForest, Zenon DEF Forest, ActiveDocumentsFormForest
<1>18. JournalGivesRevision'
  BY <1>1, <1>2, <1>4, <1>8 DEF JournalGivesRevision
<1>19. /\ <<"project", NoDoc>> \in come
       /\ \A d \in staying : <<"document", d>> \in come
       /\ \A d \in blocks : <<"block", d>> \in come
       /\ \A s \in come : \/ s = <<"project", NoDoc>>
                          \/ \E d \in Active(doc') : s = <<"document", d>>
                          \/ \E d \in blocks : s = <<"block", d>>
       /\ \A s \in gone : \E d \in away : s = <<"document", d>> \/ s = <<"block", d>>
       /\ \A d \in away : <<"document", d>> \in gone /\ <<"block", d>> \in gone
  BY <1>9, <1>13 DEF ProjectScope, DocumentScopes, BlockScopes
<1> HIDE DEF come, gone
<1>20. \A d \in blocks : d \in Active(doc') /\ d \in ActiveBlocks(doc', block')
  <2>1. \A d \in blocks : block[d].active
    BY <1>13 DEF blocks
  <2> QED  BY <1>2, <1>13, <2>1 DEF ActiveBlocks
<1>21. /\ queue' \in [Scopes -> Nat]
       /\ QueueIsLive'
       /\ \A s \in come : queue'[s] = NextCommit
       /\ \A s \in Scopes \cap ActiveScopes' : queue'[s] \in {queue[s], NextCommit}
  <2>1. come \subseteq ActiveScopes'
    BY <1>19, <1>20, NextActiveScopes DEF Active
  <2>2. come \in SUBSET Scopes
    BY <2>1, NextActiveScopes
  <2>3. gone \cap ActiveScopes' = {}
    BY <1>4, <1>13, <1>19, NextActiveScopes DEF ActiveBlocks
  <2>4. ActiveScopes \ gone \subseteq ActiveScopes'
    <3>1. ASSUME NEW d \in Active(doc), <<"document", d>> \notin gone
          PROVE  <<"document", d>> \in ActiveScopes'
      BY <1>12, <1>13, <1>19, <3>1, NextActiveScopes DEF Active
    <3>2. ASSUME NEW d \in ActiveBlocks(doc, block), <<"block", d>> \notin gone
          PROVE  <<"block", d>> \in ActiveScopes'
      <4>1. d \in Active(doc) /\ block[d].active /\ d \in Docs
        BY DEF ActiveBlocks, Active
      <4>2. d \in ActiveBlocks(doc', block')
        BY <1>2, <1>12, <1>13, <1>19, <3>2, <4>1 DEF ActiveBlocks
      <4> QED  BY <4>1, <4>2, NextActiveScopes
    <3> QED  BY <3>1, <3>2, ActiveScopesAreScopes, NextActiveScopes
  <2>5. NextCommit \in Nat
    BY <1>1 DEF StoreType, NextCommit
  <2> QED  BY <1>1, <1>2, <1>14, <2>1, <2>2, <2>3, <2>4, <2>5, QueueMoves
<1>22. StoreType'
  BY <1>1, <1>2, <1>7, <1>14, <1>21 DEF StoreType
<1>23. RevisionGrows
  <2>1. \A d \in Docs : doc[d].revision \in Nat
    BY <1>5 DEF DocRecord
  <2> QED  BY <1>2, <1>8, <2>1 DEF RevisionGrows, Visible
<1>24. ChangeQueued
  <2>1. \A d \in Active(doc') : Visible(d)' # Visible(d) => d \in staying
    BY <1>2, <1>8, <1>13 DEF Visible, Active
  <2>2. \A d \in ActiveBlocks(doc', block') :
           d \notin ActiveBlocks(doc, block) \/ block'[d].text # block[d].text => d \in blocks
    BY <1>2, <1>12, <1>13 DEF ActiveBlocks
  <2> QED  BY <1>19, <1>21, <2>1, <2>2 DEF ChangeQueued
<1>25. QueueKeepsActive
  BY <1>21, NextActiveScopes DEF QueueKeepsActive
<1>26. HeadAdvances
  BY <1>14 DEF HeadAdvances
<1> QED
  BY <1>2, <1>14, <1>15, <1>16, <1>17, <1>18, <1>21, <1>22, <1>23, <1>24, <1>25, <1>26
  DEF StoreInvariant, StoreStep

\* apply_block_edit, as the host calls it.
LEMMA SaveKeeps ==
    ASSUME StoreInvariant, NEW known, ExpectedHead(known) => known.doc = doc /\ known.block = block,
           NEW d \in Docs, NEW text \in Texts, SaveBlock(known, d, text)
    PROVE  StoreInvariant' /\ StoreStep
<1> DEFINE come == ProjectScope \cup DocumentScopes({d}) \cup BlockScopes({d})
           root == View(known.doc, [known.block EXCEPT ![d].text = text])
           row == JournalRow(block[d], text)
<1>1. /\ StoreType /\ HeadIsLast /\ SnapshotsBind /\ ActiveDocumentsFormForest
      /\ JournalGivesRevision /\ QueueIsLive
  BY DEF StoreInvariant
<1>2. /\ ExpectedHead(known)
      /\ block[d].active /\ doc[d].status = "active"
      /\ block' = [block EXCEPT ![d].text = text, ![d].revision = @ + 1]
      /\ journal' = [journal EXCEPT ![d] = Append(@, row)]
      /\ doc' = [doc EXCEPT ![d].revision = @ + 1]
      /\ queue' = Enqueue(queue, come)
      /\ MakeCommit(root)
      /\ snapshots' = snapshots /\ surplus' = surplus
  BY Zenon DEF SaveBlock, ApplyBlockEdit
<1>3. known.doc = doc /\ known.block = block
  BY <1>2
<1>4. /\ doc \in [Docs -> DocRecord] /\ block \in [Docs -> BlockRecord]
      /\ journal \in [Docs -> Seq(JournalRecord)]
  BY <1>1 DEF StoreType
<1>5. /\ doc' \in [Docs -> DocRecord] /\ block' \in [Docs -> BlockRecord]
      /\ \A e \in Docs : /\ doc'[e].status = doc[e].status /\ Meta(doc'[e]) = Meta(doc[e])
                         /\ e # d => doc'[e] = doc[e] /\ block'[e] = block[e]
                         /\ block'[e].active = block[e].active
      /\ doc'[d].revision = doc[d].revision + 1 /\ doc[d].revision \in Nat
      /\ block'[d].text = text /\ block'[d].revision = block[d].revision + 1
  BY SMTT(30), <1>2, <1>4 DEF DocRecord, BlockRecord, Meta
<1>6. root \in Views /\ root = View(doc', block')
  <2> DEFINE edited == [block EXCEPT ![d].text = text]
  <2>1. edited \in [Docs -> BlockRecord]
    BY <1>4 DEF BlockRecord
  <2>2. \A e \in Docs : edited[e].active = block'[e].active /\ edited[e].text = block'[e].text
    BY <1>2, <1>4, <1>5 DEF BlockRecord
  <2>3. root = View(doc, edited)
    BY <1>3
  <2> HIDE DEF edited, root
  <2>4. Active(doc) = Active(doc') /\ View(doc, edited) = View(doc', edited)
    BY <1>4, <1>5, <2>1, RevisionsDoNotShow
  <2>5. /\ ActiveBlocks(doc', edited) = ActiveBlocks(doc', block')
        /\ [e \in ActiveBlocks(doc', edited) |-> edited[e].text]
             = [e \in ActiveBlocks(doc', block') |-> block'[e].text]
    BY <2>2 DEF ActiveBlocks, Active
  <2>6. View(doc', edited) = View(doc', block')
    BY <2>5 DEF View
  <2>7. View(doc', block') \in Views
    BY <1>5, ViewShows
  <2> QED  BY <2>3, <2>4, <2>6, <2>7
<1>7. Active(doc') = Active(doc) /\ ActiveBlocks(doc', block') = ActiveBlocks(doc, block)
  BY <1>5 DEF Active, ActiveBlocks
<1> HIDE DEF root
<1>8. /\ project' \in [head : Nat, revision : Nat]
      /\ commits' \in Seq([parent : Nat, root : Views])
      /\ HeadIsLast'
      /\ project'.head = NextCommit
      /\ NextCommit \in DOMAIN commits' /\ NextCommit > 0
      /\ DOMAIN commits \subseteq DOMAIN commits'
      /\ \A i \in DOMAIN commits : commits'[i] = commits[i]
      /\ commits'[NextCommit].root = root
      /\ commits' # commits /\ NextCommit > project.head
  BY <1>1, <1>2, <1>6, CommitGrows
<1>9. SnapshotsBind'
  BY <1>1, <1>2, <1>8, SnapshotsStay
<1>10. HeadRootIsContent'
  BY <1>6, <1>8 DEF HeadRootIsContent
<1>11. ActiveDocumentsFormForest'
  <2>1. \A e \in Active(doc) : doc'[e].parent = doc[e].parent
    BY <1>5 DEF Active, Meta
  <2>2. \A e \in Active(doc) : doc[e].parent \in Active(doc) \cup {NoDoc}
    BY <1>1 DEF ActiveDocumentsFormForest
  <2>3. ASSUME NEW group \in (SUBSET Active(doc)) \ {{}}
        PROVE  \E e \in group : doc'[e].parent \notin group
    <3>1. PICK e \in group : doc[e].parent \notin group
      BY <1>1, Zenon DEF ActiveDocumentsFormForest
    <3> QED  BY <2>1, <3>1
  <2>4. Active(doc) # {}
    BY <1>1 DEF ActiveDocumentsFormForest
  <2> QED  BY <1>7, <2>1, <2>2, <2>3, <2>4, Zenon DEF ActiveDocumentsFormForest
<1>12. /\ row \in JournalRecord /\ row.new = block[d].revision + 1
       /\ journal'[d] = Append(journal[d], row)
       /\ \A e \in Docs \ {d} : journal'[e] = journal[e]
       /\ journal' \in [Docs -> Seq(JournalRecord)]
  <2>1. row \in JournalRecord /\ row.new = block[d].revision + 1
    BY <1>4 DEF JournalRow, JournalRecord, BlockRecord
  <2> HIDE DEF row
  <2> QED  BY <1>2, <1>4, <2>1
<1> HIDE DEF row
<1>13. JournalGivesRevision'
  <2>1. /\ journal'[d] # << >> /\ journal'[d][Len(journal'[d])] = row
    <3>1. journal[d] \in Seq(JournalRecord)
      BY <1>4
    <3> QED  BY SMTT(30), <1>12, <3>1
  <2>2. ASSUME NEW e \in Docs
        PROVE  /\ block'[e].revision = IF journal'[e] = << >> THEN 0
                                       ELSE journal'[e][Len(journal'[e])].new
               /\ doc'[e].status = "absent" => journal'[e] = << >>
    <3>1. CASE e = d
      BY <1>2, <1>5, <1>12, <2>1, <3>1
    <3>2. CASE e # d
      BY <1>1, <1>5, <1>12, <3>2 DEF JournalGivesRevision
    <3> QED  BY <3>1, <3>2
  <2> QED  BY <2>2, Zenon DEF JournalGivesRevision
<1>14. /\ <<"project", NoDoc>> \in come /\ <<"document", d>> \in come
       /\ <<"block", d>> \in come
  BY DEF ProjectScope, DocumentScopes, BlockScopes
<1>15. /\ queue' \in [Scopes -> Nat]
       /\ QueueIsLive'
       /\ \A s \in come : queue'[s] = NextCommit
       /\ \A s \in Scopes \cap ActiveScopes' : queue'[s] \in {queue[s], NextCommit}
  <2>1. come \in SUBSET Scopes
    BY DEF Scopes, ProjectScope, DocumentScopes, BlockScopes
  <2>2. d \in Active(doc') /\ d \in ActiveBlocks(doc', block')
    BY <1>2, <1>7 DEF Active, ActiveBlocks
  <2>3. ActiveScopes' = ActiveScopes
    BY <1>7 DEF ActiveScopes
  <2>4. come \subseteq ActiveScopes'
    BY <2>2, NextActiveScopes DEF ProjectScope, DocumentScopes, BlockScopes
  <2> HIDE DEF come
  <2>5. queue' = Enqueue(Dequeue(queue, {}), come)
    BY <1>1, <1>2, NothingDequeued
  <2>6. {} \cap ActiveScopes' = {} /\ ActiveScopes \ {} \subseteq ActiveScopes'
    BY <2>3
  <2>7. NextCommit \in Nat
    BY <1>1 DEF StoreType, NextCommit
  <2> QED  BY <1>1, <1>8, <2>1, <2>4, <2>5, <2>6, <2>7, QueueMoves
<1> HIDE DEF come
<1>16. StoreType'
  BY <1>1, <1>2, <1>5, <1>8, <1>12, <1>15 DEF StoreType
<1>17. RevisionGrows
  BY <1>5 DEF RevisionGrows, Visible
<1>18. ChangeQueued
  <2>1. \A e \in Docs : Visible(e)' # Visible(e) => e = d
    BY <1>5 DEF Visible
  <2>2. \A e \in ActiveBlocks(doc', block') :
           e \notin ActiveBlocks(doc, block) \/ block'[e].text # block[e].text => e = d
    BY <1>5, <1>7 DEF ActiveBlocks, Active
  <2> QED  BY <1>14, <1>15, <2>1, <2>2 DEF ChangeQueued, Active
<1>19. QueueKeepsActive
  BY <1>15, NextActiveScopes DEF QueueKeepsActive
<1>20. HeadAdvances
  BY <1>8 DEF HeadAdvances
<1> QED
  BY <1>2, <1>8, <1>9, <1>10, <1>11, <1>13, <1>15, <1>16, <1>17, <1>18, <1>19, <1>20
  DEF StoreInvariant, StoreStep

\* A command of the host that makes a commit.
LEMMA ChangeKeeps ==
    ASSUME StoreInvariant, NEW known, ExpectedHead(known) => known.doc = doc /\ known.block = block,
           Change(known)
    PROVE  StoreInvariant' /\ StoreStep
<1>1. doc \in [Docs -> DocRecord] /\ NextCommit \in Nat
  BY DEF StoreInvariant, StoreType, NextCommit
<1>2. PICK d \in Docs :
         \/ \E title \in Titles, text \in Texts, parent \in Docs \cup {NoDoc} :
               NextDocument(d) /\ CreateDocument(known, d, parent, title, text)
         \/ \E title \in Titles : RenameDocument(known, d, title)
         \/ ReorderDocument(known, d)
         \/ \E parent \in Docs \cup {NoDoc} : ChangeDocumentDepth(known, d, parent)
         \/ ArchiveDocument(known, d)
         \/ RestoreDocument(known, d)
         \/ \E text \in Texts : SaveBlock(known, d, text)
  BY Zenon DEF Change
<1>3. ASSUME NEW next, NEW mutated, NEW operation, HostBatch(known, next, mutated, operation)
      PROVE  known.doc = doc
  BY <1>3, Zenon DEF HostBatch, ApplyDocumentBatch
<1>4. CASE \E title \in Titles, text \in Texts, parent \in Docs \cup {NoDoc} :
               NextDocument(d) /\ CreateDocument(known, d, parent, title, text)
  BY <1>4, CreateKeeps
<1>5. ASSUME NEW title \in Titles, RenameDocument(known, d, title)
      PROVE  StoreInvariant' /\ StoreStep
  <2> DEFINE next == [doc EXCEPT ![d].title = title]
  <2>1. known.doc = doc
    BY <1>3, <1>5, Zenon DEF RenameDocument
  <2>2. d \in Active(doc) /\ HostBatch(known, next, {d}, "rename")
    BY <1>5, <2>1, Zenon DEF RenameDocument
  <2>3. Rearranges(next, {d}, "rename")
    BY <1>1, <2>2 DEF Rearranges, DocRecord, Active
  <2> QED  BY <2>2, <2>3, BatchKeeps
<1>6. CASE ReorderDocument(known, d)
  <2> DEFINE ids == Siblings(doc, doc[d].parent)
             next == Rekey(doc, ids)
  <2>1. known.doc = doc
    BY <1>3, <1>6, Zenon DEF ReorderDocument
  <2>2. HostBatch(known, next, ids, "reorder")
    BY <1>6, <2>1, Zenon DEF ReorderDocument
  <2>3. Rearranges(next, ids, "reorder")
    <3>1. ids \in SUBSET Active(doc)
      BY DEF Siblings
    <3> HIDE DEF ids
    <3> QED  BY <1>1, <3>1 DEF Rearranges, Rekey, DocRecord, Active
  <2> QED  BY <2>2, <2>3, BatchKeeps
<1>7. ASSUME NEW parent \in Docs \cup {NoDoc}, ChangeDocumentDepth(known, d, parent)
      PROVE  StoreInvariant' /\ StoreStep
  <2> DEFINE moved == [doc EXCEPT ![d].parent = parent]
             ids == Siblings(moved, parent)
             next == Rekey(moved, ids)
  <2>1. known.doc = doc
    BY <1>3, <1>7, Zenon DEF ChangeDocumentDepth
  <2>2. d \in Active(doc) /\ HostBatch(known, next, ids, "reparent")
    BY <1>7, <2>1, Zenon DEF ChangeDocumentDepth
  <2>3. Rearranges(next, ids, "reparent")
    <3>1. moved \in [Docs -> DocRecord] /\ \A e \in Docs \ {d} : moved[e] = doc[e]
      BY <1>1 DEF DocRecord
    <3>2. moved[d].status = "active" /\ moved[d].parent = parent
      BY <1>1, <2>2 DEF DocRecord, Active
    <3>3. d \in ids /\ ids \in SUBSET Active(moved) /\ Active(moved) = Active(doc)
      <4>1. Active(moved) = Active(doc)
        BY <2>2, <3>1, <3>2 DEF Active
      <4> HIDE DEF moved
      <4> QED  BY <2>2, <3>2, <4>1 DEF Siblings
    <3> HIDE DEF ids, moved
    <3> QED  BY <1>1, <3>1, <3>3 DEF Rearranges, Rekey, DocRecord, Active
  <2> QED  BY <2>2, <2>3, BatchKeeps
<1>8. CASE ArchiveDocument(known, d)
  <2> DEFINE subtree == {a \in Active(doc) : d \in Ancestry(doc, a)}
             next == [a \in Docs |-> IF a \in subtree
                                     THEN [doc[a] EXCEPT !.status = "archived"] ELSE doc[a]]
  <2>1. known.doc = doc
    BY <1>3, <1>8, Zenon DEF ArchiveDocument
  <2>2. HostBatch(known, next, subtree, "archive")
    BY <1>8, <2>1, Zenon DEF ArchiveDocument
  <2>3. Rearranges(next, subtree, "archive")
    <3>1. subtree \in SUBSET Active(doc)
      OBVIOUS
    <3> HIDE DEF subtree
    <3> QED  BY <1>1, <3>1 DEF Rearranges, DocRecord, Active
  <2> QED  BY <2>2, <2>3, BatchKeeps
<1>9. CASE RestoreDocument(known, d)
  <2> DEFINE next == [doc EXCEPT ![d].status = "active"]
  <2>1. known.doc = doc
    BY <1>3, <1>9, Zenon DEF RestoreDocument
  <2>2. HostBatch(known, next, {d}, "restore")
    BY <1>9, <2>1, Zenon DEF RestoreDocument
  <2>3. Rearranges(next, {d}, "restore")
    BY <1>1 DEF Rearranges, DocRecord, Active
  <2> QED  BY <2>2, <2>3, BatchKeeps
<1>10. CASE \E text \in Texts : SaveBlock(known, d, text)
  BY <1>10, SaveKeeps
<1> QED  BY <1>2, <1>4, <1>5, <1>6, <1>7, <1>8, <1>9, <1>10

\* create_head_snapshot.
LEMMA CheckpointKeeps ==
    ASSUME StoreInvariant, Checkpoint
    PROVE  StoreInvariant' /\ StoreStep
<1> DEFINE new == [commit |-> project.head, view |-> View(doc, block)]
<1>1. /\ snapshots' = snapshots \cup {new}
      /\ project' = project /\ commits' = commits /\ doc' = doc /\ block' = block
      /\ journal' = journal /\ queue' = queue /\ surplus' = surplus
  BY Zenon DEF Checkpoint, CreateHeadSnapshot
<1>2. /\ StoreType /\ HeadIsLast /\ SnapshotsBind /\ HeadRootIsContent
      /\ ActiveDocumentsFormForest /\ JournalGivesRevision /\ QueueIsLive
  BY DEF StoreInvariant
<1>3. /\ View(doc, block) \in Views
      /\ DOMAIN View(doc, block).docs = Active(doc)
      /\ DOMAIN View(doc, block).blocks = ActiveBlocks(doc, block)
  BY <1>2, ViewShows DEF StoreType
<1>4. StoreType'
  BY <1>1, <1>2, <1>3 DEF StoreType
<1>5. SnapshotsBind'
  <2> SUFFICES ASSUME NEW s \in snapshots'
               PROVE  /\ s.commit \in DOMAIN commits
                      /\ Without(commits[s.commit].root, surplus) = Without(s.view, surplus)
                      /\ DOMAIN s.view.blocks \subseteq DOMAIN s.view.docs
                      /\ ViewForest(s.view.docs)
    BY <1>1, Zenon DEF SnapshotsBind
  <2>1. CASE s \in snapshots
    BY <1>2, <2>1 DEF SnapshotsBind
  <2>2. CASE s = new
    <3>1. s.commit = project.head /\ s.view = View(doc, block)
      BY <2>2
    <3>2. project.head \in DOMAIN commits
      BY <1>2 DEF StoreType, HeadIsLast
    <3>3. ViewForest(View(doc, block).docs)
      BY <1>2, PresentViewForest
    <3> QED  BY <1>2, <1>3, <3>1, <3>2, <3>3 DEF HeadRootIsContent, ActiveBlocks
  <2> QED  BY <1>1, <2>1, <2>2
<1>6. /\ HeadIsLast' /\ HeadRootIsContent' /\ ActiveDocumentsFormForest'
      /\ JournalGivesRevision' /\ QueueIsLive'
  BY <1>1, <1>2 DEF HeadIsLast, HeadRootIsContent, ActiveDocumentsFormForest,
                    JournalGivesRevision, QueueIsLive, ActiveScopes
<1>7. StoreStep
  BY <1>1 DEF StoreStep, RevisionGrows, ChangeQueued, QueueKeepsActive, HeadAdvances, Visible
<1> QED  BY <1>4, <1>5, <1>2, <1>6, <1>7 DEF StoreInvariant

\* What restore_snapshot makes of the documents and blocks, one by one.
LEMMA RestoredRows ==
    ASSUME StoreType, NEW s \in snapshots, RestoreSnapshot(s),
           DOMAIN s.view.blocks \subseteq DOMAIN s.view.docs
    PROVE  /\ doc' \in [Docs -> DocRecord] /\ block' \in [Docs -> BlockRecord]
           /\ Active(doc') = DOMAIN s.view.docs
           /\ DOMAIN s.view.blocks = ActiveBlocks(doc', block') \ SurplusBlocks(s)
           /\ \A d \in DOMAIN s.view.docs : Meta(doc'[d]) = s.view.docs[d]
           /\ \A d \in DOMAIN s.view.blocks : block'[d].text = s.view.blocks[d]
           /\ \A d \in Docs : doc'[d].status = "absent" => doc[d].status = "absent"
           /\ \A d \in Docs :
                 \/ /\ doc'[d].revision = doc[d].revision + 1
                    /\ d \in RevisedDocuments(s) \cup ChangedBlocks(s)
                 \/ /\ doc'[d].revision = doc[d].revision
                    /\ doc'[d].status = doc[d].status /\ block'[d] = block[d]
                    /\ d \in Active(doc) => Meta(doc'[d]) = Meta(doc[d])
                    /\ d \notin Active(doc) => doc'[d] = doc[d]
           /\ \A d \in Docs :
                 block'[d].revision =
                     IF d \in EditedBlocks(s) THEN block[d].revision + 1 ELSE block[d].revision
<1> DEFINE docs == DOMAIN s.view.docs
           blocks == DOMAIN s.view.blocks
           current == ActiveBlocks(doc, block)
<1>1. /\ doc \in [Docs -> DocRecord] /\ block \in [Docs -> BlockRecord]
      /\ s.view \in Views /\ NextCommit \in Nat
  BY DEF StoreType, NextCommit
<1>2. /\ docs \in SUBSET Docs /\ s.view.docs \in [docs -> MetaRecord]
      /\ blocks \in SUBSET docs /\ s.view.blocks \in [blocks -> Texts]
  <2>1. /\ s.view.docs \in UNION {[ids -> MetaRecord] : ids \in SUBSET Docs}
        /\ s.view.blocks \in UNION {[ids -> Texts] : ids \in SUBSET Docs}
    BY <1>1 DEF Views
  <2> QED  BY <2>1
<1>3. /\ doc' = [d \in Docs |->
              CASE d \in Active(doc) \ docs ->
                       [doc[d] EXCEPT !.status = "archived", !.parent = NoDoc,
                                      !.key = NextCommit, !.revision = @ + 1]
                [] d \in docs -> RestoredDocument(s, d)
                [] OTHER -> doc[d]]
      /\ block' = [d \in Docs |-> RestoredBlock(s, d)]
  BY Zenon DEF RestoreSnapshot
<1>4. \A d \in Docs :
         d \in Active(doc) \ docs =>
            doc'[d] = [doc[d] EXCEPT !.status = "archived", !.parent = NoDoc,
                                     !.key = NextCommit, !.revision = @ + 1]
  BY <1>3
<1>5. \A d \in Docs : d \in docs => doc'[d] = RestoredDocument(s, d)
  BY <1>3
<1>6. \A d \in Docs : d \notin docs /\ d \notin Active(doc) => doc'[d] = doc[d]
  BY <1>3
<1>7. \A d \in docs :
         /\ doc'[d] \in DocRecord
         /\ doc'[d].status = "active" /\ Meta(doc'[d]) = s.view.docs[d]
         /\ doc'[d].revision = IF d \in RevisedDocuments(s) \cup ChangedBlocks(s)
                               THEN doc[d].revision + 1 ELSE doc[d].revision
  <2> TAKE d \in docs
  <2>1. s.view.docs[d] \in MetaRecord /\ doc[d] \in DocRecord /\ d \in Docs
    BY <1>1, <1>2
  <2>2. doc'[d] = RestoredDocument(s, d)
    BY <1>5, <2>1
  <2> QED  BY <2>1, <2>2 DEF RestoredDocument, MetaRecord, DocRecord, Meta
<1>8. \A d \in Active(doc) \ docs :
         /\ doc'[d] \in DocRecord /\ doc'[d].status = "archived"
         /\ doc'[d].revision = doc[d].revision + 1
  <2> TAKE d \in Active(doc) \ docs
  <2>1. d \in Docs /\ doc[d] \in DocRecord
    BY <1>1 DEF Active
  <2>2. doc'[d] = [doc[d] EXCEPT !.status = "archived", !.parent = NoDoc,
                                 !.key = NextCommit, !.revision = @ + 1]
    BY <1>4, <2>1
  <2>3. doc'[d].status = "archived" /\ doc'[d].revision = doc[d].revision + 1
    BY <2>1, <2>2 DEF DocRecord
  <2>4. doc'[d] \in DocRecord
    <3> HIDE DEF docs
    <3>1. doc'[d] = [ status |-> "archived", parent |-> NoDoc, title |-> doc[d].title,
                      key |-> NextCommit, revision |-> doc[d].revision + 1 ]
      BY <2>1, <2>2 DEF DocRecord
    <3>2. doc[d].title \in Titles /\ doc[d].revision + 1 \in Nat
      BY <2>1 DEF DocRecord
    <3> QED  BY <1>1, <3>1, <3>2 DEF DocRecord
  <2> QED  BY <2>3, <2>4
<1>9. doc' \in [Docs -> DocRecord]
  <2>1. \A d \in Docs : doc'[d] \in DocRecord
    BY <1>1, <1>6, <1>7, <1>8
  <2>2. doc' = [d \in Docs |-> doc'[d]]
    BY <1>3
  <2> QED  BY <2>1, <2>2
<1>10. Active(doc') = docs
  <2>1. \A d \in Docs : doc'[d].status = "active" <=> d \in docs
    BY <1>6, <1>7, <1>8 DEF Active
  <2> QED  BY <1>2, <2>1 DEF Active
<1>11. \A d \in Docs :
          /\ d \in current \ blocks => block'[d] = [block[d] EXCEPT !.active = FALSE]
          /\ d \in blocks \ current =>
                block'[d] = [block[d] EXCEPT !.active = TRUE, !.text = s.view.blocks[d]]
          /\ d \in EditedBlocks(s) =>
                block'[d] = [block[d] EXCEPT !.text = s.view.blocks[d], !.revision = @ + 1]
          /\ d \notin ChangedBlocks(s) => block'[d] = block[d]
  <2> TAKE d \in Docs
  <2>1. block'[d] = RestoredBlock(s, d)
    BY <1>3
  <2>2. EditedBlocks(s) \subseteq blocks \cap current
    BY DEF EditedBlocks
  <2>3. ChangedBlocks(s) = (current \ blocks) \cup (blocks \ current) \cup EditedBlocks(s)
    BY DEF ChangedBlocks
  <2>4. block'[d] = CASE d \in current \ blocks -> [block[d] EXCEPT !.active = FALSE]
             [] d \in blocks \ current ->
                    [block[d] EXCEPT !.active = TRUE, !.text = s.view.blocks[d]]
             [] d \in EditedBlocks(s) ->
                    [block[d] EXCEPT !.text = s.view.blocks[d], !.revision = @ + 1]
             [] OTHER -> block[d]
    BY <2>1, Zenon DEF RestoredBlock
  <2> HIDE DEF current, blocks
  <2> QED  BY <2>2, <2>3, <2>4
<1>12. \A d \in Docs :
          /\ block'[d] \in BlockRecord
          /\ block'[d].active = (d \in blocks \/ (block[d].active /\ d \notin current))
          /\ d \in blocks => block'[d].text = s.view.blocks[d]
          /\ block'[d].revision =
                IF d \in EditedBlocks(s) THEN block[d].revision + 1 ELSE block[d].revision
  <2> TAKE d \in Docs
  <2>1. block[d] \in BlockRecord
    BY <1>1
  <2>2. d \in blocks => s.view.blocks[d] \in Texts
    BY <1>2
  <2>3. EditedBlocks(s) \subseteq blocks \cap current
    BY DEF EditedBlocks
  <2>4. d \in current => block[d].active
    BY DEF ActiveBlocks
  <2>5. CASE d \in current \ blocks
    BY ZenonT(40), <1>11, <2>1, <2>3, <2>5 DEF BlockRecord
  <2>6. CASE d \in blocks \ current
    BY <1>11, <2>1, <2>2, <2>3, <2>6 DEF BlockRecord
  <2>7. CASE d \in EditedBlocks(s)
    <3>1. block'[d] = [block[d] EXCEPT !.text = s.view.blocks[d], !.revision = @ + 1]
      BY <1>11, <2>7
    <3>2. d \in blocks /\ block[d].active /\ s.view.blocks[d] \in Texts
      BY <2>2, <2>3, <2>4, <2>7
    <3> HIDE DEF docs, blocks, current
    <3>3. block[d].active = TRUE /\ block[d].revision + 1 \in Nat
      BY <2>1, <3>2 DEF BlockRecord
    <3>4. block'[d] = [ active |-> TRUE, text |-> s.view.blocks[d],
                        revision |-> block[d].revision + 1 ]
      BY <2>1, <3>1, <3>3 DEF BlockRecord
    <3>5. block'[d] \in BlockRecord
      BY <3>2, <3>3, <3>4 DEF BlockRecord
    <3>6. /\ block'[d].active = TRUE /\ block'[d].text = s.view.blocks[d]
          /\ block'[d].revision = block[d].revision + 1
      BY <3>4
    <3>7. (d \in blocks \/ (block[d].active /\ d \notin current)) = TRUE
      BY <3>2
    <3> QED  BY <2>7, <3>5, <3>6, <3>7
  <2>8. CASE d \notin ChangedBlocks(s)
    <3>1. block'[d] = block[d] /\ d \notin EditedBlocks(s)
      BY <1>11, <2>8 DEF ChangedBlocks
    <3>2. d \in blocks => d \in current /\ block[d].text = s.view.blocks[d]
      BY <2>8 DEF ChangedBlocks, EditedBlocks
    <3>3. d \in current => d \in blocks
      BY <2>8 DEF ChangedBlocks
    <3> HIDE DEF docs, blocks, current
    <3> QED  BY <2>1, <2>4, <3>1, <3>2, <3>3 DEF BlockRecord
  <2> QED  BY <2>5, <2>6, <2>7, <2>8 DEF ChangedBlocks
<1>13. block' \in [Docs -> BlockRecord]
  <2>1. block' = [d \in Docs |-> block'[d]]
    BY <1>3
  <2> QED  BY <1>12, <2>1
<1>14. blocks = ActiveBlocks(doc', block') \ SurplusBlocks(s)
  <2>1. \A d \in docs :
           d \in SurplusBlocks(s) <=> d \notin blocks /\ d \notin Active(doc) /\ block[d].active
    BY DEF SurplusBlocks
  <2>2. \A d \in docs : block[d].active /\ d \notin current <=> block[d].active /\ d \notin Active(doc)
    BY <1>2 DEF ActiveBlocks
  <2>3. \A d \in docs :
           d \in ActiveBlocks(doc', block') <=>
              d \in blocks \/ (block[d].active /\ d \notin Active(doc))
    BY <1>2, <1>10, <1>12, <2>2 DEF ActiveBlocks
  <2>4. ActiveBlocks(doc', block') \subseteq docs
    BY <1>10 DEF ActiveBlocks
  <2> QED  BY <1>2, <2>1, <2>3, <2>4
<1>15. \A d \in Docs : doc'[d].status = "absent" => doc[d].status = "absent"
  BY <1>6, <1>7, <1>8
<1>16. ASSUME NEW d \in Docs
       PROVE  \/ /\ doc'[d].revision = doc[d].revision + 1
                 /\ d \in RevisedDocuments(s) \cup ChangedBlocks(s)
              \/ /\ doc'[d].revision = doc[d].revision
                 /\ doc'[d].status = doc[d].status /\ block'[d] = block[d]
                 /\ d \in Active(doc) => Meta(doc'[d]) = Meta(doc[d])
                 /\ d \notin Active(doc) => doc'[d] = doc[d]
  <2>1. CASE d \in Active(doc) \ docs
    BY <1>8, <2>1 DEF RevisedDocuments
  <2>2. CASE d \in docs /\ d \in RevisedDocuments(s) \cup ChangedBlocks(s)
    BY <1>7, <2>2
  <2>3. CASE d \in docs /\ d \notin RevisedDocuments(s) \cup ChangedBlocks(s)
    <3>1. d \in Active(doc) /\ Meta(doc[d]) = s.view.docs[d]
      BY <2>3 DEF RevisedDocuments
    <3>2. block'[d] = block[d]
      BY <1>11, <2>3
    <3> QED  BY <1>7, <2>3, <3>1, <3>2 DEF Active
  <2>4. CASE d \notin docs /\ d \notin Active(doc)
    <3>1. d \notin ChangedBlocks(s)
      BY <1>2, <2>4 DEF ChangedBlocks, EditedBlocks, ActiveBlocks
    <3> QED  BY <1>6, <1>11, <2>4, <3>1
  <2> QED  BY <2>1, <2>2, <2>3, <2>4
<1>17. /\ \A d \in docs : Meta(doc'[d]) = s.view.docs[d]
       /\ \A d \in blocks : block'[d].text = s.view.blocks[d]
       /\ \A d \in Docs :
             block'[d].revision =
                 IF d \in EditedBlocks(s) THEN block[d].revision + 1 ELSE block[d].revision
  BY <1>2, <1>7, <1>12
<1> QED  BY <1>9, <1>10, <1>13, <1>14, <1>15, <1>16, <1>17

\* restore_snapshot.
LEMMA RestoreKeeps ==
    ASSUME StoreInvariant, Restore
    PROVE  StoreInvariant' /\ StoreStep
<1>1. PICK s \in snapshots : RestoreSnapshot(s)
  BY DEF Restore
<1> DEFINE docs == DOMAIN s.view.docs
           blocks == DOMAIN s.view.blocks
           current == ActiveBlocks(doc, block)
           changed == DocumentScopes(RevisedDocuments(s) \cup ChangedBlocks(s))
                        \cup BlockScopes(ChangedBlocks(s))
           live == DocumentScopes(docs) \cup BlockScopes(blocks)
           gone == changed \ live
           come == ProjectScope \cup (changed \cap live)
           root == commits[s.commit].root
<1>2. /\ StoreType /\ HeadIsLast /\ SnapshotsBind /\ ActiveDocumentsFormForest
      /\ JournalGivesRevision /\ QueueIsLive
  BY DEF StoreInvariant
<1>3. /\ s.commit \in DOMAIN commits
      /\ Without(root, surplus) = Without(s.view, surplus)
      /\ blocks \subseteq docs
      /\ ViewForest(s.view.docs)
  BY <1>2 DEF SnapshotsBind
<1>4. /\ journal' = [d \in Docs |->
              IF d \in EditedBlocks(s)
              THEN Append(journal[d], JournalRow(block[d], s.view.blocks[d]))
              ELSE journal[d]]
      /\ queue' = Enqueue(Dequeue(queue, gone), come)
      /\ MakeCommit(root)
      /\ surplus' = surplus \cup SurplusBlocks(s)
      /\ snapshots' = snapshots
  BY <1>1, Zenon DEF RestoreSnapshot
<1>5. /\ doc' \in [Docs -> DocRecord] /\ block' \in [Docs -> BlockRecord]
      /\ Active(doc') = docs
      /\ blocks = ActiveBlocks(doc', block') \ SurplusBlocks(s)
      /\ \A d \in docs : Meta(doc'[d]) = s.view.docs[d]
      /\ \A d \in blocks : block'[d].text = s.view.blocks[d]
      /\ \A d \in Docs : doc'[d].status = "absent" => doc[d].status = "absent"
      /\ \A d \in Docs :
            \/ /\ doc'[d].revision = doc[d].revision + 1
               /\ d \in RevisedDocuments(s) \cup ChangedBlocks(s)
            \/ /\ doc'[d].revision = doc[d].revision
               /\ doc'[d].status = doc[d].status /\ block'[d] = block[d]
               /\ d \in Active(doc) => Meta(doc'[d]) = Meta(doc[d])
               /\ d \notin Active(doc) => doc'[d] = doc[d]
      /\ \A d \in Docs :
            block'[d].revision =
                IF d \in EditedBlocks(s) THEN block[d].revision + 1 ELSE block[d].revision
  BY <1>1, <1>2, <1>3, RestoredRows
<1>6. /\ docs \in SUBSET Docs /\ s.view.docs \in [docs -> MetaRecord]
      /\ s.view.blocks \in [blocks -> Texts]
      /\ doc \in [Docs -> DocRecord] /\ block \in [Docs -> BlockRecord]
      /\ journal \in [Docs -> Seq(JournalRecord)]
  <2>1. s.view \in Views
    BY <1>2 DEF StoreType
  <2>2. /\ s.view.docs \in UNION {[ids -> MetaRecord] : ids \in SUBSET Docs}
        /\ s.view.blocks \in UNION {[ids -> Texts] : ids \in SUBSET Docs}
    BY <2>1 DEF Views
  <2> QED  BY <1>2, <2>2 DEF StoreType
<1>7. SurplusBlocks(s) = {d \in docs \ blocks : d \notin Active(doc) /\ block[d].active}
  BY DEF SurplusBlocks
<1>8. /\ EditedBlocks(s) = {d \in blocks \cap current : block[d].text # s.view.blocks[d]}
      /\ ChangedBlocks(s) = (current \ blocks) \cup (blocks \ current) \cup EditedBlocks(s)
      /\ Active(doc) \ docs \subseteq RevisedDocuments(s)
      /\ current \subseteq Active(doc) /\ Active(doc) \subseteq Docs
  BY DEF EditedBlocks, ChangedBlocks, RevisedDocuments, ActiveBlocks, Active
<1>9. root \in Views
  <2> DEFINE C == [parent : Nat, root : Views]
  <2>1. commits \in Seq(C)
    BY <1>2 DEF StoreType
  <2>2. commits[s.commit] \in C
    <3> HIDE DEF C
    <3> QED  BY <1>3, <2>1
  <2> QED  BY <2>2
<1> HIDE DEF root
<1>10. /\ project' \in [head : Nat, revision : Nat]
       /\ commits' \in Seq([parent : Nat, root : Views])
       /\ HeadIsLast'
       /\ project'.head = NextCommit
       /\ NextCommit \in DOMAIN commits' /\ NextCommit > 0
       /\ DOMAIN commits \subseteq DOMAIN commits'
       /\ \A i \in DOMAIN commits : commits'[i] = commits[i]
       /\ commits'[NextCommit].root = root
       /\ commits' # commits /\ NextCommit > project.head
  BY <1>2, <1>4, <1>9, CommitGrows
<1>11. SnapshotsBind'
  BY <1>2, <1>4, <1>10, SnapshotsStay
<1>12. HeadRootIsContent'
  <2>1. Without(root, surplus') = Without(s.view, surplus')
    BY <1>3, <1>4, WithoutMore
  <2>2. View(doc', block').docs = s.view.docs
    <3>1. View(doc', block').docs = [d \in docs |-> Meta(doc'[d])]
      BY <1>5 DEF View
    <3>2. s.view.docs = [d \in docs |-> s.view.docs[d]]
      BY <1>6
    <3> HIDE DEF docs
    <3> QED  BY <1>5, <3>1, <3>2
  <2>3. /\ DOMAIN View(doc', block').blocks \ surplus' = blocks \ surplus'
        /\ \A d \in blocks : View(doc', block').blocks[d] = s.view.blocks[d]
    <3>1. /\ DOMAIN View(doc', block').blocks = ActiveBlocks(doc', block')
          /\ \A d \in ActiveBlocks(doc', block') :
                View(doc', block').blocks[d] = block'[d].text
      BY <1>5, ViewShows
    <3> HIDE DEF docs, blocks
    <3> QED  BY <1>4, <1>5, <3>1
  <2>4. Without(View(doc', block'), surplus') = Without(s.view, surplus')
    <3>1. [d \in DOMAIN View(doc', block').blocks \ surplus' |-> View(doc', block').blocks[d]]
            = [d \in blocks \ surplus' |-> s.view.blocks[d]]
      <4> HIDE DEF blocks
      <4> QED  BY <2>3
    <3> QED  BY <2>2, <3>1 DEF Without
  <2> QED  BY <1>10, <2>1, <2>4 DEF HeadRootIsContent
<1> HIDE DEF docs, blocks, current
<1>13. ActiveDocumentsFormForest'
  <2>1. \A d \in docs : doc'[d].parent = s.view.docs[d].parent
    <3>1. \A d \in docs : Meta(doc'[d]).parent = doc'[d].parent
      BY DEF Meta
    <3> QED  BY <1>5, <3>1
  <2> QED  BY <1>3, <1>5, <2>1, Zenon DEF ViewForest, ActiveDocumentsFormForest, docs
<1>14. \A d \in EditedBlocks(s) :
          LET row == JournalRow(block[d], s.view.blocks[d])
          IN  row \in JournalRecord /\ row.new = block[d].revision + 1
  BY <1>6, <1>8 DEF JournalRow, JournalRecord, BlockRecord
<1>15. journal' \in [Docs -> Seq(JournalRecord)] /\ JournalGivesRevision'
  <2> SUFFICES ASSUME NEW d \in Docs
               PROVE  /\ journal'[d] \in Seq(JournalRecord)
                      /\ block'[d].revision = IF journal'[d] = << >> THEN 0
                                              ELSE journal'[d][Len(journal'[d])].new
                      /\ doc'[d].status = "absent" => journal'[d] = << >>
    BY <1>4, Zenon DEF JournalGivesRevision
  <2>1. CASE d \in EditedBlocks(s)
    <3> DEFINE row == JournalRow(block[d], s.view.blocks[d])
    <3>1. journal'[d] = Append(journal[d], row) /\ journal[d] \in Seq(JournalRecord)
      BY <1>4, <1>6, <2>1
    <3>2. row \in JournalRecord /\ row.new = block[d].revision + 1
      BY <1>14, <2>1
    <3> HIDE DEF row
    <3>3. /\ journal'[d] \in Seq(JournalRecord) /\ journal'[d] # << >>
          /\ journal'[d][Len(journal'[d])] = row
      BY <3>1, <3>2
    <3>4. doc[d].status # "absent"
      BY <1>8, <2>1 DEF Active
    <3> QED  BY <1>5, <2>1, <3>2, <3>3, <3>4
  <2>2. CASE d \notin EditedBlocks(s)
    <3>1. journal'[d] = journal[d] /\ block'[d].revision = block[d].revision
      BY <1>4, <1>5, <2>2
    <3> QED  BY <1>2, <1>5, <1>6, <3>1 DEF JournalGivesRevision
  <2> QED  BY <2>1, <2>2
<1>16. /\ <<"project", NoDoc>> \in come
       /\ \A d \in RevisedDocuments(s) \cup ChangedBlocks(s) :
             d \in docs => <<"document", d>> \in come
       /\ \A d \in ChangedBlocks(s) : d \in blocks => <<"block", d>> \in come
       /\ \A c \in come : \/ c = <<"project", NoDoc>>
                          \/ \E d \in docs : c = <<"document", d>>
                          \/ \E d \in blocks : c = <<"block", d>>
       /\ \A c \in gone : \/ \E d : d \notin docs /\ c = <<"document", d>>
                          \/ \E d \in ChangedBlocks(s) \ blocks : c = <<"block", d>>
       /\ \A d \in RevisedDocuments(s) \ docs : <<"document", d>> \in gone
       /\ \A d \in ChangedBlocks(s) \ blocks : <<"block", d>> \in gone
  BY DEF ProjectScope, DocumentScopes, BlockScopes
<1> HIDE DEF come, gone
<1>17. blocks \subseteq ActiveBlocks(doc', block')
  BY <1>5
<1>18. \A d \in ChangedBlocks(s) \ blocks : d \notin ActiveBlocks(doc', block')
  BY <1>5, <1>7, <1>8
<1>19. /\ queue' \in [Scopes -> Nat]
       /\ QueueIsLive'
       /\ \A c \in come : queue'[c] = NextCommit
       /\ \A c \in Scopes \cap ActiveScopes' : queue'[c] \in {queue[c], NextCommit}
  <2>1. come \subseteq ActiveScopes'
    <3>1. \A d \in docs : <<"document", d>> \in ActiveScopes'
      BY <1>5, <1>6, NextActiveScopes
    <3>2. \A d \in blocks : <<"block", d>> \in ActiveScopes'
      BY <1>3, <1>6, <1>17, NextActiveScopes
    <3> QED  BY <1>16, <3>1, <3>2, NextActiveScopes
  <2>2. come \in SUBSET Scopes
    BY <2>1, NextActiveScopes
  <2>3. gone \cap ActiveScopes' = {}
    <3>1. ASSUME NEW c \in gone, c \in ActiveScopes' PROVE FALSE
      <4>1. c # <<"project", NoDoc>>
        BY <1>16
      <4>2. CASE \E d \in Active(doc') : c = <<"document", d>>
        BY <1>5, <1>16, <4>2
      <4>3. CASE \E d \in ActiveBlocks(doc', block') : c = <<"block", d>>
        BY <1>16, <1>18, <4>3
      <4> QED  BY <3>1, <4>1, <4>2, <4>3, NextActiveScopes
    <3> QED  BY <3>1
  <2>4. ActiveScopes \ gone \subseteq ActiveScopes'
    <3>1. ASSUME NEW d \in Active(doc), <<"document", d>> \notin gone
          PROVE  <<"document", d>> \in ActiveScopes'
      BY <1>5, <1>6, <1>8, <1>16, <3>1, NextActiveScopes
    <3>2. ASSUME NEW d \in ActiveBlocks(doc, block), <<"block", d>> \notin gone
          PROVE  <<"block", d>> \in ActiveScopes'
      <4>1. d \in blocks
        BY <1>8, <1>16, <3>2 DEF current
      <4> QED  BY <1>3, <1>6, <1>17, <4>1, NextActiveScopes
    <3> QED  BY <3>1, <3>2, ActiveScopesAreScopes, NextActiveScopes
  <2>5. NextCommit \in Nat
    BY <1>2 DEF StoreType, NextCommit
  <2> QED  BY <1>2, <1>4, <1>10, <2>1, <2>2, <2>3, <2>4, <2>5, QueueMoves
<1>20. StoreType'
  <2>1. surplus' \subseteq Docs
    BY <1>2, <1>4, <1>6, <1>7 DEF StoreType
  <2> QED  BY <1>2, <1>4, <1>5, <1>10, <1>15, <1>19, <2>1 DEF StoreType
<1>21. \A d \in Docs :
          \/ /\ doc'[d].revision = doc[d].revision + 1
             /\ d \in RevisedDocuments(s) \cup ChangedBlocks(s)
          \/ Visible(d)' = Visible(d)
  BY <1>5 DEF Visible
<1>22. RevisionGrows
  BY <1>6, <1>21 DEF RevisionGrows, DocRecord
<1>23. ChangeQueued
  <2>1. \A d \in docs : Visible(d)' # Visible(d) => queue'[<<"document", d>>] = NextCommit
    BY <1>6, <1>16, <1>19, <1>21
  <2>2. ASSUME NEW d \in ActiveBlocks(doc', block') \ surplus',
               d \notin current \/ block'[d].text # block[d].text
        PROVE  queue'[<<"block", d>>] = NextCommit
    <3>1. d \in blocks /\ block'[d].text = s.view.blocks[d]
      BY <1>4, <1>5
    <3>2. d \in ChangedBlocks(s)
      BY <1>8, <2>2, <3>1
    <3> QED  BY <1>16, <1>19, <3>1, <3>2
  <2> QED  BY <1>5, <1>16, <1>19, <2>1, <2>2, Zenon DEF ChangeQueued, current
<1>24. QueueKeepsActive
  BY <1>19, NextActiveScopes DEF QueueKeepsActive
<1>25. HeadAdvances
  BY <1>10 DEF HeadAdvances
<1>26. surplus \subseteq surplus'
  BY <1>4
<1> QED
  BY <1>10, <1>11, <1>12, <1>13, <1>15, <1>19, <1>20, <1>22, <1>23, <1>24, <1>25, <1>26
  DEF StoreInvariant, StoreStep

-----------------------------------------------------------------------------
(* Handlers of several processes *)

SeenRecord ==
    [ head : Nat, revision : Nat,
      doc : [Docs -> DocRecord] \cup {<< >>}, block : [Docs -> BlockRecord] \cup {<< >>} ]

\* What a handler has read so far is the present state, or of an older head.
SeenIsPresent ==
    \A p \in Processes : stage[p] # "idle" =>
        /\ seen[p].head <= project.head
        /\ seen[p].head = project.head =>
              /\ stage[p] \in {"documents", "blocks"} => seen[p].doc = doc
              /\ stage[p] = "blocks" => seen[p].block = block

WorkspaceInvariant ==
    /\ StoreInvariant
    /\ stage \in [Processes -> Stages]
    /\ seen \in [Processes -> SeenRecord]
    /\ SeenIsPresent

LEMMA InitWorkspace ==
    ASSUME WsInit
    PROVE  WorkspaceInvariant
<1>1. StoreInvariant
  BY InitStore DEF WsInit
<1>2. stage \in [Processes -> Stages] /\ \A p \in Processes : stage[p] = "idle"
  BY DEF WsInit, Stages
<1>3. seen \in [Processes -> SeenRecord]
  BY DEF WsInit, SeenRecord, Nothing
<1> QED  BY <1>1, <1>2, <1>3 DEF WorkspaceInvariant, SeenIsPresent

\* A step of the store leaves what handlers have read present, or makes it old.
LEMMA SeenGrowsOld ==
    ASSUME WorkspaceInvariant, HeadAdvances, NEW p \in Processes, stage[p] # "idle",
           project'.head \in Nat
    PROVE  /\ seen[p].head <= project'.head
           /\ seen[p].head = project'.head =>
                 /\ stage[p] \in {"documents", "blocks"} => seen[p].doc = doc'
                 /\ stage[p] = "blocks" => seen[p].block = block'
<1>1. project.head \in Nat /\ seen[p].head \in Nat
  BY DEF WorkspaceInvariant, StoreInvariant, StoreType, SeenRecord
<1> QED  BY <1>1 DEF WorkspaceInvariant, SeenIsPresent, HeadAdvances

\* Every step keeps the invariant, and is a step of the store or leaves it alone.
LEMMA WorkspaceStep ==
    ASSUME WorkspaceInvariant, [WsNext]_wsVars
    PROVE  WorkspaceInvariant' /\ (StoreStep \/ UNCHANGED storeVars)
<1>1. /\ StoreInvariant /\ stage \in [Processes -> Stages]
      /\ seen \in [Processes -> SeenRecord] /\ SeenIsPresent
  BY DEF WorkspaceInvariant
<1>2. /\ project \in [head : Nat, revision : Nat]
      /\ doc \in [Docs -> DocRecord] /\ block \in [Docs -> BlockRecord]
  BY <1>1 DEF StoreInvariant, StoreType
<1>3. ASSUME UNCHANGED storeVars
      PROVE  StoreInvariant' /\ project' = project /\ doc' = doc /\ block' = block
  <2>1. /\ project' = project /\ commits' = commits /\ doc' = doc /\ block' = block
        /\ journal' = journal /\ snapshots' = snapshots /\ queue' = queue
        /\ surplus' = surplus
    BY <1>3 DEF storeVars
  <2> QED
    BY <1>1, <2>1 DEF StoreInvariant, StoreType, HeadIsLast, SnapshotsBind, HeadRootIsContent,
                      ActiveDocumentsFormForest, JournalGivesRevision, QueueIsLive, ActiveScopes
<1>4. ASSUME NEW p \in Processes, ReadProject(p)
      PROVE  WorkspaceInvariant' /\ UNCHANGED storeVars
  <2>1. /\ stage[p] = "idle" /\ stage' = [stage EXCEPT ![p] = "project"]
        /\ seen' = [seen EXCEPT ![p].head = project.head, ![p].revision = project.revision]
        /\ UNCHANGED storeVars
    BY <1>4 DEF ReadProject, GoTo
  <2>2. stage' \in [Processes -> Stages] /\ seen' \in [Processes -> SeenRecord]
    BY ZenonT(40), <1>1, <1>2, <2>1 DEF Stages, SeenRecord
  <2>3. seen'[p].head = project.head /\ stage'[p] = "project"
    BY <1>1, <2>1 DEF SeenRecord
  <2>4. \A q \in Processes \ {p} : seen'[q] = seen[q] /\ stage'[q] = stage[q]
    BY <1>1, <2>1
  <2>5. SeenIsPresent'
    BY <1>1, <1>2, <1>3, <2>1, <2>3, <2>4 DEF SeenIsPresent
  <2> QED  BY <1>3, <2>1, <2>2, <2>5 DEF WorkspaceInvariant
<1>5. ASSUME NEW p \in Processes, ReadDocuments(p)
      PROVE  WorkspaceInvariant' /\ UNCHANGED storeVars
  <2>1. /\ stage[p] = "project" /\ stage' = [stage EXCEPT ![p] = "documents"]
        /\ seen' = [seen EXCEPT ![p].doc = doc]
        /\ UNCHANGED storeVars
    BY <1>5 DEF ReadDocuments, GoTo
  <2>2. stage' \in [Processes -> Stages] /\ seen' \in [Processes -> SeenRecord]
    BY <1>1, <1>2, <2>1 DEF Stages, SeenRecord
  <2>3. seen'[p].head = seen[p].head /\ seen'[p].doc = doc /\ stage'[p] = "documents"
    BY <1>1, <2>1 DEF SeenRecord
  <2>4. \A q \in Processes \ {p} : seen'[q] = seen[q] /\ stage'[q] = stage[q]
    BY <1>1, <2>1
  <2>5. SeenIsPresent'
    BY <1>1, <1>3, <2>1, <2>3, <2>4 DEF SeenIsPresent
  <2> QED  BY <1>3, <2>1, <2>2, <2>5 DEF WorkspaceInvariant
<1>6. ASSUME NEW p \in Processes, ReadBlocks(p)
      PROVE  WorkspaceInvariant' /\ UNCHANGED storeVars
  <2>1. /\ stage[p] = "documents" /\ stage' = [stage EXCEPT ![p] = "blocks"]
        /\ seen' = [seen EXCEPT ![p].block = block]
        /\ UNCHANGED storeVars
    BY <1>6 DEF ReadBlocks, GoTo
  <2>2. stage' \in [Processes -> Stages] /\ seen' \in [Processes -> SeenRecord]
    BY <1>1, <1>2, <2>1 DEF Stages, SeenRecord
  <2>3. /\ seen'[p].head = seen[p].head /\ seen'[p].doc = seen[p].doc
        /\ seen'[p].block = block /\ stage'[p] = "blocks"
    BY <1>1, <2>1 DEF SeenRecord
  <2>4. \A q \in Processes \ {p} : seen'[q] = seen[q] /\ stage'[q] = stage[q]
    BY <1>1, <2>1
  <2>5. SeenIsPresent'
    BY <1>1, <1>3, <2>1, <2>3, <2>4 DEF SeenIsPresent
  <2> QED  BY <1>3, <2>1, <2>2, <2>5 DEF WorkspaceInvariant
<1>7. ASSUME NEW p \in Processes, stage' = [stage EXCEPT ![p] = "idle"], Forgets(p)
      PROVE  /\ stage' \in [Processes -> Stages] /\ seen' \in [Processes -> SeenRecord]
             /\ stage'[p] = "idle"
             /\ \A q \in Processes \ {p} : seen'[q] = seen[q] /\ stage'[q] = stage[q]
  <2>1. Nothing \in SeenRecord
    BY DEF Nothing, SeenRecord
  <2> QED  BY <1>1, <1>7, <2>1 DEF Forgets, Stages
<1>8. ASSUME NEW p \in Processes, Write(p)
      PROVE  WorkspaceInvariant' /\ StoreStep
  <2>1. /\ stage[p] = "blocks" /\ stage' = [stage EXCEPT ![p] = "idle"]
        /\ Change(seen[p]) /\ Forgets(p)
    BY <1>8 DEF Write, GoTo
  <2>2. ExpectedHead(seen[p]) => seen[p].doc = doc /\ seen[p].block = block
    BY <1>1, <2>1 DEF SeenIsPresent, ExpectedHead
  <2>3. StoreInvariant' /\ StoreStep
    BY <1>1, <2>1, <2>2, ChangeKeeps
  <2>4. HeadAdvances /\ project'.head \in Nat
    BY <2>3 DEF StoreStep, StoreInvariant, StoreType
  <2>5. SeenIsPresent'
    BY <1>7, <2>1, <2>4, SeenGrowsOld DEF SeenIsPresent
  <2> QED  BY <1>7, <2>1, <2>3, <2>5 DEF WorkspaceInvariant
<1>9. ASSUME NEW p \in Processes, Conflict(p)
      PROVE  WorkspaceInvariant' /\ UNCHANGED storeVars
  <2>1. /\ stage' = [stage EXCEPT ![p] = "idle"] /\ Forgets(p) /\ UNCHANGED storeVars
    BY <1>9 DEF Conflict, GoTo
  <2>2. SeenIsPresent'
    BY ZenonT(40), <1>1, <1>3, <1>7, <2>1 DEF SeenIsPresent
  <2> QED  BY <1>3, <1>7, <2>1, <2>2 DEF WorkspaceInvariant
<1>10. ASSUME UNCHANGED <<stage, seen>>, StoreInvariant', StoreStep
       PROVE  WorkspaceInvariant'
  <2>1. HeadAdvances /\ project'.head \in Nat
    BY <1>10 DEF StoreStep, StoreInvariant, StoreType
  <2>2. SeenIsPresent'
    BY <1>10, <2>1, SeenGrowsOld DEF SeenIsPresent
  <2> QED  BY <1>1, <1>10, <2>2 DEF WorkspaceInvariant
<1>11. ASSUME NEW p \in Processes, WsCheckpoint(p)
       PROVE  WorkspaceInvariant' /\ StoreStep
  BY <1>1, <1>10, <1>11, CheckpointKeeps DEF WsCheckpoint
<1>12. ASSUME NEW p \in Processes, WsRestore(p)
       PROVE  WorkspaceInvariant' /\ StoreStep
  BY <1>1, <1>10, <1>12, RestoreKeeps DEF WsRestore
<1>13. CASE UNCHANGED wsVars
  <2>1. UNCHANGED storeVars /\ stage' = stage /\ seen' = seen
    BY <1>13 DEF wsVars
  <2>2. SeenIsPresent'
    BY <1>1, <1>3, <2>1 DEF SeenIsPresent
  <2> QED  BY <1>1, <1>3, <2>1, <2>2 DEF WorkspaceInvariant
<1> QED
  BY <1>4, <1>5, <1>6, <1>8, <1>9, <1>11, <1>12, <1>13, Zenon DEF WsNext

\* The invariant of the workspace.
THEOREM WorkspaceInvariantHolds == WsSpec => []WorkspaceInvariant
<1>1. WsInit => WorkspaceInvariant
  BY InitWorkspace
<1>2. WorkspaceInvariant /\ [WsNext]_wsVars => WorkspaceInvariant'
  BY WorkspaceStep
<1> QED  BY <1>1, <1>2, PTL DEF WsSpec

\* Projects, handlers and what they have read have their types.
THEOREM WsTypeCorrect == WsSpec => []WsTypeOK
<1>1. WorkspaceInvariant => WsTypeOK
  BY InvariantTypes DEF WorkspaceInvariant, StoreInvariant, WsTypeOK
<1> QED  BY <1>1, WorkspaceInvariantHolds, PTL

\* However commands of several processes interleave, the head commit binds the
\* real state of the project: a root computed before the transaction is the root
\* of what the transaction made, because a write on an older head is refused.
THEOREM HeadBindsContent == WsSpec => []HeadRootIsContent
<1>1. WorkspaceInvariant => HeadRootIsContent
  BY DEF WorkspaceInvariant, StoreInvariant
<1> QED  BY <1>1, WorkspaceInvariantHolds, PTL

\* The active documents are a forest at all times: neither commands computed
\* from what was read nor restores of old checkpoints break it (ADR 0019).
THEOREM DocumentsStayForest == WsSpec => []ActiveDocumentsFormForest
<1>1. WorkspaceInvariant => ActiveDocumentsFormForest
  BY DEF WorkspaceInvariant, StoreInvariant
<1> QED  BY <1>1, WorkspaceInvariantHolds, PTL

\* After any interleaving of commands verify_invariants finds nothing wrong.
THEOREM ProjectReopens == WsSpec => []Reopens
<1>1. WorkspaceInvariant => Reopens
  BY InvariantReopens DEF WorkspaceInvariant
<1> QED  BY <1>1, WorkspaceInvariantHolds, PTL

\* A document revision never names two states of the document.
THEOREM RevisionNamesState == WsSpec => DocumentRevisionNamesState
<1>1. WorkspaceInvariant /\ [WsNext]_wsVars => [RevisionGrows]_storeVars
  BY WorkspaceStep DEF StoreStep
<1> QED
  BY <1>1, WorkspaceInvariantHolds, PTL
  DEF WsSpec, DocumentRevisionNamesState, RevisionGrows

\* No step changes what is shown without queueing its summary under its commit.
THEOREM ChangesAreQueued == WsSpec => ChangeIsQueued
<1>1. WorkspaceInvariant /\ [WsNext]_wsVars => [ChangeQueued]_storeVars
  BY WorkspaceStep DEF StoreStep
<1> QED
  BY <1>1, WorkspaceInvariantHolds, PTL DEF WsSpec, ChangeIsQueued, ChangeQueued

-----------------------------------------------------------------------------
(* The summary worker *)

\* While nobody else has the project, nothing is committed between two steps of
\* a refresh, so what it has read is the present state.
WorkerReadPresent ==
    ~shared =>
        /\ worker.stage \in {"documents", "blocks", "batch"} => worker.doc = doc
        /\ worker.stage \in {"blocks", "batch"} => worker.block = block

SummaryInvariant ==
    /\ StoreInvariant
    /\ summary = [s \in Scopes |-> summary[s]]
    /\ WorkerReadPresent
    /\ NothingIsForgotten
    /\ ReadySummaryKnowsItsScope

-----------------------------------------------------------------------------
(* What a summary is made from *)

\* A source is a summary.
LEMMA SourceIsSummary ==
    ASSUME NEW s \in Scopes, NEW documents, NEW blocks
    PROVE  Source(s, documents, blocks) # NoSummary
<1>1. s[1] \in {"block", "document", "project"}
  BY DEF Scopes
<1>2. \A view, ids : Part(view, ids).of = "documents"
  BY DEF Part
<1>3. NoSummary.of = "nothing"
  BY DEF NoSummary
<1>4. Source(s, documents, blocks).of \in {"block", "documents"}
  <2>1. CASE s[1] = "block"
    BY <2>1 DEF Source
  <2>2. CASE s[1] = "document"
    BY <1>2, <2>2 DEF Source
  <2>3. CASE s[1] = "project"
    BY <1>2, <2>3 DEF Source
  <2> QED  BY <1>1, <2>1, <2>2, <2>3
<1> QED  BY <1>3, <1>4

\* A document's own part of its source is its metadata and its text.
LEMMA OwnPartOfDocument ==
    ASSUME NEW documents \in [Docs -> DocRecord], NEW blocks \in [Docs -> BlockRecord],
           NEW d \in Active(documents)
    PROVE  OwnPart(<<"document", d>>, Source(<<"document", d>>, documents, blocks))
             = [ of     |-> "documents",
                 docs   |-> [e \in {d} |-> Meta(documents[d])],
                 blocks |-> [e \in {e \in {d} : blocks[d].active} |-> blocks[d].text] ]
<1> DEFINE view == View(documents, blocks)
           below == Below(documents, d)
<1>1. /\ DOMAIN view.docs = Active(documents)
      /\ DOMAIN view.blocks = ActiveBlocks(documents, blocks)
      /\ view.docs[d] = Meta(documents[d])
      /\ \A e \in ActiveBlocks(documents, blocks) : view.blocks[e] = blocks[e].text
  BY ViewShows
<1>2. d \in below
  <2>1. d # NoDoc
    BY DocsAreNumbers DEF Active
  <2> QED  BY <2>1, AncestryHasParent DEF Below
<1>3. OwnPart(<<"document", d>>, Source(<<"document", d>>, documents, blocks))
        = Part(Part(view, below), {d})
  BY DEF OwnPart, Source
<1> HIDE DEF view, below
<1>4. /\ Part(view, below).docs = [e \in DOMAIN view.docs \cap below |-> view.docs[e]]
      /\ Part(view, below).blocks = [e \in DOMAIN view.blocks \cap below |-> view.blocks[e]]
  BY DEF Part
<1>5. [e \in DOMAIN Part(view, below).docs \cap {d} |-> Part(view, below).docs[e]]
        = [e \in {d} |-> Meta(documents[d])]
  BY <1>1, <1>2, <1>4
<1>6. [e \in DOMAIN Part(view, below).blocks \cap {d} |-> Part(view, below).blocks[e]]
        = [e \in {e \in {d} : blocks[d].active} |-> blocks[d].text]
  <2>1. DOMAIN Part(view, below).blocks \cap {d} = {e \in {d} : blocks[d].active}
    BY <1>1, <1>2, <1>4 DEF ActiveBlocks
  <2>2. \A e \in DOMAIN Part(view, below).blocks \cap {d} :
           Part(view, below).blocks[e] = blocks[d].text
    BY <1>1, <1>4
  <2> QED  BY <2>1, <2>2
<1> QED  BY <1>3, <1>5, <1>6 DEF Part

\* What is the same before and after a change has the same own part.
LEMMA SourcesStay ==
    ASSUME StoreInvariant, StoreInvariant', StoreStep,
           NEW s \in ActiveScopes' \ BlockScopes(surplus'), queue'[s] = 0
    PROVE  /\ s \in ActiveScopes \ BlockScopes(surplus)
           /\ queue[s] = 0
           /\ OwnPart(s, Source(s, doc', block')) = OwnPart(s, Source(s, doc, block))
<1>1. /\ doc \in [Docs -> DocRecord] /\ block \in [Docs -> BlockRecord]
      /\ doc' \in [Docs -> DocRecord] /\ block' \in [Docs -> BlockRecord]
  BY DEF StoreInvariant, StoreType
<1>2. NextCommit # 0
  BY DEF StoreInvariant, StoreType, NextCommit
<1>3. queue[s] = 0
  BY <1>2 DEF StoreStep, QueueKeepsActive
<1>4. CASE s = <<"project", NoDoc>>
  <2>1. commits' = commits
    BY <1>2, <1>4 DEF StoreStep, ChangeQueued
  <2>2. project'.head = project.head /\ project.head \in Nat
    BY <2>1 DEF StoreInvariant, HeadIsLast, StoreType
  <2>3. doc' = doc /\ block' = block
    BY <2>2 DEF StoreStep, HeadAdvances
  <2>4. s \in ActiveScopes \ BlockScopes(surplus)
    BY <1>4, ActiveScopesAreScopes DEF BlockScopes
  <2> QED  BY <1>3, <2>3, <2>4
<1>5. ASSUME NEW d \in Active(doc'), s = <<"document", d>>
      PROVE  /\ s \in ActiveScopes \ BlockScopes(surplus)
             /\ OwnPart(s, Source(s, doc', block')) = OwnPart(s, Source(s, doc, block))
  <2>1. Visible(d)' = Visible(d)
    BY <1>2, <1>5 DEF StoreStep, ChangeQueued, Active
  <2>2. /\ doc'[d].status = doc[d].status /\ Meta(doc'[d]) = Meta(doc[d])
        /\ block'[d].active = block[d].active /\ block'[d].text = block[d].text
    BY <2>1 DEF Visible
  <2>3. d \in Docs /\ d \in Active(doc)
    BY <2>2 DEF Active
  <2>4. s \in ActiveScopes \ BlockScopes(surplus)
    BY <1>5, <2>3, ActiveScopesAreScopes DEF BlockScopes
  <2>5. OwnPart(s, Source(s, doc', block')) = OwnPart(s, Source(s, doc, block))
    <3> DEFINE Own(documents, blocks) ==
                 [ of     |-> "documents",
                   docs   |-> [e \in {d} |-> Meta(documents[d])],
                   blocks |-> [e \in {e \in {d} : blocks[d].active} |-> blocks[d].text] ]
    <3>1. OwnPart(s, Source(s, doc', block')) = Own(doc', block')
      BY <1>1, <1>5, OwnPartOfDocument
    <3>2. OwnPart(s, Source(s, doc, block)) = Own(doc, block)
      BY <1>1, <1>5, <2>3, OwnPartOfDocument
    <3>3. Own(doc', block') = Own(doc, block)
      BY <2>2
    <3> QED  BY <3>1, <3>2, <3>3
  <2> QED  BY <2>4, <2>5
<1>6. ASSUME NEW d \in ActiveBlocks(doc', block'), s = <<"block", d>>
      PROVE  /\ s \in ActiveScopes \ BlockScopes(surplus)
             /\ OwnPart(s, Source(s, doc', block')) = OwnPart(s, Source(s, doc, block))
  <2>1. d \notin surplus' /\ d \in Docs
    BY <1>6 DEF BlockScopes, ActiveBlocks, Active
  <2>2. d \in ActiveBlocks(doc, block) /\ block'[d].text = block[d].text
    BY <1>2, <1>6, <2>1 DEF StoreStep, ChangeQueued, ActiveBlocks, Active
  <2>3. d \notin surplus
    BY <2>1 DEF StoreStep
  <2>4. s \in ActiveScopes \ BlockScopes(surplus)
    BY <1>6, <2>1, <2>2, <2>3, ActiveScopesAreScopes DEF BlockScopes
  <2>5. Source(s, doc', block') = Source(s, doc, block)
    BY <1>6, <2>2 DEF Source
  <2> QED  BY <2>4, <2>5
<1> QED  BY <1>3, <1>4, <1>5, <1>6, NextActiveScopes

-----------------------------------------------------------------------------
(* The steps *)

LEMMA InitSummaries ==
    ASSUME SwInit
    PROVE  SummaryInvariant
<1>1. StoreInvariant
  BY InitStore DEF SwInit
<1>2. /\ summary = [s \in Scopes |-> NoSummary] /\ worker.stage = "idle" /\ PsInit
  BY DEF SwInit
<1>3. \A s \in ActiveScopes : queue[s] # 0
  <2>1. /\ queue = [s \in Scopes |->
                       IF s \in {<<"project", NoDoc>>, <<"document", 1>>, <<"block", 1>>}
                       THEN 1 ELSE 0]
        /\ \A d \in Docs : doc[d].status = "active" => d = 1
    BY <1>2 DEF PsInit, AbsentDocument
  <2>2. \A s \in ActiveScopes :
           s \in {<<"project", NoDoc>>, <<"document", 1>>, <<"block", 1>>}
    BY <2>1, ActiveScopesAreScopes DEF Active, ActiveBlocks
  <2> QED  BY <2>1, <2>2, ActiveScopesAreScopes
<1>4. NothingIsForgotten /\ ReadySummaryKnowsItsScope
  BY <1>3 DEF NothingIsForgotten, ReadySummaryKnowsItsScope, Ready
<1> QED
  BY <1>1, <1>2, <1>4 DEF SummaryInvariant, WorkerReadPresent

\* Steps of the worker that write nothing.
LEMMA ReadingKeeps ==
    ASSUME SummaryInvariant, UNCHANGED <<storeVars, summary>>, WorkerReadPresent',
           shared \in BOOLEAN, shared => shared'
    PROVE  SummaryInvariant'
<1>1. /\ project' = project /\ commits' = commits /\ doc' = doc /\ block' = block
      /\ journal' = journal /\ snapshots' = snapshots /\ queue' = queue
      /\ surplus' = surplus /\ summary' = summary
  BY DEF storeVars
<1>2. StoreInvariant'
  BY <1>1 DEF SummaryInvariant, StoreInvariant, StoreType, HeadIsLast, SnapshotsBind,
              HeadRootIsContent, ActiveDocumentsFormForest, JournalGivesRevision, QueueIsLive,
              ActiveScopes
<1>3. NothingIsForgotten'
  BY <1>1 DEF SummaryInvariant, NothingIsForgotten, Ready, ActiveScopes
<1>4. ReadySummaryKnowsItsScope'
  BY <1>1 DEF SummaryInvariant, ReadySummaryKnowsItsScope, Ready, ActiveScopes
<1> QED  BY <1>1, <1>2, <1>3, <1>4 DEF SummaryInvariant

\* put_summary_record by the worker.
LEMMA SummarizeKeeps ==
    ASSUME SummaryInvariant, Summarize
    PROVE  SummaryInvariant'
<1> DEFINE scope == Item.scope
           source == Source(Item.scope, worker.doc, worker.block)
<1>1. /\ scope \in ActiveScopes
      /\ summary' = [summary EXCEPT ![scope] = source]
      /\ queue' = [queue EXCEPT ![scope] = 0]
      /\ project' = project /\ commits' = commits /\ doc' = doc /\ block' = block
      /\ journal' = journal /\ snapshots' = snapshots /\ surplus' = surplus
      /\ worker.stage = "batch" /\ shared' = shared
  BY Zenon DEF Summarize, PutSummaryRecord
<1>2. /\ StoreInvariant /\ summary = [s \in Scopes |-> summary[s]]
      /\ WorkerReadPresent /\ NothingIsForgotten /\ ReadySummaryKnowsItsScope
  BY DEF SummaryInvariant
<1>3. scope \in Scopes
  BY <1>1, ActiveScopesAreScopes
<1>4. source # NoSummary
  BY <1>3, SourceIsSummary
<1>5. ~shared => source = Source(scope, doc, block)
  BY <1>1, <1>2 DEF WorkerReadPresent
<1>6. /\ worker'.stage \in {"idle", "batch"}
      /\ worker'.stage = "batch" => worker'.doc = worker.doc /\ worker'.block = worker.block
  <2>1. worker'.stage = "idle" \/ worker' = [worker EXCEPT !.batch = Tail(@)]
    BY DEF Summarize, Rest
  <2>2. worker' = [worker EXCEPT !.batch = Tail(@)] =>
           /\ worker'.stage = worker.stage
           /\ worker'.doc = worker.doc /\ worker'.block = worker.block
    OBVIOUS
  <2> QED  BY <1>1, <2>1, <2>2
<1> HIDE DEF scope, source
<1>7. queue \in [Scopes -> Nat]
  BY <1>2 DEF StoreInvariant, StoreType
<1>8. /\ queue' \in [Scopes -> Nat]
      /\ queue'[scope] = 0 /\ \A s \in Scopes \ {scope} : queue'[s] = queue[s]
  BY <1>1, <1>3, <1>7
<1>9. /\ summary'[scope] = source /\ \A s \in Scopes \ {scope} : summary'[s] = summary[s]
      /\ summary' = [s \in Scopes |-> summary'[s]]
  BY <1>1, <1>2, <1>3
<1>10. ActiveScopes' = ActiveScopes
  BY <1>1 DEF ActiveScopes
<1>11. StoreInvariant'
  <2>1. StoreType'
    BY <1>1, <1>2, <1>8 DEF StoreInvariant, StoreType
  <2>2. QueueIsLive'
    BY <1>1, <1>2, <1>8, <1>10 DEF StoreInvariant, QueueIsLive
  <2> QED
    BY <1>1, <1>2, <2>1, <2>2
    DEF StoreInvariant, HeadIsLast, SnapshotsBind, HeadRootIsContent,
        ActiveDocumentsFormForest, JournalGivesRevision
<1>12. WorkerReadPresent'
  BY <1>1, <1>2, <1>6 DEF WorkerReadPresent
<1>13. NothingIsForgotten'
  <2> SUFFICES ASSUME NEW s \in ActiveScopes \ BlockScopes(surplus)
               PROVE  queue'[s] # 0 \/ (summary'[s] # NoSummary /\ queue'[s] = 0)
    BY <1>1, <1>10 DEF NothingIsForgotten, Ready
  <2>1. CASE s = scope
    BY <1>4, <1>8, <1>9, <2>1
  <2>2. CASE s # scope
    BY <1>2, <1>8, <1>9, <2>2, ActiveScopesAreScopes DEF NothingIsForgotten, Ready
  <2> QED  BY <2>1, <2>2
<1>14. ReadySummaryKnowsItsScope'
  <2> SUFFICES ASSUME ~shared, NEW s \in ActiveScopes \ BlockScopes(surplus),
                      summary'[s] # NoSummary, queue'[s] = 0
               PROVE  OwnPart(s, summary'[s]) = OwnPart(s, Source(s, doc, block))
    BY <1>1, <1>10 DEF ReadySummaryKnowsItsScope, Ready
  <2>1. CASE s = scope
    BY <1>5, <1>9, <2>1
  <2>2. CASE s # scope
    <3>1. s \in Scopes
      BY ActiveScopesAreScopes
    <3>2. Ready(s) /\ summary'[s] = summary[s]
      BY <1>8, <1>9, <2>2, <3>1 DEF Ready
    <3> QED  BY <1>2, <3>2 DEF ReadySummaryKnowsItsScope
  <2> QED  BY <2>1, <2>2
<1> QED  BY <1>9, <1>11, <1>12, <1>13, <1>14 DEF SummaryInvariant

\* A command commits; while the project is not shared the worker rests.
LEMMA CommandKeeps ==
    ASSUME SummaryInvariant, Command
    PROVE  SummaryInvariant'
<1>1. /\ StoreInvariant /\ summary = [s \in Scopes |-> summary[s]]
      /\ NothingIsForgotten /\ ReadySummaryKnowsItsScope
  BY DEF SummaryInvariant
<1>2. /\ worker.stage = "idle" \/ shared
      /\ Change(Now) \/ Checkpoint \/ Restore
      /\ summary' = summary /\ worker' = worker /\ shared' = shared
  BY DEF Command
<1>3. StoreInvariant' /\ StoreStep
  <2>1. Now.doc = doc /\ Now.block = block
    BY DEF Now
  <2> QED  BY <1>1, <1>2, <2>1, ChangeKeeps, CheckpointKeeps, RestoreKeeps
<1>4. WorkerReadPresent'
  BY <1>2 DEF WorkerReadPresent
<1>5. NothingIsForgotten'
  <2> SUFFICES ASSUME NEW s \in ActiveScopes' \ BlockScopes(surplus'), queue'[s] = 0
               PROVE  summary[s] # NoSummary
    BY <1>2, Zenon DEF NothingIsForgotten, Ready
  <2> QED  BY <1>1, <1>3, SourcesStay DEF NothingIsForgotten, Ready
<1>6. ReadySummaryKnowsItsScope'
  <2> SUFFICES ASSUME ~shared, NEW s \in ActiveScopes' \ BlockScopes(surplus'),
                      summary[s] # NoSummary, queue'[s] = 0
               PROVE  OwnPart(s, summary[s]) = OwnPart(s, Source(s, doc', block'))
    BY <1>2, Zenon DEF ReadySummaryKnowsItsScope, Ready
  <2>1. /\ s \in ActiveScopes \ BlockScopes(surplus) /\ queue[s] = 0
        /\ OwnPart(s, Source(s, doc', block')) = OwnPart(s, Source(s, doc, block))
    BY <1>1, <1>3, SourcesStay
  <2> QED  BY <1>1, <2>1 DEF ReadySummaryKnowsItsScope, Ready
<1> QED  BY <1>1, <1>2, <1>3, <1>4, <1>5, <1>6 DEF SummaryInvariant

LEMMA SummaryStep ==
    ASSUME SummaryInvariant, shared \in BOOLEAN, [SwNext]_swVars
    PROVE  SummaryInvariant' /\ shared' \in BOOLEAN
<1> USE DEF SummaryInvariant
<1>1. CASE ListDocuments
  <2>1. WorkerReadPresent' /\ UNCHANGED <<storeVars, summary>> /\ shared' = shared
    BY <1>1 DEF ListDocuments, WorkerReadPresent, storeVars
  <2> QED  BY <2>1, ReadingKeeps
<1>2. CASE ListBlocks
  <2>1. WorkerReadPresent' /\ UNCHANGED <<storeVars, summary>> /\ shared' = shared
    BY <1>2 DEF ListBlocks, WorkerReadPresent, storeVars
  <2> QED  BY <2>1, ReadingKeeps
<1>3. CASE ReadQueue
  <2>1. WorkerReadPresent' /\ UNCHANGED <<storeVars, summary>> /\ shared' = shared
    BY <1>3 DEF ReadQueue, Rest, WorkerReadPresent, storeVars
  <2> QED  BY <2>1, ReadingKeeps
<1>4. CASE Summarize
  <2>1. shared' = shared
    BY <1>4 DEF Summarize
  <2> QED  BY <1>4, <2>1, SummarizeKeeps
<1>5. CASE Abandon \/ Crash
  <2>1. WorkerReadPresent' /\ UNCHANGED <<storeVars, summary>> /\ shared' = shared
    BY <1>5 DEF Abandon, Crash, Rest, WorkerReadPresent, storeVars
  <2> QED  BY <2>1, ReadingKeeps
<1>6. CASE Command
  <2>1. shared' = shared
    BY <1>6 DEF Command
  <2> QED  BY <1>6, <2>1, CommandKeeps
<1>7. CASE Share
  <2>1. WorkerReadPresent' /\ UNCHANGED <<storeVars, summary>> /\ shared' = TRUE
    BY <1>7 DEF Share, WorkerReadPresent, storeVars
  <2> QED  BY <2>1, ReadingKeeps
<1>8. CASE UNCHANGED swVars
  <2>1. WorkerReadPresent' /\ UNCHANGED <<storeVars, summary>> /\ shared' = shared
    BY <1>8 DEF swVars, WorkerReadPresent, storeVars
  <2> QED  BY <2>1, ReadingKeeps
<1> QED
  BY <1>1, <1>2, <1>3, <1>4, <1>5, <1>6, <1>7, <1>8 DEF SwNext, Refresh

\* The invariant of queue, summaries and worker.
THEOREM SummaryInvariantHolds == SwSpec => []SummaryInvariant
<1>1. SwInit => SummaryInvariant /\ shared \in BOOLEAN
  BY InitSummaries DEF SwInit
<1>2. SummaryInvariant /\ shared \in BOOLEAN /\ [SwNext]_swVars =>
         SummaryInvariant' /\ (shared \in BOOLEAN)'
  BY SummaryStep
<1> QED  BY <1>1, <1>2, PTL DEF SwSpec

\* Whatever crashes, is abandoned or is committed in between, by this process or
\* another, an active scope is queued or has a summary (ADR 0020).
THEOREM NoInvalidationIsLost == SwSpec => []NothingIsForgotten
<1>1. SummaryInvariant => NothingIsForgotten
  BY DEF SummaryInvariant
<1> QED  BY <1>1, SummaryInvariantHolds, PTL

\* While one process has the project, a summary that counts as ready was made
\* from what its scope is now.
THEOREM ReadyMeansPresent == SwSpec => []ReadySummaryKnowsItsScope
<1>1. SummaryInvariant => ReadySummaryKnowsItsScope
  BY DEF SummaryInvariant
<1> QED  BY <1>1, SummaryInvariantHolds, PTL

-----------------------------------------------------------------------------
(* The shapes of the worker *)

\* A batch is a sequence that is not empty.
IsBatch(batch) == batch # << >> /\ \E S : batch \in Seq(S)

WorkerShape ==
    /\ DOMAIN summary = Scopes
    /\ worker.stage \in {"idle", "documents", "blocks", "batch"}
    /\ worker.stage = "batch" => IsBatch(worker.batch) /\ {"stage", "batch"} \subseteq DOMAIN worker
    /\ crashes \in 0 .. MaxCrashes
    /\ shared \in BOOLEAN

\* The rows of the queue taken for a batch are a sequence of at most BatchSize.
LEMMA QueueHeadIsSequence == \E S : QueueHead \in Seq(S)
<1> DEFINE rows == {s \in Scopes : queue[s] # 0}
           nth(n) == CHOOSE s \in rows : Cardinality({t \in rows : Earlier(t, s)}) = n - 1
           taken == IF Cardinality(rows) < BatchSize THEN Cardinality(rows) ELSE BatchSize
           item(i) == [scope |-> nth(i), token |-> queue[nth(i)]]
<1>1. IsFiniteSet(rows)
  <2>1. IsFiniteSet(Docs)
    BY DocumentBound, FS_Interval DEF Docs
  <2>2. IsFiniteSet({"document", "block"}) /\ IsFiniteSet({<<"project", NoDoc>>})
    <3>1. IsFiniteSet({"document"} \cup {"block"})
      BY FS_Singleton, FS_Union
    <3>2. {"document", "block"} = {"document"} \cup {"block"}
      OBVIOUS
    <3> QED  BY <3>1, <3>2, FS_Singleton
  <2>3. IsFiniteSet(({"document", "block"} \X Docs) \cup {<<"project", NoDoc>>})
    BY <2>1, <2>2, FS_Product, FS_Union
  <2> QED  BY <2>3, FS_Subset DEF Scopes
<1>2. taken \in Nat
  BY <1>1, FS_CardinalityType, WorkerConstants
<1>3. QueueHead = [i \in 1 .. taken |-> item(i)]
  BY DEF QueueHead
<1> HIDE DEF rows, nth, taken, item
<1>4. [i \in 1 .. taken |-> item(i)] \in Seq({item(i) : i \in 1 .. taken})
  BY <1>2
<1> QED  BY <1>3, <1>4

\* What is left of a batch of several is a batch.
LEMMA RestOfBatch ==
    ASSUME NEW batch, IsBatch(batch), Len(batch) # 1
    PROVE  IsBatch(Tail(batch))
<1>1. PICK S : batch \in Seq(S)
  BY DEF IsBatch
<1>2. Len(batch) \in Nat /\ Len(batch) # 0 /\ batch # << >>
  BY <1>1 DEF IsBatch
<1>3. Tail(batch) \in Seq(S) /\ Len(Tail(batch)) = Len(batch) - 1
  BY <1>1, <1>2
<1>4. Tail(batch) # << >>
  <2>1. Len(Tail(batch)) # 0
    BY <1>2, <1>3
  <2> QED  BY <1>3, <2>1, EmptySeq
<1> QED  BY <1>3, <1>4 DEF IsBatch

LEMMA WorkerShapeStep ==
    ASSUME WorkerShape, [SwNext]_swVars
    PROVE  WorkerShape'
<1>1. CASE UNCHANGED swVars
  BY <1>1 DEF swVars, WorkerShape, IsBatch
<1>2. CASE ListDocuments \/ ListBlocks \/ Abandon
  BY <1>2 DEF ListDocuments, ListBlocks, Abandon, Rest, WorkerShape
<1>3. CASE ReadQueue
  <2>1. CASE QueueHead = << >>
    BY <1>3, <2>1 DEF ReadQueue, Rest, WorkerShape
  <2>2. CASE QueueHead # << >>
    <3>1. worker'.stage = "batch" /\ worker'.batch = QueueHead
      BY <1>3, <2>2 DEF ReadQueue
    <3> QED  BY <1>3, <2>2, <3>1, QueueHeadIsSequence DEF ReadQueue, WorkerShape, IsBatch
  <2> QED  BY <2>1, <2>2
<1>4. CASE Summarize
  <2>1. DOMAIN summary' = Scopes /\ UNCHANGED <<crashes, shared>>
    BY <1>4 DEF Summarize, PutSummaryRecord, WorkerShape
  <2>2. CASE Len(worker.batch) = 1
    BY <1>4, <2>1, <2>2 DEF Summarize, Rest, WorkerShape
  <2>3. CASE Len(worker.batch) # 1
    <3>1. worker.stage = "batch" /\ IsBatch(worker.batch)
      BY <1>4 DEF Summarize, WorkerShape
    <3>2. worker' = [worker EXCEPT !.batch = Tail(worker.batch)]
      BY <1>4, <2>3 DEF Summarize
    <3>3. {"stage", "batch"} \subseteq DOMAIN worker
      BY <3>1 DEF WorkerShape
    <3>4. /\ worker'.stage = "batch" /\ worker'.batch = Tail(worker.batch)
          /\ DOMAIN worker' = DOMAIN worker
      BY <3>1, <3>2, <3>3
    <3>5. IsBatch(worker'.batch)
      BY <2>3, <3>1, <3>4, RestOfBatch
    <3> QED  BY <2>1, <3>3, <3>4, <3>5 DEF WorkerShape
  <2> QED  BY <2>2, <2>3
<1>5. CASE Crash
  BY <1>5, WorkerConstants DEF Crash, Rest, WorkerShape
<1>6. CASE Command \/ Share
  BY <1>6 DEF Command, Share, WorkerShape
<1> QED  BY <1>1, <1>2, <1>3, <1>4, <1>5, <1>6 DEF SwNext, Refresh

\* Summaries and the refresh under way keep their shapes; a batch is never empty.
THEOREM SwTypeCorrect == SwSpec => []SwTypeOK
<1>1. SwInit => WorkerShape
  <2>1. ASSUME SwInit PROVE WorkerShape
    <3>1. worker.stage = "idle" /\ DOMAIN summary = Scopes
      BY <2>1 DEF SwInit
    <3>2. crashes \in 0 .. MaxCrashes
      BY <2>1, WorkerConstants DEF SwInit
    <3>3. shared \in BOOLEAN
      BY <2>1, Zenon DEF SwInit
    <3> QED  BY <3>1, <3>2, <3>3 DEF WorkerShape
  <2> QED  BY <2>1
<1>2. WorkerShape /\ [SwNext]_swVars => WorkerShape'
  BY WorkerShapeStep
<1>3. SummaryInvariant /\ WorkerShape => SwTypeOK
  <2> SUFFICES ASSUME SummaryInvariant, WorkerShape
               PROVE  SwTypeOK
    OBVIOUS
  <2>1. PsTypeOK
    BY InvariantTypes DEF SummaryInvariant, StoreInvariant
  <2> QED  BY <2>1 DEF SwTypeOK, WorkerShape, IsBatch
<1> QED  BY <1>1, <1>2, <1>3, SummaryInvariantHolds, PTL DEF SwSpec

=============================================================================
