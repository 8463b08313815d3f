--------------------------- MODULE ReviewSession ----------------------------
(***************************************************************************)
(* Reviewing a patch proposal and turning it into text.                    *)
(*                                                                         *)
(* Two components meet here: the review log of the operation store, and    *)
(* the project's one chapter that a ready proposal is applied to or        *)
(* branched from.  Pages (apps/optimizer-desktop/src/review.js,            *)
(* drawers.js) keep a copy of the review in state.aiReview and send one    *)
(* command at a time; each page is the window of a process of its own, and *)
(* all processes have the same project database open.                      *)
(*                                                                         *)
(* Deciding and rejecting are one transaction each.  Opening, applying and *)
(* branching are host handlers that read with separate statements, in the  *)
(* order their source has, and the last two end in a transaction; another  *)
(* process may write between two reads.  The statements that read project, *)
(* block and root are one read here: Workspace shows that comparing the    *)
(* head makes them one.  An early return of a handler changes nothing, so  *)
(* all its guards are checked at its last step.                            *)
(*                                                                         *)
(* Left out: the page also compares the proposal with its own copy of the  *)
(* text before it asks to apply it, which can only refuse more; branch     *)
(* names, which are taken to be free; limits on sizes.  A page never       *)
(* records a conflict or a rebase (ADR 0028 leaves rebasing to be          *)
(* designed), so no action does.  Candidate snapshots are not offered for *)
(* restoring (ADR 0028, decision 8), and checkpoints are left to           *)
(* ProjectStore.                                                           *)
(***************************************************************************)
EXTENDS OperationStore, ProjectStore, PatchHunks

CONSTANTS
    Pages,       \* windows, each of its own process
    Proposals    \* what a run may propose: a target in the text and its hunks

ASSUME TextsAreTexts == Texts \subseteq Seq(Characters)

ASSUME ProposalsAssumption ==
    Proposals \subseteq [from : Nat, to : Nat, hunks : Seq(HunkRecord(Hunks))]

\* A bundle may name any commit of the project.
ASSUME CommitsAreNumbers == 1 .. MaxCommits \subseteq Commits

VARIABLES
    proposal,    \* operation_artifact: the immutable payload of each run
    receipt,     \* the payload of the apply event of a run's proposal
    branch,      \* patch_candidate_branch
    page,        \* state.aiReview of each page
    task         \* what each page's process is busy with

rvVars == <<opVars, storeVars, proposal, receipt, branch, page, task>>

\* The block proposals are about.
Target == 1

NoProposal == [revision |-> 0, text |-> << >>, from |-> 0, to |-> 0, hunks |-> << >>]

NoReceipt == [commit |-> 0, accepted |-> {}, rejected |-> {}]

NoBranch == [commit |-> 0, revision |-> 0]

Closed == [open |-> NoCommit, revision |-> 0, status |-> "review", decisions |-> << >>,
           branched |-> FALSE]

Ids(r) == {proposal[r].hunks[i].id : i \in DOMAIN proposal[r].hunks}

-----------------------------------------------------------------------------
(* A run proposes *)

\* The bundle the runner builds for a proposal about the present head.
ProposalBundle(base) ==
    LET states == << "draft", "compiling", "preflight", "queued", "streaming",
                     "validating", "review" >>
    IN  [ state |-> "review", base |-> base, packet |-> base,
          artifact |-> "patch_proposal", response |-> TRUE, failure |-> FALSE,
          bounded |-> TRUE,
          lifecycle |-> [i \in 1 .. 6 |-> [from |-> states[i], to |-> states[i + 1]]],
          attempts |-> << [ sequence |-> 1, outcome |-> "succeeded",
                            responseStarted |-> TRUE, failureCode |-> FALSE,
                            retriable |-> "null", retryDelay |-> FALSE,
                            bounded |-> TRUE ] >> ]

\* runAiOperation: the run is persisted, and its page opens the review.
Propose(p, r) ==
    /\ page[p] = Closed /\ task[p].kind = "idle"
    /\ \E plan \in Proposals :
          /\ ValidHunks(block[Target].text, plan, plan.hunks)
          /\ PersistOperationBundle(r, ProposalBundle(project.head), DOMAIN commits)
          /\ proposal' = [proposal EXCEPT ![r] =
                 [ revision |-> block[Target].revision, text |-> block[Target].text,
                   from |-> plan.from, to |-> plan.to, hunks |-> plan.hunks ]]
          /\ page' = [page EXCEPT ![p] =
                 [Closed EXCEPT !.open = r, !.decisions = Undecided(plan.hunks)]]
    /\ UNCHANGED <<storeVars, receipt, branch, task>>

-----------------------------------------------------------------------------
(* Decisions *)

\* Mutant of NextStatus: ready is reported once something is accepted.
NextStatusOnceAccepted(decisions) ==
    IF \E id \in DOMAIN decisions : decisions[id] = "accepted" THEN "ready" ELSE "review"

\* decidePatchHunk: the status a page reports with its decisions.
NextStatus(decisions) == IF AllDecided(decisions) THEN "ready" ELSE "review"

\* decidePatchHunk and persistDesktopReviewDecision: what the page sends, and
\* what its copy becomes once the host has answered.
DecideOn(p, id, decision) ==
    LET s == page[p]
        decisions == DecideHunk(proposal[s.open].hunks, s.decisions, id, decision)
        next == NextStatus(decisions)
    IN  /\ s.status \in {"review", "ready"}
        /\ AppendReviewEvent(s.open,
               [ expectedRevision |-> s.revision, expectedStatus |-> s.status,
                 kind |-> "decision", nextStatus |-> next,
                 hunk |-> id, decision |-> decision ])
        /\ page' = [page EXCEPT ![p].revision = @ + 1, ![p].status = next,
                                ![p].decisions = decisions]
        /\ UNCHANGED <<storeVars, proposal, receipt, branch>>

Idle == [kind |-> "idle", todo |-> << >>]

Ready(p) == page[p].open # NoCommit /\ task[p].kind = "idle"

\* decideCurrentHunk; the button of the present decision is disabled.
Decide(p) ==
    /\ Ready(p)
    /\ \E id \in Ids(page[p].open), decision \in Decided :
          page[p].decisions[id] # decision /\ DecideOn(p, id, decision)
    /\ UNCHANGED task

\* decideAllCurrentHunks plans the decisions from its copy of the review.
BeginDecideAll(p) ==
    /\ Ready(p)
    /\ \E decision \in Decided :
          task' = [task EXCEPT ![p] = [kind |-> decision, todo |-> << >>]]
    /\ UNCHANGED <<opVars, storeVars, proposal, receipt, branch, page>>

\* The next hunk of the plan: the first that is not decided so.
NextInPlan(p) ==
    LET s == page[p]
    IN  Those(proposal[s.open].hunks,
              DOMAIN s.decisions \ IdsWith(s.decisions, task[p].kind))

\* It persists them one by one, and its copy advances with each.
DecideNext(p) ==
    /\ task[p].kind \in Decided
    /\ NextInPlan(p) # << >>
    /\ DecideOn(p, Head(NextInPlan(p)).id, task[p].kind)
    /\ UNCHANGED task

\* The plan is carried out, or the host refused a step of it.
EndDecideAll(p) ==
    /\ task[p].kind \in Decided
    /\ \/ NextInPlan(p) = << >>
       \/ <<review[page[p].open].revision, review[page[p].open].status>>
             # <<page[p].revision, page[p].status>>
    /\ task' = [task EXCEPT ![p] = Idle]
    /\ UNCHANGED <<opVars, storeVars, proposal, receipt, branch, page>>

\* rejectCurrentReview, and applyCurrentReview when nothing is accepted.
Reject(p) ==
    /\ Ready(p)
    /\ AppendReviewEvent(page[p].open,
           [ expectedRevision |-> page[p].revision, expectedStatus |-> page[p].status,
             kind |-> "reject", nextStatus |-> "rejected",
             hunk |-> NoHunk, decision |-> "none" ])
    /\ page' = [page EXCEPT ![p] = Closed]
    /\ UNCHANGED <<storeVars, proposal, receipt, branch, task>>

\* deferCurrentReview, and a window that is closed or crashes.
Leave(p) ==
    /\ page[p] # Closed \/ task[p] # Idle
    /\ page' = [page EXCEPT ![p] = Closed]
    /\ task' = [task EXCEPT ![p] = Idle]
    /\ UNCHANGED <<opVars, storeVars, proposal, receipt, branch>>

-----------------------------------------------------------------------------
(* Host handlers of several statements *)

\* Mutant of Reads: opening reads the log before the head it is counted by.
ReadsLogFirst(kind) ==
    CASE kind = "open"   -> << "events", "session" >>
      [] kind = "apply"  -> << "session", "project", "events" >>
      [] kind = "branch" -> << "session", "events", "project" >>

\* The statements of each handler, in the order of its source.
Reads(kind) ==
    CASE kind = "open"   -> << "session", "events" >>
      [] kind = "apply"  -> << "session", "project", "events" >>
      [] kind = "branch" -> << "session", "events", "project" >>

NothingRead ==
    [ revision |-> 0, status |-> "none", decisions |-> << >>, head |-> 0,
      project |-> 0, text |-> << >>, blockRevision |-> 0, view |-> << >> ]

Begin(p, r, kind) ==
    task' = [task EXCEPT ![p] =
                [kind |-> kind, of |-> r, todo |-> Reads(kind), seen |-> NothingRead]]

\* openReviewCandidate.
BeginOpen(p, r) ==
    /\ page[p] = Closed /\ task[p].kind = "idle"
    /\ review[r].status # "none"
    /\ Begin(p, r, "open")
    /\ UNCHANGED <<opVars, storeVars, proposal, receipt, branch, page>>

\* applyCurrentReview with something accepted.
BeginApply(p) ==
    /\ Ready(p)
    /\ page[p].status = "ready"
    /\ Chosen(proposal[page[p].open].hunks, page[p].decisions, "accepted") # << >>
    /\ Begin(p, page[p].open, "apply")
    /\ UNCHANGED <<opVars, storeVars, proposal, receipt, branch, page>>

\* createCurrentCandidateBranch.
BeginBranch(p) ==
    /\ Ready(p)
    /\ page[p].status = "ready" /\ ~page[p].branched
    /\ Chosen(proposal[page[p].open].hunks, page[p].decisions, "accepted") # << >>
    /\ Begin(p, page[p].open, "branch")
    /\ UNCHANGED <<opVars, storeVars, proposal, receipt, branch, page>>

\* What one statement adds to what was read.
Seeing(seen, r, what) ==
    CASE what = "session" ->
             [seen EXCEPT !.revision = review[r].revision, !.status = review[r].status]
      [] what = "events"  ->
             [seen EXCEPT !.decisions = Replay(proposal[r].hunks, review[r].log)]
      [] what = "project" ->
             [seen EXCEPT !.head = project.head, !.project = project.revision,
                          !.text = block[Target].text,
                          !.blockRevision = block[Target].revision,
                          !.view = View(doc, block)]

ReadNext(p) ==
    /\ task[p].todo # << >>
    /\ task' = [task EXCEPT ![p].todo = Tail(@),
                            ![p].seen = Seeing(@, task[p].of, Head(task[p].todo))]
    /\ UNCHANGED <<opVars, storeVars, proposal, receipt, branch, page>>

Read(p, kind) == task[p].kind = kind /\ task[p].todo = << >>

\* load_stored_review_candidate: the status must agree with the decisions.
Consistent(status, decisions) ==
    /\ status \in {"ready", "applied"} => AllDecided(decisions)
    /\ status = "review" => ~AllDecided(decisions)

\* load_review_candidate and hydrateDesktopReviewCandidate.
Opened(p) ==
    LET r == task[p].of
        seen == task[p].seen
    IN  /\ Read(p, "open")
        /\ Consistent(seen.status, seen.decisions)
        /\ seen.status \in {"review", "ready"}
        /\ page' = [page EXCEPT ![p] =
               [ open |-> r, revision |-> seen.revision, status |-> seen.status,
                 decisions |-> seen.decisions, branched |-> branch[r] # NoBranch ]]
        /\ task' = [task EXCEPT ![p] = Idle]
        /\ UNCHANGED <<opVars, storeVars, proposal, receipt, branch>>

\* The proposal is still about what its run read.
StillBased(r, seen) ==
    /\ seen.head = run[r].base
    /\ seen.blockRevision = proposal[r].revision
    /\ seen.text = proposal[r].text
    /\ ValidHunks(seen.text, proposal[r], proposal[r].hunks)

\* Mutant of Decision: the rejected hunks are not filtered out.
DecisionUnfiltered(r, decisions) == proposal[r].hunks

\* The hunks to carry out.
Decision(r, decisions) == Chosen(proposal[r].hunks, decisions, "accepted")

TextAfter(r, seen) == Apply(seen.text, Decision(r, seen.decisions))

WithText(view, text) == [view EXCEPT !.blocks[Target] = text]

\* apply_reviewed_proposal: the block edit and the apply event, which names the
\* commit and every hunk, in one transaction.
ApplyReviewed(p) ==
    LET r == task[p].of
        seen == task[p].seen
        text == TextAfter(r, seen)
    IN  /\ Read(p, "apply")
        /\ <<seen.revision, seen.status>> = <<page[p].revision, "ready">>
        /\ StillBased(r, seen)
        /\ Complete(proposal[r].hunks, seen.decisions)
        /\ Decision(r, seen.decisions) # << >>
        /\ ApplyBlockEdit([Now EXCEPT !.head = seen.head, !.revision = seen.project,
                                      !.block[Target].text = seen.text,
                                      !.block[Target].revision = seen.blockRevision],
                          Target, text, WithText(seen.view, text))
        /\ AppendReviewEvent(r,
               [ expectedRevision |-> seen.revision, expectedStatus |-> "ready",
                 kind |-> "apply", nextStatus |-> "applied",
                 hunk |-> NoHunk, decision |-> "none" ])
        /\ receipt' = [receipt EXCEPT ![r] =
               [ commit |-> NextCommit, accepted |-> IdsWith(seen.decisions, "accepted"),
                 rejected |-> IdsWith(seen.decisions, "rejected") ]]
        /\ page' = [page EXCEPT ![p] = Closed]
        /\ task' = [task EXCEPT ![p] = Idle]
        /\ UNCHANGED <<proposal, branch>>

CandidateCommit(parent, root) ==
    /\ commits' = Append(commits, [parent |-> parent, root |-> root])
    /\ UNCHANGED project

\* create_review_candidate_branch of the store: a commit on the head that main
\* does not move to, with its snapshot and the branch that points to it.
StoreBranch(r, seen, text) ==
    /\ <<review[r].revision, review[r].status>> = <<seen.revision, "ready">>
    /\ project.head = seen.head
    /\ block[Target].revision = proposal[r].revision
    /\ block[Target].text = proposal[r].text
    /\ branch[r] = NoBranch
    /\ CandidateCommit(seen.head, WithText(seen.view, text))
    /\ snapshots' = snapshots \cup
           {[commit |-> NextCommit, view |-> WithText(View(doc, block), text)]}
    /\ branch' = [branch EXCEPT ![r] = [commit |-> NextCommit, revision |-> seen.revision]]
    /\ UNCHANGED <<doc, block, journal, queue, surplus>>

\* create_review_candidate_branch of the host.
CreateBranch(p) ==
    LET r == task[p].of
        seen == task[p].seen
    IN  /\ Read(p, "branch")
        /\ Consistent(seen.status, seen.decisions)
        /\ <<seen.revision, seen.status>> = <<page[p].revision, "ready">>
        /\ StillBased(r, seen)
        /\ Complete(proposal[r].hunks, seen.decisions)
        /\ Decision(r, seen.decisions) # << >>
        /\ StoreBranch(r, seen, TextAfter(r, seen))
        /\ page' = [page EXCEPT ![p].branched = TRUE]
        /\ task' = [task EXCEPT ![p] = Idle]
        /\ UNCHANGED <<opVars, proposal, receipt>>

\* A handler ends with an error: one of its guards fails, or the database does.
\* The page keeps its copy of the review.
Refuse(p) ==
    /\ task[p].kind \in {"open", "apply", "branch"} /\ task[p].todo = << >>
    /\ task' = [task EXCEPT ![p] = Idle]
    /\ UNCHANGED <<opVars, storeVars, proposal, receipt, branch, page>>

-----------------------------------------------------------------------------

RvInit ==
    /\ OpInit
    /\ PsInit
    /\ proposal = [r \in Runs |-> NoProposal]
    /\ receipt = [r \in Runs |-> NoReceipt]
    /\ branch = [r \in Runs |-> NoBranch]
    /\ page = [p \in Pages |-> Closed]
    /\ task = [p \in Pages |-> Idle]

\* Text that is written past the review, in whichever window.
Write ==
    /\ Len(commits) < MaxCommits
    /\ \E text \in Texts : SaveBlock(Now, Target, text)
    /\ UNCHANGED <<opVars, proposal, receipt, branch, page, task>>

RvNext ==
    \/ Write
    \/ \E p \in Pages :
          \/ \E r \in Runs : Propose(p, r) \/ BeginOpen(p, r)
          \/ /\ page[p].open # NoCommit
             /\ review[page[p].open].revision < MaxReviewRevision
             /\ Decide(p) \/ DecideNext(p) \/ Reject(p)
          \/ BeginDecideAll(p) \/ EndDecideAll(p)
          \/ Leave(p)
          \/ BeginApply(p) \/ BeginBranch(p)
          \/ ReadNext(p)
          \/ Opened(p) \/ Refuse(p)
          \/ /\ Len(commits) < MaxCommits
             /\ ApplyReviewed(p) \/ CreateBranch(p)

RvSpec == RvInit /\ [][RvNext]_rvVars

-----------------------------------------------------------------------------
(* Properties *)

Reviewed(r) == review[r].status # "none"

RvTypeOK ==
    /\ \A r \in Runs : Reviewed(r) <=> proposal[r] # NoProposal
    /\ receipt \in [Runs -> [commit : Nat, accepted : SUBSET Hunks, rejected : SUBSET Hunks]]
    /\ branch \in [Runs -> [commit : Nat, revision : Nat]]
    /\ \A p \in Pages :
          /\ page[p].open \in Runs \cup {NoCommit}
          /\ page[p].status \in ReviewStatuses
          /\ task[p].kind \in Decided \cup {"idle", "open", "apply", "branch"}

DecisionsOf(r) == Replay(proposal[r].hunks, review[r].log)

\* A review can always be opened again: its status says ready or applied exactly
\* if replaying its log leaves no hunk undecided ("review candidate status
\* disagrees with replayed decisions").  The store takes the status on trust from
\* the page, which computes it from its own copy of the decisions.
StatusMatchesReplay ==
    \A r \in Runs : Reviewed(r) => Consistent(review[r].status, DecisionsOf(r))

\* A page that is not behind shows what the log says: if its revision is the
\* log's, so are its status and its decisions.  Opening reads revision and log in
\* two statements, and deciding advances the copy without reading the log again.
PageAtHeadShowsLog ==
    \A p \in Pages :
        LET r == page[p].open IN
        r # NoCommit /\ page[p].revision = review[r].revision =>
            page[p].status = review[r].status /\ page[p].decisions = DecisionsOf(r)

\* Carrying out some hunks in the order of the code gives the text with those
\* hunks replaced and nothing else touched.
Holds(commit, r, accepted) ==
    /\ commits[commit].parent = run[r].base
    /\ commits[commit].root =
           WithText(commits[run[r].base].root,
                    Spliced(proposal[r].text, Those(proposal[r].hunks, accepted)))

\* An applied proposal became exactly the text its reviewer decided on: its
\* commit follows the commit the run read, with the accepted hunks carried out
\* and the rejected ones not, and each hunk is on one side (ADR 0014, decision 6:
\* edit, commit, apply event and run state are one transaction).
AppliedIsWhatWasDecided ==
    \A r \in Runs :
        IF review[r].status = "applied"
        THEN /\ receipt[r].accepted = IdsWith(DecisionsOf(r), "accepted")
             /\ receipt[r].rejected = Ids(r) \ receipt[r].accepted
             /\ Holds(receipt[r].commit, r, receipt[r].accepted)
        ELSE receipt[r] = NoReceipt

\* A candidate branch keeps a text that was decided: at the revision it was made
\* the review was ready, and its commit and snapshot hold the hunks accepted
\* then, whatever was decided later (ADR 0028, decisions 6 and 7).
BranchKeepsDecidedText ==
    \A r \in Runs : branch[r] # NoBranch =>
        LET log == SubSeq(review[r].log, 1, branch[r].revision)
            decisions == Replay(proposal[r].hunks, log)
        IN  /\ AllDecided(decisions)
            /\ Holds(branch[r].commit, r, IdsWith(decisions, "accepted"))
            /\ \E s \in snapshots : /\ s.commit = branch[r].commit
                                    /\ s.view = commits[s.commit].root

=============================================================================
