--------------------------- MODULE OperationStore ---------------------------
(***************************************************************************)
(* The audit tables of optimizer-store/src/operation.rs: one row per AI    *)
(* operation run with its context packet, lifecycle events, model attempts *)
(* and artifact, and, for a run whose artifact is a patch proposal, the    *)
(* review head with its log of review events.                              *)
(*                                                                         *)
(* Every public mutation is one IMMEDIATE transaction, so it is one action *)
(* here; an error rolls the transaction back, so a refused call is a       *)
(* disabled action.  A run has at most one artifact (UNIQUE run_id), so    *)
(* the proposal of run r is named r as well.                               *)
(***************************************************************************)
EXTENDS Integers, SequencesExt

CONSTANTS
    Runs,              \* ids of operation runs
    Commits,           \* commit ids a bundle may name
    NoCommit,          \* no commit: an absent run, or a run without packet
    Bundles,           \* the bundles callers try to persist, valid or not
    Hunks,             \* hunk ids a decision may name
    NoHunk,            \* a review event that names no hunk
    MaxReviewRevision  \* bound: review events appended to one proposal

VARIABLES
    run,     \* operation_run with its packet, lifecycle events, attempts, artifact
    review   \* patch_review_head with patch_review_event

opVars == <<run, review>>

-----------------------------------------------------------------------------
(* Values *)

OperationStates ==
    { "draft", "compiling", "preflight", "queued", "streaming", "validating",
      "review", "accepted", "rejected", "conflicted", "failed", "cancelled" }

ReviewStatuses == {"review", "ready", "applied", "rejected", "conflicted"}

EventKinds == {"decision", "apply", "conflict", "rebase", "reject"}

Decisions == {"accepted", "rejected"}

Transition == [from : OperationStates, to : OperationStates]

\* A model attempt.  retriable and retryDelay are nullable columns;
\* failureCode stands for the failure columns being set; bounded, for what the
\* provider chose of the others: a response id of at most 512 characters, an
\* HTTP status in 100..599, a Retry-After of at most a day.
Attempt ==
    [ sequence        : Nat,
      outcome         : {"succeeded", "failed"},
      responseStarted : BOOLEAN,
      failureCode     : BOOLEAN,
      retriable       : {"null", "yes", "no"},
      retryDelay      : BOOLEAN,
      bounded         : BOOLEAN ]

\* response stands for response_id and finish_reason both being set; bounded,
\* for what else the provider chose: token counts that add up, a failure message
\* of 1 to 4,000 bytes, an artifact of at most 16 MiB.
Bundle ==
    [ state     : OperationStates,
      base      : Commits,
      packet    : Commits \cup {NoCommit},
      artifact  : {"none", "patch_proposal", "findings"},
      response  : BOOLEAN,
      failure   : BOOLEAN,
      bounded   : BOOLEAN,
      lifecycle : Seq(Transition),
      attempts  : Seq(Attempt) ]

RunRecord ==
    [ state     : OperationStates \cup {"absent"},
      base      : Commits \cup {NoCommit},
      packet    : Commits \cup {NoCommit},
      artifact  : {"none", "patch_proposal", "findings"},
      failure   : BOOLEAN,
      lifecycle : Seq(Transition),
      attempts  : Seq(Attempt) ]

ReviewCommand ==
    [ expectedRevision : 0 .. MaxReviewRevision,
      expectedStatus   : ReviewStatuses,
      kind             : EventKinds,
      nextStatus       : ReviewStatuses,
      hunk             : Hunks \cup {NoHunk},
      decision         : Decisions \cup {"none"} ]

ReviewEvent ==
    [ baseRevision : Nat,
      newRevision  : Nat,
      kind         : EventKinds,
      previous     : ReviewStatuses,
      next         : ReviewStatuses,
      hunk         : Hunks \cup {NoHunk},
      decision     : Decisions \cup {"none"} ]

ReviewRecord ==
    [ revision : Nat,
      status   : ReviewStatuses \cup {"none"},
      log      : Seq(ReviewEvent) ]

ASSUME BundlesAreBundles == Bundles \subseteq Bundle

ASSUME RevisionBound == MaxReviewRevision \in Nat

ASSUME CommitsHaveNoNull == NoCommit \notin Commits

AbsentRun ==
    [ state |-> "absent", base |-> NoCommit, packet |-> NoCommit,
      artifact |-> "none", failure |-> FALSE,
      lifecycle |-> << >>, attempts |-> << >> ]

NoReview == [revision |-> 0, status |-> "none", log |-> << >>]

-----------------------------------------------------------------------------
(* Persisting a finished run *)

ValidOperationTransitions ==
    { <<"draft", "compiling">>,      <<"draft", "cancelled">>,
      <<"compiling", "preflight">>,  <<"compiling", "failed">>,
      <<"compiling", "cancelled">>,
      <<"preflight", "queued">>,     <<"preflight", "failed">>,
      <<"preflight", "cancelled">>,
      <<"queued", "streaming">>,     <<"queued", "failed">>,
      <<"queued", "cancelled">>,
      <<"streaming", "validating">>, <<"streaming", "failed">>,
      <<"streaming", "cancelled">>,
      <<"validating", "review">>,    <<"validating", "failed">>,
      <<"review", "accepted">>,      <<"review", "rejected">>,
      <<"review", "conflicted">>,
      <<"conflicted", "review">>,    <<"conflicted", "rejected">> }

ValidLifecycle(events, final) ==
    /\ Len(events) \in 1 .. 64
    /\ events[1].from = "draft"
    /\ \A i \in 1 .. Len(events) :
          /\ <<events[i].from, events[i].to>> \in ValidOperationTransitions
          /\ i > 1 => events[i - 1].to = events[i].from
    /\ events[Len(events)].to = final

\* What an attempt came to, and what its columns may then say; last tells
\* whether it is the last one.
ValidOutcome(a, last) ==
    \/ /\ a.outcome = "succeeded"
       /\ a.responseStarted
       /\ ~a.failureCode /\ a.retriable = "null" /\ ~a.retryDelay
       /\ last
    \/ /\ a.outcome = "failed"
       /\ a.failureCode /\ a.retriable # "null"
       /\ a.retryDelay => a.retriable = "yes" /\ ~a.responseStarted
       /\ ~last => a.retryDelay

\* One attempt of validate_attempts.
ValidAttempt(a, last) == a.bounded /\ ValidOutcome(a, last)

ValidAttempts(attempts) ==
    /\ Len(attempts) <= 3
    /\ \A i \in 1 .. Len(attempts) :
          /\ attempts[i].sequence = i
          /\ ValidAttempt(attempts[i], i = Len(attempts))

ValidBundle(b) ==
    /\ \/ /\ b.state = "review"
          /\ b.packet # NoCommit /\ b.artifact # "none" /\ b.response /\ ~b.failure
       \/ /\ b.state \in {"failed", "cancelled"}
          /\ b.artifact = "none" /\ b.failure
    /\ b.bounded
    /\ b.packet # NoCommit => b.packet = b.base
    /\ ValidLifecycle(b.lifecycle, b.state)
    /\ ValidAttempts(b.attempts)

\* Mutant of PersistOperationBundle: every artifact gets a review head.
PersistUnderReview(r, b, projectCommits) ==
    /\ run[r].state = "absent"
    /\ ValidBundle(b)
    /\ b.base \in projectCommits
    /\ run' = [run EXCEPT ![r] =
                  [ state |-> b.state, base |-> b.base, packet |-> b.packet,
                    artifact |-> b.artifact, failure |-> b.failure,
                    lifecycle |-> b.lifecycle, attempts |-> b.attempts ]]
    /\ review' = IF b.artifact # "none"
                 THEN [review EXCEPT ![r].status = "review"]
                 ELSE review

\* persist_operation_bundle: the run, its packet, lifecycle, attempts and
\* artifact, and the review head of a patch proposal, in one transaction.
\* projectCommits is the set of commits the project has when it runs.
PersistOperationBundle(r, b, projectCommits) ==
    /\ run[r].state = "absent"
    /\ ValidBundle(b)
    /\ b.base \in projectCommits
    /\ run' = [run EXCEPT ![r] =
                  [ state |-> b.state, base |-> b.base, packet |-> b.packet,
                    artifact |-> b.artifact, failure |-> b.failure,
                    lifecycle |-> b.lifecycle, attempts |-> b.attempts ]]
    /\ review' = IF b.artifact = "patch_proposal"
                 THEN [review EXCEPT ![r].status = "review"]
                 ELSE review

-----------------------------------------------------------------------------
(* Reviewing a patch proposal *)

\* Mutant of ReviewStatusChanges: a conflict may leave the proposal ready.
ConflictMayStayReady(kind) ==
    CASE kind = "decision" -> {"review", "ready"} \X {"review", "ready", "rejected"}
      [] kind = "apply"    -> {<<"ready", "applied">>}
      [] kind = "conflict" -> {"review", "ready"} \X {"conflicted", "ready"}
      [] kind = "rebase"   -> {<<"conflicted", "review">>}
      [] kind = "reject"   -> {"review", "ready", "conflicted"} \X {"rejected"}

\* The statuses a kind of event leads from and to.
ReviewStatusChanges(kind) ==
    CASE kind = "decision" -> {"review", "ready"} \X {"review", "ready", "rejected"}
      [] kind = "apply"    -> {<<"ready", "applied">>}
      [] kind = "conflict" -> {"review", "ready"} \X {"conflicted"}
      [] kind = "rebase"   -> {<<"conflicted", "review">>}
      [] kind = "reject"   -> {"review", "ready", "conflicted"} \X {"rejected"}

\* assert_review_transition: only a decision names a hunk, and one that ends
\* the review is a rejection.
ValidReviewTransition(c) ==
    /\ <<c.expectedStatus, c.nextStatus>> \in ReviewStatusChanges(c.kind)
    /\ IF c.kind = "decision"
       THEN /\ c.hunk # NoHunk /\ c.decision # "none"
            /\ c.nextStatus = "rejected" => c.decision = "rejected"
       ELSE c.hunk = NoHunk /\ c.decision = "none"

\* The run state a review status stands for.
OperationStateFor(status) ==
    CASE status \in {"review", "ready"} -> "review"
      [] status = "applied"             -> "accepted"
      [] status = "rejected"            -> "rejected"
      [] status = "conflicted"          -> "conflicted"

\* The review_head_guard trigger.
ReviewHeadGuard(old, new) ==
    \/ old = "review" /\ new \in {"review", "ready", "rejected", "conflicted"}
    \/ old = "ready" /\ new \in ReviewStatuses
    \/ old = "conflicted" /\ new \in {"review", "rejected"}

\* The operation_run_guard trigger.
OperationRunGuard(old, new) ==
    \/ old = "review" /\ new \in {"accepted", "rejected", "conflicted"}
    \/ old = "conflicted" /\ new \in {"review", "rejected"}

\* Mutant of UpdateOperationStateForReview: no lifecycle event is written.
UpdateOperationStateOnly(p, status) ==
    LET current == run[p].state
        desired == OperationStateFor(status)
    IN  \/ /\ current = desired
           /\ UNCHANGED run
        \/ /\ current # desired
           /\ <<current, desired>> \in ValidOperationTransitions
           /\ OperationRunGuard(current, desired)
           /\ run' = [run EXCEPT ![p].state = desired]

UpdateOperationStateForReview(p, status) ==
    LET current == run[p].state
        desired == OperationStateFor(status)
    IN  \/ /\ current = desired
           /\ UNCHANGED run
        \/ /\ current # desired
           /\ <<current, desired>> \in ValidOperationTransitions
           /\ OperationRunGuard(current, desired)
           /\ run' = [run EXCEPT
                 ![p].state = desired,
                 ![p].lifecycle = Append(@, [from |-> current, to |-> desired])]

\* Mutant of EventOf: numbered by the revision it was based on.
EventAtBaseRevision(c, head) ==
    [ baseRevision |-> head.revision - 1, newRevision |-> head.revision,
      kind |-> c.kind, previous |-> head.status, next |-> c.nextStatus,
      hunk |-> c.hunk, decision |-> c.decision ]

EventOf(c, head) ==
    [ baseRevision |-> head.revision, newRevision |-> head.revision + 1,
      kind |-> c.kind, previous |-> head.status, next |-> c.nextStatus,
      hunk |-> c.hunk, decision |-> c.decision ]

\* append_review_event_in_transaction: compare-and-swap on revision and
\* status, append the event, move the head, and let the run follow.
AppendReviewEvent(p, c) ==
    /\ review[p].status # "none"
    /\ c.expectedRevision = review[p].revision
    /\ c.expectedStatus = review[p].status
    /\ ValidReviewTransition(c)
    /\ ReviewHeadGuard(review[p].status, c.nextStatus)
    /\ review' = [review EXCEPT ![p] =
                     [ revision |-> @.revision + 1,
                       status   |-> c.nextStatus,
                       log      |-> Append(@.log, EventOf(c, @)) ]]
    /\ UpdateOperationStateForReview(p, c.nextStatus)

-----------------------------------------------------------------------------

OpInit ==
    /\ run = [r \in Runs |-> AbsentRun]
    /\ review = [r \in Runs |-> NoReview]

Persist == \E r \in Runs, b \in Bundles : PersistOperationBundle(r, b, Commits)

Review ==
    \E p \in Runs, c \in ReviewCommand :
        /\ review[p].revision < MaxReviewRevision
        /\ AppendReviewEvent(p, c)

OpNext == Persist \/ Review

OpSpec == OpInit /\ [][OpNext]_opVars

-----------------------------------------------------------------------------
(* Properties *)

OpTypeOK ==
    /\ run \in [Runs -> RunRecord]
    /\ review \in [Runs -> ReviewRecord]

Present(r) == run[r].state # "absent"

EndsLifecycle(rec) ==
    LET events == rec.lifecycle IN
    /\ events # << >>
    /\ events[1].from = "draft"
    /\ events[Len(events)].to = rec.state
    /\ \A i \in 1 .. Len(events) - 1 : events[i].to = events[i + 1].from

\* The current state of a run is the end of a gapless chain of lifecycle
\* events that starts in draft (verify_operation_invariants: "operation
\* current state differs from latest lifecycle event").  persist writes the
\* state and the chain from two caller fields, review events move both.
RunStateEndsLifecycle == \A r \in Runs : Present(r) => EndsLifecycle(run[r])

ReplaysLog(head) ==
    LET log == head.log IN
    /\ head.revision = Len(log)
    /\ log = << >> => head.status = "review"
    /\ log # << >> => log[Len(log)].next = head.status
    /\ \A i \in 1 .. Len(log) : log[i].newRevision = i
    /\ \A i \in 1 .. Len(log) - 1 : log[i].next = log[i + 1].previous

\* The mutable review head is what replaying the immutable review log gives:
\* its revision counts the events and its status is where the last one went,
\* each event leaving from the status the one before reached
\* (verify_operation_invariants: "review head revision/status differs from
\* immutable review log").
ReviewHeadReplaysLog ==
    \A p \in Runs : review[p].status # "none" => ReplaysLog(review[p])

\* "review status and operation state disagree": a run whose artifact is a
\* patch proposal is exactly where its review stands, and no other run has
\* a review head ("patch proposal/review head cardinality is invalid").
RunFollowsReview ==
    \A r \in Runs :
        /\ run[r].artifact = "patch_proposal" <=> review[r].status # "none"
        /\ review[r].status # "none" =>
              run[r].state = OperationStateFor(review[r].status)

OutcomeMatches(rec) ==
    /\ rec.state \in {"failed", "cancelled"} <=> rec.failure
    /\ rec.failure <=> rec.artifact = "none"
    /\ rec.artifact # "none" => rec.packet # NoCommit
    /\ rec.packet \in {NoCommit, rec.base}

\* A run carries an artifact and a bound packet, or a failure, never both:
\* the cardinality and binding queries of verify_operation_invariants.
OutcomeMatchesRecords == \A r \in Runs : Present(r) => OutcomeMatches(run[r])

\* A proposal is applied at most once, by the last event of its log, and not
\* before some decision of the reviewer followed the last rebase: a conflict
\* sends the proposal back to a state only a new decision leaves for ready.
AppliedFollowsDecision ==
    \A p \in Runs :
        LET log == review[p].log IN
        \A i \in 1 .. Len(log) : log[i].kind = "apply" =>
            /\ i = Len(log)
            /\ \E d \in 1 .. i - 1 :
                  /\ log[d].kind = "decision" /\ log[d].next = "ready"
                  /\ \A k \in d .. i - 1 : log[k].kind = "decision"

\* The tables implement the audit that readers rely on: the row of a run and its
\* lifecycle, written from two fields of a bundle and moved together by review
\* events, are one gapless history that only grows and ends where the run stands.
Audit == INSTANCE OperationAudit WITH
            outcome <- [r \in Runs |-> run[r].state],
            history <- [r \in Runs |-> run[r].lifecycle]

AuditSpec == Audit!Spec

=============================================================================
