----------------------- MODULE OperationStore_proofs -----------------------
(***************************************************************************)
(* Type correctness and the audit invariants of OperationStore, for every  *)
(* set of runs, of bundles and of hunks and every bound.                   *)
(***************************************************************************)
EXTENDS OperationStore, TLAPS, SequenceTheorems

-----------------------------------------------------------------------------
(* What one step does to one run and to one review head. *)

LEMMA NonEmpty ==
    ASSUME NEW s, Len(s) # 0
    PROVE  s # << >>
<1>1. Len(<< >>) = 0
  OBVIOUS
<1>2. QED BY <1>1, Zenon

\* A bundle that passes validation leaves a well-typed run record that ends
\* its own lifecycle and whose columns match its state.
LEMMA BundleMakesRecord ==
    ASSUME NEW b \in Bundle, ValidBundle(b),
           NEW rec, rec = [ state |-> b.state, base |-> b.base,
                            packet |-> b.packet, artifact |-> b.artifact,
                            failure |-> b.failure, lifecycle |-> b.lifecycle,
                            attempts |-> b.attempts ]
    PROVE  /\ rec \in RunRecord
           /\ EndsLifecycle(rec)
           /\ OutcomeMatches(rec)
<1>1. rec \in RunRecord
  BY DEF Bundle, RunRecord
<1>2. EndsLifecycle(rec)
  <2>1. Len(b.lifecycle) \in 1 .. 64 /\ b.lifecycle \in Seq(Transition)
    BY DEF ValidBundle, ValidLifecycle, Bundle
  <2>2. b.lifecycle # << >>
    <3>1. \A n \in 1 .. 64 : n # 0
      OBVIOUS
    <3>2. Len(b.lifecycle) # 0
      BY <3>1, <2>1, Zenon
    <3>3. QED BY <3>2, NonEmpty, Zenon
  <2>3. b.lifecycle[1].from = "draft" /\ b.lifecycle[Len(b.lifecycle)].to = b.state
    BY DEF ValidBundle, ValidLifecycle
  <2>4. ASSUME NEW i \in 1 .. Len(b.lifecycle) - 1
        PROVE  b.lifecycle[i].to = b.lifecycle[i + 1].from
    <3>1. i + 1 \in 1 .. Len(b.lifecycle) /\ i + 1 > 1 /\ (i + 1) - 1 = i
      BY <2>1
    <3>2. QED BY <3>1 DEF ValidBundle, ValidLifecycle
  <2>5. QED BY <2>2, <2>3, <2>4 DEF EndsLifecycle
<1>3. OutcomeMatches(rec)
  BY CommitsHaveNoNull DEF ValidBundle, OutcomeMatches, Bundle
<1>4. QED BY <1>1, <1>2, <1>3

\* Appending the transition that leaves the current state keeps a run record
\* at the end of its lifecycle.
LEMMA AppendEndsLifecycle ==
    ASSUME NEW rec \in RunRecord, EndsLifecycle(rec),
           NEW to \in OperationStates, rec.state \in OperationStates,
           NEW next, next = [rec EXCEPT !.state = to,
                                !.lifecycle = Append(@, [from |-> rec.state, to |-> to])]
    PROVE  next \in RunRecord /\ EndsLifecycle(next)
<1> DEFINE e == [from |-> rec.state, to |-> to]
           old == rec.lifecycle
           new == Append(old, e)
<1>1. old \in Seq(Transition) /\ e \in Transition
  BY DEF RunRecord, Transition
<1>2. /\ new \in Seq(Transition)
      /\ Len(new) = Len(old) + 1
      /\ \A i \in 1 .. Len(old) : new[i] = old[i]
      /\ new[Len(old) + 1] = e
  BY <1>1, AppendProperties
<1>3. next.lifecycle = new /\ next.state = to /\ next \in RunRecord
  BY <1>2 DEF RunRecord
<1>4. Len(old) \in Nat /\ Len(old) >= 1
  BY <1>1, EmptySeq DEF EndsLifecycle
<1>5. new # << >> /\ new[1].from = "draft"
  BY <1>2, <1>4, NonEmpty DEF EndsLifecycle
<1>6. new[Len(new)].to = to
  BY <1>2
<1>7. ASSUME NEW i \in 1 .. Len(new) - 1
      PROVE  new[i].to = new[i + 1].from
  <2>1. CASE i < Len(old)
    BY <2>1, <1>2, <1>4 DEF EndsLifecycle
  <2>2. CASE i = Len(old)
    BY <2>2, <1>2, <1>4 DEF EndsLifecycle
  <2>3. QED BY <2>1, <2>2, <1>2, <1>4
<1>8. QED BY <1>3, <1>5, <1>6, <1>7 DEF EndsLifecycle

\* A command with any revision a caller may expect.
AnyReviewCommand ==
    [ expectedRevision : Nat,
      expectedStatus   : ReviewStatuses,
      kind             : EventKinds,
      nextStatus       : ReviewStatuses,
      hunk             : Hunks \cup {NoHunk},
      decision         : Decisions \cup {"none"} ]

\* Appending an event that leaves the head's revision and status keeps a
\* review head the replay of its log.
LEMMA AppendReplaysLog ==
    ASSUME NEW head \in ReviewRecord, head.status # "none", ReplaysLog(head),
           NEW c \in AnyReviewCommand,
           NEW next, next = [ revision |-> head.revision + 1,
                              status   |-> c.nextStatus,
                              log      |-> Append(head.log, EventOf(c, head)) ]
    PROVE  next \in ReviewRecord /\ ReplaysLog(next)
<1> DEFINE e == EventOf(c, head)
           old == head.log
           new == Append(old, e)
<1>1. old \in Seq(ReviewEvent) /\ head.revision \in Nat
  BY DEF ReviewRecord
<1>2. e \in ReviewEvent
  BY <1>1 DEF EventOf, ReviewEvent, AnyReviewCommand, ReviewRecord
<1>3. /\ new \in Seq(ReviewEvent)
      /\ Len(new) = Len(old) + 1
      /\ \A i \in 1 .. Len(old) : new[i] = old[i]
      /\ new[Len(old) + 1] = e
  BY <1>1, <1>2, AppendProperties
<1>4. Len(old) \in Nat
  BY <1>1
<1>5. next \in ReviewRecord
  BY <1>1, <1>3 DEF ReviewRecord, AnyReviewCommand
<1>6. head.revision = Len(old)
  BY DEF ReplaysLog
<1>7. ReplaysLog(next)
  <2>1. next.revision = Len(new) /\ new[Len(new)].next = c.nextStatus
    BY <1>3, <1>4, <1>6 DEF EventOf
  <2>5. new # << >>
    <3>1. Len(new) # 0
      BY <1>3, <1>4
    <3>2. QED BY <3>1, NonEmpty
  <2>2. ASSUME NEW i \in 1 .. Len(new)
        PROVE  new[i].newRevision = i
    <3>1. CASE i <= Len(old)
      BY <3>1, <1>3, <1>4 DEF ReplaysLog
    <3>2. CASE i = Len(old) + 1
      BY <3>2, <1>3, <1>6 DEF EventOf
    <3>3. QED BY <3>1, <3>2, <1>3, <1>4
  <2>3. ASSUME NEW i \in 1 .. Len(new) - 1
        PROVE  new[i].next = new[i + 1].previous
    <3>1. CASE i < Len(old)
      BY <3>1, <1>3, <1>4 DEF ReplaysLog
    <3>2. CASE i = Len(old)
      <4>1. old # << >> /\ old[Len(old)].next = head.status
        BY <3>2, <1>4 DEF ReplaysLog
      <4>2. QED BY <4>1, <3>2, <1>3, <1>4 DEF EventOf
    <3>3. QED BY <3>1, <3>2, <1>3, <1>4
  <2>4. QED BY <2>1, <2>2, <2>3, <2>5 DEF ReplaysLog
<1>8. QED BY <1>5, <1>7

-----------------------------------------------------------------------------
(* The inductive invariant *)

\* The parts need each other: a lifecycle can be extended only from the state
\* the run is in, that state is known only from the review status, and a head
\* opened by persist starts an empty log only if it was never used before.
AuditInvariant ==
    /\ OpTypeOK
    /\ \A p \in Runs : review[p].status = "none" => review[p] = NoReview
    /\ RunStateEndsLifecycle
    /\ ReviewHeadReplaysLog
    /\ RunFollowsReview
    /\ OutcomeMatchesRecords

LEMMA InitAudit == OpInit => AuditInvariant
<1> SUFFICES ASSUME OpInit PROVE AuditInvariant
  OBVIOUS
<1>1. AbsentRun \in RunRecord /\ NoReview \in ReviewRecord
  BY EmptySeq DEF AbsentRun, RunRecord, NoReview, ReviewRecord
<1>2. QED
  BY <1>1 DEF OpInit, AuditInvariant, OpTypeOK, RunStateEndsLifecycle,
     ReviewHeadReplaysLog, RunFollowsReview, OutcomeMatchesRecords, Present,
     AbsentRun, NoReview

LEMMA AbsentHasNoReview ==
    ASSUME AuditInvariant, NEW r \in Runs, run[r].state = "absent"
    PROVE  review[r] = NoReview
<1>1. review[r].status \in ReviewStatuses \cup {"none"}
  BY DEF AuditInvariant, OpTypeOK, ReviewRecord
<1>2. review[r].status # "none" => OperationStateFor(review[r].status) # "absent"
  BY <1>1 DEF OperationStateFor, ReviewStatuses
<1>3. review[r].status = "none"
  BY <1>2 DEF AuditInvariant, RunFollowsReview
<1>4. QED BY <1>3 DEF AuditInvariant

LEMMA PersistKeepsAudit ==
    ASSUME AuditInvariant, NEW r \in Runs, NEW b \in Bundle,
           NEW projectCommits, PersistOperationBundle(r, b, projectCommits)
    PROVE  AuditInvariant'
<1> USE DEF AuditInvariant
<1> DEFINE rec == [ state |-> b.state, base |-> b.base, packet |-> b.packet,
                    artifact |-> b.artifact, failure |-> b.failure,
                    lifecycle |-> b.lifecycle, attempts |-> b.attempts ]
<1>1. ValidBundle(b) /\ run[r].state = "absent" /\ run' = [run EXCEPT ![r] = rec]
  BY DEF PersistOperationBundle
<1>2. rec \in RunRecord /\ EndsLifecycle(rec) /\ OutcomeMatches(rec)
  BY <1>1, BundleMakesRecord
<1>3. run'[r] = rec /\ \A q \in Runs \ {r} : run'[q] = run[q]
  BY <1>1 DEF OpTypeOK
<1>4. /\ \A q \in Runs \ {r} : review'[q] = review[q]
      /\ review'[r].log = review[r].log /\ review'[r].revision = review[r].revision
      /\ review'[r].status = IF b.artifact = "patch_proposal" THEN "review"
                             ELSE review[r].status
      /\ review' \in [Runs -> ReviewRecord]
  BY DEF PersistOperationBundle, OpTypeOK, ReviewRecord, ReviewStatuses
<1>5. review[r] = NoReview
  BY <1>1, AbsentHasNoReview
<1>6. OpTypeOK'
  BY <1>1, <1>2, <1>4 DEF OpTypeOK
<1>7. \A p \in Runs : review'[p].status = "none" => review'[p] = NoReview
  BY <1>5 DEF PersistOperationBundle, OpTypeOK
<1>8. RunStateEndsLifecycle'
  BY <1>2, <1>3 DEF RunStateEndsLifecycle, Present
<1>9. ReviewHeadReplaysLog'
  <2>1. CASE b.artifact = "patch_proposal"
    <3> DEFINE new == review'[r]
    <3>1. new.log = << >> /\ new.revision = 0 /\ new.status = "review"
      BY <2>1, <1>4, <1>5 DEF NoReview
    <3>2. Len(<< >>) = 0
      OBVIOUS
    <3>3. Len(new.log) = 0 /\ 1 .. Len(new.log) = {} /\ 1 .. Len(new.log) - 1 = {}
      BY <3>1, <3>2
    <3> HIDE DEF new
    <3>4. ReplaysLog(new)
      BY <3>1, <3>3, Zenon DEF ReplaysLog
    <3>5. QED BY <3>4, <1>4 DEF ReviewHeadReplaysLog, new
  <2>2. CASE b.artifact # "patch_proposal"
    BY <2>2, <1>4, <1>5 DEF ReviewHeadReplaysLog, NoReview
  <2>3. QED BY <2>1, <2>2
<1>10. RunFollowsReview'
  <2>1. rec.artifact = "patch_proposal" => rec.state = "review"
    BY <1>1 DEF ValidBundle
  <2>2. /\ rec.artifact = "patch_proposal" <=> review'[r].status # "none"
        /\ review'[r].status # "none" => review'[r].status = "review" /\ rec.state = "review"
    BY <2>1, <1>4, <1>5 DEF NoReview
  <2>3. OperationStateFor("review") = "review"
    BY DEF OperationStateFor
  <2>4. ASSUME NEW q \in Runs
        PROVE  /\ run'[q].artifact = "patch_proposal" <=> review'[q].status # "none"
               /\ review'[q].status # "none" =>
                     run'[q].state = OperationStateFor(review'[q].status)
    BY <2>2, <2>3, <1>3, <1>4 DEF RunFollowsReview
  <2>5. QED BY <2>4 DEF RunFollowsReview
<1>11. OutcomeMatchesRecords'
  BY <1>2, <1>3 DEF OutcomeMatchesRecords, Present
<1>12. QED BY <1>6, <1>7, <1>8, <1>9, <1>10, <1>11

LEMMA AppendKeepsAudit ==
    ASSUME AuditInvariant, NEW p \in Runs, NEW c \in AnyReviewCommand,
           AppendReviewEvent(p, c)
    PROVE  AuditInvariant'
<1> USE DEF AuditInvariant
<1> DEFINE head == [ revision |-> review[p].revision + 1, status |-> c.nextStatus,
                     log |-> Append(review[p].log, EventOf(c, review[p])) ]
           to == OperationStateFor(c.nextStatus)
           rec == [run[p] EXCEPT !.state = to,
                      !.lifecycle = Append(@, [from |-> run[p].state, to |-> to])]
<1>1. review[p].status # "none" /\ review' = [review EXCEPT ![p] = head]
  BY DEF AppendReviewEvent
<1>2. review[p] \in ReviewRecord /\ ReplaysLog(review[p])
  BY <1>1 DEF OpTypeOK, ReviewHeadReplaysLog
<1>3. head \in ReviewRecord /\ ReplaysLog(head)
  BY <1>1, <1>2, AppendReplaysLog
<1>4. /\ review'[p] = head
      /\ \A q \in Runs \ {p} : review'[q] = review[q]
      /\ review' \in [Runs -> ReviewRecord]
  BY <1>1, <1>3 DEF OpTypeOK
<1>5. c.nextStatus \in ReviewStatuses /\ to \in OperationStates
  BY DEF AnyReviewCommand, ReviewStatuses, OperationStateFor, OperationStates
<1>6. /\ run[p] \in RunRecord
      /\ run[p].artifact = "patch_proposal"
      /\ run[p].state = OperationStateFor(review[p].status)
      /\ run[p].state \in OperationStates
  <2>1. review[p].status \in ReviewStatuses
    BY <1>1, <1>2 DEF ReviewRecord
  <2>2. QED
    BY <2>1, <1>1 DEF OpTypeOK, RunFollowsReview, ReviewStatuses,
       OperationStateFor, OperationStates
<1>7. Present(p) /\ EndsLifecycle(run[p]) /\ OutcomeMatches(run[p])
  BY <1>6 DEF Present, RunStateEndsLifecycle, OutcomeMatchesRecords, OperationStates
<1>8. rec \in RunRecord /\ EndsLifecycle(rec)
  BY <1>5, <1>6, <1>7, AppendEndsLifecycle
<1>9. run' = [run EXCEPT ![p] = rec] \/ (run' = run /\ run[p].state = to)
  BY <1>1 DEF AppendReviewEvent, UpdateOperationStateForReview, OpTypeOK
<1>10. /\ run' \in [Runs -> RunRecord]
       /\ \A q \in Runs \ {p} : run'[q] = run[q]
       /\ run'[p].state = to /\ run'[p].artifact = run[p].artifact
       /\ run'[p].failure = run[p].failure /\ run'[p].packet = run[p].packet
       /\ run'[p].base = run[p].base
       /\ EndsLifecycle(run'[p])
  <2>1. CASE run' = [run EXCEPT ![p] = rec]
    <3>1. run'[p] = rec /\ \A q \in Runs \ {p} : run'[q] = run[q]
      BY <2>1 DEF OpTypeOK
    <3>2. run' \in [Runs -> RunRecord]
      BY <2>1, <1>8 DEF OpTypeOK
    <3>3. /\ rec.state = to /\ rec.artifact = run[p].artifact
          /\ rec.failure = run[p].failure /\ rec.packet = run[p].packet
          /\ rec.base = run[p].base
      BY <1>6 DEF RunRecord
    <3>4. QED BY <3>1, <3>2, <3>3, <1>8
  <2>2. CASE run' = run /\ run[p].state = to
    BY <2>2, <1>7 DEF OpTypeOK
  <2>3. QED BY <2>1, <2>2, <1>9
<1>11. OpTypeOK'
  BY <1>4, <1>10 DEF OpTypeOK
<1>12. \A q \in Runs : review'[q].status = "none" => review'[q] = NoReview
  BY <1>4, <1>5 DEF ReviewStatuses
<1>13. RunStateEndsLifecycle'
  BY <1>10 DEF RunStateEndsLifecycle, Present
<1>14. ReviewHeadReplaysLog'
  BY <1>3, <1>4 DEF ReviewHeadReplaysLog
<1>15. RunFollowsReview'
  BY <1>4, <1>5, <1>6, <1>10 DEF RunFollowsReview, ReviewStatuses
<1>16. OutcomeMatchesRecords'
  <2>1. to \notin {"failed", "cancelled"} /\ run[p].state \notin {"failed", "cancelled"}
    <3>1. review[p].status \in ReviewStatuses
      BY <1>1, <1>2 DEF ReviewRecord
    <3>2. QED BY <3>1, <1>5, <1>6 DEF OperationStateFor, ReviewStatuses
  <2>2. OutcomeMatches(run'[p])
    BY <2>1, <1>7, <1>10 DEF OutcomeMatches
  <2>3. QED BY <2>2, <1>10 DEF OutcomeMatchesRecords, Present
<1>17. QED BY <1>11, <1>12, <1>13, <1>14, <1>15, <1>16

-----------------------------------------------------------------------------
(* Theorems *)

THEOREM AuditInvariantHolds == OpSpec => []AuditInvariant
<1>1. OpInit => AuditInvariant
  BY InitAudit
<1>2. AuditInvariant /\ [OpNext]_opVars => AuditInvariant'
  <2> SUFFICES ASSUME AuditInvariant, [OpNext]_opVars PROVE AuditInvariant'
    OBVIOUS
  <2>1. CASE Persist
    BY <2>1, PersistKeepsAudit, BundlesAreBundles DEF Persist
  <2>2. CASE Review
    <3>1. ReviewCommand \subseteq AnyReviewCommand
      BY RevisionBound DEF ReviewCommand, AnyReviewCommand
    <3>2. QED BY <2>2, <3>1, AppendKeepsAudit DEF Review
  <2>3. CASE UNCHANGED opVars
    BY <2>3 DEF opVars, AuditInvariant, OpTypeOK, RunStateEndsLifecycle,
       ReviewHeadReplaysLog, RunFollowsReview, OutcomeMatchesRecords, Present
  <2>4. QED BY <2>1, <2>2, <2>3 DEF OpNext
<1>3. QED BY <1>1, <1>2, PTL DEF OpSpec

\* Every run and every review head keeps its shape (persist_operation_bundle
\* and append_review_event write only what their checks let through).
THEOREM OpTypeCorrect == OpSpec => []OpTypeOK
<1>1. AuditInvariant => OpTypeOK
  BY DEF AuditInvariant
<1>2. QED BY <1>1, AuditInvariantHolds, PTL

\* The state of every recorded run ends the gapless lifecycle it was recorded
\* with and the review extended.
THEOREM RunStateIsEndOfLifecycle == OpSpec => []RunStateEndsLifecycle
<1>1. AuditInvariant => RunStateEndsLifecycle
  BY DEF AuditInvariant
<1>2. QED BY <1>1, AuditInvariantHolds, PTL

\* The mutable review head is always the replay of the immutable event log.
THEOREM ReviewHeadIsReplay == OpSpec => []ReviewHeadReplaysLog
<1>1. AuditInvariant => ReviewHeadReplaysLog
  BY DEF AuditInvariant
<1>2. QED BY <1>1, AuditInvariantHolds, PTL

\* A run and the review of its proposal never disagree, and only proposals
\* have a review.
THEOREM RunAgreesWithReview == OpSpec => []RunFollowsReview
<1>1. AuditInvariant => RunFollowsReview
  BY DEF AuditInvariant
<1>2. QED BY <1>1, AuditInvariantHolds, PTL

\* The columns of a recorded run fit its outcome however its review went.
THEOREM OutcomeIsRecorded == OpSpec => []OutcomeMatchesRecords
<1>1. AuditInvariant => OutcomeMatchesRecords
  BY DEF AuditInvariant
<1>2. QED BY <1>1, AuditInvariantHolds, PTL

-----------------------------------------------------------------------------
(* Applying follows deciding *)

\* A proposal is ready only right after a decision that made it so, since a
\* rebase leads to "review" and a conflict away from "ready"; applying ends the
\* log, since no event leaves "applied".
ReadyByDecision(head) ==
    LET log == head.log IN
    head.status = "ready" =>
        log # << >> /\ log[Len(log)].kind = "decision" /\ log[Len(log)].next = "ready"

AppliedByDecision(head) ==
    LET log == head.log IN
    \A i \in 1 .. Len(log) : log[i].kind = "apply" =>
        /\ i = Len(log) /\ head.status = "applied"
        /\ \E d \in 1 .. i - 1 :
              /\ log[d].kind = "decision" /\ log[d].next = "ready"
              /\ \A k \in d .. i - 1 : log[k].kind = "decision"

DecidedBeforeApply(head) == ReadyByDecision(head) /\ AppliedByDecision(head)

ReviewDecidedBeforeApply == \A p \in Runs : DecidedBeforeApply(review[p])

LEMMA AppendKeepsDecided ==
    ASSUME NEW head \in ReviewRecord, DecidedBeforeApply(head), head.status # "none",
           NEW c \in ReviewCommand, c.expectedStatus = head.status,
           ValidReviewTransition(c), ReviewHeadGuard(head.status, c.nextStatus),
           NEW next, next = [ revision |-> head.revision + 1,
                              status   |-> c.nextStatus,
                              log      |-> Append(head.log, EventOf(c, head)) ]
    PROVE  DecidedBeforeApply(next)
<1> DEFINE e == EventOf(c, head)
           old == head.log
           new == Append(old, e)
<1>1. old \in Seq(ReviewEvent) /\ head.revision \in Nat /\ Len(old) \in Nat
  BY DEF ReviewRecord
<1>2. e \in ReviewEvent /\ e.kind = c.kind /\ e.next = c.nextStatus
  BY <1>1 DEF EventOf, ReviewEvent, ReviewCommand, ReviewRecord
<1>3. /\ Len(new) = Len(old) + 1 /\ new \in Seq(ReviewEvent)
      /\ \A i \in 1 .. Len(old) : new[i] = old[i]
      /\ new[Len(old) + 1] = e
  BY <1>1, <1>2, AppendProperties
<1>4. next.log = new /\ next.status = c.nextStatus
  OBVIOUS
<1>5. /\ c.nextStatus = "ready" => c.kind = "decision"
      /\ c.kind = "apply" => head.status = "ready" /\ c.nextStatus = "applied"
      /\ head.status # "applied"
  BY DEF ValidReviewTransition, ReviewStatusChanges, ReviewHeadGuard, ReviewCommand,
     EventKinds, ReviewStatuses
<1> HIDE DEF new, e
<1>6. c.nextStatus = "ready" =>
         new # << >> /\ new[Len(new)].kind = "decision" /\ new[Len(new)].next = "ready"
  <2>1. Len(new) # 0
    BY <1>1, <1>3
  <2>2. new # << >>
    BY <2>1, NonEmpty
  <2>3. QED BY <2>2, <1>2, <1>3, <1>5
<1>7. ASSUME NEW i \in 1 .. Len(new), new[i].kind = "apply"
      PROVE  /\ i = Len(new) /\ c.nextStatus = "applied"
             /\ \E d \in 1 .. i - 1 :
                   /\ new[d].kind = "decision" /\ new[d].next = "ready"
                   /\ \A k \in d .. i - 1 : new[k].kind = "decision"
  <2>1. i # Len(old) + 1 => i \in 1 .. Len(old) /\ old[i].kind = "apply"
    BY <1>1, <1>3, <1>7
  <2>2. i = Len(old) + 1 /\ c.kind = "apply"
    BY <2>1, <1>2, <1>3, <1>5, <1>7 DEF DecidedBeforeApply, ReadyByDecision, AppliedByDecision
  <2>3. /\ c.nextStatus = "applied" /\ old # << >>
        /\ old[Len(old)].kind = "decision" /\ old[Len(old)].next = "ready"
    BY <2>2, <1>5 DEF DecidedBeforeApply, ReadyByDecision, AppliedByDecision
  <2>4. Len(old) # 0
    BY <2>3, <1>1, EmptySeq
  <2>5. Len(old) \in 1 .. i - 1 /\ \A k \in Len(old) .. i - 1 : k = Len(old)
    BY <2>2, <2>4, <1>1
  <2>6. new[Len(old)] = old[Len(old)]
    <3>1. Len(old) \in 1 .. Len(old)
      BY <2>4, <1>1
    <3>2. QED BY <3>1, <1>3
  <2>7. QED BY <2>2, <2>3, <2>5, <2>6, <1>3
<1>8. next.status = "ready" => /\ next.log # << >>
                               /\ next.log[Len(next.log)].kind = "decision"
                               /\ next.log[Len(next.log)].next = "ready"
  BY <1>4, <1>6, Zenon
<1>9. ASSUME NEW i \in 1 .. Len(next.log), next.log[i].kind = "apply"
      PROVE  /\ i = Len(next.log) /\ next.status = "applied"
             /\ \E d \in 1 .. i - 1 :
                   /\ next.log[d].kind = "decision" /\ next.log[d].next = "ready"
                   /\ \A k \in d .. i - 1 : next.log[k].kind = "decision"
  BY <1>4, <1>7, <1>9, ZenonT(40)
<1>10. ReadyByDecision(next)
  BY <1>8, Zenon DEF ReadyByDecision
<1>11. AppliedByDecision(next)
  BY <1>9, Zenon DEF AppliedByDecision
<1>12. QED BY <1>10, <1>11 DEF DecidedBeforeApply

LEMMA DecidedHolds == OpSpec => []ReviewDecidedBeforeApply
<1>1. OpInit => ReviewDecidedBeforeApply
  <2> SUFFICES ASSUME OpInit, NEW p \in Runs PROVE DecidedBeforeApply(review[p])
    BY DEF ReviewDecidedBeforeApply
  <2>1. review[p].status # "ready" /\ review[p].log = << >> /\ Len(<< >>) = 0
    BY DEF OpInit, NoReview
  <2>2. 1 .. Len(review[p].log) = {}
    BY <2>1
  <2>3. QED BY <2>1, <2>2, Zenon DEF DecidedBeforeApply, ReadyByDecision, AppliedByDecision
<1>2. ReviewDecidedBeforeApply /\ AuditInvariant /\ [OpNext]_opVars
         => ReviewDecidedBeforeApply'
  <2> SUFFICES ASSUME ReviewDecidedBeforeApply, AuditInvariant, [OpNext]_opVars
               PROVE  ReviewDecidedBeforeApply'
    OBVIOUS
  <2> review \in [Runs -> ReviewRecord]
    BY DEF AuditInvariant, OpTypeOK
  <2>1. ASSUME NEW r \in Runs, NEW b \in Bundles, PersistOperationBundle(r, b, Commits)
        PROVE  ReviewDecidedBeforeApply'
    <3>1. \A p \in Runs : /\ review'[p].log = review[p].log
                          /\ review'[p].status # review[p].status =>
                                p = r /\ review'[p].status = "review"
      BY <2>1 DEF PersistOperationBundle, ReviewRecord
    <3>2. review[r].log = << >> /\ Len(<< >>) = 0
      BY <2>1, AbsentHasNoReview DEF PersistOperationBundle, NoReview
    <3>3. ASSUME NEW p \in Runs PROVE DecidedBeforeApply(review'[p])
      <4>1. CASE review'[p].status = review[p].status
        BY <4>1, <3>1
        DEF ReviewDecidedBeforeApply, DecidedBeforeApply, ReadyByDecision, AppliedByDecision
      <4>2. CASE p = r /\ review'[p].status = "review"
        <5>1. review'[p].log = << >> /\ 1 .. Len(review'[p].log) = {}
          BY <4>2, <3>1, <3>2
        <5>2. QED BY <4>2, <5>1, Zenon DEF DecidedBeforeApply, ReadyByDecision, AppliedByDecision
      <4>3. QED BY <3>1, <4>1, <4>2
    <3>4. QED BY <3>3 DEF ReviewDecidedBeforeApply
  <2>2. ASSUME NEW p \in Runs, NEW c \in ReviewCommand, AppendReviewEvent(p, c)
        PROVE  ReviewDecidedBeforeApply'
    <3> DEFINE next == [ revision |-> review[p].revision + 1, status |-> c.nextStatus,
                         log |-> Append(review[p].log, EventOf(c, review[p])) ]
    <3>1. /\ review' = [review EXCEPT ![p] = next]
          /\ review[p].status # "none" /\ c.expectedStatus = review[p].status
          /\ ValidReviewTransition(c) /\ ReviewHeadGuard(review[p].status, c.nextStatus)
      BY <2>2 DEF AppendReviewEvent
    <3>2. DecidedBeforeApply(next)
      BY <3>1, AppendKeepsDecided DEF ReviewDecidedBeforeApply
    <3> HIDE DEF next
    <3>3. QED BY <3>1, <3>2 DEF ReviewDecidedBeforeApply
  <2>3. CASE UNCHANGED opVars
    BY <2>3 DEF opVars, ReviewDecidedBeforeApply
  <2>4. QED BY <2>1, <2>2, <2>3 DEF OpNext, Persist, Review
<1>3. QED BY <1>1, <1>2, AuditInvariantHolds, PTL DEF OpSpec

\* A proposal is applied once, by the last event of its log, and only when the
\* decisions right before made it ready (assert_review_transition and the trigger
\* review_head_guard, whatever commands are sent).
THEOREM AppliedAfterDecision == OpSpec => []AppliedFollowsDecision
<1>1. ReviewDecidedBeforeApply => AppliedFollowsDecision
  BY DEF ReviewDecidedBeforeApply, DecidedBeforeApply, ReadyByDecision, AppliedByDecision,
     AppliedFollowsDecision
<1>2. QED BY <1>1, DecidedHolds, PTL

-----------------------------------------------------------------------------
(* The tables implement the audit *)

LEMMA PersistRecords ==
    ASSUME AuditInvariant, AuditInvariant', NEW r \in Runs, NEW b \in Bundles,
           PersistOperationBundle(r, b, Commits)
    PROVE  Audit!Next
<1> DEFINE outcome == [p \in Runs |-> run[p].state]
           history == [p \in Runs |-> run[p].lifecycle]
           h == b.lifecycle
<1>1. /\ run[r].state = "absent" /\ ValidBundle(b)
      /\ run' \in [Runs -> RunRecord] /\ run \in [Runs -> RunRecord]
      /\ run'[r].state = b.state /\ run'[r].lifecycle = h
      /\ \A p \in Runs \ {r} : run'[p] = run[p]
  BY DEF PersistOperationBundle, AuditInvariant, OpTypeOK
<1>2. /\ h # << >> /\ h[1].from = "draft" /\ h[Len(h)].to = b.state
      /\ \A i \in 1 .. Len(h) - 1 : h[i].to = h[i + 1].from
  <2>1. EndsLifecycle(run'[r])
    <3>1. Present(r)'
      BY <1>1 DEF ValidBundle, Present
    <3>2. QED BY <3>1 DEF AuditInvariant, RunStateEndsLifecycle
  <2>2. QED BY <2>1, <1>1 DEF EndsLifecycle
<1>3. b.state \in Audit!FirstOutcomes
  BY <1>1 DEF ValidBundle, Audit!FirstOutcomes
<1>4. outcome' = [outcome EXCEPT ![r] = b.state]
  BY <1>1
<1>5. history' = [history EXCEPT ![r] = h] /\ history'[r] = h
  BY <1>1
<1>6. Audit!Record(r, history'[r])
  BY <1>1, <1>2, <1>3, <1>4, <1>5 DEF Audit!Record
<1>7. QED BY <1>6 DEF Audit!Next, Audit!Record

LEMMA AppendMovesOrStutters ==
    ASSUME AuditInvariant, AuditInvariant', NEW p \in Runs, NEW c \in ReviewCommand,
           AppendReviewEvent(p, c)
    PROVE  Audit!Next \/ UNCHANGED Audit!auditVars
<1> DEFINE outcome == [q \in Runs |-> run[q].state]
           history == [q \in Runs |-> run[q].lifecycle]
           current == run[p].state
           desired == OperationStateFor(c.nextStatus)
<1>1. run \in [Runs -> RunRecord]
  BY DEF AuditInvariant, OpTypeOK
<1>2. CASE UNCHANGED run
  BY <1>2 DEF Audit!auditVars
<1>3. CASE /\ OperationRunGuard(current, desired)
           /\ run' = [run EXCEPT ![p].state = desired,
                         ![p].lifecycle = Append(@, [from |-> current, to |-> desired])]
  <2>1. /\ run'[p].state = desired
        /\ run'[p].lifecycle = Append(run[p].lifecycle, [from |-> current, to |-> desired])
        /\ \A q \in Runs \ {p} : run'[q] = run[q]
    BY <1>1, <1>3 DEF RunRecord
  <2>2. /\ <<outcome[p], desired>> \in Audit!Settle
        /\ desired \in {"accepted", "rejected", "conflicted", "review"}
    BY <1>3 DEF OperationRunGuard, Audit!Settle
  <2> HIDE DEF desired
  <2>3. outcome' = [outcome EXCEPT ![p] = desired]
    BY <2>1
  <2>4. history' = [history EXCEPT ![p] = Append(@, [from |-> outcome[p], to |-> desired])]
    BY <2>1
  <2>5. Audit!Move(p, desired)
    BY <2>2, <2>3, <2>4 DEF Audit!Move
  <2>6. QED BY <2>2, <2>5 DEF Audit!Next
<1>4. QED BY <1>2, <1>3 DEF AppendReviewEvent, UpdateOperationStateForReview

\* What readers of the audit rely on: a run is recorded once with a gapless
\* history that starts in draft and ends where the run stands, its history only
\* grows, and a settled run never moves again.
THEOREM ImplementsAudit == OpSpec => AuditSpec
<1>1. OpInit => Audit!Init
  BY DEF OpInit, AbsentRun, Audit!Init
<1>2. AuditInvariant /\ AuditInvariant' /\ [OpNext]_opVars => [Audit!Next]_(Audit!auditVars)
  <2>1. ASSUME AuditInvariant, AuditInvariant', Persist PROVE Audit!Next
    BY <2>1, PersistRecords DEF Persist
  <2>2. ASSUME AuditInvariant, AuditInvariant', Review
        PROVE  Audit!Next \/ UNCHANGED Audit!auditVars
    BY <2>2, AppendMovesOrStutters DEF Review
  <2>3. ASSUME UNCHANGED opVars PROVE UNCHANGED Audit!auditVars
    BY <2>3 DEF opVars, Audit!auditVars
  <2>4. QED BY <2>1, <2>2, <2>3 DEF OpNext
<1>3. QED BY <1>1, <1>2, AuditInvariantHolds, PTL DEF OpSpec, AuditSpec, Audit!Spec
=============================================================================
