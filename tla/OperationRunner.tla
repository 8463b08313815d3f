--------------------------- MODULE OperationRunner ---------------------------
(***************************************************************************)
(* One AI operation from the page's side (operation-runner/src/runner.ts,  *)
(* operation-client.js), composed with the host that runs its requests     *)
(* (ModelGateway) and the store that records it (OperationStore).          *)
(*                                                                         *)
(* The page is single-threaded: what runs between two awaits is one        *)
(* action, and the user's abort may come at every await.  A command sent   *)
(* to the host is carried out later, concurrently with other commands.     *)
(* A cancel command is not awaited by the listener that sends it.          *)
(*                                                                         *)
(* Abstractions.  The n-th attempt uses request id n.  An event of the     *)
(* stream is "start" or "more".  Retry delays pass in one step; a          *)
(* Retry-After beyond the policy's maximum is the choice not to retry.     *)
(* Only one operation runs at a time (aiRunning of main.js).  A project    *)
(* reopened is the same one; another one would refuse the bundle as a      *)
(* closed one does.                                                        *)
(***************************************************************************)
EXTENDS OperationStore, ModelGateway

CONSTANTS
    ThisRun,       \* the run
    MaxAttempts,   \* maxAttempts of the retry policy
    MaxQueue       \* bound: stream events that wait for the page

ASSUME RunnerConstants ==
    /\ ThisRun \in Runs
    /\ MaxAttempts \in 1 .. 3   \* normalizeRetryPolicy
    /\ Requests = 1 .. MaxAttempts
    /\ Commits = 1 .. MaxHead

VARIABLES
    op,       \* the runner: where it awaits, its lifecycle and its attempts
    asked,    \* cancel commands on their way to the host, by request
    told,     \* requests of which the host has sent an event to the page
    sentOut   \* requests the host has sent to the provider

pageVars == <<op, asked, told, sentOut>>

rnVars == <<opVars, mgVars, pageVars>>

-----------------------------------------------------------------------------
(* Values *)

Awaits ==
    { "idle", "compiling", "checking", "authorizing", "authorized", "withdrawing",
      "executing", "waiting", "sleeping", "proposing", "persisting", "done" }

\* answer is what execute_authorized_model_stream came back with; bounded, that
\* of the bundle.
Operation ==
    [ await    : Awaits,
      states   : Seq(OperationStates),
      base     : Commits \cup {NoCommit},
      packet   : BOOLEAN,
      artifact : {"none", "patch_proposal", "findings"},
      attempts : Seq(Attempt),
      aborted  : BOOLEAN,
      queue    : Seq({"start", "more"}),
      started  : BOOLEAN,
      answer   : {"none", "ok", "cancelled", "retriable", "failed"},
      bounded  : BOOLEAN ]

\* The request of the attempt that is being made.
Current == Len(op.attempts) + 1

Moved(o, states) == [o EXCEPT !.states = @ \o states]

\* The page makes an attempt.
Requesting(o) == o.await \in {"authorizing", "authorized", "executing", "waiting"}

\* The catch block of execute.
Ended(o, cancelled) ==
    [Moved(o, IF o.aborted \/ cancelled THEN <<"cancelled">> ELSE <<"failed">>)
        EXCEPT !.await = "persisting"]

\* A fresh call of provider.stream.
Attempting(o) ==
    [o EXCEPT !.await = "authorizing", !.queue = << >>, !.started = FALSE, !.answer = "none"]

\* What the page sends to persist_operation_bundle.
BundleOf(o) ==
    [ state     |-> Last(o.states),
      base      |-> o.base,
      packet    |-> IF o.packet THEN o.base ELSE NoCommit,
      artifact  |-> o.artifact,
      response  |-> o.artifact # "none",
      failure   |-> o.artifact = "none",
      bounded   |-> o.bounded,
      lifecycle |-> [i \in 1 .. Len(o.states) - 1 |->
                        [from |-> o.states[i], to |-> o.states[i + 1]]],
      attempts  |-> o.attempts ]

-----------------------------------------------------------------------------
(* Up to the first request *)

Start ==
    /\ op.await = "idle" /\ session.open
    /\ op' = [Moved(op, <<"compiling">>) EXCEPT !.await = "compiling", !.base = session.head]
    /\ UNCHANGED <<opVars, mgVars, asked, told, sentOut>>

\* The context compiler answers, and the user confirms the packet or does not.
Compiled ==
    LET packed == [op EXCEPT !.packet = TRUE]
        ready == [Moved(packed, <<"preflight">>) EXCEPT !.await = "checking"]
    IN  /\ op.await = "compiling"
        /\ \/ op' = Ended(op, FALSE)
           \/ op.aborted /\ op' = Ended(packed, TRUE)
           \/ ~op.aborted /\ op' \in {ready, Ended(Moved(packed, <<"preflight">>), FALSE)}
        /\ UNCHANGED <<opVars, mgVars, asked, told, sentOut>>

\* The packet's hash was computed.
Checked ==
    LET queued == Moved(op, <<"queued">>) IN
    /\ op.await = "checking"
    /\ \/ op' = Ended(op, FALSE)
       \/ op.aborted /\ op' = Ended(queued, TRUE)
       \/ ~op.aborted /\ op' = Attempting(Moved(queued, <<"streaming">>))
    /\ UNCHANGED <<opVars, mgVars, asked, told, sentOut>>

-----------------------------------------------------------------------------
(* The end of an attempt *)

\* What came of a request that went out is the provider's choice, and neither
\* the host nor the page bounds all of it: the response id, the HTTP status and
\* the Retry-After of an attempt, the message of a failure, the token counts.
FromProvider ==
    IF Current \in sentOut /\ (op.started \/ op.answer \in {"failed", "retriable"})
    THEN BOOLEAN ELSE {TRUE}

\* A failed attempt; retry is the decision of retryDelayFor.
FailedAttempt(retriable, retry, bounded) ==
    [ sequence |-> Current, outcome |-> "failed", responseStarted |-> op.started,
      failureCode |-> TRUE, retriable |-> IF retriable THEN "yes" ELSE "no",
      retryDelay |-> retry, bounded |-> bounded ]

\* Mutant of MayRetry: a response that had started does not matter.
MayRetryAnyway(retriable) == retriable /\ Current < MaxAttempts

MayRetry(retriable) == retriable /\ ~op.started /\ Current < MaxAttempts

\* Mutant of AttemptFails: the attempt is noted only when it is repeated.
AttemptFailsUnnoted(retriable, cancelled) ==
    \E retry \in IF MayRetry(retriable) THEN BOOLEAN ELSE {FALSE} :
        LET failed == FailedAttempt(retriable, retry, TRUE)
            noted == [op EXCEPT !.attempts = Append(@, failed)]
        IN  op' = IF retry THEN [noted EXCEPT !.await = "sleeping"] ELSE Ended(op, cancelled)

\* The message of a cancelled run is the page's own, that of a failed one may
\* be the provider's.
AttemptFails(retriable, cancelled) ==
    \E retry \in IF MayRetry(retriable) THEN BOOLEAN ELSE {FALSE},
       bounded \in FromProvider, message \in FromProvider :
        LET failed == FailedAttempt(retriable, retry, bounded)
            noted == [op EXCEPT !.attempts = Append(@, failed)]
        IN  op' = IF retry THEN [noted EXCEPT !.await = "sleeping"]
                  ELSE [Ended(noted, cancelled) EXCEPT
                           !.bounded = message \/ op.aborted \/ cancelled]

\* abortableSleep.
Awake ==
    /\ op.await = "sleeping"
    /\ op' = IF op.aborted THEN Ended(op, TRUE) ELSE Attempting(op)
    /\ UNCHANGED <<opVars, mgVars, asked, told, sentOut>>

-----------------------------------------------------------------------------
(* One request: authorize, execute, listen *)

\* binding.validate: the packet is of the commit that is the head.
Bound == session.head = op.base

\* authorize_model_request in the host; the project may be closed, the head
\* another, the block or the packet not what the host finds.
HostAuthorizes ==
    /\ op.await = "authorizing" /\ Free
    /\ \/ /\ session.open /\ Bound
          /\ Authorize(Current)
          /\ IF issued' > issued THEN op' = [op EXCEPT !.await = "authorized"]
             ELSE AttemptFails(FALSE, FALSE)
       \/ AttemptFails(FALSE, FALSE) /\ UNCHANGED mgVars
    /\ UNCHANGED <<opVars, asked, told, sentOut>>

\* The page has its authorization and looks at the signal once more.
Authorized ==
    /\ op.await = "authorized"
    /\ \/ /\ op.aborted
          /\ op' = [op EXCEPT !.await = "withdrawing"]
          /\ asked' = asked \cup {Current}
       \/ /\ ~op.aborted
          /\ op' = [op EXCEPT !.await = "executing"]
          /\ UNCHANGED asked
    /\ UNCHANGED <<opVars, mgVars, told, sentOut>>

\* The cancel command was answered.  The page sends another one, which finds
\* nothing left to cancel, and then gives up.
Withdrawn ==
    /\ op.await = "withdrawing"
    /\ Current \notin asked /\ Current \notin cancel
    /\ AttemptFails(FALSE, TRUE)
    /\ UNCHANGED <<opVars, mgVars, asked, told, sentOut>>

Refused == [op EXCEPT !.await = "waiting", !.answer = "failed"]

\* execute_authorized_model_stream takes the authorization, if it is there.
HostTakes ==
    LET mine == {p \in pending : p.request = Current} IN
    /\ op.await = "executing" /\ Free
    /\ \/ /\ session.open
          /\ \E p \in mine, t \in Threads :
                /\ Take(t, p)
                /\ op' = IF Usable(p) THEN [op EXCEPT !.await = "waiting"] ELSE Refused
       \/ /\ ~session.open \/ mine = {}
          /\ op' = Refused
          /\ UNCHANGED mgVars
    /\ UNCHANGED <<opVars, asked, told, sentOut>>

HostRegisters ==
    /\ \E t \in Threads :
          Register(t) /\ sentOut' = sentOut \cup {RequestOf(t)}
    /\ UNCHANGED <<opVars, op, asked, told>>

\* The answer of the command reaches a page that still listens.
Answered(t, answer) ==
    op' = IF op.await = "waiting" /\ RequestOf(t) = Current
          THEN [op EXCEPT !.answer = answer] ELSE op

HostRefuses ==
    /\ \E t \in Threads : PrepareFails(t) /\ Answered(t, "failed")
    /\ UNCHANGED <<opVars, asked, told, sentOut>>

\* A server error is retriable, so is a time-out; a cancel is neither.
AnswersTo(outcome) ==
    CASE outcome = "ok"        -> {"ok"}
      [] outcome = "cancelled" -> {"cancelled"}
      [] outcome = "timed_out" -> {"retriable"}
      [] outcome = "failed"    -> {"failed", "retriable"}

HostReturns ==
    /\ \E t \in Threads :
          /\ Return(t)
          /\ \E answer \in AnswersTo(call[t].outcome) : Answered(t, answer)
    /\ UNCHANGED <<opVars, asked, told, sentOut>>

\* The host sends an event of the stream; a result without a start event is
\* an error of the host's.
Emit(t, r) ==
    /\ told' = told \cup {r}
    /\ op' = IF op.await = "waiting" /\ r = Current /\ Len(op.queue) < MaxQueue
             THEN [op EXCEPT !.queue = Append(@, IF r \in told THEN "more" ELSE "start")]
             ELSE op

HostEmits ==
    /\ \E t \in Threads : call[t].stage = "streaming" /\ Emit(t, RequestOf(t))
    /\ UNCHANGED <<opVars, mgVars, asked, sentOut>>

HostEnds ==
    /\ \E t \in Threads : EndTransport(t) \/ TimeOut(t)
    /\ UNCHANGED <<opVars, pageVars>>

HostFinishes ==
    /\ \E t \in Threads :
          /\ Finish(t)
          /\ call'[t].outcome = "ok" => RequestOf(t) \in told
    /\ UNCHANGED <<opVars, pageVars>>

\* Mutant of Abandon: the page just stops listening.
AbandonSilently == UNCHANGED asked

\* The finally block of stream: a page that stops listening cancels.
Abandon == asked' = IF op.answer = "none" THEN asked \cup {Current} ELSE asked

\* The page takes the next event; the signal comes first, and an event may be
\* one the runner does not accept.
Consume ==
    LET rest == [op EXCEPT !.queue = Tail(@), !.started = @ \/ Head(op.queue) = "start"] IN
    /\ op.await = "waiting" /\ op.queue # << >>
    /\ \/ op.aborted /\ AttemptFails(FALSE, TRUE) /\ Abandon
       \/ ~op.aborted /\ AttemptFails(FALSE, FALSE) /\ Abandon
       \/ ~op.aborted /\ op' = rest /\ UNCHANGED asked
    /\ UNCHANGED <<opVars, mgVars, told, sentOut>>

\* The loop ends when the command has and no event is left.
Drained == op.answer # "none" /\ op.queue = << >>

\* The bundle of a run that reached review carries the provider's token counts;
\* that of a failed one does not.
InReview(o, artifact, bounded) ==
    [Moved(o, <<"review">>) EXCEPT
        !.await = "persisting", !.artifact = artifact, !.bounded = bounded]

Collected ==
    \E bounded, usage \in FromProvider :
        LET noted == [op EXCEPT !.attempts = Append(@,
                         [ sequence |-> Current, outcome |-> "succeeded", responseStarted |-> TRUE,
                           failureCode |-> FALSE, retriable |-> "null", retryDelay |-> FALSE,
                           bounded |-> bounded ])]
            validating == Moved(noted, <<"validating">>)
        IN  IF op.aborted THEN op' = Ended(noted, TRUE)
            ELSE op' \in { Ended(validating, FALSE),
                           InReview(validating, "findings", usage),
                           [validating EXCEPT !.await = "proposing"] }

StreamEnds ==
    /\ op.await = "waiting" /\ Drained
    /\ IF op.answer = "ok" /\ op.started THEN Collected
       ELSE AttemptFails(op.answer = "retriable", op.answer = "cancelled")
    /\ UNCHANGED <<opVars, mgVars, asked, told, sentOut>>

-----------------------------------------------------------------------------
(* The proposal and its record *)

\* The proposal was hashed, and is valid or not.
Proposed ==
    /\ op.await = "proposing"
    /\ \/ op' = Ended(op, FALSE)
       \/ \E usage \in BOOLEAN : op' = InReview(op, "patch_proposal", usage)
    /\ UNCHANGED <<opVars, mgVars, asked, told, sentOut>>

\* persist_operation_bundle; that a failed run's bundle is refused is not told
\* to the user.
HostPersists ==
    /\ op.await = "persisting" /\ Free
    /\ \/ /\ session.open
          /\ PersistOperationBundle(ThisRun, BundleOf(op), Commits)
       \/ /\ ~session.open \/ ~ValidBundle(BundleOf(op))
          /\ UNCHANGED opVars
    /\ op' = [op EXCEPT !.await = "done"]
    /\ UNCHANGED <<mgVars, asked, told, sentOut>>

-----------------------------------------------------------------------------
(* The user, and the other commands of the host *)

\* While a request is made, the signal's listener cancels it in the host.
Abort ==
    /\ op.await \notin {"idle", "withdrawing", "persisting", "done"} /\ ~op.aborted
    /\ op' = [op EXCEPT !.aborted = TRUE]
    /\ asked' = IF Requesting(op) THEN asked \cup {Current} ELSE asked
    /\ UNCHANGED <<opVars, mgVars, told, sentOut>>

HostCancels ==
    /\ \E r \in Requests :
          \/ r \in asked /\ CancelActive(r) /\ asked' = asked \ {r}
          \/ CancelPending(r) /\ UNCHANGED asked
    /\ UNCHANGED <<opVars, op, told, sentOut>>

HostElse ==
    /\ \/ Commit \/ Close
       \/ Open /\ session'.head = session.head
       \/ \E p \in pending : Expire(p)
    /\ UNCHANGED <<opVars, pageVars>>

RnInit ==
    /\ OpInit /\ MgInit
    /\ op = [ await |-> "idle", states |-> <<"draft">>, base |-> NoCommit,
              packet |-> FALSE, artifact |-> "none", attempts |-> << >>,
              aborted |-> FALSE, queue |-> << >>, started |-> FALSE, answer |-> "none",
              bounded |-> TRUE ]
    /\ asked = {} /\ told = {} /\ sentOut = {}

\* What the page does by itself, and what the host does for it.
PageGoesOn == Checked \/ Authorized \/ Withdrawn \/ Consume \/ StreamEnds \/ Awake \/ Proposed

HostGoesOn ==
    \/ HostAuthorizes \/ HostTakes \/ HostRegisters \/ HostRefuses
    \/ HostReturns \/ HostPersists

RnNext ==
    \/ Start \/ Compiled \/ PageGoesOn \/ HostGoesOn
    \/ HostEmits \/ HostEnds \/ HostFinishes \/ Abort \/ HostCancels \/ HostElse

\* The page's promises are settled and the host's commands run; a provider may
\* be silent, but a watchdog fires, a stopped transport returns, and cancel
\* commands are carried out.  Nothing is assumed of the user.
RnFairness ==
    /\ WF_rnVars(PageGoesOn)
    /\ WF_rnVars(HostGoesOn)
    /\ WF_rnVars(HostCancels)
    /\ WF_rnVars(HostFinishes)
    /\ WF_rnVars((\E t \in Threads : TimeOut(t)) /\ UNCHANGED <<opVars, pageVars>>)
    /\ WF_rnVars((\E t \in Threads : EndStopped(t)) /\ UNCHANGED <<opVars, pageVars>>)

RnSpec == RnInit /\ [][RnNext]_rnVars /\ RnFairness

-----------------------------------------------------------------------------
(* Properties *)

RnTypeOK ==
    /\ OpTypeOK /\ MgTypeOK
    /\ op \in Operation
    /\ Requesting(op) => Current \in Requests
    /\ asked \subseteq Requests /\ told \subseteq Requests /\ sentOut \subseteq Requests

CancelledWhileValidating ==
    LET n == Len(op.states) IN
    n > 1 /\ op.states[n - 1] = "validating" /\ op.states[n] = "cancelled"

OutOfBounds(o) ==
    \/ ~o.bounded
    \/ \E i \in 1 .. Len(o.attempts) : ~o.attempts[i].bounded

\* However an operation ends, what the runner sends to be recorded is a bundle
\* the store accepts (persistence.ts against validate_bundle), so that no audit
\* is lost: its lifecycle, the order and outcomes of its attempts, its packet,
\* artifact and failure fit together.  Two exceptions, both of which lose the
\* audit: a run cancelled while its proposal is hashed, which the kernel's
\* transition table has and the store's has not; and a provider whose answers
\* are beyond a bound that the store has and the host and the page have not.
BundleIsAccepted ==
    op.await = "persisting" =>
        ValidBundle(BundleOf(op)) \/ CancelledWhileValidating \/ OutOfBounds(op)

\* When an operation has ended and its cancel commands were carried out, nothing
\* of it is left in the host: no authorization, no stream that goes on.
NothingLeftBehind ==
    /\ op.await \in {"persisting", "done"}
    /\ asked = {} /\ cancel = {}
    =>  /\ pending = {}
        /\ \A t \in Threads : Busy(t) => call[t].stage # "taken"
        /\ \A t \in Threads : call[t].stage = "streaming" => call[t].control # "active"

\* The audit of a run has an attempt for every request that went out, and a
\* response only where the provider gave one.  It is about runs that are
\* recorded: one the store refuses has no audit at all.
AuditTellsRequests ==
    Present(ThisRun) =>
        LET attempts == run[ThisRun].attempts IN
        /\ sentOut \subseteq 1 .. Len(attempts)
        /\ \A i \in 1 .. Len(attempts) : attempts[i].responseStarted => i \in told

\* Once its packet is confirmed, an operation ends, whatever the provider, the
\* user and the other commands do.
OperationEnds == op.await = "checking" ~> op.await = "done"

=============================================================================
