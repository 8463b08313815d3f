-------------------------- MODULE MCOperationStore --------------------------
(* Bundles and bounds for model-checking OperationStore. *)
EXTENDS OperationStore

\* The transitions along a path of states.
Path(states) ==
    [i \in 1 .. Len(states) - 1 |-> [from |-> states[i], to |-> states[i + 1]]]

ToReview == Path(<< "draft", "compiling", "preflight", "queued", "streaming",
                    "validating", "review" >>)

ok == [ sequence |-> 1, outcome |-> "succeeded", responseStarted |-> TRUE,
        failureCode |-> FALSE, retriable |-> "null", retryDelay |-> FALSE,
        bounded |-> TRUE ]

fail == [ sequence |-> 1, outcome |-> "failed", responseStarted |-> FALSE,
          failureCode |-> TRUE, retriable |-> "yes", retryDelay |-> FALSE,
          bounded |-> TRUE ]

retried == [fail EXCEPT !.retryDelay = TRUE]

\* What a run that reached review persists.
Proposal ==
    [ state |-> "review", base |-> "c1", packet |-> "c1",
      artifact |-> "patch_proposal", response |-> TRUE, failure |-> FALSE,
      bounded |-> TRUE,
      lifecycle |-> ToReview, attempts |-> <<ok>> ]

\* What a run that failed while streaming persists.
Failure ==
    [ state |-> "failed", base |-> "c1", packet |-> "c1",
      artifact |-> "none", response |-> FALSE, failure |-> TRUE,
      bounded |-> TRUE,
      lifecycle |-> Path(<<"draft", "compiling", "preflight", "queued",
                           "streaming", "failed">>),
      attempts |-> <<retried, [fail EXCEPT !.sequence = 2]>> ]

\* Bundles the runner builds.
GoodBundles ==
    { Proposal,
      [Proposal EXCEPT !.artifact = "findings"],
      [Proposal EXCEPT !.attempts = <<retried, [ok EXCEPT !.sequence = 2]>>],
      Failure,
      [Failure EXCEPT !.state = "cancelled", !.packet = NoCommit,
                      !.lifecycle = Path(<<"draft", "compiling", "cancelled">>),
                      !.attempts = << >>] }

\* Bundles with one field wrong: each is refused by one conjunct of ValidBundle.
BadBundles ==
    { [Proposal EXCEPT !.lifecycle = Path(<<"draft", "compiling", "preflight">>)],
      [Proposal EXCEPT !.lifecycle = Tail(ToReview)],
      [Proposal EXCEPT !.lifecycle = SubSeq(ToReview, 1, 2) \o SubSeq(ToReview, 4, 6)],
      [Proposal EXCEPT !.lifecycle = << >>],
      [Proposal EXCEPT !.artifact = "none"],
      [Proposal EXCEPT !.packet = NoCommit],
      [Proposal EXCEPT !.packet = "c2"],
      [Proposal EXCEPT !.failure = TRUE],
      [Proposal EXCEPT !.bounded = FALSE],
      [Failure EXCEPT !.attempts = <<[fail EXCEPT !.bounded = FALSE]>>],
      [Proposal EXCEPT !.attempts = <<ok, [ok EXCEPT !.sequence = 2]>>],
      [Proposal EXCEPT !.attempts =
          <<[retried EXCEPT !.responseStarted = TRUE], [ok EXCEPT !.sequence = 2]>>],
      [Proposal EXCEPT !.attempts = <<fail, [ok EXCEPT !.sequence = 2]>>],
      [Failure EXCEPT !.artifact = "patch_proposal"],
      [Failure EXCEPT !.failure = FALSE],
      [Proposal EXCEPT !.state = "accepted",
                       !.lifecycle = Append(ToReview, [from |-> "review", to |-> "accepted"])] }

AllBundles == GoodBundles \cup BadBundles
=============================================================================
