--------------------------- MODULE OperationAudit ---------------------------
(***************************************************************************)
(* What the audit of AI operations promises to its readers, without the    *)
(* tables that keep it: every run that was recorded has one current state  *)
(* and a history of the states it went through, without a gap from draft   *)
(* on; the history only grows, and it ends in the current state.  A run is *)
(* recorded once, when it ends or reaches review; a run under review is    *)
(* settled by the reviewer, and a settled run never moves again.           *)
(***************************************************************************)
EXTENDS Naturals, Sequences

CONSTANT Runs

VARIABLES outcome,   \* the current state of each run, "absent" before it is recorded
          history    \* the transitions each run went through, [from, to]

auditVars == <<outcome, history>>

\* Where a run may stand when it is first recorded.
FirstOutcomes == {"review", "failed", "cancelled"}

\* How a recorded run may still move.
Settle == { <<"review", "accepted">>, <<"review", "rejected">>,
            <<"review", "conflicted">>, <<"conflicted", "review">>,
            <<"conflicted", "rejected">> }

Init ==
    /\ outcome = [r \in Runs |-> "absent"]
    /\ history = [r \in Runs |-> << >>]

Record(r, h) ==
    /\ outcome[r] = "absent"
    /\ h # << >>
    /\ h[1].from = "draft"
    /\ \A i \in 1 .. Len(h) - 1 : h[i].to = h[i + 1].from
    /\ h[Len(h)].to \in FirstOutcomes
    /\ outcome' = [outcome EXCEPT ![r] = h[Len(h)].to]
    /\ history' = [history EXCEPT ![r] = h]

Move(r, to) ==
    /\ <<outcome[r], to>> \in Settle
    /\ outcome' = [outcome EXCEPT ![r] = to]
    /\ history' = [history EXCEPT ![r] = Append(@, [from |-> outcome[r], to |-> to])]

Next ==
    \E r \in Runs :
        \/ Record(r, history'[r])
        \/ \E to \in {"accepted", "rejected", "conflicted", "review"} : Move(r, to)

Spec == Init /\ [][Next]_auditVars

=============================================================================
