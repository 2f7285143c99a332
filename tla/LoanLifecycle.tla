---------------------------- MODULE LoanLifecycle ----------------------------
(***************************************************************************)
(* What the loan workflow promises about one loan, whoever works on it and *)
(* however many requests it takes: the stages a loan goes through, and who *)
(* may approve a high-value one.  LoanWorkflow is the implementation; its  *)
(* in-flight requests, snapshots, trails and reasons are hidden here.      *)
(***************************************************************************)
CONSTANTS
    Loans,      \* the loans
    HighValue   \* the loans above the branch approval threshold

VARIABLE stage  \* stage[l]: where loan l stands

Desks == {"branch", "district", "head_office"}
Stages == {"draft", "approved", "rejected", "disbursed", "closed"} \cup Desks

\* The moves the bank promises.  A loan is submitted to its branch, climbs one
\* desk at a time, can be sent back to the branch or turned down from any desk,
\* and is approved at a desk with the authority to do so.
Move(l, from, to) ==
    \/ from = "draft" /\ to = "branch"
    \/ from = "branch" /\ to = "district"
    \/ from = "district" /\ to = "head_office"
    \/ from \in Desks /\ to \in {"branch", "rejected"}
    \/ from \in Desks /\ to = "approved" /\ (l \in HighValue => from = "head_office")
    \/ from = "approved" /\ to = "disbursed"
    \/ from \in {"disbursed", "rejected"} /\ to = "closed"

Init == stage = [l \in Loans |-> "draft"]

Advance(l) == \E to \in Stages :
    /\ Move(l, stage[l], to)
    /\ stage' = [stage EXCEPT ![l] = to]

Next == \E l \in Loans : Advance(l)

Spec == Init /\ [][Next]_stage
=============================================================================
