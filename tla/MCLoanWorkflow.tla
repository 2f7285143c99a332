---------------------------- MODULE MCLoanWorkflow ----------------------------
(* Small instances of LoanWorkflow: one reviewer at each desk, and a loan at    *)
(* the branch threshold or one above it.                                        *)
EXTENDS LoanWorkflow, TLC

CONSTANTS small, large, officer, district, ho, income, r1, r2

MCRoleOf == (officer :> "loan_officer") @@ (district :> "district_manager")
            @@ (ho :> "head_office_manager")
MCAmount == [l \in Loans |-> IF l = large THEN 21 ELSE 20]

Symmetry == Permutations(Requests)
=============================================================================
