----------------------------- MODULE LoanWorkflow -----------------------------
(***************************************************************************)
(* Loan applications and their staff workflow: LoansService                *)
(* .submitLoanApplication and LoanWorkflowService.processAction.           *)
(*                                                                         *)
(* The backend keeps no lock and no transaction.  A staff request reads    *)
(* the loan document, decides on what it read, and issues one write per    *)
(* await: the loan, the history row, the activity row, the notification,   *)
(* the audit row.  Between two awaits any other request may run, and any   *)
(* write may throw, which ends the request where it stands.  loan.save()   *)
(* sends only the fields the request changed (schema option versionKey:    *)
(* false, so no version is compared).                                      *)
(***************************************************************************)
EXTENDS Integers, Sequences, FiniteSets

CONSTANTS
    Loans,         \* loan applications
    Staff,         \* staff users who send workflow actions
    RoleOf,        \* RoleOf[s]: the role in staff user s's token
    Amount,        \* Amount[l]: the amount applied for
    BranchMax,     \* BRANCH_MAX_APPROVAL_AMOUNT
    Reasons,       \* deficiency reasons a reviewer can give
    Requests,      \* staff requests the server can have in flight at once
    MaxDecisions,  \* bound: no action is started on a loan with this many decisions
    MaxFailures    \* bound: writes that throw

Roles == {"member", "shareholder_member", "school_admin", "support_agent",
          "loan_officer", "branch_manager", "district_officer", "district_manager",
          "head_office_officer", "head_office_manager", "admin"}

ASSUME LoanConstants ==
    /\ RoleOf \in [Staff -> Roles]
    /\ Amount \in [Loans -> Nat]
    /\ BranchMax \in Nat
    /\ MaxDecisions \in Nat
    /\ MaxFailures \in Nat

VARIABLES
    loan,        \* the loans collection: loan[l] is the document of l
    submission,  \* how far the member's request that creates l has got
    reqs,        \* staff requests in flight
    decisions,   \* ghost: what the saves on l decided, in the order they landed
    history,     \* loan_workflow_history: the decisions with a row, in row order (0: SUBMIT)
    activity,    \* staff_activity_logs: the decisions with a row
    notified,    \* member notifications: the decisions told to the member (0: SUBMIT)
    audited,     \* audit_logs: the decisions with a row (0: SUBMIT)
    failures,    \* writes that have thrown
    stale        \* ghost: loans saved by a request whose snapshot was out of date

trail == <<history, activity, notified, audited>>
vars == <<loan, submission, reqs, decisions, trail, failures, stale>>

-----------------------------------------------------------------------------
Statuses == {"draft", "submitted", "branch_review", "district_review",
             "head_office_review", "approved", "rejected", "disbursed", "closed"}
Levels == {"member", "branch", "district", "head_office"}
Actions == {"review", "approve", "reject", "forward", "return_for_correction",
            "disburse", "close"}
UnderReview == {"submitted", "branch_review", "district_review", "head_office_review"}

Doc == [status: Statuses, level: Levels, assigned: BOOLEAN, deficiencies: SUBSET Reasons]

\* A loan nobody has applied for yet: there is no document, and the history row
\* of the submission calls this state DRAFT.
NoDoc == [status |-> "draft", level |-> "member", assigned |-> FALSE, deficiencies |-> {}]

\* ensureUserCanActAtLevel's role map.
RolesAt == [lv \in Levels |->
    CASE lv = "member"      -> {}
      [] lv = "branch"      -> {"loan_officer", "branch_manager"}
      [] lv = "district"    -> {"district_officer", "district_manager"}
      [] lv = "head_office" -> {"head_office_officer", "head_office_manager", "admin"}]

\* Mutation of CanApprove: the district threshold is forgotten.
CanApproveAnywhereButBranch(l, d) ==
    /\ d.status \in UnderReview
    /\ d.level = "branch" => Amount[l] <= BranchMax

CanApprove(l, d) ==
    /\ d.status \in UnderReview
    /\ d.level = "branch" => Amount[l] <= BranchMax
    /\ d.level = "district" => Amount[l] <= BranchMax

CanForward(d) ==
    /\ d.status \in {"submitted", "branch_review", "district_review"}
    /\ d.level \in {"branch", "district"}

\* resolveTransition does not throw for action a on document d of loan l.
Resolves(l, d, a) ==
    /\ d.status = "rejected" => a = "close"
    /\ d.status = "approved" => a # "reject"
    /\ \/ a \in {"review", "reject", "return_for_correction"} /\ d.status \in UnderReview
       \/ a = "approve" /\ CanApprove(l, d)
       \/ a = "forward" /\ CanForward(d)
       \/ a = "disburse" /\ d.status = "approved"
       \/ a = "close" /\ d.status \in {"disbursed", "rejected"}

\* processAction throws nothing at staff user s for action a on document d of loan l
\* (given the reasons, when a returns the loan): the role is checked against the
\* document's level first.
Accepts(s, l, d, a) ==
    /\ RoleOf[s] \in RolesAt[d.level]
    /\ Resolves(l, d, a)

\* Mutation of NextStatus: a returned loan gets the enum's unused NEEDS_MORE_INFO.
NextStatusNeedsInfo(d, a) ==
    CASE a = "review"  -> d.status
      [] a = "approve" -> "approved"
      [] a = "reject"  -> "rejected"
      [] a = "forward" -> IF d.level = "branch" THEN "district_review"
                                                ELSE "head_office_review"
      [] a = "return_for_correction" -> "needs_more_info"
      [] a = "disburse" -> "disbursed"
      [] a = "close"    -> "closed"

\* The status and level resolveTransition gives document d under action a.
NextStatus(d, a) ==
    CASE a = "review"  -> d.status
      [] a = "approve" -> "approved"
      [] a = "reject"  -> "rejected"
      [] a = "forward" -> IF d.level = "branch" THEN "district_review"
                                                ELSE "head_office_review"
      [] a = "return_for_correction" -> "submitted"
      [] a = "disburse" -> "disbursed"
      [] a = "close"    -> "closed"

\* Mutation of NextLevel: a forwarded loan skips the district.
NextLevelSkipsDistrict(d, a) ==
    CASE a = "forward" -> "head_office"
      [] a = "return_for_correction" -> "branch"
      [] OTHER -> d.level

NextLevel(d, a) ==
    CASE a = "forward" -> IF d.level = "branch" THEN "district" ELSE "head_office"
      [] a = "return_for_correction" -> "branch"
      [] OTHER -> d.level

\* resolveDeficiencyReasons, given the non-blank reasons of the request.
NextReasons(d, a, given) ==
    CASE a = "return_for_correction"              -> given
      [] a \in {"approve", "disburse", "close"}   -> {}
      [] OTHER                                    -> d.deficiencies

\* The document a request holds in memory after deciding a on the snapshot d.
Decided(d, a, given) ==
    [status       |-> NextStatus(d, a),
     level        |-> NextLevel(d, a),
     assigned     |-> d.assigned /\ a \in {"review", "disburse"},
     deficiencies |-> NextReasons(d, a, given)]

\* loan.save(): a field goes to the database only if the request changed it.
SavedField(seen, next, current) == IF next # seen THEN next ELSE current

\* Mutation of Merge: the level is written back whether or not the request moved it.
MergeLevelAlways(seen, next, current) ==
    [status       |-> SavedField(seen.status, next.status, current.status),
     level        |-> next.level,
     assigned     |-> SavedField(seen.assigned, next.assigned, current.assigned),
     deficiencies |-> SavedField(seen.deficiencies, next.deficiencies, current.deficiencies)]

Merge(seen, next, current) ==
    [status       |-> SavedField(seen.status, next.status, current.status),
     level        |-> SavedField(seen.level, next.level, current.level),
     assigned     |-> SavedField(seen.assigned, next.assigned, current.assigned),
     deficiencies |-> SavedField(seen.deficiencies, next.deficiencies, current.deficiencies)]

-----------------------------------------------------------------------------
\* A request in flight: `phase` names the last await that returned.  Each
\* awaited write takes it to the next phase, the last one answers the client.
Phases == {"loaded", "saved", "recorded", "logged", "notified"}
Request == [phase: Phases, loan: Loans, staff: Staff, action: Actions,
            seen: Doc, next: Doc, number: Nat]
Idle == [phase |-> "idle"]

Decision == [action: Actions, staff: Staff, level: Levels, from: Statuses, to: Statuses]

SubmissionPhases == {"none", "created", "documented", "recorded", "notified", "done", "failed"}

Init ==
    /\ loan = [l \in Loans |-> NoDoc]
    /\ submission = [l \in Loans |-> "none"]
    /\ reqs = [r \in Requests |-> Idle]
    /\ decisions = [l \in Loans |-> << >>]
    /\ history = [l \in Loans |-> << >>]
    /\ activity = [l \in Loans |-> {}]
    /\ notified = [l \in Loans |-> {}]
    /\ audited = [l \in Loans |-> {}]
    /\ failures = 0
    /\ stale = {}

-----------------------------------------------------------------------------
(* submitLoanApplication, one action per awaited write.                     *)

CreateLoan(l, assigned) ==
    /\ submission[l] = "none"
    /\ loan' = [loan EXCEPT ![l] = [status |-> "submitted", level |-> "branch",
                                    assigned |-> assigned, deficiencies |-> {}]]
    /\ submission' = [submission EXCEPT ![l] = "created"]
    /\ UNCHANGED <<reqs, decisions, trail, failures, stale>>

StoreDocuments(l) ==
    /\ submission[l] = "created"
    /\ submission' = [submission EXCEPT ![l] = "documented"]
    /\ UNCHANGED <<loan, reqs, decisions, trail, failures, stale>>

RecordSubmission(l) ==
    /\ submission[l] = "documented"
    /\ history' = [history EXCEPT ![l] = Append(@, 0)]
    /\ submission' = [submission EXCEPT ![l] = "recorded"]
    /\ UNCHANGED <<loan, reqs, decisions, activity, notified, audited, failures, stale>>

NotifySubmission(l) ==
    /\ submission[l] = "recorded"
    /\ notified' = [notified EXCEPT ![l] = @ \cup {0}]
    /\ submission' = [submission EXCEPT ![l] = "notified"]
    /\ UNCHANGED <<loan, reqs, decisions, history, activity, audited, failures, stale>>

AuditSubmission(l) ==
    /\ submission[l] = "notified"
    /\ audited' = [audited EXCEPT ![l] = @ \cup {0}]
    /\ submission' = [submission EXCEPT ![l] = "done"]
    /\ UNCHANGED <<loan, reqs, decisions, history, activity, notified, failures, stale>>

\* A write of the submission throws, or the server stops: the request ends.
FailSubmission(l) ==
    /\ failures < MaxFailures
    /\ submission[l] \in {"created", "documented", "recorded", "notified"}
    /\ submission' = [submission EXCEPT ![l] = "failed"]
    /\ failures' = failures + 1
    /\ UNCHANGED <<loan, reqs, decisions, trail, stale>>

-----------------------------------------------------------------------------
(* processAction: findById and everything decided on the document it        *)
(* returned, then one action per awaited write.                             *)

Load(r, s, l, a, given) ==
    /\ reqs[r] = Idle
    /\ loan[l] # NoDoc
    /\ Len(decisions[l]) < MaxDecisions
    /\ Accepts(s, l, loan[l], a)
    /\ (a = "return_for_correction") <=> (given # {})
    /\ reqs' = [reqs EXCEPT ![r] =
          [phase |-> "loaded", loan |-> l, staff |-> s, action |-> a,
           seen |-> loan[l], next |-> Decided(loan[l], a, given), number |-> 0]]
    /\ UNCHANGED <<loan, submission, decisions, trail, failures, stale>>

Save(r) ==
    LET q == reqs[r]
        l == q.loan
    IN  /\ q.phase = "loaded"
        /\ loan' = [loan EXCEPT ![l] = Merge(q.seen, q.next, loan[l])]
        /\ decisions' = [decisions EXCEPT ![l] =
              Append(@, [action |-> q.action, staff |-> q.staff, level |-> q.seen.level,
                         from |-> q.seen.status, to |-> q.next.status])]
        /\ stale' = IF q.seen = loan[l] THEN stale ELSE stale \cup {l}
        /\ reqs' = [reqs EXCEPT ![r].phase = "saved",
                                ![r].number = Len(decisions[l]) + 1]
        /\ UNCHANGED <<submission, trail, failures>>

\* Mutation of WriteHistory: the row is lost and the request goes on.
WriteHistoryLost(r) ==
    /\ reqs[r].phase = "saved"
    /\ reqs' = [reqs EXCEPT ![r].phase = "recorded"]
    /\ UNCHANGED <<loan, submission, decisions, trail, failures, stale>>

WriteHistory(r) ==
    /\ reqs[r].phase = "saved"
    /\ history' = [history EXCEPT ![reqs[r].loan] = Append(@, reqs[r].number)]
    /\ reqs' = [reqs EXCEPT ![r].phase = "recorded"]
    /\ UNCHANGED <<loan, submission, decisions, activity, notified, audited, failures, stale>>

WriteActivity(r) ==
    /\ reqs[r].phase = "recorded"
    /\ activity' = [activity EXCEPT ![reqs[r].loan] = @ \cup {reqs[r].number}]
    /\ reqs' = [reqs EXCEPT ![r].phase = "logged"]
    /\ UNCHANGED <<loan, submission, decisions, history, notified, audited, failures, stale>>

\* Mutation of Notify: the request answers without writing the audit row.
NotifyAndAnswer(r) ==
    /\ reqs[r].phase = "logged"
    /\ notified' = [notified EXCEPT ![reqs[r].loan] = @ \cup {reqs[r].number}]
    /\ reqs' = [reqs EXCEPT ![r] = Idle]
    /\ UNCHANGED <<loan, submission, decisions, history, activity, audited, failures, stale>>

Notify(r) ==
    /\ reqs[r].phase = "logged"
    /\ notified' = [notified EXCEPT ![reqs[r].loan] = @ \cup {reqs[r].number}]
    /\ reqs' = [reqs EXCEPT ![r].phase = "notified"]
    /\ UNCHANGED <<loan, submission, decisions, history, activity, audited, failures, stale>>

Audit(r) ==
    /\ reqs[r].phase = "notified"
    /\ audited' = [audited EXCEPT ![reqs[r].loan] = @ \cup {reqs[r].number}]
    /\ reqs' = [reqs EXCEPT ![r] = Idle]
    /\ UNCHANGED <<loan, submission, decisions, history, activity, notified, failures, stale>>

\* The next write of the request throws, or the server stops: what is already
\* written stays, the rest of the trail is never written.
Fail(r) ==
    /\ failures < MaxFailures
    /\ reqs[r] # Idle
    /\ reqs' = [reqs EXCEPT ![r] = Idle]
    /\ failures' = failures + 1
    /\ UNCHANGED <<loan, submission, decisions, trail, stale>>

-----------------------------------------------------------------------------
SubmissionStep(l) ==
    \/ StoreDocuments(l) \/ RecordSubmission(l) \/ NotifySubmission(l) \/ AuditSubmission(l)

RequestStep(r) ==
    \/ Save(r) \/ WriteHistory(r) \/ WriteActivity(r) \/ Notify(r) \/ Audit(r)

Next ==
    \/ \E l \in Loans : \/ \E assigned \in BOOLEAN : CreateLoan(l, assigned)
                        \/ SubmissionStep(l)
                        \/ FailSubmission(l)
    \/ \E r \in Requests : \/ \E s \in Staff, l \in Loans, a \in Actions, given \in SUBSET Reasons :
                                 Load(r, s, l, a, given)
                           \/ RequestStep(r)
                           \/ Fail(r)

Spec == Init /\ [][Next]_vars

\* The server runs every request it has accepted to its end; nobody is obliged
\* to send one.
FairSpec ==
    /\ Spec
    /\ \A l \in Loans : WF_vars(SubmissionStep(l))
    /\ \A r \in Requests : WF_vars(RequestStep(r))

-----------------------------------------------------------------------------
TypeOK ==
    /\ loan \in [Loans -> Doc]
    /\ submission \in [Loans -> SubmissionPhases]
    /\ reqs \in [Requests -> Request \cup {Idle}]
    /\ decisions \in [Loans -> Seq(Decision)]
    /\ history \in [Loans -> Seq(Nat)]
    /\ activity \in [Loans -> SUBSET Nat]
    /\ notified \in [Loans -> SUBSET Nat]
    /\ audited \in [Loans -> SUBSET Nat]
    /\ failures \in Nat
    /\ stale \subseteq Loans

HighValue == {l \in Loans : Amount[l] > BranchMax}

\* Loan l has been approved at head office by someone with a head-office role.
ApprovedAtHeadOffice(l) ==
    \E i \in 1..Len(decisions[l]) :
        /\ decisions[l][i].action = "approve"
        /\ decisions[l][i].level = "head_office"
        /\ RoleOf[decisions[l][i].staff] \in RolesAt["head_office"]

\* However requests race and fail, a loan above the branch threshold is approved
\* or disbursed only after an approval head office made
\* (loan-workflow.service.ts resolveApproveTransition).
HighValueApproval ==
    \A l \in HighValue :
        loan[l].status \in {"approved", "disbursed"} => ApprovedAtHeadOffice(l)

\* The staff rows of a history, without the member's SUBMIT row.
RecordedDecisions(l) == {history[l][i] : i \in 1..Len(history[l])} \ {0}

\* The audit row of a decision implies the notification, the notification implies
\* the staff activity, the activity the history row, and the history row the save:
\* the member is never told of a decision the timeline does not hold
\* (the order of the awaits in processAction).
TrailInOrder ==
    \A l \in Loans :
        /\ audited[l] \ {0} \subseteq notified[l]
        /\ notified[l] \ {0} \subseteq activity[l]
        /\ activity[l] \subseteq RecordedDecisions(l)
        /\ RecordedDecisions(l) \subseteq 1..Len(decisions[l])

\* buildAvailableActions, the buttons the console offers for a loan in the queue.
Offered(l) ==
    {a \in {"review", "return_for_correction"} : loan[l].status \in UnderReview}
    \cup {a \in {"forward"} : CanForward(loan[l])}
    \cup {a \in {"approve"} : /\ loan[l].status \in UnderReview
                              /\ loan[l].level = "head_office" \/ Amount[l] <= BranchMax}

\* However requests race, the desk a loan under review stands at can decide it: its
\* staff are offered a button that moves the loan on (approve or forward), and
\* processAction takes every button they are offered.  Racing saves never leave the
\* status of one desk with the level of another, from where a loan above the
\* threshold could be neither approved nor forwarded.  (The queue shows the same
\* buttons to staff of every other desk, whom ensureUserCanActAtLevel refuses.)
DeskCanDecide ==
    \A l \in Loans, s \in Staff :
        loan[l].status \in UnderReview /\ RoleOf[s] \in RolesAt[loan[l].level] =>
            /\ Offered(l) \cap {"approve", "forward"} # {}
            /\ \A a \in Offered(l) : Accepts(s, l, loan[l], a)

-----------------------------------------------------------------------------
(* The lifecycle the workflow implements.                                   *)

Stage(d) == IF d.status \in UnderReview THEN d.level ELSE d.status

Lifecycle == INSTANCE LoanLifecycle
                 WITH HighValue <- HighValue, stage <- [l \in Loans |-> Stage(loan[l])]

\* With one staff request at a time the service implements LoanLifecycle.
LifecycleSpec == Lifecycle!Spec

\* A loan none of whose saves came from an out-of-date snapshot moves only along
\* the lifecycle, however many requests are in flight: comparing the snapshot at
\* the save (a version key) is all processAction lacks.
FreshLoansFollowLifecycle ==
    [][\A l \in Loans \ stale' :
          \/ Stage(loan'[l]) = Stage(loan[l])
          \/ Lifecycle!Move(l, Stage(loan[l]), Stage(loan'[l]))]_vars

\* Every decision that landed on a loan reaches the audit log, and so (TrailInOrder)
\* every earlier row and the member, unless a write throws (processAction).
DecisionsReachTheTrail ==
    \A l \in Loans : \A i \in 1..(MaxDecisions + Cardinality(Requests)) :
        (Len(decisions[l]) >= i) ~> (i \in audited[l] \/ failures > 0)

-----------------------------------------------------------------------------
(* What a test of the code says and racing requests refute.                 *)

\* "prevents approve after reject" (loan-workflow.service.spec.ts): a rejected loan
\* is only ever closed.
RejectedIsFinal ==
    [][\A l \in Loans : loan[l].status = "rejected" =>
                            loan'[l].status \in {"rejected", "closed"}]_vars
=============================================================================
