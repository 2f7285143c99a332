-------------------------- MODULE LoanWorkflow_proofs --------------------------
(* Proofs about LoanWorkflow for every set of loans, staff and requests and for *)
(* every amount and threshold.                                                  *)
EXTENDS LoanWorkflow, TLAPS

-----------------------------------------------------------------------------
(* What a decision computes from a document.                                *)

\* The document a request decides on is a document, whatever action it was given.
LEMMA DecidedType ==
    ASSUME NEW d \in Doc, NEW a \in Actions, NEW given \in SUBSET Reasons
    PROVE  Decided(d, a, given) \in Doc
  BY DEF Decided, Doc, NextStatus, NextLevel, NextReasons, Actions, Statuses, Levels

\* A save leaves a document of the right type, whatever snapshot it came from.
LEMMA MergeType ==
    ASSUME NEW seen \in Doc, NEW next \in Doc, NEW current \in Doc
    PROVE  Merge(seen, next, current) \in Doc
  BY DEF Merge, SavedField, Doc

\* A save from an up-to-date snapshot writes exactly the decided document.
LEMMA FreshMerge ==
    ASSUME NEW seen \in Doc, NEW next \in Doc
    PROVE  Merge(seen, next, seen) = next
  BY DEF Merge, SavedField, Doc

-----------------------------------------------------------------------------
(* Type correctness.                                                        *)

\* The type invariant of the workflow, inductive by itself.
LEMMA TypeInit == Init => TypeOK
  BY LoanConstants DEF Init, TypeOK, NoDoc, Doc, Statuses, Levels, SubmissionPhases, Idle

LEMMA TypeStep == TypeOK /\ [Next]_vars => TypeOK'
<1> SUFFICES ASSUME TypeOK, [Next]_vars PROVE TypeOK'
    OBVIOUS
<1> USE LoanConstants DEF TypeOK
<1>1. ASSUME NEW l \in Loans, NEW assigned \in BOOLEAN, CreateLoan(l, assigned)
      PROVE  TypeOK'
    BY <1>1 DEF CreateLoan, trail, Doc, Statuses, Levels, SubmissionPhases
<1>2. ASSUME NEW l \in Loans, SubmissionStep(l)
      PROVE  TypeOK'
  <2>1. CASE StoreDocuments(l)
      BY <2>1 DEF StoreDocuments, trail, SubmissionPhases
  <2>2. CASE RecordSubmission(l)
      BY <2>2 DEF RecordSubmission, SubmissionPhases
  <2>3. CASE NotifySubmission(l)
      BY <2>3 DEF NotifySubmission, SubmissionPhases
  <2>4. CASE AuditSubmission(l)
      BY <2>4 DEF AuditSubmission, SubmissionPhases
  <2> QED
      BY <1>2, <2>1, <2>2, <2>3, <2>4 DEF SubmissionStep
<1>3. ASSUME NEW l \in Loans, FailSubmission(l)
      PROVE  TypeOK'
    BY <1>3 DEF FailSubmission, trail, SubmissionPhases
<1>4. ASSUME NEW r \in Requests, NEW s \in Staff, NEW l \in Loans, NEW a \in Actions,
             NEW given \in SUBSET Reasons, Load(r, s, l, a, given)
      PROVE  TypeOK'
  <2>1. Decided(loan[l], a, given) \in Doc
      BY DecidedType
  <2> QED
      BY <1>4, <2>1 DEF Load, trail, Request, Phases
<1>5. ASSUME NEW r \in Requests, Save(r)
      PROVE  TypeOK'
  <2> DEFINE q == reqs[r]
             d == [action |-> q.action, staff |-> q.staff, level |-> q.seen.level,
                   from |-> q.seen.status, to |-> q.next.status]
  <2>1. q \in Request /\ q.phase = "loaded"
      BY <1>5 DEF Save, Idle
  <2>2. Merge(q.seen, q.next, loan[q.loan]) \in Doc
      BY <2>1, MergeType DEF Request
  <2>3. d \in Decision
      BY <2>1 DEF Request, Doc, Decision
  <2>4. loan' \in [Loans -> Doc]
      BY <1>5, <2>1, <2>2 DEF Save, Request
  <2>5. decisions' \in [Loans -> Seq(Decision)]
      BY <1>5, <2>1, <2>3 DEF Save, Request
  <2>6. stale' \subseteq Loans
      BY <1>5, <2>1 DEF Save, Request
  <2>7. reqs' \in [Requests -> Request \cup {Idle}]
    <3>1. Len(decisions[q.loan]) + 1 \in Nat
        BY <2>1 DEF Request
    <3> QED
        BY <1>5, <2>1, <3>1 DEF Save, Request, Phases
  <2> QED
      BY <1>5, <2>4, <2>5, <2>6, <2>7 DEF Save, trail
<1>6. ASSUME NEW r \in Requests, WriteHistory(r) \/ WriteActivity(r) \/ Notify(r) \/ Audit(r)
      PROVE  TypeOK'
  <2>1. reqs[r] \in Request
      BY <1>6 DEF WriteHistory, WriteActivity, Notify, Audit, Idle
  <2>2. /\ reqs[r].loan \in Loans /\ reqs[r].number \in Nat
        /\ \A p \in Phases : [reqs[r] EXCEPT !.phase = p] \in Request
      BY <2>1 DEF Request
  <2>3. CASE WriteHistory(r)
      BY <2>2, <2>3 DEF WriteHistory, Phases
  <2>4. CASE WriteActivity(r)
      BY <2>2, <2>4 DEF WriteActivity, Phases
  <2>5. CASE Notify(r)
      BY <2>2, <2>5 DEF Notify, Phases
  <2>6. CASE Audit(r)
      BY <2>2, <2>6 DEF Audit
  <2> QED
      BY <1>6, <2>3, <2>4, <2>5, <2>6
<1>7. ASSUME NEW r \in Requests, Fail(r)
      PROVE  TypeOK'
    BY <1>7 DEF Fail, trail
<1>8. CASE UNCHANGED vars
    BY <1>8 DEF vars, trail
<1> QED
    BY <1>1, <1>2, <1>3, <1>4, <1>5, <1>6, <1>7, <1>8 DEF Next, RequestStep

\* Every reachable state of the workflow is well typed.
THEOREM Typing == Spec => []TypeOK
  BY TypeInit, TypeStep, PTL DEF Spec

-----------------------------------------------------------------------------
(* What a request in flight knows.  Its snapshot may be out of date, but the *)
(* decision it holds was legal on that snapshot, for someone of that desk,   *)
(* and an approval the snapshot shows was really made.                       *)

Jobs == {r \in Requests : reqs[r] # Idle}

LegalJob(r) ==
    LET q == reqs[r]
    IN  /\ Accepts(q.staff, q.loan, q.seen, q.action)
        /\ \E given \in SUBSET Reasons : q.next = Decided(q.seen, q.action, given)

ApprovedBefore(l, d) ==
    l \in HighValue /\ d.status \in {"approved", "disbursed"} => ApprovedAtHeadOffice(l)

AuthorityInv ==
    /\ TypeOK
    /\ \A r \in Jobs : LegalJob(r) /\ ApprovedBefore(reqs[r].loan, reqs[r].seen)
    /\ HighValueApproval

\* A head-office approval is never forgotten: decisions only grow.
LEMMA ApprovalKept ==
    ASSUME TypeOK, NEW l \in Loans, NEW e \in Decision,
           decisions'[l] = decisions[l] \/ decisions'[l] = Append(decisions[l], e),
           ApprovedAtHeadOffice(l)
    PROVE  ApprovedAtHeadOffice(l)'
<1>1. PICK i \in 1..Len(decisions[l]) :
          /\ decisions[l][i].action = "approve"
          /\ decisions[l][i].level = "head_office"
          /\ RoleOf[decisions[l][i].staff] \in RolesAt["head_office"]
    BY DEF ApprovedAtHeadOffice
<1>2. decisions[l] \in Seq(Decision)
    BY DEF TypeOK
<1>3. i \in 1..Len(decisions'[l]) /\ decisions'[l][i] = decisions[l][i]
    BY <1>1, <1>2
<1> QED
    BY <1>1, <1>3 DEF ApprovedAtHeadOffice

\* The steps that neither read nor write a loan: they end a request or move it on
\* with the same decision in hand.
Bystander ==
    \/ \E l \in Loans : SubmissionStep(l) \/ FailSubmission(l)
    \/ \E r \in Requests : \/ WriteHistory(r) \/ WriteActivity(r) \/ Notify(r)
                           \/ Audit(r) \/ Fail(r)

SameJob(q, p) ==
    /\ p # Idle /\ q # Idle
    /\ p.loan = q.loan /\ p.staff = q.staff /\ p.action = q.action
    /\ p.seen = q.seen /\ p.next = q.next

LEMMA BystanderFrame ==
    ASSUME TypeOK, Bystander
    PROVE  /\ UNCHANGED <<loan, decisions, stale>>
           /\ \A o \in Requests : reqs'[o] = Idle \/ SameJob(reqs[o], reqs'[o])
<1>1. CASE \E l \in Loans : SubmissionStep(l) \/ FailSubmission(l)
  <2>1. UNCHANGED <<loan, decisions, stale, reqs>>
      BY <1>1 DEF SubmissionStep, FailSubmission, StoreDocuments, RecordSubmission,
                  NotifySubmission, AuditSubmission
  <2> QED
      BY <2>1 DEF SameJob
<1>2. ASSUME NEW r \in Requests, Audit(r) \/ Fail(r)
      PROVE  /\ UNCHANGED <<loan, decisions, stale>>
             /\ \A o \in Requests : reqs'[o] = Idle \/ SameJob(reqs[o], reqs'[o])
  <2>1. reqs' = [reqs EXCEPT ![r] = Idle] /\ UNCHANGED <<loan, decisions, stale>>
      BY <1>2 DEF Audit, Fail
  <2> QED
      BY <2>1 DEF SameJob, TypeOK
<1>3. ASSUME NEW r \in Requests, WriteHistory(r) \/ WriteActivity(r) \/ Notify(r)
      PROVE  /\ UNCHANGED <<loan, decisions, stale>>
             /\ \A o \in Requests : reqs'[o] = Idle \/ SameJob(reqs[o], reqs'[o])
  <2>1. UNCHANGED <<loan, decisions, stale>>
      BY <1>3 DEF WriteHistory, WriteActivity, Notify
  <2>2. PICK p \in Phases : reqs' = [reqs EXCEPT ![r].phase = p]
      BY <1>3 DEF WriteHistory, WriteActivity, Notify, Phases
  <2>3. reqs[r] \in Request
      BY <1>3 DEF WriteHistory, WriteActivity, Notify, TypeOK, Idle
  <2>4. SameJob(reqs[r], reqs'[r])
      BY <2>2, <2>3 DEF SameJob, Request, Idle, TypeOK, Phases
  <2>5. \A o \in Requests \ {r} : reqs'[o] = reqs[o]
      BY <2>2 DEF TypeOK
  <2> QED
      BY <2>1, <2>4, <2>5 DEF SameJob
<1> QED
    BY <1>1, <1>2, <1>3 DEF Bystander

\* Every step is one of these.
LEMMA StepKinds ==
    ASSUME [Next]_vars
    PROVE  \/ \E l \in Loans, assigned \in BOOLEAN : CreateLoan(l, assigned)
           \/ \E r \in Requests, s \in Staff, l \in Loans, a \in Actions,
                 given \in SUBSET Reasons : Load(r, s, l, a, given)
           \/ \E r \in Requests : Save(r)
           \/ Bystander
           \/ UNCHANGED vars
  BY DEF Next, RequestStep, Bystander

LEMMA AuthorityInit == Init => AuthorityInv
  BY TypeInit DEF Init, AuthorityInv, Jobs, HighValueApproval, HighValue, NoDoc

\* A request that saves a legal decision and leaves the loan approved or disbursed
\* either made the approval at head office or saw it made.
LEMMA SavedApproval ==
    ASSUME AuthorityInv, NEW r \in Requests, Save(r),
           NEW l \in HighValue, reqs[r].loan = l,
           reqs[r].next.status \in {"approved", "disbursed"}
    PROVE  ApprovedAtHeadOffice(l)'
<1> DEFINE q == reqs[r]
           e == [action |-> q.action, staff |-> q.staff, level |-> q.seen.level,
                 from |-> q.seen.status, to |-> q.next.status]
<1>1. /\ TypeOK /\ q \in Request /\ r \in Jobs
      /\ decisions' = [decisions EXCEPT ![l] = Append(@, e)]
    BY DEF AuthorityInv, Save, Jobs, Idle, TypeOK
<1>2. /\ e \in Decision /\ l \in Loans /\ q.seen \in Doc /\ q.action \in Actions
      /\ decisions'[l] = Append(decisions[l], e)
    BY <1>1 DEF Request, Doc, Decision, TypeOK
<1>3. PICK given \in SUBSET Reasons : q.next = Decided(q.seen, q.action, given)
    BY <1>1 DEF AuthorityInv, LegalJob
<1>4. q.next.status = NextStatus(q.seen, q.action)
    BY <1>3 DEF Decided
<1>5. LegalJob(r) /\ ApprovedBefore(l, q.seen)
    BY <1>1 DEF AuthorityInv
<1>6. CASE q.action = "approve"
  <2>1. CanApprove(l, q.seen)
      BY <1>5, <1>6 DEF LegalJob, Accepts, Resolves
  <2>2. q.seen.level # "branch" /\ q.seen.level # "district"
      BY <2>1, LoanConstants DEF CanApprove, HighValue
  <2>3. q.seen.level # "member"
      BY <1>5 DEF LegalJob, Accepts, RolesAt, Levels
  <2>4. q.seen.level = "head_office"
      BY <1>2, <2>2, <2>3 DEF Doc, Levels
  <2>5. RoleOf[q.staff] \in RolesAt["head_office"]
      BY <1>5, <2>4 DEF LegalJob, Accepts
  <2>6. decisions[l] \in Seq(Decision)
      BY <1>1, <1>2 DEF TypeOK
  <2>7. Len(decisions'[l]) \in 1..Len(decisions'[l]) /\ decisions'[l][Len(decisions'[l])] = e
      BY <1>2, <2>6
  <2> QED
      BY <1>6, <2>4, <2>5, <2>7 DEF ApprovedAtHeadOffice
<1>7. CASE q.action # "approve"
  <2>1. q.action = "disburse"
    <3>1. q.action = "review" => q.seen.status \in UnderReview
        BY <1>5 DEF LegalJob, Accepts, Resolves
    <3> QED
        BY <1>2, <1>4, <1>7, <3>1 DEF NextStatus, Actions, UnderReview
  <2>2. q.seen.status = "approved"
      BY <1>5, <2>1 DEF LegalJob, Accepts, Resolves
  <2>3. ApprovedAtHeadOffice(l)
      BY <1>5, <2>2 DEF ApprovedBefore
  <2> QED
      BY <1>1, <1>2, <2>3, ApprovalKept
<1> QED
    BY <1>6, <1>7

LEMMA AuthorityStep == AuthorityInv /\ [Next]_vars => AuthorityInv'
<1> SUFFICES ASSUME AuthorityInv, [Next]_vars PROVE AuthorityInv'
    OBVIOUS
<1> USE DEF AuthorityInv
<1>0. TypeOK /\ TypeOK'
    BY TypeStep
<1>1. ASSUME NEW l \in Loans, NEW assigned \in BOOLEAN, CreateLoan(l, assigned)
      PROVE  AuthorityInv'
  <2>1. UNCHANGED <<reqs, decisions>>
      BY <1>1 DEF CreateLoan
  <2>2. \A o \in Loans : ApprovedAtHeadOffice(o)' = ApprovedAtHeadOffice(o)
      BY <2>1 DEF ApprovedAtHeadOffice
  <2>3. HighValueApproval'
      BY <1>0, <1>1, <2>2 DEF HighValueApproval, HighValue, CreateLoan, TypeOK
  <2>4. \A r \in Jobs : reqs[r].loan \in Loans
      BY <1>0 DEF Jobs, TypeOK, Request
  <2>5. ASSUME NEW r \in Jobs'
        PROVE  (LegalJob(r) /\ ApprovedBefore(reqs[r].loan, reqs[r].seen))'
      BY <2>1, <2>2, <2>4 DEF Jobs, LegalJob, ApprovedBefore
  <2> QED
      BY <1>0, <2>3, <2>5
<1>2. ASSUME NEW r \in Requests, NEW s \in Staff, NEW l \in Loans, NEW a \in Actions,
             NEW given \in SUBSET Reasons, Load(r, s, l, a, given)
      PROVE  AuthorityInv'
  <2> DEFINE q == reqs'[r]
  <2>1. /\ q.loan = l /\ q.staff = s /\ q.action = a /\ q.seen = loan[l]
        /\ q.next = Decided(loan[l], a, given)
        /\ Accepts(s, l, loan[l], a)
        /\ \A o \in Requests \ {r} : reqs'[o] = reqs[o]
        /\ UNCHANGED <<loan, decisions>>
      BY <1>0, <1>2 DEF Load, TypeOK
  <2>2. \A o \in Loans : ApprovedAtHeadOffice(o)' = ApprovedAtHeadOffice(o)
      BY <2>1 DEF ApprovedAtHeadOffice
  <2>3. HighValueApproval'
      BY <2>1, <2>2 DEF HighValueApproval, HighValue
  <2>4. (LegalJob(r) /\ ApprovedBefore(reqs[r].loan, reqs[r].seen))'
      BY <2>1, <2>2 DEF LegalJob, ApprovedBefore, HighValueApproval
  <2>5. ASSUME NEW o \in Jobs', o # r
        PROVE  (LegalJob(o) /\ ApprovedBefore(reqs[o].loan, reqs[o].seen))'
    <3>1. o \in Jobs /\ reqs'[o] = reqs[o] /\ reqs[o].loan \in Loans
        BY <1>0, <2>1, <2>5 DEF Jobs, TypeOK, Request
    <3> QED
        BY <2>2, <3>1 DEF LegalJob, ApprovedBefore
  <2> QED
      BY <1>0, <2>3, <2>4, <2>5
<1>3. ASSUME NEW r \in Requests, Save(r)
      PROVE  AuthorityInv'
  <2> DEFINE q == reqs[r]
             e == [action |-> q.action, staff |-> q.staff, level |-> q.seen.level,
                   from |-> q.seen.status, to |-> q.next.status]
  <2>1. /\ r \in Jobs /\ q \in Request /\ q.loan \in Loans
        /\ loan' = [loan EXCEPT ![q.loan] = Merge(q.seen, q.next, loan[q.loan])]
        /\ decisions' = [decisions EXCEPT ![q.loan] = Append(@, e)]
      BY <1>0, <1>3 DEF Save, Jobs, Idle, TypeOK, Request
  <2>2. e \in Decision
      BY <2>1 DEF Request, Doc, Decision
  <2>3. \A o \in Loans : decisions'[o] = decisions[o] \/ decisions'[o] = Append(decisions[o], e)
      BY <1>0, <2>1 DEF TypeOK
  <2>4. \A o \in Loans : ApprovedAtHeadOffice(o) => ApprovedAtHeadOffice(o)'
      BY <1>0, <2>2, <2>3, ApprovalKept
  <2>5. ASSUME NEW l \in HighValue, loan'[l].status \in {"approved", "disbursed"}
        PROVE  ApprovedAtHeadOffice(l)'
    <3>1. l \in Loans
        BY DEF HighValue
    <3>2. CASE l = q.loan /\ q.next.status \in {"approved", "disbursed"}
        BY <1>3, <3>2, SavedApproval
    <3>3. CASE l # q.loan \/ q.next.status \notin {"approved", "disbursed"}
      <4>1. loan'[l].status = loan[l].status
          BY <1>0, <2>1, <2>5, <3>1, <3>3 DEF Merge, SavedField, TypeOK
      <4> QED
          BY <2>4, <2>5, <3>1, <4>1 DEF HighValueApproval
    <3> QED
        BY <3>2, <3>3
  <2>6. ASSUME NEW o \in Jobs'
        PROVE  (LegalJob(o) /\ ApprovedBefore(reqs[o].loan, reqs[o].seen))'
    <3>1. SameJob(reqs[o], reqs'[o]) /\ o \in Jobs
        BY <1>0, <1>3, <2>1, <2>6 DEF Save, SameJob, Jobs, TypeOK, Request, Idle
    <3>2. reqs[o].loan \in Loans
        BY <1>0, <3>1 DEF Jobs, TypeOK, Request
    <3> QED
        BY <2>4, <3>1, <3>2 DEF LegalJob, ApprovedBefore, SameJob
  <2> QED
      BY <1>0, <2>5, <2>6 DEF HighValueApproval
<1>4. CASE Bystander
  <2>1. /\ UNCHANGED <<loan, decisions>>
        /\ \A o \in Requests : reqs'[o] = Idle \/ SameJob(reqs[o], reqs'[o])
      BY <1>0, <1>4, BystanderFrame
  <2>2. \A o \in Loans : ApprovedAtHeadOffice(o)' = ApprovedAtHeadOffice(o)
      BY <2>1 DEF ApprovedAtHeadOffice
  <2>3. HighValueApproval'
      BY <2>1, <2>2 DEF HighValueApproval, HighValue
  <2>4. ASSUME NEW o \in Jobs'
        PROVE  (LegalJob(o) /\ ApprovedBefore(reqs[o].loan, reqs[o].seen))'
    <3>1. SameJob(reqs[o], reqs'[o]) /\ o \in Jobs
        BY <2>1 DEF SameJob, Jobs
    <3>2. reqs[o].loan \in Loans
        BY <1>0, <3>1 DEF Jobs, TypeOK, Request
    <3> QED
        BY <2>2, <3>1, <3>2 DEF LegalJob, ApprovedBefore, SameJob
  <2> QED
      BY <1>0, <2>3, <2>4
<1>5. CASE UNCHANGED vars
    BY <1>5 DEF vars, Jobs, LegalJob, ApprovedBefore, HighValueApproval,
                ApprovedAtHeadOffice, TypeOK, trail
<1> QED
    BY <1>1, <1>2, <1>3, <1>4, <1>5, StepKinds

\* However staff requests race, and whatever writes throw, no loan above the branch
\* threshold is approved or disbursed without an approval made at head office.
THEOREM HighValueSafe == Spec => []HighValueApproval
<1>1. Spec => []AuthorityInv
    BY AuthorityInit, AuthorityStep, PTL DEF Spec
<1>2. AuthorityInv => HighValueApproval
    BY DEF AuthorityInv
<1> QED
    BY <1>1, <1>2, PTL

-----------------------------------------------------------------------------
(* The status and the level of a loan under review name the same desk.      *)

DeskStatus == [lv \in {"branch", "district", "head_office"} |->
    CASE lv = "branch"      -> "submitted"
      [] lv = "district"    -> "district_review"
      [] lv = "head_office" -> "head_office_review"]

AtItsDesk(d) ==
    d.status \in UnderReview => /\ d.level \in {"branch", "district", "head_office"}
                                /\ d.status = DeskStatus[d.level]

DeskInv ==
    /\ AuthorityInv
    /\ \A l \in Loans : AtItsDesk(loan[l])
    /\ \A r \in Jobs : AtItsDesk(reqs[r].seen)

\* A save moves the status and the level of a loan under review together or takes the
\* loan out of review, whatever document it lands on.
LEMMA MergeStaysAtDesk ==
    ASSUME NEW l \in Loans, NEW s \in Staff, NEW a \in Actions, NEW given \in SUBSET Reasons,
           NEW seen \in Doc, NEW current \in Doc, AtItsDesk(seen), AtItsDesk(current),
           Accepts(s, l, seen, a)
    PROVE  AtItsDesk(Merge(seen, Decided(seen, a, given), current))
<1> DEFINE next == Decided(seen, a, given)
           merged == Merge(seen, next, current)
<1>1. /\ next.status = NextStatus(seen, a) /\ next.level = NextLevel(seen, a)
      /\ merged.status = IF next.status # seen.status THEN next.status ELSE current.status
      /\ merged.level = IF next.level # seen.level THEN next.level ELSE current.level
    BY DEF Decided, Merge, SavedField
<1>2. CASE a = "review"
    BY <1>1, <1>2 DEF NextStatus, NextLevel, AtItsDesk
<1>3. CASE a \in {"approve", "reject", "disburse", "close"}
  <2>1. next.status \notin UnderReview /\ next.status # seen.status
      BY <1>1, <1>3 DEF NextStatus, UnderReview, Accepts, Resolves, CanApprove
  <2> QED
      BY <1>1, <2>1 DEF AtItsDesk
<1>4. CASE a = "forward"
  <2>1. \/ seen.level = "branch" /\ seen.status = "submitted"
        \/ seen.level = "district" /\ seen.status = "district_review"
      BY <1>4 DEF Accepts, Resolves, CanForward, AtItsDesk, UnderReview, DeskStatus
  <2> QED
      BY <1>1, <1>4, <2>1 DEF NextStatus, NextLevel, AtItsDesk, DeskStatus
<1>5. CASE a = "return_for_correction"
  <2>1. \/ seen.level = "branch" /\ seen.status = "submitted"
        \/ seen.level # "branch" /\ seen.status # "submitted"
      BY <1>5 DEF Accepts, Resolves, AtItsDesk, UnderReview, DeskStatus
  <2>2. next.status = "submitted" /\ next.level = "branch"
      BY <1>1, <1>5 DEF NextStatus, NextLevel
  <2> QED
      BY <1>1, <2>1, <2>2 DEF AtItsDesk, DeskStatus
<1> QED
    BY <1>2, <1>3, <1>4, <1>5 DEF Actions

LEMMA DeskInit == Init => DeskInv
  BY AuthorityInit DEF Init, DeskInv, AtItsDesk, NoDoc, UnderReview, Jobs

LEMMA DeskStep == DeskInv /\ [Next]_vars => DeskInv'
<1> SUFFICES ASSUME DeskInv, [Next]_vars PROVE DeskInv'
    OBVIOUS
<1> USE DEF DeskInv
<1>0. TypeOK /\ AuthorityInv /\ AuthorityInv'
    BY AuthorityStep DEF AuthorityInv
<1>1. ASSUME NEW l \in Loans, NEW assigned \in BOOLEAN, CreateLoan(l, assigned)
      PROVE  DeskInv'
  <2>1. AtItsDesk(loan'[l]) /\ \A o \in Loans \ {l} : loan'[o] = loan[o]
      BY <1>0, <1>1 DEF CreateLoan, TypeOK, AtItsDesk, UnderReview, DeskStatus
  <2>2. UNCHANGED reqs
      BY <1>1 DEF CreateLoan
  <2> QED
      BY <1>0, <2>1, <2>2 DEF AtItsDesk, Jobs
<1>2. ASSUME NEW r \in Requests, NEW s \in Staff, NEW l \in Loans, NEW a \in Actions,
             NEW given \in SUBSET Reasons, Load(r, s, l, a, given)
      PROVE  DeskInv'
  <2>1. /\ reqs'[r].seen = loan[l] /\ UNCHANGED loan
        /\ \A o \in Requests \ {r} : reqs'[o] = reqs[o]
      BY <1>0, <1>2 DEF Load, TypeOK
  <2> QED
      BY <1>0, <2>1 DEF AtItsDesk, Jobs
<1>3. ASSUME NEW r \in Requests, Save(r)
      PROVE  DeskInv'
  <2> DEFINE q == reqs[r]
  <2>1. r \in Jobs /\ q \in Request /\ q.loan \in Loans
      BY <1>0, <1>3 DEF Save, Jobs, Idle, TypeOK, Request
  <2>2. /\ loan' = [loan EXCEPT ![q.loan] = Merge(q.seen, q.next, loan[q.loan])]
        /\ \A o \in Requests : reqs'[o] = Idle \/ SameJob(reqs[o], reqs'[o])
    <3>1. /\ reqs'[r].phase = "saved"
          /\ reqs'[r].loan = q.loan /\ reqs'[r].staff = q.staff /\ reqs'[r].action = q.action
          /\ reqs'[r].seen = q.seen /\ reqs'[r].next = q.next
          /\ \A o \in Requests \ {r} : reqs'[o] = reqs[o]
        BY <1>0, <1>3, <2>1 DEF Save, TypeOK, Request
    <3>2. reqs'[r] # Idle /\ q # Idle
        BY <2>1, <3>1 DEF Idle, Jobs
    <3> QED
        BY <1>3, <3>1, <3>2 DEF Save, SameJob
  <2>3. PICK given \in SUBSET Reasons : q.next = Decided(q.seen, q.action, given)
      BY <1>0, <2>1 DEF AuthorityInv, LegalJob
  <2>4. /\ q.staff \in Staff /\ q.action \in Actions /\ q.seen \in Doc /\ loan[q.loan] \in Doc
        /\ Accepts(q.staff, q.loan, q.seen, q.action)
      BY <1>0, <2>1 DEF TypeOK, Request, AuthorityInv, LegalJob
  <2>5. AtItsDesk(Merge(q.seen, q.next, loan[q.loan]))
      BY <2>1, <2>3, <2>4, MergeStaysAtDesk
  <2>6. \A l \in Loans : AtItsDesk(loan'[l])
      BY <1>0, <2>1, <2>2, <2>5 DEF TypeOK
  <2> QED
      BY <1>0, <2>2, <2>6 DEF AtItsDesk, Jobs, SameJob
<1>4. CASE Bystander
  <2>1. UNCHANGED loan /\ \A o \in Requests : reqs'[o] = Idle \/ SameJob(reqs[o], reqs'[o])
      BY <1>0, <1>4, BystanderFrame
  <2> QED
      BY <1>0, <2>1 DEF AtItsDesk, Jobs, SameJob
<1>5. CASE UNCHANGED vars
    BY <1>0, <1>5 DEF vars, AtItsDesk, Jobs
<1> QED
    BY <1>1, <1>2, <1>3, <1>4, <1>5, StepKinds

\* Whatever races and fails, no loan under review is stranded: the staff of the desk it
\* stands at are offered an action that moves it on, and all they are offered is taken.
THEOREM DesksDecide == Spec => []DeskCanDecide
<1>1. Spec => []DeskInv
    BY DeskInit, DeskStep, PTL DEF Spec
<1>2. DeskInv => DeskCanDecide
  <2> SUFFICES ASSUME DeskInv, NEW l \in Loans, NEW s \in Staff,
                      loan[l].status \in UnderReview, RoleOf[s] \in RolesAt[loan[l].level]
               PROVE  /\ Offered(l) \cap {"approve", "forward"} # {}
                      /\ \A a \in Offered(l) : Accepts(s, l, loan[l], a)
      BY DEF DeskCanDecide
  <2>1. /\ loan[l].level \in {"branch", "district", "head_office"}
        /\ loan[l].status = DeskStatus[loan[l].level]
      BY DEF DeskInv, AtItsDesk
  <2>2. "forward" \in Offered(l) \/ "approve" \in Offered(l)
      BY <2>1 DEF Offered, CanForward, DeskStatus, UnderReview
  <2>3. ASSUME NEW a \in Offered(l)
        PROVE  Accepts(s, l, loan[l], a)
      BY <2>1, <2>3 DEF Offered, Accepts, Resolves, CanForward, CanApprove, UnderReview,
                        DeskStatus
  <2> QED
      BY <2>2, <2>3
<1> QED
    BY <1>1, <1>2, PTL

-----------------------------------------------------------------------------
(* Fresh saves follow the lifecycle.                                        *)

\* A legal decision on an existing document stays where it is or makes a move of
\* the lifecycle.
LEMMA LegalDecisionMoves ==
    ASSUME NEW l \in Loans, NEW d \in Doc, NEW a \in Actions, NEW given \in SUBSET Reasons,
           NEW s \in Staff, Accepts(s, l, d, a)
    PROVE  LET from == Stage(d)
               to == Stage(Decided(d, a, given))
           IN  from = to \/ Lifecycle!Move(l, from, to)
<1> DEFINE from == Stage(d)
           to == Stage(Decided(d, a, given))
<1>1. d.level \in {"branch", "district", "head_office"}
    BY DEF Accepts, RolesAt, Levels, Doc
<1>2. d.status \in UnderReview => from = d.level
    BY DEF Stage
<1>3. a \in {"approve", "reject", "forward", "return_for_correction", "review"}
          => d.status \in UnderReview
    BY DEF Accepts, Resolves, CanApprove, CanForward, UnderReview
<1>4. CASE a = "review"
    BY <1>2, <1>3, <1>4 DEF Decided, NextStatus, NextLevel, Stage
<1>5. CASE a = "approve"
  <2>1. to = "approved"
      BY <1>5 DEF Decided, NextStatus, Stage, UnderReview
  <2>2. l \in HighValue => d.level = "head_office"
      BY <1>1, <1>5, LoanConstants DEF Accepts, Resolves, CanApprove, HighValue
  <2> QED
      BY <1>1, <1>2, <1>3, <1>5, <2>1, <2>2 DEF Lifecycle!Move, Lifecycle!Desks
<1>6. CASE a = "reject"
  <2>1. to = "rejected"
      BY <1>6 DEF Decided, NextStatus, Stage, UnderReview
  <2> QED
      BY <1>1, <1>2, <1>3, <1>6, <2>1 DEF Lifecycle!Move, Lifecycle!Desks
<1>7. CASE a = "forward"
  <2>1. d.level \in {"branch", "district"}
      BY <1>7 DEF Accepts, Resolves, CanForward
  <2>2. to = IF d.level = "branch" THEN "district" ELSE "head_office"
      BY <1>7 DEF Decided, NextStatus, NextLevel, Stage, UnderReview
  <2> QED
      BY <1>2, <1>3, <1>7, <2>1, <2>2 DEF Lifecycle!Move
<1>8. CASE a = "return_for_correction"
  <2>1. to = "branch"
      BY <1>8 DEF Decided, NextStatus, NextLevel, Stage, UnderReview
  <2> QED
      BY <1>1, <1>2, <1>3, <1>8, <2>1 DEF Lifecycle!Move, Lifecycle!Desks
<1>9. CASE a = "disburse"
  <2>1. d.status = "approved" /\ from = "approved" /\ to = "disbursed"
      BY <1>9 DEF Accepts, Resolves, Decided, NextStatus, Stage, UnderReview
  <2> QED
      BY <2>1 DEF Lifecycle!Move
<1>10. CASE a = "close"
  <2>1. from \in {"disbursed", "rejected"} /\ to = "closed"
      BY <1>10 DEF Accepts, Resolves, Decided, NextStatus, Stage, UnderReview
  <2> QED
      BY <2>1 DEF Lifecycle!Move
<1> QED
    BY <1>4, <1>5, <1>6, <1>7, <1>8, <1>9, <1>10 DEF Actions

\* The member's request creates the document: before it there is none, and no staff
\* request holds one.
UnbornInv ==
    /\ \A l \in Loans : submission[l] = "none" => loan[l] = NoDoc
    /\ \A r \in Jobs : submission[reqs[r].loan] # "none"

LifecycleInv == AuthorityInv /\ UnbornInv

FreshStep ==
    \A l \in Loans \ stale' :
        \/ Stage(loan'[l]) = Stage(loan[l])
        \/ Lifecycle!Move(l, Stage(loan[l]), Stage(loan'[l]))

LEMMA LifecycleInit == Init => LifecycleInv
  BY AuthorityInit DEF Init, LifecycleInv, UnbornInv, Jobs

LEMMA LifecycleStep == LifecycleInv /\ [Next]_vars => LifecycleInv'
<1> SUFFICES ASSUME LifecycleInv, [Next]_vars PROVE UnbornInv'
    BY AuthorityStep DEF LifecycleInv
<1> USE DEF UnbornInv, Jobs
<1>0. TypeOK /\ UnbornInv
    BY DEF LifecycleInv, AuthorityInv
<1>1. ASSUME NEW l \in Loans, NEW assigned \in BOOLEAN, CreateLoan(l, assigned)
      PROVE  UnbornInv'
    BY <1>0, <1>1 DEF CreateLoan, TypeOK
<1>2. ASSUME NEW r \in Requests, NEW s \in Staff, NEW l \in Loans, NEW a \in Actions,
             NEW given \in SUBSET Reasons, Load(r, s, l, a, given)
      PROVE  UnbornInv'
  <2>1. submission[l] # "none"
      BY <1>0, <1>2 DEF Load
  <2> QED
      BY <1>0, <1>2, <2>1 DEF Load, TypeOK
<1>3. ASSUME NEW r \in Requests, Save(r)
      PROVE  UnbornInv'
  <2>1. reqs[r] # Idle /\ reqs[r] \in Request /\ reqs[r].loan \in Loans
      BY <1>0, <1>3 DEF Save, Idle, TypeOK, Request
  <2>2. \A o \in Requests : reqs'[o] = reqs[o] \/ (o = r /\ reqs'[o].loan = reqs[o].loan)
      BY <1>0, <1>3, <2>1 DEF Save, TypeOK, Request
  <2> QED
      BY <1>0, <1>3, <2>1, <2>2 DEF Save, TypeOK
<1>4. CASE Bystander
  <2>1. /\ UNCHANGED loan
        /\ \A o \in Requests : reqs'[o] = Idle \/ SameJob(reqs[o], reqs'[o])
      BY <1>0, <1>4, BystanderFrame
  <2>2. \A l \in Loans : submission[l] = "none" <=> submission'[l] = "none"
    <3>1. CASE \E l \in Loans : SubmissionStep(l) \/ FailSubmission(l)
        BY <1>0, <3>1 DEF SubmissionStep, FailSubmission, StoreDocuments, RecordSubmission,
                          NotifySubmission, AuditSubmission, TypeOK
    <3>2. CASE \E r \in Requests : \/ WriteHistory(r) \/ WriteActivity(r) \/ Notify(r)
                                  \/ Audit(r) \/ Fail(r)
        BY <3>2 DEF WriteHistory, WriteActivity, Notify, Audit, Fail
    <3> QED
        BY <1>4, <3>1, <3>2 DEF Bystander
  <2>3. \A r \in Jobs : reqs[r].loan \in Loans
      BY <1>0 DEF TypeOK, Request
  <2> QED
      BY <1>0, <2>1, <2>2, <2>3 DEF SameJob
<1>5. CASE UNCHANGED vars
    BY <1>0, <1>5 DEF vars
<1> QED
    BY <1>1, <1>2, <1>3, <1>4, <1>5, StepKinds

\* Every step moves the loans it saved from an up-to-date snapshot along the lifecycle.
LEMMA FreshMoves == LifecycleInv /\ [Next]_vars => FreshStep
<1> SUFFICES ASSUME LifecycleInv, [Next]_vars,
                    NEW l \in Loans, l \notin stale'
             PROVE  \/ Stage(loan'[l]) = Stage(loan[l])
                    \/ Lifecycle!Move(l, Stage(loan[l]), Stage(loan'[l]))
    BY DEF FreshStep
<1>0. TypeOK /\ UnbornInv
    BY DEF LifecycleInv, AuthorityInv
<1>1. ASSUME NEW o \in Loans, NEW assigned \in BOOLEAN, CreateLoan(o, assigned)
      PROVE  \/ Stage(loan'[l]) = Stage(loan[l])
             \/ Lifecycle!Move(l, Stage(loan[l]), Stage(loan'[l]))
  <2>1. l = o => Stage(loan[l]) = "draft" /\ Stage(loan'[l]) = "branch"
      BY <1>0, <1>1 DEF CreateLoan, UnbornInv, NoDoc, Stage, UnderReview, TypeOK
  <2>2. l # o => loan'[l] = loan[l]
      BY <1>0, <1>1 DEF CreateLoan, TypeOK
  <2> QED
      BY <2>1, <2>2 DEF Lifecycle!Move
<1>2. ASSUME NEW r \in Requests, Save(r)
      PROVE  \/ Stage(loan'[l]) = Stage(loan[l])
             \/ Lifecycle!Move(l, Stage(loan[l]), Stage(loan'[l]))
  <2> DEFINE q == reqs[r]
  <2>1. r \in Jobs /\ q \in Request
      BY <1>0, <1>2 DEF Save, Jobs, Idle, TypeOK
  <2>2. CASE l = q.loan
    <3>1. q.seen = loan[l]
        BY <1>2, <2>2 DEF Save
    <3>2. loan'[l] = q.next
        BY <1>0, <1>2, <2>1, <2>2, <3>1, FreshMerge DEF Save, TypeOK, Request
    <3>3. LegalJob(r)
        BY <2>1 DEF LifecycleInv, AuthorityInv
    <3>4. PICK given \in SUBSET Reasons : q.next = Decided(q.seen, q.action, given)
        BY <3>3 DEF LegalJob
    <3> QED
        BY <2>1, <2>2, <3>1, <3>2, <3>3, <3>4, LegalDecisionMoves DEF LegalJob, Request
  <2>3. CASE l # q.loan
      BY <1>0, <1>2, <2>3 DEF Save, TypeOK
  <2> QED
      BY <2>2, <2>3
<1>3. CASE UNCHANGED loan
    BY <1>3
<1>4. (\E r \in Requests, s \in Staff, o \in Loans, a \in Actions, given \in SUBSET Reasons :
            Load(r, s, o, a, given)) => UNCHANGED loan
    BY DEF Load
<1>5. Bystander => UNCHANGED loan
    BY <1>0, BystanderFrame
<1>6. UNCHANGED vars => UNCHANGED loan
    BY DEF vars
<1> QED
    BY <1>1, <1>2, <1>3, <1>4, <1>5, <1>6, StepKinds

\* A loan leaves the lifecycle only through a save made from an out-of-date snapshot.
THEOREM FreshLoansSafe == Spec => FreshLoansFollowLifecycle
<1>1. Spec => []LifecycleInv
    BY LifecycleInit, LifecycleStep, PTL DEF Spec
<1>2. LifecycleInv /\ [Next]_vars => [FreshStep]_vars
    BY FreshMoves
<1>3. Spec => [][FreshStep]_vars
    BY <1>1, <1>2, PTL DEF Spec
<1> QED
    BY <1>3 DEF FreshLoansFollowLifecycle, FreshStep

-----------------------------------------------------------------------------
(* One request at a time: the service implements the lifecycle.             *)

\* With a single slot nothing runs between a request's read and its save.
SerialInv ==
    /\ LifecycleInv
    /\ stale = {}
    /\ \A r \in Jobs : reqs[r].phase = "loaded" => reqs[r].seen = loan[reqs[r].loan]

OneAtATime == \A r1, r2 \in Requests : r1 = r2

LEMMA SerialInit == Init => SerialInv
  BY LifecycleInit DEF Init, SerialInv, Jobs

LEMMA SerialStep ==
    ASSUME OneAtATime
    PROVE  SerialInv /\ [Next]_vars => SerialInv'
<1> SUFFICES ASSUME SerialInv, [Next]_vars
             PROVE  /\ stale' = {}
                    /\ \A r \in Jobs' : reqs'[r].phase = "loaded"
                                          => reqs'[r].seen = loan'[reqs'[r].loan]
    BY LifecycleStep DEF SerialInv
<1> USE DEF SerialInv, Jobs
<1>0. TypeOK /\ UnbornInv
    BY DEF LifecycleInv, AuthorityInv
<1>1. ASSUME NEW l \in Loans, NEW assigned \in BOOLEAN, CreateLoan(l, assigned)
      PROVE  /\ stale' = {}
             /\ \A r \in Jobs' : reqs'[r].phase = "loaded"
                                   => reqs'[r].seen = loan'[reqs'[r].loan]
  <2>1. \A r \in Jobs : reqs[r].loan # l
      BY <1>0, <1>1 DEF CreateLoan, UnbornInv
  <2> QED
      BY <1>0, <1>1, <2>1 DEF CreateLoan, TypeOK
<1>2. ASSUME NEW r \in Requests, NEW s \in Staff, NEW l \in Loans, NEW a \in Actions,
             NEW given \in SUBSET Reasons, Load(r, s, l, a, given)
      PROVE  /\ stale' = {}
             /\ \A o \in Jobs' : reqs'[o].phase = "loaded"
                                   => reqs'[o].seen = loan'[reqs'[o].loan]
    BY <1>0, <1>2 DEF Load, TypeOK
<1>3. ASSUME NEW r \in Requests, Save(r)
      PROVE  /\ stale' = {}
             /\ \A o \in Jobs' : reqs'[o].phase = "loaded"
                                   => reqs'[o].seen = loan'[reqs'[o].loan]
  <2>1. r \in Jobs /\ reqs[r].phase = "loaded" /\ reqs[r] \in Request
      BY <1>0, <1>3 DEF Save, Idle, TypeOK
  <2>2. stale' = {}
      BY <1>3, <2>1 DEF Save
  <2>3. reqs'[r].phase = "saved"
      BY <1>0, <1>3, <2>1 DEF Save, TypeOK, Request
  <2> QED
      BY <2>2, <2>3 DEF OneAtATime
<1>4. CASE Bystander
  <2>1. /\ UNCHANGED <<loan, stale>>
        /\ \A o \in Requests : reqs'[o] = Idle \/ SameJob(reqs[o], reqs'[o])
      BY <1>0, <1>4, BystanderFrame
  <2>2. \A o \in Jobs' : reqs'[o].phase = "loaded" => reqs[o].phase = "loaded"
    <3>1. CASE \E l \in Loans : SubmissionStep(l) \/ FailSubmission(l)
        BY <3>1 DEF SubmissionStep, FailSubmission, StoreDocuments, RecordSubmission,
                    NotifySubmission, AuditSubmission
    <3>2. ASSUME NEW r \in Requests,
                 WriteHistory(r) \/ WriteActivity(r) \/ Notify(r) \/ Audit(r) \/ Fail(r)
          PROVE  \A o \in Jobs' : reqs'[o].phase = "loaded" => reqs[o].phase = "loaded"
      <4>1. \A o \in Requests : o = r
          BY DEF OneAtATime
      <4>2. reqs[r] \in Request \cup {Idle}
          BY <1>0 DEF TypeOK
      <4>3. reqs'[r] = Idle \/ reqs'[r].phase # "loaded"
          BY <1>0, <3>2, <4>2 DEF WriteHistory, WriteActivity, Notify, Audit, Fail, TypeOK,
                                  Request, Idle
      <4> QED
          BY <4>1, <4>3
    <3> QED
        BY <1>4, <3>1, <3>2 DEF Bystander
  <2> QED
      BY <2>1, <2>2 DEF SameJob
<1>5. CASE UNCHANGED vars
    BY <1>5 DEF vars
<1> QED
    BY <1>1, <1>2, <1>3, <1>4, <1>5, StepKinds

\* A step that moves at most one loan, along the lifecycle, is a lifecycle step.
LEMMA MoveIsLifecycleStep ==
    ASSUME NEW l \in Loans, TypeOK, TypeOK',
           \A o \in Loans \ {l} : loan'[o] = loan[o],
           \/ Stage(loan'[l]) = Stage(loan[l])
           \/ Lifecycle!Move(l, Stage(loan[l]), Stage(loan'[l]))
    PROVE  [Lifecycle!Next]_([o \in Loans |-> Stage(loan[o])])
<1> DEFINE now == [o \in Loans |-> Stage(loan[o])]
           then == [o \in Loans |-> Stage(loan'[o])]
<1>1. then = [now EXCEPT ![l] = Stage(loan'[l])]
    OBVIOUS
<1>2. CASE Stage(loan'[l]) = Stage(loan[l])
  <2>1. then = now
      BY <1>1, <1>2
  <2> QED
      BY <2>1
<1>3. CASE Lifecycle!Move(l, Stage(loan[l]), Stage(loan'[l]))
  <2>1. Stage(loan'[l]) \in Lifecycle!Stages
      BY <1>3 DEF Lifecycle!Move, Lifecycle!Stages, Lifecycle!Desks
  <2>2. Lifecycle!Advance(l)
      BY <1>1, <1>3, <2>1 DEF Lifecycle!Advance
  <2> QED
      BY <2>2 DEF Lifecycle!Next
<1> QED
    BY <1>2, <1>3

\* Handling one staff request at a time, the service implements LoanLifecycle, for any
\* number of loans and any interleaving with the members' own requests.
THEOREM SerialRefinement == ASSUME OneAtATime PROVE Spec => LifecycleSpec
<1>1. Init => Lifecycle!Init
    BY DEF Init, Lifecycle!Init, NoDoc, Stage, UnderReview
<1>2. SerialInv /\ SerialInv' /\ [Next]_vars
        => [Lifecycle!Next]_([l \in Loans |-> Stage(loan[l])])
  <2> SUFFICES ASSUME SerialInv, SerialInv', [Next]_vars
               PROVE  [Lifecycle!Next]_([l \in Loans |-> Stage(loan[l])])
      OBVIOUS
  <2>0. TypeOK /\ TypeOK' /\ LifecycleInv /\ stale' = {}
      BY DEF SerialInv, LifecycleInv, AuthorityInv
  <2>1. CASE UNCHANGED loan
      BY <2>1
  <2>2. ASSUME NEW l \in Loans, \A o \in Loans \ {l} : loan'[o] = loan[o]
        PROVE  [Lifecycle!Next]_([o \in Loans |-> Stage(loan[o])])
    <3>1. FreshStep
        BY <2>0, FreshMoves
    <3> QED
        BY <2>0, <2>2, <3>1, MoveIsLifecycleStep DEF FreshStep
  <2>3. ASSUME NEW l \in Loans, NEW assigned \in BOOLEAN, CreateLoan(l, assigned)
        PROVE  \A o \in Loans \ {l} : loan'[o] = loan[o]
      BY <2>0, <2>3 DEF CreateLoan, TypeOK
  <2>4. ASSUME NEW r \in Requests, Save(r)
        PROVE  /\ reqs[r].loan \in Loans
               /\ \A o \in Loans \ {reqs[r].loan} : loan'[o] = loan[o]
      BY <2>0, <2>4 DEF Save, Idle, TypeOK, Request
  <2>5. (\E r \in Requests, s \in Staff, o \in Loans, a \in Actions, given \in SUBSET Reasons :
            Load(r, s, o, a, given)) => UNCHANGED loan
      BY DEF Load
  <2>6. Bystander \/ UNCHANGED vars => UNCHANGED loan
      BY <2>0, BystanderFrame DEF vars
  <2> QED
      BY <2>1, <2>2, <2>3, <2>4, <2>5, <2>6, StepKinds
<1>3. Spec => []SerialInv
    BY SerialInit, SerialStep, PTL DEF Spec
<1>4. Spec => Lifecycle!Spec
    BY <1>1, <1>2, <1>3, PTL DEF Spec, Lifecycle!Spec
<1> QED
    BY <1>4 DEF LifecycleSpec

-----------------------------------------------------------------------------
(* The trail of a decision is written in order.                             *)

\* Which rows of its decision's trail a request has written follows from its phase.
TrailKnown(r) ==
    LET q == reqs[r]
    IN  /\ q.phase # "loaded" => q.number \in 1..Len(decisions[q.loan])
        /\ q.phase \in {"recorded", "logged", "notified"}
               => q.number \in RecordedDecisions(q.loan)
        /\ q.phase \in {"logged", "notified"} => q.number \in activity[q.loan]
        /\ q.phase = "notified" => q.number \in notified[q.loan]

TrailInv ==
    /\ TypeOK
    /\ \A l \in Loans :
          /\ audited[l] \ {0} \subseteq notified[l]
          /\ notified[l] \ {0} \subseteq activity[l]
          /\ activity[l] \subseteq RecordedDecisions(l)
          /\ RecordedDecisions(l) \subseteq 1..Len(decisions[l])
    /\ \A r \in Jobs : TrailKnown(r)

\* A history row adds its decision to the recorded ones.
LEMMA RecordedAppend ==
    ASSUME NEW l \in Loans, history[l] \in Seq(Nat), NEW n \in Nat,
           history'[l] = Append(history[l], n)
    PROVE  RecordedDecisions(l)' = RecordedDecisions(l) \cup ({n} \ {0})
  BY DEF RecordedDecisions

LEMMA TrailInit == Init => TrailInv
  BY TypeInit DEF Init, TrailInv, Jobs, RecordedDecisions

LEMMA TrailStep == TrailInv /\ [Next]_vars => TrailInv'
<1> SUFFICES ASSUME TrailInv, [Next]_vars PROVE TrailInv'
    OBVIOUS
<1>0. TypeOK /\ TypeOK' /\ \A r \in Jobs : reqs[r] \in Request /\ reqs[r].loan \in Loans
    BY TypeStep DEF TrailInv, TypeOK, Jobs, Request
<1> USE DEF TrailInv, Jobs
<1>1. CASE UNCHANGED <<reqs, decisions, trail>>
    BY <1>0, <1>1 DEF trail, TrailKnown, RecordedDecisions
<1>2. ASSUME NEW l \in Loans, SubmissionStep(l)
      PROVE  TrailInv'
  <2>1. UNCHANGED <<reqs, decisions, activity>>
      BY <1>2 DEF SubmissionStep, StoreDocuments, RecordSubmission, NotifySubmission,
                  AuditSubmission, trail
  <2>2. \A o \in Loans : RecordedDecisions(o)' = RecordedDecisions(o)
    <3>1. CASE RecordSubmission(l)
      <4>1. history'[l] = Append(history[l], 0) /\ history[l] \in Seq(Nat)
          BY <1>0, <3>1 DEF RecordSubmission, TypeOK
      <4>2. RecordedDecisions(l)' = RecordedDecisions(l) \cup ({0} \ {0})
          BY <4>1, RecordedAppend
      <4>3. RecordedDecisions(l)' = RecordedDecisions(l)
          BY <4>2
      <4>4. \A o \in Loans \ {l} : history'[o] = history[o]
          BY <1>0, <3>1 DEF RecordSubmission, TypeOK
      <4>5. \A o \in Loans \ {l} : RecordedDecisions(o)' = RecordedDecisions(o)
          BY <4>4 DEF RecordedDecisions
      <4> QED
          BY <4>3, <4>5
    <3>2. CASE UNCHANGED history
        BY <3>2 DEF RecordedDecisions
    <3> QED
        BY <1>2, <3>1, <3>2 DEF SubmissionStep, StoreDocuments, NotifySubmission,
                                AuditSubmission, trail
  <2>3. \A o \in Loans :
           /\ notified[o] \subseteq notified'[o] /\ notified'[o] \ {0} = notified[o] \ {0}
           /\ audited'[o] \ {0} = audited[o] \ {0}
    <3>1. CASE NotifySubmission(l)
        BY <1>0, <3>1 DEF NotifySubmission, TypeOK
    <3>2. CASE AuditSubmission(l)
        BY <1>0, <3>2 DEF AuditSubmission, TypeOK
    <3>3. CASE StoreDocuments(l) \/ RecordSubmission(l)
        BY <3>3 DEF StoreDocuments, RecordSubmission, trail
    <3> QED
        BY <1>2, <3>1, <3>2, <3>3 DEF SubmissionStep
  <2>4. \A r \in Jobs : TrailKnown(r)'
      BY <1>0, <2>1, <2>2, <2>3 DEF TrailKnown
  <2> QED
      BY <1>0, <2>1, <2>2, <2>3, <2>4
<1>3. ASSUME NEW r \in Requests, NEW s \in Staff, NEW l \in Loans, NEW a \in Actions,
             NEW given \in SUBSET Reasons, Load(r, s, l, a, given)
      PROVE  TrailInv'
  <2>1. /\ UNCHANGED <<decisions, trail>> /\ reqs'[r].phase = "loaded"
        /\ \A o \in Requests \ {r} : reqs'[o] = reqs[o]
      BY <1>0, <1>3 DEF Load, TypeOK
  <2>2. \A o \in Loans : RecordedDecisions(o)' = RecordedDecisions(o)
      BY <2>1 DEF RecordedDecisions, trail
  <2>3. TrailKnown(r)'
      BY <2>1 DEF TrailKnown
  <2>4. ASSUME NEW o \in Jobs', o # r PROVE TrailKnown(o)'
      BY <1>0, <2>1, <2>2, <2>4 DEF TrailKnown, trail
  <2> QED
      BY <1>0, <2>1, <2>2, <2>3, <2>4 DEF trail
<1>4. ASSUME NEW r \in Requests, Save(r)
      PROVE  TrailInv'
  <2> DEFINE l == reqs[r].loan
  <2>1. reqs[r] \in Request /\ l \in Loans
      BY <1>0, <1>4 DEF Save, Idle
  <2>2. /\ UNCHANGED trail
        /\ Len(decisions'[l]) = Len(decisions[l]) + 1
        /\ \A o \in Loans \ {l} : decisions'[o] = decisions[o]
      BY <1>0, <1>4, <2>1 DEF Save, TypeOK
  <2>3. /\ reqs'[r].phase = "saved" /\ reqs'[r].loan = l
        /\ reqs'[r].number = Len(decisions[l]) + 1
        /\ \A o \in Requests \ {r} : reqs'[o] = reqs[o]
      BY <1>0, <1>4, <2>1 DEF Save, TypeOK, Request
  <2>4. \A o \in Loans : Len(decisions[o]) \in Nat
                         /\ 1..Len(decisions[o]) \subseteq 1..Len(decisions'[o])
    <3>1. \A o \in Loans : Len(decisions[o]) \in Nat
        BY <1>0 DEF TypeOK
    <3> QED
        BY <2>1, <2>2, <3>1
  <2>5. \A o \in Loans : RecordedDecisions(o)' = RecordedDecisions(o)
      BY <2>2 DEF RecordedDecisions, trail
  <2>6. TrailKnown(r)'
      BY <2>1, <2>2, <2>3, <2>4 DEF TrailKnown
  <2>7. ASSUME NEW o \in Jobs', o # r PROVE TrailKnown(o)'
    <3>1. o \in Jobs /\ reqs'[o] = reqs[o] /\ reqs[o].loan \in Loans
        BY <1>0, <2>3, <2>7
    <3> QED
        BY <2>2, <2>4, <2>5, <3>1 DEF TrailKnown, trail
  <2> QED
      BY <1>0, <2>2, <2>4, <2>5, <2>6, <2>7 DEF trail
<1>5. ASSUME NEW r \in Requests, WriteHistory(r)
      PROVE  TrailInv'
  <2>1. r \in Jobs /\ reqs[r] \in Request /\ TrailKnown(r) /\ reqs[r].phase = "saved"
      BY <1>0, <1>5 DEF WriteHistory, Idle
  <2>2. PICK l \in Loans, n \in Nat : l = reqs[r].loan /\ n = reqs[r].number
      BY <2>1 DEF Request
  <2>3. /\ UNCHANGED <<decisions, activity, notified, audited>>
        /\ history'[l] = Append(history[l], n) /\ history[l] \in Seq(Nat)
        /\ \A o \in Loans \ {l} : history'[o] = history[o]
        /\ \A o \in Requests \ {r} : reqs'[o] = reqs[o]
      BY <1>0, <1>5, <2>2 DEF WriteHistory, TypeOK
  <2>4. n \in 1..Len(decisions[l]) /\ Len(decisions[l]) \in Nat
      BY <1>0, <2>1, <2>2 DEF TrailKnown, TypeOK
  <2>5. RecordedDecisions(l)' = RecordedDecisions(l) \cup {n}
    <3>1. n # 0
        BY <2>4
    <3> QED
        BY <2>3, <3>1, RecordedAppend
  <2>6. \A o \in Loans \ {l} : RecordedDecisions(o)' = RecordedDecisions(o)
      BY <2>3 DEF RecordedDecisions
  <2>7. reqs'[r].phase = "recorded" /\ reqs'[r].loan = l /\ reqs'[r].number = n
      BY <1>0, <1>5, <2>1, <2>2 DEF WriteHistory, TypeOK, Request
  <2>8. TrailKnown(r)'
      BY <2>3, <2>4, <2>5, <2>7 DEF TrailKnown
  <2>9. ASSUME NEW o \in Jobs', o # r PROVE TrailKnown(o)'
    <3>1. o \in Jobs /\ reqs'[o] = reqs[o] /\ reqs[o].loan \in Loans
        BY <1>0, <2>3, <2>9
    <3> QED
        BY <2>3, <2>5, <2>6, <3>1 DEF TrailKnown
  <2> QED
      BY <1>0, <2>3, <2>4, <2>5, <2>6, <2>8, <2>9
<1>6. ASSUME NEW r \in Requests, WriteActivity(r) \/ Notify(r) \/ Audit(r) \/ Fail(r)
      PROVE  TrailInv'
  <2>1. r \in Jobs /\ reqs[r] \in Request /\ TrailKnown(r)
      BY <1>0, <1>6 DEF WriteActivity, Notify, Audit, Fail, Idle
  <2>2. PICK l \in Loans, n \in Nat : l = reqs[r].loan /\ n = reqs[r].number
      BY <2>1 DEF Request
  <2>3. /\ UNCHANGED <<decisions, history>>
        /\ \A o \in Requests \ {r} : reqs'[o] = reqs[o]
        /\ \A o \in Loans : RecordedDecisions(o)' = RecordedDecisions(o)
      BY <1>0, <1>6 DEF WriteActivity, Notify, Audit, Fail, trail, TypeOK, RecordedDecisions
  <2>4. /\ \A o \in Loans : activity[o] \subseteq activity'[o] /\ notified[o] \subseteq notified'[o]
        /\ activity'[l] \subseteq activity[l] \cup {n} /\ notified'[l] \subseteq notified[l] \cup {n}
        /\ audited'[l] \subseteq audited[l] \cup {n}
        /\ \A o \in Loans \ {l} : /\ activity'[o] = activity[o] /\ notified'[o] = notified[o]
                                /\ audited'[o] = audited[o]
    <3>1. CASE WriteActivity(r)
        BY <1>0, <2>2, <3>1 DEF WriteActivity, TypeOK
    <3>2. CASE Notify(r)
        BY <1>0, <2>2, <3>2 DEF Notify, TypeOK
    <3>3. CASE Audit(r)
        BY <1>0, <2>2, <3>3 DEF Audit, TypeOK
    <3>4. CASE Fail(r)
        BY <3>4 DEF Fail, trail
    <3> QED
        BY <1>6, <3>1, <3>2, <3>3, <3>4
  <2>5. TrailKnown(r)' \/ reqs'[r] = Idle
    <3>1. CASE WriteActivity(r)
      <4>1. /\ reqs'[r].phase = "logged" /\ reqs'[r].loan = l /\ reqs'[r].number = n
            /\ n \in activity'[l]
          BY <1>0, <2>1, <2>2, <3>1 DEF WriteActivity, TypeOK, Request
      <4> QED
          BY <2>1, <2>2, <2>3, <3>1, <4>1 DEF TrailKnown, WriteActivity
    <3>2. CASE Notify(r)
      <4>1. /\ reqs'[r].phase = "notified" /\ reqs'[r].loan = l /\ reqs'[r].number = n
            /\ n \in notified'[l] /\ UNCHANGED activity
          BY <1>0, <2>1, <2>2, <3>2 DEF Notify, TypeOK, Request
      <4> QED
          BY <2>1, <2>2, <2>3, <3>2, <4>1 DEF TrailKnown, Notify
    <3>3. CASE Audit(r) \/ Fail(r)
        BY <1>0, <3>3 DEF Audit, Fail, TypeOK
    <3> QED
        BY <1>6, <3>1, <3>2, <3>3
  <2>6. ASSUME NEW o \in Jobs', o # r PROVE TrailKnown(o)'
    <3>1. o \in Jobs /\ reqs'[o] = reqs[o] /\ reqs[o].loan \in Loans
        BY <1>0, <2>3, <2>6
    <3> QED
        BY <2>3, <2>4, <3>1 DEF TrailKnown
  <2>7. \A o \in Loans : /\ audited'[o] \ {0} \subseteq notified'[o]
                        /\ notified'[o] \ {0} \subseteq activity'[o]
                        /\ activity'[o] \subseteq RecordedDecisions(o)
    <3>1. CASE WriteActivity(r)
      <4>1. n \in RecordedDecisions(l) /\ UNCHANGED <<notified, audited>>
          BY <2>1, <2>2, <3>1 DEF TrailKnown, WriteActivity
      <4> QED
          BY <2>4, <4>1
    <3>2. CASE Notify(r)
      <4>1. n \in activity[l] /\ UNCHANGED <<activity, audited>>
          BY <2>1, <2>2, <3>2 DEF TrailKnown, Notify
      <4> QED
          BY <2>4, <4>1
    <3>3. CASE Audit(r)
      <4>1. n \in notified[l] /\ UNCHANGED <<activity, notified>>
          BY <2>1, <2>2, <3>3 DEF TrailKnown, Audit
      <4> QED
          BY <2>4, <4>1
    <3>4. CASE Fail(r)
        BY <3>4 DEF Fail, trail
    <3> QED
        BY <1>6, <3>1, <3>2, <3>3, <3>4
  <2> QED
      BY <1>0, <2>3, <2>5, <2>6, <2>7
<1> QED
  <2>1. CASE \E l \in Loans, assigned \in BOOLEAN : CreateLoan(l, assigned)
      BY <1>1, <2>1 DEF CreateLoan
  <2>2. CASE \E l \in Loans : FailSubmission(l)
      BY <1>1, <2>2 DEF FailSubmission
  <2>3. CASE UNCHANGED vars
      BY <1>1, <2>3 DEF vars
  <2> QED
      BY <1>2, <1>3, <1>4, <1>5, <1>6, <2>1, <2>2, <2>3 DEF Next, RequestStep

\* Whatever is in flight and whatever throws, no audit row without the notification,
\* no notification without the activity row, none without the history row, and no
\* history row of a decision that was not saved.
THEOREM TrailSafe == Spec => []TrailInOrder
<1>1. Spec => []TrailInv
    BY TrailInit, TrailStep, PTL DEF Spec
<1>2. TrailInv => TrailInOrder
    BY DEF TrailInv, TrailInOrder, HighValue
<1> QED
    BY <1>1, <1>2, PTL
=============================================================================
