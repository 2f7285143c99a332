---------------------------- MODULE SchoolBilling ----------------------------
(***************************************************************************)
(* The school console's books: StudentsService, FeePlansService,           *)
(* InvoicesService and SchoolPaymentsService.                              *)
(*                                                                         *)
(* The four services keep their records in arrays of the server process,   *)
(* newest first, seeded with fixtures.  Their methods never await, so each *)
(* is one atomic step; a restart of the server puts the fixtures back.     *)
(***************************************************************************)
EXTENDS Integers, Sequences, FiniteSets, Functions

CONSTANTS
    Schools, StudentIds, Grades, Years,
    ThisYear,           \* the calendar year receipts are numbered in
    Channels,           \* channels a payment can come through
    SeedStudents, SeedPlans, SeedInvoices, SeedReceipts,   \* the fixtures
    Workloads           \* bound: what the schools and payers do in one behaviour

VARIABLES
    students,   \* StudentsService.students
    plans,      \* FeePlansService.plans
    invoices,   \* InvoicesService.invoices
    receipts,   \* SchoolPaymentsService.payments
    workload    \* the workload of the behaviour, which never changes

books == <<students, plans, invoices, receipts>>
vars == <<books, workload>>

-----------------------------------------------------------------------------
None == "none"      \* an optional field of a payload that was not sent
Terms == {"Term 1", "Term 2", "Term 3"}
DueDates == {"2026-09-05", "2026-09-12", "2026-12-05"}

Number == [year: Years, seq: Nat]
Student == [school: Schools, student: StudentIds, grade: Grades]
\* The items of a plan are any numbers, and their total can be zero or less.
Plan == [school: Schools, year: Years, term: Terms, grade: Grades,
         active: BOOLEAN, total: Int]
Invoice == [no: Number, school: Schools, student: StudentIds, total: Int,
            paid: Int, balance: Int, status: {"open", "partially_paid", "paid"},
            due: DueDates]
Receipt == [no: Number, school: Schools, student: StudentIds, amount: Int,
            matched: BOOLEAN]
Payload == [school: Schools, year: Years \cup {None}, term: Terms \cup {None},
            grade: Grades \cup {None}]

\* The lists that are imported, the plans created, the batches generated and the
\* amounts paid, and how many students, plans and receipts there are when it stops.
Workload == [classes: SUBSET Seq([student: StudentIds, grade: Grades]), newPlans: SUBSET Plan,
             payloads: SUBSET Payload, amounts: SUBSET Int, students: Nat, plans: Nat, receipts: Nat]

ASSUME SchoolConstants ==
    /\ ThisYear \in Years
    /\ "2026" \in Years
    /\ Workloads \subseteq Workload
    /\ SeedStudents \in Seq(Student)
    /\ SeedPlans \in Seq(Plan)
    /\ SeedInvoices \in Seq(Invoice)
    /\ SeedReceipts \in Seq(Receipt)

\* The fixtures bill nobody twice for a due date, no two have a number in common,
\* and what is paid and what is open of one are its total.
ASSUME FixtureConstants ==
    /\ \A i, j \in 1..Len(SeedInvoices) :
          /\ SeedInvoices[i].no = SeedInvoices[j].no => i = j
          /\ /\ SeedInvoices[i].school = SeedInvoices[j].school
             /\ SeedInvoices[i].student = SeedInvoices[j].student
             /\ SeedInvoices[i].due = SeedInvoices[j].due
             => i = j
    /\ \A i \in 1..Len(SeedInvoices) :
          /\ SeedInvoices[i].paid + SeedInvoices[i].balance = SeedInvoices[i].total
          /\ SeedInvoices[i].status = "paid" <=> SeedInvoices[i].balance = 0
          /\ SeedInvoices[i].balance >= 0

Least(a, b) == IF a <= b THEN a ELSE b
Given(field, value) == field = None \/ field = value

\* array.find: the index of the first element of s that passes, 0 if none does.
Find(s, Passes(_)) ==
    LET hits == {i \in 1..Len(s) : Passes(s[i])}
    IN  IF hits = {} THEN 0 ELSE CHOOSE i \in hits : \A j \in hits : i <= j

ResolveDueDate(term) == IF term = "Term 2" THEN "2026-12-05" ELSE "2026-09-05"

\* findApplicablePlan for a student of grade g: generateBatch puts the student's
\* grade in the payload's place.
PlanFor(p, g) ==
    Find(plans, LAMBDA f : /\ f.school = p.school
                           /\ Given(p.year, f.year)
                           /\ Given(p.term, f.term)
                           /\ f.grade = g
                           /\ f.active)

-----------------------------------------------------------------------------
Init ==
    /\ students = SeedStudents
    /\ plans = SeedPlans
    /\ invoices = SeedInvoices
    /\ receipts = SeedReceipts
    /\ workload \in Workloads

\* importStudents, and create for a list of one: nothing looks for a student id
\* that is already there, in this school or in another.
ImportStudents(school, class) ==
    LET n == Len(class)
    IN  /\ Len(students) + n <= workload.students
        /\ students' = [i \in 1..n |-> [school |-> school,
                                        student |-> class[n + 1 - i].student,
                                        grade |-> class[n + 1 - i].grade]] \o students
        /\ UNCHANGED <<plans, invoices, receipts, workload>>

CreateFeePlan(plan) ==
    /\ Len(plans) < workload.plans
    /\ plans' = <<plan>> \o plans
    /\ UNCHANGED <<students, invoices, receipts, workload>>

Scoped(p, i) ==
    /\ students[i].school = p.school
    /\ Given(p.grade, students[i].grade)
    /\ PlanFor(p, students[i].grade) # 0

Invoiced(p, student) ==
    \E j \in 1..Len(invoices) : /\ invoices[j].school = p.school
                                /\ invoices[j].student = student
                                /\ invoices[j].due = ResolveDueDate(p.term)

\* The numbers of S up to n, in the order the batch's loop comes to them.
InOrder(S, n) ==
    LET UpTo[i \in 0..n] == IF i = 0 THEN << >>
                            ELSE IF i \in S THEN Append(UpTo[i - 1], i) ELSE UpTo[i - 1]
    IN  UpTo[n]

\* No student before i in the batch has the student id of i.
First(p, i) == ~\E j \in 1..(i - 1) : /\ Scoped(p, j)
                                      /\ students[j].student = students[i].student

\* The positions of the students who are to be billed: an id met a second time finds
\* the invoice its first entry was given.
Unbilled(p) == {i \in 1..Len(students) : /\ Scoped(p, i)
                                         /\ ~Invoiced(p, students[i].student)
                                         /\ First(p, i)}

\* Mutation of Billable: the batch does not look for an existing invoice.
BillableTwice(p) == InOrder({i \in 1..Len(students) : Scoped(p, i)}, Len(students))

\* Mutation of Billable: the batch ends at the first student without a plan.
BillableUntilMissing(p) ==
    LET Planless(i) == /\ students[i].school = p.school
                       /\ Given(p.grade, students[i].grade)
                       /\ PlanFor(p, students[i].grade) = 0
    IN  InOrder({i \in Unbilled(p) : \A j \in 1..i : ~Planless(j)}, Len(students))

Billable(p) == InOrder(Unbilled(p), Len(students))

\* The k-th invoice of the batch, for the student at position i.
InvoiceFor(p, i, k) ==
    LET plan == plans[PlanFor(p, students[i].grade)]
    IN  [no |-> [year |-> IF p.year = None THEN "2026" ELSE p.year,
                 seq |-> Len(invoices) + k],
         school |-> p.school, student |-> students[i].student,
         total |-> plan.total, paid |-> 0, balance |-> plan.total,
         status |-> "open", due |-> ResolveDueDate(p.term)]

GenerateBatch(p) ==
    LET billed == Billable(p)
        n == Len(billed)
    IN  /\ n > 0
        /\ invoices' = [k \in 1..n |-> InvoiceFor(p, billed[n + 1 - k], n + 1 - k)]
                       \o invoices
        /\ UNCHANGED <<students, plans, receipts, workload>>

-----------------------------------------------------------------------------
\* applyPayment's appliedAmount.
Applied(invoice, amount) ==
    Least(invoice.balance, IF amount < 0 THEN 0 ELSE amount)

\* Mutation of Paid: the console's label instead of the stored status.
PaidLabelled(invoice, amount) ==
    LET paid == invoice.paid + Applied(invoice, amount)
    IN  [invoice EXCEPT !.paid = paid, !.balance = invoice.total - paid,
                        !.status = IF invoice.total = paid THEN "paid" ELSE "partial"]

\* applyPayment on one invoice.
Paid(invoice, amount) ==
    LET paid == invoice.paid + Applied(invoice, amount)
        balance == IF invoice.total > paid THEN invoice.total - paid ELSE 0
    IN  [invoice EXCEPT !.paid = paid, !.balance = balance,
                        !.status = IF balance = 0 THEN "paid"
                                   ELSE IF paid > 0 THEN "partially_paid" ELSE "open"]

\* Mutation of Booked: the receipt shows what was sent, not what was applied.
BookedInFull(invoice, amount, channel) ==
    [no |-> [year |-> ThisYear, seq |-> Len(receipts) + 1],
     school |-> invoice.school, student |-> invoice.student,
     amount |-> IF amount < 0 THEN 0 ELSE amount, matched |-> channel = "branch"]

\* The receipt collect writes.
Booked(invoice, amount, channel) ==
    [no |-> [year |-> ThisYear, seq |-> Len(receipts) + 1],
     school |-> invoice.school, student |-> invoice.student,
     amount |-> Applied(invoice, amount), matched |-> channel = "branch"]

\* collect: the payment goes to the first invoice with that number.  An unknown
\* number changes nothing and is not a step.
Collect(no, amount, channel) ==
    LET i == Find(invoices, LAMBDA v : v.no = no)
    IN  /\ Len(receipts) < workload.receipts
        /\ i # 0
        /\ invoices' = [invoices EXCEPT ![i] = Paid(@, amount)]
        /\ receipts' = <<Booked(invoices[i], amount, channel)>> \o receipts
        /\ UNCHANGED <<students, plans, workload>>

\* Mutation of OpenInvoice: it takes the student's newest invoice, paid or not.
NewestInvoice(student) == Find(invoices, LAMBDA v : v.student = student)

\* The invoice recordMemberPayment picks: `list` is asked for the student in any
\* school, and the schoolName it was given is not looked at.
OpenInvoice(student) ==
    Find(invoices, LAMBDA v : /\ v.student = student
                              /\ v.status \in {"open", "partially_paid"})

RecordMemberPayment(school, student, amount, channel) ==
    LET i == OpenInvoice(student)
    IN  IF i = 0 THEN UNCHANGED vars
                 ELSE Collect(invoices[i].no, amount, channel)

\* The server stops and starts again.
Restart ==
    /\ students' = SeedStudents
    /\ plans' = SeedPlans
    /\ invoices' = SeedInvoices
    /\ receipts' = SeedReceipts
    /\ UNCHANGED workload

NumbersOf(s) == {s[i].no : i \in 1..Len(s)}

Next ==
    \/ \E s \in Schools, c \in workload.classes : ImportStudents(s, c)
    \/ \E f \in workload.newPlans : CreateFeePlan(f)
    \/ \E p \in workload.payloads : GenerateBatch(p)
    \/ \E no \in NumbersOf(invoices), amount \in workload.amounts, c \in Channels :
          Collect(no, amount, c)
    \/ \E s \in Schools, d \in StudentIds, amount \in workload.amounts, c \in Channels :
          RecordMemberPayment(s, d, amount, c)
    \/ Restart

Spec == Init /\ [][Next]_vars

-----------------------------------------------------------------------------
TypeOK ==
    /\ students \in Seq(Student)
    /\ plans \in Seq(Plan)
    /\ invoices \in Seq(Invoice)
    /\ receipts \in Seq(Receipt)
    /\ workload \in Workloads

\* Where s has the records of a student of a school.
Of(school, student, s) ==
    {i \in 1..Len(s) : s[i].school = school /\ s[i].student = student}

PaidBy(school, student, s) ==
    SumFunctionOnSet([i \in 1..Len(s) |-> s[i].paid], Of(school, student, s))

ReceiptedTo(school, student, s) ==
    SumFunctionOnSet([i \in 1..Len(s) |-> s[i].amount], Of(school, student, s))

\* The two services keep separate arrays: since the server started, what a
\* student's receipts add up to is what the student's invoices were reduced by
\* (collect books what applyPayment applied, not what the payer sent), and no
\* payment, partial, repeated or excessive, lets paid and balance drift apart.
ReceiptsMatchInvoices ==
    /\ \A i \in 1..Len(invoices) : invoices[i].paid + invoices[i].balance = invoices[i].total
    /\ \A s \in Schools, d \in StudentIds :
          ReceiptedTo(s, d, receipts) - ReceiptedTo(s, d, SeedReceipts)
              = PaidBy(s, d, invoices) - PaidBy(s, d, SeedInvoices)

\* generateBatch never bills a student of a school twice for one due date,
\* whatever batches overlap and however often the student was imported.
OneInvoicePerDueDate ==
    \A i, j \in 1..Len(invoices) :
        /\ invoices[i].school = invoices[j].school
        /\ invoices[i].student = invoices[j].student
        /\ invoices[i].due = invoices[j].due
        => i = j

\* A fixture is numbered past the end of its array (INV-2026-0101 is the third
\* invoice); until the array grows to that number, length + 1 is a fresh one.
BelowFixtureNumbers ==
    \A i \in 1..Len(SeedInvoices) :
        SeedInvoices[i].no.seq > Len(SeedInvoices) => Len(invoices) < SeedInvoices[i].no.seq

\* When a batch returns, every student in its scope whose grade has an active
\* plan has an invoice for the due date: a grade without a plan, or a student
\* billed before, costs nobody else an invoice.
BatchBillsTheScope ==
    [][\A p \in workload.payloads : GenerateBatch(p) =>
          \A i \in 1..Len(students) :
              Scoped(p, i) => Invoiced(p, students[i].student)']_vars

OwedBy(student) ==
    SumFunctionOnSet([i \in 1..Len(invoices) |-> invoices[i].balance],
                     {i \in 1..Len(invoices) : invoices[i].student = student})

\* The payment goes to an invoice of a plan that charges nothing, or less than
\* nothing, and settles it: it takes nothing of what the student owes.
SettlesForNothing(student) ==
    LET i == OpenInvoice(student)
    IN  i # 0 /\ invoices[i].total <= 0 /\ invoices'[i].status = "paid"

\* A member's payment for a student who owes anything reduces what the student
\* owes, also when other invoices of the student are already settled; unless the
\* first open invoice charges nothing: that one is settled, which can be once only,
\* and the next payment gets past it (recordMemberPayment, applyPayment).
MemberPaymentReducesDebt ==
    [][\A s \in Schools, d \in StudentIds, amount \in workload.amounts, c \in Channels :
          /\ RecordMemberPayment(s, d, amount, c)
          /\ amount > 0
          /\ BelowFixtureNumbers
          /\ OwedBy(d) > 0
          => OwedBy(d)' < OwedBy(d) \/ SettlesForNothing(d)]_vars

\* "strict `schoolId` scoping on school-domain records": a payment made to a
\* school for one of its students changes no invoice of another school.
PaymentStaysInSchool ==
    [][\A s \in Schools, d \in StudentIds, amount \in workload.amounts, c \in Channels :
          /\ RecordMemberPayment(s, d, amount, c)
          /\ \E i \in 1..Len(students) : students[i].school = s /\ students[i].student = d
          => \A i \in 1..Len(invoices) :
                invoices[i].school # s => invoices'[i] = invoices[i]]_vars
=============================================================================
