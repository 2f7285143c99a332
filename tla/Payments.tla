------------------------------ MODULE Payments ------------------------------
(***************************************************************************)
(* Member payments: PaymentsService.createSchoolPayment and                *)
(* createQrPayment, and the school console's books the school payments are *)
(* recorded in (SchoolBilling).                                            *)
(*                                                                         *)
(* A payment reads the member (Onboarding) and the lock (SelfService) in   *)
(* two parallel queries, debits the account with one conditional update,   *)
(* then writes its rows one await at a time.  There is no transaction      *)
(* around them: a write that throws after the debit ends the payment and   *)
(* nothing gives the money back.                                           *)
(***************************************************************************)
EXTENDS SelfService, Integers, Functions

CONSTANTS
    Accounts,       \* the customer's savings accounts
    Opening,        \* Opening[a]: the balance to start with
    Requests,       \* payments the server can have in flight at once
    Amounts,        \* amounts of a payment
    MaxDebits,      \* bound: no payment is admitted after this many debits
    MaxFailures,    \* bound: throwing writes and restarts
    MaxTime         \* bound: milliseconds the clock can advance

\* The school console's constants.
CONSTANTS
    Schools, StudentIds, Grades, Years, ThisYear, Channels,
    SeedStudents, SeedPlans, SeedInvoices, SeedReceipts, Workloads

ASSUME PaymentConstants ==
    /\ Opening \in [Accounts -> Nat]
    /\ MaxDebits \in Nat /\ MaxFailures \in Nat /\ MaxTime \in Nat
    /\ Amounts \subseteq Nat \ {0}

VARIABLES
    balance,    \* savings_accounts: balance[a]
    refs,       \* transactionReference values in the transactions collection
    reqs,       \* payments in flight
    debits,     \* ghost: the debits, in the order they landed
    rows,       \* rows[n]: the records written so far for the n-th debit
    now,        \* Date.now()
    failures,
    students, plans, invoices, receipts, workload   \* the school console

Billing == INSTANCE SchoolBilling

ASSUME BookConstants ==
    /\ ThisYear \in Years
    /\ SeedInvoices \in Seq(Billing!Invoice)
    /\ SeedReceipts \in Seq(Billing!Receipt)

money == <<balance, debits>>
books == <<students, plans, invoices, receipts, workload>>
paymentVars == <<balance, refs, reqs, debits, rows, now, failures, books>>

-----------------------------------------------------------------------------
Kinds == {"school", "qr"}
Rows == {"transaction", "school_payment", "receipt", "notification", "audit"}
Prefix == [k \in Kinds |-> IF k = "qr" THEN "QRP" ELSE "TXN"]

Order == [kind: Kinds, account: Accounts, amount: Amounts,
          school: Schools, student: StudentIds]

\* A payment in flight: `phase` names the last step that returned.
Phases == {"reads_member", "reads_lock", "admitted", "debited", "transacted", "stored",
           "collected", "notified"}
Reference == {Prefix[k] : k \in Kinds} \X Nat
Request == [phase: Phases, order: Order, number: Nat, ref: Reference]
Idle == [phase |-> "idle"]

PaymentInit ==
    /\ balance = Opening
    /\ refs = {}
    /\ reqs = [r \in Requests |-> Idle]
    /\ debits = << >>
    /\ rows = << >>
    /\ now = 0
    /\ failures = 0
    /\ Billing!Init

-----------------------------------------------------------------------------
\* The clock is read as a debit returns: time matters to the payments before it.
Tick ==
    /\ now < MaxTime /\ \E r \in Requests : reqs[r].phase = "admitted"
    /\ now' = now + 1
    /\ UNCHANGED <<money, refs, reqs, rows, failures, books>>

\* Mutation of FirstPaymentRead: a QR payment does not look at the lock.
FirstReadQrAnyway(r, order, first) ==
    /\ reqs[r] = Idle
    /\ Len(debits) < MaxDebits
    /\ Passes(first, TRUE, order.kind # "qr")
    /\ reqs' = [reqs EXCEPT ![r] = [phase |-> Awaiting(Other(first)), order |-> order,
                                    number |-> 0, ref |-> <<Prefix[order.kind], now>>]]
    /\ UNCHANGED <<money, refs, rows, now, failures, books>>

\* loadEligibleMember: the member and the lock are two queries of one Promise.all.  The
\* first to come back finds the member verified, or the lock off; a payment that is
\* refused on it has no effect.
FirstPaymentRead(r, order, first) ==
    /\ reqs[r] = Idle
    /\ Len(debits) < MaxDebits
    /\ Passes(first, TRUE, TRUE)
    /\ reqs' = [reqs EXCEPT ![r] = [phase |-> Awaiting(Other(first)), order |-> order,
                                    number |-> 0, ref |-> <<Prefix[order.kind], now>>]]
    /\ UNCHANGED <<money, refs, rows, now, failures, books>>

\* The other query comes back, perhaps from a later moment: the payment is admitted, or
\* refused.  The account is read next, of which only the balance changes.
SecondPaymentRead(r) ==
    /\ \E read \in Reads :
          /\ reqs[r].phase = Awaiting(read)
          /\ reqs' = [reqs EXCEPT ![r] = IF Passes(read, TRUE, TRUE)
                                         THEN [@ EXCEPT !.phase = "admitted"] ELSE Idle]
    /\ UNCHANGED <<money, refs, rows, now, failures, books>>

\* Mutation of Debit: the update filters on the account and not on its balance.
DebitAnyBalance(r) ==
    LET o == reqs[r].order
    IN  /\ reqs[r].phase = "admitted"
        /\ balance' = [balance EXCEPT ![o.account] = @ - o.amount]
        /\ debits' = Append(debits, o)
        /\ rows' = Append(rows, {})
        /\ reqs' = [reqs EXCEPT ![r] = [@ EXCEPT !.phase = "debited",
                                        !.number = Len(debits) + 1,
                                        !.ref = <<Prefix[o.kind], now>>]]
        /\ UNCHANGED <<refs, now, failures, books>>

\* findOneAndUpdate on {balance >= amount}; buildTransactionReference reads the
\* clock when it returns.
Debit(r) ==
    LET o == reqs[r].order
    IN  /\ reqs[r].phase = "admitted"
        /\ balance[o.account] >= o.amount
        /\ balance' = [balance EXCEPT ![o.account] = @ - o.amount]
        /\ debits' = Append(debits, o)
        /\ rows' = Append(rows, {})
        /\ reqs' = [reqs EXCEPT ![r] = [@ EXCEPT !.phase = "debited",
                                        !.number = Len(debits) + 1,
                                        !.ref = <<Prefix[o.kind], now>>]]
        /\ UNCHANGED <<refs, now, failures, books>>

\* 'Insufficient available balance for this ... payment.'
Refuse(r) ==
    /\ reqs[r].phase = "admitted"
    /\ balance[reqs[r].order.account] < reqs[r].order.amount
    /\ reqs' = [reqs EXCEPT ![r] = Idle]
    /\ UNCHANGED <<money, refs, rows, now, failures, books>>

Write(r, row, next) ==
    /\ rows' = [rows EXCEPT ![reqs[r].number] = @ \cup {row}]
    /\ reqs' = [reqs EXCEPT ![r] = next]
    /\ UNCHANGED <<money, now, failures>>

\* Mutation of StoreTransaction: a duplicate reference is taken for a stored one.
StoreTransactionOrSkip(r) ==
    /\ reqs[r].phase = "debited"
    /\ refs' = refs \cup {reqs[r].ref}
    /\ rows' = IF reqs[r].ref \in refs
               THEN rows
               ELSE [rows EXCEPT ![reqs[r].number] = @ \cup {"transaction"}]
    /\ reqs' = [reqs EXCEPT ![r].phase = "transacted"]
    /\ UNCHANGED <<money, now, failures, books>>

StoreTransaction(r) ==
    /\ reqs[r].phase = "debited"
    /\ reqs[r].ref \notin refs
    /\ refs' = refs \cup {reqs[r].ref}
    /\ Write(r, "transaction", [reqs[r] EXCEPT !.phase = "transacted"])
    /\ UNCHANGED books

\* The unique index on transactionReference rejects the insert: two payments of a
\* kind were debited in the same millisecond.
CollideReference(r) ==
    /\ reqs[r].phase = "debited"
    /\ reqs[r].ref \in refs
    /\ reqs' = [reqs EXCEPT ![r] = Idle]
    /\ UNCHANGED <<money, refs, rows, now, failures, books>>

StoreSchoolPayment(r) ==
    /\ reqs[r].phase = "transacted"
    /\ reqs[r].order.kind = "school"
    /\ Write(r, "school_payment", [reqs[r] EXCEPT !.phase = "stored"])
    /\ UNCHANGED <<refs, books>>

\* Mutation of CollectForSchool: recorded again as long as the next await has not
\* returned.
CollectRepeatedly(r) ==
    LET o == reqs[r].order
    IN  /\ reqs[r].phase = "stored"
        /\ Billing!RecordMemberPayment(o.school, o.student, o.amount, "mobile")
        /\ rows' = [rows EXCEPT ![reqs[r].number] = @ \cup {"receipt"}]
        /\ reqs' \in {reqs, [reqs EXCEPT ![r].phase = "collected"]}
        /\ UNCHANGED <<money, refs, now, failures>>

\* The synchronous call of recordMemberPayment: without an open invoice the
\* payment goes on and the school has no receipt of it.
CollectForSchool(r) ==
    LET o == reqs[r].order
        receipted == Billing!OpenInvoice(o.student) # 0
    IN  /\ reqs[r].phase = "stored"
        /\ Billing!RecordMemberPayment(o.school, o.student, o.amount, "mobile")
        /\ rows' = IF receipted
                   THEN [rows EXCEPT ![reqs[r].number] = @ \cup {"receipt"}]
                   ELSE rows
        /\ reqs' = [reqs EXCEPT ![r].phase = "collected"]
        /\ UNCHANGED <<money, refs, now, failures>>

\* dispatch and createNotification.
Notify(r) ==
    /\ \/ reqs[r].phase = "collected"
       \/ reqs[r].phase = "transacted" /\ reqs[r].order.kind = "qr"
    /\ Write(r, "notification", [reqs[r] EXCEPT !.phase = "notified"])
    /\ UNCHANGED <<refs, books>>

Audit(r) ==
    /\ reqs[r].phase = "notified"
    /\ Write(r, "audit", Idle)
    /\ UNCHANGED <<refs, books>>

\* The next write of the payment throws.
Fail(r) ==
    /\ failures < MaxFailures
    /\ reqs[r] # Idle
    /\ reqs' = [reqs EXCEPT ![r] = Idle]
    /\ failures' = failures + 1
    /\ UNCHANGED <<money, refs, rows, now, books>>

\* The server stops: payments in flight are gone, the database stays, and the
\* school console starts again from its fixtures.
PaymentsRestart ==
    /\ failures < MaxFailures
    /\ failures' = failures + 1
    /\ reqs' = [r \in Requests |-> Idle]
    /\ Billing!Restart
    /\ UNCHANGED <<money, refs, rows, now>>

-----------------------------------------------------------------------------
RequestStep(r) ==
    \/ SecondPaymentRead(r) \/ Debit(r) \/ Refuse(r) \/ StoreTransaction(r) \/ CollideReference(r)
    \/ StoreSchoolPayment(r) \/ CollectForSchool(r) \/ Notify(r) \/ Audit(r)

\* What payment r does next; `orders` bounds what a new one is for.
PaymentNextOf(r, orders) ==
    \/ \E order \in orders, first \in Reads : FirstPaymentRead(r, order, first)
    \/ RequestStep(r)
    \/ Fail(r)

-----------------------------------------------------------------------------
PaymentTypeOK ==
    /\ balance \in [Accounts -> Nat]
    /\ refs \subseteq Reference
    /\ reqs \in [Requests -> Request \cup {Idle}]
    /\ debits \in Seq(Order)
    /\ rows \in Seq(SUBSET Rows)
    /\ now \in Nat
    /\ failures \in Nat

\* What the debits among `some` add up to.
SumOf(some) == SumFunctionOnSet([n \in 1..Len(debits) |-> debits[n].amount], some)

Debited(a) == SumOf({n \in 1..Len(debits) : debits[n].account = a})

\* No interleaving of payments on one account overdraws it, and the balance is
\* always the opening balance less what the payments took.
NoOverdraft ==
    \A a \in Accounts : balance[a] >= 0 /\ balance[a] = Opening[a] - Debited(a)

\* A payment's records appear in an order that never tells the member or the
\* auditor of money the bank has no transaction for: a later record implies every
\* earlier one, whatever failed in between.
RecordsInOrder ==
    \A n \in 1..Len(debits) :
        /\ rows[n] # {} => "transaction" \in rows[n]
        /\ "receipt" \in rows[n] => "school_payment" \in rows[n]
        /\ "notification" \in rows[n] /\ debits[n].kind = "school"
              => "school_payment" \in rows[n]
        /\ "audit" \in rows[n] => "notification" \in rows[n]

SchoolMoney == SumOf({n \in 1..Len(debits) : "school_payment" \in rows[n]})

Receipted(s) == SumFunctionOnSet([i \in 1..Len(s) |-> s[i].amount], 1..Len(s))

\* What the school console shows as collected from members never exceeds what
\* members paid for schools at the bank (it may be less: an overpayment, a student
\* without an open invoice, a restart).
ReceiptsAreBacked == Receipted(receipts) - Receipted(SeedReceipts) <= SchoolMoney

\* "Pays from account ... Transaction is logged": with no failure, a debit has its
\* transaction or a payment that is about to write it.
DebitsAreLogged ==
    failures = 0 =>
        \A n \in 1..Len(debits) :
            \/ "transaction" \in rows[n]
            \/ \E r \in Requests : reqs[r] # Idle /\ reqs[r].number = n

=============================================================================
