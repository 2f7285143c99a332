------------------------------ MODULE MCPayments ------------------------------
\* One customer, who pays the fixture invoice of ST-1001, and the people who
\* register meanwhile, for TLC.
EXTENDS MemberBanking

Balances == [a \in Accounts |-> IF a = "a1" THEN 3 ELSE 2]

\* In thousands.  After a collection of 1 on top of the fixture's 3, ST-1001 has 2
\* left to pay: 1 and then 2 is too much, and 1 after 2 finds no open
\* invoice.
First == [year |-> "2026", seq |-> 1]
OpenFixtures == <<
    [no |-> First, school |-> "blue_nile", student |-> "ST-1001", total |-> 6,
     paid |-> 4, balance |-> 2, status |-> "partially_paid", due |-> "2026-09-05"]>>
ReceiptFixtures == <<
    [no |-> First, school |-> "blue_nile", student |-> "ST-1001", amount |-> 2,
     matched |-> TRUE]>>
NoStudents == << >>
NoPlans == << >>
\* The console itself stands still: only the bank's payments reach its books.
OnlyPayments == {[classes |-> {}, newPlans |-> {}, payloads |-> {}, amounts |-> {},
                  students |-> 0, plans |-> 0, receipts |-> 10]}

\* One registers by FIN with a Fayda alias, the other with the QR code of the card only.
TwoPeople == {[phone |-> "p1", fin |-> "f1", qr |-> FALSE, alias |-> TRUE],
              [phone |-> "p2", fin |-> NoFin, qr |-> TRUE, alias |-> FALSE]}

Anything == OnboardSubjects \cup Settings \cup SelfRequestKinds

Load(onboarding, selfService, about, payments, orders, restart) ==
    [onboarding |-> onboarding, selfService |-> selfService, about |-> about,
     payments |-> payments, orders |-> orders,
     phone |-> onboarding = 0 /\ selfService = 0 /\ payments = {}, restart |-> restart]

\* Payments of either kind read the standing alike.  The account carries one of these.
LargeQr == {o \in Order : o.kind = "qr" /\ o.amount = 2}

\* Two payments at once; one, while the lock is switched twice and a review takes the
\* verification away; and each of the others, as busy as its bounds allow.
EachInTurn == {Load(0, 0, {}, Requests, Order, TRUE),
               Load(1, 2, {"review", "lock"}, Requests \ {"r2"}, LargeQr, FALSE),
               Load(3, 0, Anything, {}, {}, FALSE), Load(1, 2, Anything, {}, {}, TRUE),
               Load(0, 3, Anything, {}, {}, TRUE), Load(0, 0, {}, {}, {}, TRUE)}
PaymentsAlone == {Load(0, 0, {}, Requests, Order, FALSE)}
=============================================================================
