--------------------------- MODULE MCSchoolBilling ---------------------------
\* The fixtures the services start from, and small payloads, for TLC.
EXTENDS SchoolBilling

No(n) == [year |-> "2026", seq |-> n]

FixtureStudents == <<
    [school |-> "blue_nile", student |-> "ST-1001", grade |-> "Grade 7"],
    [school |-> "blue_nile", student |-> "ST-1002", grade |-> "Grade 9"],
    [school |-> "tana", student |-> "ST-2001", grade |-> "Grade 5"]>>

FixturePlans == <<
    [school |-> "blue_nile", year |-> "2026", term |-> "Term 1", grade |-> "Grade 7",
     active |-> TRUE, total |-> 9500],
    [school |-> "tana", year |-> "2026", term |-> "Term 1", grade |-> "Grade 5",
     active |-> FALSE, total |-> 7200]>>

FixtureInvoices == <<
    [no |-> No(1), school |-> "blue_nile", student |-> "ST-1001", total |-> 9500,
     paid |-> 3500, balance |-> 6000, status |-> "partially_paid", due |-> "2026-09-05"],
    [no |-> No(2), school |-> "blue_nile", student |-> "ST-1002", total |-> 9500,
     paid |-> 9500, balance |-> 0, status |-> "paid", due |-> "2026-09-05"],
    [no |-> No(101), school |-> "tana", student |-> "ST-2001", total |-> 7200,
     paid |-> 0, balance |-> 7200, status |-> "open", due |-> "2026-09-12"]>>

FixtureReceipts == <<
    [no |-> No(1), school |-> "blue_nile", student |-> "ST-1001", amount |-> 1500,
     matched |-> TRUE],
    [no |-> No(2), school |-> "blue_nile", student |-> "ST-1002", amount |-> 9500,
     matched |-> TRUE],
    [no |-> No(101), school |-> "tana", student |-> "ST-2001", amount |-> 1200,
     matched |-> FALSE]>>

Entry(d, g) == [student |-> d, grade |-> g]
NewPlan(s, y, t, g, a) ==
    [school |-> s, year |-> y, term |-> t, grade |-> g, active |-> a, total |-> 7200]

\* A new pupil with one who is already there, a list that holds an id twice, a
\* class with a grade nobody has a plan for in its middle.
SomeClasses == {<<Entry("ST-3001", "Grade 7"), Entry("ST-1001", "Grade 7")>>,
                <<Entry("ST-3001", "Grade 7"), Entry("ST-3001", "Grade 9")>>,
                <<Entry("ST-3001", "Grade 7"), Entry("ST-1002", "Grade 9"),
                  Entry("ST-2001", "Grade 7")>>}
SomePlans == {NewPlan("blue_nile", "2026", "Term 1", "Grade 9", TRUE),
              NewPlan("blue_nile", "2026", "Term 2", "Grade 7", TRUE),
              NewPlan("blue_nile", "2027", "Term 1", "Grade 7", TRUE),
              NewPlan("tana", "2026", "Term 3", "Grade 7", TRUE),
              NewPlan("tana", "2026", "Term 1", "Grade 5", FALSE)}

NewPupil == {<<Entry("ST-3001", "Grade 7")>>}
SecondTerm == {NewPlan("blue_nile", "2026", "Term 2", "Grade 7", TRUE)}
\* A scholarship: the second term costs nothing, or the school pays.
FreeTerm == {[plan EXCEPT !.total = total] : plan \in SecondTerm, total \in {0, -300}}
SomeAmounts == {-500, 2500, 9500}

WholeSchool == [school: Schools, year: {None}, term: {None, "Term 1", "Term 2"}, grade: {None}]

Batches ==
    [classes |-> SomeClasses, newPlans |-> SomePlans, payloads |-> Payload, amounts |-> {},
     students |-> 6, plans |-> 5, receipts |-> 3]
Collections ==
    [classes |-> NewPupil, newPlans |-> SecondTerm, payloads |-> WholeSchool,
     amounts |-> SomeAmounts, students |-> 4, plans |-> 3, receipts |-> 6]
Scholarships ==
    [Collections EXCEPT !.newPlans = FreeTerm, !.amounts = {2500}, !.students = 3]
BatchesAndCollections == {Batches, Collections, Scholarships}

\* ST-1001 is registered at tana too, and one payment is made.
Transfer == {[classes |-> {<<Entry("ST-1001", "Grade 7")>>}, newPlans |-> {},
              payloads |-> {}, amounts |-> {2500}, students |-> 4, plans |-> 2, receipts |-> 4]}
=============================================================================
