-------------------------- MODULE SchoolBilling_proofs --------------------------
(* Proofs about the school console's books: for any fixtures that agree, any     *)
(* lists, plans, batches and payments, and any number of restarts.  First what   *)
(* the search of a list and the loop of a batch return, then what each method    *)
(* keeps of the books, and the theorems.                                         *)
EXTENDS SchoolBilling, SumTheorems, SequenceTheorems

-----------------------------------------------------------------------------
(* array.find: the least of the positions that pass.                             *)

FirstOf(hits) == IF hits = {} THEN 0 ELSE CHOOSE i \in hits : \A j \in hits : i <= j

LEMMA FirstIsLeast ==
    ASSUME NEW hits \in SUBSET (Nat \ {0})
    PROVE  \/ hits = {} /\ FirstOf(hits) = 0
           \/ FirstOf(hits) \in hits /\ FirstOf(hits) # 0 /\ \A j \in hits : FirstOf(hits) <= j
<1>1. CASE hits = {}
  BY <1>1 DEF FirstOf
<1>2. CASE hits # {}
  <2>1. hits \in SUBSET Nat
    OBVIOUS
  <2>2. PICK i \in hits : \A j \in hits : i <= j
    BY <1>2, <2>1, LeastNumber
  <2>3. FirstOf(hits) \in hits /\ \A j \in hits : FirstOf(hits) <= j
    BY <1>2, <2>2 DEF FirstOf
  <2> QED
    BY <2>3
<1> QED
  BY <1>1, <1>2

PlansFor(p, g) ==
    {i \in 1..Len(plans) : /\ plans[i].school = p.school
                           /\ Given(p.year, plans[i].year)
                           /\ Given(p.term, plans[i].term)
                           /\ plans[i].grade = g
                           /\ plans[i].active}
WithNumber(no) == {i \in 1..Len(invoices) : invoices[i].no = no}
OpenOf(student) ==
    {i \in 1..Len(invoices) : /\ invoices[i].student = student
                              /\ invoices[i].status \in {"open", "partially_paid"}}

LEMMA PlanIsFirst == ASSUME NEW p, NEW g PROVE PlanFor(p, g) = FirstOf(PlansFor(p, g))
  BY DEF PlanFor, Find, FirstOf, PlansFor

LEMMA OpenIsFirst == ASSUME NEW student PROVE OpenInvoice(student) = FirstOf(OpenOf(student))
  BY DEF OpenInvoice, Find, FirstOf, OpenOf

\* The plan a student is billed by is one of the plans.
LEMMA PlanIsThere ==
    ASSUME NEW p, NEW g, plans \in Seq(Plan), PlanFor(p, g) # 0
    PROVE  plans[PlanFor(p, g)] \in Plan
<1>1. PlansFor(p, g) \in SUBSET (Nat \ {0})
  BY DEF PlansFor
<1>2. PlanFor(p, g) \in PlansFor(p, g)
  BY <1>1, FirstIsLeast, PlanIsFirst
<1>3. PlanFor(p, g) \in 1..Len(plans)
  BY <1>2 DEF PlansFor
<1> QED
  BY <1>3, ElementOfSeq

-----------------------------------------------------------------------------
(* The loop of a batch: it comes to every element once.                          *)

\* u is the loop over the numbers up to m.
LoopTo(u, S, m) ==
    u = [i \in 0..m |-> IF i = 0 THEN << >>
                        ELSE IF i \in S THEN Append(u[i - 1], i) ELSE u[i - 1]]

LEMMA LoopExists == ASSUME NEW S, NEW n \in Nat PROVE \E u : LoopTo(u, S, n)
<1> DEFINE G == {m \in Nat : \E u : LoopTo(u, S, m)}
<1>1. 0 \in G
  <2> DEFINE u == [i \in 0..0 |-> << >>]
  <2>1. LoopTo(u, S, 0)
    <3>1. \A i \in 0..0 : i = 0
      OBVIOUS
    <3> QED
      BY <3>1 DEF LoopTo
  <2> QED
    BY <2>1
<1>2. ASSUME NEW m \in Nat, m \in G PROVE m + 1 \in G
  <2>1. PICK u : LoopTo(u, S, m)
    BY <1>2
  <2>2. PICK e : e = IF m + 1 \in S THEN Append(u[m], m + 1) ELSE u[m]
    OBVIOUS
  <2>3. PICK v : v = [i \in 0..(m + 1) |-> IF i = m + 1 THEN e ELSE u[i]]
    OBVIOUS
  <2>4. ASSUME NEW i \in 0..(m + 1)
        PROVE  v[i] = IF i = 0 THEN << >> ELSE IF i \in S THEN Append(v[i - 1], i) ELSE v[i - 1]
    <3>1. CASE i = m + 1
      <4>1. i # 0 /\ i - 1 = m /\ v[i] = e
        BY <2>3, <3>1
      <4>2. m \in 0..(m + 1) /\ m # m + 1
        OBVIOUS
      <4>3. v[m] = u[m]
        BY <2>3, <4>2
      <4> QED
        BY <2>2, <3>1, <4>1, <4>3
    <3>2. CASE i # m + 1
      <4>1. i \in 0..m
        BY <3>2
      <4>2. v[i] = u[i]
        BY <2>3, <2>4, <3>2
      <4>3. u[i] = IF i = 0 THEN << >> ELSE IF i \in S THEN Append(u[i - 1], i) ELSE u[i - 1]
        BY <2>1, <4>1 DEF LoopTo
      <4>4. ASSUME i # 0 PROVE v[i - 1] = u[i - 1]
        <5>1. PICK j : j = i - 1 /\ j \in 0..(m + 1) /\ j # m + 1
          BY <4>1, <4>4
        <5> QED
          BY <2>3, <5>1
      <4> QED
        BY <4>2, <4>3, <4>4
    <3> QED
      BY <3>1, <3>2
  <2>5. LoopTo(v, S, m + 1)
    <3>1. v = [i \in 0..(m + 1) |-> v[i]]
      BY <2>3
    <3> QED
      BY <2>4, <3>1 DEF LoopTo
  <2>6. m + 1 \in Nat
    OBVIOUS
  <2> QED
    BY <2>5, <2>6
<1> HIDE DEF G
<1>3. n \in G
  BY <1>1, <1>2, NumberInduction
<1> QED
  BY <1>3 DEF G

\* Once each: q has all of S up to m and nothing else, and nothing twice.
OnceEach(q, S, m) ==
    /\ q \in Seq(Nat)
    /\ \A k \in 1..Len(q) : q[k] \in S /\ q[k] \in 1..m
    /\ \A i \in 1..m : i \in S => \E k \in 1..Len(q) : q[k] = i
    /\ \A j, k \in 1..Len(q) : q[j] = q[k] => j = k

LEMMA InOrderIsOnceEach == ASSUME NEW S, NEW n \in Nat PROVE OnceEach(InOrder(S, n), S, n)
<1>1. PICK u : LoopTo(u, S, n) /\ InOrder(S, n) = u[n]
  <2>1. PICK v : LoopTo(v, S, n)
    BY LoopExists
  <2>2. PICK u : u = CHOOSE w : LoopTo(w, S, n)
    OBVIOUS
  <2>3. LoopTo(u, S, n)
    BY <2>1, <2>2
  <2>4. InOrder(S, n) = u[n]
    BY <2>2 DEF InOrder, LoopTo
  <2> QED
    BY <2>3, <2>4
<1> DEFINE G == {m \in Nat : m <= n => OnceEach(u[m], S, m)}
<1>2. 0 \in G
  <2>1. PICK z : z = u[0] /\ z = << >>
    BY <1>1 DEF LoopTo
  <2>2. z \in Seq(Nat) /\ 1..Len(z) = {} /\ 1..0 = {}
    BY <2>1
  <2>3. OnceEach(z, S, 0)
    BY <2>2 DEF OnceEach
  <2> QED
    BY <2>1, <2>3
<1>3. ASSUME NEW m \in Nat, m \in G PROVE m + 1 \in G
  <2> SUFFICES ASSUME m + 1 <= n PROVE OnceEach(u[m + 1], S, m + 1)
    OBVIOUS
  <2>1. PICK q : q = u[m] /\ OnceEach(q, S, m)
    BY <1>3
  <2>2. PICK l : l = m + 1 /\ l \in 0..n /\ l # 0 /\ l - 1 = m /\ l \in Nat
    OBVIOUS
  <2>3. u[l] = IF l \in S THEN Append(q, l) ELSE q
    BY <1>1, <2>1, <2>2 DEF LoopTo
  <2>4. CASE l \notin S
    <3>1. u[l] = q
      BY <2>3, <2>4
    <3>2. \A i \in 1..l : i \in S => i \in 1..m
      BY <2>2, <2>4
    <3>3. \A i \in 1..m : i \in 1..l
      BY <2>2
    <3> QED
      BY <2>1, <2>2, <3>1, <3>2, <3>3 DEF OnceEach
  <2>5. CASE l \in S
    <3>1. PICK t : t = u[l] /\ t = Append(q, l)
      BY <2>3, <2>5
    <3>2. PICK s \in Nat : s = Len(q)
      BY <2>1 DEF OnceEach
    <3>3. t \in Seq(Nat) /\ Len(t) = s + 1 /\ t[s + 1] = l /\ \A k \in 1..s : t[k] = q[k]
      BY <2>1, <2>2, <3>1, <3>2, AppendProperties DEF OnceEach
    <3>4. \A k \in 1..s : t[k] \in S /\ t[k] \in 1..m
      BY <2>1, <3>2, <3>3 DEF OnceEach
    <3>5. \A k \in 1..(s + 1) : k \in 1..s \/ k = s + 1
      OBVIOUS
    <3>6. \A k \in 1..(s + 1) : t[k] \in S /\ t[k] \in 1..l
      BY <2>2, <2>5, <3>3, <3>4, <3>5
    <3>7. ASSUME NEW i \in 1..l, i \in S PROVE \E k \in 1..(s + 1) : t[k] = i
      <4>1. CASE i = l
        BY <3>3, <4>1
      <4>2. CASE i # l
        <5>1. i \in 1..m
          BY <2>2, <4>2
        <5>2. PICK k \in 1..s : q[k] = i
          BY <2>1, <3>2, <3>7, <5>1 DEF OnceEach
        <5>3. t[k] = i /\ k \in 1..(s + 1)
          BY <3>3, <5>2
        <5> QED
          BY <5>3
      <4> QED
        BY <4>1, <4>2
    <3>8. l \notin 1..m
      BY <2>2
    <3>9. \A j, k \in 1..s : t[j] = t[k] => j = k
      BY <2>1, <3>2, <3>3 DEF OnceEach
    <3>10. \A j, k \in 1..(s + 1) : t[j] = t[k] => j = k
      BY <3>3, <3>4, <3>5, <3>8, <3>9
    <3>11. PICK D : D = 1..(s + 1) /\ D = 1..Len(t)
      BY <3>3
    <3>12. /\ \A k \in D : t[k] \in S /\ t[k] \in 1..l
           /\ \A i \in 1..l : i \in S => \E k \in D : t[k] = i
           /\ \A j, k \in D : t[j] = t[k] => j = k
      BY <3>6, <3>7, <3>10, <3>11
    <3>13. OnceEach(t, S, l)
      BY <3>3, <3>11, <3>12 DEF OnceEach
    <3> QED
      BY <2>2, <3>1, <3>13
  <2> QED
    BY <2>2, <2>4, <2>5
<1> HIDE DEF G
<1>4. n \in G
  BY <1>2, <1>3, NumberInduction
<1> QED
  BY <1>1, <1>4 DEF G

-----------------------------------------------------------------------------
(* What the methods do to the lists.                                             *)

\* The invoices of a batch: one for every student it is to bill, and nobody has two.
BatchFor(p, new) ==
    /\ \A k \in 1..Len(new) :
          /\ new[k].school = p.school /\ new[k].due = ResolveDueDate(p.term)
          /\ new[k].paid = 0 /\ new[k].balance = new[k].total /\ new[k].status = "open"
          /\ new[k].no.seq = Len(invoices) + (Len(new) + 1 - k)
          /\ \E i \in Unbilled(p) : new[k].student = students[i].student
          /\ \E f \in 1..Len(plans) : new[k].total = plans[f].total
    /\ \A i \in Unbilled(p) : \E k \in 1..Len(new) : new[k].student = students[i].student
    /\ \A j, k \in 1..Len(new) : new[j].student = new[k].student => j = k

\* The k-th invoice of a batch, for the student at position i.
BilledFor(v, p, i, k) ==
    /\ v \in Invoice /\ v.school = p.school /\ v.student = students[i].student
    /\ v.due = ResolveDueDate(p.term) /\ v.paid = 0 /\ v.balance = v.total
    /\ v.status = "open" /\ v.no.seq = Len(invoices) + k
    /\ \E f \in 1..Len(plans) : v.total = plans[f].total

LEMMA InvoiceForIs ==
    ASSUME TypeOK, NEW p \in Payload, NEW i \in Unbilled(p), NEW k \in Nat,
           NEW v, v = InvoiceFor(p, i, k)
    PROVE  BilledFor(v, p, i, k)
<1>1. i \in 1..Len(students) /\ PlanFor(p, students[i].grade) # 0
  BY DEF Unbilled, Scoped
<1>2. PICK f : f = PlanFor(p, students[i].grade)
  OBVIOUS
<1>3. plans[f] \in Plan /\ f \in 1..Len(plans)
  <2>1. PlansFor(p, students[i].grade) \in SUBSET (Nat \ {0})
    BY DEF PlansFor
  <2>2. f \in PlansFor(p, students[i].grade)
    BY <1>1, <1>2, <2>1, FirstIsLeast, PlanIsFirst
  <2>3. f \in 1..Len(plans)
    BY <2>2 DEF PlansFor
  <2> QED
    BY <1>1, <1>2, <2>3, PlanIsThere DEF TypeOK
<1>4. PICK total \in Int : total = plans[f].total
  BY <1>3 DEF Plan
<1>5. PICK student \in StudentIds : student = students[i].student
  <2>1. students[i] \in Student
    BY <1>1, ElementOfSeq DEF TypeOK
  <2> QED
    BY <2>1 DEF Student
<1>6. PICK year \in Years : year = IF p.year = None THEN "2026" ELSE p.year
  BY SchoolConstants DEF Payload
<1>7. PICK seq \in Nat : seq = Len(invoices) + k
  BY DEF TypeOK
<1>8. PICK due \in DueDates : due = ResolveDueDate(p.term)
  BY DEF DueDates, ResolveDueDate
<1>10. v = [no |-> [year |-> year, seq |-> seq], school |-> p.school, student |-> student,
            total |-> total, paid |-> 0, balance |-> total, status |-> "open", due |-> due]
  BY <1>2, <1>4, <1>5, <1>6, <1>7, <1>8 DEF InvoiceFor
<1>11. PICK no \in Number : no = [year |-> year, seq |-> seq]
  <2>1. [year |-> year, seq |-> seq] \in Number
    BY DEF Number
  <2> QED
    BY <2>1
<1>12. v \in Invoice
  <2>1. p.school \in Schools
    BY DEF Payload
  <2> QED
    BY <1>10, <1>11, <2>1 DEF Invoice
<1>13. v.no = no /\ no.seq = seq
  BY <1>10, <1>11
<1>14. /\ v.school = p.school /\ v.student = student /\ v.total = total
       /\ v.paid = 0 /\ v.balance = total /\ v.status = "open" /\ v.due = due
  BY <1>10
<1> QED
  BY <1>3, <1>4, <1>5, <1>7, <1>8, <1>12, <1>13, <1>14 DEF BilledFor

LEMMA GeneratedBatch ==
    ASSUME TypeOK, NEW p \in Payload, GenerateBatch(p)
    PROVE  \E new \in Seq(Invoice) : BatchFor(p, new) /\ invoices' = new \o invoices
<1>1. PICK billed, n : billed = Billable(p) /\ n = Len(billed)
  OBVIOUS
<1>2. PICK l \in Nat : l = Len(students)
  BY DEF TypeOK
<1>3. OnceEach(billed, Unbilled(p), l)
  BY <1>1, <1>2, InOrderIsOnceEach DEF Billable
<1>4. n \in Nat
  BY <1>1, <1>3 DEF OnceEach
<1>5. PICK new : new = [k \in 1..n |-> InvoiceFor(p, billed[n + 1 - k], n + 1 - k)]
  OBVIOUS
<1>6. invoices' = new \o invoices
  BY <1>1, <1>5 DEF GenerateBatch
<1>7. ASSUME NEW k \in 1..n
      PROVE  \E i \in Unbilled(p) :
                i = billed[n + 1 - k] /\ n + 1 - k \in Nat /\ new[k] = InvoiceFor(p, i, n + 1 - k)
  <2>1. n + 1 - k \in 1..Len(billed) /\ n + 1 - k \in Nat
    BY <1>1, <1>4
  <2>2. billed[n + 1 - k] \in Unbilled(p)
    BY <1>3, <2>1 DEF OnceEach
  <2>3. new[k] = InvoiceFor(p, billed[n + 1 - k], n + 1 - k)
    BY <1>5
  <2> QED
    BY <2>1, <2>2, <2>3
<1>8. new \in Seq(Invoice) /\ Len(new) = n
  <2>1. ASSUME NEW k \in 1..n PROVE new[k] \in Invoice
    <3>1. PICK i \in Unbilled(p) : n + 1 - k \in Nat /\ new[k] = InvoiceFor(p, i, n + 1 - k)
      BY <1>7
    <3> QED
      BY <3>1, InvoiceForIs DEF BilledFor
  <2>2. new \in [1..n -> Invoice]
    BY <1>5, <2>1
  <2> QED
    BY <1>4, <2>2
<1>9. ASSUME NEW k \in 1..Len(new)
      PROVE  /\ new[k].school = p.school /\ new[k].due = ResolveDueDate(p.term)
             /\ new[k].paid = 0 /\ new[k].balance = new[k].total /\ new[k].status = "open"
             /\ new[k].no.seq = Len(invoices) + (Len(new) + 1 - k)
             /\ \E i \in Unbilled(p) : new[k].student = students[i].student
             /\ \E f \in 1..Len(plans) : new[k].total = plans[f].total
  <2>1. PICK i \in Unbilled(p) : n + 1 - k \in Nat /\ new[k] = InvoiceFor(p, i, n + 1 - k)
    BY <1>7, <1>8
  <2>2. PICK m \in Nat : m = n + 1 - k
    BY <2>1
  <2>3. PICK v : v = InvoiceFor(p, i, m) /\ v = new[k]
    BY <2>1, <2>2
  <2>4. BilledFor(v, p, i, m)
    BY <2>1, <2>2, <2>3, InvoiceForIs
  <2> QED
    BY <1>8, <2>2, <2>3, <2>4 DEF BilledFor
<1>10. ASSUME NEW i \in Unbilled(p)
       PROVE  \E k \in 1..Len(new) : new[k].student = students[i].student
  <2>1. i \in 1..l
    BY <1>2 DEF Unbilled
  <2>2. PICK m \in 1..n : billed[m] = i
    BY <1>1, <1>3, <2>1 DEF OnceEach
  <2>3. PICK k \in 1..n : k = n + 1 - m /\ n + 1 - k = m
    BY <1>4
  <2>4. new[k] = InvoiceFor(p, i, m)
    BY <1>7, <2>2, <2>3
  <2>5. new[k].student = students[i].student
    BY <2>4, InvoiceForIs DEF BilledFor
  <2> QED
    BY <1>8, <2>5
<1>11. ASSUME NEW j \in 1..Len(new), NEW k \in 1..Len(new), new[j].student = new[k].student
       PROVE  j = k
  <2>1. PICK a \in Unbilled(p) : a = billed[n + 1 - j] /\ n + 1 - j \in Nat /\ new[j] = InvoiceFor(p, a, n + 1 - j)
    BY <1>7, <1>8
  <2>2. PICK b \in Unbilled(p) : b = billed[n + 1 - k] /\ n + 1 - k \in Nat /\ new[k] = InvoiceFor(p, b, n + 1 - k)
    BY <1>7, <1>8
  <2>3. students[a].student = students[b].student
    <3>1. PICK x, y \in Nat : x = n + 1 - j /\ y = n + 1 - k
      BY <2>1, <2>2
    <3>2. PICK v : v = InvoiceFor(p, a, x) /\ v = new[j]
      BY <2>1, <3>1
    <3>3. PICK w : w = InvoiceFor(p, b, y) /\ w = new[k]
      BY <2>2, <3>1
    <3>4. BilledFor(v, p, a, x) /\ BilledFor(w, p, b, y)
      BY <3>1, <3>2, <3>3, InvoiceForIs
    <3> QED
      BY <1>11, <3>2, <3>3, <3>4 DEF BilledFor
  <2>4. /\ a \in 1..l /\ b \in 1..l /\ Scoped(p, a) /\ Scoped(p, b) /\ First(p, a) /\ First(p, b)
    BY <1>2 DEF Unbilled
  <2>5. ~(a < b)
    <3>1. ASSUME a < b PROVE FALSE
      <4>1. a \in 1..(b - 1)
        BY <2>4, <3>1
      <4> QED
        BY <2>3, <2>4, <4>1 DEF First
    <3> QED
      BY <3>1
  <2>6. ~(b < a)
    <3>1. ASSUME b < a PROVE FALSE
      <4>1. b \in 1..(a - 1)
        BY <2>4, <3>1
      <4> QED
        BY <2>3, <2>4, <4>1 DEF First
    <3> QED
      BY <3>1
  <2>7. a = b
    BY <2>4, <2>5, <2>6
  <2>8. PICK x \in 1..n, y \in 1..n : x = n + 1 - j /\ y = n + 1 - k
    BY <1>4, <1>8
  <2>9. billed[x] = billed[y]
    BY <2>1, <2>2, <2>7, <2>8
  <2>10. x = y
    BY <1>1, <1>3, <2>9 DEF OnceEach
  <2> QED
    BY <1>4, <1>8, <2>8, <2>10
<1>12. BatchFor(p, new)
  BY <1>9, <1>10, <1>11 DEF BatchFor
<1> QED
  BY <1>6, <1>8, <1>12

-----------------------------------------------------------------------------
\* What applyPayment does to an invoice whose paid and balance add up: w is v with
\* x more of it paid.
PaidMore(v, w, x) ==
    /\ w.no = v.no /\ w.school = v.school /\ w.student = v.student /\ w.due = v.due
    /\ w.total = v.total /\ w.paid = v.paid + x /\ w.balance = v.balance - x
    /\ w.balance >= 0 /\ (w.status = "paid" <=> w.balance = 0)

LEMMA PaymentApplied ==
    ASSUME NEW v \in Invoice, v.paid + v.balance = v.total, NEW amount \in Int
    PROVE  /\ Applied(v, amount) \in Int /\ Applied(v, amount) <= v.balance
           /\ amount > 0 /\ v.balance > 0 => Applied(v, amount) > 0
           /\ Paid(v, amount) \in Invoice /\ PaidMore(v, Paid(v, amount), Applied(v, amount))
<1>1. v.balance \in Int /\ v.paid \in Int /\ v.total \in Int
  BY DEF Invoice
<1>2. PICK x : x = Applied(v, amount)
  OBVIOUS
<1>3. x \in Int /\ x <= v.balance /\ (amount > 0 /\ v.balance > 0 => x > 0)
  BY <1>1, <1>2 DEF Applied, Least
<1>4. PICK paid \in Int : paid = v.paid + x
  BY <1>1, <1>3
<1>5. PICK left \in Nat : left = IF v.total > paid THEN v.total - paid ELSE 0
  BY <1>1, <1>4
<1>6. left = v.balance - x
  BY <1>1, <1>3, <1>4, <1>5
<1>7. PICK status \in {"open", "partially_paid", "paid"} :
         status = IF left = 0 THEN "paid" ELSE IF paid > 0 THEN "partially_paid" ELSE "open"
  OBVIOUS
<1>8. PICK w : w = [v EXCEPT !.paid = paid, !.balance = left, !.status = status]
  OBVIOUS
<1>9. Paid(v, amount) = w
  BY <1>2, <1>4, <1>5, <1>7, <1>8 DEF Paid
<1>10. /\ w \in Invoice /\ w.no = v.no /\ w.school = v.school /\ w.student = v.student
       /\ w.due = v.due /\ w.total = v.total /\ w.paid = paid /\ w.balance = left /\ w.status = status
  <2>1. w \in Invoice
    <3>1. left \in Int /\ paid \in Int
      OBVIOUS
    <3> QED
      BY <1>8, <3>1 DEF Invoice
  <2>2. /\ w.no = v.no /\ w.school = v.school /\ w.student = v.student /\ w.due = v.due
        /\ w.total = v.total
    BY <1>8 DEF Invoice
  <2>3. w.paid = paid /\ w.balance = left /\ w.status = status
    BY <1>8 DEF Invoice
  <2> QED
    BY <2>1, <2>2, <2>3
<1>11. left >= 0 /\ (status = "paid" <=> left = 0)
  BY <1>7
<1>12. PaidMore(v, w, x)
  BY <1>4, <1>6, <1>10, <1>11 DEF PaidMore
<1> QED
  BY <1>2, <1>3, <1>9, <1>10, <1>12

\* A collection changes one invoice, the first with the number, and puts the receipt
\* of what was applied on top of the others.
CollectedOn(i, w, e, x) ==
    /\ i \in 1..Len(invoices) /\ w \in Invoice /\ e \in Receipt /\ x \in Int
    /\ PaidMore(invoices[i], w, x)
    /\ e.school = invoices[i].school /\ e.student = invoices[i].student /\ e.amount = x
    /\ invoices' = [invoices EXCEPT ![i] = w] /\ receipts' = <<e>> \o receipts

Balanced == \A i \in 1..Len(invoices) : invoices[i].paid + invoices[i].balance = invoices[i].total

LEMMA Collected ==
    ASSUME TypeOK, Balanced, NEW no, NEW amount \in Int, NEW channel, Collect(no, amount, channel)
    PROVE  \E i, w, e : /\ CollectedOn(i, w, e, Applied(invoices[i], amount))
                        /\ i = FirstOf(WithNumber(no)) /\ i # 0
<1>1. PICK i : i = FirstOf(WithNumber(no))
  OBVIOUS
<1>2. /\ i # 0 /\ invoices' = [invoices EXCEPT ![i] = Paid(invoices[i], amount)]
      /\ receipts' = <<Booked(invoices[i], amount, channel)>> \o receipts
  BY <1>1 DEF Collect, Find, FirstOf, WithNumber
<1>3. i \in 1..Len(invoices)
  <2>1. WithNumber(no) \in SUBSET (Nat \ {0})
    BY DEF WithNumber
  <2>2. i \in WithNumber(no)
    BY <1>1, <1>2, <2>1, FirstIsLeast
  <2> QED
    BY <2>2 DEF WithNumber
<1>4. PICK v \in Invoice : v = invoices[i]
  BY <1>3, ElementOfSeq DEF TypeOK
<1>5. v.paid + v.balance = v.total
  BY <1>3, <1>4 DEF Balanced
<1>6. PICK x, w : x = Applied(v, amount) /\ w = Paid(v, amount)
  OBVIOUS
<1>7. x \in Int /\ w \in Invoice /\ PaidMore(v, w, x)
  BY <1>5, <1>6, PaymentApplied
<1>8. PICK e : e = Booked(v, amount, channel)
  OBVIOUS
<1>9. e \in Receipt /\ e.school = v.school /\ e.student = v.student /\ e.amount = x
  <2>1. PICK seq \in Nat : seq = Len(receipts) + 1
    BY DEF TypeOK
  <2>2. [year |-> ThisYear, seq |-> seq] \in Number
    BY SchoolConstants DEF Number
  <2>3. PICK number \in Number : number = [year |-> ThisYear, seq |-> seq]
    BY <2>2
  <2>4. e = [no |-> number, school |-> v.school, student |-> v.student, amount |-> x,
             matched |-> channel = "branch"]
    BY <1>6, <1>8, <2>1, <2>3 DEF Booked
  <2>5. v.school \in Schools /\ v.student \in StudentIds
    BY DEF Invoice
  <2> QED
    BY <1>7, <2>4, <2>5 DEF Receipt
<1>10. CollectedOn(i, w, e, x)
  BY <1>2, <1>3, <1>4, <1>6, <1>7, <1>8, <1>9 DEF CollectedOn
<1> QED
  BY <1>1, <1>2, <1>4, <1>6, <1>10

-----------------------------------------------------------------------------
(* What the sums over the lists come to.                                         *)

PaidOf(s) == [i \in 1..Len(s) |-> s[i].paid]
AmountOf(s) == [i \in 1..Len(s) |-> s[i].amount]

LEMMA PositionsOf ==
    ASSUME NEW S, NEW s \in Seq(S), NEW school, NEW student
    PROVE  /\ Of(school, student, s) \in SUBSET Nat /\ IsFiniteSet(Of(school, student, s))
           /\ Of(school, student, s) \in SUBSET (1..Len(s))
<1>1. IsFiniteSet(1..Len(s)) /\ Of(school, student, s) \in SUBSET (1..Len(s))
  BY FS_Interval DEF Of
<1> QED
  BY <1>1, FS_Subset

LEMMA PaidIsInteger ==
    ASSUME NEW s \in Seq(Invoice), NEW T \in SUBSET (1..Len(s)) PROVE IntegerOn(PaidOf(s), T)
<1>1. ASSUME NEW i \in T PROVE PaidOf(s)[i] \in Int
  <2>1. i \in 1..Len(s) /\ s[i] \in Invoice
    BY ElementOfSeq
  <2>2. s[i].paid \in Int
    BY <2>1 DEF Invoice
  <2> QED
    BY <2>1, <2>2 DEF PaidOf
<1> QED
  BY <1>1 DEF IntegerOn

LEMMA AmountIsInteger ==
    ASSUME NEW s \in Seq(Receipt), NEW T \in SUBSET (1..Len(s)) PROVE IntegerOn(AmountOf(s), T)
<1>1. ASSUME NEW i \in T PROVE AmountOf(s)[i] \in Int
  <2>1. i \in 1..Len(s) /\ s[i] \in Receipt
    BY ElementOfSeq
  <2>2. s[i].amount \in Int
    BY <2>1 DEF Receipt
  <2> QED
    BY <2>1, <2>2 DEF AmountOf
<1> QED
  BY <1>1 DEF IntegerOn

LEMMA SumsAreIntegers ==
    ASSUME NEW school, NEW student
    PROVE  /\ \A s \in Seq(Invoice) : PaidBy(school, student, s) \in Int
           /\ \A s \in Seq(Receipt) : ReceiptedTo(school, student, s) \in Int
<1>1. ASSUME NEW s \in Seq(Invoice) PROVE PaidBy(school, student, s) \in Int
  <2>1. IsFiniteSet(Of(school, student, s)) /\ IntegerOn(PaidOf(s), Of(school, student, s))
    BY PositionsOf, PaidIsInteger
  <2> QED
    BY <2>1, SumIsInteger DEF PaidBy, PaidOf
<1>2. ASSUME NEW s \in Seq(Receipt) PROVE ReceiptedTo(school, student, s) \in Int
  <2>1. IsFiniteSet(Of(school, student, s)) /\ IntegerOn(AmountOf(s), Of(school, student, s))
    BY PositionsOf, AmountIsInteger
  <2> QED
    BY <2>1, SumIsInteger DEF ReceiptedTo, AmountOf
<1> QED
  BY <1>1, <1>2

\* One list in front of another: where they are.
Joined(t, new, old) ==
    /\ Len(t) = Len(new) + Len(old)
    /\ \A k \in 1..Len(new) : k \in 1..Len(t) /\ t[k] = new[k]
    /\ \A i \in 1..Len(old) : Len(new) + i \in 1..Len(t) /\ t[Len(new) + i] = old[i]
    /\ \A i \in 1..Len(t) : i \in 1..Len(new) \/ \E j \in 1..Len(old) : i = Len(new) + j

LEMMA JoinedIs ==
    ASSUME NEW S, NEW new \in Seq(S), NEW old \in Seq(S), NEW t, t = new \o old
    PROVE  t \in Seq(S) /\ Joined(t, new, old)
<1>1. PICK n, l \in Nat : n = Len(new) /\ l = Len(old)
  OBVIOUS
<1>2. /\ t \in Seq(S) /\ Len(t) = n + l
      /\ \A i \in 1..(n + l) : t[i] = IF i <= n THEN new[i] ELSE old[i - n]
  BY <1>1, ConcatProperties
<1>3. ASSUME NEW k \in 1..n PROVE k \in 1..(n + l) /\ t[k] = new[k]
  BY <1>2
<1>4. ASSUME NEW i \in 1..l PROVE n + i \in 1..(n + l) /\ t[n + i] = old[i]
  <2>1. PICK j : j = n + i /\ j \in 1..(n + l) /\ ~(j <= n) /\ j - n = i
    OBVIOUS
  <2> QED
    BY <1>2, <2>1
<1>5. ASSUME NEW i \in 1..(n + l), i \notin 1..n PROVE \E j \in 1..l : i = n + j
  <2>1. i - n \in 1..l /\ i = n + (i - n)
    BY <1>5
  <2> QED
    BY <2>1
<1> QED
  BY <1>1, <1>2, <1>3, <1>4, <1>5 DEF Joined

\* The positions of a student's records move behind the new ones.
LEMMA PositionsMove ==
    ASSUME NEW S, NEW new \in Seq(S), NEW old \in Seq(S), NEW t, t = new \o old,
           NEW school, NEW student
    PROVE  Of(school, student, t) \ (1..Len(new)) = MovedBy(Of(school, student, old), Len(new))
<1>1. PICK n, l \in Nat : n = Len(new) /\ l = Len(old)
  OBVIOUS
<1>2. /\ Len(t) = n + l
      /\ \A i \in 1..l : n + i \in 1..Len(t) /\ t[n + i] = old[i]
      /\ \A i \in 1..Len(t) : i \in 1..n \/ \E j \in 1..l : i = n + j
  <2>1. Joined(t, new, old)
    BY JoinedIs
  <2> QED
    BY <1>1, <2>1 DEF Joined
<1>3. ASSUME NEW i \in Of(school, student, t), i \notin 1..n
      PROVE  i \in MovedBy(Of(school, student, old), n)
  <2>1. PICK j \in 1..l : i = n + j
    BY <1>2, <1>3 DEF Of
  <2>2. old[j].school = school /\ old[j].student = student
    BY <1>2, <1>3, <2>1 DEF Of
  <2>3. j \in Of(school, student, old) /\ i = j + n
    BY <1>1, <2>1, <2>2 DEF Of
  <2> QED
    BY <2>3 DEF MovedBy
<1>4. ASSUME NEW i \in MovedBy(Of(school, student, old), n)
      PROVE  i \in Of(school, student, t) /\ i \notin 1..n
  <2>1. PICK j \in Of(school, student, old) : i = j + n
    BY <1>4 DEF MovedBy
  <2>2. j \in 1..l /\ i = n + j /\ old[j].school = school /\ old[j].student = student
    BY <1>1, <2>1 DEF Of
  <2>3. i \in 1..Len(t) /\ t[i] = old[j] /\ i \notin 1..n
    BY <1>2, <2>2
  <2> QED
    BY <2>2, <2>3 DEF Of
<1> QED
  BY <1>1, <1>3, <1>4

\* What a list shows at the positions of another it was put in front of.
LEMMA JoinedShows ==
    ASSUME NEW S, NEW new \in Seq(S), NEW old \in Seq(S), NEW t, t = new \o old,
           NEW T \in SUBSET (1..Len(old))
    PROVE  /\ Len(new) \in Nat
           /\ S \subseteq Invoice => Shows(PaidOf(t), PaidOf(old), T, Len(new))
           /\ S \subseteq Receipt => Shows(AmountOf(t), AmountOf(old), T, Len(new))
<1>1. PICK n, l \in Nat : n = Len(new) /\ l = Len(old)
  OBVIOUS
<1>2. \A i \in 1..l : n + i \in 1..Len(t) /\ t[n + i] = old[i]
  <2>1. Joined(t, new, old)
    BY JoinedIs
  <2> QED
    BY <1>1, <2>1 DEF Joined
<1>3. ASSUME NEW i \in T
      PROVE  PaidOf(t)[i + n] = PaidOf(old)[i] /\ AmountOf(t)[i + n] = AmountOf(old)[i]
  <2>1. PICK j : j = i + n /\ j = n + i
    BY <1>1
  <2>2. i \in 1..Len(old) /\ j \in 1..Len(t) /\ t[j] = old[i]
    BY <1>1, <1>2, <2>1
  <2>3. /\ PaidOf(t)[j] = t[j].paid /\ AmountOf(t)[j] = t[j].amount
        /\ PaidOf(old)[i] = old[i].paid /\ AmountOf(old)[i] = old[i].amount
    BY <2>2 DEF PaidOf, AmountOf
  <2> QED
    BY <2>1, <2>2, <2>3
<1> QED
  BY <1>1, <1>3 DEF Shows

\* Invoices of which nothing is paid add nothing to what is paid.
Unpaid(new) == \A k \in 1..Len(new) : new[k].paid = 0
InFront(t, new, old) == t = new \o old

LEMMA NothingPaidAdds ==
    ASSUME NEW new \in Seq(Invoice), NEW old \in Seq(Invoice), NEW t, InFront(t, new, old),
           Unpaid(new), NEW school, NEW student
    PROVE  PaidBy(school, student, t) = PaidBy(school, student, old)
<1>1. PICK g, k, S, T, n : /\ g = PaidOf(old) /\ k = PaidOf(t) /\ n = Len(new)
                           /\ S = Of(school, student, old) /\ T = Of(school, student, t)
  OBVIOUS
<1>2. S \in SUBSET Nat /\ IsFiniteSet(S) /\ S \in SUBSET (1..Len(old)) /\ IntegerOn(g, S)
  BY <1>1, PositionsOf, PaidIsInteger
<1>13. t = new \o old
  BY DEF InFront
<1>3. n \in Nat /\ Shows(k, g, S, n)
  BY <1>1, <1>2, <1>13, JoinedShows
<1>4. T \ (1..n) = MovedBy(S, n)
  BY <1>1, <1>13, PositionsMove
<1>5. \A i \in 1..n : k[i] = 0
  <2>1. Joined(t, new, old)
    BY <1>13, JoinedIs
  <2>2. ASSUME NEW i \in 1..n PROVE k[i] = 0
    <3>1. i \in 1..Len(t) /\ t[i] = new[i] /\ new[i].paid = 0
      BY <1>1, <2>1 DEF Joined, Unpaid
    <3> QED
      BY <1>1, <3>1 DEF PaidOf
  <2> QED
    BY <2>2
<1>6. PICK A : A = T \cap (1..n)
  OBVIOUS
<1>7. IntegerOn(k, A) /\ IsFiniteSet(A) /\ \A i \in A : k[i] = 0
  <2>1. IsFiniteSet(1..n)
    BY <1>3, FS_Interval
  <2>2. IsFiniteSet(A)
    BY <1>6, <2>1, FS_Subset
  <2>3. \A i \in A : k[i] = 0
    BY <1>5, <1>6
  <2> QED
    BY <2>2, <2>3 DEF IntegerOn
<1>8. SumFunctionOnSet(k, A) = 0
  BY <1>7, SumOfZeros
<1>9. SumFunctionOnSet(k, T) = SumFunctionOnSet(k, A) + SumFunctionOnSet(g, S)
  BY <1>2, <1>3, <1>4, <1>6, <1>7, SumOfPrefixed
<1>10. SumFunctionOnSet(g, S) \in Int
  BY <1>2, SumIsInteger
<1>11. PaidBy(school, student, t) = SumFunctionOnSet(k, T)
  BY <1>1 DEF PaidBy, PaidOf
<1>12. PaidBy(school, student, old) = SumFunctionOnSet(g, S)
  BY <1>1 DEF PaidBy, PaidOf
<1> QED
  BY <1>8, <1>9, <1>10, <1>11, <1>12

\* A receipt adds its amount to what its student's receipts come to.
LEMMA ReceiptAdds ==
    ASSUME NEW old \in Seq(Receipt), NEW e \in Receipt, NEW t, InFront(t, <<e>>, old),
           NEW school, NEW student
    PROVE  ReceiptedTo(school, student, t)
               = (IF e.school = school /\ e.student = student THEN e.amount ELSE 0)
                     + ReceiptedTo(school, student, old)
<1>1. PICK new \in Seq(Receipt) : new = <<e>> /\ Len(new) = 1 /\ new[1] = e
  <2>1. <<e>> \in Seq(Receipt) /\ Len(<<e>>) = 1 /\ <<e>>[1] = e
    OBVIOUS
  <2> QED
    BY <2>1
<1>2. t = new \o old
  BY <1>1 DEF InFront
<1>3. PICK g, k, S, T : /\ g = AmountOf(old) /\ k = AmountOf(t)
                        /\ S = Of(school, student, old) /\ T = Of(school, student, t)
  OBVIOUS
<1>4. S \in SUBSET Nat /\ IsFiniteSet(S) /\ S \in SUBSET (1..Len(old)) /\ IntegerOn(g, S)
  BY <1>3, PositionsOf, AmountIsInteger
<1>5. Shows(k, g, S, 1)
  BY <1>1, <1>2, <1>3, <1>4, JoinedShows
<1>6. T \ {1} = MovedBy(S, 1)
  <2>1. T \ (1..Len(new)) = MovedBy(S, Len(new))
    BY <1>2, <1>3, PositionsMove
  <2>2. 1..Len(new) = {1}
    BY <1>1
  <2> QED
    BY <1>1, <2>1, <2>2
<1>7. 1 \in 1..Len(t) /\ t[1] = e
  <2>1. Joined(t, new, old)
    BY <1>2, JoinedIs
  <2> QED
    BY <1>1, <2>1 DEF Joined
<1>8. k[1] = e.amount /\ e.amount \in Int
  BY <1>3, <1>7 DEF AmountOf, Receipt
<1>9. 1 \in T <=> e.school = school /\ e.student = student
  BY <1>3, <1>7 DEF Of
<1>10. SumFunctionOnSet(k, T) = (IF 1 \in T THEN k[1] ELSE 0) + SumFunctionOnSet(g, S)
  BY <1>4, <1>5, <1>6, <1>8, SumOfPrepended
<1>11. ReceiptedTo(school, student, t) = SumFunctionOnSet(k, T)
  BY <1>3 DEF ReceiptedTo, AmountOf
<1>12. ReceiptedTo(school, student, old) = SumFunctionOnSet(g, S)
  BY <1>3 DEF ReceiptedTo, AmountOf
<1> QED
  BY <1>8, <1>9, <1>10, <1>11, <1>12

\* What is paid on one invoice more is paid by its student more.
PutAt(t, i, w, old) == t = [old EXCEPT ![i] = w]

LEMMA PaymentAdds ==
    ASSUME NEW old \in Seq(Invoice), NEW i \in 1..Len(old), NEW w \in Invoice, NEW x \in Int,
           PaidMore(old[i], w, x), NEW t, PutAt(t, i, w, old), NEW school, NEW student
    PROVE  PaidBy(school, student, t)
               = (IF old[i].school = school /\ old[i].student = student THEN x ELSE 0)
                     + PaidBy(school, student, old)
<1>1. /\ t \in Seq(Invoice) /\ Len(t) = Len(old) /\ t[i] = w
      /\ \A j \in 1..Len(old) : j # i => t[j] = old[j]
  <2>1. t = [old EXCEPT ![i] = w]
    BY DEF PutAt
  <2> QED
    BY <2>1, ExceptSeq
<1>2. PICK g, k, S : /\ g = PaidOf(old) /\ k = PaidOf(t) /\ S = Of(school, student, old)
  OBVIOUS
<1>3. S = Of(school, student, t)
  <2>1. w.school = old[i].school /\ w.student = old[i].student
    BY DEF PaidMore
  <2>2. \A j \in 1..Len(old) : t[j].school = old[j].school /\ t[j].student = old[j].student
    BY <1>1, <2>1
  <2> QED
    BY <1>1, <1>2, <2>2 DEF Of
<1>4. /\ IsFiniteSet(S) /\ S \in SUBSET (1..Len(old)) /\ IntegerOn(g, S) /\ IntegerOn(k, S)
  <2>1. IsFiniteSet(S) /\ S \in SUBSET (1..Len(old)) /\ S \in SUBSET (1..Len(t))
    BY <1>1, <1>2, PositionsOf
  <2> QED
    BY <1>1, <1>2, <2>1, PaidIsInteger
<1>5. ASSUME NEW j \in S, j # i PROVE k[j] = g[j]
  <2>1. j \in 1..Len(old) /\ j \in 1..Len(t) /\ t[j] = old[j]
    BY <1>1, <1>4, <1>5
  <2> QED
    BY <1>2, <2>1 DEF PaidOf
<1>6. SumFunctionOnSet(g, S) \in Int
  BY <1>4, SumIsInteger
<1>7. /\ PaidBy(school, student, old) = SumFunctionOnSet(g, S)
      /\ PaidBy(school, student, t) = SumFunctionOnSet(k, S)
  BY <1>2, <1>3 DEF PaidBy, PaidOf
<1>8. i \in S <=> old[i].school = school /\ old[i].student = student
  BY <1>2 DEF Of
<1>9. CASE i \in S
  <2>1. SumFunctionOnSet(k, S) = SumFunctionOnSet(g, S) + (k[i] - g[i])
    BY <1>4, <1>5, <1>9, SumChanges
  <2>2. k[i] = w.paid /\ g[i] = old[i].paid
    BY <1>1, <1>2 DEF PaidOf
  <2>3. old[i].paid \in Int
    <3>1. old[i] \in Invoice
      BY ElementOfSeq
    <3> QED
      BY <3>1 DEF Invoice
  <2>4. k[i] - g[i] = x
    BY <2>2, <2>3 DEF PaidMore
  <2> QED
    BY <1>6, <1>7, <1>8, <1>9, <2>1, <2>4
<1>10. CASE i \notin S
  <2>1. \A j \in S : g[j] = k[j]
    BY <1>5, <1>10
  <2>2. SumFunctionOnSet(g, S) = SumFunctionOnSet(k, S)
    BY <1>4, <2>1, SumAgrees
  <2> QED
    BY <1>6, <1>7, <1>8, <1>10, <2>2
<1> QED
  BY <1>9, <1>10

-----------------------------------------------------------------------------
(* The inductive invariant.                                                      *)

\* An invoice the batches wrote has the number of its place from the end; behind
\* those are the fixtures, with the numbers they came with.
Numbered(s) ==
    \E n \in Nat :
        /\ Len(s) = n + Len(SeedInvoices)
        /\ \A i \in 1..n : s[i].no.seq = Len(s) + 1 - i
        /\ \A j \in 1..Len(SeedInvoices) : s[n + j].no = SeedInvoices[j].no

\* Nothing is left on a paid invoice, and something on an open one, unless it is of
\* a plan that charges nothing.
MarkedAs(v) ==
    /\ v.status = "paid" => v.balance = 0
    /\ v.status # "paid" => v.balance > 0 \/ v.total <= 0
Marked(s) == \A i \in 1..Len(s) : MarkedAs(s[i])

InvoicesInv == OneInvoicePerDueDate /\ ReceiptsMatchInvoices /\ Numbered(invoices)

BooksInv == TypeOK /\ InvoicesInv /\ Marked(invoices)

\* The fixtures are books in order.
LEMMA SeedsAreInOrder ==
    /\ \A s, d : ReceiptedTo(s, d, SeedReceipts) - ReceiptedTo(s, d, SeedReceipts)
                     = PaidBy(s, d, SeedInvoices) - PaidBy(s, d, SeedInvoices)
    /\ Numbered(SeedInvoices) /\ Marked(SeedInvoices)
<1>1. ASSUME NEW s, NEW d
      PROVE  ReceiptedTo(s, d, SeedReceipts) - ReceiptedTo(s, d, SeedReceipts)
                 = PaidBy(s, d, SeedInvoices) - PaidBy(s, d, SeedInvoices)
  <2>1. PICK x, y \in Int : x = ReceiptedTo(s, d, SeedReceipts) /\ y = PaidBy(s, d, SeedInvoices)
    BY SchoolConstants, SumsAreIntegers
  <2>2. x - x = y - y
    OBVIOUS
  <2> QED
    BY <2>1, <2>2
<1>2. Numbered(SeedInvoices)
  <2>1. PICK l \in Nat : l = Len(SeedInvoices)
    BY SchoolConstants
  <2>2. l = 0 + l /\ 1..0 = {} /\ \A j \in 1..l : 0 + j = j
    OBVIOUS
  <2>3. \A j \in 1..l : SeedInvoices[0 + j].no = SeedInvoices[j].no
    BY <2>2
  <2> QED
    BY <2>1, <2>2, <2>3 DEF Numbered
<1>3. Marked(SeedInvoices)
  <2>1. ASSUME NEW i \in 1..Len(SeedInvoices) PROVE MarkedAs(SeedInvoices[i])
    <3>1. SeedInvoices[i] \in Invoice
      BY SchoolConstants, ElementOfSeq
    <3>2. PICK b \in Int : b = SeedInvoices[i].balance
      BY <3>1 DEF Invoice
    <3>3. (SeedInvoices[i].status = "paid" <=> b = 0) /\ b >= 0
      BY <3>2, FixtureConstants
    <3> QED
      BY <3>2, <3>3 DEF MarkedAs
  <2> QED
    BY <2>1 DEF Marked
<1> QED
  BY <1>1, <1>2, <1>3

LEMMA BooksInit ==
    ASSUME students = SeedStudents, plans = SeedPlans, invoices = SeedInvoices,
           receipts = SeedReceipts, workload \in Workloads
    PROVE  BooksInv
<1>1. TypeOK
  BY SchoolConstants DEF TypeOK
<1>2. OneInvoicePerDueDate
  BY FixtureConstants DEF OneInvoicePerDueDate
<1>3. ReceiptsMatchInvoices
  BY FixtureConstants, SeedsAreInOrder DEF ReceiptsMatchInvoices
<1> QED
  BY <1>1, <1>2, <1>3, SeedsAreInOrder DEF BooksInv, InvoicesInv

LEMMA RestartKeepsTheBooks == ASSUME BooksInv, Restart PROVE BooksInv'
<1>1. TypeOK'
  BY SchoolConstants DEF TypeOK, BooksInv, Restart
<1>2. OneInvoicePerDueDate'
  BY FixtureConstants DEF OneInvoicePerDueDate, Restart
<1>3. ReceiptsMatchInvoices'
  BY FixtureConstants, SeedsAreInOrder DEF ReceiptsMatchInvoices, Restart
<1>4. Marked(invoices)'
  BY SeedsAreInOrder DEF Restart
<1>5. Numbered(invoices)'
  BY SeedsAreInOrder DEF Restart
<1> QED
  BY <1>1, <1>2, <1>3, <1>4, <1>5 DEF BooksInv, InvoicesInv

LEMMA InvoicesUntouched ==
    ASSUME InvoicesInv, UNCHANGED <<invoices, receipts>> PROVE InvoicesInv'
  BY DEF InvoicesInv, OneInvoicePerDueDate, ReceiptsMatchInvoices

LEMMA ImportKeepsTheBooks ==
    ASSUME BooksInv, NEW school \in Schools, NEW class \in workload.classes,
           ImportStudents(school, class)
    PROVE  BooksInv'
<1>1. class \in Seq([student: StudentIds, grade: Grades])
  <2>1. workload \in Workload
    BY SchoolConstants DEF BooksInv, TypeOK
  <2> QED
    BY <2>1 DEF Workload
<1>2. PICK n \in Nat : n = Len(class)
  BY <1>1
<1>3. PICK new : new = [i \in 1..n |-> [school |-> school, student |-> class[n + 1 - i].student,
                                        grade |-> class[n + 1 - i].grade]]
  OBVIOUS
<1>4. students' = new \o students /\ UNCHANGED <<plans, invoices, receipts, workload>>
  BY <1>2, <1>3 DEF ImportStudents
<1>5. new \in Seq(Student)
  <2>1. ASSUME NEW i \in 1..n PROVE new[i] \in Student
    <3>1. PICK j \in 1..Len(class) : j = n + 1 - i
      BY <1>2
    <3>2. class[j] \in [student: StudentIds, grade: Grades]
      BY <1>1, ElementOfSeq
    <3>3. new[i] = [school |-> school, student |-> class[j].student, grade |-> class[j].grade]
      BY <1>3, <3>1
    <3> QED
      BY <3>2, <3>3 DEF Student
  <2>2. new \in [1..n -> Student]
    BY <1>3, <2>1
  <2> QED
    BY <2>2
<1>6. TypeOK'
  <2>1. new \o students \in Seq(Student)
    BY <1>5, ConcatProperties DEF BooksInv, TypeOK
  <2> QED
    BY <1>4, <2>1 DEF BooksInv, TypeOK
<1>7. InvoicesInv'
  BY <1>4, InvoicesUntouched DEF BooksInv
<1> QED
  BY <1>4, <1>6, <1>7 DEF BooksInv

LEMMA PlanKeepsTheBooks ==
    ASSUME BooksInv, NEW plan \in workload.newPlans, CreateFeePlan(plan)
    PROVE  BooksInv'
<1>1. plan \in Plan
  <2>1. workload \in Workload
    BY SchoolConstants DEF BooksInv, TypeOK
  <2> QED
    BY <2>1 DEF Workload
<1>2. PICK old : old = plans /\ old \in Seq(Plan)
  BY DEF BooksInv, TypeOK
<1>3. PICK new \in Seq(Plan) : new = <<plan>> /\ Len(new) = 1 /\ new[1] = plan
  <2>1. <<plan>> \in Seq(Plan) /\ Len(<<plan>>) = 1 /\ <<plan>>[1] = plan
    BY <1>1
  <2> QED
    BY <2>1
<1>4. PICK t : t = new \o old /\ t = plans' /\ UNCHANGED <<students, invoices, receipts, workload>>
  BY <1>2, <1>3 DEF CreateFeePlan
<1>5. t \in Seq(Plan) /\ Joined(t, new, old)
  BY <1>2, <1>4, JoinedIs
<1>6. TypeOK'
  BY <1>4, <1>5 DEF BooksInv, TypeOK
<1>7. InvoicesInv'
  BY <1>4, InvoicesUntouched DEF BooksInv
<1> QED
  BY <1>4, <1>6, <1>7 DEF BooksInv

\* A batch bills nobody a second time for the date, and what it writes is unpaid.
LEMMA BatchKeepsTheBooks ==
    ASSUME BooksInv, NEW p \in workload.payloads, GenerateBatch(p)
    PROVE  BooksInv'
<1>1. p \in Payload
  <2>1. workload \in Workload
    BY SchoolConstants DEF BooksInv, TypeOK
  <2> QED
    BY <2>1 DEF Workload
<1>2. PICK new \in Seq(Invoice) : BatchFor(p, new) /\ invoices' = new \o invoices
  BY <1>1, GeneratedBatch DEF BooksInv
<1>3. PICK old \in Seq(Invoice) : old = invoices
  BY DEF BooksInv, TypeOK
<1>4. PICK t : t = new \o old /\ t = invoices'
  BY <1>2, <1>3
<1>5. UNCHANGED <<students, plans, receipts, workload>>
  BY DEF GenerateBatch
<1>6. t \in Seq(Invoice) /\ Joined(t, new, old)
  BY <1>4, JoinedIs
<1>7. TypeOK'
  BY <1>4, <1>5, <1>6 DEF BooksInv, TypeOK
<1>8. ASSUME NEW i \in 1..Len(t)
      PROVE  \/ i \in 1..Len(new) /\ t[i] = new[i]
             \/ \E j \in 1..Len(old) : i = Len(new) + j /\ t[i] = old[j]
  BY <1>6 DEF Joined
<1>9. ASSUME NEW k \in 1..Len(new), NEW j \in 1..Len(old),
             new[k].school = old[j].school, new[k].student = old[j].student, new[k].due = old[j].due
      PROVE  FALSE
  <2>1. PICK i \in Unbilled(p) : new[k].student = students[i].student
    BY <1>2 DEF BatchFor
  <2>2. new[k].school = p.school /\ new[k].due = ResolveDueDate(p.term)
    BY <1>2 DEF BatchFor
  <2>3. ~Invoiced(p, students[i].student)
    BY DEF Unbilled
  <2> QED
    BY <1>3, <1>9, <2>1, <2>2, <2>3 DEF Invoiced
<1>10. ASSUME NEW i \in 1..Len(t), NEW j \in 1..Len(t),
              t[i].school = t[j].school, t[i].student = t[j].student, t[i].due = t[j].due
       PROVE  i = j
  <2>1. CASE i \in 1..Len(new) /\ t[i] = new[i]
    <3>1. CASE j \in 1..Len(new) /\ t[j] = new[j]
      BY <1>2, <1>10, <2>1, <3>1 DEF BatchFor
    <3>2. ASSUME NEW b \in 1..Len(old), t[j] = old[b] PROVE FALSE
      BY <1>9, <1>10, <2>1, <3>2
    <3> QED
      BY <1>8, <3>1, <3>2
  <2>2. ASSUME NEW a \in 1..Len(old), i = Len(new) + a, t[i] = old[a] PROVE i = j
    <3>1. CASE j \in 1..Len(new) /\ t[j] = new[j]
      BY <1>9, <1>10, <2>2, <3>1
    <3>2. ASSUME NEW b \in 1..Len(old), j = Len(new) + b, t[j] = old[b] PROVE i = j
      <4>1. a = b
        BY <1>3, <1>10, <2>2, <3>2 DEF BooksInv, InvoicesInv, OneInvoicePerDueDate
      <4> QED
        BY <2>2, <3>2, <4>1
    <3> QED
      BY <1>8, <3>1, <3>2
  <2> QED
    BY <1>8, <2>1, <2>2
<1>11. OneInvoicePerDueDate'
  BY <1>4, <1>10 DEF OneInvoicePerDueDate
<1>12. ReceiptsMatchInvoices'
  <2>1. ASSUME NEW i \in 1..Len(t) PROVE t[i].paid + t[i].balance = t[i].total
    <3>1. CASE i \in 1..Len(new) /\ t[i] = new[i]
      <4>1. new[i].paid = 0 /\ new[i].balance = new[i].total
        BY <1>2, <3>1 DEF BatchFor
      <4>2. new[i].total \in Int
        <5>1. new[i] \in Invoice
          BY <3>1, ElementOfSeq
        <5> QED
          BY <5>1 DEF Invoice
      <4> QED
        BY <3>1, <4>1, <4>2
    <3>2. ASSUME NEW j \in 1..Len(old), t[i] = old[j] PROVE t[i].paid + t[i].balance = t[i].total
      BY <1>3, <3>2 DEF BooksInv, InvoicesInv, ReceiptsMatchInvoices
    <3> QED
      BY <1>8, <3>1, <3>2
  <2>2. \A s, d : PaidBy(s, d, t) = PaidBy(s, d, old)
    <3>1. Unpaid(new)
      BY <1>2 DEF BatchFor, Unpaid
    <3>2. ASSUME NEW s, NEW d PROVE PaidBy(s, d, t) = PaidBy(s, d, old)
      <4>1. InFront(t, new, old)
        BY <1>4 DEF InFront
      <4> QED
        BY <3>1, <4>1, NothingPaidAdds
    <3> QED
      BY <3>2
  <2>3. \A s \in Schools, d \in StudentIds :
           ReceiptedTo(s, d, receipts) - ReceiptedTo(s, d, SeedReceipts)
               = PaidBy(s, d, t) - PaidBy(s, d, SeedInvoices)
    BY <1>3, <2>2 DEF BooksInv, InvoicesInv, ReceiptsMatchInvoices
  <2>4. receipts' = receipts
    BY <1>5
  <2> QED
    BY <1>4, <2>1, <2>3, <2>4 DEF ReceiptsMatchInvoices
<1>13. Numbered(t)
  <2>1. PICK m, l, q \in Nat : m = Len(new) /\ l = Len(old) /\ q = Len(SeedInvoices)
    <3>1. Len(new) \in Nat
      OBVIOUS
    <3>2. Len(old) \in Nat
      OBVIOUS
    <3>3. Len(SeedInvoices) \in Nat
      BY SchoolConstants
    <3> QED
      BY <3>1, <3>2, <3>3, Zenon
  <2>2. PICK n \in Nat : /\ l = n + q /\ \A i \in 1..n : old[i].no.seq = l + 1 - i
                         /\ \A j \in 1..q : old[n + j].no = SeedInvoices[j].no
    BY <1>3, <2>1 DEF BooksInv, InvoicesInv, Numbered
  <2>3. /\ Len(t) = m + l /\ \A k \in 1..m : t[k] = new[k]
        /\ \A j \in 1..l : t[m + j] = old[j]
    BY <1>6, <2>1 DEF Joined
  <2>4. \A k \in 1..m : new[k].no.seq = l + (m + 1 - k)
    BY <1>2, <1>3, <2>1 DEF BatchFor
  <2>5. ASSUME NEW i \in 1..(m + n) PROVE t[i].no.seq = (m + l) + 1 - i
    <3>1. CASE i \in 1..m
      BY <2>3, <2>4, <3>1
    <3>2. CASE i \notin 1..m
      <4>1. PICK j \in 1..n : i = m + j
        <5>1. i - m \in 1..n /\ i = m + (i - m)
          BY <3>2
        <5> QED
          BY <5>1
      <4>2. j \in 1..l
        BY <2>2
      <4>3. t[i] = old[j] /\ old[j].no.seq = l + 1 - j
        BY <2>2, <2>3, <4>1, <4>2
      <4>4. l + 1 - j = (m + l) + 1 - i
        BY <4>1
      <4> QED
        BY <4>3, <4>4
    <3> QED
      BY <3>1, <3>2
  <2>6. ASSUME NEW j \in 1..q PROVE t[(m + n) + j].no = SeedInvoices[j].no
    <3>1. n + j \in 1..l /\ (m + n) + j = m + (n + j)
      BY <2>2
    <3>2. t[m + (n + j)] = old[n + j]
      BY <2>3, <3>1
    <3> QED
      BY <2>2, <3>1, <3>2
  <2>7. PICK N \in Nat : N = m + n /\ m + l = N + q
    BY <2>2
  <2>8. PICK L \in Nat : L = Len(t) /\ L = N + q
    BY <2>3, <2>7
  <2>9. \A i \in 1..N : t[i].no.seq = L + 1 - i
    BY <2>3, <2>5, <2>7, <2>8
  <2>10. \A j \in 1..q : t[N + j].no = SeedInvoices[j].no
    BY <2>6, <2>7
  <2> QED
    BY <2>1, <2>8, <2>9, <2>10 DEF Numbered
<1>14. Marked(t)
  <2>1. ASSUME NEW i \in 1..Len(t) PROVE MarkedAs(t[i])
    <3>1. CASE i \in 1..Len(new) /\ t[i] = new[i]
      <4>1. new[i].status = "open" /\ new[i].balance = new[i].total
        BY <1>2, <3>1 DEF BatchFor
      <4>2. new[i].total \in Int
        <5>1. new[i] \in Invoice
          BY <3>1, ElementOfSeq
        <5> QED
          BY <5>1 DEF Invoice
      <4>3. new[i].balance > 0 \/ new[i].total <= 0
        BY <4>1, <4>2
      <4> QED
        BY <3>1, <4>1, <4>3 DEF MarkedAs
    <3>2. ASSUME NEW j \in 1..Len(old), t[i] = old[j] PROVE MarkedAs(t[i])
      BY <1>3, <3>2 DEF BooksInv, Marked
    <3> QED
      BY <1>8, <3>1, <3>2
  <2> QED
    BY <2>1 DEF Marked
<1> QED
  BY <1>4, <1>7, <1>11, <1>12, <1>13, <1>14 DEF BooksInv, InvoicesInv

\* A payment reduces one invoice by what its receipt says.
LEMMA CollectionKeepsTheBooks ==
    ASSUME BooksInv, NEW no, NEW amount \in Int, NEW channel, Collect(no, amount, channel)
    PROVE  BooksInv'
<1>1. PICK i, w, e : CollectedOn(i, w, e, Applied(invoices[i], amount))
  BY Collected DEF BooksInv, InvoicesInv, ReceiptsMatchInvoices, Balanced
<1>2. PICK x : x = Applied(invoices[i], amount) /\ CollectedOn(i, w, e, x)
  BY <1>1
<1>3. PICK old \in Seq(Invoice), rs \in Seq(Receipt) : old = invoices /\ rs = receipts
  BY DEF BooksInv, TypeOK
<1>4. /\ i \in 1..Len(old) /\ w \in Invoice /\ e \in Receipt /\ x \in Int /\ PaidMore(old[i], w, x)
      /\ e.school = old[i].school /\ e.student = old[i].student /\ e.amount = x
  BY <1>2, <1>3 DEF CollectedOn
<1>5. PICK t, rt : /\ t = [old EXCEPT ![i] = w] /\ t = invoices'
                   /\ rt = <<e>> \o rs /\ rt = receipts'
  BY <1>2, <1>3 DEF CollectedOn
<1>6. UNCHANGED <<students, plans, workload>>
  BY DEF Collect
<1>7. /\ t \in Seq(Invoice) /\ Len(t) = Len(old) /\ t[i] = w
      /\ \A j \in 1..Len(old) : j # i => t[j] = old[j]
  BY <1>4, <1>5, ExceptSeq
<1>8. rt \in Seq(Receipt)
  <2>1. <<e>> \in Seq(Receipt)
    BY <1>4
  <2> QED
    BY <1>5, <2>1, ConcatProperties
<1>9. TypeOK'
  BY <1>5, <1>6, <1>7, <1>8 DEF BooksInv, TypeOK
<1>10. \A j \in 1..Len(old) : /\ t[j].no = old[j].no /\ t[j].school = old[j].school
                              /\ t[j].student = old[j].student /\ t[j].due = old[j].due
  BY <1>4, <1>7 DEF PaidMore
<1>11. OneInvoicePerDueDate'
  <2>1. ASSUME NEW a \in 1..Len(t), NEW b \in 1..Len(t),
               t[a].school = t[b].school, t[a].student = t[b].student, t[a].due = t[b].due
        PROVE  a = b
    BY <1>3, <1>7, <1>10, <2>1 DEF BooksInv, InvoicesInv, OneInvoicePerDueDate
  <2> QED
    BY <1>5, <2>1 DEF OneInvoicePerDueDate
<1>12. ASSUME NEW j \in 1..Len(t) PROVE t[j].paid + t[j].balance = t[j].total
  <2>1. j \in 1..Len(old) /\ old[j].paid + old[j].balance = old[j].total
    BY <1>3, <1>7 DEF BooksInv, InvoicesInv, ReceiptsMatchInvoices
  <2>2. CASE j = i
    <3>1. old[i] \in Invoice
      BY <1>4, ElementOfSeq
    <3>2. old[i].paid \in Int /\ old[i].balance \in Int
      BY <3>1 DEF Invoice
    <3> QED
      BY <1>4, <1>7, <2>1, <2>2, <3>2 DEF PaidMore
  <2> QED
    BY <1>7, <2>1, <2>2
<1>13. ReceiptsMatchInvoices'
  <2>1. ASSUME NEW s \in Schools, NEW d \in StudentIds
        PROVE  ReceiptedTo(s, d, rt) - ReceiptedTo(s, d, SeedReceipts)
                   = PaidBy(s, d, t) - PaidBy(s, d, SeedInvoices)
    <3>1. PICK y : y = IF old[i].school = s /\ old[i].student = d THEN x ELSE 0
      OBVIOUS
    <3>2. y \in Int
      BY <1>4, <3>1
    <3>3. PaidBy(s, d, t) = y + PaidBy(s, d, old)
      <4>1. PaidBy(s, d, t) = (IF old[i].school = s /\ old[i].student = d THEN x ELSE 0)
                                  + PaidBy(s, d, old)
        <5>1. PutAt(t, i, w, old)
          BY <1>5 DEF PutAt
        <5> QED
          BY <1>4, <5>1, PaymentAdds
      <4> QED
        BY <3>1, <4>1
    <3>4. ReceiptedTo(s, d, rt) = y + ReceiptedTo(s, d, rs)
      <4>1. ReceiptedTo(s, d, rt) = (IF e.school = s /\ e.student = d THEN e.amount ELSE 0)
                                        + ReceiptedTo(s, d, rs)
        <5>1. InFront(rt, <<e>>, rs)
          BY <1>5 DEF InFront
        <5> QED
          BY <1>4, <5>1, ReceiptAdds
      <4>2. y = IF e.school = s /\ e.student = d THEN e.amount ELSE 0
        BY <1>4, <3>1
      <4> QED
        BY <4>1, <4>2
    <3>5. ReceiptedTo(s, d, rs) - ReceiptedTo(s, d, SeedReceipts)
              = PaidBy(s, d, old) - PaidBy(s, d, SeedInvoices)
      BY <1>3 DEF BooksInv, InvoicesInv, ReceiptsMatchInvoices
    <3>6. /\ PaidBy(s, d, old) \in Int /\ PaidBy(s, d, SeedInvoices) \in Int
          /\ ReceiptedTo(s, d, rs) \in Int /\ ReceiptedTo(s, d, SeedReceipts) \in Int
      BY SchoolConstants, SumsAreIntegers
    <3>7. PICK a, b, c, f \in Int : /\ a = PaidBy(s, d, old) /\ b = PaidBy(s, d, SeedInvoices)
                                     /\ c = ReceiptedTo(s, d, rs)
                                     /\ f = ReceiptedTo(s, d, SeedReceipts)
      BY <3>6
    <3>8. c - f = a - b => (y + c) - f = (y + a) - b
      BY <3>2
    <3> QED
      BY <3>3, <3>4, <3>5, <3>7, <3>8
  <2> QED
    BY <1>5, <1>12, <2>1 DEF ReceiptsMatchInvoices
<1>14. Numbered(t)
  <2>1. PICK l, q \in Nat : l = Len(old) /\ q = Len(SeedInvoices)
    BY SchoolConstants
  <2>2. PICK n \in Nat : /\ l = n + q /\ \A k \in 1..n : old[k].no.seq = l + 1 - k
                         /\ \A j \in 1..q : old[n + j].no = SeedInvoices[j].no
    BY <1>3, <2>1 DEF BooksInv, InvoicesInv, Numbered
  <2>3. \A k \in 1..n : k \in 1..l
    BY <2>2
  <2>4. \A j \in 1..q : n + j \in 1..l
    BY <2>2
  <2>5. \A k \in 1..n : t[k].no.seq = l + 1 - k
    BY <1>10, <2>1, <2>2, <2>3
  <2>6. \A j \in 1..q : t[n + j].no = SeedInvoices[j].no
    BY <1>10, <2>1, <2>2, <2>4
  <2> QED
    BY <1>7, <2>1, <2>2, <2>5, <2>6 DEF Numbered
<1>15. Marked(t)
  <2>1. PICK left \in Int : left = w.balance
    BY <1>4 DEF Invoice
  <2>2. left >= 0 /\ (w.status = "paid" <=> left = 0)
    BY <1>4, <2>1 DEF PaidMore
  <2>3. MarkedAs(w)
    BY <2>1, <2>2 DEF MarkedAs
  <2>4. \A j \in 1..Len(old) : MarkedAs(old[j])
    BY <1>3 DEF BooksInv, Marked
  <2> QED
    BY <1>7, <2>3, <2>4 DEF Marked
<1> QED
  BY <1>5, <1>9, <1>11, <1>13, <1>14, <1>15 DEF BooksInv, InvoicesInv

-----------------------------------------------------------------------------
(* The theorems.                                                                 *)

LEMMA BooksNext == ASSUME BooksInv, [Next]_vars PROVE BooksInv'
<1>1. workload.amounts \in SUBSET Int
  <2>1. workload \in Workload
    BY SchoolConstants DEF BooksInv, TypeOK
  <2> QED
    BY <2>1 DEF Workload
<1>2. ASSUME NEW s \in Schools, NEW c \in workload.classes, ImportStudents(s, c) PROVE BooksInv'
  BY <1>2, ImportKeepsTheBooks
<1>3. ASSUME NEW f \in workload.newPlans, CreateFeePlan(f) PROVE BooksInv'
  BY <1>3, PlanKeepsTheBooks
<1>4. ASSUME NEW p \in workload.payloads, GenerateBatch(p) PROVE BooksInv'
  BY <1>4, BatchKeepsTheBooks
<1>5. ASSUME NEW no \in NumbersOf(invoices), NEW amount \in workload.amounts, NEW c \in Channels,
             Collect(no, amount, c)
      PROVE  BooksInv'
  BY <1>1, <1>5, CollectionKeepsTheBooks
<1>6. ASSUME UNCHANGED vars PROVE BooksInv'
  <2>1. UNCHANGED <<students, plans, invoices, receipts, workload>>
    BY <1>6 DEF vars, books
  <2>2. InvoicesInv'
    BY <2>1, InvoicesUntouched DEF BooksInv
  <2> QED
    BY <2>1, <2>2 DEF BooksInv, TypeOK
<1>7. ASSUME NEW s \in Schools, NEW d \in StudentIds, NEW amount \in workload.amounts,
             NEW c \in Channels, RecordMemberPayment(s, d, amount, c)
      PROVE  BooksInv'
  <2>1. PICK no : UNCHANGED vars \/ Collect(no, amount, c)
    BY <1>7 DEF RecordMemberPayment
  <2> QED
    BY <1>1, <1>6, <2>1, CollectionKeepsTheBooks
<1>8. ASSUME Restart PROVE BooksInv'
  BY <1>8, RestartKeepsTheBooks
<1> QED
  BY <1>2, <1>3, <1>4, <1>5, <1>6, <1>7, <1>8 DEF Next

\* The inductive invariant of the books, through imports, plans, batches, payments
\* and restarts in any order.
THEOREM BooksInvariance == Spec => []BooksInv
<1>1. Init => BooksInv
  BY BooksInit DEF Init
<1>2. BooksInv /\ [Next]_vars => BooksInv'
  BY BooksNext
<1> QED
  BY <1>1, <1>2, PTL DEF Spec

\* The four services only ever keep records of their types: every batch finds the
\* plan it bills by, and a payment leaves an invoice one of its three statuses.
THEOREM BooksAreTyped == Spec => []TypeOK
<1>1. BooksInv => TypeOK
  BY DEF BooksInv
<1> QED
  BY <1>1, BooksInvariance, PTL

\* generateBatch bills no student of a school twice for a due date, whatever batches
\* overlap, whoever was imported twice, and whatever was paid in between.
THEOREM NobodyIsBilledTwice == Spec => []OneInvoicePerDueDate
<1>1. BooksInv => OneInvoicePerDueDate
  BY DEF BooksInv, InvoicesInv
<1> QED
  BY <1>1, BooksInvariance, PTL

\* What collect books in SchoolPaymentsService is, for every student, what
\* applyPayment took off the invoices in InvoicesService, for any amounts.
THEOREM ReceiptsAreWhatWasPaid == Spec => []ReceiptsMatchInvoices
<1>1. BooksInv => ReceiptsMatchInvoices
  BY DEF BooksInv, InvoicesInv
<1> QED
  BY <1>1, BooksInvariance, PTL

\* The student a batch comes to first under an id is billed by it, unless the student
\* was before.
LEMMA ScopeIsBilled ==
    ASSUME BooksInv, NEW p \in workload.payloads, GenerateBatch(p),
           NEW i \in 1..Len(students), Scoped(p, i)
    PROVE  Invoiced(p, students[i].student)'
<1>1. p \in Payload
  <2>1. workload \in Workload
    BY SchoolConstants DEF BooksInv, TypeOK
  <2> QED
    BY <2>1 DEF Workload
<1>2. PICK new \in Seq(Invoice) : BatchFor(p, new) /\ invoices' = new \o invoices
  BY <1>1, GeneratedBatch DEF BooksInv
<1>7. PICK old \in Seq(Invoice) : old = invoices
  BY DEF BooksInv, TypeOK
<1>3. PICK t, d : t = new \o old /\ t = invoices' /\ old = invoices /\ d = students[i].student
  BY <1>2, <1>7
<1>4. Joined(t, new, old)
  BY <1>3, JoinedIs
<1>5. d = students'[i].student
  BY <1>3 DEF GenerateBatch
<1>6. \E j \in 1..Len(t) : /\ t[j].school = p.school /\ t[j].student = d
                           /\ t[j].due = ResolveDueDate(p.term)
  <2>1. CASE Invoiced(p, d)
    <3>1. PICK j \in 1..Len(old) : /\ old[j].school = p.school /\ old[j].student = d
                                   /\ old[j].due = ResolveDueDate(p.term)
      BY <1>3, <2>1 DEF Invoiced
    <3>2. PICK k \in 1..Len(t) : t[k] = old[j]
      BY <1>4 DEF Joined
    <3> QED
      BY <3>1, <3>2
  <2>2. CASE ~Invoiced(p, d)
    <3>1. PICK H : H = {j \in 1..Len(students) : Scoped(p, j) /\ students[j].student = d}
      OBVIOUS
    <3>2. H \in SUBSET Nat /\ H # {}
      BY <1>3, <3>1
    <3>3. PICK a \in H : \A b \in H : a <= b
      BY <3>2, LeastNumber
    <3>4. a \in 1..Len(students) /\ Scoped(p, a) /\ students[a].student = d
      BY <3>1, <3>3
    <3>5. First(p, a)
      <4>1. ASSUME NEW j \in 1..(a - 1), Scoped(p, j), students[j].student = d PROVE FALSE
        <5>1. Len(students) \in Nat
          BY DEF BooksInv, TypeOK
        <5>2. j \in 1..Len(students) /\ ~(a <= j)
          BY <3>4, <5>1
        <5>3. j \in H
          BY <3>1, <4>1, <5>2
        <5> QED
          BY <3>3, <5>2, <5>3
      <4> QED
        BY <3>4, <4>1 DEF First
    <3>6. a \in Unbilled(p)
      BY <2>2, <3>4, <3>5 DEF Unbilled
    <3>7. PICK k \in 1..Len(new) : new[k].student = d
      BY <1>2, <3>4, <3>6 DEF BatchFor
    <3>8. new[k].school = p.school /\ new[k].due = ResolveDueDate(p.term)
      BY <1>2 DEF BatchFor
    <3>9. k \in 1..Len(t) /\ t[k] = new[k]
      BY <1>4 DEF Joined
    <3> QED
      BY <3>7, <3>8, <3>9
  <2> QED
    BY <2>1, <2>2
<1> QED
  BY <1>3, <1>5, <1>6 DEF Invoiced

\* When generateBatch returns, every student in its scope whose grade has an active
\* plan has an invoice for the due date.
THEOREM BatchesBillTheirScope == Spec => BatchBillsTheScope
<1>1. BooksInv /\ [Next]_vars =>
         [\A p \in workload.payloads : GenerateBatch(p) =>
            \A i \in 1..Len(students) :
                Scoped(p, i) => Invoiced(p, students[i].student)']_vars
  BY ScopeIsBilled
<1> QED
  BY <1>1, BooksInvariance, PTL DEF Spec, BatchBillsTheScope

-----------------------------------------------------------------------------
(* What a member's payment does to the member's debt.                            *)

BalanceOf(s) == [i \in 1..Len(s) |-> s[i].balance]
OfStudent(d, s) == {i \in 1..Len(s) : s[i].student = d}
Debt(d, s) == SumFunctionOnSet(BalanceOf(s), OfStudent(d, s))

LEMMA BalancesAreNumbers ==
    ASSUME NEW s \in Seq(Invoice), NEW d
    PROVE  /\ IsFiniteSet(OfStudent(d, s)) /\ OfStudent(d, s) \in SUBSET (1..Len(s))
           /\ IntegerOn(BalanceOf(s), OfStudent(d, s))
           /\ \A i \in OfStudent(d, s) : BalanceOf(s)[i] = s[i].balance /\ s[i].balance \in Int
           /\ Debt(d, s) \in Int
<1>1. PICK T : T = OfStudent(d, s)
  OBVIOUS
<1>2. T \in SUBSET (1..Len(s)) /\ IsFiniteSet(T)
  <2>1. T \in SUBSET (1..Len(s)) /\ IsFiniteSet(1..Len(s))
    BY <1>1, FS_Interval DEF OfStudent
  <2> QED
    BY <2>1, FS_Subset
<1>3. ASSUME NEW i \in T PROVE BalanceOf(s)[i] = s[i].balance /\ s[i].balance \in Int
  <2>1. i \in 1..Len(s) /\ s[i] \in Invoice
    BY <1>2, ElementOfSeq
  <2>2. s[i].balance \in Int
    BY <2>1 DEF Invoice
  <2> QED
    BY <2>1, <2>2 DEF BalanceOf
<1>4. IntegerOn(BalanceOf(s), T)
  BY <1>3 DEF IntegerOn
<1>5. SumFunctionOnSet(BalanceOf(s), T) \in Int
  BY <1>2, <1>4, SumIsInteger
<1> QED
  BY <1>1, <1>2, <1>3, <1>4, <1>5 DEF Debt

\* Who owes something owes it on an invoice.
LEMMA DebtIsOnAnInvoice ==
    ASSUME NEW s \in Seq(Invoice), NEW d, Debt(d, s) > 0
    PROVE  \E i \in 1..Len(s) : s[i].student = d /\ s[i].balance > 0
<1>1. SUFFICES ASSUME \A i \in OfStudent(d, s) : ~(s[i].balance > 0) PROVE FALSE
  BY DEF OfStudent
<1>2. PICK T, g : T = OfStudent(d, s) /\ g = BalanceOf(s)
  OBVIOUS
<1>3. IsFiniteSet(T)
  BY <1>2, BalancesAreNumbers
<1>4. ASSUME NEW i \in T PROVE g[i] \in Int /\ g[i] <= 0
  <2>1. PICK b \in Int : b = g[i] /\ b = s[i].balance
    BY <1>2, BalancesAreNumbers
  <2>2. ~(b > 0)
    BY <1>1, <1>2, <2>1
  <2> QED
    BY <2>1, <2>2
<1>5. SumFunctionOnSet(g, T) \in Int /\ SumFunctionOnSet(g, T) <= 0
  BY <1>3, <1>4, SumIsNotPositive
<1>6. PICK y \in Int : y = Debt(d, s) /\ y <= 0 /\ y > 0
  BY <1>2, <1>5 DEF Debt
<1> QED
  BY <1>6

\* What is paid on one invoice is owed no more.
LEMMA PaymentReduces ==
    ASSUME NEW old \in Seq(Invoice), NEW i \in 1..Len(old), NEW w \in Invoice, NEW x \in Int,
           x > 0, PaidMore(old[i], w, x), NEW t, PutAt(t, i, w, old), NEW d, d = old[i].student
    PROVE  Debt(d, t) < Debt(d, old)
<1>1. /\ t \in Seq(Invoice) /\ Len(t) = Len(old) /\ t[i] = w
      /\ \A j \in 1..Len(old) : j # i => t[j] = old[j]
  <2>1. t = [old EXCEPT ![i] = w]
    BY DEF PutAt
  <2> QED
    BY <2>1, ExceptSeq
<1>2. PICK g, k, S : g = BalanceOf(old) /\ k = BalanceOf(t) /\ S = OfStudent(d, old)
  OBVIOUS
<1>3. S = OfStudent(d, t)
  <2>1. \A j \in 1..Len(old) : t[j].student = old[j].student
    BY <1>1 DEF PaidMore
  <2> QED
    BY <1>1, <1>2, <2>1 DEF OfStudent
<1>4. /\ IsFiniteSet(S) /\ S \in SUBSET (1..Len(old)) /\ IntegerOn(g, S) /\ IntegerOn(k, S)
      /\ \A j \in S : g[j] = old[j].balance /\ k[j] = t[j].balance /\ old[j].balance \in Int
      /\ Debt(d, old) \in Int
  <2>1. /\ IsFiniteSet(S) /\ S \in SUBSET (1..Len(old)) /\ IntegerOn(g, S)
        /\ \A j \in S : g[j] = old[j].balance /\ old[j].balance \in Int
        /\ Debt(d, old) \in Int
    BY <1>2, BalancesAreNumbers
  <2>2. IntegerOn(k, S) /\ \A j \in S : k[j] = t[j].balance
    BY <1>1, <1>2, <1>3, BalancesAreNumbers
  <2> QED
    BY <2>1, <2>2
<1>5. i \in S
  BY <1>2 DEF OfStudent
<1>6. \A j \in S : j # i => k[j] = g[j]
  BY <1>1, <1>4
<1>7. SumFunctionOnSet(k, S) = SumFunctionOnSet(g, S) + (k[i] - g[i])
  BY <1>4, <1>5, <1>6, SumChanges
<1>8. k[i] - g[i] = 0 - x
  <2>1. k[i] = w.balance /\ g[i] = old[i].balance /\ old[i].balance \in Int
    BY <1>1, <1>4, <1>5
  <2>2. w.balance = old[i].balance - x
    BY DEF PaidMore
  <2> QED
    BY <2>1, <2>2
<1>9. PICK y \in Int : y = Debt(d, old)
  BY <1>4
<1>10. Debt(d, t) = y + (0 - x)
  BY <1>2, <1>3, <1>7, <1>8, <1>9 DEF Debt
<1>11. y + (0 - x) < y
  OBVIOUS
<1> QED
  BY <1>9, <1>10, <1>11

\* Until the list has grown to a fixture's number, no two invoices have one number.
LEMMA OneOfEachNumber ==
    ASSUME BooksInv, BelowFixtureNumbers, NEW i \in 1..Len(invoices),
           NEW j \in 1..Len(invoices), invoices[i].no = invoices[j].no
    PROVE  i = j
<1>1. PICK l, q \in Nat : l = Len(invoices) /\ q = Len(SeedInvoices)
  BY SchoolConstants DEF BooksInv, TypeOK
<1>2. PICK n \in Nat : /\ l = n + q /\ \A k \in 1..n : invoices[k].no.seq = l + 1 - k
                       /\ \A k \in 1..q : invoices[n + k].no = SeedInvoices[k].no
  BY <1>1 DEF BooksInv, InvoicesInv, Numbered
<1>3. ASSUME NEW k \in 1..q
      PROVE  /\ SeedInvoices[k].no.seq \in Nat
             /\ SeedInvoices[k].no.seq > q => l < SeedInvoices[k].no.seq
  <2>1. SeedInvoices[k] \in Invoice
    BY <1>1, SchoolConstants, ElementOfSeq
  <2>2. SeedInvoices[k].no \in Number
    BY <2>1 DEF Invoice
  <2> QED
    BY <1>1, <2>2 DEF Number, BelowFixtureNumbers
<1>4. ASSUME NEW a \in 1..l, a \notin 1..n PROVE \E k \in 1..q : a = n + k
  <2>1. a - n \in 1..q /\ a = n + (a - n)
    BY <1>2, <1>4
  <2> QED
    BY <2>1
<1>5. ASSUME NEW a \in 1..n, NEW k \in 1..q, invoices[a].no = SeedInvoices[k].no PROVE FALSE
  <2>1. PICK z \in Nat : z = SeedInvoices[k].no.seq /\ (z > q => l < z)
    BY <1>3
  <2>2. z = l + 1 - a
    BY <1>2, <1>5, <2>1
  <2> QED
    BY <1>2, <2>1, <2>2
<1>6. CASE i \in 1..n /\ j \in 1..n
  <2>1. l + 1 - i = l + 1 - j
    BY <1>2, <1>6
  <2> QED
    BY <2>1
<1>7. CASE i \in 1..n /\ j \notin 1..n
  BY <1>1, <1>2, <1>4, <1>5, <1>7
<1>8. CASE i \notin 1..n /\ j \in 1..n
  BY <1>1, <1>2, <1>4, <1>5, <1>8
<1>9. CASE i \notin 1..n /\ j \notin 1..n
  <2>1. PICK a, b \in 1..q : i = n + a /\ j = n + b
    BY <1>1, <1>4, <1>9
  <2>2. SeedInvoices[a].no = SeedInvoices[b].no
    BY <1>2, <2>1
  <2>3. a = b
    BY <1>1, <2>2, FixtureConstants
  <2> QED
    BY <2>1, <2>3
<1> QED
  BY <1>6, <1>7, <1>8, <1>9

LEMMA DebtShrinks ==
    ASSUME BooksInv, BelowFixtureNumbers, NEW s, NEW d, NEW amount \in Int,
           amount > 0, NEW c, RecordMemberPayment(s, d, amount, c), OwedBy(d) > 0
    PROVE  OwedBy(d)' < OwedBy(d) \/ SettlesForNothing(d)
<1>15. PICK old \in Seq(Invoice) : old = invoices
  BY DEF BooksInv, TypeOK
<1>1. PICK t : old = invoices /\ t = invoices'
  BY <1>15
<1>2. OwedBy(d) = Debt(d, old) /\ OwedBy(d)' = Debt(d, t)
  BY <1>1 DEF OwedBy, Debt, BalanceOf, OfStudent
<1>3. \A k \in 1..Len(old) : MarkedAs(old[k])
  BY <1>1 DEF BooksInv, Marked
<1>4. \A k \in 1..Len(old) : /\ old[k].status \in {"open", "partially_paid", "paid"}
                             /\ old[k].balance \in Int /\ old[k].total \in Int
  <2>1. ASSUME NEW k \in 1..Len(old) PROVE old[k] \in Invoice
    BY ElementOfSeq
  <2> QED
    BY <2>1 DEF Invoice
<1>5. PICK i : i = OpenInvoice(d)
  OBVIOUS
<1>6. i # 0 /\ i \in 1..Len(old) /\ old[i].student = d /\ old[i].status # "paid"
  <2>1. PICK k \in 1..Len(old) : old[k].student = d /\ old[k].balance > 0
    BY <1>2, DebtIsOnAnInvoice
  <2>2. old[k].balance # 0
    BY <2>1
  <2>3. k \in OpenOf(d)
    BY <1>1, <1>3, <1>4, <2>1, <2>2 DEF OpenOf, MarkedAs
  <2>4. OpenOf(d) \in SUBSET (Nat \ {0})
    BY DEF OpenOf
  <2>5. i # 0 /\ i \in OpenOf(d)
    BY <1>5, <2>3, <2>4, FirstIsLeast, OpenIsFirst
  <2> QED
    BY <1>1, <2>5 DEF OpenOf
<1>7. PICK no : no = old[i].no /\ Collect(no, amount, c)
  BY <1>1, <1>5, <1>6 DEF RecordMemberPayment
<1>8. PICK j, w, e : /\ CollectedOn(j, w, e, Applied(invoices[j], amount))
                     /\ j = FirstOf(WithNumber(no)) /\ j # 0
  BY <1>7, Collected DEF BooksInv, InvoicesInv, ReceiptsMatchInvoices, Balanced
<1>9. j = i
  <2>1. WithNumber(no) \in SUBSET (Nat \ {0})
    BY DEF WithNumber
  <2>2. j \in WithNumber(no)
    BY <1>8, <2>1, FirstIsLeast
  <2>3. j \in 1..Len(invoices) /\ invoices[j].no = invoices[i].no
    BY <1>1, <1>7, <2>2 DEF WithNumber
  <2> QED
    BY <1>1, <1>6, <2>3, OneOfEachNumber
<1>10. PICK x : x = Applied(old[i], amount) /\ CollectedOn(i, w, e, x)
  BY <1>1, <1>8, <1>9
<1>11. x \in Int /\ w \in Invoice /\ PaidMore(old[i], w, x) /\ t = [old EXCEPT ![i] = w]
  BY <1>1, <1>10 DEF CollectedOn
<1>12. PICK b \in Int : b = old[i].balance
  BY <1>4, <1>6
<1>13. x = Least(b, amount)
  BY <1>10, <1>12 DEF Applied, Least
<1>14. CASE b > 0
  <2>1. x > 0
    BY <1>13, <1>14 DEF Least
  <2>2. PutAt(t, i, w, old)
    BY <1>11 DEF PutAt
  <2>3. Debt(d, t) < Debt(d, old)
    BY <1>6, <1>11, <2>1, <2>2, PaymentReduces
  <2> QED
    BY <1>2, <2>3
<1>16. CASE ~(b > 0)
  <2>1. x = b
    BY <1>13, <1>16 DEF Least
  <2>2. w.balance = b - x /\ (w.status = "paid" <=> w.balance = 0)
    BY <1>11, <1>12 DEF PaidMore
  <2>3. w.status = "paid"
    BY <2>1, <2>2
  <2>4. old[i].total <= 0
    BY <1>3, <1>6, <1>12, <1>16 DEF MarkedAs
  <2>5. t[i] = w
    BY <1>6, <1>11, ExceptSeq
  <2> QED
    BY <1>1, <1>5, <1>6, <2>3, <2>4, <2>5 DEF SettlesForNothing
<1> QED
  BY <1>14, <1>16

\* recordMemberPayment reduces what a student owes whenever the student owes
\* anything, whatever the plans charge, unless the first open invoice it finds is of
\* a plan that charges nothing: then it settles that one.
THEOREM MemberPaymentsReduceDebt == Spec => MemberPaymentReducesDebt
<1>1. workload.amounts \in SUBSET Int \/ ~BooksInv
  BY SchoolConstants DEF BooksInv, TypeOK, Workload
<1>2. BooksInv /\ [Next]_vars =>
         [\A s \in Schools, d \in StudentIds, amount \in workload.amounts, c \in Channels :
             /\ RecordMemberPayment(s, d, amount, c)
             /\ amount > 0
             /\ BelowFixtureNumbers
             /\ OwedBy(d) > 0
             => OwedBy(d)' < OwedBy(d) \/ SettlesForNothing(d)]_vars
  BY <1>1, DebtShrinks
<1> QED
  BY <1>2, BooksInvariance, PTL DEF Spec, MemberPaymentReducesDebt
=============================================================================
