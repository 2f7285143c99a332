----------------------------- MODULE MemberBanking -----------------------------
(***************************************************************************)
(* The bank as a member meets it, on one server and one database: becoming *)
(* a member (Onboarding), settling one's affairs (SelfService), paying     *)
(* (Payments) and signing in (Sessions).                                   *)
(*                                                                         *)
(* Calls of all of them interleave at every await.  What they share: a     *)
(* payment and most self-service calls read the member's kycStatus, which  *)
(* the staff's review writes, and the account lock; and a restart ends     *)
(* everything that is under way.                                           *)
(***************************************************************************)
EXTENDS Payments, Sessions

CONSTANT Loads   \* bound: how much of each a behaviour has

VARIABLES
    load,    \* the load of this behaviour
    passed   \* ghost: <<r, read>> when payment r had read the member verified, or the
             \* account unlocked, before it ceased to be

vars == <<onboardVars, selfVars, paymentVars, sessionVars, load, passed>>

ASSUME LoadsAreBounds ==
    Loads \subseteq [onboarding: 0..MaxOnboardCalls, selfService: 0..MaxSelfCalls,
                     about: SUBSET (OnboardSubjects \cup Settings \cup SelfRequestKinds),
                     payments: SUBSET Requests, orders: SUBSET Order,
                     phone: BOOLEAN, restart: BOOLEAN]

Init ==
    /\ OnboardInit /\ SelfInit /\ PaymentInit /\ SessionInit
    /\ load \in Loads
    /\ passed = {}

-----------------------------------------------------------------------------
\* The customer is verified, or the account is not locked.
Holds(read) == Passes(read, TRUE, TRUE)

HasRead(payment, read) == payment.phase \notin {"idle", Awaiting(read)}

\* What a payment has read before it was lost is remembered until the payment ends.
Remember ==
    /\ passed' = {p \in Requests \X Reads :
                     /\ HasRead(reqs'[p[1]], p[2])
                     /\ p \in passed \/ (Holds(p[2]) /\ ~Holds(p[2])')}
    /\ UNCHANGED load

\* No call that is under way is answered, and none goes on.
Restart ==
    /\ load.restart
    /\ PaymentsRestart
    /\ onboardCall' = [k \in OnboardCalls |->
          IF Running(k) THEN [onboardCall[k] EXCEPT !.at = "dead"] ELSE onboardCall[k]]
    /\ selfCall' = [k \in SelfCalls |->
          IF SelfRunning(k) THEN [selfCall[k] EXCEPT !.at = "dead"] ELSE selfCall[k]]
    /\ phoneCall' = [k \in PhoneCalls |->
          IF phoneCall[k] = Unsent THEN Unsent ELSE Over]
    /\ UNCHANGED <<members, profiles, records, raced,
                   accountLock, lockTold, autopay, autopayWord, atmRequests, selfRequests,
                   together, server, phone, ghosts>>

Next ==
    /\ \/ /\ \E k \in 1..load.onboarding : OnboardNextOf(k, load.about)
          /\ UNCHANGED <<selfVars, paymentVars, sessionVars>>
       \/ /\ \E k \in 1..load.selfService : SelfNextOf(k, load.about)
          /\ UNCHANGED <<onboardVars, paymentVars, sessionVars>>
       \/ /\ Tick \/ \E r \in load.payments : PaymentNextOf(r, load.orders)
          /\ UNCHANGED <<onboardVars, selfVars, sessionVars>>
       \/ /\ load.phone /\ SessionNext
          /\ UNCHANGED <<onboardVars, selfVars, paymentVars>>
       \/ Restart
    /\ Remember

Spec == Init /\ [][Next]_vars

-----------------------------------------------------------------------------
TypeOK == /\ OnboardTypeOK /\ SelfTypeOK /\ PaymentTypeOK /\ SessionTypeOK
          /\ load \in Loads /\ passed \subseteq Requests \X Reads

(* Once the staff takes the customer's verification back, or the account is *)
(* locked, money leaves the account only for payments that had read the     *)
(* member verified, or the lock off, before: no payment that reads          *)
(* afterwards takes any, though the debit looks at neither again            *)
(* (createSchoolPayment, createQrPayment).  It is said of the verification  *)
(* and of the lock one by one: they are read by parallel queries, and a     *)
(* payment can pass though the customer was never verified and unlocked at  *)
(* one moment.                                                              *)
DebitsNeedStanding ==
    [][\A r \in Requests, read \in Reads :
          debits' # debits /\ reqs'[r] # reqs[r] => Holds(read) \/ <<r, read>> \in passed]_vars
=============================================================================
