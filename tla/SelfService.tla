------------------------------- MODULE SelfService -------------------------------
(***************************************************************************)
(* What a member settles without the staff: the account lock, autopay, and *)
(* the requests for an ATM card, a new phone number or another member      *)
(* (ServicePlaceholdersService); and the manager's hand on autopay         *)
(* (DashboardService.updateAutopayOperation).                              *)
(*                                                                         *)
(* A call that needs an eligible member reads the member (Onboarding) and  *)
(* the lock in two parallel queries, and writes in a later await.          *)
(***************************************************************************)
EXTENDS Onboarding

CONSTANTS
    Customer,          \* the enrolled member the settings are of
    MaxSelfCalls,      \* bound: HTTP calls, numbered in the order they arrive
    MaxSelfCallsAtOnce \* bound: HTTP calls under way at once

VARIABLES
    accountLock,   \* member_security_settings: accountLockEnabled
    lockTold,      \* what the last notification said of the lock
    autopay,       \* autopay_settings, of one service: "none", "on" or "off"
    autopayWord,   \* ghost: what the last to set autopay asked for
    atmRequests,   \* atm_card_requests: the calls they come from; all stay open
    selfRequests,  \* the other requests, <<collection, call>>
    selfCall,      \* the calls
    together       \* ghost: settings two calls were under way on at once

selfVars == <<accountLock, lockTold, autopay, autopayWord, atmRequests, selfRequests,
              selfCall, together>>

-----------------------------------------------------------------------------
SelfCalls == 1..MaxSelfCalls
Settings == {"lock", "autopay", "atm_card"}
SelfRequestKinds == {"phone_update", "account_member", "selfie"}

ASSUME SelfConstants ==
    /\ Customer \in 1..Enrolled
    /\ MaxSelfCalls \in Nat /\ MaxSelfCallsAtOnce \in Nat

\* What loadEligibleMember reads, and what a call waits for when it has read the other.
Reads == {"member", "lock"}
Other(read) == IF read = "member" THEN "lock" ELSE "member"
Awaiting(read) == IF read = "member" THEN "reads_member" ELSE "reads_lock"

SelfCall == [at: {"reads_member", "reads_lock", "write", "tell", "exists", "store", "save",
                  "dead"},
             on: Settings \cup SelfRequestKinds,  \* what the call is about
             to: BOOLEAN, seen: BOOLEAN]          \* the value sent; autopay as read

SelfTypeOK ==
    /\ accountLock \in BOOLEAN /\ lockTold \in BOOLEAN
    /\ autopay \in {"none", "on", "off"} /\ autopayWord \in {"none", "on", "off"}
    /\ atmRequests \subseteq SelfCalls
    /\ selfRequests \subseteq SelfRequestKinds \X SelfCalls
    /\ selfCall \in [SelfCalls -> SelfCall \cup {Uncalled, Served}]
    /\ together \subseteq Settings

SelfInit ==
    /\ accountLock = FALSE /\ lockTold = FALSE
    /\ autopay = "none" /\ autopayWord = "none"
    /\ atmRequests = {} /\ selfRequests = {}
    /\ selfCall = [k \in SelfCalls |-> Uncalled]
    /\ together = {}

SelfRunning(k) == selfCall[k].at \notin {"idle", "served", "dead"}
About(setting) == {k \in SelfCalls : SelfRunning(k) /\ selfCall[k].on = setting}

SelfCallArrives(k) ==
    /\ selfCall[k] = Uncalled /\ \A j \in 1..(k - 1) : selfCall[j] # Uncalled
    /\ Cardinality({j \in SelfCalls : SelfRunning(j)}) < MaxSelfCallsAtOnce

\* loadEligibleMember: the member and the security settings are two queries of one
\* Promise.all, so each sees the database at a moment of its own, in either order.
\* Every member is active.
Passes(read, kycNeeded, lockCounts) ==
    /\ read = "member" /\ kycNeeded => members[Customer].kyc = "verified"
    /\ read = "lock" /\ lockCounts => ~accountLock

\* selfieVerify and updateAccountLock take members of any kycStatus, and an unlock
\* ignores the lock.
PassesFor(read, on, to) ==
    Passes(read, on \notin {"selfie", "lock"}, on # "lock" \/ to)

\* The call goes on to its next await.
Admitted(k, at, on, to, seen) ==
    /\ selfCall' = [selfCall EXCEPT ![k] = [at |-> at, on |-> on, to |-> to, seen |-> seen]]
    /\ together' = IF on \in Settings /\ About(on) # {} THEN together \cup {on} ELSE together

Ends(k) == selfCall' = [selfCall EXCEPT ![k] = Served]

-----------------------------------------------------------------------------
\* A call arrives and the first of its two queries comes back; one that is refused on
\* it has no effect.
FirstRead(k, on, to, first) ==
    /\ SelfCallArrives(k)
    /\ PassesFor(first, on, to)
    /\ Admitted(k, Awaiting(Other(first)), on, to, to)
    /\ UNCHANGED <<accountLock, lockTold, autopay, autopayWord, atmRequests, selfRequests>>

\* The first await after loadEligibleMember.
NextAwait(on) ==
    CASE on = "lock"            -> "write"
      [] on = "atm_card"        -> "exists"
      [] on \in SelfRequestKinds -> "store"

\* The other query comes back, and the call goes on or is refused.
SecondRead(k) ==
    /\ \E read \in Reads :
          /\ selfCall[k].at = Awaiting(read)
          /\ IF PassesFor(read, selfCall[k].on, selfCall[k].to)
             THEN selfCall' = [selfCall EXCEPT ![k].at = NextAwait(selfCall[k].on)]
             ELSE Ends(k)
    /\ UNCHANGED <<accountLock, lockTold, autopay, autopayWord, atmRequests, selfRequests,
                   together>>

-----------------------------------------------------------------------------
\* updateAccountLock
SwitchAccountLock(k, to, first) == FirstRead(k, "lock", to, first)

WriteAccountLock(k) ==
    /\ selfCall[k].at = "write"
    /\ accountLock' = selfCall[k].to
    /\ selfCall' = [selfCall EXCEPT ![k].at = "tell"]
    /\ UNCHANGED <<lockTold, autopay, autopayWord, atmRequests, selfRequests, together>>

\* The audit row, and createNotification.
TellAccountLock(k) ==
    /\ selfCall[k].at = "tell" /\ selfCall[k].on = "lock"
    /\ lockTold' = selfCall[k].to
    /\ Ends(k)
    /\ UNCHANGED <<accountLock, autopay, autopayWord, atmRequests, selfRequests, together>>

-----------------------------------------------------------------------------
Word(enabled) == IF enabled THEN "on" ELSE "off"

\* createAutopay upserts the setting, updateAutopayStatus finds and updates it:
\* one await each, and nobody is asked whether the member is eligible.
SetAutopay(k, to) ==
    /\ SelfCallArrives(k)
    /\ to \/ autopay # "none"
    /\ autopay' = Word(to) /\ autopayWord' = Word(to)
    /\ Ends(k)
    /\ together' = IF About("autopay") = {} THEN together ELSE together \cup {"autopay"}
    /\ UNCHANGED <<accountLock, lockTold, atmRequests, selfRequests>>

\* updateAutopayOperation, by a manager with the member in scope
ReadAutopay(k, to) ==
    /\ SelfCallArrives(k)
    /\ autopay # "none"
    /\ Admitted(k, "save", "autopay", to, autopay = "on")
    /\ UNCHANGED <<accountLock, lockTold, autopay, autopayWord, atmRequests, selfRequests>>

\* item.save() sends enabled if it differs from the value read; the audit row and
\* the answer tell the value sent, whatever is stored.
SaveAutopay(k) ==
    LET c == selfCall[k]
    IN  /\ c.at = "save"
        /\ autopay' = IF c.seen = c.to THEN autopay ELSE Word(c.to)
        /\ autopayWord' = Word(c.to)
        /\ Ends(k)
        /\ UNCHANGED <<accountLock, lockTold, atmRequests, selfRequests, together>>

-----------------------------------------------------------------------------
\* createAtmCardRequest, for the name and phone number of the member
AskForAtmCard(k, first) == FirstRead(k, "atm_card", TRUE, first)

\* Mutation of AtmRequestOpen: a request that was only submitted does not count.
AtmRequestProduced == FALSE

\* submitted, branch_review or card_production: nothing moves a request further.
AtmRequestOpen == atmRequests # {}

CheckAtmRequests(k) ==
    /\ selfCall[k].at = "exists"
    /\ IF AtmRequestOpen THEN Ends(k) ELSE selfCall' = [selfCall EXCEPT ![k].at = "store"]
    /\ UNCHANGED <<accountLock, lockTold, autopay, autopayWord, atmRequests, selfRequests,
                   together>>

\* updatePhone, addMember and selfieVerify
AskFor(k, kind, first) == FirstRead(k, kind, TRUE, first)

\* The insert of the request; its audit row follows.
StoreSelfRequest(k) ==
    LET on == selfCall[k].on
    IN  /\ selfCall[k].at = "store"
        /\ IF on = "atm_card"
           THEN /\ atmRequests' = atmRequests \cup {k}
                /\ UNCHANGED selfRequests
           ELSE /\ selfRequests' = selfRequests \cup {<<on, k>>}
                /\ UNCHANGED atmRequests
        /\ Ends(k)
        /\ UNCHANGED <<accountLock, lockTold, autopay, autopayWord, together>>

-----------------------------------------------------------------------------
\* The next await throws, or the server stops: in one call of a behaviour.
SelfCallThrows(k) ==
    /\ SelfRunning(k)
    /\ \A j \in SelfCalls : selfCall[j].at # "dead"
    /\ selfCall' = [selfCall EXCEPT ![k].at = "dead"]
    /\ UNCHANGED <<accountLock, lockTold, autopay, autopayWord, atmRequests, selfRequests,
                   together>>

SelfStep(k) ==
    \/ SecondRead(k) \/ WriteAccountLock(k) \/ TellAccountLock(k) \/ SaveAutopay(k)
    \/ CheckAtmRequests(k) \/ StoreSelfRequest(k)

\* What call k does next; `about` bounds what a new call is about.
SelfNextOf(k, about) ==
    \/ \E first \in Reads :
          \/ "lock" \in about /\ \E to \in BOOLEAN : SwitchAccountLock(k, to, first)
          \/ "atm_card" \in about /\ AskForAtmCard(k, first)
          \/ \E kind \in SelfRequestKinds \cap about : AskFor(k, kind, first)
    \/ "autopay" \in about /\ \E to \in BOOLEAN : SetAutopay(k, to) \/ ReadAutopay(k, to)
    \/ SelfStep(k)
    \/ SelfCallThrows(k)

-----------------------------------------------------------------------------
(* A member has one open request for an ATM card unless two were sent at    *)
(* once: the test for an open request and the insert are two awaits, and no *)
(* index backs them (createAtmCardRequest).                                 *)
OneOpenAtmRequest == Cardinality(atmRequests) <= 1 \/ "atm_card" \in together

(* The lock is what the member was last told, and autopay what the last to  *)
(* set it asked for, the manager or the member: unless two calls set the    *)
(* same at once, or one is under way or dead (updateAccountLock,            *)
(* updateAutopayStatus, updateAutopayOperation).                            *)
SettingsAreAsTold ==
    /\ \/ lockTold = accountLock \/ "lock" \in together
       \/ \E k \in SelfCalls : selfCall[k].at \in {"tell", "dead"} /\ selfCall[k].on = "lock"
    /\ autopay = autopayWord \/ "autopay" \in together

(* What the member set or asked for is what the bank holds and has told.    *)
SelfServiceHolds == OneOpenAtmRequest /\ SettingsAreAsTold
=============================================================================
