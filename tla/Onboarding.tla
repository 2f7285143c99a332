------------------------------- MODULE Onboarding -------------------------------
(***************************************************************************)
(* How a person becomes a member: registration (AuthService), the identity *)
(* verification it starts (IdentityVerificationService) and the review by  *)
(* the staff (DashboardService.updateOnboardingReview).                    *)
(*                                                                         *)
(* A member is a document of members, one of member_profiles and some of   *)
(* identity_verifications, written one await after the other without a     *)
(* transaction.  A call is the list of the awaits it still has to make.    *)
(***************************************************************************)
EXTENDS Naturals, Sequences, FiniteSets

CONSTANTS
    Registrations,    \* the registrations people send, [phone, fin, qr, alias]
    NoFin,            \* a registration by the QR code of the card alone has no Fayda FIN
    Enrolled,         \* members there are to start with, reviewed long ago
    ProviderMode,     \* FAYDA_PROVIDER_MODE: "manual" or "official"
    SentReviews,      \* bound: the statuses staff puts members in
    MaxOnboardCalls,  \* bound: HTTP calls, numbered in the order they arrive
    MaxOnboardCallsAtOnce \* bound: HTTP calls under way at once

VARIABLES
    members,       \* members, in the order of creation
    profiles,      \* profiles[m]: the member_profiles document of m
    records,       \* records[m]: the statuses of m's identity_verifications
    onboardCall,   \* the calls
    raced          \* ghost: <<member, kind>> with two calls of a kind at once

onboardVars == <<members, profiles, records, onboardCall, raced>>

-----------------------------------------------------------------------------
OnboardCalls == 1..MaxOnboardCalls

ReviewStatus == {"submitted", "review_in_progress", "needs_action", "approved"}
Membership == {"pending_verification", "pending_review", "active"}
VerificationStatus == {"pending_verification", "qr_uploaded", "manual_review_required",
                       "failed"}
IdentityStatus == VerificationStatus \cup
                  {"fin_submitted", "verified", "needs_action", "pending_review", "submitted"}

ASSUME OnboardConstants ==
    /\ Enrolled \in Nat /\ MaxOnboardCalls \in Nat /\ MaxOnboardCallsAtOnce \in Nat
    /\ ProviderMode \in {"manual", "official"}
    /\ SentReviews \subseteq ReviewStatus
    /\ Registrations # {}
    /\ \A r \in Registrations : r.fin # NoFin \/ r.qr

\* qr and alias tell whether faydaQrData and faydaAlias are sent.
ASSUME RegistrationFields ==
    Registrations \subseteq [phone: {r.phone : r \in Registrations},
                             fin: {r.fin : r \in Registrations},
                             qr: BOOLEAN, alias: BOOLEAN]

\* number is n for AMH-00000n, 0 for a number given in any other way.
Member == [phone: {r.phone : r \in Registrations} \cup {"enrolled"},
           fin: {r.fin : r \in Registrations} \cup {NoFin},
           number: Nat,
           kyc: {"pending", "verified"}]
Profile == [membership: Membership, identity: IdentityStatus, review: ReviewStatus]
NoProfile == [membership |-> "none"]

EnrolledMember == [phone |-> "enrolled", fin |-> NoFin, number |-> 0, kyc |-> "verified"]
Reviewed == [membership |-> "active", identity |-> "verified", review |-> "approved"]

\* What the provider answers (manual-review and official Fayda providers): neither
\* of them ever verifies anybody.
Answer ==
    IF ProviderMode = "manual"
    THEN [start |-> "pending_verification", fin |-> "pending_verification",
          qr |-> "qr_uploaded", verify |-> "manual_review_required"]
    ELSE [start |-> "pending_verification", fin |-> "pending_verification",
          qr |-> "pending_verification", verify |-> "failed"]

OnboardKinds == {"identity", "review"}
OnboardSubjects == OnboardKinds \cup {"registration"}
Awaits == {<<"count", "members">>, <<"insert", "member">>, <<"insert", "profile">>,
           <<"read", "member">>, <<"save", "profile">>, <<"save", "member">>,
           <<"save", "record">>} \cup {"create", "update", "status"} \X DOMAIN Answer

Uncalled == [at |-> "idle"]
Served == [at |-> "served"]
OnboardCall ==
    [at: {"running", "dead"}, kind: OnboardKinds,
     todo: Seq(Awaits),                          \* the awaits it still makes
     dto: Registrations,                         \* a registration's input
     number: Nat,                                \* and the number it is to get
     who: Nat,                                   \* the member, once there is one
     record: Nat, seenRecord: VerificationStatus, \* verify: the record as read
     seen: Profile, seenKyc: {"pending", "verified"}, \* review: both as read
     to: ReviewStatus]

\* Fields a call does not use keep these values.
NewCall(kind, todo) ==
    [at |-> "running", kind |-> kind, todo |-> todo, dto |-> CHOOSE r \in Registrations : TRUE,
     number |-> 0, who |-> 0, record |-> 0, seenRecord |-> "failed",
     seen |-> Reviewed, seenKyc |-> "verified", to |-> "submitted"]

OnboardTypeOK ==
    /\ members \in Seq(Member)
    /\ profiles \in [DOMAIN members -> Profile \cup {NoProfile}]
    /\ records \in [DOMAIN members -> Seq(VerificationStatus)]
    /\ onboardCall \in [OnboardCalls -> OnboardCall \cup {Uncalled, Served}]
    /\ raced \subseteq (DOMAIN members) \X OnboardKinds

OnboardInit ==
    /\ members = [m \in 1..Enrolled |-> EnrolledMember]
    /\ profiles = [m \in 1..Enrolled |-> Reviewed]
    /\ records = [m \in 1..Enrolled |-> << >>]
    /\ onboardCall = [k \in OnboardCalls |-> Uncalled]
    /\ raced = {}

Running(k) == onboardCall[k].at = "running"
Await(k) == Head(onboardCall[k].todo)

OnboardCallArrives(k) ==
    /\ onboardCall[k] = Uncalled /\ \A j \in 1..(k - 1) : onboardCall[j] # Uncalled
    /\ Cardinality({j \in OnboardCalls : Running(j)}) < MaxOnboardCallsAtOnce

\* The call makes the await it is at, and learns what `learnt` says.
Gone(learnt) ==
    IF Len(learnt.todo) = 1 THEN Served ELSE [learnt EXCEPT !.todo = Tail(@)]
Goes(k, learnt) == onboardCall' = [onboardCall EXCEPT ![k] = Gone(learnt)]

-----------------------------------------------------------------------------
(* AuthService.registerMember                                               *)

Known(r) == \E m \in DOMAIN members : \/ members[m].phone = r.phone
                                      \/ r.fin # NoFin /\ members[m].fin = r.fin

Submissions(r) ==
    (IF r.fin # NoFin THEN << <<"update", "fin">>, <<"status", "fin">> >> ELSE << >>)
    \o (IF r.qr \/ r.alias THEN << <<"update", "qr">>, <<"status", "qr">> >> ELSE << >>)

\* checkExistingAccount finds nobody.
Register(k, r) ==
    /\ OnboardCallArrives(k)
    /\ ~Known(r)
    /\ onboardCall' = [onboardCall EXCEPT ![k] =
          [NewCall("identity", << <<"count", "members">>, <<"insert", "member">>,
                                  <<"insert", "profile">>, <<"create", "start">>,
                                  <<"status", "start">> >> \o Submissions(r)) EXCEPT !.dto = r]]
    /\ UNCHANGED <<members, profiles, records, raced>>

\* generateStandardIdentifiers: the number of members there are, plus one.
TakeNumber(k) ==
    /\ Running(k) /\ Await(k) = <<"count", "members">>
    /\ Goes(k, [onboardCall[k] EXCEPT !.number = Len(members) + 1])
    /\ UNCHANGED <<members, profiles, records, raced>>

\* Mutation of Taken: memberNumber has no unique index.
TakenPhone(r, number) == Known(r)

\* The unique indexes on customerId, memberNumber, phone and faydaFin.
Taken(r, number) == Known(r) \/ \E m \in DOMAIN members : members[m].number = number

InsertMember(k) ==
    LET r == onboardCall[k].dto
        n == onboardCall[k].number
    IN  /\ Running(k) /\ Await(k) = <<"insert", "member">>
        /\ ~Taken(r, n)
        /\ members' = Append(members, [phone |-> r.phone, fin |-> r.fin, number |-> n,
                                       kyc |-> "pending"])
        /\ profiles' = Append(profiles, NoProfile)
        /\ records' = Append(records, << >>)
        /\ Goes(k, [onboardCall[k] EXCEPT !.who = Len(members) + 1])
        /\ UNCHANGED raced

RefuseMember(k) ==
    /\ Running(k) /\ Await(k) = <<"insert", "member">>
    /\ Taken(onboardCall[k].dto, onboardCall[k].number)
    /\ onboardCall' = [onboardCall EXCEPT ![k] = Served]
    /\ UNCHANGED <<members, profiles, records, raced>>

CreateProfile(k) ==
    LET c == onboardCall[k]
    IN  /\ Running(k) /\ Await(k) = <<"insert", "profile">>
        /\ profiles' = [profiles EXCEPT ![c.who] =
              [membership |-> "pending_verification", review |-> "submitted",
               identity |-> IF c.dto.qr THEN "qr_uploaded" ELSE "fin_submitted"]]
        /\ Goes(k, c)
        /\ UNCHANGED <<members, records, raced>>

-----------------------------------------------------------------------------
(* IdentityVerificationService, for registration and for the member's app   *)

\* A call about member m arrives while another of its kind is under way.
Overlaps(m, kind) ==
    raced' = IF \E j \in OnboardCalls : /\ Running(j) /\ onboardCall[j].who = m
                                        /\ onboardCall[j].kind = kind
             THEN raced \cup {<<m, kind>>} ELSE raced

\* start, submitFin and uploadQr
Submit(k, m, what) ==
    /\ OnboardCallArrives(k)
    /\ onboardCall' = [onboardCall EXCEPT ![k] =
          [NewCall("identity", << <<IF what = "start" THEN "create" ELSE "update", what>>,
                                  <<"status", what>> >>) EXCEPT !.who = m]]
    /\ Overlaps(m, "identity")
    /\ UNCHANGED <<members, profiles, records>>

\* verify: findOne returns any of the member's records, none of which is verified.
Verify(k, m) ==
    /\ OnboardCallArrives(k)
    /\ \E i \in DOMAIN records[m] :
          onboardCall' = [onboardCall EXCEPT ![k] =
              [NewCall("identity", << <<"save", "record">>, <<"status", "verify">> >>) EXCEPT
                  !.who = m, !.record = i, !.seenRecord = records[m][i]]]
    /\ Overlaps(m, "identity")
    /\ UNCHANGED <<members, profiles, records>>

\* create inserts a record; findOneAndUpdate takes any there is, or inserts one.
WriteRecord(k, what) ==
    LET m == onboardCall[k].who
    IN  /\ Running(k) /\ Await(k) \in {<<"create", what>>, <<"update", what>>}
        /\ \/ /\ Await(k)[1] = "create" \/ records[m] = << >>
              /\ records' = [records EXCEPT ![m] = Append(@, Answer[what])]
           \/ /\ Await(k)[1] = "update"
              /\ \E i \in DOMAIN records[m] :
                    records' = [records EXCEPT ![m][i] = Answer[what]]
        /\ Goes(k, onboardCall[k])
        /\ UNCHANGED <<members, profiles, raced>>

\* existing.save(), of verify: the status is sent if it differs from the one read.
SaveRecord(k) ==
    LET c == onboardCall[k]
    IN  /\ Running(k) /\ Await(k) = <<"save", "record">>
        /\ records' = [records EXCEPT ![c.who][c.record] =
              IF c.seenRecord = Answer.verify THEN @ ELSE Answer.verify]
        /\ Goes(k, c)
        /\ UNCHANGED <<members, profiles, raced>>

\* updateStatuses of the profile, if there is one (upsert: false).
WriteStatus(k, what) ==
    LET m == onboardCall[k].who
    IN  /\ Running(k) /\ Await(k) = <<"status", what>>
        /\ profiles' = IF profiles[m] = NoProfile THEN profiles ELSE
              [profiles EXCEPT
                 ![m].identity = Answer[what],
                 ![m].membership = IF what \in {"start", "verify"}
                                   THEN "pending_verification" ELSE @]
        /\ Goes(k, onboardCall[k])
        /\ UNCHANGED <<members, records, raced>>

-----------------------------------------------------------------------------
(* DashboardService.updateOnboardingReview, by staff with the member in     *)
(* scope                                                                    *)

Review(k, m, to) ==
    /\ OnboardCallArrives(k)
    /\ profiles[m] # NoProfile
    /\ onboardCall' = [onboardCall EXCEPT ![k] =
          [NewCall("review", << <<"read", "member">>, <<"save", "profile">>, <<"save", "member">> >>) EXCEPT
              !.who = m, !.seen = profiles[m], !.to = to]]
    /\ Overlaps(m, "review")
    /\ UNCHANGED <<members, profiles, records>>

ReadMember(k) ==
    /\ Running(k) /\ Await(k) = <<"read", "member">>
    /\ Goes(k, [onboardCall[k] EXCEPT !.seenKyc = members[onboardCall[k].who].kyc])
    /\ UNCHANGED <<members, profiles, records, raced>>

\* resolveOnboardingProfileUpdates
ReviewedProfile(to) ==
    CASE to = "approved" -> Reviewed
      [] to = "needs_action" -> [membership |-> "pending_verification",
                                 identity |-> "needs_action", review |-> to]
      [] to = "review_in_progress" -> [membership |-> "pending_review",
                                       identity |-> "pending_review", review |-> to]
      [] to = "submitted" -> [membership |-> "pending_verification",
                              identity |-> "submitted", review |-> to]

\* profile.save(): the fields that differ from the profile as read.
SaveProfile(k) ==
    LET c == onboardCall[k]
        new == ReviewedProfile(c.to)
    IN  /\ Running(k) /\ Await(k) = <<"save", "profile">>
        /\ profiles' = [profiles EXCEPT ![c.who] =
              [f \in DOMAIN new |-> IF new[f] = c.seen[f] THEN @[f] ELSE new[f]]]
        /\ Goes(k, c)
        /\ UNCHANGED <<members, records, raced>>

\* Mutation of KycOf: only a member sent back loses the verification.
KycOfNeedsAction(c) ==
    CASE c.to = "approved" -> "verified"
      [] c.to = "needs_action" -> "pending"
      [] OTHER -> c.seenKyc

KycOf(c) == IF c.to = "approved" THEN "verified" ELSE "pending"

\* member.save()
SaveMember(k) ==
    LET c == onboardCall[k]
    IN  /\ Running(k) /\ Await(k) = <<"save", "member">>
        /\ members' = [members EXCEPT ![c.who].kyc = IF KycOf(c) = c.seenKyc THEN @ ELSE KycOf(c)]
        /\ Goes(k, c)
        /\ UNCHANGED <<profiles, records, raced>>

-----------------------------------------------------------------------------
\* The next await throws, or the server stops: in one call of a behaviour.
OnboardCallThrows(k) ==
    /\ Running(k)
    /\ \A j \in OnboardCalls : onboardCall[j].at # "dead"
    /\ onboardCall' = [onboardCall EXCEPT ![k].at = "dead"]
    /\ UNCHANGED <<members, profiles, records, raced>>

OnboardStep(k) ==
    \/ TakeNumber(k) \/ InsertMember(k) \/ RefuseMember(k) \/ CreateProfile(k)
    \/ \E what \in DOMAIN Answer : WriteRecord(k, what) \/ WriteStatus(k, what)
    \/ SaveRecord(k)
    \/ ReadMember(k) \/ SaveProfile(k) \/ SaveMember(k)

\* What call k does next; `about` bounds what a new call is about.
OnboardNextOf(k, about) ==
    \/ "registration" \in about /\ \E r \in Registrations : Register(k, r)
    \/ \E m \in DOMAIN members :
          \/ /\ "identity" \in about
             /\ Verify(k, m) \/ \E what \in {"start", "fin", "qr"} : Submit(k, m, what)
          \/ "review" \in about /\ \E to \in SentReviews : Review(k, m, to)
    \/ OnboardStep(k)
    \/ OnboardCallThrows(k)

-----------------------------------------------------------------------------
(* Numbers are given without a gap and never twice, in the order the        *)
(* members are inserted, however registrations race: each counts the        *)
(* members first, and one that counted too early is refused by the unique   *)
(* index (generateStandardIdentifiers, members).                            *)
NumbersAreConsecutive ==
    \A m \in DOMAIN members : m > Enrolled => members[m].number = m

\* The calls about member m that are under way or dead.
CallsOn(m) == {k \in OnboardCalls : /\ onboardCall[k].at \in {"running", "dead"}
                                    /\ onboardCall[k].who = m}

AtAwait(m, a) == \E k \in CallsOn(m) : Await(k) = a

(* A member has a profile for the staff to review unless the registration   *)
(* is about to write it or died there; and the member may use the verified  *)
(* services exactly if the last review approved, whatever the member's own  *)
(* submissions do to the profile meanwhile.  Two reviews of a member at     *)
(* once, and a review between its two saves or dead there, are the          *)
(* exceptions (registerMember, updateOnboardingReview).                     *)
KycTellsReview ==
    \A m \in DOMAIN members :
        \/ profiles[m] = NoProfile /\ AtAwait(m, <<"insert", "profile">>)
        \/ <<m, "review">> \in raced
        \/ AtAwait(m, <<"save", "member">>)
        \/ /\ members[m].kyc = "verified" <=> profiles[m].review = "approved"
           /\ profiles[m].membership = "active" => profiles[m].review = "approved"

(* What getStatus says of a verification with one record is what the        *)
(* profile says of it, or the profile says what the staff wrote; unless the *)
(* member sent two submissions at once or one is under way or dead          *)
(* (IdentityVerificationService writes the record, then the profile, and    *)
(* the review saves over the profile).                                      *)
RecordTellsProfile ==
    \A m \in DOMAIN members :
        \/ Len(records[m]) # 1 \/ <<m, "identity">> \in raced
        \/ \E k \in CallsOn(m) : onboardCall[k].kind = "identity"
        \/ profiles[m].identity \in {records[m][1]} \cup (IdentityStatus \ VerificationStatus)

(* A member's documents agree, whatever became of the calls that wrote them *)
(* one after the other: the member, the profile and the verification.       *)
DocumentsAgree == KycTellsReview /\ RecordTellsProfile
=============================================================================
