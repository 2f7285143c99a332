-------------------------- MODULE MemberBanking_proofs --------------------------
(* Proofs about the bank as a member meets it: for any loads, so for any number  *)
(* of calls of every part, interleaved at every await, with calls that throw and *)
(* with restarts.  First what each step of registration, of self-service, of the *)
(* payments and of the sessions keeps, then the invariant of the four together,  *)
(* and the theorems.                                                             *)
EXTENDS MemberBanking, SumTheorems, SequenceTheorems

-----------------------------------------------------------------------------
(* Registration: any registrations, any number of members there are and any    *)
(* number of calls under way.                                                  *)

(* The shape of a call: which await can follow which in what it has to do, and *)
(* which can be its last.                                                      *)

Counting == <<"count", "members">>
Inserting == <<"insert", "member">>
Profiling == <<"insert", "profile">>
SavingRecord == <<"save", "record">>
Reading == <<"read", "member">>
SavingProfile == <<"save", "profile">>
SavingMember == <<"save", "member">>
Asked == {"start", "fin", "qr", "verify"}
Writing == {"create", "update"} \X Asked
Telling == {"status"} \X Asked
Submitting == {SavingRecord} \cup Writing \cup Telling

AwaitsOf(kind) == IF kind = "identity" THEN {Counting, Inserting, Profiling} \cup Submitting
                  ELSE {Reading, SavingProfile, SavingMember}

Follows(a, b) ==
    \/ a = Counting /\ b = Inserting
    \/ a = Inserting /\ b = Profiling
    \/ a = Profiling /\ b \in Writing
    \/ a \in Writing /\ b = <<"status", a[2]>>
    \/ a \in Telling /\ b \in Writing
    \/ a = SavingRecord /\ b = <<"status", "verify">>
    \/ a = Reading /\ b = SavingProfile
    \/ a = SavingProfile /\ b = SavingMember
Lasts == Telling \cup {SavingMember}

TodoOf(kind, t) ==
    /\ t \in Seq(AwaitsOf(kind)) /\ Len(t) > 0
    /\ \A i \in 1..Len(t) : i < Len(t) => Follows(t[i], t[i + 1])
    /\ t[Len(t)] \in Lasts

\* c is a call when there are n members: until it inserts one it has none.
Unborn == {Counting, Inserting}
Shaped(c, n) ==
    /\ c \in OnboardCall
    /\ TodoOf(c.kind, c.todo)
    /\ IF c.todo[1] \in Unborn THEN c.who = 0 ELSE c.who \in 1..n

Alive(c) == c.at \in {"running", "dead"}
Waits(c, a) == Alive(c) /\ c.todo[1] = a

-----------------------------------------------------------------------------
LEMMA AnswerType == /\ DOMAIN Answer = Asked
                    /\ \A what \in Asked : Answer[what] \in VerificationStatus
  BY DEF Answer, Asked, VerificationStatus

LEMMA AwaitTypes == /\ \A kind \in OnboardKinds : AwaitsOf(kind) \subseteq Awaits
                    /\ Unborn \cup {Profiling} \subseteq AwaitsOf("identity")
                    /\ Submitting \subseteq AwaitsOf("identity")
                    /\ AwaitsOf("identity") \cap AwaitsOf("review") = {}
                    /\ (Unborn \cup {Profiling}) \cap Submitting = {}
                    /\ Counting # Inserting /\ Profiling \notin Unborn
                    /\ SavingRecord \notin Writing \cup Telling /\ Writing \cap Telling = {}
  BY AnswerType DEF AwaitsOf, Submitting, Writing, Telling, SavingRecord, Awaits, Counting, Inserting,
     Profiling, Reading, SavingProfile, SavingMember, Unborn, Asked, OnboardKinds

LEMMA ReviewAwaits == /\ Reading # SavingProfile /\ Reading # SavingMember /\ SavingProfile # SavingMember
                      /\ AwaitsOf("review") = {Reading, SavingProfile, SavingMember}
  BY DEF Reading, SavingProfile, SavingMember, AwaitsOf

\* What may be the last await, and what follows the others.
LEMMA FollowsWhat ==
    ASSUME NEW a, NEW b, Follows(a, b)
    PROVE  /\ b # Counting /\ b # Reading /\ b # SavingRecord
           /\ b = Inserting <=> a = Counting
           /\ b = Profiling <=> a = Inserting
           /\ b = SavingProfile <=> a = Reading
           /\ b = SavingMember <=> a = SavingProfile
           /\ a # SavingMember
           /\ b \in Telling <=> a \in Writing \cup {SavingRecord}
           /\ a \in Writing => b = <<"status", a[2]>>
           /\ a = SavingRecord => b = <<"status", "verify">>
  BY DEF Follows, Counting, Inserting, Profiling, SavingRecord, Reading, SavingProfile, SavingMember,
     Writing, Telling, Asked

-----------------------------------------------------------------------------
\* What is left of a list of awaits after the first.
LEMMA TailOf ==
    ASSUME NEW A, NEW t \in Seq(A), Len(t) > 1
    PROVE  /\ Tail(t) \in Seq(A) /\ Len(Tail(t)) = Len(t) - 1
           /\ \A i \in 1..Len(Tail(t)) : Tail(t)[i] = t[i + 1]
  BY HeadTailProperties, LenProperties

LEMMA LenTail ==
    ASSUME NEW n \in Nat, NEW m, m = n - 1, n > 1
    PROVE  /\ m > 0 /\ m \in Nat /\ m \in 1..m /\ m + 1 = n /\ 1 \in 1..m /\ 1 \in 1..n
           /\ \A i \in 1..m : i < m => i + 1 \in 1..m /\ i + 1 \in 1..n /\ i + 1 < n
  OBVIOUS

\* After the first of its awaits a list of awaits is of the same kind.
LEMMA TodoTail ==
    ASSUME NEW kind \in OnboardKinds, NEW t \in Seq(Awaits), TodoOf(kind, t), Len(t) # 1
    PROVE  /\ Tail(t) \in Seq(Awaits) /\ TodoOf(kind, Tail(t))
           /\ Follows(t[1], Tail(t)[1])
<1>1. t \in Seq(AwaitsOf(kind)) /\ AwaitsOf(kind) \subseteq Awaits
  BY AwaitTypes DEF TodoOf
<1>2. PICK n \in Nat : n = Len(t) /\ n > 1
  <2>1. PICK n \in Nat : n = Len(t)
    BY LenProperties
  <2>2. n > 0
    BY <2>1 DEF TodoOf
  <2>3. n # 1
    BY <2>1
  <2> QED
    BY <2>1, <2>2, <2>3
<1>3. /\ Tail(t) \in Seq(AwaitsOf(kind)) /\ Len(Tail(t)) = Len(t) - 1
      /\ \A i \in 1..Len(Tail(t)) : Tail(t)[i] = t[i + 1]
  BY <1>1, <1>2, TailOf
<1>4. /\ Len(Tail(t)) > 0 /\ Len(Tail(t)) \in 1..Len(Tail(t)) /\ Len(Tail(t)) + 1 = Len(t)
      /\ 1 \in 1..Len(Tail(t)) /\ 1 \in 1..Len(t)
      /\ \A i \in 1..Len(Tail(t)) : i < Len(Tail(t)) =>
            i + 1 \in 1..Len(Tail(t)) /\ i + 1 \in 1..Len(t) /\ i + 1 < Len(t)
  BY <1>2, <1>3, LenTail
<1>5. ASSUME NEW i \in 1..Len(Tail(t)), i < Len(Tail(t))
      PROVE  Follows(Tail(t)[i], Tail(t)[i + 1])
  <2>1. i + 1 \in 1..Len(Tail(t)) /\ i + 1 \in 1..Len(t) /\ i + 1 < Len(t)
    BY <1>4, <1>5
  <2>2. Tail(t)[i] = t[i + 1] /\ Tail(t)[i + 1] = t[(i + 1) + 1]
    BY <1>3, <2>1
  <2>3. Follows(t[i + 1], t[(i + 1) + 1])
    BY <2>1 DEF TodoOf
  <2> QED
    BY <2>2, <2>3
<1>6. Follows(t[1], Tail(t)[1])
  <2>1. Tail(t)[1] = t[1 + 1]
    BY <1>3, <1>4
  <2>2. Follows(t[1], t[1 + 1])
    BY <1>2, <1>4 DEF TodoOf
  <2> QED
    BY <2>1, <2>2
<1>7. Tail(t)[Len(Tail(t))] \in Lasts
  <2>1. Tail(t)[Len(Tail(t))] = t[Len(t)]
    BY <1>3, <1>4
  <2> QED
    BY <2>1 DEF TodoOf
<1>8. Tail(t) \in Seq(Awaits)
  BY <1>1, <1>3
<1> QED
  BY <1>3, <1>4, <1>5, <1>6, <1>7, <1>8 DEF TodoOf

\* A call makes an await: it has made the last one, or the next may follow it.
LEMMA CallGoes ==
    ASSUME NEW c \in OnboardCall, TodoOf(c.kind, c.todo), NEW x, x = Gone(c)
    PROVE  \/ x = Served /\ c.todo[1] \in Lasts
           \/ /\ x \in OnboardCall /\ TodoOf(x.kind, x.todo) /\ Follows(c.todo[1], x.todo[1])
              /\ x.at = c.at /\ x.kind = c.kind /\ x.dto = c.dto /\ x.number = c.number
              /\ x.who = c.who /\ x.record = c.record /\ x.seenRecord = c.seenRecord
              /\ x.seen = c.seen /\ x.seenKyc = c.seenKyc /\ x.to = c.to
<1>1. CASE Len(c.todo) = 1
  BY <1>1 DEF TodoOf, Gone
<1>2. CASE Len(c.todo) # 1
  <2>1. /\ Tail(c.todo) \in Seq(Awaits) /\ TodoOf(c.kind, Tail(c.todo))
        /\ Follows(c.todo[1], Tail(c.todo)[1])
    BY <1>2, TodoTail DEF OnboardCall
  <2>2. /\ x \in OnboardCall /\ x.todo = Tail(c.todo)
        /\ x.at = c.at /\ x.kind = c.kind /\ x.dto = c.dto /\ x.number = c.number
        /\ x.who = c.who /\ x.record = c.record /\ x.seenRecord = c.seenRecord
        /\ x.seen = c.seen /\ x.seenKyc = c.seenKyc /\ x.to = c.to
    BY <1>2, <2>1 DEF OnboardCall, Gone
  <2> QED
    BY <2>1, <2>2
<1> QED
  BY <1>1, <1>2

-----------------------------------------------------------------------------
(* The inductive invariant.  Beyond the types and the shape of the calls: each *)
(* call that is to insert a member has a number that is taken or next; a       *)
(* member without a profile has one call that is to write it; of calls of a    *)
(* kind that are under way on a member two make the member raced; and what a   *)
(* lone review, or a lone submission, has read or written still stands, but    *)
(* for what the member's submissions do to the profile.                        *)

CallsShaped ==
    \A k \in OnboardCalls : Alive(onboardCall[k]) => Shaped(onboardCall[k], Len(members))

Numbered ==
    /\ Enrolled <= Len(members)
    /\ NumbersAreConsecutive
    /\ \A k \in OnboardCalls : Waits(onboardCall[k], Inserting) =>
          onboardCall[k].number > Enrolled /\ onboardCall[k].number <= Len(members) + 1

Profiled ==
    /\ \A m \in DOMAIN members : profiles[m] = NoProfile =>
          /\ members[m].kyc = "pending"
          /\ \E k \in OnboardCalls : Waits(onboardCall[k], Profiling) /\ onboardCall[k].who = m
    /\ \A k \in OnboardCalls :
          /\ Waits(onboardCall[k], Profiling) => profiles[onboardCall[k].who] = NoProfile
          /\ Alive(onboardCall[k]) /\ onboardCall[k].kind = "review" =>
                profiles[onboardCall[k].who] # NoProfile
    /\ \A j, k \in OnboardCalls :
          /\ Waits(onboardCall[j], Profiling) /\ Waits(onboardCall[k], Profiling)
          /\ onboardCall[j].who = onboardCall[k].who
          => j = k

OneEach ==
    \A j, k \in OnboardCalls :
        /\ Running(j) /\ Running(k) /\ onboardCall[j].todo[1] \notin Unborn
        /\ onboardCall[j].kind = onboardCall[k].kind /\ onboardCall[j].who = onboardCall[k].who
        => j = k \/ <<onboardCall[k].who, onboardCall[k].kind>> \in raced

Lone(c) == c.at = "running" /\ <<c.who, c.kind>> \notin raced

ReviewSound(c) ==
    Lone(c) /\ c.kind = "review" =>
        /\ c.todo[1] \in {Reading, SavingProfile} =>
              /\ profiles[c.who].review = c.seen.review
              /\ profiles[c.who].membership \in {c.seen.membership, "pending_verification"}
        /\ c.todo[1] # Reading => members[c.who].kyc = c.seenKyc
        /\ c.todo[1] = SavingMember =>
              /\ profiles[c.who].review = c.to
              /\ profiles[c.who].membership = "active" => c.to = "approved"

SubmissionSound(c) ==
    /\ Waits(c, SavingRecord) => c.record \in 1..Len(records[c.who])
    /\ Lone(c) /\ c.kind = "identity" =>
        /\ c.todo[1] = SavingRecord => records[c.who][c.record] = c.seenRecord
        /\ c.todo[1] \in Telling /\ Len(records[c.who]) = 1 =>
              records[c.who][1] = Answer[c.todo[1][2]]

CallsSound ==
    \A k \in OnboardCalls : ReviewSound(onboardCall[k]) /\ SubmissionSound(onboardCall[k])

KycMatches ==
    \A m \in DOMAIN members :
        \/ profiles[m] = NoProfile \/ <<m, "review">> \in raced
        \/ \E k \in OnboardCalls : Waits(onboardCall[k], SavingMember) /\ onboardCall[k].who = m
        \/ /\ members[m].kyc = "verified" <=> profiles[m].review = "approved"
           /\ profiles[m].membership = "active" => profiles[m].review = "approved"

RecordMatches ==
    \A m \in DOMAIN members :
        \/ Len(records[m]) # 1 \/ <<m, "identity">> \in raced
        \/ \E k \in OnboardCalls : /\ Alive(onboardCall[k]) /\ onboardCall[k].kind = "identity"
                                   /\ onboardCall[k].who = m
        \/ profiles[m].identity \in {records[m][1]} \cup (IdentityStatus \ VerificationStatus)

OnboardInv == /\ OnboardTypeOK /\ CallsShaped /\ Numbered /\ Profiled /\ OneEach /\ CallsSound
              /\ KycMatches /\ RecordMatches

-----------------------------------------------------------------------------
LEMMA KindOfAwait ==
    ASSUME NEW c, NEW n, Shaped(c, n)
    PROVE  /\ c.todo[1] \in AwaitsOf(c.kind) /\ Head(c.todo) = c.todo[1]
           /\ c.todo[1] \in Unborn \cup {Profiling} \cup Submitting => c.kind = "identity"
           /\ c.todo[1] \in {Reading, SavingProfile, SavingMember} => c.kind = "review"
<1>1. c.kind \in OnboardKinds /\ c.todo \in Seq(Awaits) /\ c.todo \in Seq(AwaitsOf(c.kind))
  BY DEF Shaped, TodoOf, OnboardCall
<1>2. PICK l \in Nat : l = Len(c.todo) /\ l > 0
  BY <1>1, LenProperties DEF Shaped, TodoOf
<1>3. c.todo[1] \in AwaitsOf(c.kind)
  BY <1>1, <1>2, ElementOfSeq
<1>4. Head(c.todo) = c.todo[1]
  BY <1>1
<1> QED
  BY <1>1, <1>3, <1>4, AwaitTypes, ReviewAwaits DEF OnboardKinds

\* The invariant says more than the properties.
LEMMA OnboardHolds == ASSUME OnboardInv PROVE NumbersAreConsecutive /\ DocumentsAgree
<1>1. NumbersAreConsecutive
  BY DEF OnboardInv, Numbered
<1>2. ASSUME NEW k \in OnboardCalls, Alive(onboardCall[k])
      PROVE  /\ Await(k) = onboardCall[k].todo[1]
             /\ onboardCall[k].todo[1] = Profiling => onboardCall[k].kind = "identity"
  BY <1>2, KindOfAwait DEF OnboardInv, CallsShaped, Await
<1>3. KycTellsReview
  <2> SUFFICES ASSUME NEW m \in DOMAIN members
               PROVE  \/ profiles[m] = NoProfile /\ AtAwait(m, Profiling)
                      \/ <<m, "review">> \in raced
                      \/ AtAwait(m, SavingMember)
                      \/ /\ members[m].kyc = "verified" <=> profiles[m].review = "approved"
                         /\ profiles[m].membership = "active" => profiles[m].review = "approved"
    BY DEF KycTellsReview, Profiling, SavingMember
  <2>1. ASSUME NEW a, NEW k \in OnboardCalls, Waits(onboardCall[k], a), onboardCall[k].who = m
        PROVE  AtAwait(m, a)
    BY <1>2, <2>1 DEF Waits, Alive, AtAwait, CallsOn
  <2> QED
    BY <2>1 DEF OnboardInv, KycMatches, Profiled
<1>4. RecordTellsProfile
  <2> SUFFICES ASSUME NEW m \in DOMAIN members
               PROVE  \/ Len(records[m]) # 1 \/ <<m, "identity">> \in raced
                      \/ \E k \in CallsOn(m) : onboardCall[k].kind = "identity"
                      \/ profiles[m].identity \in {records[m][1]} \cup (IdentityStatus \ VerificationStatus)
    BY DEF RecordTellsProfile
  <2> QED
    BY DEF OnboardInv, RecordMatches, CallsOn, Alive
<1> QED
  BY <1>1, <1>3, <1>4 DEF DocumentsAgree

LEMMA OnboardInvInit == ASSUME OnboardInit PROVE OnboardInv
<1>1. /\ DOMAIN members = 1..Enrolled /\ Len(members) = Enrolled /\ members \in Seq(Member)
      /\ Enrolled \in Nat
      /\ \A m \in 1..Enrolled : members[m] = EnrolledMember /\ profiles[m] = Reviewed /\ records[m] = << >>
  <2>1. EnrolledMember \in Member
    BY DEF EnrolledMember, Member
  <2> QED
    BY <2>1, OnboardConstants DEF OnboardInit
<1>2. \A k \in OnboardCalls : onboardCall[k] = Uncalled /\ onboardCall[k].at = "idle"
  BY DEF OnboardInit, Uncalled
<1>3. Reviewed \in Profile /\ Reviewed # NoProfile
  BY DEF Reviewed, Profile, Membership, IdentityStatus, ReviewStatus, NoProfile
<1>4. OnboardTypeOK
  <2>1. profiles \in [DOMAIN members -> Profile \cup {NoProfile}]
    BY <1>1, <1>3 DEF OnboardInit
  <2>2. records \in [DOMAIN members -> Seq(VerificationStatus)]
    BY <1>1 DEF OnboardInit
  <2>3. onboardCall \in [OnboardCalls -> OnboardCall \cup {Uncalled, Served}] /\ raced = {}
    BY DEF OnboardInit
  <2> QED
    BY <1>1, <2>1, <2>2, <2>3 DEF OnboardTypeOK
<1>5. CallsShaped /\ Profiled /\ OneEach /\ CallsSound
  BY <1>1, <1>2, <1>3 DEF CallsShaped, Profiled, OneEach, CallsSound, ReviewSound, SubmissionSound,
     Lone, Alive, Waits, Running
<1>6. Numbered
  BY <1>1, <1>2 DEF Numbered, NumbersAreConsecutive, Waits, Alive
<1>7. KycMatches
  BY <1>1 DEF KycMatches, EnrolledMember, Reviewed
<1>8. RecordMatches
  BY <1>1 DEF RecordMatches
<1> QED
  BY <1>4, <1>5, <1>6, <1>7, <1>8 DEF OnboardInv

LEMMA OnboardInvStutter == ASSUME OnboardInv, UNCHANGED onboardVars PROVE OnboardInv'
<1> USE DEF OnboardInv, onboardVars
<1>1. OnboardTypeOK' BY DEF OnboardTypeOK
<1>2. CallsShaped' BY DEF CallsShaped
<1>3. Numbered' /\ Profiled' BY DEF Numbered, NumbersAreConsecutive, Profiled
<1>4. OneEach' BY DEF OneEach, Running
<1>5. CallsSound' BY DEF CallsSound, ReviewSound, SubmissionSound, Lone
<1>6. KycMatches' /\ RecordMatches' BY DEF KycMatches, RecordMatches
<1> QED
  BY <1>1, <1>2, <1>3, <1>4, <1>5, <1>6

-----------------------------------------------------------------------------
(* Steps that write nothing.                                                   *)

\* A call arrives, x: a registration, a submission or a review.
LEMMA Arriving ==
    ASSUME OnboardInv, NEW k \in OnboardCalls, onboardCall[k] = Uncalled,
           NEW x, Shaped(x, Len(members)), x.at = "running",
           onboardCall' = [onboardCall EXCEPT ![k] = x],
           UNCHANGED <<members, profiles, records>>,
           x.todo[1] \notin {Inserting, Profiling, SavingProfile, SavingMember} \cup Telling,
           x.todo[1] \notin Unborn => Overlaps(x.who, x.kind),
           x.todo[1] \in Unborn => UNCHANGED raced,
           x.kind = "review" => profiles[x.who] # NoProfile /\ x.seen = profiles[x.who],
           x.todo[1] = SavingRecord => /\ x.record \in 1..Len(records[x.who])
                                       /\ x.seenRecord = records[x.who][x.record]
    PROVE  OnboardInv'
<1> USE DEF OnboardInv
<1>1. /\ onboardCall' \in [OnboardCalls -> OnboardCall \cup {Uncalled, Served}]
      /\ \A j \in OnboardCalls : onboardCall'[j] = IF j = k THEN x ELSE onboardCall[j]
  BY DEF OnboardTypeOK, Shaped
<1>2. /\ ~Alive(onboardCall[k]) /\ ~Running(k) /\ \A a : ~Waits(onboardCall[k], a)
  BY DEF Uncalled, Alive, Running, Waits
<1>3. raced \subseteq raced' /\ raced' \subseteq (DOMAIN members) \X OnboardKinds
  <2>1. raced \subseteq (DOMAIN members) \X OnboardKinds
    BY DEF OnboardTypeOK
  <2>2. CASE x.todo[1] \in Unborn
    BY <2>1, <2>2
  <2>3. CASE x.todo[1] \notin Unborn
    <3>1. x.who \in DOMAIN members /\ x.kind \in OnboardKinds
      BY <2>3 DEF Shaped, OnboardTypeOK, OnboardCall
    <3>2. raced' = raced \/ raced' = raced \cup {<<x.who, x.kind>>}
      BY <2>3 DEF Overlaps
    <3> QED
      BY <2>1, <3>1, <3>2
  <2> QED
    BY <2>2, <2>3
<1>4. x.kind = "review" => x.todo[1] = Reading
  <2>1. x.todo[1] \in AwaitsOf(x.kind)
    BY KindOfAwait
  <2> QED
    BY <2>1, ReviewAwaits
<1>5. OnboardTypeOK'
  BY <1>1, <1>3 DEF OnboardTypeOK
<1>6. CallsShaped'
  BY <1>1 DEF CallsShaped
<1>7. Numbered'
  BY <1>1 DEF Numbered, NumbersAreConsecutive, Waits
<1>8. Profiled'
  BY <1>1, <1>2 DEF Profiled, Waits
<1>9. OneEach'
  <2> SUFFICES ASSUME NEW i \in OnboardCalls, NEW j \in OnboardCalls,
                      Running(i)', Running(j)', i # j,
                      onboardCall'[i].todo[1] \notin Unborn,
                      onboardCall'[i].kind = onboardCall'[j].kind,
                      onboardCall'[i].who = onboardCall'[j].who
               PROVE  <<onboardCall'[j].who, onboardCall'[j].kind>> \in raced'
    BY DEF OneEach
  <2>1. CASE i # k /\ j # k
    BY <2>1, <1>1, <1>3 DEF OneEach, Running
  <2>2. CASE i = k
    <3>1. Running(j) /\ onboardCall[j].who = x.who /\ onboardCall[j].kind = x.kind
      BY <2>2, <1>1 DEF Running
    <3> QED
      BY <3>1, <2>2, <1>1 DEF Overlaps
  <2>3. CASE j = k
    <3>1. Running(i) /\ onboardCall[i].who = x.who /\ onboardCall[i].kind = x.kind
      BY <2>3, <1>1 DEF Running
    <3>2. x.todo[1] \notin Unborn
      <4>1. Shaped(onboardCall[i], Len(members)) /\ onboardCall[i].todo[1] \notin Unborn
        BY <3>1, <2>3, <1>1 DEF CallsShaped, Alive, Running
      <4> QED
        BY <4>1, <3>1 DEF Shaped
    <3> QED
      BY <3>1, <3>2, <2>3, <1>1 DEF Overlaps
  <2> QED
    BY <2>1, <2>2, <2>3
<1>10. CallsSound'
  <2> SUFFICES ASSUME NEW j \in OnboardCalls
               PROVE  ReviewSound(onboardCall[j])' /\ SubmissionSound(onboardCall[j])'
    BY DEF CallsSound
  <2>1. CASE j # k
    <3>1. ReviewSound(onboardCall[j]) /\ SubmissionSound(onboardCall[j]) /\ onboardCall'[j] = onboardCall[j]
      BY <2>1, <1>1 DEF CallsSound
    <3> QED
      BY <3>1, <1>3 DEF ReviewSound, SubmissionSound, Lone
  <2>2. CASE j = k
    <3>1. onboardCall'[j] = x
      BY <2>2, <1>1
    <3>2. ReviewSound(onboardCall[j])'
      BY <3>1, <1>4, ReviewAwaits DEF ReviewSound, Lone
    <3>3. SubmissionSound(onboardCall[j])'
      BY <3>1, ReviewAwaits DEF SubmissionSound, Waits, Lone
    <3> QED
      BY <3>2, <3>3
  <2> QED
    BY <2>1, <2>2
<1>11. KycMatches'
  BY <1>1, <1>2, <1>3 DEF KycMatches
<1>12. RecordMatches'
  BY <1>1, <1>2, <1>3 DEF RecordMatches
<1> QED
  BY <1>5, <1>6, <1>7, <1>8, <1>9, <1>10, <1>11, <1>12

\* Some calls throw or are refused, and nothing else happens.
Dies(c, d) == \/ d = c
              \/ c.at = "running" /\ d = [c EXCEPT !.at = "dead"]
              \/ c.at = "running" /\ c.todo[1] = Inserting /\ d = Served

LEMMA Dying ==
    ASSUME OnboardInv, onboardCall' \in [OnboardCalls -> OnboardCall \cup {Uncalled, Served}],
           \A k \in OnboardCalls : Dies(onboardCall[k], onboardCall'[k]),
           UNCHANGED <<members, profiles, records, raced>>
    PROVE  OnboardInv'
<1> USE DEF OnboardInv
<1>1. ASSUME NEW k \in OnboardCalls, Alive(onboardCall'[k])
      PROVE  /\ Alive(onboardCall[k])
             /\ Running(k)' => onboardCall'[k] = onboardCall[k]
             /\ \/ onboardCall'[k] = onboardCall[k]
                \/ onboardCall'[k] \in OnboardCall /\ onboardCall'[k].at = "dead"
             /\ onboardCall'[k].todo = onboardCall[k].todo
             /\ onboardCall'[k].kind = onboardCall[k].kind /\ onboardCall'[k].who = onboardCall[k].who
             /\ onboardCall'[k].number = onboardCall[k].number
             /\ onboardCall'[k].record = onboardCall[k].record
  <2>1. onboardCall[k] \in OnboardCall \/ onboardCall[k] \in {Uncalled, Served}
    BY DEF OnboardTypeOK
  <2>2. CASE onboardCall'[k] = onboardCall[k]
    BY <2>2, <1>1 DEF Alive, Running
  <2>3. CASE onboardCall[k].at = "running" /\ onboardCall'[k] = [onboardCall[k] EXCEPT !.at = "dead"]
    <3>1. onboardCall[k] \in OnboardCall
      BY <2>1, <2>3 DEF Uncalled, Served
    <3> QED
      BY <3>1, <2>3 DEF Alive, Running, OnboardCall
  <2>4. CASE onboardCall'[k] = Served
    BY <2>4, <1>1 DEF Alive, Served
  <2> QED
    BY <2>2, <2>3, <2>4 DEF Dies
<1>2. ASSUME NEW k \in OnboardCalls, Alive(onboardCall[k])
      PROVE  \/ Alive(onboardCall'[k])
             \/ onboardCall[k].todo[1] = Inserting /\ onboardCall'[k] = Served
  <2>1. onboardCall[k] \in OnboardCall
    BY <1>2 DEF OnboardTypeOK, Uncalled, Served, Alive
  <2> QED
    BY <2>1, <1>2 DEF Dies, Alive, OnboardCall
<1>3. OnboardTypeOK'
  BY DEF OnboardTypeOK
<1>4. CallsShaped'
  BY <1>1 DEF CallsShaped, Shaped
<1>5. Numbered'
  BY <1>1 DEF Numbered, NumbersAreConsecutive, Waits
<1>6. Profiled'
  <2>1. ASSUME NEW m \in DOMAIN members, profiles[m] = NoProfile
        PROVE  \E k \in OnboardCalls : Waits(onboardCall[k], Profiling)' /\ onboardCall'[k].who = m
    <3>1. PICK k \in OnboardCalls : Waits(onboardCall[k], Profiling) /\ onboardCall[k].who = m
      BY <2>1 DEF Profiled
    <3>2. Alive(onboardCall'[k])
      BY <3>1, <1>2, AwaitTypes DEF Waits, Unborn
    <3> QED
      BY <3>1, <3>2, <1>1 DEF Waits, Alive
  <2> QED
    BY <2>1, <1>1 DEF Profiled, Waits, Alive
<1>7. OneEach'
  BY <1>1 DEF OneEach, Running, Alive
<1>8. CallsSound'
  <2> SUFFICES ASSUME NEW j \in OnboardCalls
               PROVE  ReviewSound(onboardCall[j])' /\ SubmissionSound(onboardCall[j])'
    BY DEF CallsSound
  <2>1. ReviewSound(onboardCall[j]) /\ SubmissionSound(onboardCall[j])
    BY DEF CallsSound
  <2>2. CASE onboardCall'[j] = onboardCall[j]
    BY <2>1, <2>2 DEF ReviewSound, SubmissionSound, Lone
  <2>3. CASE onboardCall'[j] # onboardCall[j]
    <3>1. onboardCall'[j].at # "running"
      BY <1>1, <2>3 DEF Alive, Running
    <3>2. Waits(onboardCall'[j], SavingRecord) => /\ Waits(onboardCall[j], SavingRecord)
                                                  /\ onboardCall'[j].record = onboardCall[j].record
                                                  /\ onboardCall'[j].who = onboardCall[j].who
      BY <1>1 DEF Waits
    <3> QED
      BY <2>1, <3>1, <3>2 DEF ReviewSound, SubmissionSound, Lone
  <2> QED
    BY <2>2, <2>3
<1>9. KycMatches'
  <2>1. ASSUME NEW k \in OnboardCalls, Waits(onboardCall[k], SavingMember)
        PROVE  Waits(onboardCall[k], SavingMember)' /\ onboardCall'[k].who = onboardCall[k].who
    <3>1. Alive(onboardCall'[k])
      BY <2>1, <1>2 DEF Waits, Inserting, SavingMember
    <3> QED
      BY <2>1, <3>1, <1>1 DEF Waits, Alive
  <2> QED
    BY <2>1 DEF KycMatches
<1>10. RecordMatches'
  <2>1. ASSUME NEW k \in OnboardCalls, NEW m \in DOMAIN members, Alive(onboardCall[k]),
               onboardCall[k].kind = "identity", onboardCall[k].who = m
        PROVE  Alive(onboardCall'[k]) /\ onboardCall'[k].kind = "identity" /\ onboardCall'[k].who = m
    <3>1. Shaped(onboardCall[k], Len(members)) /\ m # 0
      BY <2>1 DEF CallsShaped, OnboardTypeOK
    <3>2. onboardCall[k].todo[1] # Inserting
      BY <3>1, <2>1 DEF Shaped, Unborn
    <3> QED
      BY <2>1, <3>2, <1>1, <1>2
  <2> QED
    BY <2>1 DEF RecordMatches, Alive
<1> QED
  BY <1>3, <1>4, <1>5, <1>6, <1>7, <1>8, <1>9, <1>10

-----------------------------------------------------------------------------
(* Steps that make an await.                                                   *)

\* The call is what it was, but for what it learns and has left to do.
LEMMA Going ==
    ASSUME OnboardInv, NEW k \in OnboardCalls, Running(k),
           NEW c \in OnboardCall, c.at = "running", c.kind = onboardCall[k].kind,
           c.todo = onboardCall[k].todo, c.who = onboardCall[k].who,
           Goes(k, c), c.todo[1] # Inserting, raced' = raced, Len(members') = Len(members)
    PROVE  /\ onboardCall' \in [OnboardCalls -> OnboardCall \cup {Uncalled, Served}]
           /\ \A j \in OnboardCalls : j # k => onboardCall'[j] = onboardCall[j]
           /\ CallsShaped' /\ OneEach'
           /\ \/ onboardCall'[k] = Served /\ c.todo[1] \in Lasts
              \/ /\ onboardCall'[k] \in OnboardCall /\ Follows(c.todo[1], onboardCall'[k].todo[1])
                 /\ Shaped(onboardCall'[k], Len(members))
                 /\ onboardCall'[k].at = "running" /\ onboardCall'[k].kind = c.kind
                 /\ onboardCall'[k].number = c.number /\ onboardCall'[k].dto = c.dto
                 /\ onboardCall'[k].who = c.who /\ onboardCall'[k].record = c.record
                 /\ onboardCall'[k].seenRecord = c.seenRecord /\ onboardCall'[k].seen = c.seen
                 /\ onboardCall'[k].seenKyc = c.seenKyc /\ onboardCall'[k].to = c.to
<1> USE DEF OnboardInv
<1>1. PICK x : x = Gone(c)
  OBVIOUS
<1>2. Shaped(onboardCall[k], Len(members))
  BY DEF CallsShaped, Running, Alive
<1>3. TodoOf(c.kind, c.todo)
  BY <1>2 DEF Shaped
<1>4. \/ x = Served /\ c.todo[1] \in Lasts
      \/ /\ x \in OnboardCall /\ TodoOf(x.kind, x.todo) /\ Follows(c.todo[1], x.todo[1])
         /\ x.at = c.at /\ x.kind = c.kind /\ x.dto = c.dto /\ x.number = c.number
         /\ x.who = c.who /\ x.record = c.record /\ x.seenRecord = c.seenRecord
         /\ x.seen = c.seen /\ x.seenKyc = c.seenKyc /\ x.to = c.to
  BY <1>1, <1>3, CallGoes
<1>5. /\ onboardCall' \in [OnboardCalls -> OnboardCall \cup {Uncalled, Served}]
      /\ \A j \in OnboardCalls : onboardCall'[j] = IF j = k THEN x ELSE onboardCall[j]
  BY <1>1, <1>4 DEF OnboardTypeOK, Goes
<1>6. x # Served => Shaped(x, Len(members)) /\ (x.todo[1] \in Unborn => c.todo[1] = Counting)
  <2> SUFFICES ASSUME x # Served
               PROVE  Shaped(x, Len(members)) /\ (x.todo[1] \in Unborn => c.todo[1] = Counting)
    OBVIOUS
  <2>1. x.todo[1] \in Unborn <=> c.todo[1] = Counting
    BY <1>4, FollowsWhat DEF Unborn
  <2>2. c.todo[1] \in Unborn <=> c.todo[1] = Counting
    BY DEF Unborn
  <2> QED
    BY <2>1, <2>2, <1>2, <1>4 DEF Shaped
<1>7. CallsShaped'
  BY <1>5, <1>6 DEF CallsShaped, Alive, Served
<1>8. OneEach'
  <2>1. ASSUME NEW j \in OnboardCalls, Running(j)'
        PROVE  /\ Running(j) /\ onboardCall'[j].kind = onboardCall[j].kind
               /\ onboardCall'[j].who = onboardCall[j].who
               /\ onboardCall'[j].todo[1] \notin Unborn => onboardCall[j].todo[1] \notin Unborn \/ j = k
    BY <2>1, <1>4, <1>5 DEF Running, Served
  <2>2. onboardCall'[k].todo[1] \notin Unborn /\ Running(k)' => onboardCall[k].todo[1] \notin Unborn
    BY <1>4, <1>5, FollowsWhat DEF Unborn, Running, Served
  <2> QED
    BY <2>1, <2>2 DEF OneEach
<1>9. onboardCall'[k] = x
  BY <1>5
<1>10. CASE x = Served
  BY <1>4, <1>5, <1>7, <1>8, <1>9, <1>10 DEF Served, OnboardCall
<1>11. CASE x # Served
  BY <1>4, <1>5, <1>6, <1>7, <1>8, <1>9, <1>11
<1> QED
  BY <1>10, <1>11

\* The await a running call is at.
LEMMA RunningAt ==
    ASSUME OnboardInv, NEW k \in OnboardCalls, Running(k)
    PROVE  /\ onboardCall[k] \in OnboardCall /\ onboardCall[k].at = "running"
           /\ Shaped(onboardCall[k], Len(members)) /\ Alive(onboardCall[k])
           /\ Await(k) = onboardCall[k].todo[1]
           /\ onboardCall[k].todo[1] \notin Unborn =>
                 onboardCall[k].who \in 1..Len(members) /\ onboardCall[k].who \in DOMAIN members
<1>1. Shaped(onboardCall[k], Len(members)) /\ onboardCall[k].at = "running" /\ Alive(onboardCall[k])
  BY DEF OnboardInv, CallsShaped, Running, Alive
<1>2. DOMAIN members = 1..Len(members)
  BY DEF OnboardInv, OnboardTypeOK
<1> QED
  BY <1>1, <1>2, KindOfAwait DEF Shaped, Await

\* A call that is alone on its member: no other one of its kind runs.
LEMMA AloneOn ==
    ASSUME OnboardInv, NEW k \in OnboardCalls, Running(k), onboardCall[k].todo[1] \notin Unborn,
           NEW j \in OnboardCalls, j # k, Lone(onboardCall[j]),
           onboardCall[j].kind = onboardCall[k].kind
    PROVE  onboardCall[j].who # onboardCall[k].who
  BY DEF OnboardInv, OneEach, Lone, Running

LEMMA OnboardTakeNumber ==
    ASSUME OnboardInv, NEW k \in OnboardCalls, TakeNumber(k) PROVE OnboardInv'
<1> DEFINE c == [onboardCall[k] EXCEPT !.number = Len(members) + 1]
<1>1. Running(k) /\ onboardCall[k].todo[1] = Counting /\ Goes(k, c)
      /\ UNCHANGED <<members, profiles, records, raced>>
  BY RunningAt DEF TakeNumber, Counting
<1>2. /\ onboardCall[k] \in OnboardCall /\ onboardCall[k].at = "running" /\ Len(members) \in Nat
      /\ Shaped(onboardCall[k], Len(members))
  BY <1>1, RunningAt DEF OnboardInv, OnboardTypeOK
<1>3. /\ c \in OnboardCall /\ c.at = "running" /\ c.kind = onboardCall[k].kind
      /\ c.todo = onboardCall[k].todo /\ c.who = onboardCall[k].who /\ c.number = Len(members) + 1
  BY <1>2 DEF OnboardCall
<1> HIDE DEF c
<1>4. c.todo[1] # Inserting /\ c.todo[1] \notin Lasts
  BY <1>1, <1>3 DEF Counting, Inserting, Lasts, Telling, SavingMember
<1>5. /\ onboardCall' \in [OnboardCalls -> OnboardCall \cup {Uncalled, Served}]
      /\ \A j \in OnboardCalls : j # k => onboardCall'[j] = onboardCall[j]
      /\ CallsShaped' /\ OneEach'
      /\ onboardCall'[k] \in OnboardCall /\ Follows(c.todo[1], onboardCall'[k].todo[1])
      /\ onboardCall'[k].at = "running" /\ onboardCall'[k].number = Len(members) + 1
      /\ onboardCall'[k].kind = c.kind
  BY <1>1, <1>3, <1>4, Going
<1>6. onboardCall'[k].todo[1] = Inserting
  BY <1>1, <1>3, <1>5, FollowsWhat
<1>7. c.kind = "identity"
  BY <1>1, <1>2, <1>3, KindOfAwait DEF Unborn
<1>a. /\ Inserting # Profiling /\ Inserting # SavingMember /\ Inserting # SavingRecord
      /\ Inserting \notin Telling /\ Inserting \in Unborn /\ Counting \in Unborn
  BY DEF Inserting, Profiling, SavingMember, SavingRecord, Telling, Unborn
<1> USE DEF OnboardInv
<1>8. OnboardTypeOK'
  BY <1>1, <1>5 DEF OnboardTypeOK
<1>9. Numbered'
  <2>1. Len(members) + 1 > Enrolled
    BY <1>2, OnboardConstants DEF Numbered
  <2>2. NumbersAreConsecutive' /\ Enrolled <= Len(members')
    BY <1>1 DEF Numbered, NumbersAreConsecutive
  <2>3. ASSUME NEW j \in OnboardCalls, Waits(onboardCall[j], Inserting)'
        PROVE  onboardCall'[j].number > Enrolled /\ onboardCall'[j].number <= Len(members) + 1
    <3>1. CASE j = k
      BY <3>1, <2>1, <1>2, <1>5
    <3>2. CASE j # k
      BY <3>2, <2>3, <1>5 DEF Numbered, Waits
    <3> QED
      BY <3>1, <3>2
  <2> QED
    BY <1>1, <2>2, <2>3 DEF Numbered
<1>10. Profiled'
  <2>1. \A j \in OnboardCalls : Waits(onboardCall[j], Profiling)' <=> Waits(onboardCall[j], Profiling)
    BY <1>1, <1>5, <1>6, <1>a DEF Waits, Counting, Profiling
  <2>2. \A j \in OnboardCalls : Waits(onboardCall[j], Profiling) => j # k
    BY <1>1 DEF Waits, Counting, Profiling
  <2> QED
    BY <1>1, <1>5, <1>7, <2>1, <2>2 DEF Profiled
<1>11. CallsSound'
  BY <1>1, <1>5, <1>6, <1>7, <1>a DEF CallsSound, ReviewSound, SubmissionSound, Lone, Waits
<1>12. KycMatches'
  <2>1. \A j \in OnboardCalls : Waits(onboardCall[j], SavingMember) => j # k
    BY <1>1 DEF Waits, Counting, SavingMember
  <2> QED
    BY <1>1, <1>5, <2>1 DEF KycMatches, Waits
<1>13. RecordMatches'
  <2>1. \A m \in DOMAIN members : onboardCall[k].who # m
    BY <1>1, <1>2, <1>a DEF Shaped, OnboardTypeOK
  <2>2. ASSUME NEW m \in DOMAIN members, NEW j \in OnboardCalls, onboardCall[j].who = m
        PROVE  onboardCall'[j] = onboardCall[j]
    <3>1. j # k
      BY <2>1, <2>2
    <3>2. \A i \in OnboardCalls : i # k => onboardCall'[i] = onboardCall[i]
      BY <1>5
    <3> QED
      BY <3>1, <3>2
  <2>3. ASSUME NEW m \in DOMAIN members
        PROVE  \/ Len(records[m]) # 1 \/ <<m, "identity">> \in raced
               \/ \E j \in OnboardCalls : /\ Alive(onboardCall'[j]) /\ onboardCall'[j].kind = "identity"
                                          /\ onboardCall'[j].who = m
               \/ profiles[m].identity \in {records[m][1]} \cup (IdentityStatus \ VerificationStatus)
    <3>1. ASSUME NEW j \in OnboardCalls, Alive(onboardCall[j]), onboardCall[j].kind = "identity",
                 onboardCall[j].who = m
          PROVE  Alive(onboardCall'[j]) /\ onboardCall'[j].kind = "identity" /\ onboardCall'[j].who = m
      BY <2>2, <3>1
    <3> QED
      BY <3>1 DEF RecordMatches
  <2> QED
    BY <1>1, <2>3 DEF RecordMatches
<1> QED
  BY <1>5, <1>8, <1>9, <1>10, <1>11, <1>12, <1>13

\* The reviews that are at their last await still are, and nobody's verification or
\* membership changes but by a submission.
LEMMA KycKept ==
    ASSUME OnboardInv, DOMAIN members' = DOMAIN members, raced' = raced,
           \A j \in OnboardCalls : Waits(onboardCall[j], SavingMember) => onboardCall'[j] = onboardCall[j],
           \A m \in DOMAIN members :
              \/ profiles[m] = NoProfile /\ profiles'[m] = NoProfile
              \/ /\ profiles[m] # NoProfile
                 /\ members'[m].kyc = members[m].kyc /\ profiles'[m].review = profiles[m].review
                 /\ profiles'[m].membership \in {profiles[m].membership, "pending_verification"}
    PROVE  KycMatches'
<1> SUFFICES ASSUME NEW m \in DOMAIN members, profiles'[m] # NoProfile, <<m, "review">> \notin raced,
                    \A j \in OnboardCalls : ~(Waits(onboardCall[j], SavingMember)' /\ onboardCall'[j].who = m)
             PROVE  /\ members'[m].kyc = "verified" <=> profiles'[m].review = "approved"
                    /\ profiles'[m].membership = "active" => profiles'[m].review = "approved"
  BY DEF KycMatches
<1>1. \A j \in OnboardCalls : ~(Waits(onboardCall[j], SavingMember) /\ onboardCall[j].who = m)
  BY DEF Waits
<1>2. members'[m].kyc = members[m].kyc /\ profiles'[m].review = profiles[m].review
  OBVIOUS
<1>3. profiles'[m].membership = "active" => profiles[m].membership = "active"
  OBVIOUS
<1>4. profiles[m] # NoProfile =>
         /\ members[m].kyc = "verified" <=> profiles[m].review = "approved"
         /\ profiles[m].membership = "active" => profiles[m].review = "approved"
  BY <1>1 DEF OnboardInv, KycMatches
<1>5. profiles[m] # NoProfile
  OBVIOUS
<1> QED
  BY <1>2, <1>3, <1>4, <1>5

\* No submission ends, and no record changes, nor an identity but to the staff's word.
LEMMA RecordKept ==
    ASSUME OnboardInv, DOMAIN members' = DOMAIN members, raced' = raced, records' = records,
           \A j \in OnboardCalls : onboardCall[j].kind = "identity" => onboardCall'[j] = onboardCall[j],
           \A m \in DOMAIN members :
              profiles'[m].identity \in {profiles[m].identity} \cup (IdentityStatus \ VerificationStatus)
    PROVE  RecordMatches'
<1> SUFFICES ASSUME NEW m \in DOMAIN members, Len(records[m]) = 1, <<m, "identity">> \notin raced,
                    \A j \in OnboardCalls : ~(/\ Alive(onboardCall[j])' /\ onboardCall'[j].kind = "identity"
                                              /\ onboardCall'[j].who = m)
             PROVE  profiles'[m].identity \in {records[m][1]} \cup (IdentityStatus \ VerificationStatus)
  BY DEF RecordMatches
<1>1. \A j \in OnboardCalls : ~(/\ Alive(onboardCall[j]) /\ onboardCall[j].kind = "identity"
                                /\ onboardCall[j].who = m)
  OBVIOUS
<1>2. profiles[m].identity \in {records[m][1]} \cup (IdentityStatus \ VerificationStatus)
  BY <1>1 DEF OnboardInv, RecordMatches
<1> QED
  BY <1>2

\* What all awaits of a call with a member have in common: it goes, and the other
\* calls stay what they are.
LEMMA GoingWithMember ==
    ASSUME OnboardInv, NEW k \in OnboardCalls, Running(k), onboardCall[k].todo[1] \notin Unborn,
           NEW c \in OnboardCall, c.at = "running", c.kind = onboardCall[k].kind,
           c.todo = onboardCall[k].todo, c.who = onboardCall[k].who,
           Goes(k, c), raced' = raced, Len(members') = Len(members)
    PROVE  /\ onboardCall' \in [OnboardCalls -> OnboardCall \cup {Uncalled, Served}]
           /\ \A j \in OnboardCalls : j # k => onboardCall'[j] = onboardCall[j]
           /\ CallsShaped' /\ OneEach'
           /\ \/ onboardCall'[k] = Served /\ c.todo[1] \in Lasts
              \/ /\ onboardCall'[k] \in OnboardCall /\ Follows(c.todo[1], onboardCall'[k].todo[1])
                 /\ Shaped(onboardCall'[k], Len(members))
                 /\ onboardCall'[k].at = "running" /\ onboardCall'[k].kind = c.kind
                 /\ onboardCall'[k].number = c.number /\ onboardCall'[k].dto = c.dto
                 /\ onboardCall'[k].who = c.who /\ onboardCall'[k].record = c.record
                 /\ onboardCall'[k].seenRecord = c.seenRecord /\ onboardCall'[k].seen = c.seen
                 /\ onboardCall'[k].seenKyc = c.seenKyc /\ onboardCall'[k].to = c.to
           /\ \A j \in OnboardCalls : Waits(onboardCall[j], Inserting)' <=> Waits(onboardCall[j], Inserting)
           /\ \A j \in OnboardCalls : Waits(onboardCall[j], Profiling)' =>
                 Waits(onboardCall[j], Profiling) /\ j # k
           /\ \A j \in OnboardCalls : Waits(onboardCall[j], Inserting) => j # k
           /\ \A j \in OnboardCalls : Alive(onboardCall'[j]) =>
                 /\ Alive(onboardCall[j]) /\ onboardCall'[j].kind = onboardCall[j].kind
                 /\ onboardCall'[j].who = onboardCall[j].who
<1>1. c.todo[1] # Inserting /\ c.todo[1] # Counting
  BY DEF Unborn
<1>2. /\ onboardCall' \in [OnboardCalls -> OnboardCall \cup {Uncalled, Served}]
      /\ \A j \in OnboardCalls : j # k => onboardCall'[j] = onboardCall[j]
      /\ CallsShaped' /\ OneEach'
      /\ \/ onboardCall'[k] = Served /\ c.todo[1] \in Lasts
         \/ /\ onboardCall'[k] \in OnboardCall /\ Follows(c.todo[1], onboardCall'[k].todo[1])
            /\ Shaped(onboardCall'[k], Len(members))
            /\ onboardCall'[k].at = "running" /\ onboardCall'[k].kind = c.kind
            /\ onboardCall'[k].number = c.number /\ onboardCall'[k].dto = c.dto
            /\ onboardCall'[k].who = c.who /\ onboardCall'[k].record = c.record
            /\ onboardCall'[k].seenRecord = c.seenRecord /\ onboardCall'[k].seen = c.seen
            /\ onboardCall'[k].seenKyc = c.seenKyc /\ onboardCall'[k].to = c.to
  BY <1>1, Going
<1>3. onboardCall'[k] = Served \/ onboardCall'[k].todo[1] \notin {Inserting, Profiling}
  BY <1>1, <1>2, FollowsWhat
<1>4. ~Waits(onboardCall[k], Inserting) /\ ~Waits(onboardCall'[k], Inserting) /\ ~Waits(onboardCall'[k], Profiling)
  BY <1>1, <1>3 DEF Waits, Alive, Served
<1>5. Alive(onboardCall[k]) /\ ~Alive(Served)
  BY DEF Running, Alive, Served
<1>6. \A j \in OnboardCalls : Waits(onboardCall[j], Inserting)' <=> Waits(onboardCall[j], Inserting)
  BY <1>2, <1>4 DEF Waits
<1>7. \A j \in OnboardCalls : Waits(onboardCall[j], Profiling)' => Waits(onboardCall[j], Profiling) /\ j # k
  BY <1>2, <1>4 DEF Waits
<1>8. \A j \in OnboardCalls : Waits(onboardCall[j], Inserting) => j # k
  BY <1>4
<1>9. \A j \in OnboardCalls : Alive(onboardCall'[j]) =>
         /\ Alive(onboardCall[j]) /\ onboardCall'[j].kind = onboardCall[j].kind
         /\ onboardCall'[j].who = onboardCall[j].who
  BY <1>2, <1>5
<1> QED
  BY <1>2, <1>6, <1>7, <1>8, <1>9

\* A review reads the member.
LEMMA OnboardReadMember ==
    ASSUME OnboardInv, NEW k \in OnboardCalls, ReadMember(k) PROVE OnboardInv'
<1> DEFINE c == [onboardCall[k] EXCEPT !.seenKyc = members[onboardCall[k].who].kyc]
<1>1. Running(k) /\ onboardCall[k].todo[1] = Reading /\ Goes(k, c)
      /\ UNCHANGED <<members, profiles, records, raced>>
  BY RunningAt DEF ReadMember, Reading
<1>a. /\ Reading \notin Unborn /\ Reading \notin Lasts /\ Reading # SavingMember
      /\ Reading # Profiling
  BY DEF Reading, Unborn, Counting, Inserting, Lasts, Telling, SavingMember, Profiling
<1>2. /\ onboardCall[k] \in OnboardCall /\ onboardCall[k].at = "running"
      /\ onboardCall[k].who \in DOMAIN members /\ Shaped(onboardCall[k], Len(members))
      /\ onboardCall[k].kind = "review"
  <2>1. /\ onboardCall[k] \in OnboardCall /\ onboardCall[k].at = "running"
        /\ onboardCall[k].who \in DOMAIN members /\ Shaped(onboardCall[k], Len(members))
    BY <1>1, <1>a, RunningAt
  <2> QED
    BY <1>1, <2>1, KindOfAwait
<1>3. members[onboardCall[k].who].kyc \in {"pending", "verified"}
  <2>1. members \in Seq(Member)
    BY DEF OnboardInv, OnboardTypeOK
  <2>2. members[onboardCall[k].who] \in Member
    BY <1>2, <2>1
  <2> QED
    BY <2>2 DEF Member
<1>4. /\ c \in OnboardCall /\ c.at = "running" /\ c.kind = onboardCall[k].kind
      /\ c.todo = onboardCall[k].todo /\ c.who = onboardCall[k].who
      /\ c.seenKyc = members[c.who].kyc /\ c.seen = onboardCall[k].seen
  BY <1>2, <1>3 DEF OnboardCall
<1> HIDE DEF c
<1>5. /\ onboardCall' \in [OnboardCalls -> OnboardCall \cup {Uncalled, Served}]
      /\ \A j \in OnboardCalls : j # k => onboardCall'[j] = onboardCall[j]
      /\ CallsShaped' /\ OneEach'
      /\ Follows(Reading, onboardCall'[k].todo[1])
      /\ onboardCall'[k].at = "running" /\ onboardCall'[k].kind = "review"
      /\ onboardCall'[k].who = onboardCall[k].who
      /\ onboardCall'[k].seenKyc = members[onboardCall[k].who].kyc
      /\ onboardCall'[k].seen = onboardCall[k].seen
      /\ \A j \in OnboardCalls : Waits(onboardCall[j], Inserting)' <=> Waits(onboardCall[j], Inserting)
      /\ \A j \in OnboardCalls : Waits(onboardCall[j], Profiling)' => Waits(onboardCall[j], Profiling) /\ j # k
      /\ \A j \in OnboardCalls : Waits(onboardCall[j], Inserting) => j # k
      /\ \A j \in OnboardCalls : Alive(onboardCall'[j]) =>
            /\ Alive(onboardCall[j]) /\ onboardCall'[j].kind = onboardCall[j].kind
            /\ onboardCall'[j].who = onboardCall[j].who
  <2>1. c.todo[1] = Reading /\ c.todo[1] \notin Lasts /\ onboardCall[k].todo[1] \notin Unborn
    BY <1>1, <1>4, <1>a
  <2> QED
    BY <1>1, <1>2, <1>4, <2>1, GoingWithMember
<1>6. onboardCall'[k].todo[1] = SavingProfile
  BY <1>5, FollowsWhat
<1> USE DEF OnboardInv
<1>7. OnboardTypeOK'
  BY <1>1, <1>5 DEF OnboardTypeOK
<1>8. Numbered'
  BY <1>1, <1>5 DEF Numbered, NumbersAreConsecutive
<1>9. Profiled'
  <2>1. \A j \in OnboardCalls : Waits(onboardCall[j], Profiling) => Waits(onboardCall[j], Profiling)'
    BY <1>1, <1>5, <1>a DEF Waits
  <2> QED
    BY <1>1, <1>5, <2>1 DEF Profiled, Waits
<1>10. CallsSound'
  <2>1. ReviewSound(onboardCall[k])'
    <3>1. ReviewSound(onboardCall[k])
      BY DEF CallsSound
    <3> QED
      BY <3>1, <1>1, <1>2, <1>5, <1>6, ReviewAwaits DEF ReviewSound, Lone
  <2>2. SubmissionSound(onboardCall[k])'
    BY <1>5, <1>6 DEF SubmissionSound, Waits, Lone, SavingProfile, SavingRecord
  <2>3. ASSUME NEW j \in OnboardCalls, j # k
        PROVE  ReviewSound(onboardCall[j])' /\ SubmissionSound(onboardCall[j])'
    <3>1. onboardCall'[j] = onboardCall[j] /\ ReviewSound(onboardCall[j]) /\ SubmissionSound(onboardCall[j])
      BY <1>5, <2>3 DEF CallsSound
    <3> QED
      BY <3>1, <1>1 DEF ReviewSound, SubmissionSound, Lone
  <2> QED
    BY <2>1, <2>2, <2>3 DEF CallsSound
<1>11. KycMatches'
  <2>1. \A j \in OnboardCalls : Waits(onboardCall[j], SavingMember) => j # k
    BY <1>1, <1>a DEF Waits
  <2> QED
    BY <1>1, <1>5, <2>1, KycKept
<1>12. RecordMatches'
  <2>1. \A j \in OnboardCalls : onboardCall[j].kind = "identity" => j # k
    BY <1>2
  <2> QED
    BY <1>1, <1>5, <2>1, RecordKept
<1> QED
  BY <1>5, <1>7, <1>8, <1>9, <1>10, <1>11, <1>12

\* Nobody gets a profile and nobody becomes a member.
LEMMA ProfiledKept ==
    ASSUME OnboardInv, NEW k \in OnboardCalls, DOMAIN members' = DOMAIN members,
           \A m \in DOMAIN members :
              /\ profiles[m] = NoProfile => members'[m].kyc = members[m].kyc
              /\ profiles'[m] = NoProfile <=> profiles[m] = NoProfile,
           \A j \in OnboardCalls : j # k => onboardCall'[j] = onboardCall[j],
           \A j \in OnboardCalls : Waits(onboardCall[j], Profiling)' => Waits(onboardCall[j], Profiling) /\ j # k,
           ~Waits(onboardCall[k], Profiling),
           CallsShaped', CallsShaped, Len(members') = Len(members), DOMAIN members = 1..Len(members),
           \A j \in OnboardCalls : Alive(onboardCall'[j]) =>
                 /\ Alive(onboardCall[j]) /\ onboardCall'[j].kind = onboardCall[j].kind
                 /\ onboardCall'[j].who = onboardCall[j].who
    PROVE  Profiled'
<1> USE DEF OnboardInv
<1>1. ASSUME NEW m \in DOMAIN members, profiles'[m] = NoProfile
      PROVE  /\ members'[m].kyc = "pending"
             /\ \E j \in OnboardCalls : Waits(onboardCall[j], Profiling)' /\ onboardCall'[j].who = m
  <2>1. PICK j \in OnboardCalls : Waits(onboardCall[j], Profiling) /\ onboardCall[j].who = m
    BY <1>1 DEF Profiled
  <2>2. onboardCall'[j] = onboardCall[j]
    BY <2>1
  <2> QED
    BY <1>1, <2>1, <2>2 DEF Profiled, Waits
<1>2. ASSUME NEW j \in OnboardCalls, Waits(onboardCall[j], Profiling)'
      PROVE  profiles'[onboardCall'[j].who] = NoProfile
  <2>1. Waits(onboardCall[j], Profiling) /\ onboardCall'[j] = onboardCall[j]
    BY <1>2
  <2>2. onboardCall[j].who \in DOMAIN members
    BY <2>1, AwaitTypes DEF CallsShaped, Shaped, Waits
  <2> QED
    BY <2>1, <2>2 DEF Profiled
<1>3. ASSUME NEW j \in OnboardCalls, Alive(onboardCall'[j]), onboardCall'[j].kind = "review"
      PROVE  profiles'[onboardCall'[j].who] # NoProfile
  <2>1. /\ Alive(onboardCall[j]) /\ onboardCall[j].kind = "review"
        /\ onboardCall'[j].who = onboardCall[j].who
    BY <1>3
  <2>2. Shaped(onboardCall[j], Len(members))
    BY <2>1 DEF CallsShaped
  <2>3. onboardCall[j].todo[1] \notin Unborn
    BY <2>1, <2>2, KindOfAwait
  <2>4. onboardCall[j].who \in DOMAIN members
    BY <2>2, <2>3 DEF Shaped
  <2> QED
    BY <2>1, <2>4 DEF Profiled
<1>4. ASSUME NEW i \in OnboardCalls, NEW j \in OnboardCalls, Waits(onboardCall[i], Profiling)',
             Waits(onboardCall[j], Profiling)', onboardCall'[i].who = onboardCall'[j].who
      PROVE  i = j
  <2>1. /\ Waits(onboardCall[i], Profiling) /\ Waits(onboardCall[j], Profiling)
        /\ onboardCall'[i] = onboardCall[i] /\ onboardCall'[j] = onboardCall[j]
    BY <1>4
  <2> QED
    BY <1>4, <2>1 DEF Profiled
<1> QED
  BY <1>1, <1>2, <1>3, <1>4 DEF Profiled

\* A record of the member is written, to be told by the next await.
LEMMA RecordWritten ==
    ASSUME OnboardInv, NEW k \in OnboardCalls, Running(k),
           onboardCall[k].todo[1] \in Writing \cup {SavingRecord},
           Goes(k, onboardCall[k]), UNCHANGED <<members, profiles, raced>>,
           NEW r \in Seq(VerificationStatus), NEW what,
           Len(r) >= Len(records[onboardCall[k].who]),
           records' = [records EXCEPT ![onboardCall[k].who] = r],
           onboardCall[k].todo[1] \in Writing => onboardCall[k].todo[1][2] = what,
           onboardCall[k].todo[1] = SavingRecord => what = "verify",
           Lone(onboardCall[k]) /\ Len(r) = 1 => r[1] = Answer[what]
    PROVE  OnboardInv'
<1> DEFINE c == onboardCall[k]
           m == c.who
<1>1. /\ c \in OnboardCall /\ c.at = "running" /\ Shaped(c, Len(members)) /\ Alive(c)
      /\ c.todo[1] \notin Unborn /\ m \in DOMAIN members /\ c.todo[1] \notin Lasts
  <2>1. c.todo[1] \notin Unborn /\ c.todo[1] \notin Lasts
    BY DEF Writing, SavingRecord, Unborn, Counting, Inserting, Lasts, Telling, SavingMember
  <2> QED
    BY <2>1, RunningAt
<1>2. /\ c.kind = "identity" /\ ~Waits(c, Profiling) /\ ~Waits(c, SavingMember)
  <2>1. c.todo[1] # Profiling /\ c.todo[1] # SavingMember /\ c.todo[1] \in Submitting
    BY DEF Writing, SavingRecord, Profiling, SavingMember, Submitting
  <2> QED
    BY <1>1, <2>1, KindOfAwait DEF Waits
<1>3. /\ onboardCall' \in [OnboardCalls -> OnboardCall \cup {Uncalled, Served}]
      /\ \A j \in OnboardCalls : j # k => onboardCall'[j] = onboardCall[j]
      /\ CallsShaped' /\ OneEach'
      /\ onboardCall'[k] \in OnboardCall /\ Follows(c.todo[1], onboardCall'[k].todo[1])
      /\ onboardCall'[k].at = "running" /\ onboardCall'[k].kind = "identity"
      /\ onboardCall'[k].who = m
      /\ \A j \in OnboardCalls : Waits(onboardCall[j], Inserting)' <=> Waits(onboardCall[j], Inserting)
      /\ \A j \in OnboardCalls : Waits(onboardCall[j], Profiling)' => Waits(onboardCall[j], Profiling) /\ j # k
      /\ \A j \in OnboardCalls : Waits(onboardCall[j], Inserting) => j # k
      /\ \A j \in OnboardCalls : Alive(onboardCall'[j]) =>
            /\ Alive(onboardCall[j]) /\ onboardCall'[j].kind = onboardCall[j].kind
            /\ onboardCall'[j].who = onboardCall[j].who
  BY <1>1, <1>2, GoingWithMember
<1>4. /\ onboardCall'[k].todo[1] = <<"status", what>> /\ onboardCall'[k].todo[1][2] = what
      /\ onboardCall'[k].todo[1] # SavingRecord
  <2>1. onboardCall'[k].todo[1] = <<"status", what>>
    BY <1>3, FollowsWhat
  <2> QED
    BY <2>1 DEF SavingRecord
<1> USE DEF OnboardInv
<1>5. /\ records' \in [DOMAIN members -> Seq(VerificationStatus)] /\ records'[m] = r
      /\ \A i \in DOMAIN members : i # m => records'[i] = records[i]
      /\ DOMAIN members = 1..Len(members)
  <2>1. records \in [DOMAIN members -> Seq(VerificationStatus)]
    BY DEF OnboardTypeOK
  <2>2. members \in Seq(Member)
    BY DEF OnboardTypeOK
  <2>3. DOMAIN members = 1..Len(members)
    BY <2>2
  <2> HIDE DEF OnboardInv
  <2> QED
    BY <1>1, <2>1, <2>3
<1>6. OnboardTypeOK'
  BY <1>3, <1>5 DEF OnboardTypeOK
<1>7. Numbered'
  BY <1>3 DEF Numbered, NumbersAreConsecutive
<1>8. Profiled'
  BY <1>2, <1>3, <1>5, ProfiledKept
<1>9. CallsSound'
  <2>1. ReviewSound(onboardCall[k])'
    BY <1>3 DEF ReviewSound
  <2>2. SubmissionSound(onboardCall[k])'
    <3>1. ~Waits(onboardCall'[k], SavingRecord)
      BY <1>4 DEF Waits
    <3>2. Lone(onboardCall[k])' => Lone(c)
      BY <1>1, <1>2, <1>3 DEF Lone
    <3>3. Lone(onboardCall[k])' /\ Len(records'[m]) = 1 => records'[m][1] = Answer[what]
      BY <1>5, <3>2
    <3> QED
      BY <1>3, <1>4, <3>1, <3>3 DEF SubmissionSound
  <2>3. ASSUME NEW j \in OnboardCalls, j # k
        PROVE  ReviewSound(onboardCall[j])' /\ SubmissionSound(onboardCall[j])'
    <3>1. onboardCall'[j] = onboardCall[j] /\ ReviewSound(onboardCall[j]) /\ SubmissionSound(onboardCall[j])
      BY <1>3, <2>3 DEF CallsSound
    <3>2. ReviewSound(onboardCall[j])'
      BY <3>1 DEF ReviewSound, Lone
    <3>3. Waits(onboardCall[j], SavingRecord) => onboardCall[j].record \in 1..Len(records'[onboardCall[j].who])
      <4> SUFFICES ASSUME Waits(onboardCall[j], SavingRecord)
                   PROVE  onboardCall[j].record \in 1..Len(records'[onboardCall[j].who])
        OBVIOUS
      <4>1. onboardCall[j].record \in 1..Len(records[onboardCall[j].who])
        BY <3>1 DEF SubmissionSound
      <4>2. onboardCall[j].who \in DOMAIN members
        <5>1. Shaped(onboardCall[j], Len(members)) /\ onboardCall[j].todo[1] \notin Unborn
          BY DEF CallsShaped, Waits, SavingRecord, Unborn, Counting, Inserting
        <5> QED
          BY <1>5, <5>1 DEF Shaped
      <4>3. CASE onboardCall[j].who = m
        <5>1. records[m] \in Seq(VerificationStatus)
          BY <1>1 DEF OnboardTypeOK
        <5>2. PICK a \in Nat, b \in Nat : a = Len(records[m]) /\ b = Len(r) /\ a <= b
          BY <5>1
        <5> QED
          BY <4>1, <4>3, <5>2, <1>5
      <4>4. CASE onboardCall[j].who # m
        BY <4>1, <4>2, <4>4, <1>5
      <4> QED
        BY <4>3, <4>4
    <3>4. ASSUME Lone(onboardCall[j]), onboardCall[j].kind = "identity",
                 onboardCall[j].todo[1] \in {SavingRecord} \cup Telling
          PROVE  records'[onboardCall[j].who] = records[onboardCall[j].who]
      <4>1. onboardCall[j].who # m
        BY <1>1, <1>2, <2>3, <3>4, AloneOn
      <4>2. onboardCall[j].todo[1] \notin Unborn
        BY <3>4 DEF SavingRecord, Unborn, Counting, Inserting, Telling
      <4>3. onboardCall[j].who \in DOMAIN members
        BY <1>5, <3>4, <4>2 DEF CallsShaped, Shaped, Alive, Lone
      <4> QED
        BY <1>5, <4>1, <4>3
    <3>5. SubmissionSound(onboardCall[j])'
      <4>1. PICK d : d = onboardCall[j]
        OBVIOUS
      <4>2. d = onboardCall'[j] /\ SubmissionSound(d)
        BY <3>1, <4>1
      <4>3. Waits(d, SavingRecord) => d.record \in 1..Len(records'[d.who])
        BY <3>3, <4>1
      <4>4. Lone(d) /\ d.kind = "identity" /\ d.todo[1] \in {SavingRecord} \cup Telling
               => records'[d.who] = records[d.who]
        BY <3>4, <4>1
      <4>5. ASSUME d.kind = "identity", d.at = "running", <<d.who, d.kind>> \notin raced
            PROVE  /\ d.todo[1] = SavingRecord => records'[d.who][d.record] = d.seenRecord
                   /\ d.todo[1] \in Telling /\ Len(records'[d.who]) = 1 =>
                         records'[d.who][1] = Answer[d.todo[1][2]]
        BY <4>2, <4>4, <4>5 DEF SubmissionSound, Lone
      <4> QED
        BY <4>2, <4>3, <4>5 DEF SubmissionSound, Lone, Waits
    <3> QED
      BY <3>2, <3>5
  <2> QED
    BY <2>1, <2>2, <2>3 DEF CallsSound
<1>10. KycMatches'
  <2>1. \A j \in OnboardCalls : Waits(onboardCall[j], SavingMember) => j # k
    BY <1>2
  <2> QED
    BY <1>3, <2>1, KycKept
<1>11. RecordMatches'
  <2> SUFFICES ASSUME NEW i \in DOMAIN members
               PROVE  \/ Len(records'[i]) # 1 \/ <<i, "identity">> \in raced
                      \/ \E j \in OnboardCalls : /\ Alive(onboardCall'[j]) /\ onboardCall'[j].kind = "identity"
                                                 /\ onboardCall'[j].who = i
                      \/ profiles[i].identity \in {records'[i][1]} \cup (IdentityStatus \ VerificationStatus)
    BY DEF RecordMatches
  <2>1. CASE i = m
    BY <2>1, <1>3 DEF Alive
  <2>2. CASE i # m
    <3>1. \A j \in OnboardCalls : onboardCall[j].who = i => onboardCall'[j] = onboardCall[j]
      BY <1>3, <2>2
    <3>2. records'[i] = records[i]
      BY <1>5, <2>2
    <3> QED
      BY <3>1, <3>2 DEF RecordMatches
  <2> QED
    BY <2>1, <2>2
<1> QED
  BY <1>3, <1>6, <1>7, <1>8, <1>9, <1>10, <1>11

LEMMA OnboardWriteRecord ==
    ASSUME OnboardInv, NEW k \in OnboardCalls, NEW what \in DOMAIN Answer, WriteRecord(k, what)
    PROVE  OnboardInv'
<1> DEFINE m == onboardCall[k].who
<1>1. /\ Running(k) /\ onboardCall[k].todo[1] \in {<<"create", what>>, <<"update", what>>}
      /\ Goes(k, onboardCall[k]) /\ UNCHANGED <<members, profiles, raced>>
  BY RunningAt DEF WriteRecord
<1>2. what \in Asked /\ Answer[what] \in VerificationStatus
  BY AnswerType
<1>3. /\ onboardCall[k].todo[1] \in Writing /\ onboardCall[k].todo[1][2] = what
      /\ onboardCall[k].todo[1] # SavingRecord
  BY <1>1, <1>2 DEF Writing, SavingRecord
<1>4. onboardCall[k].todo[1] \notin Unborn
  BY <1>3 DEF Writing, Unborn, Counting, Inserting
<1>5. m \in DOMAIN members
  BY <1>1, <1>4, RunningAt
<1>6. records[m] \in Seq(VerificationStatus)
  BY <1>5 DEF OnboardInv, OnboardTypeOK
<1>7. PICK r : /\ r \in Seq(VerificationStatus) /\ Len(r) >= Len(records[m])
               /\ records' = [records EXCEPT ![m] = r]
               /\ Len(r) = 1 => r[1] = Answer[what]
  <2>1. CASE records' = [records EXCEPT ![m] = Append(@, Answer[what])]
    <3>1. PICK s \in Seq(VerificationStatus) : s = records[m]
      BY <1>6
    <3>2. /\ Append(s, Answer[what]) \in Seq(VerificationStatus)
          /\ Len(Append(s, Answer[what])) = Len(s) + 1
          /\ Append(s, Answer[what])[Len(s) + 1] = Answer[what] /\ Len(s) \in Nat
      BY <1>2, AppendProperties
    <3>3. Len(s) + 1 = 1 => Append(s, Answer[what])[1] = Answer[what]
      BY <3>2
    <3>4. PICK r : r = Append(s, Answer[what])
      OBVIOUS
    <3>5. Len(r) >= Len(s) /\ (Len(r) = 1 => r[1] = Answer[what]) /\ r \in Seq(VerificationStatus)
      BY <3>2, <3>3, <3>4
    <3>6. records' = [records EXCEPT ![m] = r]
      BY <2>1, <3>1, <3>4
    <3> QED
      BY <3>1, <3>5, <3>6
  <2>2. ASSUME NEW i \in DOMAIN records[m], records' = [records EXCEPT ![m][i] = Answer[what]]
        PROVE  \E r \in Seq(VerificationStatus) :
                  /\ Len(r) >= Len(records[m])
                  /\ records' = [records EXCEPT ![m] = r]
                  /\ Len(r) = 1 => r[1] = Answer[what]
    <3>1. PICK s \in Seq(VerificationStatus) : s = records[m]
      BY <1>6
    <3>2. i \in 1..Len(s) /\ Len(s) \in Nat
      BY <3>1
    <3>a. PICK r : r = [s EXCEPT ![i] = Answer[what]]
      OBVIOUS
    <3>3. /\ r \in Seq(VerificationStatus) /\ Len(r) = Len(s) /\ r[i] = Answer[what]
      BY <3>2, <3>a, <1>2, ExceptSeq
    <3>4. Len(s) = 1 => i = 1
      BY <3>2
    <3>5. Len(r) >= Len(records[m]) /\ (Len(r) = 1 => r[1] = Answer[what])
      BY <3>1, <3>2, <3>3, <3>4
    <3>6. records' = [records EXCEPT ![m] = r]
      BY <2>2, <3>1, <3>a
    <3> QED
      BY <3>3, <3>5, <3>6
  <2> QED
    BY <2>1, <2>2 DEF WriteRecord
<1> QED
  BY <1>1, <1>3, <1>7, RecordWritten

LEMMA OnboardSaveRecord ==
    ASSUME OnboardInv, NEW k \in OnboardCalls, SaveRecord(k) PROVE OnboardInv'
<1> DEFINE c == onboardCall[k]
<1>1. /\ Running(k) /\ c.todo[1] = SavingRecord /\ Goes(k, c) /\ UNCHANGED <<members, profiles, raced>>
      /\ records' = [records EXCEPT ![c.who][c.record] =
            IF c.seenRecord = Answer["verify"] THEN @ ELSE Answer["verify"]]
  BY RunningAt DEF SaveRecord, SavingRecord
<1>2. Answer["verify"] \in VerificationStatus
  BY AnswerType DEF Asked
<1>3. SavingRecord \notin Writing /\ SavingRecord \notin Unborn
  BY DEF SavingRecord, Writing, Unborn, Counting, Inserting
<1>4. c.who \in DOMAIN members /\ c.at = "running" /\ Alive(c) /\ c.kind = "identity"
  <2>1. /\ c.who \in DOMAIN members /\ c.at = "running" /\ Alive(c) /\ Shaped(c, Len(members))
    BY <1>1, <1>3, RunningAt
  <2> QED
    BY <1>1, <2>1, KindOfAwait DEF Submitting
<1>5. SubmissionSound(c)
  BY DEF OnboardInv, CallsSound
<1>6. PICK s \in Seq(VerificationStatus) : s = records[c.who]
  BY <1>4 DEF OnboardInv, OnboardTypeOK
<1>7. /\ c.record \in 1..Len(s)
      /\ Lone(c) => s[c.record] = c.seenRecord
  BY <1>1, <1>4, <1>5, <1>6 DEF SubmissionSound, Waits
<1>8. PICK v : v = IF c.seenRecord = Answer["verify"] THEN s[c.record] ELSE Answer["verify"]
  OBVIOUS
<1>9. v \in VerificationStatus /\ (Lone(c) => v = Answer["verify"])
  BY <1>2, <1>7, <1>8
<1>10. PICK n \in Nat : n = c.record /\ n \in 1..Len(s)
  BY <1>7
<1>11. PICK r : r = [s EXCEPT ![n] = v]
  OBVIOUS
<1>12. r \in Seq(VerificationStatus) /\ Len(r) = Len(s) /\ r[n] = v /\ Len(s) \in Nat
  BY <1>9, <1>10, <1>11, ExceptSeq
<1>13. Lone(c) /\ Len(r) = 1 => r[1] = Answer["verify"]
  <2>1. Len(s) = 1 => n = 1
    BY <1>10, <1>12
  <2> QED
    BY <1>9, <1>12, <2>1
<1>14. records' = [records EXCEPT ![c.who] = r]
  BY <1>1, <1>6, <1>8, <1>10, <1>11
<1>15. Len(r) >= Len(records[c.who])
  BY <1>6, <1>12
<1> QED
  BY <1>1, <1>3, <1>12, <1>13, <1>14, <1>15, RecordWritten

\* What a review makes of the profile.
LEMMA ReviewedProfileType ==
    ASSUME NEW to \in ReviewStatus
    PROVE  /\ ReviewedProfile(to) \in Profile /\ ReviewedProfile(to).review = to
           /\ ReviewedProfile(to).membership = "active" => to = "approved"
           /\ ReviewedProfile(to).identity \in IdentityStatus \ VerificationStatus
<1>1. CASE to = "approved"
  BY <1>1 DEF ReviewedProfile, Reviewed, Profile, Membership, IdentityStatus, VerificationStatus, ReviewStatus
<1>2. CASE to = "needs_action"
  BY <1>2 DEF ReviewedProfile, Profile, Membership, IdentityStatus, VerificationStatus, ReviewStatus
<1>3. CASE to = "review_in_progress"
  BY <1>3 DEF ReviewedProfile, Profile, Membership, IdentityStatus, VerificationStatus, ReviewStatus
<1>4. CASE to = "submitted"
  BY <1>4 DEF ReviewedProfile, Profile, Membership, IdentityStatus, VerificationStatus, ReviewStatus
<1> QED
  BY <1>1, <1>2, <1>3, <1>4 DEF ReviewStatus

LEMMA NoProfileIsNone == NoProfile \notin Profile
  BY DEF NoProfile, Profile

LEMMA OnboardSaveMember ==
    ASSUME OnboardInv, NEW k \in OnboardCalls, SaveMember(k) PROVE OnboardInv'
<1> DEFINE c == onboardCall[k]
           m == c.who
<1>1. /\ Running(k) /\ c.todo[1] = SavingMember /\ Goes(k, c)
      /\ UNCHANGED <<profiles, records, raced>>
      /\ members' = [members EXCEPT ![m].kyc = IF KycOf(c) = c.seenKyc THEN @ ELSE KycOf(c)]
  BY RunningAt DEF SaveMember, SavingMember
<1>a. /\ SavingMember \notin Unborn /\ SavingMember # Profiling
  BY DEF SavingMember, Unborn, Counting, Inserting, Profiling
<1>2. /\ c \in OnboardCall /\ c.at = "running" /\ m \in DOMAIN members /\ c.kind = "review" /\ Alive(c)
  <2>1. c \in OnboardCall /\ c.at = "running" /\ m \in DOMAIN members /\ Shaped(c, Len(members)) /\ Alive(c)
    BY <1>1, <1>a, RunningAt
  <2> QED
    BY <1>1, <2>1, KindOfAwait
<1>3. PICK v : v = IF KycOf(c) = c.seenKyc THEN members[m].kyc ELSE KycOf(c)
  OBVIOUS
<1>4. members \in Seq(Member) /\ DOMAIN members = 1..Len(members)
  <2>1. members \in Seq(Member)
    BY DEF OnboardInv, OnboardTypeOK
  <2> QED
    BY <2>1
<1>5. v \in {"pending", "verified"}
  <2>1. members[m] \in Member
    BY <1>2, <1>4
  <2> QED
    BY <1>3, <2>1 DEF KycOf, Member
<1>6. /\ members' \in Seq(Member) /\ Len(members') = Len(members) /\ DOMAIN members' = DOMAIN members
      /\ members'[m].kyc = v /\ members'[m].number = members[m].number
      /\ \A i \in DOMAIN members : i # m => members'[i] = members[i]
  <2>1. members[m] \in Member
    BY <1>2, <1>4
  <2>2. PICK w : w = [members[m] EXCEPT !.kyc = v]
    OBVIOUS
  <2>3. w \in Member /\ w.kyc = v /\ w.number = members[m].number
    BY <2>1, <2>2, <1>5 DEF Member
  <2>4. members' = [members EXCEPT ![m] = w]
    BY <1>1, <1>3, <2>2
  <2>5. members' \in Seq(Member) /\ Len(members') = Len(members) /\ members'[m] = w
        /\ \A i \in DOMAIN members : i # m => members'[i] = members[i]
    BY <1>2, <1>4, <2>3, <2>4, ExceptSeq
  <2> QED
    BY <1>4, <2>3, <2>5
<1>7. /\ onboardCall' \in [OnboardCalls -> OnboardCall \cup {Uncalled, Served}]
      /\ \A j \in OnboardCalls : j # k => onboardCall'[j] = onboardCall[j]
      /\ CallsShaped' /\ OneEach'
      /\ onboardCall'[k] = Served
      /\ \A j \in OnboardCalls : Waits(onboardCall[j], Inserting)' <=> Waits(onboardCall[j], Inserting)
      /\ \A j \in OnboardCalls : Waits(onboardCall[j], Profiling)' => Waits(onboardCall[j], Profiling) /\ j # k
      /\ \A j \in OnboardCalls : Waits(onboardCall[j], Inserting) => j # k
      /\ \A j \in OnboardCalls : Alive(onboardCall'[j]) =>
            /\ Alive(onboardCall[j]) /\ onboardCall'[j].kind = onboardCall[j].kind
            /\ onboardCall'[j].who = onboardCall[j].who
  <2>1. \A b : ~Follows(c.todo[1], b)
    BY <1>1, FollowsWhat
  <2> QED
    BY <1>1, <1>2, <1>6, <1>a, <2>1, GoingWithMember
<1> USE DEF OnboardInv
<1>8. profiles[m] # NoProfile
  BY <1>2 DEF Profiled
<1>9. OnboardTypeOK'
  BY <1>1, <1>6, <1>7 DEF OnboardTypeOK
<1>10. Numbered'
  <2>1. NumbersAreConsecutive'
    BY <1>6 DEF Numbered, NumbersAreConsecutive
  <2>2. \A j \in OnboardCalls : Waits(onboardCall[j], Inserting)' => onboardCall'[j] = onboardCall[j] /\ Waits(onboardCall[j], Inserting)
    BY <1>7
  <2> QED
    BY <1>6, <2>1, <2>2 DEF Numbered
<1>11. Profiled'
  <2>1. ~Waits(c, Profiling)
    BY <1>1, <1>a DEF Waits
  <2> QED
    BY <1>1, <1>4, <1>6, <1>7, <1>8, <2>1, ProfiledKept
<1>12. CallsSound'
  <2>1. ReviewSound(onboardCall[k])' /\ SubmissionSound(onboardCall[k])'
    BY <1>7 DEF ReviewSound, SubmissionSound, Lone, Waits, Alive, Served
  <2>2. ASSUME NEW j \in OnboardCalls, j # k
        PROVE  ReviewSound(onboardCall[j])' /\ SubmissionSound(onboardCall[j])'
    <3>1. PICK d : d = onboardCall[j]
      OBVIOUS
    <3>2. d = onboardCall'[j] /\ ReviewSound(d) /\ SubmissionSound(d)
      BY <1>7, <2>2, <3>1 DEF CallsSound
    <3>3. SubmissionSound(onboardCall[j])'
      BY <1>1, <3>2 DEF SubmissionSound, Lone
    <3>4. ASSUME d.kind = "review", d.at = "running", <<d.who, d.kind>> \notin raced
          PROVE  members'[d.who] = members[d.who]
      <4>1. d.who # m
        BY <1>1, <1>2, <1>a, <2>2, <3>1, <3>4, AloneOn DEF Lone
      <4>2. d.who \in DOMAIN members
        <5>1. Shaped(d, Len(members))
          BY <3>1, <3>4 DEF CallsShaped, Alive
        <5>2. d.todo[1] \notin Unborn
          BY <5>1, <3>4, KindOfAwait
        <5> QED
          BY <1>4, <5>1, <5>2 DEF Shaped
      <4> QED
        BY <1>6, <4>1, <4>2
    <3>5. ReviewSound(onboardCall[j])'
      BY <1>1, <3>2, <3>4 DEF ReviewSound, Lone
    <3> QED
      BY <3>3, <3>5
  <2> QED
    BY <2>1, <2>2 DEF CallsSound
<1>13. KycMatches'
  <2> SUFFICES ASSUME NEW i \in DOMAIN members, profiles[i] # NoProfile, <<i, "review">> \notin raced,
                      \A j \in OnboardCalls : ~(Waits(onboardCall[j], SavingMember)' /\ onboardCall'[j].who = i)
               PROVE  /\ members'[i].kyc = "verified" <=> profiles[i].review = "approved"
                      /\ profiles[i].membership = "active" => profiles[i].review = "approved"
    BY <1>1, <1>6 DEF KycMatches
  <2>1. CASE i = m
    <3>1. ReviewSound(c) /\ Lone(c)
      BY <1>2, <2>1 DEF CallsSound, Lone
    <3>2. /\ members[m].kyc = c.seenKyc /\ profiles[m].review = c.to
          /\ profiles[m].membership = "active" => c.to = "approved"
      BY <1>1, <1>2, <3>1, ReviewAwaits DEF ReviewSound
    <3>3. v = KycOf(c)
      BY <1>3, <3>2
    <3> QED
      BY <1>6, <2>1, <3>2, <3>3 DEF KycOf
  <2>2. CASE i # m
    <3>1. \A j \in OnboardCalls : ~(Waits(onboardCall[j], SavingMember) /\ onboardCall[j].who = i)
      <4> SUFFICES ASSUME NEW j \in OnboardCalls, Waits(onboardCall[j], SavingMember), onboardCall[j].who = i
                   PROVE  FALSE
        OBVIOUS
      <4>1. onboardCall'[j] = onboardCall[j]
        BY <1>7, <2>2
      <4> QED
        BY <4>1 DEF Waits
    <3>2. members'[i] = members[i]
      BY <1>6, <2>2
    <3> QED
      BY <3>1, <3>2 DEF KycMatches
  <2> QED
    BY <2>1, <2>2
<1>14. RecordMatches'
  <2>1. \A j \in OnboardCalls : onboardCall[j].kind = "identity" => onboardCall'[j] = onboardCall[j]
    BY <1>2, <1>7
  <2> QED
    BY <1>1, <1>6, <2>1, RecordKept
<1> QED
  BY <1>7, <1>9, <1>10, <1>11, <1>12, <1>13, <1>14

\* A review saves the profile: what it saves over is the review it read, unless another
\* one of the member is under way.
LEMMA OnboardSaveProfile ==
    ASSUME OnboardInv, NEW k \in OnboardCalls, SaveProfile(k) PROVE OnboardInv'
<1> DEFINE c == onboardCall[k]
           m == c.who
<1>1. /\ Running(k) /\ c.todo[1] = SavingProfile /\ Goes(k, c)
      /\ UNCHANGED <<members, records, raced>>
      /\ profiles' = [profiles EXCEPT ![m] = [f \in DOMAIN ReviewedProfile(c.to) |->
            IF ReviewedProfile(c.to)[f] = c.seen[f] THEN @[f] ELSE ReviewedProfile(c.to)[f]]]
  BY RunningAt DEF SaveProfile, SavingProfile
<1>a. /\ SavingProfile \notin Unborn /\ SavingProfile # Profiling /\ SavingProfile # SavingMember
      /\ SavingProfile \notin Lasts
  BY DEF SavingProfile, SavingMember, Unborn, Counting, Inserting, Profiling, Lasts, Telling
<1>2. /\ c \in OnboardCall /\ c.at = "running" /\ m \in DOMAIN members /\ c.kind = "review" /\ Alive(c)
      /\ DOMAIN members = 1..Len(members)
  <2>1. c \in OnboardCall /\ c.at = "running" /\ m \in DOMAIN members /\ Shaped(c, Len(members)) /\ Alive(c)
    BY <1>1, <1>a, RunningAt
  <2>2. members \in Seq(Member)
    BY DEF OnboardInv, OnboardTypeOK
  <2> QED
    BY <1>1, <2>1, <2>2, KindOfAwait
<1>3. /\ onboardCall' \in [OnboardCalls -> OnboardCall \cup {Uncalled, Served}]
      /\ \A j \in OnboardCalls : j # k => onboardCall'[j] = onboardCall[j]
      /\ CallsShaped' /\ OneEach'
      /\ onboardCall'[k] \in OnboardCall /\ Follows(c.todo[1], onboardCall'[k].todo[1])
      /\ onboardCall'[k].at = "running" /\ onboardCall'[k].kind = "review"
      /\ onboardCall'[k].who = m /\ onboardCall'[k].seenKyc = c.seenKyc /\ onboardCall'[k].to = c.to
      /\ \A j \in OnboardCalls : Waits(onboardCall[j], Inserting)' <=> Waits(onboardCall[j], Inserting)
      /\ \A j \in OnboardCalls : Waits(onboardCall[j], Profiling)' => Waits(onboardCall[j], Profiling) /\ j # k
      /\ \A j \in OnboardCalls : Waits(onboardCall[j], Inserting) => j # k
      /\ \A j \in OnboardCalls : Alive(onboardCall'[j]) =>
            /\ Alive(onboardCall[j]) /\ onboardCall'[j].kind = onboardCall[j].kind
            /\ onboardCall'[j].who = onboardCall[j].who
  BY <1>1, <1>2, <1>a, GoingWithMember
<1>4. onboardCall'[k].todo[1] = SavingMember
  BY <1>1, <1>3, FollowsWhat
<1>5. /\ c.to \in ReviewStatus /\ c.seen \in Profile
      /\ profiles[m] \in Profile /\ profiles[m] # NoProfile
      /\ profiles \in [DOMAIN members -> Profile \cup {NoProfile}]
  <2>1. profiles[m] # NoProfile
    BY <1>2 DEF OnboardInv, Profiled
  <2> QED
    BY <1>2, <2>1 DEF OnboardInv, OnboardTypeOK, OnboardCall
<1>6. PICK new : new = ReviewedProfile(c.to)
  OBVIOUS
<1>7. /\ new \in Profile /\ new.review = c.to /\ (new.membership = "active" => c.to = "approved")
      /\ new.identity \in IdentityStatus \ VerificationStatus
      /\ DOMAIN new = {"membership", "identity", "review"}
  <2>1. /\ new \in Profile /\ new.review = c.to /\ (new.membership = "active" => c.to = "approved")
        /\ new.identity \in IdentityStatus \ VerificationStatus
    BY <1>5, <1>6, ReviewedProfileType
  <2> QED
    BY <2>1 DEF Profile
<1>8. PICK p : p = [f \in DOMAIN new |-> IF new[f] = c.seen[f] THEN profiles[m][f] ELSE new[f]]
  OBVIOUS
<1>9. /\ p \in Profile /\ p # NoProfile
      /\ p.review = (IF new.review = c.seen.review THEN profiles[m].review ELSE new.review)
      /\ p.membership = (IF new.membership = c.seen.membership THEN profiles[m].membership ELSE new.membership)
      /\ p.identity \in {profiles[m].identity} \cup (IdentityStatus \ VerificationStatus)
  <2>1. /\ p.review = (IF new.review = c.seen.review THEN profiles[m].review ELSE new.review)
        /\ p.membership = (IF new.membership = c.seen.membership THEN profiles[m].membership ELSE new.membership)
        /\ p.identity = (IF new.identity = c.seen.identity THEN profiles[m].identity ELSE new.identity)
    BY <1>7, <1>8
  <2>2. p = [membership |-> p.membership, identity |-> p.identity, review |-> p.review]
    BY <1>7, <1>8
  <2>3. p \in Profile
    BY <2>1, <2>2, <1>5, <1>7 DEF Profile
  <2> QED
    BY <2>1, <2>3, <1>7, NoProfileIsNone
<1>10. /\ profiles' = [profiles EXCEPT ![m] = p]
       /\ profiles' \in [DOMAIN members -> Profile \cup {NoProfile}]
       /\ profiles'[m] = p /\ \A i \in DOMAIN members : i # m => profiles'[i] = profiles[i]
  <2>1. profiles' = [profiles EXCEPT ![m] = p]
    BY <1>1, <1>6, <1>8
  <2> QED
    BY <2>1, <1>2, <1>5, <1>9
<1> USE DEF OnboardInv
<1>11. OnboardTypeOK'
  BY <1>1, <1>3, <1>10 DEF OnboardTypeOK
<1>12. Numbered'
  <2>1. NumbersAreConsecutive'
    BY <1>1 DEF Numbered, NumbersAreConsecutive
  <2>2. \A j \in OnboardCalls : Waits(onboardCall[j], Inserting)' => onboardCall'[j] = onboardCall[j] /\ Waits(onboardCall[j], Inserting)
    BY <1>3
  <2> QED
    BY <1>1, <2>1, <2>2 DEF Numbered
<1>13. Profiled'
  <2>1. ~Waits(c, Profiling)
    BY <1>1, <1>a DEF Waits
  <2>2. \A i \in DOMAIN members : profiles'[i] = NoProfile <=> profiles[i] = NoProfile
    BY <1>5, <1>9, <1>10
  <2> QED
    BY <1>1, <1>2, <1>3, <2>1, <2>2, ProfiledKept
<1>14. CallsSound'
  <2>1. ReviewSound(onboardCall[k])'
    <3>1. PICK d : d = onboardCall'[k]
      OBVIOUS
    <3>2. /\ d.todo[1] = SavingMember /\ d.who = m /\ d.kind = "review" /\ d.seenKyc = c.seenKyc /\ d.to = c.to
          /\ d.at = "running"
      BY <1>3, <1>4, <3>1
    <3> SUFFICES ASSUME <<m, "review">> \notin raced
                 PROVE  /\ members[m].kyc = c.seenKyc
                        /\ p.review = c.to /\ (p.membership = "active" => c.to = "approved")
      BY <1>1, <1>10, <3>1, <3>2, ReviewAwaits DEF ReviewSound, Lone
    <3>3. ReviewSound(c) /\ Lone(c)
      BY <1>2 DEF CallsSound, Lone
    <3>4. /\ members[m].kyc = c.seenKyc /\ profiles[m].review = c.seen.review
          /\ profiles[m].membership \in {c.seen.membership, "pending_verification"}
      BY <1>1, <1>2, <3>3, ReviewAwaits DEF ReviewSound
    <3> QED
      BY <3>4, <1>7, <1>9
  <2>2. SubmissionSound(onboardCall[k])'
    BY <1>3, <1>4 DEF SubmissionSound, Waits, Lone, SavingMember, SavingRecord
  <2>3. ASSUME NEW j \in OnboardCalls, j # k
        PROVE  ReviewSound(onboardCall[j])' /\ SubmissionSound(onboardCall[j])'
    <3>1. PICK d : d = onboardCall[j]
      OBVIOUS
    <3>2. d = onboardCall'[j] /\ ReviewSound(d) /\ SubmissionSound(d)
      BY <1>3, <2>3, <3>1 DEF CallsSound
    <3>3. SubmissionSound(onboardCall[j])'
      BY <1>1, <3>2 DEF SubmissionSound, Lone
    <3>4. ASSUME d.kind = "review", d.at = "running", <<d.who, d.kind>> \notin raced
          PROVE  profiles'[d.who] = profiles[d.who]
      <4>1. d.who # m
        BY <1>1, <1>2, <1>a, <2>3, <3>1, <3>4, AloneOn DEF Lone
      <4>2. d.who \in DOMAIN members
        <5>1. Shaped(d, Len(members))
          BY <3>1, <3>4 DEF CallsShaped, Alive
        <5>2. d.todo[1] \notin Unborn
          BY <5>1, <3>4, KindOfAwait
        <5> QED
          BY <1>2, <5>1, <5>2 DEF Shaped
      <4> QED
        BY <1>10, <4>1, <4>2
    <3>5. ReviewSound(onboardCall[j])'
      BY <1>1, <3>2, <3>4 DEF ReviewSound, Lone
    <3> QED
      BY <3>3, <3>5
  <2> QED
    BY <2>1, <2>2, <2>3 DEF CallsSound
<1>15. KycMatches'
  <2> SUFFICES ASSUME NEW i \in DOMAIN members, profiles'[i] # NoProfile, <<i, "review">> \notin raced,
                      \A j \in OnboardCalls : ~(Waits(onboardCall[j], SavingMember)' /\ onboardCall'[j].who = i)
               PROVE  /\ members[i].kyc = "verified" <=> profiles'[i].review = "approved"
                      /\ profiles'[i].membership = "active" => profiles'[i].review = "approved"
    BY <1>1 DEF KycMatches
  <2>1. i # m
    BY <1>3, <1>4 DEF Waits, Alive
  <2>2. \A j \in OnboardCalls : ~(Waits(onboardCall[j], SavingMember) /\ onboardCall[j].who = i)
    <3> SUFFICES ASSUME NEW j \in OnboardCalls, Waits(onboardCall[j], SavingMember), onboardCall[j].who = i
                 PROVE  FALSE
      OBVIOUS
    <3>1. onboardCall'[j] = onboardCall[j]
      BY <1>3, <2>1
    <3> QED
      BY <3>1 DEF Waits
  <2>3. profiles'[i] = profiles[i]
    BY <1>10, <2>1
  <2> QED
    BY <2>2, <2>3 DEF KycMatches
<1>16. RecordMatches'
  <2>1. \A j \in OnboardCalls : onboardCall[j].kind = "identity" => onboardCall'[j] = onboardCall[j]
    BY <1>2, <1>3
  <2>2. ASSUME NEW i \in DOMAIN members
        PROVE  profiles'[i].identity \in {profiles[i].identity} \cup (IdentityStatus \ VerificationStatus)
    BY <1>9, <1>10
  <2> QED
    BY <1>1, <2>1, <2>2, RecordKept
<1> QED
  BY <1>3, <1>11, <1>12, <1>13, <1>14, <1>15, <1>16

\* A submission tells the profile what it wrote in the record.
LEMMA OnboardWriteStatus ==
    ASSUME OnboardInv, NEW k \in OnboardCalls, NEW what \in DOMAIN Answer, WriteStatus(k, what)
    PROVE  OnboardInv'
<1> DEFINE c == onboardCall[k]
           m == c.who
<1>1. /\ Running(k) /\ c.todo[1] = <<"status", what>> /\ Goes(k, c)
      /\ UNCHANGED <<members, records, raced>>
      /\ profiles' = IF profiles[m] = NoProfile THEN profiles ELSE
            [profiles EXCEPT
               ![m].identity = Answer[what],
               ![m].membership = IF what \in {"start", "verify"} THEN "pending_verification" ELSE @]
  BY RunningAt DEF WriteStatus
<1>a. /\ c.todo[1] \in Telling /\ c.todo[1] \notin Unborn /\ c.todo[1] # Profiling /\ c.todo[1] # SavingMember
      /\ c.todo[1][2] = what /\ Answer[what] \in VerificationStatus /\ Answer[what] \in IdentityStatus
  BY <1>1, AnswerType DEF Telling, Unborn, Counting, Inserting, Profiling, SavingMember, IdentityStatus
<1>2. /\ c \in OnboardCall /\ c.at = "running" /\ m \in DOMAIN members /\ c.kind = "identity" /\ Alive(c)
      /\ DOMAIN members = 1..Len(members)
  <2>1. c \in OnboardCall /\ c.at = "running" /\ m \in DOMAIN members /\ Shaped(c, Len(members)) /\ Alive(c)
    BY <1>1, <1>a, RunningAt
  <2>2. members \in Seq(Member)
    BY DEF OnboardInv, OnboardTypeOK
  <2>3. c.todo[1] \in Submitting
    BY <1>a DEF Submitting
  <2> QED
    BY <2>1, <2>2, <2>3, KindOfAwait
<1>3. /\ onboardCall' \in [OnboardCalls -> OnboardCall \cup {Uncalled, Served}]
      /\ \A j \in OnboardCalls : j # k => onboardCall'[j] = onboardCall[j]
      /\ CallsShaped' /\ OneEach'
      /\ \/ onboardCall'[k] = Served
         \/ /\ onboardCall'[k].todo[1] \in Writing /\ onboardCall'[k].at = "running"
            /\ onboardCall'[k].kind = "identity" /\ onboardCall'[k].who = m
      /\ \A j \in OnboardCalls : Waits(onboardCall[j], Inserting)' <=> Waits(onboardCall[j], Inserting)
      /\ \A j \in OnboardCalls : Waits(onboardCall[j], Profiling)' => Waits(onboardCall[j], Profiling) /\ j # k
      /\ \A j \in OnboardCalls : Waits(onboardCall[j], Inserting) => j # k
      /\ \A j \in OnboardCalls : Alive(onboardCall'[j]) =>
            /\ Alive(onboardCall[j]) /\ onboardCall'[j].kind = onboardCall[j].kind
            /\ onboardCall'[j].who = onboardCall[j].who
  <2>1. \A b : Follows(c.todo[1], b) => b \in Writing
    BY <1>a, AwaitTypes DEF Follows, Telling, Counting, Inserting, Profiling, SavingRecord, Reading,
       SavingProfile, Writing
  <2> QED
    BY <1>1, <1>2, <1>a, <2>1, GoingWithMember
<1>5. /\ profiles \in [DOMAIN members -> Profile \cup {NoProfile}]
      /\ profiles[m] \in Profile \cup {NoProfile}
  BY <1>2 DEF OnboardInv, OnboardTypeOK
<1>6. PICK p : p = IF profiles[m] = NoProfile THEN NoProfile ELSE
          [profiles[m] EXCEPT !.identity = Answer[what],
             !.membership = IF what \in {"start", "verify"} THEN "pending_verification" ELSE @]
  OBVIOUS
<1>7. \/ p = NoProfile /\ profiles[m] = NoProfile
      \/ /\ p \in Profile /\ p # NoProfile /\ profiles[m] # NoProfile
         /\ p.review = profiles[m].review /\ p.identity = Answer[what]
         /\ p.membership \in {profiles[m].membership, "pending_verification"}
  <2>1. CASE profiles[m] = NoProfile
    BY <1>6, <2>1
  <2>2. CASE profiles[m] # NoProfile
    <3>1. profiles[m] \in Profile
      BY <1>5, <2>2
    <3>2. "pending_verification" \in Membership
      BY DEF Membership
    <3>3. /\ p \in Profile /\ p.review = profiles[m].review /\ p.identity = Answer[what]
          /\ p.membership \in {profiles[m].membership, "pending_verification"}
      BY <1>6, <1>a, <2>2, <3>1, <3>2 DEF Profile
    <3> QED
      BY <2>2, <3>3, NoProfileIsNone
  <2> QED
    BY <2>1, <2>2
<1>8. /\ profiles' \in [DOMAIN members -> Profile \cup {NoProfile}]
      /\ profiles'[m] = p /\ \A i \in DOMAIN members : i # m => profiles'[i] = profiles[i]
  <2>1. profiles' = [profiles EXCEPT ![m] = p]
    BY <1>1, <1>5, <1>6
  <2> QED
    BY <2>1, <1>2, <1>5, <1>7
<1>9. \A i \in DOMAIN members :
         \/ profiles[i] = NoProfile /\ profiles'[i] = NoProfile
         \/ /\ profiles[i] # NoProfile /\ profiles'[i] # NoProfile
            /\ profiles'[i].review = profiles[i].review
            /\ profiles'[i].membership \in {profiles[i].membership, "pending_verification"}
  <2> TAKE i \in DOMAIN members
  <2>1. CASE i = m
    BY <1>7, <1>8, <2>1
  <2>2. CASE i # m
    BY <1>8, <2>2
  <2> QED
    BY <2>1, <2>2
<1> USE DEF OnboardInv
<1>11. OnboardTypeOK'
  BY <1>1, <1>3, <1>8 DEF OnboardTypeOK
<1>12. Numbered'
  <2>1. NumbersAreConsecutive'
    BY <1>1 DEF Numbered, NumbersAreConsecutive
  <2>2. \A j \in OnboardCalls : Waits(onboardCall[j], Inserting)' => onboardCall'[j] = onboardCall[j] /\ Waits(onboardCall[j], Inserting)
    BY <1>3
  <2> QED
    BY <1>1, <2>1, <2>2 DEF Numbered
<1>13. Profiled'
  <2>1. ~Waits(c, Profiling)
    BY <1>a DEF Waits
  <2>2. \A i \in DOMAIN members : profiles'[i] = NoProfile <=> profiles[i] = NoProfile
    BY <1>9
  <2> QED
    BY <1>1, <1>2, <1>3, <2>1, <2>2, ProfiledKept
<1>14. CallsSound'
  <2>1. ReviewSound(onboardCall[k])' /\ SubmissionSound(onboardCall[k])'
    <3>1. CASE onboardCall'[k] = Served
      BY <3>1 DEF ReviewSound, SubmissionSound, Lone, Waits, Alive, Served
    <3>2. CASE onboardCall'[k].todo[1] \in Writing /\ onboardCall'[k].kind = "identity"
      BY <3>2, AwaitTypes DEF ReviewSound, SubmissionSound, Lone, Waits
    <3> QED
      BY <3>1, <3>2, <1>3
  <2>3. ASSUME NEW j \in OnboardCalls, j # k
        PROVE  ReviewSound(onboardCall[j])' /\ SubmissionSound(onboardCall[j])'
    <3>1. PICK d : d = onboardCall[j]
      OBVIOUS
    <3>2. d = onboardCall'[j] /\ ReviewSound(d) /\ SubmissionSound(d)
      BY <1>3, <2>3, <3>1 DEF CallsSound
    <3>3. SubmissionSound(onboardCall[j])'
      BY <1>1, <3>2 DEF SubmissionSound, Lone
    <3>4. ASSUME d.kind = "review", d.at = "running"
          PROVE  /\ profiles'[d.who].review = profiles[d.who].review
                 /\ profiles'[d.who].membership \in {profiles[d.who].membership, "pending_verification"}
      <4>1. Shaped(d, Len(members)) /\ profiles[d.who] # NoProfile
        BY <3>1, <3>4 DEF CallsShaped, Alive, Profiled
      <4>2. d.todo[1] \notin Unborn
        BY <4>1, <3>4, KindOfAwait
      <4>3. d.who \in DOMAIN members
        BY <1>2, <4>1, <4>2 DEF Shaped
      <4> QED
        BY <1>9, <4>1, <4>3
    <3>5. ReviewSound(onboardCall[j])'
      <4> SUFFICES ASSUME d.kind = "review", d.at = "running", <<d.who, d.kind>> \notin raced
                   PROVE  /\ d.todo[1] \in {Reading, SavingProfile} =>
                             /\ profiles'[d.who].review = d.seen.review
                             /\ profiles'[d.who].membership \in {d.seen.membership, "pending_verification"}
                          /\ d.todo[1] # Reading => members[d.who].kyc = d.seenKyc
                          /\ d.todo[1] = SavingMember =>
                             /\ profiles'[d.who].review = d.to
                             /\ profiles'[d.who].membership = "active" => d.to = "approved"
        BY <1>1, <3>2 DEF ReviewSound, Lone
      <4>1. /\ d.todo[1] \in {Reading, SavingProfile} =>
                /\ profiles[d.who].review = d.seen.review
                /\ profiles[d.who].membership \in {d.seen.membership, "pending_verification"}
            /\ d.todo[1] # Reading => members[d.who].kyc = d.seenKyc
            /\ d.todo[1] = SavingMember =>
                /\ profiles[d.who].review = d.to
                /\ profiles[d.who].membership = "active" => d.to = "approved"
        BY <3>2 DEF ReviewSound, Lone
      <4> QED
        BY <4>1, <3>4
    <3> QED
      BY <3>3, <3>5
  <2> QED
    BY <2>1, <2>3 DEF CallsSound
<1>15. KycMatches'
  <2>1. \A j \in OnboardCalls : Waits(onboardCall[j], SavingMember) => j # k
    BY <1>a DEF Waits
  <2>2. \A j \in OnboardCalls : Waits(onboardCall[j], SavingMember) => onboardCall'[j] = onboardCall[j]
    BY <1>3, <2>1
  <2>3. \A i \in DOMAIN members :
           \/ profiles[i] = NoProfile /\ profiles'[i] = NoProfile
           \/ /\ profiles[i] # NoProfile
              /\ members'[i].kyc = members[i].kyc /\ profiles'[i].review = profiles[i].review
              /\ profiles'[i].membership \in {profiles[i].membership, "pending_verification"}
    BY <1>1, <1>9
  <2> QED
    BY <1>1, <2>2, <2>3, KycKept
<1>16. RecordMatches'
  <2> SUFFICES ASSUME NEW i \in DOMAIN members, Len(records[i]) = 1, <<i, "identity">> \notin raced,
                      \A j \in OnboardCalls : ~(/\ Alive(onboardCall'[j]) /\ onboardCall'[j].kind = "identity"
                                                /\ onboardCall'[j].who = i)
               PROVE  profiles'[i].identity \in {records[i][1]} \cup (IdentityStatus \ VerificationStatus)
    BY <1>1 DEF RecordMatches
  <2>1. CASE i = m
    <3>1. SubmissionSound(c)
      BY DEF CallsSound
    <3>2. records[m][1] = Answer[what]
      BY <1>2, <1>a, <2>1, <3>1 DEF SubmissionSound, Lone
    <3>3. profiles[m] # NoProfile
      <4> SUFFICES ASSUME profiles[m] = NoProfile PROVE FALSE
        OBVIOUS
      <4>1. PICK j \in OnboardCalls : Waits(onboardCall[j], Profiling) /\ onboardCall[j].who = m
        BY <1>2 DEF Profiled
      <4>2. j # k /\ Alive(onboardCall[j]) /\ Shaped(onboardCall[j], Len(members))
        BY <1>a, <4>1 DEF Waits, CallsShaped
      <4>3. onboardCall[j].kind = "identity"
        BY <4>1, <4>2, KindOfAwait DEF Waits
      <4>4. onboardCall'[j] = onboardCall[j]
        BY <1>3, <4>2
      <4> QED
        BY <2>1, <4>1, <4>2, <4>3, <4>4
    <3> QED
      BY <2>1, <3>2, <3>3, <1>7, <1>8
  <2>2. CASE i # m
    <3>1. \A j \in OnboardCalls : onboardCall[j].who = i => onboardCall'[j] = onboardCall[j]
      BY <1>3, <2>2
    <3>2. profiles'[i] = profiles[i]
      BY <1>8, <2>2
    <3> QED
      BY <3>1, <3>2 DEF RecordMatches
  <2> QED
    BY <2>1, <2>2
<1> QED
  BY <1>3, <1>11, <1>12, <1>13, <1>14, <1>15, <1>16

\* A registration creates the profile of its member, whom nobody can review before.
LEMMA OnboardCreateProfile ==
    ASSUME OnboardInv, NEW k \in OnboardCalls, CreateProfile(k) PROVE OnboardInv'
<1> DEFINE c == onboardCall[k]
           m == c.who
           p == [membership |-> "pending_verification", review |-> "submitted",
                 identity |-> IF c.dto.qr THEN "qr_uploaded" ELSE "fin_submitted"]
<1>1. /\ Running(k) /\ c.todo[1] = Profiling /\ Goes(k, c)
      /\ UNCHANGED <<members, records, raced>>
      /\ profiles' = [profiles EXCEPT ![m] = p]
  BY RunningAt DEF CreateProfile, Profiling
<1>a. /\ Profiling \notin Unborn /\ Profiling \notin Lasts /\ Profiling # SavingMember
      /\ \A b : Follows(Profiling, b) => b \in Writing
  BY DEF Profiling, Unborn, Counting, Inserting, Lasts, Telling, SavingMember, Follows, Writing, Reading,
     SavingProfile, SavingRecord
<1>2. /\ c \in OnboardCall /\ c.at = "running" /\ m \in DOMAIN members /\ c.kind = "identity" /\ Alive(c)
      /\ DOMAIN members = 1..Len(members)
  <2>1. c \in OnboardCall /\ c.at = "running" /\ m \in DOMAIN members /\ Shaped(c, Len(members)) /\ Alive(c)
    BY <1>1, <1>a, RunningAt
  <2>2. members \in Seq(Member)
    BY DEF OnboardInv, OnboardTypeOK
  <2> QED
    BY <1>1, <2>1, <2>2, KindOfAwait
<1>3. /\ onboardCall' \in [OnboardCalls -> OnboardCall \cup {Uncalled, Served}]
      /\ \A j \in OnboardCalls : j # k => onboardCall'[j] = onboardCall[j]
      /\ CallsShaped' /\ OneEach'
      /\ onboardCall'[k].todo[1] \in Writing /\ onboardCall'[k].at = "running"
      /\ onboardCall'[k].kind = "identity" /\ onboardCall'[k].who = m
      /\ \A j \in OnboardCalls : Waits(onboardCall[j], Inserting)' <=> Waits(onboardCall[j], Inserting)
      /\ \A j \in OnboardCalls : Waits(onboardCall[j], Profiling)' => Waits(onboardCall[j], Profiling) /\ j # k
      /\ \A j \in OnboardCalls : Waits(onboardCall[j], Inserting) => j # k
      /\ \A j \in OnboardCalls : Alive(onboardCall'[j]) =>
            /\ Alive(onboardCall[j]) /\ onboardCall'[j].kind = onboardCall[j].kind
            /\ onboardCall'[j].who = onboardCall[j].who
  BY <1>1, <1>2, <1>a, GoingWithMember
<1>5. /\ profiles \in [DOMAIN members -> Profile \cup {NoProfile}] /\ profiles[m] = NoProfile
      /\ members[m].kyc = "pending"
  <2>1. Waits(c, Profiling)
    BY <1>1, <1>2 DEF Waits
  <2> QED
    BY <1>2, <2>1 DEF OnboardInv, OnboardTypeOK, Profiled
<1>6. /\ p \in Profile /\ p # NoProfile /\ p.review = "submitted" /\ p.membership = "pending_verification"
  <2>1. p \in Profile
    BY DEF Profile, Membership, IdentityStatus, ReviewStatus, VerificationStatus
  <2> QED
    BY <2>1, NoProfileIsNone
<1> HIDE DEF p
<1>7. /\ profiles' \in [DOMAIN members -> Profile \cup {NoProfile}]
      /\ profiles'[m] = p /\ \A i \in DOMAIN members : i # m => profiles'[i] = profiles[i]
  BY <1>1, <1>2, <1>5, <1>6
<1> USE DEF OnboardInv
<1>11. OnboardTypeOK'
  BY <1>1, <1>3, <1>7 DEF OnboardTypeOK
<1>12. Numbered'
  <2>1. NumbersAreConsecutive'
    BY <1>1 DEF Numbered, NumbersAreConsecutive
  <2>2. \A j \in OnboardCalls : Waits(onboardCall[j], Inserting)' => onboardCall'[j] = onboardCall[j] /\ Waits(onboardCall[j], Inserting)
    BY <1>3
  <2> QED
    BY <1>1, <2>1, <2>2 DEF Numbered
\* The member of a call that is about a member.
<1>b. ASSUME NEW j \in OnboardCalls, Alive(onboardCall[j]),
             onboardCall[j].kind = "review" \/ onboardCall[j].todo[1] = Profiling
      PROVE  onboardCall[j].who \in DOMAIN members
  <2>1. Shaped(onboardCall[j], Len(members))
    BY <1>b DEF CallsShaped
  <2>2. onboardCall[j].todo[1] \notin Unborn
    BY <1>a, <1>b, <2>1, KindOfAwait
  <2> QED
    BY <1>2, <2>1, <2>2 DEF Shaped
\* Reviews are of other members.
<1>c. ASSUME NEW j \in OnboardCalls, Alive(onboardCall[j]), onboardCall[j].kind = "review"
      PROVE  onboardCall[j].who # m /\ profiles'[onboardCall[j].who] = profiles[onboardCall[j].who]
  <2>1. profiles[onboardCall[j].who] # NoProfile
    BY <1>c DEF Profiled
  <2> QED
    BY <1>b, <1>c, <2>1, <1>5, <1>7
<1>13. Profiled'
  <2>1. ASSUME NEW i \in DOMAIN members, profiles'[i] = NoProfile
        PROVE  /\ members'[i].kyc = "pending"
               /\ \E j \in OnboardCalls : Waits(onboardCall[j], Profiling)' /\ onboardCall'[j].who = i
    <3>1. i # m /\ profiles[i] = NoProfile
      BY <2>1, <1>6, <1>7
    <3>2. PICK j \in OnboardCalls : Waits(onboardCall[j], Profiling) /\ onboardCall[j].who = i
      BY <3>1 DEF Profiled
    <3>3. onboardCall'[j] = onboardCall[j]
      BY <3>1, <3>2, <1>3
    <3> QED
      BY <1>1, <3>1, <3>2, <3>3 DEF Profiled, Waits
  <2>2. ASSUME NEW j \in OnboardCalls, Waits(onboardCall[j], Profiling)'
        PROVE  /\ profiles'[onboardCall'[j].who] = NoProfile
               /\ onboardCall'[j] = onboardCall[j] /\ Waits(onboardCall[j], Profiling)
    <3>1. j # k /\ Waits(onboardCall[j], Profiling) /\ onboardCall'[j] = onboardCall[j]
      BY <1>3, <2>2
    <3>2. onboardCall[j].who # m /\ profiles[onboardCall[j].who] = NoProfile
      BY <1>1, <1>2, <3>1 DEF Profiled, Waits
    <3>3. onboardCall[j].who \in DOMAIN members
      BY <1>b, <3>1 DEF Waits
    <3> QED
      BY <3>1, <3>2, <3>3, <1>7
  <2>3. ASSUME NEW j \in OnboardCalls, Alive(onboardCall'[j]), onboardCall'[j].kind = "review"
        PROVE  profiles'[onboardCall'[j].who] # NoProfile
    <3>1. j # k /\ onboardCall'[j] = onboardCall[j]
      BY <1>3, <2>3
    <3> QED
      BY <3>1, <2>3, <1>c DEF Profiled
  <2>4. ASSUME NEW i \in OnboardCalls, NEW j \in OnboardCalls, Waits(onboardCall[i], Profiling)',
               Waits(onboardCall[j], Profiling)', onboardCall'[i].who = onboardCall'[j].who
        PROVE  i = j
    <3>1. /\ Waits(onboardCall[i], Profiling) /\ Waits(onboardCall[j], Profiling)
          /\ onboardCall'[i] = onboardCall[i] /\ onboardCall'[j] = onboardCall[j]
      BY <2>2, <2>4
    <3> QED
      BY <2>4, <3>1 DEF Profiled
  <2>5. \A j \in OnboardCalls : Waits(onboardCall[j], Profiling)' => profiles'[onboardCall'[j].who] = NoProfile
    BY <2>2
  <2> QED
    BY <1>1, <2>1, <2>3, <2>4, <2>5 DEF Profiled
<1>14. CallsSound'
  <2>1. ReviewSound(onboardCall[k])' /\ SubmissionSound(onboardCall[k])'
    BY <1>3, AwaitTypes DEF ReviewSound, SubmissionSound, Lone, Waits
  <2>3. ASSUME NEW j \in OnboardCalls, j # k
        PROVE  ReviewSound(onboardCall[j])' /\ SubmissionSound(onboardCall[j])'
    <3>1. PICK d : d = onboardCall[j]
      OBVIOUS
    <3>2. d = onboardCall'[j] /\ ReviewSound(d) /\ SubmissionSound(d)
      BY <1>3, <2>3, <3>1 DEF CallsSound
    <3>3. SubmissionSound(onboardCall[j])'
      BY <1>1, <3>2 DEF SubmissionSound, Lone
    <3>4. d.kind = "review" /\ d.at = "running" => profiles'[d.who] = profiles[d.who]
      BY <1>c, <3>1 DEF Alive
    <3>5. ReviewSound(onboardCall[j])'
      BY <1>1, <3>2, <3>4 DEF ReviewSound, Lone
    <3> QED
      BY <3>3, <3>5
  <2> QED
    BY <2>1, <2>3 DEF CallsSound
<1>15. KycMatches'
  <2> SUFFICES ASSUME NEW i \in DOMAIN members, profiles'[i] # NoProfile, <<i, "review">> \notin raced,
                      \A j \in OnboardCalls : ~(Waits(onboardCall[j], SavingMember)' /\ onboardCall'[j].who = i)
               PROVE  /\ members[i].kyc = "verified" <=> profiles'[i].review = "approved"
                      /\ profiles'[i].membership = "active" => profiles'[i].review = "approved"
    BY <1>1 DEF KycMatches
  <2>1. CASE i = m
    BY <2>1, <1>5, <1>6, <1>7
  <2>2. CASE i # m
    <3>1. \A j \in OnboardCalls : ~(Waits(onboardCall[j], SavingMember) /\ onboardCall[j].who = i)
      <4> SUFFICES ASSUME NEW j \in OnboardCalls, Waits(onboardCall[j], SavingMember), onboardCall[j].who = i
                   PROVE  FALSE
        OBVIOUS
      <4>1. onboardCall'[j] = onboardCall[j]
        BY <1>3, <2>2
      <4> QED
        BY <4>1 DEF Waits
    <3>2. profiles'[i] = profiles[i]
      BY <1>7, <2>2
    <3> QED
      BY <3>1, <3>2 DEF KycMatches
  <2> QED
    BY <2>1, <2>2
<1>16. RecordMatches'
  <2> SUFFICES ASSUME NEW i \in DOMAIN members, Len(records[i]) = 1, <<i, "identity">> \notin raced,
                      \A j \in OnboardCalls : ~(/\ Alive(onboardCall'[j]) /\ onboardCall'[j].kind = "identity"
                                                /\ onboardCall'[j].who = i)
               PROVE  profiles'[i].identity \in {records[i][1]} \cup (IdentityStatus \ VerificationStatus)
    BY <1>1 DEF RecordMatches
  <2>1. i # m
    BY <1>3 DEF Alive
  <2>2. \A j \in OnboardCalls : onboardCall[j].who = i => onboardCall'[j] = onboardCall[j]
    BY <1>3, <2>1
  <2>3. profiles'[i] = profiles[i]
    BY <1>7, <2>1
  <2> QED
    BY <2>2, <2>3 DEF RecordMatches
<1> QED
  BY <1>3, <1>11, <1>12, <1>13, <1>14, <1>15, <1>16

\* A sequence given as a function on 1..l, with one more element.
Extends(g, f, l, e) == g[l + 1] = e /\ \A i \in 1..l : g[i] = f[i]

LEMMA AppendToFunction ==
    ASSUME NEW S, NEW l \in Nat, NEW f \in [1..l -> S], NEW e \in S, NEW g, g = Append(f, e)
    PROVE  g \in [1..(l + 1) -> S] /\ Extends(g, f, l, e)
<1>1. f \in Seq(S)
  BY SeqDef
<1>2. Len(f) = l
  BY <1>1, LenProperties
<1>3. /\ Append(f, e) \in Seq(S) /\ Len(Append(f, e)) = l + 1 /\ Append(f, e)[l + 1] = e
      /\ \A i \in 1..l : Append(f, e)[i] = f[i]
  BY <1>1, <1>2, AppendProperties
<1> QED
  BY <1>3, LenProperties DEF Extends

\* A registration inserts its member, with the next number, for no index refuses it.
LEMMA OnboardInsertMember ==
    ASSUME OnboardInv, NEW k \in OnboardCalls, InsertMember(k) PROVE OnboardInv'
<1> DEFINE r == onboardCall[k].dto
           n == onboardCall[k].number
           new == [phone |-> r.phone, fin |-> r.fin, number |-> n, kyc |-> "pending"]
<1>1. PICK l \in Nat : l = Len(members) /\ DOMAIN members = 1..l /\ members \in Seq(Member)
  <2>1. members \in Seq(Member)
    BY DEF OnboardInv, OnboardTypeOK
  <2> QED
    BY <2>1, LenProperties
<1>2. PICK c : c = [onboardCall[k] EXCEPT !.who = l + 1]
  OBVIOUS
<1>3. /\ Running(k) /\ onboardCall[k].todo[1] = Inserting /\ Goes(k, c) /\ raced' = raced
      /\ ~Taken(r, n)
      /\ members' = Append(members, new)
      /\ profiles' = Append(profiles, NoProfile) /\ records' = Append(records, << >>)
  BY <1>1, <1>2, RunningAt DEF InsertMember, Inserting
<1>a. /\ Inserting \in Unborn /\ Inserting \notin Lasts /\ Profiling \notin Unborn
      /\ Profiling # SavingRecord /\ Profiling \notin Telling /\ Profiling # Inserting
      /\ Profiling # SavingMember /\ Inserting # Profiling /\ Inserting # SavingMember
  BY DEF Inserting, Unborn, Counting, Lasts, Telling, Profiling, SavingMember, SavingRecord
<1>4. /\ onboardCall[k] \in OnboardCall /\ onboardCall[k].at = "running" /\ Alive(onboardCall[k])
      /\ Shaped(onboardCall[k], l) /\ onboardCall[k].kind = "identity" /\ onboardCall[k].who = 0
  <2>1. /\ onboardCall[k] \in OnboardCall /\ onboardCall[k].at = "running" /\ Alive(onboardCall[k])
        /\ Shaped(onboardCall[k], l)
    BY <1>1, <1>3, RunningAt
  <2>2. onboardCall[k].kind = "identity"
    BY <2>1, <1>3, <1>a, KindOfAwait
  <2> QED
    BY <2>1, <2>2, <1>3, <1>a DEF Shaped
<1>5. /\ c \in OnboardCall /\ c.at = "running" /\ c.kind = "identity" /\ c.who = l + 1
      /\ c.todo = onboardCall[k].todo
  <2>1. PICK who \in Nat : who = l + 1
    OBVIOUS
  <2>2. PICK old \in OnboardCall : old = onboardCall[k]
    BY <1>4
  <2>3. c = [old EXCEPT !.who = who]
    BY <1>2, <2>1, <2>2
  <2>4. /\ c \in OnboardCall /\ c.at = old.at /\ c.kind = old.kind /\ c.who = who
        /\ c.todo = old.todo
    BY <2>3 DEF OnboardCall
  <2> QED
    BY <1>4, <2>1, <2>2, <2>4
<1>6. PICK x : x = Gone(c)
  OBVIOUS
<1>7. /\ x \in OnboardCall /\ TodoOf(x.kind, x.todo) /\ x.todo[1] = Profiling
      /\ x.at = "running" /\ x.kind = "identity" /\ x.who = l + 1
  <2>1. TodoOf(c.kind, c.todo)
    BY <1>4, <1>5 DEF Shaped
  <2>2. c.todo[1] = Inserting /\ c.todo[1] \notin Lasts
    BY <1>3, <1>5, <1>a
  <2>3. /\ x \in OnboardCall /\ TodoOf(x.kind, x.todo) /\ Follows(Inserting, x.todo[1])
        /\ x.at = c.at /\ x.kind = c.kind /\ x.who = c.who
    BY <1>5, <1>6, <2>1, <2>2, CallGoes
  <2> QED
    BY <1>5, <2>3, FollowsWhat
<1>8. /\ onboardCall' \in [OnboardCalls -> OnboardCall \cup {Uncalled, Served}]
      /\ onboardCall'[k] = x
      /\ \A j \in OnboardCalls : j # k => onboardCall'[j] = onboardCall[j]
  <2>1. onboardCall' = [onboardCall EXCEPT ![k] = x]
    BY <1>3, <1>6 DEF Goes
  <2> QED
    BY <2>1, <1>7 DEF OnboardInv, OnboardTypeOK
<1> USE DEF OnboardInv
\* The number is the next.
<1>9. n = l + 1 /\ n \in Nat
  <2>1. n \in Nat /\ n > Enrolled /\ n <= l + 1
    BY <1>1, <1>3, <1>4 DEF Numbered, Waits, OnboardCall
  <2>2. \A m \in 1..l : members[m].number # n
    BY <1>1, <1>3 DEF Taken
  <2>3. n \in 1..l => members[n].number = n
    BY <1>1, <2>1 DEF Numbered, NumbersAreConsecutive
  <2>4. n > 0
    BY <2>1, OnboardConstants
  <2> QED
    BY <2>1, <2>2, <2>3, <2>4
<1>10. /\ new \in Member /\ new.number = l + 1 /\ new.kyc = "pending"
  BY <1>4, <1>9 DEF Member, OnboardCall
<1> HIDE DEF new
<1>11. /\ members' \in Seq(Member) /\ Len(members') = l + 1 /\ DOMAIN members' = 1..(l + 1)
       /\ members'[l + 1] = new /\ \A i \in 1..l : members'[i] = members[i]
  <2>1. /\ members' \in Seq(Member) /\ Len(members') = l + 1
        /\ members'[l + 1] = new /\ \A i \in 1..l : members'[i] = members[i]
    BY <1>1, <1>3, <1>10, AppendProperties
  <2> QED
    BY <2>1, LenProperties
<1>12. /\ profiles' \in [1..(l + 1) -> Profile \cup {NoProfile}] /\ profiles'[l + 1] = NoProfile
       /\ \A i \in 1..l : profiles'[i] = profiles[i]
  <2>1. profiles \in [1..l -> Profile \cup {NoProfile}]
    BY <1>1 DEF OnboardTypeOK
  <2>2. PICK S : S = Profile \cup {NoProfile}
    OBVIOUS
  <2>3. PICK p \in [1..l -> S] : p = profiles
    BY <2>1, <2>2
  <2>4. NoProfile \in S
    BY <2>2
  <2> HIDE DEF OnboardInv
  <2>5. PICK g : g = Append(p, NoProfile)
    OBVIOUS
  <2>6. g \in [1..(l + 1) -> S] /\ Extends(g, p, l, NoProfile)
    BY <2>4, <2>5, AppendToFunction
  <2> QED
    BY <1>3, <2>2, <2>3, <2>5, <2>6 DEF Extends
<1>13. /\ records' \in [1..(l + 1) -> Seq(VerificationStatus)] /\ records'[l + 1] = << >>
       /\ \A i \in 1..l : records'[i] = records[i]
  <2>1. records \in [1..l -> Seq(VerificationStatus)]
    BY <1>1 DEF OnboardTypeOK
  <2>2. << >> \in Seq(VerificationStatus)
    BY EmptySeq
  <2>3. PICK S : S = Seq(VerificationStatus)
    OBVIOUS
  <2>4. PICK p \in [1..l -> S] : p = records
    BY <2>1, <2>3
  <2>5. PICK e \in S : e = << >>
    BY <2>2, <2>3
  <2> HIDE DEF OnboardInv
  <2>6. PICK g : g = Append(p, e)
    OBVIOUS
  <2>7. g \in [1..(l + 1) -> S] /\ Extends(g, p, l, e)
    BY <2>6, AppendToFunction
  <2> QED
    BY <1>3, <2>3, <2>4, <2>5, <2>6, <2>7 DEF Extends
<1>14. OnboardTypeOK'
  <2>1. raced \subseteq (1..(l + 1)) \X OnboardKinds
    <3>1. raced \subseteq (1..l) \X OnboardKinds
      BY <1>1 DEF OnboardTypeOK
    <3> QED
      BY <3>1
  <2> QED
    BY <1>3, <1>8, <1>11, <1>12, <1>13, <2>1 DEF OnboardTypeOK
\* The other calls are of the other members, or have none.
<1>15. ASSUME NEW j \in OnboardCalls, j # k, Alive(onboardCall[j])
       PROVE  /\ Shaped(onboardCall[j], l) /\ Shaped(onboardCall[j], l + 1)
              /\ onboardCall[j].who # l + 1 /\ onboardCall[j].who \in 0..l
              /\ onboardCall[j].todo[1] \notin Unborn => onboardCall[j].who \in 1..l
              /\ onboardCall[j].kind = "review" => onboardCall[j].who \in 1..l
  <2>1. Shaped(onboardCall[j], l)
    BY <1>1, <1>15 DEF CallsShaped
  <2>2. onboardCall[j].kind = "review" => onboardCall[j].todo[1] \notin Unborn
    BY <2>1, KindOfAwait
  <2>3. onboardCall[j].todo[1] \notin Unborn => onboardCall[j].who \in 1..l
    BY <2>1 DEF Shaped
  <2>4. onboardCall[j].todo[1] \in Unborn => onboardCall[j].who = 0
    BY <2>1 DEF Shaped
  <2>5. Shaped(onboardCall[j], l + 1)
    BY <2>1, <2>3 DEF Shaped
  <2> QED
    BY <2>1, <2>2, <2>3, <2>4, <2>5
<1>16. CallsShaped'
  <2>1. Shaped(x, l + 1)
    BY <1>7, <1>a DEF Shaped
  <2>2. ASSUME NEW j \in OnboardCalls, Alive(onboardCall'[j])
        PROVE  Shaped(onboardCall'[j], l + 1)
    BY <1>8, <1>15, <2>1, <2>2
  <2> QED
    BY <1>11, <2>2 DEF CallsShaped
<1>17. Numbered'
  <2>1. NumbersAreConsecutive'
    <3> SUFFICES ASSUME NEW i \in 1..(l + 1), i > Enrolled PROVE members'[i].number = i
      BY <1>11 DEF NumbersAreConsecutive
    <3>1. CASE i = l + 1
      BY <3>1, <1>10, <1>11
    <3>2. CASE i # l + 1
      <4>1. i \in 1..l
        BY <3>2
      <4> QED
        BY <4>1, <1>1, <1>11 DEF Numbered, NumbersAreConsecutive
    <3> QED
      BY <3>1, <3>2
  <2>2. ASSUME NEW j \in OnboardCalls, Waits(onboardCall[j], Inserting)'
        PROVE  onboardCall'[j].number > Enrolled /\ onboardCall'[j].number <= (l + 1) + 1
    <3>1. j # k /\ onboardCall'[j] = onboardCall[j]
      BY <1>7, <1>8, <1>a, <2>2 DEF Waits
    <3>2. onboardCall[j].number > Enrolled /\ onboardCall[j].number <= l + 1
      BY <1>1, <2>2, <3>1 DEF Numbered, Waits
    <3>3. onboardCall[j].number \in Nat
      <4>1. Shaped(onboardCall[j], l)
        BY <1>15, <2>2, <3>1 DEF Waits
      <4> QED
        BY <4>1 DEF Shaped, OnboardCall
    <3> QED
      BY <3>1, <3>2, <3>3
  <2>3. Enrolled <= l + 1
    BY <1>1, OnboardConstants DEF Numbered
  <2> QED
    BY <1>11, <2>1, <2>2, <2>3 DEF Numbered
<1>18. Profiled'
  <2>1. ASSUME NEW i \in 1..(l + 1), profiles'[i] = NoProfile
        PROVE  /\ members'[i].kyc = "pending"
               /\ \E j \in OnboardCalls : Waits(onboardCall[j], Profiling)' /\ onboardCall'[j].who = i
    <3>1. CASE i = l + 1
      BY <3>1, <1>7, <1>8, <1>10, <1>11 DEF Waits, Alive
    <3>2. CASE i # l + 1
      <4>1. i \in 1..l /\ profiles[i] = NoProfile
        BY <2>1, <3>2, <1>12
      <4>2. PICK j \in OnboardCalls : Waits(onboardCall[j], Profiling) /\ onboardCall[j].who = i
        BY <1>1, <4>1 DEF Profiled
      <4>3. j # k /\ onboardCall'[j] = onboardCall[j]
        BY <1>3, <1>8, <1>a, <4>2 DEF Waits
      <4>4. members'[i].kyc = "pending"
        BY <1>1, <1>11, <4>1 DEF Profiled
      <4> QED
        BY <4>2, <4>3, <4>4 DEF Waits
    <3> QED
      BY <3>1, <3>2
  <2>2. ASSUME NEW j \in OnboardCalls, Waits(onboardCall[j], Profiling)'
        PROVE  /\ profiles'[onboardCall'[j].who] = NoProfile
               /\ j # k => /\ onboardCall'[j] = onboardCall[j] /\ Waits(onboardCall[j], Profiling)
                           /\ onboardCall[j].who # l + 1
    <3>1. CASE j = k
      BY <3>1, <1>7, <1>8, <1>12
    <3>2. CASE j # k
      <4>1. onboardCall'[j] = onboardCall[j] /\ Waits(onboardCall[j], Profiling)
        BY <1>8, <2>2, <3>2 DEF Waits
      <4>2. onboardCall[j].who \in 1..l /\ onboardCall[j].who # l + 1
        BY <1>15, <1>a, <3>2, <4>1 DEF Waits
      <4> QED
        BY <1>12, <4>1, <4>2 DEF Profiled
    <3> QED
      BY <3>1, <3>2
  <2>3. ASSUME NEW j \in OnboardCalls, Alive(onboardCall'[j]), onboardCall'[j].kind = "review"
        PROVE  profiles'[onboardCall'[j].who] # NoProfile
    <3>1. j # k /\ onboardCall'[j] = onboardCall[j]
      BY <1>7, <1>8, <2>3
    <3>2. onboardCall[j].who \in 1..l
      BY <1>15, <2>3, <3>1
    <3> QED
      BY <1>12, <2>3, <3>1, <3>2 DEF Profiled
  <2>4. ASSUME NEW i \in OnboardCalls, NEW j \in OnboardCalls, Waits(onboardCall[i], Profiling)',
               Waits(onboardCall[j], Profiling)', onboardCall'[i].who = onboardCall'[j].who
        PROVE  i = j
    <3>1. CASE i # k /\ j # k
      <4>1. /\ Waits(onboardCall[i], Profiling) /\ Waits(onboardCall[j], Profiling)
            /\ onboardCall'[i] = onboardCall[i] /\ onboardCall'[j] = onboardCall[j]
        BY <2>2, <2>4, <3>1
      <4> QED
        BY <2>4, <4>1 DEF Profiled
    <3>2. CASE i = k \/ j = k
      BY <1>7, <1>8, <2>2, <2>4, <3>2
    <3> QED
      BY <3>1, <3>2
  <2>5. \A j \in OnboardCalls : Waits(onboardCall[j], Profiling)' => profiles'[onboardCall'[j].who] = NoProfile
    BY <2>2
  <2> QED
    BY <1>11, <2>1, <2>3, <2>4, <2>5 DEF Profiled
<1>19. OneEach'
  <2> SUFFICES ASSUME NEW i \in OnboardCalls, NEW j \in OnboardCalls,
                      Running(i)', Running(j)', i # j,
                      onboardCall'[i].todo[1] \notin Unborn,
                      onboardCall'[i].kind = onboardCall'[j].kind,
                      onboardCall'[i].who = onboardCall'[j].who
               PROVE  <<onboardCall'[j].who, onboardCall'[j].kind>> \in raced
    BY <1>3 DEF OneEach
  <2>1. CASE i # k /\ j # k
    BY <2>1, <1>8 DEF OneEach, Running
  <2>2. CASE i = k \/ j = k
    BY <2>2, <1>7, <1>8, <1>15 DEF Running, Alive
  <2> QED
    BY <2>1, <2>2
<1>20. CallsSound'
  <2>1. ReviewSound(onboardCall[k])' /\ SubmissionSound(onboardCall[k])'
    BY <1>7, <1>8, <1>a DEF ReviewSound, SubmissionSound, Lone, Waits
  <2>2. ASSUME NEW j \in OnboardCalls, j # k
        PROVE  ReviewSound(onboardCall[j])' /\ SubmissionSound(onboardCall[j])'
    <3>1. PICK d : d = onboardCall[j]
      OBVIOUS
    <3>2. d = onboardCall'[j] /\ ReviewSound(d) /\ SubmissionSound(d)
      BY <1>8, <2>2, <3>1 DEF CallsSound
    <3>3. ASSUME Alive(d), d.todo[1] \notin Unborn \/ d.kind = "review"
          PROVE  /\ profiles'[d.who] = profiles[d.who] /\ members'[d.who] = members[d.who]
                 /\ records'[d.who] = records[d.who]
      <4>1. d.who \in 1..l
        BY <1>15, <2>2, <3>1, <3>3
      <4> QED
        BY <4>1, <1>11, <1>12, <1>13
    <3>4. ReviewSound(onboardCall[j])'
      BY <1>3, <3>2, <3>3 DEF ReviewSound, Lone, Alive
    <3>5. d.todo[1] \in {SavingRecord} \cup Telling => d.todo[1] \notin Unborn
      BY DEF SavingRecord, Telling, Unborn, Counting, Inserting
    <3>6. SubmissionSound(onboardCall[j])'
      BY <1>3, <3>2, <3>3, <3>5 DEF SubmissionSound, Lone, Alive, Waits
    <3> QED
      BY <3>4, <3>6
  <2> QED
    BY <2>1, <2>2 DEF CallsSound
<1>21. KycMatches'
  <2> SUFFICES ASSUME NEW i \in 1..(l + 1), profiles'[i] # NoProfile, <<i, "review">> \notin raced,
                      \A j \in OnboardCalls : ~(Waits(onboardCall[j], SavingMember)' /\ onboardCall'[j].who = i)
               PROVE  /\ members'[i].kyc = "verified" <=> profiles'[i].review = "approved"
                      /\ profiles'[i].membership = "active" => profiles'[i].review = "approved"
    BY <1>3, <1>11 DEF KycMatches
  <2>1. i \in 1..l
    BY <1>12
  <2>2. \A j \in OnboardCalls : ~(Waits(onboardCall[j], SavingMember) /\ onboardCall[j].who = i)
    <3> SUFFICES ASSUME NEW j \in OnboardCalls, Waits(onboardCall[j], SavingMember), onboardCall[j].who = i
                 PROVE  FALSE
      OBVIOUS
    <3>1. onboardCall'[j] = onboardCall[j]
      BY <1>3, <1>8, <1>a DEF Waits
    <3> QED
      BY <3>1 DEF Waits
  <2>3. profiles'[i] = profiles[i] /\ members'[i] = members[i]
    BY <1>11, <1>12, <2>1
  <2> QED
    BY <1>1, <2>1, <2>2, <2>3 DEF KycMatches
<1>22. RecordMatches'
  <2> SUFFICES ASSUME NEW i \in 1..(l + 1), Len(records'[i]) = 1, <<i, "identity">> \notin raced,
                      \A j \in OnboardCalls : ~(/\ Alive(onboardCall'[j]) /\ onboardCall'[j].kind = "identity"
                                                /\ onboardCall'[j].who = i)
               PROVE  profiles'[i].identity \in {records'[i][1]} \cup (IdentityStatus \ VerificationStatus)
    BY <1>3, <1>11 DEF RecordMatches
  <2>1. i \in 1..l
    <3>1. Len(records'[l + 1]) = 0
      BY <1>13, EmptySeq
    <3>2. i # l + 1
      BY <3>1
    <3>3. l \in Nat /\ i \in 1..(l + 1)
      BY <1>1
    <3> QED
      BY <3>2, <3>3
  <2>2. \A j \in OnboardCalls : onboardCall[j].who = i => onboardCall'[j] = onboardCall[j]
    BY <1>4, <1>8, <2>1
  <2>3. profiles'[i] = profiles[i] /\ records'[i] = records[i]
    BY <1>12, <1>13, <2>1
  <2> QED
    BY <1>1, <2>1, <2>2, <2>3 DEF RecordMatches
<1> QED
  BY <1>14, <1>16, <1>17, <1>18, <1>19, <1>20, <1>21, <1>22

-----------------------------------------------------------------------------
(* The calls that arrive, and the next step.                                   *)

LEMMA NewCallType ==
    ASSUME NEW kind \in OnboardKinds, NEW todo \in Seq(Awaits)
    PROVE  /\ NewCall(kind, todo) \in OnboardCall
           /\ NewCall(kind, todo).at = "running" /\ NewCall(kind, todo).kind = kind
           /\ NewCall(kind, todo).todo = todo /\ NewCall(kind, todo).who = 0
<1>1. (CHOOSE r \in Registrations : TRUE) \in Registrations
  BY OnboardConstants
<1>2. "failed" \in VerificationStatus /\ Reviewed \in Profile /\ "submitted" \in ReviewStatus
  BY DEF VerificationStatus, Reviewed, Profile, Membership, IdentityStatus, ReviewStatus
<1> QED
  BY <1>1, <1>2 DEF NewCall, OnboardCall

\* One list of awaits after another.
Joins(u, s, t) == u = s \o t

LEMMA TodoJoins ==
    ASSUME NEW kind, NEW s, NEW t, TodoOf(kind, s), TodoOf(kind, t),
           NEW a, a = s[Len(s)], NEW b, b = t[1], Follows(a, b), NEW u, Joins(u, s, t)
    PROVE  TodoOf(kind, u) /\ u[1] = s[1]
<1>1. s \in Seq(AwaitsOf(kind)) /\ t \in Seq(AwaitsOf(kind))
  BY DEF TodoOf
<1>2. PICK m \in Nat, n \in Nat : m = Len(s) /\ n = Len(t) /\ m > 0 /\ n > 0
  BY <1>1, LenProperties DEF TodoOf
<1>4. /\ u \in Seq(AwaitsOf(kind)) /\ Len(u) = m + n
      /\ \A i \in 1..(m + n) : u[i] = IF i <= m THEN s[i] ELSE t[i - m]
  BY <1>1, <1>2, ConcatProperties DEF Joins
<1>5. u[1] = s[1] /\ u[m + n] = t[n]
  <2>1. 1 \in 1..(m + n) /\ m + n \in 1..(m + n) /\ ~(m + n <= m) /\ (m + n) - m = n /\ 1 <= m
    BY <1>2
  <2> QED
    BY <1>4, <2>1
<1>6. ASSUME NEW i \in 1..(m + n), i < m + n PROVE Follows(u[i], u[i + 1])
  <2>1. i \in 1..(m + n) /\ i + 1 \in 1..(m + n)
    BY <1>2, <1>6
  <2>2. CASE i < m
    <3>1. i \in 1..m /\ i <= m /\ i + 1 <= m
      BY <2>2
    <3>2. u[i] = s[i] /\ u[i + 1] = s[i + 1]
      BY <1>4, <2>1, <3>1
    <3> QED
      BY <1>2, <2>2, <3>1, <3>2 DEF TodoOf
  <2>3. CASE i = m
    <3>1. i <= m /\ ~(i + 1 <= m) /\ (i + 1) - m = 1
      BY <2>3
    <3>2. u[i] = s[m] /\ u[i + 1] = t[1]
      BY <1>4, <2>1, <2>3, <3>1
    <3> QED
      BY <1>2, <3>2
  <2>4. CASE i > m
    <3>1. PICK j \in 1..n : j = i - m /\ j < n
      BY <2>4, <1>6
    <3>2. ~(i <= m) /\ ~(i + 1 <= m) /\ (i + 1) - m = j + 1
      BY <2>4, <3>1
    <3>3. u[i] = t[j] /\ u[i + 1] = t[j + 1]
      BY <1>4, <2>1, <3>1, <3>2
    <3> QED
      BY <1>2, <3>1, <3>3 DEF TodoOf
  <2> QED
    BY <2>2, <2>3, <2>4
<1>7. u[Len(u)] \in Lasts
  BY <1>2, <1>4, <1>5 DEF TodoOf
<1>8. Len(u) > 0
  BY <1>2, <1>4
<1>9. TodoOf(kind, u)
  BY <1>4, <1>6, <1>7, <1>8 DEF TodoOf
<1> QED
  BY <1>2, <1>4, <1>5, <1>9

\* What a submission has to do.
LEMMA TodoOfSubmission ==
    ASSUME NEW what \in Asked, NEW a, a \in {<<"create", what>>, <<"update", what>>}
    PROVE  /\ TodoOf("identity", <<a, <<"status", what>> >>) /\ a \in Writing
           /\ <<"status", what>> \in Telling
           /\ <<a, <<"status", what>> >>[1] = a
           /\ <<a, <<"status", what>> >>[Len(<<a, <<"status", what>> >>)] = <<"status", what>>
<1>1. a \in Writing /\ <<"status", what>> \in Telling /\ a[2] = what
  BY DEF Writing, Telling
<1>2. Follows(a, <<"status", what>>) /\ <<"status", what>> \in Lasts
  BY <1>1 DEF Follows, Lasts
<1>3. a \in AwaitsOf("identity") /\ <<"status", what>> \in AwaitsOf("identity")
  BY <1>1 DEF AwaitsOf, Submitting
<1>4. PICK b : b = <<"status", what>>
  OBVIOUS
<1>5. <<a, b>> \in Seq(AwaitsOf("identity")) /\ Len(<<a, b>>) = 2 /\ <<a, b>>[1] = a /\ <<a, b>>[2] = b
  BY <1>3, <1>4
<1>6. TodoOf("identity", <<a, b>>)
  BY <1>2, <1>4, <1>5 DEF TodoOf
<1> QED
  BY <1>1, <1>4, <1>5, <1>6

\* What a registration has to do.
LEMMA TodoOfRegistration ==
    ASSUME NEW r \in Registrations
    PROVE  LET t == << <<"count", "members">>, <<"insert", "member">>, <<"insert", "profile">>,
                       <<"create", "start">>, <<"status", "start">> >> \o Submissions(r)
           IN  t \in Seq(Awaits) /\ TodoOf("identity", t) /\ t[1] = Counting
<1> DEFINE A == AwaitsOf("identity")
           fin == << <<"update", "fin">>, <<"status", "fin">> >>
           qr == << <<"update", "qr">>, <<"status", "qr">> >>
           start == << <<"create", "start">>, <<"status", "start">> >>
           first == << Counting, Inserting, Profiling, <<"create", "start">>, <<"status", "start">> >>
           t == first \o Submissions(r)
<1>1. "fin" \in Asked /\ "qr" \in Asked /\ "start" \in Asked
  BY DEF Asked
<1>2. /\ TodoOf("identity", fin) /\ fin[1] \in Writing /\ fin[Len(fin)] \in Telling
      /\ TodoOf("identity", qr) /\ qr[1] \in Writing /\ qr[Len(qr)] \in Telling
      /\ TodoOf("identity", start) /\ start[1] \in Writing /\ start[Len(start)] \in Telling
  BY <1>1, TodoOfSubmission
<1>3. TodoOf("identity", first) /\ first[1] = Counting /\ first[Len(first)] \in Telling
  <2>1. PICK a, b : a = <<"create", "start">> /\ b = <<"status", "start">>
    OBVIOUS
  <2>2. a \in Writing /\ b \in Telling /\ a[2] = "start"
    BY <1>1, <2>1 DEF Writing, Telling
  <2>3. /\ Follows(Counting, Inserting) /\ Follows(Inserting, Profiling)
        /\ Follows(Profiling, a) /\ Follows(a, b) /\ b \in Lasts
    BY <2>1, <2>2 DEF Follows, Lasts
  <2>4. /\ Counting \in AwaitsOf("identity") /\ Inserting \in AwaitsOf("identity")
        /\ Profiling \in AwaitsOf("identity") /\ a \in AwaitsOf("identity") /\ b \in AwaitsOf("identity")
    BY <2>2 DEF AwaitsOf, Submitting
  <2>5. PICK s : s = << Counting, Inserting, Profiling, a, b >>
    OBVIOUS
  <2>6. /\ s \in Seq(AwaitsOf("identity")) /\ Len(s) = 5
        /\ s[1] = Counting /\ s[2] = Inserting /\ s[3] = Profiling /\ s[4] = a /\ s[5] = b
    BY <2>4, <2>5
  <2>7. \A i \in 1..5 : i < 5 => Follows(s[i], s[i + 1])
    <3> SUFFICES ASSUME NEW i \in 1..5, i < 5 PROVE Follows(s[i], s[i + 1])
      OBVIOUS
    <3>1. i = 1 \/ i = 2 \/ i = 3 \/ i = 4
      OBVIOUS
    <3>2. i = 1 => s[i] = Counting /\ s[i + 1] = Inserting
      BY <2>6
    <3>3. i = 2 => s[i] = Inserting /\ s[i + 1] = Profiling
      BY <2>6
    <3>4. i = 3 => s[i] = Profiling /\ s[i + 1] = a
      BY <2>6
    <3>5. i = 4 => s[i] = a /\ s[i + 1] = b
      BY <2>6
    <3> QED
      BY <2>3, <3>1, <3>2, <3>3, <3>4, <3>5
  <2>8. TodoOf("identity", s)
    BY <2>3, <2>6, <2>7 DEF TodoOf
  <2>9. first = s
    BY <2>1, <2>5
  <2> QED
    BY <2>2, <2>6, <2>8, <2>9
<1> HIDE DEF fin, qr, first
<1>a. \A a \in Telling, b \in Writing : Follows(a, b)
  BY DEF Follows
<1>b. first \in Seq(AwaitsOf("identity"))
  BY <1>3 DEF TodoOf
<1>4. \/ Submissions(r) = << >> \o << >> \/ Submissions(r) = fin \o << >>
      \/ Submissions(r) = << >> \o qr \/ Submissions(r) = fin \o qr
  BY DEF Submissions, fin, qr
<1>5. fin \in Seq(AwaitsOf("identity")) /\ qr \in Seq(AwaitsOf("identity")) /\ << >> \in Seq(AwaitsOf("identity"))
  BY <1>2, EmptySeq DEF TodoOf
<1>6. << >> \o << >> = << >> /\ fin \o << >> = fin /\ << >> \o qr = qr
  BY <1>5, ConcatEmptySeq
<1>7. TodoOf("identity", t) /\ t[1] = Counting
  <2>1. CASE Submissions(r) = << >>
    BY <2>1, <1>3, <1>b, ConcatEmptySeq
  <2>2. CASE Submissions(r) = fin
    <3>1. PICK u : u = first \o fin
      OBVIOUS
    <3>2. Joins(u, first, fin)
      BY <3>1 DEF Joins
    <3>3. PICK a, b : a = first[Len(first)] /\ b = fin[1] /\ Follows(a, b)
      BY <1>2, <1>3, <1>a
    <3>4. TodoOf("identity", u) /\ u[1] = first[1]
      BY <1>2, <1>3, <3>2, <3>3, TodoJoins
    <3> QED
      BY <1>3, <2>2, <3>1, <3>4
  <2>3. CASE Submissions(r) = qr
    <3>1. PICK u : u = first \o qr
      OBVIOUS
    <3>2. Joins(u, first, qr)
      BY <3>1 DEF Joins
    <3>3. PICK a, b : a = first[Len(first)] /\ b = qr[1] /\ Follows(a, b)
      BY <1>2, <1>3, <1>a
    <3>4. TodoOf("identity", u) /\ u[1] = first[1]
      BY <1>2, <1>3, <3>2, <3>3, TodoJoins
    <3> QED
      BY <1>3, <2>3, <3>1, <3>4
  <2>4. CASE Submissions(r) = fin \o qr
    <3>1. PICK u, v : u = fin \o qr /\ v = first \o u
      OBVIOUS
    <3>2. Joins(u, fin, qr) /\ Joins(v, first, u)
      BY <3>1 DEF Joins
    <3>3. PICK a, b : a = fin[Len(fin)] /\ b = qr[1] /\ Follows(a, b)
      BY <1>2, <1>a
    <3>4. TodoOf("identity", u) /\ u[1] = fin[1]
      BY <1>2, <3>2, <3>3, TodoJoins
    <3>5. PICK y, z : y = first[Len(first)] /\ z = u[1] /\ Follows(y, z)
      BY <1>2, <1>3, <1>a, <3>4
    <3>6. TodoOf("identity", v) /\ v[1] = first[1]
      BY <1>3, <3>2, <3>4, <3>5, TodoJoins
    <3> QED
      BY <1>3, <2>4, <3>1, <3>6
  <2> QED
    BY <1>4, <1>6, <2>1, <2>2, <2>3, <2>4
<1>8. t \in Seq(Awaits)
  <2>1. t \in Seq(AwaitsOf("identity")) /\ AwaitsOf("identity") \subseteq Awaits
    BY <1>7, AwaitTypes DEF TodoOf, OnboardKinds
  <2> QED
    BY <2>1
<1> QED
  BY <1>7, <1>8 DEF first, Counting, Inserting, Profiling

LEMMA OnboardRegister ==
    ASSUME OnboardInv, NEW k \in OnboardCalls, NEW r \in Registrations, Register(k, r) PROVE OnboardInv'
<1>1. PICK t : t = << <<"count", "members">>, <<"insert", "member">>, <<"insert", "profile">>,
                      <<"create", "start">>, <<"status", "start">> >> \o Submissions(r)
  OBVIOUS
<1>2. t \in Seq(Awaits) /\ TodoOf("identity", t) /\ t[1] = Counting
  BY <1>1, TodoOfRegistration
<1>3. PICK x : x = [NewCall("identity", t) EXCEPT !.dto = r]
  OBVIOUS
<1>4. /\ x \in OnboardCall /\ x.at = "running" /\ x.kind = "identity" /\ x.todo = t /\ x.who = 0
  <2>1. PICK y : y = NewCall("identity", t)
    OBVIOUS
  <2>2. y \in OnboardCall /\ y.at = "running" /\ y.kind = "identity" /\ y.todo = t /\ y.who = 0
    BY <1>2, <2>1, NewCallType DEF OnboardKinds
  <2>3. x = [y EXCEPT !.dto = r]
    BY <1>3, <2>1
  <2> QED
    BY <2>2, <2>3 DEF OnboardCall
<1>5. Counting \in Unborn /\ Counting \notin {Inserting, Profiling, SavingProfile, SavingMember, SavingRecord} \cup Telling
  BY DEF Counting, Unborn, Inserting, Profiling, SavingProfile, SavingMember, Telling, SavingRecord
<1>6. Shaped(x, Len(members))
  BY <1>2, <1>4, <1>5 DEF Shaped
<1>7. /\ onboardCall[k] = Uncalled /\ onboardCall' = [onboardCall EXCEPT ![k] = x]
      /\ UNCHANGED <<members, profiles, records>> /\ UNCHANGED raced
  BY <1>1, <1>3 DEF Register, OnboardCallArrives
<1> QED
  BY <1>2, <1>4, <1>5, <1>6, <1>7, Arriving

LEMMA OnboardSubmit ==
    ASSUME OnboardInv, NEW k \in OnboardCalls, NEW m \in DOMAIN members, NEW what \in {"start", "fin", "qr"},
           Submit(k, m, what)
    PROVE  OnboardInv'
<1>1. PICK a : a = <<IF what = "start" THEN "create" ELSE "update", what>>
  OBVIOUS
<1>2. PICK t : t = <<a, <<"status", what>> >>
  OBVIOUS
<1>3. /\ what \in Asked /\ a \in {<<"create", what>>, <<"update", what>>}
  BY <1>1 DEF Asked
<1>4. TodoOf("identity", t) /\ a \in Writing /\ t[1] = a
  BY <1>2, <1>3, TodoOfSubmission
<1>5. t \in Seq(Awaits)
  BY <1>4, AwaitTypes DEF TodoOf, OnboardKinds
<1>6. PICK x : x = [NewCall("identity", t) EXCEPT !.who = m]
  OBVIOUS
<1>7. m \in Nat /\ m \in 1..Len(members)
  <2>1. members \in Seq(Member)
    BY DEF OnboardInv, OnboardTypeOK
  <2> QED
    BY <2>1
<1>8. /\ x \in OnboardCall /\ x.at = "running" /\ x.kind = "identity" /\ x.todo = t /\ x.who = m
  <2>1. PICK y : y = NewCall("identity", t)
    OBVIOUS
  <2>2. y \in OnboardCall /\ y.at = "running" /\ y.kind = "identity" /\ y.todo = t
    BY <1>5, <2>1, NewCallType DEF OnboardKinds
  <2>3. x = [y EXCEPT !.who = m]
    BY <1>6, <2>1
  <2> QED
    BY <1>7, <2>2, <2>3 DEF OnboardCall
<1>9. a \notin Unborn /\ a \notin {Inserting, Profiling, SavingProfile, SavingMember, SavingRecord} \cup Telling
  BY <1>4 DEF Writing, Counting, Unborn, Inserting, Profiling, SavingProfile, SavingMember, Telling, SavingRecord
<1>10. Shaped(x, Len(members))
  BY <1>4, <1>7, <1>8, <1>9 DEF Shaped
<1>11. /\ onboardCall[k] = Uncalled /\ onboardCall' = [onboardCall EXCEPT ![k] = x]
       /\ UNCHANGED <<members, profiles, records>> /\ Overlaps(x.who, x.kind)
  BY <1>1, <1>2, <1>6, <1>8 DEF Submit, OnboardCallArrives
<1> QED
  BY <1>4, <1>8, <1>9, <1>10, <1>11, Arriving

LEMMA OnboardVerify ==
    ASSUME OnboardInv, NEW k \in OnboardCalls, NEW m \in DOMAIN members, Verify(k, m) PROVE OnboardInv'
<1>1. PICK b : b = <<"status", "verify">>
  OBVIOUS
<1>2. PICK t : t = <<SavingRecord, b>>
  OBVIOUS
<1>3. PICK i \in DOMAIN records[m] :
          onboardCall' = [onboardCall EXCEPT ![k] =
              [NewCall("identity", t) EXCEPT !.who = m, !.record = i, !.seenRecord = records[m][i]]]
  BY <1>1, <1>2 DEF Verify, SavingRecord
<1>4. /\ m \in 1..Len(members) /\ m \in Nat /\ i \in 1..Len(records[m]) /\ i \in Nat
      /\ records[m][i] \in VerificationStatus
  <2>1. members \in Seq(Member) /\ records[m] \in Seq(VerificationStatus)
    BY DEF OnboardInv, OnboardTypeOK
  <2> QED
    BY <2>1
<1>5. TodoOf("identity", t) /\ t[1] = SavingRecord /\ t \in Seq(Awaits)
  <2>1. b \in Telling /\ Follows(SavingRecord, b) /\ b \in Lasts
    BY <1>1 DEF Telling, Asked, Follows, Lasts
  <2>2. SavingRecord \in AwaitsOf("identity") /\ b \in AwaitsOf("identity")
    BY <2>1 DEF AwaitsOf, Submitting
  <2>3. t \in Seq(AwaitsOf("identity")) /\ Len(t) = 2 /\ t[1] = SavingRecord /\ t[2] = b
    BY <1>2, <2>2
  <2>4. TodoOf("identity", t)
    BY <2>1, <2>3 DEF TodoOf
  <2> QED
    BY <2>3, <2>4, AwaitTypes DEF OnboardKinds
<1>6. PICK x : x = [NewCall("identity", t) EXCEPT !.who = m, !.record = i, !.seenRecord = records[m][i]]
  OBVIOUS
<1>7. /\ x \in OnboardCall /\ x.at = "running" /\ x.kind = "identity" /\ x.todo = t /\ x.who = m
      /\ x.record = i /\ x.seenRecord = records[m][i]
  <2>1. PICK y : y = NewCall("identity", t)
    OBVIOUS
  <2>2. y \in OnboardCall /\ y.at = "running" /\ y.kind = "identity" /\ y.todo = t
    BY <1>5, <2>1, NewCallType DEF OnboardKinds
  <2>3. x = [y EXCEPT !.who = m, !.record = i, !.seenRecord = records[m][i]]
    BY <1>6, <2>1
  <2> QED
    BY <1>4, <2>2, <2>3 DEF OnboardCall
<1>8. SavingRecord \notin Unborn /\ SavingRecord \notin {Inserting, Profiling, SavingProfile, SavingMember} \cup Telling
  BY DEF Counting, Unborn, Inserting, Profiling, SavingProfile, SavingMember, Telling, SavingRecord
<1>9. Shaped(x, Len(members))
  BY <1>4, <1>5, <1>7, <1>8 DEF Shaped
<1>10. /\ onboardCall[k] = Uncalled /\ onboardCall' = [onboardCall EXCEPT ![k] = x]
       /\ UNCHANGED <<members, profiles, records>> /\ Overlaps(x.who, x.kind)
  BY <1>3, <1>6, <1>7 DEF Verify, OnboardCallArrives
<1> QED
  BY <1>4, <1>5, <1>7, <1>8, <1>9, <1>10, Arriving

LEMMA OnboardReview ==
    ASSUME OnboardInv, NEW k \in OnboardCalls, NEW m \in DOMAIN members, NEW to \in SentReviews,
           Review(k, m, to)
    PROVE  OnboardInv'
<1>1. PICK t : t = <<Reading, SavingProfile, SavingMember>>
  OBVIOUS
<1>2. m \in 1..Len(members) /\ m \in Nat /\ profiles[m] \in Profile /\ profiles[m] # NoProfile
  <2>1. members \in Seq(Member) /\ profiles[m] \in Profile \cup {NoProfile}
    BY DEF OnboardInv, OnboardTypeOK
  <2> QED
    BY <2>1 DEF Review
<1>3. TodoOf("review", t) /\ t[1] = Reading /\ t \in Seq(Awaits)
  <2>1. Follows(Reading, SavingProfile) /\ Follows(SavingProfile, SavingMember) /\ SavingMember \in Lasts
    BY DEF Follows, Lasts
  <2>2. /\ t \in Seq(AwaitsOf("review")) /\ Len(t) = 3 /\ t[1] = Reading /\ t[2] = SavingProfile
        /\ t[3] = SavingMember
    BY <1>1, ReviewAwaits
  <2>3. \A i \in 1..3 : i < 3 => Follows(t[i], t[i + 1])
    <3> SUFFICES ASSUME NEW i \in 1..3, i < 3 PROVE Follows(t[i], t[i + 1])
      OBVIOUS
    <3>1. i = 1 \/ i = 2
      OBVIOUS
    <3>2. i = 1 => t[i] = Reading /\ t[i + 1] = SavingProfile
      BY <2>2
    <3>3. i = 2 => t[i] = SavingProfile /\ t[i + 1] = SavingMember
      BY <2>2
    <3> QED
      BY <2>1, <3>1, <3>2, <3>3
  <2>4. TodoOf("review", t)
    BY <2>1, <2>2, <2>3 DEF TodoOf
  <2> QED
    BY <2>2, <2>4, AwaitTypes DEF OnboardKinds
<1>4. PICK x : x = [NewCall("review", t) EXCEPT !.who = m, !.seen = profiles[m], !.to = to]
  OBVIOUS
<1>5. /\ x \in OnboardCall /\ x.at = "running" /\ x.kind = "review" /\ x.todo = t /\ x.who = m
      /\ x.seen = profiles[m]
  <2>1. PICK y : y = NewCall("review", t)
    OBVIOUS
  <2>2. y \in OnboardCall /\ y.at = "running" /\ y.kind = "review" /\ y.todo = t
    BY <1>3, <2>1, NewCallType DEF OnboardKinds
  <2>3. x = [y EXCEPT !.who = m, !.seen = profiles[m], !.to = to]
    BY <1>4, <2>1
  <2>4. to \in ReviewStatus
    BY OnboardConstants
  <2> QED
    BY <1>2, <2>2, <2>3, <2>4 DEF OnboardCall
<1>6. Reading \notin Unborn /\ Reading \notin {Inserting, Profiling, SavingProfile, SavingMember, SavingRecord} \cup Telling
  BY DEF Counting, Unborn, Inserting, Profiling, SavingProfile, SavingMember, Telling, SavingRecord, Reading
<1>7. Shaped(x, Len(members))
  BY <1>2, <1>3, <1>5, <1>6 DEF Shaped
<1>8. /\ onboardCall[k] = Uncalled /\ onboardCall' = [onboardCall EXCEPT ![k] = x]
      /\ UNCHANGED <<members, profiles, records>> /\ Overlaps(x.who, x.kind)
  BY <1>1, <1>4, <1>5 DEF Review, OnboardCallArrives, Reading, SavingProfile, SavingMember
<1> QED
  BY <1>2, <1>3, <1>5, <1>6, <1>7, <1>8, Arriving

\* A call that dies, or all of them.
LEMMA OnboardInvRestart ==
    ASSUME OnboardInv,
           onboardCall' = [k \in OnboardCalls |->
               IF Running(k) THEN [onboardCall[k] EXCEPT !.at = "dead"] ELSE onboardCall[k]],
           UNCHANGED <<members, profiles, records, raced>>
    PROVE  OnboardInv'
<1>1. ASSUME NEW k \in OnboardCalls
      PROVE  /\ onboardCall'[k] \in OnboardCall \cup {Uncalled, Served}
             /\ Dies(onboardCall[k], onboardCall'[k])
  <2>1. PICK c : c = onboardCall[k]
    OBVIOUS
  <2>2. c \in OnboardCall \cup {Uncalled, Served}
    BY <2>1 DEF OnboardInv, OnboardTypeOK
  <2>3. onboardCall'[k] = IF c.at = "running" THEN [c EXCEPT !.at = "dead"] ELSE c
    BY <2>1 DEF Running
  <2>4. CASE c.at = "running"
    <3>1. c \in OnboardCall
      BY <2>2, <2>4 DEF Uncalled, Served
    <3>2. PICK d : d = [c EXCEPT !.at = "dead"]
      OBVIOUS
    <3>3. d \in OnboardCall
      BY <3>1, <3>2 DEF OnboardCall
    <3> QED
      BY <2>1, <2>3, <2>4, <3>2, <3>3 DEF Dies
  <2>5. CASE c.at # "running"
    BY <2>1, <2>2, <2>3, <2>5 DEF Dies
  <2> QED
    BY <2>4, <2>5
<1>2. onboardCall' \in [OnboardCalls -> OnboardCall \cup {Uncalled, Served}]
  BY <1>1
<1> QED
  BY <1>1, <1>2, Dying

LEMMA OnboardRefused ==
    ASSUME OnboardInv, NEW k \in OnboardCalls, RefuseMember(k) \/ OnboardCallThrows(k) PROVE OnboardInv'
<1>1. /\ Running(k) /\ UNCHANGED <<members, profiles, records, raced>>
  BY DEF RefuseMember, OnboardCallThrows
<1>2. PICK c : c = onboardCall[k]
  OBVIOUS
<1>3. c \in OnboardCall /\ c.at = "running" /\ Await(k) = c.todo[1]
  BY <1>1, <1>2, RunningAt
<1>4. PICK d : d = [c EXCEPT !.at = "dead"]
  OBVIOUS
<1>5. d \in OnboardCall
  BY <1>3, <1>4 DEF OnboardCall
<1>6. PICK x : x \in {d, Served} /\ onboardCall' = [onboardCall EXCEPT ![k] = x] /\ Dies(c, x)
  <2>1. CASE RefuseMember(k)
    BY <1>3, <2>1 DEF RefuseMember, Dies, Inserting
  <2>2. CASE OnboardCallThrows(k)
    BY <1>2, <1>3, <1>4, <2>2 DEF OnboardCallThrows, Dies
  <2> QED
    BY <2>1, <2>2
<1>7. onboardCall \in [OnboardCalls -> OnboardCall \cup {Uncalled, Served}]
  BY DEF OnboardInv, OnboardTypeOK
<1>8. onboardCall' \in [OnboardCalls -> OnboardCall \cup {Uncalled, Served}]
  BY <1>5, <1>6, <1>7
<1>9. \A j \in OnboardCalls : Dies(onboardCall[j], onboardCall'[j])
  <2> TAKE j \in OnboardCalls
  <2>1. CASE j = k
    BY <1>2, <1>6, <1>7, <2>1
  <2>2. CASE j # k
    <3>1. onboardCall'[j] = onboardCall[j]
      BY <1>6, <1>7, <2>2
    <3> QED
      BY <3>1 DEF Dies
  <2> QED
    BY <2>1, <2>2
<1> QED
  BY <1>1, <1>8, <1>9, Dying

LEMMA OnboardInvNext ==
    ASSUME OnboardInv, NEW k \in OnboardCalls, NEW about, OnboardNextOf(k, about) PROVE OnboardInv'
<1>1. ASSUME NEW r \in Registrations, Register(k, r) PROVE OnboardInv'
  BY <1>1, OnboardRegister
<1>2. ASSUME NEW m \in DOMAIN members, NEW what \in {"start", "fin", "qr"}, Submit(k, m, what) PROVE OnboardInv'
  BY <1>2, OnboardSubmit
<1>3. ASSUME NEW m \in DOMAIN members, Verify(k, m) PROVE OnboardInv'
  BY <1>3, OnboardVerify
<1>4. ASSUME NEW m \in DOMAIN members, NEW to \in SentReviews, Review(k, m, to) PROVE OnboardInv'
  BY <1>4, OnboardReview
<1>5. CASE OnboardStep(k)
  <2>1. CASE TakeNumber(k) BY <2>1, OnboardTakeNumber
  <2>2. CASE InsertMember(k) BY <2>2, OnboardInsertMember
  <2>3. CASE RefuseMember(k) BY <2>3, OnboardRefused
  <2>4. CASE CreateProfile(k) BY <2>4, OnboardCreateProfile
  <2>5. ASSUME NEW what \in DOMAIN Answer, WriteRecord(k, what) PROVE OnboardInv'
    BY <2>5, OnboardWriteRecord
  <2>6. ASSUME NEW what \in DOMAIN Answer, WriteStatus(k, what) PROVE OnboardInv'
    BY <2>6, OnboardWriteStatus
  <2>7. CASE SaveRecord(k) BY <2>7, OnboardSaveRecord
  <2>8. CASE ReadMember(k) BY <2>8, OnboardReadMember
  <2>9. CASE SaveProfile(k) BY <2>9, OnboardSaveProfile
  <2>10. CASE SaveMember(k) BY <2>10, OnboardSaveMember
  <2> QED
    BY <1>5, <2>1, <2>2, <2>3, <2>4, <2>5, <2>6, <2>7, <2>8, <2>9, <2>10 DEF OnboardStep
<1>6. CASE OnboardCallThrows(k)
  BY <1>6, OnboardRefused
<1> QED
  BY <1>1, <1>2, <1>3, <1>4, <1>5, <1>6 DEF OnboardNextOf
-----------------------------------------------------------------------------
(* Self-service: any number of calls under way at once.                          *)

\* The awaits of a call that has read the member, or the lock, and not the other.
Readings == {"reads_member", "reads_lock"}

(* Which settings a call can be about at each of its awaits.                   *)
CallsAreAbout ==
    \A k \in SelfCalls :
        /\ selfCall[k].at \in {"write", "tell"} => selfCall[k].on = "lock"
        /\ selfCall[k].at = "save" => selfCall[k].on = "autopay"
        /\ selfCall[k].at = "exists" => selfCall[k].on = "atm_card"
        /\ selfCall[k].at = "store" => selfCall[k].on \notin {"lock", "autopay"}
        /\ selfCall[k].at \in Readings => selfCall[k].on # "autopay"

(* A setting on which no two calls were at once has at most one call now.      *)
OneCallEach ==
    \A s \in Settings : s \notin together => \A j, k \in About(s) : j = k

(* What that one call knows still holds: the check that found no open request, *)
(* the value of autopay as read, the lock as written.                          *)
AtmAsChecked ==
    "atm_card" \notin together =>
        /\ \A x, y \in atmRequests : x = y
        /\ \A k \in SelfCalls : selfCall[k].at = "store" /\ selfCall[k].on = "atm_card"
                                   => atmRequests = {}
LockAsWritten ==
    "lock" \notin together =>
        /\ \A k \in SelfCalls : selfCall[k].at = "tell" => accountLock = selfCall[k].to
        /\ \/ lockTold = accountLock
           \/ \E k \in SelfCalls : selfCall[k].at \in {"tell", "dead"} /\ selfCall[k].on = "lock"
AutopayAsRead ==
    "autopay" \notin together =>
        /\ autopay = autopayWord
        /\ \A k \in SelfCalls : selfCall[k].at = "save" => autopay = Word(selfCall[k].seen)

SelfInv == SelfTypeOK /\ CallsAreAbout /\ OneCallEach /\ AtmAsChecked /\ LockAsWritten /\ AutopayAsRead

-----------------------------------------------------------------------------
(* The invariant says more than the property.                                  *)
LEMMA SelfServiceHoldsNow == ASSUME SelfInv PROVE SelfServiceHolds
<1>1. OneOpenAtmRequest
  <2> SUFFICES ASSUME "atm_card" \notin together PROVE Cardinality(atmRequests) <= 1
    BY DEF OneOpenAtmRequest
  <2>1. CASE atmRequests = {}
    BY <2>1, FS_EmptySet
  <2>2. CASE atmRequests # {}
    <3>1. PICK x \in atmRequests : atmRequests = {x}
      BY <2>2 DEF SelfInv, AtmAsChecked
    <3> QED
      BY <3>1, FS_Singleton
  <2> QED
    BY <2>1, <2>2
<1>2. SettingsAreAsTold
  BY DEF SelfInv, LockAsWritten, AutopayAsRead, SettingsAreAsTold
<1> QED
  BY <1>1, <1>2 DEF SelfServiceHolds

LEMMA SelfInvInit == ASSUME SelfInit PROVE SelfInv
<1>1. /\ accountLock = FALSE /\ lockTold = FALSE /\ autopay = "none" /\ autopayWord = "none"
      /\ atmRequests = {} /\ selfRequests = {} /\ together = {}
      /\ selfCall = [k \in SelfCalls |-> Uncalled]
      /\ \A k \in SelfCalls : selfCall[k].at = "idle"
  BY DEF SelfInit, Uncalled
<1>2. SelfTypeOK
  BY <1>1 DEF SelfTypeOK
<1>3. CallsAreAbout /\ OneCallEach
  BY <1>1 DEF CallsAreAbout, OneCallEach, About, SelfRunning, Readings
<1>4. AtmAsChecked /\ LockAsWritten /\ AutopayAsRead
  BY <1>1 DEF AtmAsChecked, LockAsWritten, AutopayAsRead
<1> QED
  BY <1>2, <1>3, <1>4 DEF SelfInv

LEMMA SelfInvStutter == ASSUME SelfInv, UNCHANGED selfVars PROVE SelfInv'
<1> USE DEF SelfInv, selfVars
<1>1. SelfTypeOK' BY DEF SelfTypeOK
<1>2. CallsAreAbout' BY DEF CallsAreAbout
<1>3. OneCallEach' BY DEF OneCallEach, About, SelfRunning
<1>4. AtmAsChecked' /\ LockAsWritten' /\ AutopayAsRead'
  BY DEF AtmAsChecked, LockAsWritten, AutopayAsRead, Word
<1> QED
  BY <1>1, <1>2, <1>3, <1>4

\* The types of the calls, and what becomes of them when one of them changes.
LEMMA SelfCallBy ==
    ASSUME SelfInv, NEW k \in SelfCalls, NEW x \in SelfCall \cup {Uncalled, Served},
           selfCall' = [selfCall EXCEPT ![k] = x]
    PROVE  /\ selfCall' \in [SelfCalls -> SelfCall \cup {Uncalled, Served}]
           /\ \A j \in SelfCalls : selfCall'[j] = IF j = k THEN x ELSE selfCall[j]
  BY DEF SelfInv, SelfTypeOK

\* A call goes from one await to the next, about the same setting: no new call
\* is about it, and all but its own await stays.
LEMMA OneCallEachGoes ==
    ASSUME SelfInv, NEW k \in SelfCalls, NEW x \in SelfCall \cup {Uncalled, Served},
           selfCall' = [selfCall EXCEPT ![k] = x],
           together' = together,
           x.at \notin {"idle", "served", "dead"} => SelfRunning(k) /\ x.on = selfCall[k].on
    PROVE  OneCallEach'
<1>1. \A s \in Settings : About(s)' \subseteq About(s)
  BY SelfCallBy DEF About, SelfRunning
<1> QED
  BY <1>1 DEF SelfInv, OneCallEach

\* A call arrives, about a setting or one of the other requests.
LEMMA SelfInvArrives ==
    ASSUME SelfInv, NEW k \in SelfCalls, SelfCallArrives(k),
           NEW at \in Readings \cup {"save"},
           NEW on \in Settings \cup SelfRequestKinds, NEW to \in BOOLEAN, NEW seen \in BOOLEAN,
           Admitted(k, at, on, to, seen),
           UNCHANGED <<accountLock, lockTold, autopay, autopayWord, atmRequests, selfRequests>>,
           \/ at \in Readings /\ on # "autopay"
           \/ at = "save" /\ on = "autopay" /\ autopay = Word(seen)
    PROVE  SelfInv'
<1> USE DEF Readings
<1> DEFINE x == [at |-> at, on |-> on, to |-> to, seen |-> seen]
<1>1. x \in SelfCall
  BY DEF SelfCall
<1>2. /\ selfCall' \in [SelfCalls -> SelfCall \cup {Uncalled, Served}]
      /\ \A j \in SelfCalls : selfCall'[j] = IF j = k THEN x ELSE selfCall[j]
  BY <1>1, SelfCallBy DEF Admitted
<1>3. selfCall[k].at = "idle" /\ selfCall'[k].at = at /\ selfCall'[k].on = on
  BY <1>2 DEF SelfCallArrives, Uncalled
<1>4. together \subseteq together' /\ together' \subseteq Settings
  BY DEF Admitted, SelfInv, SelfTypeOK
<1>5. SelfTypeOK'
  BY <1>2, <1>4 DEF SelfInv, SelfTypeOK
<1>6. CallsAreAbout'
  BY <1>2 DEF SelfInv, CallsAreAbout, SelfRequestKinds
<1>7. OneCallEach'
  <2> SUFFICES ASSUME NEW s \in Settings, s \notin together'
               PROVE  \A i, j \in About(s)' : i = j
    BY DEF OneCallEach
  <2>1. \A i, j \in About(s) : i = j
    BY <1>4 DEF SelfInv, OneCallEach
  <2>2. About(s)' \subseteq About(s) \cup (IF s = on THEN {k} ELSE {})
    BY <1>2 DEF About, SelfRunning
  <2>3. s = on => About(s) = {}
    BY DEF Admitted
  <2> QED
    BY <2>1, <2>2, <2>3
<1>8. AtmAsChecked'
  BY <1>2, <1>4 DEF SelfInv, AtmAsChecked, SelfRequestKinds
<1>9. LockAsWritten'
  BY <1>2, <1>3, <1>4 DEF SelfInv, LockAsWritten
<1>10. AutopayAsRead'
  BY <1>2, <1>4 DEF SelfInv, AutopayAsRead, Word
<1> QED
  BY <1>5, <1>6, <1>7, <1>8, <1>9, <1>10 DEF SelfInv

LEMMA SelfInvSetAutopay ==
    ASSUME SelfInv, NEW k \in SelfCalls, NEW to \in BOOLEAN, SetAutopay(k, to) PROVE SelfInv'
<1>1. /\ selfCall' \in [SelfCalls -> SelfCall \cup {Uncalled, Served}]
      /\ \A j \in SelfCalls : selfCall'[j] = IF j = k THEN Served ELSE selfCall[j]
      /\ Served.at = "served"
  BY SelfCallBy DEF SetAutopay, Ends, Served
<1>2. together \subseteq together' /\ together' \subseteq Settings
  BY DEF SetAutopay, SelfInv, SelfTypeOK, Settings
<1>3. Word(to) \in {"on", "off"} /\ autopay' = Word(to) /\ autopayWord' = Word(to)
  BY DEF SetAutopay, Word
<1>4. UNCHANGED <<accountLock, lockTold, atmRequests, selfRequests>>
  BY DEF SetAutopay
<1>5. SelfTypeOK'
  BY <1>1, <1>2, <1>3, <1>4 DEF SelfInv, SelfTypeOK
<1>6. CallsAreAbout'
  BY <1>1 DEF SelfInv, CallsAreAbout, Readings
<1>7. OneCallEach'
  BY <1>1, <1>2 DEF SelfInv, OneCallEach, About, SelfRunning
<1>8. AtmAsChecked'
  BY <1>1, <1>2, <1>4 DEF SelfInv, AtmAsChecked
<1>9. LockAsWritten'
  BY <1>1, <1>2, <1>4 DEF SelfInv, LockAsWritten, SetAutopay, SelfCallArrives, Uncalled
<1>10. AutopayAsRead'
  <2>1. CASE About("autopay") = {}
    <3>1. \A j \in SelfCalls : selfCall'[j].at # "save"
      BY <1>1, <2>1 DEF About, SelfRunning, SelfInv, CallsAreAbout
    <3> QED
      BY <3>1, <1>3 DEF AutopayAsRead
  <2>2. CASE About("autopay") # {}
    BY <2>2 DEF SetAutopay, AutopayAsRead
  <2> QED
    BY <2>1, <2>2
<1> QED
  BY <1>5, <1>6, <1>7, <1>8, <1>9, <1>10 DEF SelfInv

\* A call awaits what is not yet read.
LEMMA ReadsAwaited ==
    ASSUME NEW read \in Reads
    PROVE  /\ Awaiting(read) \in Readings /\ Awaiting(Other(read)) \in Readings
           /\ Other(read) \in Reads /\ Other(read) # read
           /\ \A other \in Reads : Awaiting(other) = Awaiting(read) => other = read
           /\ \A other \in Reads : other = read \/ other = Other(read)
  BY DEF Reads, Readings, Awaiting, Other

\* Where a call goes when it has read both.
LEMMA NextAwaits ==
    ASSUME NEW on \in Settings \cup SelfRequestKinds, on # "autopay"
    PROVE  \/ NextAwait(on) = "write" /\ on = "lock"
           \/ NextAwait(on) = "exists" /\ on = "atm_card"
           \/ NextAwait(on) = "store" /\ on \in SelfRequestKinds
<1>1. CASE on = "lock"
  BY <1>1 DEF NextAwait, SelfRequestKinds
<1>2. CASE on = "atm_card"
  BY <1>2 DEF NextAwait, SelfRequestKinds
<1>3. CASE on \in SelfRequestKinds
  BY <1>3 DEF NextAwait, SelfRequestKinds
<1> QED
  BY <1>1, <1>2, <1>3 DEF Settings

LEMMA SelfInvSecondRead == ASSUME SelfInv, NEW k \in SelfCalls, SecondRead(k) PROVE SelfInv'
<1> USE DEF SelfInv
<1>1. PICK read \in Reads :
          /\ selfCall[k].at = Awaiting(read)
          /\ IF PassesFor(read, selfCall[k].on, selfCall[k].to)
             THEN selfCall' = [selfCall EXCEPT ![k].at = NextAwait(selfCall[k].on)]
             ELSE Ends(k)
  BY DEF SecondRead
<1>2. selfCall[k].at \in Readings
  BY <1>1, ReadsAwaited
<1>3. selfCall[k] \in SelfCall
  BY <1>2 DEF SelfTypeOK, Readings, Uncalled, Served
<1>4. PICK at : at = NextAwait(selfCall[k].on)
  OBVIOUS
<1>5. /\ selfCall[k].on \in Settings \cup SelfRequestKinds /\ selfCall[k].on # "autopay"
      /\ SelfRunning(k)
  BY <1>2, <1>3 DEF SelfCall, CallsAreAbout, SelfRunning, Readings
<1>6. \/ at = "write" /\ selfCall[k].on = "lock"
      \/ at = "exists" /\ selfCall[k].on = "atm_card"
      \/ at = "store" /\ selfCall[k].on \in SelfRequestKinds
  BY <1>4, <1>5, NextAwaits
<1>7. PICK x \in SelfCall \cup {Uncalled, Served} :
          /\ selfCall' = [selfCall EXCEPT ![k] = x]
          /\ x.at = "served" \/ (x.at = at /\ x.on = selfCall[k].on)
  <2>1. [selfCall[k] EXCEPT !.at = at] \in SelfCall
    BY <1>3, <1>6 DEF SelfCall
  <2>2. CASE selfCall' = [selfCall EXCEPT ![k].at = at]
    <3>1. PICK x : x = [selfCall[k] EXCEPT !.at = at]
      OBVIOUS
    <3>2. x \in SelfCall /\ x.at = at /\ x.on = selfCall[k].on /\ selfCall' = [selfCall EXCEPT ![k] = x]
      BY <1>3, <2>1, <2>2, <3>1 DEF SelfCall
    <3> QED
      BY <3>2
  <2>3. CASE Ends(k)
    <3>1. PICK x : x = Served
      OBVIOUS
    <3>2. x \in SelfCall \cup {Uncalled, Served} /\ selfCall' = [selfCall EXCEPT ![k] = x]
      BY <2>3, <3>1 DEF Ends
    <3>3. x.at = "served"
      BY <3>1 DEF Served
    <3> QED
      BY <3>2, <3>3
  <2> QED
    BY <1>1, <1>4, <2>2, <2>3
<1>8. /\ selfCall' \in [SelfCalls -> SelfCall \cup {Uncalled, Served}]
      /\ \A j \in SelfCalls : selfCall'[j] = IF j = k THEN x ELSE selfCall[j]
  BY <1>7, SelfCallBy
<1>9. UNCHANGED <<accountLock, lockTold, autopay, autopayWord, atmRequests, selfRequests, together>>
  BY DEF SecondRead
<1>10. SelfTypeOK'
  BY <1>8, <1>9 DEF SelfTypeOK
<1>11. OneCallEach'
  BY <1>5, <1>7, <1>9, OneCallEachGoes
<1>12. CallsAreAbout'
  <2>1. /\ x.at \in {"write", "tell"} => x.on = "lock"
        /\ x.at = "save" => x.on = "autopay"
        /\ x.at = "exists" => x.on = "atm_card"
        /\ x.at = "store" => x.on \notin {"lock", "autopay"}
        /\ x.at \in Readings => x.on # "autopay"
    BY <1>6, <1>7 DEF SelfRequestKinds, Readings
  <2> QED
    BY <1>8, <2>1 DEF CallsAreAbout
<1>13. x.at \notin {"tell", "save", "dead"} /\ ~(x.at = "store" /\ x.on = "atm_card")
  BY <1>6, <1>7 DEF SelfRequestKinds
<1>14. AtmAsChecked' /\ AutopayAsRead'
  BY <1>8, <1>9, <1>13 DEF AtmAsChecked, AutopayAsRead, Word
<1>15. LockAsWritten'
  BY <1>2, <1>8, <1>9, <1>13 DEF LockAsWritten, Readings
<1> QED
  BY <1>10, <1>11, <1>12, <1>14, <1>15

LEMMA SelfInvSteps ==
    ASSUME SelfInv, NEW k \in SelfCalls, SelfStep(k) \/ SelfCallThrows(k), ~SecondRead(k) PROVE SelfInv'
<1> USE DEF SelfInv, Readings
<1>0. selfCall[k] \in SelfCall
  BY DEF SelfTypeOK, SelfStep, WriteAccountLock, TellAccountLock, SaveAutopay, CheckAtmRequests,
     StoreSelfRequest, SelfCallThrows, SelfRunning, Uncalled, Served
<1>1. Served.at = "served" /\ Served \in SelfCall \cup {Uncalled, Served}
  BY DEF Served
<1>2. CASE WriteAccountLock(k)
  <2> DEFINE x == [selfCall[k] EXCEPT !.at = "tell"]
  <2>1. /\ x \in SelfCall /\ selfCall' = [selfCall EXCEPT ![k] = x] /\ x.at = "tell"
        /\ x.on = "lock" /\ x.to = selfCall[k].to /\ selfCall[k].on = "lock" /\ SelfRunning(k)
    BY <1>0, <1>2 DEF WriteAccountLock, SelfCall, CallsAreAbout, SelfRunning
  <2>2. /\ selfCall' \in [SelfCalls -> SelfCall \cup {Uncalled, Served}]
        /\ \A j \in SelfCalls : selfCall'[j] = IF j = k THEN x ELSE selfCall[j]
    BY <2>1, SelfCallBy
  <2>3. /\ accountLock' = x.to /\ x.to \in BOOLEAN
        /\ UNCHANGED <<lockTold, autopay, autopayWord, atmRequests, selfRequests, together>>
    BY <1>0, <1>2, <2>1 DEF WriteAccountLock, SelfCall
  <2>4. SelfTypeOK'
    BY <2>2, <2>3 DEF SelfTypeOK
  <2>5. CallsAreAbout' /\ OneCallEach'
    BY <2>1, <2>2, <2>3, OneCallEachGoes DEF CallsAreAbout
  <2>6. AtmAsChecked' /\ AutopayAsRead'
    BY <2>1, <2>2, <2>3 DEF AtmAsChecked, AutopayAsRead, Word
  <2>7. ASSUME "lock" \notin together, NEW j \in SelfCalls, selfCall[j].at = "tell" PROVE j = k
    BY <2>1, <2>7 DEF OneCallEach, About, CallsAreAbout, SelfRunning, Settings
  <2>8. LockAsWritten'
    BY <2>1, <2>2, <2>3, <2>7 DEF LockAsWritten
  <2> QED
    BY <2>4, <2>5, <2>6, <2>8
<1>3. CASE TellAccountLock(k)
  <2>1. /\ selfCall' \in [SelfCalls -> SelfCall \cup {Uncalled, Served}]
        /\ \A j \in SelfCalls : selfCall'[j] = IF j = k THEN Served ELSE selfCall[j]
        /\ UNCHANGED <<accountLock, autopay, autopayWord, atmRequests, selfRequests, together>>
        /\ lockTold' = selfCall[k].to /\ selfCall[k].to \in BOOLEAN
        /\ selfCall[k].at = "tell"
    BY <1>0, <1>1, <1>3, SelfCallBy DEF TellAccountLock, Ends, SelfCall
  <2>2. SelfTypeOK'
    BY <2>1 DEF SelfTypeOK
  <2>3. CallsAreAbout' /\ OneCallEach'
    BY <1>1, <1>3, <2>1, OneCallEachGoes DEF CallsAreAbout, TellAccountLock, Ends
  <2>4. AtmAsChecked' /\ AutopayAsRead'
    BY <1>1, <2>1 DEF AtmAsChecked, AutopayAsRead, Word
  <2>5. LockAsWritten'
    BY <1>1, <2>1 DEF LockAsWritten
  <2> QED
    BY <2>2, <2>3, <2>4, <2>5
<1>4. CASE SaveAutopay(k)
  <2> DEFINE c == selfCall[k]
  <2>1. /\ selfCall' \in [SelfCalls -> SelfCall \cup {Uncalled, Served}]
        /\ \A j \in SelfCalls : selfCall'[j] = IF j = k THEN Served ELSE selfCall[j]
        /\ UNCHANGED <<accountLock, lockTold, atmRequests, selfRequests, together>>
        /\ autopay' = (IF c.seen = c.to THEN autopay ELSE Word(c.to))
        /\ autopayWord' = Word(c.to) /\ c.to \in BOOLEAN /\ c.seen \in BOOLEAN
        /\ c.at = "save"
    BY <1>0, <1>1, <1>4, SelfCallBy DEF SaveAutopay, Ends, SelfCall
  <2>2. SelfTypeOK'
    BY <2>1 DEF SelfTypeOK, Word
  <2>3. CallsAreAbout' /\ OneCallEach'
    BY <1>1, <1>4, <2>1, OneCallEachGoes DEF CallsAreAbout, SaveAutopay, Ends
  <2>4. AtmAsChecked' /\ LockAsWritten'
    BY <1>1, <2>1 DEF AtmAsChecked, LockAsWritten
  <2>5. ASSUME "autopay" \notin together, NEW j \in SelfCalls, selfCall[j].at = "save" PROVE j = k
    BY <2>1, <2>5 DEF OneCallEach, About, CallsAreAbout, SelfRunning, Settings
  <2>6. "autopay" \notin together => autopay = Word(c.seen)
    BY <2>1 DEF AutopayAsRead
  <2>7. "autopay" \notin together => autopay' = autopayWord'
    BY <2>1, <2>6
  <2>8. AutopayAsRead'
    BY <1>1, <2>1, <2>5, <2>7 DEF AutopayAsRead
  <2> QED
    BY <2>2, <2>3, <2>4, <2>8
<1>5. CASE CheckAtmRequests(k)
  <2> DEFINE x == IF AtmRequestOpen THEN Served ELSE [selfCall[k] EXCEPT !.at = "store"]
  <2>1. /\ selfCall[k].on = "atm_card" /\ SelfRunning(k)
        /\ x \in SelfCall \cup {Uncalled, Served} /\ selfCall' = [selfCall EXCEPT ![k] = x]
        /\ x.at # "served" => x.at = "store" /\ x.on = "atm_card" /\ atmRequests = {}
        /\ x.at \in {"served", "store"}
    BY <1>0, <1>1, <1>5 DEF CheckAtmRequests, Ends, SelfCall, CallsAreAbout, SelfRunning, AtmRequestOpen
  <2> HIDE DEF x
  <2>2. /\ selfCall' \in [SelfCalls -> SelfCall \cup {Uncalled, Served}]
        /\ \A j \in SelfCalls : selfCall'[j] = IF j = k THEN x ELSE selfCall[j]
    BY <2>1, SelfCallBy
  <2>3. UNCHANGED <<accountLock, lockTold, autopay, autopayWord, atmRequests, selfRequests, together>>
    BY <1>5 DEF CheckAtmRequests
  <2>4. SelfTypeOK'
    BY <2>2, <2>3 DEF SelfTypeOK
  <2>5. OneCallEach'
    BY <2>1, <2>3, OneCallEachGoes
  <2>6. CallsAreAbout' /\ AtmAsChecked' /\ AutopayAsRead'
    BY <2>1, <2>2, <2>3 DEF CallsAreAbout, AtmAsChecked, AutopayAsRead, Word
  <2>7. LockAsWritten'
    BY <2>1, <2>2, <2>3 DEF LockAsWritten
  <2> QED
    BY <2>4, <2>5, <2>6, <2>7
<1>6. CASE StoreSelfRequest(k)
  <2>1. /\ selfCall' \in [SelfCalls -> SelfCall \cup {Uncalled, Served}]
        /\ \A j \in SelfCalls : selfCall'[j] = IF j = k THEN Served ELSE selfCall[j]
        /\ UNCHANGED <<accountLock, lockTold, autopay, autopayWord, together>>
        /\ selfCall[k].at = "store" /\ selfCall[k].on \in Settings \cup SelfRequestKinds
        /\ selfCall[k].on \notin {"lock", "autopay"}
    BY <1>0, <1>1, <1>6, SelfCallBy DEF StoreSelfRequest, Ends, SelfCall, CallsAreAbout
  <2>2. \/ selfCall[k].on = "atm_card" /\ atmRequests' = atmRequests \cup {k} /\ UNCHANGED selfRequests
        \/ /\ selfCall[k].on \in SelfRequestKinds /\ UNCHANGED atmRequests
           /\ selfRequests' = selfRequests \cup {<<selfCall[k].on, k>>}
    BY <1>6, <2>1 DEF StoreSelfRequest, Settings
  <2>3. SelfTypeOK'
    BY <2>1, <2>2 DEF SelfTypeOK
  <2>4. CallsAreAbout' /\ OneCallEach'
    BY <1>1, <1>6, <2>1, OneCallEachGoes DEF CallsAreAbout, StoreSelfRequest, Ends
  <2>5. AutopayAsRead' /\ LockAsWritten'
    BY <1>1, <2>1 DEF LockAsWritten, AutopayAsRead, Word
  <2>6. AtmAsChecked'
    <3>1. CASE selfCall[k].on = "atm_card" /\ atmRequests' = atmRequests \cup {k}
      <4>1. ASSUME "atm_card" \notin together, NEW j \in SelfCalls, selfCall[j].at = "store",
                   selfCall[j].on = "atm_card"
            PROVE  j = k
        BY <2>1, <3>1, <4>1 DEF OneCallEach, About, SelfRunning, Settings
      <4> QED
        BY <1>1, <2>1, <3>1, <4>1 DEF AtmAsChecked
    <3>2. CASE atmRequests' = atmRequests
      BY <1>1, <2>1, <3>2 DEF AtmAsChecked
    <3> QED
      BY <2>2, <3>1, <3>2
  <2> QED
    BY <2>3, <2>4, <2>5, <2>6
<1>7. CASE SelfCallThrows(k)
  <2> DEFINE x == [selfCall[k] EXCEPT !.at = "dead"]
  <2>1. /\ x \in SelfCall /\ selfCall' = [selfCall EXCEPT ![k] = x] /\ x.at = "dead"
        /\ x.on = selfCall[k].on /\ SelfRunning(k)
    BY <1>0, <1>7 DEF SelfCallThrows, SelfCall
  <2>2. /\ selfCall' \in [SelfCalls -> SelfCall \cup {Uncalled, Served}]
        /\ \A j \in SelfCalls : selfCall'[j] = IF j = k THEN x ELSE selfCall[j]
    BY <2>1, SelfCallBy
  <2>3. UNCHANGED <<accountLock, lockTold, autopay, autopayWord, atmRequests, selfRequests, together>>
    BY <1>7 DEF SelfCallThrows
  <2>4. SelfTypeOK'
    BY <2>2, <2>3 DEF SelfTypeOK
  <2>5. CallsAreAbout' /\ OneCallEach'
    BY <2>1, <2>2, <2>3, OneCallEachGoes DEF CallsAreAbout
  <2>6. AtmAsChecked' /\ AutopayAsRead' /\ LockAsWritten'
    BY <2>1, <2>2, <2>3 DEF AtmAsChecked, AutopayAsRead, LockAsWritten, Word
  <2> QED
    BY <2>4, <2>5, <2>6
<1> QED
  BY <1>2, <1>3, <1>4, <1>5, <1>6, <1>7 DEF SelfStep

LEMMA SelfInvNext == ASSUME SelfInv, NEW k \in SelfCalls, NEW about, SelfNextOf(k, about) PROVE SelfInv'
<1>1. ASSUME NEW on \in Settings \cup SelfRequestKinds, on # "autopay", NEW to \in BOOLEAN,
             NEW first \in Reads, FirstRead(k, on, to, first)
      PROVE  SelfInv'
  <2>1. PICK at : at = Awaiting(Other(first))
    OBVIOUS
  <2>2. at \in Readings
    BY <2>1, ReadsAwaited
  <2>3. /\ SelfCallArrives(k) /\ Admitted(k, at, on, to, to)
        /\ UNCHANGED <<accountLock, lockTold, autopay, autopayWord, atmRequests, selfRequests>>
    BY <1>1, <2>1 DEF FirstRead
  <2> QED
    BY <1>1, <2>2, <2>3, SelfInvArrives
<1>2. ASSUME NEW to \in BOOLEAN, ReadAutopay(k, to) PROVE SelfInv'
  <2> DEFINE seen == autopay = "on"
  <2>1. /\ SelfCallArrives(k) /\ Admitted(k, "save", "autopay", to, seen)
        /\ UNCHANGED <<accountLock, lockTold, autopay, autopayWord, atmRequests, selfRequests>>
        /\ seen \in BOOLEAN
    BY <1>2 DEF ReadAutopay
  <2>2. autopay = Word(seen)
    BY <1>2 DEF ReadAutopay, Word, SelfInv, SelfTypeOK
  <2> QED
    BY <2>1, <2>2, SelfInvArrives DEF Settings
<1>3. ASSUME NEW to \in BOOLEAN, NEW first \in Reads, SwitchAccountLock(k, to, first) PROVE SelfInv'
  BY <1>1, <1>3 DEF SwitchAccountLock, Settings
<1>4. ASSUME NEW first \in Reads, AskForAtmCard(k, first) PROVE SelfInv'
  BY <1>1, <1>4 DEF AskForAtmCard, Settings
<1>5. ASSUME NEW kind \in SelfRequestKinds, NEW first \in Reads, AskFor(k, kind, first) PROVE SelfInv'
  BY <1>1, <1>5 DEF AskFor, SelfRequestKinds
<1>6. CASE SelfStep(k) \/ SelfCallThrows(k)
  BY <1>6, SelfInvSecondRead, SelfInvSteps
<1> QED
  BY <1>2, <1>3, <1>4, <1>5, <1>6, SelfInvSetAutopay DEF SelfNextOf

\* A restart leaves calls that are served, dead or not sent.
LEMMA SelfInvRestart ==
    ASSUME SelfInv,
           selfCall' = [k \in SelfCalls |->
               IF SelfRunning(k) THEN [selfCall[k] EXCEPT !.at = "dead"] ELSE selfCall[k]],
           UNCHANGED <<accountLock, lockTold, autopay, autopayWord, atmRequests, selfRequests, together>>
    PROVE  SelfInv'
<1> USE DEF SelfInv
<1>1. \A k \in SelfCalls :
         /\ SelfRunning(k) => selfCall[k] \in SelfCall /\ selfCall'[k] = [selfCall[k] EXCEPT !.at = "dead"]
         /\ ~SelfRunning(k) => selfCall'[k] = selfCall[k]
  BY DEF SelfTypeOK, SelfRunning, Uncalled, Served
<1>2. \A k \in SelfCalls :
         /\ selfCall'[k].at \in {"idle", "served", "dead"}
         /\ SelfRunning(k) => /\ selfCall'[k] \in SelfCall /\ selfCall'[k].at = "dead"
                              /\ selfCall'[k].on = selfCall[k].on
  BY <1>1 DEF SelfCall, SelfRunning
<1>3. selfCall' \in [SelfCalls -> SelfCall \cup {Uncalled, Served}]
  BY <1>1, <1>2 DEF SelfTypeOK
<1>4. SelfTypeOK'
  BY <1>3 DEF SelfTypeOK
<1>5. CallsAreAbout' /\ AtmAsChecked' /\ AutopayAsRead'
  BY <1>2 DEF CallsAreAbout, AtmAsChecked, AutopayAsRead, Readings
<1>6. OneCallEach'
  BY <1>2 DEF OneCallEach, About, SelfRunning
<1>7. LockAsWritten'
  BY <1>1, <1>2 DEF LockAsWritten, SelfRunning
<1> QED
  BY <1>4, <1>5, <1>6, <1>7

-----------------------------------------------------------------------------
(* Payments: any accounts, any number of payments in flight and of failures.  The *)
(* school's books take no part in what is proved here.                           *)

\* The phases of a payment whose debit has landed.
Landed == Phases \ {"reads_member", "reads_lock", "admitted"}

\* The order RecordsInOrder asks for, of the records w of a payment of a kind.
InOrder(w, kind) ==
    /\ w # {} => "transaction" \in w
    /\ "receipt" \in w => "school_payment" \in w
    /\ "notification" \in w /\ kind = "school" => "school_payment" \in w
    /\ "audit" \in w => "notification" \in w

\* What the records w of a payment hold by the phase it is in.
Reached(phase, w) ==
    /\ phase # "debited" => "transaction" \in w
    /\ phase \in {"stored", "collected"} => "school_payment" \in w
    /\ phase = "notified" => "notification" \in w

(* The inductive invariant: a payment past its debit knows which debit is its   *)
(* own, and its phase tells which of its records are there.                     *)
Paid(q) ==
    q.phase \in Landed =>
        /\ q.number \in 1..Len(debits) /\ debits[q.number] = q.order
        /\ Reached(q.phase, rows[q.number])

RowsInv ==
    /\ PaymentTypeOK
    /\ Len(rows) = Len(debits)
    /\ \A r \in Requests : Paid(reqs[r])
    /\ \A n \in 1..Len(debits) : InOrder(rows[n], debits[n].kind)

-----------------------------------------------------------------------------
\* The invariant says more than RecordsInOrder.
LEMMA RecordsInOrderHolds == ASSUME RowsInv PROVE RecordsInOrder
  BY DEF RowsInv, RecordsInOrder, InOrder

LEMMA IdleIsNotLanded == /\ Idle.phase \notin Landed /\ Idle \notin Request
                         /\ "admitted" \notin Landed /\ Landed \subseteq Phases
                         /\ \A at \in Readings : at \in Phases /\ at \notin Landed
  BY DEF Idle, Landed, Phases, Request, Readings

\* What becomes of a payment when one of its two reads comes back.
LEMMA PaymentReads ==
    ASSUME RowsInv, NEW r \in Requests,
           \/ \E order \in Order, first \in Reads : FirstPaymentRead(r, order, first)
           \/ SecondPaymentRead(r)
    PROVE  \E x \in Request \cup {Idle} :
              /\ x.phase \notin Landed /\ reqs' = [reqs EXCEPT ![r] = x]
              /\ UNCHANGED <<money, refs, rows, now, failures, books>>
<1>1. ASSUME NEW order \in Order, NEW first \in Reads, FirstPaymentRead(r, order, first)
      PROVE  \E x \in Request \cup {Idle} :
                /\ x.phase \notin Landed /\ reqs' = [reqs EXCEPT ![r] = x]
                /\ UNCHANGED <<money, refs, rows, now, failures, books>>
  <2>1. PICK at : at = Awaiting(Other(first))
    OBVIOUS
  <2>2. at \in Phases /\ at \notin Landed
    BY <2>1, ReadsAwaited, IdleIsNotLanded
  <2>3. PICK x : x = [phase |-> at, order |-> order, number |-> 0,
                      ref |-> <<Prefix[order.kind], now>>]
    OBVIOUS
  <2>4. <<Prefix[order.kind], now>> \in Reference
    BY DEF Order, Reference, RowsInv, PaymentTypeOK
  <2>5. x \in Request /\ x.phase \notin Landed
    BY <2>2, <2>3, <2>4 DEF Request
  <2>6. reqs' = [reqs EXCEPT ![r] = x] /\ UNCHANGED <<money, refs, rows, now, failures, books>>
    BY <1>1, <2>1, <2>3 DEF FirstPaymentRead
  <2> QED
    BY <2>5, <2>6
<1>2. CASE SecondPaymentRead(r)
  <2>1. PICK read \in Reads :
            /\ reqs[r].phase = Awaiting(read)
            /\ reqs' = [reqs EXCEPT ![r] = IF Passes(read, TRUE, TRUE)
                                           THEN [@ EXCEPT !.phase = "admitted"] ELSE Idle]
    BY <1>2 DEF SecondPaymentRead
  <2>2. reqs[r] \in Request
    <3>1. reqs[r].phase \in Readings /\ Idle.phase \notin Readings
      BY <2>1, ReadsAwaited DEF Idle, Readings
    <3>2. reqs[r] \in Request \cup {Idle}
      BY DEF RowsInv, PaymentTypeOK
    <3> QED
      BY <3>1, <3>2
  <2>3. PICK x : x = IF Passes(read, TRUE, TRUE) THEN [reqs[r] EXCEPT !.phase = "admitted"] ELSE Idle
    OBVIOUS
  <2>4. x \in Request \cup {Idle} /\ x.phase \notin Landed
    BY <2>2, <2>3, IdleIsNotLanded DEF Request, Phases
  <2>5. reqs' = [reqs EXCEPT ![r] = x] /\ UNCHANGED <<money, refs, rows, now, failures, books>>
    BY <1>2, <2>1, <2>3 DEF SecondPaymentRead
  <2> QED
    BY <2>4, <2>5
<1> QED
  BY <1>1, <1>2

LEMMA RowsInvInit == ASSUME PaymentInit PROVE RowsInv
<1>1. /\ balance \in [Accounts -> Nat] /\ refs = {} /\ debits = << >> /\ rows = << >>
      /\ now = 0 /\ failures = 0
      /\ \A r \in Requests : reqs[r] = Idle
      /\ reqs \in [Requests -> Request \cup {Idle}]
  BY PaymentConstants DEF PaymentInit
<1>2. PaymentTypeOK
  BY <1>1 DEF PaymentTypeOK
<1>3. \A r \in Requests : Paid(reqs[r])
  BY <1>1, IdleIsNotLanded DEF Paid
<1>4. Len(rows) = 0 /\ Len(debits) = 0
  BY <1>1
<1> QED
  BY <1>2, <1>3, <1>4 DEF RowsInv

LEMMA RowsInvStutter == ASSUME RowsInv, UNCHANGED paymentVars PROVE RowsInv'
  BY DEF RowsInv, PaymentTypeOK, Paid, paymentVars, money

\* Payments are admitted, end or die, and nothing is written.
LEMMA PaymentsUnwritten ==
    ASSUME RowsInv, UNCHANGED <<money, refs, rows>>, now' \in Nat, failures' \in Nat,
           reqs' \in [Requests -> Request \cup {Idle}],
           \A r \in Requests : reqs'[r] = reqs[r] \/ reqs'[r].phase \notin Landed
    PROVE  RowsInv'
<1>1. /\ balance' = balance /\ debits' = debits /\ refs' = refs /\ rows' = rows
  BY DEF money
<1>2. PaymentTypeOK'
  BY <1>1 DEF RowsInv, PaymentTypeOK
<1>3. ASSUME NEW r \in Requests PROVE Paid(reqs[r])'
  BY <1>1 DEF RowsInv, Paid
<1> QED
  BY <1>1, <1>2, <1>3 DEF RowsInv

\* A record of the n-th debit is written, or nothing, by a payment that becomes x.
LEMMA PaymentWrites ==
    ASSUME RowsInv, NEW r \in Requests, NEW n \in 1..Len(debits), NEW w \in SUBSET Rows,
           rows[n] \subseteq w, InOrder(w, debits[n].kind),
           rows' = [rows EXCEPT ![n] = w],
           NEW x \in Request \cup {Idle},
           x.phase \in Landed => x.number = n /\ x.order = debits[n] /\ Reached(x.phase, w),
           reqs' = [reqs EXCEPT ![r] = x],
           UNCHANGED <<money, now, failures>>, refs' \subseteq Reference
    PROVE  RowsInv'
<1>1. /\ balance' = balance /\ debits' = debits /\ now' = now /\ failures' = failures
  BY DEF money
<1>2. /\ reqs' \in [Requests -> Request \cup {Idle}] /\ reqs'[r] = x
      /\ \A s \in Requests : s # r => reqs'[s] = reqs[s]
  BY DEF RowsInv, PaymentTypeOK
<1>3. /\ rows' \in Seq(SUBSET Rows) /\ Len(rows') = Len(debits) /\ rows'[n] = w
      /\ \A m \in 1..Len(debits) : m # n => rows'[m] = rows[m]
  <2>1. rows \in Seq(SUBSET Rows) /\ Len(rows) = Len(debits) /\ n \in 1..Len(rows)
    BY DEF RowsInv, PaymentTypeOK
  <2> QED
    BY <2>1, ExceptSeq
<1>4. PaymentTypeOK'
  BY <1>1, <1>2, <1>3 DEF RowsInv, PaymentTypeOK
<1>5. ASSUME NEW m \in 1..Len(debits) PROVE rows[m] \subseteq rows'[m] /\ InOrder(rows'[m], debits[m].kind)
  <2>1. CASE m = n
    BY <1>3, <2>1
  <2>2. CASE m # n
    BY <1>3, <2>2 DEF RowsInv
  <2> QED
    BY <2>1, <2>2
<1>6. ASSUME NEW s \in Requests PROVE Paid(reqs[s])'
  <2>1. CASE s = r
    BY <1>1, <1>2, <1>3, <2>1 DEF Paid
  <2>2. CASE s # r
    <3>1. PICK q : q = reqs[s]
      OBVIOUS
    <3>2. q = reqs'[s] /\ Paid(q)
      BY <1>2, <2>2, <3>1 DEF RowsInv
    <3>3. ASSUME q.phase \in Landed
          PROVE  /\ q.number \in 1..Len(debits) /\ debits[q.number] = q.order
                 /\ Reached(q.phase, rows'[q.number])
      <4>1. /\ q.number \in 1..Len(debits) /\ debits[q.number] = q.order
            /\ Reached(q.phase, rows[q.number])
        BY <3>2, <3>3 DEF Paid
      <4>2. rows[q.number] \subseteq rows'[q.number]
        BY <1>5, <4>1
      <4> QED
        BY <4>1, <4>2 DEF Reached
    <3> QED
      BY <1>1, <3>2, <3>3 DEF Paid
  <2> QED
    BY <2>1, <2>2
<1> QED
  BY <1>1, <1>3, <1>4, <1>5, <1>6 DEF RowsInv

-----------------------------------------------------------------------------
LEMMA PaymentDebit == ASSUME RowsInv, NEW r \in Requests, Debit(r) PROVE RowsInv'
<1>1. PICK q : q = reqs[r] /\ q \in Request /\ q.phase = "admitted"
  BY IdleIsNotLanded DEF Debit, RowsInv, PaymentTypeOK, Idle
<1>2. PICK o : o = q.order /\ o \in Order
  BY <1>1 DEF Request
<1>3. o.account \in Accounts /\ o.amount \in Nat /\ o.kind \in Kinds
  BY <1>2, PaymentConstants DEF Order
<1>4. PICK l \in Nat : l = Len(debits) /\ l = Len(rows)
  BY DEF RowsInv, PaymentTypeOK
<1>5. PICK x : x = [q EXCEPT !.phase = "debited", !.number = l + 1, !.ref = <<Prefix[o.kind], now>>]
  OBVIOUS
<1>6. /\ balance[o.account] >= o.amount
      /\ balance' = [balance EXCEPT ![o.account] = @ - o.amount]
      /\ debits' = Append(debits, o) /\ rows' = Append(rows, {})
      /\ reqs' = [reqs EXCEPT ![r] = x]
      /\ refs' = refs /\ now' = now /\ failures' = failures
  BY <1>1, <1>2, <1>4, <1>5 DEF Debit
<1>7. /\ x \in Request /\ x.phase = "debited" /\ x.number = l + 1 /\ x.order = o
  <2>1. <<Prefix[o.kind], now>> \in Reference
    BY <1>3 DEF RowsInv, PaymentTypeOK, Reference
  <2>2. PICK ref \in Reference, number \in Nat : ref = <<Prefix[o.kind], now>> /\ number = l + 1
    BY <2>1
  <2>3. x = [q EXCEPT !.phase = "debited", !.number = number, !.ref = ref]
    BY <1>5, <2>2
  <2>4. /\ x \in Request /\ x.phase = "debited" /\ x.number = number /\ x.order = q.order
    BY <1>1, <2>3 DEF Request, Phases
  <2> QED
    BY <1>2, <2>2, <2>4
<1>8. balance' \in [Accounts -> Nat]
  <2>1. balance \in [Accounts -> Nat] /\ balance[o.account] \in Nat
    BY <1>3 DEF RowsInv, PaymentTypeOK
  <2>2. balance[o.account] - o.amount \in Nat
    BY <1>3, <1>6, <2>1
  <2> QED
    BY <1>3, <1>6, <2>1, <2>2
<1>9. /\ debits' \in Seq(Order) /\ Len(debits') = l + 1 /\ debits'[l + 1] = o
      /\ \A n \in 1..l : debits'[n] = debits[n]
  <2>1. debits \in Seq(Order)
    BY DEF RowsInv, PaymentTypeOK
  <2>2. o \in Order /\ debits' = Append(debits, o)
    BY <1>2, <1>6
  <2>3. /\ debits' \in Seq(Order) /\ Len(debits') = Len(debits) + 1 /\ debits'[Len(debits) + 1] = o
        /\ \A n \in 1..Len(debits) : debits'[n] = debits[n]
    BY <2>1, <2>2, AppendProperties
  <2> QED
    BY <1>4, <2>3
<1>10. /\ rows' \in Seq(SUBSET Rows) /\ Len(rows') = l + 1 /\ rows'[l + 1] = {}
       /\ \A n \in 1..l : rows'[n] = rows[n]
  <2>1. rows \in Seq(SUBSET Rows) /\ {} \in SUBSET Rows
    BY DEF RowsInv, PaymentTypeOK
  <2> QED
    BY <1>4, <1>6, <2>1, AppendProperties
<1>11. /\ reqs' \in [Requests -> Request \cup {Idle}] /\ reqs'[r] = x
       /\ \A s \in Requests : s # r => reqs'[s] = reqs[s]
  BY <1>6, <1>7 DEF RowsInv, PaymentTypeOK
<1>12. PaymentTypeOK'
  BY <1>6, <1>8, <1>9, <1>10, <1>11 DEF RowsInv, PaymentTypeOK
<1>13. ASSUME NEW n \in 1..(l + 1) PROVE InOrder(rows'[n], debits'[n].kind)
  <2>1. CASE n = l + 1
    BY <1>10, <2>1 DEF InOrder
  <2>2. CASE n # l + 1
    <3>1. n \in 1..l
      BY <2>2
    <3> QED
      BY <1>4, <1>9, <1>10, <3>1 DEF RowsInv
  <2> QED
    BY <2>1, <2>2
<1>14. ASSUME NEW s \in Requests PROVE Paid(reqs[s])'
  <2>1. CASE s = r
    <3>1. l + 1 \in 1..(l + 1)
      OBVIOUS
    <3> QED
      BY <1>7, <1>9, <1>10, <1>11, <2>1, <3>1 DEF Paid, Reached
  <2>2. CASE s # r
    <3>1. PICK p : p = reqs[s]
      OBVIOUS
    <3>2. p = reqs'[s] /\ Paid(p)
      BY <1>11, <2>2, <3>1 DEF RowsInv
    <3>3. ASSUME p.phase \in Landed
          PROVE  /\ p.number \in 1..(l + 1) /\ debits'[p.number] = p.order
                 /\ Reached(p.phase, rows'[p.number])
      <4>1. /\ p.number \in 1..l /\ debits[p.number] = p.order
            /\ Reached(p.phase, rows[p.number])
        BY <1>4, <3>2, <3>3 DEF Paid
      <4>2. p.number \in 1..(l + 1)
        BY <4>1
      <4> QED
        BY <1>9, <1>10, <4>1, <4>2
    <3> QED
      BY <1>9, <3>2, <3>3 DEF Paid
  <2> QED
    BY <2>1, <2>2
<1> QED
  BY <1>9, <1>10, <1>12, <1>13, <1>14 DEF RowsInv

\* What is known of a payment past its debit.
LEMMA PaymentLanded ==
    ASSUME RowsInv, NEW r \in Requests, NEW q, q = reqs[r], q.phase \in Landed
    PROVE  /\ q \in Request /\ q.number \in 1..Len(debits) /\ q.number \in Nat
           /\ debits[q.number] = q.order /\ q.order.kind \in Kinds
           /\ Reached(q.phase, rows[q.number]) /\ InOrder(rows[q.number], q.order.kind)
           /\ rows[q.number] \in SUBSET Rows /\ rows \in Seq(SUBSET Rows)
           /\ q.ref \in Reference /\ refs \subseteq Reference
<1>1. q \in Request
  BY IdleIsNotLanded DEF RowsInv, PaymentTypeOK
<1>2. /\ q.number \in 1..Len(debits) /\ debits[q.number] = q.order
      /\ Reached(q.phase, rows[q.number])
  BY DEF RowsInv, Paid
<1>3. InOrder(rows[q.number], debits[q.number].kind)
  BY <1>2 DEF RowsInv
<1>4. rows \in Seq(SUBSET Rows) /\ Len(rows) = Len(debits)
  BY DEF RowsInv, PaymentTypeOK
<1>5. rows[q.number] \in SUBSET Rows
  BY <1>2, <1>4, ElementOfSeq
<1>6. q.order.kind \in Kinds
  BY <1>1 DEF Request, Order
<1>7. q.ref \in Reference /\ refs \subseteq Reference /\ q.number \in Nat
  BY <1>1 DEF Request, RowsInv, PaymentTypeOK
<1> QED
  BY <1>1, <1>2, <1>3, <1>4, <1>5, <1>6, <1>7

LEMMA PaymentStoreTransaction ==
    ASSUME RowsInv, NEW r \in Requests, StoreTransaction(r) PROVE RowsInv'
<1>1. PICK q, n : q = reqs[r] /\ n = q.number
  OBVIOUS
<1>2. q.phase = "debited" /\ q.phase \in Landed
  BY <1>1 DEF StoreTransaction, Landed, Phases
<1>3. /\ q \in Request /\ n \in 1..Len(debits) /\ debits[n] = q.order
      /\ InOrder(rows[n], q.order.kind) /\ rows[n] \in SUBSET Rows
      /\ q.ref \in Reference /\ refs \subseteq Reference
  BY <1>1, <1>2, PaymentLanded
<1>4. PICK x, w : x = [q EXCEPT !.phase = "transacted"] /\ w = rows[n] \cup {"transaction"}
  OBVIOUS
<1>5. /\ rows' = [rows EXCEPT ![n] = w] /\ reqs' = [reqs EXCEPT ![r] = x]
      /\ UNCHANGED <<money, now, failures>> /\ refs' \subseteq Reference
  BY <1>1, <1>3, <1>4 DEF StoreTransaction, Write
<1>6. x \in Request /\ x.phase = "transacted" /\ x.number = n /\ x.order = debits[n]
  BY <1>1, <1>3, <1>4 DEF Request, Phases
<1>7. w \in SUBSET Rows /\ rows[n] \subseteq w /\ InOrder(w, debits[n].kind) /\ Reached("transacted", w)
  BY <1>3, <1>4 DEF Rows, InOrder, Reached
<1> QED
  BY <1>3, <1>5, <1>6, <1>7, PaymentWrites

LEMMA PaymentStoreSchoolPayment ==
    ASSUME RowsInv, NEW r \in Requests, StoreSchoolPayment(r) PROVE RowsInv'
<1>1. PICK q, n : q = reqs[r] /\ n = q.number
  OBVIOUS
<1>2. q.phase = "transacted" /\ q.phase \in Landed
  BY <1>1 DEF StoreSchoolPayment, Landed, Phases
<1>3. /\ q \in Request /\ n \in 1..Len(debits) /\ debits[n] = q.order
      /\ InOrder(rows[n], q.order.kind) /\ rows[n] \in SUBSET Rows
      /\ Reached(q.phase, rows[n]) /\ refs \subseteq Reference
  BY <1>1, <1>2, PaymentLanded
<1>4. PICK x, w : x = [q EXCEPT !.phase = "stored"] /\ w = rows[n] \cup {"school_payment"}
  OBVIOUS
<1>5. /\ rows' = [rows EXCEPT ![n] = w] /\ reqs' = [reqs EXCEPT ![r] = x]
      /\ UNCHANGED <<money, now, failures>> /\ refs' \subseteq Reference
  BY <1>1, <1>3, <1>4 DEF StoreSchoolPayment, Write
<1>6. x \in Request /\ x.phase = "stored" /\ x.number = n /\ x.order = debits[n]
  BY <1>1, <1>3, <1>4 DEF Request, Phases
<1>7. w \in SUBSET Rows /\ rows[n] \subseteq w /\ InOrder(w, debits[n].kind) /\ Reached("stored", w)
  BY <1>2, <1>3, <1>4 DEF Rows, InOrder, Reached
<1> QED
  BY <1>3, <1>5, <1>6, <1>7, PaymentWrites

\* The school's receipt comes after the bank's own record of the school payment.
LEMMA PaymentCollectForSchool ==
    ASSUME RowsInv, NEW r \in Requests, CollectForSchool(r) PROVE RowsInv'
<1>1. PICK q, n : q = reqs[r] /\ n = q.number
  OBVIOUS
<1>2. q.phase = "stored" /\ q.phase \in Landed
  BY <1>1 DEF CollectForSchool, Landed, Phases
<1>3. /\ q \in Request /\ n \in 1..Len(debits) /\ debits[n] = q.order
      /\ InOrder(rows[n], q.order.kind) /\ rows[n] \in SUBSET Rows /\ rows \in Seq(SUBSET Rows)
      /\ Reached(q.phase, rows[n]) /\ refs \subseteq Reference
  BY <1>1, <1>2, PaymentLanded
<1>4. PICK x : x = [q EXCEPT !.phase = "collected"]
  OBVIOUS
<1>5. /\ reqs' = [reqs EXCEPT ![r] = x]
      /\ UNCHANGED <<money, now, failures>> /\ refs' \subseteq Reference
  BY <1>1, <1>3, <1>4 DEF CollectForSchool
<1>6. PICK w : w \in {rows[n], rows[n] \cup {"receipt"}} /\ rows' = [rows EXCEPT ![n] = w]
  <2>1. rows = [rows EXCEPT ![n] = rows[n]]
    BY <1>3
  <2>2. rows' = [rows EXCEPT ![n] = rows[n] \cup {"receipt"}] \/ rows' = rows
    BY <1>1 DEF CollectForSchool
  <2> QED
    BY <2>1, <2>2
<1>7. x \in Request /\ x.phase = "collected" /\ x.number = n /\ x.order = debits[n]
  BY <1>1, <1>3, <1>4 DEF Request, Phases
<1>8. w \in SUBSET Rows /\ rows[n] \subseteq w /\ InOrder(w, debits[n].kind) /\ Reached("collected", w)
  BY <1>2, <1>3, <1>6 DEF Rows, InOrder, Reached
<1> QED
  BY <1>3, <1>5, <1>6, <1>7, <1>8, PaymentWrites

\* The member is told of a school payment after both records of it.
LEMMA PaymentNotify == ASSUME RowsInv, NEW r \in Requests, Notify(r) PROVE RowsInv'
<1>1. PICK q, n : q = reqs[r] /\ n = q.number
  OBVIOUS
<1>2. /\ q.phase = "collected" \/ (q.phase = "transacted" /\ q.order.kind = "qr")
      /\ q.phase \in Landed
  BY <1>1 DEF Notify, Landed, Phases
<1>3. /\ q \in Request /\ n \in 1..Len(debits) /\ debits[n] = q.order
      /\ InOrder(rows[n], q.order.kind) /\ rows[n] \in SUBSET Rows
      /\ Reached(q.phase, rows[n]) /\ refs \subseteq Reference
  BY <1>1, <1>2, PaymentLanded
<1>4. PICK x, w : x = [q EXCEPT !.phase = "notified"] /\ w = rows[n] \cup {"notification"}
  OBVIOUS
<1>5. /\ rows' = [rows EXCEPT ![n] = w] /\ reqs' = [reqs EXCEPT ![r] = x]
      /\ UNCHANGED <<money, now, failures>> /\ refs' \subseteq Reference
  BY <1>1, <1>3, <1>4 DEF Notify, Write
<1>6. x \in Request /\ x.phase = "notified" /\ x.number = n /\ x.order = debits[n]
  BY <1>1, <1>3, <1>4 DEF Request, Phases
<1>7. w \in SUBSET Rows /\ rows[n] \subseteq w /\ InOrder(w, debits[n].kind) /\ Reached("notified", w)
  BY <1>2, <1>3, <1>4 DEF Rows, InOrder, Reached
<1> QED
  BY <1>3, <1>5, <1>6, <1>7, PaymentWrites

LEMMA PaymentAudit == ASSUME RowsInv, NEW r \in Requests, Audit(r) PROVE RowsInv'
<1>1. PICK q, n : q = reqs[r] /\ n = q.number
  OBVIOUS
<1>2. q.phase = "notified" /\ q.phase \in Landed
  BY <1>1 DEF Audit, Landed, Phases
<1>3. /\ q \in Request /\ n \in 1..Len(debits) /\ debits[n] = q.order
      /\ InOrder(rows[n], q.order.kind) /\ rows[n] \in SUBSET Rows
      /\ Reached(q.phase, rows[n]) /\ refs \subseteq Reference
  BY <1>1, <1>2, PaymentLanded
<1>4. PICK w : w = rows[n] \cup {"audit"}
  OBVIOUS
<1>5. /\ rows' = [rows EXCEPT ![n] = w] /\ reqs' = [reqs EXCEPT ![r] = Idle]
      /\ UNCHANGED <<money, now, failures>> /\ refs' \subseteq Reference
  BY <1>1, <1>3, <1>4 DEF Audit, Write
<1>6. w \in SUBSET Rows /\ rows[n] \subseteq w /\ InOrder(w, debits[n].kind)
  BY <1>2, <1>3, <1>4 DEF Rows, InOrder, Reached
<1> QED
  BY <1>3, <1>5, <1>6, IdleIsNotLanded, PaymentWrites

-----------------------------------------------------------------------------
LEMMA RowsInvTick == ASSUME RowsInv, Tick PROVE RowsInv'
<1>1. /\ UNCHANGED <<money, refs, rows>> /\ now' \in Nat /\ failures' \in Nat
      /\ reqs' \in [Requests -> Request \cup {Idle}] /\ reqs' = reqs
  BY DEF Tick, RowsInv, PaymentTypeOK
<1> QED
  BY <1>1, PaymentsUnwritten

LEMMA RowsInvRestart == ASSUME RowsInv, PaymentsRestart PROVE RowsInv'
<1>1. /\ UNCHANGED <<money, refs, rows>> /\ now' \in Nat /\ failures' \in Nat
      /\ reqs' \in [Requests -> Request \cup {Idle}] /\ \A r \in Requests : reqs'[r] = Idle
  BY DEF PaymentsRestart, RowsInv, PaymentTypeOK
<1> QED
  BY <1>1, IdleIsNotLanded, PaymentsUnwritten

LEMMA RowsInvNext ==
    ASSUME RowsInv, NEW r \in Requests, NEW orders \in SUBSET Order, PaymentNextOf(r, orders) PROVE RowsInv'
<1>1. CASE \/ \E order \in Order, first \in Reads : FirstPaymentRead(r, order, first)
           \/ SecondPaymentRead(r)
  <2>1. PICK x \in Request \cup {Idle} :
            /\ x.phase \notin Landed /\ reqs' = [reqs EXCEPT ![r] = x]
            /\ UNCHANGED <<money, refs, rows, now, failures, books>>
    BY <1>1, PaymentReads
  <2>2. /\ now' \in Nat /\ failures' \in Nat /\ reqs' \in [Requests -> Request \cup {Idle}]
        /\ \A s \in Requests : reqs'[s] = reqs[s] \/ reqs'[s].phase \notin Landed
    BY <2>1 DEF RowsInv, PaymentTypeOK
  <2> QED
    BY <2>1, <2>2, PaymentsUnwritten
<1>2. CASE Refuse(r) \/ CollideReference(r) \/ Fail(r)
  <2>1. /\ UNCHANGED <<money, refs, rows>> /\ now' = now /\ failures' \in {failures, failures + 1}
        /\ reqs' = [reqs EXCEPT ![r] = Idle]
    BY <1>2 DEF Refuse, CollideReference, Fail
  <2>2. /\ now' \in Nat /\ failures' \in Nat /\ reqs' \in [Requests -> Request \cup {Idle}]
        /\ \A s \in Requests : reqs'[s] = reqs[s] \/ reqs'[s].phase \notin Landed
    BY <2>1, IdleIsNotLanded DEF RowsInv, PaymentTypeOK
  <2> QED
    BY <2>1, <2>2, PaymentsUnwritten
<1>3. CASE Debit(r) BY <1>3, PaymentDebit
<1>4. CASE StoreTransaction(r) BY <1>4, PaymentStoreTransaction
<1>5. CASE StoreSchoolPayment(r) BY <1>5, PaymentStoreSchoolPayment
<1>6. CASE CollectForSchool(r) BY <1>6, PaymentCollectForSchool
<1>7. CASE Notify(r) BY <1>7, PaymentNotify
<1>8. CASE Audit(r) BY <1>8, PaymentAudit
<1> QED
  BY <1>1, <1>2, <1>3, <1>4, <1>5, <1>6, <1>7, <1>8 DEF PaymentNextOf, RequestStep

-----------------------------------------------------------------------------
(* The money: the balance of an account is what the debits left of it, and the   *)
(* school's receipts are of debits whose records name one.  A payment that has   *)
(* not reached the school yet has no receipt, and no two payments are of one     *)
(* debit: it is counted once.                                                    *)

Unreceipted == {"debited", "transacted", "stored"}
ReceiptedDebits == {n \in 1..Len(debits) : "receipt" \in rows[n]}

BalanceInv == \A a \in Accounts : balance[a] = Opening[a] - Debited(a)

OwnDebits ==
    \A r, s \in Requests :
        reqs[r].phase \in Landed /\ reqs[s].phase \in Landed /\ reqs[r].number = reqs[s].number => r = s
NotReceiptedYet ==
    \A r \in Requests : reqs[r].phase \in Unreceipted => "receipt" \notin rows[reqs[r].number]
BooksTyped == invoices \in Seq(Billing!Invoice) /\ receipts \in Seq(Billing!Receipt)
ReceiptsCounted == Receipted(receipts) - Receipted(SeedReceipts) <= SumOf(ReceiptedDebits)

ReceiptInv == OwnDebits /\ NotReceiptedYet /\ BooksTyped /\ ReceiptsCounted

PaymentInv == RowsInv /\ BalanceInv /\ ReceiptInv

-----------------------------------------------------------------------------
\* The amounts of the debits d, and of the receipts of a list.
AmountsOf(d) == [n \in 1..Len(d) |-> d[n].amount]
ReceiptedBy(s) == [i \in 1..Len(s) |-> s[i].amount]

LEMMA OrderAmounts ==
    ASSUME NEW d \in Seq(Order), NEW some \in SUBSET (1..Len(d))
    PROVE  /\ IsFiniteSet(some) /\ IntegerOn(AmountsOf(d), some)
           /\ SumFunctionOnSet(AmountsOf(d), some) \in Nat
<1>1. IsFiniteSet(some)
  <2>1. Len(d) \in Int /\ IsFiniteSet(1..Len(d))
    BY FS_Interval
  <2> QED
    BY <2>1, FS_Subset
<1>2. ASSUME NEW n \in some PROVE AmountsOf(d)[n] \in Nat
  <2>1. n \in 1..Len(d) /\ d[n] \in Order
    BY ElementOfSeq
  <2>2. d[n].amount \in Nat
    BY <2>1, PaymentConstants DEF Order
  <2> QED
    BY <2>1, <2>2 DEF AmountsOf
<1>3. IntegerOn(AmountsOf(d), some)
  BY <1>2 DEF IntegerOn
<1>4. SumFunctionOnSet(AmountsOf(d), some) \in Nat
  BY <1>1, <1>2, SumIsNatural
<1> QED
  BY <1>1, <1>3, <1>4

LEMMA DebitAmounts ==
    ASSUME RowsInv, NEW some \in SUBSET (1..Len(debits))
    PROVE  IsFiniteSet(some) /\ IntegerOn(AmountsOf(debits), some) /\ SumOf(some) \in Nat
<1>1. PICK d \in Seq(Order) : d = debits
  BY DEF RowsInv, PaymentTypeOK
<1>2. some \in SUBSET (1..Len(d))
  BY <1>1
<1>3. /\ IsFiniteSet(some) /\ IntegerOn(AmountsOf(d), some)
      /\ SumFunctionOnSet(AmountsOf(d), some) \in Nat
  BY <1>2, OrderAmounts
<1> QED
  BY <1>1, <1>3 DEF SumOf, AmountsOf

LEMMA ReceiptAmounts ==
    ASSUME NEW s \in Seq(Billing!Receipt)
    PROVE  /\ IsFiniteSet(1..Len(s)) /\ IntegerOn(ReceiptedBy(s), 1..Len(s)) /\ Receipted(s) \in Int
<1>1. IsFiniteSet(1..Len(s))
  BY FS_Interval
<1>2. ASSUME NEW n \in 1..Len(s) PROVE ReceiptedBy(s)[n] \in Int
  <2>1. s[n] \in Billing!Receipt
    BY ElementOfSeq
  <2>2. s[n].amount \in Int
    BY <2>1 DEF Billing!Receipt
  <2> QED
    BY <2>2 DEF ReceiptedBy
<1>3. IntegerOn(ReceiptedBy(s), 1..Len(s))
  BY <1>2 DEF IntegerOn
<1>4. SumFunctionOnSet(ReceiptedBy(s), 1..Len(s)) \in Int
  BY <1>1, <1>3, SumIsInteger
<1> QED
  BY <1>1, <1>3, <1>4 DEF Receipted, ReceiptedBy

-----------------------------------------------------------------------------
(* The invariant says more than the two properties.                              *)
LEMMA NoOverdraftHolds == ASSUME PaymentInv PROVE NoOverdraft
<1>1. balance \in [Accounts -> Nat]
  BY DEF PaymentInv, RowsInv, PaymentTypeOK
<1> QED
  BY <1>1 DEF PaymentInv, BalanceInv, NoOverdraft

LEMMA ReceiptsAreBackedHolds == ASSUME PaymentInv PROVE ReceiptsAreBacked
<1>1. RowsInv /\ ReceiptsCounted
  BY DEF PaymentInv, ReceiptInv
<1>2. PICK A : A = ReceiptedDebits
  OBVIOUS
<1>3. PICK B : B = {n \in 1..Len(debits) : "school_payment" \in rows[n] /\ n \notin A}
  OBVIOUS
<1>4. \A n \in 1..Len(debits) : "receipt" \in rows[n] => "school_payment" \in rows[n]
  BY <1>1 DEF RowsInv, InOrder
<1>5. /\ A \in SUBSET (1..Len(debits)) /\ B \in SUBSET (1..Len(debits)) /\ A \cap B = {}
      /\ A \cup B = {n \in 1..Len(debits) : "school_payment" \in rows[n]}
  BY <1>2, <1>3, <1>4 DEF ReceiptedDebits
<1>6. /\ IsFiniteSet(A) /\ IntegerOn(AmountsOf(debits), A) /\ SumOf(A) \in Nat
      /\ IsFiniteSet(B) /\ IntegerOn(AmountsOf(debits), B) /\ SumOf(B) \in Nat
  BY <1>1, <1>5, DebitAmounts
<1>7. SumFunctionOnSet(AmountsOf(debits), A \cup B) = SumFunctionOnSet(AmountsOf(debits), A) + SumFunctionOnSet(AmountsOf(debits), B)
  BY <1>5, <1>6, SumOfUnion
<1>8. SchoolMoney = SumOf(A) + SumOf(B)
  BY <1>5, <1>7 DEF SchoolMoney, SumOf, AmountsOf
<1>9. PICK x, y \in Int : x = Receipted(receipts) /\ y = Receipted(SeedReceipts)
  BY ReceiptAmounts, BookConstants DEF PaymentInv, ReceiptInv, BooksTyped
<1>10. x - y <= SumOf(A)
  BY <1>1, <1>2, <1>9 DEF ReceiptsCounted
<1>11. x - y <= SchoolMoney
  BY <1>6, <1>8, <1>10
<1> QED
  BY <1>9, <1>11 DEF ReceiptsAreBacked

LEMMA PaymentInvInit == ASSUME PaymentInit PROVE PaymentInv
<1>1. RowsInv
  BY RowsInvInit
<1>2. balance = Opening /\ debits = << >> /\ rows = << >> /\ reqs = [r \in Requests |-> Idle]
  BY DEF PaymentInit
<1>3. 1..Len(debits) = {} /\ ReceiptedDebits = {}
  BY <1>2 DEF ReceiptedDebits
<1>4. SumOf({}) = 0
  BY SumOfNone DEF SumOf
<1>5. BalanceInv
  <2>1. ASSUME NEW a \in Accounts PROVE balance[a] = Opening[a] - Debited(a)
    <3>1. {n \in 1..Len(debits) : debits[n].account = a} = {}
      BY <1>3
    <3>2. Debited(a) = 0
      BY <1>4, <3>1 DEF Debited
    <3>3. balance[a] = Opening[a] /\ Opening[a] \in Nat
      BY <1>2, PaymentConstants
    <3> QED
      BY <3>2, <3>3
  <2> QED
    BY <2>1 DEF BalanceInv
<1>6. invoices = SeedInvoices /\ receipts = SeedReceipts
  BY DEF PaymentInit, Billing!Init
<1>7. BooksTyped
  BY <1>6, BookConstants DEF BooksTyped
<1>8. ReceiptsCounted
  <2>1. PICK x \in Int : x = Receipted(SeedReceipts)
    BY ReceiptAmounts, BookConstants
  <2>2. Receipted(receipts) = x
    BY <1>6, <2>1
  <2> QED
    BY <1>3, <1>4, <2>1, <2>2 DEF ReceiptsCounted
<1>9. \A r \in Requests : reqs[r].phase \notin Landed /\ reqs[r].phase \notin Unreceipted
  BY <1>2, IdleIsNotLanded DEF Idle, Unreceipted
<1> QED
  BY <1>1, <1>5, <1>7, <1>8, <1>9 DEF PaymentInv, ReceiptInv, OwnDebits, NotReceiptedYet

LEMMA PaymentInvStutter == ASSUME PaymentInv, UNCHANGED paymentVars PROVE PaymentInv'
<1>1. /\ balance' = balance /\ debits' = debits /\ rows' = rows /\ reqs' = reqs
      /\ invoices' = invoices /\ receipts' = receipts
  BY DEF paymentVars, money, books
<1>2. RowsInv'
  BY RowsInvStutter DEF PaymentInv
<1>3. BalanceInv'
  BY <1>1 DEF PaymentInv, BalanceInv, Debited, SumOf
<1>4. ReceiptInv'
  BY <1>1 DEF PaymentInv, ReceiptInv, OwnDebits, NotReceiptedYet, BooksTyped, ReceiptsCounted,
     ReceiptedDebits, SumOf
<1> QED
  BY <1>2, <1>3, <1>4 DEF PaymentInv

\* Steps that debit nothing and write no receipt: the payments go on with their own
\* debits, and none goes back to where it has no receipt yet.
LEMMA MoneyStaysAsItIs ==
    ASSUME PaymentInv, RowsInv', UNCHANGED <<money, invoices, receipts>>,
           \A n \in 1..Len(debits) : "receipt" \in rows'[n] <=> "receipt" \in rows[n],
           \A r \in Requests :
              \/ reqs'[r].phase \notin Landed
              \/ /\ reqs[r].phase \in Landed /\ reqs'[r].number = reqs[r].number
                 /\ reqs'[r].phase \in Unreceipted => reqs[r].phase \in Unreceipted
    PROVE  PaymentInv'
<1>1. /\ balance' = balance /\ debits' = debits
      /\ invoices' = invoices /\ receipts' = receipts
  BY DEF money
<1>2. BalanceInv'
  BY <1>1 DEF PaymentInv, BalanceInv, Debited, SumOf
<1>3. OwnDebits'
  BY DEF PaymentInv, ReceiptInv, OwnDebits
<1>4. Unreceipted \subseteq Landed
  BY DEF Unreceipted, Landed, Phases
<1>5. NotReceiptedYet'
  <2>1. ASSUME NEW r \in Requests, reqs'[r].phase \in Unreceipted
        PROVE  "receipt" \notin rows'[reqs'[r].number]
    <3>1. /\ reqs[r].phase \in Landed /\ reqs'[r].number = reqs[r].number
          /\ reqs[r].phase \in Unreceipted
      BY <1>4, <2>1
    <3>2. reqs[r].number \in 1..Len(debits) /\ "receipt" \notin rows[reqs[r].number]
      BY <3>1 DEF PaymentInv, RowsInv, Paid, ReceiptInv, NotReceiptedYet
    <3> QED
      BY <3>1, <3>2
  <2> QED
    BY <2>1 DEF NotReceiptedYet
<1>6. BooksTyped'
  BY <1>1 DEF PaymentInv, ReceiptInv, BooksTyped
<1>7. ReceiptedDebits' = ReceiptedDebits
  BY <1>1 DEF ReceiptedDebits
<1>8. ReceiptsCounted'
  BY <1>1, <1>7 DEF PaymentInv, ReceiptInv, ReceiptsCounted, SumOf
<1> QED
  BY <1>2, <1>3, <1>5, <1>6, <1>8 DEF PaymentInv, ReceiptInv

-----------------------------------------------------------------------------
\* The debit takes its amount from its account and nothing from the others; it has
\* no receipt yet, and no other payment has its number.
LEMMA MoneyDebit == ASSUME PaymentInv, NEW r \in Requests, Debit(r) PROVE PaymentInv'
<1>1. RowsInv /\ RowsInv'
  BY PaymentDebit DEF PaymentInv
<1>2. PICK q : q = reqs[r] /\ q \in Request /\ q.phase = "admitted"
  BY IdleIsNotLanded DEF Debit, PaymentInv, RowsInv, PaymentTypeOK, Idle
<1>3. PICK o : o = q.order /\ o \in Order
  BY <1>2 DEF Request
<1>4. o.account \in Accounts /\ o.amount \in Nat
  BY <1>3, PaymentConstants DEF Order
<1>5. PICK l \in Nat : l = Len(debits) /\ l = Len(rows)
  BY <1>1 DEF RowsInv, PaymentTypeOK
<1>6. /\ balance' = [balance EXCEPT ![o.account] = @ - o.amount]
      /\ debits' = Append(debits, o) /\ rows' = Append(rows, {})
      /\ invoices' = invoices /\ receipts' = receipts
  BY <1>2, <1>3 DEF Debit, books
<1>7. /\ Len(debits') = l + 1 /\ debits'[l + 1] = o
      /\ \A n \in 1..l : debits'[n] = debits[n]
  <2>1. debits \in Seq(Order)
    BY <1>1 DEF RowsInv, PaymentTypeOK
  <2>2. /\ Len(debits') = Len(debits) + 1 /\ debits'[Len(debits) + 1] = o
        /\ \A n \in 1..Len(debits) : debits'[n] = debits[n]
    BY <1>3, <1>6, <2>1, AppendProperties
  <2> QED
    BY <1>5, <2>2
<1>8. /\ rows'[l + 1] = {} /\ \A n \in 1..l : rows'[n] = rows[n]
  <2>1. rows \in Seq(SUBSET Rows) /\ {} \in SUBSET Rows
    BY <1>1 DEF RowsInv, PaymentTypeOK
  <2> QED
    BY <1>5, <1>6, <2>1, AppendProperties
<1>9. PICK c, d \in Seq(Order) : c = debits /\ d = debits'
  BY <1>1 DEF RowsInv, PaymentTypeOK
<1>a. /\ Len(c) = l /\ Len(d) = l + 1 /\ d[l + 1] = o
      /\ \A n \in 1..l : d[n] = c[n]
  BY <1>5, <1>7, <1>9
<1>b. /\ \A some : SumOf(some) = SumFunctionOnSet(AmountsOf(c), some)
      /\ \A some : SumOf(some)' = SumFunctionOnSet(AmountsOf(d), some)
  BY <1>9 DEF SumOf, AmountsOf
<1>c. \* what the debits there were add up to does not change
      ASSUME NEW some \in SUBSET (1..l)
      PROVE  /\ SumFunctionOnSet(AmountsOf(d), some) = SumFunctionOnSet(AmountsOf(c), some)
             /\ IsFiniteSet(some) /\ IntegerOn(AmountsOf(d), some)
  <2>1. some \in SUBSET (1..Len(c)) /\ some \in SUBSET (1..Len(d))
    BY <1>a
  <2>2. IsFiniteSet(some) /\ IntegerOn(AmountsOf(c), some) /\ IntegerOn(AmountsOf(d), some)
    BY <2>1, OrderAmounts
  <2>3. ASSUME NEW n \in some PROVE AmountsOf(c)[n] = AmountsOf(d)[n]
    <3>1. n \in 1..Len(c) /\ n \in 1..Len(d) /\ d[n] = c[n]
      BY <1>a, <2>1
    <3> QED
      BY <3>1 DEF AmountsOf
  <2>4. SumFunctionOnSet(AmountsOf(c), some) = SumFunctionOnSet(AmountsOf(d), some)
    BY <2>2, <2>3, SumAgrees
  <2> QED
    BY <2>2, <2>4
<1>10. ASSUME NEW a \in Accounts PROVE balance'[a] = Opening[a] - Debited(a)'
  <2> DEFINE A == {n \in 1..l : c[n].account = a}
  <2>1. A \in SUBSET (1..l) /\ l + 1 \notin A
    OBVIOUS
  <2>2. Debited(a) = SumOf(A)
    BY <1>5, <1>9 DEF Debited
  <2>3. {n \in 1..Len(d) : d[n].account = a} = IF a = o.account THEN A \cup {l + 1} ELSE A
    <3>1. 1..Len(d) = (1..l) \cup {l + 1}
      BY <1>a
    <3>2. \A n \in 1..l : d[n].account = c[n].account
      BY <1>a
    <3>3. d[l + 1].account = o.account
      BY <1>a
    <3> QED
      BY <3>1, <3>2, <3>3
  <2> HIDE DEF A
  <2>4. PICK x \in Nat : x = SumFunctionOnSet(AmountsOf(c), A)
    BY <1>a, <2>1, OrderAmounts
  <2>5. /\ SumFunctionOnSet(AmountsOf(d), A) = x /\ IsFiniteSet(A) /\ IntegerOn(AmountsOf(d), A)
    BY <1>c, <2>1, <2>4
  <2>6. balance \in [Accounts -> Nat] /\ Opening[a] \in Nat /\ balance[a] = Opening[a] - x
    BY <1>1, <1>b, <2>2, <2>4, PaymentConstants DEF PaymentInv, BalanceInv, RowsInv, PaymentTypeOK
  <2>7. CASE a = o.account
    <3>1. AmountsOf(d)[l + 1] = o.amount
      <4>1. l + 1 \in 1..Len(d)
        BY <1>a
      <4> QED
        BY <1>a, <4>1 DEF AmountsOf
    <3>2. PICK k : k = AmountsOf(d)
      OBVIOUS
    <3>3. k[l + 1] \in Int /\ IntegerOn(k, A) /\ IsFiniteSet(A)
      BY <1>4, <2>5, <3>1, <3>2
    <3>4. PICK n : n = l + 1
      OBVIOUS
    <3>5. SumFunctionOnSet(k, A \cup {n}) = k[n] + SumFunctionOnSet(k, A)
      BY <2>1, <3>3, <3>4, SumAdds
    <3>6. Debited(a)' = SumOf(A \cup {n})'
      BY <1>9, <2>3, <2>7, <3>4 DEF Debited
    <3>7. Debited(a)' = o.amount + x
      BY <1>b, <2>5, <3>1, <3>2, <3>4, <3>5, <3>6
    <3>8. balance'[a] = balance[a] - o.amount
      BY <1>6, <2>6, <2>7
    <3> QED
      BY <1>4, <2>6, <3>7, <3>8
  <2>8. CASE a # o.account
    <3>1. Debited(a)' = SumOf(A)'
      BY <1>9, <2>3, <2>8 DEF Debited
    <3>2. Debited(a)' = x
      BY <1>b, <2>5, <3>1
    <3>3. balance'[a] = balance[a]
      BY <1>6, <2>6, <2>8
    <3> QED
      BY <2>6, <3>2, <3>3
  <2> QED
    BY <2>7, <2>8
<1>11. /\ reqs'[r].phase = "debited" /\ reqs'[r].number = l + 1
       /\ \A s \in Requests : s # r => reqs'[s] = reqs[s]
  <2>1. PICK x : x = [q EXCEPT !.phase = "debited", !.number = l + 1, !.ref = <<Prefix[o.kind], now>>]
    OBVIOUS
  <2>2. x.phase = "debited" /\ x.number = l + 1
    BY <1>2, <2>1 DEF Request
  <2>3. reqs' = [reqs EXCEPT ![r] = x]
    BY <1>2, <1>3, <1>5, <2>1 DEF Debit
  <2> QED
    BY <1>1, <2>2, <2>3 DEF RowsInv, PaymentTypeOK
<1>12. \A s \in Requests : s # r /\ reqs'[s].phase \in Landed =>
           reqs'[s] = reqs[s] /\ reqs[s].number \in 1..l
  BY <1>1, <1>5, <1>11 DEF RowsInv, Paid
<1>13. OwnDebits'
  <2>1. \A s \in Requests : s # r /\ reqs'[s].phase \in Landed => reqs'[s].number # l + 1
    BY <1>12
  <2> QED
    BY <1>11, <1>12, <2>1 DEF PaymentInv, ReceiptInv, OwnDebits
<1>14. NotReceiptedYet'
  <2>1. Unreceipted \subseteq Landed
    BY DEF Unreceipted, Landed, Phases
  <2>2. ASSUME NEW s \in Requests, reqs'[s].phase \in Unreceipted
        PROVE  "receipt" \notin rows'[reqs'[s].number]
    <3>1. CASE s = r
      BY <1>8, <1>11, <3>1
    <3>2. CASE s # r
      <4>1. reqs'[s] = reqs[s] /\ reqs[s].number \in 1..l
        BY <1>12, <2>1, <2>2, <3>2
      <4>2. "receipt" \notin rows[reqs[s].number]
        BY <2>2, <4>1 DEF PaymentInv, ReceiptInv, NotReceiptedYet
      <4> QED
        BY <1>8, <4>1, <4>2
    <3> QED
      BY <3>1, <3>2
  <2> QED
    BY <2>2 DEF NotReceiptedYet
<1>15. ReceiptsCounted'
  <2> DEFINE A == {n \in 1..l : "receipt" \in rows[n]}
  <2>1. A \in SUBSET (1..l) /\ ReceiptedDebits = A
    BY <1>5 DEF ReceiptedDebits
  <2>2. ReceiptedDebits' = A
    <3>1. 1..Len(debits') = (1..l) \cup {l + 1}
      BY <1>7
    <3>2. /\ \A n \in 1..l : "receipt" \in rows'[n] <=> "receipt" \in rows[n]
          /\ "receipt" \notin rows'[l + 1]
      BY <1>8
    <3> QED
      BY <3>1, <3>2 DEF ReceiptedDebits
  <2> HIDE DEF A
  <2>3. PICK x : x = SumFunctionOnSet(AmountsOf(c), A)
    OBVIOUS
  <2>4. SumFunctionOnSet(AmountsOf(d), A) = x
    BY <1>c, <2>1, <2>3
  <2>5. SumOf(ReceiptedDebits) = x
    BY <1>b, <2>1, <2>3
  <2>6. SumOf(ReceiptedDebits)' = x
    BY <1>b, <2>2, <2>4
  <2> QED
    BY <1>6, <2>5, <2>6 DEF PaymentInv, ReceiptInv, ReceiptsCounted
<1>16. BooksTyped'
  BY <1>6 DEF PaymentInv, ReceiptInv, BooksTyped
<1> QED
  BY <1>1, <1>10, <1>13, <1>14, <1>15, <1>16 DEF PaymentInv, BalanceInv, ReceiptInv

-----------------------------------------------------------------------------
\* A record of a payment past its debit that is not the school's receipt.
LEMMA MoneyWrite ==
    ASSUME PaymentInv, RowsInv', NEW r \in Requests, NEW q, q = reqs[r], q.phase \in Landed,
           NEW x, reqs' = [reqs EXCEPT ![r] = x],
           \/ x.phase \notin Landed
           \/ x.number = q.number /\ (x.phase \in Unreceipted => q.phase \in Unreceipted),
           NEW row, row # "receipt", rows' = [rows EXCEPT ![q.number] = @ \cup {row}],
           UNCHANGED <<money, invoices, receipts>>
    PROVE  PaymentInv'
<1>1. RowsInv
  BY DEF PaymentInv
<1>2. /\ reqs'[r] = x /\ \A s \in Requests : s # r => reqs'[s] = reqs[s]
  BY <1>1 DEF RowsInv, PaymentTypeOK
<1>3. \A s \in Requests :
         \/ reqs'[s].phase \notin Landed
         \/ /\ reqs[s].phase \in Landed /\ reqs'[s].number = reqs[s].number
            /\ reqs'[s].phase \in Unreceipted => reqs[s].phase \in Unreceipted
  BY <1>2
<1>4. ASSUME NEW n \in 1..Len(debits) PROVE "receipt" \in rows'[n] <=> "receipt" \in rows[n]
  <2>1. rows \in [1..Len(debits) -> SUBSET Rows]
    BY <1>1, LenProperties DEF RowsInv, PaymentTypeOK
  <2> QED
    BY <2>1
<1> QED
  BY <1>3, <1>4, MoneyStaysAsItIs

-----------------------------------------------------------------------------
(* What recordMemberPayment does to the school's books.                          *)

\* The position collect finds the invoice `no` at, 0 if it finds none.
WithNumber(no) == {j \in 1..Len(invoices) : invoices[j].no = no}
PositionOf(no) ==
    IF WithNumber(no) = {} THEN 0 ELSE CHOOSE i \in WithNumber(no) : \A j \in WithNumber(no) : i <= j

LEMMA FoundInvoice == ASSUME NEW no, PositionOf(no) # 0 PROVE PositionOf(no) \in 1..Len(invoices)
<1>1. WithNumber(no) # {} /\ WithNumber(no) \in SUBSET Nat
  BY DEF PositionOf, WithNumber
<1>2. PICK j \in WithNumber(no) : \A m \in WithNumber(no) : j <= m
  BY <1>1, LeastNumber
<1>3. PositionOf(no) \in WithNumber(no)
  BY <1>1, <1>2 DEF PositionOf
<1> QED
  BY <1>3 DEF WithNumber

\* What is applied of an amount is not more than the amount, and what it leaves of
\* the invoice is an invoice.
LEMMA AppliedToInvoice ==
    ASSUME NEW v \in Billing!Invoice, NEW amount \in Nat
    PROVE  /\ Billing!Applied(v, amount) \in Int /\ Billing!Applied(v, amount) <= amount
           /\ Billing!Paid(v, amount) \in Billing!Invoice
<1>1. v.balance \in Int /\ v.paid \in Int /\ v.total \in Int
  BY DEF Billing!Invoice
<1>2. PICK x : x = Billing!Applied(v, amount)
  OBVIOUS
<1>3. x \in Int /\ x <= amount
  BY <1>1, <1>2 DEF Billing!Applied, Billing!Least
<1>4. PICK paid \in Int : paid = v.paid + x
  BY <1>1, <1>3
<1>5. PICK left \in Int : left = IF v.total > paid THEN v.total - paid ELSE 0
  BY <1>1, <1>4
<1>6. PICK status \in {"open", "partially_paid", "paid"} :
         status = IF left = 0 THEN "paid" ELSE IF paid > 0 THEN "partially_paid" ELSE "open"
  OBVIOUS
<1>7. Billing!Paid(v, amount) = [v EXCEPT !.paid = paid, !.balance = left, !.status = status]
  BY <1>2, <1>4, <1>5, <1>6 DEF Billing!Paid
<1>8. [v EXCEPT !.paid = paid, !.balance = left, !.status = status] \in Billing!Invoice
  BY DEF Billing!Invoice
<1> QED
  BY <1>2, <1>3, <1>7, <1>8

\* A member's payment leaves the books as they are or puts one receipt on top of
\* the others, of not more than the payment.
LEMMA RecordedInBooks ==
    ASSUME BooksTyped, NEW school, NEW student, NEW amount \in Nat, NEW channel,
           Billing!RecordMemberPayment(school, student, amount, channel),
           Billing!OpenInvoice(student) # 0
    PROVE  /\ invoices' \in Seq(Billing!Invoice)
           /\ \E e \in Billing!Receipt : e.amount <= amount /\ receipts' = <<e>> \o receipts
<1>1. PICK no : Billing!Collect(no, amount, channel)
  BY DEF Billing!RecordMemberPayment
<1>2. PICK i : i = PositionOf(no)
  OBVIOUS
<1>3. /\ i # 0 /\ invoices' = [invoices EXCEPT ![i] = Billing!Paid(invoices[i], amount)]
      /\ receipts' = <<Billing!Booked(invoices[i], amount, channel)>> \o receipts
  BY <1>1, <1>2 DEF Billing!Collect, Billing!Find, PositionOf, WithNumber
<1>4. i \in 1..Len(invoices)
  BY <1>2, <1>3, FoundInvoice
<1>5. PICK v \in Billing!Invoice : v = invoices[i]
  BY <1>4, ElementOfSeq DEF BooksTyped
<1>6. PICK w \in Billing!Invoice : w = Billing!Paid(v, amount)
  BY AppliedToInvoice
<1>7. [invoices EXCEPT ![i] = w] \in Seq(Billing!Invoice)
  BY <1>4, ExceptSeq DEF BooksTyped
<1>8. PICK x \in Int : x = Billing!Applied(v, amount) /\ x <= amount
  BY AppliedToInvoice
<1>9. PICK e : e = Billing!Booked(v, amount, channel)
  OBVIOUS
<1>10. e \in Billing!Receipt /\ e.amount = x
  <2>1. Len(receipts) + 1 \in Nat
    BY DEF BooksTyped
  <2>2. PICK seq \in Nat : seq = Len(receipts) + 1
    BY <2>1
  <2>3. [year |-> ThisYear, seq |-> seq] \in Billing!Number
    BY BookConstants DEF Billing!Number
  <2>4. v.school \in Schools /\ v.student \in StudentIds
    BY DEF Billing!Invoice
  <2>5. PICK number \in Billing!Number : number = [year |-> ThisYear, seq |-> seq]
    BY <2>3
  <2>6. e = [no |-> number, school |-> v.school, student |-> v.student, amount |-> x,
             matched |-> channel = "branch"]
    BY <1>8, <1>9, <2>2, <2>5 DEF Billing!Booked
  <2> QED
    BY <2>4, <2>6 DEF Billing!Receipt
<1> QED
  BY <1>3, <1>5, <1>6, <1>7, <1>8, <1>9, <1>10

-----------------------------------------------------------------------------
\* One receipt on top of the others adds its amount.
LEMMA ReceiptCounts ==
    ASSUME NEW s \in Seq(Billing!Receipt), NEW e \in Billing!Receipt, NEW t, t = <<e>> \o s
    PROVE  t \in Seq(Billing!Receipt) /\ Receipted(t) = e.amount + Receipted(s)
<1>1. PICK l \in Nat : l = Len(s)
  OBVIOUS
<1>2. t \in Seq(Billing!Receipt) /\ Len(t) = l + 1 /\ t[1] = e /\ \A i \in 1..l : t[i + 1] = s[i]
  BY <1>1, Prepended
<1>3. PICK g, k : g = ReceiptedBy(s) /\ k = ReceiptedBy(t)
  OBVIOUS
<1>4. PICK S : S = 1..l
  OBVIOUS
<1>5. S \in SUBSET Nat /\ IsFiniteSet(S) /\ IntegerOn(g, S)
  BY <1>1, <1>3, <1>4, ReceiptAmounts
<1>6. Shows(k, g, S, 1)
  <2>1. ASSUME NEW i \in 1..l PROVE k[i + 1] = g[i]
    <3>1. PICK j : j = i + 1 /\ j \in 1..Len(t) /\ t[j] = s[i]
      BY <1>2
    <3>2. k[j] = t[j].amount
      BY <1>3, <3>1 DEF ReceiptedBy
    <3>3. g[i] = s[i].amount
      BY <1>1, <1>3 DEF ReceiptedBy
    <3> QED
      BY <3>1, <3>2, <3>3
  <2> QED
    BY <1>4, <2>1 DEF Shows
<1>7. PICK T : T = 1..(l + 1)
  OBVIOUS
<1>8. T \ {1} = MovedBy(S, 1) /\ 1 \in T
  <2>1. T \ {1} = 2..(l + 1) /\ 1 \in T
    BY <1>7
  <2>2. ASSUME NEW n PROVE n \in 2..(l + 1) <=> n \in MovedBy(S, 1)
    <3>1. ASSUME n \in 2..(l + 1) PROVE n \in MovedBy(S, 1)
      <4>1. PICK i \in 1..l : n = i + 1
        <5>1. n - 1 \in 1..l /\ n = (n - 1) + 1
          BY <3>1
        <5> QED
          BY <5>1
      <4> QED
        BY <1>4, <4>1 DEF MovedBy
    <3>2. ASSUME n \in MovedBy(S, 1) PROVE n \in 2..(l + 1)
      BY <1>4, <3>2 DEF MovedBy
    <3> QED
      BY <3>1, <3>2
  <2> QED
    BY <2>1, <2>2
<1>9. e.amount \in Int /\ k[1] = e.amount
  <2>1. 1 \in 1..Len(t)
    BY <1>2
  <2> QED
    BY <1>2, <1>3, <2>1 DEF ReceiptedBy, Billing!Receipt
<1>10. SumFunctionOnSet(k, T) = (IF 1 \in T THEN k[1] ELSE 0) + SumFunctionOnSet(g, S)
  BY <1>5, <1>6, <1>8, <1>9, SumOfPrepended
<1>11. Receipted(t) = SumFunctionOnSet(k, T) /\ Receipted(s) = SumFunctionOnSet(g, S)
  BY <1>1, <1>2, <1>3, <1>4, <1>7 DEF Receipted, ReceiptedBy
<1> QED
  BY <1>2, <1>8, <1>9, <1>10, <1>11

\* The school's receipt of a payment is the first of its debit, and is not of more
\* than the debit took.
LEMMA MoneyCollectForSchool ==
    ASSUME PaymentInv, NEW r \in Requests, CollectForSchool(r) PROVE PaymentInv'
<1>1. RowsInv /\ RowsInv'
  BY PaymentCollectForSchool DEF PaymentInv
<1>2. PICK q, n, o : q = reqs[r] /\ n = q.number /\ o = q.order
  OBVIOUS
<1>3. q.phase = "stored" /\ q.phase \in Landed /\ q.phase \in Unreceipted
  BY <1>2 DEF CollectForSchool, Landed, Phases, Unreceipted
<1>4. /\ q \in Request /\ n \in 1..Len(debits) /\ debits[n] = o /\ rows \in Seq(SUBSET Rows)
  BY <1>1, <1>2, <1>3, PaymentLanded
<1>5. PICK x : x = [q EXCEPT !.phase = "collected"]
  OBVIOUS
<1>6. x.phase = "collected" /\ x.number = n
  BY <1>2, <1>4, <1>5 DEF Request
<1>7. /\ reqs'[r] = x /\ \A s \in Requests : s # r => reqs'[s] = reqs[s]
  BY <1>1, <1>2, <1>5 DEF CollectForSchool, RowsInv, PaymentTypeOK
<1>8. /\ balance' = balance /\ debits' = debits
      /\ Billing!RecordMemberPayment(o.school, o.student, o.amount, "mobile")
  BY <1>2 DEF CollectForSchool, money
<1>9. "collected" \in Landed /\ "collected" \notin Unreceipted
  BY DEF Landed, Phases, Unreceipted
<1>10. CASE Billing!OpenInvoice(o.student) = 0
  <2>1. rows' = rows
    BY <1>2, <1>10 DEF CollectForSchool
  <2>2. invoices' = invoices /\ receipts' = receipts
    BY <1>8, <1>10 DEF Billing!RecordMemberPayment, Billing!vars, Billing!books
  <2>3. UNCHANGED <<money, invoices, receipts>>
    BY <1>8, <2>2 DEF money
  <2>4. \A s \in Requests :
           \/ reqs'[s].phase \notin Landed
           \/ /\ reqs[s].phase \in Landed /\ reqs'[s].number = reqs[s].number
              /\ reqs'[s].phase \in Unreceipted => reqs[s].phase \in Unreceipted
    BY <1>2, <1>3, <1>6, <1>7
  <2> QED
    BY <1>1, <2>1, <2>3, <2>4, MoneyStaysAsItIs
<1>11. CASE Billing!OpenInvoice(o.student) # 0
  <2>1. rows' = [rows EXCEPT ![n] = @ \cup {"receipt"}]
    BY <1>2, <1>11 DEF CollectForSchool
  <2>2. rows \in [1..Len(debits) -> SUBSET Rows]
    BY <1>1, LenProperties DEF RowsInv, PaymentTypeOK
  <2>3. /\ "receipt" \in rows'[n]
        /\ \A m \in 1..Len(debits) : m # n => rows'[m] = rows[m]
    BY <1>4, <2>1, <2>2
  <2>4. "receipt" \notin rows[n]
    BY <1>2, <1>3 DEF PaymentInv, ReceiptInv, NotReceiptedYet
  <2>5. PICK A : A = ReceiptedDebits
    OBVIOUS
  <2>6. A \in SUBSET (1..Len(debits)) /\ n \notin A /\ ReceiptedDebits' = A \cup {n}
    BY <1>4, <1>8, <2>3, <2>4, <2>5 DEF ReceiptedDebits
  <2>7. IsFiniteSet(A) /\ IntegerOn(AmountsOf(debits), A) /\ SumOf(A) \in Nat
    BY <1>1, <2>6, DebitAmounts
  <2>8. o.amount \in Nat
    BY <1>2, <1>4, PaymentConstants DEF Request, Order
  <2>9. AmountsOf(debits)[n] = o.amount
    BY <1>4 DEF AmountsOf
  <2>10. SumOf(A \cup {n}) = o.amount + SumOf(A)
    <3>1. AmountsOf(debits)[n] \in Int
      BY <2>8, <2>9
    <3>2. SumFunctionOnSet(AmountsOf(debits), A \cup {n})
              = AmountsOf(debits)[n] + SumFunctionOnSet(AmountsOf(debits), A)
      BY <2>6, <2>7, <3>1, SumAdds
    <3> QED
      BY <2>9, <3>2 DEF SumOf, AmountsOf
  <2>11. SumOf(ReceiptedDebits)' = o.amount + SumOf(A)
    BY <1>8, <2>6, <2>10 DEF SumOf
  <2>12. BooksTyped
    BY DEF PaymentInv, ReceiptInv
  <2>13. /\ invoices' \in Seq(Billing!Invoice)
         /\ \E e \in Billing!Receipt : e.amount <= o.amount /\ receipts' = <<e>> \o receipts
    BY <1>8, <1>11, <2>8, <2>12, RecordedInBooks
  <2>14. PICK e \in Billing!Receipt : e.amount <= o.amount /\ receipts' = <<e>> \o receipts
    BY <2>13
  <2>15. receipts' \in Seq(Billing!Receipt) /\ Receipted(receipts') = e.amount + Receipted(receipts)
    BY <2>12, <2>14, ReceiptCounts DEF BooksTyped
  <2>16. PICK a, b, c \in Int : a = e.amount /\ b = Receipted(receipts) /\ c = Receipted(SeedReceipts)
    BY <2>12, BookConstants, ReceiptAmounts DEF BooksTyped, Billing!Receipt
  <2>17. b - c <= SumOf(A)
    BY <2>5, <2>16 DEF PaymentInv, ReceiptInv, ReceiptsCounted
  <2>18. (a + b) - c <= o.amount + SumOf(A)
    <3>1. PICK d, m \in Nat : d = SumOf(A) /\ m = o.amount
      BY <2>7, <2>8
    <3>2. b - c <= d /\ a <= m
      BY <2>14, <2>16, <2>17, <3>1
    <3>3. (a + b) - c <= m + d
      BY <3>2
    <3> QED
      BY <3>1, <3>3
  <2>19. ReceiptsCounted'
    <3>1. Receipted(receipts)' = a + b
      BY <2>15, <2>16 DEF Receipted
    <3>2. Receipted(SeedReceipts)' = c
      BY <2>16 DEF Receipted
    <3> QED
      BY <2>11, <2>18, <3>1, <3>2 DEF ReceiptsCounted
  <2>20. BooksTyped'
    BY <2>13, <2>15 DEF BooksTyped
  <2>21. OwnDebits'
    BY <1>2, <1>3, <1>6, <1>7, <1>9 DEF PaymentInv, ReceiptInv, OwnDebits
  <2>22. NotReceiptedYet'
    <3>1. ASSUME NEW s \in Requests, reqs'[s].phase \in Unreceipted
          PROVE  "receipt" \notin rows'[reqs'[s].number]
      <4>1. s # r /\ reqs'[s] = reqs[s]
        BY <1>6, <1>7, <1>9, <3>1
      <4>2. reqs[s].phase \in Landed
        BY <3>1, <4>1 DEF Unreceipted, Landed, Phases
      <4>3. reqs[s].number # n
        BY <1>2, <1>3, <4>1, <4>2 DEF PaymentInv, ReceiptInv, OwnDebits
      <4>4. reqs[s].number \in 1..Len(debits) /\ "receipt" \notin rows[reqs[s].number]
        BY <3>1, <4>1, <4>2 DEF PaymentInv, RowsInv, Paid, ReceiptInv, NotReceiptedYet
      <4> QED
        BY <2>3, <4>1, <4>3, <4>4
    <3> QED
      BY <3>1 DEF NotReceiptedYet
  <2>23. BalanceInv'
    BY <1>8 DEF PaymentInv, BalanceInv, Debited, SumOf
  <2> QED
    BY <1>1, <2>19, <2>20, <2>21, <2>22, <2>23 DEF PaymentInv, ReceiptInv
<1> QED
  BY <1>10, <1>11

-----------------------------------------------------------------------------
LEMMA PaymentInvTick == ASSUME PaymentInv, Tick PROVE PaymentInv'
<1>1. /\ UNCHANGED <<money, invoices, receipts>> /\ rows' = rows /\ reqs' = reqs
  BY DEF Tick, books
<1>2. RowsInv'
  BY RowsInvTick DEF PaymentInv
<1> QED
  BY <1>1, <1>2, MoneyStaysAsItIs

\* A restart forgets the receipts, not the debits.
LEMMA PaymentInvRestart == ASSUME PaymentInv, PaymentsRestart PROVE PaymentInv'
<1>1. /\ balance' = balance /\ debits' = debits /\ rows' = rows
      /\ \A r \in Requests : reqs'[r] = Idle
      /\ invoices' = SeedInvoices /\ receipts' = SeedReceipts
  BY DEF PaymentsRestart, Billing!Restart, money
<1>2. RowsInv /\ RowsInv'
  BY RowsInvRestart DEF PaymentInv
<1>3. BalanceInv'
  BY <1>1 DEF PaymentInv, BalanceInv, Debited, SumOf
<1>4. \A r \in Requests : reqs'[r].phase \notin Landed /\ reqs'[r].phase \notin Unreceipted
  BY <1>1, IdleIsNotLanded DEF Idle, Unreceipted
<1>5. BooksTyped'
  BY <1>1, BookConstants DEF BooksTyped
<1>6. ReceiptsCounted'
  <2>1. ReceiptedDebits \in SUBSET (1..Len(debits))
    BY DEF ReceiptedDebits
  <2>2. PICK x \in Nat : x = SumOf(ReceiptedDebits)
    BY <1>2, <2>1, DebitAmounts
  <2>3. SumOf(ReceiptedDebits)' = x
    BY <1>1, <2>2 DEF SumOf, ReceiptedDebits
  <2>4. PICK y \in Int : y = Receipted(SeedReceipts)
    BY BookConstants, ReceiptAmounts
  <2>5. Receipted(receipts)' = y /\ Receipted(SeedReceipts)' = y
    BY <1>1, <2>4 DEF Receipted
  <2> QED
    BY <2>2, <2>3, <2>4, <2>5 DEF ReceiptsCounted
<1> QED
  BY <1>2, <1>3, <1>4, <1>5, <1>6 DEF PaymentInv, ReceiptInv, OwnDebits, NotReceiptedYet

LEMMA PaymentInvNext ==
    ASSUME PaymentInv, NEW r \in Requests, NEW orders \in SUBSET Order, PaymentNextOf(r, orders)
    PROVE  PaymentInv'
<1>1. RowsInv /\ RowsInv'
  BY RowsInvNext DEF PaymentInv
<1>2. reqs \in [Requests -> Request \cup {Idle}]
  BY <1>1 DEF RowsInv, PaymentTypeOK
<1>3. ASSUME UNCHANGED <<money, rows, books>>, NEW x, x.phase \notin Landed, reqs' = [reqs EXCEPT ![r] = x]
      PROVE  PaymentInv'
  <2>1. UNCHANGED <<money, invoices, receipts>> /\ rows' = rows
    BY <1>3 DEF books
  <2>2. \A s \in Requests : reqs'[s] = x \/ reqs'[s] = reqs[s]
    BY <1>2, <1>3
  <2> QED
    BY <1>1, <1>3, <2>1, <2>2, MoneyStaysAsItIs
<1>4. CASE \/ \E order \in Order, first \in Reads : FirstPaymentRead(r, order, first)
           \/ SecondPaymentRead(r)
  <2>1. PICK x \in Request \cup {Idle} :
            /\ x.phase \notin Landed /\ reqs' = [reqs EXCEPT ![r] = x]
            /\ UNCHANGED <<money, refs, rows, now, failures, books>>
    BY <1>1, <1>4, PaymentReads
  <2> QED
    BY <1>3, <2>1
<1>5. CASE Refuse(r) \/ CollideReference(r) \/ Fail(r)
  <2>1. UNCHANGED <<money, rows, books>> /\ reqs' = [reqs EXCEPT ![r] = Idle]
    BY <1>5 DEF Refuse, CollideReference, Fail
  <2> QED
    BY <1>3, <2>1, IdleIsNotLanded
<1>6. CASE Debit(r)
  BY <1>6, MoneyDebit
<1>7. CASE CollectForSchool(r)
  BY <1>7, MoneyCollectForSchool
<1>8. PICK q : q = reqs[r]
  OBVIOUS
<1>9. CASE StoreTransaction(r)
  <2>1. PICK x : x = [q EXCEPT !.phase = "transacted"]
    OBVIOUS
  <2>2. q.phase = "debited" /\ q.phase \in Landed /\ q.phase \in Unreceipted
    BY <1>8, <1>9 DEF StoreTransaction, Landed, Phases, Unreceipted
  <2>3. q \in Request
    BY <1>1, <1>8, <2>2, PaymentLanded
  <2>4. x.number = q.number
    BY <2>1, <2>3 DEF Request
  <2>5. /\ reqs' = [reqs EXCEPT ![r] = x] /\ rows' = [rows EXCEPT ![q.number] = @ \cup {"transaction"}]
        /\ UNCHANGED <<money, invoices, receipts>>
    BY <1>8, <1>9, <2>1 DEF StoreTransaction, Write, books
  <2> QED
    BY <1>1, <1>8, <2>2, <2>4, <2>5, MoneyWrite
<1>10. CASE StoreSchoolPayment(r)
  <2>1. PICK x : x = [q EXCEPT !.phase = "stored"]
    OBVIOUS
  <2>2. q.phase = "transacted" /\ q.phase \in Landed /\ q.phase \in Unreceipted
    BY <1>8, <1>10 DEF StoreSchoolPayment, Landed, Phases, Unreceipted
  <2>3. q \in Request
    BY <1>1, <1>8, <2>2, PaymentLanded
  <2>4. x.number = q.number
    BY <2>1, <2>3 DEF Request
  <2>5. /\ reqs' = [reqs EXCEPT ![r] = x] /\ rows' = [rows EXCEPT ![q.number] = @ \cup {"school_payment"}]
        /\ UNCHANGED <<money, invoices, receipts>>
    BY <1>8, <1>10, <2>1 DEF StoreSchoolPayment, Write, books
  <2> QED
    BY <1>1, <1>8, <2>2, <2>4, <2>5, MoneyWrite
<1>11. CASE Notify(r)
  <2>1. PICK x : x = [q EXCEPT !.phase = "notified"]
    OBVIOUS
  <2>2. q.phase \in {"collected", "transacted"} /\ q.phase \in Landed
    BY <1>8, <1>11 DEF Notify, Landed, Phases
  <2>3. q \in Request
    BY <1>1, <1>8, <2>2, PaymentLanded
  <2>4. x.number = q.number /\ x.phase \notin Unreceipted
    BY <2>1, <2>3 DEF Request, Unreceipted
  <2>5. /\ reqs' = [reqs EXCEPT ![r] = x] /\ rows' = [rows EXCEPT ![q.number] = @ \cup {"notification"}]
        /\ UNCHANGED <<money, invoices, receipts>>
    BY <1>8, <1>11, <2>1 DEF Notify, Write, books
  <2> QED
    BY <1>1, <1>8, <2>2, <2>4, <2>5, MoneyWrite
<1>12. CASE Audit(r)
  <2>1. q.phase \in Landed
    BY <1>8, <1>12 DEF Audit, Landed, Phases
  <2>2. /\ reqs' = [reqs EXCEPT ![r] = Idle] /\ rows' = [rows EXCEPT ![q.number] = @ \cup {"audit"}]
        /\ UNCHANGED <<money, invoices, receipts>>
    BY <1>8, <1>12 DEF Audit, Write, books
  <2> QED
    BY <1>1, <1>8, <2>1, <2>2, IdleIsNotLanded, MoneyWrite
<1> QED
  BY <1>4, <1>5, <1>6, <1>7, <1>9, <1>10, <1>11, <1>12 DEF PaymentNextOf, RequestStep
-----------------------------------------------------------------------------
(* Sessions: any number of challenges and of requests.                           *)

(* What a login under way knows: its session is there; one that is about to be *)
(* saved was ended, if at all, while a verify was about to save it; one that is *)
(* saved is verified, or ended since.                                           *)
Live(n) == n = ByPassword \/ n \in overtaken \cup revoked \/ sessions[n] = "verified"
OfALogin(n) == n = ByPassword \/ n \in 1..Len(sessions)

CallsAreSound ==
    \A k \in PhoneCalls :
        /\ phoneCall[k].at = "save" =>
              /\ phoneCall[k].login \in 1..Len(sessions)
              /\ sessions[phoneCall[k].login] = "logged_out" => phoneCall[k].login \in revived
        /\ phoneCall[k].at = "answer" =>
              OfALogin(phoneCall[k].login) /\ Live(phoneCall[k].login)

PhoneIsSound ==
    signedIn # 0 => /\ OfALogin(signedIn) /\ Live(signedIn)
                    /\ tokens = signedIn \/ wiped

SessionInv == SessionTypeOK /\ CallsAreSound /\ PhoneIsSound

-----------------------------------------------------------------------------
(* The invariant says more than the property.                                 *)
LEMMA SignedInIsLiveHolds == ASSUME SessionInv PROVE SignedInIsLive
  BY DEF SessionInv, PhoneIsSound, Live, SignedInIsLive

LEMMA SessionInvInit == ASSUME SessionInit PROVE SessionInv
<1>1. sessions = << >> /\ sessions \in Seq(SessionStatus) /\ Len(sessions) = 0
  BY DEF SessionInit
<1>2. ByPassword \in Nat /\ 0 \in Logins
  BY SessionConstants DEF Logins, ByPassword
<1>3. phoneCall \in [PhoneCalls -> PhoneCall \cup {Unsent, Over}]
  BY DEF SessionInit
<1>4. /\ lapsed \subseteq DOMAIN sessions /\ revived \subseteq DOMAIN sessions
      /\ overtaken \subseteq DOMAIN sessions /\ revoked \subseteq DOMAIN sessions
      /\ wiped \in BOOLEAN /\ signedIn \in Logins /\ tokens \in Logins
  BY <1>2 DEF SessionInit
<1>5. challenge \in 0..Len(sessions) /\ Len(sessions) <= MaxSessions
  BY <1>1, SessionConstants DEF SessionInit
<1>6. SessionTypeOK
  BY <1>1, <1>3, <1>4, <1>5 DEF SessionTypeOK
<1>7. CallsAreSound /\ PhoneIsSound
  BY DEF SessionInit, CallsAreSound, PhoneIsSound, Unsent
<1> QED
  BY <1>6, <1>7 DEF SessionInv

LEMMA SessionInvStutter == ASSUME SessionInv, UNCHANGED sessionVars PROVE SessionInv'
  BY DEF SessionInv, SessionTypeOK, CallsAreSound, PhoneIsSound, Live, OfALogin, sessionVars,
     server, phone, ghosts

\* A challenge is one more session, and none of the others changes.
LEMMA SessionInvStartLogin == ASSUME SessionInv, StartLogin PROVE SessionInv'
<1>1. /\ Len(sessions') = Len(sessions) + 1 /\ Len(sessions) \in Nat
      /\ \A n \in 1..Len(sessions) : sessions'[n] = sessions[n]
      /\ sessions' \in Seq(SessionStatus)
  BY DEF SessionInv, SessionTypeOK, StartLogin, SessionStatus
<1>2. SessionTypeOK'
  BY <1>1, SessionConstants DEF SessionInv, SessionTypeOK, StartLogin, ghosts
<1>3. CallsAreSound'
  BY <1>1, SessionConstants
     DEF SessionInv, CallsAreSound, Live, OfALogin, StartLogin, ghosts
<1>4. PhoneIsSound'
  BY <1>1 DEF SessionInv, StartLogin, AtLogin, PhoneIsSound
<1> QED
  BY <1>2, <1>3, <1>4 DEF SessionInv

LEMMA SessionInvLapse == ASSUME SessionInv, NEW n \in DOMAIN sessions, Lapse(n) PROVE SessionInv'
  BY DEF SessionInv, SessionTypeOK, CallsAreSound, PhoneIsSound, Live, OfALogin, Lapse, phone,
     ghosts

LEMMA SessionInvRevoke ==
    ASSUME SessionInv, NEW n \in DOMAIN sessions, RevokeSession(n) PROVE SessionInv'
<1>1. /\ Len(sessions') = Len(sessions) /\ DOMAIN sessions = 1..Len(sessions)
      /\ DOMAIN sessions' = DOMAIN sessions
      /\ \A i \in 1..Len(sessions) : sessions'[i] = IF i = n THEN "logged_out" ELSE sessions[i]
      /\ sessions' \in Seq(SessionStatus)
  BY DEF SessionInv, SessionTypeOK, RevokeSession, SessionStatus
<1>2. SessionTypeOK'
  BY <1>1 DEF SessionInv, SessionTypeOK, RevokeSession, phone
<1>3. CallsAreSound'
  BY <1>1 DEF SessionInv, CallsAreSound, Live, OfALogin, RevokeSession, Verifying
<1>4. PhoneIsSound'
  BY <1>1 DEF SessionInv, PhoneIsSound, Live, OfALogin, RevokeSession, phone
<1> QED
  BY <1>2, <1>3, <1>4 DEF SessionInv

\* The logout of all sessions, when its request arrives.
LEMMA SessionInvServeLogout ==
    ASSUME SessionInv, NEW k \in PhoneCalls, ServeLogout(k) PROVE SessionInv'
<1>1. /\ DOMAIN sessions = 1..Len(sessions)
      /\ phoneCall' = [phoneCall EXCEPT ![k].at = "cleared"]
      /\ \A j \in PhoneCalls : j # k => phoneCall'[j] = phoneCall[j]
      /\ phoneCall'[k].at = "cleared" /\ phoneCall[k].at = "logout"
      /\ phoneCall' \in [PhoneCalls -> PhoneCall \cup {Unsent, Over}]
  BY DEF SessionInv, SessionTypeOK, ServeLogout, PhoneCall, Unsent, Over
<1>2. CASE phoneCall[k].login = 0
  BY <1>1, <1>2 DEF SessionInv, SessionTypeOK, CallsAreSound, PhoneIsSound, Live, OfALogin,
     ServeLogout, phone
<1>3. CASE phoneCall[k].login # 0
  <2>1. /\ sessions' = [n \in 1..Len(sessions) |-> LoggedOut(sessions[n])]
        /\ revived' = revived \cup ({n \in DOMAIN sessions : sessions[n] # "logged_out"} \cap Verifying)
        /\ overtaken' = overtaken \cup {n \in {i \in DOMAIN sessions : sessions[i] # "logged_out"} : InUse(n)}
        /\ UNCHANGED <<lapsed, challenge, signedIn, tokens, revoked, wiped>>
    BY <1>1, <1>3 DEF ServeLogout, phone
  <2>2. /\ sessions' \in Seq(SessionStatus) /\ Len(sessions') = Len(sessions)
        /\ \A n \in 1..Len(sessions) : sessions'[n] = "logged_out"
    BY <2>1 DEF SessionInv, SessionTypeOK, SessionStatus, LoggedOut
  <2>3. SessionTypeOK'
    BY <1>1, <2>1, <2>2 DEF SessionInv, SessionTypeOK
  <2>4. ASSUME NEW n \in 1..Len(sessions), InUse(n), Live(n)
        PROVE  Live(n)'
    BY <1>1, <2>1, <2>4, SessionConstants DEF Live, SessionInv, SessionTypeOK, ByPassword
  <2>5. CallsAreSound'
    <3> SUFFICES ASSUME NEW j \in PhoneCalls, j # k
                 PROVE  /\ phoneCall[j].at = "save" => phoneCall[j].login \in 1..Len(sessions) /\ phoneCall[j].login \in revived'
                        /\ phoneCall[j].at = "answer" => OfALogin(phoneCall[j].login) /\ Live(phoneCall[j].login)'
      BY <1>1, <2>2 DEF CallsAreSound, OfALogin, Live
    <3>1. ASSUME phoneCall[j].at = "save"
          PROVE  phoneCall[j].login \in 1..Len(sessions) /\ phoneCall[j].login \in revived'
      BY <1>1, <2>1, <3>1 DEF SessionInv, CallsAreSound, Verifying
    <3>2. ASSUME phoneCall[j].at = "answer"
          PROVE  OfALogin(phoneCall[j].login) /\ Live(phoneCall[j].login)'
      <4>1. OfALogin(phoneCall[j].login) /\ Live(phoneCall[j].login)
        BY <3>2 DEF SessionInv, CallsAreSound
      <4>2. CASE phoneCall[j].login = ByPassword
        BY <1>1, <4>1, <4>2 DEF Live
      <4>3. CASE phoneCall[j].login \in 1..Len(sessions)
        <5>1. InUse(phoneCall[j].login)
          BY <3>2 DEF InUse
        <5> QED
          BY <1>1, <4>1, <4>3, <5>1, <2>4 DEF Live
      <4> QED
        BY <4>1, <4>2, <4>3 DEF OfALogin
    <3> QED
      BY <3>1, <3>2
  <2>6. PhoneIsSound'
    <3> SUFFICES ASSUME signedIn # 0
                 PROVE  OfALogin(signedIn) /\ Live(signedIn)' /\ (tokens = signedIn \/ wiped)
      BY <2>1, <2>2 DEF PhoneIsSound, OfALogin, Live
    <3>1. OfALogin(signedIn) /\ Live(signedIn) /\ (tokens = signedIn \/ wiped)
      BY DEF SessionInv, PhoneIsSound
    <3>2. CASE signedIn = ByPassword
      BY <2>1, <3>1, <3>2 DEF Live
    <3>3. CASE signedIn \in 1..Len(sessions)
      <4>1. InUse(signedIn)
        BY DEF InUse
      <4> QED
        BY <2>1, <3>1, <3>3, <4>1, <2>4 DEF Live
    <3> QED
      BY <3>1, <3>2, <3>3 DEF OfALogin
  <2> QED
    BY <2>3, <2>5, <2>6 DEF SessionInv
<1> QED
  BY <1>2, <1>3

\* The steps of one request.
LEMMA SessionInvOf ==
    ASSUME SessionInv, NEW k \in PhoneCalls, SessionNextOf(k) PROVE SessionInv'
<1> USE DEF SessionInv
<1>a. /\ phoneCall \in [PhoneCalls -> PhoneCall \cup {Unsent, Over}]
      /\ sessions \in Seq(SessionStatus) /\ Len(sessions) \in Nat /\ MaxSessions \in Nat
      /\ phoneCall[k].at \in {"save", "answer", "logout", "cleared"} => phoneCall[k] \in PhoneCall
  BY SessionConstants DEF SessionTypeOK, Unsent, Over
\* The requests but k's stay what they are, and k's new state is sound.
<1>b. ASSUME NEW x \in PhoneCall \cup {Unsent, Over}, phoneCall' = [phoneCall EXCEPT ![k] = x],
             server' = server, UNCHANGED <<revived, overtaken, revoked>>,
             x.at = "save" => /\ x.login \in 1..Len(sessions)
                              /\ sessions[x.login] = "logged_out" => x.login \in revived,
             x.at = "answer" => OfALogin(x.login) /\ Live(x.login)
      PROVE  CallsAreSound' /\ phoneCall' \in [PhoneCalls -> PhoneCall \cup {Unsent, Over}]
  <2>1. \A j \in PhoneCalls : phoneCall'[j] = IF j = k THEN x ELSE phoneCall[j]
    BY <1>a, <1>b
  <2>2. phoneCall' \in [PhoneCalls -> PhoneCall \cup {Unsent, Over}]
    BY <1>a, <1>b
  <2>3. sessions' = sessions
    BY <1>b DEF server
  <2> QED
    BY <1>b, <2>1, <2>2, <2>3 DEF CallsAreSound, Live, OfALogin
<1>c. ASSUME server' = server, UNCHANGED <<revived, overtaken, revoked>>, challenge' \in {0, challenge},
             signedIn' \in Logins, tokens' \in Logins, wiped' \in BOOLEAN,
             phoneCall' \in [PhoneCalls -> PhoneCall \cup {Unsent, Over}]
      PROVE  SessionTypeOK'
  BY <1>a, <1>c DEF SessionTypeOK, server
<1>d. ASSUME UNCHANGED <<sessions, signedIn, overtaken, revoked>>,
             signedIn # 0 => tokens' = signedIn \/ wiped'
      PROVE  PhoneIsSound'
  BY <1>d DEF PhoneIsSound, Live, OfALogin
<1>e. /\ Over \in PhoneCall \cup {Unsent, Over} /\ Over.at = "over"
      /\ signedIn \in Logins /\ tokens \in Logins /\ wiped \in BOOLEAN /\ 0 \in Logins
      /\ ByPassword \in Logins /\ \A n \in 1..Len(sessions) : n \in Logins
  BY SessionConstants DEF Over, SessionTypeOK, Logins, ByPassword
<1>1. CASE VerifyPin(k)
  <2> DEFINE x == [at |-> "save", login |-> challenge, heard |-> TRUE]
  <2>1. challenge \in 1..Len(sessions) /\ sessions[challenge] = "pending"
    BY <1>1, <1>a DEF VerifyPin, MayVerify, SessionTypeOK
  <2>2. x \in PhoneCall
    BY <2>1, <1>e DEF PhoneCall
  <2>3. CallsAreSound' /\ phoneCall' \in [PhoneCalls -> PhoneCall \cup {Unsent, Over}]
    BY <1>1, <1>b, <2>1, <2>2 DEF VerifyPin, ghosts
  <2> QED
    BY <1>1, <1>c, <1>d, <1>e, <2>3 DEF VerifyPin, phone, ghosts, server, PhoneIsSound
<1>2. CASE SaveVerified(k)
  <2> DEFINE n == phoneCall[k].login
  <2>1. /\ n \in 1..Len(sessions) /\ phoneCall[k] \in PhoneCall /\ n \in Logins
        /\ sessions' = [sessions EXCEPT ![n] = "verified"]
        /\ phoneCall' = [phoneCall EXCEPT ![k].at = "answer"]
        /\ UNCHANGED <<lapsed, challenge, signedIn, tokens, revived, overtaken, revoked, wiped>>
    BY <1>2, <1>a, <1>e DEF SaveVerified, CallsAreSound, phone, ghosts
  <2>2. /\ Len(sessions') = Len(sessions) /\ DOMAIN sessions = 1..Len(sessions)
        /\ DOMAIN sessions' = DOMAIN sessions
        /\ \A i \in 1..Len(sessions) : sessions'[i] = IF i = n THEN "verified" ELSE sessions[i]
        /\ sessions' \in Seq(SessionStatus)
    BY <2>1, <1>a DEF SessionStatus
  <2>3. /\ phoneCall'[k].login = n /\ phoneCall'[k].at = "answer"
        /\ phoneCall' \in [PhoneCalls -> PhoneCall \cup {Unsent, Over}]
        /\ \A j \in PhoneCalls : j # k => phoneCall'[j] = phoneCall[j]
    BY <2>1, <1>a DEF PhoneCall
  <2>4. SessionTypeOK'
    BY <2>1, <2>2, <2>3 DEF SessionTypeOK
  <2>5. CallsAreSound'
    BY <2>1, <2>2, <2>3 DEF CallsAreSound, Live, OfALogin
  <2>6. PhoneIsSound'
    BY <2>1, <2>2 DEF PhoneIsSound, Live, OfALogin
  <2> QED
    BY <2>4, <2>5, <2>6
<1>3. CASE LoginByPassword(k)
  <2> DEFINE x == [at |-> "answer", login |-> ByPassword, heard |-> TRUE]
  <2>1. x \in PhoneCall
    BY <1>e DEF PhoneCall
  <2>2. CallsAreSound' /\ phoneCall' \in [PhoneCalls -> PhoneCall \cup {Unsent, Over}]
    BY <1>3, <1>b, <2>1 DEF LoginByPassword, ghosts, OfALogin, Live
  <2> QED
    BY <1>3, <1>c, <1>d, <1>e, <2>2 DEF LoginByPassword, phone, ghosts, server, PhoneIsSound
<1>4. CASE SignIn(k)
  <2> DEFINE n == phoneCall[k].login
  <2>1. OfALogin(n) /\ Live(n) /\ n \in Logins
    BY <1>4, <1>e DEF SignIn, CallsAreSound, OfALogin
  <2>2. CallsAreSound' /\ phoneCall' \in [PhoneCalls -> PhoneCall \cup {Unsent, Over}]
    BY <1>4, <1>b, <1>e DEF SignIn, Ended
  <2>3. PhoneIsSound'
    BY <1>4, <2>1 DEF SignIn, PhoneIsSound, OfALogin, Live, server
  <2> QED
    BY <1>4, <1>c, <2>1, <2>2, <2>3 DEF SignIn
<1>5. CASE Unheard(k)
  <2>1. CallsAreSound' /\ phoneCall' \in [PhoneCalls -> PhoneCall \cup {Unsent, Over}]
    BY <1>5, <1>b, <1>e DEF Unheard, Ended, ghosts
  <2> QED
    BY <1>5, <1>c, <1>d, <1>e, <2>1 DEF Unheard, phone, ghosts, server, PhoneIsSound
<1>6. CASE GiveUp(k)
  <2> DEFINE x == [phoneCall[k] EXCEPT !.heard = FALSE]
  <2>1. phoneCall[k] \in PhoneCall /\ phoneCall' = [phoneCall EXCEPT ![k] = x]
    BY <1>6, <1>a DEF GiveUp
  <2>2. x \in PhoneCall /\ x.at = phoneCall[k].at /\ x.login = phoneCall[k].login
    BY <2>1 DEF PhoneCall
  <2>3. CallsAreSound' /\ phoneCall' \in [PhoneCalls -> PhoneCall \cup {Unsent, Over}]
    BY <1>6, <1>b, <2>1, <2>2 DEF GiveUp, ghosts, CallsAreSound
  <2> QED
    BY <1>6, <1>c, <1>d, <1>e, <2>3 DEF GiveUp, phone, ghosts, server, PhoneIsSound
<1>7. CASE Logout(k)
  <2> DEFINE x == [at |-> "logout", login |-> tokens, heard |-> FALSE]
  <2>1. x \in PhoneCall
    BY <1>e DEF PhoneCall
  <2>2. CallsAreSound' /\ phoneCall' \in [PhoneCalls -> PhoneCall \cup {Unsent, Over}]
    BY <1>7, <1>b, <2>1 DEF Logout, ghosts
  <2>3. PhoneIsSound'
    BY <1>7 DEF Logout, PhoneIsSound
  <2> QED
    BY <1>7, <1>c, <1>e, <2>2, <2>3 DEF Logout, ghosts, server
<1>8. CASE ServeLogout(k)
  BY <1>8, SessionInvServeLogout
<1>9. CASE LogoutAnswered(k)
  <2>1. CallsAreSound' /\ phoneCall' \in [PhoneCalls -> PhoneCall \cup {Unsent, Over}]
    BY <1>9, <1>b, <1>e DEF LogoutAnswered, Ended
  <2>2. wiped' = (signedIn # 0) /\ wiped' \in BOOLEAN
    BY <1>9 DEF LogoutAnswered
  <2> QED
    BY <1>9, <1>c, <1>d, <1>e, <2>1, <2>2 DEF LogoutAnswered, server
<1>10. CASE LogoutLost(k)
  <2>1. CallsAreSound' /\ phoneCall' \in [PhoneCalls -> PhoneCall \cup {Unsent, Over}]
    BY <1>10, <1>b, <1>e DEF LogoutLost, Ended, ghosts
  <2> QED
    BY <1>10, <1>c, <1>d, <1>e, <2>1 DEF LogoutLost, phone, ghosts, server, PhoneIsSound
<1> QED
  BY <1>1, <1>2, <1>3, <1>4, <1>5, <1>6, <1>7, <1>8, <1>9, <1>10 DEF SessionNextOf

LEMMA SessionInvNext == ASSUME SessionInv, SessionNext PROVE SessionInv'
  BY SessionInvStartLogin, SessionInvLapse, SessionInvRevoke, SessionInvOf DEF SessionNext

-----------------------------------------------------------------------------
\* Only the save of a verify makes a session that was logged out verified.
LoggedOutStays ==
    \A n \in DOMAIN sessions :
        sessions[n] = "logged_out" => sessions'[n] = "logged_out" \/ n \in revived

LEMMA LoggedOutStaysNext == ASSUME SessionInv, SessionNext PROVE LoggedOutStays
<1> USE DEF SessionInv, SessionTypeOK, LoggedOutStays
<1>1. CASE StartLogin
  BY <1>1 DEF StartLogin
<1>2. CASE \E n \in DOMAIN sessions : Lapse(n) \/ RevokeSession(n)
  BY <1>2 DEF Lapse, RevokeSession
<1>3. ASSUME NEW k \in PhoneCalls, SessionNextOf(k) PROVE LoggedOutStays
  <2>1. CASE SaveVerified(k)
    BY <2>1 DEF SaveVerified, CallsAreSound
  <2>2. CASE ServeLogout(k)
    BY <2>2 DEF ServeLogout, LoggedOut
  <2> QED
    BY <1>3, <2>1, <2>2 DEF SessionNextOf, VerifyPin, LoginByPassword, SignIn, Unheard, GiveUp,
       Logout, LogoutAnswered, LogoutLost, server
<1> QED
  BY <1>1, <1>2, <1>3 DEF SessionNext

-----------------------------------------------------------------------------
(* The bank.                                                                      *)

(* What a payment under way has read held then: the customer is still verified, *)
(* the account still unlocked, or the payment is remembered to have read it     *)
(* before it ceased to be.  Of each read for itself: they are two queries.      *)
StandingKept ==
    \A r \in Requests, read \in Reads :
        HasRead(reqs[r], read) => Holds(read) \/ <<r, read>> \in passed

BankInv ==
    /\ OnboardInv /\ SelfInv /\ PaymentInv /\ SessionInv
    /\ load \in Loads /\ passed \subseteq Requests \X Reads
    /\ StandingKept

LEMMA BankInvInit == ASSUME Init PROVE BankInv
<1>1. OnboardInv /\ SelfInv /\ PaymentInv /\ SessionInv
  BY OnboardInvInit, SelfInvInit, PaymentInvInit, SessionInvInit DEF Init
<1>2. load \in Loads /\ passed \subseteq Requests \X Reads
  BY DEF Init
<1>3. StandingKept
  BY DEF Init, PaymentInit, StandingKept, HasRead, Idle
<1> QED
  BY <1>1, <1>2, <1>3 DEF BankInv

-----------------------------------------------------------------------------
\* No request is under way after a restart, and the phone is as it was.
LEMMA SessionInvRestart ==
    ASSUME SessionInv,
           phoneCall' = [k \in PhoneCalls |-> IF phoneCall[k] = Unsent THEN Unsent ELSE Over],
           UNCHANGED <<server, phone, ghosts>>
    PROVE  SessionInv'
<1>1. \A k \in PhoneCalls : phoneCall'[k] \in {Unsent, Over}
  OBVIOUS
<1>2. phoneCall' \in [PhoneCalls -> PhoneCall \cup {Unsent, Over}]
  BY <1>1
<1>3. SessionTypeOK'
  BY <1>2 DEF SessionInv, SessionTypeOK, server, phone, ghosts
<1>4. CallsAreSound'
  BY <1>1 DEF CallsAreSound, Unsent, Over
<1>5. PhoneIsSound'
  BY DEF SessionInv, PhoneIsSound, OfALogin, Live, server, phone, ghosts
<1> QED
  BY <1>3, <1>4, <1>5 DEF SessionInv

\* The calls a load allows are among those there can be.
LEMMA LoadsAreOfCalls ==
    ASSUME load \in Loads
    PROVE  /\ 1..load.onboarding \subseteq OnboardCalls
           /\ 1..load.selfService \subseteq SelfCalls
           /\ load.payments \subseteq Requests /\ load.orders \subseteq Order
<1>1. /\ load.onboarding \in 0..MaxOnboardCalls /\ load.selfService \in 0..MaxSelfCalls
      /\ load.payments \subseteq Requests /\ load.orders \subseteq Order
  BY LoadsAreBounds
<1>2. MaxOnboardCalls \in Nat /\ MaxSelfCalls \in Nat
  BY OnboardConstants, SelfConstants
<1> QED
  BY <1>1, <1>2 DEF OnboardCalls, SelfCalls

\* A payment reads the member when the customer is verified, the lock when it is off.
LEMMA ReadWithStanding ==
    ASSUME BankInv, Next, NEW r \in Requests, NEW read \in Reads,
           ~HasRead(reqs[r], read), HasRead(reqs'[r], read)
    PROVE  Holds(read)
<1>1. reqs \in [Requests -> Request \cup {Idle}]
  BY DEF BankInv, PaymentInv, RowsInv, PaymentTypeOK
<1>2. ~(UNCHANGED paymentVars) /\ ~Tick
  BY DEF paymentVars, Tick
<1>3. ~Restart
  BY DEF Restart, PaymentsRestart, HasRead, Idle
<1>4. PICK s \in Requests : PaymentNextOf(s, load.orders)
  BY <1>2, <1>3, LoadsAreOfCalls DEF Next, BankInv
<1>5. ASSUME NEW order \in load.orders, NEW first \in Reads, FirstPaymentRead(s, order, first)
      PROVE  Holds(read)
  <2>1. s = r
    BY <1>1, <1>5 DEF FirstPaymentRead
  <2>2. reqs'[r].phase = Awaiting(Other(first))
    BY <1>1, <1>5, <2>1 DEF FirstPaymentRead
  <2>3. read = first
    BY <2>2, ReadsAwaited DEF HasRead
  <2> QED
    BY <1>5, <2>3 DEF FirstPaymentRead, Holds
<1>6. CASE SecondPaymentRead(s)
  <2>1. s = r
    BY <1>1, <1>6 DEF SecondPaymentRead
  <2>2. PICK awaited \in Reads :
            /\ reqs[r].phase = Awaiting(awaited)
            /\ reqs' = [reqs EXCEPT ![r] = IF Passes(awaited, TRUE, TRUE)
                                           THEN [@ EXCEPT !.phase = "admitted"] ELSE Idle]
    BY <1>6, <2>1 DEF SecondPaymentRead
  <2>3. reqs[r].phase # "idle"
    BY <2>2, ReadsAwaited DEF Readings
  <2>4. awaited = read
    BY <2>2, <2>3, ReadsAwaited DEF HasRead
  <2>5. Passes(awaited, TRUE, TRUE)
    BY <1>1, <2>2 DEF HasRead, Idle
  <2> QED
    BY <2>4, <2>5 DEF Holds
<1>7. CASE RequestStep(s) /\ ~SecondPaymentRead(s)
  <2>1. reqs[s].phase \in Landed \cup {"admitted"}
    BY <1>7 DEF RequestStep, Debit, Refuse, StoreTransaction, CollideReference, StoreSchoolPayment,
       CollectForSchool, Notify, Audit, Phases, Landed
  <2>2. HasRead(reqs[s], read)
    BY <2>1, ReadsAwaited DEF HasRead, Landed, Phases, Readings
  <2>3. s # r
    BY <2>2
  <2>4. reqs'[r] = reqs[r]
    BY <1>1, <1>7, <2>3 DEF RequestStep, Debit, Refuse, StoreTransaction, CollideReference,
       StoreSchoolPayment, CollectForSchool, Notify, Audit, Write
  <2> QED
    BY <2>4
<1>8. CASE Fail(s)
  BY <1>1, <1>8 DEF Fail, HasRead, Idle
<1> QED
  BY <1>4, <1>5, <1>6, <1>7, <1>8 DEF PaymentNextOf

LEMMA BankInvNext == ASSUME BankInv, [Next]_vars PROVE BankInv'
<1> USE DEF BankInv
<1>1. CASE UNCHANGED vars
  <2>1. /\ UNCHANGED onboardVars /\ UNCHANGED selfVars /\ UNCHANGED paymentVars /\ UNCHANGED sessionVars
        /\ load' = load /\ passed' = passed
    BY <1>1 DEF vars
  <2>2. StandingKept'
    BY <2>1 DEF StandingKept, Holds, Passes, onboardVars, selfVars, paymentVars
  <2> QED
    BY <2>1, <2>2, OnboardInvStutter, SelfInvStutter, PaymentInvStutter, SessionInvStutter
<1>2. CASE Next
  <2>1. OnboardInv' /\ SelfInv' /\ PaymentInv' /\ SessionInv'
    <3>1. ASSUME NEW k \in 1..load.onboarding, OnboardNextOf(k, load.about), UNCHANGED <<selfVars, paymentVars, sessionVars>>
          PROVE  OnboardInv' /\ SelfInv' /\ PaymentInv' /\ SessionInv'
      BY <3>1, LoadsAreOfCalls, OnboardInvNext, SelfInvStutter, PaymentInvStutter, SessionInvStutter
    <3>2. ASSUME NEW k \in 1..load.selfService, SelfNextOf(k, load.about), UNCHANGED <<onboardVars, paymentVars, sessionVars>>
          PROVE  OnboardInv' /\ SelfInv' /\ PaymentInv' /\ SessionInv'
      BY <3>2, LoadsAreOfCalls, OnboardInvStutter, SelfInvNext, PaymentInvStutter, SessionInvStutter
    <3>3. ASSUME Tick, UNCHANGED <<onboardVars, selfVars, sessionVars>>
          PROVE  OnboardInv' /\ SelfInv' /\ PaymentInv' /\ SessionInv'
      BY <3>3, OnboardInvStutter, SelfInvStutter, PaymentInvTick, SessionInvStutter
    <3>4. ASSUME NEW r \in load.payments, PaymentNextOf(r, load.orders), UNCHANGED <<onboardVars, selfVars, sessionVars>>
          PROVE  OnboardInv' /\ SelfInv' /\ PaymentInv' /\ SessionInv'
      BY <3>4, LoadsAreOfCalls, OnboardInvStutter, SelfInvStutter, PaymentInvNext, SessionInvStutter
    <3>5. ASSUME SessionNext, UNCHANGED <<onboardVars, selfVars, paymentVars>>
          PROVE  OnboardInv' /\ SelfInv' /\ PaymentInv' /\ SessionInv'
      BY <3>5, OnboardInvStutter, SelfInvStutter, PaymentInvStutter, SessionInvNext
    <3>6. CASE Restart
      <4>1. OnboardInv'
        BY <3>6, OnboardInvRestart DEF Restart
      <4>2. SelfInv'
        BY <3>6, SelfInvRestart DEF Restart
      <4>3. PaymentInv'
        BY <3>6, PaymentInvRestart DEF Restart
      <4>4. SessionInv'
        BY <3>6, SessionInvRestart DEF Restart
      <4> QED
        BY <4>1, <4>2, <4>3, <4>4
    <3> QED
      BY <1>2, <3>1, <3>2, <3>3, <3>4, <3>5, <3>6 DEF Next
  <2>2. /\ load' = load
        /\ passed' = {p \in Requests \X Reads :
                         /\ HasRead(reqs'[p[1]], p[2])
                         /\ p \in passed \/ (Holds(p[2]) /\ ~Holds(p[2])')}
    BY <1>2 DEF Next, Remember
  <2>3. StandingKept'
    <3> SUFFICES ASSUME NEW r \in Requests, NEW read \in Reads, HasRead(reqs'[r], read), ~Holds(read)'
                 PROVE  <<r, read>> \in passed'
      BY DEF StandingKept, HasRead
    <3>1. Holds(read) \/ <<r, read>> \in passed
      BY <1>2, ReadWithStanding DEF StandingKept
    <3> QED
      BY <2>2, <3>1
  <2> QED
    BY <2>1, <2>2, <2>3
<1> QED
  BY <1>1, <1>2

\* The inductive invariant of the bank.
THEOREM BankInvariance == Spec => []BankInv
<1>1. Init => BankInv
  BY BankInvInit
<1>2. BankInv /\ [Next]_vars => BankInv'
  BY BankInvNext
<1> QED
  BY <1>1, <1>2, PTL DEF Spec

-----------------------------------------------------------------------------
(* Everything has its type, of every collection and of every call.              *)
THEOREM TypeCorrect == Spec => []TypeOK
<1>1. BankInv => TypeOK
  BY DEF BankInv, OnboardInv, SelfInv, PaymentInv, RowsInv, SessionInv, TypeOK
<1> QED
  BY <1>1, BankInvariance, PTL

(* Members are numbered without a gap and never twice, in the order they are    *)
(* inserted, for any number of registrations that count the members and insert  *)
(* one as separate awaits (generateStandardIdentifiers).                        *)
THEOREM MembersAreNumbered == Spec => []NumbersAreConsecutive
<1>1. BankInv => NumbersAreConsecutive
  BY OnboardHolds DEF BankInv
<1> QED
  BY <1>1, BankInvariance, PTL

(* A member's documents agree, unless two reviews or two submissions were under *)
(* way at once or one stopped half-way: registration, verification and review   *)
(* write the member, the profile and the verification one after the other.      *)
THEOREM DocumentsStayConsistent == Spec => []DocumentsAgree
<1>1. BankInv => DocumentsAgree
  BY OnboardHolds DEF BankInv
<1> QED
  BY <1>1, BankInvariance, PTL

(* What a member last set or asked for is what the bank holds and has told,     *)
(* unless two calls about the same were under way at once or one stopped        *)
(* half-way (updateAccountLock, updateAutopayStatus, createAtmCardRequest).     *)
THEOREM SelfServiceIsAsTold == Spec => []SelfServiceHolds
<1>1. BankInv => SelfServiceHolds
  BY SelfServiceHoldsNow DEF BankInv
<1> QED
  BY <1>1, BankInvariance, PTL

(* The records of a payment appear in their order, whatever fails in between,   *)
(* of any number of payments in flight (createSchoolPayment, createQrPayment).  *)
THEOREM PaymentRecordsInOrder == Spec => []RecordsInOrder
<1>1. BankInv => RecordsInOrder
  BY RecordsInOrderHolds DEF BankInv, PaymentInv
<1> QED
  BY <1>1, BankInvariance, PTL

(* No interleaving of payments overdraws an account, and its balance is what    *)
(* the debits left of it, for any number of payments in flight that check the   *)
(* balance and debit it in one update (createSchoolPayment, createQrPayment).   *)
THEOREM AccountsAreNotOverdrawn == Spec => []NoOverdraft
<1>1. BankInv => NoOverdraft
  BY NoOverdraftHolds DEF BankInv
<1> QED
  BY <1>1, BankInvariance, PTL

(* The receipts the school console has of members are of no more than what the  *)
(* bank recorded as paid for schools, through failures, overpayments and        *)
(* restarts (createSchoolPayment, recordMemberPayment).                         *)
THEOREM SchoolReceiptsAreBacked == Spec => []ReceiptsAreBacked
<1>1. BankInv => ReceiptsAreBacked
  BY ReceiptsAreBackedHolds DEF BankInv
<1> QED
  BY <1>1, BankInvariance, PTL

(* While the app is signed in its session is verified on the server, but for a  *)
(* late logout and a revocation (verifyPinLogin, logout).                       *)
THEOREM SessionsAreLive == Spec => []SignedInIsLive
<1>1. BankInv => SignedInIsLive
  BY SignedInIsLiveHolds DEF BankInv
<1> QED
  BY <1>1, BankInvariance, PTL

-----------------------------------------------------------------------------
(* No session that was logged out is verified again, but by a verify that had   *)
(* found it pending before (verifyPinLogin, logout).                            *)
THEOREM SessionsStayLoggedOut == Spec => LoggedOutStaysOut
<1>1. BankInv /\ [Next]_vars => [LoggedOutStays]_sessionVars
  <2> SUFFICES ASSUME BankInv, [Next]_vars, ~UNCHANGED sessionVars PROVE LoggedOutStays
    OBVIOUS
  <2>1. SessionNext \/ Restart
    BY DEF Next, vars
  <2>2. CASE SessionNext
    BY <2>2, LoggedOutStaysNext DEF BankInv
  <2>3. CASE Restart
    BY <2>3 DEF Restart, server, LoggedOutStays
  <2> QED
    BY <2>1, <2>2, <2>3
<1> QED
  BY <1>1, BankInvariance, PTL DEF Spec, LoggedOutStaysOut, LoggedOutStays

(* A payment that debits had read the customer verified and the account        *)
(* unlocked, each at a moment of its own: it still is so, or ceased to be while *)
(* the payment was under way (loadEligibleMember, createSchoolPayment,          *)
(* createQrPayment).                                                            *)
DebitNeedsStanding ==
    \A r \in Requests, read \in Reads :
        debits' # debits /\ reqs'[r] # reqs[r] => Holds(read) \/ <<r, read>> \in passed

THEOREM NoDebitWithoutStanding == Spec => DebitsNeedStanding
<1>1. BankInv /\ [Next]_vars => [DebitNeedsStanding]_vars
  <2> SUFFICES ASSUME BankInv, [Next]_vars, NEW r \in Requests, NEW read \in Reads,
                      debits' # debits, reqs'[r] # reqs[r]
               PROVE  Holds(read) \/ <<r, read>> \in passed
    BY DEF DebitNeedsStanding
  <2>1. Next /\ ~UNCHANGED paymentVars /\ ~Tick /\ ~Restart
    BY DEF vars, paymentVars, money, Tick, Restart, PaymentsRestart
  <2>2. PICK s \in Requests : PaymentNextOf(s, load.orders)
    BY <2>1, LoadsAreOfCalls DEF Next, BankInv
  <2>3. Debit(s)
    BY <2>2 DEF PaymentNextOf, RequestStep, FirstPaymentRead, SecondPaymentRead, Refuse,
       StoreTransaction, CollideReference, StoreSchoolPayment, CollectForSchool, Notify, Audit,
       Fail, Write, money
  <2>4. s = r
    <3>1. reqs \in [Requests -> Request \cup {Idle}]
      BY DEF BankInv, PaymentInv, RowsInv, PaymentTypeOK
    <3> QED
      BY <2>3, <3>1 DEF Debit
  <2>5. HasRead(reqs[r], read)
    BY <2>3, <2>4, ReadsAwaited DEF Debit, HasRead, Readings
  <2> QED
    BY <2>5 DEF BankInv, StandingKept
<1> QED
  BY <1>1, BankInvariance, PTL DEF Spec, DebitsNeedStanding, DebitNeedsStanding
=============================================================================
