-------------------------------- MODULE Voting --------------------------------
(***************************************************************************)
(* Shareholder votes: VotingService.respondToVote and the administration   *)
(* of an event (createVote, addVoteOption, openVote, closeVote).           *)
(*                                                                         *)
(* A ballot reads the member and the event, then the account lock, then    *)
(* the option and the member's earlier response, and only then inserts:    *)
(* everything read may have changed.  The one check the insert repeats is  *)
(* the unique index on voteId + memberId.                                  *)
(***************************************************************************)
EXTENDS Integers, FiniteSets

CONSTANTS
    Events,
    Options,        \* vote options an administrator can enter
    Members,
    Voters,         \* members that are active, verified shareholders
    StartDate, EndDate,     \* the event's window, as values of the clock
    Ballots,        \* ballots the server can have in flight at once
    Admins,         \* administration requests it can have in flight at once
    MaxTime,        \* bound: last value of the clock
    MaxFailures,    \* bound: writes that throw
    MaxLocks        \* bound: times a member switches the account lock

ASSUME VotingConstants ==
    /\ Voters \subseteq Members
    /\ IsFiniteSet(Options)
    /\ StartDate \in [Events -> Nat]
    /\ EndDate \in [Events -> Nat]
    /\ \A e \in Events : StartDate[e] < EndDate[e]
    /\ MaxTime \in Nat /\ MaxFailures \in Nat /\ MaxLocks \in Nat

VARIABLES
    status,     \* votes: status[e], "none" before the event is created
    options,    \* vote_options: options[e]
    responses,  \* vote_responses: responses[e], a set of ballots
    trail,      \* trail[e][m]: the rows written after m's response to e
    locked,     \* members with accountLockEnabled
    locks,
    ballots,    \* ballots in flight
    admins,     \* administration requests in flight
    opened,     \* ghost: events that have ever been opened
    now,
    failures

event == <<status, options, opened>>
vars == <<status, options, responses, trail, locked, locks, ballots, admins, opened,
          now, failures>>

-----------------------------------------------------------------------------
Statuses == {"none", "draft", "open", "closed"}
Ballot == [member: Voters, option: Options]
TrailRows == {"vote_audit_log", "notification", "audit"}

\* `phase` names the last step that returned.
BallotPhases == {"admitted", "allowed", "checked", "stored", "logged", "notified"}
BallotRequest == [phase: BallotPhases, event: Events, member: Voters, option: Options]
AdminPhases == {"creating", "adding", "opening", "counted", "closing"}
AdminRequest == [phase: AdminPhases, event: Events, options: SUBSET Options]
Idle == [phase |-> "idle"]

Init ==
    /\ status = [e \in Events |-> "none"]
    /\ options = [e \in Events |-> {}]
    /\ responses = [e \in Events |-> {}]
    /\ trail = [e \in Events |-> [m \in Members |-> {}]]
    /\ locked = {}
    /\ locks = 0
    /\ ballots = [b \in Ballots |-> Idle]
    /\ admins = [a \in Admins |-> Idle]
    /\ opened = {}
    /\ now = 0
    /\ failures = 0

Tick ==
    /\ now < MaxTime
    /\ now' = now + 1
    /\ UNCHANGED <<event, responses, trail, locked, locks, ballots, admins, failures>>

SwitchLock(m) ==
    /\ locks < MaxLocks
    /\ locks' = locks + 1
    /\ locked' = IF m \in locked THEN locked \ {m} ELSE locked \cup {m}
    /\ UNCHANGED <<event, responses, trail, ballots, admins, now, failures>>

-----------------------------------------------------------------------------
(* respondToVote, one action per await.                                     *)

\* Mutation of VoteIsOpen: the status is not looked at, only the window.
VoteInWindow(e) ==
    /\ status[e] # "none"
    /\ StartDate[e] <= now /\ now <= EndDate[e]

\* ensureVoteIsOpen
VoteIsOpen(e) ==
    /\ status[e] = "open"
    /\ StartDate[e] <= now /\ now <= EndDate[e]

\* Mutation of Admit: any member passes.
AdmitAnyMember(b, e, m, o) ==
    /\ ballots[b] = Idle
    /\ VoteIsOpen(e)
    /\ ballots' = [ballots EXCEPT ![b] = [phase |-> "admitted", event |-> e,
                                          member |-> m, option |-> o]]
    /\ UNCHANGED <<event, responses, trail, locked, locks, admins, now, failures>>

\* The member and the event are read; ensureShareholder, ensureEligibleVotingMember
\* and ensureVoteIsOpen pass.
Admit(b, e, m, o) ==
    /\ ballots[b] = Idle
    /\ m \in Voters
    /\ VoteIsOpen(e)
    /\ ballots' = [ballots EXCEPT ![b] = [phase |-> "admitted", event |-> e,
                                          member |-> m, option |-> o]]
    /\ UNCHANGED <<event, responses, trail, locked, locks, admins, now, failures>>

\* ensureVotingAllowed
CheckLock(b) ==
    /\ ballots[b].phase = "admitted"
    /\ ballots' = [ballots EXCEPT ![b] =
          IF @.member \in locked THEN Idle ELSE [@ EXCEPT !.phase = "allowed"]]
    /\ UNCHANGED <<event, responses, trail, locked, locks, admins, now, failures>>

\* The option belongs to the event, and there is no earlier response.
Acceptable(q) ==
    /\ q.option \in options[q.event]
    /\ \A c \in responses[q.event] : c.member # q.member

CheckBallot(b) ==
    /\ ballots[b].phase = "allowed"
    /\ ballots' = [ballots EXCEPT ![b] =
          IF Acceptable(@) THEN [@ EXCEPT !.phase = "checked"] ELSE Idle]
    /\ UNCHANGED <<event, responses, trail, locked, locks, admins, now, failures>>

\* Mutation of StoreResponse: vote_responses has no unique index.
StoreResponseAgain(b) ==
    LET q == ballots[b]
    IN  /\ q.phase = "checked"
        /\ responses' = [responses EXCEPT ![q.event] =
              @ \cup {[member |-> q.member, option |-> q.option]}]
        /\ ballots' = [ballots EXCEPT ![b].phase = "stored"]
        /\ UNCHANGED <<event, trail, locked, locks, admins, now, failures>>

\* voteOtpPort.verify, which always answers, and the insert.
StoreResponse(b) ==
    LET q == ballots[b]
    IN  /\ q.phase = "checked"
        /\ \A c \in responses[q.event] : c.member # q.member
        /\ responses' = [responses EXCEPT ![q.event] =
              @ \cup {[member |-> q.member, option |-> q.option]}]
        /\ ballots' = [ballots EXCEPT ![b].phase = "stored"]
        /\ UNCHANGED <<event, trail, locked, locks, admins, now, failures>>

\* The unique index rejects the insert, which throws.
RejectDuplicate(b) ==
    LET q == ballots[b]
    IN  /\ q.phase = "checked"
        /\ \E c \in responses[q.event] : c.member = q.member
        /\ ballots' = [ballots EXCEPT ![b] = Idle]
        /\ UNCHANGED <<event, responses, trail, locked, locks, admins, now, failures>>

WriteRow(b, from, row, next) ==
    LET q == ballots[b]
    IN  /\ q.phase = from
        /\ trail' = [trail EXCEPT ![q.event][q.member] = @ \cup {row}]
        /\ ballots' = [ballots EXCEPT ![b] = next]
        /\ UNCHANGED <<event, responses, locked, locks, admins, now, failures>>

LogVote(b) == WriteRow(b, "stored", "vote_audit_log", [ballots[b] EXCEPT !.phase = "logged"])
Notify(b) == WriteRow(b, "logged", "notification", [ballots[b] EXCEPT !.phase = "notified"])

Audit(b) == WriteRow(b, "notified", "audit", Idle)

\* The next await of the ballot throws.
FailBallot(b) ==
    /\ failures < MaxFailures
    /\ ballots[b] # Idle
    /\ ballots' = [ballots EXCEPT ![b] = Idle]
    /\ failures' = failures + 1
    /\ UNCHANGED <<event, responses, trail, locked, locks, admins, now>>

-----------------------------------------------------------------------------
(* Administration, one action per await.                                    *)

Administer(a, e, phase, opts) ==
    /\ admins[a] = Idle
    /\ admins' = [admins EXCEPT ![a] = [phase |-> phase, event |-> e, options |-> opts]]
    /\ UNCHANGED <<responses, trail, locked, locks, ballots, opened, now, failures>>

\* createVote inserts the event, then its options (two at least).
CreateVote(a, e, opts) ==
    /\ status[e] = "none"
    /\ Cardinality(opts) >= 2
    /\ Administer(a, e, "creating", opts)
    /\ status' = [status EXCEPT ![e] = "draft"]
    /\ UNCHANGED options

Finish(a, phase) ==
    /\ admins[a].phase = phase
    /\ admins' = [admins EXCEPT ![a] = Idle]
    /\ UNCHANGED <<responses, trail, locked, locks, ballots, now>>

InsertOptions(a) ==
    /\ Finish(a, "creating")
    /\ options' = [options EXCEPT ![admins[a].event] = @ \cup admins[a].options]
    /\ UNCHANGED <<status, opened, failures>>

\* insertMany throws part way: the options before the one that failed stay.
InsertSomeOptions(a) ==
    /\ failures < MaxFailures
    /\ Finish(a, "creating")
    /\ failures' = failures + 1
    /\ \E some \in SUBSET admins[a].options :
          /\ some # admins[a].options
          /\ options' = [options EXCEPT ![admins[a].event] = @ \cup some]
    /\ UNCHANGED <<status, opened>>

\* addVoteOption reads the event in draft, then inserts the option.
ReadDraft(a, e, o) ==
    /\ status[e] = "draft"
    /\ Administer(a, e, "adding", {o})
    /\ UNCHANGED <<status, options>>

AddVoteOption(a) ==
    /\ Finish(a, "adding")
    /\ options' = [options EXCEPT ![admins[a].event] = @ \cup admins[a].options]
    /\ UNCHANGED <<status, opened, failures>>

\* openVote and closeVote read the event; its status is not looked at.
ReadToOpen(a, e) ==
    /\ status[e] # "none"
    /\ Administer(a, e, "opening", {})
    /\ UNCHANGED <<status, options>>

ReadToClose(a, e) ==
    /\ status[e] # "none"
    /\ Administer(a, e, "closing", {})
    /\ UNCHANGED <<status, options>>

\* Mutation of EnoughOptions: off by one.
SomeOption(e) == Cardinality(options[e]) >= 1

\* optionCount < 2 throws.
EnoughOptions(e) == Cardinality(options[e]) >= 2

CountOptions(a) ==
    /\ admins[a].phase = "opening"
    /\ admins' = [admins EXCEPT ![a] =
          IF EnoughOptions(@.event) THEN [@ EXCEPT !.phase = "counted"] ELSE Idle]
    /\ UNCHANGED <<event, responses, trail, locked, locks, ballots, now, failures>>

OpenVote(a) ==
    /\ Finish(a, "counted")
    /\ status' = [status EXCEPT ![admins[a].event] = "open"]
    /\ opened' = opened \cup {admins[a].event}
    /\ UNCHANGED <<options, failures>>

CloseVote(a) ==
    /\ Finish(a, "closing")
    /\ status' = [status EXCEPT ![admins[a].event] = "closed"]
    /\ UNCHANGED <<options, opened, failures>>

-----------------------------------------------------------------------------
BallotStep(b) ==
    \/ CheckLock(b) \/ CheckBallot(b) \/ StoreResponse(b) \/ RejectDuplicate(b)
    \/ LogVote(b) \/ Notify(b) \/ Audit(b)

AdminStep(a) ==
    InsertOptions(a) \/ AddVoteOption(a) \/ CountOptions(a) \/ OpenVote(a) \/ CloseVote(a)

Next ==
    \/ Tick
    \/ \E m \in Members : SwitchLock(m)
    \/ \E b \in Ballots :
          \/ \E e \in Events, m \in Members, o \in Options : Admit(b, e, m, o)
          \/ BallotStep(b)
          \/ FailBallot(b)
    \/ \E a \in Admins :
          \/ \E e \in Events :
                \/ \E opts \in SUBSET Options : CreateVote(a, e, opts)
                \/ \E o \in Options : ReadDraft(a, e, o)
                \/ ReadToOpen(a, e)
                \/ ReadToClose(a, e)
          \/ AdminStep(a)
          \/ InsertSomeOptions(a)

Spec == Init /\ [][Next]_vars

-----------------------------------------------------------------------------
TypeOK ==
    /\ status \in [Events -> Statuses]
    /\ options \in [Events -> SUBSET Options]
    /\ responses \in [Events -> SUBSET Ballot]
    /\ trail \in [Events -> [Members -> SUBSET TrailRows]]
    /\ locked \subseteq Members
    /\ locks \in Nat
    /\ ballots \in [Ballots -> BallotRequest \cup {Idle}]
    /\ admins \in [Admins -> AdminRequest \cup {Idle}]
    /\ opened \subseteq Events
    /\ now \in Nat
    /\ failures \in Nat

\* "one vote per member per vote event", whatever ballots the member sends at once.
OneVotePerMember ==
    \A e \in Events : \A c, d \in responses[e] : c.member = d.member => c = d

\* A recorded response is for an option of its event, and the event has been
\* opened with a real choice (openVote's two options): nobody's ballot precedes it.
ResponsesAreForTheEvent ==
    \A e \in Events :
        /\ \A c \in responses[e] : c.option \in options[e]
        /\ responses[e] # {} => e \in opened /\ Cardinality(options[e]) >= 2

Box == INSTANCE BallotBox WITH box <- responses

\* The service implements the ballot box: only an event that has been opened
\* collects ballots, one per voter, and no step changes or loses one.
BallotBoxSpec == Box!Spec

\* "closed votes reject new responses"
ClosedVotesRejectResponses ==
    [][\A e \in Events : status[e] = "closed" => responses'[e] = responses[e]]_vars

=============================================================================
