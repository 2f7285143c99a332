----------------------------- MODULE Voting_proofs -----------------------------
(* Proofs about Voting for every set of events, members and finite set of       *)
(* options, and for any number of ballots and administrators at work at once.   *)
EXTENDS Voting, FiniteSetTheorems, TLAPS

-----------------------------------------------------------------------------
(* Type correctness.                                                        *)

LEMMA TypeInit == Init => TypeOK
  BY VotingConstants DEF Init, TypeOK, Statuses, Idle

\* A request whose phase is a ballot's is a ballot, and stays one in any phase.
LEMMA BallotPhase ==
    ASSUME TypeOK, NEW b \in Ballots, ballots[b].phase \in BallotPhases
    PROVE  /\ ballots[b] \in BallotRequest
           /\ \A p \in BallotPhases : [ballots[b] EXCEPT !.phase = p] \in BallotRequest
  <1>1. ballots[b] \in BallotRequest
      BY DEF TypeOK, Idle, BallotPhases
  <1> QED
      BY <1>1 DEF BallotRequest

LEMMA AdminPhase ==
    ASSUME TypeOK, NEW a \in Admins, admins[a].phase \in AdminPhases
    PROVE  /\ admins[a] \in AdminRequest
           /\ \A p \in AdminPhases : [admins[a] EXCEPT !.phase = p] \in AdminRequest
  <1>1. admins[a] \in AdminRequest
      BY DEF TypeOK, Idle, AdminPhases
  <1> QED
      BY <1>1 DEF AdminRequest

LEMMA TypeStep == TypeOK /\ [Next]_vars => TypeOK'
<1> SUFFICES ASSUME TypeOK, [Next]_vars PROVE TypeOK'
    OBVIOUS
<1> USE VotingConstants
<1>1. CASE Tick
    BY <1>1 DEF TypeOK, Tick, event
<1>2. ASSUME NEW m \in Members, SwitchLock(m)
      PROVE  TypeOK'
    BY <1>2 DEF TypeOK, SwitchLock, event
<1>3. ASSUME NEW b \in Ballots, NEW e \in Events, NEW m \in Members, NEW o \in Options,
             Admit(b, e, m, o)
      PROVE  TypeOK'
    BY <1>3 DEF TypeOK, Admit, event, BallotRequest, BallotPhases
<1>4. ASSUME NEW b \in Ballots, BallotStep(b)
      PROVE  TypeOK'
  <2>1. /\ ballots[b] \in BallotRequest
        /\ \A p \in BallotPhases : [ballots[b] EXCEPT !.phase = p] \in BallotRequest
      BY <1>4, BallotPhase DEF BallotStep, CheckLock, CheckBallot, StoreResponse,
         RejectDuplicate, LogVote, Notify, Audit, WriteRow, BallotPhases
  <2>2. CASE CheckLock(b)
      BY <2>1, <2>2 DEF TypeOK, CheckLock, event, BallotPhases
  <2>3. CASE CheckBallot(b)
      BY <2>1, <2>3 DEF TypeOK, CheckBallot, event, BallotPhases
  <2>4. CASE RejectDuplicate(b)
      BY <2>1, <2>4 DEF TypeOK, RejectDuplicate, event
  <2>5. CASE StoreResponse(b)
    <3>1. [member |-> ballots[b].member, option |-> ballots[b].option] \in Ballot
        BY <2>1 DEF BallotRequest, Ballot
    <3> QED
        BY <2>1, <2>5, <3>1 DEF TypeOK, StoreResponse, event, BallotPhases, BallotRequest
  <2>6. ASSUME NEW from, NEW row \in TrailRows, NEW next \in BallotRequest \cup {Idle},
               WriteRow(b, from, row, next)
        PROVE  TypeOK'
    <3>1. ballots[b].event \in Events /\ ballots[b].member \in Members
        BY <2>1 DEF BallotRequest
    <3>2. trail' \in [Events -> [Members -> SUBSET TrailRows]]
        BY <2>6, <3>1 DEF TypeOK, WriteRow
    <3> QED
        BY <2>6, <3>2 DEF TypeOK, WriteRow, event
  <2>7. CASE LogVote(b) \/ Notify(b) \/ Audit(b)
      BY <2>1, <2>6, <2>7 DEF LogVote, Notify, Audit, TrailRows, BallotPhases
  <2> QED
      BY <1>4, <2>2, <2>3, <2>4, <2>5, <2>7 DEF BallotStep
<1>5. ASSUME NEW b \in Ballots, FailBallot(b)
      PROVE  TypeOK'
    BY <1>5 DEF TypeOK, FailBallot, event
<1>6. ASSUME NEW a \in Admins, NEW e \in Events, NEW phase \in AdminPhases,
             NEW opts \in SUBSET Options, Administer(a, e, phase, opts),
             status' \in [Events -> Statuses], UNCHANGED options
      PROVE  TypeOK'
    BY <1>6 DEF TypeOK, Administer, AdminRequest
<1>7. ASSUME NEW a \in Admins, NEW e \in Events,
             \/ \E opts \in SUBSET Options : CreateVote(a, e, opts)
             \/ \E o \in Options : ReadDraft(a, e, o)
             \/ ReadToOpen(a, e)
             \/ ReadToClose(a, e)
      PROVE  TypeOK'
  <2>1. ASSUME NEW opts \in SUBSET Options, CreateVote(a, e, opts)
        PROVE  TypeOK'
      BY <1>6, <2>1 DEF CreateVote, TypeOK, Statuses, AdminPhases
  <2>2. ASSUME NEW o \in Options, ReadDraft(a, e, o)
        PROVE  TypeOK'
      BY <1>6, <2>2 DEF ReadDraft, TypeOK, AdminPhases
  <2>3. CASE ReadToOpen(a, e) \/ ReadToClose(a, e)
    <3>1. /\ {} \in SUBSET Options
          /\ "opening" \in AdminPhases /\ "closing" \in AdminPhases
        BY DEF AdminPhases
    <3>2. CASE ReadToOpen(a, e)
        BY <1>6, <3>1, <3>2 DEF ReadToOpen, TypeOK
    <3>3. CASE ReadToClose(a, e)
        BY <1>6, <3>1, <3>3 DEF ReadToClose, TypeOK
    <3> QED
        BY <2>3, <3>2, <3>3
  <2> QED
      BY <1>7, <2>1, <2>2, <2>3
<1>8. ASSUME NEW a \in Admins, AdminStep(a) \/ InsertSomeOptions(a)
      PROVE  TypeOK'
  <2>1. /\ admins[a] \in AdminRequest
        /\ \A p \in AdminPhases : [admins[a] EXCEPT !.phase = p] \in AdminRequest
      BY <1>8, AdminPhase DEF AdminStep, InsertOptions, AddVoteOption, CountOptions, OpenVote,
         CloseVote, InsertSomeOptions, Finish, AdminPhases
  <2>2. admins[a].event \in Events /\ admins[a].options \in SUBSET Options
      BY <2>1 DEF AdminRequest
  <2>3. CASE InsertOptions(a) \/ AddVoteOption(a)
    <3>1. CASE InsertOptions(a)
        BY <2>2, <3>1 DEF TypeOK, InsertOptions, Finish
    <3>2. CASE AddVoteOption(a)
        BY <2>2, <3>2 DEF TypeOK, AddVoteOption, Finish
    <3> QED
        BY <2>3, <3>1, <3>2
  <2>4. CASE InsertSomeOptions(a)
      BY <2>2, <2>4 DEF TypeOK, InsertSomeOptions, Finish
  <2>5. CASE CountOptions(a)
      BY <2>1, <2>5 DEF TypeOK, CountOptions, event, AdminPhases
  <2>6. CASE OpenVote(a)
      BY <2>2, <2>6 DEF TypeOK, OpenVote, Finish, Statuses
  <2>7. CASE CloseVote(a)
      BY <2>2, <2>7 DEF TypeOK, CloseVote, Finish, Statuses
  <2> QED
      BY <1>8, <2>3, <2>4, <2>5, <2>6, <2>7 DEF AdminStep
<1>9. CASE UNCHANGED vars
    BY <1>9 DEF TypeOK, vars, event
<1> QED
    BY <1>1, <1>2, <1>3, <1>4, <1>5, <1>7, <1>8, <1>9 DEF Next

\* Every reachable state of the voting service is well typed; in particular only
\* active, verified shareholders have responses.
THEOREM VotingTyping == Spec => []TypeOK
  BY TypeInit, TypeStep, PTL DEF Spec

-----------------------------------------------------------------------------
(* One vote per member, for options of the event, after it was opened.      *)

\* A ballot is in flight only for an event that has been opened, and once its
\* option has been looked up the option stays in the event.
BallotsInFlight ==
    \A b \in Ballots :
        ballots[b] # Idle =>
            /\ ballots[b].event \in opened
            /\ ballots[b].phase \notin {"admitted", "allowed"}
                  => ballots[b].option \in options[ballots[b].event]

\* Two options at least, before an event is opened and for ever after.
EnoughOnceOpened ==
    /\ \A a \in Admins : admins[a].phase = "counted" => EnoughOptions(admins[a].event)
    /\ \A e \in Events : status[e] = "open" => e \in opened
    /\ \A e \in opened : EnoughOptions(e)

VotingInv ==
    /\ TypeOK
    /\ BallotsInFlight
    /\ EnoughOnceOpened
    /\ ResponsesAreForTheEvent
    /\ OneVotePerMember

LEMMA VotingInit == Init => VotingInv
  BY TypeInit DEF Init, VotingInv, BallotsInFlight, EnoughOnceOpened,
     ResponsesAreForTheEvent, OneVotePerMember, Idle

\* Adding options leaves an event with enough of them.
LEMMA StillEnough ==
    ASSUME TypeOK, TypeOK', NEW e \in Events, options[e] \subseteq options'[e],
           EnoughOptions(e)
    PROVE  EnoughOptions(e)'
  <1>1. options'[e] \subseteq Options
      BY DEF TypeOK
  <1>2. IsFiniteSet(options'[e]) /\ IsFiniteSet(options[e])
      BY <1>1, FS_Subset, VotingConstants
  <1>3. Cardinality(options[e]) <= Cardinality(options'[e])
      BY <1>2, FS_Subset
  <1>4. Cardinality(options[e]) \in Nat /\ Cardinality(options'[e]) \in Nat
      BY <1>2, FS_CardinalityType
  <1> QED
      BY <1>3, <1>4 DEF EnoughOptions

\* What every step keeps of the events: options are added, never removed, and an
\* event that was opened stays so.
LEMMA EventsGrow ==
    ASSUME TypeOK, [Next]_vars
    PROVE  /\ \A e \in Events : options[e] \subseteq options'[e]
           /\ opened \subseteq opened'
  <1>1. ASSUME NEW a \in Admins, AdminStep(a)
        PROVE  /\ \A e \in Events : options[e] \subseteq options'[e]
               /\ opened \subseteq opened'
    <2>1. CASE InsertOptions(a)
        BY <2>1 DEF InsertOptions, TypeOK
    <2>2. CASE AddVoteOption(a)
        BY <2>2 DEF AddVoteOption, TypeOK
    <2>3. CASE CountOptions(a) \/ OpenVote(a) \/ CloseVote(a)
        BY <2>3 DEF CountOptions, OpenVote, CloseVote, event
    <2> QED
        BY <1>1, <2>1, <2>2, <2>3 DEF AdminStep
  <1>2. ASSUME NEW a \in Admins, InsertSomeOptions(a)
        PROVE  /\ \A e \in Events : options[e] \subseteq options'[e]
               /\ opened \subseteq opened'
      BY <1>2 DEF InsertSomeOptions, TypeOK
  <1>3. ASSUME NEW a \in Admins, NEW e \in Events,
               \/ \E opts \in SUBSET Options : CreateVote(a, e, opts)
               \/ \E o \in Options : ReadDraft(a, e, o)
               \/ ReadToOpen(a, e)
               \/ ReadToClose(a, e)
        PROVE  options' = options /\ opened' = opened
      BY <1>3 DEF CreateVote, ReadDraft, ReadToOpen, ReadToClose, Administer
  <1>4. ASSUME NEW b \in Ballots, BallotStep(b)
        PROVE  options' = options /\ opened' = opened
      BY <1>4 DEF BallotStep, CheckLock, CheckBallot, StoreResponse, RejectDuplicate,
         LogVote, Notify, Audit, WriteRow, event
  <1>5. ASSUME NEW b \in Ballots, FailBallot(b)
        PROVE  options' = options /\ opened' = opened
      BY <1>5 DEF FailBallot, event
  <1>6. ASSUME NEW b \in Ballots, NEW e \in Events, NEW m \in Members, NEW o \in Options,
               Admit(b, e, m, o)
        PROVE  options' = options /\ opened' = opened
      BY <1>6 DEF Admit, event
  <1>7. ASSUME NEW m \in Members, SwitchLock(m)
        PROVE  options' = options /\ opened' = opened
      BY <1>7 DEF SwitchLock, event
  <1>8. CASE Tick \/ UNCHANGED vars
      BY <1>8 DEF Tick, vars, event
  <1> QED
      BY <1>1, <1>2, <1>3, <1>4, <1>5, <1>6, <1>7, <1>8 DEF Next

\* A step that leaves a ballot alone, or only moves it to a later phase that needs
\* nothing more, leaves it in order.
LEMMA BallotsInFlightStep == VotingInv /\ [Next]_vars => BallotsInFlight'
<1> SUFFICES ASSUME VotingInv, [Next]_vars, NEW c \in Ballots, ballots'[c] # Idle
             PROVE  /\ ballots'[c].event \in opened'
                    /\ ballots'[c].phase \notin {"admitted", "allowed"}
                          => ballots'[c].option \in options'[ballots'[c].event]
    BY DEF BallotsInFlight
<1>1. TypeOK /\ TypeOK'
    BY TypeStep DEF VotingInv
<1>2. /\ \A e \in Events : options[e] \subseteq options'[e]
      /\ opened \subseteq opened'
    BY <1>1, EventsGrow
<1>3. ballots'[c] \in BallotRequest
    BY <1>1 DEF TypeOK
<1>4. ASSUME ballots[c] \in BallotRequest,
             ballots'[c].event = ballots[c].event,
             ballots'[c].option = ballots[c].option,
             \/ ballots'[c].phase \in {"admitted", "allowed"}
             \/ ballots[c].phase \notin {"admitted", "allowed"}
             \/ ballots[c].option \in options[ballots[c].event]
      PROVE  /\ ballots'[c].event \in opened'
             /\ ballots'[c].phase \notin {"admitted", "allowed"}
                   => ballots'[c].option \in options'[ballots'[c].event]
  <2>1. ballots[c] # Idle /\ ballots[c].event \in Events
      BY <1>4 DEF BallotRequest, BallotPhases, Idle
  <2> QED
      BY <1>2, <1>4, <2>1 DEF VotingInv, BallotsInFlight
<1>5. ASSUME ballots'[c] = ballots[c]
      PROVE  /\ ballots'[c].event \in opened'
             /\ ballots'[c].phase \notin {"admitted", "allowed"}
                   => ballots'[c].option \in options'[ballots'[c].event]
  <2>1. ballots[c] # Idle /\ ballots[c] \in BallotRequest
      BY <1>3, <1>5 DEF BallotRequest, BallotPhases, Idle
  <2>2. ballots[c].phase \notin {"admitted", "allowed"}
           => ballots[c].option \in options[ballots[c].event]
      BY <2>1 DEF VotingInv, BallotsInFlight
  <2> QED
      BY <1>4, <1>5, <2>1, <2>2
<1>6. ASSUME NEW b \in Ballots, NEW e \in Events, NEW m \in Members, NEW o \in Options,
             Admit(b, e, m, o)
      PROVE  /\ ballots'[c].event \in opened'
             /\ ballots'[c].phase \notin {"admitted", "allowed"}
                   => ballots'[c].option \in options'[ballots'[c].event]
  <2>1. e \in opened'
      BY <1>2, <1>6 DEF Admit, VoteIsOpen, VotingInv, EnoughOnceOpened
  <2>2. CASE c = b
      BY <1>1, <1>6, <2>1, <2>2 DEF Admit, TypeOK
  <2>3. CASE c # b
      BY <1>1, <1>5, <1>6, <2>3 DEF Admit, TypeOK
  <2> QED
      BY <2>2, <2>3
<1>7. ASSUME NEW b \in Ballots, BallotStep(b)
      PROVE  /\ ballots'[c].event \in opened'
             /\ ballots'[c].phase \notin {"admitted", "allowed"}
                   => ballots'[c].option \in options'[ballots'[c].event]
  <2>1. CASE c # b
    <3>1. ballots'[c] = ballots[c]
        BY <1>1, <1>7, <2>1 DEF BallotStep, CheckLock, CheckBallot, StoreResponse,
           RejectDuplicate, LogVote, Notify, Audit, WriteRow, TypeOK
    <3> QED
        BY <1>5, <3>1
  <2>2. CASE c = b
    <3>1. ballots[b] \in BallotRequest
        BY <1>1, <1>7, BallotPhase DEF BallotStep, CheckLock, CheckBallot, StoreResponse,
           RejectDuplicate, LogVote, Notify, Audit, WriteRow, BallotPhases
    <3>2. ballots[b] # Idle
        BY <3>1 DEF BallotRequest, BallotPhases, Idle
    <3>3. CASE CheckLock(b)
        BY <1>1, <1>4, <2>2, <3>1, <3>3 DEF CheckLock, TypeOK, BallotRequest
    <3>4. CASE CheckBallot(b)
        BY <1>1, <1>4, <2>2, <3>1, <3>4 DEF CheckBallot, Acceptable, TypeOK, BallotRequest
    <3>5. CASE StoreResponse(b)
        BY <1>1, <1>4, <2>2, <3>1, <3>5 DEF StoreResponse, TypeOK, BallotRequest
    <3>6. CASE LogVote(b) \/ Notify(b)
        BY <1>1, <1>4, <2>2, <3>1, <3>6 DEF LogVote, Notify, WriteRow, TypeOK, BallotRequest
    <3>7. CASE Audit(b) \/ RejectDuplicate(b)
        BY <1>1, <2>2, <3>7 DEF Audit, RejectDuplicate, WriteRow, TypeOK
    <3> QED
        BY <1>7, <3>3, <3>4, <3>5, <3>6, <3>7 DEF BallotStep
  <2> QED
      BY <2>1, <2>2
<1>8. ASSUME NEW b \in Ballots, FailBallot(b)
      PROVE  c # b /\ ballots'[c] = ballots[c]
    BY <1>1, <1>8 DEF FailBallot, TypeOK
<1>9. ASSUME NEW a \in Admins, AdminStep(a) \/ InsertSomeOptions(a)
      PROVE  ballots'[c] = ballots[c]
    BY <1>9 DEF AdminStep, InsertOptions, AddVoteOption, CountOptions, OpenVote, CloseVote,
       InsertSomeOptions, Finish
<1>10. ASSUME NEW a \in Admins, NEW e \in Events,
              \/ \E opts \in SUBSET Options : CreateVote(a, e, opts)
              \/ \E o \in Options : ReadDraft(a, e, o)
              \/ ReadToOpen(a, e)
              \/ ReadToClose(a, e)
       PROVE  ballots'[c] = ballots[c]
    BY <1>10 DEF CreateVote, ReadDraft, ReadToOpen, ReadToClose, Administer
<1>11. ASSUME NEW m \in Members, SwitchLock(m)
       PROVE  ballots'[c] = ballots[c]
    BY <1>11 DEF SwitchLock
<1>12. CASE Tick \/ UNCHANGED vars
    BY <1>5, <1>12 DEF Tick, vars
<1> QED
    BY <1>5, <1>6, <1>7, <1>8, <1>9, <1>10, <1>11, <1>12 DEF Next

\* Opening counts the options first, and nothing takes one away afterwards.
LEMMA EnoughStep == VotingInv /\ [Next]_vars => EnoughOnceOpened'
<1> SUFFICES ASSUME VotingInv, [Next]_vars PROVE EnoughOnceOpened'
    OBVIOUS
<1>1. TypeOK /\ TypeOK'
    BY TypeStep DEF VotingInv
<1>2. ASSUME NEW e \in Events, EnoughOptions(e)
      PROVE  EnoughOptions(e)'
    BY <1>1, <1>2, EventsGrow, StillEnough
<1>3. ASSUME UNCHANGED <<status, opened>>,
             \A a \in Admins : admins'[a].phase = "counted" =>
                 \/ admins'[a] = admins[a]
                 \/ admins'[a].event \in Events /\ EnoughOptions(admins'[a].event)
      PROVE  EnoughOnceOpened'
  <2>1. ASSUME NEW a \in Admins, admins'[a].phase = "counted"
        PROVE  EnoughOptions(admins[a].event)'
    <3>1. PICK e \in Events : e = admins'[a].event
        BY <1>1, <2>1 DEF TypeOK, AdminRequest, Idle
    <3>2. EnoughOptions(e)
        BY <1>3, <2>1, <3>1 DEF VotingInv, EnoughOnceOpened
    <3>3. EnoughOptions(e)'
        BY <1>2, <3>2
    <3> QED
        BY <3>1, <3>3 DEF EnoughOptions
  <2>2. ASSUME NEW e \in opened' PROVE EnoughOptions(e)'
      BY <1>1, <1>2, <1>3, <2>2 DEF VotingInv, EnoughOnceOpened, TypeOK
  <2> QED
      BY <1>3, <2>1, <2>2 DEF VotingInv, EnoughOnceOpened, EnoughOptions
<1>4. ASSUME NEW b \in Ballots,
             \/ BallotStep(b) \/ FailBallot(b)
             \/ \E e \in Events, m \in Members, o \in Options : Admit(b, e, m, o)
      PROVE  UNCHANGED <<status, opened, admins>>
    BY <1>4 DEF BallotStep, CheckLock, CheckBallot, StoreResponse, RejectDuplicate, LogVote,
       Notify, Audit, WriteRow, FailBallot, Admit, event
<1>5. ASSUME NEW m \in Members, SwitchLock(m)
      PROVE  UNCHANGED <<status, opened, admins>>
    BY <1>5 DEF SwitchLock, event
<1>6. CASE Tick \/ UNCHANGED vars
    BY <1>3, <1>6 DEF Tick, vars, event
<1>7. ASSUME NEW a \in Admins, NEW e \in Events,
             \/ \E opts \in SUBSET Options : CreateVote(a, e, opts)
             \/ \E o \in Options : ReadDraft(a, e, o)
             \/ ReadToOpen(a, e)
             \/ ReadToClose(a, e)
      PROVE  EnoughOnceOpened'
  <2>1. \A x \in Admins : admins'[x].phase = "counted" => admins'[x] = admins[x]
      BY <1>1, <1>7 DEF CreateVote, ReadDraft, ReadToOpen, ReadToClose, Administer, TypeOK
  <2>2. opened' = opened /\ \A x \in Events : status'[x] = "open" => status[x] = "open"
      BY <1>1, <1>7 DEF CreateVote, ReadDraft, ReadToOpen, ReadToClose, Administer, TypeOK
  <2>3. options' = options
      BY <1>7 DEF CreateVote, ReadDraft, ReadToOpen, ReadToClose
  <2> QED
      BY <2>1, <2>2, <2>3 DEF VotingInv, EnoughOnceOpened, EnoughOptions
<1>8. ASSUME NEW a \in Admins, AdminStep(a) \/ InsertSomeOptions(a)
      PROVE  EnoughOnceOpened'
  <2>1. CASE InsertOptions(a) \/ AddVoteOption(a) \/ InsertSomeOptions(a)
      BY <1>1, <1>3, <2>1 DEF InsertOptions, AddVoteOption, InsertSomeOptions, Finish,
         TypeOK, Idle
  <2>2. CASE CountOptions(a)
    <3>1. admins[a] \in AdminRequest
        BY <1>1, <2>2, AdminPhase DEF CountOptions, AdminPhases
    <3> DEFINE e == admins[a].event
               next == IF EnoughOptions(e) THEN [admins[a] EXCEPT !.phase = "counted"] ELSE Idle
    <3>2. admins' = [admins EXCEPT ![a] = next] /\ UNCHANGED <<status, opened>>
        BY <2>2 DEF CountOptions, event
    <3>3. e \in Events /\ [admins[a] EXCEPT !.phase = "counted"].event = e
        BY <3>1 DEF AdminRequest
    <3>4. next.phase = "counted" => next.event \in Events /\ EnoughOptions(next.event)
        BY <3>3 DEF Idle
    <3> HIDE DEF next
    <3>5. \A x \in Admins : admins'[x] = IF x = a THEN next ELSE admins[x]
        BY <1>1, <3>2 DEF TypeOK
    <3> QED
        BY <1>3, <3>2, <3>4, <3>5
  <2>3. CASE OpenVote(a)
    <3>1. admins[a].event \in Events /\ EnoughOptions(admins[a].event)
      <4>1. admins[a] \in AdminRequest
          BY <1>1, <2>3, AdminPhase DEF OpenVote, Finish, AdminPhases
      <4>2. admins[a].event \in Events
          BY <4>1 DEF AdminRequest
      <4>3. admins[a].phase = "counted"
          BY <2>3 DEF OpenVote, Finish
      <4> QED
          BY <4>2, <4>3 DEF VotingInv, EnoughOnceOpened
    <3>2. options' = options
        BY <2>3 DEF OpenVote
    <3>3. \A x \in Admins : admins'[x].phase = "counted" => admins'[x] = admins[x]
        BY <1>1, <2>3 DEF OpenVote, Finish, TypeOK, Idle
    <3>4. \A x \in Events : status'[x] = "open" => status[x] = "open" \/ x = admins[a].event
        BY <1>1, <2>3 DEF OpenVote, TypeOK
    <3> QED
        BY <2>3, <3>1, <3>2, <3>3, <3>4 DEF OpenVote, VotingInv, EnoughOnceOpened, EnoughOptions
  <2>4. CASE CloseVote(a)
    <3>1. options' = options /\ opened' = opened
        BY <2>4 DEF CloseVote
    <3>2. \A x \in Admins : admins'[x].phase = "counted" => admins'[x] = admins[x]
        BY <1>1, <2>4 DEF CloseVote, Finish, TypeOK, Idle
    <3>3. \A x \in Events : status'[x] = "open" => status[x] = "open"
        BY <1>1, <2>4 DEF CloseVote, TypeOK
    <3> QED
        BY <3>1, <3>2, <3>3 DEF VotingInv, EnoughOnceOpened, EnoughOptions
  <2> QED
      BY <1>8, <2>1, <2>2, <2>3, <2>4 DEF AdminStep
<1> QED
    BY <1>3, <1>4, <1>5, <1>6, <1>7, <1>8 DEF Next

\* What a step does to the box: nothing, or one new ballot of a member who had none.
LEMMA ResponsesStep ==
    ASSUME VotingInv, [Next]_vars
    PROVE  \/ responses' = responses
           \/ \E e \in opened, c \in Ballot :
                 /\ c.option \in options[e]
                 /\ \A d \in responses[e] : d.member # c.member
                 /\ responses' = [responses EXCEPT ![e] = @ \cup {c}]
                 /\ opened' = opened
  <1>1. TypeOK
      BY DEF VotingInv
  <1>2. ASSUME NEW b \in Ballots, StoreResponse(b)
        PROVE  \E e \in opened, c \in Ballot :
                 /\ c.option \in options[e]
                 /\ \A d \in responses[e] : d.member # c.member
                 /\ responses' = [responses EXCEPT ![e] = @ \cup {c}]
                 /\ opened' = opened
    <2> DEFINE e == ballots[b].event
               c == [member |-> ballots[b].member, option |-> ballots[b].option]
    <2>1. ballots[b] \in BallotRequest /\ ballots[b] # Idle
      <3>1. ballots[b].phase = "checked"
          BY <1>2 DEF StoreResponse
      <3>2. ballots[b].phase \in BallotPhases
          BY <3>1 DEF BallotPhases
      <3>3. ballots[b] \in BallotRequest
          BY <1>1, <3>2, BallotPhase
      <3> QED
          BY <3>1, <3>3 DEF Idle
    <2>2. e \in opened /\ c.option \in options[e]
        BY <1>2, <2>1 DEF StoreResponse, VotingInv, BallotsInFlight
    <2>3. c \in Ballot
        BY <2>1 DEF BallotRequest, Ballot
    <2>4. /\ \A d \in responses[e] : d.member # c.member
          /\ responses' = [responses EXCEPT ![e] = @ \cup {c}]
          /\ opened' = opened
        BY <1>2 DEF StoreResponse, event
    <2> HIDE DEF e, c
    <2> QED
        BY <2>2, <2>3, <2>4
  <1>3. ASSUME NEW b \in Ballots,
               \/ CheckLock(b) \/ CheckBallot(b) \/ RejectDuplicate(b)
               \/ LogVote(b) \/ Notify(b) \/ Audit(b) \/ FailBallot(b)
               \/ \E e \in Events, m \in Members, o \in Options : Admit(b, e, m, o)
        PROVE  responses' = responses
      BY <1>3 DEF CheckLock, CheckBallot, RejectDuplicate, LogVote, Notify, Audit, WriteRow,
         FailBallot, Admit
  <1>4. ASSUME NEW a \in Admins, AdminStep(a) \/ InsertSomeOptions(a)
        PROVE  responses' = responses
      BY <1>4 DEF AdminStep, InsertOptions, AddVoteOption, CountOptions, OpenVote, CloseVote,
         InsertSomeOptions, Finish
  <1>5. ASSUME NEW a \in Admins, NEW e \in Events,
               \/ \E opts \in SUBSET Options : CreateVote(a, e, opts)
               \/ \E o \in Options : ReadDraft(a, e, o)
               \/ ReadToOpen(a, e)
               \/ ReadToClose(a, e)
        PROVE  responses' = responses
      BY <1>5 DEF CreateVote, ReadDraft, ReadToOpen, ReadToClose, Administer
  <1>6. ASSUME NEW m \in Members, SwitchLock(m)
        PROVE  responses' = responses
      BY <1>6 DEF SwitchLock
  <1>7. CASE Tick \/ UNCHANGED vars
      BY <1>7 DEF Tick, vars
  <1> QED
      BY <1>2, <1>3, <1>4, <1>5, <1>6, <1>7 DEF Next, BallotStep

LEMMA BoxStep ==
    VotingInv /\ [Next]_vars => OneVotePerMember' /\ ResponsesAreForTheEvent'
<1> SUFFICES ASSUME VotingInv, [Next]_vars
             PROVE  OneVotePerMember' /\ ResponsesAreForTheEvent'
    OBVIOUS
<1>1. TypeOK /\ TypeOK' /\ EnoughOnceOpened'
    BY TypeStep, EnoughStep DEF VotingInv
<1>2. /\ \A e \in Events : options[e] \subseteq options'[e]
      /\ opened \subseteq opened'
    BY <1>1, EventsGrow
<1>3. \A e \in opened' : Cardinality(options'[e]) >= 2
    BY <1>1 DEF EnoughOnceOpened, EnoughOptions
<1>4. CASE responses' = responses
    BY <1>2, <1>3, <1>4 DEF VotingInv, OneVotePerMember, ResponsesAreForTheEvent
<1>5. ASSUME NEW e \in opened, NEW c \in Ballot,
             c.option \in options[e],
             \A d \in responses[e] : d.member # c.member,
             responses' = [responses EXCEPT ![e] = @ \cup {c}]
      PROVE  OneVotePerMember' /\ ResponsesAreForTheEvent'
  <2>1. e \in Events /\ responses'[e] = responses[e] \cup {c}
      BY <1>1, <1>5 DEF TypeOK
  <2>2. \A x \in Events : x # e => responses'[x] = responses[x]
      BY <1>1, <1>5 DEF TypeOK
  <2>3. OneVotePerMember'
      BY <1>5, <2>1, <2>2 DEF VotingInv, OneVotePerMember
  <2>4. ResponsesAreForTheEvent'
      BY <1>2, <1>3, <1>5, <2>1, <2>2 DEF VotingInv, ResponsesAreForTheEvent
  <2> QED
      BY <2>3, <2>4
<1> QED
    BY <1>4, <1>5, ResponsesStep

LEMMA VotingStep == VotingInv /\ [Next]_vars => VotingInv'
  BY TypeStep, BallotsInFlightStep, EnoughStep, BoxStep DEF VotingInv

\* However many ballots a member has in flight, one is recorded (respondToVote and
\* the unique index of vote_responses).
THEOREM OneVote == Spec => []OneVotePerMember
  <1>1. VotingInv => OneVotePerMember
      BY DEF VotingInv
  <1> QED
      BY <1>1, VotingInit, VotingStep, PTL DEF Spec

\* A response is for an option of an event that was opened with two at least.
THEOREM ResponsesForTheEvent == Spec => []ResponsesAreForTheEvent
  <1>1. VotingInv => ResponsesAreForTheEvent
      BY DEF VotingInv
  <1> QED
      BY <1>1, VotingInit, VotingStep, PTL DEF Spec

-----------------------------------------------------------------------------
(* The service implements the ballot box.                                   *)

LEMMA OpenedStep ==
    ASSUME TypeOK, [Next]_vars
    PROVE  \/ opened' = opened
           \/ \E e \in Events : opened' = opened \cup {e} /\ responses' = responses
  <1>1. ASSUME NEW a \in Admins, OpenVote(a)
        PROVE  \E e \in Events : opened' = opened \cup {e} /\ responses' = responses
    <2>1. admins[a].event \in Events
        BY <1>1, AdminPhase DEF OpenVote, Finish, AdminPhases, AdminRequest
    <2> QED
        BY <1>1, <2>1 DEF OpenVote, Finish
  <1>2. ASSUME NEW a \in Admins,
               \/ InsertOptions(a) \/ AddVoteOption(a) \/ CountOptions(a)
               \/ CloseVote(a) \/ InsertSomeOptions(a)
        PROVE  opened' = opened
      BY <1>2 DEF InsertOptions, AddVoteOption, CountOptions, CloseVote, InsertSomeOptions, event
  <1>3. ASSUME NEW a \in Admins, NEW e \in Events,
               \/ \E opts \in SUBSET Options : CreateVote(a, e, opts)
               \/ \E o \in Options : ReadDraft(a, e, o)
               \/ ReadToOpen(a, e)
               \/ ReadToClose(a, e)
        PROVE  opened' = opened
      BY <1>3 DEF CreateVote, ReadDraft, ReadToOpen, ReadToClose, Administer
  <1>4. ASSUME NEW b \in Ballots,
               \/ BallotStep(b) \/ FailBallot(b)
               \/ \E e \in Events, m \in Members, o \in Options : Admit(b, e, m, o)
        PROVE  opened' = opened
      BY <1>4 DEF BallotStep, CheckLock, CheckBallot, StoreResponse, RejectDuplicate, LogVote,
         Notify, Audit, WriteRow, FailBallot, Admit, event
  <1>5. ASSUME NEW m \in Members, SwitchLock(m)
        PROVE  opened' = opened
      BY <1>5 DEF SwitchLock, event
  <1>6. CASE Tick \/ UNCHANGED vars
      BY <1>6 DEF Tick, vars, event
  <1> QED
      BY <1>1, <1>2, <1>3, <1>4, <1>5, <1>6 DEF Next, AdminStep

\* Recording a response casts the ballot, opening opens the event, and every other
\* step of the service leaves the box as it is.
LEMMA BoxNext == VotingInv /\ [Next]_vars => [Box!Next]_<<opened, responses>>
<1> SUFFICES ASSUME VotingInv, [Next]_vars PROVE [Box!Next]_<<opened, responses>>
    OBVIOUS
<1>1. TypeOK
    BY DEF VotingInv
<1>2. ASSUME NEW e \in opened, NEW c \in Ballot,
             \A d \in responses[e] : d.member # c.member,
             responses' = [responses EXCEPT ![e] = @ \cup {c}],
             opened' = opened
      PROVE  Box!Next
  <2>1. e \in Events /\ c \in Box!Ballot
      BY <1>1, <1>2 DEF TypeOK, Ballot, Box!Ballot
  <2>2. Box!Cast(e, c)
      BY <1>2 DEF Box!Cast
  <2> QED
      BY <2>1, <2>2 DEF Box!Next
<1>3. ASSUME NEW e \in Events, opened' = opened \cup {e}, responses' = responses
      PROVE  Box!Next
    BY <1>3 DEF Box!Next, Box!Open
<1> QED
    BY <1>1, <1>2, <1>3, ResponsesStep, OpenedStep

\* VotingService implements BallotBox: no ballot before the event is opened, one
\* per voter, none ever changed or lost.
THEOREM ImplementsBallotBox == Spec => BallotBoxSpec
  <1>1. Init => Box!Init
      BY DEF Init, Box!Init
  <1> QED
      BY <1>1, VotingInit, VotingStep, BoxNext, PTL DEF Spec, BallotBoxSpec, Box!Spec
=============================================================================
