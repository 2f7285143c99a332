---------------------------- MODULE Recommendations ----------------------------
(***************************************************************************)
(* The recommendations of one member, and what member and staff make of    *)
(* them: RecommendationsService and reconcileRecommendations.              *)
(*                                                                         *)
(* Every look at the list regenerates it: the call reads the member's      *)
(* records, then the recommendations there are, decides what to create,    *)
(* update and expire, and writes each of these documents on its own.  A    *)
(* view, a dismissal or an action is a read and a save.  Nothing compares  *)
(* versions (versionKey: false).                                           *)
(*                                                                         *)
(* Left out: texts, scores, expiresAt (which every update sets anew) and   *)
(* the audience, which is part of the fingerprint: these are the offers of *)
(* one audience.                                                           *)
(***************************************************************************)
EXTENDS Naturals, FiniteSets

CONSTANTS
    MaxOffers,            \* bound: the fingerprints the rules come up with
    DismissDays,          \* RECOMMENDATION_THRESHOLDS.dismissSuppressionDays
    ActedDays,            \* RECOMMENDATION_THRESHOLDS.actedOnSuppressionDays
    LastDay,              \* bound: the days that pass, in the unit of the two
    MaxFeedCalls,         \* bound: HTTP calls, numbered in the order they arrive
    MaxFeedCallsAtOnce,   \* bound: HTTP calls under way at once
    EarlierFeeds,         \* bound: what earlier calls may have left, on day 0
    CandidateSets         \* bound: what the rules may make of the member's records

VARIABLES
    recs,        \* recommendations: recs[o], by fingerprint, or None
    recEvents,   \* recEvents[o]: the types of event recommendation_events has for o
    day,         \* new Date()
    feedCall,    \* the calls
    overlapped   \* ghost: calls that another call was under way with

feedVars == <<recs, recEvents, day, feedCall, overlapped>>

-----------------------------------------------------------------------------
Offers == 1..MaxOffers      \* in the order recommendationRules lists them
FeedCalls == 1..MaxFeedCalls

ActiveStatus == {"new", "viewed"}
RecStatus == ActiveStatus \cup {"dismissed", "acted_on", "expired"}
RecEventType == {"shown", "viewed", "clicked", "dismissed", "completed"}

None == [status |-> "none", updatedAt |-> 0]
Rec == [status: RecStatus, updatedAt: 0..LastDay]

ASSUME FeedConstants ==
    /\ {MaxOffers, DismissDays, ActedDays, LastDay, MaxFeedCalls, MaxFeedCallsAtOnce}
          \subseteq Nat
    /\ DismissDays <= ActedDays
    /\ CandidateSets \subseteq SUBSET Offers
    /\ EarlierFeeds \subseteq [Offers -> [status: RecStatus, updatedAt: {0}] \cup {None}]

Resting == {[at |-> "idle"], [at |-> "done"], [at |-> "dead"]}
Generation ==
    [at: {"existing", "write", "rejected"}, now: 0..LastDay, candidates: SUBSET Offers,
     create: SUBSET Offers,                     \* still to insert
     write: [Offers -> RecStatus \cup {"none"}]] \* still to update, and to what
Answer == [at: {"save", "track"}, offer: Offers, to: RecStatus, event: RecEventType]

FeedTypeOK ==
    /\ recs \in [Offers -> Rec \cup {None}]
    /\ recEvents \in [Offers -> SUBSET RecEventType]
    /\ day \in 0..LastDay
    /\ feedCall \in [FeedCalls -> Resting \cup Generation \cup Answer]
    /\ overlapped \subseteq FeedCalls

FeedInit ==
    /\ recs \in EarlierFeeds
    /\ recEvents = [o \in Offers |-> {}]
    /\ day = 0
    /\ feedCall = [k \in FeedCalls |-> [at |-> "idle"]]
    /\ overlapped = {}

FeedUnderWay == {k \in FeedCalls : feedCall[k] \notin Resting}

\* Call k comes in and goes on as c.
Enters(k, c) ==
    /\ feedCall[k].at = "idle" /\ \A j \in 1..(k - 1) : feedCall[j].at # "idle"
    /\ Cardinality(FeedUnderWay) < MaxFeedCallsAtOnce
    /\ feedCall' = [feedCall EXCEPT ![k] = c]
    /\ overlapped' = IF FeedUnderWay = {} THEN overlapped
                     ELSE overlapped \cup FeedUnderWay \cup {k}

\* Call k goes on as c.
GoesOn(k, c) == feedCall' = [feedCall EXCEPT ![k] = c] /\ UNCHANGED overlapped

\* The document of offer o is written with this status, and with timestamps.
Stored(o, status) == [recs EXCEPT ![o] = [status |-> status, updatedAt |-> day]]

-----------------------------------------------------------------------------
Nothing == [o \in Offers |-> "none"]

\* buildContext and buildCandidates: what the rules make of the member's records.
Generate(k, candidates) ==
    /\ Enters(k, [at |-> "existing", now |-> day, candidates |-> candidates,
                  create |-> {}, write |-> Nothing])
    /\ UNCHANGED <<recs, recEvents, day>>

\* isWithinDays
WithinDays(date, now, days) == now < date + days

\* The member dismissed this one, or acted on it, not long ago.
Suppressed(rec, now) ==
    \/ rec.status = "dismissed" /\ WithinDays(rec.updatedAt, now, DismissDays)
    \/ rec.status = "acted_on" /\ WithinDays(rec.updatedAt, now, ActedDays)

\* Mutation of Reconciled: only a dismissal is looked at.
ReconciledActedOn(o, candidates, now) ==
    IF recs[o] = None THEN "none"
    ELSE IF o \in candidates
         THEN IF recs[o].status = "dismissed" /\ Suppressed(recs[o], now) THEN "none"
              ELSE IF recs[o].status = "viewed" THEN "viewed" ELSE "new"
         ELSE IF recs[o].status \in ActiveStatus THEN "expired" ELSE "none"

\* reconcileRecommendations: the status document o is to get, or none
Reconciled(o, candidates, now) ==
    IF recs[o] = None THEN "none"
    ELSE IF o \in candidates
         THEN IF Suppressed(recs[o], now) THEN "none"
              ELSE IF recs[o].status = "viewed" THEN "viewed" ELSE "new"
         ELSE IF recs[o].status \in ActiveStatus THEN "expired" ELSE "none"

\* The documents there are, and reconcileRecommendations.
ReadExisting(k) ==
    LET g == feedCall[k]
    IN  /\ g.at = "existing"
        /\ GoesOn(k, [g EXCEPT !.at = "write",
              !.create = {o \in g.candidates : recs[o] = None},
              !.write = [o \in Offers |-> Reconciled(o, g.candidates, g.now)]])
        /\ UNCHANGED <<recs, recEvents, day>>

\* insertMany, in order: a fingerprint that has been taken ends the call.
InsertNext(k, o) ==
    LET g == feedCall[k]
    IN  /\ g.at = "write"
        /\ o \in g.create /\ \A p \in g.create : o <= p
        /\ \/ /\ recs[o] = None
              /\ recs' = Stored(o, "new")
              /\ GoesOn(k, [g EXCEPT !.create = @ \ {o}])
           \/ /\ recs[o] # None
              /\ GoesOn(k, [at |-> "done"])
              /\ UNCHANGED recs
        /\ UNCHANGED <<recEvents, day>>

\* A call that Promise.all has rejected is over when the rest of its writes are.
After(g) == IF g.at = "rejected" /\ g.write = Nothing THEN [at |-> "dead"] ELSE g

\* One document of the updates and the expiries, which Promise.all has under way.
WriteOne(k, o) ==
    LET g == feedCall[k]
    IN  /\ g.at \in {"write", "rejected"} /\ g.create = {} /\ g.write[o] # "none"
        /\ recs' = Stored(o, g.write[o])
        /\ GoesOn(k, After([g EXCEPT !.write[o] = "none"]))
        /\ UNCHANGED <<recEvents, day>>

\* Bound: something throws in one call of a behaviour.
MayThrow(k) == \A j \in FeedCalls \ {k} : feedCall[j].at \notin {"dead", "rejected"}

\* One of them throws: the caller is told, and the others land all the same.
WriteThrows(k, o) ==
    LET g == feedCall[k]
    IN  /\ g.at \in {"write", "rejected"} /\ g.create = {} /\ g.write[o] # "none"
        /\ MayThrow(k)
        /\ GoesOn(k, After([g EXCEPT !.at = "rejected", !.write[o] = "none"]))
        /\ UNCHANGED <<recs, recEvents, day>>

AllWritten(k) ==
    feedCall[k].at = "write" /\ feedCall[k].create = {} /\ feedCall[k].write = Nothing

\* generateForMember and generateForAll answer with counts.
AnswerCounts(k) ==
    /\ AllWritten(k)
    /\ GoesOn(k, [at |-> "done"])
    /\ UNCHANGED <<recs, recEvents, day>>

\* getRecommendationsForMember: the list, and an event for each that is on it.
AnswerList(k) ==
    /\ AllWritten(k)
    /\ recEvents' = [o \in Offers |->
          recEvents[o] \cup {e \in {"shown"} : recs[o].status \in ActiveStatus}]
    /\ GoesOn(k, [at |-> "done"])
    /\ UNCHANGED <<recs, day>>

-----------------------------------------------------------------------------
\* requireAccessibleRecommendation: the document is read.
ReadRec(k, o, at, to, event) ==
    /\ recs[o] # None
    /\ Enters(k, [at |-> at, offer |-> o, to |-> to, event |-> event])
    /\ UNCHANGED <<recs, recEvents, day>>

MarkViewed(k, o) ==
    ReadRec(k, o, IF recs[o].status = "new" THEN "save" ELSE "track", "viewed", "viewed")

\* dismiss and act: save() of a status the document has already writes nothing.
Dismiss(k, o) ==
    ReadRec(k, o, IF recs[o].status = "dismissed" THEN "track" ELSE "save",
            "dismissed", "dismissed")
Act(k, o, completed) ==
    ReadRec(k, o, IF recs[o].status = "acted_on" THEN "track" ELSE "save",
            "acted_on", IF completed THEN "completed" ELSE "clicked")

SaveRec(k) ==
    LET a == feedCall[k]
    IN  /\ a.at = "save"
        /\ recs' = Stored(a.offer, a.to)
        /\ GoesOn(k, [a EXCEPT !.at = "track"])
        /\ UNCHANGED <<recEvents, day>>

\* RecommendationAnalyticsService.track
Track(k) ==
    LET a == feedCall[k]
    IN  /\ a.at = "track"
        /\ recEvents' = [recEvents EXCEPT ![a.offer] = @ \cup {a.event}]
        /\ GoesOn(k, [at |-> "done"])
        /\ UNCHANGED <<recs, day>>

\* The next await throws, or the server stops.
FeedCallThrows(k) ==
    /\ k \in FeedUnderWay
    /\ MayThrow(k)
    /\ GoesOn(k, [at |-> "dead"])
    /\ UNCHANGED <<recs, recEvents, day>>

DayPasses ==
    /\ day < LastDay
    /\ day' = day + 1
    /\ UNCHANGED <<recs, recEvents, feedCall, overlapped>>

FeedNextOf(k) ==
    \/ \E candidates \in CandidateSets : Generate(k, candidates)
    \/ ReadExisting(k) \/ AnswerCounts(k) \/ AnswerList(k)
    \/ \E o \in Offers : \/ InsertNext(k, o) \/ WriteOne(k, o) \/ WriteThrows(k, o)
                         \/ MarkViewed(k, o) \/ Dismiss(k, o)
                         \/ \E completed \in BOOLEAN : Act(k, o, completed)
    \/ SaveRec(k) \/ Track(k)
    \/ FeedCallThrows(k)

-----------------------------------------------------------------------------
(* What the member dismissed, or acted on, is not offered again before its  *)
(* time is up, whatever is generated, viewed and answered meanwhile: only a *)
(* call that had company can bring it back, because it may write what it    *)
(* decided before (reconcileRecommendations; markViewed after dismiss).     *)
DismissalsHold ==
    [][\A o \in Offers :
          Suppressed(recs[o], day) /\ recs'[o].status \in ActiveStatus =>
             \E k \in overlapped : feedCall'[k] # feedCall[k]]_feedVars

(* A generation that had no company leaves exactly the candidates active,   *)
(* save those that are suppressed, although it writes them one by one and   *)
(* an earlier one may have stopped or been rejected half way                *)
(* (generateRecommendations).                                               *)
FeedIsCurrent ==
    \A k \in FeedCalls \ overlapped :
        AllWritten(k) =>
            \A o \in Offers :
                recs[o].status \in ActiveStatus
                    <=> /\ o \in feedCall[k].candidates
                        /\ ~Suppressed(recs[o], feedCall[k].now)
=============================================================================
