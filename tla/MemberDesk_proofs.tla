---------------------------- MODULE MemberDesk_proofs ----------------------------
(* Proofs about the member's desk: for any number of service requests, cards,     *)
(* card requests, recommendations and calls under way at once, whatever order     *)
(* their reads and saves interleave in, and whichever of them die half way.       *)
EXTENDS MemberDesk, SequenceTheorems, TLAPS

-----------------------------------------------------------------------------
(* The service requests.                                                       *)

\* The dates of a document tell its status.
Dated(doc) ==
    /\ doc.completedAt # 0 <=> doc.status = "completed"
    /\ doc.cancelledAt # 0 => doc.status = "cancelled"

(* A call works on a request there is, and unless it was overtaken, what it is   *)
(* about to save is dated.                                                     *)
CallsAreDated ==
    \A k \in ServiceCalls : call[k] \in Call =>
        /\ call[k].request \in DOMAIN requests
        /\ call[k].at = "save" /\ call[k].request \notin outdated => Dated(call[k].next)

ServiceInv == ServiceTypeOK /\ CallsAreDated /\ DatesTellStatus

-----------------------------------------------------------------------------
(* The cards.                                                                  *)

Closing == {"rejected", "completed"}
WaitingStatus == {"pending_issue", "replacement_requested"}

(* A call under way works on a card and a request there are.                   *)
HoldsCard(d) == d.card \in DOMAIN cards
HoldsRequest(d) == d.request \in DOMAIN cardRequests

Holds(d) ==
    /\ d.at \in {"find", "insert"} => d.op = "create"
    /\ d.at = "store" => d.op \in {"create", "replace"} /\ HoldsCard(d)
    /\ d.at = "check" => d.op = "replace" /\ HoldsCard(d)
    /\ d.at \in {"card", "request"} => d.op = "decide" /\ HoldsRequest(d)
    /\ d.at = "save" => d.op \in {"lock", "unlock", "replace", "decide"}
    /\ d.at \in {"request", "save", "event"} => HoldsCard(d)
    /\ d.at \in {"save", "event"} /\ d.op = "decide" => HoldsRequest(d)
    /\ d.at = "event" /\ d.op = "create" => HoldsRequest(d)
    /\ d.at = "notify" => HoldsRequest(d)
    /\ d.at \in {"request", "save"} /\ d.op = "decide" => d.card = cardRequests[d.request].card

(* What call k is to save of the card is what its operation makes of one: only   *)
(* lock and unlock date the lock, only a decision to complete dates the issue.  *)
Changes(k, d) ==
    /\ d.at \in {"request", "save"} /\ d.op = "decide" =>
          /\ d.next.status # "locked"
          /\ d.next.status \in WaitingStatus <=> d.to \notin Closing
          /\ d.next.lockedAt = d.seen.lockedAt
          /\ d.to # "completed" => d.next.issuedAt = d.seen.issuedAt
          /\ d.to = "completed" => d.next.issuedAt = k /\ d.seen.issuedAt # k
    /\ d.at = "save" /\ d.op # "decide" => d.next.issuedAt = d.seen.issuedAt
    /\ d.at = "save" /\ d.op = "lock" =>
          /\ d.seen.status # "locked" /\ d.next.status = "locked"
          /\ d.next.lockedAt = k /\ d.seen.lockedAt # k
    /\ d.at = "save" /\ d.op = "unlock" =>
          d.seen.status = "locked" /\ d.next.status = "active" /\ d.next.lockedAt = 0
    /\ d.at \in {"save", "check"} /\ d.op = "replace" =>
          /\ d.next.status = "replacement_requested"
          /\ d.next.issuedAt = d.seen.issuedAt /\ d.next.lockedAt = d.seen.lockedAt

(* Until a call has saved the card no date is its.                             *)
DatesAreOfSaves ==
    \A c \in DOMAIN cards, k \in CardCalls :
        cards[c].issuedAt = k \/ cards[c].lockedAt = k =>
            cardCall[k].at \in {"event", "notify", "done", "dead"}

(* Of an uncontested request a decision knows the status.                      *)
DecisionsKnow ==
    \A k \in CardCalls :
        LET d == cardCall[k]
        IN  d.at \in {"card", "request", "save"} /\ d.op = "decide" /\ d.request \notin contested =>
              /\ d.at \in {"card", "request"} => cardRequests[d.request].status = d.was
              /\ d.at = "save" => cardRequests[d.request].status = d.to
              /\ \A j \in Deciding(d.request) : j = k

(* A card that waits has an open request, with no decision under way that would  *)
(* close it and leave the card as it is; or a call that has yet to store one, to *)
(* take the card from waiting, or that died.                                   *)
OpenFor(c, q) ==
    /\ cardRequests[q].card = c
    /\ \/ q \in contested
       \/ /\ cardRequests[q].status \notin Closing
          /\ \A k \in Deciding(q) :
                cardCall[k].at = "request" /\ cardCall[k].to \in Closing =>
                    cardCall[k].seen.status \in WaitingStatus

CaredFor(c, k) ==
    /\ cardCall[k].at \in {"store", "save", "dead"}
    /\ cardCall[k].card = c
    /\ cardCall[k].at = "save" =>
          \/ cardCall[k].op = "replace"
          \/ /\ cardCall[k].op = "decide" /\ cardCall[k].to \in Closing
             /\ cardCall[k].seen.status \in WaitingStatus

WaitingHasCause ==
    \A c \in DOMAIN cards :
        cards[c].status \in WaitingStatus =>
            \/ \E q \in DOMAIN cardRequests : OpenFor(c, q)
            \/ \E k \in CardCalls : CaredFor(c, k)

CompletedIsIssued ==
    \A q \in DOMAIN cardRequests :
        cardRequests[q].status = "completed" =>
            \/ cards[cardRequests[q].card].issuedAt # 0
            \/ \E k \in CardCalls : /\ cardCall[k].at \in {"save", "dead"}
                                    /\ cardCall[k].request = q /\ cardCall[k].op = "decide"
                                    /\ cardCall[k].to = "completed"

CardInv ==
    /\ CardTypeOK
    /\ \A k \in CardCalls : Holds(cardCall[k]) /\ Changes(k, cardCall[k])
    /\ \A q \in DOMAIN cardRequests : cardRequests[q].card \in DOMAIN cards
    /\ DatesAreOfSaves
    /\ DecisionsKnow
    /\ WaitingHasCause
    /\ CompletedIsIssued
    /\ LockedIsDated

-----------------------------------------------------------------------------
(* The recommendations.                                                        *)

\* Of two calls under way at once both have had company.
OverlapsAreSeen ==
    \A j, k \in FeedUnderWay : j # k => j \in overlapped

\* What the generation g, that had no company, has still to do about offer o.
LeftToDo(g, o) ==
    CASE o \in g.create -> recs[o] = None /\ o \in g.candidates /\ g.write[o] = "none"
      [] o \notin g.create /\ g.write[o] # "none" ->
            recs[o] # None /\ g.write[o] = Reconciled(o, g.candidates, g.now)
      [] OTHER -> recs[o].status \in ActiveStatus
                     <=> o \in g.candidates /\ ~Suppressed(recs[o], g.now)

\* A write that is still under way is what reconcileRecommendations decided.
StillLands(g, o) ==
    g.write[o] # "none" => recs[o] # None /\ g.write[o] = Reconciled(o, g.candidates, g.now)

LonelyCalls ==
    \A k \in FeedUnderWay :
        LET d == feedCall[k]
        IN  /\ d \in Generation => d.now <= day
            /\ d.at = "existing" => d.create = {}
            /\ k \notin overlapped =>
                  /\ d.at = "write" => \A o \in Offers : LeftToDo(d, o)
                  /\ d.at = "rejected" => \A o \in Offers : StillLands(d, o)
                  /\ d.at = "save" /\ d.to \in ActiveStatus => recs[d.offer].status = "new"

FeedInv == FeedTypeOK /\ OverlapsAreSeen /\ LonelyCalls

DeskInv == ServiceInv /\ CardInv /\ FeedInv /\ load \in DeskLoads

-----------------------------------------------------------------------------
(* The service requests: every step keeps ServiceInv.                          *)
LEMMA CallKinds ==
    ASSUME ServiceTypeOK, NEW k \in ServiceCalls
    PROVE  /\ call[k].at \in {"idle", "done"} => call[k] \notin Call
           /\ call[k].at \in {"save", "event", "notify", "dead"} => call[k] \in Call
           /\ call[k] \in Call => /\ call[k].at \in {"save", "event", "notify", "dead"}
                                  /\ call[k].request \in 1..MaxRequests
                                  /\ call[k].seen \in RequestDoc /\ call[k].next \in RequestDoc
<1>1. call[k] \in Call \/ call[k] = Waiting \/ call[k] = Finished
  BY DEF ServiceTypeOK
<1>2. CASE call[k] \in Call
  BY <1>2 DEF Call
<1>3. CASE call[k] = Waiting \/ call[k] = Finished
  BY <1>3 DEF Call, Waiting, Finished
<1> QED
  BY <1>1, <1>2, <1>3

\* A step of call k that leaves the requests alone.
LEMMA ServiceInvCall ==
    ASSUME ServiceInv, NEW k \in ServiceCalls, NEW next \in Call \cup {Waiting, Finished},
           call' = [call EXCEPT ![k] = next], UNCHANGED <<requests, outdated>>,
           timeline' \subseteq (DOMAIN requests) \X Statuses,
           told' \subseteq (DOMAIN requests) \X Statuses,
           next \in Call => /\ next.request \in DOMAIN requests
                            /\ next.at = "save" /\ next.request \notin outdated => Dated(next.next)
    PROVE  ServiceInv'
<1>1. ServiceTypeOK'
  BY DEF ServiceInv, ServiceTypeOK
<1>2. call'[k] = next /\ \A j \in ServiceCalls : j # k => call'[j] = call[j]
  BY DEF ServiceInv, ServiceTypeOK
<1>3. CallsAreDated'
  BY <1>2 DEF ServiceInv, CallsAreDated, Dated
<1>4. DatesTellStatus'
  BY DEF ServiceInv, DatesTellStatus
<1> QED
  BY <1>1, <1>3, <1>4 DEF ServiceInv

LEMMA ServiceInvCreate ==
    ASSUME ServiceInv, NEW k \in ServiceCalls, Create(k) PROVE ServiceInv'
<1>1. PICK n \in Nat : n = Len(requests) /\ n < MaxRequests
  BY DEF Create, ServiceInv, ServiceTypeOK
<1>2. Submitted \in RequestDoc /\ Dated(Submitted)
  BY ServiceConstants DEF Submitted, RequestDoc, Statuses, Dates, Dated
<1>3. /\ requests' = Append(requests, Submitted) /\ requests \in Seq(RequestDoc)
      /\ UNCHANGED <<timeline, told, outdated>>
  BY DEF Create, ServiceInv, ServiceTypeOK
<1>4. /\ requests' \in Seq(RequestDoc) /\ Len(requests') = n + 1
      /\ \A q \in 1..n : requests'[q] = requests[q]
      /\ requests'[n + 1] = Submitted
  BY <1>1, <1>2, <1>3, AppendProperties
<1>5. DOMAIN requests = 1..n /\ DOMAIN requests' = 1..(n + 1) /\ DOMAIN requests \subseteq DOMAIN requests'
  BY <1>1, <1>3, <1>4
<1> DEFINE next == [at |-> "event", request |-> n + 1, seen |-> Submitted, next |-> Submitted]
<1>6. n + 1 \in 1..MaxRequests
  BY <1>1, ServiceConstants
<1>7. next \in Call /\ next.request = n + 1 /\ next.at = "event"
  BY <1>2, <1>6 DEF Call
<1>8. call' = [call EXCEPT ![k] = next]
  BY <1>1 DEF Create
<1> HIDE DEF next
<1>9. /\ call'[k] = next /\ \A j \in ServiceCalls : j # k => call'[j] = call[j]
      /\ call' \in [ServiceCalls -> Call \cup {Waiting, Finished}]
  BY <1>7, <1>8 DEF ServiceInv, ServiceTypeOK
<1>10. Len(requests') <= MaxRequests
  BY <1>1, <1>4, ServiceConstants
<1>11. ServiceTypeOK'
  BY <1>3, <1>4, <1>5, <1>9, <1>10 DEF ServiceInv, ServiceTypeOK
<1>12. CallsAreDated'
  <2>1. n + 1 \in DOMAIN requests'
    BY <1>5
  <2> QED
    BY <1>3, <1>5, <1>7, <1>9, <2>1 DEF ServiceInv, CallsAreDated, Dated
<1>13. DatesTellStatus'
  <2> SUFFICES ASSUME NEW q \in DOMAIN requests', q \notin outdated PROVE Dated(requests'[q])
    BY <1>3 DEF DatesTellStatus, Dated
  <2>1. q \in 1..n \/ q = n + 1
    BY <1>5
  <2> QED
    BY <2>1, <1>2, <1>4, <1>5 DEF ServiceInv, DatesTellStatus, Dated
<1> QED
  BY <1>11, <1>12, <1>13 DEF ServiceInv

\* A call that reads a request and sets its status, with the date that goes with it.
LEMMA ServiceInvRead ==
    ASSUME ServiceInv, NEW k \in ServiceCalls, NEW q \in DOMAIN requests, NEW next \in RequestDoc,
           Read(k, q, next), q \notin outdated => Dated(next)
    PROVE  ServiceInv'
<1> DEFINE d == [at |-> "save", request |-> q, seen |-> requests[q], next |-> next]
<1>1. requests[q] \in RequestDoc /\ q \in 1..MaxRequests
  BY ServiceConstants DEF ServiceInv, ServiceTypeOK
<1>2. d \in Call /\ d.request = q /\ d.next = next
  BY <1>1 DEF Call
<1>3. call' = [call EXCEPT ![k] = d] /\ UNCHANGED <<requests, timeline, told, outdated>>
  BY DEF Read
<1> HIDE DEF d
<1>4. timeline' \subseteq (DOMAIN requests) \X Statuses /\ told' \subseteq (DOMAIN requests) \X Statuses
  BY <1>3 DEF ServiceInv, ServiceTypeOK
<1> QED
  BY <1>2, <1>3, <1>4, ServiceInvCall

LEMMA ServiceInvDecided ==
    ASSUME ServiceInv, NEW k \in ServiceCalls, NEW q \in DOMAIN requests,
           Cancel(k, q) \/ \E to \in SentStatuses : UpdateStatus(k, q, to)
    PROVE  ServiceInv'
<1>1. requests[q] \in RequestDoc /\ (q \notin outdated => Dated(requests[q])) /\ k \in Dates /\ k # 0
  BY ServiceConstants DEF ServiceInv, ServiceTypeOK, DatesTellStatus, Dated, Dates, ServiceCalls
<1>2. CASE Cancel(k, q)
  <2> DEFINE next == [requests[q] EXCEPT !.status = "cancelled", !.cancelledAt = k]
  <2>1. next \in RequestDoc
    BY <1>1 DEF RequestDoc, Statuses
  <2>2. q \notin outdated => Dated(next)
    BY <1>1, <1>2 DEF Cancel, Dated, RequestDoc
  <2>3. Read(k, q, next)
    BY <1>2 DEF Cancel
  <2> QED
    BY <2>1, <2>2, <2>3, ServiceInvRead
<1>3. ASSUME NEW to \in SentStatuses, UpdateStatus(k, q, to) PROVE ServiceInv'
  <2>0. PICK date \in Dates : date = IF to = "completed" THEN k ELSE 0
    BY <1>1, ServiceConstants DEF Dates
  <2> DEFINE next == [requests[q] EXCEPT !.status = to, !.completedAt = date]
  <2>1. next \in RequestDoc
    BY <1>1, ServiceConstants DEF RequestDoc
  <2>2. q \notin outdated => Dated(next)
    BY <1>1, <1>3, <2>0 DEF UpdateStatus, Dated, RequestDoc
  <2>3. Read(k, q, next)
    BY <1>3, <2>0 DEF UpdateStatus
  <2> QED
    BY <2>1, <2>2, <2>3, ServiceInvRead
<1> QED
  BY <1>2, <1>3

\* A save of what was read last stores what the call made of it.
LEMMA SavedRequest ==
    ASSUME NEW stored \in RequestDoc, NEW old \in RequestDoc, NEW new \in RequestDoc
    PROVE  Saved(stored, old, new) \in RequestDoc /\ Saved(old, old, new) = new
<1>1. DOMAIN stored = {"status", "completedAt", "cancelledAt"}
      /\ DOMAIN old = {"status", "completedAt", "cancelledAt"}
      /\ DOMAIN new = {"status", "completedAt", "cancelledAt"}
  BY DEF RequestDoc
<1>2. Saved(stored, old, new) =
         [status |-> IF old.status = new.status THEN stored.status ELSE new.status,
          completedAt |-> IF old.completedAt = new.completedAt THEN stored.completedAt ELSE new.completedAt,
          cancelledAt |-> IF old.cancelledAt = new.cancelledAt THEN stored.cancelledAt ELSE new.cancelledAt]
  BY <1>1 DEF Saved
<1>3. Saved(stored, old, new) \in RequestDoc
  BY <1>2 DEF RequestDoc
<1>4. Saved(old, old, new) = [status |-> new.status, completedAt |-> new.completedAt,
                              cancelledAt |-> new.cancelledAt]
  BY <1>1 DEF Saved
<1>5. new = [status |-> new.status, completedAt |-> new.completedAt, cancelledAt |-> new.cancelledAt]
  BY DEF RequestDoc
<1> QED
  BY <1>3, <1>4, <1>5

LEMMA ServiceInvSaveRequest ==
    ASSUME ServiceInv, NEW k \in ServiceCalls, SaveRequest(k) PROVE ServiceInv'
<1>1. PICK d \in Call : d = call[k] /\ d.at = "save"
  BY CallKinds DEF SaveRequest, ServiceInv
<1>2. PICK q \in DOMAIN requests : q = d.request
  BY <1>1 DEF ServiceInv, CallsAreDated
<1>3. /\ d.seen \in RequestDoc /\ d.next \in RequestDoc /\ requests \in Seq(RequestDoc)
      /\ requests[q] \in RequestDoc /\ (q \notin outdated => Dated(d.next))
  BY <1>1, <1>2 DEF Call, ServiceInv, ServiceTypeOK, CallsAreDated
<1>4. PICK doc \in RequestDoc : doc = Saved(requests[q], d.seen, d.next)
  BY <1>3, SavedRequest
<1>5. /\ requests' = [requests EXCEPT ![q] = doc]
      /\ outdated' = IF requests[q] = d.seen THEN outdated ELSE outdated \cup {q}
      /\ call' = [call EXCEPT ![k].at = "event"] /\ UNCHANGED <<timeline, told>>
  BY <1>1, <1>2, <1>4 DEF SaveRequest
<1>6. /\ requests' \in Seq(RequestDoc) /\ Len(requests') = Len(requests)
      /\ DOMAIN requests' = DOMAIN requests
      /\ requests'[q] = doc /\ \A r \in DOMAIN requests : r # q => requests'[r] = requests[r]
  BY <1>3, <1>5
<1> DEFINE next == [d EXCEPT !.at = "event"]
<1>7. next \in Call /\ next.at = "event" /\ next.request = q
  BY <1>1, <1>2 DEF Call
<1>8. call' = [call EXCEPT ![k] = next]
  BY <1>1, <1>5 DEF ServiceInv, ServiceTypeOK
<1> HIDE DEF next
<1>9. /\ call'[k] = next /\ \A j \in ServiceCalls : j # k => call'[j] = call[j]
      /\ call' \in [ServiceCalls -> Call \cup {Waiting, Finished}]
  BY <1>7, <1>8 DEF ServiceInv, ServiceTypeOK
<1>10. outdated \subseteq outdated' /\ outdated' \subseteq DOMAIN requests
  BY <1>5 DEF ServiceInv, ServiceTypeOK
<1>11. ServiceTypeOK'
  BY <1>5, <1>6, <1>9, <1>10 DEF ServiceInv, ServiceTypeOK
<1>12. CallsAreDated'
  BY <1>6, <1>7, <1>9, <1>10 DEF ServiceInv, CallsAreDated, Dated
<1>13. DatesTellStatus'
  <2> SUFFICES ASSUME NEW r \in DOMAIN requests, r \notin outdated' PROVE Dated(requests'[r])
    BY <1>6 DEF DatesTellStatus, Dated
  <2>1. CASE r # q
    BY <2>1, <1>6, <1>10 DEF ServiceInv, DatesTellStatus, Dated
  <2>2. CASE r = q
    <3>1. requests[q] = d.seen /\ q \notin outdated
      BY <2>2, <1>5
    <3>2. doc = d.next
      BY <3>1, <1>3, <1>4, SavedRequest
    <3> QED
      BY <2>2, <3>1, <3>2, <1>3, <1>6
  <2> QED
    BY <2>1, <2>2
<1> QED
  BY <1>11, <1>12, <1>13 DEF ServiceInv

\* The writes after the save, and a call that dies.
LEMMA ServiceInvAfterwards ==
    ASSUME ServiceInv, NEW k \in ServiceCalls, WriteEvent(k) \/ NotifyMember(k) \/ CallThrows(k)
    PROVE  ServiceInv'
<1>1. call[k].at \in {"save", "event", "notify"}
  BY DEF WriteEvent, NotifyMember, CallThrows
<1>2. PICK d \in Call : d = call[k]
  BY <1>1, CallKinds DEF ServiceInv
<1>3. d.request \in DOMAIN requests /\ d.next.status \in Statuses
  BY <1>2 DEF ServiceInv, CallsAreDated, Call, RequestDoc
<1>4. Change(k) \in (DOMAIN requests) \X Statuses
  BY <1>2, <1>3 DEF Change
<1>5. PICK next \in Call \cup {Finished} :
         /\ call' = [call EXCEPT ![k] = next]
         /\ next \in Call => next.request = d.request /\ next.at # "save"
  <2>1. CASE NotifyMember(k)
    <3>1. Finished \notin Call
      BY DEF Finished, Call
    <3>2. call' = [call EXCEPT ![k] = Finished]
      BY <2>1 DEF NotifyMember
    <3> QED
      BY <3>1, <3>2
  <2>2. ASSUME NEW at \in {"notify", "dead"}, call' = [call EXCEPT ![k].at = at]
        PROVE  \E next \in Call \cup {Finished} :
                  /\ call' = [call EXCEPT ![k] = next]
                  /\ next \in Call => next.request = d.request /\ next.at # "save"
    <3> DEFINE next == [d EXCEPT !.at = at]
    <3>1. next \in Call /\ next.request = d.request /\ next.at = at
      BY DEF Call
    <3>2. call' = [call EXCEPT ![k] = next]
      BY <1>2, <2>2 DEF ServiceInv, ServiceTypeOK
    <3> HIDE DEF next
    <3> QED
      BY <3>1, <3>2
  <2>3. CASE WriteEvent(k)
    BY <2>2, <2>3 DEF WriteEvent
  <2>4. CASE CallThrows(k)
    BY <2>2, <2>4 DEF CallThrows
  <2> QED
    BY <2>1, <2>3, <2>4
<1>6. UNCHANGED <<requests, outdated>>
  BY DEF WriteEvent, NotifyMember, CallThrows
<1>7. timeline' \subseteq (DOMAIN requests) \X Statuses /\ told' \subseteq (DOMAIN requests) \X Statuses
  BY <1>4 DEF WriteEvent, NotifyMember, CallThrows, ServiceInv, ServiceTypeOK
<1> QED
  BY <1>3, <1>5, <1>6, <1>7, ServiceInvCall

LEMMA ServiceInvNext ==
    ASSUME ServiceInv, NEW k \in ServiceCalls, ServiceNextOf(k) PROVE ServiceInv'
  BY ServiceInvCreate, ServiceInvDecided, ServiceInvSaveRequest, ServiceInvAfterwards
     DEF ServiceNextOf, ServiceStep

LEMMA ServiceInvInit == ASSUME ServiceInit PROVE ServiceInv
  BY ServiceConstants DEF ServiceInit, ServiceInv, ServiceTypeOK, CallsAreDated, DatesTellStatus,
     Waiting, Call

-----------------------------------------------------------------------------
(* The recommendations: every step keeps FeedInv.                              *)
LEMMA FeedNumbers ==
    /\ MaxOffers \in Nat /\ DismissDays \in Nat /\ ActedDays \in Nat /\ LastDay \in Nat
    /\ MaxFeedCalls \in Nat /\ CandidateSets \subseteq SUBSET Offers
  BY FeedConstants

LEMMA FeedKinds ==
    ASSUME FeedTypeOK, NEW k \in FeedCalls
    PROVE  /\ k \in FeedUnderWay <=> feedCall[k] \in Generation \cup Answer
           /\ feedCall[k].at = "idle" => k \notin FeedUnderWay
           /\ feedCall[k].at \in {"existing", "write", "rejected"} => feedCall[k] \in Generation
           /\ feedCall[k].at \in {"save", "track"} => feedCall[k] \in Answer
           /\ feedCall[k] \in Generation => feedCall[k].at \in {"existing", "write", "rejected"}
           /\ feedCall[k] \in Answer => feedCall[k].at \in {"save", "track"}
<1>1. feedCall[k] \in Resting \/ feedCall[k] \in Generation \/ feedCall[k] \in Answer
  BY DEF FeedTypeOK
<1>2. CASE feedCall[k] \in Resting
  BY <1>2 DEF Resting, Generation, Answer, FeedUnderWay
<1>3. CASE feedCall[k] \in Generation
  BY <1>3 DEF Resting, Generation, Answer, FeedUnderWay
<1>4. CASE feedCall[k] \in Answer
  BY <1>4 DEF Resting, Generation, Answer, FeedUnderWay
<1> QED
  BY <1>1, <1>2, <1>3, <1>4

LEMMA FeedShapes ==
    /\ \A c \in Generation : /\ c \notin Resting /\ c \notin Answer /\ c.at \in {"existing", "write", "rejected"}
                             /\ c.now \in 0..LastDay /\ c.candidates \subseteq Offers
                             /\ c.create \subseteq Offers
                             /\ c.write \in [Offers -> RecStatus \cup {"none"}]
    /\ \A c \in Answer : /\ c \notin Resting /\ c.at \in {"save", "track"} /\ c.offer \in Offers
                         /\ c.to \in RecStatus /\ c.event \in RecEventType
    /\ \A c \in Resting : c.at \in {"idle", "done", "dead"}
  BY DEF Generation, Answer, Resting

\* The calls after call k moves on to c.
LEMMA FeedCallMoves ==
    ASSUME FeedTypeOK, NEW k \in FeedCalls, NEW c \in Resting \cup Generation \cup Answer,
           feedCall' = [feedCall EXCEPT ![k] = c]
    PROVE  /\ feedCall' \in [FeedCalls -> Resting \cup Generation \cup Answer]
           /\ feedCall'[k] = c /\ \A j \in FeedCalls : j # k => feedCall'[j] = feedCall[j]
           /\ \A j \in FeedUnderWay' : j \in FeedCalls /\ (j = k \/ j \in FeedUnderWay)
           /\ k \in FeedUnderWay' <=> c \in Generation \cup Answer
<1>1. /\ feedCall' \in [FeedCalls -> Resting \cup Generation \cup Answer]
      /\ feedCall'[k] = c /\ \A j \in FeedCalls : j # k => feedCall'[j] = feedCall[j]
  BY DEF FeedTypeOK
<1>2. \A j \in FeedUnderWay' : j \in FeedCalls /\ (j = k \/ j \in FeedUnderWay)
  BY <1>1 DEF FeedUnderWay
<1>3. k \in FeedUnderWay' <=> c \notin Resting
  BY <1>1 DEF FeedUnderWay
<1>4. c \notin Resting <=> c \in Generation \cup Answer
  BY FeedShapes
<1> QED
  BY <1>1, <1>2, <1>3, <1>4

\* A call that comes in has company, or is alone.
LEMMA FeedInvEnters ==
    ASSUME FeedInv, NEW k \in FeedCalls, NEW c \in Generation \cup Answer, Enters(k, c),
           UNCHANGED <<recs, recEvents, day>>,
           c \in Generation => c.at = "existing" /\ c.now = day /\ c.create = {},
           c.at = "save" /\ c.to \in ActiveStatus => recs[c.offer].status = "new"
    PROVE  FeedInv'
<1>1. feedCall' = [feedCall EXCEPT ![k] = c] /\ feedCall[k].at = "idle" /\ FeedTypeOK
  BY DEF Enters, FeedInv
<1>2. /\ feedCall' \in [FeedCalls -> Resting \cup Generation \cup Answer]
      /\ feedCall'[k] = c /\ \A j \in FeedCalls : j # k => feedCall'[j] = feedCall[j]
      /\ \A j \in FeedUnderWay' : j \in FeedCalls /\ (j = k \/ j \in FeedUnderWay)
      /\ k \notin FeedUnderWay
  BY <1>1, FeedCallMoves, FeedKinds
<1>3. /\ overlapped \subseteq overlapped' /\ overlapped' \subseteq FeedCalls
      /\ \A j \in FeedUnderWay : j \in overlapped' /\ k \in overlapped'
  BY <1>1 DEF Enters, FeedUnderWay, FeedTypeOK
<1>4. FeedTypeOK'
  BY <1>1, <1>2, <1>3 DEF FeedTypeOK
<1>5. OverlapsAreSeen'
  BY <1>2, <1>3 DEF OverlapsAreSeen
<1>6. LonelyCalls'
  <2> SUFFICES ASSUME NEW j \in FeedUnderWay', NEW d, d = feedCall'[j]
               PROVE  /\ d \in Generation => d.now <= day
                      /\ d.at = "existing" => d.create = {}
                      /\ j \notin overlapped' =>
                            /\ d.at = "write" => \A o \in Offers : LeftToDo(d, o)'
                            /\ d.at = "rejected" => \A o \in Offers : StillLands(d, o)'
                            /\ d.at = "save" /\ d.to \in ActiveStatus => recs[d.offer].status = "new"
    BY DEF LonelyCalls, LeftToDo, StillLands
  <2>1. CASE j = k
    <3>1. /\ d = c /\ c.at \notin {"write", "rejected"}
          /\ c.at = "existing" => c \in Generation
      BY <2>1, <1>2, FeedShapes
    <3>2. day <= day
      BY <1>1, FeedNumbers DEF FeedTypeOK
    <3> QED
      BY <2>1, <3>1, <3>2
  <2>2. CASE j # k
    <3>1. j \in FeedUnderWay /\ d = feedCall[j] /\ (j \notin overlapped' => j \notin overlapped)
      BY <2>2, <1>2, <1>3
    <3>2. \A o \in Offers : /\ LeftToDo(d, o) => LeftToDo(d, o)'
                            /\ StillLands(d, o) => StillLands(d, o)'
      BY DEF LeftToDo, StillLands, Reconciled
    <3> QED
      BY <3>1, <3>2 DEF FeedInv, LonelyCalls
  <2> QED
    BY <2>1, <2>2
<1> QED
  BY <1>4, <1>5, <1>6 DEF FeedInv

\* A call that goes on: the others, if any, have had company.
LEMMA FeedInvGoesOn ==
    ASSUME FeedInv, NEW k \in FeedUnderWay, NEW c \in Resting \cup Generation \cup Answer, GoesOn(k, c),
           recs' \in [Offers -> Rec \cup {None}], recEvents' \in [Offers -> SUBSET RecEventType],
           day' = day,
           c \in Generation =>
              /\ feedCall[k] \in Generation /\ c.now = feedCall[k].now
              /\ c.at \in {"write", "rejected"}
              /\ k \notin overlapped =>
                    /\ c.at = "write" => \A o \in Offers : LeftToDo(c, o)'
                    /\ c.at = "rejected" => \A o \in Offers : StillLands(c, o)',
           c.at # "save"
    PROVE  FeedInv'
<1>1. k \in FeedCalls /\ feedCall' = [feedCall EXCEPT ![k] = c] /\ overlapped' = overlapped /\ FeedTypeOK
  BY DEF GoesOn, FeedInv, FeedUnderWay
<1>2. /\ feedCall' \in [FeedCalls -> Resting \cup Generation \cup Answer]
      /\ feedCall'[k] = c /\ \A j \in FeedCalls : j # k => feedCall'[j] = feedCall[j]
      /\ \A j \in FeedUnderWay' : j \in FeedCalls /\ (j = k \/ j \in FeedUnderWay)
  BY <1>1, FeedCallMoves
<1>3. FeedTypeOK'
  BY <1>1, <1>2 DEF FeedTypeOK
<1>4. OverlapsAreSeen'
  BY <1>1, <1>2 DEF OverlapsAreSeen, FeedInv
<1>5. LonelyCalls'
  <2> SUFFICES ASSUME NEW j \in FeedUnderWay', NEW d, d = feedCall'[j]
               PROVE  /\ d \in Generation => d.now <= day
                      /\ d.at = "existing" => d.create = {}
                      /\ j \notin overlapped =>
                            /\ d.at = "write" => \A o \in Offers : LeftToDo(d, o)'
                            /\ d.at = "rejected" => \A o \in Offers : StillLands(d, o)'
                            /\ d.at = "save" /\ d.to \in ActiveStatus => recs'[d.offer].status = "new"
    BY <1>1 DEF LonelyCalls, LeftToDo, StillLands
  <2>1. CASE j = k
    <3>1. d = c /\ (c.at \in {"existing", "write", "rejected"} => c \in Generation)
      BY <2>1, <1>2, FeedShapes
    <3>2. feedCall[k] \in Generation => feedCall[k].now <= day
      BY DEF FeedInv, LonelyCalls
    <3> QED
      BY <2>1, <3>1, <3>2
  <2>2. CASE j # k
    <3>1. j \in FeedUnderWay /\ j \in overlapped /\ d = feedCall[j]
      BY <2>2, <1>2 DEF FeedInv, OverlapsAreSeen
    <3> QED
      BY <3>1 DEF FeedInv, LonelyCalls
  <2> QED
    BY <2>1, <2>2
<1> QED
  BY <1>3, <1>4, <1>5 DEF FeedInv

LEMMA FeedInvReads ==
    ASSUME FeedInv, NEW k \in FeedCalls,
           \/ \E candidates \in CandidateSets : Generate(k, candidates)
           \/ \E o \in Offers : \/ MarkViewed(k, o) \/ Dismiss(k, o)
                                \/ \E completed \in BOOLEAN : Act(k, o, completed)
    PROVE  FeedInv'
<1>0. /\ recs \in [Offers -> Rec \cup {None}] /\ day \in 0..LastDay
  BY DEF FeedInv, FeedTypeOK
<1>1. ASSUME NEW candidates \in CandidateSets, Generate(k, candidates) PROVE FeedInv'
  <2> DEFINE c == [at |-> "existing", now |-> day, candidates |-> candidates,
                   create |-> {}, write |-> Nothing]
  <2>1. c \in Generation /\ c.at = "existing" /\ c.now = day /\ c.create = {}
    BY <1>0, FeedNumbers DEF Generation, Nothing
  <2>2. Enters(k, c) /\ UNCHANGED <<recs, recEvents, day>>
    BY <1>1 DEF Generate
  <2> HIDE DEF c
  <2> QED
    BY <2>1, <2>2, FeedInvEnters
<1>2. ASSUME NEW o \in Offers, NEW at \in {"save", "track"}, NEW to \in RecStatus, NEW event \in RecEventType,
             ReadRec(k, o, at, to, event), at = "save" /\ to \in ActiveStatus => recs[o].status = "new"
      PROVE  FeedInv'
  <2> DEFINE c == [at |-> at, offer |-> o, to |-> to, event |-> event]
  <2>1. c \in Answer /\ c.at = at /\ c.to = to /\ c.offer = o
    BY DEF Answer
  <2>2. Enters(k, c) /\ UNCHANGED <<recs, recEvents, day>>
    BY <1>2 DEF ReadRec
  <2>3. c \notin Generation
    BY <2>1, FeedShapes
  <2> HIDE DEF c
  <2> QED
    BY <1>2, <2>1, <2>2, <2>3, FeedInvEnters
<1>3. ASSUME NEW o \in Offers, MarkViewed(k, o) PROVE FeedInv'
  <2>1. PICK at \in {"save", "track"} : at = IF recs[o].status = "new" THEN "save" ELSE "track"
    OBVIOUS
  <2> QED
    BY <1>2, <1>3, <2>1 DEF MarkViewed, RecStatus, RecEventType, ActiveStatus
<1>4. ASSUME NEW o \in Offers, Dismiss(k, o) PROVE FeedInv'
  <2>1. PICK at \in {"save", "track"} : at = IF recs[o].status = "dismissed" THEN "track" ELSE "save"
    OBVIOUS
  <2> QED
    BY <1>2, <1>4, <2>1 DEF Dismiss, RecStatus, RecEventType, ActiveStatus
<1>5. ASSUME NEW o \in Offers, NEW completed \in BOOLEAN, Act(k, o, completed) PROVE FeedInv'
  <2>1. PICK at \in {"save", "track"} : at = IF recs[o].status = "acted_on" THEN "track" ELSE "save"
    OBVIOUS
  <2>2. PICK event \in RecEventType : event = IF completed THEN "completed" ELSE "clicked"
    BY DEF RecEventType
  <2>3. ReadRec(k, o, at, "acted_on", event)
    BY <1>5, <2>1, <2>2 DEF Act
  <2> QED
    BY <1>2, <2>3 DEF RecStatus, ActiveStatus
<1> QED
  BY <1>1, <1>3, <1>4, <1>5

\* What reconcileRecommendations makes of a document that is there.
LEMMA ReconciledFacts ==
    ASSUME NEW o \in Offers, NEW candidates, NEW now \in Nat, recs[o] \in Rec \cup {None}
    PROVE  /\ Reconciled(o, candidates, now) \in RecStatus \cup {"none"}
           /\ recs[o] = None => Reconciled(o, candidates, now) = "none"
           /\ Reconciled(o, candidates, now) \in ActiveStatus =>
                 o \in candidates /\ ~Suppressed(recs[o], now)
           /\ Reconciled(o, candidates, now) \in {"dismissed", "acted_on", "expired"} =>
                 Reconciled(o, candidates, now) = "expired" /\ o \notin candidates
           /\ Reconciled(o, candidates, now) = "none" /\ ~(recs[o] = None /\ o \in candidates) =>
                 (recs[o].status \in ActiveStatus <=> o \in candidates /\ ~Suppressed(recs[o], now))
<1>1. recs[o].status \in ActiveStatus => ~Suppressed(recs[o], now)
  BY DEF Suppressed, ActiveStatus
<1>2. recs[o] = None => recs[o].status \notin ActiveStatus
  BY DEF None, ActiveStatus
<1>3. CASE recs[o] = None
  BY <1>2, <1>3 DEF Reconciled, RecStatus, ActiveStatus
<1>4. CASE recs[o] # None /\ o \in candidates /\ Suppressed(recs[o], now)
  <2>1. Reconciled(o, candidates, now) = "none"
    BY <1>4 DEF Reconciled
  <2> QED
    BY <1>1, <1>4, <2>1 DEF RecStatus, ActiveStatus
<1>5. CASE recs[o] # None /\ o \in candidates /\ ~Suppressed(recs[o], now)
  <2>1. Reconciled(o, candidates, now) \in {"viewed", "new"}
    BY <1>5 DEF Reconciled
  <2> QED
    BY <1>5, <2>1 DEF RecStatus, ActiveStatus
<1>6. CASE recs[o] # None /\ o \notin candidates /\ recs[o].status \in ActiveStatus
  <2>1. Reconciled(o, candidates, now) = "expired"
    BY <1>6 DEF Reconciled
  <2> QED
    BY <1>6, <2>1 DEF RecStatus, ActiveStatus
<1>7. CASE recs[o] # None /\ o \notin candidates /\ recs[o].status \notin ActiveStatus
  <2>1. Reconciled(o, candidates, now) = "none"
    BY <1>7 DEF Reconciled
  <2> QED
    BY <1>7, <2>1 DEF RecStatus, ActiveStatus
<1> QED
  BY <1>3, <1>4, <1>5, <1>6, <1>7

LEMMA FeedInvReadExisting ==
    ASSUME FeedInv, NEW k \in FeedCalls, ReadExisting(k) PROVE FeedInv'
<1>1. PICK g \in Generation : g = feedCall[k] /\ g.at = "existing"
  BY FeedKinds DEF ReadExisting, FeedInv
<1>2. k \in FeedUnderWay
  BY <1>1, FeedKinds DEF FeedInv
<1>3. /\ g.now \in Nat /\ recs \in [Offers -> Rec \cup {None}] /\ recEvents \in [Offers -> SUBSET RecEventType]
      /\ UNCHANGED <<recs, recEvents, day>>
  BY FeedShapes, FeedNumbers DEF ReadExisting, FeedInv, FeedTypeOK
<1>4. PICK create \in SUBSET Offers : create = {o \in g.candidates : recs[o] = None}
  BY FeedShapes
<1>5. PICK write \in [Offers -> RecStatus \cup {"none"}] :
         \A o \in Offers : write[o] = Reconciled(o, g.candidates, g.now)
  <2> DEFINE write == [o \in Offers |-> Reconciled(o, g.candidates, g.now)]
  <2>1. \A o \in Offers : Reconciled(o, g.candidates, g.now) \in RecStatus \cup {"none"}
    BY <1>3, ReconciledFacts
  <2>2. write \in [Offers -> RecStatus \cup {"none"}]
    BY <2>1
  <2> QED
    BY <2>2
<1>6. write = [o \in Offers |-> Reconciled(o, g.candidates, g.now)]
  BY <1>5
<1> DEFINE c == [g EXCEPT !.at = "write", !.create = create, !.write = write]
<1>7. /\ c \in Generation /\ c.at = "write" /\ c.now = g.now /\ c.candidates = g.candidates
      /\ c.create = create /\ c.write = write
  BY DEF Generation
<1>8. GoesOn(k, c)
  BY <1>1, <1>4, <1>6 DEF ReadExisting
<1> HIDE DEF c
<1>9. \A o \in Offers : LeftToDo(c, o)'
  <2> SUFFICES ASSUME NEW o \in Offers PROVE LeftToDo(c, o)'
    OBVIOUS
  <2>1. Reconciled(o, g.candidates, g.now)' = Reconciled(o, g.candidates, g.now)
    BY <1>3 DEF Reconciled
  <2>2. recs[o] \in Rec \cup {None} /\ write[o] = Reconciled(o, g.candidates, g.now)
    BY <1>3, <1>5
  <2>3. CASE o \in create
    <3>1. recs[o] = None /\ o \in g.candidates
      BY <2>3, <1>4
    <3>2. write[o] = "none"
      BY <3>1, <2>2, <1>3, ReconciledFacts
    <3> QED
      BY <2>3, <3>1, <3>2, <1>3, <1>7 DEF LeftToDo
  <2>4. CASE o \notin create /\ write[o] # "none"
    <3>1. recs[o] # None
      BY <2>4, <2>2, <1>3, ReconciledFacts
    <3> QED
      BY <2>1, <2>2, <2>4, <3>1, <1>3, <1>7 DEF LeftToDo
  <2>5. CASE o \notin create /\ write[o] = "none"
    <3>1. ~(recs[o] = None /\ o \in g.candidates)
      BY <2>5, <1>4
    <3>2. recs[o].status \in ActiveStatus <=> o \in g.candidates /\ ~Suppressed(recs[o], g.now)
      <4>1. PICK candidates : candidates = g.candidates
        OBVIOUS
      <4>2. Reconciled(o, candidates, g.now) = "none" /\ ~(recs[o] = None /\ o \in candidates)
        BY <2>2, <2>5, <3>1, <4>1
      <4> QED
        BY <2>2, <4>1, <4>2, <1>3, ReconciledFacts
    <3> QED
      BY <2>5, <3>2, <1>3, <1>7 DEF LeftToDo
  <2> QED
    BY <2>3, <2>4, <2>5
<1> QED
  BY <1>1, <1>2, <1>3, <1>7, <1>8, <1>9, FeedInvGoesOn

\* A document that is written belongs to the call alone, if it had no company.
LEMMA StoredRec ==
    ASSUME recs \in [Offers -> Rec \cup {None}], day \in 0..LastDay,
           NEW o \in Offers, NEW status \in RecStatus, recs' = Stored(o, status)
    PROVE  /\ recs' \in [Offers -> Rec \cup {None}]
           /\ recs'[o].status = status /\ recs'[o].updatedAt = day
           /\ \A p \in Offers : p # o => recs'[p] = recs[p]
<1> DEFINE rec == [status |-> status, updatedAt |-> day]
<1>1. rec \in Rec /\ rec.status = status /\ rec.updatedAt = day
  BY DEF Rec
<1>2. recs' = [recs EXCEPT ![o] = rec]
  BY DEF Stored
<1> HIDE DEF rec
<1>3. /\ recs' \in [Offers -> Rec \cup {None}] /\ recs'[o] = rec
      /\ \A p \in Offers : p # o => recs'[p] = recs[p]
  BY <1>1, <1>2
<1> QED
  BY <1>1, <1>3

\* What is left to do about the other offers is as it was.
LEMMA OthersLeftToDo ==
    ASSUME NEW g, NEW c, NEW o \in Offers, LeftToDo(g, o), recs'[o] = recs[o],
           o \in c.create <=> o \in g.create, c.write[o] = g.write[o],
           c.candidates = g.candidates, c.now = g.now
    PROVE  LeftToDo(c, o)'
<1>1. Reconciled(o, g.candidates, g.now)' = Reconciled(o, g.candidates, g.now)
  BY DEF Reconciled
<1>2. CASE o \in g.create
  BY <1>2 DEF LeftToDo
<1>3. CASE o \notin g.create /\ g.write[o] # "none"
  BY <1>1, <1>3 DEF LeftToDo
<1>4. CASE o \notin g.create /\ g.write[o] = "none"
  BY <1>4 DEF LeftToDo
<1> QED
  BY <1>2, <1>3, <1>4

LEMMA FeedInvInsertNext ==
    ASSUME FeedInv, NEW k \in FeedCalls, NEW o \in Offers, InsertNext(k, o) PROVE FeedInv'
<1>1. PICK g \in Generation : g = feedCall[k] /\ g.at = "write"
  BY FeedKinds DEF InsertNext, FeedInv
<1>2. k \in FeedUnderWay
  BY <1>1, FeedKinds DEF FeedInv
<1>3. /\ recs \in [Offers -> Rec \cup {None}] /\ recEvents \in [Offers -> SUBSET RecEventType]
      /\ day \in 0..LastDay /\ UNCHANGED <<recEvents, day>> /\ o \in g.create
  BY <1>1 DEF InsertNext, FeedInv, FeedTypeOK
<1>4. CASE GoesOn(k, [at |-> "done"]) /\ UNCHANGED recs
  <2>1. PICK c \in Resting : c = [at |-> "done"]
    BY DEF Resting
  <2>2. c \notin Generation /\ c.at # "save"
    BY FeedShapes
  <2> QED
    BY <2>1, <2>2, <1>2, <1>3, <1>4, FeedInvGoesOn
<1>5. CASE recs' = Stored(o, "new") /\ GoesOn(k, [g EXCEPT !.create = @ \ {o}])
  <2> DEFINE c == [g EXCEPT !.create = @ \ {o}]
  <2>1. /\ c \in Generation /\ c.at = "write" /\ c.now = g.now /\ c.candidates = g.candidates
        /\ c.create = g.create \ {o} /\ c.write = g.write
    BY <1>1 DEF Generation
  <2>2. GoesOn(k, c)
    BY <1>5
  <2> HIDE DEF c
  <2>3. /\ recs' \in [Offers -> Rec \cup {None}] /\ recs'[o].status = "new"
        /\ \A p \in Offers : p # o => recs'[p] = recs[p]
    <3>1. "new" \in RecStatus
      BY DEF RecStatus, ActiveStatus
    <3> QED
      BY <3>1, <1>3, <1>5, StoredRec
  <2>4. ASSUME k \notin overlapped, NEW p \in Offers PROVE LeftToDo(c, p)'
    <3>1. \A q \in Offers : LeftToDo(g, q)
      BY <1>1, <1>2, <2>4 DEF FeedInv, LonelyCalls
    <3>2. CASE p # o
      <4>1. p \in c.create <=> p \in g.create
        BY <2>1, <3>2
      <4> QED
        BY <2>1, <2>3, <3>1, <3>2, <4>1, OthersLeftToDo
    <3>3. CASE p = o
      <4>1. o \in g.candidates /\ g.write[o] = "none"
        BY <3>1, <1>3 DEF LeftToDo
      <4>2. ~Suppressed(recs'[o], g.now) /\ recs'[o].status \in ActiveStatus
        BY <2>3 DEF Suppressed, ActiveStatus
      <4>3. o \notin c.create
        BY <2>1
      <4> QED
        BY <2>1, <3>3, <4>1, <4>2, <4>3 DEF LeftToDo
    <3> QED
      BY <3>2, <3>3
  <2> QED
    BY <1>1, <1>2, <1>3, <2>1, <2>2, <2>3, <2>4, FeedInvGoesOn
<1> QED
  BY <1>1, <1>4, <1>5 DEF InsertNext

\* A generation without company that awaits its writes still owes what it decided.
LEMMA OwedWrites ==
    ASSUME FeedInv, NEW k \in FeedUnderWay, k \notin overlapped, NEW g, g = feedCall[k],
           g.at \in {"write", "rejected"}, g.create = {}
    PROVE  \A o \in Offers : StillLands(g, o)
<1>1. CASE g.at = "write"
  <2>1. \A o \in Offers : LeftToDo(g, o)
    BY <1>1 DEF FeedInv, LonelyCalls
  <2> QED
    BY <2>1 DEF LeftToDo, StillLands
<1>2. CASE g.at = "rejected"
  BY <1>2 DEF FeedInv, LonelyCalls
<1> QED
  BY <1>1, <1>2

\* A generation is what it was, or over.
LEMMA AfterFacts ==
    ASSUME NEW g
    PROVE  After(g) = g \/ (After(g) \in Resting /\ After(g).at = "dead")
  BY DEF After, Resting

\* The writing generation without what it has to make of offer o.
Taken(g, at, o) == [g EXCEPT !.at = at, !.write[o] = "none"]

IsTaken(c, g, at, o) ==
    /\ c \in Generation /\ c.at = at /\ c.now = g.now /\ c.candidates = g.candidates
    /\ c.create = g.create
    /\ c.write[o] = "none" /\ \A p \in Offers : p # o => c.write[p] = g.write[p]

LEMMA WriteTaken ==
    ASSUME NEW g \in Generation, NEW at \in {"write", "rejected"}, NEW o \in Offers, NEW c,
           c = Taken(g, at, o)
    PROVE  IsTaken(c, g, at, o)
<1>1. /\ c \in Generation /\ c.at = at /\ c.now = g.now /\ c.candidates = g.candidates
      /\ c.create = g.create /\ c.write = [g.write EXCEPT ![o] = "none"]
  BY DEF Generation, Taken
<1> QED
  BY <1>1, FeedShapes DEF IsTaken

LEMMA FeedInvWriteOne ==
    ASSUME FeedInv, NEW k \in FeedCalls, NEW o \in Offers, WriteOne(k, o) PROVE FeedInv'
<1>1. PICK g \in Generation : g = feedCall[k] /\ g.at \in {"write", "rejected"}
  BY FeedKinds DEF WriteOne, FeedInv
<1>2. k \in FeedUnderWay
  BY <1>1, FeedKinds DEF FeedInv
<1>3. /\ recs \in [Offers -> Rec \cup {None}] /\ recEvents \in [Offers -> SUBSET RecEventType]
      /\ day \in 0..LastDay /\ UNCHANGED <<recEvents, day>>
      /\ g.create = {} /\ g.now \in Nat
  BY <1>1, FeedShapes, FeedNumbers DEF WriteOne, FeedInv, FeedTypeOK
<1>4. PICK status \in RecStatus : status = g.write[o] /\ recs' = Stored(o, status)
  BY <1>1, FeedShapes DEF WriteOne
<1>5. PICK at \in {"write", "rejected"} : at = g.at
  BY <1>1
<1> DEFINE c == Taken(g, at, o)
<1>0. c = Taken(g, at, o)
  OBVIOUS
<1> HIDE DEF c
<1>6. /\ c \in Generation /\ c.at = g.at /\ c.now = g.now /\ c.candidates = g.candidates
      /\ c.create = {}
      /\ c.write[o] = "none" /\ \A p \in Offers : p # o => c.write[p] = g.write[p]
  <2>1. IsTaken(c, g, at, o)
    BY <1>0, WriteTaken
  <2> QED
    BY <2>1, <1>3, <1>5 DEF IsTaken
<1>7. GoesOn(k, After(c))
  <2>1. c = [g EXCEPT !.write[o] = "none"]
    BY <1>0, <1>5 DEF Generation, Taken
  <2> QED
    BY <1>1, <2>1 DEF WriteOne
<1>8. /\ recs' \in [Offers -> Rec \cup {None}]
      /\ recs'[o].status = status /\ recs'[o].updatedAt = day
      /\ \A p \in Offers : p # o => recs'[p] = recs[p]
  BY <1>3, <1>4, StoredRec
<1>9. ASSUME k \notin overlapped, g.at = "write", NEW p \in Offers PROVE LeftToDo(c, p)'
  <2>1. \A q \in Offers : LeftToDo(g, q)
    BY <1>1, <1>2, <1>9 DEF FeedInv, LonelyCalls
  <2>2. CASE p # o
    <3>1. p \in c.create <=> p \in g.create
      BY <1>3, <1>6
    <3> QED
      BY <1>6, <1>8, <2>1, <2>2, <3>1, OthersLeftToDo
  <2>3. CASE p = o
    <3>1. status = Reconciled(o, g.candidates, g.now)
      BY <2>1, <1>3, <1>4 DEF LeftToDo, RecStatus, ActiveStatus
    <3>2. recs[o] \in Rec \cup {None}
      BY <1>3
    <3>3. \/ status \in ActiveStatus /\ o \in g.candidates
          \/ status = "expired" /\ o \notin g.candidates
      BY <1>3, <3>1, <3>2, ReconciledFacts DEF RecStatus
    <3>4. recs'[o].status \in ActiveStatus <=> o \in g.candidates /\ ~Suppressed(recs'[o], g.now)
      BY <1>8, <3>3 DEF Suppressed, ActiveStatus
    <3> QED
      BY <1>6, <2>3, <3>4 DEF LeftToDo
  <2> QED
    BY <2>2, <2>3
<1>10. ASSUME k \notin overlapped, NEW p \in Offers PROVE StillLands(c, p)'
  <2>1. StillLands(g, p)
    BY <1>1, <1>2, <1>3, <1>10, OwedWrites
  <2>2. p # o => Reconciled(p, g.candidates, g.now)' = Reconciled(p, g.candidates, g.now)
    BY <1>8 DEF Reconciled
  <2> QED
    BY <1>6, <1>8, <2>1, <2>2 DEF StillLands
<1>11. CASE After(c) = c
  BY <1>1, <1>2, <1>3, <1>6, <1>7, <1>8, <1>9, <1>10, <1>11, FeedInvGoesOn
<1>12. CASE After(c) \in Resting /\ After(c).at = "dead"
  <2>1. PICK e \in Resting : e = After(c) /\ e.at = "dead"
    BY <1>12
  <2>2. e \notin Generation /\ e.at # "save"
    BY <2>1, FeedShapes
  <2> QED
    BY <1>2, <1>3, <1>7, <1>8, <2>1, <2>2, FeedInvGoesOn
<1> QED
  BY <1>11, <1>12, AfterFacts

LEMMA FeedInvWriteThrows ==
    ASSUME FeedInv, NEW k \in FeedCalls, NEW o \in Offers, WriteThrows(k, o) PROVE FeedInv'
<1>1. PICK g \in Generation : g = feedCall[k] /\ g.at \in {"write", "rejected"}
  BY FeedKinds DEF WriteThrows, FeedInv
<1>2. k \in FeedUnderWay
  BY <1>1, FeedKinds DEF FeedInv
<1>3. /\ recs \in [Offers -> Rec \cup {None}] /\ recEvents \in [Offers -> SUBSET RecEventType]
      /\ UNCHANGED <<recs, recEvents, day>> /\ g.create = {}
  BY <1>1 DEF WriteThrows, FeedInv, FeedTypeOK
<1> DEFINE c == Taken(g, "rejected", o)
<1>4. c = Taken(g, "rejected", o)
  OBVIOUS
<1> HIDE DEF c
<1>5. /\ c \in Generation /\ c.at = "rejected" /\ c.now = g.now /\ c.candidates = g.candidates
      /\ c.write[o] = "none" /\ \A p \in Offers : p # o => c.write[p] = g.write[p]
  <2>1. IsTaken(c, g, "rejected", o)
    BY <1>4, WriteTaken
  <2> QED
    BY <2>1 DEF IsTaken
<1>6. GoesOn(k, After(c))
  BY <1>1, <1>4 DEF WriteThrows, Taken
<1>7. ASSUME k \notin overlapped, NEW p \in Offers PROVE StillLands(c, p)'
  <2>1. StillLands(g, p)
    BY <1>1, <1>2, <1>3, <1>7, OwedWrites
  <2>2. Reconciled(p, g.candidates, g.now)' = Reconciled(p, g.candidates, g.now)
    BY <1>3 DEF Reconciled
  <2> QED
    BY <1>3, <1>5, <2>1, <2>2 DEF StillLands
<1>8. CASE After(c) = c
  BY <1>1, <1>2, <1>3, <1>5, <1>6, <1>7, <1>8, FeedInvGoesOn
<1>9. CASE After(c) \in Resting /\ After(c).at = "dead"
  <2>1. PICK e \in Resting : e = After(c) /\ e.at = "dead"
    BY <1>9
  <2>2. e \notin Generation /\ e.at # "save"
    BY <2>1, FeedShapes
  <2> QED
    BY <1>2, <1>3, <1>6, <2>1, <2>2, FeedInvGoesOn
<1> QED
  BY <1>8, <1>9, AfterFacts

LEMMA FeedInvSaveRec ==
    ASSUME FeedInv, NEW k \in FeedCalls, SaveRec(k) PROVE FeedInv'
<1>1. PICK a \in Answer : a = feedCall[k] /\ a.at = "save"
  BY FeedKinds DEF SaveRec, FeedInv
<1>2. k \in FeedUnderWay
  BY <1>1, FeedKinds DEF FeedInv
<1>3. /\ recs \in [Offers -> Rec \cup {None}] /\ recEvents \in [Offers -> SUBSET RecEventType]
      /\ day \in 0..LastDay /\ UNCHANGED <<recEvents, day>>
  BY DEF SaveRec, FeedInv, FeedTypeOK
<1>4. PICK o \in Offers, to \in RecStatus : o = a.offer /\ to = a.to
  BY FeedShapes
<1>5. recs' \in [Offers -> Rec \cup {None}]
  <2>1. recs' = Stored(o, to)
    BY <1>1, <1>4 DEF SaveRec
  <2> QED
    BY <2>1, <1>3, StoredRec
<1> DEFINE c == [a EXCEPT !.at = "track"]
<1>6. c \in Answer /\ c.at = "track"
  BY DEF Answer
<1>7. GoesOn(k, c)
  BY <1>1 DEF SaveRec
<1> HIDE DEF c
<1>8. c \notin Generation
  BY <1>6, FeedShapes
<1> QED
  BY <1>2, <1>3, <1>5, <1>6, <1>7, <1>8, FeedInvGoesOn

\* A call that is over, in whatever way.
LEMMA FeedInvEnds ==
    ASSUME FeedInv, NEW k \in FeedCalls,
           Track(k) \/ AnswerCounts(k) \/ AnswerList(k) \/ FeedCallThrows(k)
    PROVE  FeedInv'
<1>1. k \in FeedUnderWay
  BY FeedKinds DEF Track, AnswerCounts, AnswerList, FeedCallThrows, AllWritten, FeedInv
<1>2. PICK c \in Resting : GoesOn(k, c)
  BY DEF Track, AnswerCounts, AnswerList, FeedCallThrows, Resting
<1>3. c \notin Generation /\ c.at # "save"
  BY FeedShapes
<1>4. /\ recs \in [Offers -> Rec \cup {None}] /\ recEvents \in [Offers -> SUBSET RecEventType]
      /\ UNCHANGED <<recs, day>>
  BY DEF Track, AnswerCounts, AnswerList, FeedCallThrows, FeedInv, FeedTypeOK
<1>5. recEvents' \in [Offers -> SUBSET RecEventType]
  <2>1. CASE Track(k)
    <3>1. PICK a \in Answer : a = feedCall[k]
      BY <2>1, FeedKinds DEF Track, FeedInv
    <3>2. a.offer \in Offers /\ a.event \in RecEventType
      BY FeedShapes
    <3>3. recEvents' = [recEvents EXCEPT ![a.offer] = @ \cup {a.event}]
      BY <2>1, <3>1 DEF Track
    <3> QED
      BY <1>4, <3>2, <3>3
  <2>2. CASE AnswerList(k)
    <3>1. "shown" \in RecEventType
      BY DEF RecEventType
    <3>2. \A o \in Offers : recEvents[o] \cup {e \in {"shown"} : recs[o].status \in ActiveStatus}
                               \in SUBSET RecEventType
      BY <3>1, <1>4
    <3> QED
      BY <2>2, <3>2 DEF AnswerList
  <2>3. CASE AnswerCounts(k) \/ FeedCallThrows(k)
    BY <2>3, <1>4 DEF AnswerCounts, FeedCallThrows
  <2> QED
    BY <2>1, <2>2, <2>3
<1> QED
  BY <1>1, <1>2, <1>3, <1>4, <1>5, FeedInvGoesOn

LEMMA FeedInvDayPasses == ASSUME FeedInv, DayPasses PROVE FeedInv'
<1>1. /\ day \in 0..LastDay /\ day < LastDay /\ day' = day + 1
      /\ UNCHANGED <<recs, recEvents, feedCall, overlapped>> /\ LastDay \in Nat
  BY FeedNumbers DEF DayPasses, FeedInv, FeedTypeOK
<1>2. day' \in 0..LastDay
  BY <1>1
<1>3. FeedTypeOK'
  BY <1>1, <1>2 DEF FeedInv, FeedTypeOK
<1>4. OverlapsAreSeen'
  BY <1>1 DEF FeedInv, OverlapsAreSeen, FeedUnderWay
<1>5. LonelyCalls'
  <2> SUFFICES ASSUME NEW k \in FeedUnderWay, NEW d, d = feedCall[k]
               PROVE  /\ d \in Generation => d.now <= day'
                      /\ d.at = "existing" => d.create = {}
                      /\ k \notin overlapped =>
                            /\ d.at = "write" => \A o \in Offers : LeftToDo(d, o)'
                            /\ d.at = "rejected" => \A o \in Offers : StillLands(d, o)'
                            /\ d.at = "save" /\ d.to \in ActiveStatus => recs[d.offer].status = "new"
    BY <1>1 DEF LonelyCalls, LeftToDo, StillLands, Reconciled, FeedUnderWay
  <2>1. \A o \in Offers : /\ LeftToDo(d, o) => LeftToDo(d, o)'
                          /\ StillLands(d, o) => StillLands(d, o)'
    BY <1>1 DEF LeftToDo, StillLands, Reconciled
  <2>2. d \in Generation => d.now \in Nat /\ d.now <= day
    BY FeedShapes, FeedNumbers DEF FeedInv, LonelyCalls
  <2>3. d \in Generation => d.now <= day'
    BY <1>1, <2>2
  <2> QED
    BY <2>1, <2>3 DEF FeedInv, LonelyCalls
<1> QED
  BY <1>3, <1>4, <1>5 DEF FeedInv

LEMMA FeedInvNext ==
    ASSUME FeedInv, (\E k \in FeedCalls : FeedNextOf(k)) \/ DayPasses PROVE FeedInv'
  BY FeedInvReads, FeedInvReadExisting, FeedInvEnds, FeedInvInsertNext, FeedInvWriteOne,
     FeedInvWriteThrows, FeedInvSaveRec, FeedInvDayPasses DEF FeedNextOf

LEMMA FeedInvInit == ASSUME FeedInit PROVE FeedInv
<1>1. recs \in [Offers -> Rec \cup {None}] /\ day \in 0..LastDay
  <2>1. \A rec \in [status: RecStatus, updatedAt: {0}] : rec \in Rec
    BY FeedNumbers DEF Rec
  <2>2. recs \in [Offers -> [status: RecStatus, updatedAt: {0}] \cup {None}]
    BY FeedConstants DEF FeedInit
  <2> QED
    BY <2>1, <2>2, FeedNumbers DEF FeedInit
<1>2. FeedUnderWay = {} /\ feedCall \in [FeedCalls -> Resting]
  BY DEF FeedInit, FeedUnderWay, Resting
<1>3. FeedTypeOK
  BY <1>1, <1>2 DEF FeedInit, FeedTypeOK
<1> QED
  BY <1>2, <1>3 DEF FeedInv, OverlapsAreSeen, LonelyCalls

LEMMA FeedInvIsCurrent == ASSUME FeedInv PROVE FeedIsCurrent
<1> SUFFICES ASSUME NEW k \in FeedCalls \ overlapped, AllWritten(k), NEW o \in Offers
             PROVE  recs[o].status \in ActiveStatus
                      <=> /\ o \in feedCall[k].candidates
                          /\ ~Suppressed(recs[o], feedCall[k].now)
  BY DEF FeedIsCurrent
<1>1. PICK g \in Generation : g = feedCall[k] /\ g.at = "write" /\ g.create = {} /\ g.write = Nothing
  BY FeedKinds DEF AllWritten, FeedInv
<1>2. k \in FeedUnderWay
  BY <1>1, FeedKinds DEF FeedInv
<1>3. LeftToDo(g, o)
  BY <1>1, <1>2 DEF FeedInv, LonelyCalls
<1>4. o \notin g.create /\ g.write[o] = "none"
  BY <1>1 DEF Nothing
<1> QED
  BY <1>1, <1>3, <1>4 DEF LeftToDo

(* Only a call that had company brings back what was suppressed.               *)
LEMMA DismissalHolds ==
    ASSUME FeedInv, (\E k \in FeedCalls : FeedNextOf(k)) \/ DayPasses,
           NEW o \in Offers, Suppressed(recs[o], day), recs'[o].status \in ActiveStatus
    PROVE  \E k \in overlapped : feedCall'[k] # feedCall[k]
<1>0. /\ recs \in [Offers -> Rec \cup {None}] /\ day \in 0..LastDay
      /\ recs[o].status \in {"dismissed", "acted_on"} /\ recs[o].status \notin ActiveStatus
      /\ FeedTypeOK
  BY DEF FeedInv, FeedTypeOK, Suppressed, ActiveStatus
<1>1. recs'[o] # recs[o]
  BY <1>0
<1>2. ASSUME NEW k \in FeedCalls, NEW p \in Offers, InsertNext(k, p)
      PROVE  \E j \in overlapped : feedCall'[j] # feedCall[j]
  <2>1. recs[p] = None /\ recs' = Stored(p, "new")
    BY <1>1, <1>2 DEF InsertNext
  <2>2. p # o
    BY <1>0, <2>1 DEF None
  <2>3. recs'[o] = recs[o]
    BY <1>0, <2>1, <2>2 DEF Stored
  <2> QED
    BY <1>1, <2>3
<1>3. ASSUME NEW k \in FeedCalls, NEW p \in Offers, WriteOne(k, p)
      PROVE  \E j \in overlapped : feedCall'[j] # feedCall[j]
  <2>1. PICK g \in Generation : g = feedCall[k] /\ g.at \in {"write", "rejected"}
    BY <1>3, FeedKinds DEF WriteOne, FeedInv
  <2>2. PICK status \in RecStatus : status = g.write[p] /\ recs' = Stored(p, status)
    BY <1>3, <2>1, FeedShapes DEF WriteOne
  <2>3. p = o
    BY <1>0, <1>1, <2>2 DEF Stored
  <2>4. status \in ActiveStatus
    BY <1>0, <2>2, <2>3, StoredRec
  <2>5. k \in FeedUnderWay /\ g.create = {}
    BY <1>3, <2>1, FeedKinds DEF WriteOne, FeedInv
  <2>6. feedCall'[k] # feedCall[k]
    <3>1. PICK at \in {"write", "rejected"} : at = g.at
      BY <2>1
    <3> DEFINE c == Taken(g, at, p)
    <3>0. c = Taken(g, at, p)
      OBVIOUS
    <3> HIDE DEF c
    <3>2. c.write[p] = "none"
      <4>1. IsTaken(c, g, at, p)
        BY <3>0, WriteTaken
      <4> QED
        BY <4>1 DEF IsTaken
    <3>5. c = [g EXCEPT !.write[p] = "none"]
      BY <3>0, <3>1 DEF Generation, Taken
    <3>3. feedCall'[k] = After(c)
      BY <1>0, <1>3, <2>1, <3>5 DEF WriteOne, GoesOn, FeedTypeOK
    <3>4. g.write[p] # "none" /\ g.at # "dead"
      BY <2>1, <2>2 DEF RecStatus, ActiveStatus
    <3> QED
      BY <2>1, <3>2, <3>3, <3>4, AfterFacts
  <2>7. CASE k \notin overlapped
    <3>1. StillLands(g, o) /\ g.now <= day
      BY <2>1, <2>5, <2>7, OwedWrites DEF FeedInv, LonelyCalls
    <3>2. status = Reconciled(o, g.candidates, g.now)
      BY <2>2, <2>3, <3>1 DEF StillLands, RecStatus, ActiveStatus
    <3>3. g.now \in Nat /\ recs[o] \in Rec \cup {None}
      BY <1>0, FeedShapes, FeedNumbers
    <3>4. ~Suppressed(recs[o], g.now)
      <4>1. PICK candidates : candidates = g.candidates
        OBVIOUS
      <4>2. Reconciled(o, candidates, g.now) \in ActiveStatus
        BY <2>4, <3>2, <4>1
      <4> QED
        BY <3>3, <4>2, ReconciledFacts
    <3>5. recs[o].updatedAt \in Nat /\ day \in Nat /\ DismissDays \in Nat /\ ActedDays \in Nat
      BY <1>0, <3>3, FeedNumbers DEF Rec, None
    <3>6. Suppressed(recs[o], g.now)
      BY <3>1, <3>3, <3>5 DEF Suppressed, WithinDays
    <3> QED
      BY <3>4, <3>6
  <2> QED
    BY <2>6, <2>7
<1>4. ASSUME NEW k \in FeedCalls, SaveRec(k)
      PROVE  \E j \in overlapped : feedCall'[j] # feedCall[j]
  <2>1. PICK a \in Answer : a = feedCall[k] /\ a.at = "save"
    BY <1>4, FeedKinds DEF SaveRec, FeedInv
  <2>2. PICK p \in Offers, to \in RecStatus : p = a.offer /\ to = a.to
    BY FeedShapes
  <2>3. recs' = Stored(p, to)
    BY <1>4, <2>1, <2>2 DEF SaveRec
  <2>4. p = o
    BY <1>0, <1>1, <2>3 DEF Stored
  <2>5. to \in ActiveStatus
    BY <1>0, <2>3, <2>4, StoredRec
  <2>6. feedCall'[k].at = "track"
    <3>1. feedCall' = [feedCall EXCEPT ![k] = [a EXCEPT !.at = "track"]]
      BY <1>4, <2>1 DEF SaveRec, GoesOn
    <3>2. [a EXCEPT !.at = "track"].at = "track"
      BY DEF Answer
    <3> QED
      BY <1>0, <3>1, <3>2 DEF FeedTypeOK
  <2>7. k \in FeedUnderWay
    BY <2>1, FeedKinds DEF FeedInv
  <2>8. k \in overlapped
    <3>1. recs[a.offer].status # "new"
      BY <1>0, <2>2, <2>4
    <3> QED
      BY <2>1, <2>2, <2>5, <2>7, <3>1 DEF FeedInv, LonelyCalls
  <2> QED
    BY <2>1, <2>6, <2>8
<1>5. ASSUME NEW k \in FeedCalls,
             \/ \E candidates \in CandidateSets : Generate(k, candidates)
             \/ \E p \in Offers : \/ MarkViewed(k, p) \/ Dismiss(k, p)
                                  \/ \E completed \in BOOLEAN : Act(k, p, completed)
                                  \/ WriteThrows(k, p)
             \/ ReadExisting(k) \/ AnswerCounts(k) \/ AnswerList(k) \/ Track(k) \/ FeedCallThrows(k)
      PROVE  recs' = recs
  BY <1>5 DEF Generate, MarkViewed, Dismiss, Act, ReadRec, ReadExisting, AnswerCounts, AnswerList,
     Track, FeedCallThrows, WriteThrows
<1> QED
  BY <1>1, <1>2, <1>3, <1>4, <1>5 DEF FeedNextOf, DayPasses

-----------------------------------------------------------------------------
(* The cards: every step keeps CardInv.                                        *)
LEMMA CardNumbers == MaxCards \in Nat /\ MaxCardRequests \in Nat /\ MaxCardCalls \in Nat
  BY CardConstants

LEMMA CardShapes ==
    /\ \A d \in CardCall :
          /\ d.at \in {"find", "insert", "store", "check", "card", "request", "save", "event",
                       "notify", "dead"}
          /\ d.op \in {"create", "lock", "unlock", "replace", "decide"}
          /\ d.card \in 0..MaxCards /\ d.request \in 0..MaxCardRequests
          /\ d.seen \in Card /\ d.next \in Card
          /\ d.was \in CardRequestStatus /\ d.to \in CardRequestStatus /\ d.type \in CardRequestType
          /\ d # Idle /\ d # Done
    /\ Idle.at = "idle" /\ Done.at = "done"
  BY DEF CardCall, Idle, Done

LEMMA CardKinds ==
    ASSUME CardTypeOK, NEW k \in CardCalls
    PROVE  /\ cardCall[k].at \in {"idle", "done"} \/ cardCall[k] \in CardCall
           /\ cardCall[k].at = "idle" <=> cardCall[k] = Idle
           /\ cardCall[k] \in CardCall \/ cardCall[k] = Idle \/ cardCall[k] = Done
  BY CardShapes DEF CardTypeOK

LEMMA CardCallMoves ==
    ASSUME CardTypeOK, NEW k \in CardCalls, NEW c \in CardCall \cup {Idle, Done},
           cardCall' = [cardCall EXCEPT ![k] = c]
    PROVE  /\ cardCall' \in [CardCalls -> CardCall \cup {Idle, Done}]
           /\ cardCall'[k] = c /\ \A j \in CardCalls : j # k => cardCall'[j] = cardCall[j]
  BY DEF CardTypeOK

\* What a call holds it holds on to while cards and requests only become more.
LEMMA StillHolds ==
    ASSUME NEW d, Holds(d), DOMAIN cards \subseteq DOMAIN cards',
           DOMAIN cardRequests \subseteq DOMAIN cardRequests',
           \A q \in DOMAIN cardRequests : cardRequests'[q].card = cardRequests[q].card
    PROVE  Holds(d)'
  BY DEF Holds, HoldsCard, HoldsRequest

(* A step of call k that leaves the cards and the requests alone.              *)
LEMMA CardInvCall ==
    ASSUME CardInv, NEW k \in CardCalls, NEW c \in CardCall \cup {Idle, Done},
           cardCall' = [cardCall EXCEPT ![k] = c], UNCHANGED <<cards, cardRequests, contested>>,
           cardEvents' \in [DOMAIN cards -> SUBSET CardEventType],
           \A x \in DOMAIN cards : cardEvents[x] \subseteq cardEvents'[x],
           cardTold' \subseteq (DOMAIN cardRequests) \X CardRequestStatus,
           Holds(c), Changes(k, c),
           NEW d, d = cardCall[k],
           c.at \in {"card", "request", "save"} /\ c.op = "decide" =>
              /\ d.at = "card" /\ d.op = "decide" /\ c.at = "request" /\ c.request = d.request
              /\ c.was = d.was /\ c.seen = cards[c.card],
           d.at \in {"store", "save", "dead"} =>
              c.at = "dead" /\ c.card = d.card /\ c.request = d.request /\ c.op = d.op /\ c.to = d.to,
           d.at \in {"event", "notify", "done", "dead"} => c.at \in {"notify", "done", "dead"},
           d.at = "event" /\ d.op = "lock" =>
              \/ "locked" \in cardEvents'[d.card]
              \/ c.at = "dead" /\ c.card = d.card /\ c.op = "lock"
    PROVE  CardInv'
<1>1. CardTypeOK
  BY DEF CardInv
<1>2. /\ cardCall' \in [CardCalls -> CardCall \cup {Idle, Done}]
      /\ cardCall'[k] = c /\ \A j \in CardCalls : j # k => cardCall'[j] = cardCall[j]
  BY <1>1, CardCallMoves
<1>3. CardTypeOK'
  BY <1>1, <1>2 DEF CardTypeOK
<1>4. ASSUME NEW j \in CardCalls PROVE Holds(cardCall[j])' /\ Changes(j, cardCall[j])'
  <2>1. PICK e : e = cardCall'[j]
    OBVIOUS
  <2>2. Holds(e) /\ Changes(j, e)
    BY <1>2, <2>1 DEF CardInv
  <2>3. Holds(e)'
    BY <2>2, StillHolds
  <2> QED
    BY <2>1, <2>2, <2>3 DEF Holds, Changes, HoldsCard, HoldsRequest
<1>5. \A q \in DOMAIN cardRequests : cardRequests[q].card \in DOMAIN cards
  BY DEF CardInv
<1>6. DatesAreOfSaves'
  BY <1>2 DEF CardInv, DatesAreOfSaves
<1>7. \A q : \A j \in Deciding(q)' : j \in Deciding(q)
  BY <1>2 DEF Deciding
<1>8. DecisionsKnow'
  BY <1>2, <1>7 DEF CardInv, DecisionsKnow
<1>9. CompletedIsIssued'
  BY <1>2 DEF CardInv, CompletedIsIssued
<1>10. WaitingHasCause'
  <2> SUFFICES ASSUME NEW x \in DOMAIN cards, cards[x].status \in WaitingStatus
               PROVE  \/ \E q \in DOMAIN cardRequests : OpenFor(x, q)'
                      \/ \E j \in CardCalls : CaredFor(x, j)'
    BY DEF WaitingHasCause
  <2>1. ASSUME NEW q \in DOMAIN cardRequests, OpenFor(x, q) PROVE OpenFor(x, q)'
    <3>1. ASSUME NEW j \in Deciding(q)', cardCall'[j].at = "request", cardCall'[j].to \in Closing
          PROVE  cardCall'[j].seen.status \in WaitingStatus \/ q \in contested
      <4>1. j \in CardCalls /\ j \in Deciding(q)
        BY <1>7 DEF Deciding
      <4>2. CASE j # k
        BY <2>1, <3>1, <4>1, <4>2, <1>2 DEF OpenFor
      <4>3. CASE j = k
        <5>1. c.at = "request" /\ c.op = "decide" /\ c.request = q /\ c.seen = cards[c.card]
          BY <3>1, <4>3, <1>2 DEF Deciding
        <5>2. c.card = x
          BY <5>1, <2>1 DEF Holds, OpenFor
        <5> QED
          BY <4>3, <5>1, <5>2, <1>2
      <4> QED
        BY <4>2, <4>3
    <3> QED
      BY <2>1, <3>1 DEF OpenFor
  <2>2. ASSUME NEW j \in CardCalls, CaredFor(x, j) PROVE CaredFor(x, j)'
    BY <1>2, <2>2 DEF CaredFor
  <2> QED
    BY <2>1, <2>2 DEF CardInv, WaitingHasCause
<1>11. LockedIsDated'
  <2> SUFFICES ASSUME NEW x \in DOMAIN cards, cards[x].status = "locked"
               PROVE  /\ cards[x].lockedAt # 0
                      /\ \/ "locked" \in cardEvents'[x]
                         \/ \E j \in CardCalls : /\ cardCall'[j].at \in {"event", "dead"}
                                                 /\ cardCall'[j].card = x /\ cardCall'[j].op = "lock"
    BY DEF LockedIsDated
  <2>1. CASE "locked" \in cardEvents[x]
    BY <2>1 DEF CardInv, LockedIsDated
  <2>2. ASSUME NEW j \in CardCalls, cardCall[j].at \in {"event", "dead"},
               cardCall[j].card = x, cardCall[j].op = "lock"
        PROVE  \/ "locked" \in cardEvents'[x]
               \/ /\ cardCall'[j].at \in {"event", "dead"}
                  /\ cardCall'[j].card = x /\ cardCall'[j].op = "lock"
    BY <1>2, <2>2
  <2> QED
    BY <2>1, <2>2 DEF CardInv, LockedIsDated
<1> QED
  BY <1>3, <1>4, <1>5, <1>6, <1>8, <1>9, <1>10, <1>11 DEF CardInv

\* The same, for a call that has written nothing yet, writes nothing and does not decide.
LEMMA CardInvReads ==
    ASSUME CardInv, NEW k \in CardCalls, NEW c \in CardCall \cup {Idle, Done},
           cardCall' = [cardCall EXCEPT ![k] = c],
           UNCHANGED <<cards, cardRequests, cardEvents, cardTold, contested>>,
           cardCall[k].at \in {"idle", "find", "check"},
           Holds(c), Changes(k, c), c.at \in {"card", "request", "save"} => c.op # "decide"
    PROVE  CardInv'
<1>1. /\ cardEvents' \in [DOMAIN cards -> SUBSET CardEventType]
      /\ \A x \in DOMAIN cards : cardEvents[x] \subseteq cardEvents'[x]
      /\ cardTold' \subseteq (DOMAIN cardRequests) \X CardRequestStatus
  BY DEF CardInv, CardTypeOK
<1>2. PICK d : d = cardCall[k] /\ d.at \in {"idle", "find", "check"}
  OBVIOUS
<1> QED
  BY <1>1, <1>2, CardInvCall

LEMMA StartedFacts ==
    /\ Started \in CardCall /\ Started.seen = NewCard /\ Started.next = NewCard
    /\ NewCard \in Card /\ NewCard.status = "pending_issue" /\ NewCard.issuedAt = 0 /\ NewCard.lockedAt = 0
<1>1. NewCard \in Card /\ NewCard.status = "pending_issue" /\ NewCard.issuedAt = 0 /\ NewCard.lockedAt = 0
  BY CardNumbers DEF NewCard, Card, CardStatus
<1>2. 0 \in 0..MaxCards /\ 0 \in 0..MaxCardRequests
  BY CardNumbers
<1>3. Started \in CardCall
  BY <1>1, <1>2 DEF Started, CardCall, CardRequestStatus, CardRequestType
<1> QED
  BY <1>1, <1>3 DEF Started

LEMMA CardInvAskForCard ==
    ASSUME CardInv, NEW k \in CardCalls, NEW t \in CardRequestType, AskForCard(k, t) PROVE CardInv'
<1> DEFINE c == [Started EXCEPT !.type = t]
<1>1. c \in CardCall /\ c.at = "find" /\ c.op = "create"
  BY StartedFacts DEF CardCall, Started
<1>2. /\ cardCall' = [cardCall EXCEPT ![k] = c] /\ cardCall[k].at = "idle"
      /\ UNCHANGED <<cards, cardRequests, cardEvents, cardTold, contested>>
  BY CardShapes DEF AskForCard, CardCallArrives
<1> HIDE DEF c
<1>3. Holds(c) /\ Changes(k, c)
  BY <1>1 DEF Holds, Changes
<1> QED
  BY <1>1, <1>2, <1>3, CardInvReads

LEMMA CardInvFindCard ==
    ASSUME CardInv, NEW k \in CardCalls, FindCard(k) PROVE CardInv'
<1>1. PICK d \in CardCall : d = cardCall[k] /\ d.at = "find" /\ d.op = "create"
  BY CardKinds DEF FindCard, CardInv, Holds
<1>2. /\ UNCHANGED <<cards, cardRequests, cardEvents, cardTold, contested>>
      /\ cardCall \in [CardCalls -> CardCall \cup {Idle, Done}]
  BY DEF FindCard, CardInv, CardTypeOK
<1>3. ASSUME NEW x \in DOMAIN cards, cardCall' = [cardCall EXCEPT ![k].at = "store", ![k].card = x]
      PROVE  CardInv'
  <2>1. x \in 0..MaxCards
    BY CardNumbers DEF CardInv, CardTypeOK
  <2> DEFINE c == [d EXCEPT !.at = "store", !.card = x]
  <2>2. c \in CardCall /\ c.at = "store" /\ c.op = "create" /\ c.card = x
    BY <1>1, <2>1 DEF CardCall
  <2>3. cardCall' = [cardCall EXCEPT ![k] = c]
    BY <1>1, <1>2, <1>3
  <2> HIDE DEF c
  <2>4. Holds(c) /\ Changes(k, c)
    BY <2>2 DEF Holds, HoldsCard, Changes
  <2> QED
    BY <1>1, <1>2, <2>2, <2>3, <2>4, CardInvReads
<1>4. CASE cardCall' = [cardCall EXCEPT ![k].at = "insert"]
  <2> DEFINE c == [d EXCEPT !.at = "insert"]
  <2>2. c \in CardCall /\ c.at = "insert" /\ c.op = "create"
    BY <1>1 DEF CardCall
  <2>3. cardCall' = [cardCall EXCEPT ![k] = c]
    BY <1>1, <1>2, <1>4
  <2> HIDE DEF c
  <2>4. Holds(c) /\ Changes(k, c)
    BY <2>2 DEF Holds, Changes
  <2> QED
    BY <1>1, <1>2, <2>2, <2>3, <2>4, CardInvReads
<1> QED
  BY <1>3, <1>4 DEF FindCard

\* Lock, unlock and requestReplacement read the card.
LEMMA CardInvReadCard ==
    ASSUME CardInv, NEW k \in CardCalls, NEW op \in {"lock", "unlock", "replace"},
           NEW x \in DOMAIN cards, NEW next \in Card, ReadCard(k, op, x, next),
           next.issuedAt = cards[x].issuedAt,
           op = "lock" => /\ cards[x].status # "locked" /\ next.status = "locked"
                          /\ next.lockedAt = k /\ cards[x].lockedAt # k,
           op = "unlock" => /\ cards[x].status = "locked"
                            /\ next.status = "active" /\ next.lockedAt = 0,
           op = "replace" => /\ next.status = "replacement_requested"
                             /\ next.lockedAt = cards[x].lockedAt
    PROVE  CardInv'
<1>1. x \in 0..MaxCards /\ cards[x] \in Card
  BY CardNumbers DEF CardInv, CardTypeOK
<1>2. PICK at \in {"check", "save"} : at = IF op = "replace" THEN "check" ELSE "save"
  OBVIOUS
<1> DEFINE c == [Started EXCEPT !.at = at, !.op = op, !.card = x, !.seen = cards[x], !.next = next]
<1>3. /\ c \in CardCall /\ c.at = at /\ c.op = op /\ c.card = x
      /\ c.seen = cards[x] /\ c.next = next
  BY <1>1, StartedFacts DEF CardCall
<1>4. /\ cardCall' = [cardCall EXCEPT ![k] = c] /\ cardCall[k].at = "idle"
      /\ UNCHANGED <<cards, cardRequests, cardEvents, cardTold, contested>>
  BY <1>2, CardShapes DEF ReadCard, CardCallArrives
<1> HIDE DEF c
<1>5. Holds(c)
  BY <1>2, <1>3 DEF Holds, HoldsCard
<1>6. Changes(k, c)
  BY <1>2, <1>3 DEF Changes
<1> QED
  BY <1>3, <1>4, <1>5, <1>6, CardInvReads

LEMMA CardInvLocks ==
    ASSUME CardInv, NEW k \in CardCalls, NEW x \in DOMAIN cards,
           Lock(k, x) \/ Unlock(k, x) \/ RequestReplacement(k, x)
    PROVE  CardInv'
<1>1. /\ cards[x] \in Card /\ k \in 0..MaxCardCalls /\ 0 \in 0..MaxCardCalls
  BY CardNumbers DEF CardInv, CardTypeOK, CardCalls
<1>2. CASE Lock(k, x)
  <2>1. cardCall[k].at = "idle"
    BY <1>2, CardShapes DEF Lock, ReadCard, CardCallArrives
  <2>2. cards[x].lockedAt # k
    BY <2>1 DEF CardInv, DatesAreOfSaves
  <2> DEFINE next == [cards[x] EXCEPT !.status = "locked", !.lockedAt = k]
  <2>3. /\ next \in Card /\ next.issuedAt = cards[x].issuedAt
        /\ next.status = "locked" /\ next.lockedAt = k
    BY <1>1 DEF Card, CardStatus
  <2>4. cards[x].status # "locked" /\ ReadCard(k, "lock", x, next)
    BY <1>2 DEF Lock
  <2> HIDE DEF next
  <2> QED
    BY <2>2, <2>3, <2>4, CardInvReadCard
<1>3. CASE Unlock(k, x)
  <2> DEFINE next == [cards[x] EXCEPT !.status = "active", !.lockedAt = 0]
  <2>3. /\ next \in Card /\ next.issuedAt = cards[x].issuedAt
        /\ next.status = "active" /\ next.lockedAt = 0
    BY <1>1 DEF Card, CardStatus
  <2>4. cards[x].status = "locked" /\ ReadCard(k, "unlock", x, next)
    BY <1>3 DEF Unlock
  <2> HIDE DEF next
  <2> QED
    BY <2>3, <2>4, CardInvReadCard
<1>4. CASE RequestReplacement(k, x)
  <2> DEFINE next == [cards[x] EXCEPT !.status = "replacement_requested"]
  <2>3. /\ next \in Card /\ next.issuedAt = cards[x].issuedAt
        /\ next.status = "replacement_requested" /\ next.lockedAt = cards[x].lockedAt
    BY <1>1 DEF Card, CardStatus
  <2>4. ReadCard(k, "replace", x, next)
    BY <1>4 DEF RequestReplacement
  <2> HIDE DEF next
  <2> QED
    BY <2>3, <2>4, CardInvReadCard
<1> QED
  BY <1>2, <1>3, <1>4

LEMMA CardInvCheckReplacements ==
    ASSUME CardInv, NEW k \in CardCalls, CheckReplacements(k) PROVE CardInv'
<1>1. PICK d \in CardCall : d = cardCall[k] /\ d.at = "check" /\ Holds(d) /\ Changes(k, d)
  BY CardKinds DEF CheckReplacements, CardInv
<1>2. UNCHANGED <<cards, cardRequests, cardEvents, cardTold, contested>>
  BY DEF CheckReplacements
<1> DEFINE go == [d EXCEPT !.at = "save"]
<1>3. /\ go \in CardCall /\ go.at = "save" /\ go.op = d.op /\ go.card = d.card /\ go.seen = d.seen
      /\ go.next = d.next
  BY <1>1 DEF CardCall
<1>4. \E c \in {go, Done} : cardCall' = [cardCall EXCEPT ![k] = c]
  BY <1>1 DEF CheckReplacements, CardInv, CardTypeOK
<1> HIDE DEF go
<1>5. Holds(go) /\ Changes(k, go) /\ go.op # "decide"
  BY <1>1, <1>3 DEF Holds, HoldsCard, Changes
<1>6. Holds(Done) /\ Changes(k, Done) /\ Done.at = "done"
  BY CardShapes DEF Holds, Changes
<1> QED
  BY <1>1, <1>2, <1>3, <1>4, <1>5, <1>6, CardInvReads

\* What a decision makes of a card.
LEMMA DecidedCardFacts ==
    ASSUME NEW k \in CardCalls, NEW card \in Card, NEW t \in CardRequestType, NEW to \in CardRequestStatus
    PROVE  /\ DecidedCard(k, card, t, to) \in Card
           /\ DecidedCard(k, card, t, to).status \in WaitingStatus <=> to \notin Closing
           /\ DecidedCard(k, card, t, to).status # "locked"
           /\ DecidedCard(k, card, t, to).lockedAt = card.lockedAt
           /\ DecidedCard(k, card, t, to).issuedAt = IF to = "completed" THEN k ELSE card.issuedAt
<1>1. k \in 0..MaxCardCalls
  BY CardNumbers DEF CardCalls
<1>2. CASE to = "completed"
  <2>1. DecidedCard(k, card, t, to) = [card EXCEPT !.status = "active", !.issuedAt = k]
    BY <1>2 DEF DecidedCard
  <2> QED
    BY <1>1, <1>2, <2>1 DEF Card, CardStatus, Closing, WaitingStatus
<1>3. CASE to # "completed"
  <2>1. PICK status \in {"blocked", "replacement_requested", "pending_issue"} :
           /\ DecidedCard(k, card, t, to) = [card EXCEPT !.status = status]
           /\ status = "blocked" <=> to = "rejected"
    BY <1>3 DEF DecidedCard
  <2> QED
    BY <1>3, <2>1 DEF Card, CardStatus, Closing, WaitingStatus
<1> QED
  BY <1>2, <1>3

LEMMA CardInvReadCardOfRequest ==
    ASSUME CardInv, NEW k \in CardCalls, ReadCardOfRequest(k) PROVE CardInv'
<1>1. PICK d \in CardCall : d = cardCall[k] /\ d.at = "card" /\ Holds(d)
  BY CardKinds DEF ReadCardOfRequest, CardInv
<1>2. /\ d.op = "decide" /\ d.request \in DOMAIN cardRequests
      /\ d.to \in CardRequestStatus /\ d.type \in CardRequestType
  BY <1>1, CardShapes DEF Holds, HoldsRequest
<1>3. PICK x \in DOMAIN cards : x = cardRequests[d.request].card
  BY <1>2 DEF CardInv
<1>4. cards[x] \in Card /\ x \in 0..MaxCards /\ cards[x].issuedAt # k
  BY <1>1, CardNumbers DEF CardInv, CardTypeOK, DatesAreOfSaves
<1>5. PICK next \in Card :
         /\ next = DecidedCard(k, cards[x], d.type, d.to)
         /\ next.status \in WaitingStatus <=> d.to \notin Closing
         /\ next.status # "locked" /\ next.lockedAt = cards[x].lockedAt
         /\ next.issuedAt = IF d.to = "completed" THEN k ELSE cards[x].issuedAt
  BY <1>2, <1>4, DecidedCardFacts
<1> DEFINE c == [d EXCEPT !.at = "request", !.card = x, !.seen = cards[x], !.next = next]
<1>6. /\ c \in CardCall /\ c.at = "request" /\ c.op = "decide" /\ c.card = x /\ c.seen = cards[x]
      /\ c.next = next /\ c.request = d.request /\ c.was = d.was /\ c.to = d.to
  BY <1>1, <1>2, <1>4 DEF CardCall
<1>7. cardCall' = [cardCall EXCEPT ![k] = c]
  BY <1>1, <1>3, <1>5 DEF ReadCardOfRequest, CardInv, CardTypeOK
<1> HIDE DEF c
<1>8. UNCHANGED <<cards, cardRequests, cardEvents, cardTold, contested>>
  BY DEF ReadCardOfRequest
<1>9. Holds(c)
  BY <1>2, <1>3, <1>6 DEF Holds, HoldsCard, HoldsRequest
<1>10. Changes(k, c)
  BY <1>4, <1>5, <1>6 DEF Changes
<1>11. /\ cardEvents' \in [DOMAIN cards -> SUBSET CardEventType]
       /\ \A y \in DOMAIN cards : cardEvents[y] \subseteq cardEvents'[y]
       /\ cardTold' \subseteq (DOMAIN cardRequests) \X CardRequestStatus
  BY <1>8 DEF CardInv, CardTypeOK
<1> QED
  BY <1>1, <1>2, <1>6, <1>7, <1>8, <1>9, <1>10, <1>11, CardInvCall

LEMMA CardInvAddCardEvent ==
    ASSUME CardInv, NEW k \in CardCalls, AddCardEvent(k) PROVE CardInv'
<1>1. PICK d \in CardCall : d = cardCall[k] /\ d.at = "event" /\ Holds(d)
  BY CardKinds DEF AddCardEvent, CardInv
<1>2. PICK x \in DOMAIN cards, event \in CardEventType : /\ x = d.card /\ event = EventOf[d.op]
                                                         /\ d.op = "lock" => event = "locked"
  <2>1. d.card \in DOMAIN cards /\ d.op \in {"create", "lock", "unlock", "replace", "decide"}
    BY <1>1, CardShapes DEF Holds, HoldsCard
  <2>2. EventOf[d.op] \in CardEventType /\ (d.op = "lock" => EventOf[d.op] = "locked")
    BY <2>1 DEF EventOf, CardEventType
  <2> QED
    BY <2>1, <2>2
<1>3. /\ UNCHANGED <<cards, cardRequests, cardTold, contested>>
      /\ cardEvents' = [cardEvents EXCEPT ![x] = @ \cup {event}]
      /\ cardEvents \in [DOMAIN cards -> SUBSET CardEventType]
      /\ cardTold' \subseteq (DOMAIN cardRequests) \X CardRequestStatus
  BY <1>1, <1>2 DEF AddCardEvent, CardInv, CardTypeOK
<1>4. /\ cardEvents' \in [DOMAIN cards -> SUBSET CardEventType]
      /\ \A y \in DOMAIN cards : cardEvents[y] \subseteq cardEvents'[y]
      /\ d.op = "lock" => "locked" \in cardEvents'[d.card]
  BY <1>2, <1>3
<1>5. CASE d.op \in {"create", "decide"}
  <2> DEFINE c == [d EXCEPT !.at = "notify"]
  <2>1. c \in CardCall /\ c.at = "notify" /\ c.request = d.request
    BY <1>1 DEF CardCall
  <2>2. cardCall' = [cardCall EXCEPT ![k] = c]
    BY <1>1, <1>5 DEF AddCardEvent
  <2> HIDE DEF c
  <2>3. Holds(c) /\ Changes(k, c)
    BY <1>1, <1>5, <2>1 DEF Holds, HoldsRequest, Changes
  <2>4. UNCHANGED <<cards, cardRequests, contested>> /\ c.at \notin {"card", "request", "save", "dead"}
    BY <1>3, <2>1
  <2>5. d.op # "lock" /\ d.at \notin {"store", "save", "dead"}
    BY <1>1, <1>5
  <2>6. cardTold' \subseteq (DOMAIN cardRequests) \X CardRequestStatus
    BY <1>3
  <2> QED
    BY <1>1, <1>4, <2>1, <2>2, <2>3, <2>4, <2>5, <2>6, CardInvCall
<1>6. CASE d.op \notin {"create", "decide"}
  <2>1. cardCall' = [cardCall EXCEPT ![k] = Done]
    BY <1>1, <1>6 DEF AddCardEvent
  <2>2. Holds(Done) /\ Changes(k, Done) /\ Done.at = "done"
    BY CardShapes DEF Holds, Changes
  <2>3. UNCHANGED <<cards, cardRequests, contested>> /\ d.at \notin {"store", "save", "dead"}
    BY <1>1, <1>3
  <2>4. cardTold' \subseteq (DOMAIN cardRequests) \X CardRequestStatus
    BY <1>3
  <2>5. PICK c \in {Done} : Holds(c) /\ Changes(k, c) /\ c.at = "done" /\ cardCall' = [cardCall EXCEPT ![k] = c]
    BY <2>1, <2>2
  <2>6. c \in CardCall \cup {Idle, Done}
    BY <2>5
  <2> QED
    BY <1>1, <1>4, <2>3, <2>4, <2>5, <2>6, CardInvCall
<1> QED
  BY <1>5, <1>6

LEMMA CardInvNotifyCardholder ==
    ASSUME CardInv, NEW k \in CardCalls, NotifyCardholder(k) PROVE CardInv'
<1>1. PICK d \in CardCall : d = cardCall[k] /\ d.at = "notify" /\ Holds(d)
  BY CardKinds DEF NotifyCardholder, CardInv
<1>2. d.request \in DOMAIN cardRequests /\ d.to \in CardRequestStatus
  BY <1>1, CardShapes DEF Holds, HoldsRequest
<1>3. /\ UNCHANGED <<cards, cardRequests, cardEvents, contested>>
      /\ cardTold' = cardTold \cup {<<d.request, d.to>>}
      /\ cardCall' = [cardCall EXCEPT ![k] = Done]
  BY <1>1 DEF NotifyCardholder
<1>4. /\ cardEvents' \in [DOMAIN cards -> SUBSET CardEventType]
      /\ \A y \in DOMAIN cards : cardEvents[y] \subseteq cardEvents'[y]
      /\ cardTold' \subseteq (DOMAIN cardRequests) \X CardRequestStatus
  BY <1>2, <1>3 DEF CardInv, CardTypeOK
<1>5. Holds(Done) /\ Changes(k, Done) /\ Done.at = "done"
  BY CardShapes DEF Holds, Changes
<1> QED
  BY <1>1, <1>3, <1>4, <1>5, CardInvCall

LEMMA CardInvCallThrows ==
    ASSUME CardInv, NEW k \in CardCalls, CardCallThrows(k) PROVE CardInv'
<1>1. PICK d \in CardCall : d = cardCall[k] /\ d.at # "dead"
  BY CardKinds DEF CardCallThrows, UnderWay, CardInv
<1> DEFINE c == [d EXCEPT !.at = "dead"]
<1>2. /\ c \in CardCall /\ c.at = "dead" /\ c.card = d.card /\ c.request = d.request
      /\ c.op = d.op /\ c.to = d.to
  BY <1>1 DEF CardCall
<1>3. /\ cardCall' = [cardCall EXCEPT ![k] = c]
      /\ UNCHANGED <<cards, cardRequests, cardEvents, cardTold, contested>>
  BY <1>1 DEF CardCallThrows, CardInv, CardTypeOK
<1> HIDE DEF c
<1>4. /\ cardEvents' \in [DOMAIN cards -> SUBSET CardEventType]
      /\ \A y \in DOMAIN cards : cardEvents[y] \subseteq cardEvents'[y]
      /\ cardTold' \subseteq (DOMAIN cardRequests) \X CardRequestStatus
  BY <1>3 DEF CardInv, CardTypeOK
<1>5. Holds(c) /\ Changes(k, c)
  BY <1>2 DEF Holds, Changes
<1>6. PICK e \in CardCall :
         /\ e.at = "dead" /\ e.card = d.card /\ e.request = d.request /\ e.op = d.op /\ e.to = d.to
         /\ cardCall' = [cardCall EXCEPT ![k] = e]
         /\ Holds(e) /\ Changes(k, e)
  BY <1>2, <1>3, <1>5
<1>7. UNCHANGED <<cards, cardRequests, contested>> /\ d = cardCall[k] /\ d.at # "dead"
  BY <1>1, <1>3
<1>8. e.at \notin {"card", "request", "save"} /\ e.at \in {"notify", "done", "dead"}
  BY <1>6
<1> QED
  BY <1>4, <1>6, <1>7, <1>8, CardInvCall

\* A decision begins: on a request that is being decided it contests it.
LEMMA CardInvDecide ==
    ASSUME CardInv, NEW k \in CardCalls, NEW q \in DOMAIN cardRequests, NEW to \in SentDecisions,
           Decide(k, q, to)
    PROVE  CardInv'
<1>0. /\ CardTypeOK /\ cardRequests[q] \in CardRequest /\ to \in CardRequestStatus
      /\ q \in 0..MaxCardRequests
  BY CardConstants, CardNumbers DEF CardInv, CardTypeOK
<1>1. PICK was \in CardRequestStatus, type \in CardRequestType :
         was = cardRequests[q].status /\ type = cardRequests[q].type
  BY <1>0 DEF CardRequest
<1> DEFINE c == [Started EXCEPT !.at = "card", !.op = "decide", !.request = q, !.to = to,
                                !.was = was, !.type = type]
<1>2. c \in CardCall /\ c.at = "card" /\ c.op = "decide" /\ c.request = q /\ c.was = was
  BY <1>0, StartedFacts DEF CardCall
<1>3. /\ cardCall' = [cardCall EXCEPT ![k] = c] /\ cardCall[k].at = "idle"
      /\ UNCHANGED <<cards, cardRequests, cardEvents, cardTold>>
      /\ contested' = IF Deciding(q) = {} THEN contested ELSE contested \cup {q}
  BY <1>1, CardShapes DEF Decide, CardCallArrives
<1> HIDE DEF c
<1>4. /\ cardCall' \in [CardCalls -> CardCall \cup {Idle, Done}]
      /\ cardCall'[k] = c /\ \A j \in CardCalls : j # k => cardCall'[j] = cardCall[j]
  BY <1>0, <1>2, <1>3, CardCallMoves
<1>5. contested \subseteq contested' /\ contested' \subseteq DOMAIN cardRequests
  BY <1>0, <1>3 DEF CardTypeOK
<1>6. CardTypeOK'
  BY <1>0, <1>3, <1>4, <1>5 DEF CardTypeOK
<1>7. ASSUME NEW j \in CardCalls PROVE Holds(cardCall[j])' /\ Changes(j, cardCall[j])'
  <2>1. PICK e : e = cardCall'[j]
    OBVIOUS
  <2>2. Holds(e) /\ Changes(j, e)
    BY <1>2, <1>4, <2>1 DEF CardInv, Holds, HoldsRequest, Changes
  <2>3. Holds(e)'
    BY <1>3, <2>2, StillHolds
  <2> QED
    BY <2>1, <2>2, <2>3 DEF Holds, Changes, HoldsCard, HoldsRequest
<1>8. \A r : r # q => \A j : j \in Deciding(r)' <=> j \in Deciding(r)
  BY <1>2, <1>3, <1>4 DEF Deciding
<1>9. \A j \in Deciding(q)' : j = k \/ j \in Deciding(q)
  BY <1>4 DEF Deciding
<1>10. DatesAreOfSaves' /\ CompletedIsIssued' /\ LockedIsDated'
  BY <1>2, <1>3, <1>4 DEF CardInv, DatesAreOfSaves, CompletedIsIssued, LockedIsDated
<1>11. DecisionsKnow'
  <2> SUFFICES ASSUME NEW j \in CardCalls, NEW e, e = cardCall'[j],
                      e.at \in {"card", "request", "save"}, e.op = "decide", e.request \notin contested'
               PROVE  /\ e.at \in {"card", "request"} => cardRequests[e.request].status = e.was
                      /\ e.at = "save" => cardRequests[e.request].status = e.to
                      /\ \A i \in Deciding(e.request)' : i = j
    BY <1>3 DEF DecisionsKnow, Deciding
  <2>1. CASE j = k
    <3>1. e = c /\ Deciding(q) = {}
      BY <1>2, <1>3, <1>4, <2>1
    <3>2. \A i \in Deciding(q)' : i = k
      BY <1>9, <3>1
    <3> QED
      BY <1>1, <1>2, <2>1, <3>1, <3>2 DEF Deciding
  <2>2. CASE j # k
    <3>1. e = cardCall[j] /\ j \in Deciding(e.request) /\ e.request \notin contested
      BY <1>4, <1>5, <2>2 DEF Deciding
    <3>2. e.request # q
      BY <1>3, <3>1
    <3>3. PICK r : r = e.request
      OBVIOUS
    <3>4. \A i : i \in Deciding(r)' <=> i \in Deciding(r)
      BY <1>8, <3>2, <3>3
    <3>5. /\ e.at \in {"card", "request"} => cardRequests[e.request].status = e.was
          /\ e.at = "save" => cardRequests[e.request].status = e.to
          /\ \A i \in Deciding(r) : i = j
      BY <3>1, <3>3 DEF CardInv, DecisionsKnow
    <3>6. \A i \in Deciding(r)' : i = j
      BY <3>4, <3>5
    <3> QED
      BY <3>3, <3>5, <3>6 DEF Deciding
  <2> QED
    BY <2>1, <2>2
<1>12. WaitingHasCause'
  <2> SUFFICES ASSUME NEW x \in DOMAIN cards, cards[x].status \in WaitingStatus
               PROVE  \/ \E r \in DOMAIN cardRequests : OpenFor(x, r)'
                      \/ \E j \in CardCalls : CaredFor(x, j)'
    BY <1>3 DEF WaitingHasCause
  <2>1. ASSUME NEW r \in DOMAIN cardRequests, OpenFor(x, r) PROVE OpenFor(x, r)'
    <3>1. \A j \in Deciding(r)' : j = k \/ (j \in Deciding(r) /\ cardCall'[j] = cardCall[j])
      BY <1>4 DEF Deciding
    <3> QED
      BY <1>2, <1>3, <1>4, <1>5, <2>1, <3>1 DEF OpenFor
  <2>2. ASSUME NEW j \in CardCalls, CaredFor(x, j) PROVE CaredFor(x, j)'
    BY <1>3, <1>4, <2>2 DEF CaredFor
  <2> QED
    BY <2>1, <2>2 DEF CardInv, WaitingHasCause
<1> QED
  BY <1>3, <1>6, <1>7, <1>10, <1>11, <1>12 DEF CardInv

\* The card of a request that had none is inserted, with the call that is to store the request.
LEMMA CardInvInsertCard ==
    ASSUME CardInv, NEW k \in CardCalls, InsertCard(k) PROVE CardInv'
<1>0. CardTypeOK
  BY DEF CardInv
<1>1. PICK d \in CardCall : d = cardCall[k] /\ d.at = "insert" /\ d.op = "create"
  BY <1>0, CardKinds DEF InsertCard, CardInv, Holds
<1>2. PICK n \in Nat : n = Len(cards) /\ n < MaxCards
  BY <1>0 DEF InsertCard, CardTypeOK
<1>3. /\ cards' \in Seq(Card) /\ Len(cards') = n + 1
      /\ \A x \in 1..n : cards'[x] = cards[x]
      /\ cards'[n + 1] = NewCard
  <2>1. cards \in Seq(Card) /\ NewCard \in Card /\ cards' = Append(cards, NewCard)
    BY <1>0, StartedFacts DEF InsertCard, CardTypeOK
  <2> QED
    BY <1>2, <2>1, AppendProperties
<1>4. DOMAIN cards = 1..n /\ DOMAIN cards' = 1..(n + 1) /\ n + 1 \in 1..MaxCards
  BY <1>0, <1>2, <1>3, CardNumbers DEF CardTypeOK
<1>5. /\ cardEvents' \in [DOMAIN cards' -> SUBSET CardEventType]
      /\ \A x \in DOMAIN cards : cardEvents'[x] = cardEvents[x]
  <2>1. cardEvents \in [1..n -> SUBSET CardEventType]
    BY <1>0, <1>4 DEF CardTypeOK
  <2>2. cardEvents \in Seq(SUBSET CardEventType) /\ Len(cardEvents) = n
    BY <2>1
  <2>3. /\ cardEvents' \in Seq(SUBSET CardEventType) /\ Len(cardEvents') = n + 1
        /\ \A x \in 1..n : cardEvents'[x] = cardEvents[x]
    BY <2>2, AppendProperties DEF InsertCard
  <2> QED
    BY <1>4, <2>3
<1>a. PICK new \in 0..MaxCards : new = n + 1
  BY <1>4
<1> DEFINE c == [d EXCEPT !.at = "store", !.card = new]
<1>6. c \in CardCall /\ c.at = "store" /\ c.op = "create" /\ c.card = n + 1
  BY <1>1, <1>a DEF CardCall
<1>7. /\ cardCall' = [cardCall EXCEPT ![k] = c]
      /\ UNCHANGED <<cardRequests, cardTold, contested>>
  BY <1>0, <1>1, <1>2, <1>a DEF InsertCard, CardTypeOK
<1> HIDE DEF c
<1>8. /\ cardCall' \in [CardCalls -> CardCall \cup {Idle, Done}]
      /\ cardCall'[k] = c /\ \A j \in CardCalls : j # k => cardCall'[j] = cardCall[j]
  BY <1>0, <1>6, <1>7, CardCallMoves
<1>9. CardTypeOK'
  <2>1. Len(cards') <= MaxCards
    BY <1>2, <1>3, CardNumbers
  <2> QED
    BY <1>0, <1>3, <1>5, <1>7, <1>8, <2>1 DEF CardTypeOK
<1>10. DOMAIN cards \subseteq DOMAIN cards' /\ n + 1 \in DOMAIN cards'
  BY <1>4
<1>11. ASSUME NEW j \in CardCalls PROVE Holds(cardCall[j])' /\ Changes(j, cardCall[j])'
  <2>1. CASE j = k
    <3>1. Holds(c)' /\ Changes(j, c)
      BY <1>6, <1>10 DEF Holds, HoldsCard, Changes
    <3> QED
      BY <2>1, <3>1, <1>8 DEF Holds, Changes, HoldsCard, HoldsRequest
  <2>2. CASE j # k
    <3>1. PICK e : e = cardCall[j]
      OBVIOUS
    <3>2. Holds(e) /\ Changes(j, e)
      BY <3>1 DEF CardInv
    <3>3. Holds(e)'
      BY <3>2, <1>7, <1>10, StillHolds
    <3> QED
      BY <2>2, <3>1, <3>2, <3>3, <1>8 DEF Holds, Changes, HoldsCard, HoldsRequest
  <2> QED
    BY <2>1, <2>2
<1>12. \A q \in DOMAIN cardRequests : cardRequests[q].card \in DOMAIN cards
  BY DEF CardInv
<1>13. \A x \in DOMAIN cards : cards'[x] = cards[x]
  BY <1>3, <1>4
<1>14. \A x \in DOMAIN cards' : x \in DOMAIN cards \/ (x = n + 1 /\ cards'[x] = NewCard)
  BY <1>3, <1>4
<1>15. DatesAreOfSaves'
  <2>1. \A j \in CardCalls : j # 0
    BY CardNumbers DEF CardCalls
  <2> QED
    BY <2>1, <1>1, <1>8, <1>13, <1>14, StartedFacts DEF CardInv, DatesAreOfSaves
<1>16. \A q, j : j \in Deciding(q)' <=> j \in Deciding(q)
  BY <1>1, <1>6, <1>8 DEF Deciding
<1>17. DecisionsKnow'
  BY <1>6, <1>7, <1>8, <1>16 DEF CardInv, DecisionsKnow
<1>18. CompletedIsIssued'
  BY <1>1, <1>7, <1>8, <1>12, <1>13 DEF CardInv, CompletedIsIssued
<1>19. LockedIsDated'
  BY <1>1, <1>5, <1>8, <1>13, <1>14, StartedFacts DEF CardInv, LockedIsDated
<1>20. WaitingHasCause'
  <2> SUFFICES ASSUME NEW x \in DOMAIN cards', cards'[x].status \in WaitingStatus
               PROVE  \/ \E r \in DOMAIN cardRequests : OpenFor(x, r)'
                      \/ \E j \in CardCalls : CaredFor(x, j)'
    BY <1>7 DEF WaitingHasCause
  <2>1. ASSUME NEW r \in DOMAIN cardRequests, OpenFor(x, r) PROVE OpenFor(x, r)'
    <3>1. \A j \in Deciding(r)' : j \in Deciding(r) /\ j # k
      BY <1>1, <1>16 DEF Deciding
    <3>2. \A j \in Deciding(r) : j \in CardCalls
      BY DEF Deciding
    <3> QED
      BY <1>7, <1>8, <2>1, <3>1, <3>2 DEF OpenFor
  <2>2. ASSUME NEW j \in CardCalls, CaredFor(x, j) PROVE CaredFor(x, j)'
    BY <1>1, <1>8, <2>2 DEF CaredFor
  <2>3. CASE x = n + 1
    BY <2>3, <1>6, <1>8 DEF CaredFor
  <2>4. CASE x \in DOMAIN cards
    BY <2>1, <2>2, <2>4, <1>13 DEF CardInv, WaitingHasCause
  <2> QED
    BY <2>3, <2>4, <1>14
<1> QED
  BY <1>7, <1>9, <1>10, <1>11, <1>12, <1>15, <1>17, <1>18, <1>19, <1>20 DEF CardInv

\* The request is inserted: the card that waits has its open request.
LEMMA CardInvStoreRequest ==
    ASSUME CardInv, NEW k \in CardCalls, StoreRequest(k) PROVE CardInv'
<1>0. CardTypeOK
  BY DEF CardInv
<1>1. PICK d \in CardCall : /\ d = cardCall[k] /\ d.at = "store" /\ d.op \in {"create", "replace"}
                            /\ d.card \in DOMAIN cards
  BY <1>0, CardKinds DEF StoreRequest, CardInv, Holds, HoldsCard
<1>2. PICK n \in Nat : n = Len(cardRequests) /\ n < MaxCardRequests
  BY <1>0 DEF StoreRequest, CardTypeOK
<1>3. PICK new \in CardRequest : /\ new = [card |-> d.card, type |-> d.type, status |-> "submitted"]
                                 /\ new.card = d.card /\ new.status = "submitted"
  <2>1. d.card \in 1..MaxCards
    BY <1>0, <1>1, CardNumbers DEF CardTypeOK
  <2>2. d.type \in CardRequestType /\ "submitted" \in CardRequestStatus
    BY <1>1, CardShapes DEF CardRequestStatus
  <2> DEFINE r == [card |-> d.card, type |-> d.type, status |-> "submitted"]
  <2>3. r \in CardRequest
    BY <2>1, <2>2 DEF CardRequest
  <2> QED
    BY <2>3
<1>4. /\ cardRequests' \in Seq(CardRequest) /\ Len(cardRequests') = n + 1
      /\ \A q \in 1..n : cardRequests'[q] = cardRequests[q]
      /\ cardRequests'[n + 1] = new
  <2>1. cardRequests \in Seq(CardRequest) /\ cardRequests' = Append(cardRequests, new)
    BY <1>0, <1>1, <1>3 DEF StoreRequest, CardTypeOK
  <2> QED
    BY <1>2, <2>1, AppendProperties
<1>5. DOMAIN cardRequests = 1..n /\ DOMAIN cardRequests' = 1..(n + 1) /\ n + 1 \in 1..MaxCardRequests
  BY <1>0, <1>2, <1>4, CardNumbers DEF CardTypeOK
<1>a. PICK fresh \in 0..MaxCardRequests : fresh = n + 1
  BY <1>5
<1> DEFINE c == [d EXCEPT !.at = "event", !.request = fresh]
<1>6. c \in CardCall /\ c.at = "event" /\ c.op = d.op /\ c.card = d.card /\ c.request = n + 1
  BY <1>1, <1>a DEF CardCall
<1>7. /\ cardCall' = [cardCall EXCEPT ![k] = c]
      /\ UNCHANGED <<cards, cardEvents, cardTold, contested>>
  BY <1>0, <1>1, <1>2, <1>a DEF StoreRequest, CardTypeOK
<1> HIDE DEF c
<1>8. /\ cardCall' \in [CardCalls -> CardCall \cup {Idle, Done}]
      /\ cardCall'[k] = c /\ \A j \in CardCalls : j # k => cardCall'[j] = cardCall[j]
  BY <1>0, <1>6, <1>7, CardCallMoves
<1>9. /\ DOMAIN cardRequests \subseteq DOMAIN cardRequests' /\ n + 1 \in DOMAIN cardRequests'
      /\ \A q \in DOMAIN cardRequests : cardRequests'[q] = cardRequests[q]
      /\ \A q \in DOMAIN cardRequests' : q \in DOMAIN cardRequests \/ (q = n + 1 /\ cardRequests'[q] = new)
      /\ n + 1 \notin DOMAIN cardRequests
  BY <1>4, <1>5
<1>10. CardTypeOK'
  <2>1. Len(cardRequests') <= MaxCardRequests
    BY <1>2, <1>4, CardNumbers
  <2>2. cardTold' \subseteq (DOMAIN cardRequests') \X CardRequestStatus /\ contested' \subseteq DOMAIN cardRequests'
    BY <1>0, <1>7, <1>9 DEF CardTypeOK
  <2> QED
    BY <1>0, <1>4, <1>7, <1>8, <2>1, <2>2 DEF CardTypeOK
<1>11. ASSUME NEW j \in CardCalls PROVE Holds(cardCall[j])' /\ Changes(j, cardCall[j])'
  <2>1. CASE j = k
    <3>1. Holds(c)' /\ Changes(j, c)
      BY <1>1, <1>6, <1>7, <1>9 DEF Holds, HoldsCard, HoldsRequest, Changes
    <3> QED
      BY <2>1, <3>1, <1>8 DEF Holds, Changes, HoldsCard, HoldsRequest
  <2>2. CASE j # k
    <3>1. PICK e : e = cardCall[j]
      OBVIOUS
    <3>2. Holds(e) /\ Changes(j, e)
      BY <3>1 DEF CardInv
    <3>3. Holds(e)'
      BY <3>2, <1>7, <1>9, StillHolds
    <3> QED
      BY <2>2, <3>1, <3>2, <3>3, <1>8 DEF Holds, Changes, HoldsCard, HoldsRequest
  <2> QED
    BY <2>1, <2>2
<1>12. \A q \in DOMAIN cardRequests' : cardRequests'[q].card \in DOMAIN cards'
  BY <1>1, <1>3, <1>7, <1>9 DEF CardInv
<1>13. DatesAreOfSaves'
  BY <1>1, <1>6, <1>7, <1>8 DEF CardInv, DatesAreOfSaves
<1>14. \A q, j : j \in Deciding(q)' <=> j \in Deciding(q)
  BY <1>1, <1>6, <1>8 DEF Deciding
<1>15. \A q : \A j \in Deciding(q) : q \in DOMAIN cardRequests /\ j # k /\ j \in CardCalls
  BY <1>1 DEF Deciding, CardInv, Holds, HoldsRequest
<1>16. DecisionsKnow'
  <2> SUFFICES ASSUME NEW j \in CardCalls, NEW e, e = cardCall'[j],
                      e.at \in {"card", "request", "save"}, e.op = "decide", e.request \notin contested
               PROVE  /\ e.at \in {"card", "request"} => cardRequests'[e.request].status = e.was
                      /\ e.at = "save" => cardRequests'[e.request].status = e.to
                      /\ \A i \in Deciding(e.request) : i = j
    BY <1>7, <1>14 DEF DecisionsKnow
  <2>1. j # k /\ e = cardCall[j]
    BY <1>6, <1>8
  <2>2. e.request \in DOMAIN cardRequests
    BY <2>1, <1>15 DEF Deciding
  <2> QED
    BY <2>1, <2>2, <1>9 DEF CardInv, DecisionsKnow
<1>17. CompletedIsIssued'
  BY <1>1, <1>3, <1>7, <1>8, <1>9 DEF CardInv, CompletedIsIssued
<1>18. LockedIsDated'
  BY <1>1, <1>7, <1>8 DEF CardInv, LockedIsDated
<1>19. WaitingHasCause'
  <2> SUFFICES ASSUME NEW x \in DOMAIN cards, cards[x].status \in WaitingStatus
               PROVE  \/ \E r \in DOMAIN cardRequests' : OpenFor(x, r)'
                      \/ \E j \in CardCalls : CaredFor(x, j)'
    BY <1>7 DEF WaitingHasCause
  <2>1. ASSUME NEW r \in DOMAIN cardRequests, OpenFor(x, r) PROVE OpenFor(x, r)'
    BY <1>7, <1>8, <1>9, <1>14, <1>15, <2>1 DEF OpenFor
  <2>2. ASSUME NEW j \in CardCalls, CaredFor(x, j), j # k PROVE CaredFor(x, j)'
    BY <1>8, <2>2 DEF CaredFor
  <2>3. CASE CaredFor(x, k)
    <3>1. new.card = x /\ new.status \notin Closing
      BY <2>3, <1>1, <1>3 DEF CaredFor, Closing
    <3>2. \A j : j \notin Deciding(n + 1)'
      BY <1>9, <1>14, <1>15
    <3>3. PICK q \in DOMAIN cardRequests' : q = n + 1
      BY <1>9
    <3>4. cardRequests'[q] = new /\ \A j : j \notin Deciding(q)'
      BY <3>2, <3>3, <1>4 DEF Deciding
    <3>5. OpenFor(x, q)'
      BY <3>1, <3>4 DEF OpenFor
    <3> QED
      BY <3>5
  <2> QED
    BY <2>1, <2>2, <2>3, <1>9 DEF CardInv, WaitingHasCause
<1> QED
  BY <1>7, <1>10, <1>11, <1>12, <1>13, <1>16, <1>17, <1>18, <1>19 DEF CardInv

(* The request is saved, and its card not yet: from here on the call answers for *)
(* a card that waits, and for a completion whose card is not issued.           *)
LEMMA CardInvSaveCardRequest ==
    ASSUME CardInv, NEW k \in CardCalls, SaveCardRequest(k) PROVE CardInv'
<1>0. CardTypeOK
  BY DEF CardInv
<1>1. PICK d \in CardCall : d = cardCall[k] /\ d.at = "request" /\ Holds(d) /\ Changes(k, d)
  BY <1>0, CardKinds DEF SaveCardRequest, CardInv
<1>2. PICK q \in DOMAIN cardRequests : /\ q = d.request /\ d.op = "decide" /\ d.card = cardRequests[q].card
                                       /\ d.card \in DOMAIN cards /\ d.to \in CardRequestStatus
  BY <1>1, CardShapes DEF Holds, HoldsRequest, HoldsCard
<1>a. PICK old \in CardRequest : old = cardRequests[q] /\ old.status \in CardRequestStatus
  <2>1. cardRequests[q] \in CardRequest
    BY <1>0 DEF CardTypeOK
  <2> QED
    BY <2>1 DEF CardRequest
<1>3. PICK status \in CardRequestStatus : status = IF d.was = d.to THEN old.status ELSE d.to
  BY <1>2, <1>a
<1> DEFINE saved == [old EXCEPT !.status = status]
<1>4. saved \in CardRequest /\ saved.status = status /\ saved.card = cardRequests[q].card
  BY <1>3, <1>a DEF CardRequest
<1>5. cardRequests' = [cardRequests EXCEPT ![q] = saved]
  BY <1>0, <1>1, <1>2, <1>3, <1>a DEF SaveCardRequest, CardTypeOK
<1> DEFINE c == [d EXCEPT !.at = "save"]
<1>6. /\ c \in CardCall /\ c.at = "save" /\ c.op = "decide" /\ c.card = d.card /\ c.request = q
      /\ c.seen = d.seen /\ c.next = d.next /\ c.to = d.to
  BY <1>1, <1>2 DEF CardCall
<1>7. /\ cardCall' = [cardCall EXCEPT ![k] = c]
      /\ UNCHANGED <<cards, cardEvents, cardTold, contested>>
  BY <1>0, <1>1 DEF SaveCardRequest, CardTypeOK
<1> HIDE DEF c, saved
<1>8. /\ cardCall' \in [CardCalls -> CardCall \cup {Idle, Done}]
      /\ cardCall'[k] = c /\ \A j \in CardCalls : j # k => cardCall'[j] = cardCall[j]
  BY <1>0, <1>6, <1>7, CardCallMoves
<1>9. /\ cardRequests' \in Seq(CardRequest) /\ Len(cardRequests') = Len(cardRequests)
      /\ cardRequests'[q] = saved /\ \A r \in DOMAIN cardRequests : r # q => cardRequests'[r] = cardRequests[r]
  BY <1>0, <1>2, <1>4, <1>5, ExceptSeq DEF CardTypeOK
<1>10. DOMAIN cardRequests' = DOMAIN cardRequests
  BY <1>0, <1>5 DEF CardTypeOK
<1>11. \A r \in DOMAIN cardRequests : cardRequests'[r].card = cardRequests[r].card
  BY <1>4, <1>9
<1>12. CardTypeOK'
  BY <1>0, <1>7, <1>8, <1>9, <1>10 DEF CardTypeOK
<1>13. ASSUME NEW j \in CardCalls PROVE Holds(cardCall[j])' /\ Changes(j, cardCall[j])'
  <2>1. CASE j = k
    <3>1. Holds(c)' /\ Changes(j, c)
      BY <1>1, <1>2, <1>6, <1>7, <1>10, <1>11, <2>1 DEF Holds, HoldsCard, HoldsRequest, Changes
    <3> QED
      BY <2>1, <3>1, <1>8 DEF Holds, Changes, HoldsCard, HoldsRequest
  <2>2. CASE j # k
    <3>1. PICK e : e = cardCall[j]
      OBVIOUS
    <3>2. Holds(e) /\ Changes(j, e)
      BY <3>1 DEF CardInv
    <3>3. Holds(e)'
      BY <3>2, <1>7, <1>10, <1>11, StillHolds
    <3> QED
      BY <2>2, <3>1, <3>2, <3>3, <1>8 DEF Holds, Changes, HoldsCard, HoldsRequest
  <2> QED
    BY <2>1, <2>2
<1>14. \A r \in DOMAIN cardRequests' : cardRequests'[r].card \in DOMAIN cards'
  BY <1>7, <1>10, <1>11 DEF CardInv
<1>15. DatesAreOfSaves' /\ LockedIsDated'
  BY <1>1, <1>6, <1>7, <1>8 DEF CardInv, DatesAreOfSaves, LockedIsDated
<1>16. \A r, j : j \in Deciding(r)' <=> j \in Deciding(r)
  BY <1>1, <1>2, <1>6, <1>8 DEF Deciding
<1>17. k \in Deciding(q) /\ \A r : Deciding(r) \subseteq CardCalls
  BY <1>1, <1>2 DEF Deciding
<1>18. q \notin contested => status = d.to /\ \A j \in Deciding(q) : j = k
  BY <1>1, <1>2, <1>3, <1>a DEF CardInv, DecisionsKnow
<1>19. DecisionsKnow'
  <2> SUFFICES ASSUME NEW j \in CardCalls, NEW e, e = cardCall'[j],
                      e.at \in {"card", "request", "save"}, e.op = "decide", e.request \notin contested
               PROVE  /\ e.at \in {"card", "request"} => cardRequests'[e.request].status = e.was
                      /\ e.at = "save" => cardRequests'[e.request].status = e.to
                      /\ \A i \in Deciding(e.request) : i = j
    BY <1>7, <1>16 DEF DecisionsKnow
  <2>1. CASE j = k
    BY <2>1, <1>4, <1>6, <1>8, <1>9, <1>18
  <2>2. CASE j # k
    <3>1. e = cardCall[j] /\ j \in Deciding(e.request)
      BY <1>8, <2>2 DEF Deciding
    <3>2. e.request # q
      BY <2>2, <3>1, <1>18
    <3>3. e.request \in DOMAIN cardRequests
      BY <3>1 DEF CardInv, Holds, HoldsRequest
    <3> QED
      BY <3>1, <3>2, <3>3, <1>9 DEF CardInv, DecisionsKnow
  <2> QED
    BY <2>1, <2>2
<1>20. CompletedIsIssued'
  <2> SUFFICES ASSUME NEW r \in DOMAIN cardRequests, cardRequests'[r].status = "completed"
               PROVE  \/ cards[cardRequests[r].card].issuedAt # 0
                      \/ \E j \in CardCalls : /\ cardCall'[j].at \in {"save", "dead"}
                                              /\ cardCall'[j].request = r /\ cardCall'[j].op = "decide"
                                              /\ cardCall'[j].to = "completed"
    BY <1>7, <1>10, <1>11 DEF CompletedIsIssued
  <2>1. CASE cardRequests[r].status = "completed"
    BY <2>1, <1>1, <1>8 DEF CardInv, CompletedIsIssued
  <2>2. CASE cardRequests[r].status # "completed"
    <3>1. r = q /\ d.to = "completed"
      BY <2>2, <1>3, <1>4, <1>9, <1>a
    <3> QED
      BY <3>1, <1>6, <1>8
  <2> QED
    BY <2>1, <2>2
<1>21. WaitingHasCause'
  <2> SUFFICES ASSUME NEW x \in DOMAIN cards, cards[x].status \in WaitingStatus
               PROVE  \/ \E r \in DOMAIN cardRequests : OpenFor(x, r)'
                      \/ \E j \in CardCalls : CaredFor(x, j)'
    BY <1>7, <1>10 DEF WaitingHasCause
  <2>1. ASSUME NEW r \in DOMAIN cardRequests, OpenFor(x, r), r # q PROVE OpenFor(x, r)'
    <3>1. \A j \in Deciding(r) : cardCall'[j] = cardCall[j]
      BY <2>1, <1>1, <1>2, <1>8, <1>17 DEF Deciding
    <3> QED
      BY <2>1, <3>1, <1>7, <1>9, <1>16 DEF OpenFor
  <2>2. CASE OpenFor(x, q)
    <3>1. CASE q \in contested
      BY <2>2, <3>1, <1>2, <1>7, <1>11 DEF OpenFor
    <3>2. CASE q \notin contested /\ d.to \notin Closing
      <4>1. cardRequests'[q].status \notin Closing
        BY <3>2, <1>4, <1>9, <1>18
      <4>2. \A j \in Deciding(q)' : cardCall'[j].at = "save"
        BY <3>2, <1>6, <1>8, <1>16, <1>18
      <4>3. cardRequests'[q].card = x
        BY <2>2, <1>11 DEF OpenFor
      <4>4. OpenFor(x, q)'
        BY <4>1, <4>2, <4>3 DEF OpenFor
      <4> QED
        BY <4>4
    <3>3. CASE q \notin contested /\ d.to \in Closing
      <4>1. d.seen.status \in WaitingStatus /\ d.card = x
        BY <2>2, <3>3, <1>1, <1>2, <1>17 DEF OpenFor
      <4>2. CaredFor(x, k)'
        BY <3>3, <4>1, <1>6, <1>8 DEF CaredFor
      <4> QED
        BY <4>2
    <3> QED
      BY <3>1, <3>2, <3>3
  <2>3. ASSUME NEW j \in CardCalls, CaredFor(x, j) PROVE CaredFor(x, j)'
    BY <2>3, <1>1, <1>8 DEF CaredFor
  <2> QED
    BY <2>1, <2>2, <2>3 DEF CardInv, WaitingHasCause
<1> QED
  BY <1>7, <1>12, <1>13, <1>14, <1>15, <1>19, <1>20, <1>21 DEF CardInv

\* What save() stores is each field as the call changed it, or else as it is stored.
LEMMA SavedCardFacts ==
    ASSUME NEW stored \in Card, NEW old \in Card, NEW new \in Card
    PROVE  /\ SavedCard(stored, old, new) \in Card
           /\ SavedCard(stored, old, new).status =
                 IF old.status = new.status THEN stored.status ELSE new.status
           /\ SavedCard(stored, old, new).issuedAt =
                 IF old.issuedAt = new.issuedAt THEN stored.issuedAt ELSE new.issuedAt
           /\ SavedCard(stored, old, new).lockedAt =
                 IF old.lockedAt = new.lockedAt THEN stored.lockedAt ELSE new.lockedAt
<1>1. DOMAIN stored = {"status", "issuedAt", "lockedAt"}
  BY DEF Card
<1>2. SavedCard(stored, old, new) =
         [status |-> IF old.status = new.status THEN stored.status ELSE new.status,
          issuedAt |-> IF old.issuedAt = new.issuedAt THEN stored.issuedAt ELSE new.issuedAt,
          lockedAt |-> IF old.lockedAt = new.lockedAt THEN stored.lockedAt ELSE new.lockedAt]
  BY <1>1 DEF SavedCard
<1>3. SavedCard(stored, old, new) \in Card
  BY <1>2 DEF Card
<1> QED
  BY <1>2, <1>3

(* What a call makes of the card it saves, s the card stored and v what is then. *)
LEMMA SaveCardWrites ==
    ASSUME NEW k \in CardCalls, NEW d \in CardCall, d.at = "save", Holds(d), Changes(k, d),
           NEW s \in Card, NEW v, v = SavedCard(s, d.seen, d.next)
    PROVE  /\ v \in Card
           /\ \/ v.issuedAt = s.issuedAt
              \/ v.issuedAt = k /\ d.op = "decide"
           /\ d.op = "decide" /\ d.to = "completed" => v.issuedAt = k
           /\ \/ v.lockedAt = s.lockedAt
              \/ d.op = "lock" /\ v.lockedAt = k
              \/ d.op = "unlock" /\ v.lockedAt = 0
           /\ v.status = "locked" =>
                 \/ d.op = "lock" /\ v.lockedAt = k
                 \/ d.op \in {"replace", "decide"} /\ s.status = "locked" /\ v.lockedAt = s.lockedAt
           /\ v.status \in WaitingStatus =>
                 \/ d.op = "replace"
                 \/ d.op = "decide" /\ d.to \notin Closing
                 \/ d.op = "decide" /\ s.status \in WaitingStatus /\ d.seen.status \notin WaitingStatus
<1>1. d.seen \in Card /\ d.next \in Card /\ d.op \in {"lock", "unlock", "replace", "decide"}
  BY CardShapes DEF Holds
<1>2. /\ v \in Card
      /\ v.status = IF d.seen.status = d.next.status THEN s.status ELSE d.next.status
      /\ v.issuedAt = IF d.seen.issuedAt = d.next.issuedAt THEN s.issuedAt ELSE d.next.issuedAt
      /\ v.lockedAt = IF d.seen.lockedAt = d.next.lockedAt THEN s.lockedAt ELSE d.next.lockedAt
  BY <1>1, SavedCardFacts
<1>3. CASE d.op = "decide"
  BY <1>2, <1>3 DEF Changes
<1>4. CASE d.op = "replace"
  BY <1>2, <1>4 DEF Changes
<1>5. CASE d.op = "lock"
  BY <1>2, <1>5 DEF Changes, WaitingStatus
<1>6. CASE d.op = "unlock"
  BY <1>2, <1>6 DEF Changes, WaitingStatus
<1> QED
  BY <1>1, <1>3, <1>4, <1>5, <1>6

(* The card is saved, in the fields the call changed: a date the call leaves is  *)
(* its own, and a card it leaves waiting has the request it decided.           *)
LEMMA CardInvSaveCard ==
    ASSUME CardInv, NEW k \in CardCalls, SaveCard(k) PROVE CardInv'
<1>0. CardTypeOK /\ k # 0
  BY CardNumbers DEF CardInv, CardCalls
<1>1. PICK d \in CardCall : d = cardCall[k] /\ d.at = "save" /\ Holds(d) /\ Changes(k, d)
  BY <1>0, CardKinds DEF SaveCard, CardInv
<1>2. PICK y \in DOMAIN cards : y = d.card /\ d.op \in {"lock", "unlock", "replace", "decide"}
  BY <1>1 DEF Holds, HoldsCard
<1>3. PICK s \in Card : s = cards[y]
  BY <1>0 DEF CardTypeOK
<1>4. PICK v \in Card :
         /\ v = SavedCard(s, d.seen, d.next)
         /\ \/ v.issuedAt = s.issuedAt
            \/ v.issuedAt = k /\ d.op = "decide"
         /\ d.op = "decide" /\ d.to = "completed" => v.issuedAt = k
         /\ \/ v.lockedAt = s.lockedAt
            \/ d.op = "lock" /\ v.lockedAt = k
            \/ d.op = "unlock" /\ v.lockedAt = 0
         /\ v.status = "locked" =>
               \/ d.op = "lock" /\ v.lockedAt = k
               \/ d.op \in {"replace", "decide"} /\ s.status = "locked" /\ v.lockedAt = s.lockedAt
         /\ v.status \in WaitingStatus =>
               \/ d.op = "replace"
               \/ d.op = "decide" /\ d.to \notin Closing
               \/ d.op = "decide" /\ s.status \in WaitingStatus /\ d.seen.status \notin WaitingStatus
  BY <1>1, SaveCardWrites
<1>5. PICK at \in {"store", "event"} : at = IF d.op = "replace" THEN "store" ELSE "event"
  OBVIOUS
<1> DEFINE c == [d EXCEPT !.at = at]
<1>6. /\ c \in CardCall /\ c.at = at /\ c.op = d.op /\ c.card = y /\ c.request = d.request
  BY <1>1, <1>2 DEF CardCall
<1>7. /\ cardCall' = [cardCall EXCEPT ![k] = c]
      /\ UNCHANGED <<cardRequests, cardEvents, cardTold, contested>>
  BY <1>0, <1>1, <1>5 DEF SaveCard, CardTypeOK
<1>8. cards' = [cards EXCEPT ![y] = v]
  BY <1>1, <1>2, <1>3, <1>4 DEF SaveCard
<1> HIDE DEF c
<1>9. /\ cardCall' \in [CardCalls -> CardCall \cup {Idle, Done}]
      /\ cardCall'[k] = c /\ \A j \in CardCalls : j # k => cardCall'[j] = cardCall[j]
  BY <1>0, <1>6, <1>7, CardCallMoves
<1>10. /\ cards' \in Seq(Card) /\ Len(cards') = Len(cards)
       /\ cards'[y] = v /\ \A x \in DOMAIN cards : x # y => cards'[x] = cards[x]
  BY <1>0, <1>2, <1>8, ExceptSeq DEF CardTypeOK
<1>11. DOMAIN cards' = DOMAIN cards
  BY <1>0, <1>8 DEF CardTypeOK
<1>12. CardTypeOK'
  BY <1>0, <1>7, <1>9, <1>10, <1>11 DEF CardTypeOK
<1>13. ASSUME NEW j \in CardCalls PROVE Holds(cardCall[j])' /\ Changes(j, cardCall[j])'
  <2>1. CASE j = k
    <3>1. c.at = "store" => c.op = "replace"
      BY <1>5, <1>6
    <3>2. c.at \in {"store", "event"} /\ c.card \in DOMAIN cards'
      BY <1>6, <1>11
    <3>3. c.op = "decide" => c.request \in DOMAIN cardRequests'
      BY <1>1, <1>6, <1>7 DEF Holds, HoldsRequest
    <3>4. c.op # "create"
      BY <1>2, <1>6
    <3>5. Holds(c)' /\ Changes(j, c)
      BY <3>1, <3>2, <3>3, <3>4 DEF Holds, HoldsCard, HoldsRequest, Changes
    <3> QED
      BY <2>1, <3>5, <1>9 DEF Holds, Changes, HoldsCard, HoldsRequest
  <2>2. CASE j # k
    <3>1. PICK e : e = cardCall[j]
      OBVIOUS
    <3>2. Holds(e) /\ Changes(j, e)
      BY <3>1 DEF CardInv
    <3>3. Holds(e)'
      BY <3>2, <1>7, <1>11, StillHolds
    <3> QED
      BY <2>2, <3>1, <3>2, <3>3, <1>9 DEF Holds, Changes, HoldsCard, HoldsRequest
  <2> QED
    BY <2>1, <2>2
<1>14. \A r \in DOMAIN cardRequests' : cardRequests'[r].card \in DOMAIN cards'
  BY <1>7, <1>11 DEF CardInv
<1>15. DatesAreOfSaves'
  <2> SUFFICES ASSUME NEW x \in DOMAIN cards, NEW j \in CardCalls,
                      cards'[x].issuedAt = j \/ cards'[x].lockedAt = j
               PROVE  cardCall'[j].at \in {"event", "notify", "done", "dead"}
    BY <1>11 DEF DatesAreOfSaves
  <2>1. CASE cards[x].issuedAt = j \/ cards[x].lockedAt = j
    BY <2>1, <1>1, <1>9 DEF CardInv, DatesAreOfSaves
  <2>2. CASE ~(cards[x].issuedAt = j \/ cards[x].lockedAt = j)
    <3>1. j # 0
      BY CardNumbers DEF CardCalls
    <3>2. j = k /\ d.op \in {"decide", "lock"}
      BY <2>2, <3>1, <1>3, <1>4, <1>10
    <3> QED
      BY <3>2, <1>5, <1>6, <1>9
  <2> QED
    BY <2>1, <2>2
<1>16. \A r : \A j \in Deciding(r)' : j \in Deciding(r) /\ j # k /\ cardCall'[j] = cardCall[j]
  BY <1>5, <1>6, <1>9 DEF Deciding
<1>17. DecisionsKnow'
  <2> SUFFICES ASSUME NEW j \in CardCalls, NEW e, e = cardCall'[j],
                      e.at \in {"card", "request", "save"}, e.op = "decide", e.request \notin contested
               PROVE  /\ e.at \in {"card", "request"} => cardRequests[e.request].status = e.was
                      /\ e.at = "save" => cardRequests[e.request].status = e.to
                      /\ \A i \in Deciding(e.request)' : i = j
    BY <1>7 DEF DecisionsKnow, Deciding
  <2>1. e = cardCall[j]
    BY <1>5, <1>6, <1>9
  <2>2. PICK r : r = e.request
    OBVIOUS
  <2>3. /\ e.at \in {"card", "request"} => cardRequests[r].status = e.was
        /\ e.at = "save" => cardRequests[r].status = e.to
        /\ \A i \in Deciding(r) : i = j
    BY <2>1, <2>2 DEF CardInv, DecisionsKnow
  <2>4. \A i \in Deciding(r)' : i = j
    BY <2>3, <1>16
  <2> QED
    BY <2>2, <2>3, <2>4 DEF Deciding
<1>18. CompletedIsIssued'
  <2> SUFFICES ASSUME NEW r \in DOMAIN cardRequests, cardRequests[r].status = "completed"
               PROVE  \/ cards'[cardRequests[r].card].issuedAt # 0
                      \/ \E j \in CardCalls : /\ cardCall'[j].at \in {"save", "dead"}
                                              /\ cardCall'[j].request = r /\ cardCall'[j].op = "decide"
                                              /\ cardCall'[j].to = "completed"
    BY <1>7 DEF CompletedIsIssued
  <2>1. cardRequests[r].card \in DOMAIN cards
    BY DEF CardInv
  <2>2. CASE cards[cardRequests[r].card].issuedAt # 0
    BY <2>1, <2>2, <1>0, <1>3, <1>4, <1>10
  <2>3. ASSUME NEW j \in CardCalls, cardCall[j].at \in {"save", "dead"}, cardCall[j].request = r,
               cardCall[j].op = "decide", cardCall[j].to = "completed"
        PROVE  \/ cards'[cardRequests[r].card].issuedAt # 0
               \/ /\ cardCall'[j].at \in {"save", "dead"}
                  /\ cardCall'[j].request = r /\ cardCall'[j].op = "decide"
                  /\ cardCall'[j].to = "completed"
    <3>1. CASE j # k
      BY <2>3, <3>1, <1>9
    <3>2. CASE j = k
      <4>1. d.op = "decide" /\ d.to = "completed" /\ d.request = r
        BY <2>3, <3>2, <1>1
      <4>2. cardRequests[r].card = y
        BY <4>1, <1>1, <1>2 DEF Holds
      <4> QED
        BY <4>1, <4>2, <1>0, <1>4, <1>10
    <3> QED
      BY <3>1, <3>2
  <2> QED
    BY <2>2, <2>3 DEF CardInv, CompletedIsIssued
<1>19. LockedIsDated'
  <2> SUFFICES ASSUME NEW x \in DOMAIN cards, cards'[x].status = "locked"
               PROVE  /\ cards'[x].lockedAt # 0
                      /\ \/ "locked" \in cardEvents[x]
                         \/ \E j \in CardCalls : /\ cardCall'[j].at \in {"event", "dead"}
                                                 /\ cardCall'[j].card = x /\ cardCall'[j].op = "lock"
    BY <1>7, <1>11 DEF LockedIsDated
  <2>1. CASE x = y /\ d.op = "lock" /\ v.lockedAt = k
    BY <2>1, <1>0, <1>5, <1>6, <1>9, <1>10
  <2>2. CASE cards[x].status = "locked" /\ cards'[x].lockedAt = cards[x].lockedAt
    <3>1. \A j \in CardCalls : cardCall[j].at \in {"event", "dead"} => cardCall'[j] = cardCall[j]
      BY <1>1, <1>9
    <3> QED
      BY <2>2, <3>1 DEF CardInv, LockedIsDated
  <2> QED
    BY <2>1, <2>2, <1>3, <1>4, <1>10
<1>20. WaitingHasCause'
  <2> SUFFICES ASSUME NEW x \in DOMAIN cards, cards'[x].status \in WaitingStatus
               PROVE  \/ \E r \in DOMAIN cardRequests : OpenFor(x, r)'
                      \/ \E j \in CardCalls : CaredFor(x, j)'
    BY <1>7, <1>11 DEF WaitingHasCause
  <2>1. CASE x = y /\ d.op = "replace"
    BY <2>1, <1>5, <1>6, <1>9 DEF CaredFor
  <2>2. CASE x = y /\ d.op = "decide" /\ d.to \notin Closing
    <3>1. PICK q \in DOMAIN cardRequests : q = d.request /\ cardRequests[q].card = x
      BY <2>2, <1>1, <1>2 DEF Holds, HoldsRequest
    <3>2. q \notin contested => cardRequests[q].status = d.to /\ \A j \in Deciding(q) : j = k
      BY <2>2, <3>1, <1>1 DEF CardInv, DecisionsKnow
    <3>3. q \notin contested => \A j : j \notin Deciding(q)'
      BY <3>2, <1>16
    <3>4. OpenFor(x, q)'
      BY <2>2, <3>1, <3>2, <3>3, <1>7 DEF OpenFor
    <3> QED
      BY <3>4
  <2>3. ASSUME cards[x].status \in WaitingStatus,
               x = y => d.op = "decide" /\ d.seen.status \notin WaitingStatus
        PROVE  \/ \E r \in DOMAIN cardRequests : OpenFor(x, r)'
               \/ \E j \in CardCalls : CaredFor(x, j)'
    <3>1. ASSUME NEW r \in DOMAIN cardRequests, OpenFor(x, r) PROVE OpenFor(x, r)'
      BY <3>1, <1>7, <1>16 DEF OpenFor
    <3>2. ~CaredFor(x, k)
      BY <2>3, <1>1, <1>2 DEF CaredFor
    <3>3. ASSUME NEW j \in CardCalls, CaredFor(x, j), j # k PROVE CaredFor(x, j)'
      BY <3>3, <1>9 DEF CaredFor
    <3> QED
      BY <2>3, <3>1, <3>2, <3>3 DEF CardInv, WaitingHasCause
  <2>4. x # y => cards'[x] = cards[x]
    BY <1>10
  <2> QED
    BY <2>1, <2>2, <2>3, <2>4, <1>3, <1>4, <1>10
<1> QED
  BY <1>7, <1>12, <1>13, <1>14, <1>15, <1>17, <1>18, <1>19, <1>20 DEF CardInv

LEMMA CardInvNext ==
    ASSUME CardInv, NEW k \in CardCalls, CardNextOf(k) PROVE CardInv'
<1>1. ASSUME NEW q \in DOMAIN cardRequests, NEW to \in SentDecisions, Decide(k, q, to) PROVE CardInv'
  BY <1>1, CardInvDecide
<1>2. ASSUME NEW x \in DOMAIN cards, Lock(k, x) \/ Unlock(k, x) \/ RequestReplacement(k, x)
      PROVE  CardInv'
  BY <1>2, CardInvLocks
<1>3. CASE CardStep(k)
  BY <1>3, CardInvFindCard, CardInvInsertCard, CardInvStoreRequest, CardInvCheckReplacements,
     CardInvReadCardOfRequest, CardInvSaveCardRequest, CardInvSaveCard, CardInvAddCardEvent,
     CardInvNotifyCardholder DEF CardStep
<1> QED
  BY <1>1, <1>2, <1>3, CardInvAskForCard, CardInvCallThrows DEF CardNextOf

LEMMA CardInvInit == ASSUME CardInit PROVE CardInv
<1>1. /\ cards = << >> /\ cardRequests = << >> /\ cardEvents = << >> /\ cardTold = {} /\ contested = {}
      /\ \A k \in CardCalls : cardCall[k] = Idle
      /\ cardCall \in [CardCalls -> CardCall \cup {Idle, Done}]
  BY DEF CardInit
<1>2. DOMAIN cards = {} /\ DOMAIN cardRequests = {}
  BY <1>1
<1>3. Len(cards) <= MaxCards /\ Len(cardRequests) <= MaxCardRequests
  BY <1>1, CardNumbers
<1>4. cards \in Seq(Card) /\ cardRequests \in Seq(CardRequest) /\ cardEvents \in [{} -> SUBSET CardEventType]
  BY <1>1
<1>5. CardTypeOK
  BY <1>1, <1>2, <1>3, <1>4 DEF CardTypeOK
<1>6. \A k \in CardCalls : Holds(cardCall[k]) /\ Changes(k, cardCall[k])
  BY <1>1, CardShapes DEF Holds, Changes
<1>7. DatesAreOfSaves /\ WaitingHasCause /\ CompletedIsIssued /\ LockedIsDated
  BY <1>2 DEF DatesAreOfSaves, WaitingHasCause, CompletedIsIssued, LockedIsDated
<1>8. DecisionsKnow
  BY <1>1, CardShapes DEF DecisionsKnow
<1> QED
  BY <1>2, <1>5, <1>6, <1>7, <1>8 DEF CardInv

\* The invariant says more than what is promised of the cards.
LEMMA CardInvMatches == ASSUME CardInv PROVE CardsMatchRequests
<1>1. ASSUME NEW x \in DOMAIN cards, cards[x].status \in {"pending_issue", "replacement_requested"}
      PROVE  \/ \E q \in DOMAIN cardRequests :
                   /\ cardRequests[q].card = x
                   /\ cardRequests[q].status \notin {"rejected", "completed"} \/ q \in contested
             \/ \E k \in CardCalls : /\ cardCall[k].at \in {"store", "save", "dead"}
                                     /\ cardCall[k].card = x
  BY <1>1 DEF CardInv, WaitingHasCause, WaitingStatus, OpenFor, CaredFor, Closing
<1>2. ASSUME NEW q \in DOMAIN cardRequests, cardRequests[q].status = "completed"
      PROVE  \/ cards[cardRequests[q].card].issuedAt # 0
             \/ \E k \in CardCalls : /\ cardCall[k].at \in {"save", "dead"}
                                     /\ cardCall[k].request = q
                                     /\ cardCall[k].to = "completed"
  BY <1>2 DEF CardInv, CompletedIsIssued
<1> QED
  BY <1>1, <1>2 DEF CardsMatchRequests

-----------------------------------------------------------------------------
(* The desk: its three parts share no document.                                *)

\* A step of one part leaves the others as they are.
LEMMA ServiceInvStays == ASSUME ServiceInv, UNCHANGED serviceVars PROVE ServiceInv'
  BY DEF serviceVars, ServiceInv, ServiceTypeOK, CallsAreDated, DatesTellStatus, Dated

LEMMA CardInvStays == ASSUME CardInv, UNCHANGED cardVars PROVE CardInv'
  BY DEF cardVars, CardInv, CardTypeOK, Holds, HoldsCard, HoldsRequest, Changes, DatesAreOfSaves,
     DecisionsKnow, Deciding, WaitingHasCause, OpenFor, CaredFor, CompletedIsIssued, LockedIsDated

LEMMA FeedInvStays == ASSUME FeedInv, UNCHANGED feedVars PROVE FeedInv'
  BY DEF feedVars, FeedInv, FeedTypeOK, OverlapsAreSeen, LonelyCalls, FeedUnderWay, LeftToDo,
     StillLands, Reconciled

LEMMA LoadsAreCalls ==
    ASSUME load \in DeskLoads
    PROVE  /\ \A k \in 1..load.service : k \in ServiceCalls
           /\ \A k \in 1..load.cards : k \in CardCalls
           /\ \A k \in 1..load.feed : k \in FeedCalls
<1>1. /\ load.service \in 0..MaxServiceCalls /\ load.cards \in 0..MaxCardCalls
      /\ load.feed \in 0..MaxFeedCalls
  BY DeskConstants
<1>2. MaxServiceCalls \in Nat /\ MaxCardCalls \in Nat /\ MaxFeedCalls \in Nat
  BY ServiceConstants, CardNumbers, FeedNumbers
<1> QED
  BY <1>1, <1>2 DEF ServiceCalls, CardCalls, FeedCalls

LEMMA DeskInvNext == ASSUME DeskInv, [Next]_vars PROVE DeskInv'
<1>1. ASSUME NEW k \in 1..load.service, ServiceNextOf(k), UNCHANGED <<cardVars, feedVars>>, load' = load
      PROVE  DeskInv'
  BY <1>1, LoadsAreCalls, ServiceInvNext, CardInvStays, FeedInvStays DEF DeskInv
<1>2. ASSUME NEW k \in 1..load.cards, CardNextOf(k), UNCHANGED <<serviceVars, feedVars>>, load' = load
      PROVE  DeskInv'
  BY <1>2, LoadsAreCalls, CardInvNext, ServiceInvStays, FeedInvStays DEF DeskInv
<1>3. ASSUME (\E k \in 1..load.feed : FeedNextOf(k)) \/ DayPasses,
             UNCHANGED <<serviceVars, cardVars>>, load' = load
      PROVE  DeskInv'
  <2>1. (\E k \in FeedCalls : FeedNextOf(k)) \/ DayPasses
    BY <1>3, LoadsAreCalls DEF DeskInv
  <2>2. FeedInv'
    BY <2>1, FeedInvNext DEF DeskInv
  <2> QED
    BY <1>3, <2>2, ServiceInvStays, CardInvStays DEF DeskInv
<1>4. CASE UNCHANGED vars
  BY <1>4, ServiceInvStays, CardInvStays, FeedInvStays DEF vars, DeskInv
<1> QED
  BY <1>1, <1>2, <1>3, <1>4 DEF Next

(* The desk's invariant: besides the shapes, what every request under way knows  *)
(* of the documents it read and has yet to save, so that no order of the saves, *)
(* and no call that dies between two of them, leaves records that disagree.    *)
THEOREM DeskInvariance == Spec => []DeskInv
<1>1. Init => DeskInv
  BY ServiceInvInit, CardInvInit, FeedInvInit DEF Init, DeskInv
<1>2. DeskInv /\ [Next]_vars => DeskInv'
  BY DeskInvNext
<1> QED
  BY <1>1, <1>2, PTL DEF Spec

(* The documents, events, calls and ghosts of the desk keep their shapes.      *)
THEOREM DeskTyping == Spec => []DeskTypeOK
<1>1. DeskInv => DeskTypeOK
  BY DEF DeskInv, ServiceInv, CardInv, FeedInv, DeskTypeOK
<1> QED
  BY <1>1, DeskInvariance, PTL

(* The dates of a request and of a card tell their status, a card waits only     *)
(* for a request that is open, a completed request has its card issued, and a   *)
(* generation that had no company leaves the recommendations the rules make.   *)
THEOREM DeskRecordsStayInAgreement == Spec => []DeskRecordsAgree
<1>1. DeskInv => DeskRecordsAgree
  BY CardInvMatches, FeedInvIsCurrent DEF DeskInv, ServiceInv, CardInv, DeskRecordsAgree
<1> QED
  BY <1>1, DeskInvariance, PTL

(* What the member dismissed or acted on is not offered again before its time    *)
(* is up, but by a call that had company.                                      *)
THEOREM DismissalsStay == Spec => DismissalsHold
<1> DEFINE Stays == \A o \in Offers :
                       Suppressed(recs[o], day) /\ recs'[o].status \in ActiveStatus =>
                          \E k \in overlapped : feedCall'[k] # feedCall[k]
<1>1. ASSUME DeskInv, [Next]_vars PROVE [Stays]_feedVars
  <2>1. CASE (\E k \in 1..load.feed : FeedNextOf(k)) \/ DayPasses
    <3>1. (\E k \in FeedCalls : FeedNextOf(k)) \/ DayPasses
      BY <1>1, <2>1, LoadsAreCalls DEF DeskInv
    <3>2. FeedInv
      BY <1>1 DEF DeskInv
    <3> QED
      BY <3>1, <3>2, DismissalHolds
  <2>2. CASE ~((\E k \in 1..load.feed : FeedNextOf(k)) \/ DayPasses)
    <3>1. UNCHANGED feedVars
      BY <1>1, <2>2 DEF Next, vars
    <3> QED
      BY <3>1
  <2> QED
    BY <2>1, <2>2
<1>2. DeskInv /\ [Next]_vars => [Stays]_feedVars
  BY <1>1
<1> QED
  BY <1>2, DeskInvariance, PTL DEF Spec, DismissalsHold
=============================================================================
