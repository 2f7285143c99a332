--------------------------------- MODULE Cards ---------------------------------
(***************************************************************************)
(* The cards of one member, and the requests for them the staff decides:   *)
(* CardManagementService.                                                  *)
(*                                                                         *)
(* The card and the request are two documents, saved one after the other   *)
(* without a transaction, and after them the card event, the audit row and *)
(* the notification.  save() sends the changed fields only and compares no *)
(* version (versionKey: false).                                            *)
(***************************************************************************)
EXTENDS Naturals, Sequences, FiniteSets

CONSTANTS
    MaxCards,         \* bound: cards created
    MaxCardRequests,  \* bound: card requests created
    MaxCardCalls,     \* bound: HTTP calls, numbered in the order they arrive
    MaxCardCallsAtOnce, \* bound: HTTP calls under way at once
    SentDecisions     \* bound: the statuses staff puts requests in

VARIABLES
    cards,         \* cards, in the order of creation
    cardRequests,  \* card_requests, in the order of creation
    cardEvents,    \* cardEvents[c]: the types of event card_events has for c
    cardTold,      \* the statuses the member was notified of, <<request, status>>
    cardCall,      \* the calls
    contested      \* ghost: requests two decisions were under way on at once

cardVars == <<cards, cardRequests, cardEvents, cardTold, cardCall, contested>>

-----------------------------------------------------------------------------
CardCalls == 1..MaxCardCalls

CardStatus == {"pending_issue", "active", "locked", "replacement_requested", "blocked"}
CardRequestType == {"new_issue", "replacement"}
CardRequestStatus == {"submitted", "under_review", "approved", "rejected", "completed"}
CardEventType == {"requested", "locked", "unlocked", "replacement_requested",
                  "request_status_updated"}

ASSUME CardConstants ==
    /\ MaxCards \in Nat /\ MaxCardRequests \in Nat /\ MaxCardCalls \in Nat
    /\ MaxCardCallsAtOnce \in Nat
    /\ SentDecisions \subseteq CardRequestStatus

\* A date is the call that took it; 0 is a date that is not set.
Card == [status: CardStatus, issuedAt: 0..MaxCardCalls, lockedAt: 0..MaxCardCalls]
CardRequest == [card: 1..MaxCards, type: CardRequestType, status: CardRequestStatus]

NewCard == [status |-> "pending_issue", issuedAt |-> 0, lockedAt |-> 0]

Idle == [at |-> "idle"]
Done == [at |-> "done"]
CardCall ==
    [at: {"find", "insert", "store", "check", "card", "request", "save", "event", "notify", "dead"},
     op: {"create", "lock", "unlock", "replace", "decide"},
     card: 0..MaxCards,              \* the card, once it is known
     seen: Card, next: Card,         \* the card as read, and as the call changed it
     request: 0..MaxCardRequests,    \* the request, once it is known
     was: CardRequestStatus,         \* its status as read
     to: CardRequestStatus,          \* and as the call changes it
     type: CardRequestType]

Started == [at |-> "find", op |-> "create", card |-> 0, seen |-> NewCard, next |-> NewCard,
            request |-> 0, was |-> "submitted", to |-> "submitted", type |-> "replacement"]

CardTypeOK ==
    /\ cards \in Seq(Card) /\ Len(cards) <= MaxCards
    /\ cardRequests \in Seq(CardRequest) /\ Len(cardRequests) <= MaxCardRequests
    /\ cardEvents \in [DOMAIN cards -> SUBSET CardEventType]
    /\ cardTold \subseteq (DOMAIN cardRequests) \X CardRequestStatus
    /\ cardCall \in [CardCalls -> CardCall \cup {Idle, Done}]
    /\ contested \subseteq DOMAIN cardRequests

CardInit ==
    /\ cards = << >>
    /\ cardRequests = << >>
    /\ cardEvents = << >>
    /\ cardTold = {}
    /\ cardCall = [k \in CardCalls |-> Idle]
    /\ contested = {}

UnderWay == {k \in CardCalls : cardCall[k].at \notin {"idle", "done", "dead"}}

CardCallArrives(k) ==
    /\ cardCall[k] = Idle /\ \A j \in 1..(k - 1) : cardCall[j] # Idle
    /\ Cardinality(UnderWay) < MaxCardCallsAtOnce

Pending(q) == cardRequests[q].status \in {"submitted", "under_review"}

\* save() of a document that was read as old and now holds new, over stored.
SavedCard(stored, old, new) ==
    [f \in DOMAIN stored |-> IF old[f] = new[f] THEN stored[f] ELSE new[f]]

-----------------------------------------------------------------------------
\* createRequest: no request of this type is pending for the member.
AskForCard(k, t) ==
    /\ CardCallArrives(k)
    /\ \A q \in DOMAIN cardRequests : cardRequests[q].type = t => ~Pending(q)
    /\ cardCall' = [cardCall EXCEPT ![k] = [Started EXCEPT !.type = t]]
    /\ UNCHANGED <<cards, cardRequests, cardEvents, cardTold, contested>>

\* createRequest: one of the member's cards that is not blocked, or none.
FindCard(k) ==
    LET usable == {c \in DOMAIN cards : cards[c].status # "blocked"}
    IN  /\ cardCall[k].at = "find"
        /\ \/ \E c \in usable : cardCall' = [cardCall EXCEPT ![k].at = "store", ![k].card = c]
           \/ /\ usable = {}
              /\ cardCall' = [cardCall EXCEPT ![k].at = "insert"]
        /\ UNCHANGED <<cards, cardRequests, cardEvents, cardTold, contested>>

InsertCard(k) ==
    /\ cardCall[k].at = "insert"
    /\ Len(cards) < MaxCards
    /\ cards' = Append(cards, NewCard)
    /\ cardEvents' = Append(cardEvents, {})
    /\ cardCall' = [cardCall EXCEPT ![k].at = "store", ![k].card = Len(cards) + 1]
    /\ UNCHANGED <<cardRequests, cardTold, contested>>

\* Mutation of StoreRequest: the request is stored without its card.
StoreRequestNoCard(k) ==
    /\ cardCall[k].at = "store"
    /\ Len(cardRequests) < MaxCardRequests
    /\ cardRequests' = Append(cardRequests, [card |-> 0, type |-> cardCall[k].type,
                                             status |-> "submitted"])
    /\ cardCall' = [cardCall EXCEPT ![k].at = "event", ![k].request = Len(cardRequests) + 1]
    /\ UNCHANGED <<cards, cardEvents, cardTold, contested>>

\* createRequest and requestReplacement: the insert of the request
StoreRequest(k) ==
    /\ cardCall[k].at = "store"
    /\ Len(cardRequests) < MaxCardRequests
    /\ cardRequests' = Append(cardRequests, [card |-> cardCall[k].card,
                                             type |-> cardCall[k].type,
                                             status |-> "submitted"])
    /\ cardCall' = [cardCall EXCEPT ![k].at = "event", ![k].request = Len(cardRequests) + 1]
    /\ UNCHANGED <<cards, cardEvents, cardTold, contested>>

-----------------------------------------------------------------------------
ReadCard(k, op, c, next) ==
    /\ CardCallArrives(k)
    /\ cardCall' = [cardCall EXCEPT ![k] = [Started EXCEPT
          !.at = IF op = "replace" THEN "check" ELSE "save", !.op = op, !.card = c,
          !.seen = cards[c], !.next = next]]
    /\ UNCHANGED <<cards, cardRequests, cardEvents, cardTold, contested>>

Lock(k, c) ==
    /\ cards[c].status # "locked"
    /\ ReadCard(k, "lock", c, [cards[c] EXCEPT !.status = "locked", !.lockedAt = k])

Unlock(k, c) ==
    /\ cards[c].status = "locked"
    /\ ReadCard(k, "unlock", c, [cards[c] EXCEPT !.status = "active", !.lockedAt = 0])

\* requestReplacement: the card is read, then the requests for it are.
RequestReplacement(k, c) ==
    ReadCard(k, "replace", c, [cards[c] EXCEPT !.status = "replacement_requested"])

CheckReplacements(k) ==
    LET pending == {q \in DOMAIN cardRequests : /\ cardRequests[q].card = cardCall[k].card
                                                /\ cardRequests[q].type = "replacement"
                                                /\ Pending(q)}
    IN  /\ cardCall[k].at = "check"
        /\ cardCall' = [cardCall EXCEPT ![k] =
              IF pending = {} THEN [@ EXCEPT !.at = "save"] ELSE Done]
        /\ UNCHANGED <<cards, cardRequests, cardEvents, cardTold, contested>>

\* card.save(), of lock, unlock, requestReplacement and updateRequestStatus
SaveCard(k) ==
    LET c == cardCall[k].card
    IN  /\ cardCall[k].at = "save"
        /\ cards' = [cards EXCEPT ![c] = SavedCard(@, cardCall[k].seen, cardCall[k].next)]
        /\ cardCall' = [cardCall EXCEPT ![k].at =
                           IF cardCall[k].op = "replace" THEN "store" ELSE "event"]
        /\ UNCHANGED <<cardRequests, cardEvents, cardTold, contested>>

-----------------------------------------------------------------------------
Deciding(q) == {k \in CardCalls : /\ cardCall[k].at \in {"card", "request", "save"}
                                  /\ cardCall[k].op = "decide"
                                  /\ cardCall[k].request = q}

\* updateRequestStatus, by staff: any status, whatever the request's is.
Decide(k, q, to) ==
    /\ CardCallArrives(k)
    /\ cardCall' = [cardCall EXCEPT ![k] =
          [Started EXCEPT !.at = "card", !.op = "decide", !.request = q, !.to = to,
                          !.was = cardRequests[q].status, !.type = cardRequests[q].type]]
    /\ contested' = IF Deciding(q) = {} THEN contested ELSE contested \cup {q}
    /\ UNCHANGED <<cards, cardRequests, cardEvents, cardTold>>

\* Mutation of DecidedCard: a rejected request leaves its card waiting.
DecidedCardIgnoresRejection(k, card, t, to) ==
    IF to = "completed" THEN [card EXCEPT !.status = "active", !.issuedAt = k]
    ELSE [card EXCEPT !.status = IF t = "replacement" THEN "replacement_requested"
                                 ELSE "pending_issue"]

\* What a decision on a request of type t makes of its card.
DecidedCard(k, card, t, to) ==
    IF to = "completed" THEN [card EXCEPT !.status = "active", !.issuedAt = k]
    ELSE [card EXCEPT !.status = IF to = "rejected" THEN "blocked"
                                 ELSE IF t = "replacement" THEN "replacement_requested"
                                 ELSE "pending_issue"]

\* updateRequestStatus: the card is read, before the request is saved.
ReadCardOfRequest(k) ==
    LET c == cardRequests[cardCall[k].request].card
    IN  /\ cardCall[k].at = "card"
        /\ cardCall' = [cardCall EXCEPT
              ![k].at = "request", ![k].card = c, ![k].seen = cards[c],
              ![k].next = DecidedCard(k, cards[c], cardCall[k].type, cardCall[k].to)]
        /\ UNCHANGED <<cards, cardRequests, cardEvents, cardTold, contested>>

SaveCardRequest(k) ==
    LET d == cardCall[k]
    IN  /\ d.at = "request"
        /\ cardRequests' = [cardRequests EXCEPT
              ![d.request].status = IF d.was = d.to THEN @ ELSE d.to]
        /\ cardCall' = [cardCall EXCEPT ![k].at = "save"]
        /\ UNCHANGED <<cards, cardEvents, cardTold, contested>>

-----------------------------------------------------------------------------
EventOf == [create |-> "requested", lock |-> "locked", unlock |-> "unlocked",
            replace |-> "replacement_requested", decide |-> "request_status_updated"]

\* The card event; only createRequest and updateRequestStatus notify after it.
AddCardEvent(k) ==
    /\ cardCall[k].at = "event"
    /\ cardEvents' = [cardEvents EXCEPT ![cardCall[k].card] = @ \cup {EventOf[cardCall[k].op]}]
    /\ cardCall' = [cardCall EXCEPT ![k] =
          IF @.op \in {"create", "decide"} THEN [@ EXCEPT !.at = "notify"] ELSE Done]
    /\ UNCHANGED <<cards, cardRequests, cardTold, contested>>

\* The audit row, and createNotification.
NotifyCardholder(k) ==
    /\ cardCall[k].at = "notify"
    /\ cardTold' = cardTold \cup {<<cardCall[k].request, cardCall[k].to>>}
    /\ cardCall' = [cardCall EXCEPT ![k] = Done]
    /\ UNCHANGED <<cards, cardRequests, cardEvents, contested>>

\* The next read or write throws, or the server stops: in one call of a behaviour.
CardCallThrows(k) ==
    /\ k \in UnderWay
    /\ \A j \in CardCalls : cardCall[j].at # "dead"
    /\ cardCall' = [cardCall EXCEPT ![k].at = "dead"]
    /\ UNCHANGED <<cards, cardRequests, cardEvents, cardTold, contested>>

CardStep(k) ==
    \/ FindCard(k) \/ InsertCard(k) \/ StoreRequest(k)
    \/ CheckReplacements(k) \/ ReadCardOfRequest(k) \/ SaveCardRequest(k)
    \/ SaveCard(k) \/ AddCardEvent(k) \/ NotifyCardholder(k)

CardNextOf(k) ==
    \/ \E t \in CardRequestType : AskForCard(k, t)
    \/ \E c \in DOMAIN cards : Lock(k, c) \/ Unlock(k, c) \/ RequestReplacement(k, c)
    \/ \E q \in DOMAIN cardRequests, to \in SentDecisions : Decide(k, q, to)
    \/ CardStep(k)
    \/ CardCallThrows(k)

-----------------------------------------------------------------------------
(* A card waits for the bank only while a request for it is open, whatever  *)
(* member and staff do in between (createRequest, requestReplacement,       *)
(* updateRequestStatus): otherwise the member waits for a card nobody is to *)
(* issue.  And a request is completed only with its card issued.  A call    *)
(* between its two saves, or that died there, and two staff deciding the    *)
(* same request at once are the exceptions.                                 *)
CardsMatchRequests ==
    /\ \A c \in DOMAIN cards :
          cards[c].status \in {"pending_issue", "replacement_requested"} =>
              \/ \E q \in DOMAIN cardRequests :
                    /\ cardRequests[q].card = c
                    /\ cardRequests[q].status \notin {"rejected", "completed"} \/ q \in contested
              \/ \E k \in CardCalls : /\ cardCall[k].at \in {"store", "save", "dead"}
                                      /\ cardCall[k].card = c
    /\ \A q \in DOMAIN cardRequests :
          cardRequests[q].status = "completed" =>
              \/ cards[cardRequests[q].card].issuedAt # 0
              \/ \E k \in CardCalls : /\ cardCall[k].at \in {"save", "dead"}
                                      /\ cardCall[k].request = q
                                      /\ cardCall[k].to = "completed"

(* A locked card tells when it was locked and has the event of it, however  *)
(* lock, unlock and the staff's decisions race over the card (lock, unlock, *)
(* updateRequestStatus).                                                    *)
LockedIsDated ==
    \A c \in DOMAIN cards :
        cards[c].status = "locked" =>
            /\ cards[c].lockedAt # 0
            /\ \/ "locked" \in cardEvents[c]
               \/ \E k \in CardCalls : /\ cardCall[k].at \in {"event", "dead"}
                                       /\ cardCall[k].card = c /\ cardCall[k].op = "lock"

(* Again and again the member has been told of the decision that each       *)
(* request is found in, unless a call dies (updateRequestStatus).           *)
DecisionsAreTold ==
    []<>(\/ \A q \in DOMAIN cardRequests :
               \/ cardRequests[q].status = "submitted"
               \/ <<q, cardRequests[q].status>> \in cardTold
         \/ \E k \in CardCalls : cardCall[k].at = "dead")
=============================================================================
