---------------------------- MODULE Reminders_proofs ----------------------------
(* Proofs about the reminder campaigns and the Telegram subscriptions under them: *)
(* for any members, chats, link codes and /link messages, any number of sends of  *)
(* the campaign at once, deliveries that fail, and restarts of the server.        *)
EXTENDS Reminders, SequenceTheorems, TLAPS

-----------------------------------------------------------------------------
(* The subscriptions.                                                          *)

(* Messages in flight together over one chat, or of one member, contest it.    *)
RivalsContest ==
    \A k, l \in Links :
        /\ k # l /\ InFlight(k) /\ InFlight(l)
        /\ link[k].chat = link[l].chat \/ Owner(k) = Owner(l)
        => link[k].chat \in contested

(* Between its two writes a message finds the chat taken from all others.      *)
OthersLeft ==
    \A l \in Links :
        link[l].at = "save" /\ link[l].chat \notin contested =>
            \A m \in Members : m # Owner(l) => member[m].chat # link[l].chat

(* What a message has read is still so, unless it is touched; and only rivals   *)
(* can have given the member another chat.                                      *)
ReadIsCurrent ==
    \A l \in Links :
        link[l].at \in {"others", "save"} =>
            /\ l \notin touched => member[Owner(l)] = link[l].read
            /\ member[Owner(l)].chat \in {link[l].read.chat, NoChat} \cup contested

(* A chat that wants no reminders belongs to nobody who gets them.             *)
QuietGetsNone ==
    \A m \in Members : member[m].chat \in quiet \ contested => ~MayTelegram(member[m])

TelegramInv ==
    /\ TelegramTypeOK
    /\ RivalsContest
    /\ OthersLeft
    /\ ReadIsCurrent
    /\ QuietGetsNone
    /\ LinksHold

-----------------------------------------------------------------------------
(* The sends.                                                                  *)

\* The entry i of send s is told truly by what was logged of it.
ToldTruly(s, i, said) ==
    /\ said = "sent" => Delivered(s, i)
    /\ Delivered(s, i) => said = "sent" \/ i \in unheard[s]

LogsTell(s, logs) == \A i \in DOMAIN logs : ToldTruly(s, i, logs[i])

\* No push of the entries from i on is in a notification center yet.
NoRecordFrom(s, i) ==
    \A j \in Entries(campaign.targets) :
        i <= j /\ ChannelOf(j) = "mobile_push" => <<s, TargetOf(j), "sent">> \notin records

(* What send s has taken, recorded, logged and stored by the step it is at.    *)
Progress(s) ==
    LET d == send[s]
        all == Len(campaign.targets) * Len(Channels)
    IN  /\ d.at \in {"idle", "members", "mark"} =>
              took[s] = {} /\ \A m \in Members, o \in Outcomes : <<s, m, o>> \notin records
        /\ d.at = "mark" => d.entry = 1 /\ d.logs = << >>
        /\ d.at \in {"entry", "record"} =>
              /\ d.entry \in 1..all
              /\ Len(d.logs) = d.entry - 1
        /\ d.at = "entry" => took[s] \subseteq 1..(d.entry - 1) /\ NoRecordFrom(s, d.entry)
        /\ d.at = "record" =>
              /\ took[s] \subseteq 1..d.entry /\ NoRecordFrom(s, d.entry)
              /\ d.pushed = "sent" => d.entry \in took[s]
              /\ ChannelOf(d.entry) = "mobile_push"
        /\ d.at \in {"entry", "record", "logs", "close", "done"} => LogsTell(s, d.logs)
        /\ d.at \in {"logs", "close", "done"} => Len(d.logs) = all
        /\ d.at \notin {"close", "done", "dead"} => rows[s] = << >>
        /\ d.at \in {"close", "done"} => rows[s] = d.logs

(* What is stored of send s tells its deliveries, and Telegram took only what   *)
(* the members it had seen asked for.                                           *)
StoredTell(s) ==
    rows[s] # << >> => /\ Len(rows[s]) = Len(campaign.targets) * Len(Channels)
                       /\ LogsTell(s, rows[s])

SeenAsked(s) ==
    /\ took[s] # {} => send[s] \in Send
    /\ send[s] \in Send =>
          /\ \A i \in took[s] :
                ChannelOf(i) = "telegram" => MayTelegram(send[s].seen[TargetOf(i)])
          /\ \A m \in Members :
                send[s].seen[m].chat \in send[s].silenced \ contested
                    => ~MayTelegram(send[s].seen[m])

SendInv(s) ==
    /\ send[s] # IdleSend => campaign.status # "none"
    /\ Progress(s) /\ StoredTell(s) /\ SeenAsked(s)

CampaignInv ==
    /\ campaign.status # "none" => campaign.targets # << >> /\ IsInjective(campaign.targets)
    /\ \A s \in Sends : SendInv(s)
    /\ StatusIsOfASend

ReminderInv == TypeOK /\ TelegramInv /\ CampaignInv
-----------------------------------------------------------------------------
(* What the shapes of a message say by the step it is at.                      *)
LEMMA LinkKinds ==
    ASSUME TelegramTypeOK, NEW l \in Links
    PROVE  /\ link[l] # IdleLink => link[l].code \in Codes /\ link[l].chat \in Chats
                                    /\ Owner(l) \in Members
           /\ link[l].at \in {"idle", "code", "dead", "others", "save", "use", "done"}
           /\ link[l].at = "idle" <=> link[l] = IdleLink
           /\ link[l].at = "code" => link[l] \in NewLink
           /\ link[l].at \in {"others", "save", "use", "done"} => link[l] \in ReadLink
           /\ link[l] \in ReadLink => link[l].read \in Subscription
<1>1. link[l] \in {IdleLink} \cup NewLink \cup ReadLink
  BY DEF TelegramTypeOK
<1>2. CASE link[l] = IdleLink
  BY <1>2 DEF IdleLink, ReadLink, NewLink
<1>3. CASE link[l] \in NewLink
  BY <1>3, TelegramConstants DEF IdleLink, NewLink, Owner, ReadLink
<1>4. CASE link[l] \in ReadLink
  BY <1>4, TelegramConstants DEF IdleLink, ReadLink, Owner
<1> QED
  BY <1>1, <1>2, <1>3, <1>4

\* A message that is moved on keeps its code and its chat.
LEMMA LinkMoves ==
    ASSUME TelegramTypeOK, NEW l \in Links, NEW at \in {"save", "use", "done", "dead"},
           link' = [link EXCEPT ![l].at = at],
           link[l] \in ReadLink \/ (link[l] \in NewLink /\ at = "dead")
    PROVE  /\ link' \in [Links -> {IdleLink} \cup NewLink \cup ReadLink]
           /\ \A k \in Links : k # l => link'[k] = link[k]
           /\ link'[l].at = at /\ link'[l].code = link[l].code /\ link'[l].chat = link[l].chat
           /\ link[l] \in ReadLink => link'[l].read = link[l].read
<1>1. link \in [Links -> {IdleLink} \cup NewLink \cup ReadLink]
  BY DEF TelegramTypeOK
<1>2. link'[l] = [link[l] EXCEPT !.at = at] /\ \A k \in Links : k # l => link'[k] = link[k]
  BY <1>1
<1>3. CASE link[l] \in ReadLink
  <2>1. [link[l] EXCEPT !.at = at] \in ReadLink
    BY <1>3 DEF ReadLink
  <2> QED
    BY <1>1, <1>2, <1>3, <2>1 DEF ReadLink
<1>4. CASE link[l] \in NewLink /\ at = "dead"
  <2>1. [link[l] EXCEPT !.at = at] \in NewLink
    BY <1>4 DEF NewLink
  <2>2. link[l] \notin ReadLink
    BY <1>4 DEF NewLink, ReadLink
  <2> QED
    BY <1>1, <1>2, <1>4, <2>1, <2>2 DEF NewLink
<1> QED
  BY <1>3, <1>4

LEMMA TelegramInvInit == ASSUME Init PROVE TelegramInv
<1> USE TelegramConstants DEF Init, TelegramInit
<1>1. TelegramTypeOK
  BY DEF TelegramTypeOK, Subscription, CodeStates
<1>2. \A l \in Links : link[l] = IdleLink /\ link[l].at = "idle"
  BY DEF IdleLink
<1>3. RivalsContest /\ OthersLeft /\ ReadIsCurrent
  BY <1>2 DEF RivalsContest, InFlight, OthersLeft, ReadIsCurrent
<1>4. QuietGetsNone
  BY DEF QuietGetsNone
<1>5. ChatsAreExclusive
  BY DEF ChatsAreExclusive
<1>6. LinkTakesEffect
  BY <1>2 DEF LinkTakesEffect
<1> QED
  BY <1>1, <1>3, <1>4, <1>5, <1>6 DEF TelegramInv, LinksHold

\* What is said of the subscriptions does not look at the codes.
LEMMA TelegramInvCodes ==
    ASSUME TelegramInv, code' \in [Codes -> CodeStates],
           UNCHANGED <<member, link, commands, contested, touched, quiet>>
    PROVE  TelegramInv'
  BY DEF TelegramInv, TelegramTypeOK, RivalsContest, OthersLeft, ReadIsCurrent, QuietGetsNone,
     LinksHold, ChatsAreExclusive, LinkTakesEffect, InFlight, Owner, Linked, MayTelegram

\* One message moves on, and no subscription changes.
LEMMA TelegramInvMoves ==
    ASSUME TelegramInv, NEW l \in Links,
           code' \in [Codes -> CodeStates],
           UNCHANGED <<member, commands, contested, touched, quiet>>,
           link' \in [Links -> {IdleLink} \cup NewLink \cup ReadLink],
           \A k \in Links : k # l => link'[k] = link[k],
           InFlight(l),
           link'[l].code = link[l].code, link'[l].chat = link[l].chat,
           link'[l].at # "save",
           link'[l].at = "others" => link'[l].read = member[Owner(l)],
           link'[l].at \in {"use", "done"} => link[l].at = "use"
    PROVE  TelegramInv'
<1> USE DEF TelegramInv
<1>1. TelegramTypeOK'
  BY DEF TelegramTypeOK
<1>2. /\ \A k \in Links : Owner(k)' = Owner(k) /\ link'[k].chat = link[k].chat
      /\ \A k \in Links : InFlight(k)' => InFlight(k)
  BY DEF Owner, InFlight
<1>3. RivalsContest'
  BY <1>2 DEF RivalsContest
<1>4. OthersLeft'
  BY <1>2 DEF OthersLeft
<1>5. ReadIsCurrent'
  BY <1>2 DEF ReadIsCurrent
<1>6. QuietGetsNone'
  BY DEF QuietGetsNone, MayTelegram
<1>7. ChatsAreExclusive'
  BY DEF LinksHold, ChatsAreExclusive
<1>8. LinkTakesEffect'
  BY <1>2 DEF LinksHold, LinkTakesEffect, Linked
<1> QED
  BY <1>1, <1>3, <1>4, <1>5, <1>6, <1>7, <1>8 DEF LinksHold

LEMMA TelegramInvReadMember ==
    ASSUME TelegramInv, NEW l \in Links, ReadMember(l) PROVE TelegramInv'
<1>1. /\ link[l].at = "code" /\ link[l] \in NewLink /\ Owner(l) \in Members
      /\ link[l].code \in Codes /\ link[l].chat \in Chats
  BY LinkKinds DEF TelegramInv, ReadMember, IdleLink
<1> DEFINE next == [at |-> "others", code |-> link[l].code, chat |-> link[l].chat,
                    read |-> member[Owner(l)]]
<1>2. next \in ReadLink
  BY <1>1 DEF ReadLink, TelegramInv, TelegramTypeOK
<1>3. /\ link' = [link EXCEPT ![l] = next]
      /\ UNCHANGED <<member, code, commands, contested, touched, quiet>>
  BY DEF ReadMember
<1>4. /\ next.at = "others" /\ next.code = link[l].code /\ next.chat = link[l].chat
      /\ next.read = member[Owner(l)]
  OBVIOUS
<1> HIDE DEF next
<1>5. /\ link' \in [Links -> {IdleLink} \cup NewLink \cup ReadLink]
      /\ \A k \in Links : k # l => link'[k] = link[k]
      /\ link'[l] = next
  BY <1>2, <1>3 DEF TelegramInv, TelegramTypeOK
<1>6. InFlight(l) /\ code' \in [Codes -> CodeStates]
  BY <1>1, <1>3 DEF InFlight, TelegramInv, TelegramTypeOK
<1> QED
  BY <1>3, <1>4, <1>5, <1>6, TelegramInvMoves

LEMMA TelegramInvUseCode ==
    ASSUME TelegramInv, NEW l \in Links, UseCode(l) PROVE TelegramInv'
<1>1. PICK at \in {"dead", "done"} : link' = [link EXCEPT ![l].at = at]
  BY DEF UseCode
<1>2. link[l].at = "use" /\ link[l] \in ReadLink
  BY LinkKinds DEF TelegramInv, UseCode
<1>3. /\ UNCHANGED <<member, commands, contested, touched, quiet>>
      /\ code' \in [Codes -> CodeStates] /\ InFlight(l)
  BY <1>2 DEF UseCode, TelegramInv, TelegramTypeOK, CodeStates, InFlight
<1>4. /\ link' \in [Links -> {IdleLink} \cup NewLink \cup ReadLink]
      /\ \A k \in Links : k # l => link'[k] = link[k]
      /\ link'[l].at = at /\ link'[l].code = link[l].code /\ link'[l].chat = link[l].chat
  BY <1>1, <1>2, LinkMoves DEF TelegramInv
<1> QED
  BY <1>2, <1>3, <1>4, TelegramInvMoves

LEMMA TelegramInvThrows ==
    ASSUME TelegramInv, NEW l \in Links, LinkThrows(l) PROVE TelegramInv'
<1>1. link[l] \in ReadLink \/ link[l] \in NewLink
  BY LinkKinds DEF TelegramInv, LinkThrows, InFlight
<1>2. /\ UNCHANGED <<member, commands, contested, touched, quiet>>
      /\ code' \in [Codes -> CodeStates] /\ InFlight(l)
      /\ link' = [link EXCEPT ![l].at = "dead"]
  BY DEF LinkThrows, TelegramInv, TelegramTypeOK
<1>3. /\ link' \in [Links -> {IdleLink} \cup NewLink \cup ReadLink]
      /\ \A k \in Links : k # l => link'[k] = link[k]
      /\ link'[l].at = "dead" /\ link'[l].code = link[l].code /\ link'[l].chat = link[l].chat
  BY <1>1, <1>2, LinkMoves DEF TelegramInv
<1> QED
  BY <1>2, <1>3, TelegramInvMoves

LEMMA TelegramInvStartLink ==
    ASSUME TelegramInv, NEW l \in Links, NEW c \in Codes, NEW chat \in Chats, StartLink(l, c, chat)
    PROVE  TelegramInv'
<1> USE DEF TelegramInv
<1> DEFINE next == [at |-> "code", code |-> c, chat |-> chat]
           rivals == {k \in Links : InFlight(k) /\ (link[k].chat = chat \/ Owner(k) = OwnerOf[c])}
<1>1. /\ link' = [link EXCEPT ![l] = next]
      /\ contested' = contested \cup {link[k].chat : k \in rivals}
                                \cup (IF rivals = {} THEN {} ELSE {chat})
      /\ UNCHANGED <<member, code, commands, touched, quiet>>
      /\ link[l] = IdleLink /\ link[l].at = "idle"
  BY DEF StartLink, IdleLink
<1>2. next \in NewLink /\ next.at = "code" /\ next.code = c /\ next.chat = chat
  BY DEF NewLink
<1>3. \A k \in rivals : link[k].chat \in Chats
  BY LinkKinds DEF InFlight
<1>4. \A k \in rivals : k \in Links /\ link[k].chat \in contested' /\ chat \in contested'
  BY <1>1
<1>5. contested \subseteq contested' /\ contested' \subseteq Chats
  BY <1>1, <1>3 DEF TelegramTypeOK
<1> HIDE DEF next
<1>6. /\ link' \in [Links -> {IdleLink} \cup NewLink \cup ReadLink]
      /\ \A k \in Links : k # l => link'[k] = link[k]
      /\ link'[l] = next
  BY <1>1, <1>2 DEF TelegramTypeOK
<1>7. TelegramTypeOK'
  BY <1>1, <1>5, <1>6 DEF TelegramTypeOK
<1>8. /\ \A k \in Links : k # l => /\ InFlight(k)' = InFlight(k) /\ Owner(k)' = Owner(k)
      /\ Owner(l)' = OwnerOf[c]
      /\ ~InFlight(l)
  BY <1>1, <1>2, <1>6 DEF InFlight, Owner
<1>9. \A k \in Links : k # l /\ InFlight(k) /\ (link[k].chat = chat \/ Owner(k) = OwnerOf[c])
                          => k \in rivals
  OBVIOUS
<1> HIDE DEF rivals
<1>10. RivalsContest'
  <2> SUFFICES ASSUME NEW j \in Links, NEW k \in Links, j # k, InFlight(j)', InFlight(k)',
                      link'[j].chat = link'[k].chat \/ Owner(j)' = Owner(k)'
               PROVE  link'[j].chat \in contested'
    BY DEF RivalsContest
  <2>1. CASE j = l
    BY <2>1, <1>2, <1>4, <1>6, <1>8, <1>9
  <2>2. CASE k = l
    BY <2>2, <1>2, <1>4, <1>6, <1>8, <1>9
  <2>3. CASE j # l /\ k # l
    BY <2>3, <1>5, <1>6, <1>8 DEF RivalsContest
  <2> QED
    BY <2>1, <2>2, <2>3
<1>11. OthersLeft'
  BY <1>1, <1>2, <1>5, <1>6, <1>8 DEF OthersLeft
<1>12. ReadIsCurrent'
  BY <1>1, <1>2, <1>5, <1>6, <1>8 DEF ReadIsCurrent
<1>13. QuietGetsNone'
  BY <1>1, <1>5 DEF QuietGetsNone, MayTelegram
<1>14. ChatsAreExclusive'
  BY <1>1, <1>5 DEF LinksHold, ChatsAreExclusive
<1>15. LinkTakesEffect'
  BY <1>1, <1>2, <1>6, <1>8 DEF LinksHold, LinkTakesEffect, Linked
<1> QED
  BY <1>7, <1>10, <1>11, <1>12, <1>13, <1>14, <1>15 DEF LinksHold

\* A change of members by others leaves the links that are not touched by it alone.
LEMMA Untouched ==
    ASSUME TelegramTypeOK, NEW own \in SUBSET Links, touched' = TouchedBut(own)
    PROVE  /\ touched \subseteq touched' /\ touched' \subseteq Links
           /\ \A k \in Links \ own : HasRead(k) /\ k \notin touched'
                                        => member'[Owner(k)] = member[Owner(k)]
           /\ \A k \in own : k \notin touched' => k \notin touched
  BY DEF TouchedBut, TelegramTypeOK

\* Many members lose a chat: the chat of a message that takes it from the others.
LEMMA TelegramInvUnlinkOthers ==
    ASSUME TelegramInv, NEW l \in Links, UnlinkOthers(l) PROVE TelegramInv'
<1> USE DEF TelegramInv
<1>1. /\ link[l].at = "others" /\ link[l] \in ReadLink /\ Owner(l) \in Members
      /\ link[l].chat \in Chats
  BY LinkKinds DEF UnlinkOthers, IdleLink
<1>2. /\ link' = [link EXCEPT ![l].at = "save"]
      /\ touched' = TouchedBut({l})
      /\ UNCHANGED <<code, commands, contested, quiet>>
      /\ member' = [m \in Members |->
                      IF m # Owner(l) /\ member[m].chat = link[l].chat
                      THEN [member[m] EXCEPT !.chat = NoChat, !.subscribed = FALSE]
                      ELSE member[m]]
  BY DEF UnlinkOthers
<1>3. /\ link' \in [Links -> {IdleLink} \cup NewLink \cup ReadLink]
      /\ \A k \in Links : k # l => link'[k] = link[k]
      /\ link'[l].at = "save" /\ link'[l].code = link[l].code /\ link'[l].chat = link[l].chat
      /\ link'[l].read = link[l].read
  BY <1>1, <1>2, LinkMoves
<1>4. /\ touched \subseteq touched' /\ touched' \subseteq Links
      /\ \A k \in Links \ {l} : HasRead(k) /\ k \notin touched'
                                   => member'[Owner(k)] = member[Owner(k)]
  BY <1>2, Untouched
<1>5. \A m \in Members :
        \/ member'[m] = member[m] /\ (m = Owner(l) \/ member[m].chat # link[l].chat)
        \/ /\ member'[m] \in Subscription /\ member'[m].chat = NoChat /\ ~member'[m].subscribed
           /\ m # Owner(l) /\ member[m].chat = link[l].chat
  BY <1>2 DEF TelegramTypeOK, Subscription
<1>6. member' \in [Members -> Subscription]
  BY <1>2, <1>5 DEF TelegramTypeOK
<1>7. TelegramTypeOK'
  BY <1>2, <1>3, <1>4, <1>6 DEF TelegramTypeOK
<1>8. /\ \A k \in Links : Owner(k)' = Owner(k) /\ link'[k].chat = link[k].chat
      /\ \A k \in Links : InFlight(k)' => InFlight(k)
      /\ \A k \in Links : HasRead(k)' => HasRead(k)
  BY <1>1, <1>3 DEF Owner, InFlight, HasRead
<1>c. contested' = contested
  BY <1>2
<1>9. RivalsContest'
  BY <1>8, <1>c DEF RivalsContest
<1>10. OthersLeft'
  <2> SUFFICES ASSUME NEW k \in Links, link'[k].at = "save", link'[k].chat \notin contested,
                      NEW m \in Members, m # Owner(k)
               PROVE  member'[m].chat # link[k].chat
    BY <1>8, <1>c DEF OthersLeft
  <2>1. link[k].chat \in Chats /\ link[k].chat # NoChat
    BY <1>1, <1>3, LinkKinds, TelegramConstants DEF IdleLink
  <2>2. CASE k = l
    BY <2>1, <2>2, <1>5
  <2>3. CASE k # l
    BY <2>1, <2>3, <1>3, <1>5, <1>8 DEF OthersLeft
  <2> QED
    BY <2>2, <2>3
<1>11. ReadIsCurrent'
  <2> SUFFICES ASSUME NEW k \in Links, link'[k].at \in {"others", "save"}
               PROVE  /\ k \notin touched' => member'[Owner(k)] = link'[k].read
                      /\ member'[Owner(k)].chat \in {link'[k].read.chat, NoChat} \cup contested
    BY <1>8, <1>c DEF ReadIsCurrent
  <2>1. /\ link[k].at \in {"others", "save"} /\ link'[k].read = link[k].read
        /\ Owner(k) \in Members
    BY <1>1, <1>3, LinkKinds DEF IdleLink
  <2>2. k \notin touched' => member'[Owner(k)] = member[Owner(k)]
    BY <2>1, <1>4, <1>5 DEF HasRead
  <2> QED
    BY <2>1, <2>2, <1>4, <1>5 DEF ReadIsCurrent
<1>12. QuietGetsNone'
  BY <1>2, <1>5 DEF QuietGetsNone, MayTelegram
<1>13. ChatsAreExclusive'
  BY <1>2, <1>5 DEF LinksHold, ChatsAreExclusive
<1>14. LinkTakesEffect'
  <2> SUFFICES ASSUME NEW k \in Links, link'[k].at \in {"use", "done"}, k \notin touched'
               PROVE  member'[Owner(k)] = Linked(k)'
    BY <1>8 DEF LinkTakesEffect
  <2>1. k # l /\ link[k].at \in {"use", "done"} /\ Linked(k)' = Linked(k)
    BY <1>3 DEF Linked
  <2>2. member'[Owner(k)] = member[Owner(k)] /\ k \notin touched
    BY <2>1, <1>4 DEF HasRead
  <2> QED
    BY <2>1, <2>2 DEF LinksHold, LinkTakesEffect
<1> QED
  BY <1>7, <1>9, <1>10, <1>11, <1>12, <1>13, <1>14 DEF LinksHold

\* What a save of a link makes of the member that is stored.
LEMMA SavedLink ==
    ASSUME NEW stored \in Subscription, NEW old \in Subscription, NEW chat \in Chats,
           NEW linked, linked = [chat |-> chat, subscribed |-> TRUE, loans |-> TRUE]
    PROVE  /\ Saved(stored, old, linked) \in Subscription
           /\ Saved(stored, old, linked).chat = IF old.chat = chat THEN stored.chat ELSE chat
           /\ stored = old => Saved(stored, old, linked) = linked
<1> DEFINE new == Saved(stored, old, linked)
<1>1. DOMAIN stored = {"chat", "subscribed", "loans"}
  BY DEF Subscription
<1>2. /\ new = [f \in {"chat", "subscribed", "loans"} |->
                  IF old[f] = linked[f] THEN stored[f] ELSE linked[f]]
  BY <1>1 DEF Saved
<1>3. /\ linked["chat"] = chat /\ linked["subscribed"] = TRUE /\ linked["loans"] = TRUE
      /\ linked \in Subscription
  BY DEF Subscription
<1> HIDE DEF new
<1>4. /\ new["chat"] = IF old["chat"] = chat THEN stored["chat"] ELSE chat
      /\ new["subscribed"] = IF old["subscribed"] = TRUE THEN stored["subscribed"] ELSE TRUE
      /\ new["loans"] = IF old["loans"] = TRUE THEN stored["loans"] ELSE TRUE
  BY <1>2, <1>3
<1>5. new \in Subscription
  BY <1>2, <1>4 DEF Subscription
<1>6. ASSUME stored = old PROVE new = linked
  <2>1. \A f \in {"chat", "subscribed", "loans"} : new[f] = linked[f]
    BY <1>2, <1>6
  <2> QED
    BY <2>1, <1>3, <1>5 DEF Subscription
<1> QED
  BY <1>4, <1>5, <1>6 DEF new

LEMMA TelegramInvSaveMember ==
    ASSUME TelegramInv, NEW l \in Links, SaveMember(l) PROVE TelegramInv'
<1> USE DEF TelegramInv
<1> DEFINE o == Owner(l)
           new == Saved(member[o], link[l].read, Linked(l))
<1>1. /\ link[l].at = "save" /\ link[l] \in ReadLink /\ o \in Members
      /\ link[l].chat \in Chats /\ link[l].read \in Subscription
  BY LinkKinds DEF SaveMember, IdleLink
<1>2. /\ link' = [link EXCEPT ![l].at = "use"]
      /\ touched' = TouchedBut({l})
      /\ code' = code /\ commands' = commands /\ contested' = contested
      /\ quiet' = quiet \ {link[l].chat}
      /\ member' = [member EXCEPT ![o] = new]
  BY DEF SaveMember
<1>3. /\ link' \in [Links -> {IdleLink} \cup NewLink \cup ReadLink]
      /\ \A k \in Links : k # l => link'[k] = link[k]
      /\ link'[l].at = "use" /\ link'[l].code = link[l].code /\ link'[l].chat = link[l].chat
  BY <1>1, <1>2, LinkMoves
<1>4. /\ touched \subseteq touched' /\ touched' \subseteq Links
      /\ \A k \in Links \ {l} : HasRead(k) /\ k \notin touched'
                                   => member'[Owner(k)] = member[Owner(k)]
      /\ l \notin touched' => l \notin touched
  BY <1>2, Untouched
<1>5. /\ new \in Subscription
      /\ new.chat = IF link[l].read.chat = link[l].chat THEN member[o].chat ELSE link[l].chat
      /\ member[o] = link[l].read => new = Linked(l)
  <2> HIDE DEF o, new
  <2>1. member[o] \in Subscription
    BY <1>1 DEF TelegramTypeOK, o
  <2>2. Linked(l) = [chat |-> link[l].chat, subscribed |-> TRUE, loans |-> TRUE]
    BY DEF Linked
  <2>3. PICK stored, old, linked, chat :
           stored = member[o] /\ old = link[l].read /\ linked = Linked(l) /\ chat = link[l].chat
    OBVIOUS
  <2>4. /\ stored \in Subscription /\ old \in Subscription /\ chat \in Chats
        /\ linked = [chat |-> chat, subscribed |-> TRUE, loans |-> TRUE]
    BY <1>1, <2>1, <2>2, <2>3
  <2>5. /\ Saved(stored, old, linked) \in Subscription
        /\ Saved(stored, old, linked).chat = IF old.chat = chat THEN stored.chat ELSE chat
        /\ stored = old => Saved(stored, old, linked) = linked
    BY <2>4, SavedLink
  <2> QED
    BY <2>3, <2>5 DEF new
<1> HIDE DEF new
<1>6. /\ member' \in [Members -> Subscription] /\ member'[o] = new
      /\ \A m \in Members : m # o => member'[m] = member[m]
  BY <1>1, <1>2, <1>5 DEF TelegramTypeOK
<1>7. TelegramTypeOK'
  BY <1>2, <1>3, <1>4, <1>6 DEF TelegramTypeOK
<1>8. /\ \A k \in Links : Owner(k)' = Owner(k) /\ link'[k].chat = link[k].chat
      /\ \A k \in Links : InFlight(k)' => InFlight(k)
  BY <1>1, <1>3 DEF Owner, InFlight
<1>9. RivalsContest'
  BY <1>2, <1>8 DEF RivalsContest
\* What a rival of l may find: the chat of l, which the two contest.
<1>10. \A k \in Links : k # l /\ InFlight(k) /\ (link[k].chat = link[l].chat \/ Owner(k) = o)
                           => link[l].chat \in contested /\ link[k].chat \in contested
  BY <1>1 DEF RivalsContest, InFlight
<1>11. new.chat \in {link[l].chat, member[o].chat}
  BY <1>5
<1> HIDE DEF o
<1>12. OthersLeft'
  <2> SUFFICES ASSUME NEW k \in Links, link'[k].at = "save", link[k].chat \notin contested,
                      NEW m \in Members, m # Owner(k)
               PROVE  member'[m].chat # link[k].chat
    BY <1>2, <1>8 DEF OthersLeft
  <2>1. k # l /\ link[k].at = "save" /\ InFlight(k)
    BY <1>3 DEF InFlight
  <2>2. member[m].chat # link[k].chat
    BY <2>1 DEF OthersLeft
  <2> QED
    BY <2>1, <2>2, <1>6, <1>10, <1>11
<1>13. ReadIsCurrent'
  <2> SUFFICES ASSUME NEW k \in Links, link'[k].at \in {"others", "save"}
               PROVE  /\ k \notin touched' => member'[Owner(k)] = link'[k].read
                      /\ member'[Owner(k)].chat \in {link'[k].read.chat, NoChat} \cup contested
    BY <1>2, <1>8 DEF ReadIsCurrent
  <2>1. /\ k # l /\ link[k].at \in {"others", "save"} /\ link'[k] = link[k]
        /\ HasRead(k) /\ InFlight(k)
    BY <1>3 DEF HasRead, InFlight
  <2>2. /\ k \notin touched => member[Owner(k)] = link[k].read
        /\ member[Owner(k)].chat \in {link[k].read.chat, NoChat} \cup contested
    BY <2>1 DEF ReadIsCurrent
  <2>3. Owner(k) \in Members
    BY <2>1, LinkKinds DEF InFlight, IdleLink
  <2>4. member'[Owner(k)].chat \in {member[Owner(k)].chat} \cup contested
    BY <2>1, <2>3, <1>6, <1>10, <1>11
  <2> QED
    BY <2>1, <2>2, <2>4, <1>4
<1>14. QuietGetsNone'
  <2> SUFFICES ASSUME NEW m \in Members, member'[m].chat \in quiet, member'[m].chat \notin contested,
                      member'[m].chat # link[l].chat
               PROVE  ~MayTelegram(member'[m])
    BY <1>2 DEF QuietGetsNone, MayTelegram
  <2>1. CASE m # o
    BY <2>1, <1>6 DEF QuietGetsNone
  <2>2. CASE m = o
    <3>1. new.chat = member[o].chat /\ link[l].read.chat = link[l].chat
      BY <2>2, <1>5, <1>6
    <3>2. member[o].chat = NoChat
      BY <3>1, <2>2, <1>1, <1>6 DEF ReadIsCurrent, o
    <3> QED
      BY <3>1, <3>2, <2>2, <1>6 DEF MayTelegram
  <2> QED
    BY <2>1, <2>2
<1>15. ChatsAreExclusive'
  <2> SUFFICES ASSUME NEW m \in Members, NEW n \in Members, m # n, member'[m].chat = member'[n].chat
               PROVE  member'[m].chat \in contested \cup {NoChat}
    BY <1>2 DEF ChatsAreExclusive
  <2>1. ASSUME NEW p \in Members, p # o, link[l].chat \notin contested
        PROVE  member[p].chat # link[l].chat
    BY <2>1, <1>1 DEF OthersLeft, o
  <2> QED
    BY <2>1, <1>1, <1>6, <1>11 DEF LinksHold, ChatsAreExclusive
<1>16. LinkTakesEffect'
  <2> SUFFICES ASSUME NEW k \in Links, link'[k].at \in {"use", "done"}, k \notin touched'
               PROVE  member'[Owner(k)] = Linked(k)'
    BY <1>8 DEF LinkTakesEffect
  <2>1. Linked(k)' = Linked(k)
    BY <1>8 DEF Linked
  <2>2. CASE k = l
    BY <2>1, <2>2, <1>1, <1>4, <1>5, <1>6 DEF ReadIsCurrent, o
  <2>3. CASE k # l
    <3>1. link[k].at \in {"use", "done"} /\ HasRead(k)
      BY <2>3, <1>3 DEF HasRead
    <3> QED
      BY <3>1, <2>1, <2>3, <1>4 DEF LinksHold, LinkTakesEffect
  <2> QED
    BY <2>2, <2>3
<1> QED
  BY <1>7, <1>9, <1>12, <1>13, <1>14, <1>15, <1>16 DEF LinksHold

\* One member changes preferences, in the app or by a command from the member's chat.
LEMMA TelegramInvPreference ==
    ASSUME TelegramInv, NEW m \in Members, NEW new \in Subscription,
           commands' \in 0..MaxCommands,
           member' = [member EXCEPT ![m] = new], new.chat = member[m].chat,
           touched' = TouchedBut({}),
           \/ quiet' = quiet \ {member[m].chat}
           \/ /\ quiet' = quiet \cup {member[m].chat} /\ member[m].chat \in Chats
              /\ ~MayTelegram(new),
           UNCHANGED <<code, link, contested>>
    PROVE  TelegramInv'
<1> USE DEF TelegramInv
<1>1. /\ touched \subseteq touched' /\ touched' \subseteq Links
      /\ \A k \in Links : HasRead(k) /\ k \notin touched'
                             => member'[Owner(k)] = member[Owner(k)]
  BY Untouched
<1>2. /\ member' \in [Members -> Subscription] /\ member'[m] = new
      /\ \A n \in Members : n # m => member'[n] = member[n]
      /\ \A n \in Members : member'[n].chat = member[n].chat
  BY DEF TelegramTypeOK
<1>3. TelegramTypeOK'
  BY <1>1, <1>2 DEF TelegramTypeOK
<1>4. link' = link /\ contested' = contested
  OBVIOUS
<1>5. \A k \in Links : Owner(k)' = Owner(k) /\ InFlight(k)' = InFlight(k)
  BY <1>4 DEF Owner, InFlight
<1>6. RivalsContest'
  BY <1>4, <1>5 DEF RivalsContest
<1>7. OthersLeft'
  BY <1>2, <1>4, <1>5 DEF OthersLeft
<1>8. ReadIsCurrent'
  <2> SUFFICES ASSUME NEW k \in Links, link[k].at \in {"others", "save"}
               PROVE  /\ k \notin touched' => member'[Owner(k)] = link[k].read
                      /\ member'[Owner(k)].chat \in {link[k].read.chat, NoChat} \cup contested
    BY <1>4, <1>5 DEF ReadIsCurrent
  <2>1. HasRead(k) /\ Owner(k) \in Members
    BY LinkKinds DEF HasRead, IdleLink
  <2> QED
    BY <2>1, <1>1, <1>2 DEF ReadIsCurrent
<1>9. QuietGetsNone'
  <2> SUFFICES ASSUME NEW n \in Members, member[n].chat \in quiet', member[n].chat \notin contested
               PROVE  ~MayTelegram(member'[n])
    BY <1>2, <1>4 DEF QuietGetsNone, MayTelegram
  <2>1. CASE quiet' = quiet \ {member[m].chat}
    <3>1. n # m /\ member[n].chat \in quiet
      BY <2>1
    <3> QED
      BY <3>1, <1>2 DEF QuietGetsNone
  <2>2. CASE quiet' = quiet \cup {member[m].chat} /\ member[m].chat \in Chats /\ ~MayTelegram(new)
    <3>1. CASE n = m
      BY <3>1, <2>2, <1>2
    <3>2. CASE n # m
      <4>1. member[n].chat # member[m].chat
        BY <3>2, <2>2, TelegramConstants DEF LinksHold, ChatsAreExclusive
      <4> QED
        BY <4>1, <3>2, <2>2, <1>2 DEF QuietGetsNone
    <3> QED
      BY <3>1, <3>2
  <2> QED
    BY <2>1, <2>2
<1>10. ChatsAreExclusive'
  BY <1>2, <1>4 DEF LinksHold, ChatsAreExclusive
<1>11. LinkTakesEffect'
  <2> SUFFICES ASSUME NEW k \in Links, link[k].at \in {"use", "done"}, k \notin touched'
               PROVE  member'[Owner(k)] = Linked(k)
    BY <1>4, <1>5 DEF LinkTakesEffect, Linked
  <2>1. HasRead(k)
    BY DEF HasRead
  <2> QED
    BY <2>1, <1>1 DEF LinksHold, LinkTakesEffect
<1> QED
  BY <1>3, <1>6, <1>7, <1>8, <1>9, <1>10, <1>11 DEF LinksHold

\* The bot's commands: one member of the chat, and the chat is then quiet or not.
LEMMA TelegramInvCommand ==
    ASSUME TelegramInv, NEW chat \in Chats, NEW changed, NEW silent \in BOOLEAN,
           Command(chat, changed, silent),
           \A m \in Members : /\ changed[m] \in Subscription
                              /\ changed[m].chat = member[m].chat
                              /\ silent => ~MayTelegram(changed[m])
    PROVE  TelegramInv'
<1>1. PICK m \in Members : member[m].chat = chat /\ member' = [member EXCEPT ![m] = changed[m]]
  BY DEF Command
<1>2. commands' \in 0..MaxCommands
  BY TelegramConstants DEF Command, TelegramInv, TelegramTypeOK
<1>3. /\ touched' = TouchedBut({})
      /\ quiet' = IF silent THEN quiet \cup {chat} ELSE quiet \ {chat}
      /\ UNCHANGED <<code, link, contested>>
  BY DEF Command
<1> QED
  BY <1>1, <1>2, <1>3, TelegramInvPreference

LEMMA TelegramInvSubscriptions ==
    ASSUME TelegramInv, NEW chat \in Chats,
           Unsubscribe(chat) \/ UnsubscribeLoan(chat) \/ SubscribeLoan(chat)
    PROVE  TelegramInv'
<1>1. \A m \in Members : member[m] \in Subscription
  BY DEF TelegramInv, TelegramTypeOK
<1>2. CASE Unsubscribe(chat)
  <2> DEFINE changed == [m \in Members |-> [member[m] EXCEPT !.subscribed = FALSE, !.loans = FALSE]]
  <2>1. \A m \in Members : /\ changed[m] \in Subscription /\ changed[m].chat = member[m].chat
                           /\ ~MayTelegram(changed[m])
    BY <1>1 DEF Subscription, MayTelegram
  <2>2. Command(chat, changed, TRUE)
    BY <1>2 DEF Unsubscribe
  <2> HIDE DEF changed
  <2> QED
    BY <2>1, <2>2, TelegramInvCommand
<1>3. CASE UnsubscribeLoan(chat)
  <2> DEFINE changed == [m \in Members |-> [member[m] EXCEPT !.loans = FALSE]]
  <2>1. \A m \in Members : /\ changed[m] \in Subscription /\ changed[m].chat = member[m].chat
                           /\ ~MayTelegram(changed[m])
    BY <1>1 DEF Subscription, MayTelegram
  <2>2. Command(chat, changed, TRUE)
    BY <1>3 DEF UnsubscribeLoan
  <2> HIDE DEF changed
  <2> QED
    BY <2>1, <2>2, TelegramInvCommand
<1>4. CASE SubscribeLoan(chat)
  <2> DEFINE changed == [m \in Members |-> [member[m] EXCEPT !.subscribed = TRUE, !.loans = TRUE]]
  <2>1. \A m \in Members : changed[m] \in Subscription /\ changed[m].chat = member[m].chat
    BY <1>1 DEF Subscription
  <2>2. Command(chat, changed, FALSE)
    BY <1>4 DEF SubscribeLoan
  <2> HIDE DEF changed
  <2> QED
    BY <2>1, <2>2, TelegramInvCommand
<1> QED
  BY <1>2, <1>3, <1>4

LEMMA TelegramInvPreferences ==
    ASSUME TelegramInv, NEW m \in Choosers, NEW s \in BOOLEAN, NEW o \in BOOLEAN,
           UpdatePreferences(m, s, o)
    PROVE  TelegramInv'
<1> DEFINE new == [member[m] EXCEPT !.subscribed = s, !.loans = o]
<1>1. m \in Members /\ member \in [Members -> Subscription]
  BY TelegramConstants DEF TelegramInv, TelegramTypeOK
<1>2. new \in Subscription /\ new.chat = member[m].chat
  BY <1>1 DEF Subscription
<1>3. member' = [member EXCEPT ![m] = new]
  BY <1>1 DEF UpdatePreferences
<1>4. commands' \in 0..MaxCommands
  BY TelegramConstants DEF UpdatePreferences, TelegramInv, TelegramTypeOK
<1>5. /\ touched' = TouchedBut({}) /\ quiet' = quiet \ {member[m].chat}
      /\ UNCHANGED <<code, link, contested>>
  BY DEF UpdatePreferences
<1> HIDE DEF new
<1> QED
  BY <1>1, <1>2, <1>3, <1>4, <1>5, TelegramInvPreference

\* The server stops: no message is in flight any more.
LEMMA TelegramInvCrash ==
    ASSUME TelegramInv,
           link' = [l \in Links |-> IF InFlight(l) THEN [link[l] EXCEPT !.at = "dead"] ELSE link[l]],
           UNCHANGED <<member, code, commands, contested, touched, quiet>>
    PROVE  TelegramInv'
<1> USE DEF TelegramInv
<1>1. ASSUME NEW l \in Links
      PROVE  /\ link'[l] \in {IdleLink} \cup NewLink \cup ReadLink
             /\ link'[l] = link[l] \/ link'[l].at = "dead"
             /\ link'[l].at \notin {"code", "others", "save", "use"}
  <2>1. CASE InFlight(l)
    <3>1. link[l] \in NewLink \/ link[l] \in ReadLink
      BY <2>1, LinkKinds DEF InFlight
    <3>2. link'[l] = [link[l] EXCEPT !.at = "dead"]
      BY <2>1
    <3>3. link'[l].at = "dead" /\ (link'[l] \in NewLink \/ link'[l] \in ReadLink)
      BY <3>1, <3>2 DEF NewLink, ReadLink
    <3> QED
      BY <3>3
  <2>2. CASE ~InFlight(l)
    <3>1. link'[l] = link[l]
      BY <2>2
    <3> QED
      BY <2>2, <3>1 DEF InFlight, TelegramTypeOK
  <2> QED
    BY <2>1, <2>2
<1>2. TelegramTypeOK'
  BY <1>1 DEF TelegramTypeOK
<1>3. \A l \in Links : ~InFlight(l)'
  BY <1>1 DEF InFlight
<1>4. RivalsContest'
  BY <1>3 DEF RivalsContest
<1>5. OthersLeft' /\ ReadIsCurrent'
  BY <1>3 DEF OthersLeft, ReadIsCurrent, InFlight
<1>6. QuietGetsNone' /\ ChatsAreExclusive'
  BY DEF QuietGetsNone, MayTelegram, LinksHold, ChatsAreExclusive
<1>7. LinkTakesEffect'
  <2> SUFFICES ASSUME NEW l \in Links, link'[l].at \in {"use", "done"}, l \notin touched
               PROVE  member[Owner(l)'] = Linked(l)'
    BY DEF LinkTakesEffect, Owner, Linked
  <2>1. link'[l] = link[l]
    BY <1>1
  <2> QED
    BY <2>1 DEF LinksHold, LinkTakesEffect, Owner, Linked
<1> QED
  BY <1>2, <1>4, <1>5, <1>6, <1>7 DEF LinksHold

LEMMA TelegramInvStep ==
    ASSUME TelegramInv,
           \/ \E l \in Links, c \in Codes, chat \in Chats : StartLink(l, c, chat)
           \/ \E c \in Codes : AskForCode(c)
           \/ TelegramStep
    PROVE  TelegramInv'
<1>1. ASSUME NEW c \in Codes, AskForCode(c) \/ StoreCode(c) \/ ExpireCode(c)
      PROVE  TelegramInv'
  <2>1. code' \in [Codes -> CodeStates]
    BY <1>1 DEF AskForCode, StoreCode, ExpireCode, TelegramInv, TelegramTypeOK, CodeStates
  <2>2. UNCHANGED <<member, link, commands, contested, touched, quiet>>
    BY <1>1 DEF AskForCode, StoreCode, ExpireCode
  <2> QED
    BY <2>1, <2>2, TelegramInvCodes
<1>2. ASSUME NEW l \in Links, LinkStep(l) \/ LinkThrows(l)
      PROVE  TelegramInv'
  BY <1>2, TelegramInvReadMember, TelegramInvUnlinkOthers, TelegramInvSaveMember, TelegramInvUseCode,
     TelegramInvThrows DEF LinkStep
<1> QED
  BY <1>1, <1>2, TelegramInvStartLink, TelegramInvSubscriptions, TelegramInvPreferences
     DEF TelegramStep

LEMMA TelegramInvStutter == ASSUME TelegramInv, UNCHANGED telegramVars PROVE TelegramInv'
<1>1. code' \in [Codes -> CodeStates] /\ UNCHANGED <<member, link, commands, contested, touched, quiet>>
  BY DEF telegramVars, TelegramInv, TelegramTypeOK
<1> QED
  BY <1>1, TelegramInvCodes

\* What was contested stays so.
LEMMA ContestedGrows == ASSUME TelegramTypeOK, [Next]_vars PROVE contested \subseteq contested'
<1>1. CASE UNCHANGED telegramVars
  BY <1>1 DEF telegramVars
<1>2. CASE Crash
  BY <1>2 DEF Crash
<1>3. CASE \E l \in Links, c \in Codes, chat \in Chats : StartLink(l, c, chat)
  BY <1>3 DEF StartLink
<1>4. CASE \E c \in Codes : AskForCode(c)
  BY <1>4 DEF AskForCode
<1>5. CASE TelegramStep
  BY <1>5 DEF TelegramStep, StoreCode, ExpireCode, LinkStep, LinkThrows, ReadMember, UnlinkOthers,
     SaveMember, UseCode, Unsubscribe, UnsubscribeLoan, SubscribeLoan, Command, UpdatePreferences
<1> QED
  BY <1>1, <1>2, <1>3, <1>4, <1>5
     DEF Next, vars, CreateCampaign, StartSend, SendStep, ReadMembers, MarkSending, Telegram, Push,
         StoreRecord, DeliveryThrows, StoreLogs, Close, SendThrows

-----------------------------------------------------------------------------
(* The entries of a campaign: each has a target and a channel, and a target has  *)
(* one push.                                                                     *)
LEMMA ChannelFacts == Len(Channels) = 2 /\ Channels[1] = "mobile_push" /\ Channels[2] = "telegram"
  BY DEF Channels

LEMMA EntryFacts ==
    ASSUME campaign.targets \in Seq(Members)
    PROVE  /\ Entries(campaign.targets) = 1..(Len(campaign.targets) * 2)
           /\ Len(campaign.targets) \in Nat
           /\ \A i \in Entries(campaign.targets) :
                 TargetOf(i) \in Members /\ ChannelOf(i) \in {"mobile_push", "telegram"}
<1>1. Entries(campaign.targets) = 1..(Len(campaign.targets) * 2)
  BY ChannelFacts DEF Entries
<1>2. Len(campaign.targets) \in Nat
  OBVIOUS
<1>3. ASSUME NEW i \in Entries(campaign.targets)
      PROVE  TargetOf(i) \in Members /\ ChannelOf(i) \in {"mobile_push", "telegram"}
  <2>1. PICK n \in Nat : n = Len(campaign.targets)
    BY <1>2
  <2>2. i \in Int /\ 1 <= i /\ i <= n * 2
    BY <1>1, <1>3, <2>1
  <2>3. ((i - 1) \div 2) + 1 \in 1..n /\ ((i - 1) % 2) + 1 \in 1..2
    BY <2>2
  <2>4. TargetOf(i) = campaign.targets[((i - 1) \div 2) + 1] /\ ChannelOf(i) = Channels[((i - 1) % 2) + 1]
    BY ChannelFacts DEF TargetOf, ChannelOf
  <2> QED
    BY <2>1, <2>3, <2>4, ChannelFacts
<1> QED
  BY <1>1, <1>2, <1>3

LEMMA OnePushEach ==
    ASSUME campaign.targets \in Seq(Members), IsInjective(campaign.targets),
           NEW i \in Entries(campaign.targets), NEW j \in Entries(campaign.targets),
           ChannelOf(i) = "mobile_push", ChannelOf(j) = "mobile_push", TargetOf(i) = TargetOf(j)
    PROVE  i = j
<1>1. PICK n \in Nat : n = Len(campaign.targets)
  OBVIOUS
<1>2. i \in Int /\ 1 <= i /\ i <= n * 2 /\ j \in Int /\ 1 <= j /\ j <= n * 2
  BY <1>1, EntryFacts
<1>3. (i - 1) % 2 = 0 /\ (j - 1) % 2 = 0
  <2>1. (i - 1) % 2 \in {0, 1} /\ (j - 1) % 2 \in {0, 1}
    BY <1>2
  <2>2. ChannelOf(i) = Channels[((i - 1) % 2) + 1] /\ ChannelOf(j) = Channels[((j - 1) % 2) + 1]
    BY ChannelFacts DEF ChannelOf
  <2> QED
    BY <2>1, <2>2, ChannelFacts
<1>4. ((i - 1) \div 2) + 1 \in 1..n /\ ((j - 1) \div 2) + 1 \in 1..n
  BY <1>2
<1>5. campaign.targets[((i - 1) \div 2) + 1] = campaign.targets[((j - 1) \div 2) + 1]
  BY ChannelFacts DEF TargetOf
<1>6. ((i - 1) \div 2) + 1 = ((j - 1) \div 2) + 1
  BY <1>1, <1>4, <1>5 DEF IsInjective
<1> QED
  BY <1>2, <1>3, <1>6

-----------------------------------------------------------------------------
(* What the shapes of a send say by the step it is at.                         *)
LEMMA SendKinds ==
    ASSUME TypeOK, NEW s \in Sends
    PROVE  /\ send[s].at = "idle" <=> send[s] = IdleSend
           /\ send[s].at \in {"idle", "members", "dead", "mark", "entry", "record", "logs", "close", "done"}
           /\ send[s].at = "members" => send[s] \in NewSend
           /\ send[s].at \notin {"idle", "members", "dead"} => send[s] \in Send
           /\ send[s].at = "members" => send[s] \notin Send
           /\ send[s] \in Send => /\ send[s].doc \in Statuses /\ send[s].seen \in [Members -> Subscription]
                                  /\ send[s].entry \in Nat /\ send[s].pushed \in Outcomes
                                  /\ send[s].logs \in Seq(Outcomes) /\ send[s].silenced \subseteq Chats
<1>1. send[s] \in {IdleSend} \cup NewSend \cup Send
  BY DEF TypeOK
<1>2. CASE send[s] = IdleSend
  BY <1>2 DEF IdleSend, NewSend, Send
<1>3. CASE send[s] \in NewSend
  BY <1>3 DEF IdleSend, NewSend, Send
<1>4. CASE send[s] \in Send
  BY <1>4 DEF IdleSend, Send
<1> QED
  BY <1>1, <1>2, <1>3, <1>4

\* A send whose step does not look at it is as it was.

\* What is said of a send stays true while its own documents stay as they are.
SameSend(s) ==
    /\ took'[s] = took[s] /\ unheard'[s] = unheard[s] /\ rows'[s] = rows[s]
    /\ \A m \in Members, o \in Outcomes : <<s, m, o>> \in records' <=> <<s, m, o>> \in records

LEMMA SameTelling ==
    ASSUME campaign.targets \in Seq(Members), campaign'.targets = campaign.targets,
           NEW s \in Sends, SameSend(s)
    PROVE  /\ Entries(campaign.targets)' = Entries(campaign.targets)
           /\ \A i \in Entries(campaign.targets) : TargetOf(i)' = TargetOf(i) /\ ChannelOf(i)' = ChannelOf(i)
           /\ \A i \in Entries(campaign.targets), said \in Outcomes :
                 ToldTruly(s, i, said)' <=> ToldTruly(s, i, said)
           /\ \A i \in Nat : NoRecordFrom(s, i)' <=> NoRecordFrom(s, i)
           /\ \A logs \in Seq(Outcomes) :
                 Len(logs) <= Len(campaign.targets) * Len(Channels) =>
                    (LogsTell(s, logs)' <=> LogsTell(s, logs))
<1>1. Entries(campaign.targets)' = Entries(campaign.targets)
  BY DEF Entries
<1>2. \A i : TargetOf(i)' = TargetOf(i) /\ ChannelOf(i)' = ChannelOf(i)
  BY DEF TargetOf, ChannelOf
<1>3. \A i \in Entries(campaign.targets) :
         <<s, TargetOf(i), "sent">> \in records' <=> <<s, TargetOf(i), "sent">> \in records
  BY EntryFacts DEF SameSend, Outcomes
<1>4. \A i \in Entries(campaign.targets), said \in Outcomes :
         ToldTruly(s, i, said)' <=> ToldTruly(s, i, said)
  BY <1>2, <1>3 DEF ToldTruly, Delivered, SameSend
<1>5. \A i \in Nat : NoRecordFrom(s, i)' <=> NoRecordFrom(s, i)
  BY <1>1, <1>2, <1>3 DEF NoRecordFrom
<1>6. ASSUME NEW logs \in Seq(Outcomes), Len(logs) <= Len(campaign.targets) * Len(Channels)
      PROVE  LogsTell(s, logs)' <=> LogsTell(s, logs)
  <2>1. PICK n \in Nat : n = Len(campaign.targets)
    OBVIOUS
  <2>2. \A i \in DOMAIN logs : i \in Entries(campaign.targets) /\ logs[i] \in Outcomes
    BY <1>6, <2>1, ChannelFacts DEF Entries
  <2> QED
    BY <2>2, <1>4 DEF LogsTell
<1> QED
  BY <1>1, <1>2, <1>4, <1>5, <1>6

LEMMA OtherSends ==
    ASSUME TypeOK, NEW s \in Sends, SendInv(s), SameSend(s), send'[s] = send[s],
           campaign'.targets = campaign.targets,
           campaign.status # "none" => campaign'.status # "none",
           contested \subseteq contested'
    PROVE  SendInv(s)'
<1> USE DEF SendInv
<1>1. /\ campaign.targets \in Seq(Members) /\ Len(campaign.targets) \in Nat
      /\ took[s] \subseteq Entries(campaign.targets)
      /\ rows[s] \in Seq(Outcomes)
  BY DEF TypeOK
<1>2. /\ \A i \in Entries(campaign.targets) : TargetOf(i)' = TargetOf(i) /\ ChannelOf(i)' = ChannelOf(i)
      /\ \A i \in Nat : NoRecordFrom(s, i)' <=> NoRecordFrom(s, i)
      /\ \A logs \in Seq(Outcomes) :
            Len(logs) <= Len(campaign.targets) * Len(Channels) =>
               (LogsTell(s, logs)' <=> LogsTell(s, logs))
  BY <1>1, SameTelling
<1>3. PICK all \in Nat : all = Len(campaign.targets) * Len(Channels)
  BY <1>1, ChannelFacts
<1>4. Entries(campaign.targets) = 1..all
  BY <1>3 DEF Entries
<1>5. StoredTell(s)'
  BY <1>1, <1>2, <1>3 DEF StoredTell, SameSend
<1>6. SeenAsked(s)'
  BY <1>1, <1>2 DEF SeenAsked, SameSend, MayTelegram
<1>7. Progress(s)'
  <2>1. Len(campaign'.targets) * Len(Channels) = all
    BY <1>3
  <2>2. /\ send[s].at \notin {"idle", "members", "dead"} =>
             /\ send[s].logs \in Seq(Outcomes) /\ Len(send[s].logs) \in Nat
             /\ send[s].entry \in Nat
    BY SendKinds
  <2>3. send[s].at \in {"entry", "record", "logs", "close", "done"} =>
             (LogsTell(s, send[s].logs)' <=> LogsTell(s, send[s].logs))
    <3>1. send[s].at \in {"entry", "record"} => send[s].entry \in 1..all /\ Len(send[s].logs) = send[s].entry - 1
      BY <1>3 DEF Progress
    <3>2. send[s].at \in {"logs", "close", "done"} => Len(send[s].logs) = all
      BY <1>3 DEF Progress
    <3>3. send[s].at \in {"entry", "record", "logs", "close", "done"} => Len(send[s].logs) <= all
      BY <1>3, <2>2, <3>1, <3>2
    <3> QED
      BY <1>2, <1>3, <2>2, <3>3
  <2> QED
    BY <1>2, <1>3, <1>4, <2>1, <2>2, <2>3 DEF Progress, SameSend
<1> QED
  BY <1>5, <1>6, <1>7

-----------------------------------------------------------------------------
(* The steps of a send: each moves one send on.                                *)

\* Send s goes on as next, and of the others' documents none changes.
MovesOn(s, next) ==
    /\ send' = [send EXCEPT ![s] = next]
    /\ \A r \in Sends : r # s => SameSend(r)
    /\ \E status \in Statuses : campaign' = [campaign EXCEPT !.status = status]
    /\ took' \in [Sends -> SUBSET Entries(campaign.targets)]
    /\ unheard' \in [Sends -> SUBSET Nat]
    /\ records' \subseteq Sends \X Members \X Outcomes
    /\ rows' \in [Sends -> Seq(Outcomes)]
    /\ UNCHANGED telegramVars

LEMMA MovesOnTyped ==
    ASSUME TypeOK, NEW s \in Sends, NEW next \in NewSend \cup Send, MovesOn(s, next)
    PROVE  /\ TypeOK'
           /\ campaign'.targets = campaign.targets
           /\ send'[s] = next /\ \A r \in Sends : r # s => send'[r] = send[r]
<1>1. campaign'.targets = campaign.targets /\ campaign' \in [status: Statuses, targets: Seq(Members)]
  BY DEF MovesOn, TypeOK
<1>2. send' \in [Sends -> {IdleSend} \cup NewSend \cup Send]
  BY DEF MovesOn, TypeOK
<1>3. send'[s] = next /\ \A r \in Sends : r # s => send'[r] = send[r]
  BY DEF MovesOn, TypeOK
<1>4. TelegramTypeOK'
  BY DEF TypeOK, TelegramTypeOK, MovesOn, telegramVars
<1>5. Entries(campaign.targets)' = Entries(campaign.targets)
  BY <1>1 DEF Entries
<1> QED
  BY <1>1, <1>2, <1>3, <1>4, <1>5 DEF TypeOK, MovesOn

LEMMA CampaignInvMovesOn ==
    ASSUME ReminderInv, NEW s \in Sends, NEW next \in NewSend \cup Send, MovesOn(s, next),
           campaign.status # "none", campaign'.status # "none",
           SendInv(s)', StatusIsOfASend'
    PROVE  ReminderInv'
<1>1. /\ TypeOK' /\ campaign'.targets = campaign.targets
      /\ \A r \in Sends : r # s => send'[r] = send[r]
  BY MovesOnTyped DEF ReminderInv
<1>2. contested' = contested /\ TelegramInv'
  BY TelegramInvStutter DEF MovesOn, ReminderInv, telegramVars
<1>3. \A r \in Sends : r # s => SendInv(r)'
  BY <1>1, <1>2, OtherSends DEF ReminderInv, CampaignInv, MovesOn
<1>5. campaign'.targets # << >> /\ IsInjective(campaign'.targets)
  BY <1>1 DEF ReminderInv, CampaignInv
<1> QED
  BY <1>1, <1>2, <1>3, <1>5 DEF ReminderInv, CampaignInv

\* The status is as it was, and no send steps back from what it tells.
LEMMA StatusStays ==
    ASSUME StatusIsOfASend, campaign'.status = campaign.status,
           \A r \in Sends : send[r].at = "done" => send'[r].at = "done" /\ rows'[r] = rows[r],
           \A r \in Sends : send[r].at \in {"entry", "record", "logs", "close", "dead"}
                               => send'[r].at \in {"entry", "record", "logs", "close", "dead"}
    PROVE  StatusIsOfASend'
<1>1. CASE campaign.status \in {"completed", "failed"}
  <2>1. PICK r \in Sends : /\ send[r].at = "done"
                           /\ (campaign.status = "failed") <=> ("failed" \in ToSet(rows[r]))
    BY <1>1 DEF StatusIsOfASend
  <2>2. send'[r].at = "done" /\ rows'[r] = rows[r]
    BY <2>1
  <2> QED
    BY <1>1, <2>1, <2>2 DEF StatusIsOfASend
<1>2. CASE campaign.status = "sending"
  BY <1>2 DEF StatusIsOfASend
<1>3. CASE campaign.status \notin {"completed", "failed", "sending"}
  BY <1>3 DEF StatusIsOfASend
<1> QED
  BY <1>1, <1>2, <1>3

\* What Logged makes of the send.
LEMMA LoggedFacts ==
    ASSUME TypeOK, NEW s \in Sends, send[s] \in Send, NEW outcome \in Outcomes,
           send' = Logged(s, outcome)
    PROVE  \E next \in Send :
              /\ send' = [send EXCEPT ![s] = next]
              /\ next.logs = Append(send[s].logs, outcome)
              /\ next.entry = send[s].entry + 1
              /\ next.at = IF send[s].entry = Len(campaign.targets) * Len(Channels)
                           THEN "logs" ELSE "entry"
              /\ next.seen = send[s].seen /\ next.silenced = send[s].silenced
<1>1. PICK at \in {"logs", "entry"} :
         at = IF send[s].entry = Len(campaign.targets) * Len(Channels) THEN "logs" ELSE "entry"
  OBVIOUS
<1>2. PICK logs \in Seq(Outcomes) : logs = Append(send[s].logs, outcome)
  <2>1. send[s].logs \in Seq(Outcomes)
    BY SendKinds
  <2> QED
    BY <2>1, AppendProperties
<1>3. PICK entry \in Nat : entry = send[s].entry + 1
  BY SendKinds
<1> DEFINE next == [send[s] EXCEPT !.logs = logs, !.entry = entry, !.at = at]
<1>4. /\ next \in Send /\ next.logs = logs /\ next.entry = entry /\ next.at = at
      /\ next.seen = send[s].seen /\ next.silenced = send[s].silenced
  BY DEF Send
<1>5. send' = [send EXCEPT ![s] = next]
  BY <1>1, <1>2, <1>3 DEF Logged, TypeOK
<1> HIDE DEF next
<1> QED
  BY <1>1, <1>2, <1>3, <1>4, <1>5

\* One entry is logged: the same for every channel and every outcome.
LEMMA ReminderInvLogged ==
    ASSUME ReminderInv, NEW s \in Sends, send[s].at \in {"entry", "record"},
           NEW outcome \in Outcomes, send' = Logged(s, outcome),
           \A r \in Sends : r # s => SameSend(r),
           UNCHANGED <<campaign, rows, telegramVars>>,
           took' \in [Sends -> SUBSET Entries(campaign.targets)],
           unheard' \in [Sends -> SUBSET Nat],
           NEW e \in Nat, e = send[s].entry,
           took'[s] \subseteq 1..e,
           records' \subseteq Sends \X Members \X Outcomes,
           \A i \in 1..(e - 1), said \in Outcomes : ToldTruly(s, i, said) => ToldTruly(s, i, said)',
           ToldTruly(s, e, outcome)',
           NoRecordFrom(s, e + 1)',
           \A i \in took'[s] : ChannelOf(i) = "telegram" => MayTelegram(send[s].seen[TargetOf(i)])
    PROVE  ReminderInv'
<1>1. send[s] \in Send
  BY SendKinds DEF ReminderInv
<1>2. PICK next \in Send :
              /\ send' = [send EXCEPT ![s] = next]
              /\ next.logs = Append(send[s].logs, outcome)
              /\ next.entry = send[s].entry + 1
              /\ next.at = IF send[s].entry = Len(campaign.targets) * Len(Channels)
                           THEN "logs" ELSE "entry"
              /\ next.seen = send[s].seen /\ next.silenced = send[s].silenced
  BY <1>1, LoggedFacts DEF ReminderInv
<1>3. campaign' = campaign /\ rows' = rows /\ contested' = contested
  BY DEF telegramVars
<1>4. \E status \in Statuses : campaign' = [campaign EXCEPT !.status = status]
  BY <1>3 DEF ReminderInv, TypeOK
<1>5. MovesOn(s, next)
  BY <1>2, <1>3, <1>4 DEF MovesOn, ReminderInv, TypeOK
<1>6. send'[s] = next /\ \A r \in Sends : r # s => send'[r] = send[r]
  BY <1>5, MovesOnTyped DEF ReminderInv
<1>7. PICK all \in Nat : all = Len(campaign.targets) * Len(Channels)
  BY EntryFacts, ChannelFacts DEF ReminderInv, TypeOK
<1>8. /\ e \in 1..all /\ send[s].logs \in Seq(Outcomes)
      /\ Len(send[s].logs) = e - 1 /\ LogsTell(s, send[s].logs)
      /\ campaign.status # "none"
  BY <1>1, <1>7, SendKinds DEF ReminderInv, CampaignInv, SendInv, Progress, IdleSend
<1>9. /\ next.logs \in Seq(Outcomes) /\ Len(next.logs) = e
      /\ \A i \in 1..(e - 1) : next.logs[i] = send[s].logs[i]
      /\ next.logs[e] = outcome
  BY <1>2, <1>8
<1>10. LogsTell(s, next.logs)'
  <2>1. \A i \in 1..(e - 1) : next.logs[i] \in Outcomes /\ ToldTruly(s, i, next.logs[i])
    <3>1. DOMAIN send[s].logs = 1..(e - 1) /\ DOMAIN next.logs = 1..e
      BY <1>8, <1>9
    <3>2. \A i \in 1..(e - 1) : ToldTruly(s, i, send[s].logs[i])
      BY <1>8, <3>1 DEF LogsTell
    <3>3. \A i \in 1..(e - 1) : i \in 1..e
      OBVIOUS
    <3>4. \A i \in 1..e : next.logs[i] \in Outcomes
      BY <1>9, <3>1
    <3> QED
      BY <1>9, <3>2, <3>3, <3>4
  <2>2. \A i \in DOMAIN next.logs : i \in 1..(e - 1) \/ i = e
    BY <1>8, <1>9
  <2>3. PICK logs : logs = next.logs
    OBVIOUS
  <2>4. \A i \in 1..(e - 1) : ToldTruly(s, i, logs[i])'
    BY <2>1, <2>3
  <2>5. ToldTruly(s, e, logs[e])'
    BY <1>9, <2>3
  <2>6. \A i \in DOMAIN logs : ToldTruly(s, i, logs[i])'
    BY <2>2, <2>3, <2>4, <2>5
  <2> QED
    BY <2>3, <2>6 DEF LogsTell
<1>11. rows[s] = << >>
  BY DEF ReminderInv, CampaignInv, SendInv, Progress
<1>12. Progress(s)'
  <2>1. next.at \in {"entry", "logs"}
    BY <1>2
  <2>2. next.at = "entry" => next.entry \in 1..all /\ Len(next.logs) = next.entry - 1
    <3>1. next.entry = e + 1 /\ Len(next.logs) = e
      BY <1>2, <1>9
    <3>2. next.at = "entry" => e # all
      BY <1>2, <1>7
    <3> QED
      BY <1>8, <3>1, <3>2
  <2>3. next.at = "logs" => Len(next.logs) = all
    BY <1>2, <1>7, <1>9
  <2>4. next.at = "entry" => took'[s] \subseteq 1..(next.entry - 1) /\ NoRecordFrom(s, next.entry)'
    BY <1>2, <1>8
  <2>5. LogsTell(s, send[s].logs)'
    BY <1>6, <1>10 DEF LogsTell, ToldTruly, Delivered
  <2>6. send'[s].at = "entry" => NoRecordFrom(s, send[s].entry)'
    BY <2>4, <1>6 DEF NoRecordFrom
  <2>7. send'[s].at \in {"entry", "logs"} /\ Len(campaign'.targets) * Len(Channels) = all
    BY <2>1, <1>3, <1>6, <1>7
  <2> QED
    BY <2>2, <2>3, <2>4, <2>5, <2>6, <2>7, <1>3, <1>6, <1>11 DEF Progress
<1>13. StoredTell(s)'
  BY <1>3, <1>11 DEF StoredTell
<1>14. SeenAsked(s)'
  <2>1. \A i \in took'[s] : ChannelOf(i)' = ChannelOf(i) /\ TargetOf(i)' = TargetOf(i)
    BY <1>3 DEF ChannelOf, TargetOf
  <2> QED
    BY <2>1, <1>1, <1>2, <1>3, <1>6 DEF SeenAsked, ReminderInv, CampaignInv, SendInv, MayTelegram
<1>15. SendInv(s)'
  BY <1>3, <1>8, <1>12, <1>13, <1>14 DEF SendInv
<1>16. StatusIsOfASend'
  BY <1>2, <1>3, <1>6, StatusStays DEF ReminderInv, CampaignInv
<1> QED
  BY <1>3, <1>5, <1>8, <1>15, <1>16, CampaignInvMovesOn

LEMMA ReminderInvTelegram ==
    ASSUME ReminderInv, NEW s \in Sends, Telegram(s) PROVE ReminderInv'
<1>1. PICK e \in Nat : e = send[s].entry /\ e \in Entries(campaign.targets) /\ e \in 1..e
  BY SendKinds, EntryFacts, ChannelFacts
     DEF Telegram, ReminderInv, TypeOK, CampaignInv, SendInv, Progress, Entries
<1>2. /\ send[s].at = "entry" /\ ChannelOf(e) = "telegram"
      /\ took \in [Sends -> SUBSET Entries(campaign.targets)] /\ unheard \in [Sends -> SUBSET Nat]
      /\ took[s] \subseteq 1..(e - 1) /\ NoRecordFrom(s, e)
      /\ \A i \in took[s] : ChannelOf(i) = "telegram" => MayTelegram(send[s].seen[TargetOf(i)])
      /\ campaign' = campaign /\ records' = records /\ rows' = rows
      /\ UNCHANGED telegramVars
  BY <1>1, SendKinds
     DEF Telegram, ReminderInv, TypeOK, CampaignInv, SendInv, Progress, SeenAsked
<1>3. records' \subseteq Sends \X Members \X Outcomes
  BY <1>2 DEF ReminderInv, TypeOK
<1>4. \A i : TargetOf(i)' = TargetOf(i) /\ ChannelOf(i)' = ChannelOf(i)
  BY <1>2 DEF TargetOf, ChannelOf
<1>5. Entries(campaign.targets)' = Entries(campaign.targets)
  BY <1>2 DEF Entries
<1>6. NoRecordFrom(s, e + 1)'
  BY <1>1, <1>2, <1>4, <1>5, EntryFacts DEF NoRecordFrom, ReminderInv, TypeOK
<1>7. PICK taken \in SUBSET {e}, lost \in SUBSET {e}, outcome \in Outcomes :
         /\ took' = [took EXCEPT ![s] = @ \cup taken]
         /\ unheard' = [unheard EXCEPT ![s] = @ \cup lost]
         /\ send' = Logged(s, outcome)
         /\ outcome = "sent" => e \in taken
         /\ e \in taken => outcome = "sent" \/ e \in lost
         /\ e \in taken => MayTelegram(send[s].seen[TargetOf(e)])
  <2>1. CASE /\ MayTelegram(send[s].seen[TargetOf(send[s].entry)])
             /\ took' = [took EXCEPT ![s] = @ \cup {send[s].entry}]
             /\ send' = Logged(s, "sent") /\ UNCHANGED unheard
    <3>1. /\ "sent" \in Outcomes /\ {e} \in SUBSET {e} /\ {} \in SUBSET {e}
          /\ took' = [took EXCEPT ![s] = @ \cup {e}]
          /\ unheard' = [unheard EXCEPT ![s] = @ \cup {}]
      BY <2>1, <1>1, <1>2 DEF Outcomes
    <3> QED
      BY <3>1, <2>1, <1>1
  <2>2. CASE /\ MayTelegram(send[s].seen[TargetOf(send[s].entry)])
             /\ took' = [took EXCEPT ![s] = @ \cup {send[s].entry}]
             /\ send' = Logged(s, "failed")
             /\ unheard' = [unheard EXCEPT ![s] = @ \cup {send[s].entry}]
    <3>1. /\ "failed" \in Outcomes /\ {e} \in SUBSET {e}
          /\ took' = [took EXCEPT ![s] = @ \cup {e}]
          /\ unheard' = [unheard EXCEPT ![s] = @ \cup {e}]
      BY <2>2, <1>1 DEF Outcomes
    <3> QED
      BY <3>1, <2>2, <1>1
  <2>3. CASE send' = Logged(s, "failed") /\ UNCHANGED <<took, unheard>>
    <3>1. /\ "failed" \in Outcomes /\ {} \in SUBSET {e}
          /\ took' = [took EXCEPT ![s] = @ \cup {}]
          /\ unheard' = [unheard EXCEPT ![s] = @ \cup {}]
      BY <2>3, <1>2 DEF Outcomes
    <3> QED
      BY <3>1, <2>3
  <2> QED
    BY <2>1, <2>2, <2>3 DEF Telegram
<1>8. /\ took' \in [Sends -> SUBSET Entries(campaign.targets)] /\ took'[s] = took[s] \cup taken
      /\ unheard' \in [Sends -> SUBSET Nat] /\ unheard'[s] = unheard[s] \cup lost
      /\ \A r \in Sends : r # s => took'[r] = took[r] /\ unheard'[r] = unheard[r]
  BY <1>1, <1>2, <1>7
<1>9. took'[s] \subseteq 1..e
  <2>1. took[s] \subseteq 1..(e - 1)
    BY <1>2
  <2>2. 1..(e - 1) \subseteq 1..e /\ e \in 1..e
    BY <1>1
  <2>3. took'[s] = took[s] \cup taken /\ taken \subseteq {e}
    BY <1>8
  <2> QED
    BY <2>1, <2>2, <2>3
<1>10. \A r \in Sends : r # s => SameSend(r)
  BY <1>2, <1>8 DEF SameSend
<1>11. \A i \in 1..(e - 1), said \in Outcomes : ToldTruly(s, i, said) => ToldTruly(s, i, said)'
  BY <1>1, <1>2, <1>4, <1>8 DEF ToldTruly, Delivered
<1>12. ToldTruly(s, e, outcome)'
  BY <1>1, <1>2, <1>4, <1>7, <1>8 DEF ToldTruly, Delivered
<1>13. \A i \in took'[s] : ChannelOf(i) = "telegram" => MayTelegram(send[s].seen[TargetOf(i)])
  BY <1>2, <1>7, <1>8
<1> QED
  BY <1>1, <1>2, <1>3, <1>6, <1>7, <1>8, <1>9, <1>10, <1>11, <1>12, <1>13, ReminderInvLogged

LEMMA ReminderInvStoreRecord ==
    ASSUME ReminderInv, NEW s \in Sends, StoreRecord(s) PROVE ReminderInv'
<1>1. PICK e \in Nat : e = send[s].entry /\ e \in Entries(campaign.targets) /\ e \in 1..e
  BY SendKinds, EntryFacts, ChannelFacts
     DEF StoreRecord, ReminderInv, TypeOK, CampaignInv, SendInv, Progress, Entries
<1>2. PICK outcome \in Outcomes : outcome = send[s].pushed
  BY SendKinds DEF StoreRecord, ReminderInv
<1>3. /\ send[s].at = "record" /\ ChannelOf(e) = "mobile_push"
      /\ took \in [Sends -> SUBSET Entries(campaign.targets)]
      /\ took[s] \subseteq 1..e /\ NoRecordFrom(s, e) /\ (outcome = "sent" => e \in took[s])
      /\ \A i \in took[s] : ChannelOf(i) = "telegram" => MayTelegram(send[s].seen[TargetOf(i)])
      /\ campaign' = campaign /\ took' = took /\ unheard' = unheard /\ rows' = rows
      /\ unheard \in [Sends -> SUBSET Nat]
      /\ UNCHANGED telegramVars
      /\ campaign.targets \in Seq(Members) /\ IsInjective(campaign.targets)
  BY <1>1, <1>2, SendKinds
     DEF StoreRecord, ReminderInv, TypeOK, CampaignInv, SendInv, Progress, SeenAsked, IdleSend
<1>4. PICK m \in Members : m = TargetOf(e)
  BY <1>1, <1>3, EntryFacts
<1>5. /\ records' = records \cup {<<s, m, outcome>>}
      /\ send' = Logged(s, outcome)
      /\ records \subseteq Sends \X Members \X Outcomes
  BY <1>1, <1>2, <1>4 DEF StoreRecord, ReminderInv, TypeOK
<1>6. \A i : TargetOf(i)' = TargetOf(i) /\ ChannelOf(i)' = ChannelOf(i)
  BY <1>3 DEF TargetOf, ChannelOf
<1>7. Entries(campaign.targets)' = Entries(campaign.targets)
  BY <1>3 DEF Entries
<1>8. \A i \in Entries(campaign.targets) :
         i # e /\ ChannelOf(i) = "mobile_push" => TargetOf(i) # m
  BY <1>1, <1>3, <1>4, OnePushEach
<1>9. \A i \in Entries(campaign.targets) :
         i # e /\ ChannelOf(i) = "mobile_push" =>
            (<<s, TargetOf(i), "sent">> \in records' <=> <<s, TargetOf(i), "sent">> \in records)
  BY <1>5, <1>8
<1>10. NoRecordFrom(s, e + 1)'
  <2>1. \A j \in Entries(campaign.targets) : e + 1 <= j => e <= j /\ j # e
    BY <1>1, <1>3, EntryFacts
  <2> QED
    BY <2>1, <1>3, <1>6, <1>7, <1>9 DEF NoRecordFrom
<1>11. \A i \in 1..(e - 1), said \in Outcomes : ToldTruly(s, i, said) => ToldTruly(s, i, said)'
  <2>1. \A i \in 1..(e - 1) : i \in Entries(campaign.targets) /\ i # e
    BY <1>1, <1>3, EntryFacts
  <2> QED
    BY <2>1, <1>3, <1>6, <1>9 DEF ToldTruly, Delivered
<1>12. ToldTruly(s, e, outcome)'
  <2>1. outcome = "sent" => <<s, m, "sent">> \in records'
    BY <1>5
  <2>2. <<s, m, "sent">> \notin records
    BY <1>1, <1>3, <1>4 DEF NoRecordFrom
  <2>3. <<s, m, "sent">> \in records' => outcome = "sent"
    BY <1>5, <2>2
  <2> QED
    BY <2>1, <2>3, <1>3, <1>4, <1>6 DEF ToldTruly, Delivered
<1>13. \A r \in Sends : r # s => SameSend(r)
  BY <1>3, <1>5 DEF SameSend
<1>14. records' \subseteq Sends \X Members \X Outcomes
  BY <1>5
<1>15. UNCHANGED <<campaign, rows, telegramVars>>
  BY <1>3
<1>16. /\ took' \in [Sends -> SUBSET Entries(campaign.targets)] /\ took'[s] \subseteq 1..e
       /\ unheard' \in [Sends -> SUBSET Nat]
       /\ \A i \in took'[s] : ChannelOf(i) = "telegram" => MayTelegram(send[s].seen[TargetOf(i)])
  BY <1>3
<1>17. send[s].at \in {"entry", "record"} /\ send' = Logged(s, outcome)
  BY <1>3, <1>5
<1> QED
  BY <1>1, <1>10, <1>11, <1>12, <1>13, <1>14, <1>15, <1>16, <1>17, ReminderInvLogged

\* The same without the record.
LEMMA ReminderInvDeliveryThrows ==
    ASSUME ReminderInv, NEW s \in Sends, DeliveryThrows(s) PROVE ReminderInv'
<1>1. PICK e \in Nat : e = send[s].entry /\ e \in Entries(campaign.targets) /\ e \in 1..e
  BY SendKinds, EntryFacts, ChannelFacts
     DEF DeliveryThrows, ReminderInv, TypeOK, CampaignInv, SendInv, Progress, Entries
<1>2. PICK outcome \in Outcomes : outcome = "failed"
  BY DEF Outcomes
<1>3. /\ send[s].at = "record" /\ ChannelOf(e) = "mobile_push"
      /\ took \in [Sends -> SUBSET Entries(campaign.targets)]
      /\ took[s] \subseteq 1..e /\ NoRecordFrom(s, e)
      /\ \A i \in took[s] : ChannelOf(i) = "telegram" => MayTelegram(send[s].seen[TargetOf(i)])
      /\ campaign' = campaign /\ took' = took /\ rows' = rows /\ records' = records
      /\ unheard' = unheard /\ unheard \in [Sends -> SUBSET Nat]
      /\ UNCHANGED telegramVars
      /\ campaign.targets \in Seq(Members)
      /\ records \subseteq Sends \X Members \X Outcomes
  BY <1>1, SendKinds
     DEF DeliveryThrows, ReminderInv, TypeOK, CampaignInv, SendInv, Progress, SeenAsked
<1>4. \A i : TargetOf(i)' = TargetOf(i) /\ ChannelOf(i)' = ChannelOf(i)
  BY <1>3 DEF TargetOf, ChannelOf
<1>5. Entries(campaign.targets)' = Entries(campaign.targets)
  BY <1>3 DEF Entries
<1>6. NoRecordFrom(s, e + 1)'
  BY <1>1, <1>3, <1>4, <1>5, EntryFacts DEF NoRecordFrom
<1>7. \A i \in 1..(e - 1), said \in Outcomes : ToldTruly(s, i, said) => ToldTruly(s, i, said)'
  BY <1>3, <1>4 DEF ToldTruly, Delivered
<1>8. ToldTruly(s, e, outcome)'
  BY <1>1, <1>2, <1>3, <1>4 DEF ToldTruly, Delivered, NoRecordFrom
<1>9. \A r \in Sends : r # s => SameSend(r)
  BY <1>3 DEF SameSend
<1>10. /\ UNCHANGED <<campaign, rows, telegramVars>> /\ records' \subseteq Sends \X Members \X Outcomes
       /\ took' \in [Sends -> SUBSET Entries(campaign.targets)] /\ took'[s] \subseteq 1..e
       /\ unheard' \in [Sends -> SUBSET Nat]
       /\ \A i \in took'[s] : ChannelOf(i) = "telegram" => MayTelegram(send[s].seen[TargetOf(i)])
  BY <1>3
<1>11. send[s].at \in {"entry", "record"} /\ send' = Logged(s, outcome)
  BY <1>2 DEF DeliveryThrows
<1> QED
  BY <1>1, <1>6, <1>7, <1>8, <1>9, <1>10, <1>11, ReminderInvLogged

LEMMA ReminderInvPush ==
    ASSUME ReminderInv, NEW s \in Sends, Push(s) PROVE ReminderInv'
<1>1. PICK e \in Nat : e = send[s].entry /\ e \in Entries(campaign.targets) /\ e \in 1..e
  BY SendKinds, EntryFacts, ChannelFacts
     DEF Push, ReminderInv, TypeOK, CampaignInv, SendInv, Progress, Entries
<1>2. /\ send[s].at = "entry" /\ send[s] \in Send /\ ChannelOf(e) = "mobile_push"
      /\ took \in [Sends -> SUBSET Entries(campaign.targets)]
      /\ took[s] \subseteq 1..(e - 1) /\ NoRecordFrom(s, e) /\ Len(send[s].logs) = e - 1
      /\ LogsTell(s, send[s].logs) /\ rows[s] = << >> /\ campaign.status # "none"
      /\ send[s].logs \in Seq(Outcomes)
      /\ campaign' = campaign /\ records' = records /\ rows' = rows
      /\ unheard' = unheard /\ unheard \in [Sends -> SUBSET Nat]
      /\ UNCHANGED telegramVars
  BY <1>1, SendKinds
     DEF Push, ReminderInv, TypeOK, CampaignInv, SendInv, Progress, IdleSend
<1>3. PICK outcome \in Outcomes, taken \in SUBSET {e} :
          /\ took' = [took EXCEPT ![s] = @ \cup taken]
          /\ outcome = "sent" => e \in taken
          /\ send' = [send EXCEPT ![s].at = "record", ![s].pushed = outcome]
  <2>1. PICK outcome \in Outcomes :
            /\ \/ took' = [took EXCEPT ![s] = @ \cup {e}]
               \/ outcome = "failed" /\ UNCHANGED took
            /\ send' = [send EXCEPT ![s].at = "record", ![s].pushed = outcome]
    BY <1>1 DEF Push
  <2>2. CASE took' = [took EXCEPT ![s] = @ \cup {e}]
    BY <2>1, <2>2
  <2>3. CASE outcome = "failed" /\ took' = took
    <3>1. took' = [took EXCEPT ![s] = @ \cup {}] /\ {} \in SUBSET {e}
      BY <2>3, <1>2
    <3> QED
      BY <2>1, <2>3, <3>1
  <2> QED
    BY <2>1, <2>2, <2>3
<1> DEFINE next == [send[s] EXCEPT !.at = "record", !.pushed = outcome]
<1>4. /\ next \in Send /\ next.at = "record" /\ next.pushed = outcome
      /\ next.entry = e /\ next.logs = send[s].logs /\ next.seen = send[s].seen
      /\ next.silenced = send[s].silenced
  BY <1>1, <1>2 DEF Send
<1>5. send' = [send EXCEPT ![s] = next]
  BY <1>3 DEF ReminderInv, TypeOK
<1> HIDE DEF next
<1>6. /\ took' \in [Sends -> SUBSET Entries(campaign.targets)]
      /\ took'[s] = took[s] \cup taken
      /\ \A r \in Sends : r # s => took'[r] = took[r]
  BY <1>1, <1>2, <1>3
<1>7. \E status \in Statuses : campaign' = [campaign EXCEPT !.status = status]
  BY <1>2 DEF ReminderInv, TypeOK
<1>8. MovesOn(s, next)
  BY <1>2, <1>5, <1>6, <1>7 DEF MovesOn, SameSend, ReminderInv, TypeOK
<1>9. send'[s] = next /\ \A r \in Sends : r # s => send'[r] = send[r]
  BY <1>4, <1>8, MovesOnTyped DEF ReminderInv
<1>10. \A i : TargetOf(i)' = TargetOf(i) /\ ChannelOf(i)' = ChannelOf(i)
  BY <1>2 DEF TargetOf, ChannelOf
<1>11. Entries(campaign.targets)' = Entries(campaign.targets)
  BY <1>2 DEF Entries
<1>12. LogsTell(s, send[s].logs)'
  <2>1. DOMAIN next.logs = 1..(e - 1)
    BY <1>1, <1>2, <1>4
  <2>2. \A i \in 1..(e - 1) : ToldTruly(s, i, next.logs[i])
    BY <1>2, <1>4, <2>1 DEF LogsTell
  <2>3. \A i \in 1..(e - 1) : i \in took'[s] <=> i \in took[s]
    BY <1>1, <1>6
  <2>4. PICK logs : logs = next.logs
    OBVIOUS
  <2>5. \A i \in 1..(e - 1) : ToldTruly(s, i, logs[i])'
    BY <1>2, <1>10, <2>2, <2>3, <2>4 DEF ToldTruly, Delivered
  <2> QED
    BY <1>9, <2>1, <2>4, <2>5 DEF LogsTell
<1>13. Progress(s)'
  <2>1. e \in 1..(Len(campaign.targets) * Len(Channels))
    BY <1>1 DEF Entries
  <2>2. took'[s] \subseteq 1..e /\ (outcome = "sent" => e \in took'[s])
    <3>1. 1..(e - 1) \subseteq 1..e /\ e \in 1..e
      BY <1>1
    <3>2. took[s] \subseteq 1..(e - 1)
      BY <1>2
    <3>3. (outcome = "sent" => e \in taken) /\ taken \subseteq {e}
      BY <1>3
    <3> QED
      BY <1>6, <3>1, <3>2, <3>3
  <2>3. NoRecordFrom(s, send[s].entry)'
    BY <1>2, <1>4, <1>9, <1>10, <1>11 DEF NoRecordFrom
  <2>4. ChannelOf(send[s].entry)' = "mobile_push"
    BY <1>2, <1>4, <1>9, <1>10 DEF ChannelOf
  <2>5. /\ send'[s].at = "record" /\ send'[s].entry = e /\ send'[s].logs = send[s].logs
        /\ send'[s].pushed = outcome
    BY <1>4, <1>9
  <2> QED
    BY <1>2, <1>12, <2>1, <2>2, <2>3, <2>4, <2>5 DEF Progress
<1>14. StoredTell(s)'
  BY <1>2 DEF StoredTell
<1>15. SeenAsked(s)'
  <2>1. SeenAsked(s) /\ contested' = contested
    BY <1>2 DEF ReminderInv, CampaignInv, SendInv, telegramVars
  <2>2. \A i \in took'[s] : i \in took[s] \/ ChannelOf(i) = "mobile_push"
    BY <1>2, <1>6
  <2> QED
    BY <1>2, <1>4, <1>9, <1>10, <2>1, <2>2 DEF SeenAsked, MayTelegram
<1>16. SendInv(s)'
  BY <1>2, <1>13, <1>14, <1>15 DEF SendInv
<1>17. StatusIsOfASend'
  BY <1>2, <1>4, <1>9, StatusStays DEF ReminderInv, CampaignInv
<1> QED
  BY <1>2, <1>4, <1>8, <1>16, <1>17, CampaignInvMovesOn

\* A send that has not taken anything yet.
LEMMA SendInvFresh ==
    ASSUME ReminderInv, NEW s \in Sends, NEW next \in NewSend \cup Send, MovesOn(s, next),
           send[s].at \in {"idle", "members", "mark"}, UNCHANGED <<took, unheard, records, rows>>,
           next.at \in {"members", "mark", "dead"},
           next.at = "mark" => next \in Send /\ next.entry = 1 /\ next.logs = << >>,
           next \in Send => \A m \in Members :
              next.seen[m].chat \in next.silenced \ contested => ~MayTelegram(next.seen[m]),
           campaign'.status # "none"
    PROVE  SendInv(s)'
<1>1. send'[s] = next
  BY MovesOnTyped DEF ReminderInv
<1>2. /\ took'[s] = {} /\ rows'[s] = << >> /\ records' = records
      /\ \A m \in Members, o \in Outcomes : <<s, m, o>> \notin records
  BY DEF ReminderInv, CampaignInv, SendInv, Progress
<1>3. contested' = contested
  BY DEF MovesOn, telegramVars
<1>4. Progress(s)'
  BY <1>1, <1>2 DEF Progress
<1>5. StoredTell(s)' /\ SeenAsked(s)'
  BY <1>1, <1>2, <1>3 DEF StoredTell, SeenAsked, MayTelegram
<1> QED
  BY <1>4, <1>5 DEF SendInv

LEMMA ReminderInvStartSend ==
    ASSUME ReminderInv, NEW s \in Sends, StartSend(s) PROVE ReminderInv'
<1> DEFINE next == [at |-> "members", doc |-> campaign.status]
<1>1. next \in NewSend /\ next.at = "members" /\ next \notin Send
  BY DEF NewSend, Send, ReminderInv, TypeOK
<1>2. send' = [send EXCEPT ![s] = next] /\ campaign.status # "none"
  BY DEF StartSend
<1> HIDE DEF next
<1>3. /\ send[s] = IdleSend /\ send[s].at = "idle"
      /\ UNCHANGED <<campaign, took, unheard, records, rows, telegramVars>>
  BY DEF StartSend, IdleSend
<1>4. MovesOn(s, next)
  BY <1>2, <1>3 DEF MovesOn, SameSend, ReminderInv, TypeOK
<1>5. send'[s] = next /\ \A r \in Sends : r # s => send'[r] = send[r]
  BY <1>1, <1>4, MovesOnTyped DEF ReminderInv
<1>6. SendInv(s)'
  BY <1>1, <1>2, <1>3, <1>4, SendInvFresh
<1>7. StatusIsOfASend'
  BY <1>3, <1>5, StatusStays DEF ReminderInv, CampaignInv
<1> QED
  BY <1>1, <1>2, <1>3, <1>4, <1>6, <1>7, CampaignInvMovesOn

\* The members are read with their subscriptions, and the chats that were quiet then.
LEMMA ReminderInvReadMembers ==
    ASSUME ReminderInv, NEW s \in Sends, ReadMembers(s) PROVE ReminderInv'
<1>1. /\ send[s].at = "members" /\ send[s] \in NewSend /\ campaign.status # "none"
      /\ UNCHANGED <<campaign, took, unheard, records, rows, telegramVars>>
  BY SendKinds DEF ReadMembers, ReminderInv, CampaignInv, SendInv, IdleSend
<1> DEFINE next == [at |-> "mark", doc |-> send[s].doc, seen |-> member,
                    silenced |-> quiet, entry |-> 1, pushed |-> "failed", logs |-> << >>]
<1>2. /\ next \in Send /\ next.at = "mark" /\ next.entry = 1 /\ next.logs = << >>
      /\ next.seen = member /\ next.silenced = quiet
  BY <1>1 DEF NewSend, Send, ReminderInv, TypeOK, TelegramTypeOK, Outcomes
<1>3. send' = [send EXCEPT ![s] = next]
  BY DEF ReadMembers, ReminderInv, TypeOK
<1> HIDE DEF next
<1>4. MovesOn(s, next)
  BY <1>1, <1>3 DEF MovesOn, SameSend, ReminderInv, TypeOK
<1>5. send'[s] = next /\ \A r \in Sends : r # s => send'[r] = send[r]
  BY <1>2, <1>4, MovesOnTyped DEF ReminderInv
<1>6. \A m \in Members : next.seen[m].chat \in next.silenced \ contested => ~MayTelegram(next.seen[m])
  BY <1>2 DEF ReminderInv, TelegramInv, QuietGetsNone
<1>7. SendInv(s)'
  BY <1>1, <1>2, <1>4, <1>6, SendInvFresh
<1>8. StatusIsOfASend'
  BY <1>1, <1>5, StatusStays DEF ReminderInv, CampaignInv
<1> QED
  BY <1>1, <1>2, <1>4, <1>7, <1>8, CampaignInvMovesOn

LEMMA ReminderInvMarkSending ==
    ASSUME ReminderInv, NEW s \in Sends, MarkSending(s) PROVE ReminderInv'
<1>1. /\ send[s].at = "mark" /\ send[s] \in Send /\ campaign.status # "none"
      /\ send[s].entry = 1 /\ send[s].logs = << >> /\ took[s] = {} /\ rows[s] = << >>
      /\ \A m \in Members, o \in Outcomes : <<s, m, o>> \notin records
      /\ campaign.targets \in Seq(Members) /\ campaign.targets # << >>
      /\ UNCHANGED <<took, unheard, records, rows, telegramVars>>
  BY SendKinds DEF MarkSending, ReminderInv, TypeOK, CampaignInv, SendInv, Progress, IdleSend
<1>2. PICK status \in Statuses : /\ campaign' = [campaign EXCEPT !.status = status]
                                 /\ status = "sending" \/ status = campaign.status
  BY DEF MarkSending, ReminderInv, TypeOK, Statuses
<1> DEFINE next == [send[s] EXCEPT !.doc = "sending", !.at = "entry"]
<1>3. /\ next \in Send /\ next.at = "entry" /\ next.entry = 1 /\ next.logs = << >>
      /\ next.seen = send[s].seen /\ next.silenced = send[s].silenced
  BY <1>1 DEF Send, Statuses
<1>4. send' = [send EXCEPT ![s] = next]
  BY DEF MarkSending, ReminderInv, TypeOK
<1> HIDE DEF next
<1>5. MovesOn(s, next)
  BY <1>1, <1>2, <1>4 DEF MovesOn, SameSend, ReminderInv, TypeOK
<1>6. /\ send'[s] = next /\ \A r \in Sends : r # s => send'[r] = send[r]
      /\ campaign'.targets = campaign.targets
  BY <1>3, <1>5, MovesOnTyped DEF ReminderInv
<1>7. campaign'.status = status /\ campaign'.status # "none"
  BY <1>1, <1>2 DEF ReminderInv, TypeOK
<1>8. 1 \in 1..(Len(campaign.targets) * Len(Channels))
  <2>1. PICK n \in Nat : n = Len(campaign.targets)
    BY <1>1
  <2>2. n # 0
    BY <1>1, <2>1, EmptySeq
  <2> QED
    BY <2>1, <2>2, ChannelFacts
<1>9. Progress(s)'
  <2>1. \A i \in Entries(campaign.targets) :
           TargetOf(i) \in Members /\ TargetOf(i)' = TargetOf(i)
    BY <1>1, <1>6, EntryFacts DEF TargetOf
  <2>2. NoRecordFrom(s, send[s].entry)'
    BY <1>1, <1>6, <2>1 DEF NoRecordFrom, Entries, Outcomes
  <2>3. LogsTell(s, send[s].logs)'
    BY <1>3, <1>6 DEF LogsTell
  <2>4. Len(next.logs) = next.entry - 1
    BY <1>3
  <2> QED
    BY <1>1, <1>3, <1>6, <1>8, <2>2, <2>3, <2>4 DEF Progress
<1>10. StoredTell(s)' /\ SeenAsked(s)'
  <2>1. contested' = contested
    BY <1>1 DEF telegramVars
  <2> QED
    BY <2>1, <1>1, <1>3, <1>6 DEF StoredTell, SeenAsked, MayTelegram, ReminderInv, CampaignInv, SendInv
<1>11. SendInv(s)'
  BY <1>7, <1>9, <1>10 DEF SendInv
<1>12. StatusIsOfASend'
  <2>1. CASE status = "sending"
    BY <2>1, <1>3, <1>6, <1>7 DEF StatusIsOfASend
  <2>2. CASE status = campaign.status
    BY <2>2, <1>1, <1>3, <1>6, <1>7, StatusStays DEF ReminderInv, CampaignInv
  <2> QED
    BY <2>1, <2>2, <1>2
<1> QED
  BY <1>1, <1>3, <1>5, <1>7, <1>11, <1>12, CampaignInvMovesOn

\* What send s stored is told truly while its documents stay as they are.
LEMMA StoredStays ==
    ASSUME TypeOK, NEW s \in Sends, StoredTell(s), SameSend(s), campaign'.targets = campaign.targets
    PROVE  StoredTell(s)'
<1>1. rows[s] \in Seq(Outcomes) /\ campaign.targets \in Seq(Members)
  BY DEF TypeOK
<1>2. rows[s] # << >> => Len(rows[s]) = Len(campaign.targets) * Len(Channels)
  BY DEF StoredTell
<1>3. PICK n \in Nat, r \in Seq(Outcomes) :
         n = Len(campaign.targets) * Len(Channels) /\ r = rows[s]
  BY <1>1, ChannelFacts
<1>4. rows[s] # << >> => (LogsTell(s, r)' <=> LogsTell(s, r))
  BY <1>1, <1>2, <1>3, SameTelling
<1>5. rows[s] # << >> => LogsTell(s, rows[s])'
  BY <1>3, <1>4 DEF StoredTell, LogsTell, SameSend
<1> QED
  BY <1>2, <1>5 DEF StoredTell, SameSend

\* A send that stops where it is: what it has stored and taken stays true.
LEMMA SendInvDies ==
    ASSUME TypeOK, NEW s \in Sends, SendInv(s), SameSend(s), send[s] # IdleSend,
           send'[s] = [send[s] EXCEPT !.at = "dead"],
           campaign'.targets = campaign.targets, campaign'.status # "none",
           contested' = contested
    PROVE  SendInv(s)' /\ send'[s] \in NewSend \cup Send /\ send'[s].at = "dead"
<1>1. StoredTell(s)'
  BY StoredStays DEF SendInv
<1>2. CASE send[s] \in NewSend
  <2>1. send'[s] \in NewSend /\ send'[s].at = "dead" /\ send'[s] \notin Send /\ send[s] \notin Send
    BY <1>2 DEF NewSend, Send
  <2>2. took'[s] = {}
    BY <2>1 DEF SendInv, SeenAsked, SameSend
  <2> QED
    BY <1>1, <2>1, <2>2 DEF SendInv, Progress, SeenAsked
<1>3. CASE send[s] \in Send
  <2>1. /\ send'[s] \in Send /\ send'[s].at = "dead" /\ send'[s].seen = send[s].seen
        /\ send'[s].silenced = send[s].silenced
    BY <1>3 DEF Send
  <2>2. \A i : TargetOf(i)' = TargetOf(i) /\ ChannelOf(i)' = ChannelOf(i)
    BY DEF TargetOf, ChannelOf
  <2>3. SeenAsked(s)'
    BY <1>3, <2>1, <2>2 DEF SendInv, SeenAsked, SameSend, MayTelegram
  <2> QED
    BY <1>1, <2>1, <2>3 DEF SendInv, Progress
<1> QED
  BY <1>2, <1>3 DEF TypeOK

\* The log is stored as it was collected.
LEMMA ReminderInvStoreLogs ==
    ASSUME ReminderInv, NEW s \in Sends, StoreLogs(s) PROVE ReminderInv'
<1>1. /\ send[s].at = "logs" /\ send[s] \in Send /\ campaign.status # "none"
      /\ UNCHANGED <<campaign, took, unheard, records, telegramVars>>
      /\ rows \in [Sends -> Seq(Outcomes)] /\ send[s].logs \in Seq(Outcomes)
      /\ Len(send[s].logs) = Len(campaign.targets) * Len(Channels) /\ LogsTell(s, send[s].logs)
  BY SendKinds DEF StoreLogs, ReminderInv, TypeOK, CampaignInv, SendInv, Progress, IdleSend
<1> DEFINE next == [send[s] EXCEPT !.at = "close"]
<1>2. /\ next \in Send /\ next.at = "close" /\ next.logs = send[s].logs
      /\ next.seen = send[s].seen /\ next.silenced = send[s].silenced
  BY <1>1 DEF Send
<1>3. send' = [send EXCEPT ![s] = next]
  BY DEF StoreLogs, ReminderInv, TypeOK
<1> HIDE DEF next
<1>4. PICK logs \in Seq(Outcomes) : logs = send[s].logs
  BY <1>1
<1>5. /\ rows' \in [Sends -> Seq(Outcomes)] /\ rows'[s] = logs
      /\ \A r \in Sends : r # s => rows'[r] = rows[r]
  BY <1>1, <1>4 DEF StoreLogs
<1>6. \E status \in Statuses : campaign' = [campaign EXCEPT !.status = status]
  BY <1>1 DEF ReminderInv, TypeOK
<1>7. MovesOn(s, next)
  BY <1>1, <1>3, <1>5, <1>6 DEF MovesOn, SameSend, ReminderInv, TypeOK
<1>8. send'[s] = next /\ \A r \in Sends : r # s => send'[r] = send[r]
  BY <1>2, <1>7, MovesOnTyped DEF ReminderInv
<1>9. LogsTell(s, logs)'
  <2>1. \A i : TargetOf(i)' = TargetOf(i) /\ ChannelOf(i)' = ChannelOf(i)
    BY <1>1 DEF TargetOf, ChannelOf
  <2> QED
    BY <1>1, <1>4, <2>1 DEF LogsTell, ToldTruly, Delivered
<1>10. StoredTell(s)' /\ LogsTell(s, send[s].logs)'
  BY <1>1, <1>2, <1>4, <1>5, <1>8, <1>9 DEF StoredTell, LogsTell
<1>11. Progress(s)'
  BY <1>1, <1>2, <1>4, <1>5, <1>8, <1>10 DEF Progress
<1>12. SeenAsked(s)'
  <2>1. \A i : TargetOf(i)' = TargetOf(i) /\ ChannelOf(i)' = ChannelOf(i)
    BY <1>1 DEF TargetOf, ChannelOf
  <2>2. contested' = contested /\ took' = took /\ SeenAsked(s)
    BY <1>1 DEF telegramVars, ReminderInv, CampaignInv, SendInv
  <2> QED
    BY <1>1, <1>2, <1>8, <2>1, <2>2 DEF SeenAsked, MayTelegram
<1>13. SendInv(s)'
  BY <1>1, <1>10, <1>11, <1>12 DEF SendInv
<1>14. StatusIsOfASend'
  BY <1>1, <1>2, <1>5, <1>8, StatusStays DEF ReminderInv, CampaignInv
<1> QED
  BY <1>1, <1>2, <1>7, <1>13, <1>14, CampaignInvMovesOn

\* The verdict over the log is the campaign's status.
LEMMA ReminderInvClose ==
    ASSUME ReminderInv, NEW s \in Sends, Close(s) PROVE ReminderInv'
<1>1. /\ send[s].at = "close" /\ send[s] \in Send
      /\ UNCHANGED <<took, unheard, records, rows, telegramVars>>
      /\ send[s].logs \in Seq(Outcomes) /\ rows[s] = send[s].logs
      /\ Len(send[s].logs) = Len(campaign.targets) * Len(Channels) /\ LogsTell(s, send[s].logs)
  BY SendKinds DEF Close, ReminderInv, TypeOK, CampaignInv, SendInv, Progress
<1> DEFINE next == [send[s] EXCEPT !.at = "done"]
<1>2. /\ next \in Send /\ next.at = "done" /\ next.logs = send[s].logs
      /\ next.seen = send[s].seen /\ next.silenced = send[s].silenced
  BY <1>1 DEF Send
<1>3. send' = [send EXCEPT ![s] = next]
  BY DEF Close, ReminderInv, TypeOK
<1> HIDE DEF next
<1>4. PICK logs \in Seq(Outcomes) : logs = send[s].logs
  BY <1>1
<1>5. PICK status \in Statuses : /\ campaign' = [campaign EXCEPT !.status = status]
                                 /\ status = Verdict(logs)
  BY <1>4 DEF Close, Verdict, Statuses
<1>6. MovesOn(s, next)
  BY <1>1, <1>3, <1>5 DEF MovesOn, SameSend, ReminderInv, TypeOK
<1>7. /\ send'[s] = next /\ \A r \in Sends : r # s => send'[r] = send[r]
      /\ campaign'.targets = campaign.targets
  BY <1>2, <1>6, MovesOnTyped DEF ReminderInv
<1>8. campaign'.status = status /\ status \in {"failed", "completed"} /\ campaign.status # "none"
  BY <1>1, <1>5 DEF ReminderInv, TypeOK, Verdict, CampaignInv, SendInv, IdleSend
<1>9. \A i : TargetOf(i)' = TargetOf(i) /\ ChannelOf(i)' = ChannelOf(i)
  BY <1>7 DEF TargetOf, ChannelOf
<1>10. LogsTell(s, logs)'
  BY <1>1, <1>4, <1>9 DEF LogsTell, ToldTruly, Delivered
<1>11. StoredTell(s)' /\ LogsTell(s, send[s].logs)'
  BY <1>1, <1>2, <1>4, <1>7, <1>10 DEF StoredTell, LogsTell
<1>12. Progress(s)'
  BY <1>1, <1>2, <1>4, <1>7, <1>11 DEF Progress
<1>13. SeenAsked(s)'
  <2>1. contested' = contested /\ took' = took /\ SeenAsked(s)
    BY <1>1 DEF telegramVars, ReminderInv, CampaignInv, SendInv
  <2> QED
    BY <1>1, <1>2, <1>7, <1>9, <2>1 DEF SeenAsked, MayTelegram
<1>14. SendInv(s)'
  BY <1>8, <1>11, <1>12, <1>13 DEF SendInv
<1>15. StatusIsOfASend'
  <2>1. rows'[s] = logs /\ send'[s].at = "done"
    BY <1>1, <1>2, <1>4, <1>7
  <2>2. Contains(logs, "failed") <=> "failed" \in ToSet(logs)
    BY <1>4 DEF Contains, ToSet
  <2>3. status = "failed" <=> "failed" \in ToSet(logs)
    BY <1>5, <2>2 DEF Verdict
  <2> QED
    BY <1>8, <2>1, <2>3 DEF StatusIsOfASend
<1> QED
  BY <1>2, <1>6, <1>8, <1>14, <1>15, CampaignInvMovesOn

LEMMA ReminderInvSendThrows ==
    ASSUME ReminderInv, NEW s \in Sends, SendThrows(s) PROVE ReminderInv'
<1>1. /\ send[s].at \in {"members", "mark", "logs", "close"} /\ send[s] # IdleSend
      /\ send[s] \in NewSend \cup Send
      /\ campaign.status # "none" /\ SendInv(s) /\ TypeOK
      /\ UNCHANGED <<campaign, took, unheard, records, rows, telegramVars>>
  BY SendKinds DEF SendThrows, ReminderInv, CampaignInv, SendInv, IdleSend
<1> DEFINE next == [send[s] EXCEPT !.at = "dead"]
<1>2. next \in NewSend \cup Send /\ next.at = "dead"
  BY <1>1 DEF NewSend, Send
<1>3. send' = [send EXCEPT ![s] = next]
  BY <1>1 DEF SendThrows, TypeOK
<1>4. send'[s] = [send[s] EXCEPT !.at = "dead"]
  BY <1>1, <1>3 DEF TypeOK
<1> HIDE DEF next
<1>5. MovesOn(s, next)
  BY <1>1, <1>3 DEF MovesOn, SameSend, TypeOK
<1>6. send'[s] = next /\ \A r \in Sends : r # s => send'[r] = send[r]
  BY <1>1, <1>2, <1>5, MovesOnTyped
<1>7. SameSend(s) /\ contested' = contested
  BY <1>1 DEF SameSend, telegramVars
<1>8. SendInv(s)'
  BY <1>1, <1>4, <1>7, SendInvDies
<1>9. StatusIsOfASend'
  BY <1>1, <1>2, <1>6, StatusStays DEF ReminderInv, CampaignInv
<1> QED
  BY <1>1, <1>2, <1>5, <1>8, <1>9, CampaignInvMovesOn

-----------------------------------------------------------------------------
(* The steps that are not one send's.                                          *)

\* Before there is a campaign nobody sends it.
LEMMA ReminderInvCreateCampaign ==
    ASSUME ReminderInv, ReminderConstants, NEW w \in Workloads, NEW scheduled \in BOOLEAN,
           CreateCampaign(w.targets, scheduled)
    PROVE  ReminderInv'
<1>1. PICK targets \in Seq(Members) : targets = w.targets
  BY DEF ReminderConstants
<1>2. IsInjective(targets)
  BY <1>1 DEF ReminderConstants
<1>3. PICK status \in {"scheduled", "draft"} : status = IF scheduled THEN "scheduled" ELSE "draft"
  OBVIOUS
<1>4. /\ campaign.status = "none" /\ targets # << >>
      /\ campaign' = [status |-> status, targets |-> targets]
      /\ UNCHANGED <<send, took, unheard, records, rows, telegramVars>>
  BY <1>1, <1>3 DEF CreateCampaign
<1>5. \A s \in Sends : send[s] = IdleSend
  BY <1>4 DEF ReminderInv, CampaignInv, SendInv
<1>6. \A s \in Sends : /\ took[s] = {} /\ rows[s] = << >>
                       /\ \A m \in Members, o \in Outcomes : <<s, m, o>> \notin records
  <2> SUFFICES ASSUME NEW s \in Sends
               PROVE  /\ took[s] = {} /\ rows[s] = << >>
                      /\ \A m \in Members, o \in Outcomes : <<s, m, o>> \notin records
    OBVIOUS
  <2>1. send[s].at = "idle" /\ Progress(s)
    BY <1>5 DEF IdleSend, ReminderInv, CampaignInv, SendInv
  <2> QED
    BY <2>1 DEF Progress
<1>7. campaign' \in [status: Statuses, targets: Seq(Members)]
  BY <1>4 DEF Statuses
<1>8. \A s \in Sends : took'[s] = {}
  BY <1>4, <1>6
<1>9. took' \in [Sends -> SUBSET Entries(campaign.targets)']
  BY <1>4, <1>8 DEF ReminderInv, TypeOK
<1>10. TelegramInv' /\ contested' = contested
  BY <1>4, TelegramInvStutter DEF ReminderInv, telegramVars
<1>11. TypeOK'
  BY <1>4, <1>7, <1>9, <1>10 DEF TypeOK, ReminderInv, TelegramInv
<1>12. campaign'.status = status /\ campaign'.targets = targets /\ status # "none"
  BY <1>4
<1>13. \A s \in Sends : SendInv(s)'
  <2> SUFFICES ASSUME NEW s \in Sends PROVE SendInv(s)'
    OBVIOUS
  <2>1. send'[s].at = "idle" /\ send'[s] \notin Send
    BY <1>4, <1>5 DEF IdleSend, Send
  <2>2. Progress(s)'
    BY <1>4, <1>6, <2>1 DEF Progress
  <2>3. StoredTell(s)' /\ SeenAsked(s)'
    BY <1>4, <1>6, <2>1 DEF StoredTell, SeenAsked
  <2> QED
    BY <1>12, <2>2, <2>3 DEF SendInv
<1>14. StatusIsOfASend'
  BY <1>12 DEF StatusIsOfASend
<1> QED
  BY <1>2, <1>4, <1>10, <1>11, <1>12, <1>13, <1>14 DEF ReminderInv, CampaignInv

\* A restart stops the sends and the messages that were being worked on.
LEMMA ReminderInvCrash == ASSUME ReminderInv, Crash PROVE ReminderInv'
<1>1. /\ UNCHANGED <<campaign, took, unheard, records, rows>>
      /\ UNCHANGED <<member, code, commands, contested, touched, quiet>>
      /\ TypeOK /\ contested' = contested
  BY DEF Crash, ReminderInv
<1>2. TelegramInv'
  BY <1>1, TelegramInvCrash DEF Crash, ReminderInv
<1>3. \A s \in Sends : SameSend(s)
  BY <1>1 DEF SameSend
<1>4. \A s \in Sends : \/ send[s].at \in {"idle", "done", "dead"} /\ send'[s] = send[s]
                       \/ /\ send[s].at \notin {"idle", "done", "dead"}
                          /\ send'[s] = [send[s] EXCEPT !.at = "dead"]
  BY DEF Crash
<1>5. ASSUME NEW s \in Sends
      PROVE  /\ SendInv(s)' /\ send'[s] \in {IdleSend} \cup NewSend \cup Send
             /\ send'[s] = send[s] \/ (send'[s].at = "dead" /\ send[s].at # "done")
  <2>0. SendInv(s)
    BY DEF ReminderInv, CampaignInv
  <2>1. CASE send'[s] = send[s]
    BY <2>0, <2>1, <1>1, <1>3, OtherSends DEF TypeOK
  <2>2. CASE /\ send[s].at \notin {"idle", "done", "dead"}
             /\ send'[s] = [send[s] EXCEPT !.at = "dead"]
    <3>1. send[s] # IdleSend
      BY <2>2 DEF IdleSend
    <3>2. campaign'.status # "none"
      BY <3>1, <2>0, <1>1 DEF SendInv
    <3> QED
      BY <2>0, <2>2, <1>1, <1>3, <3>1, <3>2, SendInvDies
  <2> QED
    BY <1>4, <2>1, <2>2
<1>6. send' \in [Sends -> {IdleSend} \cup NewSend \cup Send]
  BY <1>5 DEF Crash
<1>7. TypeOK'
  BY <1>1, <1>2, <1>6 DEF TypeOK, Entries, TelegramInv
<1>8. StatusIsOfASend'
  BY <1>1, <1>5, StatusStays DEF ReminderInv, CampaignInv
<1> QED
  BY <1>1, <1>2, <1>5, <1>7, <1>8 DEF ReminderInv, CampaignInv

\* The sends do not look at the subscriptions again.
LEMMA ReminderInvSubscriptionStep ==
    ASSUME ReminderInv, TelegramInv', contested \subseteq contested', UNCHANGED reminderVars
    PROVE  ReminderInv'
<1>1. UNCHANGED <<campaign, send, took, unheard, records, rows>>
  BY DEF reminderVars
<1>2. TypeOK'
  BY <1>1 DEF ReminderInv, TypeOK, TelegramInv, Entries
<1>3. \A s \in Sends : SendInv(s)'
  BY <1>1, OtherSends DEF ReminderInv, CampaignInv, SameSend
<1>4. StatusIsOfASend'
  BY <1>1 DEF ReminderInv, CampaignInv, StatusIsOfASend
<1> QED
  BY <1>1, <1>2, <1>3, <1>4 DEF ReminderInv, CampaignInv

LEMMA ReminderInvInit == ASSUME Init, TelegramConstants PROVE ReminderInv
<1>1. TelegramInv
  BY TelegramInvInit
<1>2. TypeOK
  BY <1>1 DEF Init, TypeOK, TelegramInv, Statuses
<1>3. \A s \in Sends : SendInv(s)
  BY DEF Init, SendInv, Progress, StoredTell, SeenAsked, IdleSend, Send
<1>4. StatusIsOfASend
  BY DEF Init, StatusIsOfASend
<1> QED
  BY <1>1, <1>2, <1>3, <1>4 DEF Init, ReminderInv, CampaignInv

LEMMA ReminderInvNext == ASSUME ReminderInv, [Next]_vars PROVE ReminderInv'
<1>1. contested \subseteq contested'
  BY ContestedGrows DEF ReminderInv, TelegramInv
<1>2. CASE \E w \in Workloads, scheduled \in BOOLEAN :
              Arrived \subseteq w.requests /\ CreateCampaign(w.targets, scheduled)
  BY <1>2, ReminderConstants, ReminderInvCreateCampaign
<1>3. CASE \E s \in Sends : (Fits(s) /\ StartSend(s)) \/ SendStep(s) \/ SendThrows(s)
  BY <1>3, ReminderInvStartSend, ReminderInvReadMembers, ReminderInvMarkSending, ReminderInvTelegram,
     ReminderInvPush, ReminderInvStoreRecord, ReminderInvDeliveryThrows, ReminderInvStoreLogs,
     ReminderInvClose, ReminderInvSendThrows DEF SendStep
<1>4. CASE Crash
  BY <1>4, ReminderInvCrash
<1>5. CASE /\ \/ \E l \in Links, c \in Codes, chat \in Chats : Fits(l) /\ StartLink(l, c, chat)
              \/ \E c \in Codes : Fits(c) /\ AskForCode(c)
              \/ TelegramStep
           /\ UNCHANGED reminderVars
  <2>1. TelegramInv'
    BY <1>5, TelegramInvStep DEF ReminderInv
  <2> QED
    BY <1>1, <1>5, <2>1, ReminderInvSubscriptionStep
<1>6. CASE UNCHANGED vars
  <2>1. UNCHANGED telegramVars /\ UNCHANGED reminderVars
    BY <1>6 DEF vars
  <2>2. TelegramInv'
    BY <2>1, TelegramInvStutter DEF ReminderInv
  <2> QED
    BY <1>1, <2>1, <2>2, ReminderInvSubscriptionStep
<1> QED
  BY <1>2, <1>3, <1>4, <1>5, <1>6 DEF Next

-----------------------------------------------------------------------------
(* The theorems.                                                               *)

(* The documents, the messages and sends in flight and what the providers took  *)
(* stay in step, whatever interleaves, throws or stops.                        *)
THEOREM RemindersInvariance == Spec => []ReminderInv
<1>1. Init => ReminderInv
  BY ReminderInvInit, TelegramConstants
<1>2. ReminderInv /\ [Next]_vars => ReminderInv'
  BY ReminderInvNext
<1> QED
  BY <1>1, <1>2, PTL DEF Spec

(* The members, codes, messages, sends and logs keep their shapes.             *)
THEOREM RemindersAreTyped == Spec => []TypeOK
<1>1. ReminderInv => TypeOK
  BY DEF ReminderInv
<1> QED
  BY <1>1, RemindersInvariance, PTL

(* A link holds what linkChatId promises: two members share a chat only when     *)
(* /link messages contested it, and a member that no other request changed since *)
(* the message read it gets the reminders in that chat.                        *)
THEOREM LinksHoldTheorem == Spec => []LinksHold
<1>1. ReminderInv => LinksHold
  BY DEF ReminderInv, TelegramInv
<1> QED
  BY <1>1, RemindersInvariance, PTL

(* What a send stored is one entry for each target and channel, each telling   *)
(* its delivery, and the campaign's status is the verdict of one of the sends. *)
THEOREM CampaignTellsDeliveriesTheorem == Spec => []CampaignTellsDeliveries
<1>1. ASSUME ReminderInv PROVE CampaignTellsDeliveries
  <2>1. ASSUME NEW s \in Sends, rows[s] # << >>
        PROVE  /\ DOMAIN rows[s] = Entries(campaign.targets)
               /\ \A i \in Entries(campaign.targets) : ToldTruly(s, i, rows[s][i])
    <3>1. rows[s] \in Seq(Outcomes) /\ StoredTell(s)
      BY <1>1 DEF ReminderInv, TypeOK, CampaignInv, SendInv
    <3>2. DOMAIN rows[s] = Entries(campaign.targets)
      BY <2>1, <3>1 DEF StoredTell, Entries
    <3> QED
      BY <2>1, <3>1, <3>2 DEF StoredTell, LogsTell
  <2>2. LogsTellDeliveries
    BY <2>1 DEF LogsTellDeliveries, ToldTruly
  <2> QED
    BY <1>1, <2>2 DEF CampaignTellsDeliveries, ReminderInv, CampaignInv
<1> QED
  BY <1>1, RemindersInvariance, PTL

(* A chat that wanted no reminders when the send read the members gets none of   *)
(* it, unless /link messages contested the chat.                               *)
THEOREM UnsubscribedChatsStayQuietTheorem == Spec => []UnsubscribedChatsStayQuiet
<1>1. ASSUME ReminderInv PROVE UnsubscribedChatsStayQuiet
  <2> SUFFICES ASSUME NEW s \in Sends, NEW i \in took[s], ChannelOf(i) = "telegram"
               PROVE  send[s].seen[TargetOf(i)].chat \notin send[s].silenced \ contested
    BY DEF UnsubscribedChatsStayQuiet
  <2>1. SeenAsked(s)
    BY <1>1 DEF ReminderInv, CampaignInv, SendInv
  <2>2. i \in Entries(campaign.targets) /\ campaign.targets \in Seq(Members)
    BY <1>1 DEF ReminderInv, TypeOK
  <2>3. TargetOf(i) \in Members
    BY <2>2, EntryFacts
  <2>4. PICK m \in Members : m = TargetOf(i)
    BY <2>3
  <2>5. send[s] \in Send /\ MayTelegram(send[s].seen[m])
    BY <2>1, <2>4 DEF SeenAsked
  <2> QED
    BY <2>1, <2>4, <2>5 DEF SeenAsked
<1> QED
  BY <1>1, RemindersInvariance, PTL
=============================================================================
