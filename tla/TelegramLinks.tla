----------------------------- MODULE TelegramLinks -----------------------------
(***************************************************************************)
(* Which Telegram chat a member's reminders go to, and whether they go:    *)
(* TelegramSubscriptionService.                                            *)
(*                                                                         *)
(* The bot's commands and the app's preferences are single updates.  The   *)
(* command /link <code> is not: it reads the code, reads the member, takes *)
(* the chat from whoever has it, saves the member and marks the code used, *)
(* one await after the other, and save() sends only the fields that differ *)
(* from what was read.                                                     *)
(***************************************************************************)
EXTENDS Naturals

CONSTANTS
    Members,
    Chats,
    NoChat,
    LinkedAtStart,  \* LinkedAtStart[m]: the chat m linked earlier, or NoChat
    Codes,          \* the link codes that get generated
    OwnerOf,        \* OwnerOf[c]: the member who asks for code c
    Links,          \* /link messages
    Choosers,       \* bound: the members who change their preferences in the app
    MaxCommands     \* bound: other commands and changes of preference

ASSUME TelegramConstants ==
    /\ NoChat \notin Chats
    /\ LinkedAtStart \in [Members -> Chats \cup {NoChat}]
    /\ \A m, n \in Members : m # n /\ LinkedAtStart[m] # NoChat
                                => LinkedAtStart[m] # LinkedAtStart[n]
    /\ OwnerOf \in [Codes -> Members]
    /\ Choosers \subseteq Members
    /\ MaxCommands \in Nat

VARIABLES
    member,     \* members: the fields the reminders depend on
    code,       \* telegram_link_codes
    link,       \* the /link messages the server works on
    commands,
    contested,  \* ghost: chats of links that were in flight together
    touched,    \* ghost: links whose member another request changed since they read it
    quiet       \* ghost: chats that asked for no loan reminders, and nothing since

telegramVars == <<member, code, link, commands, contested, touched, quiet>>

-----------------------------------------------------------------------------
Subscription == [chat: Chats \cup {NoChat}, subscribed: BOOLEAN, loans: BOOLEAN]
CodeStates == {"none", "generating", "unused", "expired", "used", "deleted"}

IdleLink == [at |-> "idle"]
NewLink == [at: {"code", "dead"}, code: Codes, chat: Chats]
ReadLink == [at: {"others", "save", "use", "done", "dead"}, code: Codes, chat: Chats,
             read: Subscription]

TelegramTypeOK ==
    /\ member \in [Members -> Subscription]
    /\ code \in [Codes -> CodeStates]
    /\ link \in [Links -> {IdleLink} \cup NewLink \cup ReadLink]
    /\ commands \in 0..MaxCommands
    /\ contested \subseteq Chats /\ touched \subseteq Links /\ quiet \subseteq Chats

TelegramInit ==
    /\ member = [m \in Members |-> [chat |-> LinkedAtStart[m],
                                    subscribed |-> LinkedAtStart[m] # NoChat, loans |-> TRUE]]
    /\ code = [c \in Codes |-> "none"]
    /\ link = [l \in Links |-> IdleLink]
    /\ commands = 0
    /\ contested = {} /\ touched = {} /\ quiet = {}

InFlight(l) == link[l].at \in {"code", "others", "save", "use"}
HasRead(l) == link[l].at \in {"others", "save", "use", "done"}
Owner(l) == OwnerOf[link[l].code]

\* Which links a change of member, made by other requests than those of own, touches.
TouchedBut(own) ==
    touched \cup {l \in Links \ own : HasRead(l) /\ member'[Owner(l)] # member[Owner(l)]}

-----------------------------------------------------------------------------
(* createLinkCode: deletes the member's unused codes, then stores the new one *)

AskForCode(c) ==
    /\ code[c] = "none"
    /\ code' = [d \in Codes |->
                  IF d = c THEN "generating"
                  ELSE IF OwnerOf[d] = OwnerOf[c] /\ code[d] \in {"unused", "expired"}
                       THEN "deleted" ELSE code[d]]
    /\ UNCHANGED <<member, link, commands, contested, touched, quiet>>

StoreCode(c) ==
    /\ code[c] = "generating"
    /\ code' = [code EXCEPT ![c] = "unused"]
    /\ UNCHANGED <<member, link, commands, contested, touched, quiet>>

ExpireCode(c) ==
    /\ code[c] = "unused"
    /\ code' = [code EXCEPT ![c] = "expired"]
    /\ UNCHANGED <<member, link, commands, contested, touched, quiet>>

-----------------------------------------------------------------------------
(* linkChatId.  A code that is not found ends the message with a reply only. *)

StartLink(l, c, chat) ==
    /\ link[l] = IdleLink
    /\ code[c] = "unused"
    /\ link' = [link EXCEPT ![l] = [at |-> "code", code |-> c, chat |-> chat]]
    /\ LET rivals == {k \in Links : InFlight(k) /\ (link[k].chat = chat \/ Owner(k) = OwnerOf[c])}
       IN  contested' = contested \cup {link[k].chat : k \in rivals}
                                  \cup (IF rivals = {} THEN {} ELSE {chat})
    /\ UNCHANGED <<member, code, commands, touched, quiet>>

ReadMember(l) ==
    /\ link[l].at = "code"
    /\ link' = [link EXCEPT ![l] = [at |-> "others", code |-> @.code, chat |-> @.chat,
                                    read |-> member[Owner(l)]]]
    /\ UNCHANGED <<member, code, commands, contested, touched, quiet>>

UnlinkOthers(l) ==
    /\ link[l].at = "others"
    /\ member' = [m \in Members |->
                    IF m # Owner(l) /\ member[m].chat = link[l].chat
                    THEN [member[m] EXCEPT !.chat = NoChat, !.subscribed = FALSE]
                    ELSE member[m]]
    /\ link' = [link EXCEPT ![l].at = "save"]
    /\ touched' = TouchedBut({l})
    /\ UNCHANGED <<code, commands, contested, quiet>>

\* save() of a document that was read as old and now holds new, over stored.
Saved(stored, old, new) ==
    [f \in DOMAIN stored |-> IF old[f] = new[f] THEN stored[f] ELSE new[f]]

Linked(l) == [chat |-> link[l].chat, subscribed |-> TRUE, loans |-> TRUE]

\* Mutation of SaveMember: a member who had opted out of loan reminders stays out.
SaveMemberNoOptIn(l) ==
    /\ link[l].at = "save"
    /\ member' = [member EXCEPT ![Owner(l)] =
                    Saved(@, link[l].read, [Linked(l) EXCEPT !.loans = link[l].read.loans])]
    /\ link' = [link EXCEPT ![l].at = "use"]
    /\ quiet' = quiet \ {link[l].chat}
    /\ touched' = TouchedBut({l})
    /\ UNCHANGED <<code, commands, contested>>

SaveMember(l) ==
    /\ link[l].at = "save"
    /\ member' = [member EXCEPT ![Owner(l)] = Saved(@, link[l].read, Linked(l))]
    /\ link' = [link EXCEPT ![l].at = "use"]
    /\ quiet' = quiet \ {link[l].chat}
    /\ touched' = TouchedBut({l})
    /\ UNCHANGED <<code, commands, contested>>

\* save() of a code that createLinkCode deleted in the meantime throws.
UseCode(l) ==
    /\ link[l].at = "use"
    /\ LET gone == code[link[l].code] = "deleted"
       IN  /\ link' = [link EXCEPT ![l].at = IF gone THEN "dead" ELSE "done"]
           /\ code' = IF gone THEN code ELSE [code EXCEPT ![link[l].code] = "used"]
    /\ UNCHANGED <<member, commands, contested, touched, quiet>>

LinkThrows(l) ==
    /\ InFlight(l)
    /\ link' = [link EXCEPT ![l].at = "dead"]
    /\ UNCHANGED <<member, code, commands, contested, touched, quiet>>

-----------------------------------------------------------------------------
(* The bot's other commands and the app's preferences.                      *)

\* findOneAndUpdate changes one member who has the chat.
Command(chat, changed, silent) ==
    /\ commands < MaxCommands
    /\ commands' = commands + 1
    /\ \E m \in Members : /\ member[m].chat = chat
                          /\ member' = [member EXCEPT ![m] = changed[m]]
    /\ touched' = TouchedBut({})
    /\ quiet' = IF silent THEN quiet \cup {chat} ELSE quiet \ {chat}
    /\ UNCHANGED <<code, link, contested>>

\* /stop, /unsubscribe
Unsubscribe(chat) ==
    Command(chat, [m \in Members |-> [member[m] EXCEPT !.subscribed = FALSE, !.loans = FALSE]], TRUE)

\* /unsubscribe_loan
UnsubscribeLoan(chat) ==
    Command(chat, [m \in Members |-> [member[m] EXCEPT !.loans = FALSE]], TRUE)

\* /subscribe_loan
SubscribeLoan(chat) ==
    Command(chat, [m \in Members |-> [member[m] EXCEPT !.subscribed = TRUE, !.loans = TRUE]], FALSE)

\* updateMyPreferences: each flag given or left out; a call that changes nothing is left out.
UpdatePreferences(m, subscribed, loans) ==
    /\ commands < MaxCommands
    /\ commands' = commands + 1
    /\ member' = [member EXCEPT ![m].subscribed = subscribed, ![m].loans = loans]
    /\ member' # member
    /\ touched' = TouchedBut({})
    /\ quiet' = quiet \ {member[m].chat}
    /\ UNCHANGED <<code, link, contested>>

LinkStep(l) == ReadMember(l) \/ UnlinkOthers(l) \/ SaveMember(l) \/ UseCode(l)

TelegramStep ==
    \/ \E c \in Codes : StoreCode(c) \/ ExpireCode(c)
    \/ \E l \in Links : LinkStep(l) \/ LinkThrows(l)
    \/ \E chat \in Chats : Unsubscribe(chat) \/ UnsubscribeLoan(chat) \/ SubscribeLoan(chat)
    \/ \E m \in Choosers, s, o \in BOOLEAN : UpdatePreferences(m, s, o)

-----------------------------------------------------------------------------
(* Two members share a chat only when two /link messages for the chat, or   *)
(* of one member, were being processed together: linkChatId takes the chat  *)
(* from the others and saves its member in two awaits.                      *)
ChatsAreExclusive ==
    \A m, n \in Members : m # n /\ member[m].chat = member[n].chat
                             => member[m].chat \in contested \cup {NoChat}

(* What linkChatId answers ("reminders are now linked ... will be sent here *)
(* while your subscription remains active") is so, unless another request   *)
(* changed the member since this one read it: the partial save then keeps   *)
(* the other's values.                                                      *)
LinkTakesEffect ==
    \A l \in Links : link[l].at \in {"use", "done"} /\ l \notin touched
                        => member[Owner(l)] = Linked(l)

(* A link holds what linkChatId promises: the chat is the member's alone,   *)
(* and the reminders go there.                                              *)
LinksHold == ChatsAreExclusive /\ LinkTakesEffect
=============================================================================
