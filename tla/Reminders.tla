------------------------------- MODULE Reminders -------------------------------
(***************************************************************************)
(* A campaign of loan reminders: NotificationCampaignService.sendCampaign  *)
(* over NotificationDeliveryService, with the Telegram subscriptions that  *)
(* decide who can be reached changing underneath (TelegramLinks).          *)
(*                                                                         *)
(* A send reads the campaign and the members once, then goes through every *)
(* target and channel, collecting one log entry for each; the entries and  *)
(* the campaign's final status are stored when all is over.  Nothing keeps *)
(* a manager from sending a campaign that is being sent, or was.           *)
(***************************************************************************)
EXTENDS TelegramLinks, Sequences, SequencesExt

CONSTANTS
    Sends,          \* requests to send the campaign
    Workloads       \* bound: the targets of the campaign and the requests that arrive

ASSUME ReminderConstants ==
    /\ Workloads \subseteq [targets: Seq(Members), requests: SUBSET (Sends \cup Links \cup Codes)]
    /\ \A w \in Workloads : IsInjective(w.targets)   \* what a query of the members finds

VARIABLES
    campaign,   \* notification_campaigns
    send,       \* the sends the server works on
    took,       \* took[s]: the entries of s a provider accepted
    unheard,    \* unheard[s]: those of them whose acceptance by Telegram never came back
    records,    \* notifications: what the members' notification centers got
    rows        \* notification_logs: rows[s], stored by s

reminderVars == <<campaign, send, took, unheard, records, rows>>
vars == <<reminderVars, telegramVars>>

-----------------------------------------------------------------------------
\* normalizeChannels puts mobile push first, whatever the manager chose.
Channels == <<"mobile_push", "telegram">>

\* The loop: for each target, for each channel.
Entries(targets) == 1 .. Len(targets) * Len(Channels)
TargetOf(i) == campaign.targets[((i - 1) \div Len(Channels)) + 1]
ChannelOf(i) == Channels[((i - 1) % Len(Channels)) + 1]

Statuses == {"none", "draft", "scheduled", "sending", "completed", "failed"}
Outcomes == {"sent", "failed"}
IdleSend == [at |-> "idle"]
NewSend == [at: {"members", "dead"}, doc: Statuses]
Send == [at: {"mark", "entry", "record", "logs", "close", "done", "dead"}, doc: Statuses,
         seen: [Members -> Subscription], entry: Nat, pushed: Outcomes, logs: Seq(Outcomes),
         silenced: SUBSET Chats]

TypeOK ==
    /\ TelegramTypeOK
    /\ campaign \in [status: Statuses, targets: Seq(Members)]
    /\ send \in [Sends -> {IdleSend} \cup NewSend \cup Send]
    /\ took \in [Sends -> SUBSET Entries(campaign.targets)]
    /\ unheard \in [Sends -> SUBSET Nat]
    /\ records \subseteq Sends \X Members \X Outcomes
    /\ rows \in [Sends -> Seq(Outcomes)]

Init ==
    /\ TelegramInit
    /\ campaign = [status |-> "none", targets |-> << >>]
    /\ send = [s \in Sends |-> IdleSend]
    /\ took = [s \in Sends |-> {}]
    /\ unheard = [s \in Sends |-> {}]
    /\ records = {}
    /\ rows = [s \in Sends |-> << >>]

Arrived == {s \in Sends : send[s] # IdleSend} \cup {l \in Links : link[l] # IdleLink}
           \cup {c \in Codes : code[c] # "none"}
Fits(r) ==
    \E w \in Workloads : /\ Arrived \cup {r} \subseteq w.requests
                         /\ campaign.status # "none" => campaign.targets = w.targets

-----------------------------------------------------------------------------
\* createCampaign: a campaign no member matches is refused.
CreateCampaign(targets, scheduled) ==
    /\ campaign.status = "none"
    /\ targets # << >>
    /\ campaign' = [status |-> IF scheduled THEN "scheduled" ELSE "draft", targets |-> targets]
    /\ UNCHANGED <<send, took, unheard, records, rows, telegramVars>>

\* sendCampaign, getCampaign: any status will do.
StartSend(s) ==
    /\ send[s] = IdleSend
    /\ campaign.status # "none"
    /\ send' = [send EXCEPT ![s] = [at |-> "members", doc |-> campaign.status]]
    /\ UNCHANGED <<campaign, took, unheard, records, rows, telegramVars>>

ReadMembers(s) ==
    /\ send[s].at = "members"
    /\ send' = [send EXCEPT ![s] = [at |-> "mark", doc |-> @.doc, seen |-> member,
                                    silenced |-> quiet, entry |-> 1, pushed |-> "failed",
                                    logs |-> << >>]]
    /\ UNCHANGED <<campaign, took, unheard, records, rows, telegramVars>>

MarkSending(s) ==
    /\ send[s].at = "mark"
    /\ campaign' = [campaign EXCEPT !.status = IF send[s].doc = "sending" THEN @ ELSE "sending"]
    /\ send' = [send EXCEPT ![s].doc = "sending", ![s].at = "entry"]
    /\ UNCHANGED <<took, unheard, records, rows, telegramVars>>

\* Mutation of MayTelegram: only the link counts.
MayTelegramLinked(d) == d.chat # NoChat

\* canReceiveTelegram, in a campaign of category loan
MayTelegram(d) == d.chat # NoChat /\ d.subscribed /\ d.loans

\* Mutation of Logged: the loop runs once too often.
LoggedOnceMore(s, outcome) ==
    [send EXCEPT ![s].logs = Append(@, outcome),
                 ![s].entry = @ + 1,
                 ![s].at = IF send[s].entry > Len(campaign.targets) * Len(Channels)
                           THEN "logs" ELSE "entry"]

\* One entry is logged and the loop goes on.
Logged(s, outcome) ==
    [send EXCEPT ![s].logs = Append(@, outcome),
                 ![s].entry = @ + 1,
                 ![s].at = IF send[s].entry = Len(campaign.targets) * Len(Channels)
                           THEN "logs" ELSE "entry"]

\* sendTextMessage answers failed as well when fetch throws after Telegram
\* accepted the message.
Telegram(s) ==
    /\ send[s].at = "entry"
    /\ ChannelOf(send[s].entry) = "telegram"
    /\ \/ /\ MayTelegram(send[s].seen[TargetOf(send[s].entry)])
          /\ took' = [took EXCEPT ![s] = @ \cup {send[s].entry}]
          /\ \/ send' = Logged(s, "sent") /\ UNCHANGED unheard
             \/ /\ send' = Logged(s, "failed")
                /\ unheard' = [unheard EXCEPT ![s] = @ \cup {send[s].entry}]
       \/ \* no recipient, or Telegram refuses the message or is never reached
          /\ send' = Logged(s, "failed")
          /\ UNCHANGED <<took, unheard>>
    /\ UNCHANGED <<campaign, records, rows, telegramVars>>

\* A push that failed may have reached the gateway or some of the devices.
Push(s) ==
    /\ send[s].at = "entry"
    /\ ChannelOf(send[s].entry) = "mobile_push"
    /\ \E outcome \in Outcomes :
          /\ \/ took' = [took EXCEPT ![s] = @ \cup {send[s].entry}]
             \/ outcome = "failed" /\ UNCHANGED took
          /\ send' = [send EXCEPT ![s].at = "record", ![s].pushed = outcome]
    /\ UNCHANGED <<campaign, unheard, records, rows, telegramVars>>

\* deliver stores the push in the member's notification center.
StoreRecord(s) ==
    /\ send[s].at = "record"
    /\ records' = records \cup {<<s, TargetOf(send[s].entry), send[s].pushed>>}
    /\ send' = Logged(s, send[s].pushed)
    /\ UNCHANGED <<campaign, took, unheard, rows, telegramVars>>

\* Mutation of DeliveryThrows: the catch moves on to the next entry.
DeliveryThrowsUnlogged(s) ==
    /\ send[s].at = "record"
    /\ send' = [send EXCEPT ![s].entry = @ + 1,
                            ![s].at = IF send[s].entry = Len(campaign.targets) * Len(Channels)
                                      THEN "logs" ELSE "entry"]
    /\ UNCHANGED <<campaign, took, unheard, records, rows, telegramVars>>

\* The push gateway or the store throws; the loop's catch logs a failure.
DeliveryThrows(s) ==
    /\ send[s].at = "record"
    /\ send' = Logged(s, "failed")
    /\ UNCHANGED <<campaign, took, unheard, records, rows, telegramVars>>

\* insertMany
StoreLogs(s) ==
    /\ send[s].at = "logs"
    /\ rows' = [rows EXCEPT ![s] = send[s].logs]
    /\ send' = [send EXCEPT ![s].at = "close"]
    /\ UNCHANGED <<campaign, took, unheard, records, telegramVars>>

Verdict(logs) == IF Contains(logs, "failed") THEN "failed" ELSE "completed"

\* Mutation of Close: only a campaign without failures is saved.
CloseCompleted(s) ==
    /\ send[s].at = "close"
    /\ campaign' = [campaign EXCEPT !.status =
                      IF Verdict(send[s].logs) = "completed" THEN "completed" ELSE @]
    /\ send' = [send EXCEPT ![s].at = "done"]
    /\ UNCHANGED <<took, unheard, records, rows, telegramVars>>

Close(s) ==
    /\ send[s].at = "close"
    /\ campaign' = [campaign EXCEPT !.status = Verdict(send[s].logs)]
    /\ send' = [send EXCEPT ![s].at = "done"]
    /\ UNCHANGED <<took, unheard, records, rows, telegramVars>>

\* An await outside the loop's try throws.
SendThrows(s) ==
    /\ send[s].at \in {"members", "mark", "logs", "close"}
    /\ send' = [send EXCEPT ![s].at = "dead"]
    /\ UNCHANGED <<campaign, took, unheard, records, rows, telegramVars>>

\* The server stops; nothing of what it worked on is taken up again.
Crash ==
    /\ \E s \in Sends : send[s].at \notin {"idle", "done", "dead"}
    /\ send' = [s \in Sends |-> IF send[s].at \in {"idle", "done", "dead"} THEN send[s]
                                ELSE [send[s] EXCEPT !.at = "dead"]]
    /\ link' = [l \in Links |-> IF InFlight(l) THEN [link[l] EXCEPT !.at = "dead"] ELSE link[l]]
    /\ UNCHANGED <<campaign, took, unheard, records, rows,
                   member, code, commands, contested, touched, quiet>>

SendStep(s) ==
    \/ ReadMembers(s) \/ MarkSending(s)
    \/ Telegram(s) \/ Push(s) \/ StoreRecord(s) \/ DeliveryThrows(s)
    \/ StoreLogs(s) \/ Close(s)

Next ==
    \/ \E w \in Workloads, scheduled \in BOOLEAN :
          /\ Arrived \subseteq w.requests
          /\ CreateCampaign(w.targets, scheduled)
    \/ \E s \in Sends : (Fits(s) /\ StartSend(s)) \/ SendStep(s) \/ SendThrows(s)
    \/ Crash
    \/ /\ \/ \E l \in Links, c \in Codes, chat \in Chats : Fits(l) /\ StartLink(l, c, chat)
          \/ \E c \in Codes : Fits(c) /\ AskForCode(c)
          \/ TelegramStep
       /\ UNCHANGED reminderVars

Spec == Init /\ [][Next]_vars

\* The server goes on with the sends it took; nobody has to send or to link.
FairSpec == Spec /\ \A s \in Sends : WF_vars(SendStep(s))

-----------------------------------------------------------------------------
\* A push is delivered when the member's notification center has it, too.
Delivered(s, i) ==
    /\ i \in took[s]
    /\ ChannelOf(i) = "mobile_push" => <<s, TargetOf(i), "sent">> \in records

(* A send that stored its log stored one entry for each target and channel, *)
(* in whatever way deliveries failed; an entry that says sent was           *)
(* delivered, and one that says failed was not, unless Telegram's answer    *)
(* got lost: the providers, the store and the catch of the loop together    *)
(* (sendCampaign, deliver, sendTextMessage).                                *)
LogsTellDeliveries ==
    \A s \in Sends : rows[s] # << >> =>
        /\ DOMAIN rows[s] = Entries(campaign.targets)
        /\ \A i \in Entries(campaign.targets) :
              /\ rows[s][i] = "sent" => Delivered(s, i)
              /\ Delivered(s, i) => rows[s][i] = "sent" \/ i \in unheard[s]

(* The campaign's status is what one of its sends came to: completed if all *)
(* of that send's entries were, failed otherwise; sending only while a send *)
(* goes on or after one died.  Two sends may write it in any order.         *)
StatusIsOfASend ==
    /\ campaign.status \in {"completed", "failed"} =>
          \E s \in Sends : /\ send[s].at = "done"
                           /\ (campaign.status = "failed") <=> ("failed" \in ToSet(rows[s]))
    /\ campaign.status = "sending" =>
          \E s \in Sends : send[s].at \in {"entry", "record", "logs", "close", "dead"}

(* What the console shows of a campaign can be trusted: each entry, and the *)
(* verdict over them.                                                       *)
CampaignTellsDeliveries == LogsTellDeliveries /\ StatusIsOfASend

(* A chat that unsubscribed, and was not linked or subscribed again, gets   *)
(* nothing from a send that read the members later, unless /link messages   *)
(* raced over the chat: the commands change one member of the chat, the     *)
(* send looks at members.                                                   *)
UnsubscribedChatsStayQuiet ==
    \A s \in Sends : \A i \in took[s] :
        ChannelOf(i) = "telegram" =>
            send[s].seen[TargetOf(i)].chat \notin send[s].silenced \ contested

(* A campaign is left in sending only by a send that died: sendCampaign     *)
(* catches what the deliveries throw and writes the final status.           *)
SendingEnds ==
    (campaign.status = "sending") ~>
        \/ campaign.status # "sending"
        \/ \E s \in Sends : send[s].at = "dead"
=============================================================================
