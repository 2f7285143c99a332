--------------------------------- MODULE Chat ---------------------------------
(***************************************************************************)
(* Support conversations: ChatService, as the member's app and the support *)
(* console call it.                                                        *)
(*                                                                         *)
(* A request reads the conversation once, decides on what it read, and     *)
(* then writes the conversation, the message, the assignment, participant, *)
(* status-log, notification and audit rows one await at a time, each       *)
(* handler in an order of its own.  A request in flight is the document it *)
(* read, the document it holds, and the writes it still has to make.       *)
(* conversation.save() sends the changed fields only and compares no       *)
(* version (versionKey: false).                                            *)
(***************************************************************************)
EXTENDS Naturals, Sequences, FiniteSets, SequencesExt

CONSTANTS
    Conversations,
    Loans,          \* the member's loans, for conversations about one
    Staff,          \* console users
    RoleOf,         \* RoleOf[s]
    InScope,        \* managers whose branch or district is the member's
    Requests,       \* requests the server can have in flight at once
    MaxCalls,       \* bound: requests started
    MaxFailures     \* bound: writes that throw

ConsoleRoles == {"support_agent", "branch_manager", "district_officer", "district_manager",
                 "head_office_officer", "head_office_manager", "admin"}

Nobody == "nobody"
NoLoan == "no loan"

ASSUME ChatConstants ==
    /\ RoleOf \in [Staff -> ConsoleRoles]
    /\ Staff \cap {Nobody, "customer", "system"} = {}
    /\ InScope \subseteq Staff
    /\ MaxCalls \in Nat /\ MaxFailures \in Nat

VARIABLES
    conv,       \* chat_conversations
    messages,   \* chat_messages: the senders of each conversation, in order
    rows,       \* rows[c]: what the other collections hold about c
    notices,    \* notices[c]: how many notifications of a reply in c the member has
    reqs,       \* requests in flight
    calls,
    failures,
    held,       \* ghost: held[c], the staff a stored document of c has named
    stale       \* ghost: conversations written by a request that had not seen them last

vars == <<conv, messages, rows, notices, reqs, calls, failures, held, stale>>

-----------------------------------------------------------------------------
Active == {"open", "assigned", "waiting_customer", "waiting_agent"}
Finished == {"resolved", "closed"}
Routings == {"general", "branch", "district", "head_office"}

Doc == [status: Active \cup Finished, agent: Staff \cup {Nobody},
        loan: Loans \cup {NoLoan}, routing: Routings]
NoDoc == [status |-> "none", agent |-> Nobody, loan |-> NoLoan, routing |-> "general"]

Senders == {"customer", "system"} \cup Staff

\* A write: into which collection, and what it is about.
Row(table, about) == [table |-> table, about |-> about]
Save == Row("conversation", "save")
Message(sender) == Row("message", sender)

Rows ==
    {Row("assignment", s) : s \in Staff}
    \cup {Row("participant", p) : p \in Staff \cup {"customer and assistant"}}
    \cup {Row("status_log", st) : st \in Active \cup Finished}
    \cup {Row("notification", n) : n \in {"staff message", "reply", "assigned", "resolved"}}
    \cup {Row("audit", what) : what \in {"assignment", "reply"} \cup Active \cup Finished}
Writes == Rows \cup {Message(s) : s \in Senders} \cup {Save}

Request == [conv: Conversations, seen: Doc \cup {NoDoc}, next: Doc, todo: Seq(Writes)]
Idle == [todo |-> << >>]

Init ==
    /\ conv = [c \in Conversations |-> NoDoc]
    /\ messages = [c \in Conversations |-> << >>]
    /\ rows = [c \in Conversations |-> {}]
    /\ notices = [c \in Conversations |-> 0]
    /\ reqs = [r \in Requests |-> Idle]
    /\ calls = 0
    /\ failures = 0
    /\ held = [c \in Conversations |-> {}]
    /\ stale = {}

-----------------------------------------------------------------------------
(* The handlers: what they read and check, and the writes they go on to.    *)

\* Mutation of Writable: a closed conversation still takes messages.
WritableUnlessResolved(d) == d.status \notin {"none", "resolved"}

\* assertConversationWritable
Writable(d) == d.status \in Active

\* Mutation of MayAct: whose conversation it is does not matter.
MayActOnAnyones(s, d) ==
    /\ RoleOf[s] = "branch_manager" => s \in InScope /\ d.routing \in {"general", "branch"}
    /\ RoleOf[s] \in {"district_officer", "district_manager"}
          => s \in InScope /\ d.routing \in {"general", "district"}

\* assertSupportConversationAccess
MayAct(s, d) ==
    /\ RoleOf[s] = "branch_manager" => s \in InScope /\ d.routing \in {"general", "branch"}
    /\ RoleOf[s] \in {"district_officer", "district_manager"}
          => s \in InScope /\ d.routing \in {"general", "district"}
    /\ RoleOf[s] = "support_agent" => d.agent \in {s, Nobody}

Begin(r, c, next, todo) ==
    /\ reqs[r] = Idle
    /\ calls < MaxCalls
    /\ calls' = calls + 1
    /\ reqs' = [reqs EXCEPT ![r] = [conv |-> c, seen |-> conv[c], next |-> next, todo |-> todo]]
    /\ UNCHANGED <<conv, messages, rows, notices, failures, held, stale>>

\* createConversation found no active conversation about the loan; c is the id the
\* create will get.
Open(r, c, l, routing, asked) ==
    /\ conv[c] = NoDoc
    /\ \A q \in Requests : reqs[q] # Idle => reqs[q].conv # c
    /\ l = NoLoan => routing = "general"
    /\ l # NoLoan => /\ routing # "general"
                     /\ \A d \in Conversations :
                           ~(conv[d].loan = l /\ conv[d].status \in Active)
    /\ Begin(r, c,
          [status |-> IF asked THEN "waiting_agent" ELSE "open", agent |-> Nobody,
           loan |-> l, routing |-> routing],
          <<Save, Row("participant", "customer and assistant")>>
          \o (IF asked THEN <<Message("customer")>> ELSE << >>)
          \o <<Message("system"),
               Row("status_log", IF asked THEN "waiting_agent" ELSE "open")>>)

\* sendCustomerMessage
Send(r, c) ==
    /\ Writable(conv[c])
    /\ Begin(r, c, [conv[c] EXCEPT !.status = "waiting_agent"],
          <<Message("customer"), Row("status_log", "waiting_agent"), Save>>
          \o (IF conv[c].agent = Nobody THEN << >>
              ELSE <<Row("notification", "staff message")>>))

\* Mutation of Assign: the status stays as it was.
AssignKeepsStatus(r, c, s) ==
    /\ conv[c] # NoDoc
    /\ Begin(r, c, [conv[c] EXCEPT !.agent = s],
          <<Save, Row("assignment", s), Row("participant", s), Row("status_log", "assigned"),
            Row("audit", "assignment"), Row("notification", "assigned")>>)

\* assignConversation: any console user may give any conversation to any staff.
Assign(r, c, s) ==
    /\ conv[c] # NoDoc
    /\ Begin(r, c, [conv[c] EXCEPT !.agent = s, !.status = "assigned"],
          <<Save, Row("assignment", s), Row("participant", s), Row("status_log", "assigned"),
            Row("audit", "assignment"), Row("notification", "assigned")>>)

\* Mutation of Claim: the assignment row is forgotten.
ClaimSilently(s, d) == << >>

\* replyAsAgent records an assignment if the conversation was nobody's.
Claim(s, d) == IF d.agent = Nobody THEN <<Row("assignment", s)>> ELSE << >>
Answer(s) == <<Save, Message(s), Row("notification", "reply"), Row("audit", "reply")>>

\* Mutation of Reply: who has been answered already is not told of a second reply.
ReplyToldOnce(r, c, s) ==
    /\ Writable(conv[c])
    /\ MayAct(s, conv[c])
    /\ Begin(r, c,
          [conv[c] EXCEPT !.agent = IF @ = Nobody THEN s ELSE @, !.status = "waiting_customer"],
          Claim(s, conv[c]) \o (IF conv[c].status # "waiting_customer" THEN Answer(s)
                                ELSE <<Save, Message(s), Row("audit", "reply")>>))

Reply(r, c, s) ==
    /\ Writable(conv[c])
    /\ MayAct(s, conv[c])
    /\ Begin(r, c,
          [conv[c] EXCEPT !.agent = IF @ = Nobody THEN s ELSE @, !.status = "waiting_customer"],
          Claim(s, conv[c]) \o Answer(s))

\* updateConversationStatus, from any status to any the console sends.
SetStatus(r, c, s, status) ==
    /\ conv[c] # NoDoc
    /\ MayAct(s, conv[c])
    /\ Begin(r, c, [conv[c] EXCEPT !.status = status],
          <<Save, Row("status_log", status), Row("audit", status)>>
          \o (IF status = "resolved" THEN <<Row("notification", "resolved")>> ELSE << >>))

-----------------------------------------------------------------------------
(* The awaited writes, in the order of `todo`.                              *)

\* A field goes to the database only if the request changed it.
Merge(seen, next, current) ==
    [f \in DOMAIN current |-> IF next[f] # seen[f] THEN next[f] ELSE current[f]]

\* The request's document after a write, and what is left to do.
Done(r, seen) ==
    LET q == reqs[r]
    IN  reqs' = [reqs EXCEPT ![r] = IF Len(q.todo) = 1 THEN Idle
                                    ELSE [q EXCEPT !.seen = seen, !.todo = Tail(@)]]

\* The ghost: r writes to its conversation without having seen the document that
\* is stored now.
Touch(r) ==
    LET q == reqs[r]
    IN  stale' = IF q.seen = conv[q.conv] THEN stale ELSE stale \cup {q.conv}

SaveConversation(r) ==
    LET q == reqs[r]
        doc == Merge(q.seen, q.next, conv[q.conv])
    IN  /\ q # Idle /\ Head(q.todo) = Save
        /\ conv' = [conv EXCEPT ![q.conv] = doc]
        /\ held' = [held EXCEPT ![q.conv] = @ \cup ({doc.agent} \ {Nobody})]
        /\ Touch(r)
        /\ Done(r, doc)
        /\ UNCHANGED <<messages, rows, notices, calls, failures>>

StoreMessage(r) ==
    LET q == reqs[r]
    IN  /\ q # Idle /\ Head(q.todo).table = "message"
        /\ messages' = [messages EXCEPT ![q.conv] = Append(@, Head(q.todo).about)]
        /\ Touch(r)
        /\ Done(r, q.seen)
        /\ UNCHANGED <<conv, rows, notices, calls, failures, held>>

StoreRow(r) ==
    LET q == reqs[r]
    IN  /\ q # Idle /\ Head(q.todo) \in Rows
        /\ rows' = [rows EXCEPT ![q.conv] = @ \cup {Head(q.todo)}]
        /\ notices' = IF Head(q.todo) = Row("notification", "reply")
                      THEN [notices EXCEPT ![q.conv] = @ + 1] ELSE notices
        /\ Done(r, q.seen)
        /\ UNCHANGED <<conv, messages, calls, failures, held, stale>>

\* The next write throws, or the server stops.
Fail(r) ==
    /\ failures < MaxFailures
    /\ reqs[r] # Idle
    /\ reqs' = [reqs EXCEPT ![r] = Idle]
    /\ failures' = failures + 1
    /\ UNCHANGED <<conv, messages, rows, notices, calls, held, stale>>

Step(r) == SaveConversation(r) \/ StoreMessage(r) \/ StoreRow(r)

Next ==
    \E r \in Requests :
        \/ \E c \in Conversations :
              \/ \E l \in Loans \cup {NoLoan}, routing \in Routings, asked \in BOOLEAN :
                    Open(r, c, l, routing, asked)
              \/ Send(r, c)
              \/ \E s \in Staff :
                    \/ Assign(r, c, s)
                    \/ Reply(r, c, s)
                    \/ \E status \in (Active \ {"open"}) \cup Finished :
                          SetStatus(r, c, s, status)
        \/ Step(r)
        \/ Fail(r)

Spec == Init /\ [][Next]_vars

\* The server runs every request it has accepted to its end.
FairSpec == Spec /\ \A r \in Requests : WF_vars(Step(r))

-----------------------------------------------------------------------------
TypeOK ==
    /\ conv \in [Conversations -> Doc \cup {NoDoc}]
    /\ messages \in [Conversations -> Seq(Senders)]
    /\ rows \in [Conversations -> SUBSET Rows]
    /\ notices \in [Conversations -> Nat]
    /\ reqs \in [Requests -> Request \cup {Idle}]
    /\ calls \in 0..MaxCalls
    /\ failures \in 0..MaxFailures
    /\ held \in [Conversations -> SUBSET Staff]
    /\ stale \subseteq Conversations

\* Row x of c is written, or a request still has to write it, or a write was lost.
Accounted(c, x) ==
    \/ x \in rows[c]
    \/ \E r \in Requests : reqs[r] # Idle /\ reqs[r].conv = c /\ x \in ToSet(reqs[r].todo)
    \/ failures > 0

\* Whatever requests race, an active conversation that has an agent is in a status
\* listAssignedChats asks for: saves of single fields never leave one that by its
\* status is in neither the open queue nor its agent's list.
AssignedIsListed ==
    \A c \in Conversations :
        conv[c].agent # Nobody /\ conv[c].status \in Active
            => conv[c].status \in {"assigned", "waiting_customer", "waiting_agent"}

\* Only staff who may act on a conversation write in it: a support agent who did has
\* at some time been its agent, a manager has it in scope.
RepliesAreAuthorised ==
    \A c \in Conversations : \A s \in ToSet(messages[c]) \cap Staff :
        /\ RoleOf[s] = "support_agent" => s \in held[c]
        /\ RoleOf[s] = "branch_manager"
              => s \in InScope /\ conv[c].routing \in {"general", "branch"}

\* The stored agent of a conversation has an assignment row, and a finished
\* conversation a status-log row, once the requests in flight are done.
StateIsOnRecord ==
    \A c \in Conversations :
        /\ conv[c].agent # Nobody => Accounted(c, Row("assignment", conv[c].agent))
        /\ conv[c].status \in Finished => Accounted(c, Row("status_log", conv[c].status))

\* 'This chat conversation is no longer active.': a finished conversation takes no
\* message, unless a request wrote without having seen the document last.
FreshFinishedTakesNoMessage ==
    [][\A c \in Conversations \ stale' :
          conv[c].status \in Finished => messages'[c] = messages[c]]_vars

\* The replies of console users in a conversation.
Replies(c) == Cardinality({i \in 1..Len(messages[c]) : messages[c][i] \in Staff})

\* A member is notified of every reply, also of a second one of the same agent, but
\* for one that every throw may cost: again and again there are as many
\* notifications as replies.
RepliesReachTheMember ==
    \A c \in Conversations : []<>(Replies(c) <= notices[c] + failures)
=============================================================================
