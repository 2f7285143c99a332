# Verification of the Amhara Bank backend

TLA+ models of the core services of the bank's NestJS/MongoDB backend
(`src/backend/src/modules/`), the TLC runs that check them on small instances, and
theorems about them that TLAPS proves for every instance.

The backend has no lock, no queue and no multi-document transaction. A handler is a
sequence of `await`s: it reads documents, decides on what it read, and then issues one
write per await. Every await is a point where any other request may run, and any
write may throw, which ends the handler where it stands. All schemas have
`versionKey: false`, and mongoose's `save()` sends only the fields that differ from the
document that was read. What protects the data are the tests a handler makes on its
own snapshot, a few conditional updates, and a few unique indexes. What the models ask
is which of the bank's rules survive that.

## 1. Inventory

| Component | State | Operations | What makes it hard |
|---|---|---|---|
| Loan workflow (`loan-workflow`) | `loans`, `loan_workflow_history`, `staff_activity_logs`, `audit_logs`, notifications | `processAction`: review, approve, reject, forward, return, disburse, close; the queue's available actions | two reviewers decide on the same document; five writes per decision; a threshold that moves decisions between desks |
| Loans (`loans`) | the loan and its documents | `submitLoanApplication` | staff see the loan before the submission is finished |
| Payments (`payments`) | `savings_accounts.balance`, `transactions`, `school_payments`, notifications, audit | `createSchoolPayment`, `createQrPayment` | racing debits; a debit with five unguarded writes after it; references with the resolution of a millisecond |
| School console (`students`, `fee-plans`, `invoices`, `school-payments`) | four arrays in the process, seeded from fixtures | import, plan, `generateBatch`, `applyPayment`, `collect`, `recordMemberPayment` | two arrays that have to agree; repeated students; a restart brings the fixtures back |
| Voting (`voting`) | `votes`, `vote_options`, `vote_responses`, `vote_audit_logs` | create, add option, open, close, `respondToVote` | the status is read many awaits before the response is inserted; only a unique index stops a double vote |
| Support chat (`chat`, `support`) | `chat_conversations` and six collections about them | open, send, assign, reply, change status | member and agents save the same document; each handler has its own order of writes |
| Service requests (`service-requests`) | `service_requests`, their events | `create`, `cancel`, `updateStatus` | member and staff save the same document |
| Card management (`card-management`) | `cards`, `card_requests`, `card_events` | request, lock, unlock, replace, `updateRequestStatus` | a card and its request are two documents saved one after the other |
| Reminder campaigns (`notifications`) | campaigns, their logs, notifications | `createCampaign`, `sendCampaign` | a long loop over members read once; nothing stops a second send; logs stored at the end |
| Telegram subscriptions (`notifications`) | link codes, the member's chat and opt-ins | `/link`, commands, app preferences | a chat is taken from one member and given to another in two awaits |
| Recommendations (`recommendations`) | `recommendations`, `recommendation_events` | generation and reconciliation, view, dismiss, act | every look at the list rewrites it, one document at a time; an answer races with a generation that decided before it |
| Registration, identity verification and onboarding review (`auth`, `identity-verification`, `member-profiles`, `dashboard`) | `members`, `member_profiles`, `identity_verifications` | register; start, submit FIN, upload QR, verify; review | three documents about one person, written one await after the other by the member and by the staff; identifiers from `countDocuments() + 1` |
| Sign-in and session security (`auth`, and the mobile app's session) | `auth_sessions`; the phone's session and token store | challenge, verify PIN, password login, log out, revoke, lapse | the phone does not wait for its logout; answers come late or never; `save()` of a session read before it was ended |
| Member self-service (`service-placeholders`, `dashboard`) | the account lock, AutoPay settings, ATM card and other requests | switch, set (by member and by manager), ask | check-then-insert with no index; two people saving one setting |
| Everything else | see `PROJECT.json` | reads, single inserts, rendering, screens | none a model would show |

How they interact. The loan, chat, desk, voting and payment handlers all write
notifications and audit rows, as writes that may throw. A school payment of the bank calls the
school console's `recordMemberPayment`. The payment and voting handlers read the
account lock, which the member switches in the security settings, and `kycStatus`,
which a review of the staff grants and takes away. A campaign reads
the members whose chat and opt-ins the Telegram bot changes underneath.

What would make each correct: nobody approves above his desk and a decided loan does
not move again; money is debited only when there, and never without a record; what
the school books and what the parents paid agree; one vote per member, and none in a
vote that is closed; only staff with a claim to a conversation write in it; a request's
dates, its status and the card agree; a log of a send tells what went out; members are
numbered without a gap, and what the services take for verified is what the staff approved;
a member who is signed in has a session, and one that was ended stays ended; what a member
dismissed stays away.

## 2. Modules

| Module | What it is |
|---|---|
| `LoanLifecycle` | abstract: the stages of one loan and who may approve it |
| `LoanWorkflow` | `LoansService.submitLoanApplication` and `LoanWorkflowService.processAction`; maps to `LoanLifecycle` |
| `LoanWorkflow_proofs` | its theorems |
| `SchoolBilling` | the school console's four in-memory services |
| `SchoolBilling_proofs` | its theorems |
| `Onboarding` | registration, identity verification and the staff's review |
| `SelfService` | account lock, AutoPay and the member's requests; extends `Onboarding`, whose `kycStatus` its calls read |
| `Payments` | `PaymentsService`; extends `SelfService` for the member's standing and includes `SchoolBilling` as `Billing` for the school's side of a payment |
| `Sessions` | `auth_sessions` and the phone that uses them |
| `MemberBanking` | the bank as a member meets it: `Payments` (with all it extends) and `Sessions` composed, and the server's restart |
| `MemberBanking_proofs` | what each part keeps, and the theorems about the composition |
| `SumTheorems` | lemmas about sums over finite sets and about lists put in front of others, with induction over numbers and finite sets |
| `BallotBox` | abstract: a box of ballots for each opened vote |
| `Voting` | `VotingService`; maps to `BallotBox` |
| `Voting_proofs` | its theorems |
| `Chat` | `ChatService` |
| `Chat_proofs` | its theorems |
| `TelegramLinks` | `TelegramSubscriptionService` |
| `Reminders` | `NotificationCampaignService` and `NotificationDeliveryService`, extends `TelegramLinks` |
| `Reminders_proofs` | the theorems about links and campaigns |
| `ServiceRequests`, `Cards`, `Recommendations` | the services of the member desk |
| `MemberDesk` | the three side by side |
| `MemberDesk_proofs` | their theorems |
| `MC...` | the instances TLC checks |

The conventions are the same in each module:

* A request in flight is a record: how far it has got (`phase` or `at`, named for the
  await that returned last or comes next), the document it read (`seen`) and the
  document it holds (`next`). Every awaited read that matters and every awaited
  write is one action. A handler's tests and early returns are the guards of the action
  that reads the tested value; a request refused on its first read changes nothing and has no action.
* `save()` is `Merge`/`Saved`: a field goes to the database if it differs between `seen`
  and `next`, and otherwise the database keeps what it has.
* `Fail`, `CallThrows` and the like end a request before its next write: the write
  threw, or the server stopped. `Restart` and `Crash` are the ones that also lose memory.
* Properties that hold only while nobody saves from an out-of-date snapshot say so with
  a ghost (`stale`, `outdated`, `contested`, `raced`,
  `together`, `overlapped`, `touched`), which a save or a read sets when the race
  really happens. The ghosts are not read by any guard.
* Operators named for a mutation (`DebitAnyBalance`, `UnlinkNobody`, ...) are plausible
  bugs, each a variant of the definition after it. The models do not use them; putting one
  in the place of the original makes a property fail, which shows that the property
  depends on that code.

### Loan workflow

`loan[l]` is the document reduced to status, level, whether it is assigned, and its
deficiency reasons; `RoleOf`, `Amount` and `BranchMax` stand for the tokens, the
amounts and `BRANCH_MAX_APPROVAL_AMOUNT`. `Load` is `findById` and `Accepts`:
`ensureUserCanActAtLevel`, then `resolveTransition` (`Resolves`); `Save`, `WriteHistory`, `WriteActivity`,
`Notify` and `Audit` are the five awaits that follow. `CreateLoan` to `AuditSubmission` are
those of the member's submission, which may still run while staff decide. `Offered` is
`buildAvailableActions`, which looks at the loan and never at the user: the queue shows a head-office
officer the buttons of a loan at a branch, and `processAction` refuses them. `DeskCanDecide` is
therefore about the staff of the loan's own desk.

`POST demo/loan/update` (demo.service.ts:97-120; its module is always imported) sets a loan's
status and level with neither the role check nor the threshold. It is a demo's shortcut around
this workflow and has no action, so every claim about loans is one about the workflow alone: a
deployment that leaves the demo routes open has none of them.

### Payments and the school console

`loadEligibleMember` reads the member and the lock by two parallel queries of one
`Promise.all`. `FirstPaymentRead` is the one that comes back first, whichever it is, and
`SecondPaymentRead` the other, with anything in between: a payment can find the member verified
before a review takes that back, and the account unlocked after the member has unlocked it, and be admitted
though the two never held together. That is what the code does, so `DebitsNeedStanding` says of each by
itself that a payment which takes money found it so. `Debit` is the conditional
`findOneAndUpdate`; then the transaction, whose unique reference is the prefix of the kind and the clock
(`CollideReference` is the insert that throws), the school payment, `recordMemberPayment` on the
console's books, the notification and the audit row. A school payment's `CollectForSchool` is
an action of `SchoolBilling`, so both sides of a payment are in one model. Whether the member
may pay is not a flag of this module: it is what `Onboarding` and `SelfService` have stored when
each query comes back, and they may change it before the debit. The account is read next, but nothing
modelled changes it except its balance, which the debit tests again. The clock (`Tick`) moves only while an admitted
payment is there to read it.

`SchoolBilling` has one atomic action per method, since none of them awaits.
A fee plan's total is the sum of whatever items were sent, and may be zero or less: its invoices are
open with nothing to pay, and the first payment that meets one marks it paid. A member's payment is then spent on
an invoice that charges nothing while another is owed, which `MemberPaymentReducesDebt` has to except
(`SettlesForNothing`); it can happen once per such invoice.
Amounts may be negative or exceed the balance, because `applyPayment` is where they are
clamped. (`CollectSchoolPaymentDto` has no validation decorators, so with the global
whitelisting pipe the counter's HTTP endpoint refuses its own fields; the model
describes the service, as its tests call it.)

### Becoming a member (`Onboarding`)

A call is a list of awaits still to make (`todo`), and `Await` its head. `Register` is
`checkExistingAccount`; then come `TakeNumber` (the count), `InsertMember` or, at a unique index,
`RefuseMember`, `CreateProfile`, and the verification that the registration starts. `Submit`
(start, FIN, QR) writes a record (`WriteRecord`) and then the profile (`WriteStatus`); `Verify` saves
the record (`SaveRecord`) first. The answers of the two Fayda providers are those of
`manual-review` and `official`, neither of which ever says verified: only the review does.
`Review` is `updateOnboardingReview`: `ReadMember`, `SaveProfile`, `SaveMember`.
`docs/onboarding-kyc.md` asks it to notify and to keep an audit history; it writes neither, so the
model has neither.

### Self-service (`SelfService`)

One setting of each kind of the one customer. Calls that need an eligible member start with the same two
parallel queries as a payment (`FirstRead`, `SecondRead`; `PassesFor` says which of the two tests a call
makes). `SwitchAccountLock`, `WriteAccountLock`,
`TellAccountLock`; `SetAutopay` by the member (one upsert) and `ReadAutopay`, `SaveAutopay` by a
manager (a read and a `save()` of what differs); `AskForAtmCard`, `CheckAtmRequests`,
`StoreSelfRequest` for the request that must be the only open one, and `AskFor` for the others, which
are inserted unchecked.

### Signing in (`Sessions`)

The server side is `StartLogin`, `VerifyPin` (the read and the tests), `SaveVerified`,
`LoginByPassword`, `ServeLogout`, `RevokeSession` and `Lapse`; the phone's is `SignIn`, `GiveUp`
(the user leaves the screen while the request is under way), `Logout`, which forgets the
session first and sends later (`LogoutWaits`), and `LogoutAnswered`, which clears the token
store whosever tokens it holds by then. Requests overtake each other and are lost (`Unheard`,
`LogoutLost`). `revived`, `overtaken`, `revoked` and `wiped` name the races that do end badly,
so that the properties can say there are no others.

`MemberBanking` interleaves the four. `load` bounds a behaviour (how many calls of each part),
so that TLC takes several unlike mixtures in one run; it constrains nothing in the proofs. `Restart` ends every
call under way, in all parts at once, and empties the school console. `passed` remembers the payments that had read the
customer verified, or the account unlocked, before it ceased to be.

### Voting

A ballot is `Admit` (member, event), `CheckLock`, `CheckBallot` (option, earlier
response), `StoreResponse` or, at the unique index, `RejectDuplicate`, and then three rows.
Administration requests are in flight as well: `CreateVote` inserts the event and then its
options; `OpenVote` counts the options before it saves; `CloseVote` reads and saves.

### Support chat

A request holds the document and `todo`, the list of writes left, in the order
the handler makes them; `SaveConversation`, `StoreMessage` and `StoreRow` take the head of it.
So one set of actions serves `createConversation`, `sendCustomerMessage`,
`assignConversation`, `replyAsAgent` and the status changes, and the differences between them are the
lists. `notices` counts the notifications of replies: `rows` is a set, and would not show that the second
reply of the same agent was told to nobody. `AssignedIsListed` is about the status only: `listAssignedChats` asks for
three of them, and filters by the manager's scope as well, which is not modelled for the lists.
The check-then-create of `createConversation` (two first messages may open two
conversations) needs two conversations of one member and is left out.

### Member desk

Calls are numbered as they arrive, and a date is the number of the call that took it.
`Cards` splits `updateRequestStatus` into its two reads and two saves, and
`createRequest` into the check, the search, and the inserts. The audit row is part of the
action of the notification that follows it, whose failure leaves the same state.
`Recommendations` numbers the fingerprints in the order of the rules. `Generate` is the reading of
the member's records (what the rules make of them is an input), `ReadExisting` the
recommendations with `reconcileRecommendations`, `InsertNext` one document of the ordered `insertMany`
(a fingerprint taken meanwhile ends the call), `WriteOne` any of the updates and expiries that
`Promise.all` has under way. If one of these throws (`WriteThrows`), the caller is told at once and the others
still land, perhaps much later; the call is over when they have. `ReadRec`, `SaveRec` and `Track` are a view, a dismissal or an action.
Left out: `expiresAt`, which each update sets anew, the ranking, and the audience, which is part of the fingerprint.
`CardsMatchRequests` excuses a decision that died anywhere (`dead`), which is wider than the one gap,
between the save of the request and that of the card, where a death does harm.
`MemberDesk` puts the three services next to each other; they share no document.
One sequence is worth knowing although nothing in the repository says it is wrong: `unlock`
makes any locked card active, so a card that a rejected request blocked becomes active when its
member locks and unlocks it.

### Reminders

`StartSend`, `ReadMembers`, `MarkSending`, then for each target and channel `Telegram` or
`Push` and `StoreRecord`, then `StoreLogs` and `Close`. Two channels stand for all: telegram,
which asks the member's subscription, and mobile push, which stores a notification. E-mail, SMS and
in-app take the same path. `took` is what the gateway or the phone has taken. A provider that answers `failed` may
have been heard all the same: `sendTextMessage` catches a `fetch` that throws, which it also does when the
answer got lost after Telegram took the message (`unheard` remembers these entries), and a push may have reached some of the
devices. So the log does not tell such a delivery, and `LogsTellDeliveries` says that it misses no other. A second send of
a campaign delivers everything again; the code lets it, and no property is against it. Left out: the local demo mode that forces test recipients, the
school-fee variant of the record, the rendering of messages, and the insurance opt-in,
which is set and tested as the loan opt-in is.
`TelegramLinks` has `/link` in its awaits (`StartLink`, `ReadMember`, `UnlinkOthers`, `SaveMember`,
`UseCode`), and the single updates of the other commands and of the app.

## 3. Runs

Passing runs check all of their properties over the whole state space of the instance.

| Run | What it asks | Bounds, and why they suffice |
|---|---|---|
| `loan_serial` | One staff request at a time: does the service implement `LoanLifecycle`? Is the trail of each decision a prefix of save, history, activity, notification, audit, and is it completed? | one loan above the threshold, one reviewer per desk, 4 decisions, one failure. Branch, district, head office and back is reached in 4 decisions |
| `loan_concurrent` | Which rules survive two racing reviewers: approval authority, a desk that can always move its loan on, and the lifecycle for every loan not saved from an old snapshot | 2 requests at once, 3 decisions (with the two in flight, up to 4 land). A race needs two; the third decision puts the loan where the race matters |
| `loan_approve_after_reject` | finding 1 | 2 requests, 2 decisions |
| `payments_racing` | The bank as a member meets it. No overdraft, records in order, school receipts backed by school payments, no debit after the verification, or the lock's being off, was lost except by a payment that had read it before; members numbered without a gap; member, profile and verification agree; the settings are what the member was told; who is signed in has a live session, and an ended one stays ended | six loads: two payments on an account that cannot carry both, with 1 failure, 1 tick and restarts; a payment while a review takes the verification away and the lock is switched twice, so that each of its two reads can fall between any of these (a QR payment the account carries once: both kinds read alike); three onboarding calls, two at once; a review with two self-service calls; three self-service calls, two at once; two login challenges and four requests of the phone. Each race needs two calls at once, and the third shows what they leave to the next |
| `payments_same_millisecond` | finding 2 | 2 payments, no failure |
| `school_year` | Receipts and invoices agree, nobody is billed twice or left out, a member's payment reduces a debt, batches bill all in scope | the services' own fixtures; one workload of imports, plans and batches over every combination of optional fields, one of partial, repeated, excessive and negative payments with a second term in between, and one in which the second term charges nothing or less (0 and -300). The third needs a free and an owed invoice of one student, in either order |
| `school_wrong_school` | finding 3 | one pupil registered at a second school, one payment |
| `voting_ballots` | One vote per member, only for the event's options and after it was opened; `BallotBox` implemented | 2 ballots at once of the one voter and a guest, one administrator, window from 1 to 2 in a clock of 0 to 3, one failure, one switch of the lock. Two ballots of one voter are the race of the unique index |
| `voting_after_close` | finding 4 | one ballot, one administrator |
| `chat` | Who wrote was allowed to; an assigned conversation is in a status its agent's list asks for; rows account for the state; a finished conversation takes no message from a fresh request; the member is notified of every reply | one conversation, 3 requests of which 2 at once, a support agent and a manager, one failure. Two requests can be replies of the same agent |
| `member_desk` | Dates tell the status, cards and requests agree, a locked card is dated and recorded; a generation without company leaves exactly the recommendations that apply, and an answered one stays away; the member is told | 3 calls of one service (two of which race), one of each, or two at the recommendations from four feeds earlier calls may have left; one call of each kind dies. 4 statuses of 7 and 3 decisions of 5 are sent: those the code distinguishes and one of the rest. Two fingerprints: an insert can succeed for one and be refused for the other. The two suppression times, 14 and 30 days, are 1 and 2 of the clock's units, so that a dismissal lapses before an action does |
| `reminders` | The log tells what was delivered but for lost answers, the status is what some send came to, silent chats stay silent, a chat has one member, a link takes effect | four workloads: two targets; a link during a send; the campaign sent twice; two links of one chat |

`CHECK_DEADLOCK FALSE` is there because each system really stops: nobody has to send
another request, and the bounds end the behaviours.

Symmetry is used in `loan_concurrent` only, over the request slots, where no temporal property
of liveness is checked.

### Fairness

Weak fairness is assumed in `loan_serial`, `chat`, `member_desk` and `reminders`, of the steps of a
request the server has accepted (`Save`, `WriteHistory`, ...; `Step`, `SendStep`, `ServiceStep`,
`CardStep`): node's event loop resumes a handler once its await settles, and a driver's call settles
or throws. No fairness is assumed of a new request, of the clock, of a member, of staff, or of
failures. The liveness properties therefore read "unless a write throws" or "unless a
send died", where the code has nothing that would take the work up again. The other runs check
safety only.

### Findings

1. `loan_approve_after_reject`: two reviewers of one desk read the same loan; one rejects, the
   other approves, and the loan goes from rejected to approved. The service's test says
   "prevents approve after reject". `FreshLoansFollowLifecycle`, which holds, says that
   comparing the snapshot at the save is all that is missing.
2. `payments_same_millisecond`: two payments debited in the same millisecond have the same
   reference; the second insert throws after its debit, and the money is gone without a
   transaction.
3. `school_wrong_school`: `recordMemberPayment` never reads `schoolName`; the
   payment to one school settles an invoice of another one with the same student id.
4. `voting_after_close`: a ballot admitted before `closeVote` is recorded after it, although
   "closed votes reject new responses".

## 4. Proofs

All assume only the modules' named assumptions on constants. The bounds are constants
like any other, so the theorems hold for every number of loans, staff, requests, events,
members, decisions and failures.

`LoanWorkflow_proofs`

* `Typing`: type correctness. It rests on `DecidedType` and `MergeType`: a decision
  legal on a document gives a document, and so does a save over any other one.
* `HighValueSafe`: a loan above the threshold is approved or disbursed only after an approval
  that head office made, however requests race. The property is not inductive: a save
  writes what its request decided long ago. `AuthorityInv` adds what an in-flight
  request knows: its decision was legal on its snapshot for a user of that desk, and an
  approval its snapshot shows was really made. `ApprovalKept` (decisions only grow) carries that
  over other requests' steps, and `SavedApproval` is the case of the save.
* `FreshLoansSafe`: from `LifecycleInv`, which adds that nothing works on a loan that does not
  exist; `FreshMerge` says that a save over an unchanged document is what was decided.
* `SerialRefinement`: under `OneAtATime`, snapshots are never out of date (`SerialInv`), and
  each step is a step of `LoanLifecycle` or a stutter.
* `TrailSafe`: `TrailInv` says which rows the decision of a request in flight has at each
  phase, and that decision numbers of different requests differ.
* `DesksDecide`: no race strands a loan. `DeskInv` says that every document and every snapshot under
  review has the status of the desk it is at; `MergeStaysAtDesk` that a field-wise save
  changes both, neither, or takes the loan out of review, whatever it lands on.

`Voting_proofs`

* `VotingTyping`, `OneVote`, `ResponsesForTheEvent` from one invariant, `VotingInv`: a ballot in
  flight is for an event that was opened and, once its option was looked up, for an
  option of it (options are never removed); an event that was opened, and one whose options
  an administrator has just counted, has two options at least. `OneVote` then rests on the unique
  index alone, not on the earlier look-up.
* `ImplementsBallotBox`: each step opens an event, casts a first ballot of a voter in an event
  that was opened, or leaves the box alone (`BoxNext`).

`Chat_proofs`

* `ChatInvariance`: `ChatInv` is `Stored` (what holds of the documents) and `Sound(r, q)` for
  each request in flight: one that is about to create its conversation is alone on it (`Opens`); its
  save never reopens a conversation or routes it anew, and goes with the rows that tell of a new
  agent and of an end (`Decides`); a message is of a request that found the conversation active and
  leaves it active (`Addresses`), and a reply of somebody in charge or about to be (`Authorised`);
  the document is saved at most once, before the message if the reply is a claim (`SavesOnce`,
  `SavesBefore`). The list of writes left is what makes one lemma per kind of write
  enough for all handlers.
* `ChatTyping`, `NoAgentIsLeftOut`, `RepliesStayAuthorised`, `StateStaysOnRecord` and
  `FinishedStaysQuiet` follow. `AssignedIsListed` needs that a save which names an agent
  takes the conversation out of `open`, and that none puts it back, whatever two saves mix.

`MemberBanking_proofs`, one section for each of the four parts

* `BankInvariance`: `BankInv` is the conjunction of `OnboardInv`, `SelfInv`, `PaymentInv`, `SessionInv` and
  `StandingKept`. A step of one part leaves the variables of the others alone, so each part's lemma
  is about its own steps and the composition adds `Restart` and the ghosts only.
* `OnboardInv`: types, the shape of each call's list of awaits, members numbered in order, no
  member without a profile but the one whose registration is about to write it (`Profiled`), one
  call of a kind unless `raced`, and for each call what the documents
  hold while it is between two writes (`CallsSound`, `KycMatches`, `RecordMatches`). From it
  `MembersAreNumbered` (a number counted too early is refused: all numbers below it are taken) and
  `DocumentsStayConsistent`.
* `SelfInv`: a call between its test and its write still finds what it tested, unless another was
  under way on the same setting. From it `SelfServiceIsAsTold`.
* `PaymentInv` is `RowsInv` (which records a payment at each phase has), `BalanceInv` and `ReceiptInv`. From
  the first `PaymentRecordsInOrder`.
* `AccountsAreNotOverdrawn`: the conditional update is the only step that lowers a balance, and lowers
  it by the amount of the debit it adds to the list (`BalanceInv`); types say that the balance stays a natural number.
* `SchoolReceiptsAreBacked`: the receipts of the console compared with the school payments of the bank is
  not inductive, since a payment stores its row before it calls the console and may call it with
  other payments in between. `ReceiptInv` counts the receipts against the payments that have got theirs:
  no two requests work on one debit (`OwnDebits`), none has its receipt before it has called
  (`NotReceiptedYet`), and the debits with a receipt are some of those with a school payment. A restart puts
  the receipts back, which only widens the gap.
* `SessionInv`: which session a request of the phone and the phone itself stand for. From it
  `SessionsAreLive` and `SessionsStayLoggedOut`.
* `NoDebitWithoutStanding`: from `StandingKept`: what a payment under way has read, of the member or of the lock, still
  holds, or is remembered in `passed`. Each read is a case of its own, and nothing is proved of the two together, because
  nothing holds of them.

`SchoolBilling_proofs`

* `BooksInvariance`: `BooksInv` is types, `OneInvoicePerDueDate`, `ReceiptsMatchInvoices`, where the invoices' numbers
  come from (`Numbered`), and what the status of an invoice says of its balance (`Marked`: one that is not paid has something left, or charges nothing). First, what the
  code's loops return: `Find` the least position that passes (`FirstIsLeast`), and the loop of a
  batch every student to be billed once (`InOrderIsOnceEach`, an induction over its rounds); then what a
  batch puts in front of the list (`GeneratedBatch`) and what a payment makes of one invoice
  (`PaymentApplied`, the clamps of `applyPayment` for any integer amount).
* `BooksAreTyped`, `NobodyIsBilledTwice` and `ReceiptsAreWhatWasPaid` are its parts. The last compares two sums: a batch adds
  invoices of which nothing is paid (`NothingPaidAdds`), a collection adds the same amount to both
  (`PaymentAdds`, `ReceiptAdds`).
* `BatchesBillTheirScope`: of the students in scope with one id, the first in the list is billed, or has
  been before.
* `MemberPaymentsReduceDebt`, for plans of any total. By `Marked` the first open invoice has something left to pay, and the payment
  reduces it, or charges nothing, and the payment settles it. It also needs that the
  number of the invoice leads `applyPayment` back to the same one (`OneOfEachNumber`), which `BelowFixtureNumbers` secures.

`Reminders_proofs`

* `RemindersInvariance`: `ReminderInv` is types, `TelegramInv` and `CampaignInv`. `TelegramInv`: a `/link` between its two
  writes finds the chat taken from all others unless a rival is under way (`OthersLeft`); what it read of its
  member is still so unless it is touched (`ReadIsCurrent`); a chat that wants no reminders belongs to nobody
  who gets them (`QuietGetsNone`). From it `LinksHoldTheorem`.
* `CampaignInv` says for each send what it has delivered, recorded, missed the answer of, logged and stored at each step (`Progress`), that
  what is stored of it tells its deliveries (`StoredTell`), and that what it took the members for when it read
  them allowed what it sent (`SeenAsked`). From it `CampaignTellsDeliveriesTheorem` and `UnsubscribedChatsStayQuietTheorem`.

`MemberDesk_proofs`

* `DeskInvariance`: `DeskInv` is `ServiceInv`, `CardInv` and `FeedInv`. `ServiceInv`: what a call that was not
  overtaken is about to save is dated like its status. `CardInv`: what each call holds (`Holds`) and changes (`Changes`)
  at each await, that a date is of a call that has saved (`DatesAreOfSaves`), and why a
  card waits (`WaitingHasCause`): an open request whose decisions under way will take it from waiting, or a call that has
  yet to store one. `FeedInv`: what a generation without company has still to do about
  each fingerprint (`LeftToDo`), though it writes them one await at a time.
* `DeskTyping`, `DeskRecordsStayInAgreement` and `DismissalsStay` follow.

The proofs of `CardInv` and `FeedInv` found an error in an earlier form of this model: `DecidedCard` and `Reconciled` chose their outcome
by a `CASE` whose guards overlapped, which TLA+ leaves open although TLC takes the first. They are
`IF`s now, in the order of the code.

`SumTheorems` proves its inductions from the least element of a set of numbers (the library's `WFMin`), those over finite
sets by their cardinality; it says of `SumFunctionOnSet` what one more element, a changed one or a shifted set makes of a sum. For
that the sums of `Payments` and `SchoolBilling` are written with `SumFunctionOnSet`, and the batch's loop as
a function on its rounds.

The assumptions on constants are those the modules name. Two of them say of the fixtures what the arrays in the source show:
`FixtureConstants` (numbers and due dates are not repeated, paid and balance make the total, no balance is negative, paid invoices are those with
nothing left) and `BookConstants` (types). TLC evaluates both on the services' own fixtures.

Only model-checked: the liveness properties `DecisionsReachTheTrail`, `RepliesReachTheMember`,
`MemberIsTold` and `SendingEnds`, which with `ENABLED` and fairness are out of the prover's reach. Every safety
property of the passing runs is a theorem. No module declares a `RECURSIVE` operator.

## 5. Not modelled

The models cover the services in which the order of awaits can break a rule. That is a
small share of the repository's lines, and most of the rest has no protocol to model: the web
console's pages and the mobile app's screens, the demo data of both clients (`demoApi.ts`,
`Fallback...Api`) and the seeding scripts, read-only services (shareholders, reports, insights,
dashboards, locations, insurance alerts), single inserts (audit log, staff activity, uploads, device
tokens), template rendering, and the unrelated transport skeleton. `PROJECT.json` gives the
reason for each component.

Within the modelled components: staff logins, which write nothing; PIN
recovery, where `requestOtp` stores nothing, `verifyOtp` looks at the length of the code, and
`resetPin` is a single save; the demo mode of registration and of campaigns; the notification
and audit rows of a registration; the phone's push registration. Gateways answer by choice. Scopes of managers (branch, district)
are an input where they only refuse a request. Secrets, tokens, texts and amounts in currency
are abstracted to what the tests tell apart.

Four hazards have no property, with the reason in `PROJECT.json`: a retried payment, which nothing in the
state tells from a second one; the invoice numbers that clash after a hundred invoices; and two that the code simply lets
happen: a message to a conversation finished after the request read it, and a reminder to a member who
unsubscribed during the send. The properties next to these, `FreshFinishedTakesNoMessage` and
`UnsubscribedChatsStayQuiet`, say that they are the only exceptions.

## 6. Plan

Written, in this order: the loan workflow and its proofs, payments with the school
console, voting and its proofs, chat, reminders, the member desk; then onboarding, self-service and
sessions, their composition with payments and its proofs, the proofs of chat, and
recommendations; then the proofs of the school console's books, of the sums of payments, of links and campaigns, and
of the member desk.

What would come next:

1. Proofs: the safety half of the liveness properties (an answer is never lost without a throw), as
   invariants of their own.
2. Abstract specifications: an account ledger that `Payments` implements (a debit is one step, its
   records follow), and a ticket that `ServiceRequests` implements for
   requests nobody saved from an old snapshot.
3. The insurance alerts as an operator over loans and policies, against a reference definition.
