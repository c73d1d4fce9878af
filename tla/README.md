# A TLA+ model of NobaServer

NobaServer is the backend of a neobank for Colombia: consumers hold a USD wallet (at
Circle), pay with a card (issued by Pomelo), receive their salary from employers who pay
through Mono, and move COP in and out of the wallet through Mono. The server is a NestJS
application over one PostgreSQL database; its long operations are Temporal workflows
that run in another repository and call the server back over HTTP. This directory models
the parts of it in which money and status change hands under concurrency, retries and
failure.

Paths below are relative to `src/src/modules/`.

## 1. Inventory

| Component | State | Operations | Talks to | Hard because |
|---|---|---|---|---|
| Circle wallets `circle` | table `Circle` (consumer, wallet, cached balance) | getOrCreateWallet, getBalance, debit, credit, transferFunds, getTransferStatus | Circle over HTTP with idempotency keys | lost answers, repeated keys, balances read before the transfer and used after it, amounts rounded at some places and not at others, racing inserts |
| Card webhooks `pomelo/webhook` | `PomeloTransaction`, `Transaction` | authorize, adjust | Circle wallets, transactions, exchange rates | at-least-once delivery, overlapping deliveries, restarts between debit and decision |
| Payroll `employer` | `Payroll`, `PayrollDisbursement`, documents in S3 | createPayroll, updatePayroll, retryPayroll, disbursements, invoice, receipt | Temporal, Mono, transactions, documents | status read, awaited, written unconditionally; payments matched by queries; four objects written one by one |
| Mono `mono` | `MonoTransaction` | withdrawal, collection link, four webhooks | Mono, payroll, transactions | webhooks early, late, twice, out of order; row saved after the transfer |
| Transactions `transaction` | `Transaction`, `TransactionEvent` | initiate (users, administrators, workflows, cards), update, patch, debitFromBank, quote | screening, workflow executor, Mono, Circle | row and workflow are two steps; any status may follow any other; receivers looked up before the row is saved |
| Workflow executor `infra/temporal` | runs at Temporal | start a workflow | Temporal | a start whose answer is lost |
| Exchange rates `exchangerate` | `ExchangeRate` | daily refresh, an administrator's rate, read | two providers | compared with the latest row, while others are added |
| Consumers, authentication, codes `consumer`, `auth`, `common/otp` | `Consumer`, `Otp`, `Token`, `CryptoWallet` | sign up, log in, refresh, change contacts, confirm wallets, edit | notifications, verification | uniqueness, codes and tokens that work once, whole rows written back as they were read |
| Identity verification `verification` | `Verification` | checks, documents, the provider's webhooks | Sardine (calls and webhooks) | a webhook against a synchronous result, on one row |
| Pomelo cards and users `pomelo/public`, `psp/card` | `PomeloUser`, `PomeloCard`, `Card` | create user, create card | Pomelo | creation repeated after a lost answer or a failed write; users Pomelo knows otherwise, or blocks |
| Employees, employers `employee`, `employer` | `Employee`, `Employer` | invite, link, allocate, edit, the employer's maximum | notifications, consumers | an amount computed from a maximum that changes |
| Notifications, reminders `notifications` | `Event`, `EventTemplate`, `PushToken`, `ReminderHistory` | emit, handle, seed templates, choose consumers, remind | providers | events outlive the call; five tables must agree; a reminder sent and not recorded |
| Administrators `admin` | `Admin` | log in, add, change, remove | all of the above | a permission decided once and used later |
| Bubble `bubble` | none of its own | forwarding to employers, employees, payrolls | the above | - |
| Limits, checkout, marketing, settlement reports, common services, configuration | none or configuration | queries, single calls, rendering, encryption | - | - |

`PROJECT.json` lists every component with its files and what is modelled of it and,
under "hazards", each place in this code that a test would hardly reach.

What makes the main components correct:

* **Circle wallets.** What a caller is told (SUCCESS, TRANSFER_FAILED, insufficient
  funds) is true of what Circle holds, and stays true whatever arrives later, as long as
  amounts are whole cents; a status check moves nobody's money; a wallet that is handed
  out can be found again; the cached balance is Circle's when nothing overlaps.
* **Card webhooks.** One purchase is debited at most once; APPROVED is only said of an
  accepted debit; a decision, once recorded, stands.
* **Payroll.** A payroll goes through its stages; nobody is paid out of one that was not
  priced or funded; a payment is put down to the employer who made it; what an invoice
  and a receipt list adds up.
* **Transactions.** A transaction is sent to the bank once; who is told of it is told
  the truth; its two sides are those its workflow moves money between, and the ones its
  user meant.
* **Accounts.** Who holds a contact has proven it and shares it with nobody; nobody is
  approved without a source; a consumer has one card, their own.
* **Workplace.** No salary is paid out beyond what was asked for; powers are only given
  by those who have them; a notice arrives, and has no gap.

## 2. Modules

| Module | Models | Checked by |
|---|---|---|
| `Circumstances` | the circumstances of a behaviour: do calls overlap, what may fail | through all that extend it |
| `People` | whom rows are about and who calls: constants the parts about people share | through all that extend it |
| `CircleLedger` | Circle itself (external), as `circle/public/circle.client.ts` relies on it | through the next |
| `CircleWallets` | `circle/public/circle.service.ts`, `circle.client.ts`, the `Circle` table | `MCCircleWallets`, `MCWallets` |
| `PomeloCard` | `pomelo/webhook/pomelo.webhook.service.ts` and the transactions it saves, composed with `CircleWallets` | `MCWallets` |
| `PayrollLifecycle` | abstract: the edges a payroll's status may follow | as a property of `Payroll` |
| `Payroll` | `employer/employer.service.ts`, `employer/domain/Payroll.ts`, Mono's account_credited, deposits | `MCPayroll` |
| `PayrollDocuments` | invoices, receipts, `common/utils/template.processor.ts`, the disbursements they list; over `Payroll` | `MCPayroll` |
| `Transactions` | `transaction/transaction.service.ts`, its workflow controller, `mono/public/mono.service.ts`, Mono's transfer and collection webhooks, `infra/temporal` | `MCTransactions` |
| `ExchangeRates` | `exchangerate/exchangerate.service.ts`, its repository, the quotes of deposits and withdrawals | `MCTransactions` |
| `TransactionRequests` | what may be asked at each door, the pre-processors of every workflow, the lookups by tag | `MCTransactions` |
| `ConsumerRows` | the `Consumer` rows, their merge on update, what a row lets its owner do | through the next two |
| `Verification` | `verification/verification.service.ts`, `sardine.client.ts`, the provider's webhooks; over `ConsumerRows` | through the next |
| `Accounts` | `auth`, `common/otp`, contact changes and crypto wallets of `consumer`; over `Verification` | `MCAccounts` |
| `CardIssuing` | `pomelo/public`, `psp/card/card.service.ts` and their repositories | `MCAccounts` |
| `Notifications` | mediums, events and handlers, push tokens, reminders | through the next |
| `Workforce` | `employee/employee.service.ts` and the maxima of `employer`; over `Notifications` | `MCWorkplace` |
| `Administrators` | `admin/admin.service.ts`, its controller and authentication | `MCWorkplace` |
| `NotificationCatalogue` | what each type of notice needs, which mediums, handlers, templates and locales it has | through the next |
| `NoticeDelivery` | one notice, from its call to its messages, with the seeding of templates | `MCWorkplace` |
| `CircleWalletsProofs`, `PomeloCardProofs`, `PayrollProofs`, `TransactionsProofs`, `AccountsProofs`, `CardIssuingProofs`, `WorkforceProofs`, `AdministratorsProofs` | theorems about the module of that name, `WorkforceProofs` also about `NoticeDelivery` | TLAPS |

Modules that share state are composed: a card delivery's steps at Circle are
`CircleWallets`' own, documents read `Payroll`'s rows, logins and identity checks write
the same `Consumer` row, an invitation's notice is one of `Notifications`'. Modules put
side by side in one MC module share nothing there; a behaviour of such a run follows one
of them, which loses nothing because their steps commute.

### How the code is read

Node runs one thing at a time and switches only where the code awaits. A call of the
server is therefore a process with a program counter: **one action per awaited
operation**, containing everything the code does up to the next await. Calls interleave
freely between those steps. `pc[c]` (in `PomeloCard` and `TransactionRequests`: `at[d]`;
in `Payroll`, `Administrators` and `CardIssuing`: a field of `call[c]` or `ask[c]`)
names the await the call stands at, the other per-call variables are the locals it still
needs. A thrown exception ends the call with an answer that names the error's kind. A
restart of the server ends every call in flight and leaves all rows as they are. What
the code creates - a code, a token, a wallet, a consumer who signs up, an administrator,
a card - is named by the call that created it.

### CircleLedger and CircleWallets

`balance` and `transfers` are Circle's: a transfer is recorded under its idempotency
key, and a key that is used again is answered with what was recorded, whatever is asked
(getTransferStatus is built on that). A transfer may be accepted as *pending*: it is
settled or returned later. `linked` and `cached` are the `Circle` table. The actions
follow the code:

| Code | Actions |
|---|---|
| getOrCreateWallet | LookupWallet, CreateWallet, LinkWallet |
| debitWalletBalance | ReadSource, SendTransfer, CacheSource |
| creditWalletBalance | ReadSource (master), ReadDestination, SendTransfer, CacheDestination |
| transferFunds | ReadSource, ReadDestination, SendTransfer, CacheSource, CacheDestination |
| getBalance | LookupBalance, FetchBalance, StoreBalance |
| getTransferStatus | CheckTransfer |
| anything thrown on the way | RequestFails, ResponseLost, the failing branches of LinkWallet and of the cache writes |

Amounts are cents, but callers may give more decimals, and nothing refuses them: a
request has the amount as Circle gets it (`amt`) and what the caller gave beyond it in
tenths of a cent (`frac`, half a cent is rounded up). Each place takes the one it takes
in the code: creditWalletBalance and transferFunds round first, debitWalletBalance
compares and caches with the exact amount (`Considered`, `LeftAtSource`),
circle.client.ts always sends cents, and getTransferStatus compares Circle's cents with
the exact amount (`Recognized`).

### PomeloCard

A delivery *is* a call of `CircleWallets` (the same identity). `pomeloTx` is the
`PomeloTransaction` table by idempotency key, `nobaTx` the amounts of the saved
`Transaction` rows by ID. Exchange rates enter as the set of amounts a purchase may come
to: each delivery reads the rate for itself. Signature and endpoint checks are the
single action `Refuse`.

| Code | Actions |
|---|---|
| authorizeTransaction, adjustTransaction | CreatePomeloTransaction, FetchPomeloTransaction, FindCardHolder, AskForWallet, GetWallet, ReadWalletBalance, PriceInUSD, FindParent |
| initiateTransaction with the debit | SaveNobaTransaction, MoveMoney (and CircleWallets' steps), MoneyMoved |
| the decision | RecordDecision; DeliveryFails and ServerCrash at any await |

### Payroll, PayrollLifecycle and PayrollDocuments

`status`, `total`, `priced`, `payment` are columns of the `Payroll` row; `allocation`
and `transactionOf` of `PayrollDisbursement`; `depositFor` the disbursement a
PAYROLL_DEPOSIT transaction was made from; `visited` is history. In `PayrollDocuments`,
`objects` are the four objects of each document, `writing` the call that writes them,
`credited` the disbursements' credit amounts.

| Code | Actions |
|---|---|
| createPayroll, retryPayroll | InsertPayroll, StartWorkflow, RetryPayroll |
| updatePayroll | ReadPayroll (the transition is checked against the status read *now*), SumDisbursements (when it becomes PREPARED), WritePayroll (unconditional) |
| account_credited | MatchByDocument, MatchByName, then the same update |
| disbursements and deposits | DisbursementStep, PatchDisbursement |
| createInvoice, createInvoiceReceipt | AskForDocument, WriteDocument |
| anything thrown | CallFails, the failing branches of WriteDocument |

Amounts are abstract numbers: the exchange rate is only set or not. `PayrollLifecycle`
is what a payroll promises: one status, moved along the listed edges one at a time. The
edges are those the code takes; the two that `Payroll.ts`'s comments speak against stand
apart (`AgainstTheComments`), one of them shown by the run `payroll_expired`. `Payroll`,
with calls that do not overlap, implements it (`Lifecycle == INSTANCE PayrollLifecycle`,
checked as `ImplementsLifecycle` and proved); with calls that overlap it does not, see
section 5.

### Transactions, ExchangeRates and TransactionRequests

`status`, `events`, `mono` and `bank` are the `Transaction` row, its events, the
`MonoTransaction` row and what Mono holds; `runs` the workflows at Temporal.

| Code | Actions |
|---|---|
| initiateTransaction | SaveTransaction, AddWithdrawalDetails, ScreenTransaction, NoteHighRisk, NoteScreeningError, FailDenied, FailTransaction, CreateCollectionLink, InsertLinkRow, StartWorkflow, StartWorkflowAgain |
| debitFromBank | LoadTransaction, LookupMonoRow, SendTransfer, InsertMonoTransaction |
| Mono's webhooks | FindMonoRow, RecordOutcome |
| the workflow's PATCH | AddTransactionEvent, UpdateTransaction |
| Mono; restarts | BankSettles; ServerCrash |
| createExchangeRateFromProvider | BeginRefresh, FetchRate, CompareRate, InsertRate, InsertFails, EndRefresh |
| an administrator's rate; expiry | EnterRate; TimePasses |
| quotes | the operators CollectionFee, DepositCredit, WithdrawalFee, WithdrawalCredit |
| a request at a door | Ask, PreprocessTransactionParams, FindCreditConsumer, FindDebitConsumer, ProcessTransaction, CreateTransaction |
| what others do meanwhile | ChangeTag, ChangeStanding |

### Accounts, Verification, ConsumerRows and CardIssuing

A `Consumer` row is a record of contacts, locks and the two checks; `seen[c]` is the row
a call has read and may write back whole. Names, addresses and what else no step depends
on are left out.

| Code | Actions |
|---|---|
| login, requestCode | PassGate, ClearCodes, SaveCode, SendCode |
| verifyOtp, change of a contact, confirmation of a wallet | CheckCode, ConsumeCode, FindConsumer, CreateConsumer, GiveSession, FindOther, InsertWallet, ReadWallet, ScreenWallet, LookupWallet, WriteWallet |
| refresh | ValidateToken, InvalidateToken, GiveSession |
| checks, documents, webhooks, edits | ReadConsumer, AskProvider, ScreenForTransaction, WriteConsumer, PostFeedback |
| createCard | AskForCard, LoadConsumer, FindUserRow, ReadIdentifications, CreateUser, GetUserByEmail, SaveUser, CreatePomeloCard, SaveCard |
| what others do meanwhile | EditIdentification, ChangeEmail |

### Workforce, Notifications, NoticeDelivery and Administrators

| Code | Actions |
|---|---|
| invitations, registration and links | FindActive, InsertEmployee, SendInvitation, LookupEmployee, ReadEmployee, WriteEmployee |
| the employer's maximum | SetPercent, ListEmployees, CapEmployee, EndCaps |
| sendNotification and the handlers | LoadNotice, EmitNotice, HandleEvent |
| push tokens | FindToken, AddToken, DeleteToken |
| a reminder's run | ChooseConsumers, ReadTokens, SendPushes, FindHistory, WriteHistory; NextDay |
| one notice in full | StartSeeding, SeedTemplate, Ask, ReadConsumers, SendNotification, ChooseTemplate, Deliver |
| administrators | LoginAdmin, Authenticate, ListAdmins, FindEmail, InsertAdmin, ReadTarget, ReadTargetAgain, WriteAdmin, DeleteAdmin |

## 3. Runs

Each passing run looks at several *worlds*: one in which calls overlap and everything
may fail, one in which calls follow each other, and where needed one in which nothing
fails. `world`, the set of a behaviour's circumstances, is a variable of `Circumstances`
that is chosen in the initial state and never changes; guards read it (`Serial`,
`Orderly`, `Faulty`, `Flawless`, `Planned`), so that one specification is what both the
runs and the theorems are about. A property whose name ends in `InTurn` starts with
`Serial =>`, and `CacheExact` with `Orderly`: these are broken by overlapping calls, and
section 5 says how. The MC modules only choose the worlds, bound them, and take some
requests in one world and some in another.

| Run | Question | Result |
|---|---|---|
| wallets | three interleaved calls at Circle with every fault: are callers told the truth (CheckedFailureIsFinal, SuccessIsMovedOrProbed, FirstRefusalMovedNothing)? is a wallet that is handed out in the table (HandedOutWalletIsLinked), does everything end (LinkingSettles)? in turn and without faults, is the cache right (CacheExact)? two overlapping deliveries of any of four card webhooks, with restarts: one debit, honest decisions (OneDebitPerPurchase, DecisionsMatchTheMoney)? three in turn, with faults: do decisions stand, does each delivery end (DecidedIsDoneInTurn, EveryDeliveryInTurnEnds)? | holds, LinkingSettles and EveryDeliveryInTurnEnds under fairness |
| payroll_life | all updates of a payroll beside another that waits for its money: no stage skipped (NothingSkipped), payments to their employers and, in turn, to a payroll of that total (PaymentIsTheEmployers, PaymentIsTheTotalInTurn), the lifecycle implemented (ImplementsLifecycle)? and a payroll with its invoice and receipt: do they add up (DocumentsAddUp)? | holds |
| transactions | one transaction of any flow with two debits, two webhooks and two updates overlapping it: sent once, callers told the truth, only unreported outcomes forgotten (OneTransferPerTransaction, ConflictMeansSent, AnswerIsTrue, OnlyUnreportedOutcomesAreDropped)? two pairs' rates, two refreshes and an administrator's rate overlapping: threshold kept, fees covered on the way in and out (ThresholdHolds, FeesAreCovered)? one request at each door: the right sides (SidesMatchTheFlow, OnlyAsMeant)? | holds |
| accounts | two overlapping calls of any kind, with every fault, and three in turn: contacts proven and not shared (ContactsAreProven, OneAccountPerContact), approvals with a source (ApprovalHasASource, ApprovedWalletIsScreened), tokens good once (RefreshTokenOnce), what the app, a search and a lookup by contacts show in step with what is allowed (ShownIsAllowed), in turn no field lost (OwnFieldsInTurn)? requests for cards: one card each, one's own, and to be had at the next attempt (OneCardEach, CardholderIsOwnIfStill, AskedAgainGetsItInTurn)? | holds |
| workplace | employees, employers, reminders, with failures also in turn: amounts (NeverMoreThanAsked, AllocationFitsInTurn), reminders in one run (OncePerConsumerInTurn)? administrators: powers given by those who have them (PowersAreGiven), somebody left (SomeAdminRemainsInTurn)? one notice of each type: does it arrive, without gaps (NoticesArrive, MessagesAreComplete)? | holds |
| circle_refusal | may a *retried* debit be refused although it moved? | yes: finding |
| circle_probe | may a debit succeed without debiting? | yes: finding |
| circle_rounding | may a status check say TRANSFER_FAILED of a movement Circle made? | yes, of an amount with more than two decimals: finding |
| payroll_expired | does updatePayroll fund a payroll that has expired? | yes: finding |
| transactions_unscreened | may a workflow run of a transaction nobody screened? | yes: finding |
| accounts_unblocked | may a rejected identity be approved again without a decision? | yes: finding |
| reminder_repeats | may a reminder be repeated within its interval? | yes: finding |

CHECK_DEADLOCK is off everywhere: a call identity is used once and the outside world
owes the system nothing, so a behaviour may simply have nothing left to do.

**Bounds.** All of them are in the MC modules and their configurations.

* *Two overlapping calls, three in turn.* Every conflict between calls in this code is
  one of a row, a key or a balance between a pair; the third call in turn is the one
  that finds what a failure or restart of the second has left of the first. At Circle
  three calls overlap, because a movement, a competitor for the same funds and a status
  check have to meet; the wallet holds 3 cents and movements 2, so that one fits and two
  do not; some amounts are given with a few tenths of a cent more or less. A transaction
  has its initiation and three more calls, of two kinds each.
* `TakenInOrder`, `AskedInOrder` and, in `MCWallets`, `Taken3`: the slots of calls are
  alike, so they are taken in order (`MCPayroll` uses SYMMETRY over them instead; it
  checks no liveness).
* *Payrolls.* Two employers with the same bank name and payers with a known and an
  unknown document make every branch of the matching happen; `MaxRuns` bounds the runs
  started for a payroll. In turn (`CallsInTurn`), deposits and a second amount are made
  of one payroll only. `RacingLife` leaves out of the overlapping world a retry and an
  update to CREATED, which change no row there, and investigation, completion and
  expiry, which are like the other stages; deposits are left to the calls in turn. In
  the `Planned` world disbursements are made before a total is asked for
  (`DisbursementsFirst`, as the workflow does) and a payroll's documents are written one
  at a time (`Papers`).
* *Rates.* USD-COP at 400 and 441: down is less than 10 %, up is more. Two refreshes and
  an administrator's 400 may overlap, up to three rows of the pair (`MaxRows`); the
  refreshes are alike (SYMMETRY). `Scale` is cents; the amounts 30 to 1000 lie around
  the fees and around the steps in which a fee is rounded up.
* *Accounts and workplace.* Two consumers who share nothing, an email that is nobody's,
  codes, tokens and a wallet from before; an employee with half the salary paid out and
  one only created; where calls of the workplace may fail, two follow each other or
  overlap, else three. `MaxTime` is the one day in which reminders are or are not due.
* *Notices.* Six consumers' profiles, from an empty row to a complete one in two
  locales; `MaxSeeds` is 2 because templates get their titles at the second seeding.

**Fairness.** Only the liveness properties assume any: weak fairness of the own steps of
each call or delivery - Node runs every continuation that is ready, and every request to
a provider ends in an answer or a timeout - and that Circle settles what is pending.
Nothing is assumed of callers, faults, restarts or redeliveries. Elsewhere nothing has
to happen: emitted events, webhooks and the workflow's calls may be lost, and the code
has nobody who would notice.

## 4. Proofs

TLAPS checks the theorems for every value of the constants (any number of consumers,
calls, keys, requests, rows, any set of worlds), under the assumptions named in the
modules; TLC evaluates each of these on its instance, also those a single theorem makes
(`KeyContract`, `TransferContract`, `PaymentContract`, `EmailsAreOwn`, `FitsAtFirst`,
somebody with the role ADMIN; the first two of the calls made to CircleService itself).
The modules share a way of arguing: an invariant says what the *place* of a call implies
about its locals, the rows and the outside world; one lemma per action shows that it
keeps this, and says, besides, how far rows can change in that step, which is all the
other calls need to know.

What holds of calls in turn needs a second invariant on top of the first, guarded by the
world: while a call runs, no other does, so that what it has read is still what is there
and what it has written halfway is nobody else's. Rows may then differ from what the
property says only where the running call is about to put them right.

* `CircleWalletsProofs`. `TypeOK /\ CallsOK`: types alone are not inductive, because
  `cached` is written with *balance read minus amount*; `CallsOK` adds that a call past
  the comparison read at least the amount, and which kind of request each place serves.
  `StepKeeps` states that what Circle recorded under a key keeps its wallets, amount
  and, unless pending, its state. On these rest `FailureIsFinal`, `SuccessIsTrue`,
  `ChecksAreHarmless`, `HandedOutIsLinked` and `FirstRefusalIsTrue`. The first two
  assume `KeyContract`: callers give every movement a key of its own and ask about
  movements between two different wallets, as the workflows and the card service do.
  `FailureIsFinal` is about checks with whole cents: it needs the status check to
  recognize a transfer that is the requested one to the cent, which the code's
  comparison does for whole cents only. `CalmCacheIsExact` is about `Orderly` worlds.
  Its invariant, `CalmInv`, cannot say that the cache holds the balance: the service
  writes down what a pending transfer *will* come to, and Circle may complete it before
  or after. `Due(w, b)` is therefore what wallet `w` holds once everything pending is
  completed; every row holds what is due, but for the one or two the running call is
  about to rewrite (`Rewrites`), and what that call will write is due as well
  (`CalmCall`). It assumes `TransferContract`, no transfer of somebody to themselves:
  the code does not refuse one and would cache the balance with the amount added; and no
  debit that ends in half a cent, of which Circle takes the half cent while what is left
  in the cache is rounded up as well.
* `PomeloCardProofs` reuses that invariant for the wallets' half of the state and adds
  what is known of rows (`RowOK`, `StatusOK`, `SavedOK`), of what was sent to Circle
  under a purchase's key (`SentOK`) and of each delivery's place (`DeliveryOK`):
  `PurchasesAreDebitedOnce`, `DecisionsAreTrue`. `DecidedIsLeftAlone` is the action
  property: with deliveries in turn, the row of one that is past its look at the row is
  still PENDING (`TurnOK`).
* `PayrollProofs`. `IInv` says that a call past its read carries a status that is in the
  payroll's history and from which its own is allowed, and that a webhook past its
  matching carries a payroll its payment fits: the status may have changed since, the
  history has not forgotten. `StagesInOrder`, `PricedDeposits`;
  `PaymentsAreTheEmployers` under `PaymentContract` (Mono's payment IDs are its own).
  `CallsInTurnImplementLifecycle`: in a `Serial` world every step is one of
  `PayrollLifecycle` or a stutter. `PaymentsComeToTheTotal`, under `PaymentContract`:
  `PaidOK` keeps the total of a payroll a payment was put down to, because only a
  payroll that becomes PREPARED is summed again and a paid one cannot (`ChosenOK` for
  the one in between). `DocumentsAgree`, about `Planned` worlds, in which disbursements
  are made before a total is taken (`DisbursementsFirst`, as the workflow does):
  `DocInv` says that a text in the hands of a document's call, or in an object since its
  call was answered, is `Good`: of the payroll's disbursements, and of its total. What
  the sum is, a fold over the employees, stays open in these proofs: they only need that
  the payroll and its documents have the same one.
* `TransactionsProofs`. `TxInv`: each row's state against Mono's (`RowOK`), and each
  call's place, what it has reached and what it has answered (`CallOK`):
  `MoneyIsSentOnce`, `DebitsAreTrue`, `AnswersAreTrue`, `DroppedOutcomesAreUnreported`.
  `ThresholdIsKept` is about any number of refreshes that overlap each other and an
  administrator's rates: rows are only added, so what a refresh compared with is no
  older than the latest row when it began, and every insert on its way remembers both; a
  lookup that failed compares with nothing and is set apart in the row (`against`).
  `FeesCovered` is arithmetic over both quotes: each rounding moves an amount by half a
  cent at most, and the one of the fee is upwards. `SidesFitTheFlow` and
  `MoneyGoesWhereMeant` follow a request from its door through its pre-processor:
  `AskOK` gives each place the sides that are settled by then, and whose names led to
  them at that time, whatever tags do later.
* `AccountsProofs`. Rows are written back whole, so that an invariant about rows in the
  table is not inductive: `RowsBacked` gives every contact and every approval its reason
  in each row of the table *and* in each row a call has read. With the places of calls,
  the owners of tokens and the uniqueness of contacts it gives `ContactsWereProven`,
  `ContactsAreNotShared`, `ApprovalsHaveASource`, `ApprovedWalletsWereScreened`,
  `RefreshTokensWorkOnce`. `TheShownMayTransact` goes through what a row may be: four
  pieces of code agree on whoever may transact, and differ on the rejected, whom a
  contact lookup still shows. `UpdatesKeepToTheirFields`: in turn, the row a call has
  read is the row (`TurnInv`), so that the whole row it writes differs in its own fields
  only.
* `CardIssuingProofs`: `ConsumersHaveOneCard`, which rests on Pomelo keeping its
  idempotency keys; `CardholdersAreOwn`, in worlds in which emails stay, and
  `AskingAgainHelps`, in turn besides. Both assume `EmailsAreOwn` at the start; with
  emails that move they are false, see section 5. `AskingAgainHelps` goes through what a
  failed call can leave at each of its steps - a user at Pomelo without a row, a row
  without a card, a card without a row - and shows the next call to pass it; a user that
  Pomelo has blocked is the exception, and the lookup by email then comes back empty
  only for consumers Pomelo knew before.
* `WorkforceProofs`: `NobodyIsPaidMore`, from the fact that what was asked for stays and
  that a cap only lowers. `AllocationsFit`, in turn and whatever fails, if the amounts
  fitted at first: an amount above the new maximum is one the running call has still to
  cap (`IsToBeCapped`), and a failed query or update leaves a call that can only end in
  an error (`FailureExcuses`, `ErrorsStay`). `OneReminder`, likewise: who is yet to be
  reminded in a run has no entry in its history, and who was reminded by a run that did
  not give up has one before the next query. `NoticesHaveNoGaps` and
  `CompleteRowsAreTold` are about one notice of any type, to consumers with any rows,
  after any number of deployments. They rest on `TablesAgree`, which goes through the
  tables of the catalogue event by event: what a validator accepts is all that the texts
  of each medium print; a complete row has an address for each medium that reaches the
  consumer, and is then accepted. `CompleteRowsAreTold` leaves out the language of the
  request to an employer. `SeedInv` says what each pass over the templates has left of
  them: all after the first, the titles of the pushes after the second. `NoticeInv` says
  that each handler has an address, an accepted payload and the text in the reader's
  language, and that each medium that reaches the consumer has such a handler or its
  message.
* `AdministratorsProofs`: `OnlyAdminsMakeAdmins`; a call past its authentication has the
  role its caller had then, and a call that names no role writes the one it has read
  (`SeenInv`), which in turn is the role the row still has. `SomeAdminRemains`, in turn:
  the caller who removes or demotes another is not that other and has the role ADMIN
  still when the call ends.

Every safety property of a passing run has its theorem. Only model-checked are the
liveness properties `LinkingSettles` and `EveryDeliveryInTurnEnds`, and the seven
refuted properties. Liveness and ENABLED are outside what TLAPS proves, and so is what a
recursive function or a fold computes for every input, since that needs induction over
data.

## 5. What the checks found

Seven places where the model reaches what a comment, a test or the code's own wording
excludes are listed in `PROJECT.json` under "findings", each with the run that shows it.
Two more the model follows and no run refutes. A CREDIT adjustment never reaches Circle:
CardReversalProcessor sets the transaction's ID, Transaction.ts refuses one for any
workflow but CARD_WITHDRAWAL, and every adjustment is answered SYSTEM_ERROR, while a
test of it (`pomelo.webhook.service.spec.ts:1182`, with the transaction service mocked)
has it approved. And the request to an employer is always written in English, while
`consumer.controller.ts:490` says that the consumer's locale drives it: `NoticesArrive`
leaves that one language out. What follows was met while modelling. These are what keeps
some properties to calls in turn:

* Two overlapping deliveries of one purchase: the second may read PENDING, move the
  money after the first has decided, and overwrite the decision.
* Two overlapping updatePayroll calls: a payroll that became FUNDED after being read is
  written EXPIRED. An update to the status already held is allowed, and writes the old
  status back if the payroll moves on meanwhile.
* Two administrators who remove or demote each other at the same time leave nobody with
  the role ADMIN; a change of only the name writes back the role as it was read, and a
  caller whose role is taken after authentication still hands it out (`PowersAreGiven`
  says that an overlap can do no more).
* Every identity check and every case webhook writes the whole row back: a late PENDING
  about a document reopens an approved one, a transaction's screening restores the
  check's status.
* Two racing links give an employee to the later consumer (`employee.service.ts:91`);
  two racing invitations make two employees; a stale invitation writes LINKED back to
  INVITED.
* removeWallet and confirmWallet at the same time can leave a deleted wallet approved.
* Overlapping refreshes of one pair compare with the same rate, so that two of them
  together move it by more than the threshold; `ThresholdHolds` asks for one rate that
  was in force while the refresh ran.
* An employee's amount that was lowered to a new maximum comes back, written by an
  update that had read it before; `NeverMoreThanAsked` only bounds it by what was once
  asked for.

Further observations, which no text of the repository contradicts outright unless said:

*Wallets.* A debit that ends in half a cent is rounded up at Circle, and what is cached
for what is left is rounded up too, so the cache is a cent above the balance until it is
refreshed. A debit of less than half a cent passes the check for a positive amount and
is sent to Circle as 0.00.

*Payroll and Mono.* account_credited carries Mono's payment ID and nothing looks it up:
the same payment delivered again, after another payroll of that total was invoiced,
funds both. retryPayroll starts a run while an earlier one may still be working (its
TODO says so). createInvoice checks no status: without a total it fails in formatting. A
disbursement query that fails yields an invoice with a total and no lines. A failed
document leaves its browser open and the objects it had already uploaded in place.
Updating a disbursement without a credit amount throws (`PayrollDisbursement.ts:57`),
although the request's type has it optional. An employee without a consumer fails both
documents, and cannot be paid a deposit.

*Transactions.* A Mono webhook that comes before the row is saved is acknowledged and
lost. debitFromBank answers an empty 201 to every error but ALREADY_EXISTS. A start of a
workflow whose answer was lost is tried again, refused as started already, and reported
as an error. A transfer without a receiver is saved with none; an adjustment that is
given a tag fails at the save; the WALLET_* processors are reachable from no door, and a
CARD_REVERSAL is always refused. Handles are unique with regard to case and looked up
without: of two that differ in a capital, a transfer reaches whichever row comes first.

*Rates.* A refresh whose lookup fails compares with nothing and stores any rate. An
administrator's rate (valid for 36 hours) outlives a newer one of the provider (25
hours) and then comes back. A quote of exactly 0 is offered and cannot be saved. Deposit
quotes are not monotone: a cent more may credit up to five cents less, by the rounding
of the fee. The insertion of a rate that is rejected while the loop awaits the next pair
is an unhandled rejection.

*Accounts and cards.* deleteOTP passes over a row that is gone, so one code is accepted
by two overlapping calls; all purposes share the one Otp row of a contact. Failing to
delete old codes is passed over, and the new code is then refused. postDocumentFeedback
reports APPROVED whatever the result (`sardine.client.ts:642`: the second operand of
`||` is a constant). Users verified by a live photo are not found by
findConsumersByPublicInfo. updateConsumer leaves out fields that are set to an empty
string. A consumer whose createUser answer was lost, and whose email another takes over,
leaves that other their Pomelo user. A second request for a card one has ends in an
error. A user whom Pomelo knows from elsewhere and has blocked is not among the ACTIVE
ones that getUserByEmail asks for; the service reads the id of null
(`pomelo.service.ts:120`), at every attempt. The lookup by contacts (`POST
/consumers/devicecontacts`) shows consumers whose identity is unverified or rejected, as
long as they are neither locked nor disabled. `GET /cards/:id` passes its two arguments
in the other order than getCard takes them.

*Employees.* An invitation that was sent and whose INVITED could not be written leaves
somebody told and CREATED. A new percentage wipes the amounts of those without a salary
(`salary ?? 0`). Relinking an UNLINKED employee can make two active ones of one email;
createEmployee finds the active employee of another employer by email.

*Notices.* `nobaFees` is a localized string and its schema wants a number: a fee written
with a comma is refused, and with it the notice on every medium. Transaction notices
require an email, so a phone-only consumer's push fails and the workflow's call with it;
a transfer's notice that is tried again repeats the sender's. Consumers without a locale
or a name are refused the notices that copy them. The credit adjustment's email prints a
last name its payload never carries. Push templates get their titles only at the second
seeding. Several events have no sender. toPayrollDepositCompleted replaces the
transaction's rate by its inverse. A code for a wallet asked for by email by a
phone-only consumer is sent to nobody. A handler whose template query fails is an
unhandled rejection (`notification.service.ts:131`). `@Post("/:notificationType")` is
declared before `@Post("/reminder")`, so no request reaches createReminderSchedule. A
reminder to a consumer without tokens throws.

## 6. Not modelled

* *Limits*: every path of `transaction/limits.service.ts` calls a method of the
  repository that throws "Method not implemented"; nothing can be reached to model.
* *Settlement reports, Marketing, Checkout and Plaid*: queries and single outgoing calls
  without state of their own.
* *Payment methods, referral codes, the upload of many invitations at once, names, logos
  and dates of employers*: rows nobody's later steps depend on.
* *The scheduled deletion of expired codes* and partners' logins. A code that has
  expired is one that is refused, as a wrong one is.
* *Configuration and framework wiring*; rendering, wording and layout beyond what a
  message or document must contain; encryption, signatures and CSV (arithmetic on
  bytes).
* *The providers'* own behaviour beyond what the clients rely on, and *the Temporal
  workflows*, which are not in this repository: their calls are the requests the models
  take.
