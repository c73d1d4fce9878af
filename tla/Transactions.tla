---------------------------- MODULE Transactions ----------------------------
(***************************************************************************)
(* A transaction from the request to its workflow, and the rows Noba keeps *)
(* of it: TransactionService (initiate, screen, debitFromBank, update),    *)
(* the workflow's HTTP calls, MonoService (transfers and collection links) *)
(* and Mono's webhooks about them.  Every request to the server is a call  *)
(* that runs one step per awaited operation.  A transaction is named by    *)
(* the call that created it.                                               *)
(***************************************************************************)
EXTENDS Naturals, FiniteSets

CONSTANTS
    Calls,      \* identities of the calls made to the server
    Requests,   \* what users, workflows and Mono may ask for in each call
    NoRequest,
    Faulty      \* may queries, providers and the server fail?

\* Started by a user and screened; started by an administrator, not screened;
\* saved for a workflow that runs already.
UserFlows == {"deposit", "withdrawal", "transfer"}
Flows == UserFlows \cup {"adjustment", "payrollDeposit"}
TransactionStatus == {"INITIATED", "PROCESSING", "COMPLETED", "FAILED"}
Outcomes == {"SUCCESS", "DECLINED"}
MonoStates == {"PENDING"} \cup Outcomes

RequestType ==
    [kind : {"initiate"}, flow : Flows]
    \cup [kind : {"debitFromBank"}, of : Calls]
    \cup [kind : {"webhook"}, of : Calls]
    \cup [kind : {"patch"}, of : Calls, status : TransactionStatus]

ASSUME TransactionsAssumption ==
    /\ Requests \in [Calls -> SUBSET RequestType]
    /\ NoRequest \notin RequestType
    /\ Faulty \in BOOLEAN

VARIABLES
    status,     \* the Transaction rows
    details,    \* transactions with a WithdrawalDetails row
    events,     \* TransactionEvents of each transaction
    mono,       \* the Mono rows' state
    bank,       \* Mono's transfers and collection links, by idempotency key
    runs,       \* transactions whose workflow Temporal has started
    verdict,    \* what the sanctions provider said of each transaction
    pc, req, answer

rowVars == <<status, details, events, mono>>
outsideVars == <<bank, runs, verdict>>
txCallVars == <<pc, req, answer>>
txVars == <<rowVars, outsideVars, txCallVars>>

Steps == {"idle", "save", "details", "screen", "noteRisk", "noteError", "fail", "failAgain",
          "link", "linkRow", "start", "restart", "load", "lookup", "transfer", "insert",
          "find", "record", "event", "status", "done"}
Answers == {"none", "created", "refused", "error", "crashed", "debited", "conflict", "empty",
            "ignored", "recorded", "updated"}
BankState == {"none", "accepted"} \cup Outcomes

TxTypeOK ==
    /\ status \in [Calls -> TransactionStatus \cup {"none"}]
    /\ details \subseteq Calls
    /\ events \in [Calls -> SUBSET ({"highRisk", "notScreened"} \cup TransactionStatus)]
    /\ mono \in [Calls -> MonoStates \cup {"none"}]
    /\ bank \in [Calls -> [of : Calls, state : BankState]]
    /\ runs \subseteq Calls
    /\ verdict \in [Calls -> {"none", "approved", "denied"}]
    /\ pc \in [Calls -> Steps]
    /\ req \in [Calls -> RequestType \cup {NoRequest}]
    /\ answer \in [Calls -> Answers]

TxInit ==
    /\ status = [t \in Calls |-> "none"]
    /\ details = {}
    /\ events = [t \in Calls |-> {}]
    /\ mono = [t \in Calls |-> "none"]
    /\ bank = [k \in Calls |-> [of |-> k, state |-> "none"]]
    /\ runs = {}
    /\ verdict = [t \in Calls |-> "none"]
    /\ pc = [c \in Calls |-> "idle"]
    /\ req = [c \in Calls |-> NoRequest]
    /\ answer = [c \in Calls |-> "none"]

Running(c) == pc[c] \notin {"idle", "done"}
Goto(c, step) == pc' = [pc EXCEPT ![c] = step]
Continue(c, step) == Goto(c, step) /\ UNCHANGED answer
Finish(c, a) == Goto(c, "done") /\ answer' = [answer EXCEPT ![c] = a]
Fails(c) == Faulty /\ Finish(c, "error")
SetStatus(t, s) == status' = [status EXCEPT ![t] = s]
AddEvent(t, e) == events' = [events EXCEPT ![t] = @ \cup {e}]

\* The transaction a webhook or a workflow's call is about.
Of(c) == req[c].of

-----------------------------------------------------------------------------
(* Requests arrive *)

FlowOf(t) == req[t].flow

\* A workflow calls while it runs; Mono reports what it has settled, and of
\* collection links only that they were paid.
Called(r) ==
    CASE r.kind = "initiate" -> TRUE
      [] r.kind = "debitFromBank" -> r.of \in runs /\ FlowOf(r.of) = "withdrawal"
      [] r.kind = "patch" -> r.of \in runs
      [] r.kind = "webhook" ->
            /\ bank[r.of].state \in Outcomes
            /\ FlowOf(r.of) = "deposit" => bank[r.of].state = "SUCCESS"

FirstStep(kind) ==
    CASE kind = "initiate" -> "save"
      [] kind = "debitFromBank" -> "load"
      [] kind = "webhook" -> "find"
      [] kind = "patch" -> "event"

Receive(c, r) ==
    /\ pc[c] = "idle"
    /\ Called(r)
    /\ req' = [req EXCEPT ![c] = r]
    /\ Continue(c, FirstStep(r.kind))
    /\ UNCHANGED <<rowVars, outsideVars>>

-----------------------------------------------------------------------------
(* initiateTransaction, deprecatedInitiateTransaction *)

AfterSave(flow) ==
    CASE flow = "withdrawal" -> "details"
      [] flow \in {"deposit", "transfer"} -> "screen"
      [] flow = "adjustment" -> "start"
      [] flow = "payrollDeposit" -> "done"

\* The request is refused: fields that do not belong to the flow, no rate, an amount
\* that does not cover the fees, an inactive consumer, one consumer on both sides.
RejectRequest(c) == UNCHANGED status /\ Finish(c, "error")

\* The row is saved, though its answer may be lost.
InsertTransaction(c) ==
    /\ SetStatus(c, "INITIATED")
    /\ \/ AfterSave(FlowOf(c)) = "done" /\ Finish(c, "created")
       \/ AfterSave(FlowOf(c)) # "done" /\ Continue(c, AfterSave(FlowOf(c)))
       \/ Fails(c)

SaveTransaction(c) ==
    /\ pc[c] = "save"
    /\ RejectRequest(c) \/ InsertTransaction(c)
    /\ UNCHANGED <<details, events, mono, outsideVars, req>>

\* A failure is thrown to the user; the row stays.
AddWithdrawalDetails(c) ==
    /\ pc[c] = "details"
    /\ \/ details' = details \cup {c} /\ Continue(c, "screen")
       \/ UNCHANGED details /\ Fails(c)
    /\ UNCHANGED <<status, events, mono, outsideVars, req>>

AfterScreen(flow) == IF flow = "deposit" THEN "link" ELSE "start"

\* validateForSanctions: the account number is decrypted, the provider is asked,
\* the consumer is updated.  Only a ServiceException, which the provider's failure
\* becomes, stops the transaction: what the other two throw is swallowed.
ScreenTransaction(c) ==
    /\ pc[c] = "screen"
    /\ \/ \E v \in {"approved", "denied"} :
            /\ verdict' = [verdict EXCEPT ![c] = v]
            /\ Continue(c, IF v = "approved" THEN AfterScreen(FlowOf(c)) ELSE "noteRisk")
       \/ Faulty /\ UNCHANGED verdict /\ Continue(c, "noteError")
       \/ /\ Faulty
          /\ verdict' \in {verdict, [verdict EXCEPT ![c] = "approved"],
                           [verdict EXCEPT ![c] = "denied"]}
          /\ Continue(c, AfterScreen(FlowOf(c)))
    /\ UNCHANGED <<rowVars, bank, runs, req>>

\* The event of a denied check.  A failing lookup of the row is a ServiceException,
\* a failing insert is not.
NoteHighRisk(c) ==
    /\ pc[c] = "noteRisk"
    /\ \/ AddEvent(c, "highRisk") /\ Continue(c, "fail")
       \/ Faulty /\ UNCHANGED events /\ Continue(c, "noteError")
       \/ Faulty /\ UNCHANGED events /\ Continue(c, AfterScreen(FlowOf(c)))
    /\ UNCHANGED <<status, details, mono, outsideVars, req>>

NoteScreeningError(c) ==
    /\ pc[c] = "noteError"
    /\ \/ AddEvent(c, "notScreened") /\ Continue(c, "failAgain")
       \/ Faulty /\ UNCHANGED events /\ Continue(c, "failAgain")
       \/ Faulty /\ UNCHANGED events /\ Continue(c, AfterScreen(FlowOf(c)))
    /\ UNCHANGED <<status, details, mono, outsideVars, req>>

\* FAILED is written inside the try block; a failing write is not a ServiceException.
FailDenied(c) ==
    /\ pc[c] = "fail"
    /\ \/ SetStatus(c, "FAILED") /\ Continue(c, "failAgain")
       \/ Faulty /\ UNCHANGED status /\ Continue(c, AfterScreen(FlowOf(c)))
    /\ UNCHANGED <<details, events, mono, outsideVars, req>>

\* ... and again in the catch block, which then throws.
FailTransaction(c) ==
    /\ pc[c] = "failAgain"
    /\ \/ SetStatus(c, "FAILED") /\ Finish(c, "refused")
       \/ UNCHANGED status /\ Fails(c)
    /\ UNCHANGED <<details, events, mono, outsideVars, req>>

-----------------------------------------------------------------------------
(* Mono, and the Mono rows of a deposit *)

\* Mono answers a repeated idempotency key with what it did the first time.
BankAccepts(k, t) ==
    bank' = IF bank[k].state # "none" THEN bank
            ELSE [bank EXCEPT ![k] = [of |-> t, state |-> "accepted"]]

CreateCollectionLink(c) ==
    /\ pc[c] = "link"
    /\ \/ BankAccepts(c, c) /\ (Continue(c, "linkRow") \/ Fails(c))
       \/ UNCHANGED bank /\ Fails(c)
    /\ UNCHANGED <<rowVars, runs, verdict, req>>

InsertLinkRow(c) ==
    /\ pc[c] = "linkRow"
    /\ \/ /\ mono' = [mono EXCEPT ![c] = "PENDING"]
          /\ Continue(c, "start")
       \/ UNCHANGED mono /\ Fails(c)
    /\ UNCHANGED <<status, details, events, outsideVars, req>>

\* Mono settles what it has accepted.
BankSettles(k) ==
    /\ bank[k].state = "accepted"
    /\ \E o \in Outcomes : bank' = [bank EXCEPT ![k].state = o]
    /\ UNCHANGED <<rowVars, runs, verdict, txCallVars>>

-----------------------------------------------------------------------------
(* executeWorkflowWrapper *)

\* The first attempt; any error, a lost answer too, leads to the second.
StartWorkflow(c) ==
    /\ pc[c] = "start"
    /\ \/ runs' = runs \cup {c} /\ Finish(c, "created")
       \/ Faulty /\ runs' \in {runs, runs \cup {c}} /\ Continue(c, "restart")
    /\ UNCHANGED <<rowVars, bank, verdict, req>>

\* Variant: an unreachable Temporal is not reported.
StartAgainQuietly(c) ==
    /\ pc[c] = "restart"
    /\ runs' \in {runs, runs \cup {c}}
    /\ Finish(c, "created")
    /\ UNCHANGED <<rowVars, bank, verdict, req>>

\* The workflow's ID is the transaction's: a second start of a running one fails.
StartWorkflowAgain(c) ==
    /\ pc[c] = "restart"
    /\ \/ c \notin runs /\ runs' = runs \cup {c} /\ (Finish(c, "created") \/ Fails(c))
       \/ UNCHANGED runs /\ Fails(c)
    /\ UNCHANGED <<rowVars, bank, verdict, req>>

-----------------------------------------------------------------------------
(* debitFromBank: what the workflow of a withdrawal calls, and calls again *)

\* The row and the withdrawal details; a failing query finds nothing.  The
\* controller answers every exception but ALREADY_EXISTS with an empty 201.
LoadTransaction(c) ==
    /\ pc[c] = "load"
    /\ \/ status[Of(c)] # "none" /\ Of(c) \in details /\ Continue(c, "lookup")
       \/ (Faulty \/ Of(c) \notin details) /\ Finish(c, "empty")
    /\ UNCHANGED <<rowVars, outsideVars, req>>

\* Variant: the row is saved before the transfer is sent.
LookupReservesRow(c) ==
    /\ pc[c] = "lookup"
    /\ IF mono[Of(c)] # "none"
       THEN Finish(c, "conflict") /\ UNCHANGED mono
       ELSE Continue(c, "transfer") /\ mono' = [mono EXCEPT ![Of(c)] = "PENDING"]
    /\ UNCHANGED <<status, details, events, outsideVars, req>>

LookupMonoRow(c) ==
    /\ pc[c] = "lookup"
    /\ \/ mono[Of(c)] # "none" /\ Finish(c, "conflict")
       \/ mono[Of(c)] = "none" /\ Continue(c, "transfer")
       \/ Faulty /\ Finish(c, "empty")
    /\ UNCHANGED <<rowVars, outsideVars, req>>

\* Variant: a key of its own for every attempt.
KeyPerAttempt(c) == c
IdempotencyKey(c) == Of(c)

\* Variant: the workflow is answered before the row is saved.
SendTransferUnsaved(c) ==
    /\ pc[c] = "transfer"
    /\ BankAccepts(IdempotencyKey(c), Of(c))
    /\ Finish(c, "debited")
    /\ UNCHANGED <<rowVars, runs, verdict, req>>

\* Accepted, refused, or the answer lost.
SendTransfer(c) ==
    /\ pc[c] = "transfer"
    /\ \/ BankAccepts(IdempotencyKey(c), Of(c)) /\ Continue(c, "insert")
       \/ Faulty /\ BankAccepts(IdempotencyKey(c), Of(c)) /\ Finish(c, "empty")
       \/ UNCHANGED bank /\ Finish(c, "empty")
    /\ UNCHANGED <<rowVars, runs, verdict, req>>


\* nobaTransactionID is unique: of two attempts that found no row, one is refused.
InsertMonoTransaction(c) ==
    /\ pc[c] = "insert"
    /\ \/ /\ mono[Of(c)] = "none"
          /\ mono' = [mono EXCEPT ![Of(c)] = "PENDING"]
          /\ Finish(c, "debited") \/ (Faulty /\ Finish(c, "empty"))
       \/ (mono[Of(c)] # "none" \/ Faulty) /\ UNCHANGED mono /\ Finish(c, "empty")
    /\ UNCHANGED <<status, details, events, outsideVars, req>>

-----------------------------------------------------------------------------
(* collection_intent_credited, bank_transfer_approved, bank_transfer_rejected *)

\* No row carries Mono's ID: an alert is raised and the webhook answered 201.
FindMonoRow(c) ==
    /\ pc[c] = "find"
    /\ \/ mono[Of(c)] = "none" /\ Finish(c, "ignored")
       \/ mono[Of(c)] # "none" /\ Continue(c, "record")
       \/ Fails(c)
    /\ UNCHANGED <<rowVars, outsideVars, req>>

RecordOutcome(c) ==
    /\ pc[c] = "record"
    /\ \/ /\ mono' = [mono EXCEPT ![Of(c)] = bank[Of(c)].state]
          /\ Finish(c, "recorded") \/ Fails(c)
       \/ UNCHANGED mono /\ Fails(c)
    /\ UNCHANGED <<status, details, events, outsideVars, req>>

-----------------------------------------------------------------------------
(* The workflow's PATCH: its event first, then the status *)

\* A failing query finds no transaction, which is an error as well.
AddTransactionEvent(c) ==
    /\ pc[c] = "event"
    /\ \/ /\ AddEvent(Of(c), req[c].status)
          /\ Continue(c, "status") \/ Fails(c)
       \/ UNCHANGED events /\ Fails(c)
    /\ UNCHANGED <<status, details, mono, outsideVars, req>>

\* updateTransaction: any status may follow any other.
UpdateTransaction(c) ==
    /\ pc[c] = "status"
    /\ \/ SetStatus(Of(c), req[c].status) /\ (Finish(c, "updated") \/ Fails(c))
       \/ UNCHANGED status /\ Fails(c)
    /\ UNCHANGED <<details, events, mono, outsideVars, req>>

-----------------------------------------------------------------------------
\* The server restarts: every call in flight is gone, what it did remains.
ServerCrash ==
    /\ Faulty
    /\ \E c \in Calls : Running(c)
    /\ pc' = [c \in Calls |-> IF Running(c) THEN "done" ELSE pc[c]]
    /\ answer' = [c \in Calls |-> IF Running(c) THEN "crashed" ELSE answer[c]]
    /\ UNCHANGED <<rowVars, outsideVars, req>>

TxStep(c) ==
    \/ SaveTransaction(c) \/ AddWithdrawalDetails(c) \/ ScreenTransaction(c)
    \/ NoteHighRisk(c) \/ NoteScreeningError(c) \/ FailDenied(c) \/ FailTransaction(c)
    \/ CreateCollectionLink(c) \/ InsertLinkRow(c)
    \/ StartWorkflow(c) \/ StartWorkflowAgain(c)
    \/ LoadTransaction(c) \/ LookupMonoRow(c) \/ SendTransfer(c) \/ InsertMonoTransaction(c)
    \/ FindMonoRow(c) \/ RecordOutcome(c)
    \/ AddTransactionEvent(c) \/ UpdateTransaction(c)

TxNext ==
    \/ \E c \in Calls : (\E r \in Requests[c] : Receive(c, r)) \/ TxStep(c)
    \/ \E k \in Calls : BankSettles(k)
    \/ ServerCrash

TxSpec == TxInit /\ [][TxNext]_txVars

-----------------------------------------------------------------------------
(* Properties *)

\* However often and however concurrently the workflow of a withdrawal calls
\* debitFromBank, Mono transfers the money of a transaction at most once.
OneTransferPerTransaction ==
    \A j, k \in Calls :
        bank[j].state # "none" /\ bank[k].state # "none" /\ bank[j].of = bank[k].of => j = k

\* The workflow takes 409 for "sent already": the transfer was accepted, though
\* another call, or one that crashed, sent it.  So does a withdrawal it is told of.
ConflictMeansSent ==
    \A c \in Calls : answer[c] \in {"conflict", "debited"} =>
        bank[Of(c)].state # "none" /\ mono[Of(c)] # "none"

\* An outcome is only dropped, with an answer that stops Mono from sending it
\* again, while nobody has been told that the money is on its way.
OnlyUnreportedOutcomesAreDropped ==
    [][\A c, d \in Calls :
        /\ pc[c] = "find" /\ answer'[c] = "ignored"
        /\ req[d] # NoRequest /\ req[d].kind = "debitFromBank" /\ Of(d) = Of(c)
        => answer[d] \notin {"debited", "conflict"}]_txVars

\* What a user is told is so.  Refused: no workflow runs, no link to pay exists, and
\* the row says FAILED.  Created: the workflow runs, and a deposit can be credited
\* when it is paid.
AnswerIsTrue ==
    \A c \in Calls :
        /\ answer[c] = "refused" => c \notin runs /\ bank[c].state = "none" /\ status[c] = "FAILED"
        /\ answer[c] = "created" /\ FlowOf(c) # "payrollDeposit" =>
                c \in runs /\ (FlowOf(c) = "deposit" => mono[c] # "none")

-----------------------------------------------------------------------------
(* What a comment says and the code does not keep *)

\* transaction.service.ts: "If it passes, simple return. If it fails, an exception
\* will be thrown".  A user's transaction only runs if the check passed.
RunsAreScreened ==
    \A t \in runs : FlowOf(t) \in UserFlows => verdict[t] = "approved"
=============================================================================
