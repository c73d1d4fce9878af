-------------------------- MODULE TransactionsProofs -------------------------
(***************************************************************************)
(* Theorems about Transactions, for any number of calls, any requests in   *)
(* them, any interleaving, faults and restarts; about ExchangeRates, for   *)
(* any refreshes, provider, fees and amounts; and about                    *)
(* TransactionRequests, for any askers, requests, tags and locks.          *)
(***************************************************************************)
EXTENDS Transactions, ExchangeRates, TransactionRequests, WellFoundedInduction, TLAPS

\* What each kind of call goes through.
InitiateSteps == {"save", "details", "screen", "noteRisk", "noteError", "fail", "failAgain",
                  "link", "linkRow", "start", "restart"}
DebitSteps == {"load", "lookup", "transfer", "insert"}
WebhookSteps == {"find", "record"}
PatchSteps == {"event", "status"}

\* Before anything of a transaction is known outside; before its workflow starts.
Early == {"idle", "save", "details", "screen", "noteRisk", "noteError", "fail", "failAgain"}
BeforeRun == Early \cup {"link", "linkRow", "start"}

Kind(c) == req[c].kind

\* A call goes through the steps of its request, and makes no answer before its end.
Placed(c) ==
    /\ pc[c] # "idle" => req[c] \in Requests[c]
    /\ pc[c] \in InitiateSteps => Kind(c) = "initiate"
    /\ pc[c] \in DebitSteps => Kind(c) = "debitFromBank"
    /\ pc[c] \in WebhookSteps => Kind(c) = "webhook"
    /\ pc[c] \in PatchSteps => Kind(c) = "patch"
    /\ pc[c] # "done" => answer[c] = "none"

\* What has happened by the time a call is where it is.
Reached(c) ==
    /\ pc[c] \in BeforeRun => c \notin runs
    /\ pc[c] \in Early => bank[c].state = "none"
    /\ pc[c] = "linkRow" => bank[c].state # "none"
    /\ pc[c] \in {"start", "restart"} /\ FlowOf(c) = "deposit" => mono[c] # "none"
    /\ pc[c] # "idle" /\ Kind(c) \in {"debitFromBank", "patch"} => Of(c) \in runs
    /\ pc[c] # "idle" /\ Kind(c) = "webhook" => bank[Of(c)].state \in Outcomes
    /\ pc[c] = "insert" => bank[Of(c)].state # "none"

\* What is true of an answer.
Answered(c) ==
    /\ answer[c] \in {"conflict", "debited"} =>
        /\ Kind(c) = "debitFromBank"
        /\ bank[Of(c)].state # "none" /\ mono[Of(c)] # "none"
    /\ answer[c] = "refused" =>
        c \notin runs /\ bank[c].state = "none" /\ status[c] = "FAILED"
    /\ answer[c] = "created" =>
        /\ Kind(c) = "initiate"
        /\ FlowOf(c) # "payrollDeposit" =>
            c \in runs /\ (FlowOf(c) = "deposit" => mono[c] # "none")

CallOK(c) == Placed(c) /\ Reached(c) /\ Answered(c)

\* A key carries the money of the transaction it is, and only what Mono has
\* accepted has a row.
RowOK(t) == bank[t].of = t /\ (mono[t] # "none" => bank[t].state # "none")

TxInv ==
    /\ TxTypeOK
    /\ \A t \in Calls : RowOK(t)
    /\ \A c \in Calls : CallOK(c)

\* What a request is made of.
LEMMA RequestTyped ==
    ASSUME NEW c \in Calls, NEW r \in Requests[c]
    PROVE  /\ r \in RequestType
           /\ r.kind \in {"initiate", "debitFromBank", "webhook", "patch"}
           /\ r.kind = "initiate" => r.flow \in Flows
           /\ r.kind # "initiate" => r.of \in Calls
           /\ r.kind = "patch" => r.status \in TransactionStatus
<1>1. r \in RequestType
  BY TransactionsAssumption
<1> QED BY <1>1 DEF RequestType

LEMMA TxInitOK == TxInit => TxInv
<1> SUFFICES ASSUME TxInit PROVE TxInv
  OBVIOUS
<1>1. TxTypeOK
  BY DEF TxInit, TxTypeOK, MonoStates, BankState, Steps, Answers
<1>2. \A t \in Calls : RowOK(t)
  BY DEF TxInit, RowOK
<1>3. \A c \in Calls : CallOK(c)
  BY DEF TxInit, CallOK, Placed, Reached, Answered, InitiateSteps, DebitSteps, WebhookSteps,
     PatchSteps, Early, BeforeRun
<1> QED BY <1>1, <1>2, <1>3 DEF TxInv

\* What a step of one call leaves of everything the other calls rely on.
Own(c) ==
    /\ \A d \in Calls \ {c} : pc'[d] = pc[d] /\ req'[d] = req[d] /\ answer'[d] = answer[d]
    /\ runs' \in {runs, runs \cup {c}}
    /\ \A t \in Calls :
        /\ mono[t] # "none" => mono'[t] # "none"
        /\ bank[t].state # "none" => bank'[t].state # "none"
        /\ bank[t].state \in Outcomes => bank'[t].state \in Outcomes
        /\ t = c \/ t \in runs \/ (bank'[t].state = bank[t].state /\ status'[t] = status[t])

LEMMA OthersOK ==
    ASSUME TxInv, NEW c \in Calls, Own(c), CallOK(c)'
    PROVE  \A d \in Calls : CallOK(d)'
<1> SUFFICES ASSUME NEW d \in Calls \ {c} PROVE CallOK(d)'
  OBVIOUS
<1>1. CallOK(d) /\ pc'[d] = pc[d] /\ req'[d] = req[d] /\ answer'[d] = answer[d]
  BY DEF TxInv, Own
<1>2. pc[d] # "idle" /\ Kind(d) # "initiate" => Of(d) \in Calls
  BY <1>1, RequestTyped DEF CallOK, Placed, Kind, Of
<1>3. Placed(d)'
  BY <1>1 DEF CallOK, Placed, Kind
<1>4. d \notin runs => d \notin runs' /\ bank'[d].state = bank[d].state /\ status'[d] = status[d]
  BY DEF Own
<1>5. Reached(d)'
  <2>1. pc[d] # "idle" /\ Kind(d) # "initiate" =>
            /\ Of(d) \in runs => Of(d) \in runs'
            /\ bank[Of(d)].state # "none" => bank'[Of(d)].state # "none"
            /\ bank[Of(d)].state \in Outcomes => bank'[Of(d)].state \in Outcomes
    BY <1>2 DEF Own
  <2>2. mono[d] # "none" => mono'[d] # "none"
    BY DEF Own
  <2>3. bank[d].state # "none" => bank'[d].state # "none"
    BY DEF Own
  <2>4. Reached(d) /\ Placed(d)
    BY <1>1 DEF CallOK
  <2> QED BY <1>1, <1>4, <2>1, <2>2, <2>3, <2>4
        DEF Reached, Placed, Kind, Of, FlowOf, DebitSteps, BeforeRun, Early
<1>6. Answered(d)'
  <2>1. Answered(d) /\ Placed(d)
    BY <1>1 DEF CallOK
  <2>2. answer[d] # "none" => pc[d] # "idle"
    BY <2>1 DEF Placed
  <2>3. Kind(d) = "debitFromBank" /\ pc[d] # "idle" =>
            /\ bank[Of(d)].state # "none" => bank'[Of(d)].state # "none"
            /\ mono[Of(d)] # "none" => mono'[Of(d)] # "none"
    BY <1>2 DEF Own
  <2>4. mono[d] # "none" => mono'[d] # "none"
    BY DEF Own
  <2>5. d \in runs => d \in runs'
    BY DEF Own
  <2> QED BY <1>1, <1>4, <2>1, <2>2, <2>3, <2>4, <2>5 DEF Answered, Kind, Of, FlowOf
<1> QED BY <1>3, <1>5, <1>6 DEF CallOK
LEMMA CallStepOK ==
    ASSUME TxInv, NEW c \in Calls, TxTypeOK', \A t \in Calls : RowOK(t)', Own(c), CallOK(c)'
    PROVE  TxInv'
BY OthersOK DEF TxInv

\* What BankAccepts does to the key of a transaction: it is Mono's from now on, and
\* no other key and nothing settled changes.
LEMMA BankAcceptsOK ==
    ASSUME TxInv, NEW k \in Calls, BankAccepts(k, k)
    PROVE  /\ bank' \in [Calls -> [of : Calls, state : BankState]]
           /\ bank'[k].state # "none"
           /\ \A t \in Calls : bank'[t].of = t
           /\ \A t \in Calls : bank[t].state \in Outcomes \/ t # k => bank'[t] = bank[t]
           /\ \A t \in Calls : bank[t].state # "none" => bank'[t].state # "none"
<1>1. bank \in [Calls -> [of : Calls, state : BankState]] /\ \A t \in Calls : bank[t].of = t
  BY DEF TxInv, TxTypeOK, RowOK
<1>2. [of |-> k, state |-> "accepted"] \in [of : Calls, state : BankState]
  BY DEF BankState
<1> QED BY <1>1, <1>2 DEF BankAccepts, Outcomes

-----------------------------------------------------------------------------
(* One lemma for each step of a call *)

LEMMA SaveTransactionOK ==
    ASSUME TxInv, NEW c \in Calls, SaveTransaction(c)
    PROVE  TxInv'
<1>1. CallOK(c) /\ RowOK(c) /\ req[c] \in Requests[c]
  BY DEF TxInv, CallOK, Placed, SaveTransaction
<1>2. Kind(c) = "initiate" /\ FlowOf(c) \in Flows /\ AfterSave(FlowOf(c)) \in {"details", "screen", "start", "done"}
     /\ (AfterSave(FlowOf(c)) = "start" => FlowOf(c) # "deposit")
     /\ (AfterSave(FlowOf(c)) = "done" => FlowOf(c) = "payrollDeposit")
  BY <1>1, RequestTyped DEF CallOK, Placed, Reached, Kind, Of, FlowOf, InitiateSteps,
     DebitSteps, WebhookSteps, PatchSteps, SaveTransaction, AfterSave, Flows, UserFlows
<1>3. TxTypeOK'
  BY <1>1, <1>2 DEF TxInv, TxTypeOK, SaveTransaction, RejectRequest, InsertTransaction,
     SetStatus, rowVars, outsideVars, TransactionStatus, Continue, Goto, Finish, Fails,
     Steps, Answers
<1>4. \A t \in Calls : RowOK(t)'
  BY <1>1, <1>2 DEF TxInv, TxTypeOK, RowOK, SaveTransaction, RejectRequest,
     InsertTransaction, SetStatus, rowVars, outsideVars, TransactionStatus, Continue, Goto,
     Finish, Fails
<1>5. Own(c)
  BY <1>1, <1>2 DEF TxInv, TxTypeOK, Own, SaveTransaction, RejectRequest,
     InsertTransaction, SetStatus, rowVars, outsideVars, TransactionStatus, Continue, Goto,
     Finish, Fails
<1>6. CallOK(c)'
  BY <1>1, <1>2 DEF TxInv, TxTypeOK, CallOK, Placed, Reached, Answered, RowOK, Kind, Of,
     FlowOf, SaveTransaction, RejectRequest, InsertTransaction, SetStatus, rowVars,
     outsideVars, TransactionStatus, Continue, Goto, Finish, Fails, InitiateSteps,
     DebitSteps, WebhookSteps, PatchSteps, Early, BeforeRun
<1> QED BY <1>3, <1>4, <1>5, <1>6, CallStepOK

LEMMA AddWithdrawalDetailsOK ==
    ASSUME TxInv, NEW c \in Calls, AddWithdrawalDetails(c)
    PROVE  TxInv'
<1>1. CallOK(c) /\ RowOK(c) /\ req[c] \in Requests[c]
  BY DEF TxInv, CallOK, Placed, AddWithdrawalDetails
<1>2. TxTypeOK'
  BY <1>1 DEF TxInv, TxTypeOK, AddWithdrawalDetails, rowVars, outsideVars, Continue, Goto,
     Finish, Fails, Steps, Answers
<1>3. \A t \in Calls : RowOK(t)'
  BY <1>1 DEF TxInv, TxTypeOK, RowOK, AddWithdrawalDetails, rowVars, outsideVars,
     Continue, Goto, Finish, Fails
<1>4. Own(c)
  BY <1>1 DEF TxInv, TxTypeOK, Own, AddWithdrawalDetails, rowVars, outsideVars, Continue,
     Goto, Finish, Fails
<1>5. CallOK(c)'
  BY <1>1 DEF TxInv, TxTypeOK, CallOK, Placed, Reached, Answered, RowOK, Kind, Of, FlowOf,
     AddWithdrawalDetails, rowVars, outsideVars, Continue, Goto, Finish, Fails,
     InitiateSteps, DebitSteps, WebhookSteps, PatchSteps, Early, BeforeRun
<1> QED BY <1>2, <1>3, <1>4, <1>5, CallStepOK

LEMMA ScreenTransactionOK ==
    ASSUME TxInv, NEW c \in Calls, ScreenTransaction(c)
    PROVE  TxInv'
<1>1. CallOK(c) /\ RowOK(c) /\ req[c] \in Requests[c]
  BY DEF TxInv, CallOK, Placed, ScreenTransaction
<1>2. TxTypeOK'
  BY <1>1 DEF TxInv, TxTypeOK, ScreenTransaction, AfterScreen, rowVars, Continue, Goto,
     Finish, Fails, Steps, Answers
<1>3. \A t \in Calls : RowOK(t)'
  BY <1>1 DEF TxInv, TxTypeOK, RowOK, ScreenTransaction, AfterScreen, rowVars, Continue,
     Goto, Finish, Fails
<1>4. Own(c)
  BY <1>1 DEF TxInv, TxTypeOK, Own, ScreenTransaction, AfterScreen, rowVars, Continue,
     Goto, Finish, Fails
<1>5. CallOK(c)'
  BY <1>1 DEF TxInv, TxTypeOK, CallOK, Placed, Reached, Answered, RowOK, Kind, Of, FlowOf,
     ScreenTransaction, AfterScreen, rowVars, Continue, Goto, Finish, Fails, InitiateSteps,
     DebitSteps, WebhookSteps, PatchSteps, Early, BeforeRun
<1> QED BY <1>2, <1>3, <1>4, <1>5, CallStepOK

LEMMA NoteHighRiskOK ==
    ASSUME TxInv, NEW c \in Calls, NoteHighRisk(c)
    PROVE  TxInv'
<1>1. CallOK(c) /\ RowOK(c) /\ req[c] \in Requests[c]
  BY DEF TxInv, CallOK, Placed, NoteHighRisk
<1>2. TxTypeOK'
  BY <1>1 DEF TxInv, TxTypeOK, NoteHighRisk, AddEvent, AfterScreen, outsideVars, Continue,
     Goto, Finish, Fails, Steps, Answers
<1>3. \A t \in Calls : RowOK(t)'
  BY <1>1 DEF TxInv, TxTypeOK, RowOK, NoteHighRisk, AddEvent, AfterScreen, outsideVars,
     Continue, Goto, Finish, Fails
<1>4. Own(c)
  BY <1>1 DEF TxInv, TxTypeOK, Own, NoteHighRisk, AddEvent, AfterScreen, outsideVars,
     Continue, Goto, Finish, Fails
<1>5. CallOK(c)'
  BY <1>1 DEF TxInv, TxTypeOK, CallOK, Placed, Reached, Answered, RowOK, Kind, Of, FlowOf,
     NoteHighRisk, AddEvent, AfterScreen, outsideVars, Continue, Goto, Finish, Fails,
     InitiateSteps, DebitSteps, WebhookSteps, PatchSteps, Early, BeforeRun
<1> QED BY <1>2, <1>3, <1>4, <1>5, CallStepOK

LEMMA NoteScreeningErrorOK ==
    ASSUME TxInv, NEW c \in Calls, NoteScreeningError(c)
    PROVE  TxInv'
<1>1. CallOK(c) /\ RowOK(c) /\ req[c] \in Requests[c]
  BY DEF TxInv, CallOK, Placed, NoteScreeningError
<1>2. TxTypeOK'
  BY <1>1 DEF TxInv, TxTypeOK, NoteScreeningError, AddEvent, AfterScreen, outsideVars,
     Continue, Goto, Finish, Fails, Steps, Answers
<1>3. \A t \in Calls : RowOK(t)'
  BY <1>1 DEF TxInv, TxTypeOK, RowOK, NoteScreeningError, AddEvent, AfterScreen,
     outsideVars, Continue, Goto, Finish, Fails
<1>4. Own(c)
  BY <1>1 DEF TxInv, TxTypeOK, Own, NoteScreeningError, AddEvent, AfterScreen,
     outsideVars, Continue, Goto, Finish, Fails
<1>5. CallOK(c)'
  BY <1>1 DEF TxInv, TxTypeOK, CallOK, Placed, Reached, Answered, RowOK, Kind, Of, FlowOf,
     NoteScreeningError, AddEvent, AfterScreen, outsideVars, Continue, Goto, Finish, Fails,
     InitiateSteps, DebitSteps, WebhookSteps, PatchSteps, Early, BeforeRun
<1> QED BY <1>2, <1>3, <1>4, <1>5, CallStepOK

LEMMA FailDeniedOK ==
    ASSUME TxInv, NEW c \in Calls, FailDenied(c)
    PROVE  TxInv'
<1>1. CallOK(c) /\ RowOK(c) /\ req[c] \in Requests[c]
  BY DEF TxInv, CallOK, Placed, FailDenied
<1>2. TxTypeOK'
  BY <1>1 DEF TxInv, TxTypeOK, FailDenied, SetStatus, AfterScreen, outsideVars,
     TransactionStatus, Continue, Goto, Finish, Fails, Steps, Answers
<1>3. \A t \in Calls : RowOK(t)'
  BY <1>1 DEF TxInv, TxTypeOK, RowOK, FailDenied, SetStatus, AfterScreen, outsideVars,
     TransactionStatus, Continue, Goto, Finish, Fails
<1>4. Own(c)
  BY <1>1 DEF TxInv, TxTypeOK, Own, FailDenied, SetStatus, AfterScreen, outsideVars,
     TransactionStatus, Continue, Goto, Finish, Fails
<1>5. CallOK(c)'
  BY <1>1 DEF TxInv, TxTypeOK, CallOK, Placed, Reached, Answered, RowOK, Kind, Of, FlowOf,
     FailDenied, SetStatus, AfterScreen, outsideVars, TransactionStatus, Continue, Goto,
     Finish, Fails, InitiateSteps, DebitSteps, WebhookSteps, PatchSteps, Early, BeforeRun
<1> QED BY <1>2, <1>3, <1>4, <1>5, CallStepOK

LEMMA FailTransactionOK ==
    ASSUME TxInv, NEW c \in Calls, FailTransaction(c)
    PROVE  TxInv'
<1>1. CallOK(c) /\ RowOK(c) /\ req[c] \in Requests[c]
  BY DEF TxInv, CallOK, Placed, FailTransaction
<1>2. TxTypeOK'
  BY <1>1 DEF TxInv, TxTypeOK, FailTransaction, SetStatus, outsideVars, TransactionStatus,
     Continue, Goto, Finish, Fails, Steps, Answers
<1>3. \A t \in Calls : RowOK(t)'
  BY <1>1 DEF TxInv, TxTypeOK, RowOK, FailTransaction, SetStatus, outsideVars,
     TransactionStatus, Continue, Goto, Finish, Fails
<1>4. Own(c)
  BY <1>1 DEF TxInv, TxTypeOK, Own, FailTransaction, SetStatus, outsideVars,
     TransactionStatus, Continue, Goto, Finish, Fails
<1>5. CallOK(c)'
  BY <1>1 DEF TxInv, TxTypeOK, CallOK, Placed, Reached, Answered, RowOK, Kind, Of, FlowOf,
     FailTransaction, SetStatus, outsideVars, TransactionStatus, Continue, Goto, Finish,
     Fails, InitiateSteps, DebitSteps, WebhookSteps, PatchSteps, Early, BeforeRun
<1> QED BY <1>2, <1>3, <1>4, <1>5, CallStepOK

LEMMA CreateCollectionLinkOK ==
    ASSUME TxInv, NEW c \in Calls, CreateCollectionLink(c)
    PROVE  TxInv'
<1>1. CallOK(c) /\ RowOK(c) /\ req[c] \in Requests[c]
  BY DEF TxInv, CallOK, Placed, CreateCollectionLink
<1>2. /\ bank' \in [Calls -> [of : Calls, state : BankState]]
      /\ \A t \in Calls :
         /\ bank'[t].of = t
         /\ bank[t].state \in Outcomes \/ t # c => bank'[t] = bank[t]
         /\ bank[t].state # "none" => bank'[t].state # "none"
      /\ pc'[c] = "linkRow" => bank'[c].state # "none"
  BY <1>1, BankAcceptsOK DEF TxInv, TxTypeOK, RowOK, CreateCollectionLink, rowVars,
     Continue, Finish, Goto, Fails
<1>3. TxTypeOK'
  BY <1>1, <1>2, SMTT(60) DEF TxInv, TxTypeOK, CreateCollectionLink, rowVars, Continue,
     Goto, Finish, Fails, Steps, Answers
<1>4. \A t \in Calls : RowOK(t)'
  BY <1>1, <1>2 DEF TxInv, TxTypeOK, RowOK, CreateCollectionLink, rowVars, Continue, Goto,
     Finish, Fails
<1>5. Own(c)
  BY <1>1, <1>2 DEF TxInv, TxTypeOK, Own, CreateCollectionLink, rowVars, Continue, Goto,
     Finish, Fails
<1>6. CallOK(c)'
  BY <1>1, <1>2 DEF TxInv, TxTypeOK, CallOK, Placed, Reached, Answered, RowOK, Kind, Of,
     FlowOf, CreateCollectionLink, rowVars, Continue, Goto, Finish, Fails, InitiateSteps,
     DebitSteps, WebhookSteps, PatchSteps, Early, BeforeRun
<1> QED BY <1>3, <1>4, <1>5, <1>6, CallStepOK

LEMMA InsertLinkRowOK ==
    ASSUME TxInv, NEW c \in Calls, InsertLinkRow(c)
    PROVE  TxInv'
<1>1. CallOK(c) /\ RowOK(c) /\ req[c] \in Requests[c]
  BY DEF TxInv, CallOK, Placed, InsertLinkRow
<1>2. bank[c].state # "none" /\ Kind(c) = "initiate"
  BY <1>1, RequestTyped DEF CallOK, Placed, Reached, Kind, Of, FlowOf, InitiateSteps,
     DebitSteps, WebhookSteps, PatchSteps, InsertLinkRow
<1>3. TxTypeOK'
  BY <1>1, <1>2 DEF TxInv, TxTypeOK, InsertLinkRow, MonoStates, outsideVars, Continue,
     Goto, Finish, Fails, Steps, Answers
<1>4. \A t \in Calls : RowOK(t)'
  BY <1>1, <1>2 DEF TxInv, TxTypeOK, RowOK, InsertLinkRow, MonoStates, outsideVars,
     Continue, Goto, Finish, Fails
<1>5. Own(c)
  BY <1>1, <1>2 DEF TxInv, TxTypeOK, Own, InsertLinkRow, MonoStates, outsideVars,
     Continue, Goto, Finish, Fails
<1>6. CallOK(c)'
  BY <1>1, <1>2 DEF TxInv, TxTypeOK, CallOK, Placed, Reached, Answered, RowOK, Kind, Of,
     FlowOf, InsertLinkRow, MonoStates, outsideVars, Continue, Goto, Finish, Fails,
     InitiateSteps, DebitSteps, WebhookSteps, PatchSteps, Early, BeforeRun
<1> QED BY <1>3, <1>4, <1>5, <1>6, CallStepOK

LEMMA StartWorkflowOK ==
    ASSUME TxInv, NEW c \in Calls, StartWorkflow(c)
    PROVE  TxInv'
<1>1. CallOK(c) /\ RowOK(c) /\ req[c] \in Requests[c]
  BY DEF TxInv, CallOK, Placed, StartWorkflow
<1>2. TxTypeOK'
  BY <1>1 DEF TxInv, TxTypeOK, StartWorkflow, rowVars, Continue, Goto, Finish, Fails,
     Steps, Answers
<1>3. \A t \in Calls : RowOK(t)'
  BY <1>1 DEF TxInv, TxTypeOK, RowOK, StartWorkflow, rowVars, Continue, Goto, Finish,
     Fails
<1>4. Own(c)
  BY <1>1 DEF TxInv, TxTypeOK, Own, StartWorkflow, rowVars, Continue, Goto, Finish, Fails
<1>5. CallOK(c)'
  BY <1>1 DEF TxInv, TxTypeOK, CallOK, Placed, Reached, Answered, RowOK, Kind, Of, FlowOf,
     StartWorkflow, rowVars, Continue, Goto, Finish, Fails, InitiateSteps, DebitSteps,
     WebhookSteps, PatchSteps, Early, BeforeRun
<1> QED BY <1>2, <1>3, <1>4, <1>5, CallStepOK

LEMMA StartWorkflowAgainOK ==
    ASSUME TxInv, NEW c \in Calls, StartWorkflowAgain(c)
    PROVE  TxInv'
<1>1. CallOK(c) /\ RowOK(c) /\ req[c] \in Requests[c]
  BY DEF TxInv, CallOK, Placed, StartWorkflowAgain
<1>2. TxTypeOK'
  BY <1>1 DEF TxInv, TxTypeOK, StartWorkflowAgain, rowVars, Continue, Goto, Finish, Fails,
     Steps, Answers
<1>3. \A t \in Calls : RowOK(t)'
  BY <1>1 DEF TxInv, TxTypeOK, RowOK, StartWorkflowAgain, rowVars, Continue, Goto, Finish,
     Fails
<1>4. Own(c)
  BY <1>1 DEF TxInv, TxTypeOK, Own, StartWorkflowAgain, rowVars, Continue, Goto, Finish,
     Fails
<1>5. CallOK(c)'
  BY <1>1 DEF TxInv, TxTypeOK, CallOK, Placed, Reached, Answered, RowOK, Kind, Of, FlowOf,
     StartWorkflowAgain, rowVars, Continue, Goto, Finish, Fails, InitiateSteps, DebitSteps,
     WebhookSteps, PatchSteps, Early, BeforeRun
<1> QED BY <1>2, <1>3, <1>4, <1>5, CallStepOK

LEMMA LoadTransactionOK ==
    ASSUME TxInv, NEW c \in Calls, LoadTransaction(c)
    PROVE  TxInv'
<1>1. CallOK(c) /\ RowOK(c) /\ req[c] \in Requests[c]
  BY DEF TxInv, CallOK, Placed, LoadTransaction
<1>2. TxTypeOK'
  BY <1>1 DEF TxInv, TxTypeOK, LoadTransaction, rowVars, outsideVars, Continue, Goto,
     Finish, Fails, Steps, Answers
<1>3. \A t \in Calls : RowOK(t)'
  BY <1>1 DEF TxInv, TxTypeOK, RowOK, LoadTransaction, rowVars, outsideVars, Continue,
     Goto, Finish, Fails
<1>4. Own(c)
  BY <1>1 DEF TxInv, TxTypeOK, Own, LoadTransaction, rowVars, outsideVars, Continue, Goto,
     Finish, Fails
<1>5. CallOK(c)'
  BY <1>1 DEF TxInv, TxTypeOK, CallOK, Placed, Reached, Answered, RowOK, Kind, Of, FlowOf,
     LoadTransaction, rowVars, outsideVars, Continue, Goto, Finish, Fails, InitiateSteps,
     DebitSteps, WebhookSteps, PatchSteps, Early, BeforeRun
<1> QED BY <1>2, <1>3, <1>4, <1>5, CallStepOK

LEMMA LookupMonoRowOK ==
    ASSUME TxInv, NEW c \in Calls, LookupMonoRow(c)
    PROVE  TxInv'
<1>1. CallOK(c) /\ RowOK(c) /\ req[c] \in Requests[c]
  BY DEF TxInv, CallOK, Placed, LookupMonoRow
<1>2. Of(c) \in Calls /\ Kind(c) = "debitFromBank"
  BY <1>1, RequestTyped DEF CallOK, Placed, Reached, Kind, Of, FlowOf, InitiateSteps,
     DebitSteps, WebhookSteps, PatchSteps, LookupMonoRow
<1>3. TxTypeOK'
  BY <1>1, <1>2 DEF TxInv, TxTypeOK, LookupMonoRow, rowVars, outsideVars, Continue, Goto,
     Finish, Fails, Steps, Answers
<1>4. \A t \in Calls : RowOK(t)'
  BY <1>1, <1>2 DEF TxInv, TxTypeOK, RowOK, LookupMonoRow, rowVars, outsideVars, Continue,
     Goto, Finish, Fails
<1>5. Own(c)
  BY <1>1, <1>2 DEF TxInv, TxTypeOK, Own, LookupMonoRow, rowVars, outsideVars, Continue,
     Goto, Finish, Fails
<1>6. CallOK(c)'
  BY <1>1, <1>2 DEF TxInv, TxTypeOK, CallOK, Placed, Reached, Answered, RowOK, Kind, Of,
     FlowOf, LookupMonoRow, rowVars, outsideVars, Continue, Goto, Finish, Fails,
     InitiateSteps, DebitSteps, WebhookSteps, PatchSteps, Early, BeforeRun
<1> QED BY <1>3, <1>4, <1>5, <1>6, CallStepOK

LEMMA SendTransferOK ==
    ASSUME TxInv, NEW c \in Calls, SendTransfer(c)
    PROVE  TxInv'
<1>1. CallOK(c) /\ RowOK(c) /\ req[c] \in Requests[c]
  BY DEF TxInv, CallOK, Placed, SendTransfer
<1>2. Of(c) \in Calls /\ Of(c) \in runs /\ Kind(c) = "debitFromBank"
  BY <1>1, RequestTyped DEF CallOK, Placed, Reached, Kind, Of, FlowOf, InitiateSteps,
     DebitSteps, WebhookSteps, PatchSteps, SendTransfer
<1>3. /\ bank' \in [Calls -> [of : Calls, state : BankState]]
      /\ \A t \in Calls :
         /\ bank'[t].of = t
         /\ bank[t].state \in Outcomes \/ t # Of(c) => bank'[t] = bank[t]
         /\ bank[t].state # "none" => bank'[t].state # "none"
      /\ pc'[c] = "insert" => bank'[Of(c)].state # "none"
  BY <1>1, <1>2, BankAcceptsOK DEF TxInv, TxTypeOK, RowOK, SendTransfer, rowVars,
     IdempotencyKey, Continue, Finish, Goto, Fails
<1>4. TxTypeOK'
  BY <1>1, <1>2, <1>3, SMTT(30) DEF TxInv, TxTypeOK, SendTransfer, rowVars,
     IdempotencyKey, Continue, Goto, Finish, Fails, Steps, Answers
<1>5. \A t \in Calls : RowOK(t)'
  BY <1>1, <1>2, <1>3 DEF TxInv, TxTypeOK, RowOK, SendTransfer, rowVars, IdempotencyKey,
     Continue, Goto, Finish, Fails
<1>6. Own(c)
  BY <1>1, <1>2, <1>3 DEF TxInv, TxTypeOK, Own, SendTransfer, rowVars, IdempotencyKey,
     Continue, Goto, Finish, Fails
<1>7. CallOK(c)'
  BY <1>1, <1>2, <1>3 DEF TxInv, TxTypeOK, CallOK, Placed, Reached, Answered, RowOK, Kind,
     Of, FlowOf, SendTransfer, rowVars, IdempotencyKey, Continue, Goto, Finish, Fails,
     InitiateSteps, DebitSteps, WebhookSteps, PatchSteps, Early, BeforeRun
<1> QED BY <1>4, <1>5, <1>6, <1>7, CallStepOK

LEMMA InsertMonoTransactionOK ==
    ASSUME TxInv, NEW c \in Calls, InsertMonoTransaction(c)
    PROVE  TxInv'
<1>1. CallOK(c) /\ RowOK(c) /\ req[c] \in Requests[c]
  BY DEF TxInv, CallOK, Placed, InsertMonoTransaction
<1>2. Of(c) \in Calls /\ Kind(c) = "debitFromBank" /\ bank[Of(c)].state # "none"
  BY <1>1, RequestTyped DEF CallOK, Placed, Reached, Kind, Of, FlowOf, InitiateSteps,
     DebitSteps, WebhookSteps, PatchSteps, InsertMonoTransaction
<1>3. TxTypeOK'
  BY <1>1, <1>2 DEF TxInv, TxTypeOK, InsertMonoTransaction, MonoStates, outsideVars,
     Continue, Goto, Finish, Fails, Steps, Answers
<1>4. \A t \in Calls : RowOK(t)'
  BY <1>1, <1>2 DEF TxInv, TxTypeOK, RowOK, InsertMonoTransaction, MonoStates,
     outsideVars, Continue, Goto, Finish, Fails
<1>5. Own(c)
  BY <1>1, <1>2 DEF TxInv, TxTypeOK, Own, InsertMonoTransaction, MonoStates, outsideVars,
     Continue, Goto, Finish, Fails
<1>6. CallOK(c)'
  BY <1>1, <1>2 DEF TxInv, TxTypeOK, CallOK, Placed, Reached, Answered, RowOK, Kind, Of,
     FlowOf, InsertMonoTransaction, MonoStates, outsideVars, Continue, Goto, Finish, Fails,
     InitiateSteps, DebitSteps, WebhookSteps, PatchSteps, Early, BeforeRun
<1> QED BY <1>3, <1>4, <1>5, <1>6, CallStepOK

LEMMA FindMonoRowOK ==
    ASSUME TxInv, NEW c \in Calls, FindMonoRow(c)
    PROVE  TxInv'
<1>1. CallOK(c) /\ RowOK(c) /\ req[c] \in Requests[c]
  BY DEF TxInv, CallOK, Placed, FindMonoRow
<1>2. TxTypeOK'
  BY <1>1 DEF TxInv, TxTypeOK, FindMonoRow, rowVars, outsideVars, Continue, Goto, Finish,
     Fails, Steps, Answers
<1>3. \A t \in Calls : RowOK(t)'
  BY <1>1 DEF TxInv, TxTypeOK, RowOK, FindMonoRow, rowVars, outsideVars, Continue, Goto,
     Finish, Fails
<1>4. Own(c)
  BY <1>1 DEF TxInv, TxTypeOK, Own, FindMonoRow, rowVars, outsideVars, Continue, Goto,
     Finish, Fails
<1>5. CallOK(c)'
  BY <1>1 DEF TxInv, TxTypeOK, CallOK, Placed, Reached, Answered, RowOK, Kind, Of, FlowOf,
     FindMonoRow, rowVars, outsideVars, Continue, Goto, Finish, Fails, InitiateSteps,
     DebitSteps, WebhookSteps, PatchSteps, Early, BeforeRun
<1> QED BY <1>2, <1>3, <1>4, <1>5, CallStepOK

LEMMA RecordOutcomeOK ==
    ASSUME TxInv, NEW c \in Calls, RecordOutcome(c)
    PROVE  TxInv'
<1>1. CallOK(c) /\ RowOK(c) /\ req[c] \in Requests[c]
  BY DEF TxInv, CallOK, Placed, RecordOutcome
<1>2. Of(c) \in Calls /\ Kind(c) = "webhook" /\ bank[Of(c)].state \in Outcomes
  BY <1>1, RequestTyped DEF CallOK, Placed, Reached, Kind, Of, FlowOf, InitiateSteps,
     DebitSteps, WebhookSteps, PatchSteps, RecordOutcome
<1>3. TxTypeOK'
  BY <1>1, <1>2 DEF TxInv, TxTypeOK, RecordOutcome, MonoStates, Outcomes, outsideVars,
     Continue, Goto, Finish, Fails, Steps, Answers
<1>4. \A t \in Calls : RowOK(t)'
  BY <1>1, <1>2 DEF TxInv, TxTypeOK, RowOK, RecordOutcome, MonoStates, Outcomes,
     outsideVars, Continue, Goto, Finish, Fails
<1>5. Own(c)
  BY <1>1, <1>2 DEF TxInv, TxTypeOK, Own, RecordOutcome, MonoStates, Outcomes,
     outsideVars, Continue, Goto, Finish, Fails
<1>6. CallOK(c)'
  BY <1>1, <1>2 DEF TxInv, TxTypeOK, CallOK, Placed, Reached, Answered, RowOK, Kind, Of,
     FlowOf, RecordOutcome, MonoStates, Outcomes, outsideVars, Continue, Goto, Finish, Fails,
     InitiateSteps, DebitSteps, WebhookSteps, PatchSteps, Early, BeforeRun
<1> QED BY <1>3, <1>4, <1>5, <1>6, CallStepOK

LEMMA AddTransactionEventOK ==
    ASSUME TxInv, NEW c \in Calls, AddTransactionEvent(c)
    PROVE  TxInv'
<1>1. CallOK(c) /\ RowOK(c) /\ req[c] \in Requests[c]
  BY DEF TxInv, CallOK, Placed, AddTransactionEvent
<1>2. Of(c) \in Calls /\ Kind(c) = "patch" /\ req[c].status \in TransactionStatus
  BY <1>1, RequestTyped DEF CallOK, Placed, Reached, Kind, Of, FlowOf, InitiateSteps,
     DebitSteps, WebhookSteps, PatchSteps, AddTransactionEvent
<1>3. TxTypeOK'
  BY <1>1, <1>2 DEF TxInv, TxTypeOK, AddTransactionEvent, AddEvent, outsideVars,
     TransactionStatus, Continue, Goto, Finish, Fails, Steps, Answers
<1>4. \A t \in Calls : RowOK(t)'
  BY <1>1, <1>2 DEF TxInv, TxTypeOK, RowOK, AddTransactionEvent, AddEvent, outsideVars,
     TransactionStatus, Continue, Goto, Finish, Fails
<1>5. Own(c)
  BY <1>1, <1>2 DEF TxInv, TxTypeOK, Own, AddTransactionEvent, AddEvent, outsideVars,
     TransactionStatus, Continue, Goto, Finish, Fails
<1>6. CallOK(c)'
  BY <1>1, <1>2 DEF TxInv, TxTypeOK, CallOK, Placed, Reached, Answered, RowOK, Kind, Of,
     FlowOf, AddTransactionEvent, AddEvent, outsideVars, TransactionStatus, Continue, Goto,
     Finish, Fails, InitiateSteps, DebitSteps, WebhookSteps, PatchSteps, Early, BeforeRun
<1> QED BY <1>3, <1>4, <1>5, <1>6, CallStepOK

LEMMA UpdateTransactionOK ==
    ASSUME TxInv, NEW c \in Calls, UpdateTransaction(c)
    PROVE  TxInv'
<1>1. CallOK(c) /\ RowOK(c) /\ req[c] \in Requests[c]
  BY DEF TxInv, CallOK, Placed, UpdateTransaction
<1>2. Of(c) \in Calls /\ Of(c) \in runs /\ Kind(c) = "patch" /\ req[c].status \in TransactionStatus
  BY <1>1, RequestTyped DEF CallOK, Placed, Reached, Kind, Of, FlowOf, InitiateSteps,
     DebitSteps, WebhookSteps, PatchSteps, UpdateTransaction
<1>3. TxTypeOK'
  BY <1>1, <1>2 DEF TxInv, TxTypeOK, UpdateTransaction, SetStatus, outsideVars, Continue,
     Goto, Finish, Fails, Steps, Answers
<1>4. \A t \in Calls : RowOK(t)'
  BY <1>1, <1>2 DEF TxInv, TxTypeOK, RowOK, UpdateTransaction, SetStatus, outsideVars,
     Continue, Goto, Finish, Fails
<1>5. Own(c)
  BY <1>1, <1>2 DEF TxInv, TxTypeOK, Own, UpdateTransaction, SetStatus, outsideVars,
     Continue, Goto, Finish, Fails
<1>6. CallOK(c)'
  BY <1>1, <1>2 DEF TxInv, TxTypeOK, CallOK, Placed, Reached, Answered, RowOK, Kind, Of,
     FlowOf, UpdateTransaction, SetStatus, outsideVars, Continue, Goto, Finish, Fails,
     InitiateSteps, DebitSteps, WebhookSteps, PatchSteps, Early, BeforeRun
<1> QED BY <1>3, <1>4, <1>5, <1>6, CallStepOK

-----------------------------------------------------------------------------
(* The other steps *)

LEMMA ReceiveOK ==
    ASSUME TxInv, NEW c \in Calls, NEW r \in Requests[c], Receive(c, r)
    PROVE  TxInv'
<1>1. CallOK(c) /\ RowOK(c)
  BY DEF TxInv
<1>2. /\ r \in RequestType
      /\ r.kind \in {"initiate", "debitFromBank", "webhook", "patch"}
  BY RequestTyped
<1>3. /\ req' = [req EXCEPT ![c] = r] /\ req'[c] = r
      /\ pc' = [pc EXCEPT ![c] = FirstStep(r.kind)] /\ pc'[c] = FirstStep(r.kind)
      /\ UNCHANGED <<answer, status, details, events, mono, bank, runs, verdict>>
      /\ pc[c] = "idle" /\ Called(r)
  BY DEF TxInv, TxTypeOK, Receive, Continue, Goto, rowVars, outsideVars
<1>4. FirstStep(r.kind) \in {"save", "load", "find", "event"}
  BY <1>2 DEF FirstStep
<1>5. TxTypeOK'
  BY <1>2, <1>3, <1>4 DEF TxInv, TxTypeOK, Steps
<1>6. \A t \in Calls : RowOK(t)'
  BY <1>3 DEF TxInv, RowOK
<1>7. Own(c)
  BY <1>3 DEF TxInv, TxTypeOK, Own
<1>8. CallOK(c)'
  <2>1. Placed(c)'
    BY <1>1, <1>2, <1>3, <1>4 DEF CallOK, Placed, Kind, FirstStep, InitiateSteps, DebitSteps,
       WebhookSteps, PatchSteps
  <2>2. /\ r.kind \in {"debitFromBank", "patch"} => r.of \in runs
        /\ r.kind = "webhook" => bank[r.of].state \in Outcomes
    BY <1>3 DEF Called
  <2>3. Reached(c)'
    BY <1>1, <1>3, <1>4, <2>2 DEF CallOK, Reached, Kind, Of, FlowOf, BeforeRun, Early
  <2>4. Answered(c)'
    BY <1>1, <1>3 DEF CallOK, Placed, Answered
  <2> QED BY <2>1, <2>3, <2>4 DEF CallOK
<1> QED BY <1>5, <1>6, <1>7, <1>8, CallStepOK

\* Mono settles only what it has accepted.
LEMMA BankSettlesOK ==
    ASSUME TxInv, NEW k \in Calls, BankSettles(k)
    PROVE  TxInv'
<1>1. PICK o \in Outcomes : bank' = [bank EXCEPT ![k].state = o]
  BY DEF BankSettles
<1>2. /\ bank[k].state = "accepted"
      /\ UNCHANGED <<status, details, events, mono, runs, verdict, pc, req, answer>>
  BY DEF BankSettles, rowVars, txCallVars
<1>3. bank \in [Calls -> [of : Calls, state : BankState]] /\ o \in BankState
  BY DEF TxInv, TxTypeOK, BankState
<1>4. /\ bank' \in [Calls -> [of : Calls, state : BankState]]
      /\ bank'[k].of = bank[k].of /\ bank'[k].state = o
      /\ \A t \in Calls \ {k} : bank'[t] = bank[t]
  BY <1>1, <1>3
<1>5. \A t \in Calls : /\ bank'[t].of = bank[t].of
                       /\ bank[t].state = "none" <=> bank'[t].state = "none"
                       /\ bank[t].state \in Outcomes => bank'[t].state \in Outcomes
  BY <1>2, <1>4 DEF Outcomes
<1>6. TxTypeOK'
  BY <1>2, <1>4 DEF TxInv, TxTypeOK
<1>7. \A t \in Calls : RowOK(t)'
  BY <1>2, <1>5 DEF TxInv, RowOK
<1>8. ASSUME NEW c \in Calls PROVE CallOK(c)'
  <2>1. CallOK(c) /\ (pc[c] # "idle" /\ Kind(c) # "initiate" => Of(c) \in Calls)
    BY RequestTyped DEF TxInv, CallOK, Placed, Kind, Of
  <2>2. Placed(c)'
    BY <1>2, <2>1 DEF CallOK, Placed, Kind
  <2>3. Reached(c)'
    BY <1>2, <1>5, <2>1 DEF CallOK, Placed, Reached, Kind, Of, FlowOf, DebitSteps
  <2>4. Answered(c)'
    BY <1>2, <1>5, <2>1 DEF CallOK, Placed, Answered, Kind, Of, FlowOf
  <2> QED BY <2>2, <2>3, <2>4 DEF CallOK
<1> QED BY <1>6, <1>7, <1>8 DEF TxInv

\* A restart ends the calls in flight; what they did stays true.
LEMMA ServerCrashOK ==
    ASSUME TxInv, ServerCrash
    PROVE  TxInv'
<1>1. /\ \A c \in Calls : \/ pc'[c] = pc[c] /\ answer'[c] = answer[c]
                          \/ pc[c] # "idle" /\ pc'[c] = "done" /\ answer'[c] = "crashed"
      /\ UNCHANGED <<status, details, events, mono, bank, runs, verdict, req>>
  BY DEF ServerCrash, Running, rowVars, outsideVars
<1>2. TxTypeOK'
  <2>1. pc' \in [Calls -> Steps] /\ answer' \in [Calls -> Answers]
    BY DEF TxInv, TxTypeOK, ServerCrash, Steps, Answers
  <2> QED BY <1>1, <2>1 DEF TxInv, TxTypeOK
<1>3. \A t \in Calls : RowOK(t)'
  BY <1>1 DEF TxInv, RowOK
<1>4. ASSUME NEW c \in Calls PROVE CallOK(c)'
  BY <1>1 DEF TxInv, CallOK, Placed, Reached, Answered, Kind, Of, FlowOf, InitiateSteps,
     DebitSteps, WebhookSteps, PatchSteps, Early, BeforeRun
<1> QED BY <1>2, <1>3, <1>4 DEF TxInv

LEMMA TxNextOK == TxInv /\ [TxNext]_txVars => TxInv'
<1> SUFFICES ASSUME TxInv, [TxNext]_txVars PROVE TxInv'
  OBVIOUS
<1>1. CASE \E c \in Calls : \E r \in Requests[c] : Receive(c, r)
  BY <1>1, ReceiveOK
<1>2. CASE \E c \in Calls : TxStep(c)
  BY <1>2, SaveTransactionOK, AddWithdrawalDetailsOK, ScreenTransactionOK, NoteHighRiskOK,
     NoteScreeningErrorOK, FailDeniedOK, FailTransactionOK, CreateCollectionLinkOK,
     InsertLinkRowOK, StartWorkflowOK, StartWorkflowAgainOK, LoadTransactionOK,
     LookupMonoRowOK, SendTransferOK, InsertMonoTransactionOK, FindMonoRowOK,
     RecordOutcomeOK, AddTransactionEventOK, UpdateTransactionOK DEF TxStep
<1>3. CASE (\E k \in Calls : BankSettles(k)) \/ ServerCrash
  BY <1>3, BankSettlesOK, ServerCrashOK
<1>4. CASE UNCHANGED txVars
  <2>1. UNCHANGED <<status, details, events, mono, bank, runs, verdict, pc, req, answer>>
    BY <1>4 DEF txVars, rowVars, outsideVars, txCallVars
  <2>2. TxTypeOK' /\ \A t \in Calls : RowOK(t)'
    BY <2>1 DEF TxInv, TxTypeOK, RowOK
  <2>3. \A c \in Calls : CallOK(c)'
    BY <2>1 DEF TxInv, CallOK, Placed, Reached, Answered, Kind, Of, FlowOf
  <2> QED BY <2>2, <2>3 DEF TxInv
<1> QED BY <1>1, <1>2, <1>3, <1>4 DEF TxNext

LEMMA TxInvariance == TxSpec => []TxInv
BY TxInitOK, TxNextOK, PTL DEF TxSpec

-----------------------------------------------------------------------------
(* Theorems *)

\* Every call stays at a step of its own request, every row in its states.
THEOREM TxTypeCorrect == TxSpec => []TxTypeOK
<1>1. TxInv => TxTypeOK
  BY DEF TxInv
<1> QED BY <1>1, TxInvariance, PTL

\* However many attempts the workflow makes at debitFromBank, and however they
\* overlap, fail or lose their answers, Mono transfers a transaction's money once.
THEOREM MoneyIsSentOnce == TxSpec => []OneTransferPerTransaction
<1>1. TxInv => OneTransferPerTransaction
  BY DEF TxInv, RowOK, OneTransferPerTransaction
<1> QED BY <1>1, TxInvariance, PTL

\* A workflow that is told 409, or that the bank was debited, is told the truth: Mono
\* has accepted the transfer and its row is there.
THEOREM DebitsAreTrue == TxSpec => []ConflictMeansSent
<1>1. TxInv => ConflictMeansSent
  BY DEF TxInv, CallOK, Answered, ConflictMeansSent
<1> QED BY <1>1, TxInvariance, PTL

\* A user who is refused has no transaction running and no link to pay; one whose
\* transaction is created has a workflow, and a deposit that can be credited.
THEOREM AnswersAreTrue == TxSpec => []AnswerIsTrue
<1>1. TxInv => AnswerIsTrue
  BY DEF TxInv, CallOK, Answered, AnswerIsTrue
<1> QED BY <1>1, TxInvariance, PTL

\* An outcome that finds no row, and is acknowledged for good, is of a transfer that
\* no workflow has been told of.
THEOREM DroppedOutcomesAreUnreported == TxSpec => OnlyUnreportedOutcomesAreDropped
<1> DEFINE Dropped ==
        \A c, d \in Calls :
            /\ pc[c] = "find" /\ answer'[c] = "ignored"
            /\ req[d] # NoRequest /\ req[d].kind = "debitFromBank" /\ Of(d) = Of(c)
            => answer[d] \notin {"debited", "conflict"}
<1>1. TxInv /\ [TxNext]_txVars => [Dropped]_txVars
  <2> SUFFICES ASSUME TxInv, TxNext, NEW c \in Calls, NEW d \in Calls,
                      pc[c] = "find", answer'[c] = "ignored", Of(d) = Of(c),
                      answer[d] \in {"debited", "conflict"}
               PROVE  FALSE
    OBVIOUS
  <2>1. answer[c] = "none" /\ mono[Of(d)] # "none"
    BY DEF TxInv, CallOK, Placed, Answered
  <2>2. FindMonoRow(c)
    <3>1. CASE \E e \in Calls : e # c /\ ((\E r \in Requests[e] : Receive(e, r)) \/ TxStep(e))
      <4>1. PICK e \in Calls : e # c /\ ((\E r \in Requests[e] : Receive(e, r)) \/ TxStep(e))
        BY <3>1
      <4>2. answer' = answer \/ \E a \in Answers : answer' = [answer EXCEPT ![e] = a]
        BY <4>1 DEF TxStep, Receive, SaveTransaction, RejectRequest, InsertTransaction,
           AddWithdrawalDetails, ScreenTransaction, NoteHighRisk, NoteScreeningError,
           FailDenied, FailTransaction, CreateCollectionLink, InsertLinkRow, StartWorkflow,
           StartWorkflowAgain, LoadTransaction, LookupMonoRow, SendTransfer,
           InsertMonoTransaction, FindMonoRow, RecordOutcome, AddTransactionEvent,
           UpdateTransaction, Continue, Finish, Fails, Answers
      <4> QED BY <2>1, <4>1, <4>2 DEF TxInv, TxTypeOK
    <3>2. CASE (\E r \in Requests[c] : Receive(c, r)) \/ TxStep(c)
      BY <3>2 DEF TxStep, Receive, SaveTransaction, AddWithdrawalDetails, ScreenTransaction,
         NoteHighRisk, NoteScreeningError, FailDenied, FailTransaction, CreateCollectionLink,
         InsertLinkRow, StartWorkflow, StartWorkflowAgain, LoadTransaction, LookupMonoRow,
         SendTransfer, InsertMonoTransaction, RecordOutcome, AddTransactionEvent,
         UpdateTransaction
    <3>3. CASE (\E k \in Calls : BankSettles(k)) \/ ServerCrash
      BY <2>1, <3>3 DEF BankSettles, ServerCrash, txCallVars
    <3> QED BY <3>1, <3>2, <3>3 DEF TxNext
  <2> QED BY <2>1, <2>2 DEF FindMonoRow, TxInv, TxTypeOK, Continue, Finish, Fails
<1> QED BY <1>1, TxInvariance, PTL DEF TxSpec, OnlyUnreportedOutcomesAreDropped

-----------------------------------------------------------------------------
(* Rates: the threshold *)

RateRow == [bank : Nat \ {0}, noba : Nat, by : {"entered", "provider"},
            left : Nat, against : Nat, since : Nat]
Insert == [pair : PairNames, bank : Nat \ {0}, against : Nat, since : Nat]
RefreshType ==
    [pc : {"idle", "fetch", "compare", "settle", "done"}, pair : DOMAIN Pairs, got : Nat,
     inserts : SUBSET Insert, since : [PairNames -> Nat]]

RatesTypeOK ==
    /\ rows \in [PairNames -> Seq(RateRow)]
    /\ refresh \in [Refreshes -> RefreshType]

\* What was compared was compared with a row that was there by then, and no older than
\* the refresh.
Compared(x, p) ==
    x.against # None =>
        /\ x.since <= x.against /\ x.against \in 1 .. Len(rows[p])
        /\ InBand(x.bank, rows[p][x.against].bank)

RatesInv ==
    /\ RatesTypeOK /\ ThresholdHolds
    /\ \A r \in Refreshes :
        /\ refresh[r].pc = "compare" => refresh[r].got # None
        /\ \A p \in PairNames : refresh[r].since[p] <= Len(rows[p])
        /\ \A i \in refresh[r].inserts : Compared(i, i.pair)

LEMMA PairsFact ==
    /\ DOMAIN Pairs = 1 .. 2 /\ Len(Pairs) = 2
    /\ Pairs[1] = "USD-COP" /\ Pairs[2] = "COP-USD"
    /\ PairNames = {"USD-COP", "COP-USD"}
    /\ \A k \in DOMAIN Pairs : Pairs[k] \in PairNames
BY DEF Pairs, PairNames

LEMMA AtRestFacts ==
    ASSUME NEW end \in {"idle", "done"}
    PROVE  /\ AtRest(end) \in RefreshType /\ AtRest(end).inserts = {} /\ AtRest(end).pc = end
           /\ \A p \in PairNames : AtRest(end).since[p] = 0
BY PairsFact DEF AtRest, RefreshType, None

LEMMA RatesInitOK == RatesInit => RatesInv
<1> SUFFICES ASSUME RatesInit PROVE RatesInv
  OBVIOUS
<1>1. /\ \A p \in PairNames : rows[p] = <<>>
      /\ \A r \in Refreshes : refresh[r] = AtRest("idle")
      /\ refresh = [r \in Refreshes |-> AtRest("idle")] /\ rows = [p \in PairNames |-> <<>>]
  BY DEF RatesInit
<1>2. RatesTypeOK
  BY <1>1, AtRestFacts DEF RatesTypeOK
<1>3. ThresholdHolds BY <1>1 DEF ThresholdHolds
<1> QED BY <1>1, <1>2, <1>3, AtRestFacts DEF RatesInv

\* A step that leaves the rows alone.
LEMMA RefreshesMove ==
    ASSUME RatesInv, rows' = rows, refresh' \in [Refreshes -> RefreshType],
           \A r \in Refreshes :
             \/ refresh'[r] = refresh[r]
             \/ /\ refresh'[r].pc = "compare" => refresh'[r].got # None
                /\ \A p \in PairNames : refresh'[r].since[p] <= Len(rows[p])
                /\ \A i \in refresh'[r].inserts : Compared(i, i.pair)
    PROVE  RatesInv'
BY DEF RatesInv, RatesTypeOK, ThresholdHolds, Compared

\* Where a refresh is when it is done with a pair.
LEMMA NextPairFacts ==
    ASSUME NEW call \in RefreshType
    PROVE  /\ NextPair(call) \in RefreshType /\ NextPair(call).pc # "compare"
           /\ NextPair(call).inserts = call.inserts
           /\ NextPair(call).since = call.since
<1>1. /\ call.pair \in {1, 2} /\ call.got \in Nat /\ call.inserts \in SUBSET Insert
      /\ None \in Nat
  BY PairsFact DEF RefreshType, None
<1>2. CASE call.pair = 1
  <2>1. NextPair(call) = [call EXCEPT !.pc = "fetch", !.pair = call.pair + 1, !.got = None]
    <3>1. call.pair < Len(Pairs) BY <1>2, PairsFact
    <3> QED BY <3>1 DEF NextPair
  <2>2. call.pair + 1 \in DOMAIN Pairs BY <1>2, PairsFact
  <2>3. NextPair(call) \in RefreshType
    BY <1>1, <2>1, <2>2 DEF RefreshType
  <2> QED BY <1>1, <2>1, <2>3 DEF RefreshType
<1>3. CASE call.pair = 2
  <2>1. NextPair(call) = [call EXCEPT !.pc = "settle", !.got = None]
    <3>1. ~(call.pair < Len(Pairs)) BY <1>3, PairsFact
    <3> QED BY <3>1 DEF NextPair
  <2> QED BY <1>1, <1>3, <2>1, PairsFact DEF RefreshType
<1> QED BY <1>1, <1>2, <1>3

LEMMA BeginRefreshKeeps ==
    ASSUME RatesInv, NEW r \in Refreshes, BeginRefresh(r)
    PROVE  RatesInv'
<1> DEFINE since == [p \in PairNames |-> Len(rows[p])]
           call == [refresh[r] EXCEPT !.pc = "fetch", !.since = since]
<1>1. /\ refresh[r] \in RefreshType /\ rows' = rows
      /\ refresh \in [Refreshes -> RefreshType]
      /\ refresh' = [refresh EXCEPT ![r] = call]
  BY DEF BeginRefresh, RatesInv, RatesTypeOK
<1>2. since \in [PairNames -> Nat]
  <2>1. \A p \in PairNames : Len(rows[p]) \in Nat BY DEF RatesInv, RatesTypeOK
  <2> QED BY <2>1
<1>3. /\ call \in RefreshType /\ call.inserts = refresh[r].inserts
      /\ call.since = since /\ call.pc = "fetch"
  <2> HIDE DEF since
  <2> QED BY <1>1, <1>2 DEF RefreshType
<1>4. \A p \in PairNames : call.since[p] <= Len(rows[p])
  BY <1>2, <1>3
<1> HIDE DEF call
<1>5. refresh'[r] = call BY <1>1
<1> QED BY <1>1, <1>3, <1>4, <1>5, RefreshesMove DEF RatesInv

LEMMA FetchRateKeeps ==
    ASSUME RatesInv, NEW r \in Refreshes, FetchRate(r)
    PROVE  RatesInv'
<1>1. /\ refresh[r] \in RefreshType /\ refresh \in [Refreshes -> RefreshType]
      /\ rows' = rows /\ PairOf(r) \in PairNames
  BY PairsFact DEF FetchRate, RatesInv, RatesTypeOK, PairOf, RefreshType
<1>2. PICK call \in RefreshType :
        /\ refresh' = [refresh EXCEPT ![r] = call]
        /\ call.inserts = refresh[r].inserts /\ call.since = refresh[r].since
        /\ call.pc = "compare" => call.got # None
  <2>1. CASE \E m \in Provider[PairOf(r)] :
                refresh' = [refresh EXCEPT ![r].pc = "compare", ![r].got = m]
    <3>1. PICK m \in Provider[PairOf(r)] :
                refresh' = [refresh EXCEPT ![r].pc = "compare", ![r].got = m]
      BY <2>1
    <3>2. m \in Nat \ {0} BY <1>1, RatesAssumption
    <3> DEFINE call == [refresh[r] EXCEPT !.pc = "compare", !.got = m]
    <3>3. /\ call \in RefreshType /\ refresh' = [refresh EXCEPT ![r] = call]
          /\ call.inserts = refresh[r].inserts /\ call.since = refresh[r].since
          /\ call.got # None
      BY <1>1, <3>1, <3>2 DEF RefreshType, None
    <3> QED BY <3>3
  <2>2. CASE refresh' = [refresh EXCEPT ![r] = NextPair(@)]
    BY <1>1, <2>2, NextPairFacts
  <2> QED BY <2>1, <2>2 DEF FetchRate
<1>3. refresh'[r] = call BY <1>1, <1>2
<1> QED BY <1>1, <1>2, <1>3, RefreshesMove DEF RatesInv

LEMMA CompareRateKeeps ==
    ASSUME RatesInv, NEW r \in Refreshes, CompareRate(r)
    PROVE  RatesInv'
<1> DEFINE p == PairOf(r)
           got == refresh[r].got
           since == refresh[r].since[p]
<1>1. /\ refresh[r] \in RefreshType /\ refresh \in [Refreshes -> RefreshType]
      /\ rows' = rows /\ p \in PairNames /\ got \in Nat \ {0} /\ since \in Nat
      /\ Len(rows[p]) \in Nat /\ since <= Len(rows[p])
  BY PairsFact DEF CompareRate, RatesInv, RatesTypeOK, PairOf, RefreshType, None
<1> DEFINE Accepted(i) == i # None => InBand(got, rows[p][i].bank)
           Sent(i) == [pair |-> p, bank |-> got, against |-> i, since |-> since]
           Next(i) == IF Accepted(i)
                      THEN [refresh[r] EXCEPT !.inserts = @ \cup {Sent(i)}] ELSE refresh[r]
<1>2. PICK i \in {Latest(p), None} : refresh' = [refresh EXCEPT ![r] = NextPair(Next(i))]
  BY DEF CompareRate
<1>3. i \in Nat /\ (i # None => i = Len(rows[p])) /\ Sent(i) \in Insert
  BY <1>1 DEF Latest, None, Insert
<1>4. Accepted(i) => Compared(Sent(i), p)
  BY <1>1, <1>3 DEF Compared, None
<1>5. Sent(i).pair = p OBVIOUS
<1> HIDE DEF p, got, since, Sent, Accepted
<1>6. CASE Accepted(i)
  <2>1. Next(i) = [refresh[r] EXCEPT !.inserts = @ \cup {Sent(i)}] BY <1>6
  <2>2. /\ Next(i) \in RefreshType /\ Next(i).since = refresh[r].since
        /\ Next(i).inserts = refresh[r].inserts \cup {Sent(i)}
    BY <1>1, <1>3, <2>1 DEF RefreshType
  <2> HIDE DEF Next
  <2>3. /\ NextPair(Next(i)) \in RefreshType
        /\ NextPair(Next(i)).since = refresh[r].since /\ NextPair(Next(i)).pc # "compare"
        /\ NextPair(Next(i)).inserts = refresh[r].inserts \cup {Sent(i)}
    BY <2>2, NextPairFacts
  <2>4. refresh'[r] = NextPair(Next(i)) BY <1>1, <1>2
  <2>5. \A j \in refresh'[r].inserts : Compared(j, j.pair)
    BY <1>4, <1>5, <1>6, <2>3, <2>4 DEF RatesInv
  <2> QED BY <1>1, <1>2, <2>3, <2>4, <2>5, RefreshesMove DEF RatesInv
<1>7. CASE ~Accepted(i)
  <2>1. Next(i) = refresh[r] BY <1>7
  <2>2. /\ NextPair(refresh[r]) \in RefreshType
        /\ NextPair(refresh[r]).since = refresh[r].since /\ NextPair(refresh[r]).pc # "compare"
        /\ NextPair(refresh[r]).inserts = refresh[r].inserts
    BY <1>1, NextPairFacts
  <2>3. refresh' = [refresh EXCEPT ![r] = NextPair(refresh[r])] BY <1>2, <2>1
  <2>4. refresh'[r] = NextPair(refresh[r]) BY <1>1, <2>3
  <2> QED BY <1>1, <2>2, <2>3, <2>4, RefreshesMove DEF RatesInv
<1> QED BY <1>6, <1>7

LEMMA EndRefreshKeeps ==
    ASSUME RatesInv, NEW r \in Refreshes, EndRefresh(r)
    PROVE  RatesInv'
<1>1. /\ refresh \in [Refreshes -> RefreshType] /\ rows' = rows
      /\ refresh' = [refresh EXCEPT ![r] = AtRest("done")]
      /\ \A p \in PairNames : Len(rows[p]) \in Nat
  BY DEF EndRefresh, RatesInv, RatesTypeOK
<1>2. refresh'[r] = AtRest("done") BY <1>1
<1> QED BY <1>1, <1>2, AtRestFacts, RefreshesMove

LEMMA InsertFailsKeeps ==
    ASSUME RatesInv, NEW r \in Refreshes, InsertFails(r)
    PROVE  RatesInv'
<1>1. /\ refresh[r] \in RefreshType /\ refresh \in [Refreshes -> RefreshType] /\ rows' = rows
      /\ \A p \in PairNames : Len(rows[p]) \in Nat
  BY DEF InsertFails, RatesInv, RatesTypeOK
<1>2. PICK insert \in refresh[r].inserts :
        refresh' = IF InLoop(r)
            THEN [s \in Refreshes |->
                    IF Active(s) THEN AtRest("done") ELSE refresh[s]]
            ELSE [refresh EXCEPT ![r].inserts = @ \ {insert}]
  BY DEF InsertFails
<1>3. CASE InLoop(r)
  <2>1. \A s \in Refreshes : refresh'[s] = AtRest("done") \/ refresh'[s] = refresh[s]
    BY <1>2, <1>3
  <2>2. refresh' \in [Refreshes -> RefreshType]
    BY <1>1, <1>2, <1>3, AtRestFacts
  <2> QED BY <1>1, <2>1, <2>2, AtRestFacts, RefreshesMove
<1>4. CASE ~InLoop(r)
  <2> DEFINE call == [refresh[r] EXCEPT !.inserts = @ \ {insert}]
  <2>1. /\ call \in RefreshType /\ refresh' = [refresh EXCEPT ![r] = call]
        /\ call.since = refresh[r].since /\ call.inserts \subseteq refresh[r].inserts
        /\ call.pc = refresh[r].pc /\ call.got = refresh[r].got
    BY <1>1, <1>2, <1>4 DEF RefreshType
  <2>2. refresh'[r] = call BY <1>1, <2>1
  <2> QED BY <1>1, <2>1, <2>2, RefreshesMove DEF RatesInv
<1> QED BY <1>3, <1>4

\* A row more of one pair.
LEMMA Append1Facts ==
    ASSUME RatesTypeOK, NEW p \in PairNames, NEW row \in RateRow, Append1(p, row)
    PROVE  /\ rows' \in [PairNames -> Seq(RateRow)]
           /\ \A q \in PairNames : q # p => rows'[q] = rows[q]
           /\ Len(rows[p]) \in Nat /\ Len(rows'[p]) = Len(rows[p]) + 1
           /\ \A i \in 1 .. Len(rows[p]) : rows'[p][i] = rows[p][i]
           /\ rows'[p][Len(rows[p]) + 1] = row
<1>1. rows \in [PairNames -> Seq(RateRow)] /\ rows[p] \in Seq(RateRow)
      /\ rows' = [rows EXCEPT ![p] = Append(@, row)]
  BY DEF RatesTypeOK, Append1
<1>2. rows'[p] = Append(rows[p], row) BY <1>1
<1>3. Append(rows[p], row) \in Seq(RateRow) BY <1>1
<1>4. rows' \in [PairNames -> Seq(RateRow)] BY <1>1, <1>3
<1>5. \A q \in PairNames : q # p => rows'[q] = rows[q] BY <1>1
<1>6. /\ Len(rows[p]) \in Nat /\ Len(rows'[p]) = Len(rows[p]) + 1
      /\ \A i \in 1 .. Len(rows[p]) : rows'[p][i] = rows[p][i]
      /\ rows'[p][Len(rows[p]) + 1] = row
  BY <1>1, <1>2
<1> QED BY <1>4, <1>5, <1>6

LEMMA NewRowType ==
    ASSUME NEW rate \in Nat \ {0}, NEW noba \in Nat, NEW by \in {"entered", "provider"},
           NEW against \in Nat, NEW since \in Nat
    PROVE  /\ NewRow(rate, noba, by, against, since) \in RateRow
           /\ NewRow(rate, noba, by, against, since).bank = rate
           /\ NewRow(rate, noba, by, against, since).against = against
           /\ NewRow(rate, noba, by, against, since).since = since
BY DEF NewRow, RateRow, Life, None

\* What was compared stays so when a row is added after it.
LEMMA AppendKeeps ==
    ASSUME RatesInv, NEW p \in PairNames, NEW row \in RateRow, Append1(p, row),
           Compared(row, p), refresh' \in [Refreshes -> RefreshType],
           \A r \in Refreshes : /\ refresh'[r].since = refresh[r].since
                                /\ refresh'[r].inserts \subseteq refresh[r].inserts
                                /\ refresh'[r].pc = refresh[r].pc
                                /\ refresh'[r].got = refresh[r].got
    PROVE  RatesInv'
<1>1. /\ RatesTypeOK /\ RatesTypeOK' /\ ThresholdHolds
      /\ rows \in [PairNames -> Seq(RateRow)]
  BY Append1Facts DEF RatesInv, RatesTypeOK
<1>2. ASSUME NEW q \in PairNames
      PROVE  /\ Len(rows[q]) \in Nat /\ Len(rows'[q]) \in Nat
             /\ Len(rows[q]) <= Len(rows'[q])
             /\ \A i \in 1 .. Len(rows[q]) : rows'[q][i] = rows[q][i]
  <2>1. Len(rows[q]) \in Nat BY <1>1
  <2>2. CASE q = p BY <1>1, <2>1, <2>2, Append1Facts
  <2>3. CASE q # p
    <3>1. rows'[q] = rows[q] BY <1>1, <2>3, Append1Facts
    <3> QED BY <2>1, <3>1
  <2> QED BY <2>2, <2>3
<1>3. ASSUME NEW q \in PairNames, NEW x, Compared(x, q) PROVE Compared(x, q)'
  BY <1>2, <1>3 DEF Compared
<1>4. ASSUME NEW q \in PairNames, NEW i \in DOMAIN rows'[q], rows'[q][i].against # None
      PROVE  /\ rows'[q][i].since <= rows'[q][i].against /\ rows'[q][i].against < i
             /\ InBand(rows'[q][i].bank, rows'[q][rows'[q][i].against].bank)
  <2>1. i \in 1 .. Len(rows'[q]) BY <1>1 DEF RatesTypeOK
  <2>2. CASE i \in 1 .. Len(rows[q])
    <3>1. rows'[q][i] = rows[q][i] BY <1>2, <2>2
    <3> DEFINE k == rows[q][i].against
    <3>2. /\ rows[q][i].since <= k /\ k < i
          /\ InBand(rows[q][i].bank, rows[q][k].bank)
      BY <1>1, <1>4, <2>2, <3>1 DEF ThresholdHolds
    <3>3. k \in Nat \ {0}
      <4>1. rows[q] \in Seq(RateRow) BY <1>1
      <4>2. rows[q][i] \in RateRow BY <2>2, <4>1
      <4> QED BY <1>4, <3>1, <4>2 DEF RateRow, None
    <3>4. rows'[q][k] = rows[q][k] BY <1>2, <2>2, <3>2, <3>3
    <3> QED BY <3>1, <3>2, <3>4
  <2>3. CASE i \notin 1 .. Len(rows[q])
    <3>1. q = p /\ i = Len(rows[p]) + 1 /\ Len(rows[p]) \in Nat
      BY <1>1, <1>2, <2>1, <2>3, Append1Facts
    <3>2. rows'[q][i] = row BY <1>1, <3>1, Append1Facts
    <3>3. /\ row.since <= row.against /\ row.against \in 1 .. Len(rows[p])
          /\ InBand(row.bank, rows[p][row.against].bank)
      BY <1>4, <3>2 DEF Compared
    <3>4. rows'[p][row.against] = rows[p][row.against] BY <1>2, <3>3
    <3> QED BY <3>1, <3>2, <3>3, <3>4
  <2> QED BY <2>2, <2>3
<1>5. ThresholdHolds' BY <1>4 DEF ThresholdHolds
<1>6. ASSUME NEW r \in Refreshes
      PROVE  /\ \A q \in PairNames : refresh'[r].since[q] <= Len(rows'[q])
             /\ \A i \in refresh'[r].inserts : Compared(i, i.pair)'
  <2>1. refresh[r] \in RefreshType BY <1>1 DEF RatesTypeOK
  <2>2. ASSUME NEW q \in PairNames PROVE refresh'[r].since[q] <= Len(rows'[q])
    <3>1. refresh[r].since[q] \in Nat /\ refresh[r].since[q] <= Len(rows[q])
      BY <2>1 DEF RefreshType, RatesInv
    <3> QED BY <1>2, <3>1
  <2>3. ASSUME NEW i \in refresh'[r].inserts PROVE Compared(i, i.pair)'
    <3>1. i \in refresh[r].inserts /\ i.pair \in PairNames
      BY <2>1 DEF RefreshType, Insert
    <3> QED BY <1>3, <3>1 DEF RatesInv
  <2> QED BY <2>2, <2>3
<1>7. \A r \in Refreshes : refresh'[r].pc = "compare" => refresh'[r].got # None
  BY DEF RatesInv
<1> QED BY <1>1, <1>5, <1>6, <1>7 DEF RatesInv

LEMMA InsertRateKeeps ==
    ASSUME RatesInv, NEW r \in Refreshes, InsertRate(r)
    PROVE  RatesInv'
<1>1. refresh[r] \in RefreshType /\ refresh \in [Refreshes -> RefreshType] /\ RatesTypeOK
  BY DEF RatesInv, RatesTypeOK
<1>2. PICK insert \in refresh[r].inserts :
        /\ Append1(insert.pair,
                   NewRow(insert.bank, None, "provider", insert.against, insert.since))
        /\ refresh' = [refresh EXCEPT ![r].inserts = @ \ {insert}]
  BY DEF InsertRate
<1>3. insert \in Insert /\ Compared(insert, insert.pair) /\ None \in Nat
  BY <1>1 DEF RefreshType, RatesInv, None
<1> DEFINE p == insert.pair
           row == NewRow(insert.bank, None, "provider", insert.against, insert.since)
<1>4. /\ p \in PairNames /\ row \in RateRow /\ row.bank = insert.bank
      /\ row.against = insert.against /\ row.since = insert.since
  <2>1. /\ insert.pair \in PairNames /\ insert.bank \in Nat \ {0}
        /\ insert.against \in Nat /\ insert.since \in Nat
    BY <1>3 DEF Insert
  <2>2. PICK b \in Nat \ {0}, against \in Nat, since \in Nat :
            b = insert.bank /\ against = insert.against /\ since = insert.since
    BY <2>1
  <2>3. row = NewRow(b, None, "provider", against, since) BY <2>2
  <2>4. /\ NewRow(b, None, "provider", against, since) \in RateRow
        /\ NewRow(b, None, "provider", against, since).bank = b
        /\ NewRow(b, None, "provider", against, since).against = against
        /\ NewRow(b, None, "provider", against, since).since = since
    BY <1>3, NewRowType
  <2> HIDE DEF row
  <2> QED BY <2>1, <2>2, <2>3, <2>4
<1> HIDE DEF row
<1>5. Append1(p, row) BY <1>2 DEF row
<1>6. Compared(row, p) BY <1>3, <1>4 DEF Compared
<1> DEFINE call == [refresh[r] EXCEPT !.inserts = @ \ {insert}]
<1>7. /\ call \in RefreshType /\ refresh' = [refresh EXCEPT ![r] = call]
      /\ call.since = refresh[r].since /\ call.inserts \subseteq refresh[r].inserts
      /\ call.pc = refresh[r].pc /\ call.got = refresh[r].got
  BY <1>1, <1>2 DEF RefreshType
<1>8. refresh'[r] = call BY <1>1, <1>7
<1> HIDE DEF call, p
<1>9. /\ refresh' \in [Refreshes -> RefreshType]
      /\ \A s \in Refreshes : /\ refresh'[s].since = refresh[s].since
                              /\ refresh'[s].inserts \subseteq refresh[s].inserts
                              /\ refresh'[s].pc = refresh[s].pc
                              /\ refresh'[s].got = refresh[s].got
  BY <1>1, <1>7, <1>8
<1> QED BY <1>4, <1>5, <1>6, <1>9, AppendKeeps

LEMMA EnterRateKeeps ==
    ASSUME RatesInv, NEW p \in PairNames, NEW rate \in Entered[p],
           NEW noba \in Entered[p] \cup {None}, EnterRate(p, rate, noba)
    PROVE  RatesInv'
<1> DEFINE row == NewRow(rate, noba, "entered", None, None)
<1>1. row \in RateRow /\ row.against = None
  <2>1. rate \in Nat \ {0} /\ noba \in Nat /\ None \in Nat
    BY RatesAssumption DEF None
  <2> QED BY <2>1, NewRowType
<1> HIDE DEF row
<1>2. Append1(p, row) /\ refresh' = refresh
  BY DEF EnterRate, row
<1>3. Compared(row, p) BY <1>1 DEF Compared
<1> QED BY <1>1, <1>2, <1>3, AppendKeeps DEF RatesInv, RatesTypeOK

\* Half a day leaves every row where it is.
LEMMA TimeFacts ==
    ASSUME RatesTypeOK, TimePasses
    PROVE  /\ RatesTypeOK' /\ refresh' = refresh
           /\ \A p \in PairNames :
                /\ Len(rows'[p]) = Len(rows[p]) /\ DOMAIN rows'[p] = 1 .. Len(rows[p])
                /\ \A i \in 1 .. Len(rows[p]) :
                    /\ rows'[p][i].bank = rows[p][i].bank
                    /\ rows'[p][i].against = rows[p][i].against
                    /\ rows'[p][i].since = rows[p][i].since
<1>1. ASSUME NEW row \in RateRow
      PROVE  /\ Age(row) \in RateRow /\ Age(row).bank = row.bank
             /\ Age(row).against = row.against /\ Age(row).since = row.since
  BY DEF Age, RateRow
<1>2. ASSUME NEW p \in PairNames
      PROVE  /\ rows'[p] \in Seq(RateRow) /\ Len(rows'[p]) = Len(rows[p])
             /\ DOMAIN rows'[p] = 1 .. Len(rows[p])
             /\ \A i \in 1 .. Len(rows[p]) : rows'[p][i] = Age(rows[p][i])
                                            /\ rows[p][i] \in RateRow
  <2>1. rows[p] \in Seq(RateRow) /\ rows'[p] = [i \in 1 .. Len(rows[p]) |-> Age(rows[p][i])]
    BY DEF RatesTypeOK, TimePasses
  <2>2. \A i \in 1 .. Len(rows[p]) : rows[p][i] \in RateRow BY <2>1
  <2>3. Len(rows[p]) \in Nat BY <2>1
  <2>4. \A i \in 1 .. Len(rows[p]) : Age(rows[p][i]) \in RateRow BY <1>1, <2>2
  <2> QED BY <2>1, <2>2, <2>3, <2>4
<1>3. rows' \in [PairNames -> Seq(RateRow)] /\ refresh' = refresh
  BY <1>2 DEF TimePasses
<1> QED BY <1>1, <1>2, <1>3 DEF RatesTypeOK

LEMMA TimePassesKeeps ==
    ASSUME RatesInv, TimePasses
    PROVE  RatesInv'
<1>1. /\ RatesTypeOK /\ RatesTypeOK' /\ refresh' = refresh
      /\ \A p \in PairNames :
            /\ Len(rows'[p]) = Len(rows[p]) /\ DOMAIN rows'[p] = 1 .. Len(rows[p])
            /\ \A i \in 1 .. Len(rows[p]) :
                /\ rows'[p][i].bank = rows[p][i].bank
                /\ rows'[p][i].against = rows[p][i].against
                /\ rows'[p][i].since = rows[p][i].since
  BY TimeFacts DEF RatesInv
<1>2. ThresholdHolds'
  <2> SUFFICES ASSUME NEW p \in PairNames, NEW i \in DOMAIN rows'[p],
                      rows'[p][i].against # None
               PROVE  /\ rows'[p][i].since <= rows'[p][i].against
                      /\ rows'[p][i].against < i
                      /\ InBand(rows'[p][i].bank, rows'[p][rows'[p][i].against].bank)
    BY DEF ThresholdHolds
  <2>1. rows[p] \in Seq(RateRow) /\ i \in 1 .. Len(rows[p]) /\ Len(rows[p]) \in Nat
    BY <1>1 DEF RatesTypeOK
  <2>2. rows[p][i] \in RateRow BY <2>1
  <2> DEFINE k == rows[p][i].against
  <2>3. rows'[p][i].against = k /\ k \in Nat \ {0}
    BY <1>1, <2>1, <2>2 DEF RateRow, None
  <2>4. rows[p][i].since <= k /\ k < i /\ InBand(rows[p][i].bank, rows[p][k].bank)
    BY <2>1, <2>3 DEF RatesInv, ThresholdHolds
  <2>5. k \in 1 .. Len(rows[p]) BY <2>1, <2>3, <2>4
  <2> HIDE DEF k
  <2> QED BY <1>1, <2>1, <2>3, <2>4, <2>5
<1>3. ASSUME NEW r \in Refreshes, NEW i \in refresh[r].inserts PROVE Compared(i, i.pair)'
  <2>1. Compared(i, i.pair) /\ i.pair \in PairNames
    BY DEF RatesInv, RatesTypeOK, RefreshType, Insert
  <2> QED BY <1>1, <2>1 DEF Compared
<1> QED BY <1>1, <1>2, <1>3 DEF RatesInv

LEMMA RatesInvKept == RatesInv /\ [RatesNext]_rateVars => RatesInv'
<1> SUFFICES ASSUME RatesInv, [RatesNext]_rateVars PROVE RatesInv'
  OBVIOUS
<1>1. CASE UNCHANGED rateVars
  BY <1>1 DEF rateVars, RatesInv, RatesTypeOK, ThresholdHolds, Compared
<1>2. CASE RatesNext
  BY <1>2, BeginRefreshKeeps, FetchRateKeeps, CompareRateKeeps, InsertRateKeeps,
     InsertFailsKeeps, EndRefreshKeeps, EnterRateKeeps, TimePassesKeeps
     DEF RatesNext, RefreshStep
<1> QED BY <1>1, <1>2

\* createExchangeRateFromProvider's threshold, for every provider, however refreshes and
\* an administrator's rates overlap and whatever fails: a rate that was compared is
\* within 10% of one that was in force while its refresh ran.  A lookup that fails lets
\* its own rate through uncompared and no other.
THEOREM ThresholdIsKept == RatesSpec => []ThresholdHolds
<1>1. RatesInv => ThresholdHolds BY DEF RatesInv
<1> QED BY <1>1, RatesInitOK, RatesInvKept, PTL DEF RatesSpec

-----------------------------------------------------------------------------
(* Rates: the fees *)

\* Dividing and multiplying again.
LEMMA DivBounds ==
    ASSUME NEW n \in Int, NEW d \in Nat \ {0}
    PROVE  /\ n \div d \in Int
           /\ d * (n \div d) <= n /\ n < d * (n \div d) + d
<1>1. n \div d \in Int OBVIOUS
<1>2. n % d \in 0 .. d - 1 OBVIOUS
<1>3. n = (d * (n \div d)) + (n % d) OBVIOUS
<1> QED BY <1>1, <1>2, <1>3

\* A rounded amount is half a cent from the exact one at most; one rounded up to
\* five is never below it.
LEMMA Roundings ==
    ASSUME NEW n \in Int, NEW d \in Nat \ {0}
    PROVE  /\ RoundHalfUp(n, d) \in Int /\ 2 * (d * RoundHalfUp(n, d)) <= 2 * n + d
           /\ 2 * n - d < 2 * (d * RoundHalfUp(n, d))
           /\ UpToFive(n, d) \in Int /\ d * UpToFive(n, d) >= n
<1>1. /\ RoundHalfUp(n, d) \in Int /\ 2 * (d * RoundHalfUp(n, d)) <= 2 * n + d
      /\ 2 * n - d < 2 * (d * RoundHalfUp(n, d))
  <2> DEFINE q == (2 * n + d) \div (2 * d)
  <2>1. 2 * n + d \in Int /\ 2 * d \in Nat \ {0} OBVIOUS
  <2>2. /\ q \in Int /\ (2 * d) * q <= 2 * n + d
        /\ 2 * n + d < (2 * d) * q + 2 * d
    BY <2>1, DivBounds
  <2> HIDE DEF q
  <2>3. (2 * d) * q = 2 * (d * q) /\ d * q \in Int BY <2>2
  <2>4. q \in Int /\ 2 * (d * q) <= 2 * n + d /\ 2 * n - d < 2 * (d * q) BY <2>2, <2>3
  <2> QED BY <2>4 DEF RoundHalfUp, q
<1>2. UpToFive(n, d) \in Int /\ d * UpToFive(n, d) >= n
  <2> DEFINE m == n + 5 * d - 1
             k == 5 * d
             q == m \div k
  <2>1. m \in Int /\ k \in Nat \ {0} OBVIOUS
  <2>2. q \in Int /\ m < k * q + k BY <2>1, DivBounds
  <2>3. UpToFive(n, d) = 5 * q BY DEF UpToFive
  <2>4. n - 1 < k * q
    <3>1. k * q \in Int /\ k \in Nat /\ m = n + k - 1 BY <2>1, <2>2
    <3> DEFINE kq == k * q
    <3>2. kq \in Int /\ m < kq + k BY <2>2, <3>1
    <3> HIDE DEF k, m, q, kq
    <3>3. n - 1 < kq BY <3>1, <3>2
    <3> QED BY <3>3 DEF kq
  <2>5. k * q \in Int /\ k * q = d * (5 * q)
    <3>1. q \in Int BY <2>2
    <3> HIDE DEF q, m
    <3> QED BY <3>1
  <2>6. n <= k * q BY <2>4, <2>5
  <2> HIDE DEF k, q, m
  <2> QED BY <2>2, <2>3, <2>5, <2>6
<1> QED BY <1>1, <1>2

\* Positions have a largest one among any of them.
LEMMA HasLargest ==
    ASSUME NEW n \in Nat, NEW S \in SUBSET (1 .. n), S # {}
    PROVE  \E i \in S : \A j \in S : j <= i
<1> DEFINE T == {n - i : i \in S}
<1>1. T \subseteq Nat /\ T # {}
  <2>1. T \subseteq Nat OBVIOUS
  <2>2. PICK i \in S : TRUE OBVIOUS
  <2>3. n - i \in T OBVIOUS
  <2> QED BY <2>1, <2>3
<1>2. PICK x \in T : \A y \in T : ~(<<y, x>> \in OpToRel(<, Nat))
  BY <1>1, NatLessThanWellFounded, WFMin
<1>3. \A y \in T : ~(y < x)
  BY <1>1, <1>2 DEF OpToRel
<1>4. PICK i \in S : x = n - i OBVIOUS
<1>5. ASSUME NEW j \in S PROVE j <= i
  <2>1. n - j \in T OBVIOUS
  <2>2. ~(n - j < n - i) BY <1>3, <1>4, <2>1
  <2> QED BY <2>2
<1> QED BY <1>5

\* The rate a quote finds is one of the pair's.
LEMMA RateOfType ==
    ASSUME RatesTypeOK, NEW p \in PairNames, HasRate(p)
    PROVE  RateOf(p) \in RateRow
<1>1. rows[p] \in Seq(RateRow) BY DEF RatesTypeOK
<1>2. RateIndex(p) \in 1 .. Len(rows[p])
  <2>1. CASE LatestFresh(p) # None
    <3> DEFINE fresh == {i \in DOMAIN rows[p] : rows[p][i].left > 0}
    <3>1. fresh # {} BY <2>1 DEF LatestFresh
    <3>2. \E i \in fresh : \A j \in fresh : j <= i
      <4>1. Len(rows[p]) \in Nat BY <1>1
      <4>2. fresh \in SUBSET (1 .. Len(rows[p])) BY <1>1
      <4> QED BY <3>1, <4>1, <4>2, HasLargest
    <3>3. LatestFresh(p) \in fresh BY <3>1, <3>2 DEF LatestFresh
    <3>4. fresh \subseteq 1 .. Len(rows[p]) BY <1>1
    <3> QED BY <2>1, <3>3, <3>4 DEF RateIndex
  <2>2. CASE LatestFresh(p) = None
    BY <1>1, <2>2 DEF RateIndex, Latest, HasRate, None
  <2> QED BY <2>1, <2>2
<1> QED BY <1>1, <1>2 DEF RateOf

LEMMA DepositsCoverTheirFees == RatesTypeOK => DepositFeesAreCovered
<1> SUFFICES ASSUME RatesTypeOK, HasRate("COP-USD"), NEW a \in Amounts
             PROVE  LET row == RateOf("COP-USD")
                    IN  200 * Scale * DepositCredit(a, row)
                          <= 200 * a * row.noba - 2 * CollectionFee(a, row)
                              - 200 * Scale * FeeNoba + 100 * Scale
  BY DEF DepositFeesAreCovered
<1> DEFINE row == RateOf("COP-USD")
           n == a * row.noba
           fee == CollectionFee(a, row)
           up == UpToFive(fee, 100 * Scale)
           round == RoundHalfUp(n, Scale)
<1>1. row.bank \in Nat /\ row.noba \in Nat
  BY PairsFact, RateOfType DEF RateRow
<1>2. a \in Nat /\ Scale \in Nat \ {0} /\ FeePercent \in Nat /\ FeeFixed \in Nat
      /\ FeeNoba \in Nat
  BY RatesAssumption
<1>3. n \in Int /\ fee \in Int /\ 100 * Scale \in Nat \ {0}
  BY <1>1, <1>2 DEF CollectionFee
<1>4. /\ round \in Int /\ 2 * (Scale * round) <= 2 * n + Scale
      /\ up \in Int /\ (100 * Scale) * up >= fee
  BY <1>2, <1>3, Roundings
<1>5. DepositCredit(a, row) = round - FeeNoba - up BY DEF DepositCredit
<1> HIDE DEF row, n, fee, up, round
<1>6. 200 * Scale * (round - FeeNoba - up)
          = 100 * (2 * (Scale * round)) - 200 * Scale * FeeNoba - 2 * ((100 * Scale) * up)
  BY <1>2, <1>4
<1>7. 200 * Scale * DepositCredit(a, row) <= 200 * n - 2 * fee - 200 * Scale * FeeNoba + 100 * Scale
  <2>1. /\ Scale * round \in Int /\ (100 * Scale) * up \in Int /\ 200 * Scale * FeeNoba \in Int
    BY <1>2, <1>4
  <2> QED BY <1>2, <1>3, <1>4, <1>5, <1>6, <2>1
<1>8. 200 * n = 200 * a * row.noba BY <1>1, <1>2 DEF n
<1> QED BY <1>7, <1>8 DEF fee, row

\* A product with a non-negative factor keeps an inequality.
LEMMA Scaled ==
    ASSUME NEW x \in Int, NEW y \in Int, NEW k \in Nat, x <= y
    PROVE  k * x \in Int /\ k * y \in Int /\ k * x <= k * y
<1>1. k * (y - x) \in Nat BY y - x \in Nat
<1> QED BY <1>1

LEMMA WithdrawalsCoverTheirFees == RatesTypeOK => WithdrawalFeesAreCovered
<1> SUFFICES ASSUME RatesTypeOK, HasRate("USD-COP"), NEW a \in Amounts
             PROVE  LET row == RateOf("USD-COP")
                    IN  2 * Scale * row.bank * WithdrawalCredit(a, row)
                          <= (2 * row.bank * (a - NobaFee) - 2 * MonoFee * Scale + row.bank)
                                  * row.noba + Scale * row.bank
  BY DEF WithdrawalFeesAreCovered
<1>1. RateOf("USD-COP") \in RateRow BY PairsFact, RateOfType
<1>2. PICK rate \in Nat \ {0}, noba \in Nat :
        rate = RateOf("USD-COP").bank /\ noba = RateOf("USD-COP").noba
  BY <1>1 DEF RateRow
<1>3. a \in Nat /\ Scale \in Nat \ {0} /\ MonoFee \in Nat /\ NobaFee \in Nat
  BY RatesAssumption
<1> DEFINE n == MonoFee * Scale
           cents == RoundHalfUp(n, rate)
           up == UpToFive(cents, 1)
           left == a - NobaFee - up
           paid == left * noba
           round == RoundHalfUp(paid, Scale)
<1>4. WithdrawalCredit(a, RateOf("USD-COP")) = round
  BY <1>2 DEF WithdrawalCredit, WithdrawalFee
<1>5. n \in Nat BY <1>3
<1>6. cents \in Int /\ 2 * n - rate < 2 * (rate * cents)
  <2> HIDE DEF n
  <2>1. /\ RoundHalfUp(n, rate) \in Int
        /\ 2 * n - rate < 2 * (rate * RoundHalfUp(n, rate))
    <3>1. n \in Int BY <1>5
    <3> QED BY <3>1, Roundings
  <2> QED BY <2>1
<1>7. up \in Int /\ up >= cents
  <2> HIDE DEF cents
  <2>1. UpToFive(cents, 1) \in Int /\ 1 * UpToFive(cents, 1) >= cents
    <3>1. cents \in Int /\ 1 \in Nat \ {0} BY <1>6
    <3> QED BY <3>1, Roundings
  <2> QED BY <1>6, <2>1
<1>8. left \in Int /\ paid \in Int BY <1>3, <1>7
<1>9. round \in Int /\ 2 * (Scale * round) <= 2 * paid + Scale
  <2> HIDE DEF paid
  <2> QED BY <1>3, <1>8, Roundings
<1> HIDE DEF n, cents, up, left, paid, round
\* The fee that is taken makes up for Mono's, but for half a cent.
<1>10. rate * cents \in Int /\ rate * up \in Int /\ rate * cents <= rate * up
  BY <1>6, <1>7, Scaled
<1> DEFINE base == rate * (a - NobaFee)
           kept == 2 * base - 2 * n + rate
<1>11. base \in Int /\ rate * left = base - rate * up
  BY <1>3, <1>7 DEF left
<1>12. 2 * (rate * left) <= kept /\ kept \in Int /\ 2 * (rate * left) \in Int
  BY <1>5, <1>6, <1>10, <1>11
<1>13. noba * (2 * (rate * left)) <= noba * kept
  <2> HIDE DEF kept
  <2> QED BY <1>12, Scaled
<1>14. rate * (2 * (Scale * round)) <= rate * (2 * paid + Scale)
  <2>1. 2 * (Scale * round) \in Int /\ 2 * paid + Scale \in Int BY <1>3, <1>8, <1>9
  <2> QED BY <1>9, <2>1, Scaled
<1>15. rate * (2 * paid + Scale) = noba * (2 * (rate * left)) + Scale * rate
  BY <1>3, <1>8 DEF paid
<1>16. rate * (2 * (Scale * round)) = 2 * Scale * rate * round
  BY <1>3, <1>9
<1>17. noba * kept = (2 * rate * (a - NobaFee) - 2 * MonoFee * Scale + rate) * noba
  BY <1>3 DEF n
<1>18. 2 * Scale * rate * round <= noba * kept + Scale * rate
  <2> DEFINE l == rate * (2 * (Scale * round))
             m == rate * (2 * paid + Scale)
             h == noba * (2 * (rate * left))
             k == noba * kept
             s == Scale * rate
  <2>1. l \in Int /\ m \in Int /\ h \in Int /\ k \in Int /\ s \in Int
    <3> HIDE DEF kept
    <3> QED BY <1>3, <1>8, <1>9, <1>12
  <2>2. l <= m /\ h <= k /\ m = h + s BY <1>13, <1>14, <1>15
  <2> HIDE DEF l, m, h, k, s
  <2>3. l <= k + s BY <2>1, <2>2
  <2> QED BY <1>16, <2>3 DEF l, k, s
<1> QED BY <1>2, <1>4, <1>17, <1>18

\* Noba never pays Mono's fees itself but for half a cent of each rounding, neither of a
\* deposit nor of a withdrawal, for any rates, amounts and fees.
THEOREM FeesCovered == RatesSpec => []FeesAreCovered
<1>1. RatesInv => FeesAreCovered
  BY DepositsCoverTheirFees, WithdrawalsCoverTheirFees DEF RatesInv, FeesAreCovered
<1> QED BY <1>1, RatesInitOK, RatesInvKept, PTL DEF RatesSpec

-----------------------------------------------------------------------------
(* Requests: who is on which side *)

RequestSteps == {"idle", "preprocess", "credit", "debit", "process", "save", "saved", "refused"}
Someone == Consumers \cup {Nobody}
Row == [flow : FlowNames, debit : Someone, credit : Someone]

SidesTypeOK ==
    /\ at \in [Askers -> RequestSteps]
    /\ asked \in [Askers -> WantedType \cup {NotAsked}]
    /\ original \in [Askers -> WantedType \cup {NotAsked}]
    /\ found \in [Askers -> [debit : Someone, credit : Someone]]
    /\ saved \in [Askers -> Row \cup {NoRow}]
    /\ named \in [Askers -> SUBSET Consumers]

\* The sides fit the workflow.
SidesFit(flow, debit, credit) ==
    /\ (debit \in Consumers) = (flow \in DebitFlows)
    /\ credit \in Consumers => flow \in CreditFlows
    /\ flow \in CreditFlows \ {"transfer"} => credit \in Consumers

\* One of those a user's request may have meant.
Meant(c, u) == u \in IF original[c].credit = Nobody THEN {Nobody} ELSE named[c]

\* What is known of a request by the time it is where it is.
AskOK(c) ==
    /\ at[c] # "saved" => saved[c] = NoRow
    /\ at[c] \in {"preprocess", "process", "credit", "debit", "save", "saved"} =>
        original[c] \in WantedType
    /\ at[c] \in {"idle", "preprocess", "process", "credit"} => found[c] = NoSides
    /\ at[c] = "preprocess" => original[c].door = "user" /\ asked[c] = original[c]
    /\ at[c] = "process" => original[c].door # "user" /\ asked[c] = original[c]
    /\ at[c] \in {"credit", "debit"} =>
        /\ original[c].door = "user" /\ Preprocessable(original[c])
        /\ asked[c] = DebitInitiator(original[c])
    /\ at[c] = "debit" => Meant(c, found[c].credit)
    /\ at[c] = "save" =>
        /\ asked[c] \in WantedType
        /\ SidesFit(asked[c].flow, found[c].debit, found[c].credit)
        /\ original[c].door = "user" =>
            found[c].debit = original[c].by /\ Meant(c, found[c].credit)
    /\ saved[c] # NoRow =>
        /\ saved[c] \in Row
        /\ SidesFit(saved[c].flow, saved[c].debit, saved[c].credit)
        /\ original[c].door = "user" =>
            /\ saved[c].debit = original[c].by /\ saved[c].credit # original[c].by
            /\ Meant(c, saved[c].credit)

SidesInv == SidesTypeOK /\ \A c \in Askers : AskOK(c)

LEMMA SidesInitOK == SidesInit => SidesInv
BY DEF SidesInit, SidesInv, SidesTypeOK, AskOK, NoSides, RequestSteps, Someone

\* What the history does.
LEMMA NoteKeeps ==
    ASSUME SidesTypeOK, Note
    PROVE  /\ named' \in [Askers -> SUBSET Consumers]
           /\ \A c \in Askers : named[c] \subseteq named'[c]
<1>1. \A tags, name : NamedBy(tags, name) \subseteq Consumers
  BY DEF NamedBy, WithTag
<1> QED BY <1>1 DEF SidesTypeOK, Note

\* A request that is left alone stays as it is.
LEMMA LeftAlone ==
    ASSUME SidesInv, Note, NEW c \in Askers,
           at'[c] = at[c], asked'[c] = asked[c], original'[c] = original[c],
           found'[c] = found[c], saved'[c] = saved[c]
    PROVE  AskOK(c)'
<1>1. named[c] \subseteq named'[c] BY NoteKeeps DEF SidesInv
<1>2. \A u : Meant(c, u) => Meant(c, u)' BY <1>1 DEF Meant
<1> QED BY <1>2 DEF SidesInv, AskOK

\* A step of one request.
LEMMA OneAsks ==
    ASSUME SidesInv, Note, NEW c \in Askers, NEW step \in RequestSteps,
           NEW r \in WantedType \cup {NotAsked}, NEW o \in WantedType \cup {NotAsked},
           NEW sides \in [debit : Someone, credit : Someone], NEW row \in Row \cup {NoRow},
           at' = [at EXCEPT ![c] = step], asked' = [asked EXCEPT ![c] = r],
           original' = [original EXCEPT ![c] = o], found' = [found EXCEPT ![c] = sides],
           saved' = [saved EXCEPT ![c] = row], AskOK(c)'
    PROVE  SidesInv'
<1>1. SidesTypeOK' BY NoteKeeps DEF SidesInv, SidesTypeOK
<1>2. ASSUME NEW d \in Askers, d # c PROVE AskOK(d)'
  <2>1. /\ at'[d] = at[d] /\ asked'[d] = asked[d] /\ original'[d] = original[d]
        /\ found'[d] = found[d] /\ saved'[d] = saved[d]
    BY <1>2 DEF SidesInv, SidesTypeOK
  <2> QED BY <2>1, LeftAlone
<1> QED BY <1>1, <1>2 DEF SidesInv

LEMMA RefuseKeeps ==
    ASSUME SidesInv, Note, NEW c \in Askers, at[c] # "saved", Refuse(c)
    PROVE  SidesInv'
<1>1. /\ at' = [at EXCEPT ![c] = "refused"] /\ asked' = [asked EXCEPT ![c] = NotAsked]
      /\ original' = [original EXCEPT ![c] = NotAsked]
      /\ found' = [found EXCEPT ![c] = found[c]] /\ saved' = [saved EXCEPT ![c] = saved[c]]
      /\ found[c] \in [debit : Someone, credit : Someone] /\ saved[c] \in Row \cup {NoRow}
  BY DEF Refuse, Proceed, Rewrite, SidesInv, SidesTypeOK
<1>2. at'[c] = "refused" /\ saved'[c] = NoRow
  BY <1>1 DEF SidesInv, SidesTypeOK, AskOK
<1>3. AskOK(c)' BY <1>2 DEF AskOK
<1> QED BY <1>1, <1>3, OneAsks DEF RequestSteps

\* The shape of the state while a request is under way.
LEMMA UnderWay ==
    ASSUME SidesInv, NEW c \in Askers, at[c] \notin {"saved", "refused", "idle"}
    PROVE  /\ at \in [Askers -> RequestSteps] /\ asked \in [Askers -> WantedType \cup {NotAsked}]
           /\ original \in [Askers -> WantedType \cup {NotAsked}]
           /\ found \in [Askers -> [debit : Someone, credit : Someone]]
           /\ saved \in [Askers -> Row \cup {NoRow}]
           /\ original[c] \in WantedType /\ saved[c] = NoRow /\ AskOK(c)
BY DEF SidesInv, SidesTypeOK, AskOK, RequestSteps

LEMMA AskKeeps ==
    ASSUME SidesInv, Note, NEW c \in Askers, Ask(c)
    PROVE  SidesInv'
<1>1. PICK r \in Wanted :
        /\ Proceed(c, IF r.door = "user" THEN "preprocess" ELSE "process")
        /\ Rewrite(c, r) /\ original' = [original EXCEPT ![c] = r]
  BY DEF Ask
<1>2. r \in WantedType BY RequestsAssumption
<1> DEFINE step == IF r.door = "user" THEN "preprocess" ELSE "process"
<1>3. /\ at' = [at EXCEPT ![c] = step] /\ asked' = [asked EXCEPT ![c] = r]
      /\ original' = [original EXCEPT ![c] = r]
      /\ found' = [found EXCEPT ![c] = found[c]] /\ saved' = [saved EXCEPT ![c] = saved[c]]
      /\ found[c] \in [debit : Someone, credit : Someone] /\ saved[c] \in Row \cup {NoRow}
      /\ saved[c] = NoRow /\ found[c] = NoSides
  BY <1>1 DEF Ask, Proceed, Rewrite, SidesInv, SidesTypeOK, AskOK
<1>4. /\ at'[c] = step /\ asked'[c] = r /\ original'[c] = r /\ found'[c] = NoSides
      /\ saved'[c] = NoRow
  BY <1>3 DEF SidesInv, SidesTypeOK
<1>5. AskOK(c)' BY <1>2, <1>4 DEF AskOK
<1>6. step \in RequestSteps BY DEF RequestSteps
<1> HIDE DEF step
<1> QED BY <1>2, <1>3, <1>5, <1>6, OneAsks

LEMMA PreprocessKeeps ==
    ASSUME SidesInv, Note, NEW c \in Askers, PreprocessTransactionParams(c)
    PROVE  SidesInv'
<1>1. at[c] = "preprocess" BY DEF PreprocessTransactionParams
<1>2. CASE Refuse(c) BY <1>1, <1>2, RefuseKeeps
<1>3. CASE /\ Preprocessable(asked[c])
           /\ Rewrite(c, DebitInitiator(asked[c])) /\ Proceed(c, "credit")
           /\ UNCHANGED <<found, saved, original>>
  <2> DEFINE r == original[c]
             q == DebitInitiator(r)
  <2>1. r.door = "user" /\ asked[c] = r /\ r \in WantedType /\ found[c] = NoSides
        /\ Preprocessable(r)
    BY <1>1, <1>3, UnderWay DEF AskOK
  <2>2. q \in WantedType BY <2>1 DEF DebitInitiator, WantedType
  <2>3. /\ at' = [at EXCEPT ![c] = "credit"] /\ asked' = [asked EXCEPT ![c] = q]
        /\ original' = [original EXCEPT ![c] = original[c]]
        /\ found' = [found EXCEPT ![c] = found[c]] /\ saved' = [saved EXCEPT ![c] = saved[c]]
        /\ found[c] \in [debit : Someone, credit : Someone] /\ saved[c] \in Row \cup {NoRow}
    BY <1>1, <1>3, <2>1, UnderWay DEF Proceed, Rewrite
  <2>4. /\ at'[c] = "credit" /\ asked'[c] = q /\ original'[c] = r /\ found'[c] = NoSides
        /\ saved'[c] = NoRow
    BY <1>1, <2>1, <2>3, UnderWay
  <2>5. AskOK(c)' BY <2>1, <2>4 DEF AskOK
  <2> QED BY <2>1, <2>2, <2>3, <2>5, OneAsks DEF RequestSteps
<1> QED BY <1>2, <1>3 DEF PreprocessTransactionParams

LEMMA FindCreditKeeps ==
    ASSUME SidesInv, Note, NEW c \in Askers, FindCreditConsumer(c), UNCHANGED consumerVars
    PROVE  SidesInv'
<1> DEFINE r == original[c]
<1>1. at[c] = "credit" BY DEF FindCreditConsumer
<1>2. /\ r.door = "user" /\ Preprocessable(r) /\ asked[c] = DebitInitiator(r)
      /\ found[c] = NoSides /\ r \in WantedType /\ saved[c] = NoRow
      /\ asked[c].credit = r.credit
  BY <1>1, UnderWay DEF AskOK, DebitInitiator, WantedType
<1>3. CASE Refuse(c) BY <1>1, <1>3, RefuseKeeps
<1>4. CASE /\ asked[c].credit = Nobody
           /\ Proceed(c, "debit") /\ UNCHANGED <<asked, found, saved, original>>
  <2>1. /\ at' = [at EXCEPT ![c] = "debit"] /\ asked' = [asked EXCEPT ![c] = asked[c]]
        /\ original' = [original EXCEPT ![c] = original[c]]
        /\ found' = [found EXCEPT ![c] = found[c]] /\ saved' = [saved EXCEPT ![c] = saved[c]]
        /\ found[c] \in [debit : Someone, credit : Someone] /\ saved[c] \in Row \cup {NoRow}
        /\ asked[c] \in WantedType \cup {NotAsked}
    BY <1>1, <1>4, UnderWay DEF Proceed
  <2>2. /\ at'[c] = "debit" /\ asked'[c] = asked[c] /\ original'[c] = r /\ found'[c] = NoSides
        /\ saved'[c] = NoRow
    BY <1>1, <1>2, <2>1, UnderWay
  <2>3. Meant(c, found[c].credit)'
    <3>1. found'[c].credit = Nobody BY <2>2 DEF NoSides
    <3>2. original'[c].credit = Nobody BY <1>2, <1>4, <2>2
    <3> QED BY <3>1, <3>2 DEF Meant
  <2>4. AskOK(c)' BY <1>2, <2>2, <2>3 DEF AskOK
  <2> QED BY <1>2, <2>1, <2>4, OneAsks DEF RequestSteps
<1>5. ASSUME NEW u \in NamedBy(tag, asked[c].credit), IsActive(u), asked[c].credit # Nobody,
             Settle(c, "credit", u), Proceed(c, "debit"), UNCHANGED <<asked, saved, original>>
      PROVE  SidesInv'
  <2> DEFINE sides == [found[c] EXCEPT !.credit = u]
  <2>1. u \in Someone /\ sides \in [debit : Someone, credit : Someone] /\ sides.credit = u
    BY <1>1, <1>5, UnderWay DEF NamedBy, WithTag, Someone
  <2>2. /\ at' = [at EXCEPT ![c] = "debit"] /\ asked' = [asked EXCEPT ![c] = asked[c]]
        /\ original' = [original EXCEPT ![c] = original[c]]
        /\ found' = [found EXCEPT ![c] = sides] /\ saved' = [saved EXCEPT ![c] = saved[c]]
        /\ saved[c] \in Row \cup {NoRow} /\ asked[c] \in WantedType \cup {NotAsked}
    BY <1>1, <1>5, UnderWay DEF Proceed, Settle
  <2>3. /\ at'[c] = "debit" /\ asked'[c] = asked[c] /\ original'[c] = r /\ found'[c] = sides
        /\ saved'[c] = NoRow
    BY <1>1, <1>2, <2>2, UnderWay
  <2>4. u \in named'[c]
    <3>1. named'[c] = named[c] \cup (NamedBy(tag', original'[c].credit) \cap inGoodStanding')
      BY <2>3 DEF Note
    <3> QED BY <1>2, <1>5, <2>3, <3>1 DEF consumerVars, IsActive
  <2>5. AskOK(c)'
    <3> HIDE DEF sides
    <3> QED BY <1>2, <1>5, <2>1, <2>3, <2>4 DEF AskOK, Meant
  <2> HIDE DEF sides
  <2> QED BY <1>2, <2>1, <2>2, <2>5, OneAsks DEF RequestSteps
<1> QED BY <1>3, <1>4, <1>5 DEF FindCreditConsumer, FindConsumer

LEMMA FindDebitKeeps ==
    ASSUME SidesInv, Note, NEW c \in Askers, FindDebitConsumer(c)
    PROVE  SidesInv'
<1> DEFINE r == original[c]
<1>1. at[c] = "debit" BY DEF FindDebitConsumer
<1>2. /\ r.door = "user" /\ Preprocessable(r) /\ asked[c] = DebitInitiator(r)
      /\ Meant(c, found[c].credit) /\ r \in WantedType /\ saved[c] = NoRow
      /\ asked[c].flow = r.flow /\ asked[c].debit = r.by /\ asked[c] \in WantedType
  BY <1>1, UnderWay, ZenonT(60) DEF AskOK, DebitInitiator, WantedType
<1>3. CASE Refuse(c) BY <1>1, <1>3, RefuseKeeps
<1>4. ASSUME NEW u \in NamedBy(tag, asked[c].debit), IsActive(u),
             Settle(c, "debit", u), Proceed(c, "save"), UNCHANGED <<asked, saved, original>>
      PROVE  SidesInv'
  <2> DEFINE sides == [found[c] EXCEPT !.debit = u]
  <2>1. u = r.by /\ u \in Consumers
    BY <1>2, <1>4, RequestsAssumption DEF NamedBy, WantedType
  <2>2. /\ sides \in [debit : Someone, credit : Someone]
        /\ sides.debit = u /\ sides.credit = found[c].credit
    BY <1>1, <2>1, UnderWay DEF Someone
  <2>3. /\ at' = [at EXCEPT ![c] = "save"] /\ asked' = [asked EXCEPT ![c] = asked[c]]
        /\ original' = [original EXCEPT ![c] = original[c]]
        /\ found' = [found EXCEPT ![c] = sides] /\ saved' = [saved EXCEPT ![c] = saved[c]]
        /\ saved[c] \in Row \cup {NoRow} /\ asked[c] \in WantedType \cup {NotAsked}
    BY <1>1, <1>4, UnderWay DEF Proceed, Settle
  <2>4. /\ at'[c] = "save" /\ asked'[c] = asked[c] /\ original'[c] = r /\ found'[c] = sides
        /\ saved'[c] = NoRow
    BY <1>1, <1>2, <2>3, UnderWay
  <2>5. SidesFit(r.flow, u, found[c].credit)
    <3>1. CASE r.flow = "transfer"
      BY <2>1, <3>1 DEF SidesFit, DebitFlows, CreditFlows
    <3>2. CASE r.flow \in {"deposit", "withdrawal"}
      <4>1. r.credit = Nobody
        BY <1>2, <3>2 DEF Preprocessable, DepositAllowed, WithdrawalAllowed
      <4>2. found[c].credit = Nobody BY <1>2, <4>1 DEF Meant
      <4> QED BY <2>1, <3>2, <4>2, RequestsAssumption DEF SidesFit, DebitFlows, CreditFlows
    <3> QED BY <1>2, <3>1, <3>2 DEF Preprocessable
  <2> HIDE DEF sides
  <2>6. Meant(c, found[c].credit)'
    <3>1. found'[c].credit = found[c].credit BY <2>2, <2>4
    <3>2. named[c] \subseteq named'[c] BY NoteKeeps DEF SidesInv
    <3> QED BY <1>2, <2>4, <3>1, <3>2 DEF Meant
  <2>7. AskOK(c)'
    BY <1>2, <2>1, <2>2, <2>4, <2>5, <2>6 DEF AskOK
  <2> QED BY <1>2, <2>2, <2>3, <2>7, OneAsks DEF RequestSteps
<1> QED BY <1>3, <1>4 DEF FindDebitConsumer, FindConsumer

\* What a processor accepts fits its workflow.
LEMMA ProcessorFits ==
    ASSUME NEW r \in WantedType, Processable(r), NEW sides \in Processor(r)
    PROVE  /\ sides \in [debit : Someone, credit : Someone]
           /\ SidesFit(r.flow, sides.debit, sides.credit)
<1>1. Nobody \notin Consumers BY RequestsAssumption
<1>2. r.flow \in {"cardWithdrawal", "cardDebitAdjustment", "debitAdjustment",
                  "cardCreditAdjustment", "creditAdjustment", "payrollDeposit", "cardReversal"}
  BY DEF Processable, WantedType, FlowNames, DebitFlows, CreditFlows, WalletFlows
<1>3. CASE r.flow = "cardWithdrawal"
  <2>1. sides \in CardWithdrawal(r) BY <1>3 DEF Processor
  <2>2. r.debit \in Consumers /\ sides = [debit |-> r.debit, credit |-> Nobody]
    BY <2>1 DEF CardWithdrawal, Input
  <2> QED BY <1>1, <1>3, <2>2 DEF SidesFit, Someone, DebitFlows, CreditFlows
<1>4. CASE r.flow = "cardDebitAdjustment"
  <2>1. sides \in CardDebitAdjustment(r) BY <1>4 DEF Processor
  <2>2. r.debit \in Consumers /\ sides = [debit |-> r.debit, credit |-> Nobody]
    BY <2>1 DEF CardDebitAdjustment, Input
  <2> QED BY <1>1, <1>4, <2>2 DEF SidesFit, Someone, DebitFlows, CreditFlows
<1>5. CASE r.flow = "debitAdjustment"
  <2>1. sides \in DebitAdjustment(r) BY <1>5 DEF Processor
  <2>2. r.debit \in Consumers /\ sides = [debit |-> r.debit, credit |-> Nobody]
    BY <2>1 DEF DebitAdjustment, Input
  <2> QED BY <1>1, <1>5, <2>2 DEF SidesFit, Someone, DebitFlows, CreditFlows
<1>6. CASE r.flow = "cardCreditAdjustment"
  <2>1. sides \in CardCreditAdjustment(r) BY <1>6 DEF Processor
  <2>2. r.credit \in Consumers /\ sides = [debit |-> Nobody, credit |-> r.credit]
    BY <2>1 DEF CardCreditAdjustment, Input
  <2> QED BY <1>1, <1>6, <2>2 DEF SidesFit, Someone, DebitFlows, CreditFlows
<1>7. CASE r.flow = "creditAdjustment"
  <2>1. sides \in CreditAdjustment(r) BY <1>7 DEF Processor
  <2>2. r.credit \in Consumers /\ sides = [debit |-> Nobody, credit |-> r.credit]
    BY <2>1 DEF CreditAdjustment, Input
  <2> QED BY <1>1, <1>7, <2>2 DEF SidesFit, Someone, DebitFlows, CreditFlows
<1>8. CASE r.flow = "payrollDeposit"
  <2>1. sides \in PayrollDeposit(r) BY <1>8 DEF Processor
  <2>2. r.by \in Consumers /\ sides = [debit |-> Nobody, credit |-> r.by]
    BY <2>1 DEF PayrollDeposit, Input
  <2> QED BY <1>1, <1>8, <2>2 DEF SidesFit, Someone, DebitFlows, CreditFlows
<1>9. CASE r.flow = "cardReversal"
  BY <1>9 DEF Processor, CardReversal, Input
<1> QED BY <1>2, <1>3, <1>4, <1>5, <1>6, <1>7, <1>8, <1>9

LEMMA ProcessKeeps ==
    ASSUME SidesInv, Note, NEW c \in Askers, ProcessTransaction(c)
    PROVE  SidesInv'
<1> DEFINE r == original[c]
<1>1. at[c] = "process" BY DEF ProcessTransaction
<1>2. r.door # "user" /\ asked[c] = r /\ r \in WantedType /\ saved[c] = NoRow
  BY <1>1, UnderWay DEF AskOK
<1>3. CASE Refuse(c) BY <1>1, <1>3, RefuseKeeps
<1>4. ASSUME Processable(asked[c]), NEW sides \in Processor(asked[c]),
             found' = [found EXCEPT ![c] = sides],
             Proceed(c, "save"), UNCHANGED <<asked, saved, original>>
      PROVE  SidesInv'
  <2>1. /\ sides \in [debit : Someone, credit : Someone]
        /\ SidesFit(r.flow, sides.debit, sides.credit)
    BY <1>2, <1>4, ProcessorFits
  <2>2. /\ at' = [at EXCEPT ![c] = "save"] /\ asked' = [asked EXCEPT ![c] = asked[c]]
        /\ original' = [original EXCEPT ![c] = original[c]]
        /\ found' = [found EXCEPT ![c] = sides] /\ saved' = [saved EXCEPT ![c] = saved[c]]
        /\ saved[c] \in Row \cup {NoRow}
    BY <1>1, <1>2, <1>4, UnderWay DEF Proceed
  <2>3. /\ at'[c] = "save" /\ asked'[c] = r /\ original'[c] = r /\ found'[c] = sides
        /\ saved'[c] = NoRow
    BY <1>1, <1>2, <2>2, UnderWay
  <2>4. AskOK(c)' BY <1>2, <2>1, <2>3 DEF AskOK
  <2> QED BY <1>2, <2>1, <2>2, <2>4, OneAsks DEF RequestSteps
<1> QED BY <1>3, <1>4 DEF ProcessTransaction

LEMMA CreateKeeps ==
    ASSUME SidesInv, Note, NEW c \in Askers, CreateTransaction(c)
    PROVE  SidesInv'
<1> DEFINE r == asked[c]
           row == [flow |-> r.flow, debit |-> found[c].debit, credit |-> found[c].credit]
<1>1. at[c] = "save" BY DEF CreateTransaction
<1>2. /\ r \in WantedType /\ original[c] \in WantedType
      /\ SidesFit(r.flow, found[c].debit, found[c].credit)
      /\ original[c].door = "user" =>
            found[c].debit = original[c].by /\ Meant(c, found[c].credit)
  BY <1>1, UnderWay DEF AskOK
<1>3. CASE Refuse(c) BY <1>1, <1>3, RefuseKeeps
<1>4. CASE /\ ValidInput(r) /\ row.debit # row.credit
           /\ saved' = [saved EXCEPT ![c] = row]
           /\ Proceed(c, "saved") /\ Rewrite(c, NotAsked) /\ UNCHANGED <<found, original>>
  <2>1. /\ row \in Row /\ row.flow = r.flow /\ row.debit = found[c].debit
        /\ row.credit = found[c].credit /\ row.debit # row.credit
    BY <1>1, <1>2, <1>4, UnderWay DEF Row, WantedType
  <2>2. /\ at' = [at EXCEPT ![c] = "saved"] /\ asked' = [asked EXCEPT ![c] = NotAsked]
        /\ original' = [original EXCEPT ![c] = original[c]]
        /\ found' = [found EXCEPT ![c] = found[c]] /\ saved' = [saved EXCEPT ![c] = row]
        /\ found[c] \in [debit : Someone, credit : Someone]
    BY <1>1, <1>4, UnderWay DEF Proceed, Rewrite
  <2> HIDE DEF row
  <2>3. /\ at'[c] = "saved" /\ original'[c] = original[c] /\ saved'[c] = row
    BY <1>1, <2>2, UnderWay
  <2>4. original[c].door = "user" => Meant(c, saved[c].credit)'
    <3>1. named[c] \subseteq named'[c] BY NoteKeeps DEF SidesInv
    <3> QED BY <1>2, <2>1, <2>3, <3>1 DEF Meant
  <2>5. AskOK(c)' BY <1>2, <2>1, <2>3, <2>4 DEF AskOK
  <2> QED BY <1>2, <2>1, <2>2, <2>5, OneAsks DEF RequestSteps
<1> QED BY <1>3, <1>4 DEF CreateTransaction

LEMMA SidesInvariant == SidesSpec => []SidesInv
<1>1. SidesInv /\ [SidesNext]_sideVars => SidesInv'
  <2> SUFFICES ASSUME SidesInv, [SidesNext]_sideVars PROVE SidesInv'
    OBVIOUS
  <2>1. CASE UNCHANGED sideVars
    BY <2>1 DEF sideVars, requestVars, consumerVars, SidesInv, SidesTypeOK, AskOK, Meant
  <2>2. CASE /\ \E c \in Askers : Ask(c) \/ SideStep(c)
             /\ UNCHANGED consumerVars /\ Note
    BY <2>2, AskKeeps, PreprocessKeeps, FindCreditKeeps, FindDebitKeeps, ProcessKeeps, CreateKeeps
       DEF SideStep
  <2>3. CASE UNCHANGED requestVars /\ Note
    BY <2>3, LeftAlone, NoteKeeps DEF requestVars, SidesInv, SidesTypeOK
  <2> QED BY <2>1, <2>2, <2>3 DEF SidesNext
<1> QED BY <1>1, SidesInitOK, PTL DEF SidesSpec

\* Whoever asks for what at whichever door: a saved row has a consumer on each side
\* its workflow moves money on and on no other.
THEOREM SidesFitTheFlow == SidesSpec => []SidesMatchTheFlow
<1>1. SidesInv => SidesMatchTheFlow
  BY DEF SidesInv, AskOK, SidesFit, SidesMatchTheFlow
<1> QED BY <1>1, SidesInvariant, PTL

\* The money is the user's own and goes to one who had the name it was sent to,
\* however tags change hands and consumers are locked meanwhile.
THEOREM MoneyGoesWhereMeant == SidesSpec => []OnlyAsMeant
<1>1. SidesInv => OnlyAsMeant
  BY DEF SidesInv, AskOK, Meant, OnlyAsMeant
<1> QED BY <1>1, SidesInvariant, PTL
==============================================================================
