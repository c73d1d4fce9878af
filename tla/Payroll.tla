------------------------------- MODULE Payroll ------------------------------
(***************************************************************************)
(* EmployerService and what calls it: Bubble creates payrolls, the payroll *)
(* workflow and the admins update them, Mono's account_credited webhook    *)
(* marks them FUNDED, and the workflow pays the disbursements.  Every call *)
(* runs one step per awaited query, so a status may change between the     *)
(* step that reads it and the one that writes it.                          *)
(***************************************************************************)
EXTENDS Naturals, FiniteSets, Functions, Circumstances

CONSTANTS
    Payrolls, Employees, Employers,
    EmployerOf,     \* [Payrolls -> Employers]
    Documents, DocumentOf,  \* document numbers of payers; [Employers -> Documents]
    Names, NameOf,          \* names of payers; [Employers -> Names]
    Payments,       \* IDs of Mono transactions
    Allocations,    \* [Employees -> set of allocation amounts in COP]
    Txs,            \* IDs of PAYROLL_DEPOSIT transactions
    Nothing,        \* null in any column or field
    Calls, Requests, NoRequest,
    MaxRuns         \* bound: workflow runs started for each payroll

PayrollStatus == {"CREATED", "PREPARED", "INVOICED", "INVESTIGATION", "FUNDED",
                  "IN_PROGRESS", "RECEIPT", "COMPLETED", "EXPIRED"}

VARIABLES
    status,         \* of each Payroll row; "none" before it exists
    total,          \* totalDebitAmount, 0 when null
    priced,         \* whether the exchange rate has been set
    payment,        \* paymentMonoTransactionID
    allocation,     \* allocationAmount of each disbursement; 0: no such row
    depositFor,     \* the disbursement each transaction pays
    transactionOf,  \* transactionID of each disbursement
    runs,           \* workflow runs started for each payroll
    visited,        \* every status a payroll has had (history)
    call            \* each call slot: where it is, what it was asked and has read

rowVars == <<status, total, priced, payment, visited>>
disbursementVars == <<allocation, depositFor, transactionOf>>
vars == <<rowVars, disbursementVars, runs, call, world>>

Disbursements == Payrolls \X Employees

\* What callers may ask; "credited" is what Mono says of money received.
UpdateRequest == [kind : {"update"}, payroll : Payrolls, status : PayrollStatus,
                  payment : Payments \cup {Nothing}]
CreditedRequest == [kind : {"credited"}, amount : Nat, document : Documents, name : Names,
                    payment : Payments]
OtherRequest == [kind : {"create", "retry"}, payroll : Payrolls]

ASSUME PayrollAssumption ==
    /\ EmployerOf \in [Payrolls -> Employers]
    /\ DocumentOf \in [Employers -> Documents] /\ NameOf \in [Employers -> Names]
    /\ Allocations \in [Employees -> SUBSET (Nat \ {0})]
    /\ Nothing \notin Payrolls \cup Disbursements \cup Txs \cup Payments
    /\ Requests \subseteq UpdateRequest \cup CreditedRequest \cup OtherRequest
    /\ NoRequest \notin Requests
    /\ MaxRuns \in [Payrolls -> Nat]

\* Mono gives every payment its own ID, and nobody else writes that ID in a payroll.
PaymentContract ==
    \A r, s \in Requests :
        /\ r.kind = "credited" /\ s.kind \in {"credited", "update"}
        /\ r.payment = s.payment
        => r = s

Steps == {"idle", "insert", "start", "read", "total", "write", "document", "name", "retry"}
CallType == [pc : Steps, req : Requests \cup {NoRequest}, target : Payrolls \cup {Nothing},
             seen : PayrollStatus \cup {"none"}, sum : Nat, matches : SUBSET Payrolls]

TypeOK ==
    /\ status \in [Payrolls -> PayrollStatus \cup {"none"}]
    /\ total \in [Payrolls -> Nat]
    /\ priced \in [Payrolls -> BOOLEAN]
    /\ payment \in [Payrolls -> Payments \cup {Nothing}]
    /\ allocation \in [Disbursements -> Nat]
    /\ depositFor \in [Txs -> Disbursements \cup {Nothing}]
    /\ transactionOf \in [Disbursements -> Txs \cup {Nothing}]
    /\ runs \in [Payrolls -> Nat] /\ \A p \in Payrolls : runs[p] <= MaxRuns[p]
    /\ visited \in [Payrolls -> SUBSET PayrollStatus]
    /\ call \in [Calls -> CallType]

Idle == [pc |-> "idle", req |-> NoRequest, target |-> Nothing, seen |-> "none", sum |-> 0,
         matches |-> {}]

Init ==
    /\ status = [p \in Payrolls |-> "none"]
    /\ total = [p \in Payrolls |-> 0]
    /\ priced = [p \in Payrolls |-> FALSE]
    /\ payment = [p \in Payrolls |-> Nothing]
    /\ visited = [p \in Payrolls |-> {}]
    /\ allocation = [d \in Disbursements |-> 0]
    /\ depositFor = [t \in Txs |-> Nothing]
    /\ transactionOf = [d \in Disbursements |-> Nothing]
    /\ runs = [p \in Payrolls |-> 0]
    /\ call = [c \in Calls |-> Idle]
    /\ world \in Worlds

Running(c) == call[c].pc # "idle"
Goto(c, step) == call' = [call EXCEPT ![c].pc = step]
Finish(c) == call' = [call EXCEPT ![c] = Idle]
Exists(p) == status[p] # "none"

\* The row's status is written; the history keeps it.
SetStatus(p, s) ==
    /\ status' = [status EXCEPT ![p] = s]
    /\ visited' = [visited EXCEPT ![p] = @ \cup {s}]

-----------------------------------------------------------------------------
(* Payroll.ts *)

\* Variant: IN_PROGRESS before the money is there.
TransitionAllowedUnfunded(old, new) ==
    \/ old = new
    \/ new \in {"PREPARED", "EXPIRED"} /\ old = "CREATED"
    \/ new = "INVOICED" /\ old = "PREPARED"
    \/ new = "IN_PROGRESS" /\ old \in {"INVOICED", "FUNDED"}

isStatusTransitionAllowed(old, new) ==
    \/ old = new
    \/ new = "PREPARED" /\ old = "CREATED"
    \/ new = "INVOICED" /\ old = "PREPARED"
    \/ new = "INVESTIGATION" /\ old \in {"INVOICED", "FUNDED"}
    \/ new = "FUNDED" /\ old \notin {"IN_PROGRESS", "RECEIPT", "COMPLETED"}
    \/ new = "IN_PROGRESS" /\ old = "FUNDED"
    \/ new = "RECEIPT" /\ old = "IN_PROGRESS"
    \/ new = "COMPLETED" /\ old = "RECEIPT"
    \/ new = "EXPIRED" /\ old \in {"CREATED", "INVOICED", "INVESTIGATION"}

-----------------------------------------------------------------------------
(* A call begins *)

FirstStep(kind) ==
    CASE kind = "create" -> "insert"
      [] kind = "retry" -> "retry"
      [] kind = "update" -> "read"
      [] kind = "credited" -> "document"

Begin(c, r) ==
    /\ ~Running(c)
    /\ Serial => \A d \in Calls : ~Running(d)
    /\ call' = [call EXCEPT ![c] = [Idle EXCEPT
                    !.pc = FirstStep(r.kind), !.req = r,
                    !.target = IF r.kind = "credited" THEN Nothing ELSE r.payroll]]
    /\ UNCHANGED <<rowVars, disbursementVars, runs>>

-----------------------------------------------------------------------------
(* createPayroll and retryPayroll *)

\* A payroll ID is used once.
InsertPayroll(c) ==
    LET p == call[c].target IN
    /\ call[c].pc = "insert"
    /\ ~Exists(p)
    /\ SetStatus(p, "CREATED")
    /\ Goto(c, "start")
    /\ UNCHANGED <<total, priced, payment, disbursementVars, runs>>

\* The TODO of retryPayroll: nothing checks that an earlier run has ended.
RetryPayroll(c) ==
    /\ call[c].pc = "retry"
    /\ IF status[call[c].target] \in {"CREATED", "FUNDED", "INVOICED", "RECEIPT"}
       THEN Goto(c, "start") ELSE Finish(c)
    /\ UNCHANGED <<rowVars, disbursementVars, runs>>

\* Temporal starts a run; it may have done so although the caller gets an error.
StartWorkflow(c) ==
    LET p == call[c].target IN
    /\ call[c].pc = "start"
    /\ \/ runs[p] < MaxRuns[p] /\ runs' = [runs EXCEPT ![p] = @ + 1]
       \/ UNCHANGED runs
    /\ Finish(c)
    /\ UNCHANGED <<rowVars, disbursementVars>>

-----------------------------------------------------------------------------
(* updatePayroll *)

NewStatus(c) == IF call[c].req.kind = "credited" THEN "FUNDED" ELSE call[c].req.status

\* A transition that is not allowed ends the call without an error.
ReadPayroll(c) ==
    LET old == status[call[c].target]
        new == NewStatus(c)
    IN  /\ call[c].pc = "read"
        /\ IF Exists(call[c].target) /\ isStatusTransitionAllowed(old, new)
           THEN call' = [call EXCEPT ![c].seen = old,
                            ![c].pc = IF new = "PREPARED" /\ old # new THEN "total" ELSE "write"]
           ELSE Finish(c)
        /\ UNCHANGED <<rowVars, disbursementVars, runs>>

Disbursed(p) == {e \in Employees : allocation[<<p, e>>] # 0}
DisbursedSum(p) == SumFunction([e \in Disbursed(p) |-> allocation[<<p, e>>]])

\* The total of the disbursements there are now; a failing query finds none.
SumDisbursements(c) ==
    /\ call[c].pc = "total"
    /\ \E found \in {DisbursedSum(call[c].target), 0} :
        call' = [call EXCEPT ![c].sum = found, ![c].pc = "write"]
    /\ UNCHANGED <<rowVars, disbursementVars, runs>>

\* The row is written whatever its status is by now; a zero total is not.
WritePayroll(c) ==
    LET p == call[c].target
        prepares == NewStatus(c) = "PREPARED" /\ call[c].seen # "PREPARED"
    IN  /\ call[c].pc = "write"
        /\ SetStatus(p, NewStatus(c))
        /\ payment' = IF call[c].req.payment = Nothing THEN payment
                      ELSE [payment EXCEPT ![p] = call[c].req.payment]
        /\ total' = IF prepares /\ call[c].sum # 0
                    THEN [total EXCEPT ![p] = call[c].sum] ELSE total
        /\ priced' = IF prepares THEN [priced EXCEPT ![p] = TRUE] ELSE priced
        /\ Finish(c)
        /\ UNCHANGED <<disbursementVars, runs>>

-----------------------------------------------------------------------------
(* account_credited: the payroll an employer has paid *)

\* Variants: the filter on the amount, or on the status, left out.
InvoicedForAnyAmount(r) == {p \in Payrolls : status[p] = "INVOICED"}
AnyStatusFor(r) == {p \in Payrolls : total[p] = r.amount}

InvoicedFor(r) == {p \in Payrolls : status[p] = "INVOICED" /\ total[p] = r.amount}
ByDocument(r) == {p \in InvoicedFor(r) : DocumentOf[EmployerOf[p]] = r.document}
ByName(r) == {p \in InvoicedFor(r) : NameOf[EmployerOf[p]] = r.name}

\* A payroll is chosen if it is the only match.
Only(found) == Cardinality(found) = 1
Choose(c, found) ==
    call' = [call EXCEPT ![c].target = CHOOSE p \in found : TRUE, ![c].pc = "read"]

\* A failing query finds nothing.
MatchByDocument(c) ==
    /\ call[c].pc = "document"
    /\ \E found \in {ByDocument(call[c].req), {}} :
        IF Only(found)
        THEN Choose(c, found)
        ELSE call' = [call EXCEPT ![c].matches = found, ![c].pc = "name"]
    /\ UNCHANGED <<rowVars, disbursementVars, runs>>

MatchByName(c) ==
    /\ call[c].pc = "name"
    /\ \E found \in {ByName(call[c].req), {}} :
        LET both == call[c].matches \cap found
        IN  CASE Only(found) -> Choose(c, found)
              [] ~Only(found) /\ Only(both) -> Choose(c, both)
              [] ~Only(found) /\ ~Only(both) -> Finish(c)
    /\ UNCHANGED <<rowVars, disbursementVars, runs>>

-----------------------------------------------------------------------------
(* Disbursements and the transactions that pay them *)

disbursementOnly == <<rowVars, runs, call>>

\* One disbursement for an employee of a payroll, whatever the payroll's status.
CreateDisbursement(p, e) ==
    /\ Exists(p) /\ allocation[<<p, e>>] = 0
    /\ \E a \in Allocations[e] : allocation' = [allocation EXCEPT ![<<p, e>>] = a]
    /\ UNCHANGED <<disbursementOnly, depositFor, transactionOf>>

\* A PAYROLL_DEPOSIT transaction; it needs the payroll's exchange rate.
InitiateDeposit(t, d) ==
    /\ depositFor[t] = Nothing
    /\ allocation[d] # 0 /\ priced[d[1]]
    /\ depositFor' = [depositFor EXCEPT ![t] = d]
    /\ UNCHANGED <<disbursementOnly, allocation, transactionOf>>

\* The transaction exists, and no other disbursement carries its ID.
UpdateDisbursement(d, t) ==
    /\ allocation[d] # 0 /\ depositFor[t] # Nothing
    /\ \A other \in Disbursements \ {d} : transactionOf[other] # t
    /\ transactionOf' = [transactionOf EXCEPT ![d] = t]
    /\ UNCHANGED <<disbursementOnly, allocation, depositFor>>

-----------------------------------------------------------------------------
\* A query throws, or the server restarts: the call is over, its writes stay.
CallFails(c) ==
    /\ Running(c)
    /\ Finish(c)
    /\ UNCHANGED <<rowVars, disbursementVars, runs>>

CallStep(c) ==
    \/ InsertPayroll(c) \/ StartWorkflow(c) \/ RetryPayroll(c)
    \/ ReadPayroll(c) \/ SumDisbursements(c) \/ WritePayroll(c)
    \/ MatchByDocument(c) \/ MatchByName(c)

DisbursementStep ==
    \/ \E p \in Payrolls, e \in Employees : CreateDisbursement(p, e)
    \/ \E d \in Disbursements, t \in Txs : InitiateDeposit(t, d) \/ UpdateDisbursement(d, t)

Next ==
    /\ \/ \E c \in Calls : (\E r \in Requests : Begin(c, r)) \/ CallStep(c) \/ CallFails(c)
       \/ DisbursementStep
    /\ UNCHANGED world

Spec == Init /\ [][Next]_vars

-----------------------------------------------------------------------------
(* Properties *)

\* Whatever calls interleave, no payroll is paid out that was never funded, nor
\* completed that was never paid out, nor invoiced that was never prepared.
NothingSkipped ==
    \A p \in Payrolls :
        /\ "INVOICED" \in visited[p] => "PREPARED" \in visited[p]
        /\ "IN_PROGRESS" \in visited[p] => "FUNDED" \in visited[p]
        /\ "RECEIPT" \in visited[p] => "IN_PROGRESS" \in visited[p]
        /\ "COMPLETED" \in visited[p] => "RECEIPT" \in visited[p]

\* A payment from Mono is put down to a payroll of the employer who made it, and
\* one that was invoiced, however the webhook's queries and updates interleave.
Credit(r, p) == r.kind = "credited" /\ payment[p] = r.payment

PaymentIsTheEmployers ==
    \A r \in Requests, p \in Payrolls : Credit(r, p) =>
        /\ DocumentOf[EmployerOf[p]] = r.document \/ NameOf[EmployerOf[p]] = r.name
        /\ "INVOICED" \in visited[p]

\* Calls one after the other put a payment down to a payroll that comes to it, then
\* and as long as the payment stands there: nothing recomputes the total of a payroll
\* that was paid.
PaymentIsTheTotalInTurn ==
    Serial => \A r \in Requests, p \in Payrolls : Credit(r, p) => total[p] = r.amount

\* No employee is paid out of a payroll without an exchange rate.
DepositsArePriced ==
    \A t \in Txs : depositFor[t] # Nothing =>
        LET p == depositFor[t][1] IN priced[p] /\ "PREPARED" \in visited[p]

\* Calls one after the other implement the lifecycle: updatePayroll, with all its
\* steps and whatever fails, is one move along an edge, or nothing.  The edges are the
\* code's; where a comment speaks of others, see ExpiredIsNotFunded.
Lifecycle == INSTANCE PayrollLifecycle WITH
    status <- IF Serial THEN status ELSE [p \in Payrolls |-> "none"]
ImplementsLifecycle == Lifecycle!Spec

-----------------------------------------------------------------------------
(* What the comments say and the code does not keep *)

\* "As funded is from a webhook event, we will only disallow status updates from
\* IN_PROGRESS, COMPLETED and EXPIRED": updatePayroll, having found that the payroll the
\* webhook chose has expired since, does not go on to write FUNDED.
ExpiredIsNotFunded ==
    \A c \in Calls : call[c].pc = "write" /\ NewStatus(c) = "FUNDED" => call[c].seen # "EXPIRED"
=============================================================================
