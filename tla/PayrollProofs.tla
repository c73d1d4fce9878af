---------------------------- MODULE PayrollProofs ---------------------------
(***************************************************************************)
(* Theorems about Payroll, for any payrolls, employers and requests, and   *)
(* any interleaving of the calls.                                          *)
(***************************************************************************)
EXTENDS PayrollDocuments, FiniteSetTheorems, TLAPS

\* Whatever SumFunction makes of some allocations; that it is a number is the one fact
\* of the model that only TLC checks.
Amounts == UNION {[S -> Nat] : S \in SUBSET Employees}
Sums == {0} \cup {SumFunction(f) : f \in Amounts}

CallShape == [pc : Steps, req : Requests \cup {NoRequest}, target : Payrolls \cup {Nothing},
              seen : PayrollStatus \cup {"none"}, sum : Sums, matches : SUBSET Payrolls]

Typed ==
    /\ status \in [Payrolls -> PayrollStatus \cup {"none"}]
    /\ total \in [Payrolls -> Sums] /\ priced \in [Payrolls -> BOOLEAN]
    /\ payment \in [Payrolls -> Payments \cup {Nothing}]
    /\ allocation \in [Disbursements -> Nat]
    /\ depositFor \in [Txs -> Disbursements \cup {Nothing}]
    /\ visited \in [Payrolls -> SUBSET PayrollStatus]
    /\ call \in [Calls -> CallShape]

\* The payer of request r is payroll p's employer, and p was invoiced.
Fits(r, p) ==
    /\ DocumentOf[EmployerOf[p]] = r.document \/ NameOf[EmployerOf[p]] = r.name
    /\ "INVOICED" \in visited[p]

\* A call past its read has read a status the payroll really had and from which
\* its own is allowed; a webhook has found a payroll its payment fits.
CallOK(c) ==
    LET k == call[c] IN
    /\ k.pc # "idle" => k.req \in Requests
    /\ k.pc \in {"insert", "start", "retry", "read", "total", "write"} => k.target \in Payrolls
    /\ k.pc \in {"document", "name"} => k.req.kind = "credited"
    /\ k.pc \in {"read", "total", "write"} => k.req.kind \in {"update", "credited"}
    /\ k.pc \in {"total", "write"} =>
        /\ k.seen \in visited[k.target]
        /\ isStatusTransitionAllowed(k.seen, NewStatus(c))
    /\ k.pc \in {"read", "total", "write"} /\ k.req.kind = "credited" => Fits(k.req, k.target)

CallsOK == \A c \in Calls : CallOK(c)

\* The history holds the status a payroll has, and every priced payroll was PREPARED.
HistoryOK ==
    \A p \in Payrolls :
        /\ status[p] # "none" => status[p] \in visited[p]
        /\ priced[p] => "PREPARED" \in visited[p]

IInv == Typed /\ CallsOK /\ HistoryOK

\* What a request is made of.
LEMMA RequestTyped ==
    ASSUME NEW r \in Requests
    PROVE  /\ r.kind \in {"create", "retry", "update", "credited"}
           /\ r.kind # "credited" => r.payroll \in Payrolls
           /\ r.kind = "update" => r.status \in PayrollStatus
           /\ r.kind \in {"update", "credited"} => r.payment \in Payments \cup {Nothing}
BY PayrollAssumption DEF UpdateRequest, CreditedRequest, OtherRequest

LEMMA SumsOfDisbursed ==
    ASSUME Typed, NEW p \in Payrolls
    PROVE  DisbursedSum(p) \in Sums
<1>1. Disbursed(p) \in SUBSET Employees
  BY DEF Disbursed
<1>2. [e \in Disbursed(p) |-> allocation[<<p, e>>]] \in [Disbursed(p) -> Nat]
  BY <1>1 DEF Typed, Disbursements
<1> QED BY <1>1, <1>2 DEF Sums, Amounts, DisbursedSum

LEMMA InitOK == Init => IInv
<1> SUFFICES ASSUME Init PROVE IInv
  OBVIOUS
<1>1. Idle \in CallShape
  BY DEF Idle, CallShape, Steps, Sums
<1>2. Typed
  BY <1>1 DEF Init, Typed, Sums
<1>3. CallsOK /\ HistoryOK
  BY DEF Init, CallsOK, CallOK, HistoryOK, Idle
<1> QED BY <1>2, <1>3 DEF IInv

\* A call slot written with something of the right shape.
LEMMA CallTyped ==
    ASSUME Typed, NEW c \in Calls, NEW k \in CallShape, call' = [call EXCEPT ![c] = k]
    PROVE  call' \in [Calls -> CallShape] /\ call'[c] = k /\ \A d \in Calls \ {c} : call'[d] = call[d]
BY DEF Typed

\* The other calls are left as they are, and no history is ever forgotten.
LEMMA OthersOK ==
    ASSUME CallsOK, NEW c \in Calls, CallOK(c)',
           \A d \in Calls \ {c} : call'[d] = call[d],
           \A p \in Payrolls : visited[p] \subseteq visited'[p]
    PROVE  CallsOK'
<1> SUFFICES ASSUME NEW d \in Calls \ {c} PROVE CallOK(d)'
  BY DEF CallsOK
<1>1. CallOK(d) /\ call'[d] = call[d]
  BY DEF CallsOK
<1> QED BY <1>1 DEF CallOK, Fits, NewStatus

\* A step that changes one call and no row.
LEMMA CallStepOK ==
    ASSUME IInv, NEW c \in Calls, NEW k \in CallShape, call' = [call EXCEPT ![c] = k],
           UNCHANGED <<rowVars, disbursementVars>>, CallOK(c)'
    PROVE  IInv'
<1>1. Typed /\ CallsOK /\ HistoryOK /\ visited' = visited
  BY DEF IInv, rowVars
<1>2. call' \in [Calls -> CallShape] /\ \A d \in Calls \ {c} : call'[d] = call[d]
  BY <1>1, CallTyped
<1>3. Typed'
  BY <1>1, <1>2 DEF Typed, rowVars, disbursementVars
<1>4. CallsOK'
  BY <1>1, <1>2, OthersOK
<1> QED BY <1>1, <1>3, <1>4 DEF IInv, HistoryOK, rowVars

LEMMA EndOK ==
    ASSUME IInv, NEW c \in Calls, Finish(c), UNCHANGED <<rowVars, disbursementVars>>
    PROVE  IInv'
<1>1. Idle \in CallShape
  BY DEF Idle, CallShape, Steps, Sums
<1>2. call' = [call EXCEPT ![c] = Idle] /\ call'[c] = Idle
  BY DEF Finish, IInv, Typed
<1>3. CallOK(c)'
  BY <1>2 DEF CallOK, Idle
<1> QED BY <1>1, <1>2, <1>3, CallStepOK

LEMMA BeginOK ==
    ASSUME IInv, NEW c \in Calls, NEW r \in Requests, Begin(c, r)
    PROVE  IInv'
<1> DEFINE k == [Idle EXCEPT !.pc = FirstStep(r.kind), !.req = r,
                             !.target = IF r.kind = "credited" THEN Nothing ELSE r.payroll]
<1>1. /\ FirstStep(r.kind) \in {"insert", "start", "retry", "read", "document"}
      /\ FirstStep(r.kind) = "document" <=> r.kind = "credited"
      /\ FirstStep(r.kind) = "read" => r.kind = "update"
  BY RequestTyped DEF FirstStep
<1>2. /\ k.pc = FirstStep(r.kind) /\ k.req = r /\ k.seen = "none" /\ k.sum = 0 /\ k.matches = {}
      /\ k.target = IF r.kind = "credited" THEN Nothing ELSE r.payroll
  BY DEF Idle
<1>3. k.target \in Payrolls \cup {Nothing}
  BY <1>2, RequestTyped
<1>4. k \in CallShape
  <2>1. ASSUME NEW i \in CallShape, NEW s \in Steps, NEW q \in Requests,
               NEW t \in Payrolls \cup {Nothing}
        PROVE  [i EXCEPT !.pc = s, !.req = q, !.target = t] \in CallShape
    BY DEF CallShape
  <2>2. Idle \in CallShape
    BY DEF Idle, CallShape, Steps, Sums
  <2>3. FirstStep(r.kind) \in Steps
    BY <1>1 DEF Steps
  <2>4. (IF r.kind = "credited" THEN Nothing ELSE r.payroll) \in Payrolls \cup {Nothing}
    BY <1>2, <1>3
  <2> QED BY <2>1, <2>2, <2>3, <2>4
<1>5. call' = [call EXCEPT ![c] = k] /\ call'[c] = k
  BY DEF Begin, IInv, Typed
<1>6. CallOK(c)'
  <2>1. k.pc # "document" => k.target \in Payrolls
    BY <1>1, <1>2, RequestTyped
  <2> HIDE DEF k
  <2> QED BY <1>1, <1>2, <1>5, <2>1 DEF CallOK
<1> HIDE DEF k
<1> QED BY <1>4, <1>5, <1>6, CallStepOK DEF Begin

\* createPayroll and retryPayroll.
LEMMA CreateOK ==
    ASSUME IInv, NEW c \in Calls, InsertPayroll(c)
    PROVE  IInv'
<1>1. Typed /\ CallsOK /\ HistoryOK /\ CallOK(c) /\ call[c] \in CallShape
  BY DEF IInv, Typed, CallsOK
<1> DEFINE p == call[c].target
           k == [call[c] EXCEPT !.pc = "start"]
<1>2. p \in Payrolls
  BY <1>1 DEF InsertPayroll, CallOK
<1>3. k \in CallShape /\ k.pc = "start" /\ k.target = p /\ k.req = call[c].req
  BY <1>1 DEF CallShape, Steps
<1>4. call' = [call EXCEPT ![c] = k]
  BY DEF InsertPayroll, Goto
<1>5. /\ status' \in [Payrolls -> PayrollStatus \cup {"none"}]
      /\ visited' \in [Payrolls -> SUBSET PayrollStatus]
      /\ \A q \in Payrolls : visited[q] \subseteq visited'[q]
      /\ status'[p] = "CREATED" /\ "CREATED" \in visited'[p]
      /\ \A q \in Payrolls \ {p} : status'[q] = status[q]
  BY <1>1, <1>2 DEF InsertPayroll, SetStatus, Typed, PayrollStatus
<1>6. call' \in [Calls -> CallShape] /\ call'[c] = k /\ \A d \in Calls \ {c} : call'[d] = call[d]
  <2> HIDE DEF k
  <2> QED BY <1>1, <1>3, <1>4, CallTyped
<1>7. Typed'
  BY <1>1, <1>5, <1>6 DEF Typed, InsertPayroll, disbursementVars
<1>8. CallOK(c)'
  <2> HIDE DEF k, p
  <2> QED BY <1>1, <1>2, <1>3, <1>6 DEF CallOK, InsertPayroll
<1>9. CallsOK'
  BY <1>1, <1>5, <1>6, <1>8, OthersOK
<1>10. HistoryOK'
  BY <1>1, <1>5 DEF HistoryOK, InsertPayroll
<1> QED BY <1>7, <1>9, <1>10 DEF IInv

LEMMA WorkflowOK ==
    ASSUME IInv, NEW c \in Calls, StartWorkflow(c) \/ RetryPayroll(c)
    PROVE  IInv'
<1>1. CASE Finish(c)
  BY <1>1, EndOK DEF StartWorkflow, RetryPayroll
<1>2. CASE RetryPayroll(c) /\ Goto(c, "start")
  <2> DEFINE k == [call[c] EXCEPT !.pc = "start"]
  <2>1. CallOK(c) /\ call[c] \in CallShape
    BY DEF IInv, Typed, CallsOK
  <2>2. k \in CallShape /\ k.pc = "start" /\ k.target = call[c].target /\ k.req = call[c].req
    BY <2>1 DEF CallShape, Steps
  <2>3. call' = [call EXCEPT ![c] = k] /\ call'[c] = k
    BY <1>2 DEF Goto, IInv, Typed
  <2> HIDE DEF k
  <2>4. CallOK(c)'
    BY <1>2, <2>1, <2>2, <2>3 DEF CallOK, RetryPayroll
  <2> QED BY <1>2, <2>2, <2>3, <2>4, CallStepOK DEF RetryPayroll
<1> QED BY <1>1, <1>2 DEF StartWorkflow, RetryPayroll

\* updatePayroll.
LEMMA ReadOK ==
    ASSUME IInv, NEW c \in Calls, ReadPayroll(c)
    PROVE  IInv'
<1>1. CASE Finish(c)
  BY <1>1, EndOK DEF ReadPayroll
<1>2. CASE ~Finish(c)
  <2>1. Typed /\ HistoryOK /\ CallOK(c) /\ call[c] \in CallShape /\ call[c].pc = "read"
    BY DEF IInv, Typed, CallsOK, ReadPayroll
  <2> DEFINE old == status[call[c].target]
  <2>2. call[c].target \in Payrolls /\ Exists(call[c].target)
        /\ isStatusTransitionAllowed(old, NewStatus(c))
    BY <1>2, <2>1 DEF ReadPayroll, CallOK
  <2>3. old \in PayrollStatus \cup {"none"} /\ old \in visited[call[c].target]
    BY <2>1, <2>2 DEF Typed, HistoryOK, Exists
  <2>4. PICK step \in {"total", "write"} :
            call' = [call EXCEPT ![c].seen = old, ![c].pc = step]
    BY <1>2, <2>2 DEF ReadPayroll
  <2> DEFINE k == [call[c] EXCEPT !.seen = old, !.pc = step]
  <2>5. k \in CallShape
    BY <2>1, <2>3 DEF CallShape, Steps
  <2>6. /\ k.pc = step /\ k.seen = old /\ k.target = call[c].target /\ k.req = call[c].req
    BY <2>1 DEF CallShape
  <2>7. call' = [call EXCEPT ![c] = k] /\ call'[c] = k
    BY <2>1, <2>4 DEF Typed
  <2> HIDE DEF k, old
  <2>8. NewStatus(c)' = NewStatus(c) /\ visited' = visited
    BY <2>6, <2>7 DEF NewStatus, ReadPayroll, rowVars
  <2>9. CallOK(c)'
    BY <2>1, <2>2, <2>3, <2>6, <2>7, <2>8 DEF CallOK, Fits
  <2> QED BY <2>5, <2>7, <2>9, CallStepOK DEF ReadPayroll
<1> QED BY <1>1, <1>2

LEMMA TotalOK ==
    ASSUME IInv, NEW c \in Calls, SumDisbursements(c)
    PROVE  IInv'
<1>1. Typed /\ CallOK(c) /\ call[c] \in CallShape /\ call[c].pc = "total"
  BY DEF IInv, Typed, CallsOK, SumDisbursements
<1>2. PICK found \in Sums : call' = [call EXCEPT ![c].sum = found, ![c].pc = "write"]
  <2>1. call[c].target \in Payrolls /\ allocation \in [Disbursements -> Nat]
    BY <1>1 DEF CallOK, Typed
  <2>2. DisbursedSum(call[c].target) \in Sums /\ 0 \in Sums
    BY <1>1, <2>1, SumsOfDisbursed DEF Sums
  <2> QED BY <2>2 DEF SumDisbursements
<1> DEFINE k == [call[c] EXCEPT !.sum = found, !.pc = "write"]
<1>3. k \in CallShape
  BY <1>1 DEF CallShape, Steps
<1>4. k.pc = "write" /\ k.seen = call[c].seen /\ k.target = call[c].target /\ k.req = call[c].req
  BY <1>1 DEF CallShape
<1>5. call' = [call EXCEPT ![c] = k] /\ call'[c] = k
  BY <1>1, <1>2 DEF Typed
<1> HIDE DEF k
<1>6. NewStatus(c)' = NewStatus(c) /\ visited' = visited
  BY <1>4, <1>5 DEF NewStatus, SumDisbursements, rowVars
<1>7. CallOK(c)'
  BY <1>1, <1>4, <1>5, <1>6 DEF CallOK, Fits
<1> QED BY <1>3, <1>5, <1>7, CallStepOK DEF SumDisbursements

\* The row is written with the status asked for, in the payroll that was read.
LEMMA WriteFacts ==
    ASSUME IInv, NEW c \in Calls, WritePayroll(c)
    PROVE  /\ call[c].target \in Payrolls /\ NewStatus(c) \in PayrollStatus
           /\ call[c].req \in Requests /\ call[c].req.kind \in {"update", "credited"}
           /\ status' = [status EXCEPT ![call[c].target] = NewStatus(c)]
           /\ visited' = [visited EXCEPT ![call[c].target] = @ \cup {NewStatus(c)}]
           /\ \A q \in Payrolls : visited[q] \subseteq visited'[q]
           /\ call[c].seen \in visited[call[c].target]
           /\ isStatusTransitionAllowed(call[c].seen, NewStatus(c))
<1>1. CallOK(c) /\ call[c].pc = "write" /\ Typed
  BY DEF IInv, CallsOK, WritePayroll
<1>2. call[c].target \in Payrolls /\ call[c].req \in Requests
      /\ call[c].req.kind \in {"update", "credited"}
  BY <1>1 DEF CallOK
<1>3. NewStatus(c) \in PayrollStatus
  BY <1>2, RequestTyped DEF NewStatus, PayrollStatus
<1>4. \A q \in Payrolls : visited[q] \subseteq visited'[q]
  BY <1>1, <1>2 DEF Typed, WritePayroll, SetStatus
<1> QED BY <1>1, <1>2, <1>3, <1>4 DEF CallOK, WritePayroll, SetStatus

LEMMA WriteOK ==
    ASSUME IInv, NEW c \in Calls, WritePayroll(c)
    PROVE  IInv'
<1> DEFINE p == call[c].target
           new == NewStatus(c)
<1>1. Typed /\ CallsOK /\ HistoryOK
  BY DEF IInv
<1>2. /\ p \in Payrolls /\ new \in PayrollStatus
      /\ status' = [status EXCEPT ![p] = new]
      /\ visited' = [visited EXCEPT ![p] = @ \cup {new}]
      /\ \A q \in Payrolls : visited[q] \subseteq visited'[q]
  BY WriteFacts
<1>3. Idle \in CallShape /\ call' = [call EXCEPT ![c] = Idle]
  BY DEF Idle, CallShape, Steps, Sums, WritePayroll, Finish
<1>4. call' \in [Calls -> CallShape] /\ call'[c] = Idle /\ \A d \in Calls \ {c} : call'[d] = call[d]
  BY <1>1, <1>3, CallTyped
<1>5. payment' \in [Payrolls -> Payments \cup {Nothing}]
  <2>1. call[c].req.payment \in Payments \cup {Nothing}
    BY WriteFacts, RequestTyped
  <2> QED BY <1>1, <1>2, <2>1 DEF Typed, WritePayroll
<1>6. priced' \in [Payrolls -> BOOLEAN] /\ \A q \in Payrolls :
        priced'[q] => priced[q] \/ (q = p /\ new = "PREPARED")
  BY <1>1, <1>2 DEF Typed, WritePayroll
<1>10. total' \in [Payrolls -> Sums]
  <2>1. call[c].sum \in Sums
    BY <1>1 DEF Typed, CallShape
  <2> QED BY <1>1, <2>1 DEF Typed, WritePayroll
<1>7. Typed'
  BY <1>1, <1>2, <1>4, <1>5, <1>6, <1>10 DEF Typed, WritePayroll, disbursementVars
<1>8. CallsOK'
  BY <1>1, <1>2, <1>4, OthersOK DEF CallOK, Idle
<1>9. HistoryOK'
  <2> HIDE DEF new
  <2> QED BY <1>1, <1>2, <1>6 DEF HistoryOK, Typed
<1> QED BY <1>7, <1>8, <1>9 DEF IInv

\* account_credited: the payroll chosen is one the payment fits, when it is chosen.
LEMMA OnlyOne ==
    ASSUME NEW S, Only(S)
    PROVE  (CHOOSE p \in S : TRUE) \in S
BY FS_EmptySet DEF Only

LEMMA FoundFits ==
    ASSUME IInv, NEW r \in Requests, NEW p \in ByDocument(r) \cup ByName(r)
    PROVE  p \in Payrolls /\ Fits(r, p)
<1>1. p \in Payrolls /\ status[p] = "INVOICED"
  BY DEF ByDocument, ByName, InvoicedFor
<1>2. "INVOICED" \in visited[p]
  BY <1>1 DEF IInv, HistoryOK
<1> QED BY <1>1, <1>2 DEF Fits, ByDocument, ByName

\* A webhook that goes on to update the only payroll it found.
LEMMA ChooseOK ==
    ASSUME IInv, NEW c \in Calls, call[c].pc \in {"document", "name"}, NEW found, Only(found),
           found \subseteq ByDocument(call[c].req) \cup ByName(call[c].req),
           Choose(c, found), UNCHANGED <<rowVars, disbursementVars>>
    PROVE  IInv'
<1> DEFINE p == CHOOSE q \in found : TRUE
           k == [call[c] EXCEPT !.target = p, !.pc = "read"]
<1>1. CallOK(c) /\ call[c] \in CallShape /\ Typed
  BY DEF IInv, CallsOK, Typed
<1>2. call[c].req \in Requests /\ call[c].req.kind = "credited"
  BY <1>1 DEF CallOK
<1>3. p \in found /\ call' = [call EXCEPT ![c].target = p, ![c].pc = "read"]
  BY OnlyOne DEF Choose
<1> HIDE DEF p
<1>4. p \in Payrolls /\ Fits(call[c].req, p)
  BY <1>2, <1>3, FoundFits
<1>5. k \in CallShape
  BY <1>1, <1>4 DEF CallShape, Steps
<1>6. k.pc = "read" /\ k.target = p /\ k.req = call[c].req
  BY <1>1 DEF CallShape
<1>7. call' = [call EXCEPT ![c] = k] /\ call'[c] = k
  BY <1>1, <1>3 DEF Typed
<1> HIDE DEF k
<1>8. CallOK(c)'
  BY <1>2, <1>4, <1>6, <1>7 DEF CallOK, Fits, rowVars
<1> QED BY <1>5, <1>7, <1>8, CallStepOK

LEMMA ByDocumentOK ==
    ASSUME IInv, NEW c \in Calls, MatchByDocument(c)
    PROVE  IInv'
<1>1. CallOK(c) /\ call[c] \in CallShape /\ Typed /\ call[c].pc = "document"
  BY DEF IInv, CallsOK, Typed, MatchByDocument
<1>2. PICK found \in {ByDocument(call[c].req), {}} :
        IF Only(found) THEN Choose(c, found)
        ELSE call' = [call EXCEPT ![c].matches = found, ![c].pc = "name"]
  BY DEF MatchByDocument
<1>3. UNCHANGED <<rowVars, disbursementVars>>
  BY DEF MatchByDocument
<1>4. CASE Only(found)
  BY <1>1, <1>2, <1>3, <1>4, ChooseOK
<1>5. CASE ~Only(found)
  <2> DEFINE k == [call[c] EXCEPT !.matches = found, !.pc = "name"]
  <2>1. found \subseteq Payrolls
    BY DEF ByDocument, InvoicedFor
  <2>2. k \in CallShape
    BY <1>1, <2>1 DEF CallShape, Steps
  <2>3. k.pc = "name" /\ k.req = call[c].req
    BY <1>1 DEF CallShape
  <2>4. call' = [call EXCEPT ![c] = k] /\ call'[c] = k
    BY <1>1, <1>2, <1>5 DEF Typed
  <2> HIDE DEF k
  <2>5. CallOK(c)'
    BY <1>1, <2>3, <2>4 DEF CallOK
  <2> QED BY <1>3, <2>2, <2>4, <2>5, CallStepOK
<1> QED BY <1>4, <1>5

LEMMA ByNameOK ==
    ASSUME IInv, NEW c \in Calls, MatchByName(c)
    PROVE  IInv'
<1>1. call[c].pc = "name" /\ UNCHANGED <<rowVars, disbursementVars>>
  BY DEF MatchByName
<1>2. PICK found \in {ByName(call[c].req), {}} :
        \/ Only(found) /\ Choose(c, found)
        \/ Only(call[c].matches \cap found) /\ Choose(c, call[c].matches \cap found)
        \/ Finish(c)
  BY DEF MatchByName
<1>3. CASE Only(found) /\ Choose(c, found)
  BY <1>1, <1>3, ChooseOK
<1>4. CASE Only(call[c].matches \cap found) /\ Choose(c, call[c].matches \cap found)
  BY <1>1, <1>4, ChooseOK
<1>5. CASE Finish(c)
  BY <1>1, <1>5, EndOK
<1> QED BY <1>2, <1>3, <1>4, <1>5

\* Disbursements and their transactions touch no payroll and no call.
LEMMA DisbursementOK ==
    ASSUME IInv, DisbursementStep
    PROVE  IInv'
<1>1. UNCHANGED <<rowVars, call>>
  BY DEF DisbursementStep, CreateDisbursement, InitiateDeposit, UpdateDisbursement,
         disbursementOnly
<1>2. allocation' \in [Disbursements -> Nat] /\ depositFor' \in [Txs -> Disbursements \cup {Nothing}]
  <2>1. Typed BY DEF IInv
  <2>2. ASSUME NEW p \in Payrolls, NEW e \in Employees, CreateDisbursement(p, e)
        PROVE  allocation' \in [Disbursements -> Nat] /\ depositFor' = depositFor
    <3>1. PICK a \in Allocations[e] : allocation' = [allocation EXCEPT ![<<p, e>>] = a]
      BY <2>2 DEF CreateDisbursement
    <3>2. a \in Nat
      BY PayrollAssumption
    <3> QED BY <2>1, <2>2, <3>1, <3>2 DEF Typed, CreateDisbursement
  <2>3. ASSUME NEW d \in Disbursements, NEW t \in Txs,
               InitiateDeposit(t, d) \/ UpdateDisbursement(d, t)
        PROVE  allocation' = allocation /\ depositFor' \in [Txs -> Disbursements \cup {Nothing}]
    BY <2>1, <2>3 DEF Typed, InitiateDeposit, UpdateDisbursement
  <2> QED BY <2>1, <2>2, <2>3 DEF DisbursementStep, Typed
<1>3. Typed' /\ HistoryOK'
  BY <1>1, <1>2 DEF IInv, Typed, HistoryOK, rowVars
<1>4. CallsOK'
  BY <1>1 DEF IInv, CallsOK, CallOK, Fits, NewStatus, rowVars
<1> QED BY <1>3, <1>4 DEF IInv

LEMMA StepOK == IInv /\ [Next]_vars => IInv'
<1> SUFFICES ASSUME IInv, [Next]_vars PROVE IInv'
  OBVIOUS
<1>1. CASE \E c \in Calls, r \in Requests : Begin(c, r)
  BY <1>1, BeginOK
<1>2. CASE \E c \in Calls : CallStep(c)
  BY <1>2, CreateOK, WorkflowOK, ReadOK, TotalOK, WriteOK, ByDocumentOK, ByNameOK
     DEF CallStep
<1>3. CASE \E c \in Calls : CallFails(c)
  BY <1>3, EndOK DEF CallFails
<1>4. CASE DisbursementStep
  BY <1>4, DisbursementOK
<1>5. CASE UNCHANGED vars
  BY <1>5 DEF vars, rowVars, disbursementVars, IInv, Typed, HistoryOK, CallsOK, CallOK, Fits,
     NewStatus
<1> QED BY <1>1, <1>2, <1>3, <1>4, <1>5 DEF Next

\* The invariant the theorems below rest on.
THEOREM Invariance == Spec => []IInv
<1> QED BY InitOK, StepOK, PTL DEF Spec

-----------------------------------------------------------------------------
(* What the interleavings cannot break *)

\* A history grows by the first status, or by one allowed after a status it holds.
LEMMA HistoryGrows ==
    ASSUME IInv, [Next]_vars, NEW p \in Payrolls
    PROVE  \/ visited'[p] = visited[p]
           \/ visited'[p] = visited[p] \cup {"CREATED"}
           \/ \E old \in visited[p], new \in PayrollStatus :
                isStatusTransitionAllowed(old, new) /\ visited'[p] = visited[p] \cup {new}
<1>1. CASE visited' = visited
  BY <1>1
<1>2. ASSUME NEW c \in Calls, InsertPayroll(c)
      PROVE  visited'[p] = visited[p] \/ visited'[p] = visited[p] \cup {"CREATED"}
  BY <1>2 DEF IInv, Typed, InsertPayroll, SetStatus
<1>3. ASSUME NEW c \in Calls, WritePayroll(c)
      PROVE  \/ visited'[p] = visited[p]
             \/ \E old \in visited[p], new \in PayrollStatus :
                  isStatusTransitionAllowed(old, new) /\ visited'[p] = visited[p] \cup {new}
  <2>1. /\ NewStatus(c) \in PayrollStatus
        /\ visited' = [visited EXCEPT ![call[c].target] = @ \cup {NewStatus(c)}]
        /\ call[c].seen \in visited[call[c].target]
        /\ isStatusTransitionAllowed(call[c].seen, NewStatus(c))
    BY <1>3, WriteFacts
  <2>2. visited \in [Payrolls -> SUBSET PayrollStatus]
    BY DEF IInv, Typed
  <2>3. CASE p = call[c].target
    BY <2>1, <2>2, <2>3
  <2>4. CASE p # call[c].target
    BY <2>1, <2>2, <2>4
  <2> QED BY <2>3, <2>4
<1>4. CASE \E c \in Calls : \/ \E r \in Requests : Begin(c, r)
                            \/ StartWorkflow(c) \/ RetryPayroll(c) \/ ReadPayroll(c)
                            \/ SumDisbursements(c) \/ MatchByDocument(c) \/ MatchByName(c)
                            \/ CallFails(c)
  BY <1>1, <1>4 DEF Begin, StartWorkflow, RetryPayroll, ReadPayroll, SumDisbursements,
     MatchByDocument, MatchByName, CallFails, rowVars
<1>5. CASE DisbursementStep \/ UNCHANGED vars
  BY <1>1, <1>5 DEF DisbursementStep, CreateDisbursement, InitiateDeposit, UpdateDisbursement,
     disbursementOnly, vars, rowVars
<1> QED BY <1>2, <1>3, <1>4, <1>5 DEF Next, CallStep

\* No stage of a payroll is skipped, although a call may write long after its
\* read: the status it read stays in the history, whatever was written since.
THEOREM StagesInOrder == Spec => []NothingSkipped
<1>1. Init => NothingSkipped
  BY DEF Init, NothingSkipped
<1>2. IInv /\ NothingSkipped /\ [Next]_vars => NothingSkipped'
  <2> SUFFICES ASSUME IInv, NothingSkipped, [Next]_vars, NEW p \in Payrolls
               PROVE  /\ "INVOICED" \in visited'[p] => "PREPARED" \in visited'[p]
                      /\ "IN_PROGRESS" \in visited'[p] => "FUNDED" \in visited'[p]
                      /\ "RECEIPT" \in visited'[p] => "IN_PROGRESS" \in visited'[p]
                      /\ "COMPLETED" \in visited'[p] => "RECEIPT" \in visited'[p]
    BY DEF NothingSkipped
  <2>1. CASE visited'[p] = visited[p] \/ visited'[p] = visited[p] \cup {"CREATED"}
    BY <2>1 DEF NothingSkipped
  <2>2. ASSUME NEW old \in visited[p], NEW new \in PayrollStatus,
               isStatusTransitionAllowed(old, new), visited'[p] = visited[p] \cup {new}
        PROVE  /\ "INVOICED" \in visited'[p] => "PREPARED" \in visited'[p]
               /\ "IN_PROGRESS" \in visited'[p] => "FUNDED" \in visited'[p]
               /\ "RECEIPT" \in visited'[p] => "IN_PROGRESS" \in visited'[p]
               /\ "COMPLETED" \in visited'[p] => "RECEIPT" \in visited'[p]
    <3>1. \/ new = old
          \/ new \notin {"INVOICED", "IN_PROGRESS", "RECEIPT", "COMPLETED"}
          \/ new = "INVOICED" /\ old = "PREPARED"
          \/ new = "IN_PROGRESS" /\ old = "FUNDED"
          \/ new = "RECEIPT" /\ old = "IN_PROGRESS"
          \/ new = "COMPLETED" /\ old = "RECEIPT"
      BY <2>2 DEF isStatusTransitionAllowed
    <3> QED BY <2>2, <3>1 DEF NothingSkipped
  <2> QED BY <2>1, <2>2, HistoryGrows
<1> QED BY <1>1, <1>2, Invariance, PTL DEF Spec

LEMMA HistoryStays ==
    ASSUME IInv, [Next]_vars, NEW p \in Payrolls
    PROVE  visited[p] \subseteq visited'[p]
BY HistoryGrows

\* A rate once set is never taken away.
LEMMA PricedStays ==
    ASSUME IInv, [Next]_vars, NEW p \in Payrolls, priced[p]
    PROVE  priced'[p]
<1>1. CASE priced' = priced
  BY <1>1
<1>2. ASSUME NEW c \in Calls, WritePayroll(c) PROVE priced'[p]
  BY <1>2 DEF WritePayroll, IInv, Typed
<1>3. CASE \E c \in Calls : \/ \E r \in Requests : Begin(c, r)
                            \/ InsertPayroll(c)
                            \/ StartWorkflow(c) \/ RetryPayroll(c) \/ ReadPayroll(c)
                            \/ SumDisbursements(c) \/ MatchByDocument(c) \/ MatchByName(c)
                            \/ CallFails(c)
  BY <1>1, <1>3 DEF Begin, InsertPayroll, StartWorkflow, RetryPayroll, ReadPayroll,
     SumDisbursements, MatchByDocument, MatchByName, CallFails, rowVars
<1>4. CASE DisbursementStep \/ UNCHANGED vars
  BY <1>1, <1>4 DEF DisbursementStep, CreateDisbursement, InitiateDeposit, UpdateDisbursement,
     disbursementOnly, vars, rowVars
<1> QED BY <1>2, <1>3, <1>4 DEF Next, CallStep

\* No employee is paid out of a payroll without an exchange rate, also when the
\* transaction is initiated in the middle of another call.
THEOREM PricedDeposits == Spec => []DepositsArePriced
<1> DEFINE Rate == \A t \in Txs : depositFor[t] # Nothing => priced[depositFor[t][1]]
<1>1. Init => Rate
  BY DEF Init
<1>2. ASSUME IInv, Rate, [Next]_vars PROVE Rate'
  <2>1. depositFor \in [Txs -> Disbursements \cup {Nothing}]
    BY <1>2 DEF IInv, Typed
  <2>2. ASSUME NEW t \in Txs, depositFor[t] # Nothing, depositFor'[t] = depositFor[t]
        PROVE  priced'[depositFor'[t][1]]
    <3>1. depositFor[t][1] \in Payrolls
      BY <2>1, <2>2 DEF Disbursements
    <3> QED BY <1>2, <2>2, <3>1, PricedStays
  <2>3. CASE depositFor' = depositFor
    BY <2>2, <2>3
  <2>4. ASSUME NEW t \in Txs, NEW d \in Disbursements, InitiateDeposit(t, d) PROVE Rate'
    <3>1. depositFor' = [depositFor EXCEPT ![t] = d] /\ priced[d[1]] /\ priced' = priced
      BY <2>4 DEF InitiateDeposit, disbursementOnly, rowVars
    <3> QED BY <1>2, <2>1, <3>1
  <2>5. CASE \E c \in Calls : (\E r \in Requests : Begin(c, r)) \/ CallStep(c) \/ CallFails(c)
    BY <2>3, <2>5 DEF Begin, CallStep, InsertPayroll, StartWorkflow, RetryPayroll, ReadPayroll,
       SumDisbursements, WritePayroll, MatchByDocument, MatchByName, CallFails, disbursementVars
  <2>6. CASE UNCHANGED vars
    BY <2>3, <2>6 DEF vars, disbursementVars
  <2>7. CASE DisbursementStep
    BY <2>3, <2>4, <2>7 DEF DisbursementStep, CreateDisbursement, UpdateDisbursement
  <2> QED BY <1>2, <2>5, <2>6, <2>7 DEF Next
<1>3. IInv /\ Rate => DepositsArePriced
  BY DEF IInv, Typed, HistoryOK, DepositsArePriced, Disbursements
<1> HIDE DEF Rate
<1>4. IInv /\ Rate /\ [Next]_vars => Rate'
  BY <1>2
<1> QED BY <1>1, <1>3, <1>4, Invariance, PTL DEF Spec

\* What is written in a payroll as its payment was asked for, by a request that fits
\* if Mono made it.
PaymentFits(p) ==
    payment[p] # Nothing =>
        \E s \in Requests :
            /\ s.kind \in {"update", "credited"} /\ s.payment = payment[p]
            /\ s.kind = "credited" => Fits(s, p)

PaymentsFit == \A p \in Payrolls : PaymentFits(p)

LEMMA PaymentsFitStep == IInv /\ PaymentsFit /\ [Next]_vars => PaymentsFit'
<1> SUFFICES ASSUME IInv, PaymentsFit, [Next]_vars, NEW p \in Payrolls PROVE PaymentFits(p)'
  BY DEF PaymentsFit
<1>1. PaymentFits(p) /\ visited[p] \subseteq visited'[p]
  BY HistoryStays DEF PaymentsFit
<1>2. CASE payment'[p] = payment[p]
  BY <1>1, <1>2 DEF PaymentFits, Fits
<1>3. ASSUME NEW c \in Calls, WritePayroll(c), payment'[p] # payment[p]
      PROVE  PaymentFits(p)'
  <2>1. CallOK(c) /\ call[c].pc = "write" /\ payment \in [Payrolls -> Payments \cup {Nothing}]
    BY <1>3 DEF IInv, Typed, CallsOK, WritePayroll
  <2>2. p = call[c].target /\ payment'[p] = call[c].req.payment
    BY <1>3, <2>1 DEF WritePayroll
  <2>3. call[c].req \in Requests /\ call[c].req.kind \in {"update", "credited"}
        /\ (call[c].req.kind = "credited" => Fits(call[c].req, p))
    BY <2>1, <2>2 DEF CallOK
  <2> QED BY <1>1, <2>2, <2>3 DEF PaymentFits, Fits
<1>4. CASE \E c \in Calls : \/ \E r \in Requests : Begin(c, r)
                            \/ InsertPayroll(c)
                            \/ StartWorkflow(c) \/ RetryPayroll(c) \/ ReadPayroll(c)
                            \/ SumDisbursements(c) \/ MatchByDocument(c) \/ MatchByName(c)
                            \/ CallFails(c)
  BY <1>2, <1>4 DEF Begin, InsertPayroll, StartWorkflow, RetryPayroll, ReadPayroll,
     SumDisbursements, MatchByDocument, MatchByName, CallFails, rowVars
<1>5. CASE DisbursementStep \/ UNCHANGED vars
  BY <1>2, <1>5 DEF DisbursementStep, CreateDisbursement, InitiateDeposit, UpdateDisbursement,
     disbursementOnly, vars, rowVars
<1> QED BY <1>2, <1>3, <1>4, <1>5 DEF Next, CallStep

\* However webhooks and updates interleave and queries fail, a payment of Mono's is
\* only ever put down to an invoiced payroll of the employer who made it.
THEOREM PaymentsAreTheEmployers ==
    ASSUME PaymentContract
    PROVE  Spec => []PaymentIsTheEmployers
<1>1. Init => PaymentsFit
  BY DEF Init, PaymentsFit, PaymentFits
<1>2. IInv /\ PaymentsFit => PaymentIsTheEmployers
  <2> SUFFICES ASSUME IInv, PaymentsFit, NEW r \in Requests, NEW p \in Payrolls, Credit(r, p)
               PROVE  Fits(r, p)
    BY DEF PaymentIsTheEmployers, Fits
  <2>1. r.kind = "credited" /\ payment[p] = r.payment
    BY DEF Credit
  <2>2. r.payment \in Payments
    BY <2>1, PayrollAssumption DEF UpdateRequest, CreditedRequest, OtherRequest
  <2>3. payment[p] # Nothing
    BY <2>1, <2>2, PayrollAssumption
  <2>4. PICK s \in Requests : /\ s.kind \in {"update", "credited"} /\ s.payment = r.payment
                              /\ s.kind = "credited" => Fits(s, p)
    BY <2>1, <2>3 DEF PaymentsFit, PaymentFits
  <2>5. r = s
    BY <2>1, <2>4 DEF PaymentContract
  <2> QED BY <2>1, <2>4, <2>5
<1> QED BY <1>1, <1>2, PaymentsFitStep, Invariance, PTL DEF Spec

-----------------------------------------------------------------------------
(* Calls that follow each other implement the lifecycle *)

\* One call runs at a time, and the status it has read is the one there is.
OneRuns == \A c, d \in Calls : Running(c) /\ Running(d) => c = d
SeenIsNow ==
    \A c \in Calls : call[c].pc \in {"total", "write"} =>
        status[call[c].target] = call[c].seen

InTurnInv == IInv /\ (Serial => OneRuns /\ SeenIsNow)

\* What a call's step leaves alone; where it comes to, it has just read the status,
\* or was past that.
LEMMA OneCallSteps ==
    ASSUME IInv, NEW c \in Calls, CallStep(c) \/ CallFails(c)
    PROVE  /\ Running(c) /\ \A d \in Calls \ {c} : call'[d] = call[d]
           /\ status' # status => call'[c].pc \notin {"total", "write"}
           /\ call'[c].pc \in {"total", "write"} =>
                \/ call'[c].seen = status[call'[c].target]
                \/ /\ call[c].pc \in {"total", "write"}
                   /\ call'[c].target = call[c].target /\ call'[c].seen = call[c].seen
<1>1. call \in [Calls -> CallShape]
  BY DEF IInv, Typed
<1>2. CASE InsertPayroll(c) \/ StartWorkflow(c) \/ RetryPayroll(c) \/ CallFails(c)
  BY <1>1, <1>2 DEF InsertPayroll, StartWorkflow, RetryPayroll, CallFails, Goto, Finish, Idle,
     Running, rowVars, CallShape
<1>3. CASE ReadPayroll(c)
  BY <1>1, <1>3 DEF ReadPayroll, Finish, Idle, Running, rowVars, CallShape
<1>4. CASE SumDisbursements(c) \/ WritePayroll(c)
  BY <1>1, <1>4 DEF SumDisbursements, WritePayroll, Finish, Idle, Running, rowVars, CallShape
<1>5. CASE MatchByDocument(c) \/ MatchByName(c)
  <2>1. call[c].pc \in {"document", "name"} /\ status' = status
    BY <1>5 DEF MatchByDocument, MatchByName, rowVars
  <2>2. \/ \E found : call' = [call EXCEPT ![c].target = CHOOSE p \in found : TRUE, ![c].pc = "read"]
        \/ \E found : call' = [call EXCEPT ![c].matches = found, ![c].pc = "name"]
        \/ call' = [call EXCEPT ![c] = Idle]
    BY <1>5 DEF MatchByDocument, MatchByName, Choose, Finish
  <2>3. call'[c].pc \in {"read", "name", "idle"}
    <3>1. ASSUME NEW t, call' = [call EXCEPT ![c].target = t, ![c].pc = "read"]
          PROVE  call'[c].pc = "read"
      BY <1>1, <3>1 DEF CallShape
    <3>2. ASSUME NEW m, call' = [call EXCEPT ![c].matches = m, ![c].pc = "name"]
          PROVE  call'[c].pc = "name"
      BY <1>1, <3>2 DEF CallShape
    <3>3. ASSUME call' = [call EXCEPT ![c] = Idle] PROVE call'[c].pc = "idle"
      BY <1>1, <3>3 DEF Idle
    <3> QED BY <2>2, <3>1, <3>2, <3>3
  <2>4. \A d \in Calls \ {c} : call'[d] = call[d]
    BY <1>1, <2>2
  <2> QED BY <2>1, <2>3, <2>4 DEF Running
<1> QED BY <1>2, <1>3, <1>4, <1>5 DEF CallStep

LEMMA InTurnInitOK == Init => InTurnInv
BY InitOK DEF Init, InTurnInv, OneRuns, SeenIsNow, Running, Idle

LEMMA InTurnStep == InTurnInv /\ [Next]_vars => InTurnInv'
<1> SUFFICES ASSUME IInv, Serial, OneRuns, SeenIsNow, [Next]_vars PROVE OneRuns' /\ SeenIsNow'
  BY StepOK DEF InTurnInv, Serial, Next, vars
<1>1. IInv /\ Serial
  OBVIOUS
<1>2. ASSUME NEW c \in Calls, NEW r \in Requests, Begin(c, r) PROVE OneRuns' /\ SeenIsNow'
  <2>1. /\ \A d \in Calls : ~Running(d)
        /\ \A d \in Calls \ {c} : call'[d] = call[d]
        /\ status' = status
    BY <1>2 DEF Begin, rowVars
  <2>2. call'[c].pc = FirstStep(r.kind)
    BY <1>1, <1>2 DEF Begin, IInv, Typed, CallShape, Idle
  <2>3. call'[c].pc \notin {"total", "write"}
    BY <2>2, RequestTyped DEF FirstStep
  <2> QED BY <2>1, <2>3 DEF OneRuns, SeenIsNow, Running
<1>3. ASSUME NEW c \in Calls, CallStep(c) \/ CallFails(c) PROVE OneRuns' /\ SeenIsNow'
  <2>1. /\ Running(c) /\ \A d \in Calls \ {c} : call'[d] = call[d]
        /\ status' # status => call'[c].pc \notin {"total", "write"}
        /\ call'[c].pc \in {"total", "write"} =>
                \/ call'[c].seen = status[call'[c].target]
                \/ /\ call[c].pc \in {"total", "write"}
                   /\ call'[c].target = call[c].target /\ call'[c].seen = call[c].seen
    BY <1>1, <1>3, OneCallSteps
  <2>2. \A d \in Calls \ {c} : ~Running(d)
    BY <2>1 DEF OneRuns
  <2> QED BY <2>1, <2>2 DEF OneRuns, SeenIsNow, Running
<1>4. CASE DisbursementStep
  <2>1. call' = call /\ status' = status
    BY <1>4 DEF DisbursementStep, CreateDisbursement, InitiateDeposit, UpdateDisbursement,
       disbursementOnly, rowVars
  <2> QED BY <1>1, <2>1 DEF OneRuns, SeenIsNow, Running
<1>5. CASE UNCHANGED vars
  <2>1. call' = call /\ status' = status
    BY <1>5 DEF vars, rowVars
  <2> QED BY <1>1, <2>1 DEF OneRuns, SeenIsNow, Running
<1> QED BY <1>2, <1>3, <1>4, <1>5 DEF Next

\* An allowed transition from the status a payroll has is one of the lifecycle's.
LEMMA AllowedIsAnEdge ==
    ASSUME NEW old \in PayrollStatus, NEW new \in PayrollStatus,
           isStatusTransitionAllowed(old, new), old # new
    PROVE  <<old, new>> \in Lifecycle!Edges
BY DEF isStatusTransitionAllowed, PayrollStatus, Lifecycle!Edges, Lifecycle!Course,
       Lifecycle!Detours, Lifecycle!LateMoney, Lifecycle!AgainstTheComments

LEMMA StatusAdvances ==
    ASSUME InTurnInv, Serial, [Next]_vars, status' # status
    PROVE  \E p \in Payrolls, edge \in Lifecycle!Edges :
                edge[1] = status[p] /\ status' = [status EXCEPT ![p] = edge[2]]
<1>1. status \in [Payrolls -> PayrollStatus \cup {"none"}]
  BY DEF InTurnInv, IInv, Typed
<1>2. ASSUME NEW p \in Payrolls, NEW old, NEW new, <<old, new>> \in Lifecycle!Edges,
             status[p] = old, status' = [status EXCEPT ![p] = new]
      PROVE  \E q \in Payrolls, edge \in Lifecycle!Edges :
                edge[1] = status[q] /\ status' = [status EXCEPT ![q] = edge[2]]
  <2>1. <<old, new>>[1] = old /\ <<old, new>>[2] = new
    OBVIOUS
  <2> QED BY <1>2, <2>1
<1>3. ASSUME NEW c \in Calls, InsertPayroll(c)
      PROVE  \E q \in Payrolls, edge \in Lifecycle!Edges :
                edge[1] = status[q] /\ status' = [status EXCEPT ![q] = edge[2]]
  <2>1. PICK p \in Payrolls : status[p] = "none" /\ status' = [status EXCEPT ![p] = "CREATED"]
    BY <1>3 DEF InTurnInv, IInv, CallsOK, CallOK, InsertPayroll, Exists, SetStatus
  <2>2. <<"none", "CREATED">> \in Lifecycle!Edges
    BY DEF Lifecycle!Edges, Lifecycle!Course
  <2> QED BY <1>2, <2>1, <2>2
<1>4. ASSUME NEW c \in Calls, WritePayroll(c)
      PROVE  \E q \in Payrolls, edge \in Lifecycle!Edges :
                edge[1] = status[q] /\ status' = [status EXCEPT ![q] = edge[2]]
  <2>1. /\ call[c].target \in Payrolls /\ call[c].seen = status[call[c].target]
        /\ call[c].seen \in visited[call[c].target]
        /\ isStatusTransitionAllowed(call[c].seen, NewStatus(c))
        /\ status' = [status EXCEPT ![call[c].target] = NewStatus(c)]
    BY <1>4 DEF InTurnInv, SeenIsNow, IInv, CallsOK, CallOK, WritePayroll, SetStatus
  <2>2. NewStatus(c) \in PayrollStatus /\ call[c].seen \in PayrollStatus
    BY <1>4, <2>1, WriteFacts DEF InTurnInv, IInv, Typed
  <2>3. PICK p \in Payrolls, new \in PayrollStatus :
          /\ status[p] \in PayrollStatus /\ isStatusTransitionAllowed(status[p], new)
          /\ status' = [status EXCEPT ![p] = new]
    BY <2>1, <2>2
  <2>4. status[p] # new
    BY <1>1, <2>3
  <2>5. <<status[p], new>> \in Lifecycle!Edges
    BY <2>3, <2>4, AllowedIsAnEdge
  <2> QED BY <1>2, <2>3, <2>5
<1>5. ~(\E c \in Calls : \/ \E r \in Requests : Begin(c, r)
                         \/ StartWorkflow(c) \/ RetryPayroll(c) \/ ReadPayroll(c)
                         \/ SumDisbursements(c) \/ MatchByDocument(c) \/ MatchByName(c)
                         \/ CallFails(c))
  BY DEF Begin, StartWorkflow, RetryPayroll, ReadPayroll, SumDisbursements, MatchByDocument,
     MatchByName, CallFails, rowVars
<1>6. ~DisbursementStep /\ ~UNCHANGED vars
  BY DEF DisbursementStep, CreateDisbursement, InitiateDeposit, UpdateDisbursement,
     disbursementOnly, vars, rowVars
<1> QED BY <1>3, <1>4, <1>5, <1>6 DEF Next, CallStep

\* Calls one after the other, with any requests and failures: the payroll table
\* implements the lifecycle, and updatePayroll with all its steps is one move
\* along an edge, or nothing.
THEOREM CallsInTurnImplementLifecycle == Spec => ImplementsLifecycle
<1> DEFINE Shown == IF Serial THEN status ELSE [p \in Payrolls |-> "none"]
<1>1. Init => Lifecycle!Init
  BY DEF Init, Lifecycle!Init
<1>2. InTurnInv /\ [Next]_vars => [Lifecycle!Next]_Shown
  <2> SUFFICES ASSUME InTurnInv, [Next]_vars, Shown' # Shown PROVE Lifecycle!Next
    OBVIOUS
  <2>1. world' = world
    BY DEF Next, vars
  <2>2. Serial /\ Serial' /\ status' # status
    BY <2>1 DEF Serial
  <2>3. PICK p \in Payrolls, edge \in Lifecycle!Edges :
            edge[1] = status[p] /\ status' = [status EXCEPT ![p] = edge[2]]
    BY <2>2, StatusAdvances
  <2>4. Lifecycle!Advance(p)
    BY <2>2, <2>3 DEF Lifecycle!Advance
  <2> QED BY <2>4 DEF Lifecycle!Next
<1> QED BY <1>1, <1>2, InTurnInitOK, InTurnStep, PTL DEF Spec, ImplementsLifecycle, Lifecycle!Spec

-----------------------------------------------------------------------------
(* Calls that follow each other put payments down to what was invoiced *)

\* A webhook that has chosen a payroll has chosen an invoiced one of its amount.
ChosenOK ==
    \A c \in Calls : call[c].pc \in {"read", "total", "write"} /\ call[c].req.kind = "credited" =>
        total[call[c].target] = call[c].req.amount /\ status[call[c].target] = "INVOICED"

\* A payroll with a payment of Mono's comes to it, and is past where totals are computed.
PaidOK ==
    \A p \in Payrolls : payment[p] # Nothing =>
        \E s \in Requests :
            /\ s.kind \in {"update", "credited"} /\ s.payment = payment[p]
            /\ s.kind = "credited" => total[p] = s.amount /\ status[p] \notin {"none", "CREATED"}

PaidInv == InTurnInv /\ (Serial => ChosenOK /\ PaidOK)

\* In turn the total of a payroll is only computed as long as it is CREATED.
LEMMA TotalStays ==
    ASSUME InTurnInv, Serial, [Next]_vars, NEW p \in Payrolls, status[p] # "CREATED"
    PROVE  total'[p] = total[p]
<1>1. CASE total' = total
  BY <1>1
<1>2. ASSUME NEW c \in Calls, WritePayroll(c) PROVE total'[p] = total[p]
  <2>1. call[c].seen = status[call[c].target] /\ total \in [Payrolls -> Sums]
    BY <1>2 DEF InTurnInv, SeenIsNow, IInv, Typed, WritePayroll
  <2>2. isStatusTransitionAllowed(call[c].seen, NewStatus(c))
    BY <1>2, WriteFacts DEF InTurnInv
  <2>3. CASE call[c].target # p
    BY <1>2, <2>1, <2>3 DEF WritePayroll
  <2>4. CASE call[c].target = p
    <3>1. ~(NewStatus(c) = "PREPARED" /\ call[c].seen # "PREPARED")
      BY <2>1, <2>2, <2>4 DEF isStatusTransitionAllowed
    <3> QED BY <1>2, <3>1 DEF WritePayroll
  <2> QED BY <2>3, <2>4
<1>3. CASE \E c \in Calls : \/ \E r \in Requests : Begin(c, r)
                            \/ InsertPayroll(c)
                            \/ StartWorkflow(c) \/ RetryPayroll(c) \/ ReadPayroll(c)
                            \/ SumDisbursements(c) \/ MatchByDocument(c) \/ MatchByName(c)
                            \/ CallFails(c)
  BY <1>1, <1>3 DEF Begin, InsertPayroll, StartWorkflow, RetryPayroll, ReadPayroll,
     SumDisbursements, MatchByDocument, MatchByName, CallFails, rowVars
<1>4. CASE DisbursementStep \/ UNCHANGED vars
  BY <1>1, <1>4 DEF DisbursementStep, CreateDisbursement, InitiateDeposit, UpdateDisbursement,
     disbursementOnly, vars, rowVars
<1> QED BY <1>2, <1>3, <1>4 DEF Next, CallStep

\* Nor does a payroll become CREATED again.
LEMMA PastCreation ==
    ASSUME InTurnInv, Serial, [Next]_vars, NEW p \in Payrolls, status[p] \notin {"none", "CREATED"}
    PROVE  status'[p] \notin {"none", "CREATED"}
<1>1. CASE status' = status
  BY <1>1
<1>2. CASE status' # status
  <2>1. PICK q \in Payrolls, edge \in Lifecycle!Edges :
            edge[1] = status[q] /\ status' = [status EXCEPT ![q] = edge[2]]
    BY <1>2, StatusAdvances
  <2>2. edge[2] # "none" /\ (edge[2] = "CREATED" => edge[1] = "none")
    BY DEF Lifecycle!Edges, Lifecycle!Course, Lifecycle!Detours, Lifecycle!LateMoney, Lifecycle!AgainstTheComments
  <2>3. status \in [Payrolls -> PayrollStatus \cup {"none"}]
    BY DEF InTurnInv, IInv, Typed
  <2> QED BY <2>1, <2>2, <2>3
<1> QED BY <1>1, <1>2

\* The webhook's queries choose an invoiced payroll of the amount.
LEMMA ChosenIsInvoiced ==
    ASSUME IInv, NEW c \in Calls, MatchByDocument(c) \/ MatchByName(c), call'[c].pc = "read"
    PROVE  /\ call'[c].req = call[c].req /\ call'[c].target \in Payrolls
           /\ total[call'[c].target] = call[c].req.amount /\ status[call'[c].target] = "INVOICED"
<1>1. call \in [Calls -> CallShape] /\ call[c] \in CallShape
  BY DEF IInv, Typed
<1>2. ASSUME NEW found, Choose(c, found), Only(found), found \subseteq InvoicedFor(call[c].req)
      PROVE  /\ call'[c].req = call[c].req /\ call'[c].target \in Payrolls
             /\ total[call'[c].target] = call[c].req.amount /\ status[call'[c].target] = "INVOICED"
  <2>1. PICK p \in found : call' = [call EXCEPT ![c].target = p, ![c].pc = "read"]
    BY <1>2, OnlyOne DEF Choose
  <2>2. call'[c].req = call[c].req /\ call'[c].target = p
    BY <1>1, <2>1 DEF CallShape
  <2> QED BY <1>2, <2>1, <2>2 DEF InvoicedFor
<1>3. ASSUME NEW m, call' = [call EXCEPT ![c].matches = m, ![c].pc = "name"]
      PROVE  FALSE
  BY <1>1, <1>3 DEF CallShape
<1>4. ~Finish(c)
  BY <1>1 DEF Finish, Idle
<1>5. CASE MatchByDocument(c)
  <2>1. PICK found \in {ByDocument(call[c].req), {}} :
            IF Only(found) THEN Choose(c, found)
            ELSE call' = [call EXCEPT ![c].matches = found, ![c].pc = "name"]
    BY <1>5 DEF MatchByDocument
  <2>2. found \subseteq InvoicedFor(call[c].req)
    BY <2>1 DEF ByDocument
  <2> QED BY <1>2, <1>3, <2>1, <2>2
<1>6. CASE MatchByName(c)
  <2>1. PICK found \in {ByName(call[c].req), {}} :
            LET both == call[c].matches \cap found
            IN  CASE Only(found) -> Choose(c, found)
                  [] ~Only(found) /\ Only(both) -> Choose(c, both)
                  [] ~Only(found) /\ ~Only(both) -> Finish(c)
    BY <1>6 DEF MatchByName
  <2>2. found \subseteq InvoicedFor(call[c].req)
    BY <2>1 DEF ByName
  <2>3. call[c].matches \cap found \subseteq InvoicedFor(call[c].req)
    BY <2>2
  <2>4. CASE Only(found)
    <3>1. Choose(c, found)
      BY <2>1, <2>4
    <3> QED BY <1>2, <2>2, <2>4, <3>1
  <2>5. CASE ~Only(found) /\ Only(call[c].matches \cap found)
    <3>1. Choose(c, call[c].matches \cap found)
      BY <2>1, <2>5
    <3> QED BY <1>2, <2>3, <2>5, <3>1
  <2> QED BY <1>4, <2>1, <2>4, <2>5
<1> QED BY <1>5, <1>6

\* Where a webhook that has chosen came from.
LEMMA ChosenSteps ==
    ASSUME IInv, NEW c \in Calls, CallStep(c) \/ CallFails(c),
           call'[c].pc \in {"read", "total", "write"}, call'[c].req.kind = "credited"
    PROVE  /\ status' = status /\ total' = total
           /\ \/ MatchByDocument(c) \/ MatchByName(c)
              \/ /\ call[c].pc \in {"read", "total", "write"} /\ call'[c].req = call[c].req
                 /\ call'[c].target = call[c].target
<1>1. call \in [Calls -> CallShape] /\ call[c] \in CallShape
  BY DEF IInv, Typed
<1>2. CASE MatchByDocument(c) \/ MatchByName(c)
  BY <1>2 DEF MatchByDocument, MatchByName, rowVars
<1>3. CASE InsertPayroll(c) \/ StartWorkflow(c) \/ RetryPayroll(c) \/ WritePayroll(c) \/ CallFails(c)
  BY <1>1, <1>3 DEF InsertPayroll, StartWorkflow, RetryPayroll, WritePayroll, CallFails, Goto,
     Finish, Idle, CallShape
<1>4. CASE ReadPayroll(c)
  BY <1>1, <1>4 DEF ReadPayroll, Finish, Idle, rowVars, CallShape
<1>5. CASE SumDisbursements(c)
  BY <1>1, <1>5 DEF SumDisbursements, rowVars, CallShape
<1> QED BY <1>2, <1>3, <1>4, <1>5 DEF CallStep

LEMMA ChosenStep ==
    ASSUME PaidInv, Serial, [Next]_vars
    PROVE  ChosenOK'
<1>1. InTurnInv /\ ChosenOK /\ OneRuns /\ IInv
  BY DEF PaidInv, InTurnInv
<1>2. SUFFICES ASSUME NEW c \in Calls, call'[c].pc \in {"read", "total", "write"},
                      call'[c].req.kind = "credited"
               PROVE  /\ total'[call'[c].target] = call'[c].req.amount
                      /\ status'[call'[c].target] = "INVOICED"
  BY DEF ChosenOK
<1>3. CASE call'[c] = call[c] /\ status' = status /\ total' = total
  BY <1>1, <1>2, <1>3 DEF ChosenOK
<1>4. ASSUME NEW d \in Calls, NEW r \in Requests, Begin(d, r)
      PROVE  call'[c] = call[c] /\ status' = status /\ total' = total
  <2>1. call \in [Calls -> CallShape]
    BY <1>1 DEF IInv, Typed
  <2>2. CASE c # d
    BY <1>4, <2>1, <2>2 DEF Begin, rowVars
  <2>3. CASE c = d
    <3>1. call'[c].pc = FirstStep(r.kind) /\ call'[c].req = r
      BY <1>4, <2>1, <2>3 DEF Begin, Idle
    <3>2. call'[c].pc = "document"
      BY <1>2, <3>1 DEF FirstStep
    <3> QED BY <1>2, <3>2
  <2> QED BY <2>2, <2>3
<1>5. ASSUME NEW d \in Calls, CallStep(d) \/ CallFails(d)
      PROVE  /\ total'[call'[c].target] = call'[c].req.amount
             /\ status'[call'[c].target] = "INVOICED"
  <2>1. Running(d) /\ \A e \in Calls \ {d} : call'[e] = call[e]
    BY <1>1, <1>5, OneCallSteps
  <2>2. c = d
    BY <1>1, <1>2, <2>1 DEF OneRuns, Running
  <2>3. /\ status' = status /\ total' = total
        /\ \/ MatchByDocument(c) \/ MatchByName(c)
           \/ /\ call[c].pc \in {"read", "total", "write"} /\ call'[c].req = call[c].req
              /\ call'[c].target = call[c].target
    BY <1>1, <1>2, <1>5, <2>2, ChosenSteps
  <2>4. CASE MatchByDocument(c) \/ MatchByName(c)
    <3>1. call'[c].pc = "read"
      <4>1. call[c].pc \in {"document", "name"} /\ call \in [Calls -> CallShape]
        BY <1>1, <2>4 DEF IInv, Typed, MatchByDocument, MatchByName
      <4>2. \/ \E t : call' = [call EXCEPT ![c].target = t, ![c].pc = "read"]
            \/ \E m : call' = [call EXCEPT ![c].matches = m, ![c].pc = "name"]
            \/ Finish(c)
        BY <2>4 DEF MatchByDocument, MatchByName, Choose
      <4>3. ASSUME NEW t, call' = [call EXCEPT ![c].target = t, ![c].pc = "read"]
            PROVE  call'[c].pc = "read"
        BY <4>1, <4>3 DEF CallShape
      <4>4. ASSUME NEW m, call' = [call EXCEPT ![c].matches = m, ![c].pc = "name"]
            PROVE  FALSE
        BY <1>2, <4>1, <4>4 DEF CallShape
      <4>5. ~Finish(c)
        BY <1>2, <4>1 DEF Finish, Idle
      <4> QED BY <4>2, <4>3, <4>4, <4>5
    <3> QED BY <1>1, <2>3, <2>4, <3>1, ChosenIsInvoiced
  <2>5. CASE /\ call[c].pc \in {"read", "total", "write"} /\ call'[c].req = call[c].req
             /\ call'[c].target = call[c].target
    BY <1>1, <1>2, <2>3, <2>5 DEF ChosenOK
  <2> QED BY <2>3, <2>4, <2>5
<1>6. CASE DisbursementStep \/ UNCHANGED vars
  BY <1>3, <1>6 DEF DisbursementStep, CreateDisbursement, InitiateDeposit, UpdateDisbursement,
     disbursementOnly, vars, rowVars
<1> QED BY <1>3, <1>4, <1>5, <1>6 DEF Next

LEMMA PaidStep ==
    ASSUME PaidInv, Serial, [Next]_vars
    PROVE  PaidOK'
<1>1. InTurnInv /\ ChosenOK /\ PaidOK /\ IInv
  BY DEF PaidInv, InTurnInv
<1> SUFFICES ASSUME NEW p \in Payrolls, payment'[p] # Nothing
             PROVE  \E s \in Requests :
                        /\ s.kind \in {"update", "credited"} /\ s.payment = payment'[p]
                        /\ s.kind = "credited" =>
                            total'[p] = s.amount /\ status'[p] \notin {"none", "CREATED"}
  BY DEF PaidOK
<1>2. CASE payment'[p] = payment[p]
  <2>1. PICK s \in Requests :
            /\ s.kind \in {"update", "credited"} /\ s.payment = payment[p]
            /\ s.kind = "credited" => total[p] = s.amount /\ status[p] \notin {"none", "CREATED"}
    BY <1>1, <1>2 DEF PaidOK
  <2>2. s.kind = "credited" => total'[p] = s.amount /\ status'[p] \notin {"none", "CREATED"}
    BY <1>1, <2>1, TotalStays, PastCreation
  <2> QED BY <1>2, <2>1, <2>2
<1>3. ASSUME NEW c \in Calls, WritePayroll(c), payment'[p] # payment[p]
      PROVE  \E s \in Requests :
                /\ s.kind \in {"update", "credited"} /\ s.payment = payment'[p]
                /\ s.kind = "credited" =>
                    total'[p] = s.amount /\ status'[p] \notin {"none", "CREATED"}
  <2>1. call[c].pc = "write" /\ payment \in [Payrolls -> Payments \cup {Nothing}]
    BY <1>1, <1>3 DEF IInv, Typed, WritePayroll
  <2>2. p = call[c].target /\ payment'[p] = call[c].req.payment
    BY <1>3, <2>1 DEF WritePayroll
  <2>3. /\ call[c].req \in Requests /\ call[c].req.kind \in {"update", "credited"}
        /\ status' = [status EXCEPT ![p] = NewStatus(c)]
    BY <1>1, <1>3, <2>2, WriteFacts
  <2>4. ASSUME call[c].req.kind = "credited"
        PROVE  total'[p] = call[c].req.amount /\ status'[p] = "FUNDED"
    <3>1. NewStatus(c) = "FUNDED" /\ total[p] = call[c].req.amount
      BY <1>1, <2>1, <2>2, <2>4 DEF NewStatus, ChosenOK
    <3>2. total' = total
      BY <1>3, <3>1 DEF WritePayroll
    <3> QED BY <1>1, <2>3, <3>1, <3>2 DEF IInv, Typed
  <2> QED BY <2>2, <2>3, <2>4
<1>4. CASE \E c \in Calls : \/ \E r \in Requests : Begin(c, r)
                            \/ InsertPayroll(c)
                            \/ StartWorkflow(c) \/ RetryPayroll(c) \/ ReadPayroll(c)
                            \/ SumDisbursements(c) \/ MatchByDocument(c) \/ MatchByName(c)
                            \/ CallFails(c)
  BY <1>2, <1>4 DEF Begin, InsertPayroll, StartWorkflow, RetryPayroll, ReadPayroll,
     SumDisbursements, MatchByDocument, MatchByName, CallFails, rowVars
<1>5. CASE DisbursementStep \/ UNCHANGED vars
  BY <1>2, <1>5 DEF DisbursementStep, CreateDisbursement, InitiateDeposit, UpdateDisbursement,
     disbursementOnly, vars, rowVars
<1> QED BY <1>2, <1>3, <1>4, <1>5 DEF Next, CallStep

\* While calls follow each other, a payment of Mono's that is put down to a payroll is
\* what the payroll comes to, then and ever after, whatever updates and failures follow.
THEOREM PaymentsComeToTheTotal ==
    ASSUME PaymentContract
    PROVE  Spec => []PaymentIsTheTotalInTurn
<1>1. Init => PaidInv
  BY InTurnInitOK DEF Init, PaidInv, ChosenOK, PaidOK, Idle
<1>2. PaidInv /\ [Next]_vars => PaidInv'
  <2> SUFFICES ASSUME PaidInv, [Next]_vars PROVE PaidInv'
    OBVIOUS
  <2>1. InTurnInv' /\ world' = world
    BY InTurnStep DEF PaidInv, Next, vars
  <2> QED BY <2>1, ChosenStep, PaidStep DEF PaidInv, Serial
<1>3. PaidInv => PaymentIsTheTotalInTurn
  <2> SUFFICES ASSUME PaidInv, Serial, NEW r \in Requests, NEW p \in Payrolls, Credit(r, p)
               PROVE  total[p] = r.amount
    BY DEF PaymentIsTheTotalInTurn
  <2>1. r.kind = "credited" /\ payment[p] = r.payment
    BY DEF Credit
  <2>2. payment[p] # Nothing
    BY <2>1, PayrollAssumption DEF UpdateRequest, CreditedRequest, OtherRequest
  <2>3. PICK s \in Requests : /\ s.kind \in {"update", "credited"} /\ s.payment = r.payment
                              /\ s.kind = "credited" => total[p] = s.amount
    BY <2>1, <2>2 DEF PaidInv, PaidOK
  <2>4. r = s
    BY <2>1, <2>3 DEF PaymentContract
  <2> QED BY <2>1, <2>3, <2>4
<1> QED BY <1>1, <1>2, <1>3, PTL DEF Spec

-----------------------------------------------------------------------------
(* Documents: the payroll's calls, seen from them *)

LEMMA DocumentsStepIsNext == [DocumentsNext]_allVars => [Next]_vars
<1> SUFFICES ASSUME [DocumentsNext]_allVars PROVE [Next]_vars
  OBVIOUS
<1>1. CASE UNCHANGED allVars
  BY <1>1 DEF allVars
<1>2. CASE Next
  BY <1>2
<1>3. ASSUME NEW d \in Disbursements, NEW t \in Txs \cup {Nothing}, NEW a \in Credits \cup {0},
             PatchDisbursement(d, t, a)
      PROVE  [Next]_vars
  BY <1>3 DEF PatchDisbursement, Next, DisbursementStep
<1>4. ASSUME NEW k \in Kinds, WriteDocument(k) PROVE UNCHANGED vars
  BY <1>4 DEF WriteDocument, ReadForDocument, PopulateTemplates, Upload, AbandonDocument
<1>5. ASSUME NEW k \in Kinds, NEW p \in Payrolls, AskForDocument(k, p) PROVE UNCHANGED vars
  BY <1>5 DEF AskForDocument
<1> QED BY <1>1, <1>2, <1>3, <1>4, <1>5 DEF DocumentsNext

\* Once prepared, or while its total is computed, a payroll's disbursements are fixed
\* by the way the workflow proceeds.
Fixed(p) ==
    \/ "PREPARED" \in visited[p]
    \/ \E c \in Calls : call[c].pc \in {"total", "write"} /\ call[c].target = p

LEMMA SameSum ==
    ASSUME NEW p, \A e \in Employees : allocation'[<<p, e>>] = allocation[<<p, e>>]
    PROVE  Disbursed(p)' = Disbursed(p) /\ DisbursedSum(p)' = DisbursedSum(p)
<1>1. Disbursed(p)' = Disbursed(p)
  BY DEF Disbursed
<1>2. [e \in Disbursed(p)' |-> allocation'[<<p, e>>]] = [e \in Disbursed(p) |-> allocation[<<p, e>>]]
  BY <1>1 DEF Disbursed
<1> QED BY <1>1, <1>2 DEF DisbursedSum

LEMMA FixedSum ==
    ASSUME Planned, [DocumentsNext]_allVars, NEW p \in Payrolls, Fixed(p)
    PROVE  /\ \A e \in Employees : allocation'[<<p, e>>] = allocation[<<p, e>>]
           /\ Disbursed(p)' = Disbursed(p) /\ DisbursedSum(p)' = DisbursedSum(p)
<1>1. \A e \in Employees : allocation'[<<p, e>>] = allocation[<<p, e>>]
  <2> SUFFICES ASSUME NEW e \in Employees, allocation'[<<p, e>>] # allocation[<<p, e>>]
               PROVE  FALSE
    OBVIOUS
  <2>1. <<p, e>> \in Disbursements /\ <<p, e>>[1] = p
    BY DEF Disbursements
  <2>2. DisbursementsFirst
    BY DEF DocumentsNext, allVars, vars, disbursementVars
  <2>3. "PREPARED" \notin visited[p]
        /\ \A c \in Calls : call[c].pc \in {"total", "write"} => call[c].target # p
    BY <2>1, <2>2 DEF DisbursementsFirst
  <2> QED BY <2>3 DEF Fixed
<1> QED BY <1>1, SameSum

\* A sum that a call carries is the one of its payroll's disbursements, as is a total.
SumOK(c) ==
    call[c].sum # 0 =>
        /\ call[c].pc = "write" /\ call[c].target \in Payrolls
        /\ call[c].sum = DisbursedSum(call[c].target)
TotalAddsUp(p) ==
    total[p] # 0 => total[p] = DisbursedSum(p) /\ "PREPARED" \in visited[p]
TotalsOK == (\A c \in Calls : SumOK(c)) /\ (\A p \in Payrolls : TotalAddsUp(p))

\* Whence a call has its sum.
LEMMA SumSteps ==
    ASSUME IInv, [Next]_vars, NEW c \in Calls
    PROVE  \/ call'[c].sum = 0
           \/ call'[c] = call[c]
           \/ SumDisbursements(c)
           \/ call'[c].sum = call[c].sum /\ call[c].pc # "write"
<1>1. call \in [Calls -> CallShape] /\ call[c] \in CallShape
  BY DEF IInv, Typed
<1>2. ASSUME NEW r \in Requests, Begin(c, r) PROVE call'[c].sum = 0
  BY <1>1, <1>2 DEF Begin, Idle
<1>3. CASE InsertPayroll(c) \/ StartWorkflow(c) \/ RetryPayroll(c) \/ WritePayroll(c) \/ CallFails(c)
  BY <1>1, <1>3 DEF InsertPayroll, StartWorkflow, RetryPayroll, WritePayroll, CallFails, Goto,
     Finish, Idle, CallShape
<1>4. CASE ReadPayroll(c)
  BY <1>1, <1>4 DEF ReadPayroll, Finish, Idle, CallShape
<1>5. CASE MatchByDocument(c) \/ MatchByName(c)
  <2>1. call[c].pc \in {"document", "name"}
    BY <1>5 DEF MatchByDocument, MatchByName
  <2>2. \/ \E t : call' = [call EXCEPT ![c].target = t, ![c].pc = "read"]
        \/ \E m : call' = [call EXCEPT ![c].matches = m, ![c].pc = "name"]
        \/ Finish(c)
    BY <1>5 DEF MatchByDocument, MatchByName, Choose
  <2>3. ASSUME NEW t, call' = [call EXCEPT ![c].target = t, ![c].pc = "read"]
        PROVE  call'[c].sum = call[c].sum
    BY <1>1, <2>3 DEF CallShape
  <2>4. ASSUME NEW m, call' = [call EXCEPT ![c].matches = m, ![c].pc = "name"]
        PROVE  call'[c].sum = call[c].sum
    BY <1>1, <2>4 DEF CallShape
  <2>5. Finish(c) => call'[c].sum = 0
    BY <1>1 DEF Finish, Idle
  <2> QED BY <2>1, <2>2, <2>3, <2>4, <2>5
<1>6. ASSUME NEW d \in Calls \ {c}, CallStep(d) \/ CallFails(d) PROVE call'[c] = call[c]
  BY <1>6, OneCallSteps
<1>7. ASSUME NEW d \in Calls \ {c}, NEW r \in Requests, Begin(d, r) PROVE call'[c] = call[c]
  BY <1>1, <1>7 DEF Begin
<1>8. CASE DisbursementStep \/ UNCHANGED vars
  BY <1>8 DEF DisbursementStep, CreateDisbursement, InitiateDeposit, UpdateDisbursement,
     disbursementOnly, vars
<1> QED BY <1>2, <1>3, <1>4, <1>5, <1>6, <1>7, <1>8 DEF Next, CallStep

LEMMA SumsStep ==
    ASSUME IInv, Planned, TotalsOK, [DocumentsNext]_allVars
    PROVE  \A c \in Calls : SumOK(c)'
<1> SUFFICES ASSUME NEW c \in Calls, call'[c].sum # 0
             PROVE  \E q \in Payrolls : /\ call'[c].pc = "write" /\ call'[c].target = q
                                        /\ call'[c].sum = DisbursedSum(q)'
  BY DEF SumOK
<1>1. SumOK(c) /\ [Next]_vars /\ call[c] \in CallShape /\ call \in [Calls -> CallShape]
  BY DocumentsStepIsNext DEF TotalsOK, IInv, Typed
<1>2. CASE call'[c] = call[c]
  <2>1. PICK q \in Payrolls : /\ call[c].pc = "write" /\ call[c].target = q
                              /\ call[c].sum = DisbursedSum(q)
    BY <1>1, <1>2 DEF SumOK
  <2>2. DisbursedSum(q)' = DisbursedSum(q)
    BY <2>1, FixedSum DEF Fixed
  <2> QED BY <1>2, <2>1, <2>2
<1>3. CASE SumDisbursements(c)
  <2>1. PICK q \in Payrolls : call[c].pc = "total" /\ call[c].target = q
    BY <1>3 DEF SumDisbursements, IInv, CallsOK, CallOK
  <2>2. PICK found \in {DisbursedSum(q), 0} :
            call' = [call EXCEPT ![c].sum = found, ![c].pc = "write"]
    BY <1>3, <2>1 DEF SumDisbursements
  <2>3. call'[c].pc = "write" /\ call'[c].target = q /\ call'[c].sum = found
    BY <1>1, <2>1, <2>2 DEF CallShape
  <2>4. allocation' = allocation
    BY <1>3 DEF SumDisbursements, disbursementVars
  <2>5. DisbursedSum(q)' = DisbursedSum(q)
    BY <2>4, SameSum
  <2> QED BY <2>1, <2>2, <2>3, <2>5
<1>4. ~(call'[c].sum = call[c].sum /\ call[c].pc # "write")
  BY <1>1 DEF SumOK
<1> QED BY <1>1, <1>2, <1>3, <1>4, SumSteps

LEMMA TotalsStep ==
    ASSUME IInv, Planned, TotalsOK, [DocumentsNext]_allVars
    PROVE  \A p \in Payrolls : TotalAddsUp(p)'
<1> SUFFICES ASSUME NEW p \in Payrolls, total'[p] # 0
             PROVE  total'[p] = DisbursedSum(p)' /\ "PREPARED" \in visited'[p]
  BY DEF TotalAddsUp
<1>1. [Next]_vars /\ visited[p] \subseteq visited'[p]
  BY DocumentsStepIsNext, HistoryStays
<1>2. CASE total'[p] = total[p]
  <2>1. total[p] = DisbursedSum(p) /\ "PREPARED" \in visited[p]
    BY <1>2 DEF TotalsOK, TotalAddsUp
  <2>2. DisbursedSum(p)' = DisbursedSum(p)
    BY <2>1, FixedSum DEF Fixed
  <2> QED BY <1>1, <1>2, <2>1, <2>2
<1>3. ASSUME NEW c \in Calls, WritePayroll(c), total'[p] # total[p]
      PROVE  total'[p] = DisbursedSum(p)' /\ "PREPARED" \in visited'[p]
  <2>1. total \in [Payrolls -> Sums] /\ visited \in [Payrolls -> SUBSET PayrollStatus]
    BY DEF IInv, Typed
  <2>2. p = call[c].target /\ total'[p] = call[c].sum /\ NewStatus(c) = "PREPARED"
    BY <1>3, <2>1 DEF WritePayroll
  <2>3. call[c].sum = DisbursedSum(p)
    BY <2>2 DEF TotalsOK, SumOK
  <2>4. DisbursedSum(p)' = DisbursedSum(p)
    BY <1>3, SameSum DEF WritePayroll, disbursementVars
  <2>5. "PREPARED" \in visited'[p]
    BY <1>3, <2>1, <2>2, WriteFacts
  <2> QED BY <2>2, <2>3, <2>4, <2>5
<1>4. CASE \E c \in Calls : \/ \E r \in Requests : Begin(c, r)
                            \/ InsertPayroll(c)
                            \/ StartWorkflow(c) \/ RetryPayroll(c) \/ ReadPayroll(c)
                            \/ SumDisbursements(c) \/ MatchByDocument(c) \/ MatchByName(c)
                            \/ CallFails(c)
  BY <1>2, <1>4 DEF Begin, InsertPayroll, StartWorkflow, RetryPayroll, ReadPayroll,
     SumDisbursements, MatchByDocument, MatchByName, CallFails, rowVars
<1>5. CASE DisbursementStep \/ UNCHANGED vars
  BY <1>2, <1>5 DEF DisbursementStep, CreateDisbursement, InitiateDeposit, UpdateDisbursement,
     disbursementOnly, vars, rowVars
<1> QED BY <1>1, <1>2, <1>3, <1>4, <1>5 DEF Next, CallStep

-----------------------------------------------------------------------------
(* Documents: what is printed, and what the four keys hold *)

Texts == {NoDocument} \cup
    [lines : UNION {[S -> Nat \X Nat] : S \in SUBSET Employees}, total : Sums, credit : Sums]
WritingShape == [pc : {"idle", "payroll", "lines", "upload"}, payroll : Payrolls \cup {Nothing},
                 total : Sums, text : Texts, next : 1..4]

DocTyped ==
    /\ credited \in [Disbursements -> Nat]
    /\ writing \in [Kinds -> WritingShape]
    /\ objects \in [Kinds -> [Payrolls -> [Keys -> Texts]]]
    /\ answered \in [Kinds -> [Payrolls -> BOOLEAN]]
    /\ \A k \in Kinds : Busy(k) => writing[k].payroll \in Payrolls

\* A text that lists the disbursements there are, or none, and their sum as its total.
Good(p, text) ==
    /\ "PREPARED" \in visited[p]
    /\ text # NoDocument /\ text.total = DisbursedSum(p)
    /\ DOMAIN text.lines \in {{}, Disbursed(p)}
    /\ \A e \in DOMAIN text.lines : text.lines[e][1] = allocation[<<p, e>>]

\* The keys are written from the first on.
WritingOK(k) ==
    LET w == writing[k] IN
    w.pc # "idle" =>
        /\ ~answered[k][w.payroll]
        /\ w.pc # "upload" => w.next = 1
        /\ w.pc = "lines" /\ w.total # 0 =>
            w.total = DisbursedSum(w.payroll) /\ "PREPARED" \in visited[w.payroll]
        /\ w.pc = "upload" =>
            /\ Good(w.payroll, w.text)
            /\ \A i \in 1..4 : i < w.next => objects[k][w.payroll][Uploads[i]] = w.text

AnsweredOK(k, p) ==
    answered[k][p] =>
        \E text \in Texts : Good(p, text) /\ \A f \in Keys : objects[k][p][f] = text

DocInv ==
    /\ IInv /\ DocTyped
    /\ Planned => /\ TotalsOK
                  /\ \A k \in Kinds : WritingOK(k)
                  /\ \A k \in Kinds, p \in Payrolls : AnsweredOK(k, p)

LEMMA FourKeys ==
    /\ Keys = {Uploads[i] : i \in 1..4} /\ Len(Uploads) = 4
    /\ \A i, j \in 1..4 : Uploads[i] = Uploads[j] => i = j
<1>1. DOMAIN Uploads = 1..4 /\ Len(Uploads) = 4
  BY DEF Uploads
<1>2. Keys = {Uploads[i] : i \in 1..4}
  BY <1>1 DEF Keys, Range
<1>3. \A i, j \in 1..4 : Uploads[i] = Uploads[j] => i = j
  BY DEF Uploads
<1> QED BY <1>1, <1>2, <1>3

LEMMA DocInitOK == DocumentsInit => DocInv
<1> SUFFICES ASSUME DocumentsInit PROVE DocInv
  OBVIOUS
<1>1. Init /\ IInv
  BY InitOK DEF DocumentsInit
<1>2. AtRest \in WritingShape
  BY DEF AtRest, WritingShape, Texts, Sums
<1>3. DocTyped
  BY <1>2 DEF DocumentsInit, DocTyped, Texts, Busy, AtRest
<1>4. TotalsOK
  BY <1>1 DEF Init, Idle, TotalsOK, SumOK, TotalAddsUp
<1>5. \A k \in Kinds : WritingOK(k)
  BY DEF DocumentsInit, WritingOK, AtRest
<1>6. \A k \in Kinds, p \in Payrolls : AnsweredOK(k, p)
  BY DEF DocumentsInit, AnsweredOK
<1> QED BY <1>1, <1>3, <1>4, <1>5, <1>6 DEF DocInv

\* A good text stays good: its payroll was prepared, so its disbursements are fixed.
LEMMA GoodStays ==
    ASSUME IInv, Planned, [DocumentsNext]_allVars, NEW p \in Payrolls, NEW text, Good(p, text)
    PROVE  Good(p, text)'
<1>1. Fixed(p) /\ "PREPARED" \in visited'[p]
  BY DocumentsStepIsNext, HistoryStays DEF Fixed, Good
<1>2. /\ \A e \in Employees : allocation'[<<p, e>>] = allocation[<<p, e>>]
      /\ Disbursed(p)' = Disbursed(p) /\ DisbursedSum(p)' = DisbursedSum(p)
  BY <1>1, FixedSum
<1>3. DOMAIN text.lines \subseteq Employees
  BY DEF Good, Disbursed
<1> QED BY <1>1, <1>2, <1>3 DEF Good

\* A document nobody writes on at a step stays as it is.
LEMMA WritingStays ==
    ASSUME DocInv, Planned, [DocumentsNext]_allVars, NEW k \in Kinds,
           writing'[k] = writing[k], answered'[k] = answered[k], objects'[k] = objects[k]
    PROVE  WritingOK(k)' /\ \A p \in Payrolls : AnsweredOK(k, p)'
<1>1. IInv /\ WritingOK(k) /\ \A p \in Payrolls : AnsweredOK(k, p)
  BY DEF DocInv
<1>2. ASSUME NEW p \in Payrolls, answered'[k][p]
      PROVE  \E text \in Texts : Good(p, text)' /\ \A f \in Keys : objects'[k][p][f] = text
  <2>1. PICK text \in Texts : Good(p, text) /\ \A f \in Keys : objects[k][p][f] = text
    BY <1>1, <1>2 DEF AnsweredOK
  <2> QED BY <1>1, <2>1, GoodStays
<1>3. \A p \in Payrolls : AnsweredOK(k, p)'
  BY <1>2 DEF AnsweredOK
<1>4. WritingOK(k)'
  <2> SUFFICES ASSUME writing[k].pc # "idle" PROVE WritingOK(k)'
    BY DEF WritingOK
  <2>1. PICK p \in Payrolls : p = writing[k].payroll
    BY DEF DocInv, DocTyped, Busy
  <2>2. ASSUME writing[k].pc = "lines", writing[k].total # 0
        PROVE  writing[k].total = DisbursedSum(p)' /\ "PREPARED" \in visited'[p]
    <3>1. writing[k].total = DisbursedSum(p) /\ "PREPARED" \in visited[p]
      BY <1>1, <2>1, <2>2 DEF WritingOK
    <3>2. Fixed(p) /\ "PREPARED" \in visited'[p]
      BY <1>1, <3>1, DocumentsStepIsNext, HistoryStays DEF Fixed
    <3> QED BY <3>1, <3>2, FixedSum
  <2>3. ASSUME writing[k].pc = "upload" PROVE Good(p, writing[k].text)'
    <3>1. PICK text : text = writing[k].text
      OBVIOUS
    <3>2. Good(p, text)
      BY <1>1, <2>1, <2>3, <3>1 DEF WritingOK
    <3>3. Good(p, text)' /\ text = writing'[k].text
      BY <1>1, <3>1, <3>2, GoodStays
    <3> QED BY <3>3
  <2> QED BY <1>1, <2>1, <2>2, <2>3 DEF WritingOK
<1> QED BY <1>3, <1>4

\* What is printed once the queries have answered.
LEMMA Populated ==
    ASSUME IInv, DocTyped, NEW k \in Kinds, NEW p \in Payrolls, p = writing[k].payroll,
           PopulateTemplates(k)
    PROVE  \E text \in Texts :
                /\ writing' = [writing EXCEPT ![k].pc = "upload", ![k].text = text]
                /\ text # NoDocument /\ text.total = writing[k].total /\ text.total # 0
                /\ DOMAIN text.lines \in {{}, Disbursed(p)}
                /\ \A e \in DOMAIN text.lines : text.lines[e][1] = allocation[<<p, e>>]
<1>0. PICK S \in {Disbursed(p), {}} :
        LET ls == Lines(k, writing[k].payroll, S)
            printed == [lines |-> ls, total |-> writing[k].total,
                        credit |-> SumFunction([e \in S |-> ls[e][2]])]
        IN  /\ Printable(k, printed)
            /\ writing' = [writing EXCEPT ![k].pc = "upload", ![k].text = printed]
  BY DEF PopulateTemplates
<1> DEFINE lines == Lines(k, p, S)
           text == [lines |-> lines, total |-> writing[k].total,
                    credit |-> SumFunction([e \in S |-> lines[e][2]])]
<1>1. Printable(k, text) /\ writing' = [writing EXCEPT ![k].pc = "upload", ![k].text = text]
  BY <1>0
<1>2. S \in SUBSET Employees
  BY DEF Disbursed
<1>3. /\ lines \in [S -> Nat \X Nat]
      /\ \A e \in S : lines[e][1] = allocation[<<p, e>>]
  <2>1. \A e \in S : allocation[<<p, e>>] \in Nat /\ credited[<<p, e>>] \in Nat
    BY <1>2 DEF IInv, Typed, DocTyped, Disbursements
  <2> QED BY <2>1 DEF Lines
<1>4. SumFunction([e \in S |-> lines[e][2]]) \in Sums
  <2> HIDE DEF lines
  <2>1. [e \in S |-> lines[e][2]] \in [S -> Nat]
    BY <1>3
  <2> QED BY <1>2, <2>1 DEF Sums, Amounts
<1>5. writing[k].total \in Sums
  BY DEF DocTyped, WritingShape
<1>6. text \in Texts
  <2> HIDE DEF lines
  <2> QED BY <1>2, <1>3, <1>4, <1>5 DEF Texts
<1>7. text.total # 0 /\ text.total = writing[k].total
  BY <1>1 DEF Printable
<1>8. text # NoDocument
  BY <1>7 DEF NoDocument
<1>9. DOMAIN text.lines = S
  BY <1>3
<1>10. writing' = [writing EXCEPT ![k].pc = "upload", ![k].text = text]
  BY <1>1
<1>11. \A e \in DOMAIN text.lines : text.lines[e][1] = allocation[<<p, e>>]
  <2> HIDE DEF lines
  <2> QED BY <1>3, <1>9
<1>12. DOMAIN text.lines \in {{}, Disbursed(p)}
  BY <1>0, <1>9
<1> HIDE DEF text
<1> QED BY <1>6, <1>7, <1>8, <1>10, <1>11, <1>12

LEMMA DocTypedStep ==
    ASSUME DocInv, [DocumentsNext]_allVars
    PROVE  DocTyped'
<1>1. IInv /\ DocTyped
  BY DEF DocInv
<1>2. CASE UNCHANGED docVars
  BY <1>1, <1>2 DEF DocTyped, docVars, Busy
<1>3. ASSUME NEW d \in Disbursements, NEW t \in Txs \cup {Nothing}, NEW a \in Credits \cup {0},
             PatchDisbursement(d, t, a)
      PROVE  DocTyped'
  <2>1. a \in Nat
    BY DocumentsAssumption
  <2> QED BY <1>1, <1>3, <2>1 DEF DocTyped, PatchDisbursement, Busy
<1>4. ASSUME NEW k \in Kinds, NEW p \in Payrolls, AskForDocument(k, p) PROVE DocTyped'
  <2> DEFINE w == [AtRest EXCEPT !.pc = "payroll", !.payroll = p]
  <2>1. w \in WritingShape /\ w.payroll = p
    <3>1. AtRest \in WritingShape
      BY DEF AtRest, WritingShape, Texts, Sums
    <3>2. ASSUME NEW i \in WritingShape
          PROVE  /\ [i EXCEPT !.pc = "payroll", !.payroll = p] \in WritingShape
                 /\ [i EXCEPT !.pc = "payroll", !.payroll = p].payroll = p
      BY DEF WritingShape
    <3> QED BY <3>1, <3>2
  <2>2. writing' = [writing EXCEPT ![k] = w]
    BY <1>4 DEF AskForDocument
  <2> HIDE DEF w
  <2>3. writing' \in [Kinds -> WritingShape] /\ \A j \in Kinds : Busy(j)' => writing'[j].payroll \in Payrolls
    BY <1>1, <2>1, <2>2 DEF DocTyped, Busy
  <2> QED BY <1>1, <1>4, <2>3 DEF DocTyped, AskForDocument, Give
<1>5. ASSUME NEW k \in Kinds, AbandonDocument(k) PROVE DocTyped'
  <2>1. AtRest \in WritingShape
    BY DEF AtRest, WritingShape, Texts, Sums
  <2>2. AtRest.pc = "idle"
    BY DEF AtRest
  <2> QED BY <1>1, <1>5, <2>1, <2>2 DEF DocTyped, AbandonDocument, Busy
<1>6. ASSUME NEW k \in Kinds, NEW p \in Payrolls, p = writing[k].payroll, ReadForDocument(k)
      PROVE  DocTyped'
  <2>1. total[p] \in Sums
    BY <1>1 DEF IInv, Typed
  <2>2. [writing[k] EXCEPT !.pc = "lines", !.total = total[p]] \in WritingShape
    BY <1>1, <2>1 DEF DocTyped, WritingShape
  <2>3. writing' = [writing EXCEPT ![k] = [writing[k] EXCEPT !.pc = "lines", !.total = total[p]]]
    BY <1>6 DEF ReadForDocument
  <2>4. [writing[k] EXCEPT !.pc = "lines", !.total = total[p]].payroll = p
    BY <1>1, <1>6 DEF DocTyped, WritingShape
  <2> QED BY <1>1, <1>6, <2>2, <2>3, <2>4 DEF DocTyped, ReadForDocument, Busy
<1>7. ASSUME NEW k \in Kinds, NEW p \in Payrolls, p = writing[k].payroll, PopulateTemplates(k)
      PROVE  DocTyped'
  <2>1. PICK text \in Texts : writing' = [writing EXCEPT ![k].pc = "upload", ![k].text = text]
    BY <1>1, <1>7, Populated
  <2>2. [writing[k] EXCEPT !.pc = "upload", !.text = text] \in WritingShape
    BY <1>1 DEF DocTyped, WritingShape
  <2>3. writing' = [writing EXCEPT ![k] = [writing[k] EXCEPT !.pc = "upload", !.text = text]]
    BY <2>1
  <2>4. [writing[k] EXCEPT !.pc = "upload", !.text = text].payroll = p
    BY <1>1, <1>7 DEF DocTyped, WritingShape
  <2> QED BY <1>1, <1>7, <2>2, <2>3, <2>4 DEF DocTyped, PopulateTemplates, Busy
<1>8. ASSUME NEW k \in Kinds, NEW p \in Payrolls, p = writing[k].payroll, Upload(k)
      PROVE  DocTyped'
  <2>1. writing[k] \in WritingShape /\ Uploads[writing[k].next] \in Keys
    BY <1>1, FourKeys DEF DocTyped, WritingShape
  <2>2. objects' \in [Kinds -> [Payrolls -> [Keys -> Texts]]]
    BY <1>1, <1>8, <2>1 DEF DocTyped, Upload, WritingShape
  <2>3. CASE UploadsPast(k)
    <3>1. AtRest \in WritingShape /\ AtRest.pc = "idle"
      BY DEF AtRest, WritingShape, Texts, Sums
    <3>2. writing' = [writing EXCEPT ![k] = AtRest] /\ answered' = [answered EXCEPT ![k][p] = TRUE]
      BY <1>8, <2>3 DEF Upload, AfterUpload, Give
    <3> QED BY <1>1, <1>8, <2>2, <3>1, <3>2 DEF DocTyped, Upload, Busy
  <2>4. CASE ~UploadsPast(k)
    <3> DEFINE w == [writing[k] EXCEPT !.next = writing[k].next + 1]
    <3>1. writing[k].next + 1 \in 1..4
      BY <2>1, <2>4, FourKeys DEF UploadsPast, WritingShape
    <3>2. w \in WritingShape /\ w.payroll = p
      BY <1>8, <2>1, <3>1 DEF WritingShape
    <3>3. writing' = [writing EXCEPT ![k] = w] /\ answered' = answered
      BY <1>8, <2>4 DEF Upload, AfterUpload
    <3> HIDE DEF w
    <3> QED BY <1>1, <1>8, <2>2, <3>2, <3>3 DEF DocTyped, Upload, Busy
  <2> QED BY <2>3, <2>4
<1>9. ASSUME NEW k \in Kinds, WriteDocument(k) PROVE DocTyped'
  <2>1. Busy(k) => writing[k].payroll \in Payrolls
    BY DEF DocInv, DocTyped
  <2> QED BY <1>5, <1>6, <1>7, <1>8, <1>9, <2>1 DEF WriteDocument, Busy, ReadForDocument,
          PopulateTemplates, Upload
<1> QED BY <1>2, <1>3, <1>4, <1>9 DEF DocumentsNext, allVars

LEMMA AnsweredStays ==
    ASSUME DocInv, Planned, [DocumentsNext]_allVars, NEW k \in Kinds, NEW p \in Payrolls,
           objects'[k][p] = objects[k][p], answered'[k][p] => answered[k][p]
    PROVE  AnsweredOK(k, p)'
<1> SUFFICES ASSUME answered'[k][p]
             PROVE  \E text \in Texts : Good(p, text)' /\ \A f \in Keys : objects'[k][p][f] = text
  BY DEF AnsweredOK
<1>1. PICK text \in Texts : Good(p, text) /\ \A f \in Keys : objects[k][p][f] = text
  BY DEF DocInv, AnsweredOK
<1> QED BY <1>1, GoodStays DEF DocInv

\* Each step of a document's call.
LEMMA AskedOK ==
    ASSUME DocInv, Planned, [DocumentsNext]_allVars, NEW k \in Kinds, NEW q \in Payrolls,
           AskForDocument(k, q)
    PROVE  WritingOK(k)' /\ \A p \in Payrolls : AnsweredOK(k, p)'
<1>1. DocTyped
  BY DEF DocInv
<1>2. writing'[k].pc = "payroll" /\ writing'[k].payroll = q /\ writing'[k].next = 1
  BY <1>1 DEF DocTyped, AskForDocument, AtRest
<1>3. /\ objects' = objects /\ answered'[k][q] = FALSE
      /\ \A p \in Payrolls : answered'[k][p] => answered[k][p]
  BY <1>1 DEF DocTyped, AskForDocument, Give
<1>4. WritingOK(k)'
  BY <1>2, <1>3 DEF WritingOK
<1> QED BY <1>3, <1>4, AnsweredStays

LEMMA AbandonedOK ==
    ASSUME DocInv, Planned, [DocumentsNext]_allVars, NEW k \in Kinds, AbandonDocument(k)
    PROVE  WritingOK(k)' /\ \A p \in Payrolls : AnsweredOK(k, p)'
<1>1. writing'[k].pc = "idle" /\ objects' = objects /\ answered' = answered
  BY DEF AbandonDocument, DocInv, DocTyped, AtRest
<1> QED BY <1>1, AnsweredStays DEF WritingOK

LEMMA ReadOnOK ==
    ASSUME DocInv, Planned, [DocumentsNext]_allVars, NEW k \in Kinds, ReadForDocument(k)
    PROVE  WritingOK(k)' /\ \A p \in Payrolls : AnsweredOK(k, p)'
<1>1. PICK q \in Payrolls : q = writing[k].payroll
  BY DEF DocInv, DocTyped, Busy, ReadForDocument
<1>2. writing[k] \in WritingShape /\ writing \in [Kinds -> WritingShape]
  BY DEF DocInv, DocTyped
<1>3. /\ writing'[k].pc = "lines" /\ writing'[k].payroll = q /\ writing'[k].total = total[q]
      /\ writing'[k].next = writing[k].next
  BY <1>1, <1>2 DEF ReadForDocument, WritingShape
<1>4. /\ objects' = objects /\ answered' = answered
      /\ allocation' = allocation /\ visited' = visited
  BY DEF ReadForDocument, vars, disbursementVars, rowVars
<1>5. ~answered[k][q] /\ writing[k].next = 1
  BY <1>1 DEF DocInv, WritingOK, ReadForDocument
<1>6. total[q] # 0 => total[q] = DisbursedSum(q)' /\ "PREPARED" \in visited[q]
  BY <1>4, SameSum DEF DocInv, TotalsOK, TotalAddsUp
<1>7. WritingOK(k)'
  BY <1>3, <1>4, <1>5, <1>6 DEF WritingOK
<1> QED BY <1>4, <1>7, AnsweredStays

LEMMA PopulatedOK ==
    ASSUME DocInv, Planned, [DocumentsNext]_allVars, NEW k \in Kinds, PopulateTemplates(k)
    PROVE  WritingOK(k)' /\ \A p \in Payrolls : AnsweredOK(k, p)'
<1>1. PICK q \in Payrolls : q = writing[k].payroll
  BY DEF DocInv, DocTyped, Busy, PopulateTemplates
<1>2. writing[k] \in WritingShape /\ writing \in [Kinds -> WritingShape]
  BY DEF DocInv, DocTyped
<1>3. PICK text \in Texts :
            /\ writing' = [writing EXCEPT ![k].pc = "upload", ![k].text = text]
            /\ text # NoDocument /\ text.total = writing[k].total /\ text.total # 0
            /\ DOMAIN text.lines \in {{}, Disbursed(q)}
            /\ \A e \in DOMAIN text.lines : text.lines[e][1] = allocation[<<q, e>>]
  BY <1>1, Populated DEF DocInv
<1>4. /\ writing'[k].pc = "upload" /\ writing'[k].payroll = q /\ writing'[k].text = text
      /\ writing'[k].next = writing[k].next
  BY <1>1, <1>2, <1>3 DEF WritingShape
<1>5. objects' = objects /\ answered' = answered
  BY DEF PopulateTemplates
<1>6. /\ ~answered[k][q] /\ writing[k].next = 1
      /\ text.total = DisbursedSum(q) /\ "PREPARED" \in visited[q]
  BY <1>1, <1>3 DEF DocInv, WritingOK, PopulateTemplates
<1>7. Good(q, text)
  BY <1>3, <1>6 DEF Good
<1>8. Good(q, text)'
  BY <1>7, GoodStays DEF DocInv
<1>9. WritingOK(k)'
  BY <1>4, <1>5, <1>6, <1>8 DEF WritingOK
<1> QED BY <1>5, <1>9, AnsweredStays

LEMMA UploadedOK ==
    ASSUME DocInv, Planned, [DocumentsNext]_allVars, NEW k \in Kinds, Upload(k)
    PROVE  WritingOK(k)' /\ \A p \in Payrolls : AnsweredOK(k, p)'
<1>1. PICK q \in Payrolls, text \in Texts, n \in 1..4 :
        q = writing[k].payroll /\ text = writing[k].text /\ n = writing[k].next
  BY DEF DocInv, DocTyped, Busy, Upload, WritingShape
<1>2. /\ writing[k] \in WritingShape /\ writing \in [Kinds -> WritingShape]
      /\ objects \in [Kinds -> [Payrolls -> [Keys -> Texts]]]
      /\ answered \in [Kinds -> [Payrolls -> BOOLEAN]]
  BY DEF DocInv, DocTyped
<1>3. /\ Good(q, text) /\ ~answered[k][q]
      /\ \A i \in 1..4 : i < n => objects[k][q][Uploads[i]] = text
  BY <1>1 DEF DocInv, WritingOK, Upload
<1>4. Good(q, text)'
  BY <1>3, GoodStays DEF DocInv
<1>5. objects' = [objects EXCEPT ![k][q][Uploads[n]] = text]
  BY <1>1 DEF Upload
<1>6. /\ \A p \in Payrolls \ {q} : objects'[k][p] = objects[k][p]
      /\ \A i \in 1..4 : i <= n => objects'[k][q][Uploads[i]] = text
  <2>1. objects'[k] = [objects[k] EXCEPT ![q][Uploads[n]] = text]
    BY <1>2, <1>5
  <2>2. \A p \in Payrolls \ {q} : objects'[k][p] = objects[k][p]
    BY <1>2, <2>1
  <2>3. objects'[k][q] = [objects[k][q] EXCEPT ![Uploads[n]] = text]
    BY <1>2, <2>1
  <2>4. \A i \in 1..4 : Uploads[i] \in Keys
    BY FourKeys
  <2>5. ASSUME NEW i \in 1..4, i <= n PROVE objects'[k][q][Uploads[i]] = text
    <3>1. CASE i = n
      BY <1>2, <2>3, <2>4, <3>1
    <3>2. CASE i < n
      BY <1>2, <1>3, <2>3, <2>4, <3>2
    <3> QED BY <2>5, <3>1, <3>2
  <2> QED BY <2>2, <2>5
<1>7. CASE UploadsPast(k)
  <2>1. /\ n = 4 /\ writing' = [writing EXCEPT ![k] = AtRest]
        /\ answered' = [answered EXCEPT ![k][q] = TRUE]
    BY <1>1, <1>7, FourKeys DEF Upload, AfterUpload, UploadsPast, Give
  <2>2. writing'[k].pc = "idle"
    BY <1>2, <2>1 DEF AtRest
  <2>3. \A f \in Keys : objects'[k][q][f] = text
    BY <1>6, <2>1, FourKeys
  <2>4. AnsweredOK(k, q)'
    BY <1>4, <2>3 DEF AnsweredOK
  <2>5. \A p \in Payrolls \ {q} : AnsweredOK(k, p)'
    BY <1>2, <1>6, <2>1, AnsweredStays
  <2> QED BY <2>2, <2>4, <2>5 DEF WritingOK
<1>8. CASE ~UploadsPast(k)
  <2>1. /\ writing' = [writing EXCEPT ![k] = [writing[k] EXCEPT !.next = n + 1]]
        /\ answered' = answered
    BY <1>1, <1>8 DEF Upload, AfterUpload
  <2>2. /\ writing'[k].pc = "upload" /\ writing'[k].payroll = q /\ writing'[k].text = text
        /\ writing'[k].next = n + 1
    BY <1>1, <1>2, <2>1 DEF WritingShape, Upload
  <2>3. \A i \in 1..4 : i < n + 1 => objects'[k][q][Uploads[i]] = text
    BY <1>6
  <2>4. WritingOK(k)'
    BY <1>3, <1>4, <2>1, <2>2, <2>3 DEF WritingOK
  <2>5. \A p \in Payrolls \ {q} : AnsweredOK(k, p)'
    BY <1>6, <2>1, AnsweredStays
  <2>6. AnsweredOK(k, q)'
    BY <1>3, <2>1 DEF AnsweredOK
  <2> QED BY <2>4, <2>5, <2>6
<1> QED BY <1>7, <1>8

LEMMA DocStep == DocInv /\ [DocumentsNext]_allVars => DocInv'
<1> SUFFICES ASSUME DocInv, [DocumentsNext]_allVars PROVE DocInv'
  OBVIOUS
<1>1. IInv' /\ DocTyped' /\ world' = world
  BY DocumentsStepIsNext, StepOK, DocTypedStep DEF DocInv, Next, vars
<1>2. SUFFICES ASSUME Planned
               PROVE  /\ TotalsOK'
                      /\ \A k \in Kinds : WritingOK(k)' /\ \A p \in Payrolls : AnsweredOK(k, p)'
  BY <1>1 DEF DocInv, Planned
<1>3. TotalsOK'
  <2>1. (\A c \in Calls : SumOK(c)') /\ (\A p \in Payrolls : TotalAddsUp(p)')
    BY <1>2, SumsStep, TotalsStep DEF DocInv, TotalsOK
  <2> QED BY <2>1 DEF TotalsOK
<1> SUFFICES ASSUME NEW k \in Kinds
             PROVE  WritingOK(k)' /\ \A p \in Payrolls : AnsweredOK(k, p)'
  BY <1>3
<1>4. CASE writing'[k] = writing[k] /\ answered'[k] = answered[k] /\ objects'[k] = objects[k]
  BY <1>2, <1>4, WritingStays
<1>5. ASSUME NEW j \in Kinds \ {k}, WriteDocument(j) \/ \E p \in Payrolls : AskForDocument(j, p)
      PROVE  writing'[k] = writing[k] /\ answered'[k] = answered[k] /\ objects'[k] = objects[k]
  BY <1>5 DEF DocInv, DocTyped, WriteDocument, ReadForDocument, PopulateTemplates, Upload,
     AfterUpload, AbandonDocument, AskForDocument, Give
<1>6. CASE WriteDocument(k) \/ \E p \in Payrolls : AskForDocument(k, p)
  BY <1>2, <1>6, AskedOK, AbandonedOK, ReadOnOK, PopulatedOK, UploadedOK DEF WriteDocument
<1>7. CASE (Next /\ UNCHANGED docVars) \/ UNCHANGED allVars
  BY <1>4, <1>7 DEF docVars, allVars
<1>8. CASE \E d \in Disbursements, t \in Txs \cup {Nothing}, a \in Credits \cup {0} :
            PatchDisbursement(d, t, a)
  BY <1>4, <1>8 DEF PatchDisbursement
<1> QED BY <1>4, <1>5, <1>6, <1>7, <1>8 DEF DocumentsNext

\* Whenever a document was answered, whatever calls for it failed or overlapped the
\* payroll's own, its four objects are one text, whose lines come to the total; and the
\* invoice and the receipt agree.  The workflow makes the disbursements first; queries
\* and uploads may fail as they like.
THEOREM DocumentsAgree == DocumentsSpec => []DocumentsAddUp
<1>1. DocInv => DocumentsAddUp
  <2> SUFFICES ASSUME DocInv, Planned, NEW p \in Payrolls
               PROVE  /\ \A k \in Kinds : answered[k][p] =>
                            \E text \in {objects[k][p][f] : f \in Keys} :
                                /\ text # NoDocument /\ AddsUp(text)
                                /\ \A f \in Keys : objects[k][p][f] = text
                      /\ answered["inv"][p] /\ answered["rct"][p] =>
                            LET invoice == objects["inv"][p][Uploads[1]].lines
                                receipt == objects["rct"][p][Uploads[1]].lines
                            IN  \/ {} \in {DOMAIN invoice, DOMAIN receipt}
                                \/ /\ DOMAIN invoice = DOMAIN receipt
                                   /\ \A e \in DOMAIN invoice : invoice[e][1] = receipt[e][1]
    BY DEF DocumentsAddUp
  <2>1. Uploads[1] \in Keys
    BY FourKeys
  <2>2. ASSUME NEW k \in Kinds, answered[k][p]
        PROVE  Good(p, objects[k][p][Uploads[1]])
               /\ \A f \in Keys : objects[k][p][f] = objects[k][p][Uploads[1]]
    BY <2>1, <2>2 DEF DocInv, AnsweredOK
  <2>3. ASSUME NEW text, Good(p, text) PROVE AddsUp(text)
    <3>1. SUFFICES ASSUME DOMAIN text.lines = Disbursed(p)
                   PROVE  text.total = SumFunction([e \in DOMAIN text.lines |-> text.lines[e][1]])
      BY <2>3 DEF Good, AddsUp
    <3>2. [e \in DOMAIN text.lines |-> text.lines[e][1]]
            = [e \in Disbursed(p) |-> allocation[<<p, e>>]]
      BY <2>3, <3>1 DEF Good
    <3> QED BY <2>3, <3>2 DEF Good, DisbursedSum
  <2>4. \A k \in Kinds : answered[k][p] =>
            \E text \in {objects[k][p][f] : f \in Keys} :
                /\ text # NoDocument /\ AddsUp(text)
                /\ \A f \in Keys : objects[k][p][f] = text
    BY <2>1, <2>2, <2>3 DEF Good
  <2>5. ASSUME answered["inv"][p], answered["rct"][p]
        PROVE  LET invoice == objects["inv"][p][Uploads[1]].lines
                   receipt == objects["rct"][p][Uploads[1]].lines
               IN  \/ {} \in {DOMAIN invoice, DOMAIN receipt}
                   \/ /\ DOMAIN invoice = DOMAIN receipt
                      /\ \A e \in DOMAIN invoice : invoice[e][1] = receipt[e][1]
    <3>1. "inv" \in Kinds /\ "rct" \in Kinds
      BY DEF Kinds
    <3> DEFINE invoice == objects["inv"][p][Uploads[1]]
               receipt == objects["rct"][p][Uploads[1]]
    <3>2. Good(p, invoice) /\ Good(p, receipt)
      BY <2>2, <2>5, <3>1
    <3>3. /\ DOMAIN invoice.lines \in {{}, Disbursed(p)}
          /\ DOMAIN receipt.lines \in {{}, Disbursed(p)}
          /\ \A e \in DOMAIN invoice.lines : invoice.lines[e][1] = allocation[<<p, e>>]
          /\ \A e \in DOMAIN receipt.lines : receipt.lines[e][1] = allocation[<<p, e>>]
      BY <3>2 DEF Good
    <3> HIDE DEF invoice, receipt
    <3>4. \/ {} \in {DOMAIN invoice.lines, DOMAIN receipt.lines}
          \/ /\ DOMAIN invoice.lines = DOMAIN receipt.lines
             /\ DOMAIN receipt.lines = Disbursed(p)
      BY <3>3
    <3>5. ASSUME DOMAIN invoice.lines = DOMAIN receipt.lines,
                 NEW e \in DOMAIN invoice.lines
          PROVE  invoice.lines[e][1] = receipt.lines[e][1]
      <4>1. invoice.lines[e][1] = allocation[<<p, e>>]
        BY <3>3
      <4>2. receipt.lines[e][1] = allocation[<<p, e>>]
        BY <3>3, <3>5
      <4> QED BY <4>1, <4>2
    <3> QED BY <3>4, <3>5 DEF invoice, receipt
  <2> QED BY <2>4, <2>5
<1> QED BY <1>1, DocInitOK, DocStep, PTL DEF DocumentsSpec
=============================================================================
