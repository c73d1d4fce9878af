------------------------------ MODULE MCPayroll -----------------------------
(***************************************************************************)
(* Small instances of Payroll and PayrollDocuments for TLC: three worlds   *)
(* in one run.  In one, calls follow each other; in another two calls      *)
(* overlap; in the third a payroll of two employees is invoiced, paid out  *)
(* and receipted.                                                          *)
(***************************************************************************)
EXTENDS PayrollDocuments, TLC

CONSTANTS pay1, pay2, ann, ben, acme, apex, docA, docB, docX, nameA, m1, m2, t1, t2, c1, c2

\* Two employers that share the name banks use for them, a payroll of each.
MCEmployerOf == [p \in Payrolls |-> IF p = pay1 THEN acme ELSE apex]
MCDocumentOf == (acme :> docA) @@ (apex :> docB)
MCNameOf == (acme :> nameA) @@ (apex :> nameA)
MCAllocations == (ann :> {1, 2}) @@ (ben :> {2})
OneRun == [p \in Payrolls |-> IF p = pay1 THEN 1 ELSE 0]
MCWorlds == {{"serial"}, {}, {"serial", "planned"}}

Update(p, s) == [kind |-> "update", payroll |-> p, status |-> s, payment |-> Nothing]
Credited(a, doc, n, m) ==
    [kind |-> "credited", amount |-> a, document |-> doc, name |-> n, payment |-> m]
Create(p) == [kind |-> "create", payroll |-> p]
Retry(p) == [kind |-> "retry", payroll |-> p]

\* The whole life of one payroll, any update at any time.
OneLife == {Create(pay1), Retry(pay1)} \cup {Update(pay1, s) : s \in PayrollStatus}

\* What brings two payrolls to INVOICED, a payment of one employer, and one of a
\* payer with a document nobody has and the name of both.
TwoPaid == {Create(pay1), Create(pay2)}
    \cup {Update(p, s) : p \in {pay1, pay2}, s \in {"PREPARED", "INVOICED"}}
    \cup {Credited(1, docA, nameA, m1), Credited(1, docX, nameA, m2)}

\* Both: the whole life of one payroll beside another that waits for its money.
LifeAndPayments == OneLife \cup TwoPaid

\* The same without retries and updates to CREATED, which change no row, without
\* investigations and completion, and with the one payment that either payroll may
\* be credited with.
RacingLife == LifeAndPayments \ {Retry(pay1), Update(pay1, "CREATED"),
    Update(pay1, "INVESTIGATION"), Update(pay1, "COMPLETED"), Update(pay1, "EXPIRED"),
    Credited(1, docA, nameA, m1)}

\* What the theorem about payments rests on.
ASSUME MCPaymentAssumption == PaymentContract

\* What brings one payroll from its creation to its receipt.
OneReceipt == {Create(pay1)} \cup
    {Update(pay1, s) : s \in {"PREPARED", "FUNDED", "IN_PROGRESS", "RECEIPT"}}

\* A payroll that expires while its employer pays.
PaidLate == {Create(pay1), Update(pay1, "PREPARED"), Update(pay1, "INVOICED"),
             Update(pay1, "EXPIRED"), Credited(1, docA, nameA, m1)}
Overlapping == {{}}

Symmetry == Permutations(Calls)

-----------------------------------------------------------------------------
Asked == {call'[c].req : c \in Calls}

\* Calls that follow each other are about everything but documents; deposits and
\* disbursements are one employee's, the deposits of one of the payrolls.
CallsInTurn ==
    /\ \A p \in Payrolls : allocation'[<<p, ben>>] = 0
    /\ \A t \in Txs : depositFor'[t] = Nothing \/ depositFor'[t][1] = pay1
    /\ transactionOf'[<<pay2, ann>>] = Nothing

\* Calls that overlap, without deposits and documents.
CallsThatOverlap ==
    /\ Asked \subseteq RacingLife \cup {NoRequest}
    /\ \A p \in Payrolls : allocation'[<<p, ann>>] # 2 /\ allocation'[<<p, ben>>] = 0

\* One payroll and its documents; one document of a kind or the other at a time.
\* Disbursements are made between calls.
Papers ==
    /\ Asked \subseteq OneReceipt \cup {NoRequest}
    /\ allocation' # allocation =>
        status[pay1] = "CREATED" /\ allocation'[<<pay1, ann>>] # 2 /\ \A c \in Calls : ~Running(c)
    /\ \E k \in Kinds : writing'[k].pc = "idle"
    /\ \A k \in Kinds : writing'[k].payroll \in {pay1, Nothing}

\* Without documents, a step of DocumentsNext is one of Next that leaves them alone.
MCNext ==
    \/ Planned /\ UNCHANGED <<depositFor, runs>> /\ DocumentsNext /\ Papers
    \/ /\ ~Planned /\ UNCHANGED docVars
       /\ \/ Serial /\ Next /\ CallsInTurn
          \/ ~Serial /\ UNCHANGED <<depositFor, runs>> /\ Next /\ CallsThatOverlap

MCSpec == DocumentsInit /\ [][MCNext]_allVars

\* Calls alone, no documents.
CallsSpec == DocumentsInit /\ [][Next /\ UNCHANGED docVars]_allVars
=============================================================================
