--------------------------- MODULE PayrollDocuments --------------------------
(***************************************************************************)
(* The invoice and the receipt of a payroll: createInvoice and             *)
(* createInvoiceReceipt of EmployerService, the TemplateProcessor they use *)
(* and the objects it leaves in S3.  A document is four objects, one for   *)
(* each language and format, written one after the other under keys that   *)
(* every later call for the same document writes again.  Beside them, the  *)
(* workflow's updates of the disbursements the documents list.             *)
(***************************************************************************)
EXTENDS Payroll, Sequences

CONSTANT Credits    \* amounts credited to employees

Kinds == {"inv", "rct"}
\* In the order in which uploadPopulatedTemplates writes them.
Uploads == << <<"en", "html">>, <<"en", "pdf">>, <<"es", "html">>, <<"es", "pdf">> >>
Keys == Range(Uploads)

VARIABLES
    credited,       \* creditAmount of each disbursement; 0: null
    writing,        \* the call in flight for each kind of document
    objects,        \* what each S3 key holds
    answered        \* whether the last call for a document succeeded (history)

docVars == <<credited, writing, objects, answered>>
allVars == <<vars, docVars>>

ASSUME DocumentsAssumption == Credits \subseteq Nat \ {0}

\* What is printed: a line for each disbursement that was found, with its amount
\* and, in a receipt, what was credited; the payroll's total and the sum credited.
\* No total is printed as 0, so this is what a key holds that nothing was written under.
NoDocument == [lines |-> <<>>, total |-> 0, credit |-> 0]

AtRest == [pc |-> "idle", payroll |-> Nothing, total |-> 0, text |-> NoDocument, next |-> 1]

DocumentsInit ==
    /\ Init
    /\ credited = [d \in Disbursements |-> 0]
    /\ writing = [k \in Kinds |-> AtRest]
    /\ objects = [k \in Kinds |-> [p \in Payrolls |-> [f \in Keys |-> NoDocument]]]
    /\ answered = [k \in Kinds |-> [p \in Payrolls |-> FALSE]]

Busy(k) == writing[k].pc # "idle"
Give(k, p, ok) == answered' = [answered EXCEPT ![k][p] = ok]

-----------------------------------------------------------------------------
(* The workflow updates a disbursement *)

\* Every update carries a credited amount; a zero is not written.  Nor is an empty
\* transaction ID.
PatchDisbursement(d, t, a) ==
    /\ \/ t = Nothing /\ allocation[d] # 0 /\ UNCHANGED vars
       \/ t # Nothing /\ UpdateDisbursement(d, t) /\ UNCHANGED world
    /\ credited' = IF a = 0 THEN credited ELSE [credited EXCEPT ![d] = a]
    /\ UNCHANGED <<writing, objects, answered>>

-----------------------------------------------------------------------------
(* A document is written *)

AskForDocument(k, p) ==
    /\ ~Busy(k)
    /\ writing' = [writing EXCEPT ![k] = [AtRest EXCEPT !.pc = "payroll", !.payroll = p]]
    /\ Give(k, p, FALSE)
    /\ UNCHANGED <<vars, credited, objects>>

\* Any error ends the call: a missing payroll, employer or template, a key, an
\* account number or a page that cannot be had, an employee without a consumer, a
\* refused upload, a restart.  What was uploaded stays.
AbandonDocument(k) ==
    /\ Busy(k)
    /\ writing' = [writing EXCEPT ![k] = AtRest]
    /\ UNCHANGED <<vars, credited, objects, answered>>

\* A receipt is for a payroll that has come to RECEIPT; an invoice is for any.
Documentable(k, p) == Exists(p) /\ (k = "rct" => status[p] = "RECEIPT")

ReadForDocument(k) ==
    LET p == writing[k].payroll IN
    /\ writing[k].pc = "payroll"
    /\ Documentable(k, p)
    /\ writing' = [writing EXCEPT ![k].pc = "lines", ![k].total = total[p]]
    /\ UNCHANGED <<vars, credited, objects, answered>>

Lines(k, p, S) ==
    [e \in S |-> <<allocation[<<p, e>>], IF k = "rct" THEN credited[<<p, e>>] ELSE 0>>]

\* A null amount cannot be formatted: the total of either document, the credited
\* amounts of a receipt.
Printable(k, text) ==
    /\ text.total # 0
    /\ k = "rct" => \A e \in DOMAIN text.lines : text.lines[e][2] # 0

\* A failing query finds no disbursement, and the document gets no lines.
PopulateTemplates(k) ==
    /\ writing[k].pc = "lines"
    /\ \E S \in {Disbursed(writing[k].payroll), {}} :
        LET p == writing[k].payroll
            lines == Lines(k, p, S)
            text == [lines |-> lines, total |-> writing[k].total,
                     credit |-> SumFunction([e \in S |-> lines[e][2]])]
        IN  /\ Printable(k, text)
            /\ writing' = [writing EXCEPT ![k].pc = "upload", ![k].text = text]
    /\ UNCHANGED <<vars, credited, objects, answered>>

\* The next object, and the call's answer after the last.
UploadsPast(k) == writing[k].next = Len(Uploads)
AfterUpload(k) ==
    IF UploadsPast(k)
    THEN writing' = [writing EXCEPT ![k] = AtRest] /\ Give(k, writing[k].payroll, TRUE)
    ELSE writing' = [writing EXCEPT ![k].next = @ + 1] /\ UNCHANGED answered

\* Variant: a refused upload is passed over.
UploadOrPassOver(k) ==
    /\ writing[k].pc = "upload"
    /\ objects' \in {objects,
        [objects EXCEPT ![k][writing[k].payroll][Uploads[writing[k].next]] = writing[k].text]}
    /\ AfterUpload(k)
    /\ UNCHANGED <<vars, credited>>

Upload(k) ==
    /\ writing[k].pc = "upload"
    /\ objects' = [objects EXCEPT
            ![k][writing[k].payroll][Uploads[writing[k].next]] = writing[k].text]
    /\ AfterUpload(k)
    /\ UNCHANGED <<vars, credited>>

WriteDocument(k) ==
    \/ ReadForDocument(k) \/ PopulateTemplates(k) \/ Upload(k) \/ AbandonDocument(k)

-----------------------------------------------------------------------------
\* How the workflow proceeds: it makes the disbursements of a payroll before it asks
\* for the total of them, and none while that is computed.
Planned == "planned" \in world
DisbursementsFirst ==
    \A d \in Disbursements : allocation'[d] # allocation[d] =>
        /\ "PREPARED" \notin visited[d[1]]
        /\ \A c \in Calls : call[c].pc \in {"total", "write"} => call[c].target # d[1]

DocumentsNext ==
    /\ \/ Next /\ UNCHANGED docVars
       \/ \E d \in Disbursements, t \in Txs \cup {Nothing}, a \in Credits \cup {0} :
            PatchDisbursement(d, t, a)
       \/ \E k \in Kinds : WriteDocument(k) \/ \E p \in Payrolls : AskForDocument(k, p)
    /\ Planned => DisbursementsFirst

DocumentsSpec == DocumentsInit /\ [][DocumentsNext]_allVars

-----------------------------------------------------------------------------
(* Properties *)

\* The lines come to what the employer is asked for, unless there are none because
\* the query for them failed.
AddsUp(text) ==
    LET asked == [e \in DOMAIN text.lines |-> text.lines[e][1]]
    IN  DOMAIN asked = {} \/ text.total = SumFunction(asked)

\* When the last call for a document has succeeded, whatever became of the calls
\* before it, both languages and both formats say the same, and it adds up; and a
\* receipt lists who the invoice lists, for the same amounts, as far as both were
\* able to list anybody.  It takes a workflow that makes the disbursements first:
\* the total is computed once, the lines are read whenever a document is asked for.
DocumentsAddUp ==
    Planned => \A p \in Payrolls :
        /\ \A k \in Kinds : answered[k][p] =>
            \E text \in {objects[k][p][f] : f \in Keys} :
                /\ text # NoDocument /\ AddsUp(text)
                /\ \A f \in Keys : objects[k][p][f] = text
        /\ answered["inv"][p] /\ answered["rct"][p] =>
            LET invoice == objects["inv"][p][Uploads[1]].lines
                receipt == objects["rct"][p][Uploads[1]].lines
            IN  \/ {} \in {DOMAIN invoice, DOMAIN receipt}
                \/ /\ DOMAIN invoice = DOMAIN receipt
                   /\ \A e \in DOMAIN invoice : invoice[e][1] = receipt[e][1]
=============================================================================
