------------------------- MODULE TransactionRequests -------------------------
(***************************************************************************)
(* Who is on which side of a transaction, and how it is decided: what      *)
(* users, administrators, workflows and Pomelo may ask for, what each      *)
(* workflow's pre-processing refuses and fills in, how a tag becomes a     *)
(* consumer, and what the repository accepts.  A user's request looks      *)
(* consumers up in several steps, and meanwhile tags change hands and      *)
(* consumers are locked.  What follows the saved row is Transactions'.     *)
(***************************************************************************)
EXTENDS FiniteSets

CONSTANTS
    Askers,     \* the requests made to the server, each by an identity
    Consumers,
    Tags,       \* handles, each in one spelling
    Folded,     \* ... and in lower case
    FirstTags,  \* the consumers' tags at the start
    Nobody,     \* no consumer, no tag
    Wanted,     \* what may be asked for
    NotAsked, NoRow

WalletFlows == {"deposit", "withdrawal", "transfer"}
DebitFlows == {"deposit", "withdrawal", "transfer", "cardWithdrawal", "cardDebitAdjustment",
               "debitAdjustment"}
CreditFlows == {"transfer", "cardCreditAdjustment", "creditAdjustment", "payrollDeposit"}
FlowNames == DebitFlows \cup CreditFlows \cup {"cardReversal"}

\* What a request may carry besides its two sides; "isCOP" is said of the debit's
\* currency, "isPositive" of every amount.
Fields == {"creditAmount", "creditCurrency", "debitAmount", "debitCurrency", "isCOP", "isPositive",
           "isCollection", "withdrawalData", "exchangeRate", "memo", "payroll", "pomelo"}
WantedType ==
    [door : {"user", "admin", "workflow", "pomelo"}, by : Consumers \cup {Nobody},
     flow : FlowNames, credit : Consumers \cup Tags \cup {Nobody},
     debit : Consumers \cup Tags \cup {Nobody}, given : SUBSET Fields]

\* What the constants are.
ASSUME RequestsAssumption ==
    /\ Consumers \cap Tags = {} /\ Nobody \notin Consumers \cup Tags
    /\ Folded \in [Tags -> Tags] /\ FirstTags \in [Consumers -> Tags \cup {Nobody}]
    /\ Wanted \subseteq WantedType /\ NotAsked \notin WantedType
    /\ NoRow \notin [flow : FlowNames, debit : Consumers \cup {Nobody}, credit : Consumers \cup {Nobody}]

VARIABLES
    tag,        \* the handle of each consumer
    inGoodStanding, \* consumers for whom isActiveConsumer holds
    asked,      \* what each request asks for, as it has been rewritten so far
    found,      \* the sides as they have been decided
    at,         \* where the request is
    saved,      \* the row it has saved
    named,      \* history: who was active and had the credited name while it ran
    original    \* history: what it asked for at first

consumerVars == <<tag, inGoodStanding>>
requestVars == <<asked, found, at, saved, original>>
sideVars == <<consumerVars, requestVars, named>>

NoSides == [debit |-> Nobody, credit |-> Nobody]

SidesInit ==
    /\ tag = FirstTags
    /\ inGoodStanding = Consumers
    /\ asked = [c \in Askers |-> NotAsked]
    /\ original = [c \in Askers |-> NotAsked]
    /\ found = [c \in Askers |-> NoSides]
    /\ at = [c \in Askers |-> "idle"]
    /\ saved = [c \in Askers |-> NoRow]
    /\ named = [c \in Askers |-> {}]

-----------------------------------------------------------------------------
(* Consumers *)

\* getConsumerByHandle: the first row whose handle is t but for the case of letters.
WithTag(tags, t) == {u \in Consumers : tags[u] # Nobody /\ Folded[tags[u]] = Folded[t]}
NamedBy(tags, name) == IF name \in Tags THEN WithTag(tags, name) ELSE {name} \cap Consumers

\* updateConsumer checks a handle's characters; the unique index tells spellings apart.
ChangeTag(u, t) ==
    /\ \A v \in Consumers : tag[v] # t
    /\ tag' = [tag EXCEPT ![u] = t]
    /\ UNCHANGED inGoodStanding

\* A lock, a screening or a document decides otherwise.
ChangeStanding(u) ==
    /\ inGoodStanding' =
        IF u \in inGoodStanding THEN inGoodStanding \ {u} ELSE inGoodStanding \cup {u}
    /\ UNCHANGED tag

-----------------------------------------------------------------------------
(* A request's way *)

Proceed(c, step) == at' = [at EXCEPT ![c] = step]
Rewrite(c, r) == asked' = [asked EXCEPT ![c] = r]
Settle(c, side, u) == found' = [found EXCEPT ![c][side] = u]
Refuse(c) ==
    /\ Proceed(c, "refused") /\ Rewrite(c, NotAsked)
    /\ original' = [original EXCEPT ![c] = NotAsked]
    /\ UNCHANGED <<found, saved>>

\* POST /v2/transactions is looked at step by step, the other doors at once.
Ask(c) ==
    /\ at[c] = "idle"
    /\ \E r \in Wanted :
        /\ Proceed(c, IF r.door = "user" THEN "preprocess" ELSE "process")
        /\ Rewrite(c, r) /\ original' = [original EXCEPT ![c] = r]
    /\ UNCHANGED <<found, saved>>

-----------------------------------------------------------------------------
(* deprecatedInitiateTransaction *)

Has(r, fields) == fields \subseteq r.given
HasNot(r, fields) == fields \cap r.given = {}
NotBelowZero(r) == Has(r, {"debitAmount"}) => Has(r, {"isPositive"})

\* Variant: who is credited is not looked at.
DepositAllowsCredit(r) ==
    /\ HasNot(r, {"creditAmount", "creditCurrency"}) /\ NotBelowZero(r)
    /\ Has(r, {"debitCurrency", "isCOP", "isCollection"})

\* preprocessTransactionParams throws for what may not be given, or must be.
DepositAllowed(r) ==
    /\ r.credit = Nobody
    /\ HasNot(r, {"creditAmount", "creditCurrency"}) /\ NotBelowZero(r)
    /\ Has(r, {"debitCurrency", "isCOP", "isCollection"})

TransferAllowed(r) ==
    /\ r.debit = Nobody
    /\ HasNot(r, {"creditAmount", "creditCurrency"}) /\ NotBelowZero(r)
    /\ Has(r, {"debitCurrency"})

WithdrawalAllowed(r) ==
    /\ r.credit = Nobody
    /\ HasNot(r, {"creditAmount", "debitCurrency"}) /\ NotBelowZero(r)
    /\ Has(r, {"creditCurrency", "withdrawalData"})

\* The adjustments' and the payroll's always throw, other names are refused.
Preprocessable(r) ==
    \/ r.flow = "deposit" /\ DepositAllowed(r)
    \/ r.flow = "transfer" /\ TransferAllowed(r)
    \/ r.flow = "withdrawal" /\ WithdrawalAllowed(r)

\* Variant: who is debited stays as it was given.
InitiatorUnlessGiven(r) == [r EXCEPT !.debit = IF @ = Nobody THEN r.by ELSE @]
\* The debited consumer is the one who asks, whatever was given.
DebitInitiator(r) == [r EXCEPT !.debit = r.by]

\* A deposit and a withdrawal also need a quote, which may be refused.
PreprocessTransactionParams(c) ==
    /\ at[c] = "preprocess"
    /\ \/ /\ Preprocessable(asked[c])
          /\ Rewrite(c, DebitInitiator(asked[c])) /\ Proceed(c, "credit")
          /\ UNCHANGED <<found, saved, original>>
       \/ /\ ~Preprocessable(asked[c]) \/ asked[c].flow # "transfer"
          /\ Refuse(c)

\* isActiveConsumer
IsActive(u) == u \in inGoodStanding

\* getActiveConsumer: of several who fit the name any may be the first; a failing
\* query finds nobody.
FindConsumer(c, side, next) ==
    \/ \E u \in NamedBy(tag, asked[c][side]) :
            /\ IsActive(u)
            /\ Settle(c, side, u) /\ Proceed(c, next) /\ UNCHANGED <<asked, saved, original>>
    \/ Refuse(c)

FindCreditConsumer(c) ==
    /\ at[c] = "credit"
    /\ IF asked[c].credit = Nobody
       THEN Proceed(c, "debit") /\ UNCHANGED <<asked, found, saved, original>>
       ELSE FindConsumer(c, "credit", "debit")

FindDebitConsumer(c) ==
    /\ at[c] = "debit"
    /\ FindConsumer(c, "debit", "save")

-----------------------------------------------------------------------------
(* validateAndSaveTransaction *)

\* AdminService.initiateTransaction builds the two adjustments only,
\* convertToInitiateTransactionRequest a payroll deposit and a card adjustment for
\* each side that is given, the Pomelo webhook what it is called for.
SubRequests(r) ==
    CASE r.door = "admin" -> {r.flow} \cap {"creditAdjustment", "debitAdjustment"}
      [] r.door = "workflow" ->
            {f \in {"payrollDeposit"} : "payroll" \in r.given}
            \cup {f \in {"cardCreditAdjustment"} : "pomelo" \in r.given /\ r.credit # Nobody}
            \cup {f \in {"cardDebitAdjustment"} : "pomelo" \in r.given /\ r.debit # Nobody}
      [] OTHER -> {r.flow}

\* The processors: what each one's schema requires, and the sides it converts it to.
\* Given an ID that is none, the row cannot be connected.
Input(complete, debit, credit) ==
    IF complete THEN {[debit |-> debit, credit |-> credit]} ELSE {}
Card == {"creditAmount", "creditCurrency", "debitAmount", "debitCurrency", "exchangeRate", "memo"}

CreditAdjustment(r) ==
    Input(r.credit \in Consumers /\ Has(r, {"creditAmount", "creditCurrency", "memo"}),
          Nobody, r.credit)
DebitAdjustment(r) ==
    Input(r.debit \in Consumers /\ Has(r, {"debitAmount", "debitCurrency", "memo"}),
          r.debit, Nobody)
CardCreditAdjustment(r) == Input(r.credit \in Consumers /\ Has(r, Card), Nobody, r.credit)
CardDebitAdjustment(r) == Input(r.debit \in Consumers /\ Has(r, Card), r.debit, Nobody)
CardWithdrawal(r) == Input(r.debit \in Consumers /\ Has(r, Card), r.debit, Nobody)
\* A reversal in either direction carries an ID, which validateInputTransaction
\* takes from card withdrawals only.
CardReversal(r) == Input(FALSE, r.debit, r.credit)
\* The employee's consumer; an employee without one is refused.
PayrollDeposit(r) == Input(r.by \in Consumers, Nobody, r.by)

Processor(r) ==
    CASE r.flow = "creditAdjustment" -> CreditAdjustment(r)
      [] r.flow = "debitAdjustment" -> DebitAdjustment(r)
      [] r.flow = "cardCreditAdjustment" -> CardCreditAdjustment(r)
      [] r.flow = "cardDebitAdjustment" -> CardDebitAdjustment(r)
      [] r.flow = "cardWithdrawal" -> CardWithdrawal(r)
      [] r.flow = "cardReversal" -> CardReversal(r)
      [] r.flow = "payrollDeposit" -> PayrollDeposit(r)

\* The wallets' flows are refused at this door; else there is exactly one sub-request,
\* the type's own.
Processable(r) == r.flow \notin WalletFlows /\ SubRequests(r) = {r.flow}

ProcessTransaction(c) ==
    /\ at[c] = "process"
    /\ \/ /\ Processable(asked[c])
          /\ \E input \in Processor(asked[c]) : found' = [found EXCEPT ![c] = input]
          /\ Proceed(c, "save") /\ UNCHANGED <<asked, saved, original>>
       \/ Refuse(c)

-----------------------------------------------------------------------------
(* createTransaction *)

\* validateInputTransaction: amounts above zero, and one of them at least.
HasAmount(r) ==
    \/ r.flow = "payrollDeposit"
    \/ r.flow = "creditAdjustment" /\ Has(r, {"creditAmount"})
    \/ Has(r, {"debitAmount"})
ValidInput(r) == HasAmount(r) /\ Has(r, {"isPositive"})

\* The user's door compares the two sides first.
CreateTransaction(c) ==
    /\ at[c] = "save"
    /\ LET r == asked[c]
           row == [flow |-> r.flow, debit |-> found[c].debit, credit |-> found[c].credit]
       IN  \/ /\ ValidInput(r) /\ row.debit # row.credit
              /\ saved' = [saved EXCEPT ![c] = row]
              /\ Proceed(c, "saved") /\ Rewrite(c, NotAsked) /\ UNCHANGED <<found, original>>
           \/ Refuse(c)

-----------------------------------------------------------------------------
\* The history: who, while a user's request runs, has the credited name and is active.
Note ==
    named' = [c \in Askers |-> IF at'[c] \in {"preprocess", "credit", "debit"}
        THEN named[c] \cup (NamedBy(tag', original'[c].credit) \cap inGoodStanding')
        ELSE named[c]]

SideStep(c) ==
    \/ PreprocessTransactionParams(c) \/ FindCreditConsumer(c) \/ FindDebitConsumer(c)
    \/ ProcessTransaction(c) \/ CreateTransaction(c)

SidesNext ==
    /\ \/ /\ \E c \in Askers : Ask(c) \/ SideStep(c)
          /\ UNCHANGED consumerVars
       \/ /\ \E u \in Consumers : ChangeStanding(u) \/ (\E t \in Tags : ChangeTag(u, t))
          /\ UNCHANGED requestVars
    /\ Note

SidesSpec == SidesInit /\ [][SidesNext]_sideVars

-----------------------------------------------------------------------------
(* Properties *)

\* A saved row has a consumer on each side its workflow moves money on and on no
\* other: a deposit or a withdrawal with both would be screened and then refused by
\* initiateWorkflow, and the notices of each workflow read one side's consumer.  Only
\* a transfer's receiver may be missing.
SidesMatchTheFlow ==
    \A c \in Askers : saved[c] # NoRow =>
        /\ (saved[c].debit \in Consumers) = (saved[c].flow \in DebitFlows)
        /\ saved[c].credit \in Consumers => saved[c].flow \in CreditFlows
        /\ saved[c].flow \in CreditFlows \ {"transfer"} => saved[c].credit \in Consumers

\* Whatever a user fills in, and whoever changes tags or is locked meanwhile: the
\* money is the user's own, and goes to another who, at one moment of the request,
\* had the name it was sent to and was active.
OnlyAsMeant ==
    \A c \in Askers : saved[c] # NoRow /\ original[c].door = "user" =>
        LET by == original[c].by
            to == original[c].credit
        IN  /\ saved[c].debit = by /\ saved[c].credit # by
            /\ saved[c].credit \in IF to = Nobody THEN {Nobody} ELSE named[c]
==============================================================================
