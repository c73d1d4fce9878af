--------------------------- MODULE MCTransactions ---------------------------
(***************************************************************************)
(* Small instances of Transactions, of ExchangeRates and of                *)
(* TransactionRequests for TLC.  They share no state and their steps       *)
(* commute, so a behaviour here is one of either: interleaving them would  *)
(* only multiply the states.                                               *)
(***************************************************************************)
EXTENDS Transactions, ExchangeRates, TransactionRequests, TLC

CONSTANTS c1, c2, c3, c4, r1, r2

RefreshesAlike == Permutations({r1, r2})

Initiate(f) == [kind |-> "initiate", flow |-> f]
Debit == [kind |-> "debitFromBank", of |-> c1]
Webhook == [kind |-> "webhook", of |-> c1]
Patch(s) == [kind |-> "patch", of |-> c1, status |-> s]

\* One transaction of any flow; then, of it, up to two attempts to debit, two
\* deliveries of Mono's outcome, two updates, in every order and overlap.
OneTransaction ==
    (c1 :> {Initiate(f) : f \in Flows}) @@ (c2 :> {Debit, Patch("COMPLETED")})
        @@ (c3 :> {Debit, Webhook}) @@ (c4 :> {Webhook, Patch("FAILED")})

\* The two flows with rows at Mono and a transfer, nothing after them.
TwoFlows == [c \in Calls |-> {Initiate("deposit"), Initiate("withdrawal"), Initiate("transfer")}]

\* Down from 441 to 400 is less than 10%, up is more; an administrator enters one of them.
MCProvider == ("USD-COP" :> {400, 441}) @@ ("COP-USD" :> {20})
MCEntered == ("USD-COP" :> {400}) @@ ("COP-USD" :> {})
MCMaxRows == ("USD-COP" :> 3) @@ ("COP-USD" :> 1)
\* Around the fees, and around each other.
MCAmounts == {30, 100, 101, 320, 1000}

-----------------------------------------------------------------------------
(* One request at any door, while tags change hands and consumers are locked *)

\* ann asks; ben's tag may become hers.  The first two differ in a capital.
MCFolded == ("ben" :> "ben") @@ ("Ben" :> "ben") @@ ("ann" :> "ann")

\* What each flow needs, all of it or but for one field, or with one field more.
Needed ==
    [deposit |-> {"debitAmount", "debitCurrency", "isCOP", "isPositive", "isCollection"},
     withdrawal |-> {"debitAmount", "creditCurrency", "isPositive", "withdrawalData"},
     transfer |-> {"debitAmount", "debitCurrency", "isPositive"},
     creditAdjustment |-> {"creditAmount", "creditCurrency", "isPositive", "memo"},
     debitAdjustment |-> {"debitAmount", "debitCurrency", "isPositive", "memo"}]
Nearly(g) ==
    {g} \cup {g \ {x} : x \in g} \cup {g \cup {x} : x \in {"creditAmount", "creditCurrency", "debitCurrency"}}
Full == {"creditAmount", "creditCurrency", "debitAmount", "debitCurrency", "exchangeRate",
         "isPositive", "memo"}
Request(door, by, flow, credit, debit, given) ==
    [door |-> door, by |-> by, flow |-> flow, credit |-> credit, debit |-> debit, given |-> given]

OfUsers ==
    UNION {{Request(d, "u1", f, x, y, g) :
                d \in {"user", "admin"}, x \in {Nobody, "u1", "u2", "ben", "ann"},
                y \in {Nobody, "u2", "ben"}, g \in Nearly(Needed[f])} : f \in DOMAIN Needed}
OfWorkflows ==
    {Request("workflow", by, f, x, y, Full \cup g) :
        by \in {Nobody, "u1"}, f \in {"payrollDeposit", "cardCreditAdjustment",
                                     "cardDebitAdjustment", "deposit"},
        x \in {Nobody, "u2"}, y \in {Nobody, "u2"}, g \in SUBSET {"payroll", "pomelo"}}
OfPomelo ==
    {Request("pomelo", Nobody, f, x, "u2", Full \ g) :
        f \in {"cardWithdrawal", "cardReversal"}, x \in {Nobody, "u2"}, g \in {{}, {"isPositive"}}}

MCConsumers == {"u1", "u2"}
MCTags == {"ben", "Ben", "ann"}
MCFirstTags == ("u1" :> "ann") @@ ("u2" :> "ben")
MCWanted == OfUsers \cup OfWorkflows \cup OfPomelo

-----------------------------------------------------------------------------
MCInit == TxInit /\ RatesInit /\ SidesInit

MCNext ==
    \/ RatesInit /\ SidesInit /\ TxNext /\ UNCHANGED <<rateVars, sideVars>>
    \/ TxInit /\ SidesInit /\ RatesNext /\ UNCHANGED <<txVars, sideVars>>
    \/ TxInit /\ RatesInit /\ SidesNext /\ UNCHANGED <<txVars, rateVars>>

MCSpec == MCInit /\ [][MCNext]_<<txVars, rateVars, sideVars>>
=============================================================================
