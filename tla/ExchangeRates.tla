---------------------------- MODULE ExchangeRates ---------------------------
(***************************************************************************)
(* ExchangeRateService: the daily refresh of both currency pairs from the  *)
(* provider, rates an administrator enters, the rate a quote finds, and    *)
(* the quotes of deposits and withdrawals computed from it.                *)
(* Amounts are in cents; a rate r stands for r / Scale.                    *)
(***************************************************************************)
EXTENDS Integers, Sequences, FiniteSets

CONSTANTS
    Refreshes,      \* identities of the refreshes
    Provider,       \* rates the provider may answer for each pair
    Entered,        \* rates an administrator may enter for each pair
    Scale,          \* denominator of every rate
    MaxRows,        \* bound on the rows of each pair
    Amounts,        \* amounts asked for, in cents
    FeePercent, FeeFixed, FeeNoba,  \* a collection: percent, COP cents, USD cents
    MonoFee, NobaFee                \* a withdrawal: COP cents, USD cents

Pairs == <<"USD-COP", "COP-USD">>
PairNames == {Pairs[i] : i \in DOMAIN Pairs}
None == 0

ASSUME RatesAssumption ==
    /\ Provider \in [PairNames -> SUBSET (Nat \ {0})]
    /\ Entered \in [PairNames -> SUBSET (Nat \ {0})]
    /\ Scale \in Nat \ {0}
    /\ MaxRows \in [PairNames -> Nat]
    /\ Amounts \subseteq Nat \ {0}
    /\ FeePercent \in Nat /\ FeeFixed \in Nat /\ FeeNoba \in Nat
    /\ MonoFee \in Nat /\ NobaFee \in Nat

VARIABLES
    rows,       \* the ExchangeRate rows of each pair, oldest first
    refresh     \* where each refresh is

rateVars == <<rows, refresh>>

\* left: the half-days until the row expires; an entered rate lasts 36 hours, a
\* provider's 25.  against: the row a provider's rate was compared with, or None;
\* since: the latest row when its refresh began.
Life == [entered |-> 3, provider |-> 2]

\* A refresh that is not under way.
AtRest(pc) ==
    [pc |-> pc, pair |-> 1, got |-> None, inserts |-> {},
     since |-> [p \in PairNames |-> None]]

RatesInit ==
    /\ rows = [p \in PairNames |-> <<>>]
    /\ refresh = [r \in Refreshes |-> AtRest("idle")]

InLoop(r) == refresh[r].pc \in {"fetch", "compare"}
Active(r) == refresh[r].pc \notin {"idle", "done"}
PairOf(r) == Pairs[refresh[r].pair]

-----------------------------------------------------------------------------
(* Rows *)

Append1(p, row) ==
    /\ Len(rows[p]) < MaxRows[p]
    /\ rows' = [rows EXCEPT ![p] = Append(@, row)]

\* createExchangeRate: nobaRate is the bank's unless it is given.
NewRow(bank, noba, by, against, since) ==
    [bank |-> bank, noba |-> IF noba = None THEN bank ELSE noba,
     by |-> by, left |-> Life[by], against |-> against, since |-> since]

EnterRate(p, bank, noba) ==
    /\ Append1(p, NewRow(bank, noba, "entered", None, None))
    /\ UNCHANGED refresh

\* Half a day goes by.
Age(row) == [row EXCEPT !.left = IF @ = 0 THEN 0 ELSE @ - 1]
TimePasses ==
    /\ rows' = [p \in PairNames |-> [i \in DOMAIN rows[p] |-> Age(rows[p][i])]]
    /\ UNCHANGED refresh

\* Variant: the first row is taken.
Oldest(p) == IF rows[p] = <<>> THEN None ELSE 1
\* The latest row of a pair, expired or not.
Latest(p) == Len(rows[p])

LatestFresh(p) ==
    LET fresh == {i \in DOMAIN rows[p] : rows[p][i].left > 0}
    IN  IF fresh = {} THEN None ELSE CHOOSE i \in fresh : \A j \in fresh : j <= i

\* getExchangeRateForCurrencyPair: an expired rate is used rather than none.
RateIndex(p) == IF LatestFresh(p) # None THEN LatestFresh(p) ELSE Latest(p)

-----------------------------------------------------------------------------
(* createExchangeRateFromProvider *)

BeginRefresh(r) ==
    /\ refresh[r].pc = "idle"
    /\ refresh' = [refresh EXCEPT ![r].pc = "fetch",
                                  ![r].since = [p \in PairNames |-> Len(rows[p])]]
    /\ UNCHANGED rows

\* On to the next pair, or to Promise.all.
NextPair(call) ==
    IF call.pair < Len(Pairs)
    THEN [call EXCEPT !.pc = "fetch", !.pair = @ + 1, !.got = None]
    ELSE [call EXCEPT !.pc = "settle", !.got = None]

\* The provider answers, or the pair is skipped with an alert.
FetchRate(r) ==
    /\ refresh[r].pc = "fetch"
    /\ \/ \E m \in Provider[PairOf(r)] :
            refresh' = [refresh EXCEPT ![r].pc = "compare", ![r].got = m]
       \/ refresh' = [refresh EXCEPT ![r] = NextPair(@)]
    /\ UNCHANGED rows

\* Within 10% of the rate it is compared with.
InBand(new, old) == 10 * new >= 9 * old /\ 10 * new <= 11 * old

\* The insert is sent and not waited for.  A failing query compares with nothing.
CompareRate(r) ==
    LET p == PairOf(r)
        call == refresh[r]
    IN  /\ call.pc = "compare"
        /\ \E i \in {Latest(p), None} :
            LET accepted == i # None => InBand(call.got, rows[p][i].bank)
                insert == [pair |-> p, bank |-> call.got, against |-> i,
                           since |-> call.since[p]]
                sent == [call EXCEPT !.inserts = @ \cup {insert}]
            IN  refresh' = [refresh EXCEPT ![r] = NextPair(IF accepted THEN sent ELSE call)]
        /\ UNCHANGED rows

\* An insert lands, while the refresh is busy with the next pair or after it.
InsertRate(r) ==
    \E insert \in refresh[r].inserts :
        /\ Active(r)
        /\ Append1(insert.pair,
                   NewRow(insert.bank, None, "provider", insert.against, insert.since))
        /\ refresh' = [refresh EXCEPT ![r].inserts = @ \ {insert}]

\* A rejected insert nobody waits for yet stops the server; else it ends the
\* refresh, and what it sent still lands or not.
InsertFails(r) ==
    \E insert \in refresh[r].inserts :
        /\ Active(r)
        /\ refresh' =
            IF InLoop(r)
            THEN [s \in Refreshes |->
                    IF Active(s) THEN AtRest("done") ELSE refresh[s]]
            ELSE [refresh EXCEPT ![r].inserts = @ \ {insert}]
        /\ UNCHANGED rows

EndRefresh(r) ==
    /\ refresh[r].pc = "settle" /\ refresh[r].inserts = {}
    /\ refresh' = [refresh EXCEPT ![r] = AtRest("done")]
    /\ UNCHANGED rows

RefreshStep(r) ==
    FetchRate(r) \/ CompareRate(r) \/ InsertRate(r) \/ InsertFails(r) \/ EndRefresh(r)

RatesNext ==
    \/ \E r \in Refreshes : BeginRefresh(r) \/ RefreshStep(r)
    \/ \E p \in PairNames : \E bank \in Entered[p] : \E noba \in Entered[p] \cup {None} :
            EnterRate(p, bank, noba)
    \/ TimePasses

RatesSpec == RatesInit /\ [][RatesNext]_rateVars

-----------------------------------------------------------------------------
(* Quotes *)

\* Math.round on hundredths: halves go up, for negative numbers too.
RoundHalfUp(n, d) == (2 * n + d) \div (2 * d)

\* Variant: rounded to the nearest 0.05.
NearestFive(n, d) == 5 * RoundHalfUp(n, 5 * d)
\* roundUpToNearest(x, 0.05), in cents.
UpToFive(n, d) == 5 * ((n + 5 * d - 1) \div (5 * d))

\* collectionFeeMultiplier * amount + collectionFeeFixedAmount, in USD cents and
\* over 100 * Scale.
CollectionFee(amount, row) == (FeePercent * amount + 100 * FeeFixed) * row.bank

DepositCredit(amount, row) ==
    RoundHalfUp(amount * row.noba, Scale) - FeeNoba
        - UpToFive(CollectionFee(amount, row), 100 * Scale)

\* Mono's fee in USD cents, rounded and then rounded up to 0.05.
WithdrawalFee(row) == UpToFive(RoundHalfUp(MonoFee * Scale, row.bank), 1)

WithdrawalCredit(amount, row) ==
    RoundHalfUp((amount - NobaFee - WithdrawalFee(row)) * row.noba, Scale)

\* AMOUNT_TOO_LOW is thrown below zero.
Offered(credit) == credit >= 0

-----------------------------------------------------------------------------
(* Properties *)

\* The threshold of createExchangeRateFromProvider: a provider's rate that was compared
\* is within 10% of a rate that was in force while its refresh ran - the latest one when
\* it began, expired or not, or one that an overlapping call has added since.  Only a
\* refresh whose lookup fails (it is answered null, like a pair without rows) adds a
\* rate that was compared with nothing.
ThresholdHolds ==
    \A p \in PairNames : \A i \in DOMAIN rows[p] :
        LET row == rows[p][i]
        IN  row.against # None =>
                /\ row.since <= row.against /\ row.against < i
                /\ InBand(row.bank, rows[p][row.against].bank)

\* The rate a quote of the pair is computed from.
HasRate(p) == RateIndex(p) # None
RateOf(p) == rows[p][RateIndex(p)]

\* What a deposit credits is no more than the rate leaves of it after the fees, but for
\* half a cent: the credited amount and the fee are rounded apart.
DepositFeesAreCovered ==
    HasRate("COP-USD") => \A a \in Amounts :
        LET row == RateOf("COP-USD")
        IN  200 * Scale * DepositCredit(a, row)
                <= 200 * a * row.noba - 2 * CollectionFee(a, row)
                    - 200 * Scale * FeeNoba + 100 * Scale

\* Likewise of a withdrawal, whose bank's fee is converted and rounded to cents before it
\* is rounded up: half a US cent of Mono's fee may be Noba's, and half a cent in pesos.
WithdrawalFeesAreCovered ==
    HasRate("USD-COP") => \A a \in Amounts :
        LET row == RateOf("USD-COP")
            credit == WithdrawalCredit(a, row)
        IN  Offered(credit) =>
              2 * Scale * row.bank * credit
                <= (2 * row.bank * (a - NobaFee) - 2 * MonoFee * Scale + row.bank) * row.noba
                    + Scale * row.bank

\* Noba never pays Mono's fees itself, whatever a quote rounds and in which direction.
FeesAreCovered == DepositFeesAreCovered /\ WithdrawalFeesAreCovered

=============================================================================
