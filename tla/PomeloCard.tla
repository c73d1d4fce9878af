----------------------------- MODULE PomeloCard -----------------------------
(***************************************************************************)
(* PomeloTransactionService: the card webhooks.  Pomelo asks Noba to       *)
(* authorize a purchase, or to adjust an earlier one, and may deliver the  *)
(* same webhook several times, also while an earlier delivery is still     *)
(* being served.  A delivery writes a PomeloTransaction row, saves a Noba  *)
(* transaction, moves the money through CircleService (CircleWallets,      *)
(* whose calls are the deliveries themselves), records the decision and    *)
(* answers.                                                                *)
(***************************************************************************)
EXTENDS CircleWallets

CONSTANTS
    Webhooks,       \* what Pomelo may deliver
    Idems,          \* Pomelo's idempotency keys
    PomeloIDs,      \* Pomelo's transaction IDs
    Nobody,         \* no consumer holds the card
    NoWebhook,
    NoRow           \* no row in a table

\* usd: the amounts in USD that the rates of the day may give.
WebhookType == [kind : {"AUTHORIZATION", "CREDIT", "DEBIT"}, idem : Idems, id : PomeloIDs,
                parent : PomeloIDs, holder : Consumers \cup {Nobody}, usd : SUBSET (Nat \ {0})]
Amounts == {0} \cup UNION {w.usd : w \in Webhooks}

Decisions == {"APPROVED", "INSUFFICIENT_FUNDS", "SYSTEM_ERROR"}
RowStatuses == Decisions \cup {"PENDING"}
Row == [id : PomeloIDs, noba : Keys, status : RowStatuses]

\* What the webhooks may ask of CircleService; amounts are rounded to cents before.
CardRequests ==
    [kind : {"getWallet"}, key : Keys, src : Consumers, dst : Consumers, amt : {0}, frac : {0}]
    \cup [kind : {"debit"}, key : Keys, src : Consumers, dst : {Master}, amt : Amounts, frac : {0}]
    \cup [kind : {"credit"}, key : Keys, src : {Master}, dst : Consumers, amt : Amounts, frac : {0}]

\* A Noba transaction ID is a fresh uuid of the delivery that creates the row.
\* Pomelo sends one content under one idempotency key.
ASSUME CardAssumption ==
    /\ Keys = Calls
    /\ Webhooks \subseteq WebhookType
    /\ \A v, w \in Webhooks : v.idem = w.idem => v = w
    /\ NoWebhook \notin WebhookType
    /\ Nobody \notin Consumers
    /\ NoRow \notin Nat /\ NoRow \notin Row
    /\ CardRequests \subseteq Requests

VARIABLES
    pomeloTx,   \* PomeloTransaction rows, by idempotency key
    nobaTx,     \* amount of each saved Noba transaction, by ID
    hook,       \* the webhook of each delivery
    at,         \* where each delivery is
    usd,        \* the amount it works with
    seen,       \* the wallet balance it read
    reply       \* what it answered Pomelo

cardTables == <<pomeloTx, nobaTx>>
deliveryVars == <<hook, at, usd, seen, reply>>
cardVars == <<vars, cardTables, deliveryVars>>

CardInit ==
    /\ Init
    /\ pomeloTx = [i \in Idems |-> NoRow]
    /\ nobaTx = [k \in Keys |-> NoRow]
    /\ hook = [d \in Calls |-> NoWebhook]
    /\ at = [d \in Calls |-> "idle"]
    /\ usd = [d \in Calls |-> 0]
    /\ seen = [d \in Calls |-> 0]
    /\ reply = [d \in Calls |-> "none"]

\* The row a delivery works on, and the Noba transaction ID it carries.
RowOf(d) == pomeloTx[hook[d].idem]
\* Variant: each delivery uses the uuid it generated itself.
OwnNobaID(d) == d
NobaID(d) == RowOf(d).noba

Move(d, place) == at' = [at EXCEPT ![d] = place]
Answer(d, a) == Move(d, "done") /\ reply' = [reply EXCEPT ![d] = a]

-----------------------------------------------------------------------------
(* A webhook arrives *)

InFlight(d) == at[d] \notin {"idle", "done"}

\* A webhook with the wrong endpoint or signature is answered and forgotten.
Refuse(d, w) ==
    /\ at[d] = "idle"
    /\ hook' = [hook EXCEPT ![d] = w]
    /\ Answer(d, "OTHER")
    /\ UNCHANGED <<vars, cardTables, usd, seen>>

Receive(d, w) ==
    /\ at[d] = "idle"
    /\ Serial => \A e \in Calls : ~InFlight(e)
    /\ hook' = [hook EXCEPT ![d] = w]
    /\ Move(d, "create")
    /\ UNCHANGED <<vars, cardTables, usd, seen, reply>>

-----------------------------------------------------------------------------
(* getOrCreatePomeloTransaction *)

\* The idempotency key and Pomelo's transaction ID are both unique in the table.
Taken(w) ==
    \/ pomeloTx[w.idem] # NoRow
    \/ \E i \in Idems : pomeloTx[i] # NoRow /\ pomeloTx[i].id = w.id

\* An adjustment's row refers to the row of the transaction it adjusts.
ParentKnown(w) ==
    w.kind = "AUTHORIZATION" \/ \E i \in Idems : pomeloTx[i] # NoRow /\ pomeloTx[i].id = w.parent

Insertable(w) == ~Taken(w) /\ ParentKnown(w)

\* An insert that is refused, or fails before or after the row is written, sends
\* the delivery to look for the row.
CreatePomeloTransaction(d) ==
    LET w == hook[d] IN
    /\ at[d] = "create"
    /\ \/ /\ Insertable(w)
          /\ pomeloTx' = [pomeloTx EXCEPT ![w.idem] =
                              [id |-> w.id, noba |-> d, status |-> "PENDING"]]
          /\ Move(d, "holder") \/ (~Orderly /\ Move(d, "fetch"))
       \/ /\ ~Insertable(w) \/ ~Orderly
          /\ UNCHANGED pomeloTx
          /\ Move(d, "fetch")
    /\ UNCHANGED <<vars, nobaTx, hook, usd, seen, reply>>

\* Variant: the status of the row found is not looked at.
FetchIgnoresStatus(d) ==
    /\ at[d] = "fetch"
    /\ IF RowOf(d) = NoRow THEN Answer(d, "SYSTEM_ERROR")
                           ELSE Move(d, "holder") /\ UNCHANGED reply
    /\ UNCHANGED <<vars, cardTables, hook, usd, seen>>

\* A row that is decided already is answered as it was decided.
FetchPomeloTransaction(d) ==
    /\ at[d] = "fetch"
    /\ CASE RowOf(d) = NoRow -> Answer(d, "SYSTEM_ERROR")
         [] RowOf(d) # NoRow /\ RowOf(d).status = "PENDING" -> Move(d, "holder") /\ UNCHANGED reply
         [] RowOf(d) # NoRow /\ RowOf(d).status # "PENDING" -> Answer(d, RowOf(d).status)
    /\ UNCHANGED <<vars, cardTables, hook, usd, seen>>

-----------------------------------------------------------------------------
(* The card's holder, the wallet, the balance and the amount *)

FindCardHolder(d) ==
    /\ at[d] = "holder"
    /\ IF hook[d].holder = Nobody
       THEN Answer(d, "SYSTEM_ERROR")
       ELSE Move(d, "wallet") /\ UNCHANGED reply
    /\ UNCHANGED <<vars, cardTables, hook, usd, seen>>

WalletRequest(d) ==
    [kind |-> "getWallet", key |-> NobaID(d), src |-> hook[d].holder,
     dst |-> hook[d].holder, amt |-> 0, frac |-> 0]

AskForWallet(d) ==
    /\ at[d] = "wallet"
    /\ Start(d, WalletRequest(d))
    /\ Move(d, "walletCall")
    /\ UNCHANGED <<cardTables, hook, usd, seen, reply>>

\* A call to CircleService has returned or thrown; the delivery goes on.
Returned(d) ==
    /\ pc[d] = "done"
    /\ Goto(d, "idle")
    /\ UNCHANGED <<ledgerVars, tableVars, req, srcSeen, dstSeen, answer>>

GetWallet(d) ==
    /\ at[d] = "walletCall"
    /\ Returned(d)
    /\ IF answer[d] = "wallet"
       THEN /\ Move(d, IF hook[d].kind = "AUTHORIZATION" THEN "balance" ELSE "parent")
            /\ UNCHANGED reply
       ELSE Answer(d, "SYSTEM_ERROR")
    /\ UNCHANGED <<cardTables, hook, usd, seen>>

\* Enough in the wallet to go on, or the decision to record.
Affordable(d, held, amt) ==
    IF held < amt
    THEN Move(d, "record") /\ reply' = [reply EXCEPT ![d] = "INSUFFICIENT_FUNDS"]
    ELSE Move(d, "save") /\ UNCHANGED reply

ReadWalletBalance(d) ==
    LET held == balance[hook[d].holder] IN
    /\ at[d] = "balance"
    /\ seen' = [seen EXCEPT ![d] = held]
    /\ IF hook[d].kind = "AUTHORIZATION"
       THEN Move(d, "price") /\ UNCHANGED reply
       ELSE Affordable(d, held, usd[d])
    /\ UNCHANGED <<vars, cardTables, hook, usd>>

\* The purchase is in COP; the exchange rate is the one of this delivery.
PriceInUSD(d) ==
    /\ at[d] = "price"
    /\ \E amt \in hook[d].usd :
        /\ usd' = [usd EXCEPT ![d] = amt]
        /\ Affordable(d, seen[d], amt)
    /\ UNCHANGED <<vars, cardTables, hook, seen>>

\* An adjustment takes its amount from the transaction it adjusts.
ParentAmount(w) ==
    LET rows == {i \in Idems : pomeloTx[i] # NoRow /\ pomeloTx[i].id = w.parent}
    IN  IF rows = {} THEN NoRow ELSE nobaTx[pomeloTx[CHOOSE i \in rows : TRUE].noba]

FindParent(d) ==
    LET amt == ParentAmount(hook[d]) IN
    /\ at[d] = "parent"
    /\ IF amt = NoRow
       THEN Answer(d, "SYSTEM_ERROR") /\ UNCHANGED usd
       ELSE /\ usd' = [usd EXCEPT ![d] = amt]
            /\ Move(d, IF hook[d].kind = "CREDIT" THEN "save" ELSE "balance")
            /\ UNCHANGED reply
    /\ UNCHANGED <<vars, cardTables, hook, seen>>

-----------------------------------------------------------------------------
(* getOrCreateCardWithdrawalNobaTransaction and the movement of the money *)

\* validateInputTransaction accepts an ID from a CARD_WITHDRAWAL only.
AcceptsID(kind) == kind = "AUTHORIZATION"

\* Saved now, or saved before by another delivery and fetched; else an error.
SaveNobaTransaction(d) ==
    LET k == NobaID(d) IN
    /\ at[d] = "save"
    /\ \/ /\ AcceptsID(hook[d].kind) /\ nobaTx[k] = NoRow
          /\ nobaTx' = [nobaTx EXCEPT ![k] = usd[d]]
          /\ Move(d, "move") /\ UNCHANGED reply
       \/ /\ nobaTx[k] # NoRow
          /\ Move(d, "move") /\ UNCHANGED <<nobaTx, reply>>
       \/ /\ nobaTx[k] = NoRow /\ ~AcceptsID(hook[d].kind)
          /\ Answer(d, "SYSTEM_ERROR") /\ UNCHANGED nobaTx
    /\ UNCHANGED <<vars, pomeloTx, hook, usd, seen>>

\* An authorization debits what the saved transaction says, an adjustment its
\* own amount; only a CREDIT adjustment pays the holder.
Movement(d) ==
    LET k == NobaID(d)
        w == hook[d].holder
        amt == IF hook[d].kind = "AUTHORIZATION" THEN nobaTx[k] ELSE usd[d]
    IN  IF hook[d].kind = "CREDIT"
        THEN [kind |-> "credit", key |-> k, src |-> Master, dst |-> w, amt |-> amt, frac |-> 0]
        ELSE [kind |-> "debit", key |-> k, src |-> w, dst |-> Master, amt |-> amt, frac |-> 0]

MoveMoney(d) ==
    /\ at[d] = "move"
    /\ Start(d, Movement(d))
    /\ Move(d, "moving")
    /\ UNCHANGED <<cardTables, hook, usd, seen, reply>>

\* Variant: anything but a lack of funds is approved.
DecisionByElse(kind, a) == IF a = "INSUFFICIENT_FUNDS" THEN a ELSE "APPROVED"

\* Circle's status becomes the decision; a failed transfer of an adjustment, and
\* anything CircleService throws, ends the delivery with nothing recorded.
DecisionOf(kind, a) ==
    CASE a = "SUCCESS" -> "APPROVED"
      [] a = "INSUFFICIENT_FUNDS" -> "INSUFFICIENT_FUNDS"
      [] a = "TRANSFER_FAILED" /\ kind = "AUTHORIZATION" -> "SYSTEM_ERROR"
      [] OTHER -> "none"

\* Variant: an exception is not caught.
MoneyMovedUncaught(d) ==
    LET decision == DecisionOf(hook[d].kind, answer[d]) IN
    /\ at[d] = "moving" /\ decision # "none"
    /\ Returned(d)
    /\ Move(d, "record") /\ reply' = [reply EXCEPT ![d] = decision]
    /\ UNCHANGED <<cardTables, hook, usd, seen>>

MoneyMoved(d) ==
    LET decision == DecisionOf(hook[d].kind, answer[d]) IN
    /\ at[d] = "moving"
    /\ Returned(d)
    /\ IF decision = "none"
       THEN Answer(d, "SYSTEM_ERROR")
       ELSE Move(d, "record") /\ reply' = [reply EXCEPT ![d] = decision]
    /\ UNCHANGED <<cardTables, hook, usd, seen>>

\* updatePomeloTransactionStatus, whatever the status is by now; the answer of the
\* database may be lost.
RecordDecision(d) ==
    /\ at[d] = "record"
    /\ pomeloTx' = [pomeloTx EXCEPT ![hook[d].idem].status = reply[d]]
    /\ Move(d, "done")
    /\ UNCHANGED reply \/ (~Orderly /\ reply' = [reply EXCEPT ![d] = "SYSTEM_ERROR"])
    /\ UNCHANGED <<vars, nobaTx, hook, usd, seen>>

-----------------------------------------------------------------------------
\* A query or a service the delivery waits for fails: SYSTEM_ERROR, no decision.
DeliveryFails(d) ==
    /\ ~Orderly
    /\ at[d] \in {"fetch", "holder", "parent", "balance", "price", "save", "record"}
    /\ Answer(d, "SYSTEM_ERROR")
    /\ UNCHANGED <<vars, cardTables, hook, usd, seen>>

\* The server restarts; Pomelo gets no answer from the deliveries in flight.
ServerCrash ==
    /\ ~Orderly
    /\ \E d \in Calls : InFlight(d)
    /\ at' = [d \in Calls |-> IF InFlight(d) THEN "done" ELSE at[d]]
    /\ reply' = [d \in Calls |-> IF InFlight(d) THEN "none" ELSE reply[d]]
    /\ pc' = [c \in Calls |-> IF Running(c) THEN "done" ELSE pc[c]]
    /\ answer' = [c \in Calls |-> IF Running(c) THEN "crashed" ELSE answer[c]]
    /\ UNCHANGED <<ledgerVars, tableVars, req, srcSeen, dstSeen, cardTables, hook, usd, seen>>

CircleStep(d) ==
    /\ CallStep(d) \/ RequestFails(d) \/ ResponseLost(d)
    /\ UNCHANGED <<cardTables, deliveryVars>>

DeliveryStep(d) ==
    \/ CreatePomeloTransaction(d) \/ FetchPomeloTransaction(d)
    \/ FindCardHolder(d) \/ AskForWallet(d) \/ GetWallet(d)
    \/ ReadWalletBalance(d) \/ PriceInUSD(d) \/ FindParent(d)
    \/ SaveNobaTransaction(d) \/ MoveMoney(d) \/ MoneyMoved(d) \/ RecordDecision(d)

CardNext ==
    /\ \/ \E d \in Calls :
            \/ \E w \in Webhooks : Receive(d, w) \/ Refuse(d, w)
            \/ DeliveryStep(d) \/ CircleStep(d) \/ DeliveryFails(d)
       \/ ServerCrash
       \/ \E k \in Keys : CircleSettles(k) /\ UNCHANGED <<cardTables, deliveryVars>>
    /\ UNCHANGED world

\* A delivery that has begun is served to its end; webhooks, faults and restarts
\* are never owed.
CardFairness ==
    \A d \in Calls : /\ WF_cardVars(DeliveryStep(d) /\ UNCHANGED world)
                     /\ WF_cardVars(CircleStep(d) /\ UNCHANGED world)

CardSpec == CardInit /\ [][CardNext]_cardVars
CardFairSpec == CardSpec /\ CardFairness

-----------------------------------------------------------------------------
(* Properties *)

\* The money of a purchase has left the holder's wallet, or is on its way.
DebitedFor(w) ==
    /\ pomeloTx[w.idem] # NoRow
    /\ LET k == pomeloTx[w.idem].noba
       IN  nobaTx[k] # NoRow /\ Moved(k, w.holder, Master, nobaTx[k])

\* Whatever Circle executes for webhooks is the debit of one authorized purchase, from the
\* holder of its card, for the amount its Noba transaction was saved with; and
\* two rows never share a transfer, so a purchase is debited at most once
\* however many times it is delivered.
OneDebitPerPurchase ==
    /\ (\E d \in Calls : hook[d] # NoWebhook) => \A k \in Keys : transfers[k] # NoTransfer =>
        \E w \in Webhooks :
            /\ w.kind = "AUTHORIZATION" /\ pomeloTx[w.idem] # NoRow
            /\ pomeloTx[w.idem].noba = k /\ nobaTx[k] \in w.usd
            /\ transfers[k].src = w.holder /\ transfers[k].dst = Master
            /\ transfers[k].amt = nobaTx[k]
    /\ \A i, j \in Idems : i # j /\ pomeloTx[i] # NoRow /\ pomeloTx[j] # NoRow =>
        pomeloTx[i].id # pomeloTx[j].id /\ pomeloTx[i].noba # pomeloTx[j].noba

Accepted(k) == transfers[k] # NoTransfer /\ transfers[k].state \notin RefusedStates

\* Neither Pomelo nor the table is told APPROVED unless Circle accepted the debit;
\* and a purchase that was debited and yet answered as declined was delivered at
\* least twice, for one delivery alone decides rightly.
DecisionsMatchTheMoney ==
    /\ \A i \in Idems : pomeloTx[i] # NoRow /\ pomeloTx[i].status = "APPROVED" =>
        Accepted(pomeloTx[i].noba)
    /\ \A d \in Calls : at[d] = "done" =>
        /\ reply[d] = "APPROVED" => Accepted(NobaID(d))
        /\ reply[d] = "INSUFFICIENT_FUNDS" /\ DebitedFor(hook[d]) =>
            \E e \in Calls \ {d} : hook[e] = hook[d]

\* Deliveries one after the other, with any faults and restarts: what has been
\* decided is neither executed again nor decided otherwise.
DecidedIsNotExecuted ==
    \A d \in Calls : at[d] \in {"move", "moving"} => RowOf(d).status = "PENDING"
DecidedIsDoneInTurn ==
    [][Serial =>
        /\ DecidedIsNotExecuted
        /\ \A i \in Idems : pomeloTx[i] # NoRow /\ pomeloTx[i].status # "PENDING" =>
                pomeloTx'[i].status = pomeloTx[i].status]_cardVars
=============================================================================
