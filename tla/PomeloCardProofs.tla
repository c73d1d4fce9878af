-------------------------- MODULE PomeloCardProofs --------------------------
(***************************************************************************)
(* Theorems about the card webhooks, for any webhooks, deliveries,         *)
(* balances, rates, faults and restarts.                                   *)
(***************************************************************************)
EXTENDS PomeloCard, CircleWalletsProofs

Places == {"idle", "create", "fetch", "holder", "wallet", "walletCall", "balance", "price",
           "parent", "save", "move", "moving", "record", "done"}

\* Before a delivery has a row; from where its transfer may have been sent.
Rowless == {"idle", "create", "fetch", "done"}
Late == {"moving", "record", "done"}

CardTypeOK ==
    /\ pomeloTx \in [Idems -> Row \cup {NoRow}]
    /\ nobaTx \in [Keys -> Amounts \cup {NoRow}]
    /\ hook \in [Calls -> Webhooks \cup {NoWebhook}]
    /\ at \in [Calls -> Places]
    /\ usd \in [Calls -> Amounts]
    /\ seen \in [Calls -> Nat]
    /\ reply \in [Calls -> Decisions \cup {"none", "OTHER"}]

\* A row was written by the delivery that it names, for that delivery's webhook.
RowOK(i) ==
    pomeloTx[i] # NoRow =>
        LET d == pomeloTx[i].noba
        IN  /\ at[d] \notin {"idle", "create"} /\ hook[d] \in Webhooks
            /\ hook[d].idem = i /\ hook[d].id = pomeloTx[i].id

\* No two rows have one of Pomelo's IDs.
IDsDiffer ==
    \A i, j \in Idems : i # j /\ pomeloTx[i] # NoRow /\ pomeloTx[j] # NoRow =>
        pomeloTx[i].id # pomeloTx[j].id

\* A Noba transaction was saved for a purchase, under the ID in its row.
SavedOK(k) ==
    nobaTx[k] # NoRow =>
        /\ at[k] # "idle" /\ hook[k] \in Webhooks /\ hook[k].kind = "AUTHORIZATION"
        /\ pomeloTx[hook[k].idem] # NoRow /\ pomeloTx[hook[k].idem].noba = k
        /\ nobaTx[k] \in hook[k].usd

\* A transfer was sent for a saved transaction, by a delivery of its webhook.
SentOK(k) ==
    transfers[k] # NoTransfer =>
        /\ nobaTx[k] # NoRow
        /\ transfers[k].src = hook[k].holder /\ transfers[k].dst = Master
        /\ transfers[k].amt = nobaTx[k]
        /\ \E e \in Calls : at[e] \in Late /\ hook[e] = hook[k]

\* What is recorded of a purchase was decided by a delivery that has ended.
StatusOK(i) ==
    pomeloTx[i] # NoRow =>
        /\ pomeloTx[i].status = "APPROVED" => Accepted(pomeloTx[i].noba)
        /\ pomeloTx[i].status # "PENDING" =>
            \E e \in Calls : at[e] = "done" /\ hook[e] = hook[pomeloTx[i].noba]

\* The call to CircleService a delivery waits for.
CallOfOK(d) ==
    pc[d] # "idle" =>
        \/ at[d] = "walletCall" /\ req[d] = WalletRequest(d)
        \/ at[d] = "moving" /\ req[d] = Movement(d)
        \/ at[d] = "done" /\ pc[d] = "done"

\* What CircleService has answered of a movement is what Circle has recorded of it.
AnswerOK(d) ==
    /\ at[d] \notin Late => answer[d] \notin Statuses
    /\ at[d] = "moving" /\ answer[d] = "SUCCESS" => Accepted(NobaID(d))
    /\ at[d] = "moving" /\ answer[d] = "INSUFFICIENT_FUNDS" =>
        transfers[NobaID(d)] # NoTransfer /\ ~Accepted(NobaID(d))

ReplyOK(d) ==
    at[d] \in {"record", "done"} =>
        /\ reply[d] = "APPROVED" => RowOf(d) # NoRow /\ Accepted(NobaID(d))
        /\ reply[d] = "INSUFFICIENT_FUNDS" =>
            RowOf(d) # NoRow /\ (Accepted(NobaID(d)) =>
                \E e \in Calls \ {d} : hook[e] = hook[d])

PlaceOK(d) ==
    /\ at[d] = "idle" => hook[d] = NoWebhook
    /\ at[d] # "idle" => hook[d] \in Webhooks
    /\ at[d] \notin Rowless => RowOf(d) # NoRow
    /\ at[d] \notin Rowless \cup {"holder"} => hook[d].holder \in Consumers
    /\ at[d] = "save" /\ hook[d].kind = "AUTHORIZATION" => usd[d] \in hook[d].usd
    /\ at[d] \in {"parent"} => hook[d].kind # "AUTHORIZATION"
    /\ at[d] \in {"move", "moving"} => nobaTx[NobaID(d)] # NoRow
    /\ at[d] = "record" => reply[d] \in Decisions

DeliveryOK(d) == PlaceOK(d) /\ CallOfOK(d) /\ AnswerOK(d) /\ ReplyOK(d)

CardInv ==
    /\ TypeOK /\ CallsOK /\ CardTypeOK /\ IDsDiffer
    /\ \A i \in Idems : RowOK(i) /\ StatusOK(i)
    /\ \A k \in Keys : SavedOK(k) /\ SentOK(k)
    /\ \A d \in Calls : DeliveryOK(d)

\* What a webhook is made of, and what two webhooks of one key are.
LEMMA WebhookTyped ==
    ASSUME NEW w \in Webhooks
    PROVE  /\ w.kind \in {"AUTHORIZATION", "CREDIT", "DEBIT"}
           /\ w.idem \in Idems /\ w.id \in PomeloIDs /\ w.holder \in Consumers \cup {Nobody}
           /\ w.usd \subseteq Amounts /\ w # NoWebhook
           /\ \A v \in Webhooks : v.idem = w.idem => v = w
BY CardAssumption DEF WebhookType, Amounts

LEMMA AmountsTyped == Amounts \subseteq Nat /\ 0 \in Amounts
BY CardAssumption DEF Amounts, WebhookType

LEMMA CardInitOK == CardInit => CardInv
<1> SUFFICES ASSUME CardInit PROVE CardInv
  OBVIOUS
<1>1. TypeOK /\ CallsOK
  BY InitTyped DEF CardInit
<1>2. CardTypeOK
  BY AmountsTyped DEF CardInit, CardTypeOK, Places
<1>3. IDsDiffer /\ \A i \in Idems : RowOK(i) /\ StatusOK(i)
  BY DEF CardInit, IDsDiffer, RowOK, StatusOK
<1>4. \A k \in Keys : SavedOK(k) /\ SentOK(k)
  BY DEF CardInit, Init, LedgerInit, SavedOK, SentOK
<1>5. ASSUME NEW d \in Calls PROVE DeliveryOK(d)
  BY DEF CardInit, Init, DeliveryOK, PlaceOK, CallOfOK, AnswerOK, ReplyOK, Rowless, Late, Statuses
<1> QED BY <1>1, <1>2, <1>3, <1>4, <1>5 DEF CardInv

-----------------------------------------------------------------------------
(* What a step keeps *)

\* The rows keep their IDs, and Noba's transactions their amounts.
TablesKept ==
    /\ \A i \in Idems : pomeloTx[i] # NoRow =>
        /\ pomeloTx'[i] # NoRow
        /\ pomeloTx'[i].id = pomeloTx[i].id /\ pomeloTx'[i].noba = pomeloTx[i].noba
    /\ \A k \in Keys : nobaTx[k] # NoRow => nobaTx'[k] = nobaTx[k]

\* A delivery keeps its webhook and goes on.
Onward(d) ==
    /\ at[d] # "idle" => hook'[d] = hook[d] /\ at'[d] # "idle"
    /\ at[d] \notin {"idle", "create"} => at'[d] # "create"
    /\ at[d] \in Late => at'[d] \in Late
    /\ at[d] = "done" => at'[d] = "done"

\* What is accepted stays accepted, what is refused stays refused; what is new
\* was sent by a delivery that waits for its movement.
LedgerKept ==
    /\ AllKept
    /\ \A k \in Keys : transfers[k] = NoTransfer /\ transfers'[k] # NoTransfer =>
        \E d \in Calls : at[d] = "moving" /\ at'[d] = "moving" /\ k = NobaID(d)

CardKept == TablesKept /\ LedgerKept /\ \A d \in Calls : Onward(d)

Same(d) ==
    /\ at'[d] = at[d] /\ hook'[d] = hook[d] /\ usd'[d] = usd[d] /\ reply'[d] = reply[d]
    /\ pc'[d] = pc[d] /\ req'[d] = req[d] /\ answer'[d] = answer[d]

\* The delivery that wrote the row has the same webhook.
LEMMA WriterHasIt ==
    ASSUME CardInv, NEW d \in Calls, at[d] # "idle", RowOf(d) # NoRow
    PROVE  /\ hook[d] \in Webhooks /\ hook[d].idem \in Idems
           /\ NobaID(d) \in Calls /\ NobaID(d) \in Keys /\ hook[NobaID(d)] = hook[d]
<1>1. hook[d] \in Webhooks
  BY DEF CardInv, DeliveryOK, PlaceOK
<1>2. hook[d].idem \in Idems
  BY <1>1, WebhookTyped
<1>3. RowOf(d) \in Row
  BY <1>2 DEF CardInv, CardTypeOK, RowOf
<1>4. NobaID(d) \in Keys /\ NobaID(d) \in Calls
  BY <1>3, CardAssumption DEF NobaID, Row
<1>5. RowOK(hook[d].idem)
  BY <1>2 DEF CardInv
<1>6. hook[NobaID(d)] \in Webhooks /\ hook[NobaID(d)].idem = hook[d].idem
  BY <1>5 DEF RowOK, NobaID, RowOf
<1> QED BY <1>1, <1>2, <1>4, <1>6, WebhookTyped

LEMMA AcceptedStays ==
    ASSUME CardInv, AllKept, NEW k \in Keys, transfers[k] # NoTransfer
    PROVE  Accepted(k)' <=> Accepted(k)
<1>1. transfers'[k] # NoTransfer
  BY DEF AllKept, Kept
<1>2. transfers'[k].state \in RefusedStates <=> transfers[k].state \in RefusedStates
  BY DEF AllKept, Kept, RefusedStates
<1> QED BY <1>1, <1>2 DEF Accepted

\* A delivery that finds a row finds it again.
LEMMA RowStays ==
    ASSUME CardInv, TablesKept, NEW d \in Calls, at[d] # "idle", hook'[d] = hook[d],
           RowOf(d) # NoRow
    PROVE  RowOf(d)' # NoRow /\ NobaID(d)' = NobaID(d)
BY WriterHasIt DEF TablesKept, RowOf, NobaID

LEMMA HookStays ==
    ASSUME CardInv, CardKept, NEW d \in Calls, hook[d] \in Webhooks
    PROVE  at[d] # "idle" /\ hook'[d] = hook[d]
<1>1. at[d] # "idle"
  BY WebhookTyped DEF CardInv, DeliveryOK, PlaceOK
<1> QED BY <1>1 DEF CardKept, Onward

\* Two deliveries of one row are of one webhook, and so they remain.
LEMMA OtherStays ==
    ASSUME CardInv, CardKept, NEW d \in Calls, at[d] # "idle", hook'[d] = hook[d],
           \E e \in Calls \ {d} : hook[e] = hook[d]
    PROVE  \E e \in Calls \ {d} : hook'[e] = hook'[d]
<1>1. hook[d] \in Webhooks
  BY DEF CardInv, DeliveryOK, PlaceOK
<1> QED BY <1>1, HookStays

\* The invariant of whoever does not act.
LEMMA SameOK ==
    ASSUME CardInv, CardKept, NEW d \in Calls, Same(d)
    PROVE  DeliveryOK(d)'
<1>1. DeliveryOK(d)
  BY DEF CardInv
<1>2. CASE at[d] = "idle"
  BY <1>1, <1>2 DEF DeliveryOK, PlaceOK, CallOfOK, AnswerOK, ReplyOK, Same, Rowless, Late
<1>3. CASE at[d] # "idle"
  <2>1. RowOf(d) # NoRow => RowOf(d)' # NoRow /\ NobaID(d)' = NobaID(d)
    BY <1>3, RowStays DEF CardKept, Same
  <2>2. RowOf(d) # NoRow /\ nobaTx[NobaID(d)] # NoRow =>
            nobaTx'[NobaID(d)] = nobaTx[NobaID(d)]
    BY <1>3, WriterHasIt DEF CardKept, TablesKept
  <2>3. PlaceOK(d)'
    BY <1>1, <2>1, <2>2 DEF DeliveryOK, PlaceOK, Same, Rowless
  <2>4. CallOfOK(d)'
    <3>1. at[d] = "walletCall" => WalletRequest(d)' = WalletRequest(d)
      BY <1>1, <2>1 DEF DeliveryOK, PlaceOK, Same, WalletRequest, Rowless
    <3>2. at[d] = "moving" => Movement(d)' = Movement(d)
      BY <1>1, <2>1, <2>2 DEF DeliveryOK, PlaceOK, Same, Movement, Rowless
    <3> QED BY <1>1, <3>1, <3>2 DEF DeliveryOK, CallOfOK, Same
  <2>5. RowOf(d) # NoRow => NobaID(d) \in Keys
    BY <1>3, WriterHasIt
  <2>6. RowOf(d) # NoRow /\ transfers[NobaID(d)] # NoTransfer =>
            /\ transfers'[NobaID(d)] # NoTransfer
            /\ Accepted(NobaID(d))' <=> Accepted(NobaID(d))
    BY <2>1, <2>5, AcceptedStays DEF CardKept, LedgerKept, AllKept, Kept, Accepted
  <2>7. AnswerOK(d)'
    BY <1>1, <2>1, <2>6 DEF DeliveryOK, PlaceOK, AnswerOK, Same, Rowless, Accepted
  <2>8. ReplyOK(d)'
    <3> SUFFICES ASSUME at[d] \in {"record", "done"} PROVE ReplyOK(d)'
      BY DEF ReplyOK, Same
    <3>1. CASE reply[d] = "APPROVED"
      BY <1>1, <2>1, <2>6, <3>1 DEF DeliveryOK, ReplyOK, Same, Accepted
    <3>2. CASE reply[d] = "INSUFFICIENT_FUNDS"
      <4>1. RowOf(d) # NoRow /\ (Accepted(NobaID(d)) => \E e \in Calls \ {d} : hook[e] = hook[d])
        BY <1>1, <3>2 DEF DeliveryOK, ReplyOK
      <4>2. hook'[d] = hook[d]
        BY DEF Same
      <4>3. CASE transfers[NobaID(d)] # NoTransfer
        <5>1. Accepted(NobaID(d))' => \E e \in Calls \ {d} : hook'[e] = hook'[d]
          BY <1>3, <2>1, <2>6, <4>1, <4>2, <4>3, OtherStays
        <5> QED BY <2>1, <3>2, <4>1, <5>1 DEF ReplyOK, Same
      <4>4. CASE transfers[NobaID(d)] = NoTransfer /\ transfers'[NobaID(d)] # NoTransfer
        <5>1. PICK e \in Calls : at[e] = "moving" /\ NobaID(e) = NobaID(d)
          BY <2>5, <4>1, <4>4 DEF CardKept, LedgerKept
        <5>2. e # d /\ at[e] # "idle" /\ RowOf(e) # NoRow
          BY <5>1 DEF CardInv, DeliveryOK, PlaceOK, Rowless
        <5>3. hook[e] = hook[d]
          BY <1>3, <4>1, <5>1, <5>2, WriterHasIt
        <5>4. \E f \in Calls \ {d} : hook'[f] = hook'[d]
          BY <1>3, <4>2, <5>2, <5>3, OtherStays
        <5> QED BY <2>1, <3>2, <4>1, <5>4 DEF ReplyOK, Same
      <4>5. CASE transfers'[NobaID(d)] = NoTransfer
        BY <2>1, <3>2, <4>1, <4>5 DEF ReplyOK, Same, Accepted
      <4> QED BY <4>3, <4>4, <4>5
    <3> QED BY <3>1, <3>2 DEF ReplyOK, Same
  <2> QED BY <2>3, <2>4, <2>7, <2>8 DEF DeliveryOK
<1> QED BY <1>2, <1>3

\* What a step keeps of the tables and the ledger, but for what it adds to them.
LEMMA TablesOK ==
    ASSUME CardInv, CardKept
    PROVE  /\ \A i \in Idems : pomeloTx[i] # NoRow => RowOK(i)'
           /\ \A k \in Keys : nobaTx[k] # NoRow => SavedOK(k)'
           /\ \A k \in Keys : transfers[k] # NoTransfer => SentOK(k)'
           /\ \A i \in Idems : pomeloTx[i] # NoRow /\ pomeloTx'[i].status = pomeloTx[i].status =>
                StatusOK(i)'
<1>1. ASSUME NEW i \in Idems, pomeloTx[i] # NoRow
      PROVE  RowOK(i)' /\ (pomeloTx'[i].status = pomeloTx[i].status => StatusOK(i)')
  <2>0. PICK d : d = pomeloTx[i].noba
    OBVIOUS
  <2>1. /\ pomeloTx'[i] # NoRow /\ pomeloTx'[i].id = pomeloTx[i].id
        /\ pomeloTx'[i].noba = d
    BY <1>1, <2>0 DEF CardKept, TablesKept
  <2>2. pomeloTx[i] \in Row
    BY <1>1 DEF CardInv, CardTypeOK
  <2>3. d \in Calls /\ d \in Keys
    BY <2>0, <2>2, CardAssumption DEF Row
  <2>4. /\ at[d] \notin {"idle", "create"} /\ hook[d] \in Webhooks
        /\ hook[d].idem = i /\ hook[d].id = pomeloTx[i].id
    BY <1>1, <2>0 DEF CardInv, RowOK
  <2>5. at'[d] \notin {"idle", "create"} /\ hook'[d] = hook[d]
    BY <2>3, <2>4 DEF CardKept, Onward
  <2>6. RowOK(i)'
    BY <2>1, <2>4, <2>5 DEF RowOK
  <2>7. ASSUME pomeloTx'[i].status = pomeloTx[i].status PROVE StatusOK(i)'
    <3>1. Accepted(d) => Accepted(d)'
      BY <2>3, AcceptedStays DEF CardKept, LedgerKept, Accepted
    <3>2. \A e \in Calls : at[e] = "done" => at'[e] = "done" /\ hook'[e] = hook[e]
      BY DEF CardKept, Onward
    <3>3. (hook[pomeloTx[i].noba])' = hook[d]
      BY <2>1, <2>5
    <3>4. Accepted(pomeloTx[i].noba)' <=> Accepted(d)'
      BY <2>1 DEF Accepted
    <3>5. StatusOK(i)
      BY DEF CardInv
    <3> QED BY <1>1, <2>1, <2>7, <3>1, <3>2, <3>3, <3>4, <3>5, <2>0 DEF StatusOK
  <2> QED BY <2>6, <2>7
<1>2. ASSUME NEW k \in Keys, nobaTx[k] # NoRow PROVE SavedOK(k)'
  <2>1. k \in Calls
    BY CardAssumption
  <2>2. SavedOK(k)
    BY DEF CardInv
  <2>3. hook'[k] = hook[k] /\ at'[k] # "idle"
    BY <1>2, <2>1, <2>2 DEF SavedOK, CardKept, Onward
  <2>4. hook[k].idem \in Idems
    BY <1>2, <2>2, WebhookTyped DEF SavedOK
  <2> QED BY <1>2, <2>2, <2>3, <2>4 DEF SavedOK, CardKept, TablesKept
<1>3. ASSUME NEW k \in Keys, transfers[k] # NoTransfer PROVE SentOK(k)'
  <2>1. k \in Calls
    BY CardAssumption
  <2>2. SavedOK(k) /\ SentOK(k)
    BY DEF CardInv
  <2>3. hook'[k] = hook[k] /\ nobaTx'[k] = nobaTx[k]
    BY <1>3, <2>1, <2>2 DEF SavedOK, SentOK, CardKept, Onward, TablesKept
  <2>4. PICK e \in Calls : at[e] \in Late /\ hook[e] = hook[k]
    BY <1>3, <2>2 DEF SentOK
  <2>5. at'[e] \in Late /\ hook'[e] = hook[e]
    BY <2>4 DEF CardKept, Onward, Late
  <2>6. /\ transfers'[k].src = transfers[k].src /\ transfers'[k].dst = transfers[k].dst
        /\ transfers'[k].amt = transfers[k].amt
    BY <1>3 DEF CardKept, LedgerKept, AllKept, Kept
  <2> QED BY <1>3, <2>2, <2>3, <2>4, <2>5, <2>6 DEF SentOK
<1> QED BY <1>1, <1>2, <1>3

-----------------------------------------------------------------------------
(* A step of one delivery *)

OthersSame(d) == \A e \in Calls \ {d} : Same(e)

\* What is left to show of it: what it has become itself, and what it has added.
LEMMA DeliveryMoves ==
    ASSUME CardInv, TypeOK', CallsOK', CardTypeOK', NEW d \in Calls,
           OthersSame(d), Onward(d), DeliveryOK(d)', TablesKept, LedgerKept,
           IDsDiffer',
           \A i \in Idems : pomeloTx[i] = NoRow /\ pomeloTx'[i] # NoRow => RowOK(i)',
           \A i \in Idems : pomeloTx'[i] # pomeloTx[i] => StatusOK(i)',
           \A k \in Keys : nobaTx[k] = NoRow => SavedOK(k)',
           \A k \in Keys : transfers[k] = NoTransfer => SentOK(k)'
    PROVE  CardInv'
<1>1. \A e \in Calls \ {d} : Onward(e)
  BY DEF OthersSame, Same, Onward
<1>2. CardKept
  BY <1>1 DEF CardKept
<1>3. \A e \in Calls : DeliveryOK(e)'
  BY <1>2, SameOK DEF OthersSame
<1>4. \A i \in Idems : RowOK(i)' /\ StatusOK(i)'
  BY <1>2, TablesOK DEF RowOK, StatusOK
<1>5. \A k \in Keys : SavedOK(k)' /\ SentOK(k)'
  BY <1>2, TablesOK
<1> QED BY <1>3, <1>4, <1>5 DEF CardInv

LEMMA LedgerUnchanged ==
    ASSUME UNCHANGED ledgerVars PROVE LedgerKept
BY DEF ledgerVars, LedgerKept, AllKept, Kept

LEMMA VarsUnchanged ==
    ASSUME CardInv, UNCHANGED vars
    PROVE  TypeOK' /\ CallsOK' /\ LedgerKept
<1>1. TypeOK' /\ CallsOK'
  BY StepTyped DEF CardInv
<1> QED BY <1>1, LedgerUnchanged DEF vars

\* A delivery that asks nothing of CircleService and writes nothing.
OwnChange(d) ==
    \A e \in Calls \ {d} :
        at'[e] = at[e] /\ hook'[e] = hook[e] /\ usd'[e] = usd[e] /\ reply'[e] = reply[e]

LEMMA OwnChangeSame ==
    ASSUME UNCHANGED vars, NEW d \in Calls, OwnChange(d)
    PROVE  OthersSame(d)
BY DEF vars, callVars, OwnChange, OthersSame, Same

\* Nobody but who waits for CircleService has a call there.
LEMMA NoCallOK ==
    ASSUME CardInv, UNCHANGED vars, NEW d \in Calls,
           at[d] \notin {"walletCall", "moving", "done"}, at'[d] # "moving",
           at[d] \in Late => at'[d] \in Late
    PROVE  CallOfOK(d)' /\ AnswerOK(d)'
<1>1. CallOfOK(d) /\ AnswerOK(d)
  BY DEF CardInv, DeliveryOK
<1> QED BY <1>1 DEF CallOfOK, AnswerOK, vars, callVars

LEMMA QuietOK ==
    ASSUME CardInv, UNCHANGED <<vars, cardTables>>, CardTypeOK', NEW d \in Calls,
           at[d] \notin {"walletCall", "moving", "done"}, at'[d] # "moving",
           OwnChange(d), Onward(d), PlaceOK(d)', ReplyOK(d)'
    PROVE  CardInv'
<1>1. TypeOK' /\ CallsOK' /\ LedgerKept
  BY VarsUnchanged
<1>2. TablesKept
  BY DEF TablesKept, cardTables
<1>3. DeliveryOK(d)'
  BY NoCallOK DEF DeliveryOK, Onward
<1>4. IDsDiffer'
  BY DEF CardInv, IDsDiffer, cardTables
<1>5. OthersSame(d)
  BY OwnChangeSame
<1>6. pomeloTx' = pomeloTx /\ nobaTx' = nobaTx /\ transfers' = transfers
  BY DEF cardTables, vars, ledgerVars
<1>7. \A k \in Keys : nobaTx[k] = NoRow => SavedOK(k)'
  BY <1>6 DEF SavedOK
<1>8. \A k \in Keys : transfers[k] = NoTransfer => SentOK(k)'
  BY <1>6 DEF SentOK
<1> QED BY <1>1, <1>2, <1>3, <1>4, <1>5, <1>6, <1>7, <1>8, DeliveryMoves

LEMMA PlaceTyped == ASSUME CardInv, NEW d \in Calls PROVE at[d] \in Places
BY DEF CardInv, CardTypeOK

LEMMA ReceiveOK ==
    ASSUME CardInv, NEW d \in Calls, NEW w \in Webhooks, Receive(d, w) \/ Refuse(d, w)
    PROVE  CardInv'
<1>1. at[d] = "idle" /\ UNCHANGED <<vars, cardTables>>
  BY DEF Receive, Refuse
<1>2. CardTypeOK'
  BY DEF CardInv, CardTypeOK, Receive, Refuse, Move, Answer, Places, cardTables
<1>3. OwnChange(d) /\ hook'[d] = w /\ at'[d] \in {"create", "done"}
  BY DEF CardInv, CardTypeOK, Receive, Refuse, Move, Answer, OwnChange
<1>4. at'[d] = "done" => reply'[d] = "OTHER"
  BY DEF CardInv, CardTypeOK, Receive, Refuse, Move, Answer
<1>5. Onward(d) /\ PlaceOK(d)' /\ ReplyOK(d)'
  BY <1>1, <1>3, <1>4, WebhookTyped DEF Onward, PlaceOK, ReplyOK, Rowless, Late
<1> QED BY <1>1, <1>2, <1>3, <1>5, QuietOK

\* A delivery that ends with an answer that says nothing of the money.
LEMMA NoDecisionOK ==
    ASSUME CardInv, NEW d \in Calls, UNCHANGED <<vars, cardTables, hook, usd, seen>>,
           at[d] \notin {"idle", "walletCall", "moving", "done"},
           Answer(d, "SYSTEM_ERROR")
    PROVE  CardInv'
<1>1. CardTypeOK'
  BY DEF CardInv, CardTypeOK, Move, Answer, Places, cardTables, Decisions
<1>2. OwnChange(d) /\ at'[d] = "done" /\ reply'[d] = "SYSTEM_ERROR" /\ hook'[d] = hook[d]
  BY DEF CardInv, CardTypeOK, Move, Answer, OwnChange
<1>3. PlaceOK(d)
  BY DEF CardInv, DeliveryOK
<1>4. Onward(d) /\ PlaceOK(d)' /\ ReplyOK(d)'
  BY <1>2, <1>3 DEF Onward, PlaceOK, ReplyOK, Rowless, Late
<1> QED BY <1>1, <1>2, <1>4, QuietOK

LEMMA DeliveryFailsOK ==
    ASSUME CardInv, NEW d \in Calls, DeliveryFails(d) PROVE CardInv'
BY NoDecisionOK DEF DeliveryFails

\* A delivery that goes on to a place where nothing but its row is asked for.
LEMMA GoesOnOK ==
    ASSUME CardInv, NEW d \in Calls, UNCHANGED <<vars, cardTables, hook, reply>>,
           NEW place \in {"holder", "wallet", "balance", "price", "parent", "save"}, Move(d, place),
           usd' \in [Calls -> Amounts], seen' \in [Calls -> Nat],
           \A e \in Calls \ {d} : usd'[e] = usd[e],
           at[d] \notin {"idle", "walletCall", "moving", "record", "done"},
           RowOf(d) # NoRow,
           place # "holder" => hook[d].holder \in Consumers,
           place = "parent" => hook[d].kind # "AUTHORIZATION",
           place = "save" /\ hook[d].kind = "AUTHORIZATION" => usd'[d] \in hook[d].usd
    PROVE  CardInv'
<1>1. CardTypeOK'
  BY DEF CardInv, CardTypeOK, Move, Places, cardTables
<1>2. OwnChange(d) /\ at'[d] = place /\ hook'[d] = hook[d]
  BY DEF CardInv, CardTypeOK, Move, OwnChange
<1>3. PlaceOK(d)
  BY DEF CardInv, DeliveryOK
<1>4. RowOf(d)' = RowOf(d)
  BY DEF RowOf, cardTables
<1>5. Onward(d) /\ PlaceOK(d)' /\ ReplyOK(d)'
  BY <1>2, <1>3, <1>4 DEF Onward, PlaceOK, ReplyOK, Rowless, Late
<1> QED BY <1>1, <1>2, <1>5, QuietOK

\* A delivery that has not sent its transfer finds one only where another of the
\* same webhook has sent it.
LEMMA SentByAnother ==
    ASSUME CardInv, NEW d \in Calls, at[d] \notin Late \cup {"idle"}, RowOf(d) # NoRow,
           transfers[NobaID(d)] # NoTransfer
    PROVE  \E e \in Calls \ {d} : hook[e] = hook[d]
<1>1. NobaID(d) \in Keys /\ hook[NobaID(d)] = hook[d]
  BY WriterHasIt
<1>2. PICK e \in Calls : at[e] \in Late /\ hook[e] = hook[NobaID(d)]
  BY <1>1 DEF CardInv, SentOK
<1> QED BY <1>1, <1>2

\* Not enough in the wallet: what is declined so was not moved by this delivery.
LEMMA DeclinedOK ==
    ASSUME CardInv, NEW d \in Calls, UNCHANGED <<vars, cardTables, hook>>,
           at[d] \in {"balance", "price"}, Move(d, "record"),
           reply' = [reply EXCEPT ![d] = "INSUFFICIENT_FUNDS"],
           usd' \in [Calls -> Amounts], seen' \in [Calls -> Nat],
           \A e \in Calls \ {d} : usd'[e] = usd[e]
    PROVE  CardInv'
<1>1. CardTypeOK'
  BY DEF CardInv, CardTypeOK, Move, Places, cardTables, Decisions
<1>2. /\ OwnChange(d) /\ at'[d] = "record" /\ hook'[d] = hook[d]
      /\ reply'[d] = "INSUFFICIENT_FUNDS"
  BY DEF CardInv, CardTypeOK, Move, OwnChange
<1>3. PlaceOK(d) /\ RowOf(d) # NoRow
  BY DEF CardInv, DeliveryOK, PlaceOK, Rowless
<1>4. RowOf(d)' = RowOf(d) /\ NobaID(d)' = NobaID(d)
  BY DEF RowOf, NobaID, cardTables
<1>5. transfers[NobaID(d)] # NoTransfer => \E e \in Calls \ {d} : hook[e] = hook[d]
  BY <1>3, SentByAnother DEF Late
<1>6. ReplyOK(d)'
  BY <1>2, <1>3, <1>4, <1>5 DEF ReplyOK, Accepted, vars, ledgerVars
<1>7. Onward(d) /\ PlaceOK(d)'
  BY <1>2, <1>3, <1>4 DEF Onward, PlaceOK, Rowless, Late, Decisions
<1> QED BY <1>1, <1>2, <1>6, <1>7, QuietOK

LEMMA FindCardHolderOK ==
    ASSUME CardInv, NEW d \in Calls, FindCardHolder(d) PROVE CardInv'
<1>1. at[d] = "holder" /\ UNCHANGED <<vars, cardTables, hook, usd, seen>>
  BY DEF FindCardHolder
<1>2. CASE hook[d].holder = Nobody
  BY <1>1, <1>2, NoDecisionOK DEF FindCardHolder
<1>3. CASE hook[d].holder # Nobody
  <2>1. hook[d] \in Webhooks /\ RowOf(d) # NoRow
    BY <1>1 DEF CardInv, DeliveryOK, PlaceOK, Rowless
  <2>2. hook[d].holder \in Consumers
    BY <1>3, <2>1, WebhookTyped
  <2>3. usd' \in [Calls -> Amounts] /\ seen' \in [Calls -> Nat]
    BY <1>1 DEF CardInv, CardTypeOK
  <2> QED BY <1>1, <1>3, <2>1, <2>2, <2>3, GoesOnOK DEF FindCardHolder
<1> QED BY <1>2, <1>3

\* Where a delivery has come past its card's holder.
LEMMA HolderKnown ==
    ASSUME CardInv, NEW d \in Calls, at[d] \notin Rowless \cup {"holder"}
    PROVE  /\ RowOf(d) # NoRow /\ hook[d] \in Webhooks /\ hook[d].holder \in Consumers
           /\ usd[d] \in Amounts /\ usd[d] \in Nat
           /\ balance[hook[d].holder] \in Nat
<1>1. RowOf(d) # NoRow /\ hook[d] \in Webhooks /\ hook[d].holder \in Consumers
  BY DEF CardInv, DeliveryOK, PlaceOK, Rowless
<1> QED BY <1>1, AmountsTyped DEF CardInv, CardTypeOK, TypeOK, LedgerTypeOK, Wallets

LEMMA ReadWalletBalanceOK ==
    ASSUME CardInv, NEW d \in Calls, ReadWalletBalance(d) PROVE CardInv'
<1>1. at[d] = "balance" /\ UNCHANGED <<vars, cardTables, hook, usd>>
  BY DEF ReadWalletBalance
<1>2. /\ RowOf(d) # NoRow /\ hook[d] \in Webhooks /\ hook[d].holder \in Consumers
      /\ balance[hook[d].holder] \in Nat
  BY <1>1, HolderKnown DEF Rowless
<1>3. usd' \in [Calls -> Amounts] /\ seen' \in [Calls -> Nat]
  BY <1>1, <1>2 DEF ReadWalletBalance, CardInv, CardTypeOK
<1>4. CASE Move(d, "price") /\ UNCHANGED reply
  BY <1>1, <1>2, <1>3, <1>4, GoesOnOK
<1>5. CASE hook[d].kind # "AUTHORIZATION" /\ Affordable(d, balance[hook[d].holder], usd[d])
  BY <1>1, <1>2, <1>3, <1>5, GoesOnOK, DeclinedOK DEF Affordable
<1> QED BY <1>4, <1>5 DEF ReadWalletBalance

LEMMA PriceInUSDOK ==
    ASSUME CardInv, NEW d \in Calls, PriceInUSD(d) PROVE CardInv'
<1>1. at[d] = "price" /\ UNCHANGED <<vars, cardTables, hook, seen>>
  BY DEF PriceInUSD
<1>2. RowOf(d) # NoRow /\ hook[d] \in Webhooks /\ hook[d].holder \in Consumers
  BY <1>1, HolderKnown DEF Rowless
<1>3. PICK amt \in hook[d].usd : usd' = [usd EXCEPT ![d] = amt] /\ Affordable(d, seen[d], amt)
  BY DEF PriceInUSD
<1>4. amt \in Amounts
  BY <1>2, WebhookTyped
<1>5. /\ usd' \in [Calls -> Amounts] /\ seen' \in [Calls -> Nat] /\ usd'[d] = amt
      /\ \A e \in Calls \ {d} : usd'[e] = usd[e]
  BY <1>1, <1>3, <1>4 DEF CardInv, CardTypeOK
<1>6. CASE Move(d, "record") /\ reply' = [reply EXCEPT ![d] = "INSUFFICIENT_FUNDS"]
  BY <1>1, <1>5, <1>6, DeclinedOK
<1>7. CASE Move(d, "save") /\ UNCHANGED reply
  BY <1>1, <1>2, <1>5, <1>7, GoesOnOK
<1> QED BY <1>3, <1>6, <1>7 DEF Affordable

LEMMA FindParentOK ==
    ASSUME CardInv, NEW d \in Calls, FindParent(d) PROVE CardInv'
<1> DEFINE amt == ParentAmount(hook[d])
<1>1. at[d] = "parent" /\ UNCHANGED <<vars, cardTables, hook, seen>>
  BY DEF FindParent
<1>2. /\ RowOf(d) # NoRow /\ hook[d] \in Webhooks /\ hook[d].holder \in Consumers
      /\ hook[d].kind # "AUTHORIZATION"
  BY <1>1, HolderKnown DEF Rowless, CardInv, DeliveryOK, PlaceOK
<1>3. CASE amt = NoRow
  BY <1>1, <1>3, NoDecisionOK DEF FindParent
<1>4. CASE amt # NoRow
  <2>1. amt \in Amounts
    <3> DEFINE rows == {i \in Idems : pomeloTx[i] # NoRow /\ pomeloTx[i].id = hook[d].parent}
    <3>1. rows # {} /\ amt = nobaTx[pomeloTx[CHOOSE i \in rows : TRUE].noba]
      BY <1>4 DEF ParentAmount
    <3>2. PICK i \in rows : i = CHOOSE j \in rows : TRUE
      BY <3>1
    <3>3. pomeloTx[i] \in Row
      BY <3>2 DEF CardInv, CardTypeOK
    <3> QED BY <1>4, <3>1, <3>2, <3>3 DEF CardInv, CardTypeOK, Row
  <2>2. /\ usd' \in [Calls -> Amounts] /\ seen' \in [Calls -> Nat]
        /\ \A e \in Calls \ {d} : usd'[e] = usd[e]
    BY <1>1, <1>4, <2>1 DEF FindParent, CardInv, CardTypeOK
  <2>3. UNCHANGED reply /\ (Move(d, "save") \/ Move(d, "balance"))
    BY <1>4 DEF FindParent
  <2> QED BY <1>1, <1>2, <2>2, <2>3, GoesOnOK
<1> QED BY <1>3, <1>4

\* The row that is found was decided as it says.
LEMMA FetchPomeloTransactionOK ==
    ASSUME CardInv, NEW d \in Calls, FetchPomeloTransaction(d) PROVE CardInv'
<1>1. at[d] = "fetch" /\ UNCHANGED <<vars, cardTables, hook, usd, seen>>
  BY DEF FetchPomeloTransaction
<1>2. CASE RowOf(d) = NoRow
  BY <1>1, <1>2, NoDecisionOK DEF FetchPomeloTransaction
<1>3. CASE RowOf(d) # NoRow /\ RowOf(d).status = "PENDING"
  <2>1. usd' \in [Calls -> Amounts] /\ seen' \in [Calls -> Nat]
    BY <1>1 DEF CardInv, CardTypeOK
  <2> QED BY <1>1, <1>3, <2>1, GoesOnOK DEF FetchPomeloTransaction
<1>4. CASE RowOf(d) # NoRow /\ RowOf(d).status # "PENDING"
  <2>1. Answer(d, RowOf(d).status)
    BY <1>4 DEF FetchPomeloTransaction
  <2>2. hook[d].idem \in Idems /\ NobaID(d) \in Keys /\ hook[NobaID(d)] = hook[d]
    BY <1>1, <1>4, WriterHasIt
  <2>3. RowOf(d).status \in Decisions
    BY <1>4, <2>2 DEF CardInv, CardTypeOK, RowOf, Row, RowStatuses
  <2>4. CardTypeOK'
    BY <1>1, <2>1, <2>3 DEF CardInv, CardTypeOK, Move, Answer, Places, cardTables
  <2>5. OwnChange(d) /\ at'[d] = "done" /\ reply'[d] = RowOf(d).status /\ hook'[d] = hook[d]
    BY <1>1, <2>1 DEF CardInv, CardTypeOK, Move, Answer, OwnChange
  <2>6. StatusOK(hook[d].idem)
    BY <2>2 DEF CardInv
  <2>7. /\ RowOf(d).status = "APPROVED" => Accepted(NobaID(d))
        /\ \E e \in Calls : at[e] = "done" /\ hook[e] = hook[d]
    BY <1>4, <2>2, <2>6 DEF StatusOK, RowOf, NobaID
  <2>8. \E e \in Calls \ {d} : hook'[e] = hook'[d]
    BY <1>1, <2>5, <2>7
  <2>9. RowOf(d)' = RowOf(d) /\ NobaID(d)' = NobaID(d) /\ (Accepted(NobaID(d)) => Accepted(NobaID(d))')
    BY <1>1 DEF RowOf, NobaID, cardTables, Accepted, vars, ledgerVars
  <2>10. ReplyOK(d)'
    BY <1>4, <2>5, <2>7, <2>8, <2>9 DEF ReplyOK
  <2>11. Onward(d) /\ PlaceOK(d)'
    BY <1>1, <2>5 DEF CardInv, DeliveryOK, Onward, PlaceOK, Rowless, Late
  <2> QED BY <1>1, <2>4, <2>5, <2>10, <2>11, QuietOK
<1> QED BY <1>2, <1>3, <1>4 DEF FetchPomeloTransaction

-----------------------------------------------------------------------------
(* The steps that write the tables *)

\* The row names the delivery that writes it, and its IDs are nobody else's.
LEMMA CreatePomeloTransactionOK ==
    ASSUME CardInv, NEW d \in Calls, CreatePomeloTransaction(d) PROVE CardInv'
<1> DEFINE w == hook[d]
           row == [id |-> w.id, noba |-> d, status |-> "PENDING"]
<1>1. /\ at[d] = "create" /\ UNCHANGED <<vars, nobaTx, hook, usd, seen, reply>>
      /\ w \in Webhooks
  BY DEF CreatePomeloTransaction, CardInv, DeliveryOK, PlaceOK
<1>2. /\ w.idem \in Idems /\ w.id \in PomeloIDs
      /\ \A v \in Webhooks : v.idem = w.idem => v = w
  BY <1>1, WebhookTyped
<1>3. /\ OwnChange(d) /\ hook'[d] = w /\ at'[d] \in {"holder", "fetch"}
      /\ at' \in [Calls -> Places]
  BY <1>1 DEF CreatePomeloTransaction, CardInv, CardTypeOK, Move, OwnChange, Places
<1>4. CASE UNCHANGED pomeloTx /\ Move(d, "fetch")
  <2>1. CardTypeOK'
    BY <1>1, <1>3, <1>4 DEF CardInv, CardTypeOK
  <2>2. at'[d] = "fetch"
    BY <1>4 DEF CardInv, CardTypeOK, Move
  <2>3. Onward(d) /\ PlaceOK(d)' /\ ReplyOK(d)'
    BY <1>1, <1>3, <2>2 DEF Onward, PlaceOK, ReplyOK, Rowless, Late
  <2> QED BY <1>1, <1>3, <1>4, <2>1, <2>3, QuietOK DEF cardTables
<1>5. CASE Insertable(w) /\ pomeloTx' = [pomeloTx EXCEPT ![w.idem] = row]
  <2>1. row \in Row /\ row # NoRow
    BY <1>2, CardAssumption DEF Row, RowStatuses
  <2>2. pomeloTx'[w.idem] = row /\ pomeloTx[w.idem] = NoRow
    BY <1>2, <1>5 DEF CardInv, CardTypeOK, Insertable, Taken
  <2>3. \A i \in Idems \ {w.idem} : pomeloTx'[i] = pomeloTx[i]
    BY <1>2, <1>5 DEF CardInv, CardTypeOK
  <2>4. \A i \in Idems : pomeloTx[i] # NoRow => pomeloTx[i].id # w.id
    BY <1>5 DEF Insertable, Taken
  <2>5. CardTypeOK'
    BY <1>1, <1>2, <1>3, <1>5, <2>1 DEF CardInv, CardTypeOK
  <2>6. TypeOK' /\ CallsOK' /\ LedgerKept
    BY <1>1, VarsUnchanged
  <2>7. TablesKept
    BY <1>1, <2>2, <2>3 DEF TablesKept
  <2>8. IDsDiffer'
    BY <2>2, <2>3, <2>4 DEF CardInv, IDsDiffer
  <2>9. /\ row.id = w.id /\ row.noba = d /\ row.status = "PENDING"
    OBVIOUS
  <2>10. ASSUME NEW i \in Idems, i = w.idem PROVE RowOK(i)' /\ StatusOK(i)'
    BY <1>1, <1>3, <2>2, <2>9, <2>10 DEF RowOK, StatusOK
  <2>11. RowOf(d)' # NoRow
    BY <1>3, <2>1, <2>2 DEF RowOf
  <2>12. Onward(d) /\ PlaceOK(d)' /\ ReplyOK(d)'
    BY <1>1, <1>3, <2>11 DEF Onward, PlaceOK, ReplyOK, Rowless, Late
  <2>13. DeliveryOK(d)'
    BY <1>1, <1>3, <2>12, NoCallOK DEF DeliveryOK, Late
  <2>14. OthersSame(d)
    BY <1>1, <1>3, OwnChangeSame
  <2>15. \A k \in Keys : (nobaTx[k] = NoRow => SavedOK(k)') /\ (transfers[k] = NoTransfer => SentOK(k)')
    BY <1>1 DEF SavedOK, SentOK, vars, ledgerVars
  <2>16. \A i \in Idems : pomeloTx'[i] # pomeloTx[i] => RowOK(i)' /\ StatusOK(i)'
    BY <2>3, <2>10
  <2> QED BY <2>5, <2>6, <2>7, <2>8, <2>12, <2>13, <2>14, <2>15, <2>16, DeliveryMoves
<1> QED BY <1>4, <1>5 DEF CreatePomeloTransaction

\* Only a purchase is saved under the ID of its row: whatever is adjusted is never
\* saved, and so never moved.
LEMMA SaveNobaTransactionOK ==
    ASSUME CardInv, NEW d \in Calls, SaveNobaTransaction(d) PROVE CardInv'
<1>1. /\ at[d] = "save" /\ UNCHANGED <<vars, pomeloTx, hook, usd, seen>>
  BY DEF SaveNobaTransaction
<1>2. CASE nobaTx[NobaID(d)] = NoRow /\ ~AcceptsID(hook[d].kind)
  <2>1. Answer(d, "SYSTEM_ERROR") /\ UNCHANGED nobaTx
    BY <1>2 DEF SaveNobaTransaction
  <2> QED BY <1>1, <2>1, NoDecisionOK DEF cardTables
<1>3. CASE nobaTx[NobaID(d)] # NoRow \/ AcceptsID(hook[d].kind)
  <2>1. Move(d, "move") /\ UNCHANGED reply
    BY <1>3 DEF SaveNobaTransaction
  <2>2. RowOf(d) # NoRow /\ hook[d].holder \in Consumers /\ usd[d] \in Amounts /\ usd[d] \in Nat
    BY <1>1, HolderKnown DEF Rowless
  <2>3. hook[d] \in Webhooks /\ NobaID(d) \in Calls /\ NobaID(d) \in Keys /\ hook[NobaID(d)] = hook[d]
    BY <1>1, <2>2, WriterHasIt
  <2>4. PICK k \in Keys : k = NobaID(d) /\ k \in Calls /\ hook[k] = hook[d]
    BY <2>3
  <2>5. NoRow \notin Nat
    BY CardAssumption
  <2>6. /\ \A j \in Keys \ {k} : nobaTx'[j] = nobaTx[j]
        /\ nobaTx[k] # NoRow => nobaTx'[k] = nobaTx[k]
        /\ nobaTx[k] = NoRow => nobaTx'[k] = usd[d] /\ hook[d].kind = "AUTHORIZATION"
        /\ nobaTx' \in [Keys -> Amounts \cup {NoRow}]
    BY <1>3, <2>2, <2>4 DEF SaveNobaTransaction, AcceptsID, CardInv, CardTypeOK
  <2>7. nobaTx'[k] # NoRow
    BY <2>2, <2>5, <2>6
  <2>8. CardTypeOK'
    BY <1>1, <2>1, <2>6 DEF CardInv, CardTypeOK, Move, Places
  <2>9. TypeOK' /\ CallsOK' /\ LedgerKept
    BY <1>1, VarsUnchanged
  <2>10. OwnChange(d) /\ at'[d] = "move" /\ hook'[d] = hook[d] /\ hook'[k] = hook[k]
    BY <1>1, <2>1 DEF CardInv, CardTypeOK, Move, OwnChange
  <2>11. hook[d].idem \in Idems /\ RowOK(hook[d].idem)
    BY <1>1, <2>2, WriterHasIt DEF CardInv
  <2>12. at[k] # "idle"
    BY <2>2, <2>4, <2>11 DEF RowOK, RowOf, NobaID
  <2>13. at'[k] # "idle"
    BY <2>1, <2>4, <2>12 DEF CardInv, CardTypeOK, Move
  <2>14. RowOf(d)' = RowOf(d) /\ NobaID(d)' = k
    BY <1>1, <2>4, <2>10 DEF RowOf, NobaID
  <2>15. Onward(d) /\ PlaceOK(d)' /\ ReplyOK(d)'
    BY <1>1, <2>2, <2>3, <2>7, <2>10, <2>14 DEF Onward, PlaceOK, ReplyOK, Rowless, Late
  <2>16. DeliveryOK(d)'
    BY <1>1, <2>10, <2>15, NoCallOK DEF DeliveryOK, Late
  <2>17. OthersSame(d)
    BY <1>1, <2>10, OwnChangeSame
  <2>18. nobaTx[k] = NoRow => SavedOK(k)'
    <3>1. nobaTx[k] = NoRow => usd[d] \in hook[d].usd
      BY <1>1, <2>6 DEF CardInv, DeliveryOK, PlaceOK
    <3> QED BY <1>1, <2>2, <2>3, <2>4, <2>6, <2>10, <2>13, <3>1 DEF SavedOK, RowOf, NobaID
  <2>19. \A j \in Keys : nobaTx[j] = NoRow => SavedOK(j)'
    BY <2>6, <2>18 DEF SavedOK
  <2>20. \A j \in Keys : transfers[j] = NoTransfer => SentOK(j)'
    BY <1>1 DEF SentOK, vars, ledgerVars
  <2>21. TablesKept /\ IDsDiffer' /\ pomeloTx' = pomeloTx
    BY <1>1, <2>4, <2>6 DEF TablesKept, CardInv, IDsDiffer
  <2> QED BY <2>8, <2>9, <2>15, <2>16, <2>17, <2>19, <2>20, <2>21, DeliveryMoves
<1> QED BY <1>2, <1>3

\* The decision is the one the delivery has come to, whatever was recorded before.
LEMMA RecordDecisionOK ==
    ASSUME CardInv, NEW d \in Calls, RecordDecision(d) PROVE CardInv'
<1>1. /\ at[d] = "record" /\ UNCHANGED <<vars, nobaTx, hook, usd, seen>> /\ Move(d, "done")
      /\ pomeloTx' = [pomeloTx EXCEPT ![hook[d].idem].status = reply[d]]
      /\ UNCHANGED reply \/ reply' = [reply EXCEPT ![d] = "SYSTEM_ERROR"]
  BY DEF RecordDecision
<1>2. RowOf(d) # NoRow /\ hook[d].holder \in Consumers /\ reply[d] \in Decisions
  BY <1>1 DEF CardInv, DeliveryOK, PlaceOK, Rowless
<1>3. /\ hook[d] \in Webhooks /\ hook[d].idem \in Idems
      /\ NobaID(d) \in Calls /\ NobaID(d) \in Keys /\ hook[NobaID(d)] = hook[d]
  BY <1>1, <1>2, WriterHasIt
<1>4. PICK i \in Idems : i = hook[d].idem
  BY <1>3
<1>5. pomeloTx[i] \in Row /\ pomeloTx[i].noba = NobaID(d) /\ pomeloTx[i] # NoRow
  BY <1>2, <1>4 DEF CardInv, CardTypeOK, RowOf, NobaID
<1>6. pomeloTx' = [pomeloTx EXCEPT ![i] = [pomeloTx[i] EXCEPT !.status = reply[d]]]
  BY <1>1, <1>4
<1>7. [pomeloTx[i] EXCEPT !.status = reply[d]] \in Row
  BY <1>2, <1>5 DEF Row, RowStatuses
<1>8. /\ pomeloTx'[i] \in Row /\ pomeloTx'[i].id = pomeloTx[i].id
      /\ pomeloTx'[i].noba = NobaID(d) /\ pomeloTx'[i].status = reply[d]
  BY <1>5, <1>6, <1>7 DEF CardInv, CardTypeOK, Row
<1>9. \A j \in Idems \ {i} : pomeloTx'[j] = pomeloTx[j]
  BY <1>6 DEF CardInv, CardTypeOK
<1>10. NoRow \notin Row
  BY CardAssumption
<1>11. CardTypeOK'
  BY <1>1, <1>6, <1>7 DEF CardInv, CardTypeOK, Move, Places, Decisions
<1>12. TypeOK' /\ CallsOK' /\ LedgerKept
  BY <1>1, VarsUnchanged
<1>13. /\ OwnChange(d) /\ at'[d] = "done" /\ hook'[d] = hook[d]
       /\ reply'[d] \in {reply[d], "SYSTEM_ERROR"}
  BY <1>1 DEF CardInv, CardTypeOK, Move, OwnChange
<1>14. TablesKept /\ IDsDiffer'
  BY <1>1, <1>5, <1>8, <1>9, <1>10 DEF TablesKept, CardInv, IDsDiffer
<1>15. RowOf(d)' # NoRow /\ NobaID(d)' = NobaID(d)
  BY <1>4, <1>8, <1>10, <1>13 DEF RowOf, NobaID
<1>16. Accepted(NobaID(d))' <=> Accepted(NobaID(d))
  BY <1>1, <1>15 DEF Accepted, vars, ledgerVars
<1>17. ReplyOK(d)
  BY DEF CardInv, DeliveryOK
<1>18. ReplyOK(d)'
  BY <1>1, <1>13, <1>15, <1>16, <1>17 DEF ReplyOK
<1>19. Onward(d) /\ PlaceOK(d)'
  BY <1>1, <1>2, <1>3, <1>13, <1>15 DEF Onward, PlaceOK, Rowless, Late
<1>20. DeliveryOK(d)'
  BY <1>1, <1>13, <1>18, <1>19, NoCallOK DEF DeliveryOK, Late
<1>21. OthersSame(d)
  BY <1>1, <1>13, OwnChangeSame
<1>22. StatusOK(i)'
  <2>1. (hook[pomeloTx[i].noba])' = hook[d]
    BY <1>1, <1>3, <1>8
  <2>2. reply[d] = "APPROVED" => Accepted(pomeloTx[i].noba)'
    BY <1>1, <1>8, <1>17 DEF ReplyOK, Accepted, vars, ledgerVars
  <2> QED BY <1>8, <1>13, <2>1, <2>2 DEF StatusOK
<1>23. \A j \in Idems : pomeloTx'[j] # pomeloTx[j] => StatusOK(j)'
  BY <1>9, <1>22
<1>24. \A k \in Keys : (nobaTx[k] = NoRow => SavedOK(k)') /\ (transfers[k] = NoTransfer => SentOK(k)')
  BY <1>1 DEF SavedOK, SentOK, vars, ledgerVars
<1>25. \A j \in Idems : pomeloTx[j] = NoRow => pomeloTx'[j] = NoRow
  BY <1>5, <1>9
<1> QED BY <1>11, <1>12, <1>14, <1>19, <1>20, <1>21, <1>23, <1>24, <1>25, DeliveryMoves

-----------------------------------------------------------------------------
(* The steps with CircleService *)

\* A step that writes no row: what the ledger has gained is left to show.
LEMMA CircleMoves ==
    ASSUME CardInv, TypeOK', CallsOK', NEW d \in Calls, UNCHANGED <<cardTables, hook, usd, seen>>,
           at' \in [Calls -> Places], reply' \in [Calls -> Decisions \cup {"none", "OTHER"}],
           OthersSame(d), Onward(d), DeliveryOK(d)', LedgerKept,
           \A k \in Keys : transfers[k] = NoTransfer => SentOK(k)'
    PROVE  CardInv'
<1>1. CardTypeOK'
  BY DEF CardInv, CardTypeOK, cardTables
<1>2. TablesKept /\ IDsDiffer'
  BY DEF TablesKept, CardInv, IDsDiffer, cardTables
<1>3. pomeloTx' = pomeloTx /\ nobaTx' = nobaTx
  BY DEF cardTables
<1>4. \A k \in Keys : nobaTx[k] = NoRow => SavedOK(k)'
  BY <1>3 DEF SavedOK
<1> QED BY <1>1, <1>2, <1>3, <1>4, DeliveryMoves

\* Only purchases come to move money, and what they ask for is a debit of the
\* holder for the amount that was saved.
LEMMA PurchaseMoves ==
    ASSUME CardInv, NEW d \in Calls, at[d] \in {"move", "moving"}
    PROVE  /\ RowOf(d) # NoRow /\ NobaID(d) \in Keys /\ hook[NobaID(d)] = hook[d]
           /\ nobaTx[NobaID(d)] # NoRow /\ hook[d].kind = "AUTHORIZATION"
           /\ Movement(d) = [kind |-> "debit", key |-> NobaID(d), src |-> hook[d].holder,
                             dst |-> Master, amt |-> nobaTx[NobaID(d)], frac |-> 0]
           /\ Movement(d) \in Requests
<1>1. RowOf(d) # NoRow /\ hook[d].holder \in Consumers
  BY HolderKnown DEF Rowless
<1>2. NobaID(d) \in Keys /\ hook[NobaID(d)] = hook[d]
  BY <1>1, WriterHasIt
<1>3. nobaTx[NobaID(d)] # NoRow
  BY DEF CardInv, DeliveryOK, PlaceOK
<1>4. hook[d].kind = "AUTHORIZATION"
  BY <1>2, <1>3 DEF CardInv, SavedOK
<1>5. Movement(d) = [kind |-> "debit", key |-> NobaID(d), src |-> hook[d].holder,
                     dst |-> Master, amt |-> nobaTx[NobaID(d)], frac |-> 0]
  BY <1>4 DEF Movement
<1>6. nobaTx[NobaID(d)] \in Amounts
  BY <1>2, <1>3 DEF CardInv, CardTypeOK
<1>7. Movement(d) \in CardRequests
  BY <1>1, <1>2, <1>5, <1>6 DEF CardRequests, Wallets
<1> QED BY <1>1, <1>2, <1>3, <1>4, <1>5, <1>7, CardAssumption

\* A call begins.
LEMMA StartMoves ==
    ASSUME CardInv, world' = world, NEW d \in Calls, NEW r \in Requests, Start(d, r)
    PROVE  /\ TypeOK' /\ CallsOK' /\ LedgerKept /\ UNCHANGED ledgerVars
           /\ pc[d] = "idle" /\ req'[d] = r /\ answer'[d] \in {answer[d], "invalid"}
           /\ \A e \in Calls \ {d} : Still(e)
<1>1. TypeOK' /\ CallsOK'
  BY StepTyped DEF CardInv, Next, Serves
<1>2. UNCHANGED ledgerVars /\ LedgerKept
  BY LedgerUnchanged DEF Start
<1>3. /\ pc[d] = "idle" /\ req'[d] = r /\ answer'[d] \in {answer[d], "invalid"}
      /\ \A e \in Calls \ {d} : Still(e)
  BY DEF CardInv, TypeOK, Start, Finish, Goto, Still
<1> QED BY <1>1, <1>2, <1>3

LEMMA StillIsSame ==
    ASSUME NEW d \in Calls, OwnChange(d), \A e \in Calls \ {d} : Still(e)
    PROVE  OthersSame(d)
BY DEF OwnChange, Still, OthersSame, Same

LEMMA NothingSent ==
    ASSUME UNCHANGED ledgerVars
    PROVE  \A k \in Keys : transfers[k] = NoTransfer => SentOK(k)'
BY DEF ledgerVars, SentOK

LEMMA AskForWalletOK ==
    ASSUME CardInv, world' = world, NEW d \in Calls, AskForWallet(d) PROVE CardInv'
<1>1. /\ at[d] = "wallet" /\ Start(d, WalletRequest(d)) /\ Move(d, "walletCall")
      /\ UNCHANGED <<cardTables, hook, usd, seen, reply>>
  BY DEF AskForWallet
<1>2. RowOf(d) # NoRow /\ hook[d].holder \in Consumers /\ hook[d] \in Webhooks
  BY <1>1, HolderKnown DEF Rowless
<1>3. NobaID(d) \in Keys
  BY <1>1, <1>2, WriterHasIt
<1>4. WalletRequest(d) \in CardRequests
  BY <1>2, <1>3 DEF WalletRequest, CardRequests
<1>5. /\ TypeOK' /\ CallsOK' /\ LedgerKept /\ UNCHANGED ledgerVars
      /\ req'[d] = WalletRequest(d) /\ answer'[d] \in {answer[d], "invalid"}
      /\ \A e \in Calls \ {d} : Still(e)
  BY <1>1, <1>4, CardAssumption, StartMoves
<1>6. /\ OwnChange(d) /\ at'[d] = "walletCall" /\ hook'[d] = hook[d]
      /\ at' \in [Calls -> Places]
  BY <1>1 DEF CardInv, CardTypeOK, Move, OwnChange, Places
<1>7. RowOf(d)' = RowOf(d) /\ NobaID(d)' = NobaID(d) /\ WalletRequest(d)' = WalletRequest(d)
  BY <1>1 DEF RowOf, NobaID, WalletRequest, cardTables
<1>8. DeliveryOK(d)
  BY DEF CardInv
<1>9. PlaceOK(d)' /\ CallOfOK(d)' /\ AnswerOK(d)' /\ ReplyOK(d)'
  BY <1>1, <1>2, <1>5, <1>6, <1>7, <1>8
     DEF DeliveryOK, PlaceOK, CallOfOK, AnswerOK, ReplyOK, Rowless, Late, Statuses
<1>10. Onward(d) /\ OthersSame(d)
  BY <1>1, <1>5, <1>6, StillIsSame DEF Onward, Late
<1>11. reply' \in [Calls -> Decisions \cup {"none", "OTHER"}]
  BY <1>1 DEF CardInv, CardTypeOK
<1> QED BY <1>1, <1>5, <1>6, <1>9, <1>10, <1>11, NothingSent, CircleMoves DEF DeliveryOK

LEMMA MoveMoneyOK ==
    ASSUME CardInv, world' = world, NEW d \in Calls, MoveMoney(d) PROVE CardInv'
<1>1. /\ at[d] = "move" /\ Start(d, Movement(d)) /\ Move(d, "moving")
      /\ UNCHANGED <<cardTables, hook, usd, seen, reply>>
  BY DEF MoveMoney
<1>2. RowOf(d) # NoRow /\ hook[d].holder \in Consumers /\ hook[d] \in Webhooks
  BY <1>1, HolderKnown DEF Rowless
<1>3. Movement(d) \in Requests /\ nobaTx[NobaID(d)] # NoRow
  BY <1>1, PurchaseMoves
<1>4. /\ TypeOK' /\ CallsOK' /\ LedgerKept /\ UNCHANGED ledgerVars
      /\ req'[d] = Movement(d) /\ answer'[d] \in {answer[d], "invalid"}
      /\ \A e \in Calls \ {d} : Still(e)
  BY <1>1, <1>3, StartMoves
<1>5. /\ OwnChange(d) /\ at'[d] = "moving" /\ hook'[d] = hook[d]
      /\ at' \in [Calls -> Places]
  BY <1>1 DEF CardInv, CardTypeOK, Move, OwnChange, Places
<1>6. /\ RowOf(d)' = RowOf(d) /\ NobaID(d)' = NobaID(d) /\ Movement(d)' = Movement(d)
      /\ nobaTx' = nobaTx
  BY <1>1 DEF RowOf, NobaID, Movement, cardTables
<1>7. DeliveryOK(d)
  BY DEF CardInv
<1>8. PlaceOK(d)' /\ CallOfOK(d)' /\ AnswerOK(d)' /\ ReplyOK(d)'
  BY <1>1, <1>2, <1>3, <1>4, <1>5, <1>6, <1>7
     DEF DeliveryOK, PlaceOK, CallOfOK, AnswerOK, ReplyOK, Rowless, Late, Statuses
<1>9. Onward(d) /\ OthersSame(d)
  BY <1>1, <1>4, <1>5, StillIsSame DEF Onward, Late
<1>10. reply' \in [Calls -> Decisions \cup {"none", "OTHER"}]
  BY <1>1 DEF CardInv, CardTypeOK
<1> QED BY <1>1, <1>4, <1>5, <1>8, <1>9, <1>10, NothingSent, CircleMoves DEF DeliveryOK

\* A call has returned: its identity is free for the delivery's next one.
LEMMA ReturnedMoves ==
    ASSUME CardInv, NEW d \in Calls, Returned(d)
    PROVE  /\ TypeOK' /\ CallsOK' /\ LedgerKept /\ UNCHANGED ledgerVars
           /\ pc'[d] = "idle" /\ answer' = answer /\ \A e \in Calls \ {d} : Still(e)
<1>1. UNCHANGED <<ledgerVars, tableVars, req, srcSeen, dstSeen, answer>> /\ Goto(d, "idle")
  BY DEF Returned
<1>2. /\ pc'[d] = "idle" /\ \A e \in Calls \ {d} : pc'[e] = pc[e]
      /\ pc' \in [Calls -> Steps]
  BY <1>1 DEF CardInv, TypeOK, Goto, Steps
<1>3. TypeOK'
  BY <1>1, <1>2 DEF CardInv, TypeOK, LedgerTypeOK, ledgerVars, tableVars
<1>4. \A e \in Calls \ {d} : CallOK(e)'
  BY <1>1, <1>2 DEF CardInv, CallsOK, CallOK
<1>5. CallOK(d)'
  BY <1>2 DEF CallOK
<1>6. CallsOK'
  BY <1>4, <1>5 DEF CallsOK
<1> QED BY <1>1, <1>2, <1>3, <1>6, LedgerUnchanged DEF Still

LEMMA GetWalletOK ==
    ASSUME CardInv, NEW d \in Calls, GetWallet(d) PROVE CardInv'
<1>1. at[d] = "walletCall" /\ Returned(d) /\ UNCHANGED <<cardTables, hook, usd, seen>>
  BY DEF GetWallet
<1>2. /\ TypeOK' /\ CallsOK' /\ LedgerKept /\ UNCHANGED ledgerVars
      /\ pc'[d] = "idle" /\ answer' = answer /\ \A e \in Calls \ {d} : Still(e)
  BY <1>1, ReturnedMoves
<1>3. RowOf(d) # NoRow /\ hook[d].holder \in Consumers /\ hook[d] \in Webhooks
  BY <1>1, HolderKnown DEF Rowless
<1>4. /\ OwnChange(d) /\ hook'[d] = hook[d]
      /\ at' \in [Calls -> Places] /\ reply' \in [Calls -> Decisions \cup {"none", "OTHER"}]
  BY <1>1 DEF GetWallet, CardInv, CardTypeOK, Move, Answer, OwnChange, Places, Decisions
<1>5. \/ at'[d] = "done" /\ reply'[d] = "SYSTEM_ERROR"
      \/ at'[d] = "balance"
      \/ at'[d] = "parent" /\ hook[d].kind # "AUTHORIZATION"
  BY <1>1 DEF GetWallet, CardInv, CardTypeOK, Move, Answer
<1>6. RowOf(d)' = RowOf(d) /\ NobaID(d)' = NobaID(d)
  BY <1>1 DEF RowOf, NobaID, cardTables
<1>7. DeliveryOK(d)
  BY DEF CardInv
<1>8. PlaceOK(d)' /\ CallOfOK(d)' /\ AnswerOK(d)' /\ ReplyOK(d)'
  BY <1>1, <1>2, <1>3, <1>4, <1>5, <1>6, <1>7
     DEF DeliveryOK, PlaceOK, CallOfOK, AnswerOK, ReplyOK, Rowless, Late, Statuses
<1>9. Onward(d) /\ OthersSame(d)
  BY <1>1, <1>2, <1>4, <1>5, StillIsSame DEF Onward, Late
<1> QED BY <1>1, <1>2, <1>4, <1>8, <1>9, NothingSent, CircleMoves DEF DeliveryOK

\* The decision is what CircleService has answered, which is what Circle has done.
LEMMA MoneyMovedOK ==
    ASSUME CardInv, NEW d \in Calls, MoneyMoved(d) PROVE CardInv'
<1> DEFINE decision == DecisionOf(hook[d].kind, answer[d])
<1>1. at[d] = "moving" /\ Returned(d) /\ UNCHANGED <<cardTables, hook, usd, seen>>
  BY DEF MoneyMoved
<1>2. /\ TypeOK' /\ CallsOK' /\ LedgerKept /\ UNCHANGED ledgerVars
      /\ pc'[d] = "idle" /\ answer' = answer /\ \A e \in Calls \ {d} : Still(e)
  BY <1>1, ReturnedMoves
<1>3. RowOf(d) # NoRow /\ hook[d].holder \in Consumers /\ hook[d] \in Webhooks
  BY <1>1, HolderKnown DEF Rowless
<1>4. /\ decision \in Decisions \cup {"none"}
      /\ decision = "APPROVED" => answer[d] = "SUCCESS"
      /\ decision = "INSUFFICIENT_FUNDS" => answer[d] = "INSUFFICIENT_FUNDS"
  BY DEF DecisionOf, Decisions
<1>5. /\ OwnChange(d) /\ hook'[d] = hook[d]
      /\ at' \in [Calls -> Places] /\ reply' \in [Calls -> Decisions \cup {"none", "OTHER"}]
  BY <1>1, <1>4 DEF MoneyMoved, CardInv, CardTypeOK, Move, Answer, OwnChange, Places, Decisions
<1>6. \/ at'[d] = "done" /\ reply'[d] = "SYSTEM_ERROR"
      \/ at'[d] = "record" /\ reply'[d] = decision /\ decision \in Decisions
  BY <1>1, <1>4 DEF MoneyMoved, CardInv, CardTypeOK, Move, Answer
<1>7. RowOf(d)' = RowOf(d) /\ NobaID(d)' = NobaID(d)
  BY <1>1 DEF RowOf, NobaID, cardTables
<1>8. Accepted(NobaID(d))' <=> Accepted(NobaID(d))
  BY <1>2, <1>7 DEF Accepted, ledgerVars
<1>9. DeliveryOK(d)
  BY DEF CardInv
<1>10. ReplyOK(d)'
  BY <1>1, <1>3, <1>4, <1>6, <1>7, <1>8, <1>9 DEF DeliveryOK, AnswerOK, ReplyOK
<1>11. PlaceOK(d)' /\ CallOfOK(d)' /\ AnswerOK(d)'
  BY <1>1, <1>2, <1>3, <1>5, <1>6, <1>7, <1>9
     DEF DeliveryOK, PlaceOK, CallOfOK, AnswerOK, Rowless, Late, Statuses
<1>12. Onward(d) /\ OthersSame(d)
  BY <1>1, <1>2, <1>5, <1>6, StillIsSame DEF Onward, Late
<1> QED BY <1>1, <1>2, <1>5, <1>10, <1>11, <1>12, NothingSent, CircleMoves DEF DeliveryOK

-----------------------------------------------------------------------------
(* CircleService runs on *)

\* A step of one call leaves the others, and what it was asked, alone.
LEMMA OwnStep ==
    ASSUME TypeOK, NEW d \in Calls, CallStep(d) \/ RequestFails(d) \/ ResponseLost(d)
    PROVE  /\ req' = req /\ pc[d] \notin {"idle", "done"} /\ pc'[d] # "idle"
           /\ \A e \in Calls \ {d} : Still(e)
<1>1. CASE LookupWallet(d) \/ CreateWallet(d) \/ LinkWallet(d) \/ ReadSource(d)
           \/ ReadDestination(d)
  BY <1>1 DEF Still, TypeOK, LookupWallet, CreateWallet, LinkWallet, ReadSource,
     ReadDestination, Finish, Goto
<1>2. CASE SendTransfer(d)
  <2>1. pc'[d] = AfterSend(req[d], ClientStatus(transfers'[req[d].key]))
    BY <1>2 DEF TypeOK, SendTransfer, Goto
  <2>2. pc'[d] # "idle"
    BY <2>1 DEF AfterSend, AfterSource, Recaches
  <2> QED BY <1>2, <2>2 DEF Still, TypeOK, SendTransfer, Goto
<1>3. CASE CheckTransfer(d) \/ RequestFails(d) \/ ResponseLost(d)
  BY <1>3 DEF Still, TypeOK, CheckTransfer, RequestFails, ResponseLost, Finish, Goto
<1>4. CASE CacheSource(d)
  <2>1. pc'[d] \in {AfterSource(req[d]), "done"}
    BY <1>4 DEF TypeOK, CacheSource, Goto
  <2>2. pc'[d] # "idle"
    BY <2>1 DEF AfterSource
  <2> QED BY <1>4, <2>2 DEF Still, TypeOK, CacheSource, Goto
<1>5. CASE CacheDestination(d) \/ LookupBalance(d) \/ FetchBalance(d) \/ StoreBalance(d)
  BY <1>5 DEF Still, TypeOK, CacheDestination, LookupBalance, FetchBalance,
     StoreBalance, Finish, Goto
<1> QED BY <1>1, <1>2, <1>3, <1>4, <1>5 DEF CallStep

\* What a step of a movement makes of its answer and of the ledger.
LEMMA MovementStep ==
    ASSUME TypeOK, CallsOK, NEW d \in Calls, req[d].kind \in Movements,
           CallStep(d) \/ RequestFails(d) \/ ResponseLost(d)
    PROVE  /\ \/ UNCHANGED ledgerVars
              \/ CircleTransfer(req[d].key, req[d].src, req[d].dst, req[d].amt)
           /\ \/ answer'[d] = answer[d]
              \/ answer'[d] \notin Statuses
              \/ /\ answer'[d] = ClientStatus(transfers'[req[d].key])
                 /\ transfers'[req[d].key] \in Transfer
<1>1. CallOK(d)
  BY DEF CallsOK
<1>2. pc[d] \in {"readSrc", "readDst", "send", "cacheSrc", "cacheDst", "idle", "done"}
  BY <1>1 DEF CallOK, TypeOK, Steps, Movements
<1>3. CASE ReadSource(d) \/ ReadDestination(d) \/ CacheSource(d) \/ CacheDestination(d)
           \/ RequestFails(d)
  BY <1>3 DEF TypeOK, ReadSource, ReadDestination, CacheSource, CacheDestination, RequestFails,
     Finish, Statuses
<1>4. CASE SendTransfer(d)
  <2>1. req[d] \in Requests
    BY <1>1, <1>4 DEF CallOK, SendTransfer
  <2>2. transfers'[req[d].key] \in Transfer
    BY <1>4, <2>1, RequestTyped, TransferRecords DEF SendTransfer, TypeOK
  <2> QED BY <1>4, <2>2 DEF SendTransfer, TypeOK
<1>5. CASE ResponseLost(d)
  BY <1>2, <1>5 DEF ResponseLost, Finish, TypeOK, Statuses
<1>6. ~(LookupWallet(d) \/ CreateWallet(d) \/ LinkWallet(d) \/ LookupBalance(d)
        \/ FetchBalance(d) \/ StoreBalance(d) \/ CheckTransfer(d))
  BY <1>2 DEF LookupWallet, CreateWallet, LinkWallet, LookupBalance, FetchBalance, StoreBalance,
     CheckTransfer
<1> QED BY <1>3, <1>4, <1>5, <1>6 DEF CallStep

LEMMA WalletStep ==
    ASSUME TypeOK, CallsOK, NEW d \in Calls, req[d].kind = "getWallet",
           CallStep(d) \/ RequestFails(d) \/ ResponseLost(d)
    PROVE  /\ UNCHANGED ledgerVars
           /\ answer'[d] = answer[d] \/ answer'[d] \notin Statuses
<1>1. CallOK(d)
  BY DEF CallsOK
<1>2. pc[d] \in {"lookup", "create", "link", "idle", "done"}
  BY <1>1 DEF CallOK, TypeOK, Steps, Movements
<1> QED BY <1>2 DEF CallStep, LookupWallet, CreateWallet, LinkWallet, ReadSource, ReadDestination,
     SendTransfer, CacheSource, CacheDestination, LookupBalance, FetchBalance, StoreBalance,
     CheckTransfer, RequestFails, ResponseLost, Finish, TypeOK, Statuses

\* A delivery whose call runs waits for the wallet, or for its money to be moved.
LEMMA CircleStepOK ==
    ASSUME CardInv, world' = world, NEW d \in Calls, CircleStep(d) PROVE CardInv'
<1>1. /\ CallStep(d) \/ RequestFails(d) \/ ResponseLost(d)
      /\ UNCHANGED <<cardTables, deliveryVars>>
  BY DEF CircleStep
<1>2. TypeOK /\ CallsOK /\ DeliveryOK(d)
  BY DEF CardInv
<1>3. [Next]_vars
  BY <1>1 DEF Next, Serves
<1>4. TypeOK' /\ CallsOK' /\ AllKept
  BY <1>2, <1>3, StepTyped, StepKeeps
<1>5. /\ req' = req /\ pc[d] \notin {"idle", "done"} /\ pc'[d] # "idle"
      /\ \A e \in Calls \ {d} : Still(e)
  BY <1>1, <1>2, OwnStep
<1>6. /\ OwnChange(d) /\ Onward(d) /\ at' = at /\ hook' = hook /\ reply' = reply
      /\ at' \in [Calls -> Places] /\ reply' \in [Calls -> Decisions \cup {"none", "OTHER"}]
  BY <1>1 DEF OwnChange, Onward, deliveryVars, CardInv, CardTypeOK
<1>7. OthersSame(d)
  BY <1>5, <1>6, StillIsSame
<1>8. RowOf(d)' = RowOf(d) /\ NobaID(d)' = NobaID(d) /\ nobaTx' = nobaTx
  BY <1>1 DEF RowOf, NobaID, cardTables, deliveryVars
<1>9. WalletRequest(d)' = WalletRequest(d) /\ Movement(d)' = Movement(d)
  BY <1>1, <1>8 DEF WalletRequest, Movement, deliveryVars
<1>10. \/ at[d] = "walletCall" /\ req[d] = WalletRequest(d)
       \/ at[d] = "moving" /\ req[d] = Movement(d)
  BY <1>2, <1>5 DEF DeliveryOK, CallOfOK
<1>11. PlaceOK(d)' /\ CallOfOK(d)' /\ ReplyOK(d)'
  BY <1>1, <1>2, <1>5, <1>6, <1>8, <1>9, <1>10 DEF DeliveryOK, PlaceOK, CallOfOK, ReplyOK,
     deliveryVars
<1>12. UNCHANGED <<cardTables, hook, usd, seen>>
  BY <1>1 DEF deliveryVars
<1>13. CASE at[d] = "walletCall"
  <2>1. req[d].kind = "getWallet"
    BY <1>10, <1>13 DEF WalletRequest
  <2>2. UNCHANGED ledgerVars /\ (answer'[d] = answer[d] \/ answer'[d] \notin Statuses)
    BY <1>1, <1>2, <2>1, WalletStep
  <2>3. AnswerOK(d)'
    BY <1>2, <1>6, <1>13, <2>2 DEF DeliveryOK, AnswerOK, Late
  <2> QED BY <1>4, <1>6, <1>7, <1>11, <1>12, <2>2, <2>3, LedgerUnchanged, NothingSent, CircleMoves
      DEF DeliveryOK
<1>14. CASE at[d] = "moving"
  <2>1. /\ NobaID(d) \in Keys /\ hook[NobaID(d)] = hook[d] /\ nobaTx[NobaID(d)] # NoRow
        /\ req[d] = [kind |-> "debit", key |-> NobaID(d), src |-> hook[d].holder,
                     dst |-> Master, amt |-> nobaTx[NobaID(d)], frac |-> 0]
    BY <1>10, <1>14, PurchaseMoves
  <2>2. PICK k \in Keys : k = NobaID(d)
    BY <2>1
  <2>3. req[d].kind \in Movements /\ req[d].key = k
    BY <2>1, <2>2 DEF Movements
  <2>4. /\ \/ UNCHANGED ledgerVars
           \/ CircleTransfer(k, hook[d].holder, Master, nobaTx[k])
        /\ \/ answer'[d] = answer[d]
           \/ answer'[d] \notin Statuses
           \/ answer'[d] = ClientStatus(transfers'[k]) /\ transfers'[k] \in Transfer
    BY <1>1, <1>2, <2>1, <2>2, <2>3, MovementStep
  <2>5. /\ \A j \in Keys \ {k} : transfers'[j] = transfers[j]
        /\ \/ transfers'[k] = transfers[k]
           \/ /\ transfers'[k].src = hook[d].holder /\ transfers'[k].dst = Master
              /\ transfers'[k].amt = nobaTx[k]
    BY <1>2, <2>4, RecordedAsSent DEF ledgerVars, TypeOK
  <2>6. LedgerKept
    BY <1>4, <1>6, <1>14, <2>2, <2>5 DEF LedgerKept
  <2>7. ASSUME NEW j \in Keys, transfers[j] = NoTransfer PROVE SentOK(j)'
    <3>1. CASE transfers'[j] = NoTransfer
      BY <3>1 DEF SentOK
    <3>2. CASE transfers'[j] # NoTransfer
      BY <1>6, <1>8, <1>14, <2>1, <2>2, <2>5, <2>7, <3>2 DEF SentOK, Late
    <3> QED BY <3>1, <3>2
  <2>8. (NobaID(d))' = k
    BY <1>8, <2>2
  <2>9. transfers[k] # NoTransfer => transfers'[k] # NoTransfer /\ (Accepted(k)' <=> Accepted(k))
    BY <1>4, AcceptedStays DEF AllKept, Kept
  <2>10. transfers'[k] \in Transfer =>
            /\ transfers'[k] # NoTransfer
            /\ ClientStatus(transfers'[k]) = "SUCCESS" => Accepted(k)'
            /\ ClientStatus(transfers'[k]) = "INSUFFICIENT_FUNDS" => ~Accepted(k)'
    <3>1. ASSUME NEW t \in Transfer
          PROVE  /\ ClientStatus(t) = "SUCCESS" => t.state \notin RefusedStates
                 /\ ClientStatus(t) = "INSUFFICIENT_FUNDS" => t.state \in RefusedStates
      <4>1. t.state \in {"pending", "complete", "transfer_failed", "insufficient_funds", "returned"}
        BY DEF Transfer, TransferStates, MovedStates, RefusedStates
      <4> QED BY <4>1 DEF ClientStatus, MovedStates, RefusedStates
    <3> QED BY <3>1, NoTransferAssumption DEF Accepted
  <2>11. AnswerOK(d)'
    BY <1>2, <1>6, <1>14, <2>2, <2>4, <2>8, <2>9, <2>10
       DEF DeliveryOK, AnswerOK, Late, Accepted, Statuses
  <2> QED BY <1>4, <1>6, <1>7, <1>11, <1>12, <2>6, <2>7, <2>11, CircleMoves DEF DeliveryOK
<1> QED BY <1>10, <1>13, <1>14

-----------------------------------------------------------------------------
(* Steps of nobody's or everybody's *)

LEMMA CircleSettlesOK ==
    ASSUME CardInv, world' = world, NEW k \in Keys, CircleSettles(k),
           UNCHANGED <<cardTables, deliveryVars>>
    PROVE  CardInv'
<1>1. k \in Calls
  BY CardAssumption
<1>2. [Next]_vars
  BY DEF Next, Serves
<1>3. TypeOK' /\ CallsOK' /\ AllKept
  BY <1>2, StepTyped, StepKeeps DEF CardInv
<1>4. \A j \in Keys : transfers'[j] # NoTransfer => transfers[j] # NoTransfer
  BY DEF CircleSettles, Complete, Return, Pending, CardInv, TypeOK, LedgerTypeOK
<1>5. LedgerKept /\ \A j \in Keys : transfers[j] = NoTransfer => SentOK(j)'
  BY <1>3, <1>4 DEF LedgerKept, SentOK
<1>6. \A d \in Calls : Same(d) /\ Onward(d)
  BY DEF Same, Onward, deliveryVars, CircleSettles, callVars
<1>7. CardKept
  BY <1>5, <1>6 DEF CardKept, TablesKept, cardTables
<1>8. DeliveryOK(k)'
  BY <1>1, <1>6, <1>7, SameOK
<1> QED BY <1>1, <1>3, <1>5, <1>6, <1>8, CircleMoves DEF OthersSame, deliveryVars, CardInv, CardTypeOK

LEMMA ServerCrashOK ==
    ASSUME CardInv, ServerCrash PROVE CardInv'
<1>1. /\ UNCHANGED <<ledgerVars, tableVars, req, srcSeen, dstSeen, cardTables, hook, usd, seen>>
      /\ pc' = [c \in Calls |-> IF Running(c) THEN "done" ELSE pc[c]]
      /\ answer' = [c \in Calls |-> IF Running(c) THEN "crashed" ELSE answer[c]]
      /\ at' = [d \in Calls |-> IF InFlight(d) THEN "done" ELSE at[d]]
      /\ reply' = [d \in Calls |-> IF InFlight(d) THEN "none" ELSE reply[d]]
  BY DEF ServerCrash
<1>2. TypeOK' /\ CallsOK'
  <2>1. TypeOK'
    BY <1>1 DEF CardInv, TypeOK, LedgerTypeOK, ledgerVars, tableVars, Steps, Answers
  <2>2. ASSUME NEW c \in Calls PROVE CallOK(c)'
    BY <1>1 DEF CardInv, CallsOK, CallOK, Running
  <2> QED BY <2>1, <2>2 DEF CallsOK
<1>3. LedgerKept /\ TablesKept
  BY <1>1, LedgerUnchanged DEF TablesKept, cardTables
<1>4. ASSUME NEW d \in Calls PROVE Onward(d)
  BY <1>1 DEF Onward, InFlight, Late
<1>5. CardKept
  BY <1>3, <1>4 DEF CardKept
<1>6. CardTypeOK'
  BY <1>1 DEF CardInv, CardTypeOK, Places, cardTables
<1>7. ASSUME NEW d \in Calls PROVE DeliveryOK(d)'
  <2>1. DeliveryOK(d)
    BY DEF CardInv
  <2>2. CASE InFlight(d)
    <3>1. at'[d] = "done" /\ reply'[d] = "none" /\ hook'[d] = hook[d] /\ pc'[d] \in {"idle", "done"}
      BY <1>1, <2>2 DEF Running
    <3> QED BY <2>1, <2>2, <3>1
        DEF DeliveryOK, PlaceOK, CallOfOK, AnswerOK, ReplyOK, Rowless, Late, InFlight
  <2>3. CASE ~InFlight(d)
    <3>1. ~Running(d)
      BY <2>1, <2>3 DEF InFlight, DeliveryOK, CallOfOK, Running
    <3>2. Same(d)
      BY <1>1, <2>3, <3>1 DEF Same
    <3> QED BY <1>5, <3>2, SameOK
  <2> QED BY <2>2, <2>3
<1>8. \A i \in Idems : RowOK(i)' /\ StatusOK(i)'
  BY <1>1, <1>5, TablesOK DEF RowOK, StatusOK, cardTables
<1>9. \A k \in Keys : SavedOK(k)' /\ SentOK(k)'
  <2>1. ASSUME NEW k \in Keys PROVE SavedOK(k)'
    BY <1>1, <1>5, TablesOK DEF SavedOK, cardTables
  <2>2. ASSUME NEW k \in Keys PROVE SentOK(k)'
    BY <1>1, <1>5, TablesOK DEF SentOK, ledgerVars
  <2> QED BY <2>1, <2>2
<1>10. IDsDiffer'
  BY <1>1 DEF CardInv, IDsDiffer, cardTables
<1> QED BY <1>2, <1>6, <1>7, <1>8, <1>9, <1>10 DEF CardInv

-----------------------------------------------------------------------------
LEMMA CardNextOK == CardInv /\ [CardNext]_cardVars => CardInv'
<1> SUFFICES ASSUME CardInv, [CardNext]_cardVars PROVE CardInv'
  OBVIOUS
<1>0. world' = world
  BY DEF CardNext, cardVars, vars
<1>1. ASSUME NEW d \in Calls, NEW w \in Webhooks, Receive(d, w) \/ Refuse(d, w) PROVE CardInv'
  BY <1>1, ReceiveOK
<1>2. ASSUME NEW d \in Calls, DeliveryStep(d) PROVE CardInv'
  BY <1>0, <1>2, CreatePomeloTransactionOK, FetchPomeloTransactionOK, FindCardHolderOK,
     AskForWalletOK, GetWalletOK, ReadWalletBalanceOK, PriceInUSDOK, FindParentOK,
     SaveNobaTransactionOK, MoveMoneyOK, MoneyMovedOK, RecordDecisionOK DEF DeliveryStep
<1>3. ASSUME NEW d \in Calls, CircleStep(d) \/ DeliveryFails(d) PROVE CardInv'
  BY <1>0, <1>3, CircleStepOK, DeliveryFailsOK
<1>4. CASE ServerCrash
  BY <1>4, ServerCrashOK
<1>5. CASE \E k \in Keys : CircleSettles(k) /\ UNCHANGED <<cardTables, deliveryVars>>
  BY <1>0, <1>5, CircleSettlesOK
<1>6. CASE UNCHANGED cardVars
  <2>1. UNCHANGED <<vars, cardTables, deliveryVars>>
    BY <1>6 DEF cardVars
  <2>2. TypeOK' /\ CallsOK' /\ LedgerKept
    BY <2>1, VarsUnchanged
  <2>3. CardKept /\ \A d \in Calls : Same(d)
    BY <2>1, <2>2 DEF CardKept, TablesKept, Onward, Same, cardTables, deliveryVars, vars, callVars
  <2>4. CardTypeOK' /\ IDsDiffer'
    BY <2>1 DEF CardInv, CardTypeOK, IDsDiffer, cardTables, deliveryVars
  <2>5. \A d \in Calls : DeliveryOK(d)'
    BY <2>3, SameOK
  <2>6. \A i \in Idems : RowOK(i)' /\ StatusOK(i)'
    BY <2>1, <2>3, TablesOK DEF RowOK, StatusOK, cardTables
  <2>7. \A k \in Keys : SavedOK(k)' /\ SentOK(k)'
    BY <2>1, <2>3, TablesOK DEF SavedOK, SentOK, cardTables, vars, ledgerVars
  <2> QED BY <2>2, <2>4, <2>5, <2>6, <2>7 DEF CardInv
<1> QED BY <1>1, <1>2, <1>3, <1>4, <1>5, <1>6 DEF CardNext

LEMMA CardInvariance == CardSpec => []CardInv
<1> QED BY CardInitOK, CardNextOK, PTL DEF CardSpec

\* However often a purchase is delivered, in whatever order the deliveries run, and
\* wherever they fail or the server restarts, Circle executes one debit of it, from
\* the card's holder, for an amount its rates gave: the transfer goes under the ID
\* in the row, and the unique keys give every webhook one row.
THEOREM PurchasesAreDebitedOnce == CardSpec => []OneDebitPerPurchase
<1>1. CardInv => OneDebitPerPurchase
  <2> SUFFICES ASSUME CardInv PROVE OneDebitPerPurchase
    OBVIOUS
  <2>1. ASSUME NEW k \in Keys, transfers[k] # NoTransfer
        PROVE  \E w \in Webhooks :
                 /\ w.kind = "AUTHORIZATION" /\ pomeloTx[w.idem] # NoRow
                 /\ pomeloTx[w.idem].noba = k /\ nobaTx[k] \in w.usd
                 /\ transfers[k].src = w.holder /\ transfers[k].dst = Master
                 /\ transfers[k].amt = nobaTx[k]
    <3>1. SavedOK(k) /\ SentOK(k)
      BY DEF CardInv
    <3>2. hook[k] \in Webhooks
      BY <2>1, <3>1 DEF SavedOK, SentOK
    <3> QED BY <2>1, <3>1, <3>2 DEF SavedOK, SentOK
  <2>2. ASSUME NEW i \in Idems, NEW j \in Idems, i # j, pomeloTx[i] # NoRow, pomeloTx[j] # NoRow
        PROVE  pomeloTx[i].id # pomeloTx[j].id /\ pomeloTx[i].noba # pomeloTx[j].noba
    BY <2>2 DEF CardInv, IDsDiffer, RowOK
  <2> QED BY <2>1, <2>2 DEF OneDebitPerPurchase
<1> QED BY <1>1, CardInvariance, PTL

\* What Pomelo is told, and what the table says, agrees with what Circle did: never
\* APPROVED without the debit; declined with the debit done only where another
\* delivery of the webhook did it.
THEOREM DecisionsAreTrue == CardSpec => []DecisionsMatchTheMoney
<1>1. CardInv => DecisionsMatchTheMoney
  <2> SUFFICES ASSUME CardInv PROVE DecisionsMatchTheMoney
    OBVIOUS
  <2>1. \A i \in Idems : pomeloTx[i] # NoRow /\ pomeloTx[i].status = "APPROVED" =>
            Accepted(pomeloTx[i].noba)
    BY DEF CardInv, StatusOK
  <2>2. ASSUME NEW d \in Calls, at[d] = "done"
        PROVE  /\ reply[d] = "APPROVED" => Accepted(NobaID(d))
               /\ reply[d] = "INSUFFICIENT_FUNDS" /\ DebitedFor(hook[d]) =>
                    \E e \in Calls \ {d} : hook[e] = hook[d]
    <3>1. ReplyOK(d)
      BY DEF CardInv, DeliveryOK
    <3>2. DebitedFor(hook[d]) => Accepted(NobaID(d))
      BY DEF DebitedFor, Moved, MovedStates, Accepted, RefusedStates, NobaID, RowOf
    <3> QED BY <2>2, <3>1, <3>2 DEF ReplyOK
  <2> QED BY <2>1, <2>2 DEF DecisionsMatchTheMoney
<1> QED BY <1>1, CardInvariance, PTL

-----------------------------------------------------------------------------
(* Deliveries one after the other *)

Rowful == Places \ Rowless

\* A delivery that is past looking for its row has found nothing decided in it.
Undecided(d) == at[d] \in Rowful => RowOf(d).status = "PENDING"

TurnOK ==
    Serial =>
        /\ \A d, e \in Calls : InFlight(d) /\ InFlight(e) => d = e
        /\ \A d \in Calls : Undecided(d)

\* What a delivery does to the rows, and what it has found there when it goes on.
LEMMA RowsOfDelivery ==
    ASSUME CardInv, TurnOK, Serial, NEW d \in Calls, DeliveryStep(d)
    PROVE  /\ InFlight(d) /\ hook' = hook
           /\ \A e \in Calls \ {d} : at'[e] = at[e]
           /\ at'[d] \in Rowful => RowOf(d)'.status = "PENDING"
           /\ \A i \in Idems : pomeloTx[i] # NoRow /\ pomeloTx[i].status # "PENDING" =>
                pomeloTx'[i] = pomeloTx[i]
<1>1. Undecided(d) /\ hook[d] \in Webhooks \cup {NoWebhook}
      /\ (at[d] # "idle" => hook[d] \in Webhooks)
  BY DEF TurnOK, CardInv, CardTypeOK, DeliveryOK, PlaceOK
<1>2. at \in [Calls -> Places] /\ pomeloTx \in [Idems -> Row \cup {NoRow}]
  BY DEF CardInv, CardTypeOK
<1>3. CASE CreatePomeloTransaction(d)
  <2>1. hook[d].idem \in Idems
    BY <1>1, <1>3, WebhookTyped DEF CreatePomeloTransaction
  <2>2. /\ at[d] = "create" /\ hook' = hook
        /\ \A e \in Calls \ {d} : at'[e] = at[e]
        /\ at'[d] \in {"holder", "fetch"}
    BY <1>2, <1>3 DEF CreatePomeloTransaction, Move
  <2>3. CASE pomeloTx' = pomeloTx
    <3>1. \/ at'[d] = "fetch"
          \/ pomeloTx' = [pomeloTx EXCEPT ![hook[d].idem] =
                            [id |-> hook[d].id, noba |-> d, status |-> "PENDING"]]
      BY <1>2, <1>3 DEF CreatePomeloTransaction, Move
    <3>2. at'[d] = "fetch" \/ pomeloTx'[hook[d].idem].status = "PENDING"
      BY <1>2, <2>1, <3>1
    <3> QED BY <2>2, <2>3, <3>2 DEF InFlight, RowOf, Rowful, Rowless
  <2>4. CASE pomeloTx' # pomeloTx
    <3>1. /\ pomeloTx[hook[d].idem] = NoRow
          /\ pomeloTx' = [pomeloTx EXCEPT ![hook[d].idem] =
                            [id |-> hook[d].id, noba |-> d, status |-> "PENDING"]]
      BY <1>3, <2>4 DEF CreatePomeloTransaction, Insertable, Taken
    <3>2. pomeloTx'[hook[d].idem].status = "PENDING"
      BY <1>2, <2>1, <3>1
    <3>3. \A i \in Idems \ {hook[d].idem} : pomeloTx'[i] = pomeloTx[i]
      BY <1>2, <3>1
    <3> QED BY <2>2, <3>1, <3>2, <3>3 DEF InFlight, RowOf
  <2> QED BY <2>3, <2>4
<1>4. CASE FetchPomeloTransaction(d)
  <2>1. /\ at[d] = "fetch" /\ hook' = hook /\ pomeloTx' = pomeloTx
        /\ \A e \in Calls \ {d} : at'[e] = at[e]
    BY <1>2, <1>4 DEF FetchPomeloTransaction, Answer, Move, cardTables
  <2>2. at'[d] = "done" \/ RowOf(d).status = "PENDING"
    BY <1>2, <1>4 DEF FetchPomeloTransaction, Answer, Move
  <2> QED BY <2>1, <2>2 DEF InFlight, Rowful, Rowless, RowOf
<1>5. CASE RecordDecision(d)
  <2>1. /\ at[d] = "record" /\ hook' = hook /\ at' = [at EXCEPT ![d] = "done"]
        /\ pomeloTx' = [pomeloTx EXCEPT ![hook[d].idem].status = reply[d]]
    BY <1>5 DEF RecordDecision, Move
  <2>2. pomeloTx[hook[d].idem].status = "PENDING"
    BY <1>1, <2>1 DEF Undecided, Rowful, Rowless, Places, RowOf
  <2>3. \A i \in Idems : pomeloTx[i].status # "PENDING" => pomeloTx'[i] = pomeloTx[i]
    BY <1>2, <2>1, <2>2
  <2> QED BY <1>2, <2>1, <2>3 DEF InFlight, Rowful, Rowless
<1>6. CASE \/ FindCardHolder(d) \/ AskForWallet(d) \/ GetWallet(d)
           \/ ReadWalletBalance(d) \/ PriceInUSD(d) \/ FindParent(d)
           \/ SaveNobaTransaction(d) \/ MoveMoney(d) \/ MoneyMoved(d)
  <2>1. pomeloTx' = pomeloTx /\ hook' = hook
    BY <1>6 DEF FindCardHolder, AskForWallet, GetWallet, ReadWalletBalance, PriceInUSD, FindParent,
       SaveNobaTransaction, MoveMoney, MoneyMoved, cardTables
  <2>2. at[d] \in Rowful
    BY <1>6 DEF FindCardHolder, AskForWallet, GetWallet, ReadWalletBalance, PriceInUSD, FindParent,
       SaveNobaTransaction, MoveMoney, MoneyMoved, Rowful, Rowless, Places
  <2>3. PICK place : at' = [at EXCEPT ![d] = place]
    BY <1>6 DEF FindCardHolder, AskForWallet, GetWallet, ReadWalletBalance, PriceInUSD, FindParent,
       SaveNobaTransaction, MoveMoney, MoneyMoved, Answer, Move, Affordable
  <2> QED BY <1>1, <1>2, <2>1, <2>2, <2>3 DEF Undecided, RowOf, InFlight, Rowful, Rowless
<1> QED BY <1>3, <1>4, <1>5, <1>6 DEF DeliveryStep

\* Every other step leaves the rows as they are.
LEMMA RowsOfOthers ==
    ASSUME CardInv, [CardNext]_cardVars, ~(\E d \in Calls : DeliveryStep(d))
    PROVE  /\ pomeloTx' = pomeloTx
           /\ \/ at' = at /\ hook' = hook
              \/ \A d \in Calls : ~InFlight(d)'
              \/ \E d \in Calls : /\ \A e \in Calls \ {d} : at'[e] = at[e] /\ hook'[e] = hook[e]
                                  /\ \/ at'[d] = "done"
                                     \/ at'[d] = "create" /\ (Serial => \A e \in Calls : ~InFlight(e))
<1>1. at \in [Calls -> Places] /\ hook \in [Calls -> Webhooks \cup {NoWebhook}]
  BY DEF CardInv, CardTypeOK
<1>2. CASE \E d \in Calls : CircleStep(d)
  BY <1>2 DEF CircleStep, cardTables, deliveryVars
<1>3. CASE ServerCrash
  BY <1>1, <1>3 DEF ServerCrash, InFlight, cardTables
<1>4. CASE \/ \E k \in Keys : CircleSettles(k) /\ UNCHANGED <<cardTables, deliveryVars>>
           \/ UNCHANGED cardVars
  BY <1>4 DEF cardVars, cardTables, deliveryVars
<1>5. ASSUME NEW d \in Calls, DeliveryFails(d) \/ \E w \in Webhooks : Refuse(d, w)
      PROVE  /\ pomeloTx' = pomeloTx /\ at'[d] = "done"
             /\ \A e \in Calls \ {d} : at'[e] = at[e] /\ hook'[e] = hook[e]
  BY <1>1, <1>5 DEF DeliveryFails, Refuse, Answer, Move, cardTables
<1>6. ASSUME NEW d \in Calls, NEW w \in Webhooks, Receive(d, w)
      PROVE  /\ pomeloTx' = pomeloTx /\ at'[d] = "create"
             /\ Serial => \A e \in Calls : ~InFlight(e)
             /\ \A e \in Calls \ {d} : at'[e] = at[e] /\ hook'[e] = hook[e]
  BY <1>1, <1>6 DEF Receive, Move, cardTables
<1> QED BY <1>2, <1>3, <1>4, <1>5, <1>6 DEF CardNext

LEMMA TurnStep == CardInv /\ TurnOK /\ [CardNext]_cardVars => TurnOK'
<1> SUFFICES ASSUME CardInv, TurnOK, [CardNext]_cardVars, Serial PROVE TurnOK'
  BY DEF CardNext, cardVars, vars, TurnOK, Serial
<1>1. CASE \E d \in Calls : DeliveryStep(d)
  <2>1. PICK d \in Calls : DeliveryStep(d)
    BY <1>1
  <2>2. /\ InFlight(d) /\ hook' = hook
        /\ \A e \in Calls \ {d} : at'[e] = at[e]
        /\ at'[d] \in Rowful => RowOf(d)'.status = "PENDING"
    BY <2>1, RowsOfDelivery
  <2>3. \A e \in Calls \ {d} : ~InFlight(e) /\ ~InFlight(e)'
    BY <2>2 DEF TurnOK, InFlight
  <2>4. \A e \in Calls \ {d} : Undecided(e)'
    BY <2>2, <2>3 DEF Undecided, InFlight, Rowful, Rowless
  <2>5. Undecided(d)'
    BY <2>2 DEF Undecided
  <2> QED BY <2>3, <2>4, <2>5 DEF TurnOK
<1>2. CASE ~(\E d \in Calls : DeliveryStep(d))
  <2>1. pomeloTx' = pomeloTx
    BY <1>2, RowsOfOthers
  <2>2. CASE at' = at /\ hook' = hook
    BY <2>1, <2>2 DEF TurnOK, Undecided, InFlight, RowOf
  <2>3. CASE \A d \in Calls : ~InFlight(d)'
    BY <2>3 DEF TurnOK, Undecided, InFlight, Rowful, Rowless
  <2>4. ASSUME NEW d \in Calls,
               \A e \in Calls \ {d} : at'[e] = at[e] /\ hook'[e] = hook[e],
               at'[d] = "done" \/ (at'[d] = "create" /\ (Serial => \A e \in Calls : ~InFlight(e)))
        PROVE  TurnOK'
    <3>1. \A e \in Calls \ {d} : InFlight(e)' => InFlight(e) /\ at'[d] = "done"
      BY <2>4 DEF InFlight
    <3>2. \A e \in Calls \ {d} : Undecided(e)'
      BY <2>1, <2>4 DEF TurnOK, Undecided, RowOf
    <3>3. Undecided(d)'
      BY <2>4 DEF Undecided, Rowful, Rowless
    <3>4. ASSUME NEW e \in Calls, NEW f \in Calls, InFlight(e)', InFlight(f)' PROVE e = f
      BY <2>4, <3>1, <3>4 DEF TurnOK, InFlight
    <3>5. \A e \in Calls : Undecided(e)'
      BY <3>2, <3>3
    <3> QED BY <3>4, <3>5 DEF TurnOK
  <2> QED BY <1>2, <2>2, <2>3, <2>4, RowsOfOthers
<1> QED BY <1>1, <1>2

\* Deliveries that follow each other execute nothing that is decided and leave every
\* decision as it is, whatever fails and wherever the server restarts: a delivery that
\* comes to a decided row answers from it.
THEOREM DecidedIsLeftAlone == CardSpec => DecidedIsDoneInTurn
<1>1. CardInit => TurnOK
  BY DEF CardInit, TurnOK, InFlight, Undecided, Rowful, Rowless
<1>2. ASSUME CardInv, TurnOK, [CardNext]_cardVars, Serial
      PROVE  /\ DecidedIsNotExecuted
             /\ \A i \in Idems : pomeloTx[i] # NoRow /\ pomeloTx[i].status # "PENDING" =>
                    pomeloTx'[i].status = pomeloTx[i].status
  <2>1. DecidedIsNotExecuted
    BY <1>2 DEF TurnOK, Undecided, DecidedIsNotExecuted, Rowful, Rowless, Places
  <2>2. \A i \in Idems : pomeloTx[i] # NoRow /\ pomeloTx[i].status # "PENDING" =>
            pomeloTx'[i] = pomeloTx[i]
    BY <1>2, RowsOfDelivery, RowsOfOthers
  <2> QED BY <2>1, <2>2
<1>3. CardInv /\ TurnOK /\ [CardNext]_cardVars =>
        [Serial =>
            /\ DecidedIsNotExecuted
            /\ \A i \in Idems : pomeloTx[i] # NoRow /\ pomeloTx[i].status # "PENDING" =>
                    pomeloTx'[i].status = pomeloTx[i].status]_cardVars
  BY <1>2
<1> QED BY <1>1, <1>3, TurnStep, CardInvariance, PTL DEF CardSpec, DecidedIsDoneInTurn
=============================================================================
