---------------------------- MODULE CircleLedger ----------------------------
(***************************************************************************)
(* Circle, the service that holds the money, as circle.client.ts sees it:  *)
(* wallets with a USD balance (in cents), and transfers made under an      *)
(* idempotency key.  Circle executes a key at most once; a second request  *)
(* under the same key is answered with the recorded transfer, whatever the *)
(* second request asks for (getTransferStatus relies on exactly that).     *)
(* A transfer may be accepted as "pending": the source is debited, and     *)
(* Circle completes it or gives the money back later.                      *)
(***************************************************************************)
EXTENDS Naturals

CONSTANTS
    Consumers,      \* consumer IDs; Circle opens at most one wallet for each
    Master,         \* Noba's own wallet
    Keys,           \* idempotency keys
    NoTransfer,     \* nothing recorded under a key
    InitialBalance  \* [Wallets -> Nat]

Wallets == Consumers \cup {Master}

ASSUME LedgerAssumption ==
    /\ Master \notin Consumers
    /\ InitialBalance \in [Wallets -> Nat]

VARIABLES
    balance,        \* [Wallets -> Nat], what Circle holds for each wallet
    transfers       \* [Keys -> Transfer or NoTransfer]

ledgerVars == <<balance, transfers>>

\* The states of a transfer at Circle.  It moves money, or is refused for one of
\* two reasons, or was accepted as pending and returned to the source later.
MovedStates == {"pending", "complete"}
RefusedStates == {"transfer_failed", "insufficient_funds"}
TransferStates == MovedStates \cup RefusedStates \cup {"returned"}

Transfer == [src : Wallets, dst : Wallets, amt : Nat, state : TransferStates]

ASSUME NoTransferAssumption == NoTransfer \notin Transfer

LedgerTypeOK ==
    /\ balance \in [Wallets -> Nat]
    /\ transfers \in [Keys -> Transfer \cup {NoTransfer}]

LedgerInit ==
    /\ balance = InitialBalance
    /\ transfers = [k \in Keys |-> NoTransfer]

\* The transfer under key k moved, or is moving, amt from src to dst.
Moved(k, src, dst, amt) ==
    /\ transfers[k] # NoTransfer
    /\ transfers[k].state \in MovedStates
    /\ transfers[k].src = src /\ transfers[k].dst = dst /\ transfers[k].amt = amt

\* Balances after amt left src, and arrived at dst if the transfer completed.
Debited(b, src, amt) == [b EXCEPT ![src] = @ - amt]
Credited(b, dst, amt) == [b EXCEPT ![dst] = @ + amt]

\* Circle executes a transfer it sees for the first time.
Execute(k, src, dst, amt, state) ==
    /\ state \in MovedStates => balance[src] >= amt
    /\ state = "insufficient_funds" => balance[src] < amt
    /\ transfers' = [transfers EXCEPT
            ![k] = [src |-> src, dst |-> dst, amt |-> amt, state |-> state]]
    /\ balance' = CASE state = "complete" -> Credited(Debited(balance, src, amt), dst, amt)
                    [] state = "pending" -> Debited(balance, src, amt)
                    [] OTHER -> balance

\* Circle handles a createTransfer request.
CircleTransfer(k, src, dst, amt) ==
    \/ transfers[k] # NoTransfer /\ UNCHANGED ledgerVars
    \/ /\ transfers[k] = NoTransfer
       /\ \E state \in MovedStates \cup RefusedStates :
            Execute(k, src, dst, amt, state)

Pending(k) == transfers[k] # NoTransfer /\ transfers[k].state = "pending"

\* A pending transfer completes.
Complete(k) ==
    /\ Pending(k)
    /\ transfers' = [transfers EXCEPT ![k].state = "complete"]
    /\ balance' = Credited(balance, transfers[k].dst, transfers[k].amt)

\* A pending transfer fails after all: the source gets its money back.
Return(k) ==
    /\ Pending(k)
    /\ transfers' = [transfers EXCEPT ![k].state = "returned"]
    /\ balance' = Credited(balance, transfers[k].src, transfers[k].amt)

\* A client that looks for one of Circle's errors only.
ClientStatusForgetsFunds(t) ==
    IF t.state \in {"transfer_failed", "returned"} THEN "TRANSFER_FAILED" ELSE "SUCCESS"

\* What CircleClient.transfer makes of Circle's answer: success unless failed.
ClientStatus(t) ==
    CASE t.state \in MovedStates -> "SUCCESS"
      [] t.state \in {"transfer_failed", "returned"} -> "TRANSFER_FAILED"
      [] t.state = "insufficient_funds" -> "INSUFFICIENT_FUNDS"
=============================================================================
