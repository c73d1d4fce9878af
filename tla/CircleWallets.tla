---------------------------- MODULE CircleWallets ---------------------------
(***************************************************************************)
(* CircleService: consumers' wallets at Circle, the movements between them *)
(* and Noba's master wallet, and the balance Noba caches in its own Circle *)
(* table.  Every request to the service is a call that runs one step per   *)
(* awaited operation, so calls interleave at exactly the awaits.  A caller *)
(* may send the same request, under the same idempotency key, again.       *)
(***************************************************************************)
EXTENDS CircleLedger, Integers, Circumstances

CONSTANTS
    Calls,          \* identities of the calls made to the service
    Requests,       \* what callers may ask for
    NoRequest,
    NotCached,      \* currentBalance is null
    LinkedAtStart   \* consumers that may have a row in the Circle table already

Movements == {"debit", "credit", "transfer"}
RequestKinds == Movements \cup {"check", "getBalance", "refreshBalance", "getWallet"}

\* An amount may be given with more decimals than Circle takes.  amt is the amount in
\* cents as Utils.roundTo2Decimal... makes it, half a cent rounded up; frac is what the
\* caller gave beyond it, in tenths of a cent.
Fractions == -5..4
RequestType == [kind : RequestKinds, key : Keys, src : Wallets, dst : Wallets,
                amt : Nat, frac : Fractions]
Exact(r) == 10 * r.amt + r.frac
RoundedToCents(tenths) == (tenths + 5) \div 10

ASSUME WalletsAssumption ==
    /\ Requests \subseteq RequestType
    /\ NoRequest \notin RequestType
    /\ NotCached \notin Nat
    /\ LinkedAtStart \subseteq Consumers
    /\ \A r \in Requests : r.kind = "getWallet" => r.src \in Consumers

\* A debit goes to the master wallet, a credit comes from it.
ASSUME MovementAssumption ==
    \A r \in Requests : /\ r.kind = "debit" => r.dst = Master
                        /\ r.kind = "credit" => r.src = Master

\* The orderly circumstances: no two calls overlap, no movement is sent twice,
\* pending transfers are waited for, and nothing fails.
Orderly == "orderly" \in world

\* How callers use keys: one key, one movement; a check asks about a movement
\* between two different wallets.
KeepToKeys(asked) ==
    /\ \A r, s \in asked :
        r.kind \in Movements /\ s.kind \in Movements /\ r.key = s.key
            => r.src = s.src /\ r.dst = s.dst /\ r.amt = s.amt
    /\ \A r \in asked : r.kind = "check" => r.src # r.dst
KeyContract == KeepToKeys(Requests)

\* No workflow transfers from a wallet to itself: CircleService would, and would then
\* cache the balance with the amount added.
\* And no debit is of an amount that ends in half a cent: Circle takes the half cent,
\* and debitWalletBalance rounds what is left up as well.
MovesAreApart(asked) == \A r \in asked : r.kind = "transfer" => r.src # r.dst
NoHalfCents(asked) == \A r \in asked : r.kind = "debit" => r.frac # -5
TransferContract == MovesAreApart(Requests) /\ NoHalfCents(Requests)

VARIABLES
    linked,     \* consumers with a row in the Circle table
    cached,     \* currentBalance of each row
    pc,         \* where each call is
    req,        \* what it was asked
    srcSeen,    \* the balances it read
    dstSeen,
    answer      \* what it returned or threw

callVars == <<pc, req, srcSeen, dstSeen, answer>>
tableVars == <<linked, cached>>
vars == <<ledgerVars, tableVars, callVars, world>>

Statuses == {"SUCCESS", "TRANSFER_FAILED", "INSUFFICIENT_FUNDS"}
Answers == Statuses \cup {"none", "wallet", "balance",
    "invalid", "insufficient", "unavailable", "unlinked", "crashed"}
Steps == {"idle", "lookup", "create", "link", "readSrc", "readDst", "send",
          "cacheSrc", "cacheDst", "cacheLookup", "fetch", "store", "probe", "done"}

TypeOK ==
    /\ LedgerTypeOK
    /\ linked \subseteq Consumers
    /\ cached \in [Consumers -> Nat \cup {NotCached}]
    /\ pc \in [Calls -> Steps]
    /\ req \in [Calls -> Requests \cup {NoRequest}]
    /\ srcSeen \in [Calls -> Nat]
    /\ dstSeen \in [Calls -> Nat]
    /\ answer \in [Calls -> Answers]

Init ==
    /\ world \in Worlds
    /\ LedgerInit
    /\ linked \in SUBSET LinkedAtStart
    /\ cached = [c \in Consumers |-> NotCached]
    /\ pc = [c \in Calls |-> "idle"]
    /\ req = [c \in Calls |-> NoRequest]
    /\ srcSeen = [c \in Calls |-> 0]
    /\ dstSeen = [c \in Calls |-> 0]
    /\ answer = [c \in Calls |-> "none"]

Running(c) == pc[c] \notin {"idle", "done"}
Goto(c, step) == pc' = [pc EXCEPT ![c] = step]
Finish(c, a) == Goto(c, "done") /\ answer' = [answer EXCEPT ![c] = a]

-----------------------------------------------------------------------------
(* A request arrives *)

\* A wallet a caller can name: Noba's own, or one the service has handed out.
Known(w) == w = Master \/ w \in linked

FirstStep(kind) ==
    CASE kind = "getWallet" -> "lookup"
      [] kind \in Movements -> "readSrc"
      [] kind = "check" -> "probe"
      [] kind = "getBalance" -> "cacheLookup"
      [] kind = "refreshBalance" -> "fetch"

\* In the orderly world a caller waits for everything and repeats no movement.
InTurn(r) ==
    /\ \A c \in Calls : ~Running(c)
    /\ \A k \in Keys : ~Pending(k)
    /\ r.kind \in Movements => transfers[r.key] = NoTransfer

\* The amount a movement is checked with, in tenths of a cent: creditWalletBalance and
\* transferFunds round it first, debitWalletBalance leaves that to circle.client.ts.
Considered(r) == IF r.kind = "debit" THEN Exact(r) ELSE 10 * r.amt

Start(c, r) ==
    /\ pc[c] = "idle"
    /\ Orderly => InTurn(r)
    /\ r.kind # "getWallet" => Known(r.src) /\ Known(r.dst)
    /\ req' = [req EXCEPT ![c] = r]
    /\ IF r.kind \in Movements /\ Considered(r) <= 0
       THEN Finish(c, "invalid")
       ELSE Goto(c, FirstStep(r.kind)) /\ UNCHANGED answer
    /\ UNCHANGED <<ledgerVars, tableVars, srcSeen, dstSeen>>

-----------------------------------------------------------------------------
(* getOrCreateWallet *)

LookupWallet(c) ==
    /\ pc[c] = "lookup"
    /\ IF req[c].src \in linked
       THEN Finish(c, "wallet")
       ELSE Goto(c, "create") /\ UNCHANGED answer
    /\ UNCHANGED <<ledgerVars, tableVars, req, srcSeen, dstSeen>>

\* Circle opens the wallet, or answers with the one it opened for the consumer.
CreateWallet(c) ==
    /\ pc[c] = "create"
    /\ Goto(c, "link")
    /\ UNCHANGED <<ledgerVars, tableVars, req, srcSeen, dstSeen, answer>>

\* Variants: the failed insert is not reported; the refused insert is not caught.
LinkWalletIgnoresError(c) ==
    /\ pc[c] = "link"
    /\ linked' \in {linked, linked \cup {req[c].src}}
    /\ Finish(c, "wallet")
    /\ UNCHANGED <<ledgerVars, cached, req, srcSeen, dstSeen>>
LinkWalletUncaught(c) ==
    /\ pc[c] = "link"
    /\ req[c].src \notin linked
    /\ linked' = linked \cup {req[c].src}
    /\ Finish(c, "wallet")
    /\ UNCHANGED <<ledgerVars, cached, req, srcSeen, dstSeen>>

\* The row's consumer and wallet are unique: of two racing calls one is refused.
\* The insert may also fail, or fail after the row was written.
LinkWallet(c) ==
    /\ pc[c] = "link"
    /\ \/ /\ req[c].src \notin linked
          /\ linked' = linked \cup {req[c].src}
          /\ Finish(c, "wallet") \/ (~Orderly /\ Finish(c, "unlinked"))
       \/ /\ req[c].src \in linked \/ ~Orderly
          /\ UNCHANGED linked
          /\ Finish(c, "unlinked")
    /\ UNCHANGED <<ledgerVars, cached, req, srcSeen, dstSeen>>

-----------------------------------------------------------------------------
(* debitWalletBalance, creditWalletBalance, transferFunds *)

\* The source must hold the amount; for a credit the source is the master wallet.
ReadSource(c) ==
    /\ pc[c] = "readSrc"
    /\ srcSeen' = [srcSeen EXCEPT ![c] = balance[req[c].src]]
    /\ IF 10 * balance[req[c].src] < Considered(req[c])
       THEN Finish(c, "insufficient")
       ELSE /\ Goto(c, IF req[c].kind = "debit" THEN "send" ELSE "readDst")
            /\ UNCHANGED answer
    /\ UNCHANGED <<ledgerVars, tableVars, req, dstSeen>>

ReadDestination(c) ==
    /\ pc[c] = "readDst"
    /\ dstSeen' = [dstSeen EXCEPT ![c] = balance[req[c].dst]]
    /\ Goto(c, "send")
    /\ UNCHANGED <<ledgerVars, tableVars, req, srcSeen, answer>>

\* Does the service rewrite cached balances after this status?
Recaches(kind, status) ==
    IF kind = "credit" THEN status # "TRANSFER_FAILED" ELSE status = "SUCCESS"

AfterSource(r) ==
    IF r.kind = "transfer" /\ r.dst # Master THEN "cacheDst" ELSE "done"

AfterSend(r, status) ==
    CASE ~Recaches(r.kind, status) -> "done"
      [] Recaches(r.kind, status) /\ r.kind = "credit" ->
            IF r.dst # Master THEN "cacheDst" ELSE "done"
      [] Recaches(r.kind, status) /\ r.kind # "credit" ->
            IF r.src # Master THEN "cacheSrc" ELSE AfterSource(r)

SendTransfer(c) ==
    /\ pc[c] = "send"
    /\ CircleTransfer(req[c].key, req[c].src, req[c].dst, req[c].amt)
    /\ LET status == ClientStatus(transfers'[req[c].key])
       IN  /\ answer' = [answer EXCEPT ![c] = status]
           /\ Goto(c, AfterSend(req[c], status))
    /\ UNCHANGED <<tableVars, req, srcSeen, dstSeen>>

\* updateCurrentBalance: a wallet without a row, or a failing write, raises.
Written(w, b) == w \in linked /\ cached' = [cached EXCEPT ![w] = b]
NotWritten(w) == (w \notin linked \/ ~Orderly) /\ UNCHANGED cached

\* What is cached for the source.
LeftAtSource(c) == RoundedToCents(10 * srcSeen[c] - Considered(req[c]))

\* Variant: the funds are checked once more after the transfer.
CacheSourceRechecks(c) ==
    /\ pc[c] = "cacheSrc"
    /\ IF 10 * balance[req[c].src] < Considered(req[c])
       THEN Finish(c, "insufficient") /\ UNCHANGED cached
       ELSE /\ Written(req[c].src, LeftAtSource(c)) \/ NotWritten(req[c].src)
            /\ Goto(c, AfterSource(req[c]))
            /\ UNCHANGED answer
    /\ UNCHANGED <<ledgerVars, linked, req, srcSeen, dstSeen>>

CacheSource(c) ==
    /\ pc[c] = "cacheSrc"
    /\ \/ Written(req[c].src, LeftAtSource(c)) /\ Goto(c, AfterSource(req[c]))
       \/ ~Orderly /\ Written(req[c].src, LeftAtSource(c)) /\ Goto(c, "done")
       \/ NotWritten(req[c].src) /\ Goto(c, "done")
    /\ UNCHANGED <<ledgerVars, linked, req, srcSeen, dstSeen, answer>>

\* Variant: the balance read before the credit is written back as it was.
CacheDestinationAsRead(c) ==
    /\ pc[c] = "cacheDst"
    /\ Written(req[c].dst, dstSeen[c]) \/ NotWritten(req[c].dst)
    /\ Goto(c, "done")
    /\ UNCHANGED <<ledgerVars, linked, req, srcSeen, dstSeen, answer>>

CacheDestination(c) ==
    /\ pc[c] = "cacheDst"
    /\ \/ Written(req[c].dst, dstSeen[c] + req[c].amt)
       \/ NotWritten(req[c].dst)
    /\ Goto(c, "done")
    /\ UNCHANGED <<ledgerVars, linked, req, srcSeen, dstSeen, answer>>

-----------------------------------------------------------------------------
(* getBalance *)

\* A failing query finds no cached balance.
LookupBalance(c) ==
    LET w == req[c].src
        hit == w \in linked /\ cached[w] # NotCached
    IN  /\ pc[c] = "cacheLookup"
        /\ \/ /\ hit
              /\ srcSeen' = [srcSeen EXCEPT ![c] = cached[w]]
              /\ Finish(c, "balance")
           \/ /\ ~hit \/ ~Orderly
              /\ Goto(c, "fetch") /\ UNCHANGED <<srcSeen, answer>>
        /\ UNCHANGED <<ledgerVars, tableVars, req, dstSeen>>

FetchBalance(c) ==
    /\ pc[c] = "fetch"
    /\ srcSeen' = [srcSeen EXCEPT ![c] = balance[req[c].src]]
    /\ answer' = [answer EXCEPT ![c] = "balance"]
    /\ Goto(c, IF req[c].src # Master THEN "store" ELSE "done")
    /\ UNCHANGED <<ledgerVars, tableVars, req, dstSeen>>

StoreBalance(c) ==
    /\ pc[c] = "store"
    /\ Written(req[c].src, srcSeen[c]) \/ NotWritten(req[c].src)
    /\ Goto(c, "done")
    /\ UNCHANGED <<ledgerVars, linked, req, srcSeen, dstSeen, answer>>

-----------------------------------------------------------------------------
(* getTransferStatus *)

\* The probe: the key again, from master to master, for an amount of one dollar.
ProbeAmount == 100
SendProbe(k) == CircleTransfer(k, Master, Master, ProbeAmount)

IsProbe(t) == t.src = Master /\ t.dst = Master /\ t.amt = ProbeAmount
\* The transfer recorded is the movement asked for, to the cent.
Matches(t, r) == t.src = r.src /\ t.dst = r.dst /\ t.amt = r.amt
\* The transfer recorded is recognized: Circle's amount, in cents, is compared with the
\* amount the caller gave, as it was given.
Recognized(t, r) == t.src = r.src /\ t.dst = r.dst /\ 10 * t.amt = Exact(r)

\* Variant: only a completed transfer counts.
ProbeAnswerOnlyComplete(t, r) ==
    IF ~IsProbe(t) /\ Recognized(t, r) /\ t.state = "complete" THEN "SUCCESS" ELSE "TRANSFER_FAILED"

ProbeAnswer(t, r) ==
    IF ~IsProbe(t) /\ Recognized(t, r) THEN ClientStatus(t) ELSE "TRANSFER_FAILED"

CheckTransfer(c) ==
    /\ pc[c] = "probe"
    /\ SendProbe(req[c].key)
    /\ Finish(c, ProbeAnswer(transfers'[req[c].key], req[c]))
    /\ UNCHANGED <<tableVars, req, srcSeen, dstSeen>>

-----------------------------------------------------------------------------
(* What can go wrong between the service and Circle *)

\* The request never reaches Circle, or Circle refuses to serve it; or the query
\* for the wallet's row throws.
RequestFails(c) ==
    /\ ~Orderly
    /\ pc[c] \in {"lookup", "create", "readSrc", "readDst", "send", "fetch", "probe"}
    /\ Finish(c, "unavailable")
    /\ UNCHANGED <<ledgerVars, tableVars, req, srcSeen, dstSeen>>

\* Circle serves a transfer, and the answer is lost.
ResponseLost(c) ==
    /\ ~Orderly
    /\ \/ pc[c] = "send" /\ CircleTransfer(req[c].key, req[c].src, req[c].dst, req[c].amt)
       \/ pc[c] = "probe" /\ SendProbe(req[c].key)
    /\ Finish(c, "unavailable")
    /\ UNCHANGED <<tableVars, req, srcSeen, dstSeen>>

\* The server restarts: every call in flight is gone, what it did remains.
Crash ==
    /\ ~Orderly
    /\ \E c \in Calls : Running(c)
    /\ pc' = [c \in Calls |-> IF Running(c) THEN "done" ELSE pc[c]]
    /\ answer' = [c \in Calls |-> IF Running(c) THEN "crashed" ELSE answer[c]]
    /\ UNCHANGED <<ledgerVars, tableVars, req, srcSeen, dstSeen>>

CircleSettles(k) ==
    /\ Complete(k) \/ (~Orderly /\ Return(k))
    /\ UNCHANGED <<tableVars, callVars>>

-----------------------------------------------------------------------------
CallStep(c) ==
    \/ LookupWallet(c) \/ CreateWallet(c) \/ LinkWallet(c)
    \/ ReadSource(c) \/ ReadDestination(c) \/ SendTransfer(c)
    \/ CacheSource(c) \/ CacheDestination(c)
    \/ LookupBalance(c) \/ FetchBalance(c) \/ StoreBalance(c)
    \/ CheckTransfer(c)

\* Steps of a service that is called by some calls with some requests.
Serves(calls, asked) ==
    /\ \/ \E c \in calls : (\E r \in asked : Start(c, r)) \/ CallStep(c)
                           \/ RequestFails(c) \/ ResponseLost(c)
       \/ Crash
       \/ \E k \in Keys : CircleSettles(k)
    /\ UNCHANGED world

Next == Serves(Calls, Requests)

\* The server runs each call on, and Circle settles what is pending; requests,
\* faults and restarts are never owed.
Fairness ==
    /\ \A c \in Calls : WF_vars(CallStep(c) /\ UNCHANGED world)
    /\ \A k \in Keys : WF_vars(CircleSettles(k) /\ UNCHANGED world)

Spec == Init /\ [][Next]_vars
FairSpec == Spec /\ Fairness

-----------------------------------------------------------------------------
(* Properties *)

Answered(c, kinds, a) == pc[c] = "done" /\ req[c].kind \in kinds /\ answer[c] = a

\* Once getTransferStatus has told a caller who asked about an amount of whole cents
\* TRANSFER_FAILED, the movement it asked about has not happened and never will, however
\* late the original request arrives: the probe has taken its key.  Of an amount with more
\* decimals this is not so, see CheckTellsTheStatus.
CheckedFailureIsFinal ==
    \A c \in Calls : Answered(c, {"check"}, "TRANSFER_FAILED") /\ req[c].frac = 0 =>
        ~Moved(req[c].key, req[c].src, req[c].dst, req[c].amt)

\* SUCCESS from a movement: Circle accepted that very movement under its key,
\* unless a status check took the key first.
SuccessIsMovedOrProbed ==
    \A c \in Calls : Answered(c, Movements, "SUCCESS") =>
        LET t == transfers[req[c].key]
        IN  /\ t # NoTransfer
            /\ t.state \notin RefusedStates
            /\ IsProbe(t) \/ Matches(t, req[c])

\* The comment in getTransferStatus: a status check of a movement that never
\* reached Circle must not move a user's money.
ChecksMoveNoUserMoney ==
    [][\A c \in Calls : pc[c] = "probe" /\ pc'[c] # "probe" =>
        \A w \in Consumers : balance'[w] = balance[w]]_vars

\* Left to itself - one call at a time, no retries, no faults - every operation
\* leaves the cached balance equal to Circle's once nothing is pending, whatever
\* decimals amounts are given with, half a cent of a debit excepted.
CacheExact ==
    Orderly /\ (\A c \in Calls : ~Running(c)) /\ (\A k \in Keys : ~Pending(k)) =>
        \A w \in linked : cached[w] \in {NotCached, balance[w]}

\* A call refused for lack of funds has moved nothing, as long as no other call
\* carries its key.
FirstRefusalMovedNothing ==
    \A c \in Calls : Answered(c, Movements, "insufficient") =>
        \/ \E d \in Calls \ {c} : req[d] # NoRequest /\ req[d].key = req[c].key
        \/ ~Moved(req[c].key, req[c].src, req[c].dst, req[c].amt)

\* A wallet ID handed to a caller is in the table, where getBalance, the cache
\* and every later call look for it.
HandedOutWalletIsLinked ==
    \A c \in Calls : Answered(c, {"getWallet"}, "wallet") => req[c].src \in linked

-----------------------------------------------------------------------------
(* What the code's own words promise and the code does not keep *)

\* circle.client.ts answers a lost transfer with "Service unavailable. Please
\* try again.": trying again must not tell the caller that nothing was moved.
RefusalMeansNotMoved ==
    \A c \in Calls : Answered(c, {"debit"}, "insufficient") =>
        ~Moved(req[c].key, req[c].src, req[c].dst, req[c].amt)

\* "Debit consumer's circle wallet balance": a debit answered SUCCESS debited.
SuccessfulDebitMoved ==
    \A c \in Calls : Answered(c, {"debit"}, "SUCCESS") =>
        LET t == transfers[req[c].key] IN t # NoTransfer /\ Matches(t, req[c])

\* "The previous txn reached circle ... Therefore, the status would be the one specified
\* in the response": a status check of a movement that Circle made says that it was made.
CheckTellsTheStatus ==
    \A c \in Calls : Answered(c, {"check"}, "TRANSFER_FAILED") =>
        ~Moved(req[c].key, req[c].src, req[c].dst, req[c].amt)
=============================================================================
