------------------------- MODULE CircleWalletsProofs ------------------------
(***************************************************************************)
(* Theorems about CircleWallets, for any consumers, keys, requests, calls, *)
(* balances and faults.                                                    *)
(***************************************************************************)
EXTENDS CircleWallets, TLAPS

-----------------------------------------------------------------------------
(* Circle's ledger *)

\* A record of a transfer Circle has accepted or refused.
LEMMA ExecuteTyped ==
    ASSUME LedgerTypeOK, NEW k \in Keys, NEW src \in Wallets, NEW dst \in Wallets,
           NEW amt \in Nat, NEW state \in MovedStates \cup RefusedStates,
           Execute(k, src, dst, amt, state)
    PROVE  LedgerTypeOK'
<1>1. transfers' \in [Keys -> Transfer \cup {NoTransfer}]
  BY DEF LedgerTypeOK, Execute, Transfer, TransferStates
<1>2. balance' \in [Wallets -> Nat]
  <2>1. CASE state = "complete"
    <3>1. balance[src] \in Nat /\ balance[src] >= amt
      BY <2>1 DEF LedgerTypeOK, Execute, MovedStates
    <3>2. Debited(balance, src, amt) \in [Wallets -> Nat]
      BY <3>1 DEF LedgerTypeOK, Debited
    <3>3. Credited(Debited(balance, src, amt), dst, amt) \in [Wallets -> Nat]
      BY <3>2 DEF Credited
    <3> QED BY <2>1, <3>3 DEF Execute
  <2>2. CASE state = "pending"
    <3>1. balance[src] \in Nat /\ balance[src] >= amt
      BY <2>2 DEF LedgerTypeOK, Execute, MovedStates
    <3>2. Debited(balance, src, amt) \in [Wallets -> Nat]
      BY <3>1 DEF LedgerTypeOK, Debited
    <3> QED BY <2>2, <3>2 DEF Execute
  <2>3. CASE state \notin MovedStates
    BY <2>3 DEF Execute, MovedStates, LedgerTypeOK
  <2> QED BY <2>1, <2>2, <2>3 DEF MovedStates
<1> QED BY <1>1, <1>2 DEF LedgerTypeOK

\* The ledger stays a ledger whatever Circle is asked ...
LEMMA TransferTyped ==
    ASSUME LedgerTypeOK, NEW k \in Keys, NEW src \in Wallets, NEW dst \in Wallets,
           NEW amt \in Nat, CircleTransfer(k, src, dst, amt)
    PROVE  LedgerTypeOK'
<1>1. CASE UNCHANGED ledgerVars
  BY <1>1 DEF ledgerVars, LedgerTypeOK
<1>2. CASE \E state \in MovedStates \cup RefusedStates : Execute(k, src, dst, amt, state)
  BY <1>2, ExecuteTyped
<1> QED BY <1>1, <1>2 DEF CircleTransfer

\* ... and when a pending transfer is settled.
LEMMA SettleTyped ==
    ASSUME LedgerTypeOK, NEW k \in Keys, Complete(k) \/ Return(k)
    PROVE  LedgerTypeOK'
<1>1. transfers[k] \in Transfer
  BY DEF Complete, Return, Pending, LedgerTypeOK
<1>2. /\ transfers[k].src \in Wallets /\ transfers[k].dst \in Wallets
      /\ transfers[k].amt \in Nat
  BY <1>1 DEF Transfer
<1>3. balance' \in [Wallets -> Nat]
  BY <1>2 DEF Complete, Return, Credited, LedgerTypeOK
<1>4. transfers' \in [Keys -> Transfer \cup {NoTransfer}]
  <2>1. \A s \in TransferStates : [transfers[k] EXCEPT !.state = s] \in Transfer
    BY <1>1 DEF Transfer
  <2> QED BY <2>1 DEF Complete, Return, LedgerTypeOK, TransferStates, MovedStates
<1> QED BY <1>3, <1>4 DEF LedgerTypeOK

-----------------------------------------------------------------------------
(* Type correctness *)

\* Where a call is says what it was asked; past the comparison with the source's
\* balance, the amount fits in the balance that was read.
CallOK(c) ==
    /\ pc[c] # "idle" => req[c] \in Requests
    /\ pc[c] \in {"lookup", "create", "link"} => req[c].kind = "getWallet"
    /\ pc[c] = "probe" => req[c].kind = "check"
    /\ pc[c] \in {"cacheLookup", "fetch", "store"} =>
        req[c].kind \in {"getBalance", "refreshBalance"}
    /\ pc[c] \in {"readSrc", "readDst", "send", "cacheSrc", "cacheDst"} =>
        req[c].kind \in Movements
    /\ pc[c] \in {"readDst", "send", "cacheSrc"} => srcSeen[c] >= req[c].amt

CallsOK == \A c \in Calls : CallOK(c)

\* What a request is made of.
LEMMA RequestTyped ==
    ASSUME NEW r \in Requests
    PROVE  /\ r.kind \in RequestKinds /\ r.key \in Keys
           /\ r.src \in Wallets /\ r.dst \in Wallets /\ r.amt \in Nat
           /\ r.frac \in Fractions
           /\ r.kind = "getWallet" => r.src \in Consumers
BY WalletsAssumption DEF RequestType

\* A balance that is not less than the amount a movement is checked with is not less
\* than what Circle will be asked for.
LEMMA Funded ==
    ASSUME NEW r \in Requests, NEW b \in Nat, ~(10 * b < Considered(r))
    PROVE  b >= r.amt
<1>1. r.amt \in Nat /\ r.frac \in Int /\ -5 <= r.frac /\ r.frac <= 4
  BY RequestTyped DEF Fractions
<1> QED BY <1>1 DEF Considered, Exact

\* What is cached for the source is an amount of cents, and the one Circle comes to
\* unless the amount ended in half a cent.
LEMMA LeftTyped ==
    ASSUME NEW r \in Requests, NEW b \in Nat, b >= r.amt
    PROVE  /\ RoundedToCents(10 * b - Considered(r)) \in Nat
           /\ (r.kind = "debit" => r.frac # -5)
                => RoundedToCents(10 * b - Considered(r)) = b - r.amt
<1>1. r.amt \in Nat /\ r.frac \in Int /\ -5 <= r.frac /\ r.frac <= 4
  BY RequestTyped DEF Fractions
<1>2. PICK left \in Nat : left = b - r.amt
  BY <1>1
<1>3. PICK f \in -5..4 :
        /\ 10 * b - Considered(r) = 10 * left - f
        /\ (r.kind = "debit" => r.frac # -5) => f # -5
  <2>1. CASE r.kind = "debit"
    BY <1>1, <1>2, <2>1 DEF Considered, Exact
  <2>2. CASE r.kind # "debit"
    <3>1. 10 * b - Considered(r) = 10 * left - 0
      BY <1>1, <1>2, <2>2 DEF Considered
    <3> QED BY <3>1
  <2> QED BY <2>1, <2>2
<1>4. (10 * left - f + 5) \div 10 \in Nat
  BY <1>3
<1>5. f # -5 => (10 * left - f + 5) \div 10 = left
  BY <1>3
<1> QED BY <1>2, <1>3, <1>4, <1>5 DEF RoundedToCents

\* Writing the cache keeps the table typed.
LEMMA WriteTyped ==
    ASSUME TypeOK, NEW w, NEW b \in Nat, Written(w, b) \/ NotWritten(w)
    PROVE  cached' \in [Consumers -> Nat \cup {NotCached}]
BY DEF TypeOK, Written, NotWritten

LEMMA InitTyped == Init => TypeOK /\ CallsOK
BY LedgerAssumption, WalletsAssumption
   DEF Init, LedgerInit, TypeOK, LedgerTypeOK, CallsOK, CallOK, Steps, Answers

\* A call that begins.
LEMMA StartTyped ==
    ASSUME TypeOK, CallsOK, NEW c \in Calls, NEW r \in Requests, Start(c, r)
    PROVE  TypeOK' /\ CallsOK'
<1>1. r.kind \in RequestKinds /\ r.amt \in Nat
  BY RequestTyped
<1>2. FirstStep(r.kind) \in Steps
  BY <1>1 DEF FirstStep, Steps, RequestKinds, Movements
<1>3. TypeOK'
  BY <1>2 DEF TypeOK, LedgerTypeOK, Start, Finish, Goto, ledgerVars, tableVars, Steps, Answers
<1>4. CallOK(c)'
  <2>1. req'[c] = r
    BY DEF Start, TypeOK
  <2>2. CASE r.kind \in Movements /\ Considered(r) <= 0
    BY <2>1, <2>2 DEF Start, Finish, Goto, CallOK, TypeOK
  <2>3. CASE ~(r.kind \in Movements /\ Considered(r) <= 0)
    <3>1. pc'[c] = FirstStep(r.kind)
      BY <2>3 DEF Start, Goto, TypeOK
    <3>2. /\ FirstStep(r.kind) \in {"lookup", "readSrc", "probe", "cacheLookup", "fetch"}
          /\ FirstStep(r.kind) = "lookup" => r.kind = "getWallet"
          /\ FirstStep(r.kind) = "probe" => r.kind = "check"
          /\ FirstStep(r.kind) = "readSrc" => r.kind \in Movements
          /\ FirstStep(r.kind) \in {"cacheLookup", "fetch"} =>
                r.kind \in {"getBalance", "refreshBalance"}
      BY <1>1 DEF FirstStep, RequestKinds, Movements
    <3> QED BY <2>1, <3>1, <3>2 DEF CallOK
  <2> QED BY <2>2, <2>3
<1>5. \A d \in Calls \ {c} : CallOK(d)'
  BY DEF CallsOK, CallOK, Start, Finish, Goto, TypeOK
<1> QED BY <1>3, <1>4, <1>5 DEF CallsOK

\* A step of one call leaves the others where they are.
LEMMA OthersOK ==
    ASSUME CallsOK, NEW c \in Calls, req' = req, CallOK(c)',
           \A d \in Calls \ {c} : pc'[d] = pc[d] /\ srcSeen'[d] = srcSeen[d]
    PROVE  CallsOK'
BY DEF CallsOK, CallOK

\* getOrCreateWallet.
LEMMA GetOrCreateWalletTyped ==
    ASSUME TypeOK, CallsOK, NEW c \in Calls,
           LookupWallet(c) \/ CreateWallet(c) \/ LinkWallet(c)
    PROVE  TypeOK' /\ CallsOK'
<1>1. CallOK(c) /\ req[c] \in Requests /\ req[c].src \in Consumers
  <2>1. CallOK(c) BY DEF CallsOK
  <2>2. pc[c] \in {"lookup", "create", "link"}
    BY DEF LookupWallet, CreateWallet, LinkWallet
  <2> QED BY <2>1, <2>2, RequestTyped DEF CallOK
<1>2. TypeOK'
  BY <1>1 DEF TypeOK, LedgerTypeOK, LookupWallet, CreateWallet, LinkWallet, Finish, Goto,
              ledgerVars, tableVars, Steps, Answers
<1>3. CallOK(c)'
  BY <1>1 DEF CallOK, TypeOK, LookupWallet, CreateWallet, LinkWallet, Finish, Goto
<1>4. /\ req' = req
      /\ \A d \in Calls \ {c} : pc'[d] = pc[d] /\ srcSeen'[d] = srcSeen[d]
  BY DEF TypeOK, LookupWallet, CreateWallet, LinkWallet, Finish, Goto
<1> QED BY <1>2, <1>3, <1>4, OthersOK

\* The balances read before a movement.
LEMMA ReadsTyped ==
    ASSUME TypeOK, CallsOK, NEW c \in Calls, ReadSource(c) \/ ReadDestination(c)
    PROVE  TypeOK' /\ CallsOK'
<1>1. CallOK(c) /\ req[c] \in Requests
  BY DEF CallsOK, CallOK, ReadSource, ReadDestination
<1>2. /\ balance[req[c].src] \in Nat /\ balance[req[c].dst] \in Nat
      /\ req[c].amt \in Nat
  BY <1>1, RequestTyped DEF TypeOK, LedgerTypeOK
<1>3. TypeOK'
  BY <1>1, <1>2 DEF TypeOK, LedgerTypeOK, ReadSource, ReadDestination, Finish, Goto,
              ledgerVars, tableVars, Steps, Answers
<1>4. CallOK(c)'
  <2>1. CASE ReadSource(c)
    <3>1. ~(10 * balance[req[c].src] < Considered(req[c])) => balance[req[c].src] >= req[c].amt
      BY <1>1, <1>2, Funded
    <3> QED BY <1>1, <1>2, <2>1, <3>1 DEF CallOK, TypeOK, ReadSource, Finish, Goto
  <2>2. CASE ReadDestination(c)
    BY <1>1, <1>2, <2>2 DEF CallOK, TypeOK, ReadDestination, Goto
  <2> QED BY <2>1, <2>2
<1>5. /\ req' = req
      /\ \A d \in Calls \ {c} : pc'[d] = pc[d] /\ srcSeen'[d] = srcSeen[d]
  BY DEF TypeOK, ReadSource, ReadDestination, Finish, Goto
<1> QED BY <1>3, <1>4, <1>5, OthersOK

\* What the client makes of a recorded transfer is one of its statuses.
LEMMA StatusTyped ==
    ASSUME NEW t \in Transfer
    PROVE  ClientStatus(t) \in Statuses
<1>1. t.state \in {"pending", "complete", "transfer_failed", "insufficient_funds", "returned"}
  BY DEF Transfer, TransferStates, MovedStates, RefusedStates
<1> QED BY <1>1 DEF ClientStatus, Statuses, MovedStates

\* After a request Circle has served, a transfer is recorded under its key.
LEMMA TransferRecords ==
    ASSUME LedgerTypeOK, NEW k \in Keys, NEW src \in Wallets, NEW dst \in Wallets,
           NEW amt \in Nat, CircleTransfer(k, src, dst, amt)
    PROVE  transfers'[k] \in Transfer
<1>1. CASE transfers[k] # NoTransfer /\ UNCHANGED ledgerVars
  BY <1>1 DEF LedgerTypeOK, ledgerVars
<1>2. CASE \E state \in MovedStates \cup RefusedStates : Execute(k, src, dst, amt, state)
  BY <1>2 DEF LedgerTypeOK, Execute, Transfer, TransferStates
<1> QED BY <1>1, <1>2 DEF CircleTransfer

\* The request for a transfer, answered or not.
LEMMA SendTyped ==
    ASSUME TypeOK, CallsOK, NEW c \in Calls, SendTransfer(c)
    PROVE  TypeOK' /\ CallsOK'
<1>1. CallOK(c) /\ req[c] \in Requests /\ pc[c] = "send"
  BY DEF CallsOK, CallOK, SendTransfer
<1>2. LedgerTypeOK' /\ transfers'[req[c].key] \in Transfer
  BY <1>1, RequestTyped, TransferTyped, TransferRecords DEF SendTransfer, TypeOK
<1> DEFINE st == ClientStatus(transfers'[req[c].key])
           next == AfterSend(req[c], st)
<1>3. st \in Statuses
  BY <1>2, StatusTyped
<1>4. next \in {"done", "cacheSrc", "cacheDst"}
  BY DEF AfterSend, AfterSource
<1>5. answer' = [answer EXCEPT ![c] = st] /\ pc' = [pc EXCEPT ![c] = next]
  BY DEF SendTransfer, Goto
<1> HIDE DEF st, next
<1>6. TypeOK'
  BY <1>2, <1>3, <1>4, <1>5 DEF TypeOK, SendTransfer, tableVars, Steps, Answers
<1>7. CallOK(c)'
  BY <1>1, <1>4, <1>5 DEF CallOK, TypeOK, SendTransfer
<1>8. req' = req /\ \A d \in Calls \ {c} : pc'[d] = pc[d] /\ srcSeen'[d] = srcSeen[d]
  BY <1>5 DEF TypeOK, SendTransfer
<1> QED BY <1>6, <1>7, <1>8, OthersOK

\* The cached balances rewritten after a movement.
LEMMA CacheTyped ==
    ASSUME TypeOK, CallsOK, NEW c \in Calls, CacheSource(c) \/ CacheDestination(c)
    PROVE  TypeOK' /\ CallsOK'
<1>1. CallOK(c) /\ req[c] \in Requests
  BY DEF CallsOK, CallOK, CacheSource, CacheDestination
<1>2. /\ req[c].amt \in Nat /\ srcSeen[c] \in Nat /\ dstSeen[c] \in Nat
      /\ pc[c] = "cacheSrc" => LeftAtSource(c) \in Nat
  BY <1>1, RequestTyped, LeftTyped DEF TypeOK, CallOK, LeftAtSource
<1>3. cached' \in [Consumers -> Nat \cup {NotCached}]
  <2>1. CASE CacheSource(c)
    <3>1. LeftAtSource(c) \in Nat
      BY <1>2, <2>1 DEF CacheSource
    <3> QED BY <2>1, <3>1, WriteTyped DEF CacheSource
  <2>2. CASE CacheDestination(c)
    <3>1. dstSeen[c] + req[c].amt \in Nat
      BY <1>2
    <3> QED BY <2>2, <3>1, WriteTyped DEF CacheDestination
  <2> QED BY <2>1, <2>2
<1>4. PICK step \in {"done", "cacheDst"} : pc' = [pc EXCEPT ![c] = step]
  BY DEF CacheSource, CacheDestination, Goto, AfterSource
<1>5. TypeOK'
  BY <1>3, <1>4 DEF TypeOK, LedgerTypeOK, CacheSource, CacheDestination, ledgerVars, Steps
<1>6. CallOK(c)'
  BY <1>1, <1>4 DEF CallOK, TypeOK, CacheSource, CacheDestination
<1>7. req' = req /\ \A d \in Calls \ {c} : pc'[d] = pc[d] /\ srcSeen'[d] = srcSeen[d]
  BY <1>4 DEF TypeOK, CacheSource, CacheDestination
<1> QED BY <1>5, <1>6, <1>7, OthersOK

\* getBalance.
LEMMA BalanceTyped ==
    ASSUME TypeOK, CallsOK, NEW c \in Calls,
           LookupBalance(c) \/ FetchBalance(c) \/ StoreBalance(c)
    PROVE  TypeOK' /\ CallsOK'
<1>1. CallOK(c) /\ req[c] \in Requests
  BY DEF CallsOK, CallOK, LookupBalance, FetchBalance, StoreBalance
<1>2. balance[req[c].src] \in Nat /\ srcSeen[c] \in Nat
  BY <1>1, RequestTyped DEF TypeOK, LedgerTypeOK
<1>3. cached' \in [Consumers -> Nat \cup {NotCached}]
  BY <1>2, WriteTyped
     DEF LookupBalance, FetchBalance, StoreBalance, TypeOK, tableVars
<1>4. LookupBalance(c) => srcSeen' \in [Calls -> Nat]
  BY WalletsAssumption DEF LookupBalance, TypeOK
<1>5. TypeOK'
  BY <1>2, <1>3, <1>4 DEF TypeOK, LedgerTypeOK, LookupBalance, FetchBalance, StoreBalance,
                          Finish, Goto, ledgerVars, tableVars, Steps, Answers
<1>6. CallOK(c)'
  BY <1>1 DEF CallOK, TypeOK, LookupBalance, FetchBalance, StoreBalance, Finish, Goto
<1>7. req' = req /\ \A d \in Calls \ {c} : pc'[d] = pc[d] /\ srcSeen'[d] = srcSeen[d]
  BY DEF TypeOK, LookupBalance, FetchBalance, StoreBalance, Finish, Goto
<1> QED BY <1>5, <1>6, <1>7, OthersOK

\* A call that ends, whatever Circle did with its last request.
LEMMA EndTyped ==
    ASSUME TypeOK, CallsOK, NEW c \in Calls, Running(c), LedgerTypeOK',
           NEW a \in Answers, Finish(c, a), UNCHANGED <<tableVars, req, srcSeen, dstSeen>>
    PROVE  TypeOK' /\ CallsOK'
<1>1. TypeOK'
  BY DEF TypeOK, Finish, Goto, tableVars, Steps
<1>2. CallOK(c)'
  BY DEF CallsOK, CallOK, Finish, Goto, TypeOK, Running
<1>3. req' = req /\ \A d \in Calls \ {c} : pc'[d] = pc[d] /\ srcSeen'[d] = srcSeen[d]
  BY DEF TypeOK, Finish, Goto
<1> QED BY <1>1, <1>2, <1>3, OthersOK

\* The request of a status check.
LEMMA ProbeTyped ==
    ASSUME TypeOK, NEW k \in Keys, SendProbe(k)
    PROVE  LedgerTypeOK' /\ transfers'[k] \in Transfer
<1>1. Master \in Wallets /\ ProbeAmount \in Nat
  BY DEF Wallets, ProbeAmount
<1> QED BY <1>1, TransferTyped, TransferRecords DEF SendProbe, TypeOK

\* getTransferStatus.
LEMMA CheckTyped ==
    ASSUME TypeOK, CallsOK, NEW c \in Calls, CheckTransfer(c)
    PROVE  TypeOK' /\ CallsOK'
<1>1. req[c] \in Requests /\ req[c].key \in Keys
  BY RequestTyped DEF CallsOK, CallOK, CheckTransfer
<1>2. LedgerTypeOK' /\ transfers'[req[c].key] \in Transfer
  BY <1>1, ProbeTyped DEF CheckTransfer
<1>3. ProbeAnswer(transfers'[req[c].key], req[c]) \in Answers
  BY <1>2, StatusTyped DEF ProbeAnswer, Answers, Statuses
<1> QED BY <1>2, <1>3, EndTyped DEF CheckTransfer, Running

\* Faults and restarts.
LEMMA FaultTyped ==
    ASSUME TypeOK, CallsOK, NEW c \in Calls, RequestFails(c) \/ ResponseLost(c)
    PROVE  TypeOK' /\ CallsOK'
<1>1. Running(c) /\ Finish(c, "unavailable") /\ "unavailable" \in Answers
  BY DEF RequestFails, ResponseLost, Running, Answers
<1>2. UNCHANGED <<tableVars, req, srcSeen, dstSeen>>
  BY DEF RequestFails, ResponseLost
<1>3. req[c] \in Requests
  BY <1>1 DEF CallsOK, CallOK, Running
<1>4. LedgerTypeOK'
  <2>1. CASE RequestFails(c)
    BY <2>1 DEF RequestFails, TypeOK, LedgerTypeOK, ledgerVars
  <2>2. CASE ResponseLost(c)
    <3>1. /\ req[c].key \in Keys /\ req[c].src \in Wallets /\ req[c].dst \in Wallets
          /\ req[c].amt \in Nat
      BY <1>3, RequestTyped
    <3> QED BY <2>2, <3>1, TransferTyped, ProbeTyped DEF ResponseLost, TypeOK
  <2> QED BY <2>1, <2>2
<1> QED BY <1>1, <1>2, <1>4, EndTyped

LEMMA CrashTyped ==
    ASSUME TypeOK, CallsOK, Crash
    PROVE  TypeOK' /\ CallsOK'
<1>1. pc' \in [Calls -> Steps] /\ answer' \in [Calls -> Answers]
  BY DEF TypeOK, Crash, Steps, Answers
<1>2. TypeOK'
  BY <1>1 DEF TypeOK, LedgerTypeOK, Crash, ledgerVars, tableVars
<1>3. ASSUME NEW d \in Calls PROVE CallOK(d)'
  <2>1. CallOK(d) /\ req' = req /\ srcSeen' = srcSeen
    BY DEF CallsOK, Crash
  <2>2. pc'[d] = IF Running(d) THEN "done" ELSE pc[d]
    BY DEF Crash
  <2> QED BY <2>1, <2>2 DEF CallOK, Running
<1> QED BY <1>2, <1>3 DEF CallsOK

LEMMA SettlesTyped ==
    ASSUME TypeOK, CallsOK, NEW k \in Keys, CircleSettles(k)
    PROVE  TypeOK' /\ CallsOK'
<1>1. LedgerTypeOK'
  BY SettleTyped DEF CircleSettles, TypeOK
<1> QED BY <1>1 DEF CircleSettles, TypeOK, CallsOK, CallOK, tableVars, callVars

LEMMA StepTyped == TypeOK /\ CallsOK /\ [Next]_vars => TypeOK' /\ CallsOK'
<1> SUFFICES ASSUME TypeOK, CallsOK, [Next]_vars PROVE TypeOK' /\ CallsOK'
  OBVIOUS
<1>1. CASE \E c \in Calls, r \in Requests : Start(c, r)
  BY <1>1, StartTyped
<1>2. CASE \E c \in Calls : CallStep(c)
  BY <1>2, GetOrCreateWalletTyped, ReadsTyped, SendTyped, CacheTyped, BalanceTyped,
     CheckTyped DEF CallStep
<1>3. CASE \E c \in Calls : RequestFails(c) \/ ResponseLost(c)
  BY <1>3, FaultTyped
<1>4. CASE Crash
  BY <1>4, CrashTyped
<1>5. CASE \E k \in Keys : CircleSettles(k)
  BY <1>5, SettlesTyped
<1>6. CASE UNCHANGED vars
  BY <1>6 DEF vars, ledgerVars, tableVars, callVars, TypeOK, LedgerTypeOK, CallsOK, CallOK
<1> QED BY <1>1, <1>2, <1>3, <1>4, <1>5, <1>6 DEF Next, Serves

\* Every balance, Circle's and the cached one, stays a natural number, and every
\* call is where its request belongs: the cache is written with the balance read
\* less the amount, which the comparison with that balance keeps from underflowing.
THEOREM TypeCorrect == Spec => [](TypeOK /\ CallsOK)
<1>1. Init => TypeOK /\ CallsOK
  BY InitTyped
<1>2. TypeOK /\ CallsOK /\ [Next]_vars => (TypeOK /\ CallsOK)'
  BY StepTyped
<1> QED BY <1>1, <1>2, PTL DEF Spec

-----------------------------------------------------------------------------
(* What Circle has recorded stays recorded *)

\* The transfer under key k keeps its wallets, its amount and, once it is no
\* longer pending, its state.
Kept(k) ==
    transfers[k] # NoTransfer =>
        /\ transfers'[k] # NoTransfer
        /\ transfers'[k].src = transfers[k].src /\ transfers'[k].dst = transfers[k].dst
        /\ transfers'[k].amt = transfers[k].amt
        /\ \/ transfers'[k].state = transfers[k].state
           \/ transfers[k].state = "pending" /\ transfers'[k].state \in {"complete", "returned"}

AllKept == \A k \in Keys : Kept(k)

LEMMA TransferKeeps ==
    ASSUME LedgerTypeOK, NEW k \in Keys, NEW src \in Wallets, NEW dst \in Wallets,
           NEW amt \in Nat, CircleTransfer(k, src, dst, amt)
    PROVE  AllKept
<1>1. CASE UNCHANGED ledgerVars
  BY <1>1 DEF AllKept, Kept, ledgerVars
<1>2. CASE transfers[k] = NoTransfer /\
           \E state \in MovedStates \cup RefusedStates : Execute(k, src, dst, amt, state)
  BY <1>2 DEF AllKept, Kept, Execute, LedgerTypeOK
<1> QED BY <1>1, <1>2 DEF CircleTransfer

LEMMA SettleKeeps ==
    ASSUME LedgerTypeOK, NEW k \in Keys, Complete(k) \/ Return(k)
    PROVE  AllKept
<1>1. transfers[k] \in Transfer /\ transfers[k].state = "pending"
  BY DEF Complete, Return, Pending, LedgerTypeOK
<1>2. PICK s \in {"complete", "returned"} : transfers' = [transfers EXCEPT ![k].state = s]
  BY DEF Complete, Return
<1>3. transfers'[k] = [transfers[k] EXCEPT !.state = s]
  BY <1>2 DEF LedgerTypeOK
<1>4. transfers'[k] \in Transfer
  BY <1>1, <1>2, <1>3 DEF Transfer, TransferStates, MovedStates
<1>5. Kept(k)
  BY <1>1, <1>3, <1>4, NoTransferAssumption DEF Kept, Transfer
<1>6. \A j \in Keys \ {k} : Kept(j)
  BY <1>2 DEF Kept, LedgerTypeOK
<1> QED BY <1>5, <1>6 DEF AllKept

\* A call's transfer request, or its probe, keeps what is recorded.
LEMMA RequestKeeps ==
    ASSUME TypeOK, NEW r \in Requests,
           \/ CircleTransfer(r.key, r.src, r.dst, r.amt)
           \/ SendProbe(r.key)
    PROVE  AllKept
<1>1. /\ r.key \in Keys /\ r.src \in Wallets /\ r.dst \in Wallets /\ r.amt \in Nat
      /\ Master \in Wallets /\ ProbeAmount \in Nat
  BY RequestTyped DEF Wallets, ProbeAmount
<1> QED BY <1>1, TransferKeeps DEF SendProbe, TypeOK

LEMMA StepKeeps == TypeOK /\ CallsOK /\ [Next]_vars => AllKept
<1> SUFFICES ASSUME TypeOK, CallsOK, [Next]_vars PROVE AllKept
  OBVIOUS
<1>1. CASE UNCHANGED ledgerVars
  BY <1>1 DEF AllKept, Kept, ledgerVars
<1>2. CASE \E c \in Calls : SendTransfer(c) \/ CheckTransfer(c) \/ ResponseLost(c)
  <2>1. PICK c \in Calls : SendTransfer(c) \/ CheckTransfer(c) \/ ResponseLost(c)
    BY <1>2
  <2>2. req[c] \in Requests
    BY <2>1 DEF CallsOK, CallOK, SendTransfer, CheckTransfer, ResponseLost
  <2> QED BY <2>1, <2>2, RequestKeeps DEF SendTransfer, CheckTransfer, ResponseLost
<1>3. CASE \E k \in Keys : CircleSettles(k)
  BY <1>3, SettleKeeps DEF CircleSettles, TypeOK
<1>4. CASE \E c \in Calls : \/ \E r \in Requests : Start(c, r)
                            \/ LookupWallet(c) \/ CreateWallet(c) \/ LinkWallet(c)
                            \/ ReadSource(c) \/ ReadDestination(c)
                            \/ CacheSource(c) \/ CacheDestination(c)
                            \/ LookupBalance(c) \/ FetchBalance(c) \/ StoreBalance(c)
                            \/ RequestFails(c)
  BY <1>1, <1>4 DEF Start, LookupWallet, CreateWallet, LinkWallet, ReadSource,
     ReadDestination, CacheSource, CacheDestination, LookupBalance, FetchBalance,
     StoreBalance, RequestFails
<1>5. CASE Crash \/ UNCHANGED vars
  BY <1>1, <1>5 DEF Crash, vars
<1> QED BY <1>2, <1>3, <1>4, <1>5 DEF Next, Serves, CallStep

\* A step leaves a call as it is, or is a step of that call, or a restart.
Still(c) == pc'[c] = pc[c] /\ req'[c] = req[c] /\ answer'[c] = answer[c]

LEMMA OneActs ==
    ASSUME TypeOK, [Next]_vars, NEW c \in Calls
    PROVE  \/ Still(c)
           \/ \E r \in Requests : Start(c, r)
           \/ CallStep(c) \/ RequestFails(c) \/ ResponseLost(c)
           \/ Crash
<1>1. ASSUME NEW d \in Calls, d # c, NEW r \in Requests, Start(d, r)
      PROVE  Still(c)
  BY <1>1 DEF Still, TypeOK, Start, Finish, Goto
<1>2. ASSUME NEW d \in Calls, d # c, CallStep(d) \/ RequestFails(d) \/ ResponseLost(d)
      PROVE  Still(c)
  <2>1. CASE LookupWallet(d) \/ CreateWallet(d) \/ LinkWallet(d) \/ ReadSource(d)
             \/ ReadDestination(d)
    BY <1>2, <2>1 DEF Still, TypeOK, LookupWallet, CreateWallet, LinkWallet, ReadSource,
       ReadDestination, Finish, Goto
  <2>2. CASE SendTransfer(d) \/ CheckTransfer(d) \/ RequestFails(d) \/ ResponseLost(d)
    BY <1>2, <2>2 DEF Still, TypeOK, SendTransfer, CheckTransfer, RequestFails,
       ResponseLost, Finish, Goto
  <2>3. CASE CacheSource(d) \/ CacheDestination(d) \/ LookupBalance(d) \/ FetchBalance(d)
             \/ StoreBalance(d)
    BY <1>2, <2>3 DEF Still, TypeOK, CacheSource, CacheDestination, LookupBalance,
       FetchBalance, StoreBalance, Finish, Goto
  <2> QED BY <1>2, <2>1, <2>2, <2>3 DEF CallStep
<1>3. CASE (\E k \in Keys : CircleSettles(k)) \/ UNCHANGED vars
  BY <1>3 DEF Still, CircleSettles, callVars, vars
<1> QED BY <1>1, <1>2, <1>3 DEF Next, Serves

\* A call is answered once.
LEMMA DoneStays ==
    ASSUME TypeOK, CallsOK, [Next]_vars, NEW c \in Calls, pc[c] = "done"
    PROVE  Still(c)
<1>1. ~(\E r \in Requests : Start(c, r))
  BY DEF Start
<1>2. ~(CallStep(c) \/ RequestFails(c) \/ ResponseLost(c))
  BY DEF CallStep, LookupWallet, CreateWallet, LinkWallet, ReadSource, ReadDestination,
     SendTransfer, CacheSource, CacheDestination, LookupBalance, FetchBalance, StoreBalance,
     CheckTransfer, RequestFails, ResponseLost
<1>3. Crash => Still(c)
  BY DEF Crash, Still, Running
<1> QED BY <1>1, <1>2, <1>3, OneActs

-----------------------------------------------------------------------------
(* A status check that answers TRANSFER_FAILED *)

\* The answer is kept by what is recorded under the key: another transfer than the
\* one asked about, or one that failed for good.
FailureRecorded(c) ==
    Answered(c, {"check"}, "TRANSFER_FAILED") /\ req[c].frac = 0 =>
        LET t == transfers[req[c].key]
        IN  /\ t # NoTransfer
            /\ ~Matches(t, req[c]) \/ t.state \in {"transfer_failed", "returned"}

FailuresRecorded == \A c \in Calls : FailureRecorded(c)

\* Only the probe's answer makes a status check end with TRANSFER_FAILED.
LEMMA FailedByProbe ==
    ASSUME TypeOK, CallsOK, [Next]_vars, NEW c \in Calls, pc[c] # "done",
           Answered(c, {"check"}, "TRANSFER_FAILED")'
    PROVE  CheckTransfer(c)
<1>1. ~Still(c)
  BY DEF Still, Answered
<1>2. ~(\E r \in Requests : Start(c, r))
  <2> SUFFICES ASSUME NEW r \in Requests, Start(c, r) PROVE FALSE
    OBVIOUS
  <2>1. req'[c] = r /\ pc[c] = "idle"
    BY DEF Start, TypeOK
  <2>2. CASE r.kind \in Movements /\ Considered(r) <= 0
    BY <2>1, <2>2 DEF Answered, Movements
  <2>3. CASE ~(r.kind \in Movements /\ Considered(r) <= 0)
    <3>1. pc'[c] = FirstStep(r.kind) /\ r.kind = "check"
      BY <2>1, <2>3 DEF Start, Goto, TypeOK, Answered
    <3> QED BY <3>1 DEF FirstStep, Answered, Movements
  <2> QED BY <2>2, <2>3
<1>3. ~Crash /\ ~RequestFails(c) /\ ~ResponseLost(c)
  BY DEF Crash, RequestFails, ResponseLost, Answered, Finish, Goto, TypeOK, Running
<1>4. CallStep(c) /\ req'[c].kind = "check"
  BY <1>1, <1>2, <1>3, OneActs DEF Answered
<1>5. req'[c] = req[c]
  BY <1>4 DEF CallStep, LookupWallet, CreateWallet, LinkWallet, ReadSource,
     ReadDestination, SendTransfer, CacheSource, CacheDestination, LookupBalance,
     FetchBalance, StoreBalance, CheckTransfer
<1>6. pc[c] = "probe" \/ pc[c] \in {"idle", "done"}
  BY <1>4, <1>5 DEF CallsOK, CallOK, TypeOK, Steps, Movements
<1> QED BY <1>4, <1>6 DEF CallStep, LookupWallet, CreateWallet, LinkWallet, ReadSource,
     ReadDestination, SendTransfer, CacheSource, CacheDestination, LookupBalance,
     FetchBalance, StoreBalance

LEMMA FailuresRecordedStep ==
    KeyContract /\ TypeOK /\ CallsOK /\ FailuresRecorded /\ [Next]_vars => FailuresRecorded'
<1> SUFFICES ASSUME KeyContract, TypeOK, CallsOK, FailuresRecorded, [Next]_vars,
                    NEW c \in Calls,
                    Answered(c, {"check"}, "TRANSFER_FAILED")', req'[c].frac = 0
             PROVE  LET t == transfers'[req'[c].key]
                    IN  /\ t # NoTransfer
                        /\ ~Matches(t, req'[c]) \/ t.state \in {"transfer_failed", "returned"}
  BY DEF FailuresRecorded, FailureRecorded
<1>1. CASE pc[c] = "done"
  <2>1. Still(c) /\ AllKept
    BY <1>1, DoneStays, StepKeeps
  <2>2. FailureRecorded(c) /\ req[c].key \in Keys
    BY <1>1, RequestTyped DEF FailuresRecorded, CallsOK, CallOK
  <2>3. Answered(c, {"check"}, "TRANSFER_FAILED") /\ req[c].frac = 0
    BY <2>1 DEF Answered, Still
  <2> QED BY <2>1, <2>2, <2>3 DEF FailureRecorded, AllKept, Kept, Still, Matches
<1>2. CASE pc[c] # "done"
  <2>1. CheckTransfer(c)
    BY <1>2, FailedByProbe
  <2>2. req[c] \in Requests /\ req[c].key \in Keys
    BY <2>1, RequestTyped DEF CheckTransfer, CallsOK, CallOK
  <2> DEFINE t == transfers'[req[c].key]
  <2>3. t \in Transfer
    BY <2>1, <2>2, ProbeTyped DEF CheckTransfer
  <2>4. ProbeAnswer(t, req[c]) = "TRANSFER_FAILED" /\ req'[c] = req[c]
    BY <2>1 DEF CheckTransfer, Finish, Answered, TypeOK
  <2>5. req[c].src # req[c].dst
    BY <2>2, <2>4 DEF KeyContract, KeepToKeys, Answered
  <2>6. t.state \in {"pending", "complete", "transfer_failed", "insufficient_funds", "returned"}
    BY <2>3 DEF Transfer, TransferStates, MovedStates, RefusedStates
  <2>7. CASE IsProbe(t) /\ Matches(t, req[c])
    BY <2>5, <2>7 DEF IsProbe, Matches
  <2>8. CASE ~IsProbe(t) /\ Matches(t, req[c])
    <3>1. t.amt \in Nat /\ req[c].amt \in Nat /\ req[c].frac = 0
      BY <2>2, <2>3, <2>4, RequestTyped DEF Transfer
    <3>2. Recognized(t, req[c])
      BY <2>8, <3>1 DEF Matches, Recognized, Exact
    <3> QED BY <2>3, <2>4, <2>6, <2>8, <3>2, NoTransferAssumption
            DEF ProbeAnswer, ClientStatus, MovedStates
  <2>9. CASE ~Matches(t, req[c])
    BY <2>3, <2>4, <2>9, NoTransferAssumption
  <2> QED BY <2>7, <2>8, <2>9
<1> QED BY <1>1, <1>2

\* Once a caller who asked about whole cents has been told TRANSFER_FAILED, the movement
\* it asked about will never happen, in any deployment: whatever the requests, the
\* interleaving, the faults and the restarts, if checks are about two different wallets.
THEOREM FailureIsFinal ==
    ASSUME KeyContract
    PROVE  Spec => []CheckedFailureIsFinal
<1>1. Init => FailuresRecorded
  BY DEF Init, FailuresRecorded, FailureRecorded, Answered
<1>2. KeyContract
  OBVIOUS
<1>3. TypeOK /\ CallsOK /\ FailuresRecorded /\ [Next]_vars => FailuresRecorded'
  BY <1>2, FailuresRecordedStep
<1>4. FailuresRecorded => CheckedFailureIsFinal
  BY DEF FailuresRecorded, FailureRecorded, CheckedFailureIsFinal, Moved, MovedStates, Matches
<1> QED BY <1>1, <1>3, <1>4, TypeCorrect, PTL DEF Spec

-----------------------------------------------------------------------------
(* A movement that answers SUCCESS *)

\* What Circle records under a key is a probe, or what some request asks for.
AskedFor(k) ==
    transfers[k] # NoTransfer =>
        \/ IsProbe(transfers[k])
        \/ \E r \in Requests : r.kind \in Movements /\ r.key = k /\ Matches(transfers[k], r)

AllAskedFor == \A k \in Keys : AskedFor(k)

LEMMA RecordedAsSent ==
    ASSUME LedgerTypeOK, NEW k \in Keys, NEW src, NEW dst, NEW amt,
           CircleTransfer(k, src, dst, amt)
    PROVE  /\ \A j \in Keys \ {k} : transfers'[j] = transfers[j]
           /\ \/ transfers'[k] = transfers[k]
              \/ /\ transfers'[k].src = src /\ transfers'[k].dst = dst
                 /\ transfers'[k].amt = amt
BY DEF LedgerTypeOK, CircleTransfer, Execute, ledgerVars

LEMMA AskedForStep ==
    TypeOK /\ CallsOK /\ AllAskedFor /\ [Next]_vars => AllAskedFor'
<1> SUFFICES ASSUME TypeOK, CallsOK, AllAskedFor, [Next]_vars PROVE AllAskedFor'
  OBVIOUS
<1>1. ASSUME NEW c \in Calls,
             pc[c] = "send" /\ CircleTransfer(req[c].key, req[c].src, req[c].dst, req[c].amt)
      PROVE  AllAskedFor'
  <2>1. req[c] \in Requests /\ req[c].kind \in Movements /\ req[c].key \in Keys
    BY <1>1, RequestTyped DEF CallsOK, CallOK
  <2>2. /\ \A j \in Keys \ {req[c].key} : transfers'[j] = transfers[j]
        /\ transfers'[req[c].key] = transfers[req[c].key] \/ Matches(transfers'[req[c].key], req[c])
    BY <1>1, <2>1, RecordedAsSent DEF TypeOK, Matches
  <2> QED BY <2>1, <2>2 DEF AllAskedFor, AskedFor, Matches, IsProbe
<1>2. ASSUME NEW c \in Calls, pc[c] = "probe" /\ SendProbe(req[c].key)
      PROVE  AllAskedFor'
  <2>1. req[c].key \in Keys
    BY <1>2, RequestTyped DEF CallsOK, CallOK
  <2>2. /\ \A j \in Keys \ {req[c].key} : transfers'[j] = transfers[j]
        /\ transfers'[req[c].key] = transfers[req[c].key] \/ IsProbe(transfers'[req[c].key])
    BY <1>2, <2>1, RecordedAsSent DEF SendProbe, TypeOK, IsProbe
  <2> QED BY <2>1, <2>2 DEF AllAskedFor, AskedFor, Matches, IsProbe
<1>3. CASE \E c \in Calls : SendTransfer(c) \/ CheckTransfer(c) \/ ResponseLost(c)
  BY <1>1, <1>2, <1>3 DEF SendTransfer, CheckTransfer, ResponseLost
<1>4. CASE \E k \in Keys : CircleSettles(k)
  <2>1. PICK k \in Keys : Complete(k) \/ Return(k)
    BY <1>4 DEF CircleSettles
  <2>2. AllKept /\ transfers[k] # NoTransfer /\ \A j \in Keys \ {k} : transfers'[j] = transfers[j]
    BY <2>1, SettleKeeps DEF TypeOK, LedgerTypeOK, Complete, Return, Pending
  <2> QED BY <2>2 DEF AllKept, Kept, AllAskedFor, AskedFor, Matches, IsProbe
<1>5. CASE transfers' = transfers
  BY <1>5 DEF AllAskedFor, AskedFor, Matches, IsProbe
<1>6. CASE \E c \in Calls : \/ \E r \in Requests : Start(c, r)
                            \/ LookupWallet(c) \/ CreateWallet(c) \/ LinkWallet(c)
                            \/ ReadSource(c) \/ ReadDestination(c)
                            \/ CacheSource(c) \/ CacheDestination(c)
                            \/ LookupBalance(c) \/ FetchBalance(c) \/ StoreBalance(c)
                            \/ RequestFails(c)
  BY <1>5, <1>6 DEF Start, LookupWallet, CreateWallet, LinkWallet, ReadSource,
     ReadDestination, CacheSource, CacheDestination, LookupBalance, FetchBalance,
     StoreBalance, RequestFails, ledgerVars
<1>7. CASE Crash \/ UNCHANGED vars
  BY <1>5, <1>7 DEF Crash, vars, ledgerVars
<1> QED BY <1>3, <1>4, <1>6, <1>7 DEF Next, Serves, CallStep

\* From the answer on, Circle holds the movement, or the probe that took its key.
Settled(c) ==
    pc[c] \in {"cacheSrc", "cacheDst", "done"} /\ req[c].kind \in Movements
        /\ answer[c] = "SUCCESS"
    => LET t == transfers[req[c].key]
       IN  /\ t # NoTransfer
           /\ t.state \notin RefusedStates
           /\ IsProbe(t) \/ Matches(t, req[c])

SuccessesSettled == \A c \in Calls : Settled(c)

\* A movement that has its answer got it from SendTransfer, or had it before.
LEMMA SucceededBySend ==
    ASSUME TypeOK, CallsOK, [Next]_vars, NEW c \in Calls,
           pc'[c] \in {"cacheSrc", "cacheDst", "done"}, req'[c].kind \in Movements,
           answer'[c] = "SUCCESS"
    PROVE  \/ SendTransfer(c)
           \/ /\ pc[c] \in {"cacheSrc", "cacheDst", "done"}
              /\ req'[c] = req[c] /\ answer'[c] = answer[c]
<1>1. CASE Still(c)
  BY <1>1 DEF Still
<1>2. ~(\E r \in Requests : Start(c, r))
  <2> SUFFICES ASSUME NEW r \in Requests, Start(c, r) PROVE FALSE
    OBVIOUS
  <2>1. CASE r.kind \in Movements /\ Considered(r) <= 0
    BY <2>1 DEF Start, Finish, TypeOK
  <2>2. CASE ~(r.kind \in Movements /\ Considered(r) <= 0)
    <3>1. pc'[c] = FirstStep(r.kind) /\ r.kind \in Movements
      BY <2>2 DEF Start, Goto, TypeOK
    <3> QED BY <3>1 DEF FirstStep, Movements
  <2> QED BY <2>1, <2>2
<1>3. ~Crash \/ Still(c)
  BY DEF Crash, TypeOK, Running, Still
<1>4. ~RequestFails(c) /\ ~ResponseLost(c)
  BY DEF RequestFails, ResponseLost, Finish, TypeOK
<1>5. CASE CallStep(c)
  <2>1. req'[c] = req[c]
    BY <1>5 DEF CallStep, LookupWallet, CreateWallet, LinkWallet, ReadSource,
       ReadDestination, SendTransfer, CacheSource, CacheDestination, LookupBalance,
       FetchBalance, StoreBalance, CheckTransfer
  <2>2. pc[c] \in {"readSrc", "readDst", "send", "cacheSrc", "cacheDst", "idle", "done"}
    BY <2>1 DEF CallsOK, CallOK, TypeOK, Steps, Movements
  <2>3. ReadSource(c) \/ ReadDestination(c) \/ SendTransfer(c) \/ CacheSource(c)
        \/ CacheDestination(c)
    BY <1>5, <2>2 DEF CallStep, LookupWallet, CreateWallet, LinkWallet, LookupBalance,
       FetchBalance, StoreBalance, CheckTransfer
  <2> QED BY <2>1, <2>3 DEF ReadSource, ReadDestination, CacheSource, CacheDestination,
             Finish, Goto, TypeOK
<1> QED BY <1>1, <1>2, <1>3, <1>4, <1>5, OneActs

LEMMA SettledStep ==
    KeyContract /\ TypeOK /\ CallsOK /\ AllAskedFor /\ SuccessesSettled /\ [Next]_vars
        => SuccessesSettled'
<1> SUFFICES ASSUME KeyContract, TypeOK, CallsOK, AllAskedFor, SuccessesSettled, [Next]_vars,
                    NEW c \in Calls,
                    pc'[c] \in {"cacheSrc", "cacheDst", "done"}, req'[c].kind \in Movements,
                    answer'[c] = "SUCCESS"
             PROVE  LET t == transfers'[req'[c].key]
                    IN  /\ t # NoTransfer
                        /\ t.state \notin RefusedStates
                        /\ IsProbe(t) \/ Matches(t, req'[c])
  BY DEF SuccessesSettled, Settled
<1>1. CASE /\ pc[c] \in {"cacheSrc", "cacheDst", "done"}
           /\ req'[c] = req[c] /\ answer'[c] = answer[c]
  <2>1. Settled(c) /\ req[c].key \in Keys /\ AllKept
    BY <1>1, RequestTyped, StepKeeps DEF SuccessesSettled, CallsOK, CallOK
  <2> QED BY <1>1, <2>1 DEF Settled, AllKept, Kept, IsProbe, Matches, RefusedStates
<1>2. CASE SendTransfer(c)
  <2>1. req[c] \in Requests /\ req[c].kind \in Movements /\ req[c].key \in Keys /\ req'[c] = req[c]
    BY <1>2, RequestTyped DEF SendTransfer, CallsOK, CallOK
  <2> DEFINE t == transfers'[req[c].key]
  <2>2. t \in Transfer
    BY <1>2, <2>1, RequestTyped, TransferRecords DEF SendTransfer, TypeOK
  <2>3. t # NoTransfer /\ t.state \in {"pending", "complete", "transfer_failed",
                                       "insufficient_funds", "returned"}
    BY <2>2, NoTransferAssumption DEF Transfer, TransferStates, MovedStates, RefusedStates
  <2>4. ClientStatus(t) = "SUCCESS"
    BY <1>2 DEF SendTransfer, TypeOK
  <2>5. t.state \notin RefusedStates
    BY <2>3, <2>4 DEF ClientStatus, MovedStates, RefusedStates
  <2>6. AskedFor(req[c].key)'
    BY <2>1, AskedForStep DEF AllAskedFor
  <2>7. IsProbe(t) \/ Matches(t, req[c])
    BY <2>1, <2>3, <2>6 DEF AskedFor, KeyContract, KeepToKeys, Matches, IsProbe
  <2> QED BY <2>1, <2>3, <2>5, <2>7
<1> QED BY <1>1, <1>2, SucceededBySend

\* In any deployment whose callers give every movement its own key: SUCCESS is only
\* said of a movement that Circle accepted, or whose key a status check had taken.
THEOREM SuccessIsTrue ==
    ASSUME KeyContract
    PROVE  Spec => []SuccessIsMovedOrProbed
<1>1. Init => AllAskedFor /\ SuccessesSettled
  BY DEF Init, LedgerInit, AllAskedFor, AskedFor, SuccessesSettled, Settled
<1>2. KeyContract
  OBVIOUS
<1>3. TypeOK /\ CallsOK /\ (AllAskedFor /\ SuccessesSettled) /\ [Next]_vars
        => (AllAskedFor /\ SuccessesSettled)'
  BY <1>2, AskedForStep, SettledStep
<1>4. AllAskedFor /\ SuccessesSettled => SuccessIsMovedOrProbed
  BY DEF SuccessesSettled, Settled, SuccessIsMovedOrProbed, Answered
<1> QED BY <1>1, <1>3, <1>4, TypeCorrect, PTL DEF Spec

-----------------------------------------------------------------------------
(* Status checks and users' money *)

LEMMA ProbeMovesNothing ==
    ASSUME TypeOK, NEW k \in Keys, SendProbe(k), NEW w \in Consumers
    PROVE  balance'[w] = balance[w]
<1>1. w # Master /\ w \in Wallets /\ Master \in Wallets
  BY LedgerAssumption DEF Wallets
<1>2. CASE UNCHANGED ledgerVars
  BY <1>2 DEF ledgerVars
<1>3. ASSUME NEW state \in MovedStates \cup RefusedStates,
             Execute(k, Master, Master, ProbeAmount, state)
      PROVE  balance'[w] = balance[w]
  <2>1. balance \in [Wallets -> Nat]
    BY DEF TypeOK, LedgerTypeOK
  <2>2. Debited(balance, Master, ProbeAmount)[w] = balance[w]
    BY <1>1, <2>1 DEF Debited
  <2>3. Credited(Debited(balance, Master, ProbeAmount), Master, ProbeAmount)[w] = balance[w]
    BY <1>1, <2>1 DEF Debited, Credited
  <2>4. CASE state = "complete"
    BY <1>3, <2>3, <2>4 DEF Execute
  <2>5. CASE state = "pending"
    BY <1>3, <2>2, <2>5 DEF Execute
  <2>6. CASE state \notin MovedStates
    BY <1>3, <2>6 DEF Execute, MovedStates
  <2> QED BY <2>4, <2>5, <2>6 DEF MovedStates
<1> QED BY <1>2, <1>3 DEF SendProbe, CircleTransfer

\* The step by which a status check ends moves no user's money, even when the key
\* it asks about was never used: the probe is a transfer of Noba's to itself.
THEOREM ChecksAreHarmless == Spec => ChecksMoveNoUserMoney
<1>1. ASSUME TypeOK, CallsOK, [Next]_vars, NEW c \in Calls, pc[c] = "probe", pc'[c] # "probe",
             NEW w \in Consumers
      PROVE  balance'[w] = balance[w]
  <2>1. ~Still(c) /\ ~(\E r \in Requests : Start(c, r))
    BY <1>1 DEF Still, Start
  <2>2. CheckTransfer(c) \/ RequestFails(c) \/ ResponseLost(c) \/ Crash
    BY <1>1, <2>1, OneActs DEF CallStep, LookupWallet, CreateWallet, LinkWallet, ReadSource,
       ReadDestination, SendTransfer, CacheSource, CacheDestination, LookupBalance,
       FetchBalance, StoreBalance
  <2>3. CASE RequestFails(c) \/ Crash
    BY <2>3 DEF RequestFails, Crash, ledgerVars
  <2>4. CASE CheckTransfer(c) \/ ResponseLost(c)
    <3>1. req[c].key \in Keys /\ SendProbe(req[c].key)
      BY <1>1, <2>4, RequestTyped DEF CheckTransfer, ResponseLost, CallsOK, CallOK
    <3> QED BY <1>1, <3>1, ProbeMovesNothing
  <2> QED BY <2>2, <2>3, <2>4
<1>2. TypeOK /\ CallsOK /\ [Next]_vars =>
        [\A c \in Calls : pc[c] = "probe" /\ pc'[c] # "probe" =>
            \A w \in Consumers : balance'[w] = balance[w]]_vars
  BY <1>1
<1> QED BY <1>2, TypeCorrect, PTL DEF Spec, ChecksMoveNoUserMoney

-----------------------------------------------------------------------------
(* Wallets handed out, and refusals *)

LEMMA LinkedStays == TypeOK /\ [Next]_vars => linked \subseteq linked'
BY DEF Next, Serves, CallStep, Start, LookupWallet, CreateWallet, LinkWallet, ReadSource,
   ReadDestination, SendTransfer, CacheSource, CacheDestination, LookupBalance, FetchBalance,
   StoreBalance, CheckTransfer, RequestFails, ResponseLost, Crash, CircleSettles, tableVars, vars

\* A wallet ID is handed out of the table, or after its row was written there,
\* however the insertions of racing calls interleave.
THEOREM HandedOutIsLinked == Spec => []HandedOutWalletIsLinked
<1>1. Init => HandedOutWalletIsLinked
  BY DEF Init, HandedOutWalletIsLinked, Answered
<1>2. ASSUME TypeOK, CallsOK, HandedOutWalletIsLinked, [Next]_vars, NEW c \in Calls,
             Answered(c, {"getWallet"}, "wallet")'
      PROVE  req'[c].src \in linked'
  <2>1. CASE pc[c] = "done"
    <3>1. Still(c) /\ linked \subseteq linked'
      BY <1>2, <2>1, DoneStays, LinkedStays
    <3> QED BY <1>2, <3>1 DEF HandedOutWalletIsLinked, Answered, Still
  <2>2. CASE pc[c] # "done"
    <3>1. ~Still(c) /\ ~Crash /\ ~RequestFails(c) /\ ~ResponseLost(c)
      BY <1>2, <2>2 DEF Still, Crash, RequestFails, ResponseLost, Answered, Finish, TypeOK,
         Running
    <3>2. ASSUME NEW r \in Requests, Start(c, r) PROVE FALSE
      <4>1. req'[c] = r /\ r.kind = "getWallet"
        BY <1>2, <3>2 DEF Start, TypeOK, Answered
      <4>2. pc'[c] = FirstStep(r.kind)
        BY <1>2, <3>2, <4>1 DEF Start, Goto, Movements, TypeOK
      <4>3. FirstStep("getWallet") = "lookup"
        BY DEF FirstStep, Movements
      <4> QED BY <1>2, <4>1, <4>2, <4>3 DEF Answered
    <3>3. CallStep(c)
      BY <1>2, <3>1, <3>2, OneActs
    <3>4. req'[c] = req[c] /\ req[c].kind = "getWallet"
      BY <1>2, <3>3 DEF Answered, CallStep, LookupWallet, CreateWallet, LinkWallet, ReadSource,
         ReadDestination, SendTransfer, CacheSource, CacheDestination, LookupBalance,
         FetchBalance, StoreBalance, CheckTransfer
    <3>5. pc[c] \in {"lookup", "create", "link"} \/ pc[c] \in {"idle", "done"}
      BY <1>2, <3>4 DEF CallsOK, CallOK, TypeOK, Steps, Movements
    <3>6. LookupWallet(c) \/ CreateWallet(c) \/ LinkWallet(c)
      BY <3>3, <3>5 DEF CallStep, ReadSource, ReadDestination, SendTransfer, CacheSource,
         CacheDestination, LookupBalance, FetchBalance, StoreBalance, CheckTransfer
    <3> QED BY <1>2, <3>4, <3>6 DEF LookupWallet, CreateWallet, LinkWallet, Answered, Finish,
               Goto, TypeOK, tableVars
  <2> QED BY <2>1, <2>2
<1>3. TypeOK /\ CallsOK /\ HandedOutWalletIsLinked /\ [Next]_vars => HandedOutWalletIsLinked'
  BY <1>2 DEF HandedOutWalletIsLinked, Answered
<1> QED BY <1>1, <1>3, TypeCorrect, PTL DEF Spec

\* A key with a transfer was sent by a call that was not refused for lack of funds
\* and, having sent, no longer will be.
Sent(d) == pc[d] \in {"cacheSrc", "cacheDst", "done"} /\ answer[d] # "insufficient"

SentBySomeone ==
    \A k \in Keys : transfers[k] # NoTransfer =>
        \E d \in Calls : req[d] # NoRequest /\ req[d].key = k /\ Sent(d)

LEMMA SentStays ==
    ASSUME TypeOK, CallsOK, [Next]_vars, NEW d \in Calls, Sent(d)
    PROVE  Sent(d)' /\ req'[d] = req[d]
<1>1. CASE Still(d)
  BY <1>1 DEF Still, Sent
<1>2. ~(\E r \in Requests : Start(d, r)) /\ ~RequestFails(d) /\ ~ResponseLost(d)
  BY DEF Start, Sent, RequestFails, ResponseLost
<1>3. CASE Crash
  BY <1>3 DEF Crash, Sent, Running, TypeOK
<1>4. CASE CallStep(d)
  <2>1. CacheSource(d) \/ CacheDestination(d)
    BY <1>4 DEF Sent, CallStep, LookupWallet, CreateWallet, LinkWallet, ReadSource,
       ReadDestination, SendTransfer, LookupBalance, FetchBalance, StoreBalance, CheckTransfer
  <2>2. req' = req /\ answer' = answer
    BY <2>1 DEF CacheSource, CacheDestination
  <2>3. pc'[d] \in {"cacheDst", "done"}
    BY <2>1 DEF CacheSource, CacheDestination, Goto, AfterSource, TypeOK
  <2> QED BY <2>2, <2>3 DEF Sent
<1> QED BY <1>1, <1>2, <1>3, <1>4, OneActs

LEMMA SentStep == TypeOK /\ CallsOK /\ SentBySomeone /\ [Next]_vars => SentBySomeone'
<1> SUFFICES ASSUME TypeOK, CallsOK, SentBySomeone, [Next]_vars,
                    NEW k \in Keys, transfers'[k] # NoTransfer
             PROVE  \E d \in Calls : req'[d] # NoRequest /\ req'[d].key = k /\ Sent(d)'
  BY DEF SentBySomeone
<1>1. CASE transfers[k] # NoTransfer
  <2>1. PICK d \in Calls : req[d] # NoRequest /\ req[d].key = k /\ Sent(d)
    BY <1>1 DEF SentBySomeone
  <2> QED BY <2>1, SentStays
<1>2. CASE transfers[k] = NoTransfer
  <2>1. transfers' # transfers
    BY <1>2
  <2>2. ~(\E j \in Keys : CircleSettles(j))
    BY <1>2 DEF CircleSettles, Complete, Return, Pending, TypeOK, LedgerTypeOK
  <2>3. ~(\E c \in Calls : \/ \E r \in Requests : Start(c, r)
                           \/ LookupWallet(c) \/ CreateWallet(c) \/ LinkWallet(c)
                           \/ ReadSource(c) \/ ReadDestination(c)
                           \/ CacheSource(c) \/ CacheDestination(c)
                           \/ LookupBalance(c) \/ FetchBalance(c) \/ StoreBalance(c)
                           \/ RequestFails(c))
    BY <2>1 DEF Start, LookupWallet, CreateWallet, LinkWallet, ReadSource, ReadDestination,
       CacheSource, CacheDestination, LookupBalance, FetchBalance, StoreBalance,
       RequestFails, ledgerVars
  <2>4. ~Crash /\ ~UNCHANGED vars
    BY <2>1 DEF Crash, vars, ledgerVars
  <2>5. PICK c \in Calls : SendTransfer(c) \/ CheckTransfer(c) \/ ResponseLost(c)
    BY <2>2, <2>3, <2>4 DEF Next, Serves, CallStep
  <2>6. req[c] \in Requests /\ req[c].key \in Keys /\ req' = req /\ req[c] # NoRequest
    BY <2>5, RequestTyped, WalletsAssumption
       DEF CallsOK, CallOK, SendTransfer, CheckTransfer, ResponseLost
  <2>7. \A j \in Keys \ {req[c].key} : transfers'[j] = transfers[j]
    BY <2>5, <2>6, RecordedAsSent
       DEF SendTransfer, CheckTransfer, ResponseLost, SendProbe, TypeOK
  <2>8. req[c].key = k
    BY <1>2, <2>7
  <2>9. Sent(c)'
    <3>1. CASE SendTransfer(c)
      <4>1. ClientStatus(transfers'[k]) \in Statuses
        BY <2>6, <2>8, <3>1, RequestTyped, TransferRecords, StatusTyped DEF SendTransfer, TypeOK
      <4>2. AfterSend(req[c], ClientStatus(transfers'[k])) \in {"cacheSrc", "cacheDst", "done"}
        BY DEF AfterSend, AfterSource
      <4> QED BY <2>8, <3>1, <4>1, <4>2 DEF SendTransfer, Goto, Sent, Statuses, TypeOK
    <3>2. CASE CheckTransfer(c)
      <4>1. transfers'[k] \in Transfer
        BY <2>6, <2>8, <3>2, ProbeTyped DEF CheckTransfer
      <4>2. ProbeAnswer(transfers'[k], req[c]) \in Statuses
        BY <4>1, StatusTyped DEF ProbeAnswer, Statuses
      <4> QED BY <2>8, <3>2, <4>2 DEF CheckTransfer, Finish, Goto, Sent, Statuses, TypeOK
    <3>3. CASE ResponseLost(c)
      BY <3>3 DEF ResponseLost, Finish, Goto, Sent, TypeOK
    <3> QED BY <2>5, <3>1, <3>2, <3>3
  <2> QED BY <2>6, <2>8, <2>9
<1> QED BY <1>1, <1>2

\* "Insufficient funds" is the truth about a movement nobody else sent: the refused
\* call itself has asked Circle for nothing.
THEOREM FirstRefusalIsTrue == Spec => []FirstRefusalMovedNothing
<1>1. Init => SentBySomeone
  BY DEF Init, LedgerInit, SentBySomeone
<1>2. TypeOK /\ CallsOK /\ SentBySomeone => FirstRefusalMovedNothing
  <2> SUFFICES ASSUME TypeOK, CallsOK, SentBySomeone, NEW c \in Calls,
                      Answered(c, Movements, "insufficient"),
                      Moved(req[c].key, req[c].src, req[c].dst, req[c].amt)
               PROVE  \E d \in Calls \ {c} : req[d] # NoRequest /\ req[d].key = req[c].key
    BY DEF FirstRefusalMovedNothing
  <2>1. req[c].key \in Keys
    BY RequestTyped DEF Answered, CallsOK, CallOK
  <2>2. PICK d \in Calls : req[d] # NoRequest /\ req[d].key = req[c].key /\ Sent(d)
    BY <2>1 DEF SentBySomeone, Moved
  <2>3. d # c
    BY <2>2 DEF Sent, Answered
  <2> QED BY <2>2, <2>3
<1> QED BY <1>1, <1>2, SentStep, TypeCorrect, PTL DEF Spec
-----------------------------------------------------------------------------
(* The cache, where everything is in order *)

\* b is what wallet w holds once everything pending is completed.
Due(w, b) ==
    /\ \A k \in Keys : Pending(k) /\ transfers[k].dst = w => b = balance[w] + transfers[k].amt
    /\ (\A k \in Keys : Pending(k) => transfers[k].dst # w) => b = balance[w]

NonePending == \A k \in Keys : ~Pending(k)

\* A call that is about to rewrite the cached balance of w.
Rewrites(c, w) ==
    \/ pc[c] = "cacheSrc" /\ w \in {req[c].src, req[c].dst}
    \/ pc[c] = "cacheDst" /\ w = req[c].dst

\* What a call has read is what Circle still holds until it sends; what it will write is
\* what the wallets will hold.
CalmCall(c) ==
    /\ Running(c) /\ pc[c] \notin {"cacheSrc", "cacheDst"} => NonePending
    /\ pc[c] \in {"readSrc", "readDst", "send"} =>
        transfers[req[c].key] = NoTransfer /\ Known(req[c].src)
    /\ pc[c] \in {"readDst", "send", "store"} => srcSeen[c] = balance[req[c].src]
    /\ pc[c] = "send" /\ req[c].kind # "debit" => dstSeen[c] = balance[req[c].dst]
    /\ pc[c] = "cacheSrc" =>
        /\ req[c].kind \in {"debit", "transfer"} /\ req[c].src \in linked
        /\ req[c].src # req[c].dst
        /\ Due(req[c].src, srcSeen[c] - req[c].amt)
        /\ req[c].kind = "transfer" /\ req[c].dst # Master =>
            Due(req[c].dst, dstSeen[c] + req[c].amt)
    /\ pc[c] = "cacheDst" => Due(req[c].dst, dstSeen[c] + req[c].amt)

OneRunning == \A c, d \in Calls : Running(c) /\ Running(d) => c = d
OnePending == \A j, k \in Keys : Pending(j) /\ Pending(k) => j = k

CacheDue ==
    \A w \in linked :
        \/ cached[w] = NotCached \/ Due(w, cached[w])
        \/ \E c \in Calls : Rewrites(c, w)

CalmInv ==
    /\ \A w \in Consumers \ linked : cached[w] = NotCached
    /\ Orderly => OneRunning /\ OnePending /\ CacheDue /\ \A c \in Calls : CalmCall(c)

\* The amounts a call has to do with.
LEMMA CallNumbers ==
    ASSUME TypeOK, CallsOK, NEW c \in Calls, pc[c] # "idle"
    PROVE  /\ req[c] \in Requests /\ req[c].kind \in RequestKinds /\ req[c].key \in Keys
           /\ req[c].src \in Wallets /\ req[c].dst \in Wallets /\ req[c].amt \in Nat
           /\ srcSeen[c] \in Nat /\ dstSeen[c] \in Nat
BY RequestTyped DEF TypeOK, CallsOK, CallOK

LEMMA WalletTyped ==
    ASSUME TypeOK
    PROVE  /\ balance \in [Wallets -> Nat] /\ linked \subseteq Consumers
           /\ \A w \in linked : w \in Wallets /\ w # Master
           /\ \A w \in Consumers : w \in Wallets /\ w # Master
BY LedgerAssumption DEF TypeOK, LedgerTypeOK, Wallets

\* Without anything pending, what is due is what is there.
LEMMA DueNow ==
    ASSUME NonePending, NEW w, NEW b
    PROVE  Due(w, b) <=> b = balance[w]
BY DEF NonePending, Due

\* A ledger that has not moved owes what it owed.
LEMMA DueStays ==
    ASSUME UNCHANGED ledgerVars
    PROVE  /\ \A w \in Wallets, b \in Nat : Due(w, b) => Due(w, b)'
           /\ NonePending => NonePending'
           /\ OnePending => OnePending'
BY DEF ledgerVars, Due, NonePending, OnePending, Pending

\* A pending transfer completes: what was due is there.
LEMMA DueCompleted ==
    ASSUME TypeOK, OnePending, NEW k \in Keys, Complete(k)
    PROVE  /\ \A w \in Wallets, b \in Nat : Due(w, b) => Due(w, b)'
           /\ NonePending'
           /\ OnePending'
<1>1. transfers[k] \in Transfer /\ Pending(k)
  BY DEF Complete, Pending, TypeOK, LedgerTypeOK
<1>2. /\ balance \in [Wallets -> Nat] /\ transfers \in [Keys -> Transfer \cup {NoTransfer}]
      /\ transfers[k].dst \in Wallets /\ transfers[k].amt \in Nat
  BY <1>1 DEF Transfer, TypeOK, LedgerTypeOK
<1>3. transfers'[k].state = "complete"
  BY <1>1, <1>2 DEF Complete, Transfer
<1>4. \A j \in Keys \ {k} : transfers'[j] = transfers[j] /\ ~Pending(j)
  BY <1>1, <1>2 DEF Complete, OnePending
<1>5. NonePending'
  BY <1>3, <1>4 DEF NonePending, Pending
<1>6. OnePending'
  BY <1>5 DEF NonePending, OnePending
<1>7. ASSUME NEW w \in Wallets, NEW b \in Nat, Due(w, b) PROVE Due(w, b)'
  <2>1. balance' = [balance EXCEPT ![transfers[k].dst] = balance[transfers[k].dst] + transfers[k].amt]
    BY DEF Complete, Credited
  <2>2. CASE transfers[k].dst = w
    <3>1. b = balance[w] + transfers[k].amt
      BY <1>1, <1>7, <2>2 DEF Due
    <3>2. balance'[w] = b
      BY <1>2, <2>1, <2>2, <3>1
    <3> QED BY <1>5, <3>2 DEF Due, NonePending
  <2>3. CASE transfers[k].dst # w
    <3>1. b = balance[w]
      BY <1>4, <1>7, <2>3 DEF Due
    <3>2. balance'[w] = b
      BY <1>2, <2>1, <2>3, <3>1
    <3> QED BY <1>5, <3>2 DEF Due, NonePending
  <2> QED BY <2>2, <2>3
<1> QED BY <1>5, <1>6, <1>7

\* A transfer into an orderly ledger: it moves the amount, now or when it is completed,
\* or it moves nothing.
LEMMA DueSent ==
    ASSUME TypeOK, NonePending, NEW k \in Keys, NEW src \in Wallets, NEW dst \in Wallets,
           NEW amt \in Nat, src # dst, transfers[k] = NoTransfer,
           NEW state \in MovedStates \cup RefusedStates, Execute(k, src, dst, amt, state)
    PROVE  /\ OnePending' /\ transfers'[k].state = state
           /\ state \in RefusedStates => balance' = balance /\ NonePending'
           /\ state \in MovedStates =>
                \A w \in Wallets, b \in Nat :
                    /\ w \notin {src, dst} /\ b = balance[w] => Due(w, b)'
                    /\ w = src /\ b = balance[w] - amt => Due(w, b)'
                    /\ w = dst /\ b = balance[w] + amt => Due(w, b)'
<1>1. /\ balance \in [Wallets -> Nat] /\ transfers \in [Keys -> Transfer \cup {NoTransfer}]
  BY DEF TypeOK, LedgerTypeOK
<1>2. /\ \A j \in Keys \ {k} : transfers'[j] = transfers[j]
      /\ transfers'[k] = [src |-> src, dst |-> dst, amt |-> amt, state |-> state]
  BY <1>1 DEF Execute
<1>3. \A j \in Keys \ {k} : ~Pending(j)'
  BY <1>2 DEF NonePending, Pending
<1>4. OnePending'
  BY <1>3 DEF OnePending
<1>5. transfers'[k].state = state /\ transfers'[k].dst = dst /\ transfers'[k].amt = amt
  BY <1>2
<1>6. ASSUME state \in RefusedStates PROVE balance' = balance /\ NonePending'
  <2>1. state \notin MovedStates /\ state # "complete" /\ state # "pending"
    BY <1>6 DEF RefusedStates, MovedStates
  <2> QED BY <1>3, <1>5, <2>1 DEF Execute, NonePending, Pending
<1>7. ASSUME state \in MovedStates, NEW w \in Wallets, NEW b \in Nat
      PROVE  /\ w \notin {src, dst} /\ b = balance[w] => Due(w, b)'
             /\ w = src /\ b = balance[w] - amt => Due(w, b)'
             /\ w = dst /\ b = balance[w] + amt => Due(w, b)'
  <2>1. CASE state = "complete"
    <3>1. balance' = Credited(Debited(balance, src, amt), dst, amt)
      BY <2>1 DEF Execute
    <3>2. /\ balance'[src] = balance[src] - amt
          /\ balance'[dst] = balance[dst] + amt
          /\ \A v \in Wallets \ {src, dst} : balance'[v] = balance[v]
      BY <1>1, <3>1 DEF Credited, Debited
    <3>3. NonePending'
      BY <1>3, <1>5, <2>1 DEF NonePending, Pending
    <3> QED BY <3>2, <3>3 DEF Due, NonePending
  <2>2. CASE state = "pending"
    <3>1. balance' = Debited(balance, src, amt)
      BY <2>2 DEF Execute
    <3>2. /\ balance'[src] = balance[src] - amt
          /\ \A v \in Wallets \ {src} : balance'[v] = balance[v]
      BY <1>1, <3>1 DEF Debited
    <3>3. \A j \in Keys : Pending(j)' => j = k
      BY <1>3
    <3>4. transfers'[k] # NoTransfer /\ Pending(k)'
      <4>1. transfers'[k] \in Transfer
        BY <1>2 DEF Transfer, TransferStates, MovedStates
      <4> QED BY <1>5, <2>2, <4>1, NoTransferAssumption DEF Pending
    <3>5. CASE w = dst
      BY <1>5, <3>2, <3>3, <3>4, <3>5 DEF Due
    <3>6. CASE w # dst
      BY <1>5, <3>2, <3>3, <3>6 DEF Due
    <3> QED BY <3>5, <3>6
  <2> QED BY <1>7, <2>1, <2>2 DEF MovedStates
<1> QED BY <1>4, <1>5, <1>6, <1>7

\* What is left to show of a step of call c in order, if the others wait or are done.
LEMMA CalmOwn ==
    ASSUME TypeOK, NEW c \in Calls, \A d \in Calls \ {c} : ~Running(d),
           \A d \in Calls \ {c} : Still(d), CalmCall(c)'
    PROVE  OneRunning' /\ \A d \in Calls : CalmCall(d)'
<1>1. \A d \in Calls \ {c} : ~Running(d)'
  BY DEF Still, Running
<1>2. \A d \in Calls \ {c} : CalmCall(d)'
  BY <1>1 DEF CalmCall, Running
<1> QED BY <1>1, <1>2 DEF OneRunning

\* When no call runs, or one that writes no balance, what is cached is exact.
LEMMA ExactNow ==
    ASSUME CacheDue, NonePending, \A c \in Calls : pc[c] \notin {"cacheSrc", "cacheDst"}
    PROVE  \A w \in linked : cached[w] \in {NotCached, balance[w]}
BY DueNow DEF CacheDue, Rewrites

\* ... and stays due as long as the ledger does not move and nothing is written.
LEMMA CacheStays ==
    ASSUME TypeOK, CacheDue, UNCHANGED <<ledgerVars, tableVars>>,
           \A c \in Calls : pc[c] \notin {"cacheSrc", "cacheDst"}
    PROVE  CacheDue'
<1> SUFFICES ASSUME NEW w \in linked', NEW b, b = cached'[w], b # NotCached
             PROVE  Due(w, b)'
  BY DEF CacheDue, Due
<1>1. w \in linked /\ cached[w] = b /\ Due(w, b)
  BY DEF tableVars, CacheDue, Rewrites
<1>2. w \in Wallets /\ b \in Nat
  BY <1>1, WalletTyped DEF TypeOK
<1> QED BY <1>1, <1>2, DueStays

\* A call begins.
LEMMA CalmStart ==
    ASSUME TypeOK, CallsOK, CalmInv, Orderly, NEW c \in Calls, NEW r \in Requests, Start(c, r)
    PROVE  OneRunning' /\ OnePending' /\ CacheDue' /\ \A d \in Calls : CalmCall(d)'
<1>1. InTurn(r) /\ pc[c] = "idle" /\ UNCHANGED <<ledgerVars, tableVars>>
  BY DEF Start
<1>2. NonePending /\ \A d \in Calls : ~Running(d)
  BY <1>1 DEF InTurn, NonePending
<1>3. OnePending' /\ NonePending'
  BY <1>1, <1>2, DueStays DEF CalmInv
<1>4. CacheDue'
  BY <1>1, <1>2, CacheStays DEF CalmInv, Running
<1>5. \A d \in Calls \ {c} : Still(d)
  BY DEF TypeOK, Start, Finish, Goto, Still
<1>6. req'[c] = r /\ r.kind \in RequestKinds
  BY RequestTyped DEF TypeOK, Start
<1>7. CalmCall(c)'
  <2>1. CASE pc'[c] = "done"
    BY <2>1 DEF CalmCall, Running
  <2>2. CASE pc'[c] = FirstStep(r.kind)
    <3>1. /\ FirstStep(r.kind) \in {"lookup", "readSrc", "probe", "cacheLookup", "fetch"}
          /\ FirstStep(r.kind) = "readSrc" => r.kind \in Movements
      BY <1>6 DEF FirstStep, RequestKinds, Movements
    <3>2. r.kind \in Movements => transfers[r.key] = NoTransfer /\ Known(r.src)
      BY <1>1 DEF InTurn, Start, Movements
    <3> QED BY <1>1, <1>3, <1>6, <2>2, <3>1, <3>2 DEF CalmCall, ledgerVars, tableVars, Known
  <2> QED BY <2>1, <2>2 DEF Start, Finish, Goto, TypeOK
<1> QED BY <1>2, <1>3, <1>4, <1>5, <1>7, CalmOwn

\* A call that runs in order runs alone.
LEMMA CalmAlone ==
    ASSUME TypeOK, CalmInv, Orderly, NEW c \in Calls, CallStep(c)
    PROVE  /\ Running(c) /\ CalmCall(c)
           /\ \A d \in Calls \ {c} : ~Running(d) /\ Still(d)
           /\ pc[c] \notin {"cacheSrc", "cacheDst"} => NonePending
<1>1. Running(c)
  BY DEF CallStep, LookupWallet, CreateWallet, LinkWallet, ReadSource, ReadDestination,
     SendTransfer, CacheSource, CacheDestination, LookupBalance, FetchBalance, StoreBalance,
     CheckTransfer, Running
<1>2. \A d \in Calls \ {c} : ~Running(d)
  BY <1>1 DEF CalmInv, OneRunning
<1>3. ASSUME NEW d \in Calls \ {c} PROVE Still(d)
  <2>1. CASE LookupWallet(c) \/ CreateWallet(c) \/ LinkWallet(c) \/ ReadSource(c)
             \/ ReadDestination(c) \/ SendTransfer(c) \/ CheckTransfer(c)
    BY <2>1 DEF Still, TypeOK, LookupWallet, CreateWallet, LinkWallet, ReadSource,
       ReadDestination, SendTransfer, CheckTransfer, Finish, Goto
  <2>2. CASE CacheSource(c) \/ CacheDestination(c) \/ LookupBalance(c) \/ FetchBalance(c)
             \/ StoreBalance(c)
    BY <2>2 DEF Still, TypeOK, CacheSource, CacheDestination, LookupBalance, FetchBalance,
       StoreBalance, Finish, Goto
  <2> QED BY <2>1, <2>2 DEF CallStep
<1>4. CalmCall(c)
  BY DEF CalmInv
<1> QED BY <1>1, <1>2, <1>3, <1>4 DEF CalmCall

\* Steps that only read.
LEMMA CalmReads ==
    ASSUME TypeOK, CallsOK, CalmInv, Orderly, NEW c \in Calls,
           \/ LookupWallet(c) \/ CreateWallet(c) \/ ReadSource(c) \/ ReadDestination(c)
           \/ LookupBalance(c) \/ FetchBalance(c)
    PROVE  OneRunning' /\ OnePending' /\ CacheDue' /\ \A d \in Calls : CalmCall(d)'
<1>1. CallStep(c) /\ UNCHANGED <<ledgerVars, tableVars>> /\ req' = req
  BY DEF CallStep, LookupWallet, CreateWallet, ReadSource, ReadDestination, LookupBalance,
     FetchBalance
<1>2. pc[c] \notin {"cacheSrc", "cacheDst"}
  BY DEF LookupWallet, CreateWallet, ReadSource, ReadDestination, LookupBalance, FetchBalance
<1>3. /\ NonePending /\ CalmCall(c)
      /\ \A d \in Calls \ {c} : ~Running(d) /\ Still(d)
  BY <1>1, <1>2, CalmAlone
<1>4. NonePending' /\ OnePending'
  BY <1>1, <1>3, DueStays DEF CalmInv
<1>5. CacheDue'
  BY <1>1, <1>2, <1>3, CacheStays DEF CalmInv, Running
<1>6. balance' = balance /\ transfers' = transfers /\ linked' = linked
  BY <1>1 DEF ledgerVars, tableVars
<1>7. CalmCall(c)'
  <2>1. CASE LookupWallet(c) \/ CreateWallet(c) \/ LookupBalance(c)
    BY <1>4, <2>1 DEF LookupWallet, CreateWallet, LookupBalance, Finish, Goto, CalmCall, Running,
       TypeOK
  <2>2. CASE ReadSource(c)
    <3>1. pc'[c] \in {"done", "send", "readDst"} /\ (pc'[c] = "send" => req[c].kind = "debit")
      BY <2>2 DEF ReadSource, Finish, Goto, TypeOK
    <3>2. srcSeen'[c] = balance[req[c].src] /\ pc[c] = "readSrc"
      BY <2>2 DEF ReadSource, TypeOK
    <3> QED BY <1>1, <1>3, <1>4, <1>6, <3>1, <3>2 DEF CalmCall, Running, Known
  <2>3. CASE ReadDestination(c)
    <3>1. /\ pc'[c] = "send" /\ pc[c] = "readDst" /\ dstSeen'[c] = balance[req[c].dst]
          /\ srcSeen' = srcSeen
      BY <2>3 DEF ReadDestination, Goto, TypeOK
    <3> QED BY <1>1, <1>3, <1>4, <1>6, <3>1 DEF CalmCall, Running, Known
  <2>4. CASE FetchBalance(c)
    <3>1. pc'[c] \in {"done", "store"} /\ srcSeen'[c] = balance[req[c].src]
      BY <2>4 DEF FetchBalance, Goto, TypeOK
    <3> QED BY <1>1, <1>4, <1>6, <3>1 DEF CalmCall, Running
  <2> QED BY <2>1, <2>2, <2>3, <2>4
<1> QED BY <1>3, <1>4, <1>5, <1>7, CalmOwn

\* A new row has nothing cached.
LEMMA CalmLink ==
    ASSUME TypeOK, CallsOK, CalmInv, Orderly, NEW c \in Calls, LinkWallet(c)
    PROVE  OneRunning' /\ OnePending' /\ CacheDue' /\ \A d \in Calls : CalmCall(d)'
<1>1. CallStep(c) /\ UNCHANGED <<ledgerVars, cached>> /\ pc[c] = "link" /\ pc'[c] = "done"
  BY DEF CallStep, LinkWallet, Finish, Goto, TypeOK
<1>2. /\ NonePending /\ \A d \in Calls \ {c} : ~Running(d) /\ Still(d)
  BY <1>1, CalmAlone
<1>3. OnePending' /\ NonePending'
  BY <1>1, <1>2, DueStays DEF CalmInv
<1>4. CalmCall(c)'
  BY <1>1 DEF CalmCall, Running
<1>5. linked' \subseteq linked \cup {req[c].src} /\ req[c].src \in Consumers
  BY <1>1, CallNumbers, RequestTyped DEF LinkWallet, CallsOK, CallOK
<1>6. ASSUME NEW w \in linked', NEW b, b = cached'[w], b # NotCached
      PROVE  Due(w, b)'
  <2>1. w \in linked
    BY <1>1, <1>5, <1>6 DEF CalmInv
  <2>2. b = balance[w]
    BY <1>1, <1>2, <1>6, <2>1, ExactNow DEF CalmInv, Running
  <2>3. balance'[w] = balance[w]
    BY <1>1 DEF ledgerVars
  <2> QED BY <1>3, <2>2, <2>3 DEF Due, NonePending
<1>7. CacheDue'
  BY <1>6 DEF CacheDue, Due
<1> QED BY <1>2, <1>3, <1>4, <1>7, CalmOwn

\* The probe moves a cent of Noba's to Noba, now or later.
LEMMA CalmCheck ==
    ASSUME TypeOK, CallsOK, CalmInv, Orderly, NEW c \in Calls, CheckTransfer(c)
    PROVE  OneRunning' /\ OnePending' /\ CacheDue' /\ \A d \in Calls : CalmCall(d)'
<1>1. CallStep(c) /\ UNCHANGED tableVars /\ pc[c] = "probe" /\ pc'[c] = "done"
  BY DEF CallStep, CheckTransfer, Finish, Goto, TypeOK
<1>2. /\ NonePending /\ \A d \in Calls \ {c} : ~Running(d) /\ Still(d)
  BY <1>1, CalmAlone
<1> DEFINE k == req[c].key
<1>3. k \in Keys /\ SendProbe(k)
  BY <1>1, CallNumbers DEF CheckTransfer
<1> HIDE DEF k
<1>4. \A j \in Keys : Pending(j)' => j = k /\ transfers'[j].dst = Master
  <2>1. CASE UNCHANGED ledgerVars
    BY <1>2, <2>1 DEF NonePending, Pending, ledgerVars
  <2>2. ASSUME NEW state \in MovedStates \cup RefusedStates,
               Execute(k, Master, Master, ProbeAmount, state)
        PROVE  \A j \in Keys : Pending(j)' => j = k /\ transfers'[j].dst = Master
    <3>1. /\ \A j \in Keys \ {k} : transfers'[j] = transfers[j]
          /\ transfers'[k].dst = Master
      BY <1>3, <2>2 DEF Execute, TypeOK, LedgerTypeOK
    <3> QED BY <1>2, <3>1 DEF NonePending, Pending
  <2> QED BY <1>3, <2>1, <2>2 DEF SendProbe, CircleTransfer
<1>5. OnePending'
  BY <1>4 DEF OnePending
<1>6. CalmCall(c)'
  BY <1>1 DEF CalmCall, Running
<1>7. ASSUME NEW w \in linked', NEW b, b = cached'[w], b # NotCached
      PROVE  Due(w, b)'
  <2>1. w \in linked /\ w \in Consumers /\ w # Master /\ cached[w] = b
    BY <1>1, <1>7, WalletTyped DEF tableVars, TypeOK
  <2>2. b = balance[w]
    BY <1>1, <1>2, <1>7, <2>1, ExactNow DEF CalmInv, Running
  <2>3. balance'[w] = balance[w]
    BY <1>3, <2>1, ProbeMovesNothing
  <2> QED BY <1>4, <2>1, <2>2, <2>3 DEF Due
<1>8. CacheDue'
  BY <1>7 DEF CacheDue, Due
<1> QED BY <1>2, <1>5, <1>6, <1>8, CalmOwn

\* A transfer is sent: it finds the funds that were read, and what the service goes on to
\* cache, if anything, is what it has made due.
LEMMA CalmSend ==
    ASSUME TypeOK, CallsOK, TransferContract, CalmInv, Orderly, NEW c \in Calls, SendTransfer(c)
    PROVE  OneRunning' /\ OnePending' /\ CacheDue' /\ \A d \in Calls : CalmCall(d)'
<1> DEFINE r == req[c]
           after == AfterSend(r, ClientStatus(transfers'[r.key]))
<1>1. /\ CallStep(c) /\ UNCHANGED <<tableVars, req, srcSeen, dstSeen>> /\ pc[c] = "send"
      /\ CircleTransfer(r.key, r.src, r.dst, r.amt) /\ pc'[c] = after
  BY DEF CallStep, SendTransfer, Goto, TypeOK
<1>2. /\ NonePending /\ CalmCall(c) /\ \A d \in Calls \ {c} : ~Running(d) /\ Still(d)
  BY <1>1, CalmAlone
<1>3. /\ r \in Requests /\ r.kind \in Movements /\ r.key \in Keys /\ r.src \in Wallets
      /\ r.dst \in Wallets /\ r.amt \in Nat /\ srcSeen[c] >= r.amt
      /\ srcSeen[c] \in Nat /\ dstSeen[c] \in Nat
  BY <1>1, CallNumbers DEF CallsOK, CallOK
<1>4. /\ transfers[r.key] = NoTransfer /\ Known(r.src)
      /\ srcSeen[c] = balance[r.src] /\ (r.kind # "debit" => dstSeen[c] = balance[r.dst])
  BY <1>1, <1>2 DEF CalmCall
<1>5. /\ r.kind = "debit" => r.dst = Master
      /\ r.kind = "credit" => r.src = Master
      /\ r.kind = "transfer" => r.src # r.dst
      /\ r.kind \in {"debit", "credit", "transfer"}
  BY <1>3, MovementAssumption DEF TransferContract, MovesAreApart, Movements
<1>6. PICK state \in MovedStates \cup RefusedStates :
            Execute(r.key, r.src, r.dst, r.amt, state)
  BY <1>1, <1>4 DEF CircleTransfer
<1>7. /\ transfers'[r.key] = [src |-> r.src, dst |-> r.dst, amt |-> r.amt, state |-> state]
      /\ transfers'[r.key].state = state
      /\ \A j \in Keys \ {r.key} : transfers'[j] = transfers[j]
  BY <1>3, <1>6 DEF Execute, TypeOK, LedgerTypeOK
<1>8. state # "insufficient_funds"
  BY <1>3, <1>4, <1>6 DEF Execute, TypeOK, LedgerTypeOK
<1>9. /\ state \in MovedStates => ClientStatus(transfers'[r.key]) = "SUCCESS"
      /\ state \notin MovedStates => ClientStatus(transfers'[r.key]) = "TRANSFER_FAILED"
                                     /\ state \in RefusedStates
  BY <1>7, <1>8 DEF ClientStatus, MovedStates, RefusedStates
<1> HIDE DEF r
<1>10. /\ after = "cacheSrc" <=> state \in MovedStates /\ r.kind # "credit" /\ r.src # Master
       /\ after = "cacheDst" <=> /\ state \in MovedStates /\ r.dst # Master
                                 /\ r.kind = "credit" \/ (r.kind = "transfer" /\ r.src = Master)
       /\ after \in {"cacheSrc", "cacheDst", "done"}
  <2>1. CASE state \in MovedStates
    BY <1>5, <1>9, <2>1 DEF AfterSend, AfterSource, Recaches
  <2>2. CASE state \notin MovedStates
    BY <1>5, <1>9, <2>2 DEF AfterSend, AfterSource, Recaches
  <2> QED BY <2>1, <2>2
<1> HIDE DEF after
<1>11. \A w \in linked : cached[w] \in {NotCached, balance[w]}
  BY <1>1, <1>2, ExactNow DEF CalmInv, Running
<1>12. req' = req /\ linked' = linked /\ cached' = cached /\ srcSeen' = srcSeen /\ dstSeen' = dstSeen
  BY <1>1 DEF tableVars
<1>13. OnePending'
  BY <1>2, <1>7 DEF NonePending, OnePending, Pending
<1>14. CASE state \notin MovedStates
  <2>1. balance' = balance /\ NonePending'
    BY <1>2, <1>6, <1>7, <1>9, <1>14 DEF Execute, NonePending, Pending, MovedStates
  <2>2. CalmCall(c)'
    BY <1>1, <1>10, <1>14, <2>1 DEF CalmCall, Running
  <2>3. CacheDue'
    BY <1>11, <1>12, <2>1 DEF CacheDue, Due, NonePending
  <2> QED BY <1>2, <1>13, <2>2, <2>3, CalmOwn
<1>15. CASE state \in MovedStates /\ r.src # r.dst
  <2>1. \A w \in Wallets, b \in Nat :
            /\ w \notin {r.src, r.dst} /\ b = balance[w] => Due(w, b)'
            /\ w = r.src /\ b = balance[w] - r.amt => Due(w, b)'
            /\ w = r.dst /\ b = balance[w] + r.amt => Due(w, b)'
    BY <1>2, <1>3, <1>4, <1>6, <1>15, DueSent
  <2>2. CalmCall(c)'
    <3>0. PICK u \in Wallets, v \in Wallets : u = r.src /\ v = r.dst
      BY <1>3
    <3>1. CASE after = "cacheSrc"
      <4>1. r.src \in linked
        BY <1>4, <1>10, <3>1 DEF Known
      <4>2. PICK b \in Nat : b = srcSeen[c] - r.amt
        BY <1>3
      <4>3. PICK d \in Nat : d = dstSeen[c] + r.amt
        BY <1>3
      <4>4. Due(u, b)'
        BY <1>4, <2>1, <3>0, <4>2
      <4>5. r.kind = "transfer" => Due(v, d)'
        BY <1>4, <2>1, <3>0, <4>3
      <4> QED BY <1>1, <3>0, <1>5, <1>10, <1>12, <1>15, <3>1, <4>1, <4>2, <4>3, <4>4, <4>5
              DEF CalmCall, Running, Due, r
    <3>2. CASE after = "cacheDst"
      <4>1. PICK d \in Nat : d = dstSeen[c] + r.amt
        BY <1>3
      <4>2. Due(v, d)'
        BY <1>4, <1>5, <1>10, <2>1, <3>0, <3>2, <4>1
      <4> QED BY <1>1, <3>0, <1>12, <3>2, <4>1, <4>2 DEF CalmCall, Running, Due, r
    <3>3. CASE after = "done"
      BY <1>1, <3>3 DEF CalmCall, Running
    <3> QED BY <1>10, <3>1, <3>2, <3>3
  <2>3. ASSUME NEW w \in linked', NEW b, b = cached'[w], b # NotCached
        PROVE  Due(w, b)' \/ Rewrites(c, w)'
    <3>1. w \in linked /\ b = balance[w] /\ w \in Wallets /\ w # Master /\ b \in Nat
      BY <1>11, <1>12, <2>3, WalletTyped
    <3>2. CASE w \notin {r.src, r.dst}
      BY <2>1, <3>1, <3>2
    <3>3. CASE w = r.src
      BY <1>1, <1>5, <1>10, <1>12, <1>15, <3>1, <3>3 DEF Rewrites, r
    <3>4. CASE w = r.dst
      <4>1. after = "cacheSrc" \/ after = "cacheDst"
        BY <1>5, <1>10, <1>15, <3>1, <3>4
      <4> QED BY <1>1, <1>12, <3>4, <4>1 DEF Rewrites, r
    <3> QED BY <3>2, <3>3, <3>4
  <2>4. CacheDue'
    BY <2>3 DEF CacheDue, Due
  <2> QED BY <1>2, <1>13, <2>2, <2>4, CalmOwn
<1>16. CASE state \in MovedStates /\ r.src = r.dst
  <2>1. r.src = Master /\ r.dst = Master /\ after = "done"
    BY <1>5, <1>10, <1>16
  <2>2. CalmCall(c)'
    BY <1>1, <2>1 DEF CalmCall, Running
  <2>3. ASSUME NEW w \in Consumers PROVE balance'[w] = balance[w]
    <3>1. w \in Wallets /\ w # Master /\ Master \in Wallets /\ balance \in [Wallets -> Nat]
      BY WalletTyped DEF Wallets
    <3>2. Debited(balance, Master, r.amt)[w] = balance[w]
      BY <3>1 DEF Debited
    <3>3. Credited(Debited(balance, Master, r.amt), Master, r.amt)[w] = balance[w]
      BY <3>1 DEF Debited, Credited
    <3> QED BY <1>6, <1>16, <2>1, <3>2, <3>3 DEF Execute, MovedStates
  <2>4. ASSUME NEW w \in linked', NEW b, b = cached'[w], b # NotCached
        PROVE  Due(w, b)'
    <3>1. w \in linked /\ b = balance[w] /\ w \in Consumers /\ w # Master
      BY <1>11, <1>12, <2>4, WalletTyped
    <3>2. \A j \in Keys : Pending(j)' => transfers'[j].dst # w
      BY <1>2, <1>7, <2>1, <3>1 DEF NonePending, Pending
    <3> QED BY <2>3, <3>1, <3>2 DEF Due
  <2>5. CacheDue'
    BY <2>4 DEF CacheDue, Due
  <2> QED BY <1>2, <1>13, <2>2, <2>5, CalmOwn
<1> QED BY <1>14, <1>15, <1>16

\* A balance is written: the row of w holds what is due, the others are as they were.
LEMMA CalmWrite ==
    ASSUME TypeOK, CacheDue, UNCHANGED <<ledgerVars, linked>>, NEW c \in Calls,
           \A d \in Calls \ {c} : ~Running(d),
           NEW w \in Wallets, NEW b \in Nat, Due(w, b),
           cached' = [cached EXCEPT ![w] = b] \/ (w \notin linked /\ cached' = cached),
           \A v \in linked \ {w} : Rewrites(c, v) => Rewrites(c, v)'
    PROVE  CacheDue'
<1>1. Due(w, b)'
  BY DueStays
<1>2. ASSUME NEW v \in linked', NEW x, x = cached'[v], x # NotCached
      PROVE  Due(v, x)' \/ Rewrites(c, v)'
  <2>1. v \in linked /\ v \in Wallets /\ v \in Consumers
    BY <1>2, WalletTyped
  <2>2. CASE v = w
    BY <1>1, <1>2, <2>1, <2>2 DEF TypeOK
  <2>3. CASE v # w
    <3>1. x = cached[v] /\ x \in Nat
      BY <1>2, <2>1, <2>3 DEF TypeOK
    <3>2. Due(v, x) \/ \E d \in Calls : Rewrites(d, v)
      BY <1>2, <2>1, <3>1 DEF CacheDue
    <3>3. \A d \in Calls \ {c} : ~Rewrites(d, v)
      BY DEF Rewrites, Running
    <3> QED BY <2>1, <2>3, <3>1, <3>2, <3>3, DueStays
  <2> QED BY <2>2, <2>3
<1> QED BY <1>2 DEF CacheDue, Due

LEMMA CalmCacheSource ==
    ASSUME TypeOK, CallsOK, TransferContract, CalmInv, Orderly, NEW c \in Calls, CacheSource(c)
    PROVE  OneRunning' /\ OnePending' /\ CacheDue' /\ \A d \in Calls : CalmCall(d)'
<1>1. /\ CallStep(c) /\ UNCHANGED <<ledgerVars, linked, req, srcSeen, dstSeen>> /\ pc[c] = "cacheSrc"
  BY DEF CallStep, CacheSource
<1>2. /\ CalmCall(c) /\ \A d \in Calls \ {c} : ~Running(d) /\ Still(d)
  BY <1>1, CalmAlone
<1>3. /\ req[c].src \in Wallets /\ req[c].dst \in Wallets /\ req[c].amt \in Nat
      /\ srcSeen[c] >= req[c].amt /\ srcSeen[c] \in Nat /\ dstSeen[c] \in Nat
  BY <1>1, CallNumbers DEF CallsOK, CallOK
<1>4. PICK u \in Wallets, v \in Wallets, b \in Nat, x \in Nat :
        /\ u = req[c].src /\ v = req[c].dst
        /\ b = srcSeen[c] - req[c].amt /\ x = dstSeen[c] + req[c].amt
  BY <1>3
<1>5. /\ req[c].kind \in {"debit", "transfer"} /\ u \in linked /\ u # v /\ Due(u, b)
      /\ req[c].kind = "transfer" /\ v # Master => Due(v, x)
      /\ req[c].kind = "debit" => v = Master
  BY <1>1, <1>2, <1>4, CallNumbers, MovementAssumption DEF CalmCall
<1>6. cached' = [cached EXCEPT ![u] = b] /\ pc' = [pc EXCEPT ![c] = AfterSource(req[c])]
  <2>1. LeftAtSource(c) = b
    BY <1>1, <1>3, <1>4, CallNumbers, LeftTyped
       DEF CallsOK, CallOK, TransferContract, NoHalfCents, LeftAtSource
  <2> QED BY <1>1, <1>4, <1>5, <2>1 DEF CacheSource, Written, NotWritten, Goto
<1>7. /\ pc'[c] = "cacheDst" <=> req[c].kind = "transfer" /\ v # Master
      /\ pc'[c] \in {"cacheDst", "done"}
  BY <1>4, <1>6 DEF AfterSource, TypeOK
<1>8. OnePending'
  BY <1>1, DueStays DEF CalmInv
<1>9. CalmCall(c)'
  <2>1. CASE pc'[c] = "done"
    BY <2>1 DEF CalmCall, Running
  <2>2. CASE pc'[c] = "cacheDst"
    <3>1. Due(v, x)'
      BY <1>1, <1>5, <1>7, <2>2, DueStays
    <3> QED BY <1>1, <1>4, <2>2, <3>1 DEF CalmCall, Running, Due
  <2> QED BY <1>7, <2>1, <2>2
<1>10. \A y \in linked \ {u} : Rewrites(c, y) => Rewrites(c, y)'
  <2> SUFFICES ASSUME NEW y \in linked, y # u, Rewrites(c, y) PROVE Rewrites(c, y)'
    OBVIOUS
  <2>1. y = v /\ y # Master
    BY <1>1, <1>4, WalletTyped DEF Rewrites
  <2> QED BY <1>1, <1>4, <1>5, <1>7, <2>1 DEF Rewrites
<1>11. CacheDue'
  BY <1>1, <1>2, <1>5, <1>6, <1>10, CalmWrite DEF CalmInv
<1> QED BY <1>2, <1>8, <1>9, <1>11, CalmOwn

LEMMA CalmCacheDestination ==
    ASSUME TypeOK, CallsOK, CalmInv, Orderly, NEW c \in Calls, CacheDestination(c)
    PROVE  OneRunning' /\ OnePending' /\ CacheDue' /\ \A d \in Calls : CalmCall(d)'
<1>1. /\ CallStep(c) /\ UNCHANGED <<ledgerVars, linked, req, srcSeen, dstSeen>>
      /\ pc[c] = "cacheDst" /\ pc'[c] = "done"
  BY DEF CallStep, CacheDestination, Goto, TypeOK
<1>2. /\ CalmCall(c) /\ \A d \in Calls \ {c} : ~Running(d) /\ Still(d)
  BY <1>1, CalmAlone
<1>3. PICK v \in Wallets, x \in Nat : v = req[c].dst /\ x = dstSeen[c] + req[c].amt
  BY <1>1, CallNumbers
<1>4. Due(v, x)
  BY <1>1, <1>2, <1>3 DEF CalmCall
<1>5. cached' = [cached EXCEPT ![v] = x] \/ (v \notin linked /\ cached' = cached)
  BY <1>3 DEF CacheDestination, Written, NotWritten
<1>6. \A y \in linked \ {v} : ~Rewrites(c, y)
  BY <1>1, <1>3 DEF Rewrites
<1>7. OnePending'
  BY <1>1, DueStays DEF CalmInv
<1>8. CalmCall(c)'
  BY <1>1 DEF CalmCall, Running
<1>9. CacheDue'
  BY <1>1, <1>2, <1>4, <1>5, <1>6, CalmWrite DEF CalmInv
<1> QED BY <1>2, <1>7, <1>8, <1>9, CalmOwn

LEMMA CalmStore ==
    ASSUME TypeOK, CallsOK, CalmInv, Orderly, NEW c \in Calls, StoreBalance(c)
    PROVE  OneRunning' /\ OnePending' /\ CacheDue' /\ \A d \in Calls : CalmCall(d)'
<1>1. /\ CallStep(c) /\ UNCHANGED <<ledgerVars, linked, req, srcSeen, dstSeen>>
      /\ pc[c] = "store" /\ pc'[c] = "done"
  BY DEF CallStep, StoreBalance, Goto, TypeOK
<1>2. /\ CalmCall(c) /\ NonePending /\ \A d \in Calls \ {c} : ~Running(d) /\ Still(d)
  BY <1>1, CalmAlone
<1>3. PICK u \in Wallets, b \in Nat : u = req[c].src /\ b = srcSeen[c]
  BY <1>1, CallNumbers
<1>4. Due(u, b)
  BY <1>1, <1>2, <1>3, DueNow DEF CalmCall
<1>5. cached' = [cached EXCEPT ![u] = b] \/ (u \notin linked /\ cached' = cached)
  BY <1>3 DEF StoreBalance, Written, NotWritten
<1>6. \A y \in linked \ {u} : ~Rewrites(c, y)
  BY <1>1 DEF Rewrites
<1>7. OnePending'
  BY <1>1, DueStays DEF CalmInv
<1>8. CalmCall(c)'
  BY <1>1 DEF CalmCall, Running
<1>9. CacheDue'
  BY <1>1, <1>2, <1>4, <1>5, <1>6, CalmWrite DEF CalmInv
<1> QED BY <1>2, <1>7, <1>8, <1>9, CalmOwn

\* Circle completes the transfer a call may still be writing down.
LEMMA CalmSettles ==
    ASSUME TypeOK, CallsOK, CalmInv, Orderly, NEW k \in Keys, CircleSettles(k)
    PROVE  OneRunning' /\ OnePending' /\ CacheDue' /\ \A d \in Calls : CalmCall(d)'
<1>1. Complete(k) /\ UNCHANGED <<tableVars, callVars>> /\ Pending(k)
  BY DEF CircleSettles, Complete
<1>2. /\ \A w \in Wallets, b \in Nat : Due(w, b) => Due(w, b)'
      /\ NonePending' /\ OnePending'
  BY <1>1, DueCompleted DEF CalmInv
<1>3. OneRunning'
  BY <1>1 DEF CalmInv, OneRunning, Running, callVars
<1>4. \A c \in Calls : pc[c] \in {"cacheSrc", "cacheDst"} \/ ~Running(c)
  BY <1>1 DEF CalmInv, CalmCall, NonePending
<1>5. ASSUME NEW c \in Calls PROVE CalmCall(c)'
  <2>1. CalmCall(c) /\ pc' = pc /\ req' = req /\ srcSeen' = srcSeen /\ dstSeen' = dstSeen
        /\ linked' = linked
    BY <1>1 DEF CalmInv, callVars, tableVars
  <2>2. CASE pc[c] \in {"cacheSrc", "cacheDst"}
    <3>1. /\ req[c].src \in Wallets /\ req[c].dst \in Wallets /\ req[c].amt \in Nat
          /\ pc[c] = "cacheSrc" => srcSeen[c] >= req[c].amt
          /\ srcSeen[c] \in Nat /\ dstSeen[c] \in Nat
      BY <2>2, CallNumbers DEF CallsOK, CallOK
    <3>2. PICK u \in Wallets, v \in Wallets, x \in Nat :
            u = req[c].src /\ v = req[c].dst /\ x = dstSeen[c] + req[c].amt
      BY <3>1
    <3>3. CASE pc[c] = "cacheSrc"
      <4>1. PICK b \in Nat : b = srcSeen[c] - req[c].amt
        BY <3>1, <3>3
      <4>2. Due(u, b)' /\ (req[c].kind = "transfer" /\ v # Master => Due(v, x)')
        BY <1>2, <2>1, <3>2, <3>3, <4>1 DEF CalmCall
      <4> QED BY <2>1, <3>2, <3>3, <4>1, <4>2 DEF CalmCall, Running, Due
    <3>4. CASE pc[c] = "cacheDst"
      <4>1. Due(v, x)'
        BY <1>2, <2>1, <3>2, <3>4 DEF CalmCall
      <4> QED BY <2>1, <3>2, <3>4, <4>1 DEF CalmCall, Running, Due
    <3> QED BY <2>2, <3>3, <3>4
  <2>3. CASE ~Running(c)
    BY <2>1, <2>3 DEF CalmCall, Running
  <2> QED BY <1>4, <2>2, <2>3
<1>6. ASSUME NEW w \in linked', NEW b, b = cached'[w], b # NotCached
      PROVE  Due(w, b)' \/ \E c \in Calls : Rewrites(c, w)'
  <2>1. w \in linked /\ w \in Wallets /\ w \in Consumers /\ cached[w] = b /\ b \in Nat
    BY <1>1, <1>6, WalletTyped DEF tableVars, TypeOK
  <2>2. Due(w, b) \/ \E c \in Calls : Rewrites(c, w)
    BY <1>6, <2>1 DEF CalmInv, CacheDue
  <2> QED BY <1>1, <1>2, <2>1, <2>2 DEF Rewrites, callVars
<1>7. CacheDue'
  BY <1>6 DEF CacheDue, Due
<1> QED BY <1>2, <1>3, <1>5, <1>7

\* Only rows have a cached balance.
LEMMA UnlinkedStay ==
    ASSUME TypeOK, [Next]_vars, \A w \in Consumers \ linked : cached[w] = NotCached
    PROVE  \A w \in Consumers \ linked' : cached'[w] = NotCached
<1>1. CASE cached' = cached
  BY <1>1, LinkedStays
<1>2. ASSUME NEW w, NEW b, Written(w, b) PROVE \A v \in Consumers \ linked : cached'[v] = NotCached
  BY <1>2 DEF Written, TypeOK
<1>3. CASE \E c \in Calls : CacheSource(c) \/ CacheDestination(c) \/ StoreBalance(c)
  BY <1>1, <1>2, <1>3, LinkedStays DEF CacheSource, CacheDestination, StoreBalance, NotWritten
<1>4. CASE ~(\E c \in Calls : CacheSource(c) \/ CacheDestination(c) \/ StoreBalance(c))
  BY <1>1, <1>4 DEF Next, Serves, CallStep, Start, LookupWallet, CreateWallet, LinkWallet, ReadSource,
     ReadDestination, SendTransfer, LookupBalance, FetchBalance, CheckTransfer, RequestFails,
     ResponseLost, Crash, CircleSettles, tableVars, vars
<1> QED BY <1>3, <1>4

LEMMA CalmStep ==
    TransferContract /\ TypeOK /\ CallsOK /\ CalmInv /\ [Next]_vars => CalmInv'
<1> SUFFICES ASSUME TransferContract, TypeOK, CallsOK, CalmInv, [Next]_vars, Orderly
             PROVE  OneRunning' /\ OnePending' /\ CacheDue' /\ \A d \in Calls : CalmCall(d)'
  BY UnlinkedStay DEF CalmInv, Next, Serves, vars, Orderly
<1>1. CASE \E c \in Calls, r \in Requests : Start(c, r)
  BY <1>1, CalmStart
<1>2. CASE \E c \in Calls : CallStep(c)
  BY <1>2, CalmReads, CalmLink, CalmCheck, CalmSend, CalmCacheSource, CalmCacheDestination,
     CalmStore DEF CallStep
<1>3. CASE \E k \in Keys : CircleSettles(k)
  BY <1>3, CalmSettles
<1>4. ~Crash /\ \A c \in Calls : ~RequestFails(c) /\ ~ResponseLost(c)
  BY DEF Crash, RequestFails, ResponseLost
<1>5. CASE UNCHANGED vars
  <2>1. UNCHANGED <<ledgerVars, tableVars, callVars>>
    BY <1>5 DEF vars
  <2> QED BY <2>1 DEF CalmInv, OneRunning, OnePending, CacheDue, CalmCall, Running, Pending,
             NonePending, Due, Rewrites, Known, ledgerVars, tableVars, callVars
<1> QED BY <1>1, <1>2, <1>3, <1>4, <1>5 DEF Next, Serves

\* One call at a time, without repetitions and faults: when nothing runs and nothing is
\* pending, what is cached of a balance is the balance, even if Circle completes a transfer
\* before or after the service has written down what it will come to.
THEOREM CalmCacheIsExact ==
    ASSUME TransferContract
    PROVE  Spec => []CacheExact
<1>1. TransferContract
  OBVIOUS
<1>2. Init => CalmInv
  <2> SUFFICES ASSUME Init PROVE CalmInv
    OBVIOUS
  <2>1. linked \subseteq Consumers /\ \A w \in Consumers : cached[w] = NotCached
    BY WalletsAssumption DEF Init
  <2>2. \A c \in Calls : ~Running(c)
    BY DEF Init, Running
  <2>3. \A k \in Keys : ~Pending(k)
    BY DEF Init, LedgerInit, Pending
  <2>4. OneRunning /\ OnePending
    BY <2>2, <2>3 DEF OneRunning, OnePending
  <2>5. CacheDue
    BY <2>1 DEF CacheDue
  <2>6. \A c \in Calls : CalmCall(c)
    BY <2>2 DEF CalmCall, Running
  <2> QED BY <2>1, <2>4, <2>5, <2>6 DEF CalmInv
<1>3. TypeOK /\ CallsOK /\ CalmInv /\ [Next]_vars => CalmInv'
  BY <1>1, CalmStep
<1>4. CalmInv => CacheExact
  <2> SUFFICES ASSUME CalmInv, Orderly, \A c \in Calls : ~Running(c), NonePending
               PROVE  \A w \in linked : cached[w] \in {NotCached, balance[w]}
    BY DEF CacheExact, NonePending
  <2> QED BY ExactNow DEF CalmInv, Running
<1> QED BY <1>2, <1>3, <1>4, TypeCorrect, PTL DEF Spec
=============================================================================
