------------------------------ MODULE Accounts ------------------------------
(***************************************************************************)
(* Signing up and in with one-time codes, refresh tokens, contact changes  *)
(* and crypto wallets, over the consumers of Verification: AuthService,    *)
(* OTPService, the token repository and ConsumerService.  Every request is *)
(* a call that runs one step per awaited operation.  A code, a token and a *)
(* wallet are named by the call that made them.                            *)
(***************************************************************************)
EXTENDS Verification

CONSTANTS
    Earlier,        \* calls made before: their codes, tokens and wallets
    InitialCodes, InitialTokens, InitialWallets

Names == Calls \cup Earlier
WalletStates == {"none", "PENDING", "APPROVED", "FLAGGED", "DELETED"}

RequestType ==
    VerificationRequests
    \cup [kind : {"login"}, contact : Contacts, autoCreate : BOOLEAN]
    \cup [kind : {"verifyOtp"}, contact : Contacts, code : Names]
    \cup [kind : {"refresh"}, token : Names]
    \cup [kind : {"requestCode"}, as : Owners, contact : Contacts]
    \cup [kind : {"change"}, as : Owners, contact : Contacts, code : Names]
    \cup [kind : {"addWallet"}, as : Owners, contact : Contacts]
    \cup [kind : {"confirmWallet"}, as : Owners, contact : Contacts, code : Names, wallet : Names]
    \cup [kind : {"removeWallet"}, as : Owners, wallet : Names]

\* Nobody shares a contact at the start: emails and phones are unique.
ASSUME AccountsAssumption ==
    /\ Earlier \cap Calls = {}
    /\ Nothing \notin Owners \cup Contacts \cup Decisions \cup {"clean", "sanctioned"}
    /\ \A u, v \in Consumers :
        u # v => ContactsOf(InitialRows[u]) \cap ContactsOf(InitialRows[v]) = {}
    /\ Requests \subseteq RequestType
    /\ NoRequest \notin RequestType
    /\ InitialCodes \in [Contacts -> Earlier \cup {Nothing}]
    /\ InitialTokens \in [Earlier -> Consumers \cup {Nothing}]
    /\ InitialWallets \in [Earlier -> WalletStates]

VARIABLES
    code,       \* the Otp row of each contact: the call that saved it
    sent,       \* the codes each contact has received
    tokens,     \* the Token rows
    accepted,   \* calls whose code was accepted
    wallet      \* the CryptoWallet rows

accountVars == <<code, sent, tokens, accepted, wallet>>
vars == <<row, rowCallVars, accountVars, world>>

AccountsInit ==
    /\ world \in Worlds
    /\ RowsInit
    /\ code = InitialCodes
    /\ sent = [x \in Contacts |-> {InitialCodes[x]} \ {Nothing}]
    /\ tokens = {e \in Earlier : InitialTokens[e] # Nothing}
    /\ accepted = {}
    /\ wallet = [n \in Names |-> IF n \in Earlier THEN InitialWallets[n] ELSE "none"]

Kind(c) == req[c].kind
X(c) == req[c].contact
W(c) == req[c].wallet

-----------------------------------------------------------------------------
(* Requests arrive *)

\* Requests of a logged-in user: AuthUser refuses a disabled one.
UserKinds == {"requestCode", "change", "addWallet", "confirmWallet", "removeWallet"}

OwnKinds == UserKinds \cup {"verify", "submit", "poll", "screen"}

About(r) ==
    CASE r.kind \in UserKinds -> r.as
      [] "of" \in DOMAIN r -> r.of
      [] OTHER -> Nothing

\* A user types codes that the contact has received and uses tokens the app was given.
Given(r) ==
    /\ "code" \in DOMAIN r => r.code \in sent[r.contact]
    /\ r.kind = "refresh" =>
        r.token \in Earlier \/ (r.token \in Calls /\ answer[r.token] = "session")
    /\ About(r) # Nothing => Exists(About(r))
    /\ r.kind \in OwnKinds => ~row[About(r)].isDisabled
    /\ r.kind \in {"addWallet", "confirmWallet"} => r.contact \in ContactsOf(row[r.as])

\* Variant: the new contact's code is not asked for.
FirstStepUnproven(kind) ==
    CASE kind \in {"login", "requestCode"} -> "gate"
      [] kind = "verifyOtp" -> "check"
      [] kind = "refresh" -> "validate"
      [] kind = "change" -> "other"
      [] kind = "addWallet" -> "clear"
      [] kind \in {"confirmWallet", "removeWallet"} -> "walletRead"
      [] OTHER -> "read"

FirstStep(kind) ==
    CASE kind \in {"login", "requestCode"} -> "gate"
      [] kind \in {"verifyOtp", "change"} -> "check"
      [] kind = "refresh" -> "validate"
      [] kind = "addWallet" -> "clear"
      [] kind \in {"confirmWallet", "removeWallet"} -> "walletRead"
      [] OTHER -> "read"

\* The guard of a logged-in user's request has read the row.
Receive(c, r) ==
    /\ pc[c] = "idle"
    /\ Serial => \A d \in Calls : ~Running(d)
    /\ Given(r)
    /\ req' = [req EXCEPT ![c] = r]
    /\ SetUser(c, About(r))
    /\ seen' = IF r.kind \in UserKinds THEN [seen EXCEPT ![c] = row[r.as]] ELSE seen
    /\ Continue(c, FirstStep(r.kind))
    /\ UNCHANGED <<row, verdict, accountVars>>

-----------------------------------------------------------------------------
(* Codes are saved and sent: login, requestOtpToUpdatePhone and -Email, wallets *)

SignedUp(x) == \E u \in HeldBy(x) : ~row[u].isDisabled

\* A login needs an enabled account, a sign-up and a new contact need none; a failing
\* query finds none.
GateOpens(c, isSignedUp, isHeld) ==
    IF Kind(c) = "login" THEN isSignedUp # req[c].autoCreate ELSE ~isHeld

PassGate(c) ==
    /\ pc[c] = "gate"
    /\ \E found \in {TRUE} \cup (IF Faulty THEN {FALSE} ELSE {}) :
        IF GateOpens(c, found /\ SignedUp(X(c)), found /\ HeldBy(X(c)) # {})
        THEN Continue(c, "clear") ELSE Finish(c, "refused")
    /\ UNCHANGED <<row, req, user, seen, verdict, accountVars>>

\* deleteAllOTPsForIdentifier swallows its failure.
ClearCodes(c) ==
    /\ pc[c] = "clear"
    /\ \/ code' = [code EXCEPT ![X(c)] = Nothing]
       \/ Faulty /\ UNCHANGED code
    /\ Continue(c, "save")
    /\ UNCHANGED <<row, req, user, seen, verdict, sent, tokens, accepted, wallet>>

\* One row per contact: a code that is still there refuses the new one.
SaveCode(c) ==
    /\ pc[c] = "save"
    /\ \/ /\ code[X(c)] = Nothing
          /\ code' = [code EXCEPT ![X(c)] = c]
          /\ Continue(c, "send") \/ Fails(c)
       \/ UNCHANGED code /\ (code[X(c)] # Nothing \/ Faulty) /\ Finish(c, "error")
    /\ UNCHANGED <<row, req, user, seen, verdict, sent, tokens, accepted, wallet>>

SendCode(c) ==
    /\ pc[c] = "send"
    /\ sent' = [sent EXCEPT ![X(c)] = @ \cup {c}]
    /\ IF Kind(c) = "addWallet" THEN Continue(c, "walletInsert") ELSE Finish(c, "sent")
    /\ UNCHANGED <<row, req, user, seen, verdict, code, tokens, accepted, wallet>>

-----------------------------------------------------------------------------
(* checkIfOTPIsValidAndCleanup *)

\* No row, another code or an expired one; a failing query finds no row.
CheckCode(c) ==
    /\ pc[c] = "check"
    /\ \/ code[X(c)] = req[c].code /\ Continue(c, "consume")
       \/ Finish(c, "refused")
    /\ UNCHANGED <<row, req, user, seen, verdict, accountVars>>

AfterCode == [verifyOtp |-> "find", change |-> "other", confirmWallet |-> "sanctions"]

\* The row is deleted by its ID, whoever else has read it; a failure is swallowed.
ConsumeCode(c) ==
    /\ pc[c] = "consume"
    /\ \/ code' = [code EXCEPT ![X(c)] = IF @ = req[c].code THEN Nothing ELSE @]
       \/ Faulty /\ UNCHANGED code
    /\ accepted' = accepted \cup {c}
    /\ Continue(c, AfterCode[Kind(c)])
    /\ UNCHANGED <<row, req, user, seen, verdict, sent, tokens, wallet>>

-----------------------------------------------------------------------------
(* verifyOtp: getOrCreateConsumerConditionally, then a session *)

\* verifyConsumerInformationForLogin, unless the app gave no session key.
CheckLogin(c) == Continue(c, "read") \/ Continue(c, "token")

FindConsumer(c) ==
    /\ pc[c] = "find"
    /\ \/ \E u \in HeldBy(X(c)) :
            /\ SetUser(c, u)
            /\ IF row[u].isDisabled THEN Finish(c, "refused") ELSE CheckLogin(c)
       \/ (HeldBy(X(c)) = {} \/ Faulty) /\ Continue(c, "create") /\ UNCHANGED user
    /\ UNCHANGED <<row, req, seen, verdict, accountVars>>

\* Two sign-ups with one contact: the second is refused by the unique index.
CreateConsumer(c) ==
    LET created == Merge(NewRow, AsContact(X(c)))
    IN  /\ pc[c] = "create"
        /\ \/ /\ Free(c, created)
              /\ row' = [row EXCEPT ![c] = created]
              /\ \/ SetUser(c, c) /\ CheckLogin(c)
                 \/ UNCHANGED user /\ Fails(c)
           \/ /\ ~Free(c, created) \/ Faulty
              /\ UNCHANGED <<row, user>> /\ Finish(c, "error")
        /\ UNCHANGED <<req, seen, verdict, code, sent, tokens, accepted, wallet>>

\* generateAccessToken; the refresh token is saved, or not asked for.
GiveSession(c) ==
    /\ pc[c] = "token"
    /\ \/ tokens' = tokens \cup {c} /\ (Finish(c, "session") \/ Fails(c))
       \/ UNCHANGED tokens /\ (Fails(c) \/ (Kind(c) = "verifyOtp" /\ Finish(c, "session")))
    /\ UNCHANGED <<row, req, user, seen, verdict, code, sent, accepted, wallet>>

-----------------------------------------------------------------------------
(* newAccessToken *)

OwnerOfToken(n) == IF n \in Earlier THEN InitialTokens[n] ELSE user[n]

ValidateToken(c) ==
    /\ pc[c] = "validate"
    /\ \/ req[c].token \in tokens /\ Continue(c, "invalidate")
       \/ (req[c].token \notin tokens \/ Faulty) /\ Finish(c, "refused")
    /\ UNCHANGED <<row, req, user, seen, verdict, accountVars>>

\* Variant: a token that is gone already is no error.
InvalidateTokenQuietly(c) ==
    /\ pc[c] = "invalidate"
    /\ tokens' = tokens \ {req[c].token}
    /\ SetUser(c, OwnerOfToken(req[c].token)) /\ CheckLogin(c)
    /\ UNCHANGED <<row, req, seen, verdict, code, sent, accepted, wallet>>

\* Prisma's delete throws when there is no row.
InvalidateToken(c) ==
    /\ pc[c] = "invalidate"
    /\ \/ /\ req[c].token \in tokens
          /\ tokens' = tokens \ {req[c].token}
          /\ \/ SetUser(c, OwnerOfToken(req[c].token)) /\ CheckLogin(c)
             \/ UNCHANGED user /\ Fails(c)
       \/ /\ req[c].token \notin tokens \/ Faulty
          /\ UNCHANGED <<tokens, user>> /\ Finish(c, "error")
    /\ UNCHANGED <<row, req, seen, verdict, code, sent, accepted, wallet>>

-----------------------------------------------------------------------------
(* updateConsumerPhone, updateConsumerEmail *)

FindOther(c) ==
    /\ pc[c] = "other"
    /\ \/ HeldBy(X(c)) # {} /\ Finish(c, "refused")
       \/ (HeldBy(X(c)) = {} \/ Faulty) /\ Continue(c, "write")
    /\ UNCHANGED <<row, req, user, seen, verdict, accountVars>>

-----------------------------------------------------------------------------
(* Crypto wallets *)

SetWallet(w, s) == wallet' = [wallet EXCEPT ![w] = s]

InsertWallet(c) ==
    /\ pc[c] = "walletInsert"
    /\ \/ SetWallet(c, "PENDING") /\ (Finish(c, "added") \/ Fails(c))
       \/ UNCHANGED wallet /\ Fails(c)
    /\ UNCHANGED <<row, req, user, seen, verdict, code, sent, tokens, accepted>>

\* getCryptoWalletForConsumer leaves deleted wallets out.
IsFound(w) == wallet[w] \notin {"none", "DELETED"}

ReadWallet(c) ==
    /\ pc[c] = "walletRead"
    /\ \/ /\ IsFound(W(c))
          /\ Continue(c, IF Kind(c) = "removeWallet" THEN "walletLookup" ELSE "check")
       \/ ~IsFound(W(c)) /\ Finish(c, "refused")
       \/ Fails(c)
    /\ UNCHANGED <<row, req, user, seen, verdict, accountVars>>

\* Variant: an unanswered screening lets the wallet pass.
ScreenWalletTrusting(c) ==
    /\ pc[c] = "sanctions"
    /\ \E v \in {"clean", "sanctioned", Nothing} : verdict' = [verdict EXCEPT ![c] = v]
    /\ Continue(c, "walletLookup")
    /\ UNCHANGED <<row, req, user, seen, accountVars>>

ScreenWallet(c) ==
    /\ pc[c] = "sanctions"
    /\ \/ /\ \E v \in {"clean", "sanctioned"} : verdict' = [verdict EXCEPT ![c] = v]
          /\ Continue(c, "walletLookup")
       \/ UNCHANGED verdict /\ Fails(c)
    /\ UNCHANGED <<row, req, user, seen, accountVars>>

\* addOrUpdateCryptoWallet looks again; adding a wallet whose ID is taken fails.
LookupWallet(c) ==
    /\ pc[c] = "walletLookup"
    /\ \/ IsFound(W(c)) /\ Continue(c, "walletWrite")
       \/ (~IsFound(W(c)) \/ Faulty) /\ Finish(c, "error")
    /\ UNCHANGED <<row, req, user, seen, verdict, accountVars>>

NewStatus(c) ==
    IF Kind(c) = "removeWallet" THEN "DELETED"
    ELSE IF verdict[c] = "sanctioned" THEN "FLAGGED" ELSE "APPROVED"
WalletAnswer == [DELETED |-> "removed", FLAGGED |-> "flagged", APPROVED |-> "confirmed"]

WriteWallet(c) ==
    /\ pc[c] = "walletWrite"
    /\ \/ SetWallet(W(c), NewStatus(c)) /\ (Finish(c, WalletAnswer[NewStatus(c)]) \/ Fails(c))
       \/ UNCHANGED wallet /\ Fails(c)
    /\ UNCHANGED <<row, req, user, seen, verdict, code, sent, tokens, accepted>>

-----------------------------------------------------------------------------
AccountStep(c) ==
    \/ PassGate(c) \/ ClearCodes(c) \/ SaveCode(c) \/ SendCode(c)
    \/ CheckCode(c) \/ ConsumeCode(c)
    \/ FindConsumer(c) \/ CreateConsumer(c) \/ GiveSession(c)
    \/ ValidateToken(c) \/ InvalidateToken(c)
    \/ FindOther(c)
    \/ InsertWallet(c) \/ ReadWallet(c) \/ ScreenWallet(c) \/ LookupWallet(c) \/ WriteWallet(c)

CallStep(c) == AccountStep(c) \/ (VerificationStep(c) /\ UNCHANGED accountVars)

AccountsNext ==
    /\ \E c \in Calls : (\E r \in Requests : Receive(c, r)) \/ CallStep(c)
    /\ UNCHANGED world

AccountsSpec == AccountsInit /\ [][AccountsNext]_vars

-----------------------------------------------------------------------------
(* Properties *)

\* Of all the calls that present one refresh token - retried, or racing past the
\* check that it exists - one gets further.
RefreshTokenOnce ==
    \A c, d \in Calls :
        /\ c # d /\ user[c] # Nothing /\ user[d] # Nothing
        /\ Kind(c) = "refresh" /\ Kind(d) = "refresh"
        => req[c].token # req[d].token

\* Whoever holds an email or a phone has entered a code that was sent to it, in
\* whatever order sign-ups, changes and updates with stale rows take place.
ContactsAreProven ==
    \A u \in Owners : Exists(u) =>
        \A x \in ContactsOf(row[u]) :
            \/ u \in Consumers /\ x \in ContactsOf(InitialRows[u])
            \/ \E c \in accepted : X(c) = x /\ u \in {c, user[c]}

\* A wallet is APPROVED on a clean screening that was asked for by a call with an
\* accepted code.
ApprovedWalletIsScreened ==
    \A w \in Names :
        wallet[w] = "APPROVED" /\ (w \in Earlier => InitialWallets[w] # "APPROVED") =>
            \E c \in accepted : Kind(c) = "confirmWallet" /\ W(c) = w /\ verdict[c] = "clean"

\* One after the other, an update with a row read before leaves alone what the call is
\* not about, whatever fails.
OwnFieldsInTurn ==
    [][Serial => \A c \in Calls : WritesOnlyItsFields(c)]_vars
=============================================================================
