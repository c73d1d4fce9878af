---------------------------- MODULE ConsumerRows ----------------------------
(***************************************************************************)
(* The Consumer rows, what ConsumerService.updateConsumer writes to them,  *)
(* what a row lets its owner do, and the calls that read and write rows.   *)
(* A consumer who signs up is named by the call that created the row.      *)
(***************************************************************************)
EXTENDS Naturals, FiniteSets, People

CONSTANTS
    Requests,       \* what may be asked for in a call
    NoRequest,
    InitialRows,    \* the rows of the consumers at the start
    Phones

Contacts == Emails \cup Phones
Owners == Consumers \cup Calls

KYCStatus == {"NOT_SUBMITTED", "PENDING", "FLAGGED", "APPROVED", "REJECTED"}
DocumentStatus ==
    {"NOT_REQUIRED", "REQUIRED", "PENDING", "APPROVED", "LIVE_PHOTO_VERIFIED", "REJECTED",
     "RECAPTURE"}    \* the last for the three rejections that ask for another picture
RowType ==
    [email : Emails \cup {Nothing}, phone : Phones \cup {Nothing},
     isLocked : BOOLEAN, isDisabled : BOOLEAN, kyc : KYCStatus, document : DocumentStatus]

ASSUME RowsAssumption ==
    /\ InitialRows \in [Consumers -> RowType]
    /\ NoRow \notin RowType
    /\ Consumers \cap Calls = {}

VARIABLES
    row,        \* the Consumer rows
    pc, req,    \* where each call is, and what it was asked for
    user,       \* the consumer a call is about
    seen,       \* the row as the call has read it
    verdict,    \* what a provider told the call
    answer

rowCallVars == <<pc, req, user, seen, verdict, answer>>

NewRow == [email |-> Nothing, phone |-> Nothing, isLocked |-> FALSE, isDisabled |-> FALSE,
           kyc |-> "NOT_SUBMITTED", document |-> "NOT_REQUIRED"]

RowsInit ==
    /\ row = [u \in Owners |-> IF u \in Consumers THEN InitialRows[u] ELSE NoRow]
    /\ pc = [c \in Calls |-> "idle"]
    /\ req = [c \in Calls |-> NoRequest]
    /\ user = [c \in Calls |-> Nothing]
    /\ seen = [c \in Calls |-> NoRow]
    /\ verdict = [c \in Calls |-> Nothing]
    /\ answer = [c \in Calls |-> "none"]

Running(c) == pc[c] \notin {"idle", "done"}
Goto(c, step) == pc' = [pc EXCEPT ![c] = step]
Continue(c, step) == Goto(c, step) /\ UNCHANGED answer
Finish(c, a) == Goto(c, "done") /\ answer' = [answer EXCEPT ![c] = a]
Fails(c) == Faulty /\ Finish(c, "error")
SetUser(c, u) == user' = [user EXCEPT ![c] = u]

-----------------------------------------------------------------------------
(* Rows *)

Exists(u) == row[u] # NoRow
ContactsOf(r) == {r.email, r.phone} \ {Nothing}
HeldBy(x) == {u \in Owners : Exists(u) /\ x \in ContactsOf(row[u])}
AsContact(x) == IF x \in Emails THEN [email |-> x] ELSE [phone |-> x]

\* toUpdateConsumerInput writes the fields it is given and that are not empty.
Merge(old, props) ==
    [f \in DOMAIN old |-> IF f \in DOMAIN props /\ props[f] # Nothing THEN props[f] ELSE old[f]]

\* Variant: the unique index is missing.
FreeForAll(u, r) == TRUE
\* Email and phone are unique.
Free(u, r) == \A x \in ContactsOf(r) : HeldBy(x) \subseteq {u}

UpdateRow(u, props) ==
    /\ Exists(u) /\ Free(u, Merge(row[u], props))
    /\ row' = [row EXCEPT ![u] = Merge(@, props)]

\* The update is refused, or fails, or its answer is lost.
UpdateFails(u, props) ==
    \/ UNCHANGED row /\ (Faulty \/ ~Free(u, Merge(row[u], props)))
    \/ Faulty /\ UpdateRow(u, props)

-----------------------------------------------------------------------------
(* What a row lets its owner do *)

\* isActiveConsumer: who may start a transaction.
IsActive(r) ==
    /\ ~r.isLocked /\ ~r.isDisabled
    /\ r.kyc = "APPROVED"
    /\ r.document \in {"APPROVED", "NOT_REQUIRED", "LIVE_PHOTO_VERIFIED"}

\* findConsumersByPublicInfo: whom a search by name or handle shows to others.
IsListed(r) ==
    /\ ~r.isLocked /\ ~r.isDisabled
    /\ r.kyc = "APPROVED"
    /\ r.document \in {"APPROVED", "NOT_REQUIRED"}

\* findConsumerByContactInfo: whom those are shown who have an email or a phone of theirs
\* among their contacts.  It asks nothing of the verification.
IsFoundByContact(r) == ~r.isLocked /\ ~r.isDisabled

\* Whom consumers can look up, by either of the two routes.
IsShown(r) == IsListed(r) \/ IsFoundByContact(r)

\* StatesMapper.getUserState: what the app shows.
OnHold(r) == r.isLocked \/ r.kyc = "REJECTED" \/ r.document = "REJECTED"
Verified(r) ==
    /\ r.kyc = "APPROVED"
    /\ r.document \in {"APPROVED", "LIVE_PHOTO_VERIFIED", "NOT_REQUIRED"}
\* Variant: a lock is not looked at.
UserStateLocksIgnored(r) ==
    IF r.kyc = "REJECTED" \/ r.document = "REJECTED" THEN "PERMANENT_HOLD"
    ELSE IF r.isDisabled THEN "TEMPORARY_HOLD"
    ELSE IF Verified(r) THEN "APPROVED"
    ELSE "PENDING"

UserState(r) ==
    IF OnHold(r) THEN "PERMANENT_HOLD"
    ELSE IF r.isDisabled THEN "TEMPORARY_HOLD"
    ELSE IF Verified(r) THEN "APPROVED"
    ELSE IF r.document = "RECAPTURE" \/ r.kyc = "NOT_SUBMITTED" THEN "ACTION_REQUIRED"
    ELSE "PENDING"

-----------------------------------------------------------------------------
(* Properties *)

\* However sign-ups, contact changes and updates with stale rows interleave, no two
\* accounts hold one email or phone.
OneAccountPerContact == \A x \in Contacts : Cardinality(HeldBy(x)) <= 1

\* The app says APPROVED exactly to those who may transact (isActiveConsumer), and a search
\* by name shows only them.  A lookup by contact shows the unverified too: what both keep
\* from others is whoever was locked or disabled, so that of those whom the app tells that
\* they are on hold it is only the rejected whom others are still shown.  Four pieces of code
\* decide it, each in its own words.
ShownIsAllowed ==
    \A u \in Owners : Exists(u) =>
        /\ (UserState(row[u]) = "APPROVED") = IsActive(row[u])
        /\ IsListed(row[u]) => IsActive(row[u])
        /\ IsShown(row[u]) /\ UserState(row[u]) \in {"PERMANENT_HOLD", "TEMPORARY_HOLD"}
             => "REJECTED" \in {row[u].kyc, row[u].document}
=============================================================================
