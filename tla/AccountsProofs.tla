--------------------------- MODULE AccountsProofs ----------------------------
(***************************************************************************)
(* Who an account, a session and a wallet belong to, for any consumers,    *)
(* requests and overlapping calls, with any queries, providers and writes  *)
(* failing and any answers lost.                                           *)
(***************************************************************************)
EXTENDS Accounts, FiniteSetTheorems, TLAPS

\* The kinds of call that present a code.
CodeKinds == {"verifyOtp", "change", "confirmWallet"}
OwnedSteps == {"read", "ask", "write", "feedback", "token"}
AfterVerdict == {"write", "feedback", "token", "walletLookup", "walletWrite", "done"}
Steps == OwnedSteps \cup AfterVerdict
    \cup {"idle", "gate", "clear", "save", "send", "check", "consume", "find", "create",
          "validate", "invalidate", "other", "walletInsert", "walletRead", "sanctions"}

Answers == {"none", "error", "refused", "sent", "session", "added", "removed", "flagged",
            "confirmed", "unchanged", "updated", "changed"}

\* The steps of a request of each kind.
OnPath(kind, s) ==
    /\ kind \in {"login", "requestCode"} => s \in {"gate", "clear", "save", "send"}
    /\ kind = "addWallet" => s \in {"clear", "save", "send", "walletInsert"}
    /\ kind = "verifyOtp" =>
        s \in {"check", "consume", "find", "create", "read", "ask", "write", "token"}
    /\ kind = "refresh" => s \in {"validate", "invalidate", "read", "ask", "write", "token"}
    /\ kind = "change" => s \in {"check", "consume", "other", "write"}
    /\ kind = "confirmWallet" =>
        s \in {"walletRead", "check", "consume", "sanctions", "walletLookup", "walletWrite"}
    /\ kind = "removeWallet" => s \in {"walletRead", "walletLookup", "walletWrite"}
    /\ kind = "verify" => s \in {"read", "ask", "write", "feedback"}
    /\ kind \in {"screen", "submit"} => s \in {"read", "ask", "write"}
    /\ kind \in {"case", "document"} => s \in {"read", "write", "feedback"}
    /\ kind \in {"poll", "edit"} => s \in {"read", "write"}

AccountsTypeOK ==
    /\ row \in [Owners -> RowType \cup {NoRow}]
    /\ pc \in [Calls -> Steps]
    /\ req \in [Calls -> RequestType \cup {NoRequest}]
    /\ user \in [Calls -> Owners \cup {Nothing}]
    /\ seen \in [Calls -> RowType \cup {NoRow}]
    /\ verdict \in [Calls -> Decisions \cup {"clean", "sanctioned", Nothing}]
    /\ answer \in [Calls -> Answers]
    /\ tokens \subseteq Names
    /\ accepted \subseteq Calls
    /\ wallet \in [Names -> WalletStates]

-----------------------------------------------------------------------------
(* The invariant *)

\* What has happened by the time a call is where it is: its code was accepted, its
\* consumer chosen and read, its provider asked, in this order and once each.
PlaceOK(c) ==
    /\ pc[c] = "idle" => user[c] = Nothing /\ seen[c] = NoRow /\ c \notin accepted
    /\ pc[c] # "idle" => req[c] \in Requests /\ (pc[c] = "done" \/ OnPath(Kind(c), pc[c]))
    /\ pc[c] # "idle" /\ Kind(c) \in CodeKinds
        /\ pc[c] \notin {"walletRead", "check", "consume", "done"} => c \in accepted
    /\ Kind(c) \in SessionKinds
        /\ pc[c] \in {"check", "consume", "find", "create", "validate", "invalidate"} =>
            user[c] = Nothing
    /\ pc[c] # "idle" /\ Kind(c) \in UserKinds => user[c] = req[c].as /\ seen[c] \in RowType
    /\ pc[c] \in OwnedSteps => user[c] \in Owners
    /\ pc[c] \in {"ask", "write", "feedback"} => seen[c] \in RowType
    /\ pc[c] \notin AfterVerdict => verdict[c] = Nothing
    /\ pc[c] = "write"
        /\ (Kind(c) \in SessionKinds \cup {"screen"}
            \/ (Kind(c) = "verify" /\ ~InDocumentCheck(seen[c]))) => verdict[c] \in Decisions
    /\ pc[c] \in {"walletLookup", "walletWrite"} /\ Kind(c) = "confirmWallet" =>
        verdict[c] \in {"clean", "sanctioned"}
    /\ seen[c] # NoRow => user[c] \in Owners
    /\ answer[c] = "session" => pc[c] = "done"

\* A token stands for a consumer; one presented was given to the app, and is spent
\* once a call has got further with it.
TokenOwned(n) == n \in tokens => OwnerOfToken(n) \in Owners
TokenOK(c) ==
    pc[c] # "idle" /\ Kind(c) = "refresh" =>
        /\ req[c].token \in Earlier \/ (req[c].token \in Calls /\ pc[req[c].token] = "done")
        /\ user[c] # Nothing => req[c].token \notin tokens

\* Where a contact and an approval of consumer u may have come from.
Proven(u, x) ==
    \/ u \in Consumers /\ x \in ContactsOf(InitialRows[u])
    \/ \E c \in accepted : X(c) = x /\ u \in {c, user[c]}
Sourced(u) ==
    \/ u \in Consumers /\ InitialRows[u].kyc = "APPROVED"
    \/ \E c \in Calls :
        /\ user[c] = u
        /\ \/ verdict[c] = "APPROVED"
           \/ req[c].kind = "case" /\ req[c].result = "APPROVED"
           \/ req[c].kind = "edit" /\ req[c].props = [kyc |-> "APPROVED"]
Backed(u, r) ==
    /\ \A x \in ContactsOf(r) : Proven(u, x)
    /\ r.kyc = "APPROVED" => Sourced(u)

\* Rows are backed, those that calls have read and may write back as well.
RowsBacked ==
    /\ \A u \in Owners : Exists(u) => Backed(u, row[u])
    /\ \A c \in Calls : seen[c] # NoRow => Backed(user[c], seen[c])
ContactsUnique ==
    \A u, v \in Owners, x \in Contacts : u \in HeldBy(x) /\ v \in HeldBy(x) => u = v

AccountsInv ==
    /\ AccountsTypeOK
    /\ \A c \in Calls : PlaceOK(c) /\ TokenOK(c)
    /\ \A n \in Names : TokenOwned(n)
    /\ RefreshTokenOnce
    /\ RowsBacked /\ ContactsUnique
    /\ ApprovedWalletIsScreened

-----------------------------------------------------------------------------
(* Requests and rows *)

AllKinds == UserKinds \cup {"login", "verifyOtp", "refresh", "verify", "screen", "submit",
                            "case", "document", "poll", "edit"}

LEMMA RequestTyped ==
    ASSUME NEW r \in Requests
    PROVE  /\ r \in RequestType
           /\ r.kind \in AllKinds
           /\ r.kind \in UserKinds => r.as \in Owners
           /\ r.kind \in {"verify", "screen", "submit", "case", "document", "poll", "edit"} =>
                "of" \in DOMAIN r /\ r.of \in Owners
           /\ r.kind \in UserKinds \cup {"login", "verifyOtp", "refresh"} => "of" \notin DOMAIN r
           /\ r.kind \in CodeKinds \cup {"login", "requestCode", "addWallet"} =>
                r.contact \in Contacts
           /\ r.kind = "refresh" => r.token \in Names
           /\ r.kind \in {"confirmWallet", "removeWallet"} => r.wallet \in Names
           /\ r.kind = "case" => r.result \in Decisions
           /\ r.kind \in {"document", "poll"} => r.result \in DocumentResults
           /\ r.kind = "edit" => r.props \in Edits
<1>1. r \in RequestType BY AccountsAssumption
<1>2. CASE r \in VerificationRequests
  BY <1>1, <1>2 DEF VerificationRequests, AllKinds, UserKinds, CodeKinds
<1>3. CASE r \notin VerificationRequests
  BY <1>1, <1>3 DEF RequestType, AllKinds, UserKinds, CodeKinds
<1> QED BY <1>2, <1>3

Fields == {"email", "phone", "isLocked", "isDisabled", "kyc", "document"}

LEMMA RowFields ==
    ASSUME NEW r \in RowType
    PROVE  /\ DOMAIN r = Fields
           /\ r.email \in Emails \cup {Nothing} /\ r.phone \in Phones \cup {Nothing}
           /\ r.isLocked \in BOOLEAN /\ r.isDisabled \in BOOLEAN
           /\ r.kyc \in KYCStatus /\ r.document \in DocumentStatus
           /\ ContactsOf(r) \subseteq Contacts
BY DEF RowType, Fields, ContactsOf, Contacts

\* updateConsumer gives a row again if it is given what belongs in one.
LEMMA MergeTyped ==
    ASSUME NEW old \in RowType, NEW props,
           "email" \in DOMAIN props => props["email"] \in Emails \cup {Nothing},
           "phone" \in DOMAIN props => props["phone"] \in Phones \cup {Nothing},
           "isLocked" \in DOMAIN props => props["isLocked"] \in BOOLEAN,
           "isDisabled" \in DOMAIN props => props["isDisabled"] \in BOOLEAN,
           "kyc" \in DOMAIN props => props["kyc"] \in KYCStatus,
           "document" \in DOMAIN props => props["document"] \in DocumentStatus
    PROVE  Merge(old, props) \in RowType
<1>1. DOMAIN old = Fields BY RowFields
<1>2. Merge(old, props) = [f \in Fields |-> Merge(old, props)[f]]
  BY <1>1 DEF Merge
<1>3. /\ Merge(old, props)["email"] \in Emails \cup {Nothing}
      /\ Merge(old, props)["phone"] \in Phones \cup {Nothing}
  BY <1>1, RowFields DEF Merge, Fields
<1>4. /\ Merge(old, props)["isLocked"] \in BOOLEAN
      /\ Merge(old, props)["isDisabled"] \in BOOLEAN
  BY <1>1, RowFields DEF Merge, Fields
<1>5. /\ Merge(old, props)["kyc"] \in KYCStatus
      /\ Merge(old, props)["document"] \in DocumentStatus
  BY <1>1, RowFields DEF Merge, Fields
<1> QED BY <1>2, <1>3, <1>4, <1>5 DEF RowType, Fields

\* What approves an identity in an update: the row as read, the provider, a case or
\* an administrator.
Approves(c) ==
    \/ seen[c].kyc = "APPROVED" \/ verdict[c] = "APPROVED"
    \/ req[c].kind = "case" /\ req[c].result = "APPROVED"
    \/ req[c].kind = "edit" /\ req[c].props = [kyc |-> "APPROVED"]

\* What updateConsumer is given, field by field.
LEMMA UpdateGives ==
    ASSUME AccountsTypeOK, NEW c \in Calls, PlaceOK(c), pc[c] = "write",
           NEW P, P = Update(c)
    PROVE  /\ "email" \in DOMAIN P =>
                \/ P["email"] = seen[c].email
                \/ Kind(c) = "change" /\ P["email"] = X(c) /\ X(c) \in Emails
           /\ "phone" \in DOMAIN P =>
                \/ P["phone"] = seen[c].phone
                \/ Kind(c) = "change" /\ P["phone"] = X(c) /\ X(c) \in Phones
           /\ "isLocked" \in DOMAIN P => P["isLocked"] \in BOOLEAN
           /\ "isDisabled" \in DOMAIN P => P["isDisabled"] \in BOOLEAN
           /\ "kyc" \in DOMAIN P =>
                P["kyc"] \in KYCStatus /\ (P["kyc"] = "APPROVED" => Approves(c))
           /\ "document" \in DOMAIN P => P["document"] \in DocumentStatus
<1>0. /\ seen[c] \in RowType /\ req[c] \in Requests /\ Kind(c) \in AllKinds
      /\ DOMAIN seen[c] = Fields /\ seen[c].kyc \in KYCStatus
      /\ seen[c].document \in DocumentStatus
      /\ seen[c].isLocked \in BOOLEAN /\ seen[c].isDisabled \in BOOLEAN
  BY RequestTyped, RowFields DEF PlaceOK, Kind
<1>1. Kind(c) \in SessionKinds \cup {"screen", "verify", "submit", "case", "document", "poll",
                                     "edit", "change"}
  BY <1>0 DEF PlaceOK, OnPath, AllKinds, UserKinds, SessionKinds
<1>2. CASE P = Decided(c) /\ verdict[c] \in Decisions
  <2>1. DOMAIN P = Fields
    BY <1>0, <1>2 DEF Decided
  <2>2. /\ P["email"] = seen[c].email /\ P["phone"] = seen[c].phone /\ P["kyc"] = verdict[c]
        /\ P["isLocked"] = seen[c].isLocked /\ P["isDisabled"] = seen[c].isDisabled
        /\ P["document"] = seen[c].document
    BY <1>0, <1>2 DEF Decided, Fields
  <2> QED BY <1>0, <1>2, <2>1, <2>2 DEF Decisions, KYCStatus, Approves
<1>3. ASSUME NEW d \in DocumentStatus, P = [seen[c] EXCEPT !.document = d]
      PROVE  /\ "email" \in DOMAIN P => P["email"] = seen[c].email
             /\ "phone" \in DOMAIN P => P["phone"] = seen[c].phone
             /\ "isLocked" \in DOMAIN P => P["isLocked"] \in BOOLEAN
             /\ "isDisabled" \in DOMAIN P => P["isDisabled"] \in BOOLEAN
             /\ "kyc" \in DOMAIN P => P["kyc"] = seen[c].kyc
             /\ "document" \in DOMAIN P => P["document"] \in DocumentStatus
  BY <1>0, <1>3 DEF Fields
<1>4. CASE \E d \in DocumentStatus : P = [seen[c] EXCEPT !.document = d]
  BY <1>0, <1>3, <1>4 DEF Approves
<1>5. CASE Kind(c) = "case"
  <2>1. req[c].result \in Decisions BY <1>0, <1>5, RequestTyped DEF Kind
  <2>2. P = [kyc |-> req[c].result, document |-> seen[c].document]
    BY <1>5 DEF Update, Kind, SessionKinds
  <2>3. DOMAIN P = {"kyc", "document"} /\ P["kyc"] = req[c].result
        /\ P["document"] = seen[c].document
    BY <2>2
  <2> QED BY <1>0, <1>5, <2>1, <2>3 DEF Decisions, KYCStatus, Approves, Kind
<1>6. CASE Kind(c) = "edit"
  <2>1. req[c].props \in Edits BY <1>0, <1>6, RequestTyped DEF Kind
  <2>2. PICK p \in Edits : p = req[c].props BY <2>1
  <2>3. P = Differing(p, seen[c])
    BY <1>6, <2>2 DEF Update, Kind, SessionKinds
  <2>4. DOMAIN P \subseteq DOMAIN p /\ \A f \in DOMAIN P : P[f] = p[f]
    BY <2>3 DEF Differing
  <2>5. /\ DOMAIN p \in {{"isLocked"}, {"isDisabled"}, {"kyc"}, {"document"}}
        /\ "isLocked" \in DOMAIN p => p["isLocked"] \in BOOLEAN
        /\ "isDisabled" \in DOMAIN p => p["isDisabled"] \in BOOLEAN
        /\ "kyc" \in DOMAIN p => p["kyc"] \in KYCStatus /\ p = [kyc |-> p["kyc"]]
        /\ "document" \in DOMAIN p => p["document"] \in DocumentStatus
    BY DEF Edits
  <2>6. "kyc" \in DOMAIN P /\ P["kyc"] = "APPROVED" => Approves(c)
    BY <1>6, <2>2, <2>4, <2>5 DEF Approves, Kind
  <2> QED BY <2>4, <2>5, <2>6
<1>7. CASE Kind(c) = "change"
  <2>1. X(c) \in Contacts BY <1>0, <1>7, RequestTyped DEF Kind, X, CodeKinds
  <2>2. P = AsContact(X(c)) BY <1>7 DEF Update, Kind, SessionKinds, X
  <2>3. CASE X(c) \in Emails
    <3>1. P = [email |-> X(c)] BY <2>2, <2>3 DEF AsContact
    <3>2. DOMAIN P = {"email"} /\ P["email"] = X(c) BY <3>1
    <3> QED BY <1>7, <2>3, <3>2
  <2>4. CASE X(c) \notin Emails
    <3>1. P = [phone |-> X(c)] /\ X(c) \in Phones BY <2>1, <2>2, <2>4 DEF AsContact, Contacts
    <3>2. DOMAIN P = {"phone"} /\ P["phone"] = X(c) BY <3>1
    <3> QED BY <1>7, <3>1, <3>2
  <2> QED BY <2>3, <2>4
<1>8. CASE Kind(c) \in SessionKinds \cup {"screen"}
  <2>1. P = Decided(c) BY <1>8 DEF Update, Kind, SessionKinds
  <2>2. verdict[c] \in Decisions BY <1>8 DEF PlaceOK
  <2> QED BY <1>2, <2>1, <2>2
<1>9. CASE Kind(c) = "verify"
  <2>1. CASE InDocumentCheck(seen[c])
    <3>1. P = [seen[c] EXCEPT !.document = "PENDING"]
      BY <1>9, <2>1 DEF Update, Kind, SessionKinds
    <3> QED BY <1>4, <3>1 DEF DocumentStatus
  <2>2. CASE ~InDocumentCheck(seen[c])
    <3>1. P = Decided(c) BY <1>9, <2>2 DEF Update, Kind, SessionKinds
    <3>2. verdict[c] \in Decisions BY <1>9, <2>2 DEF PlaceOK
    <3> QED BY <1>2, <3>1, <3>2
  <2> QED BY <2>1, <2>2
<1>10. CASE Kind(c) \in {"submit", "document", "poll"}
  <2>1. Kind(c) \in {"document", "poll"} => req[c].result \in DocumentResults
    BY <1>0, RequestTyped DEF Kind
  <2>2. \/ Kind(c) = "submit" /\ P = [seen[c] EXCEPT !.document = "PENDING"]
        \/ Kind(c) # "submit" /\ P = [seen[c] EXCEPT !.document = req[c].result]
    BY <1>10 DEF Update, Kind, SessionKinds
  <2> QED BY <1>4, <1>10, <2>1, <2>2 DEF DocumentStatus, DocumentResults
<1> QED BY <1>1, <1>5, <1>6, <1>7, <1>8, <1>9, <1>10

\* The row an update makes of another: a row, with no contact but the old ones, those
\* read before and the one proven, approved only for a reason.
LEMMA UpdateMakes ==
    ASSUME AccountsTypeOK, NEW c \in Calls, PlaceOK(c), pc[c] = "write", NEW old \in RowType
    PROVE  /\ Merge(old, Update(c)) \in RowType
           /\ \A x \in ContactsOf(Merge(old, Update(c))) :
                \/ x \in ContactsOf(old) \cup ContactsOf(seen[c])
                \/ Kind(c) = "change" /\ x = X(c)
           /\ Merge(old, Update(c)).kyc = "APPROVED" => old.kyc = "APPROVED" \/ Approves(c)
<1>1. PICK P : P = Update(c) OBVIOUS
<1>0. seen[c] \in RowType /\ old.email \in Emails \cup {Nothing}
      /\ old.phone \in Phones \cup {Nothing}
      /\ seen[c].email \in Emails \cup {Nothing} /\ seen[c].phone \in Phones \cup {Nothing}
  BY RowFields DEF PlaceOK
<1>2. /\ "email" \in DOMAIN P =>
                \/ P["email"] = seen[c].email
                \/ Kind(c) = "change" /\ P["email"] = X(c) /\ X(c) \in Emails
      /\ "phone" \in DOMAIN P =>
                \/ P["phone"] = seen[c].phone
                \/ Kind(c) = "change" /\ P["phone"] = X(c) /\ X(c) \in Phones
      /\ "isLocked" \in DOMAIN P => P["isLocked"] \in BOOLEAN
      /\ "isDisabled" \in DOMAIN P => P["isDisabled"] \in BOOLEAN
      /\ "kyc" \in DOMAIN P =>
                P["kyc"] \in KYCStatus /\ (P["kyc"] = "APPROVED" => Approves(c))
      /\ "document" \in DOMAIN P => P["document"] \in DocumentStatus
  BY <1>1, UpdateGives
<1>3. Merge(old, P) \in RowType BY <1>0, <1>2, MergeTyped
<1>4. /\ Merge(old, P).email \in {old.email} \cup (IF "email" \in DOMAIN P THEN {P["email"]} ELSE {})
      /\ Merge(old, P).phone \in {old.phone} \cup (IF "phone" \in DOMAIN P THEN {P["phone"]} ELSE {})
      /\ Merge(old, P).kyc \in {old.kyc} \cup (IF "kyc" \in DOMAIN P THEN {P["kyc"]} ELSE {})
  BY RowFields DEF Merge, Fields
<1>5. \A x \in ContactsOf(Merge(old, P)) :
        \/ x \in ContactsOf(old) \cup ContactsOf(seen[c])
        \/ Kind(c) = "change" /\ x = X(c)
  BY <1>2, <1>4 DEF ContactsOf
<1>6. Merge(old, P).kyc = "APPROVED" => old.kyc = "APPROVED" \/ Approves(c)
  BY <1>2, <1>4
<1> QED BY <1>1, <1>3, <1>5, <1>6

\* The row of a sign-up holds the contact and nothing else.
LEMMA SignUpMakes ==
    ASSUME NEW x \in Contacts
    PROVE  /\ Merge(NewRow, AsContact(x)) \in RowType
           /\ ContactsOf(Merge(NewRow, AsContact(x))) \subseteq {x}
           /\ Merge(NewRow, AsContact(x)).kyc = "NOT_SUBMITTED"
<1>1. NewRow \in RowType BY DEF NewRow, RowType, KYCStatus, DocumentStatus
<1>2. CASE x \in Emails
  <2>1. AsContact(x) = [email |-> x] BY <1>2 DEF AsContact
  <2>2. DOMAIN AsContact(x) = {"email"} /\ AsContact(x)["email"] = x BY <2>1
  <2>3. Merge(NewRow, AsContact(x)) \in RowType BY <1>1, <1>2, <2>2, MergeTyped
  <2>4. /\ Merge(NewRow, AsContact(x)).email \in {x, Nothing}
        /\ Merge(NewRow, AsContact(x)).phone = Nothing
        /\ Merge(NewRow, AsContact(x)).kyc = "NOT_SUBMITTED"
    BY <1>1, <2>2, RowFields DEF Merge, Fields, NewRow
  <2> QED BY <2>3, <2>4 DEF ContactsOf
<1>3. CASE x \notin Emails
  <2>1. AsContact(x) = [phone |-> x] /\ x \in Phones BY <1>3 DEF AsContact, Contacts
  <2>2. DOMAIN AsContact(x) = {"phone"} /\ AsContact(x)["phone"] = x BY <2>1
  <2>3. Merge(NewRow, AsContact(x)) \in RowType BY <1>1, <2>1, <2>2, MergeTyped
  <2>4. /\ Merge(NewRow, AsContact(x)).phone \in {x, Nothing}
        /\ Merge(NewRow, AsContact(x)).email = Nothing
        /\ Merge(NewRow, AsContact(x)).kyc = "NOT_SUBMITTED"
    BY <1>1, <2>2, RowFields DEF Merge, Fields, NewRow
  <2> QED BY <2>3, <2>4 DEF ContactsOf
<1> QED BY <1>2, <1>3

-----------------------------------------------------------------------------
(* What has happened stays *)

\* What a step may change of a call: it sets what was not set.
Stays(d) ==
    /\ pc[d] # "idle" => req'[d] = req[d] /\ pc'[d] # "idle"
    /\ pc[d] = "done" => pc'[d] = "done"
    /\ user[d] # Nothing => user'[d] = user[d]
    /\ verdict[d] # Nothing => verdict'[d] = verdict[d]
    /\ d \in accepted => d \in accepted'

LEMMA FactsStay ==
    ASSUME AccountsTypeOK, \A d \in Calls : PlaceOK(d) /\ Stays(d),
           NEW u \in Owners
    PROVE  /\ \A x : Proven(u, x) => Proven(u, x)'
           /\ Sourced(u) => Sourced(u)'
<1>1. ASSUME NEW x, Proven(u, x) PROVE Proven(u, x)'
  <2>1. CASE u \in Consumers /\ x \in ContactsOf(InitialRows[u])
    BY <2>1 DEF Proven
  <2>2. ASSUME NEW d \in accepted, X(d) = x, u \in {d, user[d]} PROVE Proven(u, x)'
    <3>1. d \in Calls /\ pc[d] # "idle" BY DEF AccountsTypeOK, PlaceOK
    <3>2. d \in accepted' /\ req'[d] = req[d] BY <3>1 DEF Stays
    <3>3. u = d \/ u = user'[d] BY <2>2, <3>1, AccountsAssumption DEF Stays
    <3> QED BY <2>2, <3>2, <3>3 DEF Proven, X
  <2> QED BY <1>1, <2>1, <2>2 DEF Proven
<1>2. ASSUME Sourced(u) PROVE Sourced(u)'
  <2>1. CASE u \in Consumers /\ InitialRows[u].kyc = "APPROVED"
    BY <2>1 DEF Sourced
  <2>2. ASSUME NEW d \in Calls, user[d] = u,
               \/ verdict[d] = "APPROVED"
               \/ req[d].kind = "case" /\ req[d].result = "APPROVED"
               \/ req[d].kind = "edit" /\ req[d].props = [kyc |-> "APPROVED"]
        PROVE  Sourced(u)'
    <3>1. user[d] # Nothing BY <2>2, AccountsAssumption
    <3>2. pc[d] # "idle" BY <3>1 DEF PlaceOK
    <3>3. user'[d] = u /\ req'[d] = req[d] BY <2>2, <3>1, <3>2 DEF Stays
    <3>4. verdict[d] = "APPROVED" => verdict'[d] = "APPROVED"
      <4>1. "APPROVED" # Nothing BY AccountsAssumption DEF Decisions
      <4> QED BY <4>1 DEF Stays
    <3> QED BY <2>2, <3>3, <3>4 DEF Sourced
  <2> QED BY <1>2, <2>1, <2>2 DEF Sourced
<1> QED BY <1>1, <1>2

-----------------------------------------------------------------------------
(* One step of one call *)

\* What a step of call c may do: move c on, set what was not set of it, write one row
\* for a reason, give out c's token or spend the one c presents, approve a wallet
\* that c has had screened.
WritesWell ==
    row' = row \/ \E u \in Owners, new \in RowType :
        row' = [row EXCEPT ![u] = new] /\ Free(u, new) /\ Backed(u, new)'

StepsWell(c) ==
    /\ pc[c] \notin {"idle", "done"}
    /\ \E s \in Steps \ {"idle"} : pc' = [pc EXCEPT ![c] = s]
    /\ UNCHANGED req
    /\ user' = user \/ (user[c] = Nothing /\ \E u \in Owners : user' = [user EXCEPT ![c] = u])
    /\ seen' = seen \/ \E r \in RowType : /\ seen' = [seen EXCEPT ![c] = r]
                                          /\ user[c] \in Owners /\ Backed(user[c], r)
    /\ verdict' = verdict
        \/ (verdict[c] = Nothing /\ \E v \in Decisions \cup {"clean", "sanctioned"} :
                verdict' = [verdict EXCEPT ![c] = v])
    /\ answer' = answer \/ \E a \in Answers : answer' = [answer EXCEPT ![c] = a]
    /\ accepted' \in {accepted, accepted \cup {c}}
    /\ WritesWell
    /\ tokens' \subseteq tokens \cup {c}
    /\ c \in tokens' \ tokens => user[c] \in Owners
    /\ Kind(c) = "refresh" =>
        user' = user \/ (req[c].token \in tokens /\ req[c].token \notin tokens')
    /\ wallet' \in [Names -> WalletStates]
    /\ \A w \in Names : wallet'[w] = "APPROVED" =>
        \/ wallet[w] = "APPROVED"
        \/ c \in accepted /\ Kind(c) = "confirmWallet" /\ W(c) = w /\ verdict[c] = "clean"

LEMMA StepTyped ==
    ASSUME AccountsInv, NEW c \in Calls, StepsWell(c)
    PROVE  AccountsTypeOK'
<1>1. row' \in [Owners -> RowType \cup {NoRow}]
  BY DEF StepsWell, WritesWell, AccountsInv, AccountsTypeOK
<1>2. pc' \in [Calls -> Steps] /\ accepted' \subseteq Calls
  BY DEF StepsWell, AccountsInv, AccountsTypeOK
<1>3. user' \in [Calls -> Owners \cup {Nothing}]
  BY DEF StepsWell, AccountsInv, AccountsTypeOK
<1>4. seen' \in [Calls -> RowType \cup {NoRow}]
  BY DEF StepsWell, AccountsInv, AccountsTypeOK
<1>5. verdict' \in [Calls -> Decisions \cup {"clean", "sanctioned", Nothing}]
  BY DEF StepsWell, AccountsInv, AccountsTypeOK
<1>6. tokens' \subseteq Names
  BY DEF StepsWell, AccountsInv, AccountsTypeOK, Names
<1>7. answer' \in [Calls -> Answers]
  BY DEF StepsWell, AccountsInv, AccountsTypeOK
<1> QED
  BY <1>1, <1>2, <1>3, <1>4, <1>5, <1>6, <1>7 DEF StepsWell, AccountsInv, AccountsTypeOK

LEMMA StepStays ==
    ASSUME AccountsInv, NEW c \in Calls, StepsWell(c)
    PROVE  /\ \A d \in Calls : Stays(d)
           /\ \A d \in Calls \ {c} :
                /\ pc'[d] = pc[d] /\ req'[d] = req[d] /\ user'[d] = user[d]
                /\ seen'[d] = seen[d] /\ verdict'[d] = verdict[d]
                /\ answer'[d] = answer[d]
                /\ d \in accepted' <=> d \in accepted
           /\ pc'[c] # "idle"
<1>1. /\ pc'[c] # "idle"
      /\ \A d \in Calls \ {c} : pc'[d] = pc[d]
  BY DEF StepsWell, AccountsInv, AccountsTypeOK
<1>2. /\ user[c] # Nothing => user'[c] = user[c]
      /\ \A d \in Calls \ {c} : user'[d] = user[d]
  BY DEF StepsWell, AccountsInv, AccountsTypeOK
<1>3. /\ verdict[c] # Nothing => verdict'[c] = verdict[c]
      /\ \A d \in Calls \ {c} : verdict'[d] = verdict[d]
  BY DEF StepsWell, AccountsInv, AccountsTypeOK
<1>4. \A d \in Calls \ {c} : seen'[d] = seen[d]
  BY DEF StepsWell, AccountsInv, AccountsTypeOK
<1>5. \A d \in Calls \ {c} : answer'[d] = answer[d]
  BY DEF StepsWell, AccountsInv, AccountsTypeOK
<1> QED BY <1>1, <1>2, <1>3, <1>4, <1>5 DEF StepsWell, Stays

LEMMA StepBacks ==
    ASSUME AccountsInv, NEW c \in Calls, StepsWell(c)
    PROVE  RowsBacked' /\ ContactsUnique'
<1>1. \A d \in Calls : PlaceOK(d) /\ Stays(d)
  BY StepStays DEF AccountsInv
<1>2. ASSUME NEW u \in Owners, NEW r, Backed(u, r) PROVE Backed(u, r)'
  <2>1. \A x : Proven(u, x) => Proven(u, x)' BY <1>1, FactsStay DEF AccountsInv
  <2>2. Sourced(u) => Sourced(u)' BY <1>1, FactsStay DEF AccountsInv
  <2> QED BY <1>2, <2>1, <2>2 DEF Backed
<1>3. ASSUME NEW u \in Owners, Exists(u)' PROVE Backed(u, row[u])'
  <2>1. CASE row'[u] = row[u]
    <3>1. PICK r : r = row[u] OBVIOUS
    <3>2. Backed(u, r) BY <1>3, <2>1, <3>1 DEF Exists, AccountsInv, RowsBacked
    <3> QED BY <1>2, <2>1, <3>1, <3>2
  <2>2. CASE row'[u] # row[u]
    <3>1. PICK v \in Owners, new \in RowType :
            row' = [row EXCEPT ![v] = new] /\ Backed(v, new)'
      BY <2>2 DEF StepsWell, WritesWell
    <3>2. u = v /\ row'[u] = new BY <2>2, <3>1 DEF AccountsInv, AccountsTypeOK
    <3> QED BY <3>1, <3>2
  <2> QED BY <2>1, <2>2
<1>4. ASSUME NEW d \in Calls, seen'[d] # NoRow PROVE Backed(user[d], seen[d])'
  <2>1. CASE seen'[d] = seen[d]
    <3>1. user[d] \in Owners /\ Backed(user[d], seen[d])
      BY <1>1, <1>4, <2>1 DEF PlaceOK, AccountsInv, RowsBacked
    <3>2. user'[d] = user[d] BY <1>1, <3>1, AccountsAssumption DEF Stays
    <3>3. PICK u \in Owners : u = user[d] BY <3>1
    <3>4. PICK r : r = seen[d] OBVIOUS
    <3>5. Backed(u, r)' BY <1>2, <3>1, <3>3, <3>4
    <3> QED BY <2>1, <3>2, <3>3, <3>4, <3>5
  <2>2. CASE seen'[d] # seen[d]
    <3>1. PICK r \in RowType : /\ seen' = [seen EXCEPT ![c] = r]
                               /\ user[c] \in Owners /\ Backed(user[c], r)
      BY <2>2 DEF StepsWell
    <3>2. d = c /\ seen'[d] = r BY <2>2, <3>1 DEF AccountsInv, AccountsTypeOK
    <3>3. user'[c] = user[c] BY <1>1, <3>1, AccountsAssumption DEF Stays
    <3>4. PICK u \in Owners : u = user[c] BY <3>1
    <3>5. Backed(u, r)' BY <1>2, <3>1, <3>4
    <3> QED BY <3>2, <3>3, <3>4, <3>5
  <2> QED BY <2>1, <2>2
<1>5. ContactsUnique'
  <2>1. CASE row' = row
    BY <2>1 DEF AccountsInv, ContactsUnique, HeldBy, Exists
  <2>2. ASSUME NEW u \in Owners, NEW new \in RowType,
               row' = [row EXCEPT ![u] = new], Free(u, new)
        PROVE  ContactsUnique'
    <3>1. row'[u] = new /\ \A v \in Owners \ {u} : row'[v] = row[v]
      BY <2>2 DEF AccountsInv, AccountsTypeOK
    <3>2. \A v \in Owners \ {u}, x \in Contacts : v \in HeldBy(x)' => v \in HeldBy(x)
      BY <3>1 DEF HeldBy, Exists
    <3>3. \A x \in Contacts : u \in HeldBy(x)' => HeldBy(x) \subseteq {u}
      BY <2>2, <3>1 DEF HeldBy, Free
    <3> QED BY <3>2, <3>3 DEF AccountsInv, ContactsUnique, HeldBy
  <2> QED BY <2>1, <2>2 DEF StepsWell, WritesWell
<1> QED BY <1>3, <1>4, <1>5 DEF RowsBacked

LEMMA StepSpends ==
    ASSUME AccountsInv, NEW c \in Calls, StepsWell(c)
    PROVE  /\ RefreshTokenOnce' /\ \A n \in Names : TokenOwned(n)'
           /\ \A d \in Calls : TokenOK(d)'
<1>0. \A d \in Calls : Stays(d)
  BY StepStays
<1>1. \A n \in Names : TokenOwned(n)'
  <2> SUFFICES ASSUME NEW n \in Names, n \in tokens' PROVE OwnerOfToken(n)' \in Owners
    BY DEF TokenOwned
  <2>1. OwnerOfToken(n) \in Owners
    <3>1. CASE n \in tokens BY <3>1 DEF AccountsInv, TokenOwned
    <3>2. CASE n \notin tokens
      BY <3>2, AccountsAssumption DEF StepsWell, OwnerOfToken
    <3> QED BY <3>1, <3>2
  <2> QED BY <1>0, <2>1, AccountsAssumption DEF OwnerOfToken, Stays, Names
<1>2. ASSUME NEW d \in Calls, pc'[d] # "idle", req'[d].kind = "refresh"
      PROVE  /\ pc[d] # "idle" /\ req[d].kind = "refresh" /\ req'[d] = req[d]
             /\ req[d].token # c
             /\ req[d].token \in Earlier
                \/ (req[d].token \in Calls /\ pc'[req[d].token] = "done")
             /\ \/ user[d] = Nothing /\ user'[d] # Nothing
                    /\ d = c /\ req[d].token \in tokens /\ req[d].token \notin tokens'
                \/ user[d] # Nothing /\ req[d].token \notin tokens
                \/ user'[d] = Nothing
  <2>1. pc[d] # "idle" /\ req'[d] = req[d]
    BY <1>2 DEF StepsWell, AccountsInv, AccountsTypeOK
  <2>2. TokenOK(d) BY DEF AccountsInv
  <2>3. /\ req[d].token \in Earlier \/ (req[d].token \in Calls /\ pc[req[d].token] = "done")
        /\ user[d] # Nothing => req[d].token \notin tokens
    BY <1>2, <2>1, <2>2 DEF TokenOK, Kind
  <2>4. req[d].token # c
    BY <2>3, AccountsAssumption DEF StepsWell
  <2>5. req[d].token \in Calls => pc'[req[d].token] = pc[req[d].token]
    BY <2>4, StepStays
  <2>6. user[d] = Nothing /\ user'[d] # Nothing =>
            d = c /\ req[d].token \in tokens /\ req[d].token \notin tokens'
    <3> SUFFICES ASSUME user[d] = Nothing, user'[d] # Nothing
                 PROVE  d = c /\ req[d].token \in tokens /\ req[d].token \notin tokens'
      OBVIOUS
    <3>1. d = c BY StepStays
    <3> QED BY <1>2, <2>1, <3>1 DEF StepsWell, Kind
  <2> QED BY <1>2, <2>1, <2>3, <2>4, <2>5, <2>6
<1>3. tokens' \subseteq tokens \cup {c} BY DEF StepsWell
<1>4. ASSUME NEW d \in Calls PROVE TokenOK(d)'
  BY <1>2, <1>3 DEF TokenOK, Kind
<1>5. RefreshTokenOnce'
  <2> SUFFICES ASSUME NEW d \in Calls, NEW e \in Calls, d # e,
                      user'[d] # Nothing, user'[e] # Nothing,
                      req'[d].kind = "refresh", req'[e].kind = "refresh"
               PROVE  req'[d].token # req'[e].token
    BY DEF RefreshTokenOnce, Kind
  <2>1. pc'[d] # "idle" /\ pc'[e] # "idle"
    <3>1. \A f \in Calls : pc[f] = "idle" => user'[f] = Nothing
      BY StepStays, ZenonT(60) DEF AccountsInv, PlaceOK, StepsWell
    <3> QED BY <1>0, <3>1 DEF Stays
  <2>2. RefreshTokenOnce BY DEF AccountsInv
  <2> QED BY <1>2, <2>1, <2>2 DEF RefreshTokenOnce, Kind
<1> QED BY <1>1, <1>4, <1>5

LEMMA StepKeeps ==
    ASSUME AccountsInv, NEW c \in Calls, StepsWell(c), PlaceOK(c)'
    PROVE  AccountsInv'
<1>1. ASSUME NEW d \in Calls \ {c} PROVE PlaceOK(d)'
  <2>1. /\ PlaceOK(d)
        /\ pc'[d] = pc[d] /\ req'[d] = req[d] /\ user'[d] = user[d]
        /\ seen'[d] = seen[d] /\ verdict'[d] = verdict[d]
        /\ answer'[d] = answer[d]
        /\ d \in accepted' <=> d \in accepted
    BY StepStays DEF AccountsInv
  <2> QED BY <2>1 DEF PlaceOK, Kind
<1>2. ApprovedWalletIsScreened'
  <2> SUFFICES ASSUME NEW w \in Names, wallet'[w] = "APPROVED",
                      w \in Earlier => InitialWallets[w] # "APPROVED"
               PROVE  \E d \in accepted' : /\ req'[d].kind = "confirmWallet"
                                           /\ req'[d].wallet = w /\ verdict'[d] = "clean"
    BY DEF ApprovedWalletIsScreened, Kind, W
  <2>1. PICK d \in accepted : Kind(d) = "confirmWallet" /\ W(d) = w /\ verdict[d] = "clean"
    BY DEF StepsWell, AccountsInv, ApprovedWalletIsScreened
  <2>2. d \in Calls /\ pc[d] # "idle" BY DEF AccountsInv, AccountsTypeOK, PlaceOK
  <2>3. Stays(d) BY <2>2, StepStays
  <2>4. verdict[d] # Nothing BY <2>1, AccountsAssumption
  <2> QED BY <2>1, <2>2, <2>3, <2>4 DEF Stays, Kind, W
<1> QED BY <1>1, <1>2, StepTyped, StepBacks, StepSpends DEF AccountsInv
-----------------------------------------------------------------------------
(* The start *)

LEMMA AccountsInitOK == AccountsInit => AccountsInv
<1> SUFFICES ASSUME AccountsInit PROVE AccountsInv
  OBVIOUS
<1> USE RowsAssumption, AccountsAssumption DEF AccountsInit, RowsInit
<1>1. AccountsTypeOK
  BY DEF AccountsTypeOK, Steps, Answers, Owners, Names, WalletStates
<1>2. ASSUME NEW c \in Calls PROVE PlaceOK(c) /\ TokenOK(c)
  BY <1>2 DEF PlaceOK, TokenOK, OwnedSteps, AfterVerdict
<1>3. ASSUME NEW n \in Names PROVE TokenOwned(n)
  BY <1>3 DEF TokenOwned, OwnerOfToken, Owners
<1>4. RefreshTokenOnce BY DEF RefreshTokenOnce
<1>5. RowsBacked
  <2>1. ASSUME NEW u \in Owners, Exists(u) PROVE Backed(u, row[u])
    BY <2>1 DEF Backed, Proven, Sourced, Exists
  <2> QED BY <2>1 DEF RowsBacked
<1>6. ContactsUnique
  BY DEF ContactsUnique, HeldBy, Exists
<1>7. ApprovedWalletIsScreened
  BY DEF ApprovedWalletIsScreened, Names
<1> QED BY <1>1, <1>2, <1>3, <1>4, <1>5, <1>6, <1>7 DEF AccountsInv

-----------------------------------------------------------------------------
(* Each step does well *)

\* A step that reads, checks or sends: only the call's place, its answer, the codes
\* and what was sent change.
LEMMA ReadingSteps ==
    ASSUME AccountsInv, NEW c \in Calls,
           \/ PassGate(c) \/ ClearCodes(c) \/ SaveCode(c) \/ SendCode(c) \/ CheckCode(c)
           \/ FindOther(c) \/ ValidateToken(c) \/ ReadWallet(c) \/ LookupWallet(c)
           \/ PostFeedback(c) /\ UNCHANGED accountVars
    PROVE  StepsWell(c) /\ PlaceOK(c)'
<1>1. /\ UNCHANGED <<row, req, user, seen, verdict, tokens, accepted, wallet>>
      /\ pc[c] \notin {"idle", "done"}
  BY DEF PassGate, ClearCodes, SaveCode, SendCode, CheckCode, FindOther, ValidateToken,
         ReadWallet, LookupWallet, PostFeedback, accountVars
<1>2. PlaceOK(c) /\ AccountsTypeOK BY DEF AccountsInv
<1>3. /\ \E s \in Steps \ {"idle"} : pc' = [pc EXCEPT ![c] = s]
      /\ answer' = answer \/ \E a \in Answers : answer' = [answer EXCEPT ![c] = a] /\ pc'[c] = "done"
  BY <1>2 DEF PassGate, ClearCodes, SaveCode, SendCode, CheckCode, FindOther, ValidateToken,
         ReadWallet, LookupWallet, PostFeedback, Continue, Finish, Fails, Goto, Steps,
         OwnedSteps, AfterVerdict, Answers, AccountsTypeOK
<1>4. StepsWell(c)
  BY <1>1, <1>2, <1>3 DEF StepsWell, WritesWell, AccountsTypeOK
<1>5. \/ pc'[c] = "done"
      \/ pc[c] = "gate" /\ pc'[c] = "clear"
      \/ pc[c] = "clear" /\ pc'[c] = "save"
      \/ pc[c] = "save" /\ pc'[c] = "send"
      \/ pc[c] = "send" /\ pc'[c] = "walletInsert" /\ Kind(c) = "addWallet"
      \/ pc[c] = "check" /\ pc'[c] = "consume"
      \/ pc[c] = "other" /\ pc'[c] = "write"
      \/ pc[c] = "validate" /\ pc'[c] = "invalidate"
      \/ pc[c] = "walletRead" /\ pc'[c] = "walletLookup" /\ Kind(c) = "removeWallet"
      \/ pc[c] = "walletRead" /\ pc'[c] = "check" /\ Kind(c) # "removeWallet"
      \/ pc[c] = "walletLookup" /\ pc'[c] = "walletWrite"
  BY <1>2, ZenonT(60) DEF PassGate, ClearCodes, SaveCode, SendCode, CheckCode, FindOther, ValidateToken,
         ReadWallet, LookupWallet, PostFeedback, Continue, Finish, Fails, Goto, AccountsTypeOK
<1>6. /\ Kind(c) \in AllKinds
      /\ Kind(c) \in UserKinds => user[c] \in Owners
      /\ answer'[c] = "session" => pc'[c] = "done"
  BY <1>1, <1>2, <1>3, RequestTyped DEF PlaceOK, Kind
<1>7. PlaceOK(c)'
  BY <1>1, <1>2, <1>5, <1>6 DEF PlaceOK, Kind, AllKinds, UserKinds, CodeKinds, SessionKinds,
         OnPath, OwnedSteps, AfterVerdict
<1> QED BY <1>4, <1>7
LEMMA ConsumeCodeOK ==
    ASSUME AccountsInv, NEW c \in Calls, ConsumeCode(c)
    PROVE  StepsWell(c) /\ PlaceOK(c)'
<1>1. /\ UNCHANGED <<row, req, user, seen, verdict, answer, tokens, wallet>>
      /\ pc[c] = "consume" /\ accepted' = accepted \cup {c}
      /\ pc' = [pc EXCEPT ![c] = AfterCode[Kind(c)]]
  BY DEF ConsumeCode, Continue, Goto
<1>2. PlaceOK(c) /\ AccountsTypeOK BY DEF AccountsInv
<1>3. /\ Kind(c) \in CodeKinds
      /\ Kind(c) \in UserKinds => user[c] \in Owners
  BY <1>1, <1>2, RequestTyped DEF PlaceOK, Kind, AllKinds, UserKinds, CodeKinds, OnPath
<1>4. \/ Kind(c) = "verifyOtp" /\ pc' = [pc EXCEPT ![c] = "find"]
      \/ Kind(c) = "change" /\ pc' = [pc EXCEPT ![c] = "other"]
      \/ Kind(c) = "confirmWallet" /\ pc' = [pc EXCEPT ![c] = "sanctions"]
  <2>1. /\ AfterCode["verifyOtp"] = "find" /\ AfterCode["change"] = "other"
        /\ AfterCode["confirmWallet"] = "sanctions"
    BY DEF AfterCode
  <2> QED BY <1>1, <1>3, <2>1 DEF CodeKinds
<1>5. StepsWell(c)
  BY <1>1, <1>2, <1>4 DEF StepsWell, WritesWell, AccountsTypeOK, Steps
<1>6. PlaceOK(c)'
  BY <1>1, <1>2, <1>3, <1>4 DEF PlaceOK, Kind, UserKinds, CodeKinds, SessionKinds,
         OnPath, OwnedSteps, AfterVerdict, AccountsTypeOK
<1> QED BY <1>5, <1>6

LEMMA FindConsumerOK ==
    ASSUME AccountsInv, NEW c \in Calls, FindConsumer(c)
    PROVE  StepsWell(c) /\ PlaceOK(c)'
<1>1. /\ UNCHANGED <<row, req, seen, verdict, tokens, accepted, wallet>>
      /\ pc[c] = "find"
  BY DEF FindConsumer, accountVars
<1>2. PlaceOK(c) /\ AccountsTypeOK BY DEF AccountsInv
<1>3. Kind(c) = "verifyOtp" /\ c \in accepted /\ user[c] = Nothing /\ seen[c] = NoRow
  BY <1>1, <1>2, RequestTyped, AccountsAssumption
     DEF PlaceOK, Kind, AllKinds, UserKinds, CodeKinds, SessionKinds, OnPath
<1>4. /\ \/ /\ \E u \in Owners : user' = [user EXCEPT ![c] = u]
            /\ \E s \in {"read", "token", "done"} : pc' = [pc EXCEPT ![c] = s]
         \/ user' = user /\ pc' = [pc EXCEPT ![c] = "create"]
      /\ \/ answer' = answer
         \/ answer' = [answer EXCEPT ![c] = "refused"]
  BY <1>2 DEF FindConsumer, HeldBy, SetUser, CheckLogin, Continue, Finish, Goto, AccountsTypeOK
<1>5. StepsWell(c)
  BY <1>1, <1>2, <1>3, <1>4 DEF StepsWell, WritesWell, AccountsTypeOK, Steps, OwnedSteps,
         AfterVerdict, Answers
<1>6. PlaceOK(c)'
  BY <1>1, <1>2, <1>3, <1>4 DEF PlaceOK, Kind, UserKinds, CodeKinds, SessionKinds,
         OnPath, OwnedSteps, AfterVerdict, AccountsTypeOK
<1> QED BY <1>5, <1>6

LEMMA CreateConsumerOK ==
    ASSUME AccountsInv, NEW c \in Calls, CreateConsumer(c)
    PROVE  StepsWell(c) /\ PlaceOK(c)'
<1>1. /\ UNCHANGED <<req, seen, verdict, tokens, accepted, wallet>>
      /\ pc[c] = "create"
  BY DEF CreateConsumer
<1>2. PlaceOK(c) /\ AccountsTypeOK BY DEF AccountsInv
<1>3. /\ Kind(c) = "verifyOtp" /\ c \in accepted /\ user[c] = Nothing /\ seen[c] = NoRow
      /\ X(c) \in Contacts
  BY <1>1, <1>2, RequestTyped, AccountsAssumption
     DEF PlaceOK, Kind, X, AllKinds, UserKinds, CodeKinds, SessionKinds, OnPath
<1>4. PICK created : created = Merge(NewRow, AsContact(X(c))) OBVIOUS
<1>5. /\ user' = user \/ user' = [user EXCEPT ![c] = c]
      /\ \E s \in {"read", "token", "done"} :
            pc' = [pc EXCEPT ![c] = s] /\ (s # "done" => user' = [user EXCEPT ![c] = c])
      /\ answer' = answer \/ answer' = [answer EXCEPT ![c] = "error"]
      /\ row' = row \/ (Free(c, created) /\ row' = [row EXCEPT ![c] = created])
  BY <1>4 DEF CreateConsumer, SetUser, CheckLogin, Continue, Finish, Fails, Goto
<1>6. created \in RowType /\ Backed(c, created)'
  <2>1. /\ created \in RowType /\ ContactsOf(created) \subseteq {X(c)}
        /\ created.kyc = "NOT_SUBMITTED"
    BY <1>3, <1>4, SignUpMakes
  <2>2. c \in accepted' /\ req'[c].contact = X(c)
    BY <1>1, <1>3 DEF X
  <2>3. ASSUME NEW x \in ContactsOf(created) PROVE Proven(c, x)'
    BY <2>1, <2>2 DEF Proven, X
  <2> QED BY <2>1, <2>3 DEF Backed
<1>7. WritesWell BY <1>5, <1>6 DEF WritesWell, Owners
<1>8. StepsWell(c)
  BY <1>1, <1>2, <1>3, <1>5, <1>7 DEF StepsWell, AccountsTypeOK, Steps, OwnedSteps,
         AfterVerdict, Answers, Owners
<1>9. PlaceOK(c)'
  BY <1>1, <1>2, <1>3, <1>5 DEF PlaceOK, Kind, UserKinds, CodeKinds, SessionKinds,
         OnPath, OwnedSteps, AfterVerdict, AccountsTypeOK, Owners
<1> QED BY <1>8, <1>9

LEMMA GiveSessionOK ==
    ASSUME AccountsInv, NEW c \in Calls, GiveSession(c)
    PROVE  StepsWell(c) /\ PlaceOK(c)'
<1>1. /\ UNCHANGED <<row, req, user, seen, verdict, accepted, wallet>>
      /\ pc[c] = "token" /\ pc' = [pc EXCEPT ![c] = "done"]
      /\ \E a \in {"session", "error"} : answer' = [answer EXCEPT ![c] = a]
      /\ tokens' \in {tokens, tokens \cup {c}}
  BY DEF GiveSession, Finish, Fails, Goto
<1>2. PlaceOK(c) /\ AccountsTypeOK BY DEF AccountsInv
<1>3. user[c] \in Owners BY <1>1, <1>2 DEF PlaceOK, OwnedSteps
<1>4. StepsWell(c)
  BY <1>1, <1>2, <1>3 DEF StepsWell, WritesWell, AccountsTypeOK, Steps, AfterVerdict, Answers
<1>5. PlaceOK(c)'
  BY <1>1, <1>2 DEF PlaceOK, Kind, CodeKinds, SessionKinds, OwnedSteps, AfterVerdict,
         AccountsTypeOK
<1> QED BY <1>4, <1>5

LEMMA InvalidateTokenOK ==
    ASSUME AccountsInv, NEW c \in Calls, InvalidateToken(c)
    PROVE  StepsWell(c) /\ PlaceOK(c)'
<1>1. /\ UNCHANGED <<row, req, seen, verdict, accepted, wallet>>
      /\ pc[c] = "invalidate"
  BY DEF InvalidateToken
<1>2. PlaceOK(c) /\ AccountsTypeOK BY DEF AccountsInv
<1>3. /\ Kind(c) = "refresh" /\ user[c] = Nothing /\ seen[c] = NoRow
      /\ req[c].token \in Names
  BY <1>1, <1>2, RequestTyped, AccountsAssumption
     DEF PlaceOK, Kind, AllKinds, UserKinds, CodeKinds, SessionKinds, OnPath
<1>4. /\ \/ user' = user
         \/ /\ req[c].token \in tokens /\ tokens' = tokens \ {req[c].token}
            /\ user' = [user EXCEPT ![c] = OwnerOfToken(req[c].token)]
      /\ tokens' \subseteq tokens
      /\ \E s \in {"read", "token", "done"} :
            /\ pc' = [pc EXCEPT ![c] = s]
            /\ s # "done" => /\ req[c].token \in tokens
                             /\ user' = [user EXCEPT ![c] = OwnerOfToken(req[c].token)]
      /\ answer' = answer \/ answer' = [answer EXCEPT ![c] = "error"]
  BY DEF InvalidateToken, SetUser, CheckLogin, Continue, Finish, Fails, Goto
<1>5. req[c].token \in tokens => OwnerOfToken(req[c].token) \in Owners
  BY <1>3 DEF AccountsInv, TokenOwned
<1>6. StepsWell(c)
  BY <1>1, <1>2, <1>3, <1>4, <1>5 DEF StepsWell, WritesWell, AccountsTypeOK, Steps, OwnedSteps,
         AfterVerdict, Answers
<1>7. PlaceOK(c)'
  BY <1>1, <1>2, <1>3, <1>4, <1>5 DEF PlaceOK, Kind, UserKinds, CodeKinds, SessionKinds,
         OnPath, OwnedSteps, AfterVerdict, AccountsTypeOK
<1> QED BY <1>6, <1>7

LEMMA InsertWalletOK ==
    ASSUME AccountsInv, NEW c \in Calls, InsertWallet(c)
    PROVE  StepsWell(c) /\ PlaceOK(c)'
<1>1. /\ UNCHANGED <<row, req, user, seen, verdict, tokens, accepted>>
      /\ pc[c] = "walletInsert" /\ pc' = [pc EXCEPT ![c] = "done"]
      /\ \E a \in {"added", "error"} : answer' = [answer EXCEPT ![c] = a]
      /\ wallet' = wallet \/ wallet' = [wallet EXCEPT ![c] = "PENDING"]
  BY DEF InsertWallet, SetWallet, Finish, Fails, Goto
<1>2. PlaceOK(c) /\ AccountsTypeOK BY DEF AccountsInv
<1>3. StepsWell(c)
  BY <1>1, <1>2 DEF StepsWell, WritesWell, AccountsTypeOK, Steps, AfterVerdict, Answers,
         WalletStates
<1>4. PlaceOK(c)'
  BY <1>1, <1>2 DEF PlaceOK, Kind, CodeKinds, SessionKinds, OwnedSteps, AfterVerdict,
         AccountsTypeOK
<1> QED BY <1>3, <1>4

LEMMA ScreenWalletOK ==
    ASSUME AccountsInv, NEW c \in Calls, ScreenWallet(c)
    PROVE  StepsWell(c) /\ PlaceOK(c)'
<1>1. /\ UNCHANGED <<row, req, user, seen, tokens, accepted, wallet>>
      /\ pc[c] = "sanctions"
      /\ \/ /\ \E v \in {"clean", "sanctioned"} : verdict' = [verdict EXCEPT ![c] = v]
            /\ pc' = [pc EXCEPT ![c] = "walletLookup"] /\ answer' = answer
         \/ /\ verdict' = verdict
            /\ pc' = [pc EXCEPT ![c] = "done"] /\ answer' = [answer EXCEPT ![c] = "error"]
  BY DEF ScreenWallet, accountVars, Continue, Finish, Fails, Goto
<1>2. PlaceOK(c) /\ AccountsTypeOK BY DEF AccountsInv
<1>3. Kind(c) = "confirmWallet" /\ c \in accepted /\ verdict[c] = Nothing
  BY <1>1, <1>2, RequestTyped
     DEF PlaceOK, Kind, AllKinds, UserKinds, CodeKinds, OnPath, AfterVerdict
<1>4. StepsWell(c)
  BY <1>1, <1>2, <1>3 DEF StepsWell, WritesWell, AccountsTypeOK, Steps, AfterVerdict, Answers
<1>5. PlaceOK(c)'
  BY <1>1, <1>2, <1>3 DEF PlaceOK, Kind, UserKinds, CodeKinds, SessionKinds,
         OnPath, OwnedSteps, AfterVerdict, AccountsTypeOK
<1> QED BY <1>4, <1>5

LEMMA WriteWalletOK ==
    ASSUME AccountsInv, NEW c \in Calls, WriteWallet(c)
    PROVE  StepsWell(c) /\ PlaceOK(c)'
<1>1. /\ UNCHANGED <<row, req, user, seen, verdict, tokens, accepted>>
      /\ pc[c] = "walletWrite" /\ pc' = [pc EXCEPT ![c] = "done"]
      /\ \/ /\ wallet' = [wallet EXCEPT ![W(c)] = NewStatus(c)]
            /\ answer' = [answer EXCEPT ![c] = WalletAnswer[NewStatus(c)]]
                \/ answer' = [answer EXCEPT ![c] = "error"]
         \/ wallet' = wallet /\ answer' = [answer EXCEPT ![c] = "error"]
  BY DEF WriteWallet, SetWallet, Finish, Fails, Goto
<1>2. PlaceOK(c) /\ AccountsTypeOK BY DEF AccountsInv
<1>3. /\ Kind(c) \in {"confirmWallet", "removeWallet"}
      /\ Kind(c) = "confirmWallet" =>
            c \in accepted /\ verdict[c] \in {"clean", "sanctioned"}
  BY <1>1, <1>2, RequestTyped DEF PlaceOK, Kind, AllKinds, UserKinds, CodeKinds, OnPath
<1>4. /\ NewStatus(c) \in {"DELETED", "FLAGGED", "APPROVED"}
      /\ NewStatus(c) = "APPROVED" => Kind(c) = "confirmWallet" /\ verdict[c] = "clean"
      /\ WalletAnswer[NewStatus(c)] \in {"removed", "flagged", "confirmed"}
  <2>1. /\ WalletAnswer["DELETED"] = "removed" /\ WalletAnswer["FLAGGED"] = "flagged"
        /\ WalletAnswer["APPROVED"] = "confirmed"
    BY DEF WalletAnswer
  <2> QED BY <1>3, <2>1 DEF NewStatus
<1>5. \E a \in Answers : answer' = [answer EXCEPT ![c] = a]
  BY <1>1, <1>4 DEF Answers
<1>6. /\ wallet' \in [Names -> WalletStates]
      /\ \A w \in Names : wallet'[w] = "APPROVED" =>
            \/ wallet[w] = "APPROVED"
            \/ c \in accepted /\ Kind(c) = "confirmWallet" /\ W(c) = w /\ verdict[c] = "clean"
  BY <1>1, <1>2, <1>3, <1>4 DEF AccountsTypeOK, WalletStates
<1>7. StepsWell(c)
  BY <1>1, <1>2, <1>5, <1>6 DEF StepsWell, WritesWell, AccountsTypeOK, Steps, AfterVerdict
<1>8. PlaceOK(c)'
  BY <1>1, <1>2, <1>3 DEF PlaceOK, Kind, UserKinds, CodeKinds, SessionKinds, OwnedSteps,
         AfterVerdict, AccountsTypeOK
<1> QED BY <1>7, <1>8

LEMMA ReadConsumerOK ==
    ASSUME AccountsInv, NEW c \in Calls, ReadConsumer(c), UNCHANGED accountVars
    PROVE  StepsWell(c) /\ PlaceOK(c)'
<1>1. /\ UNCHANGED <<row, req, user, verdict, tokens, accepted, wallet>>
      /\ pc[c] = "read"
  BY DEF ReadConsumer, accountVars
<1>2. PlaceOK(c) /\ AccountsTypeOK BY DEF AccountsInv
<1>3. /\ user[c] \in Owners /\ req[c] \in Requests /\ Kind(c) \in AllKinds
      /\ Kind(c) \in {"verifyOtp", "refresh", "verify", "screen", "submit", "case", "document",
                      "poll", "edit"}
      /\ Kind(c) = "verifyOtp" => c \in accepted
      /\ verdict[c] = Nothing
  BY <1>1, <1>2, RequestTyped
     DEF PlaceOK, Kind, AllKinds, UserKinds, CodeKinds, OnPath, OwnedSteps, AfterVerdict
<1>4. PICK r : r = row[user[c]] OBVIOUS
<1>5. \/ /\ r # NoRow /\ seen' = [seen EXCEPT ![c] = r]
         /\ \/ AfterRead(req[c], r) = "done" /\ pc' = [pc EXCEPT ![c] = "done"]
                /\ answer' = [answer EXCEPT ![c] = "unchanged"]
            \/ AfterRead(req[c], r) # "done" /\ pc' = [pc EXCEPT ![c] = AfterRead(req[c], r)]
                /\ answer' = answer
      \/ seen' = seen /\ pc' = [pc EXCEPT ![c] = "done"]
            /\ answer' = [answer EXCEPT ![c] = "error"]
  BY <1>4 DEF ReadConsumer, Exists, Continue, Finish, Fails, Goto
<1>6. \/ AfterRead(req[c], r) = "done"
      \/ Kind(c) \in SessionKinds /\ AfterRead(req[c], r) \in {"token", "ask"}
      \/ Kind(c) = "verify" /\ AfterRead(req[c], r) = "write" /\ InDocumentCheck(r)
      \/ Kind(c) \in {"verify", "screen", "submit"} /\ AfterRead(req[c], r) = "ask"
      \/ Kind(c) \in {"case", "document", "poll", "edit"} /\ AfterRead(req[c], r) = "write"
  BY <1>3 DEF AfterRead, Kind, SessionKinds
<1>7. r # NoRow => r \in RowType /\ Backed(user[c], r)
  BY <1>2, <1>3, <1>4 DEF AccountsTypeOK, AccountsInv, RowsBacked, Exists
<1>8. StepsWell(c)
  BY <1>1, <1>2, <1>3, <1>5, <1>6, <1>7 DEF StepsWell, WritesWell, AccountsTypeOK, Steps,
         OwnedSteps, AfterVerdict, Answers
<1>9. PlaceOK(c)'
  BY <1>1, <1>2, <1>3, <1>5, <1>6, <1>7, RowsAssumption
     DEF PlaceOK, Kind, UserKinds, CodeKinds, SessionKinds, OnPath, OwnedSteps, AfterVerdict,
         AccountsTypeOK
<1> QED BY <1>8, <1>9

LEMMA AskProviderOK ==
    ASSUME AccountsInv, NEW c \in Calls, AskProvider(c) \/ ScreenForTransaction(c),
           UNCHANGED accountVars
    PROVE  StepsWell(c) /\ PlaceOK(c)'
<1>1. /\ UNCHANGED <<row, req, user, seen, tokens, accepted, wallet>>
      /\ pc[c] = "ask"
  BY DEF AskProvider, ScreenForTransaction, accountVars
<1>2. PlaceOK(c) /\ AccountsTypeOK BY DEF AccountsInv
<1>3. /\ user[c] \in Owners /\ seen[c] \in RowType
      /\ Kind(c) \in {"verifyOtp", "refresh", "verify", "screen", "submit"}
      /\ Kind(c) = "verifyOtp" => c \in accepted
      /\ verdict[c] = Nothing
  BY <1>1, <1>2, RequestTyped
     DEF PlaceOK, Kind, AllKinds, UserKinds, CodeKinds, OnPath, OwnedSteps, AfterVerdict
<1>4. \/ /\ \E d \in Decisions : verdict' = [verdict EXCEPT ![c] = d]
         /\ answer' = answer
         /\ \/ pc' = [pc EXCEPT ![c] = "token"] /\ Kind(c) \in SessionKinds
            \/ pc' = [pc EXCEPT ![c] = "write"]
      \/ /\ verdict' = verdict
         /\ \/ pc' = [pc EXCEPT ![c] = "token"] /\ Kind(c) \in SessionKinds /\ answer' = answer
            \/ pc' = [pc EXCEPT ![c] = "done"] /\ answer' = [answer EXCEPT ![c] = "error"]
  BY DEF AskProvider, ScreenForTransaction, Kind, Continue, Finish, Fails, Goto
<1>5. StepsWell(c)
  BY <1>1, <1>2, <1>3, <1>4 DEF StepsWell, WritesWell, AccountsTypeOK, Steps,
         OwnedSteps, AfterVerdict, Answers
<1>6. PlaceOK(c)'
  BY <1>1, <1>2, <1>3, <1>4
     DEF PlaceOK, Kind, UserKinds, CodeKinds, SessionKinds, OnPath, OwnedSteps, AfterVerdict,
         AccountsTypeOK
<1> QED BY <1>5, <1>6

LEMMA WriteConsumerOK ==
    ASSUME AccountsInv, NEW c \in Calls, WriteConsumer(c), UNCHANGED accountVars
    PROVE  StepsWell(c) /\ PlaceOK(c)'
<1>1. /\ UNCHANGED <<req, user, seen, verdict, tokens, accepted, wallet>>
      /\ pc[c] = "write"
  BY DEF WriteConsumer, accountVars
<1>2. PlaceOK(c) /\ AccountsTypeOK BY DEF AccountsInv
<1>3. /\ user[c] \in Owners /\ seen[c] \in RowType /\ seen[c] # NoRow
      /\ req[c] \in Requests /\ Kind(c) \in AllKinds
      /\ Kind(c) \in CodeKinds => c \in accepted
  BY <1>1, <1>2, RequestTyped, RowsAssumption DEF PlaceOK, Kind, OwnedSteps
<1>4. PICK u \in Owners : u = user[c] BY <1>3
<1>5. row' = row \/ UpdateRow(u, Update(c))
  BY <1>4 DEF WriteConsumer, UpdateFails
<1>6. WritesWell
  <2>1. ASSUME NEW new, new = Merge(row[u], Update(c)), UpdateRow(u, Update(c))
        PROVE  new \in RowType /\ Backed(u, new)'
    <3>1. row[u] \in RowType /\ row[u] # NoRow
      BY <1>2, <2>1 DEF UpdateRow, Exists, AccountsTypeOK
    <3>2. /\ new \in RowType
          /\ \A x \in ContactsOf(new) :
                \/ x \in ContactsOf(row[u]) \cup ContactsOf(seen[c])
                \/ Kind(c) = "change" /\ x = X(c)
          /\ new.kyc = "APPROVED" => row[u].kyc = "APPROVED" \/ Approves(c)
      BY <1>1, <1>2, <2>1, <3>1, UpdateMakes
    <3>3. Backed(u, row[u]) /\ Backed(u, seen[c])
      BY <1>3, <1>4, <3>1 DEF AccountsInv, RowsBacked, Exists
    <3>4. \A x \in ContactsOf(new) : Proven(u, x)
      <4>1. Kind(c) = "change" => Proven(u, X(c))
        BY <1>3, <1>4 DEF CodeKinds, Proven
      <4> QED BY <3>2, <3>3, <4>1 DEF Backed
    <3>5. new.kyc = "APPROVED" => Sourced(u)
      BY <1>4, <3>2, <3>3 DEF Backed, Approves, Sourced
    <3>6. Backed(u, new)'
      BY <1>1, <3>4, <3>5 DEF Backed, Proven, Sourced, X
    <3> QED BY <3>2, <3>6
  <2>2. CASE UpdateRow(u, Update(c))
    <3>1. PICK new : new = Merge(row[u], Update(c)) OBVIOUS
    <3>2. row' = [row EXCEPT ![u] = new] /\ Free(u, new) BY <2>2, <3>1 DEF UpdateRow
    <3> QED BY <2>1, <2>2, <3>1, <3>2 DEF WritesWell
  <2> QED BY <1>5, <2>2 DEF WritesWell
<1>7. \/ pc' = [pc EXCEPT ![c] = "token"] /\ Kind(c) \in SessionKinds /\ answer' = answer
      \/ pc' = [pc EXCEPT ![c] = "feedback"] /\ NeedsFeedback(c) /\ answer' = answer
      \/ /\ pc' = [pc EXCEPT ![c] = "done"]
         /\ \E a \in {"changed", "updated", "error"} : answer' = [answer EXCEPT ![c] = a]
  BY DEF WriteConsumer, AfterWrite, Kind, Continue, Finish, Goto
<1>8. StepsWell(c)
  BY <1>1, <1>2, <1>3, <1>6, <1>7 DEF StepsWell, AccountsTypeOK, Steps,
         OwnedSteps, AfterVerdict, Answers
<1>9. PlaceOK(c)'
  BY <1>1, <1>2, <1>3, <1>7
     DEF PlaceOK, NeedsFeedback, Kind, UserKinds, CodeKinds, SessionKinds, OnPath, OwnedSteps,
         AfterVerdict, AccountsTypeOK
<1> QED BY <1>8, <1>9

LEMMA CallStepKeeps ==
    ASSUME AccountsInv, NEW c \in Calls, CallStep(c)
    PROVE  AccountsInv'
<1>1. CASE AccountStep(c)
  BY <1>1, ReadingSteps, ConsumeCodeOK, FindConsumerOK, CreateConsumerOK, GiveSessionOK,
     InvalidateTokenOK, InsertWalletOK, ScreenWalletOK, WriteWalletOK, StepKeeps
     DEF AccountStep
<1>2. CASE VerificationStep(c) /\ UNCHANGED accountVars
  BY <1>2, ReadingSteps, ReadConsumerOK, AskProviderOK, WriteConsumerOK, StepKeeps
     DEF VerificationStep
<1> QED BY <1>1, <1>2 DEF CallStep

-----------------------------------------------------------------------------
(* A request arrives *)

LEMMA ReceiveKeeps ==
    ASSUME AccountsInv, NEW c \in Calls, NEW r \in Requests, Receive(c, r)
    PROVE  AccountsInv'
<1>1. /\ UNCHANGED <<row, verdict, answer, tokens, accepted, wallet>>
      /\ pc[c] = "idle" /\ pc' = [pc EXCEPT ![c] = FirstStep(r.kind)]
      /\ req' = [req EXCEPT ![c] = r]
      /\ user' = [user EXCEPT ![c] = About(r)]
      /\ seen' = IF r.kind \in UserKinds THEN [seen EXCEPT ![c] = row[r.as]] ELSE seen
      /\ Given(r)
  BY DEF Receive, Continue, Goto, SetUser, accountVars
<1>2. PlaceOK(c) /\ AccountsTypeOK BY DEF AccountsInv
<1>3. user[c] = Nothing /\ seen[c] = NoRow /\ c \notin accepted /\ verdict[c] = Nothing
  BY <1>1, <1>2 DEF PlaceOK, AfterVerdict
<1>4. /\ r.kind \in AllKinds
      /\ r.kind \in UserKinds => About(r) \in Owners /\ About(r) = r.as
      /\ r.kind \in SessionKinds \cup {"login"} => About(r) = Nothing
      /\ r.kind \notin UserKinds \cup SessionKinds \cup {"login"} => About(r) \in Owners
  <2>1. r.kind \in AllKinds BY RequestTyped
  <2>2. CASE r.kind \in UserKinds
    <3>1. About(r) = r.as BY <2>2, RequestTyped DEF About
    <3> QED BY <2>1, <2>2, <3>1, RequestTyped DEF UserKinds, SessionKinds
  <2>3. CASE r.kind \in SessionKinds \cup {"login"}
    <3>1. "of" \notin DOMAIN r /\ r.kind \notin UserKinds
      BY <2>3, RequestTyped DEF UserKinds, SessionKinds
    <3>2. About(r) = Nothing BY <3>1 DEF About
    <3> QED BY <2>1, <2>3, <3>1, <3>2
  <2>4. CASE r.kind \notin UserKinds \cup SessionKinds \cup {"login"}
    <3>1. "of" \in DOMAIN r /\ r.of \in Owners
      BY <2>1, <2>4, RequestTyped DEF AllKinds, SessionKinds
    <3>2. About(r) = r.of BY <2>4, <3>1 DEF About
    <3> QED BY <2>1, <2>4, <3>1, <3>2
  <2> QED BY <2>2, <2>3, <2>4
<1>5. /\ About(r) \in Owners => row[About(r)] \in RowType /\ Backed(About(r), row[About(r)])
      /\ About(r) \in Owners \cup {Nothing}
  BY <1>1, <1>2, <1>4, AccountsAssumption
     DEF Given, Exists, AccountsInv, AccountsTypeOK, RowsBacked
<1>6. /\ r \in RequestType /\ FirstStep(r.kind) \in Steps \ {"idle", "done"}
      /\ OnPath(r.kind, FirstStep(r.kind))
      /\ FirstStep(r.kind) \notin {"ask", "write", "feedback", "token", "walletLookup", "walletWrite"}
      /\ FirstStep(r.kind) = "read" => r.kind \notin UserKinds \cup SessionKinds \cup {"login"}
      /\ r.kind \in CodeKinds => FirstStep(r.kind) \in {"check", "walletRead"}
  BY <1>4, RequestTyped DEF FirstStep, OnPath, AllKinds, UserKinds, CodeKinds, SessionKinds,
     Steps, OwnedSteps, AfterVerdict
<1>7. AccountsTypeOK'
  <2>1. seen' \in [Calls -> RowType \cup {NoRow}]
    BY <1>1, <1>2, <1>4, <1>5 DEF AccountsTypeOK
  <2>2. user' \in [Calls -> Owners \cup {Nothing}] /\ pc' \in [Calls -> Steps]
    BY <1>1, <1>2, <1>5, <1>6 DEF AccountsTypeOK
  <2> QED BY <1>1, <1>2, <1>6, <2>1, <2>2 DEF AccountsTypeOK
<1>8. /\ \A d \in Calls \ {c} : /\ pc'[d] = pc[d] /\ req'[d] = req[d] /\ user'[d] = user[d]
                                /\ seen'[d] = seen[d]
      /\ req'[c] = r /\ user'[c] = About(r) /\ pc'[c] = FirstStep(r.kind)
      /\ seen'[c] = IF r.kind \in UserKinds THEN row[r.as] ELSE NoRow
  BY <1>1, <1>2, <1>3 DEF AccountsTypeOK
<1>9. ASSUME NEW d \in Calls PROVE PlaceOK(d)'
  <2>1. CASE d # c
    <3>1. PlaceOK(d) BY DEF AccountsInv
    <3> QED BY <1>1, <1>8, <2>1, <3>1 DEF PlaceOK, Kind
  <2>2. CASE d = c
    <3>1. pc'[c] \notin AfterVerdict /\ (pc'[c] \in OwnedSteps => pc'[c] = "read")
      BY <1>4, <1>6, <1>8 DEF AfterVerdict, OwnedSteps, FirstStep, AllKinds, UserKinds
    <3>2. About(r) \in Owners => row[About(r)] \in RowType BY <1>5
    <3>3. r.kind \in SessionKinds => user'[c] = Nothing BY <1>4, <1>8
    <3>4. r.kind \in UserKinds => user'[c] = r.as /\ user'[c] \in Owners /\ seen'[c] \in RowType
      BY <1>4, <1>5, <1>8
    <3>5. r.kind \notin UserKinds => seen'[c] = NoRow
      BY <1>8
    <3>6. pc'[c] = "read" => user'[c] \in Owners
      BY <1>4, <1>6, <1>8
    <3>7. answer'[c] # "session" BY <1>1, <1>2 DEF PlaceOK
    <3>8. r.kind \in CodeKinds => pc'[c] \in {"check", "walletRead"}
      BY <1>6, <1>8
    <3> QED
      BY <1>1, <1>3, <1>6, <1>8, <2>2, <3>1, <3>3, <3>4, <3>5, <3>6, <3>7, <3>8
         DEF PlaceOK, Kind, Steps, AfterVerdict, OwnedSteps
  <2> QED BY <2>1, <2>2
<1>10. ASSUME NEW d \in Calls PROVE TokenOK(d)'
  <2>1. CASE d # c
    <3>1. TokenOK(d) BY DEF AccountsInv
    <3>2. req[d].token = c => ~(pc[d] # "idle" /\ req[d].kind = "refresh")
      BY <1>1, <3>1, AccountsAssumption DEF TokenOK, Kind
    <3> QED BY <1>1, <1>8, <2>1, <3>1, <3>2 DEF TokenOK, Kind
  <2>2. CASE d = c
    <3> SUFFICES ASSUME r.kind = "refresh"
                 PROVE  /\ r.token \in Earlier \/ (r.token \in Calls /\ pc'[r.token] = "done")
                        /\ user'[c] = Nothing
      BY <1>8, <2>2 DEF TokenOK, Kind
    <3>1. r.token \in Calls /\ answer[r.token] = "session" => pc[r.token] = "done"
      BY DEF AccountsInv, PlaceOK
    <3>2. r.token \in Earlier \/ (r.token \in Calls /\ pc[r.token] = "done")
      BY <1>1, <3>1 DEF Given
    <3>3. user'[c] = Nothing BY <1>4, <1>8 DEF SessionKinds
    <3> QED BY <1>1, <1>8, <3>2, <3>3
  <2> QED BY <2>1, <2>2
<1>11. RefreshTokenOnce'
  <2> SUFFICES ASSUME NEW d \in Calls, NEW e \in Calls, d # e,
                      user'[d] # Nothing, user'[e] # Nothing,
                      req'[d].kind = "refresh", req'[e].kind = "refresh"
               PROVE  req'[d].token # req'[e].token
    BY DEF RefreshTokenOnce, Kind
  <2>1. d # c /\ e # c BY <1>4, <1>8 DEF SessionKinds
  <2> QED BY <1>8, <2>1 DEF AccountsInv, RefreshTokenOnce, Kind
<1>12. \A n \in Names : TokenOwned(n)'
  <2> SUFFICES ASSUME NEW n \in Names, n \in tokens PROVE OwnerOfToken(n)' \in Owners
    BY <1>1 DEF TokenOwned
  <2>1. OwnerOfToken(n) \in Owners BY DEF AccountsInv, TokenOwned
  <2>2. n \in Earlier \/ n # c
    BY <1>3, <2>1, AccountsAssumption DEF OwnerOfToken
  <2> QED BY <1>8, <2>1, <2>2 DEF OwnerOfToken, Names
<1>13. \A d \in Calls : Stays(d)
  <2>1. user'[c] = user[c] \/ user[c] = Nothing BY <1>3
  <2> QED BY <1>1, <1>6, <1>8, <2>1 DEF Stays
<1>14. RowsBacked'
  <2>1. ASSUME NEW u \in Owners, NEW o, Backed(u, o) PROVE Backed(u, o)'
    <3>1. \A d \in Calls : PlaceOK(d) BY DEF AccountsInv
    <3>2. \A x : Proven(u, x) => Proven(u, x)' BY <1>2, <1>13, <3>1, FactsStay
    <3>3. Sourced(u) => Sourced(u)' BY <1>2, <1>13, <3>1, FactsStay
    <3> QED BY <2>1, <3>2, <3>3 DEF Backed
  <2>2. ASSUME NEW u \in Owners, Exists(u)' PROVE Backed(u, row[u])'
    <3>1. PICK o : o = row[u] OBVIOUS
    <3>2. Backed(u, o) BY <1>1, <2>2, <3>1 DEF Exists, AccountsInv, RowsBacked
    <3> QED BY <1>1, <2>1, <3>1, <3>2
  <2>3. ASSUME NEW d \in Calls, seen'[d] # NoRow PROVE Backed(user[d], seen[d])'
    <3>1. \E u \in Owners : \E o : u = user'[d] /\ o = seen'[d] /\ Backed(u, o)
      <4>1. CASE d # c
        BY <1>8, <2>3, <4>1 DEF AccountsInv, PlaceOK, RowsBacked
      <4>2. CASE d = c
        <5>1. r.kind \in UserKinds BY <1>8, <2>3, <4>2
        <5> QED BY <1>4, <1>5, <1>8, <4>2, <5>1
      <4> QED BY <4>1, <4>2
    <3>2. PICK u \in Owners : \E o : u = user'[d] /\ o = seen'[d] /\ Backed(u, o) BY <3>1
    <3>3. PICK o : u = user'[d] /\ o = seen'[d] /\ Backed(u, o) BY <3>2
    <3>4. Backed(u, o)' BY <2>1, <3>3
    <3> QED BY <3>3, <3>4
  <2> QED BY <2>2, <2>3 DEF RowsBacked
<1>15. ContactsUnique'
  BY <1>1 DEF AccountsInv, ContactsUnique, HeldBy, Exists
<1>16. ApprovedWalletIsScreened'
  <2> SUFFICES ASSUME NEW w \in Names, wallet[w] = "APPROVED",
                      w \in Earlier => InitialWallets[w] # "APPROVED"
               PROVE  \E d \in accepted : /\ req'[d].kind = "confirmWallet"
                                          /\ req'[d].wallet = w /\ verdict[d] = "clean"
    BY <1>1 DEF ApprovedWalletIsScreened, Kind, W
  <2>1. PICK d \in accepted : Kind(d) = "confirmWallet" /\ W(d) = w /\ verdict[d] = "clean"
    BY DEF AccountsInv, ApprovedWalletIsScreened
  <2>2. d \in Calls /\ d # c BY <1>3 DEF AccountsInv, AccountsTypeOK
  <2> QED BY <1>8, <2>1, <2>2 DEF Kind, W
<1> QED
  BY <1>7, <1>9, <1>10, <1>11, <1>12, <1>14, <1>15, <1>16 DEF AccountsInv

-----------------------------------------------------------------------------
(* The theorems *)

\* The invariant holds in every state, for any consumers, requests, overlaps and faults:
\* every contact and approval in a row, or in a row some call has read and may write
\* back, has its reason, and every presented token its owner.
THEOREM AccountsInvariance == AccountsSpec => []AccountsInv
<1>1. AccountsInit => AccountsInv BY AccountsInitOK
<1>2. AccountsInv /\ [AccountsNext]_vars => AccountsInv'
  <2> SUFFICES ASSUME AccountsInv, [AccountsNext]_vars PROVE AccountsInv'
    OBVIOUS
  <2>1. CASE AccountsNext
    BY <2>1, ReceiveKeeps, CallStepKeeps DEF AccountsNext
  <2>2. CASE UNCHANGED vars
    BY <2>2 DEF vars, rowCallVars, accountVars, AccountsInv, AccountsTypeOK, PlaceOK, TokenOK,
       TokenOwned, OwnerOfToken, RefreshTokenOnce, RowsBacked, Backed, Proven, Sourced,
       ContactsUnique, HeldBy, Exists, ApprovedWalletIsScreened, Kind, X, W
  <2> QED BY <2>1, <2>2
<1> QED BY <1>1, <1>2, PTL DEF AccountsSpec
\* One refresh token gets one call further, however often it is presented, with the
\* check that it exists and its deletion being two steps (AuthService.newAccessToken).
THEOREM RefreshTokensWorkOnce == AccountsSpec => []RefreshTokenOnce
<1>1. AccountsInv => RefreshTokenOnce BY DEF AccountsInv
<1> QED BY <1>1, AccountsInvariance, PTL

\* Whoever holds an email or a phone has proven it with a code, although updates write
\* back whole rows as they were read (ConsumerService.updateConsumer).
THEOREM ContactsWereProven == AccountsSpec => []ContactsAreProven
<1>1. AccountsInv => ContactsAreProven
  BY DEF AccountsInv, RowsBacked, Backed, Proven, ContactsAreProven
<1> QED BY <1>1, AccountsInvariance, PTL

\* No email and no phone belongs to two accounts.
THEOREM ContactsAreNotShared == AccountsSpec => []OneAccountPerContact
<1>1. ASSUME ContactsUnique PROVE OneAccountPerContact
  <2> SUFFICES ASSUME NEW x \in Contacts PROVE Cardinality(HeldBy(x)) <= 1
    BY DEF OneAccountPerContact
  <2>1. CASE HeldBy(x) = {}
    BY <2>1, FS_EmptySet
  <2>2. CASE HeldBy(x) # {}
    <3>1. PICK u : HeldBy(x) = {u} BY <1>1, <2>2 DEF ContactsUnique, HeldBy
    <3>2. Cardinality({u}) = 1 BY FS_Singleton
    <3>3. Cardinality(HeldBy(x)) = 1 BY <3>1, <3>2
    <3> QED BY <3>3
  <2> QED BY <2>1, <2>2
<1>2. AccountsInv => OneAccountPerContact BY <1>1 DEF AccountsInv
<1> QED BY <1>2, AccountsInvariance, PTL

\* An identity is approved on the word of the provider, of a case or of an
\* administrator, and stays traceable to it through every update with a stale row.
THEOREM ApprovalsHaveASource == AccountsSpec => []ApprovalHasASource
<1>1. AccountsInv => ApprovalHasASource
  BY DEF AccountsInv, RowsBacked, Backed, Sourced, ApprovalHasASource
<1> QED BY <1>1, AccountsInvariance, PTL

\* No wallet is APPROVED without a clean screening that followed an accepted code.
THEOREM ApprovedWalletsWereScreened == AccountsSpec => []ApprovedWalletIsScreened
<1>1. AccountsInv => ApprovedWalletIsScreened BY DEF AccountsInv
<1> QED BY <1>1, AccountsInvariance, PTL

\* What the app shows as APPROVED is what may transact, a search shows nobody else, and
\* neither it nor a lookup by contact shows anybody who is on hold but for a rejection
\* (StatesMapper, isActiveConsumer, findConsumersByPublicInfo, findConsumerByContactInfo).
THEOREM TheShownMayTransact == AccountsSpec => []ShownIsAllowed
<1>1. ASSUME NEW r \in RowType
      PROVE  /\ (UserState(r) = "APPROVED") = IsActive(r)
             /\ IsListed(r) => IsActive(r)
             /\ IsShown(r) /\ UserState(r) \in {"PERMANENT_HOLD", "TEMPORARY_HOLD"}
                  => "REJECTED" \in {r.kyc, r.document}
  <2> USE RowFields DEF KYCStatus, DocumentStatus
  <2>1. (UserState(r) = "APPROVED") = IsActive(r) /\ (IsListed(r) => IsActive(r))
    BY DEF UserState, OnHold, Verified, IsActive, IsListed
  <2>2. ASSUME IsShown(r), UserState(r) \in {"PERMANENT_HOLD", "TEMPORARY_HOLD"}
        PROVE  "REJECTED" \in {r.kyc, r.document}
    <3>1. r.isLocked = FALSE /\ r.isDisabled = FALSE
      BY <2>2 DEF IsShown, IsListed, IsFoundByContact
    <3> QED BY <2>2, <3>1 DEF UserState, OnHold, Verified
  <2> QED BY <2>1, <2>2
<1>2. AccountsInv => ShownIsAllowed
  BY <1>1 DEF AccountsInv, AccountsTypeOK, ShownIsAllowed, Exists
<1> QED BY <1>2, AccountsInvariance, PTL

-----------------------------------------------------------------------------
(* Calls that take turns *)

\* While calls take turns, the row a call has read is still the row when it writes
\* back: nobody else is running who could write one.
RowIsAsRead(c) == seen[c] = row[user[c]]
TurnOK(c) ==
    Running(c) =>
        /\ \A d \in Calls : Running(d) => d = c
        /\ pc[c] \in {"ask", "write"} \/ Kind(c) = "change" => RowIsAsRead(c)
TurnInv == Serial => \A c \in Calls : TurnOK(c)

LEMMA CallStepsWell ==
    ASSUME AccountsInv, NEW c \in Calls, CallStep(c)
    PROVE  StepsWell(c)
<1>1. CASE AccountStep(c)
  BY <1>1, ReadingSteps, ConsumeCodeOK, FindConsumerOK, CreateConsumerOK, GiveSessionOK,
     InvalidateTokenOK, InsertWalletOK, ScreenWalletOK, WriteWalletOK
     DEF AccountStep
<1>2. CASE VerificationStep(c) /\ UNCHANGED accountVars
  BY <1>2, ReadingSteps, ReadConsumerOK, AskProviderOK, WriteConsumerOK
     DEF VerificationStep
<1> QED BY <1>1, <1>2 DEF CallStep

\* What a call has read stays so until it writes back.
LEMMA StepStaysFresh ==
    ASSUME AccountsInv, NEW c \in Calls, CallStep(c),
           pc[c] \in {"ask", "write"} \/ Kind(c) = "change" => RowIsAsRead(c),
           Running(c)',
           pc'[c] \in {"ask", "write"} \/ Kind(c) = "change"
    PROVE  seen'[c] = row'[user'[c]]
<1>1. PlaceOK(c) /\ AccountsTypeOK /\ StepsWell(c) BY CallStepsWell DEF AccountsInv
<1>2. /\ pc[c] \notin {"idle", "done"} /\ Kind(c) \in AllKinds /\ OnPath(Kind(c), pc[c])
      /\ pc'[c] \notin {"idle", "done"}
  BY <1>1, RequestTyped DEF PlaceOK, StepsWell, Kind, Running
<1>3. CASE UNCHANGED <<row, user, seen>>
  <2>1. CASE pc[c] \in {"ask", "write"} \/ Kind(c) = "change"
    BY <1>3, <2>1 DEF RowIsAsRead
  <2>2. CASE pc[c] \notin {"ask", "write"} /\ Kind(c) # "change"
    <3>1. pc'[c] \in {"ask", "write"} BY <2>2
    <3>2. pc[c] = "other" \/ pc[c] = "read"
      <4>1. CASE PassGate(c) \/ ClearCodes(c) \/ SaveCode(c) \/ SendCode(c) \/ CheckCode(c)
                 \/ ValidateToken(c) \/ PostFeedback(c)
        BY <1>1, <3>1, <4>1 DEF PassGate, ClearCodes, SaveCode, SendCode, CheckCode, ValidateToken,
                                PostFeedback, Continue, Finish, Fails, Goto, AccountsTypeOK
      <4>2. CASE FindConsumer(c) \/ CreateConsumer(c) \/ GiveSession(c) \/ InvalidateToken(c)
        BY <1>1, <3>1, <4>2 DEF FindConsumer, CreateConsumer, GiveSession, InvalidateToken,
                                CheckLogin, Continue, Finish, Fails, Goto, AccountsTypeOK
      <4>3. CASE InsertWallet(c) \/ ReadWallet(c) \/ ScreenWallet(c) \/ LookupWallet(c)
                 \/ WriteWallet(c)
        BY <1>1, <3>1, <4>3 DEF InsertWallet, ReadWallet, ScreenWallet, LookupWallet, WriteWallet,
                                Continue, Finish, Fails, Goto, AccountsTypeOK
      <4>4. CASE ConsumeCode(c)
        <5>1. Kind(c) \in {"verifyOtp", "confirmWallet"}
          BY <1>2, <2>2, <4>4 DEF ConsumeCode, OnPath, AllKinds, UserKinds
        <5>2. AfterCode[Kind(c)] \in {"find", "sanctions"} BY <5>1 DEF AfterCode
        <5> QED BY <1>1, <3>1, <4>4, <5>2 DEF ConsumeCode, Continue, Goto, AccountsTypeOK
      <4>5. CASE FindOther(c) \/ ReadConsumer(c)
        BY <4>5 DEF FindOther, ReadConsumer
      <4>6. CASE AskProvider(c) \/ ScreenForTransaction(c) \/ WriteConsumer(c)
        BY <2>2, <4>6 DEF AskProvider, ScreenForTransaction, WriteConsumer
      <4> QED BY <4>1, <4>2, <4>3, <4>4, <4>5, <4>6 DEF CallStep, AccountStep, VerificationStep
    <3>3. pc[c] # "other"
      BY <1>2, <2>2 DEF OnPath, AllKinds, UserKinds
    <3>4. ReadConsumer(c)
      BY <3>2, <3>3
         DEF CallStep, AccountStep, VerificationStep, PassGate, ClearCodes, SaveCode, SendCode,
             CheckCode, ConsumeCode, FindConsumer, CreateConsumer, GiveSession, ValidateToken,
             InvalidateToken, FindOther, InsertWallet, ReadWallet, ScreenWallet, LookupWallet,
             WriteWallet, AskProvider, ScreenForTransaction, WriteConsumer, PostFeedback
    <3>5. seen' = [seen EXCEPT ![c] = row[user[c]]]
      BY <1>1, <1>2, <3>4 DEF ReadConsumer, Fails, Finish, Goto, AccountsTypeOK
    <3> QED BY <1>1, <1>3, <3>5 DEF AccountsTypeOK
  <2> QED BY <2>1, <2>2
<1>4. CASE ReadConsumer(c)
  <2>1. seen' = [seen EXCEPT ![c] = row[user[c]]]
    BY <1>1, <1>2, <1>4 DEF ReadConsumer, Fails, Finish, Goto, AccountsTypeOK
  <2> QED BY <1>1, <1>4, <2>1 DEF ReadConsumer, AccountsTypeOK
<1>5. CASE FindConsumer(c) \/ CreateConsumer(c) \/ InvalidateToken(c)
  <2>1. Kind(c) # "change" /\ pc[c] \notin {"ask", "write"}
    BY <1>2, <1>5 DEF FindConsumer, CreateConsumer, InvalidateToken, OnPath
  <2>2. pc'[c] \in {"read", "token", "create", "done"}
    BY <1>1, <1>5 DEF FindConsumer, CreateConsumer, InvalidateToken, CheckLogin, Continue, Finish,
                      Fails, Goto, AccountsTypeOK
  <2> QED BY <2>1, <2>2
<1>6. CASE WriteConsumer(c)
  <2>1. \/ AfterWrite(c)
        \/ Kind(c) \in SessionKinds /\ Continue(c, "token")
        \/ Finish(c, "error")
    BY <1>6 DEF WriteConsumer, Kind
  <2>2. \/ Kind(c) # "change" /\ (Continue(c, "token") \/ Continue(c, "feedback"))
        \/ Finish(c, "error") \/ Finish(c, "changed") \/ Finish(c, "updated")
    BY <2>1 DEF AfterWrite, Kind, SessionKinds, NeedsFeedback
  <2>3. pc'[c] \in {"token", "feedback", "done"} /\ (Kind(c) = "change" => pc'[c] = "done")
    BY <1>1, <2>2 DEF Continue, Finish, Goto, AccountsTypeOK
  <2> QED BY <1>2, <2>3
<1> QED
  BY <1>3, <1>4, <1>5, <1>6
     DEF CallStep, AccountStep, VerificationStep, PassGate, ClearCodes, SaveCode, SendCode,
         CheckCode, ConsumeCode, GiveSession, ValidateToken, FindOther, InsertWallet, ReadWallet,
         ScreenWallet, LookupWallet, WriteWallet, AskProvider, ScreenForTransaction, PostFeedback

LEMMA TurnNextKeeps ==
    ASSUME AccountsInv, TurnInv, [AccountsNext]_vars
    PROVE  TurnInv'
<1> SUFFICES ASSUME Serial PROVE \A c \in Calls : TurnOK(c)'
  BY DEF AccountsNext, vars, TurnInv, Serial
<1>0. \A c \in Calls : TurnOK(c) BY DEF TurnInv
<1>1. CASE UNCHANGED vars
  BY <1>0, <1>1 DEF vars, rowCallVars, TurnOK, Running, RowIsAsRead, Kind
<1>2. ASSUME NEW c \in Calls, CallStep(c), NEW d \in Calls PROVE TurnOK(d)'
  <2>1. StepsWell(c) /\ AccountsTypeOK BY <1>2, CallStepsWell DEF AccountsInv
  <2>2. Running(c) /\ req' = req /\ \A e \in Calls \ {c} : pc'[e] = pc[e] /\ ~Running(e)
    BY <1>0, <2>1 DEF StepsWell, AccountsTypeOK, TurnOK, Running
  <2>3. CASE d # c BY <2>2, <2>3 DEF TurnOK, Running
  <2>4. CASE d = c
    <3>1. pc[c] \in {"ask", "write"} \/ Kind(c) = "change" => RowIsAsRead(c)
      BY <1>0, <2>2 DEF TurnOK
    <3>2. Running(c)' /\ (pc'[c] \in {"ask", "write"} \/ Kind(c) = "change") =>
            seen'[c] = row'[user'[c]]
      BY <1>2, <3>1, StepStaysFresh
    <3> QED BY <2>2, <2>4, <3>2 DEF TurnOK, Running, RowIsAsRead, Kind
  <2> QED BY <2>3, <2>4
<1>3. ASSUME NEW c \in Calls, NEW r \in Requests, Receive(c, r), NEW d \in Calls PROVE TurnOK(d)'
  <2>0. AccountsTypeOK BY DEF AccountsInv
  <2>1. \A e \in Calls : ~Running(e) BY <1>3 DEF Receive
  <2>2. /\ pc' = [pc EXCEPT ![c] = FirstStep(r.kind)] /\ row' = row
        /\ req' = [req EXCEPT ![c] = r] /\ user' = [user EXCEPT ![c] = About(r)]
        /\ seen' = IF r.kind \in UserKinds THEN [seen EXCEPT ![c] = row[r.as]] ELSE seen
    BY <1>3 DEF Receive, Continue, Goto, SetUser
  <2>3. CASE d # c BY <2>0, <2>1, <2>2, <2>3 DEF TurnOK, Running, AccountsTypeOK
  <2>4. CASE d = c
    <3>1. pc'[c] \notin {"ask", "write"}
      BY <2>0, <2>2 DEF FirstStep, AccountsTypeOK
    <3>2. r.kind = "change" => seen'[c] = row'[user'[c]]
      BY <2>0, <2>2, RequestTyped DEF UserKinds, About, AccountsTypeOK
    <3>3. req'[c] = r BY <2>0, <2>2 DEF AccountsTypeOK
    <3>4. \A e \in Calls \ {c} : ~Running(e)' BY <2>0, <2>1, <2>2 DEF Running, AccountsTypeOK
    <3> QED BY <2>4, <3>1, <3>2, <3>3, <3>4 DEF TurnOK, RowIsAsRead, Kind
  <2> QED BY <2>3, <2>4
<1> QED BY <1>1, <1>2, <1>3 DEF AccountsNext

\* What updateConsumer is given beside the fields the call is about is what the call
\* has read.
LEMMA UpdateRepeats ==
    ASSUME AccountsTypeOK, NEW c \in Calls, PlaceOK(c), pc[c] = "write",
           NEW f \in DOMAIN Update(c) \ FieldsOf(req[c])
    PROVE  Update(c)[f] = seen[c][f]
<1>0. /\ seen[c] \in RowType /\ req[c] \in Requests /\ Kind(c) \in AllKinds
      /\ DOMAIN seen[c] = Fields
  BY RequestTyped, RowFields DEF PlaceOK, Kind
<1>1. Kind(c) \in SessionKinds \cup {"screen", "verify", "submit", "case", "document", "poll",
                                     "edit", "change"}
  BY <1>0 DEF PlaceOK, OnPath, AllKinds, UserKinds, SessionKinds
<1>2. CASE Kind(c) \in SessionKinds \cup {"screen"}
  <2>1. Update(c) = [seen[c] EXCEPT !.kyc = verdict[c]] /\ FieldsOf(req[c]) = {"kyc"}
    BY <1>2 DEF Update, Decided, FieldsOf, Kind, SessionKinds
  <2> QED BY <1>0, <2>1
<1>3. CASE Kind(c) = "verify"
  <2>1. FieldsOf(req[c]) = {"kyc", "document"}
    BY <1>3 DEF FieldsOf, Kind, SessionKinds
  <2>2. \/ Update(c) = [seen[c] EXCEPT !.kyc = verdict[c]]
        \/ Update(c) = [seen[c] EXCEPT !.document = "PENDING"]
    BY <1>3 DEF Update, Decided, Kind, SessionKinds
  <2> QED BY <1>0, <2>1, <2>2
<1>4. CASE Kind(c) \in {"submit", "document", "poll"}
  <2>1. FieldsOf(req[c]) = {"document"} BY <1>4 DEF FieldsOf, Kind, SessionKinds
  <2>2. \E x : Update(c) = [seen[c] EXCEPT !.document = x]
    BY <1>4 DEF Update, Kind, SessionKinds
  <2> QED BY <1>0, <2>1, <2>2
<1>5. CASE Kind(c) = "case"
  <2>1. FieldsOf(req[c]) = {"kyc"} BY <1>5 DEF FieldsOf, Kind, SessionKinds
  <2>2. Update(c) = [kyc |-> req[c].result, document |-> seen[c].document]
    BY <1>5 DEF Update, Kind, SessionKinds
  <2>3. f = "document" BY <2>1, <2>2
  <2> QED BY <2>2, <2>3
<1>6. CASE Kind(c) = "edit"
  <2>1. FieldsOf(req[c]) = DOMAIN req[c].props BY <1>6 DEF FieldsOf, Kind, SessionKinds
  <2>2. Update(c) = Differing(req[c].props, seen[c]) BY <1>6 DEF Update, Kind, SessionKinds
  <2> QED BY <2>1, <2>2 DEF Differing
<1>7. CASE Kind(c) = "change"
  <2>1. FieldsOf(req[c]) = DOMAIN AsContact(X(c)) /\ Update(c) = AsContact(X(c))
    BY <1>7 DEF FieldsOf, Update, Kind, X, SessionKinds
  <2> QED BY <2>1
<1> QED BY <1>1, <1>2, <1>3, <1>4, <1>5, <1>6, <1>7

\* While calls take turns, an update with a row read before changes nothing the call is
\* not about - the locks, the contacts, the other check - though it writes back the
\* whole row, and whichever of its queries fail.
THEOREM UpdatesKeepToTheirFields == AccountsSpec => OwnFieldsInTurn
<1>1. AccountsInit => TurnInv
  BY DEF AccountsInit, RowsInit, TurnInv, TurnOK, Running
<1>2. AccountsInv /\ TurnInv /\ [AccountsNext]_vars => TurnInv'
  BY TurnNextKeeps
<1>3. ASSUME AccountsInv, TurnInv, AccountsNext, Serial, NEW c \in Calls
      PROVE  WritesOnlyItsFields(c)
  <2> SUFFICES ASSUME pc[c] = "write", pc'[c] # "write",
                      NEW f \in DOMAIN row[user[c]] \ FieldsOf(req[c])
               PROVE  row'[user[c]][f] = row[user[c]][f]
    BY DEF WritesOnlyItsFields
  <2>0. AccountsTypeOK /\ PlaceOK(c) /\ Running(c) /\ TurnOK(c)
    BY <1>3 DEF AccountsInv, TurnInv, Running
  <2>1. PICK d \in Calls : (\E r \in Requests : Receive(d, r)) \/ CallStep(d)
    BY <1>3 DEF AccountsNext
  <2>2. d = c /\ CallStep(c)
    <3>1. ASSUME NEW r \in Requests, Receive(d, r) PROVE FALSE
      BY <1>3, <2>0, <3>1 DEF Receive
    <3>2. CASE CallStep(d)
      <4>1. Running(d) BY <1>3, <3>2, CallStepsWell DEF StepsWell, Running
      <4> QED BY <2>0, <3>2, <4>1 DEF TurnOK
    <3> QED BY <2>1, <3>1, <3>2
  <2>3. WriteConsumer(c)
    BY <2>2 DEF CallStep, AccountStep, VerificationStep, PassGate, ClearCodes, SaveCode, SendCode,
         CheckCode, ConsumeCode, FindConsumer, CreateConsumer, GiveSession, ValidateToken,
         InvalidateToken, FindOther, InsertWallet, ReadWallet, ScreenWallet, LookupWallet,
         WriteWallet, ReadConsumer, AskProvider, ScreenForTransaction, PostFeedback
  <2>4. row' = row \/ UpdateRow(user[c], Update(c))
    BY <2>3 DEF WriteConsumer, UpdateFails
  <2>5. CASE UpdateRow(user[c], Update(c))
    <3>1. user[c] \in Owners /\ seen[c] = row[user[c]]
      BY <2>0 DEF PlaceOK, OwnedSteps, TurnOK, RowIsAsRead
    <3>2. row'[user[c]] = Merge(row[user[c]], Update(c))
      BY <2>0, <2>5, <3>1 DEF UpdateRow, AccountsTypeOK
    <3>3. f \in DOMAIN Update(c) => Update(c)[f] = row[user[c]][f]
      BY <2>0, <3>1, UpdateRepeats
    <3> QED BY <3>2, <3>3 DEF Merge
  <2> QED BY <2>4, <2>5
<1>4. AccountsInv /\ TurnInv /\ [AccountsNext]_vars =>
        [Serial => \A c \in Calls : WritesOnlyItsFields(c)]_vars
  BY <1>3
<1> QED BY <1>1, <1>2, <1>4, AccountsInvariance, PTL DEF AccountsSpec, OwnFieldsInTurn
=============================================================================
