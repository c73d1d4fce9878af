---------------------------- MODULE Verification ----------------------------
(***************************************************************************)
(* VerificationService and the provider's answers: the identity check, the *)
(* check at each login, the check of a transaction, documents, the case    *)
(* and document webhooks; and the updates users and administrators make.   *)
(* Each reads the consumer's row, may ask the provider, and writes back.   *)
(***************************************************************************)
EXTENDS ConsumerRows

\* What the provider's risk levels, its document results and its cases come to.
Decisions == {"APPROVED", "PENDING", "REJECTED"}
DocumentResults == {"PENDING", "APPROVED", "RECAPTURE", "REJECTED"}
\* A case that is not resolved, or neither approved nor declined, changes nothing.
CaseDecides(result) == result # "PENDING"
Edits == [isLocked : BOOLEAN] \cup [isDisabled : BOOLEAN] \cup [kyc : KYCStatus]
            \cup [document : DocumentStatus]

\* Kinds of call that check the identity while a session is given out.
SessionKinds == {"verifyOtp", "refresh"}

VerificationRequests ==
    [kind : {"verify", "screen", "submit"}, of : Owners]
    \cup [kind : {"case"}, of : Owners, result : Decisions]
    \cup [kind : {"document", "poll"}, of : Owners, result : DocumentResults]
    \cup [kind : {"edit"}, of : Owners, props : Edits]

\* Documents are checked once the identity is APPROVED; they are sent elsewhere.
InDocumentCheck(r) == r.kyc = "APPROVED" /\ r.document # "APPROVED"

\* An account that has not been through the identity check has nothing to check at
\* a login.
AfterRead(r, seenRow) ==
    CASE r.kind \in SessionKinds -> IF seenRow.kyc = "NOT_SUBMITTED" THEN "token" ELSE "ask"
      [] r.kind = "verify" ->
            IF ~InDocumentCheck(seenRow) THEN "ask"
            ELSE IF seenRow.document = "REQUIRED" THEN "write" ELSE "done"
      [] r.kind \in {"screen", "submit"} -> "ask"
      [] r.kind = "case" -> IF CaseDecides(r.result) THEN "write" ELSE "done"
      [] r.kind \in {"document", "edit"} -> "write"
      [] r.kind = "poll" -> IF seenRow.document = r.result THEN "done" ELSE "write"

\* getConsumer.
ReadConsumer(c) ==
    /\ pc[c] = "read"
    /\ \/ /\ Exists(user[c])
          /\ seen' = [seen EXCEPT ![c] = row[user[c]]]
          /\ IF AfterRead(req[c], row[user[c]]) = "done" THEN Finish(c, "unchanged")
             ELSE Continue(c, AfterRead(req[c], row[user[c]]))
       \/ UNCHANGED seen /\ Fails(c)
    /\ UNCHANGED <<row, req, user, verdict>>

\* The provider's answer, and the VerificationData row of the session.  A login
\* swallows a failure, and acts on nothing but a rejection.
AskProvider(c) ==
    /\ pc[c] = "ask" /\ req[c].kind # "screen"
    /\ \/ \E d \in Decisions :
            /\ verdict' = [verdict EXCEPT ![c] = d]
            /\ Continue(c, IF req[c].kind \in SessionKinds /\ d # "REJECTED" THEN "token"
                           ELSE "write")
       \/ /\ Faulty /\ UNCHANGED verdict
          /\ IF req[c].kind \in SessionKinds THEN Continue(c, "token") ELSE Finish(c, "error")
    /\ UNCHANGED <<row, req, user, seen>>

\* transactionVerification: both wallets, then the provider; its failure is thrown.
ScreenForTransaction(c) ==
    /\ pc[c] = "ask" /\ req[c].kind = "screen"
    /\ \/ \E d \in Decisions :
            verdict' = [verdict EXCEPT ![c] = d] /\ Continue(c, "write")
       \/ UNCHANGED verdict /\ Fails(c)
    /\ UNCHANGED <<row, req, user, seen>>

\* shouldUpdateField: an administrator's value that differs from the row read.
Differing(props, seenRow) ==
    [f \in {g \in DOMAIN props : props[g] # seenRow[g]} |-> props[f]]

\* Variant: the line the code has commented out, "documentVerificationStatus:
\* DocumentVerificationStatus.NOT_REQUIRED".
DecidedResets(c) == [seen[c] EXCEPT !.kyc = verdict[c], !.document = "NOT_REQUIRED"]
\* Variant: what the provider has not decided on is let through.
DecidedLeniently(c) == [seen[c] EXCEPT !.kyc = IF verdict[c] = "PENDING" THEN "APPROVED" ELSE verdict[c]]
\* The whole row as it was read, with the provider's decision.
Decided(c) == [seen[c] EXCEPT !.kyc = verdict[c]]

\* What updateConsumer is given.
Update(c) ==
    CASE req[c].kind \in SessionKinds \cup {"screen"} -> Decided(c)
      [] req[c].kind = "verify" ->
            IF InDocumentCheck(seen[c]) THEN [seen[c] EXCEPT !.document = "PENDING"] ELSE Decided(c)
      [] req[c].kind = "submit" -> [seen[c] EXCEPT !.document = "PENDING"]
      [] req[c].kind \in {"document", "poll"} -> [seen[c] EXCEPT !.document = req[c].result]
      [] req[c].kind = "case" -> [kyc |-> req[c].result, document |-> seen[c].document]
      [] req[c].kind = "edit" -> Differing(req[c].props, seen[c])
      [] req[c].kind = "change" -> AsContact(req[c].contact)

\* A decision is reported back to the provider, which reads the consumer again.
NeedsFeedback(c) ==
    \/ req[c].kind = "case"
    \/ req[c].kind = "verify" /\ verdict[c] \in {"APPROVED", "REJECTED"}
    \/ req[c].kind = "document"
        /\ req[c].result \in {"APPROVED", "REJECTED", "RECAPTURE"}

AfterWrite(c) ==
    CASE req[c].kind \in SessionKinds -> Continue(c, "token")
      [] req[c].kind = "change" -> Finish(c, "changed")
      [] NeedsFeedback(c) -> Continue(c, "feedback")
      [] OTHER -> Finish(c, "updated")

\* A login goes on when the write fails.
WriteConsumer(c) ==
    /\ pc[c] = "write"
    /\ \/ UpdateRow(user[c], Update(c)) /\ AfterWrite(c)
       \/ /\ UpdateFails(user[c], Update(c))
          /\ IF req[c].kind \in SessionKinds THEN Continue(c, "token") ELSE Finish(c, "error")
    /\ UNCHANGED <<req, user, seen, verdict>>

PostFeedback(c) ==
    /\ pc[c] = "feedback"
    /\ Finish(c, "updated") \/ (req[c].kind # "document" /\ Fails(c))
    /\ UNCHANGED <<row, req, user, seen, verdict>>

VerificationStep(c) ==
    ReadConsumer(c) \/ AskProvider(c) \/ ScreenForTransaction(c) \/ WriteConsumer(c) \/ PostFeedback(c)

-----------------------------------------------------------------------------
(* Properties *)

\* The fields a call of each kind is about.
FieldsOf(r) ==
    CASE r.kind \in SessionKinds \cup {"screen", "case"} -> {"kyc"}
      [] r.kind = "verify" -> {"kyc", "document"}
      [] r.kind \in {"submit", "document", "poll"} -> {"document"}
      [] r.kind = "edit" -> DOMAIN r.props
      [] r.kind = "change" -> DOMAIN AsContact(r.contact)

\* A call writes what it is about and leaves the rest of the row as it finds it:
\* the contacts, the locks, the other check.  It writes back a whole row.
WritesOnlyItsFields(c) ==
    pc[c] = "write" /\ pc'[c] # "write" =>
        \A f \in DOMAIN row[user[c]] \ FieldsOf(req[c]) :
            row'[user[c]][f] = row[user[c]][f]

\* An identity is approved on the word of the provider, of its case or of an
\* administrator, whatever fails and however calls overlap.
ApprovalHasASource ==
    \A u \in Owners :
        Exists(u) /\ row[u].kyc = "APPROVED" /\ (u \in Consumers => InitialRows[u].kyc # "APPROVED")
        => \E c \in Calls :
            /\ user[c] = u
            /\ \/ verdict[c] = "APPROVED"
               \/ req[c].kind = "case" /\ req[c].result = "APPROVED"
               \/ req[c].kind = "edit" /\ req[c].props = [kyc |-> "APPROVED"]

-----------------------------------------------------------------------------
(* What a comment says and the code does not keep *)

\* verification.service.ts: "when the caller (app) gets the consumer data it will
\* see that the user is blocked".  A rejected identity stays rejected until a call
\* decides on identities again.
OnlyDecisionsUnblock ==
    [][\A u \in Owners :
        Exists(u) /\ row[u].kyc = "REJECTED" /\ row'[u].kyc # "REJECTED" =>
            \E c \in Calls :
                /\ pc[c] = "write" /\ pc'[c] # "write" /\ user[c] = u
                /\ "kyc" \in FieldsOf(req[c])]_<<row, rowCallVars>>
=============================================================================
