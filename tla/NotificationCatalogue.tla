------------------------ MODULE NotificationCatalogue ------------------------
(***************************************************************************)
(* What a notice is made of, in the five tables the code keeps by hand:    *)
(* the mappers that fill its payload, the validators that accept it, the   *)
(* mediums of its Event row, the handlers that listen, and the templates   *)
(* they print.  A payload is the set of its fields that have a value and   *)
(* the set of those that are null; the fields of its "params" are among    *)
(* them.  A consumer is the set of the fields their row has.               *)
(***************************************************************************)
EXTENDS Naturals, Sequences

-----------------------------------------------------------------------------
(* Mappers: NotificationPayloadMapper *)

\* A field is given by the sender, copied from the row - null when the row has none -
\* or left out when the row has none.
Payload(always, copied, ifThere, row) ==
    [given |-> always \cup ((copied \cup ifThere) \cap row), null |-> copied \ row]
And(p, q) == [given |-> p.given \cup q.given, null |-> p.null \cup q.null]

BaseParams(row) == Payload({"nobaUserID"}, {"email", "firstName"}, {"lastName", "locale"}, row)

KycEvents == {"kyc.approved.us", "kyc.approved.non.us", "kyc.denied", "kyc.pending.or.flagged"}
DocumentEvents == {"document.verification.pending", "document.verification.rejected",
                   "document.verification.technical.failure"}

\* A code goes to the email or to the phone it was asked for.
OtpPayload(via) == Payload({via, "otp", "locale"}, {}, {}, {})
PhoneCodePayload == Payload({"phone", "otp", "locale"}, {}, {}, {})
WalletCodePayload(via, row) ==
    Payload({"nobaUserID", "otp", "walletAddress"}, {"firstName", via}, {"locale"}, row)
WelcomePayload(row) == Payload({}, {"email"}, {"locale"}, row)
EmployerRequestPayload(row) ==
    Payload({"email", "locale"}, {"firstName", "lastName"}, {}, row)
InvitePayload(employer) ==
    Payload({"email", "companyName", "inviteUrl", "employeeID"}, {}, {"locale"}, employer)
PayrollStatusPayload == Payload({"nobaPayrollID", "payrollStatus"}, {}, {}, {})
ReminderPayload(row) ==
    Payload({"nobaUserID", "eventID"}, {"email", "firstName", "handle", "lastName", "phone"},
            {"locale"}, row)

\* toTransactionParams: the transactions that are notified of have both amounts.
toTransactionParams ==
    {"transactionRef", "createdTimestamp", "processingFees", "nobaFees", "debitAmount",
     "debitCurrency", "creditAmount", "creditCurrency", "exchangeRate", "totalFees"}

\* A transfer's notice names the receiver and both handles; the receiver's own also
\* names the sender.
OfCredit == [firstName |-> "creditConsumer_firstName", lastName |-> "creditConsumer_lastName",
             handle |-> "creditConsumer_handle"]
OfDebit == [firstName |-> "debitConsumer_firstName", lastName |-> "debitConsumer_lastName",
            handle |-> "debitConsumer_handle"]
Named(names, fields, row) ==
    [given |-> {names[f] : f \in fields \cap row}, null |-> {names[f] : f \in fields \ row}]
toTransferParams(type, debit, credit) ==
    And(Named(OfCredit, {"firstName", "lastName", "handle"}, credit),
        Named(OfDebit, IF type = "transfer.received" THEN {"firstName", "lastName", "handle"}
                       ELSE {"handle"}, debit))

\* Notices of what failed say so in the consumer's language.
Failures == {"deposit.failed", "withdrawal.failed", "transfer.failed",
             "credit.adjustment.failed", "debit.adjustment.failed"}
Reason(type) == IF type \in Failures THEN {"reasonDeclined"} ELSE {}

DepositEvents == {"deposit.initiated", "deposit.completed", "deposit.failed"}
WithdrawalEvents == {"withdrawal.initiated", "withdrawal.completed", "withdrawal.failed"}
TransferEvents == {"transfer.completed", "transfer.failed", "transfer.received"}
AdjustmentEvents == {"credit.adjustment.completed", "credit.adjustment.failed",
                     "debit.adjustment.completed", "debit.adjustment.failed"}
TransactionEvents == DepositEvents \cup WithdrawalEvents \cup TransferEvents
                     \cup AdjustmentEvents \cup {"payroll.deposit.completed"}

\* No user ID in the notices of what has only begun.
UserID(type) ==
    IF type \in {"deposit.initiated", "withdrawal.initiated"} THEN {} ELSE {"nobaUserID"}

DepositPayload(type, row) ==
    Payload(toTransactionParams \cup Reason(type) \cup UserID(type),
            {"email", "firstName", "handle", "locale"}, {}, row)
PayrollDepositPayload(row) ==
    Payload(toTransactionParams \cup {"companyName", "nobaUserID"},
            {"email", "firstName", "handle", "locale"}, {}, row)
WithdrawalPayload(type, row) ==
    Payload(toTransactionParams \cup Reason(type) \cup UserID(type),
            {"email", "firstName", "handle"}, {"locale"}, row)
AdjustmentPayload(type, row) ==
    Payload(toTransactionParams \cup Reason(type) \cup {"nobaUserID"},
            {"email", "firstName", "handle"}, {"locale"}, row)
TransferPayload(type, row, debit, credit) ==
    And(Payload(toTransactionParams \cup Reason(type) \cup {"nobaUserID"},
                {"email", "firstName", "handle"}, {"locale"}, row),
        toTransferParams(type, debit, credit))

\* The payload of a notice: to is the row of who it is for - of the employer, for an
\* invitation - and debit and credit those of the two sides of a transfer.
PayloadOf(type, via, to, debit, credit) ==
    CASE type \in DepositEvents -> DepositPayload(type, to)
      [] type \in WithdrawalEvents -> WithdrawalPayload(type, to)
      [] type \in TransferEvents -> TransferPayload(type, to, debit, credit)
      [] type \in AdjustmentEvents -> AdjustmentPayload(type, to)
      [] type = "payroll.deposit.completed" -> PayrollDepositPayload(to)
      [] type \in KycEvents \cup DocumentEvents -> BaseParams(to)
      [] type = "otp" -> OtpPayload(via)
      [] type = "phone.verification.code" -> PhoneCodePayload
      [] type = "wallet.update.verification.code" -> WalletCodePayload(via, to)
      [] type = "welcome.message" -> WelcomePayload(to)
      [] type = "employee.request" -> EmployerRequestPayload(to)
      [] type = "invite.employee" -> InvitePayload(to)
      [] type = "update.payroll.status" -> PayrollStatusPayload
      [] type = "scheduled.reminder" -> ReminderPayload(to)

\* Its language: the consumer's, or what a code's phone number suggests.  A request to an
\* employer is given the consumer's locale and written in English all the same: the
\* mapper is not passed it.
LanguageOf(type, via, to) ==
    IF type = "employee.request" THEN "en"
    ELSE IF "locale" \in to THEN "es_co"
    ELSE IF /\ type \in {"otp", "phone.verification.code"}
            /\ via = "phone" /\ "+57" \in to
    THEN "es_co" ELSE "en"

-----------------------------------------------------------------------------
(* Validators: the fields each requires *)

TransactionParamsSchema == toTransactionParams \ {"exchangeRate"}
TransferParamsSchema == {"creditConsumer_firstName", "creditConsumer_lastName",
                         "debitConsumer_handle", "creditConsumer_handle"}
\* Variant: the receiver's notice is checked like the sender's.
ReceivedParamsSchemaOfReceiver == TransferParamsSchema
ReceivedParamsSchema == TransferParamsSchema
                        \cup {"debitConsumer_firstName", "debitConsumer_lastName"}

validateSendOtpEvent == {"otp"}
validateSendWalletUpdateVerificationCodeEvent == {"otp", "nobaUserID", "walletAddress"}
validateSendPhoneVerificationCodeEvent == {"phone", "otp"}
validateSendWelcomeMessageEvent == {"email"}
validateSendKycApprovedUSEvent == {"email", "nobaUserID"}
validateSendKycApprovedNonUSEvent == {"email", "nobaUserID"}
validateSendKycDeniedEvent == {"email", "nobaUserID"}
validateSendKycPendingOrFlaggedEvent == {"email", "nobaUserID"}
validateDocumentVerificationPendingEvent == {"email", "nobaUserID"}
validateDocumentVerificationRejectedEvent == {"email", "nobaUserID"}
validateDocumentVerificationTechnicalFailureEvent == {"email", "nobaUserID"}
validateSendEmployerRequestEvent == {"email", "firstName"}
validateSendInviteEmployeeEvent == {"companyName", "inviteUrl", "employeeID", "email"}
validateSendUpdatePayrollStatusEvent == {"nobaPayrollID", "payrollStatus"}
validateSendScheduledReminderEvent == {"nobaUserID", "eventID"}

OfTransaction == {"email", "handle"} \cup TransactionParamsSchema
validateDepositInitiatedEvent == OfTransaction
validateDepositCompletedEvent == OfTransaction \cup {"nobaUserID"}
validateDepositFailedEvent == OfTransaction \cup {"nobaUserID", "reasonDeclined"}
validateWithdrawalInitiatedEvent == OfTransaction
validateWithdrawalCompletedEvent == OfTransaction \cup {"nobaUserID"}
validateWithdrawalFailedEvent == OfTransaction \cup {"nobaUserID", "reasonDeclined"}
validateTransferCompletedEvent == OfTransaction \cup TransferParamsSchema
validateTransferFailedEvent == OfTransaction \cup TransferParamsSchema \cup {"reasonDeclined"}
validateTransferReceivedEvent == OfTransaction \cup ReceivedParamsSchema
validatePayrollDepositCompletedEvent ==
    OfTransaction \cup {"firstName", "companyName", "nobaUserID"}
validateSendCreditAdjustmentCompletedEvent == OfTransaction
validateSendCreditAdjustmentFailedEvent == OfTransaction \cup {"reasonDeclined"}
validateSendDebitAdjustmentCompletedEvent == OfTransaction
validateSendDebitAdjustmentFailedEvent == OfTransaction \cup {"reasonDeclined"}

EventTypes ==
    TransactionEvents \cup KycEvents \cup DocumentEvents
    \cup {"otp", "wallet.update.verification.code", "phone.verification.code",
          "welcome.message", "employee.request", "invite.employee", "update.payroll.status",
          "scheduled.reminder"}

\* createEvent: the validator of each event.
Required(type) ==
    CASE type = "otp" -> validateSendOtpEvent
      [] type = "wallet.update.verification.code" ->
            validateSendWalletUpdateVerificationCodeEvent
      [] type = "phone.verification.code" -> validateSendPhoneVerificationCodeEvent
      [] type = "welcome.message" -> validateSendWelcomeMessageEvent
      [] type = "kyc.approved.us" -> validateSendKycApprovedUSEvent
      [] type = "kyc.approved.non.us" -> validateSendKycApprovedNonUSEvent
      [] type = "kyc.denied" -> validateSendKycDeniedEvent
      [] type = "kyc.pending.or.flagged" -> validateSendKycPendingOrFlaggedEvent
      [] type = "document.verification.pending" -> validateDocumentVerificationPendingEvent
      [] type = "document.verification.rejected" -> validateDocumentVerificationRejectedEvent
      [] type = "document.verification.technical.failure" ->
            validateDocumentVerificationTechnicalFailureEvent
      [] type = "deposit.completed" -> validateDepositCompletedEvent
      [] type = "deposit.initiated" -> validateDepositInitiatedEvent
      [] type = "deposit.failed" -> validateDepositFailedEvent
      [] type = "withdrawal.completed" -> validateWithdrawalCompletedEvent
      [] type = "withdrawal.initiated" -> validateWithdrawalInitiatedEvent
      [] type = "withdrawal.failed" -> validateWithdrawalFailedEvent
      [] type = "transfer.completed" -> validateTransferCompletedEvent
      [] type = "transfer.received" -> validateTransferReceivedEvent
      [] type = "transfer.failed" -> validateTransferFailedEvent
      [] type = "payroll.deposit.completed" -> validatePayrollDepositCompletedEvent
      [] type = "employee.request" -> validateSendEmployerRequestEvent
      [] type = "invite.employee" -> validateSendInviteEmployeeEvent
      [] type = "update.payroll.status" -> validateSendUpdatePayrollStatusEvent
      [] type = "credit.adjustment.completed" -> validateSendCreditAdjustmentCompletedEvent
      [] type = "credit.adjustment.failed" -> validateSendCreditAdjustmentFailedEvent
      [] type = "debit.adjustment.completed" -> validateSendDebitAdjustmentCompletedEvent
      [] type = "debit.adjustment.failed" -> validateSendDebitAdjustmentFailedEvent
      [] type = "scheduled.reminder" -> validateSendScheduledReminderEvent

BaseEvent == {"email", "phone", "nobaUserID", "firstName", "lastName", "handle", "locale"}

\* The fields a validator looks at: what it does not know may be anything.
Known(type) == Required(type) \cup (IF type = "welcome.message" THEN {} ELSE BaseEvent)
\* A field may be missing but not null, except in a reminder.
Nullable(type) == IF type = "scheduled.reminder" THEN BaseEvent \ {"nobaUserID"} ELSE {}

\* localizeAmount: whether the text of a whole amount, of one with cents and of one of
\* more than a thousand is still a number.  Spanish writes cents after a comma, English
\* thousands.
IsNumber(amount, language) ==
    amount = "whole" \/ amount = (IF language = "es_co" THEN "thousands" ELSE "cents")

IsAccepted(type, payload, nobaFee, language) ==
    /\ Required(type) \subseteq payload.given
    /\ payload.null \cap Known(type) \subseteq Nullable(type)
    /\ type \in TransactionEvents => IsNumber(nobaFee, language)

-----------------------------------------------------------------------------
(* Mediums *)

ReminderEvents == {"deposit.funds.reminder", "request.employer.reminder", "refer.a.friend",
                   "dollar.value.drop", "send.money.reminder"}
WithPush == {"deposit.completed", "deposit.failed", "withdrawal.completed", "withdrawal.failed",
             "payroll.deposit.completed", "credit.adjustment.completed"} \cup TransferEvents

\* preferredNotificationMedium, by the name of the Event row.
Preferred(name) ==
    CASE name \in {"otp", "wallet.update.verification.code"} -> {"email", "sms"}
      [] name = "phone.verification.code" -> {"sms"}
      [] name = "update.payroll.status" -> {"dashboard"}
      [] name \in WithPush -> {"email", "push"}
      [] name \in AdjustmentEvents \ WithPush -> {}
      [] name \in ReminderEvents -> {"push"}
      [] OTHER -> {"email"}

\* getNotificationMedium: a medium is left out when the payload has no address for it.
AddressOf(medium) ==
    CASE medium = "email" -> {"email"} [] medium = "sms" -> {"phone"}
      [] medium = "push" -> {"nobaUserID"} [] medium = "dashboard" -> {}
getNotificationMedium(handlers, payload) ==
    {m \in handlers : AddressOf(m) \subseteq payload.given}

-----------------------------------------------------------------------------
(* Handlers: the payload's fields each event's message prints; what a handler prints *)
(* only if it is there - a first name in a greeting - is not among them.             *)

EmailsOfCodes(type) ==
    CASE type = "otp" -> {"otp"}
      [] type = "wallet.update.verification.code" -> {"email", "otp", "walletAddress"}
      [] type = "welcome.message" -> {}
EmailsOfKyc(type) == IF type = "kyc.approved.non.us" THEN {"email"} ELSE {}
EmailsOfDocuments(type) == IF type = "document.verification.pending" THEN {} ELSE {"email"}

\* All of them also compute a subtotal, of an amount and the fees.
OfMoney == {"firstName", "debitAmount", "debitCurrency", "creditAmount", "creditCurrency",
            "transactionRef", "createdTimestamp", "processingFees", "nobaFees", "totalFees"}
EmailsOfDeposits(type) == OfMoney \cup {"handle", "exchangeRate"} \cup Reason(type)
EmailsOfWithdrawals(type) == OfMoney \cup {"handle", "exchangeRate"} \cup Reason(type)
EmailsOfTransfers(type) ==
    OfMoney \cup {"creditConsumer_firstName", "creditConsumer_lastName",
                  "debitConsumer_handle", "creditConsumer_handle"} \cup Reason(type)
    \cup (IF type = "transfer.received"
          THEN {"debitConsumer_firstName", "debitConsumer_lastName"} ELSE {})
EmailsOfPayroll == OfMoney \cup {"handle", "exchangeRate", "companyName"}
EmailsOfAdjustments == {"firstName", "lastName", "creditAmount", "creditCurrency",
                        "transactionRef", "createdTimestamp", "handle"}
EmailsOfEmployerRequests == {"email", "firstName", "lastName"}
EmailsOfInvitations == {"companyName", "employeeID", "inviteUrl"}

EmailMessages(type) ==
    CASE type \in {"otp", "wallet.update.verification.code", "welcome.message"} ->
            EmailsOfCodes(type)
      [] type \in KycEvents -> EmailsOfKyc(type)
      [] type \in DocumentEvents -> EmailsOfDocuments(type)
      [] type \in DepositEvents -> EmailsOfDeposits(type)
      [] type \in WithdrawalEvents -> EmailsOfWithdrawals(type)
      [] type \in TransferEvents -> EmailsOfTransfers(type)
      [] type = "payroll.deposit.completed" -> EmailsOfPayroll
      [] type = "credit.adjustment.completed" -> EmailsOfAdjustments
      [] type = "employee.request" -> EmailsOfEmployerRequests
      [] type = "invite.employee" -> EmailsOfInvitations

\* The texts with a one-time password.
Texts(type) ==
    CASE type \in {"otp", "phone.verification.code", "wallet.update.verification.code"} ->
            {"otp"}

\* A push goes to the consumer's tokens; its body has the amount on their side.
Credited == {"transactionRef", "creditAmount", "creditCurrency"}
Debited == {"transactionRef", "debitAmount", "debitCurrency"}
PushesOfDeposits == Credited
PushesOfWithdrawals == Debited
PushesOfTransfers(type) ==
    IF type = "transfer.received" THEN Credited \cup {"debitConsumer_handle"}
    ELSE Debited \cup {"creditConsumer_handle"}
PushesOfPayroll == Debited \cup {"companyName"}
PushesOfAdjustments == Credited
\* The texts of the reminders name nobody.
PushesOfReminders == {}

PushMessages(type) ==
    CASE type \in {"deposit.completed", "deposit.failed"} -> PushesOfDeposits
      [] type \in {"withdrawal.completed", "withdrawal.failed"} -> PushesOfWithdrawals
      [] type \in TransferEvents -> PushesOfTransfers(type)
      [] type = "payroll.deposit.completed" -> PushesOfPayroll
      [] type = "credit.adjustment.completed" -> PushesOfAdjustments
      [] type = "scheduled.reminder" -> PushesOfReminders

Dashboard(type) ==
    CASE type = "update.payroll.status" -> {"nobaPayrollID", "payrollStatus"}

\* What the listeners of a medium print, by event.
Printed(medium, type) ==
    CASE medium = "email" -> EmailMessages(type)
      [] medium = "sms" -> Texts(type)
      [] medium = "push" -> PushMessages(type)
      [] medium = "dashboard" -> Dashboard(type)

-----------------------------------------------------------------------------
(* Templates *)

EnglishOnly == {"document.verification.rejected", "document.verification.technical.failure",
                "wallet.update.verification.code", "employee.request"}
emailTemplateExternalLinkMap(name) == IF name \in EnglishOnly THEN {"en"} ELSE {"en", "es"}
smsTemplateStringMap(name) == {"en", "es"}
pushEventTemplateStringMap(name) == {"en", "es"}
TemplateLanguages(name, medium) ==
    CASE medium = "email" -> emailTemplateExternalLinkMap(name)
      [] medium = "sms" -> smsTemplateStringMap(name)
      [] medium = "push" -> pushEventTemplateStringMap(name)
      [] medium = "dashboard" -> {}

\* getOrDefaultTemplate: the locale's own, its language's, or the English one.
\* Variant: a locale that has no template of its own gets the English one.
CandidatesExact(locale) == IF locale = "es_co" THEN <<"es_co", "en">> ELSE <<"en">>
Candidates(locale) == IF locale = "es_co" THEN <<"es_co", "es", "en">> ELSE <<"en">>
getOrDefaultTemplate(languages, locale) ==
    CHOOSE l \in languages :
        \E i \in DOMAIN Candidates(locale) :
            /\ Candidates(locale)[i] = l
            /\ \A j \in 1..(i - 1) : Candidates(locale)[j] \notin languages
HasTemplate(languages, locale) ==
    \E i \in DOMAIN Candidates(locale) : Candidates(locale)[i] \in languages
=============================================================================
