----------------------------- MODULE NoticeDelivery -----------------------------
(***************************************************************************)
(* One notice, from the call that asks for it to the messages it becomes,  *)
(* over one Event row and its templates, which seeding at each deployment  *)
(* fills in.  The call reads the consumers, fills the payload, reads the   *)
(* row for the mediums, validates, emits and answers; a handler for each   *)
(* medium reads the row again and calls the provider, and nobody hears of  *)
(* its failure.  Only a reminder's handler is awaited.                     *)
(***************************************************************************)
EXTENDS NotificationCatalogue, Circumstances

CONSTANTS
    Profiles,       \* sets of the fields a consumer's row may have
    MaxSeeds        \* bound on the deployments

ASSUME NoticeAssumption ==
    /\ \A profile \in Profiles :
         profile \subseteq BaseEvent \cup {"+57", "device"}
    /\ MaxSeeds \in Nat

\* Does nothing fail, and is everything deployed before it is used?
Flawless == "flawless" \in world

VARIABLES
    name,           \* the Event row followed
    handlers,       \* its mediums, <<>> when there is no row yet
    templates,      \* its templates: pairs of a medium and a language
    titled,         \* the templates that have a title
    toSeed,         \* the templates the running seeding still looks at
    seeds,          \* how often all of them have been seeded
    notice,         \* what is asked, and how far it has come
    listening,      \* the handlers that have yet to run, with what they have read
    messages        \* what the providers have been given

seedVars == <<name, handlers, templates, titled, toSeed, seeds>>
deliveryVars == <<notice, listening, messages>>
postVars == <<seedVars, deliveryVars, world>>

NeverSent == {"deposit.initiated", "withdrawal.initiated", "kyc.approved.non.us"}
Names == (EventTypes \ (NeverSent \cup {"scheduled.reminder"})) \cup ReminderEvents
TypeOf(n) == IF n \in ReminderEvents THEN "scheduled.reminder" ELSE n

NoticeInit ==
    /\ world \in Worlds
    /\ name \in Names
    /\ handlers = <<>> /\ templates = {} /\ titled = {} /\ toSeed = <<>> /\ seeds = 0
    /\ notice = [at |-> "idle"]
    /\ listening = {} /\ messages = {}

-----------------------------------------------------------------------------
(* seedEventsAndTemplates, for one event *)

\* Its templates, medium by medium.
TemplatesOf(n, medium) ==
    LET In(language) == IF language \in TemplateLanguages(n, medium)
                        THEN << <<medium, language>> >> ELSE <<>>
    IN  IF medium \in Preferred(n) THEN In("en") \o In("es") ELSE <<>>
AllTemplates(n) == TemplatesOf(n, "email") \o TemplatesOf(n, "sms") \o TemplatesOf(n, "push")

Seeded(t, rest) == toSeed' = rest /\ seeds' = seeds + (IF rest = <<>> THEN 1 ELSE 0)

StartSeeding ==
    /\ toSeed = <<>> /\ seeds < MaxSeeds
    /\ notice.at = "idle" \/ ~Flawless
    /\ handlers' = <<Preferred(name)>>
    /\ Seeded(name, AllTemplates(name))
    /\ UNCHANGED <<name, templates, titled, deliveryVars>>

\* A template that is not there is created, a push's without its title; the next seeding
\* finds the title to be wrong.
SeedTemplate ==
    /\ toSeed # <<>>
    /\ LET template == Head(toSeed)
       IN  \/ /\ templates' = templates \cup {template}
              /\ titled' = IF template[1] = "push" /\ template \in templates
                           THEN titled \cup {template} ELSE titled
              /\ Seeded(template, Tail(toSeed))
           \/ ~Flawless /\ toSeed' = <<>> /\ UNCHANGED <<templates, titled, seeds>>
    /\ UNCHANGED <<name, handlers, deliveryVars>>

-----------------------------------------------------------------------------
(* The call *)

\* The notices that are for the side a transaction credits; the others go to the one it
\* debits.
ReadsCredit == {"payroll.deposit.completed", "credit.adjustment.completed",
                "credit.adjustment.failed", "transfer.received"}

MayFail == ~Flawless
Step(at) == notice' = [notice EXCEPT !.at = at]

\* A deployment's notices are asked for once its events are there.
Ask ==
    /\ notice.at = "idle"
    /\ Flawless => toSeed = <<>> /\ seeds > 0
    /\ \E debit, credit \in Profiles, via \in {"email", "phone"},
          fee \in {"whole", "cents", "thousands"} :
         /\ name \notin TransferEvents => credit = debit
         /\ name \notin TransactionEvents => fee = "whole"
         /\ name \notin {"otp", "wallet.update.verification.code"} => via = "phone"
         /\ name = "otp" => via \in debit
         /\ notice' = [at |-> "read", debit |-> debit, credit |-> credit, via |-> via, fee |-> fee]
    /\ UNCHANGED <<seedVars, listening, messages>>

Recipient == IF TypeOf(name) \in ReadsCredit THEN notice.credit ELSE notice.debit
NoticePayload ==
    PayloadOf(TypeOf(name), notice.via, Recipient, notice.debit, notice.credit)
NoticeLanguage == LanguageOf(TypeOf(name), notice.via, Recipient)

ReadConsumers ==
    /\ notice.at = "read"
    /\ Step("mediums") \/ (MayFail /\ Step("error"))
    /\ UNCHANGED <<seedVars, listening, messages>>

\* Validates once per medium and emits; the first refusal is an error.  What is emitted
\* is the payload as it was.
SendNotification ==
    /\ notice.at = "mediums"
    /\ LET mediums == IF handlers = <<>> THEN {}
                      ELSE getNotificationMedium(handlers[1], NoticePayload)
           isAccepted == IsAccepted(TypeOf(name), NoticePayload, notice.fee, NoticeLanguage)
       IN  \/ handlers # <<>> /\ mediums = {} /\ Step("nothing") /\ UNCHANGED listening
           \/ /\ mediums # {} /\ isAccepted
              /\ listening' = {[medium |-> m, template |-> <<>>] : m \in mediums}
              /\ Step(IF TypeOf(name) = "scheduled.reminder" THEN "awaiting" ELSE "answered")
           \/ /\ handlers = <<>> \/ (mediums # {} /\ ~isAccepted) \/ MayFail
              /\ Step("error") /\ UNCHANGED listening
    /\ UNCHANGED <<seedVars, messages>>

-----------------------------------------------------------------------------
(* The handlers *)

Gone(h) == listening' = listening \ {h}
LanguagesOf(medium) == {t[2] : t \in {u \in templates : u[1] = medium}}

\* Only a reminder's call hears of it.
Unheard(h) ==
    /\ Gone(h) /\ IF notice.at = "awaiting" THEN Step("error") ELSE UNCHANGED notice
    /\ UNCHANGED messages

\* A failing query finds no token; a reminder without tokens has failed.
NoTokens(h) ==
    /\ h.medium = "push"
    /\ "device" \notin Recipient \/ MayFail
    /\ Unheard(h)

ChooseTemplate(h) ==
    /\ h \in listening /\ h.template = <<>> /\ h.medium # "dashboard"
    /\ \/ /\ HasTemplate(LanguagesOf(h.medium), NoticeLanguage)
          /\ h.medium = "push" => "device" \in Recipient
          /\ LET t == <<h.medium, getOrDefaultTemplate(LanguagesOf(h.medium), NoticeLanguage)>>
             IN  listening' = (listening \ {h})
                                \cup {[h EXCEPT !.template = <<t, t \in titled>>]}
          /\ UNCHANGED <<notice, messages>>
       \/ NoTokens(h)
       \/ ~HasTemplate(LanguagesOf(h.medium), NoticeLanguage) /\ Unheard(h)
       \/ MayFail /\ Unheard(h)
    /\ UNCHANGED seedVars

Message(h) ==
    [medium |-> h.medium,
     language |-> IF h.medium = "dashboard" THEN "none" ELSE h.template[1][2],
     hasTitle |-> h.medium = "push" /\ h.template[2],
     lacks |-> Printed(h.medium, TypeOf(name)) \ NoticePayload.given]

\* The email of an invitation first stores its picture; the push client swallows errors.
Deliver(h) ==
    /\ h \in listening /\ (h.template # <<>> \/ h.medium = "dashboard")
    /\ \/ /\ messages' = messages \cup {Message(h)}
          /\ Gone(h)
          /\ IF notice.at = "awaiting" THEN Step("answered") ELSE UNCHANGED notice
       \/ MayFail /\ h.medium # "push" /\ Unheard(h)
       \/ /\ MayFail /\ h.medium = "push" /\ Gone(h) /\ UNCHANGED messages
          /\ IF notice.at = "awaiting" THEN Step("answered") ELSE UNCHANGED notice
    /\ UNCHANGED seedVars

NoticeNext ==
    /\ \/ StartSeeding \/ SeedTemplate
       \/ Ask \/ ReadConsumers \/ SendNotification
       \/ \E h \in listening : ChooseTemplate(h) \/ Deliver(h)
    /\ UNCHANGED world

NoticeSpec == NoticeInit /\ [][NoticeNext]_postVars

-----------------------------------------------------------------------------
(* Properties *)

\* A row with everything a payload copies.
IsComplete(profile) == {"email", "firstName", "lastName", "handle", "locale"} \subseteq profile
IsReachable(medium) ==
    CASE medium = "email" -> notice.via = "email" \/ name \notin {"otp", "wallet.update.verification.code"}
      [] medium = "sms" -> notice.via = "phone" /\ "phone" \in Recipient
      [] medium = "push" -> "device" \in Recipient
      [] medium = "dashboard" -> TRUE
\* The request to an employer is left out: the controller means to write it in the
\* consumer's language (consumer.controller.ts:490), and it is written in English.
InTheirLanguage(m) ==
    m.medium # "dashboard" /\ name # "employee.request" =>
        m.language = (IF NoticeLanguage = "es_co" /\ "es" \in TemplateLanguages(name, m.medium)
                      THEN "es" ELSE "en")

\* Once everything is deployed and nothing fails, a consumer whose row is complete is
\* told of what is known to be notified of by every medium that reaches them, and, but
\* for requests to employers, in their language when there is a text in it; only a fee
\* that is written with a comma keeps the notice back.  The mapper, the validator, the
\* medium, the listener and the template of an event are kept in five places, and any that
\* is missing loses the notice quietly.
NoticesArrive ==
    (/\ Flawless
     /\ notice.at \notin {"idle", "read", "mediums", "awaiting"} /\ listening = {}
     /\ IsComplete(notice.debit) /\ IsComplete(notice.credit)
     /\ IsNumber(notice.fee, NoticeLanguage))
    => \A medium \in Preferred(name) :
         IsReachable(medium) =>
            \E m \in messages : m.medium = medium /\ InTheirLanguage(m)

\* No message has a gap where its text names something, whatever the row of the consumer
\* lacks: what the mapper could not fill in, the validator has refused.  The exception is
\* the credit adjustment's email, whose last name no payload carries; and a push has its
\* title only from the second deployment on.
MessagesAreComplete ==
    \A m \in messages :
        /\ m.lacks \subseteq (IF name = "credit.adjustment.completed" THEN {"lastName"} ELSE {})
        /\ Flawless /\ m.medium = "push" /\ seeds >= 2 => m.hasTitle
=============================================================================
