---------------------------- MODULE Notifications ----------------------------
(***************************************************************************)
(* NotificationService, the event handlers, the push tokens and the        *)
(* reminders.  The server emits events and answers before they are         *)
(* handled; a reminder is the exception, its push is awaited.  A reminder  *)
(* is run by a workflow outside the server: it asks for the consumers a    *)
(* query chooses, sends to each, then records when.                        *)
(***************************************************************************)
EXTENDS Naturals, FiniteSets, Sequences, People

CONSTANTS
    Requests,       \* what may be asked for in a call
    NoRequest,
    WithEmail,      \* the consumers who have an email
    Devices,        \* what a push token stands for
    InitialTokens,
    Schedules,      \* reminder schedules
    Interval,       \* days before a reminder is repeated, 0 if it is not
    MaxTime         \* bound on the days that pass

ASSUME NotificationsAssumption ==
    /\ WithEmail \subseteq Consumers
    /\ InitialTokens \subseteq Consumers \X Devices
    /\ Interval \in [Schedules -> Nat]
    /\ MaxTime \in Nat
    /\ Nothing \notin Nat \cup Schedules

VARIABLES
    pc, req, answer,
    part,       \* which of its notices a call sends next
    readTokens, \* the devices a reminder's handler has read
    readAt,     \* the history row a reminder has read
    token,      \* the PushToken rows
    history,    \* the ReminderHistory rows: when a reminder was last sent
    emitted,    \* the events emitted
    handled,    \* those whose handlers have run
    mailed,     \* the events whose email was sent
    pushed,     \* the pushes sent
    now         \* days since the start

callVars == <<pc, req, answer, part, readTokens, readAt>>
noticeVars == <<token, history, emitted, handled, mailed, pushed, now>>

NotificationRequests ==
    [kind : {"transfer"}, from : Consumers, to : Consumers]
    \cup [kind : {"notice", "adjustment"}, to : Consumers]
    \cup [kind : {"payrollStatus"}]
    \cup [kind : {"subscribe", "unsubscribe"}, as : Consumers, device : Devices]
    \cup [kind : {"remind"}, schedule : Schedules, to : Consumers]

NotificationsInit ==
    /\ world \in Worlds
    /\ pc = [c \in Calls |-> "idle"]
    /\ req = [c \in Calls |-> NoRequest]
    /\ answer = [c \in Calls |-> "none"]
    /\ part = [c \in Calls |-> 1]
    /\ readTokens = [c \in Calls |-> {}]
    /\ readAt = [c \in Calls |-> Nothing]
    /\ token = InitialTokens
    /\ history = [s \in Schedules |-> [u \in Consumers |-> Nothing]]
    /\ emitted = {} /\ handled = {} /\ mailed = {} /\ pushed = {}
    /\ now = 0

Kind(c) == req[c].kind
Running(c) == pc[c] \notin {"idle", "done"}
Goto(c, step) == pc' = [pc EXCEPT ![c] = step]
Continue(c, step) == Goto(c, step) /\ UNCHANGED answer
Finish(c, a) == Goto(c, "done") /\ answer' = [answer EXCEPT ![c] = a]
Fails(c) == Faulty /\ Finish(c, "error")

-----------------------------------------------------------------------------
(* sendNotification: the mediums, then one event for each *)

Catalogue == INSTANCE NotificationCatalogue

\* A consumer's row is complete but for the email, which a phone's user may not have.
Row(hasEmail) == Catalogue!BaseEvent \ (IF hasEmail THEN {} ELSE {"email"})
PayloadFor(type, hasEmail) ==
    LET row == Row(hasEmail) IN Catalogue!PayloadOf(type, "phone", row, row, row)

\* What the event is sent by: email is left out when there is none.
Mediums(type, hasEmail) ==
    Catalogue!getNotificationMedium(Catalogue!Preferred(type), PayloadFor(type, hasEmail))

\* The validators of the transaction events require an email, whatever the medium.
IsValid(type, hasEmail) ==
    Catalogue!IsAccepted(type, PayloadFor(type, hasEmail), "whole", "en")

Event(c, type, medium, to) == [type |-> type, medium |-> medium, to |-> to, by |-> c]
Events(c, type, to, hasEmail) ==
    {Event(c, type, m, to) : m \in Mediums(type, hasEmail)}

\* No medium, nothing to do.
Emit(c, type, to, hasEmail) ==
    /\ Mediums(type, hasEmail) # {} => IsValid(type, hasEmail)
    /\ emitted' = emitted \cup Events(c, type, to, hasEmail)

IsRefused(type, hasEmail) == Mediums(type, hasEmail) # {} /\ ~IsValid(type, hasEmail)

\* NotificationWorkflowService: what is sent to whom, in order.
Notices(r) ==
    CASE r.kind = "transfer" -> <<[type |-> "transfer.completed", to |-> r.from],
                                  [type |-> "transfer.received", to |-> r.to]>>
      [] r.kind = "notice" -> <<[type |-> "deposit.completed", to |-> r.to]>>
      [] r.kind = "adjustment" -> <<[type |-> "credit.adjustment.failed", to |-> r.to]>>
      [] r.kind = "payrollStatus" -> <<[type |-> "update.payroll.status", to |-> Nothing]>>

LoadNotice(c) ==
    /\ pc[c] = "load"
    /\ Continue(c, "emit") \/ Fails(c)
    /\ UNCHANGED <<req, part, readTokens, readAt, noticeVars>>

EmitNotice(c) ==
    LET notice == Notices(req[c])[part[c]]
        hasEmail == notice.to \in WithEmail
        isLast == part[c] = Len(Notices(req[c]))
    IN  /\ pc[c] = "emit"
        /\ \/ /\ Emit(c, notice.type, notice.to, hasEmail)
              /\ IF isLast THEN Finish(c, "sent") /\ UNCHANGED part
                 ELSE Continue(c, "emit") /\ part' = [part EXCEPT ![c] = @ + 1]
           \/ /\ IsRefused(notice.type, hasEmail) /\ Finish(c, "refused")
              /\ UNCHANGED <<emitted, part>>
           \/ Fails(c) /\ UNCHANGED <<emitted, part>>
        /\ UNCHANGED <<req, readTokens, readAt, token, history, handled, mailed, pushed, now>>

DevicesOf(u) == {d \in Devices : <<u, d>> \in token}
Pushes(c, u, devices, schedule) ==
    [by : {c}, to : {u}, device : devices, schedule : {schedule}, at : {now}]

\* A handler looks up the template and calls the provider; nobody hears of a failure.
HandleEvent(e) ==
    /\ e \in emitted \ handled
    /\ handled' = handled \cup {e}
    /\ \/ e.medium = "email" /\ mailed' = mailed \cup {e} /\ UNCHANGED pushed
       \/ /\ e.medium = "push"
          /\ pushed' = pushed \cup Pushes(e.by, e.to, DevicesOf(e.to), Nothing)
          /\ UNCHANGED mailed
       \/ (e.medium = "dashboard" \/ Faulty) /\ UNCHANGED <<mailed, pushed>>
    /\ UNCHANGED <<callVars, token, history, emitted, now>>

-----------------------------------------------------------------------------
(* Push tokens *)

\* subscribeToPushNotifications: a token that is there already is enough.
FindToken(c) ==
    /\ pc[c] = "findToken"
    /\ \/ /\ Continue(c, "addToken") /\ <<req[c].as, req[c].device>> \notin token
       \/ /\ Finish(c, "subscribed") /\ <<req[c].as, req[c].device>> \in token
       \/ Fails(c)
    /\ UNCHANGED <<req, part, readTokens, readAt, noticeVars>>

\* A consumer has a token once.
AddToken(c) ==
    /\ pc[c] = "addToken"
    /\ \/ /\ <<req[c].as, req[c].device>> \notin token
          /\ token' = token \cup {<<req[c].as, req[c].device>>}
          /\ Finish(c, "subscribed") \/ Fails(c)
       \/ /\ <<req[c].as, req[c].device>> \in token \/ Faulty
          /\ UNCHANGED token /\ Finish(c, "error")
    /\ UNCHANGED <<req, part, readTokens, readAt, history, emitted, handled, mailed, pushed, now>>

DeleteToken(c) ==
    /\ pc[c] = "deleteToken"
    /\ \/ /\ <<req[c].as, req[c].device>> \in token
          /\ token' = token \ {<<req[c].as, req[c].device>>}
          /\ Finish(c, "unsubscribed") \/ Fails(c)
       \/ /\ <<req[c].as, req[c].device>> \notin token \/ Faulty
          /\ UNCHANGED token /\ Finish(c, "error")
    /\ UNCHANGED <<req, part, readTokens, readAt, history, emitted, handled, mailed, pushed, now>>

-----------------------------------------------------------------------------
(* Reminders *)

LastSent(c) == history[req[c].schedule][req[c].to]

\* Variant: who has had the reminder is not looked at.
IsDueToAll(c) == DevicesOf(req[c].to) # {}

\* The schedules' queries: nobody twice, or nobody who had it an interval ago.
IsDue(c) ==
    /\ DevicesOf(req[c].to) # {}
    /\ LET interval == Interval[req[c].schedule]
       IN  LastSent(c) # Nothing => interval > 0 /\ LastSent(c) + interval > now

\* What else a query asks for - no employer, no referral, no balance, a low rate - is
\* left open; a query that fails chooses nobody.
ChooseConsumers(c) ==
    /\ pc[c] = "choose"
    /\ \/ IsDue(c) /\ Continue(c, "readTokens")
       \/ Finish(c, "notChosen")
    /\ UNCHANGED <<req, part, readTokens, readAt, noticeVars>>

\* The workflow's activities are retried, or given up.
RetriesFrom(c, step) == Faulty /\ (Continue(c, step) \/ Finish(c, "error"))

\* sendEvent, to the listener: it answers false when it finds no token, and a failing
\* query finds none.
ReadTokens(c) ==
    /\ pc[c] = "readTokens"
    /\ \/ /\ DevicesOf(req[c].to) # {}
          /\ readTokens' = [readTokens EXCEPT ![c] = DevicesOf(req[c].to)]
          /\ Continue(c, "push")
       \/ DevicesOf(req[c].to) = {} /\ Finish(c, "error") /\ UNCHANGED readTokens
       \/ RetriesFrom(c, "readTokens") /\ UNCHANGED readTokens
    /\ UNCHANGED <<req, part, readAt, noticeVars>>

\* One push after the other; the provider's failures are swallowed.
SendPushes(c) ==
    /\ pc[c] = "push"
    /\ \/ /\ pushed' = pushed \cup Pushes(c, req[c].to, readTokens[c], req[c].schedule)
          /\ Continue(c, "findHistory")
       \/ \E some \in SUBSET readTokens[c] :
            /\ pushed' = pushed \cup Pushes(c, req[c].to, some, req[c].schedule)
            /\ RetriesFrom(c, "readTokens")
    /\ UNCHANGED <<req, part, readTokens, readAt, token, history, emitted, handled, mailed, now>>

\* createOrUpdateReminderScheduleHistory.
FindHistory(c) ==
    /\ pc[c] = "findHistory"
    /\ \/ readAt' = [readAt EXCEPT ![c] = LastSent(c)] /\ Continue(c, "writeHistory")
       \/ UNCHANGED readAt /\ RetriesFrom(c, "findHistory")
    /\ UNCHANGED <<req, part, readTokens, noticeVars>>

\* One row per schedule and consumer: a second insert is refused.
WriteHistory(c) ==
    /\ pc[c] = "writeHistory"
    /\ \/ /\ readAt[c] # Nothing \/ LastSent(c) = Nothing
          /\ history' = [history EXCEPT ![req[c].schedule][req[c].to] = now]
          /\ Finish(c, "reminded") \/ RetriesFrom(c, "findHistory")
       \/ /\ readAt[c] = Nothing /\ LastSent(c) # Nothing
          /\ UNCHANGED history /\ (Continue(c, "findHistory") \/ Finish(c, "error"))
       \/ UNCHANGED history /\ RetriesFrom(c, "findHistory")
    /\ UNCHANGED <<req, part, readTokens, readAt, token, emitted, handled, mailed, pushed, now>>

-----------------------------------------------------------------------------
NotificationStep(c) ==
    \/ LoadNotice(c) \/ EmitNotice(c)
    \/ FindToken(c) \/ AddToken(c) \/ DeleteToken(c)
    \/ ChooseConsumers(c) \/ ReadTokens(c) \/ SendPushes(c) \/ FindHistory(c) \/ WriteHistory(c)

NextDay == now < MaxTime /\ now' = now + 1
           /\ UNCHANGED <<callVars, token, history, emitted, handled, mailed, pushed>>

-----------------------------------------------------------------------------
(* Properties *)

Reminders(s, u) == {p \in pushed : p.schedule = s /\ p.to = u}

\* The runs that have pushed a reminder to a consumer, but for those that gave up.
RunsThatSent(s, u) == {p.by : p \in {q \in Reminders(s, u) : answer[q.by] # "error"}}

\* While runs take turns, a reminder that is not repeated reaches a consumer in one run of
\* its workflow, whatever is retried, runs that gave up with an error apart.
OncePerConsumerInTurn ==
    Serial => \A s \in Schedules, u \in Consumers :
        Interval[s] = 0 => Cardinality(RunsThatSent(s, u)) <= 1

\* Nor is a reminder repeated within its interval.
NotAgainTooSoonInTurn ==
    Serial /\ ~Faulty => \A s \in Schedules, u \in Consumers : \A p, q \in Reminders(s, u) :
        p.by # q.by /\ p.at <= q.at => q.at - p.at >= Interval[s]
=============================================================================
