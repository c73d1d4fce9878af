----------------------------- MODULE MCWorkplace -----------------------------
(***************************************************************************)
(* Small instances of Workforce with Notifications for TLC: two calls that *)
(* overlap or take turns, with every fault; and three calls one after the  *)
(* other, where nothing fails.  Beside them, the administrators, and one   *)
(* notice.                                                                 *)
(***************************************************************************)
EXTENDS Workforce, Administrators, NoticeDelivery, TLC

CONSTANTS c1, c2, c3, e1, e2, acme, ana, luis, mail1, mail2, phone1, daily, once

\* e1 is ana's, with half a salary of 5 paid out; e2 has only been created.
MCEmployees ==
    (e1 :> [employer |-> acme, consumer |-> ana, email |-> mail1, status |-> "LINKED",
            allocation |-> 2, salary |-> 5])
    @@ (e2 :> [employer |-> acme, consumer |-> Nothing, email |-> mail2, status |-> "CREATED",
               allocation |-> 0, salary |-> 0])
MCPercents == acme :> 50

\* What the theorem about maxima rests on.
ASSUME MCFitsAssumption == FitsAtFirst

MCInterval == (daily :> 1) @@ (once :> 0)
MCTokens == {<<ana, phone1>>}

Invitations ==
    [kind : {"invite"}, employer : {acme}, email : {mail2}, sendEmail : BOOLEAN, salary : {3}]
Links == [kind : {"register"}, as : {luis}, employer : {acme}, allocation : {4}]
         \cup [kind : {"link"}, as : {ana, luis}, employee : {e2}]
Amounts == [kind : {"allocate"}, as : {ana, luis}, employer : {acme}, allocation : {1, 4}]
Edits == [kind : {"edit"}, employee : {e1}, status : {Nothing, "UNLINKED"}, salary : {Nothing, 3}]
         \cup [kind : {"edit"}, employee : {e2}, status : {"LINKED"}, salary : {0}]
         \cup [kind : {"setMax"}, employer : {acme}, percent : {0, 25, 75}]
Told == [kind : {"transfer"}, from : {ana}, to : {luis, ana}]
        \cup [kind : {"notice", "adjustment"}, to : {ana}] \cup [kind : {"payrollStatus"}]
Tokens == [kind : {"subscribe", "unsubscribe"}, as : {ana}, device : {phone1}]
Reminding == [kind : {"remind"}, schedule : {daily, once}, to : {ana}]
AnyRequest == Invitations \cup Links \cup Amounts \cup Edits \cup Told \cup Tokens \cup Reminding

-----------------------------------------------------------------------------
(* Administrators: root and boss have the role ADMIN, a clerk has not *)

CONSTANTS root, boss, clerk, mail3, mail4

MCAdmins ==
    (root :> [email |-> mail1, role |-> "ADMIN", hasName |-> TRUE])
    @@ (boss :> [email |-> mail2, role |-> "ADMIN", hasName |-> TRUE])
    @@ (clerk :> [email |-> mail3, role |-> "BASIC", hasName |-> FALSE])

\* What the theorem about the last administrator rests on.
ASSUME MCAdminAssumption == \E a \in Admins : InitialAdmins[a].role = "ADMIN"

Departures ==
    [kind : {"change"}, of : {root, boss}, role : {"BASIC"}, hasName : {FALSE}]
    \cup [kind : {"remove"}, of : {root, boss, c1}]
    \cup [kind : {"add"}, email : {mail4}, role : {"ADMIN"}, hasName : {TRUE}]
MCAdminRequests ==
    Departures
    \cup {[kind |-> "login", email |-> mail4], [kind |-> "list"]}
    \cup [kind : {"add"}, email : {mail3, mail4}, role : {Nothing, "other"}, hasName : {FALSE}]
    \cup [kind : {"change"}, of : {boss, clerk}, role : {Nothing}, hasName : BOOLEAN]
    \cup [kind : {"change"}, of : {boss, clerk}, role : {"ADMIN", "other"}, hasName : {TRUE}]

-----------------------------------------------------------------------------
(* One notice of each type, to consumers whose rows lack different fields *)

Basics == {"email", "phone", "nobaUserID", "firstName", "lastName", "handle"}
MCProfiles ==
    {{}, {"email"}, {"phone", "+57"}, Basics \ {"lastName"}, Basics \cup {"device"},
     Basics \cup {"+57", "locale", "device"}}

-----------------------------------------------------------------------------
\* The workplace and the administrators share no state here, nor does the notice
\* followed; a behaviour is one of either.
MCWorlds ==
    {{"workforce", "faulty"}, {"workforce", "serial"}, {"workforce", "faulty", "serial"},
     {"admins", "faulty"}, {"admins", "faulty", "serial"},
     {"post"}, {"post", "flawless"}}

MCInit ==
    /\ WorkforceInit /\ AdministratorsInit /\ NoticeInit
    /\ "post" \notin world => name = "otp"

\* The slots of calls are alike: they are taken in this order, the third when calls do
\* not overlap and nothing fails.
TakenInOrder ==
    /\ pc'[c2] # "idle" => pc[c1] # "idle"
    /\ pc'[c3] # "idle" => pc[c2] # "idle" /\ Serial /\ ~Faulty
AskedInOrder ==
    /\ call'[c2].at # "idle" => call[c1].at # "idle"
    /\ call'[c3].at # "idle" => call[c2].at # "idle" /\ Serial
\* In turn, only what may take the last administrator away is asked for.
LeavingInTurn == Serial => \A c \in Calls : call'[c].req \in Departures \cup {Nothing}

MCNext ==
    \/ "workforce" \in world /\ WorkforceNext /\ TakenInOrder
       /\ UNCHANGED <<adminVars, postVars>>
    \/ "admins" \in world /\ AdministratorsNext /\ AskedInOrder /\ LeavingInTurn
       /\ UNCHANGED <<vars, postVars>>
    \/ "post" \in world /\ NoticeNext /\ UNCHANGED <<vars, adminVars>>

MCSpec == MCInit /\ [][MCNext]_<<vars, adminVars, postVars>>
=============================================================================
