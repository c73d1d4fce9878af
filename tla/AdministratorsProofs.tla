------------------------- MODULE AdministratorsProofs ------------------------
(***************************************************************************)
(* Who has the role ADMIN, for any administrators, requests and number of  *)
(* overlapping calls, with any queries failing.                            *)
(***************************************************************************)
EXTENDS Administrators, TLAPS

\* Before a call's rows are read; after its caller was found to have the role.
Unread == {"idle", "login", "authenticate", "done"}
Permitted == {"list", "findEmail", "insert", "readTarget", "readAgain", "write", "delete"}

CallTyped ==
    [at : Unread \cup Permitted, by : Ids \cup {Nothing}, req : Tasks \cup {Nothing},
     role : Roles \cup {Nothing}, seen : AdminType \cup {NoRow},
     answer : {"none", "done", "refused", "forbidden", "conflict", "error", "notFound"}]

AdminTypeOK ==
    /\ admin \in [Ids -> AdminType \cup {NoRow}]
    /\ signedIn \subseteq Ids
    /\ call \in [Calls -> CallTyped]

\* A call that has come to the rows is an administrator's.
Entitled(c) ==
    /\ ~At(c, "idle") => Task(c) \in Tasks
    /\ At(c, "authenticate") => Task(c).kind # "login"
    /\ call[c].at \in {"idle", "login", "authenticate"} => call[c].role = Nothing
    /\ call[c].at \in Permitted => call[c].role = "ADMIN"
    /\ call[c].at \in {"findEmail", "insert"} => Task(c).kind = "add"
    /\ At(c, "insert") => Task(c).role # "other"
    /\ At(c, "write") => NewRole(c) \in Roles
    /\ call[c].at \in {"readTarget", "readAgain", "write"} => Task(c).kind = "change"
    /\ At(c, "delete") => Task(c).kind = "remove"
    /\ call[c].at \in {"readAgain", "write"} => call[c].seen \in AdminType

AdminInv == AdminTypeOK /\ \A c \in Calls : Entitled(c)

\* What a request is made of.
LEMMA RequestTyped ==
    ASSUME NEW r \in Tasks
    PROVE  /\ r.kind \in {"login", "list", "add", "change", "remove"}
           /\ r.kind \in {"change", "remove"} => r.of \in Ids
           /\ r.kind = "add" => r.email \in Emails
           /\ r.kind \in {"add", "change"} =>
                r.role \in Roles \cup {"other", Nothing} /\ r.hasName \in BOOLEAN
BY AdministratorsAssumption DEF AdminRequests

LEMMA AdminInitOK == AdministratorsInit => AdminInv
<1> SUFFICES ASSUME AdministratorsInit PROVE AdminInv
  OBVIOUS
<1>1. NoCall \in CallTyped
  BY DEF NoCall, CallTyped, Unread
<1>2. \A c \in Calls : call[c] = NoCall
  BY DEF AdministratorsInit
<1>3. AdminTypeOK
  BY <1>1, AdministratorsAssumption DEF AdministratorsInit, AdminTypeOK, Ids
<1>4. \A c \in Calls : Entitled(c)
  BY <1>2 DEF Entitled, At, Task, NoCall, Permitted
<1> QED BY <1>3, <1>4 DEF AdminInv

-----------------------------------------------------------------------------
\* What a step of call c keeps of every call: the other calls altogether, the
\* request it was asked, and a role once it is known.
Keeps(c) ==
    /\ \A d \in Calls \ {c} : call'[d] = call[d]
    /\ ~At(c, "idle") => call'[c].req = call[c].req
    /\ call[c].role # Nothing => call'[c].role = call[c].role

\* What is left to show of a step of one call: what it has become itself.
LEMMA StepOK ==
    ASSUME AdminInv, NEW c \in Calls, Keeps(c), AdminTypeOK', Entitled(c)'
    PROVE  AdminInv'
<1>1. ASSUME NEW d \in Calls \ {c} PROVE Entitled(d)'
  BY DEF AdminInv, Keeps, Entitled, At, Task, NewRole
<1> QED BY <1>1 DEF AdminInv

\* A step that leaves the rows as they are.
LEMMA ReadOK ==
    ASSUME AdminInv, NEW c \in Calls, Keeps(c), UNCHANGED admin,
           signedIn' \subseteq Ids, call' \in [Calls -> CallTyped], Entitled(c)'
    PROVE  AdminInv'
<1>1. AdminTypeOK'
  BY DEF AdminInv, AdminTypeOK
<1> QED BY <1>1, StepOK

Answers == {"none", "done", "refused", "forbidden", "conflict", "error", "notFound"}

\* What an end makes of a call.
LEMMA EndKeeps ==
    ASSUME AdminInv, NEW c \in Calls, ~At(c, "idle"),
           NEW a \in Answers, Ends(c, a)
    PROVE  Keeps(c) /\ call' \in [Calls -> CallTyped] /\ Entitled(c)'
<1>1. call \in [Calls -> CallTyped] /\ Entitled(c)
  BY DEF AdminInv, AdminTypeOK
<1>2. call' = [call EXCEPT ![c] = [call[c] EXCEPT !.at = "done", !.answer = a]]
  BY <1>1 DEF Ends
<1>3. [call[c] EXCEPT !.at = "done", !.answer = a] \in CallTyped
  BY <1>1 DEF CallTyped, Unread, Answers
<1>4. call'[c].at = "done" /\ call'[c].req = call[c].req /\ call'[c].role = call[c].role
  BY <1>1, <1>2 DEF CallTyped
<1>5. Keeps(c)
  BY <1>1, <1>2, <1>4 DEF Keeps
<1>6. Entitled(c)'
  BY <1>1, <1>4 DEF Entitled, At, Task, Permitted
<1> QED BY <1>1, <1>2, <1>3, <1>5, <1>6

\* A call that ends without having changed a row.
LEMMA EndOK ==
    ASSUME AdminInv, NEW c \in Calls, ~At(c, "idle"),
           NEW a \in Answers, Ends(c, a), UNCHANGED admin, signedIn' \subseteq Ids
    PROVE  AdminInv'
BY EndKeeps, ReadOK

LEMMA ReceiveOK ==
    ASSUME AdminInv, NEW c \in Calls, NEW r \in Tasks,
           NEW a \in Ids \cup {Nothing}, ReceiveTask(c, a, r)
    PROVE  AdminInv'
<1> DEFINE there == IF r.kind = "login" THEN "login" ELSE "authenticate"
<1>1. call \in [Calls -> CallTyped] /\ Entitled(c) /\ At(c, "idle")
  BY DEF AdminInv, AdminTypeOK, ReceiveTask
<1>2. call' = [call EXCEPT ![c] = [call[c] EXCEPT !.at = there, !.by = a, !.req = r]]
  BY <1>1 DEF ReceiveTask
<1>3. [call[c] EXCEPT !.at = there, !.by = a, !.req = r] \in CallTyped
  BY <1>1 DEF CallTyped, Unread
<1>4. call'[c].at = there /\ call'[c].req = r /\ call'[c].role = call[c].role
  BY <1>1, <1>2 DEF CallTyped
<1>5. Keeps(c)
  BY <1>1, <1>2, <1>4 DEF Keeps
<1>6. Entitled(c)'
  BY <1>1, <1>4 DEF Entitled, At, Task, Permitted
<1>7. UNCHANGED admin /\ signedIn' \subseteq Ids
  BY DEF AdminInv, AdminTypeOK, ReceiveTask
<1> QED BY <1>1, <1>2, <1>3, <1>5, <1>6, <1>7, ReadOK

LEMMA LoginAdminOK ==
    ASSUME AdminInv, NEW c \in Calls, LoginAdmin(c)
    PROVE  AdminInv'
<1>1. ~At(c, "idle") /\ UNCHANGED admin
  BY DEF LoginAdmin, At
<1>2. signedIn' \subseteq Ids
  BY DEF AdminInv, AdminTypeOK, LoginAdmin
<1>3. Ends(c, "done") \/ Ends(c, "refused")
  BY DEF LoginAdmin
<1> QED BY <1>1, <1>2, <1>3, EndOK DEF Answers

\* Who comes past the authentication has the role ADMIN in the row just read.
LEMMA AuthenticateOK ==
    ASSUME AdminInv, NEW c \in Calls, Authenticate(c)
    PROVE  AdminInv'
<1> DEFINE a == call[c].by
           after == AfterAuthentication(Task(c))
<1>1. call \in [Calls -> CallTyped] /\ Entitled(c) /\ At(c, "authenticate")
  BY DEF AdminInv, AdminTypeOK, Authenticate
<1>2. UNCHANGED admin /\ signedIn' \subseteq Ids
  BY DEF AdminInv, AdminTypeOK, Authenticate
<1>3. CASE Ends(c, "forbidden")
  BY <1>1, <1>2, <1>3, EndOK DEF At, Answers
<1>4. CASE /\ MayAsk(a, admin[a].role, Task(c))
           /\ call' = [call EXCEPT ![c].at = after, ![c].role = admin[a].role]
  <2>1. admin[a].role = "ADMIN" /\ (Task(c).kind \in {"change", "remove"} => Task(c).of # a)
    BY <1>4 DEF MayAsk, HasPermission
  <2>2. Task(c) \in Tasks /\ call[c].role = Nothing
    BY <1>1 DEF Entitled, At
  <2>3. Task(c).kind \in {"login", "list", "add", "change", "remove"}
    BY <2>2, RequestTyped
  <2>4. Task(c).kind # "login" => after \in Permitted \ {"insert", "readAgain", "write"}
    BY <2>3 DEF AfterAuthentication, Permitted
  <2>5. call' = [call EXCEPT ![c] = [call[c] EXCEPT !.at = after, !.role = admin[a].role]]
    BY <1>1, <1>4
  <2>6. after \in Permitted \ {"insert", "readAgain", "write"}
    BY <1>1, <2>4 DEF Entitled
  <2>7. [call[c] EXCEPT !.at = after, !.role = admin[a].role] \in CallTyped
    BY <1>1, <2>1, <2>6 DEF CallTyped, Roles, Permitted, Unread
  <2>8. call'[c].at = after /\ call'[c].req = call[c].req /\ call'[c].role = "ADMIN"
    BY <1>1, <2>1, <2>5 DEF CallTyped
  <2>9. Keeps(c)
    BY <1>1, <2>2, <2>5, <2>8 DEF Keeps
  <2>10. after = "findEmail" => Task(c).kind = "add"
    BY <1>1, <2>3 DEF AfterAuthentication, Entitled
  <2>11. after = "readTarget" => Task(c).kind = "change"
    BY <1>1, <2>3 DEF AfterAuthentication, Entitled
  <2>12. after = "delete" => Task(c).kind = "remove"
    BY <1>1, <2>3 DEF AfterAuthentication, Entitled
  <2>13. Entitled(c)'
    BY <2>2, <2>6, <2>8, <2>10, <2>11, <2>12 DEF Entitled, At, Task, Permitted
  <2>14. call' \in [Calls -> CallTyped]
    BY <1>1, <2>5, <2>7
  <2> QED BY <1>2, <2>9, <2>13, <2>14, ReadOK
<1> QED BY <1>3, <1>4 DEF Authenticate

LEMMA ListAdminsOK ==
    ASSUME AdminInv, NEW c \in Calls, ListAdmins(c)
    PROVE  AdminInv'
<1>1. ~At(c, "idle") /\ UNCHANGED admin /\ signedIn' \subseteq Ids /\ Ends(c, "done")
  BY DEF AdminInv, AdminTypeOK, ListAdmins, At
<1> QED BY <1>1, EndOK DEF Answers

-----------------------------------------------------------------------------
\* A call that goes on, with or without having read a row.
LEMMA GoesOn ==
    ASSUME AdminInv, NEW c \in Calls, call[c].at \in Permitted,
           NEW step \in Permitted, NEW row \in AdminType \cup {NoRow},
           call' = [call EXCEPT ![c] = [call[c] EXCEPT !.at = step, !.seen = row]],
           UNCHANGED <<admin, signedIn>>, Entitled(c)'
    PROVE  AdminInv'
<1>1. call \in [Calls -> CallTyped] /\ Entitled(c)
  BY DEF AdminInv, AdminTypeOK
<1>2. [call[c] EXCEPT !.at = step, !.seen = row] \in CallTyped
  BY <1>1 DEF CallTyped
<1>3. call'[c].req = call[c].req /\ call'[c].role = call[c].role
  BY <1>1 DEF CallTyped
<1>4. Keeps(c)
  BY <1>1, <1>3 DEF Keeps
<1>5. signedIn' \subseteq Ids
  BY DEF AdminInv, AdminTypeOK
<1> QED BY <1>1, <1>2, <1>4, <1>5, ReadOK

LEMMA FindEmailOK ==
    ASSUME AdminInv, NEW c \in Calls, FindEmail(c)
    PROVE  AdminInv'
<1>1. call \in [Calls -> CallTyped] /\ Entitled(c) /\ At(c, "findEmail")
  BY DEF AdminInv, AdminTypeOK, FindEmail
<1>2. UNCHANGED <<admin, signedIn>> /\ signedIn' \subseteq Ids
  BY DEF AdminInv, AdminTypeOK, FindEmail
<1>3. CASE Ends(c, "error") \/ Ends(c, "conflict")
  BY <1>1, <1>2, <1>3, EndOK DEF At, Answers
<1>4. CASE To(c, "insert")
  <2>1. call[c].seen \in AdminType \cup {NoRow} /\ call[c].at \in Permitted /\ "insert" \in Permitted
    BY <1>1 DEF CallTyped, At, Permitted
  <2>2. call' = [call EXCEPT ![c] = [call[c] EXCEPT !.at = "insert", !.seen = call[c].seen]]
    BY <1>1, <1>4 DEF To, CallTyped
  <2>3. call'[c].at = "insert" /\ call'[c].req = call[c].req /\ call'[c].role = call[c].role
    BY <1>1, <2>2 DEF CallTyped
  <2>4. Task(c).role # "other"
    BY <1>1, <1>4 DEF FindEmail, To, Ends, CallTyped
  <2>5. Entitled(c)'
    BY <1>1, <2>3, <2>4 DEF Entitled, At, Task, Permitted
  <2> QED BY <1>2, <2>1, <2>2, <2>5, GoesOn
<1> QED BY <1>3, <1>4 DEF FindEmail

LEMMA InsertAdminOK ==
    ASSUME AdminInv, NEW c \in Calls, InsertAdmin(c)
    PROVE  AdminInv'
<1>1. /\ call \in [Calls -> CallTyped] /\ Entitled(c) /\ At(c, "insert")
      /\ admin \in [Ids -> AdminType \cup {NoRow}] /\ signedIn \subseteq Ids
  BY DEF AdminInv, AdminTypeOK, InsertAdmin
<1>2. signedIn' \subseteq Ids /\ ~At(c, "idle")
  BY <1>1 DEF InsertAdmin, At
<1>3. CASE UNCHANGED admin /\ Ends(c, "error")
  BY <1>2, <1>3, EndOK DEF Answers
<1>4. CASE /\ admin' = [admin EXCEPT ![c] = NewAdmin(Task(c))]
           /\ Ends(c, "done") \/ Ends(c, "error")
  <2>1. Keeps(c) /\ call' \in [Calls -> CallTyped] /\ Entitled(c)'
    BY <1>2, <1>4, EndKeeps DEF Answers
  <2>2. Task(c) \in Tasks /\ Task(c).kind = "add" /\ call[c].role = "ADMIN" /\ c \in Ids
    BY <1>1 DEF Entitled, At, Permitted, Ids
  <2>3. AdminTypeOK'
    <3>1. NewAdmin(Task(c)) \in AdminType
      BY <1>1, <2>2, RequestTyped DEF NewAdmin, AdminType, Entitled, Roles
    <3> QED BY <1>1, <1>2, <1>4, <2>1, <2>2, <3>1 DEF AdminTypeOK
  <2> QED BY <2>1, <2>3, StepOK
<1> QED BY <1>3, <1>4 DEF InsertAdmin

-----------------------------------------------------------------------------
LEMMA ReadTargetOK ==
    ASSUME AdminInv, NEW c \in Calls, ReadTarget(c)
    PROVE  AdminInv'
<1> DEFINE a == Task(c).of
<1>1. /\ call \in [Calls -> CallTyped] /\ Entitled(c) /\ At(c, "readTarget")
      /\ admin \in [Ids -> AdminType \cup {NoRow}]
  BY DEF AdminInv, AdminTypeOK, ReadTarget
<1>2. UNCHANGED <<admin, signedIn>> /\ signedIn' \subseteq Ids
  BY DEF AdminInv, AdminTypeOK, ReadTarget
<1>3. CASE Ends(c, "notFound")
  BY <1>1, <1>2, <1>3, EndOK DEF At, Answers
<1>4. CASE AdminExists(a) /\ call' = [call EXCEPT ![c].at = "readAgain", ![c].seen = admin[a]]
  <2>1. Task(c) \in Tasks /\ Task(c).kind = "change" /\ call[c].at \in Permitted
    BY <1>1 DEF Entitled, At, Permitted
  <2>2. a \in Ids /\ admin[a] \in AdminType
    BY <1>1, <1>4, <2>1, RequestTyped DEF AdminExists
  <2>3. call' = [call EXCEPT ![c] = [call[c] EXCEPT !.at = "readAgain", !.seen = admin[a]]]
    BY <1>1, <1>4
  <2>4. /\ call'[c].at = "readAgain" /\ call'[c].req = call[c].req
        /\ call'[c].role = call[c].role /\ call'[c].seen = admin[a]
    BY <1>1, <2>3 DEF CallTyped
  <2>5. Entitled(c)'
    BY <1>1, <2>1, <2>2, <2>4 DEF Entitled, At, Task, Permitted
  <2>6. "readAgain" \in Permitted
    BY DEF Permitted
  <2> QED BY <1>2, <2>1, <2>2, <2>3, <2>5, <2>6, GoesOn
<1> QED BY <1>3, <1>4 DEF ReadTarget

LEMMA ReadTargetAgainOK ==
    ASSUME AdminInv, NEW c \in Calls, ReadTargetAgain(c)
    PROVE  AdminInv'
<1>1. call \in [Calls -> CallTyped] /\ Entitled(c) /\ At(c, "readAgain")
  BY DEF AdminInv, AdminTypeOK, ReadTargetAgain
<1>2. UNCHANGED <<admin, signedIn>> /\ signedIn' \subseteq Ids
  BY DEF AdminInv, AdminTypeOK, ReadTargetAgain
<1>3. CASE Ends(c, "refused") \/ Ends(c, "notFound")
  BY <1>1, <1>2, <1>3, EndOK DEF At, Answers
<1>4. CASE NewRole(c) \in Roles /\ To(c, "write")
  <2>1. /\ Task(c) \in Tasks /\ Task(c).kind = "change" /\ call[c].at \in Permitted
        /\ call[c].seen \in AdminType /\ "write" \in Permitted
    BY <1>1 DEF Entitled, At, Permitted
  <2>2. call' = [call EXCEPT ![c] = [call[c] EXCEPT !.at = "write", !.seen = call[c].seen]]
    BY <1>1, <1>4 DEF To, CallTyped
  <2>3. /\ call'[c].at = "write" /\ call'[c].req = call[c].req
        /\ call'[c].role = call[c].role /\ call'[c].seen = call[c].seen
    BY <1>1, <2>2 DEF CallTyped
  <2>4. NewRole(c)' = NewRole(c)
    BY <2>3 DEF NewRole, Task
  <2>5. Entitled(c)'
    BY <1>1, <1>4, <2>1, <2>3, <2>4 DEF Entitled, At, Task, Permitted
  <2> QED BY <1>2, <2>1, <2>2, <2>5, GoesOn
<1> QED BY <1>3, <1>4 DEF ReadTargetAgain

LEMMA WriteAdminOK ==
    ASSUME AdminInv, NEW c \in Calls, WriteAdmin(c)
    PROVE  AdminInv'
<1> DEFINE a == Task(c).of
<1>1. /\ call \in [Calls -> CallTyped] /\ Entitled(c) /\ At(c, "write")
      /\ admin \in [Ids -> AdminType \cup {NoRow}] /\ signedIn \subseteq Ids
  BY DEF AdminInv, AdminTypeOK, WriteAdmin
<1>2. signedIn' \subseteq Ids /\ ~At(c, "idle")
  BY <1>1 DEF WriteAdmin, At
<1>3. CASE UNCHANGED admin /\ Ends(c, "error")
  BY <1>2, <1>3, EndOK DEF Answers
<1>4. CASE /\ AdminExists(a)
           /\ admin' = [admin EXCEPT ![a].role = NewRole(c), ![a].hasName = HasName(c)]
           /\ Ends(c, "done") \/ Ends(c, "error")
  <2>1. Keeps(c) /\ call' \in [Calls -> CallTyped] /\ Entitled(c)'
    BY <1>2, <1>4, EndKeeps DEF Answers
  <2>2. /\ Task(c) \in Tasks /\ Task(c).kind = "change" /\ call[c].role = "ADMIN"
        /\ NewRole(c) \in Roles
        /\ call[c].seen \in AdminType
    BY <1>1 DEF Entitled, At, Permitted
  <2>3. a \in Ids /\ HasName(c) \in BOOLEAN /\ admin[a] \in AdminType
    BY <1>1, <1>4, <2>2, RequestTyped DEF HasName, AdminType, AdminExists
  <2>4. admin' = [admin EXCEPT ![a] = [admin[a] EXCEPT !.role = NewRole(c), !.hasName = HasName(c)]]
    BY <1>1, <1>4, <2>3
  <2>5. [admin[a] EXCEPT !.role = NewRole(c), !.hasName = HasName(c)] \in AdminType
    BY <2>2, <2>3 DEF AdminType
  <2>6. AdminTypeOK'
    BY <1>1, <1>2, <2>1, <2>3, <2>4, <2>5 DEF AdminTypeOK
  <2> QED BY <2>1, <2>6, StepOK
<1> QED BY <1>3, <1>4 DEF WriteAdmin

LEMMA DeleteAdminOK ==
    ASSUME AdminInv, NEW c \in Calls, DeleteAdmin(c)
    PROVE  AdminInv'
<1> DEFINE a == Task(c).of
<1>1. /\ call \in [Calls -> CallTyped] /\ Entitled(c) /\ At(c, "delete")
      /\ admin \in [Ids -> AdminType \cup {NoRow}] /\ signedIn \subseteq Ids
  BY DEF AdminInv, AdminTypeOK, DeleteAdmin
<1>2. signedIn' \subseteq Ids /\ ~At(c, "idle")
  BY <1>1 DEF DeleteAdmin, At
<1>3. CASE UNCHANGED admin /\ Ends(c, "notFound")
  BY <1>2, <1>3, EndOK DEF Answers
<1>4. CASE admin' = [admin EXCEPT ![a] = NoRow] /\ (Ends(c, "done") \/ Ends(c, "notFound"))
  <2>1. Keeps(c) /\ call' \in [Calls -> CallTyped] /\ Entitled(c)'
    BY <1>2, <1>4, EndKeeps DEF Answers
  <2>2. AdminTypeOK'
    BY <1>1, <1>2, <1>4, <2>1 DEF AdminTypeOK
  <2> QED BY <2>1, <2>2, StepOK
<1> QED BY <1>3, <1>4 DEF DeleteAdmin

-----------------------------------------------------------------------------
LEMMA AdminNextOK == AdminInv /\ [AdministratorsNext]_adminVars => AdminInv'
<1> SUFFICES ASSUME AdminInv, [AdministratorsNext]_adminVars PROVE AdminInv'
  OBVIOUS
<1>1. CASE UNCHANGED adminVars
  BY <1>1 DEF AdminInv, AdminTypeOK, Entitled, At, Task, NewRole, adminVars
<1>2. ASSUME NEW c \in Calls, NEW r \in Tasks, NEW a \in Ids \cup {Nothing}, ReceiveTask(c, a, r)
      PROVE  AdminInv'
  BY <1>2, ReceiveOK
<1>3. ASSUME NEW c \in Calls, AdminStep(c) PROVE AdminInv'
  BY <1>3, LoginAdminOK, AuthenticateOK, ListAdminsOK, FindEmailOK, InsertAdminOK,
     ReadTargetOK, ReadTargetAgainOK, WriteAdminOK, DeleteAdminOK DEF AdminStep
<1> QED BY <1>1, <1>2, <1>3 DEF AdministratorsNext

-----------------------------------------------------------------------------
(* While calls take turns there is always an administrator left: whoever is to be
   changed or removed is somebody else than the caller, who still has the role. *)

IsAlone(c) == ~Idle(c) => \A d \in Calls \ {c} : Idle(d)

CallerHasRole(c) ==
    /\ At(c, "authenticate") => call[c].by \in Ids
    /\ call[c].at \in Permitted =>
        /\ call[c].by \in Ids /\ IsAdmin(call[c].by)
        /\ Task(c).kind \in {"change", "remove"} => Task(c).of # call[c].by

RowIsToCome(c) == ~At(c, "done") => ~AdminExists(c)

TurnOK(c) == IsAlone(c) /\ CallerHasRole(c) /\ RowIsToCome(c)

TurnInv == Serial => SomeAdminRemainsInTurn /\ \A c \in Calls : TurnOK(c)

LEMMA TurnInitOK ==
    ASSUME AdministratorsInit, \E a \in Admins : InitialAdmins[a].role = "ADMIN"
    PROVE  TurnInv
<1>1. PICK a \in Admins : InitialAdmins[a].role = "ADMIN"
  OBVIOUS
<1>2. a \in Ids /\ admin[a] = InitialAdmins[a] /\ InitialAdmins[a] # NoRow
  BY AdministratorsAssumption DEF AdministratorsInit, Ids
<1>3. SomeAdminRemainsInTurn
  BY <1>1, <1>2 DEF SomeAdminRemainsInTurn, IsAdmin, AdminExists
<1>4. ASSUME NEW c \in Calls PROVE TurnOK(c)
  <2>1. c \notin Admins /\ admin[c] = NoRow /\ call[c] = NoCall
    BY AdministratorsAssumption DEF AdministratorsInit, Ids
  <2> QED BY <2>1 DEF TurnOK, IsAlone, CallerHasRole, RowIsToCome, Idle, At, AdminExists, NoCall,
                      Permitted
<1> QED BY <1>3, <1>4 DEF TurnInv

\* What is left to show of a step of one call: the others have not begun, or have ended.
LEMMA InTurn ==
    ASSUME AdminInv, TurnInv, Serial, NEW c \in Calls, \A d \in Calls \ {c} : Idle(d),
           Keeps(c), \A d \in Calls \ {c} : AdminExists(d)' => AdminExists(d),
           CallerHasRole(c)', RowIsToCome(c)', \E a \in Ids : IsAdmin(a)'
    PROVE  TurnInv'
<1>1. \A d \in Calls \ {c} : Idle(d)' /\ call'[d] = call[d]
  BY DEF Keeps, Idle
<1>2. IsAlone(c)'
  BY <1>1 DEF IsAlone
<1>3. ASSUME NEW d \in Calls \ {c} PROVE TurnOK(d)'
  <2>1. IsAlone(d)' /\ CallerHasRole(d)'
    BY <1>1 DEF IsAlone, CallerHasRole, Idle, At, Permitted
  <2>2. RowIsToCome(d)'
    BY <1>1 DEF TurnInv, TurnOK, RowIsToCome, At
  <2> QED BY <2>1, <2>2 DEF TurnOK
<1> QED BY <1>2, <1>3 DEF TurnInv, TurnOK, SomeAdminRemainsInTurn

\* A call that ends.
LEMMA EndInTurn ==
    ASSUME AdminInv, TurnInv, Serial, NEW c \in Calls, ~Idle(c), NEW answer \in Answers,
           Ends(c, answer), \A d \in Calls \ {c} : AdminExists(d)' => AdminExists(d),
           \E a \in Ids : IsAdmin(a)'
    PROVE  TurnInv'
<1>1. Keeps(c) /\ \A d \in Calls \ {c} : Idle(d)
  BY EndKeeps DEF At, Idle, TurnInv, TurnOK, IsAlone
<1>2. call'[c].at = "done"
  BY DEF AdminInv, AdminTypeOK, CallTyped, Ends
<1>3. CallerHasRole(c)' /\ RowIsToCome(c)'
  BY <1>2 DEF CallerHasRole, RowIsToCome, At, Permitted
<1> QED BY <1>1, <1>3, InTurn

\* A call that ends, or goes on with what it was permitted, and leaves the rows alone.
LEMMA ReadInTurn ==
    ASSUME AdminInv, TurnInv, Serial, NEW c \in Calls, ~Idle(c), UNCHANGED admin,
           \/ \E a \in Answers : Ends(c, a)
           \/ \E step \in Permitted, r \in AdminType \cup {NoRow} :
                /\ call[c].at \in Permitted
                /\ call' = [call EXCEPT ![c] = [call[c] EXCEPT !.at = step, !.seen = r]]
    PROVE  TurnInv'
<1>1. /\ \A a \in Ids : AdminExists(a)' = AdminExists(a) /\ IsAdmin(a)' = IsAdmin(a)
      /\ \E a \in Ids : IsAdmin(a)
  BY DEF AdminExists, IsAdmin, TurnInv, SomeAdminRemainsInTurn
<1>2. CASE \E a \in Answers : Ends(c, a)
  BY <1>1, <1>2, EndInTurn DEF Ids
<1>3. ASSUME NEW step \in Permitted, NEW r \in AdminType \cup {NoRow}, call[c].at \in Permitted,
             call' = [call EXCEPT ![c] = [call[c] EXCEPT !.at = step, !.seen = r]]
      PROVE  TurnInv'
  <2>0. call \in [Calls -> CallTyped] /\ call[c] \in CallTyped
    BY DEF AdminInv, AdminTypeOK
  <2>a. call'[c] = [call[c] EXCEPT !.at = step, !.seen = r] /\ \A d \in Calls \ {c} : call'[d] = call[d]
    BY <1>3, <2>0
  <2>1. /\ call'[c].at = step /\ call'[c].by = call[c].by /\ call'[c].req = call[c].req
        /\ call'[c].role = call[c].role /\ \A d \in Calls \ {c} : call'[d] = call[d]
    BY <2>0, <2>a DEF CallTyped
  <2>2. Keeps(c)
    BY <2>1 DEF Keeps
  <2>3. CallerHasRole(c)'
    BY <1>3, <2>1 DEF TurnInv, TurnOK, CallerHasRole, At, Task, IsAdmin, AdminExists
  <2>4. RowIsToCome(c)'
    BY <1>3, <2>1 DEF TurnInv, TurnOK, RowIsToCome, At, AdminExists, Permitted
  <2> QED BY <1>1, <2>2, <2>3, <2>4, InTurn DEF TurnInv, TurnOK, IsAlone, Ids
<1> QED BY <1>2, <1>3

LEMMA ReceiveInTurn ==
    ASSUME AdminInv, TurnInv, Serial, NEW c \in Calls, NEW r \in Tasks,
           NEW a \in Ids \cup {Nothing}, ReceiveTask(c, a, r)
    PROVE  TurnInv'
<1> DEFINE there == IF r.kind = "login" THEN "login" ELSE "authenticate"
<1>1. /\ call \in [Calls -> CallTyped] /\ Entitled(c) /\ At(c, "idle")
      /\ UNCHANGED admin /\ \A d \in Calls : Idle(d)
  BY DEF AdminInv, AdminTypeOK, ReceiveTask
<1>2. call' = [call EXCEPT ![c] = [call[c] EXCEPT !.at = there, !.by = a, !.req = r]]
  BY <1>1 DEF ReceiveTask
<1>3. call'[c].at = there /\ call'[c].role = call[c].role
  BY <1>1, <1>2 DEF CallTyped
<1>4. Keeps(c)
  BY <1>1, <1>2, <1>3 DEF Keeps
<1>5. CallerHasRole(c)'
  <2>1. there = "authenticate" => a \in Ids
    BY DEF ReceiveTask, AdminInv, AdminTypeOK
  <2>2. call'[c].by = a
    BY <1>1, <1>2 DEF CallTyped
  <2> QED BY <1>3, <2>1, <2>2 DEF CallerHasRole, Permitted, At
<1>6. RowIsToCome(c)'
  BY <1>1 DEF TurnInv, TurnOK, RowIsToCome, At, AdminExists
<1>7. \E b \in Ids : IsAdmin(b)'
  BY <1>1 DEF TurnInv, SomeAdminRemainsInTurn, IsAdmin, AdminExists
<1> QED BY <1>1, <1>4, <1>5, <1>6, <1>7, InTurn DEF AdminExists

\* Who is let in has the role now, and asks of somebody else.
LEMMA AuthenticateInTurn ==
    ASSUME AdminInv, TurnInv, Serial, NEW c \in Calls, Authenticate(c)
    PROVE  TurnInv'
<1> DEFINE a == call[c].by
           after == AfterAuthentication(Task(c))
<1>1. /\ call \in [Calls -> CallTyped] /\ At(c, "authenticate") /\ ~Idle(c) /\ UNCHANGED admin
      /\ admin \in [Ids -> AdminType \cup {NoRow}] /\ Entitled(c) /\ IsAlone(c)
  BY DEF AdminInv, AdminTypeOK, Authenticate, At, Idle, TurnInv, TurnOK
<1>2. CASE Ends(c, "forbidden")
  BY <1>1, <1>2, ReadInTurn DEF Answers
<1>3. CASE /\ AdminExists(a) /\ MayAsk(a, admin[a].role, Task(c))
           /\ call' = [call EXCEPT ![c].at = after, ![c].role = admin[a].role]
  <2>1. IsAdmin(a) /\ (Task(c).kind \in {"change", "remove"} => Task(c).of # a)
    BY <1>3 DEF MayAsk, HasPermission, IsAdmin
  <2>2. a \in Ids
    BY <1>1 DEF TurnInv, TurnOK, CallerHasRole
  <2>3. call' = [call EXCEPT ![c] = [call[c] EXCEPT !.at = after, !.role = admin[a].role]]
    BY <1>1, <1>3
  <2>4. /\ call'[c].by = a /\ call'[c].req = call[c].req /\ call'[c].at = after
        /\ \A d \in Calls \ {c} : call'[d] = call[d]
    BY <1>1, <2>3 DEF CallTyped
  <2>5. call[c].role = Nothing
    BY <1>1 DEF Entitled, At
  <2>6. Keeps(c)
    BY <2>4, <2>5 DEF Keeps
  <2>7. CallerHasRole(c)'
    BY <1>1, <2>1, <2>2, <2>4 DEF CallerHasRole, At, IsAdmin, AdminExists, Task
  <2>8. RowIsToCome(c)'
    BY <1>1 DEF TurnInv, TurnOK, RowIsToCome, At, AdminExists
  <2>9. \E b \in Ids : IsAdmin(b)'
    BY <1>1, <2>1, <2>2 DEF IsAdmin, AdminExists
  <2> QED BY <1>1, <2>2, <2>6, <2>7, <2>8, <2>9, InTurn DEF IsAlone, AdminExists
<1> QED BY <1>2, <1>3 DEF Authenticate

LEMMA InsertInTurn ==
    ASSUME AdminInv, TurnInv, Serial, NEW c \in Calls, InsertAdmin(c)
    PROVE  TurnInv'
<1>1. /\ ~Idle(c) /\ ~AdminExists(c) /\ c \in Ids
      /\ admin \in [Ids -> AdminType \cup {NoRow}]
  BY DEF AdminInv, AdminTypeOK, InsertAdmin, At, Idle, TurnInv, TurnOK, RowIsToCome, Ids
<1>2. CASE UNCHANGED admin /\ Ends(c, "error")
  BY <1>1, <1>2, ReadInTurn DEF Answers
<1>3. CASE admin' = [admin EXCEPT ![c] = NewAdmin(Task(c))] /\ (Ends(c, "done") \/ Ends(c, "error"))
  <2>1. \A a \in Ids \ {c} : admin'[a] = admin[a]
    BY <1>1, <1>3
  <2>2. \E a \in Ids : IsAdmin(a) /\ a # c
    BY <1>1 DEF TurnInv, SomeAdminRemainsInTurn, IsAdmin
  <2>3. \E a \in Ids : IsAdmin(a)'
    BY <2>1, <2>2 DEF IsAdmin, AdminExists
  <2>4. \A d \in Calls \ {c} : AdminExists(d)' => AdminExists(d)
    BY <2>1 DEF AdminExists, Ids
  <2> QED BY <1>1, <1>3, <2>3, <2>4, EndInTurn DEF Answers
<1> QED BY <1>2, <1>3 DEF InsertAdmin

\* The caller is left with the role.
LEMMA ChangeInTurn ==
    ASSUME AdminInv, TurnInv, Serial, NEW c \in Calls, call[c].at \in {"write", "delete"},
           NEW a \in Answers, Ends(c, a),
           \A b \in Ids : b # Task(c).of => admin'[b] = admin[b],
           \A b \in Ids : AdminExists(b)' => AdminExists(b)
    PROVE  TurnInv'
<1>1. ~Idle(c) /\ Task(c).kind \in {"change", "remove"}
  BY DEF AdminInv, Entitled, At, Idle
<1>2. call[c].by \in Ids /\ IsAdmin(call[c].by) /\ Task(c).of # call[c].by
  BY <1>1 DEF TurnInv, TurnOK, CallerHasRole, Permitted
<1>3. \E b \in Ids : IsAdmin(b)'
  BY <1>2 DEF IsAdmin, AdminExists
<1> QED BY <1>1, <1>3, EndInTurn DEF Ids

LEMMA WriteInTurn ==
    ASSUME AdminInv, TurnInv, Serial, NEW c \in Calls, WriteAdmin(c)
    PROVE  TurnInv'
<1> DEFINE a == Task(c).of
<1>1. ~Idle(c) /\ call[c].at \in {"write", "delete"} /\ admin \in [Ids -> AdminType \cup {NoRow}]
  BY DEF AdminInv, AdminTypeOK, WriteAdmin, At, Idle
<1>2. CASE UNCHANGED admin /\ Ends(c, "error")
  BY <1>1, <1>2, ReadInTurn DEF Answers
<1>3. CASE /\ AdminExists(a)
           /\ admin' = [admin EXCEPT ![a].role = NewRole(c), ![a].hasName = HasName(c)]
           /\ Ends(c, "done") \/ Ends(c, "error")
  <2>1. \A b \in Ids : b # a => admin'[b] = admin[b]
    BY <1>1, <1>3
  <2>2. \A b \in Ids : AdminExists(b)' => AdminExists(b)
    BY <1>3, <2>1 DEF AdminExists
  <2> QED BY <1>1, <1>3, <2>1, <2>2, ChangeInTurn DEF Answers
<1> QED BY <1>2, <1>3 DEF WriteAdmin

LEMMA DeleteInTurn ==
    ASSUME AdminInv, TurnInv, Serial, NEW c \in Calls, DeleteAdmin(c)
    PROVE  TurnInv'
<1> DEFINE a == Task(c).of
<1>1. ~Idle(c) /\ call[c].at \in {"write", "delete"} /\ admin \in [Ids -> AdminType \cup {NoRow}]
  BY DEF AdminInv, AdminTypeOK, DeleteAdmin, At, Idle
<1>2. CASE UNCHANGED admin /\ Ends(c, "notFound")
  BY <1>1, <1>2, ReadInTurn DEF Answers
<1>3. CASE admin' = [admin EXCEPT ![a] = NoRow] /\ (Ends(c, "done") \/ Ends(c, "notFound"))
  <2>1. \A b \in Ids : b # a => admin'[b] = admin[b]
    BY <1>1, <1>3
  <2>2. \A b \in Ids : AdminExists(b)' => AdminExists(b)
    BY <1>1, <1>3 DEF AdminExists
  <2> QED BY <1>1, <1>3, <2>1, <2>2, ChangeInTurn DEF Answers
<1> QED BY <1>2, <1>3 DEF DeleteAdmin

\* The steps that only read.
LEMMA ReadingInTurn ==
    ASSUME AdminInv, TurnInv, Serial, NEW c \in Calls,
           \/ LoginAdmin(c) \/ ListAdmins(c) \/ FindEmail(c)
           \/ ReadTarget(c) \/ ReadTargetAgain(c)
    PROVE  TurnInv'
<1>1. call \in [Calls -> CallTyped] /\ Entitled(c) /\ admin \in [Ids -> AdminType \cup {NoRow}]
  BY DEF AdminInv, AdminTypeOK
<1>2. ~Idle(c) /\ UNCHANGED admin
  BY DEF LoginAdmin, ListAdmins, FindEmail, ReadTarget, ReadTargetAgain, At, Idle
<1>3. CASE LoginAdmin(c) \/ ListAdmins(c)
  BY <1>2, <1>3, ReadInTurn DEF LoginAdmin, ListAdmins, Answers
<1>4. CASE FindEmail(c)
  <2>1. call[c].at \in Permitted /\ "insert" \in Permitted
    BY <1>4 DEF FindEmail, At, Permitted
  <2>2. To(c, "insert") =>
            call' = [call EXCEPT ![c] = [call[c] EXCEPT !.at = "insert", !.seen = call[c].seen]]
    BY <1>1 DEF To, CallTyped
  <2>3. call[c].seen \in AdminType \cup {NoRow}
    BY <1>1 DEF CallTyped
  <2>4. (\E a \in Answers : Ends(c, a)) \/ To(c, "insert")
    BY <1>4 DEF FindEmail, Answers
  <2> QED BY <1>2, <2>1, <2>2, <2>3, <2>4, ReadInTurn
<1>5. CASE ReadTarget(c)
  <2>1. call[c].at \in Permitted /\ "readAgain" \in Permitted /\ Task(c) \in Tasks
        /\ Task(c).kind = "change"
    BY <1>1, <1>5 DEF ReadTarget, At, Permitted, Entitled
  <2>2. admin[Task(c).of] \in AdminType \cup {NoRow}
    BY <1>1, <2>1, RequestTyped
  <2>3. (\E a \in Answers : Ends(c, a)) \/ call' = [call EXCEPT ![c] =
            [call[c] EXCEPT !.at = "readAgain", !.seen = admin[Task(c).of]]]
    BY <1>1, <1>5 DEF ReadTarget, Answers
  <2> QED BY <1>2, <2>1, <2>2, <2>3, ReadInTurn
<1>6. CASE ReadTargetAgain(c)
  <2>1. call[c].at \in Permitted /\ "write" \in Permitted
    BY <1>6 DEF ReadTargetAgain, At, Permitted
  <2>2. To(c, "write") =>
            call' = [call EXCEPT ![c] = [call[c] EXCEPT !.at = "write", !.seen = call[c].seen]]
    BY <1>1 DEF To, CallTyped
  <2>3. call[c].seen \in AdminType \cup {NoRow}
    BY <1>1 DEF CallTyped
  <2>4. (\E a \in Answers : Ends(c, a)) \/ To(c, "write")
    BY <1>6 DEF ReadTargetAgain, Answers
  <2> QED BY <1>2, <2>1, <2>2, <2>3, <2>4, ReadInTurn
<1> QED BY <1>3, <1>4, <1>5, <1>6

LEMMA TurnNextOK == AdminInv /\ TurnInv /\ [AdministratorsNext]_adminVars => TurnInv'
<1> SUFFICES ASSUME AdminInv, TurnInv, [AdministratorsNext]_adminVars, Serial PROVE TurnInv'
  BY DEF AdministratorsNext, adminVars, TurnInv, Serial
<1>1. CASE UNCHANGED adminVars
  BY <1>1 DEF TurnInv, SomeAdminRemainsInTurn, TurnOK, IsAlone, CallerHasRole, RowIsToCome, Idle,
              At, IsAdmin, AdminExists, Task, Serial, adminVars
<1>2. ASSUME NEW c \in Calls, NEW r \in Tasks, NEW a \in Ids \cup {Nothing}, ReceiveTask(c, a, r)
      PROVE  TurnInv'
  BY <1>2, ReceiveInTurn
<1>3. ASSUME NEW c \in Calls, AdminStep(c) PROVE TurnInv'
  BY <1>3, AuthenticateInTurn, InsertInTurn, WriteInTurn, DeleteInTurn, ReadingInTurn DEF AdminStep
<1> QED BY <1>1, <1>2, <1>3 DEF AdministratorsNext

\* While calls take turns there is always somebody left who may manage administrators,
\* if there was one: whom a call changes or removes is not its caller, whose role,
\* read when the call was authenticated, nobody takes before the call has ended.
\* Queries may fail.
THEOREM SomeAdminRemains ==
    ASSUME \E a \in Admins : InitialAdmins[a].role = "ADMIN"
    PROVE  AdministratorsSpec => []SomeAdminRemainsInTurn
<1>1. AdministratorsInit => AdminInv /\ TurnInv
  BY AdminInitOK, TurnInitOK
<1>2. (AdminInv /\ TurnInv) /\ [AdministratorsNext]_adminVars => (AdminInv /\ TurnInv)'
  BY AdminNextOK, TurnNextOK
<1>3. TurnInv => SomeAdminRemainsInTurn
  BY DEF TurnInv, SomeAdminRemainsInTurn
<1> QED BY <1>1, <1>2, <1>3, PTL DEF AdministratorsSpec

-----------------------------------------------------------------------------
(* By whose hand somebody comes to the role *)

\* In turn, what a call has read of a role is so until it has written.
RoleIsAsSeen(c) ==
    call[c].at \in {"readAgain", "write"} /\ call[c].seen.role = "ADMIN" => IsAdmin(Task(c).of)

SeenInv == Serial => \A c \in Calls : RoleIsAsSeen(c)

LEMMA SeenNextOK ==
    ASSUME AdminInv, TurnInv, SeenInv, [AdministratorsNext]_adminVars
    PROVE  SeenInv'
<1> SUFFICES ASSUME Serial PROVE \A c \in Calls : RoleIsAsSeen(c)'
  BY DEF AdministratorsNext, adminVars, SeenInv, Serial
<1>1. CASE UNCHANGED adminVars
  BY <1>1 DEF adminVars, SeenInv, RoleIsAsSeen, IsAdmin, AdminExists, Task
<1>2. ASSUME NEW c \in Calls, NEW d \in Calls \ {c},
             (\E r \in Tasks, a \in Ids \cup {Nothing} : ReceiveTask(c, a, r)) \/ AdminStep(c)
      PROVE  RoleIsAsSeen(d)'
  <2>1. call'[d] = call[d]
    BY <1>2 DEF ReceiveTask, AdminStep, LoginAdmin, Authenticate, ListAdmins, FindEmail, InsertAdmin,
                ReadTarget, ReadTargetAgain, WriteAdmin, DeleteAdmin, Ends, To, AdminInv, AdminTypeOK
  <2>2. Idle(d)
    <3>1. ~Idle(c) \/ \A e \in Calls : Idle(e)
      BY <1>2 DEF ReceiveTask, AdminStep, LoginAdmin, Authenticate, ListAdmins, FindEmail,
                  InsertAdmin, ReadTarget, ReadTargetAgain, WriteAdmin, DeleteAdmin, At, Idle
    <3> QED BY <3>1 DEF TurnInv, TurnOK, IsAlone
  <2> QED BY <2>1, <2>2 DEF RoleIsAsSeen, Idle
<1>3. ASSUME NEW c \in Calls,
             (\E r \in Tasks, a \in Ids \cup {Nothing} : ReceiveTask(c, a, r)) \/ AdminStep(c)
      PROVE  RoleIsAsSeen(c)'
  <2>1. call \in [Calls -> CallTyped] /\ Entitled(c)
    BY DEF AdminInv, AdminTypeOK
  <2>2. CASE ReadTarget(c) /\ call' = [call EXCEPT ![c].at = "readAgain",
                                                  ![c].seen = admin[Task(c).of]]
    <3>1. call'[c].req = call[c].req /\ call'[c].seen = admin[Task(c).of] /\ admin' = admin
      BY <2>1, <2>2 DEF ReadTarget, CallTyped
    <3>2. AdminExists(Task(c).of)
      BY <2>1, <2>2 DEF ReadTarget, Ends, CallTyped
    <3> QED BY <3>1, <3>2 DEF RoleIsAsSeen, IsAdmin, AdminExists, Task
  <2>3. CASE ReadTargetAgain(c) /\ To(c, "write")
    <3>1. /\ call'[c].req = call[c].req /\ call'[c].seen = call[c].seen /\ admin' = admin
          /\ call[c].at = "readAgain"
      BY <2>1, <2>3 DEF ReadTargetAgain, To, At, CallTyped
    <3> QED BY <3>1 DEF SeenInv, RoleIsAsSeen, IsAdmin, AdminExists, Task
  <2>4. CASE call'[c].at \notin {"readAgain", "write"}
    BY <2>4 DEF RoleIsAsSeen
  <2>5. CASE Authenticate(c)
    <3>1. Task(c).kind \in {"list", "add", "change", "remove"}
      BY <2>1, <2>5, RequestTyped DEF Authenticate, Entitled, At
    <3>2. AfterAuthentication(Task(c)) \in {"list", "findEmail", "readTarget", "delete"}
      BY <3>1 DEF AfterAuthentication
    <3>3. call'[c].at \notin {"readAgain", "write"}
      BY <2>1, <2>5, <3>2 DEF Authenticate, Ends, CallTyped
    <3> QED BY <3>3, <2>4
  <2>6. CASE (\E r \in Tasks, a \in Ids \cup {Nothing} : ReceiveTask(c, a, r)) \/ FindEmail(c)
            \/ (\E e \in Answers : Ends(c, e))
    <3>1. ASSUME NEW e \in Answers, Ends(c, e)
          PROVE  call'[c].at \notin {"readAgain", "write"}
      BY <2>1, <3>1 DEF Ends, CallTyped
    <3>2. ASSUME FindEmail(c)
          PROVE  call'[c].at \notin {"readAgain", "write"}
      BY <2>1, <3>2 DEF FindEmail, Ends, To, CallTyped
    <3>3. ASSUME NEW r \in Tasks, NEW a \in Ids \cup {Nothing}, ReceiveTask(c, a, r)
          PROVE  call'[c].at \notin {"readAgain", "write"}
      BY <2>1, <3>3 DEF ReceiveTask, CallTyped
    <3> QED BY <2>4, <2>6, <3>1, <3>2, <3>3
  <2>8. LoginAdmin(c) \/ ListAdmins(c) \/ InsertAdmin(c) \/ WriteAdmin(c) \/ DeleteAdmin(c) =>
            \E e \in Answers : Ends(c, e)
    BY DEF LoginAdmin, ListAdmins, InsertAdmin, WriteAdmin, DeleteAdmin, Answers
  <2>7. ReadTarget(c) \/ ReadTargetAgain(c) =>
            \/ \E e \in Answers : Ends(c, e)
            \/ ReadTarget(c) /\ call' = [call EXCEPT ![c].at = "readAgain",
                                                    ![c].seen = admin[Task(c).of]]
            \/ ReadTargetAgain(c) /\ To(c, "write")
    BY DEF ReadTarget, ReadTargetAgain, Answers
  <2> QED BY <1>3, <2>2, <2>3, <2>5, <2>6, <2>7, <2>8 DEF AdminStep
<1> QED BY <1>1, <1>2, <1>3 DEF AdministratorsNext

\* A step that makes somebody an administrator is the last of a call that adds them or
\* changes their row.
LEMMA AppointsOK ==
    ASSUME AdminInv, TurnInv, SeenInv, NEW c \in Calls, InsertAdmin(c) \/ WriteAdmin(c),
           NEW a \in Ids, IsAdmin(a)', ~IsAdmin(a)
    PROVE  /\ Appoints(c, a) /\ call[c].role = "ADMIN"
           /\ \/ Task(c).role = "ADMIN"
              \/ ~Serial /\ Task(c).role = Nothing /\ call[c].seen.role = "ADMIN"
           /\ Serial => IsAdmin(call[c].by) /\ call[c].by # a
<1>1. /\ call \in [Calls -> CallTyped] /\ Entitled(c) /\ c \in Ids
      /\ admin \in [Ids -> AdminType \cup {NoRow}]
      /\ call[c].at \in {"insert", "write"} /\ Task(c) \in Tasks
  BY DEF AdminInv, AdminTypeOK, InsertAdmin, WriteAdmin, At, Ids, Entitled
<1>2. call[c].role = "ADMIN" BY <1>1 DEF Entitled, Permitted
<1>3. call'[c].at = "done"
  BY <1>1 DEF InsertAdmin, WriteAdmin, Ends, CallTyped
<1>4. Serial => call[c].by \in Ids /\ IsAdmin(call[c].by)
  BY <1>1 DEF TurnInv, TurnOK, CallerHasRole, Permitted
<1>5. Serial => call[c].by # a
  BY <1>4
<1>6. admin'[a] # admin[a]
  BY DEF IsAdmin, AdminExists
<1>7. CASE InsertAdmin(c)
  <2>1. a = c /\ admin'[a] = NewAdmin(Task(c))
    BY <1>1, <1>6, <1>7 DEF InsertAdmin
  <2>2. Task(c).role = "ADMIN"
    BY <2>1 DEF IsAdmin, NewAdmin
  <2> QED BY <1>2, <1>3, <1>4, <1>5, <1>7, <2>1, <2>2 DEF Appoints, InsertAdmin
<1>8. CASE WriteAdmin(c)
  <2>1. a = Task(c).of /\ admin'[a].role = NewRole(c)
    BY <1>1, <1>6, <1>8 DEF WriteAdmin, AdminType, AdminExists
  <2>2. NewRole(c) = "ADMIN" BY <2>1 DEF IsAdmin
  <2>3. Task(c).role = "ADMIN" \/ (Task(c).role = Nothing /\ call[c].seen.role = "ADMIN")
    BY <2>2 DEF NewRole
  <2>4. Serial /\ call[c].seen.role = "ADMIN" => IsAdmin(a)
    BY <1>8, <2>1 DEF WriteAdmin, At, SeenInv, RoleIsAsSeen
  <2> QED BY <1>2, <1>3, <1>4, <1>5, <1>8, <2>1, <2>3, <2>4 DEF Appoints, WriteAdmin
<1> QED BY <1>7, <1>8

\* Nobody comes to the role ADMIN but by a call of somebody who had it when the call was let
\* in, and who still has it if calls take turns; and no call that does not name the role
\* hands it out, unless calls overlap and it was taken after the call had read it
\* (updateNobaAdmin reads the row, and writes back what it was not given).
THEOREM OnlyAdminsMakeAdmins ==
    ASSUME \E a \in Admins : InitialAdmins[a].role = "ADMIN"
    PROVE  AdministratorsSpec => PowersAreGiven
<1>1. AdministratorsInit => AdminInv /\ TurnInv /\ SeenInv
  <2>1. AdministratorsInit => SeenInv BY DEF AdministratorsInit, NoCall, SeenInv, RoleIsAsSeen
  <2> QED BY <2>1, AdminInitOK, TurnInitOK
<1>2. (AdminInv /\ TurnInv /\ SeenInv) /\ [AdministratorsNext]_adminVars
        => (AdminInv /\ TurnInv /\ SeenInv)'
  BY AdminNextOK, TurnNextOK, SeenNextOK
<1>3. ASSUME AdminInv, TurnInv, SeenInv, [AdministratorsNext]_adminVars,
             NEW a \in Ids, IsAdmin(a)', ~IsAdmin(a)
      PROVE  \E c \in Calls :
                /\ Appoints(c, a) /\ call[c].role = "ADMIN"
                /\ \/ Task(c).role = "ADMIN"
                   \/ ~Serial /\ Task(c).role = Nothing /\ call[c].seen.role = "ADMIN"
                /\ Serial => IsAdmin(call[c].by) /\ call[c].by # a
  <2>1. admin'[a] # admin[a] BY <1>3 DEF IsAdmin, AdminExists
  <2>2. PICK c \in Calls : AdminStep(c)
    BY <1>3, <2>1 DEF AdministratorsNext, adminVars, ReceiveTask
  <2>3. ~DeleteAdmin(c)
    BY <1>3, <2>1 DEF DeleteAdmin, IsAdmin, AdminExists, AdminInv, AdminTypeOK
  <2>4. InsertAdmin(c) \/ WriteAdmin(c)
    BY <2>1, <2>2, <2>3 DEF AdminStep, LoginAdmin, Authenticate, ListAdmins, FindEmail, ReadTarget,
                            ReadTargetAgain
  <2> QED BY <1>3, <2>4, AppointsOK
<1> DEFINE Given == \A a \in Ids : IsAdmin(a)' /\ ~IsAdmin(a) =>
        \E c \in Calls :
            /\ Appoints(c, a) /\ call[c].role = "ADMIN"
            /\ \/ Task(c).role = "ADMIN"
               \/ ~Serial /\ Task(c).role = Nothing /\ call[c].seen.role = "ADMIN"
            /\ Serial => IsAdmin(call[c].by) /\ call[c].by # a
<1>4. AdminInv /\ TurnInv /\ SeenInv /\ [AdministratorsNext]_adminVars => [Given]_adminVars
  BY <1>3
<1> HIDE DEF Given
<1>5. AdministratorsSpec => [][Given]_adminVars
  BY <1>1, <1>2, <1>4, PTL DEF AdministratorsSpec
<1> QED BY <1>5 DEF PowersAreGiven, Given
=============================================================================
