--------------------------- MODULE Administrators ---------------------------
(***************************************************************************)
(* The administrators of Noba: the Admin rows, the tokens by which they    *)
(* are known, and the calls by which they add, change and remove each      *)
(* other.  What a caller may do is decided once, by the row as it is when  *)
(* the call is authenticated; rows are read and written after that.  An    *)
(* administrator is named by the call that added the row.                  *)
(***************************************************************************)
EXTENDS Naturals, FiniteSets, People

CONSTANTS
    Admins, InitialAdmins,  \* the administrators at the start, their rows
    Tasks                   \* what an administrator may ask for in a call

Ids == Admins \cup Calls
Roles == {"BASIC", "INTERMEDIATE", "ADMIN"}
AdminType == [email : Emails, role : Roles, hasName : BOOLEAN]

\* Nothing: a field that is not given.
AdminRequests ==
    [kind : {"login"}, email : Emails]
    \cup [kind : {"list"}]
    \cup [kind : {"add"}, email : Emails, role : Roles \cup {"other", Nothing}, hasName : BOOLEAN]
    \cup [kind : {"change"}, of : Ids, role : Roles \cup {"other", Nothing}, hasName : BOOLEAN]
    \cup [kind : {"remove"}, of : Ids]

ASSUME AdministratorsAssumption ==
    /\ Admins \cap Calls = {} /\ Nothing \notin Ids \cup Roles
    /\ InitialAdmins \in [Admins -> AdminType] /\ NoRow \notin AdminType
    /\ Tasks \subseteq AdminRequests

VARIABLES
    admin,      \* the Admin rows
    signedIn,   \* the administrators somebody holds an access token of
    call        \* each call: where it is, who makes it and what it has read

adminVars == <<admin, signedIn, call, world>>

NoCall == [at |-> "idle", by |-> Nothing, req |-> Nothing, role |-> Nothing,
           seen |-> NoRow, answer |-> "none"]

AdministratorsInit ==
    /\ world \in Worlds
    /\ admin = [a \in Ids |-> IF a \in Admins THEN InitialAdmins[a] ELSE NoRow]
    /\ signedIn = Admins
    /\ call = [c \in Calls |-> NoCall]

AdminExists(a) == admin[a] # NoRow
HasEmail(a, email) == AdminExists(a) /\ admin[a].email = email
At(c, step) == call[c].at = step
Task(c) == call[c].req
To(c, step) == call' = [call EXCEPT ![c].at = step]
Ends(c, a) == call' = [call EXCEPT ![c].at = "done", ![c].answer = a]
Idle(c) == call[c].at \in {"idle", "done"}

-----------------------------------------------------------------------------
(* Requests arrive *)

\* A token carries the administrator's ID; a login has none yet.
ReceiveTask(c, a, r) ==
    /\ At(c, "idle")
    /\ Serial => \A d \in Calls : Idle(d)
    /\ IF r.kind = "login" THEN a = Nothing ELSE a \in signedIn
    /\ call' = [call EXCEPT ![c].at = IF r.kind = "login" THEN "login" ELSE "authenticate",
                            ![c].by = a, ![c].req = r]
    /\ UNCHANGED <<admin, signedIn>>

\* verifyAdminOtp, with a code that is right: the row is found by the email.
LoginAdmin(c) ==
    /\ At(c, "login")
    /\ \/ \E a \in Ids :
            /\ HasEmail(a, Task(c).email)
            /\ signedIn' = signedIn \cup {a} /\ Ends(c, "done")
       \/ /\ Faulty \/ \A a \in Ids : ~HasEmail(a, Task(c).email)
          /\ UNCHANGED signedIn /\ Ends(c, "refused")
    /\ UNCHANGED admin

\* Only the role ADMIN has permissions over administrators.
HasPermission(role) == role = "ADMIN"

\* Variants: the permission to change, or who is removed, is not looked at.
MayAskOf(a, role, r) ==
    /\ r.kind = "change" \/ HasPermission(role)
    /\ r.kind \in {"change", "remove"} => r.of # a
MayRemoveAnyone(a, role, r) ==
    /\ HasPermission(role)
    /\ r.kind = "change" => r.of # a

\* Nobody changes or removes themselves.
MayAsk(a, role, r) ==
    /\ HasPermission(role)
    /\ r.kind \in {"change", "remove"} => r.of # a

AfterAuthentication(r) ==
    CASE r.kind = "list" -> "list"
      [] r.kind = "add" -> "findEmail"
      [] r.kind = "change" -> "readTarget"
      [] r.kind = "remove" -> "delete"

\* JwtStrategy reads the row; who has none any more, or cannot be read, is nobody.
Authenticate(c) ==
    LET a == call[c].by
        isAllowed == AdminExists(a) /\ MayAsk(a, admin[a].role, Task(c))
    IN  /\ At(c, "authenticate")
        /\ \/ /\ isAllowed
              /\ call' = [call EXCEPT ![c].at = AfterAuthentication(Task(c)),
                                      ![c].role = admin[a].role]
           \/ (Faulty \/ ~isAllowed) /\ Ends(c, "forbidden")
        /\ UNCHANGED <<admin, signedIn>>

\* A failing query is an empty list.
ListAdmins(c) ==
    /\ At(c, "list") /\ Ends(c, "done")
    /\ UNCHANGED <<admin, signedIn>>

-----------------------------------------------------------------------------
(* addNobaAdmin *)

\* createAdmin: no role is BASIC.
NewAdmin(r) ==
    [email |-> r.email, role |-> IF r.role = Nothing THEN "BASIC" ELSE r.role,
     hasName |-> r.hasName]

\* A role nobody knows is an error; a failing query finds nobody.
FindEmail(c) ==
    LET isTaken == \E a \in Ids : HasEmail(a, Task(c).email)
    IN  /\ At(c, "findEmail")
        /\ \/ Task(c).role = "other" /\ Ends(c, "error")
           \/ Task(c).role # "other" /\ isTaken /\ Ends(c, "conflict")
           \/ Task(c).role # "other" /\ (Faulty \/ ~isTaken) /\ To(c, "insert")
        /\ UNCHANGED <<admin, signedIn>>

\* An email is one administrator's.
InsertAdmin(c) ==
    LET isTaken == \E a \in Ids : HasEmail(a, Task(c).email)
    IN  /\ At(c, "insert")
        /\ \/ /\ ~isTaken
              /\ admin' = [admin EXCEPT ![c] = NewAdmin(Task(c))]
              /\ Ends(c, "done") \/ (Faulty /\ Ends(c, "error"))
           \/ (isTaken \/ Faulty) /\ Ends(c, "error") /\ UNCHANGED admin
        /\ UNCHANGED signedIn

-----------------------------------------------------------------------------
(* updateNobaAdmin: the controller reads, the service reads again, then writes *)

ReadTarget(c) ==
    LET a == Task(c).of
    IN  /\ At(c, "readTarget")
        /\ \/ AdminExists(a) /\ call' = [call EXCEPT ![c].at = "readAgain", ![c].seen = admin[a]]
           \/ (Faulty \/ ~AdminExists(a)) /\ Ends(c, "notFound")
        /\ UNCHANGED <<admin, signedIn>>

\* What is not given is written back as it was read.
NewRole(c) == IF Task(c).role = Nothing THEN call[c].seen.role ELSE Task(c).role
HasName(c) == Task(c).hasName \/ call[c].seen.hasName

\* A role nobody knows and an empty name are refused.
ReadTargetAgain(c) ==
    /\ At(c, "readAgain")
    /\ \/ (NewRole(c) \notin Roles \/ ~HasName(c)) /\ Ends(c, "refused")
       \/ NewRole(c) \in Roles /\ HasName(c) /\ AdminExists(Task(c).of) /\ To(c, "write")
       \/ (Faulty \/ ~AdminExists(Task(c).of)) /\ Ends(c, "notFound")
    /\ UNCHANGED <<admin, signedIn>>

WriteAdmin(c) ==
    LET a == Task(c).of
    IN  /\ At(c, "write")
        /\ \/ /\ AdminExists(a)
              /\ admin' = [admin EXCEPT ![a].role = NewRole(c), ![a].hasName = HasName(c)]
              /\ Ends(c, "done") \/ (Faulty /\ Ends(c, "error"))
           \/ (Faulty \/ ~AdminExists(a)) /\ Ends(c, "error") /\ UNCHANGED admin
        /\ UNCHANGED signedIn

-----------------------------------------------------------------------------
(* deleteNobaAdmin: the tokens are left as they are *)

DeleteAdmin(c) ==
    LET a == Task(c).of
    IN  /\ At(c, "delete")
        /\ \/ /\ AdminExists(a)
              /\ admin' = [admin EXCEPT ![a] = NoRow]
              /\ Ends(c, "done") \/ (Faulty /\ Ends(c, "notFound"))
           \/ (Faulty \/ ~AdminExists(a)) /\ Ends(c, "notFound") /\ UNCHANGED admin
        /\ UNCHANGED signedIn

-----------------------------------------------------------------------------
AdminStep(c) ==
    \/ LoginAdmin(c) \/ Authenticate(c) \/ ListAdmins(c)
    \/ FindEmail(c) \/ InsertAdmin(c)
    \/ ReadTarget(c) \/ ReadTargetAgain(c) \/ WriteAdmin(c) \/ DeleteAdmin(c)

AdministratorsNext ==
    /\ \E c \in Calls :
        \/ \E r \in Tasks, a \in Ids \cup {Nothing} : ReceiveTask(c, a, r)
        \/ AdminStep(c)
    /\ UNCHANGED world

AdministratorsSpec == AdministratorsInit /\ [][AdministratorsNext]_adminVars

-----------------------------------------------------------------------------
(* Properties *)

IsAdmin(a) == AdminExists(a) /\ admin[a].role = "ADMIN"

\* While calls take turns there is always somebody left who may manage administrators:
\* nobody steps down or leaves except by the hand of another.
SomeAdminRemainsInTurn == Serial => \E a \in Ids : IsAdmin(a)

\* Call c adds a, or changes a's row, and ends with this step.
Appoints(c, a) ==
    /\ (At(c, "insert") /\ a = c) \/ (At(c, "write") /\ a = Task(c).of)
    /\ call'[c].at = "done"

\* Nobody comes to the role ADMIN but by the hand of a caller who had it when the call was
\* let in, and by a call that names the role.  While calls take turns the caller still has
\* it at that moment.  When they overlap, the caller may have lost it since, and a call that
\* names no role (a change of somebody's name) may bring back one that was taken after the
\* call had read the row: that is all an overlap can do.
PowersAreGiven ==
    [][\A a \in Ids : IsAdmin(a)' /\ ~IsAdmin(a) =>
        \E c \in Calls :
            /\ Appoints(c, a) /\ call[c].role = "ADMIN"
            /\ \/ Task(c).role = "ADMIN"
               \/ ~Serial /\ Task(c).role = Nothing /\ call[c].seen.role = "ADMIN"
            /\ Serial => IsAdmin(call[c].by) /\ call[c].by # a]_adminVars
=============================================================================
