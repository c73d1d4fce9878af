--------------------------- MODULE WorkforceProofs ---------------------------
(***************************************************************************)
(* How much of a salary is paid through Noba and how often a reminder is   *)
(* pushed, for any employees, schedules, requests and overlapping calls,   *)
(* with any queries and writes failing; and what becomes of one notice,    *)
(* for any rows of its consumers and any number of deployments.            *)
(***************************************************************************)
EXTENDS Workforce, NoticeDelivery, FiniteSetTheorems, TLAPS

NoticeSteps == {"load", "emit", "findToken", "addToken", "deleteToken", "choose", "readTokens",
                "push", "findHistory", "writeHistory"}
StaffSteps == {"findActive", "insert", "invite", "lookup", "read", "write", "setPercent",
               "list", "cap"}

StaffTypeOK ==
    /\ pc \in [Calls -> {"idle", "done"} \cup NoticeSteps \cup StaffSteps]
    /\ req \in [Calls -> Requests \cup {NoRequest}]
    /\ row \in [Staff -> EmployeeType \cup {NoRow}]
    /\ percent \in [Employers -> Nat]
    /\ target \in [Calls -> Staff \cup {Nothing}]
    /\ seen \in [Calls -> EmployeeType \cup {NoRow}]
    /\ seenMax \in [Calls -> Nat]
    /\ caps \in [Calls -> SUBSET [employee : Staff, allocation : Nat]]

IsAskedFor(e, n) == \E amount \in AskedFor(e) : n <= amount

\* Which requests come to which step; what a call is to write is of an employee who
\* has asked for no less.
CallOK(c) ==
    /\ pc[c] \in {"idle", "findActive", "insert", "lookup"} => target[c] = Nothing
    /\ pc[c] # "idle" => req[c] \in Requests
    /\ pc[c] \in {"findActive", "invite"} => Kind(c) = "invite"
    /\ pc[c] = "insert" => Kind(c) \in {"invite", "register"}
    /\ pc[c] = "lookup" => Kind(c) = "allocate"
    /\ pc[c] \in {"read", "write"} => Kind(c) \in {"invite", "link", "edit", "allocate"}
    /\ pc[c] \in {"setPercent", "list", "cap"} => Kind(c) = "setMax"
    /\ pc[c] \in {"invite", "read", "write"} => target[c] \in Staff /\ Exists(target[c])
    /\ pc[c] = "write" =>
        seen[c] \in EmployeeType /\ IsAskedFor(target[c], seen[c].allocation)
    /\ \A cap \in caps[c] : Exists(cap.employee) /\ IsAskedFor(cap.employee, cap.allocation)

StaffInv == StaffTypeOK /\ NeverMoreThanAsked /\ \A c \in Calls : CallOK(c)

\* What a request is made of.
LEMMA StaffRequestTyped ==
    ASSUME NEW r \in Requests
    PROVE  /\ r.kind \in {"transfer", "notice", "adjustment", "payrollStatus", "subscribe",
                          "unsubscribe", "remind", "invite", "register", "link", "allocate",
                          "edit", "setMax"}
           /\ "employee" \in DOMAIN r <=> r.kind \in {"link", "edit"}
           /\ r.kind \in {"link", "edit"} => r.employee \in Staff
           /\ r.kind \in {"register", "link"} => r.as \in Consumers
           /\ r.kind \in {"register", "invite", "setMax"} => r.employer \in Employers
           /\ r.kind = "invite" => r.email \in Emails /\ r.salary \in Nat
           /\ r.kind \in {"register", "allocate"} => r.allocation \in Nat
           /\ r.kind = "edit" => r.status \in Statuses \cup {Nothing}
                                 /\ r.salary \in Nat \cup {Nothing}
           /\ r.kind = "setMax" => r.percent \in Nat
<1>1. CASE r \in NotificationRequests
  BY <1>1 DEF NotificationRequests
<1>2. CASE r \in StaffRequests
  BY <1>2 DEF StaffRequests
<1> QED BY <1>1, <1>2, WorkforceAssumption

\* A cap is never above the amount that exceeds it.
LEMMA CapsLower ==
    ASSUME NEW a \in Nat, NEW p \in Nat, NEW s \in Nat, Exceeds(a, p, s)
    PROVE  Cap(p, s) \in Nat /\ Cap(p, s) <= a
<1>1. PICK x \in Nat : x = p * s
  OBVIOUS
<1>2. 100 * a > x BY <1>1 DEF Exceeds
<1>3. (x + 50) \div 100 \in Nat /\ (x + 50) \div 100 <= a
  BY <1>2
<1> QED BY <1>1, <1>3 DEF Cap

LEMMA AskedForIsNat ==
    ASSUME StaffInv, NEW e \in Staff
    PROVE  AskedFor(e) \subseteq Nat
<1>1. e \in Employees => InitialEmployees[e].allocation \in Nat
  BY WorkforceAssumption DEF EmployeeType
<1>2. ASSUME NEW c \in Calls, target[c] = e, Kind(c) \in {"register", "allocate"}
      PROVE  req[c].allocation \in Nat
  <2>1. req[c] \in Requests
    BY <1>2, WorkforceAssumption DEF StaffInv, CallOK
  <2> QED BY <1>2, <2>1, StaffRequestTyped DEF Kind
<1> QED BY <1>1, <1>2 DEF AskedFor

\* What was asked for of an employee stays, for calls choose their employee once.
LEMMA AskedForGrows ==
    ASSUME NEW e \in Staff, NEW n \in Nat, IsAskedFor(e, n),
           \A d \in Calls : target[d] # Nothing => target'[d] = target[d] /\ req'[d] = req[d]
    PROVE  IsAskedFor(e, n)'
<1>1. PICK amount \in AskedFor(e) : n <= amount BY DEF IsAskedFor
<1>2. amount \in AskedFor(e)'
  <2>1. CASE e \in Employees /\ amount = InitialEmployees[e].allocation
    BY <2>1 DEF AskedFor
  <2>2. CASE e \notin Employees /\ amount = 0
    BY <2>2 DEF AskedFor
  <2>3. ASSUME NEW d \in Calls, target[d] = e, Kind(d) \in {"register", "allocate"},
               amount = req[d].allocation
        PROVE  amount \in AskedFor(e)'
    <3>1. target'[d] = e /\ req'[d] = req[d] BY <2>3, WorkforceAssumption
    <3> QED BY <2>3, <3>1 DEF AskedFor, Kind
  <2> QED BY <1>1, <2>1, <2>2, <2>3 DEF AskedFor
<1> QED BY <1>1, <1>2 DEF IsAskedFor

\* A step of one call that leaves rows where they are and within what was asked for.
LEMMA OneCallSteps ==
    ASSUME StaffInv, StaffTypeOK', NEW c \in Calls,
           \A d \in Calls \ {c} : /\ pc'[d] = pc[d] /\ req'[d] = req[d] /\ target'[d] = target[d]
                                  /\ seen'[d] = seen[d] /\ caps'[d] = caps[d],
           target[c] # Nothing => target'[c] = target[c] /\ req'[c] = req[c],
           \A e \in Staff : Exists(e) => Exists(e)',
           \A e \in Staff : row'[e] # row[e] /\ Exists(e)' => IsAskedFor(e, row[e].allocation)',
           CallOK(c)'
    PROVE  StaffInv'
<1>0. \A d \in Calls : target[d] # Nothing => target'[d] = target[d] /\ req'[d] = req[d]
  OBVIOUS
<1>1. NeverMoreThanAsked'
  <2> SUFFICES ASSUME NEW e \in Staff, Exists(e)' PROVE IsAskedFor(e, row[e].allocation)'
    BY DEF NeverMoreThanAsked, IsAskedFor
  <2>1. CASE row'[e] # row[e] BY <2>1
  <2>2. CASE row'[e] = row[e]
    <3>1. Exists(e) /\ row[e] \in EmployeeType BY <2>2 DEF Exists, StaffInv, StaffTypeOK
    <3>2. row[e].allocation \in Nat /\ IsAskedFor(e, row[e].allocation)
      BY <3>1 DEF EmployeeType, StaffInv, NeverMoreThanAsked, IsAskedFor
    <3>3. PICK n \in Nat : n = row[e].allocation BY <3>2
    <3>4. IsAskedFor(e, n)' BY <1>0, <3>2, <3>3, AskedForGrows
    <3> QED BY <2>2, <3>3, <3>4
  <2> QED BY <2>1, <2>2
<1>2. ASSUME NEW d \in Calls \ {c} PROVE CallOK(d)'
  <2>0. CallOK(d) BY DEF StaffInv
  <2>1. ASSUME pc[d] = "write"
        PROVE  IsAskedFor(target[d], seen[d].allocation)'
    <3>1. seen[d].allocation \in Nat /\ target[d] \in Staff
          /\ IsAskedFor(target[d], seen[d].allocation)
      BY <2>0, <2>1 DEF CallOK, EmployeeType
    <3>2. PICK n \in Nat, e \in Staff : n = seen[d].allocation /\ e = target[d] BY <3>1
    <3>3. IsAskedFor(e, n)' BY <1>0, <3>1, <3>2, AskedForGrows
    <3> QED BY <3>2, <3>3
  <2>2. ASSUME NEW cap \in caps[d]
        PROVE  Exists(cap.employee)' /\ IsAskedFor(cap.employee, cap.allocation)'
    <3>1. cap.employee \in Staff /\ cap.allocation \in Nat BY DEF StaffInv, StaffTypeOK
    <3>2. Exists(cap.employee) /\ IsAskedFor(cap.employee, cap.allocation)
      BY <2>0, <2>2 DEF CallOK
    <3>3. PICK n \in Nat, e \in Staff : n = cap.allocation /\ e = cap.employee BY <3>1
    <3>4. IsAskedFor(e, n)' BY <1>0, <3>2, <3>3, AskedForGrows
    <3> QED BY <3>1, <3>2, <3>3, <3>4
  <2>3. \A cap \in caps'[d] : Exists(cap.employee)' /\ IsAskedFor(cap.employee, cap.allocation)'
    BY <2>2
  <2>4. pc[d] = "write" => seen'[d] \in EmployeeType /\ IsAskedFor(target[d], seen[d].allocation)'
    BY <2>0, <2>1 DEF CallOK
  <2> QED BY <2>0, <2>3, <2>4 DEF CallOK, Kind
<1> QED BY <1>1, <1>2 DEF StaffInv

LEMMA StaffInitOK == WorkforceInit => StaffInv
<1> SUFFICES ASSUME WorkforceInit PROVE StaffInv
    OBVIOUS
<1>1. StaffTypeOK
  <2>1. row \in [Staff -> EmployeeType \cup {NoRow}]
    BY WorkforceAssumption DEF WorkforceInit, Staff
  <2>2. percent \in [Employers -> Nat]
    BY WorkforceAssumption DEF WorkforceInit
  <2> QED BY <2>1, <2>2 DEF WorkforceInit, NotificationsInit, StaffTypeOK
<1>2. NeverMoreThanAsked
  <2> SUFFICES ASSUME NEW e \in Staff, Exists(e) PROVE IsAskedFor(e, row[e].allocation)
    BY DEF NeverMoreThanAsked, IsAskedFor
  <2>1. e \in Employees /\ row[e] = InitialEmployees[e]
    BY DEF WorkforceInit, Exists
  <2>2. row[e].allocation \in Nat BY <2>1, WorkforceAssumption DEF EmployeeType
  <2> QED BY <2>1, <2>2 DEF AskedFor, IsAskedFor
<1>3. ASSUME NEW c \in Calls PROVE CallOK(c)
  BY DEF WorkforceInit, NotificationsInit, CallOK
<1> QED BY <1>1, <1>2, <1>3 DEF StaffInv

LEMMA ReceiveKeeps ==
    ASSUME StaffInv, NEW c \in Calls, NEW r \in Requests, Receive(c, r)
    PROVE  StaffInv'
<1>1. /\ pc' = [pc EXCEPT ![c] = FirstStep(r.kind)]
      /\ req' = [req EXCEPT ![c] = r]
      /\ target' = [target EXCEPT ![c] = IF "employee" \in DOMAIN r THEN r.employee ELSE Nothing]
      /\ UNCHANGED <<row, percent, seen, seenMax, caps>>
      /\ pc[c] = "idle" /\ target[c] = Nothing
      /\ "employee" \in DOMAIN r => Exists(r.employee)
  BY DEF Receive, Continue, Goto, SetTarget, noticeVars, StaffInv, CallOK
<1>2. /\ FirstStep(r.kind) \in NoticeSteps \cup (StaffSteps \ {"invite", "write"})
      /\ FirstStep(r.kind) = "findActive" => r.kind = "invite"
      /\ FirstStep(r.kind) = "insert" => r.kind = "register"
      /\ FirstStep(r.kind) = "lookup" => r.kind = "allocate"
      /\ FirstStep(r.kind) = "read" => r.kind \in {"link", "edit"}
      /\ FirstStep(r.kind) \in {"setPercent", "list", "cap"} => r.kind = "setMax"
  BY StaffRequestTyped DEF FirstStep, NoticeSteps, StaffSteps
<1>3. "employee" \in DOMAIN r <=> r.kind \in {"link", "edit"}
  BY StaffRequestTyped
<1>4. r.kind \in {"link", "edit"} => r.employee \in Staff
  BY StaffRequestTyped
<1>5. pc'[c] = FirstStep(r.kind) /\ req'[c] = r
      /\ target'[c] = IF "employee" \in DOMAIN r THEN r.employee ELSE Nothing
  BY <1>1 DEF StaffInv, StaffTypeOK
<1>6. CallOK(c)'
  <2>1. CallOK(c) BY DEF StaffInv
  <2>2. \A cap \in caps'[c] : Exists(cap.employee)' /\ IsAskedFor(cap.employee, cap.allocation)'
    <3> SUFFICES ASSUME NEW cap \in caps[c]
                 PROVE  Exists(cap.employee)' /\ IsAskedFor(cap.employee, cap.allocation)'
      BY <1>1
    <3>1. cap.employee \in Staff /\ cap.allocation \in Nat BY DEF StaffInv, StaffTypeOK
    <3>2. Exists(cap.employee) /\ IsAskedFor(cap.employee, cap.allocation)
      BY <2>1 DEF CallOK
    <3>3. PICK n \in Nat, e \in Staff : n = cap.allocation /\ e = cap.employee BY <3>1
    <3>4. \A d \in Calls : target[d] # Nothing => target'[d] = target[d] /\ req'[d] = req[d]
      BY <1>1 DEF StaffInv, StaffTypeOK
    <3>5. IsAskedFor(e, n)' BY <3>2, <3>3, <3>4, AskedForGrows
    <3> QED BY <1>1, <3>2, <3>3, <3>5 DEF Exists
  <2>3. pc'[c] \notin {"idle", "invite", "write"} BY <1>2, <1>5 DEF NoticeSteps, StaffSteps
  <2> QED BY <1>1, <1>2, <1>3, <1>4, <1>5, <2>2, <2>3 DEF CallOK, Kind, Exists
<1>7. StaffTypeOK'
  BY <1>1, <1>2, <1>3, <1>4 DEF StaffInv, StaffTypeOK
<1> QED BY <1>1, <1>6, <1>7, OneCallSteps DEF StaffInv, StaffTypeOK, Exists

\* Notices change nothing of employees.
LEMMA NoticeKeeps ==
    ASSUME StaffInv, NEW c \in Calls, NotificationStep(c), UNCHANGED staffVars
    PROVE  StaffInv'
<1>1. pc \in [Calls -> {"idle", "done"} \cup NoticeSteps \cup StaffSteps]
  BY DEF StaffInv, StaffTypeOK
<1>2. /\ req' = req
      /\ pc[c] \in NoticeSteps
      /\ \E s \in NoticeSteps \cup {"done"} : pc' = [pc EXCEPT ![c] = s]
  BY <1>1 DEF NotificationStep, LoadNotice, EmitNotice, FindToken, AddToken, DeleteToken,
              ChooseConsumers, ReadTokens, SendPushes, FindHistory, WriteHistory, Continue, Goto,
              Finish, Fails, RetriesFrom, NoticeSteps
<1>3. pc'[c] \in NoticeSteps \cup {"done"} /\ \A d \in Calls \ {c} : pc'[d] = pc[d]
  BY <1>1, <1>2
<1>4. StaffTypeOK'
  BY <1>1, <1>2, <1>3 DEF StaffInv, StaffTypeOK, staffVars
<1>5. CallOK(c)'
  BY <1>2, <1>3 DEF StaffInv, CallOK, Kind, staffVars, NoticeSteps, Exists, IsAskedFor, AskedFor
<1> QED BY <1>2, <1>3, <1>4, <1>5, OneCallSteps DEF staffVars, Exists

\* What a step that only chooses, reads or ends leaves in place: the caps of the call
\* are what they were.
LEMMA SameCaps ==
    ASSUME StaffInv, NEW c \in Calls, row' = row,
           \A d \in Calls : target[d] # Nothing => target'[d] = target[d] /\ req'[d] = req[d],
           caps'[c] \subseteq caps[c]
    PROVE  \A cap \in caps'[c] : Exists(cap.employee)' /\ IsAskedFor(cap.employee, cap.allocation)'
<1> SUFFICES ASSUME NEW cap \in caps[c]
             PROVE  Exists(cap.employee)' /\ IsAskedFor(cap.employee, cap.allocation)'
    OBVIOUS
<1>1. cap.employee \in Staff /\ cap.allocation \in Nat BY DEF StaffInv, StaffTypeOK
<1>2. Exists(cap.employee) /\ IsAskedFor(cap.employee, cap.allocation)
  BY DEF StaffInv, CallOK
<1>3. PICK n \in Nat, e \in Staff : n = cap.allocation /\ e = cap.employee BY <1>1
<1>4. IsAskedFor(e, n)' BY <1>2, <1>3, AskedForGrows
<1> QED BY <1>2, <1>3, <1>4 DEF Exists

\* A step that writes no row, and comes to a place where its call is entitled to be.
LEMMA NoRowWritten ==
    ASSUME StaffInv, StaffTypeOK', NEW c \in Calls, UNCHANGED <<row, req>>,
           \A d \in Calls \ {c} : /\ pc'[d] = pc[d] /\ target'[d] = target[d]
                                  /\ seen'[d] = seen[d] /\ caps'[d] = caps[d],
           target[c] # Nothing => target'[c] = target[c],
           CallOK(c)'
    PROVE  StaffInv'
BY OneCallSteps DEF Exists

\* A step that ends its call, having written no row.
LEMMA EndingKeepsStaff ==
    ASSUME StaffInv, NEW c \in Calls, pc[c] # "idle", NEW a, Finish(c, a),
           UNCHANGED <<req, row, target, seen, seenMax>>, percent' \in [Employers -> Nat],
           caps' = caps \/ caps' = [caps EXCEPT ![c] = {}]
    PROVE  StaffInv'
<1>1. pc' = [pc EXCEPT ![c] = "done"] BY DEF Finish, Goto
<1>2. StaffTypeOK' BY <1>1 DEF StaffInv, StaffTypeOK
<1>3. caps'[c] \subseteq caps[c] /\ \A d \in Calls \ {c} : caps'[d] = caps[d]
  BY DEF StaffInv, StaffTypeOK
<1>4. \A cap \in caps'[c] : Exists(cap.employee)' /\ IsAskedFor(cap.employee, cap.allocation)'
  BY <1>3, SameCaps
<1>5. CallOK(c)'
  <2>1. pc'[c] = "done" BY <1>1 DEF StaffInv, StaffTypeOK
  <2> QED BY <1>4, <2>1 DEF StaffInv, CallOK
<1> QED BY <1>1, <1>2, <1>3, <1>5, NoRowWritten DEF StaffInv, StaffTypeOK

LEMMA FindActiveKeeps ==
    ASSUME StaffInv, NEW c \in Calls, FindActive(c)
    PROVE  StaffInv'
<1>0. /\ CallOK(c) /\ pc[c] = "findActive" /\ target[c] = Nothing /\ Kind(c) = "invite"
      /\ req[c] \in Requests
  BY DEF FindActive, StaffInv, CallOK
<1>1. ASSUME NEW e \in Staff, IsActive(e), SetTarget(c, e), AfterCreate(c, row[e])
      PROVE  StaffInv'
  <2>1. PICK s \in {"invite", "done"} : pc' = [pc EXCEPT ![c] = s]
    BY <1>1 DEF AfterCreate, Continue, Finish, Goto
  <2>2. target' = [target EXCEPT ![c] = e] BY <1>1 DEF SetTarget
  <2>3. UNCHANGED <<req, row, percent, seen, seenMax, caps>> BY DEF FindActive
  <2>4. StaffTypeOK' BY <2>1, <2>2, <2>3 DEF StaffInv, StaffTypeOK, StaffSteps
  <2>5. pc'[c] = s /\ target'[c] = e BY <2>1, <2>2 DEF StaffInv, StaffTypeOK
  <2>6. \A cap \in caps'[c] : Exists(cap.employee)' /\ IsAskedFor(cap.employee, cap.allocation)'
    <3>1. \A d \in Calls : target[d] # Nothing => target'[d] = target[d] /\ req'[d] = req[d]
      BY <1>0, <2>2, <2>3 DEF StaffInv, StaffTypeOK
    <3> QED BY <2>3, <3>1, SameCaps
  <2>7. CallOK(c)'
    BY <1>0, <1>1, <2>3, <2>5, <2>6 DEF CallOK, Kind, IsActive, Exists
  <2> QED BY <1>0, <2>1, <2>2, <2>3, <2>4, <2>7, NoRowWritten DEF StaffInv, StaffTypeOK
<1>2. ASSUME Continue(c, "insert"), UNCHANGED target PROVE StaffInv'
  <2>1. pc' = [pc EXCEPT ![c] = "insert"] BY <1>2 DEF Continue, Goto
  <2>2. UNCHANGED <<req, row, percent, target, seen, seenMax, caps>> BY <1>2 DEF FindActive
  <2>3. StaffTypeOK' BY <2>1, <2>2 DEF StaffInv, StaffTypeOK, StaffSteps
  <2>4. \A cap \in caps'[c] : Exists(cap.employee)' /\ IsAskedFor(cap.employee, cap.allocation)'
    BY <2>2, SameCaps
  <2>5. pc'[c] = "insert" BY <2>1 DEF StaffInv, StaffTypeOK
  <2>6. CallOK(c)' BY <1>0, <2>2, <2>4, <2>5 DEF CallOK, Kind
  <2> QED BY <2>1, <2>2, <2>3, <2>6, NoRowWritten DEF StaffInv, StaffTypeOK
<1>3. ASSUME Fails(c), UNCHANGED target PROVE StaffInv'
  BY <1>0, <1>3, EndingKeepsStaff DEF FindActive, Fails, StaffInv, StaffTypeOK
<1> QED BY <1>1, <1>2, <1>3 DEF FindActive

LEMMA InsertKeeps ==
    ASSUME StaffInv, NEW c \in Calls, InsertEmployee(c)
    PROVE  StaffInv'
<1>0. /\ CallOK(c) /\ pc[c] = "insert" /\ target[c] = Nothing
      /\ Kind(c) \in {"invite", "register"} /\ req[c] \in Requests
      /\ c \in Staff /\ c \notin Employees
  BY WorkforceAssumption DEF InsertEmployee, StaffInv, CallOK, Staff
<1>1. PICK new : new = NewEmployee(req[c]) OBVIOUS
<1>2. new \in EmployeeType
  BY <1>0, <1>1, StaffRequestTyped DEF NewEmployee, EmployeeType, Statuses, Kind
<1>3. ASSUME row' = [row EXCEPT ![c] = new], SetTarget(c, c), AfterCreate(c, new) \/ Fails(c)
      PROVE  StaffInv'
  <2>1. PICK s \in {"invite", "done"} : pc' = [pc EXCEPT ![c] = s]
    BY <1>3 DEF AfterCreate, Continue, Finish, Goto, Fails
  <2>0. s = "invite" => Kind(c) = "invite"
    <3> SUFFICES ASSUME s = "invite" PROVE Kind(c) = "invite"
      OBVIOUS
    <3>1. pc'[c] = "invite" BY <2>1 DEF StaffInv, StaffTypeOK
    <3> QED BY <1>3, <3>1 DEF AfterCreate, Finish, Goto, Fails, StaffInv, StaffTypeOK
  <2>2. target' = [target EXCEPT ![c] = c] BY <1>3 DEF SetTarget
  <2>3. UNCHANGED <<req, percent, seen, seenMax, caps>> BY DEF InsertEmployee
  <2>4. StaffTypeOK'
    BY <1>0, <1>2, <1>3, <2>1, <2>2, <2>3 DEF StaffInv, StaffTypeOK, StaffSteps
  <2>5. pc'[c] = s /\ target'[c] = c /\ row'[c] = new
    BY <1>0, <1>3, <2>1, <2>2 DEF StaffInv, StaffTypeOK
  <2>6. \A e \in Staff \ {c} : row'[e] = row[e] BY <1>3 DEF StaffInv, StaffTypeOK
  <2>7. Exists(c)' BY <1>2, <2>5, WorkforceAssumption DEF Exists
  <2>8. \A e \in Staff : Exists(e) => Exists(e)' BY <2>6, <2>7 DEF Exists
  <2>9. IsAskedFor(c, row[c].allocation)'
    <3>1. CASE Kind(c) = "invite"
      <4>1. new.allocation = 0 /\ 0 \in AskedFor(c)'
        BY <1>0, <1>1, <3>1 DEF NewEmployee, Kind, AskedFor
      <4> QED BY <2>5, <4>1 DEF IsAskedFor
    <3>2. CASE Kind(c) = "register"
      <4>1. new.allocation = req[c].allocation /\ req[c].allocation \in Nat
        BY <1>0, <1>1, <3>2, StaffRequestTyped DEF NewEmployee, Kind
      <4>2. req[c].allocation \in AskedFor(c)'
        BY <2>3, <2>5, <3>2 DEF AskedFor, Kind
      <4> QED BY <2>5, <4>1, <4>2 DEF IsAskedFor
    <3> QED BY <1>0, <3>1, <3>2
  <2>10. \A cap \in caps'[c] : Exists(cap.employee)' /\ IsAskedFor(cap.employee, cap.allocation)'
    <3> SUFFICES ASSUME NEW cap \in caps[c]
                 PROVE  Exists(cap.employee)' /\ IsAskedFor(cap.employee, cap.allocation)'
      BY <2>3
    <3>1. cap.employee \in Staff /\ cap.allocation \in Nat BY DEF StaffInv, StaffTypeOK
    <3>2. Exists(cap.employee) /\ IsAskedFor(cap.employee, cap.allocation)
      BY <1>0 DEF CallOK
    <3>3. PICK n \in Nat, e \in Staff : n = cap.allocation /\ e = cap.employee BY <3>1
    <3>4. \A d \in Calls : target[d] # Nothing => target'[d] = target[d] /\ req'[d] = req[d]
      BY <1>0, <2>2, <2>3 DEF StaffInv, StaffTypeOK
    <3>5. IsAskedFor(e, n)' BY <3>2, <3>3, <3>4, AskedForGrows
    <3> QED BY <2>8, <3>2, <3>3, <3>5
  <2>11. CallOK(c)'
    BY <1>0, <2>0, <2>3, <2>5, <2>7, <2>10 DEF CallOK, Kind
  <2>12. \A e \in Staff : row'[e] # row[e] /\ Exists(e)' => IsAskedFor(e, row[e].allocation)'
    BY <2>6, <2>9
  <2>13. \A d \in Calls \ {c} : /\ pc'[d] = pc[d] /\ req'[d] = req[d] /\ target'[d] = target[d]
                                /\ seen'[d] = seen[d] /\ caps'[d] = caps[d]
    BY <2>1, <2>2, <2>3 DEF StaffInv, StaffTypeOK
  <2> QED BY <1>0, <2>4, <2>8, <2>11, <2>12, <2>13, OneCallSteps
<1>4. ASSUME Finish(c, "error"), UNCHANGED <<row, target>> PROVE StaffInv'
  BY <1>0, <1>4, EndingKeepsStaff DEF InsertEmployee, StaffInv, StaffTypeOK
<1> QED BY <1>1, <1>3, <1>4 DEF InsertEmployee

\* A step that moves its call on, having written no row and chosen no employee.
LEMMA MovingKeepsStaff ==
    ASSUME StaffInv, NEW c \in Calls, NEW s \in StaffSteps, Continue(c, s),
           UNCHANGED <<req, row, target>>, percent' \in [Employers -> Nat],
           seen' \in [Calls -> EmployeeType \cup {NoRow}], seenMax' \in [Calls -> Nat],
           caps' \in [Calls -> SUBSET [employee : Staff, allocation : Nat]],
           \A d \in Calls \ {c} : seen'[d] = seen[d] /\ caps'[d] = caps[d],
           pc'[c] = s => CallOK(c)'
    PROVE  StaffInv'
<1>1. pc' = [pc EXCEPT ![c] = s] BY DEF Continue, Goto
<1>2. StaffTypeOK' BY <1>1 DEF StaffInv, StaffTypeOK, StaffSteps
<1>3. CallOK(c)' BY <1>1 DEF StaffInv, StaffTypeOK
<1> QED BY <1>1, <1>2, <1>3, NoRowWritten DEF StaffInv, StaffTypeOK

LEMMA InvitationKeeps ==
    ASSUME StaffInv, NEW c \in Calls, SendInvitation(c)
    PROVE  StaffInv'
<1>0. /\ CallOK(c) /\ pc[c] = "invite" /\ Kind(c) = "invite" /\ req[c] \in Requests
      /\ UNCHANGED <<req, row, percent, target, seen, seenMax, caps>>
  BY DEF SendInvitation, StaffInv, CallOK, staffVars
<1>1. CASE Fails(c)
  BY <1>0, <1>1, EndingKeepsStaff DEF Fails, StaffInv, StaffTypeOK
<1>2. CASE Continue(c, "read")
  <2>1. \A cap \in caps'[c] : Exists(cap.employee)' /\ IsAskedFor(cap.employee, cap.allocation)'
    BY <1>0, SameCaps
  <2>2. pc'[c] = "read" => CallOK(c)' BY <1>0, <2>1 DEF CallOK, Kind, Exists
  <2>3. "read" \in StaffSteps BY DEF StaffSteps
  <2> QED BY <1>0, <1>2, <2>2, <2>3, MovingKeepsStaff DEF StaffInv, StaffTypeOK
<1> QED BY <1>1, <1>2 DEF SendInvitation

LEMMA LookupKeeps ==
    ASSUME StaffInv, NEW c \in Calls, LookupEmployee(c)
    PROVE  StaffInv'
<1>0. /\ CallOK(c) /\ pc[c] = "lookup" /\ target[c] = Nothing /\ Kind(c) = "allocate"
      /\ req[c] \in Requests
      /\ UNCHANGED <<req, row, percent, seen, seenMax, caps>>
  BY DEF LookupEmployee, StaffInv, CallOK
<1>1. ASSUME NEW e \in Staff, Exists(e), SetTarget(c, e), Continue(c, "read")
      PROVE  StaffInv'
  <2>1. pc' = [pc EXCEPT ![c] = "read"] BY <1>1 DEF Continue, Goto
  <2>2. target' = [target EXCEPT ![c] = e] BY <1>1 DEF SetTarget
  <2>3. StaffTypeOK' BY <1>0, <2>1, <2>2 DEF StaffInv, StaffTypeOK, StaffSteps
  <2>4. pc'[c] = "read" /\ target'[c] = e BY <2>1, <2>2 DEF StaffInv, StaffTypeOK
  <2>5. \A cap \in caps'[c] : Exists(cap.employee)' /\ IsAskedFor(cap.employee, cap.allocation)'
    <3>1. \A d \in Calls : target[d] # Nothing => target'[d] = target[d] /\ req'[d] = req[d]
      BY <1>0, <2>2 DEF StaffInv, StaffTypeOK
    <3> QED BY <1>0, <3>1, SameCaps
  <2>6. CallOK(c)' BY <1>0, <1>1, <2>4, <2>5 DEF CallOK, Kind, Exists
  <2> QED BY <1>0, <2>1, <2>2, <2>3, <2>6, NoRowWritten DEF StaffInv, StaffTypeOK
<1>2. ASSUME NEW a, Finish(c, a), UNCHANGED target PROVE StaffInv'
  BY <1>0, <1>2, EndingKeepsStaff DEF StaffInv, StaffTypeOK
<1> QED BY <1>1, <1>2 DEF LookupEmployee, Fails

LEMMA ReadKeeps ==
    ASSUME StaffInv, NEW c \in Calls, ReadEmployee(c)
    PROVE  StaffInv'
<1>0. /\ CallOK(c) /\ pc[c] = "read" /\ target[c] \in Staff /\ Exists(target[c])
      /\ Kind(c) \in {"invite", "link", "edit", "allocate"} /\ req[c] \in Requests
      /\ UNCHANGED <<req, row, percent, target, caps>>
  BY DEF ReadEmployee, StaffInv, CallOK
<1>1. ASSUME NEW a, Finish(c, a), UNCHANGED <<seen, seenMax>> PROVE StaffInv'
  BY <1>0, <1>1, EndingKeepsStaff DEF StaffInv, StaffTypeOK
<1>2. CASE /\ seen' = [seen EXCEPT ![c] = row[target[c]]]
           /\ seenMax' = [seenMax EXCEPT ![c] = percent[row[target[c]].employer]]
           /\ Continue(c, "write")
  <2>1. row[target[c]] \in EmployeeType
    BY <1>0 DEF Exists, StaffInv, StaffTypeOK
  <2>2. percent[row[target[c]].employer] \in Nat
    BY <2>1 DEF EmployeeType, StaffInv, StaffTypeOK
  <2>3. seen' \in [Calls -> EmployeeType \cup {NoRow}] /\ seenMax' \in [Calls -> Nat]
        /\ seen'[c] = row[target[c]] /\ \A d \in Calls \ {c} : seen'[d] = seen[d]
    BY <1>2, <2>1, <2>2 DEF StaffInv, StaffTypeOK
  <2>4. \A cap \in caps'[c] : Exists(cap.employee)' /\ IsAskedFor(cap.employee, cap.allocation)'
    BY <1>0, SameCaps
  <2>5. IsAskedFor(target[c], seen[c].allocation)'
    <3>1. PICK n \in Nat, e \in Staff : n = row[target[c]].allocation /\ e = target[c]
      BY <1>0, <2>1 DEF EmployeeType
    <3>2. IsAskedFor(e, n) BY <1>0, <3>1 DEF StaffInv, NeverMoreThanAsked, IsAskedFor
    <3>3. IsAskedFor(e, n)' BY <1>0, <3>2, AskedForGrows
    <3> QED BY <1>0, <2>3, <3>1, <3>3
  <2>6. pc'[c] = "write" => CallOK(c)'
    BY <1>0, <2>1, <2>3, <2>4, <2>5 DEF CallOK, Kind, Exists
  <2>7. "write" \in StaffSteps BY DEF StaffSteps
  <2> QED BY <1>0, <1>2, <2>3, <2>6, <2>7, MovingKeepsStaff DEF StaffInv, StaffTypeOK
<1> QED BY <1>1, <1>2 DEF ReadEmployee, Fails

\* The amount an update writes: the one asked for, the one read, or less.
LEMMA AllocationIsAskedFor ==
    ASSUME StaffInv, NEW c \in Calls, pc[c] = "write"
    PROVE  Allocation(c) \in Nat /\ IsAskedFor(target[c], Allocation(c))
<1>0. /\ target[c] \in Staff /\ seen[c] \in EmployeeType /\ seenMax[c] \in Nat
      /\ IsAskedFor(target[c], seen[c].allocation) /\ req[c] \in Requests
      /\ Kind(c) \in {"invite", "link", "edit", "allocate"}
  BY DEF StaffInv, StaffTypeOK, CallOK
<1>1. Asked(c) \in Nat /\ IsAskedFor(target[c], Asked(c))
  <2>1. CASE Kind(c) = "allocate"
    <3>1. req[c].allocation \in Nat BY <1>0, <2>1, StaffRequestTyped DEF Kind
    <3>2. req[c].allocation \in AskedFor(target[c]) BY <2>1 DEF AskedFor
    <3> QED BY <2>1, <3>1, <3>2 DEF Asked, IsAskedFor
  <2>2. CASE Kind(c) # "allocate"
    BY <1>0, <2>2 DEF Asked, EmployeeType
  <2> QED BY <2>1, <2>2
<1>2. CASE ~(SalaryIsKnown(c) /\ Exceeds(Asked(c), Maximum(seenMax[c]), Salary(c)))
  BY <1>1, <1>2 DEF Allocation
<1>3. CASE SalaryIsKnown(c) /\ Exceeds(Asked(c), Maximum(seenMax[c]), Salary(c))
  <2>1. Salary(c) \in Nat
    <3>1. Kind(c) = "edit" /\ Given(c, "salary") => req[c].salary \in Nat
      BY <1>0, StaffRequestTyped DEF Kind, Given
    <3> QED BY <1>0, <3>1 DEF Salary, EmployeeType
  <2>2. Maximum(seenMax[c]) \in Nat BY <1>0 DEF Maximum
  <2>3. Cap(Maximum(seenMax[c]), Salary(c)) \in Nat
        /\ Cap(Maximum(seenMax[c]), Salary(c)) <= Asked(c)
    BY <1>1, <1>3, <2>1, <2>2, CapsLower
  <2>4. Allocation(c) = Cap(Maximum(seenMax[c]), Salary(c)) BY <1>3 DEF Allocation
  <2>5. PICK amount \in AskedFor(target[c]) : Asked(c) <= amount BY <1>1 DEF IsAskedFor
  <2>6. amount \in Nat BY <1>0, <2>5, AskedForIsNat
  <2>7. Allocation(c) <= amount BY <1>1, <2>3, <2>4, <2>5, <2>6
  <2> QED BY <2>3, <2>4, <2>5, <2>7 DEF IsAskedFor
<1> QED BY <1>2, <1>3

\* A write of one row, of an amount asked for, by a call that has chosen its employee.
LEMMA RowWritten ==
    ASSUME StaffInv, StaffTypeOK', NEW c \in Calls, NEW e \in Staff, NEW new \in EmployeeType,
           IsAskedFor(e, new.allocation), Exists(e), row' = [row EXCEPT ![e] = new],
           UNCHANGED <<req, target, seen>>,
           \A d \in Calls \ {c} : pc'[d] = pc[d] /\ caps'[d] = caps[d],
           pc'[c] \in {"cap", "done"} /\ (pc'[c] = "cap" => pc[c] = "cap"),
           pc[c] # "idle", caps'[c] \subseteq caps[c]
    PROVE  StaffInv'
<1>1. row'[e] = new /\ \A f \in Staff \ {e} : row'[f] = row[f]
  BY DEF StaffInv, StaffTypeOK
<1>2. \A f \in Staff : Exists(f) => Exists(f)'
  BY <1>1, WorkforceAssumption DEF Exists
<1>3. new.allocation \in Nat BY DEF EmployeeType
<1>4. IsAskedFor(e, row[e].allocation)'
  <2>1. PICK n \in Nat : n = new.allocation BY <1>3
  <2>2. IsAskedFor(e, n)' BY <2>1, AskedForGrows
  <2> QED BY <1>1, <2>1, <2>2
<1>5. \A cap \in caps'[c] : Exists(cap.employee)' /\ IsAskedFor(cap.employee, cap.allocation)'
  <2> SUFFICES ASSUME NEW cap \in caps[c]
               PROVE  Exists(cap.employee)' /\ IsAskedFor(cap.employee, cap.allocation)'
    OBVIOUS
  <2>1. cap.employee \in Staff /\ cap.allocation \in Nat BY DEF StaffInv, StaffTypeOK
  <2>2. Exists(cap.employee) /\ IsAskedFor(cap.employee, cap.allocation)
    BY DEF StaffInv, CallOK
  <2>3. PICK n \in Nat, f \in Staff : n = cap.allocation /\ f = cap.employee BY <2>1
  <2>4. IsAskedFor(f, n)' BY <2>2, <2>3, AskedForGrows
  <2> QED BY <1>2, <2>2, <2>3, <2>4
<1>6. CallOK(c)'
  BY <1>5 DEF StaffInv, CallOK, Kind
<1>7. \A f \in Staff : row'[f] # row[f] /\ Exists(f)' => IsAskedFor(f, row[f].allocation)'
  BY <1>1, <1>4
<1> QED BY <1>2, <1>6, <1>7, OneCallSteps

LEMMA WriteKeeps ==
    ASSUME StaffInv, NEW c \in Calls, WriteEmployee(c)
    PROVE  StaffInv'
<1>0. /\ pc[c] = "write" /\ target[c] \in Staff /\ Exists(target[c]) /\ req[c] \in Requests
      /\ Kind(c) \in {"invite", "link", "edit", "allocate"} /\ seen[c] \in EmployeeType
      /\ UNCHANGED <<req, percent, target, seen, seenMax, caps>>
  BY DEF WriteEmployee, StaffInv, CallOK
<1>1. PICK new : new = Updated(c, row[target[c]]) OBVIOUS
<1>2. Allocation(c) \in Nat /\ IsAskedFor(target[c], Allocation(c))
  BY <1>0, AllocationIsAskedFor
<1>3. new \in EmployeeType /\ new.allocation = Allocation(c)
  <2>1. row[target[c]] \in EmployeeType BY <1>0 DEF Exists, StaffInv, StaffTypeOK
  <2>2. PICK old \in EmployeeType : old = row[target[c]] BY <2>1
  <2>3. Kind(c) = "link" => req[c].as \in Consumers
    BY <1>0, StaffRequestTyped DEF Kind
  <2>4. NewStatus(c, old) \in Statuses
    <3>1. Kind(c) = "edit" /\ Given(c, "status") => req[c].status \in Statuses
      BY <1>0, StaffRequestTyped DEF Kind, Given
    <3> QED BY <3>1 DEF NewStatus, EmployeeType, Statuses
  <2>5. Salary(c) \in Nat
    <3>1. Kind(c) = "edit" /\ Given(c, "salary") => req[c].salary \in Nat
      BY <1>0, StaffRequestTyped DEF Kind, Given
    <3> QED BY <1>0, <3>1 DEF Salary, EmployeeType
  <2>6. PICK a \in Nat, st \in Statuses, sal \in Nat :
            a = Allocation(c) /\ st = NewStatus(c, old)
            /\ sal = IF SalaryIsKnown(c) THEN Salary(c) ELSE old.salary
    BY <1>2, <2>4, <2>5 DEF EmployeeType
  <2>7. PICK u \in Consumers \cup {Nothing} :
            u = IF Kind(c) = "link" THEN req[c].as ELSE old.consumer
    BY <2>3 DEF EmployeeType
  <2>8. new = [old EXCEPT !.consumer = u, !.status = st, !.allocation = a, !.salary = sal]
    BY <1>1, <2>2, <2>6, <2>7 DEF Updated
  <2> QED BY <2>6, <2>8 DEF EmployeeType
<1>4. ASSUME row' = [row EXCEPT ![target[c]] = new], NEW a, Finish(c, a) PROVE StaffInv'
  <2>1. pc' = [pc EXCEPT ![c] = "done"] BY <1>4 DEF Finish, Goto
  <2>2. StaffTypeOK' BY <1>0, <1>3, <1>4, <2>1 DEF StaffInv, StaffTypeOK
  <2>3. IsAskedFor(target[c], new.allocation) BY <1>2, <1>3
  <2>4. pc'[c] = "done" /\ \A d \in Calls \ {c} : pc'[d] = pc[d]
    BY <2>1 DEF StaffInv, StaffTypeOK
  <2> QED BY <1>0, <1>3, <1>4, <2>2, <2>3, <2>4, RowWritten
<1>5. ASSUME Finish(c, "error"), UNCHANGED row PROVE StaffInv'
  BY <1>0, <1>5, EndingKeepsStaff DEF StaffInv, StaffTypeOK
<1> QED BY <1>1, <1>4, <1>5 DEF WriteEmployee, Fails

LEMMA PercentKeeps ==
    ASSUME StaffInv, NEW c \in Calls, SetPercent(c)
    PROVE  StaffInv'
<1>0. /\ CallOK(c) /\ pc[c] = "setPercent" /\ req[c] \in Requests /\ Kind(c) = "setMax"
      /\ UNCHANGED <<req, row, target, seen, seenMax, caps>>
  BY DEF SetPercent, StaffInv, CallOK
<1>1. percent' \in [Employers -> Nat]
  BY <1>0, StaffRequestTyped DEF SetPercent, Kind, StaffInv, StaffTypeOK
<1>2. ASSUME NEW a, Finish(c, a) PROVE StaffInv'
  BY <1>0, <1>1, <1>2, EndingKeepsStaff
<1>3. CASE Continue(c, "list")
  <2>1. \A cap \in caps'[c] : Exists(cap.employee)' /\ IsAskedFor(cap.employee, cap.allocation)'
    BY <1>0, SameCaps
  <2>2. pc'[c] = "list" => CallOK(c)' BY <1>0, <2>1 DEF CallOK, Kind
  <2>3. "list" \in StaffSteps BY DEF StaffSteps
  <2> QED BY <1>0, <1>1, <1>3, <2>2, <2>3, MovingKeepsStaff DEF StaffInv, StaffTypeOK
<1> QED BY <1>2, <1>3 DEF SetPercent, Fails

LEMMA ListKeeps ==
    ASSUME StaffInv, NEW c \in Calls, ListEmployees(c)
    PROVE  StaffInv'
<1>0. /\ CallOK(c) /\ pc[c] = "list" /\ req[c] \in Requests /\ Kind(c) = "setMax"
      /\ UNCHANGED <<req, row, percent, target, seen, seenMax>>
  BY DEF ListEmployees, StaffInv, CallOK
<1>1. CASE Fails(c) /\ UNCHANGED caps
  BY <1>0, <1>1, EndingKeepsStaff DEF Fails, StaffInv, StaffTypeOK
<1>2. CASE caps' = [caps EXCEPT ![c] = OverTheMaximum(c)] /\ Continue(c, "cap")
  <2>1. req[c].percent \in Nat BY <1>0, StaffRequestTyped DEF Kind
  <2>2. ASSUME NEW cap \in OverTheMaximum(c)
        PROVE  /\ cap \in [employee : Staff, allocation : Nat]
               /\ Exists(cap.employee) /\ IsAskedFor(cap.employee, cap.allocation)
    <3>1. PICK e \in Staff : /\ IsActive(e)
                             /\ Exceeds(row[e].allocation, req[c].percent, row[e].salary)
                             /\ cap = [employee |-> e,
                                       allocation |-> Cap(req[c].percent, row[e].salary)]
      BY <2>2 DEF OverTheMaximum
    <3>2. row[e] \in EmployeeType BY <3>1 DEF IsActive, Exists, StaffInv, StaffTypeOK
    <3>3. row[e].allocation \in Nat /\ row[e].salary \in Nat BY <3>2 DEF EmployeeType
    <3>4. Cap(req[c].percent, row[e].salary) \in Nat
          /\ Cap(req[c].percent, row[e].salary) <= row[e].allocation
      BY <2>1, <3>1, <3>3, CapsLower
    <3>5. PICK amount \in AskedFor(e) : row[e].allocation <= amount
      BY <3>1 DEF IsActive, StaffInv, NeverMoreThanAsked
    <3>6. amount \in Nat BY <3>5, AskedForIsNat
    <3>7. Cap(req[c].percent, row[e].salary) <= amount BY <3>3, <3>4, <3>5, <3>6
    <3> QED BY <3>1, <3>4, <3>5, <3>7 DEF IsActive, IsAskedFor
  <2>3. caps' \in [Calls -> SUBSET [employee : Staff, allocation : Nat]]
        /\ caps'[c] = OverTheMaximum(c) /\ \A d \in Calls \ {c} : caps'[d] = caps[d]
    BY <1>2, <2>2 DEF StaffInv, StaffTypeOK
  <2>4. \A cap \in caps'[c] : Exists(cap.employee)' /\ IsAskedFor(cap.employee, cap.allocation)'
    <3> SUFFICES ASSUME NEW cap \in OverTheMaximum(c)
                 PROVE  Exists(cap.employee)' /\ IsAskedFor(cap.employee, cap.allocation)'
      BY <2>3
    <3>1. cap.employee \in Staff /\ cap.allocation \in Nat BY <2>2
    <3>2. PICK n \in Nat, f \in Staff : n = cap.allocation /\ f = cap.employee BY <3>1
    <3>3. IsAskedFor(f, n)' BY <1>0, <2>2, <3>2, AskedForGrows
    <3> QED BY <1>0, <2>2, <3>2, <3>3 DEF Exists
  <2>5. pc'[c] = "cap" => CallOK(c)' BY <1>0, <2>4 DEF CallOK, Kind
  <2>6. "cap" \in StaffSteps BY DEF StaffSteps
  <2> QED BY <1>0, <1>2, <2>3, <2>5, <2>6, MovingKeepsStaff DEF StaffInv, StaffTypeOK
<1> QED BY <1>1, <1>2 DEF ListEmployees

LEMMA CapKeeps ==
    ASSUME StaffInv, NEW c \in Calls, CapEmployee(c)
    PROVE  StaffInv'
<1>0. /\ pc[c] = "cap" /\ UNCHANGED <<pc, req, percent, target, seen, seenMax>>
  BY DEF CapEmployee
<1>1. PICK cap \in caps[c] :
        /\ caps' = [caps EXCEPT ![c] = @ \ {cap}]
        /\ \/ row' = [row EXCEPT ![cap.employee].allocation = cap.allocation]
           \/ UNCHANGED row
  BY DEF CapEmployee
<1>2. /\ cap.employee \in Staff /\ cap.allocation \in Nat
      /\ Exists(cap.employee) /\ IsAskedFor(cap.employee, cap.allocation)
  BY DEF StaffInv, StaffTypeOK, CallOK
<1>3. caps' \in [Calls -> SUBSET [employee : Staff, allocation : Nat]]
      /\ caps'[c] \subseteq caps[c] /\ \A d \in Calls \ {c} : caps'[d] = caps[d]
  BY <1>1 DEF StaffInv, StaffTypeOK
<1>4. CASE row' = [row EXCEPT ![cap.employee].allocation = cap.allocation]
  <2>1. row[cap.employee] \in EmployeeType BY <1>2 DEF Exists, StaffInv, StaffTypeOK
  <2>2. PICK e \in Staff, n \in Nat, old \in EmployeeType :
            e = cap.employee /\ n = cap.allocation /\ old = row[cap.employee]
    BY <1>2, <2>1
  <2>a. /\ [old EXCEPT !.allocation = n] \in EmployeeType
        /\ [old EXCEPT !.allocation = n].allocation = n
    BY DEF EmployeeType
  <2>3. PICK new \in EmployeeType : new = [old EXCEPT !.allocation = n] /\ new.allocation = n
    BY <2>a
  <2>4. row' = [row EXCEPT ![e] = new]
    BY <1>4, <2>2, <2>3 DEF StaffInv, StaffTypeOK
  <2>5. StaffTypeOK' BY <1>0, <1>3, <2>4 DEF StaffInv, StaffTypeOK
  <2> QED BY <1>0, <1>2, <1>3, <2>2, <2>3, <2>4, <2>5, RowWritten
<1>5. CASE UNCHANGED row
  <2>1. StaffTypeOK' BY <1>0, <1>3, <1>5 DEF StaffInv, StaffTypeOK
  <2>2. \A f \in caps'[c] : Exists(f.employee)' /\ IsAskedFor(f.employee, f.allocation)'
    BY <1>0, <1>3, <1>5, SameCaps
  <2>3. CallOK(c)' BY <1>0, <2>2 DEF StaffInv, CallOK, Kind
  <2> QED BY <1>0, <1>3, <1>5, <2>1, <2>3, NoRowWritten
<1> QED BY <1>1, <1>4, <1>5

LEMMA EndCapsKeeps ==
    ASSUME StaffInv, NEW c \in Calls, EndCaps(c)
    PROVE  StaffInv'
BY EndingKeepsStaff DEF EndCaps, Fails, StaffInv, StaffTypeOK

LEMMA StaffNextKeeps ==
    ASSUME StaffInv, [WorkforceNext]_vars
    PROVE  StaffInv'
<1>1. CASE UNCHANGED vars
  BY <1>1 DEF vars, callVars, staffVars, StaffInv, StaffTypeOK, NeverMoreThanAsked, CallOK, Kind,
              Exists, IsAskedFor, AskedFor
<1>2. ASSUME NEW c \in Calls, NEW r \in Requests, Receive(c, r) PROVE StaffInv'
  BY <1>2, ReceiveKeeps
<1>3. ASSUME NEW c \in Calls, StaffStep(c) PROVE StaffInv'
  BY <1>3, FindActiveKeeps, InsertKeeps, InvitationKeeps, LookupKeeps, ReadKeeps, WriteKeeps,
     PercentKeeps, ListKeeps, CapKeeps, EndCapsKeeps DEF StaffStep
<1>4. ASSUME NEW c \in Calls, NotificationStep(c), UNCHANGED staffVars PROVE StaffInv'
  BY <1>4, NoticeKeeps
<1>5. CASE ((\E e \in emitted : HandleEvent(e)) \/ NextDay) /\ UNCHANGED staffVars
  BY <1>5 DEF HandleEvent, NextDay, callVars, staffVars, StaffInv, StaffTypeOK,
              NeverMoreThanAsked, CallOK, Kind, Exists, IsAskedFor, AskedFor
<1> QED BY <1>1, <1>2, <1>3, <1>4, <1>5 DEF WorkforceNext, CallStep

\* Nobody has more of their salary paid through Noba than they, or whoever registered
\* them, once asked for, however updates with stale rows and new maximums overlap and
\* fail: each writes the amount asked for, the one it has read, or a cap below it.
THEOREM NobodyIsPaidMore == WorkforceSpec => []NeverMoreThanAsked
<1>1. WorkforceInit => StaffInv BY StaffInitOK
<1>2. StaffInv /\ [WorkforceNext]_vars => StaffInv' BY StaffNextKeeps
<1>3. StaffInv => NeverMoreThanAsked BY DEF StaffInv
<1> QED BY <1>1, <1>2, <1>3, PTL DEF WorkforceSpec

-----------------------------------------------------------------------------
(* An answer of "error" is the last word of a call, and what was asked for in it
   stays. *)

Answers == {"none", "created", "refused", "updated", "sent", "subscribed", "unsubscribed",
            "notChosen", "reminded", "error"}
AnswersOK ==
    /\ answer \in [Calls -> Answers]
    /\ \A c \in Calls : answer[c] = "error" => pc[c] \in {"cap", "done"}

ErrorsKept ==
    \A d \in Calls : answer[d] = "error" => answer'[d] = "error" /\ req'[d] = req[d]

LEMMA AnswersInitOK == WorkforceInit => AnswersOK
BY DEF WorkforceInit, NotificationsInit, AnswersOK, Answers

\* A step of a call that has not been answered.
IsUnanswered(c) == Running(c) /\ answer[c] # "error"
GoesOn(c) == /\ IsUnanswered(c) /\ UNCHANGED <<req, answer>>
             /\ \E s : Goto(c, s)
Ends(c) == /\ UNCHANGED req
           /\ \E a \in Answers : Finish(c, a) /\ (answer[c] = "error" => a = "error")
GoesOnCapping(c) ==
    /\ pc[c] = "cap" /\ UNCHANGED <<pc, req>>
    /\ UNCHANGED answer \/ answer' = [answer EXCEPT ![c] = "error"]

LEMMA AnswersOfAStep ==
    ASSUME AnswersOK, NEW c \in Calls, CallStep(c)
    PROVE  GoesOn(c) \/ Ends(c) \/ GoesOnCapping(c)
<1>1. CASE CapEmployee(c)
  BY <1>1 DEF CapEmployee, GoesOnCapping
<1>2. CASE EndCaps(c)
  BY <1>2 DEF EndCaps, Fails, Ends, Answers
<1>3. ASSUME Running(c), pc[c] # "cap", UNCHANGED req,
             (\E s : Continue(c, s)) \/ (\E a \in Answers : Finish(c, a))
      PROVE  GoesOn(c) \/ Ends(c)
  <2>1. IsUnanswered(c) BY <1>3 DEF AnswersOK, IsUnanswered, Running
  <2> QED BY <1>3, <2>1 DEF GoesOn, Ends, Continue, IsUnanswered
<1>4. CASE FindActive(c) \/ InsertEmployee(c) \/ SendInvitation(c)
  <2>1. Running(c) /\ pc[c] # "cap" /\ UNCHANGED req
    BY <1>4 DEF FindActive, InsertEmployee, SendInvitation, Running
  <2>2. \/ Continue(c, "insert") \/ Continue(c, "invite") \/ Continue(c, "read")
        \/ Finish(c, "created") \/ Finish(c, "error")
    BY <1>4 DEF FindActive, InsertEmployee, SendInvitation, AfterCreate, Fails
  <2> QED BY <1>3, <2>1, <2>2 DEF Answers
<1>5. CASE LookupEmployee(c) \/ ReadEmployee(c) \/ WriteEmployee(c)
  <2>1. Running(c) /\ pc[c] # "cap" /\ UNCHANGED req
    BY <1>5 DEF LookupEmployee, ReadEmployee, WriteEmployee, Running
  <2>2. \/ Continue(c, "read") \/ Continue(c, "write")
        \/ Finish(c, "refused") \/ Finish(c, "updated") \/ Finish(c, "error")
    BY <1>5 DEF LookupEmployee, ReadEmployee, WriteEmployee, Fails
  <2> QED BY <1>3, <2>1, <2>2 DEF Answers
<1>6. CASE SetPercent(c) \/ ListEmployees(c)
  <2>1. Running(c) /\ pc[c] # "cap" /\ UNCHANGED req
    BY <1>6 DEF SetPercent, ListEmployees, Running
  <2>2. \/ Continue(c, "list") \/ Continue(c, "cap")
        \/ Finish(c, "updated") \/ Finish(c, "error")
    BY <1>6 DEF SetPercent, ListEmployees, Fails
  <2> QED BY <1>3, <2>1, <2>2 DEF Answers
<1>7. CASE NotificationStep(c)
  <2>1. Running(c) /\ pc[c] # "cap" /\ UNCHANGED req
    BY <1>7 DEF NotificationStep, LoadNotice, EmitNotice, FindToken, AddToken, DeleteToken,
                ChooseConsumers, ReadTokens, SendPushes, FindHistory, WriteHistory, Running
  <2>2. CASE LoadNotice(c) \/ EmitNotice(c) \/ FindToken(c) \/ AddToken(c) \/ DeleteToken(c)
    <3>1. \/ Continue(c, "emit") \/ Continue(c, "addToken")
          \/ Finish(c, "sent") \/ Finish(c, "refused") \/ Finish(c, "subscribed")
          \/ Finish(c, "unsubscribed") \/ Finish(c, "error")
      BY <2>2 DEF LoadNotice, EmitNotice, FindToken, AddToken, DeleteToken, Fails
    <3> QED BY <1>3, <2>1, <3>1 DEF Answers
  <2>3. CASE \/ ChooseConsumers(c) \/ ReadTokens(c) \/ SendPushes(c)
             \/ FindHistory(c) \/ WriteHistory(c)
    <3>1. \/ Continue(c, "readTokens") \/ Continue(c, "push") \/ Continue(c, "findHistory")
          \/ Continue(c, "writeHistory")
          \/ Finish(c, "notChosen") \/ Finish(c, "reminded") \/ Finish(c, "error")
      BY <2>3 DEF ChooseConsumers, ReadTokens, SendPushes, FindHistory, WriteHistory,
                  RetriesFrom
    <3> QED BY <1>3, <2>1, <3>1 DEF Answers
  <2> QED BY <1>7, <2>2, <2>3 DEF NotificationStep
<1> QED BY <1>1, <1>2, <1>4, <1>5, <1>6, <1>7 DEF CallStep, StaffStep

\* An error once answered stays.
LEMMA ErrorsStay ==
    ASSUME StaffInv, AnswersOK, [WorkforceNext]_vars
    PROVE  AnswersOK' /\ ErrorsKept
<1>1. CASE UNCHANGED <<pc, req, answer>>
  BY <1>1 DEF AnswersOK, ErrorsKept
<1>2. ASSUME NEW c \in Calls, NEW r \in Requests, Receive(c, r)
      PROVE  AnswersOK' /\ ErrorsKept
  BY <1>2 DEF Receive, Continue, Goto, StaffInv, StaffTypeOK, AnswersOK, ErrorsKept
<1>3. ASSUME NEW c \in Calls, CallStep(c)
      PROVE  AnswersOK' /\ ErrorsKept
  <2>1. CASE GoesOn(c)
    BY <2>1 DEF GoesOn, IsUnanswered, Goto, StaffInv, StaffTypeOK, AnswersOK, ErrorsKept
  <2>2. CASE Ends(c)
    BY <2>2 DEF Ends, Finish, Goto, StaffInv, StaffTypeOK, AnswersOK, ErrorsKept
  <2>3. CASE GoesOnCapping(c)
    BY <2>3 DEF GoesOnCapping, AnswersOK, ErrorsKept, Answers
  <2> QED BY <1>3, <2>1, <2>2, <2>3, AnswersOfAStep
<1> QED BY <1>1, <1>2, <1>3 DEF WorkforceNext, HandleEvent, NextDay, vars, callVars
-----------------------------------------------------------------------------
(* While calls take turns, amounts fit the employers' maximums between calls.  A new
   maximum is written before the amounts above it are lowered: until then each of them
   is listed, and afterwards the call has failed if one of them was not. *)

Fits(e) ==
    IsActive(e) /\ row[e].salary > 0 /\ ~NewMaximumFailed(row[e].employer) =>
        row[e].allocation <= Cap(Maximum(percent[row[e].employer]), row[e].salary)

\* Call c has still to lower the amount of e.
IsToBeCapped(c, e) ==
    /\ row[e].employer = req[c].employer
    /\ pc[c] = "list" \/ (pc[c] = "cap" /\ \E cap \in caps[c] : cap.employee = e)

\* Of one call: it is alone; what it has read is still so; the maximum it has written
\* is still there, and its caps are those of that maximum.
TurnOK(c) ==
    /\ Running(c) => \A d \in Calls \ {c} : ~Running(d)
    /\ pc[c] = "write" => /\ seen[c] = row[target[c]]
                          /\ seenMax[c] = percent[row[target[c]].employer]
    /\ pc[c] \in {"list", "cap"} =>
        req[c].percent # 0 /\ percent[req[c].employer] = req[c].percent
    /\ pc[c] = "cap" => \A cap \in caps[c] :
        /\ row[cap.employee].employer = req[c].employer
        /\ cap.allocation = Cap(req[c].percent, row[cap.employee].salary)

FitInv ==
    Serial => /\ \A e \in Staff : Fits(e) \/ \E c \in Calls : IsToBeCapped(c, e)
              /\ \A c \in Calls : TurnOK(c)

\* An amount that does not exceed the maximum is within its cap, as a cap is.
LEMMA WithinCap ==
    ASSUME NEW a \in Nat, NEW p \in Nat, NEW s \in Nat
    PROVE  /\ Cap(p, s) \in Nat
           /\ ~Exceeds(a, p, s) => a <= Cap(p, s)
<1>1. PICK x \in Nat : x = p * s
  OBVIOUS
<1>2. (x + 50) \div 100 \in Nat /\ (100 * a <= x => a <= (x + 50) \div 100)
  OBVIOUS
<1>3. Exceeds(a, p, s) <=> 100 * a > x
  BY <1>1 DEF Exceeds
<1> QED BY <1>1, <1>2, <1>3 DEF Cap

\* A failure once answered stays, so that what fits still does when its row and its
\* employer's maximum are the same.
LEMMA StillFits ==
    ASSUME ErrorsKept, NEW e \in Staff, Fits(e), row'[e] = row[e],
           IsActive(e) => percent'[row[e].employer] = percent[row[e].employer]
    PROVE  Fits(e)'
<1>1. PICK m : m = row[e].employer
  OBVIOUS
<1>2. NewMaximumFailed(m) => NewMaximumFailed(m)'
  BY DEF NewMaximumFailed, ErrorsKept, Kind
<1>3. NewMaximumFailed(row[e].employer) => NewMaximumFailed(row[e].employer)'
  BY <1>1, <1>2
<1> QED BY <1>3 DEF Fits, IsActive, Exists

\* A call that fails to lower an amount is answered with an error.
LEMMA FailureExcuses ==
    ASSUME NEW c \in Calls, NEW e \in Staff, answer'[c] = "error", req'[c] = req[c],
           Kind(c) = "setMax", row'[e].employer = req[c].employer
    PROVE  Fits(e)'
<1>1. PICK m : m = req[c].employer
  OBVIOUS
<1>2. NewMaximumFailed(m)'
  BY <1>1 DEF NewMaximumFailed, Kind
<1>3. NewMaximumFailed(row[e].employer)'
  BY <1>1, <1>2
<1> QED BY <1>3 DEF Fits

LEMMA FitInitOK ==
    ASSUME WorkforceInit, FitsAtFirst
    PROVE  FitInv
<1>1. \A c \in Calls : TurnOK(c)
  BY DEF WorkforceInit, NotificationsInit, TurnOK, Running
<1>2. ASSUME NEW e \in Staff PROVE Fits(e)
  <2>1. e \notin Employees => ~Exists(e)
    BY DEF WorkforceInit, Exists
  <2>2. e \in Employees => row[e] = InitialEmployees[e] /\ percent = InitialPercents
    BY DEF WorkforceInit
  <2> QED BY <2>1, <2>2 DEF FitsAtFirst, Fits, IsActive
<1> QED BY <1>1, <1>2 DEF FitInv

\* What is left to show of a step of one call: the others have not begun, or have ended.
LEMMA FitInTurn ==
    ASSUME NEW c \in Calls, \A d \in Calls \ {c} : ~Running(d) /\ pc'[d] = pc[d],
           /\ pc'[c] = "write" => /\ seen'[c] = row'[target'[c]]
                                  /\ seenMax'[c] = percent'[row'[target'[c]].employer]
           /\ pc'[c] \in {"list", "cap"} =>
                req'[c].percent # 0 /\ percent'[req'[c].employer] = req'[c].percent
           /\ pc'[c] = "cap" => \A cap \in caps'[c] :
                /\ row'[cap.employee].employer = req'[c].employer
                /\ cap.allocation = Cap(req'[c].percent, row'[cap.employee].salary),
           \A e \in Staff : Fits(e)' \/ IsToBeCapped(c, e)'
    PROVE  FitInv'
<1>1. \A d \in Calls \ {c} : ~Running(d)'
  BY DEF Running
<1>2. \A d \in Calls : TurnOK(d)'
  BY <1>1 DEF TurnOK, Running
<1> QED BY <1>2 DEF FitInv

\* While a call of another kind takes a step, every amount fits.
LEMMA AllFit ==
    ASSUME FitInv, Serial, NEW c \in Calls, Running(c), pc[c] \notin {"list", "cap"}
    PROVE  /\ \A e \in Staff : Fits(e)
           /\ \A d \in Calls \ {c} : ~Running(d)
BY DEF FitInv, TurnOK, IsToBeCapped, Running

\* A step that writes no row and no maximum.
LEMMA ReadingFits ==
    ASSUME StaffInv, FitInv, Serial, ErrorsKept, NEW c \in Calls, pc[c] \notin {"list", "cap"},
           \A d \in Calls \ {c} : ~Running(d) /\ pc'[d] = pc[d],
           UNCHANGED <<row, percent>>, pc'[c] \notin {"write", "list", "cap"}
    PROVE  FitInv'
<1>1. \A e \in Staff : Fits(e)
  BY DEF FitInv, IsToBeCapped, Running
<1>2. \A e \in Staff : Fits(e)'
  BY <1>1, StillFits
<1> QED BY <1>2, FitInTurn

\* A call moves.
LEMMA Moves ==
    ASSUME StaffInv, NEW c \in Calls, NEW s, Goto(c, s)
    PROVE  pc'[c] = s /\ \A d \in Calls \ {c} : pc'[d] = pc[d]
BY DEF Goto, StaffInv, StaffTypeOK

LEMMA ReceiveFits ==
    ASSUME StaffInv, FitInv, Serial, ErrorsKept, NEW c \in Calls, NEW r \in Requests, Receive(c, r)
    PROVE  FitInv'
<1>1. /\ pc[c] = "idle" /\ \A d \in Calls : ~Running(d)
      /\ Goto(c, FirstStep(r.kind)) /\ UNCHANGED <<row, percent>>
  BY DEF Receive, Continue
<1>2. FirstStep(r.kind) \notin {"write", "list", "cap"}
  BY StaffRequestTyped DEF FirstStep
<1> QED BY <1>1, <1>2, Moves, ReadingFits

\* The steps that read, or end without having written.
LEMMA OtherStepsFit ==
    ASSUME StaffInv, FitInv, Serial, ErrorsKept, NEW c \in Calls,
           \/ FindActive(c) \/ SendInvitation(c) \/ LookupEmployee(c)
           \/ NotificationStep(c) /\ UNCHANGED staffVars
    PROVE  FitInv'
<1>1. Running(c) /\ pc[c] \notin {"list", "cap"} /\ UNCHANGED <<row, percent>>
  BY DEF FindActive, SendInvitation, LookupEmployee, NotificationStep, LoadNotice, EmitNotice,
         FindToken, AddToken, DeleteToken, ChooseConsumers, ReadTokens, SendPushes, FindHistory,
         WriteHistory, Running, staffVars
<1>2. PICK s : Goto(c, s) /\ s \notin {"write", "list", "cap"}
  <2>1. CASE FindActive(c) \/ SendInvitation(c) \/ LookupEmployee(c)
    <3>1. Goto(c, "insert") \/ Goto(c, "invite") \/ Goto(c, "read") \/ Goto(c, "done")
      BY <2>1 DEF FindActive, SendInvitation, LookupEmployee, AfterCreate, Continue, Finish, Fails
    <3> QED BY <3>1
  <2>2. CASE NotificationStep(c)
    BY <2>2 DEF NotificationStep, LoadNotice, EmitNotice, FindToken, AddToken, DeleteToken,
                ChooseConsumers, ReadTokens, SendPushes, FindHistory, WriteHistory, Continue,
                Finish, Fails, RetriesFrom
  <2> QED BY <2>1, <2>2
<1> QED BY <1>1, <1>2, AllFit, Moves, ReadingFits

\* What an employer or a consumer creates fits: it has no amount, or no salary.
LEMMA InsertFits ==
    ASSUME StaffInv, FitInv, Serial, ErrorsKept, NEW c \in Calls, InsertEmployee(c)
    PROVE  FitInv'
<1>1. /\ Running(c) /\ pc[c] = "insert" /\ UNCHANGED percent /\ c \in Staff
      /\ req[c] \in Requests /\ Kind(c) \in {"invite", "register"}
  BY DEF InsertEmployee, Running, StaffInv, CallOK, Staff
<1>2. /\ \A e \in Staff : Fits(e)
      /\ \A d \in Calls \ {c} : ~Running(d)
  BY <1>1, AllFit
<1>3. PICK s : Goto(c, s) /\ s \in {"invite", "done"}
  BY DEF InsertEmployee, AfterCreate, Continue, Finish, Fails
<1>4. CASE UNCHANGED row
  BY <1>1, <1>2, <1>3, <1>4, Moves, ReadingFits
<1>5. CASE row' = [row EXCEPT ![c] = NewEmployee(req[c])]
  <2>1. row'[c] = NewEmployee(req[c]) /\ \A e \in Staff \ {c} : row'[e] = row[e]
    BY <1>1, <1>5 DEF StaffInv, StaffTypeOK
  <2>2. percent[NewEmployee(req[c]).employer] \in Nat /\ NewEmployee(req[c]).salary \in Nat
    BY <1>1, StaffRequestTyped DEF NewEmployee, Kind, StaffInv, StaffTypeOK
  <2>3. NewEmployee(req[c]).allocation = 0 \/ NewEmployee(req[c]).salary = 0
    BY <1>1 DEF NewEmployee, Kind
  <2>4. Fits(c)'
    <3>1. PICK p \in Nat, salary \in Nat :
            /\ p = Maximum(percent[NewEmployee(req[c]).employer])
            /\ salary = NewEmployee(req[c]).salary
      BY <2>2 DEF Maximum
    <3>2. Cap(p, salary) \in Nat
      BY WithinCap
    <3> QED BY <1>1, <2>1, <2>3, <3>1, <3>2 DEF Fits
  <2>5. \A e \in Staff : Fits(e)'
    BY <1>1, <1>2, <2>1, <2>4, StillFits
  <2> QED BY <1>2, <1>3, <2>5, Moves, FitInTurn
<1> QED BY <1>4, <1>5 DEF InsertEmployee

LEMMA ReadFits ==
    ASSUME StaffInv, FitInv, Serial, ErrorsKept, NEW c \in Calls, ReadEmployee(c)
    PROVE  FitInv'
<1>1. /\ Running(c) /\ pc[c] = "read" /\ UNCHANGED <<row, percent, target>>
      /\ \A e \in Staff : Fits(e)
      /\ \A d \in Calls \ {c} : ~Running(d)
  BY AllFit DEF ReadEmployee, Running
<1>2. CASE Goto(c, "done")
  BY <1>1, <1>2, Moves, ReadingFits
<1>3. CASE /\ seen' = [seen EXCEPT ![c] = row[target[c]]]
           /\ seenMax' = [seenMax EXCEPT ![c] = percent[row[target[c]].employer]]
           /\ Goto(c, "write")
  <2>1. seen'[c] = row[target[c]] /\ seenMax'[c] = percent[row[target[c]].employer]
    BY <1>3 DEF StaffInv, StaffTypeOK
  <2>2. \A e \in Staff : Fits(e)'
    BY <1>1, StillFits
  <2> QED BY <1>1, <1>3, <2>1, <2>2, Moves, FitInTurn
<1> QED BY <1>2, <1>3 DEF ReadEmployee, Fails, Finish, Continue

\* What an update writes fits, for it knows the salary and the maximum as they are.
LEMMA WriteFits ==
    ASSUME StaffInv, FitInv, Serial, ErrorsKept, NEW c \in Calls, WriteEmployee(c)
    PROVE  FitInv'
<1>1. /\ Running(c) /\ pc[c] = "write" /\ UNCHANGED percent
      /\ target[c] \in Staff /\ Exists(target[c])
      /\ \A e \in Staff : Fits(e)
      /\ \A d \in Calls \ {c} : ~Running(d)
  BY AllFit DEF WriteEmployee, Running, StaffInv, CallOK
<1>2. Goto(c, "done")
  BY DEF WriteEmployee, Finish, Fails
<1>3. CASE UNCHANGED row
  BY <1>1, <1>2, <1>3, Moves, ReadingFits
<1>4. CASE row' = [row EXCEPT ![target[c]] = Updated(c, row[target[c]])]
  <2>1. PICK e \in Staff, old \in EmployeeType : e = target[c] /\ old = row[e]
    BY <1>1 DEF Exists, StaffInv, StaffTypeOK
  <2>2. seen[c] = old /\ seenMax[c] = percent[old.employer]
    BY <1>1, <2>1 DEF FitInv, TurnOK
  <2>3. PICK new : new = Updated(c, old)
    OBVIOUS
  <2>4. /\ new.employer = old.employer /\ new.allocation = Allocation(c)
        /\ new.salary = IF SalaryIsKnown(c) THEN Salary(c) ELSE old.salary
    BY <2>3 DEF Updated, EmployeeType
  <2>5. row'[e] = new /\ \A f \in Staff \ {e} : row'[f] = row[f]
    BY <1>4, <2>1, <2>3 DEF StaffInv, StaffTypeOK
  <2>6. new.salary > 0 => SalaryIsKnown(c)
    BY <2>2, <2>4 DEF SalaryIsKnown, EmployeeType
  <2>7. SalaryIsKnown(c) => new.allocation <= Cap(Maximum(percent[old.employer]), new.salary)
    <3>1. Asked(c) \in Nat /\ Salary(c) \in Nat /\ percent[old.employer] \in Nat
      <4>1. req[c] \in Requests /\ Kind(c) \in {"invite", "link", "edit", "allocate"}
        BY <1>1 DEF StaffInv, CallOK
      <4>2. Kind(c) = "edit" /\ Given(c, "salary") => req[c].salary \in Nat
        BY <4>1, StaffRequestTyped DEF Kind, Given
      <4>3. Kind(c) = "allocate" => req[c].allocation \in Nat
        BY <4>1, StaffRequestTyped DEF Kind
      <4> QED BY <2>2, <4>2, <4>3 DEF Asked, Salary, EmployeeType, StaffInv, StaffTypeOK
    <3>2. PICK a \in Nat, p \in Nat, s \in Nat :
            a = Asked(c) /\ p = Maximum(percent[old.employer]) /\ s = Salary(c)
      BY <3>1 DEF Maximum
    <3>3. Cap(p, s) \in Nat /\ (~Exceeds(a, p, s) => a <= Cap(p, s))
      BY WithinCap
    <3>4. SalaryIsKnown(c) => Allocation(c) = IF Exceeds(a, p, s) THEN Cap(p, s) ELSE a
      BY <2>2, <3>2 DEF Allocation
    <3> QED BY <2>4, <3>2, <3>3, <3>4
  <2>8. Fits(e)'
    BY <1>1, <2>4, <2>5, <2>6, <2>7 DEF Fits
  <2>9. \A f \in Staff : Fits(f)'
    BY <1>1, <2>5, <2>8, StillFits
  <2> QED BY <1>1, <1>2, <2>9, Moves, FitInTurn
<1> QED BY <1>3, <1>4 DEF WriteEmployee

\* The employees of another employer are not concerned.
LEMMA PercentFits ==
    ASSUME StaffInv, AnswersOK, FitInv, Serial, ErrorsKept, NEW c \in Calls, SetPercent(c)
    PROVE  FitInv'
<1>1. /\ Running(c) /\ pc[c] = "setPercent" /\ UNCHANGED <<row, req>>
      /\ req[c] \in Requests /\ Kind(c) = "setMax"
      /\ \A e \in Staff : Fits(e)
      /\ \A d \in Calls \ {c} : ~Running(d)
  BY AllFit DEF SetPercent, Running, StaffInv, CallOK
<1>2. CASE UNCHANGED percent /\ Goto(c, "done")
  BY <1>1, <1>2, Moves, ReadingFits
<1>3. CASE /\ req[c].percent # 0
           /\ Goto(c, "list") \/ (Goto(c, "done") /\ answer'[c] = "error")
           /\ percent' = [percent EXCEPT ![req[c].employer] = req[c].percent]
  <2>1. req[c].employer \in Employers
    BY <1>1, StaffRequestTyped DEF Kind
  <2>2. percent'[req[c].employer] = req[c].percent
        /\ \A m \in Employers \ {req[c].employer} : percent'[m] = percent[m]
    BY <1>3, <2>1 DEF StaffInv, StaffTypeOK
  <2>3. ASSUME NEW e \in Staff PROVE Fits(e)' \/ IsToBeCapped(c, e)'
    <3>1. CASE row[e].employer = req[c].employer
      <4>1. CASE Goto(c, "list")
        BY <1>1, <3>1, <4>1, Moves DEF IsToBeCapped
      <4>2. CASE answer'[c] = "error"
        BY <1>1, <3>1, <4>2, FailureExcuses
      <4> QED BY <1>3, <4>1, <4>2
    <3>2. CASE row[e].employer # req[c].employer
      <4>1. IsActive(e) => row[e].employer \in Employers
        BY DEF IsActive, Exists, StaffInv, StaffTypeOK, EmployeeType
      <4> QED BY <1>1, <2>2, <3>2, <4>1, StillFits
    <3> QED BY <3>1, <3>2
  <2> QED BY <1>1, <1>3, <2>2, <2>3, Moves, FitInTurn
<1>4. Fails(c) => Goto(c, "done") /\ answer'[c] = "error"
  BY DEF Fails, Finish, AnswersOK
<1> QED BY <1>2, <1>3, <1>4 DEF SetPercent, Finish, Continue

\* Listed or within the new maximum.
LEMMA ListFits ==
    ASSUME StaffInv, AnswersOK, FitInv, Serial, ErrorsKept, NEW c \in Calls, ListEmployees(c)
    PROVE  FitInv'
<1>1. /\ Running(c) /\ pc[c] = "list" /\ UNCHANGED <<row, req, percent>>
      /\ req[c] \in Requests /\ Kind(c) = "setMax" /\ TurnOK(c)
  BY DEF ListEmployees, Running, StaffInv, CallOK, FitInv
<1>2. /\ req[c].percent \in Nat \ {0}
      /\ percent[req[c].employer] = req[c].percent
      /\ \A d \in Calls \ {c} : ~Running(d)
  BY <1>1, StaffRequestTyped DEF StaffInv, StaffTypeOK, TurnOK, Kind
<1>3. CASE Fails(c)
  <2>1. Goto(c, "done") /\ answer'[c] = "error"
    BY <1>3 DEF Fails, Finish, AnswersOK
  <2>2. ASSUME NEW e \in Staff PROVE Fits(e)'
    <3>1. CASE row[e].employer = req[c].employer
      BY <1>1, <2>1, <3>1, FailureExcuses
    <3>2. CASE row[e].employer # req[c].employer
      BY <1>1, <1>2, <3>2, StillFits DEF FitInv, IsToBeCapped, Running
    <3> QED BY <3>1, <3>2
  <2> QED BY <1>2, <2>1, <2>2, Moves, FitInTurn
<1>4. CASE Goto(c, "cap") /\ caps' = [caps EXCEPT ![c] = OverTheMaximum(c)]
  <2>1. caps'[c] = OverTheMaximum(c)
    BY <1>4 DEF StaffInv, StaffTypeOK
  <2>2. \A cap \in caps'[c] :
          /\ row'[cap.employee].employer = req'[c].employer
          /\ cap.allocation = Cap(req'[c].percent, row'[cap.employee].salary)
    BY <1>1, <2>1 DEF OverTheMaximum
  <2>3. ASSUME NEW e \in Staff PROVE Fits(e)' \/ IsToBeCapped(c, e)'
    <3>1. CASE row[e].employer # req[c].employer \/ ~IsActive(e)
      <4>1. Fits(e)
        BY <1>1, <1>2, <3>1 DEF FitInv, IsToBeCapped, Fits, Running
      <4> QED BY <1>1, <4>1, StillFits
    <3>2. CASE /\ row[e].employer = req[c].employer /\ IsActive(e)
               /\ Exceeds(row[e].allocation, req[c].percent, row[e].salary)
      <4>1. [employee |-> e, allocation |-> Cap(req[c].percent, row[e].salary)] \in caps'[c]
        BY <3>2, <2>1 DEF OverTheMaximum
      <4>2. \E cap \in caps'[c] : cap.employee = e
        BY <4>1
      <4> QED BY <1>1, <1>4, <3>2, <4>2, Moves DEF IsToBeCapped
    <3>3. CASE /\ row[e].employer = req[c].employer /\ IsActive(e)
               /\ ~Exceeds(row[e].allocation, req[c].percent, row[e].salary)
      <4>1. row[e].allocation \in Nat /\ row[e].salary \in Nat
        BY <3>3 DEF IsActive, Exists, StaffInv, StaffTypeOK, EmployeeType
      <4>2. row[e].allocation <= Cap(req[c].percent, row[e].salary)
        BY <1>2, <3>3, <4>1, WithinCap
      <4>3. Maximum(percent[row[e].employer]) = req[c].percent
        BY <1>2, <3>3 DEF Maximum
      <4> QED BY <1>1, <4>2, <4>3 DEF Fits
    <3> QED BY <3>1, <3>2, <3>3
  <2> QED BY <1>1, <1>2, <1>4, <2>2, <2>3, Moves, FitInTurn
<1> QED BY <1>3, <1>4 DEF ListEmployees, Continue

LEMMA CapFits ==
    ASSUME StaffInv, AnswersOK, FitInv, Serial, ErrorsKept, NEW c \in Calls, CapEmployee(c)
    PROVE  FitInv'
<1>1. PICK cap \in caps[c] :
        /\ caps' = [caps EXCEPT ![c] = @ \ {cap}]
        /\ \/ row' = [row EXCEPT ![cap.employee].allocation = cap.allocation]
           \/ answer' = [answer EXCEPT ![c] = "error"] /\ UNCHANGED row
  BY DEF CapEmployee
<1>2. /\ Running(c) /\ pc[c] = "cap" /\ UNCHANGED <<pc, req, percent>> /\ TurnOK(c)
      /\ caps'[c] = caps[c] \ {cap} /\ cap.employee \in Staff /\ Exists(cap.employee)
      /\ Kind(c) = "setMax"
  BY <1>1 DEF CapEmployee, Running, StaffInv, StaffTypeOK, CallOK, FitInv
<1>3. /\ row[cap.employee].employer = req[c].employer
      /\ cap.allocation = Cap(req[c].percent, row[cap.employee].salary)
      /\ req[c].percent # 0 /\ percent[req[c].employer] = req[c].percent
      /\ \A d \in Calls \ {c} : ~Running(d)
  BY <1>2 DEF TurnOK
<1>4. PICK e \in Staff, old \in EmployeeType : e = cap.employee /\ old = row[e]
  BY <1>2 DEF Exists, StaffInv, StaffTypeOK
<1>5. /\ row'[e].allocation = cap.allocation \/ answer'[c] = "error"
      /\ row'[e].salary = old.salary /\ row'[e].employer = old.employer
      /\ \A f \in Staff \ {e} : row'[f] = row[f]
  <2>1. CASE row' = [row EXCEPT ![cap.employee].allocation = cap.allocation]
    <3>1. row' = [row EXCEPT ![e] = [old EXCEPT !.allocation = cap.allocation]]
      BY <1>4, <2>1 DEF StaffInv, StaffTypeOK
    <3> QED BY <3>1 DEF EmployeeType, StaffInv, StaffTypeOK
  <2>2. CASE answer' = [answer EXCEPT ![c] = "error"] /\ UNCHANGED row
    BY <1>4, <2>2 DEF AnswersOK
  <2> QED BY <1>1, <2>1, <2>2
<1>6. \A f \in Staff : row'[f].salary = row[f].salary /\ row'[f].employer = row[f].employer
  BY <1>4, <1>5
<1>7. \A k \in caps'[c] : /\ row'[k.employee].employer = req'[c].employer
                            /\ k.allocation = Cap(req'[c].percent, row'[k.employee].salary)
  <2>1. \A k \in caps[c] : k.employee \in Staff
    BY DEF StaffInv, StaffTypeOK
  <2> QED BY <1>2, <1>6, <2>1 DEF TurnOK
<1>8. ASSUME NEW f \in Staff PROVE Fits(f)' \/ IsToBeCapped(c, f)'
  <2>1. Fits(f) \/ IsToBeCapped(c, f)
    BY <1>2, <1>3 DEF FitInv, IsToBeCapped, Running
  <2>2. CASE f = e
    <3>1. Maximum(percent[old.employer]) = req[c].percent
      BY <1>3, <1>4, <2>2 DEF Maximum
    <3>2. PICK n \in Nat : n = cap.allocation
      BY DEF StaffInv, StaffTypeOK
    <3>3. CASE row'[e].allocation = cap.allocation
      BY <1>2, <1>3, <1>4, <1>5, <2>2, <3>1, <3>2, <3>3 DEF Fits
    <3>4. CASE answer'[c] = "error"
      BY <1>2, <1>3, <1>4, <1>5, <2>2, <3>4, FailureExcuses
    <3> QED BY <1>5, <3>3, <3>4
  <2>3. CASE f # e
    <3>1. row'[f] = row[f]
      BY <1>5, <2>3
    <3>2. IsToBeCapped(c, f) => IsToBeCapped(c, f)'
      BY <1>2, <1>4, <2>3, <3>1 DEF IsToBeCapped
    <3> QED BY <1>2, <2>1, <3>1, <3>2, StillFits
  <2> QED BY <2>2, <2>3
<1> QED BY <1>2, <1>3, <1>7, <1>8, FitInTurn

LEMMA EndCapsFits ==
    ASSUME StaffInv, AnswersOK, FitInv, Serial, ErrorsKept, NEW c \in Calls, EndCaps(c)
    PROVE  FitInv'
<1>1. /\ Running(c) /\ pc[c] = "cap" /\ UNCHANGED <<row, req, percent>>
      /\ Kind(c) = "setMax" /\ Goto(c, "done") /\ \A d \in Calls \ {c} : ~Running(d)
      /\ caps[c] = {} \/ answer'[c] = "error"
  BY DEF EndCaps, Fails, Finish, Running, StaffInv, CallOK, AnswersOK, FitInv, TurnOK
<1>2. ASSUME NEW e \in Staff PROVE Fits(e)'
  <2>1. CASE Fits(e)
    BY <1>1, <2>1, StillFits
  <2>2. CASE ~Fits(e)
    <3>1. IsToBeCapped(c, e)
      BY <1>1, <2>2 DEF FitInv, IsToBeCapped, Running
    <3> QED BY <1>1, <3>1, FailureExcuses DEF IsToBeCapped
  <2> QED BY <2>1, <2>2
<1> QED BY <1>1, <1>2, Moves, FitInTurn

LEMMA FitNextOK ==
    ASSUME StaffInv, AnswersOK, FitInv, [WorkforceNext]_vars
    PROVE  FitInv'
<1> SUFFICES ASSUME Serial PROVE FitInv'
  BY DEF WorkforceNext, vars, FitInv, Serial
<1>0. ErrorsKept
  BY ErrorsStay
<1>1. CASE UNCHANGED <<callVars, staffVars>>
  <2>1. \A e \in Staff : Fits(e) => Fits(e)'
    BY <1>0, <1>1, StillFits DEF staffVars
  <2>2. \A c \in Calls, e \in Staff : IsToBeCapped(c, e) => IsToBeCapped(c, e)'
    BY <1>1 DEF callVars, staffVars, IsToBeCapped
  <2>3. \A c \in Calls : TurnOK(c) => TurnOK(c)'
    BY <1>1 DEF callVars, staffVars, TurnOK, Running
  <2> QED BY <2>1, <2>2, <2>3 DEF FitInv
<1>2. ASSUME NEW c \in Calls, NEW r \in Requests, Receive(c, r) PROVE FitInv'
  BY <1>0, <1>2, ReceiveFits
<1>3. ASSUME NEW c \in Calls, CallStep(c) PROVE FitInv'
  BY <1>0, <1>3, OtherStepsFit, InsertFits, ReadFits, WriteFits, PercentFits, ListFits, CapFits,
     EndCapsFits DEF CallStep, StaffStep
<1> QED BY <1>1, <1>2, <1>3 DEF WorkforceNext, HandleEvent, NextDay, vars

\* While calls take turns, between calls no active employee of a known salary has more of
\* it paid than the employer's maximum, if none had at the start, whatever queries and
\* writes fail: an update takes the salary and the maximum as they are when it writes,
\* and a new maximum lowers every amount above it before its call ends, or whoever set it
\* is answered with an error.
THEOREM AllocationsFit ==
    ASSUME FitsAtFirst
    PROVE  WorkforceSpec => []AllocationFitsInTurn
<1>1. WorkforceInit => StaffInv /\ AnswersOK /\ FitInv
  BY StaffInitOK, AnswersInitOK, FitInitOK
<1>2. (StaffInv /\ AnswersOK /\ FitInv) /\ [WorkforceNext]_vars
        => (StaffInv /\ AnswersOK /\ FitInv)'
  BY StaffNextKeeps, ErrorsStay, FitNextOK
<1>3. FitInv => AllocationFitsInTurn
  BY DEF FitInv, Fits, AllocationFitsInTurn, IsToBeCapped, Running
<1> QED BY <1>1, <1>2, <1>3, PTL DEF WorkforceSpec

-----------------------------------------------------------------------------
(* While calls take turns, a run of a reminder's workflow records what it has pushed
   before another begins, whose query then sees it, or it gives up with an error. *)

RemindSteps == {"choose", "readTokens", "push", "findHistory", "writeHistory"}

HasChosen(c) == pc[c] \in {"readTokens", "push", "findHistory", "writeHistory"}

\* What was pushed is recorded, or the run that has pushed it is under way, or has failed.
IsRecorded(p) == history[p.schedule][p.to] # Nothing
IsUnderWay(p) ==
    HasChosen(p.by) /\ req[p.by].schedule = p.schedule /\ req[p.by].to = p.to
ReminderOK(p) ==
    p.schedule \in Schedules =>
        /\ p.to \in Consumers /\ p.by \in Calls
        /\ IsRecorded(p) \/ IsUnderWay(p) \/ answer[p.by] = "error"

\* Of a reminder that is not repeated, only this run has pushed, or runs that failed.
PushedAlone(c) ==
    Interval[req[c].schedule] = 0 =>
        \A p \in Reminders(req[c].schedule, req[c].to) : p.by = c \/ answer[p.by] = "error"

RunOK(c) ==
    /\ Running(c) => \A d \in Calls \ {c} : ~Running(d)
    /\ pc[c] \in RemindSteps => req[c] \in Requests /\ Kind(c) = "remind"
    /\ HasChosen(c) => PushedAlone(c)

\* Of a reminder that is not repeated, one run has pushed, and those that failed.
OneRun(p, q) ==
    Interval[p.schedule] = 0 =>
        p.by = q.by \/ answer[p.by] = "error" \/ answer[q.by] = "error"

RemindInv ==
    Serial =>
        /\ now \in Nat
        /\ history \in [Schedules -> [Consumers -> Nat \cup {Nothing}]]
        /\ \A p \in pushed : ReminderOK(p)
        /\ \A c \in Calls : RunOK(c)
        /\ \A s \in Schedules, u \in Consumers : \A p, q \in Reminders(s, u) : OneRun(p, q)

\* What a reminder's request is made of.
LEMMA RemindRequestTyped ==
    ASSUME NEW r \in Requests, r.kind = "remind"
    PROVE  r.schedule \in Schedules /\ r.to \in Consumers /\ Interval[r.schedule] \in Nat
<1>1. r \in [kind : {"remind"}, schedule : Schedules, to : Consumers]
  BY WorkforceAssumption DEF NotificationRequests, StaffRequests
<1> QED BY <1>1, NotificationsAssumption

LEMMA RemindInitOK == WorkforceInit => RemindInv
BY DEF WorkforceInit, NotificationsInit, RemindInv, RunOK, Running, Reminders, RemindSteps,
       HasChosen

\* A step of one call that pushes nothing, and takes nothing from the history.
LEMMA NothingPushed ==
    ASSUME RemindInv, Serial, ErrorsKept, NEW c \in Calls,
           \A d \in Calls \ {c} : ~Running(d) /\ pc'[d] = pc[d],
           UNCHANGED <<pushed, now>>,
           history' \in [Schedules -> [Consumers -> Nat \cup {Nothing}]],
           \A s \in Schedules, u \in Consumers :
                history[s][u] # Nothing => history'[s][u] # Nothing,
           \A p \in pushed : p.schedule \in Schedules /\ p.by = c /\ IsUnderWay(p) =>
                IsUnderWay(p)' \/ IsRecorded(p)' \/ answer'[c] = "error",
           pc'[c] \in RemindSteps => req'[c] \in Requests /\ req'[c].kind = "remind",
           HasChosen(c)' => PushedAlone(c)'
    PROVE  RemindInv'
<1>1. \A d \in Calls \ {c} : ~Running(d)'
  BY DEF Running
<1>2. \A d \in Calls : RunOK(d)'
  BY <1>1 DEF RunOK, Running, RemindSteps, Kind, HasChosen
<1>3. ASSUME NEW p \in pushed PROVE ReminderOK(p)'
  <2>1. ReminderOK(p)
    BY DEF RemindInv
  <2>2. p.schedule \in Schedules /\ IsUnderWay(p) => p.by = c
    BY <2>1 DEF ReminderOK, IsUnderWay, HasChosen, Running
  <2>3. p.schedule \in Schedules /\ IsRecorded(p) => IsRecorded(p)'
    BY <2>1 DEF ReminderOK, IsRecorded
  <2> QED BY <2>1, <2>2, <2>3 DEF ReminderOK, ErrorsKept
<1>4. ASSUME NEW s \in Schedules, NEW u \in Consumers,
             NEW p \in Reminders(s, u)', NEW q \in Reminders(s, u)'
      PROVE  OneRun(p, q)'
  <2>1. p \in Reminders(s, u) /\ q \in Reminders(s, u)
    BY DEF Reminders
  <2>2. OneRun(p, q) /\ ReminderOK(p) /\ ReminderOK(q)
    BY <2>1 DEF RemindInv, Reminders
  <2> QED BY <2>1, <2>2 DEF OneRun, ReminderOK, ErrorsKept, Reminders
<1> QED BY <1>2, <1>3, <1>4 DEF RemindInv

LEMMA ReceiveRemind ==
    ASSUME StaffInv, RemindInv, Serial, ErrorsKept, NEW c \in Calls, NEW r \in Requests,
           Receive(c, r)
    PROVE  RemindInv'
<1>1. /\ pc[c] = "idle" /\ \A d \in Calls : ~Running(d)
      /\ Goto(c, FirstStep(r.kind)) /\ UNCHANGED <<pushed, history, now>>
      /\ req' = [req EXCEPT ![c] = r] /\ RemindInv
  BY DEF Receive, Continue, noticeVars
<1>2. /\ FirstStep(r.kind) \in RemindSteps => r.kind = "remind"
      /\ FirstStep(r.kind) \notin {"readTokens", "push", "findHistory", "writeHistory"}
  BY StaffRequestTyped DEF FirstStep, RemindSteps
<1>3. req'[c] = r
  BY <1>1 DEF StaffInv, StaffTypeOK
<1> QED BY <1>1, <1>2, <1>3, Moves, NothingPushed DEF IsUnderWay, HasChosen, RemindInv

\* The steps of other calls.
LEMMA OtherRemind ==
    ASSUME StaffInv, RemindInv, Serial, ErrorsKept, NEW c \in Calls,
           \/ StaffStep(c) \/ LoadNotice(c) \/ EmitNotice(c)
           \/ FindToken(c) \/ AddToken(c) \/ DeleteToken(c)
    PROVE  RemindInv'
<1>1. Running(c) /\ pc[c] \notin RemindSteps /\ UNCHANGED <<pushed, history, now>>
  BY DEF StaffStep, callVars, FindActive, InsertEmployee, SendInvitation, LookupEmployee, ReadEmployee,
         WriteEmployee, SetPercent, ListEmployees, CapEmployee, EndCaps, LoadNotice, EmitNotice,
         FindToken, AddToken, DeleteToken, Running, noticeVars, RemindSteps
<1>2. \A d \in Calls \ {c} : ~Running(d)
  BY <1>1 DEF RemindInv, RunOK
<1>3. CASE CapEmployee(c)
  <2>1. pc' = pc
    BY <1>3 DEF CapEmployee, callVars
  <2> QED BY <1>1, <1>2, <2>1, NothingPushed
         DEF IsUnderWay, HasChosen, RemindSteps, RemindInv
<1>4. ASSUME ~CapEmployee(c) PROVE RemindInv'
  <2>1. PICK s : Goto(c, s) /\ s \notin RemindSteps
    <3>1. CASE StaffStep(c)
      <4>1. \E s \in StaffSteps \cup {"done"} : Goto(c, s)
        <5>1. CASE FindActive(c) \/ InsertEmployee(c)
          <6>1. Goto(c, "insert") \/ Goto(c, "invite") \/ Goto(c, "done")
            BY <5>1 DEF FindActive, InsertEmployee, AfterCreate, Continue, Finish, Fails
          <6> QED BY <6>1 DEF StaffSteps
        <5>2. CASE SendInvitation(c) \/ LookupEmployee(c) \/ ReadEmployee(c) \/ WriteEmployee(c)
          <6>1. Goto(c, "read") \/ Goto(c, "write") \/ Goto(c, "done")
            BY <5>2 DEF SendInvitation, LookupEmployee, ReadEmployee, WriteEmployee, Continue,
                        Finish, Fails
          <6> QED BY <6>1 DEF StaffSteps
        <5>3. CASE SetPercent(c) \/ ListEmployees(c) \/ EndCaps(c)
          <6>1. Goto(c, "list") \/ Goto(c, "cap") \/ Goto(c, "done")
            BY <5>3 DEF SetPercent, ListEmployees, EndCaps, Continue, Finish, Fails
          <6> QED BY <6>1 DEF StaffSteps
        <5> QED BY <1>4, <3>1, <5>1, <5>2, <5>3 DEF StaffStep
      <4> QED BY <4>1 DEF StaffSteps, RemindSteps
    <3>2. CASE LoadNotice(c) \/ EmitNotice(c) \/ FindToken(c) \/ AddToken(c) \/ DeleteToken(c)
      <4>1. Goto(c, "emit") \/ Goto(c, "addToken") \/ Goto(c, "done")
        BY <3>2 DEF LoadNotice, EmitNotice, FindToken, AddToken, DeleteToken, Continue, Finish,
                    Fails
      <4> QED BY <4>1 DEF RemindSteps
    <3> QED BY <3>1, <3>2
  <2> QED BY <1>1, <1>2, <2>1, Moves, NothingPushed
         DEF IsUnderWay, HasChosen, RemindSteps, RemindInv
<1> QED BY <1>3, <1>4

\* What a run of a reminder's workflow starts from.
LEMMA RunStarts ==
    ASSUME RemindInv, Serial, NEW c \in Calls, pc[c] \in RemindSteps
    PROVE  /\ req[c] \in Requests /\ Kind(c) = "remind" /\ Running(c) /\ RunOK(c)
           /\ req[c].schedule \in Schedules /\ req[c].to \in Consumers
           /\ Interval[req[c].schedule] \in Nat
           /\ history \in [Schedules -> [Consumers -> Nat \cup {Nothing}]]
           /\ \A d \in Calls \ {c} : ~Running(d)
<1>1. Running(c)
  BY DEF Running, RemindSteps
<1>2. RunOK(c)
  BY DEF RemindInv
<1>3. req[c] \in Requests /\ Kind(c) = "remind" /\ \A d \in Calls \ {c} : ~Running(d)
  BY <1>1, <1>2 DEF RunOK
<1>4. /\ req[c].schedule \in Schedules /\ req[c].to \in Consumers
      /\ Interval[req[c].schedule] \in Nat
  BY <1>3, RemindRequestTyped DEF Kind
<1> QED BY <1>1, <1>2, <1>3, <1>4 DEF RemindInv

\* A run goes on after it has chosen, or it fails.
LEMMA RunGoesOn ==
    ASSUME StaffInv, RemindInv, Serial, ErrorsKept, NEW c \in Calls, HasChosen(c),
           UNCHANGED <<req, pushed, history, now>>,
           \/ \E s \in RemindSteps \ {"choose"} : Goto(c, s)
           \/ Goto(c, "done") /\ answer'[c] = "error"
    PROVE  RemindInv'
<1>1. /\ req[c] \in Requests /\ Kind(c) = "remind" /\ RunOK(c)
      /\ req[c].schedule \in Schedules
      /\ history \in [Schedules -> [Consumers -> Nat \cup {Nothing}]]
      /\ \A d \in Calls \ {c} : ~Running(d)
  BY RunStarts DEF HasChosen, RemindSteps
<1>2. \A d \in Calls \ {c} : pc'[d] = pc[d]
  BY Moves
<1>3. HasChosen(c)' \/ (pc'[c] = "done" /\ answer'[c] = "error")
  BY Moves DEF HasChosen, RemindSteps
<1>4. \A p \in pushed : p.schedule \in Schedules => p.by \in Calls
  BY DEF RemindInv, ReminderOK
<1>5. PushedAlone(c)'
  BY <1>1, <1>4 DEF RunOK, PushedAlone, ErrorsKept, Reminders
<1>6. \A p \in pushed : p.by = c /\ IsUnderWay(p) => IsUnderWay(p)' \/ answer'[c] = "error"
  BY <1>3 DEF IsUnderWay
<1> QED BY <1>1, <1>2, <1>5, <1>6, NothingPushed DEF Kind

\* No run is under way but this one, which has pushed nothing: the row says all of the
\* runs that have not failed.
LEMMA ChooseRemind ==
    ASSUME StaffInv, RemindInv, Serial, ErrorsKept, NEW c \in Calls, ChooseConsumers(c)
    PROVE  RemindInv'
<1>1. /\ pc[c] = "choose" /\ UNCHANGED <<req, pushed, history, now>>
      /\ ~HasChosen(c)
  BY DEF ChooseConsumers, noticeVars, HasChosen
<1>2. /\ req[c] \in Requests /\ Kind(c) = "remind"
      /\ req[c].schedule \in Schedules /\ req[c].to \in Consumers
      /\ history \in [Schedules -> [Consumers -> Nat \cup {Nothing}]]
      /\ \A d \in Calls \ {c} : ~Running(d)
  BY <1>1, RunStarts DEF RemindSteps
<1>3. \A p \in pushed : p.by = c => ~IsUnderWay(p)
  BY <1>1 DEF IsUnderWay
<1>4. CASE Finish(c, "notChosen")
  <2>1. pc'[c] = "done" /\ \A d \in Calls \ {c} : pc'[d] = pc[d]
    BY <1>4, Moves DEF Finish
  <2> QED BY <1>1, <1>2, <1>3, <2>1, NothingPushed DEF HasChosen, RemindSteps
<1>5. CASE IsDue(c) /\ Goto(c, "readTokens")
  <2>1. ASSUME NEW p \in Reminders(req[c].schedule, req[c].to), Interval[req[c].schedule] = 0
        PROVE  p.by \in Calls /\ answer[p.by] = "error"
    <3>1. p \in pushed /\ p.schedule = req[c].schedule /\ p.to = req[c].to /\ ReminderOK(p)
      BY DEF Reminders, RemindInv
    <3>2. p.by \in Calls /\ ~IsUnderWay(p)
      BY <1>1, <1>2, <3>1 DEF ReminderOK, IsUnderWay, HasChosen, Running
    <3>3. LastSent(c) = Nothing
      BY <1>5, <2>1 DEF IsDue
    <3> QED BY <1>2, <3>1, <3>2, <3>3 DEF ReminderOK, IsRecorded, LastSent
  <2>2. PushedAlone(c)'
    BY <1>1, <2>1 DEF PushedAlone, Reminders, ErrorsKept
  <2>3. pc'[c] = "readTokens" /\ \A d \in Calls \ {c} : pc'[d] = pc[d]
    BY <1>5, Moves
  <2> QED BY <1>1, <1>2, <1>3, <2>2, <2>3, NothingPushed DEF Kind
<1> QED BY <1>4, <1>5 DEF ChooseConsumers, Continue

LEMMA ReadTokensRemind ==
    ASSUME StaffInv, AnswersOK, RemindInv, Serial, ErrorsKept, NEW c \in Calls, ReadTokens(c)
    PROVE  RemindInv'
<1>1. pc[c] = "readTokens" /\ HasChosen(c) /\ UNCHANGED <<req, pushed, history, now>>
  BY DEF ReadTokens, noticeVars, HasChosen
<1>2. \/ Goto(c, "push") \/ Goto(c, "readTokens")
      \/ Goto(c, "done") /\ answer'[c] = "error"
  BY DEF ReadTokens, RetriesFrom, Continue, Finish, AnswersOK
<1> QED BY <1>1, <1>2, RunGoesOn DEF RemindSteps

LEMMA FindHistoryRemind ==
    ASSUME StaffInv, AnswersOK, RemindInv, Serial, ErrorsKept, NEW c \in Calls, FindHistory(c)
    PROVE  RemindInv'
<1>1. pc[c] = "findHistory" /\ HasChosen(c) /\ UNCHANGED <<req, pushed, history, now>>
  BY DEF FindHistory, noticeVars, HasChosen
<1>2. \/ Goto(c, "writeHistory") \/ Goto(c, "findHistory")
      \/ Goto(c, "done") /\ answer'[c] = "error"
  BY DEF FindHistory, RetriesFrom, Continue, Finish, AnswersOK
<1> QED BY <1>1, <1>2, RunGoesOn DEF RemindSteps

\* What is pushed is this run's, and only runs that failed have pushed it before, unless
\* the reminder is repeated.
LEMMA SendRemind ==
    ASSUME StaffInv, AnswersOK, RemindInv, Serial, ErrorsKept, NEW c \in Calls, SendPushes(c)
    PROVE  RemindInv'
<1> DEFINE s == req[c].schedule
           u == req[c].to
<1>1. /\ pc[c] = "push" /\ HasChosen(c) /\ UNCHANGED <<req, history, now>>
  BY DEF SendPushes, HasChosen
<1>2. /\ req[c] \in Requests /\ Kind(c) = "remind" /\ RunOK(c)
      /\ s \in Schedules /\ u \in Consumers /\ Interval[s] \in Nat
      /\ history \in [Schedules -> [Consumers -> Nat \cup {Nothing}]]
      /\ \A d \in Calls \ {c} : ~Running(d)
  BY <1>1, RunStarts DEF RemindSteps
<1>3. PICK devices : pushed' = pushed \cup Pushes(c, u, devices, s)
  BY DEF SendPushes
<1> DEFINE new == Pushes(c, u, devices, s)
<1>4. pushed' = pushed \cup new /\ \A p \in new : p.by = c /\ p.to = u /\ p.schedule = s
  BY <1>3 DEF Pushes
<1> HIDE DEF new
<1>5. /\ \A d \in Calls \ {c} : pc'[d] = pc[d]
      /\ HasChosen(c)' \/ (pc'[c] = "done" /\ answer'[c] = "error")
  <2>1. \/ Goto(c, "findHistory") \/ Goto(c, "readTokens")
        \/ Goto(c, "done") /\ answer'[c] = "error"
    BY DEF SendPushes, RetriesFrom, Continue, Finish, AnswersOK
  <2> QED BY <2>1, Moves DEF HasChosen
<1>6. \A p \in pushed : p.schedule \in Schedules => p.by \in Calls
  BY DEF RemindInv, ReminderOK
<1>7. \A p \in Reminders(s, u) : Interval[s] = 0 => p.by = c \/ answer'[p.by] = "error"
  BY <1>1, <1>2, <1>6 DEF RunOK, PushedAlone, ErrorsKept, Reminders
<1>8. \A d \in Calls : RunOK(d)'
  <2>1. PushedAlone(c)'
    BY <1>1, <1>4, <1>7 DEF PushedAlone, Reminders
  <2> QED BY <1>1, <1>2, <1>5, <2>1 DEF RunOK, Running, RemindSteps, Kind, HasChosen
<1>9. ASSUME NEW p \in pushed' PROVE ReminderOK(p)'
  <2>1. CASE p \in new
    BY <1>1, <1>2, <1>4, <1>5, <2>1 DEF ReminderOK, IsUnderWay
  <2>2. CASE p \in pushed
    <3>1. ReminderOK(p)
      BY <2>2 DEF RemindInv
    <3>2. p.schedule \in Schedules /\ IsUnderWay(p) => p.by = c
      BY <1>2, <3>1 DEF ReminderOK, IsUnderWay, HasChosen, Running
    <3> QED BY <1>1, <1>5, <3>1, <3>2 DEF ReminderOK, IsRecorded, IsUnderWay, ErrorsKept
  <2> QED BY <1>4, <2>1, <2>2
<1>10. ASSUME NEW sch \in Schedules, NEW v \in Consumers,
              NEW p \in Reminders(sch, v)', NEW q \in Reminders(sch, v)'
       PROVE  OneRun(p, q)'
  <2>1. /\ p \in new \/ p \in Reminders(sch, v)
        /\ q \in new \/ q \in Reminders(sch, v)
        /\ p.schedule = sch /\ p.to = v /\ q.schedule = sch /\ q.to = v
    BY <1>4 DEF Reminders
  <2>2. CASE p \in Reminders(sch, v) /\ q \in Reminders(sch, v)
    <3>1. OneRun(p, q) /\ ReminderOK(p) /\ ReminderOK(q)
      BY <2>2 DEF RemindInv, Reminders
    <3> QED BY <2>1, <3>1 DEF OneRun, ReminderOK, ErrorsKept
  <2>3. CASE p \in new /\ q \in new
    BY <1>4, <2>3 DEF OneRun
  <2>4. CASE p \in Reminders(sch, v) /\ q \in new
    BY <1>4, <1>7, <2>1, <2>4 DEF OneRun
  <2>5. CASE p \in new /\ q \in Reminders(sch, v)
    BY <1>4, <1>7, <2>1, <2>5 DEF OneRun
  <2> QED BY <2>1, <2>2, <2>3, <2>4, <2>5
<1>11. now' \in Nat /\ history' \in [Schedules -> [Consumers -> Nat \cup {Nothing}]]
  BY <1>1, <1>2 DEF RemindInv
<1> QED BY <1>8, <1>9, <1>10, <1>11 DEF RemindInv

\* What a run has pushed is recorded when it ends, unless it fails.
LEMMA WriteHistoryRemind ==
    ASSUME StaffInv, AnswersOK, RemindInv, Serial, ErrorsKept, NEW c \in Calls,
           WriteHistory(c)
    PROVE  RemindInv'
<1>1. pc[c] = "writeHistory" /\ HasChosen(c) /\ UNCHANGED <<req, pushed, now>>
  BY DEF WriteHistory, HasChosen
<1>2. /\ req[c] \in Requests /\ Kind(c) = "remind" /\ now \in Nat /\ RunOK(c)
      /\ req[c].schedule \in Schedules /\ req[c].to \in Consumers
      /\ history \in [Schedules -> [Consumers -> Nat \cup {Nothing}]]
      /\ \A d \in Calls \ {c} : ~Running(d)
  BY <1>1, RunStarts DEF RemindSteps, RemindInv
<1>3. /\ \/ history' = [history EXCEPT ![req[c].schedule][req[c].to] = now]
         \/ UNCHANGED history /\ (Goto(c, "findHistory") \/ answer'[c] = "error")
      /\ Goto(c, "findHistory") \/ Goto(c, "done")
  BY DEF WriteHistory, RetriesFrom, Finish, Continue, AnswersOK
<1>4. CASE UNCHANGED history /\ (Goto(c, "findHistory") \/ answer'[c] = "error")
  BY <1>1, <1>3, <1>4, RunGoesOn DEF RemindSteps
<1>5. CASE history' = [history EXCEPT ![req[c].schedule][req[c].to] = now]
  <2>1. PICK s \in Schedules, u \in Consumers : s = req[c].schedule /\ u = req[c].to
    BY <1>2
  <2>2. history' = [history EXCEPT ![s] = [history[s] EXCEPT ![u] = now]]
    BY <1>2, <1>5, <2>1
  <2>3. /\ history' \in [Schedules -> [Consumers -> Nat \cup {Nothing}]]
        /\ history'[s][u] = now
        /\ \A t \in Schedules, v \in Consumers :
                ~(t = s /\ v = u) => history'[t][v] = history[t][v]
    BY <1>2, <2>2
  <2>4. \A t \in Schedules, v \in Consumers : history[t][v] # Nothing => history'[t][v] # Nothing
    BY <1>2, <2>3, NotificationsAssumption
  <2>5. \A p \in pushed : p.by = c /\ IsUnderWay(p) => IsRecorded(p)'
    BY <1>1, <1>2, <2>1, <2>3, NotificationsAssumption DEF IsUnderWay, IsRecorded
  <2>6. \A d \in Calls \ {c} : pc'[d] = pc[d]
    BY <1>3, Moves
  <2>7. \A p \in pushed : p.schedule \in Schedules => p.by \in Calls
    BY DEF RemindInv, ReminderOK
  <2>8. PushedAlone(c)'
    BY <1>1, <1>2, <2>7 DEF RunOK, PushedAlone, ErrorsKept, Reminders
  <2> QED BY <1>1, <1>2, <2>3, <2>4, <2>5, <2>6, <2>8, NothingPushed DEF Kind
<1> QED BY <1>3, <1>4, <1>5

LEMMA RemindNextOK ==
    ASSUME StaffInv, AnswersOK, RemindInv, [WorkforceNext]_vars
    PROVE  RemindInv'
<1> SUFFICES ASSUME Serial PROVE RemindInv'
  BY DEF WorkforceNext, vars, RemindInv, Serial
<1>0. ErrorsKept
  BY ErrorsStay
<1>1. CASE UNCHANGED vars
  BY <1>1 DEF vars, callVars, noticeVars, RemindInv, ReminderOK, IsRecorded, IsUnderWay, RunOK,
              HasChosen, PushedAlone, Running, Kind, Reminders, OneRun
<1>2. ASSUME NEW c \in Calls, NEW r \in Requests, Receive(c, r) PROVE RemindInv'
  BY <1>0, <1>2, ReceiveRemind
<1>3. ASSUME NEW c \in Calls, CallStep(c) PROVE RemindInv'
  BY <1>0, <1>3, OtherRemind, ChooseRemind, ReadTokensRemind, SendRemind, FindHistoryRemind,
     WriteHistoryRemind DEF CallStep, NotificationStep
<1>4. ASSUME NEW e \in emitted, HandleEvent(e) PROVE RemindInv'
  <2>1. UNCHANGED <<callVars, history, now>>
    BY <1>4 DEF HandleEvent
  <2>2. \A p \in pushed' : p \in pushed \/ p.schedule = Nothing
    BY <1>4 DEF HandleEvent, Pushes
  <2>3. \A s \in Schedules, u \in Consumers : Reminders(s, u)' \subseteq Reminders(s, u)
    BY <2>2, NotificationsAssumption DEF Reminders
  <2>4. \A p \in pushed' : ReminderOK(p)'
    BY <2>1, <2>2, NotificationsAssumption
       DEF callVars, RemindInv, ReminderOK, IsRecorded, IsUnderWay, HasChosen
  <2>5. ASSUME NEW c \in Calls PROVE RunOK(c)'
    <3>1. RunOK(c)
      BY DEF RemindInv
    <3>2. HasChosen(c) => Reminders(req[c].schedule, req[c].to)'
                            \subseteq Reminders(req[c].schedule, req[c].to)
      BY <2>1, <2>3, RunStarts DEF callVars, HasChosen, RemindSteps
    <3> QED BY <2>1, <3>1, <3>2
         DEF callVars, RunOK, Running, Kind, RemindSteps, HasChosen, PushedAlone
  <2> QED BY <2>1, <2>3, <2>4, <2>5 DEF callVars, RemindInv, OneRun
<1>5. CASE NextDay
  <2>1. UNCHANGED <<callVars, pushed, history>> /\ now' \in Nat
    BY <1>5 DEF NextDay, RemindInv
  <2>2. \A p \in pushed : ReminderOK(p)'
    BY <2>1 DEF callVars, RemindInv, ReminderOK, IsRecorded, IsUnderWay, HasChosen
  <2>3. ASSUME NEW c \in Calls PROVE RunOK(c)'
    <3>1. RunOK(c)
      BY DEF RemindInv
    <3> QED BY <2>1, <3>1
         DEF callVars, RunOK, Running, Kind, RemindSteps, HasChosen, PushedAlone, Reminders
  <2> QED BY <2>1, <2>2, <2>3 DEF callVars, RemindInv, OneRun, Reminders
<1> QED BY <1>1, <1>2, <1>3, <1>4, <1>5 DEF WorkforceNext

\* While calls take turns, a reminder that is not repeated comes to a consumer in one run
\* of its workflow, runs that gave up with an error apart, for as many days, calls and
\* retries as there are: the run has recorded it before the query of the next one looks.
THEOREM OneReminder == WorkforceSpec => []OncePerConsumerInTurn
<1>1. WorkforceInit => StaffInv /\ AnswersOK /\ RemindInv
  BY StaffInitOK, AnswersInitOK, RemindInitOK
<1>2. (StaffInv /\ AnswersOK /\ RemindInv) /\ [WorkforceNext]_vars
        => (StaffInv /\ AnswersOK /\ RemindInv)'
  BY StaffNextKeeps, ErrorsStay, RemindNextOK
<1>3. RemindInv => OncePerConsumerInTurn
  <2> SUFFICES ASSUME RemindInv, Serial, NEW s \in Schedules, NEW u \in Consumers,
                      Interval[s] = 0
               PROVE  Cardinality(RunsThatSent(s, u)) <= 1
    BY DEF OncePerConsumerInTurn
  <2>1. \A p, q \in Reminders(s, u) :
            answer[p.by] # "error" /\ answer[q.by] # "error" => p.by = q.by
    BY DEF RemindInv, OneRun, Reminders
  <2>2. CASE RunsThatSent(s, u) = {}
    BY <2>2, FS_EmptySet
  <2>3. ASSUME NEW c \in RunsThatSent(s, u) PROVE Cardinality(RunsThatSent(s, u)) <= 1
    <3>1. RunsThatSent(s, u) = {c}
      BY <2>1 DEF RunsThatSent
    <3>2. Cardinality({c}) = 1
      BY FS_Singleton
    <3> QED BY <3>1, <3>2
  <2> QED BY <2>2, <2>3
<1> QED BY <1>1, <1>2, <1>3, PTL DEF WorkforceSpec

-----------------------------------------------------------------------------
(* Seeding *)

Entries(s) == {s[i] : i \in 1..Len(s)}

\* The templates an event has.
Own(n) ==
    {t \in {"email", "sms", "push"} \X {"en", "es"} :
        t[1] \in Preferred(n) /\ t[2] \in TemplateLanguages(n, t[1])}

LEMMA Joined ==
    ASSUME NEW S, NEW s \in Seq(S), NEW t \in Seq(S)
    PROVE  s \o t \in Seq(S) /\ Entries(s \o t) = Entries(s) \cup Entries(t)
<1>1. s \o t \in Seq(S) /\ Len(s \o t) = Len(s) + Len(t) /\ Len(s) \in Nat /\ Len(t) \in Nat
  OBVIOUS
<1>2. ASSUME NEW i \in 1..Len(s) PROVE i \in 1..Len(s \o t) /\ (s \o t)[i] = s[i]
  BY <1>1
<1>3. ASSUME NEW i \in 1..Len(t)
      PROVE  Len(s) + i \in 1..Len(s \o t) /\ (s \o t)[Len(s) + i] = t[i]
  BY <1>1
<1>4. ASSUME NEW i \in 1..Len(s \o t), i \notin 1..Len(s)
      PROVE  i - Len(s) \in 1..Len(t) /\ (s \o t)[i] = t[i - Len(s)]
  BY <1>1, <1>4
<1>5. ASSUME NEW e \in Entries(s) \cup Entries(t) PROVE e \in Entries(s \o t)
  BY <1>1, <1>2, <1>3 DEF Entries
<1>6. ASSUME NEW e \in Entries(s \o t) PROVE e \in Entries(s) \cup Entries(t)
  BY <1>2, <1>4 DEF Entries
<1> QED BY <1>1, <1>5, <1>6

LEMMA Popped ==
    ASSUME NEW S, NEW s \in Seq(S), s # <<>>
    PROVE  /\ Head(s) \in S /\ Tail(s) \in Seq(S)
           /\ Entries(s) \subseteq {Head(s)} \cup Entries(Tail(s))
<1>1. /\ Head(s) = s[1] /\ Tail(s) \in Seq(S) /\ Len(s) \in Nat \ {0}
      /\ Len(Tail(s)) = Len(s) - 1
  OBVIOUS
<1>2. ASSUME NEW i \in 1..Len(s), i # 1
      PROVE  i - 1 \in 1..Len(Tail(s)) /\ s[i] = Tail(s)[i - 1]
  BY <1>1, <1>2
<1> QED BY <1>1, <1>2 DEF Entries

\* Seeding goes through all of them.
LEMMA AllAreSeeded ==
    ASSUME NEW n
    PROVE  AllTemplates(n) \in Seq(Own(n)) /\ Own(n) \subseteq Entries(AllTemplates(n))
<1> DEFINE In(m, l) == IF l \in TemplateLanguages(n, m) THEN << <<m, l>> >> ELSE <<>>
           Of(m) == {t \in Own(n) : t[1] = m}
<1>1. ASSUME NEW m \in {"email", "sms", "push"}, NEW l \in {"en", "es"}, m \in Preferred(n)
      PROVE  /\ In(m, l) \in Seq(Own(n))
             /\ {t \in Of(m) : t[2] = l} \subseteq Entries(In(m, l))
  <2>1. CASE l \in TemplateLanguages(n, m)
    <3>1. In(m, l) = << <<m, l>> >> /\ <<m, l>> \in Own(n)
      BY <1>1, <2>1 DEF Own
    <3>2. In(m, l) \in Seq(Own(n)) /\ Len(In(m, l)) = 1 /\ In(m, l)[1] = <<m, l>>
      BY <3>1
    <3>3. <<m, l>> \in Entries(In(m, l))
      BY <3>2 DEF Entries
    <3> QED BY <3>2, <3>3 DEF Own
  <2>2. CASE l \notin TemplateLanguages(n, m)
    BY <2>2 DEF Own
  <2> QED BY <2>1, <2>2
<1>2. ASSUME NEW m \in {"email", "sms", "push"}
      PROVE  TemplatesOf(n, m) \in Seq(Own(n)) /\ Of(m) \subseteq Entries(TemplatesOf(n, m))
  <2>1. CASE m \in Preferred(n)
    <3>1. TemplatesOf(n, m) = In(m, "en") \o In(m, "es")
      BY <2>1 DEF TemplatesOf
    <3>2. In(m, "en") \in Seq(Own(n)) /\ In(m, "es") \in Seq(Own(n))
      BY <1>1, <2>1
    <3>3. PICK english \in Seq(Own(n)), spanish \in Seq(Own(n)) :
            english = In(m, "en") /\ spanish = In(m, "es")
      BY <3>2
    <3>4. /\ TemplatesOf(n, m) \in Seq(Own(n))
          /\ Entries(TemplatesOf(n, m)) = Entries(english) \cup Entries(spanish)
      <4>1. TemplatesOf(n, m) = english \o spanish
        BY <3>1, <3>3
      <4>2. /\ english \o spanish \in Seq(Own(n))
            /\ Entries(english \o spanish) = Entries(english) \cup Entries(spanish)
        BY Joined
      <4> QED BY <4>1, <4>2
    <3>5. \A t \in Of(m) : t[2] \in {"en", "es"}
      BY DEF Own
    <3> QED BY <1>1, <2>1, <3>3, <3>4, <3>5
  <2>2. CASE m \notin Preferred(n)
    BY <2>2 DEF TemplatesOf, Own
  <2> QED BY <2>1, <2>2
<1>3. PICK e \in Seq(Own(n)), x \in Seq(Own(n)), p \in Seq(Own(n)) :
        /\ e = TemplatesOf(n, "email") /\ x = TemplatesOf(n, "sms")
        /\ p = TemplatesOf(n, "push")
  BY <1>2
<1>4. e \o x \in Seq(Own(n)) /\ Entries(e \o x) = Entries(e) \cup Entries(x)
  BY Joined
<1>5. PICK ex \in Seq(Own(n)) : ex = e \o x
  BY <1>4
<1>6. ex \o p \in Seq(Own(n)) /\ Entries(ex \o p) = Entries(ex) \cup Entries(p)
  BY Joined
<1>7. AllTemplates(n) = ex \o p
  BY <1>3, <1>5 DEF AllTemplates
<1>8. Own(n) \subseteq Of("email") \cup Of("sms") \cup Of("push")
  BY DEF Own
<1> QED BY <1>2, <1>3, <1>4, <1>5, <1>6, <1>7, <1>8

\* What has been seeded: everything once, then the titles of the pushes.
SeedInv ==
    /\ name \in Names
    /\ handlers \in {<<>>, <<Preferred(name)>>}
    /\ toSeed \in Seq(Own(name)) /\ templates \subseteq Own(name) /\ seeds \in Nat
    /\ toSeed # <<>> \/ seeds > 0 => handlers # <<>>
    /\ seeds = 0 /\ toSeed # <<>> => Own(name) \subseteq templates \cup Entries(toSeed)
    /\ seeds > 0 => Own(name) \subseteq templates
    /\ seeds = 1 /\ toSeed # <<>> =>
        \A t \in Own(name) : t[1] = "push" => t \in titled \cup Entries(toSeed)
    /\ seeds > 1 => \A t \in Own(name) : t[1] = "push" => t \in titled

LEMMA SeedStep ==
    ASSUME SeedInv, [NoticeNext]_postVars
    PROVE  SeedInv'
<1>1. CASE UNCHANGED seedVars
  BY <1>1 DEF SeedInv, seedVars
<1>2. CASE StartSeeding
  <2>1. /\ AllTemplates(name) \in Seq(Own(name))
        /\ Own(name) \subseteq Entries(AllTemplates(name))
    BY AllAreSeeded
  <2>2. /\ name' = name /\ templates' = templates /\ titled' = titled
        /\ handlers' = <<Preferred(name)>> /\ toSeed = <<>>
        /\ toSeed' = AllTemplates(name)
        /\ seeds' = seeds + (IF toSeed' = <<>> THEN 1 ELSE 0)
    BY <1>2 DEF StartSeeding, Seeded
  <2>3. Entries(<<>>) = {} /\ <<Preferred(name)>> # <<>>
    BY DEF Entries
  <2>4. CASE toSeed' = <<>>
    <3>1. Own(name) = {} /\ seeds' = seeds + 1 /\ seeds \in Nat
      BY <2>1, <2>2, <2>3, <2>4 DEF SeedInv
    <3> QED BY <2>1, <2>2, <2>3, <2>4, <3>1 DEF SeedInv
  <2>5. CASE toSeed' # <<>>
    <3>1. seeds' = seeds
      BY <2>2, <2>5 DEF SeedInv
    <3> QED BY <2>1, <2>2, <2>3, <2>5, <3>1 DEF SeedInv
  <2> QED BY <2>4, <2>5
<1>3. CASE SeedTemplate
  <2>1. /\ toSeed # <<>> /\ name' = name /\ handlers' = handlers
        /\ toSeed \in Seq(Own(name)) /\ seeds \in Nat /\ handlers # <<>>
    BY <1>3 DEF SeedTemplate, SeedInv
  <2>2. PICK t : t = Head(toSeed)
    OBVIOUS
  <2>3. /\ t \in Own(name) /\ Tail(toSeed) \in Seq(Own(name))
        /\ Entries(toSeed) \subseteq {t} \cup Entries(Tail(toSeed))
    BY <2>1, <2>2, Popped
  <2>4. Entries(<<>>) = {} /\ <<>> \in Seq(Own(name))
    BY DEF Entries
  <2>5. CASE toSeed' = <<>> /\ UNCHANGED <<templates, titled, seeds>>
    BY <2>1, <2>4, <2>5 DEF SeedInv
  <2>6. CASE /\ templates' = templates \cup {t}
             /\ titled' = IF t[1] = "push" /\ t \in templates
                           THEN titled \cup {t} ELSE titled
             /\ toSeed' = Tail(toSeed)
             /\ seeds' = seeds + (IF toSeed' = <<>> THEN 1 ELSE 0)
    <3>1. seeds > 0 => t \in templates
      BY <2>3 DEF SeedInv
    <3>2. seeds' \in Nat /\ seeds' >= seeds /\ (toSeed' # <<>> => seeds' = seeds)
          /\ (toSeed' = <<>> => seeds' = seeds + 1)
      BY <2>1, <2>6
    <3>3. seeds' = 0 /\ toSeed' # <<>> => Own(name) \subseteq templates' \cup Entries(toSeed')
      BY <2>1, <2>3, <2>6, <3>2 DEF SeedInv
    <3>4. seeds' > 0 => Own(name) \subseteq templates'
      <4>1. CASE seeds > 0
        BY <2>6, <4>1 DEF SeedInv
      <4>2. CASE seeds = 0 /\ toSeed' = <<>>
        <5>1. Entries(Tail(toSeed)) = {}
          BY <2>4, <2>6, <4>2
        <5>2. Own(name) \subseteq templates \cup Entries(toSeed)
          BY <2>1, <4>2 DEF SeedInv
        <5> QED BY <2>3, <2>6, <5>1, <5>2
      <4> QED BY <2>1, <3>2, <4>1, <4>2
    <3>5. seeds' = 1 /\ toSeed' # <<>> =>
            \A u \in Own(name) : u[1] = "push" => u \in titled' \cup Entries(toSeed')
      BY <2>1, <2>3, <2>6, <3>1, <3>2 DEF SeedInv
    <3>6. seeds' > 1 => \A u \in Own(name) : u[1] = "push" => u \in titled'
      <4>1. CASE seeds > 1
        BY <2>6, <4>1 DEF SeedInv
      <4>2. CASE seeds = 1 /\ toSeed' = <<>>
        <5>1. Entries(Tail(toSeed)) = {}
          BY <2>4, <2>6, <4>2
        <5>2. \A u \in Own(name) : u[1] = "push" => u \in titled \cup Entries(toSeed)
          BY <2>1, <4>2 DEF SeedInv
        <5>3. t \in templates
          BY <3>1, <4>2
        <5> QED BY <2>3, <2>6, <5>1, <5>2, <5>3
      <4> QED BY <2>1, <3>2, <4>1, <4>2
    <3> QED BY <2>1, <2>3, <2>6, <3>2, <3>3, <3>4, <3>5, <3>6 DEF SeedInv
  <2> QED BY <1>3, <2>2, <2>5, <2>6 DEF SeedTemplate, Seeded
<1> QED
  BY <1>1, <1>2, <1>3
  DEF NoticeNext, postVars, Ask, ReadConsumers, SendNotification, ChooseTemplate, Deliver
-----------------------------------------------------------------------------
(* What the five tables say of each event *)

\* A message of n may print what its payload has not.
Unsaid(n) == IF n = "credit.adjustment.completed" THEN {"lastName"} ELSE {}

\* What is asked suits the event.
Suits(n, via, debit, credit, fee) ==
    /\ via \in {"email", "phone"}
    /\ n \notin TransferEvents => credit = debit
    /\ n \notin TransactionEvents => fee = "whole"
    /\ n \notin {"otp", "wallet.update.verification.code"} => via = "phone"
Reaches(n, via, to, medium) ==
    CASE medium = "email" -> via = "email" \/ n \notin {"otp", "wallet.update.verification.code"}
      [] medium = "sms" -> via = "phone" /\ "phone" \in to
      [] medium = "push" -> "device" \in to
      [] medium = "dashboard" -> TRUE
Text(n, via, to, debit, credit) == PayloadOf(TypeOf(n), via, to, debit, credit)

\* The events that are followed, one by one.
Followed ==
    {"deposit.completed", "deposit.failed", "withdrawal.completed", "withdrawal.failed",
     "transfer.completed", "transfer.failed", "transfer.received",
     "payroll.deposit.completed", "credit.adjustment.completed",
     "credit.adjustment.failed", "debit.adjustment.completed",
     "debit.adjustment.failed", "kyc.approved.us", "kyc.denied",
     "kyc.pending.or.flagged", "document.verification.pending",
     "document.verification.rejected", "document.verification.technical.failure",
     "phone.verification.code", "welcome.message", "employee.request",
     "invite.employee", "update.payroll.status", "otp",
     "wallet.update.verification.code"}

LEMMA EventsAreThese ==
    ASSUME NEW n \in Names
    PROVE  n \in Followed \/ n \in ReminderEvents
<1>1. n \in ReminderEvents \/ (n \in EventTypes /\ n \notin NeverSent /\ n # "scheduled.reminder")
  BY DEF Names
<1> QED
  BY <1>1
  DEF Followed, EventTypes, NeverSent, TransactionEvents, DepositEvents, WithdrawalEvents,
      TransferEvents, AdjustmentEvents, KycEvents, DocumentEvents

\* For every event and any rows: what its validator accepts is all that its messages
\* print.  Of complete rows, the payload has an address for each medium that reaches the
\* consumer, and is accepted if it has any.
LEMMA TablesAgree ==
    ASSUME NEW n \in Names, NEW via, NEW debit, NEW credit, NEW to \in {debit, credit},
           NEW fee, NEW language, NEW m \in Preferred(n)
    PROVE  LET text == Text(n, via, to, debit, credit)
               isAddressed == AddressOf(m) \subseteq text.given
               isWhole == /\ IsComplete(debit) /\ IsComplete(credit)
                          /\ Suits(n, via, debit, credit, fee)
           IN  /\ isAddressed /\ IsAccepted(TypeOf(n), text, fee, language) =>
                    Printed(m, TypeOf(n)) \ text.given \subseteq Unsaid(n)
               /\ isWhole /\ Reaches(n, via, to, m) => isAddressed
               /\ isWhole /\ isAddressed /\ IsNumber(fee, language) =>
                    IsAccepted(TypeOf(n), text, fee, language)
<1> USE DEF Unsaid, Text, Suits, Reaches, IsComplete, TypeOf, Preferred, PayloadOf,
        AddressOf, IsAccepted, Required, Known, Nullable, BaseEvent, Printed,
        ReminderEvents, WithPush, Payload, And, BaseParams, KycEvents, DocumentEvents,
        OtpPayload, PhoneCodePayload, WalletCodePayload, WelcomePayload,
        EmployerRequestPayload, InvitePayload, PayrollStatusPayload, ReminderPayload,
        toTransactionParams, Named, OfCredit, OfDebit, toTransferParams, Failures,
        Reason, DepositEvents, WithdrawalEvents, TransferEvents, AdjustmentEvents,
        UserID, DepositPayload, PayrollDepositPayload, WithdrawalPayload,
        AdjustmentPayload, TransferPayload, TransactionParamsSchema,
        TransferParamsSchema, ReceivedParamsSchema, validateSendOtpEvent,
        validateSendWalletUpdateVerificationCodeEvent,
        validateSendPhoneVerificationCodeEvent, validateSendWelcomeMessageEvent,
        validateSendKycApprovedUSEvent, validateSendKycDeniedEvent,
        validateSendKycPendingOrFlaggedEvent, validateDocumentVerificationPendingEvent,
        validateDocumentVerificationRejectedEvent,
        validateDocumentVerificationTechnicalFailureEvent,
        validateSendEmployerRequestEvent, validateSendInviteEmployeeEvent,
        validateSendUpdatePayrollStatusEvent, validateSendScheduledReminderEvent,
        OfTransaction, validateDepositCompletedEvent, validateDepositFailedEvent,
        validateWithdrawalCompletedEvent, validateWithdrawalFailedEvent,
        validateTransferCompletedEvent, validateTransferFailedEvent,
        validateTransferReceivedEvent, validatePayrollDepositCompletedEvent,
        validateSendCreditAdjustmentCompletedEvent,
        validateSendCreditAdjustmentFailedEvent,
        validateSendDebitAdjustmentCompletedEvent,
        validateSendDebitAdjustmentFailedEvent, EmailMessages, EmailsOfCodes,
        EmailsOfKyc, EmailsOfDocuments, OfMoney, EmailsOfDeposits, EmailsOfWithdrawals,
        EmailsOfTransfers, EmailsOfPayroll, EmailsOfAdjustments,
        EmailsOfEmployerRequests, EmailsOfInvitations, Texts, Credited, Debited,
        PushesOfDeposits, PushesOfWithdrawals, PushesOfTransfers, PushesOfPayroll,
        PushesOfAdjustments, PushesOfReminders, PushMessages, Dashboard
<1> DEFINE text == Text(n, via, to, debit, credit)
           isAddressed == AddressOf(m) \subseteq text.given
<1>1. n \in Followed \/ n \in ReminderEvents
  BY EventsAreThese
<1>2. ASSUME isAddressed, IsAccepted(TypeOf(n), text, fee, language)
      PROVE  Printed(m, TypeOf(n)) \ text.given \subseteq Unsaid(n)
  <2>1. CASE n \in {"deposit.completed", "deposit.failed"}
    <3>1. CASE n = "deposit.completed"
      BY <1>2, <3>1
    <3>2. CASE n = "deposit.failed"
      BY <1>2, <3>2
    <3> QED BY <2>1, <3>1, <3>2
  <2>2. CASE n \in {"withdrawal.completed", "withdrawal.failed"}
    <3>1. CASE n = "withdrawal.completed"
      BY <1>2, <3>1
    <3>2. CASE n = "withdrawal.failed"
      BY <1>2, <3>2
    <3> QED BY <2>2, <3>1, <3>2
  <2>3. CASE n \in TransferEvents
    <3>1. CASE n = "transfer.completed"
      BY <1>2, <3>1
    <3>2. CASE n = "transfer.failed"
      BY <1>2, <3>2
    <3>3. CASE n = "transfer.received"
      BY <1>2, <3>3
    <3> QED BY <2>3, <3>1, <3>2, <3>3
  <2>4. CASE n = "payroll.deposit.completed"
    BY <1>2, <2>4
  <2>5. CASE n \in AdjustmentEvents
    <3>1. CASE n = "credit.adjustment.completed"
      BY <1>2, <3>1
    <3>2. CASE n = "credit.adjustment.failed"
      BY <1>2, <3>2
    <3>3. CASE n = "debit.adjustment.completed"
      BY <1>2, <3>3
    <3>4. CASE n = "debit.adjustment.failed"
      BY <1>2, <3>4
    <3> QED BY <2>5, <3>1, <3>2, <3>3, <3>4
  <2>6. CASE n \in {"kyc.approved.us", "kyc.denied", "kyc.pending.or.flagged"}
    <3>1. CASE n = "kyc.approved.us"
      BY <1>2, <3>1
    <3>2. CASE n = "kyc.denied"
      BY <1>2, <3>2
    <3>3. CASE n = "kyc.pending.or.flagged"
      BY <1>2, <3>3
    <3> QED BY <2>6, <3>1, <3>2, <3>3
  <2>7. CASE n \in DocumentEvents
    <3>1. CASE n = "document.verification.pending"
      BY <1>2, <3>1
    <3>2. CASE n = "document.verification.rejected"
      BY <1>2, <3>2
    <3>3. CASE n = "document.verification.technical.failure"
      BY <1>2, <3>3
    <3> QED BY <2>7, <3>1, <3>2, <3>3
  <2>8. CASE n = "phone.verification.code"
    BY <1>2, <2>8
  <2>9. CASE n = "welcome.message"
    BY <1>2, <2>9
  <2>10. CASE n = "employee.request"
    BY <1>2, <2>10
  <2>11. CASE n = "invite.employee"
    BY <1>2, <2>11
  <2>12. CASE n = "update.payroll.status"
    BY <1>2, <2>12
  <2>13. CASE n = "otp"
    BY <1>2, <2>13
  <2>14. CASE n = "wallet.update.verification.code"
    BY <1>2, <2>14
  <2>15. CASE n \in ReminderEvents
    BY <1>2, <2>15
  <2> HIDE DEF Unsaid, Text, Suits, Reaches, IsComplete, TypeOf, Preferred, AddressOf, IsAccepted,
           Printed, ReminderEvents, TransferEvents, AdjustmentEvents, DocumentEvents
  <2> QED
    BY <1>1, <2>1, <2>2, <2>3, <2>4, <2>5, <2>6, <2>7, <2>8,
       <2>9, <2>10, <2>11, <2>12, <2>13, <2>14, <2>15
    DEF Followed, TransferEvents, AdjustmentEvents, DocumentEvents
<1>3. ASSUME IsComplete(debit), IsComplete(credit), Suits(n, via, debit, credit, fee),
             Reaches(n, via, to, m)
      PROVE  isAddressed
  <2>1. CASE n \in {"deposit.completed", "deposit.failed"}
    <3>1. CASE n = "deposit.completed"
      BY <1>3, <3>1
    <3>2. CASE n = "deposit.failed"
      BY <1>3, <3>2
    <3> QED BY <2>1, <3>1, <3>2
  <2>2. CASE n \in {"withdrawal.completed", "withdrawal.failed"}
    <3>1. CASE n = "withdrawal.completed"
      BY <1>3, <3>1
    <3>2. CASE n = "withdrawal.failed"
      BY <1>3, <3>2
    <3> QED BY <2>2, <3>1, <3>2
  <2>3. CASE n \in TransferEvents
    <3>1. CASE n = "transfer.completed"
      BY <1>3, <3>1
    <3>2. CASE n = "transfer.failed"
      BY <1>3, <3>2
    <3>3. CASE n = "transfer.received"
      BY <1>3, <3>3
    <3> QED BY <2>3, <3>1, <3>2, <3>3
  <2>4. CASE n = "payroll.deposit.completed"
    BY <1>3, <2>4
  <2>5. CASE n \in AdjustmentEvents
    <3>1. CASE n = "credit.adjustment.completed"
      BY <1>3, <3>1
    <3>2. CASE n = "credit.adjustment.failed"
      BY <1>3, <3>2
    <3>3. CASE n = "debit.adjustment.completed"
      BY <1>3, <3>3
    <3>4. CASE n = "debit.adjustment.failed"
      BY <1>3, <3>4
    <3> QED BY <2>5, <3>1, <3>2, <3>3, <3>4
  <2>6. CASE n \in {"kyc.approved.us", "kyc.denied", "kyc.pending.or.flagged"}
    <3>1. CASE n = "kyc.approved.us"
      BY <1>3, <3>1
    <3>2. CASE n = "kyc.denied"
      BY <1>3, <3>2
    <3>3. CASE n = "kyc.pending.or.flagged"
      BY <1>3, <3>3
    <3> QED BY <2>6, <3>1, <3>2, <3>3
  <2>7. CASE n \in DocumentEvents
    <3>1. CASE n = "document.verification.pending"
      BY <1>3, <3>1
    <3>2. CASE n = "document.verification.rejected"
      BY <1>3, <3>2
    <3>3. CASE n = "document.verification.technical.failure"
      BY <1>3, <3>3
    <3> QED BY <2>7, <3>1, <3>2, <3>3
  <2>8. CASE n = "phone.verification.code"
    BY <1>3, <2>8
  <2>9. CASE n = "welcome.message"
    BY <1>3, <2>9
  <2>10. CASE n = "employee.request"
    BY <1>3, <2>10
  <2>11. CASE n = "invite.employee"
    BY <1>3, <2>11
  <2>12. CASE n = "update.payroll.status"
    BY <1>3, <2>12
  <2>13. CASE n = "otp"
    <3> DEFINE given == PayloadOf("otp", via, to, debit, credit).given
    <3>1. given = {via, "otp", "locale"} /\ TypeOf(n) = "otp" /\ m \in {"email", "sms"}
      BY <2>13
    <3>2. AddressOf("email") = {"email"} /\ AddressOf("sms") = {"phone"}
      OBVIOUS
    <3>3. (m = "email" => via = "email") /\ (m = "sms" => via = "phone")
      BY <1>3, <2>13
    <3> HIDE DEF given, Preferred, AddressOf, Reaches, TypeOf
    <3> QED BY <3>1, <3>2, <3>3 DEF given
  <2>14. CASE n = "wallet.update.verification.code"
    <3> DEFINE given == PayloadOf("wallet.update.verification.code", via, to, debit, credit).given
    <3>1. /\ given = {"nobaUserID", "otp", "walletAddress"}
                       \cup ({"firstName", via, "locale"} \cap to)
          /\ TypeOf(n) = "wallet.update.verification.code" /\ m \in {"email", "sms"}
      BY <2>14
    <3>2. AddressOf("email") = {"email"} /\ AddressOf("sms") = {"phone"}
      OBVIOUS
    <3>3. (m = "email" => via = "email") /\ (m = "sms" => via = "phone" /\ "phone" \in to)
      BY <1>3, <2>14
    <3>4. "email" \in to
      BY <1>3
    <3> HIDE DEF given, Preferred, AddressOf, Reaches, TypeOf
    <3> QED BY <3>1, <3>2, <3>3, <3>4 DEF given
  <2>15. CASE n \in ReminderEvents
    BY <1>3, <2>15
  <2> HIDE DEF Unsaid, Text, Suits, Reaches, IsComplete, TypeOf, Preferred, AddressOf, IsAccepted,
           Printed, ReminderEvents, TransferEvents, AdjustmentEvents, DocumentEvents
  <2> QED
    BY <1>1, <2>1, <2>2, <2>3, <2>4, <2>5, <2>6, <2>7, <2>8,
       <2>9, <2>10, <2>11, <2>12, <2>13, <2>14, <2>15
    DEF Followed, TransferEvents, AdjustmentEvents, DocumentEvents
<1>4. ASSUME IsComplete(debit), IsComplete(credit), Suits(n, via, debit, credit, fee),
             isAddressed, IsNumber(fee, language)
      PROVE  IsAccepted(TypeOf(n), text, fee, language)
  <2>1. CASE n \in {"deposit.completed", "deposit.failed"}
    <3>1. CASE n = "deposit.completed"
      BY <1>4, <3>1
    <3>2. CASE n = "deposit.failed"
      BY <1>4, <3>2
    <3> QED BY <2>1, <3>1, <3>2
  <2>2. CASE n \in {"withdrawal.completed", "withdrawal.failed"}
    <3>1. CASE n = "withdrawal.completed"
      BY <1>4, <3>1
    <3>2. CASE n = "withdrawal.failed"
      BY <1>4, <3>2
    <3> QED BY <2>2, <3>1, <3>2
  <2>3. CASE n \in TransferEvents
    <3>1. CASE n = "transfer.completed"
      BY <1>4, <3>1
    <3>2. CASE n = "transfer.failed"
      BY <1>4, <3>2
    <3>3. CASE n = "transfer.received"
      BY <1>4, <3>3
    <3> QED BY <2>3, <3>1, <3>2, <3>3
  <2>4. CASE n = "payroll.deposit.completed"
    BY <1>4, <2>4
  <2>5. CASE n \in AdjustmentEvents
    <3>1. CASE n = "credit.adjustment.completed"
      BY <1>4, <3>1
    <3>2. CASE n = "credit.adjustment.failed"
      BY <1>4, <3>2
    <3>3. CASE n = "debit.adjustment.completed"
      BY <1>4, <3>3
    <3>4. CASE n = "debit.adjustment.failed"
      BY <1>4, <3>4
    <3> QED BY <2>5, <3>1, <3>2, <3>3, <3>4
  <2>6. CASE n \in {"kyc.approved.us", "kyc.denied", "kyc.pending.or.flagged"}
    <3>1. CASE n = "kyc.approved.us"
      BY <1>4, <3>1
    <3>2. CASE n = "kyc.denied"
      BY <1>4, <3>2
    <3>3. CASE n = "kyc.pending.or.flagged"
      BY <1>4, <3>3
    <3> QED BY <2>6, <3>1, <3>2, <3>3
  <2>7. CASE n \in DocumentEvents
    <3>1. CASE n = "document.verification.pending"
      BY <1>4, <3>1
    <3>2. CASE n = "document.verification.rejected"
      BY <1>4, <3>2
    <3>3. CASE n = "document.verification.technical.failure"
      BY <1>4, <3>3
    <3> QED BY <2>7, <3>1, <3>2, <3>3
  <2>8. CASE n = "phone.verification.code"
    BY <1>4, <2>8
  <2>9. CASE n = "welcome.message"
    BY <1>4, <2>9
  <2>10. CASE n = "employee.request"
    BY <1>4, <2>10
  <2>11. CASE n = "invite.employee"
    BY <1>4, <2>11
  <2>12. CASE n = "update.payroll.status"
    BY <1>4, <2>12
  <2>13. CASE n = "otp"
    BY <1>4, <2>13
  <2>14. CASE n = "wallet.update.verification.code"
    BY <1>4, <2>14
  <2>15. CASE n \in ReminderEvents
    BY <1>4, <2>15
  <2> HIDE DEF Unsaid, Text, Suits, Reaches, IsComplete, TypeOf, Preferred, AddressOf, IsAccepted,
           Printed, ReminderEvents, TransferEvents, AdjustmentEvents, DocumentEvents
  <2> QED
    BY <1>1, <2>1, <2>2, <2>3, <2>4, <2>5, <2>6, <2>7, <2>8,
       <2>9, <2>10, <2>11, <2>12, <2>13, <2>14, <2>15
    DEF Followed, TransferEvents, AdjustmentEvents, DocumentEvents
<1> HIDE DEF Unsaid, Text, Suits, Reaches, IsComplete, TypeOf, Preferred, AddressOf, IsAccepted,
         Printed, ReminderEvents, TransferEvents, AdjustmentEvents, DocumentEvents
<1> QED BY <1>2, <1>3, <1>4

-----------------------------------------------------------------------------
(* One notice *)

\* What is asked for.
AskedNotices ==
    [at : {"read", "mediums", "awaiting", "answered", "nothing", "error"},
     debit : Profiles, credit : Profiles, via : {"email", "phone"},
     fee : {"whole", "cents", "thousands"}]

\* Is there an address for what a handler sends, and was its payload accepted?
MaySend(medium) ==
    /\ medium \in Preferred(name)
    /\ AddressOf(medium) \subseteq NoticePayload.given
    /\ IsAccepted(TypeOf(name), NoticePayload, notice.fee, NoticeLanguage)

\* Their language, when there is a text in it.
Theirs(medium) ==
    IF NoticeLanguage = "es_co" /\ "es" \in TemplateLanguages(name, medium) THEN "es" ELSE "en"

HandlerOK(h) ==
    /\ h = [medium |-> h.medium, template |-> h.template]
    /\ MaySend(h.medium)
    /\ h.template # <<>> => h.medium # "dashboard"
    /\ Flawless /\ h.template # <<>> =>
        /\ h.template[1] = <<h.medium, Theirs(h.medium)>>
        /\ h.medium = "push" /\ seeds > 1 => h.template[2] = TRUE
MessageOK(m) ==
    /\ m.lacks \subseteq Unsaid(name)
    /\ Flawless /\ m.medium = "push" /\ seeds > 1 => m.hasTitle = TRUE

\* Is everything there that a notice needs?
IsWhole ==
    /\ Flawless /\ IsComplete(notice.debit) /\ IsComplete(notice.credit)
    /\ IsNumber(notice.fee, NoticeLanguage)
IsTold(medium) == \E m \in messages : m.medium = medium /\ InTheirLanguage(m)
IsUnderway(medium) == \E h \in listening : h.medium = medium

NoticeInv ==
    /\ SeedInv
    /\ IF notice.at = "idle" THEN TRUE
       ELSE /\ notice \in AskedNotices
            /\ Suits(name, notice.via, notice.debit, notice.credit, notice.fee)
            /\ Flawless => toSeed = <<>> /\ seeds > 0
    /\ notice.at \in {"idle", "read", "mediums"} => listening = {} /\ messages = {}
    /\ \A h \in listening : HandlerOK(h)
    /\ \A m \in messages : MessageOK(m)
    /\ notice.at \notin {"idle", "read", "mediums"} /\ IsWhole =>
        \A medium \in Preferred(name) :
            IsReachable(medium) => IsTold(medium) \/ IsUnderway(medium)

\* The template a locale gets.
LEMMA TemplateChosen ==
    ASSUME NEW languages \in SUBSET {"en", "es"}, "en" \in languages,
           NEW locale \in {"en", "es_co"}
    PROVE  /\ HasTemplate(languages, locale)
           /\ getOrDefaultTemplate(languages, locale) =
                (IF locale = "es_co" /\ "es" \in languages THEN "es" ELSE "en")
<1> DEFINE IsFirst(l) == \E i \in DOMAIN Candidates(locale) :
                            /\ Candidates(locale)[i] = l
                            /\ \A j \in 1..(i - 1) : Candidates(locale)[j] \notin languages
           best == IF locale = "es_co" /\ "es" \in languages THEN "es" ELSE "en"
<1>1. CASE locale = "en"
  <2>1. Candidates(locale) = <<"en">> /\ DOMAIN <<"en">> = {1} /\ <<"en">>[1] = "en"
    BY <1>1 DEF Candidates
  <2>2. \A l \in languages : IsFirst(l) <=> l = "en"
    BY <2>1
  <2> QED BY <1>1, <2>1, <2>2 DEF HasTemplate, getOrDefaultTemplate
<1>2. CASE locale = "es_co"
  <2>1. /\ Candidates(locale) = <<"es_co", "es", "en">>
        /\ DOMAIN <<"es_co", "es", "en">> = {1, 2, 3}
        /\ <<"es_co", "es", "en">>[1] = "es_co" /\ <<"es_co", "es", "en">>[2] = "es"
        /\ <<"es_co", "es", "en">>[3] = "en"
    BY <1>2 DEF Candidates
  <2>2. 1..(1-1) = {} /\ 1..(2-1) = {1} /\ 1..(3-1) = {1, 2}
    OBVIOUS
  <2>3. IsFirst(best)
    <3>1. CASE "es" \in languages
      BY <1>2, <2>1, <2>2, <3>1
    <3>2. CASE "es" \notin languages
      BY <1>2, <2>1, <2>2, <3>2
    <3> QED BY <3>1, <3>2
  <2>4. ASSUME NEW l \in languages, IsFirst(l) PROVE l = best
    BY <1>2, <2>1, <2>2, <2>4
  <2>5. best \in languages /\ HasTemplate(languages, locale)
    BY <2>1 DEF HasTemplate
  <2> HIDE DEF best
  <2>6. (CHOOSE l \in languages : IsFirst(l)) = best
    BY <2>3, <2>4, <2>5
  <2> QED BY <2>5, <2>6 DEF getOrDefaultTemplate, best
<1> QED BY <1>1, <1>2

\* Once everything is deployed a medium with texts has the English one, and its reader
\* gets theirs.
LEMMA TheirText ==
    ASSUME SeedInv, seeds > 0, NEW m \in Preferred(name), m # "dashboard"
    PROVE  /\ HasTemplate(LanguagesOf(m), NoticeLanguage)
           /\ getOrDefaultTemplate(LanguagesOf(m), NoticeLanguage) = Theirs(m)
           /\ <<m, Theirs(m)>> \in Own(name)
<1>1. templates = Own(name)
  BY DEF SeedInv
<1>2. m \in {"email", "sms", "push"}
  BY DEF Preferred
<1>3. "en" \in TemplateLanguages(name, m) /\ TemplateLanguages(name, m) \subseteq {"en", "es"}
  BY <1>2
  DEF TemplateLanguages, emailTemplateExternalLinkMap, smsTemplateStringMap,
      pushEventTemplateStringMap
<1>4. LanguagesOf(m) = TemplateLanguages(name, m)
  <2>1. ASSUME NEW l PROVE l \in LanguagesOf(m) <=> l \in TemplateLanguages(name, m)
    <3>1. l \in LanguagesOf(m) <=> \E t \in Own(name) : t[1] = m /\ l = t[2]
      BY <1>1 DEF LanguagesOf
    <3>2. ASSUME l \in TemplateLanguages(name, m)
          PROVE  \E t \in Own(name) : t[1] = m /\ l = t[2]
      <4>1. <<m, l>> \in {"email", "sms", "push"} \X {"en", "es"}
        BY <1>2, <1>3, <3>2
      <4>2. <<m, l>>[1] = m /\ <<m, l>>[2] = l
        OBVIOUS
      <4>3. <<m, l>> \in Own(name)
        BY <3>2, <4>1, <4>2 DEF Own
      <4> QED BY <4>2, <4>3
    <3>3. ASSUME NEW t \in Own(name), t[1] = m PROVE t[2] \in TemplateLanguages(name, m)
      BY <3>3 DEF Own
    <3> QED BY <3>1, <3>2, <3>3
  <2> QED BY <2>1
<1>5. NoticeLanguage \in {"en", "es_co"}
  BY DEF NoticeLanguage, LanguageOf
<1>6. PICK locale \in {"en", "es_co"} : locale = NoticeLanguage
  BY <1>5
<1>7. PICK languages \in SUBSET {"en", "es"} : languages = LanguagesOf(m)
  BY <1>3, <1>4
<1>8. "en" \in languages
  BY <1>3, <1>4, <1>7
<1>9. HasTemplate(languages, locale) /\ getOrDefaultTemplate(languages, locale) =
                (IF locale = "es_co" /\ "es" \in languages THEN "es" ELSE "en")
  BY <1>8, TemplateChosen
<1>10. <<m, Theirs(m)>> \in Own(name)
  <2>1. Theirs(m) \in TemplateLanguages(name, m)
    BY <1>3 DEF Theirs
  <2>2. <<m, Theirs(m)>> \in {"email", "sms", "push"} \X {"en", "es"}
    BY <1>2, <1>3, <2>1
  <2>3. <<m, Theirs(m)>>[1] = m /\ <<m, Theirs(m)>>[2] = Theirs(m)
    OBVIOUS
  <2> QED BY <2>1, <2>2, <2>3 DEF Own
<1> QED BY <1>4, <1>6, <1>7, <1>9, <1>10 DEF Theirs

\* What is asked for stays as it was.
Stays ==
    /\ name' = name /\ world' = world /\ (Flawless => seeds' = seeds)
    /\ notice'.debit = notice.debit /\ notice'.credit = notice.credit
    /\ notice'.via = notice.via /\ notice'.fee = notice.fee

LEMMA SameText ==
    ASSUME Stays
    PROVE  /\ Recipient' = Recipient /\ NoticePayload' = NoticePayload
           /\ NoticeLanguage' = NoticeLanguage /\ (Flawless' <=> Flawless)
           /\ IsWhole' <=> IsWhole
           /\ \A medium : /\ MaySend(medium)' <=> MaySend(medium)
                          /\ Theirs(medium)' = Theirs(medium)
                          /\ IsReachable(medium)' <=> IsReachable(medium)
<1>1. Recipient' = Recipient
  BY DEF Stays, Recipient
<1>2. NoticePayload' = NoticePayload
  BY <1>1 DEF Stays, NoticePayload
<1>3. NoticeLanguage' = NoticeLanguage
  BY <1>1 DEF Stays, NoticeLanguage
<1>4. Flawless' <=> Flawless
  BY DEF Stays, Flawless
<1>5. IsWhole' <=> IsWhole
  BY <1>3, <1>4 DEF Stays, IsWhole
<1>6. ASSUME NEW medium
      PROVE  /\ MaySend(medium)' <=> MaySend(medium)
             /\ Theirs(medium)' = Theirs(medium)
             /\ IsReachable(medium)' <=> IsReachable(medium)
  BY <1>1, <1>2, <1>3 DEF Stays, MaySend, Theirs, IsReachable
<1> QED BY <1>1, <1>2, <1>3, <1>4, <1>5, <1>6

LEMMA SameHandlers ==
    ASSUME Stays
    PROVE  /\ \A h : HandlerOK(h) => HandlerOK(h)'
           /\ \A m : MessageOK(m) => MessageOK(m)'
           /\ \A m : InTheirLanguage(m)' <=> InTheirLanguage(m)
<1>1. ASSUME NEW h, HandlerOK(h) PROVE HandlerOK(h)'
  BY <1>1, SameText DEF Stays, HandlerOK
<1>2. ASSUME NEW m, MessageOK(m) PROVE MessageOK(m)'
  BY <1>2, SameText DEF Stays, MessageOK
<1>3. ASSUME NEW m PROVE InTheirLanguage(m)' <=> InTheirLanguage(m)
  BY SameText DEF Stays, InTheirLanguage
<1> QED BY <1>1, <1>2, <1>3

\* A call moves on.
LEMMA MovesOn ==
    ASSUME NoticeInv, notice.at # "idle", world' = world, UNCHANGED seedVars,
           NEW at \in {"read", "mediums", "awaiting", "answered", "nothing", "error"},
           Step(at) \/ (at = notice.at /\ UNCHANGED notice)
    PROVE  /\ Stays /\ notice'.at = at /\ notice' \in AskedNotices
           /\ Suits(name', notice'.via, notice'.debit, notice'.credit, notice'.fee)
           /\ Flawless' => toSeed' = <<>> /\ seeds' > 0
<1>1. notice \in AskedNotices /\ Suits(name, notice.via, notice.debit, notice.credit, notice.fee)
      /\ (Flawless => toSeed = <<>> /\ seeds > 0)
  BY DEF NoticeInv
<1>2. name' = name /\ toSeed' = toSeed /\ seeds' = seeds
  BY DEF seedVars
<1>3. /\ notice' \in AskedNotices /\ notice'.at = at
      /\ notice'.debit = notice.debit /\ notice'.credit = notice.credit
      /\ notice'.via = notice.via /\ notice'.fee = notice.fee
  BY <1>1 DEF AskedNotices, Step
<1> QED BY <1>1, <1>2, <1>3 DEF Stays, Flawless

LEMMA SeedingKeeps ==
    ASSUME NoticeInv, StartSeeding \/ SeedTemplate, world' = world
    PROVE  NoticeInv'
<1>1. SeedInv'
  <2>1. [NoticeNext]_postVars
    BY DEF NoticeNext
  <2> QED BY <2>1, SeedStep DEF NoticeInv
<1>2. UNCHANGED deliveryVars /\ name' = name
  BY DEF StartSeeding, SeedTemplate
<1>3. UNCHANGED <<notice, listening, messages>>
  BY <1>2 DEF deliveryVars
<1>4. notice.at = "idle" \/ ~Flawless
  BY DEF StartSeeding, SeedTemplate, NoticeInv
<1>5. CASE notice.at = "idle"
  BY <1>1, <1>3, <1>5 DEF NoticeInv
<1>6. CASE notice.at # "idle" /\ ~Flawless
  <2>1. Stays
    BY <1>2, <1>3, <1>6 DEF Stays
  <2>2. ~Flawless' /\ ~IsWhole'
    BY <1>6, <2>1, SameText DEF IsWhole
  <2>3. (\A h \in listening' : HandlerOK(h)') /\ (\A m \in messages' : MessageOK(m)')
    BY <1>3, <2>1, SameHandlers DEF NoticeInv
  <2> QED BY <1>1, <1>2, <1>3, <1>6, <2>2, <2>3 DEF NoticeInv
<1> QED BY <1>4, <1>5, <1>6

LEMMA AskKeeps ==
    ASSUME NoticeInv, Ask, world' = world
    PROVE  NoticeInv'
<1>1. SeedInv'
  <2>1. [NoticeNext]_postVars
    BY DEF NoticeNext
  <2> QED BY <2>1, SeedStep DEF NoticeInv
<1>2. PICK debit \in Profiles, credit \in Profiles, via \in {"email", "phone"},
           fee \in {"whole", "cents", "thousands"} :
        /\ Suits(name, via, debit, credit, fee)
        /\ notice' = [at |-> "read", debit |-> debit, credit |-> credit, via |-> via, fee |-> fee]
  BY DEF Ask, Suits
<1>3. /\ notice' \in AskedNotices /\ notice'.at = "read"
      /\ Suits(name', notice'.via, notice'.debit, notice'.credit, notice'.fee)
  BY <1>2 DEF AskedNotices, Ask, seedVars
<1>4. listening' = {} /\ messages' = {}
  BY DEF Ask, NoticeInv
<1>5. Flawless' => toSeed' = <<>> /\ seeds' > 0
  BY DEF Ask, seedVars, Flawless
<1> QED BY <1>1, <1>3, <1>4, <1>5 DEF NoticeInv

LEMMA ReadConsumersKeeps ==
    ASSUME NoticeInv, ReadConsumers, world' = world
    PROVE  NoticeInv'
<1>1. SeedInv'
  <2>1. [NoticeNext]_postVars
    BY DEF NoticeNext
  <2> QED BY <2>1, SeedStep DEF NoticeInv
<1>2. PICK at \in {"mediums", "error"} : Step(at) /\ (at = "error" => MayFail)
  BY DEF ReadConsumers
<1>3. /\ Stays /\ notice'.at = at /\ notice' \in AskedNotices
      /\ Suits(name', notice'.via, notice'.debit, notice'.credit, notice'.fee)
      /\ Flawless' => toSeed' = <<>> /\ seeds' > 0
  BY <1>2, MovesOn DEF ReadConsumers
<1>4. listening' = {} /\ messages' = {}
  BY DEF ReadConsumers, NoticeInv
<1>5. at = "error" => ~IsWhole'
  BY <1>2, <1>3, SameText DEF MayFail, IsWhole
<1> QED BY <1>1, <1>2, <1>3, <1>4, <1>5 DEF NoticeInv

LEMMA Underway ==
    ASSUME NoticeInv, [NoticeNext]_postVars, UNCHANGED seedVars, world' = world,
           notice.at \notin {"idle"},
           NEW at \in {"awaiting", "answered", "nothing", "error"},
           Step(at) \/ (at = notice.at /\ UNCHANGED notice),
           \A h \in listening' : h \in listening \/ HandlerOK(h),
           \A m \in messages' : m \in messages \/ MessageOK(m),
           IsWhole => \A medium \in Preferred(name) : IsReachable(medium) =>
                \/ \E m \in messages' : m.medium = medium /\ InTheirLanguage(m)
                \/ \E h \in listening' : h.medium = medium
    PROVE  NoticeInv'
<1>1. SeedInv'
  BY SeedStep DEF NoticeInv
<1>2. /\ Stays /\ notice'.at = at /\ notice' \in AskedNotices
      /\ Suits(name', notice'.via, notice'.debit, notice'.credit, notice'.fee)
      /\ Flawless' => toSeed' = <<>> /\ seeds' > 0
  BY MovesOn
<1>3. \A h \in listening' : HandlerOK(h)'
  <2>1. \A h \in listening' : HandlerOK(h)
    BY DEF NoticeInv
  <2> QED BY <1>2, <2>1, SameHandlers
<1>4. \A m \in messages' : MessageOK(m)'
  <2>1. \A m \in messages' : MessageOK(m)
    BY DEF NoticeInv
  <2> QED BY <1>2, <2>1, SameHandlers
<1>5. ASSUME IsWhole', NEW medium \in Preferred(name'), IsReachable(medium)'
      PROVE  IsTold(medium)' \/ IsUnderway(medium)'
  <2>1. IsWhole /\ medium \in Preferred(name) /\ IsReachable(medium)
    BY <1>2, <1>5, SameText DEF Stays
  <2>2. \/ \E m \in messages' : m.medium = medium /\ InTheirLanguage(m)
        \/ \E h \in listening' : h.medium = medium
    BY <2>1
  <2>3. \A m : InTheirLanguage(m) <=> InTheirLanguage(m)'
    BY <1>2, SameHandlers
  <2> QED BY <2>2, <2>3 DEF IsTold, IsUnderway
<1> QED BY <1>1, <1>2, <1>3, <1>4, <1>5 DEF NoticeInv

LEMMA RecipientIsOneOfThem == Recipient \in {notice.debit, notice.credit}
BY DEF Recipient

LEMMA SendKeeps ==
    ASSUME NoticeInv, SendNotification, world' = world
    PROVE  NoticeInv'
<1> DEFINE mediums == IF handlers = <<>> THEN {}
                      ELSE getNotificationMedium(handlers[1], NoticePayload)
           accepted == IsAccepted(TypeOf(name), NoticePayload, notice.fee, NoticeLanguage)
<1>1. /\ [NoticeNext]_postVars /\ UNCHANGED seedVars /\ notice.at = "mediums"
      /\ messages' = messages /\ listening = {}
  BY DEF NoticeNext, SendNotification, NoticeInv
<1>2. handlers # <<>> => handlers[1] = Preferred(name)
  <2>1. handlers \in {<<>>, <<Preferred(name)>>}
    BY DEF NoticeInv, SeedInv
  <2>2. <<Preferred(name)>>[1] = Preferred(name)
    OBVIOUS
  <2> QED BY <2>1, <2>2
<1>3. \A m : m \in mediums <=>
        /\ handlers # <<>> /\ m \in Preferred(name)
        /\ AddressOf(m) \subseteq NoticePayload.given
  BY <1>2 DEF getNotificationMedium
<1>4. NoticePayload = Text(name, notice.via, Recipient, notice.debit, notice.credit)
  BY DEF NoticePayload, Text
<1>5. IsWhole => handlers # <<>>
  BY <1>1 DEF NoticeInv, SeedInv, IsWhole
<1>6. ASSUME IsWhole, NEW medium \in Preferred(name), IsReachable(medium)
      PROVE  medium \in mediums /\ accepted
  <2>1. /\ IsComplete(notice.debit) /\ IsComplete(notice.credit)
        /\ Suits(name, notice.via, notice.debit, notice.credit, notice.fee)
        /\ IsNumber(notice.fee, NoticeLanguage) /\ name \in Names
    BY <1>1, <1>6 DEF NoticeInv, SeedInv, IsWhole
  <2>2. Reaches(name, notice.via, Recipient, medium)
    BY <1>6 DEF IsReachable, Reaches
  <2>3. PICK debit, credit, via, fee, language, to :
          /\ debit = notice.debit /\ credit = notice.credit /\ via = notice.via
          /\ fee = notice.fee /\ language = NoticeLanguage /\ to = Recipient
    OBVIOUS
  <2>4. to \in {debit, credit}
    BY <2>3, RecipientIsOneOfThem
  <2>5. AddressOf(medium) \subseteq Text(name, via, to, debit, credit).given
    BY <2>1, <2>2, <2>3, <2>4, TablesAgree
  <2>6. IsAccepted(TypeOf(name), Text(name, via, to, debit, credit), fee, language)
    BY <2>1, <2>3, <2>4, <2>5, TablesAgree
  <2> QED BY <1>3, <1>4, <1>5, <1>6, <2>3, <2>5, <2>6
<1> HIDE DEF mediums, accepted
<1>7. CASE handlers # <<>> /\ mediums = {} /\ Step("nothing") /\ UNCHANGED listening
  <2>1. IsWhole => \A medium \in Preferred(name) : ~IsReachable(medium)
    BY <1>6, <1>7
  <2> QED BY <1>1, <1>7, <2>1, Underway
<1>8. CASE /\ mediums # {} /\ accepted
           /\ listening' = {[medium |-> m, template |-> <<>>] : m \in mediums}
           /\ Step(IF TypeOf(name) = "scheduled.reminder" THEN "awaiting" ELSE "answered")
  <2>1. PICK at \in {"awaiting", "answered"} : Step(at)
    BY <1>8
  <2>2. \A h \in listening' : HandlerOK(h)
    <3>1. SUFFICES ASSUME NEW m \in mediums PROVE HandlerOK([medium |-> m, template |-> <<>>])
      BY <1>8
    <3> DEFINE h == [medium |-> m, template |-> <<>>]
    <3>2. h.medium = m /\ h.template = <<>> /\ h = [medium |-> h.medium, template |-> h.template]
      OBVIOUS
    <3>3. MaySend(m)
      BY <1>3, <1>8 DEF MaySend, accepted
    <3> QED BY <3>2, <3>3 DEF HandlerOK
  <2>3. ASSUME NEW m \in mediums PROVE \E h \in listening' : h.medium = m
    <3>1. [medium |-> m, template |-> <<>>] \in listening'
      BY <1>8
    <3> QED BY <3>1
  <2> QED BY <1>1, <1>6, <2>1, <2>2, <2>3, Underway
<1>9. CASE /\ handlers = <<>> \/ (mediums # {} /\ ~accepted) \/ MayFail
           /\ Step("error") /\ UNCHANGED listening
  <2>1. IsWhole => \A medium \in Preferred(name) : ~IsReachable(medium)
    BY <1>5, <1>6, <1>9 DEF MayFail, IsWhole
  <2> QED BY <1>1, <1>9, <2>1, Underway
<1> QED BY <1>7, <1>8, <1>9 DEF SendNotification, mediums, accepted

\* The handlers run only once a notice has been sent.
LEMMA SentBefore ==
    ASSUME NoticeInv, NEW h \in listening
    PROVE  notice.at \in {"awaiting", "answered", "nothing", "error"}
BY DEF NoticeInv, AskedNotices

\* A handler that is done leaves the others as they were.
LEMMA DoneKeeps ==
    ASSUME NoticeInv, [NoticeNext]_postVars, UNCHANGED seedVars, world' = world,
           NEW h \in listening, Gone(h),
           NEW at \in {"awaiting", "answered", "nothing", "error"},
           Step(at) \/ (at = notice.at /\ UNCHANGED notice),
           messages \subseteq messages', \A m \in messages' : m \in messages \/ MessageOK(m),
           IsWhole /\ IsReachable(h.medium) =>
                \E m \in messages' : m.medium = h.medium /\ InTheirLanguage(m)
    PROVE  NoticeInv'
<1>1. notice.at \notin {"idle", "read", "mediums"}
  BY SentBefore
<1>2. listening' = listening \ {h}
  BY DEF Gone
<1>3. ASSUME IsWhole, NEW medium \in Preferred(name), IsReachable(medium)
      PROVE  \/ \E m \in messages' : m.medium = medium /\ InTheirLanguage(m)
             \/ \E g \in listening' : g.medium = medium
  <2>1. IsTold(medium) \/ IsUnderway(medium)
    BY <1>1, <1>3 DEF NoticeInv
  <2>2. CASE IsTold(medium)
    BY <2>2 DEF IsTold
  <2>3. CASE IsUnderway(medium)
    BY <1>2, <1>3, <2>3 DEF IsUnderway
  <2> QED BY <2>1, <2>2, <2>3
<1> QED BY <1>1, <1>2, <1>3, Underway

LEMMA UnheardKeeps ==
    ASSUME NoticeInv, [NoticeNext]_postVars, UNCHANGED seedVars, world' = world,
           NEW h \in listening, Unheard(h), ~(IsWhole /\ IsReachable(h.medium))
    PROVE  NoticeInv'
<1>1. Gone(h) /\ messages' = messages
  BY DEF Unheard
<1>2. PICK at \in {"awaiting", "answered", "nothing", "error"} :
        Step(at) \/ (at = notice.at /\ UNCHANGED notice)
  BY SentBefore DEF Unheard
<1> QED BY <1>1, <1>2, DoneKeeps

LEMMA ChooseKeeps ==
    ASSUME NoticeInv, NEW h \in listening, ChooseTemplate(h), world' = world
    PROVE  NoticeInv'
<1> DEFINE t == <<h.medium, getOrDefaultTemplate(LanguagesOf(h.medium), NoticeLanguage)>>
           found == HasTemplate(LanguagesOf(h.medium), NoticeLanguage)
<1>1. [NoticeNext]_postVars /\ UNCHANGED seedVars /\ HandlerOK(h) /\ h.medium # "dashboard"
  BY DEF NoticeNext, ChooseTemplate, NoticeInv
<1>2. notice.at \in {"awaiting", "answered", "nothing", "error"}
  BY SentBefore
<1>3. Flawless => found /\ t = <<h.medium, Theirs(h.medium)>> /\ t \in Own(name)
  <2>1. SeedInv /\ (Flawless => seeds > 0) /\ h.medium \in Preferred(name)
    BY <1>1, <1>2 DEF NoticeInv, HandlerOK, MaySend
  <2> QED BY <1>1, <2>1, TheirText
<1>4. CASE /\ listening' = (listening \ {h}) \cup {[h EXCEPT !.template = <<t, t \in titled>>]}
           /\ UNCHANGED <<notice, messages>>
  <2>1. PICK b : b = (t \in titled)
    OBVIOUS
  <2>2. PICK g : g = [medium |-> h.medium, template |-> <<t, b>>]
    OBVIOUS
  <2>3. g = [h EXCEPT !.template = <<t, t \in titled>>]
    BY <1>1, <2>1, <2>2 DEF HandlerOK
  <2>4. /\ g.medium = h.medium /\ g.template = <<t, b>> /\ <<t, b>> # <<>>
        /\ <<t, b>>[1] = t /\ <<t, b>>[2] = b
    BY <2>2
  <2>5. ASSUME Flawless, h.medium = "push", seeds > 1 PROVE b = TRUE
    <3>1. t[1] = "push" /\ t \in Own(name)
      BY <1>3, <2>5
    <3>2. t \in titled
      BY <2>5, <3>1 DEF NoticeInv, SeedInv
    <3> QED BY <2>1, <3>2
  <2> HIDE DEF t
  <2>6. HandlerOK(g)
    BY <1>1, <1>3, <2>2, <2>4, <2>5 DEF HandlerOK
  <2>7. listening' = (listening \ {h}) \cup {g}
    BY <1>4, <2>3
  <2>8. ASSUME IsWhole, NEW medium \in Preferred(name), IsReachable(medium)
        PROVE  \/ \E m \in messages' : m.medium = medium /\ InTheirLanguage(m)
               \/ \E k \in listening' : k.medium = medium
    <3>1. IsTold(medium) \/ IsUnderway(medium)
      BY <1>2, <2>8 DEF NoticeInv
    <3> QED BY <1>4, <2>4, <2>7, <3>1 DEF IsTold, IsUnderway
  <2> QED BY <1>1, <1>2, <1>4, <2>6, <2>7, <2>8, Underway
<1>5. CASE NoTokens(h)
  <2>1. IsWhole => ~IsReachable(h.medium)
    BY <1>5 DEF NoTokens, MayFail, IsWhole, IsReachable
  <2> QED BY <1>1, <1>5, <2>1, UnheardKeeps DEF NoTokens
<1>6. CASE ~found /\ Unheard(h)
  BY <1>1, <1>3, <1>6, UnheardKeeps DEF IsWhole
<1>7. CASE MayFail /\ Unheard(h)
  BY <1>1, <1>7, UnheardKeeps DEF IsWhole, MayFail
<1> QED BY <1>4, <1>5, <1>6, <1>7 DEF ChooseTemplate

LEMMA DeliverKeeps ==
    ASSUME NoticeInv, NEW h \in listening, Deliver(h), world' = world
    PROVE  NoticeInv'
<1>1. /\ [NoticeNext]_postVars /\ UNCHANGED seedVars /\ HandlerOK(h)
      /\ h.template # <<>> \/ h.medium = "dashboard"
  BY DEF NoticeNext, Deliver, NoticeInv
<1>2. notice.at \in {"awaiting", "answered", "nothing", "error"}
  BY SentBefore
<1>3. CASE /\ messages' = messages \cup {Message(h)} /\ Gone(h)
           /\ IF notice.at = "awaiting" THEN Step("answered") ELSE UNCHANGED notice
  <2>1. PICK m : m = Message(h)
    OBVIOUS
  <2>2. /\ m.medium = h.medium
        /\ m.lacks = Printed(h.medium, TypeOf(name)) \ NoticePayload.given
        /\ h.medium # "dashboard" => m.language = h.template[1][2]
        /\ h.medium = "push" /\ h.template[2] = TRUE => m.hasTitle = TRUE
    BY <2>1 DEF Message
  <2>3. m.lacks \subseteq Unsaid(name)
    <3>1. PICK debit, credit, via, fee, language, to :
            /\ debit = notice.debit /\ credit = notice.credit /\ via = notice.via
            /\ fee = notice.fee /\ language = NoticeLanguage /\ to = Recipient
      OBVIOUS
    <3>2. NoticePayload = Text(name, via, to, debit, credit)
      BY <3>1 DEF NoticePayload, Text
    <3>3. name \in Names /\ h.medium \in Preferred(name) /\ to \in {debit, credit}
      BY <1>1, <3>1, RecipientIsOneOfThem DEF NoticeInv, SeedInv, HandlerOK, MaySend
    <3>4. /\ AddressOf(h.medium) \subseteq Text(name, via, to, debit, credit).given
          /\ IsAccepted(TypeOf(name), Text(name, via, to, debit, credit), fee, language)
      BY <1>1, <3>1, <3>2 DEF HandlerOK, MaySend
    <3>5. Printed(h.medium, TypeOf(name)) \ Text(name, via, to, debit, credit).given
            \subseteq Unsaid(name)
      BY <3>3, <3>4, TablesAgree
    <3> QED BY <2>2, <3>2, <3>5
  <2>4. MessageOK(m)
    BY <1>1, <2>2, <2>3 DEF MessageOK, HandlerOK
  <2>5. Flawless => InTheirLanguage(m)
    BY <1>1, <2>2 DEF InTheirLanguage, Theirs, HandlerOK
  <2>6. messages' = messages \cup {m} /\ Gone(h)
    BY <1>3, <2>1
  <2>7. PICK at \in {"awaiting", "answered", "nothing", "error"} :
          Step(at) \/ (at = notice.at /\ UNCHANGED notice)
    BY <1>2, <1>3
  <2> QED BY <1>1, <2>2, <2>4, <2>5, <2>6, <2>7, DoneKeeps DEF IsWhole
<1>4. CASE MayFail /\ Unheard(h)
  BY <1>1, <1>4, UnheardKeeps DEF IsWhole, MayFail
<1>5. CASE /\ MayFail /\ Gone(h) /\ UNCHANGED messages
           /\ IF notice.at = "awaiting" THEN Step("answered") ELSE UNCHANGED notice
  <2>1. PICK at \in {"awaiting", "answered", "nothing", "error"} :
          Step(at) \/ (at = notice.at /\ UNCHANGED notice)
    BY <1>2, <1>5
  <2> QED BY <1>1, <1>5, <2>1, DoneKeeps DEF IsWhole, MayFail
<1> QED BY <1>3, <1>4, <1>5 DEF Deliver

LEMMA NoticeInitOK == NoticeInit => NoticeInv
<1> SUFFICES ASSUME NoticeInit PROVE NoticeInv
  OBVIOUS
<1>1. <<>> \in Seq(Own(name))
  OBVIOUS
<1>2. SeedInv
  BY <1>1 DEF NoticeInit, SeedInv
<1>3. notice.at = "idle" /\ listening = {} /\ messages = {}
  BY DEF NoticeInit
<1> QED BY <1>2, <1>3 DEF NoticeInv

LEMMA NoticeNextOK == NoticeInv /\ [NoticeNext]_postVars => NoticeInv'
<1> SUFFICES ASSUME NoticeInv, [NoticeNext]_postVars PROVE NoticeInv'
  OBVIOUS
<1>1. CASE StartSeeding /\ world' = world
  BY <1>1, SeedingKeeps
<1>2. CASE SeedTemplate /\ world' = world
  BY <1>2, SeedingKeeps
<1>3. CASE Ask /\ world' = world
  BY <1>3, AskKeeps
<1>4. CASE ReadConsumers /\ world' = world
  BY <1>4, ReadConsumersKeeps
<1>5. CASE SendNotification /\ world' = world
  BY <1>5, SendKeeps
<1>6. CASE world' = world /\ \E h \in listening : ChooseTemplate(h) \/ Deliver(h)
  BY <1>6, ChooseKeeps, DeliverKeeps
<1>7. CASE UNCHANGED postVars
  <2>1. UNCHANGED <<name, handlers, templates, titled, toSeed, seeds>>
        /\ UNCHANGED <<notice, listening, messages>> /\ world' = world
    BY <1>7 DEF postVars, seedVars, deliveryVars
  <2>2. SeedInv'
    BY <2>1 DEF NoticeInv, SeedInv
  <2>3. Stays
    BY <2>1 DEF Stays
  <2>4. /\ \A h \in listening' : HandlerOK(h)'
        /\ \A m \in messages' : MessageOK(m)'
    BY <2>1, <2>3, SameHandlers DEF NoticeInv
  <2>5. ASSUME notice'.at \notin {"idle", "read", "mediums"}, IsWhole',
               NEW medium \in Preferred(name'), IsReachable(medium)'
        PROVE  IsTold(medium)' \/ IsUnderway(medium)'
    <3>1. IsWhole /\ medium \in Preferred(name) /\ IsReachable(medium)
      BY <2>1, <2>3, <2>5, SameText
    <3>2. IsTold(medium) \/ IsUnderway(medium)
      BY <2>1, <2>5, <3>1 DEF NoticeInv
    <3>3. \A m : InTheirLanguage(m) <=> InTheirLanguage(m)'
      BY <2>3, SameHandlers
    <3> QED BY <2>1, <3>2, <3>3 DEF IsTold, IsUnderway
  <2>6. notice'.at # "idle" =>
            /\ notice' \in AskedNotices
            /\ Suits(name', notice'.via, notice'.debit, notice'.credit, notice'.fee)
            /\ Flawless' => toSeed' = <<>> /\ seeds' > 0
    BY <2>1 DEF NoticeInv, Flawless
  <2>7. notice'.at \in {"idle", "read", "mediums"} => listening' = {} /\ messages' = {}
    BY <2>1 DEF NoticeInv
  <2> QED BY <2>2, <2>4, <2>5, <2>6, <2>7 DEF NoticeInv
<1> QED BY <1>1, <1>2, <1>3, <1>4, <1>5, <1>6, <1>7 DEF NoticeNext

\* Whatever the row of a consumer lacks, no text is sent with a gap in it: for every
\* event, what the validator lets through is all that the handlers of its mediums print,
\* but for the last name in the credit adjustment's email.  And when nothing fails, a
\* push has its title from the second deployment on.
THEOREM NoticesHaveNoGaps == NoticeSpec => []MessagesAreComplete
<1>1. NoticeInv => MessagesAreComplete
  <2> SUFFICES ASSUME NoticeInv, NEW m \in messages
               PROVE  /\ m.lacks \subseteq Unsaid(name)
                      /\ Flawless /\ m.medium = "push" /\ seeds >= 2 => m.hasTitle
    BY DEF MessagesAreComplete, Unsaid
  <2>1. MessageOK(m)
    BY DEF NoticeInv
  <2>2. seeds >= 2 => seeds > 1
    BY DEF NoticeInv, SeedInv
  <2> QED BY <2>1, <2>2 DEF MessageOK
<1> QED BY <1>1, NoticeInitOK, NoticeNextOK, PTL DEF NoticeSpec

\* When everything is deployed and nothing fails, consumers whose rows are complete are
\* told of each event whose fee can be read by every medium that reaches them, and in
\* their language, but for requests to employers, which say so and do not.
THEOREM CompleteRowsAreTold == NoticeSpec => []NoticesArrive
<1>1. NoticeInv => NoticesArrive
  <2> SUFFICES ASSUME NoticeInv, Flawless, listening = {},
                      notice.at \notin {"idle", "read", "mediums", "awaiting"},
                      IsComplete(notice.debit), IsComplete(notice.credit),
                      IsNumber(notice.fee, NoticeLanguage),
                      NEW medium \in Preferred(name), IsReachable(medium)
               PROVE  \E m \in messages : m.medium = medium /\ InTheirLanguage(m)
    BY DEF NoticesArrive
  <2>1. IsTold(medium) \/ IsUnderway(medium)
    BY DEF NoticeInv, IsWhole
  <2> QED BY <2>1 DEF IsTold, IsUnderway
<1> QED BY <1>1, NoticeInitOK, NoticeNextOK, PTL DEF NoticeSpec
=============================================================================
