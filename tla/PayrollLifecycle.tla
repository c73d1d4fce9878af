-------------------------- MODULE PayrollLifecycle --------------------------
(***************************************************************************)
(* What updatePayroll makes of a payroll's status: it moves along these    *)
(* edges only, one at a time.  They are the edges isStatusTransitionAllowed *)
(* takes, two of them against the comments beside it, set apart below.     *)
(***************************************************************************)
CONSTANT Payrolls

VARIABLE status     \* [Payrolls -> Statuses]; "none" before the payroll exists

Statuses == {"none", "CREATED", "PREPARED", "INVOICED", "INVESTIGATION", "FUNDED",
             "IN_PROGRESS", "RECEIPT", "COMPLETED", "EXPIRED"}

\* The regular course, from the request to the last deposit.
Course == {<<"none", "CREATED">>, <<"CREATED", "PREPARED">>, <<"PREPARED", "INVOICED">>,
           <<"INVOICED", "FUNDED">>, <<"FUNDED", "IN_PROGRESS">>,
           <<"IN_PROGRESS", "RECEIPT">>}

\* Nobody paid, or something is to be looked into.
Detours == {<<"CREATED", "EXPIRED">>, <<"INVOICED", "EXPIRED">>,
            <<"INVESTIGATION", "EXPIRED">>, <<"INVOICED", "INVESTIGATION">>,
            <<"FUNDED", "INVESTIGATION">>}

\* The employer's money may arrive at any time before it is paid out.
LateMoney == {"CREATED", "PREPARED", "INVESTIGATION"} \X {"FUNDED"}

\* "We will only disallow status updates from IN_PROGRESS, COMPLETED and EXPIRED": of
\* these three the code lets EXPIRED pass.  "For completed we allow status updates from
\* IN_PROGRESS": the code takes RECEIPT, which came between the two, instead.
AgainstTheComments == {<<"EXPIRED", "FUNDED">>, <<"RECEIPT", "COMPLETED">>}

Edges == Course \cup Detours \cup LateMoney \cup AgainstTheComments

Init == status = [p \in Payrolls |-> "none"]

Advance(p) ==
    \E edge \in Edges :
        /\ edge[1] = status[p]
        /\ status' = [status EXCEPT ![p] = edge[2]]

Next == \E p \in Payrolls : Advance(p)

Spec == Init /\ [][Next]_status
=============================================================================
