------------------------------- MODULE People --------------------------------
(***************************************************************************)
(* Whom the server's rows are about, and who calls it: what the parts that *)
(* keep consumers, employees and administrators have in common.            *)
(***************************************************************************)
EXTENDS Circumstances

CONSTANTS
    Calls,          \* identities of the calls made to the server
    Consumers,      \* consumers at the start
    Emails,
    Nothing,        \* no value
    NoRow           \* no row in a table
=============================================================================
