--------------------------- MODULE MCCircleWallets --------------------------
(***************************************************************************)
(* A small instance of CircleWallets for TLC: one consumer's debit and     *)
(* status checks of it.                                                    *)
(***************************************************************************)
EXTENDS CircleWallets, TLC

CONSTANTS alice, master, k1, c1, c2

MCInitialBalance == (alice :> 3) @@ (master :> 101)

Ask(kind, frac) ==
    [kind |-> kind, key |-> k1, src |-> alice, dst |-> master, amt |-> 2, frac |-> frac]

\* A debit of two cents, and one of a little more than that.
Checked == {Ask("debit", 0), Ask("check", 0)}
CheckedToTheTenth == {Ask("debit", 3), Ask("check", 3)}

OneWorld == {{}}
=============================================================================
