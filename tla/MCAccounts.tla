----------------------------- MODULE MCAccounts -----------------------------
(***************************************************************************)
(* Small instances of Accounts for TLC, two worlds in one run: two calls   *)
(* that overlap, with every fault; and three calls one after the other, in *)
(* a world where nothing fails.  Beside them, requests for cards in three  *)
(* circumstances: emails stay, or move, or calls follow each other.        *)
(***************************************************************************)
EXTENDS Accounts, CardIssuing, TLC

CONSTANTS c1, c2, c3, e1, e2, e3, alice, bob, mail1, mail2, mail3, tel1, tel2

\* alice is to send a document; bob signed up with his phone.
MCRows ==
    (alice :> [NewRow EXCEPT !.email = mail1, !.phone = tel1,
                             !.kyc = "APPROVED", !.document = "REQUIRED"])
    @@ (bob :> [NewRow EXCEPT !.phone = tel2])

\* mail2 is nobody's; it and alice's and bob's phones have been sent a code.
MCCodes == (mail1 :> Nothing) @@ (mail3 :> Nothing) @@ (mail2 :> e1) @@ (tel1 :> e2) @@ (tel2 :> e3)
MCTokens == (e1 :> alice) @@ (e2 :> Nothing) @@ (e3 :> bob)
\* A wallet of alice's that she is to confirm.
MCWallets == (e1 :> "none") @@ (e2 :> "PENDING") @@ (e3 :> "none")

SignUp == {[kind |-> "login", contact |-> mail2, autoCreate |-> TRUE],
           [kind |-> "login", contact |-> tel1, autoCreate |-> FALSE]}
           \cup [kind : {"verifyOtp"}, contact : {mail2}, code : {e1, c1}]
           \cup [kind : {"verifyOtp"}, contact : {tel1}, code : {e2, c1}]
Refresh == [kind : {"refresh"}, token : {e1, c1, c2}]
Changes == [kind : {"requestCode"}, as : {bob}, contact : {mail2}]
           \cup [kind : {"change"}, as : {alice, bob}, contact : {mail2}, code : {e1, c1}]
OfWallets == [kind : {"addWallet"}, as : {alice}, contact : {tel1}]
             \cup [kind : {"confirmWallet"}, as : {alice}, contact : {tel1}, code : {e2, c1},
                   wallet : {e2, c1}]
             \cup [kind : {"removeWallet"}, as : {alice}, wallet : {e2, c1}]
Checks == [kind : {"verify", "screen", "submit"}, of : {alice}] \cup [kind : {"verify"}, of : {bob}]
          \cup [kind : {"case"}, of : {alice}, result : Decisions]
          \cup [kind : {"document"}, of : {alice}, result : {"PENDING", "REJECTED"}]
          \cup [kind : {"poll"}, of : {alice}, result : {"APPROVED", "PENDING"}]
          \cup [kind : {"edit"}, of : {alice},
                props : {[isLocked |-> TRUE], [isDisabled |-> TRUE], [document |-> "LIVE_PHOTO_VERIFIED"],
                         [kyc |-> "REJECTED"]}]
AnyRequest == SignUp \cup Refresh \cup Changes \cup OfWallets \cup Checks

-----------------------------------------------------------------------------
(* Cards: bob was known to Pomelo before *)

MCCardEmails == (alice :> mail1) @@ (bob :> mail2)
MCEarlierUser == e1 :> [of |-> bob, email |-> mail2]
ASSUME MCEmails == EmailsAreOwn

-----------------------------------------------------------------------------
\* Accounts and cards share no rows here; a behaviour is one of either.
MCWorlds ==
    {{"accounts", "faulty"}, {"accounts", "serial"},
     {"cards", "faulty"}, {"cards", "faulty", "moving"}, {"cards", "faulty", "serial"},
     {"cards", "faulty", "serial", "blocking"}}

MCInit == AccountsInit /\ CardsInit /\ ("cards" \in world \/ identified = {})

\* The slots of calls are alike: they are taken in this order.  The third is used
\* when calls do not overlap, and for cards while emails stay.
TakenInOrder ==
    /\ pc'[c2] # "idle" => pc[c1] # "idle"
    /\ pc'[c3] # "idle" => pc[c2] # "idle" /\ Serial
AskedInOrder ==
    /\ ask'[c2].at # "idle" => ask[c1].at # "idle"
    /\ ask'[c3].at # "idle" => ask[c2].at # "idle" /\ ~Moving

MCNext ==
    \/ "accounts" \in world /\ AccountsNext /\ TakenInOrder /\ UNCHANGED cardVars
    \/ "cards" \in world /\ CardsNext /\ AskedInOrder /\ UNCHANGED vars

MCSpec == MCInit /\ [][MCNext]_<<vars, cardVars>>
=============================================================================
