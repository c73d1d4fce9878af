------------------------------ MODULE MCWallets -----------------------------
(***************************************************************************)
(* Five worlds of the wallets in one run.  Three are of calls made to      *)
(* CircleService itself: three contended calls with every fault; two calls *)
(* of any kind with every fault, run on fairly; and three calls that       *)
(* follow each other in a world where nothing fails.  Two are of card      *)
(* webhooks: two overlapping deliveries of any of four webhooks, and three *)
(* deliveries of a purchase and its refund one after the other, with       *)
(* faults and restarts in both.                                            *)
(***************************************************************************)
EXTENDS PomeloCard, TLC

CONSTANTS alice, bob, master, nobody, i1, i2, i3, i4, i5, i6, p1, p2, p3, p4, p5,
          n1, n2, n3, n4, n5

MCInitialBalance == (alice :> 3) @@ (bob :> 0) @@ (master :> 101)

MCWorlds == {{"contended"}, {"linking"}, {"orderly"}, {"cards"}, {"cards", "serial"}}
Linking == "linking" \in world
Cards == "cards" \in world

-----------------------------------------------------------------------------
(* Calls of CircleService; frac is beyond the cents, in tenths of one *)

Give(kind, key, src, dst, amt, frac) ==
    [kind |-> kind, key |-> key, src |-> src, dst |-> dst, amt |-> amt, frac |-> frac]
Ask(kind, key, src, dst, amt) == Give(kind, key, src, dst, amt, 0)

\* Two debits of alice that do not fit in her wallet together, a credit of
\* alice, a status check of the first debit and a read of the balance.
Contended == {Ask("debit", n1, alice, master, 2), Give("debit", n5, alice, master, 2, 3),
              Give("credit", n2, master, alice, 2, -4), Ask("check", n1, alice, master, 2),
              Ask("getBalance", n1, alice, alice, 0)}

\* Every kind of request, bob not linked yet; the debits are of a little less than two
\* cents and of less than nothing.
AllKinds == {Give("debit", n1, alice, master, 2, -4), Ask("credit", n2, master, alice, 2),
             Give("transfer", n3, alice, bob, 1, 4), Ask("check", n3, alice, bob, 1),
             Ask("getBalance", n1, alice, alice, 0), Ask("refreshBalance", n1, bob, bob, 0),
             Ask("getWallet", n1, bob, bob, 0), Give("debit", n4, alice, master, 0, -3)}

EveryCall == Contended \cup AllKinds

\* What the properties of keys and of the cache rest on.
ASSUME MCCallAssumption ==
    KeepToKeys(EveryCall) /\ MovesAreApart(EveryCall) /\ NoHalfCents(EveryCall)

-----------------------------------------------------------------------------
(* Card webhooks *)

Hook(kind, idem, id, parent, holder, amounts) ==
    [kind |-> kind, idem |-> idem, id |-> id, parent |-> parent, holder |-> holder,
     usd |-> amounts]

\* A purchase priced at 1 or 2 by the rate of the day, a second one that does not fit
\* in the wallet beside it, the ID of the first under another idempotency key, and a
\* debit adjustment of the first.
Purchases == {Hook("AUTHORIZATION", i1, p1, p1, alice, {1, 2}),
              Hook("AUTHORIZATION", i2, p2, p2, alice, {2}),
              Hook("AUTHORIZATION", i3, p1, p1, alice, {2}),
              Hook("DEBIT", i4, p3, p1, alice, {})}

\* One purchase at a fixed price and its refund.
PurchaseAndRefund == {Hook("AUTHORIZATION", i5, p4, p4, alice, {2}),
                      Hook("CREDIT", i6, p5, p4, alice, {})}

EveryWebhook == Purchases \cup PurchaseAndRefund

MCRequests == EveryCall \cup CardRequests

-----------------------------------------------------------------------------
(* The worlds *)

\* The wallet has a row when deliveries follow each other, and none when they overlap.
MCInit ==
    /\ CardInit
    /\ Cards => linked = IF Serial THEN {alice} ELSE {}

Delivered == {hook'[d] : d \in Calls} \ {NoWebhook}

\* The slots of calls are alike: three of them are taken, in this order.
Slots == <<n1, n2, n3, n4, n5>>
Taken3(place) ==
    \A i \in 2..5 : place[Slots[i]] # "idle" => i <= 3 /\ place[Slots[i - 1]] # "idle"

CallsNext ==
    /\ Serves(IF Linking THEN {n1, n2} ELSE {n1, n2, n3},
              IF "contended" \in world THEN Contended ELSE AllKinds)
    /\ Taken3(pc')
    /\ UNCHANGED <<cardTables, deliveryVars>>

CardsNext ==
    /\ CardNext
    /\ Taken3(at')
    /\ Delivered \subseteq IF Serial THEN PurchaseAndRefund ELSE Purchases
    /\ ~Serial => hook'[n3] = NoWebhook

MCNext == IF Cards THEN CardsNext ELSE CallsNext

\* The fairness of FairSpec for the two calls of any kind and the keys they use, and of
\* CardFairSpec for the deliveries that follow each other, one of which is in flight.
MCFairness ==
    /\ \A c \in {n1, n2} :
        WF_cardVars(Linking /\ CallStep(c) /\ UNCHANGED <<world, cardTables, deliveryVars>>)
    /\ \A k \in {n1, n2, n3} :
        WF_cardVars(Linking /\ CircleSettles(k) /\ UNCHANGED <<world, cardTables, deliveryVars>>)
    /\ WF_cardVars(Serial /\ UNCHANGED world
                    /\ \E d \in {n1, n2, n3} : DeliveryStep(d) \/ CircleStep(d))

MCSpec == MCInit /\ [][MCNext]_cardVars /\ MCFairness

\* However two calls of any kind interleave, in the end both were answered and no
\* transfer is pending: every call ends and every pending transfer is settled.
LinkingSettles ==
    Linking => <>[]((\A c \in Calls : ~Running(c)) /\ (\A k \in Keys : ~Pending(k)))

\* While deliveries follow each other, every one ends, whatever fails.
EveryDeliveryInTurnEnds == Serial => <>[](\A d \in Calls : ~InFlight(d))
=============================================================================
