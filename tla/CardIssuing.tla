----------------------------- MODULE CardIssuing -----------------------------
(***************************************************************************)
(* CardService and PomeloService: a consumer asks for a card, which takes  *)
(* a user at Pomelo, found or created, a row for the user, a card at       *)
(* Pomelo and its rows.  Any of it may fail and be asked for again.        *)
(* Pomelo is external: what is created there under a key is created once,  *)
(* a user whose email it knows is refused, and so may be one whose person  *)
(* it knows; its users may be blocked, and active again.  A Pomelo user or *)
(* card is named by the call that created it.                              *)
(***************************************************************************)
EXTENDS Naturals, FiniteSets, People

CONSTANTS
    InitialEmails,      \* the email of each consumer
    EarlierUsers,       \* users Pomelo knew before
    InitialUsers,       \* of whom they are, under which email
    Reliable            \* calls that meet no fault when calls come in turn

Users == EarlierUsers \cup Calls
UserType == [of : Consumers, email : Emails]

ASSUME CardsAssumption ==
    /\ EarlierUsers \cap Calls = {}
    /\ Reliable \subseteq Calls
    /\ Nothing \notin Users \cup Consumers \cup Emails \cup UserType
    /\ InitialEmails \in [Consumers -> Emails]
    /\ InitialUsers \in [EarlierUsers -> UserType]

\* Emails are one consumer's each, and Pomelo knew consumers under theirs.
EmailsAreOwn ==
    /\ \A x, y \in Consumers : InitialEmails[x] = InitialEmails[y] => x = y
    /\ \A u \in EarlierUsers : InitialUsers[u].email = InitialEmails[InitialUsers[u].of]

VARIABLES
    email,          \* of each consumer
    identified,     \* consumers with an identification Pomelo accepts
    pomeloUser,     \* Pomelo's users
    blocked,        \* those of them who are not ACTIVE
    pomeloCard,     \* Pomelo's cards: the user of each
    userRow,        \* the PomeloUser rows: the user of each consumer
    cardRow,        \* the NobaCard and PomeloCard rows: the consumer of each card
    ask             \* each call: where it is and what it has read

cardVars == <<email, identified, pomeloUser, blocked, pomeloCard, userRow, cardRow, ask, world>>

\* May consumers change their emails?
Moving == "moving" \in world
\* May Pomelo block users?
Blocking == "blocking" \in world

NoCall == [at |-> "idle", as |-> Nothing, email |-> Nothing, user |-> Nothing,
           card |-> Nothing, answer |-> "none"]

CardsInit ==
    /\ world \in Worlds
    /\ email = InitialEmails
    /\ identified \in SUBSET Consumers
    /\ pomeloUser = [u \in Users |-> IF u \in EarlierUsers THEN InitialUsers[u] ELSE Nothing]
    /\ blocked = {}
    /\ pomeloCard = [k \in Calls |-> Nothing]
    /\ userRow = [x \in Consumers |-> Nothing]
    /\ cardRow = [k \in Calls |-> Nothing]
    /\ ask = [c \in Calls |-> NoCall]

At(c, step) == ask[c].at = step
To(c, step) == ask' = [ask EXCEPT ![c].at = step]
With(c, step, field, value) == ask' = [ask EXCEPT ![c].at = step, ![c][field] = value]
Ends(c, a) == ask' = [ask EXCEPT ![c].at = "done", ![c].answer = a]
MayFail(c) == Faulty /\ ~(Serial /\ c \in Reliable)
Lost(c) == MayFail(c) /\ Ends(c, "error")

-----------------------------------------------------------------------------
(* Around the calls: identifications and emails *)

\* addIdentification, deleteIdentification: the row is inserted, or deleted, or it was so.
EditIdentification(x) ==
    /\ identified' = IF x \in identified THEN identified \ {x} ELSE identified \cup {x}
    /\ UNCHANGED <<email, pomeloUser, pomeloCard, userRow, cardRow, ask>>

\* updateConsumerEmail: an email is one consumer's.
ChangeEmail(x, e) ==
    /\ Moving /\ \A y \in Consumers : email[y] # e
    /\ email' = [email EXCEPT ![x] = e]
    /\ UNCHANGED <<identified, pomeloUser, pomeloCard, userRow, cardRow, ask>>

\* Pomelo blocks a user, or makes a blocked one ACTIVE again.
ChangeStatus(u) ==
    /\ Blocking /\ pomeloUser[u] # Nothing
    /\ blocked' = IF u \in blocked THEN blocked \ {u} ELSE blocked \cup {u}
    /\ UNCHANGED <<email, identified, pomeloUser, pomeloCard, userRow, cardRow, ask>>

-----------------------------------------------------------------------------
(* createCard *)

AskForCard(c, x) ==
    /\ At(c, "idle")
    /\ Serial => \A d \in Calls : ask[d].at \in {"idle", "done"}
    /\ With(c, "consumer", "as", x)
    /\ UNCHANGED <<email, identified, pomeloUser, pomeloCard, userRow, cardRow>>

\* Refused: a consumer who may not transact, or has no address in Colombia.
LoadConsumer(c) ==
    /\ At(c, "consumer")
    /\ With(c, "user", "email", email[ask[c].as]) \/ Ends(c, "refused") \/ Lost(c)
    /\ UNCHANGED <<email, identified, pomeloUser, pomeloCard, userRow, cardRow>>

FindUserRow(c) ==
    /\ At(c, "user")
    /\ LET found == userRow[ask[c].as]
       IN  IF found = Nothing THEN To(c, "documents") \/ Lost(c)
           ELSE With(c, "card", "user", found) \/ Lost(c)
    /\ UNCHANGED <<email, identified, pomeloUser, pomeloCard, userRow, cardRow>>

\* A failing query finds no identification.
ReadIdentifications(c) ==
    /\ At(c, "documents")
    /\ \/ ask[c].as \in identified /\ To(c, "create")
       \/ (ask[c].as \notin identified \/ MayFail(c)) /\ Ends(c, "refused")
    /\ UNCHANGED <<email, identified, pomeloUser, pomeloCard, userRow, cardRow>>

\* The user created under the consumer's key, if any: it is answered again.  Whom Pomelo
\* knows otherwise is refused as a DUPLICATE_USER.
CreatedFor(x) == {u \in Calls : pomeloUser[u] # Nothing /\ pomeloUser[u].of = x}
WithThatEmail(e) == {u \in Users : pomeloUser[u] # Nothing /\ pomeloUser[u].email = e}
SamePerson(x) == {u \in Users : pomeloUser[u] # Nothing /\ pomeloUser[u].of = x}

CreateUser(c) ==
    LET x == ask[c].as
        e == ask[c].email
    IN  /\ At(c, "create")
        /\ \/ /\ UNCHANGED pomeloUser
              /\ \/ \E u \in CreatedFor(x) : With(c, "saveUser", "user", u)
                 \/ /\ CreatedFor(x) = {} /\ WithThatEmail(e) \cup SamePerson(x) # {}
                    /\ To(c, "byEmail")
                 \/ Lost(c)
           \/ /\ CreatedFor(x) = {} /\ WithThatEmail(e) = {}
              /\ pomeloUser' = [pomeloUser EXCEPT ![c] = [of |-> x, email |-> e]]
              /\ With(c, "saveUser", "user", c) \/ Lost(c)
        /\ UNCHANGED <<email, identified, pomeloCard, userRow, cardRow>>

\* Variants: whoever comes first is taken; a user that exists is an error.
TakeAnyUser(c) ==
    /\ At(c, "byEmail")
    /\ \E u \in Users : pomeloUser[u] # Nothing /\ With(c, "saveUser", "user", u)
    /\ UNCHANGED <<email, identified, pomeloUser, pomeloCard, userRow, cardRow>>
RefuseKnownUser(c) ==
    /\ At(c, "byEmail")
    /\ Ends(c, "error")
    /\ UNCHANGED <<email, identified, pomeloUser, pomeloCard, userRow, cardRow>>

\* Only ACTIVE users are asked for.  The client answers null when there is none, and the
\* service reads the null's id.
GetUserByEmail(c) ==
    LET found == WithThatEmail(ask[c].email) \ blocked
    IN  /\ At(c, "byEmail")
        /\ \/ \E u \in found : With(c, "saveUser", "user", u)
           \/ found = {} /\ Ends(c, "typeError")
           \/ Lost(c)
        /\ UNCHANGED <<email, identified, pomeloUser, pomeloCard, userRow, cardRow>>

\* One row for a consumer, one for a Pomelo user.
SaveUser(c) ==
    LET x == ask[c].as
        isFree == userRow[x] = Nothing /\ \A y \in Consumers : userRow[y] # ask[c].user
    IN  /\ At(c, "saveUser")
        /\ \/ isFree /\ userRow' = [userRow EXCEPT ![x] = ask[c].user] /\ (To(c, "card") \/ Lost(c))
           \/ (~isFree \/ MayFail(c)) /\ UNCHANGED userRow /\ Ends(c, "error")
        /\ UNCHANGED <<email, identified, pomeloUser, pomeloCard, cardRow>>

\* Variant: a key of its own for every call.
CardsUnderOwnKey(c) == {k \in {c} : pomeloCard[k] # Nothing}

\* The key is made of the user's row and the type, of which there is one.
CardsUnderKey(c) == {k \in Calls : pomeloCard[k] = ask[c].user}

CreatePomeloCard(c) ==
    /\ At(c, "card")
    /\ \/ /\ UNCHANGED pomeloCard
          /\ \/ \E k \in CardsUnderKey(c) : With(c, "saveCard", "card", k)
             \/ ask[c].user \in blocked /\ Ends(c, "error")
             \/ Lost(c)
       \/ /\ CardsUnderKey(c) = {}
          /\ pomeloCard' = [pomeloCard EXCEPT ![c] = ask[c].user]
          /\ With(c, "saveCard", "card", c) \/ Lost(c)
    /\ UNCHANGED <<email, identified, pomeloUser, userRow, cardRow>>

\* Both rows or neither; a card has them once.
SaveCard(c) ==
    LET k == ask[c].card
    IN  /\ At(c, "saveCard")
        /\ \/ /\ cardRow[k] = Nothing
              /\ cardRow' = [cardRow EXCEPT ![k] = ask[c].as]
              /\ Ends(c, "created") \/ Lost(c)
           \/ (cardRow[k] # Nothing \/ MayFail(c)) /\ UNCHANGED cardRow /\ Ends(c, "error")
        /\ UNCHANGED <<email, identified, pomeloUser, pomeloCard, userRow>>

-----------------------------------------------------------------------------
CardStep(c) ==
    \/ LoadConsumer(c) \/ FindUserRow(c) \/ ReadIdentifications(c)
    \/ CreateUser(c) \/ GetUserByEmail(c) \/ SaveUser(c)
    \/ CreatePomeloCard(c) \/ SaveCard(c)

CardsNext ==
    /\ \/ /\ \E c \in Calls : (\E x \in Consumers : AskForCard(c, x)) \/ CardStep(c)
          /\ UNCHANGED blocked
       \/ /\ \E x \in Consumers : EditIdentification(x) \/ \E e \in Emails : ChangeEmail(x, e)
          /\ UNCHANGED blocked
       \/ \E u \in Users : ChangeStatus(u)
    /\ UNCHANGED world

CardsSpec == CardsInit /\ [][CardsNext]_cardVars

-----------------------------------------------------------------------------
(* Properties *)

HasCard(x) == \E k \in Calls : cardRow[k] = x

\* However requests overlap, fail and are repeated, a consumer has one card, at
\* Pomelo as in the rows, and a payment with it is found to be the consumer's.
OneCardEach ==
    /\ \A j, k \in Calls : pomeloCard[j] # Nothing /\ pomeloCard[j] = pomeloCard[k] => j = k
    /\ \A k \in Calls : cardRow[k] # Nothing =>
        pomeloCard[k] # Nothing /\ userRow[cardRow[k]] = pomeloCard[k]

\* While nobody changes an email, a card is issued to the person who asked for it,
\* also when Pomelo knew them before.
CardholderIsOwnIfStill ==
    ~Moving => \A x \in Consumers : userRow[x] # Nothing => pomeloUser[userRow[x]].of = x

\* In turn, a call that failed leaves nothing behind that keeps a later one, which meets no
\* fault, from the card, unless Pomelo has blocked a user.  The lookup by email, which asks
\* for ACTIVE users alone and takes for granted that there is one, then fails every call until
\* the user is ACTIVE again: but only for consumers whom Pomelo knew before, never for those
\* whose user a failed call of theirs created.
AskedAgainGetsItInTurn ==
    Serial /\ ~Moving =>
        /\ \A c \in Reliable : ask[c].answer = "error" => HasCard(ask[c].as) \/ Blocking
        /\ \A c \in Calls : ask[c].answer = "typeError" =>
                Blocking /\ \E u \in EarlierUsers : InitialUsers[u].of = ask[c].as
=============================================================================
