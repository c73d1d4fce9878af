-------------------------- MODULE CardIssuingProofs --------------------------
(***************************************************************************)
(* Whose card is whose, for any consumers, earlier users and overlapping   *)
(* calls, with any answers lost, any writes failing, and emails changing.  *)
(***************************************************************************)
EXTENDS CardIssuing, TLAPS

\* The places of a call, in order.
BeforeUser == {"idle", "consumer", "user", "documents", "create"}
BeforeCard == BeforeUser \cup {"byEmail", "saveUser", "card"}
Places == BeforeCard \cup {"saveCard", "done"}

AskType ==
    [at : Places, as : Consumers \cup {Nothing}, email : Emails \cup {Nothing},
     user : Users \cup {Nothing}, card : Calls \cup {Nothing},
     answer : {"none", "refused", "error", "typeError", "created"}]

CardsTypeOK ==
    /\ email \in [Consumers -> Emails]
    /\ pomeloUser \in [Users -> UserType \cup {Nothing}]
    /\ pomeloCard \in [Calls -> Users \cup {Nothing}]
    /\ userRow \in [Consumers -> Users \cup {Nothing}]
    /\ cardRow \in [Calls -> Consumers \cup {Nothing}]
    /\ ask \in [Calls -> AskType]

\* What a call has read of rows and of Pomelo is so, and stays so.
AskOK(c) ==
    /\ ~At(c, "idle") => ask[c].as \in Consumers
    /\ ask[c].at \in {"user", "documents", "create"} => ask[c].email \in Emails
    /\ ask[c].at \in BeforeUser => pomeloUser[c] = Nothing
    /\ ask[c].at \in BeforeCard => pomeloCard[c] = Nothing
    /\ ask[c].at \in {"saveUser", "card", "saveCard"} => ask[c].user \in Users
    /\ ask[c].at \in {"card", "saveCard"} => userRow[ask[c].as] = ask[c].user
    /\ At(c, "saveCard") => ask[c].card \in Calls /\ pomeloCard[ask[c].card] = ask[c].user

CardsInv == CardsTypeOK /\ OneCardEach /\ \A c \in Calls : AskOK(c)

-----------------------------------------------------------------------------
(* One card each *)

LEMMA CardsInitOK == CardsInit => CardsInv
<1> SUFFICES ASSUME CardsInit PROVE CardsInv
    OBVIOUS
<1>1. CardsTypeOK
  <2>1. pomeloUser \in [Users -> UserType \cup {Nothing}]
    BY CardsAssumption DEF CardsInit, Users
  <2>2. NoCall \in AskType
    BY DEF NoCall, AskType, Places, BeforeCard, BeforeUser
  <2> QED BY <2>1, <2>2, CardsAssumption DEF CardsInit, CardsTypeOK
<1>2. OneCardEach
  BY DEF CardsInit, OneCardEach
<1>3. ASSUME NEW c \in Calls PROVE AskOK(c)
  <2>1. ask[c].at = "idle" /\ c \in Users /\ c \notin EarlierUsers
    BY CardsAssumption DEF CardsInit, NoCall, Users
  <2>2. pomeloUser[c] = Nothing /\ pomeloCard[c] = Nothing
    BY <2>1 DEF CardsInit
  <2> QED BY <2>1, <2>2 DEF AskOK, At
<1> QED BY <1>1, <1>2, <1>3 DEF CardsInv

\* A step of one call that leaves Pomelo and the rows alone, and comes to a place
\* where what it has read is so.
LEMMA OnlyAsks ==
    ASSUME CardsInv, NEW c \in Calls,
           UNCHANGED <<email, pomeloUser, pomeloCard, userRow, cardRow>>,
           ask' \in [Calls -> AskType],
           \A d \in Calls \ {c} : ask'[d] = ask[d],
           AskOK(c)'
    PROVE  CardsInv'
<1>1. CardsTypeOK' BY DEF CardsInv, CardsTypeOK
<1>2. OneCardEach' BY DEF CardsInv, OneCardEach
<1>3. ASSUME NEW d \in Calls PROVE AskOK(d)'
  <2>1. CASE d = c BY <2>1
  <2>2. CASE d # c
    BY <2>2 DEF CardsInv, AskOK, At
  <2> QED BY <2>1, <2>2
<1> QED BY <1>1, <1>2, <1>3 DEF CardsInv

\* Where a call goes and what it keeps, when it stores a field, moves or ends.
LEMMA Moves ==
    ASSUME ask \in [Calls -> AskType], NEW c \in Calls, NEW s \in Places, To(c, s)
    PROVE  /\ ask' \in [Calls -> AskType]
           /\ \A d \in Calls \ {c} : ask'[d] = ask[d]
           /\ ask'[c].at = s
           /\ ask'[c].as = ask[c].as /\ ask'[c].email = ask[c].email
           /\ ask'[c].user = ask[c].user /\ ask'[c].card = ask[c].card
BY DEF To, AskType

LEMMA Ended ==
    ASSUME ask \in [Calls -> AskType], NEW c \in Calls,
           NEW a \in {"refused", "error", "typeError", "created"}, Ends(c, a)
    PROVE  /\ ask' \in [Calls -> AskType]
           /\ \A d \in Calls \ {c} : ask'[d] = ask[d]
           /\ ask'[c].at = "done" /\ ask'[c].as = ask[c].as
BY ZenonT(60) DEF Ends, AskType, Places

LEMMA StoresUser ==
    ASSUME ask \in [Calls -> AskType], NEW c \in Calls, NEW s \in Places,
           NEW u \in Users, With(c, s, "user", u)
    PROVE  /\ ask' \in [Calls -> AskType]
           /\ \A d \in Calls \ {c} : ask'[d] = ask[d]
           /\ ask'[c].at = s /\ ask'[c].user = u
           /\ ask'[c].as = ask[c].as /\ ask'[c].email = ask[c].email
BY DEF With, AskType

LEMMA StoresCard ==
    ASSUME ask \in [Calls -> AskType], NEW c \in Calls, NEW s \in Places,
           NEW k \in Calls, With(c, s, "card", k)
    PROVE  /\ ask' \in [Calls -> AskType]
           /\ \A d \in Calls \ {c} : ask'[d] = ask[d]
           /\ ask'[c].at = s /\ ask'[c].card = k
           /\ ask'[c].as = ask[c].as /\ ask'[c].user = ask[c].user
BY DEF With, AskType

\* A call that ends, having done nothing else.
LEMMA EndingKeeps ==
    ASSUME CardsInv, NEW c \in Calls, ~At(c, "idle"),
           UNCHANGED <<email, pomeloUser, pomeloCard, userRow, cardRow>>,
           NEW a \in {"refused", "error", "typeError", "created"}, Ends(c, a)
    PROVE  CardsInv'
<1>1. ask \in [Calls -> AskType] BY DEF CardsInv, CardsTypeOK
<1>2. /\ ask' \in [Calls -> AskType]
      /\ \A d \in Calls \ {c} : ask'[d] = ask[d]
      /\ ask'[c].at = "done" /\ ask'[c].as = ask[c].as
  BY <1>1, Ended
<1>3. AskOK(c)' BY <1>2 DEF CardsInv, AskOK, At, BeforeUser, BeforeCard
<1> QED BY <1>2, <1>3, OnlyAsks

LEMMA StepKeepsCards ==
    ASSUME CardsInv, NEW c \in Calls, CardStep(c)
    PROVE  CardsInv'
<1> USE DEF At
<1>0. /\ ask \in [Calls -> AskType] /\ ask[c] \in AskType
      /\ AskOK(c) /\ c \in Users
      /\ "saveCard" \in Places /\ "saveUser" \in Places /\ "card" \in Places
      /\ "documents" \in Places /\ "create" \in Places /\ "byEmail" \in Places
  BY DEF CardsInv, CardsTypeOK, Users, Places, BeforeCard, BeforeUser
<1>ended. ASSUME UNCHANGED <<email, pomeloUser, pomeloCard, userRow, cardRow>>, ~At(c, "idle"),
                 NEW a \in {"refused", "error", "typeError", "created"}, Ends(c, a)
          PROVE  CardsInv'
  BY <1>ended, EndingKeeps
<1>1. CASE LoadConsumer(c)
  <2> SUFFICES ASSUME With(c, "user", "email", email[ask[c].as]) PROVE CardsInv'
    BY <1>1, <1>ended DEF LoadConsumer, Lost
  <2>1. email[ask[c].as] \in Emails
    BY <1>0, <1>1 DEF LoadConsumer, AskOK, CardsInv, CardsTypeOK
  <2>2. /\ ask' \in [Calls -> AskType]
        /\ \A d \in Calls \ {c} : ask'[d] = ask[d]
        /\ ask'[c].at = "user" /\ ask'[c].as = ask[c].as /\ ask'[c].email \in Emails
    BY <1>0, <2>1 DEF With, AskType, Places, BeforeCard, BeforeUser
  <2>3. AskOK(c)'
    BY <1>0, <1>1, <2>2 DEF LoadConsumer, AskOK, BeforeCard, BeforeUser
  <2> QED BY <1>1, <2>2, <2>3, OnlyAsks DEF LoadConsumer
<1>2. CASE FindUserRow(c)
  <2>1. CASE To(c, "documents")
    <3>1. /\ ask' \in [Calls -> AskType]
          /\ \A d \in Calls \ {c} : ask'[d] = ask[d]
          /\ ask'[c].at = "documents" /\ ask'[c].as = ask[c].as
          /\ ask'[c].email = ask[c].email
      BY <1>0, <2>1, Moves
    <3>2. AskOK(c)'
      BY <1>0, <1>2, <3>1 DEF FindUserRow, AskOK, BeforeCard, BeforeUser
    <3> QED BY <1>2, <3>1, <3>2, OnlyAsks DEF FindUserRow
  <2>2. CASE userRow[ask[c].as] # Nothing /\ With(c, "card", "user", userRow[ask[c].as])
    <3>1. userRow[ask[c].as] \in Users
      BY <1>0, <1>2, <2>2 DEF FindUserRow, AskOK, CardsInv, CardsTypeOK
    <3>2. /\ ask' \in [Calls -> AskType]
          /\ \A d \in Calls \ {c} : ask'[d] = ask[d]
          /\ ask'[c].at = "card" /\ ask'[c].as = ask[c].as
          /\ ask'[c].user = userRow[ask[c].as]
      BY <1>0, <2>2, <3>1, StoresUser
    <3>3. AskOK(c)'
      BY <1>0, <1>2, <3>1, <3>2 DEF FindUserRow, AskOK, BeforeCard, BeforeUser
    <3> QED BY <1>2, <3>2, <3>3, OnlyAsks DEF FindUserRow
  <2> QED BY <1>2, <1>ended, <2>1, <2>2 DEF FindUserRow, Lost
<1>3. CASE ReadIdentifications(c)
  <2> SUFFICES ASSUME To(c, "create") PROVE CardsInv'
    BY <1>3, <1>ended DEF ReadIdentifications
  <2>1. /\ ask' \in [Calls -> AskType]
        /\ \A d \in Calls \ {c} : ask'[d] = ask[d]
        /\ ask'[c].at = "create" /\ ask'[c].as = ask[c].as
        /\ ask'[c].email = ask[c].email
    BY <1>0, Moves
  <2>2. AskOK(c)'
    BY <1>0, <1>3, <2>1 DEF ReadIdentifications, AskOK, BeforeCard, BeforeUser
  <2> QED BY <1>3, <2>1, <2>2, OnlyAsks DEF ReadIdentifications
<1>4. CASE CreateUser(c)
  <2> DEFINE Known == UNCHANGED pomeloUser
             Made == pomeloUser' = [pomeloUser EXCEPT ![c] = [of |-> ask[c].as,
                                                              email |-> ask[c].email]]
  <2>1. ASSUME Known, NEW u \in CreatedFor(ask[c].as), With(c, "saveUser", "user", u)
        PROVE  CardsInv'
    <3>1. u \in Users BY <2>1 DEF CreatedFor, Users
    <3>2. /\ ask' \in [Calls -> AskType]
          /\ \A d \in Calls \ {c} : ask'[d] = ask[d]
          /\ ask'[c].at = "saveUser" /\ ask'[c].as = ask[c].as /\ ask'[c].user = u
      BY <1>0, <2>1, <3>1, StoresUser
    <3>3. AskOK(c)'
      BY <1>0, <1>4, <2>1, <3>1, <3>2 DEF CreateUser, AskOK, BeforeCard, BeforeUser
    <3> QED BY <1>4, <2>1, <3>2, <3>3, OnlyAsks DEF CreateUser
  <2>2. ASSUME Known, To(c, "byEmail") PROVE CardsInv'
    <3>1. /\ ask' \in [Calls -> AskType]
          /\ \A d \in Calls \ {c} : ask'[d] = ask[d]
          /\ ask'[c].at = "byEmail" /\ ask'[c].as = ask[c].as
      BY <1>0, <2>2, Moves
    <3>2. AskOK(c)'
      BY <1>0, <1>4, <2>2, <3>1 DEF CreateUser, AskOK, BeforeCard, BeforeUser
    <3> QED BY <1>4, <2>2, <3>1, <3>2, OnlyAsks DEF CreateUser
  <2>3. ASSUME Made, With(c, "saveUser", "user", c) \/ Lost(c) PROVE CardsInv'
    <3>0. ask[c].as \in Consumers /\ ask[c].email \in Emails /\ ask[c].at = "create"
      BY <1>0, <1>4 DEF CreateUser, AskOK
    <3>1. /\ ask' \in [Calls -> AskType]
          /\ \A d \in Calls \ {c} : ask'[d] = ask[d]
          /\ ask'[c].as = ask[c].as
          /\ ask'[c].at = "done" \/ (ask'[c].at = "saveUser" /\ ask'[c].user = c)
      BY <1>0, <2>3, StoresUser, Ended DEF Lost
    <3>2. AskOK(c)'
      BY <1>0, <1>4, <2>3, <3>0, <3>1 DEF CreateUser, AskOK, BeforeCard, BeforeUser
    <3>3. ASSUME NEW d \in Calls \ {c} PROVE AskOK(d)'
      BY <1>0, <1>4, <2>3, <3>1 DEF CreateUser, CardsInv, CardsTypeOK, AskOK, BeforeUser
    <3>4. CardsTypeOK'
      <4>1. [of |-> ask[c].as, email |-> ask[c].email] \in UserType BY <3>0 DEF UserType
      <4> QED BY <1>0, <1>4, <2>3, <3>1, <4>1 DEF CreateUser, CardsInv, CardsTypeOK
    <3>5. OneCardEach'
      BY <1>4 DEF CreateUser, CardsInv, OneCardEach
    <3> QED BY <3>2, <3>3, <3>4, <3>5 DEF CardsInv
  <2> QED BY <1>4, <1>ended, <2>1, <2>2, <2>3 DEF CreateUser, Lost
<1>5. CASE GetUserByEmail(c)
  <2> SUFFICES ASSUME NEW u \in WithThatEmail(ask[c].email) \ blocked,
                      With(c, "saveUser", "user", u)
               PROVE  CardsInv'
    BY <1>5, <1>ended DEF GetUserByEmail, Lost
  <2>1. u \in Users BY DEF WithThatEmail
  <2>2. /\ ask' \in [Calls -> AskType]
        /\ \A d \in Calls \ {c} : ask'[d] = ask[d]
        /\ ask'[c].at = "saveUser" /\ ask'[c].as = ask[c].as /\ ask'[c].user = u
    BY <1>0, <2>1, StoresUser
  <2>3. AskOK(c)'
    BY <1>0, <1>5, <2>1, <2>2 DEF GetUserByEmail, AskOK, BeforeCard, BeforeUser
  <2> QED BY <1>5, <2>2, <2>3, OnlyAsks DEF GetUserByEmail
<1>6. CASE SaveUser(c)
  <2>0. ask[c].as \in Consumers /\ ask[c].user \in Users /\ ask[c].at = "saveUser"
        /\ pomeloCard[c] = Nothing
    BY <1>0, <1>6 DEF SaveUser, AskOK, BeforeCard
  <2> SUFFICES ASSUME userRow[ask[c].as] = Nothing, 
                      userRow' = [userRow EXCEPT ![ask[c].as] = ask[c].user],
                      To(c, "card") \/ Lost(c)
               PROVE  CardsInv'
    BY <1>6, <1>ended DEF SaveUser
  <2>1. /\ ask' \in [Calls -> AskType]
        /\ \A d \in Calls \ {c} : ask'[d] = ask[d]
        /\ ask'[c].as = ask[c].as
        /\ ask'[c].at = "done" \/ (ask'[c].at = "card" /\ ask'[c].user = ask[c].user)
    BY <1>0, Moves, Ended DEF Lost
  <2>2. /\ userRow' \in [Consumers -> Users \cup {Nothing}]
        /\ userRow'[ask[c].as] = ask[c].user
        /\ \A x \in Consumers : userRow[x] # Nothing => userRow'[x] = userRow[x]
    BY <2>0 DEF CardsInv, CardsTypeOK
  <2>3. CardsTypeOK'
    BY <1>6, <2>1, <2>2 DEF SaveUser, CardsInv, CardsTypeOK
  <2>4. OneCardEach'
    <3>1. \A k \in Calls : cardRow[k] # Nothing => cardRow[k] \in Consumers
      BY DEF CardsInv, CardsTypeOK
    <3> QED BY <1>6, <2>2, <3>1 DEF SaveUser, CardsInv, OneCardEach
  <2>5. AskOK(c)'
    BY <1>0, <1>6, <2>0, <2>1, <2>2 DEF SaveUser, AskOK, BeforeCard, BeforeUser
  <2>6. ASSUME NEW d \in Calls \ {c} PROVE AskOK(d)'
    <3>1. AskOK(d) /\ ask'[d] = ask[d] BY <2>1 DEF CardsInv
    <3>2. ask[d].at \in {"card", "saveCard"} => userRow'[ask[d].as] = ask[d].user
      BY <3>1, <2>2, CardsAssumption DEF AskOK
    <3> QED BY <1>6, <3>1, <3>2 DEF SaveUser, AskOK
  <2> QED BY <2>3, <2>4, <2>5, <2>6 DEF CardsInv
<1>7. CASE CreatePomeloCard(c)
  <2>0. /\ ask[c].as \in Consumers /\ ask[c].user \in Users /\ ask[c].at = "card"
        /\ pomeloCard[c] = Nothing /\ userRow[ask[c].as] = ask[c].user
        /\ ask[c].user # Nothing
    BY <1>0, <1>7, CardsAssumption DEF CreatePomeloCard, AskOK, BeforeCard
  <2>1. ASSUME UNCHANGED pomeloCard, NEW k \in CardsUnderKey(c), With(c, "saveCard", "card", k)
        PROVE  CardsInv'
    <3>1. k \in Calls /\ pomeloCard[k] = ask[c].user BY <2>1 DEF CardsUnderKey
    <3>2. /\ ask' \in [Calls -> AskType]
          /\ \A d \in Calls \ {c} : ask'[d] = ask[d]
          /\ ask'[c].at = "saveCard" /\ ask'[c].as = ask[c].as
          /\ ask'[c].card = k /\ ask'[c].user = ask[c].user
      BY <1>0, <2>1, <3>1, StoresCard
    <3>3. AskOK(c)'
      BY <1>7, <2>0, <2>1, <3>1, <3>2 DEF CreatePomeloCard, AskOK, BeforeCard, BeforeUser
    <3> QED BY <1>7, <2>1, <3>2, <3>3, OnlyAsks DEF CreatePomeloCard
  <2>2. ASSUME CardsUnderKey(c) = {},
               pomeloCard' = [pomeloCard EXCEPT ![c] = ask[c].user],
               With(c, "saveCard", "card", c) \/ Lost(c)
        PROVE  CardsInv'
    <3>1. /\ ask' \in [Calls -> AskType]
          /\ \A d \in Calls \ {c} : ask'[d] = ask[d]
          /\ ask'[c].as = ask[c].as
          /\ \/ ask'[c].at = "done"
             \/ ask'[c].at = "saveCard" /\ ask'[c].card = c /\ ask'[c].user = ask[c].user
      BY <1>0, <2>2, StoresCard, Ended DEF Lost
    <3>2. /\ pomeloCard' \in [Calls -> Users \cup {Nothing}]
          /\ pomeloCard'[c] = ask[c].user
          /\ \A k \in Calls \ {c} : pomeloCard'[k] = pomeloCard[k] /\ pomeloCard[k] # ask[c].user
      BY <2>0, <2>2 DEF CardsUnderKey, CardsInv, CardsTypeOK
    <3>3. CardsTypeOK'
      BY <1>7, <3>1, <3>2 DEF CreatePomeloCard, CardsInv, CardsTypeOK
    <3>4. OneCardEach'
      <4>1. cardRow[c] = Nothing
        BY <2>0 DEF CardsInv, OneCardEach
      <4>2. cardRow' = cardRow /\ userRow' = userRow BY <1>7 DEF CreatePomeloCard
      <4>3. OneCardEach BY DEF CardsInv
      <4>4. ASSUME NEW j \in Calls, NEW k \in Calls, pomeloCard'[j] # Nothing,
                   pomeloCard'[j] = pomeloCard'[k]
            PROVE  j = k
        BY <3>2, <4>3, <4>4 DEF OneCardEach
      <4>5. ASSUME NEW k \in Calls, cardRow'[k] # Nothing
            PROVE  pomeloCard'[k] # Nothing /\ userRow'[cardRow'[k]] = pomeloCard'[k]
        BY <3>2, <4>1, <4>2, <4>3, <4>5 DEF OneCardEach
      <4> QED BY <4>4, <4>5 DEF OneCardEach
    <3>5. AskOK(c)'
      BY <1>7, <2>0, <3>1, <3>2 DEF CreatePomeloCard, AskOK, BeforeCard, BeforeUser
    <3>6. ASSUME NEW d \in Calls \ {c} PROVE AskOK(d)'
      <4>1. AskOK(d) /\ ask'[d] = ask[d] BY <3>1 DEF CardsInv
      <4>2. ask[d].at = "saveCard" => pomeloCard'[ask[d].card] = ask[d].user
        BY <2>0, <3>2, <4>1, CardsAssumption DEF AskOK
      <4>3. ask[d].at \in BeforeCard => pomeloCard'[d] = Nothing
        BY <3>2, <4>1 DEF AskOK
      <4>4. pomeloUser' = pomeloUser /\ userRow' = userRow BY <1>7 DEF CreatePomeloCard
      <4> QED BY <4>1, <4>2, <4>3, <4>4 DEF AskOK
    <3> QED BY <3>3, <3>4, <3>5, <3>6 DEF CardsInv
  <2> QED BY <1>7, <1>ended, <2>1, <2>2 DEF CreatePomeloCard, Lost
<1>8. CASE SaveCard(c)
  <2>0. /\ ask[c].as \in Consumers /\ ask[c].user \in Users /\ ask[c].at = "saveCard"
        /\ ask[c].card \in Calls /\ pomeloCard[ask[c].card] = ask[c].user
        /\ userRow[ask[c].as] = ask[c].user /\ ask[c].user # Nothing
    BY <1>0, <1>8, CardsAssumption DEF SaveCard, AskOK
  <2>a. ASSUME UNCHANGED cardRow, Ends(c, "error") PROVE CardsInv'
    BY <1>8, <1>ended, <2>0, <2>a DEF SaveCard
  <2> SUFFICES ASSUME cardRow' = [cardRow EXCEPT ![ask[c].card] = ask[c].as],
                      Ends(c, "created") \/ Ends(c, "error")
               PROVE  CardsInv'
    BY <1>8, <2>a DEF SaveCard, Lost
  <2>1. /\ ask' \in [Calls -> AskType]
        /\ \A d \in Calls \ {c} : ask'[d] = ask[d]
        /\ ask'[c].at = "done" /\ ask'[c].as = ask[c].as
    BY <1>0, Ended
  <2>2. CardsTypeOK'
    BY <1>8, <2>0, <2>1 DEF SaveCard, CardsInv, CardsTypeOK
  <2>3. OneCardEach'
    BY <1>8, <2>0 DEF SaveCard, CardsInv, CardsTypeOK, OneCardEach
  <2>4. ASSUME NEW d \in Calls PROVE AskOK(d)'
    BY <1>8, <2>0, <2>1 DEF SaveCard, CardsInv, AskOK, BeforeCard, BeforeUser
  <2> QED BY <2>2, <2>3, <2>4 DEF CardsInv
<1> QED BY <1>1, <1>2, <1>3, <1>4, <1>5, <1>6, <1>7, <1>8 DEF CardStep

LEMMA CardsNextKeeps ==
    ASSUME CardsInv, [CardsNext]_cardVars
    PROVE  CardsInv'
<1> USE DEF At
<1>1. CASE UNCHANGED cardVars
  BY <1>1 DEF cardVars, CardsInv, CardsTypeOK, OneCardEach, AskOK
<1>2. ASSUME NEW c \in Calls, CardStep(c) PROVE CardsInv'
  BY <1>2, StepKeepsCards
<1>3. ASSUME NEW c \in Calls, NEW x \in Consumers, AskForCard(c, x) PROVE CardsInv'
  <2>1. /\ ask' \in [Calls -> AskType]
        /\ \A d \in Calls \ {c} : ask'[d] = ask[d]
        /\ ask'[c].at = "consumer" /\ ask'[c].as = x
    <3>1. ask \in [Calls -> AskType] BY DEF CardsInv, CardsTypeOK
    <3>2. "consumer" \in Places /\ x \in Consumers \cup {Nothing}
      BY DEF Places, BeforeCard, BeforeUser
    <3>3. ask' = [ask EXCEPT ![c].at = "consumer", ![c].as = x]
      BY <1>3 DEF AskForCard, With
    <3> QED BY <3>1, <3>2, <3>3 DEF AskType
  <2>2. AskOK(c)'
    BY <1>3, <2>1 DEF AskForCard, CardsInv, AskOK, BeforeCard, BeforeUser
  <2> QED BY <1>3, <2>1, <2>2, OnlyAsks DEF AskForCard
<1>4. ASSUME NEW x \in Consumers, EditIdentification(x) PROVE CardsInv'
  BY <1>4 DEF EditIdentification, CardsInv, CardsTypeOK, OneCardEach, AskOK
<1>5. ASSUME NEW x \in Consumers, NEW e \in Emails, ChangeEmail(x, e) PROVE CardsInv'
  BY <1>5 DEF ChangeEmail, CardsInv, CardsTypeOK, OneCardEach, AskOK
<1>6. ASSUME NEW u \in Users, ChangeStatus(u) PROVE CardsInv'
  BY <1>6 DEF ChangeStatus, CardsInv, CardsTypeOK, OneCardEach, AskOK
<1> QED BY <1>1, <1>2, <1>3, <1>4, <1>5, <1>6 DEF CardsNext

\* However requests overlap, fail and are repeated, a consumer has at most one card,
\* and a payment with it is found to be theirs: createPomeloCard asks under a key that
\* is the user's own, and a row of a user, once there, is never written again.
THEOREM ConsumersHaveOneCard ==
    CardsSpec => []OneCardEach
<1>1. CardsInit => CardsInv BY CardsInitOK
<1>2. CardsInv /\ [CardsNext]_cardVars => CardsInv' BY CardsNextKeeps
<1>3. CardsInv => OneCardEach BY DEF CardsInv
<1> QED BY <1>1, <1>2, <1>3, PTL DEF CardsSpec

-----------------------------------------------------------------------------
(* Whose card it is, while nobody changes an email *)

IsOf(u, x) == pomeloUser[u] # Nothing /\ pomeloUser[u].of = x

OwnOK(c) ==
    /\ ask[c].at \in {"user", "documents", "create", "byEmail"} =>
        ask[c].email = InitialEmails[ask[c].as]
    /\ At(c, "saveUser") => IsOf(ask[c].user, ask[c].as)

OwnInv ==
    ~Moving =>
        /\ email = InitialEmails
        /\ \A u \in Users : pomeloUser[u] # Nothing =>
            pomeloUser[u].email = InitialEmails[pomeloUser[u].of]
        /\ \A x \in Consumers : userRow[x] # Nothing => IsOf(userRow[x], x)
        /\ \A c \in Calls : OwnOK(c)

LEMMA OwnInitOK == ASSUME EmailsAreOwn PROVE CardsInit => OwnInv
<1> SUFFICES ASSUME CardsInit PROVE OwnInv
    OBVIOUS
<1>1. \A u \in Users : pomeloUser[u] # Nothing =>
        pomeloUser[u].email = InitialEmails[pomeloUser[u].of]
  BY DEF CardsInit, EmailsAreOwn, Users
<1>2. \A c \in Calls : OwnOK(c)
  BY DEF CardsInit, NoCall, OwnOK, At
<1> QED BY <1>1, <1>2 DEF CardsInit, OwnInv

\* Users are added and never changed.
LEMMA UsersStay ==
    ASSUME CardsInv, NEW c \in Calls, CardStep(c)
    PROVE  \A u \in Users : pomeloUser[u] # Nothing => pomeloUser'[u] = pomeloUser[u]
<1>1. CASE CreateUser(c)
  <2>1. pomeloUser[c] = Nothing
    BY <1>1 DEF CreateUser, CardsInv, AskOK, At, BeforeUser
  <2> QED BY <1>1, <2>1 DEF CreateUser, CardsInv, CardsTypeOK
<1>2. CASE ~CreateUser(c)
  BY <1>2 DEF CardStep, LoadConsumer, FindUserRow, ReadIdentifications, GetUserByEmail, SaveUser,
              CreatePomeloCard, SaveCard
<1> QED BY <1>1, <1>2

LEMMA StepKeepsOwn ==
    ASSUME EmailsAreOwn, CardsInv, OwnInv, ~Moving, NEW c \in Calls, CardStep(c)
    PROVE  OwnInv'
<1> USE DEF At
<1>0. /\ ask \in [Calls -> AskType]
      /\ AskOK(c) /\ OwnOK(c) /\ c \in Users
      /\ ask[c].at \notin {"idle", "done"} /\ ask[c].as \in Consumers
  <2>1. ask[c].at \notin {"idle", "done"}
    BY DEF CardStep, LoadConsumer, FindUserRow, ReadIdentifications, CreateUser, GetUserByEmail,
           SaveUser, CreatePomeloCard, SaveCard
  <2> QED BY <2>1 DEF CardsInv, CardsTypeOK, AskOK, OwnInv, Users
<1>1. email' = InitialEmails
  BY DEF CardStep, LoadConsumer, FindUserRow, ReadIdentifications, CreateUser, GetUserByEmail,
         SaveUser, CreatePomeloCard, SaveCard, OwnInv
<1>2. \A u \in Users : pomeloUser[u] # Nothing => pomeloUser'[u] = pomeloUser[u]
  BY UsersStay
<1>3. \A u \in Users : pomeloUser'[u] # Nothing =>
        pomeloUser'[u].email = InitialEmails[pomeloUser'[u].of]
  <2>1. CASE CreateUser(c)
    <3>1. ask[c].email = InitialEmails[ask[c].as] BY <1>0, <2>1 DEF CreateUser, OwnOK
    <3> QED BY <1>0, <2>1, <3>1 DEF CreateUser, OwnInv, CardsInv, CardsTypeOK
  <2>2. CASE ~CreateUser(c)
    BY <2>2 DEF CardStep, LoadConsumer, FindUserRow, ReadIdentifications, GetUserByEmail,
                SaveUser, CreatePomeloCard, SaveCard, OwnInv
  <2> QED BY <2>1, <2>2
<1>4. ASSUME NEW x \in Consumers, userRow'[x] # Nothing
      PROVE  pomeloUser'[userRow'[x]] # Nothing /\ pomeloUser'[userRow'[x]].of = x
  <2>1. CASE SaveUser(c) /\ userRow' # userRow /\ x = ask[c].as
    <3>1. userRow'[x] = ask[c].user /\ pomeloUser' = pomeloUser
      BY <2>1 DEF SaveUser, CardsInv, CardsTypeOK
    <3>2. IsOf(ask[c].user, x) BY <1>0, <2>1 DEF SaveUser, OwnOK
    <3> QED BY <3>1, <3>2 DEF IsOf
  <2>2. CASE userRow'[x] = userRow[x]
    <3>1. IsOf(userRow[x], x) /\ userRow[x] \in Users
      BY <1>4, <2>2 DEF OwnInv, CardsInv, CardsTypeOK
    <3> QED BY <1>2, <2>2, <3>1 DEF IsOf
  <2>3. userRow'[x] = userRow[x] \/ (SaveUser(c) /\ userRow' # userRow /\ x = ask[c].as)
    BY DEF CardStep, LoadConsumer, FindUserRow, ReadIdentifications, CreateUser, GetUserByEmail,
           SaveUser, CreatePomeloCard, SaveCard, CardsInv, CardsTypeOK
  <2> QED BY <2>1, <2>2, <2>3
<1>5. ASSUME NEW d \in Calls \ {c} PROVE OwnOK(d)'
  <2>1. ask'[d] = ask[d]
    BY <1>0 DEF CardStep, LoadConsumer, FindUserRow, ReadIdentifications, CreateUser,
                GetUserByEmail, SaveUser, CreatePomeloCard, SaveCard, To, With, Ends, Lost
  <2>2. OwnOK(d) BY DEF OwnInv
  <2>3. ask[d].at = "saveUser" => ask[d].user \in Users BY DEF CardsInv, AskOK
  <2> QED BY <1>2, <2>1, <2>2, <2>3 DEF OwnOK, IsOf
<1>6. OwnOK(c)'
  <2>ended. ASSUME NEW a, Ends(c, a) PROVE OwnOK(c)'
    BY <1>0, <2>ended DEF Ends, AskType, OwnOK
  <2>1. CASE LoadConsumer(c)
    <3> SUFFICES ASSUME With(c, "user", "email", email[ask[c].as]) PROVE OwnOK(c)'
      BY <2>1, <2>ended DEF LoadConsumer, Lost
    <3> QED BY <1>0 DEF With, AskType, OwnOK, OwnInv
  <2>2. CASE FindUserRow(c)
    BY <1>0, <2>2, <2>ended DEF FindUserRow, Lost, With, To, AskType, OwnOK
  <2>3. CASE ReadIdentifications(c)
    BY <1>0, <2>3, <2>ended DEF ReadIdentifications, To, AskType, OwnOK
  <2>4. CASE CreateUser(c)
    <3>0. ask[c].email = InitialEmails[ask[c].as] BY <1>0, <2>4 DEF CreateUser, OwnOK
    <3>1. ASSUME UNCHANGED pomeloUser, NEW u \in CreatedFor(ask[c].as),
                 With(c, "saveUser", "user", u)
          PROVE  OwnOK(c)'
      BY <1>0, <3>1 DEF With, AskType, OwnOK, IsOf, CreatedFor
    <3>2. ASSUME To(c, "byEmail") PROVE OwnOK(c)'
      BY <1>0, <3>0, <3>2 DEF To, AskType, OwnOK
    <3>3. ASSUME pomeloUser' = [pomeloUser EXCEPT ![c] = [of |-> ask[c].as,
                                                          email |-> ask[c].email]],
                 With(c, "saveUser", "user", c)
          PROVE  OwnOK(c)'
      <4>1. [of |-> ask[c].as, email |-> ask[c].email] # Nothing
        BY <1>0, <2>4, CardsAssumption DEF CreateUser, AskOK, UserType
      <4>2. /\ pomeloUser'[c] # Nothing /\ pomeloUser'[c].of = ask[c].as
        BY <1>0, <3>3, <4>1 DEF CardsInv, CardsTypeOK
      <4>3. ask'[c].at = "saveUser" /\ ask'[c].user = c /\ ask'[c].as = ask[c].as
        BY <1>0, <3>3 DEF With, AskType
      <4> QED BY <4>2, <4>3 DEF OwnOK, IsOf
    <3> QED BY <2>4, <2>ended, <3>1, <3>2, <3>3 DEF CreateUser, Lost
  <2>5. CASE GetUserByEmail(c)
    <3> SUFFICES ASSUME NEW u \in WithThatEmail(ask[c].email) \ blocked,
                        With(c, "saveUser", "user", u)
                 PROVE  OwnOK(c)'
      BY <2>5, <2>ended DEF GetUserByEmail, Lost
    <3>1. u \in Users /\ pomeloUser[u] # Nothing /\ pomeloUser[u].email = ask[c].email
      BY DEF WithThatEmail
    <3>2. InitialEmails[pomeloUser[u].of] = InitialEmails[ask[c].as]
      BY <1>0, <2>5, <3>1 DEF GetUserByEmail, OwnOK, OwnInv
    <3>3. pomeloUser[u].of \in Consumers
      BY <3>1 DEF CardsInv, CardsTypeOK, UserType
    <3>4. IsOf(u, ask[c].as)
      BY <1>0, <3>1, <3>2, <3>3 DEF EmailsAreOwn, IsOf
    <3>5. ask'[c].at = "saveUser" /\ ask'[c].user = u /\ ask'[c].as = ask[c].as
      BY <1>0 DEF With, AskType
    <3> QED BY <2>5, <3>4, <3>5 DEF GetUserByEmail, OwnOK, IsOf
  <2>6. CASE SaveUser(c)
    BY <1>0, <2>6, <2>ended DEF SaveUser, Lost, To, AskType, OwnOK
  <2>7. CASE CreatePomeloCard(c)
    BY <1>0, <2>7, <2>ended DEF CreatePomeloCard, Lost, With, AskType, OwnOK
  <2>8. CASE SaveCard(c)
    BY <1>0, <2>8, <2>ended DEF SaveCard, Lost
  <2> QED BY <2>1, <2>2, <2>3, <2>4, <2>5, <2>6, <2>7, <2>8 DEF CardStep
<1> QED BY <1>1, <1>3, <1>4, <1>5, <1>6 DEF OwnInv, IsOf

LEMMA OwnNextKeeps ==
    ASSUME EmailsAreOwn, CardsInv, OwnInv, [CardsNext]_cardVars
    PROVE  OwnInv'
<1> USE DEF At
<1> SUFFICES ASSUME ~Moving PROVE OwnInv'
  BY DEF CardsNext, cardVars, OwnInv, Moving
<1>1. CASE UNCHANGED cardVars
  BY <1>1 DEF cardVars, OwnInv, OwnOK, IsOf
<1>2. ASSUME NEW c \in Calls, CardStep(c) PROVE OwnInv'
  BY <1>2, StepKeepsOwn
<1>3. ASSUME NEW c \in Calls, NEW x \in Consumers, AskForCard(c, x) PROVE OwnInv'
  BY <1>3 DEF AskForCard, With, CardsInv, CardsTypeOK, AskType, OwnInv, OwnOK, IsOf
<1>4. ASSUME NEW x \in Consumers, EditIdentification(x) PROVE OwnInv'
  BY <1>4 DEF EditIdentification, OwnInv, OwnOK, IsOf
<1>5. ASSUME NEW x \in Consumers, NEW e \in Emails, ChangeEmail(x, e) PROVE OwnInv'
  BY <1>5 DEF ChangeEmail
<1>6. ASSUME NEW u \in Users, ChangeStatus(u) PROVE OwnInv'
  BY <1>6 DEF ChangeStatus, OwnInv, OwnOK, IsOf
<1> QED BY <1>1, <1>2, <1>3, <1>4, <1>5, <1>6 DEF CardsNext

\* While emails stay, a consumer's row names their own Pomelo user, also when the user
\* was not created but found by email: getUserByEmail asks for the consumer's email,
\* which is nobody else's.
THEOREM CardholdersAreOwn ==
    ASSUME EmailsAreOwn PROVE CardsSpec => []CardholderIsOwnIfStill
<1>1. CardsInit => CardsInv /\ OwnInv BY CardsInitOK, OwnInitOK
<1>2. (CardsInv /\ OwnInv) /\ [CardsNext]_cardVars => (CardsInv /\ OwnInv)'
  BY CardsNextKeeps, OwnNextKeeps
<1>3. CardsInv /\ OwnInv => CardholderIsOwnIfStill
  BY DEF OwnInv, CardholderIsOwnIfStill, IsOf
<1> QED BY <1>1, <1>2, <1>3, PTL DEF CardsSpec

-----------------------------------------------------------------------------
(* What an earlier call leaves to a later one *)

Busy(c) == ask[c].at \notin {"idle", "done"}
NoUserYet == {"documents", "create", "byEmail", "saveUser"}

\* While calls take turns, nobody saves a user between a call's look at the row and
\* its own write.
KnownBefore(x) == \E u \in EarlierUsers : InitialUsers[u].of = x

TurnOK(c) ==
    /\ Busy(c) => \A d \in Calls : Busy(d) => d = c
    /\ ask[c].at \in NoUserYet => userRow[ask[c].as] = Nothing
    /\ ask[c].at # "done" => ask[c].answer = "none"
    /\ c \in Reliable /\ ask[c].answer = "error" => HasCard(ask[c].as) \/ Blocking
    /\ At(c, "byEmail") => KnownBefore(ask[c].as)
    /\ ask[c].answer = "typeError" => Blocking /\ KnownBefore(ask[c].as)

TurnInv ==
    Serial /\ ~Moving =>
        /\ \A c \in Calls : TurnOK(c)
        /\ \A u \in EarlierUsers : pomeloUser[u] = InitialUsers[u]
        /\ Blocking \/ blocked = {}

LEMMA TurnInitOK == CardsInit => TurnInv
BY DEF CardsInit, NoCall, TurnInv, TurnOK, Busy, NoUserYet, At, Users

\* A card's row, once there, stays.
LEMMA CardsStay ==
    ASSUME CardsInv, NEW c \in Calls, CardStep(c), NEW x \in Consumers, HasCard(x)
    PROVE  HasCard(x)'
<1>1. PICK k \in Calls : cardRow[k] = x BY DEF HasCard
<1>2. x # Nothing BY CardsAssumption
<1>3. CASE SaveCard(c)
  <2>1. cardRow'[k] = x
    BY <1>1, <1>2, <1>3 DEF SaveCard, CardsInv, CardsTypeOK
  <2> QED BY <2>1 DEF HasCard
<1>4. CASE ~SaveCard(c)
  BY <1>4 DEF CardStep, LoadConsumer, FindUserRow, ReadIdentifications, CreateUser, GetUserByEmail,
              SaveUser, CreatePomeloCard, HasCard
<1> QED BY <1>3, <1>4

\* What a step of one call asks of itself, the others being at rest.
LEMMA OthersRest ==
    ASSUME CardsInv, Serial, ~Moving, TurnInv, NEW c \in Calls, CardStep(c),
           ask[c].at \notin {"idle", "done"},
           \A d \in Calls \ {c} : ask'[d] = ask[d],
           ask'[c].at \in NoUserYet => userRow'[ask'[c].as] = Nothing,
           ask'[c].at # "done" => ask'[c].answer = "none",
           c \in Reliable /\ ask'[c].answer = "error" =>
                (\E k \in Calls : cardRow'[k] = ask'[c].as) \/ Blocking,
           ask'[c].at = "byEmail" => KnownBefore(ask'[c].as),
           ask'[c].answer = "typeError" => Blocking /\ KnownBefore(ask'[c].as),
           world' = world
    PROVE  \A d \in Calls : TurnOK(d)'
<1>1. \A d \in Calls \ {c} : ~Busy(d) /\ TurnOK(d)
  BY DEF TurnInv, TurnOK, Busy
<1>2. ASSUME NEW d \in Calls \ {c} PROVE TurnOK(d)'
  <2>1. ask'[d] = ask[d] /\ ask[d].at \in {"idle", "done"} BY <1>1 DEF Busy
  <2>2. d \in Reliable /\ ask[d].answer = "error" =>
            (\E k \in Calls : cardRow'[k] = ask[d].as) \/ Blocking
    <3>1. ask[d].at = "done" /\ ask[d].answer = "error" => ask[d].as \in Consumers
      BY DEF CardsInv, AskOK, At
    <3>2. ask[d].answer = "error" => ask[d].at = "done" BY <1>1, <2>1 DEF TurnOK
    <3>3. d \in Reliable /\ ask[d].answer = "error" => HasCard(ask[d].as) \/ Blocking
      BY <1>1 DEF TurnOK
    <3>4. ASSUME NEW x \in Consumers, HasCard(x) PROVE \E k \in Calls : cardRow'[k] = x
      BY <3>4, CardsStay DEF HasCard
    <3> QED BY <3>1, <3>2, <3>3, <3>4
  <2>3. /\ ask[d].at # "done" => ask[d].answer = "none"
        /\ ask[d].answer = "typeError" => Blocking /\ KnownBefore(ask[d].as)
    BY <1>1 DEF TurnOK
  <2>4. KnownBefore(ask'[d].as) = KnownBefore(ask[d].as) /\ Blocking' = Blocking
    BY <2>1 DEF KnownBefore, Blocking
  <2> QED BY <2>1, <2>2, <2>3, <2>4 DEF TurnOK, Busy, NoUserYet, HasCard, At, KnownBefore
<1>3. TurnOK(c)'
  <2>1. \A d \in Calls : Busy(d)' => d = c BY <1>1 DEF Busy
  <2> QED BY <2>1 DEF TurnOK, HasCard, At, KnownBefore, Blocking
<1> QED BY <1>2, <1>3

LEMMA StepKeepsTurns ==
    ASSUME EmailsAreOwn, CardsInv, OwnInv, TurnInv, Serial, ~Moving, NEW c \in Calls,
           CardStep(c), UNCHANGED world
    PROVE  \A d \in Calls : TurnOK(d)'
<1> USE DEF At
<1>0. /\ ask \in [Calls -> AskType]
      /\ AskOK(c) /\ OwnOK(c) /\ TurnOK(c)
      /\ ask[c].at \notin {"idle", "done"} /\ ask[c].as \in Consumers
      /\ ask[c].answer = "none"
  <2>1. ask[c].at \notin {"idle", "done"}
    BY DEF CardStep, LoadConsumer, FindUserRow, ReadIdentifications, CreateUser, GetUserByEmail,
           SaveUser, CreatePomeloCard, SaveCard
  <2> QED BY <2>1 DEF CardsInv, CardsTypeOK, AskOK, OwnInv, TurnInv, TurnOK
<1>1. /\ \A d \in Calls \ {c} : ask'[d] = ask[d]
      /\ ask'[c].as = ask[c].as
      /\ ask'[c].at # "done" => ask'[c].answer = "none"
  <2>1. ask'[c].at # "done" => ~\E a \in {"refused", "error", "typeError", "created"} : Ends(c, a)
    BY <1>0 DEF Ends, AskType
  <2> QED
    BY <1>0, <2>1 DEF CardStep, LoadConsumer, FindUserRow, ReadIdentifications, CreateUser,
                GetUserByEmail, SaveUser, CreatePomeloCard, SaveCard, To, With, Ends, Lost, AskType
<1>2. ask'[c].at \in NoUserYet => userRow'[ask'[c].as] = Nothing
  <2>1. CASE FindUserRow(c)
    BY <1>0, <1>1, <2>1 DEF FindUserRow, To, With, Lost, Ends, AskType, NoUserYet
  <2>2. CASE ReadIdentifications(c) \/ CreateUser(c) \/ GetUserByEmail(c)
    <3>1. userRow[ask[c].as] = Nothing /\ userRow' = userRow
      BY <1>0, <2>2 DEF ReadIdentifications, CreateUser, GetUserByEmail, TurnOK, NoUserYet
    <3> QED BY <1>1, <3>1
  <2>3. CASE LoadConsumer(c) \/ SaveUser(c) \/ CreatePomeloCard(c) \/ SaveCard(c)
    <3>1. ask'[c].at \in {"user", "card", "saveCard", "done"}
      BY <1>0, <2>3 DEF LoadConsumer, SaveUser, CreatePomeloCard, SaveCard, To, With, Ends, Lost,
                        AskType
    <3> QED BY <3>1 DEF NoUserYet
  <2> QED BY <2>1, <2>2, <2>3 DEF CardStep
<1>3. ASSUME c \in Reliable, ask'[c].answer = "error"
      PROVE  (\E k \in Calls : cardRow'[k] = ask'[c].as) \/ Blocking
  <2>0. ~MayFail(c) BY <1>3 DEF MayFail
  <2>1. Ends(c, "error")
    BY <1>0, <1>3 DEF CardStep, LoadConsumer, FindUserRow, ReadIdentifications, CreateUser,
                GetUserByEmail, SaveUser, CreatePomeloCard, SaveCard, To, With, Ends, Lost, AskType
  <2>2. ask'[c].at = "done" BY <1>0, <2>1 DEF Ends, AskType
  <2>3. CASE SaveUser(c)
    <3>1. ask[c].user \in Users /\ userRow[ask[c].as] = Nothing
          /\ IsOf(ask[c].user, ask[c].as)
      BY <1>0, <2>3 DEF SaveUser, AskOK, OwnOK, TurnOK, NoUserYet
    <3>2. ASSUME NEW y \in Consumers PROVE userRow[y] # ask[c].user
      <4>1. userRow[y] = ask[c].user => IsOf(ask[c].user, y)
        BY <3>1, CardsAssumption DEF OwnInv
      <4> QED BY <3>1, <4>1, CardsAssumption DEF IsOf
    <3>3. To(c, "card") BY <2>0, <2>3, <3>1, <3>2 DEF SaveUser, Lost
    <3> QED BY <1>0, <2>2, <3>3 DEF To, AskType
  <2>4. CASE SaveCard(c)
    <3> DEFINE k == ask[c].card
    <3>1. k \in Calls /\ pomeloCard[k] = ask[c].user /\ userRow[ask[c].as] = ask[c].user
          /\ ask[c].user \in Users
      BY <1>0, <2>4 DEF SaveCard, AskOK
    <3>2. cardRow[k] # Nothing /\ cardRow' = cardRow
      <4>1. CASE cardRow' = [cardRow EXCEPT ![k] = ask[c].as] /\ Ends(c, "created")
        BY <1>0, <1>3, <4>1 DEF Ends, AskType
      <4> QED BY <2>0, <2>4, <4>1 DEF SaveCard, Lost
    <3>3. cardRow[k] \in Consumers /\ userRow[cardRow[k]] = ask[c].user
      BY <3>1, <3>2 DEF CardsInv, CardsTypeOK, OneCardEach
    <3>4. cardRow[k] = ask[c].as
      <4>1. IsOf(ask[c].user, cardRow[k]) /\ IsOf(ask[c].user, ask[c].as)
        BY <1>0, <3>1, <3>3, CardsAssumption DEF OwnInv
      <4> QED BY <4>1 DEF IsOf
    <3> QED BY <1>1, <3>1, <3>2, <3>4
  <2>5. CASE LoadConsumer(c) \/ FindUserRow(c) \/ ReadIdentifications(c) \/ CreateUser(c)
             \/ GetUserByEmail(c)
    BY <1>0, <1>3, <2>0, <2>5 DEF LoadConsumer, FindUserRow, ReadIdentifications, CreateUser,
            GetUserByEmail, To, With, Ends, Lost, AskType
  <2>6. CASE CreatePomeloCard(c)
    <3>1. ASSUME blocked = {} PROVE FALSE
      BY <1>0, <1>3, <2>0, <2>6, <3>1 DEF CreatePomeloCard, With, Ends, Lost, AskType
    <3> QED BY <3>1 DEF TurnInv
  <2> QED BY <2>3, <2>4, <2>5, <2>6 DEF CardStep
<1>4. ASSUME ask'[c].at = "byEmail" PROVE KnownBefore(ask'[c].as)
  <2>1. CreateUser(c) /\ To(c, "byEmail")
    BY <1>0, <1>4 DEF CardStep, LoadConsumer, FindUserRow, ReadIdentifications, CreateUser,
                GetUserByEmail, SaveUser, CreatePomeloCard, SaveCard, To, With, Ends, Lost, AskType
  <2>2. PICK u \in WithThatEmail(ask[c].email) \cup SamePerson(ask[c].as) : TRUE
    BY <1>0, <1>4, <2>1 DEF CreateUser, With, Ends, Lost, AskType
  <2>3. CreatedFor(ask[c].as) = {}
    BY <1>0, <1>4, <2>1 DEF CreateUser, With, Ends, Lost, AskType
  <2>4. u \in Users /\ IsOf(u, ask[c].as)
    <3>1. CASE u \in SamePerson(ask[c].as) BY <3>1 DEF SamePerson, IsOf
    <3>2. CASE u \in WithThatEmail(ask[c].email)
      <4>1. u \in Users /\ pomeloUser[u] # Nothing /\ pomeloUser[u].email = ask[c].email
        BY <3>2 DEF WithThatEmail
      <4>2. InitialEmails[pomeloUser[u].of] = InitialEmails[ask[c].as]
        BY <1>0, <2>1, <4>1 DEF CreateUser, OwnOK, OwnInv
      <4>3. pomeloUser[u].of \in Consumers
        BY <4>1 DEF CardsInv, CardsTypeOK, UserType
      <4> QED BY <1>0, <4>1, <4>2, <4>3 DEF EmailsAreOwn, IsOf
    <3> QED BY <2>2, <3>1, <3>2
  <2>5. u \in EarlierUsers BY <2>3, <2>4 DEF CreatedFor, IsOf, Users
  <2>6. InitialUsers[u].of = ask[c].as BY <2>4, <2>5 DEF TurnInv, IsOf
  <2> QED BY <1>1, <2>5, <2>6 DEF KnownBefore
<1>5. ASSUME ask'[c].answer = "typeError" PROVE Blocking /\ KnownBefore(ask'[c].as)
  <2>1. GetUserByEmail(c) /\ WithThatEmail(ask[c].email) \ blocked = {}
    BY <1>0, <1>5 DEF CardStep, LoadConsumer, FindUserRow, ReadIdentifications, CreateUser,
                GetUserByEmail, SaveUser, CreatePomeloCard, SaveCard, To, With, Ends, Lost, AskType
  <2>2. PICK u \in EarlierUsers : InitialUsers[u].of = ask[c].as
    BY <1>0, <2>1 DEF GetUserByEmail, TurnOK, KnownBefore
  <2>3. u \in Users /\ pomeloUser[u] = InitialUsers[u] /\ pomeloUser[u] # Nothing
    BY CardsAssumption DEF TurnInv, Users
  <2>4. u \in WithThatEmail(ask[c].email)
    BY <1>0, <2>1, <2>2, <2>3 DEF GetUserByEmail, OwnOK, OwnInv, WithThatEmail
  <2>5. blocked # {} BY <2>1, <2>4
  <2> QED BY <1>1, <2>2, <2>5 DEF TurnInv, KnownBefore
<1>6. world' = world OBVIOUS
<1> QED BY <1>0, <1>1, <1>2, <1>3, <1>4, <1>5, <1>6, OthersRest

LEMMA TurnNextKeeps ==
    ASSUME EmailsAreOwn, CardsInv, OwnInv, TurnInv, [CardsNext]_cardVars
    PROVE  TurnInv'
<1> SUFFICES ASSUME Serial, ~Moving
             PROVE  /\ \A c \in Calls : TurnOK(c)'
                    /\ \A u \in EarlierUsers : pomeloUser'[u] = InitialUsers[u]
                    /\ Blocking \/ blocked' = {}
  BY DEF CardsNext, cardVars, TurnInv, Serial, Moving, Blocking
<1>0. /\ \A c \in Calls : TurnOK(c)
      /\ \A u \in EarlierUsers : pomeloUser[u] = InitialUsers[u] /\ pomeloUser[u] # Nothing
      /\ Blocking \/ blocked = {}
  BY CardsAssumption DEF TurnInv
<1>a. UNCHANGED world BY DEF CardsNext, cardVars
<1> USE <1>a DEF Blocking, KnownBefore
<1>1. CASE UNCHANGED cardVars
  BY <1>0, <1>1 DEF cardVars, TurnOK, Busy, HasCard, At
<1>2. ASSUME NEW c \in Calls, CardStep(c), UNCHANGED blocked
      PROVE  /\ \A d \in Calls : TurnOK(d)'
             /\ \A u \in EarlierUsers : pomeloUser'[u] = InitialUsers[u]
  <2>1. \A u \in EarlierUsers : pomeloUser'[u] = InitialUsers[u]
    BY <1>0, <1>2, UsersStay DEF Users
  <2>2. \A d \in Calls : TurnOK(d)'
    BY <1>2, StepKeepsTurns
  <2> QED BY <2>1, <2>2
<1>3. ASSUME NEW c \in Calls, NEW x \in Consumers, AskForCard(c, x)
      PROVE  \A d \in Calls : TurnOK(d)'
  <2>1. /\ \A d \in Calls \ {c} : ask'[d] = ask[d]
        /\ ask'[c].at = "consumer" /\ ask'[c].answer = ask[c].answer
        /\ UNCHANGED <<userRow, cardRow>>
    BY <1>3 DEF AskForCard, With, CardsInv, CardsTypeOK, AskType
  <2>2. ask[c].answer = "none" /\ \A d \in Calls : ~Busy(d)
    BY <1>0, <1>3 DEF AskForCard, At, TurnOK, Busy
  <2>3. TurnOK(c)'
    BY <2>1, <2>2 DEF TurnOK, Busy, NoUserYet, At
  <2>4. ASSUME NEW d \in Calls \ {c} PROVE TurnOK(d)'
    BY <1>0, <2>1, <2>2, <2>4 DEF TurnOK, Busy, HasCard, At
  <2> QED BY <2>3, <2>4
<1>4. ASSUME NEW x \in Consumers, EditIdentification(x) PROVE \A d \in Calls : TurnOK(d)'
  BY <1>0, <1>4 DEF EditIdentification, TurnOK, Busy, HasCard, At
<1>5. ASSUME NEW x \in Consumers, NEW e \in Emails, ChangeEmail(x, e) PROVE FALSE
  BY <1>5 DEF ChangeEmail
<1>6. ASSUME NEW u \in Users, ChangeStatus(u)
      PROVE  Blocking /\ UNCHANGED pomeloUser /\ \A d \in Calls : TurnOK(d)'
  BY <1>0, <1>6 DEF ChangeStatus, TurnOK, Busy, HasCard, At
<1>7. ASSUME NEW c \in Calls, NEW x \in Consumers, AskForCard(c, x) \/ EditIdentification(x)
      PROVE  UNCHANGED pomeloUser
  BY <1>7 DEF AskForCard, EditIdentification
<1> QED
  <2>1. CASE UNCHANGED cardVars BY <1>0, <1>1, <2>1 DEF cardVars
  <2>2. CASE \E c \in Calls : CardStep(c) /\ UNCHANGED blocked BY <1>0, <1>2, <2>2
  <2>3. CASE \E c \in Calls, x \in Consumers : AskForCard(c, x) /\ UNCHANGED blocked
    BY <1>0, <1>3, <1>7, <2>3
  <2>4. CASE \E x \in Consumers : EditIdentification(x) /\ UNCHANGED blocked
    <3>1. UNCHANGED pomeloUser BY <2>4 DEF EditIdentification
    <3> QED BY <1>0, <1>4, <2>4, <3>1
  <2>5. CASE \E u \in Users : ChangeStatus(u) BY <1>0, <1>6, <2>5
  <2> QED BY <1>5, <2>1, <2>2, <2>3, <2>4, <2>5 DEF CardsNext

\* While calls take turns, emails stay and Pomelo blocks nobody, no call that failed, at any
\* of its steps, keeps a later one from the card: the later call finds the user by key, by
\* email or in the row, and the card by key, and refuses only if the card's rows are there.
\* Where Pomelo blocks users, the lookup by email (pomelo.client.ts, filter[status]=ACTIVE)
\* comes back with nothing only for consumers whom Pomelo knew before.
THEOREM AskingAgainHelps ==
    ASSUME EmailsAreOwn PROVE CardsSpec => []AskedAgainGetsItInTurn
<1>1. CardsInit => CardsInv /\ OwnInv /\ TurnInv BY CardsInitOK, OwnInitOK, TurnInitOK
<1>2. (CardsInv /\ OwnInv /\ TurnInv) /\ [CardsNext]_cardVars => (CardsInv /\ OwnInv /\ TurnInv)'
  BY CardsNextKeeps, OwnNextKeeps, TurnNextKeeps
<1>3. CardsInv /\ OwnInv /\ TurnInv => AskedAgainGetsItInTurn
  <2>1. Reliable \subseteq Calls BY CardsAssumption
  <2> QED BY <2>1 DEF TurnInv, TurnOK, KnownBefore, AskedAgainGetsItInTurn
<1> QED BY <1>1, <1>2, <1>3, PTL DEF CardsSpec
=============================================================================
