------------------------- MODULE TradeEngineProofs -------------------------
(***************************************************************************)
(* The trade engine's connections and its order table.                     *)
(*                                                                         *)
(* CtpSession: types, the order of the flags and the books of the          *)
(* accounts, for every set of accounts and instruments, every setting, and *)
(* any number of lost connections, closed engines and queries.             *)
(*                                                                         *)
(* OrderTable: live orders are found, and reports and trades go to the     *)
(* request they belong to, for every set of orders, every size of the      *)
(* table and any number of sessions.                                       *)
(***************************************************************************)
EXTENDS CtpSession, OrderTable, FiniteSetTheorems, WellFoundedInduction, TLAPS

(* The flags agree because each dialog answer builds on the one before,    *)
DialogFollows ==
  listener # "closing" =>
    \A a \in Accounts :
      /\ dialog[a] = "login" => (need_authenticate => unit[a].authenticated)
      /\ dialog[a] = "settle" => unit[a].logged_in

(* because a flag is set only by a callback of an API that is connected,   *)
ApiFirst ==
  \A a \in Accounts :
    /\ unit[a].logged_in => unit[a].connected
    /\ unit[a].connected => unit[a].api

(* and because on_engine_close ends with every API released.               *)
ClosingInOrder ==
  /\ listener = "closing" => MaxCloses # 0
  /\ \A a \in Accounts :
       /\ taken[a] = "api" => unit[a] = Released(unit[a]) /\ a \notin leaving
       /\ listener # "closing" => taken[a] = "nothing" /\ a \notin leaving

IInv == TypeOK /\ FlagsInOrder /\ DialogFollows /\ ApiFirst /\ ClosingInOrder

-----------------------------------------------------------------------------
(* The requests a handler may leave behind have the types of requests. *)

LEMMA SendDialogType ==
  ASSUME TypeOK, NEW a \in Accounts, NEW kind \in Dialogs, SendDialog(a, kind)
  PROVE  /\ dialog' \in [Accounts -> Dialogs \cup {"none"}]
         /\ dialog'[a] \in {kind, "none"}
         /\ \A b \in Accounts \ {a} : dialog'[b] = dialog[b]
BY DEF SendDialog, TypeOK

LEMMA SendNothingType ==
  ASSUME TypeOK, NEW a \in Accounts, SendNothing(a)
  PROVE  /\ dialog' \in [Accounts -> Dialogs \cup {"none"}]
         /\ dialog'[a] = "none"
         /\ \A b \in Accounts \ {a} : dialog'[b] = dialog[b]
BY DEF SendNothing, TypeOK

LEMMA AskType ==
  ASSUME TypeOK, NEW a \in Accounts, NEW kind \in Queries,
         NEW rest \in Seq(QueryType), Ask(a, kind, rest)
  PROVE  /\ asked' \in [Accounts -> Seq(QueryType)]
         /\ request_id' \in Nat \ {NoRid}
         /\ \A b \in Accounts \ {a} : asked'[b] = asked[b]
<1>1. request_id \in Nat \ {NoRid} /\ asked \in [Accounts -> Seq(QueryType)]
  BY DEF TypeOK
<1>2. request_id' = request_id + 1
  BY DEF Ask
<1>3. Query(kind, request_id, Rows) \in QueryType /\ Query(kind, request_id + 1, Rows) \in QueryType
  BY <1>1 DEF Query, QueryType
<1>4. /\ Append(rest, Query(kind, request_id, Rows)) \in Seq(QueryType)
      /\ Append(rest, Query(kind, request_id + 1, Rows)) \in Seq(QueryType)
  BY <1>3
<1>5. PICK s \in Seq(QueryType) : asked' = [asked EXCEPT ![a] = s]
  BY <1>4 DEF Ask
<1>6. asked' \in [Accounts -> Seq(QueryType)] /\ \A b \in Accounts \ {a} : asked'[b] = asked[b]
  BY <1>1, <1>5
<1> QED
  BY <1>1, <1>2, <1>6 DEF NoRid

LEMMA AnsweringType ==
  ASSUME TypeOK, NEW a \in Accounts, asked[a] # << >>, NEW r
  PROVE  /\ Head(asked[a]) \in QueryType
         /\ Tail(asked[a]) \in Seq(QueryType)
         /\ Answered(a, r) \in Seq(QueryType)
<1>1. asked[a] \in Seq(QueryType)
  BY DEF TypeOK
<1>2. Head(asked[a]) \in QueryType /\ Tail(asked[a]) \in Seq(QueryType)
  BY <1>1
<1>3. [Head(asked[a]) EXCEPT !.rows = @ \ {r}] \in QueryType
  BY <1>2 DEF QueryType
<1>4. <<[Head(asked[a]) EXCEPT !.rows = @ \ {r}]>> \o Tail(asked[a]) \in Seq(QueryType)
  BY <1>2, <1>3
<1> QED
  BY <1>2, <1>4 DEF Answered

LEMMA ConsumeType ==
  ASSUME TypeOK, NEW a \in Accounts, asked[a] # << >>, NEW r, Consume(a, r)
  PROVE  /\ asked' \in [Accounts -> Seq(QueryType)]
         /\ request_id' \in Nat \ {NoRid}
         /\ \A b \in Accounts \ {a} : asked'[b] = asked[b]
BY AnsweringType DEF Consume, TypeOK

LEMMA AddedType ==
  ASSUME TypeOK, NEW a \in Accounts, asked[a] # << >>, NEW r \in Records(a),
         NEW part \in {"locks", "today", "yesterday"}
  PROVE  Added(a, part, r) \in [Accounts -> BookType]
<1>1. book \in [Accounts -> BookType]
  BY DEF TypeOK
<1>2. r # Null => r \in Rows
  BY AnsweringType DEF Records, QueryType
<1>3. CASE r = Null
  BY <1>1, <1>3 DEF Added
<1>4. CASE r # Null
  <2>1. book[a] \in BookType /\ r \in Rows
    BY <1>1, <1>2, <1>4
  <2>2. book[a][part] \in [Rows -> Nat]
    BY <2>1 DEF BookType
  <2>3. [book[a][part] EXCEPT ![r] = @ + 1] \in [Rows -> Nat]
    BY <2>1, <2>2
  <2>4. [book[a] EXCEPT ![part] = [book[a][part] EXCEPT ![r] = @ + 1]] \in BookType
    BY <2>1, <2>3 DEF BookType
  <2>5. Added(a, part, r) = [book EXCEPT ![a] = [book[a] EXCEPT ![part] = [book[a][part] EXCEPT ![r] = @ + 1]]]
    BY <1>4 DEF Added
  <2> QED
    BY <1>1, <2>4, <2>5
<1> QED
  BY <1>3, <1>4

-----------------------------------------------------------------------------
(* Every step keeps the inductive invariant.  The flags of the account the *)
(* step is about are looked at one by one; those of the others do not      *)
(* change.                                                                 *)

LEMMA InitIInv == Init => IInv
<1> SUFFICES ASSUME Init PROVE IInv
  OBVIOUS
<1>1. NewUnit \in UnitType
  BY DEF NewUnit, UnitType, NoRid
<1>2. unit \in [Accounts -> UnitType] /\ request_id \in Nat \ {NoRid}
  BY <1>1 DEF Init, NoRid
<1>3. /\ dialog \in [Accounts -> Dialogs \cup {"none"}]
      /\ asked \in [Accounts -> Seq(QueryType)]
      /\ lockInfo \in [Accounts -> SUBSET Rows]
      /\ listener \in {"starting", "running", "closing", "none"}
      /\ taken \in [Accounts -> Takings] /\ leaving \subseteq Accounts
  BY DEF Init, Takings
<1>4. book \in [Accounts -> BookType]
  BY DEF Init, EmptyBook, BookType
<1>5. budget \in BudgetType
  BY BoundsAssumption DEF Init, BudgetType
<1>6. FlagsInOrder /\ DialogFollows /\ ApiFirst /\ ClosingInOrder
  BY DEF Init, NewUnit, FlagsInOrder, DialogFollows, ApiFirst, ClosingInOrder
<1> QED
  BY <1>2, <1>3, <1>4, <1>5, <1>6 DEF IInv, TypeOK

(* What is left to show of a step of a thread other than the listening     *)
(* thread: an account whose API was released takes no part in it.          *)
LEMMA AwayFromClosing ==
  ASSUME IInv, NEW a \in Accounts, unit[a].api, UNCHANGED <<taken, listener>>,
         leaving' \subseteq leaving, \A b \in Accounts \ {a} : unit'[b] = unit[b]
  PROVE  ClosingInOrder'
<1>1. ASSUME NEW b \in Accounts, taken[b] = "api" PROVE b # a
  <2>1. unit[b] = Released(unit[b]) /\ unit[b] \in UnitType
    BY <1>1 DEF IInv, ClosingInOrder, TypeOK
  <2>2. ~unit[b].api
    BY <2>1 DEF Released, UnitType
  <2> QED
    BY <2>2
<1> QED
  BY <1>1 DEF IInv, ClosingInOrder

LEMMA FrontConnectedStep ==
  ASSUME IInv, NEW a \in Accounts, OnFrontConnected(a)
  PROVE  IInv'
<1>1. unit \in [Accounts -> UnitType] /\ unit[a] \in UnitType
  BY DEF IInv, TypeOK
<1>2. unit' \in [Accounts -> UnitType]
  BY <1>1 DEF OnFrontConnected, UnitType
<1>3. /\ dialog' \in [Accounts -> Dialogs \cup {"none"}]
      /\ dialog'[a] \in {"auth", "login", "none"}
      /\ dialog'[a] = "login" => (need_authenticate => unit[a].authenticated)
      /\ \A b \in Accounts \ {a} : dialog'[b] = dialog[b]
  <2>1. CASE need_authenticate /\ ~unit[a].authenticated
    BY <2>1, SendDialogType DEF IInv, OnFrontConnected, Dialogs
  <2>2. CASE ~(need_authenticate /\ ~unit[a].authenticated) /\ ~unit[a].logged_in
    <3>1. SendDialog(a, "login")
      BY <2>2 DEF OnFrontConnected
    <3>2. (dialog' \in [Accounts -> Dialogs \cup {"none"}]) /\ dialog'[a] \in {"login", "none"}
          /\ \A b \in Accounts \ {a} : dialog'[b] = dialog[b]
      BY <3>1, SendDialogType DEF IInv, Dialogs
    <3>3. need_authenticate => unit[a].authenticated
      BY <2>2
    <3> QED
      BY <3>2, <3>3
  <2>3. CASE ~(need_authenticate /\ ~unit[a].authenticated) /\ unit[a].logged_in
    BY <2>3, <1>1 DEF IInv, FlagsInOrder, OnFrontConnected, TypeOK
  <2> QED
    BY <2>1, <2>2, <2>3
<1>4. TypeOK'
  BY <1>2, <1>3 DEF IInv, TypeOK, OnFrontConnected
<1>5. FlagsInOrder'
  BY <1>1, <1>3 DEF IInv, FlagsInOrder, OnFrontConnected, UnitType
<1>6. DialogFollows'
  BY <1>1, <1>3 DEF IInv, DialogFollows, OnFrontConnected, UnitType
<1>7. ApiFirst'
  BY <1>1 DEF IInv, ApiFirst, OnFrontConnected, UnitType
<1>8. ClosingInOrder'
  BY <1>1, AwayFromClosing DEF OnFrontConnected
<1> QED
  BY <1>4, <1>5, <1>6, <1>7, <1>8 DEF IInv

LEMMA DisconnectedStep ==
  ASSUME IInv, NEW a \in Accounts, OnFrontDisconnected(a)
  PROVE  IInv'
<1>1. unit \in [Accounts -> UnitType] /\ unit[a] \in UnitType
  BY DEF IInv, TypeOK
<1>2. Disconnected(a) \in UnitType
  BY <1>1 DEF Disconnected, NewUnit, UnitType
<1>3. unit' = [unit EXCEPT ![a] = Disconnected(a)]
  BY DEF OnFrontDisconnected, Disconnect
<1>4. unit' \in [Accounts -> UnitType]
  BY <1>1, <1>2, <1>3
<1>5. /\ dialog' \in [Accounts -> Dialogs \cup {"none"}]
      /\ asked' \in [Accounts -> Seq(QueryType)]
      /\ lockInfo' \in [Accounts -> SUBSET Rows]
      /\ request_id' \in Nat \ {NoRid}
      /\ listener' \in {"starting", "running", "closing", "none"}
      /\ taken' \in [Accounts -> Takings] /\ leaving' \subseteq Accounts
  BY DEF IInv, TypeOK, OnFrontDisconnected, Disconnect
<1>6. book' \in [Accounts -> BookType]
  <2>1. EmptyBook \in BookType
    BY DEF EmptyBook, BookType
  <2> QED
    BY <2>1 DEF IInv, TypeOK, OnFrontDisconnected, Disconnect
<1>7. budget' \in BudgetType
  <2>1. budget \in BudgetType /\ budget.disconnects > 0
    BY DEF IInv, TypeOK, OnFrontDisconnected, Disconnect
  <2>2. budget.disconnects - 1 \in 0 .. MaxDisconnects
    BY <2>1, BoundsAssumption DEF BudgetType
  <2>3. budget' = [budget EXCEPT !.disconnects = budget.disconnects - 1]
    BY DEF OnFrontDisconnected, Disconnect
  <2> QED
    BY <2>1, <2>2, <2>3 DEF BudgetType
<1>8. /\ dialog' = [dialog EXCEPT ![a] = "none"] /\ asked' = [asked EXCEPT ![a] = << >>]
      /\ listener' = listener
  BY DEF OnFrontDisconnected, Disconnect
<1> DEFINE u == Disconnected(a)
<1> HIDE DEF u
<1>9. unit' = [unit EXCEPT ![a] = u] /\ ~u.settle_confirmed /\ ~u.logged_in /\ ~u.connected
  BY <1>3 DEF u, Disconnected, NewUnit
<1>12. FlagsInOrder' /\ DialogFollows'
  <2>1. dialog'[a] = "none" /\ asked'[a] = << >> /\ unit'[a] = u
    BY <1>1, <1>8, <1>9 DEF IInv, TypeOK
  <2>2. \A b \in Accounts \ {a} : dialog'[b] = dialog[b] /\ asked'[b] = asked[b] /\ unit'[b] = unit[b]
    BY <1>1, <1>8, <1>9 DEF IInv, TypeOK
  <2> QED
    BY <1>8, <1>9, <2>1, <2>2 DEF IInv, FlagsInOrder, DialogFollows
<1>10. ApiFirst'
  BY <1>1, <1>9 DEF IInv, ApiFirst
<1>11. ClosingInOrder'
  BY <1>1, <1>3, AwayFromClosing DEF OnFrontDisconnected, Disconnect
<1> QED
  BY <1>4, <1>5, <1>6, <1>7, <1>10, <1>11, <1>12 DEF IInv, TypeOK

LEMMA AuthenticateStep ==
  ASSUME IInv, NEW a \in Accounts, OnRspAuthenticate(a)
  PROVE  IInv'
<1>1. unit \in [Accounts -> UnitType] /\ unit[a] \in UnitType /\ dialog[a] = "auth"
  BY DEF IInv, TypeOK, OnRspAuthenticate
<1>2. unit' \in [Accounts -> UnitType]
  BY <1>1 DEF OnRspAuthenticate, UnitType
<1>3. /\ dialog' \in [Accounts -> Dialogs \cup {"none"}]
      /\ dialog'[a] \in {"login", "none"}
      /\ \A b \in Accounts \ {a} : dialog'[b] = dialog[b]
  BY SendDialogType, SendNothingType DEF IInv, OnRspAuthenticate, Dialogs
<1>4. TypeOK'
  BY <1>2, <1>3 DEF IInv, TypeOK, OnRspAuthenticate
<1>5. FlagsInOrder'
  BY <1>1, <1>3 DEF IInv, FlagsInOrder, OnRspAuthenticate, UnitType
<1>6. DialogFollows'
  BY <1>1, <1>3 DEF IInv, DialogFollows, OnRspAuthenticate, UnitType
<1>7. unit[a].api /\ unit[a].connected
  BY <1>1 DEF IInv, FlagsInOrder
<1>8. ApiFirst'
  BY <1>1, <1>7 DEF IInv, ApiFirst, OnRspAuthenticate, UnitType
<1>9. ClosingInOrder'
  BY <1>1, <1>7, AwayFromClosing DEF OnRspAuthenticate
<1> QED
  BY <1>4, <1>5, <1>6, <1>8, <1>9 DEF IInv

LEMMA UserLoginStep ==
  ASSUME IInv, NEW a \in Accounts, OnRspUserLogin(a)
  PROVE  IInv'
<1>1. unit \in [Accounts -> UnitType] /\ unit[a] \in UnitType /\ dialog[a] = "login"
  BY DEF IInv, TypeOK, OnRspUserLogin
<1>2. unit' \in [Accounts -> UnitType]
  BY <1>1 DEF OnRspUserLogin, UnitType
<1>3. /\ dialog' \in [Accounts -> Dialogs \cup {"none"}]
      /\ dialog'[a] \in {"settle", "none"}
      /\ \A b \in Accounts \ {a} : dialog'[b] = dialog[b]
  BY SendDialogType, SendNothingType DEF IInv, OnRspUserLogin, Dialogs
<1>4. TypeOK'
  BY <1>2, <1>3 DEF IInv, TypeOK, OnRspUserLogin
<1>5. FlagsInOrder'
  BY <1>1, <1>3 DEF IInv, FlagsInOrder, DialogFollows, OnRspUserLogin, UnitType
<1>6. DialogFollows'
  BY <1>1, <1>3 DEF IInv, DialogFollows, OnRspUserLogin, UnitType
<1>7. unit[a].api /\ unit[a].connected
  BY <1>1 DEF IInv, FlagsInOrder
<1>8. ApiFirst'
  BY <1>1, <1>7 DEF IInv, ApiFirst, OnRspUserLogin, UnitType
<1>9. ClosingInOrder'
  BY <1>1, <1>7, AwayFromClosing DEF OnRspUserLogin
<1> QED
  BY <1>4, <1>5, <1>6, <1>8, <1>9 DEF IInv

LEMMA SettlementStep ==
  ASSUME IInv, NEW a \in Accounts, OnRspSettlementInfoConfirm(a)
  PROVE  IInv'
<1>1. /\ unit \in [Accounts -> UnitType] /\ unit[a] \in UnitType
      /\ dialog[a] = "settle" /\ request_id \in Nat \ {NoRid}
      /\ asked \in [Accounts -> Seq(QueryType)]
  BY DEF IInv, TypeOK, OnRspSettlementInfoConfirm
<1> DEFINE u == [unit[a] EXCEPT !.settle_confirmed = TRUE]
           v == [unit[a] EXCEPT !.settle_confirmed = TRUE, !.setOrder_rid = request_id]
<1>2. PICK w \in UnitType :
        /\ unit' = [unit EXCEPT ![a] = w]
        /\ w.settle_confirmed /\ w.logged_in = unit[a].logged_in
        /\ w.connected = unit[a].connected /\ w.api = unit[a].api
        /\ w.authenticated = unit[a].authenticated
  <2>1. u \in UnitType /\ v \in UnitType
    BY <1>1 DEF UnitType
  <2>2. unit' = [unit EXCEPT ![a] = u] \/ unit' = [unit EXCEPT ![a] = v]
    BY DEF OnRspSettlementInfoConfirm
  <2>3. CASE unit' = [unit EXCEPT ![a] = u]
    BY <2>1, <2>3, <1>1 DEF UnitType
  <2>4. CASE unit' = [unit EXCEPT ![a] = v]
    BY <2>1, <2>4, <1>1 DEF UnitType
  <2> QED
    BY <2>2, <2>3, <2>4
<1>3. /\ dialog' \in [Accounts -> Dialogs \cup {"none"}]
      /\ dialog'[a] = "none"
      /\ \A b \in Accounts \ {a} : dialog'[b] = dialog[b]
  BY SendNothingType DEF IInv, OnRspSettlementInfoConfirm
<1>4. /\ asked' \in [Accounts -> Seq(QueryType)] /\ request_id' \in Nat \ {NoRid}
      /\ \A b \in Accounts \ {a} : asked'[b] = asked[b]
      /\ listener' = listener
  BY <1>1, AskType DEF IInv, OnRspSettlementInfoConfirm, Queries
<1>5. TypeOK'
  BY <1>1, <1>2, <1>3, <1>4 DEF IInv, TypeOK, OnRspSettlementInfoConfirm
<1>6. FlagsInOrder'
  BY <1>1, <1>2, <1>3, <1>4 DEF IInv, FlagsInOrder, DialogFollows
<1>7. DialogFollows'
  BY <1>1, <1>2, <1>3, <1>4 DEF IInv, DialogFollows
<1>8. unit[a].api
  BY <1>1 DEF IInv, FlagsInOrder
<1>9. ApiFirst'
  BY <1>1, <1>2 DEF IInv, ApiFirst
<1>10. ClosingInOrder'
  BY <1>1, <1>2, <1>8, AwayFromClosing DEF OnRspSettlementInfoConfirm
<1> QED
  BY <1>5, <1>6, <1>7, <1>9, <1>10 DEF IInv

LEMMA ErrorAnswerStep ==
  ASSUME IInv, NEW a \in Accounts, OnErrorAnswer(a)
  PROVE  IInv'
<1>1. /\ dialog' \in [Accounts -> Dialogs \cup {"none"}]
      /\ dialog'[a] = "none"
      /\ \A b \in Accounts \ {a} : dialog'[b] = dialog[b]
  BY SendNothingType DEF IInv, OnErrorAnswer
<1>2. TypeOK'
  BY <1>1 DEF IInv, TypeOK, OnErrorAnswer
<1>3. FlagsInOrder' /\ DialogFollows' /\ ApiFirst' /\ ClosingInOrder'
  BY <1>1 DEF IInv, FlagsInOrder, DialogFollows, ApiFirst, ClosingInOrder, OnErrorAnswer
<1> QED
  BY <1>2, <1>3 DEF IInv

(* The answers to queries touch only the initialisation flags. *)
LEMMA QueryStep ==
  ASSUME IInv, NEW a \in Accounts, NEW u \in UnitType,
         asked[a] # << >>,
         unit' = [unit EXCEPT ![a] = u],
         u.api = unit[a].api, u.connected = unit[a].connected,
         u.authenticated = unit[a].authenticated, u.logged_in = unit[a].logged_in,
         u.settle_confirmed = unit[a].settle_confirmed,
         asked' \in [Accounts -> Seq(QueryType)],
         \A b \in Accounts \ {a} : asked'[b] = asked[b],
         request_id' \in Nat \ {NoRid},
         book' \in [Accounts -> BookType],
         lockInfo' \in [Accounts -> SUBSET Rows],
         UNCHANGED <<dialog, listener, taken, leaving, budget>>
  PROVE  IInv'
<1>1. unit \in [Accounts -> UnitType]
  BY DEF IInv, TypeOK
<1>2. unit' \in [Accounts -> UnitType]
  BY <1>1
<1>3. TypeOK'
  BY <1>2 DEF IInv, TypeOK
<1>4. FlagsInOrder' /\ DialogFollows'
  BY <1>1 DEF IInv, FlagsInOrder, DialogFollows
<1>5. ApiFirst'
  BY <1>1 DEF IInv, ApiFirst
<1>6. unit[a].api
  BY DEF IInv, FlagsInOrder
<1>7. ClosingInOrder'
  BY <1>1, <1>6, AwayFromClosing
<1> QED
  BY <1>3, <1>4, <1>5, <1>7 DEF IInv

LEMMA QryOrderStep ==
  ASSUME IInv, NEW a \in Accounts, NEW r \in Rows \cup {Null}, OnRspQryOrder(a, r)
  PROVE  IInv'
<1> DEFINE mine == unit[a].setOrder_rid = Head(asked[a]).rid
<1>1. OrderRow(a, r, r \notin lockInfo[a], lockInfo[a] \cup ({r} \ {Null}))
  BY DEF OnRspQryOrder
<1>2. TypeOK /\ asked[a] # << >> /\ r \in Records(a)
  BY <1>1 DEF IInv, OrderRow, Answering
<1>3. Answered(a, r) \in Seq(QueryType)
  BY <1>2, AnsweringType
<1>4. book' \in [Accounts -> BookType]
  BY <1>1, <1>2, AddedType DEF OrderRow, TypeOK
<1>5. lockInfo' \in [Accounts -> SUBSET Rows]
  BY <1>1, <1>2 DEF OrderRow, TypeOK
<1>6. /\ asked' \in [Accounts -> Seq(QueryType)] /\ request_id' \in Nat \ {NoRid}
      /\ \A b \in Accounts \ {a} : asked'[b] = asked[b]
  <2>1. CASE mine /\ bIsLast(a, r)
    BY <1>1, <1>2, <1>3, <2>1, AskType DEF OrderRow, Queries
  <2>2. CASE ~(mine /\ bIsLast(a, r))
    BY <1>1, <1>2, <2>2, ConsumeType DEF OrderRow
  <2> QED
    BY <2>1, <2>2
<1>7. unit \in [Accounts -> UnitType] /\ unit[a] \in UnitType /\ request_id \in Nat
  BY <1>2 DEF TypeOK
<1>8. CASE mine /\ bIsLast(a, r)
  <2> DEFINE u == [unit[a] EXCEPT !.bOrderInitialized = TRUE, !.setTodayPos_rid = request_id]
  <2>1. unit' = [unit EXCEPT ![a] = u]
    BY <1>1, <1>8 DEF OrderRow
  <2>2. u \in UnitType /\ u.api = unit[a].api /\ u.connected = unit[a].connected
        /\ u.authenticated = unit[a].authenticated /\ u.logged_in = unit[a].logged_in
        /\ u.settle_confirmed = unit[a].settle_confirmed
    BY <1>7 DEF UnitType
  <2>3. UNCHANGED <<dialog, listener, taken, leaving, budget>>
    BY <1>1 DEF OrderRow
  <2> HIDE DEF u
  <2> QED
    BY <1>2, <1>4, <1>5, <1>6, <2>1, <2>2, <2>3, QueryStep
<1>9. CASE ~(mine /\ bIsLast(a, r))
  <2>1. unit' = [unit EXCEPT ![a] = unit[a]] /\ UNCHANGED <<dialog, listener, taken, leaving, budget>>
    BY <1>1, <1>7, <1>9 DEF OrderRow
  <2> QED
    BY <1>2, <1>4, <1>5, <1>6, <1>7, <2>1, QueryStep
<1> QED
  BY <1>8, <1>9

LEMMA QryTradeStep ==
  ASSUME IInv, NEW a \in Accounts, NEW r \in Rows \cup {Null}, OnRspQryTrade(a, r)
  PROVE  IInv'
<1> DEFINE mine == ~unit[a].bTodayPosInitialized /\ unit[a].setTodayPos_rid = Head(asked[a]).rid
<1>1. TradeRow(a, r, TRUE)
  BY DEF OnRspQryTrade
<1>2. TypeOK /\ asked[a] # << >> /\ r \in Records(a)
  BY <1>1 DEF IInv, TradeRow, Answering
<1>3. Answered(a, r) \in Seq(QueryType)
  BY <1>2, AnsweringType
<1>4. book' \in [Accounts -> BookType]
  BY <1>1, <1>2, AddedType DEF TradeRow, TypeOK
<1>5. lockInfo' \in [Accounts -> SUBSET Rows] /\ UNCHANGED <<dialog, listener, taken, leaving, budget>>
  BY <1>1, <1>2 DEF TradeRow, TypeOK
<1>6. /\ asked' \in [Accounts -> Seq(QueryType)] /\ request_id' \in Nat \ {NoRid}
      /\ \A b \in Accounts \ {a} : asked'[b] = asked[b]
  <2>1. CASE mine /\ bIsLast(a, r)
    BY <1>1, <1>2, <1>3, <2>1, AskType DEF TradeRow, Queries
  <2>2. CASE ~(mine /\ bIsLast(a, r))
    BY <1>1, <1>2, <2>2, ConsumeType DEF TradeRow
  <2> QED
    BY <2>1, <2>2
<1>7. unit \in [Accounts -> UnitType] /\ unit[a] \in UnitType
  BY <1>2 DEF TypeOK
<1>8. CASE mine /\ bIsLast(a, r)
  <2> DEFINE u == [unit[a] EXCEPT !.bTodayPosInitialized = TRUE]
  <2>1. unit' = [unit EXCEPT ![a] = u]
    BY <1>1, <1>8 DEF TradeRow
  <2>2. u \in UnitType /\ u.api = unit[a].api /\ u.connected = unit[a].connected
        /\ u.authenticated = unit[a].authenticated /\ u.logged_in = unit[a].logged_in
        /\ u.settle_confirmed = unit[a].settle_confirmed
    BY <1>7 DEF UnitType
  <2> HIDE DEF u
  <2> QED
    BY <1>2, <1>4, <1>5, <1>6, <2>1, <2>2, QueryStep
<1>9. CASE ~(mine /\ bIsLast(a, r))
  <2>1. unit' = [unit EXCEPT ![a] = unit[a]]
    BY <1>1, <1>7, <1>9 DEF TradeRow
  <2> QED
    BY <1>2, <1>4, <1>5, <1>6, <1>7, <2>1, QueryStep
<1> QED
  BY <1>8, <1>9

LEMMA QryPositionStep ==
  ASSUME IInv, NEW a \in Accounts, NEW r \in Rows \cup {Null}, OnRspQryInvestorPosition(a, r)
  PROVE  IInv'
<1> DEFINE mine == ~unit[a].bYesterdayPosInitialized
<1>1. PositionRow(a, r, mine)
  BY DEF OnRspQryInvestorPosition
<1>2. TypeOK /\ asked[a] # << >> /\ r \in Records(a)
  BY <1>1 DEF IInv, PositionRow, Answering
<1>3. book' \in [Accounts -> BookType]
  BY <1>1, <1>2, AddedType DEF PositionRow, TypeOK
<1>4. lockInfo' \in [Accounts -> SUBSET Rows] /\ UNCHANGED <<dialog, listener, taken, leaving, budget>>
  BY <1>1, <1>2 DEF PositionRow, TypeOK
<1>5. /\ asked' \in [Accounts -> Seq(QueryType)] /\ request_id' \in Nat \ {NoRid}
      /\ \A b \in Accounts \ {a} : asked'[b] = asked[b]
  BY <1>1, <1>2, ConsumeType DEF PositionRow
<1>6. unit \in [Accounts -> UnitType] /\ unit[a] \in UnitType
  BY <1>2 DEF TypeOK
<1>7. CASE mine /\ bIsLast(a, r)
  <2> DEFINE u == [unit[a] EXCEPT !.bYesterdayPosInitialized = TRUE]
  <2>1. unit' = [unit EXCEPT ![a] = u]
    BY <1>1, <1>7 DEF PositionRow
  <2>2. u \in UnitType /\ u.api = unit[a].api /\ u.connected = unit[a].connected
        /\ u.authenticated = unit[a].authenticated /\ u.logged_in = unit[a].logged_in
        /\ u.settle_confirmed = unit[a].settle_confirmed
    BY <1>6 DEF UnitType
  <2> HIDE DEF u
  <2> QED
    BY <1>2, <1>3, <1>4, <1>5, <2>1, <2>2, QueryStep
<1>8. CASE ~(mine /\ bIsLast(a, r))
  <2>1. unit' = [unit EXCEPT ![a] = unit[a]]
    BY <1>1, <1>6, <1>8 DEF PositionRow
  <2> QED
    BY <1>2, <1>3, <1>4, <1>5, <1>6, <2>1, QueryStep
<1> QED
  BY <1>7, <1>8

LEMMA AnswerFailsStep ==
  ASSUME IInv, NEW a \in Accounts, AnswerFails(a)
  PROVE  IInv'
<1>1. TypeOK /\ asked[a] # << >>
  BY DEF IInv, AnswerFails
<1> DEFINE q == [Head(asked[a]) EXCEPT !.rows = {}]
           s == <<q>> \o Tail(asked[a])
<1>2. Head(asked[a]) \in QueryType /\ Tail(asked[a]) \in Seq(QueryType)
  BY <1>1, AnsweringType
<1>3. q \in QueryType
  BY <1>2 DEF QueryType
<1>4. s \in Seq(QueryType)
  BY <1>2, <1>3
<1>5. asked' = [asked EXCEPT ![a] = s]
  BY DEF AnswerFails
<1> HIDE DEF s
<1>6. /\ asked' \in [Accounts -> Seq(QueryType)]
      /\ \A b \in Accounts \ {a} : asked'[b] = asked[b]
  BY <1>1, <1>4, <1>5 DEF TypeOK
<1>7. /\ unit \in [Accounts -> UnitType] /\ unit[a] \in UnitType
      /\ unit' = [unit EXCEPT ![a] = unit[a]]
      /\ request_id' \in Nat \ {NoRid}
      /\ book' \in [Accounts -> BookType] /\ lockInfo' \in [Accounts -> SUBSET Rows]
      /\ UNCHANGED <<dialog, listener, taken, leaving, budget>>
  BY <1>1 DEF AnswerFails, TypeOK
<1> QED
  BY <1>1, <1>6, <1>7, QueryStep

LEMMA StartListeningStep ==
  ASSUME IInv, StartListening
  PROVE  IInv'
<1>1. TypeOK'
  BY DEF IInv, TypeOK, StartListening
<1>2. FlagsInOrder' /\ DialogFollows' /\ ApiFirst' /\ ClosingInOrder'
  BY DEF IInv, FlagsInOrder, DialogFollows, ApiFirst, ClosingInOrder, StartListening
<1> QED
  BY <1>1, <1>2 DEF IInv

(* A strategy asks only on an account that is logged in, hence connected. *)
LEMMA StrategyQueryStep ==
  ASSUME IInv, NEW a \in Accounts, NEW rows \in AskedRows, QueryOfStrategy(a, rows)
  PROVE  IInv'
<1>1. TypeOK
  BY DEF IInv
<1>2. Query("positions", NoRid, rows) \in QueryType
  BY RowsAssumption DEF Query, QueryType, Queries, NoRid
<1>3. Append(asked[a], Query("positions", NoRid, rows)) \in Seq(QueryType)
  BY <1>1, <1>2 DEF TypeOK
<1>4. /\ asked' \in [Accounts -> Seq(QueryType)]
      /\ \A b \in Accounts \ {a} : asked'[b] = asked[b]
  BY <1>1, <1>3 DEF TypeOK, QueryOfStrategy
<1>5. budget' \in BudgetType
  <2>1. budget \in BudgetType /\ budget.queries > 0
    BY <1>1 DEF TypeOK, QueryOfStrategy
  <2>2. budget.queries - 1 \in 0 .. MaxQueries
    BY <2>1, BoundsAssumption DEF BudgetType
  <2>3. budget' = [budget EXCEPT !.queries = budget.queries - 1]
    BY DEF QueryOfStrategy
  <2> QED
    BY <2>1, <2>2, <2>3 DEF BudgetType
<1>6. TypeOK'
  BY <1>1, <1>4, <1>5 DEF TypeOK, QueryOfStrategy
<1>7. unit[a].connected /\ unit[a].api
  BY DEF IInv, ApiFirst, QueryOfStrategy, is_logged_in
<1>8. FlagsInOrder' /\ DialogFollows' /\ ApiFirst' /\ ClosingInOrder'
  BY <1>4, <1>7 DEF IInv, FlagsInOrder, DialogFollows, ApiFirst, ClosingInOrder, QueryOfStrategy
<1> QED
  BY <1>6, <1>8 DEF IInv

LEMMA ReleasedUnit ==
  ASSUME NEW u \in UnitType
  PROVE  /\ Released(u) \in UnitType
         /\ ~Released(u).api /\ ~Released(u).connected
         /\ ~Released(u).authenticated /\ ~Released(u).logged_in
         /\ ~Released(u).settle_confirmed
BY DEF UnitType, Released

LEMMA OpenedUnit ==
  ASSUME NEW u \in UnitType
  PROVE  [u EXCEPT !.api = TRUE] \in UnitType
BY DEF UnitType

LEMMA BeginClosingStep ==
  ASSUME IInv, on_engine_close
  PROVE  IInv'
<1>1. budget \in BudgetType /\ budget.closes > 0
  BY DEF IInv, TypeOK, on_engine_close
<1>2. budget.closes - 1 \in 0 .. MaxCloses /\ MaxCloses # 0
  BY <1>1, BoundsAssumption DEF BudgetType
<1>3. budget' \in BudgetType
  BY <1>1, <1>2 DEF BudgetType, on_engine_close
<1>4. TypeOK'
  BY <1>3 DEF IInv, TypeOK, on_engine_close
<1>5. FlagsInOrder' /\ DialogFollows' /\ ApiFirst'
  BY DEF IInv, FlagsInOrder, DialogFollows, ApiFirst, on_engine_close
<1>6. ClosingInOrder'
  BY <1>2 DEF IInv, ClosingInOrder, on_engine_close
<1> QED
  BY <1>4, <1>5, <1>6 DEF IInv

(* A flag is taken back: by logout(), while the engine closes, or by the    *)
(* answer to it, which only then can come.                                 *)
LEMMA FlagTakenStep ==
  ASSUME IInv, NEW a \in Accounts, NEW u \in UnitType, NEW t \in Takings,
         listener = "closing", taken[a] # "api", t # "api",
         unit' = [unit EXCEPT ![a] = u],
         u.api = unit[a].api, u.connected = unit[a].connected,
         u.logged_in => unit[a].logged_in,
         taken' = [taken EXCEPT ![a] = t],
         leaving' \subseteq leaving \cup {a},
         UNCHANGED <<request_id, dialog, asked, book, lockInfo, listener, budget>>
  PROVE  IInv'
<1>1. unit \in [Accounts -> UnitType] /\ taken \in [Accounts -> Takings] /\ leaving \subseteq Accounts
  BY DEF IInv, TypeOK
<1>2. /\ unit' \in [Accounts -> UnitType] /\ taken' \in [Accounts -> Takings]
      /\ leaving' \subseteq Accounts
  BY <1>1
<1>3. TypeOK'
  BY <1>2 DEF IInv, TypeOK
<1>4. FlagsInOrder' /\ DialogFollows' /\ ApiFirst'
  BY <1>1 DEF IInv, FlagsInOrder, DialogFollows, ApiFirst
<1>5. ClosingInOrder'
  BY <1>1 DEF IInv, ClosingInOrder
<1> QED
  BY <1>3, <1>4, <1>5 DEF IInv

LEMMA LogoutStep ==
  ASSUME IInv, NEW a \in Accounts, logout(a)
  PROVE  IInv'
<1>1. unit \in [Accounts -> UnitType] /\ unit[a] \in UnitType
  BY DEF IInv, TypeOK
<1>2. CASE LogoutAuthenticated(a)
  <2> DEFINE u == [unit[a] EXCEPT !.authenticated = FALSE]
  <2>1. u \in UnitType /\ u.api = unit[a].api /\ u.connected = unit[a].connected
        /\ u.logged_in = unit[a].logged_in
    BY <1>1 DEF UnitType
  <2>2. unit' = [unit EXCEPT ![a] = u]
    BY <1>2 DEF LogoutAuthenticated
  <2> HIDE DEF u
  <2> QED
    BY <1>2, <2>1, <2>2, FlagTakenStep DEF LogoutAuthenticated, Turn, Takings
<1>3. CASE LogoutSettleConfirmed(a)
  <2> DEFINE u == [unit[a] EXCEPT !.settle_confirmed = FALSE]
  <2>1. u \in UnitType /\ u.api = unit[a].api /\ u.connected = unit[a].connected
        /\ u.logged_in = unit[a].logged_in
    BY <1>1 DEF UnitType
  <2>2. unit' = [unit EXCEPT ![a] = u]
    BY <1>3 DEF LogoutSettleConfirmed
  <2> HIDE DEF u
  <2> QED
    BY <1>3, <2>1, <2>2, FlagTakenStep DEF LogoutSettleConfirmed, Turn, Takings
<1>4. CASE LogoutLoggedIn(a)
  <2> DEFINE u == [unit[a] EXCEPT !.logged_in = FALSE]
  <2>1. u \in UnitType /\ u.api = unit[a].api /\ u.connected = unit[a].connected /\ ~u.logged_in
    BY <1>1 DEF UnitType
  <2>2. unit' = [unit EXCEPT ![a] = u]
    BY <1>4 DEF LogoutLoggedIn
  <2> HIDE DEF u
  <2> QED
    BY <1>4, <2>1, <2>2, FlagTakenStep DEF LogoutLoggedIn, Turn, Takings
<1> QED
  BY <1>2, <1>3, <1>4 DEF logout

LEMMA UserLogoutStep ==
  ASSUME IInv, NEW a \in Accounts, OnRspUserLogout(a)
  PROVE  IInv'
<1> DEFINE v == [unit[a] EXCEPT !.logged_in = FALSE, !.authenticated = FALSE, !.settle_confirmed = FALSE]
<1>1. unit \in [Accounts -> UnitType] /\ unit[a] \in UnitType /\ taken \in [Accounts -> Takings]
  BY DEF IInv, TypeOK
<1>2. listener = "closing" /\ taken[a] # "api"
  BY DEF IInv, ClosingInOrder, OnRspUserLogout
<1>3. PICK u \in UnitType :
        /\ unit' = [unit EXCEPT ![a] = u]
        /\ u.api = unit[a].api /\ u.connected = unit[a].connected
        /\ u.logged_in => unit[a].logged_in
  <2>1. v \in UnitType /\ v.api = unit[a].api /\ v.connected = unit[a].connected /\ ~v.logged_in
    BY <1>1 DEF UnitType
  <2>2. unit' = [unit EXCEPT ![a] = v] \/ unit' = [unit EXCEPT ![a] = unit[a]]
    BY <1>1 DEF OnRspUserLogout
  <2> HIDE DEF v
  <2> QED
    BY <1>1, <2>1, <2>2
<1>4. PICK t \in Takings : t # "api" /\ taken' = [taken EXCEPT ![a] = t]
  BY <1>1, <1>2 DEF OnRspUserLogout
<1>5. /\ leaving' \subseteq leaving \cup {a}
      /\ UNCHANGED <<request_id, dialog, asked, book, lockInfo, listener, budget>>
  BY DEF OnRspUserLogout
<1> QED
  BY <1>2, <1>3, <1>4, <1>5, FlagTakenStep

LEMMA ReleaseStep ==
  ASSUME IInv, NEW a \in Accounts, release_api(a)
  PROVE  IInv'
<1>1. /\ unit \in [Accounts -> UnitType] /\ unit[a] \in UnitType
      /\ taken \in [Accounts -> Takings] /\ listener = "closing"
      /\ dialog \in [Accounts -> Dialogs \cup {"none"}] /\ asked \in [Accounts -> Seq(QueryType)]
  BY DEF IInv, TypeOK, release_api
<1>2. /\ unit' = [unit EXCEPT ![a] = Released(unit[a])]
      /\ dialog' = [dialog EXCEPT ![a] = "none"] /\ asked' = [asked EXCEPT ![a] = << >>]
      /\ taken' = [taken EXCEPT ![a] = "api"] /\ leaving' = leaving \ {a}
      /\ UNCHANGED <<request_id, book, lockInfo, listener, budget>>
  BY DEF release_api
<1>3. /\ Released(unit[a]) \in UnitType
      /\ ~Released(unit[a]).connected /\ ~Released(unit[a]).logged_in
      /\ Released(unit[a]) = Released(Released(unit[a]))
  BY <1>1, ReleasedUnit DEF Released, UnitType
<1> DEFINE u == Released(unit[a])
<1> HIDE DEF u
<1>4. unit' = [unit EXCEPT ![a] = u] /\ u \in UnitType /\ ~u.connected /\ ~u.logged_in /\ u = Released(u)
  BY <1>2, <1>3 DEF u
<1>5. /\ unit' \in [Accounts -> UnitType] /\ taken' \in [Accounts -> Takings]
      /\ dialog' \in [Accounts -> Dialogs \cup {"none"}] /\ asked' \in [Accounts -> Seq(QueryType)]
      /\ leaving' \subseteq Accounts
  BY <1>1, <1>2, <1>4 DEF IInv, TypeOK, Takings
<1>6. TypeOK'
  BY <1>2, <1>5 DEF IInv, TypeOK
<1>7. FlagsInOrder' /\ DialogFollows' /\ ApiFirst'
  BY <1>1, <1>2, <1>4 DEF IInv, FlagsInOrder, DialogFollows, ApiFirst
<1>8. ClosingInOrder'
  <2>1. listener' = "closing" /\ MaxCloses # 0
    BY <1>1, <1>2 DEF IInv, ClosingInOrder
  <2>2. unit'[a] = Released(unit'[a]) /\ a \notin leaving'
    BY <1>1, <1>2, <1>4
  <2>3. \A b \in Accounts \ {a} : unit'[b] = unit[b] /\ taken'[b] = taken[b]
                                /\ (b \in leaving' => b \in leaving)
    BY <1>1, <1>2
  <2> QED
    BY <2>1, <2>2, <2>3 DEF IInv, ClosingInOrder
<1> QED
  BY <1>6, <1>7, <1>8 DEF IInv

LEMMA ClosingEndsStep ==
  ASSUME IInv, ClosingEnds
  PROVE  IInv'
<1>1. \A a \in Accounts : unit[a] \in UnitType /\ unit[a] = Released(unit[a]) /\ a \notin leaving
  BY DEF IInv, TypeOK, ClosingInOrder, ClosingEnds
<1>2. \A a \in Accounts : /\ ~unit[a].api /\ ~unit[a].connected /\ ~unit[a].logged_in
                          /\ ~unit[a].settle_confirmed
  BY <1>1, ReleasedUnit
<1>3. TypeOK'
  BY DEF IInv, TypeOK, ClosingEnds, Takings
<1>4. dialog' = dialog /\ asked' = asked /\ unit' = unit /\ leaving' = leaving /\ listener' = "running"
      /\ taken' = [a \in Accounts |-> "nothing"]
  BY DEF ClosingEnds
<1>5. FlagsInOrder'
  BY <1>2, <1>4 DEF IInv, FlagsInOrder
<1>6. \A a \in Accounts : dialog[a] = "none"
  BY <1>2 DEF IInv, FlagsInOrder
<1>7. DialogFollows' /\ ApiFirst'
  BY <1>4, <1>6 DEF IInv, DialogFollows, ApiFirst
<1>8. ClosingInOrder'
  BY <1>1, <1>4 DEF ClosingInOrder
<1> QED
  BY <1>3, <1>5, <1>7, <1>8 DEF IInv

LEMMA OpenStep ==
  ASSUME IInv, on_engine_open
  PROVE  IInv'
<1>1. /\ TypeOK /\ FlagsInOrder /\ DialogFollows /\ ApiFirst /\ ClosingInOrder
      /\ listener = "running" /\ UNCHANGED <<dialog, asked, listener, taken, leaving>>
  BY DEF IInv, on_engine_open
<1>2. \A a \in Accounts : [unit[a] EXCEPT !.api = TRUE] \in UnitType
  <2>1. \A a \in Accounts : unit[a] \in UnitType
    BY <1>1 DEF TypeOK
  <2> QED
    BY <2>1, OpenedUnit
<1>3. unit' = [a \in Accounts |-> [unit[a] EXCEPT !.api = TRUE]]
  BY DEF on_engine_open
<1>4. TypeOK'
  BY <1>1, <1>2, <1>3 DEF TypeOK, on_engine_open
<1>5. \A a \in Accounts : /\ unit'[a].api
                          /\ unit'[a].connected = unit[a].connected
                          /\ unit'[a].authenticated = unit[a].authenticated
                          /\ unit'[a].logged_in = unit[a].logged_in
                          /\ unit'[a].settle_confirmed = unit[a].settle_confirmed
  BY <1>1, <1>3 DEF TypeOK, UnitType
<1>6. FlagsInOrder' /\ DialogFollows'
  BY <1>1, <1>5 DEF FlagsInOrder, DialogFollows
<1>7. ApiFirst'
  BY <1>1, <1>5 DEF ApiFirst
<1>8. ClosingInOrder'
  BY <1>1 DEF ClosingInOrder
<1> QED
  BY <1>4, <1>6, <1>7, <1>8 DEF IInv

-----------------------------------------------------------------------------
LEMMA NextIInv == IInv /\ [Next]_vars => IInv'
<1> SUFFICES ASSUME IInv, [Next]_vars PROVE IInv'
  OBVIOUS
<1>1. ASSUME NEW a \in Accounts, Callback(a) PROVE IInv'
  BY <1>1, FrontConnectedStep, AuthenticateStep, UserLoginStep, SettlementStep,
     QryOrderStep, QryTradeStep, QryPositionStep, UserLogoutStep DEF Callback
<1>2. ASSUME NEW a \in Accounts, OnErrorAnswer(a) \/ AnswerFails(a) \/ OnFrontDisconnected(a)
      PROVE IInv'
  BY <1>2, ErrorAnswerStep, AnswerFailsStep, DisconnectedStep
<1>3. CASE StartListening
  BY <1>3, StartListeningStep
<1>4. CASE Listener
  BY <1>4, StrategyQueryStep, BeginClosingStep, LogoutStep, ReleaseStep, ClosingEndsStep, OpenStep DEF Listener
<1>5. CASE UNCHANGED vars
  <2>1. UNCHANGED <<unit, request_id, dialog, asked, book, lockInfo, listener, taken, leaving, budget>>
    BY <1>5 DEF vars
  <2> QED
    BY <2>1 DEF IInv, TypeOK, FlagsInOrder, DialogFollows, ApiFirst, ClosingInOrder
<1> QED
  BY <1>1, <1>2, <1>3, <1>4, <1>5 DEF Next

LEMMA SpecIInv == Spec => []IInv
BY InitIInv, NextIInv, PTL DEF Spec

(* The state of the connections has its types. *)
THEOREM SessionTypes == Spec => []TypeOK
<1>1. IInv => TypeOK
  BY DEF IInv
<1> QED
  BY <1>1, SpecIInv, PTL

(* The flags of an account never contradict each other: outside of         *)
(* on_engine_close what counts as logged in is authenticated, connected and *)
(* has an API, whatever callbacks set while flags were taken back; and at   *)
(* no time is an answer awaited on a connection that is gone                *)
(* (OnFrontDisconnected, logout, release_api).                              *)
THEOREM SessionFlags == Spec => []FlagsInOrder
<1>1. IInv => FlagsInOrder
  BY DEF IInv
<1> QED
  BY <1>1, SpecIInv, PTL
-----------------------------------------------------------------------------
(***************************************************************************)
(* What the queries leave in the book of an account: every record is       *)
(* counted, none twice, and orders come before trades.  An engine that is  *)
(* closed in the middle of an answer and serves queries of strategies when *)
(* it is open again does count positions twice: one of the two bounds is 0 *)
(* in the theorems about them.                                             *)
(***************************************************************************)

(* The chain asks one thing at a time: orders when nothing else waits and  *)
(* before they are initialized, trades afterwards, and then positions,     *)
(* which strategies ask for as well.                                       *)
ChainInOrder(a) ==
  /\ dialog[a] \in {"auth", "login"} => ~unit[a].logged_in
  /\ dialog[a] = "settle" => need_settleConfirm /\ ~unit[a].settle_confirmed
  /\ dialog[a] # "none" => asked[a] = << >>
  /\ \A k \in DOMAIN asked[a] :
       /\ asked[a][k].kind = "orders" => k = 1 /\ ~unit[a].bOrderInitialized
       /\ asked[a][k].kind = "trades" => unit[a].bOrderInitialized
       /\ asked[a][k].kind = "positions" /\ MaxQueries = 0 => unit[a].bOrderInitialized
       /\ \A j \in DOMAIN asked[a] :
             asked[a][j].kind = "trades" /\ asked[a][k].kind = "trades" => j = k

LocksKept(a) ==
  \A r \in Rows : book[a].locks[r] = IF r \in lockInfo[a] THEN 1 ELSE 0

(* A trade is counted only while its answer comes in, row by row. *)
TradesKept(a) ==
  \A r \in Rows :
    /\ book[a].today[r] <= 1
    /\ book[a].today[r] > 0 => unit[a].bOrderInitialized
    /\ book[a].today[r] > 0 /\ ~unit[a].bTodayPosInitialized =>
         \A k \in DOMAIN asked[a] :
            asked[a][k].kind = "trades" => k = 1 /\ r \notin asked[a][k].rows

BookInv(a) == ChainInOrder(a) /\ LocksKept(a) /\ TradesKept(a)

(* Every order is locked by the time the orders are initialized. *)
OrdersLocked(a) ==
  /\ unit[a].bOrderInitialized => Rows \subseteq lockInfo[a]
  /\ \A k \in DOMAIN asked[a] :
        asked[a][k].kind = "orders" /\ asked[a][k].rid = unit[a].setOrder_rid =>
           Rows \subseteq asked[a][k].rows \cup lockInfo[a]

IBook == IInv /\ \A a \in Accounts : BookInv(a)

-----------------------------------------------------------------------------
(* What answers and requests do to the queries that wait. *)

LEMMA AnsweredAt ==
  ASSUME TypeOK, NEW a \in Accounts, asked[a] # << >>, NEW r
  PROVE  /\ Answered(a, r) \in Seq(QueryType)
         /\ 1 \in DOMAIN asked[a] /\ Head(asked[a]) = asked[a][1] /\ asked[a][1] \in QueryType
         /\ bIsLast(a, r) => \A k \in DOMAIN Answered(a, r) :
              k + 1 \in DOMAIN asked[a] /\ k \in Nat \ {0} /\ Answered(a, r)[k] = asked[a][k + 1]
         /\ ~bIsLast(a, r) =>
              /\ DOMAIN Answered(a, r) = DOMAIN asked[a] /\ Answered(a, r) # << >>
              /\ Answered(a, r)[1].kind = asked[a][1].kind
              /\ Answered(a, r)[1].rid = asked[a][1].rid
              /\ Answered(a, r)[1].rows = asked[a][1].rows \ {r}
              /\ \A k \in DOMAIN asked[a] : k # 1 => Answered(a, r)[k] = asked[a][k]
<1> DEFINE q == asked[a]
           e == [Head(q) EXCEPT !.rows = @ \ {r}]
<1>1. q \in Seq(QueryType) /\ q # << >> /\ Answered(a, r) \in Seq(QueryType)
  BY AnsweringType DEF TypeOK
<1>2. 1 \in DOMAIN q /\ Head(q) = q[1] /\ q[1] \in QueryType
  BY <1>1
<1>3. ASSUME bIsLast(a, r)
      PROVE  \A k \in DOMAIN Answered(a, r) :
               k + 1 \in DOMAIN q /\ k \in Nat \ {0} /\ Answered(a, r)[k] = q[k + 1]
  <2>1. Answered(a, r) = Tail(q)
    BY <1>3 DEF Answered
  <2> QED
    BY <1>1, <2>1
<1>4. ASSUME ~bIsLast(a, r)
      PROVE  /\ DOMAIN Answered(a, r) = DOMAIN q /\ Answered(a, r) # << >>
             /\ Answered(a, r)[1] = e
             /\ \A k \in DOMAIN q : k # 1 => Answered(a, r)[k] = q[k]
  <2>1. Answered(a, r) = <<e>> \o Tail(q)
    BY <1>4 DEF Answered
  <2>2. e \in QueryType
    BY <1>2 DEF QueryType
  <2>3. <<e>> \in Seq(QueryType) /\ Tail(q) \in Seq(QueryType) /\ Len(Tail(q)) = Len(q) - 1
        /\ Len(q) \in Nat \ {0} /\ Len(<<e>>) = 1
    BY <1>1, <2>2
  <2> HIDE DEF e
  <2>4. \A k \in 1 .. Len(q) : Answered(a, r)[k] = IF k = 1 THEN e ELSE Tail(q)[k - 1]
    BY <2>1, <2>3
  <2>5. Len(Answered(a, r)) = Len(q)
    BY <2>1, <2>3
  <2>6. \A k \in 1 .. Len(q) : k # 1 => Tail(q)[k - 1] = q[k]
    BY <1>1
  <2> QED
    BY <1>1, <2>3, <2>4, <2>5, <2>6
<1>5. e.kind = q[1].kind /\ e.rid = q[1].rid /\ e.rows = q[1].rows \ {r}
  BY <1>2 DEF QueryType
<1> HIDE DEF e
<1> QED
  BY <1>1, <1>2, <1>3, <1>4, <1>5

LEMMA AskAt ==
  ASSUME TypeOK, NEW a \in Accounts, NEW kind \in Queries,
         NEW rest \in Seq(QueryType), Ask(a, kind, rest)
  PROVE  /\ \A k \in DOMAIN asked'[a] :
              \/ k \in DOMAIN rest /\ asked'[a][k] = rest[k]
              \/ /\ k = Len(rest) + 1 /\ k \notin DOMAIN rest
                 /\ asked'[a][k].kind = kind /\ asked'[a][k].rows = Rows
         /\ rest # << >> => asked'[a] # << >> /\ asked'[a][1] = rest[1]
<1>1. ASSUME NEW i \in Nat, asked'[a] = Append(rest, Query(kind, i, Rows))
      PROVE  /\ \A k \in DOMAIN asked'[a] :
                  \/ k \in DOMAIN rest /\ asked'[a][k] = rest[k]
                  \/ /\ k = Len(rest) + 1 /\ k \notin DOMAIN rest
                     /\ asked'[a][k].kind = kind /\ asked'[a][k].rows = Rows
             /\ rest # << >> => asked'[a] # << >> /\ asked'[a][1] = rest[1]
  <2> DEFINE e == Query(kind, i, Rows)
  <2>1. e \in QueryType /\ e.kind = kind /\ e.rows = Rows
    BY DEF Query, QueryType
  <2> HIDE DEF e
  <2>2. \A k \in DOMAIN Append(rest, e) :
          \/ k \in DOMAIN rest /\ Append(rest, e)[k] = rest[k]
          \/ k = Len(rest) + 1 /\ k \notin DOMAIN rest /\ Append(rest, e)[k] = e
    BY <2>1
  <2>3. rest # << >> => Append(rest, e) # << >> /\ Append(rest, e)[1] = rest[1]
    BY <2>1
  <2>4. asked'[a] = Append(rest, e)
    BY <1>1 DEF e
  <2> QED
    BY <2>1, <2>2, <2>3, <2>4
<1>2. asked \in [Accounts -> Seq(QueryType)] /\ request_id \in Nat /\ request_id + 1 \in Nat
  BY DEF TypeOK
<1>3. \/ \E i \in Nat : asked'[a] = Append(rest, Query(kind, i, Rows))
      \/ asked'[a] = rest
  BY <1>2 DEF Ask
<1>4. CASE asked'[a] = rest
  BY <1>4
<1> QED
  BY <1>1, <1>3, <1>4

(* A record is added in one place of one book. *)
LEMMA AddedAt ==
  ASSUME TypeOK, NEW a \in Accounts, NEW r \in Rows \cup {Null}, NEW b \in Accounts, NEW s \in Rows
  PROVE  /\ LET locks == Added(a, "locks", r)[b]
            IN /\ locks.locks[s] = IF b = a /\ s = r THEN book[b].locks[s] + 1 ELSE book[b].locks[s]
               /\ locks.today = book[b].today /\ locks.yesterday = book[b].yesterday
         /\ LET today == Added(a, "today", r)[b]
            IN /\ today.today[s] = IF b = a /\ s = r THEN book[b].today[s] + 1 ELSE book[b].today[s]
               /\ today.locks = book[b].locks /\ today.yesterday = book[b].yesterday
         /\ LET yesterday == Added(a, "yesterday", r)[b]
            IN /\ yesterday.yesterday[s] = IF b = a /\ s = r THEN book[b].yesterday[s] + 1
                                                            ELSE book[b].yesterday[s]
               /\ yesterday.locks = book[b].locks /\ yesterday.today = book[b].today
<1>1. /\ book \in [Accounts -> BookType] /\ Null \notin Rows
      /\ book[a].locks \in [Rows -> Nat] /\ book[a].today \in [Rows -> Nat]
      /\ book[a].yesterday \in [Rows -> Nat]
  BY RowsAssumption DEF TypeOK, BookType
<1>2. CASE r = Null
  BY <1>1, <1>2 DEF Added
<1>3. CASE r # Null
  BY <1>1, <1>3 DEF Added, BookType
<1> QED
  BY <1>2, <1>3

-----------------------------------------------------------------------------
(* The chain, the locks and the trades: one step per callback.             *)

(* Nothing happens to the other accounts. *)
Same(b) == /\ unit'[b] = unit[b] /\ dialog'[b] = dialog[b] /\ asked'[b] = asked[b]
           /\ book'[b] = book[b] /\ lockInfo'[b] = lockInfo[b]

LEMMA SameBook == ASSUME NEW b, Same(b), BookInv(b) PROVE BookInv(b)'
BY DEF Same, BookInv, ChainInOrder, LocksKept, TradesKept

LEMMA SameOrders == ASSUME NEW b, Same(b), OrdersLocked(b) PROVE OrdersLocked(b)'
BY DEF Same, OrdersLocked

(* The account after a step that only changes the flags of its dialog *)
LEMMA DialogBook ==
  ASSUME NEW a \in Accounts, BookInv(a), asked[a] = << >>, UNCHANGED <<asked, book, lockInfo>>,
         unit'[a].bOrderInitialized = unit[a].bOrderInitialized,
         dialog'[a] \in {"auth", "login"} => ~unit'[a].logged_in,
         dialog'[a] = "settle" => need_settleConfirm /\ ~unit'[a].settle_confirmed
  PROVE  BookInv(a)'
BY DEF BookInv, ChainInOrder, LocksKept, TradesKept

LEMMA FrontConnectedBook ==
  ASSUME IBook, NEW a \in Accounts, OnFrontConnected(a)
  PROVE  \A b \in Accounts : BookInv(b)'
<1>1. /\ TypeOK /\ FlagsInOrder /\ ApiFirst /\ unit[a] \in UnitType /\ BookInv(a)
      /\ \A b \in Accounts : BookInv(b)
  BY DEF IBook, IInv, TypeOK
<1>2. ~unit[a].connected /\ ~unit[a].logged_in /\ asked[a] = << >> /\ dialog[a] = "none"
  BY <1>1 DEF OnFrontConnected, FlagsInOrder, ApiFirst
<1>3. /\ unit' = [unit EXCEPT ![a].connected = TRUE] /\ UNCHANGED <<asked, book, lockInfo>>
      /\ SendDialog(a, "auth") \/ SendDialog(a, "login")
  BY <1>2 DEF OnFrontConnected
<1>4. /\ unit'[a].bOrderInitialized = unit[a].bOrderInitialized /\ ~unit'[a].logged_in
      /\ \A b \in Accounts \ {a} : unit'[b] = unit[b]
  BY <1>1, <1>2, <1>3 DEF TypeOK, UnitType
<1>5. dialog'[a] # "settle" /\ \A b \in Accounts \ {a} : dialog'[b] = dialog[b]
  BY <1>1, <1>3, SendDialogType DEF Dialogs
<1>6. BookInv(a)'
  BY <1>1, <1>2, <1>3, <1>4, <1>5, DialogBook
<1>7. \A b \in Accounts \ {a} : BookInv(b)'
  BY <1>1, <1>3, <1>4, <1>5, SameBook DEF Same
<1> QED
  BY <1>6, <1>7

LEMMA AuthenticateBook ==
  ASSUME IBook, NEW a \in Accounts, OnRspAuthenticate(a)
  PROVE  \A b \in Accounts : BookInv(b)'
<1>1. /\ TypeOK /\ unit[a] \in UnitType /\ BookInv(a) /\ \A b \in Accounts : BookInv(b)
  BY DEF IBook, IInv, TypeOK
<1>2. ~unit[a].logged_in /\ asked[a] = << >>
  BY <1>1 DEF OnRspAuthenticate, BookInv, ChainInOrder
<1>3. /\ unit' = [unit EXCEPT ![a].authenticated = TRUE] /\ UNCHANGED <<asked, book, lockInfo>>
      /\ SendDialog(a, "login")
  BY <1>2 DEF OnRspAuthenticate
<1>4. /\ unit'[a].bOrderInitialized = unit[a].bOrderInitialized /\ ~unit'[a].logged_in
      /\ \A b \in Accounts \ {a} : unit'[b] = unit[b]
  BY <1>1, <1>2, <1>3 DEF TypeOK, UnitType
<1>5. dialog'[a] # "settle" /\ \A b \in Accounts \ {a} : dialog'[b] = dialog[b]
  BY <1>1, <1>3, SendDialogType DEF Dialogs
<1>6. BookInv(a)'
  BY <1>1, <1>2, <1>3, <1>4, <1>5, DialogBook
<1>7. \A b \in Accounts \ {a} : BookInv(b)'
  BY <1>1, <1>3, <1>4, <1>5, SameBook DEF Same
<1> QED
  BY <1>6, <1>7

LEMMA UserLoginBook ==
  ASSUME IBook, NEW a \in Accounts, OnRspUserLogin(a)
  PROVE  \A b \in Accounts : BookInv(b)'
<1>1. /\ TypeOK /\ unit[a] \in UnitType /\ BookInv(a) /\ \A b \in Accounts : BookInv(b)
  BY DEF IBook, IInv, TypeOK
<1>2. asked[a] = << >>
  BY <1>1 DEF OnRspUserLogin, BookInv, ChainInOrder
<1>3. /\ unit' = [unit EXCEPT ![a].logged_in = TRUE] /\ UNCHANGED <<asked, book, lockInfo>>
      /\ \/ need_settleConfirm /\ ~unit[a].settle_confirmed /\ SendDialog(a, "settle")
         \/ SendNothing(a)
  BY DEF OnRspUserLogin
<1>4. /\ unit'[a].bOrderInitialized = unit[a].bOrderInitialized
      /\ unit'[a].settle_confirmed = unit[a].settle_confirmed
      /\ \A b \in Accounts \ {a} : unit'[b] = unit[b]
  BY <1>1, <1>3 DEF TypeOK, UnitType
<1>5. /\ dialog'[a] \notin {"auth", "login"}
      /\ dialog'[a] = "settle" => need_settleConfirm /\ ~unit[a].settle_confirmed
      /\ \A b \in Accounts \ {a} : dialog'[b] = dialog[b]
  BY <1>1, <1>3, SendDialogType, SendNothingType DEF Dialogs
<1>6. BookInv(a)'
  BY <1>1, <1>2, <1>3, <1>4, <1>5, DialogBook
<1>7. \A b \in Accounts \ {a} : BookInv(b)'
  BY <1>1, <1>3, <1>4, <1>5, SameBook DEF Same
<1> QED
  BY <1>6, <1>7

LEMMA ErrorAnswerBook ==
  ASSUME IBook, NEW a \in Accounts, OnErrorAnswer(a)
  PROVE  \A b \in Accounts : BookInv(b)'
<1>1. /\ TypeOK /\ KindsAssumption /\ \A b \in Accounts : BookInv(b)
  BY KindsAssumption DEF IBook, IInv
<1>2. dialog'[a] = "none" /\ \A b \in Accounts \ {a} : dialog'[b] = dialog[b]
  BY <1>1 DEF OnErrorAnswer, SendNothing, TypeOK
<1>3. UNCHANGED <<unit, asked, book, lockInfo>>
  BY DEF OnErrorAnswer
<1>4. BookInv(a)'
  BY <1>1, <1>2, <1>3 DEF BookInv, ChainInOrder, LocksKept, TradesKept
<1> QED
  BY <1>1, <1>2, <1>3, <1>4, SameBook DEF Same

(* The orders are asked for when nothing else waits. *)
LEMMA SettlementBook ==
  ASSUME IBook, NEW a \in Accounts, OnRspSettlementInfoConfirm(a)
  PROVE  \A b \in Accounts : BookInv(b)'
<1>1. /\ TypeOK /\ unit[a] \in UnitType /\ BookInv(a) /\ \A b \in Accounts : BookInv(b)
  BY DEF IBook, IInv, TypeOK
<1>2. asked[a] = << >>
  BY <1>1 DEF OnRspSettlementInfoConfirm, BookInv, ChainInOrder
<1>3. dialog'[a] = "none" /\ \A b \in Accounts \ {a} : dialog'[b] = dialog[b]
  BY <1>1, SendNothingType DEF OnRspSettlementInfoConfirm
<1>4. UNCHANGED <<book, lockInfo>>
  BY DEF OnRspSettlementInfoConfirm
<1>5. CASE ~unit[a].bOrderInitialized
  <2>1. /\ unit' = [unit EXCEPT ![a].settle_confirmed = TRUE, ![a].setOrder_rid = request_id]
        /\ Ask(a, "orders", << >>)
    BY <1>2, <1>5 DEF OnRspSettlementInfoConfirm
  <2>2. /\ unit'[a].bOrderInitialized = unit[a].bOrderInitialized
        /\ unit'[a].bTodayPosInitialized = unit[a].bTodayPosInitialized
        /\ \A b \in Accounts \ {a} : unit'[b] = unit[b]
    BY <1>1, <2>1 DEF TypeOK, UnitType
  <2>3. /\ \A b \in Accounts \ {a} : asked'[b] = asked[b]
        /\ \A k \in DOMAIN asked'[a] : k = 1 /\ asked'[a][k].kind = "orders"
    <3>1. << >> \in Seq(QueryType) /\ DOMAIN << >> = {} /\ Len(<< >>) + 1 = 1
      OBVIOUS
    <3>2. \A b \in Accounts \ {a} : asked'[b] = asked[b]
      BY <1>1, <2>1, <3>1, AskType DEF Queries
    <3>3. \A k \in DOMAIN asked'[a] : k = 1 /\ asked'[a][k].kind = "orders"
      <4> DEFINE none == << >>
      <4>1. Ask(a, "orders", none) /\ none \in Seq(QueryType)
        BY <2>1, <3>1
      <4>2. DOMAIN none = {} /\ Len(none) + 1 = 1
        BY <3>1
      <4> HIDE DEF none
      <4>3. \A k \in DOMAIN asked'[a] :
              \/ k \in DOMAIN none /\ asked'[a][k] = none[k]
              \/ /\ k = Len(none) + 1 /\ k \notin DOMAIN none
                 /\ asked'[a][k].kind = "orders" /\ asked'[a][k].rows = Rows
        <5>1. TypeOK /\ "orders" \in Queries
          BY <1>1 DEF Queries
        <5> QED
          BY <4>1, <5>1, AskAt
      <4> QED
        BY <4>2, <4>3
    <3> QED
      BY <3>2, <3>3
  <2>4. BookInv(a)'
    BY <1>1, <1>3, <1>4, <1>5, <2>2, <2>3 DEF BookInv, ChainInOrder, LocksKept, TradesKept
  <2> QED
    BY <1>1, <1>3, <1>4, <2>2, <2>3, <2>4, SameBook DEF Same
<1>6. CASE unit[a].bOrderInitialized
  <2>1. unit' = [unit EXCEPT ![a].settle_confirmed = TRUE] /\ UNCHANGED asked
    BY <1>6 DEF OnRspSettlementInfoConfirm
  <2>2. /\ unit'[a].bOrderInitialized = unit[a].bOrderInitialized
        /\ \A b \in Accounts \ {a} : unit'[b] = unit[b]
    BY <1>1, <2>1 DEF TypeOK, UnitType
  <2>3. BookInv(a)'
    BY <1>1, <1>2, <1>3, <1>4, <2>1, <2>2, DialogBook
  <2> QED
    BY <1>1, <1>3, <1>4, <2>1, <2>2, <2>3, SameBook DEF Same
<1> QED
  BY <1>1, <1>5, <1>6 DEF UnitType

(* An order is locked once, and the trades come after the last order. *)
LEMMA QryOrderBook ==
  ASSUME IBook, NEW a \in Accounts, NEW r \in Rows \cup {Null}, OnRspQryOrder(a, r)
  PROVE  \A b \in Accounts : BookInv(b)'
<1> DEFINE mine == unit[a].setOrder_rid = Head(asked[a]).rid
           locked == r \notin lockInfo[a]
           info == lockInfo[a] \cup ({r} \ {Null})
<1>1. /\ TypeOK /\ unit[a] \in UnitType /\ BookInv(a) /\ \A b \in Accounts : BookInv(b)
      /\ asked[a] # << >> /\ Head(asked[a]).kind = "orders"
  BY DEF IBook, IInv, TypeOK, OnRspQryOrder, OrderRow, Answering
<1>2. /\ book' = IF mine /\ locked THEN Added(a, "locks", r) ELSE book
      /\ lockInfo' = IF mine THEN [lockInfo EXCEPT ![a] = info] ELSE lockInfo
      /\ UNCHANGED dialog
  BY DEF OnRspQryOrder, OrderRow
<1>3. \A b \in Accounts, s \in Rows :
        /\ book'[b].today = book[b].today /\ book'[b].yesterday = book[b].yesterday
        /\ book'[b].locks[s] = IF mine /\ locked /\ b = a /\ s = r THEN book[b].locks[s] + 1
                                                                   ELSE book[b].locks[s]
  BY <1>1, <1>2, AddedAt
<1>4. /\ lockInfo'[a] = IF mine THEN info ELSE lockInfo[a]
      /\ \A b \in Accounts \ {a} : lockInfo'[b] = lockInfo[b]
  BY <1>1, <1>2 DEF TypeOK
<1>5. \A b \in Accounts : LocksKept(b)'
  <2> SUFFICES ASSUME NEW b \in Accounts, NEW s \in Rows
               PROVE  book'[b].locks[s] = IF s \in lockInfo'[b] THEN 1 ELSE 0
    BY DEF LocksKept
  <2>1. book[b].locks[s] = IF s \in lockInfo[b] THEN 1 ELSE 0
    BY <1>1 DEF BookInv, LocksKept
  <2>2. s # Null
    BY RowsAssumption
  <2>3. CASE mine /\ b = a /\ s = r
    BY <1>3, <1>4, <2>1, <2>2, <2>3
  <2>4. CASE ~(mine /\ b = a /\ s = r)
    BY <1>3, <1>4, <2>1, <2>4
  <2> QED
    BY <2>3, <2>4
<1>6. /\ asked[a][1].kind = "orders" /\ ~unit[a].bOrderInitialized
      /\ \A k \in DOMAIN asked[a] :
           asked[a][k].kind # "trades" /\ (asked[a][k].kind = "orders" => k = 1)
      /\ \A s \in Rows : ~(book[a].today[s] > 0)
      /\ dialog[a] = "none"
  BY <1>1, AnsweredAt DEF BookInv, ChainInOrder, TradesKept
<1> HIDE DEF mine, locked, info
<1>7. \/ asked' = [asked EXCEPT ![a] = Answered(a, r)] /\ UNCHANGED unit
      \/ /\ bIsLast(a, r) /\ Ask(a, "trades", Answered(a, r))
         /\ unit' = [unit EXCEPT ![a].bOrderInitialized = TRUE, ![a].setTodayPos_rid = request_id]
  BY DEF OnRspQryOrder, OrderRow, Consume
<1>8. CASE asked' = [asked EXCEPT ![a] = Answered(a, r)] /\ UNCHANGED unit
  <2>1. asked'[a] = Answered(a, r) /\ \A b \in Accounts \ {a} : asked'[b] = asked[b]
    BY <1>1, <1>8 DEF TypeOK
  <2>2. \A k \in DOMAIN asked'[a] :
          /\ asked'[a][k].kind # "trades" /\ (asked'[a][k].kind = "orders" => k = 1)
          /\ asked'[a][k].kind = "positions" => MaxQueries # 0
    <3>1. \A k \in DOMAIN asked[a] : asked[a][k].kind = "positions" => MaxQueries # 0
      BY <1>1, <1>6 DEF BookInv, ChainInOrder
    <3>2. CASE bIsLast(a, r)
      BY <1>1, <1>6, <2>1, <3>1, <3>2, AnsweredAt
    <3>3. CASE ~bIsLast(a, r)
      BY <1>1, <1>6, <2>1, <3>1, <3>3, AnsweredAt
    <3> QED
      BY <3>2, <3>3
  <2>3. ChainInOrder(a)'
    BY <1>1, <1>2, <1>6, <1>8, <2>2 DEF BookInv, ChainInOrder
  <2>4. TradesKept(a)'
    BY <1>1, <1>3, <1>6, <1>8 DEF BookInv, TradesKept
  <2>5. \A b \in Accounts \ {a} : ChainInOrder(b)' /\ TradesKept(b)'
    BY <1>1, <1>2, <1>3, <1>8, <2>1 DEF BookInv, ChainInOrder, TradesKept
  <2> QED
    BY <1>5, <2>3, <2>4, <2>5 DEF BookInv
<1>9. CASE /\ bIsLast(a, r) /\ Ask(a, "trades", Answered(a, r))
           /\ unit' = [unit EXCEPT ![a].bOrderInitialized = TRUE, ![a].setTodayPos_rid = request_id]
  <2>1. /\ unit'[a].bOrderInitialized /\ unit'[a].logged_in = unit[a].logged_in
        /\ \A b \in Accounts \ {a} : unit'[b] = unit[b]
    BY <1>1, <1>9 DEF TypeOK, UnitType
  <2>2. /\ \A b \in Accounts \ {a} : asked'[b] = asked[b]
        /\ \A k \in DOMAIN asked'[a] :
             \/ k \in DOMAIN Answered(a, r) /\ asked'[a][k] = Answered(a, r)[k]
             \/ k = Len(Answered(a, r)) + 1 /\ asked'[a][k].kind = "trades"
    BY <1>1, <1>9, AnsweredAt, AskType, AskAt DEF Queries
  <2>3. \A k \in DOMAIN Answered(a, r) :
          Answered(a, r)[k].kind # "orders" /\ Answered(a, r)[k].kind # "trades"
    BY <1>1, <1>6, <1>9, AnsweredAt
  <2>4. ChainInOrder(a)'
    BY <1>2, <1>6, <2>1, <2>2, <2>3 DEF ChainInOrder
  <2>5. TradesKept(a)'
    BY <1>1, <1>3, <1>6, <2>1 DEF BookInv, TradesKept
  <2>6. \A b \in Accounts \ {a} : ChainInOrder(b)' /\ TradesKept(b)'
    BY <1>1, <1>2, <1>3, <2>1, <2>2 DEF BookInv, ChainInOrder, TradesKept
  <2> QED
    BY <1>5, <2>4, <2>5, <2>6 DEF BookInv
<1> QED
  BY <1>7, <1>8, <1>9

LEMMA QryTradeBook ==
  ASSUME IBook, NEW a \in Accounts, NEW r \in Rows \cup {Null}, OnRspQryTrade(a, r)
  PROVE  \A b \in Accounts : BookInv(b)'
<1> DEFINE mine == ~unit[a].bTodayPosInitialized /\ unit[a].setTodayPos_rid = Head(asked[a]).rid
<1>1. /\ TypeOK /\ unit[a] \in UnitType /\ BookInv(a) /\ \A b \in Accounts : BookInv(b)
      /\ asked[a] # << >> /\ Head(asked[a]).kind = "trades"
      /\ r \in Records(a)
  BY DEF IBook, IInv, TypeOK, OnRspQryTrade, TradeRow, Answering
<1>2. book' = (IF mine THEN Added(a, "today", r) ELSE book) /\ UNCHANGED <<dialog, lockInfo>>
  BY DEF OnRspQryTrade, TradeRow
<1>3. \A b \in Accounts, s \in Rows :
        /\ book'[b].locks = book[b].locks /\ book'[b].yesterday = book[b].yesterday
        /\ book'[b].today[s] = IF mine /\ b = a /\ s = r THEN book[b].today[s] + 1
                                                         ELSE book[b].today[s]
  BY <1>1, <1>2, AddedAt
<1>4. \A b \in Accounts : LocksKept(b)'
  BY <1>1, <1>2, <1>3 DEF BookInv, LocksKept
<1>5. /\ asked[a][1] \in QueryType /\ asked[a][1].kind = "trades" /\ 1 \in DOMAIN asked[a]
      /\ unit[a].bOrderInitialized /\ dialog[a] = "none"
      /\ \A k \in DOMAIN asked[a] : asked[a][k].kind # "orders"
      /\ \A k \in DOMAIN asked[a] : asked[a][k].kind = "trades" => k = 1
  BY <1>1, AnsweredAt DEF BookInv, ChainInOrder
<1>6. /\ r \in Rows => r \in asked[a][1].rows
      /\ bIsLast(a, r) <=> asked[a][1].rows \subseteq {r}
  BY <1>1, AnsweredAt, RowsAssumption DEF Records, bIsLast
<1>7. \A s \in Rows : /\ book[a].today[s] \in Nat /\ book[a].today[s] <= 1
                      /\ mine /\ book[a].today[s] > 0 => s \notin asked[a][1].rows
  BY <1>1, <1>5 DEF BookInv, TradesKept, TypeOK, BookType
<1>8. \A s \in Rows : book'[a].today[s] <= 1
  BY <1>3, <1>6, <1>7
<1>9. \/ /\ asked' = [asked EXCEPT ![a] = Answered(a, r)] /\ UNCHANGED unit
         /\ ~(mine /\ bIsLast(a, r))
      \/ /\ bIsLast(a, r) /\ Ask(a, "positions", Answered(a, r))
         /\ unit' = [unit EXCEPT ![a].bTodayPosInitialized = TRUE]
  BY DEF OnRspQryTrade, TradeRow, Consume
<1> HIDE DEF mine
<1>10. CASE /\ asked' = [asked EXCEPT ![a] = Answered(a, r)] /\ UNCHANGED unit
            /\ ~(mine /\ bIsLast(a, r))
  <2>1. asked'[a] = Answered(a, r) /\ \A b \in Accounts \ {a} : asked'[b] = asked[b]
    BY <1>1, <1>10 DEF TypeOK
  <2>2. \A k \in DOMAIN asked'[a] :
          /\ asked'[a][k].kind # "orders"
          /\ asked'[a][k].kind = "trades" =>
               /\ k = 1 /\ ~bIsLast(a, r)
               /\ asked'[a][k].rows = asked[a][1].rows \ {r}
    BY <1>1, <1>5, <2>1, AnsweredAt
  <2>3. ChainInOrder(a)'
    BY <1>2, <1>5, <1>10, <2>2 DEF ChainInOrder
  <2>4. TradesKept(a)'
    <3> SUFFICES ASSUME NEW s \in Rows
                 PROVE  /\ book'[a].today[s] <= 1
                        /\ book'[a].today[s] > 0 => unit'[a].bOrderInitialized
                        /\ book'[a].today[s] > 0 /\ ~unit'[a].bTodayPosInitialized =>
                             \A k \in DOMAIN asked'[a] :
                                asked'[a][k].kind = "trades" => k = 1 /\ s \notin asked'[a][k].rows
      BY DEF TradesKept
    <3>1. ASSUME book'[a].today[s] > 0, ~unit[a].bTodayPosInitialized
          PROVE  s \notin asked[a][1].rows \ {r}
      <4>1. CASE s = r
        BY <4>1
      <4>2. CASE s # r
        <5>1. book[a].today[s] > 0
          BY <1>3, <3>1, <4>2
        <5> QED
          BY <1>1, <1>5, <3>1, <5>1 DEF BookInv, TradesKept
      <4> QED
        BY <4>1, <4>2
    <3> QED
      BY <1>5, <1>8, <1>10, <2>2, <3>1
  <2>5. \A b \in Accounts \ {a} : ChainInOrder(b)' /\ TradesKept(b)'
    BY <1>1, <1>2, <1>3, <1>10, <2>1 DEF BookInv, ChainInOrder, TradesKept
  <2> QED
    BY <1>4, <2>3, <2>4, <2>5 DEF BookInv
<1>11. CASE /\ bIsLast(a, r) /\ Ask(a, "positions", Answered(a, r))
            /\ unit' = [unit EXCEPT ![a].bTodayPosInitialized = TRUE]
  <2>1. /\ unit'[a].bOrderInitialized /\ unit'[a].bTodayPosInitialized
        /\ \A b \in Accounts \ {a} : unit'[b] = unit[b]
    BY <1>1, <1>5, <1>11 DEF TypeOK, UnitType
  <2>2. /\ \A b \in Accounts \ {a} : asked'[b] = asked[b]
        /\ \A k \in DOMAIN asked'[a] :
             \/ k \in DOMAIN Answered(a, r) /\ asked'[a][k] = Answered(a, r)[k]
             \/ asked'[a][k].kind = "positions"
    BY <1>1, <1>11, AnsweredAt, AskType, AskAt DEF Queries
  <2>3. \A k \in DOMAIN Answered(a, r) :
          Answered(a, r)[k].kind # "orders" /\ Answered(a, r)[k].kind # "trades"
    BY <1>1, <1>5, <1>11, AnsweredAt
  <2>4. ChainInOrder(a)'
    BY <1>2, <1>5, <2>1, <2>2, <2>3 DEF ChainInOrder
  <2>5. TradesKept(a)'
    BY <1>8, <2>1 DEF TradesKept
  <2>6. \A b \in Accounts \ {a} : ChainInOrder(b)' /\ TradesKept(b)'
    BY <1>1, <1>2, <1>3, <2>1, <2>2 DEF BookInv, ChainInOrder, TradesKept
  <2> QED
    BY <1>4, <2>4, <2>5, <2>6 DEF BookInv
<1> QED
  BY <1>9, <1>10, <1>11

LEMMA QryPositionBook ==
  ASSUME IBook, NEW a \in Accounts, NEW r \in Rows \cup {Null}, OnRspQryInvestorPosition(a, r)
  PROVE  \A b \in Accounts : BookInv(b)'
<1> DEFINE mine == ~unit[a].bYesterdayPosInitialized
<1>1. /\ TypeOK /\ unit[a] \in UnitType /\ BookInv(a) /\ \A b \in Accounts : BookInv(b)
      /\ asked[a] # << >> /\ Head(asked[a]).kind = "positions"
  BY DEF IBook, IInv, TypeOK, OnRspQryInvestorPosition, PositionRow, Answering
<1>2. /\ book' = IF mine THEN Added(a, "yesterday", r) ELSE book
      /\ unit' = IF mine /\ bIsLast(a, r)
                   THEN [unit EXCEPT ![a].bYesterdayPosInitialized = TRUE] ELSE unit
      /\ asked' = [asked EXCEPT ![a] = Answered(a, r)]
      /\ UNCHANGED <<dialog, lockInfo>>
  BY DEF OnRspQryInvestorPosition, PositionRow, Consume
<1>3. \A b \in Accounts : book'[b].locks = book[b].locks /\ book'[b].today = book[b].today
  <2> SUFFICES ASSUME NEW b \in Accounts
               PROVE  book'[b].locks = book[b].locks /\ book'[b].today = book[b].today
    OBVIOUS
  <2>1. CASE r = Null
    BY <1>2, <2>1 DEF Added
  <2>2. CASE r # Null
    BY <1>1, <1>2, <2>2, AddedAt
  <2> QED
    BY <2>1, <2>2
<1>4. /\ unit'[a].bOrderInitialized = unit[a].bOrderInitialized
      /\ unit'[a].bTodayPosInitialized = unit[a].bTodayPosInitialized
      /\ unit'[a].logged_in = unit[a].logged_in
      /\ unit'[a].settle_confirmed = unit[a].settle_confirmed
      /\ \A b \in Accounts \ {a} : unit'[b] = unit[b]
  BY <1>1, <1>2 DEF TypeOK, UnitType
<1>5. asked'[a] = Answered(a, r) /\ \A b \in Accounts \ {a} : asked'[b] = asked[b]
  BY <1>1, <1>2 DEF TypeOK
<1>6. asked[a][1].kind = "positions" /\ 1 \in DOMAIN asked[a] /\ dialog[a] = "none"
  BY <1>1, AnsweredAt DEF BookInv, ChainInOrder
<1>7. \A k \in DOMAIN asked[a] : asked[a][k].kind # "orders"
  BY <1>1, <1>6 DEF BookInv, ChainInOrder
<1> HIDE DEF mine
<1>8. ChainInOrder(a)' /\ TradesKept(a)'
  <2>1. CASE bIsLast(a, r)
    <3>1. \A k \in DOMAIN asked'[a] : /\ k + 1 \in DOMAIN asked[a] /\ k \in Nat \ {0}
                                      /\ asked'[a][k] = asked[a][k + 1]
      BY <1>1, <1>5, <2>1, AnsweredAt
    <3>2. ChainInOrder(a)'
      BY <1>1, <1>2, <1>4, <1>6, <1>7, <3>1 DEF BookInv, ChainInOrder
    <3>3. TradesKept(a)'
      BY <1>1, <1>3, <1>4, <1>6, <3>1 DEF BookInv, TradesKept
    <3> QED
      BY <3>2, <3>3
  <2>2. CASE ~bIsLast(a, r)
    <3>1. /\ DOMAIN asked'[a] = DOMAIN asked[a]
          /\ \A k \in DOMAIN asked[a] : /\ asked'[a][k].kind = asked[a][k].kind
                                        /\ k # 1 => asked'[a][k] = asked[a][k]
      BY <1>1, <1>5, <2>2, AnsweredAt
    <3>2. ChainInOrder(a)'
      BY <1>1, <1>2, <1>4, <1>6, <1>7, <3>1 DEF BookInv, ChainInOrder
    <3>3. TradesKept(a)'
      BY <1>1, <1>3, <1>4, <1>6, <3>1 DEF BookInv, TradesKept
    <3> QED
      BY <3>2, <3>3
  <2> QED
    BY <2>1, <2>2
<1>9. \A b \in Accounts : LocksKept(b)'
  BY <1>1, <1>2, <1>3 DEF BookInv, LocksKept
<1>10. \A b \in Accounts \ {a} : ChainInOrder(b)' /\ TradesKept(b)'
  BY <1>1, <1>2, <1>3, <1>4, <1>5 DEF BookInv, ChainInOrder, TradesKept
<1> QED
  BY <1>8, <1>9, <1>10 DEF BookInv

(* An answer without records: the same query with nothing left in it *)
LEMMA FailedAt ==
  ASSUME TypeOK, NEW a \in Accounts, AnswerFails(a)
  PROVE  /\ 1 \in DOMAIN asked[a] /\ asked[a][1].rows = Rows /\ asked[a][1].kind \in Failing
         /\ asked[a] # << >> /\ asked'[a] # << >>
         /\ DOMAIN asked'[a] = DOMAIN asked[a]
         /\ asked'[a][1].kind = asked[a][1].kind /\ asked'[a][1].rows = {}
         /\ \A k \in DOMAIN asked[a] : k # 1 => asked'[a][k] = asked[a][k]
         /\ \A b \in Accounts \ {a} : asked'[b] = asked[b]
<1> DEFINE q == asked[a]
           e == [Head(q) EXCEPT !.rows = {}]
<1>1. /\ q \in Seq(QueryType) /\ q # << >> /\ asked \in [Accounts -> Seq(QueryType)]
      /\ Head(q).kind \in Failing /\ Head(q).rows = Rows
      /\ asked' = [asked EXCEPT ![a] = <<e>> \o Tail(q)]
  BY DEF TypeOK, AnswerFails
<1>2. Head(q) = q[1] /\ q[1] \in QueryType /\ 1 \in DOMAIN q
  BY <1>1
<1>3. e \in QueryType /\ e.kind = q[1].kind /\ e.rows = {}
  BY <1>2 DEF QueryType
<1>4. /\ <<e>> \in Seq(QueryType) /\ Tail(q) \in Seq(QueryType) /\ Len(Tail(q)) = Len(q) - 1
      /\ Len(q) \in Nat \ {0} /\ Len(<<e>>) = 1
  BY <1>1, <1>3
<1> DEFINE t == <<e>> \o Tail(q)
<1> HIDE DEF e
<1>5. /\ \A k \in 1 .. Len(q) : t[k] = IF k = 1 THEN e ELSE Tail(q)[k - 1]
      /\ Len(t) = Len(q) /\ t \in Seq(QueryType)
  BY <1>4
<1>6. \A k \in 1 .. Len(q) : k # 1 => Tail(q)[k - 1] = q[k]
  BY <1>1
<1>7. asked'[a] = t /\ \A b \in Accounts \ {a} : asked'[b] = asked[b]
  BY <1>1
<1> HIDE DEF t
<1>8. DOMAIN t = DOMAIN q /\ t # << >> /\ DOMAIN q = 1 .. Len(q)
  BY <1>1, <1>4, <1>5
<1> QED
  BY <1>1, <1>2, <1>3, <1>4, <1>5, <1>6, <1>7, <1>8

LEMMA AnswerFailsBook ==
  ASSUME IBook, NEW a \in Accounts, AnswerFails(a)
  PROVE  \A b \in Accounts : BookInv(b)'
<1>1. TypeOK /\ BookInv(a) /\ \A b \in Accounts : BookInv(b)
  BY DEF IBook, IInv
<1>2. UNCHANGED <<unit, dialog, book, lockInfo>>
  BY DEF AnswerFails
<1>3. ChainInOrder(a)'
  BY <1>1, <1>2, FailedAt DEF BookInv, ChainInOrder
<1>4. TradesKept(a)'
  BY <1>1, <1>2, FailedAt DEF BookInv, TradesKept
<1>5. LocksKept(a)'
  BY <1>1, <1>2 DEF BookInv, LocksKept
<1>6. \A b \in Accounts \ {a} : BookInv(b)'
  BY <1>1, <1>2, FailedAt, SameBook DEF Same
<1> QED
  BY <1>3, <1>4, <1>5, <1>6 DEF BookInv

LEMMA DisconnectedBook ==
  ASSUME IBook, NEW a \in Accounts, OnFrontDisconnected(a)
  PROVE  /\ \A b \in Accounts \ {a} : Same(b)
         /\ asked'[a] = << >> /\ lockInfo'[a] = {} /\ book'[a] = EmptyBook
         /\ ~unit'[a].bOrderInitialized
         /\ ~unit'[a].bTodayPosInitialized /\ ~unit'[a].bYesterdayPosInitialized
         /\ \A b \in Accounts : BookInv(b)'
<1>1. TypeOK /\ \A b \in Accounts : BookInv(b)
  BY DEF IBook, IInv
<1>2. /\ unit' = [unit EXCEPT ![a] = Disconnected(a)] /\ book' = [book EXCEPT ![a] = EmptyBook]
      /\ lockInfo' = [lockInfo EXCEPT ![a] = {}] /\ dialog' = [dialog EXCEPT ![a] = "none"]
      /\ asked' = [asked EXCEPT ![a] = << >>]
  BY DEF OnFrontDisconnected, Disconnect
<1>3. /\ ~Disconnected(a).bOrderInitialized
      /\ ~Disconnected(a).bTodayPosInitialized /\ ~Disconnected(a).bYesterdayPosInitialized
  BY DEF Disconnected, NewUnit
<1>4. /\ unit'[a] = Disconnected(a) /\ book'[a] = EmptyBook /\ lockInfo'[a] = {}
      /\ dialog'[a] = "none" /\ asked'[a] = << >>
      /\ \A b \in Accounts \ {a} : Same(b)
  BY <1>1, <1>2 DEF TypeOK, Same
<1>5. BookInv(a)'
  BY <1>3, <1>4 DEF BookInv, ChainInOrder, LocksKept, TradesKept, EmptyBook
<1>6. \A b \in Accounts \ {a} : BookInv(b)'
  BY <1>1, <1>4, SameBook
<1> QED
  BY <1>3, <1>4, <1>5, <1>6

(* Strategies ask only when the dialog is over. *)
LEMMA StrategyQueryAt ==
  ASSUME TypeOK, NEW a \in Accounts, NEW rows \in AskedRows, QueryOfStrategy(a, rows)
  PROVE  /\ MaxQueries # 0 /\ unit[a].logged_in /\ (need_settleConfirm => unit[a].settle_confirmed)
         /\ \A k \in DOMAIN asked'[a] :
              \/ k \in DOMAIN asked[a] /\ asked'[a][k] = asked[a][k]
              \/ /\ k \notin DOMAIN asked[a] /\ asked'[a][k].kind = "positions"
                 /\ asked'[a][k].rows = rows
         /\ asked[a] # << >> => asked'[a] # << >> /\ asked'[a][1] = asked[a][1]
         /\ \A b \in Accounts \ {a} : asked'[b] = asked[b]
<1> DEFINE e == Query("positions", NoRid, rows)
           q == asked[a]
<1>1. q \in Seq(QueryType) /\ asked' = [asked EXCEPT ![a] = Append(q, e)]
      /\ asked \in [Accounts -> Seq(QueryType)]
  BY DEF TypeOK, QueryOfStrategy
<1>2. e \in QueryType /\ e.kind = "positions" /\ e.rows = rows
  BY RowsAssumption DEF Query, QueryType, Queries, NoRid
<1> HIDE DEF e
<1>3. /\ \A k \in DOMAIN Append(q, e) : \/ k \in DOMAIN q /\ Append(q, e)[k] = q[k]
                                        \/ k \notin DOMAIN q /\ Append(q, e)[k] = e
      /\ q # << >> => Append(q, e) # << >> /\ Append(q, e)[1] = q[1]
  BY <1>1, <1>2
<1>4. asked'[a] = Append(q, e) /\ \A b \in Accounts \ {a} : asked'[b] = asked[b]
  BY <1>1
<1>5. unit[a].logged_in /\ (need_settleConfirm => unit[a].settle_confirmed)
  BY DEF QueryOfStrategy, is_logged_in
<1>6. MaxQueries # 0
  BY BoundsAssumption DEF QueryOfStrategy, TypeOK, BudgetType
<1> QED
  BY <1>2, <1>3, <1>4, <1>5, <1>6

LEMMA StrategyQueryBook ==
  ASSUME IBook, NEW a \in Accounts, NEW rows \in AskedRows, QueryOfStrategy(a, rows)
  PROVE  \A b \in Accounts : BookInv(b)'
<1>1. TypeOK /\ BookInv(a) /\ \A b \in Accounts : BookInv(b)
  BY DEF IBook, IInv
<1>2. UNCHANGED <<unit, dialog, book, lockInfo>>
  BY DEF QueryOfStrategy
<1>3. dialog[a] = "none"
  <2>1. dialog[a] \in {"auth", "login", "settle", "none"}
    BY <1>1 DEF TypeOK, Dialogs
  <2> QED
    BY <1>1, <2>1, StrategyQueryAt DEF BookInv, ChainInOrder
<1>4. ChainInOrder(a)'
  BY <1>1, <1>2, <1>3, StrategyQueryAt DEF BookInv, ChainInOrder
<1>5. TradesKept(a)' /\ LocksKept(a)'
  BY <1>1, <1>2, StrategyQueryAt DEF BookInv, TradesKept, LocksKept
<1>6. \A b \in Accounts \ {a} : BookInv(b)'
  BY <1>1, <1>2, StrategyQueryAt, SameBook DEF Same
<1> QED
  BY <1>4, <1>5, <1>6 DEF BookInv

LEMMA ReleasedKeeps ==
  ASSUME NEW u \in UnitType
  PROVE  /\ Released(u).bOrderInitialized = u.bOrderInitialized
         /\ Released(u).bTodayPosInitialized = u.bTodayPosInitialized
         /\ Released(u).bYesterdayPosInitialized = u.bYesterdayPosInitialized
         /\ Released(u).setOrder_rid = u.setOrder_rid
         /\ Released(u).setTodayPos_rid = u.setTodayPos_rid
BY DEF UnitType, Released

(* What belongs to on_engine_close: its own steps, and the answer to logout *)
Closes ==
  \/ on_engine_close \/ ClosingEnds
  \/ \E a \in Accounts : logout(a) \/ release_api(a) \/ OnRspUserLogout(a)

(* It only takes back: flags of the dialog, and on release what is asked. *)
LEMMA CloseAt ==
  ASSUME IInv, Closes
  PROVE  /\ MaxCloses # 0 /\ UNCHANGED <<book, lockInfo>>
         /\ \A b \in Accounts :
              /\ \/ dialog'[b] = dialog[b] /\ asked'[b] = asked[b]
                 \/ dialog'[b] = "none" /\ asked'[b] = << >>
              /\ unit'[b].logged_in => unit[b].logged_in
              /\ unit'[b].settle_confirmed => unit[b].settle_confirmed
              /\ unit'[b].bOrderInitialized = unit[b].bOrderInitialized
              /\ unit'[b].bTodayPosInitialized = unit[b].bTodayPosInitialized
              /\ unit'[b].bYesterdayPosInitialized = unit[b].bYesterdayPosInitialized
              /\ unit'[b].setOrder_rid = unit[b].setOrder_rid
              /\ unit'[b].setTodayPos_rid = unit[b].setTodayPos_rid
<1>1. TypeOK /\ unit \in [Accounts -> UnitType] /\ ClosingInOrder
  BY DEF IInv, TypeOK
<1>2. CASE on_engine_close \/ ClosingEnds
  <2>1. MaxCloses # 0
    BY <1>1, <1>2, BoundsAssumption DEF on_engine_close, ClosingEnds, ClosingInOrder, TypeOK, BudgetType
  <2>2. UNCHANGED <<unit, dialog, asked, book, lockInfo>>
    BY <1>2 DEF on_engine_close, ClosingEnds
  <2> QED
    BY <2>1, <2>2
<1>3. ASSUME NEW a \in Accounts, release_api(a)
      PROVE  /\ MaxCloses # 0 /\ UNCHANGED <<book, lockInfo>>
             /\ unit' = [unit EXCEPT ![a] = Released(unit[a])]
             /\ dialog' = [dialog EXCEPT ![a] = "none"] /\ asked' = [asked EXCEPT ![a] = << >>]
  BY <1>1, <1>3 DEF release_api, ClosingInOrder
<1>4. ASSUME NEW a \in Accounts, logout(a) \/ OnRspUserLogout(a)
      PROVE  /\ MaxCloses # 0 /\ UNCHANGED <<dialog, asked, book, lockInfo>>
             /\ \/ unit' = unit
                \/ unit' = [unit EXCEPT ![a].authenticated = FALSE]
                \/ unit' = [unit EXCEPT ![a].settle_confirmed = FALSE]
                \/ unit' = [unit EXCEPT ![a].logged_in = FALSE]
                \/ unit' = [unit EXCEPT ![a].logged_in = FALSE, ![a].authenticated = FALSE,
                                        ![a].settle_confirmed = FALSE]
  BY <1>1, <1>4 DEF logout, LogoutAuthenticated, LogoutSettleConfirmed, LogoutLoggedIn, Turn,
     OnRspUserLogout, ClosingInOrder
<1>5. CASE \E a \in Accounts : release_api(a)
  <2>1. PICK a \in Accounts : release_api(a)
    BY <1>5
  <2>2. /\ unit'[a] = Released(unit[a]) /\ dialog'[a] = "none" /\ asked'[a] = << >>
        /\ \A b \in Accounts \ {a} : unit'[b] = unit[b] /\ dialog'[b] = dialog[b] /\ asked'[b] = asked[b]
    BY <1>1, <1>3, <2>1 DEF TypeOK
  <2>3. unit[a] \in UnitType
    BY <1>1
  <2> QED
    BY <1>3, <2>1, <2>2, <2>3, ReleasedUnit, ReleasedKeeps
<1>6. CASE \E a \in Accounts : logout(a) \/ OnRspUserLogout(a)
  <2>1. PICK a \in Accounts : logout(a) \/ OnRspUserLogout(a)
    BY <1>6
  <2>2. unit[a] \in UnitType /\ \A b \in Accounts \ {a} : unit'[b] = unit[b]
    BY <1>1, <1>4, <2>1
  <2>3. \/ unit'[a] = unit[a]
        \/ unit'[a] = [unit[a] EXCEPT !.authenticated = FALSE]
        \/ unit'[a] = [unit[a] EXCEPT !.settle_confirmed = FALSE]
        \/ unit'[a] = [unit[a] EXCEPT !.logged_in = FALSE]
        \/ unit'[a] = [unit[a] EXCEPT !.logged_in = FALSE, !.authenticated = FALSE,
                                      !.settle_confirmed = FALSE]
    BY <1>1, <1>4, <2>1
  <2>4. /\ unit'[a].logged_in => unit[a].logged_in
        /\ unit'[a].settle_confirmed => unit[a].settle_confirmed
        /\ unit'[a].bOrderInitialized = unit[a].bOrderInitialized
        /\ unit'[a].bTodayPosInitialized = unit[a].bTodayPosInitialized
        /\ unit'[a].bYesterdayPosInitialized = unit[a].bYesterdayPosInitialized
        /\ unit'[a].setOrder_rid = unit[a].setOrder_rid
        /\ unit'[a].setTodayPos_rid = unit[a].setTodayPos_rid
    BY <2>2, <2>3 DEF UnitType
  <2> QED
    BY <1>4, <2>1, <2>2, <2>4
<1> QED
  BY <1>2, <1>5, <1>6 DEF Closes

LEMMA CloseBook ==
  ASSUME IBook, Closes
  PROVE  \A b \in Accounts : BookInv(b)'
<1>1. IInv /\ TypeOK /\ \A b \in Accounts : BookInv(b)
  BY DEF IBook, IInv
<1> SUFFICES ASSUME NEW b \in Accounts PROVE BookInv(b)'
  OBVIOUS
<1>2. BookInv(b)
  BY <1>1
<1>3. ChainInOrder(b)'
  BY <1>1, <1>2, CloseAt DEF BookInv, ChainInOrder
<1>4. TradesKept(b)' /\ LocksKept(b)'
  BY <1>1, <1>2, CloseAt DEF BookInv, TradesKept, LocksKept
<1> QED
  BY <1>3, <1>4 DEF BookInv

LEMMA OpenAt ==
  ASSUME TypeOK, on_engine_open
  PROVE  /\ UNCHANGED <<dialog, asked, book, lockInfo>>
         /\ \A b \in Accounts :
              /\ unit'[b].logged_in = unit[b].logged_in
              /\ unit'[b].settle_confirmed = unit[b].settle_confirmed
              /\ unit'[b].bOrderInitialized = unit[b].bOrderInitialized
              /\ unit'[b].bTodayPosInitialized = unit[b].bTodayPosInitialized
              /\ unit'[b].bYesterdayPosInitialized = unit[b].bYesterdayPosInitialized
              /\ unit'[b].setOrder_rid = unit[b].setOrder_rid
              /\ unit'[b].setTodayPos_rid = unit[b].setTodayPos_rid
BY DEF on_engine_open, TypeOK, UnitType

LEMMA OpenBook ==
  ASSUME IBook, on_engine_open
  PROVE  \A b \in Accounts : BookInv(b)'
<1>1. TypeOK /\ \A b \in Accounts : BookInv(b)
  BY DEF IBook, IInv
<1> SUFFICES ASSUME NEW b \in Accounts PROVE BookInv(b)'
  OBVIOUS
<1>2. BookInv(b)
  BY <1>1
<1>3. ChainInOrder(b)'
  BY <1>1, <1>2, OpenAt DEF BookInv, ChainInOrder
<1>4. TradesKept(b)' /\ LocksKept(b)'
  BY <1>1, <1>2, OpenAt DEF BookInv, TradesKept, LocksKept
<1> QED
  BY <1>3, <1>4 DEF BookInv

LEMMA NextBook == IBook /\ [Next]_vars => IBook'
<1> SUFFICES ASSUME IBook, [Next]_vars PROVE IBook'
  OBVIOUS
<1>1. IInv'
  BY NextIInv DEF IBook
<1>2. ASSUME NEW a \in Accounts, Callback(a) PROVE \A b \in Accounts : BookInv(b)'
  BY <1>2, FrontConnectedBook, AuthenticateBook, UserLoginBook, SettlementBook, CloseBook,
     QryOrderBook, QryTradeBook, QryPositionBook DEF Callback, Closes
<1>3. ASSUME NEW a \in Accounts, OnErrorAnswer(a) \/ AnswerFails(a) \/ OnFrontDisconnected(a)
      PROVE \A b \in Accounts : BookInv(b)'
  BY <1>3, ErrorAnswerBook, AnswerFailsBook, DisconnectedBook
<1>4. ASSUME Listener PROVE \A b \in Accounts : BookInv(b)'
  <2>1. ASSUME NEW a \in Accounts, NEW rows \in AskedRows, QueryOfStrategy(a, rows)
        PROVE  \A b \in Accounts : BookInv(b)'
    BY <2>1, StrategyQueryBook
  <2>2. CASE Closes
    BY <2>2, CloseBook
  <2>3. CASE on_engine_open
    BY <2>3, OpenBook
  <2> QED
    BY <1>4, <2>1, <2>2, <2>3 DEF Listener, Closes
<1>5. CASE StartListening \/ UNCHANGED vars
  <2>1. UNCHANGED <<unit, dialog, asked, book, lockInfo>>
    BY <1>5 DEF vars, StartListening
  <2> QED
    BY <1>1, <2>1, SameBook DEF IBook, Same
<1> QED
  BY <1>1, <1>2, <1>3, <1>4, <1>5 DEF Next, IBook

LEMMA InitBook == Init => IBook
<1> SUFFICES ASSUME Init PROVE IBook
  OBVIOUS
<1>1. \A a \in Accounts : /\ unit[a] = NewUnit /\ dialog[a] = "none" /\ asked[a] = << >>
                          /\ book[a] = EmptyBook /\ lockInfo[a] = {}
  BY DEF Init
<1>2. /\ DOMAIN << >> = {} /\ ~NewUnit.bOrderInitialized
      /\ \A r \in Rows : EmptyBook.locks[r] = 0 /\ EmptyBook.today[r] = 0
  BY DEF NewUnit, EmptyBook
<1>3. \A a \in Accounts : ChainInOrder(a)
  BY <1>1, <1>2 DEF ChainInOrder
<1>4. \A a \in Accounts : LocksKept(a)
  BY <1>1, <1>2 DEF LocksKept
<1>5. \A a \in Accounts : TradesKept(a)
  <2>1. \A a \in Accounts, r \in Rows : book[a].today[r] = 0
    BY <1>1, <1>2
  <2> QED
    BY <2>1 DEF TradesKept
<1> QED
  BY <1>3, <1>4, <1>5, InitIInv DEF IBook, BookInv

LEMMA SpecBook == Spec => []IBook
BY InitBook, NextBook, PTL DEF Spec

-----------------------------------------------------------------------------
(* A closing order is in the locks before the first trade counts, if the   *)
(* exchange always answers the query of orders.                            *)

LEMMA QryOrderLocks ==
  ASSUME IBook, NEW a \in Accounts, NEW r \in Rows \cup {Null}, OnRspQryOrder(a, r),
         \A b \in Accounts : OrdersLocked(b)
  PROVE  \A b \in Accounts : OrdersLocked(b)'
<1> DEFINE mine == unit[a].setOrder_rid = Head(asked[a]).rid
           info == lockInfo[a] \cup ({r} \ {Null})
<1>1. /\ TypeOK /\ unit[a] \in UnitType /\ BookInv(a) /\ OrdersLocked(a)
      /\ asked[a] # << >> /\ Head(asked[a]).kind = "orders"
  BY DEF IBook, IInv, TypeOK, OnRspQryOrder, OrderRow, Answering
<1>2. lockInfo' = IF mine THEN [lockInfo EXCEPT ![a] = info] ELSE lockInfo
  BY DEF OnRspQryOrder, OrderRow
<1>3. /\ mine => lockInfo'[a] = info
      /\ ~mine => lockInfo'[a] = lockInfo[a]
      /\ \A b \in Accounts \ {a} : lockInfo'[b] = lockInfo[b]
  BY <1>1, <1>2 DEF TypeOK
<1>4. /\ mine => Rows \subseteq asked[a][1].rows \cup lockInfo[a]
      /\ ~unit[a].bOrderInitialized
      /\ \A k \in DOMAIN asked[a] : asked[a][k].kind = "orders" => k = 1
  BY <1>1, AnsweredAt DEF OrdersLocked, BookInv, ChainInOrder
<1>5. \/ asked' = [asked EXCEPT ![a] = Answered(a, r)] /\ UNCHANGED unit
      \/ /\ mine /\ bIsLast(a, r) /\ Ask(a, "trades", Answered(a, r))
         /\ unit' = [unit EXCEPT ![a].bOrderInitialized = TRUE, ![a].setTodayPos_rid = request_id]
  BY DEF OnRspQryOrder, OrderRow, Consume
<1>6. mine => Head(asked[a]) = asked[a][1] /\ unit[a].setOrder_rid = asked[a][1].rid
  BY <1>1, AnsweredAt
<1>7. mine \/ unit[a].setOrder_rid # asked[a][1].rid
  BY <1>1, AnsweredAt
<1> HIDE DEF mine
<1>8. CASE asked' = [asked EXCEPT ![a] = Answered(a, r)] /\ UNCHANGED unit
  <2>1. asked'[a] = Answered(a, r) /\ \A b \in Accounts \ {a} : asked'[b] = asked[b]
    BY <1>1, <1>8 DEF TypeOK
  <2>2. \A k \in DOMAIN asked'[a] : asked'[a][k].kind = "orders" =>
           /\ k = 1 /\ asked'[a][k].rid = asked[a][1].rid
           /\ asked'[a][k].rows = asked[a][1].rows \ {r}
    BY <1>1, <1>4, <2>1, AnsweredAt
  <2>3. OrdersLocked(a)'
    <3>1. ASSUME mine PROVE Rows \subseteq (asked[a][1].rows \ {r}) \cup lockInfo'[a]
      BY <1>3, <1>4, <3>1, RowsAssumption
    <3> QED
      BY <1>4, <1>7, <1>8, <2>2, <3>1 DEF OrdersLocked
  <2> QED
    BY <1>3, <1>8, <2>1, <2>3 DEF OrdersLocked
<1>9. CASE /\ mine /\ bIsLast(a, r) /\ Ask(a, "trades", Answered(a, r))
           /\ unit' = [unit EXCEPT ![a].bOrderInitialized = TRUE, ![a].setTodayPos_rid = request_id]
  <2>1. \A b \in Accounts \ {a} : unit'[b] = unit[b]
    BY <1>1, <1>9 DEF TypeOK
  <2>2. /\ \A b \in Accounts \ {a} : asked'[b] = asked[b]
        /\ \A k \in DOMAIN asked'[a] :
             \/ k \in DOMAIN Answered(a, r) /\ asked'[a][k] = Answered(a, r)[k]
             \/ k = Len(Answered(a, r)) + 1 /\ asked'[a][k].kind = "trades"
    BY <1>1, <1>9, AnsweredAt, AskType, AskAt DEF Queries
  <2>3. \A k \in DOMAIN Answered(a, r) : Answered(a, r)[k].kind # "orders"
    BY <1>1, <1>4, <1>9, AnsweredAt
  <2>4. asked[a][1].rows \subseteq {r}
    BY <1>1, <1>9, AnsweredAt DEF bIsLast
  <2>5. Rows \subseteq lockInfo'[a]
    BY <1>3, <1>4, <1>9, <2>4, RowsAssumption
  <2>6. OrdersLocked(a)'
    BY <2>2, <2>3, <2>5 DEF OrdersLocked
  <2> QED
    BY <1>3, <2>1, <2>2, <2>6 DEF OrdersLocked
<1> QED
  BY <1>5, <1>8, <1>9

(* Steps that leave the locks alone and ask for no orders *)
LEMMA NoOrdersAsked ==
  ASSUME NEW a, OrdersLocked(a), lockInfo'[a] = lockInfo[a],
         unit'[a].bOrderInitialized = unit[a].bOrderInitialized,
         \A k \in DOMAIN asked'[a] : asked'[a][k].kind # "orders"
  PROVE  OrdersLocked(a)'
BY DEF OrdersLocked

LEMMA QryRestLocks ==
  ASSUME IBook, NEW a \in Accounts, NEW r \in Rows \cup {Null},
         OnRspQryTrade(a, r) \/ OnRspQryInvestorPosition(a, r),
         \A b \in Accounts : OrdersLocked(b)
  PROVE  \A b \in Accounts : OrdersLocked(b)'
<1>1. /\ TypeOK /\ unit[a] \in UnitType /\ BookInv(a) /\ OrdersLocked(a)
      /\ asked[a] # << >> /\ Head(asked[a]).kind \in {"trades", "positions"}
      /\ UNCHANGED lockInfo
  BY DEF IBook, IInv, TypeOK, OnRspQryTrade, TradeRow, Answering, OnRspQryInvestorPosition,
         PositionRow
<1>2. \A k \in DOMAIN asked[a] : asked[a][k].kind # "orders"
  BY <1>1, AnsweredAt DEF BookInv, ChainInOrder
<1>3. \A k \in DOMAIN Answered(a, r) : Answered(a, r)[k].kind # "orders"
  BY <1>1, <1>2, AnsweredAt
<1>4. \/ asked' = [asked EXCEPT ![a] = Answered(a, r)]
      \/ Ask(a, "positions", Answered(a, r))
  BY DEF OnRspQryTrade, TradeRow, OnRspQryInvestorPosition, PositionRow, Consume
<1>5. /\ \A b \in Accounts \ {a} : asked'[b] = asked[b]
      /\ \A k \in DOMAIN asked'[a] : asked'[a][k].kind # "orders"
  <2>1. CASE asked' = [asked EXCEPT ![a] = Answered(a, r)]
    BY <1>1, <1>3, <2>1 DEF TypeOK
  <2>2. CASE Ask(a, "positions", Answered(a, r))
    <3>1. Answered(a, r) \in Seq(QueryType) /\ "positions" \in Queries
      BY <1>1, AnsweredAt DEF Queries
    <3> QED
      BY <1>1, <1>3, <2>2, <3>1, AskType, AskAt
  <2> QED
    BY <1>4, <2>1, <2>2
<1>6. \/ UNCHANGED unit
      \/ unit' = [unit EXCEPT ![a].bTodayPosInitialized = TRUE]
      \/ unit' = [unit EXCEPT ![a].bYesterdayPosInitialized = TRUE]
  BY DEF OnRspQryTrade, TradeRow, OnRspQryInvestorPosition, PositionRow
<1>7. /\ unit'[a].bOrderInitialized = unit[a].bOrderInitialized
      /\ \A b \in Accounts \ {a} : unit'[b] = unit[b]
  BY <1>1, <1>6 DEF TypeOK, UnitType
<1>8. OrdersLocked(a)'
  BY <1>1, <1>5, <1>7, NoOrdersAsked
<1> QED
  BY <1>1, <1>5, <1>7, <1>8 DEF OrdersLocked

LEMMA SettlementLocks ==
  ASSUME IBook, NEW a \in Accounts, OnRspSettlementInfoConfirm(a),
         \A b \in Accounts : OrdersLocked(b)
  PROVE  \A b \in Accounts : OrdersLocked(b)'
<1>1. /\ TypeOK /\ unit[a] \in UnitType /\ BookInv(a) /\ OrdersLocked(a) /\ UNCHANGED lockInfo
  BY DEF IBook, IInv, TypeOK, OnRspSettlementInfoConfirm
<1>2. asked[a] = << >>
  BY <1>1 DEF OnRspSettlementInfoConfirm, BookInv, ChainInOrder
<1>3. CASE ~unit[a].bOrderInitialized
  <2> DEFINE none == << >>
  <2>1. /\ unit' = [unit EXCEPT ![a].settle_confirmed = TRUE, ![a].setOrder_rid = request_id]
        /\ Ask(a, "orders", none)
    BY <1>2, <1>3 DEF OnRspSettlementInfoConfirm
  <2>2. /\ unit'[a].bOrderInitialized = unit[a].bOrderInitialized
        /\ \A b \in Accounts \ {a} : unit'[b] = unit[b]
    BY <1>1, <2>1 DEF TypeOK, UnitType
  <2>3. none \in Seq(QueryType) /\ DOMAIN none = {} /\ "orders" \in Queries
    BY DEF Queries
  <2> HIDE DEF none
  <2>4. /\ \A b \in Accounts \ {a} : asked'[b] = asked[b]
        /\ \A k \in DOMAIN asked'[a] :
             \/ k \in DOMAIN none /\ asked'[a][k] = none[k]
             \/ /\ k = Len(none) + 1 /\ k \notin DOMAIN none
                /\ asked'[a][k].kind = "orders" /\ asked'[a][k].rows = Rows
    <3>1. \A b \in Accounts \ {a} : asked'[b] = asked[b]
      BY <1>1, <2>1, <2>3, AskType
    <3>2. TypeOK /\ Ask(a, "orders", none) /\ none \in Seq(QueryType) /\ "orders" \in Queries
      BY <1>1, <2>1, <2>3
    <3>3. \A k \in DOMAIN asked'[a] :
             \/ k \in DOMAIN none /\ asked'[a][k] = none[k]
             \/ /\ k = Len(none) + 1 /\ k \notin DOMAIN none
                /\ asked'[a][k].kind = "orders" /\ asked'[a][k].rows = Rows
      BY <3>2, AskAt
    <3> QED
      BY <3>1, <3>3
  <2>5. OrdersLocked(a)'
    BY <1>3, <2>2, <2>3, <2>4 DEF OrdersLocked
  <2> QED
    BY <1>1, <2>2, <2>4, <2>5 DEF OrdersLocked
<1>4. CASE unit[a].bOrderInitialized
  <2>1. unit' = [unit EXCEPT ![a].settle_confirmed = TRUE] /\ UNCHANGED asked
    BY <1>4 DEF OnRspSettlementInfoConfirm
  <2>2. /\ unit'[a].bOrderInitialized = unit[a].bOrderInitialized
        /\ \A b \in Accounts \ {a} : unit'[b] = unit[b]
    BY <1>1, <2>1 DEF TypeOK, UnitType
  <2> QED
    BY <1>1, <1>2, <2>1, <2>2 DEF OrdersLocked
<1> QED
  BY <1>1, <1>3, <1>4 DEF UnitType

(* The dialog before it only sets flags. *)
LEMMA DialogAt ==
  ASSUME TypeOK, NEW a \in Accounts,
         OnFrontConnected(a) \/ OnRspAuthenticate(a) \/ OnRspUserLogin(a) \/ OnErrorAnswer(a)
  PROVE  /\ UNCHANGED <<asked, book, lockInfo>>
         /\ \A b \in Accounts :
              /\ unit'[b].bOrderInitialized = unit[b].bOrderInitialized
              /\ unit'[b].bTodayPosInitialized = unit[b].bTodayPosInitialized
              /\ unit'[b].bYesterdayPosInitialized = unit[b].bYesterdayPosInitialized
              /\ unit'[b].setOrder_rid = unit[b].setOrder_rid
              /\ unit'[b].setTodayPos_rid = unit[b].setTodayPos_rid
<1>1. UNCHANGED <<asked, book, lockInfo>>
  BY DEF OnFrontConnected, OnRspAuthenticate, OnRspUserLogin, OnErrorAnswer
<1>2. \/ unit' = [unit EXCEPT ![a].connected = TRUE]
      \/ unit' = [unit EXCEPT ![a].authenticated = TRUE]
      \/ unit' = [unit EXCEPT ![a].logged_in = TRUE]
      \/ unit' = unit
  BY DEF OnFrontConnected, OnRspAuthenticate, OnRspUserLogin, OnErrorAnswer
<1>3. unit \in [Accounts -> UnitType]
  BY DEF TypeOK
<1> QED
  BY <1>1, <1>2, <1>3 DEF UnitType

ILocks == IBook /\ \A a \in Accounts : OrdersLocked(a)

LEMMA NextLocks ==
  ASSUME "orders" \notin Failing
  PROVE  ILocks /\ [Next]_vars => ILocks'
<1> SUFFICES ASSUME ILocks, [Next]_vars PROVE ILocks'
  OBVIOUS
<1>1. IBook' /\ IBook /\ IInv /\ TypeOK /\ \A b \in Accounts : OrdersLocked(b)
  BY NextBook DEF ILocks, IBook, IInv
<1>6. ASSUME Closes PROVE \A b \in Accounts : OrdersLocked(b)'
  <2>1. /\ UNCHANGED lockInfo
        /\ \A b \in Accounts : /\ asked'[b] \in {asked[b], << >>}
                               /\ unit'[b].setOrder_rid = unit[b].setOrder_rid
                               /\ unit'[b].bOrderInitialized = unit[b].bOrderInitialized
    BY <1>1, <1>6, CloseAt
  <2> QED
    BY <1>1, <2>1 DEF OrdersLocked
<1>2. ASSUME NEW a \in Accounts, Callback(a) \/ OnErrorAnswer(a)
      PROVE  \A b \in Accounts : OrdersLocked(b)'
  <2>1. CASE OnFrontConnected(a) \/ OnRspAuthenticate(a) \/ OnRspUserLogin(a) \/ OnErrorAnswer(a)
    BY <1>1, <2>1, DialogAt DEF OrdersLocked
  <2>2. CASE OnRspUserLogout(a)
    BY <1>6, <2>2 DEF Closes
  <2> QED
    BY <1>1, <1>2, <2>1, <2>2, SettlementLocks, QryOrderLocks, QryRestLocks DEF Callback
<1>3. ASSUME NEW a \in Accounts, AnswerFails(a) PROVE \A b \in Accounts : OrdersLocked(b)'
  <2>1. /\ UNCHANGED <<unit, lockInfo>> /\ \A b \in Accounts \ {a} : asked'[b] = asked[b]
        /\ asked[a][1].kind # "orders"
    BY <1>1, <1>3, FailedAt DEF AnswerFails
  <2>2. \A k \in DOMAIN asked'[a] : asked'[a][k].kind = "orders" =>
          k \in DOMAIN asked[a] /\ asked'[a][k] = asked[a][k]
    BY <1>1, <1>3, <2>1, FailedAt
  <2> QED
    BY <1>1, <2>1, <2>2 DEF OrdersLocked
<1>4. ASSUME NEW a \in Accounts, OnFrontDisconnected(a) PROVE \A b \in Accounts : OrdersLocked(b)'
  BY <1>1, <1>4, DisconnectedBook, SameOrders DEF OrdersLocked
<1>5. ASSUME NEW a \in Accounts, NEW rows \in AskedRows, QueryOfStrategy(a, rows)
      PROVE  \A b \in Accounts : OrdersLocked(b)'
  <2>1. UNCHANGED <<unit, lockInfo>>
    BY <1>5 DEF QueryOfStrategy
  <2> QED
    BY <1>1, <1>5, <2>1, StrategyQueryAt DEF OrdersLocked
<1>7. ASSUME on_engine_open PROVE \A b \in Accounts : OrdersLocked(b)'
  <2>1. /\ UNCHANGED <<asked, lockInfo>>
        /\ \A b \in Accounts : /\ unit'[b].setOrder_rid = unit[b].setOrder_rid
                               /\ unit'[b].bOrderInitialized = unit[b].bOrderInitialized
    BY <1>1, <1>7, OpenAt
  <2> QED
    BY <1>1, <2>1 DEF OrdersLocked
<1>8. ASSUME StartListening \/ UNCHANGED vars PROVE \A b \in Accounts : OrdersLocked(b)'
  <2>1. UNCHANGED <<unit, asked, lockInfo>>
    BY <1>8 DEF vars, StartListening
  <2> QED
    BY <1>1, <2>1 DEF OrdersLocked
<1> QED
  BY <1>1, <1>2, <1>3, <1>4, <1>5, <1>6, <1>7, <1>8 DEF Next, Listener, Closes, ILocks

(* No trade of the day counts before every closing order of the day has    *)
(* its lock (OnRspQryOrder asks for the trades behind the last order).     *)
THEOREM OrdersBeforeTrades ==
  ASSUME "orders" \notin Failing
  PROVE  Spec => []LocksBeforeTrades
<1>1. Init => ILocks
  BY InitBook DEF ILocks, OrdersLocked, Init, NewUnit
<1>2. ILocks => LocksBeforeTrades
  <2> SUFFICES ASSUME ILocks, NEW a \in Accounts, NEW s \in Rows, book[a].today[s] > 0,
                      NEW r \in Rows
               PROVE  book[a].locks[r] = 1
    BY DEF LocksBeforeTrades
  <2>1. unit[a].bOrderInitialized /\ Rows \subseteq lockInfo[a]
    BY DEF ILocks, IBook, BookInv, TradesKept, OrdersLocked
  <2> QED
    BY <2>1 DEF ILocks, IBook, BookInv, LocksKept
<1> QED
  BY <1>1, <1>2, NextLocks, PTL DEF Spec

-----------------------------------------------------------------------------
(* A position is counted only while its answer comes in, row by row, or    *)
(* the answer was cut off by on_engine_close and nobody asks again.        *)

CutOff(a) == MaxQueries = 0 /\ asked[a] = << >> /\ unit[a].bOrderInitialized

BeingAnswered(a, r) ==
  /\ asked[a] # << >>
  /\ asked[a][1].kind = "positions" /\ r \notin asked[a][1].rows

PositionsKept(a) ==
  \A r \in Rows :
    /\ book[a].yesterday[r] <= 1
    /\ book[a].yesterday[r] > 0 /\ ~unit[a].bYesterdayPosInitialized =>
         BeingAnswered(a, r) \/ CutOff(a)

IPositions == IBook /\ \A a \in Accounts : PositionsKept(a)

LEMMA InitPositions == Init => IPositions
<1> SUFFICES ASSUME Init PROVE IPositions
  OBVIOUS
<1>1. \A a \in Accounts, r \in Rows : book[a].yesterday[r] = 0
  BY DEF Init, EmptyBook
<1> QED
  BY <1>1, InitBook DEF IPositions, PositionsKept

LEMMA SamePositions ==
  ASSUME NEW b, PositionsKept(b), asked'[b] = asked[b], book'[b].yesterday = book[b].yesterday,
         unit'[b].bOrderInitialized = unit[b].bOrderInitialized,
         unit'[b].bYesterdayPosInitialized = unit[b].bYesterdayPosInitialized
  PROVE  PositionsKept(b)'
BY DEF PositionsKept, BeingAnswered, CutOff

(* No answer of positions is half-way while another query is the first,    *)
(* nor while the orders are to be asked for.                               *)
LEMMA OtherAnswer ==
  ASSUME NEW a, PositionsKept(a),
         \/ asked[a] # << >> /\ asked[a][1].kind # "positions"
         \/ asked[a] = << >> /\ ~unit[a].bOrderInitialized,
         book'[a].yesterday = book[a].yesterday,
         unit'[a].bYesterdayPosInitialized = unit[a].bYesterdayPosInitialized
  PROVE  PositionsKept(a)'
BY DEF PositionsKept, BeingAnswered, CutOff

LEMMA OrderTradePositions ==
  ASSUME IPositions, NEW a \in Accounts, NEW r \in Rows \cup {Null},
         OnRspQryOrder(a, r) \/ OnRspQryTrade(a, r)
  PROVE  \A b \in Accounts : PositionsKept(b)'
<1>1. /\ TypeOK /\ unit \in [Accounts -> UnitType] /\ \A b \in Accounts : PositionsKept(b)
      /\ asked[a] # << >> /\ Head(asked[a]).kind # "positions"
  BY DEF IPositions, IBook, IInv, TypeOK, OnRspQryOrder, OrderRow, OnRspQryTrade, TradeRow, Answering
<1>2. asked[a][1].kind # "positions"
  BY <1>1, AnsweredAt
<1>3. book' \in {book, Added(a, "locks", r), Added(a, "today", r)}
  BY DEF OnRspQryOrder, OrderRow, OnRspQryTrade, TradeRow
<1>4. \A b \in Accounts : book'[b].yesterday = book[b].yesterday
  <2>1. CASE r = Null
    BY <1>3, <2>1 DEF Added
  <2>2. CASE r # Null
    BY <1>1, <1>3, <2>2, AddedAt
  <2> QED
    BY <2>1, <2>2
<1>5. \/ unit' = unit
      \/ unit' = [unit EXCEPT ![a].bOrderInitialized = TRUE, ![a].setTodayPos_rid = request_id]
      \/ unit' = [unit EXCEPT ![a].bTodayPosInitialized = TRUE]
  BY DEF OnRspQryOrder, OrderRow, OnRspQryTrade, TradeRow
<1>6. /\ unit'[a].bYesterdayPosInitialized = unit[a].bYesterdayPosInitialized
      /\ \A b \in Accounts \ {a} : unit'[b] = unit[b]
  BY <1>1, <1>5 DEF UnitType
<1>7. \/ asked' = [asked EXCEPT ![a] = Answered(a, r)]
      \/ \E kind \in {"trades", "positions"} : Ask(a, kind, Answered(a, r))
  BY DEF OnRspQryOrder, OrderRow, OnRspQryTrade, TradeRow, Consume
<1>8. \A b \in Accounts \ {a} : asked'[b] = asked[b]
  <2>1. CASE asked' = [asked EXCEPT ![a] = Answered(a, r)]
    BY <1>1, <2>1 DEF TypeOK
  <2>2. CASE \E kind \in {"trades", "positions"} : Ask(a, kind, Answered(a, r))
    BY <1>1, <2>2, AnsweredAt, AskType DEF Queries
  <2> QED
    BY <1>7, <2>1, <2>2
<1>9. PositionsKept(a)'
  BY <1>1, <1>2, <1>4, <1>6, OtherAnswer
<1>10. \A b \in Accounts \ {a} : PositionsKept(b)'
  BY <1>1, <1>4, <1>6, <1>8, SamePositions
<1> QED
  BY <1>9, <1>10

LEMMA PositionPositions ==
  ASSUME IPositions, NEW a \in Accounts, NEW r \in Rows \cup {Null}, OnRspQryInvestorPosition(a, r)
  PROVE  \A b \in Accounts : PositionsKept(b)'
<1> DEFINE mine == ~unit[a].bYesterdayPosInitialized
<1>1. /\ TypeOK /\ unit[a] \in UnitType /\ \A b \in Accounts : PositionsKept(b)
      /\ asked[a] # << >> /\ Head(asked[a]).kind = "positions" /\ r \in Records(a)
  BY DEF IPositions, IBook, IInv, TypeOK, OnRspQryInvestorPosition, PositionRow, Answering
<1>2. /\ book' = IF mine THEN Added(a, "yesterday", r) ELSE book
      /\ unit' = IF mine /\ bIsLast(a, r)
                   THEN [unit EXCEPT ![a].bYesterdayPosInitialized = TRUE] ELSE unit
      /\ asked' = [asked EXCEPT ![a] = Answered(a, r)]
  BY DEF OnRspQryInvestorPosition, PositionRow, Consume
<1>3. \A b \in Accounts, s \in Rows :
        book'[b].yesterday[s] = IF mine /\ b = a /\ s = r THEN book[b].yesterday[s] + 1
                                                          ELSE book[b].yesterday[s]
  BY <1>1, <1>2, AddedAt
<1>4. /\ mine /\ bIsLast(a, r) => unit'[a].bYesterdayPosInitialized
      /\ ~(mine /\ bIsLast(a, r)) => unit' = unit
      /\ \A b \in Accounts \ {a} : unit'[b] = unit[b]
  BY <1>1, <1>2 DEF TypeOK, UnitType
<1>5. asked'[a] = Answered(a, r) /\ \A b \in Accounts \ {a} : asked'[b] = asked[b]
  BY <1>1, <1>2 DEF TypeOK
<1>6. /\ asked[a][1].kind = "positions"
      /\ r \in Rows => r \in asked[a][1].rows
  BY <1>1, AnsweredAt, RowsAssumption DEF Records
<1>7. \A s \in Rows : /\ book[a].yesterday[s] \in Nat /\ book[a].yesterday[s] <= 1
                      /\ mine /\ book[a].yesterday[s] > 0 => s \notin asked[a][1].rows
  BY <1>1 DEF PositionsKept, BeingAnswered, CutOff, TypeOK, BookType
<1>8. \A s \in Rows : book'[a].yesterday[s] <= 1
  BY <1>3, <1>6, <1>7
<1>9. ASSUME NEW s \in Rows, book'[a].yesterday[s] > 0, ~unit'[a].bYesterdayPosInitialized
      PROVE  BeingAnswered(a, s)'
  <2>1. mine /\ ~bIsLast(a, r)
    BY <1>4, <1>9
  <2>2. /\ asked'[a] # << >> /\ asked'[a][1].kind = "positions"
        /\ asked'[a][1].rows = asked[a][1].rows \ {r}
    BY <1>1, <1>5, <1>6, <2>1, AnsweredAt
  <2>3. s \notin asked[a][1].rows \ {r}
    BY <1>3, <1>7, <1>9, <2>1
  <2> QED
    BY <2>2, <2>3 DEF BeingAnswered
<1>10. PositionsKept(a)'
  BY <1>8, <1>9 DEF PositionsKept
<1>11. \A b \in Accounts \ {a} : PositionsKept(b)'
  <2> SUFFICES ASSUME NEW b \in Accounts \ {a} PROVE PositionsKept(b)'
    OBVIOUS
  <2>1. \A s \in Rows : book'[b].yesterday[s] = book[b].yesterday[s]
    BY <1>3
  <2>2. PositionsKept(b) /\ unit'[b] = unit[b] /\ asked'[b] = asked[b]
    BY <1>1, <1>4, <1>5
  <2> QED
    BY <2>1, <2>2 DEF PositionsKept, BeingAnswered, CutOff
<1> QED
  BY <1>10, <1>11

LEMMA SettlementPositions ==
  ASSUME IPositions, NEW a \in Accounts, OnRspSettlementInfoConfirm(a)
  PROVE  \A b \in Accounts : PositionsKept(b)'
<1>1. /\ TypeOK /\ unit \in [Accounts -> UnitType] /\ BookInv(a)
      /\ \A b \in Accounts : PositionsKept(b) /\ UNCHANGED book
  BY DEF IPositions, IBook, IInv, TypeOK, OnRspSettlementInfoConfirm
<1>2. asked[a] = << >>
  BY <1>1 DEF OnRspSettlementInfoConfirm, BookInv, ChainInOrder
<1>3. UNCHANGED book
  BY DEF OnRspSettlementInfoConfirm
<1>4. \/ unit' = [unit EXCEPT ![a].settle_confirmed = TRUE]
      \/ unit' = [unit EXCEPT ![a].settle_confirmed = TRUE, ![a].setOrder_rid = request_id]
  BY DEF OnRspSettlementInfoConfirm
<1>5. /\ unit'[a].bYesterdayPosInitialized = unit[a].bYesterdayPosInitialized
      /\ unit'[a].bOrderInitialized = unit[a].bOrderInitialized
      /\ \A b \in Accounts \ {a} : unit'[b] = unit[b]
  BY <1>1, <1>4 DEF UnitType
<1>6. \/ UNCHANGED asked /\ unit[a].bOrderInitialized
      \/ ~unit[a].bOrderInitialized /\ Ask(a, "orders", asked[a])
  BY DEF OnRspSettlementInfoConfirm
<1>7. \A b \in Accounts \ {a} : asked'[b] = asked[b]
  <2>1. asked[a] \in Seq(QueryType) /\ "orders" \in Queries
    BY <1>1 DEF TypeOK, Queries
  <2> QED
    BY <1>1, <1>6, <2>1, AskType
<1>8. PositionsKept(a)'
  <2>1. CASE UNCHANGED asked
    BY <1>1, <1>3, <1>5, <2>1, SamePositions
  <2>2. CASE ~unit[a].bOrderInitialized
    BY <1>1, <1>2, <1>3, <1>5, <2>2, OtherAnswer
  <2> QED
    BY <1>6, <2>1, <2>2
<1>9. \A b \in Accounts \ {a} : PositionsKept(b)'
  BY <1>1, <1>3, <1>5, <1>7, SamePositions
<1> QED
  BY <1>8, <1>9

LEMMA NextPositions ==
  ASSUME MaxCloses = 0 \/ MaxQueries = 0
  PROVE  IPositions /\ [Next]_vars => IPositions'
<1> SUFFICES ASSUME IPositions, [Next]_vars PROVE IPositions'
  OBVIOUS
<1>1. /\ IBook' /\ IBook /\ IInv /\ TypeOK
      /\ \A b \in Accounts : BookInv(b) /\ PositionsKept(b)
  BY NextBook DEF IPositions, IBook, IInv
<1>6. ASSUME Closes PROVE \A b \in Accounts : PositionsKept(b)'
  <2>1. /\ MaxQueries = 0 /\ UNCHANGED book
        /\ \A b \in Accounts :
             /\ asked'[b] \in {asked[b], << >>}
             /\ unit'[b].bOrderInitialized = unit[b].bOrderInitialized
             /\ unit'[b].bYesterdayPosInitialized = unit[b].bYesterdayPosInitialized
    BY <1>1, <1>6, CloseAt
  <2> SUFFICES ASSUME NEW b \in Accounts PROVE PositionsKept(b)'
    OBVIOUS
  <2>2. CASE asked'[b] = asked[b]
    BY <1>1, <2>1, <2>2, SamePositions
  <2>3. CASE asked'[b] = << >>
    <3>1. asked[b] # << >> => 1 \in DOMAIN asked[b]
      BY <1>1 DEF TypeOK
    <3>2. ASSUME NEW r \in Rows, BeingAnswered(b, r) PROVE unit[b].bOrderInitialized
      BY <1>1, <2>1, <3>1, <3>2 DEF BeingAnswered, BookInv, ChainInOrder
    <3>3. ASSUME NEW r \in Rows, book[b].yesterday[r] > 0, ~unit[b].bYesterdayPosInitialized
          PROVE  CutOff(b)'
      BY <1>1, <2>1, <2>3, <3>2, <3>3 DEF PositionsKept, CutOff
    <3> QED
      BY <1>1, <2>1, <3>3 DEF PositionsKept
  <2> QED
    BY <2>1, <2>2, <2>3
<1>2. ASSUME NEW a \in Accounts, Callback(a) \/ OnErrorAnswer(a)
      PROVE  \A b \in Accounts : PositionsKept(b)'
  <2>1. CASE OnFrontConnected(a) \/ OnRspAuthenticate(a) \/ OnRspUserLogin(a) \/ OnErrorAnswer(a)
    BY <1>1, <2>1, DialogAt, SamePositions
  <2>2. CASE OnRspUserLogout(a)
    BY <1>6, <2>2 DEF Closes
  <2> QED
    BY <1>2, <2>1, <2>2, SettlementPositions, OrderTradePositions, PositionPositions DEF Callback
<1>3. ASSUME NEW a \in Accounts, AnswerFails(a) PROVE \A b \in Accounts : PositionsKept(b)'
  <2>1. /\ UNCHANGED <<unit, book>> /\ \A b \in Accounts \ {a} : asked'[b] = asked[b]
        /\ asked[a] # << >> /\ asked[a][1].rows = Rows
    BY <1>1, <1>3, FailedAt DEF AnswerFails
  <2>2. PositionsKept(a)'
    BY <1>1, <2>1 DEF PositionsKept, BeingAnswered, CutOff
  <2> QED
    BY <1>1, <2>1, <2>2, SamePositions
<1>4. ASSUME NEW a \in Accounts, OnFrontDisconnected(a) PROVE \A b \in Accounts : PositionsKept(b)'
  <2>1. \A b \in Accounts \ {a} : Same(b)
    BY <1>1, <1>4, DisconnectedBook
  <2>2. \A r \in Rows : book'[a].yesterday[r] = 0
    BY <1>1, <1>4, DisconnectedBook DEF EmptyBook
  <2>3. PositionsKept(a)'
    BY <2>2 DEF PositionsKept
  <2> QED
    BY <1>1, <2>1, <2>3, SamePositions DEF Same
<1>5. ASSUME NEW a \in Accounts, NEW rows \in AskedRows, QueryOfStrategy(a, rows)
      PROVE  \A b \in Accounts : PositionsKept(b)'
  <2>1. UNCHANGED <<unit, book>>
    BY <1>5 DEF QueryOfStrategy
  <2>2. /\ MaxQueries # 0 /\ \A b \in Accounts \ {a} : asked'[b] = asked[b]
        /\ asked[a] # << >> => asked'[a] # << >> /\ asked'[a][1] = asked[a][1]
    BY <1>1, <1>5, StrategyQueryAt
  <2>3. PositionsKept(a)'
    BY <1>1, <2>1, <2>2 DEF PositionsKept, BeingAnswered, CutOff
  <2> QED
    BY <1>1, <2>1, <2>2, <2>3, SamePositions
<1>7. ASSUME on_engine_open PROVE \A b \in Accounts : PositionsKept(b)'
  BY <1>1, <1>7, OpenAt, SamePositions
<1>8. ASSUME StartListening \/ UNCHANGED vars PROVE \A b \in Accounts : PositionsKept(b)'
  <2>1. UNCHANGED <<unit, asked, book>>
    BY <1>8 DEF vars, StartListening
  <2> QED
    BY <1>1, <2>1, SamePositions
<1> QED
  BY <1>1, <1>2, <1>3, <1>4, <1>5, <1>6, <1>7, <1>8 DEF Next, Listener, Closes, IPositions

(* No lock, trade or position of the day is added twice to the book of an  *)
(* account (setValue, setTodayPos, setYesterdayPos), however often its     *)
(* connection breaks, if strategies ask nothing of an engine that was      *)
(* closed in between.                                                      *)
THEOREM EachCountedOnce ==
  ASSUME MaxCloses = 0 \/ MaxQueries = 0
  PROVE  Spec => []CountedOnce
<1>1. Init => IPositions
  BY InitPositions
<1>2. IPositions => CountedOnce
  <2> SUFFICES ASSUME IPositions, NEW a \in Accounts, NEW r \in Rows
               PROVE  book[a].locks[r] <= 1 /\ book[a].today[r] <= 1 /\ book[a].yesterday[r] <= 1
    BY DEF CountedOnce
  <2>1. LocksKept(a) /\ TradesKept(a) /\ PositionsKept(a)
    BY DEF IPositions, IBook, BookInv
  <2>2. book[a].locks[r] <= 1
    BY <2>1 DEF LocksKept
  <2> QED
    BY <2>1, <2>2 DEF TradesKept, PositionsKept
<1> QED
  BY <1>1, <1>2, NextPositions, PTL DEF Spec

-----------------------------------------------------------------------------
(* Nothing is missing: what an answer has given so far is in the book, as  *)
(* long as the chain waits for it.                                         *)

TradesIn(a) ==
  /\ unit[a].bTodayPosInitialized => \A r \in Rows : book[a].today[r] > 0
  /\ \A k \in DOMAIN asked[a] :
       /\ asked[a][k].kind = "trades" /\ asked[a][k].rid = unit[a].setTodayPos_rid
       /\ ~unit[a].bTodayPosInitialized
       => \A r \in Rows \ asked[a][k].rows : book[a].today[r] > 0

PositionsIn(a) ==
  /\ unit[a].bYesterdayPosInitialized => \A r \in Rows : book[a].yesterday[r] > 0
  /\ \A k \in DOMAIN asked[a] :
       asked[a][k].kind = "positions" /\ ~unit[a].bYesterdayPosInitialized
       => \A r \in Rows \ asked[a][k].rows : book[a].yesterday[r] > 0

(* A step that adds nothing and resets nothing; what it asks for is whole. *)
LEMMA StillIn ==
  ASSUME NEW a, TradesIn(a), PositionsIn(a), book'[a] = book[a],
         unit'[a].bTodayPosInitialized = unit[a].bTodayPosInitialized,
         unit'[a].bYesterdayPosInitialized = unit[a].bYesterdayPosInitialized,
         unit'[a].setTodayPos_rid = unit[a].setTodayPos_rid,
         \A k \in DOMAIN asked'[a] : \/ asked'[a][k].rows = Rows
                                     \/ \E j \in DOMAIN asked[a] : asked'[a][k] = asked[a][j]
  PROVE  TradesIn(a)' /\ PositionsIn(a)'
BY DEF TradesIn, PositionsIn

(* The queries that wait after a callback: the others, the one that is     *)
(* being answered without this record, and one more of the whole account.  *)
LEMMA AnswerAt ==
  ASSUME TypeOK, NEW a \in Accounts, asked[a] # << >>, NEW r,
         \/ asked' = [asked EXCEPT ![a] = Answered(a, r)]
         \/ \E kind \in {"trades", "positions"} : Ask(a, kind, Answered(a, r))
  PROVE  /\ \A b \in Accounts \ {a} : asked'[b] = asked[b]
         /\ \A k \in DOMAIN asked'[a] :
              \/ asked'[a][k].rows = Rows
              \/ \E j \in DOMAIN asked[a] \ {1} : asked'[a][k] = asked[a][j]
              \/ /\ ~bIsLast(a, r) /\ asked'[a][k].kind = asked[a][1].kind
                 /\ asked'[a][k].rid = asked[a][1].rid /\ asked'[a][k].rows = asked[a][1].rows \ {r}
<1> DEFINE rest == Answered(a, r)
<1>1. rest \in Seq(QueryType) /\ \A j \in Nat \ {0} : j + 1 # 1
  BY AnsweredAt
<1>2. \A k \in DOMAIN rest :
        \/ \E j \in DOMAIN asked[a] \ {1} : rest[k] = asked[a][j]
        \/ /\ ~bIsLast(a, r) /\ rest[k].kind = asked[a][1].kind
           /\ rest[k].rid = asked[a][1].rid /\ rest[k].rows = asked[a][1].rows \ {r}
  BY <1>1, AnsweredAt
<1> HIDE DEF rest
<1>3. CASE asked' = [asked EXCEPT ![a] = rest]
  BY <1>2, <1>3 DEF TypeOK
<1>4. ASSUME NEW kind \in {"trades", "positions"}, Ask(a, kind, rest)
      PROVE  /\ \A b \in Accounts \ {a} : asked'[b] = asked[b]
             /\ \A k \in DOMAIN asked'[a] :
                  asked'[a][k].rows = Rows \/ (k \in DOMAIN rest /\ asked'[a][k] = rest[k])
  <2>1. kind \in Queries
    BY DEF Queries
  <2>2. \A b \in Accounts \ {a} : asked'[b] = asked[b]
    BY <1>1, <1>4, <2>1, AskType
  <2>3. \A k \in DOMAIN asked'[a] :
          \/ k \in DOMAIN rest /\ asked'[a][k] = rest[k]
          \/ /\ k = Len(rest) + 1 /\ k \notin DOMAIN rest
             /\ asked'[a][k].kind = kind /\ asked'[a][k].rows = Rows
    BY <1>1, <1>4, <2>1, AskAt
  <2> QED
    BY <2>2, <2>3
<1>5. asked' = [asked EXCEPT ![a] = rest] \/ \E kind \in {"trades", "positions"} : Ask(a, kind, rest)
  BY DEF rest
<1> QED
  BY <1>2, <1>3, <1>4, <1>5

IWhole == IBook /\ \A a \in Accounts : TradesIn(a) /\ PositionsIn(a)

LEMMA QryOrderIn ==
  ASSUME IWhole, NEW a \in Accounts, NEW r \in Rows \cup {Null}, OnRspQryOrder(a, r)
  PROVE  \A b \in Accounts : TradesIn(b)' /\ PositionsIn(b)'
<1>1. /\ TypeOK /\ unit \in [Accounts -> UnitType] /\ BookInv(a)
      /\ \A b \in Accounts : TradesIn(b) /\ PositionsIn(b)
      /\ asked[a] # << >> /\ Head(asked[a]).kind = "orders"
  BY DEF IWhole, IBook, IInv, TypeOK, OnRspQryOrder, OrderRow, Answering
<1>2. /\ asked[a][1].kind = "orders" /\ \A k \in DOMAIN asked[a] : asked[a][k].kind # "trades"
  BY <1>1, AnsweredAt DEF BookInv, ChainInOrder
<1>3. book' \in {book, Added(a, "locks", r)}
  BY DEF OnRspQryOrder, OrderRow
<1>4. \A b \in Accounts : book'[b].today = book[b].today /\ book'[b].yesterday = book[b].yesterday
  <2>1. CASE r = Null
    BY <1>3, <2>1 DEF Added
  <2>2. CASE r # Null
    BY <1>1, <1>3, <2>2, AddedAt
  <2> QED
    BY <2>1, <2>2
<1>5. \/ unit' = unit
      \/ unit' = [unit EXCEPT ![a].bOrderInitialized = TRUE, ![a].setTodayPos_rid = request_id]
  BY DEF OnRspQryOrder, OrderRow
<1>6. /\ unit'[a].bTodayPosInitialized = unit[a].bTodayPosInitialized
      /\ unit'[a].bYesterdayPosInitialized = unit[a].bYesterdayPosInitialized
      /\ \A b \in Accounts \ {a} : unit'[b] = unit[b]
  BY <1>1, <1>5 DEF UnitType
<1>7. \/ asked' = [asked EXCEPT ![a] = Answered(a, r)]
      \/ \E kind \in {"trades", "positions"} : Ask(a, kind, Answered(a, r))
  BY DEF OnRspQryOrder, OrderRow, Consume
<1>8. \A k \in DOMAIN asked'[a] :
        \/ asked'[a][k].rows = Rows
        \/ \E j \in DOMAIN asked[a] \ {1} : asked'[a][k] = asked[a][j]
        \/ asked'[a][k].kind = "orders"
  BY <1>1, <1>2, <1>7, AnswerAt
<1>9. TradesIn(a)'
  BY <1>1, <1>2, <1>4, <1>6, <1>8 DEF TradesIn
<1>10. PositionsIn(a)'
  BY <1>1, <1>4, <1>6, <1>8 DEF PositionsIn
<1>11. \A b \in Accounts \ {a} : asked'[b] = asked[b]
  BY <1>1, <1>7, AnswerAt
<1>12. \A b \in Accounts \ {a} : TradesIn(b)' /\ PositionsIn(b)'
  BY <1>1, <1>4, <1>6, <1>11 DEF TradesIn, PositionsIn
<1> QED
  BY <1>9, <1>10, <1>12

LEMMA QryTradeIn ==
  ASSUME IWhole, NEW a \in Accounts, NEW r \in Rows \cup {Null}, OnRspQryTrade(a, r)
  PROVE  \A b \in Accounts : TradesIn(b)' /\ PositionsIn(b)'
<1> DEFINE mine == ~unit[a].bTodayPosInitialized /\ unit[a].setTodayPos_rid = asked[a][1].rid
<1>1. /\ TypeOK /\ unit \in [Accounts -> UnitType] /\ BookInv(a)
      /\ \A b \in Accounts : TradesIn(b) /\ PositionsIn(b)
      /\ asked[a] # << >> /\ Head(asked[a]).kind = "trades"
  BY DEF IWhole, IBook, IInv, TypeOK, OnRspQryTrade, TradeRow, Answering
<1>2. /\ Head(asked[a]) = asked[a][1] /\ 1 \in DOMAIN asked[a] /\ asked[a][1].kind = "trades"
      /\ \A k \in DOMAIN asked[a] \ {1} : asked[a][k].kind # "trades"
  BY <1>1, AnsweredAt DEF BookInv, ChainInOrder
<1>3. /\ book' = (IF mine THEN Added(a, "today", r) ELSE book)
      /\ unit' = (IF mine /\ bIsLast(a, r) THEN [unit EXCEPT ![a].bTodayPosInitialized = TRUE] ELSE unit)
  BY <1>2 DEF OnRspQryTrade, TradeRow
<1>4. \A b \in Accounts, s \in Rows :
        /\ book'[b].yesterday = book[b].yesterday
        /\ book'[b].today[s] = IF mine /\ b = a /\ s = r THEN book[b].today[s] + 1 ELSE book[b].today[s]
  BY <1>1, <1>3, AddedAt
<1>5. /\ unit'[a].bTodayPosInitialized <=> (unit[a].bTodayPosInitialized \/ (mine /\ bIsLast(a, r)))
      /\ unit'[a].bYesterdayPosInitialized = unit[a].bYesterdayPosInitialized
      /\ unit'[a].setTodayPos_rid = unit[a].setTodayPos_rid
      /\ \A b \in Accounts \ {a} : unit'[b] = unit[b]
  BY <1>1, <1>3 DEF UnitType
<1>6. \/ asked' = [asked EXCEPT ![a] = Answered(a, r)]
      \/ \E kind \in {"trades", "positions"} : Ask(a, kind, Answered(a, r))
  BY DEF OnRspQryTrade, TradeRow, Consume
<1>7. /\ \A b \in Accounts \ {a} : asked'[b] = asked[b]
      /\ \A k \in DOMAIN asked'[a] :
           \/ asked'[a][k].rows = Rows
           \/ \E j \in DOMAIN asked[a] \ {1} : asked'[a][k] = asked[a][j]
           \/ /\ asked'[a][k].kind = "trades" /\ asked'[a][k].rid = asked[a][1].rid
              /\ asked'[a][k].rows = asked[a][1].rows \ {r}
  BY <1>1, <1>2, <1>6, AnswerAt
<1>8. \A s \in Rows : book[a].today[s] \in Nat
  BY <1>1 DEF TypeOK, BookType
<1>9. ASSUME mine, NEW s \in Rows, s \notin asked[a][1].rows \/ s = r PROVE book'[a].today[s] > 0
  <2>1. s # r => book[a].today[s] > 0
    BY <1>1, <1>2, <1>9 DEF TradesIn
  <2> QED
    BY <1>4, <1>8, <1>9, <2>1
<1>10. mine /\ bIsLast(a, r) => \A s \in Rows : s \notin asked[a][1].rows \/ s = r
  BY <1>2 DEF bIsLast
<1>11. \A s \in Rows : book[a].today[s] > 0 => book'[a].today[s] > 0
  BY <1>4, <1>8
<1>12. TradesIn(a)'
  <2>1. unit'[a].bTodayPosInitialized => \A s \in Rows : book'[a].today[s] > 0
    BY <1>1, <1>5, <1>9, <1>10, <1>11 DEF TradesIn
  <2>2. ASSUME NEW k \in DOMAIN asked'[a], asked'[a][k].kind = "trades",
               asked'[a][k].rid = unit'[a].setTodayPos_rid, ~unit'[a].bTodayPosInitialized,
               NEW s \in Rows \ asked'[a][k].rows
        PROVE  book'[a].today[s] > 0
    <3>1. asked'[a][k].rid = asked[a][1].rid /\ asked'[a][k].rows = asked[a][1].rows \ {r}
      BY <1>2, <1>7, <2>2
    <3>2. mine
      BY <1>5, <2>2, <3>1
    <3> QED
      BY <1>9, <2>2, <3>1, <3>2
  <2> QED
    BY <2>1, <2>2 DEF TradesIn
<1>13. PositionsIn(a)'
  BY <1>1, <1>4, <1>5, <1>7 DEF PositionsIn
<1>14. \A b \in Accounts \ {a} : TradesIn(b)' /\ PositionsIn(b)'
  BY <1>1, <1>4, <1>5, <1>7 DEF TradesIn, PositionsIn
<1> QED
  BY <1>12, <1>13, <1>14

LEMMA QryPositionIn ==
  ASSUME IWhole, NEW a \in Accounts, NEW r \in Rows \cup {Null}, OnRspQryInvestorPosition(a, r)
  PROVE  \A b \in Accounts : TradesIn(b)' /\ PositionsIn(b)'
<1> DEFINE mine == ~unit[a].bYesterdayPosInitialized
<1>1. /\ TypeOK /\ unit \in [Accounts -> UnitType]
      /\ \A b \in Accounts : TradesIn(b) /\ PositionsIn(b)
      /\ asked[a] # << >> /\ Head(asked[a]).kind = "positions"
  BY DEF IWhole, IBook, IInv, TypeOK, OnRspQryInvestorPosition, PositionRow, Answering
<1>2. Head(asked[a]) = asked[a][1] /\ 1 \in DOMAIN asked[a] /\ asked[a][1].kind = "positions"
  BY <1>1, AnsweredAt
<1>3. /\ book' = (IF mine THEN Added(a, "yesterday", r) ELSE book)
      /\ unit' = (IF mine /\ bIsLast(a, r) THEN [unit EXCEPT ![a].bYesterdayPosInitialized = TRUE] ELSE unit)
      /\ asked' = [asked EXCEPT ![a] = Answered(a, r)]
  BY DEF OnRspQryInvestorPosition, PositionRow, Consume
<1>4. \A b \in Accounts, s \in Rows :
        /\ book'[b].today = book[b].today
        /\ book'[b].yesterday[s] = IF mine /\ b = a /\ s = r THEN book[b].yesterday[s] + 1
                                                             ELSE book[b].yesterday[s]
  BY <1>1, <1>3, AddedAt
<1>5. /\ unit'[a].bYesterdayPosInitialized <=> (unit[a].bYesterdayPosInitialized \/ bIsLast(a, r))
      /\ unit'[a].bTodayPosInitialized = unit[a].bTodayPosInitialized
      /\ unit'[a].setTodayPos_rid = unit[a].setTodayPos_rid
      /\ \A b \in Accounts \ {a} : unit'[b] = unit[b]
  BY <1>1, <1>3 DEF UnitType
<1>7. /\ \A b \in Accounts \ {a} : asked'[b] = asked[b]
      /\ \A k \in DOMAIN asked'[a] :
           \/ asked'[a][k].rows = Rows
           \/ \E j \in DOMAIN asked[a] \ {1} : asked'[a][k] = asked[a][j]
           \/ /\ asked'[a][k].kind = "positions" /\ asked'[a][k].rows = asked[a][1].rows \ {r}
  <2>1. asked' = [asked EXCEPT ![a] = Answered(a, r)] /\ asked[a] # << >>
    BY <1>1, <1>3
  <2>2. \A b \in Accounts \ {a} : asked'[b] = asked[b]
    BY <1>1, <2>1, AnswerAt
  <2>3. \A k \in DOMAIN asked'[a] :
           \/ asked'[a][k].rows = Rows
           \/ \E j \in DOMAIN asked[a] \ {1} : asked'[a][k] = asked[a][j]
           \/ /\ ~bIsLast(a, r) /\ asked'[a][k].kind = asked[a][1].kind
              /\ asked'[a][k].rid = asked[a][1].rid /\ asked'[a][k].rows = asked[a][1].rows \ {r}
    BY <1>1, <2>1, AnswerAt
  <2> QED
    BY <1>2, <2>2, <2>3
<1>8. \A s \in Rows : book[a].yesterday[s] \in Nat
  BY <1>1 DEF TypeOK, BookType
<1>9. ASSUME mine, NEW s \in Rows, s \notin asked[a][1].rows \/ s = r PROVE book'[a].yesterday[s] > 0
  <2>1. s # r => book[a].yesterday[s] > 0
    BY <1>1, <1>2, <1>9 DEF PositionsIn
  <2> QED
    BY <1>4, <1>8, <1>9, <2>1
<1>10. bIsLast(a, r) => \A s \in Rows : s \notin asked[a][1].rows \/ s = r
  BY <1>2 DEF bIsLast
<1>11. \A s \in Rows : book[a].yesterday[s] > 0 => book'[a].yesterday[s] > 0
  BY <1>4, <1>8
<1>12. PositionsIn(a)'
  <2>1. unit'[a].bYesterdayPosInitialized => \A s \in Rows : book'[a].yesterday[s] > 0
    BY <1>1, <1>5, <1>9, <1>10, <1>11 DEF PositionsIn
  <2>2. ASSUME NEW k \in DOMAIN asked'[a], asked'[a][k].kind = "positions",
               ~unit'[a].bYesterdayPosInitialized, NEW s \in Rows \ asked'[a][k].rows
        PROVE  book'[a].yesterday[s] > 0
    <3>1. mine
      BY <1>5, <2>2
    <3>2. CASE asked'[a][k].rows = asked[a][1].rows \ {r}
      BY <1>9, <2>2, <3>1, <3>2
    <3>3. CASE \E j \in DOMAIN asked[a] : asked'[a][k] = asked[a][j]
      BY <1>1, <1>11, <2>2, <3>1, <3>3 DEF PositionsIn
    <3> QED
      BY <1>7, <2>2, <3>2, <3>3
  <2> QED
    BY <2>1, <2>2 DEF PositionsIn
<1>13. TradesIn(a)'
  BY <1>1, <1>4, <1>5, <1>7 DEF TradesIn
<1>14. \A b \in Accounts \ {a} : TradesIn(b)' /\ PositionsIn(b)'
  BY <1>1, <1>4, <1>5, <1>7 DEF TradesIn, PositionsIn
<1> QED
  BY <1>12, <1>13, <1>14

LEMMA SettlementIn ==
  ASSUME IWhole, NEW a \in Accounts, OnRspSettlementInfoConfirm(a)
  PROVE  \A b \in Accounts : TradesIn(b)' /\ PositionsIn(b)'
<1>1. /\ TypeOK /\ unit \in [Accounts -> UnitType] /\ asked[a] \in Seq(QueryType) /\ UNCHANGED book
      /\ \A b \in Accounts : TradesIn(b) /\ PositionsIn(b)
  BY DEF IWhole, IBook, IInv, TypeOK, OnRspSettlementInfoConfirm
<1>2. \/ unit' = [unit EXCEPT ![a].settle_confirmed = TRUE]
      \/ unit' = [unit EXCEPT ![a].settle_confirmed = TRUE, ![a].setOrder_rid = request_id]
  BY DEF OnRspSettlementInfoConfirm
<1>3. \A b \in Accounts : /\ unit'[b].bTodayPosInitialized = unit[b].bTodayPosInitialized
                          /\ unit'[b].bYesterdayPosInitialized = unit[b].bYesterdayPosInitialized
                          /\ unit'[b].setTodayPos_rid = unit[b].setTodayPos_rid
  <2>1. CASE unit' = [unit EXCEPT ![a].settle_confirmed = TRUE]
    BY <1>1, <2>1 DEF UnitType
  <2>2. CASE unit' = [unit EXCEPT ![a].settle_confirmed = TRUE, ![a].setOrder_rid = request_id]
    BY <1>1, <2>2 DEF UnitType
  <2> QED
    BY <1>2, <2>1, <2>2
<1>4. UNCHANGED asked \/ Ask(a, "orders", asked[a])
  BY DEF OnRspSettlementInfoConfirm
<1>5. \A b \in Accounts : \A k \in DOMAIN asked'[b] :
        \/ asked'[b][k].rows = Rows
        \/ \E j \in DOMAIN asked[b] : asked'[b][k] = asked[b][j]
  <2>1. CASE UNCHANGED asked
    BY <2>1
  <2>2. CASE Ask(a, "orders", asked[a])
    <3>1. "orders" \in Queries
      BY DEF Queries
    <3>2. \A b \in Accounts \ {a} : asked'[b] = asked[b]
      BY <1>1, <2>2, <3>1, AskType
    <3>3. \A k \in DOMAIN asked'[a] :
            \/ k \in DOMAIN asked[a] /\ asked'[a][k] = asked[a][k]
            \/ asked'[a][k].rows = Rows
      BY <1>1, <2>2, <3>1, AskAt
    <3> QED
      BY <3>2, <3>3
  <2> QED
    BY <1>4, <2>1, <2>2
<1> QED
  BY <1>1, <1>3, <1>5, StillIn

LEMMA NextWhole ==
  ASSUME Failing \cap Queries = {}, AskedRows \subseteq {Rows}
  PROVE  IWhole /\ [Next]_vars => IWhole'
<1> SUFFICES ASSUME IWhole, [Next]_vars PROVE IWhole'
  OBVIOUS
<1>1. IBook' /\ IBook /\ IInv /\ TypeOK /\ \A b \in Accounts : TradesIn(b) /\ PositionsIn(b)
  BY NextBook DEF IWhole, IBook, IInv
<1>6. ASSUME Closes PROVE \A b \in Accounts : TradesIn(b)' /\ PositionsIn(b)'
  <2>1. /\ UNCHANGED book
        /\ \A b \in Accounts :
             /\ \A k \in DOMAIN asked'[b] : \E j \in DOMAIN asked[b] : asked'[b][k] = asked[b][j]
             /\ unit'[b].setTodayPos_rid = unit[b].setTodayPos_rid
             /\ unit'[b].bTodayPosInitialized = unit[b].bTodayPosInitialized
             /\ unit'[b].bYesterdayPosInitialized = unit[b].bYesterdayPosInitialized
    BY <1>1, <1>6, CloseAt
  <2> QED
    BY <1>1, <2>1, StillIn
<1>2. ASSUME NEW a \in Accounts, Callback(a) \/ OnErrorAnswer(a)
      PROVE  \A b \in Accounts : TradesIn(b)' /\ PositionsIn(b)'
  <2>1. CASE OnFrontConnected(a) \/ OnRspAuthenticate(a) \/ OnRspUserLogin(a) \/ OnErrorAnswer(a)
    BY <1>1, <2>1, DialogAt, StillIn
  <2>2. CASE OnRspUserLogout(a)
    BY <1>6, <2>2 DEF Closes
  <2> QED
    BY <1>2, <2>1, <2>2, SettlementIn, QryOrderIn, QryTradeIn, QryPositionIn DEF Callback
<1>3. ASSUME NEW a \in Accounts, AnswerFails(a) PROVE FALSE
  <2>1. Head(asked[a]) \in QueryType
    BY <1>1, <1>3, AnsweredAt DEF AnswerFails
  <2> QED
    BY <1>3, <2>1 DEF AnswerFails, QueryType
<1>4. ASSUME NEW a \in Accounts, OnFrontDisconnected(a)
      PROVE  \A b \in Accounts : TradesIn(b)' /\ PositionsIn(b)'
  <2>1. TradesIn(a)' /\ PositionsIn(a)'
    BY <1>1, <1>4, DisconnectedBook DEF TradesIn, PositionsIn
  <2>2. \A b \in Accounts \ {a} : Same(b)
    BY <1>1, <1>4, DisconnectedBook
  <2> QED
    BY <1>1, <2>1, <2>2, StillIn DEF Same
<1>5. ASSUME NEW a \in Accounts, NEW rows \in AskedRows, QueryOfStrategy(a, rows)
      PROVE  \A b \in Accounts : TradesIn(b)' /\ PositionsIn(b)'
  <2>1. UNCHANGED <<unit, book>>
    BY <1>5 DEF QueryOfStrategy
  <2>2. \A b \in Accounts : \A k \in DOMAIN asked'[b] :
          asked'[b][k].rows = Rows \/ \E j \in DOMAIN asked[b] : asked'[b][k] = asked[b][j]
    BY <1>1, <1>5, StrategyQueryAt
  <2> QED
    BY <1>1, <2>1, <2>2, StillIn
<1>7. ASSUME on_engine_open PROVE \A b \in Accounts : TradesIn(b)' /\ PositionsIn(b)'
  BY <1>1, <1>7, OpenAt, StillIn
<1>8. ASSUME StartListening \/ UNCHANGED vars PROVE \A b \in Accounts : TradesIn(b)' /\ PositionsIn(b)'
  <2>1. UNCHANGED <<unit, asked, book>>
    BY <1>8 DEF vars, StartListening
  <2> QED
    BY <1>1, <2>1, StillIn
<1> QED
  BY <1>1, <1>2, <1>3, <1>4, <1>5, <1>6, <1>7, <1>8 DEF Next, Listener, Closes, IWhole

(* An account whose three queries count as answered has every order, trade *)
(* and position in its book, once (the comment "all Done" of               *)
(* OnRspQryInvestorPosition): an answer that came under another id, to an  *)
(* earlier connection, or to a strategy does not make it look done.  The   *)
(* exchange answers queries without an error, strategies ask for the whole *)
(* account, and ask nothing of an engine that was closed in between.       *)
THEOREM AllDoneCountsAll ==
  ASSUME MaxCloses = 0 \/ MaxQueries = 0, Failing \cap Queries = {}, AskedRows \subseteq {Rows}
  PROVE  Spec => []AllDoneIsAllCounted
<1>1. "orders" \notin Failing
  BY DEF Queries
<1>2. Init => IWhole /\ ILocks /\ IPositions
  BY InitBook, InitPositions DEF IWhole, TradesIn, PositionsIn, ILocks, OrdersLocked, Init, NewUnit
<1>3. IWhole /\ ILocks /\ IPositions => AllDoneIsAllCounted
  <2> SUFFICES ASSUME IWhole, ILocks, IPositions, NEW a \in Accounts, AllDone(a), NEW r \in Rows
               PROVE  book[a].locks[r] = 1 /\ book[a].today[r] = 1 /\ book[a].yesterday[r] = 1
    BY DEF AllDoneIsAllCounted
  <2>1. book[a].today[r] \in Nat /\ book[a].yesterday[r] \in Nat
    BY DEF IWhole, IBook, IInv, TypeOK, BookType
  <2>2. book[a].locks[r] = 1
    BY DEF AllDone, ILocks, OrdersLocked, IBook, BookInv, LocksKept
  <2>3. book[a].today[r] > 0 /\ book[a].yesterday[r] > 0
    BY DEF AllDone, IWhole, TradesIn, PositionsIn
  <2>4. book[a].today[r] <= 1 /\ book[a].yesterday[r] <= 1
    BY DEF IPositions, IBook, BookInv, TradesKept, PositionsKept
  <2> QED
    BY <2>1, <2>2, <2>3, <2>4
<1>4. IWhole /\ ILocks /\ IPositions /\ [Next]_vars => IWhole' /\ ILocks' /\ IPositions'
  BY <1>1, NextWhole, NextLocks, NextPositions
<1> QED
  BY <1>2, <1>3, <1>4, PTL DEF Spec

-----------------------------------------------------------------------------
(* The order table: the inductive invariant.                               *)
(*                                                                         *)
(* An order is needed while the exchange may still report it to a          *)
(* strategy.  The invariant follows its record (Kept, RidsOK), the record  *)
(* its trades are found by (SysOK, SysKnown), the slots the two threads    *)
(* have written by half (HalfWritten, TradeNotRecorded, TradeRecorded) and *)
(* what records and reports under way can say of the order they name       *)
(* (RecordsOK, ReportsOK), so that a slot taken over is one whose order    *)
(* has ended with nothing left to report, or becomes a stray.              *)

AtExchange == {"live"} \cup EndedStatus
Has(o, kind) == [order |-> o, kind |-> kind] \in reports

(* Reports of an order that are told to strategies are under way. *)
News(o) == (\E kind \in Kinds \ {"query"} : Has(o, kind)) \/ (cb.order = o /\ cb.kind # "query")
Busy(o) == (\E kind \in Kinds : Has(o, kind)) \/ cb.order = o

(* The table still has to know an order. *)
Needed(o) ==
  /\ o \notin strays
  /\ sent[o].state = "live" \/ (job.order = o /\ job.stage = "send") \/ News(o)

(* Trades of the order can still come. *)
TradeDue(o) ==
  /\ o \notin strays
  /\ sent[o].state = "live" \/ Has(o, "trade") \/ (cb.order = o /\ cb.kind = "trade")

(* The listening thread and the callback at work, and what they hold *)
JobInPlace ==
  job # NoJob => /\ job.order \in Own /\ job.stage # "idle" /\ sent[job.order].state = "none"
                 /\ sent[job.order].session >= 1
                 /\ job.stage \in {"rid", "key"} => job.slot \in Slots

CallInPlace ==
  cb # NoCall =>
    /\ cb.order \in Orders /\ cb.stage # "idle" /\ sent[cb.order].state \in AtExchange
    /\ cb.key = IF cb.kind = "trade" THEN [order |-> cb.order, session |-> session, whole |-> TRUE] ELSE Key(cb.order)
    /\ cb.stage \in {"rid", "key"} => cb.slot \in Slots
    /\ cb.kind = "query" => ~Has(cb.order, "live") /\ cb.stage # "deliver"
    /\ cb.kind = "trade" \/ cb.kind \in EndedStatus => sent[cb.order].state \in EndedStatus

(* What is never under way while the engine is down or reads back *)
Phases ==
  /\ ~up => reports = {} /\ toRestore = {} /\ job = NoJob /\ \A s \in Slots : slots[s] = Free
  /\ ~up \/ toRestore # {} => cb = NoCall
  /\ session >= 1
  /\ \A o \in Orders : sent[o].session <= session
  /\ \A o \in Own : sent[o].state # "none" => sent[o].session >= 1

(* What is reported has happened. *)
ReportsOK ==
  \A o \in Orders :
    /\ \A kind \in Kinds : Has(o, kind) => /\ sent[o].state \in AtExchange
                                           /\ kind \in EndedStatus => sent[o].state = kind
                                           /\ kind = "trade" => sent[o].state \in EndedStatus
    /\ Has(o, "query") => ~Has(o, "live")

(* What the records say of an order has happened. *)
Known(o) == sent[o].state # "none" \/ (job.order = o /\ job.stage = "send")
EndKnown(o, status) ==
  status \in EndedStatus =>
    /\ sent[o].state \in EndedStatus /\ ~Has(o, "live")
    /\ toRestore # {} => \A kind \in Kinds \ {"query"} : ~Has(o, kind)

RecordsOK ==
  /\ \A s \in Slots :
       /\ slots[s].key = None <=> slots[s].status = "raw"
       /\ slots[s].key # None => slots[s].rid # None
       /\ slots[s].key # None => Known(slots[s].key.order) /\ EndKnown(slots[s].key.order, slots[s].status)
       /\ slots[s].sys # None => slots[s].key # None /\ sent[slots[s].sys].state \in AtExchange
  /\ \A k \in DOMAIN saved : Known(k.order) /\ k.whole /\ EndKnown(k.order, saved[k].status)

(* The slots the two threads write: taken from locate_writable, with half *)
(* a record in it that the other thread leaves alone                       *)
Spare(s) == Writable(s) \/ slots[s].key.order \in strays
HalfWritten ==
  /\ job.stage \in {"rid", "key"} => Spare(job.slot)
  /\ cb.stage \in {"rid", "key"} => Spare(cb.slot)
  /\ job.stage \in {"rid", "key"} /\ cb.stage \in {"rid", "key"} /\ job.slot = cb.slot => {job.order, cb.order} \subseteq strays
  /\ job.stage = "key" => slots[job.slot].rid # None
  /\ cb.stage = "key" => slots[cb.slot].rid # None
  /\ job.stage = "key" /\ job.order \notin strays => slots[job.slot].rid = job.order
  /\ cb.stage = "key" /\ cb.order \notin strays => slots[cb.slot].rid = direct
  /\ cb.stage \in {"rid", "key"} => WithKey(cb.key) = {}
  /\ cb.stage = "key" /\ slots[cb.slot].key # None =>
       LET q == slots[cb.slot].key.order IN q # cb.order /\ q \notin strays => ~Busy(q)

(* The slot of a key that is read back: taken like the others, and not *)
(* shared with the listening thread but by strays                      *)
RestoreInPlace ==
  restoring # NoRestore =>
    /\ restoring.key \in toRestore /\ restoring.slot \in Slots /\ Spare(restoring.slot)
    /\ job.stage \in {"rid", "key"} /\ job.slot = restoring.slot => {job.order, restoring.key.order} \subseteq strays

(* A trade that records its order has found no record of it, and no ended *)
(* record lies under the key the order really has.                        *)
TradeNotRecorded ==
  cb.stage \in {"rid", "key"} /\ cb.kind = "trade" =>
    /\ WithSys(cb.order) = {}
    /\ cb.order \notin strays => \A s \in WithKey(Key(cb.order)) : slots[s].status \notin EndedStatus

TradeRecorded ==
  cb.stage = "sys" /\ cb.kind = "trade" /\ cb.order \notin strays => \A s \in WithKey(cb.key) : slots[s].rid = direct

(* A needed order is found under its request, in the table and in Redis. *)
RidsOK ==
  \A o \in Orders : Needed(o) =>
    /\ \A s \in WithKey(Key(o)) : slots[s].rid = RidOf(o)
    /\ Key(o) \in DOMAIN saved => saved[Key(o)].rid = RidOf(o)

(* A needed order of the engine is in Redis, and in the table or about to be *)
(* read back.                                                                *)
Kept ==
  \A o \in Own : Needed(o) =>
    /\ Key(o) \in DOMAIN saved
    /\ WithKey(Key(o)) # {} \/ (o \in ShortKeys /\ (~up \/ Key(o) \in toRestore))

(* An exchange id finds its own order only. *)
SysOK ==
  \A o \in Orders : TradeDue(o) =>
    \A s \in WithSys(o) :
      /\ slots[s].key # None /\ slots[s].key.order = o
      /\ slots[s].key = Key(o) \/ (slots[s].rid = direct /\ (o \in Foreign \/ sent[o].session < session))

(* An order whose record says it has ended is found by its exchange id, for *)
(* the trade that comes after.                                               *)
SysKnown ==
  \A o \in Orders \ strays : Has(o, "trade") /\ (\E s \in WithKey(Key(o)) : slots[s].status \in EndedStatus) =>
    WithSys(o) # {} \/ (cb.order = o /\ cb.stage = "sys" /\ cb.key = Key(o))

(* A callback that has recorded its order still finds it when it tells. *)
CallKnown ==
  cb.order \notin strays /\ cb.kind # "trade" /\ cb.stage \in {"sys", "deliver"} => WithKey(cb.key) # {}

TableInv ==
  /\ TableTypeOK /\ JobInPlace /\ CallInPlace /\ Phases /\ ReportsOK /\ RecordsOK
  /\ HalfWritten /\ RestoreInPlace /\ TradeNotRecorded /\ TradeRecorded /\ RidsOK /\ Kept /\ SysOK /\ SysKnown /\ CallKnown

-----------------------------------------------------------------------------
(* The slot that find_if takes. *)

LEMMA LeastSlot ==
  ASSUME NEW T, T \subseteq Slots, T # {}
  PROVE  First(T) \in T
<1> DEFINE R == StrictSubsetOrdering(Nat)
           W == {0 .. x : x \in T}
<1>0. T \subseteq Nat
  BY SizesAssumption DEF Slots
<1>1. IsWellFoundedOn(R, FiniteSubsetsOf(Nat))
  BY FS_StrictSubsetOrderingWellFounded, Zenon
<1>2. W \subseteq FiniteSubsetsOf(Nat)
  <2> SUFFICES ASSUME NEW x \in T PROVE 0 .. x \in FiniteSubsetsOf(Nat)
    OBVIOUS
  <2>1. IsFiniteSet(0 .. x)
    BY <1>0, FS_Interval
  <2>2. 0 .. x \subseteq Nat
    OBVIOUS
  <2> QED
    BY <2>1, <2>2 DEF FiniteSubsetsOf
<1>3. W # {}
  OBVIOUS
<1>4. PICK w \in W : \A v \in W : ~(<<v, w>> \in R)
  <2> HIDE DEF R, W
  <2> QED
    BY <1>1, <1>2, <1>3, WFMin, Zenon
<1>5. PICK x \in T : w = 0 .. x
  OBVIOUS
<1>6. ASSUME NEW y \in T PROVE x <= y
  <2> SUFFICES ASSUME y < x PROVE FALSE
    BY <1>0
  <2>1. 0 .. y \in W /\ x \in Nat /\ y \in Nat
    BY <1>0
  <2>2. 0 .. y \subseteq 0 .. x /\ 0 .. y # 0 .. x
    BY <2>1
  <2>3. <<0 .. y, w>> \in R
    BY <1>5, <2>1, <2>2 DEF StrictSubsetOrdering
  <2> QED
    BY <1>4, <2>1, <2>3
<1> QED
  BY <1>6 DEF First

-----------------------------------------------------------------------------
(* Types *)
LEMMA Consts ==
  /\ None \notin Orders /\ None # direct /\ None \notin Keys /\ direct \notin Orders
  /\ Own \subseteq Orders /\ Foreign \subseteq Orders
  /\ \A o \in Orders : RidOf(o) \in Rids
  /\ \A t \in SUBSET Slots : t # {} => First(t) \in t
BY NamesAssumption, OrdersAssumption, LeastSlot DEF Orders, RidOf, Rids

LEMMA KeyType ==
  ASSUME TableTypeOK, NEW o \in Orders
  PROVE  Key(o) \in Keys /\ Key(o) # None /\ Key(o).order = o /\ Key(o).whole /\ Key(o).session = sent[o].session
<1>1. Key(o) \in Keys
  BY DEF TableTypeOK, Key, Keys
<1> QED
  BY <1>1, Consts DEF Key

(* What a slot holds *)
SlotType == [rid: Rids \cup {None}, key: Keys \cup {None}, sys: Orders \cup {None},
            status: LiveStatus \cup EndedStatus \cup {"raw"}]

LEMMA SlotChanges ==
  ASSUME TableTypeOK, NEW s \in Slots, NEW r \in SlotType, slots' = [slots EXCEPT ![s] = r]
  PROVE  /\ slots' \in [Slots -> SlotType] /\ slots'[s] = r
         /\ \A t \in Slots : t # s => slots'[t] = slots[t]
BY DEF TableTypeOK, SlotType

LEMMA SavedChanges ==
  ASSUME TableTypeOK, NEW r \in SlotType, r.key # None, r.rid # None, r.status # "raw", Save(r)
  PROVE  /\ DOMAIN saved' = DOMAIN saved \cup {r.key} /\ DOMAIN saved' \subseteq Keys
         /\ saved'[r.key].rid = r.rid /\ saved'[r.key].status = r.status
         /\ \A k \in DOMAIN saved : k # r.key => saved'[k] = saved[k]
         /\ \A k \in DOMAIN saved' : saved'[k].rid \in Rids /\ saved'[k].status \in LiveStatus \cup EndedStatus
<1>1. saved' = [k \in DOMAIN saved \cup {r.key} |->
                  IF k = r.key THEN [rid |-> r.rid, status |-> r.status] ELSE saved[k]]
  BY DEF Save
<1>2. r.key \in Keys /\ r.rid \in Rids /\ r.status \in LiveStatus \cup EndedStatus
  BY DEF SlotType
<1>3. DOMAIN saved' = DOMAIN saved \cup {r.key} /\ DOMAIN saved \subseteq Keys
  BY <1>1 DEF TableTypeOK
<1>4. saved'[r.key].rid = r.rid /\ saved'[r.key].status = r.status
  BY <1>1
<1>5. ASSUME NEW k \in DOMAIN saved, k # r.key PROVE saved'[k] = saved[k]
  BY <1>1, <1>5
<1>6. \A k \in DOMAIN saved : saved[k].rid \in Rids /\ saved[k].status \in LiveStatus \cup EndedStatus
  BY DEF TableTypeOK
<1> QED
  BY <1>2, <1>3, <1>4, <1>5, <1>6

-----------------------------------------------------------------------------
(* What the steps change, one lemma for each, and that types are kept *)

LEMMA TypesInit == TableInit => TableTypeOK
<1> SUFFICES ASSUME TableInit PROVE TableTypeOK
  OBVIOUS
<1>1. slots \in [Slots -> SlotType] /\ toRestore \subseteq DOMAIN saved /\ DOMAIN saved = {}
  BY DEF TableInit, Free, SlotType, EndedStatus, LiveStatus
<1>2. session \in Sessions /\ up \in BOOLEAN
  BY SizesAssumption DEF TableInit, Sessions
<1>3. /\ job \in [order: Own \cup {None}, stage: {"idle", "new", "rid", "key", "send"}, slot: 0 .. TableSize]
      /\ restoring \in [key: Keys \cup {None}, slot: 0 .. TableSize]
  BY SizesAssumption DEF TableInit, NoJob, NoRestore
<1>4. cb \in [order: Orders \cup {None}, kind: Kinds, key: Keys \cup {None},
              stage: {"idle", "rid", "key", "sys", "deliver"}, slot: 0 .. TableSize]
  BY SizesAssumption DEF TableInit, NoCall, Kinds
<1>5. sent \in [Orders -> [state: {"none", "live", "traded", "canceled", "rejected"}, session: Sessions]]
  BY SizesAssumption DEF TableInit, NotSent, Sessions
<1> QED
  BY <1>1, <1>2, <1>3, <1>4, <1>5 DEF TableTypeOK, TableInit, SlotType

RestoreType == [key: Keys \cup {None}, slot: 0 .. TableSize]
JobType == [order: Own \cup {None}, stage: {"idle", "new", "rid", "key", "send"}, slot: 0 .. TableSize]
CallType == [order: Orders \cup {None}, kind: Kinds, key: Keys \cup {None},
             stage: {"idle", "rid", "key", "sys", "deliver"}, slot: 0 .. TableSize]
SentType == [state: {"none", "live", "traded", "canceled", "rejected"}, session: Sessions]

LEMMA Typed ==
  ASSUME TableTypeOK
  PROVE  /\ slots \in [Slots -> SlotType] /\ job \in JobType /\ cb \in CallType /\ sent \in [Orders -> SentType]
         /\ session \in Sessions /\ strays \subseteq Orders /\ session \in Int
         /\ reports \subseteq [order: Orders, kind: Kinds] /\ restoring \in RestoreType
         /\ toRestore \subseteq DOMAIN saved /\ DOMAIN saved \subseteq Keys
BY DEF TableTypeOK, SlotType, JobType, CallType, SentType, Sessions, RestoreType

LEMMA SlotKinds ==
  ASSUME TableInv
  PROVE  /\ job.stage \in {"rid", "key"} => job.slot \in Slots
         /\ cb.stage \in {"rid", "key"} => cb.slot \in Slots
         /\ job.stage # "idle" => job # NoJob /\ job.order \in Own /\ job.order # None
         /\ cb.stage # "idle" => cb # NoCall /\ cb.order \in Orders /\ cb.order # None
         /\ job = NoJob => job.order = None /\ job.stage = "idle"
         /\ cb = NoCall => cb.order = None /\ cb.stage = "idle" /\ cb.kind = "live"
<1>1. job = NoJob => job.order = None /\ job.stage = "idle"
  BY DEF NoJob
<1>2. cb = NoCall => cb.order = None /\ cb.stage = "idle" /\ cb.kind = "live"
  BY DEF NoCall
<1>3. job # NoJob => job.order \in Own /\ (job.stage \in {"rid", "key"} => job.slot \in Slots)
  BY DEF TableInv, JobInPlace
<1>4. cb # NoCall => cb.order \in Orders /\ (cb.stage \in {"rid", "key"} => cb.slot \in Slots)
  BY DEF TableInv, CallInPlace
<1> QED
  BY <1>1, <1>2, <1>3, <1>4, Consts

LEMMA InsertStep ==
  ASSUME TableInv, NEW o \in Own, InsertOrder(o)
  PROVE  /\ UNCHANGED <<slots, saved, up, session, toRestore, restoring, cb, reports, strays>>
         /\ up /\ job = NoJob /\ sent[o] = NotSent
         /\ job'.order = o /\ job'.stage = "new" /\ job' \in JobType
         /\ sent' \in [Orders -> SentType] /\ sent'[o].state = "none" /\ sent'[o].session = session
         /\ \A x \in Orders : x # o => sent'[x] = sent[x]
<1>1. /\ UNCHANGED <<slots, saved, up, session, toRestore, restoring, cb, reports, strays>>
      /\ up /\ job = NoJob /\ sent[o] = NotSent
      /\ job' = [order |-> o, stage |-> "new", slot |-> 0]
      /\ sent' = [sent EXCEPT ![o] = [state |-> "none", session |-> session]]
  BY DEF InsertOrder
<1>2. sent \in [Orders -> SentType] /\ session \in Sessions /\ o \in Orders
  BY Typed, Consts DEF TableInv
<1>3. /\ sent' \in [Orders -> SentType] /\ sent'[o].state = "none" /\ sent'[o].session = session
      /\ \A x \in Orders : x # o => sent'[x] = sent[x]
  BY <1>1, <1>2 DEF SentType
<1>4. job' \in JobType /\ job'.order = o /\ job'.stage = "new"
  BY <1>1, SizesAssumption DEF JobType
<1> QED
  BY <1>1, <1>3, <1>4

LEMMA LocateStep ==
  ASSUME TableInv, LocateSlot
  PROVE  /\ UNCHANGED <<slots, saved, up, session, toRestore, restoring, cb, sent, reports>>
         /\ job.stage = "new" /\ job # NoJob /\ job.order \in Own
         /\ job'.order = job.order /\ job'.stage \in {"rid", "send"} /\ job' \in JobType
         /\ job'.stage = "rid" =>
              /\ job'.slot \in Slots /\ Writable(job'.slot)
              /\ cb.stage \in {"rid", "key"} /\ cb.slot = job'.slot => {job.order, cb.order} \subseteq strays'
              /\ restoring # NoRestore /\ restoring.slot = job'.slot => {job.order, restoring.key.order} \subseteq strays'
         /\ job'.stage = "send" => job.order \in strays'
         /\ strays \subseteq strays' /\ strays' \subseteq Orders
<1>1. UNCHANGED <<slots, saved, up, session, toRestore, restoring, cb, sent, reports>> /\ job.stage = "new"
  BY DEF LocateSlot
<1>2. /\ job \in JobType /\ strays \subseteq Orders /\ job # NoJob /\ job.order \in Own /\ job.order \in Orders
      /\ sent[job.order].state = "none"
  BY <1>1, Typed, SlotKinds, Consts DEF TableInv, JobInPlace
<1>3. restoring # NoRestore => restoring.key \in toRestore /\ restoring.key.order \in Orders
                               /\ restoring.key.order # job.order
  <2>1. restoring # NoRestore => restoring.key \in toRestore /\ restoring.key \in DOMAIN saved
    BY Typed DEF TableInv, RestoreInPlace
  <2>2. \A k \in DOMAIN saved : k \in Keys /\ k.order \in Orders /\ Known(k.order)
    BY Typed DEF TableInv, RecordsOK, Keys
  <2>3. ~Known(job.order)
    BY <1>1, <1>2 DEF Known
  <2> QED
    BY <2>1, <2>2, <2>3
<1>4. CASE Writables = {}
  <2>1. job' = [job EXCEPT !.stage = "send"] /\ strays' = strays \cup {job.order}
    BY <1>4 DEF LocateSlot
  <2>2. job' \in JobType /\ job'.order = job.order /\ job'.stage = "send"
    BY <1>2, <2>1 DEF JobType
  <2> QED
    BY <1>1, <1>2, <2>1, <2>2
<1>5. CASE Writables # {}
  <2>1. PICK s : s = First(Writables)
    OBVIOUS
  <2>2. s \in Slots /\ Writable(s)
    BY <1>5, <2>1, LeastSlot DEF Writables
  <2>3. job' = [job EXCEPT !.stage = "rid", !.slot = s] /\ strays' = strays \cup Shared(s, job.order)
    BY <1>5, <2>1 DEF LocateSlot
  <2>4. job' \in JobType /\ job'.order = job.order /\ job'.stage = "rid" /\ job'.slot = s
    <3>1. PICK j : j = [job EXCEPT !.stage = "rid"]
      OBVIOUS
    <3>2. j \in JobType /\ j.order = job.order /\ j.stage = "rid"
      BY <1>2, <3>1 DEF JobType
    <3>3. job' = [j EXCEPT !.slot = s]
      BY <2>3, <3>1
    <3> QED
      BY <2>2, <3>2, <3>3, SizesAssumption DEF JobType, Slots
  <2>5. cb.stage \in {"rid", "key"} => cb.order \in Orders /\ cb.order # job.order
    <3>1. cb.stage \in {"rid", "key"} => cb.order \in Orders /\ sent[cb.order].state \in AtExchange
      BY SlotKinds DEF TableInv, CallInPlace
    <3> QED
      BY <1>2, <3>1 DEF AtExchange, EndedStatus
  <2>6. Shared(s, job.order) \subseteq Orders
    BY <1>1, <1>2, <1>3, <2>5 DEF Shared, Taken
  <2>7. cb.stage \in {"rid", "key"} /\ cb.slot = s => {job.order, cb.order} \subseteq Shared(s, job.order)
    BY <2>5 DEF Shared, Taken
  <2>8. restoring # NoRestore /\ restoring.slot = s => {job.order, restoring.key.order} \subseteq Shared(s, job.order)
    BY <1>3 DEF Shared, Taken
  <2> QED
    BY <1>1, <1>2, <2>2, <2>3, <2>4, <2>6, <2>7, <2>8
<1> QED
  BY <1>4, <1>5

-----------------------------------------------------------------------------
(* What each step changes: the strategy thread and its listening thread. *)

LEMMA OverwrittenIs ==
  ASSUME TableInv, NEW s \in Slots
  PROVE  /\ Overwritten(s) \subseteq Orders
         /\ slots[s].key # None /\ Busy(slots[s].key.order) => slots[s].key.order \in Overwritten(s)
<1>1. Overwritten(s) \subseteq Orders
  BY DEF Overwritten
<1>2. ASSUME slots[s].key # None, Busy(slots[s].key.order) PROVE slots[s].key.order \in Overwritten(s)
  <2>1. PICK q : q = slots[s].key.order
    OBVIOUS
  <2>2. q \in Orders
    BY <1>2, <2>1, Typed DEF TableInv, SlotType, Keys
  <2>3. q = cb.order \/ \E r \in reports : r.order = q
    <3>1. CASE cb.order = q
      BY <3>1
    <3>2. CASE \E kind \in Kinds : Has(q, kind)
      <4>1. PICK kind : Has(q, kind)
        BY <3>2
      <4>2. PICK r : r = [order |-> q, kind |-> kind]
        OBVIOUS
      <4> QED
        BY <4>1, <4>2 DEF Has
    <3> QED
      BY <1>2, <2>1, <3>1, <3>2 DEF Busy
  <2> QED
    BY <1>2, <2>1, <2>2, <2>3 DEF Overwritten
<1> QED
  BY <1>1, <1>2

LEMMA RidStep ==
  ASSUME TableInv, RecordRid
  PROVE  /\ UNCHANGED <<saved, up, session, toRestore, restoring, cb, sent, reports>>
         /\ job.stage = "rid" /\ job.slot \in Slots
         /\ job' \in JobType /\ job'.stage = "key" /\ job'.order = job.order /\ job'.slot = job.slot
         /\ slots' \in [Slots -> SlotType] /\ \A t \in Slots : t # job.slot => slots'[t] = slots[t]
         /\ slots'[job.slot].rid = job.order
         /\ slots'[job.slot].key = slots[job.slot].key /\ slots'[job.slot].sys = slots[job.slot].sys
         /\ slots'[job.slot].status = slots[job.slot].status
         /\ strays \subseteq strays' /\ strays' \subseteq Orders
         /\ slots[job.slot].key # None /\ Busy(slots[job.slot].key.order) => slots[job.slot].key.order \in strays'
<1>1. /\ UNCHANGED <<saved, up, session, toRestore, restoring, cb, sent, reports>> /\ job.stage = "rid"
      /\ slots' = [slots EXCEPT ![job.slot].rid = job.order]
      /\ strays' = strays \cup Overwritten(job.slot) /\ job' = [job EXCEPT !.stage = "key"]
  BY DEF RecordRid
<1>2. /\ slots \in [Slots -> SlotType] /\ job \in JobType /\ strays \subseteq Orders
      /\ job.slot \in Slots /\ job.order \in Own
  BY <1>1, Typed, SlotKinds DEF TableInv
<1>3. job' \in JobType /\ job'.stage = "key" /\ job'.order = job.order /\ job'.slot = job.slot
  BY <1>1, <1>2 DEF JobType
<1>4. slots' \in [Slots -> SlotType]
  BY <1>1, <1>2 DEF SlotType, Rids
<1>5. \A t \in Slots : t # job.slot => slots'[t] = slots[t]
  BY <1>1, <1>2
<1>6. /\ slots'[job.slot].rid = job.order /\ slots'[job.slot].key = slots[job.slot].key
      /\ slots'[job.slot].sys = slots[job.slot].sys /\ slots'[job.slot].status = slots[job.slot].status
  BY <1>1, <1>2 DEF SlotType
<1> QED
  BY <1>1, <1>2, <1>3, <1>4, <1>5, <1>6, OverwrittenIs

LEMMA KeyStep ==
  ASSUME TableInv, RecordKey
  PROVE  /\ UNCHANGED <<up, session, toRestore, restoring, cb, sent, reports>>
         /\ job.stage = "key" /\ job.slot \in Slots
         /\ job' \in JobType /\ job'.stage = "send" /\ job'.order = job.order /\ job'.slot = job.slot
         /\ slots' \in [Slots -> SlotType] /\ \A t \in Slots : t # job.slot => slots'[t] = slots[t]
         /\ slots'[job.slot].rid = slots[job.slot].rid /\ slots'[job.slot].sys = slots[job.slot].sys
         /\ slots'[job.slot].key = Key(job.order) /\ slots'[job.slot].status = "inserted"
         /\ Save(slots'[job.slot])
         /\ strays \subseteq strays' /\ strays' \subseteq Orders
         /\ slots[job.slot].key # None /\ Busy(slots[job.slot].key.order) => slots[job.slot].key.order \in strays'
<1>1. /\ UNCHANGED <<up, session, toRestore, restoring, cb, sent, reports>> /\ job.stage = "key"
      /\ strays' = strays \cup Overwritten(job.slot) /\ job' = [job EXCEPT !.stage = "send"]
  BY DEF RecordKey
<1>2. /\ slots \in [Slots -> SlotType] /\ job \in JobType /\ strays \subseteq Orders
      /\ job.slot \in Slots /\ job.order \in Own /\ Key(job.order) \in Keys
  BY <1>1, Typed, SlotKinds, KeyType, Consts DEF TableInv
<1>3. job' \in JobType /\ job'.stage = "send" /\ job'.order = job.order /\ job'.slot = job.slot
  BY <1>1, <1>2 DEF JobType
<1>4. PICK r : r = [slots[job.slot] EXCEPT !.key = Key(job.order), !.status = "inserted"]
  OBVIOUS
<1>5. /\ r \in SlotType /\ r.rid = slots[job.slot].rid /\ r.sys = slots[job.slot].sys
      /\ r.key = Key(job.order) /\ r.status = "inserted"
  BY <1>2, <1>4 DEF SlotType, LiveStatus
<1>6. slots' = [slots EXCEPT ![job.slot] = r] /\ Save(r)
  BY <1>4 DEF RecordKey
<1>7. slots' \in [Slots -> SlotType] /\ slots'[job.slot] = r /\ \A t \in Slots : t # job.slot => slots'[t] = slots[t]
  BY <1>2, <1>5, <1>6
<1>8. Save(slots'[job.slot])
  BY <1>6, <1>7
<1> QED
  BY <1>1, <1>2, <1>3, <1>5, <1>7, <1>8, OverwrittenIs

LEMMA SendStep ==
  ASSUME TableInv, Send
  PROVE  /\ UNCHANGED <<slots, saved, up, session, toRestore, restoring, cb>>
         /\ job.stage = "send" /\ job.order \in Own /\ job' = NoJob /\ job' \in JobType
         /\ sent' \in [Orders -> SentType] /\ sent'[job.order].session \in {sent[job.order].session, session}
         /\ sent'[job.order].session = sent[job.order].session \/ job.order \in strays'
         /\ \A x \in Orders : x # job.order => sent'[x] = sent[x]
         /\ strays \subseteq strays' /\ strays' \subseteq strays \cup {job.order} /\ strays' \subseteq Orders
         /\ \/ sent'[job.order].state = "live" /\ reports' = reports \cup {[order |-> job.order, kind |-> "live"]}
            \/ sent'[job.order].state = "rejected" /\ reports' = reports
<1>1. /\ UNCHANGED <<slots, saved, up, session, toRestore, restoring, cb>> /\ job.stage = "send" /\ job' = NoJob
  BY DEF Send
<1>2. /\ sent \in [Orders -> SentType] /\ job.order \in Own /\ job.order \in Orders /\ session \in Sessions
      /\ strays \subseteq Orders
  BY <1>1, Typed, SlotKinds, Consts DEF TableInv
<1>3. NoJob \in JobType
  BY SizesAssumption DEF NoJob, JobType
<1>4. CASE /\ sent' = [sent EXCEPT ![job.order] = [state |-> "live", session |-> session]]
           /\ reports' = reports \cup {[order |-> job.order, kind |-> "live"]}
           /\ strays' = IF sent[job.order].session = session THEN strays ELSE strays \cup {job.order}
  <2>1. sent' \in [Orders -> SentType] /\ sent'[job.order].session = session
    BY <1>2, <1>4 DEF SentType
  <2>2. sent'[job.order].state = "live" /\ \A x \in Orders : x # job.order => sent'[x] = sent[x]
    BY <1>2, <1>4 DEF SentType
  <2> QED
    BY <1>1, <1>2, <1>3, <1>4, <2>1, <2>2
<1>5. CASE sent' = [sent EXCEPT ![job.order].state = "rejected"] /\ UNCHANGED <<reports, strays>>
  <2>1. sent' \in [Orders -> SentType] /\ sent'[job.order].session = sent[job.order].session
    BY <1>2, <1>5 DEF SentType
  <2>2. sent'[job.order].state = "rejected" /\ \A x \in Orders : x # job.order => sent'[x] = sent[x]
    BY <1>2, <1>5 DEF SentType
  <2> QED
    BY <1>1, <1>2, <1>3, <1>5, <2>1, <2>2
<1> QED
  BY <1>4, <1>5 DEF Send

LEMMA ArrivedStep ==
  ASSUME TableInv, NEW o \in Orders, NEW kind \in Kinds, Arrived(o, kind)
  PROVE  /\ up /\ toRestore = {} /\ restoring = NoRestore /\ cb = NoCall /\ Has(o, kind) /\ (kind \in EndedStatus => ~Has(o, "live"))
         /\ reports' \subseteq reports /\ reports' \subseteq [order: Orders, kind: Kinds]
         /\ \A x, k : Has(x, k)' <=> Has(x, k) /\ <<x, k>> # <<o, kind>>
<1>1. up /\ toRestore = {} /\ cb = NoCall /\ reports' = reports \ {[order |-> o, kind |-> kind]}
  BY DEF Arrived
<1>2. Has(o, kind) /\ (kind \in EndedStatus => ~Has(o, "live"))
  BY DEF Arrived, Has
<1>3. ASSUME NEW x, NEW k PROVE Has(x, k)' <=> Has(x, k) /\ <<x, k>> # <<o, kind>>
  <2>1. [order |-> x, kind |-> k] = [order |-> o, kind |-> kind] <=> x = o /\ k = kind
    <3>1. [order |-> x, kind |-> k].order = x /\ [order |-> x, kind |-> k].kind = k
      OBVIOUS
    <3>2. [order |-> o, kind |-> kind].order = o /\ [order |-> o, kind |-> kind].kind = kind
      OBVIOUS
    <3> QED
      BY <3>1, <3>2
  <2> QED
    BY <1>1, <2>1 DEF Has
<1>4. restoring = NoRestore
  BY <1>1 DEF TableInv, RestoreInPlace
<1> QED
  BY <1>1, <1>2, <1>3, <1>4, Typed DEF TableInv

-----------------------------------------------------------------------------
(* What each step changes: the callbacks. *)

LEMMA NewCall ==
  ASSUME TableInv, NEW o \in Orders, NEW kind \in Kinds, NEW k \in Keys,
         cb = NoCall, restoring = NoRestore, sent[o].state \in AtExchange, Recording(o, kind, k)
  PROVE  /\ cb' \in CallType /\ cb' # NoCall /\ cb'.order = o /\ cb'.kind = kind /\ cb'.key = k /\ cb'.stage \in {"rid", "sys"}
         /\ cb'.stage = "rid" => cb'.slot \in Slots /\ Writable(cb'.slot)
              /\ (job.stage \in {"rid", "key"} /\ job.slot = cb'.slot => {job.order, o} \subseteq strays')
         /\ cb'.stage = "sys" => o \in strays'
         /\ strays \subseteq strays' /\ strays' \subseteq Orders
<1>1. strays \subseteq Orders /\ cb.stage = "idle" /\ NoCall.order = None /\ o # None
  BY Typed, Consts DEF TableInv, NoCall
<1>2. CASE Writables = {}
  <2>1. cb' = [order |-> o, kind |-> kind, key |-> k, stage |-> "sys", slot |-> 0] /\ strays' = strays \cup {o}
    BY <1>2 DEF Recording
  <2>2. cb' \in CallType /\ cb'.order = o /\ cb'.kind = kind /\ cb'.key = k /\ cb'.stage = "sys"
    BY <2>1, SizesAssumption DEF CallType
  <2> QED
    BY <1>1, <2>1, <2>2
<1>3. CASE Writables # {}
  <2>1. PICK s : s = First(Writables)
    OBVIOUS
  <2>2. s \in Slots /\ Writable(s)
    BY <1>3, <2>1, LeastSlot DEF Writables
  <2>3. cb' = [order |-> o, kind |-> kind, key |-> k, stage |-> "rid", slot |-> s] /\ strays' = strays \cup Shared(s, o)
    BY <1>3, <2>1 DEF Recording
  <2>4. cb' \in CallType /\ cb'.order = o /\ cb'.kind = kind /\ cb'.key = k /\ cb'.stage = "rid" /\ cb'.slot = s
    BY <2>2, <2>3, SizesAssumption DEF CallType, Slots
  <2>5. job.stage \in {"rid", "key"} => job.order \in Orders /\ job.order # o
    <3>1. job.stage \in {"rid", "key"} => job.order \in Own /\ sent[job.order].state = "none"
      BY SlotKinds DEF TableInv, JobInPlace
    <3> QED
      BY <3>1, Consts DEF AtExchange, EndedStatus
  <2>6. Shared(s, o) \subseteq Orders
    BY <1>1, <2>5 DEF Shared, Taken
  <2>7. job.stage \in {"rid", "key"} /\ job.slot = s => {job.order, o} \subseteq Shared(s, o)
    BY <1>1, <2>5 DEF Shared, Taken
  <2> QED
    BY <1>1, <2>2, <2>3, <2>4, <2>6, <2>7
<1> QED
  BY <1>2, <1>3

StatusTold(o, kind) == IF kind = "query" THEN sent[o].state ELSE kind

LEMMA OnOrderStep ==
  ASSUME TableInv, NEW o \in Orders, NEW kind \in Kinds \ {"trade"}, OnOrder(o, kind, StatusTold(o, kind))
  PROVE  /\ Arrived(o, kind) /\ cb = NoCall /\ sent[o].state \in AtExchange
         /\ StatusTold(o, kind) \in LiveStatus \cup EndedStatus
         /\ UNCHANGED <<up, session, toRestore, restoring, job, sent>>
         /\ cb' \in CallType /\ cb' # NoCall /\ cb'.order = o /\ cb'.kind = kind /\ cb'.key = Key(o)
         /\ cb'.stage \in {"rid", "sys"} /\ strays \subseteq strays' /\ strays' \subseteq Orders
         /\ WithKey(Key(o)) # {} =>
              /\ cb'.stage = "sys" /\ strays' = strays
              /\ \E s \in WithKey(Key(o)) :
                   /\ slots' \in [Slots -> SlotType] /\ \A t \in Slots : t # s => slots'[t] = slots[t]
                   /\ slots'[s].rid = slots[s].rid /\ slots'[s].sys = slots[s].sys /\ slots'[s].key = Key(o)
                   /\ slots'[s].status = StatusTold(o, kind) /\ Save(slots'[s])
         /\ WithKey(Key(o)) = {} =>
              /\ UNCHANGED <<slots, saved>>
              /\ cb'.stage = "rid" => cb'.slot \in Slots /\ Writable(cb'.slot)
                   /\ (job.stage \in {"rid", "key"} /\ job.slot = cb'.slot => {job.order, o} \subseteq strays')
              /\ cb'.stage = "sys" => o \in strays'
<1>1. Arrived(o, kind) /\ UNCHANGED <<up, session, toRestore, restoring, job, sent>>
  BY DEF OnOrder
<1>2. cb = NoCall /\ restoring = NoRestore /\ Has(o, kind)
  BY <1>1, ArrivedStep
<1>3. sent[o].state \in AtExchange
  BY <1>2 DEF TableInv, ReportsOK
<1>4. Key(o) \in Keys /\ Key(o) # None /\ slots \in [Slots -> SlotType] /\ strays \subseteq Orders /\ o # None
  BY KeyType, Typed, Consts DEF TableInv
<1>5. StatusTold(o, kind) \in LiveStatus \cup EndedStatus
  BY <1>3 DEF StatusTold, AtExchange, LiveStatus, EndedStatus, Kinds
<1>6. CASE WithKey(Key(o)) # {}
  <2>1. PICK s : s = First(WithKey(Key(o)))
    OBVIOUS
  <2>2. s \in WithKey(Key(o)) /\ s \in Slots
    BY <1>6, <2>1, LeastSlot DEF WithKey
  <2>3. PICK r : r = [slots[s] EXCEPT !.status = StatusTold(o, kind)]
    OBVIOUS
  <2>4. /\ slots' = [slots EXCEPT ![s] = r] /\ Save(r) /\ strays' = strays
        /\ cb' = [order |-> o, kind |-> kind, key |-> Key(o), stage |-> "sys", slot |-> 0]
    BY <1>6, <2>1, <2>3 DEF OnOrder, SetStatus
  <2>5. slots[s].key = Key(o)
    BY <2>2 DEF WithKey
  <2>6. /\ r \in SlotType /\ r.rid = slots[s].rid /\ r.sys = slots[s].sys /\ r.key = Key(o)
        /\ r.status = StatusTold(o, kind)
    BY <1>4, <1>5, <2>2, <2>3, <2>5 DEF SlotType
  <2>7. /\ slots' \in [Slots -> SlotType] /\ slots'[s] = r /\ \A t \in Slots : t # s => slots'[t] = slots[t]
    BY <1>4, <2>2, <2>4, <2>6
  <2>8. cb' \in CallType /\ cb'.order = o /\ cb'.kind = kind /\ cb'.key = Key(o) /\ cb'.stage = "sys"
    BY <1>4, <2>4, SizesAssumption DEF CallType
  <2>9. cb' # NoCall
    BY <1>4, <2>8 DEF NoCall
  <2>10. Save(slots'[s])
    BY <2>4, <2>7
  <2> QED
    BY <1>1, <1>2, <1>3, <1>4, <1>5, <1>6, <2>2, <2>4, <2>6, <2>7, <2>8, <2>9, <2>10
<1>7. CASE WithKey(Key(o)) = {}
  <2>1. Recording(o, kind, Key(o)) /\ UNCHANGED <<slots, saved>>
    BY <1>7 DEF OnOrder
  <2> QED
    BY <1>1, <1>2, <1>3, <1>4, <1>5, <1>7, <2>1, NewCall
<1> QED
  BY <1>6, <1>7

TradeKey(o) == [order |-> o, session |-> session, whole |-> TRUE]

LEMMA OnTradeStep ==
  ASSUME TableInv, NEW o \in Orders, OnRtnTrade(o)
  PROVE  /\ Arrived(o, "trade") /\ cb = NoCall /\ sent[o].state \in EndedStatus
         /\ UNCHANGED <<slots, saved, up, session, toRestore, restoring, job, sent>>
         /\ cb' \in CallType /\ cb' # NoCall /\ cb'.order = o /\ cb'.kind = "trade" /\ cb'.key = TradeKey(o)
         /\ TradeKey(o) \in Keys
         /\ cb'.stage \in {"rid", "sys", "deliver"} /\ strays \subseteq strays' /\ strays' \subseteq Orders
         /\ cb'.stage = "rid" => /\ cb'.slot \in Slots /\ Writable(cb'.slot)
                                 /\ (job.stage \in {"rid", "key"} /\ job.slot = cb'.slot => {job.order, o} \subseteq strays')
         /\ cb'.stage # "deliver" => WithSys(o) = {} /\ WithKey(TradeKey(o)) = {}
         /\ cb'.stage = "sys" => o \in strays'
<1>1. Arrived(o, "trade") /\ UNCHANGED <<slots, saved, up, session, toRestore, restoring, job, sent>>
  BY DEF OnRtnTrade
<1>2. "trade" \in Kinds
  BY DEF Kinds
<1>3. cb = NoCall /\ restoring = NoRestore /\ Has(o, "trade")
  BY <1>1, <1>2, ArrivedStep
<1>4. sent[o].state \in AtExchange /\ sent[o].state \in EndedStatus
  BY <1>2, <1>3 DEF TableInv, ReportsOK
<1>5. PICK k : k = TradeKey(o)
  OBVIOUS
<1>6. k \in Keys /\ strays \subseteq Orders /\ o # None
  BY <1>5, Typed, Consts DEF TableInv, TradeKey, Keys
<1>7. CASE WithSys(o) # {} \/ WithKey(k) # {}
  <2>1. cb' = [order |-> o, kind |-> "trade", key |-> k, stage |-> "deliver", slot |-> 0] /\ strays' = strays
    BY <1>5, <1>7 DEF OnRtnTrade, TradeKey
  <2>2. /\ cb' \in CallType /\ cb'.order = o /\ cb'.kind = "trade" /\ cb'.key = k /\ cb'.stage = "deliver"
    BY <1>2, <1>6, <2>1, SizesAssumption DEF CallType
  <2>3. cb' # NoCall
    BY <1>6, <2>2 DEF NoCall
  <2> QED
    BY <1>1, <1>3, <1>4, <1>5, <1>6, <2>1, <2>2, <2>3
<1>8. CASE ~(WithSys(o) # {} \/ WithKey(k) # {})
  <2>1. Recording(o, "trade", k)
    BY <1>5, <1>8 DEF OnRtnTrade, TradeKey
  <2> QED
    BY <1>1, <1>2, <1>3, <1>4, <1>5, <1>6, <1>8, <2>1, NewCall
<1> QED
  BY <1>7, <1>8

LEMMA CallRidStep ==
  ASSUME TableInv, CallbackRid
  PROVE  /\ UNCHANGED <<saved, up, session, toRestore, restoring, job, sent, reports>>
         /\ cb.stage = "rid" /\ cb.slot \in Slots
         /\ cb' \in CallType /\ cb'.stage = "key" /\ cb'.order = cb.order /\ cb'.kind = cb.kind
         /\ cb'.key = cb.key /\ cb'.slot = cb.slot /\ cb' # NoCall
         /\ slots' \in [Slots -> SlotType] /\ \A t \in Slots : t # cb.slot => slots'[t] = slots[t]
         /\ slots'[cb.slot].rid = direct
         /\ slots'[cb.slot].key = slots[cb.slot].key /\ slots'[cb.slot].sys = slots[cb.slot].sys
         /\ slots'[cb.slot].status = slots[cb.slot].status
         /\ strays \subseteq strays' /\ strays' \subseteq Orders
         /\ slots[cb.slot].key # None /\ Busy(slots[cb.slot].key.order) =>
              slots[cb.slot].key.order \in strays' \cup {cb.order}
<1>1. /\ UNCHANGED <<saved, up, session, toRestore, restoring, job, sent, reports>> /\ cb.stage = "rid"
      /\ slots' = [slots EXCEPT ![cb.slot].rid = direct]
      /\ strays' = strays \cup (Overwritten(cb.slot) \ {cb.order}) /\ cb' = [cb EXCEPT !.stage = "key"]
  BY DEF CallbackRid
<1>2. /\ slots \in [Slots -> SlotType] /\ cb \in CallType /\ strays \subseteq Orders /\ cb.slot \in Slots
  BY <1>1, Typed, SlotKinds DEF TableInv
<1>3. /\ cb' \in CallType /\ cb'.stage = "key" /\ cb'.order = cb.order /\ cb'.kind = cb.kind
      /\ cb'.key = cb.key /\ cb'.slot = cb.slot
  BY <1>1, <1>2 DEF CallType
<1>4. cb' # NoCall
  BY <1>3 DEF NoCall
<1>5. slots' \in [Slots -> SlotType]
  BY <1>1, <1>2 DEF SlotType, Rids
<1>6. \A t \in Slots : t # cb.slot => slots'[t] = slots[t]
  BY <1>1, <1>2
<1>7. /\ slots'[cb.slot].rid = direct /\ slots'[cb.slot].key = slots[cb.slot].key
      /\ slots'[cb.slot].sys = slots[cb.slot].sys /\ slots'[cb.slot].status = slots[cb.slot].status
  BY <1>1, <1>2 DEF SlotType
<1>8. Overwritten(cb.slot) \subseteq Orders
  BY <1>2, OverwrittenIs
<1>9. strays \subseteq strays' /\ strays' \subseteq Orders
  BY <1>1, <1>2, <1>8
<1>10. slots[cb.slot].key # None /\ Busy(slots[cb.slot].key.order) => slots[cb.slot].key.order \in strays' \cup {cb.order}
  BY <1>1, <1>2, OverwrittenIs
<1> QED
  BY <1>1, <1>2, <1>3, <1>4, <1>5, <1>6, <1>7, <1>9, <1>10

CallStatus == IF cb.kind = "query" THEN sent[cb.order].state ELSE "inserted"

LEMMA CallKeyStep ==
  ASSUME TableInv, CallbackKey
  PROVE  /\ UNCHANGED <<up, session, toRestore, restoring, job, sent, reports, strays>>
         /\ cb.stage = "key" /\ cb.slot \in Slots
         /\ cb' \in CallType /\ cb'.stage = "sys" /\ cb'.order = cb.order /\ cb'.kind = cb.kind
         /\ cb'.key = cb.key /\ cb'.slot = cb.slot /\ cb' # NoCall
         /\ slots' \in [Slots -> SlotType] /\ \A t \in Slots : t # cb.slot => slots'[t] = slots[t]
         /\ slots'[cb.slot].rid = slots[cb.slot].rid /\ slots'[cb.slot].sys = slots[cb.slot].sys
         /\ slots'[cb.slot].key = cb.key /\ slots'[cb.slot].status = CallStatus
         /\ cb.key \in Keys /\ CallStatus \in LiveStatus \cup EndedStatus
         /\ Save(slots'[cb.slot])
<1>1. /\ UNCHANGED <<up, session, toRestore, restoring, job, sent, reports, strays>> /\ cb.stage = "key"
      /\ cb' = [cb EXCEPT !.stage = "sys"]
  BY DEF CallbackKey
<1>2. /\ slots \in [Slots -> SlotType] /\ cb \in CallType /\ cb.slot \in Slots /\ cb.order \in Orders /\ cb # NoCall
  BY <1>1, Typed, SlotKinds DEF TableInv
<1>3. cb.key \in Keys /\ sent[cb.order].state \in AtExchange
  <2>1. /\ cb.key = IF cb.kind = "trade" THEN TradeKey(cb.order) ELSE Key(cb.order)
        /\ sent[cb.order].state \in AtExchange
    BY <1>2 DEF TableInv, CallInPlace, TradeKey
  <2>2. TradeKey(cb.order) \in Keys
    BY <1>2, Typed DEF TableInv, TradeKey, Keys
  <2> QED
    BY <1>2, <2>1, <2>2, KeyType DEF TableInv
<1>4. CallStatus \in LiveStatus \cup EndedStatus
  BY <1>3 DEF CallStatus, AtExchange, LiveStatus, EndedStatus
<1>5. /\ cb' \in CallType /\ cb'.stage = "sys" /\ cb'.order = cb.order /\ cb'.kind = cb.kind
      /\ cb'.key = cb.key /\ cb'.slot = cb.slot
  BY <1>1, <1>2 DEF CallType
<1>6. cb' # NoCall
  BY <1>5 DEF NoCall
<1>7. PICK r : r = [slots[cb.slot] EXCEPT !.key = cb.key, !.status = CallStatus]
  OBVIOUS
<1>8. /\ r \in SlotType /\ r.rid = slots[cb.slot].rid /\ r.sys = slots[cb.slot].sys
      /\ r.key = cb.key /\ r.status = CallStatus
  BY <1>2, <1>3, <1>4, <1>7 DEF SlotType
<1>9. slots' = [slots EXCEPT ![cb.slot] = r] /\ Save(r)
  BY <1>7 DEF CallbackKey, CallStatus
<1>10. slots' \in [Slots -> SlotType] /\ slots'[cb.slot] = r /\ \A t \in Slots : t # cb.slot => slots'[t] = slots[t]
  BY <1>2, <1>8, <1>9
<1>11. Save(slots'[cb.slot])
  BY <1>9, <1>10
<1> QED
  BY <1>1, <1>2, <1>3, <1>4, <1>5, <1>6, <1>8, <1>10, <1>11

LEMMA CallSysStep ==
  ASSUME TableInv, CallbackSys
  PROVE  /\ UNCHANGED <<up, session, toRestore, restoring, job, sent, reports, strays>>
         /\ cb.stage = "sys" /\ cb.order \in Orders /\ cb' \in CallType
         /\ \/ cb.kind = "query" /\ cb' = NoCall
            \/ cb.kind # "query" /\ cb' # NoCall /\ cb'.stage = "deliver" /\ cb'.order = cb.order
               /\ cb'.kind = cb.kind /\ cb'.key = cb.key /\ cb'.slot = cb.slot
         /\ WithKey(cb.key) = {} => UNCHANGED <<slots, saved>>
         /\ WithKey(cb.key) # {} =>
              \E s \in WithKey(cb.key) :
                /\ slots' \in [Slots -> SlotType] /\ \A t \in Slots : t # s => slots'[t] = slots[t]
                /\ slots'[s].rid = slots[s].rid /\ slots'[s].key = cb.key /\ slots'[s].status = slots[s].status
                /\ slots'[s].sys = cb.order /\ Save(slots'[s])
<1>1. /\ UNCHANGED <<up, session, toRestore, restoring, job, sent, reports, strays>> /\ cb.stage = "sys"
      /\ cb' = IF cb.kind = "query" THEN NoCall ELSE [cb EXCEPT !.stage = "deliver"]
  BY DEF CallbackSys
<1>2. /\ slots \in [Slots -> SlotType] /\ cb \in CallType /\ cb.order \in Orders
  BY <1>1, Typed, SlotKinds DEF TableInv
<1>3. NoCall \in CallType
  BY SizesAssumption DEF NoCall, CallType, Kinds
<1>4. /\ cb' \in CallType
      /\ \/ cb.kind = "query" /\ cb' = NoCall
         \/ cb.kind # "query" /\ cb' # NoCall /\ cb'.stage = "deliver" /\ cb'.order = cb.order
            /\ cb'.kind = cb.kind /\ cb'.key = cb.key /\ cb'.slot = cb.slot
  <2>1. CASE cb.kind = "query"
    BY <1>1, <1>3, <2>1
  <2>2. CASE cb.kind # "query"
    <3>1. cb' = [cb EXCEPT !.stage = "deliver"]
      BY <1>1, <2>2
    <3>2. cb' \in CallType /\ cb'.stage = "deliver" /\ cb'.order = cb.order /\ cb'.kind = cb.kind
          /\ cb'.key = cb.key /\ cb'.slot = cb.slot
      BY <1>2, <3>1 DEF CallType
    <3>3. cb' # NoCall
      BY <3>2 DEF NoCall
    <3> QED
      BY <2>2, <3>2, <3>3
  <2> QED
    BY <2>1, <2>2
<1>5. WithKey(cb.key) = {} => UNCHANGED <<slots, saved>>
  BY DEF CallbackSys
<1>6. ASSUME WithKey(cb.key) # {}
      PROVE  \E s \in WithKey(cb.key) :
                /\ slots' \in [Slots -> SlotType] /\ \A t \in Slots : t # s => slots'[t] = slots[t]
                /\ slots'[s].rid = slots[s].rid /\ slots'[s].key = cb.key /\ slots'[s].status = slots[s].status
                /\ slots'[s].sys = cb.order /\ Save(slots'[s])
  <2>1. PICK s : s = First(WithKey(cb.key))
    OBVIOUS
  <2>2. s \in WithKey(cb.key) /\ s \in Slots
    BY <1>6, <2>1, LeastSlot DEF WithKey
  <2>3. PICK r : r = [slots[s] EXCEPT !.sys = cb.order]
    OBVIOUS
  <2>4. slots' = [slots EXCEPT ![s] = r] /\ Save(r)
    BY <1>6, <2>1, <2>3 DEF CallbackSys
  <2>5. slots[s].key = cb.key
    BY <2>2 DEF WithKey
  <2>6. /\ r \in SlotType /\ r.rid = slots[s].rid /\ r.sys = cb.order /\ r.key = cb.key /\ r.status = slots[s].status
    BY <1>2, <2>2, <2>3, <2>5 DEF SlotType
  <2>7. slots' \in [Slots -> SlotType] /\ slots'[s] = r /\ \A t \in Slots : t # s => slots'[t] = slots[t]
    BY <1>2, <2>2, <2>4, <2>6
  <2>8. Save(slots'[s])
    BY <2>4, <2>7
  <2> QED
    BY <2>2, <2>6, <2>7, <2>8
<1> QED
  BY <1>1, <1>2, <1>4, <1>5, <1>6

LEMMA DeliverStep ==
  ASSUME TableInv, Deliver
  PROVE  /\ UNCHANGED <<slots, saved, up, session, toRestore, restoring, job, sent, reports, strays>>
         /\ cb.stage = "deliver" /\ cb' = NoCall /\ cb' \in CallType
<1>1. NoCall \in CallType
  BY SizesAssumption DEF NoCall, CallType, Kinds
<1> QED
  BY <1>1 DEF Deliver

-----------------------------------------------------------------------------
(* What each step changes: the exchange, crashes, log-ins and restores. *)

LEMMA HasIs ==
  /\ \A x, k, o, kind : [order |-> x, kind |-> k] = [order |-> o, kind |-> kind] <=> x = o /\ k = kind
<1> SUFFICES ASSUME NEW x, NEW k, NEW o, NEW kind
    PROVE  [order |-> x, kind |-> k] = [order |-> o, kind |-> kind] <=> x = o /\ k = kind
  OBVIOUS
<1>1. [order |-> x, kind |-> k].order = x /\ [order |-> x, kind |-> k].kind = k
  OBVIOUS
<1>2. [order |-> o, kind |-> kind].order = o /\ [order |-> o, kind |-> kind].kind = kind
  OBVIOUS
<1> QED
  BY <1>1, <1>2

LEMMA ForeignStep ==
  ASSUME TableInv, NEW o \in Foreign, ForeignOrder(o)
  PROVE  /\ UNCHANGED <<slots, saved, up, session, toRestore, restoring, job, cb, strays>>
         /\ sent[o].state = "none" /\ sent' \in [Orders -> SentType]
         /\ sent'[o].state = "live" /\ sent'[o].session = sent[o].session
         /\ \A x \in Orders : x # o => sent'[x] = sent[x]
         /\ reports' \subseteq [order: Orders, kind: Kinds]
         /\ \A x, k : Has(x, k)' <=> Has(x, k) \/ (up /\ x = o /\ k = "live")
<1>1. /\ UNCHANGED <<slots, saved, up, session, toRestore, restoring, job, cb, strays>> /\ sent[o] = NotSent
      /\ sent' = [sent EXCEPT ![o].state = "live"]
      /\ reports' = IF ~up THEN reports ELSE reports \cup {[order |-> o, kind |-> "live"]}
  BY DEF ForeignOrder
<1>2. sent \in [Orders -> SentType] /\ o \in Orders /\ reports \subseteq [order: Orders, kind: Kinds]
  BY Typed, Consts DEF TableInv
<1>3. sent[o].state = "none"
  BY <1>1 DEF NotSent
<1>4. sent' \in [Orders -> SentType] /\ sent'[o].state = "live" /\ sent'[o].session = sent[o].session
  BY <1>1, <1>2 DEF SentType
<1>5. \A x \in Orders : x # o => sent'[x] = sent[x]
  BY <1>1, <1>2
<1>6. reports' \subseteq [order: Orders, kind: Kinds]
  BY <1>1, <1>2 DEF Kinds
<1>7. ASSUME NEW x, NEW k PROVE Has(x, k)' <=> Has(x, k) \/ (up /\ x = o /\ k = "live")
  BY <1>1, HasIs DEF Has
<1> QED
  BY <1>1, <1>3, <1>4, <1>5, <1>6, <1>7

LEMMA EndStep ==
  ASSUME TableInv, NEW o \in Orders, NEW how \in EndedStatus, OrderEnds(o, how)
  PROVE  /\ UNCHANGED <<slots, saved, up, session, toRestore, restoring, job, cb, strays>>
         /\ sent[o].state = "live" /\ sent' \in [Orders -> SentType]
         /\ sent'[o].state = how /\ sent'[o].session = sent[o].session
         /\ \A x \in Orders : x # o => sent'[x] = sent[x]
         /\ reports' \subseteq [order: Orders, kind: Kinds]
         /\ \A x, k : Has(x, k)' <=> Has(x, k) \/ (up /\ x = o /\ (k = how \/ (k = "trade" /\ how = "traded")))
<1>1. /\ UNCHANGED <<slots, saved, up, session, toRestore, restoring, job, cb, strays>> /\ sent[o].state = "live"
      /\ sent' = [sent EXCEPT ![o].state = how]
      /\ reports' = IF ~up THEN reports
                    ELSE reports \cup {[order |-> o, kind |-> how]}
                           \cup (IF how = "traded" THEN {[order |-> o, kind |-> "trade"]} ELSE {})
  BY DEF OrderEnds
<1>2. sent \in [Orders -> SentType] /\ reports \subseteq [order: Orders, kind: Kinds]
  BY Typed DEF TableInv
<1>3. how \in {"none", "live", "traded", "canceled", "rejected"} /\ how \in Kinds /\ "trade" \in Kinds
  BY DEF EndedStatus, Kinds
<1>4. sent' \in [Orders -> SentType] /\ sent'[o].state = how /\ sent'[o].session = sent[o].session
  BY <1>1, <1>2, <1>3 DEF SentType
<1>5. \A x \in Orders : x # o => sent'[x] = sent[x]
  BY <1>1, <1>2
<1>6. reports' \subseteq [order: Orders, kind: Kinds]
  <2>1. [order |-> o, kind |-> how] \in [order: Orders, kind: Kinds] /\ [order |-> o, kind |-> "trade"] \in [order: Orders, kind: Kinds]
    BY <1>3
  <2> QED
    BY <1>1, <1>2, <2>1
<1>7. ASSUME NEW x, NEW k
      PROVE  Has(x, k)' <=> Has(x, k) \/ (up /\ x = o /\ (k = how \/ (k = "trade" /\ how = "traded")))
  <2>1. CASE up /\ how = "traded"
    <3>1. reports' = reports \cup {[order |-> o, kind |-> how]} \cup {[order |-> o, kind |-> "trade"]}
      BY <1>1, <2>1
    <3> QED
      BY <2>1, <3>1, HasIs DEF Has
  <2>2. CASE up /\ how # "traded"
    <3>1. reports' = reports \cup {[order |-> o, kind |-> how]}
      BY <1>1, <2>2
    <3> QED
      BY <2>2, <3>1, HasIs DEF Has
  <2>3. CASE ~up
    BY <1>1, <2>3 DEF Has
  <2> QED
    BY <2>1, <2>2, <2>3
<1> QED
  BY <1>1, <1>4, <1>5, <1>6, <1>7

LEMMA CrashStep ==
  ASSUME TableInv, Crash
  PROVE  /\ UNCHANGED <<saved, session>> /\ up /\ up' = FALSE
         /\ job' = NoJob /\ cb' = NoCall /\ reports' = {} /\ toRestore' = {} /\ restoring' = NoRestore
         /\ slots' \in [Slots -> SlotType] /\ \A s \in Slots : slots'[s] = Free
         /\ strays' = strays \cup (Own \ ShortKeys) /\ strays' \subseteq Orders
         /\ sent' \in [Orders -> SentType] /\ job' \in JobType /\ cb' \in CallType
         /\ \A x \in Orders : x # job.order => sent'[x] = sent[x]
         /\ \A x \in Orders : sent'[x].session = sent[x].session
         /\ job.order \in Orders => sent'[job.order].state = "rejected"
<1>1. /\ UNCHANGED <<saved, session>> /\ up /\ up' = FALSE
      /\ job' = NoJob /\ cb' = NoCall /\ reports' = {} /\ toRestore' = {} /\ restoring' = NoRestore
      /\ slots' = [s \in Slots |-> Free] /\ strays' = strays \cup (Own \ ShortKeys)
      /\ sent' = IF job.order = None THEN sent ELSE [sent EXCEPT ![job.order].state = "rejected"]
  BY DEF Crash
<1>2. sent \in [Orders -> SentType] /\ strays \subseteq Orders
  BY Typed DEF TableInv
<1>3. slots' \in [Slots -> SlotType] /\ \A s \in Slots : slots'[s] = Free
  BY <1>1 DEF Free, SlotType
<1>4. NoJob \in JobType /\ NoCall \in CallType
  BY SizesAssumption DEF NoJob, JobType, NoCall, CallType, Kinds
<1>5. /\ sent' \in [Orders -> SentType]
      /\ \A x \in Orders : x # job.order => sent'[x] = sent[x]
      /\ \A x \in Orders : sent'[x].session = sent[x].session
      /\ job.order \in Orders => sent'[job.order].state = "rejected"
  <2>1. CASE job.order = None
    BY <1>1, <1>2, <2>1, Consts
  <2>2. CASE job.order # None
    <3>1. sent' = [sent EXCEPT ![job.order].state = "rejected"]
      BY <1>1, <2>2
    <3> QED
      BY <1>2, <3>1 DEF SentType
  <2> QED
    BY <2>1, <2>2
<1> QED
  BY <1>1, <1>2, <1>3, <1>4, <1>5, Consts

LEMMA LoginStep ==
  ASSUME TableInv, Login
  PROVE  /\ UNCHANGED <<slots, saved, restoring, job, cb, sent, strays>>
         /\ toRestore = {} /\ restoring = NoRestore /\ cb = NoCall /\ up' = TRUE /\ session' = session + 1 /\ session' \in Sessions
         /\ toRestore' = DOMAIN saved
         /\ reports' \subseteq [order: Orders, kind: Kinds]
         /\ \A x, k : Has(x, k)' <=> x \in Orders /\ k = "query" /\ sent[x].state \in AtExchange
<1>1. /\ UNCHANGED <<slots, saved, restoring, job, cb, sent, strays>> /\ session < MaxSessions
      /\ toRestore = {} /\ cb = NoCall /\ up' = TRUE /\ session' = session + 1 /\ toRestore' = DOMAIN saved
      /\ reports' = {[order |-> o, kind |-> "query"] : o \in {p \in Orders : sent[p].state \in {"live"} \cup EndedStatus}}
  BY DEF Login
<1>2. session' \in Sessions
  BY <1>1, Typed, SizesAssumption DEF TableInv, Sessions
<1>3. "query" \in Kinds
  BY DEF Kinds
<1>4. reports' \subseteq [order: Orders, kind: Kinds]
  BY <1>1, <1>3
<1>5. ASSUME NEW x, NEW k
      PROVE  Has(x, k)' <=> x \in Orders /\ k = "query" /\ sent[x].state \in AtExchange
  <2>1. Has(x, k)' <=> \E o \in {p \in Orders : sent[p].state \in AtExchange} :
                          [order |-> x, kind |-> k] = [order |-> o, kind |-> "query"]
    BY <1>1 DEF Has, AtExchange
  <2>2. Has(x, k)' <=> \E o \in {p \in Orders : sent[p].state \in AtExchange} : x = o /\ k = "query"
    BY <2>1, HasIs
  <2> QED
    BY <2>2
<1>6. restoring = NoRestore
  BY <1>1 DEF TableInv, RestoreInPlace
<1> QED
  BY <1>1, <1>2, <1>4, <1>5, <1>6

LEMMA RestoreStep ==
  ASSUME TableInv, NEW k \in Keys, RestoreKey(k)
  PROVE  /\ UNCHANGED <<slots, saved, up, session, job, cb, sent, reports>>
         /\ k \in toRestore /\ k \in DOMAIN saved /\ restoring = NoRestore
         /\ strays \subseteq strays' /\ strays' \subseteq Orders
         /\ \/ WithKey(k) # {} /\ toRestore' = toRestore \ {k} /\ restoring' = NoRestore /\ strays' = strays
            \/ /\ toRestore' = toRestore /\ restoring' \in RestoreType /\ restoring'.key = k
               /\ restoring'.slot \in Slots /\ Writable(restoring'.slot)
               /\ job.stage \in {"rid", "key"} /\ job.slot = restoring'.slot => {job.order, k.order} \subseteq strays'
<1>1. UNCHANGED <<slots, saved, up, session, job, cb, sent, reports>> /\ k \in toRestore /\ restoring = NoRestore
  BY DEF RestoreKey
<1>2. k \in DOMAIN saved /\ strays \subseteq Orders /\ cb = NoCall /\ cb.stage = "idle" /\ k.order \in Orders
  BY <1>1, Typed, SlotKinds DEF TableInv, Phases, Keys
<1>3. CASE RidIn(WithKey(k)) # None
  <2>1. WithKey(k) # {} /\ toRestore' = toRestore \ {k} /\ restoring' = restoring /\ strays' = strays
    BY <1>3 DEF RestoreKey, RidIn
  <2> QED
    BY <1>1, <1>2, <2>1
<1>4. CASE RidIn(WithKey(k)) = None
  <2>1. PICK s : s = First(Writables)
    OBVIOUS
  <2>2. /\ Writables # {} /\ toRestore' = toRestore
        /\ restoring' = [key |-> k, slot |-> s] /\ strays' = strays \cup Shared(s, k.order)
    BY <1>4, <2>1 DEF RestoreKey
  <2>3. s \in Slots /\ Writable(s)
    BY <2>1, <2>2, LeastSlot DEF Writables
  <2>4. restoring' \in RestoreType /\ restoring'.key = k /\ restoring'.slot = s
    BY <2>2, <2>3, SizesAssumption DEF RestoreType, Slots
  <2>5. job.stage \in {"rid", "key"} => job.order \in Orders /\ job.order # k.order
    <3>1. job.stage \in {"rid", "key"} => job.order \in Own /\ sent[job.order].state = "none"
      BY SlotKinds DEF TableInv, JobInPlace
    <3>2. Known(k.order)
      BY <1>2 DEF TableInv, RecordsOK
    <3> QED
      BY <3>1, <3>2, Consts DEF Known
  <2>6. Shared(s, k.order) \subseteq Orders
    BY <1>1, <1>2, <2>5 DEF Shared, Taken
  <2>7. job.stage \in {"rid", "key"} /\ job.slot = s => {job.order, k.order} \subseteq Shared(s, k.order)
    BY <2>5 DEF Shared, Taken
  <2> QED
    BY <1>1, <1>2, <2>2, <2>3, <2>4, <2>6, <2>7
<1> QED
  BY <1>3, <1>4

(* The key a record gets when it is read back *)
CutKey(k) == [k EXCEPT !.whole = k.order \in ShortKeys]

LEMMA RestoreRecordStep ==
  ASSUME TableInv, RestoreRecord
  PROVE  LET k == restoring.key
             s == restoring.slot
         IN  /\ UNCHANGED <<saved, up, session, job, cb, sent, reports, strays>>
             /\ restoring # NoRestore /\ restoring' = NoRestore
             /\ k \in Keys /\ k \in toRestore /\ k \in DOMAIN saved /\ toRestore' = toRestore \ {k}
             /\ CutKey(k) \in Keys /\ CutKey(k).order = k.order /\ CutKey(k).session = k.session
             /\ CutKey(k).whole <=> k.order \in ShortKeys
             /\ s \in Slots /\ Spare(s)
             /\ slots' \in [Slots -> SlotType] /\ \A t \in Slots : t # s => slots'[t] = slots[t]
             /\ slots'[s].rid = saved[k].rid /\ slots'[s].key = CutKey(k) /\ slots'[s].status = saved[k].status
             /\ slots'[s].sys = slots[s].sys
             /\ job.stage \in {"rid", "key"} /\ job.slot = s => {job.order, k.order} \subseteq strays
<1>1. PICK k, s : k = restoring.key /\ s = restoring.slot
  OBVIOUS
<1>2. /\ UNCHANGED <<saved, up, session, job, cb, sent, reports, strays>>
      /\ restoring # NoRestore /\ restoring' = NoRestore /\ toRestore' = toRestore \ {k}
      /\ slots' = Restored(k.order \in ShortKeys)
  BY <1>1 DEF RestoreRecord
<1>3. /\ k \in toRestore /\ s \in Slots /\ Spare(s) /\ k \in DOMAIN saved /\ k \in Keys /\ slots \in [Slots -> SlotType]
      /\ job.stage \in {"rid", "key"} /\ job.slot = s => {job.order, k.order} \subseteq strays
  BY <1>1, <1>2, Typed DEF TableInv, RestoreInPlace
<1>4. saved[k].rid \in Rids /\ saved[k].status \in LiveStatus \cup EndedStatus
  BY <1>3 DEF TableInv, TableTypeOK
<1>5. PICK kk : kk = CutKey(k)
  OBVIOUS
<1>6. kk \in Keys /\ kk.order = k.order /\ kk.session = k.session /\ (kk.whole <=> k.order \in ShortKeys)
  <2>1. PICK w \in BOOLEAN : w <=> k.order \in ShortKeys
    OBVIOUS
  <2>2. kk = [k EXCEPT !.whole = w]
    BY <1>5, <2>1, Zenon DEF CutKey
  <2>3. kk \in Keys /\ kk.order = k.order /\ kk.session = k.session /\ kk.whole = w
    BY <1>3, <2>2 DEF Keys
  <2> QED
    BY <2>1, <2>3
<1>7. PICK r : r = [slots[s] EXCEPT !.rid = saved[k].rid, !.status = saved[k].status, !.key = kk]
  OBVIOUS
<1>8. slots' = [slots EXCEPT ![s] = r]
  BY <1>1, <1>2, <1>5, <1>7 DEF Restored, CutKey
<1>9. r \in SlotType /\ r.rid = saved[k].rid /\ r.status = saved[k].status /\ r.key = kk /\ r.sys = slots[s].sys
  BY <1>3, <1>4, <1>6, <1>7 DEF SlotType
<1>10. slots' \in [Slots -> SlotType] /\ slots'[s] = r /\ \A t \in Slots : t # s => slots'[t] = slots[t]
  BY <1>3, <1>8, <1>9
<1>11. job.stage \in {"rid", "key"} /\ job.slot = s => {job.order, k.order} \subseteq strays
  BY <1>3
<1> QED
  BY <1>1, <1>2, <1>3, <1>5, <1>6, <1>9, <1>10, <1>11

-----------------------------------------------------------------------------
(* What a step writes: one slot at most, and one saved copy. *)

SavedAt(k, rid, status) ==
  /\ DOMAIN saved' = DOMAIN saved \cup {k} /\ saved'[k].rid = rid /\ saved'[k].status = status
  /\ \A j \in DOMAIN saved : j # k => saved'[j] = saved[j]

SavedTyped ==
  DOMAIN saved \subseteq Keys /\ \A k \in DOMAIN saved : saved[k].rid \in Rids /\ saved[k].status \in LiveStatus \cup EndedStatus

LEMMA SaveAt ==
  ASSUME TableTypeOK, NEW r \in SlotType, r.key \in Keys, r.rid # None, r.status # "raw", Save(r)
  PROVE  SavedAt(r.key, r.rid, r.status) /\ SavedTyped'
<1>1. r.key # None
  BY Consts
<1> QED
  BY <1>1, SavedChanges DEF SavedAt, SavedTyped

LEMMA SavedSame == ASSUME TableTypeOK, UNCHANGED saved PROVE SavedTyped'
BY DEF TableTypeOK, SavedTyped

(* One slot is written. *)
OnlySlot(s) == slots' \in [Slots -> SlotType] /\ \A t \in Slots : t # s => slots'[t] = slots[t]

LEMMA SlotFacts ==
  ASSUME TableInv, NEW s \in Slots
  PROVE  /\ slots[s] \in SlotType /\ slots[s].key \in Keys \cup {None} /\ slots[s].sys \in Orders \cup {None}
         /\ slots[s].key = None <=> slots[s].status = "raw"
         /\ slots[s].key # None => /\ slots[s].key \in Keys /\ slots[s].rid # None
                                   /\ slots[s].key.order \in Orders /\ Known(slots[s].key.order)
                                   /\ EndKnown(slots[s].key.order, slots[s].status)
         /\ slots[s].sys # None => slots[s].sys \in Orders /\ slots[s].key # None /\ sent[slots[s].sys].state \in AtExchange
         /\ Writable(s) <=> slots[s].status \notin LiveStatus
<1>1. slots[s] \in SlotType
  BY Typed DEF TableInv
<1>2. slots[s].key \in Keys \cup {None} /\ slots[s].sys \in Orders \cup {None}
  BY <1>1 DEF SlotType
<1>3. /\ slots[s].key = None <=> slots[s].status = "raw"
      /\ slots[s].key # None => slots[s].rid # None
      /\ slots[s].key # None => Known(slots[s].key.order) /\ EndKnown(slots[s].key.order, slots[s].status)
      /\ slots[s].sys # None => slots[s].key # None /\ sent[slots[s].sys].state \in AtExchange
  BY DEF TableInv, RecordsOK
<1>4. slots[s].key \in Keys => slots[s].key.order \in Orders
  BY DEF Keys
<1> QED
  BY <1>1, <1>2, <1>3, <1>4 DEF Writable

LEMMA KeySaves ==
  ASSUME TableInv, RecordKey
  PROVE  SavedAt(Key(job.order), slots[job.slot].rid, "inserted") /\ SavedTyped'
<1>1. PICK r : r = slots'[job.slot]
  OBVIOUS
<1>2. /\ r \in SlotType /\ r.rid = slots[job.slot].rid /\ r.key = Key(job.order) /\ r.status = "inserted" /\ Save(r)
      /\ job.stage = "key"
  BY <1>1, KeyStep
<1>3. Key(job.order) \in Keys
  BY <1>2, SlotKinds, KeyType, Consts DEF TableInv
<1>4. slots[job.slot].rid # None
  BY <1>2 DEF TableInv, HalfWritten
<1> QED
  BY <1>2, <1>3, <1>4, SaveAt DEF TableInv

LEMMA OrderSaves ==
  ASSUME TableInv, NEW o \in Orders, NEW kind \in Kinds \ {"trade"}, OnOrder(o, kind, StatusTold(o, kind)),
         WithKey(Key(o)) # {}
  PROVE  \E s \in Slots :
           /\ slots[s].key = Key(o) /\ OnlySlot(s)
           /\ slots'[s].rid = slots[s].rid /\ slots'[s].sys = slots[s].sys /\ slots'[s].key = Key(o)
           /\ slots'[s].status = StatusTold(o, kind)
           /\ SavedAt(Key(o), slots[s].rid, StatusTold(o, kind)) /\ SavedTyped'
<1>1. StatusTold(o, kind) \in LiveStatus \cup EndedStatus
  BY OnOrderStep
<1>2. PICK s \in WithKey(Key(o)) :
              /\ slots' \in [Slots -> SlotType] /\ \A t \in Slots : t # s => slots'[t] = slots[t]
              /\ slots'[s].rid = slots[s].rid /\ slots'[s].sys = slots[s].sys /\ slots'[s].key = Key(o)
              /\ slots'[s].status = StatusTold(o, kind) /\ Save(slots'[s])
  BY OnOrderStep
<1>3. s \in Slots /\ slots[s].key = Key(o)
  BY DEF WithKey
<1>4. Key(o) \in Keys /\ Key(o) # None
  BY KeyType DEF TableInv
<1>5. slots[s].rid # None
  BY <1>3, <1>4, SlotFacts
<1>6. PICK r : r = slots'[s]
  OBVIOUS
<1>7. /\ r \in SlotType /\ r.rid = slots[s].rid /\ r.key = Key(o) /\ r.status = StatusTold(o, kind) /\ Save(r)
      /\ r.status # "raw"
  BY <1>1, <1>2, <1>3, <1>6 DEF LiveStatus, EndedStatus
<1>8. SavedAt(Key(o), slots[s].rid, StatusTold(o, kind)) /\ SavedTyped'
  BY <1>4, <1>5, <1>7, SaveAt DEF TableInv
<1> QED
  BY <1>2, <1>3, <1>8 DEF OnlySlot

LEMMA CallKeySaves ==
  ASSUME TableInv, CallbackKey
  PROVE  SavedAt(cb.key, slots[cb.slot].rid, CallStatus) /\ SavedTyped'
<1>1. PICK r : r = slots'[cb.slot]
  OBVIOUS
<1>2. /\ r \in SlotType /\ r.rid = slots[cb.slot].rid /\ r.key = cb.key /\ r.status = CallStatus /\ Save(r)
      /\ cb.stage = "key" /\ cb.key \in Keys /\ CallStatus \in LiveStatus \cup EndedStatus
  BY <1>1, CallKeyStep
<1>3. r.status # "raw"
  BY <1>2 DEF LiveStatus, EndedStatus
<1>4. slots[cb.slot].rid # None
  BY <1>2 DEF TableInv, HalfWritten
<1> QED
  BY <1>2, <1>3, <1>4, SaveAt DEF TableInv

LEMMA CallSysSaves ==
  ASSUME TableInv, CallbackSys, WithKey(cb.key) # {}
  PROVE  \E s \in Slots :
           /\ slots[s].key = cb.key /\ OnlySlot(s) /\ cb.key \in Keys
           /\ slots'[s].rid = slots[s].rid /\ slots'[s].key = cb.key /\ slots'[s].status = slots[s].status
           /\ slots'[s].sys = cb.order
           /\ SavedAt(cb.key, slots[s].rid, slots[s].status) /\ SavedTyped'
<1>1. PICK s \in WithKey(cb.key) :
                /\ slots' \in [Slots -> SlotType] /\ \A t \in Slots : t # s => slots'[t] = slots[t]
                /\ slots'[s].rid = slots[s].rid /\ slots'[s].key = cb.key /\ slots'[s].status = slots[s].status
                /\ slots'[s].sys = cb.order /\ Save(slots'[s])
  BY CallSysStep
<1>2. s \in Slots /\ slots[s].key = cb.key
  BY DEF WithKey
<1>3. cb.key \in Keys /\ cb.key # None
  <2>1. cb.stage = "sys"
    BY CallSysStep
  <2>2. cb # NoCall /\ cb.order \in Orders
    BY <2>1, SlotKinds
  <2>3. cb.key = IF cb.kind = "trade" THEN TradeKey(cb.order) ELSE Key(cb.order)
    BY <2>2 DEF TableInv, CallInPlace, TradeKey
  <2>4. TradeKey(cb.order) \in Keys /\ Key(cb.order) \in Keys
    BY <2>2, Typed, KeyType DEF TableInv, TradeKey, Keys
  <2> QED
    BY <2>3, <2>4, Consts
<1>4. slots[s].rid # None /\ slots[s].status # "raw"
  BY <1>2, <1>3, SlotFacts
<1>5. PICK r : r = slots'[s]
  OBVIOUS
<1>6. /\ r \in SlotType /\ r.rid = slots[s].rid /\ r.key = cb.key /\ r.status = slots[s].status /\ Save(r)
  BY <1>1, <1>2, <1>5
<1>7. SavedAt(cb.key, slots[s].rid, slots[s].status) /\ SavedTyped'
  BY <1>3, <1>4, <1>6, SaveAt DEF TableInv
<1> QED
  BY <1>1, <1>2, <1>3, <1>7 DEF OnlySlot

LEMMA StepKinds ==
  ASSUME [TableNext]_tableVars
  PROVE  \/ \E o \in Own : InsertOrder(o)
         \/ LocateSlot \/ RecordRid \/ RecordKey \/ Send
         \/ \E o \in Orders, kind \in Kinds \ {"trade"} : OnOrder(o, kind, StatusTold(o, kind))
         \/ \E o \in Orders : OnRtnTrade(o)
         \/ CallbackRid \/ CallbackKey \/ CallbackSys \/ Deliver
         \/ \E o \in Foreign : ForeignOrder(o)
         \/ \E o \in Orders, how \in EndedStatus : OrderEnds(o, how)
         \/ Crash \/ Login
         \/ \E k \in Keys : RestoreKey(k)
         \/ RestoreRecord
         \/ UNCHANGED tableVars
<1>1. ASSUME NEW o \in Orders, OnRtnOrder(o) \/ OnQueriedOrder(o)
      PROVE  \E kind \in Kinds \ {"trade"} : OnOrder(o, kind, StatusTold(o, kind))
  <2>1. CASE OnRtnOrder(o)
    <3>1. PICK kind \in {"live"} \cup EndedStatus : OnOrder(o, kind, kind)
      BY <2>1 DEF OnRtnOrder
    <3>2. kind \in Kinds \ {"trade"} /\ StatusTold(o, kind) = kind
      BY DEF Kinds, EndedStatus, StatusTold
    <3> QED
      BY <3>1, <3>2
  <2>2. CASE OnQueriedOrder(o)
    <3>1. "query" \in Kinds \ {"trade"} /\ StatusTold(o, "query") = sent[o].state
      BY DEF Kinds, StatusTold
    <3> QED
      BY <2>2, <3>1 DEF OnQueriedOrder
  <2> QED
    BY <1>1, <2>1, <2>2
<1>2. ASSUME NEW k \in Keys, RestoreKey(k) \/ RestoreFails(k) PROVE Crash \/ RestoreKey(k)
  BY <1>2 DEF RestoreFails
<1> QED
  BY <1>1, <1>2 DEF TableNext, CallbackGoesOn

LEMMA TypesNext ==
  ASSUME TableInv, [TableNext]_tableVars PROVE TableTypeOK'
<1> DEFINE T == /\ slots' \in [Slots -> SlotType] /\ SavedTyped' /\ up' \in BOOLEAN /\ session' \in Sessions
                /\ toRestore' \subseteq DOMAIN saved' /\ job' \in JobType /\ cb' \in CallType
                /\ sent' \in [Orders -> SentType] /\ reports' \subseteq [order: Orders, kind: Kinds]
                /\ strays' \subseteq Orders /\ restoring' \in RestoreType
<1>0. SUFFICES T
  BY DEF TableTypeOK, SavedTyped, SlotType, JobType, CallType, SentType, RestoreType
<1>1. /\ slots \in [Slots -> SlotType] /\ SavedTyped /\ up \in BOOLEAN /\ session \in Sessions
      /\ toRestore \subseteq DOMAIN saved /\ job \in JobType /\ cb \in CallType
      /\ sent \in [Orders -> SentType] /\ reports \subseteq [order: Orders, kind: Kinds]
      /\ strays \subseteq Orders /\ restoring \in RestoreType /\ NoRestore \in RestoreType
  BY Typed, SizesAssumption DEF TableInv, TableTypeOK, SavedTyped, NoRestore, RestoreType
<1>2. UNCHANGED saved => SavedTyped'
  BY SavedSame DEF TableInv
<1>3. \A k, rid, status : SavedAt(k, rid, status) => DOMAIN saved \subseteq DOMAIN saved'
  BY DEF SavedAt
<1>4. ASSUME NEW o \in Own, InsertOrder(o) PROVE T
  BY <1>1, <1>2, <1>4, InsertStep
<1>5. CASE RecordRid
  BY <1>1, <1>2, <1>5, RidStep
<1>6. CASE RecordKey
  BY <1>1, <1>3, <1>6, KeyStep, KeySaves
<1>7. CASE Send
  <2>1. [order |-> job.order, kind |-> "live"] \in [order: Orders, kind: Kinds]
    BY <1>7, SendStep, Consts DEF Kinds
  <2> QED
    BY <1>1, <1>2, <1>7, <2>1, SendStep
<1>8. ASSUME NEW o \in Orders, NEW kind \in Kinds \ {"trade"}, OnOrder(o, kind, StatusTold(o, kind)) PROVE T
  <2>1. /\ Arrived(o, kind) /\ UNCHANGED <<up, session, toRestore, restoring, job, sent>> /\ cb' \in CallType /\ strays' \subseteq Orders
    BY <1>8, OnOrderStep
  <2>2. reports' \subseteq [order: Orders, kind: Kinds]
    BY <2>1, ArrivedStep
  <2>3. CASE WithKey(Key(o)) # {}
    <3>1. PICK s \in Slots : OnlySlot(s) /\ SavedAt(Key(o), slots[s].rid, StatusTold(o, kind)) /\ SavedTyped'
      BY <1>8, <2>3, OrderSaves
    <3> QED
      BY <1>1, <1>3, <2>1, <2>2, <3>1 DEF OnlySlot
  <2>4. CASE WithKey(Key(o)) = {}
    BY <1>1, <1>2, <1>8, <2>1, <2>2, <2>4, OnOrderStep
  <2> QED
    BY <2>3, <2>4
<1>9. ASSUME NEW o \in Orders, OnRtnTrade(o) PROVE T
  <2>1. reports' \subseteq [order: Orders, kind: Kinds]
    BY <1>9, OnTradeStep, ArrivedStep DEF Kinds
  <2> QED
    BY <1>1, <1>2, <1>9, <2>1, OnTradeStep
<1>10. CASE CallbackRid
  BY <1>1, <1>2, <1>10, CallRidStep
<1>11. CASE CallbackKey
  BY <1>1, <1>3, <1>11, CallKeyStep, CallKeySaves
<1>12. CASE CallbackSys
  <2>1. CASE WithKey(cb.key) # {}
    <3>1. PICK s \in Slots : OnlySlot(s) /\ SavedAt(cb.key, slots[s].rid, slots[s].status) /\ SavedTyped'
      BY <1>12, <2>1, CallSysSaves
    <3> QED
      BY <1>1, <1>3, <1>12, <3>1, CallSysStep DEF OnlySlot
  <2>2. CASE WithKey(cb.key) = {}
    BY <1>1, <1>2, <1>12, <2>2, CallSysStep
  <2> QED
    BY <2>1, <2>2
<1>13. CASE Deliver
  BY <1>1, <1>2, <1>13, DeliverStep
<1>14. ASSUME NEW o \in Foreign, ForeignOrder(o) PROVE T
  BY <1>1, <1>2, <1>14, ForeignStep
<1>15. ASSUME NEW o \in Orders, NEW how \in EndedStatus, OrderEnds(o, how) PROVE T
  BY <1>1, <1>2, <1>15, EndStep
<1>16. CASE Crash
  BY <1>1, <1>2, <1>16, CrashStep
<1>17. CASE Login
  BY <1>1, <1>2, <1>17, LoginStep
<1>18. ASSUME NEW k \in Keys, RestoreKey(k) PROVE T
  BY <1>1, <1>2, <1>18, RestoreStep
<1>19. CASE UNCHANGED tableVars
  BY <1>1, <1>2, <1>19 DEF tableVars
<1>31. CASE LocateSlot
  BY <1>1, <1>2, <1>31, LocateStep
<1>32. CASE RestoreRecord
  BY <1>1, <1>2, <1>32, RestoreRecordStep
<1> QED
  BY <1>4, <1>5, <1>6, <1>7, <1>8, <1>9, <1>10, <1>11, <1>12, <1>13, <1>14, <1>15, <1>16, <1>17, <1>18, <1>19, <1>31, <1>32, StepKinds

-----------------------------------------------------------------------------
(* The two threads and the callbacks are where JobInPlace and CallInPlace say. *)

LEMMA HasSame == ASSUME UNCHANGED reports PROVE \A x, k : Has(x, k)' <=> Has(x, k)
BY DEF Has

LEMMA StatesDiffer == /\ "none" \notin AtExchange /\ "live" \in AtExchange /\ EndedStatus \subseteq AtExchange
                      /\ "live" \notin EndedStatus /\ "rejected" \notin AtExchange /\ "none" \notin EndedStatus
                      /\ "query" \notin EndedStatus /\ "trade" \notin EndedStatus
                      /\ EndedStatus \cap LiveStatus = {} /\ "raw" \notin LiveStatus \cup EndedStatus
BY DEF AtExchange, EndedStatus, LiveStatus

LEMMA SendHas ==
  ASSUME TableInv, Send
  PROVE  /\ \A x, k : Has(x, k)' => Has(x, k) \/ (x = job.order /\ k = "live" /\ sent'[job.order].state = "live")
         /\ \A x, k : Has(x, k) => Has(x, k)'
         /\ sent[job.order].state = "none" /\ job.order \in Orders
         /\ \A k \in Kinds : ~Has(job.order, k)
<1>1. /\ job.stage = "send" /\ job.order \in Own
      /\ \/ sent'[job.order].state = "live" /\ reports' = reports \cup {[order |-> job.order, kind |-> "live"]}
         \/ sent'[job.order].state = "rejected" /\ reports' = reports
  BY SendStep
<1>2. \A x, k : Has(x, k)' => Has(x, k) \/ (x = job.order /\ k = "live" /\ sent'[job.order].state = "live")
  BY <1>1, HasIs DEF Has
<1>3. \A x, k : Has(x, k) => Has(x, k)'
  BY <1>1 DEF Has
<1>4. job # NoJob
  BY <1>1, SlotKinds
<1>5. sent[job.order].state = "none" /\ job.order \in Orders
  BY <1>1, <1>4, Consts DEF TableInv, JobInPlace
<1>6. \A k \in Kinds : ~Has(job.order, k)
  BY <1>5, StatesDiffer DEF TableInv, ReportsOK
<1> QED
  BY <1>2, <1>3, <1>5, <1>6

LEMMA JobPlaceNext == ASSUME TableInv, [TableNext]_tableVars PROVE JobInPlace'
<1> SUFFICES ASSUME job' # NoJob
    PROVE  /\ job'.order \in Own /\ job'.stage # "idle" /\ sent'[job'.order].state = "none" /\ sent'[job'.order].session >= 1
           /\ job'.stage \in {"rid", "key"} => job'.slot \in Slots
  BY DEF JobInPlace
<1> DEFINE T == /\ job'.order \in Own /\ job'.stage # "idle" /\ sent'[job'.order].state = "none" /\ sent'[job'.order].session >= 1
                /\ job'.stage \in {"rid", "key"} => job'.slot \in Slots
<1>1. job # NoJob => /\ job.order \in Own /\ job.stage # "idle" /\ sent[job.order].state = "none" /\ sent[job.order].session >= 1
                     /\ job.stage \in {"rid", "key"} => job.slot \in Slots
  BY DEF TableInv, JobInPlace
<1>2. \A o \in Own : o \in Orders
  BY Consts
<1>3. Own \cap Foreign = {} /\ Foreign \subseteq Orders
  BY OrdersAssumption, Consts
<1>4. job.stage = "idle" => job = NoJob
  BY <1>1
<1>5. CASE UNCHANGED <<job, sent>>
  BY <1>1, <1>5
<1>6. ASSUME NEW o \in Own, InsertOrder(o) PROVE T
  BY <1>6, InsertStep DEF TableInv, Phases
<1>7. CASE RecordRid
  BY <1>1, <1>7, RidStep, SlotKinds
<1>8. CASE RecordKey
  BY <1>1, <1>8, KeyStep, SlotKinds
<1>9. CASE Send
  BY <1>9, SendStep
<1>10. ASSUME NEW o \in Orders, NEW kind \in Kinds \ {"trade"}, OnOrder(o, kind, StatusTold(o, kind)) PROVE T
  BY <1>5, <1>10, OnOrderStep
<1>11. ASSUME NEW o \in Orders, OnRtnTrade(o) PROVE T
  BY <1>5, <1>11, OnTradeStep
<1>12. CASE CallbackRid
  BY <1>5, <1>12, CallRidStep
<1>13. CASE CallbackKey
  BY <1>5, <1>13, CallKeyStep
<1>14. CASE CallbackSys
  BY <1>5, <1>14, CallSysStep
<1>15. CASE Deliver
  BY <1>5, <1>15, DeliverStep
<1>16. ASSUME NEW o \in Foreign, ForeignOrder(o) PROVE T
  BY <1>1, <1>2, <1>3, <1>16, ForeignStep
<1>17. ASSUME NEW o \in Orders, NEW how \in EndedStatus, OrderEnds(o, how) PROVE T
  BY <1>1, <1>2, <1>17, EndStep
<1>18. CASE Crash
  BY <1>18, CrashStep
<1>19. CASE Login
  BY <1>5, <1>19, LoginStep
<1>20. ASSUME NEW k \in Keys, RestoreKey(k) PROVE T
  BY <1>5, <1>20, RestoreStep
<1>21. CASE UNCHANGED tableVars
  BY <1>5, <1>21 DEF tableVars
<1>31. CASE LocateSlot
  BY <1>1, <1>31, LocateStep
<1>32. CASE RestoreRecord
  BY <1>5, <1>32, RestoreRecordStep
<1> QED
  BY <1>6, <1>7, <1>8, <1>9, <1>10, <1>11, <1>12, <1>13, <1>14, <1>15, <1>16, <1>17, <1>18, <1>19, <1>20, <1>21, <1>31, <1>32, StepKinds

(* What CallInPlace says of a call that goes on *)
Placed(c) ==
  /\ c.order \in Orders /\ c.stage # "idle" /\ sent[c.order].state \in AtExchange
  /\ c.key = IF c.kind = "trade" THEN TradeKey(c.order) ELSE Key(c.order)
  /\ c.stage \in {"rid", "key"} => c.slot \in Slots
  /\ c.kind = "query" => ~Has(c.order, "live") /\ c.stage # "deliver"
  /\ c.kind = "trade" \/ c.kind \in EndedStatus => sent[c.order].state \in EndedStatus

LEMMA PlacedKept ==
  ASSUME TableInv, cb # NoCall, UNCHANGED <<cb, session>>, sent'[cb.order].session = sent[cb.order].session,
         sent'[cb.order].state = sent[cb.order].state \/ sent'[cb.order].state \in EndedStatus,
         Has(cb.order, "live")' => Has(cb.order, "live")
  PROVE  CallInPlace'
<1>1. Placed(cb)
  BY DEF TableInv, CallInPlace, Placed, TradeKey
<1> QED
  BY <1>1, StatesDiffer DEF CallInPlace, Placed, TradeKey, Key

LEMMA CallPlaceNext == ASSUME TableInv, [TableNext]_tableVars PROVE CallInPlace'
<1>1. CASE cb' = NoCall
  BY <1>1 DEF CallInPlace
<1>2. cb # NoCall => Placed(cb)
  BY DEF TableInv, CallInPlace, Placed, TradeKey
<1>3. CASE UNCHANGED <<cb, session, sent>> /\ (Has(cb.order, "live")' => Has(cb.order, "live"))
  BY <1>1, <1>3, PlacedKept
<1>4. ASSUME NEW o \in Own, InsertOrder(o) PROVE CallInPlace'
  <2>1. /\ UNCHANGED <<cb, session, reports>> /\ sent[o] = NotSent
        /\ \A x \in Orders : x # o => sent'[x] = sent[x]
    BY <1>4, InsertStep
  <2>2. cb # NoCall => cb.order # o /\ cb.order \in Orders
    BY <1>2, <2>1, StatesDiffer DEF Placed, NotSent
  <2>3. Has(cb.order, "live")' => Has(cb.order, "live")
    BY <2>1, HasSame
  <2> QED
    BY <1>1, <2>1, <2>2, <2>3, PlacedKept
<1>5. CASE RecordRid
  BY <1>3, <1>5, RidStep, HasSame
<1>6. CASE RecordKey
  BY <1>3, <1>6, KeyStep, HasSame
<1>7. CASE Send
  <2>1. UNCHANGED <<cb, session>> /\ \A x \in Orders : x # job.order => sent'[x] = sent[x]
    BY <1>7, SendStep
  <2>2. cb # NoCall => cb.order # job.order /\ cb.order \in Orders
    BY <1>2, <1>7, SendHas, StatesDiffer DEF Placed
  <2>3. cb # NoCall /\ Has(cb.order, "live")' => Has(cb.order, "live")
    BY <1>7, <2>1, <2>2, SendHas
  <2> QED
    BY <1>1, <2>1, <2>2, <2>3, PlacedKept
<1>8. ASSUME NEW o \in Orders, NEW kind \in Kinds \ {"trade"}, OnOrder(o, kind, StatusTold(o, kind)) PROVE CallInPlace'
  <2>1. /\ Arrived(o, kind) /\ sent[o].state \in AtExchange /\ UNCHANGED <<session, sent>>
        /\ cb'.order = o /\ cb'.kind = kind /\ cb'.key = Key(o) /\ cb'.stage \in {"rid", "sys"}
    BY <1>8, OnOrderStep
  <2>2. cb'.stage = "rid" => cb'.slot \in Slots
    BY <1>8, <2>1, OnOrderStep
  <2>3. Has(o, kind) /\ \A x, k : Has(x, k)' => Has(x, k)
    BY <2>1, ArrivedStep
  <2>4. /\ kind = "query" => ~Has(o, "live")
        /\ kind \in EndedStatus => sent[o].state \in EndedStatus
    BY <2>3 DEF TableInv, ReportsOK
  <2>5. cb'.key = Key(o)'
    BY <2>1 DEF Key
  <2>6. kind = "query" => ~Has(o, "live")'
    BY <2>3, <2>4
  <2> QED
    BY <2>1, <2>2, <2>4, <2>5, <2>6 DEF CallInPlace
<1>9. ASSUME NEW o \in Orders, OnRtnTrade(o) PROVE CallInPlace'
  <2>1. /\ sent[o].state \in EndedStatus /\ UNCHANGED <<session, sent>>
        /\ cb'.order = o /\ cb'.kind = "trade" /\ cb'.key = TradeKey(o) /\ cb'.stage \in {"rid", "sys", "deliver"}
        /\ cb'.stage = "rid" => cb'.slot \in Slots
    BY <1>9, OnTradeStep
  <2> QED
    BY <2>1, StatesDiffer DEF CallInPlace, TradeKey
<1>10. ASSUME UNCHANGED <<session, sent, reports>>, cb # NoCall,
              cb'.order = cb.order, cb'.kind = cb.kind, cb'.key = cb.key, cb'.slot = cb.slot,
              cb'.stage # "idle", cb'.stage \in {"rid", "key"} => cb.slot \in Slots,
              cb'.stage = "deliver" => cb.kind # "query"
       PROVE CallInPlace'
  <2>1. Placed(cb) /\ (Has(cb.order, "live")' => Has(cb.order, "live"))
    BY <1>2, <1>10, HasSame
  <2> QED
    BY <1>10, <2>1 DEF Placed, CallInPlace, TradeKey, Key
<1>11. CASE CallbackRid
  BY <1>10, <1>11, CallRidStep, SlotKinds
<1>12. CASE CallbackKey
  BY <1>10, <1>12, CallKeyStep, SlotKinds
<1>13. CASE CallbackSys
  BY <1>1, <1>10, <1>13, CallSysStep, SlotKinds
<1>14. CASE Deliver
  BY <1>1, <1>14, DeliverStep
<1>15. ASSUME NEW o \in Foreign, ForeignOrder(o) PROVE CallInPlace'
  <2>1. /\ UNCHANGED <<cb, session>> /\ sent[o].state = "none"
        /\ \A x \in Orders : x # o => sent'[x] = sent[x]
        /\ \A x, k : Has(x, k)' <=> Has(x, k) \/ (up /\ x = o /\ k = "live")
    BY <1>15, ForeignStep
  <2>2. cb # NoCall => cb.order # o /\ cb.order \in Orders
    BY <1>2, <2>1, StatesDiffer DEF Placed
  <2> QED
    BY <1>1, <2>1, <2>2, PlacedKept
<1>16. ASSUME NEW o \in Orders, NEW how \in EndedStatus, OrderEnds(o, how) PROVE CallInPlace'
  <2>1. /\ UNCHANGED <<cb, session>> /\ sent'[o].state = how /\ sent'[o].session = sent[o].session
        /\ \A x \in Orders : x # o => sent'[x] = sent[x]
        /\ \A x, k : Has(x, k)' <=> Has(x, k) \/ (up /\ x = o /\ (k = how \/ (k = "trade" /\ how = "traded")))
    BY <1>16, EndStep
  <2>2. cb # NoCall => cb.order \in Orders
    BY <1>2 DEF Placed
  <2>3. Has(cb.order, "live")' => Has(cb.order, "live")
    BY <2>1, StatesDiffer
  <2> QED
    BY <1>1, <2>1, <2>2, <2>3, PlacedKept
<1>17. CASE Crash
  BY <1>1, <1>17, CrashStep
<1>18. CASE Login
  BY <1>1, <1>18, LoginStep
<1>19. ASSUME NEW k \in Keys, RestoreKey(k) PROVE CallInPlace'
  BY <1>3, <1>19, RestoreStep, HasSame
<1>20. CASE UNCHANGED tableVars
  BY <1>3, <1>20, HasSame DEF tableVars
<1>31. CASE LocateSlot
  BY <1>3, <1>31, LocateStep, HasSame
<1>32. CASE RestoreRecord
  BY <1>3, <1>32, RestoreRecordStep, HasSame
<1> QED
  BY <1>4, <1>5, <1>6, <1>7, <1>8, <1>9, <1>11, <1>12, <1>13, <1>14, <1>15, <1>16, <1>17, <1>18, <1>19, <1>20, <1>31, <1>32, StepKinds

-----------------------------------------------------------------------------
(* A call at work *)
LEMMA AtWork ==
  ASSUME TableInv, cb # NoCall
  PROVE  /\ cb.order \in Orders /\ cb.order # None /\ sent[cb.order].state \in AtExchange
         /\ cb.key \in Keys /\ cb.key.order = cb.order /\ cb.key # None
         /\ cb.kind # "trade" => cb.key = Key(cb.order)
         /\ cb.kind = "trade" => cb.key = TradeKey(cb.order)
         /\ up /\ toRestore = {}
<1>1. Placed(cb)
  BY DEF TableInv, CallInPlace, Placed, TradeKey
<1>2. cb.order \in Orders /\ sent[cb.order].state \in AtExchange
      /\ (cb.kind # "trade" => cb.key = Key(cb.order)) /\ (cb.kind = "trade" => cb.key = TradeKey(cb.order))
  BY <1>1 DEF Placed
<1>3. up /\ toRestore = {}
  BY DEF TableInv, Phases
<1>4. TradeKey(cb.order) \in Keys /\ TradeKey(cb.order).order = cb.order
  BY <1>2, Typed DEF TableInv, TradeKey, Keys
<1>5. Key(cb.order) \in Keys /\ Key(cb.order).order = cb.order
  BY <1>2, KeyType DEF TableInv
<1> QED
  BY <1>2, <1>3, <1>4, <1>5, Consts

LEMMA JobAtWork ==
  ASSUME TableInv, job # NoJob
  PROVE  /\ job.order \in Own /\ job.order \in Orders /\ sent[job.order].state = "none"
         /\ sent[job.order].session >= 1 /\ up
         /\ job.order # cb.order /\ \A k \in Kinds : ~Has(job.order, k)
         /\ Key(job.order) \in Keys /\ Key(job.order).order = job.order /\ Key(job.order) # None
<1>1. job.order \in Own /\ sent[job.order].state = "none" /\ sent[job.order].session >= 1
  BY DEF TableInv, JobInPlace
<1>2. job.order \in Orders /\ job.order # None
  BY <1>1, Consts
<1>3. up
  BY DEF TableInv, Phases
<1>4. job.order # cb.order
  <2>1. CASE cb = NoCall
    BY <1>2, <2>1 DEF NoCall
  <2>2. CASE cb # NoCall
    BY <1>1, <2>2, AtWork, StatesDiffer
  <2> QED
    BY <2>1, <2>2
<1>5. \A k \in Kinds : ~Has(job.order, k)
  BY <1>1, <1>2, StatesDiffer DEF TableInv, ReportsOK
<1> QED
  BY <1>1, <1>2, <1>3, <1>4, <1>5, KeyType DEF TableInv

(* Of the exchange, in any step *)
LEMMA StateSteps ==
  ASSUME TableInv, [TableNext]_tableVars, NEW o \in Orders
  PROVE  /\ sent[o].state \in AtExchange => sent'[o].state \in AtExchange /\ sent'[o].session = sent[o].session
         /\ sent[o].state \in EndedStatus => sent'[o].state \in EndedStatus
         /\ Known(o) => Known(o)'
         /\ Known(o) => sent'[o].session = sent[o].session \/ o \in strays'
<1> DEFINE T == /\ sent[o].state \in AtExchange => sent'[o].state \in AtExchange /\ sent'[o].session = sent[o].session
                /\ sent[o].state \in EndedStatus => sent'[o].state \in EndedStatus
                /\ Known(o) => Known(o)'
                /\ Known(o) => sent'[o].session = sent[o].session \/ o \in strays'
<1>0. SUFFICES T
  OBVIOUS
<1>1. ASSUME sent'[o] = sent[o], job.order = o /\ job.stage = "send" => job' = job PROVE T
  BY <1>1 DEF Known
<1>2. ASSUME UNCHANGED <<sent, job>> PROVE T
  BY <1>1, <1>2
<1>3. ASSUME NEW x \in Own, InsertOrder(x) PROVE T
  <2>1. job = NoJob /\ sent[x] = NotSent /\ (o # x => sent'[o] = sent[o])
    BY <1>3, InsertStep
  <2>2. job.stage = "idle" /\ sent[x].state = "none"
    BY <2>1 DEF NoJob, NotSent
  <2>3. CASE o = x
    BY <2>2, <2>3, StatesDiffer DEF Known
  <2> QED
    BY <1>1, <2>1, <2>2, <2>3
<1>4. CASE RecordRid
  BY <1>1, <1>4, RidStep
<1>5. CASE RecordKey
  BY <1>1, <1>5, KeyStep
<1>6. CASE Send
  <2>1. /\ \A x \in Orders : x # job.order => sent'[x] = sent[x]
        /\ sent'[job.order].session = sent[job.order].session \/ job.order \in strays'
        /\ sent'[job.order].state \in {"live", "rejected"} /\ sent[job.order].state = "none"
    BY <1>6, SendStep, SendHas
  <2>2. CASE o = job.order
    BY <2>1, <2>2, StatesDiffer DEF Known
  <2>3. CASE o # job.order
    BY <1>1, <2>1, <2>3
  <2> QED
    BY <2>2, <2>3
<1>7. ASSUME NEW x \in Orders, NEW kind \in Kinds \ {"trade"}, OnOrder(x, kind, StatusTold(x, kind)) PROVE T
  BY <1>2, <1>7, OnOrderStep
<1>8. ASSUME NEW x \in Orders, OnRtnTrade(x) PROVE T
  BY <1>2, <1>8, OnTradeStep
<1>9. CASE CallbackRid
  BY <1>2, <1>9, CallRidStep
<1>10. CASE CallbackKey
  BY <1>2, <1>10, CallKeyStep
<1>11. CASE CallbackSys
  BY <1>2, <1>11, CallSysStep
<1>12. CASE Deliver
  BY <1>2, <1>12, DeliverStep
<1>13. ASSUME NEW x \in Foreign, ForeignOrder(x) PROVE T
  <2>1. /\ x \in Orders /\ UNCHANGED job /\ sent'[x].state = "live" /\ sent'[x].session = sent[x].session
        /\ sent[x].state = "none" /\ (o # x => sent'[o] = sent[o])
    BY <1>13, ForeignStep, Consts
  <2>2. CASE o = x
    BY <2>1, <2>2, StatesDiffer DEF Known
  <2> QED
    BY <1>1, <2>1, <2>2
<1>14. ASSUME NEW x \in Orders, NEW how \in EndedStatus, OrderEnds(x, how) PROVE T
  <2>1. /\ UNCHANGED job /\ sent'[x].state = how /\ sent'[x].session = sent[x].session
        /\ (o # x => sent'[o] = sent[o])
    BY <1>14, EndStep
  <2>2. CASE o = x
    BY <2>1, <2>2, StatesDiffer DEF Known
  <2> QED
    BY <1>1, <2>1, <2>2
<1>15. CASE Crash
  <2>1. /\ \A x \in Orders : x # job.order => sent'[x] = sent[x]
        /\ \A x \in Orders : sent'[x].session = sent[x].session
        /\ job.order \in Orders => sent'[job.order].state = "rejected"
    BY <1>15, CrashStep
  <2>2. CASE o = job.order
    <3>1. job # NoJob
      BY <2>2, Consts DEF NoJob
    <3>2. sent[o].state = "none"
      BY <2>2, <3>1, JobAtWork
    <3> QED
      BY <2>1, <2>2, <3>2, StatesDiffer DEF Known
  <2>3. CASE o # job.order
    BY <1>1, <2>1, <2>3
  <2> QED
    BY <2>2, <2>3
<1>16. CASE Login
  BY <1>2, <1>16, LoginStep
<1>17. ASSUME NEW k \in Keys, RestoreKey(k) PROVE T
  BY <1>2, <1>17, RestoreStep
<1>18. CASE UNCHANGED tableVars
  BY <1>2, <1>18 DEF tableVars
<1>31. CASE LocateSlot
  BY <1>1, <1>31, LocateStep
<1>32. CASE RestoreRecord
  BY <1>2, <1>32, RestoreRecordStep
<1> QED
  BY <1>3, <1>4, <1>5, <1>6, <1>7, <1>8, <1>9, <1>10, <1>11, <1>12, <1>13, <1>14, <1>15, <1>16, <1>17, <1>18, <1>31, <1>32, StepKinds

(* What the exchange can still send *)
LEMMA HasSteps ==
  ASSUME TableInv, [TableNext]_tableVars, NEW o \in Orders, NEW kind \in Kinds \ {"query"}, Has(o, kind)', ~Has(o, kind)
  PROVE  /\ sent[o].state \in {"none", "live"} /\ UNCHANGED <<slots, saved, up, session, toRestore, restoring, cb>>
         /\ strays' \subseteq strays \cup {o}
         /\ kind = "live" => sent[o].state = "none"
         /\ kind # "live" => sent[o].state = "live" /\ UNCHANGED job
         /\ o # job.order => sent[o].state = "live" \/ o \in Foreign
         /\ sent'[o].state \in AtExchange /\ (kind = "trade" => sent'[o].state = "traded")
         /\ kind \in EndedStatus => sent'[o].state = kind
<1> DEFINE T == /\ sent[o].state \in {"none", "live"} /\ UNCHANGED <<slots, saved, up, session, toRestore, restoring, cb>>
                /\ strays' \subseteq strays \cup {o}
                /\ kind = "live" => sent[o].state = "none"
                /\ kind # "live" => sent[o].state = "live" /\ UNCHANGED job
                /\ o # job.order => sent[o].state = "live" \/ o \in Foreign
                /\ sent'[o].state \in AtExchange /\ (kind = "trade" => sent'[o].state = "traded")
                /\ kind \in EndedStatus => sent'[o].state = kind
<1>0. SUFFICES T
  OBVIOUS
<1>1. ~UNCHANGED reports
  BY HasSame
<1>2. ASSUME NEW x \in Orders, NEW k \in Kinds, Arrived(x, k) PROVE FALSE
  BY <1>2, ArrivedStep
<1>3. ASSUME NEW x \in Own, InsertOrder(x) PROVE T
  BY <1>1, <1>3, InsertStep
<1>4. ~RecordRid /\ ~RecordKey /\ ~CallbackRid /\ ~CallbackKey /\ ~CallbackSys /\ ~Deliver
  BY <1>1, RidStep, KeyStep, CallRidStep, CallKeyStep, CallSysStep, DeliverStep
<1>6. CASE Send
  <2>1. /\ o = job.order /\ kind = "live" /\ sent'[job.order].state = "live" /\ sent[job.order].state = "none"
        /\ UNCHANGED <<slots, saved, up, session, toRestore, restoring, cb>> /\ strays' \subseteq strays \cup {o}
    BY <1>6, SendStep, SendHas
  <2> QED
    BY <2>1, StatesDiffer
<1>7. ASSUME NEW x \in Orders, NEW k \in Kinds \ {"trade"}, OnOrder(x, k, StatusTold(x, k)) PROVE T
  BY <1>2, <1>7, OnOrderStep
<1>8. ASSUME NEW x \in Orders, OnRtnTrade(x) PROVE T
  BY <1>2, <1>8, OnTradeStep DEF Kinds
<1>13. ASSUME NEW x \in Foreign, ForeignOrder(x) PROVE T
  <2>1. /\ UNCHANGED <<slots, saved, up, session, toRestore, restoring, job, cb, strays>>
        /\ o = x /\ kind = "live" /\ sent[x].state = "none" /\ sent'[x].state = "live"
    BY <1>13, ForeignStep
  <2> QED
    BY <2>1, StatesDiffer
<1>14. ASSUME NEW x \in Orders, NEW how \in EndedStatus, OrderEnds(x, how) PROVE T
  <2>1. /\ UNCHANGED <<slots, saved, up, session, toRestore, restoring, job, cb, strays>>
        /\ o = x /\ (kind = how \/ (kind = "trade" /\ how = "traded")) /\ sent[x].state = "live" /\ sent'[x].state = how
    BY <1>14, EndStep
  <2> QED
    BY <2>1, StatesDiffer
<1>15. CASE Crash
  BY <1>15, CrashStep DEF Has
<1>16. CASE Login
  BY <1>16, LoginStep
<1>17. ASSUME NEW k \in Keys, RestoreKey(k) PROVE T
  BY <1>1, <1>17, RestoreStep
<1>18. ~UNCHANGED tableVars
  BY <1>1 DEF tableVars
<1>31. CASE LocateSlot
  BY <1>1, <1>31, LocateStep
<1>32. CASE RestoreRecord
  BY <1>1, <1>32, RestoreRecordStep
<1> QED
  BY <1>3, <1>4, <1>6, <1>7, <1>8, <1>13, <1>14, <1>15, <1>16, <1>17, <1>18, <1>31, <1>32, StepKinds

-----------------------------------------------------------------------------
(* Reports under way belong to orders the exchange knows. *)

LEMMA NoQueryNew ==
  ASSUME TableInv, [TableNext]_tableVars, ~Login, NEW o \in Orders, Has(o, "query")' PROVE Has(o, "query")
<1>0. SUFFICES ASSUME ~Has(o, "query") PROVE FALSE
  OBVIOUS
<1>1. ~UNCHANGED reports
  BY <1>0, HasSame
<1>2. ASSUME NEW x \in Orders, NEW k \in Kinds, Arrived(x, k) PROVE FALSE
  BY <1>0, <1>2, ArrivedStep
<1>3. ASSUME NEW x \in Own, InsertOrder(x) PROVE FALSE
  BY <1>1, <1>3, InsertStep
<1>4. ~RecordRid /\ ~RecordKey /\ ~CallbackRid /\ ~CallbackKey /\ ~CallbackSys /\ ~Deliver
  BY <1>1, RidStep, KeyStep, CallRidStep, CallKeyStep, CallSysStep, DeliverStep
<1>5. ~Send
  BY <1>0, SendHas
<1>6. ASSUME NEW x \in Orders, NEW k \in Kinds \ {"trade"}, OnOrder(x, k, StatusTold(x, k)) PROVE FALSE
  BY <1>2, <1>6, OnOrderStep
<1>7. ASSUME NEW x \in Orders, OnRtnTrade(x) PROVE FALSE
  BY <1>2, <1>7, OnTradeStep DEF Kinds
<1>8. ASSUME NEW x \in Foreign, ForeignOrder(x) PROVE FALSE
  BY <1>0, <1>8, ForeignStep
<1>9. ASSUME NEW x \in Orders, NEW how \in EndedStatus, OrderEnds(x, how) PROVE FALSE
  BY <1>0, <1>9, EndStep, StatesDiffer
<1>10. ~Crash
  BY CrashStep DEF Has
<1>11. ASSUME NEW k \in Keys, RestoreKey(k) PROVE FALSE
  BY <1>1, <1>11, RestoreStep
<1>12. ~UNCHANGED tableVars
  BY <1>1 DEF tableVars
<1>31. CASE LocateSlot
  BY <1>1, <1>31, LocateStep
<1>32. CASE RestoreRecord
  BY <1>1, <1>32, RestoreRecordStep
<1> QED
  BY <1>3, <1>4, <1>5, <1>6, <1>7, <1>8, <1>9, <1>10, <1>11, <1>12, <1>31, <1>32, StepKinds

LEMMA HasLogin == ASSUME TableInv, Login
                  PROVE  /\ \A o \in Orders, kind \in Kinds \ {"query"} : ~Has(o, kind)'
                         /\ \A o \in Orders : Has(o, "query")' => sent'[o].state \in AtExchange
BY LoginStep

LEMMA RestoreGrows == ASSUME TableInv, [TableNext]_tableVars, ~Login PROVE toRestore' \subseteq toRestore
<1>1. ASSUME NEW x \in Own, InsertOrder(x) PROVE toRestore' \subseteq toRestore
  BY <1>1, InsertStep
<1>2. ASSUME NEW x \in Orders, NEW k \in Kinds \ {"trade"}, OnOrder(x, k, StatusTold(x, k)) PROVE toRestore' \subseteq toRestore
  BY <1>2, OnOrderStep
<1>3. ASSUME NEW x \in Orders, OnRtnTrade(x) PROVE toRestore' \subseteq toRestore
  BY <1>3, OnTradeStep
<1>4. ASSUME NEW x \in Foreign, ForeignOrder(x) PROVE toRestore' \subseteq toRestore
  BY <1>4, ForeignStep
<1>5. ASSUME NEW x \in Orders, NEW how \in EndedStatus, OrderEnds(x, how) PROVE toRestore' \subseteq toRestore
  BY <1>5, EndStep
<1>6. ASSUME NEW k \in Keys, RestoreKey(k) PROVE toRestore' \subseteq toRestore
  BY <1>6, RestoreStep
<1>7. CASE RecordRid \/ RecordKey \/ Send
  BY <1>7, RidStep, KeyStep, SendStep
<1>8. CASE CallbackRid \/ CallbackKey \/ CallbackSys \/ Deliver
  BY <1>8, CallRidStep, CallKeyStep, CallSysStep, DeliverStep
<1>9. CASE Crash
  BY <1>9, CrashStep
<1>10. CASE UNCHANGED tableVars
  BY <1>10 DEF tableVars
<1>31. CASE LocateSlot
  BY <1>31, LocateStep
<1>32. CASE RestoreRecord
  BY <1>32, RestoreRecordStep
<1> QED
  BY <1>1, <1>2, <1>3, <1>4, <1>5, <1>6, <1>7, <1>8, <1>9, <1>10, <1>31, <1>32, StepKinds

LEMMA EndedStay ==
  ASSUME TableInv, [TableNext]_tableVars, NEW o \in Orders, sent[o].state \in EndedStatus
  PROVE  sent'[o].state = sent[o].state
<1> DEFINE T == sent'[o].state = sent[o].state
<1>0. sent[o].state \notin {"none", "live"}
  BY StatesDiffer
<1>1. ASSUME NEW x \in Own, InsertOrder(x) PROVE T
  BY <1>0, <1>1, InsertStep DEF NotSent
<1>2. ASSUME NEW x \in Orders, NEW k \in Kinds \ {"trade"}, OnOrder(x, k, StatusTold(x, k)) PROVE T
  BY <1>2, OnOrderStep
<1>3. ASSUME NEW x \in Orders, OnRtnTrade(x) PROVE T
  BY <1>3, OnTradeStep
<1>4. ASSUME NEW x \in Foreign, ForeignOrder(x) PROVE T
  BY <1>0, <1>4, ForeignStep
<1>5. ASSUME NEW x \in Orders, NEW how \in EndedStatus, OrderEnds(x, how) PROVE T
  BY <1>0, <1>5, EndStep
<1>6. ASSUME NEW k \in Keys, RestoreKey(k) PROVE T
  BY <1>6, RestoreStep
<1>7. CASE RecordRid \/ RecordKey
  BY <1>7, RidStep, KeyStep
<1>8. CASE Send
  BY <1>0, <1>8, SendStep, SendHas
<1>9. CASE CallbackRid \/ CallbackKey \/ CallbackSys \/ Deliver
  BY <1>9, CallRidStep, CallKeyStep, CallSysStep, DeliverStep
<1>10. CASE Crash
  <2>1. \A x \in Orders : x # job.order => sent'[x] = sent[x]
    BY <1>10, CrashStep
  <2>2. o # job.order
    BY <1>0, JobAtWork, Consts DEF NoJob
  <2> QED
    BY <2>1, <2>2
<1>11. CASE Login
  BY <1>11, LoginStep
<1>12. CASE UNCHANGED tableVars
  BY <1>12 DEF tableVars
<1>31. CASE LocateSlot
  BY <1>31, LocateStep
<1>32. CASE RestoreRecord
  BY <1>32, RestoreRecordStep
<1> QED
  BY <1>1, <1>2, <1>3, <1>4, <1>5, <1>6, <1>7, <1>8, <1>9, <1>10, <1>11, <1>12, <1>31, <1>32, StepKinds

LEMMA ReportsNext == ASSUME TableInv, [TableNext]_tableVars PROVE ReportsOK'
<1> SUFFICES ASSUME NEW o \in Orders
    PROVE  /\ \A kind \in Kinds : Has(o, kind)' => /\ sent'[o].state \in AtExchange
                                                   /\ kind \in EndedStatus => sent'[o].state = kind
                                                   /\ kind = "trade" => sent'[o].state \in EndedStatus
           /\ Has(o, "query")' => ~Has(o, "live")'
  BY DEF ReportsOK
<1>0. "live" \in Kinds \ {"query"} /\ "query" \in Kinds /\ "traded" \in EndedStatus
  BY DEF Kinds, EndedStatus
<1>1. CASE Login
  BY <1>0, <1>1, HasLogin, StatesDiffer
<1>2. ASSUME ~Login, NEW kind \in Kinds, Has(o, kind)'
      PROVE  /\ sent'[o].state \in AtExchange
             /\ kind \in EndedStatus => sent'[o].state = kind
             /\ kind = "trade" => sent'[o].state \in EndedStatus
  <2>1. CASE Has(o, kind)
    <3>1. /\ sent[o].state \in AtExchange
          /\ kind \in EndedStatus => sent[o].state = kind
          /\ kind = "trade" => sent[o].state \in EndedStatus
      BY <2>1 DEF TableInv, ReportsOK
    <3>2. sent'[o].state \in AtExchange /\ (sent[o].state \in EndedStatus => sent'[o].state \in EndedStatus)
      BY <3>1, StateSteps
    <3>3. sent[o].state \in EndedStatus => sent'[o].state = sent[o].state
      BY <1>2, EndedStay
    <3> QED
      BY <3>1, <3>2, <3>3
  <2>2. CASE ~Has(o, kind)
    <3>1. kind # "query"
      BY <1>2, <2>2, NoQueryNew
    <3> QED
      BY <1>0, <1>2, <2>2, <3>1, HasSteps
  <2> QED
    BY <2>1, <2>2
<1>3. ASSUME ~Login, Has(o, "query")', Has(o, "live")' PROVE FALSE
  <2>1. Has(o, "query") /\ ~Has(o, "live") /\ sent[o].state \in AtExchange
    BY <1>0, <1>3, NoQueryNew DEF TableInv, ReportsOK
  <2>2. sent[o].state = "none"
    BY <1>0, <1>3, <2>1, HasSteps
  <2> QED
    BY <2>1, <2>2, StatesDiffer
<1> QED
  BY <1>1, <1>2, <1>3

(* What a record says of its order stays true. *)
LEMMA EndKnownKept ==
  ASSUME TableInv, [TableNext]_tableVars, NEW o \in Orders, NEW status, EndKnown(o, status)
  PROVE  EndKnown(o, status)'
<1> SUFFICES ASSUME status \in EndedStatus
    PROVE  /\ sent'[o].state \in EndedStatus /\ ~Has(o, "live")'
           /\ toRestore' # {} => \A kind \in Kinds \ {"query"} : ~Has(o, kind)'
  BY DEF EndKnown
<1>0. "live" \in Kinds \ {"query"}
  BY DEF Kinds
<1>1. /\ sent[o].state \in EndedStatus /\ ~Has(o, "live")
      /\ toRestore # {} => \A kind \in Kinds \ {"query"} : ~Has(o, kind)
  BY DEF EndKnown
<1>2. sent'[o].state \in EndedStatus
  BY <1>1, StateSteps
<1>3. sent[o].state # "none" /\ sent[o].state # "live"
  BY <1>1, StatesDiffer
<1>4. \A kind \in Kinds \ {"query"} : Has(o, kind)' => Has(o, kind)
  BY <1>3, HasSteps
<1>5. ASSUME toRestore' # {}, NEW kind \in Kinds \ {"query"} PROVE ~Has(o, kind)'
  <2>1. CASE Login
    BY <2>1, HasLogin
  <2>2. CASE ~Login
    <3>1. toRestore # {}
      BY <1>5, <2>2, RestoreGrows
    <3> QED
      BY <1>1, <1>4, <3>1
  <2> QED
    BY <2>1, <2>2
<1> QED
  BY <1>0, <1>1, <1>2, <1>4, <1>5

-----------------------------------------------------------------------------
(* The steps that write the table *)
ReadBack(k, s) ==
  /\ UNCHANGED <<saved, up, session, job, cb, sent, reports, strays>>
  /\ k \in toRestore /\ k \in DOMAIN saved /\ toRestore' = toRestore \ {k}
  /\ CutKey(k) \in Keys /\ CutKey(k).order = k.order /\ CutKey(k).session = k.session
  /\ CutKey(k).whole <=> k.order \in ShortKeys
  /\ restoring # NoRestore /\ restoring' = NoRestore /\ Spare(s) /\ OnlySlot(s)
  /\ job.stage \in {"rid", "key"} /\ job.slot = s => {job.order, k.order} \subseteq strays
  /\ slots'[s].rid = saved[k].rid /\ slots'[s].key = CutKey(k) /\ slots'[s].status = saved[k].status
  /\ slots'[s].sys = slots[s].sys

LEMMA Writes ==
  ASSUME TableInv, [TableNext]_tableVars
  PROVE  \/ UNCHANGED <<slots, saved>>
         \/ RecordRid \/ RecordKey
         \/ \E o \in Orders, kind \in Kinds \ {"trade"} : OnOrder(o, kind, StatusTold(o, kind)) /\ WithKey(Key(o)) # {}
         \/ CallbackRid \/ CallbackKey
         \/ CallbackSys /\ WithKey(cb.key) # {}
         \/ Crash
         \/ \E k \in Keys, s \in Slots : ReadBack(k, s)
<1> DEFINE T == UNCHANGED <<slots, saved>>
<1>1. ASSUME NEW x \in Own, InsertOrder(x) PROVE T
  BY <1>1, InsertStep
<1>2. ASSUME NEW x \in Orders, NEW k \in Kinds \ {"trade"}, OnOrder(x, k, StatusTold(x, k)) PROVE WithKey(Key(x)) # {} \/ T
  BY <1>2, OnOrderStep
<1>3. ASSUME NEW x \in Orders, OnRtnTrade(x) PROVE T
  BY <1>3, OnTradeStep
<1>4. ASSUME NEW x \in Foreign, ForeignOrder(x) PROVE T
  BY <1>4, ForeignStep
<1>5. ASSUME NEW x \in Orders, NEW how \in EndedStatus, OrderEnds(x, how) PROVE T
  BY <1>5, EndStep
<1>6. ASSUME NEW k \in Keys, RestoreKey(k) PROVE T
  BY <1>6, RestoreStep
<1>10. CASE RestoreRecord
  <2>1. ReadBack(restoring.key, restoring.slot) /\ restoring.key \in Keys /\ restoring.slot \in Slots
    BY <1>10, RestoreRecordStep DEF ReadBack, OnlySlot
  <2> QED
    BY <2>1
<1>11. CASE LocateSlot
  BY <1>11, LocateStep
<1>7. CASE Send \/ Login \/ Deliver
  BY <1>7, SendStep, LoginStep, DeliverStep
<1>8. CASE CallbackSys
  BY <1>8, CallSysStep
<1>9. CASE UNCHANGED tableVars
  BY <1>9 DEF tableVars
<1> HIDE DEF T
<1> QED
  BY <1>1, <1>2, <1>3, <1>4, <1>5, <1>6, <1>7, <1>8, <1>9, <1>10, <1>11, StepKinds DEF T

Good(r) ==
  /\ r.key = None <=> r.status = "raw"
  /\ r.key # None => r.rid # None
  /\ r.key # None => Known(r.key.order) /\ EndKnown(r.key.order, r.status)
  /\ r.sys # None => r.key # None /\ sent[r.sys].state \in AtExchange
GoodSaved(k) == Known(k.order) /\ k.whole /\ EndKnown(k.order, saved[k].status)

LEMMA GoodStays ==
  ASSUME TableInv, [TableNext]_tableVars, NEW s \in Slots, slots'[s] = slots[s] PROVE Good(slots[s])'
<1>1. PICK r : r = slots[s]
  OBVIOUS
<1>2. /\ r.key = None <=> r.status = "raw"
      /\ r.key # None => r.rid # None /\ r.key.order \in Orders /\ Known(r.key.order) /\ EndKnown(r.key.order, r.status)
      /\ r.sys # None => r.sys \in Orders /\ r.key # None /\ sent[r.sys].state \in AtExchange
  BY <1>1, SlotFacts
<1>3. ASSUME r.key # None PROVE Known(r.key.order)' /\ EndKnown(r.key.order, r.status)'
  <2>1. PICK st : st = r.status
    OBVIOUS
  <2>2. PICK q \in Orders : q = r.key.order /\ Known(q) /\ EndKnown(q, st)
    BY <1>2, <1>3, <2>1
  <2>3. Known(q)' /\ EndKnown(q, st)'
    BY <2>2, StateSteps, EndKnownKept
  <2> QED
    BY <2>1, <2>2, <2>3
<1>4. ASSUME r.sys # None PROVE sent'[r.sys].state \in AtExchange
  <2>1. PICK q \in Orders : q = r.sys /\ sent[q].state \in AtExchange
    BY <1>2, <1>4
  <2>2. sent'[q].state \in AtExchange
    BY <2>1, StateSteps
  <2> QED
    BY <2>1, <2>2
<1>5. slots'[s] = r
  BY <1>1
<1> QED
  BY <1>2, <1>3, <1>4, <1>5 DEF Good

LEMMA GoodSavedStays ==
  ASSUME TableInv, [TableNext]_tableVars, NEW k \in DOMAIN saved, saved'[k] = saved[k] PROVE GoodSaved(k)'
<1>1. k \in Keys /\ k.order \in Orders
  BY DEF TableInv, TableTypeOK, Keys
<1>2. Known(k.order) /\ k.whole /\ EndKnown(k.order, saved[k].status)
  BY DEF TableInv, RecordsOK
<1>3. PICK q \in Orders, st \in {saved[k].status} : q = k.order
  BY <1>1
<1>4. Known(q)' /\ EndKnown(q, st)'
  BY <1>2, <1>3, StateSteps, EndKnownKept
<1> QED
  BY <1>2, <1>3, <1>4 DEF GoodSaved

LEMMA AllGood ==
  ASSUME NEW k, NEW s \in Slots, TableInv, [TableNext]_tableVars, OnlySlot(s), Good(slots[s])',
         NEW rid, NEW status, UNCHANGED saved \/ (SavedAt(k, rid, status) /\ GoodSaved(k)')
  PROVE  RecordsOK'
<1>1. ASSUME NEW t \in Slots PROVE Good(slots[t])'
  <2>1. CASE t = s
    BY <2>1
  <2>2. CASE t # s
    BY <2>2, GoodStays DEF OnlySlot
  <2> QED
    BY <2>1, <2>2
<1>2. ASSUME NEW j \in DOMAIN saved' PROVE GoodSaved(j)'
  BY GoodSavedStays DEF SavedAt
<1> QED
  BY <1>1, <1>2 DEF RecordsOK, Good, GoodSaved

(* A record of an order whose status the exchange has told *)
LEMMA NewRecord ==
  ASSUME NEW s \in Slots, NEW o \in Orders, slots'[s].key # None, slots'[s].key.order = o, slots'[s].rid # None,
         NEW st, slots'[s].status = st, st # "raw", Known(o)', EndKnown(o, st)', TableInv, [TableNext]_tableVars,
         slots'[s].sys = slots[s].sys \/ (slots'[s].sys \in Orders /\ sent'[slots'[s].sys].state \in AtExchange)
  PROVE  Good(slots[s])'
<1>1. PICK r : r = slots'[s]
  OBVIOUS
<1>2. ASSUME r.sys # None PROVE sent'[r.sys].state \in AtExchange
  <2>1. CASE r.sys = slots[s].sys
    <3>1. PICK q : q = r.sys
      OBVIOUS
    <3>2. q \in Orders /\ sent[q].state \in AtExchange
      BY <1>2, <2>1, <3>1, SlotFacts
    <3> QED
      BY <3>1, <3>2, StateSteps
  <2> QED
    BY <1>1, <2>1
<1>3. Known(r.key.order)' /\ EndKnown(r.key.order, r.status)'
  <2>1. st = r.status /\ r.key.order = o
    BY <1>1
  <2> QED
    BY <2>1
<1> QED
  BY <1>1, <1>2, <1>3 DEF Good

LEMMA RecordsNext == ASSUME TableInv, [TableNext]_tableVars PROVE RecordsOK'
<1>1. CASE UNCHANGED <<slots, saved>>
  <2>1. \A t \in Slots : Good(slots[t])'
    BY <1>1, GoodStays
  <2>2. \A j \in DOMAIN saved : GoodSaved(j)'
    BY <1>1, GoodSavedStays
  <2> QED
    BY <1>1, <2>1, <2>2 DEF RecordsOK, Good, GoodSaved
<1>2. CASE RecordRid
  <2>1. PICK s \in Slots : s = job.slot
    BY <1>2, RidStep
  <2>2. /\ OnlySlot(s) /\ UNCHANGED <<saved, sent>>
        /\ slots'[s].rid = job.order /\ slots'[s].key = slots[s].key /\ slots'[s].sys = slots[s].sys
        /\ slots'[s].status = slots[s].status /\ job.order # None
    BY <1>2, <2>1, RidStep, SlotKinds DEF OnlySlot
  <2>3. Good(slots[s])'
    <3>1. CASE slots[s].key = None
      BY <2>2, <3>1, SlotFacts DEF Good
    <3>2. CASE slots[s].key # None
      <4>1. PICK o \in Orders, st \in {slots[s].status} : o = slots[s].key.order /\ Known(o) /\ EndKnown(o, st)
        BY <3>2, SlotFacts
      <4>2. Known(o)' /\ EndKnown(o, st)'
        BY <4>1, StateSteps, EndKnownKept
      <4>3. slots'[s].status = st /\ st # "raw" /\ slots'[s].key # None /\ slots'[s].key.order = o
        BY <2>2, <3>2, <4>1, SlotFacts
      <4> QED
        BY <2>2, <4>2, <4>3, NewRecord
    <3> QED
      BY <3>1, <3>2
  <2> QED
    BY <2>2, <2>3, AllGood
<1>3. CASE RecordKey
  <2>1. PICK s \in Slots : s = job.slot
    BY <1>3, KeyStep
  <2>2. PICK o \in Orders : o = job.order
    BY <1>3, KeyStep, SlotKinds, Consts
  <2>0. PICK k : k = Key(o)
    OBVIOUS
  <2>3. /\ OnlySlot(s) /\ slots'[s].key = k /\ slots'[s].sys = slots[s].sys
        /\ slots'[s].status = "inserted" /\ slots'[s].rid = slots[s].rid /\ SavedAt(k, slots[s].rid, "inserted")
        /\ job'.order = o /\ job'.stage = "send" /\ job.stage = "key"
    BY <2>0, <1>3, <2>1, <2>2, KeyStep, KeySaves DEF OnlySlot
  <2>4. slots[s].rid # None
    BY <2>1, <2>3 DEF TableInv, HalfWritten
  <2>5. k # None /\ k.order = o /\ k.whole
    BY <2>0, KeyType DEF TableInv
  <2>6. Known(o)'
    BY <2>3 DEF Known
  <2>7. EndKnown(o, "inserted")'
    BY DEF EndedStatus, EndKnown
  <2>8. Good(slots[s])'
    <3>1. slots'[s].key # None /\ slots'[s].key.order = o /\ slots'[s].rid # None /\ "inserted" # "raw"
      BY <2>3, <2>4, <2>5
    <3> QED
      BY <2>3, <2>6, <2>7, <3>1, NewRecord
  <2>9. GoodSaved(k)'
    BY <2>3, <2>5, <2>6, <2>7 DEF GoodSaved, SavedAt
  <2> QED
    BY <2>3, <2>8, <2>9, AllGood
<1>4. ASSUME NEW o \in Orders, NEW kind \in Kinds \ {"trade"}, OnOrder(o, kind, StatusTold(o, kind)), WithKey(Key(o)) # {}
      PROVE  RecordsOK'
  <2>1. PICK k, st : k = Key(o) /\ st = StatusTold(o, kind)
    OBVIOUS
  <2>2. PICK s \in Slots :
           /\ slots[s].key = k /\ OnlySlot(s)
           /\ slots'[s].rid = slots[s].rid /\ slots'[s].sys = slots[s].sys /\ slots'[s].key = k
           /\ slots'[s].status = st /\ SavedAt(k, slots[s].rid, st)
    BY <1>4, <2>1, OrderSaves
  <2>3. k # None /\ k.order = o /\ k.whole
    BY <2>1, KeyType DEF TableInv
  <2>4. Known(o)' /\ slots[s].rid # None
    BY <2>2, <2>3, SlotFacts, StateSteps
  <2>5. EndKnown(o, st)' /\ st # "raw"
    <3>1. /\ Has(o, kind) /\ (kind \in EndedStatus => ~Has(o, "live")) /\ toRestore = {}
          /\ UNCHANGED <<toRestore, sent>> /\ st \in LiveStatus \cup EndedStatus
          /\ \A x, j : Has(x, j)' => Has(x, j)
      BY <1>4, <2>1, OnOrderStep, ArrivedStep
    <3>2. /\ kind \in EndedStatus => sent[o].state = kind
          /\ kind = "query" => ~Has(o, "live")
      BY <3>1 DEF TableInv, ReportsOK
    <3>3. st \in EndedStatus => sent[o].state \in EndedStatus /\ ~Has(o, "live")
      BY <2>1, <3>1, <3>2 DEF StatusTold
    <3>4. EndKnown(o, st)'
      BY <3>1, <3>3 DEF EndKnown
    <3> QED
      BY <3>1, <3>4, StatesDiffer
  <2>6. Good(slots[s])'
    <3>1. slots'[s].key # None /\ slots'[s].key.order = o /\ slots'[s].rid # None
      BY <2>2, <2>3, <2>4
    <3> QED
      BY <2>2, <2>4, <2>5, <3>1, NewRecord
  <2>7. GoodSaved(k)'
    BY <2>2, <2>3, <2>4, <2>5 DEF GoodSaved, SavedAt
  <2> QED
    BY <2>2, <2>6, <2>7, AllGood
<1>5. CASE CallbackRid
  <2>1. PICK s \in Slots : s = cb.slot
    BY <1>5, CallRidStep
  <2>2. /\ OnlySlot(s) /\ UNCHANGED <<saved, sent>>
        /\ slots'[s].rid = direct /\ slots'[s].key = slots[s].key /\ slots'[s].sys = slots[s].sys
        /\ slots'[s].status = slots[s].status /\ direct # None
    BY <1>5, <2>1, CallRidStep, Consts DEF OnlySlot
  <2>3. Good(slots[s])'
    <3>1. CASE slots[s].key = None
      BY <2>2, <3>1, SlotFacts DEF Good
    <3>2. CASE slots[s].key # None
      <4>1. PICK o \in Orders, st \in {slots[s].status} : o = slots[s].key.order /\ Known(o) /\ EndKnown(o, st)
        BY <3>2, SlotFacts
      <4>2. Known(o)' /\ EndKnown(o, st)'
        BY <4>1, StateSteps, EndKnownKept
      <4>3. slots'[s].status = st /\ st # "raw" /\ slots'[s].key # None /\ slots'[s].key.order = o
        BY <2>2, <3>2, <4>1, SlotFacts
      <4> QED
        BY <2>2, <4>2, <4>3, NewRecord
    <3> QED
      BY <3>1, <3>2
  <2> QED
    BY <2>2, <2>3, AllGood
<1>6. CASE CallbackKey
  <2>1. PICK s \in Slots : s = cb.slot
    BY <1>6, CallKeyStep
  <2>2. PICK k, o, st : k = cb.key /\ o = cb.order /\ st = CallStatus
    OBVIOUS
  <2>3. /\ OnlySlot(s) /\ slots'[s].key = k /\ slots'[s].sys = slots[s].sys /\ UNCHANGED <<sent, reports, toRestore>>
        /\ slots'[s].status = st /\ slots'[s].rid = slots[s].rid /\ SavedAt(k, slots[s].rid, st)
        /\ cb.stage = "key" /\ st \in LiveStatus \cup EndedStatus
    BY <1>6, <2>1, <2>2, CallKeyStep, CallKeySaves DEF OnlySlot
  <2>4. slots[s].rid # None
    BY <2>1, <2>3 DEF TableInv, HalfWritten
  <2>5. /\ cb # NoCall /\ o \in Orders /\ sent[o].state \in AtExchange /\ toRestore = {}
        /\ k \in Keys /\ k.order = o /\ k # None
    BY <2>2, <2>3, SlotKinds, AtWork
  <2>6. k.whole
    <3>1. cb.kind = "trade" => TradeKey(o).whole
      BY DEF TradeKey
    <3> QED
      BY <2>2, <2>5, <3>1, AtWork, KeyType DEF TableInv
  <2>7. Known(o)'
    BY <2>3, <2>5, StatesDiffer DEF Known
  <2>8. EndKnown(o, st)' /\ st # "raw"
    <3>1. cb.kind = "query" => ~Has(o, "live")
      BY <2>2, <2>5 DEF TableInv, CallInPlace
    <3>2. st \in EndedStatus => sent[o].state \in EndedStatus /\ ~Has(o, "live")
      BY <2>2, <3>1 DEF CallStatus, EndedStatus
    <3>3. EndKnown(o, st)'
      BY <2>3, <2>5, <3>2, HasSame DEF EndKnown
    <3> QED
      BY <2>3, <3>3, StatesDiffer
  <2>9. Good(slots[s])'
    <3>1. slots'[s].key # None /\ slots'[s].key.order = o /\ slots'[s].rid # None
      BY <2>3, <2>4, <2>5
    <3> QED
      BY <2>3, <2>5, <2>7, <2>8, <3>1, NewRecord
  <2>10. GoodSaved(k)'
    BY <2>3, <2>5, <2>6, <2>7, <2>8 DEF GoodSaved, SavedAt
  <2> QED
    BY <2>3, <2>9, <2>10, AllGood
<1>7. CASE CallbackSys /\ WithKey(cb.key) # {}
  <2>1. PICK k, o : k = cb.key /\ o = cb.order
    OBVIOUS
  <2>2. PICK s \in Slots :
           /\ slots[s].key = k /\ OnlySlot(s) /\ slots'[s].rid = slots[s].rid /\ slots'[s].key = k
           /\ slots'[s].status = slots[s].status /\ slots'[s].sys = o /\ SavedAt(k, slots[s].rid, slots[s].status)
    BY <1>7, <2>1, CallSysSaves
  <2>3. /\ cb # NoCall /\ o \in Orders /\ sent[o].state \in AtExchange
        /\ k \in Keys /\ k.order = o /\ k # None
    BY <1>7, <2>1, CallSysStep, SlotKinds, AtWork
  <2>4. PICK st : st = slots[s].status /\ Known(o) /\ EndKnown(o, st) /\ st # "raw" /\ slots[s].rid # None
    BY <2>2, <2>3, SlotFacts
  <2>5. Known(o)' /\ EndKnown(o, st)' /\ sent'[o].state \in AtExchange
    BY <2>3, <2>4, StateSteps, EndKnownKept
  <2>6. k.whole
    <3>1. cb.kind = "trade" => TradeKey(o).whole
      BY DEF TradeKey
    <3> QED
      BY <2>1, <2>3, <3>1, AtWork, KeyType DEF TableInv
  <2>7. Good(slots[s])'
    <3>1. slots'[s].key # None /\ slots'[s].key.order = o /\ slots'[s].rid # None /\ slots'[s].status = st
      BY <2>2, <2>3, <2>4
    <3> QED
      BY <2>2, <2>3, <2>4, <2>5, <3>1, NewRecord
  <2>8. GoodSaved(k)'
    BY <2>2, <2>3, <2>4, <2>5, <2>6 DEF GoodSaved, SavedAt
  <2> QED
    BY <2>2, <2>7, <2>8, AllGood
<1>8. CASE Crash
  <2>1. UNCHANGED saved /\ \A t \in Slots : slots'[t] = Free
    BY <1>8, CrashStep
  <2>2. \A t \in Slots : Good(slots[t])'
    BY <2>1 DEF Good, Free
  <2>3. \A j \in DOMAIN saved : GoodSaved(j)'
    BY <2>1, GoodSavedStays
  <2> QED
    BY <2>1, <2>2, <2>3 DEF RecordsOK, Good, GoodSaved
<1>9. ASSUME NEW k \in Keys, NEW s \in Slots, ReadBack(k, s) PROVE RecordsOK'
  <2>1. PICK o, st : o = k.order /\ st = saved[k].status
    OBVIOUS
  <2>2. /\ k \in DOMAIN saved /\ OnlySlot(s) /\ UNCHANGED saved /\ slots'[s].key \in Keys /\ slots'[s].key.order = o
        /\ slots'[s].rid = saved[k].rid /\ slots'[s].status = st /\ slots'[s].sys = slots[s].sys
    BY <1>9, <2>1 DEF ReadBack
  <2>3. o \in Orders /\ slots'[s].key # None
    BY <2>1, <2>2, Consts DEF Keys
  <2>4. saved[k].rid \in Rids /\ st \in LiveStatus \cup EndedStatus
    BY <2>1, <2>2 DEF TableInv, TableTypeOK
  <2>5. slots'[s].rid # None /\ st # "raw"
    BY <2>2, <2>4, Consts, StatesDiffer DEF Rids
  <2>6. Known(o) /\ EndKnown(o, st)
    BY <2>1, <2>2 DEF TableInv, RecordsOK
  <2>7. Known(o)' /\ EndKnown(o, st)'
    BY <2>3, <2>6, StateSteps, EndKnownKept
  <2>8. Good(slots[s])'
    BY <2>2, <2>3, <2>5, <2>7, NewRecord
  <2> QED
    BY <2>2, <2>8, AllGood
<1> QED
  BY <1>1, <1>2, <1>3, <1>4, <1>5, <1>6, <1>7, <1>8, <1>9, Writes

-----------------------------------------------------------------------------
(* What happens while the engine is down or reads its table back. *)

SessionsOK ==
  /\ session >= 1
  /\ \A o \in Orders : sent[o].session <= session
  /\ \A o \in Own : sent[o].state # "none" => sent[o].session >= 1

LEMMA SessionsNext == ASSUME TableInv, [TableNext]_tableVars PROVE SessionsOK'
<1>1. /\ session >= 1 /\ session \in Int
      /\ \A o \in Orders : sent[o].session <= session /\ sent[o].session \in Int
      /\ \A o \in Own : sent[o].state # "none" => sent[o].session >= 1
  <2>1. \A o \in Orders : sent[o].session \in Int
    BY Typed DEF TableInv, SentType, Sessions
  <2> QED
    BY <2>1, Typed DEF TableInv, Phases
<1>2. UNCHANGED <<session, sent>> => SessionsOK'
  BY <1>1 DEF SessionsOK
<1>3. ASSUME NEW x \in Own, InsertOrder(x) PROVE SessionsOK'
  <2>1. /\ UNCHANGED session /\ sent'[x].session = session /\ \A y \in Orders : y # x => sent'[y] = sent[y]
    BY <1>3, InsertStep
  <2>2. \A y \in Orders : sent'[y].session <= session
    BY <1>1, <2>1
  <2>3. \A y \in Own : sent'[y].state # "none" => sent'[y].session >= 1
    BY <1>1, <2>1, Consts
  <2> QED
    BY <1>1, <2>1, <2>2, <2>3 DEF SessionsOK
<1>4. ASSUME UNCHANGED session, \A y \in Orders : sent'[y].session = sent[y].session,
             \A y \in Own : sent[y].state = "none" => sent'[y].state = "none" \/ sent[y].session >= 1
      PROVE  SessionsOK'
  <2>1. \A y \in Own : sent'[y].state # "none" => sent'[y].session >= 1
    BY <1>1, <1>4, Consts
  <2> QED
    BY <1>1, <1>4, <2>1 DEF SessionsOK
<1>5. CASE Send
  <2>1. /\ UNCHANGED session /\ \A x \in Orders : x # job.order => sent'[x] = sent[x]
        /\ sent'[job.order].session \in {sent[job.order].session, session} /\ job.stage = "send"
    BY <1>5, SendStep
  <2>2. sent[job.order].session >= 1 /\ job.order \in Own /\ job.order \in Orders
    BY <2>1, SlotKinds, JobAtWork
  <2>3. \A y \in Orders : sent'[y].session <= session
    BY <1>1, <2>1, <2>2
  <2>4. \A y \in Own : sent'[y].state # "none" => sent'[y].session >= 1
    <3> SUFFICES ASSUME NEW y \in Own, sent'[y].state # "none" PROVE sent'[y].session >= 1
      OBVIOUS
    <3>1. CASE y = job.order
      BY <1>1, <2>1, <2>2, <3>1
    <3>2. CASE y # job.order
      BY <1>1, <2>1, <3>2, Consts
    <3> QED
      BY <3>1, <3>2
  <2> QED
    BY <1>1, <2>1, <2>3, <2>4 DEF SessionsOK
<1>6. ASSUME NEW x \in Orders, NEW k \in Kinds \ {"trade"}, OnOrder(x, k, StatusTold(x, k)) PROVE SessionsOK'
  BY <1>2, <1>6, OnOrderStep
<1>7. ASSUME NEW x \in Orders, OnRtnTrade(x) PROVE SessionsOK'
  BY <1>2, <1>7, OnTradeStep
<1>8. ASSUME NEW x \in Foreign, ForeignOrder(x) PROVE SessionsOK'
  <2>1. /\ UNCHANGED session /\ \A y \in Orders : y # x => sent'[y] = sent[y]
        /\ sent'[x].session = sent[x].session /\ x \notin Own
    BY <1>8, ForeignStep, OrdersAssumption
  <2> QED
    BY <1>4, <2>1, Consts
<1>9. ASSUME NEW x \in Orders, NEW how \in EndedStatus, OrderEnds(x, how) PROVE SessionsOK'
  <2>1. /\ UNCHANGED session /\ \A y \in Orders : y # x => sent'[y] = sent[y]
        /\ sent'[x].session = sent[x].session /\ sent[x].state # "none"
    BY <1>9, EndStep
  <2> QED
    BY <1>4, <2>1, Consts
<1>10. CASE RecordRid \/ RecordKey
  BY <1>2, <1>10, RidStep, KeyStep
<1>11. CASE CallbackRid \/ CallbackKey \/ CallbackSys \/ Deliver
  BY <1>2, <1>11, CallRidStep, CallKeyStep, CallSysStep, DeliverStep
<1>12. CASE Crash
  <2>1. /\ UNCHANGED session /\ \A y \in Orders : y # job.order => sent'[y] = sent[y]
        /\ \A y \in Orders : sent'[y].session = sent[y].session
    BY <1>12, CrashStep
  <2>2. \A y \in Own : y = job.order => sent[y].session >= 1
    BY JobAtWork, Consts DEF NoJob
  <2> QED
    BY <1>4, <2>1, <2>2, Consts
<1>13. CASE Login
  <2>1. UNCHANGED sent /\ session' = session + 1
    BY <1>13, LoginStep
  <2> QED
    BY <1>1, <2>1 DEF SessionsOK
<1>14. ASSUME NEW k \in Keys, RestoreKey(k) PROVE SessionsOK'
  BY <1>2, <1>14, RestoreStep
<1>15. CASE UNCHANGED tableVars
  BY <1>2, <1>15 DEF tableVars
<1>31. CASE LocateSlot
  BY <1>2, <1>31, LocateStep
<1>32. CASE RestoreRecord
  BY <1>2, <1>32, RestoreRecordStep
<1> QED
  BY <1>3, <1>5, <1>6, <1>7, <1>8, <1>9, <1>10, <1>11, <1>12, <1>13, <1>14, <1>15, <1>31, <1>32, StepKinds

Running ==
  /\ ~up => reports = {} /\ toRestore = {} /\ job = NoJob /\ \A s \in Slots : slots[s] = Free
  /\ ~up \/ toRestore # {} => cb = NoCall

LEMMA RunningNext == ASSUME TableInv, [TableNext]_tableVars PROVE Running'
<1>0. Running
  BY DEF TableInv, Phases, Running
<1>1. up' /\ toRestore' = {} => Running'
  BY DEF Running
<1>2. UNCHANGED <<up, toRestore>> /\ up /\ toRestore = {} => Running'
  BY <1>1
<1>16. UNCHANGED <<up, toRestore, cb>> /\ up => Running'
  BY <1>0 DEF Running
<1>3. ASSUME NEW x \in Own, InsertOrder(x) PROVE Running'
  BY <1>16, <1>3, InsertStep
<1>4. job.stage # "idle" => up
  BY SlotKinds, JobAtWork
<1>5. cb.stage # "idle" => up /\ toRestore = {}
  BY SlotKinds, AtWork
<1>6. CASE RecordRid \/ RecordKey \/ Send
  BY <1>16, <1>4, <1>6, RidStep, KeyStep, SendStep
<1>7. ASSUME NEW x \in Orders, NEW k \in Kinds \ {"trade"}, OnOrder(x, k, StatusTold(x, k)) PROVE Running'
  BY <1>2, <1>7, OnOrderStep, ArrivedStep
<1>8. ASSUME NEW x \in Orders, OnRtnTrade(x) PROVE Running'
  <2>1. Arrived(x, "trade") /\ "trade" \in Kinds /\ UNCHANGED <<up, toRestore>>
    BY <1>8, OnTradeStep DEF Kinds
  <2> QED
    BY <1>2, <2>1, ArrivedStep
<1>9. CASE CallbackRid \/ CallbackKey \/ CallbackSys \/ Deliver
  BY <1>2, <1>5, <1>9, CallRidStep, CallKeyStep, CallSysStep, DeliverStep
<1>10. ASSUME NEW x \in Foreign, ForeignOrder(x) PROVE Running'
  <2>1. UNCHANGED <<slots, up, toRestore, job, cb>>
    BY <1>10, ForeignStep
  <2>2. ~up => reports' = reports
    BY <1>10 DEF ForeignOrder
  <2> QED
    BY <1>0, <2>1, <2>2 DEF Running
<1>11. ASSUME NEW x \in Orders, NEW how \in EndedStatus, OrderEnds(x, how) PROVE Running'
  <2>1. UNCHANGED <<slots, up, toRestore, job, cb>>
    BY <1>11, EndStep
  <2>2. ~up => reports' = reports
    BY <1>11 DEF OrderEnds
  <2> QED
    BY <1>0, <2>1, <2>2 DEF Running
<1>12. CASE Crash
  BY <1>12, CrashStep DEF Running
<1>13. CASE Login
  BY <1>13, LoginStep DEF Running
<1>14. ASSUME NEW k \in Keys, RestoreKey(k) PROVE Running'
  BY <1>0, <1>14, RestoreStep DEF Running
<1>15. CASE UNCHANGED tableVars
  BY <1>0, <1>15 DEF tableVars, Running
<1>31. CASE LocateSlot
  BY <1>4, <1>16, <1>31, LocateStep
<1>32. CASE RestoreRecord
  BY <1>0, <1>32, RestoreRecordStep DEF Running
<1> QED
  BY <1>3, <1>6, <1>7, <1>8, <1>9, <1>10, <1>11, <1>12, <1>13, <1>14, <1>15, <1>31, <1>32, StepKinds

LEMMA PhasesNext == ASSUME TableInv, [TableNext]_tableVars PROVE Phases'
BY SessionsNext, RunningNext DEF SessionsOK, Running, Phases

-----------------------------------------------------------------------------
(* Lost records, and the orders the table still has to know *)
LEMMA StraysGrow == ASSUME TableInv, [TableNext]_tableVars PROVE strays \subseteq strays'
<1>1. ASSUME NEW x \in Own, InsertOrder(x) PROVE strays \subseteq strays'
  BY <1>1, InsertStep
<1>2. ASSUME NEW x \in Orders, NEW k \in Kinds \ {"trade"}, OnOrder(x, k, StatusTold(x, k)) PROVE strays \subseteq strays'
  BY <1>2, OnOrderStep
<1>3. ASSUME NEW x \in Orders, OnRtnTrade(x) PROVE strays \subseteq strays'
  BY <1>3, OnTradeStep
<1>4. ASSUME NEW x \in Foreign, ForeignOrder(x) PROVE strays \subseteq strays'
  BY <1>4, ForeignStep
<1>5. ASSUME NEW x \in Orders, NEW how \in EndedStatus, OrderEnds(x, how) PROVE strays \subseteq strays'
  BY <1>5, EndStep
<1>6. ASSUME NEW k \in Keys, RestoreKey(k) PROVE strays \subseteq strays'
  BY <1>6, RestoreStep
<1>7. CASE RecordRid \/ RecordKey \/ Send
  BY <1>7, RidStep, KeyStep, SendStep
<1>8. CASE CallbackRid \/ CallbackKey \/ CallbackSys \/ Deliver
  BY <1>8, CallRidStep, CallKeyStep, CallSysStep, DeliverStep
<1>9. CASE Crash \/ Login
  BY <1>9, CrashStep, LoginStep
<1>10. CASE UNCHANGED tableVars
  BY <1>10 DEF tableVars
<1>31. CASE LocateSlot
  BY <1>31, LocateStep
<1>32. CASE RestoreRecord
  BY <1>32, RestoreRecordStep
<1> QED
  BY <1>1, <1>2, <1>3, <1>4, <1>5, <1>6, <1>7, <1>8, <1>9, <1>10, <1>31, <1>32, StepKinds

-----------------------------------------------------------------------------
(* Orders become needed only with the record that makes them found. *)

LEMMA AtExchangeBefore ==
  ASSUME TableInv, [TableNext]_tableVars, NEW o \in Orders, sent'[o].state \in AtExchange
  PROVE  \/ sent[o].state \in AtExchange
         \/ job.order = o /\ job.stage = "send"
         \/ o \in Foreign /\ sent[o].state = "none" /\ UNCHANGED <<slots, saved>>
<1> DEFINE T == \/ sent[o].state \in AtExchange
                \/ job.order = o /\ job.stage = "send"
                \/ o \in Foreign /\ sent[o].state = "none" /\ UNCHANGED <<slots, saved>>
<1>0. SUFFICES T
  OBVIOUS
<1>1. sent'[o] = sent[o] => T
  OBVIOUS
<1>2. ASSUME NEW x \in Own, InsertOrder(x) PROVE T
  <2>1. sent'[x].state = "none" /\ \A y \in Orders : y # x => sent'[y] = sent[y]
    BY <1>2, InsertStep
  <2>2. o # x
    BY <2>1, StatesDiffer
  <2> QED
    BY <1>1, <2>1, <2>2
<1>3. CASE Send
  <2>1. job.stage = "send" /\ \A y \in Orders : y # job.order => sent'[y] = sent[y]
    BY <1>3, SendStep
  <2> QED
    BY <1>1, <2>1
<1>4. ASSUME NEW x \in Orders, NEW k \in Kinds \ {"trade"}, OnOrder(x, k, StatusTold(x, k)) PROVE T
  BY <1>1, <1>4, OnOrderStep
<1>5. ASSUME NEW x \in Orders, OnRtnTrade(x) PROVE T
  BY <1>1, <1>5, OnTradeStep
<1>6. ASSUME NEW x \in Foreign, ForeignOrder(x) PROVE T
  <2>1. /\ UNCHANGED <<slots, saved>> /\ \A y \in Orders : y # x => sent'[y] = sent[y]
        /\ sent[x].state = "none"
    BY <1>6, ForeignStep
  <2> QED
    BY <1>1, <2>1
<1>7. ASSUME NEW x \in Orders, NEW how \in EndedStatus, OrderEnds(x, how) PROVE T
  <2>1. /\ \A y \in Orders : y # x => sent'[y] = sent[y]
        /\ sent[x].state \in AtExchange
    BY <1>7, EndStep, StatesDiffer
  <2> QED
    BY <1>1, <2>1
<1>8. CASE RecordRid \/ RecordKey
  BY <1>1, <1>8, RidStep, KeyStep
<1>9. CASE CallbackRid \/ CallbackKey \/ CallbackSys \/ Deliver
  BY <1>1, <1>9, CallRidStep, CallKeyStep, CallSysStep, DeliverStep
<1>10. CASE Crash
  <2>1. /\ \A y \in Orders : y # job.order => sent'[y] = sent[y]
        /\ job.order \in Orders => sent'[job.order].state = "rejected"
    BY <1>10, CrashStep
  <2> QED
    BY <1>1, <2>1, StatesDiffer
<1>11. CASE Login
  BY <1>1, <1>11, LoginStep
<1>12. ASSUME NEW k \in Keys, RestoreKey(k) PROVE T
  BY <1>1, <1>12, RestoreStep
<1>13. CASE UNCHANGED tableVars
  BY <1>1, <1>13 DEF tableVars
<1>31. CASE LocateSlot
  BY <1>1, <1>31, LocateStep
<1>32. CASE RestoreRecord
  BY <1>1, <1>32, RestoreRecordStep
<1> QED
  BY <1>2, <1>3, <1>4, <1>5, <1>6, <1>7, <1>8, <1>9, <1>10, <1>11, <1>12, <1>13, <1>31, <1>32, StepKinds

LEMMA JobBefore ==
  ASSUME TableInv, [TableNext]_tableVars, job'.stage = "send"
  PROVE  \/ job'.order = job.order /\ (job.stage = "send" \/ RecordKey)
         \/ job'.order \in strays'
<1> DEFINE T == \/ job'.order = job.order /\ (job.stage = "send" \/ RecordKey)
                \/ job'.order \in strays'
<1>1. job' = job => T
  OBVIOUS
<1>2. ASSUME NEW x \in Own, InsertOrder(x) PROVE T
  BY <1>2, InsertStep
<1>3. ~RecordRid /\ ~Send /\ ~Crash
  <2>1. job' # NoJob
    BY DEF NoJob
  <2>2. ~RecordRid
    BY RidStep
  <2> QED
    BY <2>1, <2>2, SendStep, CrashStep
<1>4. CASE RecordKey
  BY <1>4, KeyStep
<1>5. ASSUME NEW x \in Orders, NEW k \in Kinds \ {"trade"}, OnOrder(x, k, StatusTold(x, k)) PROVE T
  BY <1>1, <1>5, OnOrderStep
<1>6. ASSUME NEW x \in Orders, OnRtnTrade(x) PROVE T
  BY <1>1, <1>6, OnTradeStep
<1>7. ASSUME NEW x \in Foreign, ForeignOrder(x) PROVE T
  BY <1>1, <1>7, ForeignStep
<1>8. ASSUME NEW x \in Orders, NEW how \in EndedStatus, OrderEnds(x, how) PROVE T
  BY <1>1, <1>8, EndStep
<1>9. CASE CallbackRid \/ CallbackKey \/ CallbackSys \/ Deliver
  BY <1>1, <1>9, CallRidStep, CallKeyStep, CallSysStep, DeliverStep
<1>10. CASE Login
  BY <1>1, <1>10, LoginStep
<1>11. ASSUME NEW k \in Keys, RestoreKey(k) PROVE T
  BY <1>1, <1>11, RestoreStep
<1>12. CASE UNCHANGED tableVars
  BY <1>1, <1>12 DEF tableVars
<1>31. CASE LocateSlot
  BY <1>1, <1>31, LocateStep
<1>32. CASE RestoreRecord
  BY <1>1, <1>32, RestoreRecordStep
<1> QED
  BY <1>2, <1>3, <1>4, <1>5, <1>6, <1>7, <1>8, <1>9, <1>10, <1>11, <1>12, <1>31, <1>32, StepKinds

LEMMA CallBefore ==
  ASSUME TableInv, [TableNext]_tableVars, NEW o \in Orders, cb'.order = o
  PROVE  \/ cb.order = o /\ cb.kind = cb'.kind
         \/ cb = NoCall /\ cb'.kind \in Kinds /\ Has(o, cb'.kind)
<1> DEFINE T == \/ cb.order = o /\ cb.kind = cb'.kind
                \/ cb = NoCall /\ cb'.kind \in Kinds /\ Has(o, cb'.kind)
<1>1. cb' = cb => T
  OBVIOUS
<1>2. cb' # NoCall
  BY Consts DEF NoCall
<1>3. ASSUME NEW x \in Own, InsertOrder(x) PROVE T
  BY <1>1, <1>3, InsertStep
<1>4. CASE RecordRid \/ RecordKey \/ Send
  BY <1>1, <1>4, RidStep, KeyStep, SendStep
<1>5. ASSUME NEW x \in Orders, NEW k \in Kinds \ {"trade"}, OnOrder(x, k, StatusTold(x, k)) PROVE T
  BY <1>5, OnOrderStep, ArrivedStep
<1>6. ASSUME NEW x \in Orders, OnRtnTrade(x) PROVE T
  <2>1. Arrived(x, "trade") /\ "trade" \in Kinds /\ cb = NoCall /\ cb'.order = x /\ cb'.kind = "trade"
    BY <1>6, OnTradeStep DEF Kinds
  <2> QED
    BY <2>1, ArrivedStep
<1>7. ASSUME NEW x \in Foreign, ForeignOrder(x) PROVE T
  BY <1>1, <1>7, ForeignStep
<1>8. ASSUME NEW x \in Orders, NEW how \in EndedStatus, OrderEnds(x, how) PROVE T
  BY <1>1, <1>8, EndStep
<1>9. CASE CallbackRid \/ CallbackKey
  BY <1>9, CallRidStep, CallKeyStep
<1>10. CASE CallbackSys
  BY <1>2, <1>10, CallSysStep
<1>11. ~Deliver /\ ~Crash
  BY <1>2, DeliverStep, CrashStep
<1>12. CASE Login
  BY <1>1, <1>12, LoginStep
<1>13. ASSUME NEW k \in Keys, RestoreKey(k) PROVE T
  BY <1>1, <1>13, RestoreStep
<1>14. CASE UNCHANGED tableVars
  BY <1>1, <1>14 DEF tableVars
<1>31. CASE LocateSlot
  BY <1>1, <1>31, LocateStep
<1>32. CASE RestoreRecord
  BY <1>1, <1>32, RestoreRecordStep
<1> QED
  BY <1>3, <1>4, <1>5, <1>6, <1>7, <1>8, <1>9, <1>10, <1>11, <1>12, <1>13, <1>14, <1>31, <1>32, StepKinds

LEMMA NewsBefore ==
  ASSUME TableInv, [TableNext]_tableVars, NEW o \in Orders, News(o)'
  PROVE  \/ News(o) \/ sent[o].state = "live"
         \/ job.order = o /\ job.stage = "send"
         \/ o \in Foreign /\ sent[o].state = "none" /\ UNCHANGED <<slots, saved>>
<1>1. CASE cb'.order = o /\ cb'.kind # "query"
  BY <1>1, CallBefore DEF News
<1>2. CASE ~(cb'.order = o /\ cb'.kind # "query")
  <2>1. PICK kind \in Kinds \ {"query"} : Has(o, kind)'
    BY <1>2 DEF News
  <2>2. CASE Has(o, kind)
    BY <2>2 DEF News
  <2>3. CASE ~Has(o, kind)
    <3>1. sent[o].state \in {"none", "live"} /\ sent'[o].state \in AtExchange
      BY <2>1, <2>3, HasSteps
    <3> QED
      BY <3>1, AtExchangeBefore, StatesDiffer
  <2> QED
    BY <2>2, <2>3
<1> QED
  BY <1>1, <1>2

LEMMA NeededBefore ==
  ASSUME TableInv, [TableNext]_tableVars, NEW o \in Orders, Needed(o)'
  PROVE  /\ o \notin strays /\ o \notin strays'
         /\ \/ Needed(o)
            \/ RecordKey /\ o = job.order
            \/ o \in Foreign /\ sent[o].state = "none" /\ UNCHANGED <<slots, saved>>
<1>1. o \notin strays /\ o \notin strays'
  BY StraysGrow DEF Needed
<1>2. CASE sent'[o].state = "live"
  <2>1. sent[o].state \in AtExchange => sent[o].state = "live"
    BY <1>2, EndedStay, StatesDiffer DEF AtExchange
  <2> QED
    BY <1>1, <1>2, <2>1, AtExchangeBefore, StatesDiffer DEF Needed
<1>3. CASE job'.order = o /\ job'.stage = "send"
  BY <1>1, <1>3, JobBefore DEF Needed
<1>4. CASE News(o)'
  BY <1>1, <1>4, NewsBefore DEF Needed
<1> QED
  BY <1>1, <1>2, <1>3, <1>4 DEF Needed

LEMMA DueBefore ==
  ASSUME TableInv, [TableNext]_tableVars, NEW o \in Orders, TradeDue(o)'
  PROVE  /\ o \notin strays /\ o \notin strays'
         /\ TradeDue(o) \/ sent[o].state \notin AtExchange
<1>1. o \notin strays /\ o \notin strays'
  BY StraysGrow DEF TradeDue
<1>2. SUFFICES ASSUME sent[o].state \in AtExchange PROVE TradeDue(o)
  BY <1>1
<1>3. CASE sent'[o].state = "live"
  BY <1>1, <1>2, <1>3, EndedStay, StatesDiffer DEF TradeDue, AtExchange
<1>4. CASE Has(o, "trade")'
  <2>1. "trade" \in Kinds \ {"query"}
    BY DEF Kinds
  <2>2. CASE ~Has(o, "trade")
    <3>1. sent[o].state = "live"
      BY <1>2, <1>4, <2>1, <2>2, HasSteps, StatesDiffer
    <3> QED
      BY <1>1, <3>1 DEF TradeDue
  <2> QED
    BY <1>1, <2>2 DEF TradeDue
<1>5. CASE cb'.order = o /\ cb'.kind = "trade"
  BY <1>1, <1>5, CallBefore DEF TradeDue
<1> QED
  BY <1>3, <1>4, <1>5 DEF TradeDue

-----------------------------------------------------------------------------
(* A slot about to be written holds no order that is still needed, unless  *)
(* something is under way about it.                                        *)
LEMMA SpareSlot ==
  ASSUME TableInv, NEW s \in Slots, Spare(s), NEW o, slots[s].key # None, o = slots[s].key.order, o \notin strays
  PROVE  /\ o \in Orders /\ slots[s].status \in EndedStatus /\ sent[o].state \in EndedStatus /\ ~Has(o, "live")
         /\ toRestore # {} => \A kind \in Kinds \ {"query"} : ~Has(o, kind)
         /\ o # job.order
         /\ Needed(o) => News(o)
         /\ TradeDue(o) => News(o)
         /\ News(o) => Busy(o)
<1>1. /\ o \in Orders /\ EndKnown(o, slots[s].status) /\ slots[s].status # "raw" /\ slots[s] \in SlotType
      /\ (Writable(s) <=> slots[s].status \notin LiveStatus)
  BY SlotFacts
<1>2. Writable(s)
  BY DEF Spare
<1>3. slots[s].status \in EndedStatus
  BY <1>1, <1>2 DEF SlotType
<1>4. /\ sent[o].state \in EndedStatus /\ ~Has(o, "live")
      /\ toRestore # {} => \A kind \in Kinds \ {"query"} : ~Has(o, kind)
  BY <1>1, <1>3 DEF EndKnown
<1>5. o # job.order
  BY <1>1, <1>4, JobAtWork, Consts, StatesDiffer DEF NoJob
<1>6. Needed(o) => News(o)
  BY <1>4, <1>5, StatesDiffer DEF Needed
<1>7. TradeDue(o) => News(o)
  BY <1>4, StatesDiffer DEF TradeDue, News, Kinds
<1>8. News(o) => Busy(o)
  BY DEF News, Busy
<1> QED
  BY <1>1, <1>3, <1>4, <1>5, <1>6, <1>7, <1>8

-----------------------------------------------------------------------------
(* The request of a needed order is the one its record and its copy name. *)

LEMMA SessionKept ==
  ASSUME TableInv, [TableNext]_tableVars, NEW o \in Orders, ~(o \in Own /\ InsertOrder(o)), ~(Send /\ o \in strays')
  PROVE  Key(o)' = Key(o)
<1> DEFINE T == sent'[o].session = sent[o].session
<1>0. SUFFICES T
  BY DEF Key
<1>1. sent'[o] = sent[o] => T
  OBVIOUS
<1>2. ASSUME NEW x \in Own, InsertOrder(x) PROVE T
  BY <1>1, <1>2, InsertStep
<1>3. CASE RecordRid \/ RecordKey
  BY <1>1, <1>3, RidStep, KeyStep
<1>12. CASE Send
  BY <1>1, <1>12, SendStep
<1>4. ASSUME NEW x \in Orders, NEW k \in Kinds \ {"trade"}, OnOrder(x, k, StatusTold(x, k)) PROVE T
  BY <1>1, <1>4, OnOrderStep
<1>5. ASSUME NEW x \in Orders, OnRtnTrade(x) PROVE T
  BY <1>1, <1>5, OnTradeStep
<1>6. ASSUME NEW x \in Foreign, ForeignOrder(x) PROVE T
  BY <1>1, <1>6, ForeignStep
<1>7. ASSUME NEW x \in Orders, NEW how \in EndedStatus, OrderEnds(x, how) PROVE T
  BY <1>1, <1>7, EndStep
<1>8. CASE CallbackRid \/ CallbackKey \/ CallbackSys \/ Deliver
  BY <1>1, <1>8, CallRidStep, CallKeyStep, CallSysStep, DeliverStep
<1>9. CASE Crash \/ Login
  BY <1>1, <1>9, CrashStep, LoginStep
<1>10. ASSUME NEW k \in Keys, RestoreKey(k) PROVE T
  BY <1>1, <1>10, RestoreStep
<1>11. CASE UNCHANGED tableVars
  BY <1>1, <1>11 DEF tableVars
<1>31. CASE LocateSlot
  BY <1>1, <1>31, LocateStep
<1>32. CASE RestoreRecord
  BY <1>1, <1>32, RestoreRecordStep
<1> QED
  BY <1>2, <1>3, <1>4, <1>5, <1>6, <1>7, <1>8, <1>9, <1>10, <1>11, <1>12, <1>31, <1>32, StepKinds

LEMMA KeyKept ==
  ASSUME TableInv, [TableNext]_tableVars, NEW o \in Orders, Needed(o)' \/ TradeDue(o)'
  PROVE  Key(o)' = Key(o)
<1> SUFFICES ASSUME o \in Own, InsertOrder(o) PROVE FALSE
  BY SessionKept DEF Needed, TradeDue
<1>1. /\ sent'[o].state = "none" /\ job'.stage # "send" /\ job'.order = o
      /\ UNCHANGED <<reports, cb>> /\ sent[o] = NotSent
  BY InsertStep
<1>2. \A kind \in Kinds : ~Has(o, kind)'
  <2>1. sent[o].state = "none"
    BY <1>1 DEF NotSent
  <2> QED
    BY <1>1, <2>1, HasSame, StatesDiffer DEF TableInv, ReportsOK
<1>3. cb'.order # o
  <2>1. sent[o].state = "none"
    BY <1>1 DEF NotSent
  <2>2. cb.order # o
    BY <2>1, AtWork, StatesDiffer, Consts DEF NoCall
  <2> QED
    BY <1>1, <2>2
<1>4. ~News(o)'
  BY <1>2, <1>3 DEF News
<1>5. ~Needed(o)'
  BY <1>1, <1>4, StatesDiffer DEF Needed
<1>6. ~TradeDue(o)'
  BY <1>1, <1>2, <1>3, StatesDiffer DEF TradeDue, Kinds
<1> QED
  BY <1>5, <1>6

(* Two orders have two keys. *)
LEMMA KeysDiffer == ASSUME TableInv, NEW o \in Orders, NEW x \in Orders, Key(o) = Key(x) PROVE o = x
BY KeyType DEF TableInv

(* A callback writes no slot whose order is still needed. *)
LEMMA CallWrites ==
  ASSUME TableInv, cb.stage \in {"rid", "key"}, NEW s \in Slots, s = cb.slot, NEW o \in Orders, o \notin strays,
         Needed(o) \/ TradeDue(o), slots[s].key = Key(o),
         slots[s].key # None /\ Busy(slots[s].key.order) => slots[s].key.order \in strays \cup {cb.order}
  PROVE  FALSE
<1>1. slots[s].key # None /\ slots[s].key.order = o
  BY KeyType DEF TableInv
<1>2. Spare(s) /\ WithKey(cb.key) = {}
  BY DEF TableInv, HalfWritten
<1>3. Busy(o) /\ slots[s].status \in EndedStatus
  BY <1>1, <1>2, SpareSlot
<1>4. cb.order = o
  BY <1>1, <1>3
<1>5. CASE cb.kind = "trade"
  BY <1>3, <1>4, <1>5 DEF TableInv, TradeNotRecorded, WithKey
<1>6. CASE cb.kind # "trade"
  <2>1. cb.key = Key(o)
    BY <1>4, <1>6, SlotKinds, AtWork
  <2> QED
    BY <1>2, <2>1 DEF WithKey
<1> QED
  BY <1>5, <1>6

LEMMA RidsNext == ASSUME TableInv, [TableNext]_tableVars PROVE RidsOK'
<1> SUFFICES ASSUME NEW o \in Orders, Needed(o)'
    PROVE  /\ \A s \in WithKey(Key(o))' : slots'[s].rid = RidOf(o)
           /\ Key(o)' \in DOMAIN saved' => saved'[Key(o)'].rid = RidOf(o)
  BY DEF RidsOK
<1>1. PICK k : k = Key(o) /\ Key(o)' = k
  BY KeyKept
<1> DEFINE S(s) == slots'[s].key = k => slots'[s].rid = RidOf(o)
           V == k \in DOMAIN saved' => saved'[k].rid = RidOf(o)
<1>2. SUFFICES V /\ \A s \in Slots : S(s)
  BY <1>1 DEF WithKey
<1>3. k \in Keys /\ k # None /\ k.order = o /\ k.whole
  BY <1>1, KeyType DEF TableInv
<1>4. /\ o \notin strays /\ o \notin strays'
      /\ \/ Needed(o)
         \/ RecordKey /\ o = job.order
         \/ o \in Foreign /\ sent[o].state = "none" /\ UNCHANGED <<slots, saved>>
  BY NeededBefore
<1>5. Needed(o) => (\A s \in Slots : slots[s].key = k => slots[s].rid = RidOf(o)) /\ (k \in DOMAIN saved => saved[k].rid = RidOf(o))
  BY <1>1 DEF TableInv, RidsOK, WithKey
<1>6. ~Known(o) => (\A s \in Slots : slots[s].key # k) /\ k \notin DOMAIN saved
  BY <1>3, SlotFacts DEF TableInv, RecordsOK
<1>7. ASSUME NEW s \in Slots, OnlySlot(s), Needed(o), S(s) PROVE \A t \in Slots : S(t)
  BY <1>5, <1>7 DEF OnlySlot
<1>8. ASSUME Needed(o), NEW j, NEW rid, NEW status, UNCHANGED saved \/ (SavedAt(j, rid, status) /\ (j = k => rid = RidOf(o)))
      PROVE  V
  BY <1>5, <1>8 DEF SavedAt
<1>9. CASE UNCHANGED <<slots, saved>>
  <2>1. CASE Needed(o)
    BY <1>5, <1>9, <2>1
  <2>2. CASE RecordKey /\ o = job.order
    <3>1. ~Known(o)
      BY <2>2, KeyStep, SlotKinds, JobAtWork DEF Known
    <3> QED
      BY <1>6, <1>9, <3>1
  <2>3. CASE o \in Foreign /\ sent[o].state = "none"
    <3>1. ~Known(o)
      BY <2>3, JobAtWork, OrdersAssumption, Consts DEF Known, NoJob
    <3> QED
      BY <1>6, <1>9, <3>1
  <2> QED
    BY <1>4, <2>1, <2>2, <2>3
<1>10. SUFFICES ASSUME ~UNCHANGED <<slots, saved>> PROVE V /\ \A s \in Slots : S(s)
  BY <1>9
<1>11. CASE RecordKey
  <2>1. PICK s \in Slots, x \in Own : s = job.slot /\ x = job.order /\ x \in Orders
    BY <1>11, KeyStep, SlotKinds, Consts
  <2>2. PICK j : j = Key(x) /\ j.order = x
    BY <2>1, KeyType DEF TableInv
  <2>3. /\ job.stage = "key" /\ OnlySlot(s) /\ slots'[s].key = j /\ slots'[s].rid = slots[s].rid
        /\ SavedAt(j, slots[s].rid, "inserted")
    BY <1>11, <2>1, <2>2, KeyStep, KeySaves DEF OnlySlot
  <2>4. CASE o = x
    <3>1. slots[s].rid = o /\ RidOf(o) = o
      BY <1>4, <2>1, <2>3, <2>4 DEF TableInv, HalfWritten, RidOf
    <3>2. ~Known(o)
      BY <2>1, <2>3, <2>4, SlotKinds, JobAtWork DEF Known
    <3>3. \A t \in Slots : S(t)
      BY <1>6, <2>3, <3>1, <3>2 DEF OnlySlot
    <3>4. V
      BY <1>6, <2>3, <3>1, <3>2 DEF SavedAt
    <3> QED
      BY <3>3, <3>4
  <2>5. CASE o # x
    <3>1. Needed(o)
      BY <1>4, <1>10, <2>1, <2>5
    <3>2. j # k
      BY <1>3, <2>2, <2>5
    <3>3. S(s) /\ V
      BY <1>8, <2>3, <3>1, <3>2
    <3> QED
      BY <1>7, <2>3, <3>1, <3>3
  <2> QED
    BY <2>4, <2>5
<1>12. SUFFICES ASSUME ~RecordKey PROVE V /\ \A s \in Slots : S(s)
  BY <1>11
<1>13. Needed(o)
  BY <1>4, <1>10, <1>12
<1>14. CASE RecordRid
  <2>1. PICK s \in Slots : s = job.slot
    BY <1>14, RidStep
  <2>2. /\ job.stage = "rid" /\ OnlySlot(s) /\ slots'[s].key = slots[s].key /\ UNCHANGED saved
        /\ slots[s].key # None /\ Busy(slots[s].key.order) => slots[s].key.order \in strays'
    BY <1>14, <2>1, RidStep DEF OnlySlot
  <2>3. slots[s].key # k
    <3>1. Spare(s)
      BY <2>1, <2>2 DEF TableInv, HalfWritten
    <3> QED
      BY <1>3, <1>4, <1>13, <2>2, <3>1, SpareSlot
  <2> QED
    BY <1>7, <1>8, <1>13, <2>2, <2>3
<1>15. ASSUME NEW x \in Orders, NEW kind \in Kinds \ {"trade"}, OnOrder(x, kind, StatusTold(x, kind)), WithKey(Key(x)) # {}
       PROVE  V /\ \A s \in Slots : S(s)
  <2>1. PICK j, st : j = Key(x) /\ st = StatusTold(x, kind)
    OBVIOUS
  <2>2. PICK s \in Slots :
           /\ slots[s].key = j /\ OnlySlot(s) /\ slots'[s].rid = slots[s].rid /\ slots'[s].key = j
           /\ SavedAt(j, slots[s].rid, st)
    BY <1>15, <2>1, OrderSaves
  <2>3. j = k => slots[s].rid = RidOf(o)
    BY <1>5, <1>13, <2>2
  <2> QED
    BY <1>7, <1>8, <1>13, <2>2, <2>3
<1>16. CASE CallbackRid
  <2>1. PICK s \in Slots : s = cb.slot
    BY <1>16, CallRidStep
  <2>2. /\ cb.stage = "rid" /\ OnlySlot(s) /\ slots'[s].key = slots[s].key /\ UNCHANGED saved
        /\ slots[s].key # None /\ Busy(slots[s].key.order) => slots[s].key.order \in strays' \cup {cb.order}
    BY <1>16, <2>1, CallRidStep DEF OnlySlot
  <2>3. slots[s].key # k
    BY <1>1, <1>3, <1>4, <1>13, <2>1, <2>2, CallWrites
  <2> QED
    BY <1>7, <1>8, <1>13, <2>2, <2>3
<1>17. CASE CallbackKey
  <2>1. PICK s \in Slots : s = cb.slot
    BY <1>17, CallKeyStep
  <2>2. PICK j, x, st : j = cb.key /\ x = cb.order /\ st = CallStatus
    OBVIOUS
  <2>3. /\ OnlySlot(s) /\ slots'[s].key = j /\ slots'[s].rid = slots[s].rid /\ SavedAt(j, slots[s].rid, st) /\ cb.stage = "key"
    BY <1>17, <2>1, <2>2, CallKeyStep, CallKeySaves DEF OnlySlot
  <2>4. j.order = x /\ up /\ toRestore = {}
    BY <2>2, <2>3, SlotKinds, AtWork
  <2>5. j = k => slots[s].rid = RidOf(o)
    <3>1. SUFFICES ASSUME j = k PROVE slots[s].rid = RidOf(o)
      OBVIOUS
    <3>2. o = x /\ WithKey(k) = {}
      BY <1>3, <2>2, <2>3, <2>4, <3>1 DEF TableInv, HalfWritten
    <3>3. slots[s].rid = direct
      BY <1>4, <2>1, <2>2, <2>3, <3>2 DEF TableInv, HalfWritten
    <3>4. o \notin Own
      BY <1>1, <1>13, <2>4, <3>2 DEF TableInv, Kept
    <3> QED
      BY <3>3, <3>4 DEF RidOf
  <2> QED
    BY <1>7, <1>8, <1>13, <2>3, <2>5
<1>18. CASE CallbackSys /\ WithKey(cb.key) # {}
  <2>1. PICK j : j = cb.key
    OBVIOUS
  <2>2. PICK s \in Slots :
           /\ slots[s].key = j /\ OnlySlot(s) /\ slots'[s].rid = slots[s].rid /\ slots'[s].key = j
           /\ SavedAt(j, slots[s].rid, slots[s].status)
    BY <1>18, <2>1, CallSysSaves
  <2>3. j = k => slots[s].rid = RidOf(o)
    BY <1>5, <1>13, <2>2
  <2> QED
    BY <1>7, <1>8, <1>13, <2>2, <2>3
<1>19. CASE Crash
  <2>1. UNCHANGED saved /\ \A t \in Slots : slots'[t] = Free
    BY <1>19, CrashStep
  <2> QED
    BY <1>3, <1>8, <1>13, <2>1 DEF Free
<1>20. ASSUME NEW j \in Keys, NEW s \in Slots, ReadBack(j, s) PROVE V /\ \A t \in Slots : S(t)
  <2>1. PICK r : r = CutKey(j)
    OBVIOUS
  <2>2. /\ j \in DOMAIN saved /\ OnlySlot(s) /\ UNCHANGED saved /\ slots'[s].key = r
        /\ slots'[s].rid = saved[j].rid /\ r.order = j.order /\ r.session = j.session
    BY <1>20, <2>1 DEF ReadBack
  <2>3. r = k => j = k
    <3>1. j.whole = TRUE /\ k.whole = TRUE
      <4>1. j.whole /\ j.whole \in BOOLEAN /\ k.whole \in BOOLEAN
        BY <1>3, <2>2 DEF TableInv, RecordsOK, Keys
      <4> QED
        BY <1>3, <4>1
    <3> QED
      BY <1>3, <2>2, <3>1 DEF Keys
  <2>4. S(s)
    BY <1>5, <1>13, <2>2, <2>3
  <2> QED
    BY <1>7, <1>8, <1>13, <2>2, <2>4
<1> QED
  BY <1>10, <1>12, <1>14, <1>15, <1>16, <1>17, <1>18, <1>19, <1>20, Writes

-----------------------------------------------------------------------------
(* The record of a needed order stays in the table, its copy in Redis. *)

LEMMA CallOverwrites ==
  ASSUME TableInv, cb.stage = "key", NEW s \in Slots, s = cb.slot, NEW o \in Orders, o \notin strays,
         Needed(o) \/ TradeDue(o)
  PROVE  slots[s].key # Key(o)
<1> SUFFICES ASSUME slots[s].key = Key(o) PROVE FALSE
  OBVIOUS
<1>1. slots[s].key # None /\ slots[s].key.order = o
  BY KeyType DEF TableInv
<1>2. o # cb.order => ~Busy(o)
  BY <1>1 DEF TableInv, HalfWritten
<1> QED
  BY <1>1, <1>2, CallWrites

LEMMA SavedGrow == ASSUME TableInv, [TableNext]_tableVars PROVE DOMAIN saved \subseteq DOMAIN saved'
<1> DEFINE T == DOMAIN saved \subseteq DOMAIN saved'
<1>1. \A k, rid, status : SavedAt(k, rid, status) => T
  BY DEF SavedAt
<1>2. CASE RecordRid \/ CallbackRid \/ Crash
  BY <1>2, RidStep, CallRidStep, CrashStep
<1>3. CASE RecordKey
  BY <1>1, <1>3, KeySaves
<1>4. ASSUME NEW x \in Orders, NEW kind \in Kinds \ {"trade"}, OnOrder(x, kind, StatusTold(x, kind)), WithKey(Key(x)) # {} PROVE T
  BY <1>1, <1>4, OrderSaves
<1>5. CASE CallbackKey
  BY <1>1, <1>5, CallKeySaves
<1>6. CASE CallbackSys /\ WithKey(cb.key) # {}
  BY <1>1, <1>6, CallSysSaves
<1>7. ASSUME NEW k \in Keys, NEW s \in Slots, ReadBack(k, s) PROVE T
  BY <1>7 DEF ReadBack
<1> HIDE DEF T
<1>8. UNCHANGED <<slots, saved>> => T
  BY DEF T
<1> QED
  BY <1>2, <1>3, <1>4, <1>5, <1>6, <1>7, <1>8, Writes DEF T

LEMMA UpChanges ==
  ASSUME TableInv, [TableNext]_tableVars
  PROVE  UNCHANGED <<up, toRestore>> \/ Login \/ Crash \/ (\E k \in Keys : RestoreKey(k)) \/ RestoreRecord
<1> DEFINE T == UNCHANGED <<up, toRestore>>
<1>1. ASSUME NEW x \in Own, InsertOrder(x) PROVE T
  BY <1>1, InsertStep
<1>2. ASSUME NEW x \in Orders, NEW k \in Kinds \ {"trade"}, OnOrder(x, k, StatusTold(x, k)) PROVE T
  BY <1>2, OnOrderStep
<1>3. ASSUME NEW x \in Orders, OnRtnTrade(x) PROVE T
  BY <1>3, OnTradeStep
<1>4. ASSUME NEW x \in Foreign, ForeignOrder(x) PROVE T
  BY <1>4, ForeignStep
<1>5. ASSUME NEW x \in Orders, NEW how \in EndedStatus, OrderEnds(x, how) PROVE T
  BY <1>5, EndStep
<1>6. CASE LocateSlot \/ RecordRid \/ RecordKey \/ Send
  BY <1>6, LocateStep, RidStep, KeyStep, SendStep
<1>7. CASE CallbackRid \/ CallbackKey \/ CallbackSys \/ Deliver
  BY <1>7, CallRidStep, CallKeyStep, CallSysStep, DeliverStep
<1>8. CASE UNCHANGED tableVars
  BY <1>8 DEF tableVars
<1> HIDE DEF T
<1> QED
  BY <1>1, <1>2, <1>3, <1>4, <1>5, <1>6, <1>7, <1>8, StepKinds DEF T

(* Steps that take no key that is needed out of the table *)
LEMMA KeyStays ==
  ASSUME NEW s \in Slots, NEW k, WithKey(k) # {}, TableInv, OnlySlot(s), slots[s].key = k => slots'[s].key = k
  PROVE  \E t \in Slots : slots'[t].key = k
BY DEF OnlySlot, WithKey

LEMMA KeptNext == ASSUME TableInv, [TableNext]_tableVars PROVE Kept'
<1> SUFFICES ASSUME NEW o \in Own, Needed(o)'
    PROVE  /\ Key(o)' \in DOMAIN saved'
           /\ WithKey(Key(o))' # {} \/ (o \in ShortKeys /\ (~up' \/ Key(o)' \in toRestore'))
  BY DEF Kept
<1>0. o \in Orders /\ o \notin Foreign
  BY Consts, OrdersAssumption
<1>1. PICK k : k = Key(o) /\ Key(o)' = k
  BY <1>0, KeyKept
<1> DEFINE W == \E s \in Slots : slots'[s].key = k
           T == k \in DOMAIN saved' /\ (W \/ (o \in ShortKeys /\ (~up' \/ k \in toRestore')))
<1>2. SUFFICES T
  BY <1>1 DEF WithKey
<1>3. k \in Keys /\ k # None /\ k.order = o /\ k.whole
  BY <1>0, <1>1, KeyType DEF TableInv
<1>4. /\ o \notin strays /\ o \notin strays'
      /\ Needed(o) \/ (RecordKey /\ o = job.order)
  BY <1>0, NeededBefore
<1>5. Needed(o) => /\ k \in DOMAIN saved'
                   /\ WithKey(k) # {} \/ (o \in ShortKeys /\ (~up \/ k \in toRestore))
  BY <1>1, SavedGrow DEF TableInv, Kept
<1>6. CASE RecordKey
  <2>1. PICK s \in Slots, x \in Own : s = job.slot /\ x = job.order /\ x \in Orders
    BY <1>6, KeyStep, SlotKinds, Consts
  <2>2. /\ job.stage = "key" /\ OnlySlot(s) /\ slots'[s].key = Key(x) /\ SavedAt(Key(x), slots[s].rid, "inserted")
        /\ slots[s].key # None /\ Busy(slots[s].key.order) => slots[s].key.order \in strays'
    BY <1>6, <2>1, KeyStep, KeySaves DEF OnlySlot
  <2>3. CASE o = x
    BY <1>1, <2>2, <2>3 DEF SavedAt
  <2>4. CASE o # x
    <3>1. Needed(o) /\ up /\ toRestore' = toRestore
      BY <1>4, <1>6, <2>1, <2>2, <2>4, SlotKinds, JobAtWork, KeyStep
    <3>2. slots[s].key # k
      <4>1. Spare(s)
        BY <2>1, <2>2 DEF TableInv, HalfWritten
      <4> QED
        BY <1>3, <1>4, <2>2, <3>1, <4>1, SpareSlot
    <3>3. WithKey(k) # {} => W
      BY <2>2, <3>2, KeyStays
    <3> QED
      BY <1>5, <3>1, <3>3
  <2> QED
    BY <2>3, <2>4
<1>7. SUFFICES ASSUME ~RecordKey PROVE T
  BY <1>6
<1>8. Needed(o) /\ k \in DOMAIN saved'
  BY <1>4, <1>5, <1>7
<1>9. ASSUME WithKey(k) # {} => W, k \in toRestore => k \in toRestore' \/ W, ~up => ~up' \/ (k \in toRestore')
      PROVE  T
  BY <1>5, <1>8, <1>9
<1>10. CASE Login
  <2>1. UNCHANGED slots /\ UNCHANGED saved /\ toRestore' = DOMAIN saved
    BY <1>10, LoginStep
  <2>2. WithKey(k) # {} => W
    BY <2>1 DEF WithKey
  <2> QED
    BY <1>8, <1>9, <2>1, <2>2
<1>11. CASE Crash
  <2>1. up' = FALSE /\ strays' = strays \cup (Own \ ShortKeys)
    BY <1>11, CrashStep
  <2> QED
    BY <1>4, <1>8, <2>1
<1>12. ASSUME NEW j \in Keys, RestoreKey(j) PROVE T
  <2>1. /\ UNCHANGED <<slots, up>> /\ j \in toRestore
        /\ (WithKey(j) # {} /\ toRestore' = toRestore \ {j}) \/ toRestore' = toRestore
    BY <1>12, RestoreStep
  <2>2. WithKey(k) # {} => W
    BY <2>1 DEF WithKey
  <2>3. k \in toRestore => k \in toRestore' \/ W
    BY <2>1, <2>2
  <2> QED
    BY <1>5, <1>8, <2>1, <2>2, <2>3
<1>22. CASE RestoreRecord
  <2>1. PICK j \in Keys, s \in Slots : j = restoring.key /\ s = restoring.slot
    BY <1>22, RestoreRecordStep
  <2>2. /\ UNCHANGED up /\ j \in toRestore /\ toRestore' = toRestore \ {j}
        /\ Spare(s) /\ OnlySlot(s) /\ slots'[s].key = CutKey(j)
    BY <1>22, <2>1, RestoreRecordStep DEF OnlySlot
  <2>3. slots[s].key # k
    <3>1. cb = NoCall /\ toRestore # {}
      BY <2>2 DEF TableInv, Phases
    <3>2. cb.order # o
      BY <1>0, <3>1, Consts DEF NoCall
    <3> QED
      BY <1>3, <1>4, <1>8, <2>2, <3>1, <3>2, SpareSlot DEF News
  <2>4. WithKey(k) # {} => W
    BY <2>2, <2>3, KeyStays
  <2>5. j = k /\ o \in ShortKeys => W
    <3>1. SUFFICES ASSUME j = k, o \in ShortKeys PROVE CutKey(k) = k
      BY <2>2
    <3>2. k.whole = TRUE /\ (k.order \in ShortKeys) = TRUE
      BY <1>3, <3>1 DEF Keys
    <3>3. [k EXCEPT !.whole = TRUE] = k
      BY <1>3, <3>2 DEF Keys
    <3> QED
      BY <3>2, <3>3, Zenon DEF CutKey
  <2>6. k \in toRestore => k \in toRestore' \/ j = k
    BY <2>2
  <2> QED
    BY <1>5, <1>8, <2>2, <2>4, <2>5, <2>6
<1>13. SUFFICES ASSUME UNCHANGED <<up, toRestore>> PROVE WithKey(k) # {} => W
  BY <1>9, <1>10, <1>11, <1>12, <1>22, UpChanges
<1> HIDE DEF W
<1>14. UNCHANGED <<slots, saved>> => (WithKey(k) # {} => W)
  BY DEF W, WithKey
<1>15. CASE RecordRid
  BY <1>15, RidStep DEF W, WithKey
<1>16. ASSUME NEW x \in Orders, NEW kind \in Kinds \ {"trade"}, OnOrder(x, kind, StatusTold(x, kind)), WithKey(Key(x)) # {}
       PROVE  WithKey(k) # {} => W
  <2>1. PICK s \in Slots : slots[s].key = Key(x) /\ OnlySlot(s) /\ slots'[s].key = Key(x)
    BY <1>16, OrderSaves
  <2> QED
    BY <2>1, KeyStays DEF W
<1>17. CASE CallbackRid
  BY <1>17, CallRidStep DEF W, WithKey
<1>18. CASE CallbackKey
  <2>1. PICK s \in Slots : s = cb.slot
    BY <1>18, CallKeyStep
  <2>2. OnlySlot(s) /\ cb.stage = "key"
    BY <1>18, <2>1, CallKeyStep DEF OnlySlot
  <2>3. slots[s].key # k
    BY <1>0, <1>1, <1>4, <1>8, <2>1, <2>2, CallOverwrites
  <2> QED
    BY <2>2, <2>3, KeyStays DEF W
<1>19. CASE CallbackSys /\ WithKey(cb.key) # {}
  <2>1. PICK s \in Slots : slots[s].key = cb.key /\ OnlySlot(s) /\ slots'[s].key = cb.key
    BY <1>19, CallSysSaves
  <2> QED
    BY <2>1, KeyStays DEF W
<1>20. CASE Crash
  BY <1>13, <1>20, CrashStep
<1>21. ASSUME NEW j \in Keys, NEW s \in Slots, ReadBack(j, s) PROVE FALSE
  BY <1>13, <1>21 DEF ReadBack
<1> QED
  BY <1>7, <1>14, <1>15, <1>16, <1>17, <1>18, <1>19, <1>20, <1>21, Writes

-----------------------------------------------------------------------------
(* The exchange id of an order is in no other record while trades can come. *)

LEMMA SessionGrows == ASSUME TableInv, [TableNext]_tableVars PROVE session' = session \/ (Login /\ session' = session + 1)
<1> DEFINE T == session' = session
<1>1. ASSUME NEW x \in Own, InsertOrder(x) PROVE T
  BY <1>1, InsertStep
<1>2. ASSUME NEW x \in Orders, NEW k \in Kinds \ {"trade"}, OnOrder(x, k, StatusTold(x, k)) PROVE T
  BY <1>2, OnOrderStep
<1>3. ASSUME NEW x \in Orders, OnRtnTrade(x) PROVE T
  BY <1>3, OnTradeStep
<1>4. ASSUME NEW x \in Foreign, ForeignOrder(x) PROVE T
  BY <1>4, ForeignStep
<1>5. ASSUME NEW x \in Orders, NEW how \in EndedStatus, OrderEnds(x, how) PROVE T
  BY <1>5, EndStep
<1>6. CASE RecordRid \/ RecordKey \/ Send
  BY <1>6, RidStep, KeyStep, SendStep
<1>7. CASE CallbackRid \/ CallbackKey \/ CallbackSys \/ Deliver
  BY <1>7, CallRidStep, CallKeyStep, CallSysStep, DeliverStep
<1>8. CASE UNCHANGED tableVars
  BY <1>8 DEF tableVars
<1>9. Login => session' = session + 1
  BY LoginStep
<1>10. Crash => T
  BY CrashStep
<1>11. ASSUME NEW k \in Keys, RestoreKey(k) PROVE T
  BY <1>11, RestoreStep
<1>31. CASE LocateSlot
  BY <1>31, LocateStep
<1>32. CASE RestoreRecord
  BY <1>32, RestoreRecordStep
<1> HIDE DEF T
<1> QED
  BY <1>1, <1>2, <1>3, <1>4, <1>5, <1>6, <1>7, <1>8, <1>9, <1>10, <1>11, <1>31, <1>32, StepKinds DEF T

Early(o) == o \in Foreign \/ sent[o].session < session

LEMMA EarlyKept ==
  ASSUME TableInv, [TableNext]_tableVars, NEW o \in Orders, Early(o), Key(o)' = Key(o)
  PROVE  Early(o)'
<1>1. sent'[o].session = sent[o].session /\ sent[o].session \in Int /\ session \in Int
  <2>1. Key(o)'.session = sent'[o].session /\ Key(o).session = sent[o].session
    BY DEF Key
  <2> QED
    BY <2>1, Typed DEF TableInv, SentType, Sessions
<1> QED
  BY <1>1, SessionGrows DEF Early

LEMMA SysNext == ASSUME TableInv, [TableNext]_tableVars PROVE SysOK'
<1> SUFFICES ASSUME NEW o \in Orders, TradeDue(o)', NEW t \in Slots, slots'[t].sys = o
    PROVE  /\ slots'[t].key # None /\ slots'[t].key.order = o
           /\ slots'[t].key = Key(o)' \/ (slots'[t].rid = direct /\ Early(o)')
  BY DEF SysOK, WithSys, Early
<1>1. PICK k : k = Key(o) /\ Key(o)' = k
  BY KeyKept
<1> DEFINE E == Early(o)'
           T == /\ slots'[t].key # None /\ slots'[t].key.order = o
                /\ slots'[t].key = k \/ (slots'[t].rid = direct /\ E)
<1>2. SUFFICES T
  BY <1>1
<1>3. k \in Keys /\ k # None /\ k.order = o
  BY <1>1, KeyType DEF TableInv
<1>4. /\ o \notin strays /\ o \notin strays'
      /\ TradeDue(o) \/ sent[o].state \notin AtExchange
  BY DueBefore
<1>5. slots[t].sys = o => TradeDue(o)
  BY <1>4, SlotFacts, Consts
<1>6. Early(o) => E
  BY <1>1, EarlyKept
<1> HIDE DEF E
<1>7. slots[t].sys = o => /\ slots[t].key # None /\ slots[t].key.order = o
                          /\ slots[t].key = k \/ (slots[t].rid = direct /\ E)
  BY <1>1, <1>5, <1>6 DEF TableInv, SysOK, WithSys, Early
<1>8. slots'[t] = slots[t] => T
  BY <1>7
<1>9. ASSUME NEW s \in Slots, OnlySlot(s) PROVE s = t \/ T
  BY <1>8, <1>9 DEF OnlySlot
<1>10. slots[t].sys = o /\ Spare(t) => Busy(o) /\ sent[o].state \in EndedStatus
  BY <1>4, <1>5, <1>7, SpareSlot
<1>11. CASE RecordRid \/ RecordKey
  <2>1. PICK s \in Slots : s = job.slot
    BY <1>11, RidStep, KeyStep
  <2>2. /\ job.stage \in {"rid", "key"} /\ OnlySlot(s) /\ slots'[s].sys = slots[s].sys
        /\ slots[s].key # None /\ Busy(slots[s].key.order) => slots[s].key.order \in strays'
    BY <1>11, <2>1, RidStep, KeyStep DEF OnlySlot
  <2>3. Spare(s)
    BY <2>1, <2>2 DEF TableInv, HalfWritten
  <2> QED
    BY <1>4, <1>7, <1>9, <1>10, <2>2, <2>3
<1>12. ASSUME NEW x \in Orders, NEW kind \in Kinds \ {"trade"}, OnOrder(x, kind, StatusTold(x, kind)), WithKey(Key(x)) # {}
       PROVE  T
  <2>1. PICK s \in Slots : /\ slots[s].key = Key(x) /\ OnlySlot(s) /\ slots'[s].key = Key(x)
                           /\ slots'[s].rid = slots[s].rid /\ slots'[s].sys = slots[s].sys
    BY <1>12, OrderSaves
  <2> QED
    BY <1>7, <1>9, <2>1
<1>13. CASE CallbackRid
  <2>1. PICK s \in Slots : s = cb.slot
    BY <1>13, CallRidStep
  <2>2. /\ cb.stage = "rid" /\ OnlySlot(s) /\ slots'[s].sys = slots[s].sys /\ slots'[s].key = slots[s].key
        /\ slots'[s].rid = direct
        /\ slots[s].key # None /\ Busy(slots[s].key.order) => slots[s].key.order \in strays' \cup {cb.order}
    BY <1>13, <2>1, CallRidStep DEF OnlySlot
  <2>3. CASE slots[t].key = k /\ s = t
    <3>1. slots[s].key # None /\ Busy(slots[s].key.order) => slots[s].key.order \in strays \cup {cb.order}
      BY <1>3, <1>4, <2>2, <2>3
    <3>2. TradeDue(o)
      BY <1>5, <2>2, <2>3
    <3>3. FALSE
      BY <1>1, <1>4, <2>1, <2>2, <2>3, <3>1, <3>2, CallWrites
    <3> QED
      BY <3>3
  <2> QED
    BY <1>7, <1>9, <2>2, <2>3
<1>14. CASE CallbackKey
  <2>1. PICK s \in Slots : s = cb.slot
    BY <1>14, CallKeyStep
  <2>2. /\ cb.stage = "key" /\ OnlySlot(s) /\ slots'[s].sys = slots[s].sys /\ slots'[s].key = cb.key
    BY <1>14, <2>1, CallKeyStep DEF OnlySlot
  <2>3. CASE s = t
    <3>1. Busy(o)
      BY <1>10, <2>1, <2>2, <2>3 DEF TableInv, HalfWritten
    <3>2. o = cb.order
      BY <1>4, <1>7, <2>1, <2>2, <2>3, <3>1 DEF TableInv, HalfWritten
    <3>3. cb.kind # "trade"
      BY <2>2, <2>3, <3>2 DEF TableInv, TradeNotRecorded, WithSys
    <3>4. cb.key = k
      BY <1>1, <2>2, <3>2, <3>3, SlotKinds, AtWork
    <3> QED
      BY <1>3, <2>2, <2>3, <3>4
  <2> QED
    BY <1>9, <2>2, <2>3
<1>15. CASE CallbackSys /\ WithKey(cb.key) # {}
  <2>1. PICK j : j = cb.key
    OBVIOUS
  <2>2. PICK s \in Slots :
           /\ slots[s].key = j /\ OnlySlot(s) /\ slots'[s].rid = slots[s].rid /\ slots'[s].key = j
           /\ slots'[s].sys = cb.order
    BY <1>15, <2>1, CallSysSaves
  <2>3. cb.stage = "sys" /\ cb # NoCall
    BY <1>15, CallSysStep, SlotKinds
  <2>4. CASE s = t
    <3>1. cb.order = o /\ j.order = o /\ j # None
      BY <2>1, <2>2, <2>3, <2>4, AtWork
    <3>2. CASE j = k
      BY <2>2, <2>4, <3>1, <3>2
    <3>3. CASE j # k
      <4>1. cb.kind = "trade" /\ j = TradeKey(o)
        BY <1>1, <2>1, <2>3, <3>1, <3>3, AtWork
      <4>2. slots[s].rid = direct
        BY <1>4, <2>1, <2>2, <2>3, <3>1, <4>1 DEF TableInv, TradeRecorded, WithKey
      <4>3. Early(o)
        <5>1. sent[o].session # session
          BY <1>1, <3>3, <4>1 DEF TradeKey, Key
        <5>2. sent[o].session <= session /\ sent[o].session \in Int /\ session \in Int
          BY Typed DEF TableInv, Phases, SentType, Sessions
        <5> QED
          BY <5>1, <5>2 DEF Early
      <4> QED
        BY <1>6, <2>2, <2>4, <3>1, <4>2, <4>3
    <3> QED
      BY <3>2, <3>3
  <2> QED
    BY <1>9, <2>2, <2>4
<1>16. CASE Crash
  <2>1. slots'[t] = Free
    BY <1>16, CrashStep
  <2> QED
    BY <2>1, Consts DEF Free
<1>17. ASSUME NEW j \in Keys, NEW s \in Slots, ReadBack(j, s) PROVE T
  <2>1. /\ Spare(s) /\ OnlySlot(s) /\ slots'[s].sys = slots[s].sys /\ toRestore # {}
    BY <1>17 DEF ReadBack
  <2>2. CASE s = t
    <3>1. slots[t].sys = o /\ Spare(t) /\ slots[t].key # None /\ slots[t].key.order = o /\ TradeDue(o)
      BY <1>5, <1>7, <2>1, <2>2
    <3>2. cb.order # o
      BY <2>1, Consts DEF TableInv, Phases, NoCall
    <3>3. FALSE
      BY <1>4, <2>1, <3>1, <3>2, SpareSlot DEF News
    <3> QED
      BY <3>3
  <2> QED
    BY <1>9, <2>1, <2>2
<1> QED
  BY <1>8, <1>11, <1>12, <1>13, <1>14, <1>15, <1>16, <1>17, Writes

-----------------------------------------------------------------------------
(* Calls that go on, and what the listening thread writes meanwhile. *)

LEMMA CallMoves ==
  ASSUME TableInv, [TableNext]_tableVars
  PROVE  \/ UNCHANGED cb
         \/ \E o \in Orders, kind \in Kinds \ {"trade"} : OnOrder(o, kind, StatusTold(o, kind))
         \/ \E o \in Orders : OnRtnTrade(o)
         \/ CallbackRid \/ CallbackKey \/ CallbackSys
         \/ Deliver \/ Crash
<1> DEFINE T == UNCHANGED cb
<1>1. ASSUME NEW x \in Own, InsertOrder(x) PROVE T
  BY <1>1, InsertStep
<1>2. ASSUME NEW x \in Foreign, ForeignOrder(x) PROVE T
  BY <1>2, ForeignStep
<1>3. ASSUME NEW x \in Orders, NEW how \in EndedStatus, OrderEnds(x, how) PROVE T
  BY <1>3, EndStep
<1>4. CASE RecordRid \/ RecordKey \/ Send
  BY <1>4, RidStep, KeyStep, SendStep
<1>5. CASE Login
  BY <1>5, LoginStep
<1>6. CASE UNCHANGED tableVars
  BY <1>6 DEF tableVars
<1>7. ASSUME NEW k \in Keys, RestoreKey(k) PROVE T
  BY <1>7, RestoreStep
<1>31. CASE LocateSlot
  BY <1>31, LocateStep
<1>32. CASE RestoreRecord
  BY <1>32, RestoreRecordStep
<1> QED
  BY <1>1, <1>2, <1>3, <1>4, <1>5, <1>6, <1>7, <1>31, <1>32, StepKinds

(* What the listening thread writes *)
JobWrites(s) ==
  /\ s = job.slot /\ job.stage \in {"rid", "key"} /\ OnlySlot(s) /\ Spare(s)
  /\ UNCHANGED <<cb, sent, reports, up, toRestore>> /\ slots'[s].sys = slots[s].sys
  /\ slots[s].key # None /\ Busy(slots[s].key.order) => slots[s].key.order \in strays'
  /\ \/ /\ job.stage = "rid" /\ job'.stage = "key"
        /\ slots'[s].key = slots[s].key /\ slots'[s].status = slots[s].status /\ slots'[s].rid = job.order
     \/ /\ job.stage = "key" /\ job'.stage = "send"
        /\ slots'[s].key = Key(job.order) /\ slots'[s].status = "inserted" /\ slots'[s].rid = slots[s].rid
  /\ job.order # None /\ job.order # cb.order /\ job.order \in Orders
  /\ Key(job.order) # None /\ Key(job.order).order = job.order
  /\ job'.slot = job.slot /\ job'.order = job.order

LEMMA JobWriting ==
  ASSUME TableInv, RecordRid \/ RecordKey PROVE \E s \in Slots : JobWrites(s)
<1>1. PICK s \in Slots : s = job.slot
  BY RidStep, KeyStep
<1>2. job.stage \in {"rid", "key"}
  BY RidStep, KeyStep
<1>3. Spare(s)
  BY <1>1, <1>2 DEF TableInv, HalfWritten
<1>4. /\ job.order # None /\ job.order # cb.order /\ job.order \in Orders
      /\ Key(job.order) # None /\ Key(job.order).order = job.order
  BY <1>2, SlotKinds, JobAtWork
<1>5. CASE RecordRid
  <2>1. /\ OnlySlot(s) /\ UNCHANGED <<cb, sent, reports, up, toRestore>> /\ slots'[s].sys = slots[s].sys
        /\ slots[s].key # None /\ Busy(slots[s].key.order) => slots[s].key.order \in strays'
        /\ job.stage = "rid" /\ job'.stage = "key"
        /\ slots'[s].key = slots[s].key /\ slots'[s].status = slots[s].status /\ slots'[s].rid = job.order
        /\ job'.slot = job.slot /\ job'.order = job.order
    BY <1>1, <1>5, RidStep DEF OnlySlot
  <2> QED
    BY <1>1, <1>2, <1>3, <1>4, <2>1 DEF JobWrites
<1>6. CASE RecordKey
  <2>1. /\ OnlySlot(s) /\ UNCHANGED <<cb, sent, reports, up, toRestore>> /\ slots'[s].sys = slots[s].sys
        /\ slots[s].key # None /\ Busy(slots[s].key.order) => slots[s].key.order \in strays'
        /\ job.stage = "key" /\ job'.stage = "send"
        /\ slots'[s].key = Key(job.order) /\ slots'[s].status = "inserted" /\ slots'[s].rid = slots[s].rid
        /\ job'.slot = job.slot /\ job'.order = job.order
    BY <1>1, <1>6, KeyStep DEF OnlySlot
  <2> QED
    BY <1>1, <1>2, <1>3, <1>4, <2>1 DEF JobWrites
<1> QED
  BY <1>5, <1>6

LEMMA CallWaits ==
  ASSUME TableInv, [TableNext]_tableVars, UNCHANGED cb, cb # NoCall
  PROVE  UNCHANGED <<slots, saved>> \/ \E s \in Slots : JobWrites(s)
<1>1. ASSUME NEW x \in Orders, NEW k \in Kinds \ {"trade"}, OnOrder(x, k, StatusTold(x, k)) PROVE FALSE
  BY <1>1, OnOrderStep
<1>2. ~CallbackRid
  BY CallRidStep
<1>3. ~CallbackKey
  BY CallKeyStep
<1>4. ~CallbackSys
  BY CallSysStep
<1>5. ~Crash
  BY CrashStep
<1>6. ASSUME NEW k \in Keys, NEW s \in Slots, ReadBack(k, s) PROVE FALSE
  BY <1>6 DEF ReadBack, TableInv, Phases
<1> QED
  BY <1>1, <1>2, <1>3, <1>4, <1>5, <1>6, JobWriting, Writes

LEMMA CallKeyStays == ASSUME TableInv, [TableNext]_tableVars, NEW o \in Orders, sent[o].state \in AtExchange
                      PROVE  Key(o)' = Key(o)
BY StateSteps DEF Key

LEMMA CallKnownNext == ASSUME TableInv, [TableNext]_tableVars PROVE CallKnown'
<1> SUFFICES ASSUME cb'.order \notin strays', cb'.kind # "trade", cb'.stage \in {"sys", "deliver"}
    PROVE  \E s \in Slots : slots'[s].key = cb'.key
  BY DEF CallKnown, WithKey
<1>1. CASE UNCHANGED cb
  <2>1. cb # NoCall
    BY <1>1 DEF NoCall
  <2>2. cb.order \notin strays /\ WithKey(cb.key) # {}
    BY <1>1, StraysGrow DEF TableInv, CallKnown
  <2>3. cb.key # None /\ cb.key.order = cb.order
    BY <2>1, AtWork
  <2>4. CASE UNCHANGED <<slots, saved>>
    BY <1>1, <2>2, <2>4 DEF WithKey
  <2>5. ASSUME NEW s \in Slots, JobWrites(s) PROVE \E t \in Slots : slots'[t].key = cb'.key
    <3>1. slots[s].key # cb.key
      BY <1>1, <2>3, <2>5 DEF JobWrites, Busy
    <3> QED
      BY <1>1, <2>2, <2>5, <3>1, KeyStays DEF JobWrites
  <2> QED
    BY <1>1, <2>1, <2>4, <2>5, CallWaits
<1>2. ASSUME NEW x \in Orders, NEW k \in Kinds \ {"trade"}, OnOrder(x, k, StatusTold(x, k))
      PROVE  \E t \in Slots : slots'[t].key = cb'.key
  <2>1. cb'.key = Key(x) /\ WithKey(Key(x)) # {}
    BY <1>2, OnOrderStep
  <2> QED
    BY <1>2, <2>1, OrderSaves
<1>3. ASSUME NEW x \in Orders, OnRtnTrade(x) PROVE FALSE
  BY <1>3, OnTradeStep
<1>4. ~CallbackRid
  BY CallRidStep
<1>5. CASE CallbackKey
  BY <1>5, CallKeyStep
<1>6. CASE CallbackSys
  <2>1. cb.stage = "sys" /\ cb'.order = cb.order /\ cb'.kind = cb.kind /\ cb'.key = cb.key
    <3>1. cb' # NoCall
      BY DEF NoCall
    <3> QED
      BY <1>6, <3>1, CallSysStep
  <2>2. WithKey(cb.key) # {}
    BY <2>1, StraysGrow DEF TableInv, CallKnown
  <2> QED
    BY <1>6, <2>1, <2>2, CallSysSaves
<1>7. ~Deliver /\ ~Crash
  <2>1. cb' # NoCall
    BY DEF NoCall
  <2> QED
    BY <2>1, DeliverStep, CrashStep
<1> QED
  BY <1>1, <1>2, <1>3, <1>4, <1>5, <1>6, <1>7, CallMoves

LEMMA TradeRecordedNext == ASSUME TableInv, [TableNext]_tableVars PROVE TradeRecorded'
<1> SUFFICES ASSUME cb'.stage = "sys", cb'.kind = "trade", cb'.order \notin strays', NEW t \in Slots, slots'[t].key = cb'.key
    PROVE  slots'[t].rid = direct
  BY DEF TradeRecorded, WithKey
<1>1. CASE UNCHANGED cb
  <2>1. cb # NoCall
    BY <1>1 DEF NoCall
  <2>2. cb.order \notin strays /\ \A s \in Slots : slots[s].key = cb.key => slots[s].rid = direct
    BY <1>1, StraysGrow DEF TableInv, TradeRecorded, WithKey
  <2>3. cb.key # None /\ cb.key.order = cb.order
    BY <2>1, AtWork
  <2>4. CASE UNCHANGED <<slots, saved>>
    BY <1>1, <2>2, <2>4
  <2>5. ASSUME NEW s \in Slots, JobWrites(s) PROVE slots'[t].rid = direct
    <3>1. slots[s].key # cb.key
      BY <1>1, <2>3, <2>5 DEF JobWrites, Busy
    <3>2. slots'[s].key # cb.key
      BY <2>3, <2>5, <3>1 DEF JobWrites
    <3> QED
      BY <1>1, <2>2, <2>5, <3>2 DEF JobWrites, OnlySlot
  <2> QED
    BY <1>1, <2>1, <2>4, <2>5, CallWaits
<1>2. ASSUME NEW x \in Orders, NEW k \in Kinds \ {"trade"}, OnOrder(x, k, StatusTold(x, k)) PROVE FALSE
  BY <1>2, OnOrderStep
<1>3. ASSUME NEW x \in Orders, OnRtnTrade(x) PROVE FALSE
  BY <1>3, OnTradeStep
<1>4. ~CallbackRid
  BY CallRidStep
<1>5. CASE CallbackKey
  <2>1. /\ cb.stage = "key" /\ cb'.order = cb.order /\ cb'.key = cb.key /\ cb.slot \in Slots
        /\ \A s \in Slots : s # cb.slot => slots'[s] = slots[s]
        /\ slots'[cb.slot].rid = slots[cb.slot].rid
    BY <1>5, CallKeyStep
  <2>2. WithKey(cb.key) = {} /\ cb.order \notin strays
    BY <2>1, StraysGrow DEF TableInv, HalfWritten
  <2>3. slots[cb.slot].rid = direct
    BY <2>1, <2>2 DEF TableInv, HalfWritten
  <2>4. t = cb.slot
    BY <2>1, <2>2 DEF WithKey
  <2> QED
    BY <2>1, <2>3, <2>4
<1>6. ~CallbackSys
  <2>1. cb' # NoCall
    BY DEF NoCall
  <2> QED
    BY <2>1, CallSysStep
<1>7. ~Deliver /\ ~Crash
  <2>1. cb' # NoCall
    BY DEF NoCall
  <2> QED
    BY <2>1, DeliverStep, CrashStep
<1> QED
  BY <1>1, <1>2, <1>3, <1>4, <1>5, <1>6, <1>7, CallMoves

-----------------------------------------------------------------------------
(* A trade finds the record that ended its order by its exchange id. *)

LEMMA SysStays ==
  ASSUME TableInv, [TableNext]_tableVars, NEW o \in Orders, TradeDue(o), ~Crash, NEW t \in Slots, slots[t].sys = o
  PROVE  slots'[t].sys = o
<1> DEFINE T == slots'[t].sys = o
<1>1. slots'[t].sys = slots[t].sys => T
  OBVIOUS
<1>2. ASSUME NEW s \in Slots, OnlySlot(s), slots'[s].sys = slots[s].sys PROVE T
  BY <1>2 DEF OnlySlot
<1>3. CASE RecordRid \/ RecordKey
  BY <1>2, <1>3, JobWriting DEF JobWrites
<1>4. ASSUME NEW x \in Orders, NEW kind \in Kinds \ {"trade"}, OnOrder(x, kind, StatusTold(x, kind)), WithKey(Key(x)) # {}
      PROVE  T
  BY <1>2, <1>4, OrderSaves
<1>5. CASE CallbackRid
  BY <1>2, <1>5, CallRidStep DEF OnlySlot
<1>6. CASE CallbackKey
  BY <1>2, <1>6, CallKeyStep DEF OnlySlot
<1>7. CASE CallbackSys /\ WithKey(cb.key) # {}
  <2>1. PICK s \in Slots : slots[s].key = cb.key /\ OnlySlot(s) /\ slots'[s].sys = cb.order
    BY <1>7, CallSysSaves
  <2>2. cb # NoCall
    BY <1>7, CallSysStep, SlotKinds
  <2>3. CASE s = t
    <3>1. slots[t].key.order = o
      BY DEF TableInv, SysOK, WithSys
    <3>2. cb.order = o
      BY <2>1, <2>2, <2>3, <3>1, AtWork
    <3> QED
      BY <2>1, <2>3, <3>2
  <2> QED
    BY <2>1, <2>3 DEF OnlySlot
<1>8. ASSUME NEW j \in Keys, NEW s \in Slots, ReadBack(j, s) PROVE T
  BY <1>2, <1>8 DEF ReadBack
<1> QED
  BY <1>1, <1>3, <1>4, <1>5, <1>6, <1>7, <1>8, Writes

LEMMA SysKnownNext == ASSUME TableInv, [TableNext]_tableVars PROVE SysKnown'
<1> SUFFICES ASSUME NEW o \in Orders, o \notin strays', Has(o, "trade")',
                    NEW t \in Slots, slots'[t].key = Key(o)', slots'[t].status \in EndedStatus
    PROVE  (\E s \in Slots : slots'[s].sys = o) \/ (cb'.order = o /\ cb'.stage = "sys" /\ cb'.key = Key(o)')
  BY DEF SysKnown, WithKey, WithSys
<1>0. "trade" \in Kinds \ {"query"} /\ "trade" \in Kinds /\ o \notin strays
  BY StraysGrow DEF Kinds
<1>1. Has(o, "trade")
  <2> SUFFICES ASSUME ~Has(o, "trade") PROVE FALSE
    OBVIOUS
  <2>1. sent[o].state = "live" /\ UNCHANGED slots
    BY <1>0, HasSteps
  <2>2. Key(o)' = Key(o)
    BY <2>1, StatesDiffer, CallKeyStays
  <2>3. slots[t].key = Key(o) /\ slots[t].status \in EndedStatus
    BY <2>1, <2>2
  <2>4. sent[o].state \in EndedStatus
    BY <2>3, KeyType, SlotFacts DEF EndKnown, TableInv
  <2> QED
    BY <2>1, <2>4, StatesDiffer
<1>2. TradeDue(o) /\ sent[o].state \in AtExchange
  BY <1>0, <1>1 DEF TradeDue, TableInv, ReportsOK
<1>3. PICK k : k = Key(o) /\ Key(o)' = k
  BY <1>2, CallKeyStays
<1>4. k \in Keys /\ k # None /\ k.order = o
  BY <1>3, KeyType DEF TableInv
<1> DEFINE T == (\E s \in Slots : slots'[s].sys = o) \/ (cb'.order = o /\ cb'.stage = "sys" /\ cb'.key = k)
<1>5. SUFFICES T
  BY <1>3
<1>6. slots'[t].key = k /\ slots'[t].status \in EndedStatus
  BY <1>3
<1>7. ~Crash
  BY CrashStep DEF Has
<1>8. CASE slots[t].key = k /\ slots[t].status \in EndedStatus
  <2>1. WithSys(o) # {} \/ (cb.order = o /\ cb.stage = "sys" /\ cb.key = k)
    BY <1>0, <1>1, <1>3, <1>8 DEF TableInv, SysKnown, WithKey
  <2>2. CASE WithSys(o) # {}
    BY <1>2, <1>7, <2>2, SysStays DEF WithSys
  <2>3. CASE cb.order = o /\ cb.stage = "sys" /\ cb.key = k
    <3>1. cb # NoCall
      BY <2>3, SlotKinds
    <3>2. CASE UNCHANGED cb
      BY <2>3, <3>2
    <3>3. CASE CallbackSys
      <4>1. WithKey(cb.key) # {}
        BY <1>8, <2>3 DEF WithKey
      <4> QED
        BY <2>3, <3>3, <4>1, CallSysSaves
    <3>4. ASSUME NEW x \in Orders, NEW kind \in Kinds \ {"trade"}, OnOrder(x, kind, StatusTold(x, kind)) PROVE FALSE
      BY <3>1, <3>4, OnOrderStep
    <3>5. ASSUME NEW x \in Orders, OnRtnTrade(x) PROVE FALSE
      BY <3>1, <3>5, OnTradeStep
    <3>6. ~CallbackRid /\ ~CallbackKey /\ ~Deliver
      BY <2>3, CallRidStep, CallKeyStep, DeliverStep
    <3> QED
      BY <1>7, <3>2, <3>3, <3>4, <3>5, <3>6, CallMoves
  <2> QED
    BY <2>1, <2>2, <2>3
<1>9. SUFFICES ASSUME ~(slots[t].key = k /\ slots[t].status \in EndedStatus) PROVE T
  BY <1>8
<1>10. ~UNCHANGED <<slots, saved>>
  BY <1>6, <1>9
<1>11. ASSUME NEW s \in Slots, OnlySlot(s) PROVE s = t
  BY <1>6, <1>9, <1>11 DEF OnlySlot
<1>12. ~(RecordRid \/ RecordKey)
  BY <1>6, <1>9, <1>11, JobWriting DEF JobWrites, EndedStatus
<1>13. ASSUME NEW x \in Orders, NEW kind \in Kinds \ {"trade"}, OnOrder(x, kind, StatusTold(x, kind)), WithKey(Key(x)) # {}
       PROVE  T
  <2>1. PICK s \in Slots : OnlySlot(s) /\ slots'[s].key = Key(x)
    BY <1>13, OrderSaves
  <2>2. Key(x) = k /\ x = o
    BY <1>3, <1>6, <1>11, <2>1, KeysDiffer
  <2> QED
    BY <1>13, <2>2, OnOrderStep
<1>14. ~CallbackRid
  <2> SUFFICES ASSUME CallbackRid PROVE FALSE
    OBVIOUS
  <2>1. PICK s \in Slots : s = cb.slot /\ OnlySlot(s)
    BY CallRidStep DEF OnlySlot
  <2> QED
    BY <1>6, <1>9, <1>11, <2>1, CallRidStep
<1>15. CASE CallbackKey
  <2>1. PICK s \in Slots : s = cb.slot /\ OnlySlot(s)
    BY <1>15, CallKeyStep DEF OnlySlot
  <2>2. slots'[s].key = cb.key /\ cb'.stage = "sys" /\ cb'.order = cb.order /\ cb'.key = cb.key /\ cb.stage = "key"
    BY <1>15, <2>1, CallKeyStep
  <2>3. cb.key = k /\ cb.key.order = cb.order
    BY <1>6, <1>11, <2>1, <2>2, SlotKinds, AtWork
  <2> QED
    BY <1>4, <2>2, <2>3
<1>16. ~(CallbackSys /\ WithKey(cb.key) # {})
  <2> SUFFICES ASSUME CallbackSys, WithKey(cb.key) # {} PROVE FALSE
    OBVIOUS
  <2>1. PICK s \in Slots : OnlySlot(s) /\ slots[s].key = cb.key /\ slots'[s].key = cb.key /\ slots'[s].status = slots[s].status
    BY CallSysSaves
  <2> QED
    BY <1>6, <1>9, <1>11, <2>1
<1>17. ASSUME NEW j \in Keys, NEW s \in Slots, ReadBack(j, s) PROVE FALSE
  <2>1. /\ s = t /\ j \in DOMAIN saved /\ toRestore # {} /\ slots'[s].status = saved[j].status
        /\ slots'[s].key.order = j.order
    BY <1>11, <1>17 DEF ReadBack
  <2>2. EndKnown(o, saved[j].status) /\ saved[j].status \in EndedStatus
    BY <1>4, <1>6, <2>1 DEF TableInv, RecordsOK
  <2> QED
    BY <1>0, <1>1, <2>1, <2>2 DEF EndKnown
<1> QED
  BY <1>7, <1>10, <1>12, <1>13, <1>14, <1>15, <1>16, <1>17, Writes

-----------------------------------------------------------------------------
(* Records half written: the callbacks of trades. *)

LEMMA TradeNotRecordedNext == ASSUME TableInv, [TableNext]_tableVars PROVE TradeNotRecorded'
<1> SUFFICES ASSUME cb'.stage \in {"rid", "key"}, cb'.kind = "trade"
    PROVE  /\ \A s \in Slots : slots'[s].sys # cb'.order
           /\ cb'.order \notin strays' => \A s \in Slots : slots'[s].key = Key(cb.order)' => slots'[s].status \notin EndedStatus
  BY DEF TradeNotRecorded, WithKey, WithSys
<1>1. PICK o : o = cb'.order
  OBVIOUS
<1> DEFINE N(k) == /\ \A s \in Slots : slots'[s].sys # o
                   /\ o \notin strays' => \A s \in Slots : slots'[s].key = k => slots'[s].status \notin EndedStatus
<1>2. ASSUME NEW k, Key(o)' = k, N(k)
      PROVE  /\ \A s \in Slots : slots'[s].sys # cb'.order
             /\ cb'.order \notin strays' => \A s \in Slots : slots'[s].key = Key(cb.order)' => slots'[s].status \notin EndedStatus
  <2>1. Key(cb.order)' = Key(o)'
    BY <1>1 DEF Key
  <2> QED
    BY <1>1, <1>2, <2>1
<1>3. SUFFICES \E k : Key(o)' = k /\ N(k)
  BY <1>2
<1>4. ASSUME cb.order = o, cb.stage \in {"rid", "key"}, cb.kind = "trade"
      PROVE  /\ cb # NoCall /\ o \in Orders /\ o # None /\ Key(o)' = Key(o)
             /\ \A s \in Slots : slots[s].sys # o
             /\ o \notin strays' => \A s \in Slots : slots[s].key = Key(o) => slots[s].status \notin EndedStatus
             /\ Key(o) # None /\ Key(o).order = o
  <2>1. cb # NoCall /\ o \in Orders /\ o # None /\ Key(o)' = Key(o)
    BY <1>4, SlotKinds, AtWork, CallKeyStays
  <2> QED
    BY <1>4, <2>1, StraysGrow, KeyType DEF TableInv, TradeNotRecorded, WithKey, WithSys
<1>5. CASE UNCHANGED cb
  <2>1. cb.order = o /\ cb.stage \in {"rid", "key"} /\ cb.kind = "trade"
    BY <1>1, <1>5
  <2>2. CASE UNCHANGED <<slots, saved>>
    BY <1>4, <2>1, <2>2
  <2>3. ASSUME NEW s \in Slots, JobWrites(s) PROVE N(Key(o))
    <3>1. \A t \in Slots : slots'[t].sys # o
      BY <1>4, <2>1, <2>3 DEF JobWrites, OnlySlot
    <3>2. slots'[s].key = Key(o) => slots'[s].status = slots[s].status /\ slots[s].key = Key(o)
      BY <1>4, <2>1, <2>3 DEF JobWrites
    <3>3. o \notin strays' => \A t \in Slots : slots'[t].key = Key(o) => slots'[t].status \notin EndedStatus
      BY <1>4, <2>1, <2>3, <3>2 DEF JobWrites, OnlySlot
    <3> QED
      BY <3>1, <3>3
  <2> QED
    BY <1>4, <1>5, <2>1, <2>2, <2>3, CallWaits
<1>6. ASSUME NEW x \in Orders, NEW kind \in Kinds \ {"trade"}, OnOrder(x, kind, StatusTold(x, kind)) PROVE FALSE
  BY <1>6, OnOrderStep
<1>7. ASSUME NEW x \in Orders, OnRtnTrade(x) PROVE \E k : Key(o)' = k /\ N(k)
  <2>1. /\ x = o /\ UNCHANGED <<slots, sent>> /\ WithSys(o) = {} /\ cb = NoCall /\ Arrived(o, "trade")
        /\ strays \subseteq strays'
    BY <1>1, <1>7, OnTradeStep
  <2>2. "trade" \in Kinds /\ o \in Orders
    BY <1>7, <2>1 DEF Kinds
  <2>3. Has(o, "trade") /\ cb.order # o
    BY <2>1, <2>2, ArrivedStep, Consts DEF NoCall
  <2>4. Key(o)' = Key(o)
    BY <2>1 DEF Key
  <2>5. o \notin strays' => \A s \in Slots : slots[s].key = Key(o) => slots[s].status \notin EndedStatus
    BY <2>1, <2>2, <2>3 DEF TableInv, SysKnown, WithKey
  <2>6. N(Key(o))
    BY <2>1, <2>5 DEF WithSys
  <2> QED
    BY <2>4, <2>6
<1>8. CASE CallbackRid
  <2>1. PICK s \in Slots : s = cb.slot
    BY <1>8, CallRidStep
  <2>2. /\ cb.order = o /\ cb.stage = "rid" /\ cb.kind = "trade" /\ OnlySlot(s)
        /\ slots'[s].sys = slots[s].sys /\ slots'[s].key = slots[s].key /\ slots'[s].status = slots[s].status
    BY <1>1, <1>8, <2>1, CallRidStep DEF OnlySlot
  <2>3. N(Key(o))
    BY <1>4, <2>2 DEF OnlySlot
  <2> QED
    BY <1>4, <2>2, <2>3
<1>9. ~CallbackKey
  BY CallKeyStep
<1>10. ~CallbackSys /\ ~Deliver /\ ~Crash
  <2>1. cb' # NoCall
    BY DEF NoCall
  <2> QED
    BY <2>1, CallSysStep, DeliverStep, CrashStep
<1> QED
  BY <1>5, <1>6, <1>7, <1>8, <1>9, <1>10, CallMoves

-----------------------------------------------------------------------------
(* What a step leaves of a slot another thread is writing *)
LEMMA SpareKept ==
  ASSUME TableInv, [TableNext]_tableVars, NEW s \in Slots, Spare(s),
         slots'[s].key = slots[s].key, slots'[s].status = slots[s].status \/ slots'[s].status \notin LiveStatus
  PROVE  Spare(s)'
<1>1. Spare(s)' <=> slots'[s].status \notin LiveStatus \/ slots'[s].key.order \in strays'
  BY DEF Spare, Writable
<1>2. slots[s].status \notin LiveStatus \/ slots[s].key.order \in strays
  BY DEF Spare, Writable
<1> QED
  BY <1>1, <1>2, StraysGrow

LEMMA OrderKeepsSpare ==
  ASSUME TableInv, [TableNext]_tableVars, NEW x \in Orders, NEW kind \in Kinds \ {"trade"},
         OnOrder(x, kind, StatusTold(x, kind)), NEW s \in Slots, Spare(s)
  PROVE  Spare(s)' /\ slots'[s].rid = slots[s].rid
<1>1. CASE WithKey(Key(x)) = {}
  <2>1. UNCHANGED slots
    BY <1>1, OnOrderStep
  <2> QED
    BY <2>1, SpareKept
<1>2. CASE WithKey(Key(x)) # {}
  <2>1. PICK t \in Slots : /\ slots[t].key = Key(x) /\ OnlySlot(t) /\ slots'[t].key = Key(x)
                           /\ slots'[t].rid = slots[t].rid /\ slots'[t].status = StatusTold(x, kind)
    BY <1>2, OrderSaves
  <2>2. CASE s # t
    BY <2>1, <2>2, SpareKept DEF OnlySlot
  <2>3. CASE s = t
    <3>1. slots[s].key # None /\ slots[s].key.order = x /\ slots'[s].key = slots[s].key
      BY <2>1, <2>3, KeyType DEF TableInv
    <3>2. CASE x \in strays
      <4>1. slots'[s].key.order \in strays'
        BY <3>1, <3>2, StraysGrow
      <4> QED
        BY <2>1, <2>3, <4>1 DEF Spare
    <3>3. CASE x \notin strays
      <4>1. sent[x].state \in EndedStatus /\ ~Has(x, "live")
        BY <3>1, <3>3, SpareSlot
      <4>2. Has(x, kind)
        BY OnOrderStep, ArrivedStep
      <4>3. StatusTold(x, kind) \in EndedStatus
        BY <4>1, <4>2 DEF StatusTold, Kinds, EndedStatus
      <4> QED
        BY <2>1, <2>3, <3>1, <4>3, SpareKept, StatesDiffer
    <3> QED
      BY <3>2, <3>3
  <2> QED
    BY <2>2, <2>3
<1> QED
  BY <1>1, <1>2

LEMMA CallSysKeepsSpare ==
  ASSUME TableInv, [TableNext]_tableVars, CallbackSys, NEW s \in Slots, Spare(s)
  PROVE  Spare(s)' /\ slots'[s].rid = slots[s].rid
<1>1. CASE WithKey(cb.key) = {}
  <2>1. UNCHANGED slots
    BY <1>1, CallSysStep
  <2> QED
    BY <2>1, SpareKept
<1>2. CASE WithKey(cb.key) # {}
  <2>1. PICK t \in Slots : /\ slots[t].key = cb.key /\ OnlySlot(t) /\ slots'[t].key = cb.key
                           /\ slots'[t].rid = slots[t].rid /\ slots'[t].status = slots[t].status
    BY <1>2, CallSysSaves
  <2> QED
    BY <2>1, SpareKept DEF OnlySlot
<1> QED
  BY <1>1, <1>2

-----------------------------------------------------------------------------
(* Records half written: the listening thread and the callbacks together. *)

JobHalf ==
  /\ job.stage \in {"rid", "key"} => Spare(job.slot)
  /\ job.stage = "key" => slots[job.slot].rid # None
  /\ job.stage = "key" /\ job.order \notin strays => slots[job.slot].rid = job.order

BothHalves ==
  job.stage \in {"rid", "key"} /\ cb.stage \in {"rid", "key"} /\ job.slot = cb.slot => {job.order, cb.order} \subseteq strays

CallHalf ==
  /\ cb.stage \in {"rid", "key"} => Spare(cb.slot)
  /\ cb.stage = "key" => slots[cb.slot].rid # None
  /\ cb.stage = "key" /\ cb.order \notin strays => slots[cb.slot].rid = direct
  /\ cb.stage \in {"rid", "key"} => WithKey(cb.key) = {}
  /\ cb.stage = "key" /\ slots[cb.slot].key # None =>
       LET q == slots[cb.slot].key.order IN q # cb.order /\ q \notin strays => ~Busy(q)

LEMMA Halves == HalfWritten <=> JobHalf /\ BothHalves /\ CallHalf
BY DEF HalfWritten, JobHalf, BothHalves, CallHalf

LEMMA JobHalfNext == ASSUME TableInv, [TableNext]_tableVars PROVE JobHalf'
<1> SUFFICES ASSUME job'.stage \in {"rid", "key"}
    PROVE  /\ Spare(job.slot)'
           /\ job'.stage = "key" => slots'[job'.slot].rid # None
           /\ job'.stage = "key" /\ job'.order \notin strays' => slots'[job'.slot].rid = job'.order
  BY DEF JobHalf
<1>0. PICK s : s = job'.slot
  OBVIOUS
<1> DEFINE T == /\ Spare(s)'
                /\ job'.stage = "key" => slots'[s].rid # None
                /\ job'.stage = "key" /\ job'.order \notin strays' => slots'[s].rid = job'.order
<1>1. SUFFICES T
  BY <1>0 DEF Spare, Writable
<1>2. job.stage \in {"rid", "key"} => /\ job.slot \in Slots /\ Spare(job.slot) /\ job # NoJob
                                      /\ job.stage = "key" => slots[job.slot].rid # None
                                      /\ job.stage = "key" /\ job.order \notin strays => slots[job.slot].rid = job.order
  BY SlotKinds DEF TableInv, HalfWritten
<1>3. ASSUME UNCHANGED job PROVE s = job.slot /\ s \in Slots /\ Spare(s) /\ job # NoJob /\ job.stage \in {"rid", "key"}
  BY <1>0, <1>2, <1>3
<1>4. ASSUME UNCHANGED job, Spare(s)', slots'[s].rid = slots[s].rid PROVE T
  BY <1>2, <1>3, <1>4, StraysGrow
<1>5. ASSUME UNCHANGED job, UNCHANGED slots PROVE T
  BY <1>3, <1>4, <1>5, SpareKept
<1>6. ASSUME NEW x \in Own, InsertOrder(x) PROVE FALSE
  BY <1>6, InsertStep
<1>31. CASE LocateSlot
  <2>1. UNCHANGED slots /\ job'.stage = "rid" /\ Writable(job'.slot)
    BY <1>31, LocateStep
  <2> QED
    BY <1>0, <2>1 DEF Spare, Writable
<1>7. CASE RecordRid
  <2>1. /\ job.stage = "rid" /\ s = job.slot /\ job'.order = job.order
        /\ slots'[s].rid = job.order /\ slots'[s].key = slots[s].key /\ slots'[s].status = slots[s].status
    BY <1>0, <1>7, RidStep
  <2>2. job.order # None
    BY <2>1, SlotKinds
  <2>3. Spare(s)'
    BY <1>2, <2>1, SpareKept
  <2> QED
    BY <2>1, <2>2, <2>3
<1>8. ~RecordKey /\ ~Send /\ ~Crash
  <2>1. job' # NoJob
    BY DEF NoJob
  <2> QED
    BY <2>1, KeyStep, SendStep, CrashStep
<1>9. ASSUME NEW x \in Orders, NEW k \in Kinds \ {"trade"}, OnOrder(x, k, StatusTold(x, k)) PROVE T
  <2>1. UNCHANGED job
    BY <1>9, OnOrderStep
  <2> QED
    BY <1>3, <1>4, <1>9, <2>1, OrderKeepsSpare
<1>10. ASSUME NEW x \in Orders, OnRtnTrade(x) PROVE T
  BY <1>5, <1>10, OnTradeStep
<1>11. CASE CallbackRid
  <2>1. /\ UNCHANGED job /\ cb.stage = "rid" /\ slots'[cb.slot].rid = direct
        /\ \A t \in Slots : t # cb.slot => slots'[t] = slots[t]
        /\ slots'[cb.slot].key = slots[cb.slot].key /\ slots'[cb.slot].status = slots[cb.slot].status
    BY <1>11, CallRidStep
  <2>2. Spare(s)'
    BY <1>3, <2>1, SpareKept
  <2>3. CASE s = cb.slot
    <3>1. job.order \in strays
      BY <1>3, <2>1, <2>3 DEF TableInv, HalfWritten
    <3> QED
      BY <2>1, <2>2, <2>3, <3>1, StraysGrow, Consts
  <2>4. CASE s # cb.slot
    BY <1>3, <1>4, <2>1, <2>2, <2>4
  <2> QED
    BY <2>3, <2>4
<1>12. CASE CallbackKey
  <2>1. /\ UNCHANGED job /\ cb.stage = "key" /\ slots'[cb.slot].rid = slots[cb.slot].rid
        /\ \A t \in Slots : t # cb.slot => slots'[t] = slots[t]
        /\ slots'[cb.slot].key = cb.key /\ cb.key.order = cb.order
    BY <1>12, CallKeyStep, SlotKinds, AtWork
  <2>2. CASE s = cb.slot
    <3>1. cb.order \in strays'
      BY <1>3, <2>1, <2>2, StraysGrow DEF TableInv, HalfWritten
    <3>2. Spare(s)'
      BY <2>1, <2>2, <3>1 DEF Spare
    <3> QED
      BY <1>4, <2>1, <2>2, <3>2
  <2>3. CASE s # cb.slot
    <3>1. slots'[s] = slots[s]
      BY <1>3, <2>1, <2>3
    <3> QED
      BY <1>3, <1>4, <2>1, <3>1, SpareKept
  <2> QED
    BY <2>2, <2>3
<1>13. CASE CallbackSys
  <2>1. UNCHANGED job
    BY <1>13, CallSysStep
  <2> QED
    BY <1>3, <1>4, <1>13, <2>1, CallSysKeepsSpare
<1>14. CASE Deliver \/ Login
  BY <1>5, <1>14, DeliverStep, LoginStep
<1>15. ASSUME NEW x \in Foreign, ForeignOrder(x) PROVE T
  BY <1>5, <1>15, ForeignStep
<1>16. ASSUME NEW x \in Orders, NEW how \in EndedStatus, OrderEnds(x, how) PROVE T
  BY <1>5, <1>16, EndStep
<1>17. ASSUME NEW k \in Keys, RestoreKey(k) PROVE T
  BY <1>5, <1>17, RestoreStep
<1>32. CASE RestoreRecord
  <2>1. PICK k \in Keys, u \in Slots : ReadBack(k, u)
    BY <1>32, RestoreRecordStep DEF ReadBack, OnlySlot
  <2>2. UNCHANGED <<job, strays>>
    BY <2>1 DEF ReadBack
  <2>3. CASE s # u
    BY <1>3, <1>4, <2>1, <2>2, <2>3, SpareKept DEF ReadBack, OnlySlot
  <2>4. CASE s = u
    <3>1. {job.order, k.order} \subseteq strays
      BY <1>3, <2>1, <2>2, <2>4 DEF ReadBack
    <3>2. slots'[s].key.order \in strays'
      BY <2>1, <2>2, <2>4, <3>1 DEF ReadBack
    <3>3. slots'[s].rid # None
      <4>1. k \in DOMAIN saved /\ slots'[s].rid = saved[k].rid
        BY <2>1, <2>4 DEF ReadBack
      <4>2. saved[k].rid \in Rids
        BY <4>1 DEF TableInv, TableTypeOK
      <4> QED
        BY <4>1, <4>2, NamesAssumption DEF Rids, Orders
    <3> QED
      BY <2>2, <3>1, <3>2, <3>3 DEF Spare
  <2> QED
    BY <2>3, <2>4
<1>18. CASE UNCHANGED tableVars
  BY <1>5, <1>18 DEF tableVars
<1> QED
  BY <1>6, <1>7, <1>8, <1>9, <1>10, <1>11, <1>12, <1>13, <1>14, <1>15, <1>16, <1>17, <1>18, <1>31, <1>32, StepKinds

LEMMA BothHalvesNext == ASSUME TableInv, [TableNext]_tableVars PROVE BothHalves'
<1> SUFFICES ASSUME job'.stage \in {"rid", "key"}, cb'.stage \in {"rid", "key"}, job'.slot = cb'.slot
    PROVE  {job'.order, cb'.order} \subseteq strays'
  BY DEF BothHalves
<1> DEFINE T == {job'.order, cb'.order} \subseteq strays'
<1>0. strays \subseteq strays'
  BY StraysGrow
<1>1. ASSUME job.stage \in {"rid", "key"}, job'.order = job.order, job'.slot = job.slot,
             cb.stage \in {"rid", "key"}, cb'.order = cb.order, cb'.slot = cb.slot
      PROVE  T
  BY <1>0, <1>1 DEF TableInv, HalfWritten
<1>2. CASE UNCHANGED <<job, cb>>
  BY <1>1, <1>2
<1>3. ASSUME NEW x \in Own, InsertOrder(x) PROVE FALSE
  BY <1>3, InsertStep
<1>4. CASE RecordRid \/ RecordKey
  <2>1. PICK s \in Slots : JobWrites(s)
    BY <1>4, JobWriting
  <2> QED
    BY <1>1, <2>1 DEF JobWrites
<1>5. ~Send /\ ~Crash
  <2>1. job' # NoJob
    BY DEF NoJob
  <2> QED
    BY <2>1, SendStep, CrashStep
<1>6. ASSUME NEW x \in Orders, NEW k \in Kinds \ {"trade"}, OnOrder(x, k, StatusTold(x, k)) PROVE T
  <2>1. /\ UNCHANGED job /\ cb'.order = x /\ cb'.stage = "rid"
    BY <1>6, OnOrderStep
  <2>2. WithKey(Key(x)) = {}
    BY <1>6, <2>1, OnOrderStep
  <2>3. job.stage \in {"rid", "key"} /\ job.slot = cb'.slot => {job.order, x} \subseteq strays'
    BY <1>6, <2>1, <2>2, OnOrderStep
  <2> QED
    BY <2>1, <2>3
<1>7. ASSUME NEW x \in Orders, OnRtnTrade(x) PROVE T
  <2>1. /\ UNCHANGED job /\ cb'.order = x /\ cb'.stage = "rid"
        /\ job.stage \in {"rid", "key"} /\ job.slot = cb'.slot => {job.order, x} \subseteq strays'
    BY <1>7, OnTradeStep
  <2> QED
    BY <2>1
<1>8. CASE CallbackRid
  <2>1. UNCHANGED job /\ cb.stage = "rid" /\ cb'.order = cb.order /\ cb'.slot = cb.slot
    BY <1>8, CallRidStep
  <2> QED
    BY <1>1, <2>1
<1>9. ~CallbackKey
  BY CallKeyStep
<1>10. ~CallbackSys /\ ~Deliver
  <2>1. cb' # NoCall
    BY DEF NoCall
  <2> QED
    BY <2>1, CallSysStep, DeliverStep
<1>11. ASSUME NEW x \in Foreign, ForeignOrder(x) PROVE T
  BY <1>2, <1>11, ForeignStep
<1>12. ASSUME NEW x \in Orders, NEW how \in EndedStatus, OrderEnds(x, how) PROVE T
  BY <1>2, <1>12, EndStep
<1>13. CASE Login
  BY <1>2, <1>13, LoginStep
<1>14. ASSUME NEW k \in Keys, RestoreKey(k) PROVE T
  BY <1>2, <1>14, RestoreStep
<1>15. CASE UNCHANGED tableVars
  BY <1>2, <1>15 DEF tableVars
<1>31. CASE LocateSlot
  <2>1. /\ UNCHANGED cb /\ job'.order = job.order /\ job'.stage = "rid"
        /\ cb.stage \in {"rid", "key"} /\ cb.slot = job'.slot => {job.order, cb.order} \subseteq strays'
    BY <1>31, LocateStep
  <2> QED
    BY <2>1
<1>32. CASE RestoreRecord
  BY <1>2, <1>32, RestoreRecordStep
<1> QED
  BY <1>3, <1>4, <1>5, <1>6, <1>7, <1>8, <1>9, <1>10, <1>11, <1>12, <1>13, <1>14, <1>15, <1>31, <1>32, StepKinds

LEMMA RestoreInPlaceNext == ASSUME TableInv, [TableNext]_tableVars PROVE RestoreInPlace'
<1> SUFFICES ASSUME restoring' # NoRestore
    PROVE  /\ restoring'.key \in toRestore' /\ restoring'.slot \in Slots /\ Spare(restoring.slot)'
           /\ job'.stage \in {"rid", "key"} /\ job'.slot = restoring'.slot => {job'.order, restoring'.key.order} \subseteq strays'
  BY DEF RestoreInPlace
<1>0. PICK s, k : s = restoring'.slot /\ k = restoring'.key
  OBVIOUS
<1> DEFINE P == /\ s \in Slots /\ Spare(s)'
                /\ job'.stage \in {"rid", "key"} /\ job'.slot = s => {job'.order, k.order} \subseteq strays'
           T == k \in toRestore' /\ P
<1>1. SUFFICES T
  BY <1>0 DEF Spare, Writable
<1>2. ASSUME UNCHANGED restoring
      PROVE  /\ k \in toRestore /\ s \in Slots /\ Spare(s) /\ strays \subseteq strays' /\ toRestore # {}
             /\ job.stage \in {"rid", "key"} /\ job.slot = s => {job.order, k.order} \subseteq strays
             /\ cb = NoCall
  BY <1>0, <1>2, StraysGrow DEF TableInv, RestoreInPlace, Phases
<1>3. ASSUME UNCHANGED <<restoring, toRestore, slots, job>> PROVE T
  BY <1>2, <1>3, SpareKept
<1>4. ASSUME NEW x \in Own, InsertOrder(x) PROVE T
  <2>1. UNCHANGED <<restoring, toRestore, slots>> /\ job'.stage = "new"
    BY <1>4, InsertStep
  <2> QED
    BY <1>2, <2>1, SpareKept
<1>5. CASE LocateSlot
  <2>1. /\ UNCHANGED <<restoring, toRestore, slots>> /\ job'.order = job.order
        /\ job'.stage \in {"rid", "send"}
        /\ job'.stage = "rid" /\ restoring.slot = job'.slot => {job.order, restoring.key.order} \subseteq strays'
    BY <1>5, LocateStep
  <2> QED
    BY <1>0, <1>2, <2>1, SpareKept
<1>6. CASE RecordRid \/ RecordKey
  <2>1. PICK t \in Slots : JobWrites(t)
    BY <1>6, JobWriting
  <2>2. UNCHANGED <<restoring, toRestore>> /\ t = job.slot /\ job.stage \in {"rid", "key"} /\ job'.slot = job.slot
        /\ job'.order = job.order /\ OnlySlot(t)
    BY <1>6, <2>1, RidStep, KeyStep DEF JobWrites
  <2>3. CASE s # t
    <3>1. slots'[s] = slots[s]
      BY <1>2, <2>2, <2>3 DEF OnlySlot
    <3> QED
      BY <1>2, <2>2, <2>3, <3>1, SpareKept
  <2>4. CASE s = t
    <3>1. {job.order, k.order} \subseteq strays'
      BY <1>2, <2>2, <2>4
    <3>2. CASE slots'[s].key = slots[s].key /\ slots'[s].status = slots[s].status
      BY <1>2, <2>2, <3>1, <3>2, SpareKept
    <3>3. CASE slots'[s].key = Key(job.order)
      <4>1. slots'[s].key.order \in strays'
        BY <2>1, <3>1, <3>3 DEF JobWrites
      <4> QED
        BY <1>2, <2>2, <3>1, <4>1 DEF Spare
    <3> QED
      BY <2>1, <2>4, <3>2, <3>3 DEF JobWrites
  <2> QED
    BY <2>3, <2>4
<1>7. CASE Send
  <2>1. UNCHANGED <<restoring, toRestore, slots>> /\ job'.stage = "idle"
    BY <1>7, SendStep DEF NoJob
  <2> QED
    BY <1>2, <2>1, SpareKept
<1>8. ASSUME NEW x \in Orders, NEW kind \in Kinds \ {"trade"}, OnOrder(x, kind, StatusTold(x, kind)) PROVE FALSE
  <2>1. UNCHANGED restoring /\ toRestore = {}
    BY <1>8, OnOrderStep, ArrivedStep
  <2> QED
    BY <1>2, <2>1
<1>9. ASSUME NEW x \in Orders, OnRtnTrade(x) PROVE FALSE
  <2>1. UNCHANGED restoring /\ toRestore = {}
    BY <1>9, OnTradeStep, ArrivedStep DEF Kinds
  <2> QED
    BY <1>2, <2>1
<1>10. ~CallbackRid /\ ~CallbackKey /\ ~CallbackSys /\ ~Deliver
  <2>1. cb.stage # "idle" => cb # NoCall /\ toRestore = {}
    BY SlotKinds, AtWork
  <2> QED
    BY <1>2, <2>1, CallRidStep, CallKeyStep, CallSysStep, DeliverStep
<1>11. ASSUME NEW x \in Foreign, ForeignOrder(x) PROVE T
  BY <1>3, <1>11, ForeignStep
<1>12. ASSUME NEW x \in Orders, NEW how \in EndedStatus, OrderEnds(x, how) PROVE T
  BY <1>3, <1>12, EndStep
<1>13. ~Crash /\ ~Login
  <2>1. ~Crash
    BY CrashStep
  <2>2. ~Login
    BY LoginStep
  <2> QED
    BY <2>1, <2>2
<1>14. ASSUME NEW j \in Keys, RestoreKey(j) PROVE T
  <2>1. /\ UNCHANGED <<slots, job>> /\ j \in toRestore /\ toRestore' = toRestore /\ restoring'.key = j
        /\ restoring'.slot \in Slots /\ Writable(restoring'.slot)
        /\ job.stage \in {"rid", "key"} /\ job.slot = restoring'.slot => {job.order, j.order} \subseteq strays'
    BY <1>14, RestoreStep
  <2>2. Spare(s)'
    BY <1>0, <2>1 DEF Spare, Writable
  <2> QED
    BY <1>0, <2>1, <2>2
<1>15. ~RestoreRecord
  BY RestoreRecordStep
<1>16. CASE UNCHANGED tableVars
  BY <1>3, <1>16 DEF tableVars
<1> QED
  BY <1>4, <1>5, <1>6, <1>7, <1>8, <1>9, <1>10, <1>11, <1>12, <1>13, <1>14, <1>15, <1>16, StepKinds

-----------------------------------------------------------------------------
(* No report comes up about the order of a slot that a callback writes. *)
LEMMA StillNotBusy ==
  ASSUME TableInv, [TableNext]_tableVars, UNCHANGED cb, cb # NoCall, NEW s \in Slots, Spare(s),
         NEW o, slots[s].key # None, slots[s].key.order = o, o \notin strays, ~Busy(o)
  PROVE  ~Busy(o)'
<1>1. o \in Orders /\ sent[o].state \in EndedStatus
  BY SpareSlot
<1>2. cb'.order # o
  BY DEF Busy
<1>3. ~Login
  BY LoginStep
<1>4. \A kind \in Kinds : Has(o, kind)' => Has(o, kind)
  BY <1>1, <1>3, NoQueryNew, HasSteps, StatesDiffer
<1> QED
  BY <1>2, <1>4 DEF Busy

LEMMA CallHalfNext == ASSUME TableInv, [TableNext]_tableVars PROVE CallHalf'
<1> SUFFICES ASSUME cb'.stage \in {"rid", "key"}
    PROVE  /\ Spare(cb.slot)'
           /\ cb'.stage = "key" => slots'[cb'.slot].rid # None
           /\ cb'.stage = "key" /\ cb'.order \notin strays' => slots'[cb'.slot].rid = direct
           /\ \A t \in Slots : slots'[t].key # cb'.key
           /\ cb'.stage = "key" /\ slots'[cb'.slot].key # None =>
                \A q : q = slots'[cb'.slot].key.order /\ q # cb'.order /\ q \notin strays' => ~Busy(q)'
  BY DEF CallHalf, WithKey
<1>0. PICK s : s = cb'.slot
  OBVIOUS
<1> DEFINE T == /\ Spare(s)'
                /\ cb'.stage = "key" => slots'[s].rid # None
                /\ cb'.stage = "key" /\ cb'.order \notin strays' => slots'[s].rid = direct
                /\ \A t \in Slots : slots'[t].key # cb'.key
                /\ cb'.stage = "key" /\ slots'[s].key # None =>
                     \A q : q = slots'[s].key.order /\ q # cb'.order /\ q \notin strays' => ~Busy(q)'
<1>1. SUFFICES T
  BY <1>0 DEF Spare, Writable
<1>2. cb.stage \in {"rid", "key"} =>
        /\ cb # NoCall /\ cb.slot \in Slots /\ Spare(cb.slot) /\ cb.key # None /\ cb.key.order = cb.order
        /\ cb.stage = "key" => slots[cb.slot].rid # None
        /\ cb.stage = "key" /\ cb.order \notin strays => slots[cb.slot].rid = direct
        /\ \A t \in Slots : slots[t].key # cb.key
        /\ cb.stage = "key" /\ slots[cb.slot].key # None =>
             \A q : q = slots[cb.slot].key.order /\ q # cb.order /\ q \notin strays => ~Busy(q)
  BY SlotKinds, AtWork DEF TableInv, HalfWritten, WithKey
<1>3. CASE UNCHANGED cb
  <2>1. /\ s = cb.slot /\ s \in Slots /\ Spare(s) /\ cb # NoCall /\ cb.stage \in {"rid", "key"}
        /\ strays \subseteq strays'
    BY <1>0, <1>2, <1>3, StraysGrow
  <2>2. ASSUME slots'[s] = slots[s], \A t \in Slots : slots'[t].key # cb.key PROVE T
    <3>1. Spare(s)'
      BY <2>1, <2>2, SpareKept
    <3>2. ASSUME cb'.stage = "key", slots'[s].key # None, NEW q, q = slots'[s].key.order, q # cb'.order, q \notin strays'
          PROVE  ~Busy(q)'
      <4>1. ~Busy(q) /\ slots[s].key # None /\ slots[s].key.order = q /\ q \notin strays
        BY <1>2, <1>3, <2>1, <2>2, <3>2
      <4> QED
        BY <1>3, <2>1, <4>1, StillNotBusy
    <3> QED
      BY <1>2, <1>3, <2>1, <2>2, <3>1, <3>2
  <2>3. CASE UNCHANGED <<slots, saved>>
    BY <1>2, <2>1, <2>2, <2>3
  <2>4. ASSUME NEW t \in Slots, JobWrites(t) PROVE T
    <3>1. \A u \in Slots : slots'[u].key # cb.key
      BY <1>2, <2>1, <2>4 DEF JobWrites, OnlySlot
    <3>2. CASE s # t
      BY <2>1, <2>2, <2>4, <3>1, <3>2 DEF JobWrites, OnlySlot
    <3>3. CASE s = t
      <4>1. {job.order, cb.order} \subseteq strays'
        BY <2>1, <2>4, <3>3 DEF JobWrites, TableInv, HalfWritten
      <4>2. slots'[s].rid # None \/ cb.stage # "key"
        BY <1>2, <2>1, <2>4, <3>3 DEF JobWrites
      <4>3. CASE slots'[s].key = slots[s].key /\ slots'[s].status = slots[s].status
        <5>1. Spare(s)'
          BY <2>1, <4>3, SpareKept
        <5>2. ASSUME cb'.stage = "key", slots'[s].key # None, NEW q, q = slots'[s].key.order, q # cb'.order, q \notin strays'
              PROVE  ~Busy(q)'
          <6>1. ~Busy(q) /\ slots[s].key # None /\ slots[s].key.order = q /\ q \notin strays
            BY <1>2, <1>3, <2>1, <4>3, <5>2
          <6> QED
            BY <1>3, <2>1, <6>1, StillNotBusy
        <5> QED
          BY <1>3, <3>1, <4>1, <4>2, <5>1, <5>2
      <4>4. CASE slots'[s].key = Key(job.order)
        <5>1. slots'[s].key.order \in strays'
          BY <2>4, <4>1, <4>4 DEF JobWrites
        <5>2. Spare(s)'
          BY <5>1 DEF Spare
        <5> QED
          BY <1>3, <3>1, <4>1, <4>2, <5>1, <5>2
      <4> QED
        BY <2>4, <3>3, <4>3, <4>4 DEF JobWrites
    <3> QED
      BY <3>2, <3>3
  <2> QED
    BY <1>3, <2>1, <2>3, <2>4, CallWaits
<1>4. ASSUME NEW x \in Orders, NEW k \in Kinds \ {"trade"}, OnOrder(x, k, StatusTold(x, k)) PROVE T
  <2>1. cb'.stage = "rid" /\ cb'.key = Key(x)
    BY <1>4, OnOrderStep
  <2>2. WithKey(Key(x)) = {}
    BY <1>4, <2>1, OnOrderStep
  <2>3. UNCHANGED slots /\ Writable(s)
    BY <1>0, <1>4, <2>1, <2>2, OnOrderStep
  <2>4. Spare(s)'
    BY <2>3 DEF Spare, Writable
  <2> QED
    BY <2>1, <2>2, <2>3, <2>4 DEF WithKey
<1>5. ASSUME NEW x \in Orders, OnRtnTrade(x) PROVE T
  <2>1. cb'.stage = "rid" /\ cb'.key = TradeKey(x) /\ UNCHANGED slots /\ Writable(s) /\ WithKey(TradeKey(x)) = {}
    BY <1>0, <1>5, OnTradeStep
  <2>2. Spare(s)'
    BY <2>1 DEF Spare, Writable
  <2> QED
    BY <2>1, <2>2 DEF WithKey
<1>6. CASE CallbackRid
  <2>1. /\ cb.stage = "rid" /\ cb'.stage = "key" /\ s = cb.slot /\ cb'.order = cb.order /\ cb'.key = cb.key
        /\ s \in Slots /\ OnlySlot(s) /\ UNCHANGED reports
        /\ slots'[s].rid = direct /\ slots'[s].key = slots[s].key /\ slots'[s].status = slots[s].status
        /\ slots[s].key # None /\ Busy(slots[s].key.order) => slots[s].key.order \in strays' \cup {cb.order}
    BY <1>0, <1>6, CallRidStep DEF OnlySlot
  <2>2. Spare(s)'
    BY <1>2, <2>1, SpareKept
  <2>3. \A t \in Slots : slots'[t].key # cb'.key
    BY <1>2, <2>1 DEF OnlySlot
  <2>4. ASSUME slots'[s].key # None, NEW q, q = slots'[s].key.order, q # cb'.order, q \notin strays'
        PROVE  ~Busy(q)'
    <3>1. ~Busy(q)
      BY <2>1, <2>4
    <3> QED
      BY <2>1, <2>4, <3>1, HasSame DEF Busy
  <2> QED
    BY <2>1, <2>2, <2>3, <2>4, Consts
<1>7. ~CallbackKey
  BY CallKeyStep
<1>8. ~CallbackSys /\ ~Deliver /\ ~Crash
  <2>1. cb' # NoCall
    BY DEF NoCall
  <2> QED
    BY <2>1, CallSysStep, DeliverStep, CrashStep
<1> QED
  BY <1>3, <1>4, <1>5, <1>6, <1>7, <1>8, CallMoves

-----------------------------------------------------------------------------
LEMMA TableNextInv == ASSUME TableInv, [TableNext]_tableVars PROVE TableInv'
<1>1. HalfWritten'
  <2>1. JobHalf' /\ BothHalves' /\ CallHalf'
    BY JobHalfNext, BothHalvesNext, CallHalfNext
  <2> QED
    BY <2>1, Halves, PTL
<1> QED
  BY <1>1, TypesNext, JobPlaceNext, CallPlaceNext, PhasesNext, ReportsNext, RecordsNext, TradeNotRecordedNext,
     TradeRecordedNext, RestoreInPlaceNext, RidsNext, KeptNext, SysNext, SysKnownNext, CallKnownNext DEF TableInv

LEMMA TableInitInv == TableInit => TableInv
<1> SUFFICES ASSUME TableInit PROVE TableInv
  OBVIOUS
<1>1. TableTypeOK
  BY TypesInit
<1>2. /\ slots = [s \in Slots |-> Free] /\ saved = << >> /\ up = TRUE /\ session = 1 /\ toRestore = {}
      /\ restoring = NoRestore /\ job = NoJob /\ cb = NoCall /\ sent = [o \in Orders |-> NotSent] /\ reports = {} /\ strays = {}
  BY DEF TableInit
<1>3. /\ \A s \in Slots : slots[s].key = None /\ slots[s].sys = None /\ slots[s].status = "raw"
      /\ DOMAIN saved = {}
      /\ \A o \in Orders : sent[o].state = "none" /\ sent[o].session = 0
      /\ job.stage = "idle" /\ cb.stage = "idle" /\ cb.order = None /\ cb.kind = "live"
  BY <1>2 DEF Free, NoJob, NoCall, NotSent
<1>4. \A o \in Orders : o # None /\ ~News(o) /\ \A kind : ~Has(o, kind)
  <2>1. \A o \in Orders : o # None
    BY Consts
  <2> QED
    BY <1>2, <1>3, <2>1 DEF News, Has
<1>5. \A o \in Orders : ~Needed(o) /\ ~TradeDue(o)
  BY <1>2, <1>3, <1>4 DEF Needed, TradeDue
<1>6. JobInPlace /\ CallInPlace /\ ReportsOK
  BY <1>2, <1>4 DEF JobInPlace, CallInPlace, ReportsOK
<1>7. Phases
  BY <1>2, <1>3, Consts DEF Phases
<1>8. RecordsOK
  BY <1>3 DEF RecordsOK
<1>9. HalfWritten /\ RestoreInPlace /\ TradeNotRecorded /\ TradeRecorded /\ CallKnown
  BY <1>2, <1>3 DEF HalfWritten, RestoreInPlace, TradeNotRecorded, TradeRecorded, CallKnown
<1>10. RidsOK /\ Kept /\ SysOK
  BY <1>5, Consts DEF RidsOK, Kept, SysOK
<1>11. SysKnown
  BY <1>4 DEF SysKnown
<1> QED
  BY <1>1, <1>6, <1>7, <1>8, <1>9, <1>10, <1>11 DEF TableInv

(* The tables of TDEngineInfoHelper and what is under way about an order:  *)
(* every part of TableInv, through each step of req_order_insert and the   *)
(* callbacks between any two of them, through crashes, and through log-ins *)
(* and deserilizeOrderInfo, which come while an order is being recorded or *)
(* waits in ReqOrderInsert as well.                                        *)
THEOREM TableInvariant == TableSpec => []TableInv
BY TableInitInv, TableNextInv, PTL DEF TableSpec

LEMMA FirstRid ==
  ASSUME NEW T, T \subseteq Slots, T # {}
  PROVE  \E s \in T : RidIn(T) = slots[s].rid
BY LeastSlot DEF RidIn

(* locate_readable finds the record of every live order of the engine, under *)
(* the request that inserted it, once the table is read back: no slot of a *)
(* live order is taken for another one by locate_writable, unless two orders *)
(* took one slot, the table lost the order, or it was recorded in one session *)
(* and sent in the next.                                                   *)
THEOREM TableFindsLiveOrders == TableSpec => []LiveOrdersFound
<1>1. TableInv => LiveOrdersFound
  <2> SUFFICES ASSUME TableInv, NEW o \in Own \ strays, up, toRestore = {}, sent[o].state = "live"
      PROVE  RidIn(WithKey(Key(o))) = o
    BY DEF LiveOrdersFound
  <2>1. o \in Orders /\ RidOf(o) = o /\ Needed(o)
    BY Consts DEF RidOf, Needed
  <2>2. WithKey(Key(o)) # {}
    BY <2>1 DEF TableInv, Kept
  <2>3. \A s \in WithKey(Key(o)) : slots[s].rid = o
    BY <2>1 DEF TableInv, RidsOK
  <2>4. WithKey(Key(o)) \subseteq Slots
    BY DEF WithKey
  <2> QED
    BY <2>2, <2>3, <2>4, FirstRid
<1> QED
  BY <1>1, TableInvariant, PTL

(* on_rtn_order is given the request id of the strategy that inserted the  *)
(* order, and that of no other: whatever was recorded, ended or overwritten *)
(* between OnRtnOrder's look at the table and the report, and after a restart *)
(* with the keys deserilizeOrderInfo could read.                           *)
THEOREM TableReportsReachOwner == TableSpec => []ReportsReachOwner
<1>1. TableInv => ReportsReachOwner
  <2> SUFFICES ASSUME TableInv, cb.stage = "deliver", cb.kind # "trade", cb.order \notin strays
      PROVE  RidTold = RidOf(cb.order)
    BY DEF ReportsReachOwner
  <2>1. cb # NoCall /\ cb.order \in Orders /\ cb.key = Key(cb.order)
    BY SlotKinds, AtWork
  <2>2. cb.kind # "query"
    BY <2>1 DEF TableInv, CallInPlace
  <2>3. Needed(cb.order)
    BY <2>2 DEF Needed, News
  <2>4. WithKey(cb.key) # {} /\ \A s \in WithKey(cb.key) : slots[s].rid = RidOf(cb.order)
    BY <2>1, <2>3 DEF TableInv, RidsOK, CallKnown
  <2>5. RidTold = RidIn(WithKey(cb.key)) /\ WithKey(cb.key) \subseteq Slots
    BY DEF RidTold, WithKey
  <2> QED
    BY <2>4, <2>5, FirstRid
<1> QED
  BY <1>1, TableInvariant, PTL

(* OnRtnTrade finds a record by the exchange's id of the order.  A trade is *)
(* given to the request that inserted the order or to none; only the trades *)
(* of an order of an earlier session may go to the one for direct orders.  *)
THEOREM TableTradesNotToOthers == TableSpec => []TradesNotToOthers
<1>1. TableInv => TradesNotToOthers
  <2> SUFFICES ASSUME TableInv, cb.stage = "deliver", cb.kind = "trade", cb.order \notin strays
      PROVE  \/ RidTold \in {RidOf(cb.order), None}
             \/ RidTold = direct /\ sent[cb.order].session < session
    BY DEF TradesNotToOthers
  <2>1. cb # NoCall /\ cb.order \in Orders
    BY SlotKinds
  <2>2. Needed(cb.order) /\ TradeDue(cb.order)
    BY <2>1 DEF Needed, News, TradeDue
  <2>3. RidTold = RidIn(WithSys(cb.order)) /\ WithSys(cb.order) \subseteq Slots
    BY DEF RidTold, WithSys
  <2>4. CASE WithSys(cb.order) = {}
    BY <2>3, <2>4 DEF RidIn
  <2>5. CASE WithSys(cb.order) # {}
    <3>1. PICK s \in WithSys(cb.order) : RidTold = slots[s].rid
      BY <2>3, <2>5, FirstRid
    <3>2. /\ slots[s].key # None
          /\ slots[s].key = Key(cb.order) \/ (slots[s].rid = direct /\ (cb.order \in Foreign \/ sent[cb.order].session < session))
      BY <2>1, <2>2 DEF TableInv, SysOK
    <3>3. slots[s].key = Key(cb.order) => slots[s].rid = RidOf(cb.order)
      BY <2>1, <2>2, <2>3 DEF TableInv, RidsOK, WithKey
    <3>4. cb.order \in Foreign => RidOf(cb.order) = direct
      BY OrdersAssumption DEF RidOf
    <3> QED
      BY <3>1, <3>2, <3>3, <3>4
  <2> QED
    BY <2>4, <2>5
<1> QED
  BY <1>1, TableInvariant, PTL
=============================================================================

