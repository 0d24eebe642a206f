----------------------------- MODULE CtpSession -----------------------------
(***************************************************************************)
(* The connections of the trade engine to the exchange (TDEngineCTP,       *)
(* IEngine): one API object per account, the chain                         *)
(*                                                                         *)
(*    front connected -> authenticate -> log in -> confirm settlement      *)
(*       -> query orders -> query trades -> query positions                *)
(*                                                                         *)
(* of which every step is sent by the callback that answers the one        *)
(* before, and what the three queries leave in the positions of the        *)
(* account (TDPosManage).  The front may break a connection at any step,   *)
(* the API may refuse a request (return code -3: too many per second, the  *)
(* caller sleeps and sends it again), strategies query positions through   *)
(* the same API, and the operator closes and opens the engine.             *)
(*                                                                         *)
(* Every callback takes the mutex of the engine and runs to its end: one   *)
(* action.  The listening thread, which closes the engine, takes no mutex: *)
(* each flag it takes back is an action.  A row is an instrument of the    *)
(* account; each of the three queries answers with one record of each.     *)
(* The counts say how often a record has been added, since setValue,       *)
(* setTodayPos and setYesterdayPos all add.                                *)
(***************************************************************************)
EXTENDS Naturals, Sequences

CONSTANTS
  Accounts,             \* the accounts of the engine, each with its own API
  Rows,                 \* the instruments an account has
  Null,                 \* the null pointer of an answer without a record
  need_authenticate,    \* settings of the engine
  need_settleConfirm,
  Refusable,            \* kinds of request the API may refuse with -3
  Failing,              \* kinds of request that may fail for good
  AskedRows,            \* what strategies ask for: sets of instruments
  MaxDisconnects,       \* bounds: lost connections, closed engines,
  MaxCloses,            \* and queries of strategies
  MaxQueries

Dialogs == {"auth", "login", "settle"}
Queries == {"orders", "trades", "positions"}

ASSUME SettingsAssumption == need_authenticate \in BOOLEAN /\ need_settleConfirm \in BOOLEAN
ASSUME KindsAssumption == Refusable \subseteq Dialogs \cup Queries /\ Failing \subseteq Dialogs \cup Queries
ASSUME RowsAssumption == AskedRows \subseteq SUBSET Rows /\ Null \notin Rows
ASSUME BoundsAssumption == MaxDisconnects \in Nat /\ MaxCloses \in Nat /\ MaxQueries \in Nat

VARIABLES
  unit,          \* AccountUnitCTP of each account
  request_id,    \* the next id the engine gives to a query of its own
  dialog,        \* the dialog request that waits for its answer, or "none"
  asked,         \* queries that wait for their answers, answered in order
  book,          \* how often each record was added to the positions
  lockInfo,      \* instruments whose order is in orderLockInfo
  listener,      \* the thread that reads the journals of strategies
  taken,         \* what on_engine_close has last taken from each account
  leaving,       \* accounts whose ReqUserLogout waits for its answer
  budget         \* what may still happen, within the bounds

vars == <<unit, request_id, dialog, asked, book, lockInfo, listener, taken, leaving, budget>>

NoRid == 0       \* the id of a strategy's query: never one of the engine's
Query(kind, rid, rows) == [kind |-> kind, rid |-> rid, rows |-> rows]

EmptyBook == [locks     |-> [r \in Rows |-> 0],
              today     |-> [r \in Rows |-> 0],
              yesterday |-> [r \in Rows |-> 0]]

UnitType == [api: BOOLEAN, connected: BOOLEAN, authenticated: BOOLEAN,
             logged_in: BOOLEAN, settle_confirmed: BOOLEAN,
             bOrderInitialized: BOOLEAN, bTodayPosInitialized: BOOLEAN,
             bYesterdayPosInitialized: BOOLEAN,
             setOrder_rid: Nat, setTodayPos_rid: Nat]
QueryType == [kind: Queries, rid: Nat, rows: SUBSET Rows]
BookType == [locks: [Rows -> Nat], today: [Rows -> Nat], yesterday: [Rows -> Nat]]
Takings == {"nothing", "authenticated", "settle_confirmed", "logged_in", "api"}
BudgetType == [disconnects: 0 .. MaxDisconnects, closes: 0 .. MaxCloses, queries: 0 .. MaxQueries]

TypeOK ==
  /\ unit \in [Accounts -> UnitType]
  /\ request_id \in Nat \ {NoRid}
  /\ dialog \in [Accounts -> Dialogs \cup {"none"}]
  /\ asked \in [Accounts -> Seq(QueryType)]
  /\ book \in [Accounts -> BookType]
  /\ lockInfo \in [Accounts -> SUBSET Rows]
  /\ listener \in {"starting", "running", "closing", "none"}
  /\ taken \in [Accounts -> Takings]
  /\ leaving \subseteq Accounts
  /\ budget \in BudgetType

(* load_account, then connect() has created the API of every account *)
NewUnit == [api |-> TRUE, connected |-> FALSE, authenticated |-> FALSE, logged_in |-> FALSE,
            settle_confirmed |-> FALSE, bOrderInitialized |-> FALSE,
            bTodayPosInitialized |-> FALSE, bYesterdayPosInitialized |-> FALSE,
            setOrder_rid |-> NoRid, setTodayPos_rid |-> NoRid]

Init ==
  /\ unit = [a \in Accounts |-> NewUnit]
  /\ request_id = 1
  /\ dialog = [a \in Accounts |-> "none"]
  /\ asked = [a \in Accounts |-> << >>]
  /\ book = [a \in Accounts |-> EmptyBook]
  /\ lockInfo = [a \in Accounts |-> {}]
  /\ listener = "starting"
  /\ taken = [a \in Accounts |-> "nothing"] /\ leaving = {}
  /\ budget = [disconnects |-> MaxDisconnects, closes |-> MaxCloses, queries |-> MaxQueries]

is_logged_in == \A a \in Accounts :
                   unit[a].logged_in /\ (need_settleConfirm => unit[a].settle_confirmed)

-----------------------------------------------------------------------------
(* A dialog request is sent again until it is taken, or fails for good.  *)
(* Nobody looks at its id.                                               *)
SendDialog(a, kind) ==
  \/ dialog' = [dialog EXCEPT ![a] = kind]
  \/ kind \in Failing /\ dialog' = [dialog EXCEPT ![a] = "none"]

SendNothing(a) == dialog' = [dialog EXCEPT ![a] = "none"]

(* A query of the engine, behind those that wait already, `rest'.  The      *)
(* first try takes request_id and counts it up; a try after a refusal takes *)
(* the new value and leaves it; another return code gives the query up.     *)
Ask(a, kind, rest) ==
  /\ \/ asked' = [asked EXCEPT ![a] = Append(rest, Query(kind, request_id, Rows))]
     \/ /\ kind \in Refusable
        /\ asked' = [asked EXCEPT ![a] = Append(rest, Query(kind, request_id + 1, Rows))]
     \/ /\ kind \in Failing
        /\ asked' = [asked EXCEPT ![a] = rest]
  /\ request_id' = request_id + 1

-----------------------------------------------------------------------------
(* The log-in chain *)

OnFrontConnected(a) ==
  /\ unit[a].api /\ ~unit[a].connected
  /\ unit' = [unit EXCEPT ![a].connected = TRUE]
  /\ IF need_authenticate /\ ~unit[a].authenticated THEN SendDialog(a, "auth")
     ELSE IF ~unit[a].logged_in THEN SendDialog(a, "login")
     ELSE UNCHANGED dialog
  /\ UNCHANGED <<request_id, asked, book, lockInfo, listener, taken, leaving, budget>>

Disconnect(a, flags) ==
  /\ unit[a].api /\ unit[a].connected
  /\ budget.disconnects > 0
  /\ budget' = [budget EXCEPT !.disconnects = @ - 1]
  /\ unit' = [unit EXCEPT ![a] = flags]
  /\ book' = [book EXCEPT ![a] = EmptyBook]              \* clearPos
  /\ lockInfo' = [lockInfo EXCEPT ![a] = {}]
  /\ dialog' = [dialog EXCEPT ![a] = "none"]             \* answers under way are lost
  /\ asked' = [asked EXCEPT ![a] = << >>]
  /\ leaving' = leaving \ {a}
  /\ UNCHANGED <<request_id, listener, taken>>

Disconnected(a) == [NewUnit EXCEPT !.setOrder_rid = unit[a].setOrder_rid,
                                   !.setTodayPos_rid = unit[a].setTodayPos_rid]

\* Of OnFrontDisconnected: a flag is not reset.
OnFrontDisconnectedStillInitialized(a) ==
  Disconnect(a, [Disconnected(a) EXCEPT !.bOrderInitialized = unit[a].bOrderInitialized])

OnFrontDisconnected(a) == Disconnect(a, Disconnected(a))

OnRspAuthenticate(a) ==
  /\ dialog[a] = "auth"
  /\ unit' = [unit EXCEPT ![a].authenticated = TRUE]
  /\ IF ~unit[a].logged_in THEN SendDialog(a, "login") ELSE SendNothing(a)
  /\ UNCHANGED <<request_id, asked, book, lockInfo, listener, taken, leaving, budget>>

OnRspUserLogin(a) ==
  /\ dialog[a] = "login"
  /\ unit' = [unit EXCEPT ![a].logged_in = TRUE]
  /\ IF need_settleConfirm /\ ~unit[a].settle_confirmed THEN SendDialog(a, "settle") ELSE SendNothing(a)
  /\ UNCHANGED <<request_id, asked, book, lockInfo, listener, taken, leaving, budget>>

OnRspSettlementInfoConfirm(a) ==
  /\ dialog[a] = "settle"
  /\ SendNothing(a)
  /\ IF ~unit[a].bOrderInitialized
       THEN /\ unit' = [unit EXCEPT ![a].settle_confirmed = TRUE, ![a].setOrder_rid = request_id]
            /\ Ask(a, "orders", asked[a])
       ELSE /\ unit' = [unit EXCEPT ![a].settle_confirmed = TRUE]
            /\ UNCHANGED <<asked, request_id>>
  /\ UNCHANGED <<book, lockInfo, listener, taken, leaving, budget>>

(* Each of these three callbacks only logs an error of the exchange. *)
OnErrorAnswer(a) ==
  /\ dialog[a] \in Failing
  /\ SendNothing(a)
  /\ UNCHANGED <<unit, request_id, asked, book, lockInfo, listener, taken, leaving, budget>>

(* The answer to logout().  The test for an error is the wrong way round:  *)
(* a success that comes with an error number of 0 is only logged.          *)
OnRspUserLogout(a) ==
  /\ a \in leaving
  /\ leaving' = leaving \ {a}
  /\ \/ unit' = [unit EXCEPT ![a].logged_in = FALSE, ![a].authenticated = FALSE, ![a].settle_confirmed = FALSE]
     \/ UNCHANGED unit
  /\ UNCHANGED <<request_id, dialog, asked, book, lockInfo, listener, taken, budget>>

-----------------------------------------------------------------------------
(* The answers to queries: a callback for each record, or one with a null  *)
(* pointer when there is none.                                             *)

Answering(a, kind) == asked[a] # << >> /\ Head(asked[a]).kind = kind
Records(a) == IF Head(asked[a]).rows = {} THEN {Null} ELSE Head(asked[a]).rows
bIsLast(a, r) == Head(asked[a]).rows \subseteq {r}

(* The query as the rest of its callbacks will see it. *)
Answered(a, r) ==
  IF bIsLast(a, r) THEN Tail(asked[a])
  ELSE <<[Head(asked[a]) EXCEPT !.rows = @ \ {r}]>> \o Tail(asked[a])

Consume(a, r) == asked' = [asked EXCEPT ![a] = Answered(a, r)] /\ UNCHANGED request_id

Added(a, part, r) == IF r = Null THEN book ELSE [book EXCEPT ![a][part][r] = @ + 1]

OrderRow(a, r, locked, lockInfo1) ==
  /\ Answering(a, "orders") /\ r \in Records(a)
  /\ LET mine == unit[a].setOrder_rid = Head(asked[a]).rid
     IN /\ book' = IF mine /\ locked THEN Added(a, "locks", r) ELSE book
        /\ lockInfo' = IF mine THEN [lockInfo EXCEPT ![a] = lockInfo1] ELSE lockInfo
        /\ IF mine /\ bIsLast(a, r)
             THEN /\ unit' = [unit EXCEPT ![a].bOrderInitialized = TRUE,
                                          ![a].setTodayPos_rid = request_id]
                  /\ Ask(a, "trades", Answered(a, r))
             ELSE Consume(a, r) /\ UNCHANGED unit
  /\ UNCHANGED <<dialog, listener, taken, leaving, budget>>

\* Of OnRspQryOrder: an order is locked again; the last order is not locked.
OnRspQryOrderLocksAgain(a, r) == OrderRow(a, r, TRUE, lockInfo[a] \cup ({r} \ {Null}))
OnRspQryOrderSkipsLast(a, r) ==
  OrderRow(a, r, r \notin lockInfo[a] /\ ~bIsLast(a, r), lockInfo[a] \cup ({r} \ {Null}))

OnRspQryOrder(a, r) == OrderRow(a, r, r \notin lockInfo[a], lockInfo[a] \cup ({r} \ {Null}))

TradeRow(a, r, added) ==
  /\ Answering(a, "trades") /\ r \in Records(a)
  /\ LET mine == ~unit[a].bTodayPosInitialized /\ unit[a].setTodayPos_rid = Head(asked[a]).rid
     IN /\ book' = IF mine /\ added THEN Added(a, "today", r) ELSE book
        /\ IF mine /\ bIsLast(a, r)
             THEN /\ unit' = [unit EXCEPT ![a].bTodayPosInitialized = TRUE]
                  /\ Ask(a, "positions", Answered(a, r))
             ELSE Consume(a, r) /\ UNCHANGED unit
  /\ UNCHANGED <<dialog, lockInfo, listener, taken, leaving, budget>>

\* Of OnRspQryTrade: the last trade only ends the query.
OnRspQryTradeSkipsLast(a, r) == TradeRow(a, r, ~bIsLast(a, r))

OnRspQryTrade(a, r) == TradeRow(a, r, TRUE)

PositionRow(a, r, mine) ==
  /\ Answering(a, "positions") /\ r \in Records(a)
  /\ book' = IF mine THEN Added(a, "yesterday", r) ELSE book
  /\ unit' = IF mine /\ bIsLast(a, r)
               THEN [unit EXCEPT ![a].bYesterdayPosInitialized = TRUE] ELSE unit
  /\ Consume(a, r)
  /\ UNCHANGED <<dialog, lockInfo, listener, taken, leaving, budget>>

\* Of OnRspQryInvestorPosition: the answers of later queries count too.
OnRspQryInvestorPositionAlways(a, r) == PositionRow(a, r, TRUE)

(* No look at the id: the answer to any query of positions will do. *)
OnRspQryInvestorPosition(a, r) == PositionRow(a, r, ~unit[a].bYesterdayPosInitialized)

(* The exchange answers a query with an error and no record. *)
AnswerFails(a) ==
  /\ asked[a] # << >> /\ Head(asked[a]).kind \in Failing /\ Head(asked[a]).rows = Rows
  /\ asked' = [asked EXCEPT ![a] = <<[Head(@) EXCEPT !.rows = {}]>> \o Tail(@)]
  /\ UNCHANGED <<unit, request_id, dialog, book, lockInfo, listener, taken, leaving, budget>>

-----------------------------------------------------------------------------
(* The threads of the engine *)

(* start(): after connect() the main thread sleeps 30 seconds and starts *)
(* the listening thread only if every account is in by then.             *)
StartListening ==
  /\ listener = "starting"
  /\ listener' = IF is_logged_in THEN "running" ELSE "none"
  /\ UNCHANGED <<unit, request_id, dialog, asked, book, lockInfo, taken, leaving, budget>>

(* req_investor_position for a strategy *)
QueryOfStrategy(a, rows) ==
  /\ listener = "running" /\ is_logged_in
  /\ budget.queries > 0
  /\ budget' = [budget EXCEPT !.queries = @ - 1]
  /\ asked' = [asked EXCEPT ![a] = Append(@, Query("positions", NoRid, rows))]
  /\ UNCHANGED <<unit, request_id, dialog, book, lockInfo, listener, taken, leaving>>

(* on_engine_close runs logout() for all accounts, and then release_api(). *)
on_engine_close ==
  /\ listener = "running"
  /\ budget.closes > 0
  /\ budget' = [budget EXCEPT !.closes = @ - 1]
  /\ listener' = "closing"
  /\ UNCHANGED <<unit, request_id, dialog, asked, book, lockInfo, taken, leaving>>

(* It goes through the accounts one by one; which is first is all the same. *)
Turn(a, last) ==
  /\ listener = "closing" /\ taken[a] = last
  /\ \A b \in Accounts \ {a} : taken[b] \in {"nothing", "logged_in"}

(* logout() asks the exchange, *)
LogoutAuthenticated(a) ==
  /\ Turn(a, "nothing")
  /\ unit' = [unit EXCEPT ![a].authenticated = FALSE]
  /\ \/ unit[a].logged_in /\ leaving' = leaving \cup {a}
     \/ UNCHANGED leaving               \* not logged in, or ReqUserLogout failed
  /\ taken' = [taken EXCEPT ![a] = "authenticated"]
  /\ UNCHANGED <<request_id, dialog, asked, book, lockInfo, listener, budget>>

(* and takes back the flags, one after the other. *)
LogoutSettleConfirmed(a) ==
  /\ Turn(a, "authenticated")
  /\ unit' = [unit EXCEPT ![a].settle_confirmed = FALSE]
  /\ taken' = [taken EXCEPT ![a] = "settle_confirmed"]
  /\ UNCHANGED <<request_id, dialog, asked, book, lockInfo, listener, leaving, budget>>

LogoutLoggedIn(a) ==
  /\ Turn(a, "settle_confirmed")
  /\ unit' = [unit EXCEPT ![a].logged_in = FALSE]
  /\ taken' = [taken EXCEPT ![a] = "logged_in"]
  /\ UNCHANGED <<request_id, dialog, asked, book, lockInfo, listener, leaving, budget>>

logout(a) == LogoutAuthenticated(a) \/ LogoutSettleConfirmed(a) \/ LogoutLoggedIn(a)

Released(u) == [u EXCEPT !.api = FALSE, !.connected = FALSE, !.authenticated = FALSE,
                         !.settle_confirmed = FALSE, !.logged_in = FALSE]

(* release_api(): Release waits for the callback under way and lets none   *)
(* follow; nobody else looks at the account while its flags are reset.     *)
(* The account keeps its book and what it knows of it.                     *)
release_api(a) ==
  /\ listener = "closing" /\ taken[a] = "logged_in"
  /\ \A b \in Accounts : taken[b] \in {"logged_in", "api"}
  /\ unit' = [unit EXCEPT ![a] = Released(unit[a])]
  /\ dialog' = [dialog EXCEPT ![a] = "none"]
  /\ asked' = [asked EXCEPT ![a] = << >>]
  /\ leaving' = leaving \ {a}
  /\ taken' = [taken EXCEPT ![a] = "api"]
  /\ UNCHANGED <<request_id, book, lockInfo, listener, budget>>

ClosingEnds ==
  /\ listener = "closing" /\ \A a \in Accounts : taken[a] = "api"
  /\ listener' = "running"
  /\ taken' = [a \in Accounts |-> "nothing"]
  /\ UNCHANGED <<unit, request_id, dialog, asked, book, lockInfo, leaving, budget>>

(* on_engine_open: try_login() connects the accounts that have no API. *)
on_engine_open ==
  /\ listener = "running"
  /\ ~is_logged_in
  /\ \E a \in Accounts : ~unit[a].api
  /\ unit' = [a \in Accounts |-> [unit[a] EXCEPT !.api = TRUE]]
  /\ UNCHANGED <<request_id, dialog, asked, book, lockInfo, listener, taken, leaving, budget>>

-----------------------------------------------------------------------------
Callback(a) ==
  \/ OnFrontConnected(a)
  \/ OnRspAuthenticate(a)
  \/ OnRspUserLogin(a)
  \/ OnRspSettlementInfoConfirm(a)
  \/ OnRspUserLogout(a)
  \/ \E r \in Rows \cup {Null} :
        OnRspQryOrder(a, r) \/ OnRspQryTrade(a, r) \/ OnRspQryInvestorPosition(a, r)

Listener ==
  \/ \E a \in Accounts, rows \in AskedRows : QueryOfStrategy(a, rows)
  \/ on_engine_close \/ ClosingEnds
  \/ \E a \in Accounts : logout(a) \/ release_api(a)
  \/ on_engine_open

Next ==
  \/ \E a \in Accounts : Callback(a) \/ OnErrorAnswer(a) \/ AnswerFails(a) \/ OnFrontDisconnected(a)
  \/ StartListening
  \/ Listener

Spec == Init /\ [][Next]_vars

(* The front answers, and its answers reach the API: the thread of each   *)
(* API calls back whatever arrives.  Nothing makes strategies or the      *)
(* operator do anything, or connections break.                            *)
FairSpec == Spec /\ \A a \in Accounts : WF_vars(Callback(a))

-----------------------------------------------------------------------------
AllDone(a) == /\ unit[a].bOrderInitialized
              /\ unit[a].bTodayPosInitialized
              /\ unit[a].bYesterdayPosInitialized

(* The flags of an account never contradict each other, whatever broke,   *)
(* closed or opened in between: one that counts as logged in has an API to *)
(* send its orders to.  The exception is on_engine_close at work, which    *)
(* takes back one flag after the other, while callbacks may set what it    *)
(* has just taken back.  Nothing of that is left when it is done, and at   *)
(* no time is an answer awaited on an API that is gone.                    *)
FlagsInOrder ==
  \A a \in Accounts :
    /\ dialog[a] # "none" \/ asked[a] # << >> => unit[a].connected /\ unit[a].api
    /\ listener # "closing" =>
         /\ unit[a].settle_confirmed => unit[a].logged_in
         /\ unit[a].logged_in => unit[a].connected /\ (need_authenticate => unit[a].authenticated)
         /\ unit[a].connected => unit[a].api

(* No record is added twice to the positions of an account, although every *)
(* way of adding one adds: not by a strategy that queries the same rows    *)
(* while the engine does, not by a second connection after a first that    *)
(* broke half-way through an answer, not by an engine opened again.        *)
CountedOnce ==
  \A a \in Accounts, r \in Rows : \A part \in {"locks", "today", "yesterday"} : book[a][part][r] <= 1

(* The trades of the day make positions that orders may close, so the      *)
(* closing orders of the day must have locked theirs before the first      *)
(* trade is counted.                                                       *)
LocksBeforeTrades ==
  \A a \in Accounts : (\E r \in Rows : book[a].today[r] > 0) => \A r \in Rows : book[a].locks[r] = 1

(* "POS info after setYesterday Position,all Done" (OnRspQryInvestorPosition): *)
(* an account that has gone through its three queries has every order,        *)
(* trade and position in its book.                                            *)
AllDoneIsAllCounted ==
  \A a \in Accounts : AllDone(a) =>
    \A r \in Rows, part \in {"locks", "today", "yesterday"} : book[a][part][r] = 1

(* A query that was refused and sent again has another id than the one the *)
(* chain waits for: nobody takes its answer.                               *)
SentUnderAnotherId(a) ==
  \E k \in DOMAIN asked[a] :
     \/ asked[a][k].kind = "orders" /\ asked[a][k].rid # unit[a].setOrder_rid
     \/ asked[a][k].kind = "trades" /\ asked[a][k].rid # unit[a].setTodayPos_rid

(* "wait 1 sec before send ReqQryTrade again to initial pos manage"          *)
(* (OnRspQryOrder): an account that stays connected gets its positions, even *)
(* if the API refuses requests for a while; but not when it refuses the      *)
(* query of orders or of trades, which is the only way for the chain to stop. *)
PositionsGetLoaded ==
  \A a \in Accounts : \/ unit[a].connected ~> (AllDone(a) \/ ~unit[a].connected)
                      \/ <>SentUnderAnotherId(a)
=============================================================================
