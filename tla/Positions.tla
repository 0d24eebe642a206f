----------------------------- MODULE Positions ------------------------------
(***************************************************************************)
(* What the trade engine knows of one instrument of one account            *)
(* (TDPosManage), kept up to date by three parties:                        *)
(*                                                                         *)
(*  - the listening thread (ITDEngine::listening, req_order_insert), which *)
(*    picks open or close for an order that does not say (autoOffset),     *)
(*    locks the position a closing order needs, and sends the order;       *)
(*  - the thread of the API, whose callbacks (TDEngineCTP) count trades,   *)
(*    release the locks of orders that ended and lock for the orders of    *)
(*    other terminals;                                                     *)
(*  - the exchange (external), which has the true positions.               *)
(*                                                                         *)
(* A lock is never given back when its order trades: closing orders keep   *)
(* locked what they closed, and the position counts only what was opened.  *)
(* What may be closed is yesterday + today - lock.                         *)
(*                                                                         *)
(* The callbacks exclude one another (mtx); setValue excludes itself       *)
(* (TDPosManage::mtx); autoOffset, setTodayPos and clearPos take neither.  *)
(* Trades have volume 1.                                                   *)
(***************************************************************************)
EXTENDS Integers, Sequences, FiniteSetsExt

CONSTANTS
  Own,              \* orders of strategies
  Foreign,          \* orders of other terminals of the same account
  SplitsToday,      \* SHFE, INE: today's and yesterday's positions are apart
  Yesterday,        \* what the account starts the day with, on each side
  Wishes,           \* offsets strategies ask for, "auto" among them
  Volumes,          \* volumes of orders
  InsertFails,      \* ReqOrderInsert may fail for good
  MaxDisconnects

Sides == {"long", "short"}
Directions == {"buy", "sell"}
Offsets == {"open", "close", "closeToday", "closeYesterday"}
Locks == {"close", "today", "yesterday"}     \* LockClose, LockTodayClose, LockYesterdayClose
Orders == Own \cup Foreign

ASSUME OrdersAssumption == Own \cap Foreign = {} /\ IsFiniteSet(Own) /\ IsFiniteSet(Foreign)
ASSUME SplitsAssumption == SplitsToday \in BOOLEAN /\ InsertFails \in BOOLEAN
ASSUME YesterdayAssumption == Yesterday \in [Sides -> Nat]
ASSUME WishesAssumption == Wishes \subseteq Offsets \cup {"auto"} /\ Volumes \subseteq Nat \ {0}
ASSUME DisconnectsAssumption == MaxDisconnects \in Nat

VARIABLES
  known,      \* tdPos has an entry for the account
  pos,        \* InstrumentPosDetail of each side
  recorded,   \* keys of orders in the engine's order table (td_helper)
  lockInfo,   \* keys in orderLockInfo
  unlocked,   \* those of them with bunlocked
  job,        \* the order the listening thread is busy with
  session,    \* front and session id of the connection
  stage,      \* how far the log-in chain has come
  answer,     \* records of the query under way, once the exchange took them
  reports,    \* reports of the exchange under way, in order
  book,       \* the orders at the exchange
  hold,       \* the positions at the exchange
  mishaps     \* what has happened that the locks do not survive: the steps of
              \* the listening thread a connection broke in, and "overlap"

engine == <<known, pos, recorded, lockInfo, unlocked>>
connection == <<session, stage, answer>>
exchange == <<book, hold>>
posVars == <<engine, job, connection, reports, exchange, mishaps>>

Idle == [pc |-> "idle"]
Stages == {"down", "login", "orders", "trades", "positions", "ready"}

-----------------------------------------------------------------------------
(* The side whose position an order changes (calPositionDirection). *)
PositionDirection(direction, offset) ==
  IF (direction = "buy") <=> (offset = "open") THEN "long" ELSE "short"

SideOf(o) == PositionDirection(book[o].direction, book[o].offset)

(* The lock a closing order takes, and the part of the position it uses. *)
LockOf(offset) ==
  CASE offset = "closeToday"              -> "today"
    [] offset # "closeToday" /\ SplitsToday  -> "yesterday"
    [] offset # "closeToday" /\ ~SplitsToday -> "close"

EmptyPos == [yesterday |-> 0, today |-> 0, lock |-> [l \in Locks |-> 0]]

Available(side, l) ==
  LET p == pos[side]
  IN CASE l = "close"     -> p.yesterday + p.today - p.lock["close"]
       [] l = "today"     -> p.today - p.lock["today"]
       [] l = "yesterday" -> p.yesterday - p.lock["yesterday"]

AutoOffset(direction, volume) ==
  LET side == PositionDirection(direction, "close")
  IN CASE ~known -> "open"
       [] known /\ ~SplitsToday -> IF Available(side, "close") >= volume THEN "close" ELSE "open"
       [] known /\ SplitsToday  ->
            IF Available(side, "today") >= volume THEN "closeToday"
            ELSE IF Available(side, "yesterday") >= volume THEN "closeYesterday"
            ELSE "open"

(* setValue with lockClose, lockTodayClose or lockYesterdayClose *)
AddLock(side, l, n) ==
  /\ pos' = [pos EXCEPT ![side].lock[l] = @ + n]
  /\ known' = TRUE

AddToday(side, n) ==
  /\ pos' = [pos EXCEPT ![side].today = @ + n]
  /\ known' = TRUE

-----------------------------------------------------------------------------
(* The exchange.  An order it has taken is "sent" until it decides.  *)

NotPlaced == [state |-> "none"]
Placed(direction, offset, volume, s, state) ==
  [state |-> state, direction |-> direction, offset |-> offset,
   volume |-> volume, left |-> volume, session |-> s]

Key(o) == <<o, book[o].session>>
Exists(o) == book[o].state \notin {"none", "failed"}
Closing(o) == Exists(o) /\ book[o].offset # "open"
IsLive(o) == book[o].state = "live"

(* The part of a position at the exchange that opening and closing use *)
OpenedPart == IF SplitsToday THEN "today" ELSE "close"

ClosingOn(side, l) == {o \in Orders : Closing(o) /\ SideOf(o) = side /\ LockOf(book[o].offset) = l}
Left(O) == MapThenSumSet(LAMBDA o : book[o].left, O)
Traded(O) == MapThenSumSet(LAMBDA o : book[o].volume - book[o].left, O)

Free(side, l) == hold[side][l] - Left({o \in ClosingOn(side, l) : IsLive(o)})

Covered(direction, offset, volume) ==
  \/ offset = "open"
  \/ Free(PositionDirection(direction, offset), LockOf(offset)) >= volume

(* Topics are resumed with QUICK: what happens while the account is not    *)
(* logged in is never reported.                                            *)
Report(rs) == reports' = IF stage = "down" THEN reports ELSE reports \o rs

OrderReport(o, state, left) == [type |-> "order", order |-> o, state |-> state, left |-> left]
TradeReport(o) == [type |-> "trade", order |-> o]
RejectReport(o) == [type |-> "reject", order |-> o]

Accept(o) ==
  /\ book[o].state = "sent"
  /\ Covered(book[o].direction, book[o].offset, book[o].volume)
  /\ book' = [book EXCEPT ![o].state = "live"]
  /\ Report(<<OrderReport(o, "live", book[o].volume)>>)
  /\ UNCHANGED <<engine, job, connection, hold, mishaps>>

(* Refused by the broker's front, which answers the session that asked, or *)
(* by the exchange, which reports to the account.                          *)
Reject(o) ==
  /\ book[o].state = "sent"
  /\ \/ /\ book' = [book EXCEPT ![o].state = "rejected"]
        /\ Report(IF book[o].session = session THEN <<RejectReport(o)>> ELSE << >>)
     \/ /\ book' = [book EXCEPT ![o].state = "cancelled"]
        /\ Report(<<OrderReport(o, "cancelled", book[o].volume)>>)
  /\ UNCHANGED <<engine, job, connection, hold, mishaps>>

Trade(o) ==
  /\ IsLive(o)
  /\ LET left == book[o].left - 1
         state == IF left = 0 THEN "done" ELSE "live"
         part == IF book[o].offset = "open" THEN OpenedPart ELSE LockOf(book[o].offset)
         gain == IF book[o].offset = "open" THEN 1 ELSE -1
     IN /\ book' = [book EXCEPT ![o].left = left, ![o].state = state]
        /\ hold' = [hold EXCEPT ![SideOf(o)][part] = @ + gain]
        /\ Report(<<OrderReport(o, state, left), TradeReport(o)>>)
  /\ UNCHANGED <<engine, job, connection, mishaps>>

Cancel(o) ==
  /\ IsLive(o)
  /\ book' = [book EXCEPT ![o].state = "cancelled"]
  /\ Report(<<OrderReport(o, "cancelled", book[o].left)>>)
  /\ UNCHANGED <<engine, job, connection, hold, mishaps>>

(* Another terminal places an order. *)
OtherTerminal(o, direction, offset, volume) ==
  /\ o \in Foreign /\ book[o] = NotPlaced
  /\ Covered(direction, offset, volume)
  /\ book' = [book EXCEPT ![o] = Placed(direction, offset, volume, 0, "live")]
  /\ Report(<<OrderReport(o, "live", volume)>>)
  /\ UNCHANGED <<engine, job, connection, hold, mishaps>>

-----------------------------------------------------------------------------
(* The listening thread, step by step *)

is_logged_in == stage \notin {"down", "login"}

(* An order arrives; autoOffset looks at the position without the mutex.   *)
(* For an account without an entry it counts the position at once.         *)
Read(o, direction, wish, volume) ==
  /\ job = Idle /\ is_logged_in
  /\ o \in Own /\ book[o] = NotPlaced
  /\ job' = [pc |-> IF wish = "open" THEN "lock" ELSE "read",
             order |-> o, direction |-> direction, volume |-> volume, chosen |-> wish = "auto",
             offset |-> IF wish = "auto" THEN AutoOffset(direction, volume) ELSE wish]
  /\ IF wish = "auto" /\ ~known
       THEN AddToday(PositionDirection(direction, "open"), volume)
       ELSE UNCHANGED <<known, pos>>
  /\ UNCHANGED <<recorded, lockInfo, unlocked, connection, reports, exchange, mishaps>>

(* setValue for a closing order *)
Lock ==
  /\ job.pc = "read"
  /\ job' = [job EXCEPT !.pc = "lock"]
  /\ IF job.offset = "open" THEN UNCHANGED <<known, pos>>
     ELSE AddLock(PositionDirection(job.direction, job.offset), LockOf(job.offset), job.volume)
  /\ UNCHANGED <<recorded, lockInfo, unlocked, connection, reports, exchange, mishaps>>

(* req_order_insert: record_order and setLockInfo *)
Record ==
  /\ job.pc = "lock"
  /\ job' = [job EXCEPT !.pc = "record"]
  /\ recorded' = recorded \cup {<<job.order, session>>}
  /\ lockInfo' = lockInfo \cup {<<job.order, session>>}
  /\ unlocked' = unlocked \ {<<job.order, session>>}
  /\ UNCHANGED <<known, pos, connection, reports, exchange, mishaps>>

(* req_order_insert: ReqOrderInsert *)
Insert ==
  /\ job.pc = "record"
  /\ \/ /\ stage # "down"
        /\ book' = [book EXCEPT ![job.order] =
                      Placed(job.direction, job.offset, job.volume, session, "sent")]
     \/ /\ InsertFails \/ stage = "down"
        /\ book' = [book EXCEPT ![job.order] =
                      Placed(job.direction, job.offset, job.volume, session, "failed")]
  /\ job' = Idle
  /\ UNCHANGED <<engine, connection, reports, hold, mishaps>>

-----------------------------------------------------------------------------
(* The callbacks of the API *)

Arrives(type) == reports # << >> /\ Head(reports).type = type

\* Of Release: the whole order is given back, not what is left of it.
ReleaseWhole(o, r) ==
  /\ AddLock(SideOf(o), LockOf(book[o].offset), 0 - book[o].volume)
  /\ unlocked' = unlocked \cup {Key(o)}

(* A cancelled order gives back what it has not traded. *)
Release(o, r) ==
  /\ AddLock(SideOf(o), LockOf(book[o].offset), 0 - r.left)
  /\ unlocked' = unlocked \cup {Key(o)}

OnRtnOrder ==
  /\ Arrives("order")
  /\ LET r == Head(reports)
         o == r.order
     IN /\ \/ /\ Closing(o) /\ Key(o) \notin recorded /\ r.state # "cancelled"
              /\ AddLock(SideOf(o), LockOf(book[o].offset), book[o].volume)
              /\ lockInfo' = lockInfo \cup {Key(o)}
              /\ unlocked' = unlocked \ {Key(o)}
           \/ /\ Closing(o) /\ Key(o) \in recorded /\ r.state = "cancelled"
              /\ Key(o) \in lockInfo \ unlocked
              /\ Release(o, r)
              /\ UNCHANGED lockInfo
           \/ /\ \/ ~Closing(o)
                 \/ Key(o) \notin recorded /\ r.state = "cancelled"
                 \/ Key(o) \in recorded /\ (r.state = "cancelled" => Key(o) \notin lockInfo \ unlocked)
              /\ UNCHANGED <<known, pos, lockInfo, unlocked>>
        /\ recorded' = recorded \cup {Key(o)}
  /\ reports' = Tail(reports)
  /\ UNCHANGED <<job, connection, exchange, mishaps>>

\* Of OnRtnTrade: closings count as openings.
OnRtnTradeAllOpen ==
  /\ Arrives("trade")
  /\ AddToday(SideOf(Head(reports).order), 1)
  /\ reports' = Tail(reports)
  /\ UNCHANGED <<recorded, lockInfo, unlocked, job, connection, exchange, mishaps>>

(* Only openings matter to TodayOpen: setTodayPos counts closings apart. *)
OnRtnTrade ==
  /\ Arrives("trade")
  /\ LET o == Head(reports).order
     IN /\ IF Closing(o) THEN known' = TRUE /\ UNCHANGED pos ELSE AddToday(SideOf(o), 1)
  /\ reports' = Tail(reports)
  /\ UNCHANGED <<recorded, lockInfo, unlocked, job, connection, exchange, mishaps>>

(* The whole volume is unlocked, without a look at the lock table. *)
OnRspOrderInsert ==
  /\ Arrives("reject")
  /\ LET o == Head(reports).order
     IN IF Closing(o) THEN AddLock(SideOf(o), LockOf(book[o].offset), 0 - book[o].volume)
        ELSE UNCHANGED <<known, pos>>
  /\ reports' = Tail(reports)
  /\ UNCHANGED <<recorded, lockInfo, unlocked, job, connection, exchange, mishaps>>

\* Of OnFrontDisconnected: the positions are cleared, but not who has locked.
OnFrontDisconnectedKeepsLockInfo ==
  /\ stage # "down" /\ session < MaxDisconnects
  /\ known' = FALSE
  /\ pos' = [side \in Sides |-> EmptyPos]
  /\ stage' = "down"
  /\ answer' = << >>
  /\ reports' = << >>
  /\ mishaps' = mishaps \cup {job.pc}
  /\ UNCHANGED <<recorded, lockInfo, unlocked, job, session, exchange>>

(* clearPos; the answers and reports under way are lost. *)
OnFrontDisconnected ==
  /\ stage # "down" /\ session < MaxDisconnects
  /\ known' = FALSE
  /\ pos' = [side \in Sides |-> EmptyPos]
  /\ lockInfo' = {} /\ unlocked' = {}
  /\ stage' = "down"
  /\ answer' = << >>
  /\ reports' = << >>
  /\ mishaps' = mishaps \cup {job.pc}
  /\ UNCHANGED <<recorded, job, session, exchange>>

OnRspUserLogin ==
  /\ stage = "down"
  /\ stage' = "login"
  /\ session' = session + 1
  /\ UNCHANGED <<engine, job, answer, reports, exchange, mishaps>>

OnRspSettlementInfoConfirm ==
  /\ stage = "login"
  /\ stage' = "orders"
  /\ UNCHANGED <<engine, job, session, answer, reports, exchange, mishaps>>

(* The exchange takes the records of the query it is asked for. *)
OrderRecords == {[order |-> o, state |-> book[o].state] :
                    o \in {x \in Orders : Exists(x) /\ book[x].state \notin {"sent", "rejected"}}}
TradeRecords == UNION {{<<o, n>> : n \in 1 .. (book[o].volume - book[o].left)} :
                          o \in {x \in Orders : Exists(x)}}

(* A cancellation is in the records and its report is still to come. *)
Overlap == \E i \in DOMAIN reports : reports[i].type = "order" /\ reports[i].state = "cancelled"

TakeRecords ==
  /\ stage \in {"orders", "trades", "positions"} /\ answer = << >>
  /\ answer' = << CASE stage = "orders" -> OrderRecords
                    [] stage = "trades" -> TradeRecords
                    [] stage = "positions" -> {side \in Sides : Yesterday[side] > 0} >>
  /\ mishaps' = IF stage = "orders" /\ Overlap THEN mishaps \cup {"overlap"} ELSE mishaps
  /\ UNCHANGED <<engine, job, session, stage, reports, exchange>>

(* A callback for each record; the last one, or the one without a record, *)
(* asks for the next query.                                               *)
NextStage == CASE stage = "orders" -> "trades" [] stage = "trades" -> "positions" [] stage = "positions" -> "ready"
Finish(rest) ==
  IF rest = {} THEN stage' = NextStage /\ answer' = << >>
  ELSE stage' = stage /\ answer' = <<rest>>
Answers(query) == stage = query /\ answer # << >>
EmptyAnswer == answer = <<{}>>

\* Of OnRspQryOrder: nobody asks whether the order has its lock already.
OnRspQryOrderLocksAgain(row) ==
  /\ Answers("orders") /\ row \in answer[1]
  /\ LET o == row.order
     IN /\ IF Closing(o) /\ row.state # "cancelled"
             THEN AddLock(SideOf(o), LockOf(book[o].offset), book[o].volume)
             ELSE UNCHANGED <<known, pos>>
        /\ lockInfo' = lockInfo \cup {Key(o)}
        /\ UNCHANGED unlocked
        /\ recorded' = recorded \cup {Key(o)}
  /\ Finish(answer[1] \ {row})
  /\ UNCHANGED <<job, session, reports, exchange, mishaps>>

(* An order that has its lock already is left alone, one that ended by     *)
(* cancellation is not locked.                                             *)
OnRspQryOrder(row) ==
  /\ Answers("orders") /\ row \in answer[1]
  /\ LET o == row.order
     IN /\ IF Closing(o) /\ Key(o) \notin lockInfo /\ row.state # "cancelled"
             THEN AddLock(SideOf(o), LockOf(book[o].offset), book[o].volume)
             ELSE UNCHANGED <<known, pos>>
        /\ lockInfo' = lockInfo \cup {Key(o)}
        /\ unlocked' = IF Key(o) \in lockInfo THEN unlocked ELSE unlocked \ {Key(o)}
        /\ recorded' = recorded \cup {Key(o)}
  /\ Finish(answer[1] \ {row})
  /\ UNCHANGED <<job, session, reports, exchange, mishaps>>

OnRspQryTrade(row) ==
  /\ Answers("trades") /\ row \in answer[1]
  /\ IF Closing(row[1]) THEN known' = TRUE /\ UNCHANGED pos ELSE AddToday(SideOf(row[1]), 1)
  /\ Finish(answer[1] \ {row})
  /\ UNCHANGED <<recorded, lockInfo, unlocked, job, session, reports, exchange, mishaps>>

OnRspQryInvestorPosition(side) ==
  /\ Answers("positions") /\ side \in answer[1]
  /\ pos' = [pos EXCEPT ![side].yesterday = @ + Yesterday[side]]
  /\ known' = TRUE
  /\ Finish(answer[1] \ {side})
  /\ UNCHANGED <<recorded, lockInfo, unlocked, job, session, reports, exchange, mishaps>>

OnRspWithoutRecord ==
  /\ EmptyAnswer
  /\ Finish({})
  /\ UNCHANGED <<engine, job, session, reports, exchange, mishaps>>

-----------------------------------------------------------------------------
(* The engine was started before the market opened: the three queries have *)
(* been answered.                                                          *)
PosInit ==
  /\ known = (\E side \in Sides : Yesterday[side] > 0)
  /\ pos = [side \in Sides |-> [EmptyPos EXCEPT !.yesterday = Yesterday[side]]]
  /\ recorded = {} /\ lockInfo = {} /\ unlocked = {}
  /\ job = Idle
  /\ session = 0 /\ stage = "ready" /\ answer = << >>
  /\ reports = << >>
  /\ book = [o \in Orders |-> NotPlaced]
  /\ hold = [side \in Sides |->
               [l \in Locks |-> IF l = (IF SplitsToday THEN "yesterday" ELSE "close")
                                THEN Yesterday[side] ELSE 0]]
  /\ mishaps = {}

Listener ==
  \/ \E o \in Own, direction \in Directions, wish \in Wishes, volume \in Volumes :
        Read(o, direction, wish, volume)
  \/ Lock
  \/ Record
  \/ Insert

Callbacks ==
  \/ OnRtnOrder
  \/ OnRtnTrade
  \/ OnRspOrderInsert
  \/ OnFrontDisconnected
  \/ OnRspUserLogin
  \/ OnRspSettlementInfoConfirm
  \/ answer # << >> /\ \E row \in answer[1] :
        OnRspQryOrder(row) \/ OnRspQryTrade(row) \/ OnRspQryInvestorPosition(row)
  \/ OnRspWithoutRecord

Exchange ==
  \/ \E o \in Orders : Accept(o) \/ Reject(o) \/ Trade(o) \/ Cancel(o)
  \/ \E o \in Foreign, direction \in Directions, offset \in Wishes \ {"auto"}, volume \in Volumes :
        OtherTerminal(o, direction, offset, volume)
  \/ TakeRecords

PosNext == Listener \/ Callbacks \/ Exchange

PosSpec == PosInit /\ [][PosNext]_posVars

-----------------------------------------------------------------------------
(* What orders of other terminals take of a position before the engine has *)
(* heard of them                                                           *)
NotHeardOf(side, l) ==
  LET unheard == {o \in ClosingOn(side, l) : o \in Foreign /\ Key(o) \notin recorded}
  IN Left({o \in unheard : IsLive(o)}) + Traded(unheard)

(* What closing orders ReqOrderInsert has failed for keep locked *)
Unsent(side, l) ==
  MapThenSumSet(LAMBDA o : book[o].volume,
                {o \in Orders : /\ book[o].state = "failed" /\ book[o].offset # "open"
                                /\ SideOf(o) = side /\ LockOf(book[o].offset) = l})

\* A lost connection leaves its mark in mishaps.
NeverDisconnected == mishaps = {}

(* What autoOffset takes for closable (TDPosManage::autoOffset) can be      *)
(* closed at the exchange, up to what other terminals close at this moment: *)
(* no order is ever sent to close a position that is not there, whatever is *)
(* under way between the listening thread, the callbacks and the exchange.  *)
(* A lost connection ends this: what cancelled orders had traded before is  *)
(* not locked again (OnRspQryOrder).                                        *)
NothingOverclosed ==
  NeverDisconnected =>
    \A side \in Sides, l \in {LockOf(offset) : offset \in Offsets \ {"open"}} :
      (l = "today" => SplitsToday) =>
         Available(side, l) <= Free(side, l) + NotHeardOf(side, l)

(* An order autoOffset has chosen to close with has its position at the     *)
(* exchange, beside all orders of the engine that are under way there,     *)
(* unless other terminals have taken it or the connection was lost.        *)
ChosenClosesCovered ==
  (NeverDisconnected /\ job.pc \in {"read", "lock", "record"} /\ job.chosen /\ job.offset # "open") =>
     LET side == PositionDirection(job.direction, job.offset)
         l == LockOf(job.offset)
     IN job.volume + Left({o \in ClosingOn(side, l) \cap Own : book[o].state \in {"sent", "live"}})
          <= hold[side][l] + Traded(ClosingOn(side, l) \cap Foreign)

(* When every order has ended and every report has been handled, the locks *)
(* are exactly what closing orders have traded and what orders that could  *)
(* not be sent have locked (req_order_insert keeps their lock): no other    *)
(* lock is left behind, none was given back twice (OnRtnOrder,             *)
(* OnRspOrderInsert).                                                      *)
NoLockLeft ==
  (NeverDisconnected /\ job = Idle /\ reports = << >>
     /\ \A o \in Orders : book[o].state \notin {"sent", "live"})
    => \A side \in Sides, l \in Locks :
         pos[side].lock[l] = Traded(ClosingOn(side, l)) + Unsent(side, l)

(* Through lost connections, cleared positions, repeated queries and late  *)
(* reports, every live closing order the engine has in its lock table has  *)
(* what is left of it locked (OnRspQryOrder, OnRtnOrder, clearPos), unless *)
(* the connection broke while the listening thread was between autoOffset  *)
(* and setLockInfo, or between setLockInfo and ReqOrderInsert, or unless a *)
(* cancellation was still to be reported when the order query was answered *)
(* (its record enters the lock table as locked, its report then unlocks).  *)
LiveOrdersLocked ==
  mishaps \cap {"lock", "record", "overlap"} = {} =>
     \A side \in Sides, l \in Locks :
        Left({o \in ClosingOn(side, l) : IsLive(o) /\ Key(o) \in lockInfo}) <= pos[side].lock[l]

(* No order is locked twice, neither by its report and the record of the   *)
(* order query (OnRtnOrder, OnRspQryOrder) nor by the listening thread and *)
(* its report, unless the connection broke while the listening thread was  *)
(* busy with an order: a log-in before ReqOrderInsert then gives the order *)
(* a session it is not recorded under.                                     *)
LockedOnce ==
  mishaps \subseteq {"idle", "overlap"} =>
     \A side \in Sides, l \in Locks :
        pos[side].lock[l] <=
          MapThenSumSet(LAMBDA o : book[o].volume,
                        {o \in Orders : /\ book[o] # NotPlaced /\ book[o].offset # "open"
                                        /\ SideOf(o) = side /\ LockOf(book[o].offset) = l})
          + (IF /\ job.pc \in {"lock", "record"} /\ job.offset # "open"
                /\ PositionDirection(job.direction, job.offset) = side /\ LockOf(job.offset) = l
             THEN job.volume ELSE 0)
=============================================================================
