------------------------------ MODULE ParkUnit ------------------------------
(***************************************************************************)
(* Orders a client parks until a time, a price or a state of the exchange  *)
(* is reached (CParkUnit with the ticks and states its directStrategy      *)
(* keeps).  The consumer of the clients' messages inserts, deletes and     *)
(* sends parked orders by hand; the main loop (OnPeriodCall) sends those   *)
(* that are triggered.  Both threads work on m_mapOrders and make order    *)
(* references from the same static counters, without a lock.               *)
(***************************************************************************)
EXTENDS Integers, Sequences, FiniteSets

CONSTANTS
  Ids,          \* ParkedOrderIDs, chosen by the clients
  Requests,     \* orders clients park: [id, type, code, cond, stop]
  Actions,      \* what clients do with them: [id, flag]
  Codes,        \* instruments
  Ticks,        \* prices: [last, bid, ask]
  Reports,      \* states of the exchange that are reported
  Moments,      \* the times at which the clock is read, in their order
  ClearTime,    \* m_nClearTime: the trading day ends here
  NoId, NoTick

Types    == {"TIME", "CONDITION", "EXCHCONTINUE", "EXCHAUCTION"}
Flags    == {"Delete", "HumanSend"}
Statuses == {"0", "2", "3"}            \* InstrumentStatus: none, continuous, auction
Conditions == [price: {"last", "bid", "ask"}, rel: {"GT", "GE", "LT", "LE"}]

TimesOfDay == {t \in Nat : t < 240000 /\ t % 100 < 60 /\ (t \div 100) % 100 < 60}     \* hhmmss

ASSUME RequestsAssumption ==
  \A r \in Requests : r.id \in Ids /\ r.type \in Types /\ r.code \in Codes
ASSUME StopTimesAssumption == \A r \in Requests : r.type = "TIME" => r.stop \in TimesOfDay
ASSUME ActionsAssumption == Actions \subseteq [id: Ids, flag: Flags]
ASSUME MomentsAssumption == Moments \in Seq(TimesOfDay) /\ Moments # << >>
ASSUME ClearTimeAssumption == ClearTime \in TimesOfDay
ASSUME ReportsAssumption == Reports \subseteq Statuses
ASSUME NothingAssumption == NoId \notin Ids /\ NoTick \notin Ticks

Threads == {"consumer", "main"}

VARIABLES
  moment,       \* the clock: an index of Moments
  inbox,        \* messages of clients that have not been read
  orders,       \* m_mapOrders: status and request
  todo,         \* orders the main loop has still to visit in this round
  work,         \* what each thread is at: an order, how far, and the reference it makes
  tickers,      \* m_tickers
  latestTick,   \* m_latestTick
  exchStatus,   \* m_lastExchStatus
  refs,         \* lastTime and reqInsertNo of genOrderRef
  sent,         \* history: orders given to the engine,
  met,          \* orders both threads have been sending at once,
  held          \* orders whose trigger was pulled at some time since they are parked

parkVars == <<moment, inbox, orders, todo, work, tickers, latestTick, exchStatus, refs, sent, met, held>>

Ended == {"Send", "Deleted"}                  \* inner_isEndState
NoOrder == [status |-> "none"]
Idle == [at |-> NoId, stage |-> "idle", second |-> 0, no |-> 0, alone |-> TRUE]
Now == Moments[moment]

Stages == {"idle", "check", "fill", "ref", "insert", "mark"}
Orders == {NoOrder} \cup [status: Ended \cup {"NotSend"}, request: Requests]
Works  == [at: Ids \cup {NoId}, stage: Stages, second: TimesOfDay, no: Nat, alone: BOOLEAN]
Sents  == [id: Ids, by: Threads, alone: BOOLEAN, ref: TimesOfDay \X (0 .. 999)]

ParkTypeOK ==
  /\ moment \in DOMAIN Moments
  /\ inbox \subseteq Requests \cup Actions
  /\ orders \in [Ids -> Orders]
  /\ todo \subseteq {i \in Ids : orders[i] # NoOrder}
  /\ work \in [Threads -> Works]
  /\ \A t \in Threads :
        /\ work[t].stage = "idle" <=> work[t].at = NoId
        /\ work[t].at # NoId => orders[work[t].at] # NoOrder
  /\ tickers \subseteq Codes /\ latestTick \in [Codes -> Ticks \cup {NoTick}]
  /\ exchStatus \in Statuses
  /\ refs \in [lastTime: TimesOfDay, reqInsertNo: Nat]
  /\ sent \in Seq(Sents) /\ met \subseteq Ids /\ held \subseteq Ids

ParkInit ==
  /\ moment = 1 /\ inbox = Requests \cup Actions
  /\ orders = [i \in Ids |-> NoOrder]
  /\ todo = {} /\ work = [t \in Threads |-> Idle]
  /\ tickers = {} /\ latestTick = [c \in Codes |-> NoTick] /\ exchStatus = "0"
  /\ refs = [lastTime |-> 0, reqInsertNo |-> 1]
  /\ sent = << >> /\ met = {} /\ held = {}

-----------------------------------------------------------------------------
(* The triggers: inner_isTrigged and m_mapCondFun *)

(* Of NormalizeTime: times are compared as they are. *)
PlainTime(t) == t

NormalizeTime(t) == IF t < ClearTime THEN t + 240000 ELSE t

Compare(a, rel, b) ==
  \/ rel = "GT" /\ a > b
  \/ rel = "GE" /\ a >= b
  \/ rel = "LT" /\ a < b
  \/ rel = "LE" /\ a <= b

Condition(r, tick) == tick # NoTick /\ r.cond \in Conditions /\ Compare(tick[r.cond.price], r.cond.rel, r.stop)

(* Of isTrigged: the prices to buy and to sell at are mixed up. *)
isTriggedMixedUp(r) ==
  LET tick == latestTick[r.code]
  IN \/ r.type = "TIME" /\ NormalizeTime(Now) >= NormalizeTime(r.stop)
     \/ /\ r.type = "CONDITION" /\ tick # NoTick
        /\ Condition(r, [tick EXCEPT !.bid = tick.ask, !.ask = tick.bid])
     \/ r.type = "EXCHCONTINUE" /\ exchStatus = "2"
     \/ r.type = "EXCHAUCTION" /\ exchStatus = "3"

isTrigged(r) ==
  \/ r.type = "TIME" /\ NormalizeTime(Now) >= NormalizeTime(r.stop)
  \/ r.type = "CONDITION" /\ Condition(r, latestTick[r.code])
  \/ r.type = "EXCHCONTINUE" /\ exchStatus = "2"
  \/ r.type = "EXCHAUCTION" /\ exchStatus = "3"

(* Reference: the seconds of the trading day, which begins when it is cleared *)
Seconds(t) == (t \div 10000) * 3600 + ((t % 10000) \div 100) * 60 + (t % 100)
SecondOfDay(t) == (Seconds(t) - Seconds(ClearTime)) % 86400

Reason(r, now, tick, exch) ==
  CASE r.type = "TIME" -> SecondOfDay(now) >= SecondOfDay(r.stop)
    [] r.type = "CONDITION" -> Condition(r, tick[r.code])
    [] r.type = "EXCHCONTINUE" -> exch = "2"
    [] r.type = "EXCHAUCTION" -> exch = "3"

Hold == held' = held \cup {i \in Ids : /\ orders'[i] # NoOrder
                                       /\ Reason(orders'[i].request, Moments[moment'], latestTick', exchStatus')}

-----------------------------------------------------------------------------
(* The consumer thread *)

(* DoReqParkedOrderInsert: a map keeps what it has under a key. *)
InsertOrder(r) ==
  /\ work["consumer"] = Idle
  /\ r \in inbox
  /\ inbox' = inbox \ {r}
  /\ orders' = IF orders[r.id] # NoOrder THEN orders
               ELSE [orders EXCEPT ![r.id] = [status |-> "NotSend", request |-> r]]
  /\ tickers' = tickers \cup {r.code}
  /\ UNCHANGED <<moment, todo, work, latestTick, exchStatus, refs, sent, met>>
  /\ Hold

(* DoReqParkedOrderAction *)
DeleteOrder(i) ==
  LET a == [id |-> i, flag |-> "Delete"]
  IN /\ work["consumer"] = Idle
     /\ a \in inbox
     /\ inbox' = inbox \ {a}
     /\ orders' = IF orders[i].status = "NotSend" THEN [orders EXCEPT ![i].status = "Deleted"] ELSE orders
     /\ UNCHANGED <<moment, todo, work, tickers, latestTick, exchStatus, refs, sent, met, held>>

Meeting(t, i) == IF \E u \in Threads \ {t} : work[u].at = i THEN {i} ELSE {}

(* Of HumanSend: an order is sent whatever its status is. *)
HumanSendAnyway(i) ==
  LET a == [id |-> i, flag |-> "HumanSend"]
  IN /\ work["consumer"] = Idle
     /\ a \in inbox
     /\ inbox' = inbox \ {a}
     /\ orders[i] # NoOrder
     /\ work' = [work EXCEPT !["consumer"] = [Idle EXCEPT !.at = i, !.stage = "fill"]]
     /\ met' = met \cup Meeting("consumer", i)
     /\ UNCHANGED <<moment, orders, todo, tickers, latestTick, exchStatus, refs, sent, held>>

HumanSend(i) ==
  LET a == [id |-> i, flag |-> "HumanSend"]
  IN /\ work["consumer"] = Idle
     /\ a \in inbox
     /\ inbox' = inbox \ {a}
     /\ IF orders[i].status = "NotSend"
        THEN /\ work' = [work EXCEPT !["consumer"] = [Idle EXCEPT !.at = i, !.stage = "fill"]]
             /\ met' = met \cup Meeting("consumer", i)
        ELSE UNCHANGED <<work, met>>
     /\ UNCHANGED <<moment, orders, todo, tickers, latestTick, exchStatus, refs, sent, held>>

-----------------------------------------------------------------------------
(* The main loop: OnPeriodCall *)

NextRound ==
  /\ work["main"] = Idle /\ todo = {}
  /\ todo' = {i \in Ids : orders[i] # NoOrder} /\ todo' # {}
  /\ UNCHANGED <<moment, inbox, orders, work, tickers, latestTick, exchStatus, refs, sent, met, held>>

Visit(i) ==
  /\ work["main"] = Idle /\ i \in todo
  /\ todo' = todo \ {i}
  /\ IF orders[i].status = "NotSend"
     THEN /\ work' = [work EXCEPT !["main"] = [Idle EXCEPT !.at = i, !.stage = "check"]]
          /\ met' = met \cup Meeting("main", i)
     ELSE UNCHANGED <<work, met>>
  /\ UNCHANGED <<moment, inbox, orders, tickers, latestTick, exchStatus, refs, sent, held>>

CheckTrigger ==
  /\ work["main"].stage = "check"
  /\ work' = [work EXCEPT !["main"] = IF isTrigged(orders[@.at].request)
                                      THEN [@ EXCEPT !.stage = "fill"] ELSE Idle]
  /\ UNCHANGED <<moment, inbox, orders, todo, tickers, latestTick, exchStatus, refs, sent, met, held>>

-----------------------------------------------------------------------------
(* inner_insertOrder, in the thread t: the reference, the order, the status *)

(* Of ReadRef: the counter starts anew with every order. *)
ReadRefAnew(t) ==
  /\ work[t].stage = "fill"
  /\ work' = [u \in Threads |->
       IF u = t THEN [work[t] EXCEPT !.stage = "ref", !.second = Now, !.no = 2,
                                     !.alone = \A v \in Threads \ {t} : work[v].stage # "ref"]
       ELSE IF work[u].stage = "ref" THEN [work[u] EXCEPT !.alone = FALSE] ELSE work[u]]
  /\ UNCHANGED <<moment, inbox, orders, todo, tickers, latestTick, exchStatus, refs, sent, met, held>>

(* genOrderRef reads its statics ... *)
ReadRef(t) ==
  /\ work[t].stage = "fill"
  /\ LET last == IF Now # refs.lastTime THEN 1 ELSE refs.reqInsertNo
     IN work' = [u \in Threads |->
          IF u = t THEN [work[t] EXCEPT !.stage = "ref", !.second = Now, !.no = last + 1,
                                        !.alone = \A v \in Threads \ {t} : work[v].stage # "ref"]
          ELSE IF work[u].stage = "ref" THEN [work[u] EXCEPT !.alone = FALSE] ELSE work[u]]
  /\ UNCHANGED <<moment, inbox, orders, todo, tickers, latestTick, exchStatus, refs, sent, met, held>>

(* ... and writes them. *)
WriteRef(t) ==
  /\ work[t].stage = "ref"
  /\ refs' = [lastTime |-> work[t].second, reqInsertNo |-> work[t].no]
  /\ work' = [work EXCEPT ![t].stage = "insert"]
  /\ UNCHANGED <<moment, inbox, orders, todo, tickers, latestTick, exchStatus, sent, met, held>>

DoReqOrderInsert(t) ==
  /\ work[t].stage = "insert"
  /\ sent' = Append(sent, [id |-> work[t].at, by |-> t, alone |-> work[t].alone,
                           ref |-> <<work[t].second, work[t].no % 1000>>])
  /\ work' = [work EXCEPT ![t].stage = "mark"]
  /\ UNCHANGED <<moment, inbox, orders, todo, tickers, latestTick, exchStatus, refs, met, held>>

(* Of MarkSend: the order keeps its status. *)
MarkNothing(t) ==
  /\ work[t].stage = "mark"
  /\ work' = [work EXCEPT ![t] = Idle]
  /\ UNCHANGED <<moment, inbox, orders, todo, tickers, latestTick, exchStatus, refs, sent, met, held>>

MarkSend(t) ==
  /\ work[t].stage = "mark"
  /\ orders' = [orders EXCEPT ![work[t].at].status = "Send"]
  /\ work' = [work EXCEPT ![t] = Idle]
  /\ UNCHANGED <<moment, inbox, todo, tickers, latestTick, exchStatus, refs, sent, met, held>>

-----------------------------------------------------------------------------
(* What comes from the engines, and the clock *)

on_market_data(c, tick) ==
  /\ c \in tickers
  /\ latestTick' = [latestTick EXCEPT ![c] = tick]
  /\ UNCHANGED <<moment, inbox, orders, todo, work, tickers, exchStatus, refs, sent, met>>
  /\ Hold

(* The status of any instrument *)
on_rtn_instrument_status(s) ==
  /\ exchStatus' = s
  /\ UNCHANGED <<moment, inbox, orders, todo, work, tickers, latestTick, refs, sent, met>>
  /\ Hold

ClockMoves ==
  /\ moment < Len(Moments)
  /\ moment' = moment + 1
  /\ UNCHANGED <<inbox, orders, todo, work, tickers, latestTick, exchStatus, refs, sent, met>>
  /\ Hold

Sending(t) == ReadRef(t) \/ WriteRef(t) \/ DoReqOrderInsert(t) \/ MarkSend(t)

Consumer == \/ \E r \in Requests : InsertOrder(r)
            \/ \E i \in Ids : DeleteOrder(i) \/ HumanSend(i)
            \/ Sending("consumer")
MainLoop == NextRound \/ (\E i \in Ids : Visit(i)) \/ CheckTrigger \/ Sending("main")
Market   == \/ \E c \in Codes, tick \in Ticks : on_market_data(c, tick)
            \/ \E s \in Reports : on_rtn_instrument_status(s)

ParkNext == Consumer \/ MainLoop \/ Market \/ ClockMoves

(* The threads run, and time passes. *)
Fairness == WF_parkVars(Consumer) /\ WF_parkVars(MainLoop) /\ WF_parkVars(ClockMoves)

ParkSpec == ParkInit /\ [][ParkNext]_parkVars /\ Fairness

-----------------------------------------------------------------------------
(* A parked order is given to the engine once; twice at most, when the     *)
(* client sends it by hand while the main loop is at work on it.           *)
Sends(i) == Cardinality({k \in DOMAIN sent : sent[k].id = i})

SentOnce == \A i \in Ids : Sends(i) <= IF i \in met THEN 2 ELSE 1

(* Once a parked order is sent or deleted and no thread is at work on it,  *)
(* it stays so and nothing is sent for it.                                 *)
EndedForGood(i) == orders[i].status \in Ended /\ \A t \in Threads : work[t].at # i

EndIsFinal ==
  [][\A i \in Ids : EndedForGood(i) =>
       EndedForGood(i)' /\ orders'[i] = orders[i] /\ Sends(i)' = Sends(i)]_parkVars

(* What the main loop sends had its trigger pulled since it was parked: a  *)
(* time in the order of the trading day, a price, a state of the exchange. *)
SentForAReason == \A k \in DOMAIN sent : sent[k].by = "main" => sent[k].id \in held

(* References made one at a time differ, in one thread or in two: the      *)
(* engine tells orders apart by them.                                      *)
RefsDiffer ==
  \A j, k \in DOMAIN sent : j # k /\ sent[j].alone /\ sent[k].alone => sent[j].ref # sent[k].ref

(* A parked order whose time comes is sent, or else deleted. *)
LastTimeCame(i) == /\ orders[i].status = "NotSend" /\ orders[i].request.type = "TIME"
                   /\ \E k \in DOMAIN Moments :
                        k >= moment /\ SecondOfDay(Moments[k]) >= SecondOfDay(orders[i].request.stop)

TimedOrdersEnd == \A i \in Ids : LastTimeCame(i) ~> orders[i].status \in Ended
=============================================================================
