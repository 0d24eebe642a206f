------------------------------- MODULE TwapUnit -------------------------------
(***************************************************************************)
(* The orders a client has executed in slices over a stretch of trading    *)
(* time (CTwapUnit, CTwapContext).  Two threads share them without a lock  *)
(* that protects anything: the consumer of the clients' messages inserts   *)
(* and cancels orders, the main loop polls them (OnPeriodCall) in rounds.  *)
(* A round first visits every order, which may decide on a slice, and then *)
(* places the slices it has collected.  A third thread brings prices.      *)
(*                                                                         *)
(* The volume that should have been placed after k slots is the real       *)
(* number k * volume / times; the code adds up doubles, and the sum of     *)
(* numbers that are not integers may come out a little above an integer.   *)
(***************************************************************************)
EXTENDS TimeSection

CONSTANTS
  Ids,         \* TwapOrderIDs, chosen by the clients
  Requests,    \* orders clients send: [id, product, volume, begin, end]
  Moments,     \* the times at which the clock is read, in their order
  NoId         \* no order

ASSUME RequestsAssumption == Requests \subseteq
  [id: Ids, product: STRING, volume: Int, begin: HHMMSS, end: HHMMSS]
ASSUME MomentsAssumption == Moments \in Seq(HHMMSS) /\ Moments # << >>
ASSUME NoIdAssumption == NoId \notin Ids

VARIABLES
  moment,      \* the clock: an index of Moments
  requests,    \* messages of clients that have not been read
  cancels,
  orders,      \* m_mapOrders
  contexts,    \* m_mapContexts
  inserting,   \* an order that is in m_mapOrders, with the context that is not yet in m_mapContexts
  timer,       \* the main loop: orders still to visit, the one it looks at, slices to place
  latestTick,  \* products of which a price is known
  crashed,     \* the main loop has followed a null pointer
  placed,      \* history: the volume placed for each order,
  seen,        \* orders the loop has checked since the clock last moved,
  disturbed    \* and orders it once has not, or had no price for

vars == <<moment, requests, cancels, orders, contexts, inserting, timer, latestTick,
          crashed, placed, seen, disturbed>>

Live  == {"Accepted", "Executing"}
Ended == {"Avoid", "Cancelled", "End"}       \* inner_isEndState

Now == Moments[moment]

NoOrder == [status |-> "none", remain |-> 0]
NoContext == [made |-> FALSE, product |-> "", part |-> NoPart, total |-> 0, gap |-> 1,
              times |-> 1, this |-> Never, next |-> Never, slots |-> 0, real |-> 0]
NotInserting == [id |-> NoId, context |-> NoContext]

TypeOK ==
  /\ moment \in DOMAIN Moments
  /\ requests \subseteq Requests /\ cancels \subseteq Ids
  /\ orders \in [Ids -> [status: Live \cup Ended \cup {"none"}, remain: Int]]
  /\ \A i \in Ids : /\ DOMAIN contexts[i] = DOMAIN NoContext
                    /\ contexts[i].made => contexts[i].gap > 0 /\ contexts[i].times > 0
  /\ inserting.id \in Ids \cup {NoId} /\ inserting.context.made = (inserting.id # NoId)
  /\ timer \in [todo: SUBSET Ids, at: Ids \cup {NoId},
                events: Seq([id: Ids, volume: Nat \ {0}])]
  /\ latestTick \subseteq STRING /\ crashed \in BOOLEAN
  /\ placed \in [Ids -> Nat] /\ seen \subseteq Ids /\ disturbed \subseteq Ids

Init ==
  /\ moment = 1
  /\ requests = Requests /\ cancels = Ids
  /\ orders = [i \in Ids |-> NoOrder]
  /\ contexts = [i \in Ids |-> NoContext]
  /\ inserting = NotInserting
  /\ timer = [todo |-> Ids, at |-> NoId, events |-> << >>]
  /\ latestTick = {} /\ crashed = FALSE
  /\ placed = [i \in Ids |-> 0] /\ seen = {} /\ disturbed = {}

-----------------------------------------------------------------------------
(* The consumer thread *)

Part(r) == isInSection(Now, r.product, r.begin, r.end)

Valid(r) == r.volume > 0 /\ isExpectTime(Now, r.begin, r.end) /\ Part(r).ok

NewContext(r) ==
  LET part  == Part(r)
      total == getTotalSecond(r.product, part)
      gap   == Max({total \div r.volume, 1})
  IN [made |-> TRUE, product |-> r.product, part |-> part, total |-> r.volume, gap |-> gap,
      times |-> total \div gap, this |-> part.start,
      next |-> getStandardTime(r.product, part.start, gap), slots |-> 0, real |-> 0]

(* DoReqTwapOrderInsert up to the lock.  A map keeps what it has under a key. *)
InsertOrder(r) ==
  /\ inserting = NotInserting
  /\ r \in requests
  /\ requests' = requests \ {r}
  /\ orders' = IF orders[r.id] # NoOrder THEN orders
               ELSE [orders EXCEPT ![r.id] = [status |-> IF Valid(r) THEN "Accepted" ELSE "Avoid",
                                              remain |-> r.volume]]
  /\ inserting' = IF Valid(r) THEN [id |-> r.id, context |-> NewContext(r)] ELSE NotInserting
  /\ UNCHANGED <<moment, cancels, contexts, timer, latestTick, crashed, placed, seen, disturbed>>

(* ... and from there on: the context, and the subscription to the prices *)
InsertContext ==
  /\ inserting # NotInserting
  /\ contexts' = IF contexts[inserting.id].made THEN contexts
                 ELSE [contexts EXCEPT ![inserting.id] = inserting.context]
  /\ inserting' = NotInserting
  /\ UNCHANGED <<moment, requests, cancels, orders, timer, latestTick, crashed, placed, seen, disturbed>>

(* DoReqTwapOrderAction *)
CancelOrder(i) ==
  /\ inserting = NotInserting
  /\ i \in cancels
  /\ cancels' = cancels \ {i}
  /\ orders' = IF orders[i].status \in Live THEN [orders EXCEPT ![i].status = "Cancelled"] ELSE orders
  /\ UNCHANGED <<moment, requests, contexts, inserting, timer, latestTick, crashed, placed, seen, disturbed>>

-----------------------------------------------------------------------------
(* The main loop: OnPeriodCall *)

NextRound ==
  /\ timer.at = NoId /\ timer.todo = {} /\ timer.events = << >>
  /\ timer' = [timer EXCEPT !.todo = Ids]
  /\ UNCHANGED <<moment, requests, cancels, orders, contexts, inserting, latestTick, crashed, placed, seen, disturbed>>

(* Of Visit: an order is looked at whatever its status is. *)
VisitEnded(i) ==
  /\ timer.at = NoId /\ i \in timer.todo
  /\ timer' = [timer EXCEPT !.todo = @ \ {i}, !.at = IF contexts[i].made THEN i ELSE NoId]
  /\ UNCHANGED <<moment, requests, cancels, orders, contexts, inserting, latestTick, crashed, placed, seen, disturbed>>

(* The loop reads the status of an order *)
Visit(i) ==
  /\ timer.at = NoId /\ i \in timer.todo
  /\ timer' = [timer EXCEPT !.todo = @ \ {i}, !.at = IF orders[i].status \in Live THEN i ELSE NoId]
  /\ UNCHANGED <<moment, requests, cancels, orders, contexts, inserting, latestTick, crashed, placed, seen, disturbed>>

(* m_mapContexts[twapid] of an order without a context is a null pointer *)
VisitWithoutContext ==
  /\ timer.at # NoId /\ ~contexts[timer.at].made
  /\ crashed' = TRUE
  /\ UNCHANGED <<moment, requests, cancels, orders, contexts, inserting, timer, latestTick, placed, seen, disturbed>>

Ceil(a, b) == (a + b - 1) \div b

(* What ceil(m_dShouldVol - m_nRealVol) may be after the k-th slot *)
WantVol(c, k) ==
  LET exact == Ceil(k * c.total, c.times) - c.real
      above == IF c.total % c.times # 0 /\ (k * c.total) % c.times = 0 THEN {exact + 1} ELSE {}
  IN {exact} \cup above

NextSlot(c) ==
  [c EXCEPT !.slots = @ + 1, !.this = c.next, !.next = getStandardTime(c.product, c.next, c.gap)]

NoSlice(i, c) ==
  /\ timer' = [timer EXCEPT !.at = NoId]
  /\ contexts' = [contexts EXCEPT ![i] = c]

Decide(i, c, want) ==
  /\ timer' = [timer EXCEPT !.at = NoId, !.events = Append(@, [id |-> i, volume |-> want])]
  /\ contexts' = [contexts EXCEPT ![i] = [c EXCEPT !.real = @ + want]]

(* Of Slice: a slice of nothing is an order as well. *)
SliceOfNothing(i, c, want) == Decide(i, c, want)

Slice(i, c, want) == IF want > 0 THEN Decide(i, c, want) ELSE NoSlice(i, c)

(* CTwapContext::DoCheck: the order has its volume or its time is over; its *)
(* slot has come; its slot has passed; or it is too early for it.           *)
DoCheck ==
  /\ timer.at # NoId /\ contexts[timer.at].made
  /\ LET i    == timer.at
         c    == contexts[i]
         now  == NormalizeTime(Now)
         over == c.total - c.real <= 0 \/ now > c.part.end
     IN /\ seen' = seen \cup {i}
        /\ \/ /\ over
              /\ orders' = [orders EXCEPT ![i].status = "End"]
              /\ timer' = [timer EXCEPT !.at = NoId]
              /\ UNCHANGED contexts
           \/ /\ ~over /\ now >= c.this /\ now <= c.next
              /\ \E w \in WantVol(c, c.slots + 1) :
                    Slice(i, NextSlot(c), Min({w, c.total - c.real}))
              /\ UNCHANGED orders
           \/ /\ ~over /\ now >= c.this /\ now > c.next
              /\ NoSlice(i, NextSlot(c))
              /\ UNCHANGED orders
           \/ /\ ~over /\ now < c.this
              /\ NoSlice(i, c)
              /\ UNCHANGED orders
  /\ UNCHANGED <<moment, requests, cancels, inserting, latestTick, crashed, placed, disturbed>>

(* Of PlaceSlice: nothing is taken back. *)
PlaceSliceNoRollback ==
  /\ timer.at = NoId /\ timer.todo = {} /\ timer.events # << >>
  /\ LET e == Head(timer.events)
         i == e.id
         remain == orders[i].remain - e.volume
     IN IF contexts[i].product \in latestTick
        THEN /\ orders' = [orders EXCEPT ![i] = [status |-> IF remain <= 0 THEN "End" ELSE "Executing",
                                                 remain |-> remain]]
             /\ placed' = [placed EXCEPT ![i] = @ + e.volume]
             /\ UNCHANGED disturbed
        ELSE /\ disturbed' = disturbed \cup {i}
             /\ UNCHANGED <<orders, placed>>
  /\ timer' = [timer EXCEPT !.events = Tail(@)]
  /\ UNCHANGED <<moment, requests, cancels, contexts, inserting, latestTick, crashed, seen>>

(* A slice is placed at the latest price, or taken back when there is none. *)
PlaceSlice ==
  /\ timer.at = NoId /\ timer.todo = {} /\ timer.events # << >>
  /\ LET e == Head(timer.events)
         i == e.id
         remain == orders[i].remain - e.volume
     IN IF contexts[i].product \in latestTick
        THEN /\ orders' = [orders EXCEPT ![i] = [status |-> IF remain <= 0 THEN "End" ELSE "Executing",
                                                 remain |-> remain]]
             /\ placed' = [placed EXCEPT ![i] = @ + e.volume]
             /\ UNCHANGED <<contexts, disturbed>>
        ELSE /\ contexts' = [contexts EXCEPT ![i].real = @ - e.volume]       \* RollbackVolume
             /\ disturbed' = disturbed \cup {i}
             /\ UNCHANGED <<orders, placed>>
  /\ timer' = [timer EXCEPT !.events = Tail(@)]
  /\ UNCHANGED <<moment, requests, cancels, inserting, latestTick, crashed, seen>>

-----------------------------------------------------------------------------
(* A price of a product that is subscribed, and the clock *)

on_market_data(p) ==
  /\ \E i \in Ids : contexts[i].made /\ contexts[i].product = p
  /\ p \notin latestTick
  /\ latestTick' = latestTick \cup {p}
  /\ UNCHANGED <<moment, requests, cancels, orders, contexts, inserting, timer, crashed, placed, seen, disturbed>>

Running(i) == orders[i].status \in Live

ClockMoves ==
  /\ moment < Len(Moments)
  /\ moment' = moment + 1
  /\ disturbed' = disturbed \cup {i \in Ids : Running(i) /\ i \notin seen}
  /\ seen' = {}
  /\ UNCHANGED <<requests, cancels, orders, contexts, inserting, timer, latestTick, crashed, placed>>

Consumer == InsertContext \/ (\E r \in Requests : InsertOrder(r)) \/ (\E i \in Ids : CancelOrder(i))
MainLoop == NextRound \/ (\E i \in Ids : Visit(i)) \/ DoCheck \/ PlaceSlice \/ VisitWithoutContext

Next ==
  /\ ~crashed
  /\ Consumer \/ MainLoop \/ ClockMoves \/ \E p \in DOMAIN SectionConfig : on_market_data(p)

Spec == Init /\ [][Next]_vars

-----------------------------------------------------------------------------
(* Every lot of an order is in one place: what is left and what was placed *)
(* make up the volume, and what the context counts as done was placed or   *)
(* waits to be: nothing is placed twice and nothing twice taken back.      *)
Pending(i) ==
  MapThenSumSet(LAMBDA k : IF timer.events[k].id = i THEN timer.events[k].volume ELSE 0,
                DOMAIN timer.events)

EveryLotOnce ==
  \A i \in Ids : contexts[i].made =>
     /\ contexts[i].real = placed[i] + Pending(i)
     /\ contexts[i].real <= contexts[i].total
     /\ orders[i].status # "Avoid" => orders[i].remain = contexts[i].total - placed[i]

(* The k-th slot of an order begins k - 1 gaps of trading after its start, *)
(* breaks and midnight left out, and no more than the share of the slots   *)
(* that have come is placed, up to one lot, and no slice is empty.         *)
OnSchedule ==
  \A i \in Ids : contexts[i].made =>
     LET c   == contexts[i]
         due == TradingSecond(c.product, c.part.start) + c.slots * c.gap
     IN /\ \A k \in DOMAIN timer.events : timer.events[k].volume > 0
        /\ IF c.this = Never THEN due > TradingSecond(c.product, Never)
           ELSE TradingSecond(c.product, c.this) = due
        /\ c.real * c.times <= c.slots * c.total + c.times

(* No second of trading is missing in Moments: the main loop only waits for *)
(* a quarter of a millisecond between two rounds, and an order that it does *)
(* not check in one of the seconds is disturbed.                            *)
EverySecondComes ==
  \A k \in 1 .. Len(Moments) - 1, p \in DOMAIN SectionConfig : \A i \in DOMAIN Sections(p) :
     \A t \in NormalizeTime(Moments[k]) + 1 .. NormalizeTime(Moments[k + 1]) - 1 :
        t = inner_Second2HHMMSS(inner_HHMMSS2Second(t)) =>
          t < Sections(p)[i].begin \/ Sections(p)[i].end < t

(* An order that nobody cancels and that ends before all of it is placed   *)
(* was not checked for a whole second, or had no price: the slots of an    *)
(* order fit into its time.                                                *)
PlacedByTheEnd ==
  \A i \in cancels : orders[i].status = "End" /\ orders[i].remain > 0 => i \in disturbed

(* Once an order is cancelled and the main loop is not just at work on it, *)
(* it stays cancelled, is not taken up again and nothing more is placed.   *)
(* (When the loop is at work on it, it may overwrite the cancellation.)    *)
InRound(i) == timer.at = i \/ \E k \in DOMAIN timer.events : timer.events[k].id = i

CancelledForGood(i) == orders[i].status = "Cancelled" /\ ~InRound(i)

CancelIsFinal ==
  [][\A i \in Ids : CancelledForGood(i) => CancelledForGood(i)' /\ placed'[i] = placed[i]]_vars
=============================================================================
