--------------------------- MODULE TwapUnitProofs ---------------------------
(***************************************************************************)
(* What TwapUnit.tla says of orders that are executed in slices, for all   *)
(* sections, clocks, orders and requests:                                  *)
(*   CancelledStays  a cancelled order stays cancelled.  Shapes says no    *)
(*                   more of the state than what makes the updates of one  *)
(*                   order leave the others alone;                         *)
(*   LotsKept        every lot of an order is in one place.  Lots says     *)
(*                   where: still in the order, among the slices of the    *)
(*                   round, or placed;                                     *)
(*   SlotsKept       the slots of an order come when they should.          *)
(*                   Schedule adds the time of the slot that is next and   *)
(*                   of the one after it to what Lots says of a context.   *)
(*   AllPlacedByTheEnd  an order that is neither cancelled nor disturbed   *)
(*                   ends with nothing left.  EndInv adds to Schedule that *)
(*                   the next slot of such an order is not over, and that  *)
(*                   all its slots fit into its time.                      *)
(* Lots and slots are counted with sums over sets.  MapThenSumSet takes    *)
(* its summand as an operator, of which no lemma can be stated; so there   *)
(* are facts about sums of the values of a function, and each fold of the  *)
(* model is shown to be one (TotalIsSum, TradingIsSum, BetweenIsSum,       *)
(* PendingFold).  A finite set has a smallest subset of any kind there is  *)
(* one of (SmallestSet): it stands in for induction.                       *)
(***************************************************************************)
EXTENDS TwapUnit, SumProofs

Elements(s) == {s[k] : k \in DOMAIN s}

Shapes ==
  /\ DOMAIN orders = Ids /\ DOMAIN placed = Ids
  /\ DOMAIN timer = {"todo", "at", "events"}
  /\ timer.events \in Seq(Elements(timer.events))

-----------------------------------------------------------------------------
(* Sequences of slices, whatever a slice is *)

LEMMA AppendShape ==
  ASSUME NEW s, s \in Seq(Elements(s)), NEW e
  PROVE  /\ Append(s, e) \in Seq(Elements(Append(s, e)))
         /\ \A k \in DOMAIN Append(s, e) : Append(s, e)[k] = e \/ \E j \in DOMAIN s : Append(s, e)[k] = s[j]
<1> DEFINE S == Elements(s) \cup {e}
           t == Append(s, e)
<1>1. s \in Seq(S)
  <2>1. \A k \in 1 .. Len(s) : s[k] \in S
    BY DEF Elements
  <2> QED
    BY <2>1
<1>2. /\ t \in Seq(S) /\ Len(t) = Len(s) + 1 /\ Len(s) \in Nat
      /\ \A k \in 1 .. Len(t) : t[k] = IF k <= Len(s) THEN s[k] ELSE e
  BY <1>1, e \in S
<1> HIDE DEF t
<1>3. DOMAIN t = 1 .. Len(t) /\ DOMAIN s = 1 .. Len(s)
  BY <1>1, <1>2
<1>4. t \in Seq(Elements(t))
  <2>1. \A k \in 1 .. Len(t) : t[k] \in Elements(t)
    BY <1>3 DEF Elements
  <2>2. t = [k \in 1 .. Len(t) |-> t[k]] /\ Len(t) \in Nat
    BY <1>2
  <2> QED
    BY <2>1, <2>2
<1>5. ASSUME NEW k \in DOMAIN t PROVE t[k] = e \/ \E j \in DOMAIN s : t[k] = s[j]
  <2>1. CASE k <= Len(s)
    BY <1>2, <1>3, <2>1
  <2>2. CASE ~(k <= Len(s))
    BY <1>2, <1>3, <2>2
  <2> QED
    BY <2>1, <2>2
<1> QED
  BY <1>4, <1>5 DEF t

LEMMA TailShape ==
  ASSUME NEW s, s \in Seq(Elements(s)), s # << >>
  PROVE  /\ Tail(s) \in Seq(Elements(Tail(s)))
         /\ 1 \in DOMAIN s /\ Head(s) = s[1]
         /\ \A k \in DOMAIN Tail(s) : \E j \in DOMAIN s : Tail(s)[k] = s[j]
<1> DEFINE t == Tail(s)
<1>1. /\ t \in Seq(Elements(s)) /\ Len(t) = Len(s) - 1 /\ Len(s) \in Nat \ {0}
      /\ \A k \in 1 .. Len(t) : t[k] = s[k + 1]
      /\ Head(s) = s[1]
  OBVIOUS
<1> HIDE DEF t
<1>2. DOMAIN t = 1 .. Len(t) /\ DOMAIN s = 1 .. Len(s)
  BY <1>1
<1>3. t \in Seq(Elements(t))
  <2>1. \A k \in 1 .. Len(t) : t[k] \in Elements(t)
    BY <1>2 DEF Elements
  <2>2. t = [k \in 1 .. Len(t) |-> t[k]] /\ Len(t) \in Nat
    BY <1>1
  <2> QED
    BY <2>1, <2>2
<1>4. ASSUME NEW k \in DOMAIN t PROVE \E j \in DOMAIN s : t[k] = s[j]
  <2>1. k + 1 \in DOMAIN s /\ t[k] = s[k + 1]
    BY <1>1, <1>2
  <2> QED
    BY <2>1
<1> QED
  BY <1>1, <1>2, <1>3, <1>4 DEF t

-----------------------------------------------------------------------------
(* What a step may not do to an order that is cancelled and in no round *)
Kept(i) == CancelledForGood(i) => CancelledForGood(i)' /\ placed'[i] = placed[i]

Good == Shapes' /\ \A i \in Ids : Kept(i)

LEMMA InitShapes == Init => Shapes
<1> SUFFICES ASSUME Init PROVE Shapes
  OBVIOUS
<1>1. timer = [todo |-> Ids, at |-> NoId, events |-> << >>]
  BY DEF Init
<1>2. timer.events \in Seq(Elements(timer.events)) /\ DOMAIN timer = {"todo", "at", "events"}
  BY <1>1
<1> QED
  BY <1>2 DEF Init, Shapes

(* Steps that leave the orders and the round alone *)
LEMMA QuietStep ==
  ASSUME Shapes, UNCHANGED <<orders, timer, placed>>
  PROVE  Good
BY DEF Good, Shapes, Kept, CancelledForGood, InRound

(* The consumer leaves an order that has ended as it is. *)
LEMMA ConsumerStep ==
  ASSUME Shapes, NEW i \in Ids, NEW o,
         \/ orders' = [orders EXCEPT ![i] = o] /\ orders[i].status # "Cancelled"
         \/ orders' = orders,
         UNCHANGED <<timer, placed>>
  PROVE  Good
<1>1. Shapes'
  BY DEF Shapes
<1>2. ASSUME NEW j \in Ids, CancelledForGood(j) PROVE CancelledForGood(j)' /\ placed'[j] = placed[j]
  <2>1. orders[j].status = "Cancelled" /\ InRound(j)' = InRound(j) /\ ~InRound(j)
    BY <1>2 DEF CancelledForGood, InRound
  <2>2. orders'[j].status = "Cancelled"
    BY <2>1 DEF Shapes
  <2> QED
    BY <2>1, <2>2 DEF CancelledForGood
<1> QED
  BY <1>1, <1>2 DEF Good, Kept

(* The loop takes up only orders that are not cancelled. *)
LEMMA VisitStep ==
  ASSUME Shapes, NEW i \in Ids, Visit(i)
  PROVE  Good
<1>1. /\ timer' = [timer EXCEPT !.todo = @ \ {i},
                                !.at = IF orders[i].status \in Live THEN i ELSE NoId]
      /\ UNCHANGED <<orders, placed>>
  BY DEF Visit
<1>2. /\ timer'.events = timer.events /\ timer'.at \in {i, NoId}
      /\ timer'.at = i => orders[i].status \in Live
      /\ DOMAIN timer' = DOMAIN timer
  BY <1>1, NoIdAssumption DEF Shapes
<1>3. Shapes'
  BY <1>1, <1>2 DEF Shapes
<1>4. ASSUME NEW j \in Ids, CancelledForGood(j) PROVE CancelledForGood(j)' /\ placed'[j] = placed[j]
  <2>1. timer'.at # j
    BY <1>2, <1>4, NoIdAssumption DEF CancelledForGood, Live
  <2> QED
    BY <1>1, <1>2, <1>4, <2>1 DEF CancelledForGood, InRound
<1> QED
  BY <1>3, <1>4 DEF Good, Kept

(* A check touches the order it is at, and collects slices of it only. *)
LEMMA CheckStep ==
  ASSUME Shapes, DoCheck
  PROVE  Good
<1> DEFINE i == timer.at
<1>1. UNCHANGED placed
  BY DEF DoCheck
<1>2. orders' = [orders EXCEPT ![i].status = "End"] \/ orders' = orders
  BY DEF DoCheck
<1>3. \/ timer' = [timer EXCEPT !.at = NoId]
      \/ \E e : e.id = i /\ timer' = [timer EXCEPT !.at = NoId, !.events = Append(@, e)]
  <2>1. ASSUME NEW c, NEW w, Slice(i, c, w)
        PROVE  \/ timer' = [timer EXCEPT !.at = NoId]
               \/ timer' = [timer EXCEPT !.at = NoId, !.events = Append(@, [id |-> i, volume |-> w])]
    BY <2>1 DEF Slice, NoSlice, Decide
  <2>2. ASSUME NEW w, timer' = [timer EXCEPT !.at = NoId, !.events = Append(@, [id |-> i, volume |-> w])]
        PROVE  \E e : e.id = i /\ timer' = [timer EXCEPT !.at = NoId, !.events = Append(@, e)]
    <3>1. [id |-> i, volume |-> w].id = i
      OBVIOUS
    <3> QED
      BY <2>2, <3>1
  <2>3. \/ timer' = [timer EXCEPT !.at = NoId]
        \/ \E c, w : Slice(i, c, w)
        \/ \E c : NoSlice(i, c)
    BY DEF DoCheck
  <2>4. ASSUME NEW c, NoSlice(i, c) PROVE timer' = [timer EXCEPT !.at = NoId]
    BY <2>4 DEF NoSlice
  <2> QED
    BY <2>1, <2>2, <2>3, <2>4
<1>4. /\ DOMAIN timer' = {"todo", "at", "events"} /\ timer'.at = NoId
      /\ \/ timer'.events = timer.events
         \/ \E e : e.id = i /\ timer'.events = Append(timer.events, e)
  <2>1. CASE timer' = [timer EXCEPT !.at = NoId]
    BY <2>1 DEF Shapes
  <2>2. ASSUME NEW e, e.id = i, timer' = [timer EXCEPT !.at = NoId, !.events = Append(@, e)]
        PROVE  /\ DOMAIN timer' = {"todo", "at", "events"} /\ timer'.at = NoId
               /\ timer'.events = Append(timer.events, e)
    BY <2>2 DEF Shapes
  <2> QED
    BY <1>3, <2>1, <2>2
<1>5. /\ timer'.events \in Seq(Elements(timer'.events))
      /\ \A k \in DOMAIN timer'.events :
            timer'.events[k].id = i \/ \E l \in DOMAIN timer.events : timer'.events[k] = timer.events[l]
  <2>1. timer.events \in Seq(Elements(timer.events))
    BY DEF Shapes
  <2>2. CASE timer'.events = timer.events
    BY <2>1, <2>2
  <2>3. ASSUME NEW e, e.id = i, timer'.events = Append(timer.events, e)
        PROVE  /\ timer'.events \in Seq(Elements(timer'.events))
               /\ \A k \in DOMAIN timer'.events :
                     timer'.events[k].id = i
                     \/ \E l \in DOMAIN timer.events : timer'.events[k] = timer.events[l]
    BY <2>1, <2>3, AppendShape
  <2> QED
    BY <1>4, <2>2, <2>3
<1>6. Shapes'
  BY <1>1, <1>2, <1>4, <1>5 DEF Shapes
<1>7. ASSUME NEW j \in Ids, CancelledForGood(j) PROVE CancelledForGood(j)' /\ placed'[j] = placed[j]
  <2>1. j # i /\ orders'[j] = orders[j]
    BY <1>2, <1>7 DEF CancelledForGood, InRound, Shapes
  <2>2. ~InRound(j)'
    BY <1>4, <1>5, <1>7, <2>1, NoIdAssumption DEF CancelledForGood, InRound
  <2> QED
    BY <1>1, <1>7, <2>1, <2>2 DEF CancelledForGood
<1> QED
  BY <1>6, <1>7 DEF Good, Kept

(* A slice is placed for the order it was collected for. *)
LEMMA PlaceStep ==
  ASSUME Shapes, PlaceSlice
  PROVE  Good
<1> DEFINE i == Head(timer.events).id
<1>1. timer.events # << >> /\ timer' = [timer EXCEPT !.events = Tail(@)]
  BY DEF PlaceSlice
<1>2. \/ UNCHANGED <<orders, placed>>
      \/ \E o, n : orders' = [orders EXCEPT ![i] = o] /\ placed' = [placed EXCEPT ![i] = n]
  BY DEF PlaceSlice
<1>3. /\ DOMAIN timer' = {"todo", "at", "events"} /\ timer'.at = timer.at
      /\ timer'.events = Tail(timer.events)
  BY <1>1 DEF Shapes
<1>4. /\ timer'.events \in Seq(Elements(timer'.events))
      /\ 1 \in DOMAIN timer.events /\ Head(timer.events) = timer.events[1]
      /\ \A k \in DOMAIN timer'.events :
            \E l \in DOMAIN timer.events : timer'.events[k] = timer.events[l]
  BY <1>1, <1>3, TailShape DEF Shapes
<1> HIDE DEF i
<1>5. /\ DOMAIN orders' = Ids /\ DOMAIN placed' = Ids
      /\ \A j \in Ids : j # i => orders'[j] = orders[j] /\ placed'[j] = placed[j]
  BY <1>2 DEF Shapes
<1>6. Shapes'
  BY <1>3, <1>4, <1>5 DEF Shapes
<1>7. ASSUME NEW j \in Ids, CancelledForGood(j) PROVE CancelledForGood(j)' /\ placed'[j] = placed[j]
  <2>1. j # i
    BY <1>4, <1>7 DEF CancelledForGood, InRound, i
  <2>2. ~InRound(j)'
    BY <1>3, <1>4, <1>7 DEF CancelledForGood, InRound
  <2> QED
    BY <1>5, <1>7, <2>1, <2>2 DEF CancelledForGood
<1> QED
  BY <1>6, <1>7 DEF Good, Kept

LEMMA NextGood == Shapes /\ [Next]_vars => Good
<1> SUFFICES ASSUME Shapes, [Next]_vars PROVE Good
  OBVIOUS
<1>1. ASSUME NEW r \in Requests, InsertOrder(r) PROVE Good
  <2>1. r.id \in Ids /\ NoOrder.status = "none"
    BY RequestsAssumption DEF NoOrder
  <2>2. \/ \E o : orders' = [orders EXCEPT ![r.id] = o] /\ orders[r.id] = NoOrder
        \/ orders' = orders
    BY <1>1 DEF InsertOrder
  <2>3. UNCHANGED <<timer, placed>>
    BY <1>1 DEF InsertOrder
  <2> QED
    BY <2>1, <2>2, <2>3, ConsumerStep
<1>2. ASSUME NEW i \in Ids, CancelOrder(i) PROVE Good
  <2>1. \/ orders[i].status \in Live /\ orders' = [orders EXCEPT ![i].status = "Cancelled"]
        \/ orders' = orders
    BY <1>2 DEF CancelOrder
  <2>2. \/ \E o : orders' = [orders EXCEPT ![i] = o] /\ orders[i].status # "Cancelled"
        \/ orders' = orders
    BY <2>1 DEF Live
  <2>3. UNCHANGED <<timer, placed>>
    BY <1>2 DEF CancelOrder
  <2> QED
    BY <2>2, <2>3, ConsumerStep
<1>3. CASE InsertContext
  BY <1>3, QuietStep DEF InsertContext
<1>4. CASE NextRound
  <2>1. /\ timer' = [timer EXCEPT !.todo = Ids] /\ UNCHANGED <<orders, placed>>
    BY <1>4 DEF NextRound
  <2>2. timer'.at = timer.at /\ timer'.events = timer.events /\ DOMAIN timer' = DOMAIN timer
    BY <2>1 DEF Shapes
  <2> QED
    BY <2>1, <2>2 DEF Good, Shapes, Kept, CancelledForGood, InRound
<1>5. CASE VisitWithoutContext
  BY <1>5, QuietStep DEF VisitWithoutContext
<1>6. CASE ClockMoves
  BY <1>6, QuietStep DEF ClockMoves
<1>7. ASSUME NEW p \in DOMAIN SectionConfig, on_market_data(p) PROVE Good
  BY <1>7, QuietStep DEF on_market_data
<1>8. CASE UNCHANGED vars
  BY <1>8, QuietStep DEF vars
<1> QED
  BY <1>1, <1>2, <1>3, <1>4, <1>5, <1>6, <1>7, <1>8, VisitStep, CheckStep, PlaceStep
     DEF Next, Consumer, MainLoop

(* A cancelled order is never taken up or overwritten by a later round, and *)
(* nothing more is placed for it (DoReqTwapOrderAction, OnPeriodCall).      *)
THEOREM CancelledStays == Spec => CancelIsFinal
<1>1. Shapes /\ [Next]_vars => Shapes'
  BY NextGood DEF Good
<1>2. Shapes /\ [Next]_vars =>
        [\A i \in Ids : CancelledForGood(i) => CancelledForGood(i)' /\ placed'[i] = placed[i]]_vars
  BY NextGood DEF Good, Kept
<1> QED
  BY InitShapes, <1>1, <1>2, PTL DEF Spec, CancelIsFinal

-----------------------------------------------------------------------------
(* Times of a trading day, and their seconds *)
Stamp(h, m, s) == h * 10000 + m * 100 + s
Count(h, m, s) == h * 3600 + m * 60 + s
Times == {t \in Nat : \E h \in Nat, m, s \in 0 .. 59 : t = Stamp(h, m, s)}

(* A time of the form HHMMSS is so many seconds. *)
LEMMA SecondsOfTime ==
  ASSUME NEW h \in Nat, NEW m \in 0 .. 59, NEW s \in 0 .. 59
  PROVE  Stamp(h, m, s) \in Times /\ inner_HHMMSS2Second(Stamp(h, m, s)) = Count(h, m, s)
<1> DEFINE t == h * 10000 + m * 100 + s
<1>1. t \div 10000 = h /\ t % 10000 = m * 100 + s
  OBVIOUS
<1>2. (m * 100 + s) \div 100 = m /\ t % 100 = s
  OBVIOUS
<1>3. inner_HHMMSS2Second(t) = h * 3600 + m * 60 + s
  BY <1>1, <1>2 DEF inner_HHMMSS2Second
<1>4. Stamp(h, m, s) \in Times
  <2>1. Stamp(h, m, s) \in Nat
    BY DEF Stamp
  <2> QED
    BY <2>1 DEF Times
<1> QED
  BY <1>3, <1>4 DEF Stamp, Count

(* inner_HHMMSS2Second undoes inner_Second2HHMMSS. *)
LEMMA TimeOfSeconds ==
  ASSUME NEW n \in Nat
  PROVE  inner_Second2HHMMSS(n) \in Times /\ inner_HHMMSS2Second(inner_Second2HHMMSS(n)) = n
<1> DEFINE h == n \div 3600
           m == (n % 3600) \div 60
           s == n % 60
<1>1. h \in Nat /\ m \in 0 .. 59 /\ s \in 0 .. 59 /\ n = Count(h, m, s)
  BY DEF Count
<1>2. inner_Second2HHMMSS(n) = Stamp(h, m, s)
  BY DEF inner_Second2HHMMSS, Stamp
<1> HIDE DEF h, m, s
<1> QED
  BY <1>1, <1>2, SecondsOfTime

(* Hours come before minutes and minutes before seconds, in a time as in *)
(* its seconds.                                                          *)
LEMMA StampsRise ==
  ASSUME NEW h \in Nat, NEW m \in 0 .. 59, NEW s \in 0 .. 59,
         NEW i \in Nat, NEW n \in 0 .. 59, NEW r \in 0 .. 59
  PROVE  /\ Stamp(h, m, s) \in Nat /\ Count(h, m, s) \in Nat
         /\ h < i \/ (h = i /\ m < n) \/ (h = i /\ m = n /\ s < r) =>
               Stamp(h, m, s) < Stamp(i, n, r) /\ Count(h, m, s) < Count(i, n, r)
<1>1. Stamp(h, m, s) \in Nat /\ Count(h, m, s) \in Nat
  BY DEF Stamp, Count
<1>2. CASE h < i
  <2>1. h + 1 <= i /\ m <= 59 /\ s <= 59 /\ n >= 0 /\ r >= 0
    BY <1>2
  <2> QED
    BY <1>1, <2>1 DEF Stamp, Count
<1>3. CASE h = i /\ m < n
  <2>1. m + 1 <= n /\ s <= 59 /\ r >= 0
    BY <1>3
  <2> QED
    BY <1>1, <1>3, <2>1 DEF Stamp, Count
<1>4. CASE h = i /\ m = n /\ s < r
  BY <1>1, <1>4 DEF Stamp, Count
<1> QED
  BY <1>1, <1>2, <1>3, <1>4

(* Seconds are ordered as times are. *)
LEMMA SecondsRise ==
  ASSUME NEW t \in Times, NEW u \in Times
  PROVE  /\ inner_HHMMSS2Second(t) \in Nat /\ t \in Nat /\ u \in Nat /\ inner_HHMMSS2Second(u) \in Nat
         /\ t < u <=> inner_HHMMSS2Second(t) < inner_HHMMSS2Second(u)
         /\ t = u <=> inner_HHMMSS2Second(t) = inner_HHMMSS2Second(u)
<1>1. PICK h \in Nat, m \in 0 .. 59, s \in 0 .. 59 : t = Stamp(h, m, s)
  BY DEF Times
<1>2. PICK i \in Nat, n \in 0 .. 59, r \in 0 .. 59 : u = Stamp(i, n, r)
  BY DEF Times
<1> DEFINE a == inner_HHMMSS2Second(t)
           b == inner_HHMMSS2Second(u)
<1>3. a = Count(h, m, s) /\ b = Count(i, n, r)
  BY <1>1, <1>2, SecondsOfTime
<1> HIDE DEF a, b
<1>4. a \in Nat /\ t \in Nat /\ b \in Nat /\ u \in Nat
  BY <1>1, <1>2, <1>3, StampsRise
<1>5. CASE h < i \/ (h = i /\ m < n) \/ (h = i /\ m = n /\ s < r)
  <2>1. t < u /\ a < b
    BY <1>1, <1>2, <1>3, <1>5, StampsRise
  <2> QED
    BY <1>4, <2>1 DEF a, b
<1>6. CASE i < h \/ (i = h /\ n < m) \/ (i = h /\ n = m /\ r < s)
  <2>1. u < t /\ b < a
    BY <1>1, <1>2, <1>3, <1>6, StampsRise
  <2> QED
    BY <1>4, <2>1 DEF a, b
<1>7. CASE h = i /\ m = n /\ s = r
  BY <1>1, <1>2, <1>4, <1>7 DEF a, b
<1> QED
  BY <1>5, <1>6, <1>7

(* A time of a trading day is one of at most 47:59:59. *)
LEMMA NormalTimes ==
  ASSUME NEW t \in HHMMSS
  PROVE  NormalizeTime(t) \in Times /\ NormalizeTime(t) < Never
<1>1. PICK h \in 0 .. 23, m \in 0 .. 59, s \in 0 .. 59 : t = h * 10000 + m * 100 + s
  BY DEF HHMMSS
<1>2. PICK i \in Nat : i = h + 24
  BY <1>1
<1>3. t \in Times
  <2>1. t = Stamp(h, m, s) /\ h \in Nat
    BY <1>1 DEF Stamp
  <2> QED
    BY <2>1, SecondsOfTime
<1>4. t + 240000 \in Times
  <2>1. t + 240000 = Stamp(i, m, s)
    BY <1>1, <1>2 DEF Stamp
  <2>2. Stamp(i, m, s) \in Times
    BY SecondsOfTime
  <2> QED
    BY <2>1, <2>2, SMT
<1>5. t + 240000 < 480000 /\ t < 480000
  BY <1>1
<1> QED
  BY <1>3, <1>4, <1>5 DEF NormalizeTime, Never

(* The sections of a product are an ordered sequence of stretches of *)
(* time.                                                             *)
LEMMA SectionFacts ==
  ASSUME NEW p \in DOMAIN SectionConfig
  PROVE  \E n \in Nat :
           /\ DOMAIN Sections(p) = 1 .. n
           /\ \A i \in 1 .. n :
                /\ Sections(p)[i].begin \in Times /\ Sections(p)[i].end \in Times
                /\ Sections(p)[i].end < Never
                /\ Sections(p)[i].begin < Sections(p)[i].end
           /\ \A i, j \in 1 .. n : i < j => Sections(p)[i].end <= Sections(p)[j].begin
<1>1. SectionConfig[p] \in Seq(HHMMSS \X HHMMSS)
  BY SectionsAssumption
<1>2. PICK n \in Nat : DOMAIN SectionConfig[p] = 1 .. n
  BY <1>1
<1>3. DOMAIN Sections(p) = 1 .. n
  BY <1>2 DEF Sections
<1>4. ASSUME NEW i \in 1 .. n
      PROVE  /\ Sections(p)[i].begin \in Times /\ Sections(p)[i].end \in Times
             /\ Sections(p)[i].end < Never
  <2>1. SectionConfig[p][i] \in HHMMSS \X HHMMSS
    BY <1>1, <1>2
  <2>2. /\ Sections(p)[i].begin = NormalizeTime(SectionConfig[p][i][1])
        /\ Sections(p)[i].end = NormalizeTime(SectionConfig[p][i][2])
    BY <1>2 DEF Sections
  <2>3. SectionConfig[p][i][1] \in HHMMSS /\ SectionConfig[p][i][2] \in HHMMSS
    BY <2>1
  <2> QED
    BY <2>2, <2>3, NormalTimes
<1> QED
  BY <1>2, <1>3, <1>4, OrderAssumption

(* The seconds of one section of an order's time *)
SecondsIn(p, part) ==
  [i \in part.startNo .. part.endNo |->
     inner_HHMMSS2Second(IF i = part.endNo THEN part.end ELSE Sections(p)[i].end)
     - inner_HHMMSS2Second(IF i = part.startNo THEN part.start ELSE Sections(p)[i].begin)]

(* getTotalSecond adds up the seconds of the sections an order takes in. *)
LEMMA TotalIsSum ==
  ASSUME NEW p, NEW part, part.startNo \in Int, part.endNo \in Int
  PROVE  getTotalSecond(p, part) = Sum(SecondsIn(p, part), part.startNo .. part.endNo)
<1> DEFINE S == part.startNo .. part.endNo
           f == SecondsIn(p, part)
           T(i) == inner_HHMMSS2Second(IF i = part.endNo THEN part.end ELSE Sections(p)[i].end)
                   - inner_HHMMSS2Second(IF i = part.startNo THEN part.start ELSE Sections(p)[i].begin)
           Fold(h) == [s \in SUBSET S |-> IF s = {} THEN 0
                                          ELSE T(CHOOSE x \in s : TRUE) + h[s \ {CHOOSE x \in s : TRUE}]]
           h == CHOOSE h : h = Fold(h)
<1>1. IsFiniteSet(S)
  BY FS_Interval
<1>2. getTotalSecond(p, part) = h[S]
  BY DEF getTotalSecond, MapThenSumSet, MapThenFoldSet
<1>3. PICK g : IsSum(g, f, S) /\ Sum(f, S) = g[S]
  BY <1>1, SumIsSum
<1>4. \A x \in S : f[x] = T(x)
  BY DEF SecondsIn
<1> HIDE DEF f, S, T
<1>5. g = Fold(g)
  BY <1>3, <1>4 DEF IsSum
<1>6. h = Fold(h)
  <2> HIDE DEF Fold
  <2> QED
    BY <1>5, Zenon
<1>7. IsSum(h, f, S)
  <2> HIDE DEF h
  <2> QED
    BY <1>4, <1>6 DEF IsSum
<1>8. h[S] = g[S]
  <2> HIDE DEF h
  <2> QED
    BY <1>1, <1>3, <1>7, SumSame
<1> QED
  BY <1>2, <1>3, <1>8 DEF f, S

-----------------------------------------------------------------------------
(* The part of its time an order has in the sections of its product *)
(* A set of positions in a sequence has a least *)
LEMMA LeastOf ==
  ASSUME NEW n \in Nat, NEW S, S \subseteq 1 .. n, S # {}
  PROVE  Min(S) \in S /\ \A y \in S : Min(S) <= y
<1> DEFINE W == {1 .. x : x \in S}
<1>1. IsFiniteSet(1 .. n)
  BY FS_Interval
<1>2. W \subseteq SUBSET (1 .. n)
  <2>1. \A x \in S : 1 .. x \subseteq 1 .. n
    OBVIOUS
  <2> QED
    BY <2>1
<1>3. PICK w \in W : \A v \in W : v \subseteq w => v = w
  <2>1. W # {}
    OBVIOUS
  <2>2. PICK N : N = 1 .. n
    OBVIOUS
  <2>3. IsFiniteSet(N)
    BY <1>1, <2>2
  <2>4. W \subseteq SUBSET N
    BY <1>2, <2>2
  <2> HIDE DEF W
  <2> QED
    BY <2>1, <2>3, <2>4, SmallestSet
<1>4. PICK x \in S : w = 1 .. x
  OBVIOUS
<1>5. ASSUME NEW y \in S, y < x PROVE FALSE
  <2>1. 1 .. y \subseteq 1 .. x /\ x \in 1 .. x /\ x \notin 1 .. y /\ 1 .. y \in W
    BY <1>5
  <2> HIDE DEF W
  <2> QED
    BY <1>3, <1>4, <2>1
<1>6. \E z \in S : \A y \in S : z <= y
  BY <1>5
<1> QED
  BY <1>6 DEF Min

(* ... and a greatest. *)
LEMMA GreatestOf ==
  ASSUME NEW n \in Nat, NEW S, S \subseteq 1 .. n, S # {}
  PROVE  Max(S) \in S /\ \A y \in S : y <= Max(S)
<1> DEFINE W == {x .. n : x \in S}
<1>1. IsFiniteSet(1 .. n)
  BY FS_Interval
<1>2. W \subseteq SUBSET (1 .. n)
  <2>1. \A x \in S : x .. n \subseteq 1 .. n
    OBVIOUS
  <2> QED
    BY <2>1
<1>3. PICK w \in W : \A v \in W : v \subseteq w => v = w
  <2>1. W # {}
    OBVIOUS
  <2>2. PICK N : N = 1 .. n
    OBVIOUS
  <2>3. IsFiniteSet(N)
    BY <1>1, <2>2
  <2>4. W \subseteq SUBSET N
    BY <1>2, <2>2
  <2> HIDE DEF W
  <2> QED
    BY <2>1, <2>3, <2>4, SmallestSet
<1>4. PICK x \in S : w = x .. n
  OBVIOUS
<1>5. ASSUME NEW y \in S, x < y PROVE FALSE
  <2>1. y .. n \subseteq x .. n /\ x \in x .. n /\ x \notin y .. n /\ y .. n \in W
    BY <1>5
  <2> HIDE DEF W
  <2> QED
    BY <1>3, <1>4, <2>1
<1>6. \E z \in S : \A y \in S : z >= y
  BY <1>5
<1>7. Max(S) \in S /\ \A y \in S : Max(S) >= y
  BY <1>6 DEF Max
<1> QED
  BY <1>7

(* Of two numbers *)
LEMMA OfTwo ==
  ASSUME NEW a \in Int, NEW b \in Int
  PROVE  /\ Min({a, b}) = IF a <= b THEN a ELSE b
         /\ Max({a, b}) = IF a >= b THEN a ELSE b
<1>1. \E x \in {a, b} : \A y \in {a, b} : x <= y
  OBVIOUS
<1>2. \E x \in {a, b} : \A y \in {a, b} : x >= y
  OBVIOUS
<1>3. Min({a, b}) \in {a, b} /\ \A y \in {a, b} : Min({a, b}) <= y
  BY <1>1 DEF Min
<1>4. Max({a, b}) \in {a, b} /\ \A y \in {a, b} : Max({a, b}) >= y
  BY <1>2 DEF Max
<1> QED
  BY <1>3, <1>4

(* Of a number and 0 *)
LEMMA AboveZero ==
  ASSUME NEW x \in Int
  PROVE  Max({0, x}) = IF x > 0 THEN x ELSE 0
<1>1. Max({0, x}) = IF 0 >= x THEN 0 ELSE x
  BY OfTwo
<1> QED
  BY <1>1

InSections(p, part) ==
  /\ p \in DOMAIN SectionConfig
  /\ part.startNo \in DOMAIN Sections(p) /\ part.endNo \in DOMAIN Sections(p)
  /\ part.startNo <= part.endNo
  /\ part.start \in Times /\ part.end \in Times /\ part.start < part.end
  /\ Sections(p)[part.startNo].begin <= part.start /\ part.start < Sections(p)[part.startNo].end
  /\ Sections(p)[part.endNo].begin < part.end /\ part.end <= Sections(p)[part.endNo].end

(* What isInSection accepts lies in sections and is not empty. *)
LEMMA PartFound ==
  ASSUME NEW p, NEW now \in HHMMSS, NEW b \in HHMMSS, NEW e \in HHMMSS,
         isInSection(now, p, b, e).ok
  PROVE  InSections(p, isInSection(now, p, b, e))
<1> DEFINE secs  == Sections(p)
           begin == Max({NormalizeTime(b), NormalizeTime(now)})
           end   == NormalizeTime(e)
           open  == {i \in DOMAIN secs : begin < secs[i].end \/ begin <= secs[i].begin}
           begun == {i \in DOMAIN secs : end >= secs[i].end \/ end > secs[i].begin}
           s     == Min(open)
           t     == Max(begun)
           part  == [ok |-> TRUE, startNo |-> s, endNo |-> t,
                     start |-> Max({begin, secs[s].begin}),
                     end   |-> Min({end, secs[t].end})]
<1>1. /\ p \in DOMAIN SectionConfig /\ open # {} /\ begun # {} /\ part.start < part.end
      /\ isInSection(now, p, b, e) = part
  <2> HIDE DEF open, begun
  <2>1. isInSection(now, p, b, e) =
          IF p \in DOMAIN SectionConfig /\ open # {} /\ begun # {} /\ part.start < part.end
          THEN part ELSE NoPart
    BY DEF isInSection, open, begun
  <2>2. ~NoPart.ok
    BY DEF NoPart
  <2> HIDE DEF part
  <2> QED
    BY <2>1, <2>2
<1>2. PICK n \in Nat :
           /\ DOMAIN Sections(p) = 1 .. n
           /\ \A i \in 1 .. n :
                /\ Sections(p)[i].begin \in Times /\ Sections(p)[i].end \in Times
                /\ Sections(p)[i].end < Never
                /\ Sections(p)[i].begin < Sections(p)[i].end
           /\ \A i, j \in 1 .. n : i < j => Sections(p)[i].end <= Sections(p)[j].begin
  BY <1>1, SectionFacts
<1>3. /\ s \in 1 .. n /\ (begin < secs[s].end \/ begin <= secs[s].begin)
      /\ t \in 1 .. n /\ (end >= secs[t].end \/ end > secs[t].begin)
  <2>1. open \subseteq 1 .. n /\ begun \subseteq 1 .. n
    BY <1>2
  <2>2. s \in open /\ t \in begun
    <3> HIDE DEF open, begun
    <3> QED
      BY <1>1, <2>1, LeastOf, GreatestOf
  <2> QED
    BY <1>2, <2>2
<1>4. begin \in Times /\ end \in Times
  <2>1. NormalizeTime(b) \in Times /\ NormalizeTime(now) \in Times /\ NormalizeTime(e) \in Times
    BY NormalTimes
  <2>2. NormalizeTime(b) \in Int /\ NormalizeTime(now) \in Int
    BY <2>1 DEF Times
  <2>3. begin \in {NormalizeTime(b), NormalizeTime(now)}
    BY <2>2, OfTwo
  <2> QED
    BY <2>1, <2>3
<1>5. \A x \in Times : x \in Nat
  BY DEF Times
<1> HIDE DEF secs, begin, end, s, t
<1>6. /\ secs[s].begin \in Times /\ secs[s].end \in Times /\ secs[s].begin < secs[s].end
      /\ secs[t].begin \in Times /\ secs[t].end \in Times /\ secs[t].begin < secs[t].end
      /\ t < s => secs[t].end <= secs[s].begin
  BY <1>2, <1>3 DEF secs
<1>7. /\ part.start = IF begin >= secs[s].begin THEN begin ELSE secs[s].begin
      /\ part.end = IF end <= secs[t].end THEN end ELSE secs[t].end
  <2>1. begin \in Int /\ end \in Int /\ secs[s].begin \in Int /\ secs[t].end \in Int
    BY <1>4, <1>5, <1>6
  <2> QED
    BY <2>1, OfTwo
<1>8. part.startNo = s /\ part.endNo = t
  OBVIOUS
<1>9. /\ part.start \in Times /\ part.end \in Times
      /\ secs[s].begin <= part.start /\ part.start < secs[s].end
      /\ secs[t].begin < part.end /\ part.end <= secs[t].end
      /\ s <= t
  <2> HIDE DEF part
  <2> QED
    BY <1>1, <1>3, <1>4, <1>5, <1>6, <1>7
<1> HIDE DEF part
<1> QED
  BY <1>1, <1>2, <1>3, <1>8, <1>9 DEF InSections, secs

(* The time of an order is never empty. *)
LEMMA TotalPositive ==
  ASSUME NEW p, NEW part, InSections(p, part)
  PROVE  getTotalSecond(p, part) \in Nat \ {0}
<1> DEFINE S == part.startNo .. part.endNo
           f == SecondsIn(p, part)
           z == [i \in S |-> 0]
           From(i) == IF i = part.startNo THEN part.start ELSE Sections(p)[i].begin
           To(i) == IF i = part.endNo THEN part.end ELSE Sections(p)[i].end
<1>1. PICK n \in Nat :
           /\ DOMAIN Sections(p) = 1 .. n
           /\ \A i \in 1 .. n :
                /\ Sections(p)[i].begin \in Times /\ Sections(p)[i].end \in Times
                /\ Sections(p)[i].end < Never
                /\ Sections(p)[i].begin < Sections(p)[i].end
           /\ \A i, j \in 1 .. n : i < j => Sections(p)[i].end <= Sections(p)[j].begin
  BY SectionFacts DEF InSections
<1>2. part.startNo \in 1 .. n /\ part.endNo \in 1 .. n /\ part.startNo <= part.endNo
  BY <1>1 DEF InSections
<1>3. ASSUME NEW i \in S
      PROVE  From(i) \in Times /\ To(i) \in Times /\ From(i) < To(i)
  <2>1. i \in 1 .. n
    BY <1>2
  <2> QED
    BY <1>1, <2>1 DEF InSections
<1>4. ASSUME NEW i \in S
      PROVE  f[i] \in Int /\ 0 < f[i]
  <2>1. f[i] = inner_HHMMSS2Second(To(i)) - inner_HHMMSS2Second(From(i))
    BY DEF SecondsIn
  <2> HIDE DEF f, From, To
  <2> QED
    BY <1>3, <2>1, SecondsRise
<1>5. IsFiniteSet(S)
  BY FS_Interval, <1>2
<1>6. part.startNo \in S
  BY <1>2
<1>7. \A i \in S : z[i] = 0
  OBVIOUS
<1> HIDE DEF f, S, z
<1>8. Sum(z, S) = 0
  BY <1>5, <1>7, ZeroSum
<1>9. Sum(z, S) < Sum(f, S)
  <2>1. \A x \in S : z[x] \in Int /\ f[x] \in Int /\ z[x] <= f[x]
    BY <1>4, <1>7
  <2>2. \E x \in S : z[x] < f[x]
    BY <1>4, <1>6, <1>7
  <2> QED
    BY <1>5, <2>1, <2>2, OrderedSums
<1>10. Sum(f, S) \in Int
  BY <1>4, <1>5, TakenSum
<1>11. getTotalSecond(p, part) = Sum(f, S)
  BY <1>2, TotalIsSum DEF f, S
<1> QED
  BY <1>8, <1>9, <1>10, <1>11

-----------------------------------------------------------------------------
(* The time of a slot *)
(* The lengths of the sections, and the part of each that lies before t *)
Lengths(p) == [i \in DOMAIN Sections(p) |-> Length(Sections(p)[i])]

PartsBefore(p, t) ==
  [i \in DOMAIN Sections(p) |->
     Max({0, inner_HHMMSS2Second(Min({t, Sections(p)[i].end})) - inner_HHMMSS2Second(Sections(p)[i].begin)})]

(* The seconds of trading before section i *)
Before(p, i) == Sum(Lengths(p), 1 .. (i - 1))

(* Time t lies in section i of p. *)
InSection(p, i, t) ==
  /\ p \in DOMAIN SectionConfig /\ i \in DOMAIN Sections(p) /\ t \in Times
  /\ Sections(p)[i].begin <= t /\ t <= Sections(p)[i].end

(* TradingSecond adds up what lies before t of each section. *)
LEMMA TradingIsSum ==
  ASSUME NEW p \in DOMAIN SectionConfig, NEW t
  PROVE  TradingSecond(p, t) = Sum(PartsBefore(p, t), DOMAIN Sections(p))
<1> DEFINE S == DOMAIN Sections(p)
           f == PartsBefore(p, t)
           T(i) == Max({0, inner_HHMMSS2Second(Min({t, Sections(p)[i].end}))
                           - inner_HHMMSS2Second(Sections(p)[i].begin)})
           Fold(h) == [s \in SUBSET S |-> IF s = {} THEN 0
                                          ELSE T(CHOOSE x \in s : TRUE) + h[s \ {CHOOSE x \in s : TRUE}]]
           h == CHOOSE h : h = Fold(h)
<1>1. IsFiniteSet(S)
  <2>1. PICK n \in Nat : S = 1 .. n
    BY SectionFacts
  <2> QED
    BY <2>1, FS_Interval
<1>2. TradingSecond(p, t) = h[S]
  BY DEF TradingSecond, MapThenSumSet, MapThenFoldSet
<1>3. PICK g : IsSum(g, f, S) /\ Sum(f, S) = g[S]
  BY <1>1, SumIsSum
<1>4. \A x \in S : f[x] = T(x)
  BY DEF PartsBefore
<1> HIDE DEF f, S, T
<1>5. g = Fold(g)
  BY <1>3, <1>4 DEF IsSum
<1>6. h = Fold(h)
  <2> HIDE DEF Fold
  <2> QED
    BY <1>5, Zenon
<1>7. IsSum(h, f, S)
  <2> HIDE DEF h
  <2> QED
    BY <1>4, <1>6 DEF IsSum
<1>8. h[S] = g[S]
  <2> HIDE DEF h
  <2> QED
    BY <1>1, <1>3, <1>7, SumSame
<1> QED
  BY <1>2, <1>3, <1>8 DEF f, S

(* getStandardTime adds up the lengths of the sections between. *)
LEMMA BetweenIsSum ==
  ASSUME NEW p \in DOMAIN SectionConfig, NEW S, IsFiniteSet(S), S \subseteq DOMAIN Sections(p)
  PROVE  MapThenSumSet(LAMBDA j : Length(Sections(p)[j]), S) = Sum(Lengths(p), S)
<1> DEFINE f == Lengths(p)
           T(i) == Length(Sections(p)[i])
           Fold(h) == [s \in SUBSET S |-> IF s = {} THEN 0
                                          ELSE T(CHOOSE x \in s : TRUE) + h[s \ {CHOOSE x \in s : TRUE}]]
           h == CHOOSE h : h = Fold(h)
<1>2. MapThenSumSet(LAMBDA j : Length(Sections(p)[j]), S) = h[S]
  BY DEF MapThenSumSet, MapThenFoldSet
<1>3. PICK g : IsSum(g, f, S) /\ Sum(f, S) = g[S]
  BY SumIsSum
<1>4. \A x \in S : f[x] = T(x)
  BY DEF Lengths
<1> HIDE DEF f, T
<1>5. g = Fold(g)
  BY <1>3, <1>4 DEF IsSum
<1>6. h = Fold(h)
  <2> HIDE DEF Fold
  <2> QED
    BY <1>5, Zenon
<1>7. IsSum(h, f, S)
  <2> HIDE DEF h
  <2> QED
    BY <1>4, <1>6 DEF IsSum
<1>8. h[S] = g[S]
  <2> HIDE DEF h
  <2> QED
    BY <1>3, <1>7, SumSame
<1> QED
  BY <1>2, <1>3, <1>8 DEF f

(* No section is empty. *)
LEMMA LengthsPositive ==
  ASSUME NEW p \in DOMAIN SectionConfig
  PROVE  \A i \in DOMAIN Sections(p) :
           /\ inner_HHMMSS2Second(Sections(p)[i].begin) \in Nat
           /\ inner_HHMMSS2Second(Sections(p)[i].end) \in Nat
           /\ Lengths(p)[i] = inner_HHMMSS2Second(Sections(p)[i].end)
                              - inner_HHMMSS2Second(Sections(p)[i].begin)
           /\ Lengths(p)[i] \in Nat \ {0}
<1>1. PICK n \in Nat :
           /\ DOMAIN Sections(p) = 1 .. n
           /\ \A i \in 1 .. n :
                /\ Sections(p)[i].begin \in Times /\ Sections(p)[i].end \in Times
                /\ Sections(p)[i].end < Never
                /\ Sections(p)[i].begin < Sections(p)[i].end
           /\ \A i, j \in 1 .. n : i < j => Sections(p)[i].end <= Sections(p)[j].begin
  BY SectionFacts
<1> SUFFICES ASSUME NEW i \in DOMAIN Sections(p)
             PROVE  /\ inner_HHMMSS2Second(Sections(p)[i].begin) \in Nat
                    /\ inner_HHMMSS2Second(Sections(p)[i].end) \in Nat
                    /\ Lengths(p)[i] = inner_HHMMSS2Second(Sections(p)[i].end)
                                       - inner_HHMMSS2Second(Sections(p)[i].begin)
                    /\ Lengths(p)[i] \in Nat \ {0}
  OBVIOUS
<1>2. PICK b \in Times, e \in Times : b = Sections(p)[i].begin /\ e = Sections(p)[i].end /\ b < e
  BY <1>1
<1>3. Lengths(p)[i] = inner_HHMMSS2Second(e) - inner_HHMMSS2Second(b)
  BY <1>2 DEF Lengths, Length
<1> QED
  BY <1>2, <1>3, SecondsRise

(* The trading before a section is that before the one ahead of it and *)
(* that one.                                                           *)
LEMMA BeforeNext ==
  ASSUME NEW p \in DOMAIN SectionConfig, NEW i \in DOMAIN Sections(p)
  PROVE  Before(p, i) \in Int /\ Before(p, i + 1) = Before(p, i) + Lengths(p)[i]
<1>1. PICK n \in Nat : DOMAIN Sections(p) = 1 .. n
  BY SectionFacts
<1>2. PICK S : S = 1 .. (i - 1)
  OBVIOUS
<1>3. IsFiniteSet(S)
  BY <1>1, <1>2, FS_Interval
<1>4. \A x \in S : Lengths(p)[x] \in Int
  BY <1>1, <1>2, LengthsPositive
<1>5. Lengths(p)[i] \in Int /\ i \notin S
  BY <1>1, <1>2, LengthsPositive
<1>6. Sum(Lengths(p), S \cup {i}) = Lengths(p)[i] + Sum(Lengths(p), S) /\ Sum(Lengths(p), S) \in Int
  BY <1>3, <1>4, <1>5, AddedSum, TakenSum
<1>7. S \cup {i} = 1 .. ((i + 1) - 1)
  BY <1>1, <1>2
<1>8. Before(p, i) = Sum(Lengths(p), S) /\ Before(p, i + 1) = Sum(Lengths(p), S \cup {i})
  BY <1>2, <1>7 DEF Before
<1> QED
  BY <1>5, <1>6, <1>8

(* The parts of the sections before, at and after the one time t lies in *)
LEMMA PartsAround ==
  ASSUME NEW p, NEW i, NEW t, InSection(p, i, t), NEW j \in DOMAIN Sections(p)
  PROVE  PartsBefore(p, t)[j] =
           IF j < i THEN Lengths(p)[j]
           ELSE IF j = i THEN inner_HHMMSS2Second(t) - inner_HHMMSS2Second(Sections(p)[i].begin)
           ELSE 0
<1>1. PICK n \in Nat :
           /\ DOMAIN Sections(p) = 1 .. n
           /\ \A k \in 1 .. n :
                /\ Sections(p)[k].begin \in Times /\ Sections(p)[k].end \in Times
                /\ Sections(p)[k].end < Never
                /\ Sections(p)[k].begin < Sections(p)[k].end
           /\ \A k, l \in 1 .. n : k < l => Sections(p)[k].end <= Sections(p)[l].begin
  BY SectionFacts DEF InSection
<1>2. i \in 1 .. n /\ j \in 1 .. n /\ t \in Times /\ Sections(p)[i].begin <= t /\ t <= Sections(p)[i].end
  BY <1>1 DEF InSection
<1>3. PICK b \in Times, e \in Times, b1 \in Times, e1 \in Times :
           /\ b = Sections(p)[j].begin /\ e = Sections(p)[j].end
           /\ b1 = Sections(p)[i].begin /\ e1 = Sections(p)[i].end
  BY <1>1, <1>2
<1>4. /\ b < e /\ b1 < e1 /\ b1 <= t /\ t <= e1
      /\ j < i => e <= b1
      /\ i < j => e1 <= b
      /\ i = j => e = e1 /\ b = b1
  BY <1>1, <1>2, <1>3
<1>5. b \in Nat /\ e \in Nat /\ b1 \in Nat /\ e1 \in Nat /\ t \in Nat
  BY <1>2, <1>3 DEF Times
<1>6. PICK u : u = Min({t, e})
  OBVIOUS
<1>7. u = (IF t <= e THEN t ELSE e) /\ u \in Times /\ u \in Nat
  BY <1>2, <1>3, <1>5, <1>6, OfTwo
<1>8. PICK su \in Nat, sb \in Nat : su = inner_HHMMSS2Second(u) /\ sb = inner_HHMMSS2Second(b)
  BY <1>3, <1>7, SecondsRise
<1>9. u < b => su < sb
  BY <1>3, <1>7, <1>8, SecondsRise
<1>10. b < u => sb < su
  BY <1>3, <1>7, <1>8, SecondsRise
<1>11. u = b => su = sb
  BY <1>8
<1>12. PartsBefore(p, t)[j] = Max({0, su - sb})
  BY <1>1, <1>2, <1>3, <1>6, <1>8 DEF PartsBefore
<1>13. PartsBefore(p, t)[j] = IF 0 >= su - sb THEN 0 ELSE su - sb
  <2>1. PICK x \in Int : x = su - sb
    OBVIOUS
  <2>2. Max({0, x}) = IF 0 >= x THEN 0 ELSE x
    BY OfTwo
  <2> QED
    BY <1>12, <2>1, <2>2
<1>14. Lengths(p)[j] = inner_HHMMSS2Second(e) - sb
  BY <1>1, <1>2, <1>3, <1>8 DEF Lengths, Length
<1>15. CASE j < i
  <2>1. u = e
    BY <1>4, <1>5, <1>7, <1>15
  <2>2. sb < su /\ su = inner_HHMMSS2Second(e)
    BY <1>4, <1>8, <1>10, <2>1
  <2> QED
    BY <1>8, <1>13, <1>14, <1>15, <2>2
<1>16. CASE j = i
  <2>1. u = t /\ b <= u
    BY <1>4, <1>5, <1>7, <1>16
  <2>2. sb <= su /\ su = inner_HHMMSS2Second(t) /\ sb = inner_HHMMSS2Second(Sections(p)[i].begin)
    BY <1>3, <1>5, <1>7, <1>8, <1>10, <1>11, <1>16, <2>1
  <2> QED
    BY <1>2, <1>8, <1>13, <1>16, <2>2
<1>17. CASE i < j
  <2>1. u <= b
    BY <1>4, <1>5, <1>7, <1>17
  <2>2. su <= sb
    BY <1>5, <1>7, <1>8, <1>9, <1>11, <2>1
  <2> QED
    BY <1>2, <1>8, <1>13, <1>17, <2>2
<1> QED
  BY <1>2, <1>15, <1>16, <1>17

(* The trading before a time in a section: that before the section, and *)
(* what of it is over                                                   *)
LEMMA TradingAt ==
  ASSUME NEW p, NEW i, NEW t, InSection(p, i, t)
  PROVE  TradingSecond(p, t) =
           Before(p, i) + (inner_HHMMSS2Second(t) - inner_HHMMSS2Second(Sections(p)[i].begin))
<1> DEFINE f == PartsBefore(p, t)
<1>0. p \in DOMAIN SectionConfig /\ i \in DOMAIN Sections(p)
  BY DEF InSection
<1>1. PICK n \in Nat : DOMAIN Sections(p) = 1 .. n
  BY <1>0, SectionFacts
<1>2. PICK S, T, U : S = 1 .. n /\ T = 1 .. (i - 1) /\ U = S \ T
  OBVIOUS
<1>3. IsFiniteSet(S) /\ IsFiniteSet(T) /\ IsFiniteSet(U) /\ IsFiniteSet(U \ {i}) /\ T \subseteq S /\ i \in U
  <2>1. IsFiniteSet(S) /\ T \subseteq S /\ i \in U
    <3>1. i \in 1 .. n
      BY <1>0, <1>1
    <3>2. IsFiniteSet(S)
      BY <1>2, FS_Interval
    <3> QED
      BY <1>2, <3>1, <3>2
  <2>2. U \subseteq S /\ U \ {i} \subseteq S
    BY <1>2
  <2> QED
    BY <2>1, <2>2, FS_Subset
<1>4. \A j \in S : f[j] = IF j < i THEN Lengths(p)[j]
                          ELSE IF j = i THEN inner_HHMMSS2Second(t) - inner_HHMMSS2Second(Sections(p)[i].begin)
                          ELSE 0
  BY <1>1, <1>2, PartsAround
<1>5. inner_HHMMSS2Second(t) - inner_HHMMSS2Second(Sections(p)[i].begin) \in Int
  <2>1. inner_HHMMSS2Second(t) \in Nat
    BY SecondsRise DEF InSection
  <2> QED
    BY <1>0, <2>1, LengthsPositive
<1>6. \A j \in S : f[j] \in Int
  <2>1. \A j \in S : Lengths(p)[j] \in Int
    BY <1>0, <1>1, <1>2, LengthsPositive
  <2> QED
    BY <1>4, <1>5, <2>1
<1> HIDE DEF f
<1>7. Sum(f, S) = Sum(f, T) + Sum(f, U)
  BY <1>2, <1>3, <1>6, SplitSum
<1>8. Sum(f, U) = f[i] + Sum(f, U \ {i})
  <2>1. \A j \in U : f[j] \in Int
    BY <1>2, <1>6
  <2> QED
    BY <1>3, <2>1, TakenSum
<1>9. Sum(f, U \ {i}) = 0
  <2>1. PICK V : V = U \ {i}
    OBVIOUS
  <2>2. \A j \in V : f[j] = 0
    BY <1>0, <1>1, <1>2, <1>4, <2>1
  <2>3. IsFiniteSet(V)
    BY <1>3, <2>1
  <2> QED
    BY <2>1, <2>2, <2>3, ZeroSum
<1>10. Sum(f, T) = Before(p, i)
  <2>1. \A j \in T : f[j] = Lengths(p)[j]
    BY <1>0, <1>1, <1>2, <1>4
  <2>2. Sum(f, T) = Sum(Lengths(p), T)
    BY <1>3, <2>1, SameSum
  <2> QED
    BY <1>2, <2>2 DEF Before
<1>11. TradingSecond(p, t) = Sum(f, S)
  BY <1>0, <1>1, <1>2, TradingIsSum DEF f
<1>12. f[i] = inner_HHMMSS2Second(t) - inner_HHMMSS2Second(Sections(p)[i].begin)
  BY <1>0, <1>1, <1>2, <1>4
<1>13. Before(p, i) \in Int
  BY <1>0, BeforeNext
<1> QED
  BY <1>5, <1>7, <1>8, <1>9, <1>10, <1>11, <1>12, <1>13

(* At the end of the day all of it is over. *)
LEMMA TradingOver ==
  ASSUME NEW p \in DOMAIN SectionConfig, NEW n \in Nat, DOMAIN Sections(p) = 1 .. n
  PROVE  TradingSecond(p, Never) = Before(p, n + 1) /\ Before(p, n + 1) \in Int
<1> DEFINE f == PartsBefore(p, Never)
<1>1. PICK S : S = 1 .. n
  OBVIOUS
<1>2. ASSUME NEW j \in S PROVE f[j] = Lengths(p)[j]
  <2>1. PICK e \in Times : e = Sections(p)[j].end /\ e < Never
    BY <1>1, SectionFacts
  <2>2. Min({Never, e}) = e
    <3>1. e \in Int /\ Never \in Int
      BY DEF Times, Never
    <3> QED
      BY <2>1, <3>1, OfTwo
  <2>3. f[j] = Max({0, Lengths(p)[j]})
    BY <1>1, <2>1, <2>2 DEF PartsBefore, Lengths, Length
  <2>4. Lengths(p)[j] \in Nat \ {0}
    BY <1>1, LengthsPositive
  <2>5. PICK x \in Int : x = Lengths(p)[j] /\ x > 0
    BY <2>4
  <2>6. Max({0, x}) = x
    BY <2>5, AboveZero
  <2> HIDE DEF f
  <2> QED
    BY <2>3, <2>5, <2>6
<1>3. IsFiniteSet(S)
  BY <1>1, FS_Interval
<1>4. TradingSecond(p, Never) = Sum(f, S)
  BY <1>1, TradingIsSum
<1> HIDE DEF f
<1>5. Sum(f, S) = Sum(Lengths(p), S)
  BY <1>2, <1>3, SameSum
<1>6. S = 1 .. ((n + 1) - 1)
  BY <1>1
<1>7. Sum(Lengths(p), S) \in Int
  <2>1. \A j \in S : Lengths(p)[j] \in Int
    BY <1>1, LengthsPositive
  <2> QED
    BY <1>3, <2>1, TakenSum
<1>8. Before(p, n + 1) = Sum(Lengths(p), S)
  BY <1>6 DEF Before
<1> QED
  BY <1>4, <1>5, <1>7, <1>8

(* The sections between two make up the difference. *)
LEMMA BeforeLater ==
  ASSUME NEW p \in DOMAIN SectionConfig, NEW h \in DOMAIN Sections(p), NEW i \in DOMAIN Sections(p), h < i
  PROVE  MapThenSumSet(LAMBDA j : Length(Sections(p)[j]), h + 1 .. i - 1) = Before(p, i) - Before(p, h + 1)
<1> DEFINE f == Lengths(p)
<1>1. PICK n \in Nat : DOMAIN Sections(p) = 1 .. n
  BY SectionFacts
<1>2. PICK S, T, U : S = 1 .. (i - 1) /\ T = 1 .. ((h + 1) - 1) /\ U = h + 1 .. i - 1
  OBVIOUS
<1>3. h \in 1 .. n /\ i \in 1 .. n
  BY <1>1
<1>4. T \subseteq S /\ U = S \ T /\ U \subseteq DOMAIN Sections(p) /\ \A j \in S : j \in DOMAIN Sections(p)
  BY <1>1, <1>2, <1>3
<1>5. IsFiniteSet(S) /\ IsFiniteSet(T) /\ IsFiniteSet(U)
  <2>1. IsFiniteSet(S)
    BY <1>2, <1>3, FS_Interval
  <2>2. T \subseteq S /\ U \subseteq S
    BY <1>4
  <2> QED
    BY <2>1, <2>2, FS_Subset
<1>6. \A j \in S : f[j] \in Int
  BY <1>4, LengthsPositive
<1> HIDE DEF f
<1>7. Sum(f, S) = Sum(f, T) + Sum(f, U)
  BY <1>4, <1>5, <1>6, SplitSum
<1>8. Sum(f, T) \in Int /\ Sum(f, U) \in Int
  <2>1. (\A j \in T : f[j] \in Int) /\ (\A j \in U : f[j] \in Int)
    BY <1>4, <1>6
  <2> QED
    BY <1>5, <2>1, TakenSum
<1>9. MapThenSumSet(LAMBDA j : Length(Sections(p)[j]), U) = Sum(f, U)
  BY <1>4, <1>5, BetweenIsSum DEF f
<1>10. Before(p, i) = Sum(f, S) /\ Before(p, h + 1) = Sum(f, T)
  BY <1>2 DEF Before, f
<1>11. MapThenSumSet(LAMBDA j : Length(Sections(p)[j]), h + 1 .. i - 1) = Sum(f, U)
  BY <1>2, <1>9
<1> QED
  BY <1>7, <1>8, <1>10, <1>11

(* How far into the trading a time is that may also be the one after the end *)
Reached(p, t, d) ==
  IF t = Never THEN d > TradingSecond(p, Never)
  ELSE /\ \E i \in DOMAIN Sections(p) : InSection(p, i, t)
       /\ TradingSecond(p, t) = d

(* getStandardTime goes on by gap seconds of trading, whatever breaks lie *)
(* between, or past the end of the day.                                   *)
LEMMA StandardTime ==
  ASSUME NEW p \in DOMAIN SectionConfig, NEW b, NEW d \in Int, Reached(p, b, d), NEW gap \in Nat \ {0}
  PROVE  Reached(p, getStandardTime(p, b, gap), d + gap)
<1> DEFINE secs   == Sections(p)
           this   == {i \in DOMAIN secs : secs[i].begin <= b /\ b <= secs[i].end}
           first  == Min(this)
           expect == inner_Second2HHMMSS(inner_HHMMSS2Second(b) + gap)
           Left(i) == inner_HHMMSS2Second(expect) - inner_HHMMSS2Second(secs[first].end)
                      - MapThenSumSet(LAMBDA j : Length(secs[j]), first + 1 .. i - 1)
           fits   == {i \in DOMAIN secs : i > first /\ Length(secs[i]) >= Left(i)}
           next   == Min(fits)
           time   == inner_Second2HHMMSS(inner_HHMMSS2Second(secs[next].begin) + Left(next))
<1>1. getStandardTime(p, b, gap) = IF this = {} THEN Never
                                   ELSE IF expect <= secs[first].end THEN expect
                                   ELSE IF fits = {} THEN Never
                                   ELSE time
  BY DEF getStandardTime
<1>2. PICK n \in Nat :
           /\ DOMAIN Sections(p) = 1 .. n
           /\ \A k \in 1 .. n :
                /\ Sections(p)[k].begin \in Times /\ Sections(p)[k].end \in Times
                /\ Sections(p)[k].end < Never
                /\ Sections(p)[k].begin < Sections(p)[k].end
           /\ \A k, l \in 1 .. n : k < l => Sections(p)[k].end <= Sections(p)[l].begin
  BY SectionFacts
<1>3. TradingSecond(p, Never) = Before(p, n + 1)
  BY <1>2, TradingOver
<1>4. Before(p, n + 1) \in Int
  BY <1>2, TradingOver
<1>5. CASE b = Never
  <2>1. this = {}
    <3> SUFFICES ASSUME NEW i \in 1 .. n, b <= secs[i].end PROVE FALSE
      BY <1>2
    <3>1. PICK e : e = secs[i].end
      OBVIOUS
    <3>2. e \in Nat /\ e < Never /\ Never <= e
      BY <1>2, <1>5, <3>1 DEF Times
    <3> QED
      BY <3>2 DEF Never
  <2>2. getStandardTime(p, b, gap) = Never
    BY <1>1, <2>1
  <2> QED
    BY <1>3, <1>4, <1>5, <2>2 DEF Reached
<1>6. CASE b # Never
  <2>1. this \subseteq 1 .. n /\ this # {}
    BY <1>2, <1>6 DEF Reached, InSection
  <2>2. first \in this
    <3> HIDE DEF this
    <3> QED
      BY <2>1, LeastOf
  <2>3. b \in Times /\ TradingSecond(p, b) = d
    BY <1>6 DEF Reached, InSection
  <2>4. InSection(p, first, b)
    BY <2>2, <2>3 DEF InSection
  <2>5. PICK sb \in Nat, sF \in Nat, eF \in Nat :
             /\ sb = inner_HHMMSS2Second(b)
             /\ sF = inner_HHMMSS2Second(secs[first].begin) /\ eF = inner_HHMMSS2Second(secs[first].end)
             /\ Lengths(p)[first] = eF - sF
    <3>1. first \in DOMAIN Sections(p)
      BY <2>4 DEF InSection
    <3>2. inner_HHMMSS2Second(b) \in Nat
      BY <2>3, SecondsRise
    <3> HIDE DEF first
    <3> QED
      BY <3>1, <3>2, LengthsPositive
  <2>6. expect \in Times /\ inner_HHMMSS2Second(expect) = sb + gap
    <3>1. PICK x \in Nat : x = sb + gap
      OBVIOUS
    <3>2. expect = inner_Second2HHMMSS(x)
      BY <2>5, <3>1
    <3> QED
      BY <3>1, <3>2, TimeOfSeconds
  <2>7. first \in 1 .. n
    BY <2>1, <2>2
  <2> HIDE DEF expect, first, this
  <2>8. PICK e \in Times : e = secs[first].end /\ e < Never /\ eF = inner_HHMMSS2Second(e)
    BY <1>2, <2>5, <2>7
  <2>9. \A i \in 1 .. n : /\ Before(p, i) \in Int /\ Before(p, i + 1) = Before(p, i) + Lengths(p)[i]
                          /\ Lengths(p)[i] \in Nat \ {0} /\ Lengths(p)[i] = Length(secs[i])
    BY <1>2, BeforeNext, LengthsPositive DEF Lengths
  <2>10. d = Before(p, first) + (sb - sF)
    BY <2>3, <2>4, <2>5, TradingAt
  <2>11. CASE expect <= secs[first].end
    <3>1. b <= expect
      <4>1. inner_HHMMSS2Second(b) < inner_HHMMSS2Second(expect)
        BY <2>5, <2>6
      <4> QED
        BY <2>3, <2>6, <4>1, SecondsRise
    <3>2. InSection(p, first, expect)
      <4>1. secs[first].begin <= b /\ secs[first].begin \in Nat /\ b \in Nat /\ expect \in Nat
        BY <1>2, <2>3, <2>4, <2>6, <2>7 DEF InSection, Times
      <4> QED
        BY <1>2, <2>6, <2>7, <2>11, <3>1, <4>1 DEF InSection
    <3>3. TradingSecond(p, expect) = Before(p, first) + (sb + gap - sF)
      BY <2>5, <2>6, <3>2, TradingAt
    <3>4. TradingSecond(p, expect) = d + gap
      BY <2>7, <2>9, <2>10, <3>3
    <3>5. expect # Never
      <4>1. e \in Nat /\ expect \in Nat
        BY <2>6 DEF Times
      <4> QED
        BY <2>8, <2>11, <4>1
    <3>6. getStandardTime(p, b, gap) = expect
      BY <1>1, <2>1, <2>11
    <3>7. first \in DOMAIN Sections(p)
      BY <1>2, <2>7
    <3> QED
      BY <3>2, <3>4, <3>5, <3>6, <3>7 DEF Reached
  <2>12. CASE ~(expect <= secs[first].end)
    <3>1. sb + gap > eF
      <4>1. e \in Nat /\ expect \in Nat /\ e < expect
        BY <2>6, <2>8, <2>12 DEF Times
      <4>2. inner_HHMMSS2Second(e) < inner_HHMMSS2Second(expect)
        BY <2>6, <4>1, SecondsRise
      <4> QED
        BY <2>6, <2>8, <4>2
    <3>2. Before(p, first + 1) < d + gap
      BY <2>5, <2>7, <2>9, <2>10, <3>1
    <3>3. ASSUME NEW i \in 1 .. n, i > first PROVE Left(i) = d + gap - Before(p, i)
      <4>1. MapThenSumSet(LAMBDA j : Length(secs[j]), first + 1 .. i - 1) = Before(p, i) - Before(p, first + 1)
        <5>1. first \in DOMAIN Sections(p) /\ i \in DOMAIN Sections(p) /\ first < i
          BY <1>2, <2>7, <3>3
        <5> QED
          BY <5>1, BeforeLater
      <4>2. PICK m \in Int : m = Before(p, i) - Before(p, first + 1)
        <5>1. /\ Before(p, first) \in Int /\ Lengths(p)[first] \in Int /\ Before(p, i) \in Int
              /\ Before(p, first + 1) = Before(p, first) + Lengths(p)[first]
          BY <2>7, <2>9
        <5>2. Before(p, first + 1) \in Int
          BY <5>1
        <5> QED
          BY <5>1, <5>2
      <4>3. PICK s \in Int, t \in Int : s = inner_HHMMSS2Second(expect) /\ t = inner_HHMMSS2Second(secs[first].end)
        BY <2>5, <2>6
      <4>4. Left(i) = s - t - m
        BY <4>1, <4>2, <4>3, Zenon
      <4> HIDE DEF Left
      <4> QED
        BY <2>5, <2>6, <2>7, <2>9, <2>10, <4>2, <4>3, <4>4
    <3> HIDE DEF Left
    <3>4. \A i \in 1 .. n : i > first /\ i \notin fits => Before(p, i + 1) < d + gap
      <4> SUFFICES ASSUME NEW i \in 1 .. n, i > first, i \notin fits PROVE Before(p, i + 1) < d + gap
        OBVIOUS
      <4>1. ~(Length(secs[i]) >= Left(i))
        BY <1>2
      <4> QED
        BY <2>9, <3>3, <4>1
    <3>5. CASE fits = {}
      <4>1. getStandardTime(p, b, gap) = Never
        BY <1>1, <2>1, <2>12, <3>5
      <4>2. Before(p, n + 1) < d + gap
        <5>1. CASE first = n
          BY <3>2, <5>1
        <5>2. CASE first < n
          BY <2>7, <3>4, <3>5, <5>2
        <5> QED
          BY <2>7, <5>1, <5>2
      <4>3. d + gap > TradingSecond(p, Never)
        BY <1>3, <1>4, <4>2
      <4> QED
        BY <4>1, <4>3 DEF Reached
    <3>6. CASE fits # {}
      <4>1. /\ next \in 1 .. n /\ next > first /\ Length(secs[next]) >= Left(next)
            /\ \A i \in 1 .. n : i < next => i \notin fits
        <5>1. fits \subseteq 1 .. n
          BY <1>2
        <5>2. next \in fits /\ \A y \in fits : next <= y
          <6> HIDE DEF fits
          <6> QED
            BY <3>6, <5>1, LeastOf
        <5>3. next \in 1 .. n /\ next > first /\ Length(secs[next]) >= Left(next)
          BY <1>2, <5>2
        <5> HIDE DEF fits, next
        <5> QED
          BY <5>1, <5>2, <5>3
      <4> HIDE DEF fits, next
      <4>2. Before(p, next) < d + gap
        <5>1. CASE next = first + 1
          BY <3>2, <5>1
        <5>2. CASE next > first + 1
          <6>1. PICK i \in 1 .. n : i + 1 = next /\ i > first /\ i < next
            BY <2>7, <4>1, <5>2
          <6> QED
            BY <3>4, <4>1, <6>1
        <5> QED
          BY <2>7, <4>1, <5>1, <5>2
      <4>3. PICK x \in Nat : x = Left(next) /\ x = d + gap - Before(p, next) /\ x <= Lengths(p)[next]
        BY <2>9, <3>3, <4>1, <4>2
      <4>4. PICK c \in Times, f \in Times, sc \in Nat, sf \in Nat :
                 /\ c = secs[next].begin /\ f = secs[next].end /\ f < Never
                 /\ sc = inner_HHMMSS2Second(c) /\ sf = inner_HHMMSS2Second(f)
                 /\ Lengths(p)[next] = sf - sc
        <5>1. next \in DOMAIN Sections(p)
          BY <1>2, <4>1
        <5> QED
          BY <1>2, <4>1, <5>1, LengthsPositive
      <4>5. PICK y \in Nat : y = sc + x
        OBVIOUS
      <4>6. time = inner_Second2HHMMSS(y)
        BY <4>3, <4>4, <4>5
      <4> HIDE DEF time
      <4>7. time \in Times /\ inner_HHMMSS2Second(time) = y
        BY <4>5, <4>6, TimeOfSeconds
      <4>8. c <= time /\ time <= f
        <5>1. sc <= y /\ y <= sf
          BY <4>3, <4>4, <4>5
        <5>2. c \in Nat /\ f \in Nat /\ time \in Nat
          BY <4>4, <4>7 DEF Times
        <5>3. ~(time < c) /\ ~(f < time)
          BY <4>4, <4>7, <5>1, SecondsRise
        <5> QED
          BY <5>2, <5>3
      <4>9. InSection(p, next, time)
        BY <1>2, <4>1, <4>4, <4>7, <4>8 DEF InSection
      <4>10. TradingSecond(p, time) = Before(p, next) + (y - sc)
        BY <4>4, <4>7, <4>9, TradingAt
      <4>11. TradingSecond(p, time) = d + gap
        BY <2>9, <4>1, <4>3, <4>5, <4>10
      <4>12. time # Never
        <5>1. f \in Nat /\ time \in Nat
          BY <4>4, <4>7 DEF Times
        <5> QED
          BY <4>4, <4>8, <5>1
      <4>13. getStandardTime(p, b, gap) = time
        BY <1>1, <2>1, <2>12, <3>6
      <4>14. next \in DOMAIN Sections(p)
        BY <1>2, <4>1
      <4> QED
        BY <4>9, <4>11, <4>12, <4>13, <4>14 DEF Reached
    <3> QED
      BY <3>5, <3>6
  <2> QED
    BY <2>11, <2>12
<1> QED
  BY <1>5, <1>6

-----------------------------------------------------------------------------
(* The slices of a round that have not been placed *)
Slices == [id: Ids, volume: Nat \ {0}]

Weights(s, i) == [k \in DOMAIN s |-> IF s[k].id = i THEN s[k].volume ELSE 0]
Volume(s, i) == Sum(Weights(s, i), DOMAIN s)

(* Slices to place are finitely many, of whole lots. *)
LEMMA SliceVolumes ==
  ASSUME NEW s \in Seq(Slices), NEW i
  PROVE  /\ IsFiniteSet(DOMAIN s)
         /\ \A k \in DOMAIN s : Weights(s, i)[k] \in Int /\ s[k] \in Slices
         /\ Volume(s, i) \in Int
<1>1. IsFiniteSet(DOMAIN s)
  BY FS_Interval
<1>2. \A k \in DOMAIN s : s[k] \in Slices
  OBVIOUS
<1>3. \A k \in DOMAIN s : Weights(s, i)[k] \in Int
  BY <1>2 DEF Weights, Slices
<1> QED
  BY <1>1, <1>2, <1>3, TakenSum DEF Volume

(* The fold of Pending is such a sum *)
LEMMA PendingFold ==
  ASSUME NEW s \in Seq(Slices), NEW i
  PROVE  MapThenSumSet(LAMBDA k : IF s[k].id = i THEN s[k].volume ELSE 0, DOMAIN s) = Volume(s, i)
<1> DEFINE S == DOMAIN s
           f == Weights(s, i)
           T(k) == IF s[k].id = i THEN s[k].volume ELSE 0
           Fold(h) == [t \in SUBSET S |-> IF t = {} THEN 0
                                          ELSE T(CHOOSE x \in t : TRUE) + h[t \ {CHOOSE x \in t : TRUE}]]
           h == CHOOSE h : h = Fold(h)
<1>1. IsFiniteSet(S)
  BY SliceVolumes
<1>2. MapThenSumSet(LAMBDA k : IF s[k].id = i THEN s[k].volume ELSE 0, DOMAIN s) = h[S]
  BY DEF MapThenSumSet, MapThenFoldSet
<1>3. PICK g : IsSum(g, f, S) /\ Sum(f, S) = g[S]
  BY <1>1, SumIsSum
<1>4. \A x \in S : f[x] = T(x)
  BY DEF Weights
<1> HIDE DEF f, S, T
<1>5. g = Fold(g)
  BY <1>3, <1>4 DEF IsSum
<1>6. h = Fold(h)
  <2> HIDE DEF Fold
  <2> QED
    BY <1>5, Zenon
<1>7. IsSum(h, f, S)
  <2> HIDE DEF h
  <2> QED
    BY <1>4, <1>6 DEF IsSum
<1>8. h[S] = g[S]
  <2> HIDE DEF h
  <2> QED
    BY <1>1, <1>3, <1>7, SumSame
<1> QED
  BY <1>2, <1>3, <1>8 DEF f, S, Volume

(* ... before a step and after it. *)
LEMMA PendingIsVolume ==
  ASSUME NEW i
  PROVE  /\ timer.events \in Seq(Slices) => Pending(i) = Volume(timer.events, i)
         /\ timer'.events \in Seq(Slices) => Pending(i)' = Volume(timer'.events, i)
<1>1. timer.events \in Seq(Slices) => Pending(i) = Volume(timer.events, i)
  <2> SUFFICES ASSUME timer.events \in Seq(Slices) PROVE Pending(i) = Volume(timer.events, i)
    OBVIOUS
  <2>1. PICK s : s = timer.events
    OBVIOUS
  <2> QED
    BY <2>1, PendingFold DEF Pending, MapThenSumSet, MapThenFoldSet
<1>2. timer'.events \in Seq(Slices) => Pending(i)' = Volume(timer'.events, i)
  <2> SUFFICES ASSUME timer'.events \in Seq(Slices) PROVE Pending(i)' = Volume(timer'.events, i)
    OBVIOUS
  <2> QED
    BY PendingFold DEF Pending, MapThenSumSet, MapThenFoldSet
<1> QED
  BY <1>1, <1>2

(* A slice that is decided on adds its volume to its order's. *)
LEMMA AppendedVolume ==
  ASSUME NEW s \in Seq(Slices), NEW e \in Slices, NEW i
  PROVE  /\ Append(s, e) \in Seq(Slices)
         /\ Volume(Append(s, e), i) = Volume(s, i) + (IF e.id = i THEN e.volume ELSE 0)
<1> DEFINE t == Append(s, e)
           n == Len(s) + 1
           f == Weights(t, i)
<1>1. /\ t \in Seq(Slices) /\ DOMAIN t = 1 .. n /\ DOMAIN s = 1 .. Len(s) /\ Len(s) \in Nat
      /\ t[n] = e /\ \A k \in DOMAIN s : t[k] = s[k]
  OBVIOUS
<1> HIDE DEF t, n
<1>2. DOMAIN t = DOMAIN s \cup {n} /\ n \notin DOMAIN s
  BY <1>1 DEF n
<1>3. /\ \A k \in DOMAIN s : f[k] = Weights(s, i)[k]
      /\ f[n] = IF e.id = i THEN e.volume ELSE 0
  BY <1>1, <1>2 DEF Weights
<1>4. IsFiniteSet(DOMAIN s) /\ \A k \in DOMAIN s : f[k] \in Int
  BY <1>3, SliceVolumes
<1>5. f[n] \in Int
  BY <1>3 DEF Slices
<1> HIDE DEF f
<1>6. Sum(f, DOMAIN s \cup {n}) = f[n] + Sum(f, DOMAIN s)
  BY <1>2, <1>4, <1>5, AddedSum
<1>7. Sum(f, DOMAIN s) = Volume(s, i)
  BY <1>3, <1>4, SameSum DEF Volume
<1>8. Volume(s, i) \in Int
  BY SliceVolumes
<1>9. Volume(t, i) = f[n] + Volume(s, i)
  BY <1>2, <1>6, <1>7 DEF Volume, f
<1> QED
  BY <1>1, <1>3, <1>5, <1>8, <1>9 DEF t

(* A slice that is placed takes it away. *)
LEMMA TailVolume ==
  ASSUME NEW s \in Seq(Slices), s # << >>, NEW i
  PROVE  /\ Tail(s) \in Seq(Slices) /\ Head(s) \in Slices
         /\ Volume(s, i) = Volume(Tail(s), i) + (IF Head(s).id = i THEN Head(s).volume ELSE 0)
<1> DEFINE t == Tail(s)
           f == Weights(s, i)
           e == Weights(t, i)
           b == [k \in DOMAIN t |-> k + 1]
<1>1. /\ t \in Seq(Slices) /\ Len(s) \in Nat \ {0} /\ DOMAIN s = 1 .. Len(s)
      /\ DOMAIN t = 1 .. (Len(s) - 1)
      /\ Head(s) = s[1] /\ Head(s) \in Slices /\ \A k \in DOMAIN t : t[k] = s[k + 1]
  OBVIOUS
<1> HIDE DEF t
<1>2. 1 \in DOMAIN s /\ {b[k] : k \in DOMAIN t} = DOMAIN s \ {1}
  <2>1. \A k \in DOMAIN t : b[k] \in DOMAIN s \ {1}
    BY <1>1
  <2>2. \A k \in DOMAIN s \ {1} : k - 1 \in DOMAIN t /\ b[k - 1] = k
    BY <1>1
  <2> HIDE DEF b
  <2> QED
    BY <1>1, <2>1, <2>2
<1>3. \A k \in DOMAIN t : f[b[k]] = e[k]
  BY <1>1 DEF Weights
<1>4. \A k \in DOMAIN t : e[k] \in Int
  BY <1>1, SliceVolumes
<1>5. \A k, l \in DOMAIN t : b[k] = b[l] => k = l
  BY <1>1
<1>6. IsFiniteSet(DOMAIN t) /\ IsFiniteSet(DOMAIN s) /\ \A k \in DOMAIN s : f[k] \in Int
  BY <1>1, SliceVolumes
<1>7. f[1] = IF Head(s).id = i THEN Head(s).volume ELSE 0
  BY <1>1, <1>2 DEF Weights
<1> HIDE DEF e, f, b
<1>8. Sum(f, DOMAIN s \ {1}) = Sum(e, DOMAIN t)
  <2>1. Sum(f, {b[k] : k \in DOMAIN t}) = Sum(e, DOMAIN t)
    <3>1. PICK S : S = DOMAIN t
      OBVIOUS
    <3>2. IsFiniteSet(S)
      BY <1>6, <3>1
    <3>3. \A x \in S : e[x] \in Int /\ f[b[x]] = e[x]
      BY <1>3, <1>4, <3>1
    <3>4. \A x, y \in S : b[x] = b[y] => x = y
      BY <1>5, <3>1
    <3>5. Sum(f, {b[x] : x \in S}) = Sum(e, S)
      BY <3>2, <3>3, <3>4, RenamedSum
    <3> QED
      BY <3>1, <3>5
  <2> QED
    BY <1>2, <2>1
<1>9. Sum(f, DOMAIN s) = f[1] + Sum(f, DOMAIN s \ {1})
  BY <1>2, <1>6, TakenSum
<1>10. Volume(s, i) = Sum(f, DOMAIN s) /\ Volume(t, i) = Sum(e, DOMAIN t)
  BY DEF Volume, f, e
<1>11. Volume(t, i) \in Int /\ f[1] \in Int
  BY <1>1, <1>2, <1>6, SliceVolumes
<1>12. Volume(s, i) = Volume(t, i) + f[1]
  BY <1>8, <1>9, <1>10, <1>11
<1> QED
  BY <1>1, <1>7, <1>12 DEF t

-----------------------------------------------------------------------------
(* Every lot is in one place: the invariant *)
ContextOK(c) ==
  /\ DOMAIN c = DOMAIN NoContext
  /\ c.made \in BOOLEAN /\ c.total \in Int /\ c.real \in Int /\ c.slots \in Nat
  /\ c.gap \in Nat \ {0} /\ c.times \in Nat \ {0}

LotTypes ==
  /\ moment \in DOMAIN Moments /\ requests \subseteq Requests
  /\ orders \in [Ids -> [status: Live \cup Ended \cup {"none"}, remain: Int]]
  /\ DOMAIN contexts = Ids /\ \A i \in Ids : ContextOK(contexts[i])
  /\ placed \in [Ids -> Nat]
  /\ timer \in [todo: SUBSET Ids, at: Ids \cup {NoId}, events: Seq(Slices)]

InsertingOK ==
  inserting # NotInserting =>
    /\ inserting.id \in Ids /\ ContextOK(inserting.context)
    /\ inserting.context.made /\ inserting.context.real = 0 /\ inserting.context.slots = 0
    /\ inserting.context.total > 0
    /\ orders[inserting.id].status # "none"

TakenUp(i) == orders[i].status \notin {"none", "Avoid"}

AtWork ==
  /\ timer.at # NoId => TakenUp(timer.at)
  /\ \A k \in DOMAIN timer.events : contexts[timer.events[k].id].made /\ TakenUp(timer.events[k].id)

LotsOf(i) ==
  /\ orders[i].status = "none" => orders[i] = NoOrder
  /\ contexts[i].made =>
       /\ orders[i].status # "none"
       /\ contexts[i].real = placed[i] + Volume(timer.events, i)
       /\ contexts[i].real <= contexts[i].total
       /\ orders[i].status # "Avoid" => orders[i].remain = contexts[i].total - placed[i]
  /\ ~contexts[i].made =>
       /\ placed[i] = 0 /\ Volume(timer.events, i) = 0
       /\ \/ ~TakenUp(i)
          \/ inserting # NotInserting /\ inserting.id = i /\ orders[i].remain = inserting.context.total

Lots == LotTypes /\ InsertingOK /\ AtWork /\ \A i \in Ids : LotsOf(i)

(* An order that has not come has a context of zeros. *)
LEMMA NoContextOK == ContextOK(NoContext)
BY DEF ContextOK, NoContext

(* Lots holds at the start, when nothing is placed. *)
LEMMA InitLots == Init => Lots
<1> SUFFICES ASSUME Init PROVE Lots
  OBVIOUS
<1>1. timer.events = << >> /\ timer.events \in Seq(Slices) /\ DOMAIN timer.events = {}
  BY DEF Init
<1>2. \A i \in Ids : Volume(timer.events, i) = 0
  BY <1>1, EmptySum DEF Volume
<1>3. LotTypes
  <2>1. 1 \in DOMAIN Moments
    BY MomentsAssumption
  <2> QED
    BY <1>1, <2>1, NoContextOK DEF Init, LotTypes, NoOrder, Ended
<1>4. InsertingOK /\ AtWork
  BY <1>1 DEF Init, InsertingOK, AtWork
<1>5. \A i \in Ids : LotsOf(i)
  <2> SUFFICES ASSUME NEW i \in Ids PROVE LotsOf(i)
    OBVIOUS
  <2>1. ~contexts[i].made /\ orders[i] = NoOrder /\ placed[i] = 0
    BY DEF Init, NoContext
  <2> QED
    BY <1>2, <2>1 DEF LotsOf, TakenUp, NoOrder
<1> QED
  BY <1>3, <1>4, <1>5 DEF Lots

(* What is made for an order that is let in *)
LEMMA ContextMade ==
  ASSUME LotTypes, NEW r \in Requests, Valid(r)
  PROVE  /\ ContextOK(NewContext(r)) /\ NewContext(r).made
         /\ NewContext(r).real = 0 /\ NewContext(r).slots = 0
         /\ NewContext(r).total = r.volume /\ r.volume \in Nat \ {0}
         /\ NewContext(r).part = Part(r) /\ InSections(r.product, Part(r))
<1>1. /\ r \in [id: Ids, product: STRING, volume: Int, begin: HHMMSS, end: HHMMSS]
      /\ r.volume > 0 /\ Part(r).ok
  BY RequestsAssumption DEF Valid
<1>2. Now \in HHMMSS
  BY MomentsAssumption DEF LotTypes, Now
<1>3. InSections(r.product, Part(r))
  BY <1>1, <1>2, PartFound DEF Part
<1> DEFINE total == getTotalSecond(r.product, Part(r))
           gap == Max({total \div r.volume, 1})
<1>4. total \in Nat \ {0}
  BY <1>3, TotalPositive
<1> HIDE DEF total
<1>5. r.volume \in Nat \ {0}
  BY <1>1
<1>6. total \div r.volume \in Nat /\ total \div r.volume <= total
  <2>1. PICK v \in Nat \ {0} : v = r.volume
    BY <1>5
  <2>2. PICK q \in Int : q = total \div v
    BY <1>4
  <2>3. v * q <= total /\ total < v * q + v
    BY <1>4, <2>2
  <2>4. q >= 0
    <3> SUFFICES ASSUME q <= -1 PROVE FALSE
      BY <2>2
    <3>1. v * q + v <= 0
      BY <2>1, <2>2
    <3> QED
      BY <1>4, <2>3, <3>1
  <2>5. q <= v * q
    BY <2>1, <2>2, <2>4
  <2> QED
    BY <1>4, <2>1, <2>2, <2>3, <2>4, <2>5
<1>7. gap \in Nat \ {0} /\ gap <= total
  <2>1. PICK q \in Nat : q = total \div r.volume
    BY <1>6
  <2>2. Max({q, 1}) = IF q >= 1 THEN q ELSE 1
    BY OfTwo
  <2>3. gap = IF q >= 1 THEN q ELSE 1
    BY <2>1, <2>2
  <2> HIDE DEF gap
  <2> QED
    BY <1>4, <1>6, <2>1, <2>3
<1> HIDE DEF gap
<1>8. total \div gap \in Nat \ {0}
  <2>1. PICK q \in Int : q = total \div gap
    BY <1>4, <1>7
  <2>2. gap * q <= total /\ total < gap * q + gap
    BY <1>4, <1>7, <2>1
  <2>3. q >= 1
    <3> SUFFICES ASSUME q <= 0 PROVE FALSE
      BY <2>1
    <3>1. gap * q <= 0
      BY <1>7, <2>1
    <3>2. total < gap
      BY <1>4, <1>7, <2>1, <2>2, <3>1
    <3> QED
      BY <1>4, <1>7, <3>2
  <2> QED
    BY <2>1, <2>3
<1>9. /\ DOMAIN NewContext(r) = DOMAIN NoContext /\ NewContext(r).made = TRUE
      /\ NewContext(r).total = r.volume /\ NewContext(r).gap = gap
      /\ NewContext(r).times = total \div gap
      /\ NewContext(r).slots = 0 /\ NewContext(r).real = 0 /\ NewContext(r).part = Part(r)
  BY DEF NewContext, NoContext, gap, total
<1> DEFINE c == NewContext(r)
<1> HIDE DEF c
<1>10. /\ DOMAIN c = DOMAIN NoContext /\ c.made = TRUE /\ c.total = r.volume
       /\ c.gap \in Nat \ {0} /\ c.times \in Nat \ {0} /\ c.slots = 0 /\ c.real = 0
  BY <1>7, <1>8, <1>9 DEF c
<1>11. ContextOK(c)
  <2>1. c.made \in BOOLEAN
    BY <1>10
  <2>2. c.total \in Int /\ c.real \in Int /\ c.slots \in Nat
    BY <1>5, <1>10
  <2> QED
    BY <1>10, <2>1, <2>2, Zenon DEF ContextOK
<1> QED
  BY <1>3, <1>5, <1>9, <1>11 DEF c

(* Slices are of orders, and not empty. *)
LEMMA SliceIds ==
  ASSUME NEW t \in [todo: SUBSET Ids, at: Ids \cup {NoId}, events: Seq(Slices)]
  PROVE  \A k \in DOMAIN t.events : t.events[k].id \in Ids /\ t.events[k].volume \in Nat \ {0}
<1>1. t.events \in Seq(Slices)
  OBVIOUS
<1>2. \A k \in DOMAIN t.events : t.events[k] \in Slices
  BY <1>1
<1> QED
  BY <1>2 DEF Slices

(* A step that leaves orders, contexts and slices as they are *)
LEMMA KeptLots ==
  ASSUME Lots, moment' \in DOMAIN Moments, requests' \subseteq requests,
         UNCHANGED <<orders, contexts, inserting, placed>>,
         timer' \in [todo: SUBSET Ids, at: Ids \cup {NoId}, events: Seq(Slices)],
         timer'.events = timer.events,
         timer'.at # NoId => timer'.at = timer.at \/ TakenUp(timer'.at)
  PROVE  Lots'
<1>1. LotTypes'
  BY DEF Lots, LotTypes
<1>2. InsertingOK'
  BY DEF Lots, InsertingOK
<1>3. AtWork'
  BY DEF Lots, AtWork, TakenUp
<1>4. ASSUME NEW i \in Ids PROVE LotsOf(i)'
  BY DEF Lots, LotsOf, TakenUp
<1> QED
  BY <1>1, <1>2, <1>3, <1>4 DEF Lots

(* ... such as those of the round and the clock *)
LEMMA KeepingSteps ==
  ASSUME Lots,
         \/ UNCHANGED vars \/ NextRound \/ (\E i \in Ids : Visit(i)) \/ VisitWithoutContext
         \/ ClockMoves \/ \E p \in DOMAIN SectionConfig : on_market_data(p)
  PROVE  Lots'
<1>0. timer \in [todo: SUBSET Ids, at: Ids \cup {NoId}, events: Seq(Slices)] /\ LotTypes
  BY DEF Lots, LotTypes
<1>1. CASE UNCHANGED vars \/ VisitWithoutContext \/ \E p \in DOMAIN SectionConfig : on_market_data(p)
  <2>1. UNCHANGED <<moment, requests, orders, contexts, inserting, placed, timer>>
    BY <1>1 DEF vars, VisitWithoutContext, on_market_data
  <2> QED
    BY <1>0, <2>1, KeptLots DEF LotTypes
<1>2. CASE ClockMoves
  <2>1. moment' \in DOMAIN Moments
    BY <1>0, <1>2, MomentsAssumption DEF ClockMoves, LotTypes
  <2>2. UNCHANGED <<requests, orders, contexts, inserting, placed, timer>>
    BY <1>2 DEF ClockMoves
  <2> QED
    BY <1>0, <2>1, <2>2, KeptLots
<1>3. CASE NextRound
  <2>1. UNCHANGED <<moment, requests, orders, contexts, inserting, placed>>
    BY <1>3 DEF NextRound
  <2>2. timer' = [timer EXCEPT !.todo = Ids]
    BY <1>3 DEF NextRound
  <2>3. /\ timer' \in [todo: SUBSET Ids, at: Ids \cup {NoId}, events: Seq(Slices)]
        /\ timer'.events = timer.events /\ timer'.at = timer.at
    BY <1>0, <2>2
  <2> QED
    BY <1>0, <2>1, <2>3, KeptLots DEF LotTypes
<1>4. ASSUME NEW i \in Ids, Visit(i) PROVE Lots'
  <2>1. UNCHANGED <<moment, requests, orders, contexts, inserting, placed>>
    BY <1>4 DEF Visit
  <2>2. timer' = [timer EXCEPT !.todo = @ \ {i}, !.at = IF orders[i].status \in Live THEN i ELSE NoId]
    BY <1>4 DEF Visit
  <2>3. /\ timer' \in [todo: SUBSET Ids, at: Ids \cup {NoId}, events: Seq(Slices)]
        /\ timer'.events = timer.events /\ timer'.at \in {NoId, i}
        /\ timer'.at # NoId => orders[i].status \in Live
    BY <1>0, <2>2
  <2>4. timer'.at # NoId => TakenUp(timer'.at)
    BY <2>3 DEF TakenUp, Live
  <2> QED
    BY <1>0, <2>1, <2>3, <2>4, KeptLots DEF LotTypes
<1> QED
  BY <1>1, <1>2, <1>3, <1>4

(* The order comes first, with all of its volume left *)
LEMMA InsertOrderLots ==
  ASSUME Lots, NEW r \in Requests, InsertOrder(r)
  PROVE  Lots'
<1>0. LotTypes /\ AtWork
  BY DEF Lots
<1>1. r \in [id: Ids, product: STRING, volume: Int, begin: HHMMSS, end: HHMMSS]
  BY RequestsAssumption
<1>2. PICK i \in Ids : i = r.id
  BY <1>1
<1>3. /\ inserting = NotInserting /\ requests' = requests \ {r}
      /\ UNCHANGED <<moment, contexts, timer, placed>>
  BY DEF InsertOrder
<1>4. /\ inserting' # NotInserting =>
           /\ inserting'.id = i /\ ContextOK(inserting'.context)
           /\ inserting'.context.made /\ inserting'.context.real = 0
           /\ inserting'.context.slots = 0
           /\ inserting'.context.total = r.volume /\ r.volume \in Nat \ {0}
      /\ Valid(r) <=> inserting' # NotInserting
  <2>1. inserting' = IF Valid(r) THEN [id |-> i, context |-> NewContext(r)] ELSE NotInserting
    BY <1>2 DEF InsertOrder
  <2>2. CASE Valid(r)
    <3>1. inserting'.id = i /\ inserting'.context = NewContext(r)
      BY <2>1, <2>2
    <3>2. inserting' # NotInserting
      BY <3>1, NoIdAssumption DEF NotInserting
    <3> QED
      BY <1>0, <2>2, <3>1, <3>2, ContextMade
  <2> QED
    BY <2>1, <2>2
<1>5. CASE orders[i] # NoOrder
  <2>1. orders' = orders
    BY <1>2, <1>5 DEF InsertOrder
  <2>2. orders[i].status # "none"
    BY <1>2, <1>5 DEF Lots, LotsOf
  <2>3. LotTypes'
    BY <1>0, <1>3, <2>1 DEF LotTypes
  <2>4. InsertingOK'
    BY <1>4, <2>1, <2>2 DEF InsertingOK
  <2>5. AtWork'
    BY <1>0, <1>3, <2>1 DEF AtWork, TakenUp
  <2>6. ASSUME NEW j \in Ids PROVE LotsOf(j)'
    <3>1. LotsOf(j)
      BY DEF Lots
    <3> QED
      BY <1>3, <2>1, <3>1 DEF LotsOf, TakenUp
  <2> QED
    BY <2>3, <2>4, <2>5, <2>6 DEF Lots
<1>6. CASE orders[i] = NoOrder
  <2>1. PICK o \in [status: {"Accepted", "Avoid"}, remain: Int] :
             /\ orders' = [orders EXCEPT ![i] = o]
             /\ (o.status = "Accepted") <=> Valid(r)
             /\ o.remain = r.volume
    <3>1. PICK o : o = [status |-> IF Valid(r) THEN "Accepted" ELSE "Avoid", remain |-> r.volume]
      OBVIOUS
    <3>2. orders' = [orders EXCEPT ![i] = o]
      BY <1>2, <1>6, <3>1 DEF InsertOrder
    <3>3. r.volume \in Int
      BY <1>1
    <3>4. /\ o \in [status: {"Accepted", "Avoid"}, remain: Int]
          /\ (o.status = "Accepted") <=> Valid(r)
          /\ o.remain = r.volume
      BY <3>1, <3>3
    <3> QED
      BY <3>2, <3>4
  <2>2. /\ orders' \in [Ids -> [status: Live \cup Ended \cup {"none"}, remain: Int]]
        /\ orders'[i] = o /\ \A j \in Ids \ {i} : orders'[j] = orders[j]
    BY <1>0, <2>1 DEF LotTypes, Live, Ended
  <2>3. ~TakenUp(i) /\ ~contexts[i].made
    BY <1>6 DEF Lots, LotsOf, TakenUp, NoOrder
  <2>4. LotTypes'
    BY <1>0, <1>3, <2>2 DEF LotTypes
  <2>5. InsertingOK'
    BY <1>4, <2>2 DEF InsertingOK
  <2>6. AtWork'
    <3>1. ASSUME NEW j \in Ids, TakenUp(j) PROVE TakenUp(j)'
      BY <2>2, <2>3, <3>1 DEF TakenUp
    <3>2. timer.at # NoId => timer.at \in Ids
      BY <1>0 DEF LotTypes
    <3>3. \A k \in DOMAIN timer.events : timer.events[k].id \in Ids
      BY <1>0, SliceIds DEF LotTypes
    <3> QED
      BY <1>0, <1>3, <3>1, <3>2, <3>3 DEF AtWork, TakenUp
  <2>7. ASSUME NEW j \in Ids PROVE LotsOf(j)'
    <3>1. LotsOf(j)
      BY DEF Lots
    <3>2. CASE j # i
      BY <1>3, <2>2, <3>1, <3>2 DEF LotsOf, TakenUp
    <3>3. CASE j = i
      BY <1>3, <1>4, <2>1, <2>2, <2>3, <3>1, <3>3 DEF LotsOf, TakenUp
    <3> QED
      BY <3>2, <3>3
  <2> QED
    BY <2>4, <2>5, <2>6, <2>7 DEF Lots
<1> QED
  BY <1>5, <1>6

(* ... and its context then, with nothing of it done. *)
LEMMA InsertContextLots ==
  ASSUME Lots, InsertContext
  PROVE  Lots'
<1>0. LotTypes /\ InsertingOK /\ AtWork /\ \A j \in Ids : LotsOf(j)
  BY DEF Lots
<1>1. PICK i, c :
           /\ i \in Ids /\ inserting.id = i /\ inserting.context = c /\ ContextOK(c) /\ c.made
           /\ c.real = 0 /\ c.slots = 0 /\ c.total > 0 /\ orders[i].status # "none"
  BY <1>0 DEF InsertContext, InsertingOK
<1>2. inserting' = NotInserting /\ UNCHANGED <<moment, requests, orders, timer, placed>>
  BY DEF InsertContext
<1>3. contexts' = IF contexts[i].made THEN contexts ELSE [contexts EXCEPT ![i] = c]
  BY <1>1 DEF InsertContext
<1>4. /\ DOMAIN contexts' = Ids /\ \A j \in Ids : ContextOK(contexts'[j])
      /\ \A j \in Ids : contexts'[j] = IF j = i /\ ~contexts[i].made THEN c ELSE contexts[j]
  BY <1>0, <1>1, <1>3 DEF LotTypes
<1>5. LotTypes'
  BY <1>0, <1>2, <1>4 DEF LotTypes
<1>6. InsertingOK'
  BY <1>2 DEF InsertingOK
<1>7. AtWork'
  <2>1. \A k \in DOMAIN timer.events : timer.events[k].id \in Ids
    BY <1>0, SliceIds DEF LotTypes
  <2> QED
    BY <1>0, <1>1, <1>2, <1>4, <2>1 DEF AtWork, TakenUp
<1>8. ASSUME NEW j \in Ids PROVE LotsOf(j)'
  <2>1. LotsOf(j)
    BY <1>0
  <2>2. CASE j # i
    BY <1>1, <1>2, <1>4, <2>1, <2>2 DEF LotsOf, TakenUp
  <2>3. CASE j = i /\ contexts[i].made
    BY <1>2, <1>4, <2>1, <2>3 DEF LotsOf, TakenUp
  <2>4. CASE j = i /\ ~contexts[i].made
    <3>1. /\ contexts'[j] = c /\ placed[j] = 0 /\ Volume(timer.events, j) = 0
          /\ orders[j].status # "Avoid" => orders[j].remain = c.total
      BY <1>1, <1>4, <2>1, <2>4 DEF LotsOf, TakenUp
    <3>2. c.total \in Int
      BY <1>1 DEF ContextOK
    <3> QED
      BY <1>1, <1>2, <2>4, <3>1, <3>2 DEF LotsOf
  <2> QED
    BY <2>2, <2>3, <2>4
<1> QED
  BY <1>5, <1>6, <1>7, <1>8 DEF Lots

(* A cancelled order keeps its lots. *)
LEMMA CancelOrderLots ==
  ASSUME Lots, NEW i \in Ids, CancelOrder(i)
  PROVE  Lots'
<1>0. LotTypes /\ InsertingOK /\ AtWork /\ \A j \in Ids : LotsOf(j)
  BY DEF Lots
<1>1. UNCHANGED <<moment, requests, contexts, inserting, timer, placed>>
  BY DEF CancelOrder
<1>2. CASE orders[i].status \in Live
  <2>1. orders' = [orders EXCEPT ![i].status = "Cancelled"]
    BY <1>2 DEF CancelOrder
  <2>2. /\ orders' \in [Ids -> [status: Live \cup Ended \cup {"none"}, remain: Int]]
        /\ orders'[i].status = "Cancelled" /\ orders'[i].remain = orders[i].remain
        /\ \A j \in Ids \ {i} : orders'[j] = orders[j]
    BY <1>0, <2>1 DEF LotTypes, Ended
  <2>3. \A j \in Ids : /\ orders'[j].remain = orders[j].remain
                       /\ orders'[j].status = "none" <=> orders[j].status = "none"
                       /\ orders'[j].status = "Avoid" <=> orders[j].status = "Avoid"
    BY <1>2, <2>2 DEF Live
  <2>4. LotTypes'
    BY <1>0, <1>1, <2>2 DEF LotTypes
  <2>5. InsertingOK'
    BY <1>0, <1>1, <2>3 DEF InsertingOK
  <2>6. AtWork'
    <3>1. \A k \in DOMAIN timer.events : timer.events[k].id \in Ids
      BY <1>0, SliceIds DEF LotTypes
    <3>2. timer.at # NoId => timer.at \in Ids
      BY <1>0 DEF LotTypes
    <3> QED
      BY <1>0, <1>1, <2>3, <3>1, <3>2 DEF AtWork, TakenUp
  <2>7. ASSUME NEW j \in Ids PROVE LotsOf(j)'
    <3>1. LotsOf(j)
      BY <1>0
    <3>2. orders'[j].status = "none" => orders'[j] = NoOrder
      BY <1>2, <2>2, <3>1 DEF LotsOf
    <3> QED
      BY <1>1, <2>3, <3>1, <3>2 DEF LotsOf, TakenUp
  <2> QED
    BY <2>4, <2>5, <2>6, <2>7 DEF Lots
<1>3. CASE orders[i].status \notin Live
  <2>1. orders' = orders
    BY <1>3 DEF CancelOrder
  <2>2. LotTypes'
    BY <1>0, <1>1, <2>1 DEF LotTypes
  <2>3. InsertingOK' /\ AtWork'
    BY <1>0, <1>1, <2>1 DEF InsertingOK, AtWork, TakenUp
  <2>4. ASSUME NEW j \in Ids PROVE LotsOf(j)'
    BY <1>0, <1>1, <2>1 DEF LotsOf, TakenUp
  <2> QED
    BY <2>2, <2>3, <2>4 DEF Lots
<1> QED
  BY <1>2, <1>3

(* What \div gives *)
LEMMA Quotient ==
  ASSUME NEW a \in Int, NEW b \in Nat \ {0}
  PROVE  a \div b \in Int /\ b * (a \div b) <= a /\ a < b * (a \div b) + b
<1>1. PICK q \in Int : q = a \div b
  OBVIOUS
<1>2. b * q <= a /\ a < b * q + b
  BY <1>1
<1> QED
  BY <1>1, <1>2

(* The smaller multiple is of the smaller number. *)
LEMMA FewerMultiples ==
  ASSUME NEW t \in Nat \ {0}, NEW a \in Int, NEW b \in Int, t * a < t * b + t
  PROVE  a <= b
<1> SUFFICES ASSUME a >= b + 1 PROVE FALSE
  OBVIOUS
<1>1. PICK z \in Nat : z = a - b - 1
  OBVIOUS
<1>2. t * z >= 0
  OBVIOUS
<1>3. t * a = t * b + t + t * z
  BY <1>1
<1>4. t * a \in Int /\ t * b \in Int /\ t * z \in Int
  OBVIOUS
<1> QED
  BY <1>2, <1>3, <1>4

(* What a slot wants brings an order to its share, less than one lot *)
(* above.                                                            *)
LEMMA WantedVolume ==
  ASSUME NEW c, ContextOK(c), NEW k \in Nat, NEW w \in WantVol(c, k)
  PROVE  w \in Int /\ (c.real + w) * c.times <= k * c.total + c.times
<1> DEFINE total == c.total  times == c.times  real == c.real
<1>1. total \in Int /\ times \in Nat \ {0} /\ real \in Int
  BY DEF ContextOK
<1>2. PICK n \in Int : n = k * total
  BY <1>1
<1> HIDE DEF total, times, real
<1>3. PICK a \in Int : a = n + times - 1
  BY <1>1, <1>2
<1>4. PICK q \in Int : q = a \div times /\ times * q <= n + times - 1 /\ n + times - 1 < times * q + times
  BY <1>1, <1>3, Quotient
<1>5. \/ w = q - real
      \/ w = q - real + 1 /\ n % times = 0
  BY <1>2, <1>3, <1>4 DEF WantVol, Ceil, total, times, real
<1>6. n % times = 0 => times * q = n
  <2> SUFFICES ASSUME n % times = 0 PROVE times * q = n
    OBVIOUS
  <2>1. PICK m \in Int : m = n \div times
    BY <1>1, <1>2
  <2>2. n = times * m
    BY <1>1, <1>2, <2>1
  <2>3. times * q < times * m + times /\ times * m < times * q + times
    BY <1>1, <1>2, <1>4, <2>2
  <2>4. q <= m /\ m <= q
    BY <1>1, <2>1, <2>3, FewerMultiples
  <2> QED
    BY <2>1, <2>2, <2>4
<1>7. w \in Int /\ (real + w = q \/ (real + w = q + 1 /\ n % times = 0))
  BY <1>1, <1>4, <1>5
<1>8. PICK x \in Int : x = real + w
  BY <1>1, <1>7
<1>9. x * times <= n + times
  BY <1>1, <1>2, <1>4, <1>6, <1>7, <1>8
<1> QED
  BY <1>2, <1>7, <1>8, <1>9 DEF total, times, real

(* A slot that passes changes no volume. *)
LEMMA SlotPassed ==
  ASSUME NEW c, ContextOK(c)
  PROVE  /\ ContextOK(NextSlot(c)) /\ NextSlot(c).real = c.real /\ NextSlot(c).slots = c.slots + 1
         /\ (NextSlot(c).made <=> c.made) /\ NextSlot(c).total = c.total
<1>1. PICK d : d = NextSlot(c)
  OBVIOUS
<1>2. /\ DOMAIN d = DOMAIN c /\ d.slots = c.slots + 1 /\ d.real = c.real /\ (d.made <=> c.made)
      /\ d.made = c.made /\ d.total = c.total /\ d.gap = c.gap /\ d.times = c.times
  BY <1>1 DEF NextSlot, ContextOK, NoContext
<1>3. ContextOK(d)
  <2>1. d.slots \in Nat
    BY <1>2 DEF ContextOK
  <2> QED
    BY <1>2, <2>1, Zenon DEF ContextOK
<1> QED
  BY <1>1, <1>2, <1>3

(* A slice changes nothing but the volume. *)
LEMMA VolumeTaken ==
  ASSUME NEW c, ContextOK(c), NEW v \in Int, NEW d, d = [c EXCEPT !.real = @ + v]
  PROVE  ContextOK(d) /\ d.real = c.real + v /\ (d.made <=> c.made) /\ d.total = c.total
<1>1. /\ DOMAIN d = DOMAIN c /\ d.slots = c.slots /\ d.real = c.real + v /\ (d.made <=> c.made)
      /\ d.total = c.total /\ d.gap = c.gap /\ d.times = c.times
  BY DEF ContextOK, NoContext
<1>2. ContextOK(d)
  BY <1>1 DEF ContextOK
<1> QED
  BY <1>1, <1>2

(* What the check of an order does to the order, its context and the slices *)
CheckedContext(c, d, v) ==
  \/ d \in {c, NextSlot(c)} /\ v = 0
  \/ /\ d = [NextSlot(c) EXCEPT !.real = @ + v]
     /\ v \in Nat \ {0} /\ v <= c.total - c.real
     /\ \E w \in WantVol(c, c.slots + 1) : v <= w

(* DoCheck is one of those. *)
LEMMA CheckParts ==
  ASSUME Lots, DoCheck
  PROVE  \E i \in Ids, v \in Nat :
           /\ i = timer.at /\ contexts[i].made
           /\ DOMAIN contexts' = Ids /\ CheckedContext(contexts[i], contexts'[i], v)
           /\ \A j \in Ids \ {i} : contexts'[j] = contexts[j]
           /\ orders' = orders \/ orders' = [orders EXCEPT ![i].status = "End"]
           /\ timer' \in [todo: SUBSET Ids, at: {NoId}, events: Seq(Slices)]
           /\ timer'.events = IF v = 0 THEN timer.events
                              ELSE Append(timer.events, [id |-> i, volume |-> v])
           /\ UNCHANGED <<moment, requests, inserting, placed>>
<1>0. /\ timer \in [todo: SUBSET Ids, at: Ids \cup {NoId}, events: Seq(Slices)]
      /\ DOMAIN contexts = Ids
  BY DEF Lots, LotTypes
<1>1. PICK i \in Ids : i = timer.at /\ contexts[i].made
  BY <1>0 DEF DoCheck
<1>2. PICK c : c = contexts[i]
  OBVIOUS
<1>3. ContextOK(c)
  BY <1>2 DEF Lots, LotTypes
<1>4. UNCHANGED <<moment, requests, inserting, placed>>
  BY DEF DoCheck
<1>5. timer.events \in Seq(Slices) /\ timer.todo \subseteq Ids
  BY <1>0
<1>6. ASSUME timer' = [timer EXCEPT !.at = NoId]
      PROVE  timer' \in [todo: SUBSET Ids, at: {NoId}, events: Seq(Slices)] /\ timer'.events = timer.events
  BY <1>0, <1>6
<1>7. ASSUME NEW d, contexts' = [contexts EXCEPT ![i] = d]
      PROVE  DOMAIN contexts' = Ids /\ contexts'[i] = d /\ \A j \in Ids \ {i} : contexts'[j] = contexts[j]
  BY <1>0, <1>7
<1>8. \/ orders' = [orders EXCEPT ![i].status = "End"] /\ timer' = [timer EXCEPT !.at = NoId] /\ contexts' = contexts
      \/ orders' = orders /\ NoSlice(i, NextSlot(c))
      \/ orders' = orders /\ NoSlice(i, c)
      \/ /\ orders' = orders /\ c.total - c.real > 0
         /\ \E w \in WantVol(c, c.slots + 1) : Slice(i, NextSlot(c), Min({w, c.total - c.real}))
  <2>1. c.total - c.real \in Int
    BY <1>3 DEF ContextOK
  <2>2. \/ orders' = [orders EXCEPT ![i].status = "End"] /\ timer' = [timer EXCEPT !.at = NoId] /\ contexts' = contexts
        \/ orders' = orders /\ NoSlice(i, NextSlot(c))
        \/ orders' = orders /\ NoSlice(i, c)
        \/ /\ orders' = orders /\ ~(c.total - c.real <= 0)
           /\ \E w \in WantVol(c, c.slots + 1) : Slice(i, NextSlot(c), Min({w, c.total - c.real}))
    BY <1>1, <1>2, Zenon DEF DoCheck
  <2>3. ~(c.total - c.real <= 0) => c.total - c.real > 0
    BY <2>1
  <2> QED
    BY <2>2, <2>3
<1>9. CASE orders' = [orders EXCEPT ![i].status = "End"] /\ timer' = [timer EXCEPT !.at = NoId] /\ contexts' = contexts
  BY <1>0, <1>1, <1>2, <1>4, <1>6, <1>9 DEF CheckedContext
<1>10. CASE orders' = orders /\ NoSlice(i, c)
  BY <1>1, <1>2, <1>4, <1>6, <1>7, <1>10 DEF CheckedContext, NoSlice
<1>11. CASE orders' = orders /\ NoSlice(i, NextSlot(c))
  BY <1>1, <1>2, <1>4, <1>6, <1>7, <1>11 DEF CheckedContext, NoSlice
<1>12. ASSUME orders' = orders, c.total - c.real > 0,
              NEW w \in WantVol(c, c.slots + 1), Slice(i, NextSlot(c), Min({w, c.total - c.real}))
       PROVE  \E v \in Nat :
           /\ CheckedContext(c, contexts'[i], v)
           /\ DOMAIN contexts' = Ids
           /\ \A j \in Ids \ {i} : contexts'[j] = contexts[j]
           /\ timer' \in [todo: SUBSET Ids, at: {NoId}, events: Seq(Slices)]
           /\ timer'.events = IF v = 0 THEN timer.events
                              ELSE Append(timer.events, [id |-> i, volume |-> v])
  <2>1. c.slots + 1 \in Nat /\ c.total - c.real \in Int
    BY <1>3 DEF ContextOK
  <2>2. w \in Int
    BY <1>3, <1>12, <2>1, WantedVolume
  <2>3. PICK v : v = Min({w, c.total - c.real})
    OBVIOUS
  <2>4. v = IF w <= c.total - c.real THEN w ELSE c.total - c.real
    BY <2>1, <2>2, <2>3, OfTwo
  <2>5. PICK x : x = NextSlot(c)
    OBVIOUS
  <2>6. IF v > 0 THEN Decide(i, x, v) ELSE NoSlice(i, x)
    BY <1>12, <2>3, <2>5 DEF Slice
  <2>7. CASE v <= 0
    <3>1. NoSlice(i, x)
      BY <2>1, <2>2, <2>4, <2>6, <2>7
    <3>2. CheckedContext(c, x, 0)
      BY <2>5 DEF CheckedContext
    <3> QED
      BY <1>6, <1>7, <3>1, <3>2 DEF NoSlice
  <2>8. CASE v > 0
    <3>1. PICK d : d = [x EXCEPT !.real = @ + v]
      OBVIOUS
    <3>2. contexts' = [contexts EXCEPT ![i] = d]
      BY <2>6, <2>8, <3>1 DEF Decide
    <3>3. v \in Nat \ {0} /\ v <= c.total - c.real /\ v <= w
      BY <2>1, <2>2, <2>4, <2>8
    <3>4. CheckedContext(c, d, v)
      BY <1>12, <2>5, <3>1, <3>3 DEF CheckedContext
    <3>5. PICK e \in Slices : e = [id |-> i, volume |-> v]
      BY <3>3 DEF Slices
    <3>6. PICK t \in Seq(Slices) : t = Append(timer.events, e)
      <4>1. PICK s \in Seq(Slices) : s = timer.events
        BY <1>5
      <4>2. Append(s, e) \in Seq(Slices)
        OBVIOUS
      <4> QED
        BY <4>1, <4>2
    <3>7. timer' = [timer EXCEPT !.at = NoId, !.events = t]
      BY <2>6, <2>8, <3>5, <3>6 DEF Decide
    <3>8. timer' \in [todo: SUBSET Ids, at: {NoId}, events: Seq(Slices)] /\ timer'.events = t
      BY <1>0, <3>7
    <3> QED
      BY <1>7, <3>2, <3>3, <3>4, <3>5, <3>6, <3>8
  <2> QED
    BY <2>1, <2>2, <2>4, <2>7, <2>8
<1>13. CASE /\ orders' = orders /\ c.total - c.real > 0
            /\ \E w \in WantVol(c, c.slots + 1) : Slice(i, NextSlot(c), Min({w, c.total - c.real}))
  BY <1>1, <1>2, <1>4, <1>12, <1>13
<1> QED
  BY <1>8, <1>9, <1>10, <1>11, <1>13

(* A slice is counted as done when it is decided on. *)
LEMMA CheckLots ==
  ASSUME Lots, DoCheck
  PROVE  Lots'
<1>0. LotTypes /\ InsertingOK /\ AtWork /\ \A j \in Ids : LotsOf(j)
  BY DEF Lots
<1>1. PICK i \in Ids, v \in Nat :
           /\ i = timer.at /\ contexts[i].made
           /\ DOMAIN contexts' = Ids /\ CheckedContext(contexts[i], contexts'[i], v)
           /\ \A j \in Ids \ {i} : contexts'[j] = contexts[j]
           /\ orders' = orders \/ orders' = [orders EXCEPT ![i].status = "End"]
           /\ timer' \in [todo: SUBSET Ids, at: {NoId}, events: Seq(Slices)]
           /\ timer'.events = IF v = 0 THEN timer.events
                              ELSE Append(timer.events, [id |-> i, volume |-> v])
           /\ UNCHANGED <<moment, requests, inserting, placed>>
  BY CheckParts
<1>2. PICK c, d : c = contexts[i] /\ d = contexts'[i]
  OBVIOUS
<1>3. ContextOK(c) /\ c.made /\ TakenUp(i) /\ LotsOf(i) /\ CheckedContext(c, d, v)
  BY <1>0, <1>1, <1>2, NoIdAssumption DEF LotTypes, AtWork
<1>4. /\ ContextOK(d) /\ d.made /\ d.total = c.total /\ d.real = c.real + v
      /\ d.real <= d.total
  <2>1. c.real \in Int /\ c.total \in Int /\ c.real <= c.total
    BY <1>2, <1>3 DEF ContextOK, LotsOf
  <2>2. PICK x : x = NextSlot(c)
    OBVIOUS
  <2>3. /\ ContextOK(x) /\ x.real = c.real /\ (x.made <=> c.made) /\ x.total = c.total
    BY <1>3, <2>2, SlotPassed
  <2>4. PICK y : y = [x EXCEPT !.real = @ + v]
    OBVIOUS
  <2>5. /\ ContextOK(y) /\ y.real = x.real + v /\ (y.made <=> x.made) /\ y.total = x.total
    BY <2>3, <2>4, VolumeTaken
  <2>6. \/ d = c /\ v = 0
        \/ d = x /\ v = 0
        \/ d = y /\ v <= c.total - c.real
    BY <1>3, <2>2, <2>4 DEF CheckedContext
  <2>7. c.made
    BY <1>3
  <2>8. CASE d = y /\ v <= c.total - c.real
    BY <2>1, <2>3, <2>5, <2>7, <2>8
  <2>9. CASE d \in {c, x} /\ v = 0
    <3>1. ContextOK(c)
      BY <1>3
    <3> QED
      BY <2>1, <2>3, <2>7, <2>9, <3>1
  <2> QED
    BY <2>6, <2>8, <2>9
<1>5. contexts'[i] = d
  BY <1>2
<1>6. /\ orders' \in [Ids -> [status: Live \cup Ended \cup {"none"}, remain: Int]]
      /\ \A j \in Ids : orders'[j].remain = orders[j].remain
      /\ \A j \in Ids \ {i} : orders'[j] = orders[j]
      /\ orders'[i] = orders[i] \/ orders'[i].status = "End"
  <2>1. orders \in [Ids -> [status: Live \cup Ended \cup {"none"}, remain: Int]]
    BY <1>0 DEF LotTypes
  <2>2. CASE orders' = orders
    BY <2>1, <2>2
  <2>3. CASE orders' = [orders EXCEPT ![i].status = "End"]
    BY <2>1, <2>3 DEF Ended
  <2> QED
    BY <1>1, <2>2, <2>3
<1>7. PICK s, t : s = timer.events /\ t = timer'.events
  OBVIOUS
<1>8. s \in Seq(Slices) /\ t = IF v = 0 THEN s ELSE Append(s, [id |-> i, volume |-> v])
  BY <1>0, <1>1, <1>7 DEF LotTypes
<1>9. /\ t \in Seq(Slices)
      /\ \A j : Volume(t, j) = Volume(s, j) + (IF j = i THEN v ELSE 0)
      /\ \A j : Volume(s, j) \in Int
      /\ \A k \in DOMAIN t : t[k].id = i \/ (k \in DOMAIN s /\ t[k] = s[k])
  <2>1. \A j : Volume(s, j) \in Int
    BY <1>8, SliceVolumes
  <2>2. CASE v = 0
    BY <1>8, <2>1, <2>2
  <2>3. CASE v # 0
    <3>1. PICK e : e = [id |-> i, volume |-> v]
      OBVIOUS
    <3>2. e \in Slices /\ e.id = i /\ e.volume = v
      BY <2>3, <3>1 DEF Slices
    <3>3. t = Append(s, e)
      BY <1>8, <2>3, <3>1
    <3>4. t \in Seq(Slices) /\ \A j : Volume(t, j) = Volume(s, j) + (IF e.id = j THEN e.volume ELSE 0)
      BY <1>8, <3>2, <3>3, AppendedVolume
    <3>5. \A k \in DOMAIN t : t[k] = e \/ (k \in DOMAIN s /\ t[k] = s[k])
      BY <1>8, <3>2, <3>3
    <3> QED
      BY <2>1, <3>2, <3>4, <3>5
  <2> QED
    BY <2>2, <2>3
<1>10. LotTypes'
  <2>1. \A j \in Ids : ContextOK(contexts'[j])
    BY <1>0, <1>1, <1>4, <1>5 DEF LotTypes
  <2> QED
    BY <1>0, <1>1, <1>6, <2>1 DEF LotTypes
<1>11. \A j \in Ids : TakenUp(j) => TakenUp(j)'
  BY <1>6 DEF TakenUp
<1>12. InsertingOK'
  <2>1. \A j \in Ids : orders[j].status # "none" => orders'[j].status # "none"
    BY <1>6
  <2> QED
    BY <1>0, <1>1, <2>1 DEF InsertingOK
<1>13. AtWork'
  <2>1. timer'.at = NoId
    BY <1>1
  <2>2. \A k \in DOMAIN s : s[k].id \in Ids
    BY <1>0, <1>7, SliceIds DEF LotTypes
  <2>3. \A k \in DOMAIN t : contexts'[t[k].id].made /\ TakenUp(t[k].id)'
    <3> SUFFICES ASSUME NEW k \in DOMAIN t PROVE contexts'[t[k].id].made /\ TakenUp(t[k].id)'
      OBVIOUS
    <3>1. CASE t[k].id = i
      BY <1>3, <1>4, <1>5, <1>11, <3>1
    <3>2. CASE k \in DOMAIN s /\ t[k] = s[k] /\ t[k].id # i
      <4>1. PICK j \in Ids : j = s[k].id
        BY <2>2, <3>2
      <4>2. contexts[j].made /\ TakenUp(j)
        BY <1>0, <1>7, <3>2, <4>1 DEF AtWork
      <4> QED
        BY <1>1, <1>11, <3>2, <4>1, <4>2
    <3> QED
      BY <1>9, <3>1, <3>2
  <2> QED
    BY <1>7, <2>1, <2>3 DEF AtWork, TakenUp
<1>14. ASSUME NEW j \in Ids PROVE LotsOf(j)'
  <2>1. LotsOf(j)
    BY <1>0
  <2>2. CASE j # i
    <3>1. Volume(t, j) = Volume(s, j)
      BY <1>9, <2>2
    <3> QED
      BY <1>1, <1>6, <1>7, <2>1, <2>2, <3>1 DEF LotsOf, TakenUp
  <2>3. CASE j = i
    <3>1. placed[i] \in Int /\ c.real \in Int /\ Volume(s, i) \in Int
      BY <1>0, <1>3, <1>9 DEF LotTypes, ContextOK
    <3>2. /\ orders[i].status \notin {"none", "Avoid"} /\ c.real = placed[i] + Volume(s, i)
          /\ orders[i].remain = c.total - placed[i]
      BY <1>2, <1>3, <1>7 DEF LotsOf, TakenUp
    <3>3. d.real = placed[i] + Volume(t, i)
      BY <1>4, <1>9, <3>1, <3>2
    <3>4. orders'[i].status \notin {"none", "Avoid"} /\ orders'[i].remain = d.total - placed[i]
      BY <1>4, <1>6, <3>2
    <3> QED
      BY <1>1, <1>4, <1>5, <1>7, <2>3, <3>3, <3>4 DEF LotsOf
  <2> QED
    BY <2>2, <2>3
<1> QED
  BY <1>10, <1>12, <1>13, <1>14 DEF Lots

(* It is placed, or taken back from what is done. *)
LEMMA PlaceLots ==
  ASSUME Lots, PlaceSlice
  PROVE  Lots'
<1>0. LotTypes /\ InsertingOK /\ AtWork /\ \A j \in Ids : LotsOf(j)
  BY DEF Lots
<1>1. PICK s, t, e : s = timer.events /\ t = Tail(timer.events) /\ e = Head(timer.events)
  OBVIOUS
<1>2. /\ s \in Seq(Slices) /\ s # << >> /\ t = Tail(s) /\ e = Head(s)
      /\ timer' = [timer EXCEPT !.events = t] /\ timer.at = NoId
      /\ UNCHANGED <<moment, requests, inserting>>
  BY <1>0, <1>1 DEF LotTypes, PlaceSlice
<1>3. /\ t \in Seq(Slices) /\ e \in Slices
      /\ \A j : Volume(s, j) = Volume(t, j) + (IF e.id = j THEN e.volume ELSE 0)
  BY <1>2, TailVolume
<1>4. PICK i \in Ids, v \in Nat \ {0} : i = e.id /\ v = e.volume
  BY <1>3 DEF Slices
<1>5. \A j : Volume(t, j) \in Int
  BY <1>3, SliceVolumes
<1>6. contexts[i].made /\ TakenUp(i)
  <2>1. 1 \in DOMAIN s /\ s[1] = e
    BY <1>2
  <2> QED
    BY <1>0, <1>1, <1>4, <2>1 DEF AtWork
<1>7. PICK c : c = contexts[i]
  OBVIOUS
<1>8. /\ ContextOK(c) /\ c.total \in Int /\ c.real \in Int /\ placed[i] \in Nat
      /\ orders[i].status \notin {"none", "Avoid"} /\ orders[i].remain = c.total - placed[i]
      /\ c.real = placed[i] + v + Volume(t, i) /\ c.real <= c.total
  <2>1. ContextOK(c) /\ placed[i] \in Nat
    BY <1>0, <1>7 DEF LotTypes
  <2>2. LotsOf(i) /\ contexts[i].made
    BY <1>0, <1>6
  <2>3. Volume(s, i) = Volume(t, i) + v
    BY <1>3, <1>4
  <2>4. Volume(t, i) \in Int /\ c.total \in Int /\ c.real \in Int
    BY <1>5, <2>1 DEF ContextOK
  <2>5. /\ orders[i].status \notin {"none", "Avoid"} /\ c.real = placed[i] + Volume(s, i)
        /\ c.real <= c.total /\ orders[i].remain = c.total - placed[i]
    BY <1>1, <1>6, <1>7, <2>2 DEF LotsOf, TakenUp
  <2> QED
    BY <2>1, <2>3, <2>4, <2>5
<1>9. /\ timer' \in [todo: SUBSET Ids, at: Ids \cup {NoId}, events: Seq(Slices)]
      /\ timer'.events = t /\ timer'.at = NoId
  BY <1>0, <1>2, <1>3 DEF LotTypes
<1>10. \A k \in DOMAIN t : \E l \in DOMAIN s : t[k] = s[l]
  BY <1>2
<1>11. \A j : j # i => Volume(t, j) = Volume(s, j)
  BY <1>3, <1>4, <1>5
<1>12. CASE contexts[i].product \in latestTick
  <2>1. PICK o : o = [status |-> IF orders[i].remain - v <= 0 THEN "End" ELSE "Executing",
                      remain |-> orders[i].remain - v]
    OBVIOUS
  <2>2. /\ orders' = [orders EXCEPT ![i] = o] /\ placed' = [placed EXCEPT ![i] = @ + v]
        /\ contexts' = contexts
    BY <1>1, <1>4, <1>12, <2>1 DEF PlaceSlice
  <2>3. /\ o \in [status: {"End", "Executing"}, remain: Int]
        /\ o.remain = c.total - (placed[i] + v)
    BY <1>8, <2>1
  <2>4. /\ orders' \in [Ids -> [status: Live \cup Ended \cup {"none"}, remain: Int]]
        /\ orders'[i] = o /\ \A j \in Ids \ {i} : orders'[j] = orders[j]
    BY <1>0, <2>2, <2>3 DEF LotTypes, Live, Ended
  <2>5. /\ placed' \in [Ids -> Nat] /\ placed'[i] = placed[i] + v
        /\ \A j \in Ids \ {i} : placed'[j] = placed[j]
    BY <1>0, <2>2 DEF LotTypes
  <2>6. LotTypes'
    BY <1>0, <1>2, <1>9, <2>2, <2>4, <2>5 DEF LotTypes
  <2>7. \A j \in Ids : TakenUp(j) => TakenUp(j)'
    BY <2>3, <2>4 DEF TakenUp
  <2>8. InsertingOK'
    <3>1. \A j \in Ids : orders[j].status # "none" => orders'[j].status # "none"
      BY <2>3, <2>4
    <3> QED
      BY <1>0, <1>2, <3>1 DEF InsertingOK
  <2>9. AtWork'
    <3>1. \A l \in DOMAIN s : s[l].id \in Ids /\ contexts[s[l].id].made /\ TakenUp(s[l].id)
      BY <1>0, <1>1, SliceIds DEF LotTypes, AtWork
    <3> QED
      BY <1>9, <1>10, <2>2, <2>7, <3>1 DEF AtWork, TakenUp
  <2>10. ASSUME NEW j \in Ids PROVE LotsOf(j)'
    <3>1. LotsOf(j)
      BY <1>0
    <3>2. CASE j # i
      BY <1>1, <1>2, <1>9, <1>11, <2>2, <2>4, <2>5, <3>1, <3>2 DEF LotsOf, TakenUp
    <3>3. CASE j = i
      <4>1. c.real = placed'[i] + Volume(t, i)
        BY <1>5, <1>8, <2>5
      <4>2. orders'[i].remain = c.total - placed'[i] /\ orders'[i].status # "none"
        BY <2>3, <2>4, <2>5
      <4> QED
        BY <1>6, <1>7, <1>8, <1>9, <2>2, <3>3, <4>1, <4>2 DEF LotsOf
    <3> QED
      BY <3>2, <3>3
  <2> QED
    BY <2>6, <2>8, <2>9, <2>10 DEF Lots
<1>13. CASE contexts[i].product \notin latestTick
  <2>1. PICK d : d = [c EXCEPT !.real = @ + (-v)]
    OBVIOUS
  <2>2. /\ contexts' = [contexts EXCEPT ![i].real = @ - v]
        /\ orders' = orders /\ placed' = placed
    BY <1>1, <1>4, <1>13 DEF PlaceSlice
  <2>3. ContextOK(d) /\ d.real = c.real - v /\ (d.made <=> c.made) /\ d.total = c.total
    BY <1>8, <2>1, VolumeTaken
  <2>4. /\ DOMAIN contexts' = Ids /\ contexts'[i] = d
        /\ \A j \in Ids \ {i} : contexts'[j] = contexts[j]
    <3>1. d = [c EXCEPT !.real = @ - v]
      BY <1>8, <2>1
    <3> QED
      BY <1>0, <1>7, <2>2, <3>1 DEF LotTypes
  <2>5. \A j \in Ids : ContextOK(contexts'[j]) /\ (contexts'[j].made <=> contexts[j].made)
    BY <1>0, <1>7, <2>3, <2>4 DEF LotTypes
  <2>6. LotTypes'
    BY <1>0, <1>2, <1>9, <2>2, <2>4, <2>5 DEF LotTypes
  <2>7. InsertingOK'
    BY <1>0, <1>2, <2>2 DEF InsertingOK
  <2>8. AtWork'
    <3>1. \A l \in DOMAIN s : s[l].id \in Ids /\ contexts[s[l].id].made /\ TakenUp(s[l].id)
      BY <1>0, <1>1, SliceIds DEF LotTypes, AtWork
    <3> QED
      BY <1>9, <1>10, <2>2, <2>5, <3>1 DEF AtWork, TakenUp
  <2>9. ASSUME NEW j \in Ids PROVE LotsOf(j)'
    <3>1. LotsOf(j)
      BY <1>0
    <3>2. CASE j # i
      BY <1>1, <1>2, <1>9, <1>11, <2>2, <2>4, <3>1, <3>2 DEF LotsOf, TakenUp
    <3>3. CASE j = i
      <4>1. d.real = placed[i] + Volume(t, i) /\ d.real <= d.total
        BY <1>5, <1>8, <2>3
      <4> QED
        BY <1>6, <1>7, <1>8, <1>9, <2>2, <2>3, <2>4, <3>3, <4>1 DEF LotsOf
    <3> QED
      BY <3>2, <3>3
  <2> QED
    BY <2>6, <2>7, <2>8, <2>9 DEF Lots
<1> QED
  BY <1>12, <1>13

(* Lots is inductive. *)
LEMMA NextLots == Lots /\ [Next]_vars => Lots'
<1> SUFFICES ASSUME Lots, [Next]_vars PROVE Lots'
  OBVIOUS
<1>1. CASE Next
  BY <1>1, KeepingSteps, InsertOrderLots, InsertContextLots, CancelOrderLots, CheckLots, PlaceLots
     DEF Next, Consumer, MainLoop
<1>2. CASE UNCHANGED vars
  BY <1>2, KeepingSteps
<1> QED
  BY <1>1, <1>2

(* What the context counts as done is what was placed and what waits to be, *)
(* what the order has left is the rest, and no more is done than there is:  *)
(* no slice is placed or taken back twice, however the consumer (insert and *)
(* cancel) and the rounds of OnPeriodCall (DoCheck, RollbackVolume) mix.    *)
THEOREM LotsKept == Spec => []EveryLotOnce
<1>1. Init => Lots
  BY InitLots
<1>2. Lots /\ [Next]_vars => Lots'
  BY NextLots
<1>3. Lots => EveryLotOnce
  BY PendingIsVolume DEF Lots, LotTypes, LotsOf, EveryLotOnce
<1> QED
  BY <1>1, <1>2, <1>3, PTL DEF Spec

-----------------------------------------------------------------------------
(* The slots of an order: the invariant *)
Due(c, k) == TradingSecond(c.product, c.part.start) + k * c.gap

OnTime(c) ==
  /\ InSections(c.product, c.part)
  /\ c.total >= 0
  /\ Reached(c.product, c.this, Due(c, c.slots))
  /\ Reached(c.product, c.next, Due(c, c.slots + 1))
  /\ c.real * c.times <= c.slots * c.total + c.times

Schedule ==
  /\ Lots
  /\ \A i \in Ids : contexts[i].made => OnTime(contexts[i])
  /\ inserting # NotInserting => OnTime(inserting.context)

(* The first slot begins with the order. *)
LEMMA StartTime ==
  ASSUME NEW p, NEW part, InSections(p, part)
  PROVE  /\ p \in DOMAIN SectionConfig /\ TradingSecond(p, part.start) \in Int
         /\ Reached(p, part.start, TradingSecond(p, part.start))
<1> DEFINE i == part.startNo
<1>1. PICK n \in Nat :
           /\ DOMAIN Sections(p) = 1 .. n
           /\ \A k \in 1 .. n :
                /\ Sections(p)[k].begin \in Times /\ Sections(p)[k].end \in Times
                /\ Sections(p)[k].end < Never
                /\ Sections(p)[k].begin < Sections(p)[k].end
           /\ \A k, l \in 1 .. n : k < l => Sections(p)[k].end <= Sections(p)[l].begin
  BY SectionFacts DEF InSections
<1>2. /\ p \in DOMAIN SectionConfig /\ i \in DOMAIN Sections(p) /\ part.start \in Times
      /\ Sections(p)[i].begin <= part.start /\ part.start < Sections(p)[i].end
  BY DEF InSections
<1>3. part.start \in Nat /\ Sections(p)[i].end \in Nat /\ Sections(p)[i].end < Never
  BY <1>1, <1>2 DEF Times
<1> HIDE DEF i
<1>4. InSection(p, i, part.start)
  BY <1>2, <1>3 DEF InSection
<1>5. part.start # Never
  BY <1>2, <1>3 DEF Never
<1>6. TradingSecond(p, part.start) =
        Before(p, i) + (inner_HHMMSS2Second(part.start) - inner_HHMMSS2Second(Sections(p)[i].begin))
  BY <1>4, TradingAt
<1>7. TradingSecond(p, part.start) \in Int
  <2>1. inner_HHMMSS2Second(part.start) \in Nat /\ inner_HHMMSS2Second(Sections(p)[i].begin) \in Nat
    BY <1>2, SecondsRise, LengthsPositive
  <2>2. Before(p, i) \in Int
    BY <1>2, BeforeNext
  <2> QED
    BY <1>6, <2>1, <2>2
<1> QED
  BY <1>2, <1>4, <1>5, <1>7 DEF Reached

(* A new context has its first two slots. *)
LEMMA NewOnTime ==
  ASSUME LotTypes, NEW r \in Requests, Valid(r)
  PROVE  OnTime(NewContext(r))
<1>1. PICK c : c = NewContext(r)
  OBVIOUS
<1>2. /\ ContextOK(c) /\ c.real = 0 /\ c.slots = 0 /\ c.total \in Nat \ {0}
      /\ c.part = Part(r) /\ InSections(r.product, Part(r))
  BY <1>1, ContextMade
<1>3. c.product = r.product /\ c.this = c.part.start /\ c.next = getStandardTime(c.product, c.part.start, c.gap)
  BY <1>1 DEF NewContext
<1>4. PICK p, part : p = c.product /\ part = c.part /\ InSections(p, part)
  BY <1>2, <1>3
<1>5. PICK gap \in Nat \ {0}, d \in Int :
           /\ gap = c.gap /\ d = TradingSecond(p, part.start)
           /\ p \in DOMAIN SectionConfig /\ Reached(p, part.start, d)
  BY <1>2, <1>4, StartTime DEF ContextOK
<1>6. Reached(p, getStandardTime(p, part.start, gap), d + gap)
  BY <1>5, StandardTime
<1>7. Due(c, c.slots) = d /\ Due(c, c.slots + 1) = d + gap
  BY <1>2, <1>4, <1>5 DEF Due
<1>8. c.real * c.times <= c.slots * c.total + c.times
  BY <1>2 DEF ContextOK
<1>9. OnTime(c)
  BY <1>2, <1>3, <1>4, <1>6, <1>7, <1>8, <1>5 DEF OnTime
<1> QED
  BY <1>1, <1>9

(* With each slot the next one comes a gap later. *)
LEMMA SlotOnTime ==
  ASSUME NEW c, ContextOK(c), OnTime(c)
  PROVE  /\ OnTime(NextSlot(c))
         /\ NextSlot(c).total = c.total /\ NextSlot(c).times = c.times
<1>1. PICK x : x = NextSlot(c)
  OBVIOUS
<1>2. /\ x.product = c.product /\ x.part = c.part /\ x.gap = c.gap /\ x.times = c.times
      /\ x.total = c.total /\ x.real = c.real /\ x.slots = c.slots + 1
      /\ x.this = c.next /\ x.next = getStandardTime(c.product, c.next, c.gap)
  BY <1>1 DEF NextSlot, ContextOK, NoContext
<1>3. PICK p \in DOMAIN SectionConfig, start \in Int, gap \in Nat \ {0}, k \in Nat :
           p = c.product /\ start = TradingSecond(p, c.part.start) /\ gap = c.gap /\ k = c.slots
  BY StartTime DEF OnTime, ContextOK
<1>4. PICK d \in Int : d = start + (k + 1) * gap
  BY <1>3
<1>5. Reached(p, c.next, d)
  BY <1>3, <1>4 DEF OnTime, Due
<1>6. Reached(p, getStandardTime(p, c.next, gap), d + gap)
  BY <1>3, <1>5, StandardTime
<1>7. d + gap = start + (k + 2) * gap
  <2>1. PICK q \in Int : q = k * gap
    OBVIOUS
  <2>2. (k + 1) * gap = q + gap
    BY <2>1
  <2>3. (k + 2) * gap = q + gap + gap
    BY <2>1
  <2> QED
    BY <1>4, <2>1, <2>2, <2>3
<1>8. Due(x, x.slots) = d
  BY <1>2, <1>3, <1>4 DEF Due
<1>9. Due(x, x.slots + 1) = d + gap
  <2>1. x.slots + 1 = k + 2
    BY <1>2, <1>3
  <2> QED
    BY <1>2, <1>3, <1>7, <2>1 DEF Due
<1>10. x.real * x.times <= x.slots * x.total + x.times
  <2>1. PICK real \in Int, times \in Int, total \in Nat :
             real = c.real /\ times = c.times /\ total = c.total
    BY DEF OnTime, ContextOK
  <2>2. real * times <= k * total + times
    BY <1>3, <2>1 DEF OnTime
  <2>3. (k + 1) * total = k * total + total
    BY <1>3, <2>1
  <2>4. real * times <= (k + 1) * total + times
    BY <1>3, <2>1, <2>2, <2>3
  <2> QED
    BY <1>2, <1>3, <2>1, <2>4
<1>11. OnTime(x)
  BY <1>2, <1>3, <1>5, <1>6, <1>8, <1>9, <1>10 DEF OnTime
<1> QED
  BY <1>1, <1>2, <1>11

(* The volume done has no effect on the slots. *)
LEMMA VolumeOnTime ==
  ASSUME NEW c, ContextOK(c), OnTime(c), NEW v \in Int, NEW d, d = [c EXCEPT !.real = @ + v],
         (c.real + v) * c.times <= c.slots * c.total + c.times
  PROVE  OnTime(d)
<1>1. /\ d.product = c.product /\ d.part = c.part /\ d.gap = c.gap /\ d.times = c.times
      /\ d.total = c.total /\ d.real = c.real + v /\ d.slots = c.slots
      /\ d.this = c.this /\ d.next = c.next
  BY DEF ContextOK, NoContext
<1>2. Due(d, d.slots) = Due(c, c.slots) /\ Due(d, d.slots + 1) = Due(c, c.slots + 1)
  BY <1>1 DEF Due
<1> QED
  BY <1>1, <1>2 DEF OnTime

(* A check keeps a context on time: it goes on by a slot when it places a *)
(* slice.                                                                 *)
LEMMA CheckedOnTime ==
  ASSUME NEW c, ContextOK(c), OnTime(c), NEW d, NEW v \in Nat, CheckedContext(c, d, v)
  PROVE  OnTime(d)
<1>1. PICK x : x = NextSlot(c)
  OBVIOUS
<1>2. /\ ContextOK(x) /\ OnTime(x) /\ x.real = c.real /\ x.slots = c.slots + 1
      /\ x.total = c.total /\ x.times = c.times
  BY <1>1, SlotPassed, SlotOnTime
<1>3. CASE d \in {c, x}
  BY <1>2, <1>3
<1>4. CASE d = [x EXCEPT !.real = @ + v] /\ \E w \in WantVol(c, c.slots + 1) : v <= w
  <2>1. PICK w \in WantVol(c, c.slots + 1) : v <= w
    BY <1>4
  <2>2. PICK k \in Nat : k = c.slots + 1
    BY DEF ContextOK
  <2>3. w \in Int /\ (c.real + w) * c.times <= k * c.total + c.times
    BY <2>1, <2>2, WantedVolume
  <2>4. PICK real \in Int, times \in Nat, total \in Int :
             real = c.real /\ times = c.times /\ total = c.total
    BY DEF ContextOK
  <2>5. (real + v) * times <= (real + w) * times
    <3>1. PICK z \in Nat : w = v + z
      BY <2>1, <2>3
    <3>2. (real + w) * times = (real + v) * times + z * times
      BY <3>1
    <3>3. z * times >= 0
      OBVIOUS
    <3>4. z * times \in Int /\ (real + v) * times \in Int
      OBVIOUS
    <3> QED
      BY <3>2, <3>3, <3>4
  <2>6. (x.real + v) * x.times <= x.slots * x.total + x.times
    <3>1. PICK a \in Int, b \in Int, e \in Int :
               a = (real + v) * times /\ b = (real + w) * times /\ e = k * total + times
      BY <2>3
    <3>2. a <= b /\ b <= e
      BY <2>3, <2>4, <2>5, <3>1
    <3> QED
      BY <1>2, <2>2, <2>4, <3>1, <3>2
  <2> QED
    BY <1>2, <1>4, <2>6, VolumeOnTime
<1> QED
  BY <1>1, <1>3, <1>4 DEF CheckedContext

(* Schedule holds at the start, when no order has a context. *)
LEMMA InitSchedule == Init => Schedule
<1> SUFFICES ASSUME Init PROVE Schedule
  OBVIOUS
<1>1. Lots
  BY InitLots
<1>2. \A i \in Ids : ~contexts[i].made
  BY DEF Init, NoContext
<1>3. inserting = NotInserting
  BY DEF Init
<1> QED
  BY <1>1, <1>2, <1>3 DEF Schedule

(* Schedule is inductive, given Lots. *)
LEMMA NextSchedule ==
  ASSUME Schedule, [Next]_vars, Lots'
  PROVE  Schedule'
<1>0. LotTypes /\ InsertingOK /\ AtWork /\ \A j \in Ids : LotsOf(j)
  BY DEF Schedule, Lots
<1>1. CASE UNCHANGED <<contexts, inserting>>
  BY <1>1 DEF Schedule
<1>2. ASSUME NEW r \in Requests, InsertOrder(r) PROVE Schedule'
  <2>1. contexts' = contexts
    BY <1>2 DEF InsertOrder
  <2>2. ASSUME inserting' # NotInserting PROVE OnTime(inserting'.context)
    <3>1. Valid(r) /\ inserting'.context = NewContext(r)
      BY <1>2, <2>2 DEF InsertOrder
    <3> QED
      BY <1>0, <3>1, NewOnTime
  <2> QED
    BY <2>1, <2>2 DEF Schedule
<1>3. CASE InsertContext
  <2>1. inserting' = NotInserting /\ inserting.id \in Ids /\ inserting # NotInserting
    BY <1>0, <1>3 DEF InsertContext, InsertingOK
  <2>2. \A j \in Ids : contexts'[j] = contexts[j] \/ contexts'[j] = inserting.context
    BY <1>0, <1>3, <2>1 DEF InsertContext, LotTypes
  <2>3. \A j \in Ids : ~contexts'[j].made \/ OnTime(contexts'[j])
    BY <2>1, <2>2 DEF Schedule
  <2> QED
    BY <2>1, <2>3 DEF Schedule
<1>4. CASE DoCheck
  <2>1. PICK i \in Ids, v \in Nat :
           /\ i = timer.at /\ contexts[i].made
           /\ DOMAIN contexts' = Ids /\ CheckedContext(contexts[i], contexts'[i], v)
           /\ \A j \in Ids \ {i} : contexts'[j] = contexts[j]
           /\ UNCHANGED inserting
    BY <1>4, CheckParts DEF Schedule
  <2>2. OnTime(contexts'[i])
    <3>1. PICK c, d : c = contexts[i] /\ d = contexts'[i]
      OBVIOUS
    <3>2. ContextOK(c) /\ OnTime(c) /\ CheckedContext(c, d, v)
      BY <1>0, <2>1, <3>1 DEF LotTypes, Schedule
    <3>3. OnTime(d)
      BY <3>2, CheckedOnTime
    <3> QED
      BY <3>1, <3>3
  <2>3. \A j \in Ids : contexts'[j].made => OnTime(contexts'[j])
    BY <2>1, <2>2 DEF Schedule
  <2> QED
    BY <2>1, <2>3 DEF Schedule
<1>5. CASE PlaceSlice
  <2>1. PICK s, e : s = timer.events /\ e = Head(timer.events)
    OBVIOUS
  <2>2. s \in Seq(Slices) /\ s # << >> /\ inserting' = inserting
    BY <1>0, <1>5, <2>1 DEF LotTypes, PlaceSlice
  <2>3. PICK i \in Ids, v \in Nat \ {0} : i = e.id /\ v = e.volume
    <3>1. e \in Slices
      BY <2>1, <2>2, TailVolume
    <3> QED
      BY <3>1 DEF Slices
  <2>4. contexts[i].made
    <3>1. 1 \in DOMAIN s /\ s[1] = e
      BY <2>1, <2>2
    <3> QED
      BY <1>0, <2>1, <2>3, <3>1 DEF AtWork
  <2>5. PICK c : c = contexts[i]
    OBVIOUS
  <2>6. ContextOK(c) /\ OnTime(c)
    BY <1>0, <2>4, <2>5 DEF LotTypes, Schedule
  <2>7. CASE contexts' = contexts
    BY <2>2, <2>7 DEF Schedule
  <2>8. CASE contexts' = [contexts EXCEPT ![i].real = @ - v]
    <3>1. PICK d : d = [c EXCEPT !.real = @ + (-v)]
      OBVIOUS
    <3>2. d = [c EXCEPT !.real = @ - v]
      BY <2>6, <3>1 DEF ContextOK
    <3>3. contexts'[i] = d /\ \A j \in Ids \ {i} : contexts'[j] = contexts[j]
      BY <1>0, <2>5, <2>8, <3>2 DEF LotTypes
    <3>4. (c.real + (-v)) * c.times <= c.slots * c.total + c.times
      <4>1. PICK real \in Int, times \in Nat, b \in Int :
                 real = c.real /\ times = c.times /\ b = c.slots * c.total + c.times
        BY <2>6 DEF ContextOK
      <4>2. real * times <= b
        BY <2>6, <4>1 DEF OnTime
      <4>3. real * times = (real + (-v)) * times + v * times
        <5>1. PICK u \in Int : u = real + (-v)
          OBVIOUS
        <5>2. (u + v) * times = u * times + v * times
          OBVIOUS
        <5>3. u + v = real
          BY <5>1
        <5> QED
          BY <5>1, <5>2, <5>3
      <4>4. v * times >= 0
        OBVIOUS
      <4>5. v * times \in Int /\ (real + (-v)) * times \in Int
        OBVIOUS
      <4>6. (real + (-v)) * times <= b
        BY <4>2, <4>3, <4>4, <4>5
      <4> QED
        BY <4>1, <4>6
    <3>5. OnTime(d)
      BY <2>6, <3>1, <3>4, VolumeOnTime
    <3>6. \A j \in Ids : contexts'[j].made => OnTime(contexts'[j])
      BY <3>3, <3>5 DEF Schedule
    <3> QED
      BY <2>2, <3>6 DEF Schedule
  <2> QED
    BY <1>5, <2>1, <2>3, <2>7, <2>8 DEF PlaceSlice
<1>6. ASSUME \/ UNCHANGED vars \/ NextRound \/ (\E i \in Ids : Visit(i)) \/ VisitWithoutContext
             \/ ClockMoves \/ (\E p \in DOMAIN SectionConfig : on_market_data(p))
             \/ \E i \in Ids : CancelOrder(i)
      PROVE  UNCHANGED <<contexts, inserting>>
  BY <1>6 DEF vars, NextRound, Visit, VisitWithoutContext, ClockMoves, on_market_data, CancelOrder
<1> QED
  BY <1>1, <1>2, <1>3, <1>4, <1>5, <1>6 DEF Next, Consumer, MainLoop

(* The k-th slot of an order begins k - 1 gaps of trading after its start,  *)
(* breaks and midnight left out (getStandardTime), and no more than the     *)
(* share of the slots that have come is placed, up to one lot (DoCheck).    *)
THEOREM SlotsKept == Spec => []OnSchedule
<1>1. Init => Schedule
  BY InitSchedule
<1>2. Lots /\ [Next]_vars => Lots'
  BY NextLots
<1>3. Schedule /\ [Next]_vars => Schedule'
  BY <1>2, NextSchedule DEF Schedule
<1>4. Schedule => OnSchedule
  <2> SUFFICES ASSUME Schedule, NEW i \in Ids, contexts[i].made
               PROVE  LET c   == contexts[i]
                          due == TradingSecond(c.product, c.part.start) + c.slots * c.gap
                      IN /\ \A k \in DOMAIN timer.events : timer.events[k].volume > 0
                         /\ IF c.this = Never THEN due > TradingSecond(c.product, Never)
                            ELSE TradingSecond(c.product, c.this) = due
                         /\ c.real * c.times <= c.slots * c.total + c.times
    BY DEF OnSchedule
  <2>1. OnTime(contexts[i])
    BY DEF Schedule
  <2>2. \A k \in DOMAIN timer.events : timer.events[k].volume > 0
    <3>1. \A k \in DOMAIN timer.events : timer.events[k].volume \in Nat \ {0}
      BY SliceIds DEF Schedule, Lots, LotTypes
    <3> QED
      BY <3>1
  <2> QED
    BY <2>1, <2>2 DEF OnTime, Reached, Due
<1> QED
  BY <1>1, <1>3, <1>4, PTL DEF Spec

-----------------------------------------------------------------------------
(* Orders that nobody cancels are placed by their end *)

(* A later time has more trading before it. *)
LEMMA TradingRises ==
  ASSUME NEW p \in DOMAIN SectionConfig, NEW t \in Times, NEW u \in Times, t <= u
  PROVE  /\ TradingSecond(p, t) \in Int /\ TradingSecond(p, u) \in Int
         /\ TradingSecond(p, t) <= TradingSecond(p, u)
<1> DEFINE f == PartsBefore(p, t)
           g == PartsBefore(p, u)
<1>1. PICK n \in Nat :
           /\ DOMAIN Sections(p) = 1 .. n
           /\ \A i \in 1 .. n : Sections(p)[i].begin \in Times /\ Sections(p)[i].end \in Times
  BY SectionFacts
<1>2. ASSUME NEW i \in 1 .. n PROVE f[i] \in Int /\ g[i] \in Int /\ f[i] <= g[i]
  <2>1. PICK b \in Times, e \in Times : b = Sections(p)[i].begin /\ e = Sections(p)[i].end
    BY <1>1, <1>2
  <2>2. PICK v, w : v = Min({t, e}) /\ w = Min({u, e})
    OBVIOUS
  <2>3. t \in Nat /\ u \in Nat /\ e \in Nat
    BY <2>1 DEF Times
  <2>4. v \in Times /\ w \in Times /\ v <= w
    BY <2>1, <2>2, <2>3, OfTwo
  <2>5. PICK sv \in Nat, sw \in Nat, sb \in Nat :
             sv = inner_HHMMSS2Second(v) /\ sw = inner_HHMMSS2Second(w) /\ sb = inner_HHMMSS2Second(b)
    BY <2>1, <2>4, SecondsRise
  <2>6. sv <= sw
    <3>1. v \in Nat /\ w \in Nat
      BY <2>4 DEF Times
    <3>2. v < w => sv < sw
      BY <2>4, <2>5, SecondsRise
    <3>3. v = w => sv = sw
      BY <2>5
    <3> QED
      BY <2>4, <2>5, <3>1, <3>2, <3>3
  <2>7. f[i] = Max({0, sv - sb}) /\ g[i] = Max({0, sw - sb})
    BY <1>1, <1>2, <2>1, <2>2, <2>5 DEF PartsBefore
  <2>8. PICK x \in Int, y \in Int : x = sv - sb /\ y = sw - sb /\ x <= y
    BY <2>6
  <2>9. f[i] = (IF x > 0 THEN x ELSE 0) /\ g[i] = (IF y > 0 THEN y ELSE 0)
    BY <2>7, <2>8, AboveZero
  <2> QED
    BY <2>8, <2>9
<1>3. IsFiniteSet(1 .. n)
  BY FS_Interval
<1> HIDE DEF f, g
<1>4. Sum(f, 1 .. n) <= Sum(g, 1 .. n)
  BY <1>2, <1>3, OrderedSums
<1>5. Sum(f, 1 .. n) \in Int /\ Sum(g, 1 .. n) \in Int
  BY <1>2, <1>3, TakenSum
<1>6. TradingSecond(p, t) = Sum(f, 1 .. n) /\ TradingSecond(p, u) = Sum(g, 1 .. n)
  BY <1>1, TradingIsSum DEF f, g
<1> QED
  BY <1>4, <1>5, <1>6

(* getTotalSecond is the trading between the start and the end of an order. *)
LEMMA TradingOfPart ==
  ASSUME NEW p, NEW part, InSections(p, part)
  PROVE  /\ getTotalSecond(p, part) = TradingSecond(p, part.end) - TradingSecond(p, part.start)
         /\ TradingSecond(p, part.end) \in Int /\ TradingSecond(p, part.start) \in Int
<1>1. PICK n \in Nat :
           /\ DOMAIN Sections(p) = 1 .. n
           /\ \A k \in 1 .. n :
                /\ Sections(p)[k].begin \in Times /\ Sections(p)[k].end \in Times
                /\ Sections(p)[k].end < Never
                /\ Sections(p)[k].begin < Sections(p)[k].end
  BY SectionFacts DEF InSections
<1>2. PICK s \in 1 .. n, e \in 1 .. n : s = part.startNo /\ e = part.endNo /\ s <= e
  BY <1>1 DEF InSections
<1>3. PICK sb, se, eb, ee : /\ sb = inner_HHMMSS2Second(Sections(p)[s].begin)
                            /\ se = inner_HHMMSS2Second(Sections(p)[s].end)
                            /\ eb = inner_HHMMSS2Second(Sections(p)[e].begin)
                            /\ ee = inner_HHMMSS2Second(Sections(p)[e].end)
  OBVIOUS
<1>4. PICK from, to : from = inner_HHMMSS2Second(part.start) /\ to = inner_HHMMSS2Second(part.end)
  OBVIOUS
<1>5. p \in DOMAIN SectionConfig /\ InSection(p, s, part.start) /\ InSection(p, e, part.end)
  <2>1. \A x \in Times : x \in Nat
    BY DEF Times
  <2>2. /\ Sections(p)[s].begin \in Times /\ Sections(p)[s].end \in Times
        /\ Sections(p)[e].begin \in Times /\ Sections(p)[e].end \in Times
    BY <1>1
  <2> QED
    BY <1>1, <1>2, <2>1, <2>2 DEF InSections, InSection
<1>6. /\ sb \in Nat /\ se \in Nat /\ eb \in Nat /\ ee \in Nat /\ from \in Nat /\ to \in Nat
  <2>1. /\ Sections(p)[s].begin \in Times /\ Sections(p)[s].end \in Times
        /\ Sections(p)[e].begin \in Times /\ Sections(p)[e].end \in Times
        /\ part.start \in Times /\ part.end \in Times
    BY <1>1 DEF InSections
  <2> QED
    BY <1>3, <1>4, <2>1, SecondsRise
<1>7. /\ TradingSecond(p, part.start) = Before(p, s) + (from - sb)
      /\ TradingSecond(p, part.end) = Before(p, e) + (to - eb)
      /\ Before(p, s) \in Int /\ Before(p, e) \in Int
      /\ Before(p, e + 1) = Before(p, e) + Lengths(p)[e]
  <2>1. s \in DOMAIN Sections(p) /\ e \in DOMAIN Sections(p)
    BY <1>1
  <2> QED
    BY <1>3, <1>4, <1>5, <2>1, TradingAt, BeforeNext
<1>a. PICK S, g, f : S = s .. e /\ g = Lengths(p) /\ f = SecondsIn(p, part)
  OBVIOUS
<1>b. PICK h : h = [i \in S |-> IF i = s THEN se - from ELSE g[i]]
  OBVIOUS
<1>8. IsFiniteSet(S) /\ s \in S /\ e \in S /\ S \subseteq 1 .. n
  <2>1. IsFiniteSet(S)
    BY <1>a, FS_Interval
  <2> QED
    BY <1>2, <1>a, <2>1
<1>9. /\ \A i \in S : g[i] \in Int /\ h[i] \in Int
      /\ \A i \in S : i # s => h[i] = g[i]
      /\ g[s] = se - sb /\ g[e] = ee - eb /\ h[s] = se - from
  <2>1. \A i \in S : g[i] \in Int
    BY <1>1, <1>5, <1>8, <1>a, LengthsPositive
  <2>2. g[s] = se - sb /\ g[e] = ee - eb
    BY <1>1, <1>3, <1>5, <1>8, <1>a, LengthsPositive
  <2> QED
    BY <1>6, <1>8, <1>b, <2>1, <2>2
<1>10. /\ \A i \in S : f[i] \in Int
       /\ \A i \in S : i # e => f[i] = h[i]
       /\ f[e] = h[e] - ee + to
  <2>1. \A i \in S : g[i] = inner_HHMMSS2Second(Sections(p)[i].end) - inner_HHMMSS2Second(Sections(p)[i].begin)
    BY <1>1, <1>5, <1>8, <1>a, LengthsPositive
  <2>2. \A i \in S : f[i] = inner_HHMMSS2Second(IF i = e THEN part.end ELSE Sections(p)[i].end)
                            - inner_HHMMSS2Second(IF i = s THEN part.start ELSE Sections(p)[i].begin)
    BY <1>2, <1>a DEF SecondsIn
  <2>3. \A i \in S : i # e => f[i] = h[i]
    BY <1>3, <1>4, <1>b, <2>1, <2>2
  <2>4. f[e] = h[e] - ee + to
    <3>1. CASE s = e
      BY <1>3, <1>4, <1>6, <1>8, <1>b, <2>2, <3>1
    <3>2. CASE s # e
      <4>1. h[e] = ee - eb /\ f[e] = to - eb
        BY <1>3, <1>4, <1>8, <1>b, <2>1, <2>2, <3>2
      <4> QED
        BY <1>6, <4>1
    <3> QED
      BY <3>1, <3>2
  <2>5. f[e] \in Int
    BY <1>6, <1>8, <1>9, <2>4
  <2> QED
    BY <1>9, <2>3, <2>4, <2>5
<1>11. Sum(h, S) = Sum(g, S) - g[s] + h[s] /\ Sum(f, S) = Sum(h, S) - h[e] + f[e]
  <2>1. Sum(h, S) = Sum(g, S) - g[s] + h[s]
    <3>1. \A i \in S : g[i] \in Int /\ h[i] \in Int
      BY <1>9
    <3>2. \A i \in S : i # s => h[i] = g[i]
      BY <1>9
    <3>3. PICK y \in S : y = s
      BY <1>8
    <3>4. \A x \in S : x # y => h[x] = g[x]
      BY <3>2, <3>3
    <3>5. IsFiniteSet(S)
      BY <1>8
    <3>6. Sum(h, S) = Sum(g, S) - g[y] + h[y]
      BY <3>1, <3>4, <3>5, ChangedSum
    <3> QED
      BY <3>3, <3>6
  <2>2. Sum(f, S) = Sum(h, S) - h[e] + f[e]
    <3>1. \A i \in S : h[i] \in Int /\ f[i] \in Int
      BY <1>9, <1>10
    <3>2. \A i \in S : i # e => f[i] = h[i]
      BY <1>10
    <3>3. PICK y \in S : y = e
      BY <1>8
    <3>4. \A x \in S : x # y => f[x] = h[x]
      BY <3>2, <3>3
    <3>5. IsFiniteSet(S)
      BY <1>8
    <3>6. Sum(f, S) = Sum(h, S) - h[y] + f[y]
      BY <3>1, <3>4, <3>5, ChangedSum, SMTT(60)
    <3> QED
      BY <3>3, <3>6
  <2> QED
    BY <2>1, <2>2
<1>12. Before(p, e + 1) = Before(p, s) + Sum(g, S)
  <2>1. PICK U, T : U = 1 .. ((e + 1) - 1) /\ T = 1 .. (s - 1)
    OBVIOUS
  <2>2. T \subseteq U /\ S = U \ T /\ U \subseteq 1 .. n
    BY <1>2, <1>a, <2>1
  <2>3. IsFiniteSet(U)
    BY <2>1, FS_Interval
  <2>4. \A i \in U : g[i] \in Int
    BY <1>1, <1>5, <1>a, <2>2, LengthsPositive
  <2>5. Sum(g, U) = Sum(g, T) + Sum(g, S)
    BY <2>2, <2>3, <2>4, SplitSum
  <2> QED
    BY <1>a, <2>1, <2>5 DEF Before
<1>13. Sum(g, S) \in Int /\ Sum(h, S) \in Int /\ Sum(f, S) \in Int
  BY <1>8, <1>9, <1>10, TakenSum
<1>14. getTotalSecond(p, part) = Sum(f, S)
  <2>1. part.startNo \in Int /\ part.endNo \in Int
    BY <1>2
  <2> QED
    BY <1>2, <1>a, <2>1, TotalIsSum
<1>15. g = Lengths(p)
  BY <1>a
<1>16. h[e] \in Int /\ f[e] \in Int
  BY <1>8, <1>9, <1>10
<1> QED
  BY <1>6, <1>7, <1>9, <1>10, <1>11, <1>12, <1>13, <1>14, <1>15, <1>16

-----------------------------------------------------------------------------
(* The slots of an order fit into its time. *)
InTime(c) == c.gap * c.times <= getTotalSecond(c.product, c.part)

(* The next slot of an order that has slots left comes before its end, and  *)
(* the one after that is later.                                             *)
LEMMA SlotBeforeEnd ==
  ASSUME NEW c, ContextOK(c), OnTime(c), InTime(c), c.slots < c.times
  PROVE  /\ c.this \in Times /\ c.this < c.part.end /\ c.part.end \in Times
         /\ c.next \in Nat /\ c.this < c.next
         /\ \E i \in DOMAIN Sections(c.product) : InSection(c.product, i, c.this)
<1>0. PICK p \in DOMAIN SectionConfig : p = c.product
  BY StartTime DEF OnTime
<1>1. PICK start \in Int, gap \in Nat \ {0}, k \in Nat, times \in Nat :
           /\ start = TradingSecond(p, c.part.start) /\ gap = c.gap /\ k = c.slots /\ times = c.times
           /\ InSections(p, c.part) /\ k < times
  BY <1>0, StartTime DEF OnTime, ContextOK
<1>2. PICK a \in Int, b \in Int : a = k * gap /\ b = (k + 1) * gap /\ a < b /\ b <= gap * times
  <2>1. PICK z \in Nat : times = k + 1 + z
    <3>1. times - k - 1 \in Nat /\ times = k + 1 + (times - k - 1)
      BY <1>1
    <3> QED
      BY <3>1
  <2>2. gap * times = (k + 1) * gap + z * gap /\ (k + 1) * gap = k * gap + gap
    BY <2>1
  <2>3. z * gap \in Nat /\ k * gap \in Int
    OBVIOUS
  <2> QED
    BY <2>2, <2>3
<1>3. PICK end \in Int : end = TradingSecond(p, c.part.end) /\ start + b <= end
  <2>1. getTotalSecond(p, c.part) = TradingSecond(p, c.part.end) - start /\ TradingSecond(p, c.part.end) \in Int
    BY <1>1, TradingOfPart
  <2>2. gap * times <= getTotalSecond(p, c.part)
    BY <1>0, <1>1 DEF InTime
  <2>3. gap * times \in Int
    OBVIOUS
  <2> QED
    BY <1>2, <2>1, <2>2, <2>3
<1>4. /\ c.part.end \in Times /\ c.part.end < Never /\ Never \in Times
      /\ end <= TradingSecond(p, Never) /\ TradingSecond(p, Never) \in Int
  <2>1. c.part.end \in Times /\ c.part.end < Never
    <3>1. PICK n \in Nat :
             /\ DOMAIN Sections(p) = 1 .. n
             /\ \A i \in 1 .. n : Sections(p)[i].end \in Times /\ Sections(p)[i].end < Never
      BY SectionFacts
    <3>2. PICK e \in 1 .. n : e = c.part.endNo /\ c.part.end <= Sections(p)[e].end /\ c.part.end \in Times
      BY <1>1, <3>1 DEF InSections
    <3>3. c.part.end \in Nat /\ Sections(p)[e].end \in Nat
      BY <3>1, <3>2 DEF Times
    <3> QED
      BY <3>1, <3>2, <3>3 DEF Never
  <2>2. Never \in Times
    <3>1. 48 \in Nat /\ 0 \in 0 .. 59
      OBVIOUS
    <3>2. Stamp(48, 0, 0) \in Times
      BY <3>1, SecondsOfTime, Zenon
    <3> QED
      BY <3>2 DEF Stamp, Never
  <2>3. c.part.end <= Never
    BY <2>1 DEF Times, Never
  <2> QED
    BY <1>3, <2>1, <2>2, <2>3, TradingRises
<1>5. Reached(p, c.this, start + a) /\ Reached(p, c.next, start + b)
  BY <1>0, <1>1, <1>2 DEF OnTime, Due
<1>6. PICK this \in Times : /\ this = c.this /\ TradingSecond(p, this) = start + a
                            /\ \E i \in DOMAIN Sections(p) : InSection(p, i, this)
  <2>1. c.this # Never
    BY <1>2, <1>3, <1>4, <1>5 DEF Reached
  <2> QED
    BY <1>5, <2>1 DEF Reached, InSection
<1>7. this < c.part.end
  <2>1. c.part.end <= this => end <= start + a
    BY <1>3, <1>4, <1>6, TradingRises
  <2>2. this \in Nat /\ c.part.end \in Nat
    BY <1>4 DEF Times
  <2> QED
    BY <1>2, <1>3, <2>1, <2>2
<1>8. c.next \in Nat /\ this < c.next
  <2>1. CASE c.next = Never
    BY <1>4, <1>7, <2>1 DEF Times, Never
  <2>2. CASE c.next # Never
    <3>1. PICK next \in Times : next = c.next /\ TradingSecond(p, next) = start + b
      BY <1>5, <2>2 DEF Reached, InSection
    <3>2. next <= this => start + b <= start + a
      BY <1>6, <3>1, TradingRises
    <3>3. this \in Nat /\ next \in Nat
      BY DEF Times
    <3> QED
      BY <1>2, <3>1, <3>2, <3>3
  <2> QED
    BY <2>1, <2>2
<1> QED
  BY <1>0, <1>1, <1>4, <1>6, <1>7, <1>8

(* An order's time begins no sooner than now. *)
LEMMA PartStart ==
  ASSUME NEW p, NEW now \in HHMMSS, NEW b \in HHMMSS, NEW e \in HHMMSS,
         isInSection(now, p, b, e).ok
  PROVE  NormalizeTime(now) <= isInSection(now, p, b, e).start
<1> DEFINE secs  == Sections(p)
           begin == Max({NormalizeTime(b), NormalizeTime(now)})
           end   == NormalizeTime(e)
           open  == {i \in DOMAIN secs : begin < secs[i].end \/ begin <= secs[i].begin}
           begun == {i \in DOMAIN secs : end >= secs[i].end \/ end > secs[i].begin}
           s     == Min(open)
           t     == Max(begun)
           part  == [ok |-> TRUE, startNo |-> s, endNo |-> t,
                     start |-> Max({begin, secs[s].begin}),
                     end   |-> Min({end, secs[t].end})]
<1>1. isInSection(now, p, b, e) = part /\ p \in DOMAIN SectionConfig /\ open # {}
  <2> HIDE DEF open, begun
  <2>1. isInSection(now, p, b, e) =
          IF p \in DOMAIN SectionConfig /\ open # {} /\ begun # {} /\ part.start < part.end
          THEN part ELSE NoPart
    BY DEF isInSection, open, begun
  <2>2. ~NoPart.ok
    BY DEF NoPart
  <2> HIDE DEF part
  <2> QED
    BY <2>1, <2>2
<1>2. PICK n \in Nat :
           /\ DOMAIN Sections(p) = 1 .. n
           /\ \A i \in 1 .. n : Sections(p)[i].begin \in Times
  BY <1>1, SectionFacts
<1>3. secs[s].begin \in Int
  <2>1. open \subseteq 1 .. n
    BY <1>2
  <2>2. s \in open
    <3> HIDE DEF open
    <3> QED
      BY <1>1, <2>1, LeastOf
  <2>3. s \in 1 .. n
    BY <2>1, <2>2
  <2> HIDE DEF s
  <2> QED
    BY <1>2, <2>3 DEF Times
<1>4. PICK x \in Int, y \in Int : x = NormalizeTime(b) /\ y = NormalizeTime(now)
  <2>1. NormalizeTime(b) \in Times /\ NormalizeTime(now) \in Times
    BY NormalTimes
  <2> QED
    BY <2>1 DEF Times
<1>5. begin \in Int /\ y <= begin
  BY <1>4, OfTwo
<1> HIDE DEF begin, s
<1>6. PICK z \in Int : z = secs[s].begin
  BY <1>3
<1>7. part.start = Max({begin, z})
  BY <1>6
<1> HIDE DEF part
<1>8. part.start = IF begin >= z THEN begin ELSE z
  BY <1>5, <1>6, <1>7, OfTwo
<1> QED
  BY <1>1, <1>4, <1>5, <1>6, <1>8

(* A new order begins no sooner than now, and its slots fit into its time. *)
LEMMA NewInTime ==
  ASSUME LotTypes, NEW r \in Requests, Valid(r)
  PROVE  InTime(NewContext(r)) /\ NormalizeTime(Now) <= NewContext(r).this
<1>1. PICK c : c = NewContext(r)
  OBVIOUS
<1>2. /\ ContextOK(c) /\ c.product = r.product /\ c.part = Part(r) /\ c.this = c.part.start
      /\ c.times = getTotalSecond(r.product, Part(r)) \div c.gap
      /\ InSections(r.product, Part(r))
  BY <1>1, ContextMade DEF NewContext
<1>3. InTime(c)
  <2>1. PICK total \in Nat, gap \in Nat \ {0} : total = getTotalSecond(r.product, Part(r)) /\ gap = c.gap
    BY <1>2, TotalPositive DEF ContextOK
  <2>2. PICK q \in Int : q = total \div gap
    OBVIOUS
  <2>3. gap * q <= total
    BY <2>2
  <2> QED
    BY <1>2, <2>1, <2>2, <2>3 DEF InTime
<1>4. NormalizeTime(Now) <= Part(r).start
  <2>1. /\ Now \in HHMMSS /\ r.begin \in HHMMSS /\ r.end \in HHMMSS /\ Part(r).ok
    BY MomentsAssumption, RequestsAssumption DEF LotTypes, Now, Valid
  <2> QED
    BY <2>1, PartStart DEF Part
<1> QED
  BY <1>1, <1>2, <1>3, <1>4

-----------------------------------------------------------------------------
(* Orders end with all of their volume placed: the invariant *)
NowTime == NormalizeTime(Now)

(* An order that nobody cancels is live while the loop is at work on it. *)
NotCancelled ==
  /\ cancels \subseteq Ids
  /\ \A i \in cancels : orders[i].status # "Cancelled" /\ (timer.at = i => Running(i))

(* The loop has seen orders with a context, and slices of those it is done *)
(* with in this round.                                                     *)
SeenMade == seen \subseteq Ids /\ \A i \in seen : contexts[i].made

OneSlice ==
  /\ timer.at \notin timer.todo
  /\ \A k \in DOMAIN timer.events : timer.events[k].id \notin timer.todo \cup {timer.at}

(* All slots of an order lie in its time. *)
AllInTime ==
  /\ \A i \in Ids : contexts[i].made => InTime(contexts[i])
  /\ inserting # NotInserting => InTime(inserting.context)

(* As long as an order is checked every second, its slots do not pass. *)
Undisturbed(i) == i \in cancels /\ i \notin disturbed /\ Running(i)

(* A slot is left, and its time has come or will. *)
SlotToCome(i) ==
  /\ contexts[i].slots < contexts[i].times
  /\ IF i \in seen THEN NowTime < contexts[i].this ELSE NowTime <= contexts[i].this

SlotsToCome ==
  \A i \in Ids : contexts[i].made /\ Undisturbed(i) =>
     contexts[i].real = contexts[i].total \/ SlotToCome(i)

(* So is the first slot of an order whose context is not in the map yet. *)
FirstToCome ==
  inserting # NotInserting /\ ~contexts[inserting.id].made /\ Undisturbed(inserting.id) =>
    NowTime <= inserting.context.this

EndParts ==
  /\ NotCancelled /\ SeenMade /\ OneSlice /\ AllInTime
  /\ SlotsToCome /\ FirstToCome /\ PlacedByTheEnd

EndInv == Schedule /\ EndParts

(* EndInv says this of each order. *)
LEMMA EndBasics ==
  ASSUME EndInv
  PROVE  /\ Lots /\ LotTypes /\ InsertingOK /\ AtWork /\ NotCancelled /\ SeenMade /\ AllInTime /\ PlacedByTheEnd
         /\ NowTime \in Times /\ NowTime \in Nat /\ NowTime < Never
         /\ \A i \in Ids : ContextOK(contexts[i]) /\ LotsOf(i) /\ i # NoId
         /\ \A i \in Ids : contexts[i].made => OnTime(contexts[i]) /\ InTime(contexts[i])
<1>1. Lots /\ LotTypes /\ InsertingOK /\ AtWork /\ \A i \in Ids : LotsOf(i)
  BY DEF EndInv, Schedule, Lots
<1>2. Now \in HHMMSS
  BY <1>1, MomentsAssumption DEF LotTypes, Now
<1>3. NowTime \in Times /\ NowTime < Never
  BY <1>2, NormalTimes DEF NowTime
<1> QED
  BY <1>1, <1>3, NoIdAssumption DEF EndInv, EndParts, Schedule, LotTypes, Times, AllInTime

(* The last slot takes all that is left. *)
LEMMA LastSlot ==
  ASSUME NEW c, ContextOK(c), c.slots + 1 = c.times, c.total - c.real > 0,
         NEW w \in WantVol(c, c.slots + 1)
  PROVE  Min({w, c.total - c.real}) = c.total - c.real
<1>1. PICK total \in Int, real \in Int, times \in Nat \ {0} :
           total = c.total /\ real = c.real /\ times = c.times /\ total - real > 0
  BY DEF ContextOK
<1>2. PICK n \in Int : n = times * total
  OBVIOUS
<1>3. PICK a \in Int : a = n + times - 1
  BY <1>2
<1>4. PICK q \in Int : q = a \div times /\ times * q <= n + times - 1 /\ n + times - 1 < times * q + times
  BY <1>3, Quotient
<1>5. q = total
  <2>1. times * q < times * total + times /\ times * total < times * q + times
    BY <1>2, <1>4
  <2> QED
    BY <2>1, FewerMultiples
<1>6. w = total - real \/ w = total - real + 1
  BY <1>1, <1>2, <1>3, <1>4, <1>5 DEF WantVol, Ceil
<1>7. w \in Int /\ total - real \in Int /\ total - real <= w
  BY <1>6
<1>8. PICK y \in Int : y = total - real /\ y <= w
  BY <1>7
<1> QED
  BY <1>1, <1>7, <1>8, OfTwo

(* Until the clock has reached a time of trading, it does not pass it. *)
LEMMA ClockStep ==
  ASSUME EverySecondComes, LotTypes, ClockMoves, NEW p \in DOMAIN SectionConfig,
         NEW i \in DOMAIN Sections(p), NEW t, InSection(p, i, t), NowTime < t
  PROVE  NowTime' <= t
<1>1. moment \in 1 .. Len(Moments) - 1 /\ moment' = moment + 1 /\ Moments \in Seq(HHMMSS)
  BY MomentsAssumption DEF LotTypes, ClockMoves
<1>2. PICK k \in 1 .. Len(Moments) - 1 : k = moment
  BY <1>1
<1>3. Moments[k] \in HHMMSS /\ Moments[k + 1] \in HHMMSS
  BY <1>1, <1>2
<1>4. PICK a \in Times, b \in Times : a = NormalizeTime(Moments[k]) /\ b = NormalizeTime(Moments[k + 1])
  BY <1>3, NormalTimes
<1>5. NowTime = a /\ NowTime' = b
  BY <1>1, <1>2, <1>4 DEF NowTime, Now
<1>6. PICK n \in Nat : n = inner_HHMMSS2Second(t) /\ t \in Times
  BY SecondsRise DEF InSection
<1>7. t = inner_Second2HHMMSS(inner_HHMMSS2Second(t))
  <2>1. PICK u \in Times : u = inner_Second2HHMMSS(n) /\ inner_HHMMSS2Second(u) = n
    BY TimeOfSeconds
  <2> QED
    BY <1>6, <2>1, SecondsRise
<1>8. a \in Nat /\ b \in Nat /\ t \in Nat
  BY <1>6 DEF Times
<1> SUFFICES ASSUME b > t PROVE FALSE
  BY <1>5, <1>8
<1>9. t \in a + 1 .. b - 1
  BY <1>5, <1>8
<1>10. t < Sections(p)[i].begin \/ Sections(p)[i].end < t
  BY <1>2, <1>4, <1>7, <1>9 DEF EverySecondComes
<1>11. PICK n0 \in Nat :
           /\ DOMAIN Sections(p) = 1 .. n0
           /\ \A k0 \in 1 .. n0 : Sections(p)[k0].begin \in Times /\ Sections(p)[k0].end \in Times
  BY SectionFacts
<1>12. Sections(p)[i].begin \in Nat /\ Sections(p)[i].end \in Nat
  BY <1>11 DEF Times
<1> QED
  BY <1>8, <1>10, <1>12 DEF InSection

(* Nothing waits to be placed for an order that has no slice. *)
LEMMA NoVolume ==
  ASSUME NEW s \in Seq(Slices), NEW i, \A k \in DOMAIN s : s[k].id # i
  PROVE  Volume(s, i) = 0
<1>1. IsFiniteSet(DOMAIN s)
  BY SliceVolumes
<1>2. \A k \in DOMAIN s : Weights(s, i)[k] = 0
  BY DEF Weights
<1> QED
  BY <1>1, <1>2, ZeroSum DEF Volume

(* What a check does, by the time it comes at *)
CheckedAt(c, d, now) ==
  \/ d = c /\ now < c.this
  \/ now >= c.this /\ now > c.next
  \/ /\ now >= c.this
     /\ d.this = c.next /\ d.slots = c.slots + 1
     /\ c.slots + 1 = c.times => d.real = c.total

LEMMA CheckTimes ==
  ASSUME EndInv, DoCheck, NEW i, i = timer.at
  PROVE  /\ i \in Ids /\ contexts[i].made
         /\ UNCHANGED <<moment, cancels, inserting, disturbed, placed>>
         /\ timer'.at = NoId /\ timer'.todo = timer.todo /\ seen' = seen \cup {i}
         /\ orders \in [Ids -> [status: Live \cup Ended \cup {"none"}, remain: Int]]
         /\ \/ /\ orders' = [orders EXCEPT ![i].status = "End"] /\ contexts' = contexts
               /\ contexts[i].total - contexts[i].real <= 0 \/ NowTime > contexts[i].part.end
            \/ /\ orders' = orders /\ contexts[i].total - contexts[i].real > 0
               /\ CheckedAt(contexts[i], contexts'[i], NowTime)
<1>1. /\ timer \in [todo: SUBSET Ids, at: Ids \cup {NoId}, events: Seq(Slices)]
      /\ DOMAIN contexts = Ids /\ ContextOK(contexts[i]) /\ i \in Ids /\ contexts[i].made
      /\ orders \in [Ids -> [status: Live \cup Ended \cup {"none"}, remain: Int]]
  <2>1. LotTypes /\ \A j \in Ids : ContextOK(contexts[j])
    BY EndBasics
  <2> QED
    BY <2>1 DEF DoCheck, LotTypes
<1>2. PICK c, now : c = contexts[i] /\ now = NowTime
  OBVIOUS
<1>3. c.total - c.real \in Int /\ (~(c.total - c.real <= 0) => c.total - c.real > 0)
  <2>1. c.total \in Int /\ c.real \in Int
    BY <1>1, <1>2 DEF ContextOK
  <2> QED
    BY <2>1
<1>4. UNCHANGED <<moment, cancels, inserting, disturbed, placed>> /\ seen' = seen \cup {i}
  BY DEF DoCheck
<1>5. \/ /\ orders' = [orders EXCEPT ![i].status = "End"] /\ contexts' = contexts
         /\ timer' = [timer EXCEPT !.at = NoId]
         /\ c.total - c.real <= 0 \/ now > c.part.end
      \/ /\ ~(c.total - c.real <= 0 \/ now > c.part.end) /\ now >= c.this /\ now <= c.next
         /\ \E w \in WantVol(c, c.slots + 1) : Slice(i, NextSlot(c), Min({w, c.total - c.real}))
         /\ orders' = orders
      \/ /\ ~(c.total - c.real <= 0 \/ now > c.part.end) /\ now >= c.this /\ now > c.next
         /\ NoSlice(i, NextSlot(c)) /\ orders' = orders
      \/ /\ ~(c.total - c.real <= 0 \/ now > c.part.end) /\ now < c.this
         /\ NoSlice(i, c) /\ orders' = orders
  BY <1>2, Zenon DEF DoCheck, NowTime
<1>6. ASSUME NEW d, contexts' = [contexts EXCEPT ![i] = d]
      PROVE  contexts'[i] = d
  BY <1>1, <1>6
<1>7. ASSUME NEW e, timer' = [timer EXCEPT !.at = NoId, !.events = e] \/ timer' = [timer EXCEPT !.at = NoId]
      PROVE  timer'.at = NoId /\ timer'.todo = timer.todo
  BY <1>1, <1>7
<1>8. CASE /\ orders' = [orders EXCEPT ![i].status = "End"] /\ contexts' = contexts
           /\ timer' = [timer EXCEPT !.at = NoId]
           /\ c.total - c.real <= 0 \/ now > c.part.end
  BY <1>1, <1>2, <1>4, <1>7, <1>8
<1>9. CASE ~(c.total - c.real <= 0) /\ now < c.this /\ NoSlice(i, c) /\ orders' = orders
  BY <1>1, <1>2, <1>3, <1>4, <1>6, <1>7, <1>9 DEF NoSlice, CheckedAt
<1>10. CASE ~(c.total - c.real <= 0) /\ now >= c.this /\ now > c.next /\ NoSlice(i, NextSlot(c)) /\ orders' = orders
  BY <1>1, <1>2, <1>3, <1>4, <1>6, <1>7, <1>10 DEF NoSlice, CheckedAt
<1>11. ASSUME c.total - c.real > 0, now >= c.this, orders' = orders,
              NEW w \in WantVol(c, c.slots + 1), Slice(i, NextSlot(c), Min({w, c.total - c.real}))
       PROVE  CheckedAt(c, contexts'[i], now) /\ timer'.at = NoId /\ timer'.todo = timer.todo
  <2>1. PICK v, x : v = Min({w, c.total - c.real}) /\ x = NextSlot(c)
    OBVIOUS
  <2>2. /\ DOMAIN x = DOMAIN c /\ x.this = c.next /\ x.slots = c.slots + 1 /\ x.real = c.real
    BY <1>1, <1>2, <2>1 DEF NextSlot, ContextOK, NoContext
  <2>3. c.slots + 1 = c.times => v = c.total - c.real
    BY <1>1, <1>2, <1>11, <2>1, LastSlot
  <2>4. IF v > 0 THEN Decide(i, x, v) ELSE NoSlice(i, x)
    BY <1>11, <2>1 DEF Slice
  <2>5. CASE v > 0
    <3>1. PICK d : d = [x EXCEPT !.real = @ + v]
      OBVIOUS
    <3>2. contexts' = [contexts EXCEPT ![i] = d] /\ timer'.at = NoId /\ timer'.todo = timer.todo
      BY <1>7, <2>4, <2>5, <3>1 DEF Decide
    <3>3. d.this = c.next /\ d.slots = c.slots + 1 /\ d.real = c.real + v
      BY <1>1, <1>2, <2>2, <3>1 DEF ContextOK, NoContext
    <3>4. c.total \in Int /\ c.real \in Int
      BY <1>1, <1>2 DEF ContextOK
    <3>5. c.slots + 1 = c.times => d.real = c.total
      BY <2>3, <3>3, <3>4
    <3> QED
      BY <1>6, <1>11, <3>2, <3>3, <3>5 DEF CheckedAt
  <2>6. CASE ~(v > 0)
    <3>1. NoSlice(i, x) /\ c.slots + 1 # c.times
      BY <1>11, <2>3, <2>4, <2>6
    <3>2. contexts'[i] = x /\ timer'.at = NoId /\ timer'.todo = timer.todo
      BY <1>6, <1>7, <3>1 DEF NoSlice
    <3> QED
      BY <1>11, <2>2, <3>1, <3>2 DEF CheckedAt
  <2> QED
    BY <2>5, <2>6
<1>12. CASE /\ ~(c.total - c.real <= 0) /\ now >= c.this /\ orders' = orders
            /\ \E w \in WantVol(c, c.slots + 1) : Slice(i, NextSlot(c), Min({w, c.total - c.real}))
  BY <1>1, <1>2, <1>3, <1>4, <1>11, <1>12
<1> QED
  BY <1>5, <1>8, <1>9, <1>10, <1>12

(* It keeps all of a context but its slots and its volume. *)
LEMMA CheckedFields ==
  ASSUME NEW c, ContextOK(c), NEW d, NEW v \in Nat, CheckedContext(c, d, v)
  PROVE  /\ d.made = c.made /\ d.times = c.times /\ d.total = c.total
         /\ d.gap = c.gap /\ d.product = c.product /\ d.part = c.part
<1>1. PICK x : x = NextSlot(c)
  OBVIOUS
<1>2. /\ DOMAIN x = DOMAIN c /\ x.made = c.made /\ x.times = c.times /\ x.total = c.total
      /\ x.gap = c.gap /\ x.product = c.product /\ x.part = c.part
  BY <1>1 DEF NextSlot, ContextOK, NoContext
<1>3. CASE d \in {c, x}
  BY <1>2, <1>3
<1>4. CASE d = [x EXCEPT !.real = @ + v]
  BY <1>2, <1>4 DEF ContextOK, NoContext
<1> QED
  BY <1>1, <1>3, <1>4 DEF CheckedContext

(* An order with a slice to place has volume left. *)
LEMMA SliceLeft ==
  ASSUME Lots, timer.events # << >>
  PROVE  \E i \in Ids : /\ i = Head(timer.events).id /\ contexts[i].made /\ TakenUp(i)
                        /\ orders[i].remain > 0 /\ orders[i].remain \in Int
                        /\ Head(timer.events).volume \in Nat \ {0}
<1>0. LotTypes /\ AtWork /\ \A j \in Ids : LotsOf(j)
  BY DEF Lots
<1>1. PICK s, e : s = timer.events /\ e = Head(timer.events)
  OBVIOUS
<1>2. /\ s \in Seq(Slices) /\ s # << >> /\ e = Head(s) /\ e \in Slices /\ Tail(s) \in Seq(Slices)
      /\ \A j : Volume(s, j) = Volume(Tail(s), j) + (IF e.id = j THEN e.volume ELSE 0)
  BY <1>0, <1>1, TailVolume DEF LotTypes
<1>3. PICK i \in Ids, v \in Nat \ {0} : i = e.id /\ v = e.volume
  BY <1>2 DEF Slices
<1>4. contexts[i].made /\ TakenUp(i)
  <2>1. 1 \in DOMAIN s /\ s[1] = e
    BY <1>2
  <2> QED
    BY <1>0, <1>1, <1>3, <2>1 DEF AtWork
<1>5. Volume(Tail(s), i) \in Int /\ Volume(Tail(s), i) >= 0
  <2>0. PICK t \in Seq(Slices) : t = Tail(s)
    BY <1>2
  <2>1. PICK f, g : f = [k \in DOMAIN t |-> 0] /\ g = Weights(t, i)
    OBVIOUS
  <2>2. IsFiniteSet(DOMAIN t) /\ \A k \in DOMAIN t : t[k] \in Slices /\ g[k] \in Int
    BY <2>1, SliceVolumes
  <2>3. \A k \in DOMAIN t : f[k] \in Int /\ g[k] \in Int /\ f[k] <= g[k]
    BY <2>1, <2>2 DEF Weights, Slices
  <2>4. Sum(f, DOMAIN t) <= Sum(g, DOMAIN t)
    BY <2>2, <2>3, OrderedSums
  <2>5. Sum(f, DOMAIN t) = 0
    BY <2>1, <2>2, ZeroSum
  <2>6. Sum(g, DOMAIN t) \in Int
    BY <2>2, TakenSum
  <2> QED
    BY <2>0, <2>1, <2>4, <2>5, <2>6 DEF Volume
<1>6. PICK total \in Int, real \in Int, done \in Nat, w \in Int :
           /\ total = contexts[i].total /\ real = contexts[i].real /\ done = placed[i]
           /\ w = Volume(Tail(s), i) /\ w >= 0
  BY <1>0, <1>5 DEF LotTypes, ContextOK
<1>7. real = done + Volume(s, i) /\ real <= total /\ orders[i].remain = total - done
  BY <1>0, <1>1, <1>4, <1>6 DEF LotsOf, TakenUp
<1>8. Volume(s, i) = w + v
  BY <1>2, <1>3, <1>6
<1>9. orders[i].remain > 0 /\ orders[i].remain \in Int
  BY <1>6, <1>7, <1>8
<1> QED
  BY <1>1, <1>3, <1>4, <1>9

(* The next slice, which is placed or taken back *)
LEMMA PlaceParts ==
  ASSUME Lots, PlaceSlice
  PROVE  \E i \in Ids :
           /\ contexts[i].made /\ TakenUp(i) /\ orders[i].remain > 0
           /\ timer.at = NoId /\ timer'.at = NoId /\ timer'.todo = timer.todo
           /\ \A k \in DOMAIN timer'.events : \E l \in DOMAIN timer.events : timer'.events[k] = timer.events[l]
           /\ UNCHANGED <<moment, cancels, inserting, seen>>
           /\ \A j \in Ids \ {i} : contexts'[j] = contexts[j] /\ orders'[j] = orders[j]
           /\ \/ /\ orders'[i].status = IF orders'[i].remain <= 0 THEN "End" ELSE "Executing"
                 /\ orders'[i].remain \in Int
                 /\ UNCHANGED <<contexts, disturbed>>
              \/ /\ disturbed' = disturbed \cup {i} /\ UNCHANGED orders
                 /\ \E v : contexts'[i] = [contexts[i] EXCEPT !.real = v]
<1>0. LotTypes
  BY DEF Lots
<1>1. PICK s, e : s = timer.events /\ e = Head(timer.events)
  OBVIOUS
<1>2. /\ timer \in [todo: SUBSET Ids, at: Ids \cup {NoId}, events: Seq(Slices)]
      /\ DOMAIN orders = Ids /\ DOMAIN contexts = Ids
      /\ s \in Seq(Slices) /\ s # << >>
  BY <1>0, <1>1 DEF LotTypes, PlaceSlice
<1>3. PICK i \in Ids, v \in Nat \ {0} :
           /\ i = e.id /\ v = e.volume /\ contexts[i].made /\ TakenUp(i)
           /\ orders[i].remain > 0 /\ orders[i].remain \in Int
  BY <1>1, <1>2, SliceLeft
<1>4. timer.at = NoId /\ timer' = [timer EXCEPT !.events = Tail(s)]
  BY <1>1 DEF PlaceSlice
<1>5. /\ timer'.at = NoId /\ timer'.todo = timer.todo /\ timer'.events = Tail(s)
  BY <1>2, <1>4
<1>6. \A k \in DOMAIN Tail(s) : \E l \in DOMAIN s : Tail(s)[k] = s[l]
  BY <1>2
<1>7. UNCHANGED <<moment, cancels, inserting, seen>>
  BY DEF PlaceSlice
<1>8. CASE contexts[i].product \in latestTick
  <2>1. PICK o : o = [status |-> IF orders[i].remain - v <= 0 THEN "End" ELSE "Executing",
                      remain |-> orders[i].remain - v]
    OBVIOUS
  <2>2. orders' = [orders EXCEPT ![i] = o] /\ UNCHANGED <<contexts, disturbed>>
    BY <1>1, <1>3, <1>8, <2>1 DEF PlaceSlice
  <2>3. orders'[i] = o /\ \A j \in Ids \ {i} : orders'[j] = orders[j]
    BY <1>2, <2>2
  <2>4. o.remain \in Int /\ o.status = IF o.remain <= 0 THEN "End" ELSE "Executing"
    BY <1>3, <2>1
  <2> QED
    BY <1>1, <1>3, <1>4, <1>5, <1>6, <1>7, <2>2, <2>3, <2>4
<1>9. CASE contexts[i].product \notin latestTick
  <2>1. /\ contexts' = [contexts EXCEPT ![i].real = @ - v]
        /\ disturbed' = disturbed \cup {i} /\ UNCHANGED orders
    BY <1>1, <1>3, <1>9 DEF PlaceSlice
  <2>2. PICK u : u = contexts[i].real - v
    OBVIOUS
  <2>3. /\ \E x : contexts'[i] = [contexts[i] EXCEPT !.real = x]
        /\ \A j \in Ids \ {i} : contexts'[j] = contexts[j]
    <3>1. contexts'[i] = [contexts[i] EXCEPT !.real = u]
      BY <1>2, <2>1, <2>2
    <3>2. \A j \in Ids \ {i} : contexts'[j] = contexts[j]
      BY <1>2, <2>1
    <3> QED
      BY <3>1, <3>2
  <2>4. \A j \in Ids \ {i} : contexts'[j] = contexts[j] /\ orders'[j] = orders[j]
    BY <2>1, <2>3
  <2>5. /\ disturbed' = disturbed \cup {i} /\ UNCHANGED orders
        /\ \E x : contexts'[i] = [contexts[i] EXCEPT !.real = x]
    BY <2>1, <2>3
  <2>6. \A k \in DOMAIN timer'.events : \E l \in DOMAIN timer.events : timer'.events[k] = timer.events[l]
    BY <1>1, <1>5, <1>6
  <2> QED
    BY <1>3, <1>4, <1>5, <1>7, <2>4, <2>5, <2>6, Zenon
<1> QED
  BY <1>8, <1>9

-----------------------------------------------------------------------------
(* EndParts holds at the start. *)
LEMMA InitEnd == Init => EndParts
<1> SUFFICES ASSUME Init PROVE EndParts
  OBVIOUS
<1>1. \A i \in Ids : contexts[i].made = FALSE
  BY DEF Init, NoContext
<1>2. inserting = NotInserting
  BY DEF Init
<1>3. timer.at = NoId /\ timer.events = << >> /\ timer.todo = Ids /\ DOMAIN timer.events = {}
  BY DEF Init
<1>4. cancels = Ids /\ \A i \in Ids : orders[i].status = "none"
  BY DEF Init, NoOrder
<1>5. NotCancelled
  BY <1>3, <1>4, NoIdAssumption DEF NotCancelled
<1>6. SeenMade
  BY DEF Init, SeenMade
<1>7. OneSlice
  BY <1>3, NoIdAssumption DEF OneSlice
<1>8. AllInTime /\ SlotsToCome /\ FirstToCome
  BY <1>1, <1>2 DEF AllInTime, SlotsToCome, FirstToCome
<1>9. PlacedByTheEnd
  BY <1>4 DEF PlacedByTheEnd
<1> QED
  BY <1>5, <1>6, <1>7, <1>8, <1>9 DEF EndParts

(* Steps that leave the orders and the clock alone: the round goes on, or a *)
(* price comes.                                                             *)
LEMMA KeptEnd ==
  ASSUME EndInv,
         \/ UNCHANGED vars \/ NextRound \/ (\E i \in Ids : Visit(i)) \/ VisitWithoutContext
         \/ \E p \in DOMAIN SectionConfig : on_market_data(p)
  PROVE  EndParts'
<1>0. /\ LotTypes /\ EndParts /\ \A i \in Ids : i # NoId
      /\ timer \in [todo: SUBSET Ids, at: Ids \cup {NoId}, events: Seq(Slices)]
      /\ \A k \in DOMAIN timer.events : timer.events[k].id \in Ids
  BY EndBasics, SliceIds DEF LotTypes, EndInv
<1>1. UNCHANGED <<moment, cancels, orders, contexts, inserting, seen, disturbed>>
  BY DEF vars, NextRound, Visit, VisitWithoutContext, on_market_data
<1>2. NowTime' = NowTime
  BY <1>1 DEF NowTime, Now
<1>3. \A i : Undisturbed(i)' = Undisturbed(i)
  BY <1>1 DEF Undisturbed, Running
<1>4. (SeenMade /\ AllInTime /\ SlotsToCome /\ FirstToCome /\ PlacedByTheEnd)'
  <2>1. SeenMade' /\ AllInTime' /\ PlacedByTheEnd'
    BY <1>0, <1>1 DEF EndParts, SeenMade, AllInTime, PlacedByTheEnd
  <2>2. SlotsToCome'
    BY <1>0, <1>1, <1>2, <1>3 DEF EndParts, SlotsToCome, SlotToCome
  <2>3. FirstToCome'
    BY <1>0, <1>1, <1>2, <1>3 DEF EndParts, FirstToCome
  <2> QED
    BY <2>1, <2>2, <2>3
<1>5. NotCancelled' /\ OneSlice'
  <2>1. CASE UNCHANGED vars \/ VisitWithoutContext \/ \E p \in DOMAIN SectionConfig : on_market_data(p)
    <3>1. timer' = timer
      BY <2>1 DEF vars, VisitWithoutContext, on_market_data
    <3> QED
      BY <1>0, <1>1, <3>1 DEF EndParts, NotCancelled, OneSlice, Running
  <2>2. CASE NextRound
    <3>1. timer' = [timer EXCEPT !.todo = Ids] /\ timer.at = NoId /\ timer.events = << >>
      BY <2>2 DEF NextRound
    <3>2. timer'.at = NoId /\ timer'.todo = Ids /\ DOMAIN timer'.events = {}
      BY <1>0, <3>1
    <3> QED
      BY <1>0, <1>1, <3>2, NoIdAssumption DEF EndParts, NotCancelled, OneSlice, Running
  <2>3. ASSUME NEW i \in Ids, Visit(i) PROVE NotCancelled' /\ OneSlice'
    <3>1. /\ timer' = [timer EXCEPT !.todo = @ \ {i}, !.at = IF orders[i].status \in Live THEN i ELSE NoId]
          /\ i \in timer.todo
      BY <2>3 DEF Visit
    <3>2. /\ timer'.todo = timer.todo \ {i} /\ timer'.events = timer.events
          /\ timer'.at = (IF orders[i].status \in Live THEN i ELSE NoId)
      BY <1>0, <3>1
    <3>3. NotCancelled'
      <4>1. \A j \in cancels : orders[j].status # "Cancelled" /\ j # NoId
        BY <1>0 DEF EndParts, NotCancelled
      <4>2. \A j \in cancels : timer'.at = j => orders[j].status \in Live
        BY <3>2, <4>1
      <4> QED
        BY <1>0, <1>1, <4>1, <4>2 DEF EndParts, NotCancelled, Running
    <3>4. OneSlice'
      <4>1. timer'.at \notin timer'.todo
        BY <1>0, <3>2, NoIdAssumption
      <4>2. \A k \in DOMAIN timer.events : timer.events[k].id \notin timer.todo
        BY <1>0 DEF EndParts, OneSlice
      <4>3. \A k \in DOMAIN timer.events : timer.events[k].id # NoId
        BY <1>0
      <4> QED
        BY <3>1, <3>2, <4>1, <4>2, <4>3 DEF OneSlice
    <3> QED
      BY <3>3, <3>4
  <2> QED
    BY <2>1, <2>2, <2>3
<1> QED
  BY <1>4, <1>5 DEF EndParts

(* An order comes, at the latest at the time it begins. *)
LEMMA InsertOrderEnd ==
  ASSUME EndInv, NEW r \in Requests, InsertOrder(r)
  PROVE  EndParts'
<1>0. /\ LotTypes /\ AtWork /\ EndParts /\ \A i \in Ids : i # NoId /\ LotsOf(i)
      /\ cancels \subseteq Ids /\ DOMAIN orders = Ids
      /\ timer.at \in Ids \cup {NoId}
  <2>1. LotTypes /\ AtWork /\ NotCancelled /\ EndParts /\ \A i \in Ids : i # NoId /\ LotsOf(i)
    BY EndBasics DEF EndInv
  <2> QED
    BY <2>1 DEF LotTypes, NotCancelled
<1>1. PICK i \in Ids : i = r.id
  BY RequestsAssumption
<1>2. /\ inserting = NotInserting
      /\ UNCHANGED <<moment, cancels, contexts, timer, seen, disturbed>>
  BY DEF InsertOrder
<1>3. NowTime' = NowTime
  BY <1>2 DEF NowTime, Now
<1>4. \A j \in Ids : \/ orders'[j] = orders[j]
                     \/ /\ orders[j] = NoOrder /\ orders'[j].status \in {"Accepted", "Avoid"}
                        /\ ~contexts[j].made /\ timer.at # j
  <2>1. PICK o : o = [status |-> IF Valid(r) THEN "Accepted" ELSE "Avoid", remain |-> r.volume]
    OBVIOUS
  <2>2. orders' = IF orders[i] # NoOrder THEN orders ELSE [orders EXCEPT ![i] = o]
    BY <1>1, <2>1 DEF InsertOrder
  <2>3. o.status \in {"Accepted", "Avoid"}
    BY <2>1
  <2>4. orders[i] = NoOrder => ~contexts[i].made /\ timer.at # i
    BY <1>0 DEF LotsOf, AtWork, TakenUp, NoOrder
  <2> QED
    BY <1>0, <2>2, <2>3, <2>4
<1>5. NotCancelled'
  <2>1. ASSUME NEW j \in cancels PROVE orders'[j].status # "Cancelled" /\ (timer.at = j => orders'[j].status \in Live)
    BY <1>0, <1>4 DEF EndParts, NotCancelled, Running
  <2> QED
    BY <1>0, <1>2, <2>1 DEF NotCancelled, Running
<1>6. SeenMade' /\ OneSlice'
  BY <1>0, <1>2 DEF EndParts, SeenMade, OneSlice
<1>7. inserting' # NotInserting => Valid(r) /\ inserting'.context = NewContext(r)
  BY DEF InsertOrder
<1>8. inserting' # NotInserting => InTime(inserting'.context) /\ NowTime <= inserting'.context.this
  BY <1>0, <1>7, NewInTime DEF NowTime
<1>9. AllInTime'
  BY <1>0, <1>2, <1>8 DEF EndParts, AllInTime
<1>10. SlotsToCome'
  <2>1. ASSUME NEW j \in Ids, contexts[j].made, Undisturbed(j)' PROVE Undisturbed(j)
    BY <1>2, <1>4, <2>1 DEF Undisturbed, Running
  <2> QED
    BY <1>0, <1>2, <1>3, <2>1 DEF EndParts, SlotsToCome, SlotToCome
<1>11. FirstToCome'
  BY <1>3, <1>8 DEF FirstToCome
<1>12. PlacedByTheEnd'
  BY <1>0, <1>2, <1>4 DEF EndParts, PlacedByTheEnd
<1> QED
  BY <1>5, <1>6, <1>9, <1>10, <1>11, <1>12 DEF EndParts

(* Its slots are still to come when its context is in the map. *)
LEMMA InsertContextEnd ==
  ASSUME EndInv, InsertContext
  PROVE  EndParts'
<1>0. /\ LotTypes /\ InsertingOK /\ EndParts /\ DOMAIN contexts = Ids
  BY EndBasics DEF LotTypes, EndInv
<1>a. PICK c : c = inserting.context
  OBVIOUS
<1>1. PICK i \in Ids : i = inserting.id /\ c = inserting.context /\ inserting # NotInserting
  BY <1>0, <1>a DEF InsertingOK, InsertContext
<1>2. /\ inserting' = NotInserting
      /\ UNCHANGED <<moment, cancels, orders, timer, seen, disturbed>>
  BY DEF InsertContext
<1>3. NowTime' = NowTime
  BY <1>2 DEF NowTime, Now
<1>4. /\ ContextOK(c) /\ c.made /\ c.slots = 0 /\ InTime(c)
  BY <1>0, <1>1 DEF InsertingOK, EndParts, AllInTime
<1>5. \A j \in Ids : contexts'[j] = contexts[j] \/ (j = i /\ ~contexts[j].made /\ contexts'[j] = c)
  BY <1>0, <1>1 DEF InsertContext
<1>6. NotCancelled' /\ OneSlice' /\ PlacedByTheEnd' /\ FirstToCome'
  BY <1>0, <1>2 DEF EndParts, NotCancelled, OneSlice, PlacedByTheEnd, FirstToCome, Running
<1>7. SeenMade'
  BY <1>0, <1>2, <1>4, <1>5 DEF EndParts, SeenMade
<1>8. AllInTime'
  BY <1>0, <1>2, <1>4, <1>5 DEF EndParts, AllInTime
<1>9. SlotsToCome'
  <2> SUFFICES ASSUME NEW j \in Ids, contexts'[j].made, Undisturbed(j)'
               PROVE  contexts'[j].real = contexts'[j].total \/ SlotToCome(j)'
    BY DEF SlotsToCome
  <2>1. Undisturbed(j)
    BY <1>2 DEF Undisturbed, Running
  <2>2. CASE contexts'[j] = contexts[j]
    BY <1>0, <1>2, <1>3, <2>1, <2>2 DEF EndParts, SlotsToCome, SlotToCome
  <2>3. CASE j = i /\ ~contexts[j].made /\ contexts'[j] = c
    <3>1. NowTime <= c.this
      BY <1>0, <1>1, <2>1, <2>3 DEF EndParts, FirstToCome
    <3>2. j \notin seen
      BY <1>0, <2>3 DEF EndParts, SeenMade
    <3>3. c.slots < c.times
      BY <1>4 DEF ContextOK
    <3> QED
      BY <1>2, <1>3, <2>3, <3>1, <3>2, <3>3 DEF SlotToCome
  <2> QED
    BY <1>5, <2>2, <2>3
<1> QED
  BY <1>6, <1>7, <1>8, <1>9 DEF EndParts

(* An order that is cancelled is not promised anything. *)
LEMMA CancelOrderEnd ==
  ASSUME EndInv, NEW i \in Ids, CancelOrder(i)
  PROVE  EndParts'
<1>0. LotTypes /\ EndParts /\ DOMAIN orders = Ids /\ cancels \subseteq Ids
  BY EndBasics DEF LotTypes, EndInv, NotCancelled
<1>1. /\ inserting = NotInserting /\ cancels' = cancels \ {i}
      /\ UNCHANGED <<moment, contexts, inserting, timer, seen, disturbed>>
  BY DEF CancelOrder
<1>2. NowTime' = NowTime
  BY <1>1 DEF NowTime, Now
<1>3. \A j \in Ids \ {i} : orders'[j] = orders[j]
  BY <1>0 DEF CancelOrder
<1>4. NotCancelled'
  BY <1>0, <1>1, <1>3 DEF EndParts, NotCancelled, Running
<1>5. SeenMade' /\ OneSlice' /\ AllInTime' /\ FirstToCome'
  BY <1>0, <1>1 DEF EndParts, SeenMade, OneSlice, AllInTime, FirstToCome
<1>6. SlotsToCome'
  <2>1. \A j \in Ids : Undisturbed(j)' => Undisturbed(j)
    BY <1>1, <1>3 DEF Undisturbed, Running
  <2> QED
    BY <1>0, <1>1, <1>2, <2>1 DEF EndParts, SlotsToCome, SlotToCome
<1>7. PlacedByTheEnd'
  BY <1>0, <1>1, <1>3 DEF EndParts, PlacedByTheEnd
<1> QED
  BY <1>4, <1>5, <1>6, <1>7 DEF EndParts

(* When the clock moves, an order that was checked has its slot to come, and *)
(* one that was not is disturbed.                                            *)
LEMMA ClockEnd ==
  ASSUME EverySecondComes, EndInv, ClockMoves
  PROVE  EndParts'
<1>0. /\ LotTypes /\ EndParts /\ \A i \in Ids : ContextOK(contexts[i])
      /\ \A i \in Ids : contexts[i].made => OnTime(contexts[i]) /\ InTime(contexts[i])
      /\ cancels \subseteq Ids
  <2>1. /\ LotTypes /\ EndParts /\ NotCancelled /\ \A i \in Ids : ContextOK(contexts[i])
        /\ \A i \in Ids : contexts[i].made => OnTime(contexts[i]) /\ InTime(contexts[i])
    BY EndBasics DEF EndInv
  <2> QED
    BY <2>1 DEF NotCancelled
<1>1. /\ UNCHANGED <<cancels, orders, contexts, inserting, timer>>
      /\ disturbed' = disturbed \cup {i \in Ids : Running(i) /\ i \notin seen} /\ seen' = {}
  BY DEF ClockMoves
<1>2. \A j \in Ids : Undisturbed(j)' => Undisturbed(j) /\ j \in seen
  BY <1>1 DEF Undisturbed, Running
<1>3. NotCancelled' /\ SeenMade' /\ OneSlice' /\ AllInTime' /\ PlacedByTheEnd'
  BY <1>0, <1>1 DEF EndParts, NotCancelled, SeenMade, OneSlice, AllInTime, PlacedByTheEnd, Running
<1>4. SlotsToCome'
  <2> SUFFICES ASSUME NEW j \in Ids, contexts[j].made, Undisturbed(j)', contexts[j].real # contexts[j].total
               PROVE  SlotToCome(j)'
    BY <1>1 DEF SlotsToCome
  <2>1. PICK c : c = contexts[j]
    OBVIOUS
  <2>2. c.slots < c.times /\ NowTime < c.this
    BY <1>0, <1>2, <2>1 DEF EndParts, SlotsToCome, SlotToCome
  <2>3. ContextOK(c) /\ OnTime(c) /\ InTime(c)
    BY <1>0, <2>1
  <2>4. PICK k \in DOMAIN Sections(c.product) : InSection(c.product, k, c.this)
    BY <2>2, <2>3, SlotBeforeEnd
  <2>5. c.product \in DOMAIN SectionConfig
    BY <2>4 DEF InSection
  <2>6. NowTime' <= c.this
    BY <1>0, <2>2, <2>4, <2>5, ClockStep
  <2> QED
    BY <1>1, <2>1, <2>2, <2>6 DEF SlotToCome
<1>5. FirstToCome'
  <2>1. inserting # NotInserting => inserting.id \in Ids
    BY EndBasics DEF InsertingOK
  <2>2. \A j \in seen : contexts[j].made
    BY <1>0 DEF EndParts, SeenMade
  <2> QED
    BY <1>1, <1>2, <2>1, <2>2 DEF FirstToCome
<1> QED
  BY <1>3, <1>4, <1>5 DEF EndParts

(* An order ends when all is counted as done and nothing waits to be placed: *)
(* while it is undisturbed its time is not over. At a slot it goes on to the *)
(* next one, and the last one leaves nothing.                                *)
LEMMA CheckEnd ==
  ASSUME EndInv, DoCheck
  PROVE  EndParts'
<1>0. /\ Lots /\ LotTypes /\ InsertingOK /\ EndParts /\ \A j \in Ids : ContextOK(contexts[j]) /\ LotsOf(j) /\ j # NoId
      /\ \A j \in Ids : contexts[j].made => OnTime(contexts[j]) /\ InTime(contexts[j])
      /\ NowTime \in Nat
  BY EndBasics DEF EndInv
<1>1. PICK i : i = timer.at
  OBVIOUS
<1>2. /\ i \in Ids /\ contexts[i].made
      /\ UNCHANGED <<moment, cancels, inserting, disturbed, placed>>
      /\ timer'.at = NoId /\ timer'.todo = timer.todo /\ seen' = seen \cup {i}
      /\ orders \in [Ids -> [status: Live \cup Ended \cup {"none"}, remain: Int]]
      /\ \/ /\ orders' = [orders EXCEPT ![i].status = "End"] /\ contexts' = contexts
            /\ contexts[i].total - contexts[i].real <= 0 \/ NowTime > contexts[i].part.end
         \/ /\ orders' = orders /\ contexts[i].total - contexts[i].real > 0
            /\ CheckedAt(contexts[i], contexts'[i], NowTime)
  BY <1>1, CheckTimes
<1>3. PICK v \in Nat :
           /\ CheckedContext(contexts[i], contexts'[i], v)
           /\ \A j \in Ids \ {i} : contexts'[j] = contexts[j]
           /\ timer' \in [todo: SUBSET Ids, at: {NoId}, events: Seq(Slices)]
           /\ timer'.events = IF v = 0 THEN timer.events
                              ELSE Append(timer.events, [id |-> i, volume |-> v])
  BY <1>0, <1>1, CheckParts
<1>4. PICK c, d : c = contexts[i] /\ d = contexts'[i]
  OBVIOUS
<1>5. ContextOK(c) /\ OnTime(c) /\ InTime(c) /\ c.made /\ CheckedContext(c, d, v)
  BY <1>0, <1>2, <1>3, <1>4
<1>6. /\ d.made = c.made /\ d.times = c.times /\ d.total = c.total
      /\ d.gap = c.gap /\ d.product = c.product /\ d.part = c.part
  BY <1>5, CheckedFields
<1>7. NowTime' = NowTime
  BY <1>2 DEF NowTime, Now
<1>8. \A j \in Ids \ {i} : orders'[j] = orders[j]
  BY <1>2
<1>9. orders'[i] = orders[i] \/ orders'[i].status = "End"
  BY <1>2
<1>10. \A j \in Ids : contexts'[j].made = contexts[j].made
  BY <1>3, <1>4, <1>6
<1>11. c.real \in Int /\ c.total \in Int /\ c.slots \in Nat /\ c.times \in Nat
  BY <1>5 DEF ContextOK
<1>12. Undisturbed(i) /\ c.real # c.total => /\ c.slots < c.times /\ NowTime <= c.this
                                             /\ c.this < c.next /\ c.this < c.part.end
                                             /\ c.this \in Nat /\ c.next \in Nat /\ c.part.end \in Nat
  <2> SUFFICES ASSUME Undisturbed(i), c.real # c.total
               PROVE  /\ c.slots < c.times /\ NowTime <= c.this
                      /\ c.this < c.next /\ c.this < c.part.end
                      /\ c.this \in Nat /\ c.next \in Nat /\ c.part.end \in Nat
    OBVIOUS
  <2>1. SlotToCome(i)
    BY <1>0, <1>2, <1>4 DEF EndParts, SlotsToCome
  <2>2. c.slots < c.times
    BY <1>4, <2>1 DEF SlotToCome
  <2>3. c.this \in Times /\ c.this < c.part.end /\ c.part.end \in Times /\ c.next \in Nat /\ c.this < c.next
    BY <1>5, <2>2, SlotBeforeEnd
  <2>4. c.this \in Nat /\ c.part.end \in Nat
    BY <2>3 DEF Times
  <2>5. NowTime <= c.this
    BY <1>0, <1>4, <2>1, <2>4 DEF SlotToCome
  <2> QED
    BY <2>2, <2>3, <2>4, <2>5
<1>13. NotCancelled'
  <2>1. NotCancelled
    BY <1>0 DEF EndParts
  <2>2. ASSUME NEW j \in cancels PROVE orders'[j].status # "Cancelled" /\ j # NoId
    BY <1>0, <1>8, <1>9, <2>1 DEF NotCancelled
  <2> QED
    BY <1>2, <2>1, <2>2 DEF NotCancelled
<1>14. SeenMade'
  BY <1>0, <1>2, <1>10 DEF EndParts, SeenMade
<1>15. OneSlice'
  <2>1. OneSlice
    BY <1>0 DEF EndParts
  <2>2. \A k \in DOMAIN timer'.events : timer'.events[k].id = i \/ (k \in DOMAIN timer.events /\ timer'.events[k] = timer.events[k])
    <3>a. PICK t : t = timer'.events
      OBVIOUS
    <3>1. PICK s \in Seq(Slices) : s = timer.events /\ t = timer'.events
      BY <1>0, <3>a DEF LotTypes
    <3>2. CASE v = 0
      BY <1>3, <3>2
    <3>3. CASE v # 0
      <4>1. PICK e : e = [id |-> i, volume |-> v]
        OBVIOUS
      <4>2. t = Append(s, e) /\ e.id = i
        BY <1>3, <3>1, <3>3, <4>1
      <4>3. e \in Slices
        BY <1>2, <3>3, <4>1 DEF Slices
      <4>4. \A k \in DOMAIN t : t[k] = e \/ (k \in DOMAIN s /\ t[k] = s[k])
        BY <4>2, <4>3
      <4> QED
        BY <3>1, <4>2, <4>4
    <3> QED
      BY <3>2, <3>3
  <2>3. \A k \in DOMAIN timer'.events : timer'.events[k].id \notin timer.todo /\ timer'.events[k].id \in Ids
    <3>1. \A k \in DOMAIN timer.events : timer.events[k].id \in Ids
      BY <1>0, SliceIds DEF LotTypes
    <3> QED
      BY <1>1, <1>2, <2>1, <2>2, <3>1 DEF OneSlice
  <2>4. NoId \notin timer.todo
    BY <1>0, NoIdAssumption DEF LotTypes
  <2> QED
    BY <1>0, <1>2, <2>3, <2>4 DEF OneSlice
<1>16. AllInTime'
  <2>1. InTime(d)
    BY <1>5, <1>6 DEF InTime
  <2>2. \A j \in Ids : contexts'[j].made => InTime(contexts'[j])
    BY <1>0, <1>3, <1>4, <2>1
  <2> QED
    BY <1>0, <1>2, <2>2 DEF EndParts, AllInTime
<1>17. SlotsToCome'
  <2> SUFFICES ASSUME NEW j \in Ids, contexts'[j].made, Undisturbed(j)'
               PROVE  contexts'[j].real = contexts'[j].total \/ SlotToCome(j)'
    BY DEF SlotsToCome
  <2>1. CASE j # i
    <3>1. Undisturbed(j)
      BY <1>2, <1>8, <2>1 DEF Undisturbed, Running
    <3>2. contexts[j].real = contexts[j].total \/ SlotToCome(j)
      BY <1>0, <1>10, <3>1 DEF EndParts, SlotsToCome
    <3> QED
      BY <1>2, <1>3, <1>7, <2>1, <3>2 DEF SlotToCome
  <2>2. CASE j = i
    <3>1. Undisturbed(i) /\ orders' = orders
      <4>1. orders'[i].status # "End"
        BY <2>2 DEF Undisturbed, Running, Live
      <4>2. orders' = orders
        BY <1>2, <4>1
      <4> QED
        BY <1>2, <2>2, <4>2 DEF Undisturbed, Running
    <3>2. c.total - c.real > 0 /\ CheckedAt(c, d, NowTime)
      <4>1. orders[i].status # "End"
        BY <3>1 DEF Undisturbed, Running, Live
      <4> QED
        BY <1>2, <1>4, <3>1, <4>1
    <3>3. /\ c.slots < c.times /\ NowTime <= c.this
          /\ c.this < c.next /\ c.this \in Nat /\ c.next \in Nat
      BY <1>11, <1>12, <3>1, <3>2
    <3>4. i \in seen'
      BY <1>2
    <3>5. CASE d = c /\ NowTime < c.this
      BY <1>4, <1>7, <2>2, <3>3, <3>4, <3>5 DEF SlotToCome
    <3>6. CASE NowTime >= c.this /\ NowTime > c.next
      BY <1>0, <3>3, <3>6
    <3>7. CASE /\ NowTime >= c.this /\ d.this = c.next /\ d.slots = c.slots + 1
               /\ c.slots + 1 = c.times => d.real = c.total
      <4>1. NowTime < d.this
        BY <1>0, <3>3, <3>7
      <4>2. CASE c.slots + 1 = c.times
        BY <1>4, <1>6, <2>2, <3>7, <4>2
      <4>3. CASE c.slots + 1 # c.times
        <5>1. d.slots < d.times
          BY <1>6, <1>11, <3>3, <3>7, <4>3
        <5> QED
          BY <1>4, <1>7, <2>2, <3>4, <4>1, <5>1 DEF SlotToCome
      <4> QED
        BY <4>2, <4>3
    <3> QED
      BY <3>2, <3>5, <3>6, <3>7 DEF CheckedAt
  <2> QED
    BY <2>1, <2>2
<1>18. FirstToCome'
  <2> SUFFICES ASSUME inserting # NotInserting, ~contexts'[inserting.id].made, Undisturbed(inserting.id)'
               PROVE  NowTime <= inserting.context.this
    BY <1>2, <1>7 DEF FirstToCome
  <2>1. PICK j \in Ids : j = inserting.id
    BY <1>0 DEF InsertingOK
  <2>2. ~contexts[j].made /\ j # i
    BY <1>2, <1>10, <2>1
  <2>3. Undisturbed(j)
    BY <1>2, <1>8, <2>1, <2>2 DEF Undisturbed, Running
  <2> QED
    BY <1>0, <2>1, <2>2, <2>3 DEF EndParts, FirstToCome
<1>19. PlacedByTheEnd'
  <2>1. NotCancelled /\ OneSlice /\ PlacedByTheEnd
    BY <1>0 DEF EndParts
  <2> SUFFICES ASSUME NEW j \in cancels, orders'[j].status = "End", orders'[j].remain > 0, j \notin disturbed
               PROVE  FALSE
    BY <1>2 DEF PlacedByTheEnd
  <2>2. j = i /\ orders' # orders
    BY <1>8, <2>1 DEF NotCancelled, PlacedByTheEnd
  <2>3. /\ orders' = [orders EXCEPT ![i].status = "End"]
        /\ c.total - c.real <= 0 \/ NowTime > c.part.end
    BY <1>2, <1>4, <2>2
  <2>4. Undisturbed(i)
    BY <1>1, <2>1, <2>2 DEF NotCancelled, Undisturbed
  <2>5. c.real >= c.total
    <3>1. CASE c.real # c.total
      BY <1>0, <1>11, <1>12, <2>3, <2>4, <3>1
    <3> QED
      BY <1>11, <3>1
  <2>6. Volume(timer.events, i) = 0
    <3>1. \A k \in DOMAIN timer.events : timer.events[k].id # i
      BY <1>1, <2>1 DEF OneSlice
    <3> QED
      BY <1>0, <3>1, NoVolume DEF LotTypes
  <2>7. PICK done \in Nat : done = placed[i]
    BY <1>0, <1>2 DEF LotTypes
  <2>8. c.real = done + Volume(timer.events, i) /\ c.real <= c.total /\ orders[i].remain = c.total - done
    <3>1. orders[i].status # "Avoid"
      BY <2>4 DEF Undisturbed, Running, Live
    <3> QED
      BY <1>0, <1>2, <1>4, <2>7, <3>1 DEF LotsOf
  <2>9. orders[i].remain = 0
    BY <1>11, <2>5, <2>6, <2>7, <2>8
  <2>10. orders'[i].remain = orders[i].remain
    BY <1>2, <2>3
  <2> QED
    BY <2>2, <2>9, <2>10
<1> QED
  BY <1>13, <1>14, <1>15, <1>16, <1>17, <1>18, <1>19 DEF EndParts

(* A slice is placed, and the order ends when nothing is left, or it is *)
(* taken back and the order is disturbed.                               *)
LEMMA PlaceEnd ==
  ASSUME EndInv, PlaceSlice
  PROVE  EndParts'
<1>0. /\ Lots /\ LotTypes /\ InsertingOK /\ EndParts
      /\ NotCancelled /\ OneSlice /\ PlacedByTheEnd
      /\ \A j \in Ids : ContextOK(contexts[j]) /\ j # NoId
      /\ \A j \in Ids : contexts[j].made => InTime(contexts[j])
  BY EndBasics DEF EndInv, EndParts
<1>1. PICK i \in Ids :
           /\ contexts[i].made /\ TakenUp(i) /\ orders[i].remain > 0
           /\ timer.at = NoId /\ timer'.at = NoId /\ timer'.todo = timer.todo
           /\ \A k \in DOMAIN timer'.events : \E l \in DOMAIN timer.events : timer'.events[k] = timer.events[l]
           /\ UNCHANGED <<moment, cancels, inserting, seen>>
           /\ \A j \in Ids \ {i} : contexts'[j] = contexts[j] /\ orders'[j] = orders[j]
           /\ \/ /\ orders'[i].status = IF orders'[i].remain <= 0 THEN "End" ELSE "Executing"
                 /\ orders'[i].remain \in Int
                 /\ UNCHANGED <<contexts, disturbed>>
              \/ /\ disturbed' = disturbed \cup {i} /\ UNCHANGED orders
                 /\ \E v : contexts'[i] = [contexts[i] EXCEPT !.real = v]
  BY <1>0, PlaceParts
<1>2. NowTime' = NowTime
  BY <1>1 DEF NowTime, Now
<1>3. contexts'[i].made /\ InTime(contexts'[i])
  <2>1. PICK c, d : c = contexts[i] /\ d = contexts'[i]
    OBVIOUS
  <2>2. CASE d = c
    BY <1>0, <1>1, <2>1, <2>2
  <2>3. ASSUME NEW v, d = [c EXCEPT !.real = v] PROVE contexts'[i].made /\ InTime(contexts'[i])
    <3>1. /\ d.made = c.made /\ d.gap = c.gap /\ d.times = c.times
          /\ d.product = c.product /\ d.part = c.part
      BY <1>0, <2>1, <2>3 DEF ContextOK, NoContext
    <3>2. InTime(c) /\ c.made
      BY <1>0, <1>1, <2>1
    <3>3. InTime(d) /\ d.made
      BY <3>1, <3>2 DEF InTime
    <3> QED
      BY <2>1, <3>3
  <2> QED
    BY <1>1, <2>1, <2>2, <2>3
<1>4. orders'[i] = orders[i] \/ orders'[i].status \in {"End", "Executing"}
  BY <1>1
<1>5. \A j \in disturbed : j \in disturbed'
  BY <1>1
<1>6. NotCancelled'
  <2>1. ASSUME NEW j \in cancels PROVE orders'[j].status # "Cancelled" /\ j # NoId
    BY <1>0, <1>1, <1>4 DEF NotCancelled
  <2> QED
    BY <1>0, <1>1, <2>1 DEF NotCancelled
<1>7. SeenMade'
  BY <1>0, <1>1, <1>3 DEF EndParts, SeenMade
<1>8. OneSlice'
  BY <1>0, <1>1 DEF OneSlice
<1>9. AllInTime'
  <2>1. \A j \in Ids : contexts'[j].made => InTime(contexts'[j])
    BY <1>0, <1>1, <1>3
  <2> QED
    BY <1>0, <1>1, <2>1 DEF EndParts, AllInTime
<1>10. SlotsToCome'
  <2> SUFFICES ASSUME NEW j \in Ids, contexts'[j].made, Undisturbed(j)'
               PROVE  contexts'[j].real = contexts'[j].total \/ SlotToCome(j)'
    BY DEF SlotsToCome
  <2>1. contexts'[j] = contexts[j] /\ Undisturbed(j)
    <3>1. CASE j # i
      BY <1>1, <1>5, <3>1 DEF Undisturbed, Running
    <3>2. CASE j = i
      <4>1. i \in cancels /\ i \notin disturbed /\ UNCHANGED contexts
        BY <1>1, <3>2 DEF Undisturbed
      <4>2. orders[i].status \notin {"none", "Avoid", "Cancelled", "End"}
        BY <1>0, <1>1, <4>1 DEF NotCancelled, PlacedByTheEnd, TakenUp
      <4>3. orders[i].status \in Live \cup Ended \cup {"none"}
        BY <1>0 DEF LotTypes
      <4>4. Running(i)
        BY <4>2, <4>3 DEF Running, Ended
      <4> QED
        BY <3>2, <4>1, <4>4 DEF Undisturbed
    <3> QED
      BY <3>1, <3>2
  <2>2. contexts[j].real = contexts[j].total \/ SlotToCome(j)
    BY <1>0, <2>1 DEF EndParts, SlotsToCome
  <2> QED
    BY <1>1, <1>2, <2>1, <2>2 DEF SlotToCome
<1>11. FirstToCome'
  <2> SUFFICES ASSUME inserting # NotInserting, ~contexts'[inserting.id].made, Undisturbed(inserting.id)'
               PROVE  NowTime <= inserting.context.this
    BY <1>1, <1>2 DEF FirstToCome
  <2>1. PICK j \in Ids : j = inserting.id
    BY <1>0 DEF InsertingOK
  <2>2. ~contexts[j].made /\ j # i
    BY <1>1, <1>3, <2>1
  <2>3. Undisturbed(j)
    BY <1>1, <1>5, <2>1, <2>2 DEF Undisturbed, Running
  <2> QED
    BY <1>0, <2>1, <2>2, <2>3 DEF EndParts, FirstToCome
<1>12. PlacedByTheEnd'
  <2> SUFFICES ASSUME NEW j \in cancels, orders'[j].status = "End", orders'[j].remain > 0
               PROVE  j \in disturbed'
    BY <1>1 DEF PlacedByTheEnd
  <2>1. CASE orders'[j] = orders[j]
    BY <1>0, <1>5, <2>1 DEF PlacedByTheEnd
  <2>2. CASE orders'[j] # orders[j]
    BY <1>0, <1>1, <2>2 DEF NotCancelled
  <2> QED
    BY <2>1, <2>2
<1> QED
  BY <1>6, <1>7, <1>8, <1>9, <1>10, <1>11, <1>12 DEF EndParts

(* EndInv is inductive when the clock skips no second of trading. *)
LEMMA NextEnd ==
  ASSUME EverySecondComes, EndInv, [Next]_vars
  PROVE  EndInv'
<1>1. Schedule'
  BY NextLots, NextSchedule DEF EndInv, Schedule
<1>2. EndParts'
  BY KeptEnd, InsertOrderEnd, InsertContextEnd, CancelOrderEnd, CheckEnd, PlaceEnd, ClockEnd
     DEF Next, Consumer, MainLoop
<1> QED
  BY <1>1, <1>2 DEF EndInv

(* An order that nobody cancels and that ends with volume left was once not  *)
(* checked for a whole second, or had no price at a slot: as the slots       *)
(* (getTotalSecond, getStandardTime) fit into the time of the order and the  *)
(* last one takes all that is left (DoCheck), nothing else can keep a lot    *)
(* back, provided that no second of trading passes unread.                   *)
THEOREM AllPlacedByTheEnd ==
  ASSUME EverySecondComes
  PROVE  Spec => []PlacedByTheEnd
<1>1. Init => EndInv
  BY InitSchedule, InitEnd DEF EndInv
<1>2. EndInv /\ [Next]_vars => EndInv'
  BY NextEnd
<1>3. EndInv => PlacedByTheEnd
  BY DEF EndInv, EndParts
<1> QED
  BY <1>1, <1>2, <1>3, PTL DEF Spec
=============================================================================
