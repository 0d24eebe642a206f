-------------------------- MODULE PositionsProofs ---------------------------
(***************************************************************************)
(* What Positions.tla says of the locks and the counts of a position, for  *)
(* all orders, volumes and positions to begin with, with and without a     *)
(* split of today's position:                                              *)
(*   LocksInv   through lost connections.  PosInv says what state an entry *)
(*              of the book, a report and a record can be in, and whose    *)
(*              keys are in the tables; UpperInv that at most what orders  *)
(*              in the lock table ask for is locked; LowerInv that at      *)
(*              least what is left of orders that may still unlock it is.  *)
(*              JobInv, SentInv and NoOverlap say whose keys the listening *)
(*              thread, sent orders and the records of a query bring.      *)
(*   CalmInv    while the connection holds.  HoldInv: what the exchange    *)
(*              holds is what was opened less what was closed.  HeardInv:  *)
(*              which orders the engine has heard of.  ExactInv: the locks *)
(*              are the volumes of the orders it has heard of, and of      *)
(*              those that have ended what they traded.                    *)
(*   CountInv   what the engine has counted is what was opened, but for    *)
(*              the trades still to be reported.                           *)
(*   ChosenInv  an order autoOffset has chosen to close with finds its     *)
(*              volume beside the engine's other orders.                   *)
(* Locks and positions are compared as sums over all orders: a step        *)
(* changes the summand of one order (the one it is about) and leaves those *)
(* of the others alone.  So every section has lemmas for the order of a    *)
(* step and one for the others, and SumProofs adds them up.                *)
(***************************************************************************)
EXTENDS Positions, SumProofs

-----------------------------------------------------------------------------
(* Sequences of reports: what comes is added last and handled first.       *)

Elements(s) == {s[k] : k \in DOMAIN s}

-----------------------------------------------------------------------------
(* Sequences of reports *)
OrderReports == [type: {"order"}, order: Orders, state: {"live", "done", "cancelled"}, left: Nat]
Reports == OrderReports \cup [type: {"trade", "reject"}, order: Orders]

Cancels(r) == r.type = "order" /\ r.state = "cancelled"
Ends(r) == r.type = "reject" \/ Cancels(r)

EndIn(s, o)    == \E r \in Elements(s) : r.order = o /\ Ends(r)
CancelIn(s, o) == \E r \in Elements(s) : r.order = o /\ Cancels(r)
RejectIn(s, o) == \E r \in Elements(s) : r.order = o /\ r.type = "reject"

(* No order ends twice. *)
OneEnd(s) ==
  \A i, j \in DOMAIN s : i # j /\ Ends(s[i]) /\ Ends(s[j]) => s[i].order # s[j].order

(* An order is reported before its cancellation is. *)
Announced(s, o) ==
  \E j \in DOMAIN s :
     /\ s[j].order = o /\ s[j].type = "order" /\ s[j].state # "cancelled"
     /\ \A i \in 1 .. j - 1 : ~(s[i].order = o /\ Cancels(s[i]))

(* The trades of the orders of T *)
TradeOf(s, T) == [i \in DOMAIN s |-> IF s[i].type = "trade" /\ s[i].order \in T THEN 1 ELSE 0]
TradesOf(s, T) == Sum(TradeOf(s, T), DOMAIN s)

LEMMA ReportsSeq ==
  ASSUME NEW s \in Seq(Reports)
  PROVE  /\ Len(s) \in Nat /\ DOMAIN s = 1 .. Len(s)
         /\ \A i \in 1 .. Len(s) : s[i] \in Reports
         /\ Elements(s) \subseteq Reports
         /\ IsFiniteSet(DOMAIN s)
<1>1. Len(s) \in Nat /\ DOMAIN s = 1 .. Len(s) /\ \A i \in 1 .. Len(s) : s[i] \in Reports
  OBVIOUS
<1>2. IsFiniteSet(1 .. Len(s))
  BY <1>1, FS_Interval
<1> QED
  BY <1>1, <1>2 DEF Elements

LEMMA AppendReport ==
  ASSUME NEW s \in Seq(Reports), NEW r \in Reports
  PROVE  /\ Append(s, r) \in Seq(Reports) /\ Append(s, r) # << >>
         /\ Len(Append(s, r)) = Len(s) + 1
         /\ \A i \in 1 .. Len(s) : Append(s, r)[i] = s[i]
         /\ Append(s, r)[Len(s) + 1] = r
         /\ Elements(Append(s, r)) = Elements(s) \cup {r}
<1> DEFINE t == Append(s, r)
<1>1. /\ t \in Seq(Reports) /\ Len(t) = Len(s) + 1 /\ \A i \in 1 .. Len(s) : t[i] = s[i]
      /\ t[Len(s) + 1] = r
  OBVIOUS
<1>2. DOMAIN t = 1 .. Len(s) + 1 /\ DOMAIN s = 1 .. Len(s) /\ Len(s) \in Nat
  BY <1>1, ReportsSeq
<1>3. t # << >>
  OBVIOUS
<1> HIDE DEF t
<1>4. Elements(t) = Elements(s) \cup {r}
  <2>1. ASSUME NEW x \in Elements(t) PROVE x \in Elements(s) \cup {r}
    <3>1. PICK k \in 1 .. Len(s) + 1 : x = t[k]
      BY <1>2 DEF Elements
    <3>2. CASE k = Len(s) + 1
      BY <1>1, <3>1, <3>2
    <3>3. CASE k # Len(s) + 1
      <4>1. k \in 1 .. Len(s)
        BY <1>2, <3>3
      <4> QED
        BY <1>1, <1>2, <3>1, <4>1 DEF Elements
    <3> QED
      BY <3>2, <3>3
  <2>2. ASSUME NEW x \in Elements(s) PROVE x \in Elements(t)
    <3>1. PICK k \in 1 .. Len(s) : x = s[k]
      BY <1>2 DEF Elements
    <3>2. k \in 1 .. Len(s) + 1 /\ t[k] = x
      BY <1>1, <1>2, <3>1
    <3> QED
      BY <1>2, <3>2 DEF Elements
  <2>3. r \in Elements(t)
    <3>1. Len(s) + 1 \in 1 .. Len(s) + 1
      BY <1>2
    <3> QED
      BY <1>1, <1>2, <3>1 DEF Elements
  <2> QED
    BY <2>1, <2>2, <2>3
<1> QED
  BY <1>1, <1>3, <1>4 DEF t

LEMMA TailReport ==
  ASSUME NEW s \in Seq(Reports), s # << >>
  PROVE  /\ Tail(s) \in Seq(Reports) /\ Head(s) \in Reports
         /\ Len(s) \in Nat \ {0} /\ Len(Tail(s)) = Len(s) - 1
         /\ \A i \in 1 .. Len(s) - 1 : Tail(s)[i] = s[i + 1]
         /\ Head(s) = s[1]
         /\ Elements(s) = Elements(Tail(s)) \cup {Head(s)}
<1> DEFINE t == Tail(s)
           h == Head(s)
<1>1. /\ t \in Seq(Reports) /\ h \in Reports /\ Len(s) \in Nat \ {0} /\ Len(t) = Len(s) - 1
      /\ \A i \in 1 .. Len(s) - 1 : t[i] = s[i + 1]
      /\ h = s[1]
  OBVIOUS
<1>2. DOMAIN t = 1 .. Len(s) - 1 /\ DOMAIN s = 1 .. Len(s) /\ Len(s) \in Nat
  BY <1>1, ReportsSeq
<1> HIDE DEF t, h
<1>3. Elements(s) = Elements(t) \cup {h}
  <2>1. ASSUME NEW x \in Elements(t) PROVE x \in Elements(s)
    <3>1. PICK k \in 1 .. Len(s) - 1 : x = t[k]
      BY <1>2 DEF Elements
    <3>2. k + 1 \in 1 .. Len(s) /\ s[k + 1] = x
      BY <1>1, <1>2, <3>1
    <3> QED
      BY <1>2, <3>2 DEF Elements
  <2>2. ASSUME NEW x \in Elements(s) PROVE x \in Elements(t) \cup {h}
    <3>1. PICK k \in 1 .. Len(s) : x = s[k]
      BY <1>2 DEF Elements
    <3>2. CASE k = 1
      BY <1>1, <3>1, <3>2
    <3>3. CASE k # 1
      <4>1. k - 1 \in 1 .. Len(s) - 1 /\ t[k - 1] = s[k - 1 + 1] /\ k - 1 + 1 = k
        BY <1>1, <1>2, <3>3
      <4> QED
        BY <1>2, <3>1, <4>1 DEF Elements
    <3> QED
      BY <3>2, <3>3
  <2>3. h \in Elements(s)
    <3>1. 1 \in 1 .. Len(s)
      BY <1>1
    <3> QED
      BY <1>1, <1>2, <3>1 DEF Elements
  <2> QED
    BY <2>1, <2>2, <2>3
<1> QED
  BY <1>1, <1>3 DEF t, h

LEMMA NoReports ==
  /\ << >> \in Seq(Reports) /\ Elements(<< >>) = {} /\ OneEnd(<< >>)
  /\ \A T : TradesOf(<< >>, T) = 0
<1>1. DOMAIN << >> = {}
  OBVIOUS
<1>2. \A T : TradesOf(<< >>, T) = 0
  BY <1>1, EmptySum DEF TradesOf
<1> QED
  BY <1>1, <1>2 DEF Elements, OneEnd

(* OneEnd when a report comes ... *)
LEMMA AppendEnd ==
  ASSUME NEW s \in Seq(Reports), NEW r \in Reports, OneEnd(s), Ends(r) => ~EndIn(s, r.order)
  PROVE  OneEnd(Append(s, r))
<1> DEFINE t == Append(s, r)
<1>1. /\ t \in Seq(Reports) /\ Len(t) = Len(s) + 1 /\ \A i \in 1 .. Len(s) : t[i] = s[i]
      /\ t[Len(s) + 1] = r
  BY AppendReport
<1>2. DOMAIN t = 1 .. Len(s) + 1 /\ DOMAIN s = 1 .. Len(s) /\ Len(s) \in Nat
  BY <1>1, ReportsSeq
<1> HIDE DEF t
<1>3. ASSUME NEW i \in 1 .. Len(s) + 1, NEW j \in 1 .. Len(s) + 1, i < j, Ends(t[i]), Ends(t[j])
      PROVE  t[i].order # t[j].order
  <2>1. i \in 1 .. Len(s) /\ t[i] = s[i]
    BY <1>1, <1>2, <1>3
  <2>2. CASE j = Len(s) + 1
    <3>1. s[i] \in Elements(s)
      BY <1>2, <2>1 DEF Elements
    <3>2. t[j] = r
      BY <1>1, <2>2
    <3> QED
      BY <1>3, <2>1, <3>1, <3>2 DEF EndIn
  <2>3. CASE j # Len(s) + 1
    <3>1. j \in 1 .. Len(s) /\ t[j] = s[j]
      BY <1>1, <1>2, <2>3
    <3> QED
      BY <1>2, <1>3, <2>1, <3>1 DEF OneEnd
  <2> QED
    BY <2>2, <2>3
<1>4. ASSUME NEW i \in DOMAIN t, NEW j \in DOMAIN t, i # j, Ends(t[i]), Ends(t[j])
      PROVE  t[i].order # t[j].order
  <2>1. i \in 1 .. Len(s) + 1 /\ j \in 1 .. Len(s) + 1
    BY <1>2
  <2>2. CASE i < j
    BY <1>3, <1>4, <2>1, <2>2
  <2>3. CASE j < i
    BY <1>3, <1>4, <2>1, <2>3
  <2> QED
    BY <1>2, <1>4, <2>1, <2>2, <2>3
<1> QED
  BY <1>4 DEF OneEnd, t

(* ... and when one is handled *)
LEMMA TailEnd ==
  ASSUME NEW s \in Seq(Reports), s # << >>, OneEnd(s)
  PROVE  OneEnd(Tail(s)) /\ (Ends(Head(s)) => ~EndIn(Tail(s), Head(s).order))
<1> DEFINE t == Tail(s)
           h == Head(s)
<1>1. /\ t \in Seq(Reports) /\ Len(s) \in Nat \ {0} /\ Len(t) = Len(s) - 1
      /\ \A i \in 1 .. Len(s) - 1 : t[i] = s[i + 1]
      /\ h = s[1]
  BY TailReport
<1>2. DOMAIN t = 1 .. Len(s) - 1 /\ DOMAIN s = 1 .. Len(s) /\ Len(s) \in Nat
  BY <1>1, ReportsSeq
<1> HIDE DEF t, h
<1>3. \A i \in DOMAIN t : i + 1 \in DOMAIN s /\ t[i] = s[i + 1] /\ i + 1 # 1
  BY <1>1, <1>2
<1>4. ASSUME NEW i \in DOMAIN t, NEW j \in DOMAIN t, i # j, Ends(t[i]), Ends(t[j])
      PROVE  t[i].order # t[j].order
  <2>1. i + 1 # j + 1
    BY <1>2, <1>4
  <2> QED
    BY <1>3, <1>4, <2>1 DEF OneEnd
<1>5. ASSUME Ends(h), NEW x \in Elements(t), Ends(x) PROVE x.order # h.order
  <2>1. PICK i \in DOMAIN t : x = t[i]
    BY DEF Elements
  <2>2. 1 \in DOMAIN s
    BY <1>1, <1>2
  <2> QED
    BY <1>1, <1>3, <1>5, <2>1, <2>2 DEF OneEnd
<1> QED
  BY <1>4, <1>5 DEF OneEnd, EndIn, t, h

LEMMA AppendAnnounced ==
  ASSUME NEW s \in Seq(Reports), NEW r \in Reports, NEW o
  PROVE  /\ Announced(s, o) => Announced(Append(s, r), o)
         /\ r.order = o /\ r.type = "order" /\ r.state # "cancelled" /\ ~CancelIn(s, o)
              => Announced(Append(s, r), o)
<1> DEFINE t == Append(s, r)
<1>1. /\ t \in Seq(Reports) /\ Len(t) = Len(s) + 1 /\ \A i \in 1 .. Len(s) : t[i] = s[i]
      /\ t[Len(s) + 1] = r
  BY AppendReport
<1>2. DOMAIN t = 1 .. Len(s) + 1 /\ DOMAIN s = 1 .. Len(s) /\ Len(s) \in Nat
  BY <1>1, ReportsSeq
<1> HIDE DEF t
<1>3. ASSUME Announced(s, o) PROVE Announced(t, o)
  <2>1. PICK j \in DOMAIN s :
          /\ s[j].order = o /\ s[j].type = "order" /\ s[j].state # "cancelled"
          /\ \A i \in 1 .. j - 1 : ~(s[i].order = o /\ Cancels(s[i]))
    BY <1>3 DEF Announced
  <2>2. j \in DOMAIN t /\ t[j] = s[j]
    BY <1>1, <1>2
  <2>3. \A i \in 1 .. j - 1 : t[i] = s[i]
    BY <1>1, <1>2
  <2> QED
    BY <2>1, <2>2, <2>3 DEF Announced
<1>4. ASSUME r.order = o, r.type = "order", r.state # "cancelled", ~CancelIn(s, o) PROVE Announced(t, o)
  <2>1. Len(s) + 1 \in DOMAIN t
    BY <1>2
  <2>2. ASSUME NEW i \in 1 .. (Len(s) + 1) - 1 PROVE ~(t[i].order = o /\ Cancels(t[i]))
    <3>1. i \in DOMAIN s /\ t[i] = s[i]
      BY <1>1, <1>2
    <3> QED
      BY <1>4, <3>1 DEF CancelIn, Elements
  <2> QED
    BY <1>1, <1>4, <2>1, <2>2 DEF Announced
<1> QED
  BY <1>3, <1>4 DEF t

LEMMA TailAnnounced ==
  ASSUME NEW s \in Seq(Reports), s # << >>, NEW o, Announced(s, o)
  PROVE  /\ Head(s).order = o => ~Cancels(Head(s))
         /\ Head(s).order # o \/ Head(s).type # "order" => Announced(Tail(s), o)
<1> DEFINE t == Tail(s)
           h == Head(s)
<1>1. /\ t \in Seq(Reports) /\ Len(s) \in Nat \ {0} /\ Len(t) = Len(s) - 1
      /\ \A i \in 1 .. Len(s) - 1 : t[i] = s[i + 1]
      /\ h = s[1]
  BY TailReport
<1>2. DOMAIN t = 1 .. Len(s) - 1 /\ DOMAIN s = 1 .. Len(s) /\ Len(s) \in Nat
  BY <1>1, ReportsSeq
<1> HIDE DEF t, h
<1>3. PICK j \in DOMAIN s :
        /\ s[j].order = o /\ s[j].type = "order" /\ s[j].state # "cancelled"
        /\ \A i \in 1 .. j - 1 : ~(s[i].order = o /\ Cancels(s[i]))
  BY DEF Announced
<1>4. CASE j = 1
  BY <1>1, <1>3, <1>4 DEF Cancels
<1>5. CASE j # 1
  <2>1. 1 \in 1 .. j - 1
    BY <1>2, <1>5
  <2>2. j - 1 \in DOMAIN t /\ t[j - 1] = s[j - 1 + 1] /\ j - 1 + 1 = j
    BY <1>1, <1>2, <1>5
  <2>3. ASSUME NEW i \in 1 .. (j - 1) - 1 PROVE ~(t[i].order = o /\ Cancels(t[i]))
    <3>1. i + 1 \in 1 .. j - 1 /\ t[i] = s[i + 1]
      BY <1>1, <1>2
    <3> QED
      BY <1>3, <3>1
  <2>4. Announced(t, o)
    BY <1>3, <2>2, <2>3 DEF Announced
  <2> QED
    BY <1>1, <1>3, <2>1, <2>4 DEF t, h
<1> QED
  BY <1>4, <1>5

LEMMA TradesAreInt ==
  ASSUME NEW s \in Seq(Reports), NEW T
  PROVE  TradesOf(s, T) \in Int
<1>1. IsFiniteSet(DOMAIN s)
  BY ReportsSeq
<1> DEFINE f == TradeOf(s, T)
<1>2. \A i \in DOMAIN s : f[i] \in Int
  BY DEF TradeOf
<1> HIDE DEF f
<1>3. Sum(f, DOMAIN s) \in Int
  BY <1>1, <1>2, TakenSum
<1> QED
  BY <1>3 DEF TradesOf, f

(* A report that comes is counted last ... *)
LEMMA AppendTrades ==
  ASSUME NEW s \in Seq(Reports), NEW r \in Reports, NEW T
  PROVE  TradesOf(Append(s, r), T) =
           TradesOf(s, T) + (IF r.type = "trade" /\ r.order \in T THEN 1 ELSE 0)
<1> DEFINE t == Append(s, r)
           n == Len(s) + 1
<1>1. /\ t \in Seq(Reports) /\ Len(t) = n /\ \A i \in 1 .. Len(s) : t[i] = s[i]
      /\ t[n] = r
  BY AppendReport
<1>2. DOMAIN t = 1 .. n /\ DOMAIN s = 1 .. Len(s) /\ Len(s) \in Nat /\ IsFiniteSet(DOMAIN s)
  BY <1>1, ReportsSeq
<1> HIDE DEF t
<1>3. DOMAIN t = DOMAIN s \cup {n} /\ n \notin DOMAIN s
  BY <1>2
<1> DEFINE e == TradeOf(t, T)
           f == TradeOf(s, T)
<1>4. \A i \in DOMAIN s : e[i] = f[i]
  BY <1>1, <1>2, <1>3 DEF TradeOf
<1>5. e[n] = (IF r.type = "trade" /\ r.order \in T THEN 1 ELSE 0)
  BY <1>1, <1>3 DEF TradeOf
<1>6. \A i \in DOMAIN s : e[i] \in Int
  BY <1>3 DEF TradeOf
<1>7. TradesOf(t, T) = Sum(e, DOMAIN t) /\ TradesOf(s, T) = Sum(f, DOMAIN s)
  BY DEF TradesOf
<1> HIDE DEF e, f, n
<1>8. e[n] \in Int
  BY <1>5
<1>9. Sum(e, DOMAIN s \cup {n}) = e[n] + Sum(e, DOMAIN s)
  BY <1>2, <1>3, <1>6, <1>8, AddedSum
<1>10. Sum(e, DOMAIN s) = Sum(f, DOMAIN s)
  BY <1>2, <1>4, SameSum
<1>11. Sum(e, DOMAIN s) \in Int
  BY <1>2, <1>6, TakenSum
<1> QED
  BY <1>3, <1>5, <1>7, <1>8, <1>9, <1>10, <1>11 DEF t

(* ... and is taken away first. *)
LEMMA TailTrades ==
  ASSUME NEW s \in Seq(Reports), s # << >>, NEW T
  PROVE  TradesOf(s, T) =
           TradesOf(Tail(s), T) + (IF Head(s).type = "trade" /\ Head(s).order \in T THEN 1 ELSE 0)
<1> DEFINE t == Tail(s)
           h == Head(s)
<1>1. /\ t \in Seq(Reports) /\ Len(s) \in Nat \ {0} /\ Len(t) = Len(s) - 1
      /\ \A i \in 1 .. Len(s) - 1 : t[i] = s[i + 1]
      /\ h = s[1]
  BY TailReport
<1>2. DOMAIN t = 1 .. Len(s) - 1 /\ DOMAIN s = 1 .. Len(s) /\ Len(s) \in Nat
      /\ IsFiniteSet(DOMAIN s) /\ IsFiniteSet(DOMAIN t)
  BY <1>1, ReportsSeq
<1> HIDE DEF t, h
<1> DEFINE S == DOMAIN s \ {1}
           U == DOMAIN t
           e == TradeOf(t, T)
           f == TradeOf(s, T)
           m == [i \in U |-> i + 1]
<1>3. 1 \in DOMAIN s /\ f[1] = (IF h.type = "trade" /\ h.order \in T THEN 1 ELSE 0)
  BY <1>1, <1>2 DEF TradeOf
<1>4. \A i \in DOMAIN s : f[i] \in Int
  BY DEF TradeOf
<1>5. /\ \A i \in U : m[i] \in S
      /\ \A i, j \in U : i # j => m[i] # m[j]
      /\ \A k \in S : \E i \in U : k = m[i]
  <2>1. \A k \in S : k - 1 \in U /\ k = (k - 1) + 1
    BY <1>2
  <2> QED
    BY <1>2, <2>1
<1>6. \A i \in U : e[i] = f[m[i]]
  <2>1. ASSUME NEW i \in U PROVE e[i] = f[m[i]]
    <3>1. m[i] = i + 1 /\ i + 1 \in DOMAIN s /\ t[i] = s[i + 1]
      BY <1>1, <1>2
    <3> QED
      BY <3>1 DEF TradeOf
  <2> QED
    BY <2>1
<1>7. \A i \in U : e[i] \in Int
  BY DEF TradeOf
<1>8. {m[i] : i \in U} = S
  <2> HIDE DEF m, U, S
  <2> QED
    BY <1>5
<1>9. TradesOf(t, T) = Sum(e, U) /\ TradesOf(s, T) = Sum(f, DOMAIN s)
  BY DEF TradesOf
<1>10. IsFiniteSet(U)
  BY <1>2
<1> HIDE DEF e, f, m, U, S
<1>11. Sum(f, {m[i] : i \in U}) = Sum(e, U)
  BY <1>5, <1>6, <1>7, <1>10, RenamedSum
<1>12. Sum(f, DOMAIN s) = f[1] + Sum(f, S)
  BY <1>2, <1>3, <1>4, TakenSum DEF S
<1>13. Sum(e, U) \in Int
  BY <1>7, <1>10, TakenSum
<1>14. Sum(f, DOMAIN s) = Sum(e, U) + f[1] /\ f[1] = (IF h.type = "trade" /\ h.order \in T THEN 1 ELSE 0)
  <2>1. f[1] \in Int
    BY <1>3
  <2>2. Sum(f, S) = Sum(e, U)
    BY <1>8, <1>11
  <2> QED
    BY <1>3, <1>12, <1>13, <2>1, <2>2
<1> QED
  BY <1>9, <1>14 DEF t, h

-----------------------------------------------------------------------------
(* The invariant of types, keys and reports                                *)

BookStates == {"sent", "live", "rejected", "cancelled", "done", "failed"}
Entries == [state: BookStates, direction: Directions, offset: Offsets, volume: Nat \ {0}, left: Nat, session: Nat]
Jobs == [pc: {"read", "lock", "record"}, order: Own, direction: Directions, volume: Nat \ {0},
         chosen: BOOLEAN, offset: Offsets]
Details == [Sides -> [yesterday: Int, today: Int, lock: [Locks -> Int]]]
Records(query) ==
  CASE query = "orders" -> [order: Orders, state: {"live", "cancelled", "done"}]
    [] query = "trades" -> Orders \X Nat
    [] query = "positions" -> Sides

Booked(o) == book[o] # NotPlaced

PosTypeOK ==
  /\ known \in BOOLEAN /\ pos \in Details
  /\ job = Idle \/ job \in Jobs
  /\ session \in Nat /\ stage \in Stages
  /\ reports \in Seq(Reports) /\ (stage = "down" => reports = << >>)
  /\ answer # << >> => /\ stage \in {"orders", "trades", "positions"}
                       /\ \E rows \in SUBSET Records(stage) : answer = <<rows>>
  /\ DOMAIN book = Orders /\ \A o \in Orders : Booked(o) => book[o] \in Entries
  /\ hold \in [Sides -> [Locks -> Int]]

(* An order at the exchange *)
EntryOK(o) ==
  Booked(o) =>
    /\ book[o].left <= book[o].volume
    /\ book[o].state \in {"sent", "rejected", "failed"} => book[o].left = book[o].volume
    /\ book[o].state = "live" => book[o].left > 0
    /\ book[o].state = "done" => book[o].left = 0
    /\ book[o].session <= session
    /\ o \in Foreign => book[o].session = 0 /\ book[o].state \notin {"sent", "rejected", "failed"}

(* The keys the engine has are of orders that were placed or are about to be *)
KeyOK(k) ==
  /\ k \in Orders \X Nat
  /\ Booked(k[1]) \/ (job # Idle /\ job.pc = "record" /\ k[1] = job.order)

KeysOK ==
  /\ job # Idle => ~Booked(job.order)
  /\ \A k \in recorded \cup lockInfo : KeyOK(k)
  /\ \A k \in unlocked : KeyOK(k) /\ Booked(k[1]) /\ book[k[1]].state = "cancelled"
  /\ lockInfo \subseteq recorded

(* What the exchange has said of an order is so. *)
ReportOK(r) ==
  /\ Booked(r.order) /\ book[r.order].state \notin {"sent", "failed"}
  /\ Cancels(r) => book[r.order].state = "cancelled" /\ r.left = book[r.order].left
  /\ r.type = "reject" => /\ book[r.order].state = "rejected"
                          /\ r.order \in Own /\ book[r.order].session = session /\ stage # "down"

ReportsOK == OneEnd(reports) /\ \A r \in Elements(reports) : ReportOK(r)

RowsOK ==
  stage = "orders" /\ answer # << >> =>
    \A row \in answer[1] : /\ Booked(row.order) /\ book[row.order].state \notin {"sent", "rejected", "failed"}
                           /\ row.state = "cancelled" => book[row.order].state = "cancelled"

PosInv == PosTypeOK /\ (\A o \in Orders : EntryOK(o)) /\ KeysOK /\ ReportsOK /\ RowsOK

-----------------------------------------------------------------------------
LEMMA Kinds ==
  /\ \A d, f : PositionDirection(d, f) \in Sides
  /\ \A f : LockOf(f) \in Locks
  /\ \A d, v : AutoOffset(d, v) \in Offsets
<1>1. \A d, f : PositionDirection(d, f) \in Sides
  BY DEF PositionDirection, Sides
<1>2. \A f : LockOf(f) \in Locks
  BY SplitsAssumption DEF LockOf, Locks
<1>3. \A d, v : AutoOffset(d, v) \in Offsets
  BY SplitsAssumption DEF AutoOffset, Offsets
<1> QED
  BY <1>1, <1>2, <1>3

LEMMA Locked ==
  ASSUME NEW side \in Sides, NEW l \in Locks, NEW n \in Int, pos \in Details, AddLock(side, l, n)
  PROVE  /\ pos' \in Details /\ known' \in BOOLEAN /\ known'
         /\ \A s \in Sides : /\ pos'[s].today = pos[s].today /\ pos'[s].yesterday = pos[s].yesterday
                             /\ \A k \in Locks : pos'[s].lock[k] =
                                  IF s = side /\ k = l THEN pos[s].lock[k] + n ELSE pos[s].lock[k]
BY DEF Details, AddLock

LEMMA Counted ==
  ASSUME NEW side \in Sides, NEW n \in Int, pos \in Details, AddToday(side, n)
  PROVE  /\ pos' \in Details /\ known' \in BOOLEAN /\ known'
         /\ \A s \in Sides : /\ pos'[s].today = IF s = side THEN pos[s].today + n ELSE pos[s].today
                             /\ pos'[s].yesterday = pos[s].yesterday
                             /\ pos'[s].lock = pos[s].lock
BY DEF Details, AddToday

LEMMA Reported ==
  ASSUME reports \in Seq(Reports)
  PROVE  /\ Report(<< >>) => reports' = reports
         /\ \A r \in Reports :
              Report(<<r>>) => reports' = IF stage = "down" THEN reports ELSE Append(reports, r)
         /\ \A q, r \in Reports :
              Report(<<q, r>>) =>
                 reports' = IF stage = "down" THEN reports ELSE Append(Append(reports, q), r)
<1>1. reports \o << >> = reports
  OBVIOUS
<1>2. ASSUME NEW r \in Reports PROVE reports \o <<r>> = Append(reports, r)
  OBVIOUS
<1>3. ASSUME NEW q \in Reports, NEW r \in Reports
      PROVE  reports \o <<q, r>> = Append(Append(reports, q), r)
  OBVIOUS
<1> QED
  BY <1>1, <1>2, <1>3 DEF Report

LEMMA InitPos == PosInit => PosInv
<1> SUFFICES ASSUME PosInit PROVE PosInv
  OBVIOUS
<1>1. PosTypeOK
  <2>1. pos \in Details /\ hold \in [Sides -> [Locks -> Int]]
    BY YesterdayAssumption DEF PosInit, Details, EmptyPos, Sides, Locks
  <2>2. \A o \in Orders : ~Booked(o)
    BY DEF PosInit, Booked
  <2>3. known \in BOOLEAN /\ reports \in Seq(Reports)
    BY DEF PosInit
  <2> QED
    BY <2>1, <2>2, <2>3 DEF PosInit, PosTypeOK, Stages
<1>2. \A o \in Orders : EntryOK(o)
  BY DEF EntryOK, Booked, PosInit
<1>3. KeysOK
  BY DEF KeysOK, PosInit
<1>4. ReportsOK
  BY NoReports DEF ReportsOK, PosInit
<1>5. RowsOK
  BY DEF RowsOK, PosInit
<1> QED
  BY <1>1, <1>2, <1>3, <1>4, <1>5 DEF PosInv

-----------------------------------------------------------------------------
(* The exchange *)
LEMMA Placing ==
  ASSUME PosInv, NEW o \in Orders, NEW e \in Entries, book' = [book EXCEPT ![o] = e]
  PROVE  /\ DOMAIN book' = Orders /\ book'[o] = e
         /\ \A x \in Orders : x # o => book'[x] = book[x]
         /\ Booked(o)' /\ \A x \in Orders : x # o => (Booked(x)' <=> Booked(x))
         /\ \A x \in Orders : Booked(x)' => book'[x] \in Entries
<1>1. DOMAIN book = Orders /\ \A x \in Orders : Booked(x) => book[x] \in Entries
  BY DEF PosInv, PosTypeOK
<1>2. e # NotPlaced
  BY DEF Entries, BookStates, NotPlaced
<1>3. DOMAIN book' = Orders /\ book'[o] = e /\ \A x \in Orders : x # o => book'[x] = book[x]
  BY <1>1
<1> QED
  BY <1>1, <1>2, <1>3 DEF Booked

LEMMA ExchangeStep ==
  ASSUME PosInv, NEW o \in Orders, NEW e \in Entries, book' = [book EXCEPT ![o] = e], EntryOK(o)',
         Booked(o) => /\ book[o].state \in {"sent", "live"}
                      /\ book[o].state = "live" => e.state # "rejected",
         e.state \notin {"sent", "failed"},
         ~Booked(o) => o \in Foreign,
         UNCHANGED <<engine, job, connection>>,
         hold' \in [Sides -> [Locks -> Int]],
         reports' \in Seq(Reports), stage = "down" => reports' = << >>, OneEnd(reports'),
         \A r \in Elements(reports') : r \in Elements(reports) \/ ReportOK(r)'
  PROVE  PosInv'
<1>1. /\ DOMAIN book' = Orders /\ book'[o] = e
      /\ \A x \in Orders : x # o => book'[x] = book[x]
      /\ Booked(o)' /\ \A x \in Orders : x # o => (Booked(x)' <=> Booked(x))
      /\ \A x \in Orders : Booked(x)' => book'[x] \in Entries
  BY Placing
<1>2. PosTypeOK'
  BY <1>1 DEF PosInv, PosTypeOK, engine, connection
<1>3. \A x \in Orders : EntryOK(x)'
  <2>1. ASSUME NEW x \in Orders, x # o PROVE EntryOK(x)'
    BY <1>1, <2>1 DEF PosInv, EntryOK, connection
  <2> QED
    BY <2>1
<1>4. KeysOK'
  <2>1. job # Idle => o # job.order /\ job.order \in Orders
    BY OrdersAssumption DEF PosInv, PosTypeOK, KeysOK, Jobs, Orders
  <2>2. \A k \in recorded \cup lockInfo : KeyOK(k)'
    <3>1. \A k \in recorded \cup lockInfo : KeyOK(k) /\ k[1] \in Orders
      BY DEF PosInv, KeysOK, KeyOK
    <3> QED
      BY <1>1, <3>1 DEF KeyOK, engine, connection
  <2>3. ASSUME NEW k \in unlocked PROVE KeyOK(k)' /\ Booked(k[1])' /\ book'[k[1]].state = "cancelled"
    <3>1. KeyOK(k) /\ k[1] \in Orders /\ Booked(k[1]) /\ book[k[1]].state = "cancelled"
      BY DEF PosInv, KeysOK, KeyOK
    <3>2. k[1] # o
      BY <3>1
    <3> QED
      BY <1>1, <3>1, <3>2 DEF KeyOK, engine, connection
  <2> QED
    BY <1>1, <2>1, <2>2, <2>3 DEF PosInv, KeysOK, engine, connection
<1>5. ReportsOK'
  <2>1. ASSUME NEW r \in Elements(reports) PROVE ReportOK(r)'
    <3>1. ReportOK(r) /\ r \in Reports
      BY ReportsSeq DEF PosInv, PosTypeOK, ReportsOK
    <3>2. r.order \in Orders
      BY <3>1 DEF Reports, OrderReports
    <3>3. CASE r.order = o
      <4>1. ~Cancels(r) /\ r.type # "reject" /\ Booked(o)
        BY <3>1, <3>3 DEF ReportOK
      <4> QED
        BY <1>1, <3>3, <4>1 DEF ReportOK
    <3>4. CASE r.order # o
      BY <1>1, <3>1, <3>2, <3>4 DEF ReportOK, connection
    <3> QED
      BY <3>3, <3>4
  <2> QED
    BY <2>1 DEF ReportsOK
<1>6. RowsOK'
  <2>1. SUFFICES ASSUME stage = "orders", answer # << >>, NEW row \in answer[1]
        PROVE  /\ Booked(row.order)' /\ book'[row.order].state \notin {"sent", "rejected", "failed"}
               /\ row.state = "cancelled" => book'[row.order].state = "cancelled"
    BY DEF RowsOK, connection
  <2>2. /\ Booked(row.order) /\ book[row.order].state \notin {"sent", "rejected", "failed"}
        /\ row.state = "cancelled" => book[row.order].state = "cancelled"
    BY <2>1 DEF PosInv, RowsOK
  <2>3. row.order \in Orders
    <3>1. PICK rows \in SUBSET Records("orders") : answer = <<rows>>
      BY <2>1 DEF PosInv, PosTypeOK
    <3>2. row \in Records("orders")
      BY <2>1, <3>1
    <3> QED
      BY <3>2 DEF Records
  <2> QED
    BY <1>1, <2>2, <2>3
<1> QED
  BY <1>2, <1>3, <1>4, <1>5, <1>6 DEF PosInv

-----------------------------------------------------------------------------
(* ... and the steps of the exchange                                       *)

(* One report that comes *)
LEMMA OneReport ==
  ASSUME PosInv, NEW r \in Reports, Report(<<r>>), Ends(r) => ~EndIn(reports, r.order)
  PROVE  /\ reports' \in Seq(Reports) /\ OneEnd(reports') /\ (stage = "down" => reports' = << >>)
         /\ stage # "down" => reports' = Append(reports, r)
         /\ \A x \in Elements(reports') : x \in Elements(reports) \/ x = r
<1>1. reports \in Seq(Reports) /\ OneEnd(reports) /\ (stage = "down" => reports = << >>)
  BY DEF PosInv, PosTypeOK, ReportsOK
<1>2. reports' = IF stage = "down" THEN reports ELSE Append(reports, r)
  BY <1>1, Reported
<1>3. CASE stage = "down"
  BY <1>1, <1>2, <1>3
<1>4. CASE stage # "down"
  <2>1. reports' = Append(reports, r)
    BY <1>2, <1>4
  <2>2. Append(reports, r) \in Seq(Reports) /\ Elements(Append(reports, r)) = Elements(reports) \cup {r}
    BY <1>1, AppendReport
  <2>3. OneEnd(Append(reports, r))
    BY <1>1, AppendEnd
  <2> QED
    BY <1>4, <2>1, <2>2, <2>3
<1> QED
  BY <1>3, <1>4

(* ... or two *)
LEMMA TwoReports ==
  ASSUME PosInv, NEW q \in Reports, NEW r \in Reports, Report(<<q, r>>), ~Ends(q), ~Ends(r)
  PROVE  /\ reports' \in Seq(Reports) /\ OneEnd(reports') /\ (stage = "down" => reports' = << >>)
         /\ stage # "down" => reports' = Append(Append(reports, q), r)
         /\ \A x \in Elements(reports') : x \in Elements(reports) \/ x = q \/ x = r
<1>1. reports \in Seq(Reports) /\ OneEnd(reports) /\ (stage = "down" => reports = << >>)
  BY DEF PosInv, PosTypeOK, ReportsOK
<1>2. reports' = IF stage = "down" THEN reports ELSE Append(Append(reports, q), r)
  BY <1>1, Reported
<1>3. CASE stage = "down"
  BY <1>1, <1>2, <1>3
<1>4. CASE stage # "down"
  <2>1. reports' = Append(Append(reports, q), r)
    BY <1>2, <1>4
  <2>2. PICK s \in Seq(Reports) : s = Append(reports, q) /\ Elements(s) = Elements(reports) \cup {q} /\ OneEnd(s)
    BY <1>1, AppendReport, AppendEnd
  <2>3. Append(s, r) \in Seq(Reports) /\ Elements(Append(s, r)) = Elements(s) \cup {r} /\ OneEnd(Append(s, r))
    BY <2>2, AppendReport, AppendEnd
  <2> QED
    BY <1>4, <2>1, <2>2, <2>3
<1> QED
  BY <1>3, <1>4

(* An order that is sent or live has no end under way. *)
LEMMA NotEnded ==
  ASSUME PosInv, NEW o, book[o].state \in {"sent", "live"}
  PROVE  ~EndIn(reports, o)
BY DEF PosInv, ReportsOK, ReportOK, EndIn, Ends

LEMMA AcceptPos == ASSUME PosInv, NEW o \in Orders, Accept(o) PROVE PosInv'
<1>1. book[o].state = "sent" /\ Booked(o) /\ book[o] \in Entries /\ EntryOK(o)
  BY DEF PosInv, PosTypeOK, Accept, Booked, NotPlaced
<1>2. PICK e : e = [book[o] EXCEPT !.state = "live"]
  OBVIOUS
<1>3. /\ e \in Entries /\ book' = [book EXCEPT ![o] = e] /\ e.state = "live" /\ e.left = book[o].left
      /\ e.volume = book[o].volume /\ e.session = book[o].session
  BY <1>1, <1>2 DEF Accept, Entries, BookStates
<1>4. book'[o] = e /\ Booked(o)'
  BY <1>3, Placing
<1>5. book[o].volume \in Nat \ {0} /\ book[o].left = book[o].volume /\ o \notin Foreign
  BY <1>1 DEF EntryOK, Entries
<1>6. EntryOK(o)'
  BY <1>1, <1>3, <1>4, <1>5 DEF EntryOK, Accept, connection
<1>7. PICK r \in Reports : /\ r = OrderReport(o, "live", book[o].volume) /\ Report(<<r>>) /\ ~Ends(r)
                           /\ r.order = o
  <2>1. PICK r : r = OrderReport(o, "live", book[o].volume)
    OBVIOUS
  <2>2. r \in Reports /\ ~Ends(r) /\ r.order = o
    BY <1>5, <2>1 DEF OrderReport, Reports, OrderReports, Ends, Cancels
  <2>3. Report(<<r>>)
    BY <2>1 DEF Accept
  <2> QED
    BY <2>1, <2>2, <2>3
<1>8. ReportOK(r)'
  BY <1>3, <1>4, <1>7 DEF ReportOK, Ends
<1>9. /\ reports' \in Seq(Reports) /\ OneEnd(reports') /\ (stage = "down" => reports' = << >>)
      /\ \A x \in Elements(reports') : x \in Elements(reports) \/ x = r
  BY <1>7, OneReport
<1>10. hold' \in [Sides -> [Locks -> Int]] /\ UNCHANGED <<engine, job, connection>>
  BY DEF Accept, PosInv, PosTypeOK
<1>11. \A x \in Elements(reports') : x \in Elements(reports) \/ ReportOK(x)'
  BY <1>8, <1>9
<1> QED
  BY <1>1, <1>3, <1>6, <1>9, <1>10, <1>11, ExchangeStep

LEMMA CancelPos == ASSUME PosInv, NEW o \in Orders, Cancel(o) PROVE PosInv'
<1>1. book[o].state = "live" /\ Booked(o) /\ book[o] \in Entries /\ EntryOK(o)
  BY DEF PosInv, PosTypeOK, Cancel, IsLive, Booked, NotPlaced
<1>2. PICK e : e = [book[o] EXCEPT !.state = "cancelled"]
  OBVIOUS
<1>3. /\ e \in Entries /\ book' = [book EXCEPT ![o] = e] /\ e.state = "cancelled" /\ e.left = book[o].left
      /\ e.volume = book[o].volume /\ e.session = book[o].session
  BY <1>1, <1>2 DEF Cancel, Entries, BookStates
<1>4. book'[o] = e /\ Booked(o)'
  BY <1>3, Placing
<1>5. book[o].left \in Nat
  BY <1>1 DEF Entries
<1>6. EntryOK(o)'
  BY <1>1, <1>3, <1>4, <1>5 DEF EntryOK, Cancel, connection
<1>7. PICK r \in Reports : /\ r = OrderReport(o, "cancelled", book[o].left) /\ Report(<<r>>)
                           /\ r.order = o /\ r.left = book[o].left /\ r.type = "order"
  BY <1>5 DEF Cancel, OrderReport, Reports, OrderReports
<1>8. ReportOK(r)'
  BY <1>3, <1>4, <1>7 DEF ReportOK
<1>9. /\ reports' \in Seq(Reports) /\ OneEnd(reports') /\ (stage = "down" => reports' = << >>)
      /\ \A x \in Elements(reports') : x \in Elements(reports) \/ x = r
  BY <1>1, <1>7, NotEnded, OneReport
<1>10. hold' \in [Sides -> [Locks -> Int]] /\ UNCHANGED <<engine, job, connection>>
  BY DEF Cancel, PosInv, PosTypeOK
<1>11. \A x \in Elements(reports') : x \in Elements(reports) \/ ReportOK(x)'
  BY <1>8, <1>9
<1> QED
  BY <1>1, <1>3, <1>6, <1>9, <1>10, <1>11, ExchangeStep

LEMMA RejectPos == ASSUME PosInv, NEW o \in Orders, Reject(o) PROVE PosInv'
<1>1. book[o].state = "sent" /\ Booked(o) /\ book[o] \in Entries /\ EntryOK(o)
  BY DEF PosInv, PosTypeOK, Reject, Booked, NotPlaced
<1>2. book[o].volume \in Nat \ {0} /\ book[o].left = book[o].volume /\ o \notin Foreign /\ o \in Own
  BY <1>1 DEF EntryOK, Entries, Orders
<1>3. PICK state \in {"rejected", "cancelled"} :
        /\ book' = [book EXCEPT ![o].state = state]
        /\ \/ state = "rejected" /\ book[o].session = session /\ Report(<<RejectReport(o)>>)
           \/ state = "rejected" /\ Report(<< >>)
           \/ state = "cancelled" /\ Report(<<OrderReport(o, "cancelled", book[o].volume)>>)
  BY DEF Reject
<1>4. PICK e : e = [book[o] EXCEPT !.state = state]
  OBVIOUS
<1>5. /\ e \in Entries /\ book' = [book EXCEPT ![o] = e] /\ e.state = state /\ e.left = book[o].left
      /\ e.volume = book[o].volume /\ e.session = book[o].session
  BY <1>1, <1>3, <1>4 DEF Entries, BookStates
<1>6. book'[o] = e /\ Booked(o)'
  BY <1>5, Placing
<1>7. EntryOK(o)'
  BY <1>1, <1>2, <1>5, <1>6 DEF EntryOK, Reject, connection
<1>8. hold' \in [Sides -> [Locks -> Int]] /\ UNCHANGED <<engine, job, connection>>
  BY DEF Reject, PosInv, PosTypeOK
<1>9. /\ reports' \in Seq(Reports) /\ OneEnd(reports') /\ (stage = "down" => reports' = << >>)
      /\ \A x \in Elements(reports') : x \in Elements(reports) \/ ReportOK(x)'
  <2>1. CASE state = "rejected" /\ book[o].session = session /\ Report(<<RejectReport(o)>>)
    <3>1. PICK r \in Reports : r = RejectReport(o) /\ Report(<<r>>) /\ r.order = o /\ r.type = "reject"
      BY <2>1 DEF RejectReport, Reports
    <3>2. /\ reports' \in Seq(Reports) /\ OneEnd(reports') /\ (stage = "down" => reports' = << >>)
          /\ \A x \in Elements(reports') : x \in Elements(reports) \/ x = r
      BY <1>1, <3>1, NotEnded, OneReport
    <3>3. CASE stage = "down"
      BY <3>2, <3>3, NoReports
    <3>4. CASE stage # "down"
      <4>1. ReportOK(r)'
        BY <1>2, <1>5, <1>6, <1>8, <2>1, <3>1, <3>4 DEF ReportOK, Cancels, connection
      <4> QED
        BY <3>2, <4>1
    <3> QED
      BY <3>3, <3>4
  <2>2. CASE Report(<< >>)
    <3>1. reports' = reports
      BY <2>2, Reported DEF PosInv, PosTypeOK
    <3> QED
      BY <3>1 DEF PosInv, PosTypeOK, ReportsOK
  <2>3. CASE state = "cancelled" /\ Report(<<OrderReport(o, "cancelled", book[o].volume)>>)
    <3>1. PICK r \in Reports : /\ r = OrderReport(o, "cancelled", book[o].volume) /\ Report(<<r>>)
                               /\ r.order = o /\ r.left = book[o].left /\ r.type = "order"
      BY <1>2, <2>3 DEF OrderReport, Reports, OrderReports
    <3>2. ReportOK(r)'
      BY <1>5, <1>6, <2>3, <3>1 DEF ReportOK
    <3>3. /\ reports' \in Seq(Reports) /\ OneEnd(reports') /\ (stage = "down" => reports' = << >>)
          /\ \A x \in Elements(reports') : x \in Elements(reports) \/ x = r
      BY <1>1, <3>1, NotEnded, OneReport
    <3> QED
      BY <3>2, <3>3
  <2> QED
    BY <1>3, <2>1, <2>2, <2>3
<1> QED
  BY <1>1, <1>5, <1>7, <1>8, <1>9, ExchangeStep

LEMMA TradeStep ==
  ASSUME NEW o \in Orders, Trade(o)
  PROVE  \E left, state, side, part, gain :
           /\ book[o].state = "live"
           /\ left = book[o].left - 1 /\ state = IF left = 0 THEN "done" ELSE "live"
           /\ side = SideOf(o)
           /\ part = IF book[o].offset = "open" THEN OpenedPart ELSE LockOf(book[o].offset)
           /\ gain = IF book[o].offset = "open" THEN 1 ELSE -1
           /\ book' = [book EXCEPT ![o].left = left, ![o].state = state]
           /\ hold' = [hold EXCEPT ![side][part] = @ + gain]
           /\ Report(<<OrderReport(o, state, left), TradeReport(o)>>)
           /\ UNCHANGED <<engine, job, connection, mishaps>>
<1> DEFINE left == book[o].left - 1
           state == IF left = 0 THEN "done" ELSE "live"
           part == IF book[o].offset = "open" THEN OpenedPart ELSE LockOf(book[o].offset)
           gain == IF book[o].offset = "open" THEN 1 ELSE -1
<1>1. /\ book' = [book EXCEPT ![o].left = left, ![o].state = state]
      /\ hold' = [hold EXCEPT ![SideOf(o)][part] = @ + gain]
      /\ Report(<<OrderReport(o, state, left), TradeReport(o)>>)
      /\ UNCHANGED <<engine, job, connection, mishaps>>
      /\ book[o].state = "live"
  BY Zenon DEF Trade, IsLive
<1> WITNESS left, state, SideOf(o), part, gain
<1> QED
  BY <1>1, Zenon

LEMMA TradePos == ASSUME PosInv, NEW o \in Orders, Trade(o) PROVE PosInv'
<1>0. PICK left, state, side, part, gain :
           /\ book[o].state = "live"
           /\ left = book[o].left - 1 /\ state = IF left = 0 THEN "done" ELSE "live"
           /\ side = SideOf(o)
           /\ part = IF book[o].offset = "open" THEN OpenedPart ELSE LockOf(book[o].offset)
           /\ gain = IF book[o].offset = "open" THEN 1 ELSE -1
           /\ book' = [book EXCEPT ![o].left = left, ![o].state = state]
           /\ hold' = [hold EXCEPT ![side][part] = @ + gain]
           /\ Report(<<OrderReport(o, state, left), TradeReport(o)>>)
           /\ UNCHANGED <<engine, job, connection, mishaps>>
  BY TradeStep
<1>1. book[o].state = "live" /\ Booked(o) /\ book[o] \in Entries /\ EntryOK(o)
  BY <1>0 DEF PosInv, PosTypeOK, Booked, NotPlaced
<1>2. left = book[o].left - 1 /\ state = IF left = 0 THEN "done" ELSE "live"
  BY <1>0
<1>3. left \in Nat /\ state \in {"done", "live"} /\ left <= book[o].volume /\ book[o].volume \in Nat \ {0}
  BY <1>1, <1>2 DEF EntryOK, Entries
<1>4. PICK e : e = [book[o] EXCEPT !.left = left, !.state = state]
  OBVIOUS
<1>5. /\ e \in Entries /\ book' = [book EXCEPT ![o] = e] /\ e.state = state /\ e.left = left
      /\ e.volume = book[o].volume /\ e.session = book[o].session
  <2>1. book' = [book EXCEPT ![o].left = left, ![o].state = state]
    BY <1>0
  <2> QED
    BY <1>1, <1>3, <1>4, <2>1 DEF Entries, BookStates
<1>6. book'[o] = e /\ Booked(o)'
  BY <1>5, Placing
<1>7. EntryOK(o)'
  <2>1. session' = session /\ session \in Nat
    BY <1>0 DEF connection, PosInv, PosTypeOK
  <2>2. (state = "live" => left > 0) /\ (state = "done" => left = 0)
    <3>1. CASE left = 0
      BY <1>2, <3>1
    <3>2. CASE left # 0
      <4>1. state = "live"
        BY <1>2, <3>2, Zenon
      <4>2. left > 0
        <5>1. left \in Nat
          BY <1>3, Zenon
        <5> QED
          BY <3>2, <5>1
      <4> QED
        BY <4>1, <4>2
    <3> QED
      BY <3>1, <3>2
  <2>3. /\ book[o].session <= session
        /\ o \in Foreign => book[o].session = 0
    BY <1>1 DEF EntryOK
  <2> QED
    BY <1>3, <1>5, <1>6, <2>1, <2>2, <2>3 DEF EntryOK
<1>8. PICK q \in Reports, r \in Reports : /\ Report(<<q, r>>) /\ q.order = o /\ r.order = o
                          /\ q.type = "order" /\ q.state # "cancelled" /\ r.type = "trade"
  <2>1. Report(<<OrderReport(o, state, left), TradeReport(o)>>)
    BY <1>0
  <2>2. PICK q, r : q = OrderReport(o, state, left) /\ r = TradeReport(o)
    OBVIOUS
  <2>3. q \in Reports /\ r \in Reports /\ q.order = o /\ r.order = o /\ q.type = "order" /\ q.state = state
        /\ r.type = "trade"
    BY <1>3, <2>2 DEF OrderReport, TradeReport, Reports, OrderReports
  <2> QED
    BY <1>3, <2>1, <2>2, <2>3
<1>9. ReportOK(q)' /\ ReportOK(r)' /\ ~Ends(q) /\ ~Ends(r)
  BY <1>3, <1>5, <1>6, <1>8 DEF ReportOK, Ends, Cancels
<1>10. /\ reports' \in Seq(Reports) /\ OneEnd(reports') /\ (stage = "down" => reports' = << >>)
       /\ \A x \in Elements(reports') : x \in Elements(reports) \/ x = q \/ x = r
  BY <1>8, <1>9, TwoReports
<1>11. hold' \in [Sides -> [Locks -> Int]]
  <2>1. gain \in Int /\ hold \in [Sides -> [Locks -> Int]]
    BY <1>0 DEF PosInv, PosTypeOK
  <2>2. hold' = [hold EXCEPT ![side][part] = @ + gain]
    BY <1>0
  <2>3. side \in Sides
    BY <1>0, Kinds DEF SideOf
  <2>4. part \in Locks
    BY <1>0, Kinds DEF OpenedPart, Locks
  <2> QED
    BY <2>1, <2>2, <2>3, <2>4
<1>12. UNCHANGED <<engine, job, connection>>
  BY <1>0
<1>13. \A x \in Elements(reports') : x \in Elements(reports) \/ ReportOK(x)'
  BY <1>9, <1>10
<1> QED
  BY <1>1, <1>3, <1>5, <1>7, <1>10, <1>11, <1>12, <1>13, ExchangeStep

LEMMA OtherPos ==
  ASSUME PosInv, NEW o \in Foreign, NEW direction \in Directions, NEW offset \in Wishes \ {"auto"},
         NEW volume \in Volumes, OtherTerminal(o, direction, offset, volume)
  PROVE  PosInv'
<1>1. ~Booked(o) /\ o \in Orders
  BY DEF OtherTerminal, Booked, Orders
<1>2. offset \in Offsets /\ volume \in Nat \ {0}
  BY WishesAssumption
<1>3. PICK e : e = Placed(direction, offset, volume, 0, "live")
  OBVIOUS
<1>4. /\ e \in Entries /\ book' = [book EXCEPT ![o] = e] /\ e.state = "live" /\ e.left = volume
      /\ e.volume = volume /\ e.session = 0
  BY <1>2, <1>3 DEF OtherTerminal, Placed, Entries, BookStates
<1>5. book'[o] = e /\ Booked(o)'
  BY <1>1, <1>4, Placing
<1>6. EntryOK(o)'
  BY <1>2, <1>4, <1>5 DEF EntryOK, OtherTerminal, connection, PosInv, PosTypeOK
<1>7. PICK r \in Reports : /\ r = OrderReport(o, "live", volume) /\ Report(<<r>>) /\ ~Ends(r)
                           /\ r.order = o
  BY <1>1, <1>2 DEF OtherTerminal, OrderReport, Reports, OrderReports, Ends, Cancels
<1>8. ReportOK(r)'
  BY <1>4, <1>5, <1>7 DEF ReportOK, Ends
<1>9. /\ reports' \in Seq(Reports) /\ OneEnd(reports') /\ (stage = "down" => reports' = << >>)
      /\ \A x \in Elements(reports') : x \in Elements(reports) \/ x = r
  BY <1>7, OneReport
<1>10. hold' \in [Sides -> [Locks -> Int]] /\ UNCHANGED <<engine, job, connection>>
  BY DEF OtherTerminal, PosInv, PosTypeOK
<1>11. \A x \in Elements(reports') : x \in Elements(reports) \/ ReportOK(x)'
  BY <1>8, <1>9
<1> QED
  BY <1>1, <1>4, <1>6, <1>9, <1>10, <1>11, ExchangeStep

-----------------------------------------------------------------------------
(* ... of the listening thread and of OnRtnOrder                           *)

-----------------------------------------------------------------------------
(* The listening thread *)
LEMMA ReadPos ==
  ASSUME PosInv, NEW o \in Own, NEW direction \in Directions, NEW wish \in Wishes, NEW volume \in Volumes,
         Read(o, direction, wish, volume)
  PROVE  PosInv' /\ job' \in Jobs
<1>1. ~Booked(o) /\ o \in Orders /\ job = Idle
  BY DEF Read, Booked, Orders
<1>2. volume \in Nat \ {0} /\ wish \in Offsets \cup {"auto"}
  BY WishesAssumption
<1>3. PICK offset \in Offsets : offset = IF wish = "auto" THEN AutoOffset(direction, volume) ELSE wish
  BY <1>2, Kinds
<1>4. job' \in Jobs /\ job'.order = o /\ job'.pc # "record"
  <2>1. PICK pc \in {"read", "lock"} : pc = IF wish = "open" THEN "lock" ELSE "read"
    OBVIOUS
  <2>2. job' = [pc |-> pc, order |-> o, direction |-> direction, volume |-> volume, chosen |-> wish = "auto",
                offset |-> offset]
    BY <1>3, <2>1 DEF Read
  <2> QED
    BY <1>2, <2>1, <2>2 DEF Jobs
<1>5. known' \in BOOLEAN /\ pos' \in Details
  <2>1. PICK side \in Sides : side = PositionDirection(direction, "open")
    BY Kinds
  <2>2. AddToday(side, volume) \/ UNCHANGED <<known, pos>>
    BY <2>1 DEF Read
  <2>3. pos \in Details /\ known \in BOOLEAN /\ volume \in Int
    BY <1>2 DEF PosInv, PosTypeOK
  <2> QED
    BY <2>2, <2>3, Counted
<1>6. UNCHANGED <<recorded, lockInfo, unlocked, session, stage, answer, reports, book, hold>>
  BY DEF Read, connection, exchange
<1>7. PosTypeOK'
  BY <1>4, <1>5, <1>6 DEF PosInv, PosTypeOK, Booked
<1>8. KeysOK'
  <2>1. \A k \in recorded \cup lockInfo : KeyOK(k)'
    BY <1>1, <1>6 DEF PosInv, KeysOK, KeyOK, Booked
  <2>2. \A k \in unlocked : KeyOK(k)' /\ Booked(k[1])' /\ book'[k[1]].state = "cancelled"
    BY <1>1, <1>6 DEF PosInv, KeysOK, KeyOK, Booked
  <2> QED
    BY <1>1, <1>4, <1>6, <2>1, <2>2 DEF PosInv, KeysOK, Booked
<1>9. (\A x \in Orders : EntryOK(x)') /\ ReportsOK' /\ RowsOK'
  BY <1>6 DEF PosInv, EntryOK, ReportsOK, ReportOK, RowsOK, Booked
<1> QED
  BY <1>4, <1>7, <1>8, <1>9 DEF PosInv

LEMMA LockPos == ASSUME PosInv, Lock PROVE PosInv' /\ job \in Jobs /\ job' = [job EXCEPT !.pc = "lock"]
<1>1. job \in Jobs /\ job' = [job EXCEPT !.pc = "lock"]
  BY DEF PosInv, PosTypeOK, Lock, Idle
<1>2. job' \in Jobs /\ job'.order = job.order /\ job'.pc = "lock" /\ job # Idle /\ job.pc = "read"
  BY <1>1 DEF Jobs, Lock, Idle
<1>3. known' \in BOOLEAN /\ pos' \in Details
  <2>1. PICK side \in Sides, l \in Locks, n \in Int :
           side = PositionDirection(job.direction, job.offset) /\ l = LockOf(job.offset) /\ n = job.volume
    BY <1>1, Kinds DEF Jobs
  <2>2. AddLock(side, l, n) \/ UNCHANGED <<known, pos>>
    BY <2>1 DEF Lock
  <2>3. pos \in Details /\ known \in BOOLEAN
    BY DEF PosInv, PosTypeOK
  <2> QED
    BY <2>2, <2>3, Locked
<1>4. UNCHANGED <<recorded, lockInfo, unlocked, session, stage, answer, reports, book, hold>>
  BY DEF Lock, connection, exchange
<1>5. PosTypeOK'
  BY <1>2, <1>3, <1>4 DEF PosInv, PosTypeOK, Booked
<1>6. KeysOK'
  <2>1. \A k \in recorded \cup lockInfo : KeyOK(k)'
    BY <1>2, <1>4 DEF PosInv, KeysOK, KeyOK, Booked
  <2>2. \A k \in unlocked : KeyOK(k)' /\ Booked(k[1])' /\ book'[k[1]].state = "cancelled"
    BY <1>2, <1>4 DEF PosInv, KeysOK, KeyOK, Booked
  <2> QED
    BY <1>2, <1>4, <2>1, <2>2 DEF PosInv, KeysOK, Booked
<1>7. (\A x \in Orders : EntryOK(x)') /\ ReportsOK' /\ RowsOK'
  BY <1>4 DEF PosInv, EntryOK, ReportsOK, ReportOK, RowsOK, Booked
<1> QED
  BY <1>1, <1>5, <1>6, <1>7 DEF PosInv

LEMMA RecordPos == ASSUME PosInv, Record PROVE PosInv' /\ job \in Jobs /\ job' = [job EXCEPT !.pc = "record"]
<1>1. job \in Jobs /\ job' = [job EXCEPT !.pc = "record"]
  BY DEF PosInv, PosTypeOK, Record, Idle
<1>2. job' \in Jobs /\ job'.order = job.order /\ job'.pc = "record" /\ job # Idle /\ job.pc = "lock" /\ job' # Idle
  BY <1>1 DEF Jobs, Record, Idle
<1>3. PICK key : key = <<job.order, session>>
  OBVIOUS
<1>4. /\ recorded' = recorded \cup {key} /\ lockInfo' = lockInfo \cup {key} /\ unlocked' = unlocked \ {key}
      /\ UNCHANGED <<known, pos, session, stage, answer, reports, book, hold>>
  BY <1>3 DEF Record, connection, exchange
<1>5. PosTypeOK'
  BY <1>2, <1>4 DEF PosInv, PosTypeOK, Booked
<1>6. KeysOK'
  <2>1. \A k \in recorded \cup lockInfo : KeyOK(k)'
    BY <1>2, <1>4 DEF PosInv, KeysOK, KeyOK, Booked
  <2>2. \A k \in unlocked : KeyOK(k)' /\ Booked(k[1])' /\ book'[k[1]].state = "cancelled"
    BY <1>2, <1>4 DEF PosInv, KeysOK, KeyOK, Booked
  <2>3. KeyOK(key)'
    <3>1. job.order \in Orders /\ session \in Nat
      BY <1>1 DEF Jobs, Orders, PosInv, PosTypeOK
    <3> QED
      BY <1>2, <1>3, <3>1 DEF KeyOK
  <2> QED
    BY <1>2, <1>4, <2>1, <2>2, <2>3 DEF PosInv, KeysOK, Booked
<1>7. (\A x \in Orders : EntryOK(x)') /\ ReportsOK' /\ RowsOK'
  BY <1>4 DEF PosInv, EntryOK, ReportsOK, ReportOK, RowsOK, Booked
<1> QED
  BY <1>1, <1>5, <1>6, <1>7 DEF PosInv

LEMMA InsertPos ==
  ASSUME PosInv, Insert
  PROVE  /\ PosInv' /\ job \in Jobs /\ job.pc = "record" /\ job' = Idle /\ ~Booked(job.order)
         /\ UNCHANGED <<engine, connection, reports, hold, mishaps>>
         /\ \E e \in Entries :
              /\ book' = [book EXCEPT ![job.order] = e]
              /\ e.state \in {"sent", "failed"} /\ (e.state = "sent" => stage # "down")
              /\ e.direction = job.direction /\ e.offset = job.offset
              /\ e.volume = job.volume /\ e.left = job.volume /\ e.session = session
<1>1. job \in Jobs /\ job.pc = "record" /\ job # Idle /\ ~Booked(job.order) /\ job.order \in Own
  BY DEF PosInv, PosTypeOK, KeysOK, Insert, Idle, Jobs
<1>2. PICK state \in {"sent", "failed"} :
         /\ state = "sent" => stage # "down"
         /\ book' = [book EXCEPT ![job.order] = Placed(job.direction, job.offset, job.volume, session, state)]
  BY DEF Insert
<1>3. PICK e : e = Placed(job.direction, job.offset, job.volume, session, state)
  OBVIOUS
<1>4. /\ e \in Entries /\ book' = [book EXCEPT ![job.order] = e] /\ e.state = state
      /\ e.direction = job.direction /\ e.offset = job.offset
      /\ e.volume = job.volume /\ e.left = job.volume /\ e.session = session
      /\ job.volume \in Nat \ {0}
  <2>1. /\ job.direction \in Directions /\ job.offset \in Offsets /\ job.volume \in Nat \ {0}
        /\ session \in Nat
    BY <1>1 DEF Jobs, PosInv, PosTypeOK
  <2> QED
    BY <1>2, <1>3, <2>1 DEF Placed, Entries, BookStates
<1>5. PICK o \in Own : o = job.order
  BY <1>1
<1>6. o \in Orders /\ o \notin Foreign /\ ~Booked(o)
  BY <1>1, <1>5, OrdersAssumption DEF Orders
<1>7. /\ DOMAIN book' = Orders /\ book'[o] = e
      /\ \A x \in Orders : x # o => book'[x] = book[x]
      /\ Booked(o)' /\ \A x \in Orders : x # o => (Booked(x)' <=> Booked(x))
      /\ \A x \in Orders : Booked(x)' => book'[x] \in Entries
  BY <1>4, <1>5, <1>6, Placing
<1>8. UNCHANGED <<engine, connection, reports, hold, mishaps>> /\ job' = Idle
  BY DEF Insert
<1>9. PosTypeOK'
  BY <1>7, <1>8 DEF PosInv, PosTypeOK, engine, connection
<1>10. \A x \in Orders : EntryOK(x)'
  <2>1. ASSUME NEW x \in Orders, x # o PROVE EntryOK(x)'
    BY <1>7, <1>8, <2>1 DEF PosInv, EntryOK, connection
  <2>2. EntryOK(o)'
    <3>1. session \in Nat /\ session' = session
      BY <1>8 DEF connection, PosInv, PosTypeOK
    <3> QED
      BY <1>2, <1>4, <1>6, <1>7, <3>1 DEF EntryOK
  <2> QED
    BY <2>1, <2>2
<1>11. KeysOK'
  <2>1. \A k \in recorded \cup lockInfo : KeyOK(k)'
    <3>1. \A k \in recorded \cup lockInfo : KeyOK(k) /\ k[1] \in Orders
      BY DEF PosInv, KeysOK, KeyOK
    <3> QED
      BY <1>5, <1>7, <3>1 DEF KeyOK
  <2>2. ASSUME NEW k \in unlocked PROVE KeyOK(k)' /\ Booked(k[1])' /\ book'[k[1]].state = "cancelled"
    <3>1. KeyOK(k) /\ k[1] \in Orders /\ Booked(k[1]) /\ book[k[1]].state = "cancelled"
      BY DEF PosInv, KeysOK, KeyOK
    <3>2. k[1] # o
      BY <1>6, <3>1
    <3> QED
      BY <1>7, <3>1, <3>2 DEF KeyOK
  <2> QED
    BY <1>8, <2>1, <2>2 DEF PosInv, KeysOK, engine
<1>12. ReportsOK'
  <2>1. ASSUME NEW r \in Elements(reports) PROVE ReportOK(r)'
    <3>1. ReportOK(r) /\ r \in Reports
      BY ReportsSeq DEF PosInv, PosTypeOK, ReportsOK
    <3>2. r.order \in Orders /\ r.order # o
      BY <1>6, <3>1 DEF Reports, OrderReports, ReportOK
    <3> QED
      BY <1>7, <1>8, <3>1, <3>2 DEF ReportOK, connection
  <2> QED
    BY <1>8, <2>1 DEF ReportsOK, PosInv
<1>13. RowsOK'
  <2>1. SUFFICES ASSUME stage = "orders", answer # << >>, NEW row \in answer[1]
        PROVE  /\ Booked(row.order)' /\ book'[row.order].state \notin {"sent", "rejected", "failed"}
               /\ row.state = "cancelled" => book'[row.order].state = "cancelled"
    BY <1>8 DEF RowsOK, connection
  <2>2. /\ Booked(row.order) /\ book[row.order].state \notin {"sent", "rejected", "failed"}
        /\ row.state = "cancelled" => book[row.order].state = "cancelled"
    BY <2>1 DEF PosInv, RowsOK
  <2>3. row.order \in Orders
    <3>1. PICK rows \in SUBSET Records("orders") : answer = <<rows>>
      BY <2>1 DEF PosInv, PosTypeOK
    <3>2. row \in Records("orders")
      BY <2>1, <3>1
    <3> QED
      BY <3>2 DEF Records
  <2> QED
    BY <1>6, <1>7, <2>2, <2>3
<1>14. PosInv'
  BY <1>9, <1>10, <1>11, <1>12, <1>13 DEF PosInv
<1> QED
  BY <1>1, <1>2, <1>4, <1>8, <1>14

-----------------------------------------------------------------------------
(* The callbacks *)
LEMMA EngineKeys ==
  ASSUME PosInv, UNCHANGED <<job, book>>, session' \in Nat, session <= session',
         \A k \in recorded' : k \in recorded \/ \E o \in Orders : Booked(o) /\ k = Key(o),
         lockInfo' \subseteq recorded',
         \A k \in unlocked' : k \in unlocked
                              \/ \E o \in Orders : Booked(o) /\ book[o].state = "cancelled" /\ k = Key(o)
  PROVE  KeysOK' /\ \A o \in Orders : EntryOK(o)'
<1>1. \A o \in Orders : EntryOK(o)'
  <2>1. ASSUME NEW o \in Orders PROVE EntryOK(o)'
    <3>1. CASE Booked(o)
      <4>1. book[o].session \in Nat /\ session \in Nat
        BY <3>1 DEF PosInv, PosTypeOK, Entries
      <4> QED
        BY <3>1, <4>1 DEF PosInv, EntryOK, Booked
    <3>2. CASE ~Booked(o)
      BY <3>2 DEF EntryOK, Booked
    <3> QED
      BY <3>1, <3>2
  <2> QED
    BY <2>1
<1>2. ASSUME NEW o \in Orders, Booked(o) PROVE KeyOK(Key(o)) /\ Key(o)[1] = o
  <2>1. book[o].session \in Nat
    BY <1>2 DEF PosInv, PosTypeOK, Entries
  <2> QED
    BY <1>2, <2>1 DEF KeyOK, Key
<1>3. \A k \in recorded' : KeyOK(k)
  BY <1>2 DEF PosInv, KeysOK
<1>4. \A k \in unlocked' : KeyOK(k) /\ Booked(k[1]) /\ book[k[1]].state = "cancelled"
  BY <1>2 DEF PosInv, KeysOK
<1> QED
  BY <1>1, <1>3, <1>4 DEF PosInv, KeysOK, KeyOK, Booked

(* A report is handled. *)
LEMMA HandledReport ==
  ASSUME PosInv, reports # << >>, reports' = Tail(reports),
         UNCHANGED <<job, connection, exchange, mishaps>>, KeysOK', \A o \in Orders : EntryOK(o)',
         known' \in BOOLEAN, pos' \in Details
  PROVE  PosInv'
<1>1. reports \in Seq(Reports) /\ stage # "down"
  BY DEF PosInv, PosTypeOK
<1>2. /\ Tail(reports) \in Seq(Reports) /\ OneEnd(Tail(reports))
      /\ \A r \in Elements(Tail(reports)) : r \in Elements(reports)
  BY <1>1, TailReport, TailEnd DEF PosInv, ReportsOK
<1>3. UNCHANGED <<job, session, stage, answer, book, hold>>
  BY DEF connection, exchange
<1>4. PosTypeOK'
  BY <1>1, <1>2, <1>3 DEF PosInv, PosTypeOK, Booked
<1>5. ReportsOK'
  BY <1>2, <1>3 DEF PosInv, ReportsOK, ReportOK, Booked
<1>6. RowsOK'
  BY <1>3 DEF PosInv, RowsOK, Booked
<1> QED
  BY <1>4, <1>5, <1>6 DEF PosInv

LEMMA HeadReport ==
  ASSUME PosInv, reports # << >>
  PROVE  /\ Head(reports) \in Reports /\ Head(reports).order \in Orders /\ Booked(Head(reports).order)
         /\ Head(reports) \in Elements(reports) /\ ReportOK(Head(reports)) /\ stage # "down"
         /\ Tail(reports) \in Seq(Reports) /\ Elements(reports) = Elements(Tail(reports)) \cup {Head(reports)}
         /\ Ends(Head(reports)) => ~EndIn(Tail(reports), Head(reports).order)
         /\ SideOf(Head(reports).order) \in Sides /\ LockOf(book[Head(reports).order].offset) \in Locks
         /\ book[Head(reports).order] \in Entries
         /\ Closing(Head(reports).order) <=> book[Head(reports).order].offset # "open"
<1>1. reports \in Seq(Reports) /\ stage # "down" /\ OneEnd(reports)
  BY DEF PosInv, PosTypeOK, ReportsOK
<1>2. PICK h : h = Head(reports)
  OBVIOUS
<1>3. /\ h \in Reports /\ h \in Elements(reports) /\ Elements(reports) = Elements(Tail(reports)) \cup {h}
      /\ Tail(reports) \in Seq(Reports) /\ (Ends(h) => ~EndIn(Tail(reports), h.order))
  BY <1>1, <1>2, TailReport, TailEnd
<1>4. h.order \in Orders
  BY <1>3 DEF Reports, OrderReports
<1>5. ReportOK(h) /\ Booked(h.order)
  BY <1>3 DEF PosInv, ReportsOK, ReportOK
<1>6. book[h.order] \in Entries
  BY <1>4, <1>5 DEF PosInv, PosTypeOK
<1>7. Closing(h.order) <=> book[h.order].offset # "open"
  BY <1>5, <1>6 DEF Closing, Exists, ReportOK, Entries, BookStates
<1>8. SideOf(h.order) \in Sides /\ LockOf(book[h.order].offset) \in Locks
  BY Kinds DEF SideOf
<1> QED
  BY <1>1, <1>2, <1>3, <1>4, <1>5, <1>6, <1>7, <1>8

(* What OnRtnOrder does, by cases *)
LEMMA RtnOrderStep ==
  ASSUME PosInv, OnRtnOrder
  PROVE  \E r \in OrderReports, o \in Orders, side \in Sides, l \in Locks :
           /\ r = Head(reports) /\ o = r.order /\ side = SideOf(o) /\ l = LockOf(book[o].offset)
           /\ reports # << >> /\ reports' = Tail(reports) /\ recorded' = recorded \cup {Key(o)}
           /\ UNCHANGED <<job, connection, exchange, mishaps>>
           /\ \/ /\ Closing(o) /\ Key(o) \notin recorded /\ ~Cancels(r)
                 /\ AddLock(side, l, book[o].volume)
                 /\ lockInfo' = lockInfo \cup {Key(o)} /\ unlocked' = unlocked \ {Key(o)}
              \/ /\ Closing(o) /\ Key(o) \in recorded /\ Cancels(r) /\ Key(o) \in lockInfo \ unlocked
                 /\ AddLock(side, l, 0 - r.left)
                 /\ lockInfo' = lockInfo /\ unlocked' = unlocked \cup {Key(o)}
              \/ /\ \/ ~Closing(o)
                    \/ Key(o) \notin recorded /\ Cancels(r)
                    \/ Key(o) \in recorded /\ (Cancels(r) => Key(o) \notin lockInfo \ unlocked)
                 /\ UNCHANGED <<known, pos, lockInfo, unlocked>>
<1>1. reports # << >> /\ Head(reports).type = "order"
  BY DEF OnRtnOrder, Arrives
<1>2. PICK r : r = Head(reports)
  OBVIOUS
<1>3. r \in OrderReports /\ r.type = "order"
  BY <1>1, <1>2, HeadReport DEF Reports
<1>4. PICK o \in Orders, side \in Sides, l \in Locks :
         o = r.order /\ side = SideOf(o) /\ l = LockOf(book[o].offset)
  BY <1>1, <1>2, HeadReport
<1>5. r.state = "cancelled" <=> Cancels(r)
  BY <1>3 DEF Cancels
<1>6. /\ reports' = Tail(reports) /\ recorded' = recorded \cup {Key(o)}
      /\ UNCHANGED <<job, connection, exchange, mishaps>>
  BY <1>2, <1>4 DEF OnRtnOrder
<1>7. \/ /\ Closing(o) /\ Key(o) \notin recorded /\ ~Cancels(r)
         /\ AddLock(side, l, book[o].volume)
         /\ lockInfo' = lockInfo \cup {Key(o)} /\ unlocked' = unlocked \ {Key(o)}
      \/ /\ Closing(o) /\ Key(o) \in recorded /\ Cancels(r) /\ Key(o) \in lockInfo \ unlocked
         /\ AddLock(side, l, 0 - r.left)
         /\ lockInfo' = lockInfo /\ unlocked' = unlocked \cup {Key(o)}
      \/ /\ \/ ~Closing(o)
            \/ Key(o) \notin recorded /\ Cancels(r)
            \/ Key(o) \in recorded /\ (Cancels(r) => Key(o) \notin lockInfo \ unlocked)
         /\ UNCHANGED <<known, pos, lockInfo, unlocked>>
  BY <1>2, <1>4, <1>5 DEF OnRtnOrder, Release
<1> QED
  BY <1>1, <1>2, <1>3, <1>4, <1>6, <1>7

-----------------------------------------------------------------------------
(* ... and of the other callbacks                                          *)

LEMMA RtnOrderPos == ASSUME PosInv, OnRtnOrder PROVE PosInv'
<1>1. PICK r \in OrderReports, o \in Orders, side \in Sides, l \in Locks :
           /\ r = Head(reports) /\ o = r.order /\ side = SideOf(o) /\ l = LockOf(book[o].offset)
           /\ reports # << >> /\ reports' = Tail(reports) /\ recorded' = recorded \cup {Key(o)}
           /\ UNCHANGED <<job, connection, exchange, mishaps>>
           /\ \/ /\ Closing(o) /\ Key(o) \notin recorded /\ ~Cancels(r)
                 /\ AddLock(side, l, book[o].volume)
                 /\ lockInfo' = lockInfo \cup {Key(o)} /\ unlocked' = unlocked \ {Key(o)}
              \/ /\ Closing(o) /\ Key(o) \in recorded /\ Cancels(r) /\ Key(o) \in lockInfo \ unlocked
                 /\ AddLock(side, l, 0 - r.left)
                 /\ lockInfo' = lockInfo /\ unlocked' = unlocked \cup {Key(o)}
              \/ /\ \/ ~Closing(o)
                    \/ Key(o) \notin recorded /\ Cancels(r)
                    \/ Key(o) \in recorded /\ (Cancels(r) => Key(o) \notin lockInfo \ unlocked)
                 /\ UNCHANGED <<known, pos, lockInfo, unlocked>>
  BY RtnOrderStep
<1>2. Booked(o) /\ ReportOK(r) /\ book[o] \in Entries
  BY <1>1, HeadReport
<1>3. UNCHANGED <<job, book, session>> /\ session \in Nat
  BY <1>1 DEF connection, exchange, PosInv, PosTypeOK
<1>4. known \in BOOLEAN /\ pos \in Details /\ lockInfo \subseteq recorded
  BY DEF PosInv, PosTypeOK, KeysOK
<1>5. known' \in BOOLEAN /\ pos' \in Details
  <2>1. book[o].volume \in Int /\ 0 - r.left \in Int
    BY <1>2 DEF Entries, OrderReports
  <2>2. PICK n \in Int : AddLock(side, l, n) \/ UNCHANGED <<known, pos>>
    BY <1>1, <2>1
  <2> QED
    BY <1>4, <2>2, Locked
<1>6. lockInfo' \subseteq recorded'
  BY <1>1, <1>4
<1>7. \A k \in recorded' : k \in recorded \/ \E x \in Orders : Booked(x) /\ k = Key(x)
  BY <1>1, <1>2
<1>8. \A k \in unlocked' : k \in unlocked \/ \E x \in Orders : Booked(x) /\ book[x].state = "cancelled" /\ k = Key(x)
  <2>1. Cancels(r) => book[o].state = "cancelled"
    BY <1>1, <1>2 DEF ReportOK
  <2> QED
    BY <1>1, <1>2, <2>1
<1>9. KeysOK' /\ \A x \in Orders : EntryOK(x)'
  BY <1>3, <1>6, <1>7, <1>8, EngineKeys
<1> QED
  BY <1>1, <1>5, <1>9, HandledReport

LEMMA SameKeys ==
  ASSUME PosInv, UNCHANGED <<recorded, lockInfo, unlocked, job, session, book>>
  PROVE  KeysOK' /\ \A x \in Orders : EntryOK(x)'
BY EngineKeys DEF PosInv, KeysOK, PosTypeOK

LEMMA RtnTradeStep ==
  ASSUME PosInv, OnRtnTrade
  PROVE  \E r \in Reports, o \in Orders, side \in Sides :
           /\ r = Head(reports) /\ r.type = "trade" /\ o = r.order /\ side = SideOf(o)
           /\ reports # << >> /\ reports' = Tail(reports)
           /\ IF Closing(o) THEN known' = TRUE /\ UNCHANGED pos ELSE AddToday(side, 1)
           /\ UNCHANGED <<recorded, lockInfo, unlocked, job, connection, exchange, mishaps>>
<1>1. reports # << >> /\ Head(reports).type = "trade"
  BY DEF OnRtnTrade, Arrives
<1>2. PICK r : r = Head(reports)
  OBVIOUS
<1>3. r \in Reports
  BY <1>1, <1>2, HeadReport
<1>4. PICK o \in Orders, side \in Sides : o = r.order /\ side = SideOf(o)
  BY <1>1, <1>2, HeadReport
<1>5. /\ reports' = Tail(reports)
      /\ IF Closing(o) THEN known' = TRUE /\ UNCHANGED pos ELSE AddToday(side, 1)
      /\ UNCHANGED <<recorded, lockInfo, unlocked, job, connection, exchange, mishaps>>
  BY <1>2, <1>4 DEF OnRtnTrade
<1> QED
  BY <1>1, <1>2, <1>3, <1>4, <1>5

LEMMA RtnTradePos == ASSUME PosInv, OnRtnTrade PROVE PosInv'
<1>1. PICK r \in Reports, o \in Orders, side \in Sides :
           /\ r = Head(reports) /\ r.type = "trade" /\ o = r.order /\ side = SideOf(o)
           /\ reports # << >> /\ reports' = Tail(reports)
           /\ IF Closing(o) THEN known' = TRUE /\ UNCHANGED pos ELSE AddToday(side, 1)
           /\ UNCHANGED <<recorded, lockInfo, unlocked, job, connection, exchange, mishaps>>
  BY RtnTradeStep
<1>2. known' \in BOOLEAN /\ pos' \in Details
  <2>1. pos \in Details
    BY DEF PosInv, PosTypeOK
  <2>2. PICK n \in Int : n = 1
    OBVIOUS
  <2>3. CASE AddToday(side, n)
    BY <2>1, <2>3, Counted
  <2>4. CASE known' = TRUE /\ pos' = pos
    BY <2>1, <2>4
  <2> QED
    BY <1>1, <2>2, <2>3, <2>4
<1>3. KeysOK' /\ \A x \in Orders : EntryOK(x)'
  BY <1>1, SameKeys DEF connection, exchange
<1> QED
  BY <1>1, <1>2, <1>3, HandledReport

LEMMA RspInsertStep ==
  ASSUME PosInv, OnRspOrderInsert
  PROVE  \E r \in Reports, o \in Orders, side \in Sides, l \in Locks :
           /\ r = Head(reports) /\ r.type = "reject" /\ o = r.order /\ side = SideOf(o) /\ l = LockOf(book[o].offset)
           /\ reports # << >> /\ reports' = Tail(reports)
           /\ IF Closing(o) THEN AddLock(side, l, 0 - book[o].volume) ELSE UNCHANGED <<known, pos>>
           /\ UNCHANGED <<recorded, lockInfo, unlocked, job, connection, exchange, mishaps>>
<1>1. reports # << >> /\ Head(reports).type = "reject"
  BY DEF OnRspOrderInsert, Arrives
<1>2. PICK r : r = Head(reports)
  OBVIOUS
<1>3. r \in Reports
  BY <1>1, <1>2, HeadReport
<1>4. PICK o \in Orders, side \in Sides, l \in Locks : o = r.order /\ side = SideOf(o) /\ l = LockOf(book[o].offset)
  BY <1>1, <1>2, HeadReport
<1>5. /\ reports' = Tail(reports)
      /\ IF Closing(o) THEN AddLock(side, l, 0 - book[o].volume) ELSE UNCHANGED <<known, pos>>
      /\ UNCHANGED <<recorded, lockInfo, unlocked, job, connection, exchange, mishaps>>
  BY <1>2, <1>4 DEF OnRspOrderInsert
<1> QED
  BY <1>1, <1>2, <1>3, <1>4, <1>5

LEMMA RspInsertPos == ASSUME PosInv, OnRspOrderInsert PROVE PosInv'
<1>1. PICK r \in Reports, o \in Orders, side \in Sides, l \in Locks :
           /\ r = Head(reports) /\ r.type = "reject" /\ o = r.order /\ side = SideOf(o) /\ l = LockOf(book[o].offset)
           /\ reports # << >> /\ reports' = Tail(reports)
           /\ IF Closing(o) THEN AddLock(side, l, 0 - book[o].volume) ELSE UNCHANGED <<known, pos>>
           /\ UNCHANGED <<recorded, lockInfo, unlocked, job, connection, exchange, mishaps>>
  BY RspInsertStep
<1>2. known' \in BOOLEAN /\ pos' \in Details
  <2>1. pos \in Details /\ known \in BOOLEAN
    BY DEF PosInv, PosTypeOK
  <2>2. book[o] \in Entries
    BY <1>1, HeadReport
  <2>3. 0 - book[o].volume \in Int
    BY <2>2 DEF Entries
  <2>4. PICK n \in Int : UNCHANGED <<known, pos>> \/ AddLock(side, l, n)
    BY <1>1, <2>3
  <2> QED
    BY <2>1, <2>4, Locked
<1>3. KeysOK' /\ \A x \in Orders : EntryOK(x)'
  BY <1>1, SameKeys DEF connection, exchange
<1> QED
  BY <1>1, <1>2, <1>3, HandledReport

LEMMA DisconnectPos == ASSUME PosInv, OnFrontDisconnected PROVE PosInv'
<1>1. /\ known' = FALSE /\ pos' = [side \in Sides |-> EmptyPos] /\ lockInfo' = {} /\ unlocked' = {}
      /\ stage' = "down" /\ answer' = << >> /\ reports' = << >>
      /\ UNCHANGED <<recorded, job, session, book, hold>>
  BY DEF OnFrontDisconnected, exchange
<1>2. known' \in BOOLEAN /\ pos' \in Details
  <2>1. known' \in BOOLEAN
    BY <1>1
  <2>2. [side \in Sides |-> EmptyPos] \in Details
    BY DEF Details, EmptyPos, Locks
  <2> QED
    BY <1>1, <2>1, <2>2, Zenon
<1>3. KeysOK' /\ \A x \in Orders : EntryOK(x)'
  BY <1>1, EngineKeys DEF PosInv, PosTypeOK, KeysOK
<1>4. PosTypeOK'
  BY <1>1, <1>2, NoReports DEF PosInv, PosTypeOK, Booked, Stages
<1>5. ReportsOK' /\ RowsOK'
  BY <1>1, NoReports DEF ReportsOK, RowsOK
<1> QED
  BY <1>3, <1>4, <1>5 DEF PosInv

LEMMA LoginPos == ASSUME PosInv, OnRspUserLogin PROVE PosInv'
<1>1. /\ stage = "down" /\ stage' = "login" /\ session' = session + 1
      /\ UNCHANGED <<known, pos, recorded, lockInfo, unlocked, job, answer, reports, book, hold>>
  BY DEF OnRspUserLogin, engine, exchange
<1>2. reports = << >> /\ answer = << >> /\ session \in Nat /\ session' \in Nat /\ session <= session'
  <2>1. session \in Nat
    BY DEF PosInv, PosTypeOK
  <2> QED
    BY <1>1, <2>1 DEF PosInv, PosTypeOK
<1>3. KeysOK' /\ \A x \in Orders : EntryOK(x)'
  BY <1>1, <1>2, EngineKeys DEF PosInv, KeysOK
<1>4. PosTypeOK'
  BY <1>1, <1>2, NoReports DEF PosInv, PosTypeOK, Booked, Stages
<1>5. ReportsOK' /\ RowsOK'
  BY <1>1, <1>2, NoReports DEF ReportsOK, RowsOK
<1> QED
  BY <1>3, <1>4, <1>5 DEF PosInv

LEMMA ConfirmPos == ASSUME PosInv, OnRspSettlementInfoConfirm PROVE PosInv'
<1>1. /\ stage = "login" /\ stage' = "orders"
      /\ UNCHANGED <<known, pos, recorded, lockInfo, unlocked, job, session, answer, reports, book, hold>>
  BY DEF OnRspSettlementInfoConfirm, engine, exchange
<1>2. answer = << >>
  BY <1>1 DEF PosInv, PosTypeOK
<1>3. KeysOK' /\ \A x \in Orders : EntryOK(x)'
  BY <1>1, SameKeys
<1>4. PosTypeOK'
  BY <1>1, <1>2 DEF PosInv, PosTypeOK, Booked, Stages
<1>5. ReportsOK' /\ RowsOK'
  BY <1>1, <1>2 DEF PosInv, ReportsOK, ReportOK, Booked, RowsOK
<1> QED
  BY <1>3, <1>4, <1>5 DEF PosInv

LEMMA TakePos == ASSUME PosInv, TakeRecords PROVE PosInv'
<1>1. /\ stage \in {"orders", "trades", "positions"} /\ answer = << >>
      /\ UNCHANGED <<known, pos, recorded, lockInfo, unlocked, job, session, stage, reports, book, hold>>
  BY DEF TakeRecords, engine, exchange
<1>2. KeysOK' /\ \A x \in Orders : EntryOK(x)'
  BY <1>1, SameKeys
<1>3. \A o \in Orders : Exists(o) => Booked(o) /\ book[o].state \in BookStates \ {"failed"}
  BY DEF Exists, Booked, NotPlaced, PosInv, PosTypeOK, Entries
<1>4. ASSUME stage = "orders"
      PROVE  /\ answer' = <<OrderRecords>> /\ OrderRecords \subseteq Records("orders")
             /\ \A row \in OrderRecords : row.order \in Orders /\ row.state = book[row.order].state /\ Booked(row.order)
                                          /\ book[row.order].state \notin {"sent", "rejected", "failed"}
  <2>1. answer' = <<OrderRecords>>
    BY <1>4 DEF TakeRecords
  <2>2. \A row \in OrderRecords : \E o \in Orders : row = [order |-> o, state |-> book[o].state] /\ Exists(o)
                                      /\ book[o].state \notin {"sent", "rejected"}
    BY DEF OrderRecords
  <2>3. ASSUME NEW row \in OrderRecords
        PROVE  /\ row.order \in Orders /\ row.state = book[row.order].state /\ Booked(row.order)
               /\ book[row.order].state \notin {"sent", "rejected", "failed"} /\ row \in Records("orders")
    <3>1. PICK o \in Orders : row = [order |-> o, state |-> book[o].state] /\ Exists(o)
                              /\ book[o].state \notin {"sent", "rejected"}
      BY <2>2
    <3>2. Booked(o) /\ book[o].state \in {"live", "cancelled", "done"}
      BY <1>3, <3>1 DEF BookStates
    <3> QED
      BY <3>1, <3>2 DEF Records
  <2> QED
    BY <2>1, <2>3
<1>5. ASSUME stage = "trades" PROVE answer' = <<TradeRecords>> /\ TradeRecords \subseteq Records("trades")
  <2>1. answer' = <<TradeRecords>>
    BY <1>5 DEF TakeRecords
  <2>2. ASSUME NEW row \in TradeRecords PROVE row \in Orders \X Nat
    <3>1. PICK o \in {x \in Orders : Exists(x)} : row \in {<<o, n>> : n \in 1 .. (book[o].volume - book[o].left)}
      BY DEF TradeRecords
    <3>2. book[o] \in Entries
      BY <1>3, <3>1 DEF PosInv, PosTypeOK
    <3> QED
      BY <3>1, <3>2 DEF Entries
  <2> QED
    BY <2>1, <2>2 DEF Records
<1>6. ASSUME stage = "positions" PROVE \E rows \in SUBSET Records("positions") : answer' = <<rows>>
  <2>1. answer' = <<{side \in Sides : Yesterday[side] > 0}>>
    BY <1>6 DEF TakeRecords
  <2>2. {side \in Sides : Yesterday[side] > 0} \in SUBSET Records("positions")
    BY DEF Records
  <2> QED
    BY <2>1, <2>2
<1>7. PosTypeOK'
  <2>1. \E rows \in SUBSET Records(stage) : answer' = <<rows>>
    BY <1>1, <1>4, <1>5, <1>6
  <2> QED
    BY <1>1, <2>1 DEF PosInv, PosTypeOK, Booked
<1>8. ReportsOK'
  BY <1>1 DEF PosInv, ReportsOK, ReportOK, Booked
<1>9. RowsOK'
  BY <1>1, <1>4 DEF RowsOK, Booked
<1> QED
  BY <1>2, <1>7, <1>8, <1>9 DEF PosInv

(* A record of an answer is handled. *)
LEMMA HandledRecord ==
  ASSUME PosInv, answer # << >>, NEW rest, rest \subseteq answer[1], Finish(rest),
         UNCHANGED <<job, session, reports, exchange, mishaps>>, KeysOK', \A o \in Orders : EntryOK(o)',
         known' \in BOOLEAN, pos' \in Details
  PROVE  PosInv'
<1>1. PICK rows \in SUBSET Records(stage) : answer = <<rows>> /\ stage \in {"orders", "trades", "positions"}
  BY DEF PosInv, PosTypeOK
<1>2. answer[1] = rows
  BY <1>1
<1>3. UNCHANGED <<job, session, reports, book, hold>>
  BY DEF exchange
<1>4. CASE stage' = stage /\ answer' = <<rest>>
  <2>1. rest \in SUBSET Records(stage')
    BY <1>1, <1>2, <1>4
  <2>2. answer' # << >> /\ answer'[1] = rest
    BY <1>4
  <2>3. PosTypeOK'
    BY <1>1, <1>3, <1>4, <2>1 DEF PosInv, PosTypeOK, Booked
  <2>4. ReportsOK'
    BY <1>3, <1>4 DEF PosInv, ReportsOK, ReportOK, Booked
  <2>5. RowsOK'
    BY <1>3, <1>4, <2>2 DEF PosInv, RowsOK, Booked
  <2> QED
    BY <2>3, <2>4, <2>5 DEF PosInv
<1>5. CASE stage' = NextStage /\ answer' = << >>
  <2>1. stage' \in {"trades", "positions", "ready"} /\ stage # "down"
    BY <1>1, <1>5 DEF NextStage
  <2>2. PosTypeOK'
    BY <1>3, <1>5, <2>1 DEF PosInv, PosTypeOK, Booked, Stages
  <2>3. ReportsOK'
    BY <1>3, <2>1 DEF PosInv, ReportsOK, ReportOK, Booked
  <2>4. RowsOK'
    BY <1>5 DEF RowsOK
  <2> QED
    BY <2>2, <2>3, <2>4 DEF PosInv
<1> QED
  BY <1>4, <1>5 DEF Finish

LEMMA QryOrderStep ==
  ASSUME PosInv, NEW row, OnRspQryOrder(row)
  PROVE  \E o \in Orders, side \in Sides, l \in Locks :
           /\ o = row.order /\ side = SideOf(o) /\ l = LockOf(book[o].offset)
           /\ stage = "orders" /\ answer # << >> /\ row \in answer[1]
           /\ Booked(o) /\ book[o].state \in {"live", "cancelled", "done"}
           /\ row.state = "cancelled" => book[o].state = "cancelled"
           /\ IF Closing(o) /\ Key(o) \notin lockInfo /\ row.state # "cancelled"
                THEN AddLock(side, l, book[o].volume) ELSE UNCHANGED <<known, pos>>
           /\ lockInfo' = lockInfo \cup {Key(o)}
           /\ unlocked' = (IF Key(o) \in lockInfo THEN unlocked ELSE unlocked \ {Key(o)})
           /\ recorded' = recorded \cup {Key(o)}
           /\ Finish(answer[1] \ {row}) /\ UNCHANGED <<job, session, reports, exchange, mishaps>>
<1>1. stage = "orders" /\ answer # << >> /\ row \in answer[1]
  BY DEF OnRspQryOrder, Answers
<1>2. PICK o : o = row.order
  OBVIOUS
<1>3. /\ Booked(o) /\ book[o].state \notin {"sent", "rejected", "failed"}
      /\ row.state = "cancelled" => book[o].state = "cancelled"
  BY <1>1, <1>2 DEF PosInv, RowsOK
<1>4. o \in Orders
  <2>1. PICK rows \in SUBSET Records("orders") : answer = <<rows>>
    BY <1>1 DEF PosInv, PosTypeOK
  <2>2. row \in Records("orders")
    BY <1>1, <2>1
  <2> QED
    BY <1>2, <2>2 DEF Records
<1>5. book[o].state \in {"live", "cancelled", "done"}
  BY <1>3, <1>4 DEF PosInv, PosTypeOK, Entries, BookStates
<1>6. PICK side \in Sides, l \in Locks : side = SideOf(o) /\ l = LockOf(book[o].offset)
  BY Kinds DEF SideOf
<1>7. /\ IF Closing(o) /\ Key(o) \notin lockInfo /\ row.state # "cancelled"
           THEN AddLock(side, l, book[o].volume) ELSE UNCHANGED <<known, pos>>
      /\ lockInfo' = lockInfo \cup {Key(o)}
      /\ unlocked' = (IF Key(o) \in lockInfo THEN unlocked ELSE unlocked \ {Key(o)})
      /\ recorded' = recorded \cup {Key(o)}
      /\ Finish(answer[1] \ {row}) /\ UNCHANGED <<job, session, reports, exchange, mishaps>>
  BY <1>2, <1>6 DEF OnRspQryOrder
<1> QED
  BY <1>1, <1>2, <1>3, <1>4, <1>5, <1>6, <1>7

LEMMA QryOrderPos == ASSUME PosInv, NEW row, OnRspQryOrder(row) PROVE PosInv'
<1>1. PICK o \in Orders, side \in Sides, l \in Locks :
           /\ o = row.order /\ side = SideOf(o) /\ l = LockOf(book[o].offset)
           /\ stage = "orders" /\ answer # << >> /\ row \in answer[1]
           /\ Booked(o) /\ book[o].state \in {"live", "cancelled", "done"}
           /\ row.state = "cancelled" => book[o].state = "cancelled"
           /\ IF Closing(o) /\ Key(o) \notin lockInfo /\ row.state # "cancelled"
                THEN AddLock(side, l, book[o].volume) ELSE UNCHANGED <<known, pos>>
           /\ lockInfo' = lockInfo \cup {Key(o)}
           /\ unlocked' = (IF Key(o) \in lockInfo THEN unlocked ELSE unlocked \ {Key(o)})
           /\ recorded' = recorded \cup {Key(o)}
           /\ Finish(answer[1] \ {row}) /\ UNCHANGED <<job, session, reports, exchange, mishaps>>
  BY QryOrderStep
<1>2. known' \in BOOLEAN /\ pos' \in Details
  <2>1. pos \in Details /\ known \in BOOLEAN
    BY DEF PosInv, PosTypeOK
  <2>2. book[o] \in Entries
    BY <1>1 DEF PosInv, PosTypeOK
  <2>3. PICK n \in Int : UNCHANGED <<known, pos>> \/ AddLock(side, l, n)
    BY <1>1, <2>2 DEF Entries
  <2> QED
    BY <2>1, <2>3, Locked
<1>3. KeysOK' /\ \A x \in Orders : EntryOK(x)'
  <2>1. UNCHANGED <<job, book, session>> /\ session \in Nat
    BY <1>1 DEF exchange, PosInv, PosTypeOK
  <2>2. lockInfo' \subseteq recorded'
    BY <1>1 DEF PosInv, KeysOK
  <2>3. \A k \in recorded' : k \in recorded \/ \E x \in Orders : Booked(x) /\ k = Key(x)
    BY <1>1
  <2>4. \A k \in unlocked' : k \in unlocked
    BY <1>1
  <2> QED
    BY <2>1, <2>2, <2>3, <2>4, EngineKeys
<1>4. PICK rest : rest = answer[1] \ {row}
  OBVIOUS
<1>5. rest \subseteq answer[1] /\ Finish(rest)
  BY <1>1, <1>4
<1> QED
  BY <1>1, <1>2, <1>3, <1>5, HandledRecord

LEMMA QryTradeStep ==
  ASSUME PosInv, NEW row, OnRspQryTrade(row)
  PROVE  \E side \in Sides :
           /\ stage = "trades" /\ answer # << >> /\ row \in answer[1]
           /\ (known' = TRUE /\ UNCHANGED pos) \/ AddToday(side, 1)
           /\ Finish(answer[1] \ {row})
           /\ UNCHANGED <<recorded, lockInfo, unlocked, job, session, reports, exchange, mishaps>>
<1>1. PICK side \in Sides : side = SideOf(row[1])
  BY Kinds DEF SideOf
<1> QED
  BY <1>1 DEF OnRspQryTrade, Answers

LEMMA QryPositionStep ==
  ASSUME PosInv, NEW side, OnRspQryInvestorPosition(side)
  PROVE  /\ stage = "positions" /\ answer # << >> /\ side \in answer[1] /\ side \in Sides
         /\ pos' \in Details /\ known' \in BOOLEAN
         /\ \A s \in Sides : pos'[s].lock = pos[s].lock
         /\ Finish(answer[1] \ {side})
         /\ UNCHANGED <<recorded, lockInfo, unlocked, job, session, reports, exchange, mishaps>>
<1>1. /\ stage = "positions" /\ answer # << >> /\ side \in answer[1]
      /\ pos' = [pos EXCEPT ![side].yesterday = @ + Yesterday[side]] /\ known' = TRUE
      /\ Finish(answer[1] \ {side})
      /\ UNCHANGED <<recorded, lockInfo, unlocked, job, session, reports, exchange, mishaps>>
  BY DEF OnRspQryInvestorPosition, Answers
<1>2. side \in Sides
  <2>1. PICK rows \in SUBSET Records("positions") : answer = <<rows>>
    BY <1>1 DEF PosInv, PosTypeOK
  <2> QED
    BY <1>1, <2>1 DEF Records
<1>3. pos' \in Details /\ \A s \in Sides : pos'[s].lock = pos[s].lock
  <2>1. pos \in Details /\ Yesterday[side] \in Int
    BY <1>2, YesterdayAssumption DEF PosInv, PosTypeOK
  <2>2. pos' = [pos EXCEPT ![side].yesterday = @ + Yesterday[side]]
    BY <1>1
  <2> QED
    BY <1>2, <2>1, <2>2 DEF Details
<1>4. known' \in BOOLEAN
  BY <1>1
<1> QED
  BY <1>1, <1>2, <1>3, <1>4

LEMMA QryTradePos == ASSUME PosInv, NEW row, OnRspQryTrade(row) PROVE PosInv'
<1>1. PICK side \in Sides :
           /\ stage = "trades" /\ answer # << >> /\ row \in answer[1]
           /\ (known' = TRUE /\ UNCHANGED pos) \/ AddToday(side, 1)
           /\ Finish(answer[1] \ {row})
           /\ UNCHANGED <<recorded, lockInfo, unlocked, job, session, reports, exchange, mishaps>>
  BY QryTradeStep
<1>2. known' \in BOOLEAN /\ pos' \in Details
  <2>1. pos \in Details
    BY DEF PosInv, PosTypeOK
  <2>2. PICK n \in Int : n = 1
    OBVIOUS
  <2>3. CASE AddToday(side, n)
    BY <2>1, <2>3, Counted
  <2>4. CASE known' = TRUE /\ pos' = pos
    BY <2>1, <2>4
  <2> QED
    BY <1>1, <2>2, <2>3, <2>4
<1>3. KeysOK' /\ \A x \in Orders : EntryOK(x)'
  BY <1>1, SameKeys DEF exchange
<1>4. PICK rest : rest = answer[1] \ {row}
  OBVIOUS
<1>5. rest \subseteq answer[1] /\ Finish(rest)
  BY <1>1, <1>4
<1> QED
  BY <1>1, <1>2, <1>3, <1>5, HandledRecord

LEMMA QryPositionPos == ASSUME PosInv, NEW side, OnRspQryInvestorPosition(side) PROVE PosInv'
<1>1. KeysOK' /\ \A x \in Orders : EntryOK(x)'
  BY QryPositionStep, SameKeys DEF exchange
<1>2. PICK rest : rest = answer[1] \ {side}
  OBVIOUS
<1>3. rest \subseteq answer[1] /\ Finish(rest)
  BY <1>2, QryPositionStep
<1> QED
  BY <1>1, <1>3, HandledRecord, QryPositionStep

LEMMA NoRecordPos == ASSUME PosInv, OnRspWithoutRecord PROVE PosInv'
<1>1. answer # << >> /\ Finish({}) /\ UNCHANGED <<engine, job, session, reports, exchange, mishaps>>
  BY DEF OnRspWithoutRecord, EmptyAnswer
<1>2. KeysOK' /\ \A x \in Orders : EntryOK(x)'
  BY <1>1, SameKeys DEF engine, exchange
<1>3. known' \in BOOLEAN /\ pos' \in Details
  BY <1>1 DEF engine, PosInv, PosTypeOK
<1>4. PICK rest : rest = {}
  OBVIOUS
<1>5. rest \subseteq answer[1] /\ Finish(rest)
  BY <1>1, <1>4
<1> QED
  BY <1>1, <1>2, <1>3, <1>5, HandledRecord

LEMMA NextPos == ASSUME PosInv, [PosNext]_posVars PROVE PosInv'
<1>1. CASE UNCHANGED posVars
  <2>1. UNCHANGED <<known, pos, recorded, lockInfo, unlocked, job, session, stage, answer, reports, book, hold>>
    BY <1>1 DEF posVars, engine, connection, exchange
  <2>2. PosTypeOK' /\ KeysOK' /\ RowsOK'
    BY <2>1 DEF PosInv, PosTypeOK, KeysOK, KeyOK, RowsOK, Booked
  <2>3. ReportsOK' /\ \A o \in Orders : EntryOK(o)'
    BY <2>1 DEF PosInv, ReportsOK, ReportOK, EntryOK, Booked
  <2> QED
    BY <2>2, <2>3 DEF PosInv
<1>2. CASE Listener
  BY <1>2, ReadPos, LockPos, RecordPos, InsertPos DEF Listener
<1>3. CASE Callbacks
  BY <1>3, RtnOrderPos, RtnTradePos, RspInsertPos, DisconnectPos, LoginPos, ConfirmPos, QryOrderPos,
     QryTradePos, QryPositionPos, NoRecordPos DEF Callbacks
<1>4. CASE Exchange
  BY <1>4, AcceptPos, RejectPos, TradePos, CancelPos, OtherPos, TakePos DEF Exchange
<1> QED
  BY <1>1, <1>2, <1>3, <1>4 DEF PosNext

-----------------------------------------------------------------------------
(* What no step changes of an order that was placed                        *)

(* What an order asks for does not change any more. *)
Frozen ==
  \A o \in Orders : Booked(o) =>
     /\ Booked(o)' /\ book'[o].direction = book[o].direction /\ book'[o].offset = book[o].offset
     /\ book'[o].volume = book[o].volume /\ book'[o].session = book[o].session

LEMMA FrozenStep ==
  ASSUME PosInv, NEW o \in Orders, NEW e \in Entries, book' = [book EXCEPT ![o] = e],
         Booked(o) => /\ e.direction = book[o].direction /\ e.offset = book[o].offset
                      /\ e.volume = book[o].volume /\ e.session = book[o].session
  PROVE  Frozen
BY Placing DEF Frozen

LEMMA StateStep ==
  ASSUME PosInv, NEW o \in Orders, Booked(o), NEW state \in BookStates, book' = [book EXCEPT ![o].state = state]
  PROVE  /\ Frozen
         /\ book'[o].state = state /\ book'[o].left = book[o].left
         /\ \A x \in Orders : x # o => book'[x] = book[x]
<1>1. book[o] \in Entries
  BY DEF PosInv, PosTypeOK
<1>2. PICK e : e = [book[o] EXCEPT !.state = state]
  OBVIOUS
<1>3. /\ e \in Entries /\ e.direction = book[o].direction /\ e.offset = book[o].offset
      /\ e.volume = book[o].volume /\ e.session = book[o].session /\ e.left = book[o].left /\ e.state = state
  BY <1>1, <1>2 DEF Entries
<1>4. book' = [book EXCEPT ![o] = e]
  BY <1>2
<1> QED
  BY <1>3, <1>4, FrozenStep, Placing

LEMMA SentIsBooked ==
  ASSUME PosInv, NEW o \in Orders, book[o].state \in BookStates
  PROVE  Booked(o) /\ book[o] \in Entries /\ EntryOK(o)
BY DEF PosInv, PosTypeOK, Booked, NotPlaced, BookStates

(* The steps of the exchange, for all proofs alike *)
LEMMA AcceptBook ==
  ASSUME PosInv, NEW o \in Orders, Accept(o)
  PROVE  /\ Booked(o) /\ book[o].state = "sent" /\ Frozen
         /\ book'[o].state = "live" /\ book'[o].left = book[o].left
         /\ \A x \in Orders : x # o => book'[x] = book[x]
         /\ Covered(book[o].direction, book[o].offset, book[o].volume)
<1>1. book[o].state = "sent" /\ Booked(o)
  BY SentIsBooked DEF Accept, BookStates
<1>2. PICK state \in BookStates : state = "live" /\ book' = [book EXCEPT ![o].state = state]
  BY DEF Accept, BookStates
<1> QED
  BY <1>1, <1>2, StateStep DEF Accept

LEMMA CancelBook ==
  ASSUME PosInv, NEW o \in Orders, Cancel(o)
  PROVE  /\ Booked(o) /\ book[o].state = "live" /\ Frozen
         /\ book'[o].state = "cancelled" /\ book'[o].left = book[o].left
         /\ \A x \in Orders : x # o => book'[x] = book[x]
<1>1. book[o].state = "live" /\ Booked(o)
  BY SentIsBooked DEF Cancel, IsLive, BookStates
<1>2. PICK state \in BookStates : state = "cancelled" /\ book' = [book EXCEPT ![o].state = state]
  BY DEF Cancel, BookStates
<1> QED
  BY <1>1, <1>2, StateStep

LEMMA RejectBook ==
  ASSUME PosInv, NEW o \in Orders, Reject(o)
  PROVE  /\ Booked(o) /\ book[o].state = "sent" /\ Frozen
         /\ book'[o].state \in {"rejected", "cancelled"} /\ book'[o].left = book[o].left
         /\ \A x \in Orders : x # o => book'[x] = book[x]
         /\ book[o].left = book[o].volume
         /\ \/ /\ book'[o].state = "rejected"
               /\ \/ book[o].session # session /\ reports' = reports
                  \/ stage = "down" /\ reports' = reports
                  \/ \E r \in Reports : /\ book[o].session = session /\ stage # "down"
                                        /\ reports' = Append(reports, r) /\ r.type = "reject" /\ r.order = o
            \/ /\ book'[o].state = "cancelled"
               /\ \/ stage = "down" /\ reports' = reports
                  \/ \E r \in Reports : /\ stage # "down" /\ reports' = Append(reports, r)
                                        /\ Cancels(r) /\ r.order = o
<1>1. book[o].state = "sent" /\ Booked(o) /\ book[o] \in Entries /\ EntryOK(o)
  BY SentIsBooked DEF Reject, BookStates
<1>2. book[o].left = book[o].volume /\ book[o].volume \in Nat
  BY <1>1 DEF EntryOK, Entries
<1>3. reports \in Seq(Reports)
  BY DEF PosInv, PosTypeOK
<1>4. PICK state \in BookStates :
        /\ book' = [book EXCEPT ![o].state = state]
        /\ \/ state = "rejected" /\ Report(IF book[o].session = session THEN <<RejectReport(o)>> ELSE << >>)
           \/ state = "cancelled" /\ Report(<<OrderReport(o, "cancelled", book[o].volume)>>)
  BY DEF Reject, BookStates
<1>5. /\ Frozen /\ book'[o].state = state /\ book'[o].left = book[o].left
      /\ \A x \in Orders : x # o => book'[x] = book[x]
  BY <1>1, <1>4, StateStep
<1>6. CASE state = "rejected"
  <2>1. CASE book[o].session # session
    <3>1. Report(<< >>)
      BY <1>4, <1>6, <2>1
    <3> QED
      BY <1>1, <1>2, <1>3, <1>5, <1>6, <2>1, <3>1, Reported
  <2>2. CASE book[o].session = session
    <3>1. PICK r \in Reports : r = RejectReport(o) /\ r.type = "reject" /\ r.order = o
      <4>1. PICK r : r = RejectReport(o)
        OBVIOUS
      <4>2. r \in Reports /\ r.type = "reject" /\ r.order = o
        BY <4>1 DEF RejectReport, Reports
      <4> QED
        BY <4>1, <4>2
    <3>2. Report(<<r>>)
      BY <1>4, <1>6, <2>2, <3>1
    <3>3. reports' = IF stage = "down" THEN reports ELSE Append(reports, r)
      BY <1>3, <3>1, <3>2, Reported
    <3> QED
      BY <1>1, <1>2, <1>5, <1>6, <2>2, <3>1, <3>3
  <2> QED
    BY <2>1, <2>2
<1>7. CASE state = "cancelled"
  <2>1. PICK r \in Reports : /\ r = OrderReport(o, "cancelled", book[o].volume) /\ Cancels(r) /\ r.order = o
    <3>1. PICK r : r = OrderReport(o, "cancelled", book[o].volume)
      OBVIOUS
    <3>2. r \in Reports /\ Cancels(r) /\ r.order = o
      BY <1>2, <3>1 DEF OrderReport, Reports, OrderReports, Cancels
    <3> QED
      BY <3>1, <3>2
  <2>2. Report(<<r>>)
    BY <1>4, <1>7, <2>1
  <2>3. reports' = IF stage = "down" THEN reports ELSE Append(reports, r)
    BY <1>3, <2>1, <2>2, Reported
  <2> QED
    BY <1>1, <1>2, <1>5, <1>7, <2>1, <2>3
<1> QED
  BY <1>4, <1>6, <1>7

LEMMA TradeBook ==
  ASSUME PosInv, NEW o \in Orders, Trade(o)
  PROVE  /\ Booked(o) /\ book[o].state = "live" /\ Frozen
         /\ book'[o].left = book[o].left - 1 /\ book[o].left \in Nat \ {0}
         /\ book'[o].state = IF book[o].left = 1 THEN "done" ELSE "live"
         /\ \A x \in Orders : x # o => book'[x] = book[x]
         /\ \A side \in Sides, l \in Locks :
              hold'[side][l] =
                IF side = SideOf(o) /\ l = (IF book[o].offset = "open" THEN OpenedPart ELSE LockOf(book[o].offset))
                THEN hold[side][l] + (IF book[o].offset = "open" THEN 1 ELSE -1) ELSE hold[side][l]
         /\ UNCHANGED <<engine, job, connection, mishaps>>
<1>0. PICK left, state, side, part, gain :
           /\ book[o].state = "live"
           /\ left = book[o].left - 1 /\ state = IF left = 0 THEN "done" ELSE "live"
           /\ side = SideOf(o)
           /\ part = IF book[o].offset = "open" THEN OpenedPart ELSE LockOf(book[o].offset)
           /\ gain = IF book[o].offset = "open" THEN 1 ELSE -1
           /\ book' = [book EXCEPT ![o].left = left, ![o].state = state]
           /\ hold' = [hold EXCEPT ![side][part] = @ + gain]
           /\ Report(<<OrderReport(o, state, left), TradeReport(o)>>)
           /\ UNCHANGED <<engine, job, connection, mishaps>>
  BY TradeStep
<1>1. Booked(o) /\ book[o] \in Entries /\ EntryOK(o)
  BY <1>0, SentIsBooked DEF BookStates
<1>2. book[o].left \in Nat \ {0}
  BY <1>0, <1>1 DEF EntryOK, Entries
<1>3. left \in Nat /\ left = book[o].left - 1 /\ (left = 0 <=> book[o].left = 1)
  <2>1. left = book[o].left - 1
    BY <1>0
  <2> QED
    BY <1>2, <2>1
<1>4. state = IF book[o].left = 1 THEN "done" ELSE "live"
  BY <1>0, <1>3, Zenon
<1>5. state \in BookStates
  BY <1>4 DEF BookStates
<1>6. PICK e : e = [book[o] EXCEPT !.left = left, !.state = state]
  OBVIOUS
<1>7. /\ e \in Entries /\ e.direction = book[o].direction /\ e.offset = book[o].offset
      /\ e.volume = book[o].volume /\ e.session = book[o].session /\ e.left = left /\ e.state = state
  BY <1>1, <1>3, <1>5, <1>6 DEF Entries
<1>8. book' = [book EXCEPT ![o] = e]
  <2>1. book' = [book EXCEPT ![o].left = left, ![o].state = state]
    BY <1>0
  <2> QED
    BY <1>6, <2>1
<1>9. Frozen /\ book'[o] = e /\ \A x \in Orders : x # o => book'[x] = book[x]
  BY <1>7, <1>8, FrozenStep, Placing
<1>10. \A s \in Sides, l \in Locks :
         hold'[s][l] = IF s = side /\ l = part THEN hold[s][l] + gain ELSE hold[s][l]
  <2>1. hold' = [hold EXCEPT ![side][part] = @ + gain] /\ gain \in Int
    BY <1>0
  <2>2. hold \in [Sides -> [Locks -> Int]]
    BY DEF PosInv, PosTypeOK
  <2>3. side \in Sides /\ part \in Locks
    BY <1>0, Kinds DEF SideOf, OpenedPart, Locks
  <2> QED
    BY <2>1, <2>2, <2>3
<1>11. \A s \in Sides, l \in Locks :
         hold'[s][l] =
           IF s = SideOf(o) /\ l = (IF book[o].offset = "open" THEN OpenedPart ELSE LockOf(book[o].offset))
           THEN hold[s][l] + (IF book[o].offset = "open" THEN 1 ELSE -1) ELSE hold[s][l]
  <2>1. /\ side = SideOf(o)
        /\ part = IF book[o].offset = "open" THEN OpenedPart ELSE LockOf(book[o].offset)
        /\ gain = IF book[o].offset = "open" THEN 1 ELSE -1
    BY <1>0
  <2> QED
    BY <1>10, <2>1, Zenon
<1>12. book[o].state = "live" /\ UNCHANGED <<engine, job, connection, mishaps>>
  BY <1>0
<1>13. book'[o].left = book[o].left - 1 /\ book'[o].state = IF book[o].left = 1 THEN "done" ELSE "live"
  BY <1>3, <1>4, <1>7, <1>9, Zenon
<1> QED
  BY <1>1, <1>2, <1>9, <1>11, <1>12, <1>13, Zenon

LEMMA OtherBook ==
  ASSUME PosInv, NEW o \in Foreign, NEW direction \in Directions, NEW offset \in Wishes \ {"auto"},
         NEW volume \in Volumes, OtherTerminal(o, direction, offset, volume)
  PROVE  /\ o \in Orders /\ ~Booked(o) /\ Booked(o)' /\ Frozen
         /\ book'[o] \in Entries /\ book'[o].state = "live" /\ book'[o].left = volume /\ book'[o].session = 0
         /\ book'[o].volume = volume /\ book'[o].offset = offset /\ book'[o].direction = direction
         /\ volume \in Nat \ {0}
         /\ \A x \in Orders : x # o => book'[x] = book[x]
<1>1. ~Booked(o) /\ o \in Orders
  BY DEF OtherTerminal, Booked, Orders
<1>2. offset \in Offsets /\ volume \in Nat \ {0}
  BY WishesAssumption
<1>3. PICK e : e = Placed(direction, offset, volume, 0, "live")
  OBVIOUS
<1>4. /\ e \in Entries /\ book' = [book EXCEPT ![o] = e] /\ e.state = "live" /\ e.left = volume
      /\ e.volume = volume /\ e.session = 0 /\ e.offset = offset /\ e.direction = direction
  BY <1>2, <1>3 DEF OtherTerminal, Placed, Entries, BookStates
<1>5. Frozen /\ book'[o] = e /\ Booked(o)' /\ \A x \in Orders : x # o => book'[x] = book[x]
  BY <1>1, <1>4, FrozenStep, Placing
<1> QED
  BY <1>1, <1>2, <1>4, <1>5

LEMMA InsertBook ==
  ASSUME PosInv, Insert
  PROVE  \E o \in Own :
           /\ o = job.order /\ job \in Jobs /\ job.pc = "record" /\ job' = Idle
           /\ o \in Orders /\ ~Booked(o) /\ Booked(o)' /\ Frozen
           /\ book'[o] \in Entries /\ book'[o].state \in {"sent", "failed"}
           /\ book'[o].state = "sent" => stage # "down"
           /\ book'[o].left = job.volume /\ book'[o].session = session
           /\ book'[o].volume = job.volume /\ book'[o].offset = job.offset /\ book'[o].direction = job.direction
           /\ \A x \in Orders : x # o => book'[x] = book[x]
           /\ UNCHANGED <<engine, connection, reports, hold, mishaps>>
<1>1. /\ job \in Jobs /\ job.pc = "record" /\ job' = Idle /\ ~Booked(job.order)
      /\ UNCHANGED <<engine, connection, reports, hold, mishaps>>
  BY InsertPos
<1>2. PICK e \in Entries :
              /\ book' = [book EXCEPT ![job.order] = e]
              /\ e.state \in {"sent", "failed"} /\ (e.state = "sent" => stage # "down")
              /\ e.direction = job.direction /\ e.offset = job.offset
              /\ e.volume = job.volume /\ e.left = job.volume /\ e.session = session
  BY InsertPos
<1>3. PICK o \in Own : o = job.order
  BY <1>1 DEF Jobs
<1>4. o \in Orders
  BY DEF Orders
<1>5. Frozen /\ book'[o] = e /\ Booked(o)' /\ \A x \in Orders : x # o => book'[x] = book[x]
  BY <1>1, <1>2, <1>3, <1>4, FrozenStep, Placing
<1> QED
  BY <1>1, <1>2, <1>3, <1>4, <1>5

LEMMA SameBook == ASSUME UNCHANGED book PROVE Frozen
BY DEF Frozen, Booked

-----------------------------------------------------------------------------
(* What the exchange holds is what was opened less what was closed.        *)

LEMMA OrdersFinite == IsFiniteSet(Orders)
BY OrdersAssumption, FS_Union DEF Orders

(* An order that closes (at the side and the lock it does) *)
OnSide(o, side, l) == Booked(o) /\ book[o].offset # "open" /\ SideOf(o) = side /\ LockOf(book[o].offset) = l
OpensOn(o, side) == Booked(o) /\ book[o].offset = "open" /\ SideOf(o) = side

LEMMA SameSide ==
  ASSUME Frozen, NEW o \in Orders, Booked(o)
  PROVE  /\ Booked(o)' /\ Key(o)' = Key(o) /\ SideOf(o)' = SideOf(o) /\ book'[o].volume = book[o].volume
         /\ book'[o].offset = book[o].offset /\ LockOf(book'[o].offset) = LockOf(book[o].offset)
         /\ \A side, l : OnSide(o, side, l)' <=> OnSide(o, side, l)
         /\ \A side : OpensOn(o, side)' <=> OpensOn(o, side)
<1>1. /\ Booked(o)' /\ book'[o].direction = book[o].direction /\ book'[o].offset = book[o].offset
      /\ book'[o].volume = book[o].volume /\ book'[o].session = book[o].session
  BY DEF Frozen
<1>2. SideOf(o)' = SideOf(o) /\ Key(o)' = Key(o)
  BY <1>1 DEF SideOf, Key
<1> QED
  BY <1>1, <1>2 DEF OnSide, OpensOn

LEMMA EntryTypes ==
  ASSUME PosInv, NEW o \in Orders, Booked(o)
  PROVE  /\ book[o] \in Entries /\ EntryOK(o) /\ book[o].volume \in Nat \ {0} /\ book[o].left \in Nat
         /\ book[o].left <= book[o].volume /\ book[o].session \in Nat /\ book[o].session <= session
BY DEF PosInv, PosTypeOK, EntryOK, Entries

-----------------------------------------------------------------------------
(* The positions at the exchange are what the account started with and has *)
(* traded.                                                                 *)
Start(side, l) == IF l = (IF SplitsToday THEN "yesterday" ELSE "close") THEN Yesterday[side] ELSE 0
OpenedOf(o, side) == IF OpensOn(o, side) THEN book[o].volume - book[o].left ELSE 0
ClosedOf(o, side, l) == IF OnSide(o, side, l) THEN book[o].volume - book[o].left ELSE 0
Opened(side) == Sum([o \in Orders |-> OpenedOf(o, side)], Orders)
Closed(side, l) == Sum([o \in Orders |-> ClosedOf(o, side, l)], Orders)

HoldInv ==
  \A side \in Sides, l \in Locks :
    hold[side][l] = Start(side, l) + (IF l = OpenedPart THEN Opened(side) ELSE 0) - Closed(side, l)

TradedTyped ==
  \A side \in Sides, l \in Locks :
    /\ \A o \in Orders : OpenedOf(o, side) \in Nat /\ ClosedOf(o, side, l) \in Nat
    /\ Opened(side) \in Int /\ Closed(side, l) \in Int

LEMMA TradedTypes == PosInv => TradedTyped
<1> SUFFICES ASSUME PosInv, NEW side \in Sides, NEW l \in Locks
    PROVE  /\ \A o \in Orders : OpenedOf(o, side) \in Nat /\ ClosedOf(o, side, l) \in Nat
           /\ Opened(side) \in Int /\ Closed(side, l) \in Int
  BY DEF TradedTyped
<1>1. ASSUME NEW o \in Orders PROVE OpenedOf(o, side) \in Nat /\ ClosedOf(o, side, l) \in Nat
  <2>1. CASE ~Booked(o)
    BY <2>1 DEF OpenedOf, ClosedOf, OpensOn, OnSide
  <2>2. CASE Booked(o)
    BY <2>2, EntryTypes DEF OpenedOf, ClosedOf
  <2> QED
    BY <2>1, <2>2
<1>2. PICK f : f = [o \in Orders |-> OpenedOf(o, side)]
  OBVIOUS
<1>3. PICK e : e = [o \in Orders |-> ClosedOf(o, side, l)]
  OBVIOUS
<1>4. (\A o \in Orders : f[o] \in Int) /\ (\A o \in Orders : e[o] \in Int)
  BY <1>1, <1>2, <1>3
<1>5. Sum(f, Orders) \in Int
  BY <1>4, OrdersFinite, TakenSum
<1>6. Sum(e, Orders) \in Int
  BY <1>4, OrdersFinite, TakenSum
<1> QED
  BY <1>1, <1>2, <1>3, <1>5, <1>6 DEF Opened, Closed

LEMMA TradedTypesNext == PosInv' => TradedTyped'
BY TradedTypes, PTL

(* What is opened and closed when nothing trades ... *)
SameTraded ==
  \A o \in Orders : IF Booked(o) THEN book'[o].left = book[o].left
                    ELSE Booked(o)' => book'[o].left = book'[o].volume

LEMMA NothingTraded ==
  ASSUME PosInv, PosInv', Frozen, SameTraded, NEW side, NEW l
  PROVE  Opened(side)' = Opened(side) /\ Closed(side, l)' = Closed(side, l)
<1>1. ASSUME NEW o \in Orders PROVE OpenedOf(o, side)' = OpenedOf(o, side) /\ ClosedOf(o, side, l)' = ClosedOf(o, side, l)
  <2>1. CASE Booked(o)
    <3>1. OnSide(o, side, l)' <=> OnSide(o, side, l)
      BY <2>1, SameSide
    <3>2. OpensOn(o, side)' <=> OpensOn(o, side)
      BY <2>1, SameSide
    <3>3. book'[o].volume = book[o].volume /\ book'[o].left = book[o].left
      BY <2>1, SameSide DEF SameTraded
    <3> QED
      BY <3>1, <3>2, <3>3 DEF OpenedOf, ClosedOf
  <2>2. CASE ~Booked(o)
    <3>1. OpenedOf(o, side) = 0 /\ ClosedOf(o, side, l) = 0
      BY <2>2 DEF OpenedOf, ClosedOf, OnSide, OpensOn
    <3>2. CASE ~Booked(o)'
      <4>1. OpenedOf(o, side)' = 0 /\ ClosedOf(o, side, l)' = 0
        BY <3>2 DEF OpenedOf, ClosedOf, OnSide, OpensOn
      <4> QED
        BY <3>1, <4>1
    <3>3. CASE Booked(o)'
      <4>1. book'[o].left = book'[o].volume /\ book'[o].volume \in Nat
        BY <2>2, <3>3 DEF SameTraded, PosInv, PosTypeOK, Entries
      <4> QED
        BY <3>1, <4>1 DEF OpenedOf, ClosedOf
    <3> QED
      BY <3>2, <3>3
  <2> QED
    BY <2>1, <2>2
<1>2. PICK f : f = [o \in Orders |-> OpenedOf(o, side)]
  OBVIOUS
<1>3. PICK e : e = [o \in Orders |-> OpenedOf(o, side)']
  OBVIOUS
<1>4. \A o \in Orders : f[o] = e[o]
  BY <1>1, <1>2, <1>3
<1>5. Sum(f, Orders) = Sum(e, Orders)
  BY <1>4, OrdersFinite, SameSum
<1>6. PICK g : g = [o \in Orders |-> ClosedOf(o, side, l)]
  OBVIOUS
<1>7. PICK h : h = [o \in Orders |-> ClosedOf(o, side, l)']
  OBVIOUS
<1>8. \A o \in Orders : g[o] = h[o]
  BY <1>1, <1>6, <1>7
<1>9. Sum(g, Orders) = Sum(h, Orders)
  BY <1>8, OrdersFinite, SameSum
<1> QED
  BY <1>2, <1>3, <1>5, <1>6, <1>7, <1>9 DEF Opened, Closed

(* ... and when an order does *)
LEMMA OneTraded ==
  ASSUME PosInv, PosInv', NEW y \in Orders, Trade(y), NEW side \in Sides, NEW l \in Locks
  PROVE  /\ Opened(side)' = Opened(side) + (IF OpensOn(y, side) THEN 1 ELSE 0)
         /\ Closed(side, l)' = Closed(side, l) + (IF OnSide(y, side, l) THEN 1 ELSE 0)
<1>1. /\ Booked(y) /\ Frozen /\ book'[y].left = book[y].left - 1
      /\ \A x \in Orders : x # y => book'[x] = book[x]
  BY TradeBook
<1>2. \A o \in Orders : /\ OpenedOf(o, side) \in Nat /\ ClosedOf(o, side, l) \in Nat
                        /\ OpenedOf(o, side)' \in Nat /\ ClosedOf(o, side, l)' \in Nat
  BY TradedTypes, TradedTypesNext DEF TradedTyped
<1>3. ASSUME NEW o \in Orders, o # y
      PROVE  OpenedOf(o, side)' = OpenedOf(o, side) /\ ClosedOf(o, side, l)' = ClosedOf(o, side, l)
  BY <1>1, <1>3 DEF OpenedOf, ClosedOf, OnSide, OpensOn, Booked, SideOf
<1>4. /\ OpenedOf(y, side)' = OpenedOf(y, side) + (IF OpensOn(y, side) THEN 1 ELSE 0)
      /\ ClosedOf(y, side, l)' = ClosedOf(y, side, l) + (IF OnSide(y, side, l) THEN 1 ELSE 0)
  <2>1. OnSide(y, side, l)' <=> OnSide(y, side, l)
    BY <1>1, SameSide
  <2>2. OpensOn(y, side)' <=> OpensOn(y, side)
    BY <1>1, SameSide
  <2>3. book'[y].volume = book[y].volume /\ book[y].volume \in Nat /\ book[y].left \in Nat
    BY <1>1, SameSide, EntryTypes
  <2> QED
    BY <1>1, <2>1, <2>2, <2>3 DEF OpenedOf, ClosedOf
<1>5. PICK f : f = [o \in Orders |-> OpenedOf(o, side)]
  OBVIOUS
<1>6. PICK e : e = [o \in Orders |-> OpenedOf(o, side)']
  OBVIOUS
<1>7. (\A o \in Orders : f[o] \in Int /\ e[o] \in Int) /\ (\A o \in Orders : f[o] \in Int) /\ (\A o \in Orders : o # y => e[o] = f[o])
  BY <1>2, <1>3, <1>5, <1>6
<1>8. Sum(e, Orders) = Sum(f, Orders) - f[y] + e[y] /\ Sum(f, Orders) \in Int
  <2>1. Sum(e, Orders) = Sum(f, Orders) - f[y] + e[y]
    BY <1>7, OrdersFinite, ChangedSum
  <2>2. Sum(f, Orders) \in Int
    BY <1>7, OrdersFinite, TakenSum
  <2> QED
    BY <2>1, <2>2
<1>9. PICK g : g = [o \in Orders |-> ClosedOf(o, side, l)]
  OBVIOUS
<1>10. PICK h : h = [o \in Orders |-> ClosedOf(o, side, l)']
  OBVIOUS
<1>11. (\A o \in Orders : g[o] \in Int /\ h[o] \in Int) /\ (\A o \in Orders : g[o] \in Int) /\ (\A o \in Orders : o # y => h[o] = g[o])
  BY <1>2, <1>3, <1>9, <1>10
<1>12. Sum(h, Orders) = Sum(g, Orders) - g[y] + h[y] /\ Sum(g, Orders) \in Int
  <2>1. Sum(h, Orders) = Sum(g, Orders) - g[y] + h[y]
    BY <1>11, OrdersFinite, ChangedSum
  <2>2. Sum(g, Orders) \in Int
    BY <1>11, OrdersFinite, TakenSum
  <2> QED
    BY <2>1, <2>2
<1>13. /\ Opened(side) = Sum(f, Orders) /\ Opened(side)' = Sum(e, Orders)
       /\ f[y] = OpenedOf(y, side) /\ e[y] = OpenedOf(y, side)'
  BY <1>5, <1>6 DEF Opened
<1>14. /\ Closed(side, l) = Sum(g, Orders) /\ Closed(side, l)' = Sum(h, Orders)
       /\ g[y] = ClosedOf(y, side, l) /\ h[y] = ClosedOf(y, side, l)'
  BY <1>9, <1>10 DEF Closed
<1>15. Opened(side)' = Opened(side) + (IF OpensOn(y, side) THEN 1 ELSE 0)
  BY <1>2, <1>4, <1>8, <1>13
<1>16. Closed(side, l)' = Closed(side, l) + (IF OnSide(y, side, l) THEN 1 ELSE 0)
  BY <1>2, <1>4, <1>12, <1>14
<1> QED
  BY <1>15, <1>16

LEMMA HoldInit == PosInit => HoldInv
<1> SUFFICES ASSUME PosInit, NEW side \in Sides, NEW l \in Locks
    PROVE  hold[side][l] = Start(side, l) + (IF l = OpenedPart THEN Opened(side) ELSE 0) - Closed(side, l)
  BY DEF HoldInv
<1>1. hold[side][l] = Start(side, l) /\ Start(side, l) \in Int
  BY YesterdayAssumption DEF PosInit, Start
<1>2. \A o \in Orders : ~Booked(o)
  BY DEF PosInit, Booked
<1>3. PICK f : f = [o \in Orders |-> OpenedOf(o, side)]
  OBVIOUS
<1>4. PICK e : e = [o \in Orders |-> ClosedOf(o, side, l)]
  OBVIOUS
<1>5. (\A o \in Orders : f[o] = 0) /\ (\A o \in Orders : e[o] = 0)
  BY <1>2, <1>3, <1>4 DEF OpenedOf, ClosedOf, OnSide, OpensOn
<1>6. Sum(f, Orders) = 0
  BY <1>5, OrdersFinite, ZeroSum
<1>7. Sum(e, Orders) = 0
  BY <1>5, OrdersFinite, ZeroSum
<1>8. Opened(side) = 0 /\ Closed(side, l) = 0
  BY <1>3, <1>4, <1>6, <1>7 DEF Opened, Closed
<1> QED
  BY <1>1, <1>8

(* Nothing but the exchange's Trade trades. *)
LEMMA BookSteps ==
  ASSUME PosInv, [PosNext]_posVars
  PROVE  /\ Frozen
         /\ \/ SameTraded /\ UNCHANGED hold
            \/ \E o \in Orders : Trade(o)
<1>1. CASE UNCHANGED book /\ UNCHANGED hold
  BY <1>1, SameBook DEF SameTraded, Booked
<1>2. ASSUME NEW o \in Orders, Accept(o) \/ Reject(o) \/ Cancel(o)
      PROVE  Frozen /\ SameTraded /\ UNCHANGED hold
  <2>1. Booked(o) /\ Frozen /\ book'[o].left = book[o].left /\ \A x \in Orders : x # o => book'[x] = book[x]
    BY <1>2, AcceptBook, RejectBook, CancelBook
  <2>2. UNCHANGED hold
    BY <1>2 DEF Accept, Reject, Cancel
  <2> QED
    BY <2>1, <2>2 DEF SameTraded, Booked
<1>3. ASSUME NEW o \in Foreign, NEW direction \in Directions, NEW offset \in Wishes \ {"auto"},
             NEW volume \in Volumes, OtherTerminal(o, direction, offset, volume)
      PROVE  Frozen /\ SameTraded /\ UNCHANGED hold
  <2>1. /\ ~Booked(o) /\ Frozen /\ book'[o].left = book'[o].volume /\ \A x \in Orders : x # o => book'[x] = book[x]
    BY <1>3, OtherBook
  <2>2. UNCHANGED hold
    BY <1>3 DEF OtherTerminal
  <2> QED
    BY <2>1, <2>2 DEF SameTraded, Booked
<1>4. CASE Insert
  <2>1. PICK o \in Own : /\ ~Booked(o) /\ Frozen /\ book'[o].left = job.volume /\ book'[o].volume = job.volume
                         /\ \A x \in Orders : x # o => book'[x] = book[x]
                         /\ UNCHANGED hold
    BY <1>4, InsertBook
  <2> QED
    BY <2>1 DEF SameTraded, Booked
<1>5. CASE Listener
  BY <1>1, <1>4, <1>5 DEF Listener, Read, Lock, Record, exchange
<1>6. CASE Callbacks
  <2>1. UNCHANGED exchange
    BY <1>6 DEF Callbacks, OnRtnOrder, OnRtnTrade, OnRspOrderInsert, OnFrontDisconnected, OnRspUserLogin,
       OnRspSettlementInfoConfirm, OnRspQryOrder, OnRspQryTrade, OnRspQryInvestorPosition, OnRspWithoutRecord
  <2> QED
    BY <1>1, <2>1 DEF exchange
<1>7. CASE TakeRecords
  BY <1>1, <1>7 DEF TakeRecords, exchange
<1>8. ASSUME NEW o \in Orders, Trade(o) PROVE Frozen
  BY <1>8, TradeBook
<1>9. CASE Exchange
  BY <1>2, <1>3, <1>7, <1>8, <1>9 DEF Exchange
<1>10. CASE UNCHANGED posVars
  BY <1>1, <1>10 DEF posVars, exchange
<1> QED
  BY <1>5, <1>6, <1>9, <1>10 DEF PosNext

LEMMA HoldNext ==
  ASSUME PosInv, PosInv', HoldInv, [PosNext]_posVars
  PROVE  HoldInv'
<1> SUFFICES ASSUME NEW side \in Sides, NEW l \in Locks
    PROVE  hold'[side][l] = Start(side, l) + (IF l = OpenedPart THEN Opened(side)' ELSE 0) - Closed(side, l)'
  BY DEF HoldInv, Start, OpenedPart
<1>1. hold[side][l] = Start(side, l) + (IF l = OpenedPart THEN Opened(side) ELSE 0) - Closed(side, l)
  BY DEF HoldInv
<1>2. /\ Start(side, l) \in Int /\ Opened(side) \in Int /\ Closed(side, l) \in Int /\ hold[side][l] \in Int
  BY TradedTypes, YesterdayAssumption DEF TradedTyped, Start, PosInv, PosTypeOK
<1>3. CASE SameTraded /\ UNCHANGED hold
  <2>1. Opened(side)' = Opened(side) /\ Closed(side, l)' = Closed(side, l)
    BY <1>3, BookSteps, NothingTraded
  <2> QED
    BY <1>1, <1>3, <2>1
<1>4. ASSUME NEW o \in Orders, Trade(o)
      PROVE  hold'[side][l] = Start(side, l) + (IF l = OpenedPart THEN Opened(side)' ELSE 0) - Closed(side, l)'
  <2>1. /\ Opened(side)' = Opened(side) + (IF OpensOn(o, side) THEN 1 ELSE 0)
        /\ Closed(side, l)' = Closed(side, l) + (IF OnSide(o, side, l) THEN 1 ELSE 0)
    BY <1>4, OneTraded
  <2>2. hold'[side][l] =
          IF side = SideOf(o) /\ l = (IF book[o].offset = "open" THEN OpenedPart ELSE LockOf(book[o].offset))
          THEN hold[side][l] + (IF book[o].offset = "open" THEN 1 ELSE -1) ELSE hold[side][l]
    BY <1>4, TradeBook
  <2>3. Booked(o)
    BY <1>4, TradeBook
  <2>4. CASE book[o].offset = "open"
    BY <1>1, <1>2, <2>1, <2>2, <2>3, <2>4 DEF OpensOn, OnSide
  <2>5. CASE book[o].offset # "open"
    BY <1>1, <1>2, <2>1, <2>2, <2>3, <2>5 DEF OpensOn, OnSide
  <2> QED
    BY <2>4, <2>5
<1> QED
  BY <1>3, <1>4, BookSteps

-----------------------------------------------------------------------------
(* No more is locked than orders ask for.                                  *)

LockAt(side, l) == pos[side].lock[l]
JobOn(side, l) ==
  /\ job # Idle /\ job.pc \in {"lock", "record"} /\ job.offset # "open"
  /\ PositionDirection(job.direction, job.offset) = side /\ LockOf(job.offset) = l
JobShare(side, l) == IF JobOn(side, l) THEN job.volume ELSE 0

SameLocks == \A side \in Sides, l \in Locks : LockAt(side, l)' = LockAt(side, l)

LEMMA LockTypes ==
  PosInv => \A side \in Sides, l \in Locks : LockAt(side, l) \in Int /\ JobShare(side, l) \in Nat
BY DEF PosInv, PosTypeOK, Details, LockAt, JobShare, JobOn, Jobs

LEMMA LockTypesNext ==
  PosInv' => (\A side \in Sides, l \in Locks : LockAt(side, l) \in Int /\ JobShare(side, l) \in Nat)'
BY LockTypes, PTL

LEMMA MovedLocks ==
  ASSUME PosInv, NEW side \in Sides, NEW l \in Locks, NEW n \in Int, AddLock(side, l, n)
  PROVE  \A s \in Sides, k \in Locks :
           LockAt(s, k)' = IF s = side /\ k = l THEN LockAt(s, k) + n ELSE LockAt(s, k)
<1>1. pos \in Details
  BY DEF PosInv, PosTypeOK
<1> QED
  BY <1>1, Locked DEF LockAt

LEMMA CountedLocks ==
  ASSUME PosInv, NEW side \in Sides, NEW n \in Int, AddToday(side, n)
  PROVE  SameLocks
<1>1. pos \in Details
  BY DEF PosInv, PosTypeOK
<1> QED
  BY <1>1, Counted DEF LockAt, SameLocks

LEMMA MishapsGrow ==
  ASSUME [PosNext]_posVars
  PROVE  mishaps \subseteq mishaps'
<1>1. CASE Listener
  BY <1>1 DEF Listener, Read, Lock, Record, Insert
<1>2. CASE Callbacks
  BY <1>2 DEF Callbacks, OnRtnOrder, OnRtnTrade, OnRspOrderInsert, OnFrontDisconnected, OnRspUserLogin,
     OnRspSettlementInfoConfirm, OnRspQryOrder, OnRspQryTrade, OnRspQryInvestorPosition, OnRspWithoutRecord
<1>3. CASE Exchange
  <2>1. ASSUME NEW o \in Orders, Accept(o) \/ Reject(o) \/ Trade(o) \/ Cancel(o) PROVE UNCHANGED mishaps
    BY <2>1 DEF Accept, Reject, Trade, Cancel
  <2>2. ASSUME NEW o, NEW direction, NEW offset, NEW volume, OtherTerminal(o, direction, offset, volume)
        PROVE  UNCHANGED mishaps
    BY <2>2 DEF OtherTerminal
  <2>3. CASE TakeRecords
    BY <2>3 DEF TakeRecords
  <2> QED
    BY <1>3, <2>1, <2>2, <2>3 DEF Exchange
<1>4. CASE UNCHANGED posVars
  BY <1>4 DEF posVars
<1> QED
  BY <1>1, <1>2, <1>3, <1>4 DEF PosNext

-----------------------------------------------------------------------------
(* Steps that leave the locks and the lock tables alone *)
Untouched == UNCHANGED <<lockInfo, unlocked, recorded, job, session>> /\ SameLocks

LEMMA ExchangeUntouched ==
  ASSUME Exchange
  PROVE  UNCHANGED <<known, pos, recorded, lockInfo, unlocked, job, session, stage>>
<1>1. ASSUME NEW o \in Orders, Accept(o) \/ Reject(o) \/ Trade(o) \/ Cancel(o)
      PROVE  UNCHANGED <<engine, job, connection>>
  BY <1>1 DEF Accept, Reject, Trade, Cancel
<1>2. ASSUME NEW o, NEW direction, NEW offset, NEW volume, OtherTerminal(o, direction, offset, volume)
      PROVE  UNCHANGED <<engine, job, connection>>
  BY <1>2 DEF OtherTerminal
<1>3. CASE TakeRecords
  BY <1>3 DEF TakeRecords, engine
<1> QED
  BY <1>1, <1>2, <1>3 DEF Exchange, engine, connection

LEMMA QueriesUntouched ==
  ASSUME PosInv,
         OnRtnTrade \/ OnRspSettlementInfoConfirm \/ OnRspWithoutRecord
         \/ \E row : OnRspQryTrade(row) \/ OnRspQryInvestorPosition(row)
  PROVE  Untouched /\ UNCHANGED <<book, hold>>
<1>1. CASE OnRtnTrade
  <2>1. PICK r \in Reports, o \in Orders, side \in Sides :
           /\ IF Closing(o) THEN known' = TRUE /\ UNCHANGED pos ELSE AddToday(side, 1)
           /\ UNCHANGED <<recorded, lockInfo, unlocked, job, connection, exchange, mishaps>>
    BY <1>1, RtnTradeStep
  <2>2. PICK n \in Int : n = 1
    OBVIOUS
  <2>3. SameLocks
    <3>1. CASE UNCHANGED pos
      BY <3>1 DEF SameLocks, LockAt
    <3>2. CASE AddToday(side, n)
      BY <3>2, CountedLocks
    <3> QED
      BY <2>1, <2>2, <3>1, <3>2
  <2> QED
    BY <2>1, <2>3 DEF Untouched, connection, exchange
<1>2. CASE OnRspSettlementInfoConfirm
  BY <1>2 DEF OnRspSettlementInfoConfirm, Untouched, engine, exchange, SameLocks, LockAt
<1>3. CASE OnRspWithoutRecord
  BY <1>3 DEF OnRspWithoutRecord, Untouched, engine, exchange, SameLocks, LockAt
<1>4. ASSUME NEW row, OnRspQryTrade(row) PROVE Untouched /\ UNCHANGED <<book, hold>>
  <2>1. PICK side \in Sides :
           /\ (known' = TRUE /\ UNCHANGED pos) \/ AddToday(side, 1)
           /\ UNCHANGED <<recorded, lockInfo, unlocked, job, session, reports, exchange, mishaps>>
    BY <1>4, QryTradeStep
  <2>2. PICK n \in Int : n = 1
    OBVIOUS
  <2>3. SameLocks
    <3>1. CASE UNCHANGED pos
      BY <3>1 DEF SameLocks, LockAt
    <3>2. CASE AddToday(side, n)
      BY <3>2, CountedLocks
    <3> QED
      BY <2>1, <2>2, <3>1, <3>2
  <2> QED
    BY <2>1, <2>3 DEF Untouched, exchange
<1>5. ASSUME NEW row, OnRspQryInvestorPosition(row) PROVE Untouched /\ UNCHANGED <<book, hold>>
  BY <1>5, QryPositionStep DEF Untouched, exchange, SameLocks, LockAt
<1> QED
  BY <1>1, <1>2, <1>3, <1>4, <1>5

-----------------------------------------------------------------------------
(* The job of the listening thread while no connection broke in *)
JobInv ==
  mishaps \subseteq {"idle", "overlap"} /\ job # Idle =>
    /\ is_logged_in
    /\ job.pc = "record" => <<job.order, session>> \in lockInfo

LEMMA JobNext == ASSUME PosInv, JobInv, [PosNext]_posVars PROVE JobInv'
<1> SUFFICES ASSUME mishaps' \subseteq {"idle", "overlap"}, job' # Idle
    PROVE  is_logged_in' /\ (job'.pc = "record" => <<job'.order, session'>> \in lockInfo')
  BY DEF JobInv
<1>1. mishaps \subseteq {"idle", "overlap"}
  BY MishapsGrow
<1>2. job # Idle => is_logged_in /\ (job.pc = "record" => <<job.order, session>> \in lockInfo)
  BY <1>1 DEF JobInv
<1>3. CASE UNCHANGED <<job, session>> /\ lockInfo \subseteq lockInfo' /\ (is_logged_in => is_logged_in')
  BY <1>2, <1>3
<1>4. ASSUME NEW o \in Own, NEW direction \in Directions, NEW wish \in Wishes, NEW volume \in Volumes,
             Read(o, direction, wish, volume)
      PROVE  is_logged_in' /\ job'.pc # "record"
  BY <1>4 DEF Read, connection, is_logged_in
<1>5. CASE Lock
  <2>1. job \in Jobs /\ job' = [job EXCEPT !.pc = "lock"]
    BY <1>5, LockPos
  <2>2. job # Idle /\ job'.pc = "lock" /\ is_logged_in' = is_logged_in
    BY <1>5, <2>1 DEF Lock, Jobs, Idle, connection, is_logged_in
  <2> QED
    BY <1>2, <2>2
<1>6. CASE Record
  <2>1. job \in Jobs /\ job' = [job EXCEPT !.pc = "record"]
    BY <1>6, RecordPos
  <2>2. job # Idle /\ job'.order = job.order /\ is_logged_in' = is_logged_in
    BY <1>6, <2>1 DEF Record, Jobs, Idle, connection, is_logged_in
  <2> QED
    BY <1>2, <1>6, <2>2 DEF Record, connection
<1>7. CASE Insert
  BY <1>7 DEF Insert
<1>8. CASE OnFrontDisconnected
  <2>1. job.pc \in mishaps' /\ job' = job
    BY <1>8 DEF OnFrontDisconnected
  <2>2. job \in Jobs
    BY <2>1 DEF PosInv, PosTypeOK
  <2> QED
    BY <2>1, <2>2 DEF Jobs
<1>9. CASE OnRspUserLogin
  BY <1>2, <1>9 DEF OnRspUserLogin, is_logged_in
<1>10. CASE OnRtnOrder
  <2>1. PICK o : UNCHANGED <<job, connection>> /\ lockInfo \subseteq lockInfo'
    BY <1>10, RtnOrderStep
  <2> QED
    BY <1>3, <2>1 DEF connection, is_logged_in
<1>11. CASE OnRtnTrade \/ OnRspOrderInsert
  BY <1>3, <1>11 DEF OnRtnTrade, OnRspOrderInsert, connection, is_logged_in
<1>12. CASE OnRspSettlementInfoConfirm
  BY <1>3, <1>12 DEF OnRspSettlementInfoConfirm, engine, is_logged_in
<1>13. ASSUME Finish({}) \/ \E rest : Finish(rest), answer # << >>
       PROVE  is_logged_in => is_logged_in'
  <2>1. stage \in {"orders", "trades", "positions"}
    BY <1>13 DEF PosInv, PosTypeOK
  <2>2. stage' = stage \/ stage' = NextStage
    BY <1>13 DEF Finish
  <2> QED
    BY <2>1, <2>2 DEF NextStage, is_logged_in
<1>14. ASSUME NEW row, OnRspQryOrder(row) \/ OnRspQryTrade(row) \/ OnRspQryInvestorPosition(row), answer # << >>
       PROVE  UNCHANGED <<job, session>> /\ lockInfo \subseteq lockInfo' /\ (is_logged_in => is_logged_in')
  BY <1>13, <1>14 DEF OnRspQryOrder, OnRspQryTrade, OnRspQryInvestorPosition
<1>15. CASE OnRspWithoutRecord
  BY <1>3, <1>13, <1>15 DEF OnRspWithoutRecord, EmptyAnswer, engine
<1>16. CASE Exchange
  BY <1>3, <1>16, ExchangeUntouched DEF is_logged_in
<1>17. CASE UNCHANGED posVars
  BY <1>3, <1>17 DEF posVars, engine, connection, is_logged_in
<1>18. CASE Listener
  BY <1>4, <1>5, <1>6, <1>7, <1>18 DEF Listener
<1>19. CASE Callbacks
  BY <1>3, <1>8, <1>9, <1>10, <1>11, <1>12, <1>14, <1>15, <1>19 DEF Callbacks
<1> QED
  BY <1>16, <1>17, <1>18, <1>19 DEF PosNext

-----------------------------------------------------------------------------
(* ... summand by summand, and the share of the listening thread           *)

(* What the steps of the listening thread do to its share of the locks *)
LEMMA ReadShare ==
  ASSUME PosInv, NEW o \in Own, NEW direction \in Directions, NEW wish \in Wishes, NEW volume \in Volumes,
         Read(o, direction, wish, volume)
  PROVE  /\ SameLocks /\ UNCHANGED <<recorded, lockInfo, unlocked, session, stage, answer, reports, book, hold, mishaps>>
         /\ job = Idle /\ job' \in Jobs
         /\ \A side \in Sides, l \in Locks : JobShare(side, l) = 0 /\ JobShare(side, l)' = 0
<1>1. job = Idle /\ job' \in Jobs
  BY ReadPos DEF Read
<1>2. job'.pc = "read" \/ job'.offset = "open"
  BY DEF Read
<1>3. SameLocks
  <2>1. PICK side \in Sides, n \in Int : side = PositionDirection(direction, "open") /\ n = volume
    BY Kinds, WishesAssumption
  <2>2. CASE AddToday(side, n)
    BY <2>2, CountedLocks
  <2>3. CASE UNCHANGED pos
    BY <2>3 DEF SameLocks, LockAt
  <2> QED
    BY <2>1, <2>2, <2>3 DEF Read
<1>4. \A side \in Sides, l \in Locks : JobShare(side, l) = 0 /\ JobShare(side, l)' = 0
  BY <1>1, <1>2 DEF JobShare, JobOn
<1> QED
  BY <1>1, <1>3, <1>4 DEF Read, connection, exchange

LEMMA LockShareStep ==
  ASSUME PosInv, Lock
  PROVE  /\ UNCHANGED <<recorded, lockInfo, unlocked, session, stage, answer, reports, book, hold, mishaps>>
         /\ job # Idle /\ job.pc # "record" /\ job' # Idle /\ job'.pc # "record"
         /\ \A side \in Sides, l \in Locks : LockAt(side, l)' = LockAt(side, l) + JobShare(side, l)'
                                             /\ JobShare(side, l) = 0
<1>1. job \in Jobs /\ job' = [job EXCEPT !.pc = "lock"] /\ job.pc = "read"
  BY LockPos DEF Lock
<1>2. /\ job # Idle /\ job' # Idle /\ job'.pc = "lock" /\ job'.offset = job.offset
      /\ job'.direction = job.direction /\ job'.volume = job.volume
  BY <1>1 DEF Jobs, Idle
<1>3. PICK side \in Sides, l \in Locks, n \in Int :
         side = PositionDirection(job.direction, job.offset) /\ l = LockOf(job.offset) /\ n = job.volume
  BY <1>1, Kinds DEF Jobs
<1>4. \A s \in Sides, k \in Locks :
        JobShare(s, k) = 0 /\ JobShare(s, k)' = IF job.offset # "open" /\ s = side /\ k = l THEN n ELSE 0
  BY <1>1, <1>2, <1>3 DEF JobShare, JobOn
<1>5. \A s \in Sides, k \in Locks : LockAt(s, k)' = LockAt(s, k) + JobShare(s, k)'
  <2>1. CASE job.offset = "open"
    <3>1. SameLocks
      BY <2>1 DEF Lock, SameLocks, LockAt
    <3> QED
      BY <1>4, <2>1, <3>1, LockTypes DEF SameLocks
  <2>2. CASE job.offset # "open"
    <3>1. AddLock(side, l, n)
      BY <1>3, <2>2 DEF Lock
    <3>2. \A s \in Sides, k \in Locks :
            LockAt(s, k)' = IF s = side /\ k = l THEN LockAt(s, k) + n ELSE LockAt(s, k)
      BY <3>1, MovedLocks
    <3> QED
      BY <1>4, <2>2, <3>2, LockTypes
  <2> QED
    BY <2>1, <2>2
<1> QED
  BY <1>1, <1>2, <1>4, <1>5 DEF Lock, connection, exchange

LEMMA RecordShare ==
  ASSUME PosInv, Record
  PROVE  /\ SameLocks /\ UNCHANGED <<session, stage, answer, reports, book, hold, mishaps>>
         /\ job \in Jobs /\ job.pc = "lock" /\ job' # Idle /\ job'.pc = "record" /\ job'.order = job.order
         /\ recorded' = recorded \cup {<<job.order, session>>} /\ lockInfo' = lockInfo \cup {<<job.order, session>>}
         /\ unlocked' = unlocked \ {<<job.order, session>>}
         /\ \A side \in Sides, l \in Locks : JobShare(side, l)' = JobShare(side, l)
<1>1. job \in Jobs /\ job' = [job EXCEPT !.pc = "record"] /\ job.pc = "lock"
  BY RecordPos DEF Record
<1>2. /\ job # Idle /\ job' # Idle /\ job'.pc = "record" /\ job'.offset = job.offset /\ job'.order = job.order
      /\ job'.direction = job.direction /\ job'.volume = job.volume
  BY <1>1 DEF Jobs, Idle
<1>3. \A side \in Sides, l \in Locks : JobShare(side, l)' = JobShare(side, l)
  BY <1>1, <1>2 DEF JobShare, JobOn
<1> QED
  BY <1>1, <1>2, <1>3 DEF Record, SameLocks, LockAt, connection, exchange

LEMMA InsertShare ==
  ASSUME PosInv, Insert
  PROVE  \E o \in Own :
           /\ o = job.order /\ job # Idle /\ job.pc = "record" /\ o \in Orders /\ ~Booked(o)
           /\ \A side \in Sides, l \in Locks :
                /\ JobShare(side, l)' = 0 /\ LockAt(side, l)' = LockAt(side, l)
                /\ JobShare(side, l) = IF OnSide(o, side, l)' THEN book'[o].volume ELSE 0
<1>1. PICK o \in Own :
           /\ o = job.order /\ job \in Jobs /\ job.pc = "record" /\ job' = Idle
           /\ o \in Orders /\ ~Booked(o) /\ Booked(o)'
           /\ book'[o].volume = job.volume /\ book'[o].offset = job.offset /\ book'[o].direction = job.direction
           /\ UNCHANGED <<engine, connection, reports, hold, mishaps>>
  BY InsertBook
<1>2. job # Idle
  BY <1>1 DEF Idle
<1>3. ASSUME NEW side \in Sides, NEW l \in Locks
      PROVE  /\ JobShare(side, l)' = 0 /\ LockAt(side, l)' = LockAt(side, l)
             /\ JobShare(side, l) = IF OnSide(o, side, l)' THEN book'[o].volume ELSE 0
  <2>1. JobShare(side, l)' = 0 /\ LockAt(side, l)' = LockAt(side, l)
    BY <1>1 DEF JobShare, JobOn, LockAt, engine
  <2>2. OnSide(o, side, l)' <=> JobOn(side, l)
    BY <1>1, <1>2 DEF OnSide, JobOn, SideOf
  <2> QED
    BY <1>1, <2>1, <2>2 DEF JobShare
<1> QED
  BY <1>1, <1>2, <1>3

-----------------------------------------------------------------------------
(* At most what orders in the lock table and the job ask for is locked. *)
UpperOf(o, side, l) == IF OnSide(o, side, l) /\ Key(o) \in lockInfo THEN book[o].volume ELSE 0
Upper(side, l) == Sum([o \in Orders |-> UpperOf(o, side, l)], Orders)

AtMost(side, l) == LockAt(side, l) <= Upper(side, l) + JobShare(side, l)
UpperInv == mishaps \subseteq {"idle", "overlap"} => \A side \in Sides, l \in Locks : AtMost(side, l)

LEMMA UpperTypes == PosInv => \A side \in Sides, l \in Locks, o \in Orders : UpperOf(o, side, l) \in Nat
<1> SUFFICES ASSUME PosInv, NEW side \in Sides, NEW l \in Locks, NEW o \in Orders PROVE UpperOf(o, side, l) \in Nat
  OBVIOUS
<1>1. CASE Booked(o)
  BY <1>1, EntryTypes DEF UpperOf
<1>2. CASE ~Booked(o)
  BY <1>2 DEF UpperOf, OnSide
<1> QED
  BY <1>1, <1>2

LEMMA UpperTypesNext == PosInv' => (\A side \in Sides, l \in Locks, o \in Orders : UpperOf(o, side, l) \in Nat)'
BY UpperTypes, PTL

LEMMA UpperGrows ==
  ASSUME PosInv, PosInv', Frozen, lockInfo \subseteq lockInfo', NEW side \in Sides, NEW l \in Locks
  PROVE  \A o \in Orders : UpperOf(o, side, l) <= UpperOf(o, side, l)'
<1> SUFFICES ASSUME NEW o \in Orders PROVE UpperOf(o, side, l) <= UpperOf(o, side, l)'
  OBVIOUS
<1>1. UpperOf(o, side, l) \in Nat /\ UpperOf(o, side, l)' \in Nat
  BY UpperTypes, UpperTypesNext
<1>2. CASE OnSide(o, side, l) /\ Key(o) \in lockInfo
  <2>1. Booked(o)
    BY <1>2 DEF OnSide
  <2>2. OnSide(o, side, l)' /\ Key(o)' \in lockInfo' /\ book'[o].volume = book[o].volume
    BY <1>2, <2>1, SameSide
  <2>3. UpperOf(o, side, l)' = UpperOf(o, side, l)
    BY <1>2, <2>2 DEF UpperOf
  <2> QED
    BY <1>1, <2>3
<1>3. CASE ~(OnSide(o, side, l) /\ Key(o) \in lockInfo)
  BY <1>1, <1>3 DEF UpperOf
<1> QED
  BY <1>2, <1>3

LEMMA UpperStep ==
  ASSUME PosInv, PosInv', Frozen, lockInfo \subseteq lockInfo', NEW side \in Sides, NEW l \in Locks, AtMost(side, l),
         \/ LockAt(side, l)' + JobShare(side, l) <= LockAt(side, l) + JobShare(side, l)'
         \/ \E y \in Orders :
              LockAt(side, l)' + UpperOf(y, side, l) + JobShare(side, l)
                <= LockAt(side, l) + UpperOf(y, side, l)' + JobShare(side, l)'
  PROVE  AtMost(side, l)'
<1>1. PICK f : f = [o \in Orders |-> UpperOf(o, side, l)]
  OBVIOUS
<1>2. PICK e : e = [o \in Orders |-> UpperOf(o, side, l)']
  OBVIOUS
<1>3. \A o \in Orders : f[o] \in Int /\ e[o] \in Int /\ f[o] <= e[o]
  <2>1. \A o \in Orders : UpperOf(o, side, l) \in Nat /\ UpperOf(o, side, l)' \in Nat
    BY UpperTypes, UpperTypesNext
  <2>2. \A o \in Orders : UpperOf(o, side, l) <= UpperOf(o, side, l)'
    BY UpperGrows
  <2> QED
    BY <1>1, <1>2, <2>1, <2>2
<1>4. Upper(side, l) = Sum(f, Orders) /\ Upper(side, l)' = Sum(e, Orders)
  BY <1>1, <1>2 DEF Upper
<1>5. Sum(f, Orders) \in Int /\ Sum(e, Orders) \in Int
  <2>1. (\A o \in Orders : f[o] \in Int) /\ (\A o \in Orders : e[o] \in Int)
    BY <1>3
  <2>2. Sum(f, Orders) \in Int
    BY <2>1, OrdersFinite, TakenSum
  <2>3. Sum(e, Orders) \in Int
    BY <2>1, OrdersFinite, TakenSum
  <2> QED
    BY <2>2, <2>3
<1>6. /\ LockAt(side, l) \in Int /\ JobShare(side, l) \in Int
      /\ LockAt(side, l)' \in Int /\ JobShare(side, l)' \in Int
  BY LockTypes, LockTypesNext
<1>7. LockAt(side, l) <= Sum(f, Orders) + JobShare(side, l)
  BY <1>4 DEF AtMost
<1>8. CASE LockAt(side, l)' + JobShare(side, l) <= LockAt(side, l) + JobShare(side, l)'
  <2>1. Sum(f, Orders) <= Sum(e, Orders)
    BY <1>3, OrdersFinite, OrderedSums
  <2>2. LockAt(side, l)' <= Sum(e, Orders) + JobShare(side, l)'
    BY <1>5, <1>6, <1>7, <1>8, <2>1
  <2> QED
    BY <1>4, <2>2 DEF AtMost
<1>9. ASSUME NEW y \in Orders,
             LockAt(side, l)' + UpperOf(y, side, l) + JobShare(side, l)
                <= LockAt(side, l) + UpperOf(y, side, l)' + JobShare(side, l)'
      PROVE  AtMost(side, l)'
  <2>1. Sum(f, Orders) - f[y] + e[y] <= Sum(e, Orders)
    BY <1>3, OrdersFinite, GrownSum
  <2>2. f[y] = UpperOf(y, side, l) /\ e[y] = UpperOf(y, side, l)' /\ f[y] \in Int /\ e[y] \in Int
    BY <1>1, <1>2, <1>3
  <2>3. LockAt(side, l)' <= Sum(e, Orders) + JobShare(side, l)'
    BY <1>5, <1>6, <1>7, <1>9, <2>1, <2>2
  <2> QED
    BY <1>4, <2>3 DEF AtMost
<1> QED
  BY <1>8, <1>9

-----------------------------------------------------------------------------
(* ... whatever the step                                                   *)

(* Key(o) is new to the tables: what a lock for o adds to the bound *)
LEMMA UpperGains ==
  ASSUME PosInv, PosInv', NEW o \in Orders, Booked(o), UNCHANGED <<book, job>>, Key(o) \notin lockInfo, Key(o) \in lockInfo',
         Closing(o),
         NEW side \in Sides, NEW l \in Locks,
         LockAt(side, l)' = IF side = SideOf(o) /\ l = LockOf(book[o].offset)
                            THEN LockAt(side, l) + book[o].volume ELSE LockAt(side, l)
  PROVE  LockAt(side, l)' + UpperOf(o, side, l) + JobShare(side, l)
           <= LockAt(side, l) + UpperOf(o, side, l)' + JobShare(side, l)'
<1>1. UpperOf(o, side, l) = 0
  BY DEF UpperOf
<1>2. JobShare(side, l)' = JobShare(side, l) /\ JobShare(side, l) \in Nat
  BY LockTypes DEF JobShare, JobOn
<1>3. LockAt(side, l) \in Int /\ book[o].volume \in Nat
  BY LockTypes, EntryTypes
<1>4. OnSide(o, side, l)' <=> side = SideOf(o) /\ l = LockOf(book[o].offset)
  BY DEF OnSide, Closing, SideOf, Booked
<1>5. UpperOf(o, side, l)' = IF side = SideOf(o) /\ l = LockOf(book[o].offset) THEN book[o].volume ELSE 0
  BY <1>4 DEF UpperOf, Key
<1> QED
  BY <1>1, <1>2, <1>3, <1>5

LEMMA UpperNext ==
  ASSUME PosInv, PosInv', JobInv, UpperInv, [PosNext]_posVars
  PROVE  UpperInv'
<1> SUFFICES ASSUME mishaps' \subseteq {"idle", "overlap"}, NEW side \in Sides, NEW l \in Locks
    PROVE  AtMost(side, l)'
  BY DEF UpperInv
<1>1. mishaps \subseteq {"idle", "overlap"} /\ AtMost(side, l)
  BY MishapsGrow DEF UpperInv
<1>2. Frozen
  BY BookSteps
<1>3. /\ LockAt(side, l) \in Int /\ JobShare(side, l) \in Nat
      /\ LockAt(side, l)' \in Int /\ JobShare(side, l)' \in Nat
  BY LockTypes, LockTypesNext
<1>4. CASE /\ lockInfo \subseteq lockInfo' /\ LockAt(side, l)' <= LockAt(side, l)
           /\ JobShare(side, l)' = JobShare(side, l)
  <2>1. LockAt(side, l)' + JobShare(side, l) <= LockAt(side, l) + JobShare(side, l)'
    BY <1>3, <1>4
  <2> QED
    BY <1>1, <1>2, <1>4, <2>1, UpperStep
<1>5. CASE lockInfo' = lockInfo /\ job' = job /\ (SameLocks \/ pos' = pos)
  <2>1. LockAt(side, l)' = LockAt(side, l)
    BY <1>5 DEF SameLocks, LockAt
  <2>2. JobShare(side, l)' = JobShare(side, l)
    BY <1>5 DEF JobShare, JobOn
  <2> QED
    BY <1>3, <1>4, <1>5, <2>1, <2>2
<1>6. ASSUME NEW o \in Own, NEW direction \in Directions, NEW wish \in Wishes, NEW volume \in Volumes,
             Read(o, direction, wish, volume)
      PROVE  AtMost(side, l)'
  <2>1. SameLocks /\ lockInfo' = lockInfo /\ JobShare(side, l) = 0 /\ JobShare(side, l)' = 0
    BY <1>6, ReadShare
  <2> QED
    BY <1>3, <1>4, <2>1 DEF SameLocks
<1>7. CASE Lock
  <2>1. /\ lockInfo' = lockInfo /\ JobShare(side, l) = 0
        /\ LockAt(side, l)' = LockAt(side, l) + JobShare(side, l)'
    BY <1>7, LockShareStep
  <2>2. LockAt(side, l)' + JobShare(side, l) <= LockAt(side, l) + JobShare(side, l)'
    BY <1>3, <2>1
  <2> QED
    BY <1>1, <1>2, <2>1, <2>2, UpperStep
<1>8. CASE Record
  <2>1. SameLocks /\ lockInfo \subseteq lockInfo' /\ JobShare(side, l)' = JobShare(side, l)
    BY <1>8, RecordShare
  <2> QED
    BY <1>3, <1>4, <2>1 DEF SameLocks
<1>9. CASE Insert
  <2>1. PICK o \in Own :
           /\ o = job.order /\ job # Idle /\ job.pc = "record" /\ o \in Orders /\ ~Booked(o)
           /\ JobShare(side, l)' = 0 /\ LockAt(side, l)' = LockAt(side, l)
           /\ JobShare(side, l) = IF OnSide(o, side, l)' THEN book'[o].volume ELSE 0
    BY <1>9, InsertShare
  <2>2. book'[o].session = session /\ lockInfo' = lockInfo
    BY <1>9, <2>1, InsertBook DEF engine
  <2>3. <<o, session>> \in lockInfo
    BY <1>1, <2>1 DEF JobInv
  <2>4. UpperOf(o, side, l)' = JobShare(side, l)
    BY <2>1, <2>2, <2>3 DEF UpperOf, Key
  <2>5. UpperOf(o, side, l) = 0
    BY <2>1 DEF UpperOf, OnSide
  <2>6. LockAt(side, l)' + UpperOf(o, side, l) + JobShare(side, l)
          <= LockAt(side, l) + UpperOf(o, side, l)' + JobShare(side, l)'
    BY <1>3, <2>1, <2>4, <2>5
  <2> QED
    BY <1>1, <1>2, <2>1, <2>2, <2>6, UpperStep
<1>10. CASE OnRtnOrder
  <2>1. PICK r \in OrderReports, o \in Orders, s \in Sides, k \in Locks :
           /\ r = Head(reports) /\ o = r.order /\ s = SideOf(o) /\ k = LockOf(book[o].offset)
           /\ reports # << >> /\ UNCHANGED <<job, connection, exchange, mishaps>>
           /\ \/ /\ Closing(o) /\ Key(o) \notin recorded /\ ~Cancels(r)
                 /\ AddLock(s, k, book[o].volume)
                 /\ lockInfo' = lockInfo \cup {Key(o)} /\ unlocked' = unlocked \ {Key(o)}
              \/ /\ Closing(o) /\ Key(o) \in recorded /\ Cancels(r) /\ Key(o) \in lockInfo \ unlocked
                 /\ AddLock(s, k, 0 - r.left)
                 /\ lockInfo' = lockInfo /\ unlocked' = unlocked \cup {Key(o)}
              \/ UNCHANGED <<known, pos, lockInfo, unlocked>>
    BY <1>10, RtnOrderStep
  <2>2. Booked(o) /\ book[o].volume \in Int /\ r.left \in Nat
    BY <2>1, HeadReport, EntryTypes DEF OrderReports
  <2>3. CASE /\ Closing(o) /\ Key(o) \notin recorded /\ AddLock(s, k, book[o].volume)
             /\ lockInfo' = lockInfo \cup {Key(o)}
    <3>1. Key(o) \notin lockInfo /\ Key(o) \in lockInfo' /\ lockInfo \subseteq lockInfo'
      BY <2>3 DEF PosInv, KeysOK
    <3>2. LockAt(side, l)' = IF side = s /\ l = k THEN LockAt(side, l) + book[o].volume ELSE LockAt(side, l)
      BY <2>2, <2>3, MovedLocks
    <3>3. LockAt(side, l)' + UpperOf(o, side, l) + JobShare(side, l)
            <= LockAt(side, l) + UpperOf(o, side, l)' + JobShare(side, l)'
      BY <2>1, <2>2, <2>3, <3>1, <3>2, UpperGains DEF exchange
    <3> QED
      BY <1>1, <1>2, <3>1, <3>3, UpperStep
  <2>4. CASE AddLock(s, k, 0 - r.left) /\ lockInfo' = lockInfo
    <3>1. PICK n \in Int : n = 0 - r.left /\ n <= 0
      BY <2>2
    <3>2. LockAt(side, l)' = IF side = s /\ l = k THEN LockAt(side, l) + n ELSE LockAt(side, l)
      BY <2>4, <3>1, MovedLocks
    <3>3. JobShare(side, l)' = JobShare(side, l)
      BY <2>1 DEF JobShare, JobOn
    <3> QED
      BY <1>3, <1>4, <2>4, <3>1, <3>2, <3>3
  <2>5. CASE UNCHANGED <<known, pos, lockInfo, unlocked>>
    BY <1>5, <2>1, <2>5
  <2> QED
    BY <2>1, <2>3, <2>4, <2>5
<1>11. CASE OnRspOrderInsert
  <2>1. PICK r \in Reports, o \in Orders, s \in Sides, k \in Locks :
           /\ r = Head(reports) /\ o = r.order /\ reports # << >>
           /\ IF Closing(o) THEN AddLock(s, k, 0 - book[o].volume) ELSE UNCHANGED <<known, pos>>
           /\ UNCHANGED <<recorded, lockInfo, unlocked, job, connection, exchange, mishaps>>
    BY <1>11, RspInsertStep
  <2>2. Booked(o) /\ book[o].volume \in Nat
    BY <2>1, HeadReport, EntryTypes
  <2>3. CASE AddLock(s, k, 0 - book[o].volume)
    <3>1. PICK n \in Int : n = 0 - book[o].volume /\ n <= 0
      BY <2>2
    <3>2. LockAt(side, l)' = IF side = s /\ l = k THEN LockAt(side, l) + n ELSE LockAt(side, l)
      BY <2>3, <3>1, MovedLocks
    <3>3. JobShare(side, l)' = JobShare(side, l)
      BY <2>1 DEF JobShare, JobOn
    <3> QED
      BY <1>3, <1>4, <2>1, <3>1, <3>2, <3>3
  <2>4. CASE UNCHANGED <<known, pos>>
    BY <1>5, <2>1, <2>4
  <2> QED
    BY <2>1, <2>3, <2>4
<1>12. CASE OnFrontDisconnected
  <2>1. /\ job.pc \in mishaps' /\ job' = job
        /\ pos' = [s \in Sides |-> EmptyPos]
    BY <1>12 DEF OnFrontDisconnected
  <2>2. job = Idle
    BY <2>1 DEF PosInv, PosTypeOK, Jobs
  <2>3. LockAt(side, l)' = 0 /\ JobShare(side, l)' = 0
    BY <2>1, <2>2 DEF LockAt, EmptyPos, JobShare, JobOn
  <2>4. PICK e : e = [o \in Orders |-> UpperOf(o, side, l)']
    OBVIOUS
  <2>5. PICK z : z = [o \in Orders |-> 0]
    OBVIOUS
  <2>6. (\A o \in Orders : z[o] \in Int /\ e[o] \in Int /\ z[o] <= e[o]) /\ (\A o \in Orders : z[o] = 0)
        /\ (\A o \in Orders : e[o] \in Int)
    BY <2>4, <2>5, UpperTypesNext
  <2>7. Sum(z, Orders) <= Sum(e, Orders)
    BY <2>6, OrdersFinite, OrderedSums
  <2>8. Sum(z, Orders) = 0
    BY <2>6, OrdersFinite, ZeroSum
  <2>9. Sum(e, Orders) \in Int /\ Upper(side, l)' = Sum(e, Orders)
    BY <2>4, <2>6, OrdersFinite, TakenSum DEF Upper
  <2> QED
    BY <2>3, <2>7, <2>8, <2>9 DEF AtMost
<1>13. CASE OnRspUserLogin
  BY <1>5, <1>13 DEF OnRspUserLogin, engine
<1>14. ASSUME NEW row, OnRspQryOrder(row) PROVE AtMost(side, l)'
  <2>1. PICK o \in Orders, s \in Sides, k \in Locks :
           /\ s = SideOf(o) /\ k = LockOf(book[o].offset) /\ Booked(o)
           /\ IF Closing(o) /\ Key(o) \notin lockInfo /\ row.state # "cancelled"
                THEN AddLock(s, k, book[o].volume) ELSE UNCHANGED <<known, pos>>
           /\ lockInfo' = lockInfo \cup {Key(o)}
           /\ UNCHANGED <<job, session, reports, exchange, mishaps>>
    BY <1>14, QryOrderStep
  <2>2. book[o].volume \in Int
    BY <2>1, EntryTypes
  <2>3. CASE Closing(o) /\ Key(o) \notin lockInfo /\ AddLock(s, k, book[o].volume)
    <3>1. LockAt(side, l)' = IF side = s /\ l = k THEN LockAt(side, l) + book[o].volume ELSE LockAt(side, l)
      BY <2>2, <2>3, MovedLocks
    <3>2. LockAt(side, l)' + UpperOf(o, side, l) + JobShare(side, l)
            <= LockAt(side, l) + UpperOf(o, side, l)' + JobShare(side, l)'
      BY <2>1, <2>3, <3>1, UpperGains DEF exchange
    <3>3. lockInfo \subseteq lockInfo'
      BY <2>1
    <3> QED
      BY <1>1, <1>2, <3>2, <3>3, UpperStep
  <2>4. CASE UNCHANGED <<known, pos>>
    <3>1. LockAt(side, l)' = LockAt(side, l) /\ JobShare(side, l)' = JobShare(side, l) /\ lockInfo \subseteq lockInfo'
      BY <2>1, <2>4 DEF LockAt, JobShare, JobOn
    <3> QED
      BY <1>3, <1>4, <3>1
  <2> QED
    BY <2>1, <2>3, <2>4
<1>15. CASE OnRtnTrade \/ OnRspSettlementInfoConfirm \/ OnRspWithoutRecord
            \/ \E row : OnRspQryTrade(row) \/ OnRspQryInvestorPosition(row)
  BY <1>5, <1>15, QueriesUntouched DEF Untouched
<1>16. CASE Exchange
  BY <1>5, <1>16, ExchangeUntouched
<1>17. CASE UNCHANGED posVars
  BY <1>5, <1>17 DEF posVars, engine
<1>18. CASE Listener
  BY <1>6, <1>7, <1>8, <1>9, <1>18 DEF Listener
<1>19. CASE Callbacks
  BY <1>10, <1>11, <1>12, <1>13, <1>14, <1>15, <1>19 DEF Callbacks
<1> QED
  BY <1>16, <1>17, <1>18, <1>19 DEF PosNext

-----------------------------------------------------------------------------
(* A sum over the orders of a set *)
LEMMA SetSum ==
  ASSUME NEW S, IsFiniteSet(S), NEW f, NEW T, T \subseteq S, \A x \in T : f[x] \in Int,
         NEW e, \A x \in T : e[x] = f[x], \A x \in S : x \notin T => e[x] = 0
  PROVE  Sum(f, T) = Sum(e, S)
<1>1. IsFiniteSet(T) /\ IsFiniteSet(S \ T)
  BY FS_Subset
<1>2. \A x \in S : e[x] \in Int
  OBVIOUS
<1>3. Sum(e, S) = Sum(e, T) + Sum(e, S \ T)
  BY <1>2, SplitSum
<1>4. Sum(e, S \ T) = 0
  <2>1. \A x \in S \ T : e[x] = 0
    OBVIOUS
  <2> QED
    BY <1>1, <2>1, ZeroSum
<1>5. Sum(f, T) = Sum(e, T)
  BY <1>1, SameSum
<1>6. Sum(f, T) \in Int
  <2>1. \A x \in T : f[x] \in Int
    OBVIOUS
  <2> QED
    BY <1>1, <2>1, TakenSum
<1> QED
  BY <1>3, <1>4, <1>5, <1>6

-----------------------------------------------------------------------------
(* The properties of Positions speak of folds over sets of orders.         *)

(* The folds of Positions are sums of the values of functions. *)
LEMMA VolumeFold ==
  ASSUME NEW S, IsFiniteSet(S)
  PROVE  MapThenSumSet(LAMBDA o : book[o].volume, S) = Sum([o \in S |-> book[o].volume], S)
<1> DEFINE f == [o \in S |-> book[o].volume]
           T(o) == book[o].volume
           Fold(h) == [s \in SUBSET S |-> IF s = {} THEN 0
                                          ELSE T(CHOOSE x \in s : TRUE) + h[s \ {CHOOSE x \in s : TRUE}]]
           h == CHOOSE h : h = Fold(h)
<1>1. MapThenSumSet(LAMBDA o : book[o].volume, S) = h[S]
  BY DEF MapThenSumSet, MapThenFoldSet
<1>2. PICK g : IsSum(g, f, S) /\ Sum(f, S) = g[S]
  BY SumIsSum
<1>3. \A x \in S : f[x] = T(x)
  OBVIOUS
<1> HIDE DEF f, T
<1>4. g = Fold(g)
  BY <1>2, <1>3 DEF IsSum
<1>5. h = Fold(h)
  <2> HIDE DEF Fold
  <2> QED
    BY <1>4, Zenon
<1>6. IsSum(h, f, S)
  <2> HIDE DEF h
  <2> QED
    BY <1>3, <1>5 DEF IsSum
<1>7. h[S] = g[S]
  <2> HIDE DEF h
  <2> QED
    BY <1>2, <1>6, SumSame
<1> QED
  BY <1>1, <1>2, <1>7 DEF f

LEMMA LeftFold ==
  ASSUME NEW S, IsFiniteSet(S)
  PROVE  MapThenSumSet(LAMBDA o : book[o].left, S) = Sum([o \in S |-> book[o].left], S)
<1> DEFINE f == [o \in S |-> book[o].left]
           T(o) == book[o].left
           Fold(h) == [s \in SUBSET S |-> IF s = {} THEN 0
                                          ELSE T(CHOOSE x \in s : TRUE) + h[s \ {CHOOSE x \in s : TRUE}]]
           h == CHOOSE h : h = Fold(h)
<1>1. MapThenSumSet(LAMBDA o : book[o].left, S) = h[S]
  BY DEF MapThenSumSet, MapThenFoldSet
<1>2. PICK g : IsSum(g, f, S) /\ Sum(f, S) = g[S]
  BY SumIsSum
<1>3. \A x \in S : f[x] = T(x)
  OBVIOUS
<1> HIDE DEF f, T
<1>4. g = Fold(g)
  BY <1>2, <1>3 DEF IsSum
<1>5. h = Fold(h)
  <2> HIDE DEF Fold
  <2> QED
    BY <1>4, Zenon
<1>6. IsSum(h, f, S)
  <2> HIDE DEF h
  <2> QED
    BY <1>3, <1>5 DEF IsSum
<1>7. h[S] = g[S]
  <2> HIDE DEF h
  <2> QED
    BY <1>2, <1>6, SumSame
<1> QED
  BY <1>1, <1>2, <1>7 DEF f

LEMMA TradedFold ==
  ASSUME NEW S, IsFiniteSet(S)
  PROVE  MapThenSumSet(LAMBDA o : book[o].volume - book[o].left, S) = Sum([o \in S |-> book[o].volume - book[o].left], S)
<1> DEFINE f == [o \in S |-> book[o].volume - book[o].left]
           T(o) == book[o].volume - book[o].left
           Fold(h) == [s \in SUBSET S |-> IF s = {} THEN 0
                                          ELSE T(CHOOSE x \in s : TRUE) + h[s \ {CHOOSE x \in s : TRUE}]]
           h == CHOOSE h : h = Fold(h)
<1>1. MapThenSumSet(LAMBDA o : book[o].volume - book[o].left, S) = h[S]
  BY DEF MapThenSumSet, MapThenFoldSet
<1>2. PICK g : IsSum(g, f, S) /\ Sum(f, S) = g[S]
  BY SumIsSum
<1>3. \A x \in S : f[x] = T(x)
  OBVIOUS
<1> HIDE DEF f, T
<1>4. g = Fold(g)
  BY <1>2, <1>3 DEF IsSum
<1>5. h = Fold(h)
  <2> HIDE DEF Fold
  <2> QED
    BY <1>4, Zenon
<1>6. IsSum(h, f, S)
  <2> HIDE DEF h
  <2> QED
    BY <1>3, <1>5 DEF IsSum
<1>7. h[S] = g[S]
  <2> HIDE DEF h
  <2> QED
    BY <1>2, <1>6, SumSame
<1> QED
  BY <1>1, <1>2, <1>7 DEF f

LEMMA VolumeOver ==
  ASSUME NEW S, S \subseteq Orders, \A o \in S : book[o].volume \in Int,
         NEW e, \A o \in Orders : e[o] = IF o \in S THEN book[o].volume ELSE 0
  PROVE  MapThenSumSet(LAMBDA o : book[o].volume, S) = Sum(e, Orders)
<1>1. IsFiniteSet(S)
  BY OrdersFinite, FS_Subset
<1>2. PICK f : f = [o \in S |-> book[o].volume]
  OBVIOUS
<1>3. MapThenSumSet(LAMBDA o : book[o].volume, S) = Sum(f, S)
  BY <1>1, <1>2, VolumeFold
<1>4. (\A o \in S : f[o] \in Int) /\ (\A o \in S : e[o] = f[o]) /\ (\A o \in Orders : o \notin S => e[o] = 0)
  BY <1>2
<1> QED
  BY <1>3, <1>4, OrdersFinite, SetSum

LEMMA LeftOver ==
  ASSUME NEW S, S \subseteq Orders, \A o \in S : book[o].left \in Int,
         NEW e, \A o \in Orders : e[o] = IF o \in S THEN book[o].left ELSE 0
  PROVE  Left(S) = Sum(e, Orders)
<1>1. IsFiniteSet(S)
  BY OrdersFinite, FS_Subset
<1>2. PICK f : f = [o \in S |-> book[o].left]
  OBVIOUS
<1>3. Left(S) = Sum(f, S)
  BY <1>1, <1>2, LeftFold DEF Left
<1>4. (\A o \in S : f[o] \in Int) /\ (\A o \in S : e[o] = f[o]) /\ (\A o \in Orders : o \notin S => e[o] = 0)
  BY <1>2
<1> QED
  BY <1>3, <1>4, OrdersFinite, SetSum

LEMMA TradedOver ==
  ASSUME NEW S, S \subseteq Orders, \A o \in S : book[o].volume - book[o].left \in Int,
         NEW e, \A o \in Orders : e[o] = IF o \in S THEN book[o].volume - book[o].left ELSE 0
  PROVE  Traded(S) = Sum(e, Orders)
<1>1. IsFiniteSet(S)
  BY OrdersFinite, FS_Subset
<1>2. PICK f : f = [o \in S |-> book[o].volume - book[o].left]
  OBVIOUS
<1>3. Traded(S) = Sum(f, S)
  BY <1>1, <1>2, TradedFold DEF Traded
<1>4. (\A o \in S : f[o] \in Int) /\ (\A o \in S : e[o] = f[o]) /\ (\A o \in Orders : o \notin S => e[o] = 0)
  BY <1>2
<1> QED
  BY <1>3, <1>4, OrdersFinite, SetSum

LEMMA OnceLocked == ASSUME PosInv, UpperInv PROVE LockedOnce
<1> SUFFICES ASSUME mishaps \subseteq {"idle", "overlap"}, NEW side \in Sides, NEW l \in Locks
    PROVE  LockAt(side, l) <=
             MapThenSumSet(LAMBDA o : book[o].volume,
                           {o \in Orders : /\ book[o] # NotPlaced /\ book[o].offset # "open"
                                           /\ SideOf(o) = side /\ LockOf(book[o].offset) = l})
             + (IF /\ job.pc \in {"lock", "record"} /\ job.offset # "open"
                   /\ PositionDirection(job.direction, job.offset) = side /\ LockOf(job.offset) = l
                THEN job.volume ELSE 0)
  BY DEF LockedOnce, LockAt
<1>1. LockAt(side, l) <= Upper(side, l) + JobShare(side, l)
  BY DEF UpperInv, AtMost
<1>2. PICK S \in SUBSET Orders : S = {o \in Orders : /\ book[o] # NotPlaced /\ book[o].offset # "open"
                                           /\ SideOf(o) = side /\ LockOf(book[o].offset) = l}
  OBVIOUS
<1>3. PICK f : f = [o \in Orders |-> UpperOf(o, side, l)]
  OBVIOUS
<1>4. PICK e : e = [o \in Orders |-> IF o \in S THEN book[o].volume ELSE 0]
  OBVIOUS
<1>5. ASSUME NEW o \in Orders
      PROVE  (o \in S <=> OnSide(o, side, l)) /\ (o \in S => book[o].volume \in Nat)
  <2>1. o \in S <=> OnSide(o, side, l)
    BY <1>2 DEF OnSide, Booked
  <2> QED
    BY <2>1, EntryTypes DEF OnSide
<1>6. (\A o \in Orders : f[o] \in Int /\ e[o] \in Int /\ f[o] <= e[o]) /\ (\A o \in Orders : f[o] \in Int)
      /\ (\A o \in Orders : e[o] \in Int)
  BY <1>3, <1>4, <1>5 DEF UpperOf
<1>7. MapThenSumSet(LAMBDA o : book[o].volume, S) = Sum(e, Orders)
  <2>1. \A o \in S : book[o].volume \in Int
    BY <1>5
  <2>2. \A o \in Orders : e[o] = IF o \in S THEN book[o].volume ELSE 0
    BY <1>4
  <2> QED
    BY <2>1, <2>2, VolumeOver
<1>8. Sum(f, Orders) <= Sum(e, Orders)
  BY <1>6, OrdersFinite, OrderedSums
<1>9. Sum(f, Orders) \in Int
  BY <1>6, OrdersFinite, TakenSum
<1>10. Sum(e, Orders) \in Int
  BY <1>6, OrdersFinite, TakenSum
<1>11. JobShare(side, l) =
         (IF /\ job.pc \in {"lock", "record"} /\ job.offset # "open"
             /\ PositionDirection(job.direction, job.offset) = side /\ LockOf(job.offset) = l
          THEN job.volume ELSE 0)
  BY DEF JobShare, JobOn, Idle
<1>12. LockAt(side, l) <= Sum(e, Orders) + JobShare(side, l)
  <2>1. LockAt(side, l) \in Int /\ JobShare(side, l) \in Int
    BY LockTypes
  <2>2. Upper(side, l) = Sum(f, Orders)
    BY <1>3 DEF Upper
  <2> QED
    BY <1>1, <1>8, <1>9, <1>10, <2>1, <2>2
<1> QED
  BY <1>2, <1>7, <1>11, <1>12

-----------------------------------------------------------------------------
(* What the exchange reports of an order                                   *)

(* What the steps of the exchange report *)
LEMMA AcceptNews ==
  ASSUME PosInv, NEW o \in Orders, Accept(o)
  PROVE  \E r \in Reports : /\ r.type = "order" /\ r.state # "cancelled" /\ r.order = o
                            /\ reports' = IF stage = "down" THEN reports ELSE Append(reports, r)
<1>1. book[o].volume \in Nat
  BY AcceptBook, EntryTypes
<1>2. PICK r : r = OrderReport(o, "live", book[o].volume)
  OBVIOUS
<1>3. r \in Reports /\ r.type = "order" /\ r.state # "cancelled" /\ r.order = o
  BY <1>1, <1>2 DEF OrderReport, Reports, OrderReports
<1>4. Report(<<r>>) /\ reports \in Seq(Reports)
  BY <1>2 DEF Accept, PosInv, PosTypeOK
<1> QED
  BY <1>3, <1>4, Reported

LEMMA CancelNews ==
  ASSUME PosInv, NEW o \in Orders, Cancel(o)
  PROVE  \E r \in Reports : /\ Cancels(r) /\ r.order = o
                            /\ reports' = IF stage = "down" THEN reports ELSE Append(reports, r)
<1>1. book[o].left \in Nat
  BY CancelBook, EntryTypes
<1>2. PICK r : r = OrderReport(o, "cancelled", book[o].left)
  OBVIOUS
<1>3. r \in Reports /\ Cancels(r) /\ r.order = o
  BY <1>1, <1>2 DEF OrderReport, Reports, OrderReports, Cancels
<1>4. Report(<<r>>) /\ reports \in Seq(Reports)
  BY <1>2 DEF Cancel, PosInv, PosTypeOK
<1> QED
  BY <1>3, <1>4, Reported

LEMMA TradeNews ==
  ASSUME PosInv, NEW o \in Orders, Trade(o)
  PROVE  \E q \in Reports, r \in Reports :
           /\ q.type = "order" /\ q.state # "cancelled" /\ q.order = o /\ r.type = "trade" /\ r.order = o
           /\ reports' = IF stage = "down" THEN reports ELSE Append(Append(reports, q), r)
<1>0. PICK left, state :
           /\ left = book[o].left - 1 /\ state = IF left = 0 THEN "done" ELSE "live"
           /\ Report(<<OrderReport(o, state, left), TradeReport(o)>>)
  BY TradeStep
<1>1. left \in Nat /\ state \in {"live", "done"}
  <2>1. book[o].left \in Nat \ {0}
    BY TradeBook
  <2>2. left \in Nat
    BY <1>0, <2>1
  <2> QED
    BY <1>0, <2>2, Zenon
<1>2. PICK q : q = OrderReport(o, state, left)
  OBVIOUS
<1>3. PICK r : r = TradeReport(o)
  OBVIOUS
<1>4. q \in Reports /\ q.type = "order" /\ q.state # "cancelled" /\ q.order = o
  BY <1>1, <1>2 DEF OrderReport, Reports, OrderReports
<1>5. r \in Reports /\ r.type = "trade" /\ r.order = o
  BY <1>3 DEF TradeReport, Reports
<1>6. Report(<<q, r>>)
  BY <1>0, <1>2, <1>3
<1>7. reports' = IF stage = "down" THEN reports ELSE Append(Append(reports, q), r)
  BY <1>4, <1>5, <1>6, Reported DEF PosInv, PosTypeOK
<1> QED
  BY <1>4, <1>5, <1>7

LEMMA OtherNews ==
  ASSUME PosInv, NEW o \in Foreign, NEW direction \in Directions, NEW offset \in Wishes \ {"auto"},
         NEW volume \in Volumes, OtherTerminal(o, direction, offset, volume)
  PROVE  \E r \in Reports : /\ r.type = "order" /\ r.state # "cancelled" /\ r.order = o
                            /\ reports' = IF stage = "down" THEN reports ELSE Append(reports, r)
<1>1. volume \in Nat /\ o \in Orders
  BY WishesAssumption DEF Orders
<1>2. PICK r : r = OrderReport(o, "live", volume)
  OBVIOUS
<1>3. r \in Reports /\ r.type = "order" /\ r.state # "cancelled" /\ r.order = o
  BY <1>1, <1>2 DEF OrderReport, Reports, OrderReports
<1>4. Report(<<r>>) /\ reports \in Seq(Reports)
  BY <1>2 DEF OtherTerminal, PosInv, PosTypeOK
<1> QED
  BY <1>3, <1>4, Reported

(* ... and what is then among the reports *)
LEMMA OneHeard ==
  ASSUME NEW s \in Seq(Reports), NEW r \in Reports
  PROVE  \A x : /\ CancelIn(Append(s, r), x) <=> CancelIn(s, x) \/ (Cancels(r) /\ r.order = x)
                /\ RejectIn(Append(s, r), x) <=> RejectIn(s, x) \/ (r.type = "reject" /\ r.order = x)
BY AppendReport DEF CancelIn, RejectIn

LEMMA OneLess ==
  ASSUME NEW s \in Seq(Reports), s # << >>, OneEnd(s)
  PROVE  \A x : /\ CancelIn(s, x) <=> CancelIn(Tail(s), x) \/ (Cancels(Head(s)) /\ Head(s).order = x)
                /\ RejectIn(s, x) <=> RejectIn(Tail(s), x) \/ (Head(s).type = "reject" /\ Head(s).order = x)
                /\ Ends(Head(s)) /\ Head(s).order = x => ~CancelIn(Tail(s), x) /\ ~RejectIn(Tail(s), x)
<1>1. Elements(s) = Elements(Tail(s)) \cup {Head(s)}
  BY TailReport
<1>2. Ends(Head(s)) => ~EndIn(Tail(s), Head(s).order)
  BY TailEnd
<1>3. \A x : EndIn(Tail(s), x) <=> CancelIn(Tail(s), x) \/ RejectIn(Tail(s), x)
  BY DEF EndIn, CancelIn, RejectIn, Ends
<1> QED
  BY <1>1, <1>2, <1>3 DEF CancelIn, RejectIn

(* The end of another order does not come. *)
OnlyOf(o) ==
  \A x : x # o => (CancelIn(reports, x)' <=> CancelIn(reports, x)) /\ (RejectIn(reports, x)' <=> RejectIn(reports, x))
NoEnd ==
  \A x : (CancelIn(reports, x)' <=> CancelIn(reports, x)) /\ (RejectIn(reports, x)' <=> RejectIn(reports, x))

LEMMA ExchangeNews ==
  ASSUME PosInv
  PROVE  /\ \A o \in Orders : Accept(o) \/ Trade(o) => NoEnd
         /\ \A o \in Orders : Reject(o) \/ Cancel(o) => OnlyOf(o)
         /\ \A o \in Foreign, direction \in Directions, offset \in Wishes \ {"auto"}, volume \in Volumes :
              OtherTerminal(o, direction, offset, volume) => NoEnd
<1>1. reports \in Seq(Reports)
  BY DEF PosInv, PosTypeOK
<1>2. ASSUME reports' = reports PROVE NoEnd /\ \A o : OnlyOf(o)
  BY <1>2 DEF NoEnd, OnlyOf
<1>3. ASSUME NEW r \in Reports, reports' = Append(reports, r), ~Ends(r) PROVE NoEnd
  BY <1>1, <1>3, OneHeard DEF NoEnd, Ends
<1>4. ASSUME NEW r \in Reports, reports' = Append(reports, r) PROVE OnlyOf(r.order)
  BY <1>1, <1>4, OneHeard DEF OnlyOf
<1>5. ASSUME NEW q \in Reports, NEW r \in Reports, reports' = Append(Append(reports, q), r), ~Ends(q), ~Ends(r)
      PROVE NoEnd
  <2>1. PICK s \in Seq(Reports) : s = Append(reports, q)
    BY <1>1, AppendReport
  <2> QED
    BY <1>1, <1>5, <2>1, OneHeard DEF NoEnd, Ends
<1>6. ASSUME NEW o \in Orders, Accept(o) PROVE NoEnd
  BY <1>2, <1>3, <1>6, AcceptNews DEF Ends, Cancels
<1>7. ASSUME NEW o \in Orders, Trade(o) PROVE NoEnd
  BY <1>2, <1>5, <1>7, TradeNews DEF Ends, Cancels
<1>8. ASSUME NEW o \in Orders, Cancel(o) PROVE OnlyOf(o)
  BY <1>2, <1>4, <1>8, CancelNews
<1>9. ASSUME NEW o \in Orders, Reject(o) PROVE OnlyOf(o)
  <2>1. reports' = reports \/ \E r \in Reports : reports' = Append(reports, r) /\ r.order = o
    BY <1>9, RejectBook
  <2> QED
    BY <1>2, <1>4, <2>1
<1>10. ASSUME NEW o \in Foreign, NEW direction \in Directions, NEW offset \in Wishes \ {"auto"},
              NEW volume \in Volumes, OtherTerminal(o, direction, offset, volume)
       PROVE  NoEnd
  BY <1>2, <1>3, <1>10, OtherNews DEF Ends, Cancels
<1> QED
  BY <1>6, <1>7, <1>8, <1>9, <1>10

(* The keys of two orders differ. *)
LEMMA KeysDiffer == \A x, y : x # y => Key(x) # Key(y)
BY DEF Key

-----------------------------------------------------------------------------
(* An order that was sent and is in the lock table was sent over the       *)
(* connection there is.                                                    *)
SentInv ==
  \A o \in Orders : Booked(o) /\ book[o].state = "sent" /\ Key(o) \in lockInfo
                      => book[o].session = session /\ stage # "down"

LEMMA SentNext == ASSUME PosInv, SentInv, [PosNext]_posVars PROVE SentInv'
<1> SUFFICES ASSUME NEW o \in Orders, Booked(o)', book'[o].state = "sent", Key(o)' \in lockInfo'
    PROVE  book'[o].session = session' /\ stage' # "down"
  BY DEF SentInv
<1>1. CASE UNCHANGED <<lockInfo, session>> /\ book'[o] = book[o] /\ (stage' = "down" => stage = "down")
  BY <1>1 DEF SentInv, Booked, Key
<1>2. CASE UNCHANGED <<session, book>> /\ (stage' = "down" => stage = "down")
           /\ \E x \in Orders : lockInfo' \subseteq lockInfo \cup {Key(x)} /\ (Booked(x) => book[x].state # "sent")
  BY <1>2, KeysDiffer DEF SentInv, Booked, Key
<1>3. CASE Record
  <2>1. /\ UNCHANGED <<session, stage, book>> /\ lockInfo' = lockInfo \cup {<<job.order, session>>}
        /\ job \in Jobs
    BY <1>3, RecordShare
  <2>2. ~Booked(job.order)
    BY <1>3, <2>1 DEF PosInv, KeysOK, Record, Idle
  <2> QED
    BY <2>1, <2>2 DEF SentInv, Booked, Key
<1>4. CASE Insert
  <2>1. PICK y \in Own :
           /\ y \in Orders /\ ~Booked(y)
           /\ book'[y].state = "sent" => stage # "down"
           /\ book'[y].session = session
           /\ \A x \in Orders : x # y => book'[x] = book[x]
           /\ UNCHANGED <<engine, connection>>
    BY <1>4, InsertBook
  <2>2. CASE o = y
    BY <2>1, <2>2 DEF connection
  <2>3. CASE o # y
    BY <1>1, <2>1, <2>3 DEF engine, connection
  <2> QED
    BY <2>2, <2>3
<1>5. CASE Listener
  BY <1>1, <1>3, <1>4, <1>5 DEF Listener, Read, Lock, connection, exchange
<1>6. CASE OnRtnOrder
  <2>1. PICK r \in OrderReports, x \in Orders :
           /\ r = Head(reports) /\ x = r.order /\ reports # << >>
           /\ UNCHANGED <<connection, exchange>> /\ lockInfo' \subseteq lockInfo \cup {Key(x)}
    BY <1>6, RtnOrderStep
  <2>2. book[x].state # "sent"
    BY <2>1, HeadReport DEF ReportOK
  <2> QED
    BY <1>2, <2>1, <2>2 DEF connection, exchange
<1>7. CASE OnRtnTrade \/ OnRspOrderInsert
  BY <1>1, <1>7 DEF OnRtnTrade, OnRspOrderInsert, connection, exchange
<1>8. CASE OnFrontDisconnected
  BY <1>8 DEF OnFrontDisconnected
<1>9. CASE OnRspUserLogin
  BY <1>9 DEF OnRspUserLogin, engine, exchange, SentInv, Booked, Key
<1>10. CASE OnRspSettlementInfoConfirm
  BY <1>1, <1>10 DEF OnRspSettlementInfoConfirm, engine, exchange
<1>11. ASSUME \E rest : Finish(rest), answer # << >>
       PROVE  stage' # "down"
  <2>1. stage \in {"orders", "trades", "positions"}
    BY <1>11 DEF PosInv, PosTypeOK
  <2>2. stage' = stage \/ stage' = NextStage
    BY <1>11 DEF Finish
  <2> QED
    BY <2>1, <2>2 DEF NextStage
<1>12. ASSUME NEW row, OnRspQryOrder(row) PROVE book'[o].session = session' /\ stage' # "down"
  <2>1. PICK x \in Orders :
           /\ book[x].state \in {"live", "cancelled", "done"}
           /\ lockInfo' = lockInfo \cup {Key(x)}
           /\ answer # << >> /\ Finish(answer[1] \ {row}) /\ UNCHANGED <<session, exchange>>
    BY <1>12, QryOrderStep
  <2>2. stage' # "down"
    BY <1>11, <2>1
  <2> QED
    BY <1>2, <2>1, <2>2 DEF exchange
<1>13. ASSUME NEW row, OnRspQryTrade(row) \/ OnRspQryInvestorPosition(row)
       PROVE  book'[o].session = session' /\ stage' # "down"
  <2>1. answer # << >> /\ Finish(answer[1] \ {row}) /\ UNCHANGED <<lockInfo, session, exchange>>
    BY <1>13, QryTradeStep, QryPositionStep
  <2>2. stage' # "down"
    BY <1>11, <2>1
  <2> QED
    BY <1>1, <2>1, <2>2 DEF exchange
<1>14. CASE OnRspWithoutRecord
  <2>1. answer # << >> /\ Finish({}) /\ UNCHANGED <<lockInfo, session, exchange>>
    BY <1>14 DEF OnRspWithoutRecord, EmptyAnswer, engine
  <2>2. stage' # "down"
    BY <1>11, <2>1
  <2> QED
    BY <1>1, <2>1, <2>2 DEF exchange
<1>15. CASE Callbacks
  BY <1>6, <1>7, <1>8, <1>9, <1>10, <1>12, <1>13, <1>14, <1>15 DEF Callbacks
<1>16. ASSUME Exchange PROVE UNCHANGED <<lockInfo, session, stage>>
  BY <1>16, ExchangeUntouched
<1>17. ASSUME NEW y \in Orders, Accept(y) \/ Reject(y) \/ Trade(y) \/ Cancel(y), Exchange
       PROVE  book'[o].session = session' /\ stage' # "down"
  <2>1. book'[y].state # "sent" /\ \A x \in Orders : x # y => book'[x] = book[x]
    BY <1>17, AcceptBook, RejectBook, TradeBook, CancelBook
  <2> QED
    BY <1>1, <1>16, <1>17, <2>1
<1>18. ASSUME NEW y \in Foreign, NEW direction \in Directions, NEW offset \in Wishes \ {"auto"},
              NEW volume \in Volumes, OtherTerminal(y, direction, offset, volume), Exchange
       PROVE  book'[o].session = session' /\ stage' # "down"
  <2>1. book'[y].state # "sent" /\ \A x \in Orders : x # y => book'[x] = book[x]
    BY <1>18, OtherBook
  <2> QED
    BY <1>1, <1>16, <1>18, <2>1
<1>19. CASE Exchange /\ TakeRecords
  BY <1>1, <1>16, <1>19 DEF TakeRecords, exchange
<1>20. CASE Exchange
  BY <1>17, <1>18, <1>19, <1>20 DEF Exchange
<1>21. CASE UNCHANGED posVars
  BY <1>1, <1>21 DEF posVars, engine, connection, exchange
<1> QED
  BY <1>5, <1>15, <1>20, <1>21 DEF PosNext

-----------------------------------------------------------------------------
(* No less is locked than what is left of orders that can still unlock it. *)

(* A cancellation that is in the records has been reported. *)
NoOverlap ==
  "overlap" \notin mishaps /\ stage = "orders" /\ answer # << >> =>
    \A row \in answer[1] : row.state = "cancelled" => ~CancelIn(reports, row.order)

LEMMA NoOverlapNext ==
  ASSUME PosInv, NoOverlap, [PosNext]_posVars
  PROVE  NoOverlap'
<1> SUFFICES ASSUME "overlap" \notin mishaps', stage' = "orders", answer' # << >>,
                    NEW row \in answer'[1], row.state = "cancelled"
    PROVE  ~CancelIn(reports, row.order)'
  BY DEF NoOverlap
<1>1. "overlap" \notin mishaps
  BY MishapsGrow
<1>2. reports \in Seq(Reports) /\ OneEnd(reports)
  BY DEF PosInv, PosTypeOK, ReportsOK
<1>3. CASE stage = "orders" /\ answer # << >> /\ row \in answer[1] /\ reports' = reports
  BY <1>1, <1>3 DEF NoOverlap, CancelIn
<1>4. ASSUME stage = "orders", answer # << >>, row \in answer[1]
      PROVE  /\ ~CancelIn(reports, row.order) /\ row.order \in Orders
             /\ Booked(row.order) /\ book[row.order].state = "cancelled"
  <2>1. ~CancelIn(reports, row.order) /\ Booked(row.order) /\ book[row.order].state = "cancelled"
    BY <1>1, <1>4 DEF NoOverlap, PosInv, RowsOK
  <2>2. row.order \in Orders
    <3>1. PICK rows \in SUBSET Records("orders") : answer = <<rows>>
      BY <1>4 DEF PosInv, PosTypeOK
    <3>2. row \in Records("orders")
      BY <1>4, <3>1
    <3> QED
      BY <3>2 DEF Records
  <2> QED
    BY <2>1, <2>2
<1>5. CASE Listener
  BY <1>3, <1>5 DEF Listener, Read, Lock, Record, Insert, connection
<1>6. CASE OnRtnOrder \/ OnRtnTrade \/ OnRspOrderInsert
  <2>1. reports # << >> /\ reports' = Tail(reports) /\ UNCHANGED connection
    BY <1>6 DEF OnRtnOrder, OnRtnTrade, OnRspOrderInsert, Arrives
  <2>2. ~CancelIn(reports, row.order)
    BY <1>4, <2>1 DEF connection
  <2> QED
    BY <1>2, <2>1, <2>2, OneLess
<1>7. CASE OnFrontDisconnected \/ OnRspUserLogin
  BY <1>7 DEF OnFrontDisconnected, OnRspUserLogin
<1>8. CASE OnRspSettlementInfoConfirm
  BY <1>8 DEF OnRspSettlementInfoConfirm, PosInv, PosTypeOK
<1>9. ASSUME NEW rest, Finish(rest), rest \subseteq answer[1], answer # << >>, UNCHANGED reports
      PROVE ~CancelIn(reports, row.order)'
  <2>1. stage \in {"orders", "trades", "positions"}
    BY <1>9 DEF PosInv, PosTypeOK
  <2>2. stage' = stage /\ answer' = <<rest>>
    BY <1>9, <2>1 DEF Finish, NextStage
  <2> QED
    BY <1>3, <1>9, <2>2
<1>10. ASSUME NEW r, OnRspQryOrder(r) \/ OnRspQryTrade(r) \/ OnRspQryInvestorPosition(r), answer # << >>
      PROVE ~CancelIn(reports, row.order)'
  <2>1. PICK rest : rest = answer[1] \ {r}
    OBVIOUS
  <2>2. Finish(rest) /\ rest \subseteq answer[1] /\ UNCHANGED reports
    BY <1>10, <2>1 DEF OnRspQryOrder, OnRspQryTrade, OnRspQryInvestorPosition
  <2> QED
    BY <1>9, <1>10, <2>2
<1>11. CASE OnRspWithoutRecord
  <2>1. PICK rest : rest = {}
    OBVIOUS
  <2>2. Finish(rest) /\ rest \subseteq answer[1] /\ UNCHANGED reports /\ answer # << >>
    BY <1>11, <2>1 DEF OnRspWithoutRecord, EmptyAnswer
  <2> QED
    BY <1>9, <2>2
<1>12. CASE Callbacks
  BY <1>6, <1>7, <1>8, <1>10, <1>11, <1>12 DEF Callbacks
<1>13. ASSUME NEW y \in Orders, Accept(y) \/ Reject(y) \/ Trade(y) \/ Cancel(y)
      PROVE ~CancelIn(reports, row.order)'
  <2>1. UNCHANGED connection
    BY <1>13 DEF Accept, Reject, Trade, Cancel
  <2>2. ~CancelIn(reports, row.order) /\ book[row.order].state = "cancelled"
    BY <1>4, <2>1 DEF connection
  <2>3. Accept(y) \/ Trade(y) \/ row.order # y
    BY <1>13, <2>2, RejectBook, CancelBook
  <2> QED
    BY <1>13, <2>2, <2>3, ExchangeNews DEF NoEnd, OnlyOf
<1>14. ASSUME NEW y \in Foreign, NEW direction \in Directions, NEW offset \in Wishes \ {"auto"},
              NEW volume \in Volumes, OtherTerminal(y, direction, offset, volume)
      PROVE ~CancelIn(reports, row.order)'
  <2>1. UNCHANGED connection
    BY <1>14 DEF OtherTerminal
  <2>2. ~CancelIn(reports, row.order)
    BY <1>4, <2>1 DEF connection
  <2> QED
    BY <1>14, <2>2, ExchangeNews DEF NoEnd
<1>15. CASE TakeRecords
  <2>1. stage = "orders" /\ ~Overlap /\ reports' = reports
    BY <1>15 DEF TakeRecords
  <2>2. ~CancelIn(reports, row.order)
    BY <2>1 DEF Overlap, CancelIn, Elements, Cancels
  <2> QED
    BY <2>1, <2>2 DEF CancelIn
<1>16. CASE Exchange
  BY <1>13, <1>14, <1>15, <1>16 DEF Exchange
<1>17. CASE UNCHANGED posVars
  BY <1>3, <1>17 DEF posVars, connection
<1> QED
  BY <1>5, <1>12, <1>16, <1>17 DEF PosNext

-----------------------------------------------------------------------------
(* At least what is left of the orders that need it is locked. *)
Held(o) ==
  \/ Key(o) \in lockInfo \ unlocked /\ (IsLive(o) \/ CancelIn(reports, o))
  \/ /\ o \in Own /\ book[o].session = session /\ stage # "down"
     /\ book[o].state = "sent" \/ RejectIn(reports, o)
LowerOf(o, side, l) == IF OnSide(o, side, l) /\ Held(o) THEN book[o].left ELSE 0
Lower(side, l) == Sum([o \in Orders |-> LowerOf(o, side, l)], Orders)

AtLeast(side, l) == Lower(side, l) + JobShare(side, l) <= LockAt(side, l)
LowerInv == mishaps \cap {"lock", "record", "overlap"} = {} => \A side \in Sides, l \in Locks : AtLeast(side, l)

LEMMA LowerTypes == PosInv => \A side \in Sides, l \in Locks, o \in Orders : LowerOf(o, side, l) \in Nat
<1> SUFFICES ASSUME PosInv, NEW side \in Sides, NEW l \in Locks, NEW o \in Orders PROVE LowerOf(o, side, l) \in Nat
  OBVIOUS
<1>1. CASE Booked(o)
  BY <1>1, EntryTypes DEF LowerOf
<1>2. CASE ~Booked(o)
  BY <1>2 DEF LowerOf, OnSide
<1> QED
  BY <1>1, <1>2

LEMMA LowerTypesNext == PosInv' => (\A side \in Sides, l \in Locks, o \in Orders : LowerOf(o, side, l) \in Nat)'
BY LowerTypes, PTL

LEMMA LowerStep ==
  ASSUME PosInv, PosInv', NEW side \in Sides, NEW l \in Locks, AtLeast(side, l),
         \/ /\ \A x \in Orders : LowerOf(x, side, l)' <= LowerOf(x, side, l)
            /\ LockAt(side, l) + JobShare(side, l)' <= LockAt(side, l)' + JobShare(side, l)
         \/ \E y \in Orders :
              /\ \A x \in Orders : x # y => LowerOf(x, side, l)' <= LowerOf(x, side, l)
              /\ LockAt(side, l) + LowerOf(y, side, l)' + JobShare(side, l)'
                   <= LockAt(side, l)' + LowerOf(y, side, l) + JobShare(side, l)
  PROVE  AtLeast(side, l)'
<1>1. PICK f : f = [o \in Orders |-> LowerOf(o, side, l)]
  OBVIOUS
<1>2. PICK e : e = [o \in Orders |-> LowerOf(o, side, l)']
  OBVIOUS
<1>3. /\ \A o \in Orders : f[o] \in Int /\ e[o] \in Int
      /\ \A o \in Orders : f[o] = LowerOf(o, side, l) /\ e[o] = LowerOf(o, side, l)'
  BY <1>1, <1>2, LowerTypes, LowerTypesNext
<1>4. Lower(side, l) = Sum(f, Orders) /\ Lower(side, l)' = Sum(e, Orders)
  BY <1>1, <1>2 DEF Lower
<1>5. Sum(f, Orders) \in Int /\ Sum(e, Orders) \in Int
  <2>1. (\A o \in Orders : f[o] \in Int) /\ (\A o \in Orders : e[o] \in Int)
    BY <1>3
  <2>2. Sum(f, Orders) \in Int
    BY <2>1, OrdersFinite, TakenSum
  <2>3. Sum(e, Orders) \in Int
    BY <2>1, OrdersFinite, TakenSum
  <2> QED
    BY <2>2, <2>3
<1>6. /\ LockAt(side, l) \in Int /\ JobShare(side, l) \in Int
      /\ LockAt(side, l)' \in Int /\ JobShare(side, l)' \in Int
  BY LockTypes, LockTypesNext
<1>7. Sum(f, Orders) + JobShare(side, l) <= LockAt(side, l)
  BY <1>4 DEF AtLeast
<1>8. CASE /\ \A x \in Orders : LowerOf(x, side, l)' <= LowerOf(x, side, l)
           /\ LockAt(side, l) + JobShare(side, l)' <= LockAt(side, l)' + JobShare(side, l)
  <2>1. \A x \in Orders : e[x] \in Int /\ f[x] \in Int /\ e[x] <= f[x]
    BY <1>3, <1>8
  <2>2. Sum(e, Orders) <= Sum(f, Orders)
    BY <2>1, OrdersFinite, OrderedSums
  <2>3. Sum(e, Orders) + JobShare(side, l)' <= LockAt(side, l)'
    BY <1>5, <1>6, <1>7, <1>8, <2>2
  <2> QED
    BY <1>4, <2>3 DEF AtLeast
<1>9. ASSUME NEW y \in Orders,
             \A x \in Orders : x # y => LowerOf(x, side, l)' <= LowerOf(x, side, l),
             LockAt(side, l) + LowerOf(y, side, l)' + JobShare(side, l)'
               <= LockAt(side, l)' + LowerOf(y, side, l) + JobShare(side, l)
      PROVE  AtLeast(side, l)'
  <2>1. (\A x \in Orders : e[x] \in Int /\ f[x] \in Int) /\ (\A x \in Orders : x # y => e[x] <= f[x])
    BY <1>3, <1>9
  <2>2. Sum(e, Orders) - e[y] + f[y] <= Sum(f, Orders)
    BY <2>1, OrdersFinite, GrownSum
  <2>3. f[y] = LowerOf(y, side, l) /\ e[y] = LowerOf(y, side, l)' /\ f[y] \in Int /\ e[y] \in Int
    BY <1>3
  <2>4. Sum(e, Orders) + JobShare(side, l)' <= LockAt(side, l)'
    BY <1>5, <1>6, <1>7, <1>9, <2>2, <2>3
  <2> QED
    BY <1>4, <2>4 DEF AtLeast
<1> QED
  BY <1>8, <1>9

(* An order nothing new is said of needs no more than before. *)
LEMMA LowerKept ==
  ASSUME PosInv, PosInv', NEW x \in Orders, book'[x] = book[x],
         Held(x)' => Held(x),
         NEW side \in Sides, NEW l \in Locks
  PROVE  LowerOf(x, side, l)' <= LowerOf(x, side, l)
<1>1. LowerOf(x, side, l)' \in Nat /\ LowerOf(x, side, l) \in Nat
  BY LowerTypes, LowerTypesNext
<1>2. OnSide(x, side, l)' <=> OnSide(x, side, l)
  BY DEF OnSide, Booked, SideOf
<1>3. CASE OnSide(x, side, l) /\ Held(x)'
  BY <1>1, <1>2, <1>3 DEF LowerOf
<1>4. CASE ~(OnSide(x, side, l) /\ Held(x)')
  <2>1. LowerOf(x, side, l)' = 0
    BY <1>2, <1>4 DEF LowerOf
  <2> QED
    BY <1>1, <2>1
<1> QED
  BY <1>3, <1>4

LEMMA HeldKept ==
  ASSUME NEW x \in Orders, book'[x] = book[x], UNCHANGED session, stage = "down" => stage' = "down",
         Key(x) \in lockInfo' \ unlocked' => Key(x) \in lockInfo \ unlocked,
         CancelIn(reports, x)' => CancelIn(reports, x), RejectIn(reports, x)' => RejectIn(reports, x),
         Held(x)'
  PROVE  Held(x)
BY DEF Held, Key, IsLive

-----------------------------------------------------------------------------
(* ... when the exchange or the listening thread takes a step              *)

(* The order a step is about, by kinds of steps *)
LEMMA LowerAccept ==
  ASSUME PosInv, PosInv', SentInv, NEW o \in Orders, Accept(o), NEW side \in Sides, NEW l \in Locks
  PROVE  \A x \in Orders : LowerOf(x, side, l)' <= LowerOf(x, side, l)
<1>1. UNCHANGED <<lockInfo, unlocked, session, stage>> /\ NoEnd
  BY ExchangeNews DEF Accept, engine, connection
<1>2. /\ Booked(o) /\ book[o].state = "sent" /\ Frozen /\ book'[o].left = book[o].left
      /\ \A x \in Orders : x # o => book'[x] = book[x]
  BY AcceptBook
<1>3. ASSUME NEW x \in Orders, x # o PROVE LowerOf(x, side, l)' <= LowerOf(x, side, l)
  <2>1. Held(x)' => Held(x)
    BY <1>1, <1>2, <1>3, HeldKept DEF NoEnd
  <2> QED
    BY <1>2, <1>3, <2>1, LowerKept
<1>4. LowerOf(o, side, l)' <= LowerOf(o, side, l)
  <2>1. OnSide(o, side, l)' <=> OnSide(o, side, l)
    BY <1>2, SameSide
  <2>2. Key(o)' = Key(o) /\ book'[o].session = book[o].session
    BY <1>2, SameSide DEF Frozen
  <2>3. ~CancelIn(reports, o) /\ o \in Own
    <3>1. ~CancelIn(reports, o)
      BY <1>2, NotEnded DEF EndIn, CancelIn, Ends
    <3> QED
      BY <1>2, <3>1, EntryTypes DEF EntryOK, Orders
  <2>4. Held(o)' => Held(o)
    <3>1. CASE Key(o) \in lockInfo
      BY <1>2, <2>3, <3>1 DEF Held, SentInv
    <3>2. CASE Key(o) \notin lockInfo
      BY <1>1, <1>2, <2>2, <2>3, <3>2 DEF Held, NoEnd
    <3> QED
      BY <3>1, <3>2
  <2>5. LowerOf(o, side, l)' \in Nat /\ LowerOf(o, side, l) \in Nat
    BY LowerTypes, LowerTypesNext
  <2>6. CASE OnSide(o, side, l) /\ Held(o)'
    BY <1>2, <2>1, <2>4, <2>5, <2>6 DEF LowerOf
  <2>7. CASE ~(OnSide(o, side, l) /\ Held(o)')
    <3>1. LowerOf(o, side, l)' = 0
      BY <2>1, <2>7 DEF LowerOf
    <3> QED
      BY <2>5, <3>1
  <2> QED
    BY <2>6, <2>7
<1> QED
  BY <1>3, <1>4

LEMMA LowerReject ==
  ASSUME PosInv, PosInv', SentInv, NEW o \in Orders, Reject(o), NEW side \in Sides, NEW l \in Locks
  PROVE  \A x \in Orders : LowerOf(x, side, l)' <= LowerOf(x, side, l)
<1>1. UNCHANGED <<lockInfo, unlocked, session, stage>> /\ OnlyOf(o)
  BY ExchangeNews DEF Reject, engine, connection
<1>2. /\ Booked(o) /\ book[o].state = "sent" /\ Frozen /\ book'[o].left = book[o].left
      /\ book'[o].state \in {"rejected", "cancelled"}
      /\ \A x \in Orders : x # o => book'[x] = book[x]
  BY RejectBook
<1>3. ASSUME NEW x \in Orders, x # o PROVE LowerOf(x, side, l)' <= LowerOf(x, side, l)
  <2>1. Held(x)' => Held(x)
    BY <1>1, <1>2, <1>3, HeldKept DEF OnlyOf
  <2> QED
    BY <1>2, <1>3, <2>1, LowerKept
<1>4. LowerOf(o, side, l)' <= LowerOf(o, side, l)
  <2>1. OnSide(o, side, l)' <=> OnSide(o, side, l)
    BY <1>2, SameSide
  <2>2. Key(o)' = Key(o) /\ book'[o].session = book[o].session
    BY <1>2, SameSide DEF Frozen
  <2>3. o \in Own
    BY <1>2, EntryTypes DEF EntryOK, Orders
  <2>4. Held(o)' => Held(o)
    <3>1. CASE Key(o) \in lockInfo
      BY <1>2, <2>3, <3>1 DEF Held, SentInv
    <3>2. CASE Key(o) \notin lockInfo
      <4>1. ASSUME Held(o)' PROVE book[o].session = session /\ stage # "down"
        BY <1>1, <2>2, <3>2, <4>1 DEF Held
      <4> QED
        BY <1>2, <2>3, <4>1 DEF Held
    <3> QED
      BY <3>1, <3>2
  <2>5. LowerOf(o, side, l)' \in Nat /\ LowerOf(o, side, l) \in Nat
    BY LowerTypes, LowerTypesNext
  <2>6. CASE OnSide(o, side, l) /\ Held(o)'
    BY <1>2, <2>1, <2>4, <2>5, <2>6 DEF LowerOf
  <2>7. CASE ~(OnSide(o, side, l) /\ Held(o)')
    <3>1. LowerOf(o, side, l)' = 0
      BY <2>1, <2>7 DEF LowerOf
    <3> QED
      BY <2>5, <3>1
  <2> QED
    BY <2>6, <2>7
<1> QED
  BY <1>3, <1>4

LEMMA LowerTrade ==
  ASSUME PosInv, PosInv', NEW o \in Orders, Trade(o) \/ Cancel(o), NEW side \in Sides, NEW l \in Locks
  PROVE  \A x \in Orders : LowerOf(x, side, l)' <= LowerOf(x, side, l)
<1>1. UNCHANGED <<lockInfo, unlocked, session, stage>> /\ OnlyOf(o)
  <2>1. UNCHANGED <<engine, connection>>
    BY DEF Trade, Cancel
  <2> QED
    BY <2>1, ExchangeNews DEF engine, connection, NoEnd, OnlyOf
<1>2. /\ Booked(o) /\ book[o].state = "live" /\ Frozen
      /\ \A x \in Orders : x # o => book'[x] = book[x]
      /\ book'[o].state \notin {"sent", "rejected"}
  BY TradeBook, CancelBook
<1>3. book[o].left \in Nat /\ book'[o].left \in Nat /\ book'[o].left <= book[o].left
  <2>1. book[o].left \in Nat
    BY <1>2, EntryTypes
  <2>2. CASE Trade(o)
    <3>1. book'[o].left = book[o].left - 1 /\ book[o].left \in Nat \ {0}
      BY <2>2, TradeBook
    <3> QED
      BY <3>1
  <2>3. CASE Cancel(o)
    BY <2>1, <2>3, CancelBook
  <2> QED
    BY <2>2, <2>3
<1>4. ASSUME NEW x \in Orders, x # o PROVE LowerOf(x, side, l)' <= LowerOf(x, side, l)
  <2>1. Held(x)' => Held(x)
    BY <1>1, <1>2, <1>4, HeldKept DEF OnlyOf
  <2> QED
    BY <1>2, <1>4, <2>1, LowerKept
<1>5. LowerOf(o, side, l)' <= LowerOf(o, side, l)
  <2>1. OnSide(o, side, l)' <=> OnSide(o, side, l)
    BY <1>2, SameSide
  <2>2. Key(o)' = Key(o)
    BY <1>2, SameSide
  <2>3. ~RejectIn(reports, o)'
    <3>1. \A r \in Elements(reports') : ReportOK(r)'
      BY DEF PosInv, ReportsOK
    <3> QED
      BY <1>2, <3>1 DEF ReportOK, RejectIn
  <2>4. Held(o)' => Held(o)
    BY <1>1, <1>2, <2>2, <2>3 DEF Held, IsLive
  <2>5. LowerOf(o, side, l)' \in Nat /\ LowerOf(o, side, l) \in Nat
    BY LowerTypes, LowerTypesNext
  <2>6. CASE OnSide(o, side, l) /\ Held(o)'
    <3>1. LowerOf(o, side, l)' = book'[o].left /\ LowerOf(o, side, l) = book[o].left
      BY <2>1, <2>4, <2>6 DEF LowerOf
    <3> QED
      BY <1>3, <3>1
  <2>7. CASE ~(OnSide(o, side, l) /\ Held(o)')
    <3>1. LowerOf(o, side, l)' = 0
      BY <2>1, <2>7 DEF LowerOf
    <3> QED
      BY <2>5, <3>1
  <2> QED
    BY <2>6, <2>7
<1> QED
  BY <1>4, <1>5

LEMMA LowerOther ==
  ASSUME PosInv, PosInv', NEW o \in Foreign, NEW direction \in Directions, NEW offset \in Wishes \ {"auto"},
         NEW volume \in Volumes, OtherTerminal(o, direction, offset, volume), NEW side \in Sides, NEW l \in Locks
  PROVE  \A x \in Orders : LowerOf(x, side, l)' <= LowerOf(x, side, l)
<1>1. UNCHANGED <<lockInfo, unlocked, session, stage>> /\ NoEnd
  BY ExchangeNews DEF OtherTerminal, engine, connection
<1>2. /\ o \in Orders /\ ~Booked(o) /\ book'[o].state = "live"
      /\ \A x \in Orders : x # o => book'[x] = book[x]
  BY OtherBook
<1>3. ASSUME NEW x \in Orders, x # o PROVE LowerOf(x, side, l)' <= LowerOf(x, side, l)
  <2>1. Held(x)' => Held(x)
    BY <1>1, <1>2, <1>3, HeldKept DEF NoEnd
  <2> QED
    BY <1>2, <1>3, <2>1, LowerKept
<1>4. ~Held(o)'
  <2>1. Key(o)' \notin lockInfo
    <3>1. job # Idle => job.order \in Own
      BY DEF PosInv, PosTypeOK, Jobs
    <3> QED
      BY <1>2, <3>1, OrdersAssumption DEF PosInv, KeysOK, KeyOK, Key
  <2>2. o \notin Own
    BY OrdersAssumption
  <2> QED
    BY <1>1, <2>1, <2>2 DEF Held
<1>5. LowerOf(o, side, l)' = 0 /\ LowerOf(o, side, l) \in Nat
  BY <1>2, <1>4, LowerTypes DEF LowerOf
<1> QED
  BY <1>3, <1>5

(* The keys of the orders that were placed are not that of the job. *)
LEMMA LowerRecord ==
  ASSUME PosInv, PosInv', Record, NEW side \in Sides, NEW l \in Locks
  PROVE  \A x \in Orders : LowerOf(x, side, l)' <= LowerOf(x, side, l)
<1>1. /\ UNCHANGED <<session, stage, reports, book>> /\ lockInfo' = lockInfo \cup {<<job.order, session>>}
      /\ unlocked' = unlocked \ {<<job.order, session>>} /\ job \in Jobs
  BY RecordShare
<1>2. ~Booked(job.order)
  BY <1>1 DEF PosInv, KeysOK, Record, Idle
<1>3. ASSUME NEW x \in Orders, Booked(x) PROVE LowerOf(x, side, l)' <= LowerOf(x, side, l)
  <2>1. Key(x) # <<job.order, session>>
    BY <1>2, <1>3 DEF Key
  <2>2. Held(x)' => Held(x)
    BY <1>1, <2>1, HeldKept DEF CancelIn, RejectIn
  <2> QED
    BY <1>1, <2>2, LowerKept
<1>4. ASSUME NEW x \in Orders, ~Booked(x) PROVE LowerOf(x, side, l)' <= LowerOf(x, side, l)
  BY <1>1, <1>4 DEF LowerOf, OnSide, Booked
<1> QED
  BY <1>3, <1>4

LEMMA LowerInsert ==
  ASSUME PosInv, PosInv', Insert, NEW side \in Sides, NEW l \in Locks
  PROVE  \E y \in Orders :
           /\ \A x \in Orders : x # y => LowerOf(x, side, l)' <= LowerOf(x, side, l)
           /\ LockAt(side, l) + LowerOf(y, side, l)' + JobShare(side, l)'
                <= LockAt(side, l)' + LowerOf(y, side, l) + JobShare(side, l)
<1>1. PICK o \in Own :
           /\ o \in Orders /\ ~Booked(o)
           /\ JobShare(side, l)' = 0 /\ LockAt(side, l)' = LockAt(side, l)
           /\ JobShare(side, l) = IF OnSide(o, side, l)' THEN book'[o].volume ELSE 0
           /\ o = job.order
  BY InsertShare
<1>2. /\ Booked(o)' /\ book'[o].left = book'[o].volume
      /\ \A x \in Orders : x # o => book'[x] = book[x]
      /\ UNCHANGED <<engine, connection, reports>>
  BY <1>1, InsertBook
<1>3. ASSUME NEW x \in Orders, x # o PROVE LowerOf(x, side, l)' <= LowerOf(x, side, l)
  <2>1. Held(x)' => Held(x)
    BY <1>2, <1>3, HeldKept DEF engine, connection, CancelIn, RejectIn
  <2> QED
    BY <1>2, <1>3, <2>1, LowerKept
<1>4. LowerOf(o, side, l)' <= JobShare(side, l)
  <2>1. LowerOf(o, side, l)' \in Nat /\ JobShare(side, l) \in Nat
    BY <1>1, LowerTypesNext, LockTypes
  <2>2. CASE OnSide(o, side, l)'
    <3>1. LowerOf(o, side, l)' \in {0, JobShare(side, l)}
      BY <1>1, <1>2, <2>2 DEF LowerOf
    <3> QED
      BY <2>1, <3>1
  <2>3. CASE ~OnSide(o, side, l)'
    <3>1. LowerOf(o, side, l)' = 0
      BY <2>3 DEF LowerOf
    <3> QED
      BY <2>1, <3>1
  <2> QED
    BY <2>2, <2>3
<1>5. LowerOf(o, side, l) = 0
  BY <1>1 DEF LowerOf, OnSide
<1>6. /\ LockAt(side, l) \in Int /\ JobShare(side, l) \in Int /\ LowerOf(o, side, l)' \in Nat
  BY LockTypes, LowerTypesNext, <1>1
<1>7. LockAt(side, l) + LowerOf(o, side, l)' + JobShare(side, l)'
                <= LockAt(side, l)' + LowerOf(o, side, l) + JobShare(side, l)
  BY <1>1, <1>4, <1>5, <1>6
<1> QED
  BY <1>1, <1>3, <1>7

-----------------------------------------------------------------------------
(* ... when a report or a record is handled                                *)

(* A report is handled that neither ends an order nor changes a lock. *)
LEMMA LowerTail ==
  ASSUME PosInv, PosInv', NEW o, reports # << >>, reports' = Tail(reports),
         UNCHANGED <<book, session, stage>>,
         \A x \in Orders : x # o => (Key(x) \in lockInfo' \ unlocked' => Key(x) \in lockInfo \ unlocked),
         NEW side \in Sides, NEW l \in Locks
  PROVE  \A x \in Orders : /\ x # o => LowerOf(x, side, l)' <= LowerOf(x, side, l)
                           /\ (Key(x) \in lockInfo' \ unlocked' => Key(x) \in lockInfo \ unlocked)
                                 => LowerOf(x, side, l)' <= LowerOf(x, side, l)
<1> SUFFICES ASSUME NEW x \in Orders, Key(x) \in lockInfo' \ unlocked' => Key(x) \in lockInfo \ unlocked
    PROVE  LowerOf(x, side, l)' <= LowerOf(x, side, l)
  OBVIOUS
<1>1. (CancelIn(reports, x)' => CancelIn(reports, x)) /\ (RejectIn(reports, x)' => RejectIn(reports, x))
  BY OneLess DEF PosInv, PosTypeOK, ReportsOK
<1>2. Held(x)' => Held(x)
  BY <1>1, HeldKept
<1> QED
  BY <1>2, LowerKept

LEMMA LowerRtnOrder ==
  ASSUME PosInv, PosInv', OnRtnOrder, NEW side \in Sides, NEW l \in Locks, AtLeast(side, l)
  PROVE  AtLeast(side, l)'
<1>1. PICK r \in OrderReports, o \in Orders, s \in Sides, k \in Locks :
           /\ r = Head(reports) /\ o = r.order /\ s = SideOf(o) /\ k = LockOf(book[o].offset)
           /\ reports # << >> /\ reports' = Tail(reports)
           /\ UNCHANGED <<job, connection, exchange, mishaps>>
           /\ \/ /\ Closing(o) /\ Key(o) \notin recorded /\ ~Cancels(r)
                 /\ AddLock(s, k, book[o].volume)
                 /\ lockInfo' = lockInfo \cup {Key(o)} /\ unlocked' = unlocked \ {Key(o)}
              \/ /\ Closing(o) /\ Key(o) \in recorded /\ Cancels(r) /\ Key(o) \in lockInfo \ unlocked
                 /\ AddLock(s, k, 0 - r.left)
                 /\ lockInfo' = lockInfo /\ unlocked' = unlocked \cup {Key(o)}
              \/ UNCHANGED <<known, pos, lockInfo, unlocked>>
  BY RtnOrderStep
<1>2. UNCHANGED <<book, session, stage>> /\ JobShare(side, l)' = JobShare(side, l)
  BY <1>1 DEF connection, exchange, JobShare, JobOn
<1>3. /\ Booked(o) /\ book[o].volume \in Nat /\ book[o].left \in Nat /\ book[o].left <= book[o].volume
      /\ r.left \in Nat /\ ReportOK(r) /\ r \in Elements(reports)
      /\ Closing(o) => (OnSide(o, side, l) <=> side = s /\ l = k)
  <2>1. Booked(o) /\ ReportOK(r) /\ r \in Elements(reports)
    BY <1>1, HeadReport
  <2>2. Closing(o) => (OnSide(o, side, l) <=> side = s /\ l = k)
    BY <1>1, <2>1 DEF OnSide, Closing
  <2>3. r.left \in Nat
    BY DEF OrderReports
  <2> QED
    BY <2>1, <2>2, <2>3, EntryTypes
<1>4. /\ LockAt(side, l) \in Int /\ JobShare(side, l) \in Int
      /\ LowerOf(o, side, l) \in Nat /\ LowerOf(o, side, l)' \in Nat
  BY LockTypes, LowerTypes, LowerTypesNext
<1>5. \A x \in Orders : x # o => (Key(x) \in lockInfo' \ unlocked' => Key(x) \in lockInfo \ unlocked)
  BY <1>1, KeysDiffer
<1>6. \A x \in Orders : /\ x # o => LowerOf(x, side, l)' <= LowerOf(x, side, l)
                        /\ (Key(x) \in lockInfo' \ unlocked' => Key(x) \in lockInfo \ unlocked)
                                 => LowerOf(x, side, l)' <= LowerOf(x, side, l)
  BY <1>1, <1>2, <1>5, LowerTail
<1>7. CASE Closing(o) /\ AddLock(s, k, book[o].volume)
  <2>1. LockAt(side, l)' = IF side = s /\ l = k THEN LockAt(side, l) + book[o].volume ELSE LockAt(side, l)
    BY <1>3, <1>7, MovedLocks
  <2>2. LowerOf(o, side, l)' <= IF side = s /\ l = k THEN book[o].volume ELSE 0
    <3>1. OnSide(o, side, l)' <=> OnSide(o, side, l)
      BY <1>2 DEF OnSide, Booked, SideOf
    <3>2. LowerOf(o, side, l)' \in {0, book[o].left} /\ (~OnSide(o, side, l) => LowerOf(o, side, l)' = 0)
      BY <1>2, <3>1 DEF LowerOf
    <3> QED
      BY <1>3, <1>7, <3>2
  <2>3. LockAt(side, l) + LowerOf(o, side, l)' + JobShare(side, l)'
          <= LockAt(side, l)' + LowerOf(o, side, l) + JobShare(side, l)
    BY <1>2, <1>3, <1>4, <2>1, <2>2
  <2> QED
    BY <1>6, <2>3, LowerStep
<1>8. CASE /\ Closing(o) /\ Cancels(r) /\ Key(o) \in lockInfo \ unlocked
           /\ AddLock(s, k, 0 - r.left)
           /\ lockInfo' = lockInfo /\ unlocked' = unlocked \cup {Key(o)}
  <2>1. PICK n \in Int : n = 0 - r.left
    BY <1>3
  <2>2. LockAt(side, l)' = IF side = s /\ l = k THEN LockAt(side, l) + n ELSE LockAt(side, l)
    BY <1>8, <2>1, MovedLocks
  <2>3. book[o].state = "cancelled" /\ r.left = book[o].left
    BY <1>1, <1>3, <1>8 DEF ReportOK
  <2>4. LowerOf(o, side, l) = IF side = s /\ l = k THEN r.left ELSE 0
    <3>1. CancelIn(reports, o)
      BY <1>1, <1>3, <1>8 DEF CancelIn
    <3>2. Held(o)
      BY <1>8, <3>1 DEF Held
    <3> QED
      BY <1>3, <1>8, <2>3, <3>2 DEF LowerOf
  <2>5. LowerOf(o, side, l)' = 0
    <3>1. ~RejectIn(reports, o)'
      <4>1. \A q \in Elements(reports') : ReportOK(q)'
        BY DEF PosInv, ReportsOK
      <4> QED
        BY <1>2, <2>3, <4>1 DEF ReportOK, RejectIn
    <3>2. ~Held(o)'
      BY <1>2, <1>8, <2>3, <3>1 DEF Held, Key
    <3> QED
      BY <3>2 DEF LowerOf
  <2>6. LockAt(side, l) + LowerOf(o, side, l)' + JobShare(side, l)'
          <= LockAt(side, l)' + LowerOf(o, side, l) + JobShare(side, l)
    BY <1>2, <1>3, <1>4, <2>1, <2>2, <2>4, <2>5
  <2> QED
    BY <1>6, <2>6, LowerStep
<1>9. CASE UNCHANGED <<known, pos, lockInfo, unlocked>>
  <2>1. LockAt(side, l)' = LockAt(side, l)
    BY <1>9 DEF LockAt
  <2>2. \A x \in Orders : LowerOf(x, side, l)' <= LowerOf(x, side, l)
    BY <1>6, <1>9
  <2>3. LockAt(side, l) + JobShare(side, l)' <= LockAt(side, l)' + JobShare(side, l)
    BY <1>2, <1>4, <2>1
  <2> QED
    BY <2>2, <2>3, LowerStep
<1> QED
  BY <1>1, <1>7, <1>8, <1>9

LEMMA LowerRspInsert ==
  ASSUME PosInv, PosInv', OnRspOrderInsert, NEW side \in Sides, NEW l \in Locks, AtLeast(side, l)
  PROVE  AtLeast(side, l)'
<1>1. PICK r \in Reports, o \in Orders, s \in Sides, k \in Locks :
           /\ r = Head(reports) /\ r.type = "reject" /\ o = r.order /\ s = SideOf(o) /\ k = LockOf(book[o].offset)
           /\ reports # << >> /\ reports' = Tail(reports)
           /\ IF Closing(o) THEN AddLock(s, k, 0 - book[o].volume) ELSE UNCHANGED <<known, pos>>
           /\ UNCHANGED <<recorded, lockInfo, unlocked, job, connection, exchange, mishaps>>
  BY RspInsertStep
<1>2. UNCHANGED <<book, session, stage>> /\ JobShare(side, l)' = JobShare(side, l)
  BY <1>1 DEF connection, exchange, JobShare, JobOn
<1>3. /\ Booked(o) /\ ReportOK(r) /\ r \in Elements(reports)
      /\ Closing(o) => (OnSide(o, side, l) <=> side = s /\ l = k)
  <2>1. Booked(o) /\ ReportOK(r) /\ r \in Elements(reports)
    BY <1>1, HeadReport
  <2>2. Closing(o) => (OnSide(o, side, l) <=> side = s /\ l = k)
    BY <1>1, <2>1 DEF OnSide, Closing
  <2> QED
    BY <2>1, <2>2
<1>4. /\ LockAt(side, l) \in Int /\ JobShare(side, l) \in Int
      /\ LowerOf(o, side, l) \in Nat /\ LowerOf(o, side, l)' \in Nat
  BY LockTypes, LowerTypes, LowerTypesNext
<1>5. \A x \in Orders : x # o => LowerOf(x, side, l)' <= LowerOf(x, side, l)
  BY <1>1, <1>2, LowerTail
<1>6. CASE Closing(o) /\ AddLock(s, k, 0 - book[o].volume)
  <2>1. /\ book[o].state = "rejected" /\ o \in Own /\ book[o].session = session /\ stage # "down"
    BY <1>1, <1>3 DEF ReportOK
  <2>2. book[o].left = book[o].volume /\ book[o].volume \in Nat
    BY <1>3, <2>1, EntryTypes DEF EntryOK
  <2>3. PICK n \in Int : n = 0 - book[o].volume
    BY <2>2
  <2>4. LockAt(side, l)' = IF side = s /\ l = k THEN LockAt(side, l) + n ELSE LockAt(side, l)
    BY <1>6, <2>3, MovedLocks
  <2>5. LowerOf(o, side, l) = IF side = s /\ l = k THEN book[o].volume ELSE 0
    <3>1. RejectIn(reports, o)
      BY <1>1, <1>3 DEF RejectIn
    <3>2. Held(o)
      BY <2>1, <3>1 DEF Held
    <3> QED
      BY <1>3, <1>6, <2>2, <3>2 DEF LowerOf
  <2>6. LowerOf(o, side, l)' = 0
    <3>1. ~RejectIn(reports', o) /\ ~CancelIn(reports', o)
      BY <1>1, OneLess DEF PosInv, PosTypeOK, ReportsOK, Ends
    <3>2. ~Held(o)'
      BY <1>2, <2>1, <3>1 DEF Held, IsLive, RejectIn, CancelIn
    <3> QED
      BY <3>2 DEF LowerOf
  <2>7. LockAt(side, l) + LowerOf(o, side, l)' + JobShare(side, l)'
          <= LockAt(side, l)' + LowerOf(o, side, l) + JobShare(side, l)
    BY <1>2, <1>4, <2>2, <2>3, <2>4, <2>5, <2>6
  <2> QED
    BY <1>5, <2>7, LowerStep
<1>7. CASE UNCHANGED <<known, pos>>
  <2>1. LockAt(side, l)' = LockAt(side, l)
    BY <1>7 DEF LockAt
  <2>2. \A x \in Orders : LowerOf(x, side, l)' <= LowerOf(x, side, l)
    BY <1>1, <1>2, LowerTail
  <2>3. LockAt(side, l) + JobShare(side, l)' <= LockAt(side, l)' + JobShare(side, l)
    BY <1>2, <1>4, <2>1
  <2> QED
    BY <2>2, <2>3, LowerStep
<1> QED
  BY <1>1, <1>6, <1>7

LEMMA LowerQryOrder ==
  ASSUME PosInv, PosInv', NoOverlap, "overlap" \notin mishaps, NEW row, OnRspQryOrder(row), NEW side \in Sides,
         NEW l \in Locks, AtLeast(side, l)
  PROVE  AtLeast(side, l)'
<1>1. PICK o \in Orders, s \in Sides, k \in Locks :
           /\ o = row.order /\ s = SideOf(o) /\ k = LockOf(book[o].offset)
           /\ stage = "orders" /\ answer # << >> /\ row \in answer[1]
           /\ Booked(o) /\ book[o].state \in {"live", "cancelled", "done"}
           /\ row.state = "cancelled" => book[o].state = "cancelled"
           /\ IF Closing(o) /\ Key(o) \notin lockInfo /\ row.state # "cancelled"
                THEN AddLock(s, k, book[o].volume) ELSE UNCHANGED <<known, pos>>
           /\ lockInfo' = lockInfo \cup {Key(o)}
           /\ unlocked' = (IF Key(o) \in lockInfo THEN unlocked ELSE unlocked \ {Key(o)})
           /\ Finish(answer[1] \ {row}) /\ UNCHANGED <<job, session, reports, exchange, mishaps>>
  BY QryOrderStep
<1>2. /\ UNCHANGED <<book, session, reports>> /\ JobShare(side, l)' = JobShare(side, l) /\ stage # "down"
  BY <1>1 DEF exchange, JobShare, JobOn
<1>3. /\ book[o].volume \in Nat /\ book[o].left \in Nat /\ book[o].left <= book[o].volume
      /\ Closing(o) <=> book[o].offset # "open"
      /\ Closing(o) => (OnSide(o, side, l) <=> side = s /\ l = k)
  <2>1. Closing(o) <=> book[o].offset # "open"
    BY <1>1 DEF Closing, Exists
  <2>2. Closing(o) => (OnSide(o, side, l) <=> side = s /\ l = k)
    BY <1>1 DEF OnSide, Closing
  <2> QED
    BY <1>1, <2>1, <2>2, EntryTypes
<1>4. /\ LockAt(side, l) \in Int /\ JobShare(side, l) \in Int
      /\ LowerOf(o, side, l) \in Nat /\ LowerOf(o, side, l)' \in Nat
  BY LockTypes, LowerTypes, LowerTypesNext
<1>5. \A x : CancelIn(reports, x)' = CancelIn(reports, x) /\ RejectIn(reports, x)' = RejectIn(reports, x)
  BY <1>2 DEF CancelIn, RejectIn
<1>6. ASSUME NEW x \in Orders, x # o PROVE LowerOf(x, side, l)' <= LowerOf(x, side, l)
  <2>1. Key(x) \in lockInfo' \ unlocked' => Key(x) \in lockInfo \ unlocked
    BY <1>1, <1>6, KeysDiffer
  <2>2. Held(x)' => Held(x)
    BY <1>2, <1>5, <2>1, HeldKept
  <2> QED
    BY <1>2, <2>2, LowerKept
<1>7. CASE Closing(o) /\ AddLock(s, k, book[o].volume)
  <2>1. LockAt(side, l)' = IF side = s /\ l = k THEN LockAt(side, l) + book[o].volume ELSE LockAt(side, l)
    BY <1>3, <1>7, MovedLocks
  <2>2. LowerOf(o, side, l)' <= IF side = s /\ l = k THEN book[o].volume ELSE 0
    <3>1. OnSide(o, side, l)' <=> OnSide(o, side, l)
      BY <1>2 DEF OnSide, Booked, SideOf
    <3>2. LowerOf(o, side, l)' \in {0, book[o].left} /\ (~OnSide(o, side, l) => LowerOf(o, side, l)' = 0)
      BY <1>2, <3>1 DEF LowerOf
    <3> QED
      BY <1>3, <1>7, <3>2
  <2>3. LockAt(side, l) + LowerOf(o, side, l)' + JobShare(side, l)'
          <= LockAt(side, l)' + LowerOf(o, side, l) + JobShare(side, l)
    BY <1>2, <1>3, <1>4, <2>1, <2>2
  <2> QED
    BY <1>6, <2>3, LowerStep
<1>8. CASE UNCHANGED <<known, pos>> /\ (Closing(o) => Key(o) \in lockInfo \/ row.state = "cancelled")
  <2>1. LockAt(side, l)' = LockAt(side, l)
    BY <1>8 DEF LockAt
  <2>2. LowerOf(o, side, l)' <= LowerOf(o, side, l)
    <3>1. CASE Key(o) \in lockInfo
      <4>1. Held(o)' => Held(o)
        BY <1>1, <1>2, <1>5, <3>1, HeldKept
      <4> QED
        BY <1>2, <4>1, LowerKept
    <3>2. CASE ~Closing(o)
      <4>1. LowerOf(o, side, l)' = 0
        BY <1>2, <1>3, <3>2 DEF LowerOf, OnSide
      <4> QED
        BY <1>4, <4>1
    <3>3. CASE row.state = "cancelled"
      <4>1. book[o].state = "cancelled" /\ ~CancelIn(reports, o)
        BY <1>1, <3>3 DEF NoOverlap
      <4>2. ~RejectIn(reports, o)
        BY <4>1 DEF PosInv, ReportsOK, ReportOK, RejectIn
      <4>3. ~Held(o)'
        BY <1>2, <1>5, <4>1, <4>2 DEF Held, IsLive
      <4>4. LowerOf(o, side, l)' = 0
        BY <4>3 DEF LowerOf
      <4> QED
        BY <1>4, <4>4
    <3> QED
      BY <1>8, <3>1, <3>2, <3>3
  <2>3. LockAt(side, l) + JobShare(side, l)' <= LockAt(side, l)' + JobShare(side, l)
    BY <1>2, <1>4, <2>1
  <2>4. \A x \in Orders : LowerOf(x, side, l)' <= LowerOf(x, side, l)
    BY <1>6, <2>2
  <2> QED
    BY <2>3, <2>4, LowerStep
<1> QED
  BY <1>1, <1>7, <1>8

-----------------------------------------------------------------------------
(* ... and in all other steps                                              *)

(* A step of the listening thread or of the log-in that no lock and no     *)
(* order is touched by *)
LEMMA LowerUntouched ==
  ASSUME PosInv, PosInv', NEW side \in Sides, NEW l \in Locks, AtLeast(side, l), UNCHANGED book,
         LockAt(side, l)' = LockAt(side, l), JobShare(side, l)' = JobShare(side, l),
         \A x \in Orders : Held(x)' => Held(x)
  PROVE  AtLeast(side, l)'
<1>1. \A x \in Orders : LowerOf(x, side, l)' <= LowerOf(x, side, l)
  BY LowerKept
<1>2. LockAt(side, l) + JobShare(side, l)' <= LockAt(side, l)' + JobShare(side, l)
  BY LockTypes
<1> QED
  BY <1>1, <1>2, LowerStep

LEMMA LowerDisconnect ==
  ASSUME PosInv, PosInv', OnFrontDisconnected, mishaps' \cap {"lock", "record"} = {},
         NEW side \in Sides, NEW l \in Locks
  PROVE  AtLeast(side, l)'
<1>1. /\ job.pc \in mishaps' /\ job' = job /\ lockInfo' = {} /\ stage' = "down"
      /\ pos' = [s \in Sides |-> EmptyPos]
  BY DEF OnFrontDisconnected
<1>2. job.pc \notin {"lock", "record"}
  BY <1>1
<1>3. LockAt(side, l)' = 0 /\ JobShare(side, l)' = 0
  BY <1>1, <1>2 DEF LockAt, EmptyPos, JobShare, JobOn
<1>4. \A x \in Orders : LowerOf(x, side, l)' = 0
  BY <1>1 DEF LowerOf, Held
<1>5. PICK e : e = [o \in Orders |-> LowerOf(o, side, l)']
  OBVIOUS
<1>6. \A o \in Orders : e[o] = 0
  BY <1>4, <1>5
<1>7. Sum(e, Orders) = 0
  BY <1>6, OrdersFinite, ZeroSum
<1>8. Lower(side, l)' = Sum(e, Orders)
  BY <1>5 DEF Lower
<1> QED
  BY <1>3, <1>7, <1>8 DEF AtLeast

LEMMA LowerLogin ==
  ASSUME PosInv, PosInv', OnRspUserLogin, NEW side \in Sides, NEW l \in Locks, AtLeast(side, l)
  PROVE  AtLeast(side, l)'
<1>1. /\ UNCHANGED <<engine, job, reports, book>> /\ stage = "down" /\ session' = session + 1
  BY DEF OnRspUserLogin, exchange
<1>2. LockAt(side, l)' = LockAt(side, l) /\ JobShare(side, l)' = JobShare(side, l)
  BY <1>1 DEF engine, LockAt, JobShare, JobOn
<1>3. ASSUME NEW x \in Orders PROVE LowerOf(x, side, l)' <= LowerOf(x, side, l)
  <2>1. LowerOf(x, side, l)' \in Nat /\ LowerOf(x, side, l) \in Nat
    BY LowerTypes, LowerTypesNext
  <2>2. CASE ~Booked(x)
    <3>1. LowerOf(x, side, l)' = 0
      BY <1>1, <2>2 DEF LowerOf, OnSide, Booked
    <3> QED
      BY <2>1, <3>1
  <2>3. CASE Booked(x)
    <3>1. book[x].session <= session /\ book[x].session \in Nat /\ session \in Nat
      BY <2>3, EntryTypes DEF PosInv, PosTypeOK
    <3>2. book'[x].session # session'
      BY <1>1, <3>1
    <3>3. Held(x)' => Held(x)
      BY <1>1, <3>2 DEF Held, engine, Key, IsLive, CancelIn
    <3> QED
      BY <1>1, <3>3, LowerKept
  <2> QED
    BY <2>2, <2>3
<1>4. LockAt(side, l) + JobShare(side, l)' <= LockAt(side, l)' + JobShare(side, l)
  BY <1>2, LockTypes
<1> QED
  BY <1>3, <1>4, LowerStep

LEMMA LowerExchange ==
  ASSUME PosInv, PosInv', SentInv, Exchange, NEW side \in Sides, NEW l \in Locks, AtLeast(side, l)
  PROVE  AtLeast(side, l)'
<1>1. LockAt(side, l)' = LockAt(side, l) /\ JobShare(side, l)' = JobShare(side, l)
  BY ExchangeUntouched DEF LockAt, JobShare, JobOn
<1>2. ASSUME \A x \in Orders : LowerOf(x, side, l)' <= LowerOf(x, side, l)
      PROVE  AtLeast(side, l)'
  <2>1. LockAt(side, l) + JobShare(side, l)' <= LockAt(side, l)' + JobShare(side, l)
    BY <1>1, LockTypes
  <2> QED
    BY <1>2, <2>1, LowerStep
<1>3. ASSUME NEW o \in Orders, Accept(o) \/ Reject(o) \/ Trade(o) \/ Cancel(o)
      PROVE  AtLeast(side, l)'
  BY <1>2, <1>3, LowerAccept, LowerReject, LowerTrade
<1>4. ASSUME NEW o \in Foreign, NEW direction \in Directions, NEW offset \in Wishes \ {"auto"},
             NEW volume \in Volumes, OtherTerminal(o, direction, offset, volume)
      PROVE  AtLeast(side, l)'
  BY <1>2, <1>4, LowerOther
<1>5. CASE TakeRecords
  <2>1. UNCHANGED <<engine, job, session, stage, reports, book>>
    BY <1>5 DEF TakeRecords, exchange
  <2>2. \A x \in Orders : Held(x)' => Held(x)
    BY <2>1 DEF engine, Held, Key, IsLive, CancelIn, RejectIn
  <2> QED
    BY <1>1, <2>1, <2>2, LowerUntouched
<1> QED
  BY <1>3, <1>4, <1>5 DEF Exchange

LEMMA LowerListener ==
  ASSUME PosInv, PosInv', Listener, NEW side \in Sides, NEW l \in Locks, AtLeast(side, l)
  PROVE  AtLeast(side, l)'
<1>1. /\ LockAt(side, l) \in Int /\ JobShare(side, l) \in Int
      /\ LockAt(side, l)' \in Int /\ JobShare(side, l)' \in Int
  BY LockTypes, LockTypesNext
<1>2. ASSUME UNCHANGED <<lockInfo, unlocked, session, stage, reports, book>>
      PROVE  \A x \in Orders : LowerOf(x, side, l)' <= LowerOf(x, side, l)
  <2>1. \A x \in Orders : Held(x)' => Held(x)
    BY <1>2 DEF Held, Key, IsLive, CancelIn, RejectIn
  <2> QED
    BY <1>2, <2>1, LowerKept
<1>3. ASSUME NEW o \in Own, NEW direction \in Directions, NEW wish \in Wishes, NEW volume \in Volumes,
             Read(o, direction, wish, volume)
      PROVE  AtLeast(side, l)'
  <2>1. /\ SameLocks /\ UNCHANGED <<lockInfo, unlocked, session, stage, reports, book>>
        /\ JobShare(side, l) = 0 /\ JobShare(side, l)' = 0
    BY <1>3, ReadShare
  <2>2. LockAt(side, l) + JobShare(side, l)' <= LockAt(side, l)' + JobShare(side, l)
    BY <1>1, <2>1 DEF SameLocks
  <2> QED
    BY <1>2, <2>1, <2>2, LowerStep
<1>4. CASE Lock
  <2>1. /\ UNCHANGED <<lockInfo, unlocked, session, stage, reports, book>>
        /\ LockAt(side, l)' = LockAt(side, l) + JobShare(side, l)' /\ JobShare(side, l) = 0
    BY <1>4, LockShareStep
  <2>2. LockAt(side, l) + JobShare(side, l)' <= LockAt(side, l)' + JobShare(side, l)
    BY <1>1, <2>1
  <2> QED
    BY <1>2, <2>1, <2>2, LowerStep
<1>5. CASE Record
  <2>1. SameLocks /\ JobShare(side, l)' = JobShare(side, l)
    BY <1>5, RecordShare
  <2>2. LockAt(side, l) + JobShare(side, l)' <= LockAt(side, l)' + JobShare(side, l)
    BY <1>1, <2>1 DEF SameLocks
  <2>3. \A x \in Orders : LowerOf(x, side, l)' <= LowerOf(x, side, l)
    BY <1>5, LowerRecord
  <2> QED
    BY <2>2, <2>3, LowerStep
<1>6. CASE Insert
  <2>1. \E y \in Orders :
           /\ \A x \in Orders : x # y => LowerOf(x, side, l)' <= LowerOf(x, side, l)
           /\ LockAt(side, l) + LowerOf(y, side, l)' + JobShare(side, l)'
                <= LockAt(side, l)' + LowerOf(y, side, l) + JobShare(side, l)
    BY <1>6, LowerInsert
  <2> QED
    BY <2>1, LowerStep
<1> QED
  BY <1>3, <1>4, <1>5, <1>6 DEF Listener

LEMMA LowerQueries ==
  ASSUME PosInv, PosInv', NEW side \in Sides, NEW l \in Locks, AtLeast(side, l),
         OnRtnTrade \/ OnRspSettlementInfoConfirm \/ OnRspWithoutRecord
         \/ \E row : answer # << >> /\ (OnRspQryTrade(row) \/ OnRspQryInvestorPosition(row))
  PROVE  AtLeast(side, l)'
<1>1. Untouched /\ UNCHANGED book
  BY QueriesUntouched
<1>2. LockAt(side, l)' = LockAt(side, l) /\ JobShare(side, l)' = JobShare(side, l)
  BY <1>1 DEF Untouched, SameLocks, JobShare, JobOn
<1>3. UNCHANGED <<lockInfo, unlocked, session, book>>
  BY <1>1 DEF Untouched
<1>4. ASSUME stage = "down" => stage' = "down",
             \A x : (CancelIn(reports, x)' => CancelIn(reports, x)) /\ (RejectIn(reports, x)' => RejectIn(reports, x))
      PROVE  AtLeast(side, l)'
  <2>1. \A x \in Orders : Held(x)' => Held(x)
    BY <1>3, <1>4, HeldKept
  <2> QED
    BY <1>2, <1>3, <2>1, LowerUntouched
<1>5. CASE OnRtnTrade
  <2>1. reports # << >> /\ reports' = Tail(reports) /\ stage' = stage
    BY <1>5 DEF OnRtnTrade, Arrives, connection
  <2>2. \A x : (CancelIn(reports, x)' => CancelIn(reports, x)) /\ (RejectIn(reports, x)' => RejectIn(reports, x))
    BY <2>1, OneLess DEF PosInv, PosTypeOK, ReportsOK
  <2> QED
    BY <1>4, <2>1, <2>2
<1>6. ASSUME reports' = reports, stage # "down" PROVE AtLeast(side, l)'
  BY <1>4, <1>6 DEF CancelIn, RejectIn
<1>7. CASE OnRspSettlementInfoConfirm
  BY <1>6, <1>7 DEF OnRspSettlementInfoConfirm
<1>8. answer # << >> => stage # "down"
  BY DEF PosInv, PosTypeOK
<1>9. CASE OnRspWithoutRecord
  BY <1>6, <1>8, <1>9 DEF OnRspWithoutRecord, EmptyAnswer
<1>10. ASSUME NEW row, OnRspQryTrade(row) \/ OnRspQryInvestorPosition(row), answer # << >>
       PROVE  AtLeast(side, l)'
  BY <1>6, <1>8, <1>10 DEF OnRspQryTrade, OnRspQryInvestorPosition
<1> QED
  BY <1>5, <1>7, <1>9, <1>10

LEMMA LowerNext ==
  ASSUME PosInv, PosInv', SentInv, NoOverlap, LowerInv, [PosNext]_posVars
  PROVE  LowerInv'
<1> SUFFICES ASSUME mishaps' \cap {"lock", "record", "overlap"} = {}, NEW side \in Sides, NEW l \in Locks
    PROVE  AtLeast(side, l)'
  BY DEF LowerInv
<1>1. "overlap" \notin mishaps /\ AtLeast(side, l)
  BY MishapsGrow DEF LowerInv
<1>2. CASE Listener
  BY <1>1, <1>2, LowerListener
<1>3. CASE Exchange
  BY <1>1, <1>3, LowerExchange
<1>4. ASSUME NEW row, answer # << >>, OnRspQryOrder(row) \/ OnRspQryTrade(row) \/ OnRspQryInvestorPosition(row)
      PROVE  AtLeast(side, l)'
  BY <1>1, <1>4, LowerQryOrder, LowerQueries
<1>5. CASE OnFrontDisconnected
  BY <1>5, LowerDisconnect
<1>6. CASE Callbacks
  BY <1>1, <1>4, <1>5, <1>6, LowerRtnOrder, LowerRspInsert, LowerLogin, LowerQueries DEF Callbacks
<1>7. CASE UNCHANGED posVars
  <2>1. UNCHANGED <<pos, lockInfo, unlocked, job, session, stage, reports, book>>
    BY <1>7 DEF posVars, engine, connection, exchange
  <2>2. LockAt(side, l)' = LockAt(side, l) /\ JobShare(side, l)' = JobShare(side, l)
    BY <2>1 DEF LockAt, JobShare, JobOn
  <2>3. \A x \in Orders : Held(x)' => Held(x)
    BY <2>1 DEF Held, Key, IsLive, CancelIn, RejectIn
  <2> QED
    BY <1>1, <2>1, <2>2, <2>3, LowerUntouched
<1> QED
  BY <1>2, <1>3, <1>6, <1>7 DEF PosNext

(* What LowerInv says of live orders *)
LEMMA LiveLocked == ASSUME PosInv, LowerInv PROVE LiveOrdersLocked
<1> SUFFICES ASSUME mishaps \cap {"lock", "record", "overlap"} = {}, NEW side \in Sides, NEW l \in Locks
    PROVE  Left({o \in ClosingOn(side, l) : IsLive(o) /\ Key(o) \in lockInfo}) <= LockAt(side, l)
  BY DEF LiveOrdersLocked, LockAt
<1>1. AtLeast(side, l)
  BY DEF LowerInv
<1>2. PICK S : S = {o \in ClosingOn(side, l) : IsLive(o) /\ Key(o) \in lockInfo}
  OBVIOUS
<1>3. ASSUME NEW o \in S PROVE o \in Orders /\ OnSide(o, side, l) /\ Held(o) /\ book[o].left \in Nat
  <2>1. o \in Orders /\ Closing(o) /\ SideOf(o) = side /\ LockOf(book[o].offset) = l /\ IsLive(o) /\ Key(o) \in lockInfo
    BY <1>2 DEF ClosingOn
  <2>2. Booked(o)
    BY <2>1, SentIsBooked DEF IsLive, BookStates
  <2>3. Key(o) \notin unlocked
    BY <2>1, <2>2 DEF PosInv, KeysOK, Key, IsLive
  <2> QED
    BY <2>1, <2>2, <2>3, EntryTypes DEF OnSide, Closing, Held
<1>4. PICK e : e = [o \in Orders |-> IF o \in S THEN book[o].left ELSE 0]
  OBVIOUS
<1>5. PICK f : f = [o \in Orders |-> LowerOf(o, side, l)]
  OBVIOUS
<1>6. ASSUME NEW o \in Orders PROVE e[o] \in Int /\ f[o] \in Int /\ e[o] <= f[o]
  <2>1. f[o] = LowerOf(o, side, l) /\ f[o] \in Nat
    BY <1>5, LowerTypes
  <2>2. CASE o \in S
    BY <1>3, <1>4, <2>1, <2>2 DEF LowerOf
  <2>3. CASE o \notin S
    BY <1>4, <2>1, <2>3
  <2> QED
    BY <2>2, <2>3
<1>7. Sum(e, Orders) <= Sum(f, Orders) /\ Sum(f, Orders) \in Int /\ Sum(e, Orders) \in Int
  <2>1. Sum(e, Orders) <= Sum(f, Orders)
    BY <1>6, OrdersFinite, OrderedSums
  <2>2. Sum(f, Orders) \in Int
    BY <1>6, OrdersFinite, TakenSum
  <2>3. Sum(e, Orders) \in Int
    BY <1>6, OrdersFinite, TakenSum
  <2> QED
    BY <2>1, <2>2, <2>3
<1>8. Left(S) = Sum(e, Orders)
  <2>1. S \subseteq Orders /\ (\A o \in S : book[o].left \in Int)
    BY <1>3
  <2>2. \A o \in Orders : e[o] = IF o \in S THEN book[o].left ELSE 0
    BY <1>4
  <2> QED
    BY <2>1, <2>2, LeftOver
<1>9. Sum(f, Orders) + JobShare(side, l) <= LockAt(side, l)
  BY <1>1, <1>5 DEF AtLeast, Lower
<1>10. LockAt(side, l) \in Int /\ JobShare(side, l) \in Nat
  BY LockTypes
<1>11. Left(S) <= LockAt(side, l)
  BY <1>7, <1>8, <1>9, <1>10
<1> QED
  BY <1>2, <1>11

-----------------------------------------------------------------------------
(* The locks through lost connections                                      *)

LEMMA LocksInit == PosInit => JobInv /\ UpperInv /\ SentInv /\ NoOverlap /\ LowerInv
<1> SUFFICES ASSUME PosInit PROVE JobInv /\ UpperInv /\ SentInv /\ NoOverlap /\ LowerInv
  OBVIOUS
<1>1. /\ job = Idle /\ answer = << >> /\ lockInfo = {} /\ book = [o \in Orders |-> NotPlaced]
      /\ pos = [side \in Sides |-> [EmptyPos EXCEPT !.yesterday = Yesterday[side]]]
  BY DEF PosInit
<1>2. \A o \in Orders : ~Booked(o)
  BY <1>1 DEF Booked
<1>3. JobInv /\ SentInv /\ NoOverlap
  BY <1>1, <1>2 DEF JobInv, SentInv, NoOverlap
<1>4. ASSUME NEW side \in Sides, NEW l \in Locks
      PROVE  /\ LockAt(side, l) = 0 /\ JobShare(side, l) = 0
             /\ Upper(side, l) = 0 /\ Lower(side, l) = 0
  <2>1. LockAt(side, l) = 0
    BY <1>1 DEF LockAt, EmptyPos
  <2>2. JobShare(side, l) = 0
    BY <1>1 DEF JobShare, JobOn
  <2>3. PICK e : e = [o \in Orders |-> UpperOf(o, side, l)]
    OBVIOUS
  <2>4. \A o \in Orders : e[o] = 0
    BY <1>2, <2>3 DEF UpperOf, OnSide
  <2>5. Sum(e, Orders) = 0
    BY <2>4, OrdersFinite, ZeroSum
  <2>6. PICK f : f = [o \in Orders |-> LowerOf(o, side, l)]
    OBVIOUS
  <2>7. \A o \in Orders : f[o] = 0
    BY <1>2, <2>6 DEF LowerOf, OnSide
  <2>8. Sum(f, Orders) = 0
    BY <2>7, OrdersFinite, ZeroSum
  <2> QED
    BY <2>1, <2>2, <2>3, <2>5, <2>6, <2>8 DEF Upper, Lower
<1>5. UpperInv
  BY <1>4 DEF UpperInv, AtMost
<1>6. LowerInv
  BY <1>4 DEF LowerInv, AtLeast
<1> QED
  BY <1>3, <1>5, <1>6

(* What holds of the locks however often the connection breaks *)
LocksInv == PosInv /\ JobInv /\ UpperInv /\ SentInv /\ NoOverlap /\ LowerInv

(* Whatever the connection does, the locks lie between what orders ask for *)
(* and what is left of those that can still unlock it (lockPos, unlockPos,  *)
(* clearPos, OnRspQryOrder).                                                *)
THEOREM LocksInductive == PosSpec => []LocksInv
<1>1. PosInit => LocksInv
  BY InitPos, LocksInit DEF LocksInv
<1>2. LocksInv /\ [PosNext]_posVars => LocksInv'
  <2> SUFFICES ASSUME LocksInv, [PosNext]_posVars PROVE LocksInv'
    OBVIOUS
  <2>1. PosInv /\ JobInv /\ UpperInv /\ SentInv /\ NoOverlap /\ LowerInv
    BY DEF LocksInv
  <2>2. PosInv'
    BY <2>1, NextPos
  <2>3. JobInv' /\ SentInv' /\ NoOverlap'
    BY <2>1, JobNext, SentNext, NoOverlapNext
  <2>4. UpperInv'
    BY <2>1, <2>2, UpperNext
  <2>5. LowerInv'
    BY <2>1, <2>2, LowerNext
  <2> QED
    BY <2>2, <2>3, <2>4, <2>5 DEF LocksInv
<1> QED
  BY <1>1, <1>2, PTL DEF PosSpec

(* No order is locked twice, neither by its report and the record of the   *)
(* order query (OnRtnOrder, OnRspQryOrder) nor by the listening thread and *)
(* its report, as long as no connection broke while an order was placed.   *)
THEOREM OneLockEach == PosSpec => []LockedOnce
<1>1. LocksInv => LockedOnce
  BY OnceLocked DEF LocksInv
<1> QED
  BY <1>1, LocksInductive, PTL

(* A live closing order in the lock table has what is left of it locked,    *)
(* through lost connections, cleared positions, repeated queries and late   *)
(* reports (OnRspQryOrder, OnRtnOrder, clearPos), but for the three         *)
(* mishaps LiveOrdersLocked names.                                          *)
THEOREM LiveOrdersKeepLocks == PosSpec => []LiveOrdersLocked
<1>1. LocksInv => LiveOrdersLocked
  BY LiveLocked DEF LocksInv
<1> QED
  BY <1>1, LocksInductive, PTL

-----------------------------------------------------------------------------
(* While the connection holds, the locks are known exactly.                *)

(* While the connection holds, the three queries have been answered.       *)
Calm ==
  mishaps = {} =>
    /\ stage = "ready" /\ session = 0 /\ answer = << >>
    /\ job # Idle /\ job.pc = "record" => <<job.order, 0>> \in recorded \cap lockInfo

CalmSteps ==
  \/ Listener \/ OnRtnOrder \/ OnRtnTrade \/ OnRspOrderInsert
  \/ \E o \in Orders : Accept(o) \/ Reject(o) \/ Trade(o) \/ Cancel(o)
  \/ \E o \in Foreign, direction \in Directions, offset \in Wishes \ {"auto"}, volume \in Volumes :
        OtherTerminal(o, direction, offset, volume)
  \/ UNCHANGED posVars

LEMMA CalmNext ==
  ASSUME PosInv, Calm, [PosNext]_posVars
  PROVE  Calm' /\ (mishaps' = {} => /\ mishaps = {} /\ stage = "ready" /\ session = 0 /\ answer = << >>
                                    /\ CalmSteps /\ UNCHANGED connection)
<1> SUFFICES ASSUME mishaps' = {}
    PROVE  /\ stage' = "ready" /\ session' = 0 /\ answer' = << >>
           /\ job' # Idle /\ job'.pc = "record" => <<job'.order, 0>> \in recorded' \cap lockInfo'
           /\ mishaps = {} /\ stage = "ready" /\ session = 0 /\ answer = << >> /\ CalmSteps /\ UNCHANGED connection
  BY DEF Calm
<1>1. mishaps = {}
  BY MishapsGrow
<1>2. stage = "ready" /\ session = 0 /\ answer = << >>
  BY <1>1 DEF Calm
<1>3. CalmSteps
  <2>1. ~OnFrontDisconnected
    BY DEF OnFrontDisconnected
  <2>2. ~OnRspUserLogin /\ ~OnRspSettlementInfoConfirm /\ ~TakeRecords /\ ~OnRspWithoutRecord
    BY <1>2 DEF OnRspUserLogin, OnRspSettlementInfoConfirm, TakeRecords, OnRspWithoutRecord, EmptyAnswer
  <2>3. CASE Callbacks
    BY <1>2, <2>1, <2>2, <2>3 DEF Callbacks, CalmSteps
  <2>4. CASE Exchange
    BY <2>2, <2>4 DEF Exchange, CalmSteps
  <2>5. CASE Listener \/ UNCHANGED posVars
    BY <2>5 DEF CalmSteps
  <2> QED
    BY <2>3, <2>4, <2>5 DEF PosNext
<1>4. UNCHANGED connection
  <2>1. CASE Listener
    BY <2>1, Zenon DEF Listener, Read, Lock, Record, Insert
  <2>2. CASE OnRtnOrder \/ OnRtnTrade \/ OnRspOrderInsert \/ UNCHANGED posVars
    BY <2>2 DEF OnRtnOrder, OnRtnTrade, OnRspOrderInsert, posVars
  <2>3. ASSUME NEW o \in Orders, Accept(o) \/ Reject(o) \/ Trade(o) \/ Cancel(o) PROVE UNCHANGED connection
    BY <2>3 DEF Accept, Reject, Trade, Cancel
  <2>4. ASSUME NEW o, NEW direction, NEW offset, NEW volume, OtherTerminal(o, direction, offset, volume)
        PROVE  UNCHANGED connection
    BY <2>4 DEF OtherTerminal
  <2> QED
    BY <1>3, <2>1, <2>2, <2>3, <2>4 DEF CalmSteps
<1>5. job' # Idle /\ job'.pc = "record" => <<job'.order, 0>> \in recorded' \cap lockInfo'
  <2>1. job # Idle /\ job.pc = "record" => <<job.order, 0>> \in recorded \cap lockInfo
    BY <1>1 DEF Calm
  <2>2. CASE job' = job /\ recorded \subseteq recorded' /\ lockInfo \subseteq lockInfo'
    BY <2>1, <2>2
  <2>3. ASSUME NEW o \in Own, NEW direction \in Directions, NEW wish \in Wishes, NEW volume \in Volumes,
               Read(o, direction, wish, volume)
        PROVE  job'.pc # "record"
    BY <2>3 DEF Read
  <2>4. CASE Lock
    BY <2>4, LockShareStep
  <2>5. CASE Record
    BY <1>2, <2>5, RecordShare
  <2>6. CASE Insert
    BY <2>6 DEF Insert
  <2>7. CASE OnRtnOrder
    <3>1. PICK o : /\ UNCHANGED job /\ lockInfo \subseteq lockInfo' /\ recorded' = recorded \cup {Key(o)}
      BY <2>7, RtnOrderStep
    <3> QED
      BY <2>2, <3>1
  <2>8. CASE OnRtnTrade \/ OnRspOrderInsert \/ UNCHANGED posVars
    BY <2>2, <2>8 DEF OnRtnTrade, OnRspOrderInsert, posVars, engine
  <2>9. CASE Exchange
    BY <2>2, <2>9, ExchangeUntouched
  <2>10. CASE Listener
    BY <2>3, <2>4, <2>5, <2>6, <2>10 DEF Listener
  <2>11. CASE Callbacks
    BY <1>2, <1>3, <2>2, <2>7, <2>8, <2>10, <2>11 DEF Callbacks, CalmSteps,
       OnFrontDisconnected, OnRspUserLogin, OnRspSettlementInfoConfirm, OnRspWithoutRecord, EmptyAnswer
  <2> QED
    BY <2>8, <2>9, <2>10, <2>11 DEF PosNext
<1> QED
  BY <1>1, <1>2, <1>3, <1>4, <1>5 DEF connection

-----------------------------------------------------------------------------
(* What has happened to an order, and how much of it the locks hold *)
Over(o) ==
  \/ book[o].state = "cancelled" /\ ~CancelIn(reports, o)
  \/ book[o].state = "rejected" /\ ~RejectIn(reports, o)

HeardOf(o) ==
  Booked(o) =>
    /\ o \in Own => Key(o) \in recorded
    /\ Key(o) \notin recorded => Announced(reports, o) /\ ~Over(o)
    /\ Closing(o) /\ Key(o) \in recorded => Over(o) \/ Key(o) \in lockInfo \ unlocked
HeardInv == mishaps = {} => \A o \in Orders : HeardOf(o)

Share(o) ==
  IF o \in Foreign /\ Key(o) \notin recorded THEN 0
  ELSE IF Over(o) THEN book[o].volume - book[o].left ELSE book[o].volume
ShareOf(o, side, l) == IF OnSide(o, side, l) THEN Share(o) ELSE 0
Shares(side, l) == Sum([o \in Orders |-> ShareOf(o, side, l)], Orders)

Exactly(side, l) == LockAt(side, l) = Shares(side, l) + JobShare(side, l)
ExactInv == mishaps = {} => \A side \in Sides, l \in Locks : Exactly(side, l)

LEMMA ShareTypes == PosInv => \A side \in Sides, l \in Locks, o \in Orders : ShareOf(o, side, l) \in Nat
<1> SUFFICES ASSUME PosInv, NEW side \in Sides, NEW l \in Locks, NEW o \in Orders PROVE ShareOf(o, side, l) \in Nat
  OBVIOUS
<1>1. CASE Booked(o)
  <2>1. book[o].volume \in Nat /\ book[o].volume - book[o].left \in Nat
    BY <1>1, EntryTypes
  <2> QED
    BY <2>1 DEF ShareOf, Share
<1>2. CASE ~Booked(o)
  BY <1>2 DEF ShareOf, OnSide
<1> QED
  BY <1>1, <1>2

LEMMA ShareTypesNext == PosInv' => (\A side \in Sides, l \in Locks, o \in Orders : ShareOf(o, side, l) \in Nat)'
BY ShareTypes, PTL

LEMMA ExactStep ==
  ASSUME PosInv, PosInv', NEW side \in Sides, NEW l \in Locks, Exactly(side, l),
         \/ /\ \A x \in Orders : ShareOf(x, side, l)' = ShareOf(x, side, l)
            /\ LockAt(side, l)' + JobShare(side, l) = LockAt(side, l) + JobShare(side, l)'
         \/ \E y \in Orders :
              /\ \A x \in Orders : x # y => ShareOf(x, side, l)' = ShareOf(x, side, l)
              /\ LockAt(side, l)' + ShareOf(y, side, l) + JobShare(side, l)
                   = LockAt(side, l) + ShareOf(y, side, l)' + JobShare(side, l)'
  PROVE  Exactly(side, l)'
<1>1. PICK f : f = [o \in Orders |-> ShareOf(o, side, l)]
  OBVIOUS
<1>2. PICK e : e = [o \in Orders |-> ShareOf(o, side, l)']
  OBVIOUS
<1>3. /\ \A o \in Orders : f[o] \in Int /\ e[o] \in Int
      /\ \A o \in Orders : f[o] = ShareOf(o, side, l) /\ e[o] = ShareOf(o, side, l)'
  BY <1>1, <1>2, ShareTypes, ShareTypesNext
<1>4. Shares(side, l) = Sum(f, Orders) /\ Shares(side, l)' = Sum(e, Orders)
  BY <1>1, <1>2 DEF Shares
<1>5. Sum(f, Orders) \in Int
  <2>1. \A o \in Orders : f[o] \in Int
    BY <1>3
  <2> QED
    BY <2>1, OrdersFinite, TakenSum
<1>6. /\ LockAt(side, l) \in Int /\ JobShare(side, l) \in Int
      /\ LockAt(side, l)' \in Int /\ JobShare(side, l)' \in Int
  BY LockTypes, LockTypesNext
<1>7. LockAt(side, l) = Sum(f, Orders) + JobShare(side, l)
  BY <1>4 DEF Exactly
<1>8. CASE /\ \A x \in Orders : ShareOf(x, side, l)' = ShareOf(x, side, l)
           /\ LockAt(side, l)' + JobShare(side, l) = LockAt(side, l) + JobShare(side, l)'
  <2>1. \A x \in Orders : f[x] = e[x]
    BY <1>3, <1>8
  <2>2. Sum(f, Orders) = Sum(e, Orders)
    BY <2>1, OrdersFinite, SameSum
  <2>3. LockAt(side, l)' = Sum(e, Orders) + JobShare(side, l)'
    BY <1>5, <1>6, <1>7, <1>8, <2>2
  <2> QED
    BY <1>4, <2>3 DEF Exactly
<1>9. ASSUME NEW y \in Orders,
             \A x \in Orders : x # y => ShareOf(x, side, l)' = ShareOf(x, side, l),
             LockAt(side, l)' + ShareOf(y, side, l) + JobShare(side, l)
               = LockAt(side, l) + ShareOf(y, side, l)' + JobShare(side, l)'
      PROVE  Exactly(side, l)'
  <2>1. \A x \in Orders : f[x] \in Int /\ e[x] \in Int
    BY <1>3
  <2>2. Sum(e, Orders) = Sum(f, Orders) - f[y] + e[y]
    <3>1. \A x \in Orders : x # y => e[x] = f[x]
      BY <1>3, <1>9
    <3>2. (\A x \in Orders : x # y => f[x] <= e[x]) /\ (\A x \in Orders : x # y => e[x] <= f[x])
      BY <2>1, <3>1
    <3>3. Sum(f, Orders) - f[y] + e[y] <= Sum(e, Orders) /\ Sum(e, Orders) \in Int
      BY <2>1, <3>2, OrdersFinite, GrownSum
    <3>4. Sum(e, Orders) - e[y] + f[y] <= Sum(f, Orders)
      BY <2>1, <3>2, OrdersFinite, GrownSum
    <3> QED
      BY <1>5, <2>1, <3>3, <3>4
  <2>3. f[y] = ShareOf(y, side, l) /\ e[y] = ShareOf(y, side, l)' /\ f[y] \in Int /\ e[y] \in Int
    BY <1>3
  <2>4. LockAt(side, l)' = Sum(e, Orders) + JobShare(side, l)'
    BY <1>5, <1>6, <1>7, <1>9, <2>2, <2>3
  <2> QED
    BY <1>4, <2>4 DEF Exactly
<1> QED
  BY <1>8, <1>9

(* An order nothing new is said of *)
Undisturbed(x) ==
  /\ book'[x] = book[x]
  /\ CancelIn(reports, x)' <=> CancelIn(reports, x)
  /\ RejectIn(reports, x)' <=> RejectIn(reports, x)
  /\ Announced(reports, x) => Announced(reports, x)'
  /\ Key(x) \in recorded' <=> Key(x) \in recorded
  /\ Key(x) \in lockInfo' <=> Key(x) \in lockInfo
  /\ Key(x) \in unlocked' <=> Key(x) \in unlocked

LEMMA UndisturbedOrder ==
  ASSUME NEW x \in Orders, Undisturbed(x)
  PROVE  /\ HeardOf(x) => HeardOf(x)'
         /\ \A side, l : ShareOf(x, side, l)' = ShareOf(x, side, l)
<1>1. /\ Key(x)' = Key(x) /\ (Over(x)' <=> Over(x)) /\ (Closing(x)' <=> Closing(x)) /\ (Booked(x)' <=> Booked(x))
      /\ SideOf(x)' = SideOf(x) /\ book'[x] = book[x]
  BY DEF Undisturbed, Key, Over, Closing, Exists, Booked, SideOf
<1>2. HeardOf(x) => HeardOf(x)'
  BY <1>1 DEF Undisturbed, HeardOf
<1>3. Share(x)' = Share(x)
  BY <1>1 DEF Undisturbed, Share
<1>4. \A side, l : OnSide(x, side, l)' <=> OnSide(x, side, l)
  BY <1>1 DEF OnSide
<1> QED
  BY <1>2, <1>3, <1>4 DEF ShareOf

-----------------------------------------------------------------------------
(* ... when the exchange takes a step                                      *)

HeardAll == \A o \in Orders : HeardOf(o)
ExactAll == \A side \in Sides, l \in Locks : Exactly(side, l)

LEMMA OneDisturbed ==
  ASSUME PosInv, PosInv', HeardAll, ExactAll, NEW o \in Orders, \A x \in Orders : x # o => Undisturbed(x),
         HeardOf(o)',
         \A side \in Sides, l \in Locks : LockAt(side, l)' + ShareOf(o, side, l) + JobShare(side, l)
                                            = LockAt(side, l) + ShareOf(o, side, l)' + JobShare(side, l)'
  PROVE  HeardAll' /\ ExactAll'
<1>1. HeardAll'
  <2>1. ASSUME NEW x \in Orders, x # o PROVE HeardOf(x)'
    BY <2>1, UndisturbedOrder DEF HeardAll
  <2> QED
    BY <2>1 DEF HeardAll
<1>2. ASSUME NEW side \in Sides, NEW l \in Locks PROVE Exactly(side, l)'
  <2>1. \A x \in Orders : o # x => ShareOf(x, side, l)' = ShareOf(x, side, l)
    BY UndisturbedOrder
  <2>2. Exactly(side, l)
    BY DEF ExactAll
  <2>3. LockAt(side, l)' + ShareOf(o, side, l) + JobShare(side, l)
          = LockAt(side, l) + ShareOf(o, side, l)' + JobShare(side, l)'
    OBVIOUS
  <2> QED
    BY <2>1, <2>2, <2>3, ExactStep
<1> QED
  BY <1>1, <1>2 DEF ExactAll

LEMMA NoneDisturbed ==
  ASSUME PosInv, PosInv', HeardAll, ExactAll, \A x \in Orders : Undisturbed(x),
         \A side \in Sides, l \in Locks : LockAt(side, l)' + JobShare(side, l) = LockAt(side, l) + JobShare(side, l)'
  PROVE  HeardAll' /\ ExactAll'
<1>1. HeardAll'
  BY UndisturbedOrder DEF HeardAll
<1>2. ASSUME NEW side \in Sides, NEW l \in Locks PROVE Exactly(side, l)'
  <2>1. \A x \in Orders : ShareOf(x, side, l)' = ShareOf(x, side, l)
    BY UndisturbedOrder
  <2>2. Exactly(side, l)
    BY DEF ExactAll
  <2>3. LockAt(side, l)' + JobShare(side, l) = LockAt(side, l) + JobShare(side, l)'
    OBVIOUS
  <2> QED
    BY <2>1, <2>2, <2>3, ExactStep
<1> QED
  BY <1>1, <1>2 DEF ExactAll

-----------------------------------------------------------------------------
(* The exchange: an order that was announced stays so *)
LEMMA AnnouncedKept ==
  ASSUME PosInv, stage = "ready",
         \/ \E o \in Orders : Accept(o) \/ Reject(o) \/ Trade(o) \/ Cancel(o)
         \/ \E o \in Foreign, direction \in Directions, offset \in Wishes \ {"auto"}, volume \in Volumes :
               OtherTerminal(o, direction, offset, volume)
  PROVE  \A x : Announced(reports, x) => Announced(reports, x)'
<1>1. reports \in Seq(Reports)
  BY DEF PosInv, PosTypeOK
<1>2. ASSUME reports' = reports PROVE \A x : Announced(reports, x) => Announced(reports, x)'
  BY <1>2 DEF Announced
<1>3. ASSUME NEW r \in Reports, reports' = Append(reports, r) PROVE \A x : Announced(reports, x) => Announced(reports', x)
  BY <1>1, <1>3, AppendAnnounced
<1>4. ASSUME NEW q \in Reports, NEW r \in Reports, reports' = Append(Append(reports, q), r)
      PROVE  \A x : Announced(reports, x) => Announced(reports', x)
  <2>1. PICK s \in Seq(Reports) : s = Append(reports, q)
    BY <1>1, AppendReport
  <2>2. \A x : Announced(reports, x) => Announced(s, x)
    BY <1>1, <2>1, AppendAnnounced
  <2>3. \A x : Announced(s, x) => Announced(reports', x)
    BY <1>4, <2>1, AppendAnnounced
  <2> QED
    BY <2>2, <2>3
<1>5. (\A x : Announced(reports, x) => Announced(reports', x))
        => \A x : Announced(reports, x) => Announced(reports, x)'
  BY DEF Announced
<1>6. ASSUME NEW o \in Orders, Accept(o) \/ Cancel(o) PROVE \E r \in Reports : reports' = Append(reports, r)
  BY <1>6, AcceptNews, CancelNews
<1>7. ASSUME NEW o \in Orders, Trade(o)
      PROVE  \E q \in Reports, r \in Reports : reports' = Append(Append(reports, q), r)
  BY <1>7, TradeNews
<1>8. ASSUME NEW o \in Orders, Reject(o) PROVE reports' = reports \/ \E r \in Reports : reports' = Append(reports, r)
  BY <1>8, RejectBook
<1>9. ASSUME NEW o \in Foreign, NEW direction \in Directions, NEW offset \in Wishes \ {"auto"},
             NEW volume \in Volumes, OtherTerminal(o, direction, offset, volume)
      PROVE  \E r \in Reports : reports' = Append(reports, r)
  BY <1>9, OtherNews
<1>10. \/ reports' = reports
       \/ \E r \in Reports : reports' = Append(reports, r)
       \/ \E q \in Reports, r \in Reports : reports' = Append(Append(reports, q), r)
  BY <1>6, <1>7, <1>8, <1>9
<1> QED
  BY <1>2, <1>3, <1>4, <1>5, <1>10

LEMMA OthersKept ==
  ASSUME NEW o \in Orders, UNCHANGED <<recorded, lockInfo, unlocked>>, \A x \in Orders : x # o => book'[x] = book[x],
         OnlyOf(o) \/ NoEnd, \A x : Announced(reports, x) => Announced(reports, x)'
  PROVE  \A x \in Orders : x # o => Undisturbed(x)
BY DEF OnlyOf, NoEnd, Undisturbed

LEMMA DecidedOrder ==
  ASSUME PosInv, PosInv', HeardAll, ExactAll, NEW o \in Orders, Booked(o), Frozen,
         book[o].state # "failed", book'[o].state # "failed", UNCHANGED <<engine, job>>, ~Over(o), ~Over(o)',
         \A x : Announced(reports, x) => Announced(reports, x)',
         \A x \in Orders : x # o => Undisturbed(x)
  PROVE  HeardAll' /\ ExactAll'
<1>1. /\ Booked(o)' /\ Key(o)' = Key(o) /\ book'[o].volume = book[o].volume /\ book'[o].offset = book[o].offset
      /\ \A side, l : OnSide(o, side, l)' <=> OnSide(o, side, l)
  BY SameSide
<1>2. UNCHANGED <<pos, recorded, lockInfo, unlocked, job>>
  BY DEF engine
<1>3. Closing(o)' <=> Closing(o)
  <2>1. book[o].state \in BookStates
    BY EntryTypes DEF Entries
  <2>2. book'[o].state \in BookStates
    BY <1>1 DEF PosInv, PosTypeOK, Entries
  <2> QED
    BY <1>1, <2>1, <2>2 DEF Closing, Exists, BookStates
<1>4. HeardOf(o)'
  BY <1>1, <1>2, <1>3 DEF HeardAll, HeardOf
<1>5. \A side, l : ShareOf(o, side, l)' = ShareOf(o, side, l)
  BY <1>1, <1>2 DEF ShareOf, Share
<1>6. \A side \in Sides, l \in Locks : LockAt(side, l)' = LockAt(side, l) /\ JobShare(side, l)' = JobShare(side, l)
  BY <1>2 DEF LockAt, JobShare, JobOn
<1>7. \A side \in Sides, l \in Locks : LockAt(side, l)' + ShareOf(o, side, l) + JobShare(side, l)
                                            = LockAt(side, l) + ShareOf(o, side, l)' + JobShare(side, l)'
  BY <1>5, <1>6
<1> QED
  BY <1>4, <1>7, OneDisturbed

LEMMA DecidedNext ==
  ASSUME PosInv, PosInv', HeardAll, ExactAll, stage = "ready", session = 0, NEW o \in Orders,
         Accept(o) \/ Reject(o) \/ Trade(o) \/ Cancel(o)
  PROVE  HeardAll' /\ ExactAll'
<1>1. \A x : Announced(reports, x) => Announced(reports, x)'
  BY AnnouncedKept
<1>2. UNCHANGED <<engine, job>>
  BY DEF Accept, Reject, Trade, Cancel
<1>3. OnlyOf(o) \/ NoEnd
  BY ExchangeNews
<1>4. reports \in Seq(Reports)
  BY DEF PosInv, PosTypeOK
<1>5. /\ Booked(o) /\ Frozen /\ book[o].state \in {"sent", "live"} /\ book'[o].state # "failed"
      /\ \A x \in Orders : x # o => book'[x] = book[x]
  BY AcceptBook, RejectBook, TradeBook, CancelBook
<1>6. ~Over(o)
  BY <1>5 DEF Over
<1>7. ASSUME NEW r \in Reports, reports' = Append(reports, r), r.order = o
      PROVE  /\ Cancels(r) => CancelIn(reports, o)'
             /\ r.type = "reject" => RejectIn(reports, o)'
  <2>1. /\ Cancels(r) => CancelIn(reports', o)
        /\ r.type = "reject" => RejectIn(reports', o)
    BY <1>4, <1>7, OneHeard
  <2> QED
    BY <2>1 DEF CancelIn, RejectIn
<1>8. ~Over(o)'
  <2>1. CASE Accept(o) \/ Trade(o)
    BY <2>1, AcceptBook, TradeBook DEF Over
  <2>2. CASE Cancel(o)
    <3>1. CancelIn(reports, o)'
      BY <1>7, <2>2, CancelNews
    <3> QED
      BY <2>2, <3>1, CancelBook DEF Over
  <2>3. CASE Reject(o)
    <3>1. book[o].session = session
      BY <1>5, EntryTypes
    <3>2. \/ book'[o].state = "rejected" /\ RejectIn(reports, o)'
          \/ book'[o].state = "cancelled" /\ CancelIn(reports, o)'
      BY <1>7, <2>3, <3>1, RejectBook
    <3> QED
      BY <3>2 DEF Over
  <2> QED
    BY <2>1, <2>2, <2>3
<1>9. \A x \in Orders : x # o => Undisturbed(x)
  BY <1>1, <1>2, <1>3, <1>5, OthersKept DEF engine
<1>10. book[o].state # "failed"
  BY <1>5
<1> QED
  BY <1>1, <1>2, <1>5, <1>6, <1>8, <1>9, <1>10, DecidedOrder

LEMMA OtherHeard ==
  ASSUME PosInv, PosInv', HeardAll, ExactAll, stage = "ready", NEW o \in Foreign, NEW direction \in Directions,
         NEW offset \in Wishes \ {"auto"}, NEW volume \in Volumes, OtherTerminal(o, direction, offset, volume)
  PROVE  HeardAll' /\ ExactAll'
<1>1. \A x : Announced(reports, x) => Announced(reports, x)'
  BY AnnouncedKept
<1>2. UNCHANGED <<pos, recorded, lockInfo, unlocked, job>> /\ NoEnd
  BY ExchangeNews DEF OtherTerminal, engine
<1>3. /\ o \in Orders /\ ~Booked(o) /\ book'[o].state = "live"
      /\ \A x \in Orders : x # o => book'[x] = book[x]
  BY OtherBook
<1>4. \A x \in Orders : x # o => Undisturbed(x)
  BY <1>1, <1>2, <1>3, OthersKept
<1>5. Key(o)' \notin recorded
  <2>1. job # Idle => job.order \in Own
    BY DEF PosInv, PosTypeOK, Jobs
  <2> QED
    BY <1>3, <2>1, OrdersAssumption DEF PosInv, KeysOK, KeyOK, Key
<1>6. Announced(reports, o)'
  <2>1. PICK r \in Reports : /\ r.type = "order" /\ r.state # "cancelled" /\ r.order = o
                             /\ reports' = Append(reports, r)
    BY OtherNews
  <2>2. ~CancelIn(reports, o)
    BY <1>3 DEF PosInv, ReportsOK, ReportOK, CancelIn
  <2>3. Announced(reports', o)
    BY <2>1, <2>2, AppendAnnounced DEF PosInv, PosTypeOK
  <2> QED
    BY <2>3 DEF Announced
<1>7. ~Over(o)'
  BY <1>3 DEF Over
<1>8. o \notin Own
  BY OrdersAssumption
<1>9. HeardOf(o)'
  BY <1>2, <1>5, <1>6, <1>7, <1>8 DEF HeardOf
<1>10. \A side, l : ShareOf(o, side, l)' = 0 /\ ShareOf(o, side, l) = 0
  BY <1>2, <1>3, <1>5 DEF ShareOf, Share, OnSide
<1>11. \A side \in Sides, l \in Locks : LockAt(side, l)' = LockAt(side, l) /\ JobShare(side, l)' = JobShare(side, l)
  BY <1>2 DEF LockAt, JobShare, JobOn
<1>12. \A side \in Sides, l \in Locks : LockAt(side, l)' + ShareOf(o, side, l) + JobShare(side, l)
                                            = LockAt(side, l) + ShareOf(o, side, l)' + JobShare(side, l)'
  BY <1>10, <1>11
<1> QED
  BY <1>3, <1>4, <1>9, <1>12, OneDisturbed

-----------------------------------------------------------------------------
(* ... when the listening thread does, or a report is handled              *)

(* The listening thread *)
LEMMA ListenerHeard ==
  ASSUME PosInv, PosInv', HeardAll, ExactAll, Calm, mishaps = {}, Listener
  PROVE  HeardAll' /\ ExactAll'
<1>1. \A side \in Sides, l \in Locks :
         /\ LockAt(side, l) \in Int /\ JobShare(side, l) \in Int
         /\ LockAt(side, l)' \in Int /\ JobShare(side, l)' \in Int
  BY LockTypes, LockTypesNext
<1>2. ASSUME UNCHANGED <<recorded, lockInfo, unlocked, reports, book>>
      PROVE  \A x \in Orders : Undisturbed(x)
  BY <1>2 DEF Undisturbed, CancelIn, RejectIn, Announced
<1>3. ASSUME NEW o \in Own, NEW direction \in Directions, NEW wish \in Wishes, NEW volume \in Volumes,
             Read(o, direction, wish, volume)
      PROVE  HeardAll' /\ ExactAll'
  <2>1. /\ SameLocks /\ UNCHANGED <<recorded, lockInfo, unlocked, reports, book>>
        /\ \A side \in Sides, l \in Locks : JobShare(side, l) = 0 /\ JobShare(side, l)' = 0
    BY <1>3, ReadShare
  <2>2. \A side \in Sides, l \in Locks : LockAt(side, l)' + JobShare(side, l) = LockAt(side, l) + JobShare(side, l)'
    BY <1>1, <2>1 DEF SameLocks
  <2> QED
    BY <1>2, <2>1, <2>2, NoneDisturbed
<1>4. CASE Lock
  <2>1. /\ UNCHANGED <<recorded, lockInfo, unlocked, reports, book>>
        /\ \A side \in Sides, l \in Locks : LockAt(side, l)' = LockAt(side, l) + JobShare(side, l)'
                                             /\ JobShare(side, l) = 0
    BY <1>4, LockShareStep
  <2>2. \A side \in Sides, l \in Locks : LockAt(side, l)' + JobShare(side, l) = LockAt(side, l) + JobShare(side, l)'
    BY <1>1, <2>1
  <2> QED
    BY <1>2, <2>1, <2>2, NoneDisturbed
<1>5. CASE Record
  <2>1. /\ SameLocks /\ UNCHANGED <<reports, book>>
        /\ \A side \in Sides, l \in Locks : JobShare(side, l)' = JobShare(side, l)
        /\ recorded' = recorded \cup {<<job.order, session>>} /\ lockInfo' = lockInfo \cup {<<job.order, session>>}
        /\ unlocked' = unlocked \ {<<job.order, session>>} /\ job \in Jobs
    BY <1>5, RecordShare
  <2>2. PICK o \in Orders : o = job.order /\ ~Booked(o)
    BY <1>5, <2>1 DEF PosInv, KeysOK, Record, Idle, Jobs, Orders
  <2>3. \A x \in Orders : x # o => Key(x) # <<job.order, session>>
    BY <2>2 DEF Key
  <2>4. \A x \in Orders : x # o => Undisturbed(x)
    BY <2>1, <2>3 DEF Undisturbed, CancelIn, RejectIn, Announced
  <2>5. ~Booked(o)'
    BY <2>1, <2>2 DEF Booked
  <2>6. HeardOf(o)' /\ \A side, l : ShareOf(o, side, l)' = 0 /\ ShareOf(o, side, l) = 0
    BY <2>2, <2>5 DEF HeardOf, ShareOf, OnSide
  <2>7. \A side \in Sides, l \in Locks : LockAt(side, l)' + ShareOf(o, side, l) + JobShare(side, l)
                                            = LockAt(side, l) + ShareOf(o, side, l)' + JobShare(side, l)'
    BY <1>1, <2>1, <2>6 DEF SameLocks
  <2> QED
    BY <2>4, <2>6, <2>7, OneDisturbed
<1>6. CASE Insert
  <2>1. PICK o \in Own :
           /\ o = job.order /\ job # Idle /\ job.pc = "record" /\ o \in Orders /\ ~Booked(o)
           /\ \A side \in Sides, l \in Locks :
                /\ JobShare(side, l)' = 0 /\ LockAt(side, l)' = LockAt(side, l)
                /\ JobShare(side, l) = IF OnSide(o, side, l)' THEN book'[o].volume ELSE 0
    BY <1>6, InsertShare
  <2>2. /\ Booked(o)' /\ book'[o].session = session /\ book'[o].state \in {"sent", "failed"}
        /\ \A x \in Orders : x # o => book'[x] = book[x]
        /\ UNCHANGED <<recorded, lockInfo, unlocked, reports>>
    BY <1>6, <2>1, InsertBook DEF engine
  <2>3. \A x \in Orders : x # o => Undisturbed(x)
    BY <2>2 DEF Undisturbed, CancelIn, RejectIn, Announced
  <2>4. Key(o)' = <<o, 0>> /\ <<o, 0>> \in recorded \cap lockInfo
    BY <2>1, <2>2 DEF Calm, Key
  <2>5. <<o, 0>> \notin unlocked
    BY <2>1 DEF PosInv, KeysOK
  <2>6. ~Over(o)'
    BY <2>2 DEF Over
  <2>7. HeardOf(o)'
    BY <2>2, <2>4, <2>5, <2>6 DEF HeardOf
  <2>8. ASSUME NEW side \in Sides, NEW l \in Locks
        PROVE  LockAt(side, l)' + ShareOf(o, side, l) + JobShare(side, l)
                 = LockAt(side, l) + ShareOf(o, side, l)' + JobShare(side, l)'
    <3>1. ShareOf(o, side, l) = 0
      BY <2>1 DEF ShareOf, OnSide
    <3>2. ShareOf(o, side, l)' = JobShare(side, l)
      BY <2>1, <2>2, <2>4, <2>6 DEF ShareOf, Share
    <3> QED
      BY <1>1, <2>1, <3>1, <3>2
  <2> QED
    BY <2>1, <2>3, <2>7, <2>8, OneDisturbed
<1> QED
  BY <1>3, <1>4, <1>5, <1>6 DEF Listener

-----------------------------------------------------------------------------
(* A report is handled: nothing is said of other orders. *)
LEMMA HandledOthers ==
  ASSUME PosInv, reports # << >>, reports' = Tail(reports), NEW o, o = Head(reports).order, UNCHANGED book,
         \A k : k # Key(o) => /\ k \in recorded' <=> k \in recorded
                              /\ k \in lockInfo' <=> k \in lockInfo
                              /\ k \in unlocked' <=> k \in unlocked
  PROVE  /\ \A x \in Orders : x # o => Undisturbed(x)
         /\ ~Ends(Head(reports)) => \A x : /\ CancelIn(reports, x)' <=> CancelIn(reports, x)
                                           /\ RejectIn(reports, x)' <=> RejectIn(reports, x)
<1>1. reports \in Seq(Reports) /\ OneEnd(reports)
  BY DEF PosInv, PosTypeOK, ReportsOK
<1>2. \A x : /\ CancelIn(reports, x)' <=> CancelIn(reports', x)
             /\ RejectIn(reports, x)' <=> RejectIn(reports', x)
             /\ Announced(reports, x)' <=> Announced(reports', x)
  BY DEF CancelIn, RejectIn, Announced
<1>3. \A x : /\ CancelIn(reports, x) <=> CancelIn(reports', x) \/ (Cancels(Head(reports)) /\ o = x)
             /\ RejectIn(reports, x) <=> RejectIn(reports', x) \/ (Head(reports).type = "reject" /\ o = x)
  BY <1>1, OneLess
<1>4. \A x : x # o /\ Announced(reports, x) => Announced(reports', x)
  BY <1>1, TailAnnounced
<1>5. ~Ends(Head(reports)) => \A x : /\ CancelIn(reports, x)' <=> CancelIn(reports, x)
                                     /\ RejectIn(reports, x)' <=> RejectIn(reports, x)
  BY <1>2, <1>3 DEF Ends
<1>6. ASSUME NEW x \in Orders, x # o PROVE Undisturbed(x)
  <2>1. Key(x) # Key(o)
    BY <1>6, KeysDiffer
  <2>2. CancelIn(reports, x)' <=> CancelIn(reports, x)
    BY <1>2, <1>3, <1>6
  <2>3. RejectIn(reports, x)' <=> RejectIn(reports, x)
    BY <1>2, <1>3, <1>6
  <2>4. Announced(reports, x) => Announced(reports, x)'
    BY <1>2, <1>4, <1>6
  <2> QED
    BY <2>1, <2>2, <2>3, <2>4 DEF Undisturbed
<1> QED
  BY <1>5, <1>6

LEMMA TradeHeard ==
  ASSUME PosInv, PosInv', HeardAll, ExactAll, OnRtnTrade
  PROVE  HeardAll' /\ ExactAll'
<1>1. PICK r \in Reports, o \in Orders :
           /\ r = Head(reports) /\ r.type = "trade" /\ o = r.order
           /\ reports # << >> /\ reports' = Tail(reports)
           /\ UNCHANGED <<recorded, lockInfo, unlocked, job, connection, exchange, mishaps>>
  BY RtnTradeStep
<1>2. SameLocks
  BY QueriesUntouched DEF Untouched
<1>3. UNCHANGED <<book, job>>
  BY <1>1 DEF exchange
<1>4. ~Ends(r)
  BY <1>1 DEF Ends, Cancels
<1>5. /\ \A x \in Orders : x # o => Undisturbed(x)
      /\ CancelIn(reports, o)' <=> CancelIn(reports, o)
      /\ RejectIn(reports, o)' <=> RejectIn(reports, o)
  BY <1>1, <1>3, <1>4, HandledOthers
<1>6. Announced(reports, o) => Announced(reports, o)'
  <2>1. Announced(reports, o) => Announced(reports', o)
    BY <1>1, TailAnnounced DEF PosInv, PosTypeOK
  <2> QED
    BY <2>1 DEF Announced
<1>7. Undisturbed(o)
  BY <1>1, <1>3, <1>5, <1>6 DEF Undisturbed
<1>8. \A side \in Sides, l \in Locks : LockAt(side, l)' + JobShare(side, l) = LockAt(side, l) + JobShare(side, l)'
  BY <1>2, <1>3 DEF SameLocks, JobShare, JobOn
<1> QED
  BY <1>5, <1>7, <1>8, NoneDisturbed

LEMMA RejectHeard ==
  ASSUME PosInv, PosInv', HeardAll, ExactAll, OnRspOrderInsert
  PROVE  HeardAll' /\ ExactAll'
<1>1. PICK r \in Reports, o \in Orders, s \in Sides, k \in Locks :
           /\ r = Head(reports) /\ r.type = "reject" /\ o = r.order /\ s = SideOf(o) /\ k = LockOf(book[o].offset)
           /\ reports # << >> /\ reports' = Tail(reports)
           /\ IF Closing(o) THEN AddLock(s, k, 0 - book[o].volume) ELSE UNCHANGED <<known, pos>>
           /\ UNCHANGED <<recorded, lockInfo, unlocked, job, connection, exchange, mishaps>>
  BY RspInsertStep
<1>2. UNCHANGED <<book, job>>
  BY <1>1 DEF exchange
<1>3. \A x \in Orders : x # o => Undisturbed(x)
  BY <1>1, <1>2, HandledOthers
<1>4. /\ Booked(o) /\ ReportOK(r) /\ r \in Elements(reports) /\ book[o].state = "rejected" /\ o \in Own
  BY <1>1, HeadReport DEF ReportOK
<1>5. /\ book[o].left = book[o].volume /\ book[o].volume \in Nat
      /\ book[o].offset # "open" <=> Closing(o)
  BY <1>4, EntryTypes DEF EntryOK, Closing, Exists
<1>6. RejectIn(reports, o) /\ ~RejectIn(reports, o)'
  <2>1. ~RejectIn(reports', o)
    BY <1>1, OneLess DEF PosInv, PosTypeOK, ReportsOK, Ends
  <2> QED
    BY <1>1, <1>4, <2>1 DEF RejectIn
<1>7. ~Over(o) /\ Over(o)'
  BY <1>2, <1>4, <1>6 DEF Over
<1>8. Key(o) \in recorded /\ Key(o)' = Key(o) /\ o \notin Foreign
  BY <1>2, <1>4, OrdersAssumption DEF HeardAll, HeardOf, Key
<1>9. HeardOf(o)'
  BY <1>1, <1>7, <1>8 DEF HeardOf
<1>10. ASSUME NEW side \in Sides, NEW l \in Locks
       PROVE  LockAt(side, l)' + ShareOf(o, side, l) + JobShare(side, l)
                 = LockAt(side, l) + ShareOf(o, side, l)' + JobShare(side, l)'
  <2>1. JobShare(side, l)' = JobShare(side, l) /\ JobShare(side, l) \in Int /\ LockAt(side, l) \in Int
    BY <1>2, LockTypes DEF JobShare, JobOn
  <2>2. OnSide(o, side, l)' <=> OnSide(o, side, l)
    BY <1>2 DEF OnSide, Booked, SideOf
  <2>3. ShareOf(o, side, l)' = 0
    BY <1>2, <1>5, <1>7, <1>8 DEF ShareOf, Share
  <2>4. ShareOf(o, side, l) = IF OnSide(o, side, l) THEN book[o].volume ELSE 0
    BY <1>7, <1>8 DEF ShareOf, Share
  <2>5. CASE Closing(o)
    <3>1. PICK n \in Int : n = 0 - book[o].volume
      BY <1>5
    <3>2. LockAt(side, l)' = IF side = s /\ l = k THEN LockAt(side, l) + n ELSE LockAt(side, l)
      BY <1>1, <2>5, <3>1, MovedLocks
    <3>3. OnSide(o, side, l) <=> side = s /\ l = k
      BY <1>1, <1>4, <1>5, <2>5 DEF OnSide
    <3> QED
      BY <1>5, <2>1, <2>3, <2>4, <3>1, <3>2, <3>3
  <2>6. CASE ~Closing(o)
    <3>1. LockAt(side, l)' = LockAt(side, l)
      BY <1>1, <2>6 DEF LockAt
    <3>2. ~OnSide(o, side, l)
      BY <1>5, <2>6 DEF OnSide
    <3> QED
      BY <2>1, <2>3, <2>4, <3>1, <3>2
  <2> QED
    BY <2>5, <2>6
<1> QED
  BY <1>3, <1>9, <1>10, OneDisturbed

-----------------------------------------------------------------------------
(* ... and when OnRtnOrder is called                                       *)

LEMMA OrderHeard ==
  ASSUME PosInv, PosInv', HeardAll, ExactAll, OnRtnOrder
  PROVE  HeardAll' /\ ExactAll'
<1>1. PICK r \in OrderReports, o \in Orders, s \in Sides, k \in Locks :
           /\ r = Head(reports) /\ o = r.order /\ s = SideOf(o) /\ k = LockOf(book[o].offset)
           /\ reports # << >> /\ reports' = Tail(reports) /\ recorded' = recorded \cup {Key(o)}
           /\ UNCHANGED <<job, connection, exchange, mishaps>>
           /\ \/ /\ Closing(o) /\ Key(o) \notin recorded /\ ~Cancels(r)
                 /\ AddLock(s, k, book[o].volume)
                 /\ lockInfo' = lockInfo \cup {Key(o)} /\ unlocked' = unlocked \ {Key(o)}
              \/ /\ Closing(o) /\ Key(o) \in recorded /\ Cancels(r) /\ Key(o) \in lockInfo \ unlocked
                 /\ AddLock(s, k, 0 - r.left)
                 /\ lockInfo' = lockInfo /\ unlocked' = unlocked \cup {Key(o)}
              \/ /\ \/ ~Closing(o)
                    \/ Key(o) \notin recorded /\ Cancels(r)
                    \/ Key(o) \in recorded /\ (Cancels(r) => Key(o) \notin lockInfo \ unlocked)
                 /\ UNCHANGED <<known, pos, lockInfo, unlocked>>
  BY RtnOrderStep
<1>2. UNCHANGED <<book, job>> /\ Key(o)' = Key(o)
  BY <1>1 DEF exchange, Key
<1>3. \A x : x # Key(o) => /\ x \in recorded' <=> x \in recorded
                           /\ x \in lockInfo' <=> x \in lockInfo
                           /\ x \in unlocked' <=> x \in unlocked
  BY <1>1
<1>4. /\ \A x \in Orders : x # o => Undisturbed(x)
      /\ ~Ends(r) => \A x : /\ CancelIn(reports, x)' <=> CancelIn(reports, x)
                            /\ RejectIn(reports, x)' <=> RejectIn(reports, x)
  BY <1>1, <1>2, <1>3, HandledOthers
<1>5. /\ Booked(o) /\ ReportOK(r) /\ r \in Elements(reports) /\ r.left \in Nat
      /\ book[o].state \notin {"sent", "failed"}
  BY <1>1, HeadReport DEF ReportOK, OrderReports
<1>6. /\ book[o].left \in Nat /\ book[o].volume \in Nat /\ book[o].left <= book[o].volume
      /\ book[o].offset # "open" <=> Closing(o)
      /\ o \in Foreign => book[o].state # "rejected"
  <2>1. book[o].state \in BookStates
    BY <1>5, EntryTypes DEF Entries
  <2> QED
    BY <1>5, <2>1, EntryTypes DEF EntryOK, Closing, Exists, BookStates
<1>7. Ends(r) <=> Cancels(r)
  BY DEF OrderReports, Ends
<1>8. HeardOf(o) /\ (o \in Foreign => o \notin Own) /\ o \in Own \cup Foreign
  BY OrdersAssumption DEF HeardAll, Orders
<1>9. /\ \A side, l : OnSide(o, side, l)' <=> OnSide(o, side, l)
      /\ Closing(o)' <=> Closing(o)
  BY <1>2 DEF OnSide, Booked, SideOf, Closing, Exists
<1>10. ~Cancels(r) => (Over(o)' <=> Over(o))
  BY <1>2, <1>4, <1>7 DEF Over
<1>11. Cancels(r) => ~Over(o) /\ Over(o)' /\ book[o].state = "cancelled" /\ r.left = book[o].left
  <2>1. ASSUME Cancels(r) PROVE ~CancelIn(reports', o)
    BY <1>1, <1>7, <2>1, OneLess DEF PosInv, PosTypeOK, ReportsOK
  <2>2. ASSUME Cancels(r) PROVE CancelIn(reports, o) /\ book[o].state = "cancelled" /\ r.left = book[o].left
    BY <1>1, <1>5, <2>2 DEF CancelIn, ReportOK
  <2> QED
    BY <1>2, <2>1, <2>2 DEF Over, CancelIn
<1>12. Key(o) \notin recorded => ~Cancels(r)
  <2>1. Key(o) \notin recorded => Announced(reports, o)
    BY <1>5, <1>8 DEF HeardOf
  <2> QED
    BY <1>1, <2>1, TailAnnounced DEF PosInv, PosTypeOK
<1>13. \A side \in Sides, l \in Locks :
          /\ JobShare(side, l)' = JobShare(side, l) /\ JobShare(side, l) \in Int /\ LockAt(side, l) \in Int
  BY <1>2, LockTypes DEF JobShare, JobOn
<1>14. Key(o) \in recorded'
  BY <1>1
<1>15. ASSUME Closing(o), NEW n \in Int, AddLock(s, k, n)
       PROVE  \A side \in Sides, l \in Locks :
                 LockAt(side, l)' = IF OnSide(o, side, l) THEN LockAt(side, l) + n ELSE LockAt(side, l)
  <2>1. \A side \in Sides, l \in Locks :
           LockAt(side, l)' = IF side = s /\ l = k THEN LockAt(side, l) + n ELSE LockAt(side, l)
    BY <1>15, MovedLocks
  <2>2. \A side, l : OnSide(o, side, l) <=> side = s /\ l = k
    BY <1>1, <1>5, <1>6, <1>15 DEF OnSide
  <2> QED
    BY <2>1, <2>2
<1>16. CASE /\ Closing(o) /\ Key(o) \notin recorded /\ ~Cancels(r)
            /\ AddLock(s, k, book[o].volume)
            /\ lockInfo' = lockInfo \cup {Key(o)} /\ unlocked' = unlocked \ {Key(o)}
  <2>1. o \in Foreign /\ ~Over(o) /\ ~Over(o)'
    BY <1>5, <1>8, <1>10, <1>16 DEF HeardOf
  <2>2. HeardOf(o)'
    BY <1>2, <1>8, <1>14, <1>16, <2>1 DEF HeardOf
  <2>3. ASSUME NEW side \in Sides, NEW l \in Locks
        PROVE  LockAt(side, l)' + ShareOf(o, side, l) + JobShare(side, l)
                 = LockAt(side, l) + ShareOf(o, side, l)' + JobShare(side, l)'
    <3>1. ShareOf(o, side, l) = 0
      BY <1>16, <2>1 DEF ShareOf, Share
    <3>2. ShareOf(o, side, l)' = IF OnSide(o, side, l) THEN book[o].volume ELSE 0
      BY <1>2, <1>9, <1>14, <2>1 DEF ShareOf, Share
    <3>3. PICK n \in Int : n = book[o].volume
      BY <1>6
    <3>4. LockAt(side, l)' = IF OnSide(o, side, l) THEN LockAt(side, l) + n ELSE LockAt(side, l)
      BY <1>15, <1>16, <3>3
    <3> QED
      BY <1>13, <3>1, <3>2, <3>3, <3>4
  <2> QED
    BY <1>4, <2>2, <2>3, OneDisturbed
<1>17. CASE /\ Closing(o) /\ Key(o) \in recorded /\ Cancels(r) /\ Key(o) \in lockInfo \ unlocked
            /\ AddLock(s, k, 0 - r.left)
            /\ lockInfo' = lockInfo /\ unlocked' = unlocked \cup {Key(o)}
  <2>1. ~Over(o) /\ Over(o)' /\ r.left = book[o].left
    BY <1>11, <1>17
  <2>2. HeardOf(o)'
    BY <1>2, <1>14, <2>1 DEF HeardOf
  <2>3. ASSUME NEW side \in Sides, NEW l \in Locks
        PROVE  LockAt(side, l)' + ShareOf(o, side, l) + JobShare(side, l)
                 = LockAt(side, l) + ShareOf(o, side, l)' + JobShare(side, l)'
    <3>1. ShareOf(o, side, l) = IF OnSide(o, side, l) THEN book[o].volume ELSE 0
      BY <1>17, <2>1 DEF ShareOf, Share
    <3>2. ShareOf(o, side, l)' = IF OnSide(o, side, l) THEN book[o].volume - book[o].left ELSE 0
      BY <1>2, <1>9, <1>14, <2>1 DEF ShareOf, Share
    <3>3. PICK n \in Int : n = 0 - r.left
      BY <1>5
    <3>4. LockAt(side, l)' = IF OnSide(o, side, l) THEN LockAt(side, l) + n ELSE LockAt(side, l)
      BY <1>15, <1>17, <3>3
    <3> QED
      BY <1>6, <1>13, <2>1, <3>1, <3>2, <3>3, <3>4
  <2> QED
    BY <1>4, <2>2, <2>3, OneDisturbed
<1>18. CASE /\ \/ ~Closing(o)
               \/ Key(o) \notin recorded /\ Cancels(r)
               \/ Key(o) \in recorded /\ (Cancels(r) => Key(o) \notin lockInfo \ unlocked)
            /\ UNCHANGED <<known, pos, lockInfo, unlocked>>
  <2>1. ~Closing(o) \/ (Key(o) \in recorded /\ ~Cancels(r))
    <3>1. Closing(o) /\ Key(o) \in recorded /\ Cancels(r) => Key(o) \in lockInfo \ unlocked
      BY <1>5, <1>8, <1>11 DEF HeardOf
    <3> QED
      BY <1>12, <1>18, <3>1
  <2>2. HeardOf(o)'
    <3>1. CASE ~Closing(o)
      BY <1>2, <1>9, <1>14, <3>1 DEF HeardOf
    <3>2. CASE Closing(o) /\ Key(o) \in recorded /\ ~Cancels(r)
      <4>1. Over(o) \/ Key(o) \in lockInfo \ unlocked
        BY <1>5, <1>8, <3>2 DEF HeardOf
      <4>2. Over(o)' \/ Key(o)' \in lockInfo' \ unlocked'
        BY <1>2, <1>10, <1>18, <3>2, <4>1
      <4> QED
        BY <1>2, <1>14, <4>2 DEF HeardOf
    <3> QED
      BY <2>1, <3>1, <3>2
  <2>3. \A side, l : ShareOf(o, side, l)' = ShareOf(o, side, l)
    <3>1. CASE ~Closing(o)
      <4>1. \A side, l : ~OnSide(o, side, l)
        BY <1>6, <3>1 DEF OnSide
      <4> QED
        BY <1>9, <4>1 DEF ShareOf
    <3>2. CASE Key(o) \in recorded /\ ~Cancels(r)
      <4>1. Share(o)' = Share(o)
        BY <1>2, <1>10, <1>14, <3>2 DEF Share
      <4> QED
        BY <1>9, <4>1 DEF ShareOf
    <3> QED
      BY <2>1, <3>1, <3>2
  <2>4. \A side \in Sides, l \in Locks : LockAt(side, l)' + ShareOf(o, side, l) + JobShare(side, l)
                                            = LockAt(side, l) + ShareOf(o, side, l)' + JobShare(side, l)'
    BY <1>13, <1>18, <2>3 DEF LockAt
  <2> QED
    BY <1>4, <2>2, <2>4, OneDisturbed
<1> QED
  BY <1>1, <1>16, <1>17, <1>18

LEMMA HeardNext ==
  ASSUME PosInv, PosInv', Calm, HeardInv, ExactInv, [PosNext]_posVars
  PROVE  HeardInv' /\ ExactInv'
<1> SUFFICES ASSUME mishaps' = {} PROVE HeardAll' /\ ExactAll'
  BY DEF HeardInv, ExactInv, HeardAll, ExactAll
<1>1. mishaps = {} /\ stage = "ready" /\ session = 0 /\ CalmSteps
  BY CalmNext
<1>2. HeardAll /\ ExactAll
  BY <1>1 DEF HeardInv, ExactInv, HeardAll, ExactAll
<1>3. CASE UNCHANGED posVars
  <2>1. UNCHANGED <<pos, recorded, lockInfo, unlocked, job, reports, book>>
    BY <1>3 DEF posVars, engine, exchange
  <2>2. \A x \in Orders : Undisturbed(x)
    BY <2>1 DEF Undisturbed, CancelIn, RejectIn, Announced
  <2>3. \A side \in Sides, l \in Locks : LockAt(side, l)' + JobShare(side, l) = LockAt(side, l) + JobShare(side, l)'
    BY <2>1 DEF LockAt, JobShare, JobOn
  <2> QED
    BY <1>2, <2>2, <2>3, NoneDisturbed
<1>4. ASSUME NEW o \in Orders, Accept(o) \/ Reject(o) \/ Trade(o) \/ Cancel(o) PROVE HeardAll' /\ ExactAll'
  BY <1>1, <1>2, <1>4, DecidedNext
<1>5. ASSUME NEW o \in Foreign, NEW direction \in Directions, NEW offset \in Wishes \ {"auto"},
             NEW volume \in Volumes, OtherTerminal(o, direction, offset, volume)
      PROVE  HeardAll' /\ ExactAll'
  BY <1>1, <1>2, <1>5, OtherHeard
<1>6. CASE Listener
  BY <1>1, <1>2, <1>6, ListenerHeard
<1>7. CASE OnRtnOrder \/ OnRtnTrade \/ OnRspOrderInsert
  BY <1>2, <1>7, OrderHeard, TradeHeard, RejectHeard
<1> QED
  BY <1>1, <1>3, <1>4, <1>5, <1>6, <1>7 DEF CalmSteps

LEMMA HeardInit == PosInit => Calm /\ HeardInv /\ ExactInv
<1> SUFFICES ASSUME PosInit PROVE Calm /\ HeardInv /\ ExactInv
  OBVIOUS
<1>1. /\ job = Idle /\ stage = "ready" /\ session = 0 /\ answer = << >> /\ book = [o \in Orders |-> NotPlaced]
      /\ pos = [side \in Sides |-> [EmptyPos EXCEPT !.yesterday = Yesterday[side]]]
  BY DEF PosInit
<1>2. \A o \in Orders : ~Booked(o)
  BY <1>1 DEF Booked
<1>3. Calm /\ HeardInv
  BY <1>1, <1>2 DEF Calm, HeardInv, HeardOf
<1>4. ASSUME NEW side \in Sides, NEW l \in Locks PROVE Exactly(side, l)
  <2>1. LockAt(side, l) = 0 /\ JobShare(side, l) = 0
    BY <1>1 DEF LockAt, EmptyPos, JobShare, JobOn
  <2>2. PICK e : e = [o \in Orders |-> ShareOf(o, side, l)]
    OBVIOUS
  <2>3. \A o \in Orders : e[o] = 0
    BY <1>2, <2>2 DEF ShareOf, OnSide
  <2>4. Sum(e, Orders) = 0
    BY <2>3, OrdersFinite, ZeroSum
  <2> QED
    BY <2>1, <2>2, <2>4 DEF Exactly, Shares
<1> QED
  BY <1>3, <1>4 DEF ExactInv

-----------------------------------------------------------------------------
(* What is locked when nothing is under way                                *)

-----------------------------------------------------------------------------
(* When nothing is under way, the locks are what has been traded.  *)
LEMMA NoneLeft == ASSUME PosInv, HeardInv, ExactInv PROVE NoLockLeft
<1> SUFFICES ASSUME mishaps = {}, job = Idle, reports = << >>, \A o \in Orders : book[o].state \notin {"sent", "live"},
                    NEW side \in Sides, NEW l \in Locks
    PROVE  LockAt(side, l) = Traded(ClosingOn(side, l)) + Unsent(side, l)
  BY DEF NoLockLeft, NeverDisconnected, LockAt
<1>1. LockAt(side, l) = Shares(side, l) /\ JobShare(side, l) = 0
  <2>1. JobShare(side, l) = 0
    BY DEF JobShare, JobOn
  <2>2. Exactly(side, l)
    BY DEF ExactInv
  <2>3. Shares(side, l) \in Int
    <3>1. PICK f : f = [o \in Orders |-> ShareOf(o, side, l)]
      OBVIOUS
    <3>2. \A o \in Orders : f[o] \in Int
      BY <3>1, ShareTypes
    <3> QED
      BY <3>1, <3>2, OrdersFinite, TakenSum DEF Shares
  <2> QED
    BY <2>1, <2>2, <2>3 DEF Exactly
<1>2. PICK S \in SUBSET Orders : S = ClosingOn(side, l)
  BY DEF ClosingOn
<1>3. PICK U \in SUBSET Orders : U = {o \in Orders : /\ book[o].state = "failed" /\ book[o].offset # "open"
                                                     /\ SideOf(o) = side /\ LockOf(book[o].offset) = l}
  OBVIOUS
<1>4. PICK f : f = [o \in Orders |-> ShareOf(o, side, l)]
  OBVIOUS
<1>5. PICK g : g = [o \in Orders |-> IF o \in S THEN book[o].volume - book[o].left ELSE 0]
  OBVIOUS
<1>6. PICK h : h = [o \in Orders |-> IF o \in U THEN book[o].volume ELSE 0]
  OBVIOUS
<1>7. ASSUME NEW o \in Orders
      PROVE  /\ f[o] \in Int /\ g[o] \in Int /\ h[o] \in Int /\ f[o] = g[o] + h[o]
             /\ o \in S => book[o].volume - book[o].left \in Int
             /\ o \in U => book[o].volume \in Int
  <2>1. o \in S <=> Closing(o) /\ SideOf(o) = side /\ LockOf(book[o].offset) = l
    BY <1>2 DEF ClosingOn
  <2>2. o \in U <=> book[o].state = "failed" /\ book[o].offset # "open" /\ SideOf(o) = side /\ LockOf(book[o].offset) = l
    BY <1>3
  <2>3. CASE ~Booked(o)
    <3>1. o \notin S /\ o \notin U
      BY <2>1, <2>2, <2>3 DEF Booked, Closing, Exists, NotPlaced
    <3>2. f[o] = 0
      BY <1>4, <2>3 DEF ShareOf, OnSide
    <3> QED
      BY <1>5, <1>6, <3>1, <3>2
  <2>4. CASE Booked(o) /\ ~OnSide(o, side, l)
    <3>1. o \notin S /\ o \notin U
      BY <2>1, <2>2, <2>4 DEF Closing, OnSide
    <3>2. f[o] = 0
      BY <1>4, <2>4 DEF ShareOf
    <3> QED
      BY <1>5, <1>6, <3>1, <3>2
  <2>5. CASE OnSide(o, side, l)
    <3>1. /\ Booked(o) /\ book[o].volume \in Nat /\ book[o].left \in Nat /\ book[o].offset # "open" /\ EntryOK(o)
          /\ book[o].state \in {"cancelled", "rejected", "done", "failed"}
      BY <2>5, EntryTypes DEF OnSide, Entries, BookStates
    <3>2. Key(o) \in recorded
      <4>1. ~Announced(reports, o)
        BY DEF Announced
      <4> QED
        BY <3>1, <4>1 DEF HeardInv, HeardOf
    <3>3. ~CancelIn(reports, o) /\ ~RejectIn(reports, o)
      BY DEF CancelIn, RejectIn, Elements
    <3>4. f[o] = IF book[o].state \in {"cancelled", "rejected"} THEN book[o].volume - book[o].left ELSE book[o].volume
      BY <1>4, <2>5, <3>2, <3>3 DEF ShareOf, Share, Over
    <3>5. o \in S <=> book[o].state # "failed"
      BY <2>1, <2>5, <3>1 DEF OnSide, Closing, Exists
    <3>6. o \in U <=> book[o].state = "failed"
      BY <2>2, <2>5, <3>1 DEF OnSide
    <3>7. book[o].state = "done" => book[o].left = 0
      BY <3>1 DEF EntryOK
    <3>8. CASE book[o].state = "failed"
      BY <1>5, <1>6, <3>1, <3>4, <3>5, <3>6, <3>8
    <3>9. CASE book[o].state = "done"
      BY <1>5, <1>6, <3>1, <3>4, <3>5, <3>6, <3>7, <3>9
    <3>10. CASE book[o].state \in {"cancelled", "rejected"}
      BY <1>5, <1>6, <3>1, <3>4, <3>5, <3>6, <3>10
    <3> QED
      BY <3>1, <3>8, <3>9, <3>10
  <2> QED
    BY <2>3, <2>4, <2>5
<1>8. Sum(f, Orders) = Sum(g, Orders) + Sum(h, Orders)
  BY <1>7, OrdersFinite, PairedSums
<1>9. Traded(S) = Sum(g, Orders)
  <2>1. \A o \in S : book[o].volume - book[o].left \in Int
    BY <1>7
  <2>2. \A o \in Orders : g[o] = IF o \in S THEN book[o].volume - book[o].left ELSE 0
    BY <1>5
  <2> QED
    BY <2>1, <2>2, TradedOver
<1>10. MapThenSumSet(LAMBDA o : book[o].volume, U) = Sum(h, Orders)
  <2>1. \A o \in U : book[o].volume \in Int
    BY <1>7
  <2>2. \A o \in Orders : h[o] = IF o \in U THEN book[o].volume ELSE 0
    BY <1>6
  <2> QED
    BY <2>1, <2>2, VolumeOver
<1>11. Unsent(side, l) = Sum(h, Orders)
  BY <1>3, <1>10 DEF Unsent
<1>12. Shares(side, l) = Sum(f, Orders)
  BY <1>4 DEF Shares
<1> QED
  BY <1>1, <1>2, <1>8, <1>9, <1>11, <1>12

-----------------------------------------------------------------------------
(* What the engine has counted was opened, but for reports to come.        *)

(* What the engine has counted is what has been opened, but for the trades *)
(* still to be reported.                                                    *)
Openers(side) == {o \in Orders : OpensOn(o, side)}
Counts(side) == pos[side].today + TradesOf(reports, Openers(side)) = Opened(side)
CountAll ==
  /\ known \/ "auto" \notin Wishes
  /\ \A side \in Sides : pos[side].yesterday = Yesterday[side] /\ Counts(side)
CountInv == mishaps = {} => CountAll

SameCounts ==
  /\ known => known'
  /\ \A side \in Sides : pos'[side].today = pos[side].today /\ pos'[side].yesterday = pos[side].yesterday

LEMMA SameTrades ==
  ASSUME NEW s \in Seq(Reports), NEW T, NEW U, \A r \in Elements(s) : r.order \in T <=> r.order \in U
  PROVE  TradesOf(s, T) = TradesOf(s, U)
<1>1. IsFiniteSet(DOMAIN s)
  BY ReportsSeq
<1>2. PICK f : f = TradeOf(s, T)
  OBVIOUS
<1>3. PICK e : e = TradeOf(s, U)
  OBVIOUS
<1>4. ASSUME NEW i \in DOMAIN s PROVE f[i] = e[i]
  <2>1. s[i] \in Elements(s)
    BY DEF Elements
  <2>2. s[i].order \in T <=> s[i].order \in U
    BY <2>1
  <2> QED
    BY <1>2, <1>3, <2>2 DEF TradeOf
<1>5. Sum(f, DOMAIN s) = Sum(e, DOMAIN s)
  BY <1>1, <1>4, SameSum
<1> QED
  BY <1>2, <1>3, <1>5 DEF TradesOf

LEMMA SameOpeners ==
  ASSUME PosInv, Frozen, NEW side
  PROVE  /\ TradesOf(reports, Openers(side)') = TradesOf(reports, Openers(side))
         /\ TradesOf(reports, Openers(side)) \in Int
         /\ TradesOf(reports, Openers(side))' = TradesOf(reports', Openers(side)')
<1>1. reports \in Seq(Reports)
  BY DEF PosInv, PosTypeOK
<1>2. PICK T : T = Openers(side)
  OBVIOUS
<1>3. PICK U : U = Openers(side)'
  OBVIOUS
<1>4. ASSUME NEW r \in Elements(reports) PROVE r.order \in T <=> r.order \in U
  <2>1. r \in Reports
    BY <1>1, ReportsSeq
  <2>2. r.order \in Orders
    BY <2>1 DEF Reports, OrderReports
  <2>3. Booked(r.order)
    BY DEF PosInv, ReportsOK, ReportOK
  <2>4. OpensOn(r.order, side)' <=> OpensOn(r.order, side)
    BY <2>2, <2>3, SameSide
  <2> QED
    BY <1>2, <1>3, <2>2, <2>4 DEF Openers
<1>5. TradesOf(reports, T) = TradesOf(reports, U)
  BY <1>1, <1>4, SameTrades
<1>6. TradesOf(reports, T) \in Int
  BY <1>1, TradesAreInt
<1>7. TradesOf(reports, Openers(side))' = TradesOf(reports', Openers(side)')
  BY DEF TradesOf, TradeOf
<1> QED
  BY <1>2, <1>3, <1>5, <1>6, <1>7

(* A step that changes neither what was opened nor what was counted, nor   *)
(* the trades still to be reported *)
LEMMA CountKept ==
  ASSUME PosInv, PosInv', CountAll, Frozen, SameTraded, SameCounts,
         \A T : TradesOf(reports', T) = TradesOf(reports, T)
  PROVE  CountAll'
<1> SUFFICES ASSUME NEW side \in Sides PROVE Counts(side)'
  BY DEF CountAll, SameCounts
<1>1. Opened(side)' = Opened(side)
  BY NothingTraded
<1>2. /\ TradesOf(reports, Openers(side)') = TradesOf(reports, Openers(side))
      /\ TradesOf(reports, Openers(side))' = TradesOf(reports', Openers(side)')
  BY SameOpeners
<1>3. TradesOf(reports, Openers(side))' = TradesOf(reports, Openers(side))
  BY <1>2
<1>4. pos[side].today + TradesOf(reports, Openers(side)) = Opened(side)
  BY DEF CountAll, Counts
<1>5. pos'[side].today = pos[side].today
  BY DEF SameCounts
<1> QED
  BY <1>1, <1>3, <1>4, <1>5 DEF Counts

LEMMA TradeCounted ==
  ASSUME PosInv, PosInv', CountAll, stage = "ready", NEW o \in Orders, Trade(o)
  PROVE  CountAll'
<1>1. Booked(o) /\ Frozen /\ UNCHANGED <<known, pos>>
  BY TradeBook DEF engine
<1> SUFFICES ASSUME NEW side \in Sides PROVE Counts(side)'
  BY <1>1 DEF CountAll
<1>2. Opened(side)' = Opened(side) + (IF OpensOn(o, side) THEN 1 ELSE 0)
  BY OneTraded, Kinds DEF Locks
<1>3. PICK T : T = Openers(side)'
  OBVIOUS
<1>4. /\ TradesOf(reports, T) = TradesOf(reports, Openers(side)) /\ TradesOf(reports, T) \in Int
      /\ TradesOf(reports, Openers(side))' = TradesOf(reports', T)
  BY <1>1, <1>3, SameOpeners
<1>5. o \in T <=> OpensOn(o, side)
  <2>1. OpensOn(o, side)' <=> OpensOn(o, side)
    BY <1>1, SameSide
  <2> QED
    BY <1>3, <2>1 DEF Openers
<1>6. PICK q \in Reports, r \in Reports :
           /\ q.type = "order" /\ q.state # "cancelled" /\ q.order = o /\ r.type = "trade" /\ r.order = o
           /\ reports' = Append(Append(reports, q), r)
  BY TradeNews
<1>7. reports \in Seq(Reports)
  BY DEF PosInv, PosTypeOK
<1>8. PICK s \in Seq(Reports) : s = Append(reports, q)
  BY <1>7, AppendReport
<1>9. TradesOf(s, T) = TradesOf(reports, T)
  <2>1. TradesOf(s, T) = TradesOf(reports, T) + (IF q.type = "trade" /\ q.order \in T THEN 1 ELSE 0)
    BY <1>7, <1>8, AppendTrades
  <2> QED
    BY <1>4, <1>6, <2>1
<1>10. TradesOf(reports', T) = TradesOf(s, T) + (IF o \in T THEN 1 ELSE 0)
  <2>1. TradesOf(Append(s, r), T) = TradesOf(s, T) + (IF r.type = "trade" /\ r.order \in T THEN 1 ELSE 0)
    BY AppendTrades
  <2> QED
    BY <1>6, <1>8, <2>1
<1>11. pos[side].today + TradesOf(reports, T) = Opened(side)
  BY <1>4 DEF CountAll, Counts
<1>12. pos[side].today \in Int
  BY DEF PosInv, PosTypeOK, Details
<1>13. pos[side].today + TradesOf(reports', T) = Opened(side)'
  BY <1>2, <1>4, <1>5, <1>9, <1>10, <1>11, <1>12
<1> QED
  BY <1>1, <1>4, <1>13 DEF Counts

(* A report is handled that is not of a trade ... *)
LEMMA HandledTrades ==
  ASSUME PosInv, reports # << >>, reports' = Tail(reports), Head(reports).type # "trade"
  PROVE  \A T : TradesOf(reports', T) = TradesOf(reports, T)
<1> SUFFICES ASSUME NEW T PROVE TradesOf(reports', T) = TradesOf(reports, T)
  OBVIOUS
<1>1. reports \in Seq(Reports)
  BY DEF PosInv, PosTypeOK
<1>2. PICK s \in Seq(Reports) : s = Tail(reports)
  BY <1>1, TailReport
<1>3. TradesOf(reports, T) = TradesOf(s, T) + (IF Head(reports).type = "trade" /\ Head(reports).order \in T THEN 1 ELSE 0)
  BY <1>1, <1>2, TailTrades
<1>4. TradesOf(s, T) \in Int
  BY TradesAreInt
<1> QED
  BY <1>2, <1>3, <1>4

(* ... or that is. *)
LEMMA RtnTradeCounted ==
  ASSUME PosInv, PosInv', CountAll, OnRtnTrade
  PROVE  CountAll'
<1>1. PICK r \in Reports, o \in Orders, s \in Sides :
           /\ r = Head(reports) /\ r.type = "trade" /\ o = r.order /\ s = SideOf(o)
           /\ reports # << >> /\ reports' = Tail(reports)
           /\ IF Closing(o) THEN known' = TRUE /\ UNCHANGED pos ELSE AddToday(s, 1)
           /\ UNCHANGED <<recorded, lockInfo, unlocked, job, connection, exchange, mishaps>>
  BY RtnTradeStep
<1>2. UNCHANGED book /\ Frozen /\ SameTraded
  BY <1>1, SameBook DEF exchange, SameTraded, Booked
<1>3. Booked(o) /\ (Closing(o) <=> book[o].offset # "open")
  <2>1. Booked(o) /\ book[o].state \notin {"sent", "failed"}
    BY <1>1, HeadReport DEF ReportOK
  <2>2. book[o].state \in BookStates
    BY <2>1, EntryTypes DEF Entries
  <2> QED
    BY <2>1, <2>2 DEF Closing, Exists, BookStates
<1>4. PICK n \in Int : n = 1
  OBVIOUS
<1>5. pos \in Details
  BY DEF PosInv, PosTypeOK
<1>6. /\ known'
      /\ \A side \in Sides :
           /\ pos'[side].today = IF OpensOn(o, side) THEN pos[side].today + 1 ELSE pos[side].today
           /\ pos'[side].yesterday = pos[side].yesterday
  <2>1. \A side : OpensOn(o, side) <=> ~Closing(o) /\ side = s
    BY <1>1, <1>3 DEF OpensOn
  <2>2. CASE Closing(o)
    BY <1>1, <2>1, <2>2
  <2>3. CASE ~Closing(o)
    <3>1. AddToday(s, n)
      BY <1>1, <1>4, <2>3
    <3>2. \A side \in Sides :
           /\ pos'[side].today = IF side = s THEN pos[side].today + n ELSE pos[side].today
           /\ pos'[side].yesterday = pos[side].yesterday
      BY <1>5, <3>1, Counted
    <3>3. known' = TRUE
      BY <3>1 DEF AddToday
    <3> QED
      BY <1>4, <2>1, <2>3, <3>2, <3>3
  <2> QED
    BY <2>2, <2>3
<1> SUFFICES ASSUME NEW side \in Sides PROVE Counts(side)'
  BY <1>6 DEF CountAll
<1>7. Opened(side)' = Opened(side)
  BY <1>2, NothingTraded
<1>8. PICK T : T = Openers(side)'
  OBVIOUS
<1>9. /\ TradesOf(reports, T) = TradesOf(reports, Openers(side)) /\ TradesOf(reports, T) \in Int
      /\ TradesOf(reports, Openers(side))' = TradesOf(reports', T)
  BY <1>2, <1>8, SameOpeners
<1>10. o \in T <=> OpensOn(o, side)
  <2>1. OpensOn(o, side)' <=> OpensOn(o, side)
    BY <1>2, <1>3, SameSide
  <2> QED
    BY <1>8, <2>1 DEF Openers
<1>11. reports \in Seq(Reports)
  BY DEF PosInv, PosTypeOK
<1>12. PICK t \in Seq(Reports) : t = Tail(reports)
  BY <1>1, <1>11, TailReport
<1>13. TradesOf(reports, T) = TradesOf(t, T) + (IF o \in T THEN 1 ELSE 0) /\ TradesOf(t, T) \in Int
  <2>1. TradesOf(reports, T) = TradesOf(t, T) + (IF Head(reports).type = "trade" /\ Head(reports).order \in T THEN 1 ELSE 0)
    BY <1>1, <1>11, <1>12, TailTrades
  <2>2. TradesOf(t, T) \in Int
    BY TradesAreInt
  <2> QED
    BY <1>1, <2>1, <2>2
<1>14. pos[side].today + TradesOf(reports, T) = Opened(side) /\ pos[side].today \in Int
  BY <1>5, <1>9 DEF CountAll, Counts, Details
<1>15. pos'[side].today + TradesOf(reports', T) = Opened(side)'
  BY <1>1, <1>6, <1>7, <1>10, <1>12, <1>13, <1>14
<1> QED
  BY <1>9, <1>15 DEF Counts

-----------------------------------------------------------------------------
(* ... whatever the step                                                   *)

(* A report that is added and is not of a trade *)
LEMMA OtherReports ==
  ASSUME PosInv, reports' = reports \/ \E r \in Reports : r.type # "trade" /\ reports' = Append(reports, r)
  PROVE  \A T : TradesOf(reports', T) = TradesOf(reports, T)
<1> SUFFICES ASSUME NEW r \in Reports, r.type # "trade", reports' = Append(reports, r), NEW T
    PROVE  TradesOf(reports', T) = TradesOf(reports, T)
  OBVIOUS
<1>1. reports \in Seq(Reports)
  BY DEF PosInv, PosTypeOK
<1>2. TradesOf(Append(reports, r), T) = TradesOf(reports, T) + (IF r.type = "trade" /\ r.order \in T THEN 1 ELSE 0)
  BY <1>1, AppendTrades
<1>3. TradesOf(reports, T) \in Int
  BY <1>1, TradesAreInt
<1> QED
  BY <1>2, <1>3

LEMMA LockedCounts ==
  ASSUME PosInv, NEW side \in Sides, NEW l \in Locks, NEW n \in Int, AddLock(side, l, n)
  PROVE  SameCounts
<1>1. pos \in Details
  BY DEF PosInv, PosTypeOK
<1>2. /\ known'
      /\ \A s \in Sides : pos'[s].today = pos[s].today /\ pos'[s].yesterday = pos[s].yesterday
  BY <1>1, Locked
<1> QED
  BY <1>2 DEF SameCounts

LEMMA ListenerCounts ==
  ASSUME PosInv, CountAll, Listener
  PROVE  SameCounts /\ UNCHANGED reports
<1>1. ASSUME NEW o \in Own, NEW direction \in Directions, NEW wish \in Wishes, NEW volume \in Volumes,
             Read(o, direction, wish, volume)
      PROVE  SameCounts /\ UNCHANGED reports
  <2>1. ~(wish = "auto" /\ ~known)
    BY DEF CountAll
  <2>2. UNCHANGED <<known, pos, reports>>
    BY <1>1, <2>1, Zenon DEF Read
  <2> QED
    BY <2>2 DEF SameCounts
<1>2. CASE Lock
  <2>1. UNCHANGED reports
    BY <1>2 DEF Lock
  <2>2. CASE job.offset = "open"
    BY <1>2, <2>1, <2>2 DEF Lock, SameCounts
  <2>3. CASE job.offset # "open"
    <3>1. PICK side, l, n : /\ side = PositionDirection(job.direction, job.offset) /\ l = LockOf(job.offset)
                            /\ n = job.volume
      OBVIOUS
    <3>2. AddLock(side, l, n)
      BY <1>2, <2>3, <3>1 DEF Lock
    <3>3. side \in Sides /\ l \in Locks
      BY <3>1, Kinds
    <3>4. n \in Int
      <4>1. job \in Jobs
        BY <1>2, LockPos
      <4> QED
        BY <3>1, <4>1 DEF Jobs
    <3> QED
      BY <2>1, <3>2, <3>3, <3>4, LockedCounts
  <2> QED
    BY <2>2, <2>3
<1>3. CASE Record
  BY <1>3 DEF Record, SameCounts
<1>4. CASE Insert
  BY <1>4, InsertPos DEF engine, SameCounts
<1> QED
  BY <1>1, <1>2, <1>3, <1>4 DEF Listener

LEMMA RtnOrderCounts ==
  ASSUME PosInv, OnRtnOrder
  PROVE  SameCounts /\ UNCHANGED book /\ reports # << >> /\ reports' = Tail(reports) /\ Head(reports).type # "trade"
<1>1. PICK r \in OrderReports, o \in Orders, side \in Sides, l \in Locks :
           /\ r = Head(reports)
           /\ reports # << >> /\ reports' = Tail(reports) /\ o = r.order
           /\ UNCHANGED <<job, connection, exchange, mishaps>>
           /\ \/ Closing(o) /\ AddLock(side, l, book[o].volume)
              \/ Closing(o) /\ AddLock(side, l, 0 - r.left)
              \/ UNCHANGED <<known, pos>>
  <2>1. PICK r \in OrderReports, o \in Orders, side \in Sides, l \in Locks :
           /\ r = Head(reports) /\ o = r.order
           /\ reports # << >> /\ reports' = Tail(reports)
           /\ UNCHANGED <<job, connection, exchange, mishaps>>
           /\ \/ /\ Closing(o) /\ Key(o) \notin recorded /\ ~Cancels(r)
                 /\ AddLock(side, l, book[o].volume)
                 /\ lockInfo' = lockInfo \cup {Key(o)} /\ unlocked' = unlocked \ {Key(o)}
              \/ /\ Closing(o) /\ Key(o) \in recorded /\ Cancels(r) /\ Key(o) \in lockInfo \ unlocked
                 /\ AddLock(side, l, 0 - r.left)
                 /\ lockInfo' = lockInfo /\ unlocked' = unlocked \cup {Key(o)}
              \/ /\ \/ ~Closing(o)
                    \/ Key(o) \notin recorded /\ Cancels(r)
                    \/ Key(o) \in recorded /\ (Cancels(r) => Key(o) \notin lockInfo \ unlocked)
                 /\ UNCHANGED <<known, pos, lockInfo, unlocked>>
    BY RtnOrderStep, Zenon
  <2> QED
    BY <2>1, Zenon
<1>2. book[o].volume \in Int /\ 0 - r.left \in Int /\ r.type # "trade"
  <2>1. book[o] \in Entries
    BY <1>1, HeadReport
  <2> QED
    BY <2>1 DEF Entries, OrderReports
<1>3. SameCounts
  <2>1. CASE AddLock(side, l, book[o].volume)
    BY <1>2, <2>1, LockedCounts
  <2>2. CASE AddLock(side, l, 0 - r.left)
    BY <1>2, <2>2, LockedCounts
  <2>3. CASE UNCHANGED <<known, pos>>
    BY <2>3 DEF SameCounts
  <2> QED
    BY <1>1, <2>1, <2>2, <2>3
<1> QED
  BY <1>1, <1>2, <1>3 DEF exchange

LEMMA RspInsertCounts ==
  ASSUME PosInv, OnRspOrderInsert
  PROVE  SameCounts /\ UNCHANGED book /\ reports # << >> /\ reports' = Tail(reports) /\ Head(reports).type # "trade"
<1>1. PICK r \in Reports, o \in Orders, side \in Sides, l \in Locks :
           /\ r = Head(reports) /\ r.type = "reject" /\ o = r.order /\ side = SideOf(o) /\ l = LockOf(book[o].offset)
           /\ reports # << >> /\ reports' = Tail(reports)
           /\ IF Closing(o) THEN AddLock(side, l, 0 - book[o].volume) ELSE UNCHANGED <<known, pos>>
           /\ UNCHANGED <<recorded, lockInfo, unlocked, job, connection, exchange, mishaps>>
  BY RspInsertStep
<1>2. 0 - book[o].volume \in Int
  <2>1. book[o] \in Entries
    BY <1>1, HeadReport
  <2> QED
    BY <2>1 DEF Entries
<1>3. SameCounts
  <2>1. CASE AddLock(side, l, 0 - book[o].volume)
    BY <1>2, <2>1, LockedCounts
  <2>2. CASE UNCHANGED <<known, pos>>
    BY <2>2 DEF SameCounts
  <2> QED
    BY <1>1, <2>1, <2>2
<1> QED
  BY <1>1, <1>3 DEF exchange

(* A step of the exchange that is no trade *)
LEMMA ExchangeCounts ==
  ASSUME PosInv, stage = "ready",
         \/ \E o \in Orders : Accept(o) \/ Reject(o) \/ Cancel(o)
         \/ \E o \in Foreign, direction \in Directions, offset \in Wishes \ {"auto"}, volume \in Volumes :
               OtherTerminal(o, direction, offset, volume)
  PROVE  SameCounts /\ \A T : TradesOf(reports', T) = TradesOf(reports, T)
<1>1. SUFFICES SameCounts /\ (reports' = reports \/ \E r \in Reports : r.type # "trade" /\ reports' = Append(reports, r))
  BY OtherReports
<1>2. \A r : Cancels(r) => r.type # "trade"
  BY DEF Cancels
<1>3. ASSUME NEW o \in Orders, Accept(o)
      PROVE  SameCounts /\ \E r \in Reports : r.type # "trade" /\ reports' = Append(reports, r)
  <2>1. \E r \in Reports : r.type # "trade" /\ reports' = Append(reports, r)
    BY <1>3, AcceptNews
  <2> QED
    BY <1>3, <2>1 DEF Accept, engine, SameCounts
<1>4. ASSUME NEW o \in Orders, Cancel(o)
      PROVE  SameCounts /\ \E r \in Reports : r.type # "trade" /\ reports' = Append(reports, r)
  <2>1. \E r \in Reports : r.type # "trade" /\ reports' = Append(reports, r)
    BY <1>2, <1>4, CancelNews
  <2> QED
    BY <1>4, <2>1 DEF Cancel, engine, SameCounts
<1>5. ASSUME NEW o \in Orders, Reject(o)
      PROVE  /\ SameCounts
             /\ reports' = reports \/ \E r \in Reports : r.type # "trade" /\ reports' = Append(reports, r)
  <2>1. reports' = reports \/ \E r \in Reports : r.type # "trade" /\ reports' = Append(reports, r)
    BY <1>2, <1>5, RejectBook
  <2> QED
    BY <1>5, <2>1 DEF Reject, engine, SameCounts
<1>6. ASSUME NEW o \in Foreign, NEW direction \in Directions, NEW offset \in Wishes \ {"auto"},
             NEW volume \in Volumes, OtherTerminal(o, direction, offset, volume)
      PROVE  SameCounts /\ \E r \in Reports : r.type # "trade" /\ reports' = Append(reports, r)
  <2>1. \E r \in Reports : r.type # "trade" /\ reports' = Append(reports, r)
    BY <1>6, OtherNews
  <2> QED
    BY <1>6, <2>1 DEF OtherTerminal, engine, SameCounts
<1> QED
  BY <1>3, <1>4, <1>5, <1>6

LEMMA CountNext ==
  ASSUME PosInv, PosInv', Calm, CountInv, [PosNext]_posVars
  PROVE  CountInv'
<1> SUFFICES ASSUME mishaps' = {} PROVE CountAll'
  BY DEF CountInv
<1>1. mishaps = {} /\ stage = "ready" /\ CalmSteps
  BY CalmNext
<1>2. CountAll
  BY <1>1 DEF CountInv
<1>3. Frozen /\ (SameTraded \/ \E o \in Orders : Trade(o))
  BY BookSteps
<1>4. CASE \E o \in Orders : Trade(o)
  BY <1>1, <1>2, <1>4, TradeCounted
<1>5. CASE OnRtnTrade
  BY <1>2, <1>5, RtnTradeCounted
<1>6. ASSUME SameTraded, SameCounts, \A T : TradesOf(reports', T) = TradesOf(reports, T) PROVE CountAll'
  BY <1>2, <1>3, <1>6, CountKept
<1>7. ASSUME SameTraded, Listener PROVE CountAll'
  BY <1>2, <1>6, <1>7, ListenerCounts
<1>8. ASSUME SameTraded, OnRtnOrder PROVE CountAll'
  BY <1>6, <1>8, RtnOrderCounts, HandledTrades
<1>9. ASSUME SameTraded, OnRspOrderInsert PROVE CountAll'
  BY <1>6, <1>9, RspInsertCounts, HandledTrades
<1>10. ASSUME SameTraded,
              \/ \E o \in Orders : Accept(o) \/ Reject(o) \/ Cancel(o)
              \/ \E o \in Foreign, direction \in Directions, offset \in Wishes \ {"auto"}, volume \in Volumes :
                    OtherTerminal(o, direction, offset, volume)
       PROVE  CountAll'
  BY <1>1, <1>6, <1>10, ExchangeCounts
<1>11. ASSUME SameTraded, UNCHANGED posVars PROVE CountAll'
  BY <1>6, <1>11 DEF posVars, engine, SameCounts
<1> QED
  BY <1>1, <1>3, <1>4, <1>5, <1>7, <1>8, <1>9, <1>10, <1>11 DEF CalmSteps

(* Of an account without an entry nothing is counted but by mistake        *)
(* (TDPosManage::autoOffset).                                              *)
Entered == "auto" \notin Wishes \/ \E side \in Sides : Yesterday[side] > 0

LEMMA CountInit == ASSUME Entered, PosInit PROVE CountInv
<1>1. known \/ "auto" \notin Wishes
  BY DEF Entered, PosInit
<1> SUFFICES ASSUME NEW side \in Sides PROVE pos[side].yesterday = Yesterday[side] /\ Counts(side)
  BY <1>1 DEF CountInv, CountAll
<1>2. pos[side].yesterday = Yesterday[side] /\ pos[side].today = 0
  BY DEF PosInit, EmptyPos
<1>3. TradesOf(reports, Openers(side)) = 0
  BY NoReports DEF PosInit
<1>4. Opened(side) = 0
  <2>1. PICK f : f = [o \in Orders |-> OpenedOf(o, side)]
    OBVIOUS
  <2>2. \A o \in Orders : f[o] = 0
    BY <2>1 DEF OpenedOf, OpensOn, Booked, PosInit
  <2>3. Sum(f, Orders) = 0
    BY <2>2, OrdersFinite, ZeroSum
  <2> QED
    BY <2>1, <2>3 DEF Opened
<1> QED
  BY <1>2, <1>3, <1>4 DEF Counts

-----------------------------------------------------------------------------
(* What autoOffset takes for closable                                      *)

LEMMA NoFewerTrades ==
  ASSUME NEW s \in Seq(Reports), NEW T
  PROVE  TradesOf(s, T) >= 0
<1>1. IsFiniteSet(DOMAIN s)
  BY ReportsSeq
<1>2. PICK f : f = TradeOf(s, T)
  OBVIOUS
<1>3. PICK e : e = [i \in DOMAIN s |-> 0]
  OBVIOUS
<1>4. \A i \in DOMAIN s : e[i] \in Int /\ f[i] \in Int /\ e[i] <= f[i]
  BY <1>2, <1>3 DEF TradeOf
<1>5. Sum(e, DOMAIN s) <= Sum(f, DOMAIN s)
  BY <1>1, <1>4, OrderedSums
<1>6. \A i \in DOMAIN s : e[i] = 0
  BY <1>3
<1>7. Sum(e, DOMAIN s) = 0
  BY <1>1, <1>6, ZeroSum
<1>8. TradesOf(s, T) \in Int
  BY TradesAreInt
<1> QED
  BY <1>2, <1>5, <1>7, <1>8 DEF TradesOf

LEMMA SharesAreInt ==
  ASSUME PosInv, NEW side \in Sides, NEW l \in Locks
  PROVE  Shares(side, l) \in Int
<1>1. PICK f : f = [o \in Orders |-> ShareOf(o, side, l)]
  OBVIOUS
<1>2. \A o \in Orders : f[o] \in Int
  BY <1>1, ShareTypes
<1> QED
  BY <1>1, <1>2, OrdersFinite, TakenSum DEF Shares

(* What there was and has been opened: what all closings can take *)
Stock(side, l) == Start(side, l) + (IF l = OpenedPart THEN Opened(side) ELSE 0)

LEMMA StockTypes ==
  ASSUME PosInv, NEW side \in Sides, NEW l \in Locks
  PROVE  Stock(side, l) \in Int
<1>1. Opened(side) \in Int
  BY TradedTypes DEF TradedTyped
<1> QED
  BY <1>1, YesterdayAssumption DEF Stock, Start

LEMMA StockTypesNext == PosInv' => (\A side \in Sides, l \in Locks : Stock(side, l) \in Int)'
<1>1. PosInv => \A side \in Sides, l \in Locks : Stock(side, l) \in Int
  BY StockTypes
<1> QED
  BY <1>1, PTL

(* What autoOffset looks at is never more than the locks leave of it.  *)
LEMMA ClosableParts ==
  ASSUME PosInv, CountAll, ExactAll, NEW side \in Sides, NEW offset \in Offsets \ {"open"},
         LockOf(offset) = "today" => SplitsToday
  PROVE  /\ Available(side, LockOf(offset)) \in Int
         /\ Available(side, LockOf(offset)) + Shares(side, LockOf(offset)) + JobShare(side, LockOf(offset))
              <= Stock(side, LockOf(offset))
<1>1. PICK l \in Locks : l = LockOf(offset)
  BY Kinds
<1>2. LockAt(side, l) = Shares(side, l) + JobShare(side, l)
  BY DEF ExactAll, Exactly
<1>3. pos[side].yesterday = Yesterday[side] /\ pos[side].today + TradesOf(reports, Openers(side)) = Opened(side)
  BY DEF CountAll, Counts
<1>4. reports \in Seq(Reports) /\ pos[side].today \in Int /\ pos[side].yesterday \in Int
  BY DEF PosInv, PosTypeOK, Details
<1>5. TradesOf(reports, Openers(side)) \in Int /\ TradesOf(reports, Openers(side)) >= 0
  BY <1>4, TradesAreInt, NoFewerTrades
<1>6. Shares(side, l) \in Int /\ JobShare(side, l) \in Int /\ LockAt(side, l) \in Int /\ Opened(side) \in Int
  BY SharesAreInt, LockTypes, TradedTypes DEF TradedTyped
<1>7. pos[side].today <= Opened(side)
  BY <1>3, <1>4, <1>5, <1>6
<1>8. /\ l = "close" => Available(side, l) = pos[side].yesterday + pos[side].today - LockAt(side, l)
      /\ l = "today" => Available(side, l) = pos[side].today - LockAt(side, l)
      /\ l = "yesterday" => Available(side, l) = pos[side].yesterday - LockAt(side, l)
  BY DEF Available, LockAt
<1>9. CASE l = "close"
  <2>1. ~SplitsToday
    BY <1>1, <1>9, SplitsAssumption DEF LockOf
  <2>2. Stock(side, l) = pos[side].yesterday + Opened(side)
    BY <1>3, <1>9, <2>1 DEF Stock, Start, OpenedPart
  <2>3. Available(side, l) = pos[side].yesterday + pos[side].today - LockAt(side, l)
    BY <1>8, <1>9
  <2> QED
    BY <1>1, <1>2, <1>4, <1>6, <1>7, <2>2, <2>3
<1>10. CASE l = "today"
  <2>1. SplitsToday
    BY <1>1, <1>10
  <2>2. Stock(side, l) = Opened(side)
    BY <1>6, <1>10, <2>1 DEF Stock, Start, OpenedPart
  <2>3. Available(side, l) = pos[side].today - LockAt(side, l)
    BY <1>8, <1>10
  <2> QED
    BY <1>1, <1>2, <1>4, <1>6, <1>7, <2>2, <2>3
<1>11. CASE l = "yesterday"
  <2>1. SplitsToday
    BY <1>1, <1>11, SplitsAssumption DEF LockOf
  <2>2. Stock(side, l) = pos[side].yesterday
    BY <1>3, <1>4, <1>11, <2>1 DEF Stock, Start, OpenedPart
  <2>3. Available(side, l) = pos[side].yesterday - LockAt(side, l)
    BY <1>8, <1>11
  <2> QED
    BY <1>1, <1>2, <1>4, <1>6, <2>2, <2>3
<1> QED
  BY <1>9, <1>10, <1>11 DEF Locks

-----------------------------------------------------------------------------
(* What the orders of the engine have traded and may still trade *)
EngagedOf(o, side, l) ==
  IF o \in Own /\ OnSide(o, side, l)
  THEN IF book[o].state \in {"sent", "live"} THEN book[o].volume ELSE book[o].volume - book[o].left
  ELSE 0
Engaged(side, l) == Sum([o \in Orders |-> EngagedOf(o, side, l)], Orders)

LEMMA EngagedTypes ==
  PosInv => \A side \in Sides, l \in Locks :
               /\ \A o \in Orders : /\ EngagedOf(o, side, l) \in Nat
                                    /\ Booked(o) => EngagedOf(o, side, l) <= book[o].volume
               /\ Engaged(side, l) \in Int
<1> SUFFICES ASSUME PosInv, NEW side \in Sides, NEW l \in Locks
    PROVE  /\ \A o \in Orders : /\ EngagedOf(o, side, l) \in Nat
                                /\ Booked(o) => EngagedOf(o, side, l) <= book[o].volume
           /\ Engaged(side, l) \in Int
  OBVIOUS
<1>1. ASSUME NEW o \in Orders
      PROVE  EngagedOf(o, side, l) \in Nat /\ (Booked(o) => EngagedOf(o, side, l) <= book[o].volume)
  <2>1. CASE Booked(o)
    <3>1. book[o].volume \in Nat /\ book[o].left \in Nat /\ book[o].left <= book[o].volume
      BY <2>1, EntryTypes
    <3> QED
      BY <3>1 DEF EngagedOf
  <2>2. CASE ~Booked(o)
    BY <2>2 DEF EngagedOf, OnSide
  <2> QED
    BY <2>1, <2>2
<1>2. PICK f : f = [o \in Orders |-> EngagedOf(o, side, l)]
  OBVIOUS
<1>3. \A o \in Orders : f[o] \in Int
  BY <1>1, <1>2
<1>4. Sum(f, Orders) \in Int
  BY <1>3, OrdersFinite, TakenSum
<1> QED
  BY <1>1, <1>2, <1>4 DEF Engaged

LEMMA EngagedTypesNext ==
  PosInv' => (\A side \in Sides, l \in Locks :
               /\ \A o \in Orders : /\ EngagedOf(o, side, l) \in Nat
                                    /\ Booked(o) => EngagedOf(o, side, l) <= book[o].volume
               /\ Engaged(side, l) \in Int)'
BY EngagedTypes, PTL

(* The engine's orders take no more but by ReqOrderInsert ... *)
LEMMA EngagedFalls ==
  ASSUME PosInv, PosInv', CalmSteps, ~Insert, NEW side \in Sides, NEW l \in Locks
  PROVE  Engaged(side, l)' <= Engaged(side, l)
<1>1. ASSUME NEW x \in Orders, book'[x] = book[x] PROVE EngagedOf(x, side, l)' = EngagedOf(x, side, l)
  BY <1>1 DEF EngagedOf, OnSide, Booked, SideOf
<1>2. ASSUME NEW o \in Orders, Booked(o), book[o].state \in {"sent", "live"}, Frozen
      PROVE  EngagedOf(o, side, l)' <= EngagedOf(o, side, l)
  <2>1. /\ Booked(o)' /\ book'[o].volume = book[o].volume /\ (OnSide(o, side, l)' <=> OnSide(o, side, l))
    BY <1>2, SameSide
  <2>2. /\ EngagedOf(o, side, l)' \in Nat /\ EngagedOf(o, side, l)' <= book'[o].volume
        /\ EngagedOf(o, side, l) \in Nat
    BY <2>1, EngagedTypes, EngagedTypesNext
  <2>3. CASE o \in Own /\ OnSide(o, side, l)
    BY <1>2, <2>1, <2>2, <2>3 DEF EngagedOf
  <2>4. CASE ~(o \in Own /\ OnSide(o, side, l))
    BY <2>1, <2>2, <2>4 DEF EngagedOf
  <2> QED
    BY <2>3, <2>4
<1>3. \A x \in Orders : EngagedOf(x, side, l)' <= EngagedOf(x, side, l)
  <2>1. \A x \in Orders : EngagedOf(x, side, l)' \in Int /\ EngagedOf(x, side, l) \in Int
    BY EngagedTypes, EngagedTypesNext
  <2>2. CASE UNCHANGED book
    BY <1>1, <2>1, <2>2
  <2>3. ASSUME NEW o \in Orders, Accept(o) \/ Reject(o) \/ Trade(o) \/ Cancel(o)
        PROVE  \A x \in Orders : EngagedOf(x, side, l)' <= EngagedOf(x, side, l)
    <3>1. /\ Booked(o) /\ book[o].state \in {"sent", "live"} /\ Frozen
          /\ \A x \in Orders : x # o => book'[x] = book[x]
      BY <2>3, AcceptBook, RejectBook, TradeBook, CancelBook
    <3> QED
      BY <1>1, <1>2, <2>1, <3>1
  <2>4. ASSUME NEW o \in Foreign, NEW direction \in Directions, NEW offset \in Wishes \ {"auto"},
               NEW volume \in Volumes, OtherTerminal(o, direction, offset, volume)
        PROVE  \A x \in Orders : EngagedOf(x, side, l)' <= EngagedOf(x, side, l)
    <3>1. \A x \in Orders : x # o => book'[x] = book[x]
      BY <2>4, OtherBook
    <3>2. o \in Orders /\ EngagedOf(o, side, l)' = 0 /\ EngagedOf(o, side, l) = 0
      BY OrdersAssumption DEF Orders, EngagedOf
    <3> QED
      BY <1>1, <2>1, <3>1, <3>2
  <2>5. CASE Listener
    BY <2>2, <2>5 DEF Listener, Read, Lock, Record, exchange
  <2>6. CASE OnRtnOrder \/ OnRtnTrade \/ OnRspOrderInsert \/ UNCHANGED posVars
    BY <2>2, <2>6 DEF OnRtnOrder, OnRtnTrade, OnRspOrderInsert, posVars, exchange
  <2> QED
    BY <2>3, <2>4, <2>5, <2>6 DEF CalmSteps
<1>4. PICK f : f = [o \in Orders |-> EngagedOf(o, side, l)]
  OBVIOUS
<1>5. PICK e : e = [o \in Orders |-> EngagedOf(o, side, l)']
  OBVIOUS
<1>6. \A x \in Orders : e[x] \in Int /\ f[x] \in Int /\ e[x] <= f[x]
  BY <1>3, <1>4, <1>5, EngagedTypes, EngagedTypesNext
<1>7. Sum(e, Orders) <= Sum(f, Orders)
  BY <1>6, OrdersFinite, OrderedSums
<1> QED
  BY <1>4, <1>5, <1>7 DEF Engaged

(* ... and the stock does not fall. *)
LEMMA StockGrows ==
  ASSUME PosInv, PosInv', [PosNext]_posVars, NEW side \in Sides, NEW l \in Locks
  PROVE  Stock(side, l) <= Stock(side, l)'
<1>1. Opened(side) \in Int /\ Opened(side)' \in Int
  BY TradedTypes, TradedTypesNext DEF TradedTyped
<1>2. Opened(side) <= Opened(side)'
  <2>1. CASE SameTraded
    BY <1>1, <2>1, BookSteps, NothingTraded
  <2>2. ASSUME NEW o \in Orders, Trade(o) PROVE Opened(side) <= Opened(side)'
    <3>1. Opened(side)' = Opened(side) + (IF OpensOn(o, side) THEN 1 ELSE 0)
      BY <2>2, OneTraded
    <3> QED
      BY <1>1, <3>1
  <2> QED
    BY <2>1, <2>2, BookSteps
<1> QED
  BY <1>1, <1>2, YesterdayAssumption DEF Stock, Start, OpenedPart

-----------------------------------------------------------------------------
(* An order autoOffset has chosen to close with                            *)

(* The job of an order autoOffset has chosen to close with *)
ChosenJob == job # Idle /\ job.chosen /\ job.offset # "open"
JobSide == PositionDirection(job.direction, job.offset)
JobLock == LockOf(job.offset)
ChosenInv ==
  mishaps = {} /\ ChosenJob => job.volume + Engaged(JobSide, JobLock) <= Stock(JobSide, JobLock)

(* What orders of the engine take is locked. *)
LEMMA EngagedLocked ==
  ASSUME PosInv, HeardAll, NEW side \in Sides, NEW l \in Locks
  PROVE  Engaged(side, l) <= Shares(side, l)
<1>1. PICK f : f = [o \in Orders |-> EngagedOf(o, side, l)]
  OBVIOUS
<1>2. PICK e : e = [o \in Orders |-> ShareOf(o, side, l)]
  OBVIOUS
<1>3. ASSUME NEW o \in Orders PROVE f[o] \in Int /\ e[o] \in Int /\ f[o] <= e[o]
  <2>1. /\ f[o] = EngagedOf(o, side, l) /\ e[o] = ShareOf(o, side, l)
        /\ EngagedOf(o, side, l) \in Nat /\ ShareOf(o, side, l) \in Nat
    BY <1>1, <1>2, EngagedTypes, ShareTypes
  <2>2. CASE o \in Own /\ OnSide(o, side, l)
    <3>1. Booked(o) /\ book[o].volume \in Nat /\ book[o].left \in Nat /\ o \notin Foreign
      BY <2>2, EntryTypes, OrdersAssumption DEF OnSide
    <3>2. ShareOf(o, side, l) = IF Over(o) THEN book[o].volume - book[o].left ELSE book[o].volume
      BY <2>2, <3>1 DEF ShareOf, Share
    <3>3. EngagedOf(o, side, l) = IF book[o].state \in {"sent", "live"} THEN book[o].volume
                                  ELSE book[o].volume - book[o].left
      BY <2>2 DEF EngagedOf
    <3>4. book[o].state \in {"sent", "live"} => ~Over(o)
      BY DEF Over
    <3> QED
      BY <2>1, <3>1, <3>2, <3>3, <3>4
  <2>3. CASE ~(o \in Own /\ OnSide(o, side, l))
    BY <2>1, <2>3 DEF EngagedOf
  <2> QED
    BY <2>2, <2>3
<1>4. Sum(f, Orders) <= Sum(e, Orders)
  BY <1>3, OrdersFinite, OrderedSums
<1> QED
  BY <1>1, <1>2, <1>4 DEF Engaged, Shares

(* autoOffset chooses to close what is closable. *)
LEMMA ChosenAvailable ==
  ASSUME PosInv, known, NEW direction \in Directions, NEW volume \in Nat \ {0}, NEW offset,
         offset = AutoOffset(direction, volume), offset # "open",
         \A side \in Sides, l \in Locks : Available(side, l) \in Int
  PROVE  /\ offset \in Offsets \ {"open"} /\ (LockOf(offset) = "today" => SplitsToday)
         /\ Available(PositionDirection(direction, offset), LockOf(offset)) >= volume
<1>1. PICK side \in Sides : side = PositionDirection(direction, "close")
  BY Kinds
<1>2. PositionDirection(direction, offset) = side
  BY <1>1 DEF PositionDirection
<1>3. offset = IF ~SplitsToday THEN IF Available(side, "close") >= volume THEN "close" ELSE "open"
               ELSE IF Available(side, "today") >= volume THEN "closeToday"
               ELSE IF Available(side, "yesterday") >= volume THEN "closeYesterday" ELSE "open"
  BY <1>1, SplitsAssumption DEF AutoOffset
<1>4. CASE ~SplitsToday
  <2>1. offset = "close" /\ Available(side, "close") >= volume
    BY <1>3, <1>4
  <2>2. LockOf(offset) = "close"
    BY <1>4, <2>1, SplitsAssumption DEF LockOf
  <2> QED
    BY <1>2, <2>1, <2>2 DEF Offsets
<1>5. CASE SplitsToday
  <2>1. \/ offset = "closeToday" /\ Available(side, "today") >= volume
        \/ offset = "closeYesterday" /\ Available(side, "yesterday") >= volume
    BY <1>3, <1>5
  <2>2. CASE offset = "closeToday" /\ Available(side, "today") >= volume
    <3>1. LockOf(offset) = "today"
      BY <2>2 DEF LockOf
    <3> QED
      BY <1>2, <1>5, <2>2, <3>1 DEF Offsets
  <2>3. CASE offset = "closeYesterday" /\ Available(side, "yesterday") >= volume
    <3>1. LockOf(offset) = "yesterday"
      BY <1>5, <2>3, SplitsAssumption DEF LockOf
    <3> QED
      BY <1>2, <1>5, <2>3, <3>1 DEF Offsets
  <2> QED
    BY <2>1, <2>2, <2>3
<1> QED
  BY <1>4, <1>5, SplitsAssumption

LEMMA ReadChosen ==
  ASSUME PosInv, PosInv', HeardAll, ExactAll, CountAll, [PosNext]_posVars, CalmSteps,
         NEW o \in Own, NEW direction \in Directions, NEW wish \in Wishes,
         NEW volume \in Volumes, Read(o, direction, wish, volume), ChosenJob'
  PROVE  (job.volume + Engaged(JobSide, JobLock) <= Stock(JobSide, JobLock))'
<1>1. volume \in Nat \ {0}
  BY WishesAssumption
<1>2. PICK offset : offset = IF wish = "auto" THEN AutoOffset(direction, volume) ELSE wish
  OBVIOUS
<1>3. job = Idle /\ job'.direction = direction /\ job'.volume = volume /\ job'.offset = offset
      /\ (job'.chosen <=> wish = "auto")
  <2>1. PICK pc : pc = IF wish = "open" THEN "lock" ELSE "read"
    OBVIOUS
  <2>2. PICK chosen : chosen <=> wish = "auto"
    OBVIOUS
  <2>3. job = Idle /\ job' = [pc |-> pc, order |-> o, direction |-> direction, volume |-> volume,
                              chosen |-> wish = "auto", offset |-> offset]
    BY <1>2, <2>1, Zenon DEF Read
  <2> QED
    BY <2>3
<1>4. wish = "auto" /\ known /\ offset = AutoOffset(direction, volume) /\ offset # "open"
  BY <1>2, <1>3 DEF ChosenJob, CountAll
<1>5. \A s \in Sides, l \in Locks : Available(s, l) \in Int
  <2>1. \A s \in Sides : /\ pos[s].yesterday \in Int /\ pos[s].today \in Int
                         /\ \A l \in Locks : pos[s].lock[l] \in Int
    BY DEF PosInv, PosTypeOK, Details
  <2> QED
    BY <2>1 DEF Available, Locks
<1>6. /\ offset \in Offsets \ {"open"} /\ (LockOf(offset) = "today" => SplitsToday)
      /\ Available(PositionDirection(direction, offset), LockOf(offset)) >= volume
  BY <1>1, <1>4, <1>5, ChosenAvailable
<1>7. PICK side \in Sides, l \in Locks : side = PositionDirection(direction, offset) /\ l = LockOf(offset)
  BY Kinds
<1>8. Available(side, l) \in Int /\ Available(side, l) + Shares(side, l) + JobShare(side, l) <= Stock(side, l)
  BY <1>6, <1>7, ClosableParts
<1>9. Engaged(side, l) <= Shares(side, l) /\ Engaged(side, l)' <= Engaged(side, l) /\ Stock(side, l) <= Stock(side, l)'
  <2>1. ~Insert
    BY <1>3 DEF Insert, Idle
  <2> QED
    BY <2>1, EngagedLocked, EngagedFalls, StockGrows
<1>10. /\ Engaged(side, l) \in Int /\ Engaged(side, l)' \in Int /\ Shares(side, l) \in Int
       /\ Stock(side, l) \in Int /\ Stock(side, l)' \in Int /\ JobShare(side, l) \in Nat
  BY EngagedTypes, EngagedTypesNext, SharesAreInt, StockTypes, StockTypesNext, LockTypes
<1>11. volume + Engaged(side, l)' <= Stock(side, l)'
  BY <1>1, <1>6, <1>7, <1>8, <1>9, <1>10
<1>12. JobSide' = side /\ JobLock' = l
  BY <1>3, <1>7 DEF JobSide, JobLock
<1> QED
  BY <1>3, <1>11, <1>12

LEMMA ChosenKept ==
  ASSUME PosInv, PosInv', CalmSteps, [PosNext]_posVars, ~Insert,
         ChosenJob, job.volume + Engaged(JobSide, JobLock) <= Stock(JobSide, JobLock),
         job'.direction = job.direction, job'.volume = job.volume, job'.offset = job.offset
  PROVE  (job.volume + Engaged(JobSide, JobLock) <= Stock(JobSide, JobLock))'
<1>1. PICK side \in Sides, l \in Locks : side = JobSide /\ l = JobLock
  BY Kinds DEF JobSide, JobLock
<1>2. JobSide' = side /\ JobLock' = l
  BY <1>1 DEF JobSide, JobLock
<1>3. job.volume \in Nat
  BY DEF ChosenJob, PosInv, PosTypeOK, Jobs
<1>4. Engaged(side, l)' <= Engaged(side, l) /\ Stock(side, l) <= Stock(side, l)'
  BY EngagedFalls, StockGrows
<1>5. /\ Engaged(side, l) \in Int /\ Engaged(side, l)' \in Int
      /\ Stock(side, l) \in Int /\ Stock(side, l)' \in Int
  BY EngagedTypes, EngagedTypesNext, StockTypes, StockTypesNext
<1>6. job.volume + Engaged(side, l)' <= Stock(side, l)'
  BY <1>1, <1>3, <1>4, <1>5
<1> QED
  BY <1>2, <1>6

LEMMA ChosenNext ==
  ASSUME PosInv, PosInv', Calm, HeardInv, ExactInv, CountInv, ChosenInv, [PosNext]_posVars
  PROVE  ChosenInv'
<1> SUFFICES ASSUME mishaps' = {}, ChosenJob'
    PROVE  (job.volume + Engaged(JobSide, JobLock) <= Stock(JobSide, JobLock))'
  BY DEF ChosenInv
<1>1. mishaps = {} /\ CalmSteps
  BY CalmNext
<1>2. HeardAll /\ ExactAll /\ CountAll
  BY <1>1 DEF HeardInv, HeardAll, ExactInv, ExactAll, CountInv
<1>3. ~Insert
  BY DEF Insert, ChosenJob
<1>4. ASSUME NEW o \in Own, NEW direction \in Directions, NEW wish \in Wishes, NEW volume \in Volumes,
             Read(o, direction, wish, volume)
      PROVE  (job.volume + Engaged(JobSide, JobLock) <= Stock(JobSide, JobLock))'
  BY <1>1, <1>2, <1>4, ReadChosen
<1>5. ASSUME job # Idle, job' = job \/ job' = [job EXCEPT !.pc = "lock"] \/ job' = [job EXCEPT !.pc = "record"]
      PROVE  (job.volume + Engaged(JobSide, JobLock) <= Stock(JobSide, JobLock))'
  <2>1. job \in Jobs
    BY <1>5 DEF PosInv, PosTypeOK
  <2>2. job'.direction = job.direction /\ job'.volume = job.volume /\ job'.offset = job.offset
        /\ job'.chosen = job.chosen
    BY <1>5, <2>1 DEF Jobs
  <2>3. ChosenJob
    BY <1>5, <2>2 DEF ChosenJob
  <2>4. job.volume + Engaged(JobSide, JobLock) <= Stock(JobSide, JobLock)
    BY <1>1, <2>3 DEF ChosenInv
  <2> QED
    BY <1>1, <1>3, <2>2, <2>3, <2>4, ChosenKept
<1>6. CASE Lock
  BY <1>5, <1>6, LockShareStep, LockPos
<1>7. CASE Record
  <2>1. job \in Jobs /\ job.pc = "lock"
    BY <1>7, RecordShare
  <2>2. job # Idle
    BY <2>1 DEF Idle
  <2> QED
    BY <1>5, <1>7, <2>2, RecordPos
<1>8. CASE job' = job
  BY <1>5, <1>8 DEF ChosenJob
<1>9. CASE Exchange
  BY <1>8, <1>9, ExchangeUntouched
<1>10. CASE OnRtnOrder \/ OnRtnTrade \/ OnRspOrderInsert \/ UNCHANGED posVars
  BY <1>8, <1>10 DEF OnRtnOrder, OnRtnTrade, OnRspOrderInsert, posVars
<1> QED
  BY <1>1, <1>3, <1>4, <1>6, <1>7, <1>9, <1>10 DEF CalmSteps, Listener, Exchange

-----------------------------------------------------------------------------
(* The positions while the connection holds                                *)

LEMMA HoldStock ==
  ASSUME PosInv, HoldInv, NEW side \in Sides, NEW l \in Locks
  PROVE  hold[side][l] = Stock(side, l) - Closed(side, l) /\ Stock(side, l) \in Int
<1>1. Opened(side) \in Int /\ Closed(side, l) \in Int
  BY TradedTypes DEF TradedTyped
<1>2. Start(side, l) \in Int
  BY YesterdayAssumption DEF Start
<1>3. hold[side][l] = Start(side, l) + (IF l = OpenedPart THEN Opened(side) ELSE 0) - Closed(side, l)
  BY DEF HoldInv
<1> QED
  BY <1>1, <1>2, <1>3 DEF Stock

LEMMA ChosenCovered == ASSUME PosInv, HoldInv, ChosenInv PROVE ChosenClosesCovered
<1> SUFFICES ASSUME mishaps = {}, job.pc \in {"read", "lock", "record"}, job.chosen, job.offset # "open",
                    NEW side, NEW l, side = PositionDirection(job.direction, job.offset), l = LockOf(job.offset)
    PROVE  job.volume + Left({o \in ClosingOn(side, l) \cap Own : book[o].state \in {"sent", "live"}})
             <= hold[side][l] + Traded(ClosingOn(side, l) \cap Foreign)
  BY DEF ChosenClosesCovered, NeverDisconnected
<1>1. side \in Sides /\ l \in Locks
  BY Kinds
<1>2. job # Idle /\ job \in Jobs /\ job.volume \in Int
  <2>1. job # Idle
    BY DEF Idle
  <2> QED
    BY <2>1 DEF PosInv, PosTypeOK, Jobs
<1>3. job.volume + Engaged(side, l) <= Stock(side, l)
  BY <1>2 DEF ChosenInv, ChosenJob, JobSide, JobLock
<1>4. hold[side][l] = Stock(side, l) - Closed(side, l)
  BY <1>1, HoldStock
<1>5. PICK S \in SUBSET Orders : S = {o \in ClosingOn(side, l) \cap Own : book[o].state \in {"sent", "live"}}
  BY DEF ClosingOn
<1>6. PICK U \in SUBSET Orders : U = ClosingOn(side, l) \cap Foreign
  BY DEF ClosingOn
<1>7. PICK f : f = [o \in Orders |-> IF o \in S THEN book[o].left ELSE 0]
  OBVIOUS
<1>8. PICK g : g = [o \in Orders |-> ClosedOf(o, side, l)]
  OBVIOUS
<1>9. PICK h : h = [o \in Orders |-> EngagedOf(o, side, l)]
  OBVIOUS
<1>10. PICK e : e = [o \in Orders |-> IF o \in U THEN book[o].volume - book[o].left ELSE 0]
  OBVIOUS
<1>11. PICK m : m = [o \in Orders |-> f[o] + g[o]]
  OBVIOUS
<1>12. ASSUME NEW o \in Orders
       PROVE  /\ f[o] \in Int /\ g[o] \in Int /\ h[o] \in Int /\ e[o] \in Int /\ f[o] + g[o] = h[o] + e[o]
              /\ o \in S => book[o].left \in Int
              /\ o \in U => book[o].volume - book[o].left \in Int
  <2>1. o \in S <=> /\ Closing(o) /\ SideOf(o) = side /\ LockOf(book[o].offset) = l
                    /\ o \in Own /\ book[o].state \in {"sent", "live"}
    BY <1>5 DEF ClosingOn
  <2>2. o \in U <=> Closing(o) /\ SideOf(o) = side /\ LockOf(book[o].offset) = l /\ o \in Foreign
    BY <1>6 DEF ClosingOn
  <2>3. CASE ~Booked(o)
    <3>1. o \notin S /\ o \notin U
      BY <2>1, <2>2, <2>3 DEF Booked, Closing, Exists, NotPlaced
    <3>2. g[o] = 0 /\ h[o] = 0
      BY <1>8, <1>9, <2>3 DEF ClosedOf, EngagedOf, OnSide
    <3> QED
      BY <1>7, <1>10, <3>1, <3>2
  <2>4. CASE Booked(o) /\ ~OnSide(o, side, l)
    <3>1. o \notin S /\ o \notin U
      BY <2>1, <2>2, <2>4 DEF Closing, OnSide
    <3>2. g[o] = 0 /\ h[o] = 0
      BY <1>8, <1>9, <2>4 DEF ClosedOf, EngagedOf
    <3> QED
      BY <1>7, <1>10, <3>1, <3>2
  <2>5. CASE OnSide(o, side, l)
    <3>1. /\ Booked(o) /\ book[o].volume \in Nat /\ book[o].left \in Nat /\ book[o].offset # "open" /\ EntryOK(o)
          /\ book[o].state \in BookStates
      BY <2>5, EntryTypes DEF OnSide, Entries
    <3>2. g[o] = book[o].volume - book[o].left
      BY <1>8, <2>5 DEF ClosedOf
    <3>3. Closing(o) <=> book[o].state # "failed"
      BY <3>1 DEF Closing, Exists, BookStates
    <3>4. o \in S <=> o \in Own /\ book[o].state \in {"sent", "live"}
      BY <2>1, <2>5, <3>3 DEF OnSide
    <3>5. o \in U <=> o \in Foreign /\ book[o].state # "failed"
      BY <2>2, <2>5, <3>3 DEF OnSide
    <3>6. CASE o \in Own
      <4>1. o \notin U
        BY <3>5, <3>6, OrdersAssumption
      <4>2. h[o] = IF book[o].state \in {"sent", "live"} THEN book[o].volume ELSE book[o].volume - book[o].left
        BY <1>9, <2>5, <3>6 DEF EngagedOf
      <4> QED
        BY <1>7, <1>10, <3>1, <3>2, <3>4, <3>6, <4>1, <4>2
    <3>7. CASE o \in Foreign
      <4>1. o \notin Own /\ o \in U
        BY <3>1, <3>5, <3>7, OrdersAssumption DEF EntryOK
      <4>2. h[o] = 0
        BY <1>9, <4>1 DEF EngagedOf
      <4> QED
        BY <1>7, <1>10, <3>1, <3>2, <3>4, <4>1, <4>2
    <3> QED
      BY <3>6, <3>7 DEF Orders
  <2> QED
    BY <2>3, <2>4, <2>5
<1>13. /\ \A o \in Orders : m[o] \in Int /\ f[o] \in Int /\ g[o] \in Int /\ m[o] = f[o] + g[o]
       /\ \A o \in Orders : m[o] \in Int /\ h[o] \in Int /\ e[o] \in Int /\ m[o] = h[o] + e[o]
  BY <1>11, <1>12
<1>14. /\ Sum(m, Orders) = Sum(f, Orders) + Sum(g, Orders)
       /\ Sum(m, Orders) \in Int /\ Sum(f, Orders) \in Int /\ Sum(g, Orders) \in Int
  BY <1>13, OrdersFinite, PairedSums
<1>15. /\ Sum(m, Orders) = Sum(h, Orders) + Sum(e, Orders)
       /\ Sum(h, Orders) \in Int /\ Sum(e, Orders) \in Int
  BY <1>13, OrdersFinite, PairedSums
<1>16. Left(S) = Sum(f, Orders)
  <2>1. \A o \in S : book[o].left \in Int
    BY <1>12
  <2>2. \A o \in Orders : f[o] = IF o \in S THEN book[o].left ELSE 0
    BY <1>7
  <2> QED
    BY <2>1, <2>2, LeftOver
<1>17. Traded(U) = Sum(e, Orders)
  <2>1. \A o \in U : book[o].volume - book[o].left \in Int
    BY <1>12
  <2>2. \A o \in Orders : e[o] = IF o \in U THEN book[o].volume - book[o].left ELSE 0
    BY <1>10
  <2> QED
    BY <2>1, <2>2, TradedOver
<1>18. Closed(side, l) = Sum(g, Orders) /\ Engaged(side, l) = Sum(h, Orders) /\ Stock(side, l) \in Int
  BY <1>1, <1>8, <1>9, StockTypes DEF Closed, Engaged
<1>19. job.volume + Left(S) <= hold[side][l] + Traded(U)
  BY <1>2, <1>3, <1>4, <1>14, <1>15, <1>16, <1>17, <1>18
<1> QED
  BY <1>5, <1>6, <1>19

-----------------------------------------------------------------------------
LEMMA NoneOverclosed == ASSUME PosInv, HoldInv, HeardInv, ExactInv, CountInv PROVE NothingOverclosed
<1> SUFFICES ASSUME mishaps = {}, NEW side \in Sides, NEW offset \in Offsets \ {"open"}, NEW l \in Locks,
                    l = LockOf(offset), l = "today" => SplitsToday
    PROVE  Available(side, l) <= Free(side, l) + NotHeardOf(side, l)
  BY Kinds DEF NothingOverclosed, NeverDisconnected
<1>1. HeardAll /\ ExactAll /\ CountAll
  BY DEF HeardInv, HeardAll, ExactInv, ExactAll, CountInv
<1>2. /\ Available(side, l) \in Int /\ JobShare(side, l) \in Nat
      /\ Available(side, l) + Shares(side, l) + JobShare(side, l) <= Stock(side, l)
  BY <1>1, ClosableParts, LockTypes
<1>3. hold[side][l] = Stock(side, l) - Closed(side, l) /\ Stock(side, l) \in Int
  BY HoldStock
<1>4. PICK S \in SUBSET Orders : S = {o \in ClosingOn(side, l) : IsLive(o)}
  BY DEF ClosingOn
<1>5. PICK U \in SUBSET Orders : U = {o \in ClosingOn(side, l) : o \in Foreign /\ Key(o) \notin recorded}
  BY DEF ClosingOn
<1>6. PICK V \in SUBSET Orders : V = {o \in U : IsLive(o)}
  OBVIOUS
<1>7. PICK f : f = [o \in Orders |-> IF o \in S THEN book[o].left ELSE 0]
  OBVIOUS
<1>8. PICK g : g = [o \in Orders |-> ClosedOf(o, side, l)]
  OBVIOUS
<1>9. PICK h : h = [o \in Orders |-> ShareOf(o, side, l)]
  OBVIOUS
<1>10. PICK e : e = [o \in Orders |-> IF o \in U THEN book[o].volume - book[o].left ELSE 0]
  OBVIOUS
<1>11. PICK d : d = [o \in Orders |-> IF o \in V THEN book[o].left ELSE 0]
  OBVIOUS
<1>12. ASSUME NEW o \in Orders
       PROVE  /\ f[o] \in Int /\ g[o] \in Int /\ h[o] \in Int /\ e[o] \in Int /\ d[o] \in Int
              /\ f[o] + g[o] <= h[o] + (e[o] + d[o])
              /\ o \in S \cup V => book[o].left \in Int
              /\ o \in U => book[o].volume - book[o].left \in Int
  <2>1. o \in S <=> Closing(o) /\ SideOf(o) = side /\ LockOf(book[o].offset) = l /\ IsLive(o)
    BY <1>4 DEF ClosingOn
  <2>2. o \in U <=> /\ Closing(o) /\ SideOf(o) = side /\ LockOf(book[o].offset) = l
                    /\ o \in Foreign /\ Key(o) \notin recorded
    BY <1>5 DEF ClosingOn
  <2>3. o \in V <=> o \in U /\ IsLive(o)
    BY <1>6
  <2>4. CASE ~Booked(o)
    <3>1. o \notin S /\ o \notin U /\ o \notin V
      BY <2>1, <2>2, <2>3, <2>4 DEF Booked, Closing, Exists, NotPlaced
    <3>2. g[o] = 0 /\ h[o] = 0
      BY <1>8, <1>9, <2>4 DEF ClosedOf, ShareOf, OnSide
    <3> QED
      BY <1>7, <1>10, <1>11, <3>1, <3>2
  <2>5. CASE Booked(o) /\ ~OnSide(o, side, l)
    <3>1. o \notin S /\ o \notin U /\ o \notin V
      BY <2>1, <2>2, <2>3, <2>5 DEF Closing, OnSide
    <3>2. g[o] = 0 /\ h[o] = 0
      BY <1>8, <1>9, <2>5 DEF ClosedOf, ShareOf
    <3> QED
      BY <1>7, <1>10, <1>11, <3>1, <3>2
  <2>6. CASE OnSide(o, side, l)
    <3>1. /\ Booked(o) /\ book[o].volume \in Nat /\ book[o].left \in Nat /\ book[o].offset # "open" /\ EntryOK(o)
          /\ book[o].state \in BookStates /\ book[o].left <= book[o].volume
      BY <2>6, EntryTypes DEF OnSide, Entries
    <3>2. g[o] = book[o].volume - book[o].left
      BY <1>8, <2>6 DEF ClosedOf
    <3>3. Closing(o) <=> book[o].state # "failed"
      BY <3>1 DEF Closing, Exists, BookStates
    <3>4. o \in S <=> book[o].state = "live"
      BY <2>1, <2>6, <3>3 DEF OnSide, IsLive
    <3>5. o \in U <=> o \in Foreign /\ Key(o) \notin recorded
      <4>1. o \in Foreign => book[o].state # "failed"
        BY <3>1 DEF EntryOK
      <4> QED
        BY <2>2, <2>6, <3>3, <4>1 DEF OnSide
    <3>6. o \in V <=> o \in U /\ book[o].state = "live"
      BY <2>3 DEF IsLive
    <3>7. CASE o \in U
      <4>1. h[o] = 0
        BY <1>9, <2>6, <3>5, <3>7 DEF ShareOf, Share
      <4> QED
        BY <1>7, <1>10, <1>11, <3>1, <3>2, <3>4, <3>6, <3>7, <4>1
    <3>8. CASE o \notin U
      <4>1. h[o] = IF Over(o) THEN book[o].volume - book[o].left ELSE book[o].volume
        BY <1>9, <2>6, <3>5, <3>8 DEF ShareOf, Share
      <4>2. book[o].state = "live" => ~Over(o)
        BY DEF Over
      <4> QED
        BY <1>7, <1>10, <1>11, <3>1, <3>2, <3>4, <3>6, <3>8, <4>1, <4>2
    <3> QED
      BY <3>7, <3>8
  <2> QED
    BY <2>4, <2>5, <2>6
<1>13. PICK m : m = [o \in Orders |-> f[o] + g[o]]
  OBVIOUS
<1>14. PICK j : j = [o \in Orders |-> e[o] + d[o]]
  OBVIOUS
<1>15. PICK k : k = [o \in Orders |-> h[o] + j[o]]
  OBVIOUS
<1>16. /\ \A o \in Orders : m[o] \in Int /\ f[o] \in Int /\ g[o] \in Int /\ m[o] = f[o] + g[o]
       /\ \A o \in Orders : j[o] \in Int /\ e[o] \in Int /\ d[o] \in Int /\ j[o] = e[o] + d[o]
       /\ \A o \in Orders : k[o] \in Int /\ h[o] \in Int /\ j[o] \in Int /\ k[o] = h[o] + j[o]
       /\ \A o \in Orders : m[o] \in Int /\ k[o] \in Int /\ m[o] <= k[o]
  BY <1>12, <1>13, <1>14, <1>15
<1>17. /\ Sum(m, Orders) = Sum(f, Orders) + Sum(g, Orders)
       /\ Sum(m, Orders) \in Int /\ Sum(f, Orders) \in Int /\ Sum(g, Orders) \in Int
  <2>1. \A o \in Orders : m[o] \in Int /\ f[o] \in Int /\ g[o] \in Int /\ m[o] = f[o] + g[o]
    BY <1>16
  <2> QED
    BY <2>1, OrdersFinite, PairedSums
<1>18. /\ Sum(j, Orders) = Sum(e, Orders) + Sum(d, Orders)
       /\ Sum(e, Orders) \in Int /\ Sum(d, Orders) \in Int
  <2>1. \A o \in Orders : j[o] \in Int /\ e[o] \in Int /\ d[o] \in Int /\ j[o] = e[o] + d[o]
    BY <1>16
  <2> QED
    BY <2>1, OrdersFinite, PairedSums
<1>19. /\ Sum(k, Orders) = Sum(h, Orders) + Sum(j, Orders)
       /\ Sum(k, Orders) \in Int /\ Sum(h, Orders) \in Int /\ Sum(j, Orders) \in Int
  <2>1. \A o \in Orders : k[o] \in Int /\ h[o] \in Int /\ j[o] \in Int /\ k[o] = h[o] + j[o]
    BY <1>16
  <2> QED
    BY <2>1, OrdersFinite, PairedSums
<1>20. Sum(m, Orders) <= Sum(k, Orders)
  <2>1. \A o \in Orders : m[o] \in Int /\ k[o] \in Int /\ m[o] <= k[o]
    BY <1>16
  <2> QED
    BY <2>1, OrdersFinite, OrderedSums
<1>21. Left(S) = Sum(f, Orders)
  <2>1. \A o \in S : book[o].left \in Int
    BY <1>12
  <2>2. \A o \in Orders : f[o] = IF o \in S THEN book[o].left ELSE 0
    BY <1>7
  <2> QED
    BY <2>1, <2>2, LeftOver
<1>22. Left(V) = Sum(d, Orders)
  <2>1. \A o \in V : book[o].left \in Int
    BY <1>12
  <2>2. \A o \in Orders : d[o] = IF o \in V THEN book[o].left ELSE 0
    BY <1>11
  <2> QED
    BY <2>1, <2>2, LeftOver
<1>23. Traded(U) = Sum(e, Orders)
  <2>1. \A o \in U : book[o].volume - book[o].left \in Int
    BY <1>12
  <2>2. \A o \in Orders : e[o] = IF o \in U THEN book[o].volume - book[o].left ELSE 0
    BY <1>10
  <2> QED
    BY <2>1, <2>2, TradedOver
<1>24. Closed(side, l) = Sum(g, Orders) /\ Shares(side, l) = Sum(h, Orders)
  BY <1>8, <1>9 DEF Closed, Shares
<1>25. Free(side, l) = hold[side][l] - Left(S) /\ NotHeardOf(side, l) = Left(V) + Traded(U)
  BY <1>4, <1>5, <1>6 DEF Free, NotHeardOf
<1> QED
  BY <1>2, <1>3, <1>17, <1>18, <1>19, <1>20, <1>21, <1>22, <1>23, <1>24, <1>25

-----------------------------------------------------------------------------
(* What holds of the locks until the connection breaks *)
CalmInv == PosInv /\ HoldInv /\ Calm /\ HeardInv /\ ExactInv

(* Until the connection breaks, the locks are what the orders the engine    *)
(* has heard of ask for or have traded (lockPos, unlockPos).                *)
THEOREM CalmInductive == PosSpec => []CalmInv
<1>1. PosInit => CalmInv
  BY InitPos, HoldInit, HeardInit DEF CalmInv
<1>2. CalmInv /\ [PosNext]_posVars => CalmInv'
  <2> SUFFICES ASSUME CalmInv, [PosNext]_posVars PROVE CalmInv'
    OBVIOUS
  <2>1. PosInv /\ HoldInv /\ Calm /\ HeardInv /\ ExactInv
    BY DEF CalmInv
  <2>2. PosInv'
    BY <2>1, NextPos
  <2>3. HoldInv' /\ HeardInv' /\ ExactInv' /\ Calm'
    BY <2>1, <2>2, HoldNext, HeardNext, CalmNext
  <2> QED
    BY <2>2, <2>3 DEF CalmInv
<1> QED
  BY <1>1, <1>2, PTL DEF PosSpec

(* When all orders have ended and all reports have been handled, the locks  *)
(* are what closing orders have traded and what orders that could not be    *)
(* sent have locked: none was left behind, none given back twice            *)
(* (OnRtnOrder, OnRspOrderInsert).                                          *)
THEOREM NoLockStays == PosSpec => []NoLockLeft
<1>1. CalmInv => NoLockLeft
  BY NoneLeft DEF CalmInv
<1> QED
  BY <1>1, CalmInductive, PTL

LEMMA ClosingInductive ==
  ASSUME Entered
  PROVE  PosSpec => [](CalmInv /\ CountInv /\ ChosenInv)
<1>1. PosInit => CalmInv /\ CountInv /\ ChosenInv
  <2> SUFFICES ASSUME PosInit PROVE CalmInv /\ CountInv /\ ChosenInv
    OBVIOUS
  <2>1. CalmInv
    BY InitPos, HoldInit, HeardInit DEF CalmInv
  <2>2. CountInv
    BY CountInit
  <2>3. ChosenInv
    BY DEF PosInit, ChosenInv, ChosenJob
  <2> QED
    BY <2>1, <2>2, <2>3
<1>2. CalmInv /\ CountInv /\ ChosenInv /\ [PosNext]_posVars => (CalmInv /\ CountInv /\ ChosenInv)'
  <2> SUFFICES ASSUME CalmInv, CountInv, ChosenInv, [PosNext]_posVars PROVE (CalmInv /\ CountInv /\ ChosenInv)'
    OBVIOUS
  <2>1. PosInv /\ HoldInv /\ Calm /\ HeardInv /\ ExactInv
    BY DEF CalmInv
  <2>2. PosInv'
    BY <2>1, NextPos
  <2>3. CalmInv'
    BY <2>1, <2>2, HoldNext, HeardNext, CalmNext DEF CalmInv
  <2>4. CountInv' /\ ChosenInv'
    BY <2>1, <2>2, CountNext, ChosenNext
  <2> QED
    BY <2>3, <2>4
<1> QED
  BY <1>1, <1>2, PTL DEF PosSpec

(* What autoOffset takes for closable can be closed at the exchange, up to  *)
(* what other terminals close at this moment (TDPosManage::autoOffset), if  *)
(* the account has an entry to begin with or orders name their offset.      *)
THEOREM NothingIsOverclosed == Entered => (PosSpec => []NothingOverclosed)
<1> SUFFICES ASSUME Entered PROVE PosSpec => []NothingOverclosed
  OBVIOUS
<1>1. CalmInv /\ CountInv => NothingOverclosed
  BY NoneOverclosed DEF CalmInv
<1>2. PosSpec => [](CalmInv /\ CountInv /\ ChosenInv)
  BY ClosingInductive
<1> QED
  BY <1>1, <1>2, PTL

(* An order autoOffset has chosen to close with has its position at the     *)
(* exchange, beside all orders of the engine that are under way there       *)
(* (req_order_insert, lockPos), if the account has an entry to begin with   *)
(* or orders name their offset.                                             *)
THEOREM ChosenIsCovered == Entered => (PosSpec => []ChosenClosesCovered)
<1> SUFFICES ASSUME Entered PROVE PosSpec => []ChosenClosesCovered
  OBVIOUS
<1>1. CalmInv /\ ChosenInv => ChosenClosesCovered
  BY ChosenCovered DEF CalmInv
<1>2. PosSpec => [](CalmInv /\ CountInv /\ ChosenInv)
  BY ClosingInductive
<1> QED
  BY <1>1, <1>2, PTL
=============================================================================
