----------------------------- MODULE OrderTable -----------------------------
(***************************************************************************)
(* The trade engine's table of orders (TDEngineInfoHelper): it tells which *)
(* request an order report or a trade belongs to, and so which strategy is *)
(* told of it.  The listening thread records an order before it sends it;  *)
(* the callbacks, one at a time, record the orders of other terminals and  *)
(* keep status and OrderSysID.  The table itself has no lock.  Each record *)
(* is kept in Redis as well, and is read back when an account logs in.     *)
(*                                                                         *)
(* An order's key is its OrderRef with the front and the session it was    *)
(* sent in; reading back keeps 13 bytes of it, without an end when the key *)
(* is longer, so that it is found no more.                                 *)
(***************************************************************************)
EXTENDS Integers, FiniteSets

CONSTANTS
  Own,           \* orders of strategies, named after their request ids
  Foreign,       \* orders of other terminals
  ShortKeys,     \* orders whose key has 12 characters or less
  Endings,       \* how each order may end
  TableSize,     \* TD_AVAILABLE_ORDER_LIMIT
  MaxSessions,   \* bound on how often the account logs in
  direct,        \* a request id of the account's direct strategy (dsRid)
  None           \* no request id (-1), no OrderSysID, no key, no report

Orders == Own \cup Foreign

ASSUME OrdersAssumption == Own \cap Foreign = {} /\ ShortKeys \subseteq Orders
ASSUME SizesAssumption == TableSize \in Nat \ {0} /\ MaxSessions \in Nat \ {0}

Slots    == 1 .. TableSize
Sessions == 0 .. MaxSessions               \* 0: sessions of other terminals
Rids     == Own \cup {direct}
Keys     == [order: Orders, session: Sessions, whole: BOOLEAN]
LiveStatus  == {"inserted", "live"}        \* order_is_existing
EndedStatus == {"traded", "canceled"}
Kinds       == {"live", "traded", "canceled", "trade", "query"}

ASSUME NamesAssumption == None \notin Orders \cup {direct} \cup Keys /\ direct \notin Orders
ASSUME EndingsAssumption == Endings \in [Orders -> SUBSET EndedStatus]

VARIABLES
  slots,       \* info->orders
  saved,       \* the records in Redis, by key
  up,          \* the engine runs and the account is logged in
  session,     \* unit.session_id
  toRestore,   \* keys deserilizeOrderInfo has still to look at
  restoring,   \* the key it has a slot for, and has yet to write
  job,         \* the listening thread in req_order_insert
  cb,          \* the callback that holds the mutex
  sent,        \* the exchange: state of each order and the session it was sent in
               \* (before it is sent, the session of its key)
  reports,     \* what the exchange has sent and no callback has taken
  strays       \* history: orders whose record was lost or misleads, see below

tableVars == <<slots, saved, up, session, toRestore, restoring, job, cb, sent, reports, strays>>

Free    == [rid |-> None, key |-> None, sys |-> None, status |-> "raw"]
NoJob   == [order |-> None, stage |-> "idle", slot |-> 0]
NoCall  == [order |-> None, kind |-> "live", key |-> None, stage |-> "idle", slot |-> 0]
NotSent == [state |-> "none", session |-> 0]
NoRestore == [key |-> None, slot |-> 0]

Key(o) == [order |-> o, session |-> sent[o].session, whole |-> TRUE]
RidOf(o) == IF o \in Own THEN o ELSE direct

TableTypeOK ==
  /\ slots \in [Slots -> [rid: Rids \cup {None}, key: Keys \cup {None}, sys: Orders \cup {None},
                          status: LiveStatus \cup EndedStatus \cup {"raw"}]]
  /\ DOMAIN saved \subseteq Keys
  /\ \A k \in DOMAIN saved : saved[k].rid \in Rids /\ saved[k].status \in LiveStatus \cup EndedStatus
  /\ up \in BOOLEAN /\ session \in Sessions /\ toRestore \subseteq DOMAIN saved
  /\ restoring \in [key: Keys \cup {None}, slot: 0 .. TableSize]
  /\ job \in [order: Own \cup {None}, stage: {"idle", "new", "rid", "key", "send"}, slot: 0 .. TableSize]
  /\ cb \in [order: Orders \cup {None}, kind: Kinds, key: Keys \cup {None},
             stage: {"idle", "rid", "key", "sys", "deliver"}, slot: 0 .. TableSize]
  /\ sent \in [Orders -> [state: {"none", "live", "traded", "canceled", "rejected"}, session: Sessions]]
  /\ reports \subseteq [order: Orders, kind: Kinds]
  /\ strays \subseteq Orders

TableInit ==
  /\ slots = [s \in Slots |-> Free]
  /\ saved = << >>
  /\ up = TRUE /\ session = 1 /\ toRestore = {} /\ restoring = NoRestore
  /\ job = NoJob /\ cb = NoCall
  /\ sent = [o \in Orders |-> NotSent]
  /\ reports = {} /\ strays = {}

-----------------------------------------------------------------------------
(* The table *)

First(S) == CHOOSE s \in S : \A t \in S : s <= t

(* locate_readable, by key and by OrderSysID *)
WithKey(k) == {s \in Slots : slots[s].key = k}
WithSys(o) == {s \in Slots : slots[s].sys = o}

RidIn(S) == IF S = {} THEN None ELSE slots[First(S)].rid       \* get_order_id

(* Of Writable: an order counts as ended when it has a status at all. *)
WritableInserted(s) == slots[s].status # "live"

Writable(s) == slots[s].status \notin LiveStatus
Writables == {s \in Slots : Writable(s)}                       \* locate_writable takes the first

(* serilizeOrderInfo *)
Save(r) == saved' = [k \in DOMAIN saved \cup {r.key} |->
                     IF k = r.key THEN [rid |-> r.rid, status |-> r.status] ELSE saved[k]]

(* An order loses its record when the table is full, when the listening    *)
(* thread and a callback take the same slot, when its slot is taken by     *)
(* another order as soon as it has ended, with a report still to come, and *)
(* when the engine starts again and its key is long.  The record misleads  *)
(* when the account has logged in again between record_order and           *)
(* ReqOrderInsert: it is of one session, and the order of another.         *)
Taken(s, o) ==
  {o} \cup (IF job.slot = s /\ job.stage \in {"rid", "key"} THEN {job.order} ELSE {})
      \cup (IF cb.slot = s /\ cb.stage \in {"rid", "key"} THEN {cb.order} ELSE {})
      \cup (IF restoring.slot = s /\ restoring # NoRestore THEN {restoring.key.order} ELSE {})

Shared(s, o) == IF Taken(s, o) = {o} THEN {} ELSE Taken(s, o)

Overwritten(s) ==
  {o \in Orders : /\ slots[s].key # None /\ o = slots[s].key.order
                  /\ o = cb.order \/ \E r \in reports : r.order = o}

-----------------------------------------------------------------------------
(* The listening thread: req_order_insert.  It takes no lock: while it is  *)
(* at an order the account may lose its connection and log in again.       *)

(* The key is made with the session of now. *)
InsertOrder(o) ==
  /\ up
  /\ job = NoJob
  /\ sent[o] = NotSent
  /\ job' = [order |-> o, stage |-> "new", slot |-> 0]
  /\ sent' = [sent EXCEPT ![o] = [state |-> "none", session |-> session]]
  /\ UNCHANGED <<slots, saved, up, session, toRestore, restoring, cb, reports, strays>>

(* record_order: the slot, then the request id, then the rest. *)
LocateSlot ==
  /\ job.stage = "new"
  /\ IF Writables = {}
     THEN /\ job' = [job EXCEPT !.stage = "send"]
          /\ strays' = strays \cup {job.order}
     ELSE LET s == First(Writables)
          IN /\ job' = [job EXCEPT !.stage = "rid", !.slot = s]
             /\ strays' = strays \cup Shared(s, job.order)
  /\ UNCHANGED <<slots, saved, up, session, toRestore, restoring, cb, sent, reports>>

RecordRid ==
  /\ job.stage = "rid"
  /\ slots' = [slots EXCEPT ![job.slot].rid = job.order]
  /\ strays' = strays \cup Overwritten(job.slot)
  /\ job' = [job EXCEPT !.stage = "key"]
  /\ UNCHANGED <<saved, up, session, toRestore, restoring, cb, sent, reports>>

(* Of RecordKey: the record is kept before its status is set. *)
RecordKeyEarly ==
  /\ job.stage = "key"
  /\ LET r == [slots[job.slot] EXCEPT !.key = Key(job.order)]
     IN slots' = [slots EXCEPT ![job.slot] = [r EXCEPT !.status = "inserted"]] /\ Save(r)
  /\ strays' = strays \cup Overwritten(job.slot)
  /\ job' = [job EXCEPT !.stage = "send"]
  /\ UNCHANGED <<up, session, toRestore, restoring, cb, sent, reports>>

RecordKey ==
  /\ job.stage = "key"
  /\ LET r == [slots[job.slot] EXCEPT !.key = Key(job.order), !.status = "inserted"]
     IN slots' = [slots EXCEPT ![job.slot] = r] /\ Save(r)
  /\ strays' = strays \cup Overwritten(job.slot)
  /\ job' = [job EXCEPT !.stage = "send"]
  /\ UNCHANGED <<up, session, toRestore, restoring, cb, sent, reports>>

(* ReqOrderInsert: the exchange takes the order, in the session of now, or *)
(* the front rejects it.                                                   *)
Send ==
  /\ job.stage = "send"
  /\ \/ /\ sent' = [sent EXCEPT ![job.order] = [state |-> "live", session |-> session]]
        /\ reports' = reports \cup {[order |-> job.order, kind |-> "live"]}
        /\ strays' = IF sent[job.order].session = session THEN strays ELSE strays \cup {job.order}
     \/ /\ sent' = [sent EXCEPT ![job.order].state = "rejected"]
        /\ UNCHANGED <<reports, strays>>
  /\ job' = NoJob
  /\ UNCHANGED <<slots, saved, up, session, toRestore, restoring, cb>>

-----------------------------------------------------------------------------
(* The exchange *)

ForeignOrder(o) ==
  /\ o \in Foreign /\ sent[o] = NotSent
  /\ sent' = [sent EXCEPT ![o].state = "live"]
  /\ reports' = IF ~up THEN reports ELSE reports \cup {[order |-> o, kind |-> "live"]}
  /\ UNCHANGED <<slots, saved, up, session, toRestore, restoring, job, cb, strays>>

OrderEnds(o, how) ==
  /\ sent[o].state = "live"
  /\ sent' = [sent EXCEPT ![o].state = how]
  /\ reports' = IF ~up THEN reports
                ELSE reports \cup {[order |-> o, kind |-> how]}
                       \cup (IF how = "traded" THEN {[order |-> o, kind |-> "trade"]} ELSE {})
  /\ UNCHANGED <<slots, saved, up, session, toRestore, restoring, job, cb, strays>>

-----------------------------------------------------------------------------
(* The callbacks.  Reports of an order arrive in order, its trade may come *)
(* before or after them (OnRtnTrade: "in case onRtnTrade comes before      *)
(* onRtnOrder").                                                           *)

Arrived(o, kind) ==
  /\ up /\ toRestore = {} /\ cb = NoCall
  /\ [order |-> o, kind |-> kind] \in reports
  /\ kind \in EndedStatus => [order |-> o, kind |-> "live"] \notin reports
  /\ reports' = reports \ {[order |-> o, kind |-> kind]}

(* The callback will record an order nobody knows under k. *)
Recording(o, kind, k) ==
  IF Writables = {}
  THEN /\ cb' = [order |-> o, kind |-> kind, key |-> k, stage |-> "sys", slot |-> 0]
       /\ strays' = strays \cup {o}
  ELSE LET s == First(Writables)
       IN /\ cb' = [order |-> o, kind |-> kind, key |-> k, stage |-> "rid", slot |-> s]
          /\ strays' = strays \cup Shared(s, o)

SetStatus(o, status) ==
  LET s == First(WithKey(Key(o)))
      r == [slots[s] EXCEPT !.status = status]
  IN slots' = [slots EXCEPT ![s] = r] /\ Save(r)

(* OnRtnOrder; OnRspQryOrder has the status the order has now. *)
OnOrder(o, kind, status) ==
  /\ Arrived(o, kind)
  /\ IF WithKey(Key(o)) # {}
     THEN /\ SetStatus(o, status)
          /\ cb' = [order |-> o, kind |-> kind, key |-> Key(o), stage |-> "sys", slot |-> 0]
          /\ UNCHANGED strays
     ELSE Recording(o, kind, Key(o)) /\ UNCHANGED <<slots, saved>>
  /\ UNCHANGED <<up, session, toRestore, restoring, job, sent>>

OnRtnOrder(o) == \E kind \in {"live"} \cup EndedStatus : OnOrder(o, kind, kind)
OnQueriedOrder(o) == OnOrder(o, "query", sent[o].state)

(* Of OnRtnTrade: the order is looked for by its OrderSysID only. *)
OnRtnTradeBySys(o) ==
  LET k == [order |-> o, session |-> session, whole |-> TRUE]
  IN /\ Arrived(o, "trade")
     /\ IF WithSys(o) # {}
        THEN /\ cb' = [order |-> o, kind |-> "trade", key |-> k, stage |-> "deliver", slot |-> 0]
             /\ UNCHANGED strays
        ELSE Recording(o, "trade", k)
     /\ UNCHANGED <<slots, saved, up, session, toRestore, restoring, job, sent>>

(* The key of a trade is made with the session of now. *)
OnRtnTrade(o) ==
  LET k == [order |-> o, session |-> session, whole |-> TRUE]
  IN /\ Arrived(o, "trade")
     /\ IF WithSys(o) # {} \/ WithKey(k) # {}
        THEN /\ cb' = [order |-> o, kind |-> "trade", key |-> k, stage |-> "deliver", slot |-> 0]
             /\ UNCHANGED strays
        ELSE Recording(o, "trade", k)
     /\ UNCHANGED <<slots, saved, up, session, toRestore, restoring, job, sent>>

CallbackRid ==
  /\ cb.stage = "rid"
  /\ slots' = [slots EXCEPT ![cb.slot].rid = direct]
  /\ strays' = strays \cup (Overwritten(cb.slot) \ {cb.order})
  /\ cb' = [cb EXCEPT !.stage = "key"]
  /\ UNCHANGED <<saved, up, session, toRestore, restoring, job, sent, reports>>

(* record_order with the status of the query, or as an order just inserted *)
CallbackKey ==
  /\ cb.stage = "key"
  /\ LET r == [slots[cb.slot] EXCEPT !.key = cb.key,
                 !.status = IF cb.kind = "query" THEN sent[cb.order].state ELSE "inserted"]
     IN slots' = [slots EXCEPT ![cb.slot] = r] /\ Save(r)
  /\ cb' = [cb EXCEPT !.stage = "sys"]
  /\ UNCHANGED <<up, session, toRestore, restoring, job, sent, reports, strays>>

(* record_order_orderSysID *)
CallbackSys ==
  /\ cb.stage = "sys"
  /\ IF WithKey(cb.key) # {}
     THEN LET s == First(WithKey(cb.key))
              r == [slots[s] EXCEPT !.sys = cb.order]
          IN slots' = [slots EXCEPT ![s] = r] /\ Save(r)
     ELSE UNCHANGED <<slots, saved>>
  /\ cb' = IF cb.kind = "query" THEN NoCall ELSE [cb EXCEPT !.stage = "deliver"]
  /\ UNCHANGED <<up, session, toRestore, restoring, job, sent, reports, strays>>

(* on_rtn_order, on_rtn_trade: the request the strategies are told of *)
RidTold == RidIn(IF cb.kind = "trade" THEN WithSys(cb.order) ELSE WithKey(cb.key))

Deliver ==
  /\ cb.stage = "deliver"
  /\ cb' = NoCall
  /\ UNCHANGED <<slots, saved, up, session, toRestore, restoring, job, sent, reports, strays>>

-----------------------------------------------------------------------------
(* The engine stops or is killed, at any point. *)
Crash ==
  /\ up
  /\ up' = FALSE
  /\ slots' = [s \in Slots |-> Free]                 \* cleanup, when it starts again
  /\ job' = NoJob /\ cb' = NoCall /\ reports' = {} /\ toRestore' = {} /\ restoring' = NoRestore
  /\ sent' = IF job.order = None THEN sent ELSE [sent EXCEPT ![job.order].state = "rejected"]
  /\ strays' = strays \cup (Own \ ShortKeys)
  /\ UNCHANGED <<saved, session>>

(* OnRspUserLogin, after a start or a lost connection; the reports of the  *)
(* time in between are not sent again, but the orders are queried.  It     *)
(* holds the mutex until the table is read back; the listening thread goes *)
(* on with its order.                                                      *)
Login ==
  /\ session < MaxSessions /\ toRestore = {} /\ cb = NoCall
  /\ up' = TRUE
  /\ session' = session + 1
  /\ toRestore' = DOMAIN saved
  /\ reports' = {[order |-> o, kind |-> "query"] :
                    o \in {p \in Orders : sent[p].state \in {"live"} \cup EndedStatus}}
  /\ UNCHANGED <<slots, saved, restoring, job, cb, sent, strays>>

(* deserilizeOrderInfo, one key: a slot for it when the table has it not *)
RestoreKey(k) ==
  /\ k \in toRestore /\ restoring = NoRestore
  /\ IF RidIn(WithKey(k)) # None
     THEN toRestore' = toRestore \ {k} /\ UNCHANGED <<restoring, strays>>
     ELSE /\ Writables # {}
          /\ restoring' = [key |-> k, slot |-> First(Writables)]
          /\ strays' = strays \cup Shared(First(Writables), k.order)
          /\ UNCHANGED toRestore
  /\ UNCHANGED <<slots, saved, up, session, job, cb, sent, reports>>

Restored(whole) ==
  [slots EXCEPT ![restoring.slot] =
     [@ EXCEPT !.rid = saved[restoring.key].rid, !.status = saved[restoring.key].status,
               !.key = [restoring.key EXCEPT !.whole = whole]]]

(* Of RestoreRecord: a byte less is copied, and no key has its end. *)
RestoreRecordShorter ==
  /\ restoring # NoRestore
  /\ slots' = Restored(FALSE)
  /\ toRestore' = toRestore \ {restoring.key} /\ restoring' = NoRestore
  /\ UNCHANGED <<saved, up, session, job, cb, sent, reports, strays>>

(* ... and what is written to it *)
RestoreRecord ==
  /\ restoring # NoRestore
  /\ slots' = Restored(restoring.key.order \in ShortKeys)
  /\ toRestore' = toRestore \ {restoring.key} /\ restoring' = NoRestore
  /\ UNCHANGED <<saved, up, session, job, cb, sent, reports, strays>>

(* ... or, when the table is full, a null pointer *)
RestoreFails(k) == k \in toRestore /\ restoring = NoRestore /\ WithKey(k) = {} /\ Writables = {} /\ Crash

CallbackGoesOn == CallbackRid \/ CallbackKey \/ CallbackSys \/ Deliver

TableNext ==
  \/ \E o \in Own : InsertOrder(o)
  \/ LocateSlot \/ RecordRid \/ RecordKey \/ Send
  \/ \E o \in Orders : OnRtnOrder(o) \/ OnQueriedOrder(o) \/ OnRtnTrade(o)
  \/ CallbackGoesOn
  \/ \E o \in Foreign : ForeignOrder(o)
  \/ \E o \in Orders, how \in EndedStatus : how \in Endings[o] /\ OrderEnds(o, how)
  \/ Crash \/ Login
  \/ \E k \in Keys : RestoreKey(k) \/ RestoreFails(k)
  \/ RestoreRecord

TableSpec == TableInit /\ [][TableNext]_tableVars

-----------------------------------------------------------------------------
(* An order that is live at the exchange is found in the table under its   *)
(* request id, whatever other orders have been recorded, ended and read    *)
(* back since, unless its record was lost or is of another session.        *)
LiveOrdersFound ==
  \A o \in Own \ strays :
     up /\ toRestore = {} /\ sent[o].state = "live" => RidIn(WithKey(Key(o))) = o

(* A report on an order goes to the request that made it, or to the direct *)
(* strategy when another terminal did.                                     *)
ReportsReachOwner ==
  cb.stage = "deliver" /\ cb.kind # "trade" /\ cb.order \notin strays => RidTold = RidOf(cb.order)

(* So does a trade; one that comes before the order's first report goes to *)
(* nobody's request, and after a new log-in it may be taken for one of     *)
(* another terminal.                                                       *)
TradesNotToOthers ==
  cb.stage = "deliver" /\ cb.kind = "trade" /\ cb.order \notin strays =>
     \/ RidTold \in {RidOf(cb.order), None}
     \/ RidTold = direct /\ sent[cb.order].session < session
=============================================================================
