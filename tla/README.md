# Formal verification of optionHedge

This directory holds TLA+ specifications of optionHedge (the sources under
`src/`), the TLC configurations that check them, and proofs checked by TLAPS.
Every definition is translated from the code; `PROJECT.json` gives, for each
one, the lines it stands for (`map`), the hazards of the code and the
properties that watch them (`hazards`), the runs, the mutants that show each
property can fail, and the theorems.

## 1. The system

optionHedge is a set of Linux processes on one machine that trade futures and
options through the CTP API of Chinese exchanges.

    strategies  --journal-->  trade engine (TDEngine)  --CTP-->  exchange
        ^  ^                      |        ^
        |  +-------journal--------+        | system journal (log in, exit,
        +----------journal--- market data engine (MDEngine)   subscriptions)
                                           |
    every process  <--socket, comm file-->  page engine (paged)

Processes talk through *journals*: append-only logs kept in memory-mapped page
files, one writer each, any number of polling readers, and no lock between
them.  The page engine hands out the pages.

| Component | State | Operations | Interacts with |
|---|---|---|---|
| Page, Frame (`memoryManage/journal`) | status and length bytes of frames in shared memory, position of each user | fill in, publish, pass, end the page, seek | writer and readers, by shared memory only |
| Journal, JournalWriter, JournalReader | current page, position, `expired`; the page files and their headers | write_frame, getNextFrame, seekTime, loadNextPage, expire | the page provider; other processes by the files |
| Page provider (client) | its slot of the comm file | register, getPage, exit | the engine: calls by socket, requests by shared memory |
| Page engine (`memoryManage/paged`) | registered clients, slots, page counts, mappings, the system journal | reg_client, reg_journal, exit_client, register_strategy, login_td, sub_md; the comm thread's polling | all of the above; two threads and a mutex |
| Request ids (`StrategyUtil`, `TSDataWrapper`) | range and next id of a strategy | get_rid; dispatch of answers | engine hands out ranges, trade engine answers with ids |
| Trade engine (`TD/ITDEngine`) | clients (alive, journal, account), direct and parked strategies | log in and out, orders, queries; answers on its own journal | system journal, journals of strategies |
| CTP trade engine (`TD/TDEngineCTP`) | state of the connection of each account | log in chain with retries, order and query callbacks on the API's threads | the exchange |
| Positions (`base/TDPosManage`) | positions and locked closes per account and instrument, locks of orders | autoOffset, setValue, setTodayPos, clearPos | listening thread and callback threads |
| Order tables (`base/TDUserStruct`) | request id, status and exchange id of orders | record, look up, set status, save and restore | listening thread and callback threads |
| Market data engine (`MD`) | connection, subscriptions asked for so far | subscribe, log in, tick callbacks | system journal, its own journal, the exchange |
| Strategy runtime (`strategy`) | connection status to each engine, running flag | connect, run, dispatch | journals |
| Twap, parked and direct strategies | maps of orders and contexts, timers, the map of request ids | orders from Kafka, timer and market callbacks | Kafka, strategy runtime |
| Conversion, dates, configuration, logging, redis, Kafka wrappers | none of their own | field copies and formatting | - |

What makes it hard: lock-free publication in shared memory; kills of any
process at any step, with files that survive; two threads of the page engine of
which one waits for the other; page numbers chosen first and requested later;
callbacks of the exchange that race the thread that sends orders; retries,
reconnection and queries that overlap with reports; timers against user
commands in the twap and parked strategies.

What makes each part correct is stated where it is modelled (sections 2 and 3) and
under `hazards`.

## 2. Modules

| Module | What it is | Proofs |
|---|---|---|
| `FrameLog` | abstract: one append-only log and a cursor per reader | |
| `Page` | the memory of one page, cell by cell; implements `FrameLog` | `FeedProofs` |
| `Journal` | the pages of a journal, its writer, readers, kills and restarts; implements `FrameLog` | `JournalProofs` |
| `PageEngine` | the page engine with its two threads, and its clients | `PageEngineProofs` |
| `CtpSession` | the trade engine's connections: log-in chain, queries of the initialisation, closing and opening the engine | `TradeEngineProofs` |
| `Positions` | positions and locks of one instrument: listening thread, callbacks and exchange | `PositionsProofs` |
| `OrderTable` | the table that says which request a report belongs to, with its copy in Redis | `TradeEngineProofs` |
| `TradeRequests` | strategies, the page engine's system journal and the trade engine: log-ins, requests and answers | `TradeRequestsProofs` |
| `MarketData` | the market data engine: log-in, subscriptions and their replay | `FeedProofs` |
| `TimeSection` | trading sections and times, as operators | |
| `TwapUnit` | orders executed in slices; uses `TimeSection` | `TwapUnitProofs` |
| `ParkUnit` | orders parked until a trigger | `FeedProofs` |

`FeedProofs` is about three modules that share no state, and `TradeEngineProofs` about
two.  `SumProofs` has the lemmas
about sums over finite sets that `TwapUnitProofs` and `PositionsProofs` use.
An `MC...` module makes instances of a module for TLC, with one `.cfg` for each run.
`Page`, `Journal` and `TradeRequests` describe journals at three levels of detail.
`Page` shows that frames of different lengths laid end to end can be told apart
from left-over data; `Journal` then treats a page as a row of slots, one per frame;
both are shown to implement the same abstract log: each attached reader is given
every frame, in order, once.  `TradeRequests` relies on that, and is about what the
merge of *several* journals by time stamps adds.

### 2.1 Page

`status[x]` and `length[x]` are what the bytes at cell `x` would say if a frame
header began there; data cells get arbitrary values.  The steps of
`Page::passWrittenFrame`, `Frame::setErrorData`, the two stores of
`Frame::setStatusWritten` and `Page::finishPage` are separate actions, with the
readers and a restart of the writer in between.  Stores become visible in program
order: the status byte is volatile and the machine is an x86; compiler
reordering of the plain stores around it is not modelled.  A frame together with
the header behind it is assumed to fit in `PAGE_MIN_HEADROOM`
(`PageAssumption`): the code does not check it, every message struct is far
smaller than the 2 MB.

### 2.2 Journal

| State | Code |
|---|---|
| `header`, `startNano` | existence and `PageHeader` of a page file |
| `status`, `nano`, `content` | the frames: status byte, time stamp, which write it was |
| `full` | less than the headroom is left |
| `wpc`, `wpage`, `wslot` | the writer: where it is inside `seekTime`, `write_frame_full` or `loadNextPage`, and its position |
| `rpc`, `rpage`, `rslot`, `since` | a reader: inside `seekTime` or polling, its position, the time it sought |
| `published`, `base`, `cursor` | history variables for the refinement |

The writer turns a page in three steps, in the order of `Journal::loadNextPage`:
the next page is allocated, its header is filled in, the old page is ended.  The
writer may be killed between any two (`CrashPoints`), after which the engine
still counts it as the page's writer and no successor is admitted until
everything is restarted (`Restart`).  A reader's seek is split where the code
lists the files and maps a page later.  `Revisers` are the readers of
`createRevisableReader` (the trade engine), whose pages are mapped writable: they
complete a blank header, and the trade engine completes payloads in place
(account ids); payload bytes are not modelled and `AppendOnly` speaks of status,
time and identity of a frame.

### 2.3 PageEngine

`status`, `journal`, `isWriter`, `page`, `lastPage` are the fields of `PageCommMsg`
(folder and name together are the journal).  `seen` splits the comm thread's
unlocked read of a status from the locked service of the request; `mutex` is held
across actions only where a call over the socket waits inside
(`SystemWrite`).  The client's `getPage` is split into asking and being answered;
`seekTime` into picking a page number from the files and asking for it.

Simplifications: a client opens one journal in the runs (`Opens` allows more); the
pool of spare pages (`TEMP_PAGE`) is left out because nothing fills it; the
slot's stale fields are cleared on exit, because the next user writes them before
anybody reads them; `reg_journal` for an unknown client is left out because the
client library registers first; a reader seeks again only after its journal was
expired, which is what the trade engine does; the engine is restarted only when
no client is alive.

### 2.4 CtpSession

`unit` holds, for each account, the flags and request ids of `AccountUnitCTP`.
A callback of the API is one action, since each of them holds `mtx`;
`OnFrontConnected`, `OnRspAuthenticate`, `OnRspUserLogin`,
`OnRspSettlementInfoConfirm`, `OnRspQryOrder`, `OnRspQryTrade` and
`OnRspQryInvestorPosition` form the chain, each of them sending the next request.
`dialog` and `asked` are the requests an account has under way at the exchange,
`book` counts how often each record (a row of an answer) has been added to
`TDPosManage`.  The constants `Refusable`, `Failing`, `AskedRows` and the bounds
say what the exchange may refuse for flow control (return code -3), answer with
an error, and what strategies query.  The listening thread closes the engine without the
mutex: `logout` takes back the flags of each account one after the other, and callbacks
may run between any two of these steps (`taken` is the last thing taken from each
account, `leaving` says that `ReqUserLogout` waits for its answer, `OnRspUserLogout`).
Then `release_api` goes through the accounts: it waits for the callback under way and
lets none follow, so what it resets after that is one step.  Waiting for a connection
and `sleep(30)` become the freedom to start listening at any time once logged in.

### 2.5 Positions

| State | Code |
|---|---|
| `known`, `pos` | `tdPos`: is there an entry for the account, and the details of each side |
| `recorded` | the keys (order reference, front, session) in the order table |
| `lockInfo`, `unlocked` | `orderLockInfo` and its `bunlocked` |
| `job` | the listening thread: after `autoOffset` (`read`), after `setValue` (`lock`), after `setLockInfo` (`record`) |
| `session`, `stage`, `answer` | the connection, how far the log-in chain is, the records of the query under way |
| `book`, `hold`, `reports` | external: the exchange's orders and positions, and its reports under way, in order |

The listening thread's handling of an order is split where another thread can
act: `autoOffset` reads without the mutex, `setValue` locks under it,
`record_order` and `setLockInfo` come next, `ReqOrderInsert` last.  A callback is
one action.  The exchange checks that a closing order has its position, trades one
unit at a time, cancels, and takes orders of other terminals.  Reports made while
nobody is logged in are lost (topics are resumed with `THOST_TERT_QUICK`); a
rejection by the front goes to the session that sent the order.

Simplifications: one instrument and one account, as the code keeps them apart by
key; the order table never forgets a key (what happens when slots are used again is in
`OrderTable`); the log-in chain is the undisturbed one of
`CtpSession`; yesterday's position is what the account began the day with.
`mishaps` is a history variable: it notes losses of the connection in the middle of
an order, and a cancellation that was under way when the order query was answered.

### 2.6 OrderTable

`slots` is `info->orders`, `saved` its records in Redis, `job` the listening thread
inside `req_order_insert`, `cb` the callback that holds the mutex.  Neither the table nor
the listening thread has a lock, so the steps of both are interleaved: the key is made
with the session of the moment (`InsertOrder`), a slot is looked for (`LocateSlot`),
request id and key are stored apart (`RecordRid`, `RecordKey`), and the order is sent
(`Send`), which takes as long as `ReqOrderInsert` is refused.  The account may lose its
connection and log in again between any two of them (`Login` keeps `job`).
`sent` and `reports` are the exchange, external.
`deserilizeOrderInfo` reads the records back one after the other (`toRestore`): a slot for
a key the table has not (`restoring`), and then what is written to it; it
cuts keys to 13 bytes (`ShortKeys` survive).  `strays` is a history variable: the
orders whose record the table has lost by now, because a slot was given to two
orders, was used again while a report was under way, because a key was cut, or the table
was full, and those that were recorded in one session and sent in another.  The
properties are about all other orders.

### 2.7 TimeSection and TwapUnit

`TimeSection` computes with `HHMMSS` numbers as the code does; a time before the
clearing of the day counts as 24 hours later.  In `TwapUnit`, `orders` and `contexts`
are the two maps, which `InsertOrder` fills one after the other (`inserting` is the
order in between).  The main loop is a round (`timer`): it visits the orders in
`todo`, may decide on a slice (`events`), and places what it collected.  `moment` is
the clock; any number of steps may happen between two times.  The sections of a product
are assumed to stand in the configuration in the order of the trading day and without
overlap (`OrderAssumption`): all loops of `CTimesection` rely on that.  Sums of doubles that
are rounded up may come out one lot too high: `WantVol` is a choice of the two.
`placed`, `seen` and `disturbed` are history variables.

### 2.8 ParkUnit

`work` says what each of the two threads is at: checking an order, filling in the
request, making the reference (two steps, because `genOrderRef` reads and writes
static counters), inserting the order, marking it as sent.  `tickers`, `latestTick`
and `exchStatus` are what callbacks keep.  The history variable `met` notes orders
on which both threads have been at work at once; `held` those whose trigger was
pulled at some time since they were parked.

### 2.9 TradeRequests

| State | Code |
|---|---|
| `frames` | frames of the system journal and of the strategies' journals, in the order of their stamps; a frame is stamped in one step and becomes visible in another |
| `strategy`, `threads` | `StrategyUtil`'s counter of request ids, the data thread of `TSDataWrapper`, the map of ids in `directStrategy`; the threads that make requests |
| `te`, `scan` | the trade engine: where its reader is in each journal, clients, and `getNextFrame` under way: the journals are polled one by one |
| `asked`, `td` | requests at the exchange (external), the trade engine's journal of answers |
| `taken`, `dropped`, `hasty`, `told` | history: requests passed on, left because the account is not logged in, taken before the log-in of their run, and answers given to clients |

Strategies end by themselves (`Exit`); one that is killed stays registered until the
page engine starts again, as in `PageEngine`, and is left out here.

### 2.10 MarketData

`md` holds the flags `connected` and `logged_in`, whether the API is there, and the
reader's position; `subs` the tickers of the running batch (`subs_tickers`) and the
keys of `history_subs`; `listener` and `callback` say where the two threads are.  A
batch is remembered frame by frame; at its end the flag is looked at (`check`) and
the API is called (`call`) in two steps, so that the callback thread may log in,
lose the connection or replay in between.  `on_engine_close` is three steps (log out,
flags, release), and `release_api` leaves `connected` as it is; `on_engine_open` makes an
API only if neither flag says that there is a connection or a log-in (`try_login`).  The walk of the callback thread through `history_subs` is not
locked: if the listening thread adds a ticker meanwhile, any may be passed over
(`torn`).  `front` is external: the connection, the session, and what it was asked for.

## 3. Runs

Every run must pass.  What the code does not cope with is an explicit exception in
a property, or a bound that is named here and under `hazards` (section 4).

| Run | Checks | Bounds |
|---|---|---|
| `journal` | `ImplementsFrameLog`, `AppendOnly`, `SeekToStartedPageSkipsNothing`, `EveryFrameArrives` | 3 pages of 2 frames, 1 reader, clock 1..3, kills everywhere |
| `page` | `OnFrameBoundary`, `StaysInPage`, `ImplementsFrameLog` | 8 cells, headroom 3, frames of 1 and 3 cells |
| `page_engine` | `OneWriterPerJournal`, `CountsMatchSlots` | engine and 2 competing writers, a slot for each, 2 pages, the system journal may fill up |
| `page_engine_live` | `EveryRequestAnswered`, `CountsMatchSlots` | engine and a reader that turns pages, expires and seeks again; the system journal may fill up |
| `session` | `CountedOnce`, `LocksBeforeTrades` | 2 accounts, 2 records for each query, one lost connection, one closing step by step, no query of a strategy; anything but the order query may fail; accounts are alike, and so are records (`Symmetry`) |
| `session_live` | `PositionsGetLoaded`, `AllDoneIsAllCounted` | 2 accounts, any request may be refused, one lost connection, one query of a strategy, no closing |
| `positions` | `NothingOverclosed`, `ChosenClosesCovered`, `NoLockLeft`, `LiveOrdersLocked`, `LockedOnce` | an own order and a foreign one, volumes 1 and 2, 2 held, today and yesterday apart, one lost connection, `ReqOrderInsert` may fail |
| `order_table` | `LiveOrdersFound`, `ReportsReachOwner`, `TradesNotToOthers` | 2 own orders and a foreign one in 2 slots, 2 log-ins, with a restart or after a lost connection, at any step of an order; one short key |
| `twap` | `EveryLotOnce`, `OnSchedule`, `PlacedByTheEnd`, `CancelIsFinal` | 2 ids, 3 requests, a night section over midnight and a morning, 8 moments |
| `park` | `SentOnce`, `SentForAReason`, `RefsDiffer`, `EndIsFinal`, `TimedOrdersEnd` | 2 ids, 3 requests (a time, a price, an auction), 2 threads, a clock that passes midnight |
| `trade_requests` | `TakenOnce`, `NothingLeftAtEnd`, `AnswersReachAsker`, `LoginsAcknowledged`, `RequestsAnswered` | a strategy started twice with 1 request in each run, 3 request ids, the trade engine started twice, configured anew each time |
| `market_data` | `NothingForgotten`, `LoggedInHasApi`, `EverySubscriptionServed` | 2 tickers, 3 frames, 2 lost connections, 1 refusal, 2 starts |

The type invariants, `EndedPageHasNext`, `SlotsNotShared` and `FlagsInOrder` are not
in this table: they are proved (section 5), and follow from what is.

Why the bounds suffice: two pages are needed to turn one, three for a page that
is neither first nor last (which page a seek picks); two frames are a full page
with a first and a last frame; a clock of three gives equal, different and skipped
stamps; frames of one and three cells make the remains of a long frame look like two
short ones.  A second reader of a journal would share nothing with the first, but for
`Revisers`, which write headers: they are in the proofs, and not in a run.  Two writers are enough for a race for a page; a third would be refused
the same way.  For the positions, two held and orders of one and two give an order
that takes all, one that shares with the other terminal's, one that is traded in part
and then cancelled, and one that finds too little; two own orders that compete,
explicit openings and exchanges that do not keep today and yesterday apart are in the
module, and not in the run.  Three orders in
a table of two slots use one again.  The moments of `twap` and `park` lie before, on
and after each edge: the begin and end of an order, a section, a break, midnight.
Two runs of a strategy give a log-in after an end, a seek in a journal that has older
frames, and an id that is given out again; the second start of the trade engine may
come before, between and after them, and its configuration may name the strategy,
give it the default account, or neither.  Ids that wrap around inside a run, and two
threads of a strategy, are in the module (`RidRange`, `Threads`) and not in the run.
Three frames are a batch of two tickers and one after it, or a batch with a closing or
an opening of the engine in the middle.

Deadlock is not checked: the bounds stop the environment, orders end, and nobody
has to write, ask, connect or restart.

Fairness.  `Journal`: a call of the writer runs to its end, and readers poll in
loops of their own threads.  `PageEngine`: the comm thread goes round the slots
without end, so each slot is looked at again and again (`SF` on `CommPoll`: other
slots are served in between), and a spinning client sees its answer.  `CtpSession`:
only callbacks of the API, whose thread delivers the answers it has.  `ParkUnit`: both
threads, and the clock moves on (`TimedOrdersEnd` is about orders in the main loop).
`TradeRequests`: the listening thread, the callbacks (the exchange answers what it is
asked), the data thread of each strategy, and a request that was begun is finished.
`MarketData`: `start` returns, the listening thread runs, the front can be reached
again and answers.  Nothing is assumed to write, seek, register, subscribe, exit,
restart or lose a connection; all of that is bounded instead.

## 4. What the properties except

No text of the repository promises more than the code does, so each of these is an
exception inside a passing property, reached by its run, or a named bound:

* *Journals.*  A page file that is still being created has a header of zeroes, and
  `PageUtil::GetPageNumWithTime` prefers it to the page that holds the time
  (`SeekToStartedPageSkipsNothing`).  A writer killed inside a page turn leaves a
  page that never ends, on which readers wait for ever (`EveryFrameArrives`).
* *Page engine.*  A call over the socket holds the mutex while it writes to the
  system journal; when that page is full it waits for the comm thread, which waits
  for the mutex (`EveryRequestAnswered`).  `reg_journal`'s test for a full comm file
  is off by one, so that further journals share the slot behind the last: all
  properties and proofs assume room (`CommFileHasRoom`).  `release_page` looks a
  mapping up under folder and name swapped and never unmaps.
* *Session.*  A query refused for flow control is sent again under the next request id,
  while the answer is compared with the first one: the chain stops
  (`SentUnderAnotherId`).  The id of a position query's answer is not looked at at all.
  Closing and reopening the engine together with a strategy's query counts positions
  twice (`EachCountedOnce` assumes that there is not both).  While `logout` is at work the
  flags contradict each other, and a callback may set again what was just taken back:
  an account can be logged in and not authenticated, or confirmed and not logged in.
  `FlagsInOrder` promises the order of the flags before the closing and after it only.
* *Positions.*  A connection lost in the middle of an order, a cancellation that
  overlaps the order query (`mishaps`); an account without an entry, for which
  `autoOffset` counts the position when the order is sent and `OnRtnTrade` again.
* *Order table.*  When the account loses its connection and logs in again between
  `record_order` and `ReqOrderInsert` (which sleeps and tries again while it is refused),
  the order is recorded under the session that is over and sent in the new one: its
  reports find no record, and the direct strategy is told of them.  Such an order is a
  stray, from the moment it is sent.  A slot is used again while its order's last reports are under way;
  an `OrderSysID` outlives its order; keys are cut when they are read back; a full
  table ends in a null pointer; `OnRspOrderInsert` never frees a slot, nor does a
  foreign order that is first reported as cancelled.
* *Twap orders.*  An order is in the map before its context is: a round in between
  follows a null pointer.  A cancellation that comes inside a round is overwritten.
* *Parked orders.*  Two threads at work on one order send it twice; references made
  at the same time may be equal; one variable keeps the state of all instruments.
* *Requests.*  A request that overtakes its own log-in in the merge is taken twice
  (`hasty`); the last id of a range is dispatched to nobody; ids that are used again or
  read by two threads at once, and answers that come before the id is in the map, go
  astray; a strategy on the default account gets no acknowledgement; after a restart
  of the trade engine strategies are not served until they log in again;
  `req_qry_trade` returns no value.
* *Market data.*  A log-in answered between the flags being taken back and the API
  being released leaves the flag with a null API (`late`).  `OnFrontConnected` in the same
  place leaves `connected` set, `try_login` then skips `connect`, and the engine gets no
  API until it has been closed once more (`FlagsWithoutApi`, the exception of
  `EverySubscriptionServed`, reached by its run).  A disturbed walk (`torn`);
  refused calls are not repeated; a log-in that takes longer than `start` sleeps
  leaves the engine without a listening thread; a restart forgets what strategies
  subscribed to; a batch without its last ticker waits.

## 5. Proofs

The theorems hold for every value of the constants that satisfies the modules'
assumptions; `PROJECT.json` lists them.

*Journal* (`TypeCorrect`, `EndedPagesHaveNext`, `PublishedForGood`, `Refinement`,
`SeekingSkipsNothing`).  The
inductive invariant `IInv` is the type invariant with `PagesInOrder` (page files exist
without a gap, and `base` counts what precedes each), `WrittenIsPrefix` (in a page the
written frames come first), `ContentFollowsBase` (a written slot holds the write its
position says), `PagesAreChained` (an ended page is followed by one that begins where
it stops), `EndedPageHasNext`, `WriterAtEnd` (the writer is at the end of the last page,
or in the middle of turning it) and `ReaderInPlace` (a reader's cursor is what its
position says).  The refinement needs nearly all of it: that a reader at PAGE_END goes
on with the right frame is `PagesAreChained` and `ReaderInPlace`; that a restarted
writer appends is `WriterAtEnd`.  There is a lemma for each action.  Seeking needs the
clock as well: `PagesInTime` says that no stamp is ahead of it, and that what a page
holds was published before any later page was made and stamped before the header of
that one was filled in.

*Page* (`TypeCorrect`, `BoundariesRespected`, `WriterStaysInPage`, `Refinement`).  `IInv`
says that from the first cell to `tail` the frames are linked (`FramesLinked`), that
boundaries end at `tail` and `index` grows along them, that the status at `tail` is
not WRITTEN (`TailNotWritten`: what `setStatusWritten` is for), and that writer and
readers stand on boundaries.

*PageEngine* (`EngineTypes`, `SlotsHaveOneUser`, `JournalHasOneWriter`, `CountsAreOfSlots`), of behaviours
in which the comm file has a free slot (`Spec /\ []CommFileHasRoom`).  Slots belong to
registered clients and to one at a time (`SlotsOfClients`, `OneSlot`, `AtSlot`,
`SlotsNotShared`); `Asked` and `Served` relate a slot's status to where its client
and the comm thread are; `Counted` says that a page with a writer is counted as such,
and `Alone` that nobody else is admitted then; `EarlierFull` that a writer who turns a
page leaves full ones behind.  `OneWriterPerJournal` alone is not inductive: a page is
requested by number, so it takes `Counted` and `Asked` to know that the engine's count
still speaks of the writer at work.  `CountsMatchSlots` is proved on top of `IInv`: an
answer raises one count and lowers another, and the two must be of different pages
(`Turning`: nobody asks for the page he holds); what is said to be missing is held by
nobody, which a client relies on when it seeks anew (`SeeksAnew`).  A step changes what
one slot holds, and the sets of holders (`Holders`) lose or gain that slot and no other:
the cardinalities follow from the library's facts about adding and removing an element.

*CtpSession* (`SessionTypes`, `SessionFlags`, `EachCountedOnce`, `OrdersBeforeTrades`,
`AllDoneCountsAll`).  `DialogFollows` says that the dialog
under way is the one the flags ask for: an answer sets its flag without a look at the one
before.  `FlagsInOrder` promises little while the engine is closed, and takes two more
conjuncts to hold again after it: what is logged in is connected and has an API at all
times (`ApiFirst`), and an account whose API was taken is as `release_api` leaves it,
while nobody waits for the answer to a log-out when the closing is over (`ClosingInOrder`).
So whatever callbacks had set in between, the chain begins anew.
`ChainInOrder` says the same of the queries; `LocksKept`, `TradesKept` and
`PositionsKept` count how often the rows still to be answered, and those in the book,
have come.  `EachCountedOnce` assumes `MaxCloses = 0 \/ MaxQueries = 0`, and
`OrdersBeforeTrades` that the order query does not fail.  `AllDoneCountsAll` is the other
half, that nothing is missing (`IWhole`): as long as the chain waits for an answer, what
that answer has given so far is in the book (`TradesIn`, `PositionsIn`).  It takes the
assumptions of both, and that a strategy's query asks for the whole account.

*ParkUnit* (`ParkTypeCorrect`, `EndedStays`, `ParkedOrderSentOnce`, `TriggeredOrdersOnly`,
`ReferencesDiffer`).
`Once` relates what was sent to the status of the order and to the stage of each
thread; `ReasonInv` carries the reason through the steps of sending.  For the references
`RefsInv` says that one which is finished stays behind (`Behind`): its second is over, or
the counter has reached it, and the same holds of what a thread inside `genOrderRef` will
write.  The theorem assumes that the clock shows no second twice (`SecondsDiffer`), and
that a second has fewer than 1000 references (`FewPerSecond`): three digits are kept.

*TwapUnit* (`CancelledStays`, `LotsKept`, `SlotsKept`, `AllPlacedByTheEnd`).  The first is from `Shapes`: an
order that is ended is neither in the hands of the round nor among its slices, unless it
was cancelled inside it.  `Lots` says where the lots of each order are (`LotsOf`): in the
order, among the slices of the round, or placed; that an order whose context is missing
is the one being inserted, or was refused (`InsertingOK`); and that the round has its
hands on orders with a context only (`AtWork`).  `Schedule` adds `OnTime`: how much
trading lies before the time of this slot, and before that of the next (`Reached`).  The
lemma behind it is `StandardTime`: `getStandardTime` goes on by a gap of trading seconds,
whatever breaks and midnights lie between, or past the end of the day; `WantedVolume`
bounds what a slot may have done by then.  Both need sums over sets, and
the provers cannot use a theorem of induction: `IsSum` says what it is to be the
function of all the sums (with `SmallestSet` for the least counterexample), and `Sum` is
shown to be it, so that `MapThenSumSet` gains and loses an element as it should.
`SlotsKept` takes the assumption that the sections of a product stand in the configuration
in the order of the trading day (`OrderAssumption`), as the loops over them do.
`PlacedByTheEnd` is about what *happens* by a time, and needs to know that time is not
lost.  `EndInv` adds to `Schedule` that all slots of an order fit into its time (`AllInTime`;
the lemma is `TradingOfPart`: `getTotalSecond` is the trading between start and end), and
that an order which is neither cancelled nor disturbed has its next slot still to come
(`SlotsToCome`; `FirstToCome` for one whose context is not in the map yet).  So such an order
never meets a slot that has passed, is not over before its last slot (`SlotBeforeEnd`), and
its last slot takes all that is left (`LastSlot`).  When it ends, nothing of it waits among
the slices, because a round decides on an order once (`OneSlice`).  The theorem assumes
that no second of trading is missing in `Moments` (`EverySecondComes`): an order that was
not checked in one of them is `disturbed`, and a clock that jumps over a slot without a
trace would break the property.  The run's instance satisfies it (`ClockAssumption`).

*Positions* (`OneLockEach`, `LiveOrdersKeepLocks`, `NoLockStays`, `NothingIsOverclosed`,
`ChosenIsCovered`), for any finite sets of orders, any volumes, and with and without a
split of today's position.  All five compare the locks or the counts of a position with
sums over all orders; a step changes the summand of one order, so there is a lemma for
the order a step is about and one for the others, and the sums follow (`SumProofs`).
`PosInv` says which entries, reports and records can exist together: an order ends once,
has one end among the reports, and the keys in the tables are of orders that were placed
or are being placed.  The two that hold through lost connections are from `LocksInv`.
`UpperInv` bounds the locks by the volumes of the orders in the lock table, with the
share of the listening thread; `LowerInv` bounds them from below by what is left of the
orders that can still unlock it (`Held`: live, or with a cancellation under way).
Neither property is inductive: what is live but not in the table has a lock to come, and
a sent order has one that only its rejection gives back (`SentInv`).  The other three are
about an undisturbed connection.  There the locks are known exactly (`ExactInv`: the
volume of an order the engine has heard of, what it traded once it ended), because the
engine has heard of every order, or will (`HeardInv`).  With `HoldInv` (what the exchange
holds is what was opened less what was closed) and `CountInv` (what the engine has counted
is what was opened, but for trades still to be reported) they give what is closable.
An order that closes finds its volume (`ChosenInv`) because what `autoOffset` reads
without the mutex can only have grown when the lock is taken, other terminals aside.
`NothingIsOverclosed` and `ChosenIsCovered` assume `Entered`: the account has a position
to begin with, or no order leaves its offset to the engine.  Without it they are false:
for an account without an entry `autoOffset` itself counts the volume as opened today
(`TDPosManage.cpp:330`), and the trade counts it once more.

*OrderTable* (`TableInvariant`, `TableFindsLiveOrders`, `TableReportsReachOwner`,
`TableTradesNotToOthers`), for any orders, any size of the table and any number of
sessions.  None of the three properties is inductive.  A live order is found because
its record is in the table, or in Redis and still to be read back (`Kept`), and every
record under its key names its request (`RidsOK`).  That a slot taken by
`locate_writable` holds no such record needs what records say of orders: one that looks
ended is of an order that has ended (`RecordsOK`, `ReportsOK`, which also tell what is
still to be reported of it), and a slot is written in two steps, so `HalfWritten` says
what the thread between them may find in it, and that two threads in one slot have made
strays of both orders; `RestoreInPlace` says the same of the slot that
`deserilizeOrderInfo` has taken and not yet written.  The callbacks wait until the table is
read back (`Phases`), but the listening thread does not: it may take the slot
of a key that is being read back, and it may end an order it began in an
earlier session.  `JobInPlace` says that such an order is not at the exchange yet, and
`Send` makes a stray of it (`SessionKept`: of any other order the session never
changes once it is needed).  Trades look for the exchange's id, not
the key: `SysOK` says that an id is in the record of its own order only, `SysKnown` that
an order whose record looks ended can be found by it, or that the callback is about to
write it, and `TradeNotRecorded` and `TradeRecorded` follow a trade that found nothing and records its order as a
direct one, under a key of the present session.  `TableInv` joins these; there is a lemma
for what each step changes and one for each part.  `LeastSlot` gives `First` its slot,
the one `find_if` stops at.

*TradeRequests* (`TypeCorrect`, `RequestsTakenOnce`, `NothingLeft`, `AnswersFindAsker`), for
any number of strategies, threads, runs and starts of the engine.  `IFrames` is about the
writers: a run logs in once, may end once, and nothing of it comes after that; a frame
that cannot be seen is the last of its journal, and its writer is at work.  `IEngine` says
what the engine's cursors mean: a journal is attached from the log-in of a run to its end
(`Attached`, `Clients`), what lies between that log-in and the cursor was passed on, and
behind the cursor there is nothing of an earlier run (`AllPassed`).  `NothingLeft` needs
`Scans`: when the earliest frame of a scan is the end of a strategy, its own journal has
no frame before that which was not read, although it was looked at later; for what a
strategy wrote before its end can be seen when the end can (`SeenBeforeEnd`).
`RequestsTakenOnce` needs to know which requests can be taken again (`ITaken`): one that
is behind the cursor of its run, or whose log-in is yet to be read, and only the second
kind ever is.  `AnswersFindAsker` needs `IAnswers`: a request that can be seen is in the map
of its run, or about to be entered, unless a later one of its thread or one of another
thread has its id.  `LeastNumber` (every set of natural numbers has a least one, from the
library's theorem on finite sets) gives `getNextFrame` and `seekTime` their frame.

*MarketData* (`MarketTypeCorrect`, `ApiIsThere`, `NoTickerForgotten`).  `Remembered`: every ticker
that was read is in the history, and in the running batch until that has ended.
`Covered`: while there is a session, a ticker of an ended batch was asked for, or one
of the two threads still has it in its hands.  The step that matters is the listening
thread seeing no log-in: `SessionInv` says that then there is no session either, so the
callback thread is yet to read the history.  `AtEnd`, `Resting` and `InRange` say where
reader and threads are.

Only model-checked: liveness (all of it), which is out of this prover's reach.  Every
safety invariant and action property of the runs is a theorem.

## 6. What is left

In the order of its use: a composition of `OrderTable` and `Positions`, which share the
callbacks and are modelled apart because their product is out of TLC's reach; kills of strategies in
`TradeRequests` together with a restart of the page engine.

Not modelled, and why:

* The vendored JSON library and headers of the CTP API (`ThostFtdc*`) are half
  of the lines under `src/`; they are other people's code, and the API appears as an
  external actor.
* Message conversion (`transform.cpp`, `transfer.h`, `tdhelper.cpp`, the message
  structs): copies of fields without a state.
* Kafka transport: wrappers around librdkafka with threads that call a handler for
  each message; the handlers are modelled where they change a state.
* `LocalPageProvider` is compiled out by `USE_PAGED_SERVICE`; the page engine's pool of
  spare pages is never filled.
* Dates, configuration, logging, the Redis client, byte layouts of the socket: no
  protocol of their own.  Programs construct the components and run them.
* Other kinds of market data (L2, index, order and trade streams): not supported by
  the engine and not subscribed to.
