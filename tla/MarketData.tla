------------------------------ MODULE MarketData ------------------------------
(***************************************************************************)
(* The market data engine.  Its listening thread reads subscriptions from  *)
(* the system journal, remembers them (history_subs) and asks the front    *)
(* for them when it is logged in; the API's callback thread logs in after  *)
(* every connection and asks for all that is remembered.  The two share    *)
(* history_subs, the flags and the API without a lock.                     *)
(*                                                                         *)
(* Only market data is subscribed to by the programs of the repository:    *)
(* the other kinds are not supported by the engine and left out.  Prices   *)
(* are passed on to the strategies without a look at subscriptions.        *)
(***************************************************************************)
EXTENDS Integers, Sequences

CONSTANTS
  Tickers,
  None,
  MaxFrames,    \* bound: frames of the system journal
  MaxLosses,    \* bound: how often the connection is lost
  MaxRefusals,  \* bound: how many calls of the API are refused
  MaxStarts     \* bound: how often the engine is started

ASSUME NoneAssumption == None \notin Tickers
ASSUME BoundsAssumption == MaxFrames \in Nat /\ MaxLosses \in Nat /\ MaxRefusals \in Nat /\ MaxStarts \in Nat

VARIABLES
  journal,    \* the frames for this engine in the system journal
  md,         \* the engine: its program, its reader, api, connected, logged_in
  subs,       \* subs_tickers, and the keys of history_subs
  listener,   \* where the listening thread is
  callback,   \* where the callback thread is, and the tickers it has read
  front,      \* the front: the connection, the session, what it was asked for and refused
  faults,     \* how many losses and refusals there have been
  late,       \* history: a log-in that was answered while the engine let go of the API
  torn        \* history: the tickers that the last walk through history_subs passed over

marketVars == <<journal, md, subs, listener, callback, front, faults, late, torn>>

Frames == [kind: {"sub"}, ticker: Tickers, last: BOOLEAN] \cup [kind: {"open", "close"}, ticker: {None}, last: {TRUE}]

NoSubs == [tickers |-> {}, history |-> {}]
Quiet == [at |-> "idle", left |-> {}]
Away == [link |-> "down", session |-> "none", tickers |-> {}, refused |-> {}, rejected |-> FALSE]

(* start, at: where the reader began and has got to *)
Engine(state, start, run) ==
  [state |-> state, run |-> run, start |-> start, at |-> start,
   api |-> state = "starting", connected |-> FALSE, logged_in |-> FALSE]

MarketInit ==
  /\ journal = << >>
  /\ md = Engine("starting", 0, 1)
  /\ subs = NoSubs /\ listener = "poll" /\ callback = Quiet
  /\ front = Away /\ faults = [losses |-> 0, refusals |-> 0]
  /\ late = FALSE /\ torn = {}

-----------------------------------------------------------------------------
(* The page engine writes the system journal.  The flag of the last ticker *)
(* of a batch is missing when a strategy was killed half way through.      *)
Write(f) ==
  /\ Len(journal) < MaxFrames
  /\ journal' = Append(journal, f)
  /\ UNCHANGED <<md, subs, listener, callback, front, faults, late, torn>>

(* SubscribeMarketData, whose result nobody looks at: the front takes the  *)
(* tickers, or refuses; without a session nothing comes of it.             *)
Subscribed(wanted) ==
  \/ /\ front.session = "in"
     /\ front' = [front EXCEPT !.tickers = @ \cup wanted, !.refused = @ \ wanted]
     /\ UNCHANGED faults
  \/ /\ front.session = "in" /\ faults.refusals < MaxRefusals
     /\ front' = [front EXCEPT !.refused = @ \cup (wanted \ front.tickers)]
     /\ faults' = [faults EXCEPT !.refusals = @ + 1]
  \/ /\ front.session # "in"
     /\ UNCHANGED <<front, faults>>

-----------------------------------------------------------------------------
(* The program *)

(* try_login sleeps, and start looks at the flag: the listening thread     *)
(* starts now, or never.  (pre_run finds nothing remembered yet.)          *)
StartEnds ==
  /\ md.state = "starting"
  /\ md' = [md EXCEPT !.state = IF md.logged_in THEN "listening" ELSE "stuck"]
  /\ UNCHANGED <<journal, subs, listener, callback, front, faults, late, torn>>

(* The program ends, by a signal, a crash or when somebody stops it, *)
EngineEnds ==
  /\ md.state # "down" /\ md.run < MaxStarts
  /\ md' = Engine("down", 0, md.run)
  /\ subs' = NoSubs /\ listener' = "poll" /\ callback' = Quiet /\ front' = Away /\ late' = FALSE /\ torn' = {}
  /\ UNCHANGED <<journal, faults>>

(* and is started again: its reader begins with what is written from now.  *)
EngineStarts ==
  /\ md.state = "down"
  /\ md' = Engine("starting", Len(journal), md.run + 1)
  /\ UNCHANGED <<journal, subs, listener, callback, front, faults, late, torn>>

-----------------------------------------------------------------------------
(* The listening thread *)

NextFrame == journal[md.at + 1]

Polls(kind) ==
  /\ md.state = "listening" /\ listener = "poll"
  /\ md.at < Len(journal) /\ NextFrame.kind = kind

(* A ticker is remembered ... *)
(* Mutant: only when it cannot be asked for at once *)
ReadSubForgets ==
  /\ Polls("sub")
  /\ md' = [md EXCEPT !.at = @ + 1]
  /\ subs' = [tickers |-> subs.tickers \cup {NextFrame.ticker},
              history |-> IF md.logged_in THEN subs.history ELSE subs.history \cup {NextFrame.ticker}]
  /\ listener' = IF NextFrame.last THEN "check" ELSE "poll"
  /\ UNCHANGED <<journal, callback, front, faults, late, torn>>

ReadSub ==
  /\ Polls("sub")
  /\ md' = [md EXCEPT !.at = @ + 1]
  /\ subs' = [tickers |-> subs.tickers \cup {NextFrame.ticker}, history |-> subs.history \cup {NextFrame.ticker}]
  /\ listener' = IF NextFrame.last THEN "check" ELSE "poll"
  /\ UNCHANGED <<journal, callback, front, faults, late, torn>>

(* ... then, at the end of a batch, is_logged_in is looked at, *)
CheckLoggedIn ==
  /\ md.state = "listening" /\ listener = "check"
  /\ listener' = IF md.logged_in THEN "call" ELSE "poll"
  /\ UNCHANGED <<journal, md, subs, callback, front, faults, late, torn>>

(* and then the API is called, there or not. *)
CallApi ==
  /\ md.state = "listening" /\ listener = "call"
  /\ \/ /\ md.api /\ Subscribed(subs.tickers)
        /\ subs' = [subs EXCEPT !.tickers = {}]
        /\ listener' = "poll"
        /\ UNCHANGED md
     \/ /\ ~md.api
        /\ md' = [md EXCEPT !.state = "crashed"]
        /\ UNCHANGED <<subs, listener, front, faults>>
  /\ UNCHANGED <<journal, callback, late, torn>>

(* on_engine_open, which connects and sleeps: an API is made unless the    *)
(* flags say that there is a log-in, or a connection, already ...          *)
OpenEngine ==
  /\ Polls("open")
  /\ md' = [md EXCEPT !.at = @ + 1, !.api = @ \/ (~md.logged_in /\ ~md.connected)]
  /\ listener' = IF md.logged_in THEN "poll" ELSE "sleep"
  /\ UNCHANGED <<journal, subs, callback, front, faults, late, torn>>

OpenEnds ==
  /\ md.state = "listening" /\ listener = "sleep"
  /\ listener' = IF md.logged_in THEN "replay" ELSE "poll"
  /\ UNCHANGED <<journal, md, subs, callback, front, faults, late, torn>>

(* ... and asks for what is remembered (pre_run) *)
PreRun ==
  /\ md.state = "listening" /\ listener = "replay"
  /\ Subscribed(subs.history)
  /\ listener' = "poll"
  /\ UNCHANGED <<journal, md, subs, callback, late, torn>>

(* on_engine_close: logout asks the front, ... *)
CloseEngine ==
  /\ Polls("close")
  /\ \/ /\ md.logged_in => md.api
        /\ front' = IF md.logged_in /\ front.session = "in" THEN [front EXCEPT !.session = "out"] ELSE front
        /\ md' = [md EXCEPT !.at = @ + 1]
        /\ listener' = "flags"
     \/ /\ md.logged_in /\ ~md.api
        /\ md' = [md EXCEPT !.state = "crashed"]
        /\ UNCHANGED <<listener, front>>
  /\ UNCHANGED <<journal, subs, callback, faults, late, torn>>

(* ... takes back the flags *)
(* Mutant: the flag of the connection only *)
CloseFlagsHalf ==
  /\ md.state = "listening" /\ listener = "flags"
  /\ md' = [md EXCEPT !.connected = FALSE]
  /\ listener' = "release"
  /\ UNCHANGED <<journal, subs, callback, front, faults, late, torn>>

CloseFlags ==
  /\ md.state = "listening" /\ listener = "flags"
  /\ md' = [md EXCEPT !.connected = FALSE, !.logged_in = FALSE]
  /\ listener' = "release"
  /\ UNCHANGED <<journal, subs, callback, front, faults, late, torn>>

(* ... and lets go of the API, which has no callback under way then. *)
ReleaseApi ==
  /\ md.state = "listening" /\ listener = "release" /\ callback = Quiet
  /\ md' = [md EXCEPT !.api = FALSE]
  /\ front' = Away
  /\ listener' = "poll"
  /\ UNCHANGED <<journal, subs, callback, faults, late, torn>>

-----------------------------------------------------------------------------
(* The callback thread *)

Calls == md.api /\ callback = Quiet

(* OnFrontConnected sets the flag, and logs in unless it is logged in. *)
OnFrontConnected ==
  /\ Calls /\ front.link = "down"
  /\ front' = [front EXCEPT !.link = "up"]
  /\ md' = [md EXCEPT !.connected = TRUE]
  /\ callback' = [Quiet EXCEPT !.at = "ask"]
  /\ UNCHANGED <<journal, subs, listener, faults, late, torn>>

AskLogin ==
  /\ callback.at = "ask"
  /\ callback' = Quiet
  /\ \/ /\ ~md.logged_in /\ front.link = "up"
        /\ front' = [front EXCEPT !.session = "asked"]
        /\ UNCHANGED faults
     \/ /\ ~md.logged_in /\ front.link = "up" /\ faults.refusals < MaxRefusals
        /\ front' = [front EXCEPT !.rejected = TRUE]
        /\ faults' = [faults EXCEPT !.refusals = @ + 1]
     \/ /\ md.logged_in \/ front.link # "up"
        /\ UNCHANGED <<front, faults>>
  /\ UNCHANGED <<journal, md, subs, listener, late, torn>>

LoseConnection ==
  /\ front.link = "up" /\ faults.losses < MaxLosses
  /\ front' = [Away EXCEPT !.link = "lost"]
  /\ faults' = [faults EXCEPT !.losses = @ + 1]
  /\ UNCHANGED <<journal, md, subs, listener, callback, late, torn>>

(* Mutant: the session is taken to last *)
OnFrontDisconnectedHalf ==
  /\ Calls /\ front.link = "lost"
  /\ front' = [front EXCEPT !.link = "down"]
  /\ md' = [md EXCEPT !.connected = FALSE]
  /\ UNCHANGED <<journal, subs, listener, callback, faults, late, torn>>

OnFrontDisconnected ==
  /\ Calls /\ front.link = "lost"
  /\ front' = [front EXCEPT !.link = "down"]
  /\ md' = [md EXCEPT !.connected = FALSE, !.logged_in = FALSE]
  /\ late' = FALSE
  /\ UNCHANGED <<journal, subs, listener, callback, faults, torn>>

(* OnRspUserLogin: an error, or the flag ... *)
OnRspUserLogin ==
  /\ Calls /\ front.session = "asked"
  /\ \/ /\ front' = [front EXCEPT !.session = "in"]
        /\ md' = [md EXCEPT !.logged_in = TRUE]
        /\ callback' = [Quiet EXCEPT !.at = "read"]
        /\ late' = (late \/ listener = "release")
        /\ UNCHANGED faults
     \/ /\ faults.refusals < MaxRefusals
        /\ front' = [front EXCEPT !.session = "none", !.rejected = TRUE]
        /\ faults' = [faults EXCEPT !.refusals = @ + 1]
        /\ UNCHANGED <<md, callback, late>>
  /\ UNCHANGED <<journal, subs, listener, torn>>

(* ... and subscribeHistorySubs: it reads what is remembered, *)
ReadHistory ==
  /\ callback.at = "read"
  /\ callback' = IF subs.history = {} THEN Quiet ELSE [at |-> "call", left |-> subs.history]
  /\ torn' = {}
  /\ UNCHANGED <<journal, md, subs, listener, front, faults, late>>

(* and asks.  The map is walked through without a lock: when the listening *)
(* thread puts a ticker in meanwhile, any may be passed over.              *)
CallHistory ==
  /\ callback.at = "call"
  /\ \E seen \in SUBSET subs.history :
        /\ subs.history = callback.left => seen = callback.left
        /\ Subscribed(seen)
        /\ torn' = torn \cup (callback.left \ seen)
  /\ callback' = Quiet
  /\ UNCHANGED <<journal, md, subs, listener, late>>

(* OnRspUserLogout: the flag, or an error and the session goes on *)
OnRspUserLogout ==
  /\ Calls /\ front.session = "out"
  /\ \/ /\ front' = [front EXCEPT !.session = "none", !.tickers = {}, !.refused = {}]
        /\ md' = [md EXCEPT !.logged_in = FALSE]
        /\ UNCHANGED faults
     \/ /\ faults.refusals < MaxRefusals
        /\ front' = [front EXCEPT !.session = "in"]
        /\ faults' = [faults EXCEPT !.refusals = @ + 1]
        /\ UNCHANGED md
  /\ UNCHANGED <<journal, subs, listener, callback, late, torn>>

-----------------------------------------------------------------------------
Listening ==
  \/ ReadSub \/ CheckLoggedIn \/ CallApi
  \/ OpenEngine \/ OpenEnds \/ PreRun
  \/ CloseEngine \/ CloseFlags \/ ReleaseApi

Callbacks ==
  \/ OnFrontConnected \/ AskLogin \/ OnFrontDisconnected
  \/ OnRspUserLogin \/ ReadHistory \/ CallHistory \/ OnRspUserLogout

MarketNext ==
  \/ \E f \in Frames : Write(f)
  \/ StartEnds \/ EngineEnds \/ EngineStarts \/ LoseConnection
  \/ Listening \/ Callbacks

MarketSpec == MarketInit /\ [][MarketNext]_marketVars

(* Threads run, the front can be reached again and answers. *)
FairSpec == MarketSpec /\ WF_marketVars(StartEnds) /\ WF_marketVars(Listening) /\ WF_marketVars(Callbacks)

-----------------------------------------------------------------------------
(* What the engine shall be subscribed to: the batches it has read to the  *)
(* end.  (The rest of a batch waits for its last ticker.)                  *)
Batches(from, to) ==
  {journal[k].ticker : k \in {n \in from .. to :
     journal[n].kind = "sub" /\ \E m \in n .. to : journal[m].kind = "sub" /\ journal[m].last}}

(* Whenever both threads are done and the session is there, the front was  *)
(* asked for every batch that was read, now or in an earlier session,      *)
(* but for what a disturbed walk passed over (torn):                       *)
(* neither the listening thread, which looks at the flag after it has      *)
(* remembered, nor the callback thread, which sets the flag before it      *)
(* reads what is remembered, can leave a ticker to the other in vain.      *)
NothingForgotten ==
  md.state = "listening" /\ listener = "poll" /\ callback = Quiet /\ front.session = "in"
  => Batches(md.start + 1, md.at) \subseteq front.tickers \cup front.refused \cup torn

(* The listening thread calls the API when it is there.  (It is not when a *)
(* log-in was answered while the engine was being closed, after the flags  *)
(* were taken back.)                                                       *)
LoggedInHasApi == md.logged_in => md.api \/ late

(* The last thing the listening thread has been told is to close. *)
Closed ==
  \E k \in md.start + 1 .. md.at :
     journal[k].kind = "close" /\ \A m \in k + 1 .. md.at : journal[m].kind # "open"

(* A callback that came while the engine was being closed, between the     *)
(* flags and Release, has left a flag without an API: is_connected or      *)
(* is_logged_in is true, and no open makes an API before another close.    *)
FlagsWithoutApi == ~md.api /\ (md.connected \/ md.logged_in)

(* What a strategy subscribes to while the engine runs is asked for in the *)
(* end, whatever connections are lost and however often the engine is      *)
(* closed and opened: unless the log-in is refused or took too long at the *)
(* start, the call is refused, a disturbed walk passed it over, the engine *)
(* is closed, or closing it left a flag without an API (FlagsWithoutApi).  *)
Waiting(t) ==
  /\ md.state \in {"starting", "listening"} /\ ~Closed /\ ~FlagsWithoutApi /\ ~front.rejected
  /\ t \in Batches(md.start + 1, Len(journal)) \ (front.tickers \cup front.refused \cup torn)

EverySubscriptionServed == \A t \in Tickers : Waiting(t) ~> ~Waiting(t)
=============================================================================
