---------------------------- MODULE TradeRequests ----------------------------
(***************************************************************************)
(* Requests of the strategies and their answers.  A strategy logs in       *)
(* through the page engine, which writes the log-in, and later the end of  *)
(* the strategy, to the system journal.  The trade engine's listening      *)
(* thread merges that journal with those of the strategies by the times of *)
(* their frames (getNextFrame); it attaches a strategy's journal at the    *)
(* time of its log-in and lets go of it at its end.  It passes requests on *)
(* to the exchange, whose answers its callbacks write to the engine's own  *)
(* journal.  All strategies read that and pick answers by request id; a    *)
(* copy of an answer to somebody else goes to the account's direct         *)
(* strategy.                                                               *)
(*                                                                         *)
(* Journal.tla shows that one journal is read in order and in full; here a *)
(* frame is stamped in one step and can be seen in another, and pages are  *)
(* left out.                                                               *)
(***************************************************************************)
EXTENDS Integers, Sequences, FiniteSets, FiniteSetsExt

CONSTANTS
  Strategies,
  Direct,        \* the direct strategy of the account (directStratgeRid)
  Configurations,  \* what the engine may be started with: the strategies that are named, and
                 \* whether an account is the default one (default_account_index >= 0)
  Threads,       \* threads of a strategy that may make requests
  RidRange,         \* REQUEST_ID_RANGE
  CopyId,        \* REQUEST_ID_RANGE - 200: the id of copies within the direct strategy's range
  MaxRuns,       \* bound: how often a strategy is started
  MaxRequests,   \* bound: how many requests a thread of each strategy makes in a run
  MaxStarts,     \* bound: how often the trade engine is started
  Sys,           \* the system journal
  None

ASSUME StrategiesAssumption ==
  Direct \in Strategies /\ Configurations \subseteq [named: SUBSET Strategies, default: BOOLEAN]
ASSUME RangeAssumption == RidRange \in Nat \ {0} /\ CopyId \in 0 .. (RidRange - 1)
ASSUME BoundsAssumption ==
  MaxRuns \in [Strategies -> Nat] /\ MaxRequests \in [Strategies -> Nat] /\ MaxStarts \in Nat
ASSUME NamesAssumption == Sys \notin Strategies

Journals == Strategies \cup {Sys}

(* The nth request of a thread; no is what it reads from cur_rid. *)
Requests == [s: Strategies, run: Nat, thread: Threads, nth: Nat, no: Nat]

ASSUME NoneAssumption == None \notin Requests

Id(q) == q.no % RidRange

VARIABLES
  frames,      \* the frames of all journals in the order of their stamps
  strategy,    \* each strategy: see NewRun
  threads,     \* its requesting threads: the request one is at, and how far
  te,          \* the trade engine: its configuration, where it started and has got to, its clients
  scan,        \* getNextFrame under way: journals it has still to look at, the frame it would take
  asked,       \* requests at the exchange
  td,          \* the journal of the trade engine
  taken,       \* history: how often each request was passed on to the exchange,
  dropped,     \* requests read and left, because the account was not logged in,
  hasty,       \* requests taken before the log-in of their run,
  told         \* and answers a strategy has passed on to its client

vars == <<frames, strategy, threads, te, scan, asked, td, taken, dropped, hasty, told>>

Off == -1
NoFrame == 0
Idle(nth) == [stage |-> "idle", nth |-> nth, no |-> 0]
NoScan == [on |-> FALSE, left |-> {}, best |-> NoFrame]
NoIds == [i \in 0 .. (RidRange - 1) |-> None]

(* state: the data thread, and its tds[source] once it reads *)
NewRun(run) == [run |-> run, state |-> "init", cur_rid |-> 0, at |-> 0, ids |-> NoIds]
Down(run) == [NewRun(run) EXCEPT !.state = "down"]

(* load and init *)
NewEngine(run, start, c) ==
  [up |-> TRUE, run |-> run, config |-> c, start |-> start,
   cursor |-> [j \in Journals |-> IF j = Sys THEN start ELSE Off], clients |-> c.named, alive |-> {}]

Init ==
  /\ frames = << >>
  /\ strategy = [s \in Strategies |-> Down(0)]
  /\ threads = [s \in Strategies |-> [t \in Threads |-> Idle(0)]]
  /\ te \in {NewEngine(1, 0, c) : c \in Configurations}
  /\ scan = NoScan /\ asked = {} /\ td = << >>
  /\ taken = << >> /\ dropped = {} /\ hasty = {} /\ told = {}

-----------------------------------------------------------------------------
(* Journals *)

Frame(j, kind, s, q) == [journal |-> j, kind |-> kind, s |-> s, run |-> strategy[s].run, q |-> q, visible |-> FALSE]

Of(k, kind, s, run) == frames[k].kind = kind /\ frames[k].s = s /\ frames[k].run = run

Writing(j) == \E k \in DOMAIN frames : frames[k].journal = j /\ ~frames[k].visible

Stamp(f) == ~Writing(f.journal) /\ frames' = Append(frames, f)       \* a writer at a time

Publish(j) ==
  /\ Writing(j)
  /\ frames' = [k \in DOMAIN frames |->
                  IF frames[k].journal = j THEN [frames[k] EXCEPT !.visible = TRUE] ELSE frames[k]]

(* Mutants: the first frame of the journal, and the end of it *)
SeekTimeFirst(j, k) == 0
SeekTimeNow(j, k) == Len(frames)

(* seekTime(stamp of frame k): passToTime stops at a frame that cannot be seen *)
SeekTime(j, k) == Min({k} \cup {i - 1 : i \in {n \in 1 .. k : frames[n].journal = j /\ ~frames[n].visible}})

NextVisible(j) ==
  LET later == {k \in DOMAIN frames : frames[k].journal = j /\ k > te.cursor[j]}
  IN IF te.cursor[j] = Off \/ later = {} \/ ~frames[Min(later)].visible THEN NoFrame ELSE Min(later)

-----------------------------------------------------------------------------
(* A strategy and the page engine's part in it *)

(* register_strategy: the range of the configuration, cur_rid = 0 *)
Start(s) ==
  /\ strategy[s].state = "down" /\ strategy[s].run < MaxRuns[s]
  /\ strategy' = [strategy EXCEPT ![s] = NewRun(@.run + 1)]
  /\ UNCHANGED <<frames, threads, te, scan, asked, td, taken, dropped, hasty, told>>

(* pre_run: the reader from now on, and td_connect, on which login_td writes ... *)
Connect(s) ==
  /\ strategy[s].state = "init"
  /\ Stamp(Frame(Sys, "login", s, None))
  /\ strategy' = [strategy EXCEPT ![s].state = "connecting", ![s].at = Len(td)]
  /\ UNCHANGED <<threads, te, scan, asked, td, taken, dropped, hasty, told>>

(* ... and returns. *)
Connected(s) ==
  /\ strategy[s].state = "connecting"
  /\ Publish(Sys)
  /\ strategy' = [strategy EXCEPT ![s].state = "REQUESTED"]
  /\ UNCHANGED <<threads, te, scan, asked, td, taken, dropped, hasty, told>>

Request(s, t) == [s |-> s, run |-> strategy[s].run, thread |-> t, nth |-> threads[s][t].nth, no |-> threads[s][t].no]

(* A client's request: get_rid reads its counter ... *)
ReadRid(s, t) ==
  /\ strategy[s].state \notin {"down", "ending"}
  /\ threads[s][t].stage = "idle" /\ threads[s][t].nth < MaxRequests[s]
  /\ threads' = [threads EXCEPT ![s][t] = [stage |-> "rid", nth |-> @.nth + 1, no |-> strategy[s].cur_rid]]
  /\ UNCHANGED <<frames, strategy, te, scan, asked, td, taken, dropped, hasty, told>>

(* ... writes it, and write_frame takes the writer, *)
StampRequest(s, t) ==
  /\ threads[s][t].stage = "rid"
  /\ Stamp(Frame(s, "request", s, Request(s, t)))
  /\ strategy' = [strategy EXCEPT ![s].cur_rid = threads[s][t].no + 1]
  /\ threads' = [threads EXCEPT ![s][t].stage = "frame"]
  /\ UNCHANGED <<te, scan, asked, td, taken, dropped, hasty, told>>

PublishRequest(s, t) ==
  /\ threads[s][t].stage = "frame"
  /\ Publish(s)
  /\ threads' = [threads EXCEPT ![s][t].stage = "map"]
  /\ UNCHANGED <<strategy, te, scan, asked, td, taken, dropped, hasty, told>>

(* Mutant: the map goes by the id the counter has already moved on to *)
MapRequestNextId(s, t) ==
  /\ threads[s][t].stage = "map"
  /\ strategy' = [strategy EXCEPT ![s].ids[(Id(Request(s, t)) + 1) % RidRange] = Request(s, t)]
  /\ threads' = [threads EXCEPT ![s][t] = Idle(@.nth)]
  /\ UNCHANGED <<frames, te, scan, asked, td, taken, dropped, hasty, told>>

(* and only then m_mapReqID gets the id (DoReqQryOrder and the like). *)
MapRequest(s, t) ==
  /\ threads[s][t].stage = "map"
  /\ strategy' = [strategy EXCEPT ![s].ids[Id(Request(s, t))] = Request(s, t)]
  /\ threads' = [threads EXCEPT ![s][t] = Idle(@.nth)]
  /\ UNCHANGED <<frames, te, scan, asked, td, taken, dropped, hasty, told>>

(* The program ends: its threads have stopped when its writer goes, on     *)
(* which exit_client writes STRATEGY_END ...                               *)
Exit(s) ==
  /\ strategy[s].state \in {"REQUESTED", "ACK_POS"}
  /\ \A t \in Threads : threads[s][t].stage = "idle"
  /\ Stamp(Frame(Sys, "end", s, None))
  /\ strategy' = [strategy EXCEPT ![s].state = "ending"]
  /\ UNCHANGED <<threads, te, scan, asked, td, taken, dropped, hasty, told>>

(* ... and returns. *)
Exited(s) ==
  /\ strategy[s].state = "ending"
  /\ Publish(Sys)
  /\ strategy' = [strategy EXCEPT ![s] = Down(@.run)]
  /\ threads' = [threads EXCEPT ![s] = [t \in Threads |-> Idle(0)]]
  /\ UNCHANGED <<te, scan, asked, td, taken, dropped, hasty, told>>

(* The client's request an answer is passed on for: none when its id is not in the map *)
ToldOf(s, answer) ==
  [of |-> answer.q, by |-> s, run |-> strategy[s].run, as |-> strategy[s].ids[answer.id],
   early |-> \E t \in Threads : threads[s][t].stage = "map" /\ Request(s, t) = answer.q]

(* TSDataWrapper::run, one frame: an acknowledgement, or an answer in the  *)
(* strategy's range, the last id of which is left out.                     *)
ReadTd(s) ==
  LET e == td[strategy[s].at + 1]
  IN /\ strategy[s].state \in {"REQUESTED", "ACK_POS"} /\ strategy[s].at < Len(td)
     /\ strategy' = [strategy EXCEPT ![s].at = @ + 1,
          ![s].state = IF e.kind = "ack" /\ e.s = s THEN "ACK_POS" ELSE @]
     /\ told' = IF e.kind = "answer" /\ e.s = s /\ e.id < RidRange - 1
                THEN told \cup {ToldOf(s, e)} ELSE told
     /\ UNCHANGED <<frames, threads, te, scan, asked, td, taken, dropped, hasty>>

-----------------------------------------------------------------------------
(* The trade engine's listening thread *)

(* getNextFrame looks at one journal after another, the system journal     *)
(* first, and keeps the earliest frame it sees.                            *)
ScanFirst ==
  /\ te.up /\ scan = NoScan
  /\ scan' = [on |-> TRUE, left |-> {s \in Strategies : te.cursor[s] # Off}, best |-> NextVisible(Sys)]
  /\ UNCHANGED <<frames, strategy, threads, te, asked, td, taken, dropped, hasty, told>>

(* Mutant: the first frame seen, whatever its time *)
ScanNextAnyTime(s) ==
  /\ scan.on /\ s \in scan.left
  /\ scan' = [scan EXCEPT !.left = @ \ {s}, !.best = IF @ = NoFrame THEN NextVisible(s) ELSE @]
  /\ UNCHANGED <<frames, strategy, threads, te, asked, td, taken, dropped, hasty, told>>

ScanNext(s) ==
  /\ scan.on /\ s \in scan.left
  /\ LET k == NextVisible(s)
     IN scan' = [scan EXCEPT !.left = @ \ {s},
                             !.best = IF k # NoFrame /\ (@ = NoFrame \/ k < @) THEN k ELSE @]
  /\ UNCHANGED <<frames, strategy, threads, te, asked, td, taken, dropped, hasty, told>>

ScanInVain ==
  /\ scan.on /\ scan.left = {} /\ scan.best = NoFrame
  /\ scan' = NoScan
  /\ UNCHANGED <<frames, strategy, threads, te, asked, td, taken, dropped, hasty, told>>

(* passFrame *)
Take(kind) ==
  /\ scan.on /\ scan.left = {} /\ scan.best # NoFrame
  /\ frames[scan.best].kind = kind
  /\ scan' = NoScan

Taken == frames[scan.best]
Passed == [te.cursor EXCEPT ![Taken.journal] = scan.best]

Ack(s) == [kind |-> "ack", s |-> s, id |-> 0, q |-> None]

(* Mutant: a client that is configured gets no acknowledgement either *)
AddClientSilently ==
  LET s == Taken.s
  IN /\ Take("login")
     /\ te' = IF s \in te.clients \ te.alive \/ te.config.default
              THEN [te EXCEPT !.cursor = [Passed EXCEPT ![s] = SeekTime(s, scan.best)],
                              !.clients = @ \cup {s}, !.alive = @ \cup {s}]
              ELSE [te EXCEPT !.cursor = Passed]
     /\ UNCHANGED <<frames, strategy, threads, asked, td, taken, dropped, hasty, told>>

(* add_client.  One that is not configured gets the default account, and   *)
(* no acknowledgement; one that is alive already gets none either.         *)
AddClient ==
  LET s == Taken.s
      attached == [te EXCEPT !.cursor = [Passed EXCEPT ![s] = SeekTime(s, scan.best)],
                             !.clients = @ \cup {s}, !.alive = @ \cup {s}]
  IN /\ Take("login")
     /\ \/ /\ s \notin te.clients /\ te.config.default
           /\ te' = attached
           /\ UNCHANGED td
        \/ /\ s \in te.clients \ te.alive
           /\ te' = attached
           /\ td' = Append(td, Ack(s))
        \/ /\ IF s \in te.clients THEN s \in te.alive ELSE ~te.config.default
           /\ te' = [te EXCEPT !.cursor = Passed]
           /\ UNCHANGED td
     /\ UNCHANGED <<frames, strategy, threads, asked, taken, dropped, hasty, told>>

(* remove_client *)
RemoveClient ==
  LET s == Taken.s
  IN /\ Take("end")
     /\ te' = IF s \in te.clients
              THEN [te EXCEPT !.cursor = [Passed EXCEPT ![s] = Off], !.alive = @ \ {s}]
              ELSE [te EXCEPT !.cursor = Passed]
     /\ UNCHANGED <<frames, strategy, threads, asked, td, taken, dropped, hasty, told>>

Count(q) == IF q \in DOMAIN taken THEN taken[q] ELSE 0

LoginUnread(q) == \E l \in DOMAIN frames : l > te.cursor[Sys] /\ Of(l, "login", q.s, q.run)

(* A request, passed on when the account is logged in *)
PassRequest ==
  LET q == Taken.q
  IN /\ Take("request")
     /\ te' = [te EXCEPT !.cursor = Passed]
     /\ \/ /\ asked' = asked \cup {q}
           /\ taken' = [p \in DOMAIN taken \cup {q} |-> IF p = q THEN Count(q) + 1 ELSE taken[p]]
           /\ UNCHANGED dropped
        \/ /\ dropped' = dropped \cup {q}
           /\ UNCHANGED <<asked, taken>>
     /\ hasty' = IF LoginUnread(q) THEN hasty \cup {q} ELSE hasty
     /\ UNCHANGED <<frames, strategy, threads, td, told>>

(* A callback: on_rsp_..., with the copy for the direct strategy *)
Answer(q) ==
  LET answer(s, id) == [kind |-> "answer", s |-> s, id |-> id, q |-> q]
  IN /\ te.up /\ q \in asked
     /\ asked' = asked \ {q}
     /\ td' = td \o (IF q.s = Direct THEN <<answer(q.s, Id(q))>>
                     ELSE <<answer(q.s, Id(q)), answer(Direct, CopyId)>>)
     /\ UNCHANGED <<frames, strategy, threads, te, scan, taken, dropped, hasty, told>>

(* The trade engine ends, between two frames, and is started again: its    *)
(* reader begins with what is written from then on (createRevisableReader).*)
EngineEnds ==
  /\ te.up /\ scan = NoScan
  /\ te' = [te EXCEPT !.up = FALSE]
  /\ asked' = {}
  /\ UNCHANGED <<frames, strategy, threads, scan, td, taken, dropped, hasty, told>>

EngineStarts ==
  /\ ~te.up /\ te.run < MaxStarts
  /\ \E c \in Configurations : te' = NewEngine(te.run + 1, SeekTime(Sys, Len(frames)), c)
  /\ UNCHANGED <<frames, strategy, threads, scan, asked, td, taken, dropped, hasty, told>>

-----------------------------------------------------------------------------
Listening == ScanFirst \/ (\E s \in Strategies : ScanNext(s)) \/ ScanInVain
               \/ AddClient \/ RemoveClient \/ PassRequest
Callbacks == \E q \in asked : Answer(q)
DataThread(s) == Connect(s) \/ Connected(s) \/ ReadTd(s) \/ Exited(s)
Requesting(s, t) == StampRequest(s, t) \/ PublishRequest(s, t) \/ MapRequest(s, t)

Next ==
  \/ Listening \/ Callbacks
  \/ \E s \in Strategies : Start(s) \/ DataThread(s) \/ Exit(s)
                             \/ \E t \in Threads : ReadRid(s, t) \/ Requesting(s, t)
  \/ EngineEnds \/ EngineStarts

Spec == Init /\ [][Next]_vars

(* Threads run, and the exchange answers what it is asked. *)
FairSpec ==
  /\ Spec
  /\ WF_vars(Listening) /\ WF_vars(Callbacks)
  /\ \A s \in Strategies : WF_vars(DataThread(s)) /\ \A t \in Threads : WF_vars(Requesting(s, t))

-----------------------------------------------------------------------------
(* No request is passed on to the exchange twice, whatever strategies and  *)
(* engine are started again and journals are sought in anew; twice only    *)
(* when the strategy ended, started and asked between the looks at the     *)
(* system journal and at its own, so that its request overtook its log-in. *)
TakenOnce == \A q \in DOMAIN taken : taken[q] <= IF q \in hasty THEN 2 ELSE 1

Served(s) == s \in te.config.named \/ te.config.default

(* When the trade engine lets go of a strategy's journal, it has seen every *)
(* request the strategy made after its log-in: it merges two journals that  *)
(* it polls one after the other, and the end is in the other one.           *)
NothingLeftAtEnd ==
  \A k \in DOMAIN frames : frames[k].kind = "request" =>
    LET s == frames[k].s
        run == frames[k].run
    IN /\ Served(s)
       /\ \E l \in (te.start + 1) .. k : Of(l, "login", s, run)
       /\ \E e \in 1 .. te.cursor[Sys] : Of(e, "end", s, run)
       => frames[k].q \in DOMAIN taken \cup dropped

(* An answer is passed on to the client for its own request.  It is passed *)
(* on for none when it comes before the id is in the map, or to a run that *)
(* did not ask; for another one when that has the same id and came later   *)
(* or from another thread.  (Copies go by an id of their own.)             *)
At(q) == CHOOSE k \in DOMAIN frames : frames[k].q = q

AnswersReachAsker ==
  \A a \in told : a.by = a.of.s =>
    \/ a.as = a.of
    \/ a.as = None /\ (a.early \/ a.of.run < a.run)
    \/ /\ a.as # None /\ a.as.s = a.by /\ Id(a.as) = Id(a.of)
       /\ a.early \/ At(a.of) < At(a.as) \/ a.of.thread # a.as.thread

(* The engine was started after the strategy's log-in was written. *)
Missed(s) == ~te.up \/ \E l \in 1 .. te.start : Of(l, "login", s, strategy[s].run)

(* A configured strategy that asks to be connected is told so, unless the  *)
(* trade engine is not there.                                              *)
LoginsAcknowledged ==
  \A s \in {r \in Strategies : MaxRuns[r] > 0} :
    strategy[s].state = "REQUESTED" /\ s \in te.config.named ~> strategy[s].state # "REQUESTED" \/ Missed(s)

(* A request that a connected strategy makes after its log-in was written  *)
(* is answered to it, unless the account was not logged in, the strategy   *)
(* or the engine ends, or the request has the last id of the range, which  *)
(* the dispatch leaves out; and unless the acknowledgement came from an    *)
(* engine before the one that runs, which does not know the strategy.      *)
Answered(q) == \E a \in told : a.of = q /\ a.by = q.s

Open(s, run) ==
  {frames[k].q : k \in {n \in DOMAIN frames :
     /\ Of(n, "request", s, run) /\ frames[n].visible
     /\ \E l \in 1 .. n : Of(l, "login", s, run)
     /\ frames[n].q \notin dropped /\ Id(frames[n].q) # RidRange - 1 /\ ~Answered(frames[n].q)}}

RequestsAnswered ==
  \A s \in Strategies, t \in Threads : \A nth \in 1 .. MaxRequests[s], run \in 1 .. MaxRuns[s] :
    LET Waits == /\ strategy[s].run = run /\ strategy[s].state = "ACK_POS" /\ ~Missed(s) /\ Served(s)
                 /\ \E q \in Open(s, run) : q.thread = t /\ q.nth = nth
    IN Waits ~> ~Waits
=============================================================================
