------------------------ MODULE TradeRequestsProofs ------------------------
(***************************************************************************)
(* What TradeRequests.tla says of requests and answers, for any number of  *)
(* strategies, threads, runs and starts of the engine.                     *)
(*                                                                         *)
(* The inductive invariant has four parts:                                 *)
(*   IFrames   what strategies write: each run logs in once, then it may   *)
(*             end, nothing of it comes after that; a frame that cannot be *)
(*             seen is the last of its journal and its writer is at work;  *)
(*   IEngine   what the engine has read: a journal is attached from a      *)
(*             run's log-in to its end, and what lies between that log-in  *)
(*             and the cursor was passed on;                               *)
(*   ITaken    which requests can be passed on again: those behind the     *)
(*             cursor of their run, and those whose log-in is to come;     *)
(*   IAnswers  where the answers go: every request that can be seen is in  *)
(*             the map or about to be, unless a later one has its id.      *)
(* The steps of a strategy keep the engine's parts because they only let   *)
(* the journals grow; the steps of the engine leave the journals alone.    *)
(***************************************************************************)
EXTENDS TradeRequests, FiniteSetTheorems, WellFoundedInduction, TLAPS

FrameType ==
  [journal: Journals, kind: {"login", "end", "request"}, s: Strategies, run: Nat,
   q: Requests \cup {None}, visible: BOOLEAN]
States == {"init", "connecting", "REQUESTED", "ACK_POS", "ending", "down"}
Ids == 0 .. (RidRange - 1)
StrategyType == [run: Nat, state: States, cur_rid: Nat, at: Nat, ids: [Ids -> Requests \cup {None}]]
ThreadType == [stage: {"idle", "rid", "frame", "map"}, nth: Nat, no: Nat]
EngineType ==
  [up: BOOLEAN, run: Nat, config: Configurations, start: Nat,
   cursor: [Journals -> Nat \cup {Off}], clients: SUBSET Strategies, alive: SUBSET Strategies]
TdType == [kind: {"ack", "answer"}, s: Strategies, id: Ids, q: Requests \cup {None}]
ToldType == [of: Requests \cup {None}, by: Strategies, run: Nat, as: Requests \cup {None}, early: BOOLEAN]

TypeOK ==
  /\ frames \in Seq(FrameType)
  /\ strategy \in [Strategies -> StrategyType]
  /\ threads \in [Strategies -> [Threads -> ThreadType]]
  /\ te \in EngineType
  /\ scan \in [on: BOOLEAN, left: SUBSET Strategies, best: Nat]
  /\ asked \subseteq Requests
  /\ td \in Seq(TdType)
  /\ taken \in [DOMAIN taken -> Nat] /\ DOMAIN taken \subseteq Requests
  /\ dropped \subseteq Requests /\ hasty \subseteq Requests
  /\ told \subseteq ToldType

\* Where the frames of a strategy are: its requests in its own journal.
FramesInJournals ==
  \A k \in DOMAIN frames :
    /\ frames[k].run \in 1 .. strategy[frames[k].s].run
    /\ frames[k].kind = "request" => /\ frames[k].journal = frames[k].s
                                     /\ frames[k].q \in Requests
                                     /\ frames[k].q.s = frames[k].s /\ frames[k].q.run = frames[k].run
    /\ frames[k].kind # "request" => frames[k].journal = Sys /\ frames[k].q = None

RunsInOrder ==
  \A i, j \in DOMAIN frames : i < j /\ frames[i].s = frames[j].s => frames[i].run <= frames[j].run

RequestsInOrder ==
  \A i, j \in DOMAIN frames :
    /\ i < j /\ frames[i].kind = "request" /\ frames[j].kind = "request"
    /\ frames[i].s = frames[j].s /\ frames[i].run = frames[j].run
    /\ frames[i].q.thread = frames[j].q.thread
    => frames[i].q.nth < frames[j].q.nth

\* A thread's next request is a new one.
ThreadsAhead ==
  \A k \in DOMAIN frames :
    LET s == frames[k].s
        th == threads[s][frames[k].q.thread]
    IN frames[k].kind = "request" /\ frames[k].run = strategy[s].run /\ strategy[s].state # "down"
       => frames[k].q.nth <= th.nth /\ (th.stage = "rid" => frames[k].q.nth < th.nth)

\* A frame that cannot be seen is the last of its journal, and its writer is at work.
OneWriting == \A i, j \in DOMAIN frames : i < j /\ frames[i].journal = frames[j].journal => frames[i].visible

InHand ==
  \A k \in DOMAIN frames :
    LET s == frames[k].s
    IN ~frames[k].visible =>
         /\ frames[k].run = strategy[s].run
         /\ frames[k].kind = "request" => threads[s][frames[k].q.thread].stage = "frame"
         /\ frames[k].kind = "login" => strategy[s].state = "connecting"
         /\ frames[k].kind = "end" => strategy[s].state = "ending"

Stamped(s, t, k) == frames[k].kind = "request" /\ frames[k].q = Request(s, t)

WritesSys(s) ==
  /\ strategy[s].state = "connecting" =>
       \E k \in DOMAIN frames : Of(k, "login", s, strategy[s].run) /\ ~frames[k].visible
  /\ strategy[s].state = "ending" =>
       \E k \in DOMAIN frames : Of(k, "end", s, strategy[s].run) /\ ~frames[k].visible
WritesRequest(s, t) ==
  /\ threads[s][t].stage = "frame" => \E k \in DOMAIN frames : Stamped(s, t, k) /\ ~frames[k].visible
  /\ threads[s][t].stage = "map" => \E k \in DOMAIN frames : Stamped(s, t, k) /\ frames[k].visible
Rests(s) ==
  strategy[s].state \in {"ending", "down"} => \A t \in Threads : threads[s][t].stage = "idle"
AtWork == \A s \in Strategies : WritesSys(s) /\ Rests(s) /\ \A t \in Threads : WritesRequest(s, t)

\* Each run logs in once, then it may end, and nothing of it comes after that.
OneLogin ==
  \A i, j \in DOMAIN frames :
    /\ frames[i].kind = "login" /\ frames[j].kind = "login"
    /\ frames[i].s = frames[j].s /\ frames[i].run = frames[j].run
    => i = j
LoginFirst ==
  \A e \in DOMAIN frames : frames[e].kind = "end" =>
    \E l \in 1 .. (e - 1) : Of(l, "login", frames[e].s, frames[e].run)
EndLast ==
  \A e, i \in DOMAIN frames :
    frames[e].kind = "end" /\ frames[i].s = frames[e].s /\ frames[i].run = frames[e].run => i <= e
LogsIn(s) ==
  /\ strategy[s].state = "init" =>
       \A k \in DOMAIN frames : ~Of(k, "login", s, strategy[s].run)
  /\ strategy[s].state \in {"connecting", "REQUESTED", "ACK_POS"} =>
       \E k \in DOMAIN frames : Of(k, "login", s, strategy[s].run)
Ends(s) ==
  /\ strategy[s].state \notin {"ending", "down"} =>
       \A k \in DOMAIN frames : ~Of(k, "end", s, strategy[s].run)
  /\ \A r \in 1 .. strategy[s].run :
       r < strategy[s].run \/ strategy[s].state \in {"ending", "down"}
         => \E e \in DOMAIN frames : Of(e, "end", s, r)
Lives ==
  /\ OneLogin /\ LoginFirst /\ EndLast
  /\ \A s \in Strategies :
       LogsIn(s) /\ Ends(s) /\ (strategy[s].state # "down" => strategy[s].run > 0)

IFrames ==
  /\ FramesInJournals /\ RunsInOrder /\ RequestsInOrder /\ ThreadsAhead
  /\ OneWriting /\ InHand /\ AtWork /\ Lives

-----------------------------------------------------------------------------
\* The engine has read the log-in of a run and not its end.
Attached(s, r) ==
  /\ \E l \in (te.start + 1) .. te.cursor[Sys] : Of(l, "login", s, r)
  /\ \A e \in 1 .. te.cursor[Sys] : ~Of(e, "end", s, r)

Cursors ==
  /\ te.start <= te.cursor[Sys] /\ te.cursor[Sys] \in Nat
  /\ \A j \in Journals : te.cursor[j] <= Len(frames)
  /\ \A i \in 1 .. te.cursor[Sys] : frames[i].journal = Sys => frames[i].visible

Clients ==
  /\ \A s \in Strategies : te.cursor[s] # Off <=> s \in te.alive
  /\ te.alive \subseteq te.clients /\ te.config.named \subseteq te.clients
  /\ \A s \in te.alive : \E r \in Nat : Attached(s, r)
  /\ \A s \in Strategies, r \in Nat : Attached(s, r) /\ Served(s) => s \in te.alive

\* What is before a client's cursor and behind it.
AllPassed ==
  \A s \in te.alive, r \in Nat : Attached(s, r) =>
    \A i \in DOMAIN frames : frames[i].journal = s =>
      /\ i > te.cursor[s] => frames[i].run >= r
      /\ /\ i <= te.cursor[s]
         /\ \E l \in (te.start + 1) .. i : Of(l, "login", s, r)
         => frames[i].q \in DOMAIN taken \cup dropped

PassedSeen ==
  \A q \in DOMAIN taken \cup dropped : \E k \in DOMAIN frames :
        frames[k].kind = "request" /\ frames[k].q = q /\ frames[k].visible

\* The next frame of its journal, which can be seen.
FirstSeen(k) ==
  /\ frames[k].visible /\ te.cursor[frames[k].journal] # Off /\ te.cursor[frames[k].journal] < k
  /\ \A i \in DOMAIN frames :
       frames[i].journal = frames[k].journal /\ i > te.cursor[frames[k].journal] => k <= i

Scans ==
  /\ ~scan.on => scan = NoScan
  /\ scan.on => te.up
  /\ scan.best # NoFrame => scan.best \in DOMAIN frames /\ FirstSeen(scan.best)
  /\ scan.best # NoFrame /\ frames[scan.best].kind = "end" /\ frames[scan.best].s \in te.alive \ scan.left =>
       \A i \in DOMAIN frames :
         frames[i].journal = frames[scan.best].s /\ i > te.cursor[frames[scan.best].s] => i > scan.best

IEngine == Cursors /\ Clients /\ AllPassed /\ PassedSeen /\ Scans /\ NothingLeftAtEnd

-----------------------------------------------------------------------------
\* A frame may be passed on: it is ahead of the cursor of its own run, or the
\* log-in of its run is still to come.
LoginAhead(k) ==
  \E l \in 1 .. (k - 1) : te.cursor[Sys] < l /\ Of(l, "login", frames[k].s, frames[k].run)
Behind(k) == te.cursor[frames[k].s] # Off /\ te.cursor[frames[k].s] < k
CanTake(k) == LoginAhead(k) \/ (Behind(k) /\ Attached(frames[k].s, frames[k].run))

ITaken ==
  \A k \in DOMAIN frames :
    LET q == frames[k].q
    IN frames[k].kind = "request" /\ q \in DOMAIN taken =>
         /\ Behind(k) => \/ Attached(frames[k].s, frames[k].run)
                         \/ ~scan.on \/ (scan.best # NoFrame /\ scan.best < k)
         /\ taken[q] \in {1, 2}
         /\ CanTake(k) => q \in hasty /\ taken[q] = 1
         /\ taken[q] = 2 => q \in hasty

-----------------------------------------------------------------------------
\* A request of the run is in the map, or a later one of its thread or one of
\* another thread with its id.
Mapped(k) ==
  LET s == frames[k].s
      is == strategy[s].ids[Id(frames[k].q)]
  IN \E m \in DOMAIN frames :
       /\ frames[m].kind = "request" /\ frames[m].q = is
       /\ frames[k].q.thread = is.thread => k <= m

InMaps ==
  \A k \in DOMAIN frames :
    LET s == frames[k].s
        t == frames[k].q.thread
    IN /\ frames[k].kind = "request" /\ frames[k].visible
       /\ frames[k].run = strategy[s].run /\ strategy[s].state # "down"
       => Mapped(k) \/ (threads[s][t].stage = "map" /\ frames[k].q = Request(s, t))

Maps ==
  \A s \in Strategies, i \in Ids :
    LET is == strategy[s].ids[i]
    IN is # None => /\ is.s = s /\ is.run = strategy[s].run /\ Id(is) = i
                    /\ \E m \in DOMAIN frames : frames[m].kind = "request" /\ frames[m].q = is

Answers ==
  /\ asked \subseteq DOMAIN taken
  /\ \A n \in DOMAIN td : td[n].kind = "answer" =>
       td[n].q \in DOMAIN taken /\ (td[n].s = td[n].q.s => td[n].id = Id(td[n].q))

Told ==
  \A a \in told : 
    /\ a.of \in DOMAIN taken
    /\ a.as # None => \E m \in DOMAIN frames : frames[m].kind = "request" /\ frames[m].q = a.as
    /\ a.by = a.of.s =>
         \/ a.as = a.of
         \/ a.as = None /\ (a.early \/ a.of.run < a.run)
         \/ /\ a.as # None /\ a.as.s = a.by /\ Id(a.as) = Id(a.of)
            /\ \/ a.early \/ a.of.thread # a.as.thread
               \/ \E k, m \in DOMAIN frames : k < m /\ frames[k].q = a.of /\ frames[m].q = a.as

IAnswers == InMaps /\ Maps /\ Answers /\ Told

-----------------------------------------------------------------------------
(* A set of natural numbers has a least one: the intervals from 0 to its   *)
(* members are finite sets, which strict inclusion orders well.            *)
LEMMA LeastNumber ==
  ASSUME NEW T, T \subseteq Nat, T # {}
  PROVE  \E x \in T : \A y \in T : x <= y
<1> DEFINE R == StrictSubsetOrdering(Nat)
           W == {0 .. x : x \in T}
<1>1. IsWellFoundedOn(R, FiniteSubsetsOf(Nat))
  BY FS_StrictSubsetOrderingWellFounded, Zenon
<1>2. W \subseteq FiniteSubsetsOf(Nat)
  <2> SUFFICES ASSUME NEW x \in T PROVE 0 .. x \in FiniteSubsetsOf(Nat)
    OBVIOUS
  <2>1. IsFiniteSet(0 .. x)
    BY FS_Interval
  <2>2. 0 .. x \subseteq Nat
    OBVIOUS
  <2> QED
    BY <2>1, <2>2 DEF FiniteSubsetsOf
<1>3. W # {}
  OBVIOUS
<1>4. PICK w \in W : \A v \in W : ~(<<v, w>> \in R)
  <2> HIDE DEF R, W
  <2> QED
  BY <1>1, <1>2, <1>3, WFMin, Zenon
<1>5. PICK x \in T : w = 0 .. x
  OBVIOUS
<1>6. ASSUME NEW y \in T, y < x
      PROVE  FALSE
  <2>1. <<0 .. y, 0 .. x>> \notin R
    BY <1>4, <1>5
  <2>3. 0 .. y \in SUBSET Nat /\ 0 .. x \in SUBSET Nat /\ 0 .. y \subseteq 0 .. x /\ x \in 0 .. x /\ x \notin 0 .. y
    BY <1>6
  <2> QED
    BY <2>1, <2>3 DEF StrictSubsetOrdering
<1> QED
  BY <1>6

-----------------------------------------------------------------------------
(* The types.                                                              *)

LEMMA IdType == \A q \in Requests : Id(q) \in Ids
<1> SUFFICES ASSUME NEW q \in Requests PROVE q.no % RidRange \in 0 .. (RidRange - 1)
  BY DEF Id, Ids
<1>1. q.no \in Nat /\ RidRange \in Nat \ {0}
  BY RangeAssumption DEF Requests
<1> QED
  BY <1>1

(* A frame is stamped, and the frames of a journal are made visible. *)
Appends(f) ==
  /\ frames' \in Seq(FrameType)
  /\ Len(frames') = Len(frames) + 1
  /\ \A k \in 1 .. Len(frames) : frames'[k] = frames[k]
  /\ frames'[Len(frames) + 1] = f
  /\ \A k \in 1 .. Len(frames) : frames[k].journal = f.journal => frames[k].visible

Publishes(j) ==
  /\ frames' \in Seq(FrameType)
  /\ Len(frames') = Len(frames)
  /\ \A k \in 1 .. Len(frames) :
       /\ frames'[k].journal = frames[k].journal /\ frames'[k].kind = frames[k].kind
       /\ frames'[k].s = frames[k].s /\ frames'[k].run = frames[k].run
       /\ frames'[k].q = frames[k].q
       /\ frames'[k].visible <=> (frames[k].visible \/ frames[k].journal = j)
  /\ \E k \in 1 .. Len(frames) : frames[k].journal = j /\ ~frames[k].visible

LEMMA StampAppends ==
  ASSUME TypeOK, NEW f \in FrameType, Stamp(f)
  PROVE  Appends(f)
BY DEF TypeOK, Stamp, Writing, Appends

LEMMA FramesAre == ASSUME TypeOK PROVE DOMAIN frames = 1 .. Len(frames) /\ Len(frames) \in Nat
                                       /\ \A k \in 1 .. Len(frames) : frames[k] \in FrameType
BY DEF TypeOK

LEMMA SequenceOf ==
  ASSUME NEW S, NEW n \in Nat, NEW f \in [1 .. n -> S]
  PROVE  f \in Seq(S) /\ Len(f) = n /\ DOMAIN f = 1 .. n
OBVIOUS

LEMMA PublishPublishes ==
  ASSUME TypeOK, NEW j \in Journals, Publish(j)
  PROVE  Publishes(j)
<1> DEFINE g == [k \in 1 .. Len(frames) |->
                  IF frames[k].journal = j THEN [frames[k] EXCEPT !.visible = TRUE] ELSE frames[k]]
<1>1. frames' = g
  BY FramesAre DEF Publish
<1>2. \A k \in 1 .. Len(frames) : frames[k] \in FrameType
  BY FramesAre
<1>3. g \in [1 .. Len(frames) -> FrameType]
  BY <1>2 DEF FrameType
<1>4. frames' \in Seq(FrameType) /\ Len(frames') = Len(frames)
  BY <1>1, <1>3, FramesAre, SequenceOf
<1>5. ASSUME NEW k \in 1 .. Len(frames)
      PROVE  /\ frames'[k].journal = frames[k].journal /\ frames'[k].kind = frames[k].kind
             /\ frames'[k].s = frames[k].s /\ frames'[k].run = frames[k].run
             /\ frames'[k].q = frames[k].q
             /\ frames'[k].visible <=> (frames[k].visible \/ frames[k].journal = j)
  <2>1. frames'[k] = IF frames[k].journal = j THEN [frames[k] EXCEPT !.visible = TRUE] ELSE frames[k]
    BY <1>1
  <2>2. frames[k] \in FrameType
    BY <1>2
  <2> QED
    BY <2>1, <2>2 DEF FrameType
<1>6. \E k \in 1 .. Len(frames) : frames[k].journal = j /\ ~frames[k].visible
  BY FramesAre DEF Publish, Writing
<1> QED
  BY <1>4, <1>5, <1>6 DEF Publishes

LEMMA MinOf ==
  ASSUME NEW T, T \subseteq Nat, T # {}
  PROVE  Min(T) \in T /\ \A y \in T : Min(T) <= y
BY LeastNumber DEF Min

(* What a look at a journal finds. *)
LEMMA NextVisibleIs ==
  ASSUME TypeOK, NEW j \in Journals
  PROVE  /\ NextVisible(j) # NoFrame =>
              /\ NextVisible(j) \in 1 .. Len(frames)
              /\ frames[NextVisible(j)].journal = j
              /\ FirstSeen(NextVisible(j))
         /\ \A i \in 1 .. Len(frames) :
              /\ te.cursor[j] # Off /\ frames[i].journal = j /\ te.cursor[j] < i
              /\ \A n \in 1 .. i : frames[n].journal = j => frames[n].visible
              => NextVisible(j) \in 1 .. i
<1> DEFINE later == {k \in DOMAIN frames : frames[k].journal = j /\ k > te.cursor[j]}
<1>1. DOMAIN frames = 1 .. Len(frames) /\ Len(frames) \in Nat
  BY FramesAre
<1>2. NextVisible(j) = IF te.cursor[j] = Off \/ later = {} \/ ~frames[Min(later)].visible
                       THEN NoFrame ELSE Min(later)
  BY DEF NextVisible
<1>3. later # {} => Min(later) \in later /\ \A y \in later : Min(later) <= y
  <2>1. later \subseteq Nat
    BY <1>1
  <2> HIDE DEF later
  <2> QED
    BY <2>1, MinOf
<1>4. NextVisible(j) # NoFrame =>
        /\ NextVisible(j) \in later /\ frames[NextVisible(j)].visible /\ te.cursor[j] # Off
        /\ \A y \in later : NextVisible(j) <= y
  <2> HIDE DEF later
  <2> QED
    BY <1>2, <1>3
<1>5. NextVisible(j) # NoFrame =>
              /\ NextVisible(j) \in 1 .. Len(frames)
              /\ frames[NextVisible(j)].journal = j
              /\ FirstSeen(NextVisible(j))
  BY <1>1, <1>4 DEF FirstSeen
<1>6. ASSUME NEW i \in 1 .. Len(frames), te.cursor[j] # Off, frames[i].journal = j, te.cursor[j] < i,
             \A n \in 1 .. i : frames[n].journal = j => frames[n].visible
      PROVE  NextVisible(j) \in 1 .. i
  <2>1. i \in later
    BY <1>1, <1>6
  <2>2. Min(later) \in later /\ Min(later) <= i
    BY <1>3, <2>1
  <2>3. Min(later) \in 1 .. i /\ frames[Min(later)].journal = j
    BY <1>1, <2>2
  <2>4. frames[Min(later)].visible
    BY <2>3, <1>6
  <2> HIDE DEF later
  <2> QED
    BY <1>2, <1>6, <2>1, <2>3, <2>4
<1> QED
  BY <1>5, <1>6

(* Seeking stops at a frame that cannot be seen, and there is one at most. *)
LEMMA SeekTimeIs ==
  ASSUME TypeOK, OneWriting, NEW j \in Journals, NEW k \in 0 .. Len(frames)
  PROVE  /\ SeekTime(j, k) \in 0 .. k
         /\ \A n \in 1 .. k : frames[n].journal = j /\ SeekTime(j, k) < n => ~frames[n].visible
         /\ \A n \in 1 .. SeekTime(j, k) : frames[n].journal = j => frames[n].visible
<1> DEFINE T == {k} \cup {i - 1 : i \in {n \in 1 .. k : frames[n].journal = j /\ ~frames[n].visible}}
<1>1. DOMAIN frames = 1 .. Len(frames) /\ Len(frames) \in Nat /\ k \in Nat
  BY FramesAre
<1>2. T \subseteq Nat /\ k \in T
  BY <1>1
<1>3. SeekTime(j, k) = Min(T)
  BY DEF SeekTime
<1>4. SeekTime(j, k) \in T /\ \A y \in T : SeekTime(j, k) <= y
  <2> HIDE DEF T
  <2> QED
    BY <1>2, <1>3, MinOf
<1>5. SeekTime(j, k) \in 0 .. k
  BY <1>1, <1>2, <1>4
<1>6. ASSUME NEW n \in 1 .. SeekTime(j, k), frames[n].journal = j
      PROVE  frames[n].visible
  <2> SUFFICES ASSUME ~frames[n].visible PROVE FALSE
    OBVIOUS
  <2>1. n - 1 \in T
    BY <1>1, <1>5, <1>6
  <2> HIDE DEF T
  <2> QED
    BY <1>1, <1>4, <1>5, <2>1
<1>7. ASSUME NEW n \in 1 .. k, frames[n].journal = j, SeekTime(j, k) < n
      PROVE  ~frames[n].visible
  <2>1. PICK i \in 1 .. k : SeekTime(j, k) = i - 1 /\ frames[i].journal = j /\ ~frames[i].visible
    BY <1>1, <1>4, <1>7
  <2>2. i <= n
    BY <1>1, <1>7, <2>1
  <2>3. i \in DOMAIN frames /\ n \in DOMAIN frames
    BY <1>1
  <2>4. ~(i < n)
    BY <2>1, <2>3, <1>7 DEF OneWriting
  <2> QED
    BY <1>1, <2>1, <2>2, <2>4
<1> QED
  BY <1>5, <1>6, <1>7

LEMMA RequestType ==
  ASSUME TypeOK, NEW s \in Strategies, NEW t \in Threads
  PROVE  Request(s, t) \in Requests
BY DEF TypeOK, Request, Requests, StrategyType, ThreadType

LEMMA FrameIsFrame ==
  ASSUME TypeOK, NEW s \in Strategies
  PROVE  /\ \A kind \in {"login", "end"} : Frame(Sys, kind, s, None) \in FrameType
         /\ \A q \in Requests : Frame(s, "request", s, q) \in FrameType
BY DEF TypeOK, Frame, FrameType, StrategyType, Journals

LEMMA EngineIsEngine ==
  ASSUME NEW run \in Nat, NEW start \in Nat, NEW c \in Configurations
  PROVE  NewEngine(run, start, c) \in EngineType
BY StrategiesAssumption DEF NewEngine, EngineType, Journals, Off

LEMMA InitTypes == Init => TypeOK
<1> SUFFICES ASSUME Init PROVE TypeOK
  OBVIOUS
<1>1. frames \in Seq(FrameType) /\ td \in Seq(TdType)
  BY DEF Init
<1>2. \A s \in Strategies : Down(0) \in StrategyType
  BY RangeAssumption DEF Down, NewRun, NoIds, Ids, StrategyType, States
<1>3. strategy \in [Strategies -> StrategyType]
  BY <1>2 DEF Init
<1>4. threads \in [Strategies -> [Threads -> ThreadType]]
  BY DEF Init, Idle, ThreadType
<1>5. te \in EngineType
  BY EngineIsEngine DEF Init
<1>6. scan \in [on: BOOLEAN, left: SUBSET Strategies, best: Nat]
  BY DEF Init, NoScan, NoFrame
<1>7. taken \in [DOMAIN taken -> Nat] /\ DOMAIN taken \subseteq Requests
  BY DEF Init
<1>8. asked \subseteq Requests /\ dropped \subseteq Requests /\ hasty \subseteq Requests /\ told \subseteq ToldType
  BY DEF Init
<1> QED
  BY <1>1, <1>3, <1>4, <1>5, <1>6, <1>7, <1>8 DEF TypeOK

(* What the steps of a strategy do. *)
Others(s) == \A r \in Strategies \ {s} : strategy'[r] = strategy[r]
OtherThreads(s, t) ==
  \A r \in Strategies, u \in Threads : r # s \/ u # t => threads'[r][u] = threads[r][u]

LEMMA StrategyBecomes ==
  ASSUME TypeOK, NEW s \in Strategies, NEW x \in StrategyType, strategy' = [strategy EXCEPT ![s] = x]
  PROVE  strategy' \in [Strategies -> StrategyType] /\ strategy'[s] = x /\ Others(s)
BY DEF TypeOK, Others

LEMMA ThreadBecomes ==
  ASSUME TypeOK, NEW s \in Strategies, NEW t \in Threads, NEW x \in ThreadType,
         threads' = [threads EXCEPT ![s][t] = x]
  PROVE  threads' \in [Strategies -> [Threads -> ThreadType]] /\ threads'[s][t] = x /\ OtherThreads(s, t)
BY DEF TypeOK, OtherThreads

LEMMA StartDoes ==
  ASSUME TypeOK, NEW s \in Strategies, Start(s)
  PROVE  /\ TypeOK'
         /\ strategy[s].state = "down"
         /\ strategy'[s].run = strategy[s].run + 1 /\ strategy'[s].state = "init"
         /\ strategy'[s].ids = NoIds
         /\ Others(s)
<1> DEFINE x == NewRun(strategy[s].run + 1)
<1>1. x \in StrategyType /\ x.run = strategy[s].run + 1 /\ x.state = "init" /\ x.ids = NoIds
  <2>1. strategy[s].run \in Nat
    BY DEF TypeOK, StrategyType
  <2>2. NoIds \in [Ids -> Requests \cup {None}]
    BY DEF NoIds, Ids
  <2> QED
    BY <2>1, <2>2 DEF NewRun, StrategyType, States
<1>2. strategy' = [strategy EXCEPT ![s] = x]
  BY DEF Start, TypeOK
<1>3. strategy' \in [Strategies -> StrategyType] /\ strategy'[s] = x /\ Others(s)
  BY <1>1, <1>2, StrategyBecomes
<1> QED
  BY <1>1, <1>3 DEF Start, TypeOK

LEMMA ConnectDoes ==
  ASSUME TypeOK, NEW s \in Strategies, Connect(s)
  PROVE  /\ TypeOK'
         /\ Appends(Frame(Sys, "login", s, None))
         /\ strategy[s].state = "init"
         /\ strategy'[s].run = strategy[s].run /\ strategy'[s].state = "connecting"
         /\ strategy'[s].ids = strategy[s].ids
         /\ Others(s)
<1> DEFINE x == [strategy[s] EXCEPT !.state = "connecting", !.at = Len(td)]
<1>1. strategy[s] \in StrategyType /\ Len(td) \in Nat
  BY DEF TypeOK
<1>2. x \in StrategyType /\ x.run = strategy[s].run /\ x.state = "connecting" /\ x.ids = strategy[s].ids
  BY <1>1 DEF StrategyType, States
<1>3. strategy' = [strategy EXCEPT ![s] = x]
  BY DEF Connect, TypeOK
<1>4. strategy' \in [Strategies -> StrategyType] /\ strategy'[s] = x /\ Others(s)
  BY <1>2, <1>3, StrategyBecomes
<1>5. Appends(Frame(Sys, "login", s, None))
  BY FrameIsFrame, StampAppends DEF Connect
<1> QED
  BY <1>2, <1>4, <1>5 DEF Connect, TypeOK, Appends

LEMMA ConnectedDoes ==
  ASSUME TypeOK, NEW s \in Strategies, Connected(s)
  PROVE  /\ TypeOK'
         /\ Publishes(Sys)
         /\ strategy[s].state = "connecting"
         /\ strategy'[s].run = strategy[s].run /\ strategy'[s].state = "REQUESTED"
         /\ strategy'[s].ids = strategy[s].ids
         /\ Others(s)
<1> DEFINE x == [strategy[s] EXCEPT !.state = "REQUESTED"]
<1>1. strategy[s] \in StrategyType
  BY DEF TypeOK
<1>2. x \in StrategyType /\ x.run = strategy[s].run /\ x.state = "REQUESTED" /\ x.ids = strategy[s].ids
  BY <1>1 DEF StrategyType, States
<1>3. strategy' = [strategy EXCEPT ![s] = x]
  BY DEF Connected, TypeOK
<1>4. strategy' \in [Strategies -> StrategyType] /\ strategy'[s] = x /\ Others(s)
  BY <1>2, <1>3, StrategyBecomes
<1>5. Publishes(Sys)
  BY PublishPublishes DEF Connected, Journals
<1> QED
  BY <1>2, <1>4, <1>5 DEF Connected, TypeOK, Publishes

LEMMA ExitDoes ==
  ASSUME TypeOK, NEW s \in Strategies, Exit(s)
  PROVE  /\ TypeOK'
         /\ Appends(Frame(Sys, "end", s, None))
         /\ strategy[s].state \in {"REQUESTED", "ACK_POS"}
         /\ \A t \in Threads : threads[s][t].stage = "idle"
         /\ strategy'[s].run = strategy[s].run /\ strategy'[s].state = "ending"
         /\ strategy'[s].ids = strategy[s].ids
         /\ Others(s)
<1> DEFINE x == [strategy[s] EXCEPT !.state = "ending"]
<1>1. strategy[s] \in StrategyType
  BY DEF TypeOK
<1>2. x \in StrategyType /\ x.run = strategy[s].run /\ x.state = "ending" /\ x.ids = strategy[s].ids
  BY <1>1 DEF StrategyType, States
<1>3. strategy' = [strategy EXCEPT ![s] = x]
  BY DEF Exit, TypeOK
<1>4. strategy' \in [Strategies -> StrategyType] /\ strategy'[s] = x /\ Others(s)
  BY <1>2, <1>3, StrategyBecomes
<1>5. Appends(Frame(Sys, "end", s, None))
  BY FrameIsFrame, StampAppends DEF Exit
<1> QED
  BY <1>2, <1>4, <1>5 DEF Exit, TypeOK, Appends

LEMMA ExitedDoes ==
  ASSUME TypeOK, NEW s \in Strategies, Exited(s)
  PROVE  /\ TypeOK'
         /\ Publishes(Sys)
         /\ strategy[s].state = "ending"
         /\ strategy'[s].run = strategy[s].run /\ strategy'[s].state = "down"
         /\ strategy'[s].ids = NoIds
         /\ Others(s)
         /\ \A t \in Threads : threads'[s][t] = Idle(0)
         /\ \A r \in Strategies \ {s} : threads'[r] = threads[r]
<1> DEFINE x == Down(strategy[s].run)
<1>1. x \in StrategyType /\ x.run = strategy[s].run /\ x.state = "down" /\ x.ids = NoIds
  <2>1. strategy[s].run \in Nat
    BY DEF TypeOK, StrategyType
  <2>2. NoIds \in [Ids -> Requests \cup {None}]
    BY DEF NoIds, Ids
  <2> QED
    BY <2>1, <2>2 DEF Down, NewRun, StrategyType, States
<1>2. strategy' = [strategy EXCEPT ![s] = x]
  BY DEF Exited, TypeOK
<1>3. strategy' \in [Strategies -> StrategyType] /\ strategy'[s] = x /\ Others(s)
  BY <1>1, <1>2, StrategyBecomes
<1>4. Publishes(Sys)
  BY PublishPublishes DEF Exited, Journals
<1>5. /\ threads' \in [Strategies -> [Threads -> ThreadType]]
      /\ \A t \in Threads : threads'[s][t] = Idle(0)
      /\ \A r \in Strategies \ {s} : threads'[r] = threads[r]
  <2>1. Idle(0) \in ThreadType
    BY DEF Idle, ThreadType
  <2>2. threads' = [threads EXCEPT ![s] = [t \in Threads |-> Idle(0)]]
    BY DEF Exited
  <2> QED
    BY <2>1, <2>2 DEF TypeOK
<1> QED
  BY <1>1, <1>3, <1>4, <1>5 DEF Exited, TypeOK, Publishes

LEMMA ReadTdDoes ==
  ASSUME TypeOK, NEW s \in Strategies, ReadTd(s)
  PROVE  /\ TypeOK'
         /\ strategy[s].state \in {"REQUESTED", "ACK_POS"}
         /\ strategy'[s].run = strategy[s].run
         /\ strategy'[s].state \in {strategy[s].state, "ACK_POS"}
         /\ strategy'[s].ids = strategy[s].ids
         /\ Others(s)
         /\ told' = told \/ \E n \in 1 .. Len(td) :
              td[n].kind = "answer" /\ td[n].s = s /\ told' = told \cup {ToldOf(s, td[n])}
<1> DEFINE n == strategy[s].at + 1
           z == IF td[n].kind = "ack" /\ td[n].s = s THEN "ACK_POS" ELSE strategy[s].state
           x == [strategy[s] EXCEPT !.at = @ + 1, !.state = z]
<1>1. strategy[s] \in StrategyType /\ Len(td) \in Nat /\ strategy[s].at < Len(td)
  BY DEF TypeOK, ReadTd
<1>2. n \in 1 .. Len(td) /\ td[n] \in TdType
  <2>1. n \in 1 .. Len(td)
    BY <1>1 DEF StrategyType
  <2> HIDE DEF n
  <2> QED
    BY <2>1 DEF TypeOK
<1>3. /\ x \in StrategyType /\ x.run = strategy[s].run /\ x.ids = strategy[s].ids
      /\ x.state \in {strategy[s].state, "ACK_POS"}
  <2>1. z \in {strategy[s].state, "ACK_POS"}
    OBVIOUS
  <2>2. z \in States
    BY <1>1, <2>1 DEF StrategyType, States
  <2>3. [strategy[s] EXCEPT !.at = @ + 1] \in StrategyType
    BY <1>1 DEF StrategyType
  <2> HIDE DEF z
  <2>4. x \in StrategyType /\ x.state = z /\ x.run = strategy[s].run /\ x.ids = strategy[s].ids
    BY <1>1, <2>2, <2>3 DEF StrategyType
  <2> HIDE DEF x
  <2> QED
    BY <2>1, <2>4
<1>4. strategy' = [strategy EXCEPT ![s] = x]
  BY DEF ReadTd, TypeOK
<1>5. strategy' \in [Strategies -> StrategyType] /\ strategy'[s] = x /\ Others(s)
  BY <1>3, <1>4, StrategyBecomes
<1>6. ToldOf(s, td[n]) \in ToldType
  <2> HIDE DEF n
  <2>1. strategy[s].ids[td[n].id] \in Requests \cup {None}
    BY <1>1, <1>2 DEF StrategyType, TdType
  <2> QED
    BY <1>1, <1>2, <2>1 DEF ToldOf, ToldType, StrategyType, TdType
<1>7. told' = told \/ (td[n].kind = "answer" /\ td[n].s = s /\ told' = told \cup {ToldOf(s, td[n])})
  BY DEF ReadTd
<1>8. told' \subseteq ToldType
  BY <1>6, <1>7 DEF TypeOK
<1>9. told' = told \/ \E m \in 1 .. Len(td) :
              td[m].kind = "answer" /\ td[m].s = s /\ told' = told \cup {ToldOf(s, td[m])}
  <2> HIDE DEF n
  <2> QED
    BY <1>2, <1>7
<1> HIDE DEF x, n
<1> QED
  BY <1>3, <1>5, <1>8, <1>9 DEF ReadTd, TypeOK

LEMMA ReadRidDoes ==
  ASSUME TypeOK, NEW s \in Strategies, NEW t \in Threads, ReadRid(s, t)
  PROVE  /\ TypeOK'
         /\ strategy[s].state \notin {"down", "ending"}
         /\ threads[s][t].stage = "idle"
         /\ threads'[s][t].stage = "rid" /\ threads'[s][t].nth = threads[s][t].nth + 1
         /\ OtherThreads(s, t)
<1> DEFINE x == [stage |-> "rid", nth |-> threads[s][t].nth + 1, no |-> strategy[s].cur_rid]
<1>1. strategy[s] \in StrategyType /\ threads[s][t] \in ThreadType
  BY DEF TypeOK
<1>2. x \in ThreadType /\ x.stage = "rid" /\ x.nth = threads[s][t].nth + 1
  BY <1>1 DEF StrategyType, ThreadType
<1>3. threads' = [threads EXCEPT ![s][t] = x]
  BY DEF ReadRid, TypeOK
<1>4. threads' \in [Strategies -> [Threads -> ThreadType]] /\ threads'[s][t] = x /\ OtherThreads(s, t)
  BY <1>2, <1>3, ThreadBecomes
<1> QED
  BY <1>2, <1>4 DEF ReadRid, TypeOK

LEMMA StampRequestDoes ==
  ASSUME TypeOK, NEW s \in Strategies, NEW t \in Threads, StampRequest(s, t)
  PROVE  /\ TypeOK'
         /\ Appends(Frame(s, "request", s, Request(s, t)))
         /\ threads[s][t].stage = "rid" /\ threads'[s][t].stage = "frame"
         /\ threads'[s][t].nth = threads[s][t].nth /\ threads'[s][t].no = threads[s][t].no
         /\ OtherThreads(s, t)
         /\ strategy'[s].run = strategy[s].run /\ strategy'[s].state = strategy[s].state
         /\ strategy'[s].ids = strategy[s].ids
         /\ Others(s)
<1> DEFINE x == [threads[s][t] EXCEPT !.stage = "frame"]
           y == [strategy[s] EXCEPT !.cur_rid = threads[s][t].no + 1]
<1>1. strategy[s] \in StrategyType /\ threads[s][t] \in ThreadType
  BY DEF TypeOK
<1>2. x \in ThreadType /\ x.stage = "frame" /\ x.nth = threads[s][t].nth /\ x.no = threads[s][t].no
  BY <1>1 DEF ThreadType
<1>3. threads' = [threads EXCEPT ![s][t] = x]
  BY DEF StampRequest, TypeOK
<1>4. threads' \in [Strategies -> [Threads -> ThreadType]] /\ threads'[s][t] = x /\ OtherThreads(s, t)
  BY <1>2, <1>3, ThreadBecomes
<1>5. y \in StrategyType /\ y.run = strategy[s].run /\ y.state = strategy[s].state /\ y.ids = strategy[s].ids
  BY <1>1 DEF StrategyType, ThreadType
<1>6. strategy' = [strategy EXCEPT ![s] = y]
  BY DEF StampRequest, TypeOK
<1>7. strategy' \in [Strategies -> StrategyType] /\ strategy'[s] = y /\ Others(s)
  BY <1>5, <1>6, StrategyBecomes
<1>8. Appends(Frame(s, "request", s, Request(s, t)))
  BY RequestType, FrameIsFrame, StampAppends DEF StampRequest
<1> HIDE DEF x, y
<1> QED
  BY <1>2, <1>4, <1>5, <1>7, <1>8 DEF StampRequest, TypeOK, Appends

LEMMA PublishRequestDoes ==
  ASSUME TypeOK, NEW s \in Strategies, NEW t \in Threads, PublishRequest(s, t)
  PROVE  /\ TypeOK'
         /\ Publishes(s)
         /\ threads[s][t].stage = "frame" /\ threads'[s][t].stage = "map"
         /\ threads'[s][t].nth = threads[s][t].nth /\ threads'[s][t].no = threads[s][t].no
         /\ OtherThreads(s, t)
<1> DEFINE x == [threads[s][t] EXCEPT !.stage = "map"]
<1>1. threads[s][t] \in ThreadType
  BY DEF TypeOK
<1>2. x \in ThreadType /\ x.stage = "map" /\ x.nth = threads[s][t].nth /\ x.no = threads[s][t].no
  BY <1>1 DEF ThreadType
<1>3. threads' = [threads EXCEPT ![s][t] = x]
  BY DEF PublishRequest, TypeOK
<1>4. threads' \in [Strategies -> [Threads -> ThreadType]] /\ threads'[s][t] = x /\ OtherThreads(s, t)
  BY <1>2, <1>3, ThreadBecomes
<1>5. Publishes(s)
  BY PublishPublishes DEF PublishRequest, Journals
<1> HIDE DEF x
<1> QED
  BY <1>2, <1>4, <1>5 DEF PublishRequest, TypeOK, Publishes

LEMMA MapRequestDoes ==
  ASSUME TypeOK, NEW s \in Strategies, NEW t \in Threads, MapRequest(s, t)
  PROVE  /\ TypeOK'
         /\ threads[s][t].stage = "map" /\ threads'[s][t].stage = "idle"
         /\ threads'[s][t].nth = threads[s][t].nth
         /\ OtherThreads(s, t)
         /\ strategy'[s].run = strategy[s].run /\ strategy'[s].state = strategy[s].state
         /\ strategy'[s].ids = [strategy[s].ids EXCEPT ![Id(Request(s, t))] = Request(s, t)]
         /\ Others(s)
<1> DEFINE x == Idle(threads[s][t].nth)
           ids == [strategy[s].ids EXCEPT ![Id(Request(s, t))] = Request(s, t)]
           y == [strategy[s] EXCEPT !.ids = ids]
<1>1. strategy[s] \in StrategyType /\ threads[s][t] \in ThreadType
  BY DEF TypeOK
<1>2. x \in ThreadType /\ x.stage = "idle" /\ x.nth = threads[s][t].nth
  BY <1>1 DEF ThreadType, Idle
<1>3. threads' = [threads EXCEPT ![s][t] = x]
  BY DEF MapRequest, TypeOK
<1>4. threads' \in [Strategies -> [Threads -> ThreadType]] /\ threads'[s][t] = x /\ OtherThreads(s, t)
  BY <1>2, <1>3, ThreadBecomes
<1>5. ids \in [Ids -> Requests \cup {None}]
  BY <1>1, RequestType DEF StrategyType
<1>6. y \in StrategyType /\ y.run = strategy[s].run /\ y.state = strategy[s].state /\ y.ids = ids
  <2> HIDE DEF ids
  <2> QED
    BY <1>1, <1>5 DEF StrategyType
<1>7. strategy' = [strategy EXCEPT ![s] = y]
  BY DEF MapRequest, TypeOK
<1>8. strategy' \in [Strategies -> StrategyType] /\ strategy'[s] = y /\ Others(s)
  <2> HIDE DEF y
  <2> QED
    BY <1>6, <1>7, StrategyBecomes
<1> HIDE DEF x, y
<1> QED
  BY <1>2, <1>4, <1>6, <1>8 DEF MapRequest, TypeOK

(* What the steps of the trade engine do. *)
SameEngine ==
  te'.up = te.up /\ te'.run = te.run /\ te'.config = te.config /\ te'.start = te.start

LEMMA PassedIs ==
  ASSUME TypeOK, Scans, scan.best # NoFrame
  PROVE  /\ Passed \in [Journals -> Nat \cup {Off}]
         /\ scan.best \in 1 .. Len(frames) /\ Taken \in FrameType /\ Taken.journal \in Journals
         /\ Passed[Taken.journal] = scan.best
         /\ \A j \in Journals : j # Taken.journal => Passed[j] = te.cursor[j]
<1>1. scan.best \in 1 .. Len(frames) /\ scan.best \in Nat
  BY FramesAre DEF Scans
<1>2. Taken \in FrameType
  BY <1>1, FramesAre DEF Taken
<1>3. te.cursor \in [Journals -> Nat \cup {Off}]
  BY DEF TypeOK, EngineType
<1>4. Taken.journal \in Journals
  BY <1>2 DEF FrameType
<1> QED
  BY <1>1, <1>2, <1>3, <1>4 DEF Passed

AddsClient(s, l) ==
  /\ scan.on /\ scan.best # NoFrame /\ scan.left = {} /\ l = scan.best /\ l \in 1 .. Len(frames)
  /\ frames[l].kind = "login" /\ frames[l].s = s /\ frames[l].journal = Sys /\ s \in Strategies
  /\ scan' = NoScan /\ SameEngine
  /\ te'.cursor[Sys] = l
  /\ \A r \in Strategies \ {s} : te'.cursor[r] = te.cursor[r]
  /\ \/ /\ s \notin te.clients \/ s \notin te.alive
        /\ te'.cursor[s] = SeekTime(s, l)
        /\ te'.clients = te.clients \cup {s} /\ te'.alive = te.alive \cup {s}
     \/ /\ (s \in te.clients /\ s \in te.alive) \/ (s \notin te.clients /\ ~te.config.default)
        /\ te'.cursor[s] = te.cursor[s]
        /\ te'.clients = te.clients /\ te'.alive = te.alive
  /\ td' = td \/ \E e \in TdType : td' = Append(td, e) /\ e.kind = "ack"

LEMMA AddClientDoes ==
  ASSUME TypeOK, OneWriting, FramesInJournals, Scans, AddClient
  PROVE  TypeOK' /\ AddsClient(Taken.s, scan.best)
<1> DEFINE s == Taken.s
           l == scan.best
           c == [Passed EXCEPT ![s] = SeekTime(s, l)]
           attached == [te EXCEPT !.cursor = c, !.clients = @ \cup {s}, !.alive = @ \cup {s}]
           passed == [te EXCEPT !.cursor = Passed]
<1>1. scan.on /\ scan.left = {} /\ l # NoFrame /\ frames[l].kind = "login" /\ scan' = NoScan
  BY DEF AddClient, Take
<1>2. /\ Passed \in [Journals -> Nat \cup {Off}]
      /\ l \in 1 .. Len(frames) /\ Taken \in FrameType
      /\ Passed[Taken.journal] = l
      /\ \A j \in Journals : j # Taken.journal => Passed[j] = te.cursor[j]
  BY <1>1, PassedIs
<1>3. s \in Strategies /\ Taken.journal = Sys /\ s \in Journals /\ Sys \in Journals /\ s # Sys
  <2>1. s \in Strategies
    BY <1>2 DEF FrameType
  <2>2. Taken.journal = Sys
    BY <1>1, <1>2, FramesAre DEF FramesInJournals, Taken
  <2> QED
    BY <2>1, <2>2, NamesAssumption DEF Journals
<1>4. SeekTime(s, l) \in 0 .. l
  BY <1>2, <1>3, SeekTimeIs
<1>5. /\ c \in [Journals -> Nat \cup {Off}]
      /\ c[s] = SeekTime(s, l) /\ c[Sys] = l
      /\ \A r \in Strategies \ {s} : c[r] = te.cursor[r]
  <2>1. SeekTime(s, l) \in Nat
    BY <1>2, <1>4
  <2> HIDE DEF s, l
  <2> QED
    BY <1>2, <1>3, <2>1, NamesAssumption DEF Journals
<1>6. te.clients \in SUBSET Strategies /\ te.alive \in SUBSET Strategies /\ te \in EngineType
  BY DEF TypeOK, EngineType
<1>7. /\ attached \in EngineType
      /\ attached.up = te.up /\ attached.run = te.run /\ attached.config = te.config /\ attached.start = te.start
      /\ attached.cursor = c /\ attached.clients = te.clients \cup {s} /\ attached.alive = te.alive \cup {s}
  <2> HIDE DEF c, s, l
  <2>1. te.clients \cup {s} \in SUBSET Strategies /\ te.alive \cup {s} \in SUBSET Strategies
    BY <1>3, <1>6
  <2>2. attached = [te EXCEPT !.cursor = c, !.clients = te.clients \cup {s}, !.alive = te.alive \cup {s}]
    OBVIOUS
  <2> HIDE DEF attached
  <2> QED
    BY <1>5, <1>6, <2>1, <2>2 DEF EngineType
<1>8. /\ passed \in EngineType
      /\ passed.up = te.up /\ passed.run = te.run /\ passed.config = te.config /\ passed.start = te.start
      /\ passed.cursor = Passed /\ passed.clients = te.clients /\ passed.alive = te.alive
  BY <1>2, <1>6 DEF EngineType
<1>9. \/ te' = attached /\ (s \notin te.clients \/ s \notin te.alive)
      \/ te' = passed /\ ((s \in te.clients /\ s \in te.alive) \/ (s \notin te.clients /\ ~te.config.default))
  <2> HIDE DEF passed
  <2>1. \/ s \notin te.clients /\ te' = attached
        \/ s \in te.clients \ te.alive /\ te' = attached
        \/ (IF s \in te.clients THEN s \in te.alive ELSE ~te.config.default) /\ te' = passed
    BY DEF AddClient, passed
  <2> HIDE DEF attached, s
  <2> QED
    BY <2>1
<1>10. td' = td \/ (td' = Append(td, Ack(s)))
  BY DEF AddClient
<1>11. Ack(s) \in TdType /\ Ack(s).kind = "ack"
  BY <1>3, RangeAssumption DEF Ack, TdType, Ids
<1>12. td' \in Seq(TdType)
  <2> DEFINE e == Ack(s)
  <2>1. td \in Seq(TdType) /\ e \in TdType
    BY <1>11 DEF TypeOK
  <2>2. Append(td, e) \in Seq(TdType)
    <3> HIDE DEF e
    <3> QED
      BY <2>1
  <2> QED
    BY <1>10, <2>1, <2>2
<1>13. AddsClient(s, l)
  <2>1. /\ te'.up = te.up /\ te'.run = te.run /\ te'.config = te.config /\ te'.start = te.start
        /\ te'.cursor[Sys] = l
        /\ \A r \in Strategies \ {s} : te'.cursor[r] = te.cursor[r]
        /\ \/ /\ s \notin te.clients \/ s \notin te.alive
              /\ te'.cursor[s] = SeekTime(s, l)
              /\ te'.clients = te.clients \cup {s} /\ te'.alive = te.alive \cup {s}
           \/ /\ (s \in te.clients /\ s \in te.alive) \/ (s \notin te.clients /\ ~te.config.default)
              /\ te'.cursor[s] = te.cursor[s]
              /\ te'.clients = te.clients /\ te'.alive = te.alive
    <3>1. CASE te' = attached /\ (s \notin te.clients \/ s \notin te.alive)
      <4> HIDE DEF attached, c, s, l
      <4> QED
        BY <3>1, <1>5, <1>7
    <3>2. CASE te' = passed /\ ((s \in te.clients /\ s \in te.alive) \/ (s \notin te.clients /\ ~te.config.default))
      <4> HIDE DEF passed, s, l
      <4> QED
        BY <3>2, <1>2, <1>3, <1>8, NamesAssumption DEF Journals
    <3> QED
      BY <1>9, <3>1, <3>2
  <2>2. td' = td \/ \E e \in TdType : td' = Append(td, e) /\ e.kind = "ack"
    BY <1>10, <1>11
  <2>3. frames[l].s = s /\ frames[l].journal = Sys
    BY <1>3 DEF Taken
  <2> HIDE DEF attached, passed, c, s
  <2> QED
    BY <1>1, <1>2, <1>3, <2>1, <2>2, <2>3 DEF AddsClient, SameEngine
<1>14. te' \in EngineType
  <2> HIDE DEF attached, passed
  <2> QED
    BY <1>7, <1>8, <1>9
<1>15. scan' \in [on: BOOLEAN, left: SUBSET Strategies, best: Nat]
  BY <1>1 DEF NoScan, NoFrame
<1>16. UNCHANGED <<frames, strategy, threads, asked, taken, dropped, hasty, told>>
  BY DEF AddClient
<1>17. TypeOK'
  BY <1>12, <1>14, <1>15, <1>16 DEF TypeOK
<1> QED
  BY <1>13, <1>17

RemovesClient(s, e) ==
  /\ scan.on /\ scan.best # NoFrame /\ scan.left = {} /\ e = scan.best /\ e \in 1 .. Len(frames)
  /\ frames[e].kind = "end" /\ frames[e].s = s /\ frames[e].journal = Sys /\ s \in Strategies
  /\ scan' = NoScan /\ SameEngine
  /\ te'.cursor[Sys] = e /\ te'.clients = te.clients
  /\ \A r \in Strategies \ {s} : te'.cursor[r] = te.cursor[r]
  /\ IF s \in te.clients THEN te'.cursor[s] = Off /\ te'.alive = te.alive \ {s}
                         ELSE te'.cursor[s] = te.cursor[s] /\ te'.alive = te.alive

LEMMA RemoveClientDoes ==
  ASSUME TypeOK, FramesInJournals, Scans, RemoveClient
  PROVE  TypeOK' /\ RemovesClient(Taken.s, scan.best)
<1> DEFINE s == Taken.s
           l == scan.best
           c == [Passed EXCEPT ![s] = Off]
           removed == [te EXCEPT !.cursor = c, !.alive = @ \ {s}]
           passed == [te EXCEPT !.cursor = Passed]
<1>1. scan.on /\ scan.left = {} /\ l # NoFrame /\ frames[l].kind = "end" /\ scan' = NoScan
  BY DEF RemoveClient, Take
<1>2. /\ Passed \in [Journals -> Nat \cup {Off}]
      /\ l \in 1 .. Len(frames) /\ Taken \in FrameType
      /\ Passed[Taken.journal] = l
      /\ \A j \in Journals : j # Taken.journal => Passed[j] = te.cursor[j]
  BY <1>1, PassedIs
<1>3. s \in Strategies /\ Taken.journal = Sys /\ s \in Journals /\ Sys \in Journals /\ s # Sys
  <2>1. s \in Strategies
    BY <1>2 DEF FrameType
  <2>2. Taken.journal = Sys
    BY <1>1, <1>2, FramesAre DEF FramesInJournals, Taken
  <2> QED
    BY <2>1, <2>2, NamesAssumption DEF Journals
<1>5. /\ c \in [Journals -> Nat \cup {Off}]
      /\ c[s] = Off /\ c[Sys] = l
      /\ \A r \in Strategies \ {s} : c[r] = te.cursor[r]
  <2> HIDE DEF s, l
  <2> QED
    BY <1>2, <1>3, NamesAssumption DEF Journals
<1>6. te.clients \in SUBSET Strategies /\ te.alive \in SUBSET Strategies /\ te \in EngineType
  BY DEF TypeOK, EngineType
<1>7. /\ removed \in EngineType
      /\ removed.up = te.up /\ removed.run = te.run /\ removed.config = te.config /\ removed.start = te.start
      /\ removed.cursor = c /\ removed.clients = te.clients /\ removed.alive = te.alive \ {s}
  <2> HIDE DEF c, s, l
  <2>1. te.alive \ {s} \in SUBSET Strategies
    BY <1>3, <1>6
  <2>2. removed = [te EXCEPT !.cursor = c, !.alive = te.alive \ {s}]
    OBVIOUS
  <2> HIDE DEF removed
  <2> QED
    BY <1>5, <1>6, <2>1, <2>2 DEF EngineType
<1>8. /\ passed \in EngineType
      /\ passed.up = te.up /\ passed.run = te.run /\ passed.config = te.config /\ passed.start = te.start
      /\ passed.cursor = Passed /\ passed.clients = te.clients /\ passed.alive = te.alive
  BY <1>2, <1>6 DEF EngineType
<1>9. te' = IF s \in te.clients THEN removed ELSE passed
  BY DEF RemoveClient
<1>13. RemovesClient(s, l)
  <2>1. /\ te'.up = te.up /\ te'.run = te.run /\ te'.config = te.config /\ te'.start = te.start
        /\ te'.cursor[Sys] = l /\ te'.clients = te.clients
        /\ \A r \in Strategies \ {s} : te'.cursor[r] = te.cursor[r]
        /\ IF s \in te.clients THEN te'.cursor[s] = Off /\ te'.alive = te.alive \ {s}
                               ELSE te'.cursor[s] = te.cursor[s] /\ te'.alive = te.alive
    <3>1. CASE s \in te.clients
      <4>1. te' = removed
        BY <3>1, <1>9
      <4> HIDE DEF removed, passed, c, s, l
      <4> QED
        BY <3>1, <4>1, <1>5, <1>7
    <3>2. CASE s \notin te.clients
      <4>1. te' = passed
        BY <3>2, <1>9
      <4> HIDE DEF removed, passed, c, s, l
      <4> QED
        BY <3>2, <4>1, <1>2, <1>3, <1>8, NamesAssumption DEF Journals
    <3> QED
      BY <3>1, <3>2
  <2>3. frames[l].s = s /\ frames[l].journal = Sys
    BY <1>3 DEF Taken
  <2> HIDE DEF removed, passed, c, s
  <2> QED
    BY <1>1, <1>2, <1>3, <2>1, <2>3 DEF RemovesClient, SameEngine
<1>14. te' \in EngineType
  <2> HIDE DEF removed, passed
  <2> QED
    BY <1>7, <1>8, <1>9
<1>15. scan' \in [on: BOOLEAN, left: SUBSET Strategies, best: Nat]
  BY <1>1 DEF NoScan, NoFrame
<1>16. UNCHANGED <<frames, strategy, threads, asked, td, taken, dropped, hasty, told>>
  BY DEF RemoveClient
<1>17. TypeOK'
  BY <1>14, <1>15, <1>16 DEF TypeOK
<1> QED
  BY <1>13, <1>17

PassesRequest(s, k, q) ==
  /\ scan.on /\ scan.best # NoFrame /\ k = scan.best /\ k \in 1 .. Len(frames)
  /\ frames[k].kind = "request" /\ frames[k].s = s /\ frames[k].journal = s /\ s \in Strategies
  /\ frames[k].q = q /\ q \in Requests /\ q.s = s /\ q.run = frames[k].run
  /\ scan' = NoScan /\ SameEngine
  /\ te'.cursor[s] = k /\ te'.clients = te.clients /\ te'.alive = te.alive
  /\ \A j \in Journals \ {s} : te'.cursor[j] = te.cursor[j]
  /\ \/ /\ asked' = asked \cup {q} /\ dropped' = dropped
        /\ DOMAIN taken' = DOMAIN taken \cup {q}
        /\ taken'[q] = Count(q) + 1
        /\ \A p \in DOMAIN taken : p # q => taken'[p] = taken[p]
     \/ asked' = asked /\ taken' = taken /\ dropped' = dropped \cup {q}
  /\ hasty' = IF LoginUnread(q) THEN hasty \cup {q} ELSE hasty

LEMMA PassRequestDoes ==
  ASSUME TypeOK, FramesInJournals, Scans, PassRequest
  PROVE  TypeOK' /\ PassesRequest(Taken.s, scan.best, Taken.q)
<1> DEFINE s == Taken.s
           k == scan.best
           q == Taken.q
           passed == [te EXCEPT !.cursor = Passed]
           counted == [p \in DOMAIN taken \cup {q} |-> IF p = q THEN Count(q) + 1 ELSE taken[p]]
<1>1. scan.on /\ k # NoFrame /\ frames[k].kind = "request" /\ scan' = NoScan
  BY DEF PassRequest, Take
<1>2. /\ Passed \in [Journals -> Nat \cup {Off}]
      /\ k \in 1 .. Len(frames) /\ Taken \in FrameType
      /\ Passed[Taken.journal] = k
      /\ \A j \in Journals : j # Taken.journal => Passed[j] = te.cursor[j]
  BY <1>1, PassedIs
<1>3. s \in Strategies /\ Taken.journal = s /\ q \in Requests /\ q.s = s /\ q.run = frames[k].run
  <2>1. s \in Strategies
    BY <1>2 DEF FrameType
  <2> QED
    BY <1>1, <1>2, <2>1, FramesAre DEF FramesInJournals, Taken
<1>4. te \in EngineType /\ taken \in [DOMAIN taken -> Nat] /\ DOMAIN taken \subseteq Requests
  BY DEF TypeOK
<1>5. /\ passed \in EngineType
      /\ passed.up = te.up /\ passed.run = te.run /\ passed.config = te.config /\ passed.start = te.start
      /\ passed.cursor = Passed /\ passed.clients = te.clients /\ passed.alive = te.alive
  BY <1>2, <1>4 DEF EngineType
<1>6. /\ counted \in [DOMAIN counted -> Nat] /\ DOMAIN counted = DOMAIN taken \cup {q}
      /\ counted[q] = Count(q) + 1
      /\ \A p \in DOMAIN taken : p # q => counted[p] = taken[p]
  <2>1. Count(q) \in Nat
    BY <1>4 DEF Count
  <2> HIDE DEF q
  <2> QED
    BY <1>4, <2>1
<1>7. \/ /\ asked' = asked \cup {q} /\ dropped' = dropped
         /\ taken' = counted
      \/ asked' = asked /\ taken' = taken /\ dropped' = dropped \cup {q}
  BY DEF PassRequest
<1>8. hasty' = IF LoginUnread(q) THEN hasty \cup {q} ELSE hasty
  BY DEF PassRequest
<1>9. te' = passed
  BY DEF PassRequest
<1>10. \/ /\ asked' = asked \cup {q} /\ dropped' = dropped
          /\ DOMAIN taken' = DOMAIN taken \cup {q}
          /\ taken'[q] = Count(q) + 1
          /\ \A p \in DOMAIN taken : p # q => taken'[p] = taken[p]
       \/ asked' = asked /\ taken' = taken /\ dropped' = dropped \cup {q}
  <2> HIDE DEF counted, q
  <2> QED
    BY <1>6, <1>7
<1>11. PassesRequest(s, k, q)
  <2>1. frames[k].s = s /\ frames[k].journal = s /\ frames[k].q = q
    BY <1>3 DEF Taken
  <2> HIDE DEF counted, q, s, passed
  <2> QED
    BY <1>1, <1>2, <1>3, <1>5, <1>8, <1>9, <1>10, <2>1 DEF PassesRequest, SameEngine, Journals
<1>12. taken' \in [DOMAIN taken' -> Nat] /\ DOMAIN taken' \subseteq Requests
  <2> HIDE DEF counted, q
  <2> QED
    BY <1>3, <1>4, <1>6, <1>7
<1>13. asked' \subseteq Requests /\ dropped' \subseteq Requests /\ hasty' \subseteq Requests
  <2> HIDE DEF counted, q
  <2> QED
    BY <1>3, <1>7, <1>8 DEF TypeOK
<1>14. scan' \in [on: BOOLEAN, left: SUBSET Strategies, best: Nat]
  BY <1>1 DEF NoScan, NoFrame
<1>15. UNCHANGED <<frames, strategy, threads, td, told>>
  BY DEF PassRequest
<1>16. te' \in EngineType
  <2> HIDE DEF passed
  <2> QED
    BY <1>5, <1>9
<1> HIDE DEF passed, counted, q
<1>17. TypeOK'
  BY <1>12, <1>13, <1>14, <1>15, <1>16 DEF TypeOK
<1> QED
  BY <1>11, <1>17 DEF q

LEMMA ScanTypes ==
  ASSUME TypeOK, ScanFirst \/ (\E s \in Strategies : ScanNext(s)) \/ ScanInVain
  PROVE  TypeOK'
<1>1. CASE ScanFirst
  <2>1. NextVisible(Sys) \in Nat
    BY NextVisibleIs DEF Journals, NoFrame
  <2>2. scan' \in [on: BOOLEAN, left: SUBSET Strategies, best: Nat]
    BY <1>1, <2>1 DEF ScanFirst
  <2> QED
    BY <1>1, <2>2 DEF ScanFirst, TypeOK
<1>2. ASSUME NEW s \in Strategies, ScanNext(s)
      PROVE  TypeOK'
  <2> DEFINE k == NextVisible(s)
             b == IF k # NoFrame /\ (scan.best = NoFrame \/ k < scan.best) THEN k ELSE scan.best
  <2>1. k \in Nat
    BY NextVisibleIs DEF Journals, NoFrame
  <2>2. scan \in [on: BOOLEAN, left: SUBSET Strategies, best: Nat]
    BY DEF TypeOK
  <2>3. b \in Nat /\ scan.left \ {s} \in SUBSET Strategies
    BY <2>1, <2>2
  <2>4. scan' = [scan EXCEPT !.left = scan.left \ {s}, !.best = b]
    BY <1>2 DEF ScanNext
  <2>5. scan' \in [on: BOOLEAN, left: SUBSET Strategies, best: Nat]
    <3> HIDE DEF b
    <3> QED
      BY <2>2, <2>3, <2>4
  <2> QED
    BY <1>2, <2>5 DEF ScanNext, TypeOK
<1>3. CASE ScanInVain
  BY <1>3 DEF ScanInVain, NoScan, NoFrame, TypeOK
<1> QED
  BY <1>1, <1>2, <1>3

LEMMA AnswerDoes ==
  ASSUME TypeOK, NEW q \in asked, Answer(q)
  PROVE  /\ TypeOK'
         /\ asked' \subseteq asked
         /\ Len(td') >= Len(td)
         /\ \A n \in 1 .. Len(td) : td'[n] = td[n]
         /\ \A n \in 1 .. Len(td') : n > Len(td) =>
              td'[n].q = q /\ (td'[n].s = q.s => td'[n].id = Id(q))
<1> DEFINE answer(s, id) == [kind |-> "answer", s |-> s, id |-> id, q |-> q]
           a == answer(q.s, Id(q))
           b == answer(Direct, CopyId)
<1>1. q \in Requests /\ q.s \in Strategies /\ Id(q) \in Ids /\ CopyId \in Ids /\ Direct \in Strategies
  BY IdType, RangeAssumption, StrategiesAssumption DEF TypeOK, Requests, Ids
<1>2. a \in TdType /\ a.q = q /\ a.s = q.s /\ a.id = Id(q)
  BY <1>1 DEF TdType
<1>3. b \in TdType /\ b.q = q /\ b.s = Direct
  BY <1>1 DEF TdType
<1>4. td \in Seq(TdType)
  BY DEF TypeOK
<1>5. td' = td \o (IF q.s = Direct THEN <<a>> ELSE <<a, b>>)
  BY DEF Answer
<1> HIDE DEF a, b
<1>6. /\ td' \in Seq(TdType)
      /\ Len(td') >= Len(td)
      /\ \A n \in 1 .. Len(td) : td'[n] = td[n]
      /\ \A n \in 1 .. Len(td') : n > Len(td) =>
           td'[n].q = q /\ (td'[n].s = q.s => td'[n].id = Id(q))
  <2>1. CASE q.s = Direct
    <3>1. td' = td \o <<a>>
      BY <1>5, <2>1
    <3>2. <<a>> \in Seq(TdType)
      BY <1>2
    <3>3. td' \in Seq(TdType) /\ Len(td') = Len(td) + 1 /\ Len(td) \in Nat
      BY <1>4, <3>1, <3>2
    <3>4. \A n \in 1 .. Len(td') : td'[n] = IF n <= Len(td) THEN td[n] ELSE a
      BY <1>2, <1>4, <3>1, <3>2, <3>3
    <3> QED
      BY <1>2, <3>3, <3>4
  <2>2. CASE q.s # Direct
    <3>1. td' = td \o <<a, b>>
      BY <1>5, <2>2
    <3>2. <<a, b>> \in Seq(TdType)
      BY <1>2, <1>3
    <3>3. td' \in Seq(TdType) /\ Len(td') = Len(td) + 2 /\ Len(td) \in Nat
      BY <1>4, <3>1, <3>2
    <3>4. \A n \in 1 .. Len(td') : td'[n] = IF n <= Len(td) THEN td[n] ELSE IF n = Len(td) + 1 THEN a ELSE b
      BY <1>2, <1>3, <1>4, <3>1, <3>2, <3>3
    <3> QED
      BY <1>2, <1>3, <2>2, <3>3, <3>4
  <2> QED
    BY <2>1, <2>2
<1>7. asked' \subseteq asked
  BY DEF Answer
<1> QED
  BY <1>6, <1>7 DEF Answer, TypeOK

LEMMA EngineEndsDoes ==
  ASSUME TypeOK, EngineEnds
  PROVE  /\ TypeOK'
         /\ te'.cursor = te.cursor /\ te'.clients = te.clients /\ te'.alive = te.alive
         /\ te'.config = te.config /\ te'.start = te.start
<1>1. te \in EngineType
  BY DEF TypeOK
<1>2. te' = [te EXCEPT !.up = FALSE]
  BY DEF EngineEnds
<1>3. /\ te' \in EngineType
      /\ te'.cursor = te.cursor /\ te'.clients = te.clients /\ te'.alive = te.alive
      /\ te'.config = te.config /\ te'.start = te.start
  BY <1>1, <1>2 DEF EngineType
<1> QED
  BY <1>3 DEF EngineEnds, TypeOK

LEMMA EngineStartsDoes ==
  ASSUME TypeOK, OneWriting, EngineStarts
  PROVE  /\ TypeOK'
         /\ te'.start = SeekTime(Sys, Len(frames)) /\ te'.cursor[Sys] = te'.start
         /\ \A s \in Strategies : te'.cursor[s] = Off
         /\ te'.alive = {} /\ te'.clients = te'.config.named
<1> DEFINE start == SeekTime(Sys, Len(frames))
<1>1. start \in Nat
  <2>1. Len(frames) \in 0 .. Len(frames)
    BY FramesAre
  <2>2. start \in 0 .. Len(frames)
    BY <2>1, SeekTimeIs DEF Journals
  <2> QED
    BY <2>2
<1>2. PICK c \in Configurations : te' = NewEngine(te.run + 1, start, c)
  BY DEF EngineStarts
<1>3. te.run + 1 \in Nat
  BY DEF TypeOK, EngineType
<1> HIDE DEF start
<1>4. te' \in EngineType
  BY <1>1, <1>2, <1>3, EngineIsEngine
<1>5. /\ te'.start = start /\ te'.cursor[Sys] = te'.start
      /\ \A s \in Strategies : te'.cursor[s] = Off
      /\ te'.alive = {} /\ te'.clients = te'.config.named
  BY <1>2, NamesAssumption DEF NewEngine, Journals
<1> QED
  BY <1>4, <1>5 DEF EngineStarts, TypeOK, start

StrategyStep(s) ==
  \/ Start(s) \/ Connect(s) \/ Connected(s) \/ Exit(s) \/ Exited(s) \/ ReadTd(s)
  \/ \E t \in Threads : ReadRid(s, t) \/ StampRequest(s, t) \/ PublishRequest(s, t) \/ MapRequest(s, t)

EngineStep ==
  Listening \/ Callbacks \/ EngineEnds \/ EngineStarts

LEMMA NextSplit == Next => EngineStep \/ \E s \in Strategies : StrategyStep(s)
BY DEF Next, EngineStep, StrategyStep, DataThread, Requesting

-----------------------------------------------------------------------------
(* The frames and their writers.                                           *)

(* A log-in and an end are stamped alike. *)
StampsSys(s, kind) ==
  /\ Appends(Frame(Sys, kind, s, None))
  /\ strategy'[s].run = strategy[s].run
  /\ Others(s)
  /\ threads' = threads
  /\ \/ kind = "login" /\ strategy[s].state = "init" /\ strategy'[s].state = "connecting"
     \/ /\ kind = "end" /\ strategy[s].state \in {"REQUESTED", "ACK_POS"} /\ strategy'[s].state = "ending"
        /\ \A t \in Threads : threads[s][t].stage = "idle"

LEMMA StampsSysFrames ==
  ASSUME TypeOK, TypeOK', IFrames, NEW s \in Strategies, NEW kind \in {"login", "end"}, StampsSys(s, kind)
  PROVE  IFrames'
<1> DEFINE n == Len(frames)
<1>1. /\ DOMAIN frames = 1 .. n /\ DOMAIN frames' = 1 .. n + 1 /\ n \in Nat
      /\ \A k \in 1 .. n : frames'[k] = frames[k] /\ frames[k].s \in Strategies /\ frames[k].run \in Nat
      /\ \A k \in 1 .. n : frames[k].journal = Sys => frames[k].visible
  <2>1. Len(frames') = n + 1 /\ \A k \in 1 .. n : frames'[k] = frames[k]
    BY DEF StampsSys, Appends
  <2>2. \A k \in 1 .. n : frames[k] \in FrameType
    BY FramesAre
  <2>3. \A k \in 1 .. n : frames[k].journal = Sys => frames[k].visible
    BY DEF StampsSys, Appends, Frame
  <2> QED
    BY <2>1, <2>2, <2>3, FramesAre DEF TypeOK, FrameType
<1>2. /\ frames'[n + 1].journal = Sys /\ frames'[n + 1].kind = kind /\ frames'[n + 1].s = s
      /\ frames'[n + 1].run = strategy[s].run /\ frames'[n + 1].q = None /\ frames'[n + 1].visible = FALSE
  BY DEF StampsSys, Appends, Frame
<1>3. /\ strategy'[s].run = strategy[s].run /\ strategy[s].run \in Nat
      /\ \A r \in Strategies \ {s} : strategy'[r] = strategy[r]
      /\ threads' = threads
      /\ \A r \in Strategies : strategy'[r].run = strategy[r].run
  BY DEF StampsSys, Others, TypeOK, StrategyType
<1>4. \/ kind = "login" /\ strategy[s].state = "init" /\ strategy'[s].state = "connecting"
      \/ /\ kind = "end" /\ strategy[s].state \in {"REQUESTED", "ACK_POS"} /\ strategy'[s].state = "ending"
         /\ \A t \in Threads : threads[s][t].stage = "idle"
  BY DEF StampsSys
<1>5. strategy[s].run > 0
  BY <1>4 DEF IFrames, Lives
<1> HIDE DEF n
<1>6. FramesInJournals'
  BY <1>1, <1>2, <1>3, <1>5 DEF IFrames, FramesInJournals
<1>7. RunsInOrder'
  BY <1>1, <1>2, <1>3 DEF IFrames, FramesInJournals, RunsInOrder
<1>8. RequestsInOrder'
  BY <1>1, <1>2 DEF IFrames, RequestsInOrder
<1>9. ThreadsAhead'
  BY <1>1, <1>2, <1>3, <1>4 DEF IFrames, ThreadsAhead
<1>10. OneWriting'
  BY <1>1, <1>2 DEF IFrames, OneWriting
<1>11. InHand'
  BY <1>1, <1>2, <1>3, <1>4 DEF IFrames, InHand
<1>12. AtWork'
  <2> SUFFICES ASSUME NEW r \in Strategies PROVE WritesSys(r)' /\ Rests(r)' /\ \A t \in Threads : WritesRequest(r, t)'
    BY DEF AtWork
  <2>1. WritesSys(r) /\ Rests(r) /\ \A t \in Threads : WritesRequest(r, t)
    BY DEF IFrames, AtWork
  <2>2. WritesSys(r)'
    BY <2>1, <1>1, <1>2, <1>3, <1>4 DEF WritesSys, Of
  <2>3. Rests(r)'
    BY <2>1, <1>3, <1>4 DEF Rests
  <2>4. ASSUME NEW t \in Threads PROVE WritesRequest(r, t)'
    <3>1. Request(r, t)' = Request(r, t)
      BY <1>3 DEF Request
    <3>2. WritesRequest(r, t)
      BY <2>1
    <3> QED
      BY <3>1, <3>2, <1>1, <1>3 DEF WritesRequest, Stamped
  <2> QED
    BY <2>2, <2>3, <2>4
<1>13. Lives'
  <2>1. OneLogin /\ LoginFirst /\ EndLast /\ LogsIn(s) /\ Ends(s)
    BY DEF IFrames, Lives
  <2>2. OneLogin'
    BY <2>1, <1>1, <1>2, <1>4 DEF OneLogin, LogsIn, Of
  <2>3. LoginFirst'
    BY <2>1, <1>1, <1>2, <1>4 DEF LoginFirst, LogsIn, Of
  <2>4. EndLast'
    BY <2>1, <1>1, <1>2, <1>4 DEF EndLast, Ends, Of
  <2>5. ASSUME NEW r \in Strategies PROVE LogsIn(r)' /\ Ends(r)' /\ (strategy'[r].state # "down" => strategy'[r].run > 0)
    <3>1. LogsIn(r) /\ Ends(r) /\ (strategy[r].state # "down" => strategy[r].run > 0)
      BY DEF IFrames, Lives
    <3>2. LogsIn(r)'
      BY <3>1, <1>1, <1>2, <1>3, <1>4 DEF LogsIn, Of
    <3>3. Ends(r)'
      BY <3>1, <1>1, <1>2, <1>3, <1>4 DEF Ends, Of
    <3> QED
      BY <3>1, <3>2, <3>3, <1>3, <1>4
  <2> QED
    BY <2>2, <2>3, <2>4, <2>5 DEF Lives
<1> QED
  BY <1>6, <1>7, <1>8, <1>9, <1>10, <1>11, <1>12, <1>13 DEF IFrames

LEMMA StampRequestFrames ==
  ASSUME TypeOK, TypeOK', IFrames, NEW s \in Strategies, NEW t \in Threads, StampRequest(s, t)
  PROVE  IFrames'
<1> DEFINE n == Len(frames)
<1>0. /\ Appends(Frame(s, "request", s, Request(s, t)))
      /\ threads[s][t].stage = "rid" /\ threads'[s][t].stage = "frame"
      /\ threads'[s][t].nth = threads[s][t].nth /\ threads'[s][t].no = threads[s][t].no
      /\ OtherThreads(s, t)
      /\ strategy'[s].run = strategy[s].run /\ strategy'[s].state = strategy[s].state
      /\ Others(s)
  BY StampRequestDoes
<1>1. /\ DOMAIN frames = 1 .. n /\ DOMAIN frames' = 1 .. n + 1 /\ n \in Nat
      /\ \A k \in 1 .. n : frames'[k] = frames[k] /\ frames[k].s \in Strategies /\ frames[k].run \in Nat
      /\ \A k \in 1 .. n : frames[k].journal = s => frames[k].visible
  <2>1. Len(frames') = n + 1 /\ \A k \in 1 .. n : frames'[k] = frames[k]
    BY <1>0 DEF Appends
  <2>2. \A k \in 1 .. n : frames[k] \in FrameType
    BY FramesAre
  <2>3. \A k \in 1 .. n : frames[k].journal = s => frames[k].visible
    BY <1>0 DEF Appends, Frame
  <2> QED
    BY <2>1, <2>2, <2>3, FramesAre DEF TypeOK, FrameType
<1> DEFINE q == Request(s, t)
<1>2. /\ frames'[n + 1].journal = s /\ frames'[n + 1].kind = "request" /\ frames'[n + 1].s = s
      /\ frames'[n + 1].run = strategy[s].run /\ frames'[n + 1].q = q /\ frames'[n + 1].visible = FALSE
  BY <1>0 DEF Appends, Frame
<1>3. q \in Requests /\ q.s = s /\ q.run = strategy[s].run /\ q.thread = t /\ q.nth = threads[s][t].nth
  BY RequestType DEF Request
<1>4. /\ strategy[s].run \in Nat /\ s # Sys /\ threads[s][t].nth \in Nat
      /\ \A r \in Strategies : strategy'[r].run = strategy[r].run /\ strategy'[r].state = strategy[r].state
      /\ \A r \in Strategies, u \in Threads :
           threads'[r][u].nth = threads[r][u].nth /\ threads'[r][u].no = threads[r][u].no
      /\ \A r \in Strategies, u \in Threads : r # s \/ u # t => threads'[r][u] = threads[r][u]
  <2>1. strategy[s].run \in Nat /\ s # Sys /\ threads[s][t].nth \in Nat
    BY NamesAssumption DEF TypeOK, StrategyType, ThreadType
  <2>2. \A r \in Strategies : strategy'[r].run = strategy[r].run /\ strategy'[r].state = strategy[r].state
    BY <1>0 DEF Others
  <2>3. \A r \in Strategies, u \in Threads : r # s \/ u # t => threads'[r][u] = threads[r][u]
    BY <1>0 DEF OtherThreads
  <2>4. \A r \in Strategies, u \in Threads :
           threads'[r][u].nth = threads[r][u].nth /\ threads'[r][u].no = threads[r][u].no
    BY <1>0, <2>3
  <2> QED
    BY <2>1, <2>2, <2>3, <2>4
<1>5. strategy[s].run > 0 /\ strategy[s].state \notin {"ending", "down"}
  <2>1. Rests(s) /\ (strategy[s].state # "down" => strategy[s].run > 0)
    BY DEF IFrames, AtWork, Lives
  <2> QED
    BY <2>1, <1>0 DEF Rests
<1>6. \A r \in Strategies, u \in Threads : Request(r, u)' = Request(r, u)
  BY <1>4 DEF Request
<1> HIDE DEF n, q
<1>7. FramesInJournals'
  BY <1>1, <1>2, <1>3, <1>4, <1>5 DEF IFrames, FramesInJournals
<1>8. RunsInOrder'
  BY <1>1, <1>2, <1>4 DEF IFrames, FramesInJournals, RunsInOrder
<1>9. RequestsInOrder'
  <2>1. \A i \in 1 .. n :
          frames[i].kind = "request" /\ frames[i].s = s /\ frames[i].run = strategy[s].run
            /\ frames[i].q.thread = t => frames[i].q.nth < q.nth
    <3> SUFFICES ASSUME NEW i \in 1 .. n, frames[i].kind = "request", frames[i].s = s,
                        frames[i].run = strategy[s].run, frames[i].q.thread = t
                 PROVE  frames[i].q.nth < q.nth
      OBVIOUS
    <3>1. ThreadsAhead
      BY DEF IFrames
    <3>2. i \in DOMAIN frames
      BY <1>1
    <3>3. threads[frames[i].s][frames[i].q.thread].stage = "rid"
      BY <1>0
    <3>4. frames[i].q.nth < threads[frames[i].s][frames[i].q.thread].nth
      BY <3>1, <3>2, <3>3, <1>5 DEF ThreadsAhead
    <3> QED
      BY <3>4, <1>3
  <2> QED
    BY <1>1, <1>2, <1>3, <2>1 DEF IFrames, RequestsInOrder
<1>10. ThreadsAhead'
  <2> SUFFICES ASSUME NEW k \in 1 .. n + 1, frames'[k].kind = "request",
                      frames'[k].run = strategy'[frames'[k].s].run, strategy'[frames'[k].s].state # "down"
               PROVE  LET th == threads'[frames'[k].s][frames'[k].q.thread]
                      IN frames'[k].q.nth <= th.nth /\ (th.stage = "rid" => frames'[k].q.nth < th.nth)
    BY <1>1 DEF ThreadsAhead
  <2>1. CASE k = n + 1
    BY <2>1, <1>0, <1>2, <1>3, <1>4
  <2>2. CASE k \in 1 .. n
    <3>1. frames'[k] = frames[k] /\ frames[k].s \in Strategies
      BY <2>2, <1>1
    <3>2. frames[k].q.thread \in Threads
      BY <2>2, <3>1, <1>1 DEF IFrames, FramesInJournals, Requests
    <3>3. LET th == threads[frames[k].s][frames[k].q.thread]
          IN frames[k].q.nth <= th.nth /\ (th.stage = "rid" => frames[k].q.nth < th.nth)
      BY <2>2, <3>1, <1>1, <1>4 DEF IFrames, ThreadsAhead
    <3> QED
      BY <3>1, <3>2, <3>3, <1>0, <1>4
  <2> QED
    BY <2>1, <2>2, <1>1
<1>11. OneWriting'
  BY <1>1, <1>2 DEF IFrames, OneWriting
<1>12. InHand'
  <2> SUFFICES ASSUME NEW k \in 1 .. n + 1, ~frames'[k].visible
               PROVE  LET r == frames'[k].s
                      IN /\ frames'[k].run = strategy'[r].run
                         /\ frames'[k].kind = "request" => threads'[r][frames'[k].q.thread].stage = "frame"
                         /\ frames'[k].kind = "login" => strategy'[r].state = "connecting"
                         /\ frames'[k].kind = "end" => strategy'[r].state = "ending"
    BY <1>1 DEF InHand
  <2>1. CASE k = n + 1
    BY <2>1, <1>0, <1>2, <1>3, <1>4
  <2>2. CASE k \in 1 .. n
    <3>1. frames'[k] = frames[k] /\ frames[k].s \in Strategies
      BY <2>2, <1>1
    <3>2. frames[k].kind = "request" => frames[k].q.thread \in Threads /\ frames[k].s # s
      BY <2>2, <3>1, <1>1 DEF IFrames, FramesInJournals, Requests
    <3> QED
      BY <2>2, <3>1, <3>2, <1>1, <1>4 DEF IFrames, InHand
  <2> QED
    BY <2>1, <2>2, <1>1
<1>13. AtWork'
  <2> SUFFICES ASSUME NEW r \in Strategies PROVE WritesSys(r)' /\ Rests(r)' /\ \A u \in Threads : WritesRequest(r, u)'
    BY DEF AtWork
  <2>1. WritesSys(r) /\ Rests(r) /\ \A u \in Threads : WritesRequest(r, u)
    BY DEF IFrames, AtWork
  <2>2. WritesSys(r)'
    BY <2>1, <1>1, <1>4 DEF WritesSys, Of
  <2>3. Rests(r)'
    BY <2>1, <1>0, <1>4, <1>5 DEF Rests
  <2>4. ASSUME NEW u \in Threads PROVE WritesRequest(r, u)'
    <3>1. Request(r, u)' = Request(r, u)
      BY <1>6
    <3>2. WritesRequest(r, u)
      BY <2>1
    <3>3. CASE r = s /\ u = t
      BY <3>1, <3>3, <1>0, <1>1, <1>2 DEF WritesRequest, Stamped, q
    <3>4. CASE r # s \/ u # t
      BY <3>1, <3>2, <3>4, <1>1, <1>4 DEF WritesRequest, Stamped
    <3> QED
      BY <3>3, <3>4
  <2> QED
    BY <2>2, <2>3, <2>4
<1>14. Lives'
  <2>1. OneLogin /\ LoginFirst /\ EndLast /\ LogsIn(s) /\ Ends(s)
    BY DEF IFrames, Lives
  <2>2. OneLogin'
    BY <2>1, <1>1, <1>2 DEF OneLogin
  <2>3. LoginFirst'
    BY <2>1, <1>1, <1>2 DEF LoginFirst, Of
  <2>4. EndLast'
    <3>1. \A e \in 1 .. n : ~(frames[e].kind = "end" /\ frames[e].s = s /\ frames[e].run = strategy[s].run)
      BY <2>1, <1>1, <1>5 DEF Ends, Of
    <3> QED
      BY <2>1, <3>1, <1>1, <1>2 DEF EndLast
  <2>5. ASSUME NEW r \in Strategies PROVE LogsIn(r)' /\ Ends(r)' /\ (strategy'[r].state # "down" => strategy'[r].run > 0)
    <3>1. LogsIn(r) /\ Ends(r) /\ (strategy[r].state # "down" => strategy[r].run > 0)
      BY DEF IFrames, Lives
    <3>2. LogsIn(r)'
      BY <3>1, <1>1, <1>2, <1>4 DEF LogsIn, Of
    <3>3. Ends(r)'
      <4>1. strategy'[r].run = strategy[r].run /\ strategy'[r].state = strategy[r].state
        BY <1>4
      <4>2. frames'[n + 1].kind # "end"
        BY <1>2
      <4>3. ASSUME NEW e \in 1 .. n PROVE e \in 1 .. n + 1 /\ frames'[e] = frames[e]
        BY <1>1
      <4> QED
        BY <3>1, <4>1, <4>2, <4>3, <1>1 DEF Ends, Of
    <3> QED
      BY <3>1, <3>2, <3>3, <1>4
  <2> QED
    BY <2>2, <2>3, <2>4, <2>5 DEF Lives
<1> QED
  BY <1>7, <1>8, <1>9, <1>10, <1>11, <1>12, <1>13, <1>14 DEF IFrames

(* Publishing changes nothing but what can be seen. *)
LEMMA PublishedFrames ==
  ASSUME TypeOK, TypeOK', IFrames, NEW j \in Journals, Publishes(j),
         \A r \in Strategies : strategy'[r].run = strategy[r].run
  PROVE  /\ FramesInJournals' /\ RunsInOrder' /\ RequestsInOrder' /\ OneWriting'
         /\ OneLogin' /\ LoginFirst' /\ EndLast'
         /\ DOMAIN frames' = DOMAIN frames /\ DOMAIN frames = 1 .. Len(frames) /\ Len(frames) \in Nat
         /\ \A k \in DOMAIN frames :
              /\ frames'[k].journal = frames[k].journal /\ frames'[k].kind = frames[k].kind
              /\ frames'[k].s = frames[k].s /\ frames'[k].run = frames[k].run
              /\ frames'[k].q = frames[k].q
              /\ frames'[k].visible <=> (frames[k].visible \/ frames[k].journal = j)
              /\ frames[k].s \in Strategies
         /\ \A i, k \in DOMAIN frames :
              frames[i].journal = frames[k].journal /\ ~frames[i].visible /\ ~frames[k].visible => i = k
<1>1. /\ DOMAIN frames' = DOMAIN frames /\ DOMAIN frames = 1 .. Len(frames) /\ Len(frames) \in Nat
      /\ \A k \in DOMAIN frames :
              /\ frames'[k].journal = frames[k].journal /\ frames'[k].kind = frames[k].kind
              /\ frames'[k].s = frames[k].s /\ frames'[k].run = frames[k].run
              /\ frames'[k].q = frames[k].q
              /\ frames'[k].visible <=> (frames[k].visible \/ frames[k].journal = j)
  <2>1. Len(frames') = Len(frames) /\ DOMAIN frames' = 1 .. Len(frames')
    BY DEF TypeOK, Publishes
  <2>2. DOMAIN frames = 1 .. Len(frames) /\ Len(frames) \in Nat
    BY FramesAre
  <2> QED
    BY <2>1, <2>2 DEF Publishes
<1>2. \A k \in DOMAIN frames : frames[k].s \in Strategies
  BY FramesAre DEF FrameType
<1>3. FramesInJournals'
  BY <1>1, <1>2 DEF IFrames, FramesInJournals
<1>4. RunsInOrder'
  BY <1>1 DEF IFrames, RunsInOrder
<1>5. RequestsInOrder'
  BY <1>1 DEF IFrames, RequestsInOrder
<1>6. OneWriting'
  BY <1>1 DEF IFrames, OneWriting
<1>7. OneLogin'
  BY <1>1 DEF IFrames, Lives, OneLogin
<1>8. LoginFirst'
  BY <1>1 DEF IFrames, Lives, LoginFirst, Of
<1>9. EndLast'
  BY <1>1 DEF IFrames, Lives, EndLast
<1>10. \A i, k \in DOMAIN frames :
              frames[i].journal = frames[k].journal /\ ~frames[i].visible /\ ~frames[k].visible => i = k
  BY <1>1 DEF IFrames, OneWriting
<1> QED
  BY <1>1, <1>2, <1>3, <1>4, <1>5, <1>6, <1>7, <1>8, <1>9, <1>10

LEMMA PublishRequestFrames ==
  ASSUME TypeOK, TypeOK', IFrames, NEW s \in Strategies, NEW t \in Threads, PublishRequest(s, t)
  PROVE  IFrames'
<1>0. /\ Publishes(s)
      /\ threads[s][t].stage = "frame" /\ threads'[s][t].stage = "map"
      /\ threads'[s][t].nth = threads[s][t].nth /\ threads'[s][t].no = threads[s][t].no
      /\ OtherThreads(s, t) /\ strategy' = strategy
  <2>1. strategy' = strategy
    BY DEF PublishRequest
  <2> QED
    BY <2>1, PublishRequestDoes
<1>1. /\ FramesInJournals' /\ RunsInOrder' /\ RequestsInOrder' /\ OneWriting'
      /\ OneLogin' /\ LoginFirst' /\ EndLast'
      /\ DOMAIN frames' = DOMAIN frames /\ DOMAIN frames = 1 .. Len(frames) /\ Len(frames) \in Nat
      /\ \A k \in DOMAIN frames :
              /\ frames'[k].journal = frames[k].journal /\ frames'[k].kind = frames[k].kind
              /\ frames'[k].s = frames[k].s /\ frames'[k].run = frames[k].run
              /\ frames'[k].q = frames[k].q
              /\ frames'[k].visible <=> (frames[k].visible \/ frames[k].journal = s)
              /\ frames[k].s \in Strategies
      /\ \A i, k \in DOMAIN frames :
              frames[i].journal = frames[k].journal /\ ~frames[i].visible /\ ~frames[k].visible => i = k
  BY <1>0, PublishedFrames DEF Journals
<1>2. \A k \in DOMAIN frames : frames[k].kind = "request" =>
        frames[k].q.thread \in Threads /\ frames[k].q \in Requests /\ frames[k].journal = frames[k].s
        /\ frames[k].q.s = frames[k].s
  BY DEF IFrames, FramesInJournals, Requests
<1>3. \A r \in Strategies, u \in Threads : r # s \/ u # t => threads'[r][u] = threads[r][u]
  BY <1>0 DEF OtherThreads
<1>4. \A r \in Strategies, u \in Threads :
        threads'[r][u].nth = threads[r][u].nth /\ threads'[r][u].no = threads[r][u].no
        /\ (threads'[r][u].stage = "rid" => threads[r][u].stage = "rid")
  BY <1>0, <1>3
<1>5. \A r \in Strategies, u \in Threads : Request(r, u)' = Request(r, u)
  BY <1>0, <1>4 DEF Request
<1>6. PICK m \in DOMAIN frames : Stamped(s, t, m) /\ ~frames[m].visible
  BY <1>0 DEF IFrames, AtWork, WritesRequest
<1>7. frames[m].journal = s /\ frames[m].q = Request(s, t) /\ frames[m].kind = "request"
  BY <1>2, <1>6 DEF Stamped, Request
<1>8. s # Sys
  BY NamesAssumption
<1>9. ThreadsAhead'
  <2> SUFFICES ASSUME NEW k \in DOMAIN frames, frames'[k].kind = "request",
                      frames'[k].run = strategy'[frames'[k].s].run, strategy'[frames'[k].s].state # "down"
               PROVE  LET th == threads'[frames'[k].s][frames'[k].q.thread]
                      IN frames'[k].q.nth <= th.nth /\ (th.stage = "rid" => frames'[k].q.nth < th.nth)
    BY <1>1 DEF ThreadsAhead
  <2>1. LET th == threads[frames[k].s][frames[k].q.thread]
        IN frames[k].q.nth <= th.nth /\ (th.stage = "rid" => frames[k].q.nth < th.nth)
    BY <1>0, <1>1 DEF IFrames, ThreadsAhead
  <2> QED
    BY <2>1, <1>1, <1>2, <1>4
<1>10. InHand'
  <2> SUFFICES ASSUME NEW k \in DOMAIN frames, ~frames'[k].visible
               PROVE  LET r == frames'[k].s
                      IN /\ frames'[k].run = strategy'[r].run
                         /\ frames'[k].kind = "request" => threads'[r][frames'[k].q.thread].stage = "frame"
                         /\ frames'[k].kind = "login" => strategy'[r].state = "connecting"
                         /\ frames'[k].kind = "end" => strategy'[r].state = "ending"
    BY <1>1 DEF InHand
  <2>1. ~frames[k].visible /\ frames[k].journal # s
    BY <1>1
  <2>2. frames[k].kind = "request" => frames[k].s # s
    BY <2>1, <1>2
  <2> QED
    BY <2>1, <2>2, <1>0, <1>1, <1>2, <1>3 DEF IFrames, InHand
<1>11. AtWork'
  <2> SUFFICES ASSUME NEW r \in Strategies PROVE WritesSys(r)' /\ Rests(r)' /\ \A u \in Threads : WritesRequest(r, u)'
    BY DEF AtWork
  <2>1. WritesSys(r) /\ Rests(r) /\ \A u \in Threads : WritesRequest(r, u)
    BY DEF IFrames, AtWork
  <2>2. WritesSys(r)'
    <3>1. \A k \in DOMAIN frames : frames[k].kind # "request" => frames[k].journal = Sys
      BY DEF IFrames, FramesInJournals
    <3>2. \A k \in DOMAIN frames : frames[k].kind # "request" => (frames'[k].visible <=> frames[k].visible)
      BY <3>1, <1>1, <1>8
    <3>3. DOMAIN frames' = DOMAIN frames /\ strategy' = strategy
          /\ \A k \in DOMAIN frames :
               frames'[k].kind = frames[k].kind /\ frames'[k].s = frames[k].s /\ frames'[k].run = frames[k].run
      BY <1>0, <1>1
    <3> QED
      BY <2>1, <3>2, <3>3 DEF WritesSys, Of
  <2>3. Rests(r)'
    <3>1. CASE r = s
      BY <2>1, <3>1, <1>0 DEF Rests
    <3>2. CASE r # s
      BY <2>1, <3>2, <1>0, <1>3 DEF Rests
    <3> QED
      BY <3>1, <3>2
  <2>4. ASSUME NEW u \in Threads PROVE WritesRequest(r, u)'
    <3>1. Request(r, u)' = Request(r, u)
      BY <1>5
    <3>2. WritesRequest(r, u)
      BY <2>1
    <3>3. CASE r = s /\ u = t
      BY <3>1, <3>3, <1>0, <1>1, <1>6, <1>7 DEF WritesRequest, Stamped
    <3>4. CASE r # s \/ u # t
      <4>1. threads'[r][u] = threads[r][u]
        BY <3>4, <1>3
      <4>2. ASSUME NEW k \in DOMAIN frames, Stamped(r, u, k), ~frames[k].visible
            PROVE  frames[k].journal # s
        <5>1. frames[k].q = Request(r, u) /\ frames[k].kind = "request"
          BY <4>2 DEF Stamped
        <5>2. k # m
          BY <5>1, <1>7, <3>4 DEF Request
        <5> QED
          BY <5>2, <4>2, <1>1, <1>6, <1>7
      <4> QED
        BY <3>1, <3>2, <4>1, <4>2, <1>1 DEF WritesRequest, Stamped
    <3> QED
      BY <3>3, <3>4
  <2> QED
    BY <2>2, <2>3, <2>4
<1>12. Lives'
  <2>1. ASSUME NEW r \in Strategies PROVE LogsIn(r)' /\ Ends(r)' /\ (strategy'[r].state # "down" => strategy'[r].run > 0)
    <3>1. LogsIn(r) /\ Ends(r) /\ (strategy[r].state # "down" => strategy[r].run > 0)
      BY DEF IFrames, Lives
    <3>2. LogsIn(r)'
      BY <3>1, <1>0, <1>1 DEF LogsIn, Of
    <3>3. Ends(r)'
      BY <3>1, <1>0, <1>1 DEF Ends, Of
    <3> QED
      BY <3>1, <3>2, <3>3, <1>0
  <2> QED
    BY <2>1, <1>1 DEF Lives
<1> QED
  BY <1>1, <1>9, <1>10, <1>11, <1>12 DEF IFrames

(* The page engine returns from a log-in or an end. *)
LEMMA SysPublishedFrames ==
  ASSUME TypeOK, TypeOK', IFrames, NEW s \in Strategies, Connected(s) \/ Exited(s)
  PROVE  IFrames'
<1>0. /\ Publishes(Sys)
      /\ strategy'[s].run = strategy[s].run
      /\ \A r \in Strategies \ {s} : strategy'[r] = strategy[r] /\ threads'[r] = threads[r]
      /\ \/ strategy[s].state = "connecting" /\ strategy'[s].state = "REQUESTED" /\ threads' = threads
         \/ /\ strategy[s].state = "ending" /\ strategy'[s].state = "down"
            /\ \A t \in Threads : threads'[s][t] = Idle(0)
  <2>1. CASE Connected(s)
    <3>1. threads' = threads
      BY <2>1 DEF Connected
    <3> QED
      BY <2>1, <3>1, ConnectedDoes DEF Others
  <2>2. CASE Exited(s)
    BY <2>2, ExitedDoes DEF Others
  <2> QED
    BY <2>1, <2>2
<1>1. /\ FramesInJournals' /\ RunsInOrder' /\ RequestsInOrder' /\ OneWriting'
      /\ OneLogin' /\ LoginFirst' /\ EndLast'
      /\ DOMAIN frames' = DOMAIN frames /\ DOMAIN frames = 1 .. Len(frames) /\ Len(frames) \in Nat
      /\ \A k \in DOMAIN frames :
              /\ frames'[k].journal = frames[k].journal /\ frames'[k].kind = frames[k].kind
              /\ frames'[k].s = frames[k].s /\ frames'[k].run = frames[k].run
              /\ frames'[k].q = frames[k].q
              /\ frames'[k].visible <=> (frames[k].visible \/ frames[k].journal = Sys)
              /\ frames[k].s \in Strategies
      /\ \A i, k \in DOMAIN frames :
              frames[i].journal = frames[k].journal /\ ~frames[i].visible /\ ~frames[k].visible => i = k
  <2>1. \A r \in Strategies : strategy'[r].run = strategy[r].run
    BY <1>0
  <2> QED
    BY <1>0, <2>1, PublishedFrames DEF Journals
<1>2. \A k \in DOMAIN frames : frames[k].kind = "request" =>
        frames[k].q.thread \in Threads /\ frames[k].journal # Sys
  BY <1>1, NamesAssumption DEF IFrames, FramesInJournals, Requests
<1>3. \A r \in Strategies : strategy'[r].run = strategy[r].run /\ (strategy'[r].state # "down" => strategy[r].state # "down")
  BY <1>0
<1>4. \A k \in DOMAIN frames : frames[k].kind # "request" => frames[k].journal = Sys
  BY DEF IFrames, FramesInJournals
<1>5. PICK m \in DOMAIN frames : frames[m].s = s /\ frames[m].journal = Sys /\ ~frames[m].visible
  BY <1>0, <1>4 DEF IFrames, AtWork, WritesSys, Of
<1>6. \A r \in Strategies \ {s} : strategy[r].state \notin {"connecting", "ending"}
  <2> SUFFICES ASSUME NEW r \in Strategies \ {s}, strategy[r].state \in {"connecting", "ending"}
               PROVE  FALSE
    OBVIOUS
  <2>1. PICK k \in DOMAIN frames : frames[k].s = r /\ frames[k].journal = Sys /\ ~frames[k].visible
    BY <1>4 DEF IFrames, AtWork, WritesSys, Of
  <2> QED
    BY <2>1, <1>1, <1>5
<1>7. \A t \in Threads : strategy[s].state = "ending" => threads[s][t].stage = "idle"
  BY DEF IFrames, AtWork, Rests
<1>8. ThreadsAhead'
  <2> SUFFICES ASSUME NEW k \in DOMAIN frames, frames'[k].kind = "request",
                      frames'[k].run = strategy'[frames'[k].s].run, strategy'[frames'[k].s].state # "down"
               PROVE  LET th == threads'[frames'[k].s][frames'[k].q.thread]
                      IN frames'[k].q.nth <= th.nth /\ (th.stage = "rid" => frames'[k].q.nth < th.nth)
    BY <1>1 DEF ThreadsAhead
  <2>1. LET th == threads[frames[k].s][frames[k].q.thread]
        IN frames[k].q.nth <= th.nth /\ (th.stage = "rid" => frames[k].q.nth < th.nth)
    BY <1>1, <1>3 DEF IFrames, ThreadsAhead
  <2>2. threads'[frames[k].s] = threads[frames[k].s]
    BY <1>0, <1>1
  <2> QED
    BY <2>1, <2>2, <1>1
<1>9. InHand'
  <2> SUFFICES ASSUME NEW k \in DOMAIN frames, ~frames'[k].visible
               PROVE  LET r == frames'[k].s
                      IN /\ frames'[k].run = strategy'[r].run
                         /\ frames'[k].kind = "request" => threads'[r][frames'[k].q.thread].stage = "frame"
                         /\ frames'[k].kind = "login" => strategy'[r].state = "connecting"
                         /\ frames'[k].kind = "end" => strategy'[r].state = "ending"
    BY <1>1 DEF InHand
  <2>1. ~frames[k].visible /\ frames[k].journal # Sys /\ frames[k].kind = "request"
    BY <1>1, <1>4
  <2>2. threads[frames[k].s][frames[k].q.thread].stage = "frame" /\ frames[k].q.thread \in Threads
        /\ frames[k].run = strategy[frames[k].s].run
    BY <2>1, <1>2 DEF IFrames, InHand
  <2>3. threads'[frames[k].s] = threads[frames[k].s]
    BY <2>2, <1>0, <1>1, <1>7
  <2> QED
    BY <2>1, <2>2, <2>3, <1>1, <1>3
<1>10. AtWork'
  <2> SUFFICES ASSUME NEW r \in Strategies PROVE WritesSys(r)' /\ Rests(r)' /\ \A u \in Threads : WritesRequest(r, u)'
    BY DEF AtWork
  <2>1. WritesSys(r) /\ Rests(r) /\ \A u \in Threads : WritesRequest(r, u)
    BY DEF IFrames, AtWork
  <2>2. WritesSys(r)'
    BY <1>0, <1>6 DEF WritesSys
  <2>3. Rests(r)'
    BY <2>1, <1>0 DEF Rests, Idle
  <2>4. ASSUME NEW u \in Threads PROVE WritesRequest(r, u)'
    <3>1. WritesRequest(r, u)
      BY <2>1
    <3>2. CASE r = s /\ strategy[s].state = "ending"
      BY <3>2, <1>0 DEF WritesRequest, Idle
    <3>3. CASE ~(r = s /\ strategy[s].state = "ending")
      <4>1. threads'[r] = threads[r]
        BY <3>3, <1>0
      <4>2. Request(r, u)' = Request(r, u)
        BY <4>1, <1>3 DEF Request
      <4>3. ASSUME NEW k \in DOMAIN frames
            PROVE  Stamped(r, u, k)' = Stamped(r, u, k) /\ (Stamped(r, u, k) => (frames'[k].visible <=> frames[k].visible))
        BY <4>2, <1>1, <1>2 DEF Stamped
      <4> QED
        BY <3>1, <4>1, <4>3, <1>1 DEF WritesRequest
    <3> QED
      BY <3>2, <3>3
  <2> QED
    BY <2>2, <2>3, <2>4
<1>11. Lives'
  <2>1. ASSUME NEW r \in Strategies PROVE LogsIn(r)' /\ Ends(r)' /\ (strategy'[r].state # "down" => strategy'[r].run > 0)
    <3>1. LogsIn(r) /\ Ends(r) /\ (strategy[r].state # "down" => strategy[r].run > 0)
      BY DEF IFrames, Lives
    <3>2. DOMAIN frames' = DOMAIN frames
          /\ \A k \in DOMAIN frames :
               frames'[k].kind = frames[k].kind /\ frames'[k].s = frames[k].s /\ frames'[k].run = frames[k].run
      BY <1>1
    <3>3. LogsIn(r)'
      BY <3>1, <3>2, <1>0 DEF LogsIn, Of
    <3>4. Ends(r)'
      <4>1. strategy'[r].run = strategy[r].run
        BY <1>3
      <4>2. strategy'[r].state \in {"ending", "down"} <=> strategy[r].state \in {"ending", "down"}
        BY <1>0
      <4> QED
        BY <3>1, <3>2, <4>1, <4>2 DEF Ends, Of
    <3> QED
      BY <3>1, <3>3, <3>4, <1>3
  <2> QED
    BY <2>1, <1>1 DEF Lives
<1> QED
  BY <1>1, <1>8, <1>9, <1>10, <1>11 DEF IFrames

(* A run begins with idle threads and nothing in hand. *)
LEMMA StartFrames ==
  ASSUME TypeOK, TypeOK', IFrames, NEW s \in Strategies, Start(s)
  PROVE  IFrames'
<1>0. /\ strategy[s].state = "down"
      /\ strategy'[s].run = strategy[s].run + 1 /\ strategy'[s].state = "init"
      /\ \A r \in Strategies \ {s} : strategy'[r] = strategy[r]
  BY StartDoes DEF Others
<1>1. frames' = frames /\ threads' = threads
  BY DEF Start
<1>2. strategy[s].run \in Nat
  BY DEF TypeOK, StrategyType
<1>3. /\ DOMAIN frames = 1 .. Len(frames) /\ Len(frames) \in Nat
      /\ \A k \in DOMAIN frames : frames[k].s \in Strategies /\ frames[k].run \in 1 .. strategy[frames[k].s].run
                                  /\ frames[k].kind \in {"login", "end", "request"}
  BY FramesAre DEF FrameType, IFrames, FramesInJournals
<1>4. \A k \in DOMAIN frames : frames[k].s = s => frames[k].run # strategy'[s].run
  BY <1>0, <1>2, <1>3
<1>5. \A t \in Threads : threads[s][t].stage = "idle"
  BY <1>0 DEF IFrames, AtWork, Rests
<1>6. \A k \in DOMAIN frames : frames[k].kind = "request" => frames[k].q.thread \in Threads
  BY DEF IFrames, FramesInJournals, Requests
<1>7. \A k \in DOMAIN frames : frames[k].s = s => frames[k].visible
  BY <1>0, <1>3, <1>5, <1>6 DEF IFrames, InHand
<1>8. FramesInJournals'
  <2> SUFFICES ASSUME NEW k \in DOMAIN frames
               PROVE  /\ frames[k].run \in 1 .. strategy'[frames[k].s].run
                      /\ frames[k].kind = "request" => /\ frames[k].journal = frames[k].s
                                     /\ frames[k].q \in Requests
                                     /\ frames[k].q.s = frames[k].s /\ frames[k].q.run = frames[k].run
                      /\ frames[k].kind # "request" => frames[k].journal = Sys /\ frames[k].q = None
    BY <1>1 DEF FramesInJournals
  <2>1. frames[k].run \in 1 .. strategy'[frames[k].s].run
    BY <1>0, <1>2, <1>3
  <2> QED
    BY <2>1 DEF IFrames, FramesInJournals
<1>9. RunsInOrder' /\ RequestsInOrder' /\ OneWriting'
  BY <1>1 DEF IFrames, RunsInOrder, RequestsInOrder, OneWriting
<1>10. ThreadsAhead'
  <2> SUFFICES ASSUME NEW k \in DOMAIN frames, frames[k].kind = "request",
                      frames[k].run = strategy'[frames[k].s].run, strategy'[frames[k].s].state # "down"
               PROVE  LET th == threads[frames[k].s][frames[k].q.thread]
                      IN frames[k].q.nth <= th.nth /\ (th.stage = "rid" => frames[k].q.nth < th.nth)
    BY <1>1 DEF ThreadsAhead
  <2>1. frames[k].s # s /\ strategy'[frames[k].s] = strategy[frames[k].s]
    BY <1>0, <1>3, <1>4
  <2> QED
    BY <2>1 DEF IFrames, ThreadsAhead
<1>11. InHand'
  <2> SUFFICES ASSUME NEW k \in DOMAIN frames, ~frames[k].visible
               PROVE  LET r == frames[k].s
                      IN /\ frames[k].run = strategy'[r].run
                         /\ frames[k].kind = "request" => threads[r][frames[k].q.thread].stage = "frame"
                         /\ frames[k].kind = "login" => strategy'[r].state = "connecting"
                         /\ frames[k].kind = "end" => strategy'[r].state = "ending"
    BY <1>1 DEF InHand
  <2>1. strategy'[frames[k].s] = strategy[frames[k].s]
    BY <1>0, <1>3, <1>7
  <2> QED
    BY <2>1 DEF IFrames, InHand
<1>12. AtWork'
  <2> SUFFICES ASSUME NEW r \in Strategies PROVE WritesSys(r)' /\ Rests(r)' /\ \A u \in Threads : WritesRequest(r, u)'
    BY DEF AtWork
  <2>1. WritesSys(r) /\ Rests(r) /\ \A u \in Threads : WritesRequest(r, u)
    BY DEF IFrames, AtWork
  <2>2. CASE r = s
    BY <2>2, <1>0, <1>1, <1>5 DEF WritesSys, Rests, WritesRequest
  <2>3. CASE r # s
    <3>1. strategy'[r] = strategy[r]
      BY <2>3, <1>0
    <3> QED
      BY <2>1, <3>1, <1>1 DEF WritesSys, Rests, WritesRequest, Of, Stamped, Request
  <2> QED
    BY <2>2, <2>3
<1>13. Lives'
  <2>1. OneLogin' /\ LoginFirst' /\ EndLast'
    BY <1>1 DEF IFrames, Lives, OneLogin, LoginFirst, EndLast, Of
  <2>2. ASSUME NEW r \in Strategies PROVE LogsIn(r)' /\ Ends(r)' /\ (strategy'[r].state # "down" => strategy'[r].run > 0)
    <3>1. LogsIn(r) /\ Ends(r) /\ (strategy[r].state # "down" => strategy[r].run > 0)
      BY DEF IFrames, Lives
    <3>2. CASE r = s
      <4>1. LogsIn(s)'
        BY <1>0, <1>1, <1>4 DEF LogsIn, Of
      <4>2. Ends(s)'
        <5>1. \A k \in DOMAIN frames : ~Of(k, "end", s, strategy'[s].run)
          BY <1>4 DEF Of
        <5>2. ASSUME NEW n \in 1 .. strategy'[s].run, n < strategy'[s].run
              PROVE  \E e \in DOMAIN frames : Of(e, "end", s, n)
          <6>1. n \in 1 .. strategy[s].run
            BY <5>2, <1>0, <1>2
          <6> QED
            BY <6>1, <3>1, <3>2, <1>0 DEF Ends
        <5> QED
          BY <5>1, <5>2, <1>0, <1>1 DEF Ends, Of
      <4> QED
        BY <3>2, <4>1, <4>2, <1>0, <1>2
    <3>3. CASE r # s
      <4>1. strategy'[r] = strategy[r]
        BY <3>3, <1>0
      <4> QED
        BY <3>1, <4>1, <1>1 DEF LogsIn, Ends, Of
    <3> QED
      BY <3>2, <3>3
  <2> QED
    BY <2>1, <2>2 DEF Lives
<1> QED
  BY <1>8, <1>9, <1>10, <1>11, <1>12, <1>13 DEF IFrames

(* The other steps of a strategy leave the journals alone. *)
Quiet ==
  /\ frames' = frames
  /\ \A r \in Strategies :
       /\ strategy'[r].run = strategy[r].run
       /\ \/ strategy'[r].state = strategy[r].state
          \/ strategy[r].state \in {"REQUESTED", "ACK_POS"} /\ strategy'[r].state \in {"REQUESTED", "ACK_POS"}
       /\ \A u \in Threads :
            \/ threads'[r][u] = threads[r][u]
            \/ /\ strategy[r].state \notin {"down", "ending"} /\ strategy'[r].state = strategy[r].state
               /\ threads'[r][u].stage = "rid" /\ threads'[r][u].nth = threads[r][u].nth + 1
            \/ /\ threads[r][u].stage = "map" /\ threads'[r][u].stage = "idle"
               /\ threads'[r][u].nth = threads[r][u].nth
       /\ \A u \in Threads : threads[r][u].stage = "frame" => threads'[r][u] = threads[r][u]

LEMMA QuietFrames ==
  ASSUME TypeOK, TypeOK', IFrames, Quiet
  PROVE  IFrames'
<1>1. frames' = frames
  BY DEF Quiet
<1>2. \A k \in DOMAIN frames : frames[k].s \in Strategies
  BY FramesAre DEF FrameType
<1>3. \A k \in DOMAIN frames : frames[k].kind = "request" => frames[k].q.thread \in Threads /\ frames[k].q.nth \in Nat
  BY DEF IFrames, FramesInJournals, Requests
<1>4. \A r \in Strategies, u \in Threads : threads[r][u].nth \in Nat
  BY DEF TypeOK, ThreadType
<1>8. FramesInJournals'
  BY <1>1, <1>2 DEF IFrames, FramesInJournals, Quiet
<1>9. RunsInOrder' /\ RequestsInOrder' /\ OneWriting'
  BY <1>1 DEF IFrames, RunsInOrder, RequestsInOrder, OneWriting
<1>10. ThreadsAhead'
  <2> SUFFICES ASSUME NEW k \in DOMAIN frames, frames[k].kind = "request",
                      frames[k].run = strategy'[frames[k].s].run, strategy'[frames[k].s].state # "down"
               PROVE  LET th == threads'[frames[k].s][frames[k].q.thread]
                      IN frames[k].q.nth <= th.nth /\ (th.stage = "rid" => frames[k].q.nth < th.nth)
    BY <1>1 DEF ThreadsAhead
  <2>1. frames[k].run = strategy[frames[k].s].run /\ strategy[frames[k].s].state # "down"
    BY <1>2 DEF Quiet
  <2>2. LET th == threads[frames[k].s][frames[k].q.thread]
        IN frames[k].q.nth <= th.nth /\ (th.stage = "rid" => frames[k].q.nth < th.nth)
    BY <2>1 DEF IFrames, ThreadsAhead
  <2>3. PICK r \in Strategies, u \in Threads : r = frames[k].s /\ u = frames[k].q.thread
    BY <1>2, <1>3
  <2>4. \/ threads'[r][u] = threads[r][u]
        \/ threads'[r][u].stage = "rid" /\ threads'[r][u].nth = threads[r][u].nth + 1
        \/ threads'[r][u].stage = "idle" /\ threads'[r][u].nth = threads[r][u].nth
    BY DEF Quiet
  <2> QED
    BY <2>2, <2>3, <2>4, <1>3, <1>4
<1>11. InHand'
  <2> SUFFICES ASSUME NEW k \in DOMAIN frames, ~frames[k].visible
               PROVE  LET r == frames[k].s
                      IN /\ frames[k].run = strategy'[r].run
                         /\ frames[k].kind = "request" => threads'[r][frames[k].q.thread].stage = "frame"
                         /\ frames[k].kind = "login" => strategy'[r].state = "connecting"
                         /\ frames[k].kind = "end" => strategy'[r].state = "ending"
    BY <1>1 DEF InHand
  <2>1. LET r == frames[k].s
        IN /\ frames[k].run = strategy[r].run
           /\ frames[k].kind = "request" => threads[r][frames[k].q.thread].stage = "frame"
           /\ frames[k].kind = "login" => strategy[r].state = "connecting"
           /\ frames[k].kind = "end" => strategy[r].state = "ending"
    BY DEF IFrames, InHand
  <2> QED
    BY <2>1, <1>2, <1>3 DEF Quiet
<1>12. AtWork'
  <2> SUFFICES ASSUME NEW r \in Strategies PROVE WritesSys(r)' /\ Rests(r)' /\ \A u \in Threads : WritesRequest(r, u)'
    BY DEF AtWork
  <2>1. WritesSys(r) /\ Rests(r) /\ \A u \in Threads : WritesRequest(r, u)
    BY DEF IFrames, AtWork
  <2>2. WritesSys(r)'
    BY <2>1, <1>1 DEF WritesSys, Of, Quiet
  <2>3. Rests(r)'
    BY <2>1 DEF Rests, Quiet
  <2>4. ASSUME NEW u \in Threads PROVE WritesRequest(r, u)'
    <3>1. CASE threads'[r][u] = threads[r][u]
      <4>1. Request(r, u)' = Request(r, u)
        BY <3>1 DEF Request, Quiet
      <4> QED
        BY <2>1, <3>1, <4>1, <1>1 DEF WritesRequest, Stamped
    <3>2. CASE threads'[r][u] # threads[r][u]
      <4>1. threads'[r][u].stage \in {"rid", "idle"}
        BY <3>2 DEF Quiet
      <4> QED
        BY <4>1 DEF WritesRequest
    <3> QED
      BY <3>1, <3>2
  <2> QED
    BY <2>2, <2>3, <2>4
<1>13. Lives'
  <2>1. OneLogin' /\ LoginFirst' /\ EndLast'
    BY <1>1 DEF IFrames, Lives, OneLogin, LoginFirst, EndLast, Of
  <2>2. ASSUME NEW r \in Strategies PROVE LogsIn(r)' /\ Ends(r)' /\ (strategy'[r].state # "down" => strategy'[r].run > 0)
    <3>1. LogsIn(r) /\ Ends(r) /\ (strategy[r].state # "down" => strategy[r].run > 0)
      BY DEF IFrames, Lives
    <3>2. LogsIn(r)'
      BY <3>1, <1>1 DEF LogsIn, Of, Quiet
    <3>3. Ends(r)'
      <4>1. strategy'[r].run = strategy[r].run
        BY DEF Quiet
      <4>2. strategy'[r].state \in {"ending", "down"} <=> strategy[r].state \in {"ending", "down"}
        BY DEF Quiet
      <4> QED
        BY <3>1, <4>1, <4>2, <1>1 DEF Ends, Of
    <3> QED
      BY <3>1, <3>2, <3>3 DEF Quiet
  <2> QED
    BY <2>1, <2>2 DEF Lives
<1> QED
  BY <1>8, <1>9, <1>10, <1>11, <1>12, <1>13 DEF IFrames

LEMMA ReadsAreQuiet ==
  ASSUME TypeOK, NEW s \in Strategies,
         \/ ReadTd(s)
         \/ \E t \in Threads : ReadRid(s, t) \/ MapRequest(s, t)
  PROVE  Quiet
<1>1. CASE ReadTd(s)
  <2>1. frames' = frames /\ threads' = threads
    BY <1>1 DEF ReadTd
  <2> QED
    BY <1>1, <2>1, ReadTdDoes DEF Quiet, Others
<1>2. ASSUME NEW t \in Threads, ReadRid(s, t) PROVE Quiet
  <2>1. frames' = frames /\ strategy' = strategy
    BY <1>2 DEF ReadRid
  <2> QED
    BY <1>2, <2>1, ReadRidDoes DEF Quiet, OtherThreads
<1>3. ASSUME NEW t \in Threads, MapRequest(s, t) PROVE Quiet
  <2>1. frames' = frames
    BY <1>3 DEF MapRequest
  <2>2. /\ threads[s][t].stage = "map" /\ threads'[s][t].stage = "idle"
        /\ threads'[s][t].nth = threads[s][t].nth
        /\ OtherThreads(s, t)
        /\ strategy'[s].run = strategy[s].run /\ strategy'[s].state = strategy[s].state
        /\ Others(s)
    BY <1>3, MapRequestDoes
  <2>3. \A r \in Strategies : strategy'[r].run = strategy[r].run /\ strategy'[r].state = strategy[r].state
    BY <2>2 DEF Others
  <2>4. \A r \in Strategies, u \in Threads :
          \/ threads'[r][u] = threads[r][u]
          \/ /\ threads[r][u].stage = "map" /\ threads'[r][u].stage = "idle"
             /\ threads'[r][u].nth = threads[r][u].nth
    BY <2>2 DEF OtherThreads
  <2> QED
    BY <2>1, <2>3, <2>4 DEF Quiet
<1> QED
  BY <1>1, <1>2, <1>3

LEMMA StrategyTypes ==
  ASSUME TypeOK, NEW s \in Strategies, StrategyStep(s)
  PROVE  TypeOK'
<1>1. CASE Start(s)
  BY <1>1, StartDoes
<1>2. CASE Connect(s)
  BY <1>2, ConnectDoes
<1>3. CASE Connected(s)
  BY <1>3, ConnectedDoes
<1>4. CASE Exit(s)
  BY <1>4, ExitDoes
<1>5. CASE Exited(s)
  BY <1>5, ExitedDoes
<1>6. CASE ReadTd(s)
  BY <1>6, ReadTdDoes
<1>7. ASSUME NEW t \in Threads,
             ReadRid(s, t) \/ StampRequest(s, t) \/ PublishRequest(s, t) \/ MapRequest(s, t)
      PROVE  TypeOK'
  BY <1>7, ReadRidDoes, StampRequestDoes, PublishRequestDoes, MapRequestDoes
<1> QED
  BY <1>1, <1>2, <1>3, <1>4, <1>5, <1>6, <1>7 DEF StrategyStep

LEMMA StampingFrames ==
  ASSUME TypeOK, TypeOK', IFrames, NEW s \in Strategies, Connect(s) \/ Exit(s)
  PROVE  IFrames'
<1>1. CASE Connect(s)
  <2>1. threads' = threads
    BY <1>1 DEF Connect
  <2>2. StampsSys(s, "login")
    BY <1>1, <2>1, ConnectDoes DEF StampsSys
  <2> QED
    BY <2>2, StampsSysFrames
<1>2. CASE Exit(s)
  <2>1. threads' = threads
    BY <1>2 DEF Exit
  <2>2. StampsSys(s, "end")
    BY <1>2, <2>1, ExitDoes DEF StampsSys
  <2> QED
    BY <2>2, StampsSysFrames
<1> QED
  BY <1>1, <1>2

LEMMA StrategyFrames ==
  ASSUME TypeOK, TypeOK', IFrames, NEW s \in Strategies, StrategyStep(s)
  PROVE  IFrames'
<1>1. CASE Start(s)
  BY <1>1, StartFrames
<1>2. CASE Connect(s) \/ Exit(s)
  BY <1>2, StampingFrames
<1>3. CASE Connected(s) \/ Exited(s)
  BY <1>3, SysPublishedFrames
<1>4. CASE ReadTd(s)
  BY <1>4, ReadsAreQuiet, QuietFrames
<1>5. ASSUME NEW t \in Threads,
             ReadRid(s, t) \/ StampRequest(s, t) \/ PublishRequest(s, t) \/ MapRequest(s, t)
      PROVE  IFrames'
  <2>1. CASE StampRequest(s, t)
    BY <2>1, StampRequestFrames
  <2>2. CASE PublishRequest(s, t)
    BY <2>2, PublishRequestFrames
  <2>3. CASE ReadRid(s, t) \/ MapRequest(s, t)
    BY <2>3, ReadsAreQuiet, QuietFrames
  <2> QED
    BY <1>5, <2>1, <2>2, <2>3
<1> QED
  BY <1>1, <1>2, <1>3, <1>4, <1>5 DEF StrategyStep

LEMMA EngineLeaves ==
  ASSUME EngineStep
  PROVE  frames' = frames /\ strategy' = strategy /\ threads' = threads /\ told' = told
BY DEF EngineStep, Listening, Callbacks, EngineEnds, EngineStarts, ScanFirst, ScanNext, ScanInVain,
       AddClient, RemoveClient, PassRequest, Answer

LEMMA StrategyLeaves ==
  ASSUME NEW s \in Strategies, StrategyStep(s)
  PROVE  te' = te /\ scan' = scan /\ asked' = asked /\ td' = td
         /\ taken' = taken /\ dropped' = dropped /\ hasty' = hasty
BY DEF StrategyStep, Start, Connect, Connected, Exit, Exited, ReadTd, ReadRid, StampRequest, PublishRequest,
       MapRequest

LEMMA InitFrames == Init => IFrames
<1> SUFFICES ASSUME Init PROVE IFrames
  OBVIOUS
<1>1. DOMAIN frames = {} /\ frames = << >>
  BY DEF Init
<1>2. \A s \in Strategies : strategy[s].state = "down" /\ strategy[s].run = 0
  BY DEF Init, Down, NewRun
<1>3. \A s \in Strategies, t \in Threads : threads[s][t].stage = "idle"
  BY DEF Init, Idle
<1>4. FramesInJournals /\ RunsInOrder /\ RequestsInOrder /\ ThreadsAhead /\ OneWriting /\ InHand
  BY <1>1 DEF FramesInJournals, RunsInOrder, RequestsInOrder, ThreadsAhead, OneWriting, InHand
<1>5. AtWork
  BY <1>2, <1>3 DEF AtWork, WritesSys, Rests, WritesRequest
<1>6. Lives
  <2>1. OneLogin /\ LoginFirst /\ EndLast
    BY <1>1 DEF OneLogin, LoginFirst, EndLast
  <2>2. \A s \in Strategies : LogsIn(s) /\ Ends(s) /\ (strategy[s].state # "down" => strategy[s].run > 0)
    BY <1>1, <1>2 DEF LogsIn, Ends
  <2> QED
    BY <2>1, <2>2 DEF Lives
<1> QED
  BY <1>4, <1>5, <1>6 DEF IFrames

LEMMA FramesKept ==
  ASSUME frames' = frames, strategy' = strategy, threads' = threads, IFrames
  PROVE  IFrames'
BY DEF IFrames, FramesInJournals, RunsInOrder, RequestsInOrder, ThreadsAhead, OneWriting, InHand, AtWork, WritesSys,
       WritesRequest, Rests, Stamped, Request, Of, Lives, OneLogin, LoginFirst, EndLast, LogsIn, Ends

-----------------------------------------------------------------------------
(* The engine, while strategies write. *)
Grows ==
  /\ DOMAIN frames = 1 .. Len(frames) /\ Len(frames) \in Nat
  /\ DOMAIN frames' = 1 .. Len(frames') /\ Len(frames') \in Nat
  /\ Len(frames') >= Len(frames)
  /\ \A k \in 1 .. Len(frames) :
       /\ frames'[k].journal = frames[k].journal /\ frames'[k].kind = frames[k].kind
       /\ frames'[k].s = frames[k].s /\ frames'[k].run = frames[k].run
       /\ frames'[k].q = frames[k].q
       /\ frames[k].visible => frames'[k].visible

LEMMA StrategyGrows ==
  ASSUME TypeOK, NEW s \in Strategies, StrategyStep(s)
  PROVE  Grows
<1>0. TypeOK'
  BY StrategyTypes
<1>1. /\ DOMAIN frames = 1 .. Len(frames) /\ Len(frames) \in Nat
      /\ DOMAIN frames' = 1 .. Len(frames') /\ Len(frames') \in Nat
  BY <1>0 DEF TypeOK
<1>2. ASSUME NEW f, Appends(f) PROVE Grows
  BY <1>1, <1>2 DEF Appends, Grows
<1>3. ASSUME NEW j, Publishes(j) PROVE Grows
  BY <1>1, <1>3 DEF Publishes, Grows
<1>4. CASE frames' = frames
  BY <1>1, <1>4 DEF Grows
<1>5. CASE Connect(s) \/ Exit(s)
  BY <1>2, <1>5, ConnectDoes, ExitDoes
<1>6. CASE Connected(s) \/ Exited(s)
  BY <1>3, <1>6, ConnectedDoes, ExitedDoes
<1>7. ASSUME NEW t \in Threads, StampRequest(s, t) PROVE Grows
  BY <1>2, <1>7, StampRequestDoes
<1>8. ASSUME NEW t \in Threads, PublishRequest(s, t) PROVE Grows
  BY <1>3, <1>8, PublishRequestDoes
<1>9. ASSUME Start(s) \/ ReadTd(s) \/ \E t \in Threads : ReadRid(s, t) \/ MapRequest(s, t)
      PROVE  frames' = frames
  BY <1>9 DEF Start, ReadTd, ReadRid, MapRequest
<1> QED
  BY <1>4, <1>5, <1>6, <1>7, <1>8, <1>9 DEF StrategyStep

LEMMA AttachedStays ==
  ASSUME TypeOK, Cursors, Grows, te' = te, NEW s \in Strategies, NEW r \in Nat
  PROVE  Attached(s, r)' <=> Attached(s, r)
<1>1. te.start \in Nat /\ te.cursor[Sys] \in Nat /\ te.cursor[Sys] <= Len(frames)
  BY DEF TypeOK, EngineType, Cursors, Journals
<1>2. \A k \in 1 .. te.cursor[Sys] : k \in 1 .. Len(frames)
  BY <1>1 DEF Grows
<1>3. \A k \in (te.start + 1) .. te.cursor[Sys] : k \in 1 .. te.cursor[Sys]
  BY <1>1
<1>4. \A k \in 1 .. te.cursor[Sys], kind \in {"login", "end"} : Of(k, kind, s, r)' <=> Of(k, kind, s, r)
  BY <1>2 DEF Of, Grows
<1> QED
  BY <1>3, <1>4 DEF Attached

LEMMA EngineWhileWriting ==
  ASSUME TypeOK, TypeOK', IFrames, IFrames', IEngine, Grows,
         te' = te, scan' = scan, taken' = taken, dropped' = dropped
  PROVE  IEngine'
<1>0. Cursors /\ Clients /\ AllPassed /\ PassedSeen /\ Scans /\ NothingLeftAtEnd
  BY DEF IEngine
<1>1. \A s \in Strategies, r \in Nat : Attached(s, r)' <=> Attached(s, r)
  BY <1>0, AttachedStays
<1>2. /\ \A j \in Journals : te.cursor[j] <= Len(frames) /\ te.cursor[j] \in Nat \cup {Off}
      /\ Sys \in Journals /\ te.start \in Nat /\ te.cursor[Sys] \in Nat /\ te.alive \subseteq Strategies
  BY <1>0 DEF Cursors, TypeOK, EngineType, Journals
<1>3. \A k \in DOMAIN frames' : frames'[k].s \in Strategies /\ frames'[k].run \in Nat
  <2>1. frames' \in Seq(FrameType)
    BY DEF TypeOK
  <2>2. \A k \in DOMAIN frames' : frames'[k] \in FrameType
    BY <2>1
  <2> QED
    BY <2>2 DEF FrameType
<1>4. Cursors'
  <2>1. \A j \in Journals : te.cursor[j] <= Len(frames')
    BY <1>2 DEF Grows, Off
  <2>2. \A i \in 1 .. te.cursor[Sys] : frames'[i].journal = Sys => frames'[i].visible
    <3>1. \A i \in 1 .. te.cursor[Sys] : i \in 1 .. Len(frames)
      BY <1>2 DEF Grows
    <3> QED
      BY <1>0, <3>1 DEF Cursors, Grows
  <2> QED
    BY <1>0, <2>1, <2>2 DEF Cursors
<1>5. Clients'
  BY <1>0, <1>1, <1>2 DEF Clients, Served
<1>6. AllPassed'
  <2> SUFFICES ASSUME NEW s \in te.alive, NEW r \in Nat, Attached(s, r),
                      NEW i \in DOMAIN frames', frames'[i].journal = s
               PROVE  /\ i > te.cursor[s] => frames'[i].run >= r
                      /\ /\ i <= te.cursor[s]
                         /\ \E l \in (te.start + 1) .. i : Of(l, "login", s, r)'
                         => frames'[i].q \in DOMAIN taken \cup dropped
    BY <1>1, <1>2 DEF AllPassed
  <2>1. CASE i \in 1 .. Len(frames)
    <3>1. frames[i].journal = s /\ i \in DOMAIN frames /\ frames'[i].run = frames[i].run /\ frames'[i].q = frames[i].q
      BY <2>1 DEF Grows
    <3>2. \A l \in (te.start + 1) .. i : Of(l, "login", s, r)' <=> Of(l, "login", s, r)
      <4>1. \A l \in (te.start + 1) .. i : l \in 1 .. Len(frames)
        BY <2>1, <1>2 DEF Grows
      <4> QED
        BY <4>1 DEF Grows, Of
    <3> QED
      BY <1>0, <3>1, <3>2 DEF AllPassed
  <2>2. CASE i \notin 1 .. Len(frames)
    <3>1. i > Len(frames) /\ i \in Nat
      BY <2>2 DEF Grows
    <3>2. te.cursor[s] < i
      BY <3>1, <1>2 DEF Grows, Off, Journals
    <3>3. PICK l \in (te.start + 1) .. te.cursor[Sys] : Of(l, "login", s, r)
      BY DEF Attached
    <3>4. l \in 1 .. Len(frames) /\ l < i
      BY <3>1, <1>2 DEF Grows
    <3>5. frames'[l].s = s /\ frames'[l].run = r /\ l \in DOMAIN frames'
      BY <3>1, <3>3, <3>4 DEF Grows, Of
    <3>6. frames'[i].s = s
      BY <1>2, NamesAssumption DEF IFrames, FramesInJournals
    <3>7. r <= frames'[i].run
      BY <3>4, <3>5, <3>6 DEF IFrames, RunsInOrder
    <3>8. te.cursor[s] \in Int /\ frames'[i].run \in Nat
      BY <1>2, <1>3 DEF Off, Journals
    <3> QED
      BY <3>1, <3>2, <3>7, <3>8
  <2> QED
    BY <2>1, <2>2
<1>7. PassedSeen'
  BY <1>0 DEF PassedSeen, Grows
<1>8. Scans'
  <2>1. scan.best # NoFrame => scan.best \in 1 .. Len(frames) /\ scan.best \in DOMAIN frames'
    BY <1>0 DEF Scans, Grows
  <2>2. scan.best # NoFrame => FirstSeen(scan.best)'
    <3> SUFFICES ASSUME scan.best # NoFrame PROVE FirstSeen(scan.best)'
      OBVIOUS
    <3>1. FirstSeen(scan.best) /\ scan.best \in 1 .. Len(frames) /\ scan.best \in DOMAIN frames'
      BY <1>0, <2>1 DEF Scans
    <3>2. frames'[scan.best].visible /\ frames'[scan.best].journal = frames[scan.best].journal
      BY <3>1 DEF FirstSeen, Grows
    <3>3. ASSUME NEW i \in DOMAIN frames', frames'[i].journal = frames'[scan.best].journal,
                 i > te.cursor[frames'[scan.best].journal]
          PROVE  scan.best <= i
      <4>1. CASE i \in 1 .. Len(frames)
        <5>1. frames[i].journal = frames[scan.best].journal /\ i \in DOMAIN frames /\ i > te.cursor[frames[scan.best].journal]
          BY <4>1, <3>2, <3>3 DEF Grows
        <5> QED
          BY <3>1, <5>1 DEF FirstSeen
      <4>2. CASE i \notin 1 .. Len(frames)
        BY <4>2, <3>1 DEF Grows
      <4> QED
        BY <4>1, <4>2
    <3> QED
      BY <3>1, <3>2, <3>3 DEF FirstSeen
  <2>3. ASSUME scan.best # NoFrame, frames'[scan.best].kind = "end", frames'[scan.best].s \in te.alive \ scan.left,
               NEW i \in DOMAIN frames',
               frames'[i].journal = frames'[scan.best].s, i > te.cursor[frames'[scan.best].s]
        PROVE  i > scan.best
    <3>1. frames'[scan.best].kind = frames[scan.best].kind /\ frames'[scan.best].s = frames[scan.best].s
      BY <2>1, <2>3 DEF Grows
    <3>2. CASE i \in 1 .. Len(frames)
      BY <1>0, <3>1, <3>2, <2>3 DEF Scans, Grows
    <3>3. CASE i \notin 1 .. Len(frames)
      BY <2>1, <2>3, <3>3 DEF Grows
    <3> QED
      BY <3>2, <3>3
  <2> QED
    BY <1>0, <2>1, <2>2, <2>3 DEF Scans
<1>9. NothingLeftAtEnd'
  <2> SUFFICES ASSUME NEW k \in DOMAIN frames', frames'[k].kind = "request",
                      NEW s, s = frames'[k].s, NEW run, run = frames'[k].run,
                      s \in te.config.named \/ te.config.default,
                      NEW l \in (te.start + 1) .. k, Of(l, "login", s, run)',
                      NEW e \in 1 .. te.cursor[Sys], Of(e, "end", s, run)'
               PROVE  frames'[k].q \in DOMAIN taken \cup dropped
    BY DEF NothingLeftAtEnd, Served, Of
  <2>1. e \in 1 .. Len(frames) /\ e \in DOMAIN frames'
    BY <1>2 DEF Grows
  <2>2. k <= e
    <3>1. EndLast'
      BY DEF IFrames, Lives
    <3>2. frames'[e].kind = "end" /\ frames'[e].s = s /\ frames'[e].run = run
      BY DEF Of
    <3> QED
      BY <3>1, <3>2, <2>1 DEF EndLast
  <2>3. k \in 1 .. Len(frames) /\ l \in 1 .. Len(frames)
    BY <2>1, <2>2, <1>2 DEF Grows
  <2>4. frames[k].kind = "request" /\ frames[k].s = s /\ frames[k].run = run
        /\ frames[k].q = frames'[k].q /\ k \in DOMAIN frames
    BY <2>3 DEF Grows
  <2>5. Of(l, "login", s, run) /\ Of(e, "end", s, run)
    BY <2>1, <2>3 DEF Of, Grows
  <2> QED
    BY <1>0, <2>4, <2>5 DEF NothingLeftAtEnd, Served
<1> QED
  BY <1>4, <1>5, <1>6, <1>7, <1>8, <1>9 DEF IEngine

(* A request names its place. *)
LEMMA OneFrame ==
  ASSUME IFrames, DOMAIN frames = 1 .. Len(frames), Len(frames) \in Nat,
         NEW i \in DOMAIN frames, NEW j \in DOMAIN frames,
         frames[i].kind = "request", frames[j].kind = "request", frames[i].q = frames[j].q
  PROVE  i = j
<1>1. frames[i].s = frames[j].s /\ frames[i].run = frames[j].run /\ frames[i].q \in Requests
  BY DEF IFrames, FramesInJournals
<1>2. frames[i].q.nth \in Nat
  BY <1>1 DEF Requests
<1>3. ~(i < j) /\ ~(j < i)
  BY <1>1, <1>2 DEF IFrames, RequestsInOrder
<1> QED
  BY <1>3

LEMMA TakenWhileWriting ==
  ASSUME TypeOK, TypeOK', IFrames, IFrames', IEngine, ITaken, Grows,
         te' = te, scan' = scan, taken' = taken, hasty' = hasty
  PROVE  ITaken'
<1>0. Cursors /\ PassedSeen
  BY DEF IEngine
<1>1. \A s \in Strategies, r \in Nat : Attached(s, r)' <=> Attached(s, r)
  BY <1>0, AttachedStays
<1>2. \A k \in DOMAIN frames : frames[k].s \in Strategies /\ frames[k].run \in Nat
  BY FramesAre DEF FrameType
<1> SUFFICES ASSUME NEW k \in DOMAIN frames', frames'[k].kind = "request", frames'[k].q \in DOMAIN taken
             PROVE  /\ Behind(k)' => \/ Attached(frames[k].s, frames[k].run)'
                                     \/ ~scan.on \/ (scan.best # NoFrame /\ scan.best < k)
                    /\ taken[frames'[k].q] \in {1, 2}
                    /\ CanTake(k)' => frames'[k].q \in hasty /\ taken[frames'[k].q] = 1
                    /\ taken[frames'[k].q] = 2 => frames'[k].q \in hasty
  BY DEF ITaken
<1>3. k \in 1 .. Len(frames)
  <2> SUFFICES ASSUME k \notin 1 .. Len(frames) PROVE FALSE
    OBVIOUS
  <2>1. PICK m \in DOMAIN frames : frames[m].kind = "request" /\ frames[m].q = frames'[k].q
    BY <1>0 DEF PassedSeen
  <2>2. m \in DOMAIN frames' /\ frames'[m].kind = "request" /\ frames'[m].q = frames'[k].q /\ m # k
    BY <2>1 DEF Grows
  <2>3. DOMAIN frames' = 1 .. Len(frames') /\ Len(frames') \in Nat
    BY DEF Grows
  <2>4. ASSUME NEW i \in DOMAIN frames', NEW j \in DOMAIN frames',
               frames'[i].kind = "request", frames'[j].kind = "request", frames'[i].q = frames'[j].q
        PROVE  ~(i < j)
    <3>1. FramesInJournals' /\ RequestsInOrder'
      BY DEF IFrames
    <3>2. frames'[i].s = frames'[j].s /\ frames'[i].run = frames'[j].run /\ frames'[i].q \in Requests
      BY <2>4, <3>1 DEF FramesInJournals
    <3>3. frames'[i].q.nth \in Nat
      BY <3>2 DEF Requests
    <3> QED
      BY <2>4, <3>1, <3>2, <3>3 DEF RequestsInOrder
  <2> QED
    BY <2>2, <2>3, <2>4
<1>4. /\ k \in DOMAIN frames /\ frames[k].kind = "request" /\ frames'[k].q = frames[k].q
      /\ frames'[k].s = frames[k].s /\ frames'[k].run = frames[k].run
  BY <1>3 DEF Grows
<1>5. Behind(k)' <=> Behind(k)
  BY <1>4 DEF Behind
<1>6. PICK s, run : s = frames[k].s /\ run = frames[k].run
  OBVIOUS
<1>7. s \in Strategies /\ run \in Nat
  BY <1>2, <1>4, <1>6
<1>8. Attached(frames[k].s, frames[k].run)' <=> Attached(s, run)
  <2>1. Attached(frames[k].s, frames[k].run)' <=> Attached(s, run)'
    BY <1>4, <1>6 DEF Attached, Of
  <2> QED
    BY <1>1, <1>7, <2>1
<1>9. LoginAhead(k)' <=> LoginAhead(k)
  <2>1. \A l \in 1 .. (k - 1) : l \in 1 .. Len(frames)
    BY <1>3 DEF Grows
  <2> QED
    BY <1>4, <2>1 DEF LoginAhead, Of, Grows
<1>10. CanTake(k)' <=> CanTake(k)
  BY <1>5, <1>6, <1>8, <1>9 DEF CanTake
<1> QED
  BY <1>4, <1>5, <1>6, <1>8, <1>10 DEF ITaken

-----------------------------------------------------------------------------
(* The answers, while strategies write and read. *)
LEMMA ToldKept ==
  ASSUME Told, Grows, told' = told, DOMAIN taken \subseteq DOMAIN taken'
  PROVE  Told'
<1> SUFFICES ASSUME NEW a \in told
             PROVE  /\ a.of \in DOMAIN taken'
                    /\ a.as # None => \E m \in DOMAIN frames' : frames'[m].kind = "request" /\ frames'[m].q = a.as
                    /\ a.by = a.of.s =>
                         \/ a.as = a.of
                         \/ a.as = None /\ (a.early \/ a.of.run < a.run)
                         \/ /\ a.as # None /\ a.as.s = a.by /\ Id(a.as) = Id(a.of)
                            /\ \/ a.early \/ a.of.thread # a.as.thread
                               \/ \E k, m \in DOMAIN frames' : k < m /\ frames'[k].q = a.of /\ frames'[m].q = a.as
  BY DEF Told
<1>1. /\ a.of \in DOMAIN taken
      /\ a.as # None => \E m \in DOMAIN frames : frames[m].kind = "request" /\ frames[m].q = a.as
      /\ a.by = a.of.s =>
                         \/ a.as = a.of
                         \/ a.as = None /\ (a.early \/ a.of.run < a.run)
                         \/ /\ a.as # None /\ a.as.s = a.by /\ Id(a.as) = Id(a.of)
                            /\ \/ a.early \/ a.of.thread # a.as.thread
                               \/ \E k, m \in DOMAIN frames : k < m /\ frames[k].q = a.of /\ frames[m].q = a.as
  BY DEF Told
<1>2. \A k \in DOMAIN frames : k \in DOMAIN frames' /\ frames'[k].kind = frames[k].kind /\ frames'[k].q = frames[k].q
  BY DEF Grows
<1> QED
  BY <1>1, <1>2

(* What changes neither a map nor the request to be entered in one. *)
Calm ==
  /\ Grows
  /\ \A k \in DOMAIN frames' :
       frames'[k].kind = "request" /\ frames'[k].visible => k \in DOMAIN frames /\ frames[k].visible
  /\ \A r \in Strategies :
       \/ strategy'[r].state = "down" /\ strategy'[r].ids = NoIds
       \/ strategy'[r].run = strategy[r].run + 1 /\ strategy'[r].ids = NoIds
       \/ /\ strategy'[r].run = strategy[r].run /\ strategy'[r].ids = strategy[r].ids
          /\ strategy'[r].state # "down" => strategy[r].state # "down"
          /\ \A u \in Threads : threads[r][u].stage = "map" => threads'[r][u] = threads[r][u]

LEMMA CalmInMaps ==
  ASSUME TypeOK, IFrames, IFrames', InMaps, Calm
  PROVE  InMaps'
<1> SUFFICES ASSUME NEW k \in DOMAIN frames', NEW s, s = frames'[k].s, NEW q, q = frames'[k].q,
                    frames'[k].kind = "request", frames'[k].visible,
                    frames'[k].run = strategy'[s].run, strategy'[s].state # "down"
             PROVE  \/ \E m \in DOMAIN frames' :
                         /\ frames'[m].kind = "request" /\ frames'[m].q = strategy'[s].ids[Id(q)]
                         /\ q.thread = strategy'[s].ids[Id(q)].thread => k <= m
                    \/ threads'[s][q.thread].stage = "map" /\ q = Request(s, q.thread)'
  BY DEF InMaps, Mapped, Id
<1>1. /\ k \in DOMAIN frames /\ frames[k].visible /\ frames[k].kind = "request"
      /\ frames[k].s = s /\ frames[k].q = q /\ frames[k].run = frames'[k].run
      /\ \A m \in DOMAIN frames : m \in DOMAIN frames' /\ frames'[m].kind = frames[m].kind /\ frames'[m].q = frames[m].q
  BY DEF Calm, Grows
<1>2. s \in Strategies /\ q.thread \in Threads /\ frames[k].run \in 1 .. strategy[s].run
      /\ strategy[s].run \in Nat
  <2>1. s \in Strategies
    BY <1>1, FramesAre DEF FrameType
  <2>2. strategy[s].run \in Nat
    BY <2>1 DEF TypeOK, StrategyType
  <2>3. q \in Requests /\ frames[k].run \in 1 .. strategy[s].run
    BY <1>1 DEF IFrames, FramesInJournals
  <2> QED
    BY <2>1, <2>2, <2>3 DEF Requests
<1>3. /\ strategy'[s].run = strategy[s].run /\ strategy'[s].ids = strategy[s].ids
      /\ strategy[s].state # "down"
      /\ threads[s][q.thread].stage = "map" => threads'[s][q.thread] = threads[s][q.thread]
  BY <1>1, <1>2 DEF Calm
<1>4. \/ \E m \in DOMAIN frames :
           /\ frames[m].kind = "request" /\ frames[m].q = strategy[s].ids[Id(q)]
           /\ q.thread = strategy[s].ids[Id(q)].thread => k <= m
      \/ threads[s][q.thread].stage = "map" /\ q = Request(s, q.thread)
  BY <1>1, <1>3 DEF InMaps, Mapped
<1> QED
  BY <1>1, <1>3, <1>4 DEF Request

LEMMA CalmMaps ==
  ASSUME Maps, Grows,
         \A r \in Strategies :
           \/ strategy'[r].ids = NoIds
           \/ strategy'[r].run = strategy[r].run /\ strategy'[r].ids = strategy[r].ids
  PROVE  Maps'
<1> SUFFICES ASSUME NEW s \in Strategies, NEW i \in Ids, NEW is, is = strategy'[s].ids[i], is # None
             PROVE  /\ is.s = s /\ is.run = strategy'[s].run /\ Id(is) = i
                    /\ \E m \in DOMAIN frames' : frames'[m].kind = "request" /\ frames'[m].q = is
  BY DEF Maps, Id
<1>1. strategy'[s].ids # NoIds
  BY DEF NoIds, Ids
<1>2. strategy'[s].run = strategy[s].run /\ strategy'[s].ids = strategy[s].ids
  BY <1>1
<1>3. /\ is.s = s /\ is.run = strategy[s].run /\ Id(is) = i
      /\ \E m \in DOMAIN frames : frames[m].kind = "request" /\ frames[m].q = is
  BY <1>2 DEF Maps
<1> QED
  BY <1>2, <1>3 DEF Grows

LEMMA OthersAnswers ==
  ASSUME TypeOK, IFrames, IAnswers, NEW s \in Strategies,
         \/ Start(s) \/ Connect(s) \/ Connected(s) \/ Exit(s) \/ Exited(s)
         \/ \E t \in Threads : ReadRid(s, t) \/ StampRequest(s, t)
  PROVE  IAnswers'
<1>1. TypeOK' /\ IFrames' /\ Grows /\ asked' = asked /\ td' = td /\ taken' = taken
  <2>1. StrategyStep(s)
    BY DEF StrategyStep
  <2> QED
    BY <2>1, StrategyTypes, StrategyFrames, StrategyGrows, StrategyLeaves
<1>2. told' = told
  BY DEF Start, Connect, Connected, Exit, Exited, ReadRid, StampRequest
<1>3. ASSUME NEW f, Appends(f), f.kind # "request" \/ ~f.visible, NEW k \in DOMAIN frames',
             frames'[k].kind = "request", frames'[k].visible
      PROVE  k \in DOMAIN frames /\ frames[k].visible
  BY <1>1, <1>3 DEF Appends, Grows
<1>4. ASSUME Publishes(Sys), NEW k \in DOMAIN frames',
             frames'[k].kind = "request", frames'[k].visible
      PROVE  k \in DOMAIN frames /\ frames[k].visible
  <2>1. k \in DOMAIN frames /\ frames[k].kind = "request" /\ (frames'[k].visible <=> frames[k].visible \/ frames[k].journal = Sys)
    BY <1>1, <1>4 DEF Publishes, Grows
  <2>2. frames[k].journal \in Strategies
    BY <2>1, FramesAre DEF FrameType, IFrames, FramesInJournals
  <2> QED
    BY <2>1, <2>2, <1>4, NamesAssumption
<1>5. ASSUME NEW k \in DOMAIN frames', frames'[k].kind = "request", frames'[k].visible
      PROVE  k \in DOMAIN frames /\ frames[k].visible
  <2>1. CASE Start(s) \/ \E t \in Threads : ReadRid(s, t)
    <3>1. frames' = frames
      BY <2>1 DEF Start, ReadRid
    <3> QED
      BY <3>1, <1>5
  <2>2. CASE Connect(s)
    BY <2>2, <1>3, <1>5, ConnectDoes DEF Frame
  <2>3. CASE Exit(s)
    BY <2>3, <1>3, <1>5, ExitDoes DEF Frame
  <2>4. ASSUME NEW t \in Threads, StampRequest(s, t) PROVE k \in DOMAIN frames /\ frames[k].visible
    BY <2>4, <1>3, <1>5, StampRequestDoes DEF Frame
  <2>5. CASE Connected(s) \/ Exited(s)
    BY <2>5, <1>4, <1>5, ConnectedDoes, ExitedDoes
  <2> QED
    BY <2>1, <2>2, <2>3, <2>4, <2>5
<1>6. \A r \in Strategies :
       \/ strategy'[r].state = "down" /\ strategy'[r].ids = NoIds
       \/ strategy'[r].run = strategy[r].run + 1 /\ strategy'[r].ids = NoIds
       \/ /\ strategy'[r].run = strategy[r].run /\ strategy'[r].ids = strategy[r].ids
          /\ strategy'[r].state # "down" => strategy[r].state # "down"
          /\ \A u \in Threads : threads[r][u].stage = "map" => threads'[r][u] = threads[r][u]
  <2>1. CASE Start(s)
    <3>1. threads' = threads
      BY <2>1 DEF Start
    <3> QED
      BY <2>1, <3>1, StartDoes DEF Others
  <2>2. CASE Connect(s) \/ Connected(s) \/ Exit(s)
    <3>1. threads' = threads
      BY <2>2 DEF Connect, Connected, Exit
    <3>2. strategy[s].state # "down" /\ strategy'[s].run = strategy[s].run /\ strategy'[s].ids = strategy[s].ids /\ Others(s)
      BY <2>2, ConnectDoes, ConnectedDoes, ExitDoes
    <3> QED
      BY <3>1, <3>2 DEF Others
  <2>3. CASE Exited(s)
    BY <2>3, ExitedDoes DEF Others
  <2>4. ASSUME NEW t \in Threads, ReadRid(s, t) \/ StampRequest(s, t)
        PROVE  \A r \in Strategies :
                 /\ strategy'[r].run = strategy[r].run /\ strategy'[r].ids = strategy[r].ids
                 /\ strategy'[r].state # "down" => strategy[r].state # "down"
                 /\ \A u \in Threads : threads[r][u].stage = "map" => threads'[r][u] = threads[r][u]
    <3>1. CASE ReadRid(s, t)
      <4>1. strategy' = strategy
        BY <3>1 DEF ReadRid
      <4> QED
        BY <3>1, <4>1, ReadRidDoes DEF OtherThreads
    <3>2. CASE StampRequest(s, t)
      BY <3>2, StampRequestDoes DEF Others, OtherThreads
    <3> QED
      BY <2>4, <3>1, <3>2
  <2> QED
    BY <2>1, <2>2, <2>3, <2>4
<1>7. Calm
  BY <1>1, <1>5, <1>6 DEF Calm
<1>8. InMaps'
  BY <1>1, <1>7, CalmInMaps DEF IAnswers
<1>9. Maps'
  BY <1>1, <1>6, CalmMaps DEF IAnswers
<1>10. Answers'
  BY <1>1 DEF IAnswers, Answers
<1>11. Told'
  BY <1>1, <1>2, ToldKept DEF IAnswers
<1> QED
  BY <1>8, <1>9, <1>10, <1>11 DEF IAnswers

(* What a strategy makes of an answer that is its own. *)
LEMMA ToldAnswers ==
  ASSUME TypeOK, IFrames, InMaps, Maps, PassedSeen, NEW s \in Strategies, strategy[s].state # "down",
         NEW q \in DOMAIN taken, q.s = s, NEW is, is = strategy[s].ids[Id(q)], NEW early \in BOOLEAN,
         \A t \in Threads : threads[s][t].stage = "map" /\ Request(s, t) = q => early
  PROVE  \/ is = q
         \/ is = None /\ (early \/ q.run < strategy[s].run)
         \/ /\ is # None /\ is.s = s /\ Id(is) = Id(q)
            /\ \/ early \/ q.thread # is.thread
               \/ \E k, m \in DOMAIN frames : k < m /\ frames[k].q = q /\ frames[m].q = is
<1>1. q \in Requests
  BY DEF TypeOK
<1>2. Id(q) \in Ids
  BY <1>1, IdType
<1>3. PICK k \in DOMAIN frames : frames[k].kind = "request" /\ frames[k].q = q /\ frames[k].visible
  BY DEF PassedSeen
<1>4. frames[k].s = s /\ frames[k].run = q.run /\ q.run \in 1 .. strategy[s].run
  BY <1>3 DEF IFrames, FramesInJournals
<1>5. strategy[s].run \in Nat
  BY DEF TypeOK, StrategyType
<1>6. /\ DOMAIN frames = 1 .. Len(frames) /\ Len(frames) \in Nat
      /\ \A m \in DOMAIN frames : frames[m].run \in Nat
  BY FramesAre DEF FrameType
<1>7. is # None =>
        /\ is.s = s /\ is.run = strategy[s].run /\ Id(is) = Id(q)
        /\ \E m \in DOMAIN frames : frames[m].kind = "request" /\ frames[m].q = is
  BY <1>2 DEF Maps
<1>8. CASE q.run < strategy[s].run
  <2>1. ASSUME is # None PROVE \E m \in DOMAIN frames : k < m /\ frames[m].q = is
    <3>1. PICK m \in DOMAIN frames : frames[m].kind = "request" /\ frames[m].q = is
      BY <2>1, <1>7
    <3>2. frames[m].s = s /\ frames[m].run = strategy[s].run
      BY <2>1, <3>1, <1>7 DEF IFrames, FramesInJournals
    <3>3. m # k /\ ~(m < k)
      BY <3>2, <1>4, <1>5, <1>6, <1>8 DEF IFrames, RunsInOrder
    <3> QED
      BY <3>1, <3>3, <1>6
  <2> QED
    BY <2>1, <1>3, <1>7, <1>8
<1>9. CASE q.run = strategy[s].run
  <2>1. Mapped(k) \/ (threads[s][q.thread].stage = "map" /\ q = Request(s, q.thread))
    BY <1>3, <1>4, <1>9 DEF InMaps
  <2>2. CASE Mapped(k)
    <3>1. PICK m \in DOMAIN frames :
             /\ frames[m].kind = "request" /\ frames[m].q = is
             /\ q.thread = is.thread => k <= m
      BY <2>2, <1>3, <1>4 DEF Mapped
    <3>2. is # None
      BY <3>1, NoneAssumption DEF IFrames, FramesInJournals
    <3>3. q.thread = is.thread => k = m \/ k < m
      BY <3>1, <1>6
    <3> QED
      BY <3>1, <3>2, <3>3, <1>3, <1>7
  <2>3. CASE threads[s][q.thread].stage = "map" /\ q = Request(s, q.thread)
    <3>1. early
      BY <2>3, <1>1 DEF Requests
    <3> QED
      BY <3>1, <1>7
  <2> QED
    BY <2>1, <2>2, <2>3
<1> QED
  BY <1>4, <1>5, <1>8, <1>9

LEMMA ReadTdAnswers ==
  ASSUME TypeOK, IFrames, IEngine, IAnswers, NEW s \in Strategies, ReadTd(s)
  PROVE  IAnswers'
<1>1. TypeOK' /\ IFrames' /\ Grows /\ asked' = asked /\ td' = td /\ taken' = taken
  <2>1. StrategyStep(s)
    BY DEF StrategyStep
  <2> QED
    BY <2>1, StrategyTypes, StrategyFrames, StrategyGrows, StrategyLeaves
<1>2. frames' = frames /\ threads' = threads
  BY DEF ReadTd
<1>3. /\ strategy[s].state \in {"REQUESTED", "ACK_POS"}
      /\ strategy'[s].run = strategy[s].run /\ strategy'[s].ids = strategy[s].ids
      /\ Others(s)
      /\ told' = told \/ \E n \in 1 .. Len(td) :
            td[n].kind = "answer" /\ td[n].s = s /\ told' = told \cup {ToldOf(s, td[n])}
  BY ReadTdDoes
<1>4. Calm
  BY <1>1, <1>2, <1>3 DEF Calm, Others
<1>5. InMaps'
  BY <1>1, <1>4, CalmInMaps DEF IAnswers
<1>6. Maps'
  BY <1>1, <1>3, CalmMaps DEF IAnswers, Others
<1>7. Answers'
  BY <1>1 DEF IAnswers, Answers
<1>8. Told'
  <2>1. CASE told' = told
    BY <1>1, <2>1, ToldKept DEF IAnswers
  <2>2. ASSUME NEW n \in 1 .. Len(td), td[n].kind = "answer", td[n].s = s,
               told' = told \cup {ToldOf(s, td[n])}
        PROVE  Told'
    <3>1. n \in DOMAIN td /\ td[n].id \in Ids
      <4>1. n \in DOMAIN td /\ td[n] \in TdType
        BY DEF TypeOK
      <4> QED
        BY <4>1 DEF TdType
    <3>2. td[n].q \in DOMAIN taken /\ (td[n].q.s = s => td[n].id = Id(td[n].q))
      BY <2>2, <3>1 DEF IAnswers, Answers
    <3> DEFINE b == ToldOf(s, td[n])
    <3>3. /\ b.of = td[n].q /\ b.by = s /\ b.run = strategy[s].run /\ b.as = strategy[s].ids[td[n].id]
          /\ b.early \in BOOLEAN
          /\ \A t \in Threads : threads[s][t].stage = "map" /\ Request(s, t) = td[n].q => b.early
      BY DEF ToldOf
    <3>4. b.as # None => \E m \in DOMAIN frames : frames[m].kind = "request" /\ frames[m].q = b.as
      BY <3>1, <3>3 DEF IAnswers, Maps
    <3>5. b.by = b.of.s =>
                         \/ b.as = b.of
                         \/ b.as = None /\ (b.early \/ b.of.run < b.run)
                         \/ /\ b.as # None /\ b.as.s = b.by /\ Id(b.as) = Id(b.of)
                            /\ \/ b.early \/ b.of.thread # b.as.thread
                               \/ \E k, m \in DOMAIN frames : k < m /\ frames[k].q = b.of /\ frames[m].q = b.as
      <4> HIDE DEF b
      <4>1. strategy[s].state # "down" /\ PassedSeen /\ InMaps /\ Maps
        BY <1>3 DEF IEngine, IAnswers
      <4> QED
        BY <3>2, <3>3, <4>1, ToldAnswers
    <3>6. told' = told \cup {b}
      BY <2>2
    <3> HIDE DEF b
    <3> QED
      BY <1>1, <1>2, <3>2, <3>3, <3>4, <3>5, <3>6 DEF IAnswers, Told
  <2> QED
    BY <1>3, <2>1, <2>2
<1> QED
  BY <1>5, <1>6, <1>7, <1>8 DEF IAnswers

LEMMA PublishRequestAnswers ==
  ASSUME TypeOK, IFrames, IAnswers, NEW s \in Strategies, NEW t \in Threads, PublishRequest(s, t)
  PROVE  IAnswers'
<1>1. TypeOK' /\ IFrames' /\ Grows /\ asked' = asked /\ td' = td /\ taken' = taken
  <2>1. StrategyStep(s)
    BY DEF StrategyStep
  <2> QED
    BY <2>1, StrategyTypes, StrategyFrames, StrategyGrows, StrategyLeaves
<1>2. strategy' = strategy /\ told' = told
  BY DEF PublishRequest
<1>3. /\ Publishes(s)
      /\ threads[s][t].stage = "frame" /\ threads'[s][t].stage = "map"
      /\ threads'[s][t].nth = threads[s][t].nth /\ threads'[s][t].no = threads[s][t].no
      /\ OtherThreads(s, t)
  BY PublishRequestDoes
<1>4. Request(s, t)' = Request(s, t)
  BY <1>2, <1>3 DEF Request
<1>5. PICK w \in DOMAIN frames : Stamped(s, t, w) /\ ~frames[w].visible
  BY <1>3 DEF IFrames, AtWork, WritesRequest
<1>6. frames[w].journal = s /\ frames[w].q = Request(s, t)
  BY <1>5 DEF Stamped, Request, IFrames, FramesInJournals
<1>7. InMaps'
  <2> SUFFICES ASSUME NEW k \in DOMAIN frames', NEW r, r = frames'[k].s, NEW q, q = frames'[k].q,
                    frames'[k].kind = "request", frames'[k].visible,
                    frames'[k].run = strategy[r].run, strategy[r].state # "down"
             PROVE  \/ \E m \in DOMAIN frames' :
                         /\ frames'[m].kind = "request" /\ frames'[m].q = strategy[r].ids[Id(q)]
                         /\ q.thread = strategy[r].ids[Id(q)].thread => k <= m
                    \/ threads'[r][q.thread].stage = "map" /\ q = Request(r, q.thread)'
    BY <1>2 DEF InMaps, Mapped, Id
  <2>1. /\ k \in DOMAIN frames /\ frames[k].kind = "request" /\ frames[k].s = r /\ frames[k].q = q
        /\ frames[k].run = strategy[r].run
        /\ frames[k].visible \/ frames[k].journal = s
        /\ \A m \in DOMAIN frames : m \in DOMAIN frames' /\ frames'[m].kind = frames[m].kind /\ frames'[m].q = frames[m].q
    BY <1>1, <1>3 DEF Grows, Publishes
  <2>2. r \in Strategies /\ q.thread \in Threads
    BY <2>1, FramesAre DEF FrameType, IFrames, FramesInJournals, Requests
  <2>3. CASE frames[k].visible
    <3>1. \/ \E m \in DOMAIN frames :
               /\ frames[m].kind = "request" /\ frames[m].q = strategy[r].ids[Id(q)]
               /\ q.thread = strategy[r].ids[Id(q)].thread => k <= m
          \/ threads[r][q.thread].stage = "map" /\ q = Request(r, q.thread)
      BY <2>1, <2>3 DEF IAnswers, InMaps, Mapped
    <3>2. ASSUME threads[r][q.thread].stage = "map"
          PROVE  threads'[r][q.thread] = threads[r][q.thread]
      BY <1>3, <2>2, <3>2 DEF OtherThreads
    <3> QED
      BY <1>2, <2>1, <3>1, <3>2 DEF Request
  <2>4. CASE ~frames[k].visible
    <3>1. k = w
      <4>1. DOMAIN frames = 1 .. Len(frames)
        BY FramesAre
      <4> QED
        BY <4>1, <2>1, <2>4, <1>5, <1>6 DEF IFrames, OneWriting
    <3>2. q = Request(s, t) /\ r = s /\ q.thread = t
      BY <3>1, <1>6, <2>1 DEF Request, IFrames, FramesInJournals
    <3> QED
      BY <3>2, <1>3, <1>4
  <2> QED
    BY <2>3, <2>4
<1>8. Maps'
  BY <1>1, <1>2, CalmMaps DEF IAnswers
<1>9. Answers'
  BY <1>1 DEF IAnswers, Answers
<1>10. Told'
  BY <1>1, <1>2, ToldKept DEF IAnswers
<1> QED
  BY <1>7, <1>8, <1>9, <1>10 DEF IAnswers

LEMMA MapRequestAnswers ==
  ASSUME TypeOK, IFrames, IAnswers, NEW s \in Strategies, NEW t \in Threads, MapRequest(s, t)
  PROVE  IAnswers'
<1>1. TypeOK' /\ IFrames' /\ Grows /\ asked' = asked /\ td' = td /\ taken' = taken
  <2>1. StrategyStep(s)
    BY DEF StrategyStep
  <2> QED
    BY <2>1, StrategyTypes, StrategyFrames, StrategyGrows, StrategyLeaves
<1>2. frames' = frames /\ told' = told
  BY DEF MapRequest
<1>3. /\ threads[s][t].stage = "map"
      /\ OtherThreads(s, t)
      /\ strategy'[s].run = strategy[s].run /\ strategy'[s].state = strategy[s].state
      /\ strategy'[s].ids = [strategy[s].ids EXCEPT ![Id(Request(s, t))] = Request(s, t)]
      /\ Others(s)
  BY MapRequestDoes
<1> DEFINE new == Request(s, t)
<1>4. new \in Requests /\ Id(new) \in Ids /\ new.s = s /\ new.run = strategy[s].run /\ new.thread = t
      /\ new.nth = threads[s][t].nth
  BY RequestType, IdType DEF Request
<1>5. strategy[s].ids \in [Ids -> Requests \cup {None}]
  BY DEF TypeOK, StrategyType
<1>6. PICK w \in DOMAIN frames : frames[w].kind = "request" /\ frames[w].q = new
  BY <1>3 DEF IFrames, AtWork, WritesRequest, Stamped
<1> HIDE DEF new
<1>7. \A i \in Ids : strategy'[s].ids[i] = IF i = Id(new) THEN new ELSE strategy[s].ids[i]
  BY <1>3, <1>4, <1>5 DEF new
<1>8. strategy[s].state # "down"
  BY <1>3 DEF IFrames, AtWork, Rests
<1>9. DOMAIN frames = 1 .. Len(frames) /\ Len(frames) \in Nat
  BY FramesAre
\* the request that is entered is the last of its thread
<1>10. ASSUME NEW k \in DOMAIN frames, frames[k].kind = "request", frames[k].s = s,
              frames[k].run = strategy[s].run, frames[k].q.thread = t
       PROVE  k <= w
  <2>1. frames[k].q.nth <= new.nth /\ frames[k].q \in Requests
    BY <1>4, <1>8, <1>10 DEF IFrames, ThreadsAhead, FramesInJournals
  <2>2. frames[w].s = s /\ frames[w].run = strategy[s].run
    BY <1>4, <1>6 DEF IFrames, FramesInJournals
  <2>3. ~(w < k)
    <3> SUFFICES ASSUME w < k PROVE FALSE
      OBVIOUS
    <3>1. new.nth < frames[k].q.nth
      BY <2>2, <1>4, <1>6, <1>10 DEF IFrames, RequestsInOrder
    <3>2. new.nth \in Nat /\ frames[k].q.nth \in Nat
      BY <2>1, <1>4 DEF Requests
    <3> QED
      BY <2>1, <3>1, <3>2
  <2> QED
    BY <2>3, <1>9
<1>11. InMaps'
  <2> SUFFICES ASSUME NEW k \in DOMAIN frames, NEW r, r = frames[k].s, NEW q, q = frames[k].q,
                    frames[k].kind = "request", frames[k].visible,
                    frames[k].run = strategy'[r].run, strategy'[r].state # "down"
             PROVE  \/ \E m \in DOMAIN frames :
                         /\ frames[m].kind = "request" /\ frames[m].q = strategy'[r].ids[Id(q)]
                         /\ q.thread = strategy'[r].ids[Id(q)].thread => k <= m
                    \/ threads'[r][q.thread].stage = "map" /\ q = Request(r, q.thread)'
    BY <1>2 DEF InMaps, Mapped, Id
  <2>1. r \in Strategies /\ q \in Requests /\ q.s = r /\ q.run = frames[k].run
    BY FramesAre DEF FrameType, IFrames, FramesInJournals
  <2>2. q.thread \in Threads /\ Id(q) \in Ids
    BY <2>1, IdType DEF Requests
  <2>3. strategy[r].run = frames[k].run /\ strategy[r].state # "down" /\ strategy'[r].run = strategy[r].run
    BY <1>3, <2>1 DEF Others
  <2>4. \/ \E m \in DOMAIN frames :
               /\ frames[m].kind = "request" /\ frames[m].q = strategy[r].ids[Id(q)]
               /\ q.thread = strategy[r].ids[Id(q)].thread => k <= m
        \/ threads[r][q.thread].stage = "map" /\ q = Request(r, q.thread)
    BY <2>3 DEF IAnswers, InMaps, Mapped
  <2>5. CASE r = s /\ Id(q) = Id(new)
    <3>1. strategy'[r].ids[Id(q)] = new
      BY <2>2, <2>5, <1>7
    <3>2. q.thread = new.thread => k <= w
      BY <2>1, <2>3, <2>5, <1>4, <1>10
    <3> QED
      BY <3>1, <3>2, <1>6
  <2>6. CASE ~(r = s /\ Id(q) = Id(new))
    <3>1. strategy'[r].ids[Id(q)] = strategy[r].ids[Id(q)]
      BY <2>1, <2>2, <2>6, <1>3, <1>7 DEF Others
    <3>2. ASSUME q = Request(r, q.thread)
          PROVE  threads'[r][q.thread] = threads[r][q.thread]
      <4>1. r # s \/ q.thread # t
        BY <2>6, <3>2 DEF new
      <4> QED
        BY <4>1, <2>1, <2>2, <1>3 DEF OtherThreads
    <3> QED
      BY <2>3, <2>4, <3>1, <3>2 DEF Request
  <2> QED
    BY <2>5, <2>6
<1>12. Maps'
  <2> SUFFICES ASSUME NEW r \in Strategies, NEW i \in Ids, NEW is, is = strategy'[r].ids[i], is # None
             PROVE  /\ is.s = r /\ is.run = strategy'[r].run /\ Id(is) = i
                    /\ \E m \in DOMAIN frames : frames[m].kind = "request" /\ frames[m].q = is
    BY <1>2 DEF Maps, Id
  <2>1. strategy'[r].run = strategy[r].run
    BY <1>3 DEF Others
  <2>2. CASE r = s /\ i = Id(new)
    <3>1. is = new
      BY <2>2, <1>7
    <3> QED
      BY <2>1, <2>2, <3>1, <1>4, <1>6
  <2>3. CASE ~(r = s /\ i = Id(new))
    <3>1. is = strategy[r].ids[i]
      BY <2>3, <1>3, <1>7 DEF Others
    <3> QED
      BY <2>1, <3>1 DEF IAnswers, Maps
  <2> QED
    BY <2>2, <2>3
<1>13. Answers'
  BY <1>1 DEF IAnswers, Answers
<1>14. Told'
  BY <1>1, <1>2, ToldKept DEF IAnswers
<1> QED
  BY <1>11, <1>12, <1>13, <1>14 DEF IAnswers

-----------------------------------------------------------------------------
(* The answers, while the engine works. *)
LEMMA AnswersKept ==
  ASSUME IAnswers, TypeOK, EngineStep, DOMAIN taken \subseteq DOMAIN taken', Answers'
  PROVE  IAnswers'
<1>1. frames' = frames /\ strategy' = strategy /\ threads' = threads /\ told' = told
  BY EngineLeaves
<1>2. Grows
  BY <1>1, FramesAre DEF Grows
<1>3. InMaps' /\ Maps'
  BY <1>1 DEF IAnswers, InMaps, Maps, Mapped, Request
<1>4. Told'
  BY <1>1, <1>2, ToldKept DEF IAnswers
<1> QED
  BY <1>3, <1>4 DEF IAnswers

LEMMA EngineAnswers ==
  ASSUME TypeOK, IFrames, IEngine, IAnswers, EngineStep
  PROVE  IAnswers'
<1>0. Answers /\ OneWriting /\ FramesInJournals /\ Scans
  BY DEF IAnswers, IFrames, IEngine
<1>1. CASE ScanFirst \/ (\E s \in Strategies : ScanNext(s)) \/ ScanInVain \/ RemoveClient \/ EngineStarts
  <2>1. asked' = asked /\ td' = td /\ taken' = taken
    BY <1>1 DEF ScanFirst, ScanNext, ScanInVain, RemoveClient, EngineStarts
  <2> QED
    BY <1>0, <2>1, AnswersKept DEF Answers
<1>2. CASE EngineEnds
  <2>1. asked' = {} /\ td' = td /\ taken' = taken
    BY <1>2 DEF EngineEnds
  <2> QED
    BY <1>0, <2>1, AnswersKept DEF Answers
<1>3. CASE AddClient
  <2>1. asked' = asked /\ taken' = taken
    BY <1>3 DEF AddClient
  <2>2. td' = td \/ \E e \in TdType : td' = Append(td, e) /\ e.kind = "ack"
    BY <1>0, <1>3, AddClientDoes DEF AddsClient
  <2>3. ASSUME NEW e \in TdType, td' = Append(td, e), e.kind = "ack" PROVE Answers'
    <3>1. td \in Seq(TdType)
      BY DEF TypeOK
    <3>2. \A n \in DOMAIN td' : (n \in DOMAIN td /\ td'[n] = td[n]) \/ td'[n] = e
      BY <2>3, <3>1
    <3> QED
      BY <1>0, <2>1, <2>3, <3>2 DEF Answers
  <2>4. ASSUME td' = td PROVE Answers'
    BY <1>0, <2>1, <2>4 DEF Answers
  <2> QED
    BY <2>1, <2>2, <2>3, <2>4, AnswersKept
<1>4. CASE PassRequest
  <2>1. td' = td
    BY <1>4 DEF PassRequest
  <2>2. PassesRequest(Taken.s, scan.best, Taken.q)
    BY <1>0, <1>4, PassRequestDoes
  <2>3. DOMAIN taken \subseteq DOMAIN taken' /\ asked' \subseteq asked \cup (DOMAIN taken' \ DOMAIN taken) \cup DOMAIN taken'
    BY <2>2, <1>0 DEF PassesRequest, Answers
  <2>4. asked' \subseteq DOMAIN taken'
    BY <2>3, <1>0 DEF Answers
  <2> QED
    BY <1>0, <2>1, <2>3, <2>4, AnswersKept DEF Answers
<1>5. ASSUME NEW q \in asked, Answer(q) PROVE IAnswers'
  <2>1. taken' = taken
    BY <1>5 DEF Answer
  <2>2. /\ TypeOK' /\ asked' \subseteq asked
        /\ Len(td') >= Len(td)
        /\ \A n \in 1 .. Len(td) : td'[n] = td[n]
        /\ \A n \in 1 .. Len(td') : n > Len(td) =>
             td'[n].q = q /\ (td'[n].s = q.s => td'[n].id = Id(q))
    BY <1>5, AnswerDoes
  <2>3. DOMAIN td = 1 .. Len(td) /\ Len(td) \in Nat /\ DOMAIN td' = 1 .. Len(td') /\ Len(td') \in Nat
    BY <2>2 DEF TypeOK
  <2>4. ASSUME NEW n \in DOMAIN td', td'[n].kind = "answer"
        PROVE  td'[n].q \in DOMAIN taken /\ (td'[n].s = td'[n].q.s => td'[n].id = Id(td'[n].q))
    <3>1. CASE n \in 1 .. Len(td)
      BY <1>0, <2>2, <2>3, <2>4, <3>1 DEF Answers
    <3>2. CASE n \notin 1 .. Len(td)
      BY <1>0, <2>2, <2>3, <3>2 DEF Answers
    <3> QED
      BY <3>1, <3>2
  <2>5. Answers'
    BY <1>0, <2>1, <2>2, <2>4 DEF Answers, Id
  <2> QED
    BY <2>1, <2>5, AnswersKept
<1> QED
  BY <1>1, <1>2, <1>3, <1>4, <1>5 DEF EngineStep, Listening, Callbacks

-----------------------------------------------------------------------------
(* The engine at work. *)

(* The earlier runs of a strategy have ended. *)
LEMMA EndBefore ==
  ASSUME TypeOK, IFrames, NEW k \in 1 .. Len(frames), NEW s, s = frames[k].s, NEW r \in Nat, r > 0, r < frames[k].run
  PROVE  \E e \in 1 .. Len(frames) : e < k /\ Of(e, "end", s, r) /\ frames[e].visible /\ frames[e].journal = Sys
<1>1. /\ DOMAIN frames = 1 .. Len(frames) /\ Len(frames) \in Nat
      /\ s \in Strategies /\ frames[k].run \in Nat
  BY FramesAre DEF FrameType
<1>2. strategy[s].run \in Nat /\ frames[k].run \in 1 .. strategy[s].run
  BY <1>1 DEF TypeOK, StrategyType, IFrames, FramesInJournals
<1>3. r \in 1 .. strategy[s].run /\ r < strategy[s].run
  BY <1>1, <1>2
<1>4. PICK e \in DOMAIN frames : Of(e, "end", s, r)
  BY <1>1, <1>3 DEF IFrames, Lives, Ends
<1>5. frames[e].kind = "end" /\ frames[e].s = s /\ frames[e].run = r
  BY <1>4 DEF Of
<1>6. ~(k < e) /\ k # e
  BY <1>1, <1>5 DEF IFrames, RunsInOrder
<1>7. frames[e].visible
  BY <1>3, <1>5 DEF IFrames, InHand
<1>8. frames[e].journal = Sys
  BY <1>5 DEF IFrames, FramesInJournals
<1> QED
  BY <1>1, <1>4, <1>6, <1>7, <1>8

LEMMA EngineIs ==
  ASSUME TypeOK, Cursors
  PROVE  /\ DOMAIN frames = 1 .. Len(frames) /\ Len(frames) \in Nat
         /\ \A k \in 1 .. Len(frames) : /\ frames[k].s \in Strategies /\ frames[k].run \in Nat
                                        /\ frames[k].journal \in Journals
                                        /\ frames[k].kind \in {"login", "end", "request"}
         /\ te.start \in Nat /\ te.cursor[Sys] \in Nat /\ te.start <= te.cursor[Sys] /\ te.cursor[Sys] <= Len(frames)
         /\ \A j \in Journals : te.cursor[j] \in Int /\ te.cursor[j] <= Len(frames)
         /\ te.alive \subseteq Strategies /\ te.clients \subseteq Strategies
         /\ Sys \in Journals /\ Strategies \subseteq Journals /\ Sys \notin Strategies
<1>1. \A k \in 1 .. Len(frames) : /\ frames[k].s \in Strategies /\ frames[k].run \in Nat
                                  /\ frames[k].journal \in Journals
                                  /\ frames[k].kind \in {"login", "end", "request"}
  BY FramesAre DEF FrameType
<1>2. te \in EngineType
  BY DEF TypeOK
<1> QED
  BY <1>1, <1>2, FramesAre, NamesAssumption DEF EngineType, Cursors, Journals, Off

(* A frame of the system journal is taken. *)
LEMMA SysAdvances ==
  ASSUME TypeOK, IFrames, Cursors, NEW l \in 1 .. Len(frames), frames[l].journal = Sys, FirstSeen(l),
         te'.cursor[Sys] = l, te'.start = te.start, frames' = frames
  PROVE  /\ te.cursor[Sys] < l
         /\ \A i \in 1 .. l : frames[i].journal = Sys => i \in 1 .. te.cursor[Sys] \/ i = l
         /\ \A i \in 1 .. l : frames[i].journal = Sys => frames[i].visible
         /\ \A n \in Nat : Attached(frames[l].s, n) => n = frames[l].run
         /\ \A s \in Strategies, n \in Nat :
              s # frames[l].s \/ n # frames[l].run => (Attached(s, n)' <=> Attached(s, n))
<1>0. /\ DOMAIN frames = 1 .. Len(frames) /\ Len(frames) \in Nat /\ te.start \in Nat /\ te.cursor[Sys] \in Nat
      /\ frames[l].s \in Strategies /\ frames[l].run \in Nat /\ te.start <= te.cursor[Sys]
      /\ te.cursor[Sys] <= Len(frames)
  BY EngineIs
<1>1. te.cursor[Sys] < l
  BY DEF FirstSeen
<1>2. \A i \in 1 .. l : frames[i].journal = Sys => i \in 1 .. te.cursor[Sys] \/ i = l
  BY <1>0, <1>1 DEF FirstSeen
<1>3. \A i \in 1 .. l : frames[i].journal = Sys => frames[i].visible
  BY <1>0, <1>2 DEF FirstSeen, Cursors
<1>4. \A i \in DOMAIN frames, kind \in {"login", "end"} : \A s, n : Of(i, kind, s, n) => frames[i].journal = Sys
  BY DEF Of, IFrames, FramesInJournals
<1>5. ASSUME NEW n \in Nat, Attached(frames[l].s, n) PROVE n = frames[l].run
  <2>1. PICK p \in (te.start + 1) .. te.cursor[Sys] : Of(p, "login", frames[l].s, n)
    BY <1>5 DEF Attached
  <2>2. p \in 1 .. Len(frames) /\ p < l /\ frames[p].s = frames[l].s /\ frames[p].run = n
    BY <2>1, <1>0, <1>1 DEF Of
  <2>3. n <= frames[l].run /\ n > 0
    BY <2>2, <1>0 DEF IFrames, RunsInOrder, FramesInJournals
  <2>4. ASSUME n < frames[l].run PROVE FALSE
    <3>1. PICK e \in 1 .. Len(frames) :
             e < l /\ Of(e, "end", frames[l].s, n) /\ frames[e].visible /\ frames[e].journal = Sys
      BY <2>3, <2>4, EndBefore
    <3>2. e \in 1 .. te.cursor[Sys]
      BY <3>1, <1>0, <1>2
    <3> QED
      BY <3>1, <3>2, <1>5 DEF Attached
  <2> QED
    BY <2>3, <2>4, <1>0
<1>6. ASSUME NEW s \in Strategies, NEW n \in Nat, s # frames[l].s \/ n # frames[l].run
      PROVE  Attached(s, n)' <=> Attached(s, n)
  <2>1. \A i \in 1 .. l, kind \in {"login", "end"} : Of(i, kind, s, n) => i \in 1 .. te.cursor[Sys]
    BY <1>0, <1>2, <1>4, <1>6 DEF Of
  <2>2. \A i \in 1 .. Len(frames), kind \in {"login", "end"} : Of(i, kind, s, n)' <=> Of(i, kind, s, n)
    BY DEF Of
  <2>3. \A i \in 1 .. te.cursor[Sys] : i \in 1 .. l /\ i \in 1 .. Len(frames)
    BY <1>0, <1>1
  <2>4. \A i \in (te.start + 1) .. l : i \in 1 .. l /\ i \in 1 .. Len(frames)
    BY <1>0
  <2>5. \A i \in 1 .. l : i \in 1 .. Len(frames)
    BY <1>0
  <2>6. (\E i \in (te.start + 1) .. l : Of(i, "login", s, n)') <=> (\E i \in (te.start + 1) .. te.cursor[Sys] : Of(i, "login", s, n))
    BY <2>1, <2>2, <2>3, <2>4, <1>0, <1>1
  <2>7. (\A i \in 1 .. l : ~Of(i, "end", s, n)') <=> (\A i \in 1 .. te.cursor[Sys] : ~Of(i, "end", s, n))
    BY <2>1, <2>2, <2>3, <2>5
  <2> QED
    BY <2>6, <2>7 DEF Attached
<1> QED
  BY <1>1, <1>2, <1>3, <1>5, <1>6

(* The log-in of a run is its own, and so is its end. *)
LEMMA LoginOf ==
  ASSUME IFrames, DOMAIN frames = 1 .. Len(frames), Len(frames) \in Nat,
         NEW i \in DOMAIN frames, NEW j \in DOMAIN frames, NEW s, NEW r
  PROVE  /\ Of(i, "login", s, r) /\ Of(j, "login", s, r) => i = j
         /\ Of(i, "login", s, r) /\ Of(j, "end", s, r) => i < j
         /\ Of(i, "end", s, r) /\ Of(j, "end", s, r) => i = j
<1>1. Of(i, "login", s, r) /\ Of(j, "login", s, r) => i = j
  BY DEF Of, IFrames, Lives, OneLogin
<1>2. ASSUME Of(i, "login", s, r), Of(j, "end", s, r) PROVE i < j
  <2>1. PICK l \in 1 .. (j - 1) : Of(l, "login", s, r)
    BY <1>2 DEF Of, IFrames, Lives, LoginFirst
  <2>2. l \in DOMAIN frames
    BY <2>1
  <2> QED
    BY <1>2, <2>1, <2>2 DEF Of, IFrames, Lives, OneLogin
<1>3. ASSUME Of(i, "end", s, r), Of(j, "end", s, r) PROVE i = j
  <2>1. EndLast
    BY DEF IFrames, Lives
  <2>2. frames[i].kind = "end" /\ frames[i].s = s /\ frames[i].run = r
        /\ frames[j].kind = "end" /\ frames[j].s = s /\ frames[j].run = r
    BY <1>3 DEF Of
  <2>3. i <= j /\ j <= i
    BY <2>1, <2>2 DEF EndLast
  <2> QED
    BY <2>3
<1> QED
  BY <1>1, <1>2, <1>3

LEMMA AddClientEngine ==
  ASSUME TypeOK, TypeOK', IFrames, IEngine, ITaken, NEW s, NEW l, AddsClient(s, l),
         frames' = frames, strategy' = strategy, taken' = taken, dropped' = dropped, hasty' = hasty
  PROVE  IEngine' /\ ITaken'
<1>0. Cursors /\ Clients /\ AllPassed /\ PassedSeen /\ Scans /\ NothingLeftAtEnd
  BY DEF IEngine
<1>1. /\ DOMAIN frames = 1 .. Len(frames) /\ Len(frames) \in Nat
      /\ \A k \in 1 .. Len(frames) : /\ frames[k].s \in Strategies /\ frames[k].run \in Nat
                                     /\ frames[k].journal \in Journals
                                     /\ frames[k].kind \in {"login", "end", "request"}
      /\ te.start \in Nat /\ te.cursor[Sys] \in Nat /\ te.start <= te.cursor[Sys] /\ te.cursor[Sys] <= Len(frames)
      /\ \A j \in Journals : te.cursor[j] \in Int /\ te.cursor[j] <= Len(frames)
      /\ te.alive \subseteq Strategies /\ te.clients \subseteq Strategies
      /\ Sys \in Journals /\ Strategies \subseteq Journals /\ Sys \notin Strategies
  BY <1>0, EngineIs
<1>2. /\ l \in 1 .. Len(frames) /\ frames[l].kind = "login" /\ frames[l].s = s /\ frames[l].journal = Sys
      /\ s \in Strategies /\ scan' = NoScan
      /\ te'.cursor[Sys] = l /\ te'.start = te.start /\ te'.config = te.config
      /\ \A r \in Strategies \ {s} : te'.cursor[r] = te.cursor[r]
  BY DEF AddsClient, SameEngine
<1>3. FirstSeen(l)
  BY <1>0 DEF AddsClient, Scans
<1>4. /\ te.cursor[Sys] < l
      /\ \A i \in 1 .. l : frames[i].journal = Sys => i \in 1 .. te.cursor[Sys] \/ i = l
      /\ \A i \in 1 .. l : frames[i].journal = Sys => frames[i].visible
      /\ \A n \in Nat : Attached(frames[l].s, n) => n = frames[l].run
      /\ \A r \in Strategies, n \in Nat :
              r # frames[l].s \/ n # frames[l].run => (Attached(r, n)' <=> Attached(r, n))
  BY <1>0, <1>2, <1>3, SysAdvances
<1>r. PICK R : R = frames[l].run
  OBVIOUS
<1>5. R \in Nat /\ Of(l, "login", s, R)
  BY <1>1, <1>2, <1>r DEF Of
<1>6. \A n \in Nat : ~Attached(s, n)
  <2> SUFFICES ASSUME NEW n \in Nat, Attached(s, n) PROVE FALSE
    OBVIOUS
  <2>1. n = R
    BY <1>2, <1>4, <1>r
  <2>2. PICK p \in (te.start + 1) .. te.cursor[Sys] : Of(p, "login", s, R)
    BY <2>1 DEF Attached
  <2>3. p \in DOMAIN frames /\ p # l
    BY <2>2, <1>1, <1>4
  <2> QED
    BY <2>2, <2>3, <1>1, <1>2, <1>5, LoginOf
<1>7. s \notin te.alive /\ te.cursor[s] = Off
  BY <1>0, <1>2, <1>6 DEF Clients
<1>8. Attached(s, R)' /\ \A n \in Nat : Attached(s, n)' => n = R
  <2>1. l \in (te'.start + 1) .. te'.cursor[Sys]
    BY <1>1, <1>2, <1>4
  <2>2. Of(l, "login", s, R)'
    BY <1>5 DEF Of
  <2>3. ASSUME NEW e \in 1 .. l, Of(e, "end", s, R)' PROVE FALSE
    <3>1. e \in DOMAIN frames /\ Of(e, "end", s, R)
      BY <1>1, <1>2, <2>3 DEF Of
    <3>2. l < e
      BY <3>1, <1>1, <1>2, <1>5, LoginOf
    <3> QED
      BY <3>2, <1>1, <1>2
  <2>4. Attached(s, R)'
    BY <1>2, <2>1, <2>2, <2>3 DEF Attached
  <2>5. \A n \in Nat : n # R => ~Attached(s, n)'
    BY <1>2, <1>4, <1>6, <1>r
  <2> QED
    BY <2>4, <2>5
<1>9. \A r \in Strategies \ {s}, n \in Nat : Attached(r, n)' <=> Attached(r, n)
  BY <1>2, <1>4
<1>10. \/ /\ te'.cursor[s] = SeekTime(s, l)
          /\ te'.clients = te.clients \cup {s} /\ te'.alive = te.alive \cup {s}
       \/ /\ s \notin te.clients /\ ~te.config.default
          /\ te'.cursor[s] = Off
          /\ te'.clients = te.clients /\ te'.alive = te.alive
  BY <1>7 DEF AddsClient
<1>11. /\ SeekTime(s, l) \in 0 .. l
       /\ \A n \in 1 .. l : frames[n].journal = s /\ SeekTime(s, l) < n => ~frames[n].visible
  BY <1>1, <1>2, SeekTimeIs DEF IFrames
<1>12. \A i \in DOMAIN frames : frames[i].journal \in Strategies => frames[i].kind = "request" /\ frames[i].s = frames[i].journal
  BY <1>1 DEF IFrames, FramesInJournals
<1>13. \A i \in 1 .. Len(frames), kind \in {"login", "end"} : \A r, n : Of(i, kind, r, n)' <=> Of(i, kind, r, n)
  BY DEF Of
<1>14. Cursors'
  <2>1. \A j \in Journals : te'.cursor[j] <= Len(frames)
    <3> SUFFICES ASSUME NEW j \in Journals PROVE te'.cursor[j] <= Len(frames)
      OBVIOUS
    <3>1. CASE j = Sys
      BY <3>1, <1>2
    <3>2. CASE j = s
      BY <3>2, <1>1, <1>2, <1>10, <1>11 DEF Off
    <3>3. CASE j # Sys /\ j # s
      BY <3>3, <1>1, <1>2 DEF Journals
    <3> QED
      BY <3>1, <3>2, <3>3
  <2> QED
    BY <2>1, <1>1, <1>2, <1>4 DEF Cursors
<1>15. Clients'
  <2>1. \A r \in Strategies : te'.cursor[r] # Off <=> r \in te'.alive
    <3>1. SeekTime(s, l) # Off
      BY <1>11 DEF Off
    <3> QED
      BY <3>1, <1>0, <1>2, <1>7, <1>10 DEF Clients
  <2>2. te'.alive \subseteq te'.clients /\ te'.config.named \subseteq te'.clients
    BY <1>0, <1>2, <1>10 DEF Clients
  <2>3. \A r \in te'.alive : \E n \in Nat : Attached(r, n)'
    <3> SUFFICES ASSUME NEW r \in te'.alive PROVE \E n \in Nat : Attached(r, n)'
      OBVIOUS
    <3>1. CASE r = s
      BY <3>1, <1>5, <1>8
    <3>2. CASE r # s
      <4>1. r \in te.alive /\ r \in Strategies \ {s}
        BY <3>2, <1>1, <1>2, <1>10
      <4>2. PICK n \in Nat : Attached(r, n)
        BY <4>1, <1>0 DEF Clients
      <4> QED
        BY <4>1, <4>2, <1>9
    <3> QED
      BY <3>1, <3>2
  <2>4. \A r \in Strategies, n \in Nat : Attached(r, n)' /\ Served(r)' => r \in te'.alive
    <3>1. s \notin te'.alive => ~Served(s)'
      BY <1>0, <1>2, <1>10 DEF Served, Clients
    <3> QED
      BY <3>1, <1>0, <1>2, <1>9, <1>10 DEF Clients, Served
  <2> QED
    BY <2>1, <2>2, <2>3, <2>4 DEF Clients
<1>16. AllPassed'
  <2> SUFFICES ASSUME NEW r \in te'.alive, NEW n \in Nat, Attached(r, n)',
                      NEW i \in DOMAIN frames, frames[i].journal = r
               PROVE  /\ i > te'.cursor[r] => frames[i].run >= n
                      /\ /\ i <= te'.cursor[r]
                         /\ \E p \in (te.start + 1) .. i : Of(p, "login", r, n)
                         => frames[i].q \in DOMAIN taken \cup dropped
    BY <1>2 DEF AllPassed, Of
  <2>1. CASE r # s
    BY <2>1, <1>0, <1>1, <1>2, <1>9, <1>10 DEF AllPassed
  <2>2. CASE r = s
    <3>1. n = R /\ te'.cursor[s] = SeekTime(s, l)
      BY <2>2, <1>7, <1>8, <1>10
    <3>2. frames[i].s = s /\ i # l
      BY <2>2, <1>1, <1>2, <1>12
    <3>3. ASSUME i > te'.cursor[s] PROVE frames[i].run >= R
      <4>1. CASE i < l
        <5>1. ~frames[i].visible
          BY <4>1, <3>1, <3>3, <2>2, <1>1, <1>2, <1>11
        <5>2. frames[i].run = strategy[s].run
          BY <5>1, <3>2 DEF IFrames, InHand
        <5>3. R \in 1 .. strategy[s].run /\ strategy[s].run \in Nat
          <6>1. R \in 1 .. strategy[s].run
            BY <1>1, <1>2, <1>r DEF IFrames, FramesInJournals
          <6>2. strategy[s].run \in Nat
            BY <1>2 DEF TypeOK, StrategyType
          <6> QED
            BY <6>1, <6>2
        <5> QED
          BY <5>2, <5>3
      <4>2. CASE l < i
        <5>1. R <= frames[i].run
          BY <4>2, <3>2, <1>1, <1>2, <1>r DEF IFrames, RunsInOrder
        <5> QED
          BY <5>1, <1>1, <1>5
      <4> QED
        BY <4>1, <4>2, <3>2, <1>1, <1>2
    <3>4. ASSUME i <= te'.cursor[s], NEW p \in (te.start + 1) .. i, Of(p, "login", s, R) PROVE FALSE
      <4>1. p \in DOMAIN frames
        BY <1>1
      <4>2. p = l
        BY <4>1, <3>4, <1>1, <1>2, <1>5, LoginOf
      <4> QED
        BY <4>2, <3>1, <3>2, <3>4, <1>1, <1>11
    <3> QED
      BY <2>2, <3>1, <3>3, <3>4
  <2> QED
    BY <2>1, <2>2
<1>17. PassedSeen'
  BY <1>0 DEF PassedSeen
<1>18. Scans'
  BY <1>2 DEF Scans, NoScan, NoFrame
<1>19. NothingLeftAtEnd'
  <2>1. \A e \in 1 .. l : \A r, n : Of(e, "end", r, n) => e \in 1 .. te.cursor[Sys]
    <3> SUFFICES ASSUME NEW e \in 1 .. l, NEW r, NEW n, Of(e, "end", r, n) PROVE e \in 1 .. te.cursor[Sys]
      OBVIOUS
    <3>1. frames[e].kind = "end" /\ e \in DOMAIN frames
      BY <1>1, <1>2 DEF Of
    <3>2. frames[e].journal = Sys /\ e # l
      BY <3>1, <1>2 DEF IFrames, FramesInJournals
    <3> QED
      BY <3>2, <1>4
  <2> QED
    BY <2>1, <1>0, <1>2 DEF NothingLeftAtEnd, Served, Of
<1>20. ITaken'
  <2> SUFFICES ASSUME NEW k \in DOMAIN frames, frames[k].kind = "request", frames[k].q \in DOMAIN taken
               PROVE  CanTake(k)' => CanTake(k)
    <3>1. ~scan'.on
      BY <1>2 DEF NoScan
    <3> QED
      BY <3>1 DEF ITaken
  <2>1. ASSUME LoginAhead(k)' PROVE LoginAhead(k)
    BY <2>1, <1>1, <1>2, <1>4 DEF LoginAhead, Of
  <2>2. PICK r, n : r = frames[k].s /\ n = frames[k].run
    OBVIOUS
  <2>3. r \in Strategies /\ n \in Nat
    BY <2>2, <1>1
  <2>4. ASSUME Behind(k)', Attached(frames[k].s, frames[k].run)' PROVE CanTake(k)
    <3>1. Attached(r, n)' /\ te'.cursor[r] # Off /\ te'.cursor[r] < k
      BY <2>2, <2>4 DEF Behind, Attached, Of
    <3>2. CASE r # s
      BY <2>2, <2>3, <3>1, <3>2, <1>2, <1>9 DEF CanTake, Behind
    <3>3. CASE r = s
      <4>1. n = R /\ te'.cursor[s] = SeekTime(s, l)
        BY <3>1, <3>3, <2>3, <1>8, <1>10
      <4>2. frames[k].journal = s
        BY <2>2, <3>3 DEF IFrames, FramesInJournals
      <4>3. CASE l < k
        <5>1. l \in 1 .. (k - 1)
          BY <4>3, <1>1, <1>2
        <5>2. Of(l, "login", frames[k].s, frames[k].run)
          BY <2>2, <3>3, <4>1, <1>5
        <5> QED
          BY <5>1, <5>2, <1>4 DEF CanTake, LoginAhead
      <4>4. CASE k <= l
        <5>1. ~frames[k].visible
          BY <4>1, <4>2, <4>4, <3>1, <3>3, <1>1, <1>11
        <5>2. PICK m \in DOMAIN frames : frames[m].kind = "request" /\ frames[m].q = frames[k].q /\ frames[m].visible
          BY <1>0 DEF PassedSeen
        <5>3. m = k
          BY <5>2, <1>1, OneFrame
        <5> QED
          BY <5>1, <5>2, <5>3
      <4> QED
        BY <4>3, <4>4, <1>1, <1>2
    <3> QED
      BY <3>2, <3>3
  <2> QED
    BY <2>1, <2>4 DEF CanTake
<1> QED
  BY <1>14, <1>15, <1>16, <1>17, <1>18, <1>19, <1>20 DEF IEngine

LEMMA RemoveClientEngine ==
  ASSUME TypeOK, TypeOK', IFrames, IEngine, ITaken, NEW s, NEW l, RemovesClient(s, l),
         frames' = frames, strategy' = strategy, taken' = taken, dropped' = dropped, hasty' = hasty
  PROVE  IEngine' /\ ITaken'
<1>0. Cursors /\ Clients /\ AllPassed /\ PassedSeen /\ Scans /\ NothingLeftAtEnd
  BY DEF IEngine
<1>1. /\ DOMAIN frames = 1 .. Len(frames) /\ Len(frames) \in Nat
      /\ \A k \in 1 .. Len(frames) : /\ frames[k].s \in Strategies /\ frames[k].run \in Nat
                                     /\ frames[k].journal \in Journals
                                     /\ frames[k].kind \in {"login", "end", "request"}
      /\ te.start \in Nat /\ te.cursor[Sys] \in Nat /\ te.start <= te.cursor[Sys] /\ te.cursor[Sys] <= Len(frames)
      /\ \A j \in Journals : te.cursor[j] \in Int /\ te.cursor[j] <= Len(frames)
      /\ te.alive \subseteq Strategies /\ te.clients \subseteq Strategies
      /\ Sys \in Journals /\ Strategies \subseteq Journals /\ Sys \notin Strategies
  BY <1>0, EngineIs
<1>2. /\ l \in 1 .. Len(frames) /\ frames[l].kind = "end" /\ frames[l].s = s /\ frames[l].journal = Sys
      /\ s \in Strategies /\ scan' = NoScan
      /\ te'.cursor[Sys] = l /\ te'.start = te.start /\ te'.config = te.config /\ te'.clients = te.clients
      /\ \A r \in Strategies \ {s} : te'.cursor[r] = te.cursor[r]
      /\ scan.best = l /\ scan.best # NoFrame /\ scan.left = {}
  BY DEF RemovesClient, SameEngine
<1>3. FirstSeen(l)
  BY <1>0, <1>2 DEF Scans
<1>4. /\ te.cursor[Sys] < l
      /\ \A i \in 1 .. l : frames[i].journal = Sys => i \in 1 .. te.cursor[Sys] \/ i = l
      /\ \A i \in 1 .. l : frames[i].journal = Sys => frames[i].visible
      /\ \A n \in Nat : Attached(frames[l].s, n) => n = frames[l].run
      /\ \A r \in Strategies, n \in Nat :
              r # frames[l].s \/ n # frames[l].run => (Attached(r, n)' <=> Attached(r, n))
  BY <1>0, <1>2, <1>3, SysAdvances
<1>r. PICK R : R = frames[l].run
  OBVIOUS
<1>5. R \in Nat /\ Of(l, "end", s, R)
  BY <1>1, <1>2, <1>r DEF Of
<1>6. \A n \in Nat : ~Attached(s, n)'
  <2>1. ~Attached(s, R)'
    BY <1>1, <1>2, <1>5 DEF Attached, Of
  <2> QED
    BY <2>1, <1>2, <1>4, <1>r
<1>7. \A r \in Strategies \ {s}, n \in Nat : Attached(r, n)' <=> Attached(r, n)
  BY <1>2, <1>4
<1>8. te'.alive = te.alive \ {s} /\ te'.cursor[s] = Off
  BY <1>0, <1>2 DEF RemovesClient, Clients
<1>9. \A k \in DOMAIN frames : frames[k].kind = "request" => frames[k].journal = frames[k].s /\ frames[k].s # Sys
  BY <1>1 DEF IFrames, FramesInJournals
<1>14. Cursors'
  <2>1. \A j \in Journals : te'.cursor[j] <= Len(frames)
    <3> SUFFICES ASSUME NEW j \in Journals PROVE te'.cursor[j] <= Len(frames)
      OBVIOUS
    <3>1. CASE j = Sys
      BY <3>1, <1>2
    <3>2. CASE j = s
      BY <3>2, <1>1, <1>8 DEF Off
    <3>3. CASE j # Sys /\ j # s
      BY <3>3, <1>1, <1>2 DEF Journals
    <3> QED
      BY <3>1, <3>2, <3>3
  <2> QED
    BY <2>1, <1>1, <1>2, <1>4 DEF Cursors
<1>15. Clients'
  <2>1. \A r \in Strategies : te'.cursor[r] # Off <=> r \in te'.alive
    BY <1>0, <1>2, <1>8 DEF Clients
  <2>2. te'.alive \subseteq te'.clients /\ te'.config.named \subseteq te'.clients
    BY <1>0, <1>2, <1>8 DEF Clients
  <2>3. \A r \in te'.alive : \E n \in Nat : Attached(r, n)'
    <3> SUFFICES ASSUME NEW r \in te'.alive PROVE \E n \in Nat : Attached(r, n)'
      OBVIOUS
    <3>1. r \in te.alive /\ r \in Strategies \ {s}
      BY <1>1, <1>8
    <3>2. PICK n \in Nat : Attached(r, n)
      BY <3>1, <1>0 DEF Clients
    <3> QED
      BY <3>1, <3>2, <1>7
  <2>4. \A r \in Strategies, n \in Nat : Attached(r, n)' /\ Served(r)' => r \in te'.alive
    BY <1>0, <1>2, <1>6, <1>7, <1>8 DEF Clients, Served
  <2> QED
    BY <2>1, <2>2, <2>3, <2>4 DEF Clients
<1>16. AllPassed'
  <2> SUFFICES ASSUME NEW r \in te'.alive, NEW n \in Nat, Attached(r, n)',
                      NEW i \in DOMAIN frames, frames[i].journal = r
               PROVE  /\ i > te'.cursor[r] => frames[i].run >= n
                      /\ /\ i <= te'.cursor[r]
                         /\ \E p \in (te.start + 1) .. i : Of(p, "login", r, n)
                         => frames[i].q \in DOMAIN taken \cup dropped
    BY <1>2 DEF AllPassed, Of
  <2>1. r \in te.alive /\ r \in Strategies \ {s}
    BY <1>1, <1>8
  <2>2. Attached(r, n) /\ te'.cursor[r] = te.cursor[r]
    BY <2>1, <1>2, <1>7
  <2> QED
    BY <2>1, <2>2, <1>0 DEF AllPassed
<1>17. PassedSeen'
  BY <1>0 DEF PassedSeen
<1>18. Scans'
  BY <1>2 DEF Scans, NoScan, NoFrame
<1>19. NothingLeftAtEnd'
  <2> SUFFICES ASSUME NEW k \in DOMAIN frames, frames[k].kind = "request",
                      NEW r, r = frames[k].s, NEW n, n = frames[k].run,
                      Served(r),
                      NEW p \in (te.start + 1) .. k, Of(p, "login", r, n),
                      NEW e \in 1 .. l, Of(e, "end", r, n)
               PROVE  frames[k].q \in DOMAIN taken \cup dropped
    BY <1>2 DEF NothingLeftAtEnd, Served, Of
  <2>1. e \in DOMAIN frames /\ p \in DOMAIN frames /\ r \in Strategies /\ n \in Nat
    BY <1>1, <1>2
  <2>2. frames[e].journal = Sys /\ frames[p].journal = Sys
    BY <2>1 DEF Of, IFrames, FramesInJournals
  <2>3. CASE e # l
    <3>1. e \in 1 .. te.cursor[Sys]
      BY <2>2, <2>3, <1>4
    <3> QED
      BY <3>1, <1>0 DEF NothingLeftAtEnd, Served
  <2>4. CASE e = l
    <3>1. r = s /\ n = R
      BY <2>4, <1>5 DEF Of
    <3>2. k < l
      <4>1. EndLast
        BY DEF IFrames, Lives
      <4>2. frames[k].s = frames[l].s /\ frames[k].run = frames[l].run /\ frames[l].kind = "end" /\ l \in DOMAIN frames
        BY <3>1, <1>1, <1>2, <1>r
      <4>3. k <= l
        BY <4>1, <4>2 DEF EndLast
      <4> QED
        BY <4>3, <1>1, <1>2
    <3>3. p \in (te.start + 1) .. te.cursor[Sys]
      <4>1. p \in 1 .. l /\ p # l
        BY <3>2, <2>1, <1>1, <1>2
      <4> QED
        BY <4>1, <2>2, <1>1, <1>4
    <3>4. \A x \in 1 .. te.cursor[Sys] : ~Of(x, "end", s, R)
      <4> SUFFICES ASSUME NEW x \in 1 .. te.cursor[Sys], Of(x, "end", s, R) PROVE FALSE
        OBVIOUS
      <4>1. x \in DOMAIN frames /\ x # l
        BY <1>1, <1>2, <1>4
      <4> QED
        BY <4>1, <1>1, <1>2, <1>5, LoginOf
    <3>5. Attached(s, R)
      BY <2>4, <3>1, <3>3, <3>4 DEF Attached
    <3>6. s \in te.alive
      BY <3>1, <3>5, <1>0, <1>2, <1>5 DEF Clients
    <3>7. frames[k].journal = s
      BY <3>1, <1>9
    <3>8. ~(k > te.cursor[s])
      BY <3>2, <3>6, <3>7, <1>0, <1>1, <1>2 DEF Scans
    <3>9. k <= te.cursor[s]
      BY <3>8, <1>1, <1>2
    <3> QED
      BY <3>1, <3>5, <3>6, <3>7, <3>9, <1>0, <1>5 DEF AllPassed
  <2> QED
    BY <2>3, <2>4
<1>20. ITaken'
  <2> SUFFICES ASSUME NEW k \in DOMAIN frames, frames[k].kind = "request", frames[k].q \in DOMAIN taken
               PROVE  CanTake(k)' => CanTake(k)
    <3>1. ~scan'.on
      BY <1>2 DEF NoScan
    <3> QED
      BY <3>1 DEF ITaken
  <2>1. ASSUME LoginAhead(k)' PROVE LoginAhead(k)
    BY <2>1, <1>1, <1>2, <1>4 DEF LoginAhead, Of
  <2>2. PICK r, n : r = frames[k].s /\ n = frames[k].run
    OBVIOUS
  <2>3. r \in Strategies /\ n \in Nat
    BY <2>2, <1>1
  <2>4. ASSUME Behind(k)', Attached(frames[k].s, frames[k].run)' PROVE CanTake(k)
    <3>1. Attached(r, n)' /\ te'.cursor[r] # Off /\ te'.cursor[r] < k
      BY <2>2, <2>4 DEF Behind, Attached, Of
    <3>2. r # s
      BY <3>1, <1>8
    <3> QED
      BY <2>2, <2>3, <3>1, <3>2, <1>2, <1>7 DEF CanTake, Behind
  <2> QED
    BY <2>1, <2>4 DEF CanTake
<1> QED
  BY <1>14, <1>15, <1>16, <1>17, <1>18, <1>19, <1>20 DEF IEngine

LEMMA PassRequestEngine ==
  ASSUME TypeOK, TypeOK', IFrames, IEngine, ITaken, NEW s, NEW k, NEW q, PassesRequest(s, k, q),
         frames' = frames, strategy' = strategy
  PROVE  IEngine' /\ ITaken'
<1>0. Cursors /\ Clients /\ AllPassed /\ PassedSeen /\ Scans /\ NothingLeftAtEnd
  BY DEF IEngine
<1>1. /\ DOMAIN frames = 1 .. Len(frames) /\ Len(frames) \in Nat
      /\ \A i \in 1 .. Len(frames) : /\ frames[i].s \in Strategies /\ frames[i].run \in Nat
                                     /\ frames[i].journal \in Journals
                                     /\ frames[i].kind \in {"login", "end", "request"}
      /\ te.start \in Nat /\ te.cursor[Sys] \in Nat /\ te.start <= te.cursor[Sys] /\ te.cursor[Sys] <= Len(frames)
      /\ \A j \in Journals : te.cursor[j] \in Int /\ te.cursor[j] <= Len(frames)
      /\ te.alive \subseteq Strategies /\ te.clients \subseteq Strategies
      /\ Sys \in Journals /\ Strategies \subseteq Journals /\ Sys \notin Strategies
  BY <1>0, EngineIs
<1>2. /\ k \in 1 .. Len(frames) /\ frames[k].kind = "request" /\ frames[k].s = s /\ frames[k].journal = s
      /\ frames[k].q = q /\ q \in Requests /\ q.s = s /\ q.run = frames[k].run
      /\ s \in Strategies /\ scan' = NoScan /\ scan.on
      /\ te'.start = te.start /\ te'.config = te.config /\ te'.clients = te.clients /\ te'.alive = te.alive
      /\ te'.cursor[s] = k
      /\ \A j \in Journals \ {s} : te'.cursor[j] = te.cursor[j]
      /\ scan.best = k /\ scan.best # NoFrame
  BY DEF PassesRequest, SameEngine
<1>3. FirstSeen(k)
  BY <1>0, <1>2 DEF Scans
<1>4. /\ frames[k].visible /\ te.cursor[s] # Off /\ te.cursor[s] < k
      /\ \A i \in DOMAIN frames : frames[i].journal = s /\ i > te.cursor[s] => k <= i
      /\ te'.cursor[Sys] = te.cursor[Sys]
  BY <1>1, <1>2, <1>3 DEF FirstSeen
<1>5. \A r, n : Attached(r, n)' <=> Attached(r, n)
  BY <1>2, <1>4 DEF Attached, Of
<1>6. /\ DOMAIN taken \subseteq DOMAIN taken' /\ dropped \subseteq dropped'
      /\ q \in DOMAIN taken' \cup dropped'
      /\ DOMAIN taken' \cup dropped' \subseteq DOMAIN taken \cup dropped \cup {q}
      /\ hasty \subseteq hasty'
      /\ LoginUnread(q) => q \in hasty'
      /\ \A p \in DOMAIN taken : p # q => taken'[p] = taken[p]
      /\ DOMAIN taken' \subseteq DOMAIN taken \cup {q}
      /\ \/ taken'[q] = Count(q) + 1
         \/ taken' = taken
  BY DEF PassesRequest
<1>14. Cursors'
  <2>1. \A j \in Journals : te'.cursor[j] <= Len(frames)
    BY <1>1, <1>2
  <2> QED
    BY <2>1, <1>0, <1>2, <1>4 DEF Cursors
<1>15. Clients'
  <2>1. \A r \in Strategies : te'.cursor[r] # Off <=> r \in te'.alive
    <3>1. k # Off
      BY <1>1, <1>2 DEF Off
    <3>2. s \in te.alive
      BY <1>0, <1>2, <1>4 DEF Clients
    <3> QED
      BY <3>1, <3>2, <1>0, <1>1, <1>2 DEF Clients
  <2> QED
    BY <2>1, <1>0, <1>2, <1>5 DEF Clients, Served
<1>16. AllPassed'
  <2> SUFFICES ASSUME NEW r \in te.alive, NEW n \in Nat, Attached(r, n),
                      NEW i \in DOMAIN frames, frames[i].journal = r
               PROVE  /\ i > te'.cursor[r] => frames[i].run >= n
                      /\ /\ i <= te'.cursor[r]
                         /\ \E p \in (te.start + 1) .. i : Of(p, "login", r, n)
                         => frames[i].q \in DOMAIN taken' \cup dropped'
    BY <1>2, <1>5 DEF AllPassed, Of
  <2>1. /\ i > te.cursor[r] => frames[i].run >= n
        /\ /\ i <= te.cursor[r]
           /\ \E p \in (te.start + 1) .. i : Of(p, "login", r, n)
           => frames[i].q \in DOMAIN taken \cup dropped
    BY <1>0 DEF AllPassed
  <2>2. CASE r # s
    BY <2>1, <2>2, <1>1, <1>2, <1>6
  <2>3. CASE r = s
    <3>1. i > te'.cursor[r] => i > te.cursor[r]
      BY <2>3, <1>1, <1>2, <1>4
    <3>2. i <= te'.cursor[r] => i <= te.cursor[r] \/ i = k
      BY <2>3, <1>1, <1>2, <1>4
    <3> QED
      BY <2>1, <3>1, <3>2, <1>2, <1>6
  <2> QED
    BY <2>2, <2>3
<1>17. PassedSeen'
  BY <1>0, <1>1, <1>2, <1>4, <1>6 DEF PassedSeen
<1>18. Scans'
  BY <1>2 DEF Scans, NoScan, NoFrame
<1>19. NothingLeftAtEnd'
  <2> SUFFICES ASSUME NEW i \in DOMAIN frames, frames[i].kind = "request",
                      Served(frames[i].s),
                      \E p \in (te.start + 1) .. i : Of(p, "login", frames[i].s, frames[i].run),
                      \E e \in 1 .. te.cursor[Sys] : Of(e, "end", frames[i].s, frames[i].run)
               PROVE  frames[i].q \in DOMAIN taken' \cup dropped'
    BY <1>2, <1>4 DEF NothingLeftAtEnd, Served, Of
  <2>1. frames[i].q \in DOMAIN taken \cup dropped
    BY <1>0 DEF NothingLeftAtEnd
  <2> QED
    BY <2>1, <1>6
<1>20. ITaken'
  <2> SUFFICES ASSUME NEW i \in DOMAIN frames, frames[i].kind = "request", NEW p, p = frames[i].q, p \in DOMAIN taken'
               PROVE  /\ taken'[p] \in {1, 2}
                      /\ CanTake(i)' => p \in hasty' /\ taken'[p] = 1
                      /\ taken'[p] = 2 => p \in hasty'
    <3>1. ~scan'.on
      BY <1>2 DEF NoScan
    <3> QED
      BY <3>1 DEF ITaken
  <2>1. LoginAhead(i)' => LoginAhead(i)
    BY <1>4 DEF LoginAhead, Of
  <2>2. Behind(i)' => Behind(i)
    <3>1. CASE frames[i].s = s
      BY <3>1, <1>1, <1>2, <1>4 DEF Behind
    <3>2. CASE frames[i].s # s
      BY <3>2, <1>1, <1>2 DEF Behind
    <3> QED
      BY <3>1, <3>2
  <2>3. Attached(frames[i].s, frames[i].run)' <=> Attached(frames[i].s, frames[i].run)
    BY <1>2, <1>4 DEF Attached, Of
  <2>4. CanTake(i)' => CanTake(i)
    BY <2>1, <2>2, <2>3 DEF CanTake
  <2>5. CASE p # q
    <3>1. p \in DOMAIN taken /\ taken'[p] = taken[p]
      BY <2>5, <1>6
    <3> QED
      BY <3>1, <2>4, <1>6 DEF ITaken
  <2>6. CASE p = q
    <3>1. i = k
      BY <2>6, <1>1, <1>2, OneFrame
    <3>2. LoginAhead(k) => q \in hasty'
      <4>1. LoginAhead(k) => LoginUnread(q)
        <5> SUFFICES ASSUME LoginAhead(k) PROVE LoginUnread(q)
          OBVIOUS
        <5>1. PICK x \in 1 .. (k - 1) : te.cursor[Sys] < x /\ Of(x, "login", frames[k].s, frames[k].run)
          BY DEF LoginAhead
        <5>2. x \in DOMAIN frames /\ x > te.cursor[Sys] /\ Of(x, "login", q.s, q.run)
          BY <5>1, <1>1, <1>2
        <5> QED
          BY <5>2 DEF LoginUnread
      <4> QED
        BY <4>1, <1>6
    <3>3. CanTake(k)' => LoginAhead(k)
      <4>1. ~Behind(k)'
        BY <1>1, <1>2 DEF Behind
      <4> QED
        BY <4>1, <2>1, <3>1 DEF CanTake
    <3>4. CASE q \in DOMAIN taken
      <4>1. Behind(k)
        BY <1>2, <1>4 DEF Behind
      <4>2. Attached(s, frames[k].run)
        BY <3>4, <4>1, <1>1, <1>2 DEF ITaken
      <4>3. q \in hasty /\ taken[q] = 1
        BY <3>4, <4>1, <4>2, <1>1, <1>2 DEF ITaken, CanTake
      <4>4. ~LoginAhead(k)
        <5> SUFFICES ASSUME NEW x \in 1 .. (k - 1), te.cursor[Sys] < x, Of(x, "login", s, frames[k].run) PROVE FALSE
          BY <1>2 DEF LoginAhead
        <5>1. PICK y \in (te.start + 1) .. te.cursor[Sys] : Of(y, "login", s, frames[k].run)
          BY <4>2 DEF Attached
        <5>2. x \in DOMAIN frames /\ y \in DOMAIN frames /\ x # y
          BY <5>1, <1>1, <1>2
        <5> QED
          BY <5>1, <5>2, <1>1, LoginOf
      <4>5. taken'[q] \in {1, 2}
        BY <4>3, <3>4, <1>6 DEF Count
      <4> QED
        BY <2>6, <3>1, <3>3, <4>3, <4>4, <4>5, <1>6
    <3>5. CASE q \notin DOMAIN taken
      <4>1. taken'[q] = 1
        BY <2>6, <3>5, <1>6 DEF Count
      <4> QED
        BY <2>6, <3>1, <3>2, <3>3, <4>1
    <3> QED
      BY <3>4, <3>5
  <2> QED
    BY <2>5, <2>6
<1> QED
  BY <1>14, <1>15, <1>16, <1>17, <1>18, <1>19, <1>20 DEF IEngine

LEMMA EngineStartsEngine ==
  ASSUME TypeOK, IFrames, IEngine, ITaken, EngineStarts
  PROVE  IEngine' /\ ITaken'
<1>0. Cursors /\ Clients /\ AllPassed /\ PassedSeen /\ Scans /\ NothingLeftAtEnd
  BY DEF IEngine
<1>1. /\ DOMAIN frames = 1 .. Len(frames) /\ Len(frames) \in Nat
      /\ Sys \in Journals /\ Strategies \subseteq Journals /\ te.cursor[Sys] \in Nat
  BY <1>0, EngineIs
<1>2. /\ TypeOK' /\ te'.start = SeekTime(Sys, Len(frames)) /\ te'.cursor[Sys] = te'.start
      /\ \A s \in Strategies : te'.cursor[s] = Off
      /\ te'.alive = {} /\ te'.clients = te'.config.named
  BY EngineStartsDoes DEF IFrames
<1>3. frames' = frames /\ scan' = scan /\ taken' = taken /\ dropped' = dropped /\ hasty' = hasty /\ ~te.up
  BY DEF EngineStarts
<1>4. /\ te'.start \in 0 .. Len(frames)
      /\ \A n \in 1 .. Len(frames) : frames[n].journal = Sys /\ te'.start < n => ~frames[n].visible
      /\ \A n \in 1 .. te'.start : frames[n].journal = Sys => frames[n].visible
  BY <1>1, <1>2, SeekTimeIs DEF IFrames
<1>5. \A s, r : ~Attached(s, r)'
  <2>1. (te'.start + 1) .. te'.cursor[Sys] = {}
    BY <1>2, <1>4
  <2> QED
    BY <2>1 DEF Attached
<1>6. ~scan.on /\ scan = NoScan
  BY <1>0, <1>3 DEF Scans
<1>14. Cursors'
  <2>1. \A j \in Journals : te'.cursor[j] <= Len(frames)
    BY <1>1, <1>2, <1>4 DEF Off, Journals
  <2>2. te'.start <= te'.cursor[Sys] /\ te'.cursor[Sys] \in Nat
    BY <1>2, <1>4
  <2> QED
    BY <2>1, <2>2, <1>2, <1>3, <1>4 DEF Cursors
<1>15. Clients'
  BY <1>2, <1>5 DEF Clients
<1>16. AllPassed'
  BY <1>2 DEF AllPassed
<1>17. PassedSeen'
  BY <1>0, <1>3 DEF PassedSeen
<1>18. Scans'
  BY <1>3, <1>6 DEF Scans, NoScan, NoFrame
<1>19. NothingLeftAtEnd'
  <2> SUFFICES ASSUME NEW k \in DOMAIN frames, NEW s, NEW r,
                      NEW p \in (te'.start + 1) .. k, Of(p, "login", s, r),
                      NEW e \in 1 .. te'.cursor[Sys], Of(e, "end", s, r)
               PROVE  FALSE
    BY <1>3 DEF NothingLeftAtEnd, Of
  <2>1. e \in DOMAIN frames /\ p \in DOMAIN frames /\ e < p
    BY <1>1, <1>2, <1>4
  <2>2. p < e
    BY <2>1, <1>1, LoginOf
  <2> QED
    BY <2>1, <2>2, <1>1
<1>20. ITaken'
  <2> SUFFICES ASSUME NEW k \in DOMAIN frames, frames[k].kind = "request", frames[k].q \in DOMAIN taken
               PROVE  CanTake(k)' => CanTake(k)
    BY <1>3, <1>6 DEF ITaken, NoScan
  <2>1. LoginAhead(k)' => LoginAhead(k)
    <3> SUFFICES ASSUME NEW p \in 1 .. (k - 1), te'.cursor[Sys] < p, Of(p, "login", frames[k].s, frames[k].run)
                 PROVE  te.cursor[Sys] < p
      BY <1>3 DEF LoginAhead, Of
    <3>1. p \in 1 .. Len(frames)
      BY <1>1
    <3>2. frames[p].journal = Sys
      BY <3>1, <1>1 DEF Of, IFrames, FramesInJournals
    <3>3. ~frames[p].visible
      BY <3>1, <3>2, <1>2, <1>4
    <3>4. ~(p \in 1 .. te.cursor[Sys])
      BY <3>2, <3>3, <1>0 DEF Cursors
    <3> QED
      BY <3>1, <3>4, <1>1
  <2>2. ~Attached(frames[k].s, frames[k].run)'
    BY <1>5, <1>3 DEF Attached, Of
  <2> QED
    BY <2>1, <2>2 DEF CanTake
<1> QED
  BY <1>14, <1>15, <1>16, <1>17, <1>18, <1>19, <1>20 DEF IEngine

(* Nothing but the scan, the requests at the exchange and the engine's end changes. *)
LEMMA StillEngine ==
  ASSUME Cursors, Clients, AllPassed, PassedSeen, NothingLeftAtEnd, Scans',
         frames' = frames, taken' = taken, dropped' = dropped,
         te'.cursor = te.cursor, te'.clients = te.clients, te'.alive = te.alive,
         te'.config = te.config, te'.start = te.start
  PROVE  IEngine'
<1>1. \A s, r : Attached(s, r)' <=> Attached(s, r)
  BY DEF Attached, Of
<1>2. Cursors'
  BY DEF Cursors
<1>3. Clients'
  BY <1>1 DEF Clients, Served
<1>4. AllPassed'
  BY <1>1 DEF AllPassed, Of
<1>5. PassedSeen'
  BY DEF PassedSeen
<1>6. NothingLeftAtEnd'
  BY DEF NothingLeftAtEnd, Served, Of
<1> QED
  BY <1>2, <1>3, <1>4, <1>5, <1>6 DEF IEngine

LEMMA StillTaken ==
  ASSUME ITaken, frames' = frames, taken' = taken, hasty' = hasty,
         te'.cursor = te.cursor, te'.start = te.start,
         \/ ~scan'.on
         \/ scan' = scan
         \/ /\ scan.on
            /\ scan.best # NoFrame => scan'.best # NoFrame /\ scan'.best <= scan.best
            /\ scan.best \in Nat /\ scan'.best \in Nat /\ DOMAIN frames \subseteq Nat
  PROVE  ITaken'
<1> SUFFICES ASSUME NEW k \in DOMAIN frames, frames[k].kind = "request", frames[k].q \in DOMAIN taken
             PROVE  /\ Behind(k)' => Behind(k)
                    /\ CanTake(k)' => CanTake(k)
                    /\ Attached(frames[k].s, frames[k].run)' <=> Attached(frames[k].s, frames[k].run)
  <2>1. ASSUME NEW k \in DOMAIN frames, ~scan.on \/ (scan.best # NoFrame /\ scan.best < k)
        PROVE  ~scan'.on \/ (scan'.best # NoFrame /\ scan'.best < k)
    BY <2>1
  <2> QED
    BY <2>1 DEF ITaken
<1>1. Attached(frames[k].s, frames[k].run)' <=> Attached(frames[k].s, frames[k].run)
  BY DEF Attached, Of
<1>2. Behind(k)' => Behind(k)
  BY DEF Behind
<1>3. LoginAhead(k)' => LoginAhead(k)
  BY DEF LoginAhead, Of
<1> QED
  BY <1>1, <1>2, <1>3 DEF CanTake

LEMMA ScanFirstEngine ==
  ASSUME TypeOK, IFrames, IEngine, ITaken, ScanFirst
  PROVE  IEngine' /\ ITaken'
<1>0. Cursors /\ Clients /\ AllPassed /\ PassedSeen /\ Scans /\ NothingLeftAtEnd
  BY DEF IEngine
<1>1. /\ DOMAIN frames = 1 .. Len(frames) /\ Len(frames) \in Nat
      /\ \A i \in 1 .. Len(frames) : frames[i].s \in Strategies /\ frames[i].run \in Nat
      /\ te.cursor[Sys] \in Nat /\ te.start \in Nat
      /\ Sys \in Journals /\ Strategies \subseteq Journals
      /\ \A j \in Journals : te.cursor[j] \in Int
  BY <1>0, EngineIs
<1>2. /\ te.up /\ frames' = frames /\ te' = te /\ taken' = taken /\ dropped' = dropped /\ hasty' = hasty
      /\ scan' = [on |-> TRUE, left |-> {s \in Strategies : te.cursor[s] # Off}, best |-> NextVisible(Sys)]
  BY DEF ScanFirst
<1>3. scan'.on /\ scan'.left = {s \in Strategies : te.cursor[s] # Off} /\ scan'.best = NextVisible(Sys)
  BY <1>2
<1>4. /\ NextVisible(Sys) # NoFrame =>
           NextVisible(Sys) \in 1 .. Len(frames) /\ FirstSeen(NextVisible(Sys))
      /\ \A i \in 1 .. Len(frames) :
              /\ te.cursor[Sys] # Off /\ frames[i].journal = Sys /\ te.cursor[Sys] < i
              /\ \A n \in 1 .. i : frames[n].journal = Sys => frames[n].visible
              => NextVisible(Sys) \in 1 .. i
  BY <1>1, NextVisibleIs
<1>5. Scans'
  <2>1. te.alive \subseteq scan'.left
    BY <1>0, <1>1, <1>3, EngineIs DEF Clients
  <2>2. scan'.best # NoFrame => scan'.best \in DOMAIN frames /\ FirstSeen(scan'.best)
    BY <1>1, <1>3, <1>4
  <2>3. scan'.best # NoFrame => FirstSeen(scan.best)'
    BY <2>2, <1>2 DEF FirstSeen
  <2> QED
    BY <2>1, <2>2, <2>3, <1>2, <1>3 DEF Scans
<1>6. IEngine'
  BY <1>0, <1>2, <1>5, StillEngine
<1>7. ITaken'
  <2> SUFFICES ASSUME NEW k \in DOMAIN frames, frames[k].kind = "request", frames[k].q \in DOMAIN taken
               PROVE  /\ Behind(k) =>
                           \/ Attached(frames[k].s, frames[k].run)
                           \/ NextVisible(Sys) # NoFrame /\ NextVisible(Sys) < k
                      /\ CanTake(k)' => CanTake(k)
    <3>1. \A k \in DOMAIN frames : Behind(k)' => Behind(k)
      BY <1>2 DEF Behind
    <3>2. \A k \in DOMAIN frames : Attached(frames[k].s, frames[k].run)' <=> Attached(frames[k].s, frames[k].run)
      BY <1>2 DEF Attached, Of
    <3> QED
      BY <3>1, <3>2, <1>2, <1>3 DEF ITaken
  <2>1. CanTake(k)' => CanTake(k)
    BY <1>2 DEF CanTake, LoginAhead, Behind, Attached, Of
  <2>2. ASSUME Behind(k), ~Attached(frames[k].s, frames[k].run)
        PROVE  NextVisible(Sys) # NoFrame /\ NextVisible(Sys) < k
    <3>1. PICK s : s = frames[k].s
      OBVIOUS
    <3>2. s \in Strategies /\ te.cursor[s] # Off /\ te.cursor[s] < k /\ frames[k].journal = s
      BY <2>2, <3>1, <1>1 DEF Behind, IFrames, FramesInJournals
    <3>3. s \in te.alive
      BY <3>2, <1>0 DEF Clients
    <3>4. PICK r \in Nat : Attached(s, r)
      BY <3>3, <1>0 DEF Clients
    <3>5. r <= frames[k].run /\ r # frames[k].run
      BY <2>2, <3>1, <3>2, <3>3, <3>4, <1>0, <1>1 DEF AllPassed
    <3>6. r > 0
      <4>1. PICK p \in (te.start + 1) .. te.cursor[Sys] : Of(p, "login", s, r)
        BY <3>4 DEF Attached
      <4>2. p \in DOMAIN frames
        BY <4>1, <1>0, <1>1 DEF Cursors
      <4> QED
        BY <4>1, <4>2, <3>4 DEF Of, IFrames, FramesInJournals
    <3>7. PICK e \in 1 .. Len(frames) :
             e < k /\ Of(e, "end", s, r) /\ frames[e].visible /\ frames[e].journal = Sys
      BY <3>1, <3>4, <3>5, <3>6, <1>1, EndBefore
    <3>8. te.cursor[Sys] < e
      BY <3>4, <3>7, <1>1 DEF Attached
    <3>9. \A n \in 1 .. e : frames[n].journal = Sys => frames[n].visible
      BY <3>7, <1>1 DEF IFrames, OneWriting
    <3>10. te.cursor[Sys] # Off
      BY <1>1 DEF Off
    <3>11. NextVisible(Sys) \in 1 .. e
      BY <3>7, <3>8, <3>9, <3>10, <1>4
    <3> QED
      BY <3>7, <3>11, <1>1 DEF NoFrame
  <2> QED
    BY <2>1, <2>2
<1> QED
  BY <1>6, <1>7

(* Before a strategy's end all of its requests can be seen. *)
LEMMA SeenBeforeEnd ==
  ASSUME TypeOK, IFrames, NEW e \in DOMAIN frames, NEW n \in DOMAIN frames, n < e, frames[e].kind = "end",
         frames[n].journal = frames[e].s
  PROVE  frames[n].visible
<1>1. /\ DOMAIN frames = 1 .. Len(frames) /\ frames[e].s \in Strategies /\ frames[e].s # Sys
      /\ frames[n].run \in Nat /\ frames[e].run \in Nat /\ frames[n].s \in Strategies
  BY FramesAre, NamesAssumption DEF FrameType
<1>2. frames[n].kind = "request" /\ frames[n].s = frames[e].s /\ frames[n].q.thread \in Threads
  BY <1>1 DEF IFrames, FramesInJournals, Requests
<1>3. frames[n].run <= frames[e].run
  BY <1>2 DEF IFrames, RunsInOrder
<1>4. PICK s \in Strategies : s = frames[e].s
  BY <1>1
<1>5. strategy[s].run \in Nat /\ frames[e].run \in 1 .. strategy[s].run
  BY <1>4 DEF TypeOK, StrategyType, IFrames, FramesInJournals
<1> SUFFICES ASSUME ~frames[n].visible PROVE FALSE
  OBVIOUS
<1>6. frames[n].run = strategy[s].run /\ threads[s][frames[n].q.thread].stage = "frame"
  BY <1>2, <1>4 DEF IFrames, InHand
<1>7. frames[e].run = strategy[s].run
  BY <1>3, <1>5, <1>6
<1>8. strategy[s].state \notin {"ending", "down"}
  BY <1>2, <1>6 DEF IFrames, AtWork, Rests
<1>9. ~Of(e, "end", s, strategy[s].run)
  BY <1>8 DEF IFrames, Lives, Ends
<1> QED
  BY <1>4, <1>7, <1>9 DEF Of

LEMMA ScanNextEngine ==
  ASSUME TypeOK, IFrames, IEngine, ITaken, NEW s \in Strategies, ScanNext(s)
  PROVE  IEngine' /\ ITaken'
<1>0. Cursors /\ Clients /\ AllPassed /\ PassedSeen /\ Scans /\ NothingLeftAtEnd
  BY DEF IEngine
<1>1. /\ DOMAIN frames = 1 .. Len(frames) /\ Len(frames) \in Nat
      /\ s \in Journals /\ s # Sys /\ te.cursor[s] \in Int
  BY <1>0, EngineIs
<1> DEFINE k == NextVisible(s)
<1>2. /\ k # NoFrame => k \in 1 .. Len(frames) /\ frames[k].journal = s /\ FirstSeen(k)
      /\ \A i \in 1 .. Len(frames) :
              /\ te.cursor[s] # Off /\ frames[i].journal = s /\ te.cursor[s] < i
              /\ \A n \in 1 .. i : frames[n].journal = s => frames[n].visible
              => k \in 1 .. i
  BY <1>1, NextVisibleIs
<1>3. /\ scan.on /\ scan' = [scan EXCEPT !.left = @ \ {s},
                                        !.best = IF k # NoFrame /\ (@ = NoFrame \/ k < @) THEN k ELSE @]
      /\ frames' = frames /\ te' = te /\ taken' = taken /\ dropped' = dropped /\ hasty' = hasty
  BY DEF ScanNext
<1> HIDE DEF k
<1>4. scan \in [on: BOOLEAN, left: SUBSET Strategies, best: Nat]
  BY DEF TypeOK
<1>5. /\ scan'.on /\ scan'.left = scan.left \ {s}
      /\ scan'.best = IF k # NoFrame /\ (scan.best = NoFrame \/ k < scan.best) THEN k ELSE scan.best
  BY <1>3, <1>4
<1>6. scan.best \in Nat /\ (k # NoFrame => k \in Nat)
  BY <1>1, <1>2, <1>4
<1>7. /\ te.up
      /\ scan.best # NoFrame => scan.best \in DOMAIN frames /\ FirstSeen(scan.best)
      /\ scan.best # NoFrame /\ frames[scan.best].kind = "end" /\ frames[scan.best].s \in te.alive \ scan.left =>
           \A i \in DOMAIN frames :
             frames[i].journal = frames[scan.best].s /\ i > te.cursor[frames[scan.best].s] => i > scan.best
  BY <1>0, <1>3 DEF Scans
<1>8. PICK b : b = scan'.best
  OBVIOUS
<1>9. b # NoFrame => b \in DOMAIN frames /\ FirstSeen(b)
  BY <1>1, <1>2, <1>5, <1>7, <1>8
<1>10. ASSUME b # NoFrame, frames[b].kind = "end", frames[b].s \in te.alive \ scan'.left,
              NEW i \in DOMAIN frames, frames[i].journal = frames[b].s, i > te.cursor[frames[b].s]
       PROVE  i > b
  <2>1. b = scan.best /\ b \in DOMAIN frames /\ frames[b].journal = Sys
    <3>1. frames[b].journal = Sys
      BY <1>9, <1>10 DEF IFrames, FramesInJournals
    <3> QED
      BY <3>1, <1>1, <1>2, <1>5, <1>8, <1>9, <1>10
  <2>2. CASE frames[b].s # s
    BY <2>1, <2>2, <1>5, <1>7, <1>10
  <2>3. CASE frames[b].s = s
    <3> SUFFICES ASSUME ~(i > b) PROVE FALSE
      OBVIOUS
    <3>1. i < b
      BY <2>1, <2>3, <1>1, <1>10
    <3>2. \A n \in 1 .. i : frames[n].journal = s => frames[n].visible
      <4> SUFFICES ASSUME NEW n \in 1 .. i, frames[n].journal = s PROVE frames[n].visible
        OBVIOUS
      <4>1. n \in DOMAIN frames /\ n < b
        BY <3>1, <2>1, <1>1
      <4> QED
        BY <4>1, <2>1, <2>3, <1>10, SeenBeforeEnd
    <3>3. te.cursor[s] # Off
      BY <2>3, <1>0, <1>10 DEF Clients
    <3>4. k \in 1 .. i
      BY <3>2, <3>3, <2>3, <1>1, <1>2, <1>10
    <3>5. k # NoFrame /\ k < b
      BY <3>1, <3>4, <2>1, <1>1 DEF NoFrame
    <3> QED
      BY <3>5, <2>1, <1>2, <1>5, <1>6, <1>8
  <2> QED
    BY <2>2, <2>3
<1>11. Scans'
  <2>1. b # NoFrame => FirstSeen(b)'
    BY <1>3, <1>9 DEF FirstSeen
  <2>2. b # NoFrame => FirstSeen(scan.best)'
    BY <2>1, <1>8 DEF FirstSeen
  <2>3. b # NoFrame /\ frames[b].kind = "end" /\ frames[b].s \in te.alive \ scan'.left =>
           \A i \in DOMAIN frames :
             frames[i].journal = frames[b].s /\ i > te.cursor[frames[b].s] => i > b
    BY <1>10
  <2> QED
    BY <2>2, <2>3, <1>3, <1>5, <1>7, <1>8, <1>9 DEF Scans
<1>12. IEngine'
  BY <1>0, <1>3, <1>11, StillEngine
<1>13. ITaken'
  <2>1. scan.best # NoFrame => scan'.best # NoFrame /\ scan'.best <= scan.best
    BY <1>2, <1>5, <1>6
  <2>2. scan.best \in Nat /\ scan'.best \in Nat /\ DOMAIN frames \subseteq Nat
    BY <1>1, <1>2, <1>5, <1>6
  <2> QED
    BY <2>1, <2>2, <1>3, StillTaken
<1> QED
  BY <1>12, <1>13

LEMMA EngineEngine ==
  ASSUME TypeOK, IFrames, IEngine, ITaken, EngineStep
  PROVE  TypeOK' /\ IEngine' /\ ITaken'
<1>0. Cursors /\ Clients /\ AllPassed /\ PassedSeen /\ Scans /\ NothingLeftAtEnd /\ OneWriting /\ FramesInJournals
  BY DEF IEngine, IFrames
<1>1. CASE ScanFirst
  BY <1>1, ScanTypes, ScanFirstEngine
<1>2. ASSUME NEW s \in Strategies, ScanNext(s) PROVE TypeOK' /\ IEngine' /\ ITaken'
  BY <1>2, ScanTypes, ScanNextEngine
<1>3. CASE ScanInVain
  <2>1. /\ frames' = frames /\ te' = te /\ taken' = taken /\ dropped' = dropped /\ hasty' = hasty
        /\ scan' = NoScan
    BY <1>3 DEF ScanInVain
  <2>2. Scans'
    BY <2>1 DEF Scans, NoScan, NoFrame
  <2>3. ~scan'.on
    BY <2>1 DEF NoScan
  <2> QED
    BY <1>0, <1>3, <2>1, <2>2, <2>3, ScanTypes, StillEngine, StillTaken
<1>4. CASE AddClient
  <2>1. frames' = frames /\ strategy' = strategy /\ taken' = taken /\ dropped' = dropped /\ hasty' = hasty
    BY <1>4 DEF AddClient
  <2>2. TypeOK' /\ AddsClient(Taken.s, scan.best)
    BY <1>0, <1>4, AddClientDoes
  <2> QED
    BY <2>1, <2>2, AddClientEngine
<1>5. CASE RemoveClient
  <2>1. frames' = frames /\ strategy' = strategy /\ taken' = taken /\ dropped' = dropped /\ hasty' = hasty
    BY <1>5 DEF RemoveClient
  <2>2. TypeOK' /\ RemovesClient(Taken.s, scan.best)
    BY <1>0, <1>5, RemoveClientDoes
  <2> QED
    BY <2>1, <2>2, RemoveClientEngine
<1>6. CASE PassRequest
  <2>1. frames' = frames /\ strategy' = strategy
    BY <1>6 DEF PassRequest
  <2>2. TypeOK' /\ PassesRequest(Taken.s, scan.best, Taken.q)
    BY <1>0, <1>6, PassRequestDoes
  <2> QED
    BY <2>1, <2>2, PassRequestEngine
<1>7. ASSUME NEW q \in asked, Answer(q) PROVE TypeOK' /\ IEngine' /\ ITaken'
  <2>1. /\ frames' = frames /\ te' = te /\ taken' = taken /\ dropped' = dropped /\ hasty' = hasty
        /\ scan' = scan
    BY <1>7 DEF Answer
  <2>2. Scans'
    BY <1>0, <2>1 DEF Scans, FirstSeen
  <2>3. TypeOK'
    BY <1>7, AnswerDoes
  <2> QED
    BY <1>0, <2>1, <2>2, <2>3, StillEngine, StillTaken
<1>8. CASE EngineEnds
  <2>1. /\ frames' = frames /\ taken' = taken /\ dropped' = dropped /\ hasty' = hasty
        /\ scan' = scan /\ scan = NoScan
    BY <1>8 DEF EngineEnds
  <2>2. Scans'
    BY <2>1 DEF Scans, NoScan, NoFrame
  <2>3. /\ TypeOK' /\ te'.cursor = te.cursor /\ te'.clients = te.clients /\ te'.alive = te.alive
        /\ te'.config = te.config /\ te'.start = te.start
    BY <1>8, EngineEndsDoes
  <2> QED
    BY <1>0, <2>1, <2>2, <2>3, StillEngine, StillTaken
<1>9. CASE EngineStarts
  BY <1>0, <1>9, EngineStartsDoes, EngineStartsEngine
<1> QED
  BY <1>1, <1>2, <1>3, <1>4, <1>5, <1>6, <1>7, <1>8, <1>9 DEF EngineStep, Listening, Callbacks

LEMMA InitEngine == Init => IEngine /\ ITaken /\ IAnswers
<1> SUFFICES ASSUME Init PROVE IEngine /\ ITaken /\ IAnswers
  OBVIOUS
<1>1. PICK c \in Configurations : te = NewEngine(1, 0, c)
  BY DEF Init
<1>2. /\ te.start = 0 /\ te.clients = te.config.named /\ te.alive = {}
      /\ \A j \in Journals : te.cursor[j] = IF j = Sys THEN 0 ELSE Off
  BY <1>1 DEF NewEngine
<1>3. /\ frames = << >> /\ DOMAIN frames = {} /\ Len(frames) = 0 /\ scan = NoScan /\ asked = {} /\ td = << >>
      /\ DOMAIN taken = {} /\ dropped = {} /\ told = {}
  BY DEF Init
<1>4. te.cursor[Sys] = 0 /\ \A s \in Strategies : te.cursor[s] = Off
  BY <1>2, NamesAssumption DEF Journals
<1>5. Cursors
  BY <1>2, <1>3, <1>4 DEF Cursors, Off
<1>6. \A s, r : ~Attached(s, r)
  BY <1>2, <1>4 DEF Attached
<1>7. Clients
  BY <1>2, <1>4, <1>6 DEF Clients
<1>8. AllPassed /\ PassedSeen /\ Scans /\ NothingLeftAtEnd
  BY <1>2, <1>3 DEF AllPassed, PassedSeen, Scans, NothingLeftAtEnd, NoScan, NoFrame
<1>9. ITaken
  BY <1>3 DEF ITaken
<1>10. InMaps /\ Answers /\ Told
  BY <1>3 DEF InMaps, Answers, Told
<1>11. Maps
  BY DEF Init, Down, NewRun, NoIds, Maps, Ids
<1> QED
  BY <1>5, <1>7, <1>8, <1>9, <1>10, <1>11 DEF IEngine, IAnswers

-----------------------------------------------------------------------------
IInv == TypeOK /\ IFrames /\ IEngine /\ ITaken /\ IAnswers

LEMMA InitInv == Init => IInv
BY InitTypes, InitFrames, InitEngine DEF IInv

LEMMA StrategyInv ==
  ASSUME IInv, NEW s \in Strategies, StrategyStep(s)
  PROVE  IInv'
<1>1. TypeOK /\ IFrames /\ IEngine /\ ITaken /\ IAnswers
  BY DEF IInv
<1>2. TypeOK'
  BY <1>1, StrategyTypes
<1>3. IFrames'
  BY <1>1, <1>2, StrategyFrames
<1>4. Grows
  BY <1>1, StrategyGrows
<1>5. te' = te /\ scan' = scan /\ taken' = taken /\ dropped' = dropped /\ hasty' = hasty
  BY StrategyLeaves
<1>6. IEngine'
  BY <1>1, <1>2, <1>3, <1>4, <1>5, EngineWhileWriting
<1>7. ITaken'
  BY <1>1, <1>2, <1>3, <1>4, <1>5, TakenWhileWriting
<1>8. IAnswers'
  <2>1. CASE \/ Start(s) \/ Connect(s) \/ Connected(s) \/ Exit(s) \/ Exited(s)
             \/ \E t \in Threads : ReadRid(s, t) \/ StampRequest(s, t)
    BY <1>1, <2>1, OthersAnswers
  <2>2. CASE ReadTd(s)
    BY <1>1, <2>2, ReadTdAnswers
  <2>3. ASSUME NEW t \in Threads, PublishRequest(s, t) \/ MapRequest(s, t) PROVE IAnswers'
    BY <1>1, <2>3, PublishRequestAnswers, MapRequestAnswers
  <2> QED
    BY <2>1, <2>2, <2>3 DEF StrategyStep
<1> QED
  BY <1>2, <1>3, <1>6, <1>7, <1>8 DEF IInv

LEMMA EngineInv ==
  ASSUME IInv, EngineStep
  PROVE  IInv'
<1>1. TypeOK /\ IFrames /\ IEngine /\ ITaken /\ IAnswers
  BY DEF IInv
<1>2. TypeOK' /\ IEngine' /\ ITaken'
  BY <1>1, EngineEngine
<1>3. IFrames'
  BY <1>1, EngineLeaves, FramesKept
<1>4. IAnswers'
  BY <1>1, EngineAnswers
<1> QED
  BY <1>2, <1>3, <1>4 DEF IInv

LEMMA StillInv == IInv /\ UNCHANGED vars => IInv'
<1> SUFFICES ASSUME IInv, UNCHANGED vars PROVE IInv'
  OBVIOUS
<1>1. /\ frames' = frames /\ strategy' = strategy /\ threads' = threads /\ te' = te /\ scan' = scan
      /\ asked' = asked /\ td' = td /\ taken' = taken /\ dropped' = dropped /\ hasty' = hasty /\ told' = told
  BY DEF vars
<1>2. TypeOK'
  BY <1>1 DEF IInv, TypeOK
<1>3. IFrames'
  BY <1>1, FramesKept DEF IInv
<1>4. Grows
  BY <1>1, FramesAre DEF IInv, Grows
<1>5. IEngine' /\ ITaken'
  BY <1>1, <1>2, <1>3, <1>4, EngineWhileWriting, TakenWhileWriting DEF IInv
<1>6. InMaps' /\ Maps' /\ Answers' /\ Told'
  BY <1>1 DEF IInv, IAnswers, InMaps, Mapped, Request, Maps, Answers, Told
<1> QED
  BY <1>2, <1>3, <1>5, <1>6 DEF IInv, IAnswers

(* The inductive invariant holds. *)
THEOREM Invariant == Spec => []IInv
<1>1. Init => IInv
  BY InitInv
<1>2. IInv /\ [Next]_vars => IInv'
  BY NextSplit, StrategyInv, EngineInv, StillInv
<1> QED
  BY <1>1, <1>2, PTL DEF Spec

(* Whatever the strategies and the engine do, and whatever the bounds, the *)
(* state has its types: the cursors stay cursors, the maps hold requests.  *)
THEOREM TypeCorrect == Spec => []TypeOK
<1>1. IInv => TypeOK
  BY DEF IInv
<1> QED
  BY <1>1, Invariant, PTL

(* passFrame takes no request twice over the life of the engine's reader,  *)
(* whichever of add_client, remove_client and restarts come in between,    *)
(* unless it was hasty: taken before the log-in of its run.                *)
THEOREM RequestsTakenOnce == Spec => []TakenOnce
<1>1. ASSUME IInv PROVE TakenOnce
  <2> SUFFICES ASSUME NEW q \in DOMAIN taken
               PROVE  taken[q] <= IF q \in hasty THEN 2 ELSE 1
    BY DEF TakenOnce
  <2>1. PICK k \in DOMAIN frames : frames[k].kind = "request" /\ frames[k].q = q
    BY <1>1 DEF IInv, IEngine, PassedSeen
  <2>2. taken[q] \in {1, 2} /\ (taken[q] = 2 => q \in hasty)
    BY <1>1, <2>1 DEF IInv, ITaken
  <2> QED
    BY <2>2
<1> QED
  BY <1>1, Invariant, PTL

(* remove_client lets go of a journal only when every request made after   *)
(* the log-in of the run was read, although the end stands in another      *)
(* journal and the two are looked at one after the other.                  *)
THEOREM NothingLeft == Spec => []NothingLeftAtEnd
<1>1. IInv => NothingLeftAtEnd
  BY DEF IInv, IEngine
<1> QED
  BY <1>1, Invariant, PTL

(* What the dispatch makes of an answer: the client's own request; none,   *)
(* when it is too early for the map or for another run; or another one     *)
(* that has taken the id since.                                            *)
THEOREM AnswersFindAsker == Spec => []AnswersReachAsker
<1>1. ASSUME IInv PROVE AnswersReachAsker
  <2>0. TypeOK /\ IFrames /\ PassedSeen /\ Told
    BY <1>1 DEF IInv, IEngine, IAnswers
  <2>1. \A q \in Requests, i, j \in DOMAIN frames : frames[i].q = q /\ frames[j].q = q => i = j
    <3> SUFFICES ASSUME NEW q \in Requests, NEW i \in DOMAIN frames, NEW j \in DOMAIN frames,
                        frames[i].q = q, frames[j].q = q
                 PROVE  i = j
      OBVIOUS
    <3>1. frames[i].kind = "request" /\ frames[j].kind = "request"
      BY <2>0, NoneAssumption DEF IFrames, FramesInJournals
    <3> QED
      BY <2>0, <3>1, FramesAre, OneFrame
  <2>2. \A q \in Requests, i \in DOMAIN frames : frames[i].q = q => At(q) = i
    BY <2>1 DEF At
  <2> SUFFICES ASSUME NEW a \in told, a.by = a.of.s
               PROVE  \/ a.as = a.of
                      \/ a.as = None /\ (a.early \/ a.of.run < a.run)
                      \/ /\ a.as # None /\ a.as.s = a.by /\ Id(a.as) = Id(a.of)
                         /\ a.early \/ At(a.of) < At(a.as) \/ a.of.thread # a.as.thread
    BY DEF AnswersReachAsker
  <2>3. a.of \in Requests /\ a.as \in Requests \cup {None}
    BY <2>0 DEF TypeOK, ToldType, Told
  <2>4. \/ a.as = a.of
        \/ a.as = None /\ (a.early \/ a.of.run < a.run)
        \/ /\ a.as # None /\ a.as.s = a.by /\ Id(a.as) = Id(a.of)
           /\ \/ a.early \/ a.of.thread # a.as.thread
              \/ \E k, m \in DOMAIN frames : k < m /\ frames[k].q = a.of /\ frames[m].q = a.as
    BY <2>0 DEF Told
  <2>5. a.as # None /\ (\E k, m \in DOMAIN frames : k < m /\ frames[k].q = a.of /\ frames[m].q = a.as)
        => At(a.of) < At(a.as)
    BY <2>2, <2>3
  <2> QED
    BY <2>4, <2>5
<1> QED
  BY <1>1, Invariant, PTL
=============================================================================
