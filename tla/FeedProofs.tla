----------------------------- MODULE FeedProofs -----------------------------
(***************************************************************************)
(* What brings quotes and orders to a strategy, proved for all sizes,      *)
(* tickers, orders and clocks: the memory page its journals are made of    *)
(* (Page), the market data engine that writes one (MarketData) and the     *)
(* parked orders its ticks set off (ParkUnit).                             *)
(***************************************************************************)
EXTENDS Page, MarketData, ParkUnit, FiniteSetTheorems, TLAPS

-----------------------------------------------------------------------------
(***************************************************************************)
(* Theorems about Page for any page size, headroom, set of frame lengths   *)
(* and number of readers: nobody ever takes left-over data for a frame,    *)
(* the writer stays inside the page, and the page implements FrameLog.     *)
(*                                                                         *)
(* The argument: call a boundary any cell the writer has published up to.  *)
(* Cells before the tail that are boundaries hold written frames whose     *)
(* length leads to the next boundary, no matter what lies between; nothing *)
(* the writer stores before it publishes touches a cell up to the tail;    *)
(* and the status at the tail is never WRITTEN, because setStatusWritten   *)
(* clears it before the frame in front of it appears.                      *)
(***************************************************************************)

Boundary(x) == x = First \/ index[x] > 0

BoundariesEndAtTail ==
    /\ index[First] = 0
    /\ Boundary(tail)
    /\ \A x \in Cells : Boundary(x) => x <= tail

\* From each boundary a written frame leads to the next one.
FramesLinked ==
    \A x \in Cells :
        Boundary(x) /\ x < tail =>
            /\ status[x] = Written
            /\ length[x] >= 1
            /\ x + length[x] <= tail
            /\ index[x + length[x]] = index[x] + 1

IndexIncreases ==
    \A x, y \in Cells : Boundary(x) /\ Boundary(y) /\ x < y => index[x] < index[y]

TailNotWritten == status[tail] # Written

WriterInPlace ==
    /\ wpc = "scan" => Boundary(wpos)
    /\ wpc # "scan" => wpos = tail
    /\ wpc \in {"filled", "cleared"} => length[wpos] \in Lengths /\ HasHeadroom
    /\ wpc = "cleared" => status[wpos + length[wpos]] = Raw

ReadersInPlace ==
    \A r \in Readers : rpos[r] # Nowhere => Boundary(rpos[r])

IInv ==
    /\ TypeOK
    /\ BoundariesEndAtTail
    /\ FramesLinked
    /\ IndexIncreases
    /\ TailNotWritten
    /\ WriterInPlace
    /\ ReadersInPlace

-----------------------------------------------------------------------------
LEMMA PageConstants ==
    /\ Size \in Nat /\ Headroom \in Nat /\ Headroom < Size
    /\ First \in Cells /\ Cells = 0 .. (Size - 1) /\ First = 0
    /\ \A n \in Lengths : n \in Nat /\ n >= 1 /\ n <= Headroom
  BY PageAssumption DEF Cells, First

LEMMA InitInv == Init => IInv
  <1> SUFFICES ASSUME Init PROVE IInv
    OBVIOUS
  <1> USE PageConstants DEF Init
  <1>1. TypeOK
    BY DEF TypeOK, FrameStatus
  <1>2. \A x \in Cells : Boundary(x) <=> x = First
    BY DEF Boundary
  <1>3. BoundariesEndAtTail /\ FramesLinked /\ IndexIncreases
    BY <1>2 DEF BoundariesEndAtTail, FramesLinked, IndexIncreases
  <1>4. TailNotWritten /\ WriterInPlace /\ ReadersInPlace
    BY <1>2 DEF TailNotWritten, WriterInPlace, ReadersInPlace, Raw, Written
  <1> QED
    BY <1>1, <1>3, <1>4 DEF IInv

\* Whoever stands on a boundary and sees WRITTEN can step to the next one.
LEMMA StepToNext ==
    ASSUME IInv, NEW x \in Cells, Boundary(x), status[x] = Written
    PROVE  /\ x < tail /\ x + length[x] \in Cells /\ Boundary(x + length[x])
           /\ index[x + length[x]] = index[x] + 1
           /\ index[x] < index[tail]
  <1>1. tail \in Cells /\ length[x] \in Nat /\ index[x] \in Nat /\ Boundary(tail)
    BY DEF IInv, TypeOK, BoundariesEndAtTail
  <1>2. x < tail
    <2>1. x <= tail /\ x # tail
      BY DEF IInv, BoundariesEndAtTail, TailNotWritten
    <2> QED
      BY <1>1, <2>1, PageConstants
  <1>3. /\ length[x] >= 1 /\ x + length[x] <= tail
        /\ index[x + length[x]] = index[x] + 1
    BY <1>2 DEF IInv, FramesLinked
  <1>4. x + length[x] \in Cells
    BY <1>1, <1>3, PageConstants
  <1>5. index[x + length[x]] > 0
    BY <1>1, <1>3
  <1>6. index[x] < index[tail]
    BY <1>1, <1>2 DEF IInv, IndexIncreases
  <1> QED
    BY <1>2, <1>3, <1>4, <1>5, <1>6 DEF Boundary

\* Stores behind the tail do not touch what is published.
LEMMA PublishedUntouched ==
    ASSUME IInv, UNCHANGED <<tail, index, rpos>>,
           \A x \in Cells : x < tail => status'[x] = status[x] /\ length'[x] = length[x],
           status'[tail] # Written
    PROVE  /\ BoundariesEndAtTail' /\ FramesLinked' /\ IndexIncreases'
           /\ TailNotWritten' /\ ReadersInPlace'
  <1>1. \A x \in Cells : Boundary(x)' <=> Boundary(x)
    BY DEF Boundary
  <1>2. tail \in Cells /\ rpos \in [Readers -> Cells \cup {Nowhere}]
    BY DEF IInv, TypeOK
  <1>3. BoundariesEndAtTail'
    BY <1>1, <1>2 DEF IInv, BoundariesEndAtTail, Boundary
  <1>4. FramesLinked'
    BY <1>1 DEF IInv, FramesLinked
  <1>5. IndexIncreases' /\ TailNotWritten'
    BY <1>1 DEF IInv, IndexIncreases, TailNotWritten
  <1>6. ReadersInPlace'
    BY <1>1, <1>2 DEF IInv, ReadersInPlace
  <1> QED
    BY <1>3, <1>4, <1>5, <1>6

\* The writer looks for the end, or is replaced by another.
LEMMA ScanStep == IInv /\ (PassWritten \/ PassedWritten \/ WriterRestart) => IInv'
  <1> SUFFICES ASSUME IInv, PassWritten \/ PassedWritten \/ WriterRestart PROVE IInv'
    OBVIOUS
  <1>1. UNCHANGED <<status, length, rpos, tail, index>>
    BY DEF PassWritten, PassedWritten, WriterRestart
  <1>2. /\ BoundariesEndAtTail' /\ FramesLinked' /\ IndexIncreases'
        /\ TailNotWritten' /\ ReadersInPlace'
    BY <1>1, PublishedUntouched DEF IInv, TailNotWritten
  <1>3. /\ wpc' \in {"scan", "ready", "closed"} /\ wpos' \in Cells
        /\ (wpc' = "scan" => Boundary(wpos)') /\ (wpc' # "scan" => wpos' = tail)
    <2>1. CASE PassWritten
      <3>1. wpos \in Cells /\ Boundary(wpos) /\ status[wpos] = Written
        BY <2>1 DEF IInv, TypeOK, WriterInPlace, PassWritten
      <3>2. wpos' \in Cells /\ Boundary(wpos + length[wpos])
        BY <2>1, <3>1, StepToNext DEF PassWritten
      <3> QED
        BY <1>1, <2>1, <3>2 DEF PassWritten, Boundary
    <2>2. CASE PassedWritten
      <3>1. wpos \in Cells /\ Boundary(wpos) /\ status[wpos] # Written /\ tail \in Cells
        BY <2>2 DEF IInv, TypeOK, WriterInPlace, PassedWritten
      <3>2. wpos <= tail /\ ~(wpos < tail)
        BY <3>1 DEF IInv, BoundariesEndAtTail, FramesLinked
      <3> QED
        BY <2>2, <3>1, <3>2, PageConstants DEF PassedWritten
    <2>3. CASE WriterRestart
      BY <2>3, PageConstants DEF WriterRestart, Boundary
    <2> QED
      BY <2>1, <2>2, <2>3
  <1>4. TypeOK'
    BY <1>1, <1>3 DEF IInv, TypeOK
  <1>5. WriterInPlace'
    BY <1>1, <1>3 DEF WriterInPlace
  <1> QED
    BY <1>2, <1>4, <1>5 DEF IInv

\* A frame is filled in behind the tail, with anything in its data.
LEMMA FillStep == IInv /\ Fill => IInv'
  <1> SUFFICES ASSUME IInv, Fill PROVE IInv'
    OBVIOUS
  <1>1. /\ UNCHANGED <<wpos, rpos, tail, index>> /\ wpc' = "filled"
        /\ wpos = tail /\ tail \in Cells /\ HasHeadroom
    BY DEF IInv, TypeOK, WriterInPlace, Fill
  <1>2. PICK len \in Lengths :
          LET data == (wpos + 1) .. (wpos + len - 1)
          IN \E s \in [data -> FrameStatus], l \in [data -> Lengths] :
              /\ status' = [x \in Cells |-> IF x \in data THEN s[x] ELSE status[x]]
              /\ length' = [x \in Cells |-> IF x = wpos THEN len
                                            ELSE IF x \in data THEN l[x] ELSE length[x]]
    BY DEF Fill
  <1> DEFINE data == (wpos + 1) .. (wpos + len - 1)
  <1>3. PICK s \in [data -> FrameStatus], l \in [data -> Lengths] :
              /\ status' = [x \in Cells |-> IF x \in data THEN s[x] ELSE status[x]]
              /\ length' = [x \in Cells |-> IF x = wpos THEN len
                                            ELSE IF x \in data THEN l[x] ELSE length[x]]
    BY <1>2
  <1>4. \A x \in Cells : x <= tail => x \notin data
    BY <1>1, PageConstants
  <1>5. status' \in [Cells -> FrameStatus] /\ length' \in [Cells -> Nat]
    BY <1>3, PageConstants DEF IInv, TypeOK
  <1>6. TypeOK'
    BY <1>1, <1>5 DEF IInv, TypeOK
  <1>7. status'[tail] # Written
    BY <1>1, <1>3, <1>4, PageConstants DEF IInv, TailNotWritten
  <1>8. \A x \in Cells : x < tail => status'[x] = status[x] /\ length'[x] = length[x]
    BY <1>1, <1>3, <1>4, PageConstants
  <1>9. WriterInPlace'
    <2>1. length'[wpos] = len
      BY <1>1, <1>3
    <2> QED
      BY <1>1, <1>2, <2>1 DEF WriterInPlace, HasHeadroom
  <1> QED
    BY <1>1, <1>6, <1>7, <1>8, <1>9, PublishedUntouched DEF IInv

\* Where the frame being written ends.
LEMMA NextCell ==
    ASSUME IInv, wpc \in {"filled", "cleared"}
    PROVE  /\ wpos = tail /\ wpos \in Cells /\ length[wpos] \in Nat /\ length[wpos] >= 1
           /\ wpos + length[wpos] \in Cells /\ wpos < wpos + length[wpos]
  <1>1. wpos = tail /\ wpos \in Cells /\ length[wpos] \in Lengths /\ wpos + Headroom < Size
    BY DEF IInv, TypeOK, WriterInPlace, HasHeadroom
  <1> QED
    BY <1>1, PageConstants

LEMMA ClearNextStep == IInv /\ ClearNext => IInv'
  <1> SUFFICES ASSUME IInv, ClearNext PROVE IInv'
    OBVIOUS
  <1>1. /\ UNCHANGED <<length, wpos, rpos, tail, index>> /\ wpc = "filled" /\ wpc' = "cleared"
        /\ status' = [status EXCEPT ![wpos + length[wpos]] = Raw]
    BY DEF ClearNext
  <1>2. /\ wpos = tail /\ wpos \in Cells /\ wpos + length[wpos] \in Cells
        /\ wpos < wpos + length[wpos]
    BY <1>1, NextCell
  <1>3. \A x \in Cells : x <= tail => status'[x] = status[x]
    BY <1>1, <1>2, PageConstants DEF IInv, TypeOK
  <1>4. TypeOK'
    BY <1>1, <1>2 DEF IInv, TypeOK, FrameStatus
  <1>5. WriterInPlace'
    BY <1>1, <1>2 DEF IInv, TypeOK, WriterInPlace, HasHeadroom
  <1>6. status'[tail] # Written
    BY <1>2, <1>3, PageConstants DEF IInv, TailNotWritten
  <1>7. \A x \in Cells : x < tail => status'[x] = status[x] /\ length'[x] = length[x]
    BY <1>1, <1>2, <1>3, PageConstants
  <1> QED
    BY <1>1, <1>4, <1>5, <1>6, <1>7, PublishedUntouched DEF IInv

LEMMA FinishPageStep == IInv /\ FinishPage => IInv'
  <1> SUFFICES ASSUME IInv, FinishPage PROVE IInv'
    OBVIOUS
  <1>1. /\ UNCHANGED <<length, wpos, rpos, tail, index>> /\ wpc' = "closed"
        /\ status' = [status EXCEPT ![wpos] = PageEnd]
        /\ wpos = tail /\ wpos \in Cells
    BY DEF IInv, TypeOK, WriterInPlace, FinishPage
  <1>2. TypeOK'
    BY <1>1 DEF IInv, TypeOK, FrameStatus
  <1>3. WriterInPlace'
    BY <1>1 DEF WriterInPlace
  <1>4. status'[tail] # Written
    BY <1>1 DEF IInv, TypeOK, PageEnd, Written
  <1>5. \A x \in Cells : x < tail => status'[x] = status[x] /\ length'[x] = length[x]
    BY <1>1, PageConstants DEF IInv, TypeOK
  <1> QED
    BY <1>1, <1>2, <1>3, <1>4, <1>5, PublishedUntouched DEF IInv

LEMMA SetWrittenStep == IInv /\ SetWritten => IInv'
  <1> SUFFICES ASSUME IInv, SetWritten PROVE IInv'
    OBVIOUS
  <1> DEFINE new == tail + length[tail]
  <1>1. /\ wpos = tail /\ tail \in Cells /\ length[tail] \in Nat /\ length[tail] >= 1
        /\ new \in Cells /\ tail < new
    BY NextCell DEF SetWritten
  <1>2. /\ UNCHANGED <<length, rpos>> /\ wpc' = "ready" /\ wpos' = new /\ tail' = new
        /\ status' = [status EXCEPT ![tail] = Written]
        /\ index' = [index EXCEPT ![new] = index[tail] + 1]
    BY <1>1 DEF SetWritten
  <1>3. /\ index \in [Cells -> Nat] /\ status \in [Cells -> FrameStatus]
        /\ rpos \in [Readers -> Cells \cup {Nowhere}]
    BY DEF IInv, TypeOK
  <1>4. TypeOK'
    <2>1. index' \in [Cells -> Nat]
      BY <1>1, <1>2, <1>3
    <2> QED
      BY <1>1, <1>2, <2>1 DEF IInv, TypeOK, FrameStatus
  <1>5. /\ \A x \in Cells : Boundary(x)' <=> Boundary(x) \/ x = new
        /\ \A x \in Cells : x # new => index'[x] = index[x]
        /\ index'[new] = index[tail] + 1
    BY <1>1, <1>2, <1>3 DEF Boundary
  <1>6. /\ \A x \in Cells : Boundary(x) => x <= tail
        /\ Boundary(tail) /\ index[First] = 0
    BY DEF IInv, BoundariesEndAtTail
  <1>7. BoundariesEndAtTail'
    <2>1. First # new
      BY <1>1, PageConstants
    <2>2. \A x \in Cells : Boundary(x)' => x <= new
      BY <1>1, <1>5, <1>6, PageConstants
    <2>3. Boundary(tail)'
      BY <1>1, <1>2, <1>3 DEF Boundary
    <2> QED
      BY <1>2, <1>5, <1>6, <2>1, <2>2, <2>3, PageConstants DEF BoundariesEndAtTail
  <1>8. FramesLinked'
    <2> SUFFICES ASSUME NEW x \in Cells, Boundary(x) \/ x = new, x < new
                 PROVE  /\ status'[x] = Written
                        /\ length[x] >= 1
                        /\ x + length[x] <= new
                        /\ index'[x + length[x]] = index'[x] + 1
      BY <1>2, <1>5 DEF FramesLinked
    <2>1. Boundary(x) /\ x <= tail /\ x # new
      BY <1>1, <1>6, PageConstants
    <2>2. CASE x = tail
      BY <2>2, <2>1, <1>1, <1>2, <1>3, <1>5, PageConstants
    <2>3. CASE x # tail
      <3>1. x < tail
        BY <2>1, <2>3, <1>1, PageConstants
      <3>2. /\ status[x] = Written /\ length[x] >= 1 /\ x + length[x] <= tail
            /\ index[x + length[x]] = index[x] + 1
        BY <2>1, <3>1 DEF IInv, FramesLinked
      <3>3. length[x] \in Nat
        BY DEF IInv, TypeOK
      <3>4. x + length[x] \in Cells /\ x + length[x] # new
        BY <1>1, <3>1, <3>2, <3>3, PageConstants
      <3>5. x + length[x] <= new
        BY <1>1, <3>2, <3>3, PageConstants
      <3> QED
        BY <1>2, <1>3, <1>5, <2>1, <2>3, <3>2, <3>4, <3>5
    <2> QED
      BY <2>2, <2>3
  <1>9. IndexIncreases'
    <2> SUFFICES ASSUME NEW x \in Cells, NEW y \in Cells, x < y,
                        Boundary(x) \/ x = new, Boundary(y) \/ y = new
                 PROVE  index'[x] < index'[y]
      BY <1>5 DEF IndexIncreases
    <2>1. Boundary(x) /\ x <= tail /\ x # new
      BY <1>1, <1>6, PageConstants
    <2>2. CASE y = new
      <3>1. index[x] <= index[tail]
        <4>1. x < tail => index[x] < index[tail]
          BY <1>1, <1>6, <2>1 DEF IInv, IndexIncreases
        <4> QED
          BY <4>1, <1>1, <1>3, <2>1, PageConstants
      <3> QED
        BY <3>1, <2>1, <2>2, <1>1, <1>3, <1>5
    <2>3. CASE y # new
      BY <2>1, <2>3, <1>5 DEF IInv, IndexIncreases
    <2> QED
      BY <2>2, <2>3
  <1>10. TailNotWritten'
    <2>1. status[new] = Raw
      BY <1>1 DEF IInv, WriterInPlace, SetWritten
    <2> QED
      BY <2>1, <1>1, <1>2, <1>3, PageConstants DEF TailNotWritten, Raw, Written
  <1>11. WriterInPlace'
    BY <1>2 DEF WriterInPlace
  <1>12. ReadersInPlace'
    BY <1>2, <1>3, <1>5 DEF IInv, ReadersInPlace
  <1> QED
    BY <1>4, <1>7, <1>8, <1>9, <1>10, <1>11, <1>12 DEF IInv

LEMMA ReaderStep ==
    ASSUME IInv, NEW r \in Readers, Attach(r) \/ Read(r)
    PROVE  IInv'
  <1>1. UNCHANGED <<status, length, wpc, wpos, tail, index>>
    BY DEF Attach, Read
  <1>2. PICK y \in Cells : Boundary(y) /\ rpos' = [rpos EXCEPT ![r] = y]
    <2>1. CASE Attach(r)
      BY <2>1, PageConstants DEF Attach, Boundary
    <2>2. CASE Read(r)
      <3>1. rpos[r] \in Cells /\ Boundary(rpos[r]) /\ status[rpos[r]] = Written
        BY <2>2 DEF IInv, TypeOK, ReadersInPlace, Read
      <3> QED
        BY <2>2, <3>1, StepToNext DEF Read
    <2> QED
      BY <2>1, <2>2
  <1>3. TypeOK'
    BY <1>1, <1>2 DEF IInv, TypeOK
  <1>4. ReadersInPlace'
    BY <1>1, <1>2 DEF IInv, TypeOK, ReadersInPlace, Boundary
  <1> QED
    BY <1>1, <1>3, <1>4 DEF IInv, BoundariesEndAtTail, FramesLinked, IndexIncreases,
       TailNotWritten, WriterInPlace, HasHeadroom, Boundary

-----------------------------------------------------------------------------
(***************************************************************************)
(* The theorems.                                                           *)
(***************************************************************************)

LEMMA NextInv == IInv /\ [Next]_vars => IInv'
  <1> SUFFICES ASSUME IInv, [Next]_vars PROVE IInv'
    OBVIOUS
  <1>1. CASE PassWritten \/ PassedWritten \/ WriterRestart
    BY <1>1, ScanStep
  <1>2. CASE Fill
    BY <1>2, FillStep
  <1>3. CASE ClearNext
    BY <1>3, ClearNextStep
  <1>4. CASE SetWritten
    BY <1>4, SetWrittenStep
  <1>5. CASE FinishPage
    BY <1>5, FinishPageStep
  <1>6. ASSUME NEW r \in Readers, Attach(r) \/ Read(r)
        PROVE  IInv'
    BY <1>6, ReaderStep
  <1>7. CASE UNCHANGED vars
    BY <1>7 DEF vars, IInv, TypeOK, BoundariesEndAtTail, FramesLinked, IndexIncreases,
       TailNotWritten, WriterInPlace, HasHeadroom, ReadersInPlace, Boundary
  <1> QED
    BY <1>1, <1>2, <1>3, <1>4, <1>5, <1>6, <1>7 DEF Next

LEMMA Invariant == Spec => []IInv
  BY InitInv, NextInv, PTL DEF Spec

\* Every variable stays in its type: positions never leave the page.
THEOREM TypeCorrect == Spec => []TypeOK
  <1>1. IInv => TypeOK
    BY DEF IInv
  <1> QED
    BY <1>1, Invariant, PTL

\* Neither a reader nor a writer that looks for the end of the page ever
\* takes left-over data for a frame header, whatever the data is.
THEOREM BoundariesRespected == Spec => []OnFrameBoundary
  <1>1. IInv => OnFrameBoundary
    <2> SUFFICES ASSUME IInv PROVE OnFrameBoundary
      OBVIOUS
    <2>1. ASSUME NEW x \in Cells, Boundary(x)
          PROVE  x = tail \/ PublishedAt(x)
      <3>1. x <= tail /\ tail \in Cells
        BY <2>1 DEF IInv, TypeOK, BoundariesEndAtTail
      <3>2. x < tail => PublishedAt(x)
        BY <2>1 DEF IInv, FramesLinked, PublishedAt
      <3> QED
        BY <3>1, <3>2, PageConstants
    <2>2. \A r \in Readers : rpos[r] # Nowhere => rpos[r] \in Cells /\ Boundary(rpos[r])
      BY DEF IInv, TypeOK, ReadersInPlace
    <2>3. wpos \in Cells /\ Boundary(wpos)
      BY DEF IInv, TypeOK, WriterInPlace, BoundariesEndAtTail
    <2> QED
      BY <2>1, <2>2, <2>3 DEF OnFrameBoundary
  <1> QED
    BY <1>1, Invariant, PTL

\* What the writer stores stays inside the page, the next header included.
THEOREM WriterStaysInPage == Spec => []StaysInPage
  <1>1. IInv => StaysInPage
    BY NextCell, PageConstants DEF StaysInPage
  <1> QED
    BY <1>1, Invariant, PTL

\* A page gives every reader its frames in order and once each, none torn.
THEOREM Refinement == Spec => ImplementsFrameLog
  <1> DEFINE position == [r \in Readers |-> IF rpos[r] = Nowhere THEN -1 ELSE index[rpos[r]]]
  <1>1. Init => Log!LogInit
    BY PageConstants DEF Init, Log!LogInit, Log!Off, Nowhere
  <1>2. IInv /\ [Next]_vars => [Log!LogNext]_(Log!logVars)
    <2> SUFFICES ASSUME IInv, [Next]_vars PROVE [Log!LogNext]_(Log!logVars)
      OBVIOUS
    <2> USE DEF Log!logVars, Log!Off
    <2>1. /\ tail \in Cells /\ index \in [Cells -> Nat]
          /\ rpos \in [Readers -> Cells \cup {Nowhere}]
      BY DEF IInv, TypeOK
    <2>2. CASE SetWritten
      <3>1. /\ wpos = tail /\ wpos + length[wpos] \in Cells /\ wpos < wpos + length[wpos]
        BY <2>2, NextCell DEF SetWritten
      <3>2. index'[tail'] = index[tail] + 1
        BY <2>1, <2>2, <3>1 DEF SetWritten
      <3>3. \A r \in Readers : rpos[r] # Nowhere => rpos[r] # wpos + length[wpos]
        <4> SUFFICES ASSUME NEW r \in Readers, rpos[r] # Nowhere
                     PROVE  rpos[r] # wpos + length[wpos]
          OBVIOUS
        <4>1. rpos[r] \in Cells /\ rpos[r] <= tail
          BY <2>1 DEF IInv, ReadersInPlace, BoundariesEndAtTail
        <4> QED
          BY <2>1, <3>1, <4>1, PageConstants
      <3>4. \A r \in Readers : rpos[r] # Nowhere => index'[rpos[r]] = index[rpos[r]]
        BY <2>1, <2>2, <3>3 DEF SetWritten
      <3>5. position' = position
        BY <2>2, <3>4 DEF SetWritten
      <3> QED
        BY <3>2, <3>5 DEF Log!LogNext, Log!LogPublish
    <2>3. ASSUME NEW r \in Readers, Attach(r)
          PROVE  Log!LogAttach(r)
      <3>1. index[First] = 0 /\ 0 \in 0 .. index[tail]
        BY <2>1, PageConstants DEF IInv, BoundariesEndAtTail
      <3>2. position[r] = -1
        BY <2>3 DEF Attach
      <3>3. position' = [position EXCEPT ![r] = 0]
        BY <2>1, <2>3, <3>1, PageConstants DEF Attach, Nowhere
      <3> QED
        BY <2>3, <3>1, <3>2, <3>3 DEF Attach, Log!LogAttach
    <2>4. ASSUME NEW r \in Readers, Read(r)
          PROVE  Log!LogRead(r)
      <3>1. rpos[r] \in Cells /\ rpos[r] # Nowhere /\ Boundary(rpos[r]) /\ status[rpos[r]] = Written
        BY <2>1, <2>4 DEF IInv, ReadersInPlace, Read
      <3>2. /\ rpos[r] + length[rpos[r]] \in Cells
            /\ index[rpos[r] + length[rpos[r]]] = index[rpos[r]] + 1
            /\ index[rpos[r]] < index[tail] /\ index[rpos[r]] \in Nat
        BY <2>1, <3>1, StepToNext
      <3>3. position[r] = index[rpos[r]] /\ position[r] # -1 /\ position[r] < index[tail]
        BY <3>1, <3>2
      <3>4. rpos[r] + length[rpos[r]] # Nowhere
        BY <3>2, PageConstants DEF Nowhere
      <3>5. position' = [position EXCEPT ![r] = position[r] + 1]
        BY <2>1, <2>4, <3>2, <3>3, <3>4 DEF Read
      <3> QED
        BY <2>4, <3>3, <3>5 DEF Read, Log!LogRead
    <2>5. CASE PassWritten \/ PassedWritten \/ WriterRestart \/ Fill \/ ClearNext \/ FinishPage
      BY <2>5 DEF PassWritten, PassedWritten, WriterRestart, Fill, ClearNext, FinishPage
    <2>6. CASE UNCHANGED vars
      BY <2>6 DEF vars
    <2> QED
      BY <2>2, <2>3, <2>4, <2>5, <2>6 DEF Next, Log!LogNext
  <1> QED
    BY <1>1, <1>2, Invariant, PTL DEF Spec, ImplementsFrameLog, Log!LogSpec

-----------------------------------------------------------------------------
(* Theorems about MarketData, for all tickers and all bounds *)

MdType ==
  [state: {"down", "starting", "stuck", "listening", "crashed"}, run: Nat, start: Nat, at: Nat,
   api: BOOLEAN, connected: BOOLEAN, logged_in: BOOLEAN]

FrontType ==
  [link: {"down", "up", "lost"}, session: {"none", "asked", "in", "out"},
   tickers: SUBSET Tickers, refused: SUBSET Tickers, rejected: BOOLEAN]

MarketTypeOK ==
  /\ journal \in Seq(Frames)
  /\ md \in MdType
  /\ subs \in [tickers: SUBSET Tickers, history: SUBSET Tickers]
  /\ listener \in {"poll", "check", "call", "sleep", "replay", "flags", "release"}
  /\ callback \in [at: {"idle", "ask", "read", "call"}, left: SUBSET Tickers]
  /\ front \in FrontType
  /\ faults \in [losses: Nat, refusals: Nat]
  /\ late \in BOOLEAN
  /\ torn \in SUBSET Tickers

(* The log-in flag is only left behind by an answer that came late. *)
FlagsInv ==
  /\ LoggedInHasApi
  /\ listener = "release" /\ md.logged_in => late

InRange == md.start <= md.at /\ md.at <= Len(journal)

Resting ==
  /\ md.state \in {"down", "starting"} => md.at = md.start /\ listener = "poll" /\ subs = NoSubs
  /\ md.state = "down" => front = Away /\ callback = Quiet /\ ~md.api

SessionInv ==
  /\ front.link # "up" => front.session = "none"
  /\ front.session \in {"in", "out"} => md.logged_in \/ listener = "release"
  /\ front.session = "out" => listener \in {"flags", "release"}

Sub(n) == journal[n].kind = "sub"
Last(n) == Sub(n) /\ journal[n].last
EndedBy(n, to) == \E m \in n .. to : Last(m)

(* The end of a batch was the last frame while it is dealt with. *)
AtEnd == listener \in {"check", "call"} => md.at > md.start /\ Last(md.at)

WasRead(n) == n \in (md.start + 1) .. md.at /\ Sub(n)

Remembered ==
  \A n \in Nat : WasRead(n) =>
    /\ journal[n].ticker \in subs.history
    /\ EndedBy(n, md.at) \/ journal[n].ticker \in subs.tickers

(* Whose task it still is to ask for a ticker *)
Cared(t) ==
  \/ t \in front.tickers \cup front.refused \cup torn
  \/ callback.at = "read"
  \/ callback.at = "call" /\ t \in callback.left
  \/ listener \in {"check", "call"} /\ t \in subs.tickers

Covered ==
  md.state = "listening" /\ front.session = "in" /\ listener \notin {"flags", "release"} =>
    \A n \in Nat : WasRead(n) /\ EndedBy(n, md.at) => Cared(journal[n].ticker)

MarketInv == MarketTypeOK /\ FlagsInv /\ InRange /\ Resting /\ SessionInv /\ AtEnd /\ Remembered /\ Covered

-----------------------------------------------------------------------------
(* Types *)

LEMMA FramesHaveParts ==
  ASSUME NEW f \in Frames
  PROVE  f.kind \in {"sub", "open", "close"} /\ f.last \in BOOLEAN /\ (f.kind = "sub" => f.ticker \in Tickers)
<1>1. CASE f \in [kind: {"sub"}, ticker: Tickers, last: BOOLEAN]
  BY <1>1
<1>2. CASE f \in [kind: {"open", "close"}, ticker: {None}, last: {TRUE}]
  BY <1>2
<1> QED
  BY <1>1, <1>2 DEF Frames

LEMMA NextIsFrame ==
  ASSUME MarketTypeOK, NEW kind, Polls(kind)
  PROVE  NextFrame \in Frames /\ NextFrame.last \in BOOLEAN /\ (NextFrame.kind = "sub" => NextFrame.ticker \in Tickers)
<1>1. journal[md.at + 1] \in Frames
  BY DEF MarketTypeOK, Polls, MdType
<1> QED
  BY <1>1, FramesHaveParts DEF NextFrame

LEMMA InitTypes == MarketInit => MarketTypeOK
<1> SUFFICES ASSUME MarketInit PROVE MarketTypeOK
  OBVIOUS
<1>1. md = [state |-> "starting", run |-> 1, start |-> 0, at |-> 0, api |-> TRUE, connected |-> FALSE, logged_in |-> FALSE]
  BY DEF MarketInit, Engine
<1>2. front = [link |-> "down", session |-> "none", tickers |-> {}, refused |-> {}, rejected |-> FALSE]
  BY DEF MarketInit, Away
<1>3. journal \in Seq(Frames)
  BY DEF MarketInit
<1>4. late \in BOOLEAN /\ torn \in SUBSET Tickers
  BY DEF MarketInit
<1>5. md \in MdType /\ front \in FrontType
  BY <1>1, <1>2 DEF MdType, FrontType
<1>6. subs \in [tickers: SUBSET Tickers, history: SUBSET Tickers] /\ callback \in [at: {"idle", "ask", "read", "call"}, left: SUBSET Tickers]
      /\ faults \in [losses: Nat, refusals: Nat] /\ listener = "poll"
  BY DEF MarketInit, NoSubs, Quiet
<1> QED
  BY <1>3, <1>4, <1>5, <1>6 DEF MarketTypeOK

(* A call of the API changes what the front has, and counts refusals. *)
LEMMA SubscribedTypes ==
  ASSUME MarketTypeOK, NEW wanted \in SUBSET Tickers, Subscribed(wanted)
  PROVE  /\ front' \in FrontType
         /\ faults' \in [losses: Nat, refusals: Nat]
         /\ front'.link = front.link /\ front'.session = front.session
         /\ front.tickers \cup front.refused \subseteq front'.tickers \cup front'.refused
         /\ front.session = "in" => wanted \subseteq front'.tickers \cup front'.refused
<1>1. CASE front.session = "in" /\ front' = [front EXCEPT !.tickers = @ \cup wanted, !.refused = @ \ wanted] /\ UNCHANGED faults
  BY <1>1 DEF MarketTypeOK, FrontType
<1>2. CASE front' = [front EXCEPT !.refused = @ \cup (wanted \ front.tickers)] /\ faults' = [faults EXCEPT !.refusals = @ + 1]
  <2>1. front'.tickers = front.tickers /\ front'.refused = front.refused \cup (wanted \ front.tickers)
    BY <1>2 DEF MarketTypeOK, FrontType
  <2>2. front' \in FrontType /\ front'.link = front.link /\ front'.session = front.session
    BY <1>2 DEF MarketTypeOK, FrontType
  <2>3. faults' \in [losses: Nat, refusals: Nat]
    BY <1>2 DEF MarketTypeOK
  <2> QED
    BY <2>1, <2>2, <2>3
<1>3. CASE front.session # "in" /\ UNCHANGED <<front, faults>>
  BY <1>3 DEF MarketTypeOK, FrontType
<1> QED
  BY <1>1, <1>2, <1>3 DEF Subscribed

(* A field that is set to a truth value *)
LEMMA RejectedType ==
  ASSUME NEW f, f \in FrontType, NEW g, g = [f EXCEPT !.rejected = TRUE]
  PROVE  g \in FrontType
BY DEF FrontType

LEMMA StepTypes ==
  ASSUME MarketTypeOK, [MarketNext]_marketVars
  PROVE  MarketTypeOK'
  <1>1. ASSUME NEW f \in Frames, Write(f) PROVE MarketTypeOK'
    BY <1>1 DEF Write, MarketTypeOK, MdType, FrontType
  <1>2. CASE StartEnds
    BY <1>2 DEF StartEnds, MarketTypeOK, MdType, FrontType
  <1>3. CASE EngineEnds
    <2>1. md' = [state |-> "down", run |-> md.run, start |-> 0, at |-> 0, api |-> FALSE, connected |-> FALSE, logged_in |-> FALSE]
      BY <1>3 DEF EngineEnds, Engine
    <2>2. front' = [link |-> "down", session |-> "none", tickers |-> {}, refused |-> {}, rejected |-> FALSE]
      BY <1>3 DEF EngineEnds, Away
    <2>3. md' \in MdType /\ front' \in FrontType
      BY <2>1, <2>2 DEF MarketTypeOK, MdType, FrontType
    <2>4. subs' \in [tickers: SUBSET Tickers, history: SUBSET Tickers]
          /\ callback' \in [at: {"idle", "ask", "read", "call"}, left: SUBSET Tickers]
      BY <1>3 DEF EngineEnds, NoSubs, Quiet
    <2> QED
      BY <1>3, <2>3, <2>4 DEF EngineEnds, MarketTypeOK
  <1>4. CASE EngineStarts
    BY <1>4 DEF EngineStarts, Engine, MarketTypeOK, MdType, FrontType
  <1>5. CASE ReadSub
    <2>1. NextFrame.ticker \in Tickers
      BY <1>5, NextIsFrame DEF ReadSub, Polls
    <2>2. subs' \in [tickers: SUBSET Tickers, history: SUBSET Tickers]
      BY <1>5, <2>1 DEF ReadSub, MarketTypeOK
    <2>3. md' \in MdType
      BY <1>5 DEF ReadSub, MarketTypeOK, MdType
    <2>4. listener' \in {"poll", "check"}
      BY <1>5 DEF ReadSub
    <2> QED
      BY <1>5, <2>2, <2>3, <2>4 DEF ReadSub, MarketTypeOK
  <1>6. CASE CheckLoggedIn
    BY <1>6 DEF CheckLoggedIn, MarketTypeOK, MdType, FrontType
  <1>7. CASE CallApi
    BY <1>7, SubscribedTypes DEF CallApi, MarketTypeOK, MdType, FrontType
  <1>8. CASE OpenEngine
    <2>1. md' = [state |-> md.state, run |-> md.run, start |-> md.start, at |-> md.at + 1,
                 api |-> md.api \/ (~md.logged_in /\ ~md.connected), connected |-> md.connected, logged_in |-> md.logged_in]
      BY <1>8 DEF OpenEngine, MarketTypeOK, MdType
    <2>2. (md.api \/ (~md.logged_in /\ ~md.connected)) \in BOOLEAN
      OBVIOUS
    <2>3. md' \in MdType
      BY <2>1, <2>2 DEF MarketTypeOK, MdType
    <2> QED
      BY <1>8, <2>3 DEF OpenEngine, MarketTypeOK
  <1>9. CASE OpenEnds
    BY <1>9 DEF OpenEnds, MarketTypeOK, MdType, FrontType
  <1>10. CASE PreRun
    BY <1>10, SubscribedTypes DEF PreRun, MarketTypeOK, MdType, FrontType
  <1>11. CASE CloseEngine
    <2>1. md' \in MdType
      BY <1>11 DEF CloseEngine, MarketTypeOK, MdType
    <2>2. front' \in FrontType
      BY <1>11 DEF CloseEngine, MarketTypeOK, FrontType
    <2>3. listener' \in {listener, "flags"}
      BY <1>11 DEF CloseEngine
    <2> QED
      BY <1>11, <2>1, <2>2, <2>3 DEF CloseEngine, MarketTypeOK
  <1>12. CASE CloseFlags
    BY <1>12 DEF CloseFlags, MarketTypeOK, MdType, FrontType
  <1>13. CASE ReleaseApi
    BY <1>13 DEF ReleaseApi, Away, MarketTypeOK, MdType, FrontType
  <1>14. CASE OnFrontConnected
    BY <1>14 DEF OnFrontConnected, Calls, Quiet, MarketTypeOK, MdType, FrontType
  <1>15. CASE AskLogin
    <2>1. CASE front' = [front EXCEPT !.session = "asked"] /\ UNCHANGED faults
      BY <1>15, <2>1 DEF AskLogin, Quiet, MarketTypeOK, FrontType
    <2>2. CASE front' = [front EXCEPT !.rejected = TRUE] /\ faults' = [faults EXCEPT !.refusals = @ + 1]
      <3>1. front' \in FrontType
        BY <2>2, RejectedType DEF MarketTypeOK
      <3> QED
        BY <1>15, <2>2, <3>1 DEF AskLogin, Quiet, MarketTypeOK
    <2>3. CASE UNCHANGED <<front, faults>>
      BY <1>15, <2>3 DEF AskLogin, Quiet, MarketTypeOK
    <2> QED
      BY <1>15, <2>1, <2>2, <2>3 DEF AskLogin
  <1>16. CASE LoseConnection
    <2>1. front' = [link |-> "lost", session |-> "none", tickers |-> {}, refused |-> {}, rejected |-> FALSE]
      BY <1>16 DEF LoseConnection, Away
    <2>2. front' \in FrontType
      BY <2>1 DEF FrontType
    <2>3. faults' \in [losses: Nat, refusals: Nat]
      BY <1>16 DEF LoseConnection, MarketTypeOK
    <2> QED
      BY <1>16, <2>2, <2>3 DEF LoseConnection, MarketTypeOK
  <1>17. CASE OnFrontDisconnected
    BY <1>17 DEF OnFrontDisconnected, Calls, MarketTypeOK, MdType, FrontType
  <1>18. CASE OnRspUserLogin
    <2>1. late' \in BOOLEAN
      BY <1>18 DEF OnRspUserLogin, MarketTypeOK
    <2>2. CASE callback' = [Quiet EXCEPT !.at = "read"] /\ md' = [md EXCEPT !.logged_in = TRUE]
                 /\ front' = [front EXCEPT !.session = "in"] /\ UNCHANGED faults
      BY <1>18, <2>1, <2>2 DEF OnRspUserLogin, Quiet, MarketTypeOK, MdType, FrontType
    <2>3. CASE front' = [front EXCEPT !.session = "none", !.rejected = TRUE]
                 /\ faults' = [faults EXCEPT !.refusals = @ + 1] /\ UNCHANGED <<md, callback, late>>
      <3>1. [front EXCEPT !.session = "none"] \in FrontType
        BY DEF MarketTypeOK, FrontType
      <3>2. front' = [[front EXCEPT !.session = "none"] EXCEPT !.rejected = TRUE]
        BY <2>3
      <3>3. front' \in FrontType
        BY <3>1, <3>2, RejectedType
      <3> QED
        BY <1>18, <2>3, <3>3 DEF OnRspUserLogin, MarketTypeOK
    <2> QED
      BY <1>18, <2>2, <2>3 DEF OnRspUserLogin
  <1>19. CASE ReadHistory
    BY <1>19 DEF ReadHistory, Quiet, MarketTypeOK, MdType, FrontType
  <1>20. CASE CallHistory
    BY <1>20, SubscribedTypes DEF CallHistory, Quiet, MarketTypeOK, MdType, FrontType
  <1>21. CASE OnRspUserLogout
    <2>1. CASE front' = [front EXCEPT !.session = "none", !.tickers = {}, !.refused = {}] /\ md' = [md EXCEPT !.logged_in = FALSE] /\ UNCHANGED faults
      BY <1>21, <2>1 DEF OnRspUserLogout, Calls, MarketTypeOK, MdType, FrontType
    <2>2. CASE front' = [front EXCEPT !.session = "in"] /\ faults' = [faults EXCEPT !.refusals = @ + 1] /\ UNCHANGED md
      <3>1. front' \in FrontType
        BY <2>2 DEF MarketTypeOK, FrontType
      <3>2. faults' \in [losses: Nat, refusals: Nat]
        BY <2>2 DEF MarketTypeOK
      <3> QED
        BY <1>21, <2>2, <3>1, <3>2 DEF OnRspUserLogout, MarketTypeOK
    <2> QED
      BY <1>21, <2>1, <2>2 DEF OnRspUserLogout
  <1>22. CASE UNCHANGED marketVars
    BY <1>22 DEF marketVars, MarketTypeOK, MdType, FrontType
  <1> QED
    BY <1>1, <1>2, <1>3, <1>4, <1>5, <1>6, <1>7, <1>8, <1>9, <1>10, <1>11, <1>12, <1>13, <1>14, <1>15, <1>16, <1>17, <1>18, <1>19, <1>20, <1>21, <1>22 DEF MarketNext, Listening, Callbacks

-----------------------------------------------------------------------------
(* The flags *)

LEMMA StepFlags ==
  ASSUME MarketTypeOK, FlagsInv, [MarketNext]_marketVars
  PROVE  FlagsInv'
  <1>1. ASSUME NEW f \in Frames, Write(f) PROVE FlagsInv'
    BY <1>1 DEF Write, MarketTypeOK, MdType, FrontType, FlagsInv, LoggedInHasApi
  <1>2. CASE StartEnds
    BY <1>2 DEF StartEnds, MarketTypeOK, MdType, FrontType, FlagsInv, LoggedInHasApi
  <1>3. CASE EngineEnds
    BY <1>3 DEF EngineEnds, Engine, NoSubs, Quiet, Away, MarketTypeOK, MdType, FrontType, FlagsInv, LoggedInHasApi
  <1>4. CASE EngineStarts
    BY <1>4 DEF EngineStarts, Engine, MarketTypeOK, MdType, FrontType, FlagsInv, LoggedInHasApi
  <1>5. CASE ReadSub
    BY <1>5 DEF ReadSub, Polls, MarketTypeOK, MdType, FrontType, FlagsInv, LoggedInHasApi
  <1>6. CASE CheckLoggedIn
    BY <1>6 DEF CheckLoggedIn, MarketTypeOK, MdType, FrontType, FlagsInv, LoggedInHasApi
  <1>7. CASE CallApi
    BY <1>7 DEF CallApi, MarketTypeOK, MdType, FrontType, FlagsInv, LoggedInHasApi
  <1>8. CASE OpenEngine
    BY <1>8 DEF OpenEngine, Polls, MarketTypeOK, MdType, FrontType, FlagsInv, LoggedInHasApi
  <1>9. CASE OpenEnds
    BY <1>9 DEF OpenEnds, MarketTypeOK, MdType, FrontType, FlagsInv, LoggedInHasApi
  <1>10. CASE PreRun
    BY <1>10 DEF PreRun, MarketTypeOK, MdType, FrontType, FlagsInv, LoggedInHasApi
  <1>11. CASE CloseEngine
    BY <1>11 DEF CloseEngine, Polls, MarketTypeOK, MdType, FrontType, FlagsInv, LoggedInHasApi
  <1>12. CASE CloseFlags
    BY <1>12 DEF CloseFlags, MarketTypeOK, MdType, FrontType, FlagsInv, LoggedInHasApi
  <1>13. CASE ReleaseApi
    BY <1>13 DEF ReleaseApi, Away, MarketTypeOK, MdType, FrontType, FlagsInv, LoggedInHasApi
  <1>14. CASE OnFrontConnected
    BY <1>14 DEF OnFrontConnected, Calls, Quiet, MarketTypeOK, MdType, FrontType, FlagsInv, LoggedInHasApi
  <1>15. CASE AskLogin
    BY <1>15 DEF AskLogin, Quiet, MarketTypeOK, MdType, FrontType, FlagsInv, LoggedInHasApi
  <1>16. CASE LoseConnection
    BY <1>16 DEF LoseConnection, Away, MarketTypeOK, MdType, FrontType, FlagsInv, LoggedInHasApi
  <1>17. CASE OnFrontDisconnected
    BY <1>17 DEF OnFrontDisconnected, Calls, MarketTypeOK, MdType, FrontType, FlagsInv, LoggedInHasApi
  <1>18. CASE OnRspUserLogin
    BY <1>18 DEF OnRspUserLogin, Calls, Quiet, MarketTypeOK, MdType, FrontType, FlagsInv, LoggedInHasApi
  <1>19. CASE ReadHistory
    BY <1>19 DEF ReadHistory, Quiet, MarketTypeOK, MdType, FrontType, FlagsInv, LoggedInHasApi
  <1>20. CASE CallHistory
    BY <1>20 DEF CallHistory, MarketTypeOK, MdType, FrontType, FlagsInv, LoggedInHasApi
  <1>21. CASE OnRspUserLogout
    BY <1>21 DEF OnRspUserLogout, Calls, MarketTypeOK, MdType, FrontType, FlagsInv, LoggedInHasApi
  <1>22. CASE UNCHANGED marketVars
    BY <1>22 DEF marketVars, MarketTypeOK, MdType, FrontType, FlagsInv, LoggedInHasApi
  <1> QED
    BY <1>1, <1>2, <1>3, <1>4, <1>5, <1>6, <1>7, <1>8, <1>9, <1>10, <1>11, <1>12, <1>13, <1>14, <1>15, <1>16, <1>17, <1>18, <1>19, <1>20, <1>21, <1>22 DEF MarketNext, Listening, Callbacks

-----------------------------------------------------------------------------
(* Where the reader, the threads and the session are *)

LEMMA InitRest == MarketInit => InRange /\ Resting /\ SessionInv
BY BoundsAssumption DEF MarketInit, InRange, Resting, SessionInv, Engine, NoSubs, Quiet, Away

LEMMA StepRange ==
  ASSUME MarketTypeOK, InRange, [MarketNext]_marketVars
  PROVE  InRange'
  <1>1. ASSUME NEW f \in Frames, Write(f) PROVE InRange'
    BY <1>1 DEF Write, MarketTypeOK, MdType, FrontType, InRange
  <1>2. CASE StartEnds
    BY <1>2 DEF StartEnds, MarketTypeOK, MdType, FrontType, InRange
  <1>3. CASE EngineEnds
    BY <1>3 DEF EngineEnds, Engine, NoSubs, Quiet, Away, MarketTypeOK, MdType, FrontType, InRange
  <1>4. CASE EngineStarts
    BY <1>4 DEF EngineStarts, Engine, MarketTypeOK, MdType, FrontType, InRange
  <1>5. CASE ReadSub
    BY <1>5 DEF ReadSub, Polls, MarketTypeOK, MdType, FrontType, InRange
  <1>6. CASE CheckLoggedIn
    BY <1>6 DEF CheckLoggedIn, MarketTypeOK, MdType, FrontType, InRange
  <1>7. CASE CallApi
    BY <1>7 DEF CallApi, MarketTypeOK, MdType, FrontType, InRange
  <1>8. CASE OpenEngine
    BY <1>8 DEF OpenEngine, Polls, MarketTypeOK, MdType, FrontType, InRange
  <1>9. CASE OpenEnds
    BY <1>9 DEF OpenEnds, MarketTypeOK, MdType, FrontType, InRange
  <1>10. CASE PreRun
    BY <1>10 DEF PreRun, MarketTypeOK, MdType, FrontType, InRange
  <1>11. CASE CloseEngine
    BY <1>11 DEF CloseEngine, Polls, MarketTypeOK, MdType, FrontType, InRange
  <1>12. CASE CloseFlags
    BY <1>12 DEF CloseFlags, MarketTypeOK, MdType, FrontType, InRange
  <1>13. CASE ReleaseApi
    BY <1>13 DEF ReleaseApi, Away, MarketTypeOK, MdType, FrontType, InRange
  <1>14. CASE OnFrontConnected
    BY <1>14 DEF OnFrontConnected, Calls, Quiet, MarketTypeOK, MdType, FrontType, InRange
  <1>15. CASE AskLogin
    BY <1>15 DEF AskLogin, Quiet, MarketTypeOK, MdType, FrontType, InRange
  <1>16. CASE LoseConnection
    BY <1>16 DEF LoseConnection, Away, MarketTypeOK, MdType, FrontType, InRange
  <1>17. CASE OnFrontDisconnected
    BY <1>17 DEF OnFrontDisconnected, Calls, MarketTypeOK, MdType, FrontType, InRange
  <1>18. CASE OnRspUserLogin
    BY <1>18 DEF OnRspUserLogin, Calls, Quiet, MarketTypeOK, MdType, FrontType, InRange
  <1>19. CASE ReadHistory
    BY <1>19 DEF ReadHistory, Quiet, MarketTypeOK, MdType, FrontType, InRange
  <1>20. CASE CallHistory
    BY <1>20 DEF CallHistory, MarketTypeOK, MdType, FrontType, InRange
  <1>21. CASE OnRspUserLogout
    BY <1>21 DEF OnRspUserLogout, Calls, MarketTypeOK, MdType, FrontType, InRange
  <1>22. CASE UNCHANGED marketVars
    BY <1>22 DEF marketVars, MarketTypeOK, MdType, FrontType, InRange
  <1> QED
    BY <1>1, <1>2, <1>3, <1>4, <1>5, <1>6, <1>7, <1>8, <1>9, <1>10, <1>11, <1>12, <1>13, <1>14, <1>15, <1>16, <1>17, <1>18, <1>19, <1>20, <1>21, <1>22 DEF MarketNext, Listening, Callbacks

LEMMA StepResting ==
  ASSUME MarketTypeOK, Resting, [MarketNext]_marketVars
  PROVE  Resting'
  <1>1. ASSUME NEW f \in Frames, Write(f) PROVE Resting'
    BY <1>1 DEF Write, MarketTypeOK, MdType, FrontType, Resting, Away, Quiet, NoSubs
  <1>2. CASE StartEnds
    BY <1>2 DEF StartEnds, MarketTypeOK, MdType, FrontType, Resting, Away, Quiet, NoSubs
  <1>3. CASE EngineEnds
    BY <1>3 DEF EngineEnds, Engine, MarketTypeOK, MdType, FrontType, Resting, Away, Quiet, NoSubs
  <1>4. CASE EngineStarts
    BY <1>4 DEF EngineStarts, Engine, MarketTypeOK, MdType, FrontType, Resting, Away, Quiet, NoSubs
  <1>5. CASE ReadSub
    BY <1>5 DEF ReadSub, Polls, MarketTypeOK, MdType, FrontType, Resting, Away, Quiet, NoSubs
  <1>6. CASE CheckLoggedIn
    BY <1>6 DEF CheckLoggedIn, MarketTypeOK, MdType, FrontType, Resting, Away, Quiet, NoSubs
  <1>7. CASE CallApi
    BY <1>7, SubscribedTypes DEF CallApi, MarketTypeOK, MdType, FrontType, Resting, Away, Quiet, NoSubs
  <1>8. CASE OpenEngine
    BY <1>8 DEF OpenEngine, Polls, MarketTypeOK, MdType, FrontType, Resting, Away, Quiet, NoSubs
  <1>9. CASE OpenEnds
    BY <1>9 DEF OpenEnds, MarketTypeOK, MdType, FrontType, Resting, Away, Quiet, NoSubs
  <1>10. CASE PreRun
    BY <1>10, SubscribedTypes DEF PreRun, MarketTypeOK, MdType, FrontType, Resting, Away, Quiet, NoSubs
  <1>11. CASE CloseEngine
    BY <1>11 DEF CloseEngine, Polls, MarketTypeOK, MdType, FrontType, Resting, Away, Quiet, NoSubs
  <1>12. CASE CloseFlags
    BY <1>12 DEF CloseFlags, MarketTypeOK, MdType, FrontType, Resting, Away, Quiet, NoSubs
  <1>13. CASE ReleaseApi
    BY <1>13 DEF ReleaseApi, MarketTypeOK, MdType, FrontType, Resting, Away, Quiet, NoSubs
  <1>14. CASE OnFrontConnected
    BY <1>14 DEF OnFrontConnected, Calls, MarketTypeOK, MdType, FrontType, Resting, Away, Quiet, NoSubs
  <1>15. CASE AskLogin
    BY <1>15 DEF AskLogin, MarketTypeOK, MdType, FrontType, Resting, Away, Quiet, NoSubs
  <1>16. CASE LoseConnection
    BY <1>16 DEF LoseConnection, MarketTypeOK, MdType, FrontType, Resting, Away, Quiet, NoSubs
  <1>17. CASE OnFrontDisconnected
    BY <1>17 DEF OnFrontDisconnected, Calls, MarketTypeOK, MdType, FrontType, Resting, Away, Quiet, NoSubs
  <1>18. CASE OnRspUserLogin
    BY <1>18 DEF OnRspUserLogin, Calls, MarketTypeOK, MdType, FrontType, Resting, Away, Quiet, NoSubs
  <1>19. CASE ReadHistory
    BY <1>19 DEF ReadHistory, MarketTypeOK, MdType, FrontType, Resting, Away, Quiet, NoSubs
  <1>20. CASE CallHistory
    BY <1>20, SubscribedTypes DEF CallHistory, MarketTypeOK, MdType, FrontType, Resting, Away, Quiet, NoSubs
  <1>21. CASE OnRspUserLogout
    BY <1>21 DEF OnRspUserLogout, Calls, MarketTypeOK, MdType, FrontType, Resting, Away, Quiet, NoSubs
  <1>22. CASE UNCHANGED marketVars
    BY <1>22 DEF marketVars, MarketTypeOK, MdType, FrontType, Resting, Away, Quiet, NoSubs
  <1> QED
    BY <1>1, <1>2, <1>3, <1>4, <1>5, <1>6, <1>7, <1>8, <1>9, <1>10, <1>11, <1>12, <1>13, <1>14, <1>15, <1>16, <1>17, <1>18, <1>19, <1>20, <1>21, <1>22 DEF MarketNext, Listening, Callbacks

LEMMA StepSession ==
  ASSUME MarketTypeOK, Resting, SessionInv, [MarketNext]_marketVars
  PROVE  SessionInv'
  <1>1. ASSUME NEW f \in Frames, Write(f) PROVE SessionInv'
    BY <1>1 DEF Write, MarketTypeOK, MdType, FrontType, SessionInv
  <1>2. CASE StartEnds
    BY <1>2 DEF StartEnds, MarketTypeOK, MdType, FrontType, SessionInv
  <1>3. CASE EngineEnds
    BY <1>3 DEF EngineEnds, Engine, NoSubs, Quiet, Away, MarketTypeOK, MdType, FrontType, SessionInv
  <1>4. CASE EngineStarts
    BY <1>4 DEF EngineStarts, Engine, MarketTypeOK, MdType, FrontType, SessionInv, Resting, Away
  <1>5. CASE ReadSub
    BY <1>5 DEF ReadSub, Polls, MarketTypeOK, MdType, FrontType, SessionInv
  <1>6. CASE CheckLoggedIn
    BY <1>6 DEF CheckLoggedIn, MarketTypeOK, MdType, FrontType, SessionInv
  <1>7. CASE CallApi
    BY <1>7, SubscribedTypes DEF CallApi, MarketTypeOK, MdType, FrontType, SessionInv
  <1>8. CASE OpenEngine
    BY <1>8 DEF OpenEngine, Polls, MarketTypeOK, MdType, FrontType, SessionInv
  <1>9. CASE OpenEnds
    BY <1>9 DEF OpenEnds, MarketTypeOK, MdType, FrontType, SessionInv
  <1>10. CASE PreRun
    BY <1>10, SubscribedTypes DEF PreRun, MarketTypeOK, MdType, FrontType, SessionInv
  <1>11. CASE CloseEngine
    BY <1>11 DEF CloseEngine, Polls, MarketTypeOK, MdType, FrontType, SessionInv
  <1>12. CASE CloseFlags
    BY <1>12 DEF CloseFlags, MarketTypeOK, MdType, FrontType, SessionInv
  <1>13. CASE ReleaseApi
    BY <1>13 DEF ReleaseApi, Away, MarketTypeOK, MdType, FrontType, SessionInv
  <1>14. CASE OnFrontConnected
    BY <1>14 DEF OnFrontConnected, Calls, Quiet, MarketTypeOK, MdType, FrontType, SessionInv
  <1>15. CASE AskLogin
    BY <1>15 DEF AskLogin, Quiet, MarketTypeOK, MdType, FrontType, SessionInv
  <1>16. CASE LoseConnection
    BY <1>16 DEF LoseConnection, Away, MarketTypeOK, MdType, FrontType, SessionInv
  <1>17. CASE OnFrontDisconnected
    BY <1>17 DEF OnFrontDisconnected, Calls, MarketTypeOK, MdType, FrontType, SessionInv
  <1>18. CASE OnRspUserLogin
    BY <1>18 DEF OnRspUserLogin, Calls, Quiet, MarketTypeOK, MdType, FrontType, SessionInv
  <1>19. CASE ReadHistory
    BY <1>19 DEF ReadHistory, Quiet, MarketTypeOK, MdType, FrontType, SessionInv
  <1>20. CASE CallHistory
    BY <1>20, SubscribedTypes DEF CallHistory, Quiet, MarketTypeOK, MdType, FrontType, SessionInv
  <1>21. CASE OnRspUserLogout
    <2>1. CASE front' = [front EXCEPT !.session = "none", !.tickers = {}, !.refused = {}] /\ md' = [md EXCEPT !.logged_in = FALSE] /\ UNCHANGED faults
      BY <1>21, <2>1 DEF OnRspUserLogout, Calls, MarketTypeOK, MdType, FrontType, SessionInv
    <2>2. CASE front' = [front EXCEPT !.session = "in"] /\ faults' = [faults EXCEPT !.refusals = @ + 1] /\ UNCHANGED md
      BY <1>21, <2>2 DEF OnRspUserLogout, Calls, MarketTypeOK, MdType, FrontType, SessionInv
    <2> QED
      BY <1>21, <2>1, <2>2 DEF OnRspUserLogout
  <1>22. CASE UNCHANGED marketVars
    BY <1>22 DEF marketVars, MarketTypeOK, MdType, FrontType, SessionInv
  <1> QED
    BY <1>1, <1>2, <1>3, <1>4, <1>5, <1>6, <1>7, <1>8, <1>9, <1>10, <1>11, <1>12, <1>13, <1>14, <1>15, <1>16, <1>17, <1>18, <1>19, <1>20, <1>21, <1>22 DEF MarketNext, Listening, Callbacks

-----------------------------------------------------------------------------
(* What a step does to the frames that were read *)

LEMMA WriteKeeps ==
  ASSUME MarketTypeOK, InRange, NEW f \in Frames, Write(f), NEW n \in Nat
  PROVE  /\ WasRead(n)' <=> WasRead(n)
         /\ WasRead(n) => journal'[n] = journal[n] /\ (EndedBy(n, md.at)' <=> EndedBy(n, md.at))
<1>1. md' = md /\ journal' = Append(journal, f)
  BY DEF Write
<1>2. /\ md.at \in Nat /\ md.start \in Nat /\ Len(journal) \in Nat
      /\ md.at <= Len(journal)
  BY DEF MarketTypeOK, MdType, InRange
<1>3. \A m \in 1 .. md.at : journal'[m] = journal[m]
  BY <1>1, <1>2 DEF MarketTypeOK
<1>4. WasRead(n)' <=> WasRead(n)
  <2>1. CASE n \in (md.start + 1) .. md.at
    BY <1>1, <1>2, <1>3, <2>1 DEF WasRead, Sub
  <2>2. CASE n \notin (md.start + 1) .. md.at
    BY <1>1, <2>2 DEF WasRead
  <2> QED
    BY <2>1, <2>2
<1>5. ASSUME WasRead(n) PROVE EndedBy(n, md.at)' <=> EndedBy(n, md.at)
  <2>1. \A m \in n .. md.at : m \in 1 .. md.at
    BY <1>2, <1>5 DEF WasRead
  <2>2. \A m \in n .. md.at : Last(m)' <=> Last(m)
    BY <1>3, <2>1 DEF Last, Sub
  <2> QED
    BY <1>1, <2>2 DEF EndedBy
<1>6. WasRead(n) => journal'[n] = journal[n]
  BY <1>2, <1>3 DEF WasRead
<1> QED
  BY <1>4, <1>5, <1>6

LEMMA CommandKeeps ==
  ASSUME MarketTypeOK, InRange, NEW kind, kind # "sub", Polls(kind), NEW n \in Nat,
         journal' = journal, md'.start = md.start, md'.at = md.at + 1
  PROVE  /\ WasRead(n)' <=> WasRead(n)
         /\ WasRead(n) => (EndedBy(n, md.at)' <=> EndedBy(n, md.at))
<1>1. ~Sub(md.at + 1) /\ ~Last(md.at + 1)
  BY DEF Polls, NextFrame, Sub, Last
<1>2. md.at \in Nat /\ md.start \in Nat /\ md.start <= md.at
  BY DEF MarketTypeOK, MdType, InRange
<1>3. WasRead(n)' <=> WasRead(n)
  BY <1>1, <1>2 DEF WasRead, Sub
<1>4. ASSUME WasRead(n) PROVE EndedBy(n, md.at)' <=> EndedBy(n, md.at)
  <2>1. \A m \in n .. (md.at + 1) : m = md.at + 1 \/ m \in n .. md.at
    BY <1>2
  <2>2. \A m : Last(m)' <=> Last(m)
    BY DEF Last, Sub
  <2>3. EndedBy(n, md.at)' <=> \E m \in n .. (md.at + 1) : Last(m)
    BY <2>2 DEF EndedBy
  <2>4. \A m \in n .. md.at : m \in n .. (md.at + 1)
    BY <1>2
  <2> QED
    BY <1>1, <2>1, <2>3, <2>4 DEF EndedBy
<1> QED
  BY <1>3, <1>4

LEMMA SubReads ==
  ASSUME MarketTypeOK, InRange, ReadSub, NEW n \in Nat
  PROVE  /\ WasRead(n)' => WasRead(n) \/ n = md.at + 1
         /\ EndedBy(n, md.at) => EndedBy(n, md.at)'
         /\ EndedBy(n, md.at)' => EndedBy(n, md.at) \/ NextFrame.last
<1>1. journal' = journal /\ md'.start = md.start /\ md'.at = md.at + 1
  BY DEF ReadSub, MarketTypeOK, MdType
<1>2. md.at \in Nat /\ md.start \in Nat /\ md.start <= md.at
  BY DEF MarketTypeOK, MdType, InRange
<1>3. WasRead(n)' => WasRead(n) \/ n = md.at + 1
  BY <1>1, <1>2 DEF WasRead, Sub
<1>4. EndedBy(n, md.at)' <=> \E m \in n .. (md.at + 1) : Last(m)
  BY <1>1 DEF EndedBy, Last, Sub
<1>5. \A m \in n .. md.at : m \in n .. (md.at + 1)
  BY <1>2
<1>6. \A m \in n .. (md.at + 1) : m = md.at + 1 \/ m \in n .. md.at
  BY <1>2
<1>7. Last(md.at + 1) => NextFrame.last
  BY DEF Last, NextFrame
<1> QED
  BY <1>3, <1>4, <1>5, <1>6, <1>7 DEF EndedBy

(* A step that reads nothing *)
LEMMA NothingRead ==
  ASSUME journal' = journal, md'.start = md.start, md'.at = md.at
  PROVE  \A n : (WasRead(n)' <=> WasRead(n)) /\ (EndedBy(n, md.at)' <=> EndedBy(n, md.at))
BY DEF WasRead, EndedBy, Last, Sub

(* Nothing was read where the reader has just begun. *)
LEMMA NothingYet ==
  ASSUME md.at = md.start, md.at \in Nat
  PROVE  \A n \in Nat : ~WasRead(n)
BY DEF WasRead

-----------------------------------------------------------------------------
(* The end of a batch *)

LEMMA StepAtEnd ==
  ASSUME MarketTypeOK, InRange, Resting, AtEnd, [MarketNext]_marketVars
  PROVE  AtEnd'
  <1>1. ASSUME NEW f \in Frames, Write(f) PROVE AtEnd'
    <2>1. journal' = Append(journal, f) /\ md' = md /\ listener' = listener
      BY <1>1 DEF Write
    <2>2. md.at > md.start => journal'[md.at] = journal[md.at]
      BY <2>1 DEF MarketTypeOK, MdType, InRange
    <2> QED
      BY <2>1, <2>2 DEF AtEnd, Last, Sub
  <1>2. CASE StartEnds
    BY <1>2 DEF StartEnds, Polls, Engine, MarketTypeOK, MdType, AtEnd, Last, Sub
  <1>3. CASE EngineEnds
    BY <1>3 DEF EngineEnds, AtEnd
  <1>4. CASE EngineStarts
    BY <1>4 DEF EngineStarts, Resting, AtEnd
  <1>5. CASE ReadSub
    <2>1. journal' = journal /\ md'.start = md.start /\ md'.at = md.at + 1
      BY <1>5 DEF ReadSub, MarketTypeOK, MdType
    <2>2. md.at \in Nat /\ md.start \in Nat /\ md.start <= md.at
      BY DEF MarketTypeOK, MdType, InRange
    <2>3. listener' \in {"check", "call"} => Last(md.at + 1)
      BY <1>5 DEF ReadSub, Polls, Last, Sub, NextFrame
    <2> QED
      BY <2>1, <2>2, <2>3 DEF AtEnd, Last, Sub
  <1>6. CASE CheckLoggedIn
    BY <1>6 DEF CheckLoggedIn, Polls, Engine, MarketTypeOK, MdType, AtEnd, Last, Sub
  <1>7. CASE CallApi
    BY <1>7 DEF CallApi, Polls, Engine, MarketTypeOK, MdType, AtEnd, Last, Sub
  <1>8. CASE OpenEngine
    BY <1>8 DEF OpenEngine, Polls, Engine, MarketTypeOK, MdType, AtEnd, Last, Sub
  <1>9. CASE OpenEnds
    BY <1>9 DEF OpenEnds, Polls, Engine, MarketTypeOK, MdType, AtEnd, Last, Sub
  <1>10. CASE PreRun
    BY <1>10 DEF PreRun, Polls, Engine, MarketTypeOK, MdType, AtEnd, Last, Sub
  <1>11. CASE CloseEngine
    BY <1>11 DEF CloseEngine, Polls, Engine, MarketTypeOK, MdType, AtEnd, Last, Sub
  <1>12. CASE CloseFlags
    BY <1>12 DEF CloseFlags, Polls, Engine, MarketTypeOK, MdType, AtEnd, Last, Sub
  <1>13. CASE ReleaseApi
    BY <1>13 DEF ReleaseApi, Polls, Engine, MarketTypeOK, MdType, AtEnd, Last, Sub
  <1>14. CASE OnFrontConnected
    BY <1>14 DEF OnFrontConnected, Polls, Engine, MarketTypeOK, MdType, AtEnd, Last, Sub
  <1>15. CASE AskLogin
    BY <1>15 DEF AskLogin, Polls, Engine, MarketTypeOK, MdType, AtEnd, Last, Sub
  <1>16. CASE LoseConnection
    BY <1>16 DEF LoseConnection, Polls, Engine, MarketTypeOK, MdType, AtEnd, Last, Sub
  <1>17. CASE OnFrontDisconnected
    BY <1>17 DEF OnFrontDisconnected, Polls, Engine, MarketTypeOK, MdType, AtEnd, Last, Sub
  <1>18. CASE OnRspUserLogin
    BY <1>18 DEF OnRspUserLogin, Polls, Engine, MarketTypeOK, MdType, AtEnd, Last, Sub
  <1>19. CASE ReadHistory
    BY <1>19 DEF ReadHistory, Polls, Engine, MarketTypeOK, MdType, AtEnd, Last, Sub
  <1>20. CASE CallHistory
    BY <1>20 DEF CallHistory, Polls, Engine, MarketTypeOK, MdType, AtEnd, Last, Sub
  <1>21. CASE OnRspUserLogout
    BY <1>21 DEF OnRspUserLogout, Polls, Engine, MarketTypeOK, MdType, AtEnd, Last, Sub
  <1>22. CASE UNCHANGED marketVars
    BY <1>22 DEF marketVars, AtEnd, Last, Sub
  <1> QED
    BY <1>1, <1>2, <1>3, <1>4, <1>5, <1>6, <1>7, <1>8, <1>9, <1>10, <1>11, <1>12, <1>13, <1>14, <1>15, <1>16, <1>17, <1>18, <1>19, <1>20, <1>21, <1>22 DEF MarketNext, Listening, Callbacks

(* Every ticker that was read is remembered, and waits until its batch ends. *)
LEMMA StepRemembered ==
  ASSUME MarketTypeOK, InRange, AtEnd, Remembered, [MarketNext]_marketVars
  PROVE  Remembered'
  <1>1. ASSUME NEW f \in Frames, Write(f) PROVE Remembered'
    <2>1. md' = md /\ subs' = subs
      BY <1>1 DEF Write
    <2> QED
      BY <1>1, <2>1, WriteKeeps DEF Remembered
  <1>2. CASE StartEnds
    <2>1. journal' = journal /\ md'.start = md.start /\ md'.at = md.at /\ subs' = subs
      BY <1>2 DEF StartEnds, MarketTypeOK, MdType
    <2> QED
      BY <2>1, NothingRead DEF Remembered
  <1>3. CASE EngineEnds
    <2>1. md'.at = md'.start /\ md'.at \in Nat
      BY <1>3 DEF EngineEnds, Engine, MarketTypeOK, MdType
    <2> QED
      BY <2>1 DEF Remembered, WasRead
  <1>4. CASE EngineStarts
    <2>1. md'.at = md'.start /\ md'.at \in Nat
      BY <1>4 DEF EngineStarts, Engine, MarketTypeOK, MdType
    <2> QED
      BY <2>1 DEF Remembered, WasRead
  <1>5. CASE ReadSub
    <2> SUFFICES ASSUME NEW n \in Nat, WasRead(n)'
                 PROVE  /\ (journal[n].ticker \in subs.history)'
                        /\ EndedBy(n, md.at)' \/ (journal[n].ticker \in subs.tickers)'
      BY DEF Remembered
    <2>1. journal' = journal /\ subs'.tickers = subs.tickers \cup {NextFrame.ticker} /\ subs'.history = subs.history \cup {NextFrame.ticker}
      BY <1>5 DEF ReadSub
    <2>2. CASE n = md.at + 1
      BY <2>1, <2>2 DEF NextFrame
    <2>3. CASE WasRead(n)
      BY <1>5, <2>1, <2>3, SubReads DEF Remembered
    <2> QED
      BY <1>5, <2>2, <2>3, SubReads
  <1>6. CASE CheckLoggedIn
    <2>1. journal' = journal /\ md'.start = md.start /\ md'.at = md.at /\ subs' = subs
      BY <1>6 DEF CheckLoggedIn, MarketTypeOK, MdType
    <2> QED
      BY <2>1, NothingRead DEF Remembered
  <1>7. CASE CallApi
    <2>1. journal' = journal /\ md'.start = md.start /\ md'.at = md.at /\ subs'.history = subs.history
      BY <1>7 DEF CallApi, MarketTypeOK, MdType
    <2>2. Last(md.at) /\ md.at \in Nat
      BY <1>7 DEF CallApi, AtEnd, MarketTypeOK, MdType
    <2>3. \A n \in Nat : WasRead(n) => EndedBy(n, md.at)
      BY <2>2 DEF WasRead, EndedBy, MarketTypeOK, MdType
    <2> QED
      BY <2>1, <2>3, NothingRead DEF Remembered
  <1>8. CASE OpenEngine
    <2>1. journal' = journal /\ md'.start = md.start /\ md'.at = md.at + 1 /\ subs' = subs
      BY <1>8 DEF OpenEngine, MarketTypeOK, MdType
    <2>2. Polls("open")
      BY <1>8 DEF OpenEngine
    <2> QED
      BY <2>1, <2>2, CommandKeeps DEF Remembered
  <1>9. CASE OpenEnds
    <2>1. journal' = journal /\ md'.start = md.start /\ md'.at = md.at /\ subs' = subs
      BY <1>9 DEF OpenEnds, MarketTypeOK, MdType
    <2> QED
      BY <2>1, NothingRead DEF Remembered
  <1>10. CASE PreRun
    <2>1. journal' = journal /\ md'.start = md.start /\ md'.at = md.at /\ subs' = subs
      BY <1>10 DEF PreRun, MarketTypeOK, MdType
    <2> QED
      BY <2>1, NothingRead DEF Remembered
  <1>11. CASE CloseEngine
    <2>1. journal' = journal /\ md'.start = md.start /\ subs' = subs /\ Polls("close")
      BY <1>11 DEF CloseEngine, MarketTypeOK, MdType
    <2>2. CASE md'.at = md.at + 1
      BY <2>1, <2>2, CommandKeeps DEF Remembered
    <2>3. CASE md'.at = md.at
      BY <2>1, <2>3, NothingRead DEF Remembered
    <2> QED
      BY <1>11, <2>2, <2>3 DEF CloseEngine, MarketTypeOK, MdType
  <1>12. CASE CloseFlags
    <2>1. journal' = journal /\ md'.start = md.start /\ md'.at = md.at /\ subs' = subs
      BY <1>12 DEF CloseFlags, MarketTypeOK, MdType
    <2> QED
      BY <2>1, NothingRead DEF Remembered
  <1>13. CASE ReleaseApi
    <2>1. journal' = journal /\ md'.start = md.start /\ md'.at = md.at /\ subs' = subs
      BY <1>13 DEF ReleaseApi, MarketTypeOK, MdType
    <2> QED
      BY <2>1, NothingRead DEF Remembered
  <1>14. CASE OnFrontConnected
    <2>1. journal' = journal /\ md'.start = md.start /\ md'.at = md.at /\ subs' = subs
      BY <1>14 DEF OnFrontConnected, Calls, MarketTypeOK, MdType
    <2> QED
      BY <2>1, NothingRead DEF Remembered
  <1>15. CASE AskLogin
    <2>1. journal' = journal /\ md'.start = md.start /\ md'.at = md.at /\ subs' = subs
      BY <1>15 DEF AskLogin, MarketTypeOK, MdType
    <2> QED
      BY <2>1, NothingRead DEF Remembered
  <1>16. CASE LoseConnection
    <2>1. journal' = journal /\ md'.start = md.start /\ md'.at = md.at /\ subs' = subs
      BY <1>16 DEF LoseConnection, MarketTypeOK, MdType
    <2> QED
      BY <2>1, NothingRead DEF Remembered
  <1>17. CASE OnFrontDisconnected
    <2>1. journal' = journal /\ md'.start = md.start /\ md'.at = md.at /\ subs' = subs
      BY <1>17 DEF OnFrontDisconnected, Calls, MarketTypeOK, MdType
    <2> QED
      BY <2>1, NothingRead DEF Remembered
  <1>18. CASE OnRspUserLogin
    <2>1. journal' = journal /\ md'.start = md.start /\ md'.at = md.at /\ subs' = subs
      BY <1>18 DEF OnRspUserLogin, Calls, MarketTypeOK, MdType
    <2> QED
      BY <2>1, NothingRead DEF Remembered
  <1>19. CASE ReadHistory
    <2>1. journal' = journal /\ md'.start = md.start /\ md'.at = md.at /\ subs' = subs
      BY <1>19 DEF ReadHistory, MarketTypeOK, MdType
    <2> QED
      BY <2>1, NothingRead DEF Remembered
  <1>20. CASE CallHistory
    <2>1. journal' = journal /\ md'.start = md.start /\ md'.at = md.at /\ subs' = subs
      BY <1>20 DEF CallHistory, MarketTypeOK, MdType
    <2> QED
      BY <2>1, NothingRead DEF Remembered
  <1>21. CASE OnRspUserLogout
    <2>1. journal' = journal /\ md'.start = md.start /\ md'.at = md.at /\ subs' = subs
      BY <1>21 DEF OnRspUserLogout, Calls, MarketTypeOK, MdType
    <2> QED
      BY <2>1, NothingRead DEF Remembered
  <1>22. CASE UNCHANGED marketVars
    BY <1>22 DEF marketVars, Remembered, WasRead, EndedBy, Last, Sub
  <1> QED
    BY <1>1, <1>2, <1>3, <1>4, <1>5, <1>6, <1>7, <1>8, <1>9, <1>10, <1>11, <1>12, <1>13, <1>14, <1>15, <1>16, <1>17, <1>18, <1>19, <1>20, <1>21, <1>22 DEF MarketNext, Listening, Callbacks

-----------------------------------------------------------------------------
(* Somebody still cares for every ticker of a batch that was read, until   *)
(* the front was asked for it.                                             *)

LEMMA StepCovered ==
  ASSUME MarketTypeOK, InRange, Resting, SessionInv, Remembered, Covered, [MarketNext]_marketVars
  PROVE  Covered'
  <1>1. ASSUME NEW f \in Frames, Write(f) PROVE Covered'
    <2>1. md' = md /\ subs' = subs /\ listener' = listener /\ callback' = callback /\ front' = front /\ torn' = torn
      BY <1>1 DEF Write
    <2> QED
      BY <1>1, <2>1, WriteKeeps DEF Covered, Cared
  <1>2. CASE StartEnds
    <2>1. md'.at = md'.start /\ md'.at \in Nat
      BY <1>2 DEF StartEnds, MarketTypeOK, MdType, Resting
    <2> QED
      BY <2>1 DEF Covered, WasRead
  <1>3. CASE EngineEnds
    BY <1>3 DEF EngineEnds, Engine, MarketTypeOK, MdType, FrontType, Covered
  <1>4. CASE EngineStarts
    BY <1>4 DEF EngineStarts, Engine, MarketTypeOK, MdType, FrontType, Covered
  <1>5. CASE ReadSub
    <2> SUFFICES ASSUME md'.state = "listening", front'.session = "in", NEW n \in Nat, WasRead(n)', EndedBy(n, md.at)'
                 PROVE  Cared(journal[n].ticker)'
      BY DEF Covered
    <2>1. /\ journal' = journal /\ front' = front /\ callback' = callback /\ torn' = torn
          /\ md.state = "listening" /\ listener = "poll"
          /\ subs'.tickers = subs.tickers \cup {NextFrame.ticker}
          /\ listener' = IF NextFrame.last THEN "check" ELSE "poll"
      BY <1>5 DEF ReadSub, Polls
    <2>2. CASE n = md.at + 1
      <3>1. NextFrame.last
        BY <1>5, <2>2, SubReads DEF EndedBy, MarketTypeOK, MdType
      <3> QED
        BY <2>1, <2>2, <3>1 DEF Cared, NextFrame
    <2>3. CASE WasRead(n) /\ EndedBy(n, md.at)
      BY <2>1, <2>3 DEF Covered, Cared
    <2>4. CASE WasRead(n) /\ ~EndedBy(n, md.at)
      <3>1. NextFrame.last
        BY <1>5, <2>4, SubReads
      <3>2. journal[n].ticker \in subs.tickers
        BY <2>4 DEF Remembered
      <3> QED
        BY <2>1, <3>1, <3>2 DEF Cared
    <2> QED
      BY <1>5, <2>2, <2>3, <2>4, SubReads
  <1>6. CASE CheckLoggedIn
    <2>1. journal' = journal /\ md'.start = md.start /\ md'.at = md.at
      BY <1>6 DEF CheckLoggedIn, MarketTypeOK, MdType
    <2> QED
      BY <1>6, <2>1, NothingRead DEF CheckLoggedIn, Covered, Cared, SessionInv
  <1>7. CASE CallApi
    <2>1. journal' = journal /\ md'.start = md.start /\ md'.at = md.at /\ callback' = callback
      BY <1>7 DEF CallApi, MarketTypeOK, MdType
    <2>2. CASE Subscribed(subs.tickers) /\ UNCHANGED md
      <3>1. subs.tickers \in SUBSET Tickers
        BY DEF MarketTypeOK
      <3>2. /\ front'.session = front.session
            /\ front.tickers \cup front.refused \subseteq front'.tickers \cup front'.refused
            /\ front.session = "in" => subs.tickers \subseteq front'.tickers \cup front'.refused
        BY <2>2, <3>1, SubscribedTypes
      <3> QED
        BY <1>7, <2>1, <2>2, <3>2, NothingRead DEF CallApi, Covered, Cared
    <2>3. CASE md' = [md EXCEPT !.state = "crashed"]
      BY <2>3 DEF MarketTypeOK, MdType, Covered
    <2> QED
      BY <1>7, <2>2, <2>3 DEF CallApi
  <1>8. CASE OpenEngine
    <2>1. journal' = journal /\ md'.start = md.start /\ md'.at = md.at + 1 /\ md'.state = md.state
      BY <1>8 DEF OpenEngine, MarketTypeOK, MdType
    <2>2. Polls("open") /\ listener = "poll" /\ subs' = subs /\ callback' = callback /\ front' = front /\ torn' = torn
      BY <1>8 DEF OpenEngine, Polls
    <2> QED
      BY <2>1, <2>2, CommandKeeps DEF Covered, Cared
  <1>9. CASE OpenEnds
    <2>1. journal' = journal /\ md'.start = md.start /\ md'.at = md.at
      BY <1>9 DEF OpenEnds, MarketTypeOK, MdType
    <2> QED
      BY <1>9, <2>1, NothingRead DEF OpenEnds, Covered, Cared
  <1>10. CASE PreRun
    <2>1. journal' = journal /\ md' = md /\ subs' = subs /\ callback' = callback
      BY <1>10 DEF PreRun
    <2>2. /\ front'.session = front.session
          /\ front.tickers \cup front.refused \subseteq front'.tickers \cup front'.refused
      BY <1>10, SubscribedTypes DEF PreRun, MarketTypeOK
    <2> QED
      BY <1>10, <2>1, <2>2, NothingRead DEF PreRun, Covered, Cared
  <1>11. CASE CloseEngine
    BY <1>11 DEF CloseEngine, MarketTypeOK, MdType, FrontType, Covered
  <1>12. CASE CloseFlags
    BY <1>12 DEF CloseFlags, MarketTypeOK, MdType, FrontType, Covered
  <1>13. CASE ReleaseApi
    BY <1>13 DEF ReleaseApi, Away, MarketTypeOK, MdType, FrontType, Covered
  <1>14. CASE OnFrontConnected
    BY <1>14 DEF OnFrontConnected, Calls, SessionInv, MarketTypeOK, MdType, FrontType, Covered
  <1>15. CASE AskLogin
    <2>1. journal' = journal /\ md' = md /\ subs' = subs /\ listener' = listener
      BY <1>15 DEF AskLogin
    <2>2. front'.session = "in" => front.session = "in" /\ front'.tickers = front.tickers /\ front'.refused = front.refused
      BY <1>15 DEF AskLogin, MarketTypeOK, FrontType
    <2> QED
      BY <1>15, <2>1, <2>2, NothingRead DEF AskLogin, Covered, Cared
  <1>16. CASE LoseConnection
    BY <1>16 DEF LoseConnection, Away, MarketTypeOK, MdType, FrontType, Covered
  <1>17. CASE OnFrontDisconnected
    BY <1>17 DEF OnFrontDisconnected, Calls, SessionInv, MarketTypeOK, MdType, FrontType, Covered
  <1>18. CASE OnRspUserLogin
    <2>1. front'.session = "in" => callback'.at = "read"
      BY <1>18 DEF OnRspUserLogin, Quiet, MarketTypeOK, FrontType
    <2> QED
      BY <2>1 DEF Covered, Cared
  <1>19. CASE ReadHistory
    <2>1. journal' = journal /\ md' = md /\ subs' = subs /\ listener' = listener /\ front' = front
      BY <1>19 DEF ReadHistory
    <2>2. \A n \in Nat : WasRead(n) => callback'.at = "call" /\ journal[n].ticker \in callback'.left
      BY <1>19 DEF ReadHistory, Remembered
    <2> QED
      BY <2>1, <2>2, NothingRead DEF Covered, Cared
  <1>20. CASE CallHistory
    <2>1. journal' = journal /\ md' = md /\ subs' = subs /\ listener' = listener
      BY <1>20 DEF CallHistory
    <2>2. PICK seen \in SUBSET subs.history : Subscribed(seen) /\ torn' = torn \cup (callback.left \ seen)
      BY <1>20 DEF CallHistory
    <2>3. seen \in SUBSET Tickers
      BY DEF MarketTypeOK
    <2>4. /\ front'.session = front.session
          /\ front.tickers \cup front.refused \subseteq front'.tickers \cup front'.refused
          /\ front.session = "in" => callback.left \subseteq front'.tickers \cup front'.refused \cup torn'
      BY <2>2, <2>3, SubscribedTypes
    <2> QED
      BY <1>20, <2>1, <2>4, NothingRead DEF CallHistory, Covered, Cared
  <1>21. CASE OnRspUserLogout
    BY <1>21 DEF OnRspUserLogout, Calls, SessionInv, MarketTypeOK, MdType, FrontType, Covered
  <1>22. CASE UNCHANGED marketVars
    BY <1>22 DEF marketVars, Covered, Cared, WasRead, EndedBy, Last, Sub
  <1> QED
    BY <1>1, <1>2, <1>3, <1>4, <1>5, <1>6, <1>7, <1>8, <1>9, <1>10, <1>11, <1>12, <1>13, <1>14, <1>15, <1>16, <1>17, <1>18, <1>19, <1>20, <1>21, <1>22 DEF MarketNext, Listening, Callbacks

-----------------------------------------------------------------------------
(* The invariant *)

LEMMA InitMarketInv == MarketInit => MarketInv
<1> SUFFICES ASSUME MarketInit PROVE MarketInv
  OBVIOUS
<1>1. MarketTypeOK /\ InRange /\ Resting /\ SessionInv
  BY InitTypes, InitRest
<1>2. listener = "poll" /\ md.at = 0 /\ md.start = 0 /\ ~md.logged_in /\ md.state = "starting"
  BY DEF MarketInit, Engine
<1>3. FlagsInv /\ AtEnd
  BY <1>2 DEF FlagsInv, LoggedInHasApi, AtEnd
<1>4. Remembered /\ Covered
  BY <1>2, NothingYet DEF Remembered, Covered
<1> QED
  BY <1>1, <1>3, <1>4 DEF MarketInv

LEMMA StepInv == MarketInv /\ [MarketNext]_marketVars => MarketInv'
<1> SUFFICES ASSUME MarketInv, [MarketNext]_marketVars PROVE MarketInv'
  OBVIOUS
<1>1. MarketTypeOK /\ FlagsInv /\ InRange /\ Resting /\ SessionInv /\ AtEnd /\ Remembered /\ Covered
  BY DEF MarketInv
<1>2. MarketTypeOK' /\ FlagsInv' /\ InRange' /\ Resting' /\ SessionInv'
  BY <1>1, StepTypes, StepFlags, StepRange, StepResting, StepSession
<1>3. AtEnd' /\ Remembered' /\ Covered'
  BY <1>1, StepAtEnd, StepRemembered, StepCovered
<1> QED
  BY <1>2, <1>3 DEF MarketInv

LEMMA MarketInvariant == MarketSpec => []MarketInv
BY InitMarketInv, StepInv, PTL DEF MarketSpec

LEMMA ServedWhenDone == MarketInv => NothingForgotten
<1> SUFFICES ASSUME MarketInv, md.state = "listening", listener = "poll", callback = Quiet, front.session = "in",
                    NEW t \in Batches(md.start + 1, md.at)
             PROVE  t \in front.tickers \cup front.refused \cup torn
  BY DEF NothingForgotten
<1>1. PICK n \in (md.start + 1) .. md.at :
        t = journal[n].ticker /\ journal[n].kind = "sub" /\ \E m \in n .. md.at : journal[m].kind = "sub" /\ journal[m].last
  BY DEF Batches
<1>2. md.start \in Nat /\ md.at \in Nat
  BY DEF MarketInv, MarketTypeOK, MdType
<1>3. n \in Nat /\ WasRead(n) /\ EndedBy(n, md.at)
  BY <1>1, <1>2 DEF WasRead, EndedBy, Last, Sub
<1>4. Cared(t)
  BY <1>1, <1>3 DEF MarketInv, Covered
<1> QED
  BY <1>4 DEF Cared, Quiet

-----------------------------------------------------------------------------
(* The variables of the engine, its threads and the front have their types *)
(* in every state (MDEngineCTP and IMDEngine).                             *)
THEOREM MarketTypeCorrect == MarketSpec => []MarketTypeOK
<1>1. MarketInv => MarketTypeOK
  BY DEF MarketInv
<1> QED
  BY <1>1, MarketInvariant, PTL

(* Whoever finds the engine logged in finds its API too, except after an   *)
(* answer to a log-in that came while the engine was being closed          *)
(* (MDEngineCTP::logout, release_api and OnRspUserLogin).                  *)
THEOREM ApiIsThere == MarketSpec => []LoggedInHasApi
<1>1. MarketInv => LoggedInHasApi
  BY DEF MarketInv, FlagsInv
<1> QED
  BY <1>1, MarketInvariant, PTL

(* However the listening and the callback thread interleave, and however   *)
(* often connections, sessions and the engine end: when both are done, the *)
(* front was asked for every batch the engine has read (IMDEngine::        *)
(* listening and subscribeHistorySubs, MDEngineCTP::OnRspUserLogin).       *)
THEOREM NoTickerForgotten == MarketSpec => []NothingForgotten
BY MarketInvariant, ServedWhenDone, PTL

-----------------------------------------------------------------------------
(***************************************************************************)
(* Theorems about parked orders, for every set of orders, clock and market *)
(***************************************************************************)

-----------------------------------------------------------------------------
(* Type correctness *)

(* The clock shows a time of the day. *)
LEMMA NowIsATime ==
  ASSUME ParkTypeOK PROVE Now \in TimesOfDay
<1>1. moment \in 1 .. Len(Moments)
  BY MomentsAssumption DEF ParkTypeOK
<1> QED
  BY <1>1, MomentsAssumption DEF Now

LEMMA Midnight == 0 \in TimesOfDay
BY SMT DEF TimesOfDay

LEMMA RemainderBounded == \A n \in Nat : n % 1000 \in 0 .. 999
BY SMT

(* What is written into the history when an order is sent *)
LEMMA EntryIsSent ==
  ASSUME NEW i \in Ids, NEW t \in Threads, NEW w \in Works
  PROVE  [id |-> i, by |-> t, alone |-> w.alone, ref |-> <<w.second, w.no % 1000>>] \in Sents
<1>1. w.alone \in BOOLEAN /\ w.second \in TimesOfDay /\ w.no \in Nat
  BY DEF Works
<1>2. w.no % 1000 \in 0 .. 999
  BY <1>1, RemainderBounded
<1> QED
  BY <1>1, <1>2 DEF Sents

(* What a thread is at, as the steps change it *)
LEMMA IdleIsWork == Idle \in Works
BY Midnight DEF Works, Idle, Stages

LEMMA BeginIsWork ==
  ASSUME NEW i \in Ids, NEW s \in Stages
  PROVE  /\ [Idle EXCEPT !.at = i, !.stage = s] \in Works
         /\ [Idle EXCEPT !.at = i, !.stage = s].at = i
         /\ [Idle EXCEPT !.at = i, !.stage = s].stage = s
BY Midnight DEF Works, Idle, Stages

LEMMA StageIsWork ==
  ASSUME NEW w \in Works, NEW s \in Stages
  PROVE  /\ [w EXCEPT !.stage = s] \in Works
         /\ [w EXCEPT !.stage = s].at = w.at
         /\ [w EXCEPT !.stage = s].stage = s
BY DEF Works

LEMMA NotAloneIsWork ==
  ASSUME NEW w \in Works
  PROVE  LET v == [w EXCEPT !.alone = FALSE]
         IN v \in Works /\ v.at = w.at /\ v.stage = w.stage
BY DEF Works

(* The conjuncts of the type invariant that the steps disturb *)
Working ==
  \A t \in Threads : /\ work[t].stage = "idle" <=> work[t].at = NoId
                     /\ work[t].at # NoId => orders[work[t].at] # NoOrder

(* A step in which the thread t takes up w and the orders stay *)
LEMMA WorkChanges ==
  ASSUME ParkTypeOK, NEW t \in Threads, NEW w \in Works, work' = [work EXCEPT ![t] = w],
         w.stage = "idle" <=> w.at = NoId,
         w.at # NoId => orders[w.at] # NoOrder,
         orders' = orders
  PROVE  work' \in [Threads -> Works] /\ Working'
BY DEF ParkTypeOK, Working

LEMMA InitTypeOK == ParkInit => ParkTypeOK
<1> SUFFICES ASSUME ParkInit PROVE ParkTypeOK
  OBVIOUS
<1>1. moment \in DOMAIN Moments
  BY MomentsAssumption DEF ParkInit
<1>2. refs \in [lastTime: TimesOfDay, reqInsertNo: Nat]
  BY Midnight DEF ParkInit
<1>3. work \in [Threads -> Works]
  BY IdleIsWork DEF ParkInit
<1>4. sent \in Seq(Sents) /\ exchStatus \in Statuses
  BY DEF ParkInit, Statuses
<1>5. orders \in [Ids -> Orders]
  BY DEF ParkInit, Orders
<1> QED
  BY <1>1, <1>2, <1>3, <1>4, <1>5 DEF ParkInit, ParkTypeOK, Idle

(* Lemmas for the steps in which a client's message is taken *)
LEMMA InsertTypeOK ==
  ASSUME ParkTypeOK, NEW r \in Requests, InsertOrder(r) PROVE ParkTypeOK'
<1>1. r.id \in Ids /\ r.code \in Codes
  BY RequestsAssumption
<1>2. orders' \in [Ids -> Orders]
  BY <1>1 DEF ParkTypeOK, InsertOrder, Orders
<1>3. \A i \in Ids : orders[i] # NoOrder => orders'[i] = orders[i]
  BY <1>1 DEF ParkTypeOK, InsertOrder
<1> QED
  BY <1>1, <1>2, <1>3 DEF ParkTypeOK, InsertOrder, Hold, Works

LEMMA DeleteTypeOK ==
  ASSUME ParkTypeOK, NEW i \in Ids, DeleteOrder(i) PROVE ParkTypeOK'
<1>1. orders' \in [Ids -> Orders]
  BY DEF ParkTypeOK, DeleteOrder, NoOrder, Ended, Orders
<1>2. \A j \in Ids : orders[j] # NoOrder => orders'[j] # NoOrder
  BY DEF ParkTypeOK, DeleteOrder, NoOrder, Ended
<1> QED
  BY <1>1, <1>2 DEF ParkTypeOK, DeleteOrder, Works

LEMMA HumanSendTypeOK ==
  ASSUME ParkTypeOK, NEW i \in Ids, HumanSend(i) PROVE ParkTypeOK'
<1>1. CASE orders[i].status = "NotSend"
  <2> DEFINE w == [Idle EXCEPT !.at = i, !.stage = "fill"]
  <2>1. w \in Works /\ w.at = i /\ w.stage = "fill"
    BY BeginIsWork DEF Stages
  <2>2. orders[i] # NoOrder
    BY <1>1 DEF NoOrder
  <2>3. work' = [work EXCEPT !["consumer"] = w] /\ orders' = orders
    BY <1>1 DEF HumanSend
  <2> HIDE DEF w
  <2>4. work' \in [Threads -> Works] /\ Working'
    BY <2>1, <2>2, <2>3, NothingAssumption, WorkChanges DEF Threads
  <2>5. met' \subseteq Ids
    BY <1>1 DEF ParkTypeOK, HumanSend, Meeting
  <2> QED
    BY <2>4, <2>5 DEF ParkTypeOK, HumanSend, Working
<1>2. CASE orders[i].status # "NotSend"
  BY <1>2 DEF ParkTypeOK, HumanSend
<1> QED
  BY <1>1, <1>2

(* The steps of the main loop *)
LEMMA VisitTypeOK ==
  ASSUME ParkTypeOK, NEW i \in Ids, Visit(i) PROVE ParkTypeOK'
<1>1. CASE orders[i].status = "NotSend"
  <2> DEFINE w == [Idle EXCEPT !.at = i, !.stage = "check"]
  <2>1. w \in Works /\ w.at = i /\ w.stage = "check"
    BY BeginIsWork DEF Stages
  <2>2. orders[i] # NoOrder
    BY <1>1 DEF NoOrder
  <2>3. work' = [work EXCEPT !["main"] = w] /\ orders' = orders
    BY <1>1 DEF Visit
  <2> HIDE DEF w
  <2>4. work' \in [Threads -> Works] /\ Working'
    BY <2>1, <2>2, <2>3, NothingAssumption, WorkChanges DEF Threads
  <2>5. met' \subseteq Ids
    BY <1>1 DEF ParkTypeOK, Visit, Meeting
  <2> QED
    BY <2>4, <2>5 DEF ParkTypeOK, Visit, Working
<1>2. CASE orders[i].status # "NotSend"
  BY <1>2 DEF ParkTypeOK, Visit
<1> QED
  BY <1>1, <1>2

LEMMA CheckTypeOK ==
  ASSUME ParkTypeOK, CheckTrigger PROVE ParkTypeOK'
<1> DEFINE w == [work["main"] EXCEPT !.stage = "fill"]
<1>1. work["main"] \in Works /\ work["main"].at # NoId /\ orders[work["main"].at] # NoOrder
  BY DEF ParkTypeOK, CheckTrigger, Threads
<1>2. w \in Works /\ w.at = work["main"].at /\ w.stage = "fill"
  BY <1>1, StageIsWork DEF Stages
<1>3. /\ work' = [work EXCEPT !["main"] = w] \/ work' = [work EXCEPT !["main"] = Idle]
      /\ orders' = orders
  BY DEF ParkTypeOK, CheckTrigger, Threads
<1> HIDE DEF w
<1>4. Idle \in Works /\ Idle.at = NoId /\ Idle.stage = "idle"
  BY IdleIsWork DEF Idle
<1>5. work' \in [Threads -> Works] /\ Working'
  BY <1>1, <1>2, <1>3, <1>4, WorkChanges DEF Threads
<1> QED
  BY <1>5 DEF ParkTypeOK, CheckTrigger, Working

(* The steps of a thread that sends *)
LEMMA ReadRefTypeOK ==
  ASSUME ParkTypeOK, NEW t \in Threads, ReadRef(t) PROVE ParkTypeOK'
<1> DEFINE last == IF Now # refs.lastTime THEN 1 ELSE refs.reqInsertNo
           free == \A v \in Threads \ {t} : work[v].stage # "ref"
           mine == [work[t] EXCEPT !.stage = "ref", !.second = Now, !.no = last + 1, !.alone = free]
           other(u) == IF work[u].stage = "ref" THEN [work[u] EXCEPT !.alone = FALSE] ELSE work[u]
<1>1. last + 1 \in Nat /\ Now \in TimesOfDay /\ free \in BOOLEAN
  BY NowIsATime DEF ParkTypeOK
<1>2. \A u \in Threads : work[u] \in Works
  BY DEF ParkTypeOK
<1>3. mine \in Works /\ mine.at = work[t].at /\ mine.stage = "ref"
  <2>1. work[t] \in Works
    BY <1>2
  <2>2. \A n \in Nat, s \in TimesOfDay, b \in BOOLEAN :
           LET v == [work[t] EXCEPT !.stage = "ref", !.second = s, !.no = n, !.alone = b]
           IN v \in Works /\ v.at = work[t].at /\ v.stage = "ref"
    BY <2>1 DEF Works, Stages
  <2> HIDE DEF last, free
  <2> QED
    BY <1>1, <2>2, Zenon
<1>4. \A u \in Threads : other(u) \in Works /\ other(u).at = work[u].at /\ other(u).stage = work[u].stage
  BY <1>2, NotAloneIsWork
<1>5. work' = [u \in Threads |-> IF u = t THEN mine ELSE other(u)]
  BY DEF ReadRef
<1>6. work[t].stage = "fill"
  BY DEF ReadRef
<1> HIDE DEF mine, other
<1>7. work' \in [Threads -> Works]
  BY <1>3, <1>4, <1>5
<1>8. \A u \in Threads : /\ work'[u].at = work[u].at
                         /\ work'[u].stage = "idle" <=> work[u].stage = "idle"
  BY <1>3, <1>4, <1>5, <1>6
<1> QED
  BY <1>7, <1>8 DEF ReadRef, ParkTypeOK

LEMMA SendingTypeOK ==
  ASSUME ParkTypeOK, NEW t \in Threads, Sending(t) PROVE ParkTypeOK'
<1> DEFINE next(s) == [work[t] EXCEPT !.stage = s]
<1>0. work[t] \in Works /\ (work[t].stage # "idle" => orders[work[t].at] # NoOrder /\ work[t].at # NoId)
  BY DEF ParkTypeOK
<1>1. CASE ReadRef(t)
  BY <1>1, ReadRefTypeOK
<1>2. CASE WriteRef(t)
  <2>1. next("insert") \in Works /\ next("insert").at = work[t].at /\ next("insert").stage = "insert"
    BY <1>0, StageIsWork DEF Stages
  <2>2. work' = [work EXCEPT ![t] = next("insert")] /\ orders' = orders /\ work[t].stage = "ref"
    BY <1>2 DEF WriteRef, ParkTypeOK
  <2>3. work' \in [Threads -> Works] /\ Working'
    <3> HIDE DEF next
    <3> QED
      BY <1>0, <2>1, <2>2, WorkChanges
  <2>4. refs' \in [lastTime: TimesOfDay, reqInsertNo: Nat]
    BY <1>0, <1>2 DEF WriteRef, Works
  <2> QED
    BY <1>2, <2>3, <2>4 DEF WriteRef, ParkTypeOK, Working
<1>3. CASE DoReqOrderInsert(t)
  <2>1. next("mark") \in Works /\ next("mark").at = work[t].at /\ next("mark").stage = "mark"
    BY <1>0, StageIsWork DEF Stages
  <2>2. work' = [work EXCEPT ![t] = next("mark")] /\ orders' = orders /\ work[t].stage = "insert"
    BY <1>3 DEF DoReqOrderInsert, ParkTypeOK
  <2>3. work' \in [Threads -> Works] /\ Working'
    <3> HIDE DEF next
    <3> QED
      BY <1>0, <2>1, <2>2, WorkChanges
  <2>4. work[t].at \in Ids
    BY <1>0, <2>2 DEF Works
  <2>6. sent' \in Seq(Sents)
    <3> DEFINE e == [id |-> work[t].at, by |-> t, alone |-> work[t].alone,
                     ref |-> <<work[t].second, work[t].no % 1000>>]
    <3>1. e \in Sents
      BY <1>0, <2>4, EntryIsSent
    <3>2. sent' = Append(sent, e) /\ sent \in Seq(Sents)
      BY <1>3 DEF DoReqOrderInsert, ParkTypeOK
    <3> HIDE DEF e
    <3> QED
      BY <3>1, <3>2
  <2> QED
    BY <1>3, <2>3, <2>6 DEF DoReqOrderInsert, ParkTypeOK, Working
<1>4. CASE MarkSend(t)
  <2>1. work[t].at \in Ids /\ orders[work[t].at] # NoOrder
    BY <1>0, <1>4 DEF MarkSend, Works
  <2>2. /\ orders' = [orders EXCEPT ![work[t].at] = [orders[work[t].at] EXCEPT !.status = "Send"]]
        /\ orders \in [Ids -> Orders]
    BY <1>4 DEF MarkSend, ParkTypeOK
  <2>3. /\ [orders[work[t].at] EXCEPT !.status = "Send"] \in Orders
        /\ [orders[work[t].at] EXCEPT !.status = "Send"] # NoOrder
    <3>1. orders[work[t].at] \in [status: Ended \cup {"NotSend"}, request: Requests]
      BY <2>1, <2>2 DEF Orders
    <3> QED
      BY <3>1 DEF Orders, NoOrder, Ended
  <2>4. orders' \in [Ids -> Orders] /\ \A i \in Ids : orders[i] # NoOrder => orders'[i] # NoOrder
    BY <2>1, <2>2, <2>3
  <2>5. work' = [work EXCEPT ![t] = Idle] /\ Idle.at = NoId /\ Idle.stage = "idle"
    BY <1>4 DEF MarkSend, Idle
  <2>6. work' \in [Threads -> Works] /\ Working'
    <3>1. \A u \in Threads : work[u].at # NoId => work[u].at \in Ids
      BY DEF ParkTypeOK, Works
    <3> QED
      BY <2>4, <2>5, <3>1, IdleIsWork DEF ParkTypeOK, Working
  <2> QED
    BY <1>4, <2>4, <2>6 DEF MarkSend, ParkTypeOK, Working
<1> QED
  BY <1>1, <1>2, <1>3, <1>4 DEF Sending

(* Every step keeps the types. *)
LEMMA NextTypeOK == ParkTypeOK /\ [ParkNext]_parkVars => ParkTypeOK'
<1> SUFFICES ASSUME ParkTypeOK, [ParkNext]_parkVars PROVE ParkTypeOK'
  OBVIOUS
<1>1. CASE Consumer
  BY <1>1, InsertTypeOK, DeleteTypeOK, HumanSendTypeOK, SendingTypeOK DEF Consumer, Threads
<1>2. CASE MainLoop
  <2>1. CASE NextRound
    BY <2>1 DEF ParkTypeOK, NextRound
  <2> QED
    BY <1>2, <2>1, VisitTypeOK, CheckTypeOK, SendingTypeOK DEF MainLoop, Threads
<1>3. CASE Market
  <2>1. ASSUME NEW c \in Codes, NEW tick \in Ticks, on_market_data(c, tick) PROVE ParkTypeOK'
    BY <2>1 DEF on_market_data, Hold, ParkTypeOK
  <2>2. ASSUME NEW s \in Reports, on_rtn_instrument_status(s) PROVE ParkTypeOK'
    BY <2>2, ReportsAssumption DEF on_rtn_instrument_status, Hold, ParkTypeOK
  <2> QED
    BY <1>3, <2>1, <2>2 DEF Market
<1>4. CASE ClockMoves
  <2>1. moment' \in DOMAIN Moments
    BY <1>4, MomentsAssumption DEF ClockMoves, ParkTypeOK
  <2> QED
    BY <1>4, <2>1 DEF ClockMoves, Hold, ParkTypeOK
<1>5. CASE UNCHANGED parkVars
  BY <1>5 DEF parkVars, ParkTypeOK
<1> QED
  BY <1>1, <1>2, <1>3, <1>4, <1>5 DEF ParkNext

(* The state of the parked orders has its types: whoever works on an order *)
(* works on one that is in the map (CParkUnit finds an order by its id and *)
(* uses what it finds).                                                    *)
THEOREM ParkTypeCorrect == ParkSpec => []ParkTypeOK
BY InitTypeOK, NextTypeOK, PTL DEF ParkSpec

-----------------------------------------------------------------------------
(* How often an order was sent *)

(* Places(s, i): the entries of the history s for the order i *)
Places(s, i) == {k \in DOMAIN s : s[k].id = i}

LEMMA PlacesFinite ==
  ASSUME NEW s \in Seq(Sents), NEW i
  PROVE  IsFiniteSet(Places(s, i)) /\ Cardinality(Places(s, i)) \in Nat
<1>1. IsFiniteSet(1 .. Len(s)) /\ Places(s, i) \subseteq 1 .. Len(s)
  BY FS_Interval DEF Places
<1> QED
  BY <1>1, FS_Subset, FS_CardinalityType

LEMMA PlacesAppend ==
  ASSUME NEW s \in Seq(Sents), NEW e \in Sents, NEW i
  PROVE  Cardinality(Places(Append(s, e), i)) = Cardinality(Places(s, i)) + (IF e.id = i THEN 1 ELSE 0)
<1>1. /\ DOMAIN Append(s, e) = DOMAIN s \cup {Len(s) + 1} /\ Len(s) + 1 \notin DOMAIN s
      /\ \A k \in DOMAIN s : Append(s, e)[k] = s[k]
      /\ Append(s, e)[Len(s) + 1] = e
  OBVIOUS
<1>2. CASE e.id = i
  <2>1. Places(Append(s, e), i) = Places(s, i) \cup {Len(s) + 1} /\ Len(s) + 1 \notin Places(s, i)
    BY <1>1, <1>2 DEF Places
  <2>2. IsFiniteSet(Places(s, i))
    BY PlacesFinite
  <2>3. Cardinality(Places(s, i) \cup {Len(s) + 1}) = Cardinality(Places(s, i)) + 1
    BY <2>1, <2>2, FS_AddElement
  <2> QED
    BY <1>2, <2>1, <2>3
<1>3. CASE e.id # i
  <2>1. Places(Append(s, e), i) = Places(s, i)
    BY <1>1, <1>3 DEF Places
  <2> QED
    BY <1>3, <2>1, PlacesFinite
<1> QED
  BY <1>2, <1>3

LEMMA SendsAreNumbers ==
  ASSUME ParkTypeOK, NEW i PROVE Sends(i) \in Nat
BY PlacesFinite DEF ParkTypeOK, Sends, Places

(* The step in which a thread sends: one more for its order *)
LEMMA SendsChange ==
  ASSUME ParkTypeOK, NEW t \in Threads, DoReqOrderInsert(t), NEW i
  PROVE  Sends(i)' = Sends(i) + (IF work[t].at = i THEN 1 ELSE 0)
<1> DEFINE e == [id |-> work[t].at, by |-> t, alone |-> work[t].alone,
                 ref |-> <<work[t].second, work[t].no % 1000>>]
<1>1. sent \in Seq(Sents) /\ sent' = Append(sent, e)
  BY DEF ParkTypeOK, DoReqOrderInsert
<1>2. work[t] \in Works /\ work[t].at # NoId
  BY DEF ParkTypeOK, DoReqOrderInsert
<1>3. e \in Sents /\ e.id = work[t].at
  <2>1. work[t].at \in Ids
    BY <1>2 DEF Works
  <2> QED
    BY <1>2, <2>1, EntryIsSent
<1>4. Sends(i) = Cardinality(Places(sent, i)) /\ Sends(i)' = Cardinality(Places(sent', i))
  BY DEF Sends, Places
<1> HIDE DEF e
<1>5. Cardinality(Places(Append(sent, e), i)) = Cardinality(Places(sent, i)) + (IF e.id = i THEN 1 ELSE 0)
  BY <1>1, <1>3, PlacesAppend
<1> QED
  BY <1>1, <1>3, <1>4, <1>5

(* Nothing is sent in any other step. *)
LEMMA SentChanges ==
  ASSUME [ParkNext]_parkVars
  PROVE  sent' = sent \/ \E t \in Threads : DoReqOrderInsert(t)
<1> USE DEF Threads
<1>1. CASE Consumer
  BY <1>1 DEF Consumer, InsertOrder, DeleteOrder, HumanSend, Sending, ReadRef, WriteRef, MarkSend
<1>2. CASE MainLoop
  BY <1>2 DEF MainLoop, NextRound, Visit, CheckTrigger, Sending, ReadRef, WriteRef, MarkSend
<1>3. CASE Market
  BY <1>3 DEF Market, on_market_data, on_rtn_instrument_status
<1> QED
  BY <1>1, <1>2, <1>3 DEF ParkNext, ClockMoves, parkVars

-----------------------------------------------------------------------------
(* An order that is sent or deleted stays so *)

(* No step touches an order that has ended and that no thread is at. *)
LEMMA EndedUntouched ==
  ASSUME ParkTypeOK, [ParkNext]_parkVars, NEW i \in Ids, EndedForGood(i)
  PROVE  orders'[i] = orders[i] /\ \A t \in Threads : work'[t].at # i
<1> USE DEF EndedForGood
<1>0. /\ orders[i] # NoOrder /\ orders[i].status \notin {"NotSend", "none"}
      /\ \A t \in Threads : work[t] \in Works /\ work[t].at # i
  BY DEF Ended, NoOrder, ParkTypeOK
<1>1. Idle.at # i
  BY NothingAssumption DEF Idle
<1>2. ASSUME NEW t \in Threads, Sending(t)
      PROVE  orders'[i] = orders[i] /\ \A u \in Threads : work'[u].at # i
  <2>1. CASE ReadRef(t)
    BY <1>0, <2>1 DEF ReadRef, Works
  <2>2. CASE WriteRef(t)
    BY <1>0, <2>2 DEF WriteRef, ParkTypeOK, Works
  <2>3. CASE DoReqOrderInsert(t)
    BY <1>0, <2>3 DEF DoReqOrderInsert, ParkTypeOK, Works
  <2>4. CASE MarkSend(t)
    BY <1>0, <1>1, <2>4 DEF MarkSend, ParkTypeOK
  <2> QED
    BY <1>2, <2>1, <2>2, <2>3, <2>4 DEF Sending
<1>3. CASE Consumer
  <2>1. ASSUME NEW r \in Requests, InsertOrder(r) PROVE orders'[i] = orders[i] /\ work' = work
    BY <1>0, <2>1, RequestsAssumption DEF InsertOrder, ParkTypeOK
  <2>2. ASSUME NEW j \in Ids, DeleteOrder(j) PROVE orders'[i] = orders[i] /\ work' = work
    BY <1>0, <2>2 DEF DeleteOrder, ParkTypeOK
  <2>3. ASSUME NEW j \in Ids, HumanSend(j)
        PROVE orders' = orders /\ \A u \in Threads : work'[u].at # i
    <3>1. CASE orders[j].status = "NotSend"
      <4> DEFINE w == [Idle EXCEPT !.at = j, !.stage = "fill"]
      <4>1. w.at = j
        BY BeginIsWork DEF Stages
      <4>2. j # i /\ orders' = orders /\ work' = [work EXCEPT !["consumer"] = w]
        BY <1>0, <2>3, <3>1 DEF HumanSend
      <4> HIDE DEF w
      <4> QED
        BY <1>0, <4>1, <4>2 DEF ParkTypeOK
    <3>2. CASE orders[j].status # "NotSend"
      BY <1>0, <2>3, <3>2 DEF HumanSend
    <3> QED
      BY <3>1, <3>2
  <2> QED
    BY <1>0, <1>2, <1>3, <2>1, <2>2, <2>3 DEF Consumer, Threads
<1>4. CASE MainLoop
  <2>1. CASE NextRound
    BY <1>0, <2>1 DEF NextRound
  <2>2. ASSUME NEW j \in Ids, Visit(j)
        PROVE orders' = orders /\ \A u \in Threads : work'[u].at # i
    <3>1. CASE orders[j].status = "NotSend"
      <4> DEFINE w == [Idle EXCEPT !.at = j, !.stage = "check"]
      <4>1. w.at = j
        BY BeginIsWork DEF Stages
      <4>2. j # i /\ orders' = orders /\ work' = [work EXCEPT !["main"] = w]
        BY <1>0, <2>2, <3>1 DEF Visit
      <4> HIDE DEF w
      <4> QED
        BY <1>0, <4>1, <4>2 DEF ParkTypeOK
    <3>2. CASE orders[j].status # "NotSend"
      BY <1>0, <2>2, <3>2 DEF Visit
    <3> QED
      BY <3>1, <3>2
  <2>3. CASE CheckTrigger
    <3>1. work'["main"] = [work["main"] EXCEPT !.stage = "fill"] \/ work'["main"] = Idle
      BY <2>3 DEF CheckTrigger, ParkTypeOK, Threads
    <3> QED
      BY <1>0, <1>1, <2>3, <3>1 DEF CheckTrigger, ParkTypeOK, Works, Threads
  <2> QED
    BY <1>2, <1>4, <2>1, <2>2, <2>3 DEF MainLoop, Threads
<1>5. CASE Market \/ ClockMoves \/ UNCHANGED parkVars
  BY <1>0, <1>5 DEF Market, on_market_data, on_rtn_instrument_status, ClockMoves, parkVars
<1> QED
  BY <1>3, <1>4, <1>5 DEF ParkNext

(* An order that is sent or deleted, with no thread at work on it, stays   *)
(* as it is and is not sent again (inner_isEndState keeps the action and   *)
(* the main loop away from it).                                            *)
THEOREM EndedStays == ParkSpec => EndIsFinal
<1>1. ParkTypeOK /\ [ParkNext]_parkVars => [\A i \in Ids : EndedForGood(i) =>
        EndedForGood(i)' /\ orders'[i] = orders[i] /\ Sends(i)' = Sends(i)]_parkVars
  <2> SUFFICES ASSUME ParkTypeOK, [ParkNext]_parkVars, NEW i \in Ids, EndedForGood(i)
               PROVE  EndedForGood(i)' /\ orders'[i] = orders[i] /\ Sends(i)' = Sends(i)
    OBVIOUS
  <2>1. orders'[i] = orders[i] /\ EndedForGood(i)'
    BY EndedUntouched DEF EndedForGood
  <2>2. Sends(i)' = Sends(i)
    <3>1. CASE sent' = sent
      BY <3>1 DEF Sends
    <3>2. ASSUME NEW t \in Threads, DoReqOrderInsert(t) PROVE Sends(i)' = Sends(i)
      BY <3>2, SendsChange, SendsAreNumbers DEF EndedForGood
    <3> QED
      BY <3>1, <3>2, SentChanges
  <2> QED
    BY <2>1, <2>2
<1> QED
  BY <1>1, ParkTypeCorrect, PTL DEF ParkSpec, EndIsFinal

-----------------------------------------------------------------------------
(* A parked order is sent once, or twice when both threads are at it *)

Waits(t, i) == IF work[t].at = i /\ work[t].stage # "mark" THEN 1 ELSE 0
Marks(t, i) == IF work[t].at = i /\ work[t].stage = "mark" THEN 1 ELSE 0

(* The strengthening: what a thread is about to send counts as sent, two   *)
(* threads at one order have met, and an order that still has the status   *)
(* NotSend was sent only by threads that are about to mark it.             *)
Bounded(i) ==
  Sends(i) + Waits("main", i) + Waits("consumer", i) <= IF i \in met THEN 2 ELSE 1
Together(i) == work["main"].at = i /\ work["consumer"].at = i => i \in met
Unmarked(i) == orders[i].status = "NotSend" => Sends(i) = Marks("main", i) + Marks("consumer", i)
Untold(i)   == orders[i] = NoOrder => Sends(i) = 0

Once(i) == Bounded(i) /\ Together(i) /\ Unmarked(i) /\ Untold(i)

LEMMA InitOnce == ParkInit => \A i \in Ids : Once(i)
<1> SUFFICES ASSUME ParkInit, NEW i \in Ids PROVE Once(i)
  OBVIOUS
<1>1. Sends(i) = 0
  <2>1. {k \in DOMAIN sent : sent[k].id = i} = {}
    BY DEF ParkInit
  <2> QED
    BY <2>1, FS_EmptySet DEF Sends
<1>2. \A t \in Threads : work[t].at # i
  BY NothingAssumption DEF ParkInit, Idle
<1>3. orders[i].status # "NotSend"
  BY DEF ParkInit, NoOrder
<1> QED
  BY <1>1, <1>2, <1>3 DEF Once, Bounded, Together, Unmarked, Untold, Waits, Marks, Threads

(* A thread with no order takes up one that has not been sent. *)
LEMMA TakeOnce ==
  ASSUME ParkTypeOK, NEW i \in Ids, Once(i), NEW t \in Threads, NEW j \in Ids, NEW s \in Stages \ {"mark"},
         work[t] = Idle, orders[j].status = "NotSend",
         work' = [work EXCEPT ![t] = [Idle EXCEPT !.at = j, !.stage = s]],
         met' = met \cup Meeting(t, j), sent' = sent, orders' = orders
  PROVE  Once(i)'
<1> USE DEF Threads
<1>1. /\ work'[t].at = j /\ work'[t].stage = s /\ s # "mark"
      /\ \A u \in Threads \ {t} : work'[u] = work[u]
  <2> DEFINE w == [Idle EXCEPT !.at = j, !.stage = s]
  <2>1. work \in [Threads -> Works] /\ work' = [work EXCEPT ![t] = w]
    BY DEF ParkTypeOK
  <2>2. w.at = j /\ w.stage = s
    BY BeginIsWork
  <2> HIDE DEF w
  <2> QED
    BY <2>1, <2>2
<1>2. work[t].at # i /\ Sends(i)' = Sends(i) /\ Sends(i) \in Nat
  <2>1. Sends(i) \in Nat
    BY SendsAreNumbers
  <2>2. work[t].at # i /\ Sends(i)' = Sends(i)
    BY NothingAssumption DEF Idle, Sends
  <2> QED
    BY <2>1, <2>2
<1>3. (i \in met => i \in met') /\ (i # j => (i \in met' => i \in met))
  BY DEF Meeting
<1>4. CASE i # j
  BY <1>1, <1>2, <1>3, <1>4 DEF Once, Bounded, Together, Unmarked, Untold, Waits, Marks
<1>5. CASE i = j
  <2>1. Sends(i) = Marks("main", i) + Marks("consumer", i)
    BY <1>5 DEF Once, Unmarked
  <2>2. Together(i)' /\ (i \in met' <=> i \in met \/ \E u \in Threads \ {t} : work[u].at = i)
    BY <1>1, <1>5 DEF Meeting, Together
  <2>3. Bounded(i)'
    BY <1>1, <1>2, <1>5, <2>1, <2>2 DEF Once, Bounded, Waits, Marks
  <2>4. Unmarked(i)' /\ Untold(i)'
    BY <1>1, <1>2, <1>5 DEF Once, Unmarked, Untold, Marks
  <2> QED
    BY <2>2, <2>3, <2>4 DEF Once
<1> QED
  BY <1>4, <1>5

(* The steps of a thread that sends *)
LEMMA SendingOnce ==
  ASSUME ParkTypeOK, NEW i \in Ids, Once(i), NEW t \in Threads, Sending(t)
  PROVE  Once(i)'
<1> USE DEF Threads
<1>1. /\ work[t] \in Works /\ met' = met /\ Sends(i) \in Nat
      /\ \A u \in Threads : work[u].at = i => orders[i] # NoOrder
  <2>1. Sends(i) \in Nat
    BY SendsAreNumbers
  <2>2. met' = met
    BY DEF Sending, ReadRef, WriteRef, DoReqOrderInsert, MarkSend
  <2>3. work[t] \in Works /\ \A u \in Threads : work[u].at = i => orders[i] # NoOrder
    BY NothingAssumption DEF ParkTypeOK
  <2> QED
    BY <2>1, <2>2, <2>3
<1>2. CASE ReadRef(t) \/ WriteRef(t)
  <2>1. \A u \in Threads : /\ work'[u].at = work[u].at
                           /\ work'[u].stage = "mark" <=> work[u].stage = "mark"
    <3>1. CASE ReadRef(t)
      <4>1. \A u \in Threads : work[u] \in Works
        BY DEF ParkTypeOK
      <4> QED
        BY <3>1, <4>1 DEF ReadRef, Works
    <3>2. CASE WriteRef(t)
      BY <3>2 DEF WriteRef, ParkTypeOK, Works
    <3> QED
      BY <1>2, <3>1, <3>2
  <2>2. orders' = orders /\ Sends(i)' = Sends(i)
    BY <1>2 DEF ReadRef, WriteRef, Sends
  <2> QED
    BY <1>1, <2>1, <2>2 DEF Once, Bounded, Together, Unmarked, Untold, Waits, Marks
<1>3. CASE DoReqOrderInsert(t)
  <2>1. /\ work'[t].at = work[t].at /\ work'[t].stage = "mark" /\ work[t].stage = "insert"
        /\ \A u \in Threads \ {t} : work'[u] = work[u]
        /\ orders' = orders
    BY <1>1, <1>3 DEF DoReqOrderInsert, ParkTypeOK, Works
  <2>2. Sends(i)' = Sends(i) + (IF work[t].at = i THEN 1 ELSE 0)
    BY <1>3, SendsChange
  <2> QED
    BY <1>1, <2>1, <2>2 DEF Once, Bounded, Together, Unmarked, Untold, Waits, Marks
<1>4. CASE MarkSend(t)
  <2>1. /\ work'[t] = Idle /\ Idle.at # i /\ work[t].stage = "mark" /\ Sends(i)' = Sends(i)
        /\ \A u \in Threads \ {t} : work'[u] = work[u]
    BY <1>4, NothingAssumption DEF MarkSend, ParkTypeOK, Idle, Sends
  <2>2. /\ work[t].at = i => orders'[i].status # "NotSend" /\ orders'[i] # NoOrder
        /\ work[t].at # i => orders'[i] = orders[i]
    <3>1. ASSUME work[t].at = i PROVE orders'[i].status = "Send" /\ "Send" \notin {"NotSend", "none"}
      <4>1. orders[i] \in [status: Ended \cup {"NotSend"}, request: Requests]
        BY <1>1, <3>1 DEF ParkTypeOK, Orders
      <4> QED
        BY <1>4, <3>1, <4>1 DEF MarkSend, ParkTypeOK
    <3>2. ASSUME work[t].at # i PROVE orders'[i] = orders[i]
      BY <1>4, <3>2 DEF MarkSend, ParkTypeOK
    <3> QED
      BY <3>1, <3>2 DEF NoOrder
  <2> QED
    BY <1>1, <2>1, <2>2 DEF Once, Bounded, Together, Unmarked, Untold, Waits, Marks
<1> QED
  BY <1>2, <1>3, <1>4 DEF Sending

(* Every step keeps the strengthening. *)
LEMMA NextOnce ==
  ASSUME ParkTypeOK, NEW i \in Ids, Once(i), [ParkNext]_parkVars PROVE Once(i)'
<1> USE DEF Threads
<1>1. Sends(i) \in Nat /\ \A u \in Threads : work[u].at = i => orders[i] # NoOrder
  <2>1. Sends(i) \in Nat
    BY SendsAreNumbers
  <2>2. \A u \in Threads : work[u].at = i => orders[i] # NoOrder
    BY NothingAssumption DEF ParkTypeOK
  <2> QED
    BY <2>1, <2>2
<1>2. ASSUME work' = work, met' = met, sent' = sent,
             \/ orders'[i] = orders[i]
             \/ orders'[i] # NoOrder /\ (orders[i] = NoOrder \/ orders'[i].status # "NotSend")
      PROVE  Once(i)'
  <2>1. Sends(i)' = Sends(i)
    BY <1>2 DEF Sends
  <2> QED
    BY <1>1, <1>2, <2>1 DEF Once, Bounded, Together, Unmarked, Untold, Waits, Marks
<1>3. CASE Consumer
  <2>1. ASSUME NEW r \in Requests, InsertOrder(r) PROVE Once(i)'
    <3>1. orders'[i] = orders[i] \/ (orders[i] = NoOrder /\ orders'[i] # NoOrder)
      BY <2>1, RequestsAssumption DEF InsertOrder, ParkTypeOK, NoOrder
    <3> QED
      BY <1>2, <2>1, <3>1 DEF InsertOrder
  <2>2. ASSUME NEW j \in Ids, DeleteOrder(j) PROVE Once(i)'
    <3>1. orders'[i] = orders[i] \/ (orders'[i] # NoOrder /\ orders'[i].status # "NotSend")
      BY <2>2 DEF DeleteOrder, ParkTypeOK, NoOrder, Orders
    <3> QED
      BY <1>2, <2>2, <3>1 DEF DeleteOrder
  <2>3. ASSUME NEW j \in Ids, HumanSend(j) PROVE Once(i)'
    <3>1. CASE orders[j].status = "NotSend"
      BY <2>3, <3>1, TakeOnce DEF HumanSend, Stages
    <3>2. CASE orders[j].status # "NotSend"
      BY <1>2, <2>3, <3>2 DEF HumanSend
    <3> QED
      BY <3>1, <3>2
  <2> QED
    BY <1>3, <2>1, <2>2, <2>3, SendingOnce DEF Consumer
<1>4. CASE MainLoop
  <2>1. CASE NextRound
    BY <1>2, <2>1 DEF NextRound
  <2>2. ASSUME NEW j \in Ids, Visit(j) PROVE Once(i)'
    <3>1. CASE orders[j].status = "NotSend"
      BY <2>2, <3>1, TakeOnce DEF Visit, Stages
    <3>2. CASE orders[j].status # "NotSend"
      BY <1>2, <2>2, <3>2 DEF Visit
    <3> QED
      BY <3>1, <3>2
  <2>3. CASE CheckTrigger
    <3>1. /\ work'["consumer"] = work["consumer"] /\ orders' = orders /\ Sends(i)' = Sends(i) /\ met' = met
          /\ work["main"].stage = "check"
          /\ \/ work'["main"].at = work["main"].at /\ work'["main"].stage = "fill"
             \/ work'["main"].at # i
      <4>1. work'["main"] = [work["main"] EXCEPT !.stage = "fill"] \/ work'["main"] = Idle
        BY <2>3 DEF CheckTrigger, ParkTypeOK
      <4>2. work["main"] \in Works /\ Idle.at # i
        BY NothingAssumption DEF ParkTypeOK, Idle
      <4> QED
        BY <2>3, <4>1, <4>2 DEF CheckTrigger, ParkTypeOK, Works, Sends
    <3> QED
      BY <1>1, <3>1 DEF Once, Bounded, Together, Unmarked, Untold, Waits, Marks
  <2> QED
    BY <1>4, <2>1, <2>2, <2>3, SendingOnce DEF MainLoop
<1>5. CASE Market \/ ClockMoves \/ UNCHANGED parkVars
  BY <1>2, <1>5 DEF Market, on_market_data, on_rtn_instrument_status, ClockMoves, parkVars
<1> QED
  BY <1>3, <1>4, <1>5 DEF ParkNext

(* A parked order is given to the engine once, whatever its trigger, the   *)
(* clients and the market do; a second time only when the consumer and the *)
(* main loop were at it together, which nothing in CParkUnit forbids.      *)
THEOREM ParkedOrderSentOnce == ParkSpec => []SentOnce
<1> DEFINE ParkInv == ParkTypeOK /\ \A i \in Ids : Once(i)
<1>1. ParkInit => ParkInv
  BY InitTypeOK, InitOnce
<1>2. ParkInv /\ [ParkNext]_parkVars => ParkInv'
  <2> SUFFICES ASSUME ParkInv, [ParkNext]_parkVars PROVE ParkInv'
    OBVIOUS
  <2>1. \A i \in Ids : Once(i)'
    BY NextOnce
  <2> QED
    BY <2>1, NextTypeOK
<1>3. ParkInv => SentOnce
  <2> SUFFICES ASSUME ParkInv, NEW i \in Ids PROVE Sends(i) <= IF i \in met THEN 2 ELSE 1
    BY DEF SentOnce
  <2> QED
    BY SendsAreNumbers DEF Once, Bounded, Waits
<1> QED
  BY <1>1, <1>2, <1>3, PTL DEF ParkSpec

-----------------------------------------------------------------------------
(* What the main loop sends was triggered *)

Hour(t)   == t \div 10000
Minute(t) == (t \div 100) % 100
Second(t) == t % 100

LEMMA Digits ==
  ASSUME NEW t \in TimesOfDay
  PROVE  /\ Hour(t) \in Nat /\ Minute(t) \in Nat /\ Second(t) \in Nat
         /\ Hour(t) < 24 /\ Minute(t) < 60 /\ Second(t) < 60
         /\ t = 10000 * Hour(t) + 100 * Minute(t) + Second(t)
         /\ Seconds(t) = 3600 * Hour(t) + 60 * Minute(t) + Second(t)
<1>1. t % 100 < 60 /\ (t \div 100) % 100 < 60
  BY SMT DEF TimesOfDay
<1>2. t \in Nat /\ t < 240000
  BY SMT DEF TimesOfDay
<1>3. t \div 10000 \in Nat /\ t \div 10000 < 24 /\ (t \div 100) % 100 \in Nat /\ t % 100 \in Nat
  BY SMT, <1>2
<1>4. (t % 10000) \div 100 = (t \div 100) % 100
  BY SMT, <1>2
<1>5. t = 10000 * (t \div 10000) + 100 * ((t \div 100) % 100) + (t % 100)
  BY SMT, <1>2
<1>6. Seconds(t) = 3600 * (t \div 10000) + 60 * ((t \div 100) % 100) + (t % 100)
  BY SMT, <1>3, <1>4 DEF Seconds
<1> QED
  BY <1>1, <1>3, <1>5, <1>6 DEF Hour, Minute, Second

LEMMA SecondsInOrder ==
  ASSUME NEW a \in TimesOfDay, NEW b \in TimesOfDay
  PROVE  /\ Seconds(a) \in Nat /\ Seconds(a) < 86400 /\ a \in Nat /\ a < 240000
         /\ a < b <=> Seconds(a) < Seconds(b)
<1>1. /\ Hour(a) \in Nat /\ Minute(a) \in Nat /\ Second(a) \in Nat
      /\ Hour(a) < 24 /\ Minute(a) < 60 /\ Second(a) < 60
      /\ a = 10000 * Hour(a) + 100 * Minute(a) + Second(a)
      /\ Seconds(a) = 3600 * Hour(a) + 60 * Minute(a) + Second(a)
  BY Digits
<1>2. /\ Hour(b) \in Nat /\ Minute(b) \in Nat /\ Second(b) \in Nat
      /\ Hour(b) < 24 /\ Minute(b) < 60 /\ Second(b) < 60
      /\ b = 10000 * Hour(b) + 100 * Minute(b) + Second(b)
      /\ Seconds(b) = 3600 * Hour(b) + 60 * Minute(b) + Second(b)
  BY Digits
<1>3. Seconds(a) \in Nat /\ Seconds(a) < 86400 /\ a \in Nat /\ a < 240000
  <2>1. a \in Nat /\ a < 240000
    BY SMT DEF TimesOfDay
  <2> QED
    BY SMT, <1>1, <2>1
<1>4. a < b <=> Seconds(a) < Seconds(b)
  BY SMT, <1>1, <1>2
<1> QED
  BY <1>3, <1>4

LEMMA RemainderOfDay ==
  ASSUME NEW x \in Int, -86400 < x, x < 86400
  PROVE  x % 86400 = IF x < 0 THEN x + 86400 ELSE x
<1>1. CASE x < 0
  BY SMT, <1>1
<1>2. CASE ~(x < 0)
  BY SMT, <1>2
<1> QED
  BY <1>1, <1>2

(* NormalizeTime puts the times of a trading day in their order, although *)
(* the day begins in the evening before and passes midnight.               *)
LEMMA NormalizeKeepsOrder ==
  ASSUME NEW a \in TimesOfDay, NEW b \in TimesOfDay, NormalizeTime(a) >= NormalizeTime(b)
  PROVE  SecondOfDay(a) >= SecondOfDay(b)
<1> DEFINE sa == Seconds(a)
           sb == Seconds(b)
           sc == Seconds(ClearTime)
<1>1. /\ sa \in Nat /\ sb \in Nat /\ sc \in Nat /\ sa < 86400 /\ sb < 86400 /\ sc < 86400
      /\ (a < b <=> sa < sb) /\ (a < ClearTime <=> sa < sc) /\ (b < ClearTime <=> sb < sc)
      /\ a \in Nat /\ b \in Nat /\ a < 240000 /\ b < 240000
  BY ClearTimeAssumption, SecondsInOrder
<1>2. SecondOfDay(a) = (sa - sc) % 86400 /\ SecondOfDay(b) = (sb - sc) % 86400
  BY DEF SecondOfDay
<1> HIDE DEF sa, sb, sc
<1>3. /\ (sa - sc) % 86400 = IF sa < sc THEN sa - sc + 86400 ELSE sa - sc
      /\ (sb - sc) % 86400 = IF sb < sc THEN sb - sc + 86400 ELSE sb - sc
  <2>1. /\ sa - sc \in Int /\ -86400 < sa - sc /\ sa - sc < 86400 /\ (sa - sc < 0 <=> sa < sc)
        /\ sb - sc \in Int /\ -86400 < sb - sc /\ sb - sc < 86400 /\ (sb - sc < 0 <=> sb < sc)
    BY SMT, <1>1
  <2>2. (sa - sc) % 86400 = IF sa - sc < 0 THEN sa - sc + 86400 ELSE sa - sc
    BY <2>1, RemainderOfDay
  <2>3. (sb - sc) % 86400 = IF sb - sc < 0 THEN sb - sc + 86400 ELSE sb - sc
    BY <2>1, RemainderOfDay
  <2> QED
    BY <2>1, <2>2, <2>3
<1>4. (a < ClearTime /\ b < ClearTime /\ ~(a < b)) \/ (a < ClearTime /\ ~(b < ClearTime))
      \/ (~(a < ClearTime) /\ ~(b < ClearTime) /\ ~(a < b))
  <2>1. ClearTime \in Nat
    BY SMT, ClearTimeAssumption, SecondsInOrder
  <2> QED
    BY SMT, <1>1, <2>1 DEF NormalizeTime
<1> QED
  BY SMT, <1>1, <1>2, <1>3, <1>4

LEMMA TriggerIsReason ==
  ASSUME ParkTypeOK, NEW r \in Requests, isTrigged(r)
  PROVE  Reason(r, Now, latestTick, exchStatus)
<1>1. r.type \in Types /\ (r.type = "TIME" => r.stop \in TimesOfDay)
  BY RequestsAssumption, StopTimesAssumption
<1>2. CASE r.type = "TIME"
  <2>1. NormalizeTime(Now) >= NormalizeTime(r.stop)
    BY <1>2 DEF isTrigged
  <2>2. SecondOfDay(Now) >= SecondOfDay(r.stop)
    BY <1>1, <1>2, <2>1, NowIsATime, NormalizeKeepsOrder
  <2> QED
    BY <1>2, <2>2 DEF Reason
<1>3. CASE r.type = "CONDITION"
  BY <1>3 DEF isTrigged, Reason
<1>4. CASE r.type = "EXCHCONTINUE" \/ r.type = "EXCHAUCTION"
  BY <1>4 DEF isTrigged, Reason
<1> QED
  BY <1>1, <1>2, <1>3, <1>4 DEF Types

(* The strengthening: an order whose trigger is pulled is noted, and the   *)
(* main loop goes on with such orders only.                                *)
HeldNow == \A i \in Ids : /\ orders[i] # NoOrder
                          /\ Reason(orders[i].request, Now, latestTick, exchStatus)
                          => i \in held
MainHasReason == work["main"].stage \in {"fill", "ref", "insert", "mark"} => work["main"].at \in held
ReasonInv == HeldNow /\ MainHasReason /\ SentForAReason

LEMMA InitReason == ParkInit => ReasonInv
<1> SUFFICES ASSUME ParkInit PROVE ReasonInv
  OBVIOUS
<1>1. HeldNow
  BY DEF ParkInit, HeldNow
<1>2. MainHasReason
  BY DEF ParkInit, MainHasReason, Idle, Threads
<1>3. SentForAReason
  BY DEF ParkInit, SentForAReason
<1> QED
  BY <1>1, <1>2, <1>3 DEF ReasonInv

(* What the steps leave of the reasons *)
LEMMA HeldKept ==
  ASSUME ParkTypeOK, HeldNow, [ParkNext]_parkVars
  PROVE  HeldNow' /\ held \subseteq held'
<1> USE DEF Threads
<1>1. CASE Hold
  BY <1>1 DEF Hold, HeldNow, Now
<1>2. CASE /\ UNCHANGED <<moment, latestTick, exchStatus, held>>
           /\ \A i \in Ids : orders'[i] # NoOrder => /\ orders[i] # NoOrder
                                                     /\ orders'[i].request = orders[i].request
  BY <1>2 DEF HeldNow, Now
<1>3. ASSUME UNCHANGED <<moment, latestTick, exchStatus, held, orders>> PROVE HeldNow' /\ held \subseteq held'
  BY <1>2, <1>3
<1>4. ASSUME NEW i \in Ids, DeleteOrder(i) PROVE HeldNow' /\ held \subseteq held'
  <2>1. \A j \in Ids : orders'[j] # NoOrder => orders[j] # NoOrder /\ orders'[j].request = orders[j].request
    BY <1>4 DEF DeleteOrder, ParkTypeOK, Orders, NoOrder
  <2> QED
    BY <1>2, <1>4, <2>1 DEF DeleteOrder
<1>5. ASSUME NEW t \in Threads, MarkSend(t) PROVE HeldNow' /\ held \subseteq held'
  <2>1. work[t].at \in Ids /\ orders[work[t].at] \in Orders \ {NoOrder}
    BY <1>5, NothingAssumption DEF MarkSend, ParkTypeOK, Works
  <2>2. \A j \in Ids : orders'[j] # NoOrder => orders[j] # NoOrder /\ orders'[j].request = orders[j].request
    BY <1>5, <2>1 DEF MarkSend, ParkTypeOK, Orders
  <2> QED
    BY <1>2, <1>5, <2>2 DEF MarkSend
<1>6. ASSUME NEW t \in Threads, Sending(t) PROVE HeldNow' /\ held \subseteq held'
  BY <1>3, <1>5, <1>6 DEF Sending, ReadRef, WriteRef, DoReqOrderInsert
<1>7. CASE Consumer
  BY <1>1, <1>3, <1>4, <1>6, <1>7 DEF Consumer, InsertOrder, HumanSend, Hold
<1>8. CASE MainLoop
  BY <1>3, <1>6, <1>8 DEF MainLoop, NextRound, Visit, CheckTrigger
<1>9. CASE Market \/ ClockMoves
  BY <1>1, <1>9 DEF Market, on_market_data, on_rtn_instrument_status, ClockMoves
<1> QED
  BY <1>3, <1>7, <1>8, <1>9 DEF ParkNext, parkVars

(* The main loop takes up an order to send only when it is triggered. *)
LEMMA MainKept ==
  ASSUME ParkTypeOK, HeldNow, MainHasReason, [ParkNext]_parkVars, held \subseteq held'
  PROVE  MainHasReason'
<1> USE DEF Threads
<1>1. ASSUME work'["main"] = work["main"] PROVE MainHasReason'
  BY <1>1 DEF MainHasReason
<1>2. ASSUME NEW t \in Threads, Sending(t) PROVE MainHasReason'
  <2>0. \A u \in Threads : work[u] \in Works
    BY DEF ParkTypeOK
  <2>1. CASE ReadRef(t)
    <3>1. work'["main"].at = work["main"].at
          /\ (work'["main"].stage = "ref" => work["main"].stage \in {"fill", "ref"})
          /\ (work'["main"].stage # "ref" => work'["main"].stage = work["main"].stage)
      BY <2>0, <2>1 DEF ReadRef, Works
    <3> QED
      BY <3>1 DEF MainHasReason
  <2>2. CASE WriteRef(t)
    BY <2>0, <2>2 DEF WriteRef, ParkTypeOK, Works, MainHasReason
  <2>3. CASE DoReqOrderInsert(t)
    BY <2>0, <2>3 DEF DoReqOrderInsert, ParkTypeOK, Works, MainHasReason
  <2>4. CASE MarkSend(t)
    BY <1>1, <2>4 DEF MarkSend, ParkTypeOK, Idle, MainHasReason
  <2> QED
    BY <1>2, <2>1, <2>2, <2>3, <2>4 DEF Sending
<1>3. CASE Consumer
  BY <1>1, <1>2, <1>3 DEF Consumer, InsertOrder, DeleteOrder, HumanSend, ParkTypeOK
<1>4. CASE MainLoop
  <2>1. ASSUME NEW i \in Ids, Visit(i) PROVE MainHasReason'
    <3>1. CASE orders[i].status = "NotSend"
      <4> DEFINE w == [Idle EXCEPT !.at = i, !.stage = "check"]
      <4>1. w.stage = "check"
        BY BeginIsWork DEF Stages
      <4>2. work' = [work EXCEPT !["main"] = w]
        BY <2>1, <3>1 DEF Visit
      <4> HIDE DEF w
      <4> QED
        BY <4>1, <4>2 DEF ParkTypeOK, MainHasReason
    <3>2. CASE orders[i].status # "NotSend"
      BY <1>1, <2>1, <3>2 DEF Visit
    <3> QED
      BY <3>1, <3>2
  <2>2. CASE CheckTrigger
    <3> DEFINE i == work["main"].at
    <3>1. i \in Ids /\ orders[i] # NoOrder /\ orders[i].request \in Requests
      BY <2>2, NothingAssumption DEF CheckTrigger, ParkTypeOK, Works, Orders
    <3>2. CASE isTrigged(orders[i].request)
      <4>1. i \in held
        BY <3>1, <3>2, TriggerIsReason DEF HeldNow
      <4>2. work'["main"].at = i
        BY <2>2, <3>2 DEF CheckTrigger, ParkTypeOK, Works
      <4> QED
        BY <4>1, <4>2 DEF MainHasReason
    <3>3. CASE ~isTrigged(orders[i].request)
      <4>1. work'["main"].stage = "idle"
        BY <2>2, <3>3 DEF CheckTrigger, ParkTypeOK, Idle
      <4> QED
        BY <4>1 DEF MainHasReason
    <3> QED
      BY <3>2, <3>3
  <2> QED
    BY <1>1, <1>2, <1>4, <2>1, <2>2 DEF MainLoop, NextRound
<1>5. CASE Market \/ ClockMoves \/ UNCHANGED parkVars
  BY <1>1, <1>5 DEF Market, on_market_data, on_rtn_instrument_status, ClockMoves, parkVars
<1> QED
  BY <1>3, <1>4, <1>5 DEF ParkNext

(* The main loop sends no order before its time in the trading day has     *)
(* come, its price was seen or its state of the exchange was reported, as  *)
(* CParkUnit::inner_isTrigged is to see to.                                *)
THEOREM TriggeredOrdersOnly == ParkSpec => []SentForAReason
<1> DEFINE ParkInv == ParkTypeOK /\ ReasonInv
<1>1. ParkInit => ParkInv
  BY InitTypeOK, InitReason
<1>2. ParkInv /\ [ParkNext]_parkVars => ParkInv'
  <2> SUFFICES ASSUME ParkInv, [ParkNext]_parkVars PROVE ParkInv'
    OBVIOUS
  <2>1. HeldNow' /\ held \subseteq held' /\ MainHasReason'
    BY HeldKept, MainKept DEF ReasonInv
  <2>2. SentForAReason'
    <3>1. CASE sent' = sent
      BY <2>1, <3>1 DEF ReasonInv, SentForAReason
    <3>2. ASSUME NEW t \in Threads, DoReqOrderInsert(t) PROVE SentForAReason'
      <4> DEFINE e == [id |-> work[t].at, by |-> t, alone |-> work[t].alone,
                       ref |-> <<work[t].second, work[t].no % 1000>>]
      <4>1. sent \in Seq(Sents) /\ sent' = Append(sent, e) /\ work[t].stage = "insert"
        BY <3>2 DEF DoReqOrderInsert, ParkTypeOK
      <4>2. e.id = work[t].at /\ e.by = t /\ (t = "main" => e.id \in held)
        BY <4>1 DEF ReasonInv, MainHasReason
      <4> HIDE DEF e
      <4> QED
        BY <2>1, <4>1, <4>2 DEF ReasonInv, SentForAReason
    <3> QED
      BY <3>1, <3>2, SentChanges
  <2>3. ParkTypeOK'
    BY NextTypeOK
  <2> QED
    BY <2>1, <2>2, <2>3 DEF ReasonInv
<1>3. ParkInv => SentForAReason
  BY DEF ReasonInv
<1> QED
  BY <1>1, <1>2, <1>3, PTL DEF ParkSpec

-----------------------------------------------------------------------------
(* References *)

(* A second is not met again, and has less than 1000 orders: of the number *)
(* three digits are kept.                                                  *)
SecondsDiffer == \A j, k \in DOMAIN Moments : Moments[j] = Moments[k] => j = k
FewPerSecond == \A t \in Threads : work[t].no < 1000

Came(s) == \E m \in DOMAIN Moments : m <= moment /\ Moments[m] = s
Past(s) == \A m \in DOMAIN Moments : m >= moment => Moments[m] # s

RefOf(t) == <<work[t].second, work[t].no>>
MadeAlone(t) == work[t].stage = "insert" /\ work[t].alone

(* The reference (s, n) is finished: the statics have caught up with it or *)
(* its second is over, and so it is with what a thread in genOrderRef will *)
(* write into them.                                                        *)
Behind(s, n) ==
  /\ Came(s)
  /\ Past(s) \/ (s = refs.lastTime /\ n <= refs.reqInsertNo)
  /\ \A t \in Threads : work[t].stage = "ref" =>
        /\ Past(s) \/ (s = work[t].second /\ n < work[t].no)
        /\ work[t].alone => <<s, n>> # RefOf(t)

RefsInv ==
  /\ \A t \in Threads : work[t].stage \in {"ref", "insert"} => Came(work[t].second)
  /\ \A t, u \in Threads : t # u /\ work[t].stage = "ref" /\ work[t].alone => work[u].stage # "ref"
  /\ \A t \in Threads : MadeAlone(t) => Behind(work[t].second, work[t].no)
  /\ \A t, u \in Threads : t # u /\ MadeAlone(t) /\ MadeAlone(u) => RefOf(t) # RefOf(u)
  /\ \A k \in DOMAIN sent : sent[k].alone =>
        /\ Behind(sent[k].ref[1], sent[k].ref[2])
        /\ \A t \in Threads : MadeAlone(t) => sent[k].ref # RefOf(t)
  /\ RefsDiffer

LEMMA SmallRemainder == \A n \in Nat : n < 1000 => n % 1000 = n
BY SMT

(* What is sent has a second and a number. *)
LEMMA SentRef ==
  ASSUME ParkTypeOK, NEW k \in DOMAIN sent
  PROVE  /\ sent[k].ref[1] \in TimesOfDay /\ sent[k].ref[2] \in Nat /\ sent[k].alone \in BOOLEAN
         /\ sent[k].ref = <<sent[k].ref[1], sent[k].ref[2]>>
<1>1. sent[k] \in Sents
  BY DEF ParkTypeOK
<1> QED
  BY <1>1 DEF Sents

(* A second that has come and is not over is now. *)
LEMMA NotPastIsNow ==
  ASSUME ParkTypeOK, SecondsDiffer, NEW s, Came(s), ~Past(s) PROVE s = Now
<1>1. PICK m \in DOMAIN Moments : m <= moment /\ Moments[m] = s
  BY DEF Came
<1>2. PICK k \in DOMAIN Moments : k >= moment /\ Moments[k] = s
  BY DEF Past
<1>3. m = k /\ m \in Int /\ moment \in Int
  BY <1>1, <1>2, MomentsAssumption DEF SecondsDiffer, ParkTypeOK
<1>4. m = moment
  BY <1>1, <1>2, <1>3
<1> QED
  BY <1>1, <1>4 DEF Now

(* Time goes on, and no reference is made or used. *)
LEMMA QuietRefs ==
  ASSUME ParkTypeOK, RefsInv, moment' \in DOMAIN Moments, moment' >= moment, UNCHANGED <<refs, sent>>,
         \A t \in Threads : work'[t].stage \in {"ref", "insert"} => work'[t] = work[t]
  PROVE  RefsInv'
<1>1. \A m \in DOMAIN Moments : m \in Int /\ moment \in Int /\ moment' \in Int
  BY MomentsAssumption DEF ParkTypeOK
<1>2. ASSUME NEW s PROVE (Came(s) => Came(s)') /\ (Past(s) => Past(s)')
  BY <1>1 DEF Came, Past
<1>3. ASSUME NEW t \in Threads, work'[t].stage \in {"ref", "insert"}
      PROVE  /\ work'[t] = work[t] /\ RefOf(t)' = RefOf(t) /\ MadeAlone(t)' = MadeAlone(t)
  BY <1>3 DEF RefOf, MadeAlone
<1>4. ASSUME NEW s, NEW n, Behind(s, n) PROVE Behind(s, n)'
  BY <1>2, <1>3, <1>4 DEF Behind
<1>5. \A t \in Threads : MadeAlone(t)' => MadeAlone(t) /\ work'[t] = work[t] /\ RefOf(t)' = RefOf(t)
  BY <1>3 DEF MadeAlone
<1>6. \A t \in Threads : MadeAlone(t)' => Behind(work[t].second, work[t].no)'
  BY <1>4, <1>5 DEF RefsInv
<1>7. \A k \in DOMAIN sent : sent[k].alone =>
        /\ Behind(sent[k].ref[1], sent[k].ref[2])'
        /\ \A t \in Threads : MadeAlone(t)' => sent[k].ref # RefOf(t)'
  BY <1>4, <1>5 DEF RefsInv
<1>8. /\ (\A t \in Threads : work[t].stage \in {"ref", "insert"} => Came(work[t].second))'
      /\ (\A t, u \in Threads : t # u /\ work[t].stage = "ref" /\ work[t].alone => work[u].stage # "ref")'
  BY <1>2, <1>3 DEF RefsInv
<1>9. RefsDiffer'
  BY DEF RefsInv, RefsDiffer
<1>10. /\ (\A t \in Threads : MadeAlone(t) => Behind(work[t].second, work[t].no))'
       /\ (\A t, u \in Threads : t # u /\ MadeAlone(t) /\ MadeAlone(u) => RefOf(t) # RefOf(u))'
  BY <1>5, <1>6 DEF RefsInv
<1>11. (\A k \in DOMAIN sent : sent[k].alone =>
          /\ Behind(sent[k].ref[1], sent[k].ref[2])
          /\ \A t \in Threads : MadeAlone(t) => sent[k].ref # RefOf(t))'
  BY <1>7
<1> QED
  BY <1>8, <1>9, <1>10, <1>11 DEF RefsInv

LEMMA InitRefs == ParkInit => RefsInv
BY DEF ParkInit, RefsInv, RefsDiffer, MadeAlone, Idle

(* genOrderRef reads: the number it makes is above those of this second. *)
LEMMA ReadRefs ==
  ASSUME ParkTypeOK, SecondsDiffer, RefsInv, NEW t \in Threads, ReadRef(t) PROVE RefsInv'
<1> DEFINE last == IF Now # refs.lastTime THEN 1 ELSE refs.reqInsertNo
           free == \A v \in Threads \ {t} : work[v].stage # "ref"
<1>1. /\ work[t].stage = "fill" /\ UNCHANGED <<moment, refs, sent>>
      /\ work' = [u \in Threads |->
           IF u = t THEN [work[t] EXCEPT !.stage = "ref", !.second = Now, !.no = last + 1, !.alone = free]
           ELSE IF work[u].stage = "ref" THEN [work[u] EXCEPT !.alone = FALSE] ELSE work[u]]
  BY DEF ReadRef
<1>2. \A u \in Threads : work[u] \in Works
  BY DEF ParkTypeOK
<1>3. work'[t].stage = "ref" /\ work'[t].second = Now /\ work'[t].no = last + 1 /\ work'[t].alone = free
  BY <1>1, <1>2 DEF Works
<1>4. ASSUME NEW u \in Threads \ {t}
      PROVE  /\ work[u].stage # "ref" => work'[u] = work[u]
             /\ work[u].stage = "ref" => /\ work'[u].stage = "ref" /\ ~work'[u].alone
                                         /\ work'[u].second = work[u].second /\ work'[u].no = work[u].no
  BY <1>1, <1>2 DEF Works
<1>5. \A s : (Came(s) => Came(s)') /\ (Past(s) => Past(s)')
  BY <1>1 DEF Came, Past
<1>6. moment \in DOMAIN Moments /\ Moments[moment] = Now /\ moment \in Int
  BY MomentsAssumption DEF ParkTypeOK, Now
<1>7. ASSUME NEW s, NEW n \in Nat, Behind(s, n) PROVE Behind(s, n)'
  <2>1. Came(s)' /\ (Past(s) \/ (s = refs.lastTime /\ n <= refs.reqInsertNo))'
    BY <1>1, <1>5, <1>7 DEF Behind
  <2>2. Past(s) => s # Now
    BY <1>6 DEF Past
  <2>3. ~Past(s) => s = Now /\ n < last + 1
    <3>1. ~Past(s) => s = Now /\ s = refs.lastTime /\ n <= refs.reqInsertNo
      BY <1>7, NotPastIsNow DEF Behind
    <3>2. refs.reqInsertNo \in Nat
      BY DEF ParkTypeOK
    <3> QED
      BY <3>1, <3>2
  <2>4. ASSUME NEW u \in Threads, work'[u].stage = "ref"
        PROVE  /\ Past(s)' \/ (s = work'[u].second /\ n < work'[u].no)
               /\ work'[u].alone => <<s, n>> # <<work'[u].second, work'[u].no>>
    <3>1. CASE u = t
      BY <1>3, <1>5, <2>2, <2>3, <3>1
    <3>2. CASE u # t
      BY <1>4, <1>5, <1>7, <2>4, <3>2 DEF Behind
    <3> QED
      BY <3>1, <3>2
  <2> QED
    BY <2>1, <2>4 DEF Behind, RefOf
<1>8. ASSUME NEW u \in Threads, MadeAlone(u)'
      PROVE  MadeAlone(u) /\ work'[u] = work[u] /\ u # t /\ work[u].no \in Nat
  BY <1>2, <1>3, <1>4, <1>8 DEF MadeAlone, Works
<1>9. (\A u \in Threads : work[u].stage \in {"ref", "insert"} => Came(work[u].second))'
  <2> SUFFICES ASSUME NEW u \in Threads, work'[u].stage \in {"ref", "insert"}, NEW s, s = work'[u].second
               PROVE  Came(s)'
    OBVIOUS
  <2>1. CASE u = t
    <3>1. s = Now
      BY <1>3, <2>1
    <3>2. moment' = moment
      BY <1>1
    <3>3. moment <= moment
      BY <1>6
    <3> QED
      BY <1>6, <3>1, <3>2, <3>3 DEF Came
  <2>2. CASE u # t
    BY <1>4, <1>5, <2>2 DEF RefsInv
  <2> QED
    BY <2>1, <2>2
<1>10. (\A u, v \in Threads : u # v /\ work[u].stage = "ref" /\ work[u].alone => work[v].stage # "ref")'
  BY <1>3, <1>4 DEF RefsInv
<1>11. (\A u \in Threads : MadeAlone(u) => Behind(work[u].second, work[u].no))'
  <2> SUFFICES ASSUME NEW u \in Threads, MadeAlone(u)', NEW s, NEW n, s = work'[u].second, n = work'[u].no
               PROVE  Behind(s, n)'
    BY Zenon
  <2> QED
    BY <1>7, <1>8 DEF RefsInv
<1>12. (\A u, v \in Threads : u # v /\ MadeAlone(u) /\ MadeAlone(v) => RefOf(u) # RefOf(v))'
  BY <1>8 DEF RefsInv, RefOf
<1>13. (\A k \in DOMAIN sent : sent[k].alone =>
          /\ Behind(sent[k].ref[1], sent[k].ref[2])
          /\ \A u \in Threads : MadeAlone(u) => sent[k].ref # RefOf(u))'
  <2> SUFFICES ASSUME NEW k \in DOMAIN sent, sent[k].alone, NEW s, NEW n, s = sent[k].ref[1], n = sent[k].ref[2]
               PROVE  Behind(s, n)' /\ \A u \in Threads : MadeAlone(u)' => sent[k].ref # RefOf(u)'
    BY <1>1, Zenon
  <2>1. Behind(s, n)'
    BY <1>7, SentRef DEF RefsInv
  <2>2. \A u \in Threads : MadeAlone(u)' => sent[k].ref # RefOf(u)'
    BY <1>8 DEF RefsInv, RefOf
  <2> QED
    BY <2>1, <2>2
<1>14. RefsDiffer'
  BY <1>1 DEF RefsInv, RefsDiffer
<1> QED
  BY <1>9, <1>10, <1>11, <1>12, <1>13, <1>14 DEF RefsInv

(* genOrderRef writes: a reference made alone is the newest. *)
LEMMA WriteRefs ==
  ASSUME ParkTypeOK, RefsInv, NEW t \in Threads, WriteRef(t) PROVE RefsInv'
<1>1. /\ work[t].stage = "ref" /\ UNCHANGED <<moment, sent>>
      /\ refs'.lastTime = work[t].second /\ refs'.reqInsertNo = work[t].no
  BY DEF WriteRef
<1>2. /\ work'[t].stage = "insert" /\ work'[t].second = work[t].second
      /\ work'[t].no = work[t].no /\ work'[t].alone = work[t].alone /\ work[t].no \in Nat
  BY DEF WriteRef, ParkTypeOK, Works
<1>3. \A u \in Threads \ {t} : work'[u] = work[u]
  BY DEF WriteRef, ParkTypeOK
<1>4. \A s : (Came(s) => Came(s)') /\ (Past(s) => Past(s)')
  BY <1>1 DEF Came, Past
<1>5. ASSUME NEW s, NEW n \in Nat, Behind(s, n) PROVE Behind(s, n)'
  <2>1. Came(s)'
    BY <1>4, <1>5 DEF Behind
  <2>2. Past(s) \/ (s = work[t].second /\ n < work[t].no)
    BY <1>1, <1>5 DEF Behind
  <2>3. n < work[t].no => n <= work[t].no
    BY <1>2
  <2>4. Past(s)' \/ (s = refs'.lastTime /\ n <= refs'.reqInsertNo)
    BY <1>1, <1>4, <2>2, <2>3
  <2>5. ASSUME NEW u \in Threads, work'[u].stage = "ref"
        PROVE  /\ Past(s)' \/ (s = work'[u].second /\ n < work'[u].no)
               /\ work'[u].alone => <<s, n>> # <<work'[u].second, work'[u].no>>
    <3>1. u # t
      BY <1>2, <2>5
    <3> QED
      BY <1>3, <1>4, <1>5, <2>5, <3>1 DEF Behind, RefOf
  <2> QED
    BY <2>1, <2>4, <2>5 DEF Behind, RefOf
<1>6. ASSUME NEW u \in Threads \ {t}
      PROVE  MadeAlone(u)' = MadeAlone(u) /\ RefOf(u)' = RefOf(u)
  BY <1>3 DEF MadeAlone, RefOf
<1>7. RefOf(t)' = RefOf(t) /\ (MadeAlone(t)' => work[t].alone) /\ ~MadeAlone(t)
  BY <1>1, <1>2 DEF MadeAlone, RefOf
<1>8. ASSUME MadeAlone(t)', NEW s, NEW n, s = work'[t].second, n = work'[t].no PROVE Behind(s, n)'
  <2>1. \A u \in Threads : work'[u].stage # "ref"
    BY <1>1, <1>2, <1>3, <1>7, <1>8 DEF RefsInv
  <2>2. Came(s)'
    BY <1>1, <1>2, <1>4, <1>8 DEF RefsInv
  <2>3. n <= work[t].no
    BY <1>2, <1>8
  <2>4. (s = refs.lastTime /\ n <= refs.reqInsertNo)'
    BY <1>1, <1>2, <1>8, <2>3
  <2> QED
    BY <2>1, <2>2, <2>4 DEF Behind
<1>9. ASSUME NEW s, NEW n, Behind(s, n), work[t].alone PROVE <<s, n>> # RefOf(t)
  BY <1>1, <1>9 DEF Behind
<1>10. (\A u \in Threads : MadeAlone(u) => Behind(work[u].second, work[u].no))'
  <2> SUFFICES ASSUME NEW u \in Threads, MadeAlone(u)', NEW s, NEW n, s = work'[u].second, n = work'[u].no
               PROVE  Behind(s, n)'
    BY Zenon
  <2>1. CASE u = t
    BY <1>8, <2>1
  <2>2. CASE u # t
    <3>1. MadeAlone(u) /\ s = work[u].second /\ n = work[u].no
      BY <1>3, <1>6, <2>2
    <3>2. n \in Nat
      BY <3>1 DEF ParkTypeOK, Works
    <3> QED
      BY <1>5, <3>1, <3>2 DEF RefsInv
  <2> QED
    BY <2>1, <2>2
<1>11. ASSUME NEW u \in Threads \ {t}, MadeAlone(u), MadeAlone(t)' PROVE RefOf(u) # RefOf(t)
  BY <1>7, <1>9, <1>11 DEF RefsInv, RefOf
<1>12. (\A u, v \in Threads : u # v /\ MadeAlone(u) /\ MadeAlone(v) => RefOf(u) # RefOf(v))'
  <2> SUFFICES ASSUME NEW u \in Threads, NEW v \in Threads, u # v, MadeAlone(u)', MadeAlone(v)'
               PROVE  RefOf(u)' # RefOf(v)'
    BY Zenon
  <2>1. CASE u # t /\ v # t
    BY <1>6, <2>1 DEF RefsInv
  <2>2. CASE u = t
    BY <1>6, <1>7, <1>11, <2>2
  <2>3. CASE v = t
    BY <1>6, <1>7, <1>11, <2>3
  <2> QED
    BY <2>1, <2>2, <2>3
<1>13. (\A k \in DOMAIN sent : sent[k].alone =>
          /\ Behind(sent[k].ref[1], sent[k].ref[2])
          /\ \A u \in Threads : MadeAlone(u) => sent[k].ref # RefOf(u))'
  <2> SUFFICES ASSUME NEW k \in DOMAIN sent, sent[k].alone, NEW s, NEW n, s = sent[k].ref[1], n = sent[k].ref[2]
               PROVE  Behind(s, n)' /\ \A u \in Threads : MadeAlone(u)' => sent[k].ref # RefOf(u)'
    BY <1>1, Zenon
  <2>1. Behind(s, n) /\ n \in Nat /\ sent[k].ref = <<s, n>>
    BY SentRef DEF RefsInv
  <2>2. ASSUME NEW u \in Threads, MadeAlone(u)' PROVE sent[k].ref # RefOf(u)'
    <3>1. CASE u = t
      BY <1>7, <1>9, <2>1, <2>2, <3>1
    <3>2. CASE u # t
      BY <1>6, <2>2, <3>2 DEF RefsInv
    <3> QED
      BY <3>1, <3>2
  <2> QED
    BY <1>5, <2>1, <2>2
<1>14. RefsDiffer'
  BY <1>1 DEF RefsInv, RefsDiffer
<1>15. (\A u \in Threads : work[u].stage \in {"ref", "insert"} => Came(work[u].second))'
  <2> SUFFICES ASSUME NEW u \in Threads, work'[u].stage \in {"ref", "insert"}, NEW s, s = work'[u].second
               PROVE  Came(s)'
    BY Zenon
  <2> QED
    BY <1>1, <1>2, <1>3, <1>4 DEF RefsInv
<1>16. (\A u, v \in Threads : u # v /\ work[u].stage = "ref" /\ work[u].alone => work[v].stage # "ref")'
  BY <1>2, <1>3 DEF RefsInv
<1> QED
  BY <1>10, <1>12, <1>13, <1>14, <1>15, <1>16 DEF RefsInv

(* The order is sent under the reference that was made for it. *)
LEMMA SendRefs ==
  ASSUME ParkTypeOK, RefsInv, FewPerSecond, NEW t \in Threads, DoReqOrderInsert(t) PROVE RefsInv'
<1> DEFINE e == [id |-> work[t].at, by |-> t, alone |-> work[t].alone,
                 ref |-> <<work[t].second, work[t].no % 1000>>]
           new == Len(sent) + 1
<1>1. /\ work[t].stage = "insert" /\ UNCHANGED <<moment, refs>>
      /\ sent' = Append(sent, e)
  BY DEF DoReqOrderInsert
<1>2. work'[t].stage = "mark" /\ \A u \in Threads \ {t} : work'[u] = work[u]
  BY DEF DoReqOrderInsert, ParkTypeOK, Works
<1>3. work[t].no % 1000 = work[t].no
  <2>1. work[t].no \in Nat /\ work[t].no < 1000
    BY DEF FewPerSecond, ParkTypeOK, Works
  <2> QED
    BY <2>1, SmallRemainder
<1>4. e.alone = work[t].alone /\ e.ref = RefOf(t) /\ e.ref[1] = work[t].second /\ e.ref[2] = work[t].no
  BY <1>3 DEF RefOf
<1>5. DOMAIN sent' = DOMAIN sent \cup {new} /\ sent'[new] = e /\ \A k \in DOMAIN sent : sent'[k] = sent[k] /\ k # new
  <2>1. sent \in Seq(Sents)
    BY DEF ParkTypeOK
  <2> HIDE DEF e
  <2> QED
    BY <1>1, <2>1
<1> HIDE DEF e, new
<1>6. \A s : (Came(s) => Came(s)') /\ (Past(s) => Past(s)')
  BY <1>1 DEF Came, Past
<1>7. \A u \in Threads : MadeAlone(u)' => u # t /\ MadeAlone(u) /\ work'[u] = work[u] /\ RefOf(u)' = RefOf(u)
  BY <1>2 DEF MadeAlone, RefOf
<1>8. ASSUME NEW s, NEW n, Behind(s, n) PROVE Behind(s, n)'
  <2>1. \A u \in Threads : work'[u].stage = "ref" => work'[u] = work[u] /\ RefOf(u)' = RefOf(u)
    BY <1>2 DEF RefOf
  <2> QED
    BY <1>1, <1>6, <1>8, <2>1 DEF Behind
<1>9. e.alone => MadeAlone(t) /\ Behind(e.ref[1], e.ref[2])
  BY <1>1, <1>4 DEF RefsInv, MadeAlone
<1>10. ASSUME NEW k \in DOMAIN sent', sent'[k].alone, NEW s, NEW n, s = sent'[k].ref[1], n = sent'[k].ref[2]
       PROVE  Behind(s, n)' /\ \A u \in Threads : MadeAlone(u)' => sent'[k].ref # RefOf(u)'
  <2>1. CASE k = new
    BY <1>4, <1>5, <1>7, <1>8, <1>9, <1>10, <2>1 DEF RefsInv
  <2>2. CASE k \in DOMAIN sent
    BY <1>5, <1>7, <1>8, <1>10, <2>2 DEF RefsInv
  <2> QED
    BY <1>5, <2>1, <2>2
<1>11. (\A k \in DOMAIN sent : sent[k].alone =>
          /\ Behind(sent[k].ref[1], sent[k].ref[2])
          /\ \A u \in Threads : MadeAlone(u) => sent[k].ref # RefOf(u))'
  BY <1>10, Zenon
<1>12. RefsDiffer'
  <2>1. ASSUME NEW j \in DOMAIN sent, sent[j].alone, e.alone PROVE sent[j].ref # e.ref
    BY <1>4, <1>9, <2>1 DEF RefsInv
  <2> QED
    BY <1>5, <2>1 DEF RefsInv, RefsDiffer
<1>13. (\A u \in Threads : work[u].stage \in {"ref", "insert"} => Came(work[u].second))'
  <2> SUFFICES ASSUME NEW u \in Threads, work'[u].stage \in {"ref", "insert"}, NEW s, s = work'[u].second
               PROVE  Came(s)'
    BY Zenon
  <2> QED
    BY <1>2, <1>6 DEF RefsInv
<1>14. (\A u, v \in Threads : u # v /\ work[u].stage = "ref" /\ work[u].alone => work[v].stage # "ref")'
  BY <1>2 DEF RefsInv
<1>15. (\A u \in Threads : MadeAlone(u) => Behind(work[u].second, work[u].no))'
  <2> SUFFICES ASSUME NEW u \in Threads, MadeAlone(u)', NEW s, NEW n, s = work'[u].second, n = work'[u].no
               PROVE  Behind(s, n)'
    BY Zenon
  <2> QED
    BY <1>7, <1>8 DEF RefsInv
<1>16. (\A u, v \in Threads : u # v /\ MadeAlone(u) /\ MadeAlone(v) => RefOf(u) # RefOf(v))'
  BY <1>7 DEF RefsInv
<1> QED
  BY <1>11, <1>12, <1>13, <1>14, <1>15, <1>16 DEF RefsInv

LEMMA SendingRefs ==
  ASSUME ParkTypeOK, SecondsDiffer, FewPerSecond, RefsInv, NEW t \in Threads, Sending(t) PROVE RefsInv'
<1>1. CASE MarkSend(t)
  <2>1. moment' \in DOMAIN Moments /\ moment' >= moment /\ UNCHANGED <<refs, sent>>
    BY <1>1, MomentsAssumption DEF MarkSend, ParkTypeOK
  <2>2. \A u \in Threads : work'[u].stage \in {"ref", "insert"} => work'[u] = work[u]
    BY <1>1 DEF MarkSend, ParkTypeOK, Idle
  <2> QED
    BY <2>1, <2>2, QuietRefs
<1> QED
  BY <1>1, ReadRefs, WriteRefs, SendRefs DEF Sending

LEMMA NextRefs ==
  ASSUME ParkTypeOK, SecondsDiffer, FewPerSecond, RefsInv, [ParkNext]_parkVars PROVE RefsInv'
<1>1. moment \in DOMAIN Moments /\ moment \in Int /\ moment <= Len(Moments)
  BY MomentsAssumption DEF ParkTypeOK
<1>2. ASSUME UNCHANGED <<moment, refs, sent>>,
             \A t \in Threads : work'[t].stage \in {"ref", "insert"} => work'[t] = work[t]
      PROVE  RefsInv'
  <2>1. moment' \in DOMAIN Moments /\ moment' >= moment
    BY <1>1, <1>2
  <2> QED
    BY <1>2, <2>1, QuietRefs
<1>3. CASE Consumer
  <2>1. ASSUME NEW r \in Requests, InsertOrder(r) PROVE RefsInv'
    BY <1>2, <2>1 DEF InsertOrder
  <2>2. ASSUME NEW i \in Ids, DeleteOrder(i) PROVE RefsInv'
    BY <1>2, <2>2 DEF DeleteOrder
  <2>3. ASSUME NEW i \in Ids, HumanSend(i) PROVE RefsInv'
    BY <1>2, <2>3 DEF HumanSend, ParkTypeOK, Idle
  <2>4. CASE Sending("consumer")
    BY <2>4, SendingRefs DEF Threads
  <2> QED
    BY <1>3, <2>1, <2>2, <2>3, <2>4 DEF Consumer
<1>4. CASE MainLoop
  <2>1. CASE NextRound
    BY <1>2, <2>1 DEF NextRound
  <2>2. ASSUME NEW i \in Ids, Visit(i) PROVE RefsInv'
    BY <1>2, <2>2 DEF Visit, ParkTypeOK, Idle
  <2>3. CASE CheckTrigger
    BY <1>2, <2>3 DEF CheckTrigger, ParkTypeOK, Idle, Works
  <2>4. CASE Sending("main")
    BY <2>4, SendingRefs DEF Threads
  <2> QED
    BY <1>4, <2>1, <2>2, <2>3, <2>4 DEF MainLoop
<1>5. CASE Market
  BY <1>2, <1>5 DEF Market, on_market_data, on_rtn_instrument_status
<1>6. CASE ClockMoves
  <2>1. moment' \in DOMAIN Moments /\ moment' >= moment /\ UNCHANGED <<work, refs, sent>>
    BY <1>1, <1>6, MomentsAssumption DEF ClockMoves
  <2> QED
    BY <2>1, QuietRefs
<1>7. CASE UNCHANGED parkVars
  BY <1>2, <1>7 DEF parkVars
<1> QED
  BY <1>3, <1>4, <1>5, <1>6, <1>7 DEF ParkNext

(* Two orders whose references were made one at a time have different     *)
(* references (CParkUnit::inner_insertOrder with genOrderRef), whichever   *)
(* of the two threads made them and however long the other thread took to  *)
(* hand its order on: the clock shows no second twice within the day, and  *)
(* a second has fewer than 1000 references, of whose number three digits   *)
(* are kept.                                                               *)
THEOREM ReferencesDiffer ==
  ASSUME SecondsDiffer PROVE ParkSpec /\ []FewPerSecond => []RefsDiffer
<1>1. ParkInit => RefsInv
  BY InitRefs
<1>2. ParkTypeOK /\ FewPerSecond /\ RefsInv /\ [ParkNext]_parkVars => RefsInv'
  BY NextRefs
<1>3. RefsInv => RefsDiffer
  BY DEF RefsInv
<1>4. ParkSpec => []ParkTypeOK
  BY ParkTypeCorrect
<1> QED
  BY <1>1, <1>2, <1>3, <1>4, PTL DEF ParkSpec
=============================================================================
