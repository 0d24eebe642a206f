-------------------------------- MODULE Page --------------------------------
(***************************************************************************)
(* Inside one page: frames of different lengths laid end to end in shared  *)
(* memory, found by nothing but the status and length in their headers.    *)
(* The writer may be killed in the middle of a frame, and the next writer  *)
(* starts over at the same place with a frame of another length, so what   *)
(* follows a frame may be left-over data that looks like a header.  Frame  *)
(* ::setStatusWritten is the code that keeps readers from taking it for one. *)
(*                                                                         *)
(* Memory is a row of cells; a header takes one cell, data the others.     *)
(* Stores become visible in program order (a volatile status byte, x86).   *)
(***************************************************************************)
EXTENDS Integers

CONSTANTS
    Readers,    \* processes that read the page
    Size,       \* JOURNAL_PAGE_SIZE, in cells
    Headroom,   \* PAGE_MIN_HEADROOM, in cells
    Lengths     \* the lengths of the frames that are written, header included

\* A frame and the header after it fit in the headroom: true of every message
\* struct of the system (2 MB), checked nowhere.
ASSUME PageAssumption ==
    /\ Size \in Nat /\ Headroom \in Nat
    /\ Headroom < Size
    /\ Lengths \subseteq 1 .. Headroom

Cells == 0 .. (Size - 1)
First == 0                      \* PAGE_INIT_POSITION

Raw == "RAW"
Written == "WRITTEN"
PageEnd == "PAGE_END"
FrameStatus == {Raw, Written, PageEnd}

VARIABLES
    status,     \* status[x]: what a header at cell x would have as status
    length,     \* length[x]: ... and as length
    wpc, wpos,  \* the writer: step of write_frame_full, Page::position
    rpos,       \* rpos[r]: position of reader r, or Nowhere
    tail,       \* history: the end of the last published frame
    index       \* history: index[x] frames precede the boundary x

vars == <<status, length, wpc, wpos, rpos, tail, index>>

Nowhere == -1

TypeOK ==
    /\ status \in [Cells -> FrameStatus]
    /\ length \in [Cells -> Nat]
    /\ wpc \in {"scan", "ready", "filled", "cleared", "closed"}
    /\ wpos \in Cells
    /\ rpos \in [Readers -> Cells \cup {Nowhere}]
    /\ tail \in Cells
    /\ index \in [Cells -> Nat]

Init ==
    /\ status = [x \in Cells |-> Raw]
    /\ length = [x \in Cells |-> 0]
    /\ wpc = "scan" /\ wpos = First
    /\ rpos = [r \in Readers |-> Nowhere]
    /\ tail = First
    /\ index = [x \in Cells |-> 0]

-----------------------------------------------------------------------------
\* Mutant of HasHeadroom: the page is full only when the next frame's header
\* would not fit.
HasRoomForHeader == wpos + 1 < Size

\* Mutant of ClearNext: the next status is not cleared.
ClearNothing ==
    /\ wpc = "filled"
    /\ wpc' = "cleared"
    /\ UNCHANGED <<status, length, wpos, rpos, tail, index>>

\* Mutant of SetWritten: the writer forgets to pass its frame, and the next
\* write goes over it.
SetWrittenInPlace ==
    /\ wpc = "cleared"
    /\ status' = [status EXCEPT ![wpos] = Written]
    /\ wpc' = "ready"
    /\ tail' = wpos + length[wpos]
    /\ index' = [index EXCEPT ![wpos + length[wpos]] = index[wpos] + 1]
    /\ UNCHANGED <<length, wpos, rpos>>

-----------------------------------------------------------------------------
\* Page::passWrittenFrame, one frame of it
PassWritten ==
    /\ wpc = "scan"
    /\ status[wpos] = Written
    /\ wpos' = wpos + length[wpos]
    /\ UNCHANGED <<status, length, wpc, rpos, tail, index>>

PassedWritten ==
    /\ wpc = "scan"
    /\ status[wpos] # Written
    /\ wpc' = IF status[wpos] = Raw THEN "ready" ELSE "closed"
    /\ UNCHANGED <<status, length, wpos, rpos, tail, index>>

\* Page::locateWritableFrame's second condition
HasHeadroom == wpos + Headroom < Size

\* Frame::setErrorData: the data (any bytes) and the length are stored, and
\* the status is not touched.
Fill ==
    /\ wpc = "ready"
    /\ HasHeadroom
    /\ \E len \in Lengths :
        LET data == (wpos + 1) .. (wpos + len - 1)
        IN \E s \in [data -> FrameStatus], l \in [data -> Lengths] :
            /\ status' = [x \in Cells |-> IF x \in data THEN s[x] ELSE status[x]]
            /\ length' = [x \in Cells |-> IF x = wpos THEN len
                                          ELSE IF x \in data THEN l[x] ELSE length[x]]
    /\ wpc' = "filled"
    /\ UNCHANGED <<wpos, rpos, tail, index>>

\* Frame::setStatusWritten: first the status after the frame ...
ClearNext ==
    /\ wpc = "filled"
    /\ status' = [status EXCEPT ![wpos + length[wpos]] = Raw]
    /\ wpc' = "cleared"
    /\ UNCHANGED <<length, wpos, rpos, tail, index>>

\* ... then its own, which publishes it; Page::passFrame steps over it.
SetWritten ==
    /\ wpc = "cleared"
    /\ status' = [status EXCEPT ![wpos] = Written]
    /\ wpos' = wpos + length[wpos]
    /\ wpc' = "ready"
    /\ tail' = wpos + length[wpos]
    /\ index' = [index EXCEPT ![wpos + length[wpos]] = index[wpos] + 1]
    /\ UNCHANGED <<length, rpos>>

\* Page::finishPage
FinishPage ==
    /\ wpc = "ready"
    /\ ~HasHeadroom
    /\ status' = [status EXCEPT ![wpos] = PageEnd]
    /\ wpc' = "closed"
    /\ UNCHANGED <<length, wpos, rpos, tail, index>>

\* The writer's process ends, wherever it is, and another one opens the page.
WriterRestart ==
    /\ wpc' = "scan"
    /\ wpos' = First
    /\ UNCHANGED <<status, length, rpos, tail, index>>

\* A reader maps the page and starts at its first frame.
Attach(r) ==
    /\ rpos' = [rpos EXCEPT ![r] = First]
    /\ rpos[r] = Nowhere
    /\ UNCHANGED <<status, length, wpc, wpos, tail, index>>

\* Page::locateReadableFrame and Page::passFrame
Read(r) ==
    /\ rpos[r] # Nowhere
    /\ status[rpos[r]] = Written
    /\ rpos' = [rpos EXCEPT ![r] = rpos[r] + length[rpos[r]]]
    /\ UNCHANGED <<status, length, wpc, wpos, tail, index>>

Next ==
    \/ PassWritten \/ PassedWritten
    \/ Fill \/ ClearNext \/ SetWritten \/ FinishPage \/ WriterRestart
    \/ \E r \in Readers : Attach(r) \/ Read(r)

Spec == Init /\ [][Next]_vars

-----------------------------------------------------------------------------
\* The published frames are the boundaries from First up to tail.
PublishedAt(x) == x < tail /\ status[x] = Written /\ index[x + length[x]] = index[x] + 1

\* Nobody ever takes left-over data for a header: readers, and a writer that
\* looks for the end, only stand on published frames or behind the last one.
OnFrameBoundary ==
    \A x \in {rpos[r] : r \in Readers} \cup {wpos} :
        x # Nowhere => x = tail \/ PublishedAt(x)

\* What the writer stores stays inside the page, the next header included.
StaysInPage ==
    wpc \in {"filled", "cleared"} => wpos + length[wpos] < Size

\* The page gives each reader its frames in order, each once, none torn.
Log == INSTANCE FrameLog WITH
    published <- index[tail],
    cursor <- [r \in Readers |-> IF rpos[r] = Nowhere THEN -1 ELSE index[rpos[r]]]
ImplementsFrameLog == Log!LogSpec
=============================================================================
