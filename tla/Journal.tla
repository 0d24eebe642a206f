------------------------------ MODULE Journal ------------------------------
(***************************************************************************)
(* One journal: a sequence of memory-mapped page files written by a single *)
(* JournalWriter and polled by JournalReaders in other processes.  There   *)
(* is no lock between them.  All they share is the memory of the pages:    *)
(* the status byte of every frame slot and the header of every page.       *)
(*                                                                         *)
(* A slot is one frame (Page.tla looks inside a page, byte by byte).  How  *)
(* many frames fit in a page depends on their sizes, so full[p] is chosen  *)
(* when a frame is published, and is forced at PageFrames.                 *)
(***************************************************************************)
EXTENDS Integers

CONSTANTS
    Readers,     \* JournalReaders of this journal
    Revisers,    \* those made by createRevisableReader (the trade engine's)
    MaxPage,     \* bound on the page numbers
    PageFrames,  \* bound on the frames of a page
    MaxTime,     \* bound on the clock
    CrashPoints  \* the writer states in which its process may be killed

ASSUME JournalAssumption ==
    /\ Revisers \subseteq Readers
    /\ MaxPage \in Nat \ {0}
    /\ PageFrames \in Nat \ {0}
    /\ MaxTime \in Nat \ {0}
    /\ CrashPoints \subseteq {"loading", "idle", "stamped", "rolling", "closing"}

Pages == 1 .. MaxPage
Slots == 1 .. (PageFrames + 1)      \* the last one can only hold PAGE_END

(***************************************************************************)
(* JOURNAL_FRAME_STATUS_*, the state of a page file and of its header.     *)
(***************************************************************************)
Raw == "RAW"
Written == "WRITTEN"
PageEnd == "PAGE_END"
FrameStatus == {Raw, Written, PageEnd}

Absent == "absent"                  \* no such file
Blank == "blank"                    \* file of zeroes, JOURNAL_PAGE_STATUS_RAW
Inited == "inited"                  \* JOURNAL_PAGE_STATUS_INITED
PageStates == {Absent, Blank, Inited}

VARIABLES
    \* the page files
    header,      \* header[p]: does page p exist and is its header filled in
    startNano,   \* startNano[p]: start_nano of the header, 0 while blank
    status,      \* status[p][s]: the status byte of slot s
    nano,        \* nano[p][s]: the nano stamp in slot s
    content,     \* content[p][s]: which write filled slot s (1st, 2nd, ...)
    full,        \* full[p]: less than PAGE_MIN_HEADROOM is left in page p
    now,         \* the clock all processes of the machine read
    \* the writer process
    wpc, wpage, wslot,
    \* the reader processes
    rpc, rpage, rslot, since,
    \* history: what was published, where pages begin, what readers were given
    published, base, cursor

files == <<header, startNano, status, nano, content, full>>
writer == <<wpc, wpage, wslot>>
readers == <<rpc, rpage, rslot, since>>
history == <<published, base, cursor>>
vars == <<files, now, writer, readers, history>>

Off == -1

TypeOK ==
    /\ header \in [Pages -> PageStates]
    /\ startNano \in [Pages -> Nat]
    /\ status \in [Pages -> [Slots -> FrameStatus]]
    /\ nano \in [Pages -> [Slots -> Nat]]
    /\ content \in [Pages -> [Slots -> Nat]]
    /\ full \in [Pages -> BOOLEAN]
    /\ now \in Nat
    /\ wpc \in {"down", "loading", "idle", "stamped", "rolling", "closing", "dead"}
    /\ wpage \in Pages
    /\ wslot \in Slots
    /\ rpc \in [Readers -> {"off", "seeking", "picked", "reading", "expired"}]
    /\ rpage \in [Readers -> Pages]
    /\ rslot \in [Readers -> Slots]
    /\ since \in [Readers -> Nat]
    /\ published \in Nat
    /\ base \in [Pages -> Nat]
    /\ cursor \in [Readers -> Nat \cup {Off}]

Init ==
    /\ header = [p \in Pages |-> Absent]
    /\ startNano = [p \in Pages |-> 0]
    /\ status = [p \in Pages |-> [s \in Slots |-> Raw]]
    /\ nano = [p \in Pages |-> [s \in Slots |-> 0]]
    /\ content = [p \in Pages |-> [s \in Slots |-> 0]]
    /\ full = [p \in Pages |-> FALSE]
    /\ now = 1
    /\ wpc = "down" /\ wpage = 1 /\ wslot = 1
    /\ rpc = [r \in Readers |-> "off"]
    /\ rpage = [r \in Readers |-> 1]
    /\ rslot = [r \in Readers |-> 1]
    /\ since = [r \in Readers |-> 0]
    /\ published = 0
    /\ base = [p \in Pages |-> 0]
    /\ cursor = [r \in Readers |-> Off]

-----------------------------------------------------------------------------
(***************************************************************************)
(* Page files.                                                             *)
(***************************************************************************)

Exists(p) == header[p] # Absent

\* PageEngine::initiate_page for a writer: an absent file is created, zeroed.
AllocatePage(p) ==
    /\ header' = [header EXCEPT ![p] = IF @ = Absent THEN Blank ELSE @]
    /\ base' = [base EXCEPT ![p] = IF header[p] = Absent THEN published ELSE @]

\* Page::load with isWriting: a blank header is filled in, others are kept.
LoadHeader(p) ==
    /\ header' = [header EXCEPT ![p] = Inited]
    /\ startNano' = [startNano EXCEPT ![p] = IF header[p] = Blank THEN now ELSE @]

\* May reader r map page p?  The engine refuses an absent file; Page::load
\* refuses a blank header, unless the reader may revise (it then fills it in).
Loadable(r, p) ==
    /\ p \in Pages
    /\ header[p] = Inited \/ (header[p] = Blank /\ r \in Revisers)

\* PageUtil::GetPageNums(...).back(), or page 1
IsLastPage(p) ==
    \/ Exists(p) /\ \A q \in Pages : Exists(q) => q <= p
    \/ p = 1 /\ \A q \in Pages : ~Exists(q)

\* PageUtil::GetPageNumWithTime: the last file whose start_nano is before t
StartsBefore(p, t) == Exists(p) /\ startNano[p] < t

IsPageWithTime(p, t) ==
    \/ StartsBefore(p, t) /\ \A q \in Pages : StartsBefore(q, t) => q <= p
    \/ p = 1 /\ \A q \in Pages : ~StartsBefore(q, t)

\* Page::passWrittenFrame: s is the first slot that is not written
EndOfWritten(p, s) ==
    /\ status[p][s] # Written
    /\ \A i \in Slots : i < s => status[p][i] = Written

\* Mutant of EndOfBefore: passes the frames stamped t as well.
EndOfBeforeOffByOne(p, s, t) ==
    /\ ~(status[p][s] = Written /\ nano[p][s] <= t)
    /\ \A i \in Slots : i < s => status[p][i] = Written /\ nano[p][i] <= t

\* Page::passToTime: s is the first slot not both written and before t
EndOfBefore(p, s, t) ==
    /\ ~(status[p][s] = Written /\ nano[p][s] < t)
    /\ \A i \in Slots : i < s => status[p][i] = Written /\ nano[p][i] < t

-----------------------------------------------------------------------------
(***************************************************************************)
(* Mutants: plausible bugs that the properties below must notice.          *)
(***************************************************************************)

\* Of WriterLoad: a new writer starts at the top of the last page.
WriterLoadAtTop ==
    /\ wpc = "loading"
    /\ LoadHeader(wpage)
    /\ wslot' = 1
    /\ wpc' = "idle"
    /\ UNCHANGED <<status, nano, content, full, now, wpage, readers, history>>

\* Of TurnPage: the reader keeps its position in the new page.
TurnPageKeepsSlot(r) ==
    /\ rpc[r] = "reading"
    /\ status[rpage[r]][rslot[r]] = PageEnd
    /\ Loadable(r, rpage[r] + 1)
    /\ rpage' = [rpage EXCEPT ![r] = @ + 1]
    /\ LoadHeader(rpage[r] + 1)
    /\ UNCHANGED <<status, nano, content, full, now, writer, rpc, rslot, since, history>>

-----------------------------------------------------------------------------
(***************************************************************************)
(* The writer.  JournalWriter::init seeks to the end of the last page; the *)
(* calls of write_frame_full are serialised by its mutex.                  *)
(***************************************************************************)

\* Journal::seekTime(TIME_TO_LAST): choose the last page, have it allocated.
WriterOpen ==
    /\ wpc = "down"
    /\ \E p \in Pages :
        /\ IsLastPage(p)
        /\ wpage' = p
        /\ AllocatePage(p)
    /\ wpc' = "loading"
    /\ UNCHANGED <<startNano, status, nano, content, full, now, wslot, readers,
                   published, cursor>>

\* ... then Page::load and passWrittenFrame.
WriterLoad ==
    /\ wpc = "loading"
    /\ LoadHeader(wpage)
    /\ \E s \in Slots : EndOfWritten(wpage, s) /\ wslot' = s
    /\ wpc' = "idle"
    /\ UNCHANGED <<status, nano, content, full, now, wpage, readers, history>>

\* write_frame_full up to setNano: the frame is filled in, still RAW.
Stamp ==
    /\ wpc = "idle"
    /\ ~full[wpage]
    /\ content' = [content EXCEPT ![wpage][wslot] = published + 1]
    /\ nano' = [nano EXCEPT ![wpage][wslot] = now]
    /\ wpc' = "stamped"
    /\ UNCHANGED <<header, startNano, status, full, now, wpage, wslot, readers, history>>

\* Frame::setStatusWritten (next slot RAW, this one WRITTEN) and passFrame.
Publish ==
    /\ wpc = "stamped"
    /\ status' = [status EXCEPT ![wpage] = [@ EXCEPT ![wslot + 1] = Raw, ![wslot] = Written]]
    /\ wslot' = wslot + 1
    /\ \E f \in BOOLEAN :
        /\ (wslot = PageFrames) => f
        /\ full' = [full EXCEPT ![wpage] = f]
    /\ published' = published + 1
    /\ wpc' = "idle"
    /\ UNCHANGED <<header, startNano, nano, content, now, wpage, readers, base, cursor>>

\* Journal::loadNextPage, in its order: the next page is allocated ...
RollAllocate ==
    /\ wpc = "idle"
    /\ full[wpage]
    /\ wpage < MaxPage                               \* bound
    /\ AllocatePage(wpage + 1)
    /\ wpc' = "rolling"
    /\ UNCHANGED <<startNano, status, nano, content, full, now, wpage, wslot, readers,
                   published, cursor>>

\* ... its header is filled in ...
RollLoad ==
    /\ wpc = "rolling"
    /\ LoadHeader(wpage + 1)
    /\ wpc' = "closing"
    /\ UNCHANGED <<status, nano, content, full, now, wpage, wslot, readers, history>>

\* ... and only then Page::finishPage ends the current page.
RollClose ==
    /\ wpc = "closing"
    /\ status' = [status EXCEPT ![wpage][wslot] = PageEnd]
    /\ wpage' = wpage + 1
    /\ wslot' = 1
    /\ wpc' = "idle"
    /\ UNCHANGED <<header, startNano, nano, content, full, now, readers, history>>

\* ~JournalHandler between two writes: the engine forgets the client.
WriterExit ==
    /\ wpc = "idle"
    /\ wpc' = "down"
    /\ UNCHANGED <<files, now, wpage, wslot, readers, history>>

\* The process dies anywhere.  The engine keeps its page counts, so no other
\* writer is admitted until the engine itself is restarted.
WriterKilled ==
    /\ wpc \in CrashPoints
    /\ wpc' = "dead"
    /\ UNCHANGED <<files, now, wpage, wslot, readers, history>>

-----------------------------------------------------------------------------
(***************************************************************************)
(* A reader.                                                               *)
(***************************************************************************)

\* The readers of S hold no page: curPage is null.
NoPage(S) ==
    /\ rpage' = [r \in Readers |-> IF r \in S THEN 1 ELSE rpage[r]]
    /\ rslot' = [r \in Readers |-> IF r \in S THEN 1 ELSE rslot[r]]
    /\ cursor' = [r \in Readers |-> IF r \in S THEN Off ELSE cursor[r]]

\* Journal::seekTime(t), from JournalReader::create or seekTimeJournal: t is
\* the current time, the time of an earlier frame, or 0 (TIME_FROM_FIRST).
SeekTime(r) ==
    /\ rpc[r] \in {"off", "reading", "expired"}
    /\ \E t \in 0 .. now : since' = [since EXCEPT ![r] = t]
    /\ rpc' = [rpc EXCEPT ![r] = "seeking"]
    /\ NoPage({r})
    /\ UNCHANGED <<files, now, writer, published, base>>

\* The page files are listed and their headers read ...
PickPage(r) ==
    /\ rpc[r] = "seeking"
    /\ \E p \in Pages : IsPageWithTime(p, since[r]) /\ rpage' = [rpage EXCEPT ![r] = p]
    /\ rpc' = [rpc EXCEPT ![r] = "picked"]
    /\ UNCHANGED <<files, now, writer, rslot, since, history>>

\* ... the page is mapped, and frames older than t are passed over ...
Attach(r) ==
    /\ rpc[r] = "picked"
    /\ Loadable(r, rpage[r])
    /\ LoadHeader(rpage[r])
    /\ \E s \in Slots :
        /\ EndOfBefore(rpage[r], s, since[r])
        /\ rslot' = [rslot EXCEPT ![r] = s]
        /\ cursor' = [cursor EXCEPT ![r] =
                         IF s = 1 THEN base[rpage[r]] ELSE content[rpage[r]][s - 1]]
    /\ rpc' = [rpc EXCEPT ![r] = "reading"]
    /\ UNCHANGED <<status, nano, content, full, now, writer, rpage, since, published, base>>

\* ... or the page cannot be mapped: the journal stays expired, in silence.
AttachFails(r) ==
    /\ rpc[r] = "picked"
    /\ ~Loadable(r, rpage[r])
    /\ rpc' = [rpc EXCEPT ![r] = "expired"]
    /\ NoPage({r})
    /\ UNCHANGED <<files, now, writer, since, published, base>>

\* getNextFrame: locateFrame finds a written frame, passFrame steps over it.
ReadFrame(r) ==
    /\ rpc[r] = "reading"
    /\ status[rpage[r]][rslot[r]] = Written
    /\ cursor' = [cursor EXCEPT ![r] = content[rpage[r]][rslot[r]]]
    /\ rslot' = [rslot EXCEPT ![r] = @ + 1]
    /\ UNCHANGED <<files, now, writer, rpc, rpage, since, published, base>>

\* getNextFrame: locateFrame is at PAGE_END and maps the next page.  Were
\* that page missing, curPage would become null and the next poll would map
\* page 1 and give every frame again.
TurnPage(r) ==
    /\ rpc[r] = "reading"
    /\ status[rpage[r]][rslot[r]] = PageEnd
    /\ LET next == IF Loadable(r, rpage[r] + 1) THEN rpage[r] + 1 ELSE 1
       IN /\ rpage' = [rpage EXCEPT ![r] = next]
          /\ LoadHeader(next)
    /\ rslot' = [rslot EXCEPT ![r] = 1]
    /\ UNCHANGED <<status, nano, content, full, now, writer, rpc, since, history>>

\* Journal::expire, called when the strategy behind the journal has ended.
Expire(r) ==
    /\ rpc[r] = "reading"
    /\ rpc' = [rpc EXCEPT ![r] = "expired"]
    /\ NoPage({r})
    /\ UNCHANGED <<files, now, writer, since, published, base>>

-----------------------------------------------------------------------------
Tick ==
    /\ now < MaxTime                                 \* bound
    /\ now' = now + 1
    /\ UNCHANGED <<files, writer, readers, history>>

\* Every process of the machine is stopped and started again, at a later
\* time; the page files stay.
Restart ==
    /\ wpc \in CrashPoints \cup {"down", "dead"}
    /\ now < MaxTime                                 \* bound
    /\ now' = now + 1
    /\ wpc' = "down"
    /\ rpc' = [r \in Readers |-> "off"]
    /\ NoPage(Readers)
    /\ UNCHANGED <<files, wpage, wslot, since, published, base>>

WriterStep ==
    \/ WriterOpen \/ WriterLoad
    \/ Publish \/ RollAllocate \/ RollLoad \/ RollClose

ReaderStep(r) == PickPage(r) \/ Attach(r) \/ AttachFails(r) \/ ReadFrame(r) \/ TurnPage(r)

Next ==
    \/ WriterStep \/ Stamp \/ WriterExit \/ WriterKilled
    \/ \E r \in Readers : ReaderStep(r) \/ SeekTime(r) \/ Expire(r)
    \/ Tick \/ Restart

Spec == Init /\ [][Next]_vars

(***************************************************************************)
(* A started call of the writer runs to its end, and a reader keeps        *)
(* polling (getNextFrame is called in a loop of its own thread).  Nothing  *)
(* makes anybody write, seek, exit or restart.                             *)
(***************************************************************************)
Fairness ==
    /\ WF_vars(WriterStep)
    /\ \A r \in Readers : WF_vars(ReaderStep(r))

FairSpec == Spec /\ Fairness

-----------------------------------------------------------------------------
(***************************************************************************)
(* Correctness.                                                            *)
(***************************************************************************)

\* A page is ended only once the next one can be mapped: what keeps a reader
\* at PAGE_END from losing its place (Journal::loadNextPage's order).
EndedPageHasNext ==
    \A p \in Pages : \A s \in Slots :
        status[p][s] = PageEnd => p < MaxPage /\ header[p + 1] = Inited

\* The journal is one log whose readers each get every frame from where they
\* attached, in order and once: across page turns, kills and restarts.
Log == INSTANCE FrameLog
ImplementsFrameLog == Log!LogSpec

\* r is attaching and passes over a frame stamped t or later.
PassesOverLater(r) ==
    /\ cursor[r] = Off /\ cursor'[r] # Off
    /\ \E p \in Pages, s \in Slots :
        /\ status[p][s] = Written /\ content[p][s] <= cursor'[r]
        /\ nano[p][s] >= since[r]

\* seekTime(t) passes over no frame stamped t or later, in any page, although
\* it looks at one page only (PageUtil.h: "select page number ... which contains
\* the nano time"), if the page it picks started before t.  The condition is
\* the one gap the code leaves: a page file that is still blank reads as started
\* at time 0, is preferred to the page that holds t, and may be filled in before
\* it is mapped.
SeekToStartedPageSkipsNothing ==
    [][\A r \in Readers : PassesOverLater(r) => startNano[rpage[r]] \notin 1 .. since[r] - 1]_vars

\* A published frame is never changed or withdrawn (JournalWriter.h: "journal
\* can only be appended in the back, no modification of existing frames").
AppendOnly ==
    [][\A p \in Pages, s \in Slots :
        status[p][s] = Written =>
            /\ status'[p][s] = Written
            /\ content'[p][s] = content[p][s]
            /\ nano'[p][s] = nano[p][s]]_vars

\* A writer was killed inside Journal::loadNextPage: the next page is there,
\* and the one before will never be ended.
PageLeftOpen ==
    \E p \in 1 .. (MaxPage - 1) :
        /\ Exists(p + 1) /\ \A s \in Slots : status[p][s] # PageEnd
        /\ ~(wpc \in {"rolling", "closing"} /\ wpage = p)

\* A reader that stays attached is given every frame that is published, unless
\* a page was left without an end.
EveryFrameArrives ==
    \A r \in Readers : \A n \in 1 .. (MaxPage * PageFrames) :
        (cursor[r] # Off /\ published >= n) ~> (cursor[r] >= n \/ cursor[r] = Off \/ PageLeftOpen)
=============================================================================
