----------------------------- MODULE PageEngine -----------------------------
(***************************************************************************)
(* The page engine, the daemon through which processes get the pages of    *)
(* journals, and its clients (ClientPageProvider inside a JournalWriter or *)
(* a JournalReader).                                                       *)
(*                                                                         *)
(* Clients call the engine over a socket (register, exit, log in ...); the *)
(* socket thread runs each call to its end under paged_mtx.  Pages are     *)
(* requested through a shared file of PageCommMsg slots instead: a client  *)
(* writes REQUESTING into its slot and spins, the comm thread polls the    *)
(* slots without the mutex and takes it to serve a request.  The engine is *)
(* its own client as the writer of the system journal.                     *)
(***************************************************************************)
EXTENDS Integers, FiniteSets

CONSTANTS
    Clients,        \* names of the clients
    Engine,         \* the one among them that is the engine itself
    Writers,        \* clients that are JournalWriters, the others are readers
    Strategies,     \* writers that register as strategies
    Journals,
    Opens,          \* Opens[c]: the journals of client c, one if it is a writer
    MaxUsers,       \* MAX_COMM_USER_NUMBER
    MaxPage,        \* bound on the page numbers
    SystemFills     \* may the page of the system journal get full?

ASSUME PageEngineAssumption ==
    /\ Engine \in Writers /\ Writers \subseteq Clients /\ Strategies \subseteq Writers
    /\ Opens \in [Clients -> SUBSET Journals]
    /\ \A c \in Writers : \E j \in Journals : Opens[c] = {j}
    /\ MaxUsers \in Nat \ {0} /\ MaxPage \in Nat \ {0}
    /\ SystemFills \in BOOLEAN

Pages == 1 .. MaxPage
Files == Journals \X Pages
Slots == 0 .. MaxUsers       \* the comm file has room behind its last user

\* PAGED_COMM_*
Statuses == {"RAW", "OCCUPIED", "HOLDING", "REQUESTING", "ALLOCATED", "NON_EXIST",
             "MORE_THAN_ONE_WRITE"}
Expired == -1                \* the page number Journal::expire asks for
NoJournal == "none"
NoSlot == -1

VARIABLES
    \* the comm file: PageCommMsg of every slot
    status, journal, isWriter, page, lastPage,
    \* the engine: clientJournals with their user_index_vec, maxIdx, ...
    registered, userIndex, maxIdx,
    \* ... fileWriterCounts, fileReaderCounts and fileAddrs
    writerCount, readerCount, mapped,
    \* ... paged_mtx, and the slot whose request the comm thread has seen
    mutex, seen,
    \* the page files: how many a journal has, and which have no room left
    pages, full,
    \* a client: what it does, with which slot, the page it will ask for
    cpc, cslot, cpage

comm == <<status, journal, isWriter, page, lastPage>>
clientInfo == <<registered, userIndex, maxIdx>>
counts == <<writerCount, readerCount, mapped>>
threads == <<mutex, seen>>
files == <<pages, full>>
client == <<cpc, cslot, cpage>>
vars == <<comm, clientInfo, counts, threads, files, client>>

TypeOK ==
    /\ status \in [Slots -> Statuses]
    /\ journal \in [Slots -> Journals \cup {NoJournal}]
    /\ isWriter \in [Slots -> BOOLEAN]
    /\ page \in [Slots -> Pages \cup {0, Expired}]
    /\ lastPage \in [Slots -> Pages \cup {0, Expired}]
    /\ registered \subseteq Clients
    /\ userIndex \in [Clients -> SUBSET Slots]
    /\ maxIdx \in Slots
    /\ writerCount \in [Files -> 0 .. 1]
    /\ readerCount \in [Files -> Int]
    /\ mapped \subseteq Files
    /\ mutex \in {"free", "socket"}
    /\ seen \in Slots \cup {NoSlot}
    /\ pages \in [Journals -> 0 .. MaxPage]
    /\ full \subseteq Files
    /\ cpc \in [Clients -> {"out", "in", "naming", "picked", "waiting", "failed", "dead"}]
    /\ cslot \in [Clients -> Slots \cup {NoSlot}]
    /\ cpage \in [Clients -> Pages \cup {0}]

Everywhere(S, v) == [x \in S |-> v]

Init ==
    /\ status = Everywhere(Slots, "RAW")
    /\ journal = Everywhere(Slots, NoJournal)
    /\ isWriter = Everywhere(Slots, FALSE)
    /\ page = Everywhere(Slots, 0)
    /\ lastPage = Everywhere(Slots, 0)
    /\ registered = {}
    /\ userIndex = Everywhere(Clients, {})
    /\ maxIdx = 0
    /\ writerCount = Everywhere(Files, 0)
    /\ readerCount = Everywhere(Files, 0)
    /\ mapped = {}
    /\ mutex = "free" /\ seen = NoSlot
    /\ pages = Everywhere(Journals, 0)
    /\ full = {}
    /\ cpc = Everywhere(Clients, "out")
    /\ cslot = Everywhere(Clients, NoSlot)
    /\ cpage = Everywhere(Clients, 0)

-----------------------------------------------------------------------------
(***************************************************************************)
(* Calls over the socket, each under the mutex.                            *)
(***************************************************************************)

\* ClientPageProvider::register_client -> PageEngine::reg_client.  A name that
\* is registered is refused; the caller throws and nothing changes.
RegClient(c) ==
    /\ mutex = "free"
    /\ cpc[c] = "out"
    /\ c \notin registered
    /\ registered' = registered \cup {c}
    /\ userIndex' = [userIndex EXCEPT ![c] = {}]
    /\ cpc' = [cpc EXCEPT ![c] = "in"]
    /\ UNCHANGED <<comm, maxIdx, counts, threads, files, cslot, cpage>>

\* The journals that client c has registered.
OpenedBy(c) == {journal[i] : i \in userIndex[c]}

\* The slot reg_journal takes: the first RAW one, or the one behind the last,
\* because the test for "none left" is idx > MAX_COMM_USER_NUMBER.
FreeSlot(i) ==
    /\ \A k \in Slots : k < i => status[k] # "RAW"
    /\ i < MaxUsers => status[i] = "RAW"

\* Mutant of RegJournal: maxIdx is not raised.
RegJournalUnpolled(c) ==
    /\ mutex = "free"
    /\ cpc[c] = "in"
    /\ Opens[c] \ OpenedBy(c) # {}
    /\ \E i \in Slots :
        /\ FreeSlot(i)
        /\ status' = [status EXCEPT ![i] = "OCCUPIED"]
        /\ lastPage' = [lastPage EXCEPT ![i] = 0]
        /\ userIndex' = [userIndex EXCEPT ![c] = @ \cup {i}]
        /\ cslot' = [cslot EXCEPT ![c] = i]
    /\ cpc' = [cpc EXCEPT ![c] = "naming"]
    /\ UNCHANGED <<journal, isWriter, page, registered, maxIdx, counts, threads, files, cpage>>

\* ClientPageProvider::register_journal -> PageEngine::reg_journal
RegJournal(c) ==
    /\ mutex = "free"
    /\ cpc[c] = "in"
    /\ Opens[c] \ OpenedBy(c) # {}
    /\ \E i \in Slots :
        /\ FreeSlot(i)
        /\ maxIdx' = IF i > maxIdx THEN i ELSE maxIdx
        /\ status' = [status EXCEPT ![i] = "OCCUPIED"]
        /\ lastPage' = [lastPage EXCEPT ![i] = 0]
        /\ userIndex' = [userIndex EXCEPT ![c] = @ \cup {i}]
        /\ cslot' = [cslot EXCEPT ![c] = i]
    /\ cpc' = [cpc EXCEPT ![c] = "naming"]
    /\ UNCHANGED <<journal, isWriter, page, registered, counts, threads, files, cpage>>

\* ClientPageProvider::getPage up to its loop: client c asks for page p.
Ask(c, i, p) ==
    /\ page' = [page EXCEPT ![i] = p]
    /\ status' = [status EXCEPT ![i] = "REQUESTING"]
    /\ cslot' = [cslot EXCEPT ![c] = i]
    /\ cpc' = [cpc EXCEPT ![c] = "waiting"]

\* Mutant of AllocatedTo: the status of the slot is not looked at.
AnyPageOf(c, f) == {i \in userIndex[c] : f = <<journal[i], page[i]>>}

\* What exit_client takes off the counts: the pages of allocated slots only.
AllocatedTo(c, f) ==
    {i \in userIndex[c] : status[i] = "ALLOCATED" /\ f = <<journal[i], page[i]>>}

\* The page of the system journal has no room: a call that writes to it would
\* have to get the next one.
SystemSlots == {i \in userIndex[Engine] : status[i] = "ALLOCATED"}
SystemPageFull == \E i \in SystemSlots : <<journal[i], page[i]>> \in full

\* The field of a slot of S becomes v.  (The code makes a slot RAW and leaves
\* its name, folder, is_writer and page_num; the next user writes them before
\* anybody reads them.  Only last_page_num is not the user's to write.)
Cleared(field, S, v) == [i \in Slots |-> IF i \in S THEN v ELSE field[i]]

\* ~JournalHandler -> PageEngine::exit_client; for a strategy it writes
\* MSG_TYPE_STRATEGY_END to the system journal first (SystemWrite if that
\* journal's page is full).
ExitClient(c) ==
    /\ mutex = "free"
    /\ c # Engine /\ cpc[c] \in {"in", "failed"}
    /\ c \in Strategies => ~SystemPageFull
    /\ writerCount' = [f \in Files |->
          IF \E i \in AllocatedTo(c, f) : isWriter[i] THEN 0 ELSE writerCount[f]]
    /\ readerCount' = [f \in Files |->
          readerCount[f] - Cardinality({i \in AllocatedTo(c, f) : ~isWriter[i]})]
    /\ status' = Cleared(status, userIndex[c], "RAW")
    /\ journal' = Cleared(journal, userIndex[c], NoJournal)
    /\ isWriter' = Cleared(isWriter, userIndex[c], FALSE)
    /\ page' = Cleared(page, userIndex[c], 0)
    /\ registered' = registered \ {c}
    /\ userIndex' = [userIndex EXCEPT ![c] = {}]
    /\ cpc' = [cpc EXCEPT ![c] = "out"]
    /\ UNCHANGED <<lastPage, maxIdx, mapped, threads, files, cslot, cpage>>

\* register_strategy, login_td, sub_md or the exit of a strategy, on behalf of
\* a client: each writes to the system journal while the mutex is held.  When
\* the page of that journal is full, write_frame_full asks for the next one
\* and spins, still inside the call.
SystemWrite(c) ==
    /\ mutex = "free"
    /\ c # Engine /\ cpc[c] = "in"
    /\ cpc[Engine] = "in"
    /\ \E i \in SystemSlots :
        \/ /\ SystemFills /\ ~SystemPageFull
           /\ full' = full \cup {<<journal[i], page[i]>>}
           /\ UNCHANGED <<status, page, mutex, cpc, cslot>>
        \/ /\ SystemPageFull
           /\ page[i] < MaxPage                          \* bound
           /\ Ask(Engine, i, page[i] + 1)
           /\ mutex' = "socket"
           /\ UNCHANGED full
    /\ UNCHANGED <<journal, isWriter, lastPage, clientInfo, counts, seen, pages, cpage>>

-----------------------------------------------------------------------------
(***************************************************************************)
(* The client's side of the comm file.                                     *)
(***************************************************************************)

\* ClientPageProvider::register_journal, once it has its answer
FillSlot(c) ==
    /\ cpc[c] = "naming"
    /\ LET i == cslot[c]
       IN IF status[i] = "OCCUPIED"
          THEN /\ \E j \in Opens[c] \ {journal[k] : k \in userIndex[c] \ {i}} :
                    journal' = [journal EXCEPT ![i] = j]
               /\ isWriter' = [isWriter EXCEPT ![i] = c \in Writers]
               /\ status' = [status EXCEPT ![i] = "HOLDING"]
               /\ cpc' = [cpc EXCEPT ![c] = "in"]
          ELSE /\ cpc' = [cpc EXCEPT ![c] = "failed"]    \* it throws
               /\ UNCHANGED <<journal, isWriter, status>>
    /\ cslot' = [cslot EXCEPT ![c] = NoSlot]
    /\ UNCHANGED <<page, lastPage, clientInfo, counts, threads, files, cpage>>

\* Journal::seekTime, its first half: a page is chosen from the files that are
\* there.  A writer and a reader seek when created; the trade engine's reader
\* seeks again after the journal was expired.
SeekPick(c) ==
    /\ cpc[c] = "in"
    /\ \E i \in userIndex[c] :
        /\ status[i] = "HOLDING" \/ (status[i] = "NON_EXIST" /\ page[i] = Expired)
        /\ LET n == pages[journal[i]]
           IN \E p \in Pages :
                /\ IF n = 0 THEN p = 1 ELSE IF c \in Writers THEN p = n ELSE p <= n
                /\ cpage' = [cpage EXCEPT ![c] = p]
        /\ cslot' = [cslot EXCEPT ![c] = i]
    /\ cpc' = [cpc EXCEPT ![c] = "picked"]
    /\ UNCHANGED <<comm, clientInfo, counts, threads, files>>

\* ... its second half: that page is asked for.
SeekRequest(c) ==
    /\ cpc[c] = "picked"
    /\ Ask(c, cslot[c], cpage[c])
    /\ cpage' = [cpage EXCEPT ![c] = 0]
    /\ UNCHANGED <<journal, isWriter, lastPage, clientInfo, counts, threads, files>>

\* Journal::loadNextPage: a writer whose page is full, or a reader whose page
\* has ended, asks for the next.  (The engine itself does so here when it
\* starts, and in SystemWrite otherwise.)
LoadNextPage(c) ==
    /\ cpc[c] = "in"
    /\ \E i \in userIndex[c] :
        /\ status[i] = "ALLOCATED"
        /\ page[i] < MaxPage                             \* bound
        /\ IF c \in Writers THEN <<journal[i], page[i]>> \in full
                           ELSE page[i] < pages[journal[i]]
        /\ Ask(c, i, page[i] + 1)
    /\ UNCHANGED <<journal, isWriter, lastPage, clientInfo, counts, threads, files, cpage>>

\* Journal::expire asks for page -1, for the engine to drop the old one.
Expire(c) ==
    /\ cpc[c] = "in" /\ c \notin Writers
    /\ \E i \in userIndex[c] : status[i] = "ALLOCATED" /\ Ask(c, i, Expired)
    /\ UNCHANGED <<journal, isWriter, lastPage, clientInfo, counts, threads, files, cpage>>

\* getPage stops spinning.  A refused writer throws; a reader whose page does
\* not exist goes on without it.
Answered(c) ==
    /\ cpc[c] = "waiting"
    /\ status[cslot[c]] # "REQUESTING"
    /\ cpc' = [cpc EXCEPT ![c] =
                  IF status[cslot[c]] = "MORE_THAN_ONE_WRITE" THEN "failed" ELSE "in"]
    /\ cslot' = [cslot EXCEPT ![c] = NoSlot]
    /\ mutex' = IF c = Engine THEN "free" ELSE mutex
    /\ UNCHANGED <<comm, clientInfo, counts, seen, files, cpage>>

\* A writer uses up the room of its page.
FillPage(c) ==
    /\ cpc[c] = "in" /\ c \in Writers \ {Engine}
    /\ \E i \in userIndex[c] :
        /\ status[i] = "ALLOCATED"
        /\ full' = full \cup {<<journal[i], page[i]>>}
    /\ UNCHANGED <<comm, clientInfo, counts, threads, pages, client>>

\* The process dies; nobody tells the engine.
Killed(c) ==
    /\ c # Engine /\ cpc[c] # "out"
    /\ cpc' = [cpc EXCEPT ![c] = "dead"]
    /\ cslot' = [cslot EXCEPT ![c] = NoSlot]
    /\ cpage' = [cpage EXCEPT ![c] = 0]
    /\ UNCHANGED <<comm, clientInfo, counts, threads, files>>

-----------------------------------------------------------------------------
(***************************************************************************)
(* The comm thread, PageEngine::start_comm.                                *)
(***************************************************************************)

\* The status is read without the mutex.
CommPoll(i) ==
    /\ seen = NoSlot
    /\ i <= maxIdx
    /\ status[i] = "REQUESTING"
    /\ seen' = i
    /\ UNCHANGED <<comm, clientInfo, counts, mutex, files, client>>

\* release_page, its effect on a count (its lookup of the mapping never
\* succeeds: the path is built from the name and the folder, swapped).
ReleasePage(count, f) == [count EXCEPT ![f] = IF @ > 0 THEN @ - 1 ELSE @]

\* The page slot i held before: released if another one is asked for now.
WritersLeft(i) ==
    IF isWriter[i] /\ lastPage[i] > 0 /\ lastPage[i] # page[i]
    THEN ReleasePage(writerCount, <<journal[i], lastPage[i]>>) ELSE writerCount

\* Mutant of ReadersLeft: the page left behind is not released.
ReadersStay(i) == readerCount

ReadersLeft(i) ==
    IF ~isWriter[i] /\ lastPage[i] > 0 /\ lastPage[i] # page[i]
    THEN ReleasePage(readerCount, <<journal[i], lastPage[i]>>) ELSE readerCount

\* initiate_page for a reader of a page that is not there
InitiateNonExist(i) ==
    /\ ~isWriter[i] /\ page[i] \notin 1 .. pages[journal[i]]
    /\ status' = [status EXCEPT ![i] = "NON_EXIST"]
    /\ writerCount' = WritersLeft(i) /\ readerCount' = ReadersLeft(i)
    /\ UNCHANGED <<mapped, pages>>

InitiateReader(i) ==
    LET f == <<journal[i], page[i]>>
    IN /\ ~isWriter[i] /\ page[i] \in 1 .. pages[journal[i]]
       /\ status' = [status EXCEPT ![i] = "ALLOCATED"]
       /\ readerCount' = [ReadersLeft(i) EXCEPT ![f] = @ + 1]
       /\ mapped' = mapped \cup {f}
       /\ UNCHANGED <<writerCount, pages>>

\* Mutant of InitiateWriter: another writer of the page is not noticed.
InitiateWriterUnchecked(i) ==
    LET f == <<journal[i], page[i]>>
    IN /\ isWriter[i]
       /\ pages' = [pages EXCEPT ![journal[i]] = IF @ < page[i] THEN page[i] ELSE @]
       /\ mapped' = mapped \cup {f}
       /\ status' = [status EXCEPT ![i] = "ALLOCATED"]
       /\ writerCount' = [WritersLeft(i) EXCEPT ![f] = @ + 1]
       /\ UNCHANGED readerCount

\* ... for a writer: the file is created if need be, one writer is admitted.
InitiateWriter(i) ==
    LET f == <<journal[i], page[i]>>
    IN /\ isWriter[i]
       /\ pages' = [pages EXCEPT ![journal[i]] = IF @ < page[i] THEN page[i] ELSE @]
       /\ mapped' = mapped \cup {f}
       /\ IF WritersLeft(i)[f] = 0
          THEN /\ status' = [status EXCEPT ![i] = "ALLOCATED"]
               /\ writerCount' = [WritersLeft(i) EXCEPT ![f] = 1]
          ELSE /\ status' = [status EXCEPT ![i] = "MORE_THAN_ONE_WRITE"]
               /\ writerCount' = WritersLeft(i)
       /\ UNCHANGED readerCount

CommServe ==
    /\ seen # NoSlot
    /\ mutex = "free"
    /\ InitiateNonExist(seen) \/ InitiateReader(seen) \/ InitiateWriter(seen)
    /\ lastPage' = [lastPage EXCEPT ![seen] = page[seen]]
    /\ seen' = NoSlot
    /\ UNCHANGED <<journal, isWriter, page, clientInfo, mutex, full, client>>

\* All programs have stopped and the engine is started again: it clears the
\* comm file, and its maps begin empty.  The page files stay.
EngineRestart ==
    /\ \A c \in Clients \ {Engine} : cpc[c] \in {"out", "dead"}
    /\ status' = Everywhere(Slots, "RAW")
    /\ journal' = Everywhere(Slots, NoJournal)
    /\ isWriter' = Everywhere(Slots, FALSE)
    /\ page' = Everywhere(Slots, 0)
    /\ lastPage' = Everywhere(Slots, 0)
    /\ registered' = {}
    /\ userIndex' = Everywhere(Clients, {})
    /\ maxIdx' = 0
    /\ writerCount' = Everywhere(Files, 0)
    /\ readerCount' = Everywhere(Files, 0)
    /\ mapped' = {}
    /\ mutex' = "free" /\ seen' = NoSlot
    /\ cpc' = Everywhere(Clients, "out")
    /\ cslot' = Everywhere(Clients, NoSlot)
    /\ cpage' = Everywhere(Clients, 0)
    /\ UNCHANGED files

ClientStep(c) ==
    \/ RegClient(c) \/ RegJournal(c) \/ FillSlot(c) \/ ExitClient(c) \/ Killed(c)
    \/ SeekPick(c) \/ SeekRequest(c) \/ LoadNextPage(c) \/ Expire(c) \/ Answered(c)
    \/ FillPage(c) \/ SystemWrite(c)

Next ==
    \/ \E i \in Slots : CommPoll(i)
    \/ CommServe
    \/ \E c \in Clients : ClientStep(c)
    \/ EngineRestart

Spec == Init /\ [][Next]_vars

\* The comm thread never stops polling: the slots up to maxIdx get their turn
\* over and over (hence SF: in between, others have theirs).  A client that
\* spins sees the answer.  Nobody has to register, write, exit or ask.
FairSpec ==
    /\ Spec
    /\ \A i \in Slots : SF_vars(CommPoll(i))
    /\ WF_vars(CommServe)
    /\ \A c \in Clients : WF_vars(Answered(c))

-----------------------------------------------------------------------------
(***************************************************************************)
(* Correctness.                                                            *)
(***************************************************************************)

\* The page of which slot i is still a user as far as the engine knows.
HeldBy(i) ==
    CASE status[i] = "ALLOCATED" -> page[i]
      [] status[i] = "REQUESTING" /\ lastPage[i] > 0 -> lastPage[i]
      [] OTHER -> 0

Holders(f, writing) ==
    {i \in Slots : HeldBy(i) # 0 /\ isWriter[i] = writing /\ f = <<journal[i], HeldBy(i)>>}

\* The counts the engine decides by are the numbers of slots that hold the
\* page (PageEngine.h: "file attached with number of writers", "... readers"),
\* through page turns, refusals, expiry, exits and kills.
CountsMatchSlots ==
    \A f \in Files :
        /\ writerCount[f] = Cardinality(Holders(f, TRUE))
        /\ readerCount[f] = Cardinality(Holders(f, FALSE))

\* c is a writer that stands on a page with room, and would write there.
MayWrite(c, j) ==
    /\ c \in Writers /\ cpc[c] = "in"
    /\ \E i \in userIndex[c] :
        status[i] = "ALLOCATED" /\ journal[i] = j /\ <<j, page[i]>> \notin full

\* At most one process writes to a journal: Journal's single writer.  A second
\* one that chose its page before the first turned to the next is admitted to
\* the page left behind, but finds no room there and is refused the next.
OneWriterPerJournal ==
    \A j \in Journals : Cardinality({c \in Clients : MayWrite(c, j)}) <= 1

\* A slot of the comm file is used by one journal of one client at a time.
SlotsNotShared ==
    \A c, d \in Clients : c # d => userIndex[c] \cap userIndex[d] = {}

\* A client that asks for a page does not spin for ever (PageCommStruct.h:
\* "server: find requesting, allocate, finish allocating").  The code does not
\* keep this when the page of the system journal fills up inside a call: the
\* call holds the mutex and waits for the comm thread, which waits for the
\* mutex.  That is the only way to wait in vain.
EveryRequestAnswered ==
    \A i \in Slots : status[i] = "REQUESTING" ~> (status[i] # "REQUESTING" \/ mutex = "socket")
=============================================================================
