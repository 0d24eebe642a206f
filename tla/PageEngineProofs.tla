-------------------------- MODULE PageEngineProofs --------------------------
(***************************************************************************)
(* Theorems about the page engine, for every number of clients, journals,  *)
(* slots and pages: as long as the comm file has room, a slot has one user *)
(* and a journal one process that can write to it, and the engine's counts *)
(* of a page's holders are those of its slots.                             *)
(***************************************************************************)
EXTENDS PageEngine, FiniteSetTheorems, TLAPS

\* The slot behind the last has not been given to anybody.  When it has, the
\* engine gives it to the next client, too (see FreeSlot).
CommFileHasRoom == status[MaxUsers] = "RAW"

-----------------------------------------------------------------------------
(***************************************************************************)
(* The inductive invariant.                                                *)
(***************************************************************************)

\* What the slots of a client look like, and when they wait for the engine.
SlotsOfClients ==
    \A c \in Clients : \A i \in userIndex[c] :
        /\ status[i] # "RAW"
        /\ status[i] = "OCCUPIED" =>
              cpc[c] \in {"naming", "dead"} /\ (cpc[c] = "naming" => i = cslot[c])
        /\ status[i] # "OCCUPIED" => journal[i] \in Opens[c] /\ isWriter[i] = (c \in Writers)
        /\ status[i] = "REQUESTING" =>
              cpc[c] \in {"waiting", "dead"} /\ (cpc[c] = "waiting" => i = cslot[c])

OneSlot == \A c \in Writers : \A i, k \in userIndex[c] : i = k

\* The slot a client is at in a call of several steps.
AtSlot ==
    \A c \in Clients :
        /\ cpc[c] \in {"naming", "picked", "waiting"} => cslot[c] \in userIndex[c]
        /\ cpc[c] = "naming" => status[cslot[c]] = "OCCUPIED"
        /\ cpc[c] = "picked" =>
              /\ status[cslot[c]] \in {"HOLDING", "NON_EXIST"} /\ cpage[c] \in Pages
              /\ c \in Writers => cpage[c] = 1 \/ cpage[c] <= pages[journal[cslot[c]]]

SlotShape ==
    \A i \in Slots :
        /\ status[i] \notin {"RAW", "OCCUPIED"} => journal[i] \in Journals
        /\ status[i] \in {"OCCUPIED", "HOLDING"} => lastPage[i] = 0
        /\ status[i] = "ALLOCATED" => lastPage[i] = page[i] /\ page[i] \in 1 .. pages[journal[i]]

\* A page p of journal j that a writer may ask for: one that is there, the
\* first, or the one after a full page.
MayAsk(j, p) ==
    /\ p \in Pages
    /\ p = 1 \/ p <= pages[j] \/ (p - 1 <= pages[j] /\ <<j, p - 1>> \in full)

Asked ==
    \A i \in Slots :
        isWriter[i] /\ status[i] \notin {"RAW", "OCCUPIED"} =>
            /\ status[i] # "NON_EXIST"
            /\ status[i] = "REQUESTING" =>
                  /\ MayAsk(journal[i], page[i])
                  /\ lastPage[i] > 0 => lastPage[i] <= pages[journal[i]]

\* A page is held by one writer at most, and the engine has counted it.
Held(i) == isWriter[i] /\ HeldBy(i) # 0
Counted == \A i \in Slots : Held(i) => writerCount[<<journal[i], HeldBy(i)>>] = 1
Alone   == \A i, k \in Slots :
              Held(i) /\ Held(k) /\ journal[i] = journal[k] /\ HeldBy(i) = HeldBy(k) => i = k

\* Only the last page of a journal has room.
EarlierFull == \A j \in Journals : \A q \in Pages : q < pages[j] => <<j, q>> \in full

Served == seen # NoSlot => status[seen] = "REQUESTING"

IInv ==
    /\ TypeOK
    /\ SlotsOfClients /\ OneSlot /\ AtSlot /\ SlotsNotShared
    /\ SlotShape /\ Asked /\ Served
    /\ Counted /\ Alone /\ EarlierFull

-----------------------------------------------------------------------------
(***************************************************************************)
(* Lemmas.                                                                 *)
(***************************************************************************)

LEMMA SlotFacts ==
    /\ MaxUsers \in Nat \ {0} /\ MaxPage \in Nat \ {0}
    /\ Slots \subseteq Nat /\ NoSlot \notin Slots /\ 0 \in Slots /\ MaxUsers \in Slots
    /\ Pages \subseteq Nat \ {0} /\ 1 \in Pages
    /\ Engine \in Writers /\ Writers \subseteq Clients /\ Strategies \subseteq Writers
    /\ Opens \in [Clients -> SUBSET Journals]
BY PageEngineAssumption DEF Slots, Pages, NoSlot

LEMMA PageNumbers ==
    ASSUME NEW p \in Pages \cup {0, Expired}
    PROVE  p \in Int /\ (p > 0 => p \in Pages)
<1>1. Expired \in Int /\ ~(Expired > 0) /\ ~(0 > 0)
    BY DEF Expired
<1>2. CASE p \in Pages
    BY <1>2 DEF Pages
<1>3. CASE p = 0 \/ p = Expired
    BY <1>1, <1>3
<1> QED
    BY <1>2, <1>3

LEMMA ReleaseTyped ==
    ASSUME NEW count \in [Files -> Int], NEW f
    PROVE  ReleasePage(count, f) \in [Files -> Int]
<1>1. CASE f \in Files
    BY <1>1 DEF ReleasePage
<1>2. CASE f \notin Files
    BY <1>2 DEF ReleasePage
<1> QED
    BY <1>1, <1>2

LEMMA HeldByCases ==
    ASSUME NEW i \in Slots
    PROVE  HeldBy(i) = IF status[i] = "ALLOCATED" THEN page[i]
                       ELSE IF status[i] = "REQUESTING" /\ lastPage[i] > 0 THEN lastPage[i] ELSE 0
BY DEF HeldBy

\* What an holds stays counted, alone and below the last page, if no slot
\* comes to hold a page and the counts of what is held stay.
LEMMA HoldingKept ==
    ASSUME Counted, Alone,
           \A i \in Slots : Held(i)' =>
               /\ Held(i) /\ journal'[i] = journal[i] /\ HeldBy(i)' = HeldBy(i)
               /\ writerCount'[<<journal[i], HeldBy(i)>>] = writerCount[<<journal[i], HeldBy(i)>>]
    PROVE  Counted' /\ Alone'
BY DEF Counted, Alone

\* A step that leaves the slots and the counts alone.
LEMMA HoldingUnchanged ==
    ASSUME Counted, Alone, UNCHANGED <<comm, writerCount>>
    PROVE  Counted' /\ Alone'
<1>1. \A i \in Slots : Held(i)' = Held(i) /\ HeldBy(i)' = HeldBy(i) /\ journal'[i] = journal[i]
    BY DEF Held, HeldBy, comm
<1> QED
    BY <1>1 DEF Counted, Alone

LEMMA InitIInv == Init => IInv
<1> SUFFICES ASSUME Init PROVE IInv
    OBVIOUS
<1> USE DEF Init, Everywhere
<1>1. TypeOK
    BY SlotFacts DEF TypeOK, Statuses, NoJournal, NoSlot
<1>2. SlotsOfClients /\ OneSlot /\ AtSlot /\ SlotsNotShared
    BY SlotFacts DEF SlotsOfClients, OneSlot, AtSlot, SlotsNotShared
<1>3. SlotShape /\ Asked /\ Served
    BY SlotFacts DEF SlotShape, Asked, Served
<1>4. \A i \in Slots : ~Held(i)
    BY DEF Held
<1>5. Counted /\ Alone
    BY <1>4 DEF Counted, Alone
<1>6. EarlierFull
    BY SlotFacts DEF EarlierFull
<1> QED
    BY <1>1, <1>2, <1>3, <1>5, <1>6 DEF IInv

-----------------------------------------------------------------------------
(***************************************************************************)
(* The calls over the socket.                                              *)
(***************************************************************************)

LEMMA RegClientStep ==
    ASSUME IInv, NEW c \in Clients, RegClient(c) PROVE IInv'
<1> USE SlotFacts DEF IInv, RegClient, comm, counts, threads, files
<1>1. TypeOK'
    BY DEF TypeOK
<1>2. SlotsOfClients' /\ OneSlot'
    BY DEF TypeOK, SlotsOfClients, OneSlot
<1>3. AtSlot' /\ SlotsNotShared'
    BY DEF TypeOK, AtSlot, SlotsNotShared
<1>4. SlotShape' /\ Asked' /\ Served' /\ EarlierFull'
    BY DEF SlotShape, Asked, MayAsk, Served, EarlierFull
<1>5. Counted' /\ Alone'
    BY HoldingUnchanged
<1> QED
    BY <1>1, <1>2, <1>3, <1>4, <1>5

\* The slot given is a RAW one, as long as there is room.
LEMMA FreeSlotIsRaw ==
    ASSUME IInv, NEW i \in Slots, FreeSlot(i), CommFileHasRoom
    PROVE  status[i] = "RAW"
<1>1. i = MaxUsers \/ i < MaxUsers
    BY SlotFacts DEF Slots
<1> QED
    BY <1>1 DEF FreeSlot, CommFileHasRoom

LEMMA RegJournalStep ==
    ASSUME IInv, CommFileHasRoom, NEW c \in Clients, RegJournal(c) PROVE IInv'
<1> USE SlotFacts DEF IInv
<1>1. PICK i \in Slots :
        /\ FreeSlot(i)
        /\ maxIdx' = IF i > maxIdx THEN i ELSE maxIdx
        /\ status' = [status EXCEPT ![i] = "OCCUPIED"]
        /\ lastPage' = [lastPage EXCEPT ![i] = 0]
        /\ userIndex' = [userIndex EXCEPT ![c] = userIndex[c] \cup {i}]
        /\ cslot' = [cslot EXCEPT ![c] = i]
    BY DEF RegJournal, TypeOK
<1>2. /\ cpc[c] = "in" /\ cpc' = [cpc EXCEPT ![c] = "naming"] /\ Opens[c] \ OpenedBy(c) # {}
      /\ UNCHANGED <<journal, isWriter, page, registered, writerCount, readerCount, mapped, mutex, seen,
                     pages, full, cpage>>
    BY DEF RegJournal, counts, threads, files
<1>3. status[i] = "RAW" /\ \A d \in Clients : i \notin userIndex[d]
    BY <1>1, FreeSlotIsRaw DEF SlotsOfClients
<1>4. TypeOK'
    BY <1>1, <1>2 DEF TypeOK, Statuses
<1>5. c \in Writers => userIndex[c] = {}
    <2> SUFFICES ASSUME c \in Writers, NEW k \in userIndex[c] PROVE FALSE
        OBVIOUS
    <2>1. PICK j \in Journals : Opens[c] = {j}
        BY PageEngineAssumption
    <2>2. journal[k] \in Opens[c]
        BY <1>2 DEF SlotsOfClients
    <2> QED
        BY <1>2, <2>1, <2>2 DEF OpenedBy
<1>6. SlotsOfClients'
    BY <1>1, <1>2, <1>3 DEF TypeOK, SlotsOfClients
<1>7. OneSlot'
    BY <1>1, <1>5 DEF TypeOK, OneSlot
<1>8. AtSlot'
    BY <1>1, <1>2, <1>3 DEF TypeOK, AtSlot
<1>9. SlotsNotShared'
    BY <1>1, <1>3 DEF TypeOK, SlotsNotShared
<1>10. SlotShape' /\ Asked' /\ Served' /\ EarlierFull'
    BY <1>1, <1>2, <1>3 DEF TypeOK, SlotShape, Asked, MayAsk, Served, EarlierFull
<1>11. \A k \in Slots : Held(k)' => Held(k) /\ HeldBy(k)' = HeldBy(k)
    BY <1>1, <1>2, HeldByCases DEF TypeOK, Held, HeldBy
<1>12. Counted' /\ Alone'
    BY <1>2, <1>11, HoldingKept
<1> QED
    BY <1>4, <1>6, <1>7, <1>8, <1>9, <1>10, <1>12

LEMMA FillSlotStep ==
    ASSUME IInv, NEW c \in Clients, FillSlot(c) PROVE IInv'
<1> USE SlotFacts DEF IInv
<1> DEFINE i == cslot[c]
<1>1. cpc[c] = "naming" /\ i \in userIndex[c] /\ status[i] = "OCCUPIED" /\ i \in Slots
    BY DEF FillSlot, AtSlot, TypeOK
<1>2. PICK j \in Opens[c] : journal' = [journal EXCEPT ![i] = j]
    BY <1>1 DEF FillSlot
<1>3. /\ isWriter' = [isWriter EXCEPT ![i] = c \in Writers]
      /\ status' = [status EXCEPT ![i] = "HOLDING"]
      /\ cpc' = [cpc EXCEPT ![c] = "in"] /\ cslot' = [cslot EXCEPT ![c] = NoSlot]
      /\ UNCHANGED <<page, lastPage, registered, userIndex, maxIdx, writerCount, readerCount, mapped,
                     mutex, seen, pages, full, cpage>>
    BY <1>1 DEF FillSlot, clientInfo, counts, threads, files
<1>4. j \in Journals /\ \A d \in Clients \ {c} : i \notin userIndex[d]
    BY <1>1, <1>2 DEF SlotsNotShared
<1> HIDE DEF i
<1>5. TypeOK'
    <2>1. isWriter' \in [Slots -> BOOLEAN]
        <3>1. (c \in Writers) \in BOOLEAN /\ isWriter \in [Slots -> BOOLEAN]
            BY DEF TypeOK
        <3> QED
            BY <1>3, <3>1, Zenon
    <2>2. status' \in [Slots -> Statuses] /\ journal' \in [Slots -> Journals \cup {NoJournal}]
        BY <1>2, <1>3, <1>4 DEF TypeOK, Statuses
    <2> QED
        BY <1>3, <2>1, <2>2 DEF TypeOK
<1>6. SlotsOfClients'
    BY <1>1, <1>2, <1>3, <1>4 DEF TypeOK, SlotsOfClients, i
<1>7. OneSlot' /\ SlotsNotShared'
    BY <1>3 DEF OneSlot, SlotsNotShared
<1>8. AtSlot'
    BY <1>1, <1>2, <1>3, <1>4 DEF TypeOK, AtSlot
<1>9. SlotShape'
    BY <1>1, <1>2, <1>3, <1>4 DEF TypeOK, SlotShape
<1>10. Asked' /\ Served' /\ EarlierFull'
    BY <1>1, <1>2, <1>3 DEF TypeOK, Asked, MayAsk, Served, EarlierFull
<1>11. \A k \in Slots : Held(k)' => Held(k) /\ HeldBy(k)' = HeldBy(k) /\ journal'[k] = journal[k]
    BY <1>1, <1>2, <1>3 DEF TypeOK, Held, HeldBy
<1>12. Counted' /\ Alone'
    BY <1>3, <1>11, HoldingKept
<1> QED
    BY <1>5, <1>6, <1>7, <1>8, <1>9, <1>10, <1>12

LEMMA ExitClientStep ==
    ASSUME IInv, NEW c \in Clients, ExitClient(c) PROVE IInv'
<1> USE SlotFacts DEF IInv
<1> DEFINE S == userIndex[c]
<1>1. /\ cpc[c] \in {"in", "failed"} /\ cpc' = [cpc EXCEPT ![c] = "out"]
      /\ status' = Cleared(status, S, "RAW") /\ journal' = Cleared(journal, S, NoJournal)
      /\ isWriter' = Cleared(isWriter, S, FALSE) /\ page' = Cleared(page, S, 0)
      /\ registered' = registered \ {c} /\ userIndex' = [userIndex EXCEPT ![c] = {}]
      /\ UNCHANGED <<lastPage, maxIdx, mapped, mutex, seen, pages, full, cslot, cpage>>
    BY DEF ExitClient, threads, files
<1>2. /\ writerCount' = [f \in Files |->
             IF \E i \in AllocatedTo(c, f) : isWriter[i] THEN 0 ELSE writerCount[f]]
      /\ readerCount' = [f \in Files |->
             readerCount[f] - Cardinality({i \in AllocatedTo(c, f) : ~isWriter[i]})]
    BY DEF ExitClient
<1>3. /\ S \subseteq Slots /\ \A i \in S : status[i] # "REQUESTING"
      /\ \A d \in Clients \ {c} : userIndex[d] \cap S = {}
    BY <1>1 DEF TypeOK, SlotsOfClients, SlotsNotShared
<1>4. \A i \in Slots :
        /\ i \in S => status'[i] = "RAW" /\ ~isWriter'[i]
        /\ i \notin S => /\ status'[i] = status[i] /\ journal'[i] = journal[i]
                         /\ isWriter'[i] = isWriter[i] /\ page'[i] = page[i]
    BY <1>1 DEF Cleared
<1> HIDE DEF S
<1>5. TypeOK'
    <2>1. /\ status' \in [Slots -> Statuses] /\ journal' \in [Slots -> Journals \cup {NoJournal}]
          /\ page' \in [Slots -> Pages \cup {0, Expired}]
        BY <1>1 DEF TypeOK, Cleared, Statuses
    <2>2. isWriter' \in [Slots -> BOOLEAN]
        BY <1>1 DEF TypeOK, Cleared
    <2>3. writerCount' \in [Files -> 0 .. 1]
        BY <1>2 DEF TypeOK
    <2>4. readerCount' \in [Files -> Int]
        <3> SUFFICES ASSUME NEW f \in Files
                     PROVE  readerCount[f] - Cardinality({i \in AllocatedTo(c, f) : ~isWriter[i]}) \in Int
            BY <1>2
        <3>1. IsFiniteSet(Slots)
            BY FS_Interval DEF Slots
        <3>2. {i \in AllocatedTo(c, f) : ~isWriter[i]} \subseteq Slots
            BY <1>3 DEF AllocatedTo, S
        <3>3. Cardinality({i \in AllocatedTo(c, f) : ~isWriter[i]}) \in Nat
            BY <3>1, <3>2, FS_Subset, FS_CardinalityType
        <3> QED
            BY <3>3 DEF TypeOK
    <2>5. /\ registered' \subseteq Clients /\ userIndex' \in [Clients -> SUBSET Slots]
          /\ cpc' \in [Clients -> {"out", "in", "naming", "picked", "waiting", "failed", "dead"}]
        BY <1>1 DEF TypeOK
    <2> QED
        BY <1>1, <2>1, <2>2, <2>3, <2>4, <2>5 DEF TypeOK
<1>6. SlotsOfClients'
    <2> SUFFICES ASSUME NEW d \in Clients, NEW i \in userIndex'[d]
                 PROVE  /\ status'[i] # "RAW"
                        /\ status'[i] = "OCCUPIED" =>
                              cpc'[d] \in {"naming", "dead"} /\ (cpc'[d] = "naming" => i = cslot'[d])
                        /\ status'[i] # "OCCUPIED" =>
                              journal'[i] \in Opens[d] /\ isWriter'[i] = (d \in Writers)
                        /\ status'[i] = "REQUESTING" =>
                              cpc'[d] \in {"waiting", "dead"} /\ (cpc'[d] = "waiting" => i = cslot'[d])
        BY DEF SlotsOfClients
    <2>1. d # c /\ i \in userIndex[d] /\ i \in Slots /\ i \notin S
        BY <1>1, <1>3 DEF TypeOK
    <2>2. /\ status'[i] = status[i] /\ journal'[i] = journal[i] /\ isWriter'[i] = isWriter[i]
          /\ cpc'[d] = cpc[d] /\ cslot'[d] = cslot[d]
        BY <1>1, <1>4, <2>1 DEF TypeOK
    <2> QED
        BY <2>1, <2>2 DEF SlotsOfClients
<1>7. OneSlot' /\ SlotsNotShared'
    <2>1. \A d \in Clients : userIndex'[d] \subseteq userIndex[d]
        BY <1>1 DEF TypeOK
    <2>2. OneSlot'
        BY <2>1 DEF TypeOK, OneSlot
    <2>3. SlotsNotShared'
        BY <2>1 DEF SlotsNotShared
    <2> QED
        BY <2>2, <2>3
<1>8. AtSlot'
    <2> SUFFICES ASSUME NEW d \in Clients
                 PROVE  /\ cpc'[d] \in {"naming", "picked", "waiting"} => cslot'[d] \in userIndex'[d]
                        /\ cpc'[d] = "naming" => status'[cslot'[d]] = "OCCUPIED"
                        /\ cpc'[d] = "picked" =>
                              /\ status'[cslot'[d]] \in {"HOLDING", "NON_EXIST"} /\ cpage'[d] \in Pages
                              /\ d \in Writers => cpage'[d] = 1 \/ cpage'[d] <= pages'[journal'[cslot'[d]]]
        BY DEF AtSlot
    <2>1. CASE d = c
        BY <1>1, <2>1 DEF TypeOK
    <2>2. CASE d # c /\ cpc[d] \in {"naming", "picked", "waiting"}
        <3>1. cslot[d] \in userIndex[d] /\ cslot[d] \in Slots /\ cslot[d] \notin S
            BY <1>3, <2>2 DEF AtSlot, TypeOK
        <3>2. /\ status'[cslot[d]] = status[cslot[d]] /\ journal'[cslot[d]] = journal[cslot[d]]
              /\ cpc'[d] = cpc[d] /\ userIndex'[d] = userIndex[d]
            BY <1>1, <1>4, <2>2, <3>1 DEF TypeOK
        <3> QED
            BY <1>1, <3>1, <3>2 DEF AtSlot
    <2>3. CASE d # c /\ cpc[d] \notin {"naming", "picked", "waiting"}
        BY <1>1, <2>3 DEF TypeOK
    <2> QED
        BY <2>1, <2>2, <2>3
<1>9. SlotShape'
    BY <1>1, <1>4 DEF SlotShape
<1>10. Asked'
    <2> SUFFICES ASSUME NEW i \in Slots, isWriter'[i], status'[i] \notin {"RAW", "OCCUPIED"}
                 PROVE  /\ status'[i] # "NON_EXIST"
                        /\ status'[i] = "REQUESTING" =>
                              /\ MayAsk(journal[i], page[i])'
                              /\ lastPage'[i] > 0 => lastPage'[i] <= pages'[journal'[i]]
        BY DEF Asked
    <2>1. i \notin S
        BY <1>4
    <2>2. /\ status'[i] = status[i] /\ journal'[i] = journal[i] /\ isWriter'[i] = isWriter[i]
          /\ page'[i] = page[i] /\ lastPage' = lastPage /\ pages' = pages
        BY <1>1, <1>4, <2>1
    <2>3. MayAsk(journal[i], page[i])' <=> MayAsk(journal[i], page[i])
        BY <1>1, <2>2 DEF MayAsk
    <2> QED
        BY <2>2, <2>3 DEF Asked
<1>11. Served' /\ EarlierFull'
    <2>1. seen # NoSlot => seen \in Slots /\ seen \notin S
        BY <1>3 DEF Served, TypeOK
    <2> QED
        BY <1>1, <1>4, <2>1 DEF Served, EarlierFull
<1>12. Counted' /\ Alone'
    <2> SUFFICES ASSUME NEW i \in Slots, Held(i)'
                 PROVE  /\ Held(i) /\ journal'[i] = journal[i] /\ HeldBy(i)' = HeldBy(i)
                        /\ writerCount'[<<journal[i], HeldBy(i)>>] = writerCount[<<journal[i], HeldBy(i)>>]
        BY HoldingKept
    <2>1. i \notin S /\ journal'[i] = journal[i] /\ isWriter'[i] = isWriter[i] /\ HeldBy(i)' = HeldBy(i)
        BY <1>1, <1>4 DEF Held, HeldBy
    <2>2. Held(i)
        BY <2>1 DEF Held
    <2>3. journal[i] \in Journals /\ HeldBy(i) \in Pages
        BY <2>2, HeldByCases DEF Held, SlotShape, TypeOK, Expired
    <2>4. ~\E k \in AllocatedTo(c, <<journal[i], HeldBy(i)>>) : isWriter[k]
        <3> SUFFICES ASSUME NEW k \in AllocatedTo(c, <<journal[i], HeldBy(i)>>), isWriter[k] PROVE FALSE
            OBVIOUS
        <3>1. /\ k \in S /\ k \in Slots /\ status[k] = "ALLOCATED"
              /\ journal[k] = journal[i] /\ page[k] = HeldBy(i)
            BY <1>3 DEF AllocatedTo, S
        <3>2. HeldBy(k) = page[k] /\ Held(k)
            BY <2>2, <3>1, HeldByCases DEF Held
        <3> QED
            BY <2>1, <2>2, <3>1, <3>2 DEF Alone
    <2>5. <<journal[i], HeldBy(i)>> \in Files
        BY <2>3 DEF Files
    <2> QED
        BY <1>2, <2>1, <2>2, <2>4, <2>5
<1> QED
    BY <1>5, <1>6, <1>7, <1>8, <1>9, <1>10, <1>11, <1>12

-----------------------------------------------------------------------------
(***************************************************************************)
(* A client asks for a page: the four actions that end in Ask.             *)
(***************************************************************************)

LEMMA AskStep ==
    ASSUME IInv, NEW c \in Clients, NEW i \in userIndex[c], NEW p \in Pages \cup {0, Expired}, Ask(c, i, p),
           cpc[c] \in {"in", "picked"}, status[i] \in {"HOLDING", "NON_EXIST", "ALLOCATED"},
           c \in Writers => MayAsk(journal[i], p),
           cpage' \in [Clients -> Pages \cup {0}],
           \A d \in Clients \ {c} : cpage'[d] = cpage[d],
           mutex' \in {"free", "socket"},
           UNCHANGED <<journal, isWriter, lastPage, clientInfo, counts, seen, pages, full>>
    PROVE  IInv'
<1> USE SlotFacts DEF IInv, clientInfo, counts
<1>1. i \in Slots /\ isWriter[i] = (c \in Writers) /\ \A d \in Clients \ {c} : i \notin userIndex[d]
    BY DEF TypeOK, SlotsOfClients, SlotsNotShared
<1>2. /\ page' = [page EXCEPT ![i] = p] /\ status' = [status EXCEPT ![i] = "REQUESTING"]
      /\ cslot' = [cslot EXCEPT ![c] = i] /\ cpc' = [cpc EXCEPT ![c] = "waiting"]
    BY DEF Ask
<1>3. TypeOK'
    BY <1>1, <1>2 DEF TypeOK, Statuses
<1>4. SlotsOfClients'
    BY <1>1, <1>2 DEF TypeOK, SlotsOfClients
<1>5. OneSlot' /\ SlotsNotShared'
    BY DEF OneSlot, SlotsNotShared
<1>6. AtSlot'
    BY <1>1, <1>2 DEF TypeOK, AtSlot
<1>7. SlotShape'
    BY <1>1, <1>2 DEF TypeOK, SlotShape, SlotsOfClients
<1>8. Asked'
    <2> SUFFICES ASSUME NEW k \in Slots, isWriter[k], status'[k] \notin {"RAW", "OCCUPIED"}
                 PROVE  /\ status'[k] # "NON_EXIST"
                        /\ status'[k] = "REQUESTING" =>
                              /\ MayAsk(journal[k], page'[k])
                              /\ lastPage[k] > 0 => lastPage[k] <= pages[journal[k]]
        BY DEF Asked, MayAsk
    <2>1. CASE k # i
        BY <1>1, <1>2, <2>1 DEF TypeOK, Asked
    <2>2. CASE k = i
        <3>1. MayAsk(journal[i], p) /\ status[i] # "NON_EXIST"
            BY <1>1, <2>2 DEF Asked
        <3>2. lastPage[i] > 0 => lastPage[i] <= pages[journal[i]]
            BY <1>1, <3>1 DEF SlotShape
        <3> QED
            BY <1>1, <1>2, <2>2, <3>1, <3>2 DEF TypeOK
    <2> QED
        BY <2>1, <2>2
<1>9. Served' /\ EarlierFull'
    BY <1>1, <1>2 DEF TypeOK, Served, EarlierFull
<1>10. \A k \in Slots : Held(k)' => Held(k) /\ HeldBy(k)' = HeldBy(k)
    <2> SUFFICES ASSUME NEW k \in Slots, Held(k)' PROVE Held(k) /\ HeldBy(k)' = HeldBy(k)
        OBVIOUS
    <2>1. CASE k # i
        BY <1>2, <2>1 DEF TypeOK, Held, HeldBy
    <2>2. CASE k = i
        <3>1. isWriter[i] /\ status[i] \in {"HOLDING", "ALLOCATED"}
            BY <1>1, <2>2 DEF Held, Asked
        <3>2. status'[i] = "REQUESTING"
            BY <1>1, <1>2 DEF TypeOK
        <3>3. HeldBy(i)' = IF lastPage[i] > 0 THEN lastPage[i] ELSE 0
            BY <3>2 DEF HeldBy
        <3>4. CASE status[i] = "HOLDING"
            BY <1>1, <2>2, <3>3, <3>4 DEF SlotShape, Held
        <3>5. CASE status[i] = "ALLOCATED"
            BY <1>1, <2>2, <3>1, <3>3, <3>5, HeldByCases DEF SlotShape, Held
        <3> QED
            BY <3>1, <3>4, <3>5
    <2> QED
        BY <2>1, <2>2
<1>11. Counted' /\ Alone'
    BY <1>10, HoldingKept
<1> QED
    BY <1>3, <1>4, <1>5, <1>6, <1>7, <1>8, <1>9, <1>11

LEMMA SeekRequestStep ==
    ASSUME IInv, NEW c \in Clients, SeekRequest(c) PROVE IInv'
<1> USE SlotFacts DEF IInv
<1>1. /\ cslot[c] \in userIndex[c] /\ status[cslot[c]] \in {"HOLDING", "NON_EXIST"} /\ cpage[c] \in Pages
      /\ c \in Writers => cpage[c] = 1 \/ cpage[c] <= pages[journal[cslot[c]]]
      /\ cpc[c] = "picked"
    BY DEF SeekRequest, AtSlot
<1>2. c \in Writers => MayAsk(journal[cslot[c]], cpage[c])
    BY <1>1 DEF MayAsk
<1>3. /\ cpage' \in [Clients -> Pages \cup {0}] /\ \A d \in Clients \ {c} : cpage'[d] = cpage[d]
      /\ mutex' \in {"free", "socket"}
      /\ Ask(c, cslot[c], cpage[c])
      /\ UNCHANGED <<journal, isWriter, lastPage, clientInfo, counts, seen, pages, full>>
    BY DEF SeekRequest, TypeOK, threads, files
<1> QED
    BY <1>1, <1>2, <1>3, AskStep

\* The page after an allocated one.
LEMMA NextPageTyped ==
    ASSUME TypeOK, NEW i \in Slots, page[i] < MaxPage
    PROVE  page[i] + 1 \in Pages \cup {0, Expired}
BY SlotFacts DEF TypeOK, Pages, Expired

LEMMA MayAskNext ==
    ASSUME IInv, NEW i \in Slots, status[i] = "ALLOCATED", page[i] < MaxPage, <<journal[i], page[i]>> \in full
    PROVE  MayAsk(journal[i], page[i] + 1)
<1>1. page[i] \in 1 .. pages[journal[i]] /\ journal[i] \in Journals
    BY DEF IInv, SlotShape
<1>2. pages[journal[i]] \in 0 .. MaxPage
    BY <1>1 DEF IInv, TypeOK
<1> SUFFICES ASSUME NEW p, p = page[i] + 1 PROVE MayAsk(journal[i], p)
    OBVIOUS
<1>3. p \in Pages /\ p - 1 = page[i] /\ page[i] <= pages[journal[i]]
    BY <1>1, <1>2, SlotFacts DEF Pages
<1> QED
    BY <1>3 DEF MayAsk

LEMMA LoadNextPageStep ==
    ASSUME IInv, NEW c \in Clients, LoadNextPage(c) PROVE IInv'
<1> USE SlotFacts DEF IInv
<1>1. PICK i \in userIndex[c] :
        /\ status[i] = "ALLOCATED" /\ page[i] < MaxPage
        /\ IF c \in Writers THEN <<journal[i], page[i]>> \in full ELSE page[i] < pages[journal[i]]
        /\ Ask(c, i, page[i] + 1)
    BY DEF LoadNextPage
<1>2. i \in Slots
    BY DEF TypeOK
<1>3. page[i] + 1 \in Pages \cup {0, Expired}
    BY <1>1, <1>2, NextPageTyped
<1>4. c \in Writers => MayAsk(journal[i], page[i] + 1)
    BY <1>1, <1>2, MayAskNext
<1>5. /\ cpage' \in [Clients -> Pages \cup {0}] /\ \A d \in Clients \ {c} : cpage'[d] = cpage[d]
      /\ mutex' \in {"free", "socket"} /\ cpc[c] = "in"
      /\ UNCHANGED <<journal, isWriter, lastPage, clientInfo, counts, seen, pages, full>>
    BY DEF LoadNextPage, TypeOK, threads, files
<1> QED
    BY <1>1, <1>3, <1>4, <1>5, AskStep

LEMMA ExpireStep ==
    ASSUME IInv, NEW c \in Clients, Expire(c) PROVE IInv'
<1>1. PICK i \in userIndex[c] : status[i] = "ALLOCATED" /\ Ask(c, i, Expired)
    BY DEF Expire
<1>2. /\ cpage' \in [Clients -> Pages \cup {0}] /\ \A d \in Clients \ {c} : cpage'[d] = cpage[d]
      /\ mutex' \in {"free", "socket"} /\ cpc[c] = "in" /\ c \notin Writers
      /\ UNCHANGED <<journal, isWriter, lastPage, clientInfo, counts, seen, pages, full>>
    BY DEF IInv, Expire, TypeOK, threads, files
<1> QED
    BY <1>1, <1>2, AskStep

\* A page that is in use has no room left.
LEMMA FillStep ==
    ASSUME IInv, NEW i \in Slots, status[i] = "ALLOCATED",
           full' = full \cup {<<journal[i], page[i]>>},
           UNCHANGED <<comm, clientInfo, counts, threads, pages, client>>
    PROVE  IInv'
<1> USE SlotFacts DEF IInv, comm, clientInfo, counts, threads, client
<1>1. <<journal[i], page[i]>> \in Files
    <2>1. journal[i] \in Journals /\ page[i] \in 1 .. pages[journal[i]]
        BY DEF SlotShape
    <2>2. page[i] \in Pages
        BY <2>1 DEF TypeOK, Pages
    <2> QED
        BY <2>1, <2>2 DEF Files
<1>2. TypeOK'
    BY <1>1 DEF TypeOK
<1>3. SlotsOfClients' /\ OneSlot' /\ SlotsNotShared' /\ AtSlot'
    BY DEF SlotsOfClients, OneSlot, SlotsNotShared, AtSlot
<1>4. SlotShape' /\ Served' /\ EarlierFull'
    BY DEF SlotShape, Served, EarlierFull
<1>5. Asked'
    BY DEF Asked, MayAsk
<1>6. Counted' /\ Alone'
    BY HoldingUnchanged
<1> QED
    BY <1>2, <1>3, <1>4, <1>5, <1>6

LEMMA SystemWriteStep ==
    ASSUME IInv, NEW c \in Clients, SystemWrite(c) PROVE IInv'
<1>1. PICK i \in SystemSlots :
        \/ /\ full' = full \cup {<<journal[i], page[i]>>}
           /\ UNCHANGED <<status, page, mutex, cpc, cslot>>
        \/ /\ SystemPageFull /\ page[i] < MaxPage
           /\ Ask(Engine, i, page[i] + 1)
           /\ mutex' = "socket"
           /\ UNCHANGED full
    BY DEF SystemWrite
<1>2. /\ cpc[Engine] = "in"
      /\ UNCHANGED <<journal, isWriter, lastPage, clientInfo, counts, seen, pages, cpage>>
    BY DEF SystemWrite
<1>3. i \in userIndex[Engine] /\ i \in Slots /\ status[i] = "ALLOCATED" /\ Engine \in Clients /\ Engine \in Writers
    BY SlotFacts DEF SystemSlots, TypeOK, IInv
<1>4. CASE full' = full \cup {<<journal[i], page[i]>>} /\ UNCHANGED <<status, page, mutex, cpc, cslot>>
    <2>1. UNCHANGED <<comm, clientInfo, counts, threads, pages, client>>
        BY <1>2, <1>4 DEF comm, threads, client
    <2> QED
        BY <1>3, <1>4, <2>1, FillStep
<1>5. CASE /\ SystemPageFull /\ page[i] < MaxPage
           /\ Ask(Engine, i, page[i] + 1) /\ mutex' = "socket" /\ UNCHANGED full
    <2>1. <<journal[i], page[i]>> \in full
        <3>1. PICK k \in SystemSlots : <<journal[k], page[k]>> \in full
            BY <1>5 DEF SystemPageFull
        <3>2. k = i
            BY <1>3 DEF SystemSlots, IInv, OneSlot
        <3> QED
            BY <3>1, <3>2
    <2>2. MayAsk(journal[i], page[i] + 1) /\ page[i] + 1 \in Pages \cup {0, Expired}
        BY <1>3, <1>5, <2>1, MayAskNext, NextPageTyped DEF IInv
    <2>3. cpage' \in [Clients -> Pages \cup {0}] /\ cpage' = cpage
        BY <1>2 DEF IInv, TypeOK
    <2> QED
        BY <1>2, <1>3, <1>5, <2>2, <2>3, AskStep
<1> QED
    BY <1>1, <1>4, <1>5

LEMMA FillPageStep ==
    ASSUME IInv, NEW c \in Clients, FillPage(c) PROVE IInv'
<1>1. PICK i \in userIndex[c] : status[i] = "ALLOCATED" /\ full' = full \cup {<<journal[i], page[i]>>}
    BY DEF FillPage
<1>2. i \in Slots /\ UNCHANGED <<comm, clientInfo, counts, threads, pages, client>>
    BY DEF IInv, TypeOK, FillPage
<1> QED
    BY <1>1, <1>2, FillStep

-----------------------------------------------------------------------------
(***************************************************************************)
(* The other steps of a client.                                            *)
(***************************************************************************)

LEMMA SeekPickStep ==
    ASSUME IInv, NEW c \in Clients, SeekPick(c) PROVE IInv'
<1> USE SlotFacts DEF IInv, SeekPick, comm, clientInfo, counts, threads, files
<1>1. PICK i \in userIndex[c], p \in Pages :
        /\ status[i] = "HOLDING" \/ (status[i] = "NON_EXIST" /\ page[i] = Expired)
        /\ IF pages[journal[i]] = 0 THEN p = 1
           ELSE IF c \in Writers THEN p = pages[journal[i]] ELSE p <= pages[journal[i]]
        /\ cpage' = [cpage EXCEPT ![c] = p]
        /\ cslot' = [cslot EXCEPT ![c] = i]
    OBVIOUS
<1>2. /\ i \in Slots /\ journal[i] \in Journals /\ pages[journal[i]] \in 0 .. MaxPage
      /\ cpc' = [cpc EXCEPT ![c] = "picked"] /\ cpc[c] = "in"
    BY <1>1 DEF TypeOK, SlotShape
<1>3. TypeOK'
    BY <1>1, <1>2 DEF TypeOK
<1>4. SlotsOfClients' /\ OneSlot' /\ SlotsNotShared'
    BY <1>2 DEF TypeOK, SlotsOfClients, OneSlot, SlotsNotShared
<1>5. AtSlot'
    BY <1>1, <1>2 DEF TypeOK, AtSlot
<1>6. SlotShape' /\ Asked' /\ Served' /\ EarlierFull'
    BY DEF SlotShape, Asked, MayAsk, Served, EarlierFull
<1>7. Counted' /\ Alone'
    BY HoldingUnchanged
<1> QED
    BY <1>3, <1>4, <1>5, <1>6, <1>7

LEMMA AnsweredStep ==
    ASSUME IInv, NEW c \in Clients, Answered(c) PROVE IInv'
<1> USE SlotFacts DEF IInv, Answered, comm, clientInfo, counts, files
<1>1. /\ cpc[c] = "waiting" /\ status[cslot[c]] # "REQUESTING" /\ cslot[c] \in userIndex[c]
      /\ \E s \in {"in", "failed"} : cpc' = [cpc EXCEPT ![c] = s]
      /\ cslot' = [cslot EXCEPT ![c] = NoSlot] /\ mutex' \in {"free", "socket"}
    BY DEF AtSlot, TypeOK
<1>2. TypeOK'
    BY <1>1 DEF TypeOK
<1>3. SlotsOfClients'
    BY <1>1 DEF TypeOK, SlotsOfClients
<1>4. OneSlot' /\ SlotsNotShared'
    BY DEF OneSlot, SlotsNotShared
<1>5. AtSlot'
    BY <1>1 DEF TypeOK, AtSlot
<1>6. SlotShape' /\ Asked' /\ Served' /\ EarlierFull'
    BY DEF SlotShape, Asked, MayAsk, Served, EarlierFull
<1>7. Counted' /\ Alone'
    BY HoldingUnchanged
<1> QED
    BY <1>2, <1>3, <1>4, <1>5, <1>6, <1>7

LEMMA KilledStep ==
    ASSUME IInv, NEW c \in Clients, Killed(c) PROVE IInv'
<1> USE SlotFacts DEF IInv, Killed, comm, clientInfo, counts, threads, files
<1>1. TypeOK'
    BY DEF TypeOK
<1>2. SlotsOfClients'
    BY DEF TypeOK, SlotsOfClients
<1>3. OneSlot' /\ SlotsNotShared'
    BY DEF OneSlot, SlotsNotShared
<1>4. AtSlot'
    BY DEF TypeOK, AtSlot
<1>5. SlotShape' /\ Asked' /\ Served' /\ EarlierFull'
    BY DEF SlotShape, Asked, MayAsk, Served, EarlierFull
<1>6. Counted' /\ Alone'
    BY HoldingUnchanged
<1> QED
    BY <1>1, <1>2, <1>3, <1>4, <1>5, <1>6

LEMMA ClientStepInvariant ==
    ASSUME IInv, CommFileHasRoom, NEW c \in Clients, ClientStep(c) PROVE IInv'
BY RegClientStep, RegJournalStep, FillSlotStep, ExitClientStep, KilledStep, SeekPickStep,
   SeekRequestStep, LoadNextPageStep, ExpireStep, AnsweredStep, FillPageStep, SystemWriteStep
DEF ClientStep

-----------------------------------------------------------------------------
(***************************************************************************)
(* The comm thread and the restart of the engine.                          *)
(***************************************************************************)

LEMMA CommPollStep ==
    ASSUME IInv, NEW i \in Slots, CommPoll(i) PROVE IInv'
<1> USE SlotFacts DEF IInv, CommPoll, comm, clientInfo, counts, files, client
<1>1. TypeOK'
    BY DEF TypeOK
<1>2. SlotsOfClients' /\ OneSlot' /\ SlotsNotShared' /\ AtSlot'
    BY DEF SlotsOfClients, OneSlot, SlotsNotShared, AtSlot
<1>3. SlotShape' /\ Asked' /\ Served' /\ EarlierFull'
    BY DEF SlotShape, Asked, MayAsk, Served, EarlierFull
<1>4. Counted' /\ Alone'
    BY HoldingUnchanged
<1> QED
    BY <1>1, <1>2, <1>3, <1>4

\* What all the answers leave alone: i is the slot that is served, s the
\* answer.
Answers(i, s) ==
    /\ i \in Slots /\ status[i] = "REQUESTING"
    /\ status' = [status EXCEPT ![i] = s] /\ lastPage' = [lastPage EXCEPT ![i] = page[i]]
    /\ s \in {"ALLOCATED", "NON_EXIST", "MORE_THAN_ONE_WRITE"}
    /\ seen' = NoSlot
    /\ UNCHANGED <<journal, isWriter, page, clientInfo, mutex, full, client>>

\* The clients see an answer in their slot.
LEMMA AnswerClients ==
    ASSUME IInv, NEW i, NEW s, Answers(i, s), \A j \in Journals : pages'[j] >= pages[j], pages' \in [Journals -> 0 .. MaxPage]
    PROVE  SlotsOfClients' /\ OneSlot' /\ SlotsNotShared' /\ AtSlot' /\ Served'
<1> USE SlotFacts DEF IInv, Answers, clientInfo, client
<1>1. SlotsOfClients'
    BY DEF TypeOK, SlotsOfClients
<1>2. OneSlot' /\ SlotsNotShared' /\ Served'
    BY DEF OneSlot, SlotsNotShared, Served
<1>3. AtSlot'
    <2> SUFFICES ASSUME NEW c \in Clients
                 PROVE  /\ cpc[c] \in {"naming", "picked", "waiting"} => cslot[c] \in userIndex[c]
                        /\ cpc[c] = "naming" => status'[cslot[c]] = "OCCUPIED"
                        /\ cpc[c] = "picked" =>
                              /\ status'[cslot[c]] \in {"HOLDING", "NON_EXIST"} /\ cpage[c] \in Pages
                              /\ c \in Writers => cpage[c] = 1 \/ cpage[c] <= pages'[journal[cslot[c]]]
        BY DEF AtSlot
    <2>1. CASE cpc[c] = "naming"
        BY <2>1 DEF AtSlot, TypeOK
    <2>2. CASE cpc[c] = "picked"
        <3>1. cslot[c] \in Slots /\ status'[cslot[c]] = status[cslot[c]] /\ cslot[c] \in userIndex[c]
              /\ status[cslot[c]] \in {"HOLDING", "NON_EXIST"}
            BY <2>2 DEF AtSlot, TypeOK
        <3>2. journal[cslot[c]] \in Journals /\ cpage[c] \in Pages /\ cpage[c] \in Nat
            BY <2>2, <3>1 DEF AtSlot, SlotShape
        <3>3. pages[journal[cslot[c]]] \in Nat /\ pages'[journal[cslot[c]]] \in Nat
              /\ pages'[journal[cslot[c]]] >= pages[journal[cslot[c]]]
            BY <3>2 DEF TypeOK
        <3> QED
            BY <2>2, <3>1, <3>2, <3>3 DEF AtSlot
    <2>3. CASE cpc[c] \notin {"naming", "picked"}
        BY <2>3 DEF AtSlot
    <2> QED
        BY <2>1, <2>2, <2>3
<1> QED
    BY <1>1, <1>2, <1>3

\* The slots other than the served one stand as before when pages are added.
LEMMA AnswerSlots ==
    ASSUME IInv, NEW i, NEW s, Answers(i, s), pages' \in [Journals -> 0 .. MaxPage],
           \A j \in Journals : pages'[j] >= pages[j],
           s = "ALLOCATED" => page[i] \in 1 .. pages'[journal[i]],
           isWriter[i] => s # "NON_EXIST"
    PROVE  SlotShape' /\ Asked'
<1> USE SlotFacts DEF IInv, Answers, client
<1>1. ASSUME NEW k \in Slots, k # i
      PROVE  /\ status'[k] = status[k] /\ lastPage'[k] = lastPage[k]
             /\ status[k] \notin {"RAW", "OCCUPIED"} =>
                   /\ journal[k] \in Journals /\ pages[journal[k]] \in Nat /\ pages'[journal[k]] \in Nat
                   /\ pages'[journal[k]] >= pages[journal[k]]
    BY <1>1 DEF TypeOK, SlotShape
<1>2. status'[i] = s /\ lastPage'[i] = page[i] /\ journal[i] \in Journals
    BY DEF TypeOK, SlotShape
<1>3. SlotShape'
    <2> SUFFICES ASSUME NEW k \in Slots
                 PROVE  /\ status'[k] \notin {"RAW", "OCCUPIED"} => journal[k] \in Journals
                        /\ status'[k] \in {"OCCUPIED", "HOLDING"} => lastPage'[k] = 0
                        /\ status'[k] = "ALLOCATED" =>
                              lastPage'[k] = page[k] /\ page[k] \in 1 .. pages'[journal[k]]
        BY DEF SlotShape
    <2>1. CASE k = i
        BY <1>2, <2>1
    <2>2. CASE k # i
        BY <1>1, <2>2 DEF SlotShape
    <2> QED
        BY <2>1, <2>2
<1>4. Asked'
    <2> SUFFICES ASSUME NEW k \in Slots, isWriter[k], status'[k] \notin {"RAW", "OCCUPIED"}
                 PROVE  /\ status'[k] # "NON_EXIST"
                        /\ status'[k] = "REQUESTING" =>
                              /\ MayAsk(journal[k], page[k])'
                              /\ lastPage'[k] > 0 => lastPage'[k] <= pages'[journal[k]]
        BY DEF Asked, MayAsk
    <2>1. CASE k = i
        BY <1>2, <2>1
    <2>2. CASE k # i /\ status[k] = "REQUESTING"
        <3>1. MayAsk(journal[k], page[k]) /\ (lastPage[k] > 0 => lastPage[k] <= pages[journal[k]])
            BY <1>1, <2>2 DEF Asked
        <3>2. page[k] \in Nat
            BY <3>1 DEF MayAsk
        <3>3. lastPage[k] \in Int
            <4>1. lastPage[k] \in Pages \cup {0, Expired}
                BY DEF TypeOK
            <4> QED
                BY <4>1, PageNumbers
        <3>4. lastPage'[k] > 0 => lastPage'[k] <= pages'[journal[k]]
            <4>1. /\ pages'[journal[k]] >= pages[journal[k]] /\ lastPage'[k] = lastPage[k]
                  /\ pages[journal[k]] \in Nat /\ pages'[journal[k]] \in Nat
                BY <1>1, <2>2
            <4> QED
                BY <3>1, <3>3, <4>1
        <3>5. MayAsk(journal[k], page[k])'
            <4>1. pages'[journal[k]] >= pages[journal[k]]
                  /\ pages[journal[k]] \in Nat /\ pages'[journal[k]] \in Nat
                BY <1>1, <2>2
            <4>2. CASE page[k] = 1 \/ page[k] <= pages[journal[k]]
                BY <3>1, <3>2, <4>1, <4>2 DEF MayAsk
            <4>3. CASE page[k] - 1 <= pages[journal[k]] /\ <<journal[k], page[k] - 1>> \in full
                BY <3>1, <3>2, <4>1, <4>3 DEF MayAsk
            <4> QED
                BY <3>1, <4>2, <4>3 DEF MayAsk
        <3> QED
            BY <1>1, <2>2, <3>4, <3>5
    <2>3. CASE k # i /\ status[k] # "REQUESTING"
        BY <1>1, <2>3 DEF Asked
    <2> QED
        BY <2>1, <2>2, <2>3
<1> QED
    BY <1>3, <1>4

\* The count of a page that is left, and of none other, is taken back.
LEMMA LeftCount ==
    ASSUME IInv, NEW i \in Slots, isWriter[i], status[i] = "REQUESTING"
    PROVE  /\ WritersLeft(i) \in [Files -> 0 .. 1]
           /\ \A k \in Slots \ {i} : Held(k) =>
                 WritersLeft(i)[<<journal[k], HeldBy(k)>>] = 1
<1> USE SlotFacts DEF IInv
<1>1. journal[i] \in Journals /\ writerCount \in [Files -> 0 .. 1]
    BY DEF SlotShape, TypeOK
<1>2. CASE lastPage[i] > 0 /\ lastPage[i] # page[i]
    <2> DEFINE f == <<journal[i], lastPage[i]>>
    <2>1. WritersLeft(i) = [writerCount EXCEPT ![f] = IF writerCount[f] > 0 THEN writerCount[f] - 1 ELSE writerCount[f]]
        BY <1>1, <1>2 DEF WritersLeft, ReleasePage
    <2>2. lastPage[i] \in Pages
        <3>1. lastPage[i] \in Pages \cup {0, Expired}
            BY DEF TypeOK
        <3> QED
            BY <1>2, <3>1, PageNumbers
    <2>3. Held(i) /\ HeldBy(i) = lastPage[i]
        BY <1>2, <2>2, HeldByCases DEF Held
    <2>4. ASSUME NEW k \in Slots \ {i}, Held(k)
          PROVE  /\ <<journal[k], HeldBy(k)>> # f
                 /\ <<journal[k], HeldBy(k)>> \in Files
                 /\ writerCount[<<journal[k], HeldBy(k)>>] = 1
        <3>1. journal[k] \in Journals /\ HeldBy(k) \in Pages
            BY <2>4, HeldByCases DEF Held, SlotShape, TypeOK, Expired
        <3>2. ~(journal[k] = journal[i] /\ HeldBy(k) = HeldBy(i))
            BY <2>3, <2>4 DEF Alone
        <3> QED
            BY <2>3, <2>4, <3>1, <3>2 DEF Counted, Files
    <2>5. f \in Files
        BY <1>1, <2>2 DEF Files
    <2> HIDE DEF f
    <2>6. WritersLeft(i) \in [Files -> 0 .. 1]
        BY <1>1, <2>1, <2>5
    <2> QED
        BY <1>1, <2>1, <2>4, <2>6
<1>3. CASE ~(lastPage[i] > 0 /\ lastPage[i] # page[i])
    BY <1>1, <1>3 DEF WritersLeft, Counted
<1> QED
    BY <1>2, <1>3

LEMMA WriterServed ==
    ASSUME IInv, NEW i \in Slots, status[i] = "REQUESTING", InitiateWriter(i),
           lastPage' = [lastPage EXCEPT ![i] = page[i]], seen' = NoSlot,
           UNCHANGED <<journal, isWriter, page, clientInfo, mutex, full, client>>
    PROVE  IInv'
<1> USE SlotFacts DEF IInv
<1> DEFINE f == <<journal[i], page[i]>>
           w == WritersLeft(i)
           j == journal[i]
<1>1. /\ isWriter[i]
      /\ pages' = [pages EXCEPT ![j] = IF pages[j] < page[i] THEN page[i] ELSE pages[j]]
      /\ mapped' = mapped \cup {f} /\ readerCount' = readerCount
      /\ \/ /\ w[f] = 0 /\ status' = [status EXCEPT ![i] = "ALLOCATED"] /\ writerCount' = [w EXCEPT ![f] = 1]
         \/ status' = [status EXCEPT ![i] = "MORE_THAN_ONE_WRITE"] /\ writerCount' = w
    BY DEF InitiateWriter, SlotShape, TypeOK
<1>2. j \in Journals /\ page[i] \in Pages /\ MayAsk(j, page[i]) /\ f \in Files
    BY <1>1 DEF SlotShape, Asked, MayAsk, Files
<1>3. /\ w \in [Files -> 0 .. 1]
      /\ \A k \in Slots \ {i} : Held(k) => w[<<journal[k], HeldBy(k)>>] = 1
    BY <1>1, LeftCount
<1> HIDE DEF w
<1>4. /\ pages' \in [Journals -> 0 .. MaxPage] /\ \A k \in Journals : pages'[k] >= pages[k]
      /\ page[i] \in 1 .. pages'[j]
    <2>1. pages \in [Journals -> 0 .. MaxPage] /\ page[i] \in 1 .. MaxPage
        BY <1>2 DEF TypeOK, Pages
    <2> HIDE DEF j
    <2> QED
        BY <1>1, <1>2, <2>1
<1>5. \E s \in {"ALLOCATED", "MORE_THAN_ONE_WRITE"} : status' = [status EXCEPT ![i] = s] /\ Answers(i, s)
    BY <1>1 DEF Answers
<1>6. /\ SlotsOfClients' /\ OneSlot' /\ SlotsNotShared' /\ AtSlot' /\ Served'
      /\ SlotShape' /\ Asked'
    BY <1>4, <1>5, AnswerClients, AnswerSlots
<1>7. TypeOK'
    <2>1. writerCount' \in [Files -> 0 .. 1]
        BY <1>1, <1>2, <1>3
    <2>2. /\ status' \in [Slots -> Statuses] /\ lastPage' \in [Slots -> Pages \cup {0, Expired}]
        BY <1>5 DEF TypeOK, Statuses
    <2> QED
        BY <1>1, <1>2, <1>4, <2>1, <2>2 DEF TypeOK, clientInfo, client
<1>8. EarlierFull'
    <2> SUFFICES ASSUME NEW k \in Journals, NEW q \in Pages, q < pages'[k] PROVE <<k, q>> \in full
        BY DEF EarlierFull
    <2>1. CASE q < pages[k]
        BY <2>1 DEF EarlierFull
    <2>2. CASE ~(q < pages[k])
        <3>1. k = j /\ pages'[k] = page[i] /\ pages[k] < page[i] /\ pages[k] \in Nat /\ page[i] \in Nat
            <4>1. pages \in [Journals -> 0 .. MaxPage] /\ page[i] \in Nat
                BY <1>2 DEF TypeOK
            <4>2. pages'[k] # pages[k]
                BY <2>2
            <4> HIDE DEF j
            <4>3. k = j /\ pages'[k] = page[i] /\ pages[k] < page[i]
                BY <1>1, <4>1, <4>2
            <4> QED
                BY <4>1, <4>3
        <3>2. page[i] # 1 /\ ~(page[i] <= pages[k]) /\ q = page[i] - 1
            BY <1>2, <2>2, <3>1 DEF MayAsk
        <3> QED
            BY <1>2, <3>1, <3>2 DEF MayAsk
    <2> QED
        BY <2>1, <2>2
<1>9. \A k \in Slots \ {i} : Held(k)' = Held(k) /\ HeldBy(k)' = HeldBy(k)
    BY <1>5 DEF TypeOK, Held, HeldBy
<1>10. CASE /\ w[f] = 0 /\ status' = [status EXCEPT ![i] = "ALLOCATED"] /\ writerCount' = [w EXCEPT ![f] = 1]
    <2>1. HeldBy(i)' = page[i]
        BY <1>10 DEF TypeOK, HeldBy
    <2>2. ASSUME NEW k \in Slots \ {i}, Held(k)
          PROVE  <<journal[k], HeldBy(k)>> # f /\ writerCount'[<<journal[k], HeldBy(k)>>] = 1
        <3>1. w[<<journal[k], HeldBy(k)>>] = 1
            BY <1>3, <2>2
        <3>2. <<journal[k], HeldBy(k)>> # f
            BY <1>10, <3>1
        <3> HIDE DEF f
        <3> QED
            BY <1>3, <1>10, <3>1, <3>2
    <2>3. writerCount'[f] = 1
        BY <1>2, <1>3, <1>10
    <2>4. Counted'
        <3> SUFFICES ASSUME NEW k \in Slots, Held(k)' PROVE writerCount'[<<journal[k], HeldBy(k)'>>] = 1
            BY DEF Counted
        <3>1. CASE k = i
            BY <2>1, <2>3, <3>1
        <3>2. CASE k # i
            BY <1>9, <2>2, <3>2
        <3> QED
            BY <3>1, <3>2
    <2>5. Alone'
        <3> SUFFICES ASSUME NEW k \in Slots, NEW l \in Slots, Held(k)', Held(l)',
                            journal[k] = journal[l], HeldBy(k)' = HeldBy(l)'
                     PROVE  k = l
            BY DEF Alone
        <3>1. CASE k # i /\ l # i
            BY <1>9, <3>1 DEF Alone
        <3>2. CASE k = i /\ l # i
            BY <1>9, <2>1, <2>2, <3>2
        <3>3. CASE k # i /\ l = i
            BY <1>9, <2>1, <2>2, <3>3
        <3> QED
            BY <3>1, <3>2, <3>3
    <2> QED
        BY <1>6, <1>7, <1>8, <2>4, <2>5
<1>11. CASE status' = [status EXCEPT ![i] = "MORE_THAN_ONE_WRITE"] /\ writerCount' = w
    <2>1. ~Held(i)'
        BY <1>11 DEF TypeOK, Held, HeldBy
    <2>2. Counted' /\ Alone'
        BY <1>3, <1>9, <1>11, <2>1 DEF Counted, Alone
    <2> QED
        BY <1>6, <1>7, <1>8, <2>2
<1> QED
    BY <1>1, <1>10, <1>11

LEMMA ReaderServed ==
    ASSUME IInv, NEW i \in Slots, status[i] = "REQUESTING", InitiateNonExist(i) \/ InitiateReader(i),
           lastPage' = [lastPage EXCEPT ![i] = page[i]], seen' = NoSlot,
           UNCHANGED <<journal, isWriter, page, clientInfo, mutex, full, client>>
    PROVE  IInv'
<1> USE SlotFacts DEF IInv
<1>1. /\ ~isWriter[i] /\ pages' = pages /\ writerCount' = writerCount
      /\ \/ status' = [status EXCEPT ![i] = "NON_EXIST"] /\ mapped' = mapped
         \/ /\ status' = [status EXCEPT ![i] = "ALLOCATED"] /\ page[i] \in 1 .. pages[journal[i]]
            /\ mapped' = mapped \cup {<<journal[i], page[i]>>}
    BY DEF InitiateNonExist, InitiateReader, WritersLeft
<1>2. PICK s \in {"ALLOCATED", "NON_EXIST"} :
        status' = [status EXCEPT ![i] = s] /\ (s = "ALLOCATED" => page[i] \in 1 .. pages[journal[i]])
    BY <1>1
<1>3. Answers(i, s)
    BY <1>2 DEF Answers
<1>4. pages' \in [Journals -> 0 .. MaxPage] /\ \A j \in Journals : pages'[j] >= pages[j]
    BY <1>1 DEF TypeOK
<1>5. /\ SlotsOfClients' /\ OneSlot' /\ SlotsNotShared' /\ AtSlot' /\ Served'
      /\ SlotShape' /\ Asked'
    BY <1>1, <1>2, <1>3, <1>4, AnswerClients, AnswerSlots
<1>6. TypeOK'
    <2>1. status' \in [Slots -> Statuses] /\ lastPage' \in [Slots -> Pages \cup {0, Expired}]
        BY <1>2 DEF TypeOK, Statuses
    <2>2. mapped' \subseteq Files
        <3>1. journal[i] \in Journals /\ pages[journal[i]] \in 0 .. MaxPage
            BY DEF SlotShape, TypeOK
        <3>2. page[i] \in 1 .. pages[journal[i]] => page[i] \in Pages
            BY <3>1 DEF Pages
        <3> QED
            BY <1>1, <3>1, <3>2 DEF TypeOK, Files
    <2>3. readerCount' \in [Files -> Int]
        <3>1. ReadersLeft(i) \in [Files -> Int]
            BY ReleaseTyped DEF ReadersLeft, TypeOK
        <3>2. CASE InitiateNonExist(i)
            BY <3>1, <3>2 DEF InitiateNonExist
        <3>3. CASE InitiateReader(i)
            <4> DEFINE f == <<journal[i], page[i]>>
            <4>1. readerCount' = [ReadersLeft(i) EXCEPT ![f] = ReadersLeft(i)[f] + 1] /\ f \in mapped'
                BY <3>3 DEF InitiateReader
            <4> HIDE DEF f
            <4> QED
                BY <2>2, <3>1, <4>1
        <3> QED
            BY <3>2, <3>3
    <2> QED
        BY <1>1, <1>4, <2>1, <2>2, <2>3 DEF TypeOK, clientInfo, client
<1>7. EarlierFull'
    BY <1>1 DEF EarlierFull
<1>8. \A k \in Slots : Held(k)' => Held(k) /\ HeldBy(k)' = HeldBy(k)
    BY <1>1, <1>2 DEF TypeOK, Held, HeldBy
<1>9. Counted' /\ Alone'
    BY <1>1, <1>8, HoldingKept
<1> QED
    BY <1>5, <1>6, <1>7, <1>9

LEMMA CommServeStep ==
    ASSUME IInv, CommServe PROVE IInv'
<1>1. /\ seen \in Slots /\ status[seen] = "REQUESTING"
      /\ InitiateWriter(seen) \/ InitiateNonExist(seen) \/ InitiateReader(seen)
      /\ lastPage' = [lastPage EXCEPT ![seen] = page[seen]] /\ seen' = NoSlot
      /\ UNCHANGED <<journal, isWriter, page, clientInfo, mutex, full, client>>
    BY DEF CommServe, IInv, Served, TypeOK
<1> QED
    BY <1>1, WriterServed, ReaderServed

LEMMA EngineRestartStep ==
    ASSUME IInv, EngineRestart PROVE IInv'
<1> USE SlotFacts DEF IInv, EngineRestart, Everywhere, files
<1>1. TypeOK'
    BY DEF TypeOK, Statuses, NoJournal, NoSlot
<1>2. SlotsOfClients' /\ OneSlot' /\ AtSlot' /\ SlotsNotShared'
    BY DEF SlotsOfClients, OneSlot, AtSlot, SlotsNotShared
<1>3. SlotShape' /\ Asked' /\ Served' /\ EarlierFull'
    BY DEF SlotShape, Asked, Served, EarlierFull
<1>4. \A i \in Slots : ~Held(i)'
    BY DEF Held
<1>5. Counted' /\ Alone'
    BY <1>4 DEF Counted, Alone
<1> QED
    BY <1>1, <1>2, <1>3, <1>5

LEMMA NextIInv == IInv /\ CommFileHasRoom /\ [Next]_vars => IInv'
<1> SUFFICES ASSUME IInv, CommFileHasRoom, [Next]_vars PROVE IInv'
    OBVIOUS
<1>1. CASE UNCHANGED vars
    <2> USE <1>1 DEF vars, comm, clientInfo, counts, threads, files, client, IInv
    <2>1. TypeOK'
        BY DEF TypeOK
    <2>2. SlotsOfClients' /\ OneSlot' /\ AtSlot' /\ SlotsNotShared'
        BY DEF SlotsOfClients, OneSlot, AtSlot, SlotsNotShared
    <2>3. SlotShape' /\ Asked' /\ Served' /\ EarlierFull'
        BY DEF SlotShape, Asked, MayAsk, Served, EarlierFull
    <2>4. Counted' /\ Alone'
        BY HoldingUnchanged
    <2> QED
        BY <2>1, <2>2, <2>3, <2>4
<1> QED
    BY <1>1, CommPollStep, CommServeStep, ClientStepInvariant, EngineRestartStep DEF Next

-----------------------------------------------------------------------------
(***************************************************************************)
(* The theorems.                                                           *)
(***************************************************************************)

LEMMA Invariant == Spec /\ []CommFileHasRoom => []IInv
BY InitIInv, NextIInv, PTL DEF Spec

\* The state of the engine has its types: every page it counts or maps is one
\* of a journal that was registered.
THEOREM EngineTypes == Spec /\ []CommFileHasRoom => []TypeOK
<1>1. IInv => TypeOK
    BY DEF IInv
<1> QED
    BY <1>1, Invariant, PTL

\* As long as there is room in the comm file, reg_journal gives a slot to one
\* client only, whatever exits, kills and restarts came before.
THEOREM SlotsHaveOneUser == Spec /\ []CommFileHasRoom => []SlotsNotShared
<1>1. IInv => SlotsNotShared
    BY DEF IInv
<1> QED
    BY <1>1, Invariant, PTL

\* As long as there is room in the comm file, a journal has one process that
\* can write to it, although the engine admits one writer per page only.
THEOREM JournalHasOneWriter == Spec /\ []CommFileHasRoom => []OneWriterPerJournal
<1>1. IInv => OneWriterPerJournal
    <2> SUFFICES ASSUME IInv, NEW j \in Journals PROVE Cardinality({c \in Clients : MayWrite(c, j)}) <= 1
        BY DEF OneWriterPerJournal
    <2> USE SlotFacts DEF IInv
    <2>1. \A c, d \in Clients : MayWrite(c, j) /\ MayWrite(d, j) => c = d
        <3> SUFFICES ASSUME NEW c \in Clients, NEW d \in Clients, MayWrite(c, j), MayWrite(d, j) PROVE c = d
            OBVIOUS
        <3>1. ASSUME NEW a \in Clients, MayWrite(a, j)
              PROVE  \E i \in userIndex[a] :
                       i \in Slots /\ journal[i] = j /\ Held(i) /\ HeldBy(i) = pages[j]
            <4>1. PICK i \in userIndex[a] :
                     status[i] = "ALLOCATED" /\ journal[i] = j /\ <<j, page[i]>> \notin full
                BY <3>1 DEF MayWrite
            <4>2. i \in Slots /\ isWriter[i] /\ page[i] \in 1 .. pages[j] /\ pages[j] \in 0 .. MaxPage
                BY <3>1, <4>1 DEF MayWrite, SlotsOfClients, SlotShape, TypeOK
            <4>3. page[i] \in Pages /\ ~(page[i] < pages[j])
                BY <4>1, <4>2 DEF EarlierFull, Pages
            <4>4. page[i] = pages[j] /\ page[i] # 0
                BY <4>2, <4>3
            <4>5. HeldBy(i) = page[i]
                BY <4>1, <4>2, HeldByCases
            <4> QED
                BY <4>1, <4>2, <4>4, <4>5 DEF Held
        <3>2. PICK i \in userIndex[c] : i \in Slots /\ journal[i] = j /\ Held(i) /\ HeldBy(i) = pages[j]
            BY <3>1
        <3>3. PICK k \in userIndex[d] : k \in Slots /\ journal[k] = j /\ Held(k) /\ HeldBy(k) = pages[j]
            BY <3>1
        <3>4. i = k
            BY <3>2, <3>3 DEF Alone
        <3> QED
            BY <3>4 DEF SlotsNotShared
    <2> DEFINE S == {c \in Clients : MayWrite(c, j)}
    <2>2. CASE S = {}
        BY <2>2, FS_EmptySet
    <2>3. CASE S # {}
        <3>1. PICK c \in S : S = {c}
            BY <2>1, <2>3
        <3>2. Cardinality(S) = 1
            BY <3>1, FS_Singleton
        <3> QED
            BY <3>2
    <2> QED
        BY <2>2, <2>3
<1> QED
    BY <1>1, Invariant, PTL

-----------------------------------------------------------------------------
(***************************************************************************)
(* The counts.  What a slot holds is given back once: an answer releases   *)
(* the page left behind, and only if it is another one.                    *)
(***************************************************************************)

\* A slot never asks for the page it holds, and one that was told that its page
\* does not exist holds none.
Turning ==
    \A i \in Slots :
        /\ status[i] = "REQUESTING" /\ lastPage[i] > 0 => page[i] # lastPage[i]
        /\ status[i] = "NON_EXIST" => lastPage[i] = page[i]

\* Only an expired journal is sought again.
SeeksAnew ==
    \A c \in Clients : cpc[c] = "picked" /\ status[cslot[c]] = "NON_EXIST" => page[cslot[c]] = Expired

CInv == Turning /\ SeeksAnew /\ CountsMatchSlots

LEMMA HoldersFinite ==
    ASSUME NEW f, NEW w
    PROVE  Holders(f, w) \subseteq Slots /\ IsFiniteSet(Holders(f, w)) /\ Cardinality(Holders(f, w)) \in Nat
<1>1. IsFiniteSet(Slots)
    BY SlotFacts, FS_Interval DEF Slots
<1>2. Holders(f, w) \subseteq Slots
    BY DEF Holders
<1> QED
    BY <1>1, <1>2, FS_Subset, FS_CardinalityType

\* What slot i holds does not change.
SameHolding(i) ==
    /\ HeldBy(i)' = HeldBy(i)
    /\ HeldBy(i) # 0 => journal'[i] = journal[i] /\ isWriter'[i] = isWriter[i]

LEMMA SameHolders ==
    ASSUME \A i \in Slots : SameHolding(i), UNCHANGED <<writerCount, readerCount>>, CountsMatchSlots
    PROVE  CountsMatchSlots'
<1>1. ASSUME NEW f \in Files, NEW w \in BOOLEAN PROVE Holders(f, w)' = Holders(f, w)
    BY DEF Holders, SameHolding
<1> QED
    BY <1>1 DEF CountsMatchSlots

\* Slot i comes to hold f, leaves it, or does neither: the holders but for i
\* stay.
LEMMA OthersKept ==
    ASSUME NEW i \in Slots, \A k \in Slots \ {i} : SameHolding(k), NEW f, NEW w
    PROVE  Holders(f, w)' \ {i} = Holders(f, w) \ {i}
BY DEF Holders, SameHolding

LEMMA HoldersWithout ==
    ASSUME NEW f, NEW w, NEW i
    PROVE  Cardinality(Holders(f, w)) =
              Cardinality(Holders(f, w) \ {i}) + (IF i \in Holders(f, w) THEN 1 ELSE 0)
<1>1. /\ Cardinality(Holders(f, w) \ {i}) =
            IF i \in Holders(f, w) THEN Cardinality(Holders(f, w)) - 1 ELSE Cardinality(Holders(f, w))
      /\ Cardinality(Holders(f, w)) \in Nat
    BY HoldersFinite, FS_RemoveElement
<1> QED
    BY <1>1

LEMMA InitCInv == Init => CInv
<1> SUFFICES ASSUME Init PROVE CInv
    OBVIOUS
<1>1. Turning /\ SeeksAnew
    BY SlotFacts DEF Init, Everywhere, Turning, SeeksAnew
<1>2. \A f \in Files, w \in BOOLEAN : Holders(f, w) = {}
    BY DEF Init, Everywhere, Holders, HeldBy
<1>3. CountsMatchSlots
    BY <1>2, FS_EmptySet DEF Init, Everywhere, CountsMatchSlots
<1> QED
    BY <1>1, <1>3 DEF CInv

\* A step that leaves the slots and the counts alone.
LEMMA SlotsUnchanged ==
    ASSUME CInv, UNCHANGED <<comm, writerCount, readerCount>>,
           \A c \in Clients : cpc'[c] = "picked" => cpc[c] = "picked" /\ cslot'[c] = cslot[c]
    PROVE  CInv'
<1>1. Turning' /\ SeeksAnew'
    BY DEF CInv, comm, Turning, SeeksAnew
<1>2. \A i \in Slots : SameHolding(i)
    BY DEF comm, SameHolding, HeldBy
<1> QED
    BY <1>1, <1>2, SameHolders DEF CInv

LEMMA StillCounts ==
    ASSUME IInv, CInv, NEW c \in Clients,
           RegClient(c) \/ Answered(c) \/ Killed(c) \/ FillPage(c) \/ (\E i \in Slots : CommPoll(i))
    PROVE  CInv'
<1>1. UNCHANGED <<comm, writerCount, readerCount>>
    BY DEF RegClient, Answered, Killed, FillPage, CommPoll, counts
<1>2. \A d \in Clients : cpc'[d] = "picked" => cpc[d] = "picked" /\ cslot'[d] = cslot[d]
    BY DEF RegClient, Answered, Killed, FillPage, CommPoll, client, IInv, TypeOK
<1> QED
    BY <1>1, <1>2, SlotsUnchanged

LEMMA SeekPickCounts ==
    ASSUME IInv, CInv, NEW c \in Clients, SeekPick(c) PROVE CInv'
<1>1. PICK i \in userIndex[c] :
        /\ status[i] = "HOLDING" \/ (status[i] = "NON_EXIST" /\ page[i] = Expired)
        /\ cslot' = [cslot EXCEPT ![c] = i]
    BY DEF SeekPick
<1>2. cpc' = [cpc EXCEPT ![c] = "picked"] /\ UNCHANGED <<comm, counts>>
    BY DEF SeekPick
<1>3. Turning' /\ SeeksAnew'
    BY <1>1, <1>2 DEF CInv, IInv, TypeOK, comm, Turning, SeeksAnew
<1>4. \A k \in Slots : SameHolding(k)
    BY <1>2 DEF comm, SameHolding, HeldBy
<1> QED
    BY <1>2, <1>3, <1>4, SameHolders DEF CInv, counts

\* An unnamed slot holds nothing.
LEMMA RegJournalCounts ==
    ASSUME IInv, CInv, CommFileHasRoom, NEW c \in Clients, RegJournal(c) PROVE CInv'
<1> USE SlotFacts DEF IInv, CInv
<1>1. PICK i \in Slots :
        /\ FreeSlot(i)
        /\ status' = [status EXCEPT ![i] = "OCCUPIED"]
        /\ lastPage' = [lastPage EXCEPT ![i] = 0]
        /\ cslot' = [cslot EXCEPT ![c] = i]
    BY DEF RegJournal
<1>2. /\ cpc' = [cpc EXCEPT ![c] = "naming"]
      /\ UNCHANGED <<journal, isWriter, page, writerCount, readerCount>>
    BY DEF RegJournal, counts
<1>3. status[i] = "RAW"
    BY <1>1, FreeSlotIsRaw
<1>4. Turning'
    BY <1>1, <1>2 DEF TypeOK, Turning
<1>5. SeeksAnew'
    BY <1>1, <1>2, <1>3 DEF TypeOK, AtSlot, SeeksAnew
<1>6. \A k \in Slots : SameHolding(k)
    BY <1>1, <1>2, <1>3 DEF TypeOK, SameHolding, HeldBy
<1> QED
    BY <1>2, <1>4, <1>5, <1>6, SameHolders

LEMMA FillSlotCounts ==
    ASSUME IInv, CInv, NEW c \in Clients, FillSlot(c) PROVE CInv'
<1> USE SlotFacts DEF IInv, CInv
<1> DEFINE i == cslot[c]
<1>1. cpc[c] = "naming" /\ i \in userIndex[c] /\ status[i] = "OCCUPIED" /\ i \in Slots
    BY DEF FillSlot, AtSlot, TypeOK
<1>2. PICK j \in Opens[c] : journal' = [journal EXCEPT ![i] = j]
    BY <1>1 DEF FillSlot
<1>3. /\ isWriter' = [isWriter EXCEPT ![i] = c \in Writers]
      /\ status' = [status EXCEPT ![i] = "HOLDING"]
      /\ cpc' = [cpc EXCEPT ![c] = "in"] /\ cslot' = [cslot EXCEPT ![c] = NoSlot]
      /\ UNCHANGED <<page, lastPage, writerCount, readerCount>>
    BY <1>1 DEF FillSlot, counts
<1> HIDE DEF i
<1>4. Turning'
    BY <1>1, <1>3 DEF TypeOK, Turning
<1>5. SeeksAnew'
    BY <1>3 DEF TypeOK, SeeksAnew
<1>6. \A k \in Slots : SameHolding(k)
    BY <1>1, <1>2, <1>3 DEF TypeOK, SameHolding, HeldBy
<1> QED
    BY <1>3, <1>4, <1>5, <1>6, SameHolders

\* Who asks for another page still holds the one before.
LEMMA AskCounts ==
    ASSUME IInv, CInv, NEW c \in Clients, NEW i \in userIndex[c], NEW p \in Pages \cup {0, Expired}, Ask(c, i, p),
           status[i] = "ALLOCATED" => p # page[i],
           status[i] = "NON_EXIST" => page[i] = Expired,
           status[i] \in {"HOLDING", "NON_EXIST", "ALLOCATED"},
           UNCHANGED <<journal, isWriter, lastPage, writerCount, readerCount>>
    PROVE  CInv'
<1> USE SlotFacts DEF IInv, CInv
<1>1. i \in Slots /\ \A d \in Clients \ {c} : i \notin userIndex[d]
    BY DEF TypeOK, SlotsNotShared
<1>2. /\ page' = [page EXCEPT ![i] = p] /\ status' = [status EXCEPT ![i] = "REQUESTING"]
      /\ cslot' = [cslot EXCEPT ![c] = i] /\ cpc' = [cpc EXCEPT ![c] = "waiting"]
    BY DEF Ask
<1>3. ~(Expired > 0)
    BY DEF Expired
<1>4. lastPage[i] > 0 => status[i] = "ALLOCATED" /\ lastPage[i] = page[i]
    BY <1>1, <1>3 DEF SlotShape, Turning
<1>5. Turning'
    <2> SUFFICES ASSUME NEW k \in Slots
                 PROVE  /\ status'[k] = "REQUESTING" /\ lastPage[k] > 0 => page'[k] # lastPage[k]
                        /\ status'[k] = "NON_EXIST" => lastPage[k] = page'[k]
        BY DEF Turning
    <2>1. CASE k = i
        BY <1>1, <1>2, <1>4, <2>1 DEF TypeOK
    <2>2. CASE k # i
        BY <1>2, <2>2 DEF TypeOK, Turning
    <2> QED
        BY <2>1, <2>2
<1>6. SeeksAnew'
    <2> SUFFICES ASSUME NEW d \in Clients, cpc'[d] = "picked", status'[cslot'[d]] = "NON_EXIST"
                 PROVE  page'[cslot'[d]] = Expired
        BY DEF SeeksAnew
    <2>1. d # c /\ cpc[d] = "picked" /\ cslot'[d] = cslot[d]
        BY <1>2 DEF TypeOK
    <2>2. cslot[d] \in Slots /\ cslot[d] # i
        BY <1>1, <2>1 DEF AtSlot, TypeOK
    <2> QED
        BY <1>2, <2>1, <2>2 DEF SeeksAnew, TypeOK
<1>7. \A k \in Slots : SameHolding(k)
    <2> SUFFICES ASSUME NEW k \in Slots PROVE HeldBy(k)' = HeldBy(k)
        BY DEF SameHolding
    <2>1. CASE k # i
        BY <1>2, <2>1 DEF TypeOK, HeldBy
    <2>2. CASE k = i
        <3>1. HeldBy(i)' = IF lastPage[i] > 0 THEN lastPage[i] ELSE 0
            BY <1>1, <1>2 DEF TypeOK, HeldBy
        <3>2. CASE status[i] = "ALLOCATED"
            BY <1>1, <2>2, <3>1, <3>2, HeldByCases DEF SlotShape, TypeOK
        <3>3. CASE status[i] # "ALLOCATED"
            BY <1>1, <1>4, <2>2, <3>1, <3>3, HeldByCases
        <3> QED
            BY <3>2, <3>3
    <2> QED
        BY <2>1, <2>2
<1> QED
    BY <1>5, <1>6, <1>7, SameHolders

LEMMA RequestCounts ==
    ASSUME IInv, CInv, NEW c \in Clients,
           SeekRequest(c) \/ LoadNextPage(c) \/ Expire(c) \/ SystemWrite(c)
    PROVE  CInv'
<1> USE SlotFacts DEF IInv
<1>1. CASE SeekRequest(c)
    <2>1. /\ cslot[c] \in userIndex[c] /\ status[cslot[c]] \in {"HOLDING", "NON_EXIST"} /\ cpage[c] \in Pages
          /\ cpc[c] = "picked"
        BY <1>1 DEF SeekRequest, AtSlot
    <2>2. status[cslot[c]] = "NON_EXIST" => page[cslot[c]] = Expired
        BY <2>1 DEF CInv, SeeksAnew
    <2>3. Ask(c, cslot[c], cpage[c]) /\ UNCHANGED <<journal, isWriter, lastPage, writerCount, readerCount>>
        BY <1>1 DEF SeekRequest, counts
    <2> QED
        BY <2>1, <2>2, <2>3, AskCounts
<1>2. ASSUME NEW d \in Clients, NEW i \in userIndex[d], status[i] = "ALLOCATED", page[i] < MaxPage,
             Ask(d, i, page[i] + 1), UNCHANGED <<journal, isWriter, lastPage, counts>>
      PROVE  CInv'
    <2>1. i \in Slots /\ page[i] + 1 \in Pages \cup {0, Expired}
        BY <1>2, NextPageTyped DEF TypeOK
    <2>2. page[i] \in Int
        BY <2>1, PageNumbers DEF TypeOK
    <2>3. page[i] + 1 # page[i]
        BY <2>2
    <2> QED
        BY <1>2, <2>1, <2>3, AskCounts DEF counts
<1>3. CASE LoadNextPage(c)
    BY <1>2, <1>3 DEF LoadNextPage
<1>4. CASE Expire(c)
    <2>1. PICK i \in userIndex[c] : status[i] = "ALLOCATED" /\ Ask(c, i, Expired)
        BY <1>4 DEF Expire
    <2>2. i \in Slots /\ page[i] \in 1 .. pages[journal[i]] /\ Expired # page[i]
        <3>1. i \in Slots /\ page[i] \in 1 .. pages[journal[i]]
            BY <2>1 DEF TypeOK, SlotShape
        <3> QED
            BY <3>1 DEF Expired
    <2> QED
        BY <1>4, <2>1, <2>2, AskCounts DEF Expire, counts
<1>5. CASE SystemWrite(c)
    <2>1. PICK i \in SystemSlots :
            \/ UNCHANGED <<status, page, cpc, cslot>>
            \/ page[i] < MaxPage /\ Ask(Engine, i, page[i] + 1)
        BY <1>5 DEF SystemWrite
    <2>2. /\ i \in userIndex[Engine] /\ status[i] = "ALLOCATED" /\ Engine \in Clients
          /\ UNCHANGED <<journal, isWriter, lastPage, counts>>
        BY <1>5 DEF SystemWrite, SystemSlots
    <2>3. CASE UNCHANGED <<status, page, cpc, cslot>>
        BY <2>2, <2>3, SlotsUnchanged DEF comm, counts
    <2> QED
        BY <1>2, <2>1, <2>2, <2>3
<1> QED
    BY <1>1, <1>3, <1>4, <1>5

\* Who leaves gives back what its slots hold.  None of them waits for an answer.
LEMMA ExitClientCounts ==
    ASSUME IInv, CInv, NEW c \in Clients, ExitClient(c) PROVE CInv'
<1> USE SlotFacts DEF IInv, CInv
<1> DEFINE S == userIndex[c]
<1>1. /\ cpc[c] \in {"in", "failed"} /\ cpc' = [cpc EXCEPT ![c] = "out"]
      /\ status' = Cleared(status, S, "RAW") /\ journal' = Cleared(journal, S, NoJournal)
      /\ isWriter' = Cleared(isWriter, S, FALSE) /\ page' = Cleared(page, S, 0)
      /\ UNCHANGED <<lastPage, cslot>>
    BY DEF ExitClient
<1>2. /\ writerCount' = [f \in Files |->
             IF \E i \in AllocatedTo(c, f) : isWriter[i] THEN 0 ELSE writerCount[f]]
      /\ readerCount' = [f \in Files |->
             readerCount[f] - Cardinality({i \in AllocatedTo(c, f) : ~isWriter[i]})]
    BY DEF ExitClient
<1>3. /\ S \subseteq Slots /\ \A i \in S : status[i] # "REQUESTING"
      /\ \A d \in Clients \ {c} : userIndex[d] \cap S = {}
    BY <1>1 DEF TypeOK, SlotsOfClients, SlotsNotShared
<1>4. \A i \in Slots :
        /\ i \in S => status'[i] = "RAW"
        /\ i \notin S => /\ status'[i] = status[i] /\ journal'[i] = journal[i]
                         /\ isWriter'[i] = isWriter[i] /\ page'[i] = page[i]
    BY <1>1 DEF Cleared
<1> HIDE DEF S
<1>5. Turning'
    BY <1>1, <1>4 DEF Turning
<1>6. SeeksAnew'
    <2> SUFFICES ASSUME NEW d \in Clients, cpc'[d] = "picked", status'[cslot'[d]] = "NON_EXIST"
                 PROVE  page'[cslot'[d]] = Expired
        BY DEF SeeksAnew
    <2>1. d # c /\ cpc[d] = "picked" /\ cslot'[d] = cslot[d]
        BY <1>1 DEF TypeOK
    <2>2. cslot[d] \in Slots /\ cslot[d] \notin S
        BY <1>3, <2>1 DEF AtSlot, TypeOK
    <2> QED
        BY <1>4, <2>1, <2>2 DEF SeeksAnew
<1>7. ASSUME NEW f, NEW w PROVE Holders(f, w)' = Holders(f, w) \ S
    <2>1. \A i \in Slots : HeldBy(i)' = IF i \in S THEN 0 ELSE HeldBy(i)
        BY <1>1, <1>4 DEF HeldBy
    <2> QED
        BY <1>4, <2>1 DEF Holders
<1>8. ASSUME NEW f \in Files, NEW w \in BOOLEAN
      PROVE  Holders(f, w) \cap S = {i \in AllocatedTo(c, f) : isWriter[i] = w}
    <2>1. \A i \in S : HeldBy(i) # 0 => status[i] = "ALLOCATED"
        BY <1>3, HeldByCases
    <2>2. \A i \in S : status[i] = "ALLOCATED" => HeldBy(i) = page[i] /\ page[i] # 0
        BY <1>3, HeldByCases DEF SlotShape, TypeOK
    <2> QED
        BY <1>3, <2>1, <2>2 DEF Holders, AllocatedTo, S
<1>9. ASSUME NEW f \in Files PROVE readerCount'[f] = Cardinality(Holders(f, FALSE)')
    <2>1. {i \in AllocatedTo(c, f) : ~isWriter[i]} = Holders(f, FALSE) \cap S
        <3>1. \A i \in AllocatedTo(c, f) : isWriter[i] \in BOOLEAN
            BY <1>3 DEF AllocatedTo, TypeOK, S
        <3> QED
            BY <1>8, <3>1
    <2>2. Cardinality(Holders(f, FALSE) \ S) = Cardinality(Holders(f, FALSE)) - Cardinality(Holders(f, FALSE) \cap S)
        BY HoldersFinite, FS_Difference
    <2> QED
        BY <1>2, <1>7, <2>1, <2>2 DEF CountsMatchSlots
<1>10. ASSUME NEW f \in Files PROVE writerCount'[f] = Cardinality(Holders(f, TRUE)')
    <2>1. \A i, k \in Holders(f, TRUE) : i = k
        BY DEF Holders, Held, Alone, Files
    <2>2. {i \in AllocatedTo(c, f) : isWriter[i]} = Holders(f, TRUE) \cap S
        <3>1. \A i \in AllocatedTo(c, f) : isWriter[i] \in BOOLEAN
            BY <1>3 DEF AllocatedTo, TypeOK, S
        <3> QED
            BY <1>8, <3>1
    <2>3. CASE Holders(f, TRUE) \cap S = {}
        <3>1. Holders(f, TRUE)' = Holders(f, TRUE)
            BY <1>7, <2>3
        <3> QED
            BY <1>2, <2>2, <2>3, <3>1 DEF CountsMatchSlots
    <2>4. CASE Holders(f, TRUE) \cap S # {}
        <3>1. Holders(f, TRUE)' = {}
            BY <1>7, <2>1, <2>4
        <3> QED
            BY <1>2, <2>2, <2>4, <3>1, FS_EmptySet
    <2> QED
        BY <2>3, <2>4
<1> QED
    BY <1>5, <1>6, <1>9, <1>10 DEF CountsMatchSlots

\* Before the answer is given, the page left behind is released: the counts
\* are those of the other slots.  If the page is the one asked for, or there
\* is none, slot i holds nothing to give back.
LEMMA CountsWithout ==
    ASSUME IInv, CInv, NEW i \in Slots, status[i] = "REQUESTING"
    PROVE  /\ WritersLeft(i) \in [Files -> Int] /\ ReadersLeft(i) \in [Files -> Int]
           /\ \A f \in Files : /\ WritersLeft(i)[f] = Cardinality(Holders(f, TRUE) \ {i})
                               /\ ReadersLeft(i)[f] = Cardinality(Holders(f, FALSE) \ {i})
<1> USE SlotFacts DEF IInv, CInv
<1>1. writerCount \in [Files -> Int] /\ readerCount \in [Files -> Int] /\ isWriter[i] \in BOOLEAN
    BY DEF TypeOK
<1>2. WritersLeft(i) \in [Files -> Int] /\ ReadersLeft(i) \in [Files -> Int]
    BY <1>1, ReleaseTyped DEF WritersLeft, ReadersLeft
<1>3. HeldBy(i) = IF lastPage[i] > 0 THEN lastPage[i] ELSE 0
    BY HeldByCases
<1>4. lastPage[i] > 0 => lastPage[i] # page[i] /\ lastPage[i] # 0 /\ journal[i] \in Journals /\ lastPage[i] \in Pages
    <2>1. lastPage[i] \in Pages \cup {0, Expired}
        BY DEF TypeOK
    <2> QED
        BY <2>1, PageNumbers DEF Turning, SlotShape
<1> DEFINE g == <<journal[i], lastPage[i]>>
<1>5. ASSUME NEW f \in Files, NEW w \in BOOLEAN
      PROVE  i \in Holders(f, w) <=> lastPage[i] > 0 /\ isWriter[i] = w /\ f = g
    BY <1>3, <1>4 DEF Holders
<1>6. lastPage[i] > 0 => g \in Files
    BY <1>4 DEF Files
<1>7. ASSUME NEW count \in [Files -> Int], NEW f \in Files, g \in Files
      PROVE  ReleasePage(count, g)[f] = IF f = g /\ count[f] > 0 THEN count[f] - 1 ELSE count[f]
    <2> HIDE DEF g
    <2> QED
        BY <1>7 DEF ReleasePage
<1>8. ASSUME NEW f \in Files
      PROVE  /\ WritersLeft(i)[f] = writerCount[f] - (IF i \in Holders(f, TRUE) THEN 1 ELSE 0)
             /\ ReadersLeft(i)[f] = readerCount[f] - (IF i \in Holders(f, FALSE) THEN 1 ELSE 0)
    <2> DEFINE W == Holders(f, TRUE)
               R == Holders(f, FALSE)
    <2>1. /\ writerCount[f] = Cardinality(W) /\ readerCount[f] = Cardinality(R)
          /\ Cardinality(W) = Cardinality(W \ {i}) + (IF i \in W THEN 1 ELSE 0)
          /\ Cardinality(R) = Cardinality(R \ {i}) + (IF i \in R THEN 1 ELSE 0)
        BY HoldersWithout DEF CountsMatchSlots
    <2>2. Cardinality(W \ {i}) \in Nat /\ Cardinality(R \ {i}) \in Nat
        BY HoldersFinite, FS_RemoveElement, FS_CardinalityType
    <2>3. (i \in W => writerCount[f] > 0) /\ (i \in R => readerCount[f] > 0)
        <3> HIDE DEF W, R
        <3> QED
            BY <2>1, <2>2
    <2>4. CASE lastPage[i] > 0 /\ isWriter[i]
        <3>1. WritersLeft(i) = ReleasePage(writerCount, g) /\ ReadersLeft(i) = readerCount
            BY <1>4, <2>4 DEF WritersLeft, ReadersLeft
        <3>2. (i \in W <=> f = g) /\ i \notin R
            BY <1>5, <2>4
        <3>3. /\ ReleasePage(writerCount, g)[f] = IF f = g /\ writerCount[f] > 0 THEN writerCount[f] - 1 ELSE writerCount[f]
              /\ writerCount[f] \in Int /\ readerCount[f] \in Int
            BY <1>1, <1>6, <1>7, <2>4
        <3> HIDE DEF g
        <3>4. CASE f = g
            BY <2>3, <3>1, <3>2, <3>3, <3>4
        <3>5. CASE f # g
            <4>1. i \notin W /\ i \notin R
                BY <3>2, <3>5
            <4> QED
                BY <3>1, <3>3, <3>5, <4>1
        <3> QED
            BY <3>4, <3>5
    <2>5. CASE lastPage[i] > 0 /\ ~isWriter[i]
        <3>1. ReadersLeft(i) = ReleasePage(readerCount, g) /\ WritersLeft(i) = writerCount
            BY <1>4, <2>5 DEF WritersLeft, ReadersLeft
        <3>2. (i \in R <=> f = g) /\ i \notin W
            BY <1>1, <1>5, <2>5
        <3>3. /\ ReleasePage(readerCount, g)[f] = IF f = g /\ readerCount[f] > 0 THEN readerCount[f] - 1 ELSE readerCount[f]
              /\ writerCount[f] \in Int /\ readerCount[f] \in Int
            BY <1>1, <1>6, <1>7, <2>5
        <3> HIDE DEF g
        <3>4. CASE f = g
            BY <2>3, <3>1, <3>2, <3>3, <3>4
        <3>5. CASE f # g
            <4>1. i \notin W /\ i \notin R
                BY <3>2, <3>5
            <4> QED
                BY <3>1, <3>3, <3>5, <4>1
        <3> QED
            BY <3>4, <3>5
    <2>6. CASE ~(lastPage[i] > 0)
        <3>1. WritersLeft(i) = writerCount /\ ReadersLeft(i) = readerCount
            BY <2>6 DEF WritersLeft, ReadersLeft
        <3>2. i \notin W /\ i \notin R
            BY <1>5, <2>6
        <3> QED
            BY <1>1, <3>1, <3>2
    <2> QED
        BY <2>4, <2>5, <2>6
<1>9. ASSUME NEW f \in Files
      PROVE  /\ WritersLeft(i)[f] = Cardinality(Holders(f, TRUE) \ {i})
             /\ ReadersLeft(i)[f] = Cardinality(Holders(f, FALSE) \ {i})
    <2> DEFINE W == Holders(f, TRUE)
               R == Holders(f, FALSE)
    <2>1. /\ writerCount[f] = Cardinality(W) /\ readerCount[f] = Cardinality(R)
          /\ Cardinality(W) = Cardinality(W \ {i}) + (IF i \in W THEN 1 ELSE 0)
          /\ Cardinality(R) = Cardinality(R \ {i}) + (IF i \in R THEN 1 ELSE 0)
        BY HoldersWithout DEF CountsMatchSlots
    <2>2. Cardinality(W \ {i}) \in Nat /\ Cardinality(R \ {i}) \in Nat
        BY HoldersFinite, FS_RemoveElement, FS_CardinalityType
    <2>3. /\ WritersLeft(i)[f] = writerCount[f] - (IF i \in W THEN 1 ELSE 0)
          /\ ReadersLeft(i)[f] = readerCount[f] - (IF i \in R THEN 1 ELSE 0)
        BY <1>8
    <2> HIDE DEF W, R
    <2>4. /\ WritersLeft(i)[f] = Cardinality(W \ {i}) /\ ReadersLeft(i)[f] = Cardinality(R \ {i})
        BY <2>1, <2>2, <2>3
    <2> QED
        BY <2>4 DEF W, R
<1> QED
    BY <1>2, <1>9

\* An answer moves slot i alone: it holds what it asked for, or nothing.
LEMMA AnswerMoves ==
    ASSUME IInv, CInv, NEW i \in Slots, NEW s, Answers(i, s)
    PROVE  /\ Turning' /\ SeeksAnew'
           /\ HeldBy(i)' = IF s = "ALLOCATED" THEN page[i] ELSE 0
           /\ \A f \in Files, w \in BOOLEAN : Holders(f, w)' \ {i} = Holders(f, w) \ {i}
<1> USE SlotFacts DEF IInv, CInv
<1>1. /\ status' = [status EXCEPT ![i] = s] /\ lastPage' = [lastPage EXCEPT ![i] = page[i]]
      /\ s \in {"ALLOCATED", "NON_EXIST", "MORE_THAN_ONE_WRITE"} /\ status[i] = "REQUESTING"
      /\ UNCHANGED <<journal, isWriter, page, cpc, cslot>>
    BY DEF Answers, client
<1>2. Turning'
    BY <1>1 DEF TypeOK, Turning
<1>3. SeeksAnew'
    <2> SUFFICES ASSUME NEW d \in Clients, cpc[d] = "picked", status'[cslot[d]] = "NON_EXIST"
                 PROVE  page[cslot[d]] = Expired
        BY <1>1 DEF SeeksAnew
    <2>1. cslot[d] \in Slots /\ status[cslot[d]] # "REQUESTING"
        BY DEF AtSlot, TypeOK
    <2> QED
        BY <1>1, <2>1 DEF SeeksAnew, TypeOK
<1>4. HeldBy(i)' = IF s = "ALLOCATED" THEN page[i] ELSE 0
    BY <1>1 DEF TypeOK, HeldBy
<1>5. \A k \in Slots \ {i} : SameHolding(k)
    BY <1>1 DEF TypeOK, SameHolding, HeldBy
<1> QED
    BY <1>2, <1>3, <1>4, <1>5, OthersKept

LEMMA AnswerCounts ==
    ASSUME IInv, CInv, NEW i \in Slots, status[i] = "REQUESTING",
           InitiateWriter(i) \/ InitiateNonExist(i) \/ InitiateReader(i),
           lastPage' = [lastPage EXCEPT ![i] = page[i]], seen' = NoSlot,
           UNCHANGED <<journal, isWriter, page, clientInfo, mutex, full, client>>
    PROVE  CInv'
<1> USE SlotFacts DEF IInv, CInv
<1> DEFINE g == <<journal[i], page[i]>>
<1>1. isWriter[i] \in BOOLEAN
    BY DEF TypeOK
<1>2. /\ WritersLeft(i) \in [Files -> Int] /\ ReadersLeft(i) \in [Files -> Int]
      /\ \A f \in Files : /\ WritersLeft(i)[f] = Cardinality(Holders(f, TRUE) \ {i})
                          /\ ReadersLeft(i)[f] = Cardinality(Holders(f, FALSE) \ {i})
    BY CountsWithout
<1>3. ASSUME NEW s, Answers(i, s)
      PROVE  \A f \in Files, w \in BOOLEAN :
                /\ i \in Holders(f, w)' <=> s = "ALLOCATED" /\ isWriter[i] = w /\ f = g /\ page[i] # 0
                /\ Cardinality(Holders(f, w)') =
                      Cardinality(Holders(f, w) \ {i}) + (IF i \in Holders(f, w)' THEN 1 ELSE 0)
    <2>1. /\ HeldBy(i)' = IF s = "ALLOCATED" THEN page[i] ELSE 0
          /\ \A f \in Files, w \in BOOLEAN : Holders(f, w)' \ {i} = Holders(f, w) \ {i}
        BY <1>1, <1>3, AnswerMoves
    <2>2. ASSUME NEW f \in Files, NEW w \in BOOLEAN
          PROVE  i \in Holders(f, w)' <=> s = "ALLOCATED" /\ isWriter[i] = w /\ f = g /\ page[i] # 0
        BY <1>1, <2>1 DEF Holders
    <2>3. ASSUME NEW f \in Files, NEW w \in BOOLEAN
          PROVE  Cardinality(Holders(f, w)') =
                    Cardinality(Holders(f, w) \ {i}) + (IF i \in Holders(f, w)' THEN 1 ELSE 0)
        <3>1. Cardinality(Holders(f, w)') =
                 Cardinality(Holders(f, w)' \ {i}) + (IF i \in Holders(f, w)' THEN 1 ELSE 0)
            <4>1. /\ Holders(f, w)' \subseteq Slots /\ IsFiniteSet(Slots)
                BY FS_Interval DEF Slots, Holders
            <4>2. IsFiniteSet(Holders(f, w)') /\ Cardinality(Holders(f, w)') \in Nat
                BY <4>1, FS_Subset, FS_CardinalityType
            <4> DEFINE H == Holders(f, w)'
            <4> HIDE DEF H
            <4>3. Cardinality(H \ {i}) = IF i \in H THEN Cardinality(H) - 1 ELSE Cardinality(H)
                BY <4>2, FS_RemoveElement DEF H
            <4>4. Cardinality(H) \in Nat
                BY <4>2 DEF H
            <4>5. Cardinality(H) = Cardinality(H \ {i}) + (IF i \in H THEN 1 ELSE 0)
                BY <4>3, <4>4
            <4> QED
                BY <4>5 DEF H
        <3> QED
            BY <2>1, <3>1
    <2> QED
        BY <2>2, <2>3
<1>4. ASSUME NEW s, Answers(i, s),
             \A f \in Files :
                /\ writerCount'[f] = WritersLeft(i)[f] + (IF s = "ALLOCATED" /\ isWriter[i] /\ f = g THEN 1 ELSE 0)
                /\ readerCount'[f] = ReadersLeft(i)[f] + (IF s = "ALLOCATED" /\ ~isWriter[i] /\ f = g THEN 1 ELSE 0),
             s = "ALLOCATED" => page[i] # 0
      PROVE  CInv'
    <2>1. Turning' /\ SeeksAnew'
        BY <1>1, <1>4, AnswerMoves
    <2>2. CountsMatchSlots'
        <3> SUFFICES ASSUME NEW f \in Files
                     PROVE  /\ writerCount'[f] = Cardinality(Holders(f, TRUE)')
                            /\ readerCount'[f] = Cardinality(Holders(f, FALSE)')
            BY DEF CountsMatchSlots
        <3>1. /\ i \in Holders(f, TRUE)' <=> s = "ALLOCATED" /\ isWriter[i] /\ f = g
              /\ i \in Holders(f, FALSE)' <=> s = "ALLOCATED" /\ ~isWriter[i] /\ f = g
            BY <1>1, <1>3, <1>4
        <3>2. /\ Cardinality(Holders(f, TRUE)') = WritersLeft(i)[f] + (IF i \in Holders(f, TRUE)' THEN 1 ELSE 0)
              /\ Cardinality(Holders(f, FALSE)') = ReadersLeft(i)[f] + (IF i \in Holders(f, FALSE)' THEN 1 ELSE 0)
            BY <1>2, <1>3, <1>4
        <3> QED
            BY <1>4, <3>1, <3>2
    <2> QED
        BY <2>1, <2>2
<1>5. ASSUME NEW s \in {"ALLOCATED", "NON_EXIST", "MORE_THAN_ONE_WRITE"}, status' = [status EXCEPT ![i] = s]
      PROVE  Answers(i, s)
    BY <1>5 DEF Answers
<1>6. CASE InitiateNonExist(i)
    <2>1. /\ status' = [status EXCEPT ![i] = "NON_EXIST"]
          /\ writerCount' = WritersLeft(i) /\ readerCount' = ReadersLeft(i)
        BY <1>6 DEF InitiateNonExist
    <2>2. Answers(i, "NON_EXIST")
        BY <1>5, <2>1
    <2>3. \A f \in Files : writerCount'[f] = WritersLeft(i)[f] + 0 /\ readerCount'[f] = ReadersLeft(i)[f] + 0
        BY <1>2, <2>1
    <2> QED
        BY <1>4, <2>2, <2>3
<1>7. CASE InitiateReader(i)
    <2>1. /\ ~isWriter[i] /\ page[i] # 0
          /\ status' = [status EXCEPT ![i] = "ALLOCATED"]
          /\ readerCount' = [ReadersLeft(i) EXCEPT ![g] = ReadersLeft(i)[g] + 1]
          /\ writerCount' = writerCount
        BY <1>7 DEF InitiateReader
    <2>2. Answers(i, "ALLOCATED") /\ writerCount' = WritersLeft(i)
        BY <1>5, <2>1 DEF WritersLeft
    <2>3. ASSUME NEW f \in Files
          PROVE  readerCount'[f] = ReadersLeft(i)[f] + (IF f = g THEN 1 ELSE 0)
        <3> HIDE DEF g
        <3>1. ReadersLeft(i)[f] \in Int
            BY <1>2
        <3> QED
            BY <1>2, <2>1, <3>1
    <2>4. ASSUME NEW f \in Files
          PROVE  writerCount'[f] = WritersLeft(i)[f] + 0
        BY <1>2, <2>2
    <2> QED
        BY <1>4, <2>1, <2>2, <2>3, <2>4
<1>8. CASE InitiateWriter(i)
    <2>1. /\ isWriter[i] /\ readerCount' = readerCount
          /\ \/ /\ WritersLeft(i)[g] = 0 /\ status' = [status EXCEPT ![i] = "ALLOCATED"]
                /\ writerCount' = [WritersLeft(i) EXCEPT ![g] = 1]
             \/ status' = [status EXCEPT ![i] = "MORE_THAN_ONE_WRITE"] /\ writerCount' = WritersLeft(i)
        BY <1>8 DEF InitiateWriter
    <2>2. /\ page[i] # 0 /\ readerCount' = ReadersLeft(i)
        BY <1>1, <2>1 DEF Asked, MayAsk, ReadersLeft
    <2>3. ASSUME NEW f \in Files
          PROVE  readerCount'[f] = ReadersLeft(i)[f] + 0
        BY <1>2, <2>2
    <2>4. CASE /\ WritersLeft(i)[g] = 0 /\ status' = [status EXCEPT ![i] = "ALLOCATED"]
               /\ writerCount' = [WritersLeft(i) EXCEPT ![g] = 1]
        <3>1. ASSUME NEW f \in Files
              PROVE  writerCount'[f] = WritersLeft(i)[f] + (IF f = g THEN 1 ELSE 0)
            <4> HIDE DEF g
            <4>1. WritersLeft(i)[f] \in Int
                BY <1>2
            <4> QED
                BY <1>2, <2>4, <4>1
        <3> QED
            BY <1>4, <1>5, <2>1, <2>2, <2>3, <2>4, <3>1
    <2>5. CASE status' = [status EXCEPT ![i] = "MORE_THAN_ONE_WRITE"] /\ writerCount' = WritersLeft(i)
        <3>1. ASSUME NEW f \in Files
              PROVE  writerCount'[f] = WritersLeft(i)[f] + 0
            BY <1>2, <2>5
        <3>2. Answers(i, "MORE_THAN_ONE_WRITE")
            BY <1>5, <2>5
        <3> QED
            BY <1>4, <2>3, <3>1, <3>2
    <2> QED
        BY <2>1, <2>4, <2>5
<1> QED
    BY <1>6, <1>7, <1>8

LEMMA CommServeCounts ==
    ASSUME IInv, CInv, CommServe PROVE CInv'
<1>1. /\ seen \in Slots /\ status[seen] = "REQUESTING"
      /\ InitiateWriter(seen) \/ InitiateNonExist(seen) \/ InitiateReader(seen)
      /\ lastPage' = [lastPage EXCEPT ![seen] = page[seen]] /\ seen' = NoSlot
      /\ UNCHANGED <<journal, isWriter, page, clientInfo, mutex, full, client>>
    BY DEF CommServe, IInv, Served, TypeOK
<1> QED
    BY <1>1, AnswerCounts

LEMMA EngineRestartCounts ==
    ASSUME IInv, CInv, EngineRestart PROVE CInv'
<1>1. Turning' /\ SeeksAnew'
    BY SlotFacts DEF EngineRestart, Everywhere, Turning, SeeksAnew
<1>2. \A f \in Files, w \in BOOLEAN : Holders(f, w)' = {}
    BY DEF EngineRestart, Everywhere, Holders, HeldBy
<1>3. CountsMatchSlots'
    BY <1>2, FS_EmptySet DEF EngineRestart, Everywhere, CountsMatchSlots
<1> QED
    BY <1>1, <1>3 DEF CInv

LEMMA NextCInv == IInv /\ CInv /\ CommFileHasRoom /\ [Next]_vars => CInv'
<1> SUFFICES ASSUME IInv, CInv, CommFileHasRoom, [Next]_vars PROVE CInv'
    OBVIOUS
<1>1. CASE UNCHANGED vars
    BY <1>1, SlotsUnchanged DEF vars, counts, client
<1>2. CASE \E i \in Slots : CommPoll(i)
    BY <1>2, SlotFacts, StillCounts
<1>3. ASSUME NEW c \in Clients, ClientStep(c) PROVE CInv'
    BY <1>3, StillCounts, SeekPickCounts, RegJournalCounts, FillSlotCounts, RequestCounts, ExitClientCounts
    DEF ClientStep
<1> QED
    BY <1>1, <1>2, <1>3, CommServeCounts, EngineRestartCounts DEF Next

\* The numbers by which the engine admits writers and unmaps pages are those of
\* the slots that hold a page: no kill, refusal, expiry, page turn or exit
\* makes it lose one or count one twice.
THEOREM CountsAreOfSlots == Spec /\ []CommFileHasRoom => []CountsMatchSlots
<1>1. CInv => CountsMatchSlots
    BY DEF CInv
<1> QED
    BY <1>1, Invariant, InitCInv, NextCInv, PTL DEF Spec
=============================================================================
