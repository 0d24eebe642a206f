--------------------------- MODULE JournalProofs ---------------------------
(***************************************************************************)
(* Theorems about Journal for any number of readers, pages, frames and     *)
(* time: it is type correct, a page is ended only when the next one can be *)
(* mapped, published frames are never changed, every behaviour is one of   *)
(* the abstract FrameLog, and seeking a time skips no frame after it.      *)
(*                                                                         *)
(* The argument is one inductive invariant about the shape of the page     *)
(* files.  The written slots of a page are a prefix of it; page p holds    *)
(* the frames base[p] + 1, base[p] + 2, ...; the prefix of a page ends     *)
(* where the next page begins, and that of the last page at the last       *)
(* published frame; the writer stands behind the prefix of the last page;  *)
(* and a reader in slot s of page p was last given frame base[p] + s - 1.  *)
(***************************************************************************)
EXTENDS Journal, TLAPS

\* The page files are numbered from 1 without gaps, absent ones hold nothing.
PagesInOrder ==
    /\ \A p, q \in Pages : p < q /\ Exists(q) => Exists(p)
    /\ \A p \in Pages : ~Exists(p) => \A s \in Slots : status[p][s] = Raw

\* Written slots come first in a page and leave room for PAGE_END.
WrittenIsPrefix ==
    \A p \in Pages :
        /\ \A i, j \in Slots : i < j /\ status[p][j] = Written => status[p][i] = Written
        /\ status[p][PageFrames + 1] # Written
        /\ status[p][PageFrames] = Written => full[p]

\* Slot s of page p, once written, holds frame base[p] + s.
ContentFollowsBase ==
    /\ \A p \in Pages : Exists(p) => base[p] <= published
    /\ \A p \in Pages, s \in Slots :
        status[p][s] = Written =>
            content[p][s] = base[p] + s /\ base[p] + s <= published

\* The frame at which page p stops, or has stopped so far.
Top(p) == IF p < MaxPage /\ Exists(p + 1) THEN base[p + 1] ELSE published

PagesAreChained ==
    \A p \in Pages, s \in Slots :
        Exists(p) /\ EndOfWritten(p, s) => base[p] + s - 1 = Top(p)

WriterAtEnd ==
    /\ wpc \in {"idle", "stamped", "rolling", "closing"} =>
        Exists(wpage) /\ EndOfWritten(wpage, wslot)
    /\ wpc \in {"loading", "idle", "stamped"} =>
        Exists(wpage) /\ \A q \in Pages : Exists(q) => q <= wpage
    /\ wpc \in {"rolling", "closing"} =>
        /\ wpage < MaxPage
        /\ Exists(wpage + 1)
        /\ status[wpage + 1][1] # Written
        /\ \A q \in Pages : Exists(q) => q <= wpage + 1
    /\ wpc = "closing" => header[wpage + 1] = Inited
    /\ wpc = "stamped" => ~full[wpage] /\ content[wpage][wslot] = published + 1

ReaderInPlace ==
    \A r \in Readers :
        IF rpc[r] = "reading"
        THEN /\ header[rpage[r]] = Inited
             /\ \A i \in Slots : i < rslot[r] => status[rpage[r]][i] = Written
             /\ cursor[r] = base[rpage[r]] + rslot[r] - 1
        ELSE cursor[r] = Off

IInv ==
    /\ TypeOK
    /\ PagesInOrder
    /\ WrittenIsPrefix
    /\ ContentFollowsBase
    /\ PagesAreChained
    /\ EndedPageHasNext
    /\ WriterAtEnd
    /\ ReaderInPlace

\* What of the invariant does not concern the readers.
FilesInv ==
    /\ PagesInOrder
    /\ WrittenIsPrefix
    /\ ContentFollowsBase
    /\ PagesAreChained
    /\ EndedPageHasNext
    /\ WriterAtEnd

-----------------------------------------------------------------------------
LEMMA Constants ==
    /\ MaxPage \in Nat /\ MaxPage >= 1 /\ PageFrames \in Nat /\ PageFrames >= 1
    /\ Pages = 1 .. MaxPage /\ Slots = 1 .. (PageFrames + 1)
    /\ 1 \in Pages /\ 1 \in Slots /\ PageFrames \in Slots /\ PageFrames + 1 \in Slots
  BY JournalAssumption DEF Pages, Slots

\* Seeking, failing to attach, reading and expiring leave the files alone.
LEMMA FilesUnchanged ==
    ASSUME FilesInv, UNCHANGED <<files, writer, published, base>>
    PROVE  FilesInv'
  BY DEF FilesInv, PagesInOrder, WrittenIsPrefix, ContentFollowsBase, PagesAreChained,
         EndedPageHasNext, WriterAtEnd, Top, EndOfWritten, Exists, files, writer

\* A blank header is filled in: no page comes or goes.
LEMMA HeaderLoaded ==
    ASSUME TypeOK, FilesInv, NEW p \in Pages, Exists(p), LoadHeader(p),
           UNCHANGED <<status, content, full, writer, published, base>>
    PROVE  FilesInv'
  <1>1. \A q \in Pages : Exists(q)' <=> Exists(q)
    BY DEF TypeOK, LoadHeader, Exists, Absent, Inited
  <1>2. \A q \in Pages : header[q] = Inited => header'[q] = Inited
    BY DEF TypeOK, LoadHeader
  <1>3. PagesInOrder' /\ WrittenIsPrefix' /\ ContentFollowsBase'
    BY <1>1 DEF FilesInv, PagesInOrder, WrittenIsPrefix, ContentFollowsBase
  <1>4. PagesAreChained'
    BY <1>1, Constants DEF FilesInv, PagesAreChained, Top, EndOfWritten
  <1>5. EndedPageHasNext'
    BY <1>2, Constants DEF FilesInv, EndedPageHasNext
  <1>6. WriterAtEnd'
    <2>1. UNCHANGED <<wpc, wpage, wslot>> /\ wpage \in Pages
      BY DEF writer, TypeOK
    <2>2. wpage < MaxPage => wpage + 1 \in Pages
      BY <2>1, Constants
    <2> QED
      BY <1>1, <1>2, <2>1, <2>2 DEF FilesInv, WriterAtEnd, EndOfWritten, Exists
  <1> QED
    BY <1>3, <1>4, <1>5, <1>6 DEF FilesInv

LEMMA InitInv == Init => IInv
  <1> SUFFICES ASSUME Init PROVE IInv
    OBVIOUS
  <1> USE Constants DEF Init
  <1>1. TypeOK
    BY DEF TypeOK, FrameStatus, Raw, PageStates, Absent, Off
  <1>2. PagesInOrder /\ WrittenIsPrefix /\ ContentFollowsBase
    BY DEF PagesInOrder, WrittenIsPrefix, ContentFollowsBase, Exists, Raw, Written
  <1>3. PagesAreChained /\ EndedPageHasNext /\ WriterAtEnd
    BY DEF PagesAreChained, EndedPageHasNext, WriterAtEnd, Exists, Raw, PageEnd
  <1>4. ReaderInPlace
    BY DEF ReaderInPlace
  <1> QED
    BY <1>1, <1>2, <1>3, <1>4 DEF IInv

-----------------------------------------------------------------------------
(***************************************************************************)
(* The writer's steps.                                                     *)
(***************************************************************************)

\* Nothing the writer does to the files moves a reader.
LEMMA ReadersUndisturbed ==
    ASSUME TypeOK, ReaderInPlace, UNCHANGED <<readers, cursor>>,
           \A p \in Pages : header[p] = Inited => header'[p] = Inited /\ base'[p] = base[p],
           \A p \in Pages, s \in Slots : status[p][s] = Written => status'[p][s] = Written
    PROVE  ReaderInPlace'
  <1>1. UNCHANGED <<rpc, rpage, rslot, cursor>> /\ rpage \in [Readers -> Pages]
    BY DEF readers, TypeOK
  <1> QED
    BY <1>1 DEF ReaderInPlace

\* Page p is the last one, or is about to be.
LEMMA PageAllocated ==
    ASSUME TypeOK, FilesInv, NEW p \in Pages, AllocatePage(p),
           \A q \in Pages : IF q < p THEN Exists(q) ELSE q # p => ~Exists(q),
           UNCHANGED <<status, content, full, published>>
    PROVE  /\ \A q \in Pages : Exists(q)' <=> q <= p
           /\ \A q \in Pages : header[q] = Inited => header'[q] = Inited /\ base'[q] = base[q]
           /\ header' \in [Pages -> PageStates] /\ base' \in [Pages -> Nat]
           /\ PagesInOrder' /\ WrittenIsPrefix' /\ ContentFollowsBase'
           /\ PagesAreChained' /\ EndedPageHasNext'
  <1> DEFINE new == ~Exists(p)
  <1>1. \A q \in Pages : Exists(q)' <=> q <= p
    BY SMTT(60), Constants DEF TypeOK, AllocatePage, Exists, Absent, Blank
  <1>2. \A q \in Pages : header[q] = Inited => header'[q] = Inited /\ base'[q] = base[q]
    BY DEF TypeOK, AllocatePage, Inited, Absent
  <1>3. header' \in [Pages -> PageStates] /\ base' \in [Pages -> Nat]
    BY DEF TypeOK, AllocatePage, PageStates
  <1>4. \A q \in Pages : base'[q] = IF q = p /\ new THEN published ELSE base[q]
    BY DEF TypeOK, AllocatePage, Exists
  <1>5. new => \A s \in Slots : status[p][s] = Raw
    BY DEF FilesInv, PagesInOrder
  <1>6. PagesInOrder' /\ WrittenIsPrefix'
    BY <1>1, Constants DEF FilesInv, PagesInOrder, WrittenIsPrefix, Exists
  <1>7. ContentFollowsBase'
    <2>1. \A q \in Pages : q <= p => base'[q] <= published
      <3> SUFFICES ASSUME NEW q \in Pages, q <= p PROVE base'[q] <= published
        OBVIOUS
      <3>1. CASE q = p /\ new
        BY <3>1, <1>4 DEF TypeOK
      <3>2. CASE ~(q = p /\ new)
        <4>1. Exists(q)
          BY <3>2, Constants
        <4> QED
          BY <3>2, <4>1, <1>4 DEF FilesInv, ContentFollowsBase
      <3> QED
        BY <3>1, <3>2
    <2>2. ASSUME NEW q \in Pages, NEW s \in Slots, status[q][s] = Written
          PROVE  base'[q] = base[q]
      BY <2>2, <1>4, <1>5 DEF Raw, Written
    <2> QED
      BY <1>1, <2>1, <2>2 DEF FilesInv, ContentFollowsBase, Exists
  <1>8. PagesAreChained'
    <2> SUFFICES ASSUME NEW q \in Pages, NEW s \in Slots, q <= p, EndOfWritten(q, s)
                 PROVE  base'[q] + s - 1 = Top(q)'
      BY <1>1 DEF PagesAreChained, EndOfWritten, Exists
    <2>1. CASE q = p /\ new
      <3>1. s = 1
        BY <2>1, <1>5, Constants DEF EndOfWritten, Raw, Written
      <3>2. Top(q)' = published
        BY <2>1, <1>1, Constants DEF Top, Exists
      <3> QED
        BY <2>1, <3>1, <3>2, <1>4 DEF TypeOK
    <2>2. CASE q = p /\ ~new
      <3>1. Top(q) = published /\ Top(q)' = published
        BY <2>2, <1>1, Constants DEF Top, Exists
      <3> QED
        BY <2>2, <3>1, <1>4 DEF FilesInv, PagesAreChained
    <2>3. CASE q < p
      <3>1. q + 1 \in Pages /\ q < MaxPage /\ Exists(q) /\ Exists(q + 1)'
        BY <2>3, <1>1, Constants
      <3>2. Top(q)' = base'[q + 1]
        BY <3>1 DEF Top, Exists
      <3>3. base'[q + 1] = Top(q)
        <4>1. CASE q + 1 = p /\ new
          BY <4>1, <3>1, <1>4 DEF Top
        <4>2. CASE ~(q + 1 = p /\ new)
          <5>1. Exists(q + 1)
            BY <4>2, <3>1, <2>3, Constants
          <5> QED
            BY <5>1, <4>2, <3>1, <1>4 DEF Top
        <4> QED
          BY <4>1, <4>2
      <3>4. base'[q] = base[q]
        BY <2>3, <1>4, Constants
      <3> QED
        BY <3>1, <3>2, <3>3, <3>4 DEF FilesInv, PagesAreChained
    <2> QED
      BY <2>1, <2>2, <2>3, Constants
  <1>9. EndedPageHasNext'
    BY <1>2, Constants DEF FilesInv, EndedPageHasNext
  <1> QED
    BY <1>1, <1>2, <1>3, <1>6, <1>7, <1>8, <1>9

LEMMA WriterOpenStep == IInv /\ WriterOpen => IInv'
  <1> SUFFICES ASSUME IInv, WriterOpen PROVE IInv'
    OBVIOUS
  <1>1. TypeOK /\ FilesInv /\ ReaderInPlace
    BY DEF IInv, FilesInv
  <1>2. PICK p \in Pages : IsLastPage(p) /\ wpage' = p /\ AllocatePage(p)
    BY DEF WriterOpen
  <1>3. \A q \in Pages : IF q < p THEN Exists(q) ELSE q # p => ~Exists(q)
    BY <1>1, <1>2, Constants DEF IsLastPage, FilesInv, PagesInOrder
  <1>4. UNCHANGED <<startNano, status, nano, content, full, now, wslot, rpc, rpage, rslot,
                    since, published, cursor, readers>> /\ wpc' = "loading"
    BY DEF WriterOpen, readers
  <1>5. /\ \A q \in Pages : Exists(q)' <=> q <= p
        /\ \A q \in Pages : header[q] = Inited => header'[q] = Inited /\ base'[q] = base[q]
        /\ header' \in [Pages -> PageStates] /\ base' \in [Pages -> Nat]
        /\ PagesInOrder' /\ WrittenIsPrefix' /\ ContentFollowsBase'
        /\ PagesAreChained' /\ EndedPageHasNext'
    BY <1>1, <1>2, <1>3, <1>4, PageAllocated
  <1>6. TypeOK'
    BY <1>1, <1>2, <1>4, <1>5 DEF TypeOK
  <1>7. WriterAtEnd'
    BY <1>2, <1>4, <1>5, Constants DEF WriterAtEnd, Exists
  <1>8. ReaderInPlace'
    BY <1>1, <1>4, <1>5, ReadersUndisturbed
  <1> QED
    BY <1>5, <1>6, <1>7, <1>8 DEF IInv

LEMMA WriterLoadStep == IInv /\ WriterLoad => IInv'
  <1> SUFFICES ASSUME IInv, WriterLoad PROVE IInv'
    OBVIOUS
  <1>1. TypeOK /\ FilesInv /\ ReaderInPlace /\ wpage \in Pages
    BY DEF IInv, FilesInv, TypeOK
  <1>2. LoadHeader(wpage) /\ Exists(wpage) /\ \A q \in Pages : Exists(q) => q <= wpage
    BY <1>1 DEF WriterLoad, FilesInv, WriterAtEnd
  <1>3. PICK s \in Slots : EndOfWritten(wpage, s) /\ wslot' = s
    BY DEF WriterLoad
  <1>4. UNCHANGED <<status, nano, content, full, now, wpage, rpc, rpage, rslot, since, readers,
                    published, base, cursor>> /\ wpc' = "idle"
    BY DEF WriterLoad, readers, history
  <1>5. \A q \in Pages : /\ Exists(q)' <=> Exists(q)
                         /\ header[q] = Inited => header'[q] = Inited
    BY <1>1, <1>2 DEF TypeOK, LoadHeader, Exists, Absent, Inited
  <1>6. TypeOK'
    BY <1>1, <1>2, <1>3, <1>4 DEF TypeOK, LoadHeader, PageStates
  <1>7. PagesInOrder' /\ WrittenIsPrefix' /\ ContentFollowsBase'
    BY <1>1, <1>4, <1>5 DEF FilesInv, PagesInOrder, WrittenIsPrefix, ContentFollowsBase, Exists
  <1>8. PagesAreChained' /\ EndedPageHasNext'
    <2>1. \A q \in Pages : Top(q)' = Top(q)
      BY <1>4, <1>5, Constants DEF Top
    <2>2. PagesAreChained'
      BY <1>1, <1>4, <1>5, <2>1 DEF FilesInv, PagesAreChained, EndOfWritten
    <2>3. EndedPageHasNext'
      BY <1>1, <1>4, <1>5, Constants DEF FilesInv, EndedPageHasNext
    <2> QED
      BY <2>2, <2>3
  <1>9. WriterAtEnd'
    BY <1>1, <1>2, <1>3, <1>4, <1>5 DEF WriterAtEnd, EndOfWritten, Exists
  <1>10. ReaderInPlace'
    BY <1>1, <1>4, <1>5, ReadersUndisturbed
  <1> QED
    BY <1>6, <1>7, <1>8, <1>9, <1>10 DEF IInv

LEMMA StampStep == IInv /\ Stamp => IInv'
  <1> SUFFICES ASSUME IInv, Stamp PROVE IInv'
    OBVIOUS
  <1>1. TypeOK /\ FilesInv /\ ReaderInPlace /\ wpage \in Pages /\ wslot \in Slots
    BY DEF IInv, FilesInv, TypeOK
  <1>2. UNCHANGED <<header, startNano, status, full, now, wpage, wslot, rpc, rpage, rslot,
                    since, readers, published, base, cursor>>
    BY DEF Stamp, readers, history
  <1>3. TypeOK'
    BY <1>1, <1>2 DEF TypeOK, Stamp
  <1>4. EndOfWritten(wpage, wslot)
    BY <1>1 DEF FilesInv, WriterAtEnd, Stamp
  <1>5. \A p \in Pages, s \in Slots : status[p][s] = Written => content'[p][s] = content[p][s]
    BY <1>1, <1>4 DEF Stamp, TypeOK, EndOfWritten
  <1>6. PagesInOrder' /\ WrittenIsPrefix' /\ ContentFollowsBase'
    BY <1>1, <1>2, <1>5 DEF FilesInv, PagesInOrder, WrittenIsPrefix, ContentFollowsBase, Exists
  <1>7. PagesAreChained' /\ EndedPageHasNext'
    BY <1>1, <1>2 DEF FilesInv, PagesAreChained, EndedPageHasNext, Top, EndOfWritten, Exists
  <1>8. content'[wpage][wslot] = published + 1
    BY <1>1 DEF Stamp, TypeOK
  <1>9. WriterAtEnd'
    BY <1>1, <1>2, <1>8 DEF FilesInv, WriterAtEnd, EndOfWritten, Exists, Stamp
  <1>10. ReaderInPlace'
    BY <1>1, <1>2, ReadersUndisturbed
  <1> QED
    BY <1>3, <1>6, <1>7, <1>9, <1>10 DEF IInv

LEMMA PublishStep == IInv /\ Publish => IInv'
  <1> SUFFICES ASSUME IInv, Publish PROVE IInv'
    OBVIOUS
  <1>1. TypeOK /\ FilesInv /\ ReaderInPlace /\ wpage \in Pages /\ wslot \in Slots
    BY DEF IInv, FilesInv, TypeOK
  <1>2. /\ UNCHANGED <<header, startNano, nano, content, now, wpage, rpc, rpage, rslot, since,
                       readers, base, cursor>>
        /\ wpc' = "idle" /\ wslot' = wslot + 1 /\ published' = published + 1
    BY DEF Publish, readers
  <1>3. /\ Exists(wpage) /\ \A q \in Pages : Exists(q) => q <= wpage
        /\ EndOfWritten(wpage, wslot) /\ ~full[wpage] /\ content[wpage][wslot] = published + 1
    BY <1>1 DEF FilesInv, WriterAtEnd, Publish
  <1>4. wslot <= PageFrames /\ wslot + 1 \in Slots
    BY <1>1, <1>3, Constants DEF FilesInv, WrittenIsPrefix, EndOfWritten
  <1>5. \A i \in Slots : wslot <= i => status[wpage][i] # Written
    BY <1>1, <1>3, Constants DEF FilesInv, WrittenIsPrefix, EndOfWritten
  <1>6. /\ \A p \in Pages : p # wpage => status'[p] = status[p]
        /\ \A i \in Slots : status'[wpage][i] = IF i = wslot THEN Written
                                                ELSE IF i = wslot + 1 THEN Raw
                                                ELSE status[wpage][i]
    BY <1>1, <1>4 DEF Publish, TypeOK
  <1>7. \A p \in Pages : \A i \in Slots :
           status'[p][i] = Written <=> status[p][i] = Written \/ (p = wpage /\ i = wslot)
    BY <1>1, <1>5, <1>6, <1>4, Constants DEF Raw, Written
  <1>7a. \A i \in Slots : status'[wpage][i] = Written <=> i <= wslot
    BY <1>1, <1>3, <1>5, <1>7, Constants DEF EndOfWritten
  <1>8. base[wpage] + wslot = published + 1
    <2>1. Top(wpage) = published
      BY <1>1, <1>3, Constants DEF Top
    <2>2. base[wpage] + wslot - 1 = published
      BY <1>1, <1>3, <2>1 DEF FilesInv, PagesAreChained
    <2>3. base[wpage] \in Nat /\ wslot \in Nat /\ published \in Nat
      BY <1>1, Constants DEF TypeOK
    <2> QED
      BY <2>2, <2>3
  <1>9. PICK f \in BOOLEAN : (wslot = PageFrames => f) /\ full' = [full EXCEPT ![wpage] = f]
    BY DEF Publish
  <1>10. TypeOK'
    <2>1. status' \in [Pages -> [Slots -> FrameStatus]]
      BY <1>1, <1>4 DEF Publish, TypeOK, FrameStatus
    <2>2. full' \in [Pages -> BOOLEAN]
      BY <1>1, <1>9 DEF TypeOK
    <2>3. published' \in Nat
      BY <1>1, <1>2 DEF TypeOK
    <2>4. wslot' \in Slots
      BY <1>2, <1>4
    <2> QED
      BY <1>1, <1>2, <2>1, <2>2, <2>3, <2>4 DEF TypeOK
  <1>11. PagesInOrder'
    BY <1>1, <1>2, <1>3, <1>6 DEF FilesInv, PagesInOrder, Exists
  <1>12. WrittenIsPrefix'
    <2>1. \A p \in Pages, i, j \in Slots :
            i < j /\ status'[p][j] = Written => status'[p][i] = Written
      BY <1>1, <1>3, <1>7 DEF FilesInv, WrittenIsPrefix, EndOfWritten
    <2>2. \A p \in Pages : status'[p][PageFrames + 1] # Written
      BY <1>1, <1>4, <1>7, Constants DEF FilesInv, WrittenIsPrefix
    <2>3. \A p \in Pages : status'[p][PageFrames] = Written => full'[p]
      <3> SUFFICES ASSUME NEW p \in Pages, status'[p][PageFrames] = Written
                   PROVE  full'[p]
        OBVIOUS
      <3>1. full \in [Pages -> BOOLEAN] /\ wpage \in Pages /\ PageFrames \in Slots
        BY <1>1, Constants DEF TypeOK
      <3>2. status[p][PageFrames] = Written => full[p]
        BY <1>1 DEF FilesInv, WrittenIsPrefix
      <3>3. CASE p = wpage /\ PageFrames = wslot
        BY <3>1, <3>3, <1>9
      <3>4. CASE status[p][PageFrames] = Written /\ ~(p = wpage /\ PageFrames = wslot)
        <4>1. full[p]
          BY <3>2, <3>4
        <4>2. CASE p # wpage
          BY <3>1, <4>1, <4>2, <1>9
        <4>3. CASE p = wpage
          <5>1. wslot = PageFrames + 1 \/ wslot < PageFrames
            BY <3>1, <3>4, <4>3, <1>1, Constants DEF TypeOK
          <5> QED
            BY <5>1, <3>1, <3>4, <4>1, <4>3, <1>3, <1>4, <1>9, Constants DEF EndOfWritten
        <4> QED
          BY <4>2, <4>3
      <3> QED
        BY <3>1, <3>3, <3>4, <1>7
    <2> QED
      BY <2>1, <2>2, <2>3 DEF WrittenIsPrefix
  <1>13. ContentFollowsBase'
    <2>1. published \in Nat /\ \A p \in Pages, s \in Slots : base[p] + s \in Nat
      <3>1. published \in Nat /\ base \in [Pages -> Nat]
        BY <1>1 DEF TypeOK
      <3> QED
        BY <3>1, Constants
    <2>2. \A p \in Pages : Exists(p)' => base'[p] <= published'
      <3> SUFFICES ASSUME NEW p \in Pages, Exists(p) PROVE base[p] <= published + 1
        BY <1>2 DEF Exists
      <3>1. base[p] <= published /\ base[p] \in Nat
        BY <1>1 DEF FilesInv, ContentFollowsBase, TypeOK
      <3> QED
        BY <3>1, <2>1
    <2>3. ASSUME NEW p \in Pages, NEW s \in Slots, status'[p][s] = Written
          PROVE  content[p][s] = base[p] + s /\ base[p] + s <= published + 1
      <3>1. CASE status[p][s] = Written
        BY <3>1, <1>1, <2>1 DEF FilesInv, ContentFollowsBase
      <3>2. CASE p = wpage /\ s = wslot
        BY <3>2, <1>3, <1>8, <2>1
      <3> QED
        BY <2>3, <3>1, <3>2, <1>7
    <2> QED
      BY <1>2, <2>2, <2>3 DEF ContentFollowsBase
  <1>14. PagesAreChained'
    <2> SUFFICES ASSUME NEW p \in Pages, NEW s \in Slots, Exists(p), EndOfWritten(p, s)'
                 PROVE  base[p] + s - 1 = Top(p)'
      BY <1>2 DEF PagesAreChained, Exists
    <2>1. CASE p = wpage
      <3>1. s = wslot + 1
        <4>1. \A i \in Slots : status'[p][i] = Written <=> i <= wslot
          BY <2>1, <1>7a
        <4>2. status'[p][s] # Written /\ \A i \in Slots : i < s => status'[p][i] = Written
          BY DEF EndOfWritten
        <4> QED
          BY <4>1, <4>2, <1>1, <1>4, Constants
      <3>2. Top(p)' = published + 1
        BY <2>1, <1>2, <1>3, Constants DEF Top, Exists
      <3> QED
        BY <2>1, <3>1, <3>2, <1>1, <1>8, Constants DEF TypeOK
    <2>2. CASE p # wpage
      <3>1. p < MaxPage /\ Exists(p + 1)
        BY <2>2, <1>1, <1>3, Constants DEF FilesInv, PagesInOrder
      <3>2. Top(p)' = Top(p)
        BY <3>1, <1>2 DEF Top, Exists
      <3>3. EndOfWritten(p, s)
        BY <2>2, <1>6 DEF EndOfWritten
      <3> QED
        BY <3>2, <3>3, <1>1 DEF FilesInv, PagesAreChained
    <2> QED
      BY <2>1, <2>2
  <1>15. EndedPageHasNext'
    BY <1>1, <1>2, <1>6 DEF FilesInv, EndedPageHasNext, Raw, Written, PageEnd
  <1>16. WriterAtEnd'
    <2>1. EndOfWritten(wpage, wslot)'
      BY <1>1, <1>2, <1>4, <1>7a, Constants DEF EndOfWritten
    <2> QED
      BY <2>1, <1>2, <1>3 DEF WriterAtEnd, Exists
  <1>17. ReaderInPlace'
    BY <1>1, <1>2, <1>7, ReadersUndisturbed
  <1> QED
    BY <1>10, <1>11, <1>12, <1>13, <1>14, <1>15, <1>16, <1>17 DEF IInv

LEMMA RollAllocateStep == IInv /\ RollAllocate => IInv'
  <1> SUFFICES ASSUME IInv, RollAllocate PROVE IInv'
    OBVIOUS
  <1>1. TypeOK /\ FilesInv /\ ReaderInPlace /\ wpage \in Pages
    BY DEF IInv, FilesInv, TypeOK
  <1>2. /\ UNCHANGED <<startNano, status, nano, content, full, now, wpage, wslot, rpc, rpage,
                       rslot, since, readers, published, cursor>>
        /\ wpc' = "rolling" /\ AllocatePage(wpage + 1)
    BY DEF RollAllocate, readers
  <1>3. wpage < MaxPage /\ wpage + 1 \in Pages
    BY <1>1, Constants DEF RollAllocate
  <1>4. /\ Exists(wpage) /\ \A q \in Pages : Exists(q) => q <= wpage
        /\ EndOfWritten(wpage, wslot)
    BY <1>1 DEF FilesInv, WriterAtEnd, RollAllocate
  <1>5. \A q \in Pages : IF q < wpage + 1 THEN Exists(q) ELSE q # wpage + 1 => ~Exists(q)
    BY <1>1, <1>4, Constants DEF FilesInv, PagesInOrder
  <1>6. /\ \A q \in Pages : Exists(q)' <=> q <= wpage + 1
        /\ \A q \in Pages : header[q] = Inited => header'[q] = Inited /\ base'[q] = base[q]
        /\ header' \in [Pages -> PageStates] /\ base' \in [Pages -> Nat]
        /\ PagesInOrder' /\ WrittenIsPrefix' /\ ContentFollowsBase'
        /\ PagesAreChained' /\ EndedPageHasNext'
    BY <1>1, <1>2, <1>3, <1>5, PageAllocated
  <1>7. TypeOK'
    BY <1>1, <1>2, <1>6 DEF TypeOK
  <1>8. status[wpage + 1][1] # Written
    <2>1. ~Exists(wpage + 1)
      BY <1>1, <1>3, <1>4, Constants
    <2> QED
      BY <2>1, <1>1, <1>3, Constants DEF FilesInv, PagesInOrder, Raw, Written
  <1>9. WriterAtEnd'
    <2>1. Exists(wpage)' /\ Exists(wpage + 1)'
      BY <1>1, <1>2, <1>3, <1>6, Constants DEF Exists
    <2> QED
      BY <2>1, <1>2, <1>3, <1>4, <1>6, <1>8 DEF WriterAtEnd, EndOfWritten, Exists
  <1>10. ReaderInPlace'
    BY <1>1, <1>2, <1>6, ReadersUndisturbed
  <1> QED
    BY <1>6, <1>7, <1>9, <1>10 DEF IInv

LEMMA RollLoadStep == IInv /\ RollLoad => IInv'
  <1> SUFFICES ASSUME IInv, RollLoad PROVE IInv'
    OBVIOUS
  <1>1. TypeOK /\ FilesInv /\ ReaderInPlace /\ wpage \in Pages
    BY DEF IInv, FilesInv, TypeOK
  <1>2. /\ UNCHANGED <<status, nano, content, full, now, wpage, wslot, rpc, rpage, rslot, since,
                       readers, published, base, cursor>>
        /\ wpc' = "closing" /\ LoadHeader(wpage + 1)
    BY DEF RollLoad, readers, history
  <1>3. /\ wpage < MaxPage /\ Exists(wpage) /\ Exists(wpage + 1)
        /\ status[wpage + 1][1] # Written /\ EndOfWritten(wpage, wslot)
        /\ \A q \in Pages : Exists(q) => q <= wpage + 1
    BY <1>1 DEF FilesInv, WriterAtEnd, RollLoad
  <1>4. wpage + 1 \in Pages
    BY <1>1, <1>3, Constants
  <1>5. \A q \in Pages : /\ Exists(q)' <=> Exists(q)
                         /\ header[q] = Inited => header'[q] = Inited
    BY <1>1, <1>2, <1>3, <1>4 DEF TypeOK, LoadHeader, Exists, Absent, Inited
  <1>6. TypeOK'
    BY <1>1, <1>2, <1>4 DEF TypeOK, LoadHeader, PageStates
  <1>7. PagesInOrder' /\ WrittenIsPrefix' /\ ContentFollowsBase'
    BY <1>1, <1>2, <1>5 DEF FilesInv, PagesInOrder, WrittenIsPrefix, ContentFollowsBase, Exists
  <1>8. PagesAreChained' /\ EndedPageHasNext'
    <2>1. \A q \in Pages : Top(q)' = Top(q)
      BY <1>2, <1>5, Constants DEF Top
    <2>2. PagesAreChained'
      BY <1>1, <1>2, <1>5, <2>1 DEF FilesInv, PagesAreChained, EndOfWritten
    <2>3. EndedPageHasNext'
      BY <1>1, <1>2, <1>5, Constants DEF FilesInv, EndedPageHasNext
    <2> QED
      BY <2>2, <2>3
  <1>9. WriterAtEnd'
    <2>1. header'[wpage + 1] = Inited
      BY <1>1, <1>2, <1>4 DEF LoadHeader, TypeOK
    <2>2. Exists(wpage)' /\ Exists(wpage + 1)'
      BY <1>1, <1>2, <1>3, <1>4, <1>5 DEF Exists
    <2> QED
      BY <2>1, <2>2, <1>2, <1>3, <1>5 DEF WriterAtEnd, EndOfWritten, Exists
  <1>10. ReaderInPlace'
    BY <1>1, <1>2, <1>5, ReadersUndisturbed
  <1> QED
    BY <1>6, <1>7, <1>8, <1>9, <1>10 DEF IInv

LEMMA RollCloseStep == IInv /\ RollClose => IInv'
  <1> SUFFICES ASSUME IInv, RollClose PROVE IInv'
    OBVIOUS
  <1>1. /\ TypeOK /\ FilesInv /\ ReaderInPlace /\ wpage \in Pages /\ wslot \in Slots
        /\ status \in [Pages -> [Slots -> FrameStatus]]
    BY DEF IInv, FilesInv, TypeOK
  <1>2. /\ UNCHANGED <<header, startNano, nano, content, full, now, rpc, rpage, rslot, since,
                       readers, published, base, cursor>>
        /\ wpc' = "idle" /\ wpage' = wpage + 1 /\ wslot' = 1
    BY DEF RollClose, readers, history
  <1>3. /\ wpage < MaxPage /\ Exists(wpage + 1) /\ header[wpage + 1] = Inited
        /\ status[wpage + 1][1] # Written /\ EndOfWritten(wpage, wslot)
        /\ \A q \in Pages : Exists(q) => q <= wpage + 1
    BY <1>1 DEF FilesInv, WriterAtEnd, RollClose
  <1>4. wpage + 1 \in Pages /\ wpage + 1 # wpage
    BY <1>1, <1>3, Constants
  <1>5. \A p \in Pages, i \in Slots :
          status'[p][i] = IF p = wpage /\ i = wslot THEN PageEnd ELSE status[p][i]
    BY <1>1 DEF RollClose
  <1>6. \A p \in Pages, i \in Slots : status'[p][i] = Written <=> status[p][i] = Written
    BY <1>3, <1>5 DEF EndOfWritten, PageEnd, Written
  <1>7. TypeOK'
    <2>1. status' \in [Pages -> [Slots -> FrameStatus]]
      BY <1>1 DEF RollClose, FrameStatus
    <2> QED
      BY <1>1, <1>2, <1>4, <2>1, Constants DEF TypeOK
  <1>8. PagesInOrder'
    <2>1. \A p \in Pages : ~Exists(p) => p # wpage
      BY <1>1, <1>3, <1>4, Constants DEF FilesInv, PagesInOrder
    <2> QED
      BY <2>1, <1>1, <1>2, <1>5 DEF FilesInv, PagesInOrder, Exists
  <1>9. WrittenIsPrefix' /\ ContentFollowsBase'
    BY <1>1, <1>2, <1>6, Constants DEF FilesInv, WrittenIsPrefix, ContentFollowsBase, Exists
  <1>10. PagesAreChained'
    <2>1. \A q \in Pages : Top(q)' = Top(q)
      BY <1>2 DEF Top, Exists
    <2>2. \A q \in Pages, s \in Slots : EndOfWritten(q, s)' => EndOfWritten(q, s)
      BY <1>6 DEF EndOfWritten
    <2> QED
      BY <2>1, <2>2, <1>1, <1>2 DEF FilesInv, PagesAreChained, Exists
  <1>11. EndedPageHasNext'
    BY <1>1, <1>2, <1>3, <1>5 DEF FilesInv, EndedPageHasNext
  <1>12. WriterAtEnd'
    <2>1. EndOfWritten(wpage, wslot)'
      BY <1>2, <1>3, <1>4, <1>6, Constants DEF EndOfWritten
    <2> QED
      BY <2>1, <1>2, <1>3 DEF WriterAtEnd, Exists
  <1>13. ReaderInPlace'
    BY <1>1, <1>2, <1>6, ReadersUndisturbed
  <1> QED
    BY <1>7, <1>8, <1>9, <1>10, <1>11, <1>12, <1>13 DEF IInv

\* The writer leaves or dies, and the clock advances.
LEMMA WriterStopStep == IInv /\ (WriterExit \/ WriterKilled \/ Tick) => IInv'
  <1> SUFFICES ASSUME IInv, WriterExit \/ WriterKilled \/ Tick PROVE IInv'
    OBVIOUS
  <1>1. TypeOK'
    BY DEF IInv, TypeOK, WriterExit, WriterKilled, Tick, files, writer, readers, history
  <1>2. /\ UNCHANGED <<header, status, content, full, wpage, wslot, rpc, rpage, rslot,
                       published, base, cursor>>
        /\ wpc' \in {wpc, "down", "dead"}
    BY DEF WriterExit, WriterKilled, Tick, files, writer, readers, history
  <1> QED
    BY <1>1, <1>2 DEF IInv, PagesInOrder, WrittenIsPrefix, ContentFollowsBase, PagesAreChained,
       EndedPageHasNext, WriterAtEnd, ReaderInPlace, Top, EndOfWritten, Exists

LEMMA RestartStep == IInv /\ Restart => IInv'
  <1> SUFFICES ASSUME IInv, Restart PROVE IInv'
    OBVIOUS
  <1>1. TypeOK'
    <2>1. now' \in Nat /\ wpc' \in {"down"}
      BY DEF IInv, TypeOK, Restart
    <2>2. /\ rpc' \in [Readers -> {"off"}] /\ rpage' \in [Readers -> Pages]
          /\ rslot' \in [Readers -> Slots] /\ cursor' \in [Readers -> Nat \cup {Off}]
      BY Constants DEF IInv, TypeOK, Restart, NoPage
    <2> QED
      BY <2>1, <2>2 DEF IInv, TypeOK, Restart, files
  <1>2. /\ UNCHANGED <<header, status, content, full, wpage, wslot, published, base>>
        /\ wpc' = "down"
    BY DEF Restart, files
  <1>3. \A r \in Readers : rpc'[r] = "off" /\ cursor'[r] = Off
    BY DEF Restart, NoPage
  <1> QED
    BY <1>1, <1>2, <1>3 DEF IInv, PagesInOrder, WrittenIsPrefix, ContentFollowsBase,
       PagesAreChained, EndedPageHasNext, WriterAtEnd, ReaderInPlace, Top, EndOfWritten, Exists

-----------------------------------------------------------------------------
(***************************************************************************)
(* The readers' steps.                                                     *)
(***************************************************************************)

\* A reader that has no page, before or after the step, has none to be in.
LEMMA ReaderAwayStep ==
    ASSUME IInv, NEW r \in Readers, SeekTime(r) \/ PickPage(r) \/ AttachFails(r) \/ Expire(r)
    PROVE  IInv'
  <1>1. FilesInv /\ UNCHANGED <<files, writer, published, base>>
    BY DEF IInv, FilesInv, SeekTime, PickPage, AttachFails, Expire, NoPage, history
  <1>2. TypeOK'
    <2>1. /\ NoPage({r}) => /\ rpage' \in [Readers -> Pages] /\ rslot' \in [Readers -> Slots]
                            /\ cursor' \in [Readers -> Nat \cup {Off}]
      BY Constants DEF IInv, TypeOK, NoPage
    <2>2. CASE SeekTime(r)
      BY <1>1, <2>1, <2>2 DEF IInv, TypeOK, SeekTime, files, writer
    <2>3. CASE PickPage(r)
      BY <1>1, <2>3 DEF IInv, TypeOK, PickPage, files, writer, history
    <2>4. CASE AttachFails(r)
      BY <1>1, <2>1, <2>4 DEF IInv, TypeOK, AttachFails, files, writer
    <2>5. CASE Expire(r)
      BY <1>1, <2>1, <2>5 DEF IInv, TypeOK, Expire, files, writer
    <2> QED
      BY <2>2, <2>3, <2>4, <2>5
  <1>3. ReaderInPlace'
    <2>1. rpc'[r] # "reading" /\ cursor'[r] = Off
      BY DEF IInv, TypeOK, ReaderInPlace, SeekTime, PickPage, AttachFails, Expire, NoPage, history
    <2>2. \A x \in Readers : x # r => /\ rpc'[x] = rpc[x] /\ rpage'[x] = rpage[x]
                                      /\ rslot'[x] = rslot[x] /\ cursor'[x] = cursor[x]
      BY DEF IInv, TypeOK, SeekTime, PickPage, AttachFails, Expire, NoPage, history
    <2> QED
      BY <1>1, <2>1, <2>2 DEF IInv, ReaderInPlace, files
  <1> QED
    BY <1>1, <1>2, <1>3, FilesUnchanged DEF IInv, FilesInv

\* What a reader that attaches at slot s was last given.
LEMMA AttachCursor ==
    ASSUME IInv, NEW r \in Readers, NEW p \in Pages, Exists(p), NEW s \in Slots,
           EndOfBefore(p, s, since[r])
    PROVE  /\ \A i \in Slots : i < s => status[p][i] = Written
           /\ (IF s = 1 THEN base[p] ELSE content[p][s - 1]) = base[p] + s - 1
           /\ base[p] + s - 1 \in 0 .. published
  <1>1. \A i \in Slots : i < s => status[p][i] = Written
    BY DEF EndOfBefore
  <1>2. base[p] \in Nat /\ published \in Nat /\ base[p] <= published
    BY DEF IInv, TypeOK, ContentFollowsBase
  <1>3. CASE s = 1
    BY <1>1, <1>2, <1>3
  <1>4. CASE s # 1
    <2>1. s - 1 \in Slots /\ s - 1 < s
      BY <1>4, Constants
    <2>2. content[p][s - 1] = base[p] + (s - 1) /\ base[p] + (s - 1) <= published
      BY <1>1, <2>1 DEF IInv, ContentFollowsBase
    <2> QED
      BY <1>1, <1>2, <1>4, <2>1, <2>2, Constants
  <1> QED
    BY <1>3, <1>4

LEMMA AttachStep ==
    ASSUME IInv, NEW r \in Readers, Attach(r)
    PROVE  IInv'
  <1>1. rpage[r] \in Pages /\ Exists(rpage[r]) /\ LoadHeader(rpage[r]) /\ TypeOK /\ FilesInv
    BY DEF IInv, FilesInv, TypeOK, Attach, Loadable, Exists, Absent, Blank, Inited
  <1>2. /\ UNCHANGED <<status, nano, content, full, now, writer, rpage, since, published, base>>
        /\ rpc' = [rpc EXCEPT ![r] = "reading"]
    BY DEF Attach
  <1>3. PICK s \in Slots :
          /\ EndOfBefore(rpage[r], s, since[r])
          /\ rslot' = [rslot EXCEPT ![r] = s]
          /\ cursor' = [cursor EXCEPT ![r] =
                          IF s = 1 THEN base[rpage[r]] ELSE content[rpage[r]][s - 1]]
    BY DEF Attach
  <1>4. /\ \A i \in Slots : i < s => status[rpage[r]][i] = Written
        /\ (IF s = 1 THEN base[rpage[r]] ELSE content[rpage[r]][s - 1]) = base[rpage[r]] + s - 1
        /\ base[rpage[r]] + s - 1 \in 0 .. published
    BY <1>1, <1>3, AttachCursor
  <1>5. FilesInv'
    BY <1>1, <1>2, HeaderLoaded
  <1>6. cursor' = [cursor EXCEPT ![r] = base[rpage[r]] + s - 1]
    BY <1>3, <1>4
  <1>7. TypeOK'
    <2>1. cursor' \in [Readers -> Nat \cup {Off}]
      BY <1>1, <1>4, <1>6 DEF TypeOK
    <2>2. header' \in [Pages -> PageStates] /\ startNano' \in [Pages -> Nat]
      BY <1>1 DEF TypeOK, LoadHeader, PageStates
    <2> QED
      BY <1>1, <1>2, <1>3, <2>1, <2>2 DEF TypeOK, writer
  <1>8. ReaderInPlace'
    <2>1. \A p \in Pages : header[p] = Inited => header'[p] = Inited
      BY <1>1 DEF TypeOK, LoadHeader
    <2>2. header'[rpage[r]] = Inited
      BY <1>1 DEF TypeOK, LoadHeader
    <2>3. /\ rpc'[r] = "reading" /\ rpage' = rpage /\ rslot'[r] = s
          /\ cursor'[r] = base[rpage[r]] + s - 1
      BY <1>1, <1>2, <1>3, <1>6 DEF TypeOK
    <2>4. \A x \in Readers : x # r =>
            rpc'[x] = rpc[x] /\ rslot'[x] = rslot[x] /\ cursor'[x] = cursor[x]
      BY <1>1, <1>2, <1>3, <1>6 DEF TypeOK
    <2>5. rpage \in [Readers -> Pages]
      BY <1>1 DEF TypeOK
    <2> QED
      BY <1>2, <1>4, <2>1, <2>2, <2>3, <2>4, <2>5 DEF IInv, ReaderInPlace
  <1> QED
    BY <1>5, <1>7, <1>8 DEF IInv, FilesInv

\* Reading slot s of page p gives frame base[p] + s, the one after the last.
LEMMA ReadFrameCursor ==
    ASSUME IInv, NEW r \in Readers, ReadFrame(r)
    PROVE  /\ cursor[r] \in Nat /\ cursor[r] + 1 <= published
           /\ cursor' = [cursor EXCEPT ![r] = cursor[r] + 1]
           /\ rslot[r] + 1 \in Slots
  <1>1. /\ rpage[r] \in Pages /\ rslot[r] \in Slots /\ published \in Nat
        /\ base[rpage[r]] \in Nat
    BY DEF IInv, TypeOK
  <1>2. /\ content[rpage[r]][rslot[r]] = base[rpage[r]] + rslot[r]
        /\ base[rpage[r]] + rslot[r] <= published
    BY <1>1 DEF IInv, ReadFrame, ContentFollowsBase
  <1>3. cursor[r] = base[rpage[r]] + rslot[r] - 1
    BY DEF IInv, ReadFrame, ReaderInPlace
  <1>4. rslot[r] # PageFrames + 1
    BY <1>1 DEF IInv, ReadFrame, WrittenIsPrefix
  <1>5. cursor[r] \in Nat /\ cursor[r] + 1 = base[rpage[r]] + rslot[r] /\ rslot[r] + 1 \in Slots
    BY <1>1, <1>3, <1>4, Constants
  <1> QED
    BY <1>2, <1>5 DEF ReadFrame

LEMMA ReadFrameStep ==
    ASSUME IInv, NEW r \in Readers, ReadFrame(r)
    PROVE  IInv'
  <1>1. UNCHANGED <<files, now, writer, rpc, rpage, since, published, base>>
    BY DEF ReadFrame
  <1>2. /\ cursor[r] \in Nat /\ cursor' = [cursor EXCEPT ![r] = cursor[r] + 1]
        /\ rslot' = [rslot EXCEPT ![r] = @ + 1] /\ rslot[r] + 1 \in Slots
    BY ReadFrameCursor DEF ReadFrame
  <1>3. TypeOK'
    <2>1. rslot' \in [Readers -> Slots] /\ cursor' \in [Readers -> Nat \cup {Off}]
      BY <1>2 DEF IInv, TypeOK
    <2> QED
      BY <1>1, <2>1 DEF IInv, TypeOK, files, writer
  <1>4. ReaderInPlace'
    <2> SUFFICES ASSUME NEW x \in Readers, rpc[x] = "reading"
                 PROVE  /\ header[rpage[x]] = Inited
                        /\ \A i \in Slots : i < rslot'[x] => status[rpage[x]][i] = Written
                        /\ cursor'[x] = base[rpage[x]] + rslot'[x] - 1
      <3>1. \A x \in Readers : rpc[x] # "reading" => x # r /\ cursor'[x] = cursor[x]
        BY <1>2 DEF ReadFrame, IInv, TypeOK
      <3> QED
        BY <1>1, <3>1 DEF IInv, ReaderInPlace, files
    <2>1. /\ header[rpage[x]] = Inited
          /\ \A i \in Slots : i < rslot[x] => status[rpage[x]][i] = Written
          /\ cursor[x] = base[rpage[x]] + rslot[x] - 1
          /\ base[rpage[x]] \in Nat /\ rslot[x] \in Nat
      <3>1. rpage[x] \in Pages /\ rslot[x] \in Slots /\ base \in [Pages -> Nat]
        BY DEF IInv, TypeOK
      <3> QED
        BY <3>1, Constants DEF IInv, ReaderInPlace
    <2>2. CASE x = r
      <3>1. rslot'[x] = rslot[x] + 1 /\ cursor'[x] = cursor[x] + 1
        BY <1>2, <2>2 DEF IInv, TypeOK
      <3>2. status[rpage[x]][rslot[x]] = Written
        BY <2>2 DEF ReadFrame
      <3>3. \A i \in Slots : i < rslot[x] + 1 => i < rslot[x] \/ i = rslot[x]
        BY <2>1, Constants
      <3>4. cursor[x] + 1 = base[rpage[x]] + (rslot[x] + 1) - 1
        BY <2>1
      <3> QED
        BY <2>1, <3>1, <3>2, <3>3, <3>4
    <2>3. CASE x # r
      BY <1>2, <2>1, <2>3 DEF IInv, TypeOK
    <2> QED
      BY <2>2, <2>3
  <1>5. FilesInv
    BY DEF IInv, FilesInv
  <1> QED
    BY <1>1, <1>3, <1>4, <1>5, FilesUnchanged DEF IInv, FilesInv

\* A reader at PAGE_END finds the next page, which begins where it stands.
LEMMA TurnPagePlace ==
    ASSUME IInv, NEW r \in Readers, TurnPage(r)
    PROVE  /\ rpage[r] + 1 \in Pages /\ header[rpage[r] + 1] = Inited
           /\ rpage' = [rpage EXCEPT ![r] = rpage[r] + 1]
           /\ LoadHeader(rpage[r] + 1)
           /\ cursor[r] = base[rpage[r] + 1]
  <1> DEFINE p == rpage[r]
  <1>1. p \in Pages /\ rslot[r] \in Slots /\ status[p][rslot[r]] = PageEnd
    BY DEF IInv, TypeOK, TurnPage
  <1>2. p < MaxPage /\ header[p + 1] = Inited
    BY <1>1 DEF IInv, EndedPageHasNext
  <1>3. p + 1 \in Pages
    BY <1>1, <1>2, Constants
  <1>4. Loadable(r, p + 1)
    BY <1>2, <1>3 DEF Loadable
  <1>5. /\ header[p] = Inited /\ cursor[r] = base[p] + rslot[r] - 1
        /\ \A i \in Slots : i < rslot[r] => status[p][i] = Written
    BY DEF IInv, ReaderInPlace, TurnPage
  <1>6. Exists(p) /\ Exists(p + 1)
    BY <1>2, <1>5 DEF Exists, Absent, Inited
  <1>7. EndOfWritten(p, rslot[r])
    BY <1>1, <1>5 DEF EndOfWritten, PageEnd, Written
  <1>8. base[p] + rslot[r] - 1 = base[p + 1]
    BY <1>1, <1>2, <1>6, <1>7 DEF IInv, PagesAreChained, Top
  <1> QED
    BY <1>2, <1>3, <1>4, <1>5, <1>8 DEF TurnPage

LEMMA TurnPageStep ==
    ASSUME IInv, NEW r \in Readers, TurnPage(r)
    PROVE  IInv'
  <1>1. /\ rpage[r] + 1 \in Pages /\ header[rpage[r] + 1] = Inited
        /\ rpage' = [rpage EXCEPT ![r] = rpage[r] + 1]
        /\ LoadHeader(rpage[r] + 1)
        /\ cursor[r] = base[rpage[r] + 1]
    BY TurnPagePlace
  <1>2. /\ UNCHANGED <<status, nano, content, full, now, writer, rpc, since, published, base, cursor>>
        /\ rslot' = [rslot EXCEPT ![r] = 1] /\ rpc[r] = "reading"
    BY DEF TurnPage, history
  <1>3. TypeOK /\ FilesInv /\ Exists(rpage[r] + 1)
    BY <1>1 DEF IInv, FilesInv, Exists, Absent, Inited
  <1>4. FilesInv'
    BY <1>1, <1>2, <1>3, HeaderLoaded
  <1>5. TypeOK'
    <2>1. header' \in [Pages -> PageStates] /\ startNano' \in [Pages -> Nat]
      BY <1>1, <1>3 DEF TypeOK, LoadHeader, PageStates
    <2>2. rpage' \in [Readers -> Pages] /\ rslot' \in [Readers -> Slots]
      BY <1>1, <1>2, <1>3, Constants DEF TypeOK
    <2> QED
      BY <1>2, <1>3, <2>1, <2>2 DEF TypeOK, writer
  <1>6. ReaderInPlace'
    <2>1. \A p \in Pages : header[p] = Inited => header'[p] = Inited
      BY <1>1, <1>3 DEF TypeOK, LoadHeader
    <2>2. rpage'[r] = rpage[r] + 1 /\ rslot'[r] = 1
      BY <1>1, <1>2, <1>3 DEF TypeOK
    <2>3. \A x \in Readers : x # r => rpage'[x] = rpage[x] /\ rslot'[x] = rslot[x]
      BY <1>1, <1>2, <1>3 DEF TypeOK
    <2>4. rpage \in [Readers -> Pages] /\ base[rpage[r] + 1] \in Nat
      BY <1>1, <1>3 DEF TypeOK
    <2>5. base[rpage[r] + 1] + 1 - 1 = base[rpage[r] + 1] /\ \A i \in Slots : ~(i < 1)
      BY <2>4, Constants
    <2> QED
      BY <1>1, <1>2, <2>1, <2>2, <2>3, <2>4, <2>5 DEF IInv, ReaderInPlace
  <1> QED
    BY <1>4, <1>5, <1>6 DEF IInv, FilesInv

-----------------------------------------------------------------------------
(***************************************************************************)
(* The theorems.                                                           *)
(***************************************************************************)

LEMMA NextInv == IInv /\ [Next]_vars => IInv'
  <1> SUFFICES ASSUME IInv, [Next]_vars PROVE IInv'
    OBVIOUS
  <1>1. CASE WriterStep
    BY <1>1, WriterOpenStep, WriterLoadStep, PublishStep, RollAllocateStep, RollLoadStep,
       RollCloseStep DEF WriterStep
  <1>2. CASE Stamp
    BY <1>2, StampStep
  <1>3. CASE WriterExit \/ WriterKilled \/ Tick
    BY <1>3, WriterStopStep
  <1>4. CASE Restart
    BY <1>4, RestartStep
  <1>5. ASSUME NEW r \in Readers, ReaderStep(r) \/ SeekTime(r) \/ Expire(r)
        PROVE  IInv'
    BY <1>5, ReaderAwayStep, AttachStep, ReadFrameStep, TurnPageStep DEF ReaderStep
  <1>6. CASE UNCHANGED vars
    BY <1>6 DEF vars, files, writer, readers, history, IInv, TypeOK, PagesInOrder,
       WrittenIsPrefix, ContentFollowsBase, PagesAreChained, EndedPageHasNext, WriterAtEnd,
       ReaderInPlace, Top, EndOfWritten, Exists
  <1> QED
    BY <1>1, <1>2, <1>3, <1>4, <1>5, <1>6 DEF Next

LEMMA Invariant == Spec => []IInv
  BY InitInv, NextInv, PTL DEF Spec

\* Every variable stays in its type: in particular no process ever steps
\* past the last slot of a page or past the last page.
THEOREM TypeCorrect == Spec => []TypeOK
  <1>1. IInv => TypeOK
    BY DEF IInv
  <1> QED
    BY <1>1, Invariant, PTL

\* A page is ended only once the next one can be mapped, whatever page the
\* writer is killed in and however often everything is restarted.
THEOREM EndedPagesHaveNext == Spec => []EndedPageHasNext
  <1>1. IInv => EndedPageHasNext
    BY DEF IInv
  <1> QED
    BY <1>1, Invariant, PTL

\* A published frame is never changed or withdrawn, by anybody.
THEOREM PublishedForGood == Spec => AppendOnly
  <1> DEFINE Kept == \A p \in Pages, s \in Slots :
                status[p][s] = Written =>
                    /\ status'[p][s] = Written
                    /\ content'[p][s] = content[p][s]
                    /\ nano'[p][s] = nano[p][s]
  <1>1. IInv /\ [Next]_vars => [Kept]_vars
    <2> SUFFICES ASSUME IInv, Next PROVE Kept
      BY DEF vars
    <2>1. CASE Stamp
      <3>1. EndOfWritten(wpage, wslot)
        BY <2>1 DEF IInv, WriterAtEnd, Stamp
      <3> QED
        BY <2>1, <3>1 DEF IInv, TypeOK, Stamp, EndOfWritten
    <2>2. CASE Publish
      <3>1. wpage \in Pages /\ wslot \in Slots /\ EndOfWritten(wpage, wslot)
        BY <2>2 DEF IInv, TypeOK, WriterAtEnd, Publish
      <3>2. wslot + 1 \in Slots => status[wpage][wslot + 1] # Written
        BY <3>1, Constants DEF IInv, WrittenIsPrefix, EndOfWritten
      <3> QED
        BY <2>2, <3>1, <3>2 DEF IInv, TypeOK, Publish
    <2>3. CASE RollClose
      <3>1. EndOfWritten(wpage, wslot)
        BY <2>3 DEF IInv, WriterAtEnd, RollClose
      <3> QED
        BY <2>3, <3>1 DEF IInv, TypeOK, RollClose, EndOfWritten
    <2>4. CASE ~(Stamp \/ Publish \/ RollClose)
      <3>1. UNCHANGED <<status, content, nano>>
        BY <2>4 DEF Next, WriterStep, ReaderStep, WriterOpen, WriterLoad, RollAllocate, RollLoad,
           WriterExit, WriterKilled, SeekTime, PickPage, Attach, AttachFails, ReadFrame,
           TurnPage, Expire, Tick, Restart, files
      <3> QED
        BY <3>1
    <2> QED
      BY <2>1, <2>2, <2>3, <2>4
  <1> QED
    BY <1>1, Invariant, PTL DEF Spec, AppendOnly

\* The journal is one append-only log, read in order, nothing lost and
\* nothing twice: across pages, kills and restarts.
THEOREM Refinement == Spec => ImplementsFrameLog
  <1>1. Init => Log!LogInit
    BY DEF Init, Log!LogInit, Off, Log!Off
  <1>2. IInv /\ [Next]_vars => [Log!LogNext]_(Log!logVars)
    <2> SUFFICES ASSUME IInv, [Next]_vars PROVE [Log!LogNext]_(Log!logVars)
      OBVIOUS
    <2> USE DEF Log!logVars, Log!Off, Off
    <2>1. CASE Publish
      BY <2>1 DEF Publish, Log!LogNext, Log!LogPublish
    <2>2. ASSUME NEW r \in Readers, Attach(r)
          PROVE  Log!LogAttach(r)
      <3>1. rpage[r] \in Pages /\ Exists(rpage[r]) /\ cursor[r] = Off
        BY <2>2 DEF IInv, TypeOK, ReaderInPlace, Attach, Loadable, Exists, Absent, Blank, Inited
      <3>2. PICK s \in Slots :
              /\ EndOfBefore(rpage[r], s, since[r])
              /\ cursor' = [cursor EXCEPT ![r] =
                              IF s = 1 THEN base[rpage[r]] ELSE content[rpage[r]][s - 1]]
        BY <2>2 DEF Attach
      <3>3. /\ base[rpage[r]] + s - 1 \in 0 .. published
            /\ cursor' = [cursor EXCEPT ![r] = base[rpage[r]] + s - 1]
        BY <3>1, <3>2, AttachCursor
      <3> QED
        <4>1. \E n \in 0 .. published : cursor' = [cursor EXCEPT ![r] = n]
          BY <3>3
        <4>2. cursor[r] = -1 /\ UNCHANGED published
          BY <2>2, <3>1 DEF Attach
        <4> QED
          BY <4>1, <4>2 DEF Log!LogAttach
    <2>3. ASSUME NEW r \in Readers, ReadFrame(r)
          PROVE  Log!LogRead(r)
      <3>1. /\ cursor[r] \in Nat /\ cursor[r] + 1 <= published /\ published \in Nat
            /\ cursor' = [cursor EXCEPT ![r] = cursor[r] + 1]
        BY <2>3, ReadFrameCursor DEF IInv, TypeOK
      <3>2. cursor[r] # -1 /\ cursor[r] < published
        BY <3>1
      <3>3. UNCHANGED published
        BY <2>3 DEF ReadFrame
      <3> QED
        BY <3>1, <3>2, <3>3 DEF Log!LogRead
    <2>4. ASSUME NEW S \in SUBSET Readers, NoPage(S), UNCHANGED published
          PROVE  Log!LogDetach(S)
      BY <2>4 DEF NoPage, Log!LogDetach
    <2>5. ASSUME NEW r \in Readers, SeekTime(r) \/ AttachFails(r) \/ Expire(r)
          PROVE  Log!LogDetach({r})
      BY <2>4, <2>5 DEF SeekTime, AttachFails, Expire
    <2>6. CASE Restart
      BY <2>4, <2>6 DEF Restart, Log!LogNext
    <2>7. CASE ~(Publish \/ Restart) /\ ~(\E r \in Readers :
                  Attach(r) \/ ReadFrame(r) \/ SeekTime(r) \/ AttachFails(r) \/ Expire(r))
      BY <2>7 DEF Next, vars, WriterStep, ReaderStep, WriterOpen, WriterLoad, Stamp, RollAllocate,
         RollLoad, RollClose, WriterExit, WriterKilled, PickPage, TurnPage, Tick, history
    <2> QED
      BY <2>1, <2>2, <2>3, <2>5, <2>6, <2>7 DEF Log!LogNext
  <1> QED
    BY <1>1, <1>2, Invariant, PTL DEF Spec, ImplementsFrameLog, Log!LogSpec
-----------------------------------------------------------------------------
(***************************************************************************)
(* Seeking.  Pages follow each other in time as they do in the log.        *)
(***************************************************************************)

\* No stamp is ahead of the clock; what page p holds was published before page q
\* behind it was made, and stamped before the header of q was filled in.
PagesInTime ==
    /\ \A p \in Pages, s \in Slots : nano[p][s] <= now
    /\ \A p \in Pages : ~Exists(p) => startNano[p] = 0
    /\ \A p, q \in Pages : p < q /\ Exists(q) =>
        /\ base[p] <= base[q]
        /\ \A s \in Slots : status[p][s] = Written =>
            /\ content[p][s] <= base[q]
            /\ startNano[q] # 0 => nano[p][s] <= startNano[q]

LEMMA InitInTime == Init => PagesInTime
  BY DEF Init, PagesInTime, Exists

LEMMA FilesKeepTime ==
    ASSUME TypeOK, PagesInTime, UNCHANGED <<files, base>>, now' \in Nat, now' >= now
    PROVE  PagesInTime'
  <1>1. UNCHANGED <<header, startNano, status, nano, content>>
    BY DEF files
  <1>2. \A p \in Pages, s \in Slots : nano[p][s] \in Nat /\ now \in Nat
    BY DEF TypeOK
  <1>3. (\A p \in Pages, s \in Slots : nano[p][s] <= now)'
    BY <1>1, <1>2 DEF PagesInTime
  <1> QED
    BY <1>1, <1>3 DEF PagesInTime, Exists

LEMMA LoadKeepsTime ==
    ASSUME TypeOK, PagesInTime, NEW x \in Pages, Exists(x), LoadHeader(x),
           UNCHANGED <<status, nano, content, now, base>>
    PROVE  PagesInTime'
  <1>1. \A p \in Pages : Exists(p)' <=> Exists(p)
    BY DEF TypeOK, LoadHeader, Exists, Absent, Inited
  <1>2. \A p \in Pages : startNano'[p] = IF p = x /\ header[x] = Blank THEN now ELSE startNano[p]
    BY DEF TypeOK, LoadHeader
  <1>3. (\A p \in Pages : ~Exists(p) => startNano[p] = 0)'
    BY <1>1, <1>2 DEF PagesInTime
  <1>4. ASSUME NEW p \in Pages, NEW q \in Pages, p < q, Exists(q), NEW s \in Slots, status[p][s] = Written
        PROVE  startNano'[q] # 0 => nano[p][s] <= startNano'[q]
    BY <1>2, <1>4 DEF PagesInTime
  <1> QED
    BY <1>1, <1>3, <1>4 DEF PagesInTime

LEMMA AllocateKeepsTime ==
    ASSUME IInv, PagesInTime, NEW x \in Pages, AllocatePage(x),
           Exists(x) \/ \A p \in Pages : IF p < x THEN Exists(p) ELSE p # x => ~Exists(p),
           UNCHANGED <<startNano, status, nano, content, now>>
    PROVE  PagesInTime'
  <1>1. CASE Exists(x)
    <2>1. UNCHANGED <<header, base>>
      BY <1>1 DEF AllocatePage, Exists, IInv, TypeOK
    <2> QED
      BY <2>1 DEF PagesInTime, Exists
  <1>2. CASE ~Exists(x)
    <2>1. /\ \A p \in Pages \ {x} : (Exists(p)' <=> Exists(p)) /\ base'[p] = base[p]
          /\ Exists(x)' /\ base'[x] = published
      BY <1>2 DEF AllocatePage, Exists, IInv, TypeOK, Absent, Blank
    <2>2. startNano[x] = 0
      BY <1>2 DEF PagesInTime
    <2>3. ASSUME NEW p \in Pages, p < x
          PROVE  /\ base[p] <= published
                 /\ \A s \in Slots : status[p][s] = Written => content[p][s] <= published
      <3>1. Exists(p)
        BY <1>2, <2>3
      <3> QED
        BY <3>1 DEF IInv, ContentFollowsBase
    <2>4. ASSUME NEW p \in Pages, NEW q \in Pages, p < q, Exists(q)'
          PROVE  /\ base'[p] <= base'[q]
                 /\ \A s \in Slots : status[p][s] = Written =>
                      /\ content[p][s] <= base'[q]
                      /\ startNano[q] # 0 => nano[p][s] <= startNano[q]
      <3>1. CASE q = x
        BY <2>1, <2>2, <2>3, <2>4, <3>1, Constants
      <3>2. CASE q # x
        <4>1. Exists(q) /\ q < x
          BY <1>2, <2>1, <2>4, <3>2, Constants
        <4>2. p # x
          BY <2>4, <4>1, Constants
        <4> QED
          BY <2>1, <2>4, <3>2, <4>1, <4>2 DEF PagesInTime
      <3> QED
        BY <3>1, <3>2
    <2>5. (\A p \in Pages : ~Exists(p) => startNano[p] = 0)'
      BY <2>1 DEF PagesInTime
    <2> QED
      BY <2>4, <2>5 DEF PagesInTime
  <1> QED
    BY <1>1, <1>2

LEMMA StampKeepsTime ==
    ASSUME IInv, PagesInTime, Stamp PROVE PagesInTime'
  <1>1. status[wpage][wslot] # Written /\ wpage \in Pages /\ wslot \in Slots
    BY DEF IInv, TypeOK, WriterAtEnd, Stamp, EndOfWritten
  <1>2. /\ UNCHANGED <<header, startNano, status, base, now>>
        /\ \A p \in Pages, s \in Slots :
             /\ status[p][s] = Written => nano'[p][s] = nano[p][s] /\ content'[p][s] = content[p][s]
             /\ nano'[p][s] \in {nano[p][s], now}
    BY <1>1 DEF IInv, TypeOK, Stamp, history
  <1>3. now <= now
    BY DEF IInv, TypeOK
  <1>4. (\A p \in Pages, s \in Slots : nano[p][s] <= now)'
    BY <1>2, <1>3 DEF PagesInTime
  <1> QED
    BY <1>2, <1>4 DEF PagesInTime, Exists

\* Frames are written to the last page.
LEMMA PublishKeepsTime ==
    ASSUME IInv, PagesInTime, Publish PROVE PagesInTime'
  <1>1. wpage \in Pages /\ \A q \in Pages : Exists(q) => q <= wpage
    BY DEF IInv, TypeOK, WriterAtEnd, Publish
  <1>2. UNCHANGED <<header, startNano, nano, content, base, now>> /\ \A p \in Pages \ {wpage} : status'[p] = status[p]
    BY DEF IInv, TypeOK, Publish
  <1>3. \A p, q \in Pages : p < q /\ Exists(q) => p # wpage
    BY <1>1, Constants
  <1> QED
    BY <1>2, <1>3 DEF PagesInTime, Exists

LEMMA RollCloseKeepsTime ==
    ASSUME IInv, PagesInTime, RollClose PROVE PagesInTime'
  <1>1. /\ UNCHANGED <<header, startNano, nano, content, base, now>>
        /\ \A p \in Pages, s \in Slots : status'[p][s] = Written => status[p][s] = Written
    BY DEF IInv, TypeOK, RollClose, PageEnd, Written, history
  <1> QED
    BY <1>1 DEF PagesInTime, Exists

LEMMA NextInTime == IInv /\ PagesInTime /\ [Next]_vars => PagesInTime'
  <1> SUFFICES ASSUME IInv, PagesInTime, [Next]_vars PROVE PagesInTime'
    OBVIOUS
  <1>1. now \in Nat /\ now + 1 \in Nat /\ now <= now /\ now <= now + 1
    BY DEF IInv, TypeOK
  <1>2. TypeOK
    BY DEF IInv
  <1>3. CASE WriterOpen
    <2>1. PICK x \in Pages : IsLastPage(x) /\ AllocatePage(x)
      BY <1>3 DEF WriterOpen
    <2>2. Exists(x) \/ \A p \in Pages : IF p < x THEN Exists(p) ELSE p # x => ~Exists(p)
      BY <2>1, Constants DEF IsLastPage
    <2> QED
      BY <1>3, <2>1, <2>2, AllocateKeepsTime DEF WriterOpen
  <1>4. CASE RollAllocate
    <2>1. wpage + 1 \in Pages /\ wpage \in Pages /\ Exists(wpage) /\ \A q \in Pages : Exists(q) => q <= wpage
      BY <1>4, Constants DEF IInv, TypeOK, WriterAtEnd, RollAllocate
    <2>2. \A p \in Pages : IF p < wpage + 1 THEN Exists(p) ELSE p # wpage + 1 => ~Exists(p)
      <3> SUFFICES ASSUME NEW p \in Pages PROVE IF p < wpage + 1 THEN Exists(p) ELSE p # wpage + 1 => ~Exists(p)
        OBVIOUS
      <3>1. p < wpage + 1 => p = wpage \/ p < wpage
        BY <2>1, Constants
      <3>2. p < wpage => Exists(p)
        BY <2>1 DEF IInv, PagesInOrder
      <3>3. ~(p < wpage + 1) => ~(p <= wpage)
        BY <2>1, Constants
      <3> QED
        BY <2>1, <3>1, <3>2, <3>3
    <2> QED
      BY <1>4, <2>1, <2>2, AllocateKeepsTime DEF RollAllocate
  <1>5. CASE WriterLoad
    <2>1. wpage \in Pages /\ Exists(wpage)
      BY <1>5 DEF IInv, TypeOK, WriterAtEnd, WriterLoad
    <2> QED
      BY <1>2, <1>5, <2>1, LoadKeepsTime DEF WriterLoad, history
  <1>6. CASE RollLoad
    <2>1. wpage + 1 \in Pages /\ Exists(wpage + 1)
      BY <1>6, Constants DEF IInv, TypeOK, WriterAtEnd, RollLoad
    <2> QED
      BY <1>2, <1>6, <2>1, LoadKeepsTime DEF RollLoad, history
  <1>7. ASSUME NEW r \in Readers, Attach(r) PROVE PagesInTime'
    <2>1. rpage[r] \in Pages /\ Exists(rpage[r])
      BY <1>7 DEF IInv, TypeOK, Attach, Loadable, Exists, Absent, Blank, Inited
    <2>2. LoadHeader(rpage[r]) /\ UNCHANGED <<status, nano, content, now, base>>
      BY <1>7 DEF Attach
    <2> QED
      BY <1>2, <2>1, <2>2, LoadKeepsTime
  <1>8. ASSUME NEW r \in Readers, TurnPage(r) PROVE PagesInTime'
    <2>1. rpage[r] \in Pages /\ rpage[r] + 1 \in Pages /\ header[rpage[r] + 1] = Inited /\ Exists(rpage[r] + 1)
      <3>1. rpage[r] \in Pages /\ rslot[r] \in Slots
        BY DEF IInv, TypeOK
      <3>2. rpage[r] < MaxPage /\ header[rpage[r] + 1] = Inited
        BY <1>8, <3>1 DEF IInv, EndedPageHasNext, TurnPage
      <3> QED
        BY <3>1, <3>2, Constants DEF Exists, Inited, Absent
    <2>2. Loadable(r, rpage[r] + 1)
      BY <2>1 DEF Loadable
    <2>3. LoadHeader(rpage[r] + 1) /\ UNCHANGED <<status, nano, content, now, base>>
      BY <1>8, <2>2 DEF TurnPage, history
    <2> QED
      BY <1>2, <2>1, <2>3, LoadKeepsTime
  <1>9. CASE Stamp \/ Publish \/ RollClose
    BY <1>9, StampKeepsTime, PublishKeepsTime, RollCloseKeepsTime
  <1>10. CASE UNCHANGED <<files, base>> /\ now' \in {now, now + 1}
    BY <1>1, <1>2, <1>10, FilesKeepTime
  <1>11. CASE UNCHANGED vars \/ WriterExit \/ WriterKilled \/ Tick \/ Restart \/ \E r \in Readers :
                PickPage(r) \/ AttachFails(r) \/ ReadFrame(r) \/ SeekTime(r) \/ Expire(r)
    BY <1>10, <1>11 DEF WriterExit, WriterKilled, Tick, Restart, PickPage, AttachFails, ReadFrame, SeekTime,
       Expire, vars, history
  <1> QED
    BY <1>3, <1>4, <1>5, <1>6, <1>7, <1>8, <1>9, <1>11 DEF Next, WriterStep, ReaderStep

\* Attaching passes over what page r picked holds from before t, and over what the
\* pages in front of it hold.
LEMMA AttachPassesEarlier ==
    ASSUME IInv, PagesInTime, NEW r \in Readers, Attach(r), startNano[rpage[r]] \in 1 .. since[r] - 1,
           NEW p \in Pages, NEW s \in Slots, status[p][s] = Written, content[p][s] <= cursor'[r]
    PROVE  nano[p][s] < since[r]
  <1> DEFINE P == rpage[r]
  <1>1. P \in Pages /\ Exists(P) /\ since[r] \in Nat /\ startNano[P] \in Nat
    BY DEF IInv, TypeOK, Attach, Loadable, Exists, Absent, Blank, Inited
  <1>2. PICK e \in Slots :
          /\ EndOfBefore(P, e, since[r])
          /\ cursor' = [cursor EXCEPT ![r] = IF e = 1 THEN base[P] ELSE content[P][e - 1]]
    BY DEF Attach
  <1> HIDE DEF P
  <1>3. cursor'[r] = base[P] + e - 1 /\ cursor'[r] = (IF e = 1 THEN base[P] ELSE content[P][e - 1])
    BY <1>1, <1>2, AttachCursor DEF IInv, TypeOK
  <1>4. content[p][s] = base[p] + s /\ base[p] \in Nat /\ base[P] \in Nat /\ nano[p][s] \in Nat
    BY <1>1 DEF IInv, TypeOK, ContentFollowsBase
  <1>5. CASE p = P
    <2>1. s < e
      BY <1>3, <1>4, <1>5, Constants
    <2> QED
      BY <1>2, <1>5, <2>1 DEF EndOfBefore
  <1>6. CASE p < P
    <2>1. startNano[P] # 0 /\ startNano[P] < since[r]
      BY <1>1 DEF P
    <2>2. nano[p][s] <= startNano[P]
      BY <1>1, <1>6, <2>1 DEF PagesInTime
    <2> QED
      BY <1>1, <1>4, <2>1, <2>2
  <1>7. CASE p > P
    <2>1. Exists(p)
      BY DEF IInv, PagesInOrder, Written, Raw
    <2>2. cursor'[r] <= base[p]
      <3>1. base[P] <= base[p] /\ \A i \in Slots : status[P][i] = Written => content[P][i] <= base[p]
        BY <1>1, <1>7, <2>1, Constants DEF PagesInTime
      <3>2. e # 1 => e - 1 \in Slots /\ status[P][e - 1] = Written
        BY <1>2, Constants DEF EndOfBefore
      <3> QED
        BY <1>3, <3>1, <3>2
    <2> QED
      BY <1>3, <1>4, <2>2, Constants
  <1> QED
    BY <1>1, <1>5, <1>6, <1>7, Constants

\* A reader that seeks a time is given every frame of that time or a later one,
\* although seekTime looks at the headers of the pages and into one page only:
\* whatever is written, killed or restarted between the look and the mapping.  The
\* page it picks must have had its header and have started before that time.
THEOREM SeekingSkipsNothing == Spec => SeekToStartedPageSkipsNothing
  <1> DEFINE Skips == \A r \in Readers : PassesOverLater(r) => startNano[rpage[r]] \notin 1 .. since[r] - 1
  <1>1. IInv /\ PagesInTime /\ [Next]_vars => [Skips]_vars
    <2> SUFFICES ASSUME IInv, PagesInTime, Next, NEW r \in Readers, PassesOverLater(r),
                        startNano[rpage[r]] \in 1 .. since[r] - 1
                 PROVE  FALSE
      BY DEF vars
    <2>1. cursor[r] = Off /\ cursor'[r] # Off
      BY DEF PassesOverLater
    <2>2. PICK p \in Pages, s \in Slots :
            status[p][s] = Written /\ content[p][s] <= cursor'[r] /\ nano[p][s] >= since[r]
      BY DEF PassesOverLater
    <2>3. Attach(r)
      <3>1. ASSUME NEW x \in Readers, Attach(x), x # r PROVE FALSE
        BY <2>1, <3>1 DEF Attach, IInv, TypeOK
      <3>2. ASSUME NEW x \in Readers, ReadFrame(x) PROVE FALSE
        <4>1. x # r
          <5>1. rpc[r] = "reading" => cursor[r] = base[rpage[r]] + rslot[r] - 1
            BY DEF IInv, ReaderInPlace
          <5>2. base[rpage[r]] + rslot[r] - 1 # -1
            <6>1. base[rpage[r]] \in Nat /\ rslot[r] \in Slots
              BY DEF IInv, TypeOK
            <6> QED
              BY <6>1, Constants
          <5> QED
            BY <2>1, <3>2, <5>1, <5>2 DEF ReadFrame, Off
        <4> QED
          BY <2>1, <3>2, <4>1 DEF ReadFrame, IInv, TypeOK
      <3>3. ASSUME NEW S \in SUBSET Readers, NoPage(S) PROVE FALSE
        BY <2>1, <3>3 DEF NoPage
      <3>4. ASSUME cursor' = cursor PROVE FALSE
        BY <2>1, <3>4
      <3>5. ~Restart /\ \A x \in Readers : ~SeekTime(x) /\ ~AttachFails(x) /\ ~Expire(x)
        BY <3>3 DEF Restart, SeekTime, AttachFails, Expire
      <3> QED
        BY <3>1, <3>2, <3>4, <3>5 DEF Next, WriterStep, ReaderStep, WriterOpen, WriterLoad, Stamp, Publish,
           RollAllocate, RollLoad, RollClose, WriterExit, WriterKilled, PickPage, TurnPage, Tick, history
    <2>4. nano[p][s] < since[r]
      BY <2>2, <2>3, AttachPassesEarlier
    <2> QED
      BY <2>2, <2>4 DEF IInv, TypeOK
  <1> QED
    BY <1>1, Invariant, InitInTime, NextInTime, PTL DEF Spec, SeekToStartedPageSkipsNothing

=============================================================================
