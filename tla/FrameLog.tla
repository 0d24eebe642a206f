------------------------------ MODULE FrameLog ------------------------------
(***************************************************************************)
(* What a journal promises to the processes that talk through it: one      *)
(* append-only log of frames and, for every attached reader, a cursor that *)
(* visits the frames one by one, in the order they were published, each    *)
(* exactly once.  A reader may attach anywhere in the log and may detach   *)
(* at any time.  Pages, files, time stamps and crashes are not visible     *)
(* here: Journal (pages) and Page (bytes) are shown to implement this.     *)
(***************************************************************************)
EXTENDS Integers

CONSTANT Readers        \* the processes that read the journal

VARIABLES
    published,          \* the number of frames published so far
    cursor              \* cursor[r]: the last frame r was given, or Off

logVars == <<published, cursor>>

Off == -1               \* cursor of a reader that is not attached

LogTypeOK ==
    /\ published \in Nat
    /\ cursor \in [Readers -> Nat \cup {Off}]

LogInit ==
    /\ published = 0
    /\ cursor = [r \in Readers |-> Off]

LogPublish ==
    /\ published' = published + 1
    /\ UNCHANGED cursor

LogAttach(r) ==
    /\ cursor[r] = Off
    /\ \E n \in 0 .. published : cursor' = [cursor EXCEPT ![r] = n]
    /\ UNCHANGED published

LogRead(r) ==
    /\ cursor[r] # Off
    /\ cursor[r] < published
    /\ cursor' = [cursor EXCEPT ![r] = cursor[r] + 1]
    /\ UNCHANGED published

LogDetach(S) ==
    /\ cursor' = [r \in Readers |-> IF r \in S THEN Off ELSE cursor[r]]
    /\ UNCHANGED published

LogNext ==
    \/ LogPublish
    \/ \E r \in Readers : LogAttach(r) \/ LogRead(r)
    \/ \E S \in SUBSET Readers : LogDetach(S)

LogSpec == LogInit /\ [][LogNext]_logVars
=============================================================================
