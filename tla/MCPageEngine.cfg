\* The page engine and two writers that compete for a journal; the page of the
\* system journal may fill up.
CONSTANTS
    engine = engine
    w1 = w1
    w2 = w2
    r1 = r1
    sys = sys
    jrn = jrn
    Clients = {engine, w1, w2}
    Engine = engine
    Writers = {engine, w1, w2}
    Strategies = {w1}
    Journals = {sys, jrn}
    Opens <- MCOpens
    MaxUsers = 3
    MaxPage = 2
    SystemFills = TRUE
SPECIFICATION Spec
INVARIANTS
    OneWriterPerJournal
    CountsMatchSlots
CHECK_DEADLOCK FALSE
