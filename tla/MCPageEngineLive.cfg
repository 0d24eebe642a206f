\* The page engine and a process that reads the system journal, whose page may
\* fill up, and another that is not written.
CONSTANTS
    engine = engine
    w1 = w1
    w2 = w2
    r1 = r1
    sys = sys
    jrn = jrn
    Clients = {engine, r1}
    Engine = engine
    Writers = {engine}
    Strategies = {}
    Journals = {sys, jrn}
    Opens <- MCOpens
    MaxUsers = 3
    MaxPage = 2
    SystemFills = TRUE
SPECIFICATION FairSpec
PROPERTIES
    EveryRequestAnswered
CHECK_DEADLOCK FALSE
INVARIANT CountsMatchSlots
