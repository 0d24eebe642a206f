\* Pages turned, readers sought, writers killed anywhere; every frame arrives.
CONSTANTS
    plain = plain
    Readers = {plain}
    Revisers = {}
    MaxPage = 3
    PageFrames = 2
    MaxTime = 3
    CrashPoints = {"loading", "idle", "stamped", "rolling", "closing"}
SPECIFICATION FairSpec
PROPERTIES
    ImplementsFrameLog
    AppendOnly
    SeekToStartedPageSkipsNothing
    EveryFrameArrives
CHECK_DEADLOCK FALSE
