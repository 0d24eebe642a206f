\* One page of a few cells, frames of one and three cells.
CONSTANTS
    r1 = r1
    Readers = {r1}
    Size = 8
    Headroom = 3
    Lengths = {1, 3}
SPECIFICATION Spec
INVARIANTS
    OnFrameBoundary
    StaysInPage
PROPERTIES
    ImplementsFrameLog
CHECK_DEADLOCK FALSE
