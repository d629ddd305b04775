\* Calls of any method on one key, a shutdown, one failure of finalization.
CONSTANTS
    k1 = k1  k2 = k2  c1 = c1  c2 = c2  c3 = c3  c4 = c4
    Key = {k1}
    NoKey = NoKey
    Calls = {c1, c2, c3}
    NoCall = NoCall
    Shutdown = Shutdown
    MaxFaults = 1
SYMMETRY Symmetric
SPECIFICATION Spec
INVARIANTS
    NoResurrection
    ReadsSeeAccepted
    ClosedAfterFlush
PROPERTIES
    FallbackIsSafe
CHECK_DEADLOCK FALSE
