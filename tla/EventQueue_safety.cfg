SPECIFICATION Spec
CONSTANTS
    Nobody = Nobody
    Former = Former
    Events = {e1, e2}
    Workers = {w1, w2}
    Publishers = {w1, w2}
    MaxStamp = 2
    MaxFaults = 1
    MaxCrashes = 1
    MaxSessions = 1
SYMMETRY WorkerSymmetry
INVARIANTS Accounted
PROPERTIES YoungJobNeverSwept ImplementsLedger
CHECK_DEADLOCK FALSE
