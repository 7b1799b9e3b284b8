SPECIFICATION Spec
CONSTANTS
    Nobody = Nobody
    Former = Former
    Events = {e1}
    Workers = {w1}
    Publishers = {w1}
    MaxStamp = 2
    MaxFaults = 0
    MaxCrashes = 0
    MaxSessions = 1
INVARIANTS ReplacedSpecSurvives
CHECK_DEADLOCK FALSE
