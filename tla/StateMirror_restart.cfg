SPECIFICATION Spec
CONSTANTS
    Mirrors = {demo}
    Autocal = autocal
    Papers = {profile}
    Record = record
    EarlyPosts = FALSE
    MaxSaves = 3
    MaxRestarts = 1
    MaxFaults = 1
PROPERTIES SurvivesRestart
CHECK_DEADLOCK FALSE
