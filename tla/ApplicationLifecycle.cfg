SPECIFICATION FairSpec
CONSTANTS
    Main = Main
    Stoppers = {s1}
    Submitters = {u1, u2}
    MaxConcurrency = 1
    MaxRequests = 2
INVARIANTS
    StopReleasesAll
    FailuresReported
    OrderlyStop
    WorkKeepsDatabase
    NoTaskAfterDone
    TerminalStopsAll
    ReadinessTruthful
PROPERTIES
    ImplementsShutdown
    ShutdownCompletes
CHECK_DEADLOCK FALSE
