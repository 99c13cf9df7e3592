CONSTANTS
    NoPid = NoPid
    Nobody = Nobody
    Runners = {php, docker, once, daemon}
    Pids = {p1, p2}
    Once = {once}
    Detached = {daemon}
    Restart = {php}
    Hooked = {docker}
    Watched = {php}
    Hosts <- MCHosts
    Paths <- MCPaths
    Mode <- MCMode
    PathOf <- MCPathOf
    HostOf <- MCHostOf
SPECIFICATION FairSpec
CHECK_DEADLOCK FALSE
CONSTRAINT OneAtATime
INVARIANTS Recorded CleanReturn
PROPERTIES SignalEndsRun ComesBack ChangeRestarts Supervises
