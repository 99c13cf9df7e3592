CONSTANTS
    NoPid = NoPid
    Nobody = Nobody
    Runners = {worker}
    Pids = {p1, p2}
    Once = {}
    Detached = {}
    Restart = {}
    Hooked = {}
    Watched = {}
    Hosts <- MCHosts
    Paths <- MCPaths
    Mode <- MCMode
    PathOf <- MCPathOf
    HostOf <- MCHostOf
SPECIFICATION FairSpec
CHECK_DEADLOCK FALSE
PROPERTY RestartsAfterError
