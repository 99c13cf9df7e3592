CONSTANTS
    NoPid = NoPid
    Nobody = Nobody
    Server = Server
    Web = Web
    worker = worker
    Php = php
    Docker = docker
    Runners = {worker}
    Pids = {p1, p2}
    Watched = {}
    Scenarios <- StopScenarios
    Hosts <- MCHosts
    Paths <- MCPaths
    Mode <- MCMode
    Restart <- MCRestart
    Hooked <- MCHooked
    PathOf <- MCPathOf
    HostOf <- MCHostOf
SPECIFICATION ServerSpec
CHECK_DEADLOCK FALSE
INVARIANT StopMeansStopped
