CONSTANTS
    NoPid = NoPid
    Nobody = Nobody
    Server = Server
    Web = Web
    worker = worker
    Php = php
    Docker = docker
    Runners = {php, docker, worker}
    Pids = {p1, p2, p3}
    Watched = {php}
    Scenarios <- SafetyScenarios
    Hosts <- MCHosts
    Paths <- MCPaths
    Mode <- MCMode
    Restart <- MCRestart
    Hooked <- MCHooked
    PathOf <- MCPathOf
    HostOf <- MCHostOf
SPECIFICATION ServerSpec
CHECK_DEADLOCK FALSE
INVARIANTS PhpDown  StopReaches DockerBarrier
SYMMETRY Symmetry
