CONSTANTS
    NoPid = NoPid
    Nobody = Nobody
    Server = Server
    Web = Web
    worker = worker
    Php = php
    Docker = docker
    Runners = {php}
    Pids = {p1, p2}
    Watched = {}
    Scenarios <- PhpScenarios
    Hosts <- MCHosts
    Paths <- MCPaths
    Mode <- MCMode
    Restart <- MCRestart
    Hooked <- MCHooked
    PathOf <- MCPathOf
    HostOf <- MCHostOf
SPECIFICATION FairServerSpec
CHECK_DEADLOCK FALSE
PROPERTY ShutdownEnds
