CONSTANTS
    dA = dA
    dB = dB
    c1 = c1
    c2 = c2
    s1 = s1
    s2 = s2
    Dirs = {dA, dB}
    NoDir = NoDir
    Commands = {c1, c2}
    Requests = {q1}
    DefaultTLD = "wip"
    TLDs = {"wip", "dev"}
    Starts = {s1, s2}
    Foreground = {s1}
    Unset = Unset
    Labels <- MCLabels
    Tails <- MCTails
    Scenes <- MCScenes
    Prefixes <- MCPrefixes
    r1 = r1
    r2 = r2
    Reqs = {r1, r2}
    NoReq = NoReq
    MaxDial = 2
    Servers = {s1, s2, s3}
    Preferred = 8000
    MaxTries = 6
    Fixed = {s3}
    Pairs <- MCPairs
    KeyLen <- MCKeyLen
    ValLen <- MCValLen
    Bodies = {0, 9, 140000}
    Chunks = {40000, 65500}
    Replies = {0, 13, 65535}
    MaxRecords = 2
    Workers = {w1, w2}
    AppLogs = {l1}
    NoFile = NoFile
    FlagSets = {{"workers"}, {"server", "workers", "app"}, {"app"}}
SPECIFICATION MCSpec
INVARIANTS TypesOK OwnAddresses OneProxy EveryoneListens OwnEnvironment ExchangeKept
    FramesSound 
PROPERTIES SaveIsExact  TunnelReleased Answered WorkersFollowed CheckReturns
CHECK_DEADLOCK FALSE
