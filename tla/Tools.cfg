CONSTANTS
    NoLabel = NoLabel
    Broken = Broken
    p1 = p1
    p2 = p2
    u1 = u1
    u2 = u2
    Procs = {p1, p2}
    Versions = {1, 2, 3}
    Users = {u1, u2}
    Bins <- MCBins
    BinName <- MCBinName
    NoFile = NoFile
    BadFile = BadFile
    Garbled = Garbled
    Installers = {u1, u2}
    MaxRelease = 2
    Steps = {"3", "8", "27"}
    Features <- MCFeatures
SPECIFICATION MCSpec
INVARIANTS TypesOK   ExecuteSound  
     SettingsSound FreshContainers  SameApp
 
CHECK_DEADLOCK FALSE
