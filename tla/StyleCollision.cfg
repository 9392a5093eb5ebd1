CONSTANTS
    RecordSize = 2
    MaxRecords = 4
    Base = 4
    Width = 8
    Thousand = 5
    Fed = {1, 128}
    MaxBytes = 3
    ParameterNames <- StyleNames
    ParameterValues <- StyleValues
    NewValues <- StyleNew
    MaxParameters = 2
    Tags = {tag1, tag2}
    MaxChildren = 3
    MaxNodes = 4
    Keys = {workDirKey}
    WorkDirKey = workDirKey
    Groups = {g}
    Values = {d1, d2}
    DataDir = dd
    MaxDepth = 1
    Callers = {c1, c2}
    Names = {a, b}
    Contents = {v}
    MaxCalls = 3
    MaxFaults = 1
    Savers = {s1, s2}
    FileNames = {f}
    TempNames = {t}
    MaxSaves = 3
    MaxSlips = 1
    Executions = {e1, e2}
    Delays = {1, 2}
    PortTime = 2
    PingTime = 1
    MaxWaits = 2
    MaxClock = 3
    MemValues = {m1, m2}
    Listeners = 3
    MaxSets = 4
SPECIFICATION Spec
INVARIANTS
    OnlyAskedChange
CHECK_DEADLOCK FALSE
