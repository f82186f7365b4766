SPECIFICATION Spec
CONSTANTS
    c1 = c1
    c2 = c2
    firefox = firefox
    chrome = chrome
    hostsFile = hostsFile
    Clients = {c1, c2}
    Loop = loop
    HostsTool = tool
    Gecko <- NoFiles
    Chromium <- NoFiles
    Hosts = hostsFile
    Shared = {}
    Deferred = {}
    Second = 1
    HandoffLength = 2
    DetoxLengths <- Long
    OpenTimes <- All
    MaxClock = 3
    MaxSessions = 1
    MaxLeases = 2
    MaxFailures = 1
INVARIANT HandoffInvariant
PROPERTIES RemovalRespectsDetox
SYMMETRY Symmetry
CHECK_DEADLOCK FALSE
