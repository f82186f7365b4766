SPECIFICATION FairSpec
CONSTANTS
    c1 = c1
    c2 = c2
    firefox = firefox
    chrome = chrome
    hostsFile = hostsFile
    Clients = {c1}
    Loop = loop
    HostsTool = tool
    Gecko <- MCGecko
    Chromium <- MCChromium
    Hosts = hostsFile
    Shared = {firefox}
    Deferred = {chrome}
    Second = 1
    HandoffLength = 2
    DetoxLengths <- Two
    OpenTimes <- All
    MaxClock = 4
    MaxSessions = 1
    MaxLeases = 1
    MaxFailures = 1
PROPERTIES EnforcementReturns
CHECK_DEADLOCK FALSE
