---------------------------- MODULE MCProcessScan ----------------------------
(* ProcessScan with a program of each kind and a policy for each rule and each *)
(* pair of rules that can list the same process.                               *)
EXTENDS ProcessScan

Program(kind, regular, launcher) == [kind |-> kind, regular |-> regular, launcher |-> launcher]

MCPrograms == {Program(Component, TRUE, TRUE), Program("game", TRUE, FALSE),
               Program("tool", FALSE, FALSE), Program(UnsupportedBrowser, TRUE, FALSE),
               Program(ManagedBrowser, TRUE, TRUE)}

Policy(blocked, allowed, unsupported, stale) ==
    [blocked |-> blocked, allowed |-> allowed, unsupported |-> unsupported, stale |-> stale]

MCPolicies == {Policy({"game", "tool"}, None, FALSE, FALSE),
               Policy({}, {"tool", UnsupportedBrowser}, FALSE, TRUE),
               Policy({"game"}, {ManagedBrowser}, TRUE, FALSE)}
===============================================================================
