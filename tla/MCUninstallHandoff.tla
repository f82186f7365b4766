------------------------- MODULE MCUninstallHandoff -------------------------
(* Instances of UninstallHandoff: one policy file of each family.           *)
EXTENDS UninstallHandoff, TLC

CONSTANTS c1, c2, firefox, chrome, hostsFile

MCGecko == <<firefox>>
MCChromium == <<chrome>>
NoFiles == <<>>
Long == {3}
Two == {1, 3}
All == 0 .. MaxClock

Symmetry == Permutations({c1, c2})
=============================================================================
