-------------------------------- MODULE Absent --------------------------------
(* What stands for a value that is not there, shared by the modules that are   *)
(* checked together.                                                           *)
CONSTANT None
===============================================================================
