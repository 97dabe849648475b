---------------------------- MODULE MCLibraryRun ----------------------------
(* Instances of LibraryRun for TLC.                                         *)
EXTENDS LibraryRun

CONSTANTS u1, u2
=============================================================================
