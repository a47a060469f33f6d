---------------------------- MODULE MCCommandLoop ----------------------------
(***************************************************************************)
(* Instances of CommandLoop for TLC, with the paths of MCFileSystem.       *)
(***************************************************************************)
EXTENDS CommandLoop, MCFileSystem
=============================================================================
