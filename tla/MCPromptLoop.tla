---------------------------- MODULE MCPromptLoop ----------------------------
(***************************************************************************)
(* Instances of PromptLoop for TLC, with the paths of MCFileSystem.        *)
(***************************************************************************)
EXTENDS PromptLoop, MCFileSystem

\* Where a delete through a file took an inode that still has its name in the
\* tree, the run goes no further.
NamesKept == NamesMatchInodes(vol)
=============================================================================
