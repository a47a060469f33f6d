-------------------------- MODULE MCFileRefinement --------------------------
(***************************************************************************)
(* Instances of FileRefinement for TLC.                                    *)
(***************************************************************************)
EXTENDS MCFileSystem, FileRefinement
=============================================================================
