------------------------------ MODULE MCLayout ------------------------------
(***************************************************************************)
(* Instances of Layout for TLC.                                            *)
(***************************************************************************)
EXTENDS Layout
=============================================================================
