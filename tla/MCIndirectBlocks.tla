-------------------------- MODULE MCIndirectBlocks --------------------------
(***************************************************************************)
(* Instances of IndirectBlocks for TLC.                                    *)
(***************************************************************************)
EXTENDS IndirectBlocks

BigFileNames == {"a", "b"}

\* The properties of the passing run say nothing beyond this.
BeforeLeftovers == ~leftovers
=============================================================================
