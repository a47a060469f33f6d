---------------------------- MODULE MCDiskWrites ----------------------------
(***************************************************************************)
(* Instances of DiskWrites for TLC.                                        *)
(***************************************************************************)
EXTENDS DiskWrites

KillNames == {"a", "b"}

\* Two files, one of which is written, and a directory that takes the name, the
\* inode and the blocks of the other.
TwoFiles == {<<"a">>, <<"b">>}
OneFile  == {<<"a">>}
OneDir   == {<<"b">>}
=============================================================================
