---------------------------- MODULE MCFileSystem ----------------------------
(***************************************************************************)
(* Instances of FileSystem for TLC: the paths each run gives to commands.  *)
(***************************************************************************)
EXTENDS FileSystemProps

Abs(names) == [abs |-> TRUE, comps |-> names]
Rel(names) == [abs |-> FALSE, comps |-> names]

NoPaths == {}

ReadWriteOnly == {O_RDWR}

\* Small trees: names a and b under /root, directories up to three deep, and
\* the working directory going up and down and being removed.
NsNames  == {"root", "a", "b"}
NsCreate == {Rel(<<"b">>)}
NsDelete == {Rel(<<"b">>)}
NsMkdir  == {Rel(<<"a", "a">>), Rel(<<"a">>)}
NsRmdir  == {Rel(<<"a">>), Abs(<<"root", "a">>)}
NsCd     == {Rel(<<"a">>), Rel(<<"..">>)}

\* One name for everything, so that names collide, and root's home removed.
OneNames == {"root", "a"}
OnePath  == {Rel(<<"a">>)}
OneMkdir == {Rel(<<"a">>), Rel(<<"a", "a">>)}
OneRmdir == {Rel(<<"a">>), Rel(<<"a", "a">>), Abs(<<"root">>), Abs(<<"root", "a">>)}
OneCd    == {Rel(<<"a">>), Rel(<<"..">>), Abs(<<>>)}

\* Two files.
FsNames  == {"root", "f", "g"}
FsCreate == {Rel(<<"f">>), Rel(<<"g">>)}
FsDelete == {Rel(<<"f">>)}
FsOpen   == {Rel(<<"f">>), Rel(<<"g">>)}

\* A file that takes the inode and the blocks of removed directories.
ReuseNames == {"root", "d", "e", "f"}
ReuseMkdir == {Rel(<<"d", "e">>)}
ReuseRmdir == {Rel(<<"d", "e">>), Abs(<<"root", "d">>)}
ReuseCd    == {Rel(<<"d">>)}
ReuseFile  == {Abs(<<"root", "f">>)}
\* A path through the file, by an entry that a removed directory left in it.
ReuseDelete == {Abs(<<"root", "f", "..">>)}
=============================================================================
