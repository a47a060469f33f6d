--------------------------- MODULE MCPermissions ---------------------------
(***************************************************************************)
(* An instance of Permissions for TLC: ann's home with a file, a public    *)
(* directory, and another user beside her.                                *)
(***************************************************************************)
EXTENDS Permissions

Ann   == [name |-> "ann", uid |-> 1, gid |-> 1]
Bob   == [name |-> "bob", uid |-> 2, gid |-> 2]

Dirs(u)  == [uid |-> u.uid, gid |-> u.gid, dir |-> TRUE, mode |-> DirMode]
Files(u) == [uid |-> u.uid, gid |-> u.gid, dir |-> FALSE, mode |-> FileMode]

AnnHome == <<"home", "ann">>
Tree == <<>> :> Dirs(Root) @@ <<"root">> :> Dirs(Root) @@ <<"home">> :> Dirs(Root)
        @@ AnnHome :> Dirs(Ann) @@ <<"home", "bob">> :> Dirs(Bob)
        @@ AnnHome \o <<"f">> :> Files(Ann) @@ <<"test">> :> Dirs(Root)

FromRoot(c) == [abs |-> TRUE, comps |-> c]
FromHere(c) == [abs |-> FALSE, comps |-> c]

AnnAndBob == {Ann, Bob}
UserOnly  == {"u"} \X {"r", "w", "x"}
OtherOnly == {"o"} \X {"r", "w", "x"}
TwoModes  == {UserOnly, OtherOnly}

\* Ann's home and her file; a file n that comes and goes where someone works, and
\* a directory n in her home.
AnnFile     == FromRoot(AnnHome \o <<"f">>)
ChangedOnes == {FromRoot(AnnHome), AnnFile}
OpenedOnes  == {AnnFile, FromHere(<<"f">>)}
NewOnes     == {FromHere(<<"n">>)}
NewDirOnes  == {FromRoot(AnnHome \o <<"n">>)}
EnteredOnes == {FromRoot(AnnHome), AnnFile}
ListedOnes  == {FromRoot(AnnHome), FromHere(<<"..">>), FromHere(<<".">>)}
=============================================================================
