----------------------------- MODULE MCSession -----------------------------
(***************************************************************************)
(* Instances of Session for TLC: who may be added and log in, and the      *)
(* paths root gives to mkdir and create.                                   *)
(***************************************************************************)
EXTENDS Session

LoginOf(u) == [name |-> u.name, pass |-> u.pass]
New == User("new", "pw", 7)

RootAndNew    == {LoginOf(Presets[1]), LoginOf(New)}
OneNew        == {New}
HomeDir       == {<<"home">>}
ImageSymmetry == Permutations(Images)

\* This choice of users and paths is one the theorems on homes are about.
ASSUME InstanceAssumption == HomesApart
=============================================================================
