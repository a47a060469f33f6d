---------------------------- MODULE Permissions ----------------------------
(***************************************************************************)
(* Who may do what: the mode and the owner of each file and directory, the *)
(* checks of src/src/inode.c (check_permission) and src/src/user.c         *)
(* (check_user_path_access and what it calls), and the commands of         *)
(* src/src/commands.c that make them.  A file is known by its path; the    *)
(* entries and blocks behind it are Directory's and Volume's.              *)
(***************************************************************************)
EXTENDS Integers, Sequences, FiniteSets, SequencesExt

CONSTANTS
  Users,      \* the users but root: records [name, uid, gid]
  Modes,      \* the modes given to chmod
  Owners,     \* the users given to chown
  MaxOpen,    \* MAX_OPEN_FILES (16)
  FirstNodes, \* the files and directories there are at first
  ChangedPaths, NewFiles, NewDirs, OpenPaths, CdPaths, DirPaths, DeletePaths
              \* the paths given to each command

Bits == {"u", "g", "o"} \X {"r", "w", "x"}
Node == [uid : Nat, gid : Nat, dir : BOOLEAN, mode : SUBSET Bits]
Root == [name |-> "root", uid |-> 0, gid |-> 0]
Nobody == [name |-> "anonymous", uid |-> 65535, gid |-> 65535]

\* What open's flags ask for.
Flags == {{"r"}, {"w"}, {"r", "w"}}

\* The number 0 is root's, 65535 nobody's.
ASSUME UsersAssumption ==
  \A u \in Users : u.uid \in Root.uid + 1 .. Nobody.uid - 1 /\ u.name \notin {"root", "anonymous"}

ASSUME PermissionsAssumption ==
  /\ \A u \in Users \cup Owners : u.uid \in Nat /\ u.gid \in Nat
  /\ Root \notin Users /\ Modes \subseteq SUBSET Bits
  /\ \A c \in DOMAIN FirstNodes : FirstNodes[c] \in Node
  /\ <<>> \in DOMAIN FirstNodes /\ MaxOpen \in Nat

\* The names that lead to files; "." and ".." lead elsewhere.
Name == STRING \ {".", ".."}

\* What is there at first is a tree of directories with files at its ends.
ASSUME TreeAssumption ==
  /\ FirstNodes[<<>>].dir
  /\ \A c \in DOMAIN FirstNodes :
       c \in Seq(Name) /\ \A k \in 0 .. Len(c) - 1 :
                            SubSeq(c, 1, k) \in DOMAIN FirstNodes /\ FirstNodes[SubSeq(c, 1, k)].dir

ASSUME PathsAssumption ==
  \A p \in UNION {ChangedPaths, NewFiles, NewDirs, OpenPaths, CdPaths, DirPaths, DeletePaths} :
    p.abs \in BOOLEAN /\ p.comps \in Seq(STRING)

VARIABLES
  node, \* the inodes, by the names that lead to them from the root
  user, \* fs.current_user
  cwd,  \* the working directory
  open, \* open files, as pairs of the file and what it was opened for
  done  \* the last command that looked into a file or directory, or changed one

vars == <<node, user, cwd, open, done>>

Home(u)    == IF u = Root THEN <<"root">> ELSE <<"home", u.name>>
There(c)   == c \in DOMAIN node

\* Faulty variant: anything will do.
IsDir_Any(c) == There(c)

IsDir(c)   == There(c) /\ node[c].dir

\* The end of a path [abs, comps].
Stepped(at, n) == IF n = "." THEN at ELSE IF n = ".." THEN SubSeq(at, 1, Len(at) - 1) ELSE Append(at, n)
Target(p) == FoldLeft(Stepped, IF p.abs THEN <<>> ELSE cwd, p.comps)

----------------------------------------------------------------------------
(* The checks.  The callers ask for bits of the owner, <<"u", l>>, whoever *)
(* the user is.                                                            *)

ClassOf(u, c) ==
  IF u.uid = node[c].uid THEN "u" ELSE IF u.gid = node[c].gid THEN "g" ELSE "o"
Letters(bits, k) == {b[2] : b \in {x \in bits : x[1] = k}}
OwnerBits(ls)    == {"u"} \X ls

\* The bits for others are asked for as the owner's, the group's as they are.
Required(k, access) == Letters(access, IF k = "g" THEN "g" ELSE "u")

\* Faulty variant: everyone is the owner.
check_permission_AsOwner(c, access) ==
  There(c) /\ (user.uid = 0 \/ Letters(access, "u") \subseteq Letters(node[c].mode, "u"))

check_permission(c, access) ==
  /\ There(c)
  /\ \/ user.uid = 0
     \/ Required(ClassOf(user, c), access) \subseteq Letters(node[c].mode, ClassOf(user, c))

check_file_permission(c, access) ==
  /\ There(c)
  /\ \/ user.uid = 0
     \/ Letters(access, ClassOf(user, c)) \subseteq Letters(node[c].mode, ClassOf(user, c))

MayPass(c) == check_file_permission(c, {<<ClassOf(user, c), "x">>})

\* Faulty variant: the directory before the end is not asked.
check_path_permission_SkipsLast(cs, access) ==
  /\ \A k \in 0 .. Len(cs) - 2 : MayPass(SubSeq(cs, 1, k))
  /\ check_file_permission(cs, access)

\* Names after the first that is missing are not looked at; there, what counts is
\* the directory that would hold it, and nothing may be only looked for.
check_path_permission(cs, access) ==
  LET found == {k \in 0 .. Len(cs) : \A j \in 0 .. k : There(SubSeq(cs, 1, j))}
      last  == CHOOSE k \in found : \A j \in found : j <= k
  IN  \/ user.uid = 0
      \/ /\ \A k \in found \ {Len(cs)} : MayPass(SubSeq(cs, 1, k))
         /\ IF last = Len(cs) THEN check_file_permission(cs, access)
            ELSE <<"u", "w">> \in access /\ check_file_permission(SubSeq(cs, 1, last), OwnerBits({"w"}))

Writes(access) == <<"u", "w">> \in access

\* Which absolute paths a user may ask for with this access.
InReach(cs, access) ==
  \/ cs = <<"home">>
  \/ cs = <<"root">> /\ access \cap OwnerBits({"w", "x"}) = {}
  \/ cs # <<"root">> /\ Len(cs) < 2 /\ ~Writes(access)
  \/ Len(cs) > 1 /\ cs[1] = "home" /\ (cs[2] = user.name \/ ~Writes(access))

check_user_path_access(p, access) ==
  \/ user.uid = 0
  \/ /\ p.abs
     /\ InReach(p.comps, access)
     /\ check_path_permission(p.comps, access)
  \/ /\ ~p.abs /\ p.comps = <<"..">>
     /\ check_path_permission(<<"home">>, access)
  \/ /\ ~p.abs /\ Len(p.comps) = 1 /\ p.comps # <<"..">>
     /\ check_file_permission(cwd, OwnerBits(IF Writes(access) THEN {"w"} ELSE {"r"}))

----------------------------------------------------------------------------
(* The commands *)

Did(what, c) == [op |-> what, at |-> c]
Idle == Did("none", <<>>)
LoggedIn == user # Nobody

Init ==
  /\ node = FirstNodes
  /\ user = Nobody
  /\ cwd = <<>>
  /\ open = {}
  /\ done = Idle

\* login, of a user whose home is there.
Login(u) ==
  /\ There(Home(u))
  /\ user' = u
  /\ cwd' = Home(u)
  /\ done' = Idle
  /\ UNCHANGED <<node, open>>

\* logout leaves files open and the working directory where it is.
Logout ==
  /\ LoggedIn
  /\ user' = Nobody
  /\ done' = Idle
  /\ UNCHANGED <<node, cwd, open>>

Chmod(p, m) ==
  /\ user.uid = 0 /\ There(Target(p))
  /\ node' = [node EXCEPT ![Target(p)].mode = m]
  /\ done' = Idle
  /\ UNCHANGED <<user, cwd, open>>

Chown(p, u) ==
  /\ user.uid = 0 /\ There(Target(p))
  /\ node' = [node EXCEPT ![Target(p)].uid = u.uid, ![Target(p)].gid = u.gid]
  /\ done' = Idle
  /\ UNCHANGED <<user, cwd, open>>

Rwx(ls, k)  == {k} \X ls
DirMode     == Rwx({"r", "w", "x"}, "u") \cup Rwx({"r", "x"}, "g") \cup Rwx({"r", "x"}, "o")
FileMode    == Rwx({"r", "w"}, "u") \cup Rwx({"r"}, "g") \cup Rwx({"r"}, "o")
MakeNode(c, isDir) ==
  /\ IsDir(Front(c)) /\ check_permission(Front(c), OwnerBits({"w"}))
  /\ node' = [x \in DOMAIN node \cup {c} |->
                IF x = c THEN [uid |-> user.uid, gid |-> user.gid, dir |-> isDir,
                               mode |-> IF isDir THEN DirMode ELSE FileMode]
                ELSE node[x]]
  /\ done' = Did("make", Front(c))
  /\ UNCHANGED <<user, cwd, open>>

\* The path create asks for: the working directory's from the root for a single name.
ParentPath(p) ==
  IF ~p.abs /\ Len(p.comps) = 1 THEN [abs |-> TRUE, comps |-> cwd]
  ELSE [p EXCEPT !.comps = Front(@)]

\* create, of a name that is not taken.
Create(p) ==
  /\ LoggedIn /\ ~There(Target(p))
  /\ check_user_path_access(ParentPath(p), OwnerBits({"w"}))
  /\ MakeNode(Target(p), FALSE)

\* mkdir, where the parent is there and the name is not, asks for the path itself.
Mkdir(p) ==
  /\ LoggedIn /\ ~There(Target(p))
  /\ check_user_path_access(p, OwnerBits({"w"}))
  /\ MakeNode(Target(p), TRUE)

\* delete of a file that is not open.
Delete(p) ==
  LET c == Target(p)
  IN  /\ LoggedIn /\ check_user_path_access(p, OwnerBits({"w"}))
      /\ There(c) /\ ~IsDir(c) /\ c \notin {f[1] : f \in open}
      /\ check_permission(c, OwnerBits({"w"}))
      /\ node' = [x \in DOMAIN node \ {c} |-> node[x]]
      /\ done' = Idle
      /\ UNCHANGED <<user, cwd, open>>

MayOpen(p, fl) == /\ check_user_path_access(p, OwnerBits(fl))
                  /\ There(Target(p)) /\ ~IsDir(Target(p))
                  /\ check_permission(Target(p), OwnerBits(fl))

Open(p, fl) ==
  /\ LoggedIn /\ MayOpen(p, fl) /\ Cardinality(open) < MaxOpen
  /\ open' = open \cup {<<Target(p), fl>>}
  /\ done' = Idle
  /\ UNCHANGED <<node, user, cwd>>

Close(f) ==
  /\ LoggedIn
  /\ open' = open \ {f}
  /\ done' = Idle
  /\ UNCHANGED <<node, user, cwd>>

\* The user of the moment is asked for the right again; only a file opened for
\* writing alone is not read, and no file is too little open to be written.
Read(f) ==
  /\ LoggedIn /\ check_permission(f[1], OwnerBits({"r"})) /\ f[2] # {"w"}
  /\ done' = Did("read", f[1])
  /\ UNCHANGED <<node, user, cwd, open>>

Write(f) ==
  /\ LoggedIn /\ check_permission(f[1], OwnerBits({"w"}))
  /\ done' = Did("write", f[1])
  /\ UNCHANGED <<node, user, cwd, open>>

Dir(p) ==
  /\ LoggedIn /\ check_user_path_access(p, OwnerBits({"r"}))
  /\ IsDir(Target(p)) /\ check_permission(Target(p), OwnerBits({"r"}))
  /\ done' = Did("list", Target(p))
  /\ UNCHANGED <<node, user, cwd, open>>

Cd(p) ==
  /\ LoggedIn /\ check_user_path_access(p, OwnerBits({"x"}))
  /\ IsDir(Target(p)) /\ check_permission(Target(p), OwnerBits({"x"}))
  /\ cwd' = Target(p)
  /\ done' = Did("enter", Target(p))
  /\ UNCHANGED <<node, user, open>>

Next ==
  \/ \E u \in Users \cup {Root} : Login(u)
  \/ Logout
  \/ \E p \in ChangedPaths : (\E m \in Modes : Chmod(p, m)) \/ (\E u \in Owners : Chown(p, u))
  \/ \E p \in NewFiles : Create(p)
  \/ \E p \in NewDirs : Mkdir(p)
  \/ \E p \in DeletePaths : Delete(p)
  \/ \E p \in OpenPaths : \E fl \in Flags : Open(p, fl)
  \/ \E f \in open : Close(f) \/ Read(f) \/ Write(f)
  \/ \E p \in DirPaths : Dir(p)
  \/ \E p \in CdPaths : Cd(p)

Spec == Init /\ [][Next]_vars

----------------------------------------------------------------------------
(* Properties *)

\* Every variable has its type; the working directory is a directory and open files
\* are there.
TypeOK ==
  /\ DOMAIN node \in SUBSET Seq(STRING) /\ \A c \in DOMAIN node : node[c] \in Node
  /\ user \in Users \cup {Root, Nobody}
  /\ node[cwd].dir
  /\ open \subseteq (DOMAIN node) \X Flags
  /\ done.op \in {"none", "make", "read", "write", "list", "enter"} /\ done.at \in DOMAIN node

\* What the bits of the user's class say of letter l (README.md, "权限位").
ByTheBits(c, l) == user.uid = 0 \/ <<ClassOf(user, c), l>> \in node[c].mode

LetterOf == [make |-> "w", read |-> "r", write |-> "w", list |-> "r", enter |-> "x"]
Looked == done.op # "none"

\* Whatever mode, owner and user were when a file was opened: who reads or writes
\* it, lists, enters or adds to a directory has the bit of the owner or of others
\* for it at that moment (check_permission, inode.c:365).
LooksByTheBits ==
  Looked /\ ClassOf(user, done.at) # "g" => ByTheBits(done.at, LetterOf[done.op])

DirsTo(cs) == {SubSeq(cs, 1, k) : k \in 0 .. Len(cs) - 1}

\* In a user's home, away from the group, the checks on the path and on the file
\* together refuse what the bits refuse and nothing else: each directory on the path
\* must be passed, the file must allow what it is opened for (user.c:254-311).
HomeOpensByTheBits ==
  \A p \in OpenPaths : \A fl \in Flags :
    LET cs == p.comps
    IN  /\ user \in Users /\ p.abs /\ IsPrefix(Home(user), cs)
        /\ There(cs) /\ ~IsDir(cs)
        /\ \A c \in DirsTo(cs) \cup {cs} : ClassOf(user, c) # "g"
        => (MayOpen(p, fl) <=> /\ \A c \in DirsTo(cs) : ByTheBits(c, "x")
                               /\ \A l \in fl : ByTheBits(cs, l))
=============================================================================
