----------------------------- MODULE FileSystem -----------------------------
(***************************************************************************)
(* One process of the simulator, with root's session, over a mounted image *)
(* (src/src/commands.c, with login from src/src/user.c and mounting from   *)
(* src/src/ext2.c).  The program runs one command at a time from the loop  *)
(* of command_loop; the two commands that loop over disk operations, mkdir *)
(* and write, take one step per iteration, because a signal may end the    *)
(* process between two of them (main.c:10-14).                             *)
(***************************************************************************)
EXTENDS Directory

CONSTANTS
  MaxOpen,      \* MAX_OPEN_FILES (16), slots of the open file table
  HomeName,     \* "root", the name of root's home directory
  CreatePaths, DeletePaths, MkdirPaths, RmdirPaths, OpenPaths, CdPaths,
                \* the paths given to each command
  OpenFlags,    \* the flags given to open
  MaxTransfer   \* words a read or write command asks for at most: a command line is
                \* shorter than a block (commands.c:944)

\* The three ways of opening a file.  O_RDONLY is 0: it has no bit to test.
O_RDONLY == {}
O_WRONLY == {"WRONLY"}
O_RDWR   == {"RDWR"}
Flags    == {O_RDONLY, O_WRONLY, O_RDWR}

\* The paths of all commands but cd, whose last name the commands look at.
NamingPaths == CreatePaths \cup DeletePaths \cup MkdirPaths \cup RmdirPaths \cup OpenPaths
PathType == [abs : BOOLEAN, comps : Seq(Names \cup {Dot, DotDot})]

ASSUME SessionAssumption ==
  /\ MaxOpen \in Nat /\ MaxTransfer \in Nat /\ MaxTransfer <= Slots
  /\ HomeName \in Names /\ OpenFlags \subseteq Flags
  /\ \A p \in NamingPaths \cup CdPaths : p \in PathType
  /\ \A p \in NamingPaths : p.comps # <<>>

VARIABLES
  vol,    \* the mounted volume
  files,  \* fs.open_files
  cwd,    \* the inode number of the working directory
  user,   \* fs.current_user: "root", or "none" when nobody is logged in
  cmd     \* the command being executed

vars == <<vol, files, cwd, user, cmd>>

NoFile   == [open |-> FALSE]
File(i, flags, off) == [open |-> TRUE, ino |-> i, flags |-> flags, off |-> off]

AtPrompt == [op |-> "prompt"]
Mkdir(p, k) == [op |-> "mkdir", path |-> p, level |-> k]
Writing(f, d, off, n) == [op |-> "write", slot |-> f, data |-> d, off |-> off, left |-> n]

FileType == {NoFile} \cup {File(i, fl, off) : i \in Inodes, fl \in Flags, off \in 0 .. MaxFileWords}
CmdType ==
  {AtPrompt} \cup [op : {"mkdir"}, path : MkdirPaths, level : Nat \ {0}]
             \cup [op : {"write"}, slot : 1 .. MaxOpen, data : Data,
                   off : 0 .. MaxFileWords, left : 0 .. MaxFileWords]

Init ==
  /\ vol = FormattedVolume
  /\ files = [f \in 1 .. MaxOpen |-> NoFile]
  /\ cwd = RootIno
  /\ user = "none"
  /\ cmd = AtPrompt

----------------------------------------------------------------------------
(* The prompt and the session *)

\* command_loop works out the path of the working directory before it reads
\* a command, and reads none if that never ends.
Prompt  == cmd = AtPrompt /\ ClimbEnds(vol, cwd)
Session == Prompt /\ user = "root"

\* login of root, which goes to /root and creates it when it is missing.
Login ==
  LET home == find_directory_entry(vol, RootIno, HomeName)
  IN  /\ Prompt
      /\ user' = "root"
      /\ \/ /\ home # 0
            /\ cwd' = home
            /\ vol' = vol
         \/ /\ home = 0
            /\ \E made \in {MakeDirectory(vol, RootIno, HomeName)} :
                 /\ vol' = made.vol
                 /\ cwd' = IF made.ret = -1 THEN RootIno
                           ELSE find_directory_entry(made.vol, RootIno, HomeName)
      /\ UNCHANGED <<files, cmd>>

\* logout leaves the descriptors open and the working directory where it is.
Logout ==
  /\ Session
  /\ user' = "none"
  /\ UNCHANGED <<vol, files, cwd, cmd>>

\* mount of the image that is mounted: ext2_init clears the session and reads
\* the superblock again.
Mount ==
  /\ Prompt
  /\ vol' = MountCounters(vol)
  /\ files' = [f \in 1 .. MaxOpen |-> NoFile]
  /\ user' = "none"
  /\ UNCHANGED <<cwd, cmd>>

\* A signal or quit ends the process, in a command or not; the next process
\* mounts the image.
Restart ==
  /\ vol' = MountCounters(vol)
  /\ files' = [f \in 1 .. MaxOpen |-> NoFile]
  /\ user' = "none"
  /\ cwd' = RootIno
  /\ cmd' = AtPrompt

----------------------------------------------------------------------------
(* Files and directories by name *)

\* Nothing asks whether the name is taken.
Create ==
  /\ Session
  /\ \E p \in CreatePaths :
       LET d == get_parent_inode(vol, cwd, p)
       IN  /\ is_directory(vol, d)
           /\ vol' = NewFile(vol, d, Last(p.comps))
           /\ UNCHANGED <<files, cwd, user, cmd>>

\* Neither does anything ask whether the file is open.
Delete ==
  /\ Session
  /\ \E p \in DeletePaths :
       LET i == path_to_inode(vol, cwd, p)
           r == remove_directory_entry(vol, get_parent_inode(vol, cwd, p), Last(p.comps))
       IN  /\ i \in Inodes
           /\ ~is_directory(vol, i)
           /\ r.ret = 0
           /\ vol' = delete_inode(r.vol, i)
           /\ UNCHANGED <<files, cwd, user, cmd>>

\* create_directory calls itself on the path without its last name as long as
\* the parent is missing, then creates one directory per level on its way up;
\* the parent of the first name is where the path starts.
StartMkdir ==
  /\ Session
  /\ \E p \in MkdirPaths :
       /\ cmd' = Mkdir(p, Max({1} \cup {k \in 2 .. Len(p.comps) :
                                 get_parent_inode(vol, cwd, PrefixOf(p, k)) # 0}))
       /\ UNCHANGED <<vol, files, cwd, user>>

MkdirStep ==
  LET p == PrefixOf(cmd.path, cmd.level)
  IN  /\ cmd.op = "mkdir"
      /\ \E made \in {MakeDirectory(vol, get_parent_inode(vol, cwd, p), Last(p.comps))} :
           /\ vol' = made.vol
           /\ cmd' = IF made.ret = -1 \/ cmd.level = Len(cmd.path.comps) THEN AtPrompt
                     ELSE [cmd EXCEPT !.level = @ + 1]
      /\ UNCHANGED <<files, cwd, user>>

Rmdir ==
  /\ Session
  /\ \E p \in RmdirPaths :
       LET removed == delete_directory(vol, cwd, p)
       IN  /\ removed.ret = 0
           /\ vol' = removed.vol
           /\ UNCHANGED <<files, cwd, user, cmd>>

\* A relative path is put after the path of the prompt and looked up from the
\* root.
Cd ==
  /\ Session
  /\ \E p \in CdPaths :
       LET i == Resolve(vol, RootIno, IF p.abs THEN p.comps ELSE get_cwd_path(vol, cwd) \o p.comps)
       IN  /\ is_directory(vol, i)
           /\ cwd' = i
           /\ UNCHANGED <<vol, files, user, cmd>>

----------------------------------------------------------------------------
(* Open files.  A descriptor stands for its slot of the table: next_fd gives *)
(* every open a number of its own.                                          *)

Open ==
  /\ Session
  /\ \E p \in OpenPaths, flags \in OpenFlags :
       LET i    == path_to_inode(vol, cwd, p)
           free == {f \in 1 .. MaxOpen : ~files[f].open}
       IN  /\ is_regular_file(vol, i)
           /\ free # {}
           /\ files' = [files EXCEPT ![Min(free)] = File(i, flags, 0)]
           /\ UNCHANGED <<vol, cwd, user, cmd>>

Close ==
  /\ Session
  /\ \E f \in 1 .. MaxOpen :
       /\ files[f].open
       /\ files' = [files EXCEPT ![f] = NoFile]
       /\ UNCHANGED <<vol, cwd, user, cmd>>

Read ==
  /\ Session
  /\ \E f \in 1 .. MaxOpen, n \in 1 .. MaxTransfer :
       /\ files[f].open
       /\ ~("WRONLY" \in files[f].flags /\ "RDWR" \notin files[f].flags)
       /\ files' = [files EXCEPT ![f].off = @ + ReadCount(vol, files[f].ino, @, n)]
       /\ UNCHANGED <<vol, cwd, user, cmd>>

\* Faulty variant: one past the end is accepted.
Lseek_PastEnd ==
  /\ Session
  /\ \E f \in 1 .. MaxOpen :
       /\ files[f].open
       /\ \E off \in 0 .. vol.itab[files[f].ino].size + 1 :
            files' = [files EXCEPT ![f].off = off]
       /\ UNCHANGED <<vol, cwd, user, cmd>>

Lseek ==
  /\ Session
  /\ \E f \in 1 .. MaxOpen :
       /\ files[f].open
       /\ \E off \in 0 .. vol.itab[files[f].ino].size :
            files' = [files EXCEPT ![f].off = off]
       /\ UNCHANGED <<vol, cwd, user, cmd>>

\* The test for O_RDONLY is on a bit that no flags have: it refuses nothing.
StartWrite ==
  /\ Session
  /\ \E f \in 1 .. MaxOpen, n \in 1 .. MaxTransfer, d \in Data :
       /\ files[f].open
       /\ files[f].off + n <= MaxFileWords
       /\ cmd' = Writing(f, d, files[f].off, n)
       /\ UNCHANGED <<vol, files, cwd, user>>

WriteNext == WriteChunk(vol, files[cmd.slot].ino, cmd.off, cmd.left, cmd.data)

\* Faulty variants: the loop does not break; it breaks, but all that was asked
\* for counts as written.
WriteOutcome_NoBreak ==
  LET w == WriteNext
  IN  [vol |-> w.vol, cmd |-> [cmd EXCEPT !.off = @ + w.ret, !.left = @ - w.ret]]
WriteOutcome_CountsUnwritten ==
  LET w == WriteNext
  IN  [vol |-> w.vol, cmd |-> [cmd EXCEPT !.off = @ + (IF w.ret = 0 THEN cmd.left ELSE w.ret),
                                          !.left = IF w.ret = 0 THEN 0 ELSE @ - w.ret]]

\* The loop of write_inode_data ends when nothing is left, or breaks.
WriteOutcome ==
  LET w == WriteNext
  IN  [vol |-> w.vol,
       cmd |-> IF w.ret = 0 THEN [cmd EXCEPT !.left = 0]
               ELSE [cmd EXCEPT !.off = @ + w.ret, !.left = @ - w.ret]]
WriteStep ==
  /\ cmd.op = "write"
  /\ cmd.left > 0
  /\ \E w \in {WriteOutcome} : vol' = w.vol /\ cmd' = w.cmd
  /\ UNCHANGED <<files, cwd, user>>

\* Only then do the size and the descriptor's offset follow.
FinishWrite ==
  /\ cmd.op = "write"
  /\ cmd.left = 0
  /\ vol' = [vol EXCEPT !.itab[files[cmd.slot].ino].size = Max({@, cmd.off})]
  /\ files' = [files EXCEPT ![cmd.slot].off = cmd.off]
  /\ cmd' = AtPrompt
  /\ UNCHANGED <<cwd, user>>

----------------------------------------------------------------------------
Next ==
  \/ Login \/ Logout \/ Mount \/ Restart
  \/ Create \/ Delete \/ StartMkdir \/ MkdirStep \/ Rmdir \/ Cd
  \/ Open \/ Close \/ Read \/ Lseek \/ StartWrite \/ WriteStep \/ FinishWrite

Spec == Init /\ [][Next]_vars

(***************************************************************************)
(* A command that has begun goes on: the process runs it, nothing waits.   *)
(* This is weak fairness of CommandStep, with the ENABLED it contains      *)
(* written as the state function CommandAdvances: mkdir and the end of a   *)
(* write always change cmd, an iteration of write when it has an effect.   *)
(***************************************************************************)
CommandStep == MkdirStep \/ WriteStep \/ FinishWrite
CommandAdvances ==
  \/ cmd.op = "mkdir"
  \/ cmd.op = "write" /\ (cmd.left > 0 => WriteOutcome # [vol |-> vol, cmd |-> cmd])
Fairness == []<>~CommandAdvances \/ []<><<CommandStep>>_vars

FairSpec == Spec /\ Fairness
=============================================================================
