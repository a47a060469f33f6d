--------------------------- MODULE FileSystemProofs ---------------------------
(***************************************************************************)
(* The theorems about FileSystem: its types, the one owner of each block,  *)
(* and its action properties of files, offsets, lost blocks and counters.  *)
(*                                                                         *)
(* IInv is inductive, BlockOwnership alone is not: what allocate_block     *)
(* hands out is beyond every pointer only if the bitmap and the pointers   *)
(* have their types, and a write attaches its block to an inode of the     *)
(* table only if the descriptor and the command that runs have theirs.     *)
(* VolOK, of module VolumeProofs, is what both say of the volume.  FInv,   *)
(* below, is IInv with what the action properties need besides.            *)
(***************************************************************************)
EXTENDS FileSystemProps, VolumeProofs

IInv == TypeOK /\ BlockOwnership

LEMMA OwnershipIsOwned ==
  ASSUME NEW v
  PROVE  PointersMarked(v) /\ NoBlockShared(v) /\ ReservedUntouched(v) <=> Owned(v)
<1>1. ASSUME PointersMarked(v), NoBlockShared(v), ReservedUntouched(v) PROVE Owned(v)
  <2>1. \A i \in Inodes, k \in Index : v.itab[i].ptr[k] # 0 =>
          /\ <<i, k>> \in Pointers(v) /\ BlockAt(v, <<i, k>>) = v.itab[i].ptr[k]
    BY DEF Pointers, BlockAt
  <2>2. \A i, j \in Inodes, k, l \in Index :
          v.itab[i].ptr[k] # 0 /\ v.itab[i].ptr[k] = v.itab[j].ptr[l] => i = j /\ k = l
    <3> SUFFICES ASSUME NEW i \in Inodes, NEW j \in Inodes, NEW k \in Index, NEW l \in Index,
                        v.itab[i].ptr[k] # 0, v.itab[i].ptr[k] = v.itab[j].ptr[l]
                 PROVE  <<i, k>> = <<j, l>>
      OBVIOUS
    <3>1. /\ <<i, k>> \in Pointers(v) /\ <<j, l>> \in Pointers(v)
          /\ BlockAt(v, <<i, k>>) = BlockAt(v, <<j, l>>)
      BY <2>1
    <3> QED BY <1>1, <3>1 DEF NoBlockShared
  <2>3. \A i \in Inodes, k \in Index : v.itab[i].ptr[k] # 0 =>
          v.itab[i].ptr[k] \in v.bmap /\ v.itab[i].ptr[k] > Reserved
    BY <1>1, <2>1 DEF PointersMarked, ReservedUntouched
  <2> QED BY <1>1, <2>2, <2>3 DEF ReservedUntouched, Owned
<1>2. ASSUME Owned(v) PROVE PointersMarked(v) /\ NoBlockShared(v) /\ ReservedUntouched(v)
  BY <1>2 DEF PointersMarked, NoBlockShared, ReservedUntouched, Owned, Pointers, BlockAt
<1> QED BY <1>1, <1>2

----------------------------------------------------------------------------
(* Values the actions compute *)

LEMMA MaxIsGreatest ==
  ASSUME NEW N \in Nat, NEW S, S \subseteq 0 .. N, S # {}
  PROVE  Max(S) \in S /\ \A y \in S : y <= Max(S)
<1> DEFINE T == {N - y : y \in S}
<1>1. T \subseteq Nat /\ T # {}
  OBVIOUS
<1>2. Min(T) \in T /\ \A z \in T : Min(T) <= z
  BY <1>1, MinIsLeast
<1>3. PICK x \in S : Min(T) = N - x
  BY <1>2
<1>4. \A y \in S : y <= x
  <2> TAKE y \in S
  <2>1. Min(T) <= N - y
    BY <1>2
  <2> QED BY <1>3, <2>1
<1> QED BY <1>4 DEF Max

LEMMA LastNameType ==
  ASSUME NEW p \in PathType, p.comps # <<>>
  PROVE  Last(p.comps) \in AnyName
<1>1. p.comps \in Seq(AnyName) /\ Len(p.comps) \in 1 .. Len(p.comps)
  BY DEF PathType, AnyName
<1> QED BY <1>1 DEF Last

\* The last name of a path cut after its first k names.
LEMMA PrefixNameType ==
  ASSUME NEW p \in PathType, NEW k \in 1 .. Len(p.comps)
  PROVE  Last(PrefixOf(p, k).comps) \in AnyName
<1>1. p.comps \in Seq(AnyName)
  BY DEF PathType, AnyName
<1>2. PrefixOf(p, k).comps = SubSeq(p.comps, 1, k)
  BY DEF PrefixOf, PathType
<1>3. /\ Len(SubSeq(p.comps, 1, k)) = k
      /\ SubSeq(p.comps, 1, k)[k] = p.comps[k]
      /\ p.comps[k] \in AnyName
  BY <1>1
<1> QED BY <1>2, <1>3 DEF Last

\* A read moves the offset within the direct blocks.
LEMMA ReadCountType ==
  ASSUME NEW v, VolOK(v), NEW i \in Inodes, NEW off \in 0 .. MaxFileWords, NEW n \in Nat
  PROVE  off + ReadCount(v, i, off, n) \in 0 .. MaxFileWords
<1> DEFINE Present(x) == LET b == get_inode_block(v, i, x \div Slots)
                         IN  b # 0 /\ Readable(v, b)
           S == {c \in 0 .. n : \A x \in off .. off + c - 1 : x < v.itab[i].size /\ Present(x)}
<1>1. MaxFileWords \in Nat /\ v.itab[i].size \in 0 .. MaxFileWords
  BY MaxFileWordsType DEF VolOK, Volumes, Inode
<1>2. S \subseteq 0 .. n /\ 0 \in S
  BY <1>1
<1>3. Max(S) \in S
  BY <1>2, MaxIsGreatest
<1>4. ReadCount(v, i, off, n) = Max(S)
  BY DEF ReadCount
<1>5. \A c \in S : off + c \in 0 .. MaxFileWords
  <2> TAKE c \in S
  <2>1. CASE c = 0
    BY <1>1, <2>1
  <2>2. CASE c > 0
    <3>1. off + c - 1 \in off .. off + c - 1
      BY <1>1, <2>2
    <3>2. off + c - 1 < v.itab[i].size
      BY <3>1
    <3> HIDE DEF S
    <3> QED BY <1>1, <1>2, <3>2
  <2> QED BY <2>1, <2>2
<1> QED BY <1>3, <1>4, <1>5

----------------------------------------------------------------------------
(* The inductive invariant *)

LEMMA InitInv == Init => IInv
<1> SUFFICES ASSUME Init PROVE IInv
  OBVIOUS
<1>1. VolOK(vol)
  BY FormattedVolumeOK DEF Init
<1>2. BlockOwnership
  BY <1>1, OwnershipIsOwned DEF VolOK, BlockOwnership
<1>3. files \in [1 .. MaxOpen -> FileType]
  BY DEF Init, FileType
<1>4. cwd \in 0 .. MaxInodes
  BY VolumeAssumption DEF Init, RootIno
<1>5. user \in {"none", "root"} /\ cmd = AtPrompt
  BY DEF Init
<1>6. TypeOK
  BY <1>1, <1>3, <1>4, <1>5 DEF TypeOK, VolOK, CmdType, AtPrompt
<1> QED BY <1>2, <1>6 DEF IInv

\* The types of everything but the volume.
TypesBesideVol ==
  /\ files \in [1 .. MaxOpen -> FileType]
  /\ cwd \in 0 .. MaxInodes
  /\ user \in {"none", "root"}
  /\ cmd \in CmdType
  /\ cmd.op = "mkdir" => cmd.level <= Len(cmd.path.comps)
  /\ cmd.op = "write" => cmd.off + cmd.left <= MaxFileWords /\ files[cmd.slot].open

LEMMA NoFilesType == [f \in 1 .. MaxOpen |-> NoFile] \in [1 .. MaxOpen -> FileType]
  BY DEF FileType

LEMMA PromptType ==
  AtPrompt \in CmdType /\ AtPrompt.op # "mkdir" /\ AtPrompt.op # "write"
  BY DEF AtPrompt, CmdType

\* A word of the open file table that is in use has the fields of a file.
LEMMA OpenFileType ==
  ASSUME files \in [1 .. MaxOpen -> FileType], NEW f \in 1 .. MaxOpen, files[f].open
  PROVE  /\ files[f].ino \in Inodes /\ files[f].flags \in Flags
         /\ files[f].off \in 0 .. MaxFileWords
         /\ \A off \in 0 .. MaxFileWords : [files[f] EXCEPT !.off = off] \in FileType
<1>1. PICK i \in Inodes, fl \in Flags, o \in 0 .. MaxFileWords : files[f] = File(i, fl, o)
  BY DEF FileType, NoFile
<1>2. /\ files[f].ino = i /\ files[f].flags = fl /\ files[f].off = o
  BY <1>1 DEF File
<1>3. \A off \in 0 .. MaxFileWords : [File(i, fl, o) EXCEPT !.off = off] = File(i, fl, off)
  <2> TAKE off \in 0 .. MaxFileWords
  <2> DEFINE g == File(i, fl, o)
             h == [g EXCEPT !.off = off]
  <2>1. /\ DOMAIN g = {"open", "ino", "flags", "off"}
        /\ g.open = TRUE /\ g.ino = i /\ g.flags = fl
    BY DEF File
  <2> HIDE DEF g
  <2>2. h = [x \in {"open", "ino", "flags", "off"} |-> IF x = "off" THEN off ELSE g[x]]
    BY <2>1
  <2>3. /\ h.open = TRUE /\ h.ino = i /\ h.flags = fl /\ h.off = off
        /\ DOMAIN h = {"open", "ino", "flags", "off"}
    BY <2>1, <2>2
  <2> HIDE DEF h
  <2>4. h = [open |-> TRUE, ino |-> i, flags |-> fl, off |-> off]
    BY <2>2, <2>1
  <2> QED BY <2>4 DEF File, g, h
<1>4. \A off \in 0 .. MaxFileWords : File(i, fl, off) \in FileType
  BY DEF FileType
<1> QED BY <1>1, <1>2, <1>3, <1>4

\* A new offset is all that changes.
LEMMA OpenFields ==
  ASSUME files \in [1 .. MaxOpen -> FileType], NEW f \in 1 .. MaxOpen, files[f].open, NEW off
  PROVE  /\ [files[f] EXCEPT !.off = off].off = off
         /\ [files[f] EXCEPT !.off = off].ino = files[f].ino
         /\ [files[f] EXCEPT !.off = off].open
<1>1. PICK i \in Inodes, fl \in Flags, o \in 0 .. MaxFileWords : files[f] = File(i, fl, o)
  BY DEF FileType, NoFile
<1>2. DOMAIN files[f] = {"open", "ino", "flags", "off"}
  BY <1>1 DEF File
<1> QED BY <1>2

\* A write command that runs has the fields of one.
LEMMA WriteType ==
  ASSUME cmd \in CmdType, cmd.op = "write"
  PROVE  /\ cmd.slot \in 1 .. MaxOpen /\ cmd.data \in Data
         /\ cmd.off \in 0 .. MaxFileWords /\ cmd.left \in 0 .. MaxFileWords
         /\ \A off, left \in 0 .. MaxFileWords :
              [cmd EXCEPT !.off = off, !.left = left] \in CmdType
<1> DEFINE W == [op : {"write"}, slot : 1 .. MaxOpen, data : Data,
                 off : 0 .. MaxFileWords, left : 0 .. MaxFileWords]
<1>1. cmd \in W
  BY DEF CmdType, AtPrompt
<1>2. \A off, left \in 0 .. MaxFileWords : [cmd EXCEPT !.off = off, !.left = left] \in W
  BY <1>1
<1>3. W \subseteq CmdType
  BY DEF CmdType
<1> QED BY <1>1, <1>2, <1>3

LEMMA MkdirType ==
  ASSUME cmd \in CmdType, cmd.op = "mkdir"
  PROVE  /\ cmd.path \in MkdirPaths /\ cmd.level \in Nat \ {0}
         /\ [cmd EXCEPT !.level = @ + 1] \in CmdType
  BY DEF CmdType, AtPrompt

----------------------------------------------------------------------------
(* Every step keeps the types *)

LEMMA SizeUpdateOK ==
  ASSUME NEW v, VolOK(v), NEW i \in Inodes, NEW n \in 0 .. MaxFileWords
  PROVE  VolOK([v EXCEPT !.itab[i].size = n])
<1>1. v.itab[i] \in Inode
  BY DEF VolOK, Volumes
<1>2. /\ [v.itab[i] EXCEPT !.size = n] \in Inode
      /\ [v.itab[i] EXCEPT !.size = n].ptr = v.itab[i].ptr
  BY <1>1 DEF Inode
<1>3. VolOK([v EXCEPT !.itab[i] = [v.itab[i] EXCEPT !.size = n]])
  BY <1>2, InodeUpdateOK
<1>4. [v EXCEPT !.itab[i].size = n] = [v EXCEPT !.itab[i] = [v.itab[i] EXCEPT !.size = n]]
  OBVIOUS
<1> QED BY <1>3, <1>4

\* Steps outside the commands that loop.
LEMMA CommandsKeepTypes ==
  ASSUME VolOK(vol), TypesBesideVol,
         Login \/ Logout \/ Mount \/ Restart \/ Create \/ Delete \/ Rmdir \/ Cd
  PROVE  VolOK(vol') /\ TypesBesideVol'
<1>1. CASE Login
  <2> DEFINE home == find_directory_entry(vol, RootIno, HomeName)
             made == MakeDirectory(vol, RootIno, HomeName)
  <2>1. VolOK(made.vol)
    BY MakeDirectoryOK, SessionAssumption DEF AnyName
  <2>2. /\ home \in 0 .. MaxInodes
        /\ find_directory_entry(made.vol, RootIno, HomeName) \in 0 .. MaxInodes
    BY <2>1, FindType
  <2>3. RootIno \in 0 .. MaxInodes
    BY VolumeAssumption DEF RootIno
  <2>4. /\ vol' \in {vol, made.vol} /\ user' = "root" /\ UNCHANGED <<files, cmd>>
        /\ cwd' \in {home, RootIno, find_directory_entry(made.vol, RootIno, HomeName)}
    BY <1>1 DEF Login
  <2> QED BY <2>1, <2>2, <2>3, <2>4 DEF TypesBesideVol
<1>2. CASE Logout
  BY <1>2 DEF Logout, TypesBesideVol
<1>3. CASE Mount
  <2>1. /\ VolOK(vol') /\ files' \in [1 .. MaxOpen -> FileType]
        /\ user' = "none" /\ cwd' = cwd /\ cmd' = cmd /\ cmd = AtPrompt
    BY <1>3, MountCountersOK, NoFilesType DEF Mount, Prompt
  <2> QED BY <2>1, PromptType DEF TypesBesideVol
<1>4. CASE Restart
  <2>1. /\ VolOK(vol') /\ files' \in [1 .. MaxOpen -> FileType]
        /\ user' = "none" /\ cwd' = RootIno /\ cmd' = AtPrompt
    BY <1>4, MountCountersOK, NoFilesType DEF Restart
  <2>2. RootIno \in 0 .. MaxInodes
    BY VolumeAssumption DEF RootIno
  <2> QED BY <2>1, <2>2, PromptType DEF TypesBesideVol
<1>5. CASE Create
  <2>1. PICK p \in CreatePaths : vol' = NewFile(vol, get_parent_inode(vol, cwd, p), Last(p.comps))
    BY <1>5 DEF Create
  <2>2. Last(p.comps) \in AnyName
    BY LastNameType, SessionAssumption DEF NamingPaths
  <2>3. VolOK(vol')
    BY <2>1, <2>2, NewFileOK
  <2> QED BY <1>5, <2>3 DEF Create, TypesBesideVol
<1>6. CASE Delete
  <2>1. PICK p \in DeletePaths :
          vol' = delete_inode(remove_directory_entry(vol, get_parent_inode(vol, cwd, p),
                                                     Last(p.comps)).vol,
                              path_to_inode(vol, cwd, p))
    BY <1>6 DEF Delete
  <2>2. VolOK(vol')
    BY <2>1, RemoveEntryOK, DeleteInodeOK
  <2> QED BY <1>6, <2>2 DEF Delete, TypesBesideVol
<1>7. CASE Rmdir
  <2>1. PICK p \in RmdirPaths : vol' = delete_directory(vol, cwd, p).vol
    BY <1>7 DEF Rmdir
  <2>2. VolOK(vol')
    BY <2>1, DeleteDirectoryOK
  <2> QED BY <1>7, <2>2 DEF Rmdir, TypesBesideVol
<1>8. CASE Cd
  <2>1. PICK i : is_directory(vol, i) /\ cwd' = i
    BY <1>8 DEF Cd
  <2>2. cwd' \in 0 .. MaxInodes
    BY <2>1, VolumeAssumption DEF is_directory, IsType, Inodes
  <2> QED BY <1>8, <2>2 DEF Cd, TypesBesideVol
<1> QED BY <1>1, <1>2, <1>3, <1>4, <1>5, <1>6, <1>7, <1>8

\* Open, close, read and seek.
LEMMA DescriptorsKeepTypes ==
  ASSUME VolOK(vol), TypesBesideVol, Open \/ Close \/ Read \/ Lseek
  PROVE  VolOK(vol') /\ TypesBesideVol'
<1>1. /\ files \in [1 .. MaxOpen -> FileType]
      /\ vol' = vol /\ cwd' = cwd /\ user' = user /\ cmd' = cmd /\ cmd = AtPrompt
  BY DEF TypesBesideVol, Open, Close, Read, Lseek, Session, Prompt
<1>2. files' \in [1 .. MaxOpen -> FileType]
  <2>1. CASE Open
    <3>1. PICK p \in OpenPaths, flags \in OpenFlags :
            LET i    == path_to_inode(vol, cwd, p)
                free == {f \in 1 .. MaxOpen : ~files[f].open}
            IN  /\ is_regular_file(vol, i)
                /\ files' = [files EXCEPT ![Min(free)] = File(i, flags, 0)]
      BY <2>1 DEF Open
    <3>2. File(path_to_inode(vol, cwd, p), flags, 0) \in FileType
      <4>1. path_to_inode(vol, cwd, p) \in Inodes /\ flags \in Flags
        BY <3>1, SessionAssumption DEF is_regular_file, IsType
      <4>2. 0 \in 0 .. MaxFileWords
        BY MaxFileWordsType
      <4> QED BY <4>1, <4>2 DEF FileType
    <3> QED BY <1>1, <3>1, <3>2
  <2>2. CASE Close
    BY <1>1, <2>2 DEF Close, FileType
  <2>3. CASE Read
    <3>1. PICK f \in 1 .. MaxOpen, n \in 1 .. MaxTransfer :
            /\ files[f].open
            /\ files' = [files EXCEPT ![f] = [files[f] EXCEPT !.off =
                           files[f].off + ReadCount(vol, files[f].ino, files[f].off, n)]]
      BY <2>3 DEF Read
    <3>2. files[f].off + ReadCount(vol, files[f].ino, files[f].off, n) \in 0 .. MaxFileWords
      BY <1>1, <3>1, OpenFileType, ReadCountType, SessionAssumption
    <3> DEFINE g == [files[f] EXCEPT !.off =
                       files[f].off + ReadCount(vol, files[f].ino, files[f].off, n)]
    <3>3. g \in FileType
      BY <1>1, <3>1, <3>2, OpenFileType
    <3> HIDE DEF g
    <3>4. files' = [files EXCEPT ![f] = g]
      BY <3>1 DEF g
    <3> QED BY <1>1, <3>3, <3>4
  <2>4. CASE Lseek
    <3>1. PICK f \in 1 .. MaxOpen :
            /\ files[f].open
            /\ \E off \in 0 .. vol.itab[files[f].ino].size :
                 files' = [files EXCEPT ![f] = [files[f] EXCEPT !.off = off]]
      BY <2>4 DEF Lseek
    <3>2. PICK off \in 0 .. vol.itab[files[f].ino].size :
            files' = [files EXCEPT ![f] = [files[f] EXCEPT !.off = off]]
      BY <3>1
    <3>3. vol.itab[files[f].ino].size \in 0 .. MaxFileWords
      BY <1>1, <3>1, OpenFileType DEF VolOK, Volumes, Inode
    <3>4. off \in 0 .. MaxFileWords
      BY <3>3, MaxFileWordsType
    <3>5. [files[f] EXCEPT !.off = off] \in FileType
      BY <1>1, <3>1, <3>4, OpenFileType
    <3> QED BY <1>1, <3>2, <3>5
  <2> QED BY <2>1, <2>2, <2>3, <2>4
<1> QED BY <1>1, <1>2, PromptType DEF TypesBesideVol

\* mkdir, one level at a time.
LEMMA MkdirKeepsTypes ==
  ASSUME VolOK(vol), TypesBesideVol, StartMkdir \/ MkdirStep
  PROVE  VolOK(vol') /\ TypesBesideVol'
<1>1. CASE StartMkdir
  <2>1. PICK p \in MkdirPaths :
          cmd' = Mkdir(p, Max({1} \cup {k \in 2 .. Len(p.comps) :
                                 get_parent_inode(vol, cwd, PrefixOf(p, k)) # 0}))
    BY <1>1 DEF StartMkdir
  <2> DEFINE L == {1} \cup {k \in 2 .. Len(p.comps) :
                                 get_parent_inode(vol, cwd, PrefixOf(p, k)) # 0}
  <2>2. Len(p.comps) \in Nat \ {0}
    BY SessionAssumption DEF NamingPaths, PathType
  <2>3. L \subseteq 0 .. Len(p.comps) /\ L \subseteq 1 .. Len(p.comps) /\ L # {}
    BY <2>2
  <2> HIDE DEF L
  <2>4. Max(L) \in 1 .. Len(p.comps)
    BY <2>2, <2>3, MaxIsGreatest
  <2>5. cmd' = Mkdir(p, Max(L))
    BY <2>1 DEF L
  <2>6. /\ cmd' \in CmdType /\ cmd'.op = "mkdir"
        /\ cmd'.level = Max(L) /\ cmd'.path = p
    BY <2>2, <2>4, <2>5 DEF Mkdir, CmdType
  <2> QED BY <1>1, <2>2, <2>4, <2>6 DEF StartMkdir, TypesBesideVol
<1>2. CASE MkdirStep
  <2> DEFINE p    == PrefixOf(cmd.path, cmd.level)
             made == MakeDirectory(vol, get_parent_inode(vol, cwd, p), Last(p.comps))
  <2>1. cmd \in CmdType /\ cmd.op = "mkdir" /\ cmd.level <= Len(cmd.path.comps)
    BY <1>2 DEF MkdirStep, TypesBesideVol
  <2>2. /\ cmd.path \in MkdirPaths /\ cmd.level \in Nat \ {0}
        /\ [cmd EXCEPT !.level = @ + 1] \in CmdType
    BY <2>1, MkdirType
  <2>3. cmd.path \in PathType /\ Len(cmd.path.comps) \in Nat
    BY <2>2, SessionAssumption DEF NamingPaths, PathType
  <2>4. Last(p.comps) \in AnyName
    BY <2>1, <2>2, <2>3, PrefixNameType
  <2>5. VolOK(made.vol)
    BY <2>4, MakeDirectoryOK
  <2>6. /\ vol' = made.vol /\ UNCHANGED <<files, cwd, user>>
        /\ \/ cmd' = AtPrompt
           \/ cmd.level # Len(cmd.path.comps) /\ cmd' = [cmd EXCEPT !.level = @ + 1]
    BY <1>2 DEF MkdirStep
  <2>7. CASE cmd' = AtPrompt
    BY <2>5, <2>6, <2>7, PromptType DEF TypesBesideVol
  <2>8. CASE cmd.level # Len(cmd.path.comps) /\ cmd' = [cmd EXCEPT !.level = @ + 1]
    <3>1. cmd'.op = "mkdir" /\ cmd'.path = cmd.path /\ cmd'.level = cmd.level + 1
      BY <2>1, <2>8 DEF CmdType, AtPrompt
    <3>2. cmd'.level <= Len(cmd'.path.comps)
      BY <2>1, <2>2, <2>3, <2>8, <3>1
    <3> QED BY <2>2, <2>5, <2>6, <2>8, <3>1, <3>2 DEF TypesBesideVol
  <2> QED BY <2>6, <2>7, <2>8
<1> QED BY <1>1, <1>2

\* write, one block at a time.
LEMMA WriteKeepsTypes ==
  ASSUME VolOK(vol), TypesBesideVol, StartWrite \/ WriteStep \/ FinishWrite
  PROVE  VolOK(vol') /\ TypesBesideVol'
<1>0. files \in [1 .. MaxOpen -> FileType] /\ cmd \in CmdType
  BY DEF TypesBesideVol
<1>1. CASE StartWrite
  <2>1. PICK f \in 1 .. MaxOpen, n \in 1 .. MaxTransfer, d \in Data :
          /\ files[f].open /\ files[f].off + n <= MaxFileWords
          /\ cmd' = Writing(f, d, files[f].off, n)
    BY <1>1 DEF StartWrite
  <2>2. files[f].off \in 0 .. MaxFileWords /\ n \in 0 .. MaxFileWords
    BY <1>0, <2>1, OpenFileType, MaxFileWordsType, SessionAssumption
  <2>3. /\ cmd' \in CmdType /\ cmd'.op = "write"
        /\ cmd'.off = files[f].off /\ cmd'.left = n /\ cmd'.slot = f
    BY <2>1, <2>2 DEF Writing, CmdType
  <2> QED BY <1>1, <2>1, <2>3 DEF StartWrite, TypesBesideVol
<1>2. CASE WriteStep \/ FinishWrite
  <2>1. cmd.op = "write" /\ cmd.off + cmd.left <= MaxFileWords /\ files[cmd.slot].open
    BY <1>2 DEF WriteStep, FinishWrite, TypesBesideVol
  <2>2. /\ cmd.slot \in 1 .. MaxOpen /\ cmd.data \in Data
        /\ cmd.off \in 0 .. MaxFileWords /\ cmd.left \in 0 .. MaxFileWords
    BY <1>0, <2>1, WriteType
  <2>3. files[cmd.slot].ino \in Inodes /\ MaxFileWords \in Nat
    BY <1>0, <2>1, <2>2, OpenFileType, MaxFileWordsType
  <2>4. CASE WriteStep
    <3>0. cmd.off \in Nat /\ cmd.left \in Nat
      BY <2>2, <2>3
    <3> DEFINE w == WriteChunk(vol, files[cmd.slot].ino, cmd.off, cmd.left, cmd.data)
    <3>1. /\ cmd.left > 0 /\ vol' = w.vol /\ UNCHANGED <<files, cwd, user>>
          /\ cmd' = IF w.ret = 0 THEN [cmd EXCEPT !.left = 0]
                    ELSE [cmd EXCEPT !.off = @ + w.ret, !.left = @ - w.ret]
      BY <2>4 DEF WriteStep, WriteOutcome, WriteNext
    <3>2. VolOK(w.vol) /\ w.ret \in 0 .. cmd.left
      BY <2>1, <2>2, <2>3, <3>0, <3>1, WriteChunkOK
    <3> HIDE DEF w
    <3>3. PICK off \in 0 .. MaxFileWords, left \in 0 .. MaxFileWords :
            off + left <= MaxFileWords /\ cmd' = [cmd EXCEPT !.off = off, !.left = left]
      <4>1. CASE w.ret = 0
        <5>1. cmd' = [cmd EXCEPT !.off = cmd.off, !.left = 0]
          BY <1>0, <2>1, <3>1, <4>1 DEF CmdType, AtPrompt
        <5>2. 0 \in 0 .. MaxFileWords /\ cmd.off + 0 <= MaxFileWords
          BY <2>2, <2>3
        <5> QED BY <2>2, <5>1, <5>2
      <4>2. CASE w.ret # 0
        <5>1. cmd' = [cmd EXCEPT !.off = cmd.off + w.ret, !.left = cmd.left - w.ret]
          BY <3>1, <4>2
        <5>2. /\ cmd.off + w.ret \in 0 .. MaxFileWords
              /\ cmd.left - w.ret \in 0 .. MaxFileWords
              /\ (cmd.off + w.ret) + (cmd.left - w.ret) <= MaxFileWords
          <6>1. w.ret \in Int /\ 0 <= w.ret /\ w.ret <= cmd.left
            BY <3>0, <3>2
          <6> QED BY <2>1, <2>3, <3>0, <6>1
        <5> QED BY <5>1, <5>2
      <4> QED BY <4>1, <4>2
    <3>4. /\ cmd'.op = "write" /\ cmd'.slot = cmd.slot
          /\ cmd'.off = off /\ cmd'.left = left
      BY <1>0, <2>1, <3>3 DEF CmdType, AtPrompt
    <3>5. cmd' \in CmdType
      BY <1>0, <2>1, <3>3, WriteType
    <3>6. VolOK(vol') /\ files' = files /\ cwd' = cwd /\ user' = user
      BY <3>1, <3>2
    <3> QED BY <2>1, <3>3, <3>4, <3>5, <3>6 DEF TypesBesideVol
  <2>5. CASE FinishWrite
    <3> DEFINE i    == files[cmd.slot].ino
               size == Max({vol.itab[i].size, cmd.off})
    <3>1. /\ vol' = [vol EXCEPT !.itab[i].size = size]
          /\ files' = [files EXCEPT ![cmd.slot] = [files[cmd.slot] EXCEPT !.off = cmd.off]]
          /\ cmd' = AtPrompt /\ UNCHANGED <<cwd, user>>
      BY <2>5 DEF FinishWrite
    <3>2. size \in 0 .. MaxFileWords
      <4>1. vol.itab[i].size \in 0 .. MaxFileWords
        BY <2>3 DEF VolOK, Volumes, Inode
      <4>2. {vol.itab[i].size, cmd.off} \subseteq 0 .. MaxFileWords
        BY <2>2, <4>1
      <4> HIDE DEF i
      <4>3. size \in {vol.itab[i].size, cmd.off}
        BY <2>3, <4>2, MaxIsGreatest
      <4> QED BY <4>2, <4>3
    <3> HIDE DEF size
    <3>3. VolOK(vol')
      BY <2>3, <3>1, <3>2, SizeUpdateOK
    <3>4. files' \in [1 .. MaxOpen -> FileType]
      BY <1>0, <2>1, <2>2, <3>1, OpenFileType
    <3> QED BY <3>1, <3>3, <3>4, PromptType DEF TypesBesideVol
  <2> QED BY <1>2, <2>4, <2>5
<1> QED BY <1>1, <1>2

----------------------------------------------------------------------------
(* The theorems *)

LEMMA NextInv == IInv /\ [Next]_vars => IInv'
<1> SUFFICES ASSUME IInv, [Next]_vars PROVE IInv'
  OBVIOUS
<1>1. VolOK(vol) /\ TypesBesideVol
  BY OwnershipIsOwned DEF IInv, TypeOK, BlockOwnership, VolOK, TypesBesideVol
<1>2. VolOK(vol') /\ TypesBesideVol'
  <2>1. CASE Next
    BY <1>1, <2>1, CommandsKeepTypes, DescriptorsKeepTypes, MkdirKeepsTypes, WriteKeepsTypes
       DEF Next
  <2>2. CASE UNCHANGED vars
    BY <1>1, <2>2 DEF vars, TypesBesideVol
  <2> QED BY <2>1, <2>2
<1>3. BlockOwnership'
  <2>1. PointersMarked(vol') /\ NoBlockShared(vol') /\ ReservedUntouched(vol')
    BY <1>2, OwnershipIsOwned DEF VolOK
  <2> QED BY <2>1 DEF BlockOwnership
<1>4. TypeOK'
  BY <1>2 DEF TypesBesideVol, TypeOK, VolOK
<1> QED BY <1>3, <1>4 DEF IInv

\* Whatever the sizes of the image, the tables and the commands, the state
\* keeps its types: in particular no offset and no file size leaves the direct
\* blocks, no directory scan returns a number outside 0 .. MaxInodes, and a
\* write that runs has an open descriptor (nothing closes it under the loop
\* of write_inode_data).
THEOREM TypeCorrect == Spec => []TypeOK
<1>1. IInv => TypeOK
  BY DEF IInv
<1> QED BY InitInv, NextInv, <1>1, PTL DEF Spec

\* Whatever the sizes, every block has one owner: no two pointers of the inode
\* table name one block, what they name is marked in the bitmap and is not
\* reserved, through every command, failure, stale descriptor and restart
\* between two steps of a command.
THEOREM OneOwnerPerBlock == Spec => []BlockOwnership
<1>1. IInv => BlockOwnership
  BY DEF IInv
<1> QED BY InitInv, NextInv, <1>1, PTL DEF Spec

----------------------------------------------------------------------------
(***************************************************************************)
(* What files keep.  The action properties about files need more than      *)
(* IInv: a directory is an allocated inode, so that no command writes      *)
(* names into a file (FreeUntyped), and a write that runs has put its text *)
(* in every place between the descriptor's offset and its own, so that the *)
(* size that follows covers no hole (WriteProgress).                       *)
(***************************************************************************)

WriteProgress ==
  cmd.op = "write" =>
    /\ files[cmd.slot].off <= cmd.off
    /\ \A x \in files[cmd.slot].off .. cmd.off - 1 :
         TextAt(vol, files[cmd.slot].ino, x, cmd.data)

FInv == IInv /\ FreeUntyped(vol) /\ WriteProgress

LEMMA IInvParts ==
  IInv => VolOK(vol) /\ TypesBesideVol
  BY OwnershipIsOwned DEF IInv, TypeOK, BlockOwnership, VolOK, TypesBesideVol

\* A delete or a rmdir clears a word of inode d, the parent in its path.
ClearsBelow(d, i) ==
  /\ cmd = AtPrompt
  /\ \E p \in DeletePaths \cup RmdirPaths : d = get_parent_inode(vol, cwd, p)
  /\ d # i => OnlyClears(vol, vol', d)

\* A step that is not one of a write: what it does to the volume.
NamespaceMove(d, i) ==
  /\ NamespaceStep(vol, vol', d, i)
  /\ d = 0 \/ is_directory(vol, d) \/ ClearsBelow(d, i)

LEMMA NoMove ==
  ASSUME VolOK(vol), vol' = vol
  PROVE  NamespaceMove(0, MaxInodes)
<1>1. NamespaceStep(vol, vol, 0, MaxInodes)
  BY NothingHappens
<1> QED BY <1>1 DEF NamespaceMove

LEMMA MakeDirectoryMoves ==
  ASSUME VolOK(vol), FreeUntyped(vol), NEW d, NEW n \in AnyName,
         vol' = MakeDirectory(vol, d, n).vol
  PROVE  \E e, i : NamespaceMove(e, i)
<1>1. PICK i \in 1 .. MaxInodes : /\ NamespaceStep(vol, vol', d, i)
                                  /\ vol' = vol \/ is_directory(vol, d)
  BY MakeDirectoryKeeps
<1>2. CASE vol' = vol
  BY <1>2, NoMove
<1>3. CASE is_directory(vol, d)
  <2>1. NamespaceMove(d, i)
    BY <1>1, <1>3 DEF NamespaceMove
  <2> QED BY <2>1
<1> QED BY <1>1, <1>2, <1>3

LEMMA MountMoves ==
  ASSUME VolOK(vol), vol' = MountCounters(vol)
  PROVE  NamespaceMove(0, MaxInodes)
<1>1. Keeps(vol, vol', 0, 0) /\ NoneLost(vol, vol')
  BY MountCountersKeeps
<1>2. Keeps(vol, vol', 0, MaxInodes)
  BY <1>1, KeepsMore
<1>3. MaxInodes \notin Inodes
  BY VolumeAssumption DEF Inodes
<1> QED BY <1>1, <1>2, <1>3 DEF NamespaceMove, NamespaceStep

LEMMA StepsMove ==
  ASSUME VolOK(vol), TypesBesideVol, FreeUntyped(vol), [Next]_vars, ~WriteStep, ~FinishWrite
  PROVE  \E d, i : NamespaceMove(d, i)
<1>1. CASE Logout \/ StartMkdir \/ Cd \/ Open \/ Close \/ Read \/ Lseek \/ StartWrite
           \/ UNCHANGED vars
  <2>1. vol' = vol
    BY <1>1 DEF Logout, StartMkdir, Cd, Open, Close, Read, Lseek, StartWrite, vars
  <2> QED BY <2>1, NoMove
<1>2. CASE Mount \/ Restart
  <2>1. vol' = MountCounters(vol)
    BY <1>2 DEF Mount, Restart
  <2> QED BY <2>1, MountMoves
<1>3. CASE Login
  <2>1. vol' = vol \/ vol' = MakeDirectory(vol, RootIno, HomeName).vol
    BY <1>3 DEF Login
  <2>2. HomeName \in AnyName
    BY SessionAssumption DEF AnyName
  <2> QED BY <2>1, <2>2, NoMove, MakeDirectoryMoves
<1>4. CASE MkdirStep
  <2> DEFINE p == PrefixOf(cmd.path, cmd.level)
  <2>1. cmd \in CmdType /\ cmd.op = "mkdir" /\ cmd.level <= Len(cmd.path.comps)
    BY <1>4 DEF MkdirStep, TypesBesideVol
  <2>2. cmd.path \in MkdirPaths /\ cmd.level \in Nat \ {0}
    BY <2>1, MkdirType
  <2>3. cmd.path \in PathType /\ Len(cmd.path.comps) \in Nat
    BY <2>2, SessionAssumption DEF NamingPaths, PathType
  <2>4. Last(p.comps) \in AnyName
    BY <2>1, <2>2, <2>3, PrefixNameType
  <2>5. vol' = MakeDirectory(vol, get_parent_inode(vol, cwd, p), Last(p.comps)).vol
    BY <1>4 DEF MkdirStep
  <2> QED BY <2>4, <2>5, MakeDirectoryMoves
<1>5. CASE Create
  <2>1. PICK p \in CreatePaths :
          /\ is_directory(vol, get_parent_inode(vol, cwd, p))
          /\ vol' = NewFile(vol, get_parent_inode(vol, cwd, p), Last(p.comps))
    BY <1>5 DEF Create
  <2> DEFINE d == get_parent_inode(vol, cwd, p)
  <2>2. Last(p.comps) \in AnyName
    BY LastNameType, SessionAssumption DEF NamingPaths
  <2>3. PICK i \in 1 .. MaxInodes : NamespaceStep(vol, vol', d, i)
    BY <2>1, <2>2, NewFileKeeps
  <2> QED BY <2>1, <2>3 DEF NamespaceMove
<1>6. CASE Delete
  <2>1. PICK p \in DeletePaths :
          LET i == path_to_inode(vol, cwd, p)
              r == remove_directory_entry(vol, get_parent_inode(vol, cwd, p), Last(p.comps))
          IN  i \in Inodes /\ r.ret = 0 /\ vol' = delete_inode(r.vol, i)
    BY <1>6 DEF Delete
  <2> DEFINE d == get_parent_inode(vol, cwd, p)
             i == path_to_inode(vol, cwd, p)
             n == Last(p.comps)
  <2>2. i \in Inodes /\ remove_directory_entry(vol, d, n).ret = 0
        /\ vol' = delete_inode(remove_directory_entry(vol, d, n).vol, i)
    BY <2>1
  <2>3. cmd = AtPrompt /\ d = get_parent_inode(vol, cwd, p)
    BY <1>6 DEF Delete, Session, Prompt
  <2> HIDE DEF d, i, n
  <2>4. NamespaceStep(vol, vol', d, i) /\ (d # i => OnlyClears(vol, vol', d))
    BY <2>2, RemoveKeeps
  <2>5. ClearsBelow(d, i)
    BY <2>3, <2>4 DEF ClearsBelow
  <2> QED BY <2>4, <2>5 DEF NamespaceMove
<1>7. CASE Rmdir
  <2>1. PICK p \in RmdirPaths :
          delete_directory(vol, cwd, p).ret = 0 /\ vol' = delete_directory(vol, cwd, p).vol
    BY <1>7 DEF Rmdir
  <2> DEFINE d == get_parent_inode(vol, cwd, p)
             i == path_to_inode(vol, cwd, p)
  <2>2. NamespaceStep(vol, vol', d, i) /\ (d # i => OnlyClears(vol, vol', d))
    BY <2>1, DeleteDirectoryKeeps
  <2>3. cmd = AtPrompt
    BY <1>7 DEF Rmdir, Session, Prompt
  <2>4. ClearsBelow(d, i)
    BY <2>2, <2>3 DEF ClearsBelow
  <2> QED BY <2>2, <2>4 DEF NamespaceMove
<1> QED BY <1>1, <1>2, <1>3, <1>4, <1>5, <1>6, <1>7 DEF Next

\* The file and the places of the write that runs.
LEMMA WriteRuns ==
  ASSUME TypesBesideVol, cmd.op = "write"
  PROVE  /\ cmd.slot \in 1 .. MaxOpen /\ files[cmd.slot].open
         /\ files[cmd.slot].ino \in Inodes /\ files[cmd.slot].off \in Nat /\ cmd.data \in Data
         /\ cmd.off \in Nat /\ cmd.left \in Nat /\ cmd.off + cmd.left <= MaxFileWords
<1>1. files \in [1 .. MaxOpen -> FileType] /\ cmd \in CmdType /\ files[cmd.slot].open
  BY DEF TypesBesideVol
<1>2. /\ cmd.slot \in 1 .. MaxOpen /\ cmd.data \in Data
      /\ cmd.off \in 0 .. MaxFileWords /\ cmd.left \in 0 .. MaxFileWords
  BY <1>1, WriteType, Zenon
<1>3. files[cmd.slot].ino \in Inodes /\ files[cmd.slot].off \in 0 .. MaxFileWords
  BY <1>1, <1>2, OpenFileType
<1>4. cmd.off + cmd.left <= MaxFileWords
  BY DEF TypesBesideVol
<1> QED BY <1>1, <1>2, <1>3, <1>4, MaxFileWordsType

\* An iteration of the write loop: n words more are in the file.
LEMMA WriteStepWrites ==
  ASSUME VolOK(vol), TypesBesideVol, WriteStep
  PROVE  LET i == files[cmd.slot].ino
         IN  /\ cmd.op = "write" /\ files' = files
             /\ Keeps(vol, vol', i, 0)
             /\ i \in vol.imap => NoneLost(vol, vol')
             /\ cmd'.op = "write" /\ cmd'.slot = cmd.slot /\ cmd'.data = cmd.data
             /\ \E n \in 0 .. cmd.left :
                  /\ cmd'.off = cmd.off + n
                  /\ cmd'.left = IF n = 0 THEN 0 ELSE cmd.left - n
                  /\ \A x \in cmd.off .. cmd.off + n - 1 : TextAt(vol', i, x, cmd.data)
                  /\ \A x \in Nat : x < MaxFileWords /\ x \notin cmd.off .. cmd.off + n - 1
                                    /\ vol.itab[i].ptr[x \div Slots] # 0
                       => LET b == vol.itab[i].ptr[x \div Slots]
                          IN  vol'.blk[b][(x % Slots) + 1] = vol.blk[b][(x % Slots) + 1]
<1> DEFINE i == files[cmd.slot].ino
           w == WriteChunk(vol, i, cmd.off, cmd.left, cmd.data)
<1>1. /\ cmd.op = "write" /\ cmd.left > 0 /\ vol' = w.vol /\ files' = files
      /\ cmd' = IF w.ret = 0 THEN [cmd EXCEPT !.left = 0]
                ELSE [cmd EXCEPT !.off = @ + w.ret, !.left = @ - w.ret]
  BY DEF WriteStep, WriteOutcome, WriteNext
<1>2. /\ i \in Inodes /\ cmd.data \in Data /\ cmd.off \in Nat /\ cmd.left \in Nat
      /\ cmd.off + cmd.left <= MaxFileWords
  BY <1>1, WriteRuns
<1>3. w.ret \in 0 .. cmd.left
  BY <1>1, <1>2, WriteChunkOK
<1>4. /\ Keeps(vol, w.vol, i, 0)
      /\ i \in vol.imap => NoneLost(vol, w.vol)
      /\ \A x \in cmd.off .. cmd.off + w.ret - 1 : TextAt(w.vol, i, x, cmd.data)
      /\ SparesTheRest(vol, w.vol, i, cmd.off .. cmd.off + w.ret - 1)
  <2> DEFINE off == cmd.off
             n   == cmd.left
             d   == cmd.data
  <2>1. /\ i \in Inodes /\ d \in Data /\ off \in Nat /\ n \in Nat
        /\ off + n <= MaxFileWords /\ n > 0 /\ w = WriteChunk(vol, i, off, n, d)
    BY <1>1, <1>2
  <2> HIDE DEF i, off, n, d, w
  <2>2. /\ Keeps(vol, w.vol, i, 0)
        /\ i \in vol.imap => NoneLost(vol, w.vol)
        /\ \A x \in off .. off + w.ret - 1 : TextAt(w.vol, i, x, d)
        /\ SparesTheRest(vol, w.vol, i, off .. off + w.ret - 1)
    BY <2>1, WriteChunkText
  <2> QED BY <2>2, Zenon DEF off, n, d
<1> HIDE DEF w, i
<1>5. /\ cmd'.op = "write" /\ cmd'.slot = cmd.slot /\ cmd'.data = cmd.data
      /\ cmd'.off = cmd.off + w.ret
      /\ cmd'.left = IF w.ret = 0 THEN 0 ELSE cmd.left - w.ret
  <2>1. cmd \in CmdType
    BY DEF TypesBesideVol
  <2>2. cmd \in [op : {"write"}, slot : 1 .. MaxOpen, data : Data,
                 off : 0 .. MaxFileWords, left : 0 .. MaxFileWords]
    BY <1>1, <2>1 DEF CmdType, AtPrompt
  <2> QED BY <1>1, <1>2, <1>3, <2>2
<1> QED BY <1>1, <1>3, <1>4, <1>5, Zenon DEF i, SparesTheRest

LEMMA WriteStepKeeps ==
  ASSUME VolOK(vol), TypesBesideVol, WriteStep
  PROVE  /\ cmd.op = "write" /\ files' = files
         /\ Keeps(vol, vol', files[cmd.slot].ino, 0)
         /\ files[cmd.slot].ino \in vol.imap => NoneLost(vol, vol')
  BY WriteStepWrites, Zenon

\* The end of a write: the size and the descriptor's offset follow.
LEMMA FinishWriteEnds ==
  ASSUME VolOK(vol), TypesBesideVol, FinishWrite
  PROVE  LET i == files[cmd.slot].ino
         IN  /\ cmd.op = "write" /\ cmd.left = 0 /\ cmd' = AtPrompt
             /\ vol'.bmap = vol.bmap /\ vol'.imap = vol.imap /\ vol'.blk = vol.blk
             /\ vol'.end = vol.end /\ vol'.bfree = vol.bfree /\ vol'.ifree = vol.ifree
             /\ \A j \in Inodes : /\ vol'.itab[j].type = vol.itab[j].type
                                  /\ vol'.itab[j].ptr = vol.itab[j].ptr
                                  /\ j # i => vol'.itab[j].size = vol.itab[j].size
             /\ vol'.itab[i].size = IF cmd.off > vol.itab[i].size THEN cmd.off
                                    ELSE vol.itab[i].size
             /\ \A f \in 1 .. MaxOpen : f # cmd.slot => files'[f] = files[f]
             /\ files'[cmd.slot] = [files[cmd.slot] EXCEPT !.off = cmd.off]
<1> DEFINE i    == files[cmd.slot].ino
           size == Max({vol.itab[i].size, cmd.off})
<1>1. /\ cmd.op = "write" /\ cmd.left = 0 /\ cmd' = AtPrompt
      /\ vol' = [vol EXCEPT !.itab[i].size = size]
      /\ files' = [files EXCEPT ![cmd.slot] = [files[cmd.slot] EXCEPT !.off = cmd.off]]
  BY DEF FinishWrite
<1>2. i \in Inodes /\ cmd.slot \in 1 .. MaxOpen /\ cmd.off \in 0 .. MaxFileWords
  BY <1>1, WriteRuns, WriteType DEF TypesBesideVol
<1>3. vol.itab[i].size \in 0 .. MaxFileWords
  BY <1>2 DEF VolOK, Volumes, Inode
<1> HIDE DEF i
<1>4. size = IF cmd.off > vol.itab[i].size THEN cmd.off ELSE vol.itab[i].size
  <2>1. {vol.itab[i].size, cmd.off} \subseteq 0 .. MaxFileWords
    BY <1>2, <1>3
  <2>2. size \in {vol.itab[i].size, cmd.off} /\ size >= vol.itab[i].size /\ size >= cmd.off
    BY <2>1, MaxIsGreatest, MaxFileWordsType
  <2> HIDE DEF size
  <2> QED BY <1>2, <1>3, <2>2
<1> HIDE DEF size
<1>5. /\ vol'.bmap = vol.bmap /\ vol'.imap = vol.imap /\ vol'.blk = vol.blk
      /\ vol'.end = vol.end /\ vol'.bfree = vol.bfree /\ vol'.ifree = vol.ifree
      /\ \A j \in Inodes : /\ vol'.itab[j].type = vol.itab[j].type
                           /\ vol'.itab[j].ptr = vol.itab[j].ptr
                           /\ j # i => vol'.itab[j].size = vol.itab[j].size
      /\ vol'.itab[i].size = size
  BY <1>1, <1>2 DEF VolOK, Volumes, Inode
<1>6. /\ \A f \in 1 .. MaxOpen : f # cmd.slot => files'[f] = files[f]
      /\ files'[cmd.slot] = [files[cmd.slot] EXCEPT !.off = cmd.off]
  BY <1>1, <1>2 DEF TypesBesideVol
<1>7. cmd.op = "write" /\ cmd.left = 0 /\ cmd' = AtPrompt
  BY <1>1
<1>8. vol'.itab[i].size = IF cmd.off > vol.itab[i].size THEN cmd.off ELSE vol.itab[i].size
  BY <1>4, <1>5
<1> QED BY <1>5, <1>6, <1>7, <1>8 DEF i

\* A word that was written stays unless it is written again.
LEMMA TextKept ==
  ASSUME NEW v, NEW u, VolOK(v), VolOK(u), NEW i \in Inodes, Keeps(v, u, i, 0),
         NEW x \in Nat, x < MaxFileWords, NEW d, TextAt(v, i, x, d),
         NEW b, b = v.itab[i].ptr[x \div Slots],
         u.blk[b][(x % Slots) + 1] = v.blk[b][(x % Slots) + 1]
  PROVE  TextAt(u, i, x, d)
<1>1. x \div Slots \in Index
  BY PlaceIndex
<1>2. v.itab[i].ptr[x \div Slots] # 0 /\ SameInode(v, u, i) /\ v.end <= u.end
  BY DEF TextAt, Keeps, Inodes
<1>3. u.itab[i].ptr[x \div Slots] = b /\ b # 0
  BY <1>1, <1>2 DEF SameInode
<1>4. b \in Nat /\ v.end \in Nat /\ u.end \in Nat
  BY <1>1, VolumeAssumption DEF VolOK, Volumes, Inode
<1>5. Readable(u, b)
  BY <1>2, <1>4 DEF TextAt, Readable
<1> QED BY <1>3, <1>5 DEF TextAt

LEMMA InitFInv == Init => FInv
<1> SUFFICES ASSUME Init PROVE FInv
  OBVIOUS
<1>1. cmd.op # "write"
  BY DEF Init, AtPrompt
<1>2. FreeUntyped(FormattedVolume)
  <2>1. /\ FormattedVolume.imap = {1, RootIno}
        /\ \A i \in Inodes : i # RootIno => FormattedVolume.itab[i] = ZeroInode
    BY DEF FormattedVolume, MountCounters
  <2>2. ZeroInode.type = "none"
    BY DEF ZeroInode, NewInode
  <2> QED BY <2>1, <2>2 DEF FreeUntyped
<1> QED BY <1>1, <1>2, InitInv DEF FInv, WriteProgress, Init

LEMMA FreeStaysUntyped ==
  ASSUME VolOK(vol), TypesBesideVol, FreeUntyped(vol), [Next]_vars
  PROVE  FreeUntyped(vol')
<1>1. CASE WriteStep
  <2>1. Keeps(vol, vol', files[cmd.slot].ino, 0)
    BY <1>1, WriteStepWrites
  <2> QED BY <2>1 DEF FreeUntyped, Keeps, SameInode, Inodes
<1>2. CASE FinishWrite
  <2>1. vol'.imap = vol.imap /\ \A j \in Inodes : vol'.itab[j].type = vol.itab[j].type
    BY <1>2, FinishWriteEnds
  <2> QED BY <2>1 DEF FreeUntyped
<1>3. CASE ~WriteStep /\ ~FinishWrite
  <2>1. PICK d, i : NamespaceMove(d, i)
    BY <1>3, StepsMove
  <2>2. NamespaceStep(vol, vol', d, i)
    BY <2>1 DEF NamespaceMove
  <2> QED BY <2>2 DEF NamespaceStep, FreeUntyped, Keeps, SameInode
<1> QED BY <1>1, <1>2, <1>3

LEMMA WriteStaysInPlace ==
  ASSUME VolOK(vol), TypesBesideVol, VolOK(vol'), WriteProgress, [Next]_vars
  PROVE  WriteProgress'
<1> SUFFICES ASSUME cmd'.op = "write"
             PROVE  /\ files'[cmd'.slot].off <= cmd'.off
                    /\ \A x \in files'[cmd'.slot].off .. cmd'.off - 1 :
                         TextAt(vol', files'[cmd'.slot].ino, x, cmd'.data)
  BY DEF WriteProgress
<1>1. CASE UNCHANGED vars
  BY <1>1 DEF vars, WriteProgress
<1>2. CASE StartWrite
  <2>1. PICK f \in 1 .. MaxOpen, n \in 1 .. MaxTransfer, d \in Data :
          files[f].open /\ cmd' = Writing(f, d, files[f].off, n) /\ files' = files
    BY <1>2 DEF StartWrite
  <2>2. files[f].off \in Nat
    BY <2>1, OpenFileType, MaxFileWordsType DEF TypesBesideVol
  <2>3. cmd'.slot = f /\ cmd'.off = files[f].off
    BY <2>1 DEF Writing
  <2> QED BY <2>1, <2>2, <2>3
<1>3. CASE WriteStep
  <2> DEFINE i   == files[cmd.slot].ino
             off == files[cmd.slot].off
  <2>1. /\ cmd.op = "write" /\ files' = files /\ Keeps(vol, vol', i, 0)
        /\ cmd'.slot = cmd.slot /\ cmd'.data = cmd.data
    BY <1>3, WriteStepWrites
  <2>2. PICK n \in 0 .. cmd.left :
          /\ cmd'.off = cmd.off + n
          /\ \A x \in cmd.off .. cmd.off + n - 1 : TextAt(vol', i, x, cmd.data)
          /\ \A x \in Nat : x < MaxFileWords /\ x \notin cmd.off .. cmd.off + n - 1
                            /\ vol.itab[i].ptr[x \div Slots] # 0
               => LET b == vol.itab[i].ptr[x \div Slots]
                  IN  vol'.blk[b][(x % Slots) + 1] = vol.blk[b][(x % Slots) + 1]
    BY <1>3, WriteStepWrites
  <2>3. /\ i \in Inodes /\ off \in Nat /\ cmd.off \in Nat /\ cmd.left \in Nat
        /\ cmd.off + cmd.left <= MaxFileWords
    BY <2>1, WriteRuns
  <2>4. off <= cmd.off /\ \A x \in off .. cmd.off - 1 : TextAt(vol, i, x, cmd.data)
    BY <2>1 DEF WriteProgress
  <2> HIDE DEF i, off
  <2>5. off <= cmd'.off
    BY <2>2, <2>3, <2>4
  <2>6. ASSUME NEW x \in off .. cmd'.off - 1 PROVE TextAt(vol', i, x, cmd.data)
    <3>1. CASE x >= cmd.off
      BY <2>2, <2>3, <3>1
    <3>2. CASE x < cmd.off
      <4>1. x \in off .. cmd.off - 1 /\ x \in Nat /\ x < MaxFileWords
        BY <2>3, <3>2, MaxFileWordsType
      <4>2. x \notin cmd.off .. cmd.off + n - 1
        BY <2>3, <3>2
      <4>3. TextAt(vol, i, x, cmd.data)
        BY <2>4, <4>1
      <4>4. vol.itab[i].ptr[x \div Slots] # 0
        BY <4>3 DEF TextAt
      <4> QED BY <2>1, <2>2, <2>3, <4>1, <4>2, <4>3, <4>4, TextKept
    <3> QED BY <2>2, <2>3, <3>1, <3>2
  <2> QED BY <2>1, <2>5, <2>6 DEF i, off
<1>4. CASE FinishWrite \/ Restart
  BY <1>4, PromptType DEF FinishWrite, Restart
<1>5. CASE cmd = AtPrompt /\ cmd' = cmd
  BY <1>5, PromptType
<1>6. CASE StartMkdir \/ MkdirStep
  <2>1. cmd'.op # "write"
    <3>1. CASE StartMkdir
      BY <3>1 DEF StartMkdir, Mkdir
    <3>2. CASE MkdirStep
      BY <3>2, PromptType, MkdirType DEF MkdirStep, TypesBesideVol, CmdType
    <3> QED BY <1>6, <3>1, <3>2
  <2> QED BY <2>1
<1>7. CASE \/ Login \/ Logout \/ Mount \/ Create \/ Delete \/ Rmdir \/ Cd
           \/ Open \/ Close \/ Read \/ Lseek
  <2>1. cmd = AtPrompt /\ cmd' = cmd
    BY <1>7 DEF Login, Logout, Mount, Create, Delete, Rmdir, Cd, Open, Close, Read, Lseek,
                Session, Prompt
  <2> QED BY <1>5, <2>1
<1> QED BY <1>1, <1>2, <1>3, <1>4, <1>6, <1>7 DEF Next

LEMMA NextFInv == FInv /\ [Next]_vars => FInv'
<1> SUFFICES ASSUME FInv, [Next]_vars PROVE FInv'
  OBVIOUS
<1>1. VolOK(vol) /\ TypesBesideVol /\ IInv'
  BY IInvParts, NextInv DEF FInv
<1>2. VolOK(vol')
  BY <1>1, OwnershipIsOwned DEF IInv, TypeOK, BlockOwnership, VolOK
<1>3. FreeUntyped(vol')
  BY <1>1, FreeStaysUntyped DEF FInv
<1>4. WriteProgress'
  BY <1>1, <1>2, WriteStaysInPlace DEF FInv
<1> QED BY <1>1, <1>3, <1>4 DEF FInv, FreeUntyped

----------------------------------------------------------------------------
(* What a step does to a file *)

\* The parts of FInv in the form the lemmas take them.
LEMMA FInvParts ==
  FInv => /\ VolOK(vol) /\ TypesBesideVol /\ FreeUntyped(vol) /\ WriteProgress
          /\ files \in [1 .. MaxOpen -> FileType]
  BY IInvParts DEF FInv, TypesBesideVol

\* A regular file before and after is not the inode that a command makes or
\* removes.
LEMMA FilesOutliveMoves ==
  ASSUME FreeUntyped(vol), NEW d, NEW i, NamespaceMove(d, i), NEW j \in Inodes,
         is_regular_file(vol, j), is_regular_file(vol', j)
  PROVE  j # i /\ SameInode(vol, vol', j) /\ (j # d => SameFile(vol, vol', j))
<1>1. NamespaceStep(vol, vol', d, i)
  BY DEF NamespaceMove
<1>2. vol.itab[j].type = "reg" /\ vol'.itab[j].type = "reg"
  BY DEF is_regular_file, IsType
<1>3. j # i
  BY <1>1, <1>2 DEF NamespaceStep, FreeUntyped
<1> QED BY <1>1, <1>3 DEF NamespaceStep, Keeps

\* A file's blocks are what they were.
LEMMA SameBlocks ==
  ASSUME NEW v, NEW u, NEW j, SameFile(v, u, j)
  PROVE  FileBlocks(u, j) = FileBlocks(v, j)
<1>1. \A k \in Index : /\ u.itab[j].ptr[k] = v.itab[j].ptr[k]
                       /\ v.itab[j].ptr[k] # 0 =>
                            u.blk[u.itab[j].ptr[k]] = v.blk[v.itab[j].ptr[k]]
  BY DEF SameFile
<1> QED BY <1>1 DEF FileBlocks, get_inode_block

\* Only entries are cleared in them.
LEMMA ClearedBlocks ==
  ASSUME NEW v, NEW u, NEW j, OnlyClears(v, u, j), NEW k \in Index
  PROVE  EntriesCleared(FileBlocks(v, j)[k], FileBlocks(u, j)[k])
<1> DEFINE b == v.itab[j].ptr[k]
<1>1. u.itab[j].ptr[k] = b
  BY DEF OnlyClears
<1>2. /\ FileBlocks(v, j)[k] = IF b = 0 THEN ZeroBlock ELSE v.blk[b]
      /\ FileBlocks(u, j)[k] = IF b = 0 THEN ZeroBlock ELSE u.blk[b]
  BY <1>1 DEF FileBlocks, get_inode_block
<1>3. ASSUME b # 0, NEW s \in Slot
      PROVE  \/ u.blk[b][s] = v.blk[b][s]
             \/ v.blk[b][s].tag = "entry" /\ u.blk[b][s] = Zero
  BY <1>3 DEF OnlyClears
<1> HIDE DEF b
<1> QED BY <1>2, <1>3 DEF EntriesCleared

LEMMA FilesKeepTheirWords ==
  ASSUME FInv, [Next]_vars, NEW i \in Inodes,
         is_regular_file(vol, i), is_regular_file(vol', i)
  PROVE  \/ FileBlocks(vol', i) = FileBlocks(vol, i)
         \/ cmd.op = "write" /\ files[cmd.slot].ino = i
         \/ /\ cmd = AtPrompt
            /\ \E p \in DeletePaths \cup RmdirPaths : i = get_parent_inode(vol, cwd, p)
            /\ \A k \in Index : EntriesCleared(FileBlocks(vol, i)[k], FileBlocks(vol', i)[k])
<1>1. VolOK(vol) /\ TypesBesideVol /\ FreeUntyped(vol)
  BY FInvParts
<1>2. CASE WriteStep
  <2>1. cmd.op = "write" /\ Keeps(vol, vol', files[cmd.slot].ino, 0)
    BY <1>1, <1>2, WriteStepKeeps
  <2>2. CASE files[cmd.slot].ino # i
    <3>1. SameFile(vol, vol', i)
      BY <2>1, <2>2 DEF Keeps, Inodes
    <3> QED BY <3>1, SameBlocks
  <2> QED BY <2>1, <2>2
<1>3. CASE FinishWrite
  <2>1. vol'.blk = vol.blk /\ vol'.itab[i].ptr = vol.itab[i].ptr
    BY <1>1, <1>3, FinishWriteEnds
  <2> QED BY <2>1 DEF FileBlocks, get_inode_block
<1>4. CASE ~WriteStep /\ ~FinishWrite
  <2>1. PICK d, j : NamespaceMove(d, j)
    BY <1>1, <1>4, StepsMove
  <2>2. i # j /\ (i # d => SameFile(vol, vol', i))
    BY <1>1, <2>1, FilesOutliveMoves
  <2>3. CASE i # d
    BY <2>2, <2>3, SameBlocks
  <2>4. CASE i = d
    <3>1. ~is_directory(vol, d) /\ d # 0
      BY <2>4 DEF is_directory, is_regular_file, IsType, Inodes
    <3>2. ClearsBelow(d, j)
      BY <2>1, <3>1 DEF NamespaceMove
    <3>3. /\ cmd = AtPrompt
          /\ \E p \in DeletePaths \cup RmdirPaths : i = get_parent_inode(vol, cwd, p)
          /\ OnlyClears(vol, vol', i)
      BY <2>2, <2>4, <3>2 DEF ClearsBelow
    <3> QED BY <3>3, ClearedBlocks
  <2> QED BY <2>3, <2>4
<1> QED BY <1>2, <1>3, <1>4

\* Whatever the sizes and the paths given to the commands, the words of a regular
\* file change in a write to this file alone, and a delete or a rmdir that goes
\* through the file clears leftover entries and nothing that was written.
THEOREM FilesKeptApart == Spec => FilesChangeOnlyByTheirWrites
<1>1. FInv /\ [Next]_vars =>
        [\A i \in Inodes :
           is_regular_file(vol, i) /\ is_regular_file(vol', i) =>
             \/ FileBlocks(vol', i) = FileBlocks(vol, i)
             \/ cmd.op = "write" /\ files[cmd.slot].ino = i
             \/ /\ cmd = AtPrompt
                /\ \E p \in DeletePaths \cup RmdirPaths : i = get_parent_inode(vol, cwd, p)
                /\ \A k \in Index : EntriesCleared(FileBlocks(vol, i)[k],
                                                   FileBlocks(vol', i)[k])]_vars
  BY FilesKeepTheirWords
<1> QED BY <1>1, InitFInv, NextFInv, PTL DEF Spec, FilesChangeOnlyByTheirWrites

LEMMA NoNewHoles ==
  ASSUME FInv, [Next]_vars, NEW i \in Inodes, Missing(vol', i), ~Missing(vol, i)
  PROVE  /\ cmd.op = "write" /\ files[cmd.slot].ino = i
         /\ files[cmd.slot].off > vol.itab[i].size
<1>1. /\ VolOK(vol) /\ TypesBesideVol /\ FreeUntyped(vol) /\ WriteProgress
  BY FInvParts
<1>2. PICK x \in 0 .. vol'.itab[i].size - 1 : vol'.itab[i].ptr[x \div Slots] = 0
  BY DEF Missing, get_inode_block
<1>3. vol.itab[i].size \in 0 .. MaxFileWords /\ MaxFileWords \in Nat
  BY <1>1, MaxFileWordsType DEF VolOK, Volumes, Inode
<1>4. \A y \in 0 .. vol.itab[i].size - 1 : /\ y \in Nat /\ y \div Slots \in Index
                                           /\ vol.itab[i].ptr[y \div Slots] # 0
  <2> TAKE y \in 0 .. vol.itab[i].size - 1
  <2>1. y \in Nat /\ y < MaxFileWords
    BY <1>3
  <2>2. y \div Slots \in Index
    BY <2>1, PlaceIndex
  <2>3. vol.itab[i].ptr[y \div Slots] # 0
    BY DEF Missing, get_inode_block
  <2> QED BY <2>1, <2>2, <2>3
<1>5. ASSUME SameInode(vol, vol', i) PROVE FALSE
  <2>1. vol'.itab[i].size = vol.itab[i].size
    BY <1>5 DEF SameInode
  <2>2. x \div Slots \in Index /\ vol.itab[i].ptr[x \div Slots] # 0
    BY <1>2, <1>4, <2>1
  <2>3. vol'.itab[i].ptr[x \div Slots] = vol.itab[i].ptr[x \div Slots]
    BY <1>5, <2>2 DEF SameInode
  <2> QED BY <1>2, <2>2, <2>3
<1>6. CASE WriteStep
  <2>1. Keeps(vol, vol', files[cmd.slot].ino, 0)
    BY <1>1, <1>6, WriteStepKeeps
  <2>2. SameInode(vol, vol', i)
    BY <2>1 DEF Keeps, Inodes
  <2> QED BY <1>5, <2>2
<1>7. CASE FinishWrite
  <2> DEFINE j == files[cmd.slot].ino
  <2>1. /\ cmd.op = "write"
        /\ vol'.imap = vol.imap
        /\ vol'.itab[i].type = vol.itab[i].type
        /\ vol'.itab[i].ptr = vol.itab[i].ptr
        /\ i # j => vol'.itab[i].size = vol.itab[i].size
        /\ vol'.itab[j].size = IF cmd.off > vol.itab[j].size THEN cmd.off
                               ELSE vol.itab[j].size
    BY <1>1, <1>7, FinishWriteEnds
  <2>2. vol'.itab[i].size # vol.itab[i].size
    BY <1>5, <2>1 DEF SameInode
  <2>3. i = j /\ vol'.itab[i].size = cmd.off
    BY <2>1, <2>2
  <2>4. files[cmd.slot].off \in Nat /\ cmd.off \in Nat
    BY <1>1, <2>1, WriteRuns
  <2>5. \A y \in files[cmd.slot].off .. cmd.off - 1 : vol.itab[j].ptr[y \div Slots] # 0
    <3>1. \A y \in files[cmd.slot].off .. cmd.off - 1 : TextAt(vol, j, y, cmd.data)
      BY <1>1, <2>1 DEF WriteProgress
    <3> HIDE DEF j
    <3> QED BY <3>1 DEF TextAt
  <2> HIDE DEF j
  <2>6. x \notin 0 .. vol.itab[i].size - 1 /\ x \notin files[cmd.slot].off .. cmd.off - 1
    BY <1>2, <1>4, <2>1, <2>3, <2>5
  <2>7. files[cmd.slot].off > vol.itab[i].size
    BY <1>2, <1>3, <2>3, <2>4, <2>6
  <2> QED BY <2>1, <2>3, <2>7 DEF j
<1>8. CASE ~WriteStep /\ ~FinishWrite
  <2>1. PICK d, j : NamespaceMove(d, j)
    BY <1>1, <1>8, StepsMove
  <2>2. NamespaceStep(vol, vol', d, j)
    BY <2>1 DEF NamespaceMove
  <2>3. i # j
    BY <1>2, <2>2 DEF NamespaceStep
  <2>4. SameInode(vol, vol', i)
    BY <2>2, <2>3 DEF NamespaceStep, Keeps
  <2> QED BY <1>5, <2>4
<1> QED BY <1>6, <1>7, <1>8

\* Whatever the sizes, a write that breaks off or is killed leaves no hole below
\* the size of the file; only a descriptor that stood beyond the size does.
THEOREM NoHolesBelowTheSize == Spec => HolesOnlyFromStaleOffsets
<1>1. FInv /\ [Next]_vars =>
        [\A i \in Inodes : Missing(vol', i) /\ ~Missing(vol, i) =>
           /\ cmd.op = "write" /\ files[cmd.slot].ino = i
           /\ files[cmd.slot].off > vol.itab[i].size]_vars
  BY NoNewHoles
<1> QED BY <1>1, InitFInv, NextFInv, PTL DEF Spec, HolesOnlyFromStaleOffsets

\* What a read returns: the words from the offset up to n of them, the size, or
\* the first that is not there.
LEMMA ReadCountStops ==
  ASSUME NEW v, VolOK(v), NEW i \in Inodes, NEW off \in 0 .. MaxFileWords, NEW n \in Nat
  PROVE  LET Present(x) == /\ v.itab[i].ptr[x \div Slots] # 0
                           /\ Readable(v, v.itab[i].ptr[x \div Slots])
             c == ReadCount(v, i, off, n)
         IN  /\ c \in 0 .. n
             /\ \A x \in off .. off + c - 1 : x < v.itab[i].size /\ Present(x)
             /\ c = n \/ off + c >= v.itab[i].size \/ ~Present(off + c)
<1> DEFINE Present(x) == /\ v.itab[i].ptr[x \div Slots] # 0
                         /\ Readable(v, v.itab[i].ptr[x \div Slots])
           S == {c \in 0 .. n : \A x \in off .. off + c - 1 : x < v.itab[i].size /\ Present(x)}
           c == ReadCount(v, i, off, n)
<1>1. off \in Nat /\ v.itab[i].size \in Nat
  BY MaxFileWordsType DEF VolOK, Volumes, Inode
<1>2. S \subseteq 0 .. n /\ 0 \in S
  BY <1>1
<1>3. c = Max(S)
  BY DEF ReadCount, get_inode_block
<1> HIDE DEF c
<1>4. c \in S /\ \A y \in S : y <= c
  <2> HIDE DEF S
  <2> QED BY <1>2, <1>3, MaxIsGreatest
<1>5. ASSUME c # n, off + c < v.itab[i].size, Present(off + c) PROVE FALSE
  <2> HIDE DEF Present
  <2>1. c + 1 \in 0 .. n /\ c \in Nat
    BY <1>4, <1>5
  <2>2. ASSUME NEW x \in off .. off + (c + 1) - 1 PROVE x < v.itab[i].size /\ Present(x)
    <3>1. x \in off .. off + c - 1 \/ x = off + c
      BY <1>1, <2>1
    <3> QED BY <1>4, <1>5, <3>1
  <2>3. c + 1 \in S
    BY <2>1, <2>2
  <2> HIDE DEF S
  <2> QED BY <1>4, <2>1, <2>3
<1>6. c \in 0 .. n /\ \A x \in off .. off + c - 1 : x < v.itab[i].size /\ Present(x)
  BY <1>4
<1>7. c = n \/ off + c >= v.itab[i].size \/ ~Present(off + c)
  <2> HIDE DEF Present, S
  <2> QED BY <1>1, <1>5, <1>6
<1> QED BY <1>6, <1>7 DEF c

\* The table of open files after a step: only one place of it changes, and only by
\* a command on it.
LEMMA DescriptorMoves ==
  ASSUME VolOK(vol), TypesBesideVol, [Next]_vars, ~FinishWrite,
         NEW f \in 1 .. MaxOpen, files[f].open, files'[f].open
  PROVE  \/ files'[f] = files[f]
         \/ /\ vol' = vol /\ files'[f].ino = files[f].ino
            /\ \/ files'[f].off \in 0 .. vol.itab[files[f].ino].size
               \/ \E n \in Nat : files'[f].off = files[f].off
                                  + ReadCount(vol, files[f].ino, files[f].off, n)
<1>0. files \in [1 .. MaxOpen -> FileType] /\ ~NoFile.open
  BY DEF TypesBesideVol, NoFile
<1>1. CASE Open
  <2>1. PICK p \in OpenPaths, flags \in OpenFlags :
          LET i    == path_to_inode(vol, cwd, p)
              free == {g \in 1 .. MaxOpen : ~files[g].open}
          IN  free # {} /\ files' = [files EXCEPT ![Min(free)] = File(i, flags, 0)]
    BY <1>1 DEF Open
  <2> DEFINE free == {g \in 1 .. MaxOpen : ~files[g].open}
  <2>2. free \subseteq Nat /\ free # {}
    BY <2>1
  <2>3. Min(free) \in free
    BY <2>2, MinIsLeast
  <2>4. f # Min(free)
    BY <2>3
  <2> HIDE DEF free
  <2>5. files' = [files EXCEPT ![Min(free)] = File(path_to_inode(vol, cwd, p), flags, 0)]
    BY <2>1 DEF free
  <2> QED BY <1>0, <2>4, <2>5
<1>2. CASE Close
  <2>1. PICK g \in 1 .. MaxOpen : files' = [files EXCEPT ![g] = NoFile]
    BY <1>2 DEF Close
  <2> QED BY <1>0, <2>1
<1>3. CASE Read
  <2>1. PICK g \in 1 .. MaxOpen, n \in 1 .. MaxTransfer :
          /\ files[g].open /\ vol' = vol
          /\ files' = [files EXCEPT ![g] = [files[g] EXCEPT !.off =
                         files[g].off + ReadCount(vol, files[g].ino, files[g].off, n)]]
    BY <1>3 DEF Read
  <2> DEFINE to == files[g].off + ReadCount(vol, files[g].ino, files[g].off, n)
  <2>2. CASE g # f
    BY <1>0, <2>1, <2>2
  <2>3. CASE g = f
    <3>1. files'[f] = [files[f] EXCEPT !.off = to]
      BY <1>0, <2>1, <2>3
    <3>2. files'[f].off = to /\ files'[f].ino = files[f].ino
      BY <1>0, <3>1, OpenFields
    <3>3. n \in Nat
      OBVIOUS
    <3> QED BY <2>1, <2>3, <3>2, <3>3
  <2> QED BY <2>2, <2>3
<1>4. CASE Lseek
  <2>1. PICK g \in 1 .. MaxOpen :
          /\ files[g].open /\ vol' = vol
          /\ \E off \in 0 .. vol.itab[files[g].ino].size :
               files' = [files EXCEPT ![g] = [files[g] EXCEPT !.off = off]]
    BY <1>4 DEF Lseek
  <2>2. PICK off \in 0 .. vol.itab[files[g].ino].size :
          files' = [files EXCEPT ![g] = [files[g] EXCEPT !.off = off]]
    BY <2>1
  <2>3. CASE g # f
    BY <1>0, <2>2, <2>3
  <2>4. CASE g = f
    <3>1. files'[f] = [files[f] EXCEPT !.off = off]
      BY <1>0, <2>2, <2>4
    <3>2. files'[f].off = off /\ files'[f].ino = files[f].ino
      BY <1>0, <3>1, OpenFields
    <3> QED BY <2>1, <2>2, <2>4, <3>2
  <2> QED BY <2>3, <2>4
<1>5. CASE Mount \/ Restart
  <2>1. files' = [g \in 1 .. MaxOpen |-> NoFile]
    BY <1>5 DEF Mount, Restart
  <2> QED BY <1>0, <2>1
<1>6. CASE \/ Login \/ Logout \/ Create \/ Delete \/ StartMkdir \/ MkdirStep \/ Rmdir \/ Cd
           \/ StartWrite \/ WriteStep \/ UNCHANGED vars
  <2>1. files' = files
    BY <1>6 DEF Login, Logout, Create, Delete, StartMkdir, MkdirStep, Rmdir, Cd, StartWrite,
                WriteStep, vars
  <2> QED BY <2>1
<1> QED BY <1>1, <1>2, <1>3, <1>4, <1>5, <1>6 DEF Next

LEMMA OffsetsStayWithin ==
  ASSUME FInv, [Next]_vars, NEW f \in 1 .. MaxOpen,
         files[f].open, ~Beyond(vol, files[f]), files'[f].open, Beyond(vol', files'[f])
  PROVE  files[f].ino \notin vol.imap \cap vol'.imap
<1> DEFINE i == files[f].ino
<1>1. /\ VolOK(vol) /\ TypesBesideVol /\ FreeUntyped(vol)
      /\ files \in [1 .. MaxOpen -> FileType]
  BY FInvParts
<1>2. i \in Inodes /\ files[f].off \in 0 .. MaxFileWords /\ files[f].off \in Nat
  BY <1>1, OpenFileType, MaxFileWordsType
<1>3. vol.itab[i].size \in Nat /\ files[f].off <= vol.itab[i].size
  BY <1>1, <1>2, MaxFileWordsType DEF VolOK, Volumes, Inode, Beyond
<1>4. CASE FinishWrite
  <2> DEFINE j == files[cmd.slot].ino
  <2>1. /\ cmd.op = "write"
        /\ i # j => vol'.itab[i].size = vol.itab[i].size
        /\ vol'.itab[j].size = IF cmd.off > vol.itab[j].size THEN cmd.off
                               ELSE vol.itab[j].size
        /\ f # cmd.slot => files'[f] = files[f]
        /\ files'[cmd.slot] = [files[cmd.slot] EXCEPT !.off = cmd.off]
    BY <1>1, <1>2, <1>4, FinishWriteEnds
  <2>2. /\ cmd.slot \in 1 .. MaxOpen /\ files[cmd.slot].open /\ cmd.off \in Nat
    BY <1>1, <2>1, WriteRuns
  <2>3. CASE f = cmd.slot
    <3>1. files'[f].off = cmd.off /\ files'[f].ino = i
      <4>1. files'[f] = [files[f] EXCEPT !.off = cmd.off]
        BY <2>1, <2>3
      <4>2. /\ [files[f] EXCEPT !.off = cmd.off].off = cmd.off
            /\ [files[f] EXCEPT !.off = cmd.off].ino = files[f].ino
        BY <1>1, OpenFields
      <4> QED BY <4>1, <4>2
    <3>2. vol'.itab[i].size = IF cmd.off > vol.itab[i].size THEN cmd.off ELSE vol.itab[i].size
      BY <2>1, <2>3
    <3>3. files'[f].off > vol'.itab[i].size
      BY <3>1 DEF Beyond
    <3> HIDE DEF i
    <3> QED BY <1>3, <2>2, <3>1, <3>2, <3>3
  <2>4. CASE f # cmd.slot
    <3>1. files[f].off > vol'.itab[i].size
      BY <2>1, <2>4 DEF Beyond
    <3>2. \/ vol'.itab[i].size = vol.itab[i].size
          \/ vol'.itab[i].size = cmd.off /\ cmd.off > vol.itab[i].size
      BY <2>1
    <3> HIDE DEF i
    <3> QED BY <1>2, <1>3, <2>2, <3>1, <3>2
  <2> QED BY <2>3, <2>4
<1>5. CASE ~FinishWrite /\ files'[f] = files[f]
  <2>1. vol'.itab[i].size # vol.itab[i].size
    BY <1>3, <1>5 DEF Beyond
  <2>2. ~SameInode(vol, vol', i)
    BY <2>1 DEF SameInode
  <2>3. CASE WriteStep
    BY <1>1, <1>2, <2>2, <2>3, WriteStepKeeps DEF Keeps, Inodes
  <2>4. CASE ~WriteStep
    <3>1. PICK d, j : NamespaceMove(d, j)
      BY <1>1, <1>5, <2>4, StepsMove
    <3>2. NamespaceStep(vol, vol', d, j)
      BY <3>1 DEF NamespaceMove
    <3>3. i = j
      BY <1>2, <2>2, <3>2 DEF NamespaceStep, Keeps
    <3> QED BY <1>2, <3>2, <3>3 DEF NamespaceStep
  <2> QED BY <2>3, <2>4
<1>6. CASE ~FinishWrite /\ files'[f] # files[f]
  <2>1. /\ vol' = vol /\ files'[f].ino = i
        /\ \/ files'[f].off \in 0 .. vol.itab[i].size
           \/ \E n \in Nat : files'[f].off = files[f].off + ReadCount(vol, i, files[f].off, n)
    BY <1>1, <1>6, DescriptorMoves
  <2>2. files'[f].off > vol.itab[i].size
    BY <2>1 DEF Beyond
  <2>3. PICK n \in Nat : files'[f].off = files[f].off + ReadCount(vol, i, files[f].off, n)
    BY <1>3, <2>1, <2>2
  <2> DEFINE c == ReadCount(vol, i, files[f].off, n)
  <2>4. /\ c \in 0 .. n
        /\ \A x \in files[f].off .. files[f].off + c - 1 : x < vol.itab[i].size
    BY <1>1, <1>2, ReadCountStops
  <2> HIDE DEF c, i
  <2>5. files'[f].off = files[f].off + c
    BY <2>3 DEF c
  <2>6. CASE c = 0
    BY <1>2, <1>3, <2>2, <2>5, <2>6
  <2>7. CASE c > 0
    <3>1. files[f].off + c - 1 \in files[f].off .. files[f].off + c - 1
      BY <1>2, <2>4, <2>7
    <3>2. files[f].off + c - 1 < vol.itab[i].size
      BY <2>4, <3>1
    <3> QED BY <1>2, <1>3, <2>2, <2>4, <2>5, <3>2
  <2> QED BY <2>4, <2>6, <2>7
<1> QED BY <1>4, <1>5, <1>6

\* Whatever the sizes, the offset of a descriptor passes the size of its file
\* only when the file is deleted under it, or another takes its inode.
THEOREM OffsetsWithinTheSize == Spec => OffsetsPassSizeOnlyByDelete
<1>1. FInv /\ [Next]_vars =>
        [\A f \in 1 .. MaxOpen :
           /\ files[f].open /\ ~Beyond(vol, files[f])
           /\ files'[f].open /\ Beyond(vol', files'[f])
           => files[f].ino \notin vol.imap \cap vol'.imap]_vars
  BY OffsetsStayWithin
<1> QED BY <1>1, InitFInv, NextFInv, PTL DEF Spec, OffsetsPassSizeOnlyByDelete

----------------------------------------------------------------------------
(* Blocks that are lost *)

LEMMA LostIsUnheld ==
  ASSUME NEW v, VolOK(v), NEW b
  PROVE  b \in LostBlocks(v) <=> b \in v.bmap /\ b \notin 1 .. Reserved /\ ~Held(v, b)
<1>1. ASSUME NEW i \in Inodes, NEW k \in Index, v.itab[i].ptr[k] = b, b # 0
      PROVE  <<i, k>> \in Pointers(v) /\ BlockAt(v, <<i, k>>) = b
  BY <1>1 DEF Pointers, BlockAt
<1>2. ASSUME b \in v.bmap PROVE b # 0
  BY <1>2 DEF VolOK, Volumes, Blocks
<1>3. ASSUME b \in v.bmap, Held(v, b) PROVE b \in BlocksOf(v, v.imap)
  <2>1. PICK i \in v.imap, k \in Index : v.itab[i].ptr[k] = b
    BY <1>3 DEF Held
  <2>2. i \in Inodes
    BY DEF VolOK, Volumes
  <2>3. <<i, k>> \in Pointers(v) /\ BlockAt(v, <<i, k>>) = b /\ <<i, k>>[1] \in v.imap
    BY <1>1, <1>2, <1>3, <2>1, <2>2
  <2> QED BY <2>3 DEF BlocksOf
<1>4. ASSUME b \in BlocksOf(v, v.imap) PROVE Held(v, b)
  BY <1>4 DEF BlocksOf, Pointers, BlockAt, Held
<1> QED BY <1>3, <1>4 DEF LostBlocks

LEMMA NothingElseLosesBlocks ==
  ASSUME FInv, [Next]_vars, NEW b \in LostBlocks(vol') \ LostBlocks(vol)
  PROVE  \/ b > MaxBlocks
         \/ cmd.op = "write" /\ files[cmd.slot].ino \notin vol.imap
         \/ vol.imap = Inodes
<1>1. VolOK(vol) /\ TypesBesideVol /\ FreeUntyped(vol)
  BY FInvParts
<1>2. VolOK(vol')
  <2>1. IInv'
    BY NextFInv DEF FInv
  <2> QED BY <2>1, OwnershipIsOwned DEF IInv, TypeOK, BlockOwnership, VolOK
<1>3. b \in vol'.bmap /\ b \notin 1 .. Reserved /\ ~Held(vol', b)
  BY <1>2, LostIsUnheld
<1>4. b \in vol.bmap => Held(vol, b)
  BY <1>1, <1>3, LostIsUnheld
<1>5. ASSUME NoneLost(vol, vol') PROVE b > MaxBlocks
  <2>1. ~(b <= MaxBlocks)
    BY <1>3, <1>4, <1>5 DEF NoneLost
  <2> QED BY <1>2, <1>3, <2>1, VolumeAssumption DEF VolOK, Volumes, Blocks
<1>6. CASE WriteStep
  BY <1>1, <1>5, <1>6, WriteStepKeeps
<1>7. CASE FinishWrite
  <2>1. vol'.bmap = vol.bmap /\ vol'.imap = vol.imap
        /\ \A j \in Inodes : vol'.itab[j].ptr = vol.itab[j].ptr
    BY <1>1, <1>7, FinishWriteEnds
  <2>2. vol.imap \subseteq Inodes
    BY <1>1 DEF VolOK, Volumes
  <2>3. NoneLost(vol, vol')
    BY <2>1, <2>2 DEF NoneLost, Held
  <2> QED BY <1>5, <2>3
<1>8. CASE ~WriteStep /\ ~FinishWrite
  <2>1. PICK d, j : NamespaceMove(d, j)
    BY <1>1, <1>8, StepsMove
  <2>2. NoneLost(vol, vol') \/ vol.imap = Inodes
    BY <2>1 DEF NamespaceMove, NamespaceStep
  <2> QED BY <1>5, <2>2
<1> QED BY <1>6, <1>7, <1>8

\* Whatever the sizes, a block that no allocated inode names any more is free,
\* but for the three ways the property names.
THEOREM OnlyTheseLoseBlocks == Spec => LostBlocksExplained
<1>1. FInv /\ [Next]_vars =>
        [\A b \in LostBlocks(vol') \ LostBlocks(vol) :
           \/ b > MaxBlocks
           \/ cmd.op = "write" /\ files[cmd.slot].ino \notin vol.imap
           \/ vol.imap = Inodes]_vars
  BY NothingElseLosesBlocks
<1> QED BY <1>1, InitFInv, NextFInv, PTL DEF Spec, LostBlocksExplained

----------------------------------------------------------------------------
(* Counters *)

\* A sum that stays gives the differences the property speaks of.
LEMMA SumToDifference ==
  ASSUME NEW f \in Nat, NEW g \in Nat, NEW S, NEW T, IsFiniteSet(S), IsFiniteSet(T),
         (g + Cardinality(T)) % CountMod = (f + Cardinality(S)) % CountMod
  PROVE  (g - f) % CountMod = Delta(S, T)
<1> DEFINE s == Cardinality(S)
           t == Cardinality(T)
<1>1. s \in Nat /\ t \in Nat /\ CountMod \in Nat \ {0}
  BY FS_CardinalityType, VolumeAssumption
<1> HIDE DEF s, t
<1>2. /\ (g + t) + (-(f + t)) = g - f /\ (f + s) + (-(f + t)) = s - t
      /\ g + t \in Int /\ f + s \in Int /\ -(f + t) \in Int
  BY <1>1
<1>3. (g + t) % CountMod = (f + s) % CountMod
  BY DEF s, t
<1>4. ((g + t) + (-(f + t))) % CountMod = ((f + s) + (-(f + t))) % CountMod
  BY <1>1, <1>2, <1>3, ModShift, Zenon
<1> QED BY ONLY <1>2, <1>4 DEF Delta, s, t

BlocksFollow == (vol'.bfree - vol.bfree) % CountMod = Delta(vol.bmap, vol'.bmap)
InodesFollow == (vol'.ifree - vol.ifree) % CountMod = Delta(vol.imap, vol'.imap)

LEMMA TotalsToDifferences ==
  ASSUME NEW v, NEW u, VolOK(v), VolOK(u)
  PROVE  /\ BlocksTotal(u) = BlocksTotal(v) =>
              (u.bfree - v.bfree) % CountMod = Delta(v.bmap, u.bmap)
         /\ InodesTotal(u) = InodesTotal(v) =>
              (u.ifree - v.ifree) % CountMod = Delta(v.imap, u.imap)
<1>1. /\ IsFiniteSet(v.bmap) /\ IsFiniteSet(u.bmap) /\ IsFiniteSet(v.imap) /\ IsFiniteSet(u.imap)
      /\ v.bfree \in Nat /\ u.bfree \in Nat /\ v.ifree \in Nat /\ u.ifree \in Nat
  BY FiniteMaps
<1>2. \A f, g \in Nat : \A S, T :
        IsFiniteSet(S) /\ IsFiniteSet(T)
        /\ (g + Cardinality(T)) % CountMod = (f + Cardinality(S)) % CountMod
        => (g - f) % CountMod = Delta(S, T)
  BY SumToDifference
<1>3. BlocksTotal(u) = BlocksTotal(v) => (u.bfree - v.bfree) % CountMod = Delta(v.bmap, u.bmap)
  <2>1. \A S, T : IsFiniteSet(S) /\ IsFiniteSet(T)
                 /\ (u.bfree + Cardinality(T)) % CountMod = (v.bfree + Cardinality(S)) % CountMod
                 => (u.bfree - v.bfree) % CountMod = Delta(S, T)
    BY ONLY <1>1, <1>2, Zenon
  <2> QED BY ONLY <1>1, <2>1, Zenon DEF BlocksTotal
<1>4. InodesTotal(u) = InodesTotal(v) => (u.ifree - v.ifree) % CountMod = Delta(v.imap, u.imap)
  <2>1. \A S, T : IsFiniteSet(S) /\ IsFiniteSet(T)
                 /\ (u.ifree + Cardinality(T)) % CountMod = (v.ifree + Cardinality(S)) % CountMod
                 => (u.ifree - v.ifree) % CountMod = Delta(S, T)
    BY ONLY <1>1, <1>2, Zenon
  <2> QED BY ONLY <1>1, <2>1, Zenon DEF InodesTotal
<1> QED BY <1>3, <1>4

LEMMA TotalsFollow ==
  ASSUME VolOK(vol), VolOK(vol')
  PROVE  /\ BlocksTotal(vol') = BlocksTotal(vol) => BlocksFollow
         /\ InodesTotal(vol') = InodesTotal(vol) => InodesFollow
BY TotalsToDifferences, Zenon DEF BlocksFollow, InodesFollow

\* What a delete does when the inode its path leads to is free.
FreedTwice ==
  /\ \E p \in DeletePaths : path_to_inode(vol, cwd, p) \in Inodes \ vol.imap
  /\ vol'.imap = vol.imap
  /\ (vol'.ifree - vol.ifree) % CountMod = 1 % CountMod

LEMMA DeleteFollows ==
  ASSUME VolOK(vol), VolOK(vol'), Delete
  PROVE  BlocksFollow /\ (InodesFollow \/ FreedTwice)
<1>1. PICK p \in DeletePaths :
        LET i == path_to_inode(vol, cwd, p)
            r == remove_directory_entry(vol, get_parent_inode(vol, cwd, p), Last(p.comps))
        IN  i \in Inodes /\ vol' = delete_inode(r.vol, i)
  BY DEF Delete
<1> DEFINE i == path_to_inode(vol, cwd, p)
           v == remove_directory_entry(vol, get_parent_inode(vol, cwd, p), Last(p.comps)).vol
<1>2. i \in Inodes /\ vol' = delete_inode(v, i)
  BY <1>1
<1>3. VolOK(v) /\ CountedInPlace(vol, v)
  BY RemoveEntryOK, RemoveEntryCounted
<1>4. v.ifree = vol.ifree
  BY RemoveEntryCounter
<1> HIDE DEF v
<1>5. /\ BlocksTotal(vol') = BlocksTotal(v)
      /\ i \in v.imap => InodesTotal(vol') = InodesTotal(v)
      /\ vol'.imap = v.imap \ {i} /\ vol'.ifree = (v.ifree + 1) % CountMod
  BY <1>2, <1>3, DeleteInodeCounts
<1>6. BlocksTotal(vol') = BlocksTotal(vol) /\ (i \in vol.imap => InodesTotal(vol') = InodesTotal(vol))
  BY <1>3, <1>5 DEF CountedInPlace, Counted
<1>7. ASSUME i \notin vol.imap PROVE FreedTwice
  <2>1. vol'.imap = vol.imap /\ vol'.ifree = (vol.ifree + 1) % CountMod
    BY <1>3, <1>4, <1>5, <1>7 DEF CountedInPlace
  <2>2. (vol'.ifree - vol.ifree) % CountMod = 1 % CountMod
    <3>1. vol.ifree \in Nat /\ CountMod \in Nat \ {0}
      BY VolumeAssumption DEF VolOK, Volumes
    <3>2. /\ vol.ifree + 1 \in Int /\ -vol.ifree \in Int
          /\ (vol.ifree + 1) + (-vol.ifree) = 1
      BY <3>1
    <3>3. (((vol.ifree + 1) % CountMod) + (-vol.ifree)) % CountMod
            = ((vol.ifree + 1) + (-vol.ifree)) % CountMod
      BY <3>1, <3>2, ModInside, Zenon
    <3>4. vol'.ifree \in Nat
      BY DEF VolOK, Volumes
    <3>5. vol'.ifree - vol.ifree = vol'.ifree + (-vol.ifree)
      BY <3>1, <3>4
    <3> QED BY ONLY <2>1, <3>2, <3>3, <3>5
  <2> QED BY <1>2, <1>7, <2>1, <2>2 DEF FreedTwice
<1> QED BY <1>6, <1>7, TotalsFollow

LEMMA CountersFollow ==
  ASSUME FInv, [Next]_vars
  PROVE  Mount \/ Restart \/ (BlocksFollow /\ (InodesFollow \/ FreedTwice))
<1>1. VolOK(vol) /\ TypesBesideVol /\ FreeUntyped(vol)
  BY FInvParts
<1>2. VolOK(vol')
  <2>1. IInv'
    BY NextFInv DEF FInv
  <2> QED BY <2>1, OwnershipIsOwned DEF IInv, TypeOK, BlockOwnership, VolOK
<1>3. Counted(vol, vol') => BlocksFollow /\ InodesFollow
  BY <1>1, <1>2, TotalsFollow DEF Counted
<1>4. CASE Logout \/ StartMkdir \/ Cd \/ Open \/ Close \/ Read \/ Lseek \/ StartWrite
           \/ UNCHANGED vars
  <2>1. vol' = vol
    BY <1>4 DEF Logout, StartMkdir, Cd, Open, Close, Read, Lseek, StartWrite, vars
  <2> QED BY <1>3, <2>1 DEF Counted
<1>5. CASE Login
  <2>1. vol' = vol \/ vol' = MakeDirectory(vol, RootIno, HomeName).vol
    BY <1>5 DEF Login
  <2>2. HomeName \in AnyName
    BY SessionAssumption DEF AnyName
  <2>3. Counted(vol, MakeDirectory(vol, RootIno, HomeName).vol)
    BY <1>1, <2>2, MakeDirectoryCounted
  <2> QED BY <1>3, <2>1, <2>3 DEF Counted
<1>6. CASE MkdirStep
  <2> DEFINE p == PrefixOf(cmd.path, cmd.level)
  <2>1. cmd \in CmdType /\ cmd.op = "mkdir" /\ cmd.level <= Len(cmd.path.comps)
    BY <1>1, <1>6 DEF MkdirStep, TypesBesideVol
  <2>2. cmd.path \in MkdirPaths /\ cmd.level \in Nat \ {0}
    BY <2>1, MkdirType
  <2>3. cmd.path \in PathType /\ Len(cmd.path.comps) \in Nat
    BY <2>2, SessionAssumption DEF NamingPaths, PathType
  <2>4. Last(p.comps) \in AnyName
    BY <2>1, <2>2, <2>3, PrefixNameType
  <2>5. vol' = MakeDirectory(vol, get_parent_inode(vol, cwd, p), Last(p.comps)).vol
    BY <1>6 DEF MkdirStep
  <2> QED BY <1>1, <1>3, <2>4, <2>5, MakeDirectoryCounted
<1>7. CASE Create
  <2>1. PICK p \in CreatePaths : vol' = NewFile(vol, get_parent_inode(vol, cwd, p), Last(p.comps))
    BY <1>7 DEF Create
  <2>2. Last(p.comps) \in AnyName
    BY LastNameType, SessionAssumption DEF NamingPaths
  <2> QED BY <1>1, <1>3, <2>1, <2>2, NewFileCounted
<1>8. CASE Delete
  BY <1>1, <1>2, <1>8, DeleteFollows
<1>9. CASE Rmdir
  <2>1. PICK p \in RmdirPaths : vol' = delete_directory(vol, cwd, p).vol
    BY <1>9 DEF Rmdir
  <2> QED BY <1>1, <1>3, <2>1, DeleteDirectoryCounted
<1>10. CASE WriteStep
  <2> DEFINE i == files[cmd.slot].ino
  <2>1. /\ cmd.op = "write" /\ cmd.left > 0
        /\ vol' = WriteChunk(vol, i, cmd.off, cmd.left, cmd.data).vol
    BY <1>10 DEF WriteStep, WriteOutcome, WriteNext
  <2>2. i \in Inodes /\ cmd.off \in Nat /\ cmd.left \in Nat /\ cmd.off + cmd.left <= MaxFileWords
    BY <1>1, <2>1, WriteRuns
  <2>3. cmd.off < MaxFileWords
    BY <2>1, <2>2, MaxFileWordsType
  <2> HIDE DEF i
  <2>4. Counted(vol, WriteChunk(vol, i, cmd.off, cmd.left, cmd.data).vol)
    BY <1>1, <2>2, <2>3, WriteChunkCounts
  <2> QED BY <1>3, <2>1, <2>4
<1>11. CASE FinishWrite
  <2>1. /\ vol'.bmap = vol.bmap /\ vol'.imap = vol.imap
        /\ vol'.bfree = vol.bfree /\ vol'.ifree = vol.ifree
    BY <1>1, <1>11, FinishWriteEnds
  <2>2. Counted(vol, vol')
    BY <2>1, SameCounters
  <2> QED BY <1>3, <2>2
<1> QED BY <1>4, <1>5, <1>6, <1>7, <1>8, <1>9, <1>10, <1>11 DEF Next

\* Whatever the sizes and the width of the counters, what status prints moves
\* with the bitmaps between mounts, but for the inode that is freed twice.
THEOREM CountersKeepUp == Spec => CountersFollowBitmaps
<1>1. FInv /\ [Next]_vars =>
        [\/ Mount \/ Restart
         \/ /\ (vol'.bfree - vol.bfree) % CountMod = Delta(vol.bmap, vol'.bmap)
            /\ \/ (vol'.ifree - vol.ifree) % CountMod = Delta(vol.imap, vol'.imap)
               \/ /\ \E p \in DeletePaths : path_to_inode(vol, cwd, p) \in Inodes \ vol.imap
                  /\ vol'.imap = vol.imap
                  /\ (vol'.ifree - vol.ifree) % CountMod = 1 % CountMod]_vars
  BY CountersFollow, Zenon DEF BlocksFollow, InodesFollow, FreedTwice
<1> QED BY <1>1, InitFInv, NextFInv, PTL DEF Spec, CountersFollowBitmaps
=============================================================================
