------------------------ MODULE FileRefinementProofs ------------------------
(***************************************************************************)
(* FileSystem implements AbstractFiles, for every size of the image and    *)
(* all paths given to the commands: the initial states map to the initial  *)
(* state, and every step maps to a step or to a stutter.  The mapping is   *)
(* that of FileRefinement, the invariant FInv of FileSystemProofs.         *)
(***************************************************************************)
EXTENDS FileSystemProofs, FileRefinement

----------------------------------------------------------------------------
(* The files of a volume *)

LEMMA ContentsAre ==
  ASSUME NEW v, VolOK(v), NEW i \in RegularFiles(v)
  PROVE  /\ i \in Inodes /\ v.itab[i].size \in 0 .. MaxFileWords
         /\ i \in DOMAIN Contents(v)
         /\ Len(Contents(v)[i]) = v.itab[i].size
         /\ \A x \in 1 .. v.itab[i].size : Contents(v)[i][x] = WordAt(v, i, x)
<1>1. i \in Inodes /\ v.itab[i].size \in 0 .. MaxFileWords
  BY DEF RegularFiles, is_regular_file, IsType, VolOK, Volumes, Inode
<1> DEFINE n == v.itab[i].size
<1>2. n \in Nat
  BY <1>1, MaxFileWordsType
<1>3. Contents(v)[i] = [x \in 1 .. n |-> WordAt(v, i, x)]
  BY DEF Contents
<1> HIDE DEF n
<1>4. Len(Contents(v)[i]) = n /\ \A x \in 1 .. n : Contents(v)[i][x] = WordAt(v, i, x)
  BY <1>2, <1>3
<1>5. i \in DOMAIN Contents(v)
  BY DEF Contents
<1> QED BY <1>1, <1>3, <1>4, <1>5 DEF n

LEMMA FilesAre == ASSUME NEW v PROVE DOMAIN Contents(v) = RegularFiles(v)
  BY DEF Contents

\* What a place of a file holds.
LEMMA WordType ==
  ASSUME NEW v, VolOK(v), NEW i \in Inodes, NEW x \in 1 .. MaxFileWords
  PROVE  /\ WordAt(v, i, x) \in Data \cup {"hole", "rest"}
         /\ WordAt(v, i, x) = "hole" <=>
              LET b == v.itab[i].ptr[(x - 1) \div Slots]
              IN  b = 0 \/ ~Readable(v, b)
<1> DEFINE k == (x - 1) \div Slots
           s == ((x - 1) % Slots) + 1
           b == v.itab[i].ptr[k]
           w == v.blk[b][s]
<1>1. x - 1 \in Nat /\ x - 1 < MaxFileWords
  BY MaxFileWordsType
<1>2. k \in Index /\ s \in Slot
  BY <1>1, PlaceIndex
<1>3. WordAt(v, i, x) = IF b = 0 \/ ~Readable(v, b) THEN "hole"
                        ELSE IF w.tag = "text" THEN w.data ELSE "rest"
  BY DEF WordAt, get_inode_block
<1> HIDE DEF k, s
<1>4. b \in 0 .. BitmapBits
  BY <1>2 DEF VolOK, Volumes, Inode
<1> HIDE DEF b
<1>5. b # 0 => w \in Word
  BY <1>2, <1>4, VolumeAssumption DEF VolOK, Volumes, Blocks
<1> HIDE DEF w
<1>6. w \in Word /\ w.tag = "text" => w.data \in Data
  BY DEF Word, Zero
<1>7. WordAt(v, i, x) \in Data \cup {"hole", "rest"}
  BY <1>3, <1>5, <1>6
<1>8. WordAt(v, i, x) = "hole" <=> b = 0 \/ ~Readable(v, b)
  BY <1>3, <1>5, <1>6, TextAssumption
<1> QED BY <1>7, <1>8 DEF b, k

\* The word at slot s of the block at index k stays, or is an entry that is
\* cleared.
WordStays(v, u, i, k, s) ==
  v.itab[i].ptr[k] # 0 =>
    LET b == v.itab[i].ptr[k]
    IN  \/ u.blk[b][s] = v.blk[b][s]
        \/ v.blk[b][s].tag = "entry" /\ u.blk[b][s] = Zero
WordsStay(v, u, i) == \A k \in Index, s \in Slot : WordStays(v, u, i, k, s)

\* A place keeps its word, unless it was a hole.
LEMMA WordKept ==
  ASSUME NEW v, NEW u, VolOK(v), VolOK(u), v.end <= u.end, NEW i \in Inodes,
         SameInode(v, u, i), NEW x \in 1 .. MaxFileWords,
         WordStays(v, u, i, (x - 1) \div Slots, ((x - 1) % Slots) + 1)
  PROVE  WordAt(u, i, x) = WordAt(v, i, x) \/ WordAt(v, i, x) = "hole"
<1> DEFINE k == (x - 1) \div Slots
           s == ((x - 1) % Slots) + 1
           b == v.itab[i].ptr[k]
<1>1. x - 1 \in Nat /\ x - 1 < MaxFileWords
  BY MaxFileWordsType
<1>2. k \in Index /\ s \in Slot
  BY <1>1, PlaceIndex
<1>4. b # 0 => u.itab[i].ptr[k] = b
  BY <1>2 DEF SameInode
<1>5. /\ WordAt(v, i, x) = IF b = 0 \/ ~Readable(v, b) THEN "hole"
                           ELSE IF v.blk[b][s].tag = "text" THEN v.blk[b][s].data ELSE "rest"
      /\ WordAt(u, i, x) = LET c == u.itab[i].ptr[k]
                           IN  IF c = 0 \/ ~Readable(u, c) THEN "hole"
                               ELSE IF u.blk[c][s].tag = "text" THEN u.blk[c][s].data ELSE "rest"
  BY DEF WordAt, get_inode_block
<1>6. b \in Nat /\ v.end \in Nat /\ u.end \in Nat
  BY <1>2, VolumeAssumption DEF VolOK, Volumes, Inode
<1>0. WordStays(v, u, i, k, s)
  OBVIOUS
<1> HIDE DEF k, s
<1>3. b # 0 => \/ u.blk[b][s] = v.blk[b][s]
               \/ v.blk[b][s].tag = "entry" /\ u.blk[b][s] = Zero
  BY ONLY <1>0 DEF WordStays
<1> HIDE DEF b
<1>7. Readable(v, b) => Readable(u, b)
  BY <1>6 DEF Readable
<1>8. CASE b = 0 \/ ~Readable(v, b)
  BY <1>5, <1>8
<1>9. CASE b # 0 /\ Readable(v, b)
  <2> DEFINE w == v.blk[b][s]
             z == u.blk[b][s]
  <2>1. /\ WordAt(v, i, x) = IF w.tag = "text" THEN w.data ELSE "rest"
        /\ WordAt(u, i, x) = IF z.tag = "text" THEN z.data ELSE "rest"
    BY <1>4, <1>5, <1>7, <1>9
  <2>2. z = w \/ (w.tag = "entry" /\ z = Zero)
    BY <1>3, <1>9
  <2> HIDE DEF w, z
  <2> QED BY <2>1, <2>2 DEF Zero
<1> QED BY <1>8, <1>9

LEMMA FileKept ==
  ASSUME NEW v, NEW u, VolOK(v), VolOK(u), v.end <= u.end,
         NEW i \in RegularFiles(v), i \in RegularFiles(u), SameInode(v, u, i), WordsStay(v, u, i)
  PROVE  Abstract!Kept(Contents(v)[i], Contents(u)[i])
<1>1. /\ i \in Inodes /\ v.itab[i].size \in 0 .. MaxFileWords
      /\ Len(Contents(v)[i]) = v.itab[i].size
      /\ \A x \in 1 .. v.itab[i].size : Contents(v)[i][x] = WordAt(v, i, x)
  BY ContentsAre
<1>2. u.itab[i].size = v.itab[i].size
  BY DEF SameInode
<1>3. /\ Len(Contents(u)[i]) = v.itab[i].size
      /\ \A x \in 1 .. v.itab[i].size : Contents(u)[i][x] = WordAt(u, i, x)
  BY <1>2, ContentsAre
<1>4. ASSUME NEW x \in 1 .. v.itab[i].size
      PROVE  WordAt(u, i, x) = WordAt(v, i, x) \/ WordAt(v, i, x) = "hole"
  <2> DEFINE k == (x - 1) \div Slots
             s == ((x - 1) % Slots) + 1
  <2>1. x \in 1 .. MaxFileWords /\ x - 1 \in Nat /\ x - 1 < MaxFileWords
    BY <1>1, MaxFileWordsType
  <2>2. k \in Index /\ s \in Slot
    BY <2>1, PlaceIndex
  <2>3. WordStays(v, u, i, k, s)
    BY <2>2 DEF WordsStay
  <2> QED BY <1>1, <2>1, <2>3, WordKept
<1> QED BY <1>1, <1>3, <1>4 DEF Abstract!Kept, Abstract!Hole

\* Volumes with the same tables and blocks have the same files.
LEMMA SameContents ==
  ASSUME NEW v, NEW u, u.imap = v.imap, u.itab = v.itab, u.blk = v.blk, u.end = v.end
  PROVE  Contents(u) = Contents(v)
<1>1. RegularFiles(u) = RegularFiles(v)
  BY DEF RegularFiles, is_regular_file, IsType
<1>2. \A i, x : WordAt(u, i, x) = WordAt(v, i, x)
  BY DEF WordAt, get_inode_block, Readable
<1> QED BY <1>1, <1>2 DEF Contents

----------------------------------------------------------------------------
(* Steps that are not steps of a write *)

\* The inode a step made or removed apart, all files are kept.
LEMMA MoveKeepsOthers ==
  ASSUME VolOK(vol), VolOK(vol'), FreeUntyped(vol), NEW d, NEW i, NamespaceMove(d, i)
  PROVE  Abstract!OthersKept({i})
<1>1. NamespaceStep(vol, vol', d, i) /\ (d = 0 \/ is_directory(vol, d) \/ ClearsBelow(d, i))
  BY DEF NamespaceMove
<1>2. /\ vol.end <= vol'.end
      /\ \A j \in Inodes \ {i} : SameInode(vol, vol', j)
      /\ \A j \in Inodes \ {i, d} : SameFile(vol, vol', j)
  BY <1>1 DEF NamespaceStep, Keeps
<1>3. RegularFiles(vol) \ {i} = RegularFiles(vol') \ {i}
  BY <1>2 DEF RegularFiles, is_regular_file, IsType, SameInode
<1>4. ASSUME NEW j \in RegularFiles(vol) \ {i}
      PROVE  Abstract!Kept(Contents(vol)[j], Contents(vol')[j])
  <2>1. j \in Inodes \ {i} /\ is_regular_file(vol, j) /\ j \in RegularFiles(vol')
    BY <1>3 DEF RegularFiles, is_regular_file, IsType
  <2>2. WordsStay(vol, vol', j)
    <3>1. CASE j # d
      <4>1. SameFile(vol, vol', j)
        BY <1>2, <2>1, <3>1
      <4> QED BY <4>1 DEF SameFile, WordsStay, WordStays
    <3>2. CASE j = d
      <4>1. d # 0 /\ ~is_directory(vol, d)
        BY <2>1, <3>2 DEF is_regular_file, is_directory, IsType, Inodes
      <4>2. OnlyClears(vol, vol', j)
        BY <1>1, <2>1, <3>2, <4>1 DEF ClearsBelow
      <4> QED BY <4>2 DEF OnlyClears, WordsStay, WordStays
    <3> QED BY <3>1, <3>2
  <2> QED BY <1>2, <2>1, <2>2, FileKept
<1>5. DOMAIN Contents(vol) = RegularFiles(vol) /\ DOMAIN Contents(vol') = RegularFiles(vol')
  BY FilesAre
<1> QED BY <1>3, <1>4, <1>5 DEF Abstract!OthersKept

\* A command that touches no descriptor and no write, on names: it makes a file,
\* removes one, or does neither.
LEMMA NamesStep ==
  ASSUME VolOK(vol), VolOK(vol'), FreeUntyped(vol), NEW d, NEW i, NamespaceMove(d, i),
         files' = files, WriteOf(cmd') = WriteOf(cmd)
  PROVE  Abstract!Next
<1>1. Abstract!OthersKept({i})
  BY MoveKeepsOthers
<1>2. UNCHANGED <<Descriptors(files), WriteOf(cmd)>>
  OBVIOUS
<1>3. DOMAIN Contents(vol) = RegularFiles(vol) /\ DOMAIN Contents(vol') = RegularFiles(vol')
  BY FilesAre
<1>4. i \in Inodes => i \notin vol.imap \cap vol'.imap /\ vol'.itab[i].size = 0
  BY DEF NamespaceMove, NamespaceStep
<1>5. \A v : i \in RegularFiles(v) => i \in Inodes /\ i \in v.imap
  BY DEF RegularFiles, is_regular_file, IsType
<1>6. CASE i \in RegularFiles(vol)
  <2>1. i \in Inodes /\ i \notin RegularFiles(vol')
    BY <1>4, <1>5, <1>6
  <2>2. Abstract!Delete
    BY <1>1, <1>2, <1>3, <1>6, <2>1 DEF Abstract!Delete, Abstract!Exists
  <2> QED BY <2>2 DEF Abstract!Next
<1>7. CASE i \in RegularFiles(vol')
  <2>1. i \in Inodes /\ i \notin RegularFiles(vol)
    BY <1>4, <1>5, <1>7
  <2>2. Contents(vol')[i] = <<>>
    <3>1. Contents(vol')[i] = [x \in 1 .. 0 |-> WordAt(vol', i, x)]
      BY <1>4, <1>7, <2>1 DEF Contents
    <3> QED BY <3>1
  <2>3. Abstract!Create
    BY <1>1, <1>2, <1>3, <1>7, <2>1, <2>2 DEF Abstract!Create, Abstract!Exists
  <2> QED BY <2>3 DEF Abstract!Next
<1>8. CASE i \notin RegularFiles(vol) /\ i \notin RegularFiles(vol')
  <2>1. Abstract!OthersKept({})
    <3>1. DOMAIN Contents(vol) \ {i} = DOMAIN Contents(vol) \ {}
          /\ DOMAIN Contents(vol') \ {i} = DOMAIN Contents(vol') \ {}
      BY <1>3, <1>8
    <3> QED BY <1>1, <3>1 DEF Abstract!OthersKept
  <2>2. Abstract!Elsewhere
    BY <1>2, <2>1 DEF Abstract!Elsewhere
  <2> QED BY <2>2 DEF Abstract!Next
<1> QED BY <1>6, <1>7, <1>8

\* A write is not idle.
LEMMA WriteIsBusy ==
  /\ \A c : c.op # "write" => WriteOf(c) = Abstract!Idle
  /\ \A c : c.op = "write" => /\ WriteOf(c) # Abstract!Idle
                              /\ WriteOf(c) = [busy |-> TRUE, fd |-> c.slot, data |-> c.data,
                                               at |-> c.off, left |-> c.left]
<1>1. ASSUME NEW c, c.op = "write" PROVE WriteOf(c) # Abstract!Idle
  <2>1. WriteOf(c).busy = TRUE /\ Abstract!Idle.busy = FALSE
    BY <1>1 DEF WriteOf, Abstract!Idle
  <2> QED BY <2>1
<1> QED BY <1>1 DEF WriteOf, Abstract!Idle

LEMMA NoDescriptors ==
  Descriptors([f \in 1 .. MaxOpen |-> NoFile]) = <<>>
<1> DEFINE fs == [f \in 1 .. MaxOpen |-> NoFile]
           S  == {g \in 1 .. MaxOpen : fs[g].open}
<1>1. S = {}
  BY DEF NoFile
<1> HIDE DEF S
<1>2. Descriptors(fs) = [f \in S |-> [file |-> fs[f].ino, at |-> fs[f].off]]
  BY DEF Descriptors, S
<1> HIDE DEF fs
<1> QED BY <1>1, <1>2 DEF fs

LEMMA MountIsRestart ==
  ASSUME VolOK(vol), Mount \/ Restart
  PROVE  Abstract!Next
<1>1. /\ vol' = MountCounters(vol) /\ files' = [f \in 1 .. MaxOpen |-> NoFile]
      /\ cmd' = AtPrompt
  BY DEF Mount, Restart, Prompt
<1>2. UNCHANGED Contents(vol)
  <2>1. /\ vol'.imap = vol.imap /\ vol'.itab = vol.itab /\ vol'.blk = vol.blk
        /\ vol'.end = vol.end
    BY <1>1 DEF MountCounters, VolOK, Volumes
  <2> QED BY <2>1, SameContents
<1>3. WriteOf(cmd') = Abstract!Idle
  BY <1>1, PromptType, WriteIsBusy
<1>4. Descriptors(files') = <<>>
  BY <1>1, NoDescriptors
<1>5. Abstract!Restart
  BY <1>2, <1>3, <1>4 DEF Abstract!Restart
<1> QED BY <1>5 DEF Abstract!Next

----------------------------------------------------------------------------
(* Descriptors *)

LEMMA DescriptorsAre ==
  ASSUME NEW fs
  PROVE  /\ DOMAIN Descriptors(fs) = {g \in 1 .. MaxOpen : fs[g].open}
         /\ \A g \in 1 .. MaxOpen : fs[g].open =>
              /\ Descriptors(fs)[g] = [file |-> fs[g].ino, at |-> fs[g].off]
              /\ Descriptors(fs)[g].file = fs[g].ino
              /\ Descriptors(fs)[g].at = fs[g].off
  BY DEF Descriptors

\* A place f of the table gets the open file g.
LEMMA DescriptorMoved ==
  ASSUME files \in [1 .. MaxOpen -> FileType], NEW f \in 1 .. MaxOpen, NEW g, g.open,
         files' = [files EXCEPT ![f] = g]
  PROVE  Descriptors(files') = Abstract!Moved(f, [file |-> g.ino, at |-> g.off])
<1> DEFINE S == {h \in 1 .. MaxOpen : files[h].open}
           T == {h \in 1 .. MaxOpen : files'[h].open}
           to == [file |-> g.ino, at |-> g.off]
<1>1. files'[f] = g /\ \A h \in 1 .. MaxOpen : h # f => files'[h] = files[h]
  OBVIOUS
<1>2. T = S \cup {f}
  BY <1>1
<1>3. Descriptors(files') = [h \in T |-> [file |-> files'[h].ino, at |-> files'[h].off]]
  BY DEF Descriptors
<1>4. ASSUME NEW h \in T
      PROVE  [file |-> files'[h].ino, at |-> files'[h].off]
               = IF h = f THEN to ELSE Descriptors(files)[h]
  <2>1. h \in 1 .. MaxOpen
    OBVIOUS
  <2>2. CASE h = f
    BY <1>1, <2>2
  <2>3. CASE h # f
    <3>1. files'[h] = files[h] /\ files[h].open
      BY <1>1, <1>2, <2>1, <2>3
    <3>2. Descriptors(files)[h] = [file |-> files[h].ino, at |-> files[h].off]
      BY <2>1, <3>1, DescriptorsAre
    <3> QED BY <2>3, <3>1, <3>2
  <2> QED BY <2>2, <2>3
<1>5. DOMAIN Descriptors(files) = S
  BY DescriptorsAre
<1> HIDE DEF S, T, to
<1>6. Abstract!Moved(f, to) = [h \in S \cup {f} |-> IF h = f THEN to ELSE Descriptors(files)[h]]
  BY <1>5 DEF Abstract!Moved
<1> QED BY <1>2, <1>3, <1>4, <1>6 DEF to

LEMMA TransfersAreShort == 1 .. MaxTransfer \subseteq 1 .. MaxFileWords
<1>1. MaxTransfer \in Nat /\ MaxTransfer <= Slots
  BY SessionAssumption
<1>2. Slots <= MaxFileWords /\ Slots \in Nat
  <2>1. Slots <= NDirect * Slots
    BY VolumeAssumption
  <2> QED BY <2>1, VolumeAssumption DEF MaxFileWords
<1> QED BY <1>1, <1>2, MaxFileWordsType

LEMMA OpenStep ==
  ASSUME VolOK(vol), TypesBesideVol, FreeUntyped(vol), Open
  PROVE  Abstract!Next
<1>1. PICK p \in OpenPaths, flags \in OpenFlags :
        LET i    == path_to_inode(vol, cwd, p)
            free == {f \in 1 .. MaxOpen : ~files[f].open}
        IN  /\ is_regular_file(vol, i)
            /\ free # {}
            /\ files' = [files EXCEPT ![Min(free)] = File(i, flags, 0)]
            /\ UNCHANGED <<vol, cwd, user, cmd>>
  BY DEF Open
<1> DEFINE i    == path_to_inode(vol, cwd, p)
           free == {g \in 1 .. MaxOpen : ~files[g].open}
           f    == Min(free)
<1>2. f \in 1 .. MaxOpen /\ ~files[f].open
  <2>1. free \subseteq Nat /\ free # {}
    BY <1>1
  <2>2. f \in free
    BY <2>1, MinIsLeast
  <2> HIDE DEF f
  <2> QED BY <2>2
<1>3. is_regular_file(vol, i) /\ files' = [files EXCEPT ![f] = File(i, flags, 0)]
      /\ vol' = vol /\ cmd' = cmd
  BY <1>1
<1> HIDE DEF i, f, free
<1>4. i \in Inodes /\ i \in DOMAIN Contents(vol)
  <2>1. i \in Inodes /\ vol.itab[i].type = "reg"
    BY <1>3 DEF is_regular_file, IsType
  <2>2. i \in RegularFiles(vol)
    BY <1>3, <2>1 DEF FreeUntyped, RegularFiles
  <2> QED BY <2>1, <2>2, FilesAre
<1>5. Descriptors(files') = Abstract!Moved(f, [file |-> i, at |-> 0])
  <2> DEFINE g == File(i, flags, 0)
  <2>1. g.open /\ g.ino = i /\ g.off = 0
    BY DEF File
  <2> HIDE DEF g
  <2>2. files' = [files EXCEPT ![f] = g] /\ files \in [1 .. MaxOpen -> FileType]
    BY <1>3 DEF TypesBesideVol, g
  <2>3. Descriptors(files') = Abstract!Moved(f, [file |-> g.ino, at |-> g.off])
    BY <1>2, <2>1, <2>2, DescriptorMoved
  <2> QED BY <2>1, <2>3
<1>6. f \notin DOMAIN Descriptors(files)
  BY <1>2, DescriptorsAre
<1>7. Abstract!Open
  BY <1>2, <1>3, <1>4, <1>5, <1>6 DEF Abstract!Open, Abstract!Exists, Abstract!IsOpen
<1> QED BY <1>7 DEF Abstract!Next

LEMMA CloseStep ==
  ASSUME TypesBesideVol, Close
  PROVE  Abstract!Next
<1>1. PICK f \in 1 .. MaxOpen : files[f].open /\ files' = [files EXCEPT ![f] = NoFile]
  BY DEF Close
<1>2. vol' = vol /\ cmd' = cmd /\ WriteOf(cmd) = Abstract!Idle
  BY PromptType, WriteIsBusy DEF Close, Session, Prompt
<1> DEFINE S == {h \in 1 .. MaxOpen : files[h].open}
           T == {h \in 1 .. MaxOpen : files'[h].open}
<1>3. /\ ~files'[f].open
      /\ \A h \in 1 .. MaxOpen : h # f => files'[h] = files[h]
  BY <1>1 DEF TypesBesideVol, NoFile
<1>4. T = S \ {f}
  BY <1>3
<1>5. ASSUME NEW h \in T
      PROVE  [file |-> files'[h].ino, at |-> files'[h].off] = Descriptors(files)[h]
  <2>1. h \in 1 .. MaxOpen /\ h # f /\ files[h].open
    BY <1>4
  <2>2. files'[h] = files[h]
    BY <1>3, <2>1
  <2>3. Descriptors(files)[h] = [file |-> files[h].ino, at |-> files[h].off]
    BY <2>1, DescriptorsAre
  <2> QED BY <2>2, <2>3
<1>6. Descriptors(files') = [h \in T |-> [file |-> files'[h].ino, at |-> files'[h].off]]
  BY DEF Descriptors
<1>7. DOMAIN Descriptors(files) = S /\ f \in S
  BY <1>1, DescriptorsAre
<1> HIDE DEF S, T
<1>8. Descriptors(files') = [h \in S \ {f} |-> Descriptors(files)[h]]
  BY <1>4, <1>5, <1>6
<1>9. Abstract!Close
  BY <1>2, <1>7, <1>8 DEF Abstract!Close, Abstract!IsOpen
<1> QED BY <1>9 DEF Abstract!Next

\* The descriptor f moves to place o of its file.
LEMMA OffsetMoved ==
  ASSUME files \in [1 .. MaxOpen -> FileType], NEW f \in 1 .. MaxOpen, files[f].open, NEW o,
         files' = [files EXCEPT ![f] = [files[f] EXCEPT !.off = o]]
  PROVE  /\ f \in DOMAIN Descriptors(files)
         /\ Abstract!FileOf(f) = files[f].ino /\ Descriptors(files)[f].at = files[f].off
         /\ Descriptors(files') = Abstract!Moved(f, [file |-> Abstract!FileOf(f), at |-> o])
<1> DEFINE g == [files[f] EXCEPT !.off = o]
<1>1. g.open /\ g.ino = files[f].ino /\ g.off = o
  BY OpenFields
<1> HIDE DEF g
<1>2. files' = [files EXCEPT ![f] = g]
  BY DEF g
<1>3. Descriptors(files') = Abstract!Moved(f, [file |-> g.ino, at |-> g.off])
  BY <1>1, <1>2, DescriptorMoved
<1>4. /\ f \in DOMAIN Descriptors(files) /\ Descriptors(files)[f].file = files[f].ino
      /\ Descriptors(files)[f].at = files[f].off
  BY DescriptorsAre
<1> QED BY <1>1, <1>3, <1>4 DEF Abstract!FileOf

LEMMA SeekStep ==
  ASSUME VolOK(vol), TypesBesideVol, Lseek
  PROVE  Abstract!Next
<1>1. PICK f \in 1 .. MaxOpen :
        /\ files[f].open
        /\ \E off \in 0 .. vol.itab[files[f].ino].size :
             files' = [files EXCEPT ![f] = [files[f] EXCEPT !.off = off]]
  BY DEF Lseek
<1>2. PICK o \in 0 .. vol.itab[files[f].ino].size :
        files' = [files EXCEPT ![f] = [files[f] EXCEPT !.off = o]]
  BY <1>1
<1>3. vol' = vol /\ cmd' = cmd /\ WriteOf(cmd) = Abstract!Idle
  BY PromptType, WriteIsBusy DEF Lseek, Session, Prompt
<1>4. files \in [1 .. MaxOpen -> FileType]
  BY DEF TypesBesideVol
<1> DEFINE i == files[f].ino
<1>5. i \in Inodes /\ vol.itab[i].size \in 0 .. MaxFileWords
  BY <1>1, <1>4, OpenFileType DEF VolOK, Volumes, Inode
<1>6. o \in 0 .. MaxFileWords
  BY <1>5, MaxFileWordsType
<1>7. /\ f \in DOMAIN Descriptors(files) /\ Abstract!FileOf(f) = i
      /\ Descriptors(files') = Abstract!Moved(f, [file |-> Abstract!FileOf(f), at |-> o])
  BY <1>1, <1>2, <1>4, OffsetMoved
<1>8. i \in DOMAIN Contents(vol) => o <= Len(Contents(vol)[i])
  BY ContentsAre, FilesAre
<1> HIDE DEF i
<1>9. Abstract!Seek
  BY <1>3, <1>6, <1>7, <1>8 DEF Abstract!Seek, Abstract!Exists, Abstract!IsOpen
<1> QED BY <1>9 DEF Abstract!Next

\* Where a read stops is the end of the file, a hole, or all that was asked for.
LEMMA ReadReaches ==
  ASSUME VolOK(vol), NEW i \in RegularFiles(vol), NEW off \in 0 .. MaxFileWords, NEW n \in Nat
  PROVE  Abstract!Reaches(Contents(vol)[i], off, n, off + ReadCount(vol, i, off, n))
<1> DEFINE Present(x) == /\ vol.itab[i].ptr[x \div Slots] # 0
                         /\ Readable(vol, vol.itab[i].ptr[x \div Slots])
           c    == ReadCount(vol, i, off, n)
           text == Contents(vol)[i]
           size == vol.itab[i].size
<1>1. /\ i \in Inodes /\ size \in 0 .. MaxFileWords /\ Len(text) = size
      /\ \A x \in 1 .. size : text[x] = WordAt(vol, i, x)
  BY ContentsAre
<1>2. MaxFileWords \in Nat /\ off \in Nat /\ size \in Nat
  BY <1>1, MaxFileWordsType
<1>3. /\ c \in 0 .. n
      /\ \A x \in off .. off + c - 1 : x < size /\ Present(x)
      /\ c = n \/ off + c >= size \/ ~Present(off + c)
  BY <1>1, ReadCountStops
<1>4. ASSUME NEW x \in 1 .. size
      PROVE  text[x] = "hole" <=> ~Present(x - 1)
  <2>1. x \in 1 .. MaxFileWords
    BY <1>1, <1>2
  <2>2. WordAt(vol, i, x) = "hole" <=> ~Present(x - 1)
    BY <1>1, <2>1, WordType
  <2> HIDE DEF Present, text
  <2> QED BY <1>1, <2>2
<1> HIDE DEF Present, c, text, size
<1>5. off + c \in off .. off + n
  BY <1>2, <1>3
<1>6. ASSUME NEW x \in off + 1 .. off + c PROVE x <= Len(text) /\ text[x] # "hole"
  <2>1. x - 1 \in off .. off + c - 1 /\ x \in Nat /\ x >= 1
    BY <1>2, <1>3
  <2>2. x - 1 < size /\ Present(x - 1)
    BY <1>3, <2>1
  <2>3. x \in 1 .. size
    BY <1>2, <2>1, <2>2
  <2> QED BY <1>1, <1>4, <2>2, <2>3
<1>7. off + c = off + n \/ off + c >= Len(text) \/ text[off + c + 1] = "hole"
  <2> SUFFICES ASSUME ~(off + c >= size), c # n
               PROVE  text[off + c + 1] = "hole"
    BY <1>1, <1>2, <1>3
  <2>1. off + c + 1 \in 1 .. size /\ off + c + 1 - 1 = off + c
    BY <1>2, <1>3
  <2> QED BY <1>3, <1>4, <2>1
<1> QED BY <1>5, <1>6, <1>7 DEF Abstract!Reaches, Abstract!Hole, c, text

LEMMA ReadStep ==
  ASSUME VolOK(vol), TypesBesideVol, Read
  PROVE  Abstract!Next
<1>1. PICK f \in 1 .. MaxOpen, n \in 1 .. MaxTransfer :
        /\ files[f].open
        /\ files' = [files EXCEPT ![f] = [files[f] EXCEPT !.off =
                       files[f].off + ReadCount(vol, files[f].ino, files[f].off, n)]]
  BY DEF Read
<1>2. vol' = vol /\ cmd' = cmd /\ WriteOf(cmd) = Abstract!Idle
  BY PromptType, WriteIsBusy DEF Read, Session, Prompt
<1>3. files \in [1 .. MaxOpen -> FileType]
  BY DEF TypesBesideVol
<1> DEFINE i   == files[f].ino
           off == files[f].off
           to  == off + ReadCount(vol, i, off, n)
<1>4. i \in Inodes /\ off \in 0 .. MaxFileWords
  BY <1>1, <1>3, OpenFileType
<1>5. n \in 1 .. MaxFileWords /\ n \in Nat
  BY TransfersAreShort
<1>6. to \in 0 .. MaxFileWords
  BY <1>4, <1>5, ReadCountType
<1>7. i \in DOMAIN Contents(vol) => Abstract!Reaches(Contents(vol)[i], off, n, to)
  BY <1>4, <1>5, ReadReaches, FilesAre
<1>8. /\ f \in DOMAIN Descriptors(files) /\ Abstract!FileOf(f) = i
      /\ Descriptors(files)[f].at = off
      /\ Descriptors(files') = Abstract!Moved(f, [file |-> Abstract!FileOf(f), at |-> to])
  BY <1>1, <1>3, OffsetMoved
<1> HIDE DEF i, off, to
<1>9. Abstract!Read
  BY <1>2, <1>5, <1>6, <1>7, <1>8 DEF Abstract!Read, Abstract!Exists, Abstract!IsOpen
<1> QED BY <1>9 DEF Abstract!Next

LEMMA StartWriteStep ==
  ASSUME StartWrite
  PROVE  Abstract!Next
<1>1. PICK f \in 1 .. MaxOpen, n \in 1 .. MaxTransfer, d \in Data :
        files[f].open /\ cmd' = Writing(f, d, files[f].off, n)
  BY DEF StartWrite
<1>2. vol' = vol /\ files' = files /\ WriteOf(cmd) = Abstract!Idle
  BY PromptType, WriteIsBusy DEF StartWrite, Session, Prompt
<1>3. n \in 1 .. MaxFileWords
  BY TransfersAreShort
<1>4. f \in DOMAIN Descriptors(files) /\ Descriptors(files)[f].at = files[f].off
  BY <1>1, DescriptorsAre
<1>5. WriteOf(cmd') = [busy |-> TRUE, fd |-> f, data |-> d,
                       at |-> Descriptors(files)[f].at, left |-> n]
  BY <1>1, <1>4 DEF Writing, WriteOf
<1>6. Abstract!StartWrite
  BY <1>2, <1>3, <1>4, <1>5 DEF Abstract!StartWrite, Abstract!IsOpen
<1> QED BY <1>6 DEF Abstract!Next

----------------------------------------------------------------------------
(* Steps of a write *)

\* What was written is what a place holds.
LEMMA TextIsWord ==
  ASSUME NEW v, NEW i, NEW d, NEW x \in Nat, TextAt(v, i, x, d)
  PROVE  WordAt(v, i, x + 1) = d
<1>1. x + 1 - 1 = x
  OBVIOUS
<1> DEFINE k == x \div Slots
           s == (x % Slots) + 1
<1>2. /\ v.itab[i].ptr[k] # 0 /\ Readable(v, v.itab[i].ptr[k])
      /\ v.blk[v.itab[i].ptr[k]][s] = Text(d)
  BY DEF TextAt
<1>3. WordAt(v, i, x + 1) = LET b == v.itab[i].ptr[k]
                            IN  IF b = 0 \/ ~Readable(v, b) THEN "hole"
                                ELSE IF v.blk[b][s].tag = "text" THEN v.blk[b][s].data ELSE "rest"
  BY <1>1 DEF WordAt, get_inode_block
<1> HIDE DEF k, s
<1> QED BY ONLY <1>2, <1>3 DEF Text

\* The file of the write that runs, and the words it has in hand.
LEMMA WriteIsWrite ==
  ASSUME TypesBesideVol, cmd.op = "write"
  PROVE  /\ WriteOf(cmd) # Abstract!Idle
         /\ WriteOf(cmd).fd = cmd.slot /\ WriteOf(cmd).data = cmd.data
         /\ WriteOf(cmd).at = cmd.off /\ WriteOf(cmd).left = cmd.left
         /\ cmd.slot \in DOMAIN Descriptors(files)
         /\ Abstract!FileOf(cmd.slot) = files[cmd.slot].ino
         /\ Descriptors(files)[cmd.slot].at = files[cmd.slot].off
<1>1. WriteOf(cmd) = [busy |-> TRUE, fd |-> cmd.slot, data |-> cmd.data,
                      at |-> cmd.off, left |-> cmd.left]
  BY WriteIsBusy
<1>2. cmd.slot \in 1 .. MaxOpen /\ files[cmd.slot].open
  BY WriteRuns
<1>3. /\ WriteOf(cmd).fd = cmd.slot /\ WriteOf(cmd).data = cmd.data
      /\ WriteOf(cmd).at = cmd.off /\ WriteOf(cmd).left = cmd.left
  BY ONLY <1>1
<1>4. /\ cmd.slot \in DOMAIN Descriptors(files)
      /\ Descriptors(files)[cmd.slot].file = files[cmd.slot].ino
      /\ Descriptors(files)[cmd.slot].at = files[cmd.slot].off
  BY <1>2, DescriptorsAre
<1>5. WriteOf(cmd) # Abstract!Idle
  BY WriteIsBusy
<1> QED BY <1>3, <1>4, <1>5 DEF Abstract!FileOf

LEMMA WriteKeepsOthers ==
  ASSUME VolOK(vol), VolOK(vol'), NEW i \in Inodes, Keeps(vol, vol', i, 0)
  PROVE  RegularFiles(vol') = RegularFiles(vol) /\ Abstract!OthersKept({i})
<1>1. /\ vol.end <= vol'.end
      /\ \A j \in Inodes : SameInode(vol, vol', j)
      /\ \A j \in Inodes \ {i} : SameFile(vol, vol', j)
  BY DEF Keeps, Inodes
<1>2. RegularFiles(vol') = RegularFiles(vol)
  BY <1>1 DEF RegularFiles, is_regular_file, IsType, SameInode
<1>3. ASSUME NEW j \in RegularFiles(vol) \ {i}
      PROVE  Abstract!Kept(Contents(vol)[j], Contents(vol')[j])
  <2>1. j \in Inodes \ {i} /\ j \in RegularFiles(vol')
    BY <1>2 DEF RegularFiles, is_regular_file, IsType
  <2>2. SameFile(vol, vol', j)
    BY <1>1, <2>1
  <2>3. WordsStay(vol, vol', j)
    BY <2>2 DEF SameFile, WordsStay, WordStays
  <2> QED BY <1>1, <2>1, <2>3, FileKept
<1>4. DOMAIN Contents(vol) = RegularFiles(vol) /\ DOMAIN Contents(vol') = RegularFiles(vol')
  BY FilesAre
<1> QED BY <1>2, <1>3, <1>4 DEF Abstract!OthersKept

\* A file gets the words d in the places between from and to, its size is now
\* size, and the others keep theirs.
LEMMA WrittenIs ==
  ASSUME NEW i, NEW size, NEW from, NEW to, NEW d,
         i \in RegularFiles(vol) <=> i \in RegularFiles(vol'),
         i \in RegularFiles(vol) => Len(Contents(vol')[i]) = size,
         \A x \in 1 .. size : i \in RegularFiles(vol) =>
           IF x \in from + 1 .. to THEN Contents(vol')[i][x] = d
           ELSE x <= Len(Contents(vol)[i]) => \/ Contents(vol')[i][x] = Contents(vol)[i][x]
                                              \/ Contents(vol)[i][x] = "hole",
         Abstract!OthersKept({i})
  PROVE  Abstract!Written(i, size, from, to, d)
<1>1. Abstract!Exists(i) <=> i \in RegularFiles(vol)
  BY FilesAre DEF Abstract!Exists
<1>2. Abstract!Exists(i)' <=> i \in RegularFiles(vol')
  BY FilesAre DEF Abstract!Exists
<1> QED BY <1>1, <1>2 DEF Abstract!Written, Abstract!Hole

LEMMA WriteSomeStep ==
  ASSUME VolOK(vol), VolOK(vol'), TypesBesideVol, WriteStep
  PROVE  Abstract!Next
<1> DEFINE i == files[cmd.slot].ino
           d == cmd.data
           from == cmd.off
           Stay(m) == \A x \in Nat : x < MaxFileWords /\ x \notin from .. from + m - 1
                                     /\ vol.itab[i].ptr[x \div Slots] # 0
                        => LET b == vol.itab[i].ptr[x \div Slots]
                           IN  vol'.blk[b][(x % Slots) + 1] = vol.blk[b][(x % Slots) + 1]
<1>1. /\ cmd.op = "write" /\ files' = files /\ Keeps(vol, vol', i, 0)
      /\ cmd'.op = "write" /\ cmd'.slot = cmd.slot /\ cmd'.data = d
  BY WriteStepWrites, Zenon
<1>2. PICK n \in 0 .. cmd.left :
        /\ cmd'.off = from + n
        /\ cmd'.left = IF n = 0 THEN 0 ELSE cmd.left - n
        /\ \A x \in from .. from + n - 1 : TextAt(vol', i, x, d)
        /\ Stay(n)
  BY WriteStepWrites, Zenon
<1> HIDE DEF Stay
<1>3. /\ i \in Inodes /\ d \in Data /\ from \in Nat /\ cmd.left \in Nat /\ cmd.left > 0
  BY <1>1, WriteRuns DEF WriteStep
<1>11. WriteOf(cmd).left = cmd.left
  BY <1>1, WriteIsWrite
<1>4. /\ WriteOf(cmd) # Abstract!Idle /\ WriteOf(cmd).left > 0
      /\ WriteOf(cmd).fd = cmd.slot /\ WriteOf(cmd).data = d /\ WriteOf(cmd).at = from
      /\ Abstract!FileOf(cmd.slot) = i
  BY <1>1, <1>3, WriteIsWrite
<1>5. WriteOf(cmd') = [WriteOf(cmd) EXCEPT !.at = @ + n,
                                           !.left = IF n = 0 THEN 0 ELSE @ - n]
  <2>1. /\ WriteOf(cmd) = [busy |-> TRUE, fd |-> cmd.slot, data |-> d,
                           at |-> from, left |-> cmd.left]
        /\ WriteOf(cmd') = [busy |-> TRUE, fd |-> cmd'.slot, data |-> cmd'.data,
                            at |-> cmd'.off, left |-> cmd'.left]
    BY <1>1, WriteIsBusy
  <2> DEFINE left == IF n = 0 THEN 0 ELSE cmd.left - n
             w == WriteOf(cmd)
  <2> HIDE DEF left, w
  <2>2. [w EXCEPT !.at = from + n, !.left = left]
          = [busy |-> TRUE, fd |-> cmd.slot, data |-> d, at |-> from + n, left |-> left]
    <3> DEFINE h == [w EXCEPT !.at = from + n, !.left = left]
               F == {"busy", "fd", "data", "at", "left"}
    <3>1. /\ DOMAIN w = F
          /\ w.busy = TRUE /\ w.fd = cmd.slot /\ w.data = d
      BY <2>1 DEF w
    <3>2. h = [x \in F |-> IF x = "left" THEN left ELSE IF x = "at" THEN from + n ELSE w[x]]
      BY <3>1
    <3>3. /\ DOMAIN h = F
          /\ h.busy = TRUE /\ h.fd = cmd.slot /\ h.data = d /\ h.at = from + n /\ h.left = left
      BY <3>1, <3>2
    <3> HIDE DEF h
    <3>4. h = [busy |-> TRUE, fd |-> cmd.slot, data |-> d, at |-> from + n, left |-> left]
      BY <3>2, <3>1
    <3> QED BY <3>4 DEF h
  <2>3. /\ cmd'.off = from + n /\ cmd'.left = left /\ cmd'.slot = cmd.slot /\ cmd'.data = d
    BY <1>1, <1>2 DEF left
  <2>4. WriteOf(cmd') = [w EXCEPT !.at = from + n, !.left = left]
    BY <2>1, <2>2, <2>3
  <2> QED BY <1>4, <1>11, <2>4 DEF left, w
<1>6. RegularFiles(vol') = RegularFiles(vol) /\ Abstract!OthersKept({i})
  BY <1>1, <1>3, WriteKeepsOthers
<1>7. DOMAIN Contents(vol) = RegularFiles(vol) /\ DOMAIN Contents(vol') = RegularFiles(vol')
  BY FilesAre
<1> HIDE DEF i, d, from
<1>8. ASSUME i \in RegularFiles(vol)
      PROVE  /\ Len(Contents(vol')[i]) = Len(Contents(vol)[i])
             /\ \A x \in 1 .. Len(Contents(vol)[i]) :
                  IF x \in from + 1 .. from + n THEN Contents(vol')[i][x] = d
                  ELSE Contents(vol')[i][x] = Contents(vol)[i][x] \/ Contents(vol)[i][x] = "hole"
  <2>1. SameInode(vol, vol', i) /\ vol.end <= vol'.end
    BY <1>1, <1>3 DEF Keeps, Inodes
  <2>2. vol'.itab[i].size = vol.itab[i].size /\ i \in RegularFiles(vol')
    BY <1>6, <1>8, <2>1 DEF SameInode
  <2>3. /\ vol.itab[i].size \in 0 .. MaxFileWords
        /\ Len(Contents(vol)[i]) = vol.itab[i].size
        /\ Len(Contents(vol')[i]) = vol.itab[i].size
        /\ \A x \in 1 .. vol.itab[i].size : /\ Contents(vol)[i][x] = WordAt(vol, i, x)
                                            /\ Contents(vol')[i][x] = WordAt(vol', i, x)
    BY <1>8, <2>2, ContentsAre
  <2>4. ASSUME NEW x \in 1 .. vol.itab[i].size
        PROVE  IF x \in from + 1 .. from + n THEN WordAt(vol', i, x) = d
               ELSE WordAt(vol', i, x) = WordAt(vol, i, x) \/ WordAt(vol, i, x) = "hole"
    <3>1. x \in 1 .. MaxFileWords /\ x - 1 \in Nat /\ x - 1 < MaxFileWords /\ x - 1 + 1 = x
      BY <2>3, MaxFileWordsType
    <3>2. CASE x \in from + 1 .. from + n
      <4>1. x - 1 \in from .. from + n - 1
        BY <1>3, <3>2
      <4>2. TextAt(vol', i, x - 1, d)
        BY <1>2, <4>1
      <4>3. WordAt(vol', i, x - 1 + 1) = d
        BY <3>1, <4>2, TextIsWord
      <4> QED BY <3>1, <3>2, <4>3
    <3>3. CASE x \notin from + 1 .. from + n
      <4>1. x - 1 \notin from .. from + n - 1
        BY <1>2, <1>3, <3>1, <3>3
      <4> DEFINE k == (x - 1) \div Slots
                 s == ((x - 1) % Slots) + 1
      <4>2. vol.itab[i].ptr[k] # 0 =>
              vol'.blk[vol.itab[i].ptr[k]][s] = vol.blk[vol.itab[i].ptr[k]][s]
        BY <1>2, <3>1, <4>1 DEF Stay
      <4> HIDE DEF k, s
      <4>3. WordStays(vol, vol', i, k, s)
        BY <4>2 DEF WordStays
      <4>4. WordAt(vol', i, x) = WordAt(vol, i, x) \/ WordAt(vol, i, x) = "hole"
        BY <1>3, <2>1, <3>1, <4>3, WordKept DEF k, s
      <4> QED BY <3>3, <4>4
    <3> QED BY <3>2, <3>3
  <2> QED BY <2>3, <2>4
<1>9. ASSUME NEW j, j = i
      PROVE  Abstract!Written(j, IF Abstract!Exists(j) THEN Len(Contents(vol)[j]) ELSE 0,
                              from, from + n, d)
  <2> DEFINE size == IF j \in RegularFiles(vol) THEN Len(Contents(vol)[j]) ELSE 0
  <2>1. j \in RegularFiles(vol) =>
          /\ Len(Contents(vol')[j]) = size
          /\ \A x \in 1 .. size :
               IF x \in from + 1 .. from + n THEN Contents(vol')[j][x] = d
               ELSE Contents(vol')[j][x] = Contents(vol)[j][x] \/ Contents(vol)[j][x] = "hole"
    BY <1>8, <1>9
  <2>2. Abstract!OthersKept({j})
    BY <1>6, <1>9
  <2> HIDE DEF size
  <2>3. Abstract!Written(j, size, from, from + n, d)
    BY <1>6, <2>1, <2>2, WrittenIs
  <2>4. size = IF Abstract!Exists(j) THEN Len(Contents(vol)[j]) ELSE 0
    BY <1>7 DEF Abstract!Exists, size
  <2> QED BY <2>3, <2>4
<1>10. \E m \in 0 .. WriteOf(cmd).left, broken \in BOOLEAN :
         /\ WriteOf(cmd)' = [WriteOf(cmd) EXCEPT !.at = @ + m,
                                                 !.left = IF broken THEN 0 ELSE @ - m]
         /\ \E j \in {Abstract!FileOf(WriteOf(cmd).fd)} :
              Abstract!Written(j, IF Abstract!Exists(j) THEN Len(Contents(vol)[j]) ELSE 0,
                               WriteOf(cmd).at, WriteOf(cmd).at + m, WriteOf(cmd).data)
  <2> DEFINE w == WriteOf(cmd)
  <2>1. n \in 0 .. w.left /\ (n = 0) \in BOOLEAN
    BY <1>2, <1>11
  <2>2. w' = [w EXCEPT !.at = @ + n, !.left = IF n = 0 THEN 0 ELSE @ - n]
    BY <1>5
  <2>4. \E j \in {Abstract!FileOf(w.fd)} :
          Abstract!Written(j, IF Abstract!Exists(j) THEN Len(Contents(vol)[j]) ELSE 0,
                           w.at, w.at + n, w.data)
    BY <1>4, <1>9
  <2> HIDE DEF w
  <2> QED BY <2>1, <2>2, <2>4, Zenon DEF w
<1>12. Abstract!WriteSome
  <2>1. UNCHANGED Descriptors(files)
    BY <1>1
  <2> QED BY <1>4, <1>10, <2>1, Zenon DEF Abstract!WriteSome
<1> QED BY <1>12 DEF Abstract!Next

LEMMA FinishWriteStep ==
  ASSUME VolOK(vol), VolOK(vol'), TypesBesideVol, WriteProgress, FinishWrite
  PROVE  Abstract!Next
<1> DEFINE i == files[cmd.slot].ino
           d == cmd.data
           from == files[cmd.slot].off
           to == cmd.off
<1>1. /\ cmd.op = "write" /\ cmd.left = 0 /\ cmd' = AtPrompt
      /\ vol'.imap = vol.imap /\ vol'.blk = vol.blk /\ vol'.end = vol.end
      /\ \A j \in Inodes : /\ vol'.itab[j].type = vol.itab[j].type
                           /\ vol'.itab[j].ptr = vol.itab[j].ptr
                           /\ j # i => vol'.itab[j].size = vol.itab[j].size
      /\ vol'.itab[i].size = IF to > vol.itab[i].size THEN to ELSE vol.itab[i].size
      /\ files' = [files EXCEPT ![cmd.slot] = [files[cmd.slot] EXCEPT !.off = to]]
  <2>1. files' = [files EXCEPT ![cmd.slot] = [files[cmd.slot] EXCEPT !.off = to]]
    BY DEF FinishWrite
  <2> QED BY <2>1, FinishWriteEnds
<1>2. /\ cmd.slot \in 1 .. MaxOpen /\ files[cmd.slot].open
      /\ i \in Inodes /\ d \in Data /\ from \in Nat /\ to \in Nat /\ to <= MaxFileWords
      /\ files \in [1 .. MaxOpen -> FileType]
  BY <1>1, WriteRuns, MaxFileWordsType DEF TypesBesideVol
<1>3. \A x \in from .. to - 1 : TextAt(vol, i, x, d)
  BY <1>1 DEF WriteProgress
<1>4. /\ WriteOf(cmd) # Abstract!Idle /\ WriteOf(cmd).left = 0
      /\ WriteOf(cmd).fd = cmd.slot /\ WriteOf(cmd).data = d /\ WriteOf(cmd).at = to
      /\ cmd.slot \in DOMAIN Descriptors(files)
      /\ Abstract!FileOf(cmd.slot) = i /\ Descriptors(files)[cmd.slot].at = from
  BY <1>1, WriteIsWrite
<1>5. WriteOf(cmd') = Abstract!Idle
  BY <1>1, PromptType, WriteIsBusy
<1>6. Descriptors(files') = [Descriptors(files) EXCEPT ![cmd.slot].at = to]
  <2>1. /\ Descriptors(files') = Abstract!Moved(cmd.slot, [file |-> i, at |-> to])
        /\ cmd.slot \in DOMAIN Descriptors(files)
    <3> DEFINE f == cmd.slot
    <3>1. /\ files \in [1 .. MaxOpen -> FileType] /\ f \in 1 .. MaxOpen /\ files[f].open
          /\ files' = [files EXCEPT ![f] = [files[f] EXCEPT !.off = to]]
          /\ Abstract!FileOf(f) = i /\ f \in DOMAIN Descriptors(files)
      BY <1>1, <1>2, <1>4, Zenon
    <3> HIDE DEF f, i, to
    <3>2. Descriptors(files') = Abstract!Moved(f, [file |-> Abstract!FileOf(f), at |-> to])
      BY <3>1, OffsetMoved, Zenon
    <3>3. Descriptors(files') = Abstract!Moved(f, [file |-> i, at |-> to])
      BY <3>1, <3>2, Zenon
    <3> QED BY <3>1, <3>3, Zenon DEF f
  <2>2. Descriptors(files)[cmd.slot] = [file |-> i, at |-> from]
    BY <1>2, DescriptorsAre
  <2> DEFINE D == Descriptors(files)
             f == cmd.slot
             o == to
  <2>3. D = [g \in DOMAIN D |-> D[g]]
    BY DEF Descriptors
  <2> HIDE DEF D, f, o, i, from
  <2>4. /\ Descriptors(files') = [g \in DOMAIN D \cup {f} |-> IF g = f THEN [file |-> i, at |-> o]
                                                               ELSE D[g]]
        /\ f \in DOMAIN D /\ D[f] = [file |-> i, at |-> from]
    BY <2>1, <2>2 DEF Abstract!Moved, D, f, o
  <2>5. [D EXCEPT ![f].at = o] = [g \in DOMAIN D |-> IF g = f THEN [D[f] EXCEPT !.at = o]
                                                     ELSE D[g]]
    BY <2>3
  <2>6. [D[f] EXCEPT !.at = o] = [file |-> i, at |-> o] /\ DOMAIN D \cup {f} = DOMAIN D
    BY <2>4
  <2>7. Descriptors(files') = [D EXCEPT ![f].at = o]
    BY <2>4, <2>5, <2>6
  <2> QED BY <2>7 DEF D, f, o
<1>7. RegularFiles(vol') = RegularFiles(vol)
  BY <1>1 DEF RegularFiles, is_regular_file, IsType
<1>8. DOMAIN Contents(vol) = RegularFiles(vol) /\ DOMAIN Contents(vol') = RegularFiles(vol')
  BY FilesAre
<1>9. \A x : \A j \in Inodes : WordAt(vol', j, x) = WordAt(vol, j, x)
  <2> SUFFICES ASSUME NEW j \in Inodes, NEW x PROVE WordAt(vol', j, x) = WordAt(vol, j, x)
    OBVIOUS
  <2>1. vol'.itab[j].ptr = vol.itab[j].ptr /\ vol'.blk = vol.blk /\ vol'.end = vol.end
    BY <1>1
  <2> QED BY ONLY <2>1 DEF WordAt, get_inode_block, Readable
<1> HIDE DEF i, d, from, to
<1>10. Abstract!OthersKept({i})
  <2>1. ASSUME NEW j \in RegularFiles(vol) \ {i}
        PROVE  Abstract!Kept(Contents(vol)[j], Contents(vol')[j])
    <3>1. j \in Inodes /\ j # i /\ j \in RegularFiles(vol) /\ j \in RegularFiles(vol')
      BY <1>7 DEF RegularFiles, is_regular_file, IsType
    <3>2. vol'.itab[j].size = vol.itab[j].size
      BY <1>1, <3>1
    <3>3. /\ Len(Contents(vol)[j]) = vol.itab[j].size
          /\ Len(Contents(vol')[j]) = vol.itab[j].size
          /\ \A x \in 1 .. vol.itab[j].size : /\ Contents(vol)[j][x] = WordAt(vol, j, x)
                                              /\ Contents(vol')[j][x] = WordAt(vol', j, x)
      BY <3>1, <3>2, ContentsAre
    <3> QED BY <1>9, <3>1, <3>3 DEF Abstract!Kept
  <2> QED BY <1>7, <1>8, <2>1 DEF Abstract!OthersKept
<1>11. ASSUME i \in RegularFiles(vol)
       PROVE  LET n == Len(Contents(vol)[i])
                  m == IF n > to THEN n ELSE to
              IN  /\ Len(Contents(vol')[i]) = m
                  /\ \A x \in 1 .. m :
                       IF x \in from + 1 .. to THEN Contents(vol')[i][x] = d
                       ELSE x <= n => Contents(vol')[i][x] = Contents(vol)[i][x]
  <2>1. /\ Len(Contents(vol)[i]) = vol.itab[i].size /\ vol.itab[i].size \in 0 .. MaxFileWords
        /\ \A x \in 1 .. vol.itab[i].size : Contents(vol)[i][x] = WordAt(vol, i, x)
    BY <1>11, ContentsAre
  <2>2. /\ Len(Contents(vol')[i]) = vol'.itab[i].size
        /\ \A x \in 1 .. vol'.itab[i].size : Contents(vol')[i][x] = WordAt(vol, i, x)
    BY <1>2, <1>7, <1>9, <1>11, ContentsAre
  <2>3. ASSUME NEW x \in from + 1 .. to PROVE WordAt(vol, i, x) = d
    <3>1. x - 1 \in from .. to - 1 /\ x - 1 \in Nat /\ x - 1 + 1 = x
      BY <1>2
    <3>2. TextAt(vol, i, x - 1, d)
      BY <1>3, <3>1
    <3>3. WordAt(vol, i, x - 1 + 1) = d
      BY <3>1, <3>2, TextIsWord
    <3> QED BY <3>1, <3>3
  <2> DEFINE n == Len(Contents(vol)[i])
             m == IF n > to THEN n ELSE to
  <2>4. n \in Nat /\ m \in Nat /\ vol'.itab[i].size = m /\ n = vol.itab[i].size
    BY <1>1, <1>2, <2>1, MaxFileWordsType
  <2> HIDE DEF n, m
  <2>5. ASSUME NEW x \in 1 .. m
        PROVE  IF x \in from + 1 .. to THEN Contents(vol')[i][x] = d
               ELSE x <= n => Contents(vol')[i][x] = Contents(vol)[i][x]
    BY <2>1, <2>2, <2>3, <2>4
  <2> QED BY <2>2, <2>4, <2>5 DEF n, m
<1>12. ASSUME NEW j, j = i
       PROVE  Abstract!Written(j, IF Abstract!Exists(j) /\ Len(Contents(vol)[j]) > to
                                  THEN Len(Contents(vol)[j]) ELSE to, from, to, d)
  <2> DEFINE n == Len(Contents(vol)[j])
             size == IF j \in RegularFiles(vol) /\ n > to THEN n ELSE to
  <2>1. j \in RegularFiles(vol) =>
          /\ Len(Contents(vol')[j]) = size
          /\ \A x \in 1 .. size :
               IF x \in from + 1 .. to THEN Contents(vol')[j][x] = d
               ELSE x <= n => Contents(vol')[j][x] = Contents(vol)[j][x]
    BY <1>11, <1>12
  <2>2. Abstract!OthersKept({j})
    BY <1>10, <1>12
  <2> HIDE DEF size
  <2>3. Abstract!Written(j, size, from, to, d)
    BY <1>7, <2>1, <2>2, WrittenIs
  <2>4. size = IF Abstract!Exists(j) /\ n > to THEN n ELSE to
    BY <1>8 DEF Abstract!Exists, size
  <2> QED BY <2>3, <2>4
<1>13. \E j \in {Abstract!FileOf(WriteOf(cmd).fd)} :
         Abstract!Written(j, IF Abstract!Exists(j) /\ Len(Contents(vol)[j]) > WriteOf(cmd).at
                             THEN Len(Contents(vol)[j]) ELSE WriteOf(cmd).at,
                          Descriptors(files)[WriteOf(cmd).fd].at, WriteOf(cmd).at,
                          WriteOf(cmd).data)
  BY <1>4, <1>12
<1>14. Abstract!FinishWrite
  BY <1>4, <1>5, <1>6, <1>13 DEF Abstract!FinishWrite
<1> QED BY <1>14 DEF Abstract!Next

----------------------------------------------------------------------------
(* The theorem *)

LEMMA InitIsInit == Init => Abstract!Init
<1> SUFFICES ASSUME Init PROVE Abstract!Init
  OBVIOUS
<1>1. Contents(FormattedVolume) = <<>>
  <2>1. /\ FormattedVolume.imap = {1, RootIno} /\ 1 \in Inodes /\ RootIno \in Inodes
        /\ FormattedVolume.itab[1].type = "none" /\ FormattedVolume.itab[RootIno].type = "dir"
    <3>1. 1 \in Inodes /\ RootIno \in Inodes /\ 1 # RootIno
      BY VolumeAssumption DEF Inodes, RootIno
    <3> QED BY <3>1 DEF FormattedVolume, MountCounters, ZeroInode, NewInode
  <2>2. RegularFiles(FormattedVolume) = {}
    BY <2>1 DEF RegularFiles, is_regular_file, IsType
  <2> DEFINE S == RegularFiles(FormattedVolume)
  <2>3. Contents(FormattedVolume)
          = [i \in S |-> [x \in 1 .. FormattedVolume.itab[i].size |->
                            WordAt(FormattedVolume, i, x)]]
    BY DEF Contents
  <2> HIDE DEF S
  <2> QED BY <2>2, <2>3 DEF S
<1>2. Descriptors(files) = <<>>
  BY NoDescriptors DEF Init
<1>3. WriteOf(cmd) = Abstract!Idle
  BY PromptType, WriteIsBusy DEF Init
<1> QED BY <1>1, <1>2, <1>3 DEF Abstract!Init, Init

LEMMA StepIsStep ==
  ASSUME FInv, [Next]_vars
  PROVE  [Abstract!Next]_<<Contents(vol), Descriptors(files), WriteOf(cmd)>>
<1>1. VolOK(vol) /\ TypesBesideVol /\ FreeUntyped(vol) /\ WriteProgress
  BY FInvParts
<1>2. VolOK(vol')
  <2>1. IInv'
    BY NextFInv DEF FInv
  <2> QED BY <2>1, OwnershipIsOwned DEF IInv, TypeOK, BlockOwnership, VolOK
<1>3. CASE UNCHANGED vars
  BY <1>3 DEF vars
<1>4. CASE Mount \/ Restart
  BY <1>1, <1>4, MountIsRestart
<1>5. CASE Open
  BY <1>1, <1>5, OpenStep
<1>6. CASE Close
  BY <1>1, <1>6, CloseStep
<1>7. CASE Read
  BY <1>1, <1>7, ReadStep
<1>8. CASE Lseek
  BY <1>1, <1>8, SeekStep
<1>9. CASE StartWrite
  BY <1>9, StartWriteStep
<1>10. CASE WriteStep
  BY <1>1, <1>2, <1>10, WriteSomeStep
<1>11. CASE FinishWrite
  BY <1>1, <1>2, <1>11, FinishWriteStep
<1>12. CASE /\ Login \/ Logout \/ Create \/ Delete \/ StartMkdir \/ MkdirStep \/ Rmdir \/ Cd
            /\ ~WriteStep /\ ~FinishWrite
  <2>1. PICK d, i : NamespaceMove(d, i)
    BY <1>1, <1>12, StepsMove
  <2>2. files' = files
    BY <1>12 DEF Login, Logout, Create, Delete, StartMkdir, MkdirStep, Rmdir, Cd
  <2>3. WriteOf(cmd') = WriteOf(cmd)
    <3>1. CASE Login \/ Logout \/ Create \/ Delete \/ Rmdir \/ Cd
      <4>1. cmd' = cmd
        BY <3>1 DEF Login, Logout, Create, Delete, Rmdir, Cd
      <4> QED BY <4>1
    <3>2. CASE StartMkdir
      <4>1. cmd.op # "write" /\ cmd'.op # "write"
        BY <3>2, PromptType DEF StartMkdir, Session, Prompt, Mkdir
      <4> QED BY <4>1, WriteIsBusy
    <3>3. CASE MkdirStep
      <4>1. cmd.op = "mkdir" /\ (cmd' = AtPrompt \/ cmd' = [cmd EXCEPT !.level = @ + 1])
        BY <3>3 DEF MkdirStep
      <4>2. cmd'.op # "write"
        BY <1>1, <4>1, PromptType, MkdirType DEF TypesBesideVol, CmdType
      <4> QED BY <4>1, <4>2, WriteIsBusy
    <3> QED BY <1>12, <3>1, <3>2, <3>3
  <2> QED BY <1>1, <1>2, <2>1, <2>2, <2>3, NamesStep
<1> QED BY <1>3, <1>4, <1>5, <1>6, <1>7, <1>8, <1>9, <1>10, <1>11, <1>12 DEF Next

LEMMA TypesMap == FInv => Abstract!TypeOK
<1> SUFFICES ASSUME FInv PROVE Abstract!TypeOK
  OBVIOUS
<1>1. VolOK(vol) /\ TypesBesideVol /\ files \in [1 .. MaxOpen -> FileType] /\ cmd \in CmdType
  BY FInvParts DEF TypesBesideVol
<1>2. DOMAIN Contents(vol) \subseteq Inodes
  BY FilesAre DEF RegularFiles, is_regular_file, IsType
<1>3. ASSUME NEW i \in DOMAIN Contents(vol) PROVE Contents(vol)[i] \in Abstract!Texts
  <2>1. i \in RegularFiles(vol)
    BY FilesAre
  <2> DEFINE n == vol.itab[i].size
  <2>2. i \in Inodes /\ n \in 0 .. MaxFileWords
    BY <1>1, <2>1, ContentsAre
  <2>3. Contents(vol)[i] = [x \in 1 .. n |-> WordAt(vol, i, x)]
    BY <2>1 DEF Contents
  <2> HIDE DEF n
  <2>4. \A x \in 1 .. n : WordAt(vol, i, x) \in Data \cup {"hole", "rest"}
    <3> TAKE x \in 1 .. n
    <3>1. x \in 1 .. MaxFileWords
      BY <2>2, MaxFileWordsType
    <3> QED BY <1>1, <2>2, <3>1, WordType
  <2>5. Contents(vol)[i] \in [1 .. n -> Data \cup {"hole", "rest"}]
    BY <2>3, <2>4
  <2> QED BY <2>2, <2>5 DEF Abstract!Texts, Abstract!Words, Abstract!Hole, Abstract!Rest
<1>4. DOMAIN Descriptors(files) \subseteq 1 .. MaxOpen
  BY DescriptorsAre
<1>5. ASSUME NEW f \in DOMAIN Descriptors(files)
      PROVE  Descriptors(files)[f] \in [file : Inodes, at : 0 .. MaxFileWords]
  <2>1. f \in 1 .. MaxOpen /\ files[f].open
    BY DescriptorsAre
  <2>2. files[f].ino \in Inodes /\ files[f].off \in 0 .. MaxFileWords
    BY <1>1, <2>1, OpenFileType
  <2>3. Descriptors(files)[f] = [file |-> files[f].ino, at |-> files[f].off]
    BY <2>1, DescriptorsAre
  <2> QED BY <2>2, <2>3
<1>6. CASE cmd.op # "write"
  <2>1. WriteOf(cmd) = Abstract!Idle
    BY <1>6, WriteIsBusy
  <2> QED BY <1>2, <1>3, <1>4, <1>5, <2>1 DEF Abstract!TypeOK
<1>7. CASE cmd.op = "write"
  <2>1. /\ WriteOf(cmd) = [busy |-> TRUE, fd |-> cmd.slot, data |-> cmd.data,
                           at |-> cmd.off, left |-> cmd.left]
    BY <1>7, WriteIsBusy
  <2>2. /\ cmd.slot \in 1 .. MaxOpen /\ cmd.data \in Data
        /\ cmd.off \in 0 .. MaxFileWords /\ cmd.left \in 0 .. MaxFileWords
    BY <1>1, <1>7, WriteType, Zenon
  <2>3. WriteOf(cmd) \in [busy : {TRUE}, fd : 1 .. MaxOpen, data : Data,
                          at : 0 .. MaxFileWords, left : 0 .. MaxFileWords]
    BY <2>1, <2>2
  <2>4. WriteOf(cmd).fd = cmd.slot /\ cmd.slot \in DOMAIN Descriptors(files)
    BY <1>1, <1>7, WriteIsWrite
  <2> QED BY <1>2, <1>3, <1>4, <1>5, <2>3, <2>4 DEF Abstract!TypeOK, Abstract!IsOpen
<1> QED BY <1>6, <1>7

\* Whatever the sizes of the image and the paths given to the commands, files are
\* separate sequences of words to their user: every behaviour of the commands on
\* blocks, pointers, sizes and descriptors is one of AbstractFiles, through disks
\* and tables that are full, files deleted while they are open, and processes
\* that are killed in a write.
THEOREM FilesRefineSequences == Spec => FilesAreSequences
<1>1. Init => Abstract!Init
  BY InitIsInit
<1>2. FInv /\ [Next]_vars =>
        [Abstract!Next]_<<Contents(vol), Descriptors(files), WriteOf(cmd)>>
  BY StepIsStep
<1>3. FInv => Abstract!TypeOK
  BY TypesMap
<1> QED BY <1>1, <1>2, <1>3, InitFInv, NextFInv, PTL
        DEF Spec, FilesAreSequences, Abstract!Spec, Abstract!vars
=============================================================================
