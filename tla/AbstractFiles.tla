---------------------------- MODULE AbstractFiles ----------------------------
(***************************************************************************)
(* What files promise to the user of create, delete, open, close, read,    *)
(* write and lseek: a file is a sequence of words, apart from every other; *)
(* a write puts its words where the descriptor stands, what it puts beyond *)
(* the end of the file counts when it finishes, and a read goes up to the  *)
(* end.  There are no blocks, no names and no directories here; a file may *)
(* be deleted while it is open, and its number given to another.           *)
(***************************************************************************)
EXTENDS Integers, Sequences

CONSTANTS
  Numbers,   \* the numbers files may have
  Fds,       \* the descriptors
  Data,      \* the text that is written
  MaxLength  \* the length no file exceeds

VARIABLES
  content, \* what is in each file there is
  fds,     \* the file and the place of each open descriptor
  write    \* the write that is going on

vars == <<content, fds, write>>

Idle == [busy |-> FALSE]

\* Words that were never written, after a write through a descriptor that stood
\* beyond the end: a hole stops a read, the rest is whatever was there.
Hole  == "hole"
Rest  == "rest"
Words == Data \cup {Hole, Rest}
Texts == UNION {[1 .. n -> Words] : n \in 0 .. MaxLength}

Exists(i) == i \in DOMAIN content
IsOpen(f) == f \in DOMAIN fds
FileOf(f) == fds[f].file

\* Every variable has its type.
TypeOK ==
  /\ DOMAIN content \subseteq Numbers /\ \A i \in DOMAIN content : content[i] \in Texts
  /\ DOMAIN fds \subseteq Fds
  /\ \A f \in DOMAIN fds : fds[f] \in [file : Numbers, at : 0 .. MaxLength]
  /\ write \in {Idle} \cup [busy : {TRUE}, fd : Fds, data : Data,
                            at : 0 .. MaxLength, left : 0 .. MaxLength]
  /\ write # Idle => IsOpen(write.fd)

Init ==
  /\ content = <<>>
  /\ fds = <<>>
  /\ write = Idle

\* Nothing changes in a file that is not written, but what was missing in it.
Kept(old, new) ==
  Len(old) = Len(new) /\ \A x \in 1 .. Len(old) : new[x] = old[x] \/ old[x] = Hole
OthersKept(is) ==
  /\ DOMAIN content \ is = DOMAIN content' \ is
  /\ \A j \in DOMAIN content \ is : Kept(content[j], content'[j])

Create ==
  \E i \in Numbers :
    /\ ~Exists(i) /\ Exists(i)' /\ content'[i] = <<>>
    /\ OthersKept({i})
    /\ UNCHANGED <<fds, write>>

Delete ==
  \E i \in Numbers :
    /\ Exists(i) /\ ~Exists(i)'
    /\ OthersKept({i})
    /\ UNCHANGED <<fds, write>>

Moved(f, to) == [g \in DOMAIN fds \cup {f} |-> IF g = f THEN to ELSE fds[g]]

Open ==
  \E i \in Numbers, f \in Fds :
    /\ Exists(i) /\ ~IsOpen(f)
    /\ fds' = Moved(f, [file |-> i, at |-> 0])
    /\ UNCHANGED <<content, write>>

Close ==
  \E f \in Fds :
    /\ write = Idle /\ IsOpen(f)
    /\ fds' = [g \in DOMAIN fds \ {f} |-> fds[g]]
    /\ UNCHANGED <<content, write>>

\* The next process starts with no descriptor, and an interrupted write is over.
Restart == fds' = <<>> /\ write' = Idle /\ UNCHANGED content

\* A read of n words from a place stops at the end or at a hole.
Reaches(c, at, n, to) ==
  /\ to \in at .. at + n
  /\ \A x \in at + 1 .. to : x <= Len(c) /\ c[x] # Hole
  /\ \/ to = at + n
     \/ to >= Len(c)
     \/ c[to + 1] = Hole

\* From a file that was deleted, anything may be read.
Read ==
  \E f \in Fds, n \in 1 .. MaxLength, to \in 0 .. MaxLength :
    /\ write = Idle /\ IsOpen(f)
    /\ Exists(FileOf(f)) => Reaches(content[FileOf(f)], fds[f].at, n, to)
    /\ fds' = Moved(f, [file |-> FileOf(f), at |-> to])
    /\ UNCHANGED <<content, write>>

Seek ==
  \E f \in Fds, to \in 0 .. MaxLength :
    /\ write = Idle /\ IsOpen(f)
    /\ Exists(FileOf(f)) => to <= Len(content[FileOf(f)])
    /\ fds' = Moved(f, [file |-> FileOf(f), at |-> to])
    /\ UNCHANGED <<content, write>>

StartWrite ==
  \E f \in Fds, d \in Data, n \in 1 .. MaxLength :
    /\ write = Idle /\ IsOpen(f)
    /\ write' = [busy |-> TRUE, fd |-> f, data |-> d, at |-> fds[f].at, left |-> n]
    /\ UNCHANGED <<content, fds>>

\* The file a write goes to is now size words long, those between the two places
\* are d, and those there were before are as they were.
Written(i, size, from, to, d) ==
  /\ Exists(i) =>
       /\ Exists(i)' /\ Len(content'[i]) = size
       /\ \A x \in 1 .. size :
            IF x \in from + 1 .. to THEN content'[i][x] = d
            ELSE x <= Len(content[i]) =>
                   content'[i][x] = content[i][x] \/ content[i][x] = Hole
  /\ ~Exists(i) => ~Exists(i)'
  /\ OthersKept({i})

\* Some words reach the file, where it has words already; a write that breaks
\* off has nothing left.
WriteSome ==
  /\ write # Idle /\ write.left > 0
  /\ \E n \in 0 .. write.left, broken \in BOOLEAN :
       /\ write' = [write EXCEPT !.at = @ + n, !.left = IF broken THEN 0 ELSE @ - n]
       /\ \E i \in {FileOf(write.fd)} :
            Written(i, IF Exists(i) THEN Len(content[i]) ELSE 0, write.at, write.at + n, write.data)
  /\ UNCHANGED fds

\* The end of the file and the descriptor follow.
FinishWrite ==
  /\ write # Idle /\ write.left = 0
  /\ write' = Idle
  /\ fds' = [fds EXCEPT ![write.fd].at = write.at]
  /\ \E i \in {FileOf(write.fd)} :
       Written(i, IF Exists(i) /\ Len(content[i]) > write.at THEN Len(content[i]) ELSE write.at,
               fds[write.fd].at, write.at, write.data)

\* Commands that are not about files may still put an end to a hole.
Elsewhere == OthersKept({}) /\ UNCHANGED <<fds, write>>

Next ==
  \/ Create \/ Delete \/ Open \/ Close \/ Restart \/ Read \/ Seek
  \/ StartWrite \/ WriteSome \/ FinishWrite \/ Elsewhere

Spec == Init /\ [][Next]_vars
=============================================================================
