----------------------------- MODULE ImageProps -----------------------------
(***************************************************************************)
(* Ways of looking at an image that the properties share: who owns which   *)
(* blocks, which names lead where, what a file holds.                      *)
(***************************************************************************)
EXTENDS Directory

Pointers(v) == {p \in Inodes \X Index : v.itab[p[1]].ptr[p[2]] # 0}
BlockAt(v, p) == v.itab[p[1]].ptr[p[2]]

PointersMarked(v)   == \A p \in Pointers(v) : BlockAt(v, p) \in v.bmap
NoBlockShared(v)    == \A p, q \in Pointers(v) : BlockAt(v, p) = BlockAt(v, q) => p = q
ReservedUntouched(v) == /\ 1 .. Reserved \subseteq v.bmap
                        /\ \A p \in Pointers(v) : BlockAt(v, p) > Reserved

FileBlocks(v, i) ==
  [k \in Index |-> LET b == get_inode_block(v, i, k) IN IF b = 0 THEN ZeroBlock ELSE v.blk[b]]

Directories(v) == {d \in v.imap : is_directory(v, d)}

\* The entries of directory d other than "." and "..", as places [k, s].
NamedPlaces(v, d) ==
  {p \in Index \X Slot :
     LET b == get_inode_block(v, d, p[1])
         w == v.blk[b][p[2]]
     IN  b # 0 /\ w.tag = "entry" /\ w.name \notin {Dot, DotDot}}
InoAt(v, d, p) == v.blk[get_inode_block(v, d, p[1])][p[2]].ino
Links(v) == {l \in Directories(v) \X (Index \X Slot) : l[2] \in NamedPlaces(v, l[1])}

\* Every allocated inode but 1 and the root has one name, and a name leads to
\* one of them or to no inode of the table.
NamesMatchInodes(v) ==
  /\ \A i \in v.imap \ {1, RootIno} :
       Cardinality({l \in Links(v) : InoAt(v, l[1], l[2]) = i}) = 1
  /\ \A l \in Links(v) : InoAt(v, l[1], l[2]) \in (v.imap \ {1, RootIno}) \cup {Bad}

\* The inodes that names lead to from the root: edges are pairs of a directory
\* and an inode it names.
ReachedBy(edges) ==
  LET at[n \in 0 .. MaxInodes] ==
        LET below == at[n - 1]
        IN  IF n = 0 THEN {RootIno}
            ELSE below \cup {e[2] : e \in {x \in edges : x[1] \in below}}
  IN  at[MaxInodes] \cap Inodes
Named(v) == ReachedBy({<<l[1], InoAt(v, l[1], l[2])>> : l \in Links(v)})
=============================================================================
