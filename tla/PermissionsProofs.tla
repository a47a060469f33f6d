------------------------- MODULE PermissionsProofs -------------------------
(***************************************************************************)
(* That nobody looks into or changes a file without the bit for it, and    *)
(* that in a home nobody is refused one with it, for all users, trees of   *)
(* files, modes, owners, paths and numbers of open files.                  *)
(***************************************************************************)
EXTENDS Permissions, SequenceTheorems, WellFoundedInduction, TLAPS

\* What a check relies on: modes are sets of bits, whoever changed them.
Typed == \A c \in DOMAIN node : node[c] \in Node

Identities == Users \cup {Root, Nobody}

Inv == Typed /\ user \in Identities /\ LooksByTheBits

----------------------------------------------------------------------------
LEMMA IdentityTypes ==
  ASSUME NEW u \in Identities
  PROVE  u.uid \in Nat /\ u.gid \in Nat
<1>1. CASE u \in Users
  BY <1>1, PermissionsAssumption
<1>2. Root.uid \in Nat /\ Root.gid \in Nat
  BY DEF Root
<1>3. Nobody.uid \in Nat /\ Nobody.gid \in Nat
  BY DEF Nobody
<1> QED BY <1>1, <1>2, <1>3 DEF Identities

\* A check for a bit of the owner is one for the bit of the user's own class,
\* unless that is the group.
LEMMA CheckAsksTheBit ==
  ASSUME NEW c \in DOMAIN node, node[c] \in Node, NEW l,
         check_permission(c, OwnerBits({l})), ClassOf(user, c) # "g"
  PROVE  ByTheBits(c, l)
<1> DEFINE k == ClassOf(user, c)
<1>1. CASE user.uid = 0
  BY <1>1 DEF ByTheBits
<1>2. CASE user.uid # 0
  <2>1. Letters(OwnerBits({l}), "u") \subseteq Letters(node[c].mode, k)
    BY <1>2 DEF check_permission, Required
  <2>2. l \in Letters(OwnerBits({l}), "u")
    <3>1. <<"u", l>> \in OwnerBits({l})
      BY DEF OwnerBits
    <3> QED BY <3>1 DEF Letters
  <2>3. PICK b \in node[c].mode : b[1] = k /\ b[2] = l
    BY <2>1, <2>2 DEF Letters
  <2>4. b = <<k, l>>
    <3>1. b \in Bits
      BY DEF Node
    <3> QED BY <2>3, <3>1 DEF Bits
  <2> QED BY <2>3, <2>4 DEF ByTheBits
<1> QED BY <1>1, <1>2

\* A command that asked for the bit, and left alone who asks and what was looked at.
LEMMA LookedByTheBits ==
  ASSUME Inv, NEW c \in DOMAIN node, NEW what \in DOMAIN LetterOf,
         check_permission(c, OwnerBits({LetterOf[what]})),
         user' = user, node'[c] = node[c], done' = Did(what, c)
  PROVE  LooksByTheBits'
<1>1. ClassOf(user, c) # "g" => ByTheBits(c, LetterOf[what])
  BY CheckAsksTheBit DEF Inv, Typed
<1>2. done'.at = c /\ done'.op = what
  BY DEF Did
<1>3. ClassOf(user, c)' = ClassOf(user, c) /\ (ByTheBits(c, LetterOf[what])' <=> ByTheBits(c, LetterOf[what]))
  BY DEF ClassOf, ByTheBits
<1> QED BY <1>1, <1>2, <1>3 DEF LooksByTheBits, ClassOf, ByTheBits

LEMMA IdleLooksNowhere == ASSUME done' = Idle PROVE LooksByTheBits'
BY DEF Idle, Did, LooksByTheBits, Looked

\* A new file or directory is in the tree with its owner and its mode.
LEMMA MadeNode ==
  ASSUME Inv, NEW c, NEW isDir \in BOOLEAN, ~There(c), MakeNode(c, isDir)
  PROVE  Inv'
<1> DEFINE new == [uid |-> user.uid, gid |-> user.gid, dir |-> isDir,
                   mode |-> IF isDir THEN DirMode ELSE FileMode]
<1>1. new \in Node
  BY IdentityTypes DEF Inv, Node, DirMode, FileMode, Rwx, Bits
<1> HIDE DEF new
<1>2. node' = [x \in DOMAIN node \cup {c} |-> IF x = c THEN new ELSE node[x]]
  BY DEF MakeNode, new
<1>3. DOMAIN node' = DOMAIN node \cup {c} /\ node'[c] = new
      /\ \A x \in DOMAIN node \ {c} : node'[x] = node[x]
  BY <1>2
<1>4. Typed' /\ user' \in Identities
  BY <1>1, <1>3 DEF Inv, Typed, MakeNode
<1>5. Front(c) \in DOMAIN node /\ node'[Front(c)] = node[Front(c)]
  BY <1>3 DEF MakeNode, IsDir, There
<1>6. LooksByTheBits'
  <2>1. "make" \in DOMAIN LetterOf /\ LetterOf["make"] = "w"
    BY DEF LetterOf
  <2> QED BY <1>5, <2>1, LookedByTheBits DEF MakeNode
<1> QED BY <1>4, <1>6 DEF Inv

----------------------------------------------------------------------------
LEMMA InitInv == Init => Inv
<1> SUFFICES ASSUME Init PROVE Inv
  OBVIOUS
<1>1. Typed /\ user \in Identities
  BY PermissionsAssumption DEF Init, Typed, Identities
<1>2. LooksByTheBits
  BY DEF Init, Idle, Did, LooksByTheBits, Looked
<1> QED BY <1>1, <1>2 DEF Inv

LEMMA StepInv == Inv /\ [Next]_vars => Inv'
<1> SUFFICES ASSUME Inv, [Next]_vars PROVE Inv'
  OBVIOUS
<1>1. CASE \E u \in Users \cup {Root} : Login(u)
  BY <1>1, IdleLooksNowhere DEF Login, Inv, Typed, Identities
<1>2. CASE Logout
  BY <1>2, IdleLooksNowhere DEF Logout, Inv, Typed, Identities
<1>3. CASE \E p \in ChangedPaths : \E m \in Modes : Chmod(p, m)
  <2>1. PICK p \in ChangedPaths, m \in Modes : Chmod(p, m)
    BY <1>3
  <2>2. m \in SUBSET Bits
    BY PermissionsAssumption
  <2>3. \A c \in DOMAIN node' : node'[c] \in Node
    BY <2>1, <2>2 DEF Chmod, Inv, Typed, Node, There
  <2> QED BY <2>1, <2>3, IdleLooksNowhere DEF Chmod, Inv, Typed
<1>4. CASE \E p \in ChangedPaths : \E u \in Owners : Chown(p, u)
  <2>1. PICK p \in ChangedPaths, u \in Owners : Chown(p, u)
    BY <1>4
  <2>2. u.uid \in Nat /\ u.gid \in Nat
    BY PermissionsAssumption
  <2>3. \A c \in DOMAIN node' : node'[c] \in Node
    BY <2>1, <2>2 DEF Chown, Inv, Typed, Node, There
  <2> QED BY <2>1, <2>3, IdleLooksNowhere DEF Chown, Inv, Typed
<1>5. CASE \E p \in NewFiles : Create(p)
  BY <1>5, MadeNode DEF Create
<1>6. CASE \E p \in NewDirs : Mkdir(p)
  BY <1>6, MadeNode DEF Mkdir
<1>7. CASE \E p \in DeletePaths : Delete(p)
  BY <1>7, IdleLooksNowhere DEF Delete, Inv, Typed
<1>8. CASE \E p \in OpenPaths : \E fl \in Flags : Open(p, fl)
  BY <1>8, IdleLooksNowhere DEF Open, Inv, Typed
<1>9. CASE \E f \in open : Close(f)
  BY <1>9, IdleLooksNowhere DEF Close, Inv, Typed
<1>10. ASSUME NEW c, NEW what \in DOMAIN LetterOf,
              check_permission(c, OwnerBits({LetterOf[what]})),
              user' = user, node' = node, done' = Did(what, c)
       PROVE  Inv'
  <2>1. c \in DOMAIN node
    BY <1>10 DEF check_permission, There
  <2> QED BY <1>10, <2>1, LookedByTheBits DEF Inv, Typed
<1>11. /\ "read" \in DOMAIN LetterOf /\ LetterOf["read"] = "r"
       /\ "write" \in DOMAIN LetterOf /\ LetterOf["write"] = "w"
       /\ "list" \in DOMAIN LetterOf /\ LetterOf["list"] = "r"
       /\ "enter" \in DOMAIN LetterOf /\ LetterOf["enter"] = "x"
  BY DEF LetterOf
<1>12. CASE \E f \in open : Read(f)
  BY <1>10, <1>11, <1>12 DEF Read
<1>13. CASE \E f \in open : Write(f)
  BY <1>10, <1>11, <1>13 DEF Write
<1>14. CASE \E p \in DirPaths : Dir(p)
  BY <1>10, <1>11, <1>14 DEF Dir
<1>15. CASE \E p \in CdPaths : Cd(p)
  BY <1>10, <1>11, <1>15 DEF Cd
<1>16. CASE UNCHANGED vars
  BY <1>16 DEF vars, Inv, Typed, LooksByTheBits, Looked, ClassOf, ByTheBits
<1> QED BY <1>1, <1>2, <1>3, <1>4, <1>5, <1>6, <1>7, <1>8, <1>9, <1>12, <1>13, <1>14, <1>15, <1>16
        DEF Next

\* Whatever was made, changed hands, changed mode or was opened before, and by whom:
\* no user reads, writes, lists, enters or adds to what the bits of the owner or of
\* others keep the user from, at that moment.
THEOREM NobodyLooksWithoutTheBit == Spec => []LooksByTheBits
<1>1. Inv => LooksByTheBits
  BY DEF Inv
<1> QED BY <1>1, InitInv, StepInv, PTL DEF Spec

----------------------------------------------------------------------------
(* Paths *)

LEMMA LeastOf ==
  ASSUME NEW S, S \subseteq Nat, S # {}
  PROVE  \E x \in S : \A y \in S : x <= y
<1>1. PICK x \in S : \A y \in S : ~ (<<y, x>> \in OpToRel(<, Nat))
  BY NatLessThanWellFounded, WFMin
<1>2. \A y \in S : ~ (y < x)
  BY <1>1, Zenon DEF OpToRel
<1> QED BY <1>2

\* The steps of a walk of names ns, over the sets of places FoldLeft folds.
Walks(w, start, ns, n) ==
  w = [s \in SUBSET (1 .. n) |->
         IF s = {} THEN start ELSE Stepped(w[s \ {Max(s)}], ns[Max(s)])]

LEMMA LargestOf == ASSUME NEW S, S \subseteq Nat, NEW n \in S, \A y \in S : y <= n PROVE Max(S) = n
<1>1. n \in S /\ \A y \in S : n >= y
  OBVIOUS
<1>2. \A m \in S : (\A y \in S : m >= y) => m = n
  OBVIOUS
<1> QED BY <1>1, <1>2 DEF Max

LEMMA WalkExists ==
  ASSUME NEW start, NEW ns, NEW m \in Nat
  PROVE  \E w : Walks(w, start, ns, m)
<1> DEFINE Without == {n \in Nat : ~ \E w : Walks(w, start, ns, n)}
<1>1. CASE Without = {}
  BY <1>1
<1>2. CASE Without # {}
  <2>1. PICK n \in Without : \A y \in Without : n <= y
    BY <1>2, LeastOf
  <2>2. n \in Nat /\ ~ \E w : Walks(w, start, ns, n)
    OBVIOUS
  <2>3. n # 0
    <3>1. SUBSET (1 .. 0) = {{}}
      OBVIOUS
    <3>2. Walks([s \in SUBSET (1 .. 0) |-> start], start, ns, 0)
      BY <3>1 DEF Walks
    <3> QED BY <2>2, <3>2
  <2>4. n - 1 \in Nat /\ n - 1 \notin Without
    BY <2>1, <2>2, <2>3
  <2>5. PICK w : Walks(w, start, ns, n - 1)
    BY <2>4
  <2> HIDE DEF Without
  <2> DEFINE old == SUBSET (1 .. n - 1)
             new == [s \in SUBSET (1 .. n) |->
                       IF s = {} THEN start
                       ELSE IF n \in s THEN Stepped(w[s \ {n}], ns[n]) ELSE w[s]]
  <2>6. w = [s \in old |-> IF s = {} THEN start ELSE Stepped(w[s \ {Max(s)}], ns[Max(s)])]
    BY <2>5 DEF Walks
  <2>7. \A s \in SUBSET (1 .. n) : n \notin s => s \in old
    BY <2>2
  <2>8. \A s \in old : s \in SUBSET (1 .. n) /\ n \notin s
    BY <2>2
  <2>9. w[{}] = start
    BY <2>6
  <2>10. \A s \in old : new[s] = w[s]
    BY <2>8, <2>9
  <2>11. ASSUME NEW s \in SUBSET (1 .. n)
         PROVE  new[s] = IF s = {} THEN start ELSE Stepped(new[s \ {Max(s)}], ns[Max(s)])
    <3>1. CASE s = {}
      BY <3>1
    <3>2. CASE s # {} /\ n \in s
      <4>1. Max(s) = n
        <5>1. s \subseteq Nat /\ n \in s /\ \A y \in s : y <= n
          BY <2>2, <3>2
        <5> QED BY <5>1, LargestOf
      <4>2. s \ {n} \in old
        BY <2>7
      <4>3. new[s] = Stepped(w[s \ {n}], ns[n])
        BY <3>2
      <4>4. new[s \ {n}] = w[s \ {n}]
        BY <2>10, <4>2
      <4> HIDE DEF new
      <4> QED BY <3>2, <4>1, <4>3, <4>4
    <3>3. CASE s # {} /\ n \notin s
      <4>1. s \in old /\ s \ {Max(s)} \in old
        BY <2>7, <3>3
      <4>2. new[s] = w[s] /\ new[s \ {Max(s)}] = w[s \ {Max(s)}]
        BY <2>10, <4>1
      <4>3. w[s] = Stepped(w[s \ {Max(s)}], ns[Max(s)])
        BY <2>6, <3>3, <4>1
      <4> HIDE DEF new
      <4> QED BY <3>3, <4>2, <4>3
    <3> QED BY <3>1, <3>2, <3>3
  <2>12. new = [s \in SUBSET (1 .. n) |-> new[s]]
    OBVIOUS
  <2> HIDE DEF new
  <2>13. Walks(new, start, ns, n)
    BY <2>11, <2>12 DEF Walks
  <2> QED BY <2>2, <2>13
<1> QED BY <1>1, <1>2

\* Name by name, the fold leads to where its steps lead.
LEMMA FoldWalks ==
  ASSUME NEW start, NEW ns \in Seq(STRING)
  PROVE  \E at : /\ at[0] = start
                 /\ \A k \in 1 .. Len(ns) : at[k] = Stepped(at[k - 1], ns[k])
                 /\ FoldLeft(Stepped, start, ns) = at[Len(ns)]
<1> DEFINE n == Len(ns)
           w == CHOOSE w : Walks(w, start, ns, n)
           at == [k \in 0 .. n |-> w[1 .. k]]
<1>1. n \in Nat /\ DOMAIN ns = 1 .. n
  OBVIOUS
<1>2. FoldLeft(Stepped, start, ns) = w[1 .. n]
  BY <1>1 DEF FoldLeft, MapThenFoldSet, Walks
<1>3. Walks(w, start, ns, n)
  BY <1>1, WalkExists
<1> HIDE DEF w
<1>4. \A s \in SUBSET (1 .. n) :
        w[s] = IF s = {} THEN start ELSE Stepped(w[s \ {Max(s)}], ns[Max(s)])
  BY <1>3 DEF Walks
<1>5. w[1 .. 0] = start
  <2>1. 1 .. 0 = {}
    OBVIOUS
  <2> QED BY <1>4, <2>1
<1>6. ASSUME NEW k \in 1 .. n PROVE w[1 .. k] = Stepped(w[1 .. k - 1], ns[k])
  <2>1. 1 .. k \in SUBSET (1 .. n) /\ k \in 1 .. k /\ (1 .. k) \ {k} = 1 .. k - 1
    BY <1>1
  <2>2. Max(1 .. k) = k
    <3>1. 1 .. k \subseteq Nat /\ \A y \in 1 .. k : y <= k
      OBVIOUS
    <3> QED BY <2>1, <3>1, LargestOf
  <2> QED BY <1>4, <2>1, <2>2
<1>7. at[0] = start /\ at[n] = w[1 .. n] /\ \A k \in 1 .. n : at[k] = Stepped(at[k - 1], ns[k])
  BY <1>1, <1>5, <1>6
<1> QED BY <1>2, <1>7

\* Where a walk leads has names only.
LEMMA WalkHasNames ==
  ASSUME NEW start \in Seq(Name), NEW ns \in Seq(STRING)
  PROVE  FoldLeft(Stepped, start, ns) \in Seq(Name)
<1>1. PICK at : /\ at[0] = start
                /\ \A k \in 1 .. Len(ns) : at[k] = Stepped(at[k - 1], ns[k])
                /\ FoldLeft(Stepped, start, ns) = at[Len(ns)]
  BY FoldWalks
<1> DEFINE Off == {k \in 0 .. Len(ns) : at[k] \notin Seq(Name)}
<1>2. CASE Off = {}
  BY <1>1, <1>2
<1>3. CASE Off # {}
  <2>0. Off \subseteq Nat
    OBVIOUS
  <2> HIDE DEF Off
  <2>1. PICK k \in Off : \A y \in Off : k <= y
    BY <1>3, <2>0, LeastOf
  <2>2. k \in 1 .. Len(ns) /\ at[k] \notin Seq(Name)
    BY <1>1 DEF Off
  <2>3. at[k - 1] \in Seq(Name)
    <3>1. k - 1 \notin Off
      BY <2>1, <2>2
    <3> QED BY <2>2, <3>1 DEF Off
  <2>4. ns[k] \in STRING
    BY <2>2
  <2>5. Stepped(at[k - 1], ns[k]) \in Seq(Name)
    <3>1. CASE ns[k] = "."
      BY <2>3, <3>1 DEF Stepped
    <3>2. CASE ns[k] = ".."
      <4>1. SubSeq(at[k - 1], 1, Len(at[k - 1]) - 1) \in Seq(Name)
        BY <2>3
      <4> QED BY <3>2, <4>1 DEF Stepped
    <3>3. CASE ns[k] # "." /\ ns[k] # ".."
      <4>1. ns[k] \in Name
        BY <2>4, <3>3 DEF Name
      <4> QED BY <2>3, <3>3, <4>1 DEF Stepped
    <3> QED BY <3>1, <3>2, <3>3
  <2> QED BY <1>1, <2>2, <2>5
<1> QED BY <1>2, <1>3

\* Names lead from the root to themselves.
LEMMA NamesLeadThere ==
  ASSUME NEW ns \in Seq(Name)
  PROVE  FoldLeft(Stepped, <<>>, ns) = ns
<1>0. ns \in Seq(STRING)
  BY DEF Name
<1>1. PICK at : /\ at[0] = <<>>
                /\ \A k \in 1 .. Len(ns) : at[k] = Stepped(at[k - 1], ns[k])
                /\ FoldLeft(Stepped, <<>>, ns) = at[Len(ns)]
  BY <1>0, FoldWalks
<1> DEFINE Off == {k \in 0 .. Len(ns) : at[k] # SubSeq(ns, 1, k)}
<1>2. CASE Off = {}
  <2>1. at[Len(ns)] = SubSeq(ns, 1, Len(ns))
    BY <1>2
  <2> QED BY <1>1, <2>1
<1>3. CASE Off # {}
  <2>0. Off \subseteq Nat
    OBVIOUS
  <2> HIDE DEF Off
  <2>1. PICK k \in Off : \A y \in Off : k <= y
    BY <1>3, <2>0, LeastOf
  <2>2. k \in 1 .. Len(ns) /\ at[k] # SubSeq(ns, 1, k)
    <3>1. SubSeq(ns, 1, 0) = <<>> /\ at[0] = <<>>
      BY <1>1
    <3>2. k \in 0 .. Len(ns) /\ at[k] # SubSeq(ns, 1, k)
      BY DEF Off
    <3>3. k # 0
      BY <3>1, <3>2, Zenon
    <3>4. k \in 0 .. Len(ns) /\ k # 0 => k \in 1 .. Len(ns)
      OBVIOUS
    <3> QED BY <3>2, <3>3, <3>4, Zenon
  <2>3. at[k - 1] = SubSeq(ns, 1, k - 1)
    <3>1. k - 1 \notin Off
      BY <2>1, <2>2
    <3> QED BY <2>2, <3>1 DEF Off
  <2>4. ns[k] \in Name
    BY <2>2
  <2>5. at[k] = Append(SubSeq(ns, 1, k - 1), ns[k])
    <3>1. at[k] = Stepped(SubSeq(ns, 1, k - 1), ns[k])
      BY <1>1, <2>2, <2>3
    <3> QED BY <2>4, <3>1 DEF Stepped, Name
  <2>6. Append(SubSeq(ns, 1, k - 1), ns[k]) = SubSeq(ns, 1, k)
    BY <2>2
  <2> QED BY <2>2, <2>5, <2>6
<1> QED BY <1>2, <1>3

----------------------------------------------------------------------------
(* The tree *)

HangsFromRoot == /\ DOMAIN node \subseteq Seq(Name) /\ IsDir(<<>>)
        /\ \A c \in DOMAIN node : \A k \in 0 .. Len(c) - 1 : IsDir(SubSeq(c, 1, k))

\* Whatever is made, removed or entered: what has a name hangs in directories from
\* the root, and the working directory's name has no "." or "..".
TreeInv == Inv /\ HangsFromRoot /\ cwd \in Seq(Name)

Given == UNION {ChangedPaths, NewFiles, NewDirs, OpenPaths, CdPaths, DirPaths, DeletePaths}

LEMMA TargetHasNames ==
  ASSUME cwd \in Seq(Name), NEW p \in Given
  PROVE  Target(p) \in Seq(Name)
<1>1. p.comps \in Seq(STRING)
  BY PathsAssumption DEF Given
<1>2. <<>> \in Seq(Name)
  OBVIOUS
<1>3. FoldLeft(Stepped, IF p.abs THEN <<>> ELSE cwd, p.comps) \in Seq(Name)
  BY <1>1, <1>2, WalkHasNames
<1> QED BY <1>3 DEF Target

LEMMA FrontLength ==
  ASSUME NEW c \in Seq(Name), c # <<>>
  PROVE  Len(c) \in Nat /\ Len(SubSeq(c, 1, Len(c) - 1)) = Len(c) - 1
<1>1. Len(c) \in Nat /\ Len(c) # 0
  BY EmptySeq
<1>2. ASSUME NEW m \in Nat, NEW n \in Nat, n # 0, m = n - 1, n = Len(c)
      PROVE  Len(SubSeq(c, 1, m)) = m
  <2>1. \A i \in 1 .. m : c[i] \in Name
    BY <1>2
  <2>2. 1 \in Int /\ m \in Int
    OBVIOUS
  <2>3. Len(SubSeq(c, 1, m)) = IF 1 <= m THEN m - 1 + 1 ELSE 0
    BY <2>1, <2>2, SubSeqProperties
  <2>4. (IF 1 <= m THEN m - 1 + 1 ELSE 0) = m
    OBVIOUS
  <2> QED BY <2>3, <2>4
<1>3. Len(c) - 1 \in Nat
  BY <1>1
<1> QED BY <1>1, <1>2, <1>3, Zenon

\* Nodes that stay directories keep the tree, if all that is new has its directories.
LEMMA MadeInTree ==
  ASSUME HangsFromRoot, NEW c \in Seq(Name), c # <<>>, NEW isDir \in BOOLEAN, ~There(c), MakeNode(c, isDir)
  PROVE  HangsFromRoot'
<1>1. /\ DOMAIN node' = DOMAIN node \cup {c}
      /\ \A x \in DOMAIN node : node'[x] = node[x]
  BY DEF MakeNode, There
<1>2. \A x : IsDir(x) => IsDir(x)'
  BY <1>1 DEF IsDir, There
<1>3. IsDir(Front(c)) /\ Front(c) = SubSeq(c, 1, Len(c) - 1)
  BY DEF MakeNode, Front
<1>4. ASSUME NEW k \in 0 .. Len(c) - 1 PROVE IsDir(SubSeq(c, 1, k))
  <2>1. CASE k = Len(c) - 1
    BY <1>3, <2>1
  <2>2. CASE k # Len(c) - 1
    <3>1. Len(c) \in Nat /\ Len(Front(c)) = Len(c) - 1
      BY <1>3, FrontLength, Zenon
    <3>2. k \in 0 .. Len(Front(c)) - 1
      BY <2>2, <3>1
    <3>3. Front(c) \in DOMAIN node
      BY <1>3 DEF IsDir, There
    <3>4. SubSeq(Front(c), 1, k) = SubSeq(c, 1, k)
      BY <1>3, <3>1, <3>2
    <3> QED BY <3>2, <3>3, <3>4 DEF HangsFromRoot
  <2> QED BY <2>1, <2>2
<1>5. DOMAIN node' \subseteq Seq(Name)
  BY <1>1 DEF HangsFromRoot
<1>6. \A x \in DOMAIN node' : \A k \in 0 .. Len(x) - 1 : IsDir(SubSeq(x, 1, k))
  BY <1>1, <1>4 DEF HangsFromRoot
<1>7. \A x \in DOMAIN node' : \A k \in 0 .. Len(x) - 1 : IsDir(SubSeq(x, 1, k))'
  BY <1>2, <1>6
<1> QED BY <1>2, <1>5, <1>7 DEF HangsFromRoot

LEMMA SameTree ==
  ASSUME HangsFromRoot, DOMAIN node' \subseteq DOMAIN node,
         \A x \in DOMAIN node : IsDir(x) => x \in DOMAIN node' /\ node'[x].dir = node[x].dir
  PROVE  HangsFromRoot'
<1>1. \A x : IsDir(x) => IsDir(x)'
  BY DEF IsDir, There
<1>2. \A x \in DOMAIN node' : \A k \in 0 .. Len(x) - 1 : IsDir(SubSeq(x, 1, k))
  BY DEF HangsFromRoot
<1>3. \A x \in DOMAIN node' : \A k \in 0 .. Len(x) - 1 : IsDir(SubSeq(x, 1, k))'
  BY <1>1, <1>2
<1> QED BY <1>1, <1>3 DEF HangsFromRoot

LEMMA InitTree == Init => TreeInv
<1> SUFFICES ASSUME Init PROVE TreeInv
  OBVIOUS
<1>1. node = FirstNodes /\ cwd = <<>>
  BY DEF Init
<1>2. cwd \in Seq(Name)
  BY <1>1
<1>3. HangsFromRoot
  BY <1>1, TreeAssumption, PermissionsAssumption DEF HangsFromRoot, IsDir, There
<1> QED BY <1>2, <1>3, InitInv DEF TreeInv

LEMMA StepTree == TreeInv /\ [Next]_vars => TreeInv'
<1> SUFFICES ASSUME TreeInv, [Next]_vars
             PROVE  HangsFromRoot' /\ cwd' \in Seq(Name)
  BY StepInv DEF TreeInv
<1>0. HangsFromRoot /\ cwd \in Seq(Name)
  BY DEF TreeInv
<1>1. ASSUME node' = node PROVE HangsFromRoot'
  BY <1>0, <1>1, SameTree
<1>2. CASE \E u \in Users \cup {Root} : Login(u)
  <2>1. cwd' \in DOMAIN node /\ node' = node
    BY <1>2 DEF Login, There
  <2> QED BY <1>0, <1>1, <2>1 DEF HangsFromRoot
<1>3. ASSUME NEW p \in ChangedPaths, (\E m \in Modes : Chmod(p, m)) \/ (\E u \in Owners : Chown(p, u))
      PROVE  HangsFromRoot' /\ cwd' \in Seq(Name)
  <2>1. DOMAIN node' = DOMAIN node /\ cwd' = cwd /\ \A x \in DOMAIN node : node'[x].dir = node[x].dir
    <3>1. \A x \in DOMAIN node : node[x] \in Node
      BY DEF TreeInv, Inv, Typed
    <3>2. CASE \E m \in Modes : Chmod(p, m)
      BY <3>1, <3>2 DEF Chmod, Node, There
    <3>3. CASE \E u \in Owners : Chown(p, u)
      BY <3>1, <3>3 DEF Chown, Node, There
    <3> QED BY <1>3, <3>2, <3>3
  <2> QED BY <1>0, <2>1, SameTree
<1>4. ASSUME NEW p \in NewFiles \cup NewDirs, NEW isDir \in BOOLEAN,
             ~There(Target(p)), MakeNode(Target(p), isDir)
      PROVE  HangsFromRoot' /\ cwd' \in Seq(Name)
  <2>1. Target(p) \in Seq(Name)
    BY <1>0, TargetHasNames DEF Given
  <2>2. Target(p) # <<>>
    BY <1>0, <1>4 DEF HangsFromRoot, IsDir, There
  <2>3. cwd' = cwd /\ DOMAIN node' = DOMAIN node \cup {Target(p)}
    BY <1>4 DEF MakeNode
  <2> QED BY <1>0, <1>4, <2>1, <2>2, <2>3, MadeInTree
<1>5. CASE \E p \in NewFiles : Create(p)
  BY <1>4, <1>5 DEF Create
<1>6. CASE \E p \in NewDirs : Mkdir(p)
  BY <1>4, <1>6 DEF Mkdir
<1>7. CASE \E p \in DeletePaths : Delete(p)
  <2>1. PICK p \in DeletePaths : Delete(p)
    BY <1>7
  <2>2. /\ ~IsDir(Target(p)) /\ There(Target(p)) /\ cwd' = cwd
        /\ node' = [x \in DOMAIN node \ {Target(p)} |-> node[x]]
    BY <2>1 DEF Delete
  <2>3. DOMAIN node' = DOMAIN node \ {Target(p)} /\ \A x \in DOMAIN node' : node'[x] = node[x]
    BY <2>2
  <2>4. \A x \in DOMAIN node : IsDir(x) => x \in DOMAIN node' /\ node'[x].dir = node[x].dir
    BY <2>2, <2>3
  <2> QED BY <1>0, <2>2, <2>3, <2>4, SameTree
<1>8. CASE \E p \in OpenPaths : \E fl \in Flags : Open(p, fl)
  BY <1>0, <1>1, <1>8 DEF Open
<1>9. CASE \E f \in open : Close(f) \/ Read(f) \/ Write(f)
  BY <1>0, <1>1, <1>9 DEF Close, Read, Write
<1>10. CASE \E p \in DirPaths : Dir(p)
  BY <1>0, <1>1, <1>10 DEF Dir
<1>11. CASE \E p \in CdPaths : Cd(p)
  <2>1. PICK p \in CdPaths : Cd(p)
    BY <1>11
  <2>2. Target(p) \in Seq(Name)
    BY <1>0, TargetHasNames DEF Given
  <2> QED BY <1>0, <1>1, <2>1, <2>2 DEF Cd
<1>12. CASE Logout
  BY <1>0, <1>1, <1>12 DEF Logout
<1>13. CASE UNCHANGED vars
  BY <1>0, <1>1, <1>13 DEF vars
<1> QED BY <1>2, <1>3, <1>5, <1>6, <1>7, <1>8, <1>9, <1>10, <1>11, <1>12, <1>13 DEF Next

----------------------------------------------------------------------------
(* Opening in a home *)

LEMMA LettersOfMode ==
  ASSUME NEW c \in DOMAIN node, node[c] \in Node, NEW k, NEW l
  PROVE  l \in Letters(node[c].mode, k) <=> <<k, l>> \in node[c].mode
<1>1. \A b \in node[c].mode : b \in Bits
  BY DEF Node
<1>2. ASSUME l \in Letters(node[c].mode, k) PROVE <<k, l>> \in node[c].mode
  <2>1. PICK b \in node[c].mode : b[1] = k /\ b[2] = l
    BY <1>2 DEF Letters
  <2>2. b = <<k, l>>
    BY <1>1, <2>1 DEF Bits
  <2> QED BY <2>1, <2>2
<1>3. ASSUME <<k, l>> \in node[c].mode PROVE l \in Letters(node[c].mode, k)
  BY <1>3 DEF Letters
<1> QED BY <1>2, <1>3

LEMMA LettersOfOwner ==
  ASSUME NEW ls
  PROVE  Letters(OwnerBits(ls), "u") = ls /\ Letters(OwnerBits(ls), "o") = {}
<1>1. \A l \in ls : <<"u", l>> \in OwnerBits(ls)
  BY DEF OwnerBits
<1>2. \A b \in OwnerBits(ls) : b[1] = "u" /\ b[2] \in ls
  BY DEF OwnerBits
<1>3. Letters(OwnerBits(ls), "u") = ls
  <2>1. \A l \in Letters(OwnerBits(ls), "u") : l \in ls
    BY <1>2 DEF Letters
  <2>2. ASSUME NEW l \in ls PROVE l \in Letters(OwnerBits(ls), "u")
    <3>1. <<"u", l>> \in OwnerBits(ls) /\ <<"u", l>>[1] = "u" /\ <<"u", l>>[2] = l
      BY <1>1
    <3> QED BY <3>1, Zenon DEF Letters
  <2> QED BY <2>1, <2>2
<1>4. Letters(OwnerBits(ls), "o") = {}
  BY <1>2 DEF Letters
<1> QED BY <1>3, <1>4

\* A directory on the way is passed exactly when the class's bit says so.
LEMMA PassesByTheBits ==
  ASSUME NEW c \in DOMAIN node, node[c] \in Node
  PROVE  MayPass(c) <=> ByTheBits(c, "x")
<1> DEFINE k == ClassOf(user, c)
<1>1. Letters({<<k, "x">>}, k) = {"x"}
  <2>1. <<k, "x">>[1] = k /\ <<k, "x">>[2] = "x"
    OBVIOUS
  <2> QED BY <2>1, Zenon DEF Letters
<1>2. "x" \in Letters(node[c].mode, k) <=> <<k, "x">> \in node[c].mode
  BY LettersOfMode
<1>3. There(c)
  BY DEF There
<1> HIDE DEF k
<1>4. MayPass(c) <=> user.uid = 0 \/ {"x"} \subseteq Letters(node[c].mode, k)
  BY <1>1, <1>3 DEF MayPass, check_file_permission, k
<1>5. ByTheBits(c, "x") <=> user.uid = 0 \/ <<k, "x">> \in node[c].mode
  BY DEF ByTheBits, k
<1> QED BY <1>2, <1>4, <1>5

\* The file's check asks for the bits of the class, the one on the path for no more.
LEMMA OpensByTheBits ==
  ASSUME NEW c \in DOMAIN node, node[c] \in Node, ClassOf(user, c) # "g", NEW ls
  PROVE  /\ check_permission(c, OwnerBits(ls)) <=> \A l \in ls : ByTheBits(c, l)
         /\ check_permission(c, OwnerBits(ls)) => check_file_permission(c, OwnerBits(ls))
<1> DEFINE k == ClassOf(user, c)
<1>1. There(c)
  BY DEF There
<1>2. k = "u" \/ k = "o"
  BY DEF ClassOf
<1>3. \A l : l \in Letters(node[c].mode, k) <=> <<k, l>> \in node[c].mode
  BY LettersOfMode
<1>4. \A l : ByTheBits(c, l) <=> user.uid = 0 \/ <<k, l>> \in node[c].mode
  BY DEF ByTheBits
<1>5. Required(k, OwnerBits(ls)) = ls
  BY LettersOfOwner DEF Required
<1>6. Letters(OwnerBits(ls), k) \subseteq ls
  BY <1>2, LettersOfOwner
<1>7. check_permission(c, OwnerBits(ls)) <=> user.uid = 0 \/ ls \subseteq Letters(node[c].mode, k)
  BY <1>1, <1>5 DEF check_permission
<1>8. check_file_permission(c, OwnerBits(ls))
      <=> user.uid = 0 \/ Letters(OwnerBits(ls), k) \subseteq Letters(node[c].mode, k)
  BY <1>1 DEF check_file_permission
<1> HIDE DEF k
<1> QED BY <1>3, <1>4, <1>6, <1>7, <1>8

\* Where the path is there to its end, each directory on it is asked, and the end.
LEMMA PathChecked ==
  ASSUME NEW cs \in Seq(Name), NEW access, user.uid # 0,
         \A k \in 0 .. Len(cs) : There(SubSeq(cs, 1, k))
  PROVE  check_path_permission(cs, access)
         <=> /\ \A k \in 0 .. Len(cs) - 1 : MayPass(SubSeq(cs, 1, k))
             /\ check_file_permission(cs, access)
<1> DEFINE found == {k \in 0 .. Len(cs) : \A j \in 0 .. k : There(SubSeq(cs, 1, j))}
           last  == CHOOSE k \in found : \A j \in found : j <= k
<1>1. Len(cs) \in Nat
  OBVIOUS
<1>2. found = 0 .. Len(cs)
  BY <1>1
<1>3. last = Len(cs)
  <2> HIDE DEF found
  <2>1. Len(cs) \in found /\ \A j \in found : j <= Len(cs)
    BY <1>1, <1>2
  <2>2. \A k \in found : (\A j \in found : j <= k) => k = Len(cs)
    BY <1>1, <1>2
  <2> QED BY <2>1, <2>2
<1>4. found \ {Len(cs)} = 0 .. Len(cs) - 1
  <2> HIDE DEF found
  <2> QED BY <1>1, <1>2
<1>5. check_path_permission(cs, access)
      <=> /\ \A k \in found \ {Len(cs)} : MayPass(SubSeq(cs, 1, k))
          /\ IF last = Len(cs) THEN check_file_permission(cs, access)
             ELSE <<"u", "w">> \in access /\ check_file_permission(SubSeq(cs, 1, last), OwnerBits({"w"}))
  BY DEF check_path_permission
<1> HIDE DEF found, last
<1> QED BY <1>3, <1>4, <1>5

LEMMA HomeOf ==
  ASSUME NEW u \in Users
  PROVE  u.uid # 0 /\ Home(u) = <<"home", u.name>>
<1>1. u.uid # 0
  <2>1. u.uid \in 0 + 1 .. Nobody.uid - 1
    BY UsersAssumption DEF Root
  <2> QED BY <2>1
<1>2. u # Root
  BY PermissionsAssumption
<1> QED BY <1>1, <1>2 DEF Home

LEMMA HomesOpen == TreeInv => HomeOpensByTheBits
<1> SUFFICES ASSUME TreeInv, NEW p \in OpenPaths, NEW fl \in Flags,
                    user \in Users, p.abs, IsPrefix(Home(user), p.comps),
                    There(p.comps), ~IsDir(p.comps),
                    \A c \in DirsTo(p.comps) \cup {p.comps} : ClassOf(user, c) # "g"
             PROVE  MayOpen(p, fl) <=> /\ \A c \in DirsTo(p.comps) : ByTheBits(c, "x")
                                       /\ \A l \in fl : ByTheBits(p.comps, l)
  BY DEF HomeOpensByTheBits
<1> DEFINE cs == p.comps
           n  == Len(cs)
<1>1. user.uid # 0 /\ Home(user) = <<"home", user.name>>
  BY HomeOf
<1>2. cs \in DOMAIN node /\ cs \in Seq(Name)
  BY DEF TreeInv, HangsFromRoot, There
<1>3. n \in Nat /\ n > 1 /\ cs[1] = "home" /\ cs[2] = user.name
  <2>1. n \in Nat
    BY <1>2
  <2>2. Len(Home(user)) = 2 /\ Home(user)[1] = "home" /\ Home(user)[2] = user.name
    BY <1>1
  <2>3. 2 <= n /\ \A i \in 1 .. 2 : Home(user)[i] = cs[i]
    BY <2>1, <2>2 DEF IsPrefix
  <2> QED BY <2>1, <2>2, <2>3
<1>4. Target(p) = cs
  BY <1>2, NamesLeadThere DEF Target
<1>5. SubSeq(cs, 1, n) = cs
  BY <1>2
<1>6. \A k \in 0 .. n - 1 : SubSeq(cs, 1, k) \in DOMAIN node
  BY <1>2 DEF TreeInv, HangsFromRoot, IsDir, There
<1>7. ASSUME NEW k \in 0 .. n PROVE There(SubSeq(cs, 1, k))
  <2>1. k = n \/ k \in 0 .. n - 1
    BY <1>3
  <2>2. CASE k = n
    BY <1>2, <1>5, <2>2, Zenon DEF There
  <2>3. CASE k \in 0 .. n - 1
    BY <1>6, <2>3 DEF There
  <2> QED BY <2>1, <2>2, <2>3
<1>8. \A c \in DOMAIN node : node[c] \in Node
  BY DEF TreeInv, Inv, Typed
<1>9. (\A k \in 0 .. n - 1 : MayPass(SubSeq(cs, 1, k))) <=> \A c \in DirsTo(cs) : ByTheBits(c, "x")
  <2>1. \A k \in 0 .. n - 1 : MayPass(SubSeq(cs, 1, k)) <=> ByTheBits(SubSeq(cs, 1, k), "x")
    BY <1>6, <1>8, PassesByTheBits
  <2> QED BY <2>1 DEF DirsTo
<1>10. /\ check_permission(cs, OwnerBits(fl)) <=> \A l \in fl : ByTheBits(cs, l)
       /\ check_permission(cs, OwnerBits(fl)) => check_file_permission(cs, OwnerBits(fl))
  BY <1>2, <1>8, OpensByTheBits
<1>11. check_path_permission(cs, OwnerBits(fl))
       <=> /\ \A k \in 0 .. n - 1 : MayPass(SubSeq(cs, 1, k))
           /\ check_file_permission(cs, OwnerBits(fl))
  BY <1>1, <1>2, <1>7, PathChecked
<1>12. InReach(cs, OwnerBits(fl))
  BY <1>3 DEF InReach
<1>13. check_user_path_access(p, OwnerBits(fl)) <=> check_path_permission(cs, OwnerBits(fl))
  BY <1>1, <1>12 DEF check_user_path_access
<1>14. MayOpen(p, fl) <=> /\ check_user_path_access(p, OwnerBits(fl))
                          /\ check_permission(cs, OwnerBits(fl))
  BY <1>4 DEF MayOpen
<1> QED BY <1>9, <1>10, <1>11, <1>13, <1>14

\* In a user's home, whatever was made, changed hands or changed mode before: open is
\* refused exactly where the bits of the owner or of others refuse it, on the way or
\* at the end (user.c:254-311, inode.c:365-415).
THEOREM HomesOpenByTheBits == Spec => []HomeOpensByTheBits
<1> QED BY HomesOpen, InitTree, StepTree, PTL DEF Spec
----------------------------------------------------------------------------
(* Types *)

\* Those who log in have their homes at first (user.c:146-193 makes them then).
HomesAtFirst == \A u \in Users \cup {Root} :
                  Home(u) \in DOMAIN FirstNodes /\ FirstNodes[Home(u)].dir
HomesHere == \A u \in Users \cup {Root} : IsDir(Home(u))

TypeInv == TreeInv /\ TypeOK /\ IsDir(cwd) /\ HomesHere

\* A directory stays one: modes and owners change, only files are removed.
LEMMA DirsStay ==
  ASSUME TreeInv, [Next]_vars, NEW x, IsDir(x)
  PROVE  IsDir(x)'
<1>1. \A c \in DOMAIN node : node[c] \in Node
  BY DEF TreeInv, Inv, Typed
<1>2. x \in DOMAIN node /\ node[x].dir
  BY DEF IsDir, There
<1>3. ASSUME node' = node PROVE IsDir(x)'
  BY <1>3 DEF IsDir, There
<1>4. ASSUME NEW p, (\E m \in Modes : Chmod(p, m)) \/ (\E u \in Owners : Chown(p, u)) PROVE IsDir(x)'
  <2>1. CASE \E m \in Modes : Chmod(p, m)
    <3>1. DOMAIN node' = DOMAIN node /\ node'[x].dir = node[x].dir
      BY <1>1, <1>2, <2>1 DEF Chmod, Node, There
    <3> QED BY <1>2, <3>1 DEF IsDir, There
  <2>2. CASE \E u \in Owners : Chown(p, u)
    <3>1. DOMAIN node' = DOMAIN node /\ node'[x].dir = node[x].dir
      BY <1>1, <1>2, <2>2 DEF Chown, Node, There
    <3> QED BY <1>2, <3>1 DEF IsDir, There
  <2> QED BY <1>4, <2>1, <2>2
<1>5. ASSUME NEW c, NEW isDir, ~There(c), MakeNode(c, isDir) PROVE IsDir(x)'
  BY <1>2, <1>5 DEF MakeNode, IsDir, There
<1>6. CASE \E p \in DeletePaths : Delete(p)
  <2>1. PICK p \in DeletePaths : Delete(p)
    BY <1>6
  <2>2. ~IsDir(Target(p)) /\ node' = [c \in DOMAIN node \ {Target(p)} |-> node[c]]
    BY <2>1 DEF Delete
  <2>3. x \in DOMAIN node' /\ node'[x] = node[x]
    BY <1>2, <2>2
  <2> QED BY <1>2, <2>3 DEF IsDir, There
<1>7. CASE \E u \in Users \cup {Root} : Login(u)
  BY <1>3, <1>7 DEF Login
<1>8. CASE Logout
  BY <1>3, <1>8 DEF Logout
<1>9. CASE \E p \in NewFiles : Create(p)
  BY <1>5, <1>9 DEF Create
<1>10. CASE \E p \in NewDirs : Mkdir(p)
  BY <1>5, <1>10 DEF Mkdir
<1>11. CASE \E p \in OpenPaths : \E fl \in Flags : Open(p, fl)
  BY <1>3, <1>11 DEF Open
<1>12. CASE \E f \in open : Close(f) \/ Read(f) \/ Write(f)
  BY <1>3, <1>12 DEF Close, Read, Write
<1>13. CASE \E p \in DirPaths : Dir(p)
  BY <1>3, <1>13 DEF Dir
<1>14. CASE \E p \in CdPaths : Cd(p)
  BY <1>3, <1>14 DEF Cd
<1>15. CASE UNCHANGED vars
  BY <1>3, <1>15 DEF vars
<1> QED BY <1>4, <1>6, <1>7, <1>8, <1>9, <1>10, <1>11, <1>12, <1>13, <1>14, <1>15 DEF Next

Ops == {"none", "make", "read", "write", "list", "enter"}

\* What is open and what was last looked at is there still: an open file is not
\* deleted, and after a delete nothing was looked at.
LEMMA PlacesStay ==
  ASSUME TypeInv, [Next]_vars
  PROVE  open' \subseteq (DOMAIN node') \X Flags /\ done'.op \in Ops /\ done'.at \in DOMAIN node'
<1>1. open \subseteq (DOMAIN node) \X Flags /\ done.op \in Ops /\ done.at \in DOMAIN node
  BY DEF TypeInv, TypeOK, Ops
<1>2. <<>> \in DOMAIN node /\ <<>> \in DOMAIN node'
  BY StepTree DEF TypeInv, TreeInv, HangsFromRoot, IsDir, There
<1>3. ASSUME done' = Idle PROVE done'.op \in Ops /\ done'.at \in DOMAIN node'
  BY <1>2, <1>3 DEF Idle, Did, Ops
<1>4. ASSUME NEW what \in Ops, NEW c \in DOMAIN node', done' = Did(what, c)
      PROVE  done'.op \in Ops /\ done'.at \in DOMAIN node'
  BY <1>4 DEF Did
<1>5. ASSUME open' = open, DOMAIN node' = DOMAIN node, done' = Idle
      PROVE  open' \subseteq (DOMAIN node') \X Flags /\ done'.op \in Ops /\ done'.at \in DOMAIN node'
  BY <1>1, <1>3, <1>5
<1>6. ASSUME NEW c, NEW isDir, MakeNode(c, isDir)
      PROVE  open' \subseteq (DOMAIN node') \X Flags /\ done'.op \in Ops /\ done'.at \in DOMAIN node'
  <2>1. DOMAIN node' = DOMAIN node \cup {c} /\ open' = open /\ done' = Did("make", Front(c))
    BY <1>6 DEF MakeNode
  <2>2. Front(c) \in DOMAIN node /\ "make" \in Ops
    BY <1>6 DEF MakeNode, IsDir, There, Ops
  <2> QED BY <1>1, <1>4, <2>1, <2>2
<1>7. CASE \E u \in Users \cup {Root} : Login(u)
  BY <1>5, <1>7 DEF Login
<1>8. CASE Logout
  BY <1>5, <1>8 DEF Logout
<1>9. CASE \E p \in ChangedPaths : (\E m \in Modes : Chmod(p, m)) \/ (\E u \in Owners : Chown(p, u))
  BY <1>5, <1>9 DEF Chmod, Chown
<1>10. CASE \E p \in NewFiles : Create(p)
  BY <1>6, <1>10 DEF Create
<1>11. CASE \E p \in NewDirs : Mkdir(p)
  BY <1>6, <1>11 DEF Mkdir
<1>12. CASE \E p \in DeletePaths : Delete(p)
  <2>1. PICK p \in DeletePaths : Delete(p)
    BY <1>12
  <2>2. /\ Target(p) \notin {f[1] : f \in open} /\ open' = open /\ done' = Idle
        /\ DOMAIN node' = DOMAIN node \ {Target(p)}
    BY <2>1 DEF Delete
  <2>3. ASSUME NEW f \in open PROVE f \in (DOMAIN node') \X Flags
    BY <1>1, <2>2
  <2> QED BY <1>3, <2>2, <2>3
<1>13. CASE \E p \in OpenPaths : \E fl \in Flags : Open(p, fl)
  <2>1. PICK p \in OpenPaths, fl \in Flags : Open(p, fl)
    BY <1>13
  <2>2. Target(p) \in DOMAIN node /\ node' = node /\ done' = Idle /\ open' = open \cup {<<Target(p), fl>>}
    BY <2>1 DEF Open, MayOpen, There
  <2> QED BY <1>1, <1>3, <2>2
<1>14. CASE \E f \in open : Close(f)
  BY <1>1, <1>3, <1>14 DEF Close
<1>15. ASSUME NEW what \in Ops, NEW c \in DOMAIN node, node' = node, open' = open, done' = Did(what, c)
       PROVE  open' \subseteq (DOMAIN node') \X Flags /\ done'.op \in Ops /\ done'.at \in DOMAIN node'
  BY <1>1, <1>4, <1>15
<1>16. {"read", "write", "list", "enter"} \subseteq Ops
  BY DEF Ops
<1>17. CASE \E f \in open : Read(f)
  BY <1>15, <1>16, <1>17 DEF Read, check_permission, There
<1>18. CASE \E f \in open : Write(f)
  BY <1>15, <1>16, <1>18 DEF Write, check_permission, There
<1>19. CASE \E p \in DirPaths : Dir(p)
  BY <1>15, <1>16, <1>19 DEF Dir, IsDir, There
<1>20. CASE \E p \in CdPaths : Cd(p)
  BY <1>15, <1>16, <1>20 DEF Cd, IsDir, There
<1>21. CASE UNCHANGED vars
  BY <1>1, <1>21 DEF vars
<1> QED BY <1>7, <1>8, <1>9, <1>10, <1>11, <1>12, <1>13, <1>14, <1>17, <1>18, <1>19, <1>20, <1>21 DEF Next

\* The working directory is one: a home, what cd found, or where it was.
LEMMA WorkingDirStays ==
  ASSUME TypeInv, [Next]_vars
  PROVE  IsDir(cwd)'
<1>1. TreeInv /\ IsDir(cwd) /\ HomesHere
  BY DEF TypeInv
<1>2. \A x : IsDir(x) => IsDir(x)'
  BY <1>1, DirsStay
<1>3. ASSUME cwd' = cwd PROVE IsDir(cwd)'
  <2>1. cwd \in DOMAIN node' /\ node'[cwd].dir
    BY <1>1, <1>2 DEF IsDir, There
  <2> QED BY <1>3, <2>1 DEF IsDir, There
<1>4. ASSUME NEW c, IsDir(c), node' = node, cwd' = c PROVE IsDir(cwd)'
  BY <1>4 DEF IsDir, There
<1>5. CASE \E u \in Users \cup {Root} : Login(u)
  BY <1>1, <1>4, <1>5 DEF Login, HomesHere
<1>6. CASE \E p \in CdPaths : Cd(p)
  BY <1>4, <1>6 DEF Cd
<1>7. CASE Logout \/ UNCHANGED vars
  BY <1>3, <1>7 DEF Logout, vars
<1>8. CASE \E p \in ChangedPaths : (\E m \in Modes : Chmod(p, m)) \/ (\E u \in Owners : Chown(p, u))
  BY <1>3, <1>8 DEF Chmod, Chown
<1>9. CASE (\E p \in NewFiles : Create(p)) \/ (\E p \in NewDirs : Mkdir(p))
  BY <1>3, <1>9 DEF Create, Mkdir, MakeNode
<1>10. CASE (\E p \in DeletePaths : Delete(p)) \/ (\E p \in DirPaths : Dir(p))
  BY <1>3, <1>10 DEF Delete, Dir
<1>11. CASE (\E p \in OpenPaths : \E fl \in Flags : Open(p, fl)) \/ (\E f \in open : Close(f) \/ Read(f) \/ Write(f))
  BY <1>3, <1>11 DEF Open, Close, Read, Write
<1> QED BY <1>5, <1>6, <1>7, <1>8, <1>9, <1>10, <1>11 DEF Next

LEMMA NamesAreStrings == Seq(Name) \subseteq Seq(STRING)
BY DEF Name

LEMMA InitTypes == HomesAtFirst /\ Init => TypeInv
<1> SUFFICES ASSUME HomesAtFirst, Init PROVE TypeInv
  OBVIOUS
<1>1. TreeInv
  BY InitTree
<1>2. IsDir(cwd) /\ HomesHere
  BY TreeAssumption, PermissionsAssumption DEF Init, HomesAtFirst, HomesHere, IsDir, There
<1>3. DOMAIN node \in SUBSET Seq(STRING)
  BY <1>1, NamesAreStrings DEF TreeInv, HangsFromRoot
<1>4. open \subseteq (DOMAIN node) \X Flags /\ done.op \in Ops /\ done.at \in DOMAIN node
  BY <1>1 DEF Init, Idle, Did, Ops, TreeInv, HangsFromRoot, IsDir, There
<1>5. (\A c \in DOMAIN node : node[c] \in Node) /\ user \in Users \cup {Root, Nobody}
  BY <1>1 DEF TreeInv, Inv, Typed, Identities
<1> QED BY <1>1, <1>2, <1>3, <1>4, <1>5 DEF TypeInv, TypeOK, IsDir, Ops

LEMMA StepTypes == TypeInv /\ [Next]_vars => TypeInv'
<1> SUFFICES ASSUME TypeInv, [Next]_vars PROVE TypeInv'
  OBVIOUS
<1>1. TreeInv'
  BY StepTree DEF TypeInv
<1>2. IsDir(cwd)'
  BY WorkingDirStays
<1>3. HomesHere'
  <2>1. \A u \in Users \cup {Root} : IsDir(Home(u))'
    BY DirsStay DEF TypeInv, HomesHere
  <2> QED BY <2>1 DEF HomesHere
<1>4. (DOMAIN node)' \in SUBSET Seq(STRING)
  BY <1>1, NamesAreStrings DEF TreeInv, HangsFromRoot
<1>5. (\A c \in DOMAIN node : node[c] \in Node)' /\ user' \in Users \cup {Root, Nobody}
  BY <1>1 DEF TreeInv, Inv, Typed, Identities
<1>6. node'[cwd'].dir
  BY <1>2 DEF IsDir
<1>7. TypeOK'
  BY <1>4, <1>5, <1>6, PlacesStay DEF TypeOK, Ops
<1> QED BY <1>1, <1>2, <1>3, <1>7 DEF TypeInv

\* Where those who log in have their homes at first, the working directory is a
\* directory that is there, whoever makes, deletes, opens, closes, logs in or logs
\* out, and every open file is there until it is closed.
THEOREM WorkIsInDirectories == HomesAtFirst => (Spec => []TypeOK)
<1>1. TypeInv => TypeOK
  BY DEF TypeInv
<1> QED BY <1>1, InitTypes, StepTypes, PTL DEF Spec
=============================================================================
