------------------------------- MODULE Session -------------------------------
(***************************************************************************)
(* Users, sessions and images: login and logout (src/src/user.c), format,  *)
(* mount and umount (src/src/ext2.c), useradd (src/src/commands.c).  The   *)
(* table of users is in memory and in block 4 of each image; the process   *)
(* keeps it while images come and go.  A process may be killed between two *)
(* steps of a command, and is started again.                               *)
(*                                                                         *)
(* The steps within the creation of a directory are those of DiskWrites.   *)
(* Commands on files are root's.                                           *)
(***************************************************************************)
EXTENDS Directory

CONSTANTS
  Images,    \* the image files used
  MaxUsers,  \* MAX_USERS (16)
  InBlock,   \* records whose is_active lies in the user block's 1024 bytes (14)
  Covered,   \* records that the read of block 0 into the superblock overwrites (11)
  NewUsers,  \* the records given to useradd
  Logins,    \* the names and passwords given to login
  MkdirPaths, CreatePaths  \* the paths root gives to mkdir and create, from /

ASSUME SessionAssumption ==
  /\ MaxUsers \in Nat /\ MaxUsers > 2
  /\ InBlock \in 3 .. MaxUsers /\ Covered \in 0 .. MaxUsers
  /\ \A p \in MkdirPaths \cup CreatePaths : p \in Seq(Names) /\ p # <<>>
  /\ {"root", "home"} \cup {u.name : u \in NewUsers \cup Logins} \subseteq Names  \* homes' names
  /\ \A u \in NewUsers : u = [name |-> u.name, pass |-> u.pass, uid |-> u.uid]

NoImage  == "none"
UserSlot == 1 .. MaxUsers

User(name, pass, uid) == [name |-> name, pass |-> pass, uid |-> uid]
NoUser  == User("", "", 0)  \* a cleared record: not active, and its uid reads 0

\* The words of a command line are not empty.
ASSUME NamesAssumption == NoUser.name \notin Names

Presets == <<User("root", "root", 0), User("user1", "user1", 1), User("user2", "user2", 2)>>
Table(us)  == [k \in UserSlot |-> IF k <= Len(us) THEN us[k] ELSE NoUser]
NoUsers    == Table(<<>>)
Saved(us)  == [k \in UserSlot |-> IF k <= InBlock THEN us[k] ELSE NoUser]

Users == {NoUser} \cup NewUsers \cup {Presets[k] : k \in 1 .. 3}
Uids  == {u.uid : u \in Users}

\* An image file, with the owners of its inodes.  It is open to a mount if its three
\* first blocks are there, and an image if it has the magic number.
Image == [open : BOOLEAN, magic : BOOLEAN, vol : Volumes, owner : [Inodes -> Uids],
          users : [UserSlot -> Users]]

VARIABLES
  image,   \* the image files
  mounted, \* the image behind disk_fd
  users,   \* fs.users
  current, \* fs.current_user, 0 for nobody
  cwd,     \* current_working_directory_inode
  cut      \* history: the images a command was cut short on since their last format

vars == <<image, mounted, users, current, cwd, cut>>

----------------------------------------------------------------------------
(* Making images: the steps of ext2_format *)

Blank ==
  [open |-> TRUE, magic |-> FALSE, users |-> NoUsers, owner |-> [i \in Inodes |-> 0],
   vol |-> [bmap |-> {}, imap |-> {}, itab |-> [i \in Inodes |-> ZeroInode],
            blk |-> [b \in Blocks |-> ZeroBlock], end |-> MaxBlocks, bfree |-> 0, ifree |-> 0]]
Absent == [Blank EXCEPT !.open = FALSE]

\* What may be at an image's path before any format: nothing, or a file that is no
\* image, such as one of zeros.
Unformatted == {Absent, Blank}

\* Faulty variant: the bitmaps are not written.
FormatMap_Unmarked == Blank.vol

FormatMap == [Blank.vol EXCEPT !.bmap = 1 .. Reserved, !.imap = {1}]

\* The volume as the root directory gets its inode, its block, and its entries.
RootSteps ==
  LET inode == create_inode(FormatMap, "dir")
      block == allocate_block(inode.vol)
      tied  == set_inode_block(block.vol, inode.ret, 0, block.ret)
      dots  == [ZeroBlock EXCEPT ![1] = Entry(Dot, inode.ret), ![2] = Entry(DotDot, inode.ret)]
  IN  <<FormatMap, inode.vol, block.vol, tied, write_block(tied, block.ret, dots)>>

\* The image after each step; the default users come last.
FormatSteps ==
  <<Absent, Blank, [Blank EXCEPT !.magic = TRUE]>>
  \o [k \in 1 .. 5 |-> [Blank EXCEPT !.magic = TRUE, !.vol = RootSteps[k]]]
  \o <<[Blank EXCEPT !.magic = TRUE, !.vol = RootSteps[5], !.users = Saved(Table(Presets))]>>

----------------------------------------------------------------------------
(* Homes *)

HomePath(n)   == IF n = "root" THEN <<"root">> ELSE <<"home", n>>
HomeOf(im, n) == Resolve(im.vol, RootIno, HomePath(n))

\* What root's identity makes on an image has owner 0, as free inodes have.
Made(im, d, n) == [im EXCEPT !.vol = MakeDirectory(@, d, n).vol]
MadeInHome(im, n) ==
  [im EXCEPT !.vol = MakeDirectory(@, find_directory_entry(@, RootIno, "home"), n).vol]

\* The image after each directory that create_directory makes on the way to n's
\* home.
HomeSteps(im, n) ==
  LET first == Made(im, RootIno, HomePath(n)[1])
  IN  IF n = "root" THEN <<first>> ELSE <<first, MadeInHome(first, n)>>

\* Faulty variant: the home stays root's.
change_owner_Unchanged(im, i, uid) == im

change_owner(im, i, uid) == IF i \in Inodes THEN [im EXCEPT !.owner[i] = uid] ELSE im
WithOwner(homes, u) == homes \o <<change_owner(Last(homes), HomeOf(Last(homes), u.name), u.uid)>>

\* login, where homes are HomeSteps: a home that is there is taken as it is.
LoginSteps(im, homes, u) ==
  <<im>> \o (IF HomeOf(im, u.name) # 0 THEN <<>> ELSE WithOwner(homes, u))

\* add_user
WithUsers(im, us) == [im EXCEPT !.users = Saved(us)]

----------------------------------------------------------------------------
(* The process *)

Init ==
  /\ image \in [Images -> Unformatted]
  /\ mounted = NoImage
  /\ users = Table(Presets)
  /\ current = 0
  /\ cwd = RootIno
  /\ cut = {}

\* A new process: main calls ext2_init without an image.
Restart ==
  /\ mounted' = NoImage
  /\ users' = Table(Presets)
  /\ current' = 0
  /\ cwd' = RootIno

\* The process ends after a step of the command, before the last.
DiesIn(m, steps) ==
  /\ \E k \in 1 .. Len(steps) - 1 : image' = [image EXCEPT ![m] = steps[k]]
  /\ cut' = cut \cup {m}
  /\ Restart

\* ext2_format of an image needs no session.  Its init_users finds no user on the
\* new image and sets the default ones, in memory too.  No image stays open.
Format(m) ==
  \/ DiesIn(m, FormatSteps)
  \/ /\ image' = [image EXCEPT ![m] = Last(FormatSteps)]
     /\ users' = Table(Presets)
     /\ mounted' = NoImage
     /\ cut' = cut \ {m}
     /\ UNCHANGED <<current, cwd>>

HasRoot(us) == \E k \in UserSlot : us[k].name = "root"

\* Faulty variants: the default users are never set, or always.
InitUsers_NoPresets == IF mounted = NoImage THEN NoUsers ELSE image[mounted].users
InitUsers_Presets   == Table(Presets)

\* init_users, at the start of a mount: the users of the image still mounted, or
\* the default ones, which are then saved to it.
InitUsers ==
  LET read == IF mounted = NoImage THEN NoUsers ELSE image[mounted].users
  IN  IF HasRoot(read) THEN read ELSE Table(Presets)
save_users_to_disk(us) ==
  IF mounted = NoImage THEN image ELSE [image EXCEPT ![mounted] = WithUsers(@, us)]

\* The superblock is shorter than the block read into it: zeros run over the first
\* users, and over the start of the next one's name.
Nameless(u) == [u EXCEPT !.name = ""]
Overrun(us) ==
  [k \in UserSlot |-> IF k <= Covered THEN NoUser
                      ELSE IF k = Covered + 1 THEN Nameless(us[k]) ELSE us[k]]

\* Faulty variant: the users of the new image are not read.
MountUsers_NotLoaded(im, us) == IF im.open /\ ~im.magic THEN Overrun(us) ELSE us

\* The users after the image im was opened, or not.
MountUsers(im, us) ==
  IF ~im.open THEN us
  ELSE IF ~im.magic THEN Overrun(us)
  ELSE [k \in UserSlot |-> IF k <= InBlock THEN im.users[k] ELSE Overrun(us)[k]]

\* cmd_mount: ext2_init clears the session, not the working directory.
Mount(m) ==
  \E us \in {InitUsers} : \E images \in {save_users_to_disk(us)} :
    /\ image' = images
    /\ users' = MountUsers(images[m], us)
    /\ mounted' = IF image[m].open /\ image[m].magic THEN m ELSE NoImage
    /\ current' = 0
    /\ UNCHANGED <<cwd, cut>>

Umount ==
  /\ mounted # NoImage
  /\ mounted' = NoImage
  /\ UNCHANGED <<image, users, current, cwd, cut>>

SlotsNamed(n)    == {k \in UserSlot : users[k].name = n}
SlotOf(n)        == Min(SlotsNamed(n))
IsLogin(name, pass) == SlotsNamed(name) # {} /\ users[SlotOf(name)].pass = pass

\* Faulty variant: the identity of root, taken to make the home, is kept.
SessionAfter_Root(steps, k) == IF Len(steps) > 1 THEN 1 ELSE k

SessionAfter(steps, k) == k

\* Faulty variant: no way back when there is no home.
StartsIn_NoFallback(im, name) == HomeOf(im, name)

StartsIn(im, name) == IF HomeOf(im, name) = 0 THEN RootIno ELSE HomeOf(im, name)

\* login by name and password; who is logged in already is not asked.
Login(name, pass) ==
  /\ IsLogin(name, pass)
  /\ \E u \in {users[SlotOf(name)]} :
       \/ /\ mounted = NoImage
          /\ current' = SlotOf(name)
          /\ cwd' = RootIno
          /\ UNCHANGED <<image, mounted, users, cut>>
       \/ /\ mounted # NoImage
          /\ \E homes \in {HomeSteps(image[mounted], name)} :
             \E steps \in {LoginSteps(image[mounted], homes, u)} :
               \/ DiesIn(mounted, steps)
               \/ /\ image' = [image EXCEPT ![mounted] = Last(steps)]
                  /\ current' = SessionAfter(steps, SlotOf(name))
                  /\ cwd' = StartsIn(Last(steps), name)
                  /\ UNCHANGED <<mounted, users, cut>>

Logout ==
  /\ current # 0
  /\ current' = 0
  /\ image' = save_users_to_disk(users)
  /\ UNCHANGED <<mounted, users, cwd, cut>>

IsRoot == current # 0 /\ users[current].uid = 0

\* cmd_useradd: add_user tests the uid alone and saves the table; the home is made
\* where it is missing, and becomes the new user's.
Useradd(u) ==
  LET free == {k \in UserSlot : users[k] = NoUser}
  IN  /\ IsRoot
      /\ \A k \in UserSlot : users[k] = NoUser \/ users[k].uid # u.uid
      /\ free # {}
      /\ \E us \in {[users EXCEPT ![Min(free)] = u]} :
           \/ /\ mounted = NoImage
              /\ users' = us
              /\ UNCHANGED <<image, mounted, current, cwd, cut>>
           \/ /\ mounted # NoImage
              /\ \E saved \in {WithUsers(image[mounted], us)} :
                 \E homes \in {HomeSteps(saved, u.name)} :
                 \E steps \in {<<image[mounted], saved>> \o WithOwner(homes, u)} :
                   \/ DiesIn(mounted, steps)
                   \/ /\ image' = [image EXCEPT ![mounted] = Last(steps)]
                      /\ users' = us
                      /\ UNCHANGED <<mounted, current, cwd, cut>>

\* mkdir and create by root, of absolute paths.
ByRoot(im) ==
  /\ IsRoot /\ mounted # NoImage
  /\ image' = [image EXCEPT ![mounted] = im]
  /\ UNCHANGED <<mounted, users, current, cwd, cut>>
DirOf(p) == Resolve(image[mounted].vol, RootIno, Front(p))

Mkdir(p) ==
  /\ IsRoot /\ mounted # NoImage /\ DirOf(p) # 0
  /\ ByRoot(Made(image[mounted], DirOf(p), Last(p)))

Create(p) ==
  /\ IsRoot /\ mounted # NoImage /\ is_directory(image[mounted].vol, DirOf(p))
  /\ ByRoot([image[mounted] EXCEPT !.vol = NewFile(@, DirOf(p), Last(p))])

Next ==
  \/ \E m \in Images : Format(m) \/ Mount(m)
  \/ Umount
  \/ \E l \in Logins : Login(l.name, l.pass)
  \/ Logout
  \/ \E u \in NewUsers : Useradd(u)
  \/ \E p \in MkdirPaths : Mkdir(p)
  \/ \E p \in CreatePaths : Create(p)
  \/ Restart /\ UNCHANGED <<image, cut>>

Spec == Init /\ [][Next]_vars

----------------------------------------------------------------------------
(* Properties *)

\* A choice of users and paths: no user is called ".", ".." or "home", root makes
\* nothing else of a user's name (mkdir and create), and no two users of one name,
\* who share a home, differ in their numbers.
UserNames  == {u.name : u \in Users}
HomesApart ==
  /\ UserNames \cap {Dot, DotDot, "home"} = {}
  /\ \A p \in MkdirPaths \cup CreatePaths : Last(p) \notin UserNames
  /\ \A u, w \in Users : u.name = w.name => u.uid = w.uid

\* Every variable has its type.
TypeOK ==
  /\ image \in [Images -> Image]
  /\ mounted \in Images \cup {NoImage}
  /\ users \in [UserSlot -> Users \cup {Nameless(u) : u \in Users}]
  /\ current \in 0 .. MaxUsers
  /\ cwd \in 1 .. MaxInodes

\* Whatever was formatted, mounted, added or cut short: the users of the mounted
\* image are the users in memory, as far as the user block reaches, so that the
\* next mount finds them (save_users_to_disk, load_users_from_disk).
UsersAreOnTheImage == mounted # NoImage => image[mounted].users = Saved(users)

\* Whoever is logged in on an image began at home, or at the root when there was no
\* room for a home: root's identity, taken to make it, is given back on every path
\* through login (user.c:159-193).
BeganAtHome ==
  current # 0 /\ mounted # NoImage =>
    cwd \in {RootIno, HomeOf(image[mounted], users[current].name)}

KnownOn(im) == {im.users[k] : k \in UserSlot} \ {NoUser}

\* A user's home is the user's (user.c:181, "将家目录的所有者改为新用户"), unless a
\* login or a useradd was killed before the change of owner: nothing repairs that.
HomesAreOwned ==
  \A m \in Images \ cut : \A u \in KnownOn(image[m]) :
    HomeOf(image[m], u.name) = 0 \/ image[m].owner[HomeOf(image[m], u.name)] = u.uid

\* An image that is mounted has what ext2_format makes (commands.c:450, "ext2_format
\* 会写入超级块、位图、根目录、用户信息等"): its reserved blocks are marked, its root
\* is a directory with both entries, and it has users.  mount accepts what a killed
\* format left, so only a whole format promises it.
IsWhole(im) ==
  /\ 1 .. Reserved \subseteq im.vol.bmap
  /\ is_directory(im.vol, RootIno)
  /\ \A n \in {Dot, DotDot} : find_directory_entry(im.vol, RootIno, n) = RootIno
  /\ HasRoot(im.users)
MountedIsWhole == mounted \notin cut \cup {NoImage} => IsWhole(image[mounted])

\* root is a preset user (README.md:154, "root/root"), and is forgotten in one way only:
\* by the mount of a file that is no image, or of an image a command was cut short on,
\* which runs over the users in memory or loads others (ext2.c:31-44).  No command
\* that fails, no umount, no mount of a missing file over a mounted image and no
\* format takes root away.
RootLostOnlyByBadMounts ==
  [][HasRoot(users) /\ ~HasRoot(users') =>
       \E m \in Images : Mount(m) /\ image[m].open /\ (image[m].magic => m \in cut)]_vars

\* mount loads from an image (commands.c:460, "ext2_init会打开磁盘文件，加载超级块、
\* 位图、用户信息等到内存"): no image changes, although init_users saves the default
\* users to the one still mounted when it finds no root there.
MountOnlyLoads == [][cut = {} => \A m \in Images : Mount(m) => image' = image]_vars
=============================================================================
