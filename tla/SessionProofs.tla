---------------------------- MODULE SessionProofs ----------------------------
(***************************************************************************)
(* That the users of the mounted image are those in memory, as far as the  *)
(* user block reaches: for all images, numbers of users, names and sizes,  *)
(* through every format, mount, login and useradd, whole or cut short.     *)
(*                                                                         *)
(* And what an image keeps that no command was cut short on: root among    *)
(* its users, so that a mount finds users to load and never writes any,    *)
(* and root is forgotten by the mount of other files only; and a root      *)
(* directory that is one, with both its entries, in a volume whose         *)
(* reserved blocks are marked.                                             *)
(*                                                                         *)
(* And homes: sessions begin in them, and they are their users', for no    *)
(* command of a session takes a name away.                                 *)
(***************************************************************************)
EXTENDS Session, VolumeProofs, SequenceTheorems

Fields == {"open", "magic", "vol", "owner", "users"}

IsImage(im) == im = [x \in Fields |-> im[x]]

\* An image whose user block holds what can be saved there, and nothing else.
Kept(im) == IsImage(im) /\ im.users = Saved(im.users)

ImagesKept == image = [m \in Images |-> image[m]] /\ \A m \in Images : Kept(image[m])

\* What a mount needs: the image it opens has never held more than it can save.
Inv == ImagesKept /\ mounted \in Images \cup {NoImage} /\ UsersAreOnTheImage

\* What the steps of a command on an image keep.
SameUsers(im, jm) == IsImage(jm) /\ jm.users = im.users
ButFiles(im, jm)  == SameUsers(im, jm) /\ jm.open = im.open /\ jm.magic = im.magic

----------------------------------------------------------------------------
LEMMA SavedTwice == ASSUME NEW us PROVE Saved(Saved(us)) = Saved(us)
BY DEF Saved

LEMMA SameKept == ASSUME NEW im, NEW jm, Kept(im), SameUsers(im, jm) PROVE Kept(jm)
BY DEF Kept, SameUsers

LEMMA ElementsIn ==
  ASSUME NEW S, NEW s \in Seq(S), NEW k \in 1 .. Len(s) PROVE s[k] \in S
BY ElementOfSeq

LEMMA LastIn ==
  ASSUME NEW S, NEW s \in Seq(S), s # <<>> PROVE Last(s) \in S
<1>1. Len(s) \in 1 .. Len(s)
  BY EmptySeq, LenProperties
<1> QED BY <1>1, ElementsIn DEF Last

LEMMA LastOfConcat ==
  ASSUME NEW S, NEW s \in Seq(S), NEW t \in Seq(S), t # <<>>
  PROVE  Last(s \o t) = Last(t)
<1>1. Len(s) \in Nat /\ Len(t) \in Nat \ {0}
  BY EmptySeq, LenProperties
<1>2. Len(s \o t) = Len(s) + Len(t)
  BY ConcatProperties
<1>3. (s \o t)[Len(s) + Len(t)] = t[Len(t)]
  BY <1>1, ConcatProperties
<1> QED BY <1>2, <1>3 DEF Last

----------------------------------------------------------------------------
(* The steps of format *)

LEMMA NoUsersAtAll == NoUsers = [k \in UserSlot |-> NoUser]
BY EmptySeq DEF NoUsers, Table, UserSlot

LEMMA BlankFields == IsImage(Blank)
BY DEF Blank, Fields, IsImage

LEMMA BlankKept == Kept(Blank) /\ Kept(Absent)
<1>1. NoUsers = Saved(NoUsers)
  BY NoUsersAtAll DEF Saved
<1>2. IsImage(Blank) /\ Blank.users = NoUsers
  BY DEF Blank, Fields, IsImage
<1>3. SameUsers(Blank, Absent)
  BY <1>2 DEF Absent, SameUsers, Fields, IsImage
<1> QED BY <1>1, <1>2, <1>3, SameKept DEF Kept

LEMMA FormatKept ==
  /\ \A k \in 1 .. Len(FormatSteps) : Kept(FormatSteps[k])
  /\ Kept(Last(FormatSteps))
  /\ Last(FormatSteps).magic /\ Last(FormatSteps).users = Saved(Table(Presets))
  /\ Last(FormatSteps).vol = RootSteps[5]
<1> DEFINE Vol(v)  == [Blank EXCEPT !.magic = TRUE, !.vol = v]
           magic   == [Blank EXCEPT !.magic = TRUE]
           made    == [k \in 1 .. 5 |-> Vol(RootSteps[k])]
           whole   == [Blank EXCEPT !.magic = TRUE, !.vol = RootSteps[5],
                                    !.users = Saved(Table(Presets))]
           S       == {Absent, Blank, magic, whole} \cup {made[k] : k \in 1 .. 5}
<1>1. IsImage(Blank)
  BY DEF Blank, Fields, IsImage
<1>2. Kept(magic)
  BY <1>1, BlankKept, SameKept DEF SameUsers, Fields, IsImage
<1>3. \A v : Kept(Vol(v))
  <2>1. \A v : SameUsers(Blank, Vol(v))
    BY <1>1 DEF SameUsers, Fields, IsImage
  <2> HIDE DEF Vol
  <2> QED BY <2>1, BlankKept, SameKept
<1>4. Kept(whole) /\ whole.magic /\ whole.users = Saved(Table(Presets)) /\ whole.vol = RootSteps[5]
  <2>1. /\ IsImage(whole) /\ whole.magic /\ whole.users = Saved(Table(Presets))
        /\ whole.vol = RootSteps[5]
    BY <1>1 DEF Fields, IsImage
  <2> QED BY <2>1, SavedTwice DEF Kept
<1>5. \A x \in S : Kept(x)
  <2>1. Kept(whole)
    BY <1>4
  <2> HIDE DEF magic, whole, Vol
  <2> QED BY <1>2, <1>3, <2>1, BlankKept
<1>6. FormatSteps = <<Absent, Blank, magic>> \o made \o <<whole>>
  BY DEF FormatSteps
<1> HIDE DEF magic, whole
<1>7. made \in Seq(S)
  <2> HIDE DEF Vol
  <2>1. made \in [1 .. 5 -> S]
    OBVIOUS
  <2> QED BY <2>1, SeqDef
<1> HIDE DEF made
<1>8. <<Absent, Blank, magic>> \in Seq(S) /\ <<whole>> \in Seq(S)
  OBVIOUS
<1> HIDE DEF S
<1> DEFINE first == <<Absent, Blank, magic>> \o made
<1>9. first \in Seq(S) /\ FormatSteps = first \o <<whole>>
  BY <1>6, <1>7, <1>8, ConcatProperties
<1> HIDE DEF first
<1>10. FormatSteps \in Seq(S) /\ Last(FormatSteps) = whole
  <2>1. <<whole>> # <<>> /\ Last(<<whole>>) = whole
    BY DEF Last
  <2> QED BY <1>8, <1>9, <2>1, ConcatProperties, LastOfConcat
<1> QED BY <1>4, <1>5, <1>10, ElementsIn

----------------------------------------------------------------------------
(* The steps of login and useradd *)

LEMMA MadeSame ==
  ASSUME NEW im, IsImage(im), NEW d, NEW n
  PROVE  ButFiles(im, Made(im, d, n)) /\ ButFiles(im, MadeInHome(im, n))
BY DEF ButFiles, SameUsers, Made, MadeInHome, Fields, IsImage

LEMMA OwnerSame ==
  ASSUME NEW im, IsImage(im), NEW i, NEW uid
  PROVE  ButFiles(im, change_owner(im, i, uid))
BY DEF ButFiles, SameUsers, change_owner, Fields, IsImage

\* The homes made, and the last of them with its owner.
LEMMA HomesSame ==
  ASSUME NEW im, IsImage(im), NEW n, NEW u
  PROVE  \E S : /\ WithOwner(HomeSteps(im, n), u) \in Seq(S)
                /\ WithOwner(HomeSteps(im, n), u) # <<>>
                /\ \A x \in S : ButFiles(im, x)
<1> DEFINE first  == Made(im, RootIno, HomePath(n)[1])
           second == MadeInHome(first, n)
           homes  == HomeSteps(im, n)
           owned  == change_owner(Last(homes), HomeOf(Last(homes), u.name), u.uid)
           S      == {first, second, owned}
<1>1. ButFiles(im, first)
  BY MadeSame
<1>2. ButFiles(im, second)
  BY <1>1, MadeSame DEF ButFiles, SameUsers
<1>3. homes = <<first>> \/ homes = <<first, second>>
  BY DEF HomeSteps
<1> HIDE DEF first, second
<1>4. Last(homes) \in {first, second} /\ homes \in Seq(S)
  <2>1. CASE homes = <<first>>
    BY <2>1 DEF Last
  <2>2. CASE homes = <<first, second>>
    BY <2>2 DEF Last
  <2> HIDE DEF homes, S
  <2> QED BY <1>3, <2>1, <2>2
<1>5. ButFiles(im, owned)
  BY <1>1, <1>2, <1>4, OwnerSame DEF ButFiles, SameUsers
<1>6. WithOwner(homes, u) = homes \o <<owned>>
  BY DEF WithOwner
<1> HIDE DEF homes, owned
<1>7. WithOwner(homes, u) \in Seq(S) /\ WithOwner(homes, u) # <<>>
  BY <1>4, <1>6, ConcatProperties, LenProperties, EmptySeq
<1> QED BY <1>1, <1>2, <1>5, <1>7 DEF homes

LEMMA LoginSame ==
  ASSUME NEW im, IsImage(im), NEW n, NEW u,
         NEW steps, steps = LoginSteps(im, HomeSteps(im, n), u)
  PROVE  /\ \A k \in 1 .. Len(steps) : ButFiles(im, steps[k])
         /\ ButFiles(im, Last(steps))
<1>1. ButFiles(im, im)
  BY DEF ButFiles, SameUsers
<1>2. CASE HomeOf(im, u.name) # 0
  <2>1. steps = <<im>> \o <<>>
    BY <1>2 DEF LoginSteps
  <2>2. steps \in Seq({im}) /\ steps # <<>>
    BY <2>1
  <2> QED BY <1>1, <2>2, ElementsIn, LastIn
<1>3. CASE HomeOf(im, u.name) = 0
  <2> DEFINE owned == WithOwner(HomeSteps(im, n), u)
  <2>1. PICK S : owned \in Seq(S) /\ owned # <<>> /\ \A x \in S : ButFiles(im, x)
    BY HomesSame
  <2>2. steps = <<im>> \o owned
    BY <1>3 DEF LoginSteps
  <2> HIDE DEF owned
  <2>3. <<im>> \in Seq(S \cup {im}) /\ owned \in Seq(S \cup {im})
    BY <2>1
  <2>4. steps \in Seq(S \cup {im}) /\ steps # <<>>
    BY <2>2, <2>3, ConcatProperties, LenProperties, EmptySeq
  <2> QED BY <1>1, <2>1, <2>4, ElementsIn, LastIn
<1> QED BY <1>2, <1>3

AddSteps(im, us, u) ==
  <<im, WithUsers(im, us)>> \o WithOwner(HomeSteps(WithUsers(im, us), u.name), u)

LEMMA UseraddSame ==
  ASSUME NEW im, Kept(im), NEW us, NEW u, NEW steps, steps = AddSteps(im, us, u)
  PROVE  /\ \A k \in 1 .. Len(steps) : Kept(steps[k])
         /\ Kept(Last(steps)) /\ Last(steps).users = Saved(us)
         /\ Last(steps).open = im.open /\ Last(steps).magic = im.magic
<1> DEFINE saved == WithUsers(im, us)
           owned == WithOwner(HomeSteps(saved, u.name), u)
<1>1. /\ IsImage(saved) /\ saved.users = Saved(us)
      /\ saved.open = im.open /\ saved.magic = im.magic
  BY DEF Kept, WithUsers, Fields, IsImage
<1>2. Kept(saved)
  BY <1>1, SavedTwice DEF Kept
<1>3. PICK S : owned \in Seq(S) /\ owned # <<>> /\ \A x \in S : ButFiles(saved, x)
  BY <1>1, HomesSame
<1>4. \A x \in S : Kept(x) /\ x.users = Saved(us) /\ x.open = im.open /\ x.magic = im.magic
  BY <1>1, <1>2, <1>3, SameKept DEF ButFiles, SameUsers
<1>5. steps = <<im, saved>> \o owned
  BY DEF AddSteps
<1> HIDE DEF saved, owned
<1>6. <<im, saved>> \in Seq(S \cup {im, saved}) /\ owned \in Seq(S \cup {im, saved})
  BY <1>3
<1>7. steps \in Seq(S \cup {im, saved})
  BY <1>5, <1>6, ConcatProperties
<1>8. Last(steps) = Last(owned)
  <2> DEFINE T == S \cup {im, saved}
             t == <<im, saved>>
  <2>1. t \in Seq(T) /\ owned \in Seq(T) /\ owned # <<>>
    BY <1>3, <1>6
  <2>2. steps = t \o owned
    BY <1>5
  <2> HIDE DEF T, t
  <2> QED BY <2>1, <2>2, LastOfConcat
<1>9. Last(steps) \in S
  BY <1>3, <1>8, LastIn
<1>10. \A x \in S \cup {im, saved} : Kept(x)
  BY <1>2, <1>4
<1>11. \A k \in 1 .. Len(steps) : Kept(steps[k])
  BY <1>7, <1>10, ElementsIn
<1> QED BY <1>4, <1>9, <1>11

----------------------------------------------------------------------------
(* The process *)

LEMMA RestartSaved == ASSUME Restart PROVE mounted' \in Images \cup {NoImage} /\ UsersAreOnTheImage'
BY DEF Restart, UsersAreOnTheImage

\* One image is another one, which is kept.
LEMMA OneImage ==
  ASSUME ImagesKept, NEW m \in Images, NEW im, Kept(im), image' = [image EXCEPT ![m] = im]
  PROVE  ImagesKept' /\ image'[m] = im
BY DEF ImagesKept

LEMMA DiesSaved ==
  ASSUME ImagesKept, NEW m \in Images, NEW steps, \A k \in 1 .. Len(steps) - 1 : Kept(steps[k]),
         DiesIn(m, steps)
  PROVE  Inv'
<1>1. PICK k \in 1 .. Len(steps) - 1 : image' = [image EXCEPT ![m] = steps[k]]
  BY DEF DiesIn
<1>2. ImagesKept'
  BY <1>1, OneImage
<1> QED BY <1>2, RestartSaved DEF DiesIn, Inv

LEMMA FormatStep == ASSUME Inv, NEW m \in Images, Format(m) PROVE Inv'
<1>1. CASE DiesIn(m, FormatSteps)
  BY <1>1, FormatKept, DiesSaved DEF Inv
<1>2. CASE image' = [image EXCEPT ![m] = Last(FormatSteps)] /\ mounted' = NoImage
  BY <1>2, FormatKept, OneImage DEF Inv, UsersAreOnTheImage
<1> QED BY <1>1, <1>2 DEF Format

\* The users in memory go to the mounted image: at a mount, and at a logout.
LEMMA SaveKeeps ==
  ASSUME Inv, NEW us, NEW images, images = save_users_to_disk(us)
  PROVE  /\ images = [m \in Images |-> images[m]] /\ \A m \in Images : Kept(images[m])
         /\ \A m \in Images : images[m].open = image[m].open /\ images[m].magic = image[m].magic
         /\ mounted # NoImage => images[mounted].users = Saved(us)
<1>1. CASE mounted = NoImage
  BY <1>1 DEF save_users_to_disk, Inv, ImagesKept
<1>2. CASE mounted # NoImage
  <2> DEFINE im == image[mounted]
             jm == WithUsers(im, us)
  <2>1. Kept(im)
    BY <1>2 DEF Inv, ImagesKept
  <2>2. IsImage(jm) /\ jm.users = Saved(us) /\ jm.open = im.open /\ jm.magic = im.magic
    BY <2>1 DEF Kept, WithUsers, Fields, IsImage
  <2>3. Kept(jm)
    BY <2>2, SavedTwice DEF Kept
  <2>4. images = [image EXCEPT ![mounted] = jm]
    BY <1>2 DEF save_users_to_disk
  <2> HIDE DEF jm
  <2> QED BY <1>2, <2>2, <2>3, <2>4 DEF Inv, ImagesKept
<1> QED BY <1>1, <1>2

LEMMA LoadedAreSaved ==
  ASSUME NEW im, Kept(im), im.open, im.magic, NEW us
  PROVE  im.users = Saved(MountUsers(im, us))
<1>1. im.users = [k \in UserSlot |-> IF k <= InBlock THEN im.users[k] ELSE NoUser]
  BY DEF Kept, Saved
<1>2. MountUsers(im, us) = [k \in UserSlot |-> IF k <= InBlock THEN im.users[k] ELSE Overrun(us)[k]]
  BY DEF MountUsers
<1> QED BY <1>1, <1>2 DEF Saved

LEMMA MountStep == ASSUME Inv, NEW m \in Images, Mount(m) PROVE Inv'
<1>1. PICK us, images : /\ images = save_users_to_disk(us)
                        /\ image' = images
                        /\ users' = MountUsers(images[m], us)
                        /\ mounted' = IF image[m].open /\ image[m].magic THEN m ELSE NoImage
  BY DEF Mount
<1>2. ImagesKept' /\ image'[m].open = image[m].open /\ image'[m].magic = image[m].magic
  BY <1>1, SaveKeeps DEF ImagesKept
<1>3. mounted' \in Images \cup {NoImage}
  BY <1>1
<1>4. UsersAreOnTheImage'
  <2> SUFFICES ASSUME mounted' # NoImage PROVE image'[mounted'].users = Saved(users')
    BY DEF UsersAreOnTheImage
  <2>1. mounted' = m /\ image[m].open /\ image[m].magic
    BY <1>1
  <2>2. Kept(image'[m])
    BY <1>2 DEF ImagesKept
  <2> DEFINE im == image'[m]
  <2>3. Kept(im) /\ im.open /\ im.magic /\ users' = MountUsers(im, us)
    BY <1>1, <1>2, <2>1, <2>2, Zenon
  <2> HIDE DEF im
  <2>4. im.users = Saved(users')
    BY <2>3, LoadedAreSaved, Zenon
  <2> QED BY <2>1, <2>4, Zenon DEF im
<1> QED BY <1>2, <1>3, <1>4 DEF Inv

LEMMA LoginStep == ASSUME Inv, NEW name, NEW pass, Login(name, pass) PROVE Inv'
<1>1. CASE mounted = NoImage /\ UNCHANGED <<image, mounted, users>>
  BY <1>1 DEF Inv, ImagesKept, UsersAreOnTheImage
<1>2. CASE mounted # NoImage
  <2> DEFINE im == image[mounted]
             u == users[SlotOf(name)]
             steps == LoginSteps(im, HomeSteps(im, name), u)
  <2>1. Kept(im) /\ mounted \in Images /\ IsImage(im) /\ im.users = Saved(users)
    BY <1>2 DEF Inv, ImagesKept, Kept, UsersAreOnTheImage
  <2>2. /\ \A k \in 1 .. Len(steps) : ButFiles(im, steps[k])
        /\ ButFiles(im, Last(steps))
    BY <2>1, LoginSame
  <2>3. /\ \A k \in 1 .. Len(steps) - 1 : Kept(steps[k])
        /\ Kept(Last(steps)) /\ Last(steps).users = Saved(users)
    BY <2>1, <2>2, SameKept DEF ButFiles, SameUsers
  <2>4. \/ DiesIn(mounted, steps)
        \/ image' = [image EXCEPT ![mounted] = Last(steps)] /\ UNCHANGED <<mounted, users>>
    BY <1>2 DEF Login
  <2> HIDE DEF steps
  <2>5. CASE DiesIn(mounted, steps)
    BY <2>1, <2>3, <2>5, DiesSaved DEF Inv
  <2>6. CASE image' = [image EXCEPT ![mounted] = Last(steps)] /\ UNCHANGED <<mounted, users>>
    BY <2>1, <2>3, <2>6, OneImage DEF Inv, UsersAreOnTheImage
  <2> QED BY <2>4, <2>5, <2>6
<1> QED BY <1>1, <1>2 DEF Login

LEMMA LogoutStep == ASSUME Inv, Logout PROVE Inv'
<1>1. image' = save_users_to_disk(users) /\ UNCHANGED <<mounted, users>>
  BY DEF Logout
<1> QED BY <1>1, SaveKeeps DEF Inv, ImagesKept, UsersAreOnTheImage

LEMMA UseraddSteps ==
  ASSUME NEW u, Useradd(u), mounted # NoImage
  PROVE  LET us == [users EXCEPT ![Min({k \in UserSlot : users[k] = NoUser})] = u]
             steps == AddSteps(image[mounted], us, u)
         IN  \/ DiesIn(mounted, steps)
             \/ /\ image' = [image EXCEPT ![mounted] = Last(steps)]
                /\ users' = us /\ UNCHANGED <<mounted, cut>>
BY DEF Useradd, AddSteps

LEMMA UseraddStep == ASSUME Inv, NEW u, Useradd(u) PROVE Inv'
<1>1. CASE mounted = NoImage
  BY <1>1 DEF Useradd, Inv, ImagesKept, UsersAreOnTheImage
<1>2. CASE mounted # NoImage
  <2>1. Kept(image[mounted]) /\ mounted \in Images
    BY <1>2 DEF Inv, ImagesKept
  <2>2. PICK us, steps : /\ steps = AddSteps(image[mounted], us, u)
                         /\ \/ DiesIn(mounted, steps)
                            \/ /\ image' = [image EXCEPT ![mounted] = Last(steps)]
                               /\ users' = us /\ mounted' = mounted
    BY <1>2, UseraddSteps
  <2>3. /\ \A k \in 1 .. Len(steps) : Kept(steps[k])
        /\ Kept(Last(steps)) /\ Last(steps).users = Saved(us)
    BY <2>1, <2>2, UseraddSame
  <2>4. CASE DiesIn(mounted, steps)
    BY <2>1, <2>3, <2>4, DiesSaved DEF Inv
  <2>5. CASE image' = [image EXCEPT ![mounted] = Last(steps)] /\ users' = us /\ mounted' = mounted
    BY <2>1, <2>3, <2>5, OneImage DEF Inv, UsersAreOnTheImage
  <2> QED BY <2>2, <2>4, <2>5
<1> QED BY <1>1, <1>2

\* What root's commands on files change of an image is its volume.
LEMMA ByRootStep ==
  ASSUME Inv, NEW im, ButFiles(image[mounted], im), ByRoot(im)
  PROVE  Inv'
<1>1. mounted \in Images /\ Kept(image[mounted]) /\ image[mounted].users = Saved(users)
  BY DEF ByRoot, Inv, ImagesKept, UsersAreOnTheImage
<1>2. Kept(im) /\ im.users = Saved(users)
  BY <1>1, SameKept DEF ButFiles, SameUsers
<1>3. ImagesKept' /\ image'[mounted] = im
  BY <1>1, <1>2, OneImage DEF ByRoot, Inv
<1> QED BY <1>1, <1>2, <1>3 DEF ByRoot, Inv, UsersAreOnTheImage

LEMMA MountedFields == ASSUME Inv, mounted # NoImage PROVE IsImage(image[mounted])
BY DEF Inv, ImagesKept, Kept

LEMMA MkdirStep == ASSUME Inv, NEW p, Mkdir(p) PROVE Inv'
BY MountedFields, MadeSame, ByRootStep DEF Mkdir

LEMMA CreateStep == ASSUME Inv, NEW p, Create(p) PROVE Inv'
<1> DEFINE im == [image[mounted] EXCEPT !.vol = NewFile(@, DirOf(p), Last(p))]
<1>1. ByRoot(im) /\ mounted # NoImage
  BY DEF Create
<1>2. ButFiles(image[mounted], im)
  BY <1>1, MountedFields DEF ButFiles, SameUsers, Fields, IsImage
<1> HIDE DEF im
<1> QED BY <1>1, <1>2, ByRootStep

----------------------------------------------------------------------------
LEMMA InitInv == Init => Inv
<1> SUFFICES ASSUME Init PROVE Inv
  OBVIOUS
<1>1. ImagesKept
  BY BlankKept DEF Init, ImagesKept, Unformatted
<1> QED BY <1>1 DEF Init, Inv, UsersAreOnTheImage

LEMMA StepInv == Inv /\ [Next]_vars => Inv'
<1> SUFFICES ASSUME Inv, [Next]_vars PROVE Inv'
  OBVIOUS
<1>1. CASE \E m \in Images : Format(m) \/ Mount(m)
  BY <1>1, FormatStep, MountStep
<1>2. CASE Umount
  BY <1>2 DEF Umount, Inv, ImagesKept, UsersAreOnTheImage
<1>3. CASE \E l \in Logins : Login(l.name, l.pass)
  BY <1>3, LoginStep
<1>4. CASE Logout
  BY <1>4, LogoutStep
<1>5. CASE \E u \in NewUsers : Useradd(u)
  BY <1>5, UseraddStep
<1>6. CASE \E p \in MkdirPaths : Mkdir(p)
  BY <1>6, MkdirStep
<1>7. CASE \E p \in CreatePaths : Create(p)
  BY <1>7, CreateStep
<1>8. CASE Restart /\ UNCHANGED <<image, cut>>
  BY <1>8, RestartSaved DEF Inv, ImagesKept
<1>9. CASE UNCHANGED vars
  BY <1>9 DEF vars, Inv, ImagesKept, UsersAreOnTheImage
<1> QED BY <1>1, <1>2, <1>3, <1>4, <1>5, <1>6, <1>7, <1>8, <1>9 DEF Next

\* Whatever was formatted, mounted, added or cut short, of however many images, and
\* whatever the directories made on the way: the users of the mounted image are
\* those in memory, as far as the user block reaches.
THEOREM MountedImageHasTheUsers == Spec => []UsersAreOnTheImage
<1>1. Inv => UsersAreOnTheImage
  BY DEF Inv
<1> QED BY <1>1, InitInv, StepInv, PTL DEF Spec

----------------------------------------------------------------------------
(* Root, and the volume *)

WithRoot(im) == im.magic /\ HasRoot(im.users)

MountedIsOpen == mounted # NoImage => image[mounted].open /\ image[mounted].magic

\* An image that a command was cut short on may have no users.
Rooted ==
  /\ MountedIsOpen
  /\ \A m \in Images \ cut : image[m].magic => WithRoot(image[m])

----------------------------------------------------------------------------
LEMMA PresetsHaveRoot == HasRoot(Table(Presets)) /\ HasRoot(Saved(Table(Presets)))
<1>1. 1 \in UserSlot /\ 1 <= InBlock /\ Len(Presets) = 3 /\ Presets[1].name = "root"
  BY SessionAssumption DEF UserSlot, Presets, User
<1> QED BY <1>1 DEF HasRoot, Table, Saved

\* What is saved of a table has root only if the table has.
LEMMA SavedRoot ==
  ASSUME NEW us, HasRoot(Saved(us))
  PROVE  \E k \in UserSlot : k <= InBlock /\ us[k].name = "root"
<1>1. PICK k \in UserSlot : Saved(us)[k].name = "root"
  BY DEF HasRoot
<1>2. k <= InBlock /\ us[k].name = "root"
  BY <1>1 DEF Saved, NoUser, User
<1> QED BY <1>2

LEMMA SavedRootBack ==
  ASSUME NEW us, NEW k \in UserSlot, k <= InBlock, us[k].name = "root"
  PROVE  HasRoot(Saved(us))
BY DEF HasRoot, Saved

LEMMA UsersInitiallyHaveRoot == HasRoot(InitUsers)
BY PresetsHaveRoot DEF InitUsers

\* One image is another one, and the others are cut short or not as before.
LEMMA OneRooted ==
  ASSUME Inv, Rooted, NEW m \in Images, NEW im, image' = [image EXCEPT ![m] = im],
         m \notin cut' /\ im.magic => WithRoot(im),
         \A n \in Images \ {m} : n \notin cut' => n \notin cut,
         mounted' = NoImage \/ (mounted' = mounted /\ (m = mounted => im.open /\ im.magic))
  PROVE  Rooted'
<1>1. DOMAIN image = Images
  BY DEF Inv, ImagesKept
<1>2. image'[m] = im /\ \A n \in Images \ {m} : image'[n] = image[n]
  BY <1>1
<1>3. MountedIsOpen'
  BY <1>2 DEF MountedIsOpen, Rooted, Inv
<1>4. \A n \in Images \ cut' : image'[n].magic => WithRoot(image'[n])
  BY <1>2 DEF Rooted
<1> QED BY <1>3, <1>4 DEF Rooted, WithRoot, HasRoot

LEMMA RestartRooted ==
  ASSUME Restart PROVE HasRoot(users') /\ mounted' = NoImage
BY PresetsHaveRoot DEF Restart

LEMMA DiesRooted ==
  ASSUME Inv, Rooted, NEW m \in Images, NEW steps, DiesIn(m, steps)
  PROVE  Rooted'
<1>1. PICK k \in 1 .. Len(steps) - 1 : image' = [image EXCEPT ![m] = steps[k]]
  BY DEF DiesIn
<1>2. cut' = cut \cup {m}
  BY DEF DiesIn
<1> QED BY <1>1, <1>2, RestartRooted, OneRooted DEF DiesIn

----------------------------------------------------------------------------
LEMMA FormatRooted == ASSUME Inv, Rooted, NEW m \in Images, Format(m) PROVE Rooted'
<1>1. CASE DiesIn(m, FormatSteps)
  BY <1>1, DiesRooted
<1>2. CASE /\ image' = [image EXCEPT ![m] = Last(FormatSteps)]
           /\ mounted' = NoImage /\ cut' = cut \ {m}
  <2>1. WithRoot(Last(FormatSteps))
    BY FormatKept, PresetsHaveRoot DEF WithRoot
  <2> QED BY <1>2, <2>1, OneRooted
<1> QED BY <1>1, <1>2 DEF Format

\* What is saved at the start of a mount has root.
LEMMA MountSaves ==
  ASSUME Inv
  PROVE  HasRoot(Saved(InitUsers))
<1>1. CASE mounted # NoImage /\ InitUsers = image[mounted].users
  <2>1. Saved(InitUsers) = InitUsers
    BY <1>1 DEF Inv, ImagesKept, Kept
  <2> QED BY <2>1, UsersInitiallyHaveRoot
<1>2. CASE InitUsers = Table(Presets)
  BY <1>2, PresetsHaveRoot
<1>3. mounted = NoImage => InitUsers = Table(Presets)
  BY NoUsersAtAll DEF InitUsers, HasRoot, NoUser, User
<1> QED BY <1>1, <1>2, <1>3 DEF InitUsers

LEMMA LoadedRoot ==
  ASSUME NEW im, Kept(im), HasRoot(im.users), im.magic, NEW us, HasRoot(us)
  PROVE  HasRoot(MountUsers(im, us))
<1>1. CASE ~im.open
  BY <1>1 DEF MountUsers
<1>2. CASE im.open
  <2>1. PICK k \in UserSlot : k <= InBlock /\ im.users[k].name = "root"
    BY SavedRoot DEF Kept
  <2>2. MountUsers(im, us)[k] = im.users[k]
    BY <1>2, <2>1 DEF MountUsers
  <2> QED BY <2>1, <2>2 DEF HasRoot
<1> QED BY <1>1, <1>2

LEMMA MountRooted == ASSUME Inv, Rooted, NEW m \in Images, Mount(m) PROVE Rooted'
<1> DEFINE us == InitUsers
           images == save_users_to_disk(us)
<1>1. /\ image' = images /\ users' = MountUsers(images[m], us) /\ cut' = cut
      /\ mounted' = IF image[m].open /\ image[m].magic THEN m ELSE NoImage
  BY DEF Mount
<1>2. /\ \A n \in Images : Kept(images[n])
      /\ \A n \in Images : images[n].open = image[n].open /\ images[n].magic = image[n].magic
      /\ mounted # NoImage => images[mounted].users = Saved(us)
  BY SaveKeeps
<1>3. HasRoot(us) /\ HasRoot(Saved(us))
  BY UsersInitiallyHaveRoot, MountSaves
<1>4. \A n \in Images : n # mounted \/ mounted = NoImage => images[n] = image[n]
  BY DEF save_users_to_disk, Inv, ImagesKept
<1> HIDE DEF us, images
<1>5. \A n \in Images \ cut : images[n].magic => WithRoot(images[n])
  <2> TAKE n \in Images \ cut
  <2>1. CASE n = mounted /\ mounted # NoImage
    BY <1>2, <1>3, <2>1 DEF Rooted, WithRoot
  <2>2. CASE n # mounted \/ mounted = NoImage
    BY <1>4, <2>2 DEF Rooted
  <2> QED BY <2>1, <2>2
<1>6. MountedIsOpen'
  BY <1>1, <1>2 DEF MountedIsOpen
<1> QED BY <1>1, <1>5, <1>6 DEF Rooted, WithRoot, HasRoot

\* And root is known after it, unless the file is none or the image a bad one.
LEMMA MountKnowsRoot ==
  ASSUME Inv, Rooted, NEW m \in Images, Mount(m),
         ~(image[m].open /\ (image[m].magic => m \in cut))
  PROVE  HasRoot(users')
<1> DEFINE us == InitUsers
           images == save_users_to_disk(us)
<1>1. users' = MountUsers(images[m], us) /\ image' = images /\ cut' = cut
  BY DEF Mount
<1>2. Kept(images[m]) /\ images[m].open = image[m].open /\ images[m].magic = image[m].magic
  BY SaveKeeps
<1>3. HasRoot(us)
  BY UsersInitiallyHaveRoot
<1>4. Rooted'
  BY MountRooted
<1> HIDE DEF us, images
<1>5. CASE ~image[m].open
  BY <1>1, <1>2, <1>3, <1>5 DEF MountUsers
<1>6. CASE image[m].magic /\ m \notin cut
  <2>1. HasRoot(images[m].users)
    BY <1>1, <1>2, <1>4, <1>6 DEF Rooted, WithRoot, HasRoot
  <2> QED BY <1>1, <1>2, <1>3, <1>6, <2>1, LoadedRoot
<1> QED BY <1>5, <1>6

\* A step that changes of the mounted image its files at most, and nobody in memory.
LEMMA FilesRooted ==
  ASSUME Inv, Rooted, mounted # NoImage, NEW im, ButFiles(image[mounted], im),
         image' = [image EXCEPT ![mounted] = im], UNCHANGED <<mounted, users, cut>>
  PROVE  Rooted'
<1>1. mounted \in Images /\ im.open /\ im.magic
  BY DEF Inv, Rooted, MountedIsOpen, ButFiles
<1>2. mounted \notin cut' => WithRoot(im)
  BY <1>1 DEF Rooted, MountedIsOpen, ButFiles, SameUsers, WithRoot
<1> QED BY <1>1, <1>2, OneRooted

LEMMA LoginRooted == ASSUME Inv, Rooted, NEW name, NEW pass, Login(name, pass) PROVE Rooted'
<1>1. CASE mounted = NoImage /\ UNCHANGED <<image, mounted, users, cut>>
  BY <1>1 DEF Rooted, MountedIsOpen, WithRoot, HasRoot
<1>2. CASE mounted # NoImage
  <2> DEFINE im == image[mounted]
             u == users[SlotOf(name)]
             steps == LoginSteps(im, HomeSteps(im, name), u)
  <2>1. mounted \in Images /\ IsImage(im)
    BY <1>2, MountedFields DEF Inv
  <2>2. ButFiles(im, Last(steps))
    BY <2>1, LoginSame
  <2>3. \/ DiesIn(mounted, steps)
        \/ image' = [image EXCEPT ![mounted] = Last(steps)] /\ UNCHANGED <<mounted, users, cut>>
    BY <1>2 DEF Login
  <2> HIDE DEF steps
  <2> QED BY <1>2, <2>1, <2>2, <2>3, DiesRooted, FilesRooted
<1> QED BY <1>1, <1>2 DEF Login

LEMMA LogoutRooted == ASSUME Inv, Rooted, Logout PROVE Rooted'
<1>1. image' = save_users_to_disk(users) /\ UNCHANGED <<mounted, users, cut>>
  BY DEF Logout
<1>2. CASE mounted = NoImage
  BY <1>1, <1>2 DEF save_users_to_disk, Rooted, MountedIsOpen, WithRoot, HasRoot
<1>3. CASE mounted # NoImage
  <2>1. IsImage(image[mounted]) /\ image[mounted].users = Saved(users)
    BY <1>3, MountedFields DEF Inv, UsersAreOnTheImage
  <2>2. ButFiles(image[mounted], WithUsers(image[mounted], users))
    BY <2>1 DEF ButFiles, SameUsers, WithUsers, Fields, IsImage
  <2>3. image' = [image EXCEPT ![mounted] = WithUsers(image[mounted], users)]
    BY <1>1, <1>3 DEF save_users_to_disk
  <2> QED BY <1>1, <1>3, <2>2, <2>3, FilesRooted
<1> QED BY <1>2, <1>3

\* A new user takes the slot of nobody: root's stays root's.
LEMMA AddedBesideRoot ==
  ASSUME NEW us, DOMAIN us = UserSlot, NEW u,
         NEW k \in UserSlot, us[k].name = "root",
         NEW free, free = {j \in UserSlot : us[j] = NoUser}, free # {}
  PROVE  [us EXCEPT ![Min(free)] = u][k] = us[k]
<1>1. Min(free) \in free
  <2>1. free \subseteq Nat
    BY SessionAssumption DEF UserSlot
  <2> QED BY <2>1, MinIsLeast
<1>2. NoUser.name # us[k].name
  BY DEF NoUser, User
<1> QED BY <1>1, <1>2

LEMMA UseraddRooted ==
  ASSUME Inv, Rooted, DOMAIN users = UserSlot, NEW u, Useradd(u)
  PROVE  Rooted'
<1> DEFINE free == {k \in UserSlot : users[k] = NoUser}
           us == [users EXCEPT ![Min(free)] = u]
           im == image[mounted]
<1>1. free # {}
  BY DEF Useradd
<1>2. ASSUME NEW k \in UserSlot, users[k].name = "root" PROVE us[k] = users[k]
  BY <1>1, <1>2, AddedBesideRoot
<1>3. PICK steps :
        /\ steps = AddSteps(im, us, u)
        /\ \/ mounted = NoImage /\ UNCHANGED <<image, mounted, cut>> /\ users' = us
           \/ mounted # NoImage /\ DiesIn(mounted, steps)
           \/ /\ mounted # NoImage /\ users' = us /\ UNCHANGED <<mounted, cut>>
              /\ image' = [image EXCEPT ![mounted] = Last(steps)]
  <2>1. CASE mounted = NoImage
    BY <2>1 DEF Useradd
  <2>2. CASE mounted # NoImage
    BY <2>2, UseraddSteps
  <2> QED BY <2>1, <2>2
<1> HIDE DEF us
<1>4. CASE mounted = NoImage /\ UNCHANGED <<image, mounted, cut>> /\ users' = us
  BY <1>4 DEF Rooted, MountedIsOpen, WithRoot, HasRoot
<1>5. CASE mounted # NoImage /\ DiesIn(mounted, steps)
  BY <1>5, DiesRooted DEF Inv
<1>6. CASE /\ mounted # NoImage /\ users' = us /\ UNCHANGED <<mounted, cut>>
           /\ image' = [image EXCEPT ![mounted] = Last(steps)]
  <2>1. /\ Kept(im) /\ mounted \in Images /\ im.users = Saved(users)
        /\ im.open /\ im.magic
    BY <1>6 DEF Inv, ImagesKept, UsersAreOnTheImage, Rooted, MountedIsOpen
  <2>2. Last(steps).users = Saved(us) /\ Last(steps).open = im.open /\ Last(steps).magic = im.magic
    <3>1. steps = AddSteps(im, us, u)
      BY <1>3
    <3>2. Kept(im)
      BY <2>1
    <3> HIDE DEF im
    <3> QED BY <3>1, <3>2, UseraddSame
  <2>3. mounted \notin cut => WithRoot(Last(steps))
    <3> SUFFICES ASSUME mounted \notin cut PROVE WithRoot(Last(steps))
      OBVIOUS
    <3>1. WithRoot(im)
      BY <2>1 DEF Rooted
    <3>2. PICK k \in UserSlot : k <= InBlock /\ users[k].name = "root"
      BY <2>1, <3>1, SavedRoot DEF WithRoot
    <3>3. HasRoot(Saved(us))
      BY <1>2, <3>2, SavedRootBack
    <3> QED BY <2>2, <3>1, <3>3 DEF WithRoot
  <2> QED BY <1>6, <2>1, <2>2, <2>3, OneRooted
<1> QED BY <1>3, <1>4, <1>5, <1>6

LEMMA ByRootRooted ==
  ASSUME Inv, Rooted, NEW im, ButFiles(image[mounted], im), ByRoot(im)
  PROVE  Rooted'
BY FilesRooted DEF ByRoot

LEMMA MkdirRooted == ASSUME Inv, Rooted, NEW p, Mkdir(p) PROVE Rooted'
BY MountedFields, MadeSame, ByRootRooted DEF Mkdir

LEMMA CreateRooted == ASSUME Inv, Rooted, NEW p, Create(p) PROVE Rooted'
<1> DEFINE im == [image[mounted] EXCEPT !.vol = NewFile(@, DirOf(p), Last(p))]
<1>1. ByRoot(im) /\ mounted # NoImage
  BY DEF Create
<1>2. ButFiles(image[mounted], im)
  BY <1>1, MountedFields DEF ButFiles, SameUsers, Fields, IsImage
<1> HIDE DEF im
<1> QED BY <1>1, <1>2, ByRootRooted

----------------------------------------------------------------------------
\* The table in memory has all its slots.
Slotted == DOMAIN users = UserSlot

RootInv == Inv /\ Rooted /\ Slotted

LEMMA RestartSlotted == ASSUME Restart PROVE Slotted'
BY DEF Restart, Slotted, Table

LEMMA SlottedStep == ASSUME Inv, Slotted, [Next]_vars PROVE Slotted'
<1>1. ASSUME NEW m, NEW steps, DiesIn(m, steps) PROVE Slotted'
  BY <1>1, RestartSlotted DEF DiesIn
<1>2. CASE \E m \in Images : Format(m)
  BY <1>1, <1>2 DEF Format, Slotted, Table
<1>3. CASE \E m \in Images : Mount(m)
  <2>1. PICK m \in Images : Mount(m)
    BY <1>3
  <2>2. PICK us, im : us = InitUsers /\ users' = MountUsers(im, us)
    BY <2>1 DEF Mount
  <2>3. DOMAIN us = UserSlot
    <3>1. mounted # NoImage => DOMAIN image[mounted].users = UserSlot
      BY DEF Inv, ImagesKept, Kept, Saved
    <3>2. DOMAIN Table(Presets) = UserSlot /\ DOMAIN NoUsers = UserSlot
      BY DEF Table, NoUsers
    <3> QED BY <2>2, <3>1, <3>2 DEF InitUsers
  <2> QED BY <2>2, <2>3 DEF MountUsers, Overrun, Slotted
<1>4. CASE \E l \in Logins : Login(l.name, l.pass)
  BY <1>1, <1>4 DEF Login, Slotted
<1>5. CASE \E u \in NewUsers : Useradd(u)
  <2>1. PICK u \in NewUsers : Useradd(u)
    BY <1>5
  <2> DEFINE us == [users EXCEPT ![Min({k \in UserSlot : users[k] = NoUser})] = u]
  <2>2. DOMAIN us = UserSlot
    BY DEF Slotted
  <2>3. users' = us \/ \E steps : DiesIn(mounted, steps)
    <3>1. CASE mounted = NoImage
      BY <2>1, <3>1 DEF Useradd
    <3>2. CASE mounted # NoImage
      BY <2>1, <3>2 DEF Useradd
    <3> QED BY <3>1, <3>2
  <2> HIDE DEF us
  <2> QED BY <1>1, <2>2, <2>3 DEF Slotted
<1>6. CASE \/ Umount \/ Logout \/ UNCHANGED vars
           \/ \E p \in MkdirPaths : Mkdir(p)
           \/ \E p \in CreatePaths : Create(p)
  BY <1>6 DEF Umount, Logout, Mkdir, Create, ByRoot, vars, Slotted
<1>7. CASE Restart /\ UNCHANGED <<image, cut>>
  BY <1>7, RestartSlotted
<1> QED BY <1>2, <1>3, <1>4, <1>5, <1>6, <1>7 DEF Next

LEMMA NoMagicYet == ASSUME Init, NEW m \in Images PROVE ~image[m].magic
<1>1. ~Blank.magic /\ IsImage(Blank)
  BY BlankFields DEF Blank
<1>2. ~Absent.magic
  BY <1>1 DEF Absent, IsImage, Fields
<1> QED BY <1>1, <1>2 DEF Init, Unformatted

LEMMA RootInit == Init => RootInv
<1> SUFFICES ASSUME Init PROVE RootInv
  OBVIOUS
<1>1. \A m \in Images : ~image[m].magic
  BY NoMagicYet
<1>2. Rooted
  BY <1>1 DEF Init, Rooted, MountedIsOpen
<1>3. Slotted
  BY DEF Init, Slotted, Table
<1> QED BY <1>2, <1>3, InitInv DEF RootInv

LEMMA RootStep == RootInv /\ [Next]_vars => RootInv'
<1> SUFFICES ASSUME Inv, Rooted, Slotted, [Next]_vars PROVE RootInv'
  BY DEF RootInv
<1>1. Rooted'
  <2>1. CASE \E m \in Images : Format(m) \/ Mount(m)
    BY <2>1, FormatRooted, MountRooted
  <2>2. CASE Umount
    BY <2>2 DEF Umount, Rooted, MountedIsOpen, WithRoot, HasRoot
  <2>3. CASE \E l \in Logins : Login(l.name, l.pass)
    BY <2>3, LoginRooted
  <2>4. CASE Logout
    BY <2>4, LogoutRooted
  <2>5. CASE \E u \in NewUsers : Useradd(u)
    BY <2>5, UseraddRooted DEF Slotted
  <2>6. CASE \E p \in MkdirPaths : Mkdir(p)
    BY <2>6, MkdirRooted
  <2>7. CASE \E p \in CreatePaths : Create(p)
    BY <2>7, CreateRooted
  <2>8. CASE Restart /\ UNCHANGED <<image, cut>>
    BY <2>8, RestartRooted DEF Rooted, MountedIsOpen, WithRoot, HasRoot
  <2>9. CASE UNCHANGED vars
    BY <2>9 DEF vars, Rooted, MountedIsOpen, WithRoot, HasRoot
  <2> QED BY <2>1, <2>2, <2>3, <2>4, <2>5, <2>6, <2>7, <2>8, <2>9 DEF Next
<1>2. Inv'
  BY StepInv
<1> QED BY <1>1, <1>2, SlottedStep DEF RootInv

\* A useradd takes no name from root, nor does anything else but a mount.
LEMMA OnlyMountsLoseRoot ==
  ASSUME Slotted, [Next]_vars, HasRoot(users), \A m \in Images : ~Mount(m)
  PROVE  HasRoot(users')
<1>1. ASSUME NEW m, NEW steps, DiesIn(m, steps) PROVE HasRoot(users')
  BY <1>1, RestartRooted DEF DiesIn
<1>2. CASE \E m \in Images : Format(m)
  BY <1>1, <1>2, PresetsHaveRoot DEF Format
<1>3. CASE \E l \in Logins : Login(l.name, l.pass)
  BY <1>1, <1>3 DEF Login, HasRoot
<1>4. CASE \E u \in NewUsers : Useradd(u)
  <2>1. PICK u \in NewUsers : Useradd(u)
    BY <1>4
  <2> DEFINE free == {k \in UserSlot : users[k] = NoUser}
             us == [users EXCEPT ![Min(free)] = u]
  <2>2. PICK k \in UserSlot : users[k].name = "root"
    BY DEF HasRoot
  <2>3. free # {} /\ DOMAIN users = UserSlot
    BY <2>1 DEF Useradd, Slotted
  <2>4. us[k] = users[k]
    BY <2>2, <2>3, AddedBesideRoot
  <2>5. users' = us \/ \E steps : DiesIn(mounted, steps)
    <3>1. CASE mounted = NoImage
      BY <2>1, <3>1 DEF Useradd
    <3>2. CASE mounted # NoImage
      BY <2>1, <3>2 DEF Useradd
    <3> QED BY <3>1, <3>2
  <2> HIDE DEF us
  <2>6. CASE users' = us
    BY <2>2, <2>4, <2>6 DEF HasRoot
  <2> QED BY <1>1, <2>5, <2>6
<1>5. CASE \/ Umount \/ Logout \/ UNCHANGED vars
           \/ \E p \in MkdirPaths : Mkdir(p)
           \/ \E p \in CreatePaths : Create(p)
  BY <1>5 DEF Umount, Logout, Mkdir, Create, ByRoot, vars, HasRoot
<1>6. CASE Restart /\ UNCHANGED <<image, cut>>
  BY <1>6, RestartRooted
<1> QED BY <1>2, <1>3, <1>4, <1>5, <1>6 DEF Next

\* However many images and files there are, and whatever was formatted, mounted,
\* unmounted, added, saved and cut short: a step that forgets root is the mount of a
\* file that is no image, or of an image a command was cut short on.
THEOREM RootIsLostOnlyByBadMounts == Spec => RootLostOnlyByBadMounts
<1> DEFINE Bad_(m) == Mount(m) /\ image[m].open /\ (image[m].magic => m \in cut)
<1>1. RootInv /\ [Next]_vars =>
        [HasRoot(users) /\ ~HasRoot(users') => \E m \in Images : Bad_(m)]_vars
  <2> SUFFICES ASSUME Inv, Rooted, Slotted, [Next]_vars,
                      HasRoot(users), ~HasRoot(users')
               PROVE  \E m \in Images : Bad_(m)
    BY DEF RootInv
  <2>1. PICK m \in Images : Mount(m)
    BY OnlyMountsLoseRoot
  <2> QED BY <2>1, MountKnowsRoot
<1> QED BY <1>1, RootInit, RootStep, PTL DEF Spec, RootLostOnlyByBadMounts

\* And no mount writes an image: the users it finds at its start are either none, with
\* nothing mounted to save the default ones to, or those the mounted image has.
LEMMA MountWritesNothing ==
  ASSUME Inv, Rooted, cut = {}, NEW m \in Images, Mount(m)
  PROVE  image' = image
<1>1. image' = save_users_to_disk(InitUsers)
  BY DEF Mount
<1>2. CASE mounted = NoImage
  BY <1>1, <1>2 DEF save_users_to_disk
<1>3. CASE mounted # NoImage
  <2> DEFINE im == image[mounted]
  <2>1. mounted \in Images /\ Kept(im) /\ HasRoot(im.users)
    BY <1>3 DEF Inv, ImagesKept, Rooted, MountedIsOpen, WithRoot
  <2>2. InitUsers = im.users /\ Saved(im.users) = im.users
    BY <1>3, <2>1 DEF InitUsers, Kept
  <2>3. WithUsers(im, InitUsers) = im
    <3>1. IsImage(im)
      BY <1>3, MountedFields
    <3> QED BY <2>2, <3>1 DEF WithUsers, IsImage, Fields
  <2>4. image' = [image EXCEPT ![mounted] = im]
    BY <1>1, <1>3, <2>3 DEF save_users_to_disk
  <2> QED BY <2>4 DEF Inv, ImagesKept
<1> QED BY <1>2, <1>3

THEOREM MountsOnlyLoad == Spec => MountOnlyLoads
<1>1. RootInv /\ [Next]_vars => [cut = {} => \A m \in Images : Mount(m) => image' = image]_vars
  BY MountWritesNothing DEF RootInv
<1> QED BY <1>1, RootInit, RootStep, PTL DEF Spec, MountOnlyLoads

----------------------------------------------------------------------------
(* Whole images *)

\* The first block of the root has its two entries in their places.
RootStands(v) ==
  LET b == v.itab[RootIno].ptr[0]
  IN  /\ is_directory(v, RootIno) /\ b # 0 /\ Readable(v, b)
      /\ v.blk[b][1] = Entry(Dot, RootIno) /\ v.blk[b][2] = Entry(DotDot, RootIno)

\* A volume that a whole format made, and commands changed since.
Sound(v) == VolOK(v) /\ FreeUntyped(v) /\ RootStands(v)

LEMMA RootFindsItself ==
  ASSUME NEW v, VolOK(v), RootStands(v), NEW n \in {Dot, DotDot}
  PROVE  find_directory_entry(v, RootIno, n) = RootIno
<1> DEFINE r  == v.itab[RootIno].ptr[0]
           at == IF n = Dot THEN 1 ELSE 2
<1>1. /\ 0 \in Index /\ (\A l \in Index : ~(l < 0)) /\ RootIno \in Inodes
      /\ 1 \in Slot /\ 2 \in Slot /\ \A t \in Slot : t < 2 => t = 1
  BY VolumeAssumption DEF Index, Slot, RootIno, Inodes
<1>2. r # 0 /\ r < v.end /\ v.blk[r][1] = Entry(Dot, RootIno) /\ v.blk[r][2] = Entry(DotDot, RootIno)
  BY DEF RootStands, Readable
<1>3. /\ v.blk[r][at] = Entry(n, RootIno) /\ at \in Slot /\ IsNamed(v.blk[r][at], n)
      /\ \A t \in Slot : t < at => ~IsNamed(v.blk[r][t], n)
  <2>1. v.blk[r][at] = Entry(n, RootIno) /\ at \in Slot
    BY <1>1, <1>2 DEF Dot, DotDot
  <2>2. IsNamed(Entry(n, RootIno), n) /\ (n # Dot => ~IsNamed(Entry(Dot, RootIno), n))
    BY DEF IsNamed, Entry
  <2>3. ASSUME NEW t \in Slot, t < at PROVE n # Dot /\ t = 1
    BY <1>1, <2>3 DEF Slot
  <2> QED BY <1>2, <2>1, <2>2, <2>3
<1>4. Entry(n, RootIno).ino = RootIno
  BY DEF Entry
<1> HIDE DEF at
<1>5. FirstAt(v, RootIno, n, 0, at)
  BY <1>1, <1>2, <1>3 DEF FirstAt, Index
<1> HIDE DEF r
<1> QED BY <1>1, <1>3, <1>4, <1>5, FindsAt DEF r

\* Neither a new entry of the root nor anything elsewhere touches these entries.
LEMMA RootStaysSound ==
  ASSUME NEW v, Sound(v), NEW u, VolOK(u), NEW d, NEW i, NamespaceStep(v, u, d, i),
         i \in Inodes => i \notin v.imap, OnlyFills(v, u, d)
  PROVE  Sound(u)
<1> DEFINE b == v.itab[RootIno].ptr[0]
<1>1. RootIno \in Inodes /\ 0 \in Index /\ 1 \in Slot /\ 2 \in Slot /\ RootIno # 0
  BY VolumeAssumption DEF RootIno, Inodes, Index, Slot
<1>2. /\ v.itab[RootIno].type = "dir" /\ b # 0 /\ b < v.end
      /\ v.blk[b][1] = Entry(Dot, RootIno) /\ v.blk[b][2] = Entry(DotDot, RootIno)
  BY DEF Sound, RootStands, is_directory, IsType, Readable
<1>3. RootIno \in v.imap
  BY <1>1, <1>2 DEF Sound, FreeUntyped
<1>4. i # RootIno
  BY <1>1, <1>3
<1>5. SameInode(v, u, RootIno) /\ v.end <= u.end
  BY <1>1, <1>4 DEF NamespaceStep, Keeps
<1>6. u.itab[RootIno].type = "dir" /\ u.itab[RootIno].ptr[0] = b
  BY <1>1, <1>2, <1>5 DEF SameInode
<1>7. b \in Nat /\ v.end \in Nat /\ u.end \in Nat
  BY <1>1, VolumeAssumption DEF Sound, VolOK, Volumes, Inode
<1>8. b < u.end
  <2> HIDE DEF b
  <2> QED BY <1>2, <1>5, <1>7
<1>9. u.blk[b][1] = v.blk[b][1] /\ u.blk[b][2] = v.blk[b][2]
  <2>1. CASE d # RootIno
    <3>1. SameFile(v, u, RootIno)
      BY <1>1, <1>4, <2>1 DEF NamespaceStep, Keeps
    <3> QED BY <1>1, <1>2, <3>1 DEF SameFile
  <2>2. CASE d = RootIno
    <3>1. \A n : ~IsFree(Entry(n, RootIno))
      BY <1>1 DEF IsFree, EntryIno, Entry
    <3>2. ~IsFree(v.blk[b][1]) /\ ~IsFree(v.blk[b][2])
      BY <1>2, <3>1
    <3> QED BY <1>1, <1>2, <2>2, <3>2 DEF OnlyFills
  <2> QED BY <2>1, <2>2
<1>10. FreeUntyped(u)
  BY DEF Sound, FreeUntyped, NamespaceStep, Keeps, SameInode
<1>11. RootStands(u)
  BY <1>1, <1>2, <1>6, <1>8, <1>9 DEF RootStands, is_directory, IsType, Readable
<1> QED BY <1>10, <1>11 DEF Sound

LEMMA MakeDirectorySound ==
  ASSUME NEW v, Sound(v), NEW d, NEW n \in AnyName
  PROVE  Sound(MakeDirectory(v, d, n).vol)
<1> DEFINE u == MakeDirectory(v, d, n).vol
<1>1. VolOK(u)
  BY MakeDirectoryOK DEF Sound
<1>2. PICK i \in 1 .. MaxInodes :
        /\ NamespaceStep(v, u, d, i) /\ (i \in Inodes => i \notin v.imap)
        /\ u = v \/ is_directory(v, d)
  BY MakeDirectoryKeeps DEF Sound
<1>3. u = v \/ OnlyFills(v, u, d)
  BY <1>2, MakeDirectoryFills DEF Sound, is_directory, IsType
<1> HIDE DEF u
<1> QED BY <1>1, <1>2, <1>3, RootStaysSound DEF u

LEMMA NewFileSound ==
  ASSUME NEW v, Sound(v), NEW d, is_directory(v, d), NEW n \in AnyName
  PROVE  Sound(NewFile(v, d, n))
<1> DEFINE u == NewFile(v, d, n)
<1>1. VolOK(u) /\ OnlyFills(v, u, d)
  BY NewFileOK, NewFileFills DEF Sound
<1>2. PICK i \in 1 .. MaxInodes : NamespaceStep(v, u, d, i) /\ (i \in Inodes => i \notin v.imap)
  BY NewFileKeeps DEF Sound
<1> HIDE DEF u
<1> QED BY <1>1, <1>2, RootStaysSound DEF u

----------------------------------------------------------------------------
(* A format makes a whole image *)

LEMMA FormatMapIs ==
  LET v == FormatMap
  IN  /\ v \in Volumes
      /\ v.bmap = 1 .. Reserved /\ v.imap = {1} /\ v.end = MaxBlocks
      /\ v.itab = [i \in Inodes |-> ZeroInode]
<1> DEFINE v == Blank.vol
<1>1. /\ v.bmap = {} /\ v.imap = {} /\ v.itab = [i \in Inodes |-> ZeroInode]
      /\ v.blk = [b \in Blocks |-> ZeroBlock] /\ v.end = MaxBlocks /\ v.bfree = 0 /\ v.ifree = 0
  BY DEF Blank
<1>2. v = [bmap |-> v.bmap, imap |-> v.imap, itab |-> v.itab, blk |-> v.blk, end |-> v.end,
           bfree |-> v.bfree, ifree |-> v.ifree]
  BY DEF Blank
<1>3. v.itab \in [Inodes -> Inode] /\ v.blk \in [Blocks -> [Slot -> Word]]
  <2>1. ZeroInode \in Inode /\ ZeroBlock \in [Slot -> Word]
    BY NewInodeType DEF ZeroBlock, Word
  <2> QED BY <1>1, <2>1
<1>4. {1} \subseteq Inodes /\ 1 .. Reserved \subseteq Blocks
  BY VolumeAssumption DEF Inodes, Blocks
<1> DEFINE u == [v EXCEPT !.bmap = 1 .. Reserved, !.imap = {1}]
<1>5. FormatMap = u
  BY DEF FormatMap
<1>6. v \in Volumes
  BY <1>1, <1>2, <1>3, VolumeAssumption DEF Volumes
<1> HIDE DEF v
<1>7. u \in Volumes
  BY <1>4, <1>6 DEF Volumes
<1>8. u.bmap = 1 .. Reserved /\ u.imap = {1} /\ u.end = v.end /\ u.itab = v.itab
  BY <1>6 DEF Volumes
<1> QED BY <1>1, <1>5, <1>7, <1>8

LEMMA FormatMapOK == VolOK(FormatMap) /\ FreeUntyped(FormatMap)
<1>1. \A i \in Inodes : /\ FormatMap.itab[i].type = "none"
                        /\ \A k \in Index : FormatMap.itab[i].ptr[k] = 0
  BY FormatMapIs DEF ZeroInode, NewInode
<1>2. Owned(FormatMap)
  BY <1>1, FormatMapIs DEF Owned
<1> QED BY <1>1, <1>2, FormatMapIs DEF VolOK, FreeUntyped

\* The first inode left by the reserved one is the root's.
LEMMA RootGetsItsNumber ==
  LET a == create_inode(FormatMap, "dir")
  IN  /\ a.ret = RootIno
      /\ a.vol.bmap = 1 .. Reserved /\ a.vol.end = MaxBlocks
<1> DEFINE free == Inodes \ {1}
           v == FormatMap
           w == [v EXCEPT !.imap = @ \cup {RootIno}, !.ifree = (@ - 1) % CountMod]
           x == [w EXCEPT !.itab[RootIno] = NewInode("dir")]
<1>1. RootIno \in free /\ free \subseteq Nat /\ \A i \in free : RootIno <= i
  BY VolumeAssumption DEF RootIno, Inodes
<1>2. Min(free) = RootIno /\ free # {}
  <2> HIDE DEF free
  <2> QED BY <1>1, MinIs
<1>3. v \in Volumes /\ v.bmap = 1 .. Reserved /\ v.imap = {1} /\ v.end = MaxBlocks
  BY FormatMapIs
<1>4. allocate_inode(v) = Result(w, RootIno)
  BY <1>2, <1>3 DEF allocate_inode
<1>5. RootIno # Bad
  BY VolumeAssumption DEF RootIno, Bad
<1>6. create_inode(v, "dir") = Result(x, RootIno)
  <2>1. allocate_inode(v).vol = w /\ allocate_inode(v).ret = RootIno
    BY <1>4 DEF Result
  <2> HIDE DEF w, v
  <2> QED BY <1>5, <2>1, Zenon DEF create_inode
<1>7. x.bmap = v.bmap /\ x.end = v.end
  BY <1>3 DEF Volumes
<1> HIDE DEF x, v
<1> QED BY <1>3, <1>6, <1>7 DEF Result, v

LEMMA FormattedSound == Sound(RootSteps[5])
<1> DEFINE inode == create_inode(FormatMap, "dir")
           v     == inode.vol
           block == allocate_block(v)
           b     == block.ret
           tied  == set_inode_block(block.vol, RootIno, 0, b)
           dots  == [ZeroBlock EXCEPT ![1] = Entry(Dot, RootIno), ![2] = Entry(DotDot, RootIno)]
           u     == write_block(tied, b, dots)
<1>1. /\ RootIno \in Inodes /\ RootIno \in 1 .. MaxInodes /\ 0 \in Index
      /\ 1 \in Slot /\ 2 \in Slot /\ RootIno # 1
  BY VolumeAssumption DEF RootIno, Inodes, Index, Slot
<1>2. inode.ret = RootIno /\ v.bmap = 1 .. Reserved /\ v.end = MaxBlocks
  BY RootGetsItsNumber
<1>3. RootSteps[5] = u
  BY <1>2 DEF RootSteps
<1>4. /\ VolOK(v) /\ v.itab[RootIno].ptr[0] = 0 /\ v.itab[RootIno].type = "dir"
      /\ RootIno \in v.imap /\ FreeUntyped(v)
  <2>1. VolOK(FormatMap) /\ FreeUntyped(FormatMap)
    BY FormatMapOK
  <2> HIDE DEF inode
  <2>2. inode = create_inode(FormatMap, "dir")
    BY DEF inode
  <2>3. VolOK(v)
    BY <2>1, <2>2, CreateInodeOK
  <2>4. /\ Keeps(FormatMap, v, 0, RootIno)
        /\ v.imap = FormatMap.imap \cup {RootIno}
        /\ v.itab[RootIno].type = "dir" /\ v.itab[RootIno].ptr[0] = 0
    BY <1>1, <1>2, <2>1, <2>2, CreateInodeKeeps
  <2>5. FreeUntyped(v)
    BY <2>1, <2>4 DEF FreeUntyped, Keeps, SameInode
  <2> QED BY <2>3, <2>4, <2>5
<1> HIDE DEF inode
<1>5. b \in Blocks /\ b # 0
  <2>1. Reserved + 1 \in Blocks \ v.bmap
    BY <1>2, VolumeAssumption DEF Blocks
  <2>2. b = Min(Blocks \ v.bmap)
    BY <2>1 DEF allocate_block, Result
  <2>3. b \in Blocks
    BY <2>1, <2>2, MinIsLeast DEF Blocks
  <2> QED BY <2>3 DEF Blocks
<1>6. BlockFor(v, RootIno, 0) = Result(tied, b)
  BY <1>4, <1>5 DEF BlockFor, Attached, get_inode_block
<1> HIDE DEF block
<1>7. VolOK(tied)
  <2> HIDE DEF tied
  <2> QED BY <1>1, <1>4, <1>6, BlockForOK DEF Result
<1>8. /\ tied.itab = [v.itab EXCEPT ![RootIno].ptr[0] = b] /\ tied.imap = v.imap
  <2>1. block.vol.itab = v.itab /\ block.vol.imap = v.imap /\ VolOK(block.vol)
    BY <1>4, AllocateBlockOK DEF block
  <2> QED BY <1>1, <2>1 DEF set_inode_block, VolOK, Volumes
<1> HIDE DEF tied
<1>9. tied \in Volumes /\ v \in Volumes
  BY <1>4, <1>7 DEF VolOK
<1>10. dots \in [Slot -> Word] /\ dots[1] = Entry(Dot, RootIno) /\ dots[2] = Entry(DotDot, RootIno)
  <2>1. ZeroBlock \in [Slot -> Word]
    BY DEF ZeroBlock, Word
  <2>2. Entry(Dot, RootIno) \in Word /\ Entry(DotDot, RootIno) \in Word
    BY <1>1 DEF Word, Entry
  <2> QED BY <1>1, <2>1, <2>2
<1> HIDE DEF dots
<1>11. VolOK(u)
  BY <1>5, <1>7, <1>10, WriteBlockOK
<1>12. /\ u.itab = tied.itab /\ u.imap = tied.imap /\ u.blk = [tied.blk EXCEPT ![b] = dots]
       /\ u.end = IF b < tied.end THEN tied.end ELSE b + 1
  BY <1>9 DEF Volumes, write_block
<1> HIDE DEF u
<1>13. /\ u.itab[RootIno].type = "dir" /\ u.itab[RootIno].ptr[0] = b
       /\ \A i \in Inodes : u.itab[i].type = v.itab[i].type
  BY <1>1, <1>4, <1>8, <1>9, <1>12 DEF Volumes, Inode
<1>14. b < u.end
  BY <1>5, <1>9, <1>12, VolumeAssumption DEF Volumes, Blocks
<1>15. u.blk[b] = dots
  BY <1>5, <1>9, <1>12 DEF Volumes
<1>16. RootStands(u)
  BY <1>1, <1>5, <1>10, <1>13, <1>14, <1>15 DEF RootStands, is_directory, IsType, Readable
<1>17. FreeUntyped(u)
  BY <1>4, <1>8, <1>12, <1>13 DEF FreeUntyped
<1> QED BY <1>3, <1>11, <1>16, <1>17 DEF Sound

----------------------------------------------------------------------------
(* The images that no command was cut short on are whole *)

SoundImages == \A m \in Images \ cut : image[m].magic => Sound(image[m].vol)

\* One image is another one, and the others are cut short or not as before.
LEMMA OneSound ==
  ASSUME Inv, SoundImages, NEW m \in Images, NEW im, image' = [image EXCEPT ![m] = im],
         m \notin cut' /\ im.magic => Sound(im.vol),
         \A n \in Images \ {m} : n \notin cut' => n \notin cut
  PROVE  SoundImages'
<1>1. image'[m] = im /\ \A n \in Images \ {m} : image'[n] = image[n]
  BY DEF Inv, ImagesKept
<1> QED BY <1>1 DEF SoundImages

LEMMA DiesSound ==
  ASSUME Inv, SoundImages, NEW m \in Images, NEW steps, DiesIn(m, steps)
  PROVE  SoundImages'
<1>1. PICK k \in 1 .. Len(steps) - 1 : image' = [image EXCEPT ![m] = steps[k]]
  BY DEF DiesIn
<1>2. cut' = cut \cup {m}
  BY DEF DiesIn
<1> QED BY <1>1, <1>2, OneSound

LEMMA FormatSound ==
  ASSUME Inv, SoundImages, NEW m \in Images, Format(m) PROVE SoundImages'
<1>1. CASE DiesIn(m, FormatSteps)
  BY <1>1, DiesSound
<1>2. CASE image' = [image EXCEPT ![m] = Last(FormatSteps)] /\ cut' = cut \ {m}
  <2>1. Sound(Last(FormatSteps).vol)
    BY FormatKept, FormattedSound
  <2> QED BY <1>2, <2>1, OneSound
<1> QED BY <1>1, <1>2 DEF Format

\* What is saved to the mounted image is users.
LEMMA SavesSound ==
  ASSUME Inv, SoundImages, NEW us, image' = save_users_to_disk(us), cut' = cut
  PROVE  SoundImages'
<1>1. CASE mounted = NoImage
  BY <1>1 DEF save_users_to_disk, SoundImages
<1>2. CASE mounted # NoImage
  <2> DEFINE im == WithUsers(image[mounted], us)
  <2>1. IsImage(image[mounted]) /\ mounted \in Images
    BY <1>2, MountedFields DEF Inv
  <2>2. im.magic = image[mounted].magic /\ im.vol = image[mounted].vol
    BY <2>1 DEF WithUsers, Fields, IsImage
  <2>3. image' = [image EXCEPT ![mounted] = im]
    BY <1>2 DEF save_users_to_disk
  <2> HIDE DEF im
  <2>4. mounted \notin cut' /\ im.magic => Sound(im.vol)
    BY <2>1, <2>2 DEF SoundImages
  <2> QED BY <2>1, <2>3, <2>4, OneSound
<1> QED BY <1>1, <1>2

\* The directories that a login or a useradd makes.
LEMMA MadeSound ==
  ASSUME NEW im, IsImage(im), Sound(im.vol), NEW d, NEW n \in AnyName
  PROVE  Sound(Made(im, d, n).vol) /\ Sound(MadeInHome(im, n).vol)
<1>1. \A e : Sound(MakeDirectory(im.vol, e, n).vol)
  BY MakeDirectorySound
<1>2. /\ Made(im, d, n).vol = MakeDirectory(im.vol, d, n).vol
      /\ MadeInHome(im, n).vol
           = MakeDirectory(im.vol, find_directory_entry(im.vol, RootIno, "home"), n).vol
  BY DEF Made, MadeInHome, Fields, IsImage
<1> QED BY <1>1, <1>2

LEMMA OwnerSound ==
  ASSUME NEW im, IsImage(im), Sound(im.vol), NEW i, NEW uid
  PROVE  Sound(change_owner(im, i, uid).vol)
<1>1. change_owner(im, i, uid).vol = im.vol
  BY DEF change_owner, Fields, IsImage
<1> QED BY <1>1

LEMMA HomesSound ==
  ASSUME NEW im, IsImage(im), Sound(im.vol), NEW n \in Names, {"root", "home"} \subseteq Names,
         NEW u
  PROVE  \E S : /\ WithOwner(HomeSteps(im, n), u) \in Seq(S)
                /\ WithOwner(HomeSteps(im, n), u) # <<>>
                /\ \A x \in S : Sound(x.vol)
<1> DEFINE first  == Made(im, RootIno, HomePath(n)[1])
           second == MadeInHome(first, n)
           homes  == HomeSteps(im, n)
           owned  == change_owner(Last(homes), HomeOf(Last(homes), u.name), u.uid)
           S      == {first, second, owned}
<1>1. IsImage(first) /\ Sound(first.vol)
  <2>1. HomePath(n)[1] \in AnyName
    BY DEF HomePath, AnyName
  <2> QED BY <2>1, MadeSame, MadeSound DEF ButFiles, SameUsers
<1>2. IsImage(second) /\ Sound(second.vol)
  <2>1. n \in AnyName
    BY DEF AnyName
  <2> HIDE DEF first
  <2> QED BY <1>1, <2>1, MadeSame, MadeSound DEF ButFiles, SameUsers
<1>3. homes = <<first>> \/ homes = <<first, second>>
  BY DEF HomeSteps
<1> HIDE DEF first, second
<1>4. Last(homes) \in {first, second} /\ homes \in Seq(S)
  <2>1. CASE homes = <<first>>
    BY <2>1 DEF Last
  <2>2. CASE homes = <<first, second>>
    BY <2>2 DEF Last
  <2> HIDE DEF homes, S
  <2> QED BY <1>3, <2>1, <2>2
<1>5. Sound(owned.vol)
  BY <1>1, <1>2, <1>4, OwnerSound
<1>6. WithOwner(homes, u) = homes \o <<owned>>
  BY DEF WithOwner
<1> HIDE DEF homes, owned
<1>7. WithOwner(homes, u) \in Seq(S) /\ WithOwner(homes, u) # <<>>
  BY <1>4, <1>6, ConcatProperties, LenProperties, EmptySeq
<1> QED BY <1>1, <1>2, <1>5, <1>7 DEF homes

\* They are the last steps of a login, unless there is a home already, and of a useradd.
LEMMA AfterFirstSound ==
  ASSUME NEW T, NEW s \in Seq(T), NEW S, NEW t \in Seq(S), t # <<>>, \A x \in S : Sound(x.vol)
  PROVE  Sound(Last(s \o t).vol)
<1> DEFINE U == S \cup T
<1>1. s \in Seq(U) /\ t \in Seq(U)
  BY SeqDef
<1> HIDE DEF U
<1>2. Last(s \o t) = Last(t)
  BY <1>1, LastOfConcat
<1> QED BY <1>2, LastIn

LEMMA LoginSound ==
  ASSUME Inv, Rooted, SoundImages, NEW l \in Logins, Login(l.name, l.pass)
  PROVE  SoundImages'
<1>1. CASE mounted = NoImage /\ UNCHANGED <<image, cut>>
  BY <1>1 DEF SoundImages
<1>2. CASE mounted # NoImage
  <2> DEFINE im == image[mounted]
             u == users[SlotOf(l.name)]
             homes == WithOwner(HomeSteps(im, l.name), u)
             steps == LoginSteps(im, HomeSteps(im, l.name), u)
  <2>1. mounted \in Images /\ IsImage(im) /\ im.magic
    BY <1>2, MountedFields DEF Inv, Rooted, MountedIsOpen
  <2>2. mounted \notin cut => Sound(im.vol)
    BY <2>1 DEF SoundImages
  <2>3. \/ DiesIn(mounted, steps)
        \/ image' = [image EXCEPT ![mounted] = Last(steps)] /\ cut' = cut
    BY <1>2 DEF Login
  <2>4. mounted \notin cut => Sound(Last(steps).vol)
    <3> SUFFICES ASSUME mounted \notin cut PROVE Sound(Last(steps).vol)
      OBVIOUS
    <3>1. CASE HomeOf(im, u.name) # 0
      <4>1. Last(steps) = im
        BY <3>1 DEF LoginSteps, Last
      <4> QED BY <2>2, <4>1
    <3>2. CASE HomeOf(im, u.name) = 0
      <4>1. steps = <<im>> \o homes
        BY <3>2 DEF LoginSteps
      <4>2. l.name \in Names /\ {"root", "home"} \subseteq Names
        BY SessionAssumption
      <4>3. PICK S : homes \in Seq(S) /\ homes # <<>> /\ \A x \in S : Sound(x.vol)
        BY <2>1, <2>2, <4>2, HomesSound
      <4> HIDE DEF homes, im
      <4>4. <<im>> \in Seq({im})
        OBVIOUS
      <4> QED BY <4>1, <4>3, <4>4, AfterFirstSound
    <3> QED BY <3>1, <3>2
  <2> HIDE DEF steps
  <2>5. CASE DiesIn(mounted, steps)
    BY <2>1, <2>5, DiesSound
  <2>6. CASE image' = [image EXCEPT ![mounted] = Last(steps)] /\ cut' = cut
    BY <2>1, <2>4, <2>6, OneSound
  <2> QED BY <2>3, <2>5, <2>6
<1> QED BY <1>1, <1>2 DEF Login

LEMMA UseraddSound ==
  ASSUME Inv, Rooted, SoundImages, NEW u \in NewUsers, Useradd(u)
  PROVE  SoundImages'
<1>1. CASE mounted = NoImage
  BY <1>1 DEF Useradd, SoundImages
<1>2. CASE mounted # NoImage
  <2> DEFINE im == image[mounted]
  <2>1. mounted \in Images /\ IsImage(im) /\ im.magic
    BY <1>2, MountedFields DEF Inv, Rooted, MountedIsOpen
  <2>2. PICK us, steps : /\ steps = AddSteps(im, us, u)
                         /\ \/ DiesIn(mounted, steps)
                            \/ image' = [image EXCEPT ![mounted] = Last(steps)] /\ cut' = cut
    BY <1>2, UseraddSteps
  <2> DEFINE saved == WithUsers(im, us)
             homes == WithOwner(HomeSteps(saved, u.name), u)
  <2>3. IsImage(saved) /\ saved.vol = im.vol
    BY <2>1 DEF WithUsers, Fields, IsImage
  <2>4. steps = <<im, saved>> \o homes
    BY <2>2 DEF AddSteps
  <2>5. mounted \notin cut => Sound(Last(steps).vol)
    <3> SUFFICES ASSUME mounted \notin cut PROVE Sound(Last(steps).vol)
      OBVIOUS
    <3>1. Sound(saved.vol)
      BY <2>1, <2>3 DEF SoundImages
    <3>2. u.name \in Names /\ {"root", "home"} \subseteq Names
      BY SessionAssumption
    <3> HIDE DEF saved
    <3>3. PICK S : homes \in Seq(S) /\ homes # <<>> /\ \A x \in S : Sound(x.vol)
      BY <2>3, <3>1, <3>2, HomesSound
    <3> HIDE DEF homes, im
    <3>4. <<im, saved>> \in Seq({im, saved})
      OBVIOUS
    <3> QED BY <2>4, <3>3, <3>4, AfterFirstSound
  <2>6. CASE DiesIn(mounted, steps)
    BY <2>1, <2>6, DiesSound
  <2>7. CASE image' = [image EXCEPT ![mounted] = Last(steps)] /\ cut' = cut
    BY <2>1, <2>5, <2>7, OneSound
  <2> QED BY <2>2, <2>6, <2>7
<1> QED BY <1>1, <1>2

\* What root makes, at paths that end in names.
LEMMA LastNames ==
  ASSUME NEW p \in MkdirPaths \cup CreatePaths
  PROVE  Last(p) \in AnyName
<1>1. p \in Seq(Names) /\ p # <<>>
  BY SessionAssumption
<1> QED BY <1>1, LastIn DEF AnyName

LEMMA ByRootSound ==
  ASSUME Inv, Rooted, SoundImages, NEW im, ByRoot(im),
         Sound(image[mounted].vol) => Sound(im.vol)
  PROVE  SoundImages'
<1>1. mounted \in Images /\ image[mounted].magic
  BY DEF ByRoot, Inv, Rooted, MountedIsOpen
<1>2. image' = [image EXCEPT ![mounted] = im] /\ cut' = cut
  BY DEF ByRoot
<1>3. mounted \notin cut' /\ im.magic => Sound(im.vol)
  BY <1>1, <1>2 DEF SoundImages
<1> QED BY <1>1, <1>2, <1>3, OneSound

LEMMA MkdirSound ==
  ASSUME Inv, Rooted, SoundImages, NEW p \in MkdirPaths, Mkdir(p) PROVE SoundImages'
<1> DEFINE im == image[mounted]
<1>1. IsImage(im) /\ ByRoot(Made(im, DirOf(p), Last(p)))
  BY MountedFields DEF Mkdir
<1>2. Last(p) \in AnyName
  BY LastNames
<1>3. Sound(im.vol) => Sound(Made(im, DirOf(p), Last(p)).vol)
  BY <1>1, <1>2, MadeSound
<1> QED BY <1>1, <1>3, ByRootSound

LEMMA CreateSound ==
  ASSUME Inv, Rooted, SoundImages, NEW p \in CreatePaths, Create(p) PROVE SoundImages'
<1> DEFINE im == image[mounted]
           jm == [im EXCEPT !.vol = NewFile(@, DirOf(p), Last(p))]
<1>1. IsImage(im) /\ ByRoot(jm) /\ is_directory(im.vol, DirOf(p))
  BY MountedFields DEF Create
<1>2. Last(p) \in AnyName
  BY LastNames
<1>3. jm.vol = NewFile(im.vol, DirOf(p), Last(p))
  BY <1>1 DEF Fields, IsImage
<1> HIDE DEF jm
<1>4. Sound(im.vol) => Sound(jm.vol)
  BY <1>1, <1>2, <1>3, NewFileSound
<1> QED BY <1>1, <1>4, ByRootSound

----------------------------------------------------------------------------
WholeInv == RootInv /\ SoundImages

LEMMA WholeInit == Init => WholeInv
<1> SUFFICES ASSUME Init PROVE WholeInv
  OBVIOUS
<1>1. \A m \in Images : ~image[m].magic
  BY NoMagicYet
<1> QED BY <1>1, RootInit DEF WholeInv, SoundImages

LEMMA WholeStep == WholeInv /\ [Next]_vars => WholeInv'
<1> SUFFICES ASSUME WholeInv, [Next]_vars PROVE WholeInv'
  OBVIOUS
<1>1. Inv /\ Rooted /\ SoundImages
  BY DEF WholeInv, RootInv
<1>2. SoundImages'
  <2>1. CASE \E m \in Images : Format(m)
    BY <1>1, <2>1, FormatSound
  <2>2. CASE \E m \in Images : Mount(m)
    BY <1>1, <2>2, SavesSound DEF Mount
  <2>3. CASE \E l \in Logins : Login(l.name, l.pass)
    BY <1>1, <2>3, LoginSound
  <2>4. CASE Logout
    BY <1>1, <2>4, SavesSound DEF Logout
  <2>5. CASE \E u \in NewUsers : Useradd(u)
    BY <1>1, <2>5, UseraddSound
  <2>6. CASE \E p \in MkdirPaths : Mkdir(p)
    BY <1>1, <2>6, MkdirSound
  <2>7. CASE \E p \in CreatePaths : Create(p)
    BY <1>1, <2>7, CreateSound
  <2>8. CASE Umount \/ (Restart /\ UNCHANGED <<image, cut>>) \/ UNCHANGED vars
    BY <1>1, <2>8 DEF Umount, vars, SoundImages
  <2> QED BY <2>1, <2>2, <2>3, <2>4, <2>5, <2>6, <2>7, <2>8 DEF Next
<1> QED BY <1>2, RootStep DEF WholeInv

\* However many images there are, and whatever was made on them: an image that is
\* mounted, and that no command was cut short on since its format, has its reserved
\* blocks marked, a root that is a directory and finds itself under both its names,
\* and a user called root.
THEOREM FormattedImagesAreWhole == Spec => []MountedIsWhole
<1>1. WholeInv => MountedIsWhole
  <2> SUFFICES ASSUME WholeInv, mounted \notin cut \cup {NoImage} PROVE IsWhole(image[mounted])
    BY DEF MountedIsWhole
  <2>1. mounted \in Images \ cut /\ image[mounted].magic
    BY DEF WholeInv, RootInv, Inv, Rooted, MountedIsOpen
  <2>2. Sound(image[mounted].vol)
    BY <2>1 DEF WholeInv, SoundImages
  <2>3. HasRoot(image[mounted].users)
    BY <2>1 DEF WholeInv, RootInv, Rooted, WithRoot
  <2>4. \A n \in {Dot, DotDot} : find_directory_entry(image[mounted].vol, RootIno, n) = RootIno
    BY <2>2, RootFindsItself DEF Sound
  <2>5. 1 .. Reserved \subseteq image[mounted].vol.bmap
    BY <2>2 DEF Sound, VolOK, Owned
  <2>6. is_directory(image[mounted].vol, RootIno)
    BY <2>2, Zenon DEF Sound, RootStands
  <2> QED BY <2>3, <2>4, <2>5, <2>6, Zenon DEF IsWhole
<1> QED BY <1>1, WholeInit, WholeStep, PTL DEF Spec
----------------------------------------------------------------------------
(* Types *)

Seen == Users \cup {Nameless(u) : u \in Users}

TypedImage(im) == im \in Image /\ Typed(im.vol)

TInv ==
  /\ Inv
  /\ \A m \in Images : TypedImage(image[m])
  /\ users \in [UserSlot -> Seen]
  /\ current \in 0 .. MaxUsers
  /\ cwd \in 1 .. MaxInodes

LEMMA UserRecords == \A u \in Users : \E a, b, c : u = User(a, b, c)
<1>1. \A u \in NewUsers : u = User(u.name, u.pass, u.uid)
  BY SessionAssumption DEF User
<1>2. \A k \in 1 .. 3 : \E a, b, c : Presets[k] = User(a, b, c)
  BY DEF Presets
<1>3. \E a, b, c : NoUser = User(a, b, c)
  BY Zenon DEF NoUser
<1>4. \A u \in Users : u = NoUser \/ u \in NewUsers \/ \E k \in 1 .. 3 : u = Presets[k]
  BY DEF Users
<1>5. ASSUME NEW u \in NewUsers PROVE \E a, b, c : u = User(a, b, c)
  BY <1>1, Zenon
<1>6. ASSUME NEW u \in Users PROVE \E a, b, c : u = User(a, b, c)
  <2>1. CASE u = NoUser
    BY <1>3, <2>1
  <2>2. CASE u \in NewUsers
    BY <1>5, <2>2
  <2>3. CASE \E k \in 1 .. 3 : u = Presets[k]
    BY <1>2, <2>3
  <2> QED BY <1>4, <2>1, <2>2, <2>3
<1> QED BY <1>6

LEMMA NamelessIs ==
  ASSUME NEW a, NEW b, NEW c
  PROVE  Nameless(User(a, b, c)) = User("", b, c)
<1> DEFINE none == ""
<1>1. [User(a, b, c) EXCEPT !.name = none] = User(none, b, c)
  <2> HIDE DEF none
  <2> QED BY DEF User
<1> QED BY <1>1 DEF Nameless

LEMMA NamelessUser ==
  ASSUME NEW u \in Users PROVE Nameless(u).uid = u.uid /\ Nameless(Nameless(u)) = Nameless(u)
<1>1. PICK a, b, c : u = User(a, b, c)
  BY UserRecords
<1>2. Nameless(u) = User("", b, c)
  BY <1>1, NamelessIs
<1>3. Nameless(User("", b, c)) = User("", b, c)
  BY NamelessIs
<1>4. u.uid = c
  BY <1>1 DEF User
<1>5. User("", b, c).uid = c
  BY DEF User
<1>6. Nameless(u).uid = u.uid
  BY <1>2, <1>4, <1>5
<1> QED BY <1>2, <1>3, <1>6

LEMMA UidOfSeen == \A u \in Seen : u.uid \in Uids
BY NamelessUser DEF Uids, Seen

LEMMA NamelessTwice == \A u \in Seen : Nameless(u) \in Seen
BY NamelessUser DEF Seen

LEMMA TablesTyped ==
  /\ NoUser \in Users /\ NoUsers \in [UserSlot -> Users] /\ Table(Presets) \in [UserSlot -> Users]
  /\ \A us \in [UserSlot -> Users] : Saved(us) \in [UserSlot -> Users] /\ us \in [UserSlot -> Seen]
<1>1. NoUser \in Users /\ \A k \in 1 .. 3 : Presets[k] \in Users
  BY DEF Users
<1>2. Len(Presets) = 3
  BY DEF Presets
<1>3. NoUsers \in [UserSlot -> Users]
  BY <1>1, NoUsersAtAll
<1>4. Table(Presets) \in [UserSlot -> Users]
  BY <1>1, <1>2 DEF Table, UserSlot
<1>5. ASSUME NEW us \in [UserSlot -> Users]
      PROVE  Saved(us) \in [UserSlot -> Users] /\ us \in [UserSlot -> Seen]
  BY <1>1, <1>5 DEF Saved, Seen
<1> QED BY <1>1, <1>3, <1>4, <1>5

----------------------------------------------------------------------------
LEMMA VolumeTypedIn ==
  ASSUME NEW im, TypedImage(im), NEW v, Typed(v)
  PROVE  TypedImage([im EXCEPT !.vol = v])
BY DEF TypedImage, Image, Typed

LEMMA UsersTypedIn ==
  ASSUME NEW im, TypedImage(im), NEW us, Saved(us) \in [UserSlot -> Users]
  PROVE  TypedImage(WithUsers(im, us))
BY DEF TypedImage, Image, WithUsers

LEMMA OwnerTypedIn ==
  ASSUME NEW im, TypedImage(im), NEW i, NEW uid \in Uids
  PROVE  TypedImage(change_owner(im, i, uid))
BY DEF TypedImage, Image, change_owner

LEMMA MadeTypedIn ==
  ASSUME NEW im, TypedImage(im), NEW d, NEW n \in AnyName
  PROVE  TypedImage(Made(im, d, n)) /\ TypedImage(MadeInHome(im, n))
<1>1. \A e : Typed(MakeDirectory(im.vol, e, n).vol)
  BY MakeDirectoryTyped DEF TypedImage
<1>2. \A e : TypedImage([im EXCEPT !.vol = MakeDirectory(im.vol, e, n).vol])
  BY <1>1, VolumeTypedIn
<1> QED BY <1>2 DEF Made, MadeInHome

LEMMA BlankTyped == TypedImage(Blank) /\ TypedImage(Absent)
<1> DEFINE v == Blank.vol
<1>1. /\ v.bmap = {} /\ v.imap = {} /\ v.itab = [i \in Inodes |-> ZeroInode]
      /\ v.blk = [b \in Blocks |-> ZeroBlock] /\ v.end = MaxBlocks /\ v.bfree = 0 /\ v.ifree = 0
  BY DEF Blank
<1>2. v = [bmap |-> v.bmap, imap |-> v.imap, itab |-> v.itab, blk |-> v.blk, end |-> v.end,
           bfree |-> v.bfree, ifree |-> v.ifree]
  BY DEF Blank
<1>3. v.itab \in [Inodes -> Inode] /\ v.blk \in [Blocks -> [Slot -> Word]]
  <2>1. ZeroInode \in Inode /\ ZeroBlock \in [Slot -> Word]
    BY NewInodeType DEF ZeroBlock, Word
  <2> QED BY <1>1, <2>1
<1>4. Typed(v)
  BY <1>1, <1>2, <1>3, VolumeAssumption DEF Typed, Volumes
<1>5. /\ Blank.open = TRUE /\ Blank.magic = FALSE /\ Blank.users = NoUsers
      /\ Blank.owner = [i \in Inodes |-> 0]
      /\ Blank = [open |-> Blank.open, magic |-> Blank.magic, vol |-> v, owner |-> Blank.owner,
                  users |-> Blank.users]
  BY DEF Blank
<1>6. 0 \in Uids
  <2>1. NoUser.uid = 0
    BY DEF NoUser, User
  <2>2. NoUser \in Users
    BY TablesTyped
  <2> QED BY <2>1, <2>2 DEF Uids
<1> HIDE DEF v
<1>7. TypedImage(Blank)
  <2>1. /\ Blank.open \in BOOLEAN /\ Blank.magic \in BOOLEAN /\ v \in Volumes
        /\ Blank.users \in [UserSlot -> Users]
    BY <1>4, <1>5, TablesTyped, Zenon DEF Typed
  <2>2. Blank.owner \in [Inodes -> Uids]
    BY <1>5, <1>6
  <2>3. Blank \in Image
    BY <1>5, <2>1, <2>2 DEF Image
  <2> QED BY <1>4, <2>3, Zenon DEF TypedImage, v
<1>8. TypedImage(Absent)
  BY <1>7 DEF TypedImage, Image, Absent
<1> QED BY <1>7, <1>8

LEMMA RootStepsTyped == \A k \in 1 .. 5 : Typed(RootSteps[k])
<1> DEFINE inode == create_inode(FormatMap, "dir")
           block == allocate_block(inode.vol)
           tied  == set_inode_block(block.vol, inode.ret, 0, block.ret)
           dots  == [ZeroBlock EXCEPT ![1] = Entry(Dot, inode.ret), ![2] = Entry(DotDot, inode.ret)]
           last  == write_block(tied, block.ret, dots)
<1>1. Typed(FormatMap)
  BY FormatMapIs, VolumeAssumption DEF Typed
<1>2. Typed(inode.vol) /\ inode.ret \in 1 .. MaxInodes
  BY <1>1, CreateInodeTyped
<1>3. Typed(block.vol) /\ block.ret \in 0 .. BitmapBits
  BY <1>2, AllocateBlockTyped
<1>4. block.ret \in Blocks
  <2>1. Reserved + 1 \in Blocks \ inode.vol.bmap
    BY RootGetsItsNumber, VolumeAssumption DEF Blocks
  <2>2. block.ret = Min(Blocks \ inode.vol.bmap)
    BY <2>1 DEF allocate_block, Result
  <2> QED BY <2>1, <2>2, MinIsLeast DEF Blocks
<1>5. dots \in [Slot -> Word]
  <2>1. ZeroBlock \in [Slot -> Word]
    BY DEF ZeroBlock, Word
  <2>2. Entry(Dot, inode.ret) \in Word /\ Entry(DotDot, inode.ret) \in Word
    BY <1>2 DEF Word, Entry
  <2> QED BY <2>1, <2>2
<1>6. RootSteps = <<FormatMap, inode.vol, block.vol, tied, last>>
  BY DEF RootSteps
<1> HIDE DEF inode, dots
<1>7. Typed(tied)
  <2>1. 0 \in Index
    BY VolumeAssumption DEF Index
  <2> HIDE DEF block
  <2> QED BY <1>3, <2>1, AttachTyped
<1> HIDE DEF block, tied
<1>8. Typed(last)
  BY <1>4, <1>5, <1>7, WriteBlockTyped
<1> HIDE DEF last
<1> QED BY <1>1, <1>2, <1>3, <1>6, <1>7, <1>8

\* The steps of a format.
LEMMA FormatTyped ==
  /\ \A k \in 1 .. Len(FormatSteps) : TypedImage(FormatSteps[k])
  /\ TypedImage(Last(FormatSteps))
<1> DEFINE magic   == [Blank EXCEPT !.magic = TRUE]
           Vol(v)  == [Blank EXCEPT !.magic = TRUE, !.vol = v]
           made    == [k \in 1 .. 5 |-> Vol(RootSteps[k])]
           whole   == [Blank EXCEPT !.magic = TRUE, !.vol = RootSteps[5],
                                    !.users = Saved(Table(Presets))]
           S       == {x \in Image : Typed(x.vol)}
<1>1. Absent \in S /\ Blank \in S /\ magic \in S
  BY BlankTyped DEF TypedImage, Image
<1>2. \A k \in 1 .. 5 : Vol(RootSteps[k]) \in S
  <2>1. \A v : Typed(v) => Vol(v) \in S
    BY BlankTyped DEF TypedImage, Image, Typed
  <2> HIDE DEF Vol, S
  <2> QED BY <2>1, RootStepsTyped
<1>3. whole \in S
  <2>1. Typed(RootSteps[5]) /\ Saved(Table(Presets)) \in [UserSlot -> Users]
    BY RootStepsTyped, TablesTyped
  <2> QED BY <2>1, BlankTyped DEF TypedImage, Image, Typed
<1>4. FormatSteps = <<Absent, Blank, magic>> \o made \o <<whole>>
  BY DEF FormatSteps
<1>5. \A x \in S : TypedImage(x)
  BY DEF TypedImage
<1> HIDE DEF magic, whole, S, Vol
<1>6. made \in Seq(S)
  <2>1. made \in [1 .. 5 -> S]
    BY <1>2
  <2> QED BY <2>1, SeqDef
<1> HIDE DEF made
<1>7. <<Absent, Blank, magic>> \in Seq(S) /\ <<whole>> \in Seq(S)
  BY <1>1, <1>3
<1> DEFINE first == <<Absent, Blank, magic>> \o made
<1>8. first \in Seq(S) /\ FormatSteps = first \o <<whole>>
  BY <1>4, <1>6, <1>7, ConcatProperties
<1> HIDE DEF first
<1>9. FormatSteps \in Seq(S) /\ FormatSteps # <<>>
  BY <1>7, <1>8, ConcatProperties, LenProperties, EmptySeq
<1> QED BY <1>5, <1>9, ElementsIn, LastIn

----------------------------------------------------------------------------
(* The steps of login and useradd *)

LEMMA HomesTyped ==
  ASSUME NEW im, TypedImage(im), NEW n \in Names, NEW u, u.uid \in Uids
  PROVE  \E S : /\ WithOwner(HomeSteps(im, n), u) \in Seq(S)
                /\ WithOwner(HomeSteps(im, n), u) # <<>>
                /\ \A x \in S : TypedImage(x)
<1> DEFINE first  == Made(im, RootIno, HomePath(n)[1])
           second == MadeInHome(first, n)
           homes  == HomeSteps(im, n)
           owned  == change_owner(Last(homes), HomeOf(Last(homes), u.name), u.uid)
           S      == {first, second, owned}
<1>1. TypedImage(first)
  <2>1. HomePath(n)[1] \in AnyName
    BY SessionAssumption DEF HomePath, AnyName
  <2> QED BY <2>1, MadeTypedIn
<1> HIDE DEF first
<1>2. TypedImage(second)
  <2>1. n \in AnyName
    BY DEF AnyName
  <2> QED BY <1>1, <2>1, MadeTypedIn
<1>3. homes = <<first>> \/ homes = <<first, second>>
  BY DEF HomeSteps, first
<1> HIDE DEF second
<1>4. Last(homes) \in {first, second} /\ homes \in Seq(S)
  <2>1. CASE homes = <<first>>
    BY <2>1 DEF Last
  <2>2. CASE homes = <<first, second>>
    BY <2>2 DEF Last
  <2> HIDE DEF homes, S
  <2> QED BY <1>3, <2>1, <2>2
<1>5. TypedImage(owned)
  BY <1>1, <1>2, <1>4, OwnerTypedIn
<1>6. WithOwner(homes, u) = homes \o <<owned>>
  BY DEF WithOwner
<1> HIDE DEF homes, owned
<1>7. WithOwner(homes, u) \in Seq(S) /\ WithOwner(homes, u) # <<>>
  BY <1>4, <1>6, ConcatProperties, LenProperties, EmptySeq
<1> QED BY <1>1, <1>2, <1>5, <1>7 DEF homes

LEMMA AfterTyped ==
  ASSUME NEW T, NEW s \in Seq(T), NEW S, NEW t \in Seq(S),
         \A x \in S : TypedImage(x), \A x \in T : TypedImage(x), s # <<>>
  PROVE  (\A k \in 1 .. Len(s \o t) : TypedImage((s \o t)[k])) /\ TypedImage(Last(s \o t))
<1> DEFINE U == S \cup T
<1>1. s \in Seq(U) /\ t \in Seq(U) /\ \A x \in U : TypedImage(x)
  BY SeqDef
<1> HIDE DEF U
<1>2. s \o t \in Seq(U) /\ s \o t # <<>>
  BY <1>1, ConcatProperties, LenProperties, EmptySeq
<1> QED BY <1>1, <1>2, ElementsIn, LastIn

LEMMA LoginTyped ==
  ASSUME NEW im, TypedImage(im), NEW n \in Names, NEW u, u.uid \in Uids,
         NEW steps, steps = LoginSteps(im, HomeSteps(im, n), u)
  PROVE  (\A k \in 1 .. Len(steps) : TypedImage(steps[k])) /\ TypedImage(Last(steps))
<1>1. CASE HomeOf(im, u.name) # 0
  <2>1. steps = <<im>> \o <<>>
    BY <1>1 DEF LoginSteps
  <2>2. steps \in Seq({im}) /\ steps # <<>>
    BY <2>1
  <2> QED BY <2>2, ElementsIn, LastIn
<1>2. CASE HomeOf(im, u.name) = 0
  <2> DEFINE owned == WithOwner(HomeSteps(im, n), u)
  <2>1. PICK S : owned \in Seq(S) /\ owned # <<>> /\ \A x \in S : TypedImage(x)
    BY HomesTyped
  <2>2. steps = <<im>> \o owned
    BY <1>2 DEF LoginSteps
  <2> HIDE DEF owned
  <2>3. <<im>> \in Seq({im}) /\ <<im>> # <<>>
    OBVIOUS
  <2> QED BY <2>1, <2>2, <2>3, AfterTyped
<1> QED BY <1>1, <1>2

LEMMA AddTyped ==
  ASSUME NEW im, TypedImage(im), NEW us, Saved(us) \in [UserSlot -> Users],
         NEW u, u.name \in Names, u.uid \in Uids, NEW steps, steps = AddSteps(im, us, u)
  PROVE  (\A k \in 1 .. Len(steps) : TypedImage(steps[k])) /\ TypedImage(Last(steps))
<1> DEFINE saved == WithUsers(im, us)
           owned == WithOwner(HomeSteps(saved, u.name), u)
<1>1. TypedImage(saved)
  BY UsersTypedIn
<1>2. steps = <<im, saved>> \o owned
  BY DEF AddSteps
<1> HIDE DEF saved
<1>3. PICK S : owned \in Seq(S) /\ owned # <<>> /\ \A x \in S : TypedImage(x)
  BY <1>1, HomesTyped
<1> HIDE DEF owned
<1>4. <<im, saved>> \in Seq({im, saved}) /\ <<im, saved>> # <<>>
  OBVIOUS
<1>5. \A x \in {im, saved} : TypedImage(x)
  BY <1>1
<1> QED BY <1>2, <1>3, <1>4, <1>5, AfterTyped

LEMMA HomesAreInodes ==
  ASSUME NEW im, TypedImage(im), NEW n
  PROVE  HomeOf(im, n) \in 0 .. MaxInodes /\ StartsIn(im, n) \in 1 .. MaxInodes
<1>1. im.vol \in Volumes
  BY DEF TypedImage, Image
<1>2. HomeOf(im, n) \in 0 .. MaxInodes
  BY <1>1, ShortPaths DEF HomeOf, HomePath
<1> QED BY <1>2, VolumeAssumption DEF StartsIn, RootIno

----------------------------------------------------------------------------
(* The process *)

ImagesTyped == \A m \in Images : TypedImage(image[m])

LEMMA OneTyped ==
  ASSUME Inv, ImagesTyped, NEW m \in Images, NEW im, TypedImage(im), image' = [image EXCEPT ![m] = im]
  PROVE  ImagesTyped'
BY DEF Inv, ImagesKept, ImagesTyped

LEMMA RestartTyped ==
  ASSUME Restart
  PROVE  users' \in [UserSlot -> Seen] /\ current' \in 0 .. MaxUsers /\ cwd' \in 1 .. MaxInodes
<1>1. users' = Table(Presets) /\ current' = 0 /\ cwd' = RootIno
  BY DEF Restart
<1>2. Table(Presets) \in [UserSlot -> Seen]
  BY TablesTyped
<1>3. 0 \in 0 .. MaxUsers /\ RootIno \in 1 .. MaxInodes
  BY VolumeAssumption, SessionAssumption DEF RootIno
<1> QED BY <1>1, <1>2, <1>3

LEMMA DiesTyped ==
  ASSUME TInv, NEW m \in Images, NEW steps, \A k \in 1 .. Len(steps) - 1 : TypedImage(steps[k]),
         DiesIn(m, steps), Inv'
  PROVE  TInv'
<1>1. PICK k \in 1 .. Len(steps) - 1 : image' = [image EXCEPT ![m] = steps[k]]
  BY DEF DiesIn
<1>2. TypedImage(steps[k])
  BY <1>1
<1>3. ImagesTyped'
  BY <1>1, <1>2, OneTyped DEF TInv, ImagesTyped
<1> QED BY <1>3, RestartTyped DEF DiesIn, TInv, ImagesTyped

LEMMA FormatStepTyped == ASSUME TInv, NEW m \in Images, Format(m), Inv' PROVE TInv'
<1>1. CASE DiesIn(m, FormatSteps)
  <2>1. \A k \in 1 .. Len(FormatSteps) - 1 : TypedImage(FormatSteps[k])
    BY FormatTyped
  <2> QED BY <1>1, <2>1, DiesTyped
<1>2. CASE /\ image' = [image EXCEPT ![m] = Last(FormatSteps)]
           /\ users' = Table(Presets) /\ UNCHANGED <<current, cwd>>
  <2>1. ImagesTyped'
    BY <1>2, FormatTyped, OneTyped DEF TInv, ImagesTyped
  <2> QED BY <1>2, <2>1, TablesTyped DEF TInv, ImagesTyped
<1> QED BY <1>1, <1>2 DEF Format

LEMMA OverrunTyped ==
  ASSUME NEW us \in [UserSlot -> Seen] PROVE Overrun(us) \in [UserSlot -> Seen]
<1>1. NoUser \in Seen
  BY TablesTyped DEF Seen
<1>2. \A k \in UserSlot : us[k] \in Seen /\ Nameless(us[k]) \in Seen
  BY NamelessTwice
<1> QED BY <1>1, <1>2 DEF Overrun

LEMMA MountStepTyped == ASSUME TInv, NEW m \in Images, Mount(m), Inv' PROVE TInv'
<1>1. PICK us, images : /\ us = InitUsers /\ images = save_users_to_disk(us)
                        /\ image' = images /\ users' = MountUsers(images[m], us)
                        /\ current' = 0 /\ cwd' = cwd
  BY DEF Mount
<1>2. us \in [UserSlot -> Users]
  <2>1. mounted # NoImage => image[mounted].users \in [UserSlot -> Users]
    BY DEF TInv, Inv, TypedImage, Image
  <2> QED BY <1>1, <2>1, TablesTyped DEF InitUsers
<1>3. us \in [UserSlot -> Seen] /\ Saved(us) \in [UserSlot -> Users]
  BY <1>2, TablesTyped
<1>4. ImagesTyped'
  <2>1. CASE mounted = NoImage
    BY <1>1, <2>1 DEF save_users_to_disk, TInv, ImagesTyped
  <2>2. CASE mounted # NoImage
    <3>1. TypedImage(WithUsers(image[mounted], us)) /\ mounted \in Images
      BY <1>3, <2>2, UsersTypedIn DEF TInv, Inv
    <3>2. image' = [image EXCEPT ![mounted] = WithUsers(image[mounted], us)]
      BY <1>1, <2>2 DEF save_users_to_disk
    <3> QED BY <3>1, <3>2, OneTyped DEF TInv, ImagesTyped
  <2> QED BY <2>1, <2>2
<1>5. users' \in [UserSlot -> Seen]
  <2>1. images[m].users \in [UserSlot -> Users]
    BY <1>1, <1>4 DEF ImagesTyped, TypedImage, Image
  <2>2. images[m].users \in [UserSlot -> Seen] /\ Overrun(us) \in [UserSlot -> Seen]
    BY <1>3, <2>1, TablesTyped, OverrunTyped
  <2> QED BY <1>1, <1>3, <2>2 DEF MountUsers
<1> QED BY <1>1, <1>4, <1>5, SessionAssumption DEF TInv, ImagesTyped

LEMMA LoginStepTyped ==
  ASSUME TInv, NEW name \in Names, NEW pass, Login(name, pass), Inv' PROVE TInv'
<1> DEFINE u == users[SlotOf(name)]
<1>1. SlotOf(name) \in UserSlot
  <2>1. SlotsNamed(name) \subseteq UserSlot /\ SlotsNamed(name) # {} /\ SlotsNamed(name) \subseteq Nat
    BY DEF Login, IsLogin, SlotsNamed, UserSlot
  <2> QED BY <2>1, MinIsLeast DEF SlotOf
<1>2. u.uid \in Uids /\ SlotOf(name) \in 0 .. MaxUsers
  BY <1>1, UidOfSeen, SessionAssumption DEF TInv, UserSlot
<1>3. CASE current' = SlotOf(name) /\ cwd' = RootIno /\ UNCHANGED <<image, users>>
  BY <1>2, <1>3, VolumeAssumption DEF TInv, RootIno
<1>4. CASE mounted # NoImage
  <2> DEFINE im == image[mounted]
             steps == LoginSteps(im, HomeSteps(im, name), u)
  <2>1. TypedImage(im) /\ mounted \in Images
    BY <1>4 DEF TInv, Inv
  <2>2. (\A k \in 1 .. Len(steps) : TypedImage(steps[k])) /\ TypedImage(Last(steps))
    BY <1>2, <2>1, LoginTyped
  <2>3. \/ DiesIn(mounted, steps)
        \/ /\ image' = [image EXCEPT ![mounted] = Last(steps)]
           /\ current' = SlotOf(name) /\ cwd' = StartsIn(Last(steps), name) /\ UNCHANGED users
    BY <1>4 DEF Login, SessionAfter
  <2> HIDE DEF steps
  <2>4. CASE DiesIn(mounted, steps)
    <3>1. \A k \in 1 .. Len(steps) - 1 : TypedImage(steps[k])
      BY <2>2
    <3> QED BY <2>1, <2>4, <3>1, DiesTyped
  <2>5. CASE /\ image' = [image EXCEPT ![mounted] = Last(steps)]
             /\ current' = SlotOf(name) /\ cwd' = StartsIn(Last(steps), name) /\ UNCHANGED users
    <3>1. ImagesTyped'
      BY <2>1, <2>2, <2>5, OneTyped DEF TInv, ImagesTyped
    <3>2. cwd' \in 1 .. MaxInodes
      BY <2>2, <2>5, HomesAreInodes
    <3> QED BY <1>2, <2>5, <3>1, <3>2 DEF TInv, ImagesTyped
  <2> QED BY <2>3, <2>4, <2>5
<1> QED BY <1>3, <1>4 DEF Login

\* What is in memory can be saved while an image is mounted.
LEMMA SavedTyped == ASSUME TInv, mounted # NoImage PROVE Saved(users) \in [UserSlot -> Users]
BY DEF TInv, Inv, UsersAreOnTheImage, TypedImage, Image

LEMMA LogoutStepTyped == ASSUME TInv, Logout, Inv' PROVE TInv'
<1>1. image' = save_users_to_disk(users) /\ current' = 0 /\ UNCHANGED <<users, cwd>>
  BY DEF Logout
<1>2. CASE mounted = NoImage
  BY <1>1, <1>2, SessionAssumption DEF save_users_to_disk, TInv
<1>3. CASE mounted # NoImage
  <2>1. TypedImage(WithUsers(image[mounted], users)) /\ mounted \in Images
    BY <1>3, SavedTyped, UsersTypedIn DEF TInv, Inv
  <2>2. image' = [image EXCEPT ![mounted] = WithUsers(image[mounted], users)]
    BY <1>1, <1>3 DEF save_users_to_disk
  <2>3. ImagesTyped'
    BY <2>1, <2>2, OneTyped DEF TInv, ImagesTyped
  <2> QED BY <1>1, <2>3, SessionAssumption DEF TInv, ImagesTyped
<1> QED BY <1>2, <1>3

LEMMA UseraddStepTyped == ASSUME TInv, NEW u \in NewUsers, Useradd(u), Inv' PROVE TInv'
<1> DEFINE us == [users EXCEPT ![Min({k \in UserSlot : users[k] = NoUser})] = u]
           steps == AddSteps(image[mounted], us, u)
<1>1. u \in Users /\ u \in Seen /\ u.uid \in Uids /\ u.name \in Names
  BY SessionAssumption DEF Users, Seen, Uids
<1>2. us \in [UserSlot -> Seen]
  BY <1>1 DEF TInv
<1>3. CASE mounted = NoImage
  BY <1>2, <1>3 DEF Useradd, TInv
<1>4. CASE mounted # NoImage
  <2>1. Saved(us) \in [UserSlot -> Users]
    <3>1. \A k \in UserSlot : Saved(users)[k] \in Users
      BY <1>4, SavedTyped
    <3>2. \A k \in UserSlot : us[k] = u \/ us[k] = users[k]
      BY DEF TInv
    <3> HIDE DEF us
    <3>3. \A k \in UserSlot : Saved(us)[k] \in Users
      BY <1>1, <3>1, <3>2 DEF Saved
    <3> QED BY <3>3 DEF Saved
  <2>2. \/ DiesIn(mounted, steps)
        \/ /\ image' = [image EXCEPT ![mounted] = Last(steps)]
           /\ users' = us /\ UNCHANGED <<current, cwd>>
    BY <1>4 DEF Useradd, AddSteps
  <2>3. TypedImage(image[mounted]) /\ mounted \in Images
    BY <1>4 DEF TInv, Inv
  <2> HIDE DEF us
  <2>4. (\A k \in 1 .. Len(steps) : TypedImage(steps[k])) /\ TypedImage(Last(steps))
    BY <1>1, <2>1, <2>3, AddTyped
  <2> HIDE DEF steps
  <2>5. CASE DiesIn(mounted, steps)
    <3>1. \A k \in 1 .. Len(steps) - 1 : TypedImage(steps[k])
      BY <2>4
    <3> QED BY <2>3, <2>5, <3>1, DiesTyped
  <2>6. CASE /\ image' = [image EXCEPT ![mounted] = Last(steps)]
             /\ users' = us /\ UNCHANGED <<current, cwd>>
    <3>1. ImagesTyped'
      BY <2>3, <2>4, <2>6, OneTyped DEF TInv, ImagesTyped
    <3> QED BY <1>2, <2>6, <3>1 DEF TInv, ImagesTyped
  <2> QED BY <2>2, <2>5, <2>6
<1> QED BY <1>3, <1>4

LEMMA ByRootTyped ==
  ASSUME TInv, NEW im, TypedImage(im), ByRoot(im), Inv' PROVE TInv'
<1>1. ImagesTyped'
  BY OneTyped DEF ByRoot, TInv, Inv, ImagesTyped
<1> QED BY <1>1 DEF ByRoot, TInv, ImagesTyped

LEMMA MkdirStepTyped == ASSUME TInv, NEW p \in MkdirPaths, Mkdir(p), Inv' PROVE TInv'
<1>1. Last(p) \in AnyName
  BY LastNames
<1>2. TypedImage(image[mounted])
  BY DEF Mkdir, TInv, Inv
<1>3. TypedImage(Made(image[mounted], DirOf(p), Last(p)))
  BY <1>1, <1>2, MadeTypedIn
<1> QED BY <1>3, ByRootTyped DEF Mkdir

LEMMA CreateStepTyped == ASSUME TInv, NEW p \in CreatePaths, Create(p), Inv' PROVE TInv'
<1> DEFINE im == image[mounted]
           v  == NewFile(im.vol, DirOf(p), Last(p))
<1>1. Last(p) \in AnyName
  BY LastNames
<1>2. TypedImage(im)
  BY DEF Create, TInv, Inv
<1>3. Typed(v)
  BY <1>1, <1>2, NewFileTyped DEF TypedImage
<1>4. ByRoot([im EXCEPT !.vol = v])
  BY DEF Create
<1> HIDE DEF v
<1> QED BY <1>2, <1>3, <1>4, VolumeTypedIn, ByRootTyped

----------------------------------------------------------------------------
LEMMA TypesInit == Init => TInv
<1> SUFFICES ASSUME Init PROVE TInv
  OBVIOUS
<1>1. Inv
  BY InitInv
<1>2. \A m \in Images : TypedImage(image[m])
  BY BlankTyped DEF Init, Unformatted
<1>3. Table(Presets) \in [UserSlot -> Seen]
  BY TablesTyped
<1>4. 0 \in 0 .. MaxUsers /\ RootIno \in 1 .. MaxInodes
  BY VolumeAssumption, SessionAssumption DEF RootIno
<1>5. users = Table(Presets) /\ current = 0 /\ cwd = RootIno
  BY DEF Init
<1> QED BY <1>1, <1>2, <1>3, <1>4, <1>5 DEF TInv

LEMMA TypesStep == TInv /\ [Next]_vars => TInv'
<1> SUFFICES ASSUME TInv, [Next]_vars PROVE TInv'
  OBVIOUS
<1>1. Inv'
  BY StepInv DEF TInv
<1>2. CASE \E m \in Images : Format(m) \/ Mount(m)
  BY <1>1, <1>2, FormatStepTyped, MountStepTyped
<1>3. CASE Umount
  BY <1>1, <1>3 DEF Umount, TInv
<1>4. CASE \E l \in Logins : Login(l.name, l.pass)
  <2>1. \A l \in Logins : l.name \in Names
    BY SessionAssumption
  <2> QED BY <1>1, <1>4, <2>1, LoginStepTyped
<1>5. CASE Logout
  BY <1>1, <1>5, LogoutStepTyped
<1>6. CASE \E u \in NewUsers : Useradd(u)
  BY <1>1, <1>6, UseraddStepTyped
<1>7. CASE \E p \in MkdirPaths : Mkdir(p)
  BY <1>1, <1>7, MkdirStepTyped
<1>8. CASE \E p \in CreatePaths : Create(p)
  BY <1>1, <1>8, CreateStepTyped
<1>9. CASE Restart /\ UNCHANGED <<image, cut>>
  BY <1>1, <1>9, RestartTyped DEF TInv
<1>10. CASE UNCHANGED vars
  BY <1>1, <1>10 DEF vars, TInv
<1> QED BY <1>2, <1>3, <1>4, <1>5, <1>6, <1>7, <1>8, <1>9, <1>10 DEF Next

LEMMA TInvTypes == TInv => TypeOK
<1> SUFFICES ASSUME TInv PROVE TypeOK
  OBVIOUS
<1>1. image \in [Images -> Image]
  <2>1. image = [m \in Images |-> image[m]] /\ \A m \in Images : image[m] \in Image
    BY DEF TInv, Inv, ImagesKept, TypedImage
  <2> QED BY <2>1
<1> QED BY <1>1 DEF TypeOK, TInv, Inv, Seen

\* Every variable has its type: whatever a killed format or mount left on the
\* images, their volumes are volumes, their users and owners are known ones, and the
\* users in memory are those and users whose name a failed mount ran over.
THEOREM SessionTypes == Spec => []TypeOK
BY TypesInit, TypesStep, TInvTypes, PTL DEF Spec

----------------------------------------------------------------------------
(* Homes: no command of a session removes a name, so that directories are   *)
(* filled from the front, names stay, and what they lead to.                *)

\* What a format leaves, whole or killed, is as tidy as what it began with, and has
\* no entries but those of the two dots.
LEMMA RootStepsLater == \A k \in 1 .. 5 : Later(FormatMap, RootSteps[k])
<1> DEFINE v     == FormatMap
           inode == create_inode(v, "dir")
           w     == inode.vol
           block == allocate_block(w)
           x     == block.vol
           b     == block.ret
           tied  == set_inode_block(x, RootIno, 0, b)
           dots  == [ZeroBlock EXCEPT ![1] = Entry(Dot, RootIno), ![2] = Entry(DotDot, RootIno)]
           u     == write_block(tied, b, dots)
<1>1. /\ RootIno \in Inodes /\ RootIno \in 1 .. MaxInodes /\ 0 \in Index
      /\ 1 \in Slot /\ 2 \in Slot /\ RootIno # 1
  BY VolumeAssumption DEF RootIno, Inodes, Index, Slot
<1>2. inode.ret = RootIno /\ w.bmap = 1 .. Reserved /\ w.end = MaxBlocks
  BY RootGetsItsNumber
<1>3. RootSteps = <<v, w, x, tied, u>>
  BY <1>2 DEF RootSteps
<1>4. VolOK(v) /\ Tidy(v) /\ v.imap = {1}
  <2>1. VolOK(v) /\ FreeUntyped(v) /\ v.imap = {1}
    BY FormatMapOK, FormatMapIs
  <2>2. \A i \in Inodes, k \in Index : v.itab[i].ptr[k] = 0
    BY FormatMapIs DEF ZeroInode, NewInode
  <2>3. \A y \in Blocks, s \in Slot : IsFree(v.blk[y][s])
    <3>1. v.blk = [y \in Blocks |-> ZeroBlock]
      <4>1. v = [Blank.vol EXCEPT !.bmap = 1 .. Reserved, !.imap = {1}]
        BY DEF FormatMap
      <4>2. Blank.vol.blk = [y \in Blocks |-> ZeroBlock] /\ Blank.vol \in Volumes
        BY BlankTyped DEF Blank, Typed, TypedImage
      <4> QED BY <4>1, <4>2 DEF Volumes
    <3> QED BY <3>1 DEF ZeroBlock, Zero, IsFree, EntryIno
  <2> HIDE DEF v
  <2> QED BY <2>1, <2>2, <2>3 DEF Tidy, TidyBut, Packed, FullBefore, FreeEmpty, ReadBut
<1>5. Later(v, v)
  BY <1>4, GrowsSelf DEF Later
<1>6. Later(v, w)
  <2> HIDE DEF v
  <2> QED BY <1>4, CreateInodeLater DEF inode
<1>7. Later(v, x)
  <2> HIDE DEF v, w
  <2> QED BY <1>4, <1>6, AllocateBlockLater
<1>8. b = Reserved + 1 /\ b \in Blocks
  <2>1. Reserved + 1 \in Blocks \ w.bmap /\ \A y \in Blocks \ w.bmap : Reserved + 1 <= y
    BY <1>2, VolumeAssumption DEF Blocks
  <2>2. b = Min(Blocks \ w.bmap)
    BY <2>1 DEF allocate_block, Result
  <2> DEFINE free == Blocks \ w.bmap
  <2>3. free \subseteq Nat
    BY DEF Blocks
  <2> HIDE DEF free, block
  <2>4. Min(free) = Reserved + 1
    BY <2>1, <2>3, MinIs DEF free
  <2> QED BY <2>1, <2>2, <2>4 DEF free
<1>9. /\ x.itab = w.itab /\ x.imap = w.imap /\ x.end = w.end
      /\ RootIno \notin v.imap /\ w.imap = v.imap \cup {RootIno}
      /\ \A k \in Index : w.itab[RootIno].ptr[k] = 0
  <2>1. VolOK(w)
    BY <1>6 DEF Later, Tidy, TidyBut
  <2>2. x.itab = w.itab /\ x.imap = w.imap /\ x.end = w.end
    <3> HIDE DEF w
    <3> QED BY <2>1, AllocateBlockOK
  <2> HIDE DEF v
  <2>3. /\ w.imap = v.imap \cup {RootIno} /\ \A k \in Index : w.itab[RootIno].ptr[k] = 0
    BY <1>1, <1>2, <1>4, CreateInodeKeeps
  <2> QED BY <1>1, <1>4, <2>2, <2>3
<1>10. /\ Later(v, tied) /\ tied.imap = x.imap /\ tied.end = MaxBlocks /\ tied.itab[RootIno].ptr[0] = b
       /\ \A k \in Index : tied.itab[RootIno].ptr[k] \in {0, b}
  <2>1. VolOK(tied)
    <3>1. VolOK(w)
      BY <1>6 DEF Later, Tidy, TidyBut
    <3>2. b # 0
      BY <1>8, VolumeAssumption
    <3>3. BlockFor(w, RootIno, 0) = Result(tied, b)
      BY <1>1, <1>9, <3>2 DEF BlockFor, Attached, get_inode_block
    <3> HIDE DEF tied, w, block
    <3> QED BY <1>1, <3>1, <3>3, BlockForOK DEF Result
  <2>2. RootIno \in x.imap /\ \A k \in Index : x.itab[RootIno].ptr[k] = 0
    BY <1>9
  <2>3. tied = set_inode_block(x, RootIno, 0, b)
    OBVIOUS
  <2> HIDE DEF v, w, x, block, tied
  <2>4. /\ TidyBut(tied, RootIno) /\ Grows(v, tied) /\ DotsOnly(v, tied) /\ tied.end = x.end
        /\ tied.imap = x.imap /\ tied.itab[RootIno].ptr[0] = b
        /\ \A k \in Index : tied.itab[RootIno].ptr[k] \in {0, b}
    BY <1>1, <1>4, <1>7, <1>8, <1>9, <2>1, <2>2, <2>3, AttachLater
  <2>5. tied.end = MaxBlocks /\ b < tied.end
    BY <1>2, <1>8, <1>9, <2>4, VolumeAssumption
  <2>6. Tidy(tied)
    BY <2>4, <2>5 DEF Tidy, TidyBut, ReadBut
  <2> QED BY <2>4, <2>5, <2>6 DEF Later
<1>11. dots \in [Slot -> Word] /\ \A s \in Slot : dots[s] = IF s = 1 THEN Entry(Dot, RootIno)
                                    ELSE IF s = 2 THEN Entry(DotDot, RootIno) ELSE Zero
  <2>1. ZeroBlock \in [Slot -> Word] /\ \A s \in Slot : ZeroBlock[s] = Zero
    BY DEF ZeroBlock, Word
  <2>2. Entry(Dot, RootIno) \in Word /\ Entry(DotDot, RootIno) \in Word
    BY <1>1 DEF Word, Entry
  <2> QED BY <1>1, <2>1, <2>2
<1> HIDE DEF v, w, x, block, tied, dots, inode
<1>12. /\ VolOK(u) /\ u.itab = tied.itab /\ u.imap = tied.imap /\ u.blk = [tied.blk EXCEPT ![b] = dots]
       /\ u.end = tied.end /\ VolOK(tied) /\ Tidy(tied)
  <2>1. VolOK(tied) /\ Tidy(tied)
    BY <1>10 DEF Later, Tidy, TidyBut
  <2>2. VolOK(u)
    BY <1>8, <1>11, <2>1, WriteBlockOK
  <2>3. tied \in Volumes /\ b < tied.end
    BY <1>8, <1>10, <2>1, VolumeAssumption DEF VolOK
  <2> QED BY <2>1, <2>2, <2>3 DEF Volumes, write_block
<1> HIDE DEF u
<1>13. \A y \in Blocks, s \in Slot : u.blk[y][s] = IF y = b THEN dots[s] ELSE tied.blk[y][s]
  BY <1>8, <1>12 DEF VolOK, Volumes
<1>14. Later(v, u)
  <2>1. IsFree(Zero) /\ ~IsFree(Entry(Dot, RootIno)) /\ ~IsFree(Entry(DotDot, RootIno))
    BY <1>1 DEF IsFree, EntryIno, Zero, Entry
  <2>2. Packed(u)
    <3> SUFFICES ASSUME NEW y \in Blocks, NEW s \in Slot, NEW t \in Slot, s < t, IsFree(u.blk[y][s])
                 PROVE  IsFree(u.blk[y][t])
      BY DEF Packed
    <3>1. CASE y = b
      <4>1. dots[s] # Entry(Dot, RootIno) /\ dots[s] # Entry(DotDot, RootIno)
        BY <1>13, <2>1, <3>1
      <4>2. s # 1 /\ s # 2
        BY <1>11, <4>1
      <4>3. t # 1 /\ t # 2
        BY <4>2 DEF Slot
      <4> QED BY <1>11, <1>13, <2>1, <3>1, <4>3
    <3>2. CASE y # b
      BY <1>12, <1>13, <3>2 DEF Tidy, TidyBut, Packed
    <3> QED BY <3>1, <3>2
  <2>3. FullBefore(u)
    <3> SUFFICES ASSUME NEW i \in Inodes, NEW k \in Index, NEW l \in Index, k < l, u.itab[i].ptr[l] # 0
                 PROVE  u.itab[i].ptr[k] # 0 /\ \A s \in Slot : ~IsFree(u.blk[u.itab[i].ptr[k]][s])
      BY DEF FullBefore
    <3>1. l # 0 /\ tied.itab[i].ptr[l] # 0
      BY <1>12 DEF Index
    <3>2. \A j \in Inodes, m \in Index : tied.itab[j].ptr[m] = b => j = RootIno /\ m = 0
      BY <1>1, <1>8, <1>10, <1>12, VolumeAssumption DEF VolOK, Owned
    <3>3. i # RootIno
      BY <1>10, <3>1, <3>2
    <3>4. /\ tied.itab[i].ptr[k] # 0
          /\ \A s \in Slot : ~IsFree(tied.blk[tied.itab[i].ptr[k]][s])
      BY <1>12, <3>1 DEF Tidy, TidyBut, FullBefore
    <3>5. tied.itab[i].ptr[k] # b
      BY <3>2, <3>3
    <3>6. tied.itab[i].ptr[k] \in Blocks
      BY <1>12, <3>4, PointsToBlocks
    <3> QED BY <1>12, <1>13, <3>4, <3>5, <3>6
  <2>4. Tidy(u)
    BY <1>12, <2>2, <2>3 DEF Tidy, TidyBut, FreeUntyped, FreeEmpty, ReadBut
  <2>5. Grows(v, u)
    <3>1. Grows(v, tied) /\ \A i \in v.imap, k \in Index : v.itab[i].ptr[k] = 0
      <4>1. \A i \in Inodes, k \in Index : v.itab[i].ptr[k] = 0
        BY FormatMapIs DEF ZeroInode, NewInode, v
      <4>2. v.imap \subseteq Inodes
        BY <1>4 DEF VolOK, Volumes
      <4> QED BY <1>10, <4>1, <4>2 DEF Later
    <3> QED BY <1>12, <3>1 DEF Grows
  <2>6. DotsOnly(v, u)
    <3>1. DotsOnly(v, tied)
      BY <1>10 DEF Later
    <3>2. \A s \in Slot : dots[s] \in {Zero, Entry(Dot, RootIno), Entry(DotDot, RootIno)}
      BY <1>11
    <3> QED BY <1>1, <1>13, <3>1, <3>2 DEF DotsOnly
  <2> QED BY <2>4, <2>5, <2>6 DEF Later
<1>15. v = FormatMap
  BY DEF v
<1> QED BY <1>3, <1>5, <1>6, <1>7, <1>10, <1>14, <1>15

----------------------------------------------------------------------------
(* Volumes that only grew *)

\* What a format makes, and commands on it; a format may be killed before.
FromFormat(v) == v = Blank.vol \/ Tidy(v)

\* Directories stay, and names where they are found.
Onward(v, u) ==
  /\ \A i : is_directory(v, i) => is_directory(u, i)
  /\ \A d, n : find_directory_entry(v, d, n) # 0 =>
       find_directory_entry(u, d, n) = find_directory_entry(v, d, n)

LEMMA OnwardTrans == ASSUME NEW v, NEW w, NEW u, Onward(v, w), Onward(w, u) PROVE Onward(v, u)
BY DEF Onward

LEMMA OnwardSelf == ASSUME NEW v PROVE Onward(v, v)
BY DEF Onward

LEMMA TidyOnward == ASSUME NEW v, Tidy(v), NEW u, Tidy(u), Grows(v, u) PROVE Onward(v, u)
<1>1. VolOK(u)
  BY DEF Tidy, TidyBut
<1>2. \A i : is_directory(v, i) => is_directory(u, i)
  BY DirectoriesStay
<1>3. \A d, n : find_directory_entry(v, d, n) # 0 =>
        find_directory_entry(u, d, n) = find_directory_entry(v, d, n)
  BY <1>1, StaysFound
<1> QED BY <1>2, <1>3 DEF Onward

LEMMA NothingOnBlank ==
  /\ \A i : ~is_directory(Blank.vol, i)
  /\ \A b \in Blocks, s \in Slot : Blank.vol.blk[b][s] = Zero
<1>1. Blank.vol.itab = [i \in Inodes |-> ZeroInode] /\ Blank.vol.blk = [b \in Blocks |-> ZeroBlock]
  BY DEF Blank
<1> QED BY <1>1 DEF is_directory, IsType, ZeroInode, NewInode, ZeroBlock

\* What a command on an image leaves of a volume.
After(v, u) == FromFormat(u) /\ Onward(v, u)

LEMMA AfterSelf == ASSUME NEW v, FromFormat(v) PROVE After(v, v)
BY OnwardSelf DEF After

LEMMA AfterTrans == ASSUME NEW v, NEW w, NEW u, After(v, w), After(w, u) PROVE After(v, u)
BY OnwardTrans DEF After

LEMMA MakeDirectoryAfter ==
  ASSUME NEW v, FromFormat(v), NEW d, NEW n \in AnyName
  PROVE  After(v, MakeDirectory(v, d, n).vol)
<1> DEFINE u == MakeDirectory(v, d, n).vol
<1>1. CASE v = Blank.vol
  <2>1. ~is_directory(v, d)
    BY <1>1, NothingOnBlank
  <2>2. u = v
    BY <2>1 DEF MakeDirectory, Fail, Result
  <2> QED BY <2>2, AfterSelf
<1>2. CASE Tidy(v)
  <2> HIDE DEF u
  <2>1. Tidy(u) /\ Grows(v, u)
    BY <1>2, MakeDirectoryLater DEF u
  <2>2. Onward(v, u)
    BY <1>2, <2>1, TidyOnward
  <2> QED BY <2>1, <2>2 DEF After, FromFormat, u
<1> QED BY <1>1, <1>2 DEF FromFormat

LEMMA NewFileAfter ==
  ASSUME NEW v, FromFormat(v), NEW d, is_directory(v, d), NEW p \in CreatePaths
  PROVE  After(v, NewFile(v, d, Last(p)))
<1> DEFINE n == Last(p)
           u == NewFile(v, d, n)
<1>1. Tidy(v) /\ n \in AnyName
  BY NothingOnBlank, LastNames DEF FromFormat
<1> HIDE DEF n, u
<1>2. Tidy(u) /\ Grows(v, u)
  BY <1>1, NewFileLater DEF u
<1>3. Onward(v, u)
  BY <1>1, <1>2, TidyOnward
<1> QED BY <1>2, <1>3 DEF After, FromFormat, u, n

----------------------------------------------------------------------------
(* Homes are found by their path *)

LEMMA OneNamePath ==
  ASSUME NEW v, NEW n, NEW path, path = <<n>>
  PROVE  Resolve(v, RootIno, path) = find_directory_entry(v, RootIno, n)
<1> DEFINE find(d, x) == find_directory_entry(v, d, x)
           one == [k \in 0 .. 1 |-> IF k = 0 THEN RootIno ELSE find(RootIno, n)]
           Is1(at) == at = [k \in 0 .. 1 |-> IF k = 0 THEN RootIno ELSE find(at[k - 1], <<n>>[k])]
<1>1. Is1(one)
  OBVIOUS
<1>2. Resolve(v, RootIno, path) = (CHOOSE at : Is1(at))[1]
  BY DEF Resolve
<1>3. \A at : Is1(at) => at[1] = find(RootIno, n)
  OBVIOUS
<1> HIDE DEF Is1
<1> QED BY <1>1, <1>2, <1>3

LEMMA TwoNamesPath ==
  ASSUME NEW v, NEW m, NEW n, NEW h, h = find_directory_entry(v, RootIno, m),
         NEW path, path = <<m, n>>
  PROVE  Resolve(v, RootIno, path) = find_directory_entry(v, h, n)
<1> DEFINE find(d, x) == find_directory_entry(v, d, x)
           two == [k \in 0 .. 2 |-> IF k = 0 THEN RootIno
                                    ELSE IF k = 1 THEN find(RootIno, m)
                                    ELSE find(find(RootIno, m), n)]
           Is2(at) == at = [k \in 0 .. 2 |-> IF k = 0 THEN RootIno ELSE find(at[k - 1], <<m, n>>[k])]
<1>1. Is2(two)
  OBVIOUS
<1>2. Resolve(v, RootIno, path) = (CHOOSE at : Is2(at))[2]
  BY DEF Resolve
<1>3. \A at : Is2(at) => at[2] = find(h, n)
  OBVIOUS
<1> HIDE DEF Is2
<1> QED BY <1>1, <1>2, <1>3

LEMMA HomeIs ==
  ASSUME NEW im, NEW n
  PROVE  HomeOf(im, n) =
           find_directory_entry(im.vol, IF n = "root" THEN RootIno
                                        ELSE find_directory_entry(im.vol, RootIno, "home"), n)
<1>1. CASE n = "root"
  <2> DEFINE path == <<"root">>
  <2>1. HomeOf(im, n) = Resolve(im.vol, RootIno, path) /\ path = <<n>>
    BY <1>1 DEF HomeOf, HomePath
  <2> HIDE DEF path
  <2> QED BY <1>1, <2>1, OneNamePath
<1>2. CASE n # "root"
  <2> DEFINE m == "home"
             path == <<m, n>>
             h == find_directory_entry(im.vol, RootIno, m)
  <2>1. HomeOf(im, n) = Resolve(im.vol, RootIno, path) /\ path = <<m, n>>
    BY <1>2 DEF HomeOf, HomePath
  <2>2. h = find_directory_entry(im.vol, RootIno, m)
    OBVIOUS
  <2> HIDE DEF path, m, h
  <2>3. HomeOf(im, n) = find_directory_entry(im.vol, h, n)
    BY <2>1, <2>2, TwoNamesPath
  <2> QED BY <1>2, <2>3 DEF h, m
<1> QED BY <1>1, <1>2

\* A home that is there stays the home.
LEMMA HomeStays ==
  ASSUME NEW im, TypedImage(im), NEW jm, Onward(im.vol, jm.vol), NEW n, HomeOf(im, n) # 0
  PROVE  HomeOf(jm, n) = HomeOf(im, n)
<1> DEFINE v == im.vol
           u == jm.vol
           h == find_directory_entry(v, RootIno, "home")
<1>1. CASE n = "root"
  BY <1>1, HomeIs DEF Onward
<1>2. CASE n # "root"
  <2>1. HomeOf(im, n) = find_directory_entry(v, h, n)
        /\ HomeOf(jm, n) = find_directory_entry(u, find_directory_entry(u, RootIno, "home"), n)
    BY <1>2, HomeIs
  <2>2. h # 0
    <3>1. find_directory_entry(v, 0, n) = 0
      BY DEF find_directory_entry, Locate, FoundIno, Inodes
    <3> QED BY <2>1, <3>1
  <2> QED BY <2>1, <2>2 DEF Onward
<1> QED BY <1>1, <1>2

----------------------------------------------------------------------------
(* The images that a login and a useradd make, one after the other *)

FirstHome(im, n)    == Made(im, RootIno, HomePath(n)[1])
LastHome(im, n)     == IF n = "root" THEN FirstHome(im, n) ELSE MadeInHome(FirstHome(im, n), n)
OwnedHome(im, n, u) == change_owner(LastHome(im, n), HomeOf(LastHome(im, n), u.name), u.uid)

Homes(im, n, u) == {FirstHome(im, n), LastHome(im, n), OwnedHome(im, n, u)}

LEMMA HomeStepsAre ==
  ASSUME NEW im, NEW n, NEW u, NEW steps, steps = WithOwner(HomeSteps(im, n), u)
  PROVE  steps \in Seq(Homes(im, n, u)) /\ steps # <<>> /\ Last(steps) = OwnedHome(im, n, u)
<1> DEFINE first == FirstHome(im, n)
           last  == LastHome(im, n)
           owned == OwnedHome(im, n, u)
           homes == HomeSteps(im, n)
           S     == {first, last, owned}
<1>1. \/ homes = <<last>>
      \/ homes = <<first, last>>
  BY DEF HomeSteps, FirstHome, LastHome
<1>2. Last(homes) = last /\ homes \in Seq(S)
  <2> HIDE DEF first, last, owned, homes
  <2>1. CASE homes = <<last>>
    BY <2>1 DEF Last
  <2>2. CASE homes = <<first, last>>
    BY <2>2 DEF Last
  <2> QED BY <1>1, <2>1, <2>2
<1>3. owned = change_owner(last, HomeOf(last, u.name), u.uid)
  BY DEF OwnedHome
<1>4. steps = homes \o <<owned>>
  BY <1>2, <1>3 DEF WithOwner
<1> HIDE DEF first, last, owned, homes
<1>5. <<owned>> \in Seq(S) /\ <<owned>> # <<>> /\ Last(<<owned>>) = owned
  BY DEF Last
<1>6. steps \in Seq(S) /\ steps # <<>>
  BY <1>2, <1>4, <1>5, ConcatProperties, LenProperties, EmptySeq
<1> DEFINE one == <<owned>>
<1>7. Last(steps) = owned
  <2>1. one \in Seq(S) /\ one # <<>> /\ Last(one) = owned /\ steps = homes \o one
    BY <1>4, <1>5
  <2> HIDE DEF one, S
  <2> QED BY <1>2, <2>1, LastOfConcat
<1> QED BY <1>6, <1>7 DEF Homes, first, last, owned

LEMMA LoginStepsAre ==
  ASSUME NEW im, NEW n, NEW u, NEW steps, steps = LoginSteps(im, HomeSteps(im, n), u)
  PROVE  /\ \A k \in 1 .. Len(steps) : steps[k] \in {im} \cup Homes(im, n, u)
         /\ Last(steps) = IF HomeOf(im, u.name) # 0 THEN im ELSE OwnedHome(im, n, u)
<1> DEFINE owned == WithOwner(HomeSteps(im, n), u)
           S == {im} \cup Homes(im, n, u)
           one == <<im>>
<1>1. CASE HomeOf(im, u.name) # 0
  <2>1. steps = <<im>> \o <<>>
    BY <1>1 DEF LoginSteps
  <2>2. steps = <<im>>
    BY <2>1
  <2> QED BY <1>1, <2>2 DEF Last
<1>2. CASE HomeOf(im, u.name) = 0
  <2>1. owned \in Seq(Homes(im, n, u)) /\ owned # <<>> /\ Last(owned) = OwnedHome(im, n, u)
    BY HomeStepsAre
  <2>2. steps = one \o owned
    BY <1>2 DEF LoginSteps
  <2>3. one \in Seq(S)
    OBVIOUS
  <2> HIDE DEF owned, one
  <2>4. owned \in Seq(S)
    BY <2>1
  <2> HIDE DEF S
  <2>5. steps \in Seq(S) /\ Last(steps) = Last(owned)
    BY <2>1, <2>2, <2>3, <2>4, LastOfConcat, ConcatProperties
  <2>6. \A k \in 1 .. Len(steps) : steps[k] \in S
    BY <2>5, ElementsIn
  <2> QED BY <1>2, <2>1, <2>5, <2>6 DEF S
<1> QED BY <1>1, <1>2

LEMMA AddStepsAre ==
  ASSUME NEW im, NEW us, NEW u, NEW steps, steps = AddSteps(im, us, u),
         NEW saved, saved = WithUsers(im, us)
  PROVE  /\ \A k \in 1 .. Len(steps) : steps[k] \in {im, saved} \cup Homes(saved, u.name, u)
         /\ Last(steps) = OwnedHome(saved, u.name, u)
<1> DEFINE owned == WithOwner(HomeSteps(saved, u.name), u)
           S == {im, saved} \cup Homes(saved, u.name, u)
           two == <<im, saved>>
<1>1. owned \in Seq(Homes(saved, u.name, u)) /\ owned # <<>> /\ Last(owned) = OwnedHome(saved, u.name, u)
  BY HomeStepsAre
<1>2. steps = two \o owned
  BY DEF AddSteps
<1>3. two \in Seq(S)
  OBVIOUS
<1> HIDE DEF owned, two
<1>4. owned \in Seq(S)
  BY <1>1
<1> HIDE DEF S
<1>5. steps \in Seq(S) /\ Last(steps) = Last(owned)
  BY <1>1, <1>2, <1>3, <1>4, LastOfConcat, ConcatProperties
<1>6. \A k \in 1 .. Len(steps) : steps[k] \in S
  BY <1>5, ElementsIn
<1> QED BY <1>1, <1>5, <1>6 DEF S

\* Each of them comes after the image they were made of.
LEMMA MadeAfter ==
  ASSUME NEW im, TypedImage(im), FromFormat(im.vol), NEW d, NEW n \in AnyName
  PROVE  /\ TypedImage(Made(im, d, n)) /\ After(im.vol, Made(im, d, n).vol)
         /\ TypedImage(MadeInHome(im, n)) /\ After(im.vol, MadeInHome(im, n).vol)
<1>1. /\ Made(im, d, n).vol = MakeDirectory(im.vol, d, n).vol
      /\ MadeInHome(im, n).vol =
           MakeDirectory(im.vol, find_directory_entry(im.vol, RootIno, "home"), n).vol
  BY DEF Made, MadeInHome, TypedImage, Image
<1> QED BY <1>1, MadeTypedIn, MakeDirectoryAfter

LEMMA HomesAfter ==
  ASSUME NEW im, TypedImage(im), FromFormat(im.vol), NEW n \in Names, NEW u, u.uid \in Uids,
         NEW jm \in Homes(im, n, u)
  PROVE  TypedImage(jm) /\ After(im.vol, jm.vol)
<1> DEFINE first == FirstHome(im, n)
           last  == LastHome(im, n)
<1>1. TypedImage(first) /\ After(im.vol, first.vol)
  <2>1. HomePath(n)[1] \in AnyName
    BY SessionAssumption DEF HomePath, AnyName
  <2> QED BY <2>1, MadeAfter DEF FirstHome
<1> HIDE DEF first
<1>2. TypedImage(last) /\ After(im.vol, last.vol)
  <2>1. last = first \/ last = MadeInHome(first, n)
    BY DEF LastHome, first
  <2>2. n \in AnyName /\ FromFormat(first.vol)
    BY <1>1 DEF AnyName, After
  <2> HIDE DEF last
  <2>3. CASE last = first
    BY <1>1, <2>3
  <2>4. CASE last = MadeInHome(first, n)
    <3>1. TypedImage(last) /\ After(first.vol, last.vol)
      BY <1>1, <2>2, <2>4, MadeAfter
    <3> QED BY <1>1, <3>1, AfterTrans
  <2> QED BY <2>1, <2>3, <2>4
<1> HIDE DEF last
<1>3. ASSUME jm = OwnedHome(im, n, u) PROVE TypedImage(jm) /\ jm.vol = last.vol
  <2>1. jm = change_owner(last, HomeOf(last, u.name), u.uid)
    BY <1>3 DEF OwnedHome, last
  <2>2. \A i : change_owner(last, i, u.uid).vol = last.vol
    BY <1>2 DEF change_owner, TypedImage, Image
  <2> QED BY <1>2, <2>1, <2>2, OwnerTypedIn
<1> QED BY <1>1, <1>2, <1>3 DEF Homes, first, last

----------------------------------------------------------------------------
(* Whose homes they are *)

\* Every entry of a user's name leads to an inode in use that is the user's.
Belong(v, owner) ==
  \A b \in Blocks, s \in Slot :
    v.blk[b][s].tag = "entry" /\ v.blk[b][s].name \in UserNames =>
      /\ v.blk[b][s].ino \in v.imap
      /\ \A u \in Users : u.name = v.blk[b][s].name => owner[v.blk[b][s].ino] = u.uid
Owners(im) == Belong(im.vol, im.owner)

Changed(owner, i, uid) == IF i \in Inodes THEN [owner EXCEPT ![i] = uid] ELSE owner

LEMMA NothingBelongs == ASSUME NEW owner PROVE Belong(Blank.vol, owner)
BY NothingOnBlank DEF Belong, Zero

\* New entries of other names belong to nobody.
LEMMA OthersBelong ==
  ASSUME HomesApart, NEW v, NEW u, v.imap \subseteq u.imap, NEW owner, Belong(v, owner),
         NEW n, NEW i, DotsOnly(v, u) \/ (NewName(v, u, n, i) /\ n \notin UserNames)
  PROVE  Belong(u, owner)
<1> SUFFICES ASSUME NEW b \in Blocks, NEW s \in Slot,
                    u.blk[b][s].tag = "entry", u.blk[b][s].name \in UserNames
             PROVE  u.blk[b][s] = v.blk[b][s]
  BY DEF Belong
<1>1. u.blk[b][s] # Zero
  BY DEF Zero
<1>2. \A m \in {Dot, DotDot}, c \in 1 .. MaxInodes : u.blk[b][s] # Entry(m, c)
  BY DEF HomesApart, Entry
<1>3. u.blk[b][s] = Entry(n, i) => n \in UserNames
  BY DEF Entry
<1> QED BY <1>1, <1>2, <1>3 DEF DotsOnly, NewName

\* A new directory of a user's name, once its owner is changed, does.
LEMMA NewHomeBelongs ==
  ASSUME HomesApart, NEW v, NEW u, v.imap \subseteq u.imap, u.imap \subseteq Inodes,
         NEW owner, owner = [j \in Inodes |-> owner[j]], Belong(v, owner),
         NEW w \in Users, NEW i \in u.imap \ v.imap, NewName(v, u, w.name, i)
  PROVE  Belong(u, Changed(owner, i, w.uid))
<1> DEFINE new == Changed(owner, i, w.uid)
<1>1. \A j \in Inodes : new[j] = IF j = i THEN w.uid ELSE owner[j]
  BY DEF Changed
<1> HIDE DEF new
<1> SUFFICES ASSUME NEW b \in Blocks, NEW s \in Slot,
                    u.blk[b][s].tag = "entry", u.blk[b][s].name \in UserNames
             PROVE  /\ u.blk[b][s].ino \in u.imap
                    /\ \A x \in Users : x.name = u.blk[b][s].name => new[u.blk[b][s].ino] = x.uid
  BY DEF Belong, new
<1>2. u.blk[b][s] # Zero
  BY DEF Zero
<1>3. \A m \in {Dot, DotDot}, c \in 1 .. MaxInodes : u.blk[b][s] # Entry(m, c)
  BY DEF HomesApart, Entry
<1>4. u.blk[b][s] \in {v.blk[b][s], Entry(w.name, i)}
  BY <1>2, <1>3 DEF NewName
<1>5. CASE u.blk[b][s] = v.blk[b][s]
  <2>1. v.blk[b][s].ino \in v.imap
    BY <1>5 DEF Belong
  <2> QED BY <1>1, <1>5, <2>1 DEF Belong
<1>6. CASE u.blk[b][s] = Entry(w.name, i)
  <2>1. u.blk[b][s].ino = i /\ u.blk[b][s].name = w.name
    BY <1>6 DEF Entry
  <2> QED BY <1>1, <2>1 DEF HomesApart
<1> QED BY <1>4, <1>5, <1>6

\* What an entry of a user's name leads to is the user's.
LEMMA HomeBelongs ==
  ASSUME NEW v \in Volumes, NEW owner, Belong(v, owner), NEW w \in Users, NEW d,
         NEW n, w.name = n, NEW i, i = find_directory_entry(v, d, n), i # 0
  PROVE  owner[i] = w.uid
BY FoundWord DEF Belong, UserNames

\* A directory made for a user, whose owner is changed: a name that was there already
\* leads to what is the user's.
LEMMA MadeBelongs ==
  ASSUME HomesApart, NEW v \in Volumes, FromFormat(v),
         NEW owner, owner = [j \in Inodes |-> owner[j]], Belong(v, owner),
         NEW d, NEW n \in AnyName, NEW w \in Users, w.name = n,
         NEW u \in Volumes, u = MakeDirectory(v, d, n).vol
  PROVE  Belong(u, Changed(owner, find_directory_entry(u, d, n), w.uid))
<1> DEFINE i == find_directory_entry(u, d, n)
<1>1. ASSUME Belong(u, owner) PROVE Belong(u, Changed(owner, i, w.uid))
  <2>1. CASE i = 0
    BY <1>1, <2>1 DEF Changed, Inodes
  <2>2. CASE i # 0
    <3>1. owner[i] = w.uid
      BY <1>1, <2>2, HomeBelongs
    <3> HIDE DEF i
    <3>2. Changed(owner, i, w.uid) = owner
      BY <3>1 DEF Changed
    <3> QED BY <1>1, <3>2
  <2> QED BY <2>1, <2>2
<1>2. CASE v = Blank.vol
  <2>1. ~is_directory(v, d)
    BY <1>2, NothingOnBlank
  <2>2. u = v
    BY <2>1 DEF MakeDirectory, Fail, Result
  <2> QED BY <1>1, <2>2
<1>3. CASE Tidy(v)
  <2>1. Tidy(u) /\ Grows(v, u)
    BY <1>3, MakeDirectoryLater
  <2>2. v.imap \subseteq u.imap /\ u.imap \subseteq Inodes
    BY <2>1 DEF Grows, Volumes
  <2>3. CASE DotsOnly(v, u)
    BY <1>1, <2>2, <2>3, OthersBelong DEF HomesApart
  <2>4. ASSUME NEW j \in Inodes \ v.imap, NewName(v, u, n, j), j \in u.imap,
               find_directory_entry(u, d, n) = j
        PROVE  Belong(u, Changed(owner, i, w.uid))
    <3>1. j \in u.imap \ v.imap /\ i = j /\ NewName(v, u, w.name, j)
      BY <2>4
    <3> HIDE DEF i
    <3>2. Belong(u, Changed(owner, j, w.uid))
      BY <2>2, <3>1, NewHomeBelongs
    <3> QED BY <3>1, <3>2
  <2>5. \/ DotsOnly(v, u)
        \/ \E j \in Inodes \ v.imap :
             NewName(v, u, n, j) /\ j \in u.imap /\ find_directory_entry(u, d, n) = j
    BY <1>3, MakeDirectoryLater
  <2> QED BY <2>3, <2>4, <2>5
<1> QED BY <1>2, <1>3 DEF FromFormat

\* A directory of another name belongs to nobody; nor does a file.
LEMMA MadeElseBelongs ==
  ASSUME HomesApart, NEW v, FromFormat(v), NEW owner, Belong(v, owner),
         NEW d, NEW n \in AnyName, n \notin UserNames
  PROVE  /\ Belong(MakeDirectory(v, d, n).vol, owner)
         /\ is_directory(v, d) => Belong(NewFile(v, d, n), owner)
<1> DEFINE u == MakeDirectory(v, d, n).vol
<1>1. CASE v = Blank.vol
  <2>1. \A x : ~is_directory(v, x)
    BY <1>1, NothingOnBlank
  <2>2. u = v
    BY <2>1 DEF MakeDirectory, Fail, Result
  <2> QED BY <2>1, <2>2
<1>2. CASE Tidy(v)
  <2> HIDE DEF u
  <2>1. Belong(u, owner)
    <3>1. Grows(v, u) /\ (DotsOnly(v, u) \/ \E i \in Inodes \ v.imap : NewName(v, u, n, i))
      BY <1>2, MakeDirectoryLater DEF u
    <3>2. v.imap \subseteq u.imap
      BY <3>1 DEF Grows
    <3> QED BY <3>1, <3>2, OthersBelong DEF HomesApart
  <2>2. ASSUME is_directory(v, d) PROVE Belong(NewFile(v, d, n), owner)
    <3> DEFINE x == NewFile(v, d, n)
    <3>1. Grows(v, x) /\ \E i \in 1 .. MaxInodes : NewName(v, x, n, i)
      BY <1>2, <2>2, NewFileLater
    <3> HIDE DEF x
    <3>2. v.imap \subseteq x.imap
      BY <3>1 DEF Grows
    <3>3. Belong(x, owner)
      BY <3>1, <3>2, OthersBelong DEF HomesApart
    <3> QED BY <3>3 DEF x
  <2> QED BY <2>1, <2>2 DEF u
<1> QED BY <1>1, <1>2 DEF FromFormat

----------------------------------------------------------------------------
LEMMA OwnersUpTo ==
  ASSUME NEW im, TypedImage(im), NEW n, NEW u, HomesApart, u.name = n,
         NEW d, d = IF n = "root" THEN RootIno ELSE find_directory_entry(im.vol, RootIno, "home"),
         Belong(im.vol, Changed(im.owner, find_directory_entry(im.vol, d, n), u.uid))
  PROVE  Owners(change_owner(im, HomeOf(im, n), u.uid))
<1> DEFINE i == find_directory_entry(im.vol, d, n)
           jm == change_owner(im, i, u.uid)
<1>1. HomeOf(im, n) = i
  BY HomeIs
<1>2. jm.vol = im.vol /\ jm.owner = Changed(im.owner, i, u.uid)
  <2> HIDE DEF i
  <2> QED BY DEF change_owner, Changed, TypedImage, Image
<1> HIDE DEF jm
<1> QED BY <1>1, <1>2 DEF Owners, jm

\* The home that a login or a useradd made, with its owner.
LEMMA OwnedHomeBelongs ==
  ASSUME HomesApart, NEW im, TypedImage(im), FromFormat(im.vol), Owners(im),
         NEW n \in Names, NEW u \in Users, u.name = n
  PROVE  Owners(OwnedHome(im, n, u))
<1> DEFINE first == FirstHome(im, n)
           last  == LastHome(im, n)
           v == im.vol
           w == first.vol
           x == last.vol
<1>1. /\ TypedImage(first) /\ first.owner = im.owner
      /\ w = MakeDirectory(v, RootIno, HomePath(n)[1]).vol /\ HomePath(n)[1] \in AnyName
  <2>1. HomePath(n)[1] \in AnyName
    BY SessionAssumption DEF HomePath, AnyName
  <2> QED BY <2>1, MadeTypedIn DEF FirstHome, Made, TypedImage, Image
<1>2. n \in AnyName /\ OwnedHome(im, n, u) = change_owner(last, HomeOf(last, n), u.uid)
  BY DEF AnyName, OwnedHome
<1>3. v \in Volumes /\ w \in Volumes /\ im.owner = [j \in Inodes |-> im.owner[j]]
  BY <1>1 DEF TypedImage, Image
<1>4. FromFormat(w)
  BY <1>1, MakeDirectoryAfter DEF After
<1>5. CASE n = "root"
  <2>1. last = first /\ HomePath(n)[1] = n
    BY <1>5 DEF LastHome, HomePath
  <2> DEFINE i == find_directory_entry(w, RootIno, n)
  <2>2. w = MakeDirectory(v, RootIno, n).vol
    BY <1>1, <2>1
  <2> HIDE DEF first, last, w, v
  <2>3. Belong(w, Changed(im.owner, i, u.uid))
    BY <1>2, <1>3, <2>2, MadeBelongs DEF Owners, v
  <2>4. Belong(last.vol, Changed(last.owner, find_directory_entry(last.vol, RootIno, n), u.uid))
    BY <1>1, <2>1, <2>3 DEF w
  <2> QED BY <1>1, <1>2, <1>5, <2>1, <2>4, OwnersUpTo
<1>6. CASE n # "root"
  <2> DEFINE h == find_directory_entry(w, RootIno, "home")
  <2>1. last = MadeInHome(first, n) /\ HomePath(n)[1] = "home"
    BY <1>6 DEF LastHome, HomePath
  <2>2. TypedImage(last) /\ last.owner = im.owner /\ x = MakeDirectory(w, h, n).vol
    <3>1. TypedImage(MadeInHome(first, n))
      BY <1>1, <1>2, MadeTypedIn
    <3> HIDE DEF first, last
    <3> QED BY <1>1, <2>1, <3>1 DEF MadeInHome, TypedImage, Image
  <2> HIDE DEF first, last, v, h
  <2>3. Belong(w, im.owner)
    BY <1>1, <2>1, MadeElseBelongs DEF HomesApart, Owners, v
  <2>4. x \in Volumes
    BY <2>2 DEF TypedImage, Image
  <2> HIDE DEF w, x
  <2>5. Belong(x, Changed(im.owner, find_directory_entry(x, h, n), u.uid))
    BY <1>2, <1>3, <1>4, <2>2, <2>3, <2>4, MadeBelongs
  <2>6. find_directory_entry(x, RootIno, "home") = h
    <3>1. CASE h # 0
      BY <1>2, <1>4, <2>2, <3>1, MakeDirectoryAfter DEF After, Onward, h
    <3>2. CASE h = 0
      <4>1. ~is_directory(w, h)
        BY <3>2 DEF is_directory, IsType, Inodes
      <4>2. x = w
        BY <2>2, <4>1 DEF MakeDirectory, Fail, Result
      <4> QED BY <4>2 DEF h
    <3> QED BY <3>1, <3>2
  <2>7. h = IF n = "root" THEN RootIno ELSE find_directory_entry(last.vol, RootIno, "home")
    BY <1>6, <2>6 DEF x
  <2>8. Belong(last.vol, Changed(last.owner, find_directory_entry(last.vol, h, n), u.uid))
    BY <2>2, <2>5 DEF x
  <2> QED BY <1>2, <2>2, <2>7, <2>8, OwnersUpTo
<1> QED BY <1>5, <1>6

----------------------------------------------------------------------------
(* Images that only grew, and sessions on them *)

GoodImage(im) == TypedImage(im) /\ FromFormat(im.vol)
ImagesGood == \A m \in Images : GoodImage(image[m])
OwnersGood == HomesApart => \A m \in Images \ cut : Owners(image[m])

\* Whoever is logged in has a name that can be a directory's, unlike nobody.
HasName == current # 0 /\ mounted # NoImage => current \in UserSlot /\ users[current].name \in Names

HomeInv == TInv /\ ImagesGood /\ OwnersGood /\ HasName /\ BeganAtHome

LEMMA GoodAfter ==
  ASSUME NEW im, GoodImage(im), NEW jm, TypedImage(jm), After(im.vol, jm.vol) PROVE GoodImage(jm)
BY DEF GoodImage, After

LEMMA OneGood ==
  ASSUME HomeInv, NEW m \in Images, NEW im, image' = [image EXCEPT ![m] = im], GoodImage(im),
         HomesApart /\ m \notin cut' => Owners(im),
         \A n \in Images \ {m} : n \notin cut' => n \notin cut
  PROVE  ImagesGood' /\ OwnersGood'
<1>1. \A n \in Images : image'[n] = IF n = m THEN im ELSE image[n]
  BY DEF HomeInv, TInv, Inv, ImagesKept
<1>2. ImagesGood'
  BY <1>1 DEF HomeInv, ImagesGood
<1>3. OwnersGood'
  BY <1>1 DEF HomeInv, OwnersGood
<1> QED BY <1>2, <1>3

LEMMA NobodyAtHome ==
  ASSUME current' = 0 \/ mounted' = NoImage PROVE HasName' /\ BeganAtHome'
BY DEF HasName, BeganAtHome

LEMMA DiesGood ==
  ASSUME HomeInv, NEW m \in Images, NEW steps, \A k \in 1 .. Len(steps) : GoodImage(steps[k]),
         DiesIn(m, steps), TInv'
  PROVE  HomeInv'
<1>1. PICK k \in 1 .. Len(steps) - 1 : image' = [image EXCEPT ![m] = steps[k]]
  BY DEF DiesIn
<1>2. GoodImage(steps[k]) /\ m \in cut' /\ cut' = cut \cup {m} /\ current' = 0
  BY DEF DiesIn, Restart
<1>3. ImagesGood' /\ OwnersGood'
  BY <1>1, <1>2, OneGood
<1> QED BY <1>2, <1>3, NobodyAtHome DEF HomeInv

----------------------------------------------------------------------------
(* Format and mount *)

LEMMA FormatVolumes ==
  \A k \in 1 .. Len(FormatSteps) :
    FormatSteps[k].vol = Blank.vol \/ \E j \in 1 .. 5 : FormatSteps[k].vol = RootSteps[j]
<1> DEFINE magic   == [Blank EXCEPT !.magic = TRUE]
           Vol(v)  == [Blank EXCEPT !.magic = TRUE, !.vol = v]
           made    == [k \in 1 .. 5 |-> Vol(RootSteps[k])]
           whole   == [Blank EXCEPT !.magic = TRUE, !.vol = RootSteps[5],
                                    !.users = Saved(Table(Presets))]
           S       == {Absent, Blank, magic, whole} \cup {made[k] : k \in 1 .. 5}
           first   == <<Absent, Blank, magic>> \o made
<1>1. FormatSteps = first \o <<whole>>
  BY DEF FormatSteps
<1>2. Absent.vol = Blank.vol /\ magic.vol = Blank.vol /\ whole.vol = RootSteps[5]
  BY BlankFields DEF IsImage, Fields, Absent
<1>3. \A k \in 1 .. 5 : made[k].vol = RootSteps[k]
  <2>1. \A v : Vol(v).vol = v
    BY BlankFields DEF IsImage, Fields
  <2> HIDE DEF Vol
  <2> QED BY <2>1
<1> HIDE DEF magic, whole, Vol
<1>4. made \in Seq(S)
  <2>1. made \in [1 .. 5 -> S]
    OBVIOUS
  <2> QED BY <2>1, SeqDef
<1>5. \A x \in S : x.vol = Blank.vol \/ \E j \in 1 .. 5 : x.vol = RootSteps[j]
  BY <1>2, <1>3
<1>6. <<Absent, Blank, magic>> \in Seq(S) /\ <<whole>> \in Seq(S)
  OBVIOUS
<1> HIDE DEF made, S
<1>7. first \in Seq(S)
  BY <1>4, <1>6, ConcatProperties
<1> HIDE DEF first
<1>8. FormatSteps \in Seq(S)
  BY <1>1, <1>6, <1>7, ConcatProperties
<1> QED BY <1>5, <1>8, ElementsIn

\* A volume without entries but those of the two dots.
LEMMA DotsBelong ==
  ASSUME HomesApart, NEW v, DotsOnly(FormatMap, v), NEW owner
  PROVE  Belong(v, owner)
<1>1. \A b \in Blocks, s \in Slot : FormatMap.blk[b][s] = Zero
  <2>1. FormatMap.blk = Blank.vol.blk
    <3>1. FormatMap = [Blank.vol EXCEPT !.bmap = 1 .. Reserved, !.imap = {1}]
      BY DEF FormatMap
    <3>2. Blank.vol \in Volumes
      BY BlankTyped DEF Typed, TypedImage
    <3> QED BY <3>1, <3>2 DEF Volumes
  <2> QED BY <2>1, NothingOnBlank
<1>2. \A m, c : Entry(m, c).name = m
  BY DEF Entry
<1>3. \A b \in Blocks, s \in Slot :
        v.blk[b][s].tag = "entry" => v.blk[b][s].name \notin UserNames
  <2> SUFFICES ASSUME NEW b \in Blocks, NEW s \in Slot, v.blk[b][s].tag = "entry"
               PROVE  v.blk[b][s].name \notin UserNames
    OBVIOUS
  <2>1. v.blk[b][s] # Zero
    BY DEF Zero
  <2>2. \E m \in {Dot, DotDot}, c \in 1 .. MaxInodes : v.blk[b][s] = Entry(m, c)
    BY <1>1, <2>1 DEF DotsOnly
  <2> QED BY <1>2, <2>2 DEF HomesApart
<1> QED BY <1>3 DEF Belong

LEMMA RootStepsGood == \A j \in 1 .. 5 : FromFormat(RootSteps[j])
BY RootStepsLater DEF Later, FromFormat

LEMMA BlankGood == ASSUME NEW v, v = Blank.vol PROVE FromFormat(v)
BY DEF FromFormat

LEMMA FormatGood ==
  /\ \A k \in 1 .. Len(FormatSteps) : GoodImage(FormatSteps[k])
  /\ GoodImage(Last(FormatSteps)) /\ (HomesApart => Owners(Last(FormatSteps)))
<1>1. \A k \in 1 .. Len(FormatSteps) : GoodImage(FormatSteps[k])
  <2> SUFFICES ASSUME NEW k \in 1 .. Len(FormatSteps) PROVE GoodImage(FormatSteps[k])
    OBVIOUS
  <2>1. TypedImage(FormatSteps[k])
    BY FormatTyped
  <2>2. FormatSteps[k].vol = Blank.vol \/ \E j \in 1 .. 5 : FormatSteps[k].vol = RootSteps[j]
    BY FormatVolumes
  <2> QED BY <2>1, <2>2, RootStepsGood, BlankGood DEF GoodImage
<1>2. Last(FormatSteps).vol = RootSteps[5] /\ TypedImage(Last(FormatSteps))
  BY FormatKept, FormatTyped
<1>3. GoodImage(Last(FormatSteps))
  BY <1>2, RootStepsGood DEF GoodImage
<1>4. HomesApart => Owners(Last(FormatSteps))
  <2>1. DotsOnly(FormatMap, RootSteps[5])
    BY RootStepsLater DEF Later
  <2> QED BY <1>2, <2>1, DotsBelong DEF Owners
<1> QED BY <1>1, <1>3, <1>4

LEMMA FormatHome == ASSUME HomeInv, NEW m \in Images, Format(m), TInv' PROVE HomeInv'
<1>1. CASE DiesIn(m, FormatSteps)
  BY <1>1, FormatGood, DiesGood
<1>2. CASE /\ image' = [image EXCEPT ![m] = Last(FormatSteps)]
           /\ mounted' = NoImage /\ cut' = cut \ {m}
  <2> DEFINE im == Last(FormatSteps)
  <2>1. GoodImage(im) /\ (HomesApart => Owners(im))
    BY FormatGood
  <2> HIDE DEF im
  <2>2. ImagesGood' /\ OwnersGood'
    BY <1>2, <2>1, OneGood DEF im
  <2> QED BY <1>2, <2>2, NobodyAtHome DEF HomeInv
<1> QED BY <1>1, <1>2 DEF Format

\* The users that are saved are not on the volume.
LEMMA SavesGood ==
  ASSUME HomeInv, NEW us, image' = save_users_to_disk(us), cut' = cut, TInv'
  PROVE  ImagesGood' /\ OwnersGood'
<1>1. CASE mounted = NoImage
  BY <1>1 DEF save_users_to_disk, HomeInv, ImagesGood, OwnersGood
<1>2. CASE mounted # NoImage
  <2> DEFINE im == image[mounted]
             jm == WithUsers(im, us)
  <2>1. mounted \in Images /\ GoodImage(im)
    BY <1>2 DEF HomeInv, TInv, Inv, ImagesGood
  <2>2. image' = [image EXCEPT ![mounted] = jm]
    BY <1>2 DEF save_users_to_disk
  <2>3. image'[mounted] = jm
    BY <2>1, <2>2 DEF HomeInv, TInv, Inv, ImagesKept
  <2>4. TypedImage(jm)
    BY <2>1, <2>3 DEF TInv
  <2>5. jm.vol = im.vol /\ jm.owner = im.owner
    BY <2>1 DEF WithUsers, GoodImage, TypedImage, Image
  <2> HIDE DEF jm
  <2>6. GoodImage(jm)
    BY <2>1, <2>4, <2>5 DEF GoodImage
  <2>7. HomesApart /\ mounted \notin cut' => Owners(jm)
    BY <2>1, <2>5 DEF HomeInv, OwnersGood, Owners
  <2> QED BY <2>1, <2>2, <2>6, <2>7, OneGood
<1> QED BY <1>1, <1>2

LEMMA MountHome == ASSUME HomeInv, NEW m \in Images, Mount(m), TInv' PROVE HomeInv'
<1>1. image' = save_users_to_disk(InitUsers) /\ cut' = cut /\ current' = 0
  BY DEF Mount
<1> QED BY <1>1, SavesGood, NobodyAtHome DEF HomeInv

LEMMA LogoutHome == ASSUME HomeInv, Logout, TInv' PROVE HomeInv'
<1>1. image' = save_users_to_disk(users) /\ cut' = cut /\ current' = 0
  BY DEF Logout
<1> QED BY <1>1, SavesGood, NobodyAtHome DEF HomeInv

----------------------------------------------------------------------------
(* Login and useradd *)

LEMMA SlotOfName ==
  ASSUME NEW name, NEW pass, IsLogin(name, pass)
  PROVE  SlotOf(name) \in UserSlot /\ users[SlotOf(name)].name = name
<1>1. SlotsNamed(name) # {} /\ SlotsNamed(name) \subseteq Nat
  BY DEF IsLogin, SlotsNamed, UserSlot
<1>2. SlotOf(name) \in SlotsNamed(name)
  BY <1>1, MinIsLeast DEF SlotOf
<1> QED BY <1>2 DEF SlotsNamed

\* Whoever has a name has a record of his own.
LEMMA NamedIsUser ==
  ASSUME NEW u \in Seen, u.name \in Names PROVE u \in Users /\ u.name \in UserNames
<1>1. \A x \in Users : Nameless(x).name = NoUser.name
  <2> SUFFICES ASSUME NEW x \in Users PROVE Nameless(x).name = NoUser.name
    OBVIOUS
  <2>1. PICK a, b, c : x = User(a, b, c)
    BY UserRecords
  <2> DEFINE none == ""
  <2>2. Nameless(x) = User(none, b, c)
    BY <2>1, NamelessIs
  <2>3. NoUser = User(none, none, 0)
    BY DEF NoUser
  <2> HIDE DEF none
  <2> QED BY <2>2, <2>3 DEF User
<1>2. u \in Users
  BY <1>1, NamesAssumption DEF Seen
<1> QED BY <1>2 DEF UserNames

LEMMA HomesGood ==
  ASSUME NEW im, GoodImage(im), NEW n \in Names, NEW u, u.uid \in Uids, NEW jm \in Homes(im, n, u)
  PROVE  GoodImage(jm)
BY HomesAfter, GoodAfter DEF GoodImage

LEMMA LoginHome == ASSUME HomeInv, NEW name \in Names, NEW pass, Login(name, pass), TInv' PROVE HomeInv'
<1> DEFINE u == users[SlotOf(name)]
           im == image[mounted]
           steps == LoginSteps(im, HomeSteps(im, name), u)
           last == Last(steps)
<1>1. SlotOf(name) \in UserSlot /\ u.name = name
  BY SlotOfName DEF Login
<1>2. CASE mounted = NoImage /\ UNCHANGED <<image, mounted, cut>>
  BY <1>2, NobodyAtHome DEF HomeInv, ImagesGood, OwnersGood
<1>3. CASE mounted # NoImage
  <2>1. mounted \in Images /\ GoodImage(im)
    BY <1>3 DEF HomeInv, TInv, Inv, ImagesGood
  <2>2. u \in Users /\ u.uid \in Uids
    <3>1. u \in Seen
      BY <1>1 DEF HomeInv, TInv
    <3> QED BY <1>1, <3>1, NamedIsUser DEF Uids
  <2>3. /\ \A k \in 1 .. Len(steps) : steps[k] \in {im} \cup Homes(im, name, u)
        /\ last = IF HomeOf(im, u.name) # 0 THEN im ELSE OwnedHome(im, name, u)
    BY LoginStepsAre
  <2>4. \/ DiesIn(mounted, steps)
        \/ /\ image' = [image EXCEPT ![mounted] = last]
           /\ current' = SlotOf(name) /\ cwd' = StartsIn(last, name)
           /\ UNCHANGED <<mounted, users, cut>>
    BY <1>3 DEF Login, SessionAfter
  <2> HIDE DEF steps, last, im, u
  <2>5. \A k \in 1 .. Len(steps) : GoodImage(steps[k])
    BY <2>1, <2>2, <2>3, HomesGood
  <2>6. CASE DiesIn(mounted, steps)
    BY <2>1, <2>5, <2>6, DiesGood
  <2>7. CASE /\ image' = [image EXCEPT ![mounted] = last]
             /\ current' = SlotOf(name) /\ cwd' = StartsIn(last, name)
             /\ UNCHANGED <<mounted, users, cut>>
    <3>1. GoodImage(last)
      BY <2>1, <2>2, <2>3, HomesGood DEF Homes
    <3>2. ASSUME HomesApart, mounted \notin cut' PROVE Owners(last)
      <4>1. Owners(im)
        BY <2>1, <2>7, <3>2 DEF HomeInv, OwnersGood, im
      <4>2. Owners(OwnedHome(im, name, u))
        BY <1>1, <2>1, <2>2, <3>2, <4>1, OwnedHomeBelongs DEF GoodImage
      <4> QED BY <2>3, <4>1, <4>2
    <3>3. ImagesGood' /\ OwnersGood'
      BY <2>1, <2>7, <3>1, <3>2, OneGood
    <3>4. image'[mounted'] = last /\ users'[current'].name = name
      BY <1>1, <2>1, <2>7 DEF HomeInv, TInv, Inv, ImagesKept, u
    <3>5. HasName' /\ BeganAtHome'
      BY <1>1, <2>7, <3>4 DEF HasName, BeganAtHome, StartsIn
    <3> QED BY <3>3, <3>5 DEF HomeInv
  <2> QED BY <2>4, <2>6, <2>7
<1> QED BY <1>2, <1>3 DEF Login

\* Where names stay, whoever began at home is there still.
LEMMA StaysAtHome ==
  ASSUME HomeInv, mounted # NoImage, NEW im, Onward(image[mounted].vol, im.vol),
         image' = [image EXCEPT ![mounted] = im], UNCHANGED <<mounted, current, cwd>>,
         HasName => current = 0 \/ users'[current] = users[current]
  PROVE  HasName' /\ BeganAtHome'
<1>1. CASE current = 0
  BY <1>1, NobodyAtHome
<1>2. CASE current # 0
  <2>1. mounted \in Images /\ TypedImage(image[mounted]) /\ image'[mounted] = im
    BY DEF HomeInv, TInv, Inv, ImagesKept
  <2>2. HasName /\ users'[current] = users[current]
    BY <1>2 DEF HomeInv
  <2>3. HasName'
    BY <2>2 DEF HasName
  <2> DEFINE n == users[current].name
  <2>4. cwd \in {RootIno, HomeOf(image[mounted], n)} /\ cwd # 0
    BY <1>2 DEF HomeInv, BeganAtHome, TInv
  <2>5. cwd \in {RootIno, HomeOf(im, n)}
    <3>1. CASE cwd = RootIno
      BY <3>1
    <3>2. CASE cwd = HomeOf(image[mounted], n)
      <4> HIDE DEF n
      <4>1. HomeOf(im, n) = HomeOf(image[mounted], n)
        BY <2>1, <2>4, <3>2, HomeStays
      <4> QED BY <3>2, <4>1
    <3> QED BY <2>4, <3>1, <3>2
  <2>6. BeganAtHome'
    BY <2>1, <2>2, <2>5 DEF BeganAtHome
  <2> QED BY <2>3, <2>6
<1> QED BY <1>1, <1>2

LEMMA UseraddHome == ASSUME HomeInv, NEW u \in NewUsers, Useradd(u), TInv' PROVE HomeInv'
<1> DEFINE free == {k \in UserSlot : users[k] = NoUser}
           us == [users EXCEPT ![Min(free)] = u]
           im == image[mounted]
           saved == WithUsers(im, us)
           steps == AddSteps(im, us, u)
           last == Last(steps)
<1>1. u \in Users /\ u.uid \in Uids /\ u.name \in Names
  BY SessionAssumption DEF Users, Uids
<1>2. CASE mounted = NoImage
  <2>1. UNCHANGED <<image, mounted, cut>>
    BY <1>2 DEF Useradd
  <2> QED BY <1>2, <2>1, NobodyAtHome DEF HomeInv, ImagesGood, OwnersGood
<1>3. CASE mounted # NoImage
  <2>1. mounted \in Images /\ GoodImage(im)
    BY <1>3 DEF HomeInv, TInv, Inv, ImagesGood
  <2>2. GoodImage(saved) /\ saved.vol = im.vol /\ saved.owner = im.owner
    <3>1. saved.vol = im.vol /\ saved.owner = im.owner
      BY <2>1 DEF WithUsers, GoodImage, TypedImage, Image
    <3>2. Saved(us) \in [UserSlot -> Users]
      <4>1. \A k \in UserSlot : Saved(users)[k] \in Users
        BY <1>3, SavedTyped DEF HomeInv
      <4>2. \A k \in UserSlot : us[k] = u \/ us[k] = users[k]
        BY DEF HomeInv, TInv
      <4> HIDE DEF us
      <4>3. \A k \in UserSlot : Saved(us)[k] \in Users
        BY <1>1, <4>1, <4>2 DEF Saved
      <4> QED BY <4>3 DEF Saved
    <3>3. TypedImage(saved)
      <4> HIDE DEF us
      <4> QED BY <2>1, <3>2, UsersTypedIn DEF GoodImage
    <3> QED BY <2>1, <3>1, <3>3 DEF GoodImage
  <2>3. /\ \A k \in 1 .. Len(steps) : steps[k] \in {im, saved} \cup Homes(saved, u.name, u)
        /\ last = OwnedHome(saved, u.name, u)
    <3> HIDE DEF us
    <3> QED BY AddStepsAre
  <2>4. \/ DiesIn(mounted, steps)
        \/ /\ image' = [image EXCEPT ![mounted] = last] /\ users' = us
           /\ UNCHANGED <<mounted, current, cwd, cut>>
    BY <1>3 DEF Useradd, AddSteps
  <2>5. HasName => current = 0 \/ us[current] = users[current]
    <3> SUFFICES ASSUME HasName, current # 0 PROVE us[current] = users[current]
      OBVIOUS
    <3>1. users[current] # NoUser /\ current \in UserSlot
      BY <1>3, NamesAssumption DEF HasName
    <3>2. free # {} /\ free \subseteq Nat
      BY DEF Useradd, UserSlot
    <3>3. Min(free) \in free
      <4> HIDE DEF free
      <4> QED BY <3>2, MinIsLeast
    <3> QED BY <3>1, <3>3 DEF HomeInv, TInv
  <2> HIDE DEF steps, last, im, us, saved
  <2>6. \A k \in 1 .. Len(steps) : GoodImage(steps[k])
    BY <1>1, <2>1, <2>2, <2>3, HomesGood
  <2>7. CASE DiesIn(mounted, steps)
    BY <2>1, <2>6, <2>7, DiesGood
  <2>8. CASE /\ image' = [image EXCEPT ![mounted] = last] /\ users' = us
             /\ UNCHANGED <<mounted, current, cwd, cut>>
    <3>1. last \in Homes(saved, u.name, u)
      BY <2>3 DEF Homes
    <3>2. GoodImage(last) /\ Onward(im.vol, last.vol)
      BY <1>1, <2>2, <3>1, HomesGood, HomesAfter DEF GoodImage, After
    <3>3. ASSUME HomesApart, mounted \notin cut' PROVE Owners(last)
      <4>1. Owners(saved)
        BY <2>1, <2>2, <2>8, <3>3 DEF HomeInv, OwnersGood, Owners, im
      <4> QED BY <1>1, <2>2, <2>3, <3>3, <4>1, OwnedHomeBelongs DEF GoodImage
    <3>4. ImagesGood' /\ OwnersGood'
      BY <2>1, <2>8, <3>2, <3>3, OneGood
    <3>5. HasName' /\ BeganAtHome'
      BY <1>3, <2>5, <2>8, <3>2, StaysAtHome DEF im
    <3> QED BY <3>4, <3>5 DEF HomeInv
  <2> QED BY <2>4, <2>7, <2>8
<1> QED BY <1>2, <1>3

----------------------------------------------------------------------------
(* mkdir, create, and the rest *)

LEMMA ByRootHome ==
  ASSUME HomeInv, NEW im, ByRoot(im), TInv', After(image[mounted].vol, im.vol),
         HomesApart /\ Owners(image[mounted]) => Owners(im)
  PROVE  HomeInv'
<1>1. mounted \in Images /\ GoodImage(image[mounted]) /\ mounted # NoImage
  BY DEF ByRoot, HomeInv, TInv, Inv, ImagesGood
<1>2. image' = [image EXCEPT ![mounted] = im] /\ UNCHANGED <<mounted, users, current, cwd, cut>>
  BY DEF ByRoot
<1>3. TypedImage(im)
  <2>1. image'[mounted] = im
    BY <1>1, <1>2 DEF HomeInv, TInv, Inv, ImagesKept
  <2> QED BY <1>1, <2>1 DEF TInv
<1>4. GoodImage(im)
  BY <1>1, <1>3, GoodAfter
<1>5. HomesApart /\ mounted \notin cut' => Owners(im)
  BY <1>1, <1>2 DEF HomeInv, OwnersGood
<1>6. ImagesGood' /\ OwnersGood'
  BY <1>1, <1>2, <1>4, <1>5, OneGood
<1>7. HasName' /\ BeganAtHome'
  BY <1>1, <1>2, StaysAtHome DEF After
<1> QED BY <1>6, <1>7 DEF HomeInv

LEMMA MkdirHome == ASSUME HomeInv, NEW p \in MkdirPaths, Mkdir(p), TInv' PROVE HomeInv'
<1> DEFINE im == image[mounted]
           n  == Last(p)
           jm == Made(im, DirOf(p), n)
<1>1. n \in AnyName
  BY LastNames
<1>2. mounted \in Images /\ GoodImage(im)
  BY DEF Mkdir, HomeInv, TInv, Inv, ImagesGood
<1>3. ByRoot(jm)
  BY DEF Mkdir
<1>4. jm.vol = MakeDirectory(im.vol, DirOf(p), n).vol /\ jm.owner = im.owner
  BY <1>2 DEF Made, GoodImage, TypedImage, Image
<1> HIDE DEF jm, n
<1>5. After(im.vol, jm.vol)
  BY <1>1, <1>2, <1>4, MakeDirectoryAfter DEF GoodImage
<1>6. ASSUME HomesApart, Owners(im) PROVE Owners(jm)
  <2>1. n \notin UserNames
    BY <1>6 DEF HomesApart, n
  <2> QED BY <1>1, <1>2, <1>4, <1>6, <2>1, MadeElseBelongs DEF GoodImage, Owners
<1> QED BY <1>3, <1>5, <1>6, ByRootHome

LEMMA CreateHome == ASSUME HomeInv, NEW p \in CreatePaths, Create(p), TInv' PROVE HomeInv'
<1> DEFINE im == image[mounted]
           n  == Last(p)
           jm == [im EXCEPT !.vol = NewFile(@, DirOf(p), n)]
<1>1. n \in AnyName /\ is_directory(im.vol, DirOf(p))
  BY LastNames DEF Create
<1>2. mounted \in Images /\ GoodImage(im)
  BY DEF Create, HomeInv, TInv, Inv, ImagesGood
<1>3. ByRoot(jm)
  BY DEF Create
<1>4. jm.vol = NewFile(im.vol, DirOf(p), n) /\ jm.owner = im.owner
  BY <1>2 DEF GoodImage, TypedImage, Image
<1> HIDE DEF jm
<1>5. After(im.vol, jm.vol)
  BY <1>1, <1>2, <1>4, NewFileAfter DEF GoodImage
<1>6. ASSUME HomesApart, Owners(im) PROVE Owners(jm)
  <2>1. n \notin UserNames
    BY <1>6 DEF HomesApart
  <2> HIDE DEF n
  <2> QED BY <1>1, <1>2, <1>4, <1>6, <2>1, MadeElseBelongs DEF GoodImage, Owners
<1> QED BY <1>3, <1>5, <1>6, ByRootHome

LEMMA HomeInit == Init => HomeInv
<1> SUFFICES ASSUME Init PROVE HomeInv
  OBVIOUS
<1>1. TInv
  BY TypesInit
<1>2. \A m \in Images : image[m] \in {Absent, Blank} /\ image[m].vol = Blank.vol
  BY BlankFields DEF Init, Unformatted, Absent, IsImage, Fields
<1>3. ImagesGood /\ OwnersGood
  BY <1>1, <1>2, BlankGood, NothingBelongs DEF ImagesGood, OwnersGood, GoodImage, Owners, TInv
<1>4. HasName /\ BeganAtHome
  BY DEF Init, HasName, BeganAtHome
<1> QED BY <1>1, <1>3, <1>4 DEF HomeInv

LEMMA HomeStep == HomeInv /\ [Next]_vars => HomeInv'
<1> SUFFICES ASSUME HomeInv, [Next]_vars PROVE HomeInv'
  OBVIOUS
<1>1. TInv'
  BY TypesStep DEF HomeInv
<1>2. CASE \E m \in Images : Format(m) \/ Mount(m)
  BY <1>1, <1>2, FormatHome, MountHome
<1>3. CASE Umount
  BY <1>1, <1>3, NobodyAtHome DEF Umount, HomeInv, ImagesGood, OwnersGood
<1>4. CASE \E l \in Logins : Login(l.name, l.pass)
  <2>1. \A l \in Logins : l.name \in Names
    BY SessionAssumption
  <2> QED BY <1>1, <1>4, <2>1, LoginHome
<1>5. CASE Logout
  BY <1>1, <1>5, LogoutHome
<1>6. CASE \E u \in NewUsers : Useradd(u)
  BY <1>1, <1>6, UseraddHome
<1>7. CASE \E p \in MkdirPaths : Mkdir(p)
  BY <1>1, <1>7, MkdirHome
<1>8. CASE \E p \in CreatePaths : Create(p)
  BY <1>1, <1>8, CreateHome
<1>9. CASE Restart /\ UNCHANGED <<image, cut>>
  <2>1. current' = 0
    BY <1>9 DEF Restart
  <2> QED BY <1>1, <1>9, <2>1, NobodyAtHome DEF HomeInv, ImagesGood, OwnersGood
<1>10. CASE UNCHANGED vars
  BY <1>1, <1>10 DEF vars, HomeInv, ImagesGood, OwnersGood, HasName, BeganAtHome
<1> QED BY <1>2, <1>3, <1>4, <1>5, <1>6, <1>7, <1>8, <1>9, <1>10 DEF Next

\* Whatever the images, the users and the commands: whoever is logged in on an image
\* began at home or at the root, and so it stays, for no command of a session takes
\* a home away from under its name.
THEOREM SessionsBeginAtHome == Spec => []BeganAtHome
BY HomeInit, HomeStep, PTL DEF Spec, HomeInv

LEMMA KnownOwnHomes ==
  ASSUME HomesApart, HomeInv PROVE HomesAreOwned
<1> SUFFICES ASSUME NEW m \in Images \ cut, NEW u \in KnownOn(image[m]), HomeOf(image[m], u.name) # 0
             PROVE  image[m].owner[HomeOf(image[m], u.name)] = u.uid
  BY DEF HomesAreOwned
<1> DEFINE im == image[m]
           n == u.name
           d == IF n = "root" THEN RootIno ELSE find_directory_entry(im.vol, RootIno, "home")
           i == HomeOf(im, n)
<1>1. TypedImage(im) /\ Belong(im.vol, im.owner)
  BY DEF HomeInv, ImagesGood, GoodImage, OwnersGood, Owners
<1>2. im.vol \in Volumes /\ u \in Users /\ u.name = n
  BY <1>1 DEF KnownOn, TypedImage, Image
<1>3. i = find_directory_entry(im.vol, d, n) /\ i # 0
  BY HomeIs
<1> DEFINE v == im.vol
           owner == im.owner
<1>4. v \in Volumes /\ Belong(v, owner) /\ i = find_directory_entry(v, d, n)
  BY <1>1, <1>2, <1>3
<1> HIDE DEF d, i, n, v, owner
<1>5. owner[i] = u.uid
  BY <1>2, <1>3, <1>4, HomeBelongs
<1> QED BY <1>5 DEF i, n, owner

\* On an image no command was cut short on, the home of every user the image knows is
\* that user's, as long as root makes nothing else of a user's name, and users of
\* one name, who share a home, have one number.
THEOREM HomesBelongToTheirUsers == HomesApart => (Spec => []HomesAreOwned)
<1> SUFFICES ASSUME HomesApart PROVE Spec => []HomesAreOwned
  OBVIOUS
<1>1. HomeInv => HomesAreOwned
  BY KnownOwnHomes
<1> QED BY <1>1, HomeInit, HomeStep, PTL DEF Spec
=============================================================================
