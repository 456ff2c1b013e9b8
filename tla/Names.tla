------------------------------- MODULE Names -------------------------------
(***************************************************************************)
(* From a pathname to a file: paths (vfs/path.c), mounts (vfs/mount.c,     *)
(* vfs/superblock.c), the walk of inode_open (vfs/file.c), the two file    *)
(* systems (fs/ece391fs.c, fs/ustar.c) and the switch of the root from one *)
(* to the other (main.c).                                                  *)
(*                                                                         *)
(* A pathname is a flag (does it begin with a slash?) and the sequence of  *)
(* strings between its slashes.  The archive's files are a constant; of    *)
(* their data only the size is kept.  One task stands for all tasks that   *)
(* open files; its descriptors and who shares them are in Files.           *)
(***************************************************************************)
EXTENDS Integers, Sequences, SequencesExt, FiniteSets

CONSTANTS
  Dentries, \* of the ECE391 file system: sequence of [path (a name), type, size]
  Archive,  \* the ustar archive: sequence of [path, type, target, size]
  Called,   \* pathnames that are opened and changed to
  Pathnames, \* all pathnames that NamesRight is about
  Slots,    \* bound: files the task may have open, without its cwd
  MaxLeaks, \* bound: mount references that are given up uncounted
  Amounts,  \* numbers of bytes to read, and offsets to seek by
  Restart   \* may a shell that is being restarted outlive the switch?

NoMount == 0
Mounts == {1, 2}  \* the ECE391 root, and the Linux root
Cwd == 0          \* the slot of the cwd

Pathname(absolute, parts) == [absolute |-> absolute, parts |-> parts]

PathnameType == [absolute : BOOLEAN, parts : Seq(STRING)]

ASSUME NamesAssumption ==
  /\ Slots \subseteq Nat \ {0} /\ IsFiniteSet(Slots)
  /\ MaxLeaks \in Nat /\ Amounts \subseteq Nat /\ Restart \in BOOLEAN
  /\ Called \subseteq PathnameType
  /\ Dentries \in Seq([path : Seq(STRING), type : STRING, size : Nat])
  /\ Archive \in Seq([path : Seq(STRING), type : STRING, target : PathnameType, size : Nat])
  \* no entry for the archive's root (see IsDirectDescendent)
  /\ \A i \in DOMAIN Archive : Archive[i].path # <<>>
  /\ \A i \in DOMAIN Dentries : Len(Dentries[i].path) = 1 /\ Dentries[i].type # "sym"

VARIABLES
  mounttable, \* the mounts, in the order in which they were made
  refs,       \* refcount of each mount, which is freed when it is 0
  files,      \* what is open: path, ino and pos (of the file)
  leaked,     \* history: references to each mount given up uncounted
  stale       \* history: a super block was used after it was freed

namesvars == <<mounttable, refs, files, leaked, stale>>

(***************************************************************************)
(* Paths                                                                   *)
(***************************************************************************)
Empty == [absolute |-> FALSE, mnt |-> NoMount, components |-> <<>>]
root_path == [Empty EXCEPT !.absolute = TRUE]

\* With a bug: the root of a mount is not known to have no parent.
AddComponentMount(path, c) ==
  IF c \in {"", "."} THEN path
  ELSE IF c = ".." /\ path.components # <<>>
    THEN [path EXCEPT !.components = Front(@)]
  ELSE IF c = ".." /\ path.absolute THEN path
  ELSE [path EXCEPT !.components = Append(@, c)]

\* path_add_component
AddComponent(path, c) ==
  IF c \in {"", "."} THEN path
  ELSE IF c = ".." /\ path.components # <<>>
    THEN [path EXCEPT !.components = Front(@)]
  ELSE IF c = ".." /\ (path.absolute \/ path.mnt # NoMount) THEN path
  ELSE [path EXCEPT !.components = Append(@, c)]

\* The loops of path_fromstr, path_join and path_clone.
AddAll(path, components) ==
  LET added[i \in 0 .. Len(components)] ==
        IF i = 0 THEN path ELSE AddComponent(added[i - 1], components[i])
  IN  added[Len(components)]

\* path_fromstr
FromStr(n) == AddAll([Empty EXCEPT !.absolute = n.absolute], n.parts)

\* path_join and path_clone
Join(x, y) ==
  IF y.absolute THEN AddAll(root_path, y.components)
  ELSE AddAll([x EXCEPT !.components = <<>>], x.components \o y.components)

\* path_subsumes: how many components match, or -1
Subsumes(parent, child) ==
  IF parent.mnt = child.mnt /\ parent.absolute = child.absolute
     /\ IsPrefix(parent.components, child.components)
  THEN Len(parent.components) ELSE -1

\* path_is_direct_decendent.  (Both sides are -1 for a child with no component
\* and a parent with some: an archive with an entry for its root would have it
\* in every directory.)
IsDirectDescendent(parent, child) == Subsumes(parent, child) = Len(child.components) - 1

\* Mounts are made at root_path only.
MountPath(m) == root_path

\* One turn of the loop of path_checkmnt: the last of the mounts that match most.
CheckMnt(path) ==
  LET size(i) == Subsumes(MountPath(mounttable[i]), path)
      Match == {i \in DOMAIN mounttable : size(i) >= 0}
      best == CHOOSE i \in Match :
                \A j \in Match : size(j) < size(i) \/ (size(j) = size(i) /\ j <= i)
  IN  IF Match = {} THEN path
      ELSE [absolute |-> FALSE, mnt |-> mounttable[best],
            components |-> SubSeq(path.components, size(best) + 1, Len(path.components))]

\* path_resolvemnt, which path_tostring begins with
ResolveMnt(path) ==
  IF path.mnt = NoMount THEN path ELSE Join(MountPath(path.mnt), [path EXCEPT !.mnt = NoMount])

(***************************************************************************)
(* File systems: an inode is a number of an entry, or RootIno.             *)
(***************************************************************************)
RootIno == 0
NoIno == -1

Root == [path |-> <<>>, type |-> "dir", size |-> 0]
Entries(m) == IF m = 1 THEN Dentries ELSE Archive
Entry(m, ino) == IF ino = RootIno THEN Root ELSE Entries(m)[ino]

First(S) == IF S = {} THEN NoIno ELSE CHOOSE i \in S : \A j \in S : i <= j

PathOf(m, ino) == [Empty EXCEPT !.components = Entry(m, ino).path]
Children(m, ino) == {i \in DOMAIN Entries(m) : IsDirectDescendent(PathOf(m, ino), PathOf(m, i))}

\* ece391fs_ino_lookup does not ask which inode it is to look in;
\* ustar_ino_lookup compares the path of every entry with that of the inode.
Lookup(m, ino, name) ==
  IF ino = NoIno THEN NoIno
  ELSE First({i \in IF m = 1 THEN DOMAIN Dentries ELSE Children(m, ino) :
                Last(Entry(m, i).path) = name})

\* ece391fs_readdir, ustar_readdir
Listed(m, ino) ==
  {Last(Entry(m, i).path) : i \in IF m = 1 THEN DOMAIN Dentries ELSE Children(m, ino)}

\* The walk in inode_open, from the root of the mount.
Walk(path) ==
  LET ino[i \in 0 .. Len(path.components)] ==
        IF i = 0 THEN RootIno ELSE Lookup(path.mnt, ino[i - 1], path.components[i])
  IN  ino[Len(path.components)]

IsLink(path) == Walk(path) # NoIno /\ Entry(path.mnt, Walk(path)).type = "sym"

\* What inode_open does about a link at the end of a path.  A link in the middle
\* is not followed.
Follow(path) ==
  IF ~IsLink(path) THEN path
  ELSE CheckMnt(Join([path EXCEPT !.components = Front(@)],
                     FromStr(Entry(path.mnt, Walk(path)).target)))

ClosedFile == [path |-> Empty, ino |-> NoIno, pos |-> 0]

\* The links of an archive do not lead back to themselves (inode_open would follow
\* them for ever), so that there are no more than entries to follow.
FollowAll(path) ==
  LET at[i \in 0 .. Len(Archive)] == IF i = 0 THEN path ELSE Follow(at[i - 1])
  IN  at[Len(Archive)]

\* inode_open
Found(rel, n) ==
  LET str  == FromStr(n)
      path == FollowAll(CheckMnt(IF str.absolute THEN str ELSE Join(rel, str)))
  IN  IF path.mnt = NoMount \/ IsLink(path) \/ Walk(path) = NoIno THEN ClosedFile
      ELSE [path |-> path, ino |-> Walk(path), pos |-> 0]

(***************************************************************************)
(* Operations                                                              *)
(***************************************************************************)
IsOpen(slot) == files[slot] # ClosedFile
Size(f) == Entry(f.path.mnt, f.ino).size
Type(f) == Entry(f.path.mnt, f.ino).type

\* kernel_main has mounted the ECE391 root.
NamesInit ==
  /\ mounttable = <<1>>
  /\ refs = [m \in Mounts |-> IF m = 1 THEN 1 ELSE 0]
  /\ files = [s \in Slots \union {Cwd} |-> ClosedFile]
  /\ leaked = [m \in Mounts |-> 0]
  /\ stale = FALSE

\* filp_openat, of which the new file keeps the path, and so the mount
Opens(slot, rel, n) ==
  LET f == Found(rel, n) IN
  /\ f # ClosedFile
  /\ files' = [files EXCEPT ![slot] = f]
  /\ refs' = [refs EXCEPT ![f.path.mnt] = @ + 1]
  /\ UNCHANGED <<mounttable, leaked, stale>>

\* do_execve gives a task that has none the root for its cwd.
Start == ~IsOpen(Cwd) /\ Opens(Cwd, Empty, Pathname(TRUE, <<>>))

OpenName(slot, n) == IsOpen(Cwd) /\ ~IsOpen(slot) /\ Opens(slot, files[Cwd].path, n)

InLinux == IsOpen(Cwd) /\ files[Cwd].path.mnt = 2
MayLeak(m) == leaked[m] < MaxLeaks

\* A reference to mount m that nobody will give back.
Leak(m) ==
  /\ MayLeak(m)
  /\ refs' = [refs EXCEPT ![m] = @ + 1]
  /\ leaked' = [leaked EXCEPT ![m] = @ + 1]
  /\ UNCHANGED <<mounttable, files, stale>>

\* filp_openat of a directory to write to it: EISDIR, and the path is kept.
OpenFails(n) ==
  /\ InLinux
  /\ LET f == Found(files[Cwd].path, n) IN f # ClosedFile /\ Type(f) = "dir" /\ Leak(f.path.mnt)

\* path_tostring: path_resolvemnt forgets the mount of the path that it cloned.
Getcwd == InLinux /\ Leak(files[Cwd].path.mnt)

\* With a bug: the path goes, and its mount is still counted.
PutMountNot(r, m) == r

PutMount(r, m) == [r EXCEPT ![m] = @ - 1]

\* filp_close: the path goes before the inode, which needs its super block.
Closes(f) ==
  /\ stale' = (stale \/ refs[f.path.mnt] = 1)
  /\ UNCHANGED <<mounttable, leaked>>

\* close, and in the end do_exit, for the cwd
Close(slot) ==
  /\ IsOpen(slot)
  /\ slot = Cwd => \A s \in Slots : ~IsOpen(s)
  /\ files' = [files EXCEPT ![slot] = ClosedFile]
  /\ refs' = PutMount(refs, files[slot].path.mnt)
  /\ Closes(files[slot])

\* chdir, which does not ask for a directory
ChangeDirectory(n) ==
  LET f == Found(files[Cwd].path, n) IN
  /\ InLinux /\ f # ClosedFile
  /\ files' = [files EXCEPT ![Cwd] = f]
  /\ refs' = PutMount([refs EXCEPT ![f.path.mnt] = @ + 1], files[Cwd].path.mnt)
  /\ Closes(files[Cwd])

\* The comparison of new_pos, which is unsigned, in default_file_seek.
MayBeAt(pos, size) == pos >= 0 /\ pos < size

\* default_file_seek, by SEEK_SET, SEEK_CUR and SEEK_END
Seek(slot, from, offset) ==
  LET f == files[slot]
      pos == offset + CASE from = "set" -> 0 [] from = "cur" -> f.pos [] from = "end" -> Size(f)
  IN  /\ IsOpen(slot) /\ Type(f) = "reg" /\ MayBeAt(pos, Size(f))
      /\ files' = [files EXCEPT ![slot].pos = pos]
      /\ UNCHANGED <<mounttable, refs, leaked, stale>>

\* ece391fs_read and ustar_read.  Their numbers are unsigned: what is left of a
\* file would be very much after its end (65536 stands for 2^32).
Read(slot, nbytes) ==
  LET f == files[slot]
      left == (Size(f) - f.pos) % 65536
  IN  /\ IsOpen(slot) /\ Type(f) = "reg"
      /\ files' = [files EXCEPT ![slot].pos = @ + IF nbytes > left THEN left ELSE nbytes]
      /\ UNCHANGED <<mounttable, refs, leaked, stale>>

\* kernel_dummy_init, when no ECE391 program is left: do_umount and do_mount of
\* root_path.
Switch ==
  LET m == CheckMnt(root_path).mnt IN
  /\ mounttable = <<1>>
  /\ Restart \/ \A s \in DOMAIN files : ~IsOpen(s)
  /\ \E i \in DOMAIN mounttable :
       mounttable[i] = m /\ mounttable' = Append(RemoveAt(mounttable, i), 2)
  /\ refs' = [PutMount(refs, m) EXCEPT ![2] = 1]
  /\ UNCHANGED <<files, leaked, stale>>

NamesNext ==
  \/ Start \/ Getcwd \/ Switch
  \/ \E n \in Called : OpenFails(n) \/ ChangeDirectory(n) \/ \E s \in Slots : OpenName(s, n)
  \/ \E s \in DOMAIN files : Close(s)
  \/ \E s \in Slots, k \in Amounts :
       \/ Read(s, k)
       \/ \E from \in {"set", "cur", "end"}, offset \in {k, -k} : Seek(s, from, offset)

NamesSpec == NamesInit /\ [][NamesNext]_namesvars

(***************************************************************************)
(* Properties                                                              *)
(***************************************************************************)
NamesTypeOK ==
  /\ mounttable \in {<<1>>, <<2>>}
  /\ refs \in [Mounts -> Nat] /\ leaked \in [Mounts -> 0 .. MaxLeaks] /\ stale \in BOOLEAN
  /\ DOMAIN files = Slots \union {Cwd}
  /\ \A s \in DOMAIN files : IsOpen(s) =>
       /\ files[s].path.mnt \in Mounts /\ ~files[s].path.absolute
       /\ files[s].ino \in {RootIno} \union DOMAIN Entries(files[s].path.mnt)
       /\ files[s].pos \in 0 .. Size(files[s])

\* A mount lives as long as somebody is in it: its count is one for the table, one
\* for each file whose path leads through it, and those that were lost; and no file
\* is closed after the super block it belongs to, whenever the root is switched.
MountHeld ==
  /\ \A m \in Mounts :
       refs[m] = Cardinality({i \in DOMAIN mounttable : mounttable[i] = m})
                 + Cardinality({s \in DOMAIN files : files[s].path.mnt = m}) + leaked[m]
  /\ ~stale

(***************************************************************************)
(* The meaning of a pathname, from the tree of files: the node it leads to *)
(* from node dir, if any.  A node is the sequence of names from the root.  *)
(***************************************************************************)
Nowhere == <<"">>

Kind(m, node) ==
  LET S == {i \in DOMAIN Entries(m) : Entries(m)[i].path = node} IN
  IF node = <<>> THEN "dir" ELSE IF S = {} THEN "none" ELSE Entries(m)[First(S)].type

Step(m, node, c) ==
  IF Kind(m, node) # "dir" THEN Nowhere
  ELSE IF c \in {"", "."} THEN node
  ELSE IF c = ".." THEN IF node = <<>> THEN node ELSE Front(node)
  ELSE IF Kind(m, Append(node, c)) = "none" THEN Nowhere ELSE Append(node, c)

Steps(m, dir, n) ==
  FoldLeft(LAMBDA node, c : Step(m, node, c), IF n.absolute THEN <<>> ELSE dir, n.parts)

\* ... with a link at the end followed
Meant(m, dir, n) ==
  LET Target(node) == Entries(m)[First({i \in DOMAIN Entries(m) : Entries(m)[i].path = node})].target
  IN  FoldLeft(LAMBDA node, i : IF Kind(m, node) = "sym" THEN Steps(m, Front(node), Target(node)) ELSE node,
               Steps(m, dir, n), [i \in DOMAIN Entries(m) |-> i])

\* A relative pathname that climbs two directories above its start.  The second
\* ".." of such a pathname takes away the first, because path_add_component pops
\* whatever is last, and the pathname leads to a place that it does not name.
Strays(n) ==
  LET Count(i, S) == Cardinality({j \in 1 .. i : n.parts[j] \in S}) IN
  ~n.absolute /\ \E i \in DOMAIN n.parts :
                     Count(i, {".."}) > i - Count(i, {"", ".", ".."}) + 1

\* From wherever chdir has led, every pathname that leads somewhere is resolved to
\* that, unless it strays; getcwd gives a pathname of the directory; and what is
\* listed in a directory is what can be opened in it.
NamesRight ==
  IsOpen(Cwd) =>
    LET cwd == files[Cwd]
        m   == cwd.path.mnt
        Is(f, node) == f # ClosedFile /\ f.path.components = node /\ Entry(m, f.ino).path = node
    IN  /\ \A n \in Pathnames :
             LET node == Meant(m, cwd.path.components, n) IN
             node # Nowhere /\ ~Strays(n) => Is(Found(cwd.path, n), node)
        /\ Is(Found(cwd.path, Pathname(TRUE, ResolveMnt(cwd.path).components)),
              cwd.path.components)
        /\ \A c \in Listed(m, cwd.ino) : Found(cwd.path, Pathname(FALSE, <<c>>)) # ClosedFile
=============================================================================
