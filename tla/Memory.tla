------------------------------- MODULE Memory -------------------------------
(***************************************************************************)
(* Virtual memory: mm/paging.c, mm/brk.c, and what clone, exec, exit, the  *)
(* page fault handler and the terminal's vidmap do with it.                *)
(*                                                                         *)
(* phys_dir counts the users of every frame, large and small: a large      *)
(* frame is as big as NumEntries small ones and may be allocated when all  *)
(* of these are unused, and conversely.  The counts of the large frames    *)
(* are kept at the indexes of the first small ones, which is right because *)
(* the first large frames belong to the kernel.                            *)
(*                                                                         *)
(* A page directory and a page table are named by the small frame that     *)
(* holds them, which is what the code finds through heap_tables.  Only the *)
(* user's entries are modelled.  A handler works on a record M, the memory *)
(* as it stands, because several steps of it allocate and free; it stops   *)
(* with M.panic set where the code panics, or writes through a null        *)
(* pointer because memory ran out.                                         *)
(***************************************************************************)
EXTENDS Integers, FiniteSets, FiniteSetsExt, Functions, Sequences

CONSTANTS
  Tasks,
  NumEntries,  \* NUM_ENTRIES: pages in a table, small frames in a large one
  NumLarge,    \* PHYS_DIR_LARGE_NUM: large frames, and entries of a directory
  Preallocated,\* NUM_PREALLOCATE_LARGE: large frames that are the kernel's
  UserSlots,   \* the directory entries that are not the kernel's
  MemoryMap,   \* multiboot's available regions, <<first, end>> in small frames
  IndexWidth,  \* number of values of the uint16_t that index frames and pages
  Values,      \* what a page may hold, with 0
  Programs,    \* the programs that can be executed: sequences of segments
  Breaks,      \* the page indexes that Linux programs give to brk
  Addresses,   \* the addresses that programs use
  HeapBlock,   \* number of frames of the block that the kernel's heap may take
  Roomy,       \* whether a copy on write always finds its frames
  MaxBirths,   \* bound: clones and execs in a behaviour
  MaxVidmaps   \* bound: vidmaps at a time

Subsystems == {"LINUX", "ECE391"}

\* A segment of a program: the directory entry it lies in, its pages there, and
\* what the file has for them.
Segments == [slot : 0 .. NumLarge - 1, page : 0 .. NumEntries - 1, num : Nat,
             rw : BOOLEAN, large : BOOLEAN, data : Values, bss : BOOLEAN]

ASSUME MemoryAssumption ==
  /\ IsFiniteSet(Tasks)
  /\ NumEntries \in Nat \ {0} /\ NumLarge \in Nat /\ Preallocated \in 1 .. NumLarge
  /\ NumLarge <= Preallocated * NumEntries
  /\ UserSlots \subseteq 0 .. NumLarge - 1
  /\ IndexWidth \in Nat \ {0} /\ HeapBlock \in Nat
  /\ 0 \in Values
  /\ Roomy \in BOOLEAN
  /\ MaxBirths \in Nat /\ MaxVidmaps \in Nat
  /\ Breaks \subseteq Nat
  /\ Addresses \subseteq UserSlots \X (0 .. NumEntries - 1)

ASSUME ProgramsAssumption ==
  \A prog \in Programs :
    /\ prog.subsystem \in Subsystems
    /\ prog.segments \in Seq(Segments) /\ prog.segments # << >>
    /\ \A k \in DOMAIN prog.segments :
         prog.segments[k].large => prog.segments[k].slot \in UserSlots

\* The segments of the programs for a subsystem, the breaks there may be (the
\* page after a small segment, or what brk is given), and directory entries.
SegmentsOf(sub, large) ==
  {seg \in UNION {Range(prog.segments) : prog \in {p \in Programs : p.subsystem = sub}} :
     seg.large = large}

LargeSlots(sub) == {seg.slot : seg \in SegmentsOf(sub, TRUE)}

BreaksOf(sub) ==
  IF sub = "LINUX"
    THEN Breaks \union
           {seg.slot * NumEntries + seg.page + seg.num : seg \in SegmentsOf(sub, FALSE)}
    ELSE {}

SmallSlots(sub) ==
  {seg.slot : seg \in SegmentsOf(sub, FALSE)}
    \union {(n % IndexWidth) \div NumEntries : n \in BreaksOf(sub)}

\* How programs lie in memory, which the kernel relies on and does not check:
\* small pages and the break stay out of the entry of the large page (the stack
\* below 2 GB, or the page at 128 MB), and there is an entry of the user's
\* before it where they have nothing, with room in its table for the vidmaps.
ASSUME LayoutAssumption ==
  /\ NumEntries > 2 /\ MaxVidmaps < NumEntries - 1
  /\ \A sub \in Subsystems : LargeSlots(sub) \intersect SmallSlots(sub) = {}
  /\ \E s \in UserSlots : \A sub \in Subsystems :
       s >= Preallocated /\ s \notin SmallSlots(sub) /\ \A l \in LargeSlots(sub) : s < l

VARIABLES
  phys,     \* phys_dir
  dir,      \* the page directories, by frame: an entry for every user slot
  table,    \* the page tables, by frame: an entry for every page
  content,  \* what is in a frame that programs use
  panic,    \* "no"; "oom", memory ran out where the code does not handle it; a check
            \* failed: "screen", that a frame to be shared is not the screen's, or "bug"
  mm,       \* the page directory in current->mm of each task
  mms,      \* the mm_structs, by directory: refcount and brk
  vidmaps,  \* tty->vidmaps: <<task, directory, address>>
  video,    \* tty->video_mem: the screen's frame, or a page that saves it
  heap,     \* the frames of the heap's block
  subsystem,\* of each task: which system calls it has
  doing,    \* what each task does: see MemoryTypeOK
  program,  \* the program that exec is loading
  births    \* number of clones and execs so far, to bound them

physvars   == <<phys, dir, table, content, panic>>
memoryvars == <<physvars, mm, mms, vidmaps, video, heap, subsystem, doing, program, births>>

UNUSED  == 0
KERNEL  == -1
UNAVAIL == -2
NoFrame == -1     \* as the address of an entry: it is not present
Screen  == 0      \* VIDEO_ADDR, in memory that is never allocated

User    == <<"user">>      \* in user mode, or not there
Thread  == <<"thread">>    \* the child that execute made, before its exec
Doomed  == <<"doomed">>    \* a forced SIGSEGV is about to end it
Load(k) == <<"load", k>>   \* exec is about to load segment k
Wait(c) == <<"wait", c>>   \* execute waits for the child

Pages      == 0 .. NumEntries - 1
LargeFrame == 0 .. NumLarge - 1
SmallFrame == NumLarge .. NumLarge * NumEntries - 1
Frames     == LargeFrame \union SmallFrame

Entries == [frame : Frames \union {NoFrame}, rw : BOOLEAN, cow : BOOLEAN, large : BOOLEAN]
Absent  == [frame |-> NoFrame, rw |-> FALSE, cow |-> FALSE, large |-> FALSE]

Put(f, x, v) == [y \in DOMAIN f \union {x} |-> IF y = x THEN v ELSE f[y]]
Without(f, S) == [y \in DOMAIN f \ S |-> f[y]]

Now == [phys |-> phys, dir |-> dir, table |-> table, content |-> content, panic |-> panic]

Becomes(M) ==
  /\ phys' = M.phys /\ dir' = M.dir /\ table' = M.table
  /\ content' = M.content /\ panic' = M.panic

Panics(M, why) == [M EXCEPT !.panic = IF @ = "no" THEN why ELSE @]

(***************************************************************************)
(* Frames                                                                  *)
(***************************************************************************)
\* init_page: a region makes available the frames that are wholly inside it,
\* but for the kernel's own; what no region names is not available.  (The
\* rounding up fails for a region that starts at 0.)
InitPage ==
  LET inside(i, size) == \E r \in MemoryMap :
        /\ r[1] > 0
        /\ i >= Max({Preallocated * (NumEntries \div size), (r[1] + size - 1) \div size})
        /\ i < r[2] \div size
  IN  [i \in Frames |->
         IF i < Preallocated THEN KERNEL
         ELSE IF IF i \in LargeFrame THEN inside(i, NumEntries) ELSE inside(i, 1)
           THEN UNUSED ELSE UNAVAIL]

\* With a bug: a large frame is free when nobody has it as a large frame.
FreeLargeOnly(M) == {l \in LargeFrame : M.phys[l] = UNUSED}

\* alloc_phys_mem's loop over the small frames of a large one has a uint16_t
\* index: past 256 MB it goes round to the kernel's own memory and gives up.
FreeLarge(M) ==
  {l \in LargeFrame :
     /\ M.phys[l] = UNUSED
     /\ (l + 1) * NumEntries < IndexWidth
     /\ \A i \in l * NumEntries .. (l + 1) * NumEntries - 1 : M.phys[i] = UNUSED}

FreeSmall(M) ==
  {i \in SmallFrame : M.phys[i] = UNUSED /\ M.phys[i \div NumEntries] = UNUSED}

\* The first n free small frames.
FirstSmall(M, n) == {i \in FreeSmall(M) : Cardinality({j \in FreeSmall(M) : j < i}) < n}

\* The first of them but for k.
SmallAfter(M, k) == CHOOSE i \in FreeSmall(M) : Cardinality({j \in FreeSmall(M) : j < i}) = k

\* alloc_phys_mem: its callers see that there is a frame.
Mark(M, F, n) == [M EXCEPT !.phys = [i \in Frames |-> IF i \in F THEN n ELSE M.phys[i]]]

\* alloc_phys_mem_consecutive: n small frames in a row, with such an index too.
Consecutive(M, n) ==
  {i \in SmallFrame : i + n < IndexWidth /\ i .. i + n - 1 \subseteq FreeSmall(M)}

\* free_phys_mem without.
FreeKernel(M, F) ==
  IF \E f \in F : M.phys[f] # KERNEL THEN Panics(M, "bug") ELSE Mark(M, F, UNUSED)

(***************************************************************************)
(* Directories                                                             *)
(***************************************************************************)
\* The entry that translates an address <<slot, page>> in directory d.
Entry(M, d, a) ==
  LET e == M.dir[d][a[1]] IN
  IF e.frame = NoFrame \/ e.large THEN e ELSE M.table[e.frame][a[2]]

SetEntry(M, d, a, e) ==
  LET old == M.dir[d][a[1]] IN
  IF old.frame = NoFrame \/ old.large
    THEN [M EXCEPT !.dir[d][a[1]] = e]
    ELSE [M EXCEPT !.table[old.frame][a[2]] = e]

Tables(M, d) == {M.dir[d][s].frame : s \in {s \in UserSlots :
                   M.dir[d][s].frame # NoFrame /\ ~M.dir[d][s].large}}

\* The addresses of d's pages; a large page has one.
Mapped(M, d) ==
  {a \in UserSlots \X Pages :
     LET e == Entry(M, d, a) IN e.frame # NoFrame /\ (e.large => a[2] = 0)}

\* How often directory d uses each frame.
Uses(M, d) ==
  LET frame == [a \in Mapped(M, d) |-> Entry(M, d, a).frame] IN
  [f \in Frames |-> Cardinality({a \in DOMAIN frame : frame[a] = f})]

\* mk_user_table: a small frame for a table in slot s.
MakeTable(M, d, s) ==
  LET f == Min(FreeSmall(M)) IN
  [Mark(M, {f}, KERNEL) EXCEPT
     !.table = Put(M.table, f, [p \in Pages |-> Absent]),
     !.dir[d][s] = [Absent EXCEPT !.frame = f, !.rw = TRUE]]

\* request_pages with GFP_USER, n small pages from the page with index i; no
\* range may end at the end of its table (and none crosses it).
RequestSmall(M, d, i, n, rw) ==
  LET s     == i \div NumEntries
      first == i % NumEntries
      e     == M.dir[d][s]
      M1    == IF e.frame = NoFrame /\ FreeSmall(M) # {} THEN MakeTable(M, d, s) ELSE M
      t     == M1.dir[d][s].frame
      refused == [ok |-> FALSE, M |-> M]
  IN  IF first + n >= NumEntries \/ s \notin UserSlots THEN refused
      ELSE IF e.large THEN [ok |-> FALSE, M |-> Panics(M, "bug")]
      ELSE IF t = NoFrame THEN refused
      ELSE IF \E p \in first .. first + n - 1 : M1.table[t][p].frame # NoFrame THEN refused
      ELSE IF Cardinality(FreeSmall(M1)) < n THEN [ok |-> FALSE, M |-> M1]
      ELSE [ok |-> TRUE, M |->
              [Mark(M1, FirstSmall(M1, n), 1) EXCEPT
                 !.table[t] = [p \in Pages |->
                   IF p \in first .. first + n - 1
                     THEN [frame |-> SmallAfter(M1, p - first), rw |-> rw, cow |-> FALSE, large |-> FALSE]
                     ELSE M1.table[t][p]]]]

\* request_pages with GFP_USER and GFP_LARGE, one page.
RequestLarge(M, d, s) ==
  IF M.dir[d][s].frame # NoFrame \/ FreeLarge(M) = {} THEN [ok |-> FALSE, M |-> M]
  ELSE LET f == Min(FreeLarge(M)) IN
       [ok |-> TRUE, M |->
          [Mark(M, {f}, 1) EXCEPT
             !.dir[d][s] = [frame |-> f, rw |-> TRUE, cow |-> FALSE, large |-> TRUE]]]

\* free_phys_mem with GFP_USER, of the pages at the addresses in A: one user
\* fewer, and the entries are not present any more.
Release(M, d, A) ==
  LET entry(a) == Entry(M, d, a)
      left == [i \in Frames |-> M.phys[i] - Cardinality({a \in A : entry(a).frame = i})]
  IN  IF \E a \in A : M.phys[entry(a).frame] <= 0 THEN Panics(M, "bug")
      ELSE [M EXCEPT
              !.phys    = left,
              !.content = [i \in Frames |-> IF M.phys[i] > 0 /\ left[i] = 0 THEN 0 ELSE M.content[i]],
              !.dir[d]  = [s \in UserSlots |->
                 IF M.dir[d][s].large /\ <<s, 0>> \in A THEN Absent ELSE M.dir[d][s]],
              !.table   = [f \in DOMAIN M.table |-> [p \in Pages |->
                 IF \E a \in A : a[2] = p /\ M.dir[d][a[1]].frame = f
                   THEN Absent ELSE M.table[f][p]]]]

\* free_pages with GFP_USER, of the small pages with indexes in I.
FreePages(M, d, I) ==
  Release(M, d, {a \in Mapped(M, d) : a[1] * NumEntries + a[2] \in I /\ ~Entry(M, d, a).large})

\* free_directory, with its tables.
FreeDirectory(M, d) ==
  LET M1 == Release(M, d, Mapped(M, d)) IN
  [FreeKernel(M1, Tables(M, d) \union {d}) EXCEPT
     !.dir = Without(M1.dir, {d}), !.table = Without(M1.table, Tables(M, d))]

\* A page that is writable becomes copy-on-write, in both directories.
ShareEntry(e) == IF e.rw THEN [e EXCEPT !.rw = FALSE, !.cow = TRUE] ELSE e

\* With a bug: the pages have as many users as before.
MoreUsersNever(M, d) == M.phys

\* use_phys_mem for every page of d.
MoreUsers(M, d) == LET uses == Uses(M, d) IN [i \in Frames |-> M.phys[i] + uses[i]]

\* clone_directory: takes a frame for the new directory, the first that is
\* free, and then one for each table that has pages, by slot.  use_phys_mem wants a
\* frame that has users, and the screen's has none.
CloneDirectory(M, d) ==
  LET full == {s \in UserSlots : \E a \in Mapped(M, d) : a[1] = s /\ ~M.dir[d][s].large}
      new  == Min(FreeSmall(M))
      copy == [s \in full |-> SmallAfter(M, 1 + Cardinality({r \in full : r < s}))]
      share(e) == IF e.large THEN ShareEntry(e) ELSE e
      shared(f) == [p \in Pages |-> ShareEntry(M.table[f][p])]
      unusable == {f \in Frames : M.phys[f] <= 0 /\ \E a \in Mapped(M, d) : Entry(M, d, a).frame = f}
  IN  IF Cardinality(FreeSmall(M)) <= Cardinality(full) THEN Panics(M, "oom")
      ELSE IF unusable # {} THEN Panics(M, IF unusable = {video} THEN "screen" ELSE "bug")
      ELSE [M EXCEPT
              !.phys  = Mark([M EXCEPT !.phys = MoreUsers(M, d)],
                             {new} \union Range(copy), KERNEL).phys,
              !.dir   = Put([M.dir EXCEPT ![d] = [s \in UserSlots |-> share(M.dir[d][s])]], new,
                          [s \in UserSlots |->
                             IF s \in full THEN [Absent EXCEPT !.frame = copy[s], !.rw = TRUE]
                             ELSE IF M.dir[d][s].large THEN share(M.dir[d][s]) ELSE Absent]),
              !.table = [f \in DOMAIN M.table \union Range(copy) |->
                           IF f \in Range(copy)
                             THEN shared(M.dir[d][CHOOSE s \in full : copy[s] = f].frame)
                           ELSE IF f \in Tables(M, d) THEN shared(f) ELSE M.table[f]]]

\* new_directory copies init_page_directory, which has nothing of the user's.
NewDirectory(M) ==
  IF FreeSmall(M) = {} THEN Panics(M, "oom")
  ELSE LET new == Min(FreeSmall(M)) IN
       [Mark(M, {new}, KERNEL) EXCEPT !.dir = Put(M.dir, new, [s \in UserSlots |-> Absent])]

(***************************************************************************)
(* Copy on write                                                           *)
(***************************************************************************)
\* The slots where alloc_pages(1, 0, GFP_USER) could put its page.
Room(M, d) ==
  {s \in UserSlots : s >= Preallocated /\ ~M.dir[d][s].large /\
     \E p \in 0 .. NumEntries - 2 : Entry(M, d, <<s, p>>).frame = NoFrame}

\* That call, for a page that is given up again at once but may leave a new
\* table behind.  The first slot that has room is taken; a large page that
\* comes before is mistaken for a table.
TempSmall(M, d) ==
  LET s == Min(Room(M, d)) IN
  IF \E l \in UserSlots : M.dir[d][l].large /\ l >= Preallocated /\ \A r \in Room(M, d) : l < r
    THEN Panics(M, "bug")
  ELSE IF Room(M, d) = {} THEN Panics(M, "oom")
  ELSE IF Cardinality(FreeSmall(M)) < (IF M.dir[d][s].frame = NoFrame THEN 2 ELSE 1)
    THEN Panics(M, "oom")
  ELSE IF M.dir[d][s].frame = NoFrame THEN MakeTable(M, d, s) ELSE M

TempLarge(M, d) ==
  IF FreeLarge(M) = {} \/ \A s \in UserSlots : M.dir[d][s].frame # NoFrame
    THEN Panics(M, "oom") ELSE M

\* With a bug: a page with two users is taken for the task's own.
StillSharedOff(M, f) == M.phys[f] > 2

StillShared(M, f) == M.phys[f] > 1

\* _clone_cow at a: whether the page can now be written, and the memory.  The
\* entry becomes writable before it is sure that there is a copy.
CloneCow(M, d, a) ==
  LET e    == Entry(M, d, a)
      M1   == SetEntry(M, d, a, [e EXCEPT !.rw = TRUE, !.cow = FALSE])
      free == IF e.large THEN FreeLarge(M) ELSE FreeSmall(M)
      f    == Min(free)
      M2   == Mark(M1, {f}, 1)
      M3   == IF e.large THEN TempLarge(M2, d) ELSE TempSmall(M2, d)
      M4   == SetEntry(M3, d, a, [e EXCEPT !.frame = f, !.rw = TRUE, !.cow = FALSE])
  IN  IF e.frame = NoFrame \/ e.rw \/ ~e.cow THEN [ok |-> FALSE, M |-> M]
      ELSE IF ~StillShared(M, e.frame) THEN [ok |-> TRUE, M |-> M1]
      ELSE IF free = {} THEN [ok |-> FALSE, M |-> M1]
      ELSE IF M3.panic # "no" THEN [ok |-> FALSE, M |-> M3]
      ELSE [ok |-> TRUE, M |-> [M4 EXCEPT !.phys[e.frame] = @ - 1,
                                          !.content[f] = M.content[e.frame]]]

(***************************************************************************)
(* Tasks                                                                   *)
(***************************************************************************)
MemoryInit ==
  /\ phys = InitPage
  /\ dir = << >> /\ table = << >>
  /\ content = [i \in Frames |-> 0]
  /\ panic = "no"
  /\ mm = [t \in Tasks |-> NoFrame]
  /\ mms = << >>
  /\ vidmaps = {} /\ video = Screen /\ heap = {}
  /\ subsystem = [t \in Tasks |-> "LINUX"]
  /\ doing = [t \in Tasks |-> User]
  /\ program = [t \in Tasks |-> << >>]
  /\ births = 0

\* current->mm loses a user; the last one frees the directory.
PutMm(M, t) ==
  IF mm[t] = NoFrame \/ mms[mm[t]].refcount > 1 THEN M ELSE FreeDirectory(M, mm[t])

\* With a bug: the mm_struct outlives its last user.
MmsKept(t) == IF mm[t] = NoFrame THEN mms ELSE [mms EXCEPT ![mm[t]].refcount = @ - 1]

\* The mm_structs, as they are then.
MmsLess(t) ==
  IF mm[t] = NoFrame THEN mms
  ELSE IF mms[mm[t]].refcount > 1 THEN [mms EXCEPT ![mm[t]].refcount = @ - 1]
  ELSE Without(mms, {mm[t]})

Lives(t) == panic = "no" /\ mm[t] # NoFrame
InUserMode(t) == Lives(t) /\ doing[t] = User
Linux(t) == InUserMode(t) /\ subsystem[t] = "LINUX"
Ece391(t) == InUserMode(t) /\ subsystem[t] = "ECE391"

\* A write by the program: the page fault handler copies the page and lets it
\* try again, or sends SIGSEGV, from which it dies.
UserWrite(t, a, v) ==
  LET e == Entry(Now, mm[t], a)
      c == CloneCow(Now, mm[t], a)
      f == Entry(c.M, mm[t], a).frame
  IN  /\ InUserMode(t)
      /\ e.large => a[2] = 0
      /\ <<t, mm[t], a>> \notin vidmaps
      /\ Roomy /\ e.cow => c.ok
      /\ IF e.rw THEN Becomes([Now EXCEPT !.content[e.frame] = v])
         ELSE Becomes(IF c.ok THEN [c.M EXCEPT !.content[f] = v] ELSE c.M)
      /\ doing' = [doing EXCEPT ![t] = IF e.rw \/ c.ok THEN User ELSE Doomed]
      /\ UNCHANGED <<mm, mms, vidmaps, video, heap, subsystem, program, births>>

\* A system call writes to the program's memory after safe_buf(a, n, true):
\* addr_is_safe asks for rw of a large page, and of a small one for rw of the
\* entry of its table, which is always set.  The processor does not hold the
\* kernel to the rw bits: CR0.WP is not set, and do_execve relies on it when
\* it reads a read-only segment.  So it writes to the frame, whoever else has it.
KernelWrite(t, a, v) ==
  LET e == Entry(Now, mm[t], a) IN
  /\ InUserMode(t)
  /\ e.frame # NoFrame /\ (e.large => e.rw /\ a[2] = 0)
  /\ <<t, mm[t], a>> \notin vidmaps
  /\ Becomes([Now EXCEPT !.content[e.frame] = v])
  /\ UNCHANGED <<mm, mms, vidmaps, video, heap, subsystem, doing, program, births>>

\* do_brk, in pages.
Brk(t, n) ==
  LET d   == mm[t]
      old == mms[d].brk
      to  == n % IndexWidth
      cur == old % IndexWidth
      r   == IF to > cur THEN RequestSmall(Now, d, cur, to - cur, TRUE)
             ELSE [ok |-> TRUE, M |-> IF n < old THEN FreePages(Now, d, to .. cur - 1) ELSE Now]
  IN  /\ Linux(t) /\ n # old
      /\ Becomes(r.M)
      /\ mms' = [mms EXCEPT ![d].brk = IF r.ok THEN n ELSE old]
      /\ UNCHANGED <<mm, vidmaps, video, heap, subsystem, doing, program, births>>

NotThere(c) == mm[c] = NoFrame /\ births < MaxBirths /\ births' = births + 1

\* do_clone without CLONE_VM: c gets a copy.
Clone(t, c) ==
  LET M == CloneDirectory(Now, mm[t])
      d == Min(FreeSmall(Now))
  IN  /\ NotThere(c)
      /\ Becomes(M)
      /\ IF M.panic = "no"
           THEN /\ mm' = [mm EXCEPT ![c] = d]
                /\ mms' = Put(mms, d, [refcount |-> 1, brk |-> mms[mm[t]].brk])
           ELSE UNCHANGED <<mm, mms>>
      /\ subsystem' = [subsystem EXCEPT ![c] = subsystem[t]]
      /\ UNCHANGED <<vidmaps, video, heap, program>>

Fork(t, c) ==
  /\ Linux(t) /\ Clone(t, c)
  /\ UNCHANGED doing

\* ECE391's execute: a copy of the task, as a kernel thread, that will exec.
\* ("The ECE391 task that holds this must not execute()", says remap_to_user, but
\* nothing keeps it from that.)
Execute(t, c) ==
  /\ Ece391(t) /\ Clone(t, c)
  /\ doing' = [doing EXCEPT ![t] = Wait(c), ![c] = Thread]

\* A signal ends execute's do_wait; the child goes on.
WaitInterrupted(t) ==
  /\ Lives(t)
  /\ \E c \in Tasks : doing[t] = Wait(c)
  /\ doing' = [doing EXCEPT ![t] = User]
  /\ UNCHANGED <<physvars, mm, mms, vidmaps, video, heap, subsystem, program, births>>

\* do_clone with CLONE_VM
Share(t, c) ==
  /\ Linux(t) /\ NotThere(c)
  /\ mm' = [mm EXCEPT ![c] = mm[t]]
  /\ mms' = [mms EXCEPT ![mm[t]].refcount = @ + 1]
  /\ subsystem' = [subsystem EXCEPT ![c] = subsystem[t]]
  /\ UNCHANGED <<physvars, vidmaps, video, heap, doing, program>>

\* do_execve, from the new page directory to the first read of a segment: by a
\* Linux program, execute's child, or a kernel thread that becomes a program.
Exec(t, prog) ==
  LET M1 == NewDirectory(Now)
      d  == Min(FreeSmall(Now))
      M2 == PutMm(M1, t)
  IN  /\ panic = "no"
      /\ mm[t] = NoFrame \/ Linux(t) \/ doing[t] = Thread
      /\ births < MaxBirths /\ births' = births + 1
      /\ Becomes(IF M1.panic = "no" THEN M2 ELSE M1)
      /\ IF M1.panic = "no"
           THEN /\ mm' = [mm EXCEPT ![t] = d]
                /\ mms' = Put(MmsLess(t), d, [refcount |-> 1, brk |-> 0])
           ELSE UNCHANGED <<mm, mms>>
      /\ subsystem' = [subsystem EXCEPT ![t] = prog.subsystem]
      /\ doing' = [doing EXCEPT ![t] = Load(1)]
      /\ program' = [program EXCEPT ![t] = prog.segments]
      /\ UNCHANGED <<vidmaps, video, heap>>

\* The next segment, or the stack, of the program: its pages, what the file
\* has for them, and the break after the data.  exec of an ECE391 program does
\* not look whether its page could be had.
LoadSegment(t) ==
  \E k \in DOMAIN program[t] :
    LET d   == mm[t]
        seg == program[t][k]
        i   == seg.slot * NumEntries + seg.page
        r   == IF seg.large THEN RequestLarge(Now, d, seg.slot)
               ELSE RequestSmall(Now, d, i, seg.num, seg.rw)
        F   == {Entry(r.M, d, <<seg.slot, p>>).frame : p \in seg.page .. seg.page + seg.num - 1}
        M   == [r.M EXCEPT !.content = [f \in Frames |-> IF f \in F THEN seg.data ELSE r.M.content[f]]]
        more == r.ok /\ k < Len(program[t])
    IN  /\ Lives(t) /\ doing[t] = Load(k)
        /\ Becomes(IF r.ok THEN M
                   ELSE IF subsystem[t] = "ECE391" THEN Panics(r.M, "oom") ELSE r.M)
        /\ mms' = IF r.ok /\ ~seg.large /\ seg.rw /\ (mms[d].brk = 0 \/ seg.bss)
                    THEN [mms EXCEPT ![d].brk = i + seg.num] ELSE mms
        /\ doing' = [doing EXCEPT ![t] = IF more THEN Load(k + 1) ELSE IF r.ok THEN User ELSE Doomed]
        /\ program' = [program EXCEPT ![t] = IF more THEN @ ELSE << >>]
        /\ UNCHANGED <<mm, vidmaps, video, heap, subsystem, births>>

\* With a bug: the task's vidmaps stay in its page tables.
UnmapVideoNot(M, t) == M

\* exit_vidmap_cb.  (It does nothing for a task without a terminal; vidmap gives such
\* a task nothing either, and a task that has a vidmap keeps its session and the
\* session its terminal until put_session, which do_exit calls later.)
UnmapVideo(M, t) ==
  LET at(f, p) == \E x \in vidmaps : x[1] = t /\ x[3][2] = p /\ M.dir[x[2]][x[3][1]].frame = f
  IN  [M EXCEPT !.table =
         [f \in DOMAIN M.table |-> [p \in Pages |->
            IF at(f, p) THEN Absent ELSE M.table[f][p]]]]

\* do_exit; a parent that waits in execute goes on.
Exit(t) ==
  /\ Lives(t) /\ doing[t] \in {User, Thread, Doomed}
  /\ Becomes(PutMm(UnmapVideo(Now, t), t))
  /\ mm' = [mm EXCEPT ![t] = NoFrame]
  /\ mms' = MmsLess(t)
  /\ vidmaps' = {x \in vidmaps : x[1] # t}
  /\ doing' = [u \in Tasks |-> IF u = t \/ doing[u] = Wait(t) THEN User ELSE doing[u]]
  /\ subsystem' = [subsystem EXCEPT ![t] = "LINUX"]
  /\ UNCHANGED <<video, heap, program, births>>

\* vidmap, with remap_to_user: a page is allocated in the first room there is,
\* its frame is freed, and its entry made to point at the terminal's memory; a task
\* may do so again.  (Without room it returns ENOMEM, or notes a vidmap without an
\* entry if there was something at *screen_start; that is left out.)
Vidmap(t) ==
  LET d == mm[t]
      M == TempSmall(Now, d)
      s == Min(Room(M, d))
      p == Min({p \in Pages : Entry(M, d, <<s, p>>).frame = NoFrame})
  IN  /\ Ece391(t)
      /\ Cardinality(vidmaps) < MaxVidmaps
      /\ M.panic # "oom"
      /\ IF M.panic = "no"
           THEN /\ Becomes(SetEntry(M, d, <<s, p>>, [Absent EXCEPT !.frame = video, !.rw = TRUE]))
                /\ vidmaps' = vidmaps \union {<<t, d, <<s, p>> >>}
           ELSE Becomes(M) /\ UNCHANGED vidmaps
      /\ UNCHANGED <<mm, mms, video, heap, subsystem, doing, program, births>>

\* remap_to_user for every vidmap of the terminal.
Remap(M, f) ==
  LET at(g, p) == \E x \in vidmaps : x[3][2] = p /\ M.dir[x[2]][x[3][1]].frame = g
  IN  [M EXCEPT !.table = [g \in DOMAIN M.table |-> [p \in Pages |->
         IF at(g, p) THEN [M.table[g][p] EXCEPT !.frame = f] ELSE M.table[g][p]]]]

\* tty_switch_foreground, as it meets a terminal that goes to the background
\* (its screen is saved in a page of the kernel's) or comes back.  Without a
\* vidmap this is nothing to the page tables, and is left out.
SwitchTerminal ==
  /\ panic = "no"
  /\ vidmaps # {} \/ video # Screen
  /\ IF video = Screen
       THEN IF FreeSmall(Now) = {} THEN Becomes(Panics(Now, "oom")) /\ UNCHANGED video
            ELSE /\ video' = Min(FreeSmall(Now))
                 /\ Becomes(Remap(Mark(Now, {video'}, KERNEL), video'))
       ELSE /\ video' = Screen
            /\ Becomes(Remap(FreeKernel(Now, {video}), Screen))
  /\ UNCHANGED <<mm, mms, vidmaps, heap, subsystem, doing, program, births>>

\* liballoc_alloc and liballoc_free, for one block of the heap; interrupt
\* handlers do so, too.
HeapAlloc ==
  /\ panic = "no" /\ heap = {} /\ Consecutive(Now, HeapBlock) # {}
  /\ LET i == Min(Consecutive(Now, HeapBlock)) IN heap' = i .. i + HeapBlock - 1
  /\ Becomes(Mark(Now, heap', KERNEL))
  /\ UNCHANGED <<mm, mms, vidmaps, video, subsystem, doing, program, births>>

HeapFree ==
  /\ panic = "no" /\ heap # {}
  /\ Becomes(FreeKernel(Now, heap))
  /\ heap' = {}
  /\ UNCHANGED <<mm, mms, vidmaps, video, subsystem, doing, program, births>>

MemoryNext ==
  \/ \E t \in Tasks :
       \/ \E a \in Addresses, v \in Values : UserWrite(t, a, v) \/ KernelWrite(t, a, v)
       \/ \E n \in Breaks : Brk(t, n)
       \/ \E c \in Tasks : Fork(t, c) \/ Share(t, c) \/ Execute(t, c)
       \/ \E prog \in Programs : Exec(t, prog)
       \/ LoadSegment(t)
       \/ WaitInterrupted(t)
       \/ Exit(t)
       \/ Vidmap(t)
  \/ SwitchTerminal
  \/ HeapAlloc
  \/ HeapFree

MemorySpec == MemoryInit /\ [][MemoryNext]_memoryvars

(***************************************************************************)
(* Properties                                                              *)
(***************************************************************************)
MemoryTypeOK ==
  /\ phys \in [Frames -> -2 .. Cardinality(Tasks)]
  /\ \A d \in DOMAIN dir : d \in SmallFrame /\ dir[d] \in [UserSlots -> Entries]
  /\ \A f \in DOMAIN table : f \in SmallFrame /\ table[f] \in [Pages -> Entries]
  /\ content \in [Frames -> Values]
  /\ panic \in {"no", "oom", "screen", "bug"}
  /\ mm \in [Tasks -> DOMAIN dir \union {NoFrame}]
  /\ DOMAIN mms = DOMAIN dir
  /\ \A d \in DOMAIN mms : mms[d] \in [refcount : 1 .. Cardinality(Tasks), brk : Nat]
  /\ \A x \in vidmaps : x \in Tasks \X (DOMAIN dir) \X (UserSlots \X Pages)
  /\ video \in Frames /\ heap \in SUBSET Frames
  /\ subsystem \in [Tasks -> Subsystems]
  /\ \A t \in Tasks : \/ doing[t] \in {User, Thread, Doomed} \union {Wait(c) : c \in Tasks}
                      \/ \E k \in DOMAIN program[t] : doing[t] = Load(k)
  /\ program \in [Tasks -> {p.segments : p \in Programs} \union {<< >>}]
  /\ births \in 0 .. MaxBirths

\* The directories that map frame f.
Holders(f) == {d \in DOMAIN dir : \E a \in Mapped(Now, d) : Entry(Now, d, a).frame = f}

\* The frames the kernel has given out to itself.
Owned == DOMAIN dir \union DOMAIN table \union heap \union ({video} \ {Screen})

\* phys_dir is right: a frame is the kernel's exactly while it holds a
\* directory, a table, the heap or a saved screen, and has otherwise as many
\* users as there are directories of living tasks that map it; none maps a
\* frame twice, or one of the kernel's, but the screen.  The entries for the
\* screen are the vidmaps', each of them its own, and a directory with vidmaps is
\* one task's.
CountsExact ==
  panic = "no" =>
    /\ \A f \in Frames :
         f >= Preallocated =>
           phys[f] = IF f \in Owned THEN KERNEL
                     ELSE IF Holders(f) = {} THEN InitPage[f] ELSE Cardinality(Holders(f))
    /\ \A d \in DOMAIN dir : \A a \in Mapped(Now, d) : \A b \in Mapped(Now, d) :
         /\ Entry(Now, d, a).frame = Entry(Now, d, b).frame /\ Entry(Now, d, a).frame # video => a = b
         /\ Entry(Now, d, a).frame \in Owned => Entry(Now, d, a).frame = video
    /\ DOMAIN table = UNION {Tables(Now, d) : d \in DOMAIN dir}
    /\ \A d \in DOMAIN dir : \A a \in Mapped(Now, d) :
         Entry(Now, d, a).frame = video <=> \E t \in Tasks : <<t, d, a>> \in vidmaps
    /\ \A x \in vidmaps : x[3] \in Mapped(Now, x[2]) /\ x[2] = mm[x[1]]
    /\ \A x \in vidmaps : \A y \in vidmaps : x[2] = y[2] => x[1] = y[1]
    /\ \A d \in DOMAIN dir : mms[d].refcount = Cardinality({t \in Tasks : mm[t] = d})

\* No memory is used both as a large frame and as a small one.
FramesDisjoint ==
  \A i \in SmallFrame :
    phys[i] > 0 \/ phys[i] = KERNEL => phys[i \div NumEntries] = UNUSED

\* The checks in use_phys_mem, free_phys_mem and find_userspace_page_table hold,
\* but for one: a program with a vidmap that executes another makes the kernel share
\* the screen's frame, and panic.
NoBug ==
  /\ panic # "bug"
  /\ panic = "screen" => \E x \in vidmaps, c \in Tasks : doing[x[1]] = Wait(c)

Unmapped == -1

\* What is at address a in directory d, as far as programs may rely on it.
ValueAt(d, a) ==
  LET e == Entry(Now, d, a) IN
  IF e.frame # NoFrame /\ (e.large => a[2] = 0) /\ ~\E x \in vidmaps : x[2] = d /\ x[3] = a
    THEN content[e.frame] ELSE Unmapped

\* Where two directories have the same page.
Twins ==
  {x \in Addresses \X (DOMAIN dir) \X (DOMAIN dir) :
     /\ x[2] # x[3]
     /\ ValueAt(x[2], x[1]) # Unmapped /\ ValueAt(x[3], x[1]) # Unmapped
     /\ Entry(Now, x[2], x[1]).frame = Entry(Now, x[3], x[1]).frame}

Private == INSTANCE PrivateMemory WITH
  Spaces  <- SmallFrame,
  NoSpace <- NoFrame,
  space   <- mm,
  memory  <- [d \in SmallFrame |->
                IF d \in DOMAIN dir THEN [a \in Addresses |-> ValueAt(d, a)]
                ELSE [a \in Addresses |-> Unmapped]],
  twins   <- Twins

\* Frames, counts and copy-on-write together give every program the private
\* memory it believes to have: what fork copied stays apart, what clone shares
\* stays together, and no other task's write, exec or exit changes it.  The one
\* exception is what system calls write; and that changes at most the copies that
\* fork made of the page and nobody has written to since.
ImplementsPrivateMemory ==
  /\ Private!PrivateInit
  /\ [][\/ Private!PrivateNext
        \/ \E t \in Tasks, a \in Addresses, v \in Values :
             Private!SystemWrite(t, a, v) /\ KernelWrite(t, a, v)]_(Private!memoryvars)

\* fork "get[s] new cow memory" (task/clone.c): what a system call writes for one
\* task is not seen in another's copy.  It is, see KernelWrite.
PrivateWrites ==
  [][\A t \in Tasks, a \in Addresses, v \in Values :
       KernelWrite(t, a, v) =>
         \A d \in DOMAIN dir \ {mm[t]}, b \in Addresses : ValueAt(d, b)' = ValueAt(d, b)]_memoryvars
=============================================================================
