------------------------------- MODULE Files -------------------------------
(***************************************************************************)
(* Who holds what: descriptor tables (struct files_struct), open files     *)
(* (struct file), terminals (struct tty), sessions (struct session) and    *)
(* UDP ports, all counted by hand.  From vfs/file.c, vfs/filesyscall.c,    *)
(* vfs/poll.c, char/tty.c, task/session.c, net/socket.c and what           *)
(* task/clone.c, task/exec.c, task/exit.c and main.c do with them.         *)
(*                                                                         *)
(* The kernel is not preempted, so a system call is one step unless it     *)
(* sleeps: read and poll are two steps.  Paths, inodes and data are left   *)
(* out: a file is a terminal's, a socket's or any other.                   *)
(*                                                                         *)
(* Three uses that the code does not guard against are opened by the       *)
(* constant Misuse, so that one can see what each of them breaks.          *)
(***************************************************************************)
EXTENDS Naturals, FiniteSets, FiniteSetsExt

CONSTANTS
  NumTasks,    \* bound: tasks ever born; task 1 is init
  NumTables,   \* bound: files_structs at a time
  NumFiles,    \* bound: open files at a time
  NumSessions, \* bound: sessions at a time
  MaxCalls,    \* bound: calls in a behaviour that tasks do not come and go by
  NumFds,      \* bound: descriptors in a table
  EceFds,      \* the descriptors that the ECE391 subsystem may have
  MaxEce,      \* its processes at a time
  Ttys,        \* names of terminals, of which one is the console
  Console,
  Ports,       \* UDP ports
  Misuse       \* "dup_self": dup2(fd, fd); "bind_taken": bind to a port that
               \* is taken; "close_under_reader": a table's file closed while
               \* a task that shares the table sleeps in read

None == 0
Tasks == 1 .. NumTasks
Tables == 1 .. NumTables
Files == 1 .. NumFiles
Sessions == 1 .. NumSessions
Fds == 0 .. NumFds - 1

\* A kernel thread's exec opens the descriptors 0, 1 and 2.
ASSUME FilesAssumption ==
  /\ {NumTasks, NumTables, NumFiles, NumSessions, NumFds} \subseteq Nat \ {0}
  /\ NumFds >= 3 /\ EceFds \in Nat /\ MaxEce \in Nat /\ MaxCalls \in Nat
  /\ Console \in Ttys /\ Ttys \intersect {"socket", "other", "none"} = {}
  /\ Ports \subseteq Nat \ {0}
  /\ Misuse \subseteq {"dup_self", "bind_taken", "close_under_reader"}

VARIABLES
  task,  \* of task_struct: status, mm (whether it is NULL), ece391, files, cwd,
         \* exe, session, pgid; execing: it runs ece391execute_child; reading:
         \* the file it sleeps on in read; polled: the files in its poll table
  table, \* files_struct: refs, fd (files) and cloexec
  heap,  \* the counted objects: file, tty and session, and port (udp_sockets)
  fg,    \* foreground_tty
  lost,  \* history: references to each session that were given up uncounted
  calls  \* number of calls on files, sessions and terminals, to bound them

filesvars == <<task, table, heap, fg, lost, calls>>

NoFile == [refs |-> 0, kind |-> "none", port |-> 0]
NoTty == [refs |-> 0, session |-> None]
NoSession == [refs |-> 0, sid |-> None, tty |-> "none"]
NoTable == [refs |-> 0, fd |-> [d \in Fds |-> None], cloexec |-> {}]
NoTask == [status |-> "free", mm |-> FALSE, execing |-> FALSE, ece391 |-> FALSE,
           files |-> None, cwd |-> None, exe |-> None, session |-> None, pgid |-> 0,
           reading |-> None, polled |-> [d \in Fds |-> None]]

FileKinds == Ttys \union {"socket", "other", "none"}

FilesTypeOK ==
  /\ task \in [Tasks ->
       [status : {"free", "alive", "zombie", "gone"}, mm : BOOLEAN, execing : BOOLEAN, ece391 : BOOLEAN,
        files : Tables \union {None}, cwd : Files \union {None}, exe : Files \union {None},
        session : Sessions \union {None}, pgid : 0 .. NumTasks,
        reading : Files \union {None}, polled : [Fds -> Files \union {None}]]]
  /\ table \in [Tables -> [refs : 0 .. NumTasks, fd : [Fds -> Files \union {None}],
                           cloexec : SUBSET Fds]]
  /\ heap.file \in [Files -> [refs : Nat, kind : FileKinds, port : Ports \union {0}]]
  /\ heap.tty \in [Ttys -> [refs : Nat, session : Sessions \union {None}]]
  /\ heap.session \in [Sessions -> [refs : Nat, sid : Tasks \union {None},
                                    tty : Ttys \union {"none"}]]
  /\ heap.port \in [Ports -> Files \union {None}]
  /\ fg \in Ttys /\ lost \in [Sessions -> Nat] /\ calls \in 0 .. MaxCalls

\* init has been made and is about to run kernel_dummy_init.
FilesInit ==
  /\ task = [t \in Tasks |-> IF t = 1 THEN [NoTask EXCEPT !.status = "alive"] ELSE NoTask]
  /\ table = [b \in Tables |-> NoTable]
  /\ heap = [file    |-> [f \in Files |-> NoFile],
             tty     |-> [y \in Ttys |-> IF y = Console THEN [NoTty EXCEPT !.refs = 1] ELSE NoTty],
             session |-> [s \in Sessions |-> NoSession],
             port    |-> [p \in Ports |-> None]]
  /\ fg = Console
  /\ lost = [s \in Sessions |-> 0]
  /\ calls = 0

(***************************************************************************)
(* Counting.  H is a heap; c gives a number of references for each file.   *)
(***************************************************************************)
One(x) == [f \in Files |-> IF f = x THEN 1 ELSE 0]
Plus(c, d) == [f \in Files |-> c[f] + d[f]]

\* The references that a set of slots holds.
In(slots, D) == [f \in Files |-> Cardinality({d \in D : slots[d] = f})]

Taken(H, c) ==
  [H EXCEPT !.file = [f \in Files |-> [H.file[f] EXCEPT !.refs = H.file[f].refs + c[f]]]]

\* tty_put: the last one frees the terminal.
PutTty(tty, y, n) ==
  IF y \notin Ttys \/ n = 0 THEN tty
  ELSE IF tty[y].refs = n THEN [tty EXCEPT ![y] = NoTty]
  ELSE [tty EXCEPT ![y].refs = @ - n]

\* udp_release
Unbound(H, gone) ==
  [p \in Ports |-> IF \E f \in gone : H.file[f].port = p THEN None ELSE H.port[p]]

\* filp_close, as often as c says for each file, with the release functions.
Closed(H, c) ==
  LET gone == {f \in Files : c[f] > 0 /\ H.file[f].refs = c[f]}
      Open(y) == Cardinality({f \in gone : H.file[f].kind = y})
  IN  [H EXCEPT
        !.file = [f \in Files |-> IF f \in gone THEN NoFile
                                 ELSE [H.file[f] EXCEPT !.refs = H.file[f].refs - c[f]]],
        !.tty  = [y \in Ttys |-> PutTty(H.tty, y, Open(y))[y]],
        !.port = Unbound(H, gone)]

FreeFiles(H) == {f \in Files : H.file[f].refs = 0}

\* The condition in tty_open for the terminal to become the session's.
MayTake(H, t, y) ==
  LET s == task[t].session IN
  /\ s # None /\ H.session[s].tty = "none" /\ H.tty[y].session = None
  /\ H.session[s].sid = t

\* filp_open with c references, filp_open_anondevice, tty_open and udp_open.
Opened(H, t, f, kind, c, noctty) ==
  LET s     == task[t].session
      takes == kind \in Ttys /\ MayTake(H, t, kind) /\ ~noctty
  IN  [H EXCEPT
        !.file[f] = [refs |-> c, kind |-> kind, port |-> 0],
        !.tty = IF takes THEN [H.tty EXCEPT ![kind] = [refs |-> H.tty[kind].refs + 2, session |-> s]]
                ELSE IF kind \in Ttys THEN [H.tty EXCEPT ![kind].refs = H.tty[kind].refs + 1]
                ELSE H.tty,
        !.session = IF takes THEN [H.session EXCEPT ![s].tty = kind] ELSE H.session]

\* The dev file TTY_CURRENT stands for the terminal of the session.
CurrentTty(t) ==
  IF task[t].session = None THEN "none" ELSE heap.session[task[t].session].tty

\* With a bug: the session gives its terminal up, and the terminal keeps it.
PutSessionHalf(H, s) ==
  IF s = None THEN H
  ELSE IF H.session[s].refs > 1 THEN [H EXCEPT !.session[s].refs = @ - 1]
  ELSE [H EXCEPT !.session[s] = NoSession, !.tty = PutTty(H.tty, H.session[s].tty, 1)]

\* put_session
PutSession(H, s) ==
  LET y == H.session[s].tty
      left(z) == IF z = y /\ H.tty[z].session = s THEN [H.tty[z] EXCEPT !.session = None] ELSE H.tty[z]
  IN
  IF s = None THEN H
  ELSE IF H.session[s].refs > 1 THEN [H EXCEPT !.session[s].refs = @ - 1]
  ELSE [H EXCEPT !.session[s] = NoSession, !.tty = PutTty([z \in Ttys |-> left(z)], y, 1)]

(***************************************************************************)
(* Descriptors                                                             *)
(***************************************************************************)
Idle(t) ==
  /\ task[t].status = "alive" /\ task[t].reading = None
  /\ \A d \in Fds : task[t].polled[d] = None

Counted == calls < MaxCalls /\ calls' = calls + 1

\* A task in user mode, that makes a system call.
Calls(t) == Idle(t) /\ task[t].mm /\ ~task[t].execing
Linux(t) == Calls(t) /\ ~task[t].ece391

Descriptors(t) == table[task[t].files].fd
Free(t, from) == {d \in Fds : d >= from /\ Descriptors(t)[d] = None}

\* do_sys_openat: the least free descriptor.  The ECE391 subsystem's open
\* closes the file again when that is too large for it.
OpenFile(t) ==
  /\ Calls(t) /\ FreeFiles(heap) # {} /\ Free(t, 0) # {}
  /\ \E kind \in FileKinds \ {"socket", "none"}, noctty, cloexec \in BOOLEAN :
       LET f == Min(FreeFiles(heap))
           d == Min(Free(t, 0))
           H == Opened(heap, t, f, kind, 1, noctty)
       IN  /\ task[t].ece391 => ~noctty /\ cloexec
           /\ kind \notin Ttys => ~noctty
           /\ IF task[t].ece391 /\ d >= EceFds
                THEN heap' = Closed(H, One(f)) /\ UNCHANGED table
                ELSE /\ heap' = H
                     /\ table' = [table EXCEPT
                          ![task[t].files].fd[d] = f,
                          ![task[t].files].cloexec = IF cloexec THEN @ \union {d} ELSE @ \ {d}]
  /\ Counted
  /\ UNCHANGED <<task, fg, lost>>

\* socket; an ECE391 program has no such call.
Socket(t, cloexec) ==
  /\ Linux(t) /\ FreeFiles(heap) # {} /\ Free(t, 0) # {}
  /\ LET f == Min(FreeFiles(heap))
         d == Min(Free(t, 0))
     IN  /\ heap' = Opened(heap, t, f, "socket", 1, TRUE)
         /\ table' = [table EXCEPT
              ![task[t].files].fd[d] = f,
              ![task[t].files].cloexec = IF cloexec THEN @ \union {d} ELSE @ \ {d}]
  /\ Counted
  /\ UNCHANGED <<task, fg, lost>>

\* do_sys_close; the ECE391 subsystem does not close 0 and 1.
CloseFile(t, d) ==
  LET f == Descriptors(t)[d] IN
  /\ Calls(t) /\ f # None /\ (task[t].ece391 => d > 1)
  /\ "close_under_reader" \in Misuse \/ \A u \in Tasks : task[u].reading # f
  /\ heap' = Closed(heap, One(f))
  /\ table' = [table EXCEPT ![task[t].files].fd[d] = None,
                            ![task[t].files].cloexec = @ \ {d}]
  /\ Counted
  /\ UNCHANGED <<task, fg, lost>>

\* With a bug: the new descriptor does not count.
CopiedUncounted(H, f) == H

\* atomic_inc(&file->refcount)
Copied(H, f) == Taken(H, One(f))

\* dup2: what was open as `new' is closed first.
Dup2(t, old, new) ==
  LET f == Descriptors(t)[old]
      g == Descriptors(t)[new]
  IN  /\ Linux(t) /\ f # None
      /\ "dup_self" \in Misuse \/ old # new
      /\ "close_under_reader" \in Misuse \/ \A u \in Tasks : g = None \/ task[u].reading # g
      /\ heap' = Copied(IF g = None THEN heap ELSE Closed(heap, One(g)), f)
      /\ table' = [table EXCEPT
           ![task[t].files].fd[new] = f,
           ![task[t].files].cloexec = IF old \in @ THEN @ \union {new} ELSE @ \ {new}]
      /\ Counted
      /\ UNCHANGED <<task, fg, lost>>

\* fcntl64, F_DUPFD and F_DUPFD_CLOEXEC
DupFd(t, fd, from, cloexec) ==
  LET f == Descriptors(t)[fd]
      d == Min(Free(t, from))
  IN  /\ Linux(t) /\ f # None /\ Free(t, from) # {}
      /\ heap' = Copied(heap, f)
      /\ table' = [table EXCEPT
           ![task[t].files].fd[d] = f,
           ![task[t].files].cloexec = IF cloexec \/ fd \in @ THEN @ \union {d} ELSE @ \ {d}]
      /\ Counted
      /\ UNCHANGED <<task, fg, lost>>

\* F_SETFD
SetFd(t, d, cloexec) ==
  /\ Linux(t) /\ Descriptors(t)[d] # None
  /\ cloexec # (d \in table[task[t].files].cloexec)
  /\ table' = [table EXCEPT ![task[t].files].cloexec = IF cloexec THEN @ \union {d} ELSE @ \ {d}]
  /\ Counted
  /\ UNCHANGED <<task, heap, fg, lost>>

Chdir(t) ==
  /\ Linux(t) /\ FreeFiles(heap) # {}
  /\ LET f == Min(FreeFiles(heap)) IN
       /\ heap' = Closed(Opened(heap, t, f, "other", 1, TRUE), One(task[t].cwd))
       /\ task' = [task EXCEPT ![t].cwd = f]
  /\ Counted
  /\ UNCHANGED <<table, fg, lost>>

\* do_sys_read of a file that has no input yet: the task sleeps, and has not
\* counted its use of the file.
ReadSleeps(t, d) ==
  /\ Calls(t) /\ Descriptors(t)[d] # None /\ heap.file[Descriptors(t)[d]].kind # "other"
  /\ task' = [task EXCEPT ![t].reading = Descriptors(t)[d]]
  /\ Counted
  /\ UNCHANGED <<table, heap, fg, lost>>

ReadReturns(t) ==
  /\ task[t].reading # None
  /\ task' = [task EXCEPT ![t].reading = None]
  /\ UNCHANGED <<calls, table, heap, fg, lost>>

\* poll, of all descriptors: it counts its uses.
PollSleeps(t) ==
  /\ Linux(t) /\ \E d \in Fds : Descriptors(t)[d] # None
  /\ heap' = Taken(heap, In(Descriptors(t), Fds))
  /\ task' = [task EXCEPT ![t].polled = Descriptors(t)]
  /\ Counted
  /\ UNCHANGED <<table, fg, lost>>

PollReturns(t) ==
  /\ \E d \in Fds : task[t].polled[d] # None
  /\ heap' = Closed(heap, In(task[t].polled, Fds))
  /\ task' = [task EXCEPT ![t].polled = [d \in Fds |-> None]]
  /\ UNCHANGED <<calls, table, fg, lost>>

FreePorts(H) == {q \in Ports : H.port[q] = None}

\* bind, to a port or (when p is 0) to any that is free; no other socket is
\* asked whether it has the port.
Bind(t, d, p) ==
  LET f == Descriptors(t)[d]
      own == heap.file[f].port
  IN  /\ Linux(t) /\ f # None /\ heap.file[f].kind = "socket"
      /\ p # 0 => "bind_taken" \in Misuse \/ heap.port[p] \in {None, f}
      /\ \E q \in IF p # 0 THEN {p} ELSE IF own # 0 THEN {own} ELSE FreePorts(heap) :
           heap' = [heap EXCEPT
             !.file[f].port = q,
             !.port = [r \in Ports |-> IF r = q THEN f ELSE IF r = own THEN None
                                       ELSE heap.port[r]]]
      /\ Counted
      /\ UNCHANGED <<task, table, fg, lost>>

(***************************************************************************)
(* Tasks                                                                   *)
(***************************************************************************)
\* do_clone, by kernel_thread and by the system calls: the table is copied or
\* shared (CLONE_FILES).  An ECE391 program only makes a task that executes
\* another, in a process group of its own (and waits for it, which is left out).
Clone(t, share) ==
  LET new   == {u \in Tasks : task[u].status = "free"}
      c     == Min(new)
      mine  == task[t].files
      room  == {b \in Tables : table[b].refs = 0}
      b     == IF mine = None \/ share THEN mine ELSE Min(room)
      slots == IF b = mine THEN One(None) ELSE In(Descriptors(t), Fds)
      s     == task[t].session
  IN  /\ Idle(t) /\ new # {}
      /\ ~task[t].execing
      /\ (mine = None => share) /\ (task[t].ece391 => ~share)
      /\ share \/ room # {}
      /\ task' = [task EXCEPT ![c] =
           [task[t] EXCEPT !.files = b, !.execing = task[t].ece391,
                           !.pgid = IF task[t].ece391 THEN c ELSE @]]
      /\ table' = IF b = None THEN table
                  ELSE IF b = mine THEN [table EXCEPT ![b].refs = @ + 1]
                  ELSE [table EXCEPT ![b] = [table[mine] EXCEPT !.refs = 1]]
      /\ heap' = LET H == Taken(heap, Plus(slots, Plus(One(task[t].cwd), One(task[t].exe))))
                 IN  IF s = None THEN H ELSE [H EXCEPT !.session[s].refs = @ + 1]
      /\ UNCHANGED <<fg, lost, calls>>

\* The descriptors that exec closes, also in a table that others share.
Cloexec(t) == {d \in table[task[t].files].cloexec : Descriptors(t)[d] # None}

EceTasks(t) == {u \in Tasks \ {t} : task[u].status \in {"alive", "zombie"}
                                    /\ task[u].mm /\ task[u].ece391}

\* do_execve by a task that has a descriptor table; the new program is of
\* either subsystem.
Exec(t, ece391) ==
  /\ Linux(t) \/ (Idle(t) /\ task[t].execing)
  /\ FreeFiles(heap) # {}
  /\ ece391 => Cardinality(EceTasks(t)) < MaxEce
  /\ "close_under_reader" \in Misuse
       \/ \A u \in Tasks, d \in Cloexec(t) : task[u].reading # Descriptors(t)[d]
  /\ LET f == Min(FreeFiles(heap))
         H == Opened(heap, t, f, "other", 1, TRUE)
     IN  /\ heap' = Closed(H, Plus(One(task[t].exe), In(Descriptors(t), Cloexec(t))))
         /\ task' = [task EXCEPT ![t].exe = f, ![t].ece391 = ece391,
                                 ![t].execing = FALSE]
  /\ table' = [table EXCEPT
       ![task[t].files].fd = [d \in Fds |-> IF d \in Cloexec(t) THEN None ELSE @[d]],
       ![task[t].files].cloexec = @ \ Cloexec(t)]
  /\ Counted
  /\ UNCHANGED <<fg, lost>>

\* do_execve by a kernel thread: it gets the root for its cwd, and descriptors
\* for the terminal of its session, one file for all of them or one for each.
\* (A session without a terminal would leave error pointers in the table.)
ExecFirst(t, ece391) ==
  LET y     == CurrentTty(t)
      n     == IF ece391 THEN 2 ELSE 1
      F     == FreeFiles(heap)
      f(i)  == CHOOSE x \in F : Cardinality({z \in F : z < x}) = i
      b     == Min({x \in Tables : table[x].refs = 0})
      H     == Opened(Opened(heap, t, f(0), "other", 1, TRUE), t, f(1), "other", 1, TRUE)
      G     == Opened(H, t, f(2), y, IF ece391 THEN 1 ELSE 3, TRUE)
  IN  /\ Idle(t) /\ ~task[t].mm /\ task[t].files = None /\ y # "none"
      /\ ece391 => Cardinality(EceTasks(t)) < MaxEce
      /\ Cardinality(F) >= n + 2 /\ \E x \in Tables : table[x].refs = 0
      /\ heap' = IF ece391 THEN Opened(G, t, f(3), y, 1, TRUE) ELSE G
      /\ table' = [table EXCEPT ![b] =
           [refs |-> 1, cloexec |-> {},
            fd |-> [d \in Fds |-> CASE ece391 /\ d < 2 -> f(2 + d)
                                    [] ~ece391 /\ d < 3 -> f(2)
                                    [] OTHER -> None]]]
      /\ task' = [task EXCEPT ![t].files = b, ![t].exe = f(0), ![t].cwd = f(1),
                              ![t].mm = TRUE, ![t].ece391 = ece391]
      /\ UNCHANGED <<fg, lost, calls>>

\* do_exit; it forgets none of its references, and its session.
Exit(t) ==
  LET b    == task[t].files
      last == b # None /\ table[b].refs = 1
      c    == Plus(One(task[t].cwd), One(task[t].exe))
      H    == PutSession(Closed(heap, c), task[t].session)
  IN  /\ Idle(t) /\ t # 1
      /\ heap' = IF last THEN Closed(H, In(Descriptors(t), Fds)) ELSE H
      /\ table' = IF b = None THEN table
                  ELSE IF last THEN [table EXCEPT ![b] = NoTable]
                  ELSE [table EXCEPT ![b].refs = @ - 1]
      /\ task' = [task EXCEPT ![t] = [NoTask EXCEPT !.status = "zombie",
                                        !.mm = task[t].mm, !.ece391 = task[t].ece391]]
      /\ UNCHANGED <<fg, lost, calls>>

\* _do_wait
Reap(t) ==
  /\ task[t].status = "zombie"
  /\ task' = [task EXCEPT ![t] = [NoTask EXCEPT !.status = "gone"]]
  /\ UNCHANGED <<table, heap, fg, lost, calls>>

\* do_setsid: the session that the task was in keeps its reference.
Setsid(t) ==
  /\ Linux(t) \/ (Idle(t) /\ ~task[t].mm /\ task[t].session = None)
  /\ \A u \in Tasks : task[u].pgid # t
  /\ \E x \in Sessions : heap.session[x].refs = 0
  /\ LET s == Min({x \in Sessions : heap.session[x].refs = 0}) IN
       /\ heap' = [heap EXCEPT !.session[s] = [refs |-> 1, sid |-> t, tty |-> "none"]]
       /\ task' = [task EXCEPT ![t].session = s, ![t].pgid = t]
  /\ lost' = IF task[t].session = None THEN lost
             ELSE [lost EXCEPT ![task[t].session] = @ + 1]
  /\ UNCHANGED <<table, fg, calls>>

\* do_setpgid(u, g)
Setpgid(t, u, g) ==
  /\ Linux(t) /\ task[u].status = "alive" /\ task[g].status = "alive"
  /\ task[u].session # None /\ task[u].session = task[g].session
  /\ heap.session[task[u].session].sid # u
  /\ task' = [task EXCEPT ![u].pgid = g]
  /\ Counted
  /\ UNCHANGED <<table, heap, fg, lost>>

\* The shepherd of a terminal and kernel_dummy_init, after do_setsid: they open a
\* terminal and close it at once, so that it becomes their session's.
TtyOpensOnce(t, y) ==
  /\ Idle(t) /\ ~task[t].mm /\ task[t].pgid = t /\ CurrentTty(t) = "none"
  /\ FreeFiles(heap) # {}
  /\ LET f == Min(FreeFiles(heap))
     IN  heap' = Closed(Opened(heap, t, f, y, 1, FALSE), One(f))
  /\ UNCHANGED <<task, table, fg, lost, calls>>

\* tty_switch_foreground
SwitchForeground(y) ==
  /\ y # fg
  /\ fg' = y
  /\ LET tty == [heap.tty EXCEPT ![y].refs = @ + 1]
     IN  heap' = [heap EXCEPT !.tty = PutTty(tty, fg, 1)]
  /\ Counted
  /\ UNCHANGED <<task, table, lost>>

FilesNext ==
  \/ \E t \in Tasks :
       \/ OpenFile(t) \/ Chdir(t) \/ ReadReturns(t) \/ PollSleeps(t) \/ PollReturns(t)
       \/ Exit(t) \/ Reap(t) \/ Setsid(t)
       \/ \E d \in Fds : CloseFile(t, d) \/ ReadSleeps(t, d)
       \/ \E d, e \in Fds : Dup2(t, d, e)
       \/ \E d \in Fds, e \in {0, NumFds - 1}, cloexec \in BOOLEAN : DupFd(t, d, e, cloexec)
       \/ \E d \in Fds, cloexec \in BOOLEAN : SetFd(t, d, cloexec)
       \/ \E d \in Fds, p \in Ports \union {0} : Bind(t, d, p)
       \/ \E cloexec \in BOOLEAN : Socket(t, cloexec)
       \/ \E share \in BOOLEAN : Clone(t, share)
       \/ \E ece391 \in BOOLEAN : Exec(t, ece391) \/ ExecFirst(t, ece391)
       \/ \E u, g \in Tasks : Setpgid(t, u, g)
       \/ \E y \in Ttys : TtyOpensOnce(t, y)
  \/ \E y \in Ttys : SwitchForeground(y)

FilesSpec == FilesInit /\ [][FilesNext]_filesvars

(***************************************************************************)
(* Properties                                                              *)
(***************************************************************************)
Alive == {t \in Tasks : task[t].status = "alive"}

Holders(f) ==
  Cardinality({t \in Alive : task[t].cwd = f}) + Cardinality({t \in Alive : task[t].exe = f})
  + Cardinality({p \in Tables \X Fds : table[p[1]].refs > 0 /\ table[p[1]].fd[p[2]] = f})
  + Cardinality({p \in Alive \X Fds : task[p[1]].polled[p[2]] = f})

\* Every count is the number of those who hold a reference, through every order
\* of open, dup, close, poll, clone, exec, exit, setsid and terminal switches.
\* An object is released when its last holder lets go: neither sooner, under
\* somebody who uses it, nor never.  Only setsid breaks it: it gives up a session
\* without counting.
CountsMatch ==
  /\ \A f \in Files : heap.file[f].refs = Holders(f)
  /\ \A b \in Tables : table[b].refs = Cardinality({t \in Alive : task[t].files = b})
  /\ \A y \in Ttys :
       heap.tty[y].refs = Cardinality({f \in Files : heap.file[f].kind = y})
         + Cardinality({s \in Sessions : heap.session[s].tty = y}) + (IF fg = y THEN 1 ELSE 0)
  /\ \A s \in Sessions :
       heap.session[s].refs = Cardinality({t \in Alive : task[t].session = s}) + lost[s]

\* Nobody holds a file that has been released, and what is pointed at without
\* being counted is there nevertheless: the file that a reader sleeps on; the
\* socket that a port leads to, which is the one that holds the port; the session
\* of a terminal, which is the one that has it (the comment in tty_open: "the
\* reference would be held until the session is destroyed, which requires 0
\* reference").
NothingDangles ==
  /\ \A f \in Files : heap.file[f].refs > 0 => heap.file[f].kind # "none"
  /\ \A t \in Alive : task[t].reading # None => heap.file[task[t].reading].refs > 0
  /\ \A p \in Ports, f \in Files : heap.port[p] = f <=> heap.file[f].port = p
  /\ \A y \in Ttys, s \in Sessions : heap.tty[y].session = s <=> heap.session[s].tty = y
=============================================================================
