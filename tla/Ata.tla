-------------------------------- MODULE Ata --------------------------------
(***************************************************************************)
(* Reading a disk: ata_read of block/ata.c, its mutex (Mutex.tla), one     *)
(* drive on one channel and the channel's interrupt.                       *)
(*                                                                         *)
(* A reader takes ata_mutex, makes itself `in_service', and for each       *)
(* sector that is not in disk_cache issues a command and polls the drive,  *)
(* going to sleep between polls until the interrupt handler wakes          *)
(* in_service.  The drive works on its own, and its interrupt may be       *)
(* handled late: after the reader has already seen the data, or even after *)
(* it has left.  Signals play no part: the waits are uninterruptible.      *)
(***************************************************************************)
EXTENDS Mutex, Integers

CONSTANTS
  DiskSize,   \* the number of sectors of the drive
  NoTask,     \* in_service == NULL
  OpensBusy,  \* whether a drive may be opened while a read is under way
  Requests    \* what is read: pairs of a first and a last sector

ASSUME AtaAssumption ==
  /\ DiskSize \in Nat \ {0}
  /\ NoTask \notin Tasks
  /\ OpensBusy \in BOOLEAN
  /\ Requests \subseteq {r \in (0..DiskSize - 1) \X (0..DiskSize - 1) : r[1] <= r[2]}

VARIABLES
  in_service,  \* the task the interrupt handler wakes
  disk_cache,  \* for each sector, whose data is kept for it; -1 when nothing is
  io,          \* where in ata_read each task is, and the sectors it still wants
  drive,       \* the drive: the sector it was told to read, and its status
  irq          \* the drive's interrupt is raised and not handled yet

diskvars == <<in_service, disk_cache, io, drive, irq>>
atavars  == <<mutexvars, diskvars>>

Sectors == 0..DiskSize - 1

Stages == {"none", "loop", "poll", "block", "out"}

AtaTypeOK ==
  /\ MutexTypeOK
  /\ in_service \in Tasks \union {NoTask}
  /\ disk_cache \in [Sectors -> Sectors \union {-1}]
  /\ io \in [Tasks -> [stage : Stages, pos : Nat, end : Nat]]
  /\ drive \in [lba : Sectors, status : {"idle", "busy", "ready", "error"}]
  /\ irq \in BOOLEAN

AtaInit ==
  /\ MutexInit
  /\ in_service = NoTask
  /\ disk_cache = [s \in Sectors |-> -1]
  /\ io = [t \in Tasks |-> [stage |-> "none", pos |-> 0, end |-> 0]]
  /\ drive = [lba |-> 0, status |-> "idle"]
  /\ irq = FALSE

At(stage) == current \in Tasks /\ io[current].stage = stage
Goto(stage) == io' = [io EXCEPT ![current].stage = stage]
Wanted == io[current].pos

-----------------------------------------------------------------------------
\* ata_read(file, buf, nbytes): one of the Requests, the sectors pos .. end - 1
\* (the read is cut at the end of the drive), then
\* mutex_lock_uninterruptable(&ata_mutex).
Read ==
  /\ Lock
  /\ \E r \in Requests :
       io' = [io EXCEPT ![current] = [stage |-> "none", pos |-> r[1], end |-> r[2] + 1]]
  /\ UNCHANGED <<in_service, disk_cache, drive, irq>>

\* With a bug: the reader does not wait for the lock.
ClaimEarly ==
  /\ current \in Tasks /\ pc[current] = "check"
  /\ pc' = [pc EXCEPT ![current] = "hold"]
  /\ state' = [state EXCEPT ![current] = "RUNNING"]
  /\ in_service' = current
  /\ Goto("loop")
  /\ UNCHANGED <<schedvars, queue, pending, disk_cache, drive, irq>>

\* The lock is ours: in_service = current.
Claim ==
  /\ Acquire
  /\ in_service' = current
  /\ Goto("loop")
  /\ UNCHANGED <<disk_cache, drive, irq>>

\* while (nbytes): a cached sector is copied out.
Hit ==
  /\ At("loop") /\ Wanted < io[current].end
  /\ disk_cache[Wanted] # -1
  /\ io' = [io EXCEPT ![current].pos = @ + 1]
  /\ UNCHANGED <<mutexvars, in_service, disk_cache, drive, irq>>

\* ata_read_28: the command is sent.
Command ==
  /\ At("loop") /\ Wanted < io[current].end
  /\ disk_cache[Wanted] = -1
  /\ drive' = [lba |-> Wanted, status |-> "busy"]
  /\ Goto("poll")
  /\ UNCHANGED <<mutexvars, in_service, disk_cache, irq>>

\* No memory for the sector's buffer, or nothing left to read.
LoopEnds ==
  /\ At("loop")
  /\ Wanted < io[current].end => disk_cache[Wanted] = -1
  /\ Goto("out")
  /\ UNCHANGED <<mutexvars, in_service, disk_cache, drive, irq>>

\* ata_should_read found data: the sector is transferred and cached, unless
\* the drive reports an error at the end of the transfer.
Transfer ==
  /\ At("poll") /\ drive.status = "ready"
  /\ \/ /\ disk_cache' = [disk_cache EXCEPT ![Wanted] = drive.lba]
        /\ drive' = [drive EXCEPT !.status = "idle"]
        /\ Goto("loop")
     \/ /\ drive' = [drive EXCEPT !.status = "error"]
        /\ Goto("out")
        /\ UNCHANGED disk_cache
  /\ UNCHANGED <<mutexvars, in_service, irq>>

ReadError ==
  /\ At("poll") /\ drive.status = "error"
  /\ Goto("out")
  /\ UNCHANGED <<mutexvars, in_service, disk_cache, drive, irq>>

NotYet ==
  /\ At("poll") /\ drive.status \in {"busy", "idle"}
  /\ Goto("block")
  /\ UNCHANGED <<mutexvars, in_service, disk_cache, drive, irq>>

\* current->state = TASK_UNINTERRUPTIBLE; schedule(); back to the poll.
Block ==
  /\ At("block") /\ HoldAndWait
  /\ UNCHANGED diskvars

Unblock ==
  /\ At("block") /\ Resume
  /\ Goto("poll")
  /\ UNCHANGED <<in_service, disk_cache, drive, irq>>

\* With a bug: in_service is not reset.
DoneInService ==
  /\ At("out") /\ queue # <<>> /\ AtFront
  /\ Unlock
  /\ Goto("none")
  /\ UNCHANGED <<in_service, disk_cache, drive, irq>>

\* out: in_service = NULL; mutex_unlock(&ata_mutex).
Done ==
  /\ At("out") /\ queue # <<>> /\ AtFront
  /\ Unlock
  /\ in_service' = NoTask
  /\ Goto("none")
  /\ UNCHANGED <<disk_cache, drive, irq>>

\* ata_open of a drive that is not identified yet: ata_identify sends its
\* command and spins until the channel has data, which it takes.  It does not
\* take ata_mutex.
Identify ==
  /\ current \in Tasks /\ pc[current] = "out"
  /\ OpensBusy \/ in_service = NoTask
  /\ drive' = [drive EXCEPT !.status = "idle"]
  /\ irq' = TRUE
  /\ UNCHANGED <<mutexvars, in_service, disk_cache, io>>

-----------------------------------------------------------------------------
\* The drive: the sector is ready, or cannot be read; it interrupts.
DriveDone ==
  /\ drive.status = "busy"
  /\ \E s \in {"ready", "error"} : drive' = [drive EXCEPT !.status = s]
  /\ irq' = TRUE
  /\ UNCHANGED <<mutexvars, in_service, disk_cache, io>>

\* ata_handler
Handler ==
  /\ irq
  /\ irq' = FALSE
  /\ IF in_service # NoTask THEN WakeUp(in_service) ELSE UNCHANGED schedvars
  /\ UNCHANGED <<queue, state, pc, pending, in_service, disk_cache, io, drive>>

\* The rest of the system, which does not touch the disk.
Others ==
  /\ Leave \/ SwapperRuns \/ \E t \in Tasks : pc[t] = "out" /\ OtherWake(t)
  /\ UNCHANGED diskvars

\* A waiter in the mutex.
Waiter ==
  /\ MustWait \/ Sleep
  /\ UNCHANGED diskvars

-----------------------------------------------------------------------------
Reader ==
  \/ Claim \/ Hit \/ Command \/ LoopEnds \/ Transfer \/ ReadError \/ NotYet
  \/ Block \/ Unblock \/ Done \/ Waiter

AtaNext ==
  \/ Read \/ Reader \/ Identify
  \/ DriveDone \/ Handler \/ Others

AtaSpec == AtaInit /\ [][AtaNext]_atavars

\* The drive answers, its interrupt is taken, the running task goes on (a task
\* outside goes back to user mode or to sleep), and a ready task runs (Sched
\* serves the ready tasks in order: its QueuedRuns).
Runs(t) ==
  /\ \/ Block \/ (Sleep /\ UNCHANGED diskvars)
     \/ ((Leave \/ SwapperRuns) /\ UNCHANGED diskvars)
  /\ current' = t

AtaFairness ==
  /\ WF_atavars(DriveDone) /\ WF_atavars(Handler)
  /\ WF_atavars(Reader)
  /\ WF_atavars((Leave \/ SwapperRuns) /\ UNCHANGED diskvars)
  /\ \A t \in Tasks : SF_atavars(Runs(t))

AtaFairSpec == AtaSpec /\ AtaFairness

-----------------------------------------------------------------------------
\* ata_read's lock and in_service go together: the handler wakes the task at
\* the front of the mutex's queue, which is the one that issued the command,
\* and nobody when the lock is free.
ServesOwner ==
  in_service # NoTask =>
    /\ queue # <<>> /\ Head(queue) = in_service
    /\ io[in_service].stage \in Stages \ {"none"}

\* disk_cache never holds one sector's data under another's number, whatever
\* late or early interrupts do to the polling loop (there is no invalidation:
\* a wrong entry would stay for ever).
CacheTrue == \A s \in Sectors : disk_cache[s] \in {-1, s}

\* The check-then-sleep of ata_read_28 loses no interrupt: when a reader has
\* gone to sleep on a command, the drive is still at work, or the interrupt is
\* on its way, or the reader is about to run.
SleepIsAnswered ==
  \A t \in Tasks :
    pc[t] = "away" =>
      \/ drive.status = "busy" \/ irq
      \/ t \in ready \union {current}

\* `use mutex to resist other processes' (ata.c:250): the command a reader is
\* waiting for is its own, until the reader itself has taken the answer.
CommandIsMine ==
  in_service # NoTask /\ io[in_service].stage \in {"poll", "block"} =>
    /\ drive.lba = io[in_service].pos
    /\ drive.status # "idle"

\* Every read comes back, with the data or with an error.
ReadReturns ==
  \A t \in Tasks : pc[t] # "out" ~> pc[t] = "out"

\* ata_read uses its mutex as mutex.c expects: every step of the driver, its
\* interrupt included, is a step of Mutex or leaves the mutex alone.
UsesMutex == MutexSpec
=============================================================================
