------------------------------- MODULE Lockfile -------------------------------
(***************************************************************************)
(* acquire_lockfile and release_lockfile of main.c: invocations of the     *)
(* program take turns with flock on a file that each creates when it is    *)
(* not there and removes when it is done.                                  *)
(*                                                                         *)
(* The file system is external: a name, /run/lock/nvram.lock, that is a    *)
(* link to an inode or is free; inodes, which live while they have the     *)
(* name or are open; an flock on each inode, released when its holder      *)
(* closes the file or dies.                                                *)
(***************************************************************************)
EXTENDS Integers

CONSTANTS
  Procs,    \* the invocations of the program
  Inodes,   \* enough of them for every invocation to have its own
  Retries,  \* the tries of acquire_lockfile, 10 in the code
  NoInode,  \* no link, no open file: FDLOCK is 0
  NoProc    \* holder of a free lock

ASSUME RetriesAssumption == Retries \in Nat \ {0}

ASSUME NoneAssumption == NoInode \notin Inodes /\ NoProc \notin Procs

VARIABLES
  path,    \* the inode NVRAM_LOCKFILE is a link to
  holder,  \* per inode, who holds its flock
  pc,      \* per invocation, where it is in the two functions
  fd,      \* per invocation, the inode it has open
  retries, \* per invocation, the variable of acquire_lockfile
  stolen   \* history: a remove hit an inode that another invocation had open

vars == <<path, holder, pc, fd, retries, stolen>>

PC == {"open", "flock", "sleep", "work", "close", "remove", "done"}

Init ==
  /\ path = NoInode
  /\ holder = [i \in Inodes |-> NoProc]
  /\ pc = [p \in Procs |-> "open"]
  /\ fd = [p \in Procs |-> NoInode]
  /\ retries = [p \in Procs |-> Retries]
  /\ stolen = FALSE

Goto(p, label) == pc' = [pc EXCEPT ![p] = label]

(* A return from acquire_lockfile without its close. *)
LeakFd(p) == UNCHANGED <<fd, holder>>

(* close(2), or the end of the process: the lock goes with the open file.  *)
CloseFd(p) ==
  /\ fd' = [fd EXCEPT ![p] = NoInode]
  /\ holder' = [i \in Inodes |-> IF holder[i] = p THEN NoProc ELSE holder[i]]

(* open(path, O_CREAT | O_WRONLY): the linked inode, or a new one.         *)
OpenLockfile(p) ==
  /\ pc[p] = "open"
  /\ \E i \in Inodes :
       /\ IF path = NoInode THEN \A q \in Procs : fd[q] # i ELSE i = path
       /\ path' = i
       /\ fd' = [fd EXCEPT ![p] = i]
  /\ Goto(p, "flock")
  /\ UNCHANGED <<holder, retries, stolen>>

OpenFails(p) ==
  /\ pc[p] = "open"
  /\ Goto(p, "done")
  /\ UNCHANGED <<path, holder, fd, retries, stolen>>

Granted(p) == holder[fd[p]] = NoProc

FlockTaken(p) ==
  /\ pc[p] = "flock"
  /\ Granted(p)
  /\ holder' = [holder EXCEPT ![fd[p]] = p]
  /\ retries' = [retries EXCEPT ![p] = @ - 1]
  /\ Goto(p, "work")
  /\ UNCHANGED <<path, fd, stolen>>

(* A while loop that never counts its turns. *)
CountTryNever(p) == UNCHANGED retries

CountTry(p) == retries' = [retries EXCEPT ![p] = @ - 1]

(* Without the test of the last try: the loop ends, and its end is success. *)
FlockBusyGoesOn(p) ==
  /\ pc[p] = "flock"
  /\ ~Granted(p)
  /\ CountTry(p)
  /\ Goto(p, IF retries[p] > 1 THEN "sleep" ELSE "work")
  /\ UNCHANGED <<path, holder, fd, stolen>>

(* EWOULDBLOCK with tries left: usleep, and once more. *)
FlockBusy(p) ==
  /\ pc[p] = "flock"
  /\ ~Granted(p)
  /\ retries[p] > 1
  /\ CountTry(p)
  /\ Goto(p, "sleep")
  /\ UNCHANGED <<path, holder, fd, stolen>>

WakeUp(p) ==
  /\ pc[p] = "sleep"
  /\ Goto(p, "flock")
  /\ UNCHANGED <<path, holder, fd, retries, stolen>>

(* EWOULDBLOCK on the last try, or another error on any: FDLOCK stays 0,   *)
(* and release_lockfile neither closes nor removes anything.               *)
FlockFails(p) ==
  /\ pc[p] = "flock"
  /\ CloseFd(p)
  /\ Goto(p, "done")
  /\ UNCHANGED <<path, retries, stolen>>

(* The operations of main between the two functions, good or bad.          *)
Work(p) ==
  /\ pc[p] = "work"
  /\ Goto(p, "close")
  /\ UNCHANGED <<path, holder, fd, retries, stolen>>

(* An error of close skips the remove, though the file is closed.          *)
CloseLockfile(p) ==
  /\ pc[p] = "close"
  /\ CloseFd(p)
  /\ \E label \in {"remove", "done"} : Goto(p, label)
  /\ UNCHANGED <<path, retries, stolen>>

(* remove(path), whichever inode that is by now; ENOENT if none.           *)
RemoveLockfile(p) ==
  /\ pc[p] = "remove"
  /\ path' = NoInode
  /\ stolen' = (stolen \/ (path # NoInode /\ \E q \in Procs \ {p} : fd[q] = path))
  /\ Goto(p, "done")
  /\ UNCHANGED <<holder, fd, retries>>

Crash(p) ==
  /\ pc[p] # "done"
  /\ CloseFd(p)
  /\ Goto(p, "done")
  /\ UNCHANGED <<path, retries, stolen>>

Acquire(p) ==
  \/ OpenLockfile(p)
  \/ OpenFails(p)
  \/ FlockTaken(p)
  \/ FlockBusy(p)
  \/ WakeUp(p)
  \/ FlockFails(p)

Next ==
  \E p \in Procs :
    \/ Acquire(p)
    \/ Work(p)
    \/ CloseLockfile(p)
    \/ RemoveLockfile(p)
    \/ Crash(p)

(* A runnable process runs and usleep returns.  Nothing is assumed of the  *)
(* holder's work: a device may keep it for as long as it likes.            *)
Fairness == \A p \in Procs : WF_vars(Acquire(p))

Spec == Init /\ [][Next]_vars /\ Fairness

-------------------------------------------------------------------------------

(* Every variable keeps its type, and an invocation has the lock file open *)
(* exactly from its open to its close.                                     *)
TypeOK ==
  /\ path \in Inodes \cup {NoInode}
  /\ holder \in [Inodes -> Procs \cup {NoProc}]
  /\ pc \in [Procs -> PC]
  /\ fd \in [Procs -> Inodes \cup {NoInode}]
  /\ \A p \in Procs : fd[p] # NoInode <=> pc[p] \in {"flock", "sleep", "work", "close"}
  /\ retries \in [Procs -> 0 .. Retries]
  /\ stolen \in BOOLEAN

InCritical(p) == pc[p] \in {"work", "close"}

(* Two invocations are never both between "locked" and the close of        *)
(* release_lockfile, where they read, change and write the store.          *)
MutualExclusion ==
  \A p, q \in Procs : InCritical(p) /\ InCritical(q) => p = q

(* The lock excludes as long as no remove takes the name from an inode     *)
(* that another invocation has opened: that race, between the close and    *)
(* the remove of release_lockfile, is the only way to break it.            *)
ExclusiveUnlessStolen == ~stolen => MutualExclusion

(* Two invocations alone exclude each other: when two are inside together, *)
(* a third has come and gone.                                              *)
RaceNeedsThird ==
  \A p, q \in Procs :
    InCritical(p) /\ InCritical(q) /\ p # q => \E r \in Procs \ {p, q} : pc[r] = "done"

(* An invocation waits only for one that is alive and inside: a lock file  *)
(* that is just lying there, left by one that was killed or whose close    *)
(* failed, is locked and not waited for.                                   *)
WaitsForHolder ==
  [][\A p \in Procs : pc[p] = "flock" /\ pc'[p] = "sleep" =>
       \E q \in Procs \ {p} : InCritical(q)]_vars

InAcquire(p) == pc[p] \in {"open", "flock", "sleep"}

(* acquire_lockfile comes back, with the lock or with an error, even when  *)
(* the holder of the lock never does.                                      *)
AcquireReturns ==
  \A p \in Procs : InAcquire(p) ~> ~InAcquire(p)
===============================================================================
