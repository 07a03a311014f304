------------------------------ MODULE SeqLocks ------------------------------
(***************************************************************************)
(* 1_file_record_locking: the loop of SeqMain with each pair of lock       *)
(* routines of lock.c, and with those of 9_semaphores/pitfalls.  A process *)
(* may be killed anywhere and the program started again, with a process id *)
(* that was used before.                                                   *)
(***************************************************************************)
EXTENDS SeqMain

CONSTANTS Kinds   \* the lock routines, of Released and Left

\* The kernel gives these back when the holder exits: lockf, flock, and SEM_UNDO ...
Released == {"lockf", "flock", "sem_undo"}
\* ... and these outlive it: a file, or a semaphore without SEM_UNDO.
Left == {"link", "creat", "open", "sem"}

VARIABLES
  kind,     \* which routines the program is linked with
  taken,    \* the file is locked, the lock file exists, or the semaphore is 1
  temp,     \* the processes p whose file LCK<p> exists
  killed    \* history: a process was killed while it had the lock

lockVars == <<kind, taken, temp, killed>>
vars == <<lockVars, mainVars>>

LockInit == taken = FALSE /\ temp = {} /\ killed = FALSE

Init == kind \in Kinds /\ LockInit /\ MainInit

Start(p) == Begin(p, "lock") /\ UNCHANGED lockVars

-----------------------------------------------------------------------------
(* The lock routines *)

Takes == taken' = TRUE /\ UNCHANGED <<kind, temp, killed>>

\* lockf, flock and semop wait in the kernel; creat and open try again each second.
Lock(p) == kind # "link" /\ ~taken /\ Step(p, "lock", "read") /\ Takes

\* my_link_lock: creat(tempfile, 0444).  An existing file of that mode cannot be opened
\* for writing (the super-user's processes are left aside).
LinkCreat(p) ==
  /\ kind = "link"
  /\ Step(p, "lock", IF p \in temp THEN "can't creat temp file" ELSE "link")
  /\ temp' = temp \cup {p}
  /\ UNCHANGED <<kind, taken, killed>>

\* link(tempfile, LOCKFILE), until it does not exist.
LinkLink(p) == ~taken /\ Step(p, "link", "unlink_temp") /\ Takes

LinkUnlink(p) ==
  /\ Step(p, "unlink_temp", "read")
  /\ temp' = temp \ {p}
  /\ UNCHANGED <<kind, taken, killed>>

-----------------------------------------------------------------------------
(* main() *)

Increment(p) == Read(p) \/ Write(p, "unlock")

\* Bug: <= for < in the loop.
UnlockOnceMore(p) ==
  /\ At(p, "unlock", IF round[p] =< Rounds THEN "lock" ELSE "exit")
  /\ round' = [round EXCEPT ![p] = @ + 1]
  /\ taken' = FALSE
  /\ UNCHANGED <<kind, temp, killed, seqno, starts, file>>

\* The unlock routine: F_ULOCK, LOCK_UN, unlink or a semop.
Unlock(p) ==
  /\ NextRound(p, "unlock", "lock", "exit")
  /\ taken' = FALSE
  /\ UNCHANGED <<kind, temp, killed>>

Holders == {p \in Procs : main[p] \in {"unlink_temp", "read", "write", "unlock"}}

\* Bug: a lockf that is not given back at exit.
ExitKeeps(p) ==
  /\ Stop(p)
  /\ killed' = (killed \/ p \in Holders)
  /\ UNCHANGED <<kind, taken, temp>>

\* The end of main, an err_sys, or a signal at any point.
Exit(p) ==
  /\ Stop(p)
  /\ taken' = IF kind \in Released /\ p \in Holders THEN FALSE ELSE taken
  /\ killed' = (killed \/ p \in Holders)
  /\ UNCHANGED <<kind, temp>>

Run(p) == \/ Lock(p) \/ LinkCreat(p) \/ LinkLink(p) \/ LinkUnlink(p) \/ Unlock(p)
          \/ Increment(p) /\ UNCHANGED lockVars

Next == \E p \in Procs : Start(p) \/ Run(p) \/ Exit(p)

Spec == Init /\ [][Next]_vars

Ends(p) == main[p] \in {"exit", "can't creat temp file"}

-----------------------------------------------------------------------------
TypeOK ==
  /\ kind \in Kinds /\ taken \in BOOLEAN /\ temp \subseteq Procs /\ killed \in BOOLEAN
  /\ MainTypeOK
  /\ main \in [Procs -> {"stopped", "lock", "link", "unlink_temp", "read", "write",
                         "unlock", "exit", "can't creat temp file"}]

\* Nobody is inside, and nobody can get in any more.
Unheld == taken /\ Holders = {}

\* Each kind of lock admits one process at a time, and the process inside really has it,
\* even with a second incarnation of a killed process; and only a kill leaves a lock behind,
\* one that the kernel does not know to be held by a process.
OneAtATime ==
  /\ Cardinality(Holders) =< 1
  /\ Holders # {} => taken
  /\ Unheld => killed /\ kind \in Left

\* "If the temporary file already exists, the creat() will just truncate it to 0-length."
\* (lock.c:66-67)
TempFileReused == \A p \in Procs : main[p] # "can't creat temp file"
=============================================================================
