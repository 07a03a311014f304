----------------------------- MODULE Semaphore -----------------------------
(***************************************************************************)
(* semaphore.c: Dijkstra semaphores over a System V semaphore set of three *)
(* members.  [0] is the semaphore's value, [1] counts down from BIGCOUNT   *)
(* the processes that use it, [2] is a lock held by sem_create and         *)
(* sem_close.  One action is one system call, because the kernel runs each *)
(* of them atomically and schedules another process between any two.       *)
(*                                                                         *)
(* The kernel's part (a set of one key, its adjustment values, removal and *)
(* the undo at process exit) is the part of SysV IPC the code relies on.   *)
(***************************************************************************)
EXTENDS Integers, FiniteSets

CONSTANTS
  Procs,      \* the processes that use the key
  Openers,    \* those that call sem_open rather than sem_create
  Removers,   \* those that may call sem_rm while others use the set
  Initval,    \* the initval argument of sem_create
  OpValues,   \* the value arguments of sem_op that the callers use
  BIGCOUNT,   \* initial value of the process counter
  SEMVMX      \* the kernel's largest value of a semaphore and of an adjustment

ASSUME ProcsAssumption == IsFiniteSet(Procs)
ASSUME CallersAssumption == Openers \subseteq Procs /\ Removers \subseteq Procs
ASSUME BoundsAssumption ==
  /\ BIGCOUNT \in Nat /\ SEMVMX \in Nat /\ Initval \in Nat
  /\ Cardinality(Procs) < BIGCOUNT
  /\ BIGCOUNT =< SEMVMX
  /\ Initval =< SEMVMX
ASSUME OpValuesAssumption == OpValues \subseteq Int

VARIABLES
  live,     \* the kernel has a set for the key
  semval,   \* the values of its members
  semadj,   \* the adjustments it will make when a process exits
  held,     \* whether the semid a process has is the current set's
  pc        \* where a process is in the functions of semaphore.c

kernelVars == <<live, semval, semadj>>
semVars == <<live, semval, semadj, held, pc>>

Members == 0 .. 2
Zeros == [i \in Members |-> 0]

\* sem_create runs c_lock .. c_end, sem_open o_open, sem_close x_lock .. x_unlock.
Creating == {"again", "c_lock", "c_sleep", "c_getval", "c_set0", "c_set1", "c_end"}
Closing  == {"x_lock", "x_getval", "x_rm", "x_unlock"}
Locked   == {"c_getval", "c_set0", "c_set1", "c_end", "x_getval", "x_rm", "x_unlock"}
Using    == {"open", "x_lock"}
\* err_sys and err_dump print the message and end the process.
Failures == {"can't lock", "can't GETVAL", "can't SETVAL", "can't end create",
             "can't open", "can't IPC_RMID", "can't semop", "can't unlock",
             "sem_op error", "err_dump"}
Points   == {"idle", "o_open"} \cup Creating \cup Closing \cup Using \cup Failures

Init ==
  /\ live = FALSE
  /\ semval = Zeros
  /\ semadj = [p \in Procs |-> Zeros]
  /\ held = [p \in Procs |-> "none"]
  /\ pc = [p \in Procs |-> "idle"]

-----------------------------------------------------------------------------
(* The kernel *)

Valid(p) == held[p] = "current"

Goto(p, where) == pc' = [pc EXCEPT ![p] = where]

\* A semop that succeeds: every operation of the array carries SEM_UNDO, except
\* the waits for zero, which change nothing.
Semop(p, d0, d1, d2) ==
  /\ semval' = [semval EXCEPT ![0] = @ + d0, ![1] = @ + d1, ![2] = @ + d2]
  /\ semadj' = [semadj EXCEPT ![p][0] = @ - d0, ![p][1] = @ - d1, ![p][2] = @ - d2]

\* SETVAL also clears every process's adjustment of that member.
SetVal(i, v) ==
  /\ semval' = [semval EXCEPT ![i] = v]
  /\ semadj' = [q \in Procs |-> [semadj[q] EXCEPT ![i] = 0]]

\* IPC_RMID: every semid of the set is invalid from now on.
Remove ==
  /\ live' = FALSE
  /\ semval' = Zeros
  /\ semadj' = [q \in Procs |-> Zeros]
  /\ held' = [q \in Procs |-> IF held[q] = "current" THEN "stale" ELSE held[q]]

\* SEMVMX also bounds the adjustments; past it semop fails with ERANGE.
InRange(p, v) ==
  /\ semval[0] + v =< SEMVMX
  /\ semadj[p][0] - v \in -SEMVMX .. SEMVMX

\* Bug: an undo that goes below zero or past SEMVMX.
ClampNone(x) == x

\* What the undo at exit leaves in a member: never below zero.
Clamp(x) == IF x < 0 THEN 0 ELSE IF x > SEMVMX THEN SEMVMX ELSE x

-----------------------------------------------------------------------------
(* sem_create *)

\* semget(IPC_CREAT) creates the set with zeros, or finds it.  It fails when the
\* kernel's tables are full; then sem_create returns -1.
CreateGet(p) ==
  /\ p \notin Openers
  /\ pc[p] \in {"idle", "again"}
  /\ UNCHANGED <<semval, semadj>>
  /\ \/ /\ live' = TRUE
        /\ held' = [held EXCEPT ![p] = "current"]
        /\ Goto(p, "c_lock")
     \/ /\ pc[p] = "again"
        /\ Goto(p, "idle")
        /\ UNCHANGED <<live, held>>

\* Bug: op_lock without its wait for zero.
CreateLockNoWait(p) ==
  /\ pc[p] = "c_lock" /\ Valid(p)
  /\ Semop(p, 0, 0, 1) /\ Goto(p, "c_getval")
  /\ UNCHANGED <<live, held>>

\* Bug: op_lock without SEM_UNDO.
CreateLockNoUndo(p) ==
  /\ pc[p] \in {"c_lock", "c_sleep"}
  /\ Valid(p) /\ semval[2] = 0
  /\ semval' = [semval EXCEPT ![2] = 1] /\ Goto(p, "c_getval")
  /\ UNCHANGED <<live, semadj, held>>

\* semop(op_lock).  An id removed before the call is EINVAL: goto again.  One
\* removed while the caller sleeps in the call is EIDRM, which is an err_sys.
CreateLock(p) ==
  /\ pc[p] \in {"c_lock", "c_sleep"}
  /\ UNCHANGED <<live, held>>
  /\ \/ Valid(p) /\ semval[2] = 0 /\ Semop(p, 0, 0, 1) /\ Goto(p, "c_getval")
     \/ /\ Valid(p) /\ semval[2] # 0 /\ pc[p] = "c_lock" /\ Goto(p, "c_sleep")
        /\ UNCHANGED kernelVars
     \/ /\ ~Valid(p)
        /\ Goto(p, IF pc[p] = "c_lock" THEN "again" ELSE "can't lock")
        /\ UNCHANGED kernelVars

\* Bug: the value rather than the counter tells whether the set is new.
CreateGetvalOfValue(p) ==
  /\ pc[p] = "c_getval"
  /\ Goto(p, IF ~Valid(p) THEN "can't GETVAL"
             ELSE IF semval[0] = 0 THEN "c_set0" ELSE "c_end")
  /\ UNCHANGED <<kernelVars, held>>

\* GETVAL of [1]: zero means that nobody has initialised the set yet.
CreateGetval(p) ==
  /\ pc[p] = "c_getval"
  /\ Goto(p, IF ~Valid(p) THEN "can't GETVAL"
             ELSE IF semval[1] = 0 THEN "c_set0" ELSE "c_end")
  /\ UNCHANGED <<kernelVars, held>>

CreateSet0(p) ==
  /\ pc[p] = "c_set0"
  /\ IF Valid(p) THEN SetVal(0, Initval) /\ Goto(p, "c_set1")
                 ELSE Goto(p, "can't SETVAL") /\ UNCHANGED <<semval, semadj>>
  /\ UNCHANGED <<live, held>>

CreateSet1(p) ==
  /\ pc[p] = "c_set1"
  /\ IF Valid(p) THEN SetVal(1, BIGCOUNT) /\ Goto(p, "c_end")
                 ELSE Goto(p, "can't SETVAL") /\ UNCHANGED <<semval, semadj>>
  /\ UNCHANGED <<live, held>>

\* Bug: op_endcreate counts without SEM_UNDO.
CreateEndNoUndo(p) ==
  /\ pc[p] = "c_end" /\ Valid(p)
  /\ semval' = [semval EXCEPT ![1] = @ - 1, ![2] = @ - 1]
  /\ semadj' = [semadj EXCEPT ![p][2] = @ + 1]
  /\ Goto(p, "open")
  /\ UNCHANGED <<live, held>>

\* semop(op_endcreate): count the process and release the lock.
CreateEnd(p) ==
  /\ pc[p] = "c_end"
  /\ IF Valid(p) THEN /\ semval[1] >= 1 /\ semval[2] >= 1
                      /\ Semop(p, 0, -1, -1) /\ Goto(p, "open")
                 ELSE Goto(p, "can't end create") /\ UNCHANGED <<semval, semadj>>
  /\ UNCHANGED <<live, held>>

-----------------------------------------------------------------------------
(* sem_open: no lock is taken *)

\* semget without IPC_CREAT; when there is no set sem_open returns -1.
OpenGet(p) ==
  /\ p \in Openers
  /\ pc[p] = "idle" /\ live
  /\ held' = [held EXCEPT ![p] = "current"]
  /\ Goto(p, "o_open")
  /\ UNCHANGED kernelVars

OpenCount(p) ==
  /\ pc[p] = "o_open"
  /\ IF Valid(p) THEN semval[1] >= 1 /\ Semop(p, 0, -1, 0) /\ Goto(p, "open")
                 ELSE Goto(p, "can't open") /\ UNCHANGED <<semval, semadj>>
  /\ UNCHANGED <<live, held>>

-----------------------------------------------------------------------------
(* sem_op, with sem_wait its value -1 and sem_signal its value 1 *)

\* Bug: op_op without SEM_UNDO, as a comment of 11_multi_buffer/client.c considers.
SemOpNoUndo(p, v) ==
  /\ pc[p] = "open" /\ Valid(p)
  /\ semval[0] + v >= 0
  /\ semval' = [semval EXCEPT ![0] = @ + v]
  /\ UNCHANGED <<live, semadj, held, pc>>

SemOp(p, v) ==
  /\ pc[p] = "open"
  /\ UNCHANGED <<live, held>>
  /\ \/ /\ ~Valid(p) \/ v = 0
        /\ Goto(p, "sem_op error") /\ UNCHANGED <<semval, semadj>>
     \/ /\ Valid(p) /\ v # 0
        /\ v > 0 \/ semval[0] >= -v
        /\ IF InRange(p, v)
           THEN Semop(p, v, 0, 0) /\ UNCHANGED pc
           ELSE Goto(p, "sem_op error") /\ UNCHANGED <<semval, semadj>>

-----------------------------------------------------------------------------
(* sem_close and sem_rm *)

CloseCall(p) ==
  /\ pc[p] = "open"
  /\ Goto(p, "x_lock")
  /\ UNCHANGED <<kernelVars, held>>

\* Bug: op_close gives the count back without the lock.
CloseLockNoLock(p) ==
  /\ pc[p] = "x_lock" /\ Valid(p)
  /\ Semop(p, 0, 1, 0) /\ Goto(p, "x_getval")
  /\ UNCHANGED <<live, held>>

\* semop(op_close): take the lock and give the count back, in one call.
CloseLock(p) ==
  /\ pc[p] = "x_lock"
  /\ IF Valid(p) THEN semval[2] = 0 /\ Semop(p, 0, 1, 1) /\ Goto(p, "x_getval")
                 ELSE Goto(p, "can't semop") /\ UNCHANGED <<semval, semadj>>
  /\ UNCHANGED <<live, held>>

\* Bug: removes the set when one other process still uses it.
CloseGetvalEarly(p) ==
  /\ pc[p] = "x_getval" /\ Valid(p)
  /\ Goto(p, IF semval[1] >= BIGCOUNT - 1 THEN "x_rm" ELSE "x_unlock")
  /\ UNCHANGED <<kernelVars, held>>

CloseGetval(p) ==
  /\ pc[p] = "x_getval"
  /\ Goto(p, IF ~Valid(p) THEN "can't GETVAL"
             ELSE IF semval[1] > BIGCOUNT THEN "err_dump"
             ELSE IF semval[1] = BIGCOUNT THEN "x_rm" ELSE "x_unlock")
  /\ UNCHANGED <<kernelVars, held>>

\* sem_rm, called by the last closer, or by a Remover at any time.
SemRm(p) ==
  /\ pc[p] = "x_rm" \/ (p \in Removers /\ pc[p] = "open")
  /\ IF Valid(p) THEN Remove /\ Goto(p, "idle")
                 ELSE Goto(p, "can't IPC_RMID") /\ UNCHANGED <<kernelVars, held>>

\* Bug: sem_close returns with the lock.
CloseUnlockForgotten(p) ==
  /\ pc[p] = "x_unlock" /\ Goto(p, "idle")
  /\ UNCHANGED <<kernelVars, held>>

CloseUnlock(p) ==
  /\ pc[p] = "x_unlock"
  /\ IF Valid(p) THEN semval[2] >= 1 /\ Semop(p, 0, 0, -1) /\ Goto(p, "idle")
                 ELSE Goto(p, "can't unlock") /\ UNCHANGED <<semval, semadj>>
  /\ UNCHANGED <<live, held>>

-----------------------------------------------------------------------------
\* The process exits, is killed or ends in err_sys, at any point: the kernel adds
\* its adjustments.  The slot then stands for a process started anew.
Exit(p) ==
  /\ semval' = [i \in Members |-> Clamp(semval[i] + semadj[p][i])]
  /\ semadj' = [semadj EXCEPT ![p] = Zeros]
  /\ held' = [held EXCEPT ![p] = "none"]
  /\ Goto(p, "idle")
  /\ UNCHANGED live

\* The calls that a process inside semaphore.c makes next.
CreateStep(p) == \/ CreateLock(p) \/ CreateGetval(p) \/ CreateSet0(p)
                 \/ CreateSet1(p) \/ CreateEnd(p)
OpenStep(p)   == OpenCount(p)
CloseStep(p)  == CloseLock(p) \/ CloseGetval(p) \/ CloseUnlock(p)

Next == \E p \in Procs :
  \/ CreateGet(p) \/ CreateStep(p)
  \/ OpenGet(p) \/ OpenStep(p)
  \/ \E v \in OpValues : SemOp(p, v)
  \/ CloseCall(p) \/ CloseStep(p) \/ SemRm(p)
  \/ Exit(p)

Spec == Init /\ [][Next]_semVars

\* Every process is scheduled, and semop serves its sleepers in turn: a process
\* that has started a call finishes it unless it waits for ever.  Nobody has to
\* start a call, call sem_op, or exit.
Fairness == \A p \in Procs :
  /\ WF_semVars(pc[p] = "again" /\ CreateGet(p))
  /\ SF_semVars(CreateStep(p))
  /\ SF_semVars(OpenStep(p))
  /\ SF_semVars(CloseStep(p))
  /\ WF_semVars(pc[p] = "x_rm" /\ SemRm(p))

FairSpec == Spec /\ Fairness

-----------------------------------------------------------------------------
(* Properties *)

TypeOK ==
  /\ live \in BOOLEAN
  /\ semval \in [Members -> 0 .. SEMVMX]
  /\ semadj \in [Procs -> [Members -> -SEMVMX .. SEMVMX]]
  /\ held \in [Procs -> {"none", "current", "stale"}]
  /\ pc \in [Procs -> Points]

LockHolders == {p \in Procs : pc[p] \in Locked /\ Valid(p)}
\* A process in err_sys uses the set until it has exited.
Users == {p \in Procs : pc[p] \in Using \cup {"sem_op error"} /\ Valid(p)}

\* [2] is a mutual exclusion lock for sem_create and sem_close that outlives the
\* death of its holder: it is 1 exactly while one live process is between op_lock
\* or op_close and the semop that unlocks, and that process's undo gives it back.
LockExclusive ==
  /\ \A p, q \in LockHolders : p = q
  /\ semval[2] = IF LockHolders = {} THEN 0 ELSE 1
  /\ \A p \in Procs : semadj[p][2] = IF p \in LockHolders THEN -1 ELSE 0

\* [1] knows how many processes use the semaphore, whatever crashes in between:
\* it is BIGCOUNT less the users, or 0 while nobody has initialised the set.
CounterExact ==
  /\ semval[1] = 0 => Users = {}
  /\ semval[1] # 0 => semval[1] + Cardinality(Users) = BIGCOUNT
  /\ \A p \in Procs : semadj[p][1] = IF p \in Users THEN 1 ELSE 0

\* sem_close removes the set only when it really was the last user, and nobody
\* loses the set while in the locked part of sem_create or sem_close
\* (semaphore.h:58-59).
SetKept == \A p \in Procs : pc[p] \in Using \cup Locked => Valid(p)

\* "If the semaphore already exists, we don't initialize it" (semaphore.h:31): no
\* SETVAL resets the value or the counter under a process that uses the set.
NeverReinitialised ==
  [][\A p \in Procs : Valid(p) /\ (CreateSet0(p) \/ CreateSet1(p)) => Users = {}]_semVars

\* sem_create survives the removal between its semget and its semop: "we just go
\* back and create it again" (semaphore.c:183-187).
CreateSurvivesRemoval == \A p \in Procs : pc[p] # "can't lock"

\* Seen from outside, the set is reference counted: it is initialised before anybody
\* uses it and once only, and it goes away only when nobody does.
Abstract == INSTANCE RefCount WITH exists <- live, ready <- semval[1] # 0, users <- Users
ReferenceCounted == Abstract!Spec

\* A sem_create comes to an end unless sets are removed under it for ever: no dead
\* process keeps the lock, and the goto again only runs after a removal.
CreateCompletes == \A p \in Procs :
  (<>[]live) => (pc[p] \in Creating ~> pc[p] \notin Creating)

\* A sem_close comes to an end: the lock it waits for is always given back.
CloseCompletes == \A p \in Procs : pc[p] \in Closing ~> pc[p] \notin Closing
=============================================================================
