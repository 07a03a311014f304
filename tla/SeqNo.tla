-------------------------------- MODULE SeqNo -------------------------------
(***************************************************************************)
(* 9_semaphores/main.c: the loop of SeqMain under a semaphore of           *)
(* semaphore.c used as a lock.  A process may be killed anywhere and the   *)
(* program started again.                                                  *)
(***************************************************************************)
EXTENDS SeqMain

CONSTANTS BIGCOUNT, SEMVMX

VARIABLES live, semval, semadj, held, pc   \* the semaphore SEMKEY, see Semaphore

Sem == INSTANCE Semaphore
         WITH Openers <- {}, Removers <- {}, Initval <- 1, OpValues <- {-1, 1}

semVars == <<live, semval, semadj, held, pc>>
vars == <<semVars, mainVars>>

Init == Sem!Init /\ MainInit

\* main() opens SEQFILE and calls sem_create.
Start(p) == Begin(p, "create") /\ Sem!CreateGet(p)

\* The rest of sem_create; the loop begins when it has returned the id.
Create(p) ==
  /\ Sem!CreateStep(p) \/ (pc[p] = "again" /\ Sem!CreateGet(p))
  /\ Step(p, "create", IF pc'[p] = "open" THEN "wait" ELSE "create")

\* Bug: the loop goes on without waiting.
WaitNone(p) == Step(p, "wait", "read") /\ UNCHANGED semVars

Wait(p) == Step(p, "wait", "read") /\ Sem!SemOp(p, -1)

Increment(p) == Read(p) \/ Write(p, "signal")

Signal(p) == NextRound(p, "signal", "wait", "close") /\ Sem!SemOp(p, 1)

\* sem_close, call by call.
Close(p) ==
  /\ Sem!CloseCall(p) \/ Sem!CloseStep(p) \/ Sem!SemRm(p)
  /\ Step(p, "close", IF pc'[p] = "idle" THEN "exit" ELSE "close")

\* exit(): at the end of main, in err_sys, or when sem_create returned -1.
Ends(p) == \/ main[p] = "exit"
           \/ pc[p] \in Sem!Failures
           \/ main[p] = "create" /\ pc[p] = "idle"

\* At the end, or by a signal at any point.
Exit(p) == Stop(p) /\ Sem!Exit(p)

Run(p) == \/ Create(p) \/ Wait(p) \/ Signal(p) \/ Close(p)
          \/ Increment(p) /\ UNCHANGED semVars

Next == \E p \in Procs : Start(p) \/ Run(p) \/ Exit(p)

Spec == Init /\ [][Next]_vars

-----------------------------------------------------------------------------
TypeOK ==
  /\ Sem!TypeOK /\ MainTypeOK
  /\ main \in [Procs -> {"stopped", "create", "wait", "read", "write", "signal",
                         "close", "exit"}]

Critical == {p \in Procs : main[p] \in {"read", "write", "signal"}}

\* The semaphore is the lock of the file: one process at a time is between sem_wait
\* and sem_signal, and the value counts it, however many were killed in between.
OneAtATime ==
  /\ Cardinality(Critical) =< 1
  /\ semval[1] # 0 => semval[0] + Cardinality(Critical) = 1

\* sem_wait and sem_signal never find the semaphore removed by another's sem_close.
NeverRemovedInUse == \A p \in Procs : pc[p] # "sem_op error"
=============================================================================
