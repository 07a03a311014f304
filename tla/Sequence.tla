------------------------------ MODULE Sequence ------------------------------
(***************************************************************************)
(* The sequence number programs side by side: a behaviour is that of the   *)
(* processes of one program, linked with the semaphore library or with one *)
(* of the pairs of lock routines.                                          *)
(***************************************************************************)
EXTENDS SeqMain

CONSTANTS Linked, BIGCOUNT, SEMVMX

VARIABLES live, semval, semadj, held, pc, kind, taken, temp, killed

Lib == INSTANCE SeqNo
Locks == INSTANCE SeqLocks WITH Kinds <- Linked \ {"library"}

ASSUME LinkedAssumption == Linked \subseteq Locks!Released \cup Locks!Left \cup {"library"}

\* What the library needs of BIGCOUNT, see Semaphore.
ASSUME LibraryAssumption ==
  /\ IsFiniteSet(Procs) /\ Cardinality(Procs) < BIGCOUNT
  /\ BIGCOUNT \in Nat /\ SEMVMX \in Nat /\ BIGCOUNT =< SEMVMX

semVars == <<live, semval, semadj, held, pc>>
lockVars == <<kind, taken, temp, killed>>
vars == <<mainVars, semVars, lockVars>>

Init == kind \in Linked /\ MainInit /\ Lib!Init /\ Locks!LockInit

WithLibrary == kind = "library" /\ UNCHANGED lockVars
WithLocks   == kind # "library" /\ UNCHANGED semVars

Start(p) == (WithLibrary /\ Lib!Start(p)) \/ (WithLocks /\ Locks!Start(p))
Run(p)   == (WithLibrary /\ Lib!Run(p)) \/ (WithLocks /\ Locks!Run(p))
Exit(p)  == (WithLibrary /\ Lib!Exit(p)) \/ (WithLocks /\ Locks!Exit(p))

Next == \E p \in Procs : Start(p) \/ Run(p) \/ Exit(p)

Spec == Init /\ [][Next]_vars

Ends(p) == IF kind = "library" THEN Lib!Ends(p) ELSE Locks!Ends(p)

\* A process that runs is scheduled, and it gets the lock if the lock is free again and
\* again.  That is certain for a sleeper in the kernel and, as the others take the lock a
\* bounded number of times, for a process that polls.
Fairness == \A p \in Procs : SF_vars(Run(p)) /\ WF_vars(Ends(p) /\ Exit(p))

FairSpec == Spec /\ Fairness

-----------------------------------------------------------------------------
TypeOK == IF kind = "library" THEN Lib!TypeOK ELSE Locks!TypeOK

\* One process at a time is inside, whichever the lock and whoever was killed: the value of
\* the semaphore, or the lock, says whether one is.
OneAtATime == IF kind = "library" THEN Lib!OneAtATime ELSE Locks!OneAtATime

\* sem_wait and sem_signal never find the semaphore removed by another's sem_close.
NeverRemovedInUse == Lib!NeverRemovedInUse

\* With the library every run of the program ends; with the other locks it does unless the
\* holder of a lock that the kernel does not give back was killed: "Any other process that
\* tries to obtain the lock waits forever" (pitfall_1/lock_unlock.c:70).
Terminates ==
  \A p \in Procs : main[p] # "stopped" ~>
    main[p] = "stopped" \/ (kind \in Locks!Left /\ killed /\ Locks!Unheld)

\* "If the temporary file already exists, the creat() will just truncate it to 0-length."
\* (lock.c:66-67)
TempFileReused == Locks!TempFileReused
=============================================================================
