--------------------------- MODULE SequenceProofs ---------------------------
(***************************************************************************)
(* Proofs about Sequence: first those about SeqLocks, the programs with a  *)
(* pair of lock routines, then those about SeqNo, the program with the     *)
(* library, then what these show together, as a behaviour never changes    *)
(* its kind.  All hold for every set of processes, every number of rounds  *)
(* and starts and every choice of programs.                                *)
(***************************************************************************)
EXTENDS Sequence, FiniteSetTheorems, TLAPS

-----------------------------------------------------------------------------
(* The pairs of lock routines *)

LocksShape ==
  /\ kind \in Linked \ {"library"}
  /\ taken \in BOOLEAN /\ temp \subseteq Procs /\ killed \in BOOLEAN
  /\ main \in [Procs -> {"stopped", "lock", "link", "unlink_temp", "read", "write",
                         "unlock", "exit", "can't creat temp file"}]
  /\ DOMAIN seqno = Procs

\* The part of OneAtATime that is inductive, without Cardinality.
LocksExclusive ==
  /\ \A p, q \in Locks!Holders : p = q
  /\ Locks!Holders # {} => taken
  /\ Locks!Unheld => killed /\ kind \in Locks!Left

\* The number that is about to be written is still the next one.
LocksFresh == \A p \in Procs : main[p] = "write" => seqno[p] = file + 1

LocksInv == LocksShape /\ LocksExclusive /\ LocksFresh

LEMMA KindsFacts == Linked \ {"library"} \subseteq Locks!Released \cup Locks!Left
BY LinkedAssumption

LEMMA InitLocksInv == Locks!Init => LocksInv
<1>. SUFFICES ASSUME Locks!Init PROVE LocksInv
  OBVIOUS
<1>1. LocksShape
  BY DEF Locks!Init, Locks!LockInit, Locks!MainInit, LocksShape
<1>2. Locks!Holders = {} /\ ~taken /\ \A p \in Procs : main[p] = "stopped"
  BY DEF Locks!Init, Locks!LockInit, Locks!MainInit, Locks!Holders
<1>. QED
  BY <1>1, <1>2 DEF LocksInv, LocksExclusive, Locks!Unheld, LocksFresh

\* How a step of one process changes the processes that are inside.
LEMMA HoldersStep ==
  ASSUME LocksShape, NEW p \in Procs, NEW there,
         main' = [main EXCEPT ![p] = there]
  PROVE  /\ there \in {"unlink_temp", "read", "write", "unlock"} =>
              Locks!Holders' = Locks!Holders \cup {p}
         /\ there \notin {"unlink_temp", "read", "write", "unlock"} =>
              Locks!Holders' = Locks!Holders \ {p}
         /\ main'[p] = there /\ \A q \in Procs : q # p => main'[q] = main[q]
BY DEF LocksShape, Locks!Holders

\* A process outside moves on outside.
LEMMA Outside ==
  ASSUME LocksInv, NEW p \in Procs, p \notin Locks!Holders, NEW there,
         there \notin {"unlink_temp", "read", "write", "unlock"},
         main' = [main EXCEPT ![p] = there], UNCHANGED <<kind, taken, killed, file>>,
         \A q \in Locks!Holders : seqno'[q] = seqno[q]
  PROVE  LocksExclusive' /\ LocksFresh'
<1>0. Locks!Holders' = Locks!Holders \ {p}
  BY HoldersStep DEF LocksInv
<1>1. Locks!Holders' = Locks!Holders
  BY <1>0
<1>2. LocksExclusive'
  BY <1>1 DEF LocksInv, LocksExclusive, Locks!Unheld
<1>3. \A q \in Procs : main'[q] = "write" => main[q] = "write" /\ q \in Locks!Holders
  BY HoldersStep DEF LocksInv, Locks!Holders
<1>. QED
  BY <1>2, <1>3 DEF LocksInv, LocksFresh

\* A process that gets the lock gets it alone.
LEMMA Enters ==
  ASSUME LocksInv, NEW p \in Procs, NEW there \in {"unlink_temp", "read"}, ~taken, taken',
         main' = [main EXCEPT ![p] = there], UNCHANGED <<kind, killed, file, seqno>>
  PROVE  LocksExclusive' /\ LocksFresh'
<1>1. Locks!Holders = {}
  BY DEF LocksInv, LocksExclusive
<1>2. Locks!Holders' = {p}
  BY <1>1, HoldersStep DEF LocksInv
<1>3. \A q \in Procs : main'[q] # "write"
  BY <1>1, HoldersStep DEF LocksInv, Locks!Holders
<1>. QED
  BY <1>2, <1>3 DEF LocksExclusive, Locks!Unheld, LocksFresh

\* The process inside moves on inside.
LEMMA Inside ==
  ASSUME LocksInv, NEW p \in Locks!Holders, NEW there \in {"read", "write", "unlock"},
         main' = [main EXCEPT ![p] = there], UNCHANGED <<kind, taken, killed>>,
         there = "write" => seqno'[p] = file' + 1
  PROVE  LocksExclusive' /\ LocksFresh'
<1>1. p \in Procs /\ Locks!Holders = {p} /\ Locks!Holders' = {p}
  BY HoldersStep DEF LocksInv, LocksExclusive, Locks!Holders
<1>2. LocksExclusive'
  BY <1>1 DEF LocksInv, LocksExclusive, Locks!Unheld
<1>3. \A q \in Procs : main'[q] = "write" => q = p /\ there = "write"
  BY <1>1, HoldersStep DEF LocksInv, Locks!Holders
<1>. QED
  BY <1>2, <1>3 DEF LocksFresh

\* The process inside gives the lock back.
LEMMA Leaves ==
  ASSUME LocksInv, NEW p \in Locks!Holders, NEW there,
         there \notin {"unlink_temp", "read", "write", "unlock"},
         main' = [main EXCEPT ![p] = there], UNCHANGED kind,
         ~taken' \/ (taken' = taken /\ killed' /\ kind \in Locks!Left)
  PROVE  LocksExclusive' /\ LocksFresh'
<1>0. p \in Procs /\ Locks!Holders = {p}
  BY DEF LocksInv, LocksExclusive, Locks!Holders
<1>1. Locks!Holders' = {}
  BY <1>0, HoldersStep DEF LocksInv
<1>2. \A q \in Procs : main'[q] # "write"
  BY <1>1 DEF Locks!Holders
<1>. QED
  BY <1>1, <1>2 DEF LocksExclusive, Locks!Unheld, LocksFresh

LEMMA LocksShapeStep == ASSUME LocksInv, Locks!Next PROVE LocksShape'
<1>. USE DEF LocksInv, LocksShape, Locks!At, Locks!Step
<1>1. PICK p \in Procs : Locks!Start(p) \/ Locks!Run(p) \/ Locks!Exit(p)
  BY DEF Locks!Next
<1>2. CASE Locks!Start(p)
  BY <1>2 DEF Locks!Start, Locks!Begin, Locks!lockVars
<1>3. CASE Locks!Lock(p) \/ Locks!LinkCreat(p) \/ Locks!LinkLink(p) \/ Locks!LinkUnlink(p)
  BY <1>3 DEF Locks!Lock, Locks!LinkCreat, Locks!LinkLink, Locks!LinkUnlink, Locks!Takes
<1>4. CASE Locks!Unlock(p)
  BY <1>4 DEF Locks!Unlock, Locks!NextRound
<1>5. CASE Locks!Increment(p) /\ UNCHANGED Locks!lockVars
  BY <1>5 DEF Locks!Increment, Locks!Read, Locks!Write, Locks!lockVars
<1>6. CASE Locks!Exit(p)
  BY <1>6 DEF Locks!Exit, Locks!Stop
<1>. QED
  BY <1>1, <1>2, <1>3, <1>4, <1>5, <1>6 DEF Locks!Run

LEMMA LocksExclusiveStep ==
  ASSUME LocksInv, Locks!Next PROVE LocksExclusive' /\ LocksFresh'
<1>. USE DEF Locks!At, Locks!Step, Locks!Holders
<1>1. PICK p \in Procs : Locks!Start(p) \/ Locks!Run(p) \/ Locks!Exit(p)
  BY DEF Locks!Next
<1>2. CASE Locks!Start(p)
  BY <1>2, Outside DEF Locks!Start, Locks!Begin, Locks!lockVars
<1>3. CASE Locks!Lock(p)
  BY <1>3, Enters DEF Locks!Lock, Locks!Takes
<1>4. CASE Locks!LinkCreat(p)
  <2>. DEFINE there == IF p \in temp THEN "can't creat temp file" ELSE "link"
  <2>1. main[p] = "lock" /\ main' = [main EXCEPT ![p] = there]
        /\ there \notin {"unlink_temp", "read", "write", "unlock"}
    BY <1>4 DEF Locks!LinkCreat
  <2>. HIDE DEF there
  <2>. QED
    BY <1>4, <2>1, Outside DEF Locks!LinkCreat
<1>5. CASE Locks!LinkLink(p)
  BY <1>5, Enters DEF Locks!LinkLink, Locks!Takes
<1>6. CASE Locks!LinkUnlink(p)
  BY <1>6, Inside DEF Locks!LinkUnlink
<1>7. CASE Locks!Increment(p) /\ UNCHANGED Locks!lockVars
  <2>1. CASE Locks!Read(p)
    <3>1. seqno'[p] = file' + 1
      BY <2>1 DEF Locks!Read, LocksInv, LocksShape
    <3>. QED
      BY <1>7, <2>1, <3>1, Inside DEF Locks!Read, Locks!lockVars
  <2>2. CASE Locks!Write(p, "unlock")
    BY <1>7, <2>2, Inside DEF Locks!Write, Locks!lockVars
  <2>. QED
    BY <1>7, <2>1, <2>2 DEF Locks!Increment
<1>8. CASE Locks!Unlock(p)
  <2>. DEFINE there == IF Locks!Again(p) THEN "lock" ELSE "exit"
  <2>1. main[p] = "unlock" /\ main' = [main EXCEPT ![p] = there] /\ ~taken' /\ kind' = kind
        /\ there \notin {"unlink_temp", "read", "write", "unlock"}
    BY <1>8 DEF Locks!Unlock, Locks!NextRound
  <2>. HIDE DEF there
  <2>. QED
    BY <2>1, Leaves
<1>9. CASE Locks!Exit(p)
  <2>1. main' = [main EXCEPT ![p] = "stopped"] /\ kind' = kind /\ file' = file
        /\ \A q \in Procs : q # p => seqno'[q] = seqno[q]
    BY <1>9 DEF Locks!Exit, Locks!Stop, LocksInv, LocksShape
  <2>2. CASE p \in Locks!Holders
    <3>1. ~taken' \/ (taken' = taken /\ killed' /\ kind \in Locks!Left)
      BY <1>9, <2>2, KindsFacts DEF Locks!Exit, LocksInv, LocksShape
    <3>. QED
      BY <2>1, <2>2, <3>1, Leaves
  <2>3. CASE p \notin Locks!Holders
    <3>1. UNCHANGED <<taken, killed>>
      BY <1>9, <2>3 DEF Locks!Exit, LocksInv, LocksShape
    <3>. QED
      BY <2>1, <2>3, <3>1, Outside
  <2>. QED
    BY <2>2, <2>3
<1>. QED
  BY <1>1, <1>2, <1>3, <1>4, <1>5, <1>6, <1>7, <1>8, <1>9 DEF Locks!Run

LEMMA StutterLocksInv == ASSUME LocksInv, UNCHANGED Locks!vars PROVE LocksInv'
BY DEF Locks!vars, Locks!lockVars, Locks!mainVars, LocksInv, LocksShape, LocksExclusive,
       Locks!Unheld, Locks!Holders, LocksFresh

LEMMA NextLocksInv ==
  ASSUME LocksInv, [Locks!Next]_(Locks!vars) PROVE LocksInv'
BY LocksShapeStep, LocksExclusiveStep, StutterLocksInv DEF LocksInv

LEMMA ExcludesFromLocks == ASSUME LocksInv PROVE Locks!OneAtATime
<1>0. \A S : Locks!Cardinality(S) = Cardinality(S)
  BY DEF Locks!Cardinality, Cardinality
<1>1. CASE Locks!Holders = {}
  <2>1. Locks!Cardinality(Locks!Holders) = 0
    BY <1>0, <1>1, FS_EmptySet
  <2>. QED
    BY <2>1 DEF LocksInv, LocksExclusive, Locks!OneAtATime
<1>2. CASE Locks!Holders # {}
  <2>1. PICK p : Locks!Holders = {p}
    BY <1>2 DEF LocksInv, LocksExclusive
  <2>2. Cardinality({p}) = 1
    BY FS_Singleton
  <2>3. Locks!Cardinality(Locks!Holders) = 1
    BY <1>0, <2>1, <2>2
  <2>. QED
    BY <2>3 DEF LocksInv, LocksExclusive, Locks!OneAtATime
<1>. QED
  BY <1>1, <1>2

\* Every write of the number is its increment.
LEMMA LocksWriteNext ==
  ASSUME LocksInv, Locks!Next, NEW p \in Procs, main[p] = "write",
         main'[p] \notin {"write", "stopped"}
  PROVE  file' = file + 1
<1>. USE DEF LocksInv, LocksShape, Locks!Start, Locks!Run, Locks!Exit, Locks!Begin,
             Locks!Lock, Locks!LinkCreat, Locks!LinkLink, Locks!LinkUnlink,
             Locks!Unlock, Locks!NextRound, Locks!Increment, Locks!Read, Locks!Stop,
             Locks!Step, Locks!At
<1>1. PICK q \in Procs : Locks!Start(q) \/ Locks!Run(q) \/ Locks!Exit(q)
  BY DEF Locks!Next
<1>2. q = p
  BY <1>1 DEF Locks!Write
<1>3. Locks!Write(p, "unlock")
  BY <1>1, <1>2
<1>. QED
  BY <1>3 DEF LocksFresh, Locks!Write

LEMMA SpecLocksInv == Locks!Spec => []LocksInv
<1>1. LocksInv /\ [Locks!Next]_(Locks!vars) => LocksInv'
  BY NextLocksInv
<1>. QED
  BY InitLocksInv, <1>1, PTL DEF Locks!Spec

\* Each pair of lock routines admits one process at a time, whoever was killed, and only a
\* kill leaves a lock behind, one that the kernel does not give back.
THEOREM LocksExclude == Locks!Spec => []Locks!OneAtATime
<1>1. LocksInv => Locks!OneAtATime
  BY ExcludesFromLocks
<1>. QED
  BY SpecLocksInv, <1>1, PTL

\* Under each pair of lock routines no number is given out twice and none is skipped.
THEOREM LocksLoseNoUpdate ==
  Locks!Spec => Locks!NoLostUpdate
<1>1. LocksInv /\ [Locks!Next]_(Locks!vars) => [\A p \in Procs :
         main[p] = "write" /\ main'[p] \notin {"write", "stopped"}
           => file' = file + 1]_(Locks!mainVars)
  BY LocksWriteNext DEF Locks!vars
<1>. QED
  BY SpecLocksInv, <1>1, PTL DEF Locks!Spec, Locks!NoLostUpdate

-----------------------------------------------------------------------------
(* The program with the library: what SemaphoreProofs shows of the library by itself is *)
(* used here of its semaphore SEMKEY; added to it is that the value is that of a lock. *)

SP == INSTANCE SemaphoreProofs
        WITH Openers <- {}, Removers <- {}, Initval <- 1, OpValues <- {-1, 1}

\* Where a process is in the library follows from where it is in main.
LibCoupled == \A p \in Procs :
  /\ main[p] \in {"stopped", "create", "wait", "read", "write", "signal", "close", "exit"}
  /\ main[p] \in {"stopped", "exit"} => pc[p] = "idle"
  /\ main[p] \in {"wait", "read", "write", "signal"} => pc[p] = "open"
  /\ main[p] = "create" => pc[p] \notin SP!Using
  /\ pc[p] # "sem_op error"

\* The value is the lock's, and the kernel gives it back for the process inside.
LibExclusive ==
  /\ \A p, q \in Lib!Critical : p = q
  /\ semval[1] # 0 => semval[0] = IF Lib!Critical = {} THEN 1 ELSE 0
  /\ \A p \in Procs : semadj[p][0] = IF p \in Lib!Critical THEN 1 ELSE 0
  /\ \A p \in Procs : pc[p] = "c_set1" /\ SP!Valid(p) => semval[0] = 1

\* The number that is about to be written is still the next one.
LibFresh ==
  /\ DOMAIN main = Procs /\ DOMAIN seqno = Procs
  /\ \A p \in Procs : main[p] = "write" => seqno[p] = file + 1

LibInv == SP!KeepInv /\ LibCoupled /\ LibExclusive /\ LibFresh

-----------------------------------------------------------------------------
(* The library's theorems about this instance *)

LEMMA LibraryFacts ==
         /\ SP!IsFiniteSet(Procs) /\ SP!Cardinality(Procs) < BIGCOUNT
         /\ BIGCOUNT \in Nat /\ SEMVMX \in Nat /\ BIGCOUNT =< SEMVMX /\ 1 =< SEMVMX /\ 1 \in Nat
         /\ {-1, 1} \subseteq Int /\ {} \subseteq Procs
<1>1. SP!IsFiniteSet(Procs)
  BY LibraryAssumption DEF SP!IsFiniteSet, IsFiniteSet
<1>2. SP!Cardinality(Procs) = Cardinality(Procs)
  BY DEF SP!Cardinality, Cardinality
<1>3. Cardinality(Procs) \in Nat
  BY LibraryAssumption, FS_CardinalityType
<1>. QED
  BY <1>1, <1>2, <1>3, LibraryAssumption

\* The calls of the two instances of the library are the same.
LEMMA SameCreate == ASSUME NEW p
  PROVE  /\ Lib!Sem!CreateGet(p) <=> SP!CreateGet(p)
         /\ Lib!Sem!CreateLock(p) <=> SP!CreateLock(p)
         /\ Lib!Sem!CreateGetval(p) <=> SP!CreateGetval(p)
         /\ Lib!Sem!CreateSet0(p) <=> SP!CreateSet0(p)
         /\ Lib!Sem!CreateSet1(p) <=> SP!CreateSet1(p)
         /\ Lib!Sem!CreateEnd(p) <=> SP!CreateEnd(p)
<1>. USE DEF Lib!Sem!Goto, SP!Goto, Lib!Sem!Valid, SP!Valid, Lib!Sem!Semop, SP!Semop,
             Lib!Sem!SetVal, SP!SetVal,
             Lib!Sem!kernelVars, SP!kernelVars
<1>1. Lib!Sem!CreateGet(p) <=> SP!CreateGet(p)
  BY DEF Lib!Sem!CreateGet, SP!CreateGet
<1>2. Lib!Sem!CreateLock(p) <=> SP!CreateLock(p)
  BY DEF Lib!Sem!CreateLock, SP!CreateLock
<1>3. Lib!Sem!CreateGetval(p) <=> SP!CreateGetval(p)
  BY DEF Lib!Sem!CreateGetval, SP!CreateGetval
<1>4. Lib!Sem!CreateSet0(p) <=> SP!CreateSet0(p)
  BY DEF Lib!Sem!CreateSet0, SP!CreateSet0
<1>5. Lib!Sem!CreateSet1(p) <=> SP!CreateSet1(p)
  BY DEF Lib!Sem!CreateSet1, SP!CreateSet1
<1>6. Lib!Sem!CreateEnd(p) <=> SP!CreateEnd(p)
  BY DEF Lib!Sem!CreateEnd, SP!CreateEnd
<1>. QED
  BY <1>1, <1>2, <1>3, <1>4, <1>5, <1>6

LEMMA SameOther == ASSUME NEW p
  PROVE  /\ \A v : Lib!Sem!SemOp(p, v) <=> SP!SemOp(p, v)
         /\ Lib!Sem!CloseCall(p) <=> SP!CloseCall(p)
         /\ Lib!Sem!CloseStep(p) <=> SP!CloseStep(p)
         /\ Lib!Sem!SemRm(p) <=> SP!SemRm(p)
         /\ Lib!Sem!Exit(p) <=> SP!Exit(p)
<1>. USE DEF Lib!Sem!Goto, SP!Goto, Lib!Sem!Valid, SP!Valid, Lib!Sem!Semop, SP!Semop,
             Lib!Sem!kernelVars, SP!kernelVars
<1>1. \A v : Lib!Sem!SemOp(p, v) <=> SP!SemOp(p, v)
  BY DEF Lib!Sem!SemOp, SP!SemOp, Lib!Sem!InRange, SP!InRange
<1>2. Lib!Sem!CloseCall(p) <=> SP!CloseCall(p)
  BY DEF Lib!Sem!CloseCall, SP!CloseCall
<1>3. Lib!Sem!CloseStep(p) <=> SP!CloseStep(p)
  BY DEF Lib!Sem!CloseStep, SP!CloseStep, Lib!Sem!CloseLock, SP!CloseLock, Lib!Sem!CloseGetval,
         SP!CloseGetval, Lib!Sem!CloseUnlock, SP!CloseUnlock
<1>4. Lib!Sem!SemRm(p) <=> SP!SemRm(p)
  BY DEF Lib!Sem!SemRm, SP!SemRm, Lib!Sem!Remove, SP!Remove, Lib!Sem!Zeros, SP!Zeros,
       Lib!Sem!Members, SP!Members
<1>5. Lib!Sem!Exit(p) <=> SP!Exit(p)
  BY DEF Lib!Sem!Exit, SP!Exit, Lib!Sem!Clamp, SP!Clamp, Lib!Sem!Zeros, SP!Zeros,
       Lib!Sem!Members, SP!Members
<1>. QED
  BY <1>1, <1>2, <1>3, <1>4, <1>5

\* The steps of SeqNo by the library's calls.
LibCreates(p) == \/ SP!CreateGet(p) \/ SP!CreateLock(p) \/ SP!CreateGetval(p)
              \/ SP!CreateSet0(p) \/ SP!CreateSet1(p) \/ SP!CreateEnd(p)
LibCloses(p) == SP!CloseCall(p) \/ SP!CloseStep(p) \/ SP!SemRm(p)

LibMoves(p) ==
  \/ Lib!Begin(p, "create") /\ SP!CreateGet(p)
  \/ Lib!Step(p, "create", IF pc'[p] = "open" THEN "wait" ELSE "create") /\ LibCreates(p)
  \/ Lib!Step(p, "wait", "read") /\ SP!SemOp(p, -1)
  \/ Lib!NextRound(p, "signal", "wait", "close") /\ SP!SemOp(p, 1)
  \/ Lib!Step(p, "close", IF pc'[p] = "idle" THEN "exit" ELSE "close") /\ LibCloses(p)
  \/ (Lib!Read(p) \/ Lib!Write(p, "signal")) /\ UNCHANGED Lib!semVars
  \/ Lib!Stop(p) /\ SP!Exit(p)

LEMMA LibSteps == ASSUME Lib!Next PROVE \E p \in Procs : LibMoves(p)
<1>1. PICK p \in Procs : Lib!Start(p) \/ Lib!Run(p) \/ Lib!Exit(p)
  BY DEF Lib!Next
<1>. WITNESS p \in Procs
<1>. QED
  BY <1>1, SameCreate, SameOther
     DEF LibMoves, Lib!Start, Lib!Run, Lib!Exit, Lib!Create, Lib!Wait, Lib!Signal, Lib!Close,
          Lib!Increment, LibCreates, LibCloses, Lib!Sem!CreateStep

LEMMA KeepStep == ASSUME SP!KeepInv, Lib!Next PROVE SP!KeepInv'
<1>1. [SP!Next]_(SP!semVars)
  BY LibSteps DEF LibMoves, LibCreates, LibCloses, SP!Next, SP!semVars, Lib!semVars, SP!CreateStep
<1>. QED
  BY <1>1, LibraryFacts, SP!KeepNext

LEMMA KeepStart == ASSUME Lib!Init PROVE SP!KeepInv
<1>1. SP!Init
  BY DEF Lib!Init, Lib!Sem!Init, SP!Init, Lib!Sem!Zeros, SP!Zeros, Lib!Sem!Members, SP!Members
<1>. QED
  BY <1>1, LibraryFacts, SP!KeepInit

-----------------------------------------------------------------------------
(* The lock *)

\* A process between sem_create and sem_close has the set, and it is counted there.
LEMMA OpenCounts == ASSUME LibInv, NEW p \in Procs, pc[p] = "open"
  PROVE  SP!Valid(p) /\ p \in SP!Users /\ semval[1] # 0
<1>1. SP!Valid(p)
  BY DEF LibInv, SP!KeepInv, SP!SetKept, SP!Using
<1>2. p \in SP!Users
  BY <1>1 DEF SP!Users, SP!Using
<1>. QED
  BY <1>1, <1>2 DEF LibInv, SP!KeepInv, SP!IInv, SP!CounterExact

LEMMA CriticalCounts == ASSUME LibInv, semval[1] = 0 \/ SP!Users = {} PROVE Lib!Critical = {}
<1>1. \A p \in Lib!Critical : p \in Procs /\ pc[p] = "open"
  BY DEF LibInv, LibCoupled, Lib!Critical
<1>. QED
  BY <1>1, OpenCounts

\* How a step of one process changes the processes inside.
LEMMA CriticalStep ==
  ASSUME DOMAIN main = Procs, NEW p \in Procs, NEW there, main' = [main EXCEPT ![p] = there]
  PROVE  /\ there \in {"read", "write", "signal"} => Lib!Critical' = Lib!Critical \cup {p}
         /\ there \notin {"read", "write", "signal"} => Lib!Critical' = Lib!Critical \ {p}
         /\ main'[p] = there /\ \A q \in Procs : q # p => main'[q] = main[q]
BY DEF Lib!Critical

LEMMA LibTypes == ASSUME LibInv
  PROVE  /\ semval[0] \in 0 .. SEMVMX /\ semval[1] \in Int
         /\ DOMAIN pc = Procs /\ DOMAIN held = Procs /\ DOMAIN main = Procs
         /\ \A p \in Procs : semadj[p][0] \in Int
BY DEF LibInv, SP!KeepInv, SP!IInv, SP!Shape, SP!Members, LibFresh

\* sem_wait and sem_signal succeed: neither the value nor the undo leaves its range.
LEMMA WaitEffect ==
  ASSUME LibInv, NEW p \in Procs, main[p] = "wait", SP!SemOp(p, -1)
  PROVE  /\ UNCHANGED <<pc, held>> /\ Lib!Critical = {} /\ semval'[0] = 0 /\ semval'[1] = semval[1]
         /\ semadj'[p][0] = 1 /\ \A q \in Procs : q # p => semadj'[q][0] = semadj[q][0]
<1>1. pc[p] = "open" /\ p \notin Lib!Critical
  BY DEF LibInv, LibCoupled, Lib!Critical
<1>2. SP!Valid(p) /\ semval[1] # 0
  BY <1>1, OpenCounts
<1>3. semadj[p][0] = 0
  BY <1>1 DEF LibInv, LibExclusive
<1>4. semval[0] >= 1
  <2>1. -1 # 0 /\ ~(-1 > 0)
    OBVIOUS
  <2>2. semval[0] >= -(-1)
    BY <1>2, <2>1 DEF SP!SemOp
  <2>3. semval[0] \in Int
    BY LibTypes
  <2>. QED
    BY <2>2, <2>3
<1>5. Lib!Critical = {} /\ semval[0] = 1
  BY <1>2, <1>4 DEF LibInv, LibExclusive
<1>6. SP!InRange(p, -1)
  BY <1>3, <1>5, LibraryFacts DEF SP!InRange
<1>7. SP!Semop(p, -1, 0, 0) /\ UNCHANGED <<pc, held>>
  BY <1>2, <1>6 DEF SP!SemOp
<1>. QED
  BY <1>3, <1>5, <1>7 DEF SP!Semop, LibInv, SP!KeepInv, SP!IInv, SP!Shape, SP!Members

LEMMA SignalEffect ==
  ASSUME LibInv, NEW p \in Procs, main[p] = "signal", SP!SemOp(p, 1)
  PROVE  /\ UNCHANGED <<pc, held>> /\ Lib!Critical = {p} /\ semval'[0] = 1 /\ semval'[1] = semval[1]
         /\ semadj'[p][0] = 0 /\ \A q \in Procs : q # p => semadj'[q][0] = semadj[q][0]
<1>1. pc[p] = "open" /\ Lib!Critical = {p}
  BY DEF LibInv, LibCoupled, Lib!Critical, LibExclusive
<1>2. SP!Valid(p) /\ semval[1] # 0
  BY <1>1, OpenCounts
<1>3. semadj[p][0] = 1 /\ semval[0] = 0
  BY <1>1, <1>2 DEF LibInv, LibExclusive
<1>4. SP!InRange(p, 1)
  BY <1>3, LibraryFacts DEF SP!InRange
<1>5. SP!Semop(p, 1, 0, 0) /\ UNCHANGED <<pc, held>>
  BY <1>2, <1>4 DEF SP!SemOp
<1>. QED
  BY <1>1, <1>3, <1>5 DEF SP!Semop, LibInv, SP!KeepInv, SP!IInv, SP!Shape, SP!Members

LEMMA LibCoupledStep == ASSUME LibInv, Lib!Next PROVE LibCoupled'
<1>. USE LibTypes DEF LibInv, LibCoupled
<1>1. PICK p \in Procs : LibMoves(p)
  BY LibSteps
<1>2. CASE Lib!Begin(p, "create") /\ SP!CreateGet(p)
  BY <1>2 DEF Lib!Begin, Lib!At, SP!CreateGet, SP!Goto, SP!Using
<1>3. CASE Lib!Step(p, "create", IF pc'[p] = "open" THEN "wait" ELSE "create") /\ LibCreates(p)
  <2>1. \E w : /\ pc' = [pc EXCEPT ![p] = w] /\ w # "sem_op error" /\ w # "x_lock"
    BY <1>3 DEF LibCreates, SP!CreateGet, SP!CreateLock, SP!CreateGetval, SP!CreateSet0,
                SP!CreateSet1, SP!CreateEnd, SP!Goto
  <2>. QED
    BY <1>3, <2>1 DEF Lib!Step, Lib!At, SP!Using
<1>4. CASE Lib!Step(p, "wait", "read") /\ SP!SemOp(p, -1)
  BY <1>4, WaitEffect DEF Lib!Step, Lib!At
<1>5. CASE Lib!NextRound(p, "signal", "wait", "close") /\ SP!SemOp(p, 1)
  BY <1>5, SignalEffect DEF Lib!NextRound, Lib!At
<1>6. CASE Lib!Step(p, "close", IF pc'[p] = "idle" THEN "exit" ELSE "close") /\ LibCloses(p)
  <2>1. \E w : /\ pc' = [pc EXCEPT ![p] = w] /\ w # "sem_op error"
    BY <1>6 DEF LibCloses, SP!CloseCall, SP!CloseStep, SP!CloseLock, SP!CloseGetval,
                SP!CloseUnlock, SP!SemRm, SP!Goto
  <2>. QED
    BY <1>6, <2>1 DEF Lib!Step, Lib!At
<1>7. CASE (Lib!Read(p) \/ Lib!Write(p, "signal")) /\ UNCHANGED Lib!semVars
  BY <1>7 DEF Lib!Read, Lib!Write, Lib!At, Lib!semVars
<1>8. CASE Lib!Stop(p) /\ SP!Exit(p)
  BY <1>8 DEF Lib!Stop, SP!Exit, SP!Goto
<1>. QED
  BY <1>1, <1>2, <1>3, <1>4, <1>5, <1>6, <1>7, <1>8 DEF LibMoves

LEMMA LibFreshStep == ASSUME LibInv, Lib!Next PROVE LibFresh'
<1>. USE LibTypes DEF LibInv, LibFresh
<1>1. PICK p \in Procs :
           \/ Lib!Begin(p, "create")
           \/ \E there \in {"wait", "create", "exit", "close", "read"} : Lib!Step(p, main[p], there)
           \/ Lib!Step(p, "wait", "read")
           \/ Lib!NextRound(p, "signal", "wait", "close")
           \/ Lib!Read(p) \/ Lib!Write(p, "signal")
           \/ Lib!Stop(p)
  BY LibSteps DEF LibMoves, Lib!Step, Lib!At
<1>2. CASE Lib!Read(p)
  <2>1. main'[p] = "write" /\ seqno'[p] = file' + 1
    BY <1>2 DEF Lib!Read, Lib!At
  <2>. QED
    BY <1>2, <2>1 DEF Lib!Read, Lib!At
<1>3. CASE Lib!Write(p, "signal")
  <2>1. \A q \in Procs : main'[q] # "write"
    BY <1>3 DEF Lib!Write, Lib!At, LibExclusive, Lib!Critical
  <2>. QED
    BY <1>3, <2>1 DEF Lib!Write, Lib!At
<1>4. CASE Lib!Begin(p, "create") \/ Lib!Stop(p) \/ Lib!NextRound(p, "signal", "wait", "close")
  BY <1>4 DEF Lib!Begin, Lib!Stop, Lib!NextRound, Lib!At
<1>5. ASSUME NEW there \in {"wait", "create", "exit", "close", "read"}, Lib!Step(p, main[p], there)
      PROVE  LibFresh'
  BY <1>5 DEF Lib!Step, Lib!At
<1>. QED
  BY <1>1, <1>2, <1>3, <1>4, <1>5 DEF Lib!Step, Lib!At

\* A step that leaves the value and the undos alone.
LEMMA ValueUnmoved ==
  ASSUME LibInv, Lib!Critical' = Lib!Critical, semval'[0] = semval[0],
         \A q \in Procs : semadj'[q][0] = semadj[q][0],
         semval'[1] # 0 => semval[1] # 0,
         \A q \in Procs : pc'[q] = "c_set1" /\ SP!Valid(q)' => pc[q] = "c_set1" /\ SP!Valid(q)
  PROVE  LibExclusive'
BY DEF LibInv, LibExclusive

\* Between the two SETVALs of a set nobody is inside.
LEMMA SettingAlone ==
  ASSUME LibInv, NEW p \in Procs, pc[p] \in {"c_set0", "c_set1"}, SP!Valid(p)
  PROVE  semval[1] = 0 /\ Lib!Critical = {}
<1>1. semval[1] = 0
  BY DEF LibInv, SP!KeepInv, SP!IInv, SP!Uninitialised
<1>. QED
  BY <1>1, CriticalCounts

LEMMA CreateExcludes ==
  ASSUME LibInv, NEW p \in Procs, Lib!Critical' = Lib!Critical, LibCreates(p)
  PROVE  LibExclusive'
<1>. USE LibTypes
<1>1. SP!KeepInv /\ SP!IInv
  BY DEF LibInv, SP!KeepInv
<1>2. CASE SP!CreateGet(p) \/ SP!CreateLock(p) \/ SP!CreateGetval(p) \/ SP!CreateEnd(p)
  <2>1. semval'[0] = semval[0] /\ \A q \in Procs : semadj'[q][0] = semadj[q][0]
    BY <1>1, <1>2, LibraryFacts, SP!ValueKept
  <2>2. semval'[1] # 0 => semval[1] # 0
    BY <1>1, <1>2, LibraryFacts, SP!ZeroStays
  <2>3. \A q \in Procs : pc'[q] = "c_set1" /\ SP!Valid(q)' => pc[q] = "c_set1" /\ SP!Valid(q)
    BY <1>2 DEF SP!CreateGet, SP!CreateLock, SP!CreateGetval, SP!CreateEnd, SP!Goto, SP!Valid
  <2>. QED
    BY <2>1, <2>2, <2>3, ValueUnmoved
<1>3. CASE SP!CreateSet0(p)
  <2>1. SP!Valid(p)
    BY <1>3 DEF SP!CreateSet0, LibInv, SP!KeepInv, SP!SetKept, SP!Locked
  <2>2. semval[1] = 0 /\ Lib!Critical = {}
    BY <1>3, <2>1, SettingAlone DEF SP!CreateSet0
  <2>3. semval'[1] = 0
    BY <1>1, <1>3, <2>2, LibraryFacts, SP!ZeroStays
  <2>4. semval'[0] = 1 /\ \A q \in Procs : semadj'[q][0] = 0
    BY <1>1, <1>3, <2>1 DEF SP!CreateSet0, SP!SetVal, SP!IInv, SP!Shape, SP!Members
  <2>. QED
    BY <2>2, <2>3, <2>4 DEF LibExclusive
<1>4. CASE SP!CreateSet1(p)
  <2>1. SP!Valid(p)
    BY <1>4 DEF SP!CreateSet1, LibInv, SP!KeepInv, SP!SetKept, SP!Locked
  <2>2. Lib!Critical = {} /\ semval[0] = 1
    BY <1>4, <2>1, SettingAlone DEF SP!CreateSet1, LibInv, LibExclusive
  <2>3. semval'[0] = semval[0] /\ \A q \in Procs : semadj'[q][0] = semadj[q][0]
    BY <1>1, <1>4, LibraryFacts, SP!ValueKept
  <2>. QED
    BY <2>2, <2>3 DEF LibExclusive, LibInv
<1>. QED
  BY <1>2, <1>3, <1>4 DEF LibCreates

LEMMA CloseExcludes ==
  ASSUME LibInv, NEW p \in Procs, Lib!Critical' = Lib!Critical, LibCloses(p)
  PROVE  LibExclusive'
<1>. USE LibTypes
<1>1. SP!KeepInv /\ SP!IInv
  BY DEF LibInv, SP!KeepInv
<1>2. CASE SP!CloseCall(p) \/ SP!CloseStep(p)
  <2>1. semval'[0] = semval[0] /\ \A q \in Procs : semadj'[q][0] = semadj[q][0]
    BY <1>1, <1>2, LibraryFacts, SP!ValueKept
  <2>2. semval'[1] # 0 => semval[1] # 0
    BY <1>1, <1>2, LibraryFacts, SP!ZeroStays
  <2>3. \A q \in Procs : pc'[q] = "c_set1" /\ SP!Valid(q)' => pc[q] = "c_set1" /\ SP!Valid(q)
    BY <1>2 DEF SP!CloseCall, SP!CloseStep, SP!CloseLock, SP!CloseGetval, SP!CloseUnlock,
                SP!Goto, SP!Valid, SP!kernelVars
  <2>. QED
    BY <2>1, <2>2, <2>3, ValueUnmoved
<1>3. CASE SP!SemRm(p)
  <2>1. pc[p] = "x_rm" /\ SP!Valid(p) /\ SP!Users = {}
    BY <1>3 DEF SP!SemRm, LibInv, SP!KeepInv, SP!SetKept, SP!LastCloser, SP!Locked
  <2>2. Lib!Critical = {}
    BY <2>1, CriticalCounts
  <2>3. semval'[1] = 0 /\ \A q \in Procs : semadj'[q][0] = 0 /\ ~SP!Valid(q)'
    BY <1>3, <2>1 DEF SP!SemRm, SP!Remove, SP!Zeros, SP!Members, SP!Valid
  <2>. QED
    BY <2>2, <2>3 DEF LibExclusive
<1>. QED
  BY <1>2, <1>3 DEF LibCloses

\* The undo at exit opens the lock for the next exactly if the process was inside.
LEMMA ExitExcludes ==
  ASSUME LibInv, NEW p \in Procs, Lib!Critical' = Lib!Critical \ {p}, SP!Exit(p)
  PROVE  LibExclusive'
<1>. USE LibTypes, LibraryFacts
<1>1. SP!KeepInv /\ SP!IInv
  BY DEF LibInv, SP!KeepInv
<1>2. /\ semval'[0] = SP!Clamp(semval[0] + semadj[p][0])
      /\ semadj'[p][0] = 0 /\ \A q \in Procs : q # p => semadj'[q][0] = semadj[q][0]
  BY <1>1 DEF SP!Exit, SP!Zeros, SP!Members, SP!IInv, SP!Shape
<1>3. semval'[1] # 0 => semval[1] # 0
  BY <1>1, SP!ZeroStays
<1>4. \A q \in Procs : pc'[q] = "c_set1" /\ SP!Valid(q)' => pc[q] = "c_set1" /\ SP!Valid(q)
  BY DEF SP!Exit, SP!Goto, SP!Valid
<1>5. CASE p \notin Lib!Critical
  <2>1. semval'[0] = semval[0] /\ semadj[p][0] = 0
    BY <1>2, <1>5 DEF LibInv, LibExclusive, SP!Clamp
  <2>. QED
    BY <1>2, <1>3, <1>4, <1>5, <2>1, ValueUnmoved
<1>6. CASE p \in Lib!Critical
  <2>1. Lib!Critical = {p} /\ semadj[p][0] = 1 /\ semval[1] # 0 /\ semval[0] = 0
    BY <1>6, CriticalCounts DEF LibInv, LibExclusive
  <2>2. semval'[0] = 1
    BY <1>2, <2>1 DEF SP!Clamp
  <2>. QED
    BY <1>2, <1>4, <2>1, <2>2 DEF LibInv, LibExclusive
<1>. QED
  BY <1>5, <1>6

LEMMA LibExclusiveStep == ASSUME LibInv, Lib!Next PROVE LibExclusive'
<1>. USE LibTypes
<1>1. PICK p \in Procs : LibMoves(p)
  BY LibSteps
<1>. USE DEF Lib!At
<1>2. CASE Lib!Begin(p, "create") /\ SP!CreateGet(p)
  <2>1. Lib!Critical' = Lib!Critical
    BY <1>2 DEF Lib!Begin, Lib!Critical
  <2>. QED
    BY <1>2, <2>1, CreateExcludes DEF LibCreates
<1>3. CASE Lib!Step(p, "create", IF pc'[p] = "open" THEN "wait" ELSE "create") /\ LibCreates(p)
  <2>1. Lib!Critical' = Lib!Critical
    BY <1>3 DEF Lib!Step, Lib!Critical
  <2>. QED
    BY <1>3, <2>1, CreateExcludes
<1>4. CASE Lib!Step(p, "wait", "read") /\ SP!SemOp(p, -1)
  <2>1. Lib!Critical' = {p}
    BY <1>4, WaitEffect, CriticalStep DEF Lib!Step
  <2>2. pc[p] = "open"
    BY <1>4 DEF Lib!Step, LibInv, LibCoupled
  <2>3. \A q \in Procs : ~(pc[q] = "c_set1" /\ SP!Valid(q))
    BY <2>2, OpenCounts, SettingAlone
  <2>. QED
    BY <1>4, <2>1, <2>3, WaitEffect DEF Lib!Step, LibExclusive, LibInv, SP!Valid
<1>5. CASE Lib!NextRound(p, "signal", "wait", "close") /\ SP!SemOp(p, 1)
  <2>1. Lib!Critical' = {}
    BY <1>5, SignalEffect DEF Lib!NextRound, Lib!Critical
  <2>. QED
    BY <1>5, <2>1, SignalEffect DEF Lib!NextRound, LibExclusive, LibInv, SP!Valid
<1>6. CASE Lib!Step(p, "close", IF pc'[p] = "idle" THEN "exit" ELSE "close") /\ LibCloses(p)
  <2>1. Lib!Critical' = Lib!Critical
    BY <1>6 DEF Lib!Step, Lib!Critical
  <2>. QED
    BY <1>6, <2>1, CloseExcludes
<1>7. CASE (Lib!Read(p) \/ Lib!Write(p, "signal")) /\ UNCHANGED Lib!semVars
  <2>1. Lib!Critical' = Lib!Critical
    BY <1>7 DEF Lib!Read, Lib!Write, Lib!Critical
  <2>. QED
    BY <1>7, <2>1, ValueUnmoved DEF Lib!semVars, SP!Valid
<1>8. CASE Lib!Stop(p) /\ SP!Exit(p)
  <2>1. Lib!Critical' = Lib!Critical \ {p}
    BY <1>8 DEF Lib!Stop, Lib!Critical
  <2>. QED
    BY <1>8, <2>1, ExitExcludes
<1>. QED
  BY <1>1, <1>2, <1>3, <1>4, <1>5, <1>6, <1>7, <1>8 DEF LibMoves

-----------------------------------------------------------------------------
LEMMA InitLibInv == ASSUME Lib!Init PROVE LibInv
<1>1. Lib!Critical = {} /\ \A p \in Procs : main[p] = "stopped"
  BY DEF Lib!Init, Lib!MainInit, Lib!Critical
<1>2. /\ \A p \in Procs : pc[p] = "idle" /\ semadj[p][0] = 0
      /\ semval[1] = 0
  BY DEF Lib!Init, Lib!Sem!Init, Lib!Sem!Zeros, Lib!Sem!Members
<1>3. LibCoupled
  BY <1>1, <1>2 DEF LibCoupled, SP!Using
<1>4. LibExclusive
  BY <1>1, <1>2 DEF LibExclusive
<1>5. LibFresh
  BY <1>1 DEF LibFresh, Lib!Init, Lib!MainInit
<1>. QED
  BY <1>3, <1>4, <1>5, KeepStart DEF LibInv

LEMMA StutterLibInv == ASSUME LibInv, UNCHANGED Lib!vars PROVE LibInv'
<1>1. UNCHANGED SP!semVars
  BY DEF Lib!vars, Lib!semVars, SP!semVars
<1>2. SP!KeepInv'
  BY <1>1, LibraryFacts, SP!KeepNext DEF LibInv
<1>3. LibCoupled' /\ LibExclusive' /\ LibFresh'
  BY DEF Lib!vars, Lib!semVars, Lib!mainVars, LibInv, LibCoupled, LibExclusive, LibFresh,
       Lib!Critical, SP!Valid
<1>. QED
  BY <1>2, <1>3 DEF LibInv

LEMMA NextLibInv == ASSUME LibInv, [Lib!Next]_(Lib!vars) PROVE LibInv'
BY KeepStep, LibCoupledStep, LibExclusiveStep, LibFreshStep, StutterLibInv DEF LibInv

LEMMA ExcludesFromLib == ASSUME LibInv PROVE Lib!OneAtATime
<1>0. \A S : Lib!Cardinality(S) = Cardinality(S)
  BY DEF Lib!Cardinality, Cardinality
<1>1. CASE Lib!Critical = {}
  <2>1. Lib!Cardinality(Lib!Critical) = 0
    BY <1>0, <1>1, FS_EmptySet
  <2>. QED
    BY <1>1, <2>1 DEF LibInv, LibExclusive, Lib!OneAtATime
<1>2. CASE Lib!Critical # {}
  <2>0. PICK p \in Lib!Critical : TRUE
    BY <1>2
  <2>1. Lib!Critical = {p}
    BY <2>0 DEF LibInv, LibExclusive
  <2>2. Cardinality({p}) = 1
    BY FS_Singleton
  <2>3. Lib!Cardinality(Lib!Critical) = 1
    BY <1>0, <2>1, <2>2
  <2>. QED
    BY <1>2, <2>3 DEF LibInv, LibExclusive, Lib!OneAtATime
<1>. QED
  BY <1>1, <1>2

\* Every write of the number is its increment.
LEMMA LibWriteNext ==
  ASSUME LibInv, Lib!Next, NEW p \in Procs, main[p] = "write", main'[p] \notin {"write", "stopped"}
  PROVE  file' = file + 1
<1>1. PICK q \in Procs :
           \/ Lib!Begin(q, "create") \/ Lib!Read(q) \/ Lib!Write(q, "signal") \/ Lib!Stop(q)
           \/ Lib!NextRound(q, "signal", "wait", "close")
           \/ \E here \in {"create", "wait", "close"} : \E there : Lib!Step(q, here, there)
  BY LibSteps DEF LibMoves
<1>2. main[q] = "write" /\ q = p
  BY <1>1 DEF LibInv, LibFresh, Lib!Begin, Lib!Read, Lib!Write, Lib!Stop, Lib!NextRound,
       Lib!Step, Lib!At
<1>3. Lib!Write(p, "signal")
  BY <1>1, <1>2 DEF LibInv, LibFresh, Lib!Begin, Lib!Read, Lib!Stop, Lib!NextRound, Lib!Step,
       Lib!At
<1>. QED
  BY <1>3 DEF LibInv, LibFresh, Lib!Write

\* The library's type invariant.
LEMMA LibTypesFromInv == ASSUME LibInv PROVE Lib!Sem!TypeOK
<1>1. SP!TypeOK
  BY LibraryFacts, SP!TypeFromInv DEF LibInv, SP!KeepInv
<1>. QED
  BY <1>1 DEF SP!TypeOK, Lib!Sem!TypeOK, SP!Members, Lib!Sem!Members, SP!Points, Lib!Sem!Points,
     SP!Creating, Lib!Sem!Creating, SP!Closing, Lib!Sem!Closing, SP!Using, Lib!Sem!Using,
     SP!Failures,
     Lib!Sem!Failures

LEMMA SpecLibInv == Lib!Spec => []LibInv
<1>1. Lib!Init => LibInv
  BY InitLibInv
<1>2. LibInv /\ [Lib!Next]_(Lib!vars) => LibInv'
  BY NextLibInv
<1>. QED
  BY <1>1, <1>2, PTL DEF Lib!Spec

\* The semaphore of the library is a lock, however often its processes are killed: one
\* process at a time is inside, and the value says whether one is.
THEOREM LibraryExcludes == Lib!Spec => []Lib!OneAtATime
<1>1. LibInv => Lib!OneAtATime
  BY ExcludesFromLib
<1>. QED
  BY <1>1, SpecLibInv, PTL

\* No sem_wait or sem_signal finds the semaphore removed, or leaves the range of its value.
THEOREM LibraryNeverFails == Lib!Spec => []Lib!NeverRemovedInUse
<1>1. LibInv => Lib!NeverRemovedInUse
  BY DEF LibInv, LibCoupled, Lib!NeverRemovedInUse
<1>. QED
  BY <1>1, SpecLibInv, PTL

\* Under the library no number is given out twice and none is skipped.
THEOREM LibraryLosesNoUpdate == Lib!Spec => Lib!NoLostUpdate
<1>1. LibInv /\ [Lib!Next]_(Lib!vars) => [\A p \in Procs :
         main[p] = "write" /\ main'[p] \notin {"write", "stopped"}
           => file' = file + 1]_(Lib!mainVars)
  BY LibWriteNext DEF Lib!vars
<1>. QED
  BY <1>1, SpecLibInv, PTL DEF Lib!Spec, Lib!NoLostUpdate

-----------------------------------------------------------------------------
(* All the programs *)

IInv ==
  /\ kind \in Linked
  /\ kind = "library" => LibInv
  /\ kind # "library" => LocksInv /\ \A p \in Procs : pc[p] = "idle"

-----------------------------------------------------------------------------
LEMMA InitIInv == Init => IInv
<1>. SUFFICES ASSUME Init PROVE IInv
  OBVIOUS
<1>1. CASE kind = "library"
  <2>1. Lib!Init
    BY <1>1 DEF Init, Lib!Init, Lib!Init, Lib!MainInit, Lib!MainInit, MainInit, Lib!Sem!Init,
                Lib!Sem!Init, Lib!Sem!Zeros, Lib!Sem!Zeros, Lib!Sem!Members, Lib!Sem!Members
  <2>. QED
    BY <1>1, <2>1, SeqMainAssumption, InitLibInv DEF IInv, Init
<1>2. CASE kind # "library"
  <2>1. Locks!Init
    BY <1>2 DEF Init, Locks!Init, Locks!LockInit, Locks!LockInit, MainInit, Locks!MainInit
  <2>. QED
    BY <1>2, <2>1, SeqMainAssumption, InitLocksInv DEF IInv, Init, Lib!Init, Lib!Sem!Init
<1>. QED
  BY <1>1, <1>2

LEMMA KindStays == Next => kind' = kind
<1>1. \A p : Locks!Start(p) \/ Locks!Run(p) \/ Locks!Exit(p) => kind' = kind
  BY DEF Locks!Start, Locks!Run, Locks!Exit, Locks!Lock, Locks!LinkCreat, Locks!LinkLink,
         Locks!LinkUnlink, Locks!Takes, Locks!Unlock, Locks!lockVars
<1>. QED
  BY <1>1 DEF Next, Start, Run, Exit, WithLibrary, WithLocks, lockVars

LEMMA NextIInv == IInv /\ [Next]_vars => IInv'
<1>. SUFFICES ASSUME IInv, [Next]_vars PROVE IInv'
  OBVIOUS
<1>1. kind' = kind
  BY KindStays DEF vars, lockVars
<1>2. CASE kind = "library"
  <2>1. [Lib!Next]_(Lib!vars)
    BY <1>2 DEF Next, Lib!Next, Start, Run, Exit, WithLocks, vars, mainVars, semVars,
       Lib!vars, Lib!mainVars, Lib!semVars
  <2>. QED
    BY <1>1, <1>2, <2>1, SeqMainAssumption, NextLibInv DEF IInv
<1>3. CASE kind # "library"
  <2>1. [Locks!Next]_(Locks!vars)
    BY <1>3 DEF Next, Start, Run, Exit, Locks!Next, WithLibrary, vars, mainVars, lockVars,
       Locks!vars, Locks!mainVars, Locks!lockVars
  <2>2. UNCHANGED semVars
    BY <1>3 DEF Next, Start, Run, Exit, WithLibrary, WithLocks, vars
  <2>. QED
    BY <1>1, <1>3, <2>1, <2>2, SeqMainAssumption, NextLocksInv DEF IInv, semVars
<1>. QED
  BY <1>2, <1>3

LEMMA SpecIInv == Spec => []IInv
  BY InitIInv, NextIInv, PTL DEF Spec

\* One process at a time is inside, whichever the lock and whoever was killed.
THEOREM EveryLockExcludes == Spec => []OneAtATime
<1>1. IInv => OneAtATime
  <2>. SUFFICES ASSUME IInv PROVE OneAtATime
    OBVIOUS
  <2>1. CASE kind = "library"
    <3>1. Lib!OneAtATime
      BY <2>1, SeqMainAssumption, ExcludesFromLib DEF IInv
    <3>. QED
      BY <2>1, <3>1 DEF OneAtATime, Lib!OneAtATime, Lib!OneAtATime, Lib!Critical, Lib!Critical,
         Lib!Cardinality, Lib!Cardinality
  <2>2. CASE kind # "library"
    <3>1. Locks!OneAtATime
      BY <2>2, SeqMainAssumption, ExcludesFromLocks DEF IInv
    <3>. QED
      BY <2>2, <3>1 DEF OneAtATime, Locks!OneAtATime, Locks!OneAtATime, Locks!Holders,
         Locks!Holders, Locks!Unheld, Locks!Unheld, Locks!Left, Locks!Left,
         Locks!Cardinality, Locks!Cardinality
  <2>. QED
    BY <2>1, <2>2
<1>. QED
  BY SpecIInv, <1>1, PTL

\* sem_wait and sem_signal never find the semaphore removed.
THEOREM SemaphoreStays == Spec => []NeverRemovedInUse
<1>1. IInv => NeverRemovedInUse
  BY DEF IInv, LibInv, LibCoupled, NeverRemovedInUse, Lib!NeverRemovedInUse
<1>. QED
  BY SpecIInv, <1>1, PTL

\* No number is given out twice and none is skipped, with any lock, and whoever was killed.
THEOREM NoUpdateLost == Spec => NoLostUpdate
<1>1. IInv /\ [Next]_vars => [\A p \in Procs :
         main[p] = "write" /\ main'[p] \notin {"write", "stopped"} => file' = file + 1]_mainVars
  <2>. SUFFICES ASSUME IInv, Next, NEW p \in Procs,
                       main[p] = "write", main'[p] \notin {"write", "stopped"}
                PROVE  file' = file + 1
    BY DEF vars
  <2>1. CASE kind = "library"
    <3>1. Lib!Next
      BY <2>1 DEF Next, Lib!Next, Start, Run, Exit, WithLocks
    <3>. QED
      BY <2>1, <3>1, SeqMainAssumption, LibWriteNext DEF IInv
  <2>2. CASE kind # "library"
    <3>1. Locks!Next
      BY <2>2 DEF Next, Start, Run, Exit, Locks!Next, WithLibrary
    <3>. QED
      BY <2>2, <3>1, SeqMainAssumption, LocksWriteNext DEF IInv
  <2>. QED
    BY <2>1, <2>2
<1>. QED
  BY SpecIInv, <1>1, PTL DEF Spec, NoLostUpdate

-----------------------------------------------------------------------------
(* The numbers: every start of the program writes at most Rounds of them *)

Labels == {"stopped", "create", "wait", "read", "write", "signal", "close", "exit", "lock",
           "link", "unlink_temp", "unlock", "can't creat temp file"}
Looping == Labels \ {"stopped", "close", "exit", "can't creat temp file"}
After == {"signal", "unlock"}

\* The writes that the running processes still have before them, as <<process, iteration>>.
Written(p) == round[p] + (IF main[p] \in After THEN 1 ELSE 0)
Remaining ==
  {r \in Procs \X (0 .. Rounds - 1) : main[r[1]] # "stopped" /\ Written(r[1]) =< r[2]}

Ranges ==
  /\ main \in [Procs -> Labels] /\ round \in [Procs -> 0 .. Rounds]
  /\ seqno \in [Procs -> Nat] /\ file \in Nat \ {0} /\ starts \in 0 .. MaxStarts
  /\ \A p \in Procs : /\ main[p] = "stopped" => round[p] = 0
                      /\ main[p] \in Looping => round[p] < Rounds

Counted ==
  /\ file + Cardinality(Remaining) =< 1 + starts * Rounds
  /\ \A p \in Procs : seqno[p] =< 1 + starts * Rounds

\* What a process does to the variables of main(), with any lock.
Begins(p) ==
  /\ main[p] = "stopped" /\ starts < MaxStarts /\ starts' = starts + 1
  /\ \E there \in {"create", "lock"} : main' = [main EXCEPT ![p] = there]
  /\ UNCHANGED <<round, seqno, file>>
Passes(p) ==
  /\ \E there \in Labels \ {"stopped", "signal", "unlock"} :
       /\ main' = [main EXCEPT ![p] = there]
       /\ there \in Looping => main[p] \in Looping
  /\ main[p] \notin {"stopped", "signal", "unlock"}
  /\ UNCHANGED <<round, seqno, starts, file>>
Reads(p) ==
  /\ main[p] = "read" /\ main' = [main EXCEPT ![p] = "write"]
  /\ seqno' = [seqno EXCEPT ![p] = file + 1]
  /\ UNCHANGED <<round, starts, file>>
Writes(p) ==
  /\ main[p] = "write" /\ \E there \in After : main' = [main EXCEPT ![p] = there]
  /\ file' = seqno[p]
  /\ UNCHANGED <<round, seqno, starts>>
Repeats(p) ==
  /\ main[p] \in After
  /\ \E there \in Labels \ {"stopped", "signal", "unlock"} :
       /\ main' = [main EXCEPT ![p] = there]
       /\ there \in Looping => round[p] + 1 < Rounds
  /\ round' = [round EXCEPT ![p] = @ + 1]
  /\ UNCHANGED <<seqno, starts, file>>
Stops(p) ==
  /\ main[p] # "stopped" /\ main' = [main EXCEPT ![p] = "stopped"]
  /\ round' = [round EXCEPT ![p] = 0] /\ seqno' = [seqno EXCEPT ![p] = 0]
  /\ UNCHANGED <<starts, file>>

LEMMA MovesLibrary == ASSUME NEW p \in Procs, Lib!Start(p) \/ Lib!Run(p) \/ Lib!Exit(p)
  PROVE  Begins(p) \/ Passes(p) \/ Reads(p) \/ Writes(p) \/ Repeats(p) \/ Stops(p)
<1>. USE DEF Lib!At, Lib!Step, Labels, Looping, After
<1>1. CASE Lib!Start(p)
  BY <1>1 DEF Lib!Start, Lib!Begin, Begins
<1>2. CASE Lib!Create(p) \/ Lib!Wait(p) \/ Lib!Close(p)
  <2>1. PICK here \in {"create", "wait", "close"},
             there \in {"create", "wait", "read", "close", "exit"} :
          /\ main[p] = here /\ main' = [main EXCEPT ![p] = there]
          /\ here = "close" => there \in {"close", "exit"}
          /\ UNCHANGED <<round, seqno, starts, file>>
    <3>1. CASE Lib!Create(p)
      BY <3>1 DEF Lib!Create
    <3>2. CASE Lib!Wait(p)
      BY <3>2 DEF Lib!Wait
    <3>3. CASE Lib!Close(p)
      BY <3>3 DEF Lib!Close
    <3>. QED
      BY <1>2, <3>1, <3>2, <3>3
  <2>. QED
    BY <2>1 DEF Passes
<1>3. CASE Lib!Increment(p)
  BY <1>3 DEF Lib!Increment, Lib!Read, Lib!Write, Reads, Writes
<1>4. CASE Lib!Signal(p)
  <2>1. PICK there \in {"wait", "close"} :
          /\ main' = [main EXCEPT ![p] = there]
          /\ there = "wait" => round[p] + 1 < Rounds
    BY <1>4 DEF Lib!Signal, Lib!NextRound, Lib!Again
  <2>2. /\ main[p] \in After /\ round' = [round EXCEPT ![p] = @ + 1]
        /\ UNCHANGED <<seqno, starts, file>>
    BY <1>4 DEF Lib!Signal, Lib!NextRound
  <2>. QED
    BY <2>1, <2>2 DEF Repeats
<1>5. CASE Lib!Exit(p)
  BY <1>5 DEF Lib!Exit, Lib!Stop, Stops
<1>. QED
  BY <1>1, <1>2, <1>3, <1>4, <1>5 DEF Lib!Run

LEMMA MovesLocks == ASSUME NEW p \in Procs, Locks!Start(p) \/ Locks!Run(p) \/ Locks!Exit(p)
  PROVE  Begins(p) \/ Passes(p) \/ Reads(p) \/ Writes(p) \/ Repeats(p) \/ Stops(p)
<1>. USE DEF Locks!At, Locks!Step, Labels, Looping, After
<1>1. CASE Locks!Start(p)
  BY <1>1 DEF Locks!Start, Locks!Begin, Begins
<1>2. CASE Locks!Lock(p) \/ Locks!LinkCreat(p) \/ Locks!LinkLink(p) \/ Locks!LinkUnlink(p)
  <2>1. PICK here \in {"lock", "link", "unlink_temp"},
             there \in {"can't creat temp file", "link", "unlink_temp", "read"} :
          /\ main[p] = here /\ main' = [main EXCEPT ![p] = there]
          /\ UNCHANGED <<round, seqno, starts, file>>
    <3>1. CASE Locks!Lock(p)
      BY <3>1 DEF Locks!Lock
    <3>2. CASE Locks!LinkCreat(p)
      BY <3>2 DEF Locks!LinkCreat
    <3>3. CASE Locks!LinkLink(p)
      BY <3>3 DEF Locks!LinkLink
    <3>4. CASE Locks!LinkUnlink(p)
      BY <3>4 DEF Locks!LinkUnlink
    <3>. QED
      BY <1>2, <3>1, <3>2, <3>3, <3>4
  <2>. QED
    BY <2>1 DEF Passes
<1>3. CASE Locks!Increment(p)
  BY <1>3 DEF Locks!Increment, Locks!Read, Locks!Write, Reads, Writes
<1>4. CASE Locks!Unlock(p)
  <2>1. PICK there \in {"lock", "exit"} :
          /\ main' = [main EXCEPT ![p] = there]
          /\ there = "lock" => round[p] + 1 < Rounds
    BY <1>4 DEF Locks!Unlock, Locks!NextRound, Locks!Again
  <2>2. /\ main[p] \in After /\ round' = [round EXCEPT ![p] = @ + 1]
        /\ UNCHANGED <<seqno, starts, file>>
    BY <1>4 DEF Locks!Unlock, Locks!NextRound
  <2>. QED
    BY <2>1, <2>2 DEF Repeats
<1>5. CASE Locks!Exit(p)
  BY <1>5 DEF Locks!Exit, Locks!Stop, Stops
<1>. QED
  BY <1>1, <1>2, <1>3, <1>4, <1>5 DEF Locks!Run

LEMMA Moves == ASSUME Next
  PROVE  \E p \in Procs :
           Begins(p) \/ Passes(p) \/ Reads(p) \/ Writes(p) \/ Repeats(p) \/ Stops(p)
BY MovesLibrary, MovesLocks DEF Next, Start, Run, Exit, WithLibrary, WithLocks

LEMMA WriteFollows == ASSUME IInv, NEW p \in Procs, main[p] = "write" PROVE seqno[p] = file + 1
BY DEF IInv, LibInv, LibFresh, LocksInv, LocksFresh

LEMMA RangesStep == ASSUME IInv, Ranges, Next PROVE Ranges'
<1>. USE SeqMainAssumption DEF Ranges
<1>1. PICK p \in Procs :
        Begins(p) \/ Passes(p) \/ Reads(p) \/ Writes(p) \/ Repeats(p) \/ Stops(p)
  BY Moves
<1>2. PICK there \in Labels :
        /\ main' = [main EXCEPT ![p] = there]
        /\ there = "stopped" => round'[p] = 0
        /\ there \in Looping => round'[p] < Rounds
  <2>1. CASE Begins(p)
    <3>1. PICK there \in {"create", "lock"} : main' = [main EXCEPT ![p] = there]
      BY <2>1 DEF Begins
    <3>2. there \in Labels /\ there # "stopped"
      BY <3>1 DEF Labels
    <3>3. round'[p] = 0 /\ 0 < Rounds
      BY <2>1 DEF Begins
    <3>4. round'[p] < Rounds
      BY <3>3
    <3>. QED
      BY <3>1, <3>2, <3>4
  <2>2. CASE Passes(p)
    BY <2>2 DEF Passes, Labels, Looping
  <2>3. CASE Reads(p)
    BY <2>3 DEF Reads, Labels, Looping
  <2>4. CASE Writes(p)
    <3>1. PICK there \in After : main' = [main EXCEPT ![p] = there]
      BY <2>4 DEF Writes
    <3>2. round'[p] < Rounds /\ there \in Labels /\ there # "stopped"
      BY <2>4 DEF Writes, Labels, Looping, After
    <3>. QED
      BY <3>1, <3>2
  <2>5. CASE Repeats(p)
    BY <2>5 DEF Repeats
  <2>6. CASE Stops(p)
    BY <2>6 DEF Stops, Labels, Looping
  <2>. QED
    BY <1>1, <2>1, <2>2, <2>3, <2>4, <2>5, <2>6
<1>3. /\ round' \in [Procs -> 0 .. Rounds] /\ \A q \in Procs \ {p} : round'[q] = round[q]
  <2>1. CASE Repeats(p)
    <3>1. round[p] < Rounds
      BY <2>1 DEF Repeats, After, Looping, Labels
    <3>. QED
      BY <2>1, <3>1 DEF Repeats
  <2>. QED
    BY <1>1, <2>1 DEF Begins, Passes, Reads, Writes, Stops
<1>4. /\ main' \in [Procs -> Labels]
      /\ \A q \in Procs : /\ main'[q] = "stopped" => round'[q] = 0
                          /\ main'[q] \in Looping => round'[q] < Rounds
  BY <1>2, <1>3
<1>5. seqno' \in [Procs -> Nat] /\ file' \in Nat \ {0} /\ starts' \in 0 .. MaxStarts
  <2>1. CASE Writes(p)
    BY <2>1, WriteFollows DEF Writes
  <2>. QED
    BY <1>1, <2>1 DEF Begins, Passes, Reads, Repeats, Stops
<1>. QED
  BY <1>3, <1>4, <1>5

\* A step of p changes what p has before it, and that of no other process.
LEMMA Others == ASSUME IInv, Ranges, NEW p \in Procs,
    Begins(p) \/ Passes(p) \/ Reads(p) \/ Writes(p) \/ Repeats(p) \/ Stops(p)
  PROVE  \A q \in Procs \ {p} : /\ main'[q] = main[q] /\ round'[q] = round[q]
                                /\ Written(q)' = Written(q)
BY DEF Ranges, Begins, Passes, Reads, Writes, Repeats, Stops, Written

\* All of them are finitely many.
LEMMA RemainingFinite ==
  /\ IsFiniteSet(Remaining) /\ Cardinality(Remaining) \in Nat
  /\ IsFiniteSet(Remaining') /\ Cardinality(Remaining') \in Nat
<1>1. IsFiniteSet(Procs) /\ IsFiniteSet(0 .. Rounds - 1)
  BY FS_Interval, LibraryAssumption, SeqMainAssumption
<1>2. IsFiniteSet(Procs \X (0 .. Rounds - 1))
  BY <1>1, FS_Product
<1>3. /\ Remaining \in SUBSET (Procs \X (0 .. Rounds - 1))
      /\ Remaining' \in SUBSET (Procs \X (0 .. Rounds - 1))
  BY DEF Remaining
<1>. QED
  BY <1>2, <1>3, FS_Subset, FS_CardinalityType

\* A start adds a writing for each iteration, a writing is one less, and nothing else adds.
LEMMA RemainingStep == ASSUME IInv, Ranges, NEW p \in Procs
  PROVE  /\ Begins(p) => Cardinality(Remaining') =< Cardinality(Remaining) + Rounds
         /\ Writes(p) => Cardinality(Remaining') + 1 =< Cardinality(Remaining)
         /\ Passes(p) \/ Reads(p) \/ Repeats(p) \/ Stops(p) =>
              Cardinality(Remaining') =< Cardinality(Remaining)
<1>. USE SeqMainAssumption, RemainingFinite
<1>1. ASSUME Begins(p) PROVE Cardinality(Remaining') =< Cardinality(Remaining) + Rounds
  <2>1. Remaining' \subseteq Remaining \cup ({p} \X (0 .. Rounds - 1))
    BY <1>1, Others DEF Remaining
  <2>2. /\ IsFiniteSet({p} \X (0 .. Rounds - 1))
        /\ Cardinality({p} \X (0 .. Rounds - 1)) = Rounds
    <3>1. IsFiniteSet({p}) /\ Cardinality({p}) = 1
      BY FS_Singleton
    <3>2. IsFiniteSet(0 .. Rounds - 1) /\ Cardinality(0 .. Rounds - 1) = Rounds
      <4>1. /\ 0 \in Int /\ Rounds - 1 \in Int
            /\ ~(0 > Rounds - 1) /\ (Rounds - 1) - 0 + 1 = Rounds
        OBVIOUS
      <4>. HIDE SeqMainAssumption
      <4>2. /\ IsFiniteSet(0 .. Rounds - 1)
            /\ Cardinality(0 .. Rounds - 1)
                 = IF 0 > Rounds - 1 THEN 0 ELSE (Rounds - 1) - 0 + 1
        BY <4>1, FS_Interval
      <4>. QED
        BY <4>1, <4>2
    <3>3. Cardinality({p} \X (0 .. Rounds - 1)) = Cardinality({p}) * Cardinality(0 .. Rounds - 1)
      BY <3>1, <3>2, FS_Product
    <3>4. IsFiniteSet({p} \X (0 .. Rounds - 1))
      BY <3>1, <3>2, FS_Product
    <3>. QED
      BY <3>1, <3>2, <3>3, <3>4
  <2>3. /\ IsFiniteSet(Remaining \cup ({p} \X (0 .. Rounds - 1)))
        /\ Cardinality(Remaining \cup ({p} \X (0 .. Rounds - 1))) =< Cardinality(Remaining) + Rounds
    <3>1. /\ IsFiniteSet(Remaining \cup ({p} \X (0 .. Rounds - 1)))
          /\ Cardinality(Remaining \cup ({p} \X (0 .. Rounds - 1)))
               = Cardinality(Remaining) + Cardinality({p} \X (0 .. Rounds - 1))
                   - Cardinality(Remaining \cap ({p} \X (0 .. Rounds - 1)))
      BY <2>2, FS_Union
    <3>2. Cardinality(Remaining \cap ({p} \X (0 .. Rounds - 1))) \in Nat
      BY <2>2, FS_Intersection, FS_CardinalityType
    <3>. QED
      BY <2>2, <3>1, <3>2
  <2>4. /\ Cardinality(Remaining \cup ({p} \X (0 .. Rounds - 1))) \in Nat
        /\ Cardinality(Remaining') =< Cardinality(Remaining \cup ({p} \X (0 .. Rounds - 1)))
    BY <2>1, <2>3, FS_Subset, FS_CardinalityType
  <2>. QED
    BY <2>3, <2>4
<1>2. ASSUME Writes(p) PROVE Cardinality(Remaining') + 1 =< Cardinality(Remaining)
  <2>1. /\ main[p] = "write" /\ round[p] \in 0 .. Rounds - 1
        /\ main'[p] \in After /\ round'[p] = round[p]
    <3>1. PICK there \in After : main' = [main EXCEPT ![p] = there]
      BY <1>2 DEF Writes
    <3>2. main[p] = "write" /\ round' = round
      BY <1>2 DEF Writes
    <3>3. round[p] \in 0 .. Rounds /\ round[p] < Rounds
      BY <3>2 DEF Ranges, Looping, Labels
    <3>. QED
      BY <3>1, <3>2, <3>3 DEF Ranges
  <2>2. Written(p) = round[p] /\ Written(p)' = round[p] + 1
    BY <2>1 DEF Written, After
  <2>3. <<p, round[p]>> \in Remaining /\ <<p, round[p]>> \notin Remaining'
    BY <2>1, <2>2 DEF Remaining
  <2>4. Remaining' \subseteq Remaining
    BY <1>2, <2>1, <2>2, Others DEF Remaining
  <2>5. Remaining' \in SUBSET (Remaining \ {<<p, round[p]>>})
    BY <2>3, <2>4
  <2>6. /\ IsFiniteSet(Remaining \ {<<p, round[p]>>})
        /\ Cardinality(Remaining \ {<<p, round[p]>>}) = Cardinality(Remaining) - 1
    BY <2>3, FS_RemoveElement
  <2>7. IsFiniteSet(Remaining') /\ Cardinality(Remaining') =< Cardinality(Remaining) - 1
    BY <2>5, <2>6, FS_Subset
  <2>8. Cardinality(Remaining') \in Nat
    BY <2>7, FS_CardinalityType
  <2>. QED
    BY <2>7, <2>8
<1>3. ASSUME Passes(p) \/ Reads(p) \/ Repeats(p) \/ Stops(p)
      PROVE  Cardinality(Remaining') =< Cardinality(Remaining)
  <2>1. /\ main'[p] # "stopped" => main[p] # "stopped" /\ Written(p)' = Written(p)
        /\ \A q \in Procs \ {p} : main'[q] = main[q] /\ Written(q)' = Written(q)
    <3>1. CASE Repeats(p)
      <4>1. main'[p] \notin After /\ main[p] \in After /\ round'[p] = round[p] + 1
        BY <3>1 DEF Repeats, Ranges, Labels, After
      <4>2. Written(p) = round[p] + 1 /\ Written(p)' = round'[p] + 0 /\ round[p] \in Nat
        BY <4>1 DEF Written, Ranges
      <4>3. Written(p)' = Written(p)
        BY <4>1, <4>2
      <4>4. main[p] # "stopped"
        BY <4>1 DEF After
      <4>. QED
        BY <1>3, <4>3, <4>4, Others
    <3>2. CASE Passes(p) \/ Reads(p) \/ Stops(p)
      <4>1. main'[p] # "stopped" =>
              main[p] # "stopped" /\ main[p] \notin After /\ main'[p] \notin After
                /\ round'[p] = round[p]
        BY <3>2 DEF Passes, Reads, Stops, Ranges, Labels, After
      <4>. QED
        BY <1>3, <4>1, Others DEF Written
    <3>. QED
      BY <1>3, <3>1, <3>2
  <2>2. Remaining' \in SUBSET Remaining
    BY <2>1 DEF Remaining
  <2>. QED
    BY <2>2, FS_Subset
<1>. QED
  BY <1>1, <1>2, <1>3

\* The bound of the numbers.
LEMMA Products == ASSUME NEW n \in Nat, NEW m \in Nat, NEW r \in Nat, n =< m
  PROVE  n * r \in Nat /\ n * r =< m * r /\ (n + 1) * r = n * r + r
<1>1. n * r \in Nat /\ (n + 1) * r = n * r + r
  OBVIOUS
<1>2. PICK d \in Nat : m = n + d
  <2>1. m - n \in Nat /\ m = n + (m - n)
    OBVIOUS
  <2>. QED
    BY <2>1
<1>3. m * r = n * r + d * r /\ d * r \in Nat
  BY <1>2
<1>. QED
  BY <1>1, <1>3

LEMMA CountedStep == ASSUME IInv, Ranges, Counted, Next PROVE Counted'
<1>. USE SeqMainAssumption
<1>1. PICK p \in Procs :
        Begins(p) \/ Passes(p) \/ Reads(p) \/ Writes(p) \/ Repeats(p) \/ Stops(p)
  BY Moves
<1>2. /\ starts \in Nat /\ file \in Nat /\ Rounds \in Nat /\ starts * Rounds \in Nat
      /\ Cardinality(Remaining) \in Nat /\ Cardinality(Remaining') \in Nat
      /\ file + Cardinality(Remaining) =< 1 + starts * Rounds
      /\ \A q \in Procs : seqno[q] \in Nat /\ seqno[q] =< 1 + starts * Rounds
  <2>1. starts \in Nat /\ Rounds \in Nat
    BY DEF Ranges
  <2>2. starts * Rounds \in Nat
    BY <2>1, Products
  <2>. QED
    BY <2>1, <2>2, RemainingFinite DEF Ranges, Counted
<1>3. CASE Begins(p)
  <2>1. starts' = starts + 1 /\ file' = file /\ seqno' = seqno
    BY <1>3 DEF Begins
  <2>2. starts' * Rounds = starts * Rounds + Rounds
    BY <1>2, <2>1, Products
  <2>3. Cardinality(Remaining') =< Cardinality(Remaining) + Rounds
    BY <1>3, RemainingStep
  <2>. QED
    BY <1>2, <2>1, <2>2, <2>3 DEF Counted
<1>4. CASE Reads(p)
  <2>1. starts' = starts /\ file' = file /\ seqno' = [seqno EXCEPT ![p] = file + 1]
    BY <1>4 DEF Reads
  <2>2. <<p, round[p]>> \in Remaining
    <3>1. main[p] = "read" /\ round[p] \in 0 .. Rounds - 1 /\ Written(p) = round[p]
      <4>1. main[p] = "read"
        BY <1>4 DEF Reads
      <4>2. round[p] \in 0 .. Rounds /\ round[p] < Rounds
        BY <4>1 DEF Ranges, Looping, Labels
      <4>. QED
        BY <4>1, <4>2 DEF Written, After
    <3>. QED
      BY <3>1 DEF Remaining
  <2>3. Cardinality(Remaining) >= 1
    BY <2>2, RemainingFinite, FS_EmptySet
  <2>4. file + 1 =< 1 + starts * Rounds
    BY <1>2, <2>3
  <2>5. \A q \in Procs : seqno'[q] =< 1 + starts * Rounds
    BY <1>2, <2>1, <2>4 DEF Ranges
  <2>6. Cardinality(Remaining') =< Cardinality(Remaining)
    BY <1>4, RemainingStep
  <2>. QED
    BY <1>2, <2>1, <2>5, <2>6 DEF Counted
<1>5. CASE Writes(p)
  <2>1. starts' = starts /\ file' = file + 1 /\ seqno' = seqno
    BY <1>5, WriteFollows DEF Writes
  <2>2. Cardinality(Remaining') + 1 =< Cardinality(Remaining)
    BY <1>5, RemainingStep
  <2>. QED
    BY <1>2, <2>1, <2>2 DEF Counted
<1>6. CASE Passes(p) \/ Repeats(p) \/ Stops(p)
  <2>1. /\ starts' = starts /\ file' = file
        /\ \A q \in Procs : seqno'[q] = seqno[q] \/ seqno'[q] = 0
    BY <1>6 DEF Passes, Repeats, Stops, Ranges
  <2>2. Cardinality(Remaining') =< Cardinality(Remaining)
    BY <1>6, RemainingStep
  <2>. QED
    BY <1>2, <2>1, <2>2 DEF Counted
<1>. QED
  BY <1>1, <1>3, <1>4, <1>5, <1>6

LEMMA TypesFromInv == ASSUME IInv, Ranges, Counted PROVE TypeOK
<1>. USE SeqMainAssumption
<1>. DEFINE Top == 1 + MaxStarts * Rounds
<1>1. file \in 1 .. Top /\ seqno \in [Procs -> 0 .. Top]
  <2>1. /\ starts \in Nat /\ MaxStarts \in Nat /\ Rounds \in Nat /\ starts =< MaxStarts
        /\ file \in Nat \ {0} /\ seqno \in [Procs -> Nat]
    BY DEF Ranges
  <2>2. /\ starts * Rounds \in Nat /\ MaxStarts * Rounds \in Nat
        /\ starts * Rounds =< MaxStarts * Rounds
    BY <2>1, Products
  <2>3. file =< 1 + starts * Rounds /\ \A p \in Procs : seqno[p] =< 1 + starts * Rounds
    BY <2>1, <2>2, RemainingFinite DEF Counted
  <2>. QED
    BY <2>1, <2>2, <2>3
<1>2. /\ round \in [Procs -> 0 .. Rounds] /\ starts \in 0 .. MaxStarts
      /\ main \in [Procs -> Labels]
  BY DEF Ranges
<1>3. CASE kind = "library"
  <2>1. Lib!Sem!TypeOK /\ LibCoupled
    BY <1>3, LibTypesFromInv DEF IInv, LibInv
  <2>2. Lib!Sem!TypeOK
    BY <2>1 DEF Lib!Sem!TypeOK, Lib!Sem!TypeOK, Lib!Sem!Members, Lib!Sem!Members,
       Lib!Sem!Points, Lib!Sem!Points, Lib!Sem!Creating, Lib!Sem!Creating,
       Lib!Sem!Closing, Lib!Sem!Closing, Lib!Sem!Using, Lib!Sem!Using, Lib!Sem!Failures,
       Lib!Sem!Failures
  <2>3. main \in [Procs -> {"stopped", "create", "wait", "read", "write", "signal", "close",
                            "exit"}]
    BY <1>2, <2>1 DEF LibCoupled
  <2>4. Lib!MainTypeOK
    BY <1>1, <1>2 DEF Lib!MainTypeOK
  <2>. QED
    BY <1>3, <2>2, <2>3, <2>4 DEF TypeOK, Lib!TypeOK
<1>4. CASE kind # "library"
  <2>1. LocksShape
    BY <1>4 DEF IInv, LocksInv
  <2>2. Locks!MainTypeOK
    BY <1>1, <1>2 DEF Locks!MainTypeOK
  <2>3. Locks!TypeOK
    BY <2>1, <2>2 DEF LocksShape, Locks!TypeOK
  <2>. QED
    BY <1>4, <2>3 DEF TypeOK
<1>. QED
  BY <1>3, <1>4

\* Every variable keeps its type, with any lock.  For the semaphore that is that no value or
\* adjustment leaves the kernel's range; for the file, that the number
\* grows by at most one for each iteration of each start, whoever was killed.
THEOREM TypesCorrect == Spec => []TypeOK
<1>1. Init => Ranges /\ Counted
  <2>. SUFFICES ASSUME Init PROVE Ranges /\ Counted
    OBVIOUS
  <2>1. Ranges
    BY SeqMainAssumption DEF Init, MainInit, Ranges, Labels, Looping
  <2>2. Remaining = {}
    BY DEF Init, MainInit, Remaining
  <2>3. Cardinality(Remaining) = 0
    BY <2>2, FS_EmptySet
  <2>4. starts * Rounds = 0
    BY SeqMainAssumption DEF Init, MainInit
  <2>. QED
    BY <2>1, <2>3, <2>4 DEF Init, MainInit, Counted
<1>2. IInv /\ Ranges /\ Counted /\ [Next]_vars => (Ranges /\ Counted)'
  <2>1. ASSUME Ranges, Counted, UNCHANGED vars PROVE (Ranges /\ Counted)'
    BY <2>1 DEF vars, mainVars, Ranges, Counted, Remaining, Written
  <2>. QED
    BY <2>1, RangesStep, CountedStep
<1>3. IInv /\ Ranges /\ Counted => TypeOK
  BY TypesFromInv
<1>. QED
  BY SpecIInv, <1>1, <1>2, <1>3, PTL DEF Spec
=============================================================================
