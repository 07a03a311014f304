-------------------------- MODULE SemaphoreProofs --------------------------
(***************************************************************************)
(* Proofs about Semaphore, for every set of processes, every BIGCOUNT and  *)
(* SEMVMX, every Initval and every use of sem_op.                          *)
(*                                                                         *)
(* TypeOK is not inductive: that a close does not push [1] past SEMVMX     *)
(* needs CounterExact, and CounterExact needs that SETVAL of [1] runs with *)
(* the lock held, which is LockExclusive.  IInv joins the three.           *)
(***************************************************************************)
EXTENDS Semaphore, FiniteSetTheorems, TLAPS

Shape ==
  /\ live \in BOOLEAN
  /\ semval \in [Members -> Int]
  /\ semval[0] \in 0 .. SEMVMX
  /\ semadj \in [Procs -> [Members -> Int]]
  /\ \A p \in Procs : semadj[p][0] \in -SEMVMX .. SEMVMX
  /\ held \in [Procs -> {"none", "current", "stale"}]
  /\ pc \in [Procs -> Points]

\* The counter is zero until the first creator's second SETVAL.
Uninitialised ==
  \A p \in Procs : pc[p] \in {"c_set0", "c_set1"} /\ Valid(p) => semval[1] = 0

IInv == Shape /\ LockExclusive /\ CounterExact /\ Uninitialised

LEMMA UsersFinite ==
  /\ IsFiniteSet(Users)
  /\ Cardinality(Users) \in Nat
  /\ Cardinality(Users) < BIGCOUNT
<1>1. Users \subseteq Procs
  BY DEF Users
<1>2. IsFiniteSet(Procs) /\ Cardinality(Procs) \in Nat
  BY ProcsAssumption, FS_CardinalityType
<1>3. IsFiniteSet(Users) /\ Cardinality(Users) =< Cardinality(Procs)
  BY <1>1, <1>2, FS_Subset
<1>4. Cardinality(Users) \in Nat
  BY <1>3, FS_CardinalityType
<1>. QED
  BY <1>2, <1>3, <1>4, BoundsAssumption

\* What a successful semop and SETVAL do, member by member.
LEMMA SemopEffect ==
  ASSUME Shape, NEW p \in Procs, NEW d0 \in Int, NEW d1 \in Int, NEW d2 \in Int,
         Semop(p, d0, d1, d2)
  PROVE  /\ semval' \in [Members -> Int]
         /\ semval'[0] = semval[0] + d0
         /\ semval'[1] = semval[1] + d1
         /\ semval'[2] = semval[2] + d2
         /\ semadj' \in [Procs -> [Members -> Int]]
         /\ semadj'[p][0] = semadj[p][0] - d0
         /\ semadj'[p][1] = semadj[p][1] - d1
         /\ semadj'[p][2] = semadj[p][2] - d2
         /\ \A q \in Procs : q # p => semadj'[q] = semadj[q]
BY DEF Shape, Semop, Members

\* The semops of sem_create, sem_open and sem_close leave [0] alone.
LEMMA SemopShape ==
  ASSUME Shape, NEW p \in Procs, NEW d1 \in Int, NEW d2 \in Int, NEW w \in Points,
         Semop(p, 0, d1, d2), Goto(p, w), UNCHANGED <<live, held>>
  PROVE  Shape'
<1>1. semval' \in [Members -> Int] /\ semadj' \in [Procs -> [Members -> Int]]
  BY SemopEffect
<1>2. semval'[0] = semval[0]
  <2>1. semval'[0] = semval[0] + 0 /\ semval[0] \in Int
    BY SemopEffect DEF Shape, Members
  <2>. QED
    BY <2>1
<1>3. \A q \in Procs : semadj'[q][0] = semadj[q][0]
  <2>1. semadj'[p][0] = semadj[p][0] - 0 /\ semadj[p][0] \in Int
    BY SemopEffect DEF Shape, Members
  <2>2. \A q \in Procs : q # p => semadj'[q] = semadj[q]
    BY SemopEffect
  <2>. QED
    BY <2>1, <2>2
<1>4. pc' \in [Procs -> Points]
  BY DEF Shape, Goto
<1>. QED
  BY <1>1, <1>2, <1>3, <1>4 DEF Shape

LEMMA SetValEffect ==
  ASSUME Shape, NEW i \in Members, NEW v \in Int, SetVal(i, v)
  PROVE  /\ semval' \in [Members -> Int]
         /\ semval'[i] = v
         /\ \A j \in Members : j # i => semval'[j] = semval[j]
         /\ semadj' \in [Procs -> [Members -> Int]]
         /\ \A q \in Procs : /\ semadj'[q][i] = 0
                             /\ \A j \in Members : j # i => semadj'[q][j] = semadj[q][j]
BY DEF Shape, SetVal, Members

\* A step that leaves the kernel's set alone and moves one process between points
\* where it neither holds the lock nor uses the set, or keeps doing so.
LEMMA Quiet ==
  ASSUME IInv, NEW p \in Procs, NEW w \in Points,
         UNCHANGED <<semval, semadj>>, Goto(p, w),
         live' \in BOOLEAN,
         held' \in [Procs -> {"none", "current", "stale"}],
         \A q \in Procs : q # p => held'[q] = held[q],
         (pc[p] \in Locked /\ Valid(p)) <=> (w \in Locked /\ Valid(p)'),
         (pc[p] \in Using \cup {"sem_op error"} /\ Valid(p))
           <=> (w \in Using \cup {"sem_op error"} /\ Valid(p)'),
         w \in {"c_set0", "c_set1"} /\ Valid(p)' => semval[1] = 0
  PROVE  IInv'
<1>1. Shape'
  BY DEF IInv, Shape, Goto
<1>2. LockHolders' = LockHolders /\ Users' = Users
  BY DEF IInv, Shape, LockHolders, Users, Goto, Valid
<1>3. Uninitialised'
  BY DEF IInv, Shape, Uninitialised, Goto, Valid
<1>. QED
  BY <1>1, <1>2, <1>3 DEF IInv, LockExclusive, CounterExact

\* A call on an id whose set is gone fails and changes nothing but the program point.
LEMMA Failed ==
  ASSUME IInv, NEW p \in Procs, NEW w \in Failures, ~Valid(p), Goto(p, w),
         UNCHANGED <<live, semval, semadj, held>>
  PROVE  IInv'
<1>1. w \in Points
  BY DEF Points
<1>2. Valid(p)' = Valid(p)
  BY DEF Valid
<1>. QED
  BY <1>1, <1>2, Quiet DEF IInv, Shape

-----------------------------------------------------------------------------
(* Every step keeps IInv, function by function *)

LEMMA InitInv == Init => IInv
<1> SUFFICES ASSUME Init PROVE IInv
  OBVIOUS
<1>0. Zeros \in [Members -> Int] /\ Zeros[0] = 0
  BY DEF Zeros, Members
<1>1. Shape
  <2>1. semval[0] = 0 /\ 0 \in 0 .. SEMVMX /\ 0 \in -SEMVMX .. SEMVMX
    BY <1>0, BoundsAssumption DEF Init
  <2>2. semadj \in [Procs -> [Members -> Int]] /\ \A p \in Procs : semadj[p][0] = 0
    BY <1>0 DEF Init
  <2>3. pc \in [Procs -> Points]
    BY DEF Init, Points
  <2>. QED
    BY <1>0, <2>1, <2>2, <2>3 DEF Init, Shape
<1>2. LockHolders = {} /\ Users = {}
  BY DEF Init, LockHolders, Users, Valid
<1>3. LockExclusive /\ CounterExact
  BY <1>2 DEF Init, LockExclusive, CounterExact, Zeros, Members
<1>4. Uninitialised
  BY DEF Init, Uninitialised
<1>. QED
  BY <1>1, <1>3, <1>4 DEF IInv

LEMMA CreateGetInv ==
  ASSUME IInv, NEW p \in Procs, CreateGet(p) PROVE IInv'
<1>1. CASE held' = [held EXCEPT ![p] = "current"] /\ live' = TRUE /\ Goto(p, "c_lock")
  BY <1>1, Quiet DEF CreateGet, IInv, Shape, Points, Creating, Locked, Using
<1>2. CASE pc[p] = "again" /\ Goto(p, "idle") /\ UNCHANGED <<live, held>>
  BY <1>2, Quiet DEF CreateGet, IInv, Shape, Points, Creating, Locked, Using
<1>. QED
  BY <1>1, <1>2 DEF CreateGet

LEMMA CreateLockInv ==
  ASSUME IInv, NEW p \in Procs, CreateLock(p) PROVE IInv'
<1>1. CASE Valid(p) /\ semval[2] = 0 /\ Semop(p, 0, 0, 1) /\ Goto(p, "c_getval")
  <2>1. LockHolders = {}
    BY <1>1 DEF IInv, LockExclusive
  <2>2. LockHolders' = {p}
    BY <1>1, <2>1 DEF CreateLock, LockHolders, Goto, Valid, Locked, IInv, Shape
  <2>3. Users' = Users
    BY <1>1 DEF CreateLock, Users, Goto, Valid, Using, IInv, Shape
  <2>4. Shape'
    <3>. "c_getval" \in Points
      BY DEF Points, Creating
    <3>. QED
      BY <1>1, SemopShape DEF CreateLock, IInv
  <2>5. LockExclusive'
    BY <1>1, <2>1, <2>2, SemopEffect DEF IInv, LockExclusive, Members, Shape
  <2>6. CounterExact'
    BY <1>1, <2>3, SemopEffect DEF IInv, CounterExact, Members, Shape
  <2>7. Uninitialised'
    BY <1>1, <2>1, SemopEffect
       DEF CreateLock, IInv, Uninitialised, LockHolders, Locked, Goto, Valid, Shape
  <2>. QED
    BY <2>4, <2>5, <2>6, <2>7 DEF IInv
<1>2. CASE pc[p] = "c_lock" /\ Goto(p, "c_sleep") /\ UNCHANGED kernelVars
  BY <1>2, Quiet
     DEF CreateLock, kernelVars, IInv, Shape, Points, Creating, Locked, Using, Valid
<1>3. CASE /\ Goto(p, IF pc[p] = "c_lock" THEN "again" ELSE "can't lock")
           /\ UNCHANGED kernelVars
  <2>. DEFINE w == IF pc[p] = "c_lock" THEN "again" ELSE "can't lock"
  <2>1. w \in Points /\ w \notin Locked \cup Using \cup {"sem_op error", "c_set0", "c_set1"}
    BY DEF Points, Creating, Failures, Locked, Using
  <2>2. pc[p] \notin Locked \cup Using \cup {"sem_op error"}
    BY DEF CreateLock, Locked, Using
  <2>. QED
    BY <1>3, <2>1, <2>2, Quiet DEF CreateLock, kernelVars, IInv, Shape
<1>. QED
  BY <1>1, <1>2, <1>3 DEF CreateLock

LEMMA CreateGetvalInv ==
  ASSUME IInv, NEW p \in Procs, CreateGetval(p) PROVE IInv'
<1>. DEFINE w == IF ~Valid(p) THEN "can't GETVAL"
                 ELSE IF semval[1] = 0 THEN "c_set0" ELSE "c_end"
<1>1. w \in Points /\ w \notin Using \cup {"sem_op error"}
  BY DEF Points, Creating, Failures, Using
<1>2. Valid(p) <=> w \in Locked
  BY DEF Locked
<1>3. w \in {"c_set0", "c_set1"} => semval[1] = 0
  OBVIOUS
<1>4. pc[p] \in Locked /\ pc[p] \notin Using \cup {"sem_op error"}
  BY DEF CreateGetval, Locked, Using
<1>. QED
  BY <1>1, <1>2, <1>3, <1>4, Quiet
     DEF CreateGetval, kernelVars, IInv, Shape, Valid

LEMMA CreateSet0Inv ==
  ASSUME IInv, NEW p \in Procs, CreateSet0(p) PROVE IInv'
<1>1. CASE ~Valid(p)
  BY <1>1, Failed DEF CreateSet0, Failures
<1>2. CASE Valid(p)
  <2>1. SetVal(0, Initval) /\ Goto(p, "c_set1") /\ semval[1] = 0 /\ Initval \in 0 .. SEMVMX
    BY <1>2, BoundsAssumption DEF CreateSet0, IInv, Uninitialised
  <2>2. /\ semval' \in [Members -> Int] /\ semval'[0] = Initval
        /\ semval'[1] = semval[1] /\ semval'[2] = semval[2]
        /\ semadj' \in [Procs -> [Members -> Int]]
        /\ \A q \in Procs : /\ semadj'[q][0] = 0
                            /\ semadj'[q][1] = semadj[q][1]
                            /\ semadj'[q][2] = semadj[q][2]
    BY <2>1, SetValEffect, BoundsAssumption DEF IInv, Members
  <2>3. Shape'
    <3>1. \A q \in Procs : semadj'[q][0] \in -SEMVMX .. SEMVMX
      BY <2>2, BoundsAssumption
    <3>2. live' = live /\ held' = held /\ pc' \in [Procs -> Points]
      BY <2>1 DEF CreateSet0, Goto, IInv, Shape, Points, Creating
    <3>. QED
      BY <2>1, <2>2, <3>1, <3>2 DEF IInv, Shape
  <2>4. LockHolders' = LockHolders /\ Users' = Users
    BY <1>2, <2>1 DEF CreateSet0, LockHolders, Users, Goto, Valid, Locked, Using, IInv, Shape
  <2>5. LockExclusive' /\ CounterExact'
    BY <2>2, <2>4 DEF IInv, LockExclusive, CounterExact
  <2>6. Uninitialised'
    BY <2>1, <2>2 DEF Uninitialised
  <2>. QED
    BY <2>3, <2>5, <2>6 DEF IInv
<1>. QED
  BY <1>1, <1>2

\* The lock is what keeps another creator from being between the two SETVALs.
LEMMA CreateSet1Inv ==
  ASSUME IInv, NEW p \in Procs, CreateSet1(p) PROVE IInv'
<1>1. CASE ~Valid(p)
  BY <1>1, Failed DEF CreateSet1, Failures
<1>2. CASE Valid(p)
  <2>1. SetVal(1, BIGCOUNT) /\ Goto(p, "c_end") /\ semval[1] = 0
    BY <1>2 DEF CreateSet1, IInv, Uninitialised
  <2>2. /\ semval' \in [Members -> Int] /\ semval'[1] = BIGCOUNT
        /\ semval'[0] = semval[0] /\ semval'[2] = semval[2]
        /\ semadj' \in [Procs -> [Members -> Int]]
        /\ \A q \in Procs : /\ semadj'[q][1] = 0
                            /\ semadj'[q][0] = semadj[q][0]
                            /\ semadj'[q][2] = semadj[q][2]
    BY <2>1, SetValEffect, BoundsAssumption DEF IInv, Members
  <2>3. Shape'
    BY <2>1, <2>2 DEF CreateSet1, Goto, IInv, Shape, Points, Creating
  <2>4. LockHolders' = LockHolders /\ Users' = Users /\ p \in LockHolders
    BY <1>2, <2>1 DEF CreateSet1, LockHolders, Users, Goto, Valid, Locked, Using, IInv, Shape
  <2>5. Users = {}
    BY <2>1 DEF IInv, CounterExact
  <2>6. LockExclusive'
    BY <2>2, <2>4 DEF IInv, LockExclusive
  <2>7. CounterExact'
    BY <2>2, <2>4, <2>5, FS_EmptySet, BoundsAssumption DEF CounterExact
  <2>8. Uninitialised'
    <3> SUFFICES ASSUME NEW q \in Procs, pc'[q] \in {"c_set0", "c_set1"}, Valid(q)'
                 PROVE  FALSE
      BY DEF Uninitialised
    <3>1. q \in LockHolders'
      BY DEF LockHolders, Locked
    <3>2. q = p
      BY <2>4, <3>1 DEF IInv, LockExclusive
    <3>. QED
      BY <2>1, <3>2 DEF Goto, IInv, Shape
  <2>. QED
    BY <2>3, <2>6, <2>7, <2>8 DEF IInv
<1>. QED
  BY <1>1, <1>2

\* One process more among the users, and the counter one less.
LEMMA UserJoins ==
  ASSUME IInv, NEW p \in Procs, p \notin Users, Users' = Users \cup {p},
         semval[1] >= 1, semval'[1] = semval[1] - 1,
         semadj'[p][1] = semadj[p][1] + 1,
         \A q \in Procs : q # p => semadj'[q] = semadj[q]
  PROVE  CounterExact'
<1>1. Cardinality(Users') = Cardinality(Users) + 1 /\ Cardinality(Users) \in Nat
  BY UsersFinite, FS_AddElement
<1>2. semval[1] \in Int /\ semval[1] + Cardinality(Users) = BIGCOUNT
  BY DEF IInv, Shape, CounterExact, Members
<1>3. IsFiniteSet(Users') /\ Cardinality(Users') =< Cardinality(Procs)
  <2>1. Users' \subseteq Procs
    BY DEF Users
  <2>. QED
    BY <2>1, ProcsAssumption, FS_Subset
<1>4. Cardinality(Procs) \in Nat /\ Cardinality(Procs) < BIGCOUNT /\ BIGCOUNT \in Nat
  BY ProcsAssumption, FS_CardinalityType, BoundsAssumption
<1>5. semval'[1] # 0 /\ semval'[1] + Cardinality(Users') = BIGCOUNT
  BY <1>1, <1>2, <1>3, <1>4
<1>6. \A q \in Procs : semadj'[q][1] = IF q \in Users' THEN 1 ELSE 0
  BY DEF IInv, CounterExact
<1>. QED
  BY <1>5, <1>6 DEF CounterExact

\* One user less, and the counter one more.
LEMMA UserLeaves ==
  ASSUME IInv, NEW p \in Procs, p \in Users, Users' = Users \ {p},
         semval'[1] = semval[1] + 1,
         semadj'[p][1] = 0,
         \A q \in Procs : q # p => semadj'[q][1] = semadj[q][1]
  PROVE  CounterExact' /\ semval'[1] \in 1 .. BIGCOUNT
<1>1. Cardinality(Users') = Cardinality(Users) - 1 /\ Cardinality(Users) \in Nat
  BY UsersFinite, FS_RemoveElement
<1>2. semval[1] # 0
  BY DEF IInv, CounterExact
<1>3. semval[1] \in Int /\ semval[1] + Cardinality(Users) = BIGCOUNT /\ BIGCOUNT \in Nat
  BY <1>2, BoundsAssumption DEF IInv, Shape, CounterExact, Members
<1>4. Cardinality(Users) >= 1
  BY UsersFinite, FS_EmptySet
<1>5. semval'[1] + Cardinality(Users') = BIGCOUNT /\ semval'[1] \in 1 .. BIGCOUNT
  BY <1>1, <1>3, <1>4, UsersFinite
<1>6. \A q \in Procs : semadj'[q][1] = IF q \in Users' THEN 1 ELSE 0
  BY DEF IInv, CounterExact
<1>. QED
  BY <1>5, <1>6 DEF CounterExact

LEMMA CreateEndInv ==
  ASSUME IInv, NEW p \in Procs, CreateEnd(p) PROVE IInv'
<1>1. CASE ~Valid(p)
  BY <1>1, Failed DEF CreateEnd, Failures
<1>2. CASE Valid(p)
  <2>0. UNCHANGED <<live, held>>
    BY DEF CreateEnd
  <2>1. Semop(p, 0, -1, -1) /\ Goto(p, "open") /\ semval[1] >= 1
    BY <1>2 DEF CreateEnd
  <2>2. LockHolders = {p} /\ LockHolders' = {}
    <3>1. p \in LockHolders
      BY <1>2 DEF CreateEnd, LockHolders, Locked
    <3>2. LockHolders = {p}
      BY <3>1 DEF IInv, LockExclusive, LockHolders
    <3>. QED
      BY <1>2, <2>1, <3>2 DEF CreateEnd, LockHolders, Goto, Valid, Locked, IInv, Shape
  <2>3. p \notin Users /\ Users' = Users \cup {p}
    BY <1>2, <2>1 DEF CreateEnd, Users, Goto, Valid, Using, IInv, Shape
  <2>4. Shape'
    <3>. "open" \in Points
      BY DEF Points, Using
    <3>. QED
      BY <2>1, <2>0, SemopShape DEF IInv
  <2>5. LockExclusive'
    BY <2>1, <2>2, SemopEffect DEF IInv, LockExclusive, Members, Shape
  <2>6. CounterExact'
    BY <2>1, <2>3, SemopEffect, UserJoins DEF IInv, Members, Shape
  <2>7. Uninitialised'
    BY <2>2 DEF Uninitialised, LockHolders, Locked
  <2>. QED
    BY <2>4, <2>5, <2>6, <2>7 DEF IInv
<1>. QED
  BY <1>1, <1>2

LEMMA OpenGetInv ==
  ASSUME IInv, NEW p \in Procs, OpenGet(p) PROVE IInv'
<1>1. "o_open" \in Points /\ "o_open" \notin Locked \cup Using \cup {"sem_op error"}
  BY DEF Points, Locked, Using
<1>2. pc[p] \notin Locked \cup Using \cup {"sem_op error"}
  BY DEF OpenGet, Locked, Using
<1>. QED
  BY <1>1, <1>2, Quiet DEF OpenGet, kernelVars, IInv, Shape

\* sem_open counts itself without the lock.  It finds [1] positive only after the
\* second SETVAL, so Uninitialised does not suffer.
LEMMA OpenCountInv ==
  ASSUME IInv, NEW p \in Procs, OpenCount(p) PROVE IInv'
<1>1. CASE ~Valid(p)
  BY <1>1, Failed DEF OpenCount, Failures
<1>2. CASE Valid(p)
  <2>0. UNCHANGED <<live, held>>
    BY DEF OpenCount
  <2>1. Semop(p, 0, -1, 0) /\ Goto(p, "open") /\ semval[1] >= 1
    BY <1>2 DEF OpenCount
  <2>2. LockHolders' = LockHolders
    BY <1>2, <2>1 DEF OpenCount, LockHolders, Goto, Valid, Locked, IInv, Shape
  <2>3. p \notin Users /\ Users' = Users \cup {p}
    BY <1>2, <2>1 DEF OpenCount, Users, Goto, Valid, Using, IInv, Shape
  <2>4. Shape'
    <3>. "open" \in Points
      BY DEF Points, Using
    <3>. QED
      BY <2>1, <2>0, SemopShape DEF IInv
  <2>5. LockExclusive'
    BY <2>1, <2>2, SemopEffect DEF IInv, LockExclusive, Members, Shape
  <2>6. CounterExact'
    BY <2>1, <2>3, SemopEffect, UserJoins DEF IInv, Members, Shape
  <2>7. Uninitialised'
    BY <1>2, <2>1 DEF OpenCount, IInv, Uninitialised, Goto, Valid, Shape
  <2>. QED
    BY <2>4, <2>5, <2>6, <2>7 DEF IInv
<1>. QED
  BY <1>1, <1>2

LEMMA SemOpInv ==
  ASSUME IInv, NEW p \in Procs, NEW v \in OpValues, SemOp(p, v) PROVE IInv'
<1>1. CASE Goto(p, "sem_op error") /\ UNCHANGED <<semval, semadj>>
  <2>1. "sem_op error" \in Points /\ "sem_op error" \notin Locked
    BY DEF Points, Failures, Locked
  <2>2. pc[p] \in Using /\ pc[p] \notin Locked
    BY DEF SemOp, Using, Locked
  <2>. QED
    BY <1>1, <2>1, <2>2, Quiet DEF SemOp, IInv, Shape, Valid
<1>2. CASE /\ Valid(p) /\ (v > 0 \/ semval[0] >= -v) /\ InRange(p, v)
           /\ Semop(p, v, 0, 0) /\ UNCHANGED pc
  <2>1. v \in Int
    BY OpValuesAssumption
  <2>2. LockHolders' = LockHolders /\ Users' = Users
    BY <1>2 DEF SemOp, LockHolders, Users, Valid
  <2>3. /\ semval' \in [Members -> Int]
        /\ semval'[0] = semval[0] + v /\ semval'[1] = semval[1] /\ semval'[2] = semval[2]
        /\ semadj' \in [Procs -> [Members -> Int]]
        /\ semadj'[p][0] = semadj[p][0] - v
        /\ semadj'[p][1] = semadj[p][1] /\ semadj'[p][2] = semadj[p][2]
        /\ \A q \in Procs : q # p => semadj'[q] = semadj[q]
    BY <1>2, <2>1, SemopEffect DEF IInv, Shape, Members
  <2>4. semval'[0] \in 0 .. SEMVMX
    BY <1>2, <2>1, <2>3, BoundsAssumption DEF IInv, Shape, InRange
  <2>5. Shape'
    BY <1>2, <2>3, <2>4 DEF SemOp, InRange, IInv, Shape
  <2>6. LockExclusive' /\ CounterExact'
    BY <2>2, <2>3 DEF IInv, LockExclusive, CounterExact
  <2>7. Uninitialised'
    BY <1>2, <2>3 DEF SemOp, IInv, Uninitialised, Valid
  <2>. QED
    BY <2>5, <2>6, <2>7 DEF IInv
<1>. QED
  BY <1>1, <1>2 DEF SemOp

LEMMA CloseCallInv ==
  ASSUME IInv, NEW p \in Procs, CloseCall(p) PROVE IInv'
<1>1. "x_lock" \in Points /\ "x_lock" \in Using /\ "x_lock" \notin Locked
  BY DEF Points, Closing, Using, Locked
<1>2. pc[p] \in Using /\ pc[p] \notin Locked
  BY DEF CloseCall, Using, Locked
<1>. QED
  BY <1>1, <1>2, Quiet DEF CloseCall, kernelVars, IInv, Shape, Valid

LEMMA CloseLockInv ==
  ASSUME IInv, NEW p \in Procs, CloseLock(p) PROVE IInv'
<1>1. CASE ~Valid(p)
  BY <1>1, Failed DEF CloseLock, Failures
<1>2. CASE Valid(p)
  <2>0. UNCHANGED <<live, held>>
    BY DEF CloseLock
  <2>1. Semop(p, 0, 1, 1) /\ Goto(p, "x_getval") /\ semval[2] = 0
    BY <1>2 DEF CloseLock
  <2>2. LockHolders = {} /\ LockHolders' = {p}
    <3>1. LockHolders = {}
      BY <2>1 DEF IInv, LockExclusive
    <3>. QED
      BY <1>2, <2>1, <3>1 DEF CloseLock, LockHolders, Goto, Valid, Locked, IInv, Shape
  <2>3. p \in Users /\ Users' = Users \ {p}
    BY <1>2, <2>1 DEF CloseLock, Users, Goto, Valid, Using, IInv, Shape
  <2>4. Shape'
    <3>. "x_getval" \in Points
      BY DEF Points, Closing
    <3>. QED
      BY <2>1, <2>0, SemopShape DEF IInv
  <2>5. LockExclusive'
    BY <2>1, <2>2, SemopEffect DEF IInv, LockExclusive, Members, Shape
  <2>6. semadj[p][1] = 1
    BY <2>3 DEF IInv, CounterExact
  <2>7. CounterExact'
    BY <2>1, <2>3, <2>6, SemopEffect, UserLeaves DEF IInv, Shape, Members
  <2>8. Uninitialised'
    BY <2>1, <2>2 DEF Uninitialised, LockHolders, Locked, Goto, IInv, Shape
  <2>. QED
    BY <2>4, <2>5, <2>7, <2>8 DEF IInv
<1>. QED
  BY <1>1, <1>2

LEMMA CloseGetvalInv ==
  ASSUME IInv, NEW p \in Procs, CloseGetval(p) PROVE IInv'
<1>1. Cardinality(Users) \in Nat /\ semval[1] \in Int /\ BIGCOUNT \in Nat
  BY UsersFinite, BoundsAssumption DEF IInv, Shape, Members
<1>2. ~(semval[1] > BIGCOUNT)
  BY <1>1 DEF IInv, CounterExact
<1>. DEFINE w == IF ~Valid(p) THEN "can't GETVAL"
                 ELSE IF semval[1] = BIGCOUNT THEN "x_rm" ELSE "x_unlock"
<1>3. Goto(p, w) /\ UNCHANGED <<live, semval, semadj, held>>
  BY <1>2 DEF CloseGetval, kernelVars
<1>4. /\ w \in Points /\ (Valid(p) <=> w \in Locked)
      /\ w \notin Using \cup {"sem_op error", "c_set0", "c_set1"}
  BY DEF Points, Closing, Failures, Locked, Using
<1>5. pc[p] \in Locked /\ pc[p] \notin Using \cup {"sem_op error"}
  BY DEF CloseGetval, Locked, Using
<1>. QED
  BY <1>3, <1>4, <1>5, Quiet DEF IInv, Shape, Valid

\* Removal leaves no valid id, hence no holder and no user, and zeros.
LEMMA SemRmInv ==
  ASSUME IInv, NEW p \in Procs, SemRm(p) PROVE IInv'
<1>1. CASE ~Valid(p)
  <2>1. "can't IPC_RMID" \in Failures
    BY DEF Failures
  <2>2. Goto(p, "can't IPC_RMID") /\ UNCHANGED <<live, semval, semadj, held>>
    BY <1>1 DEF SemRm, kernelVars
  <2>. QED
    BY <1>1, <2>1, <2>2, Failed
<1>2. CASE Valid(p)
  <2>1. Remove /\ Goto(p, "idle")
    BY <1>2 DEF SemRm
  <2>2. \A q \in Procs : ~(Valid(q)')
    BY <2>1 DEF Remove, Valid, IInv, Shape
  <2>3. LockHolders' = {} /\ Users' = {}
    BY <2>2 DEF LockHolders, Users
  <2>4. /\ semval' \in [Members -> Int] /\ \A i \in Members : semval'[i] = 0
        /\ semadj' \in [Procs -> [Members -> Int]]
        /\ \A q \in Procs, i \in Members : semadj'[q][i] = 0
    BY <2>1 DEF Remove, Zeros, Members
  <2>5. 0 \in Members /\ 1 \in Members /\ 2 \in Members
        /\ 0 \in 0 .. SEMVMX /\ 0 \in -SEMVMX .. SEMVMX
    BY BoundsAssumption DEF Members
  <2>6. Shape'
    <3>1. held' \in [Procs -> {"none", "current", "stale"}] /\ live' \in BOOLEAN
      BY <2>1 DEF Remove, IInv, Shape
    <3>2. pc' \in [Procs -> Points]
      BY <2>1 DEF Goto, IInv, Shape, Points
    <3>. QED
      BY <2>4, <2>5, <3>1, <3>2 DEF Shape
  <2>7. LockExclusive' /\ CounterExact'
    BY <2>3, <2>4, <2>5 DEF LockExclusive, CounterExact
  <2>8. Uninitialised'
    BY <2>2 DEF Uninitialised
  <2>. QED
    BY <2>6, <2>7, <2>8 DEF IInv
<1>. QED
  BY <1>1, <1>2

LEMMA CloseUnlockInv ==
  ASSUME IInv, NEW p \in Procs, CloseUnlock(p) PROVE IInv'
<1>1. CASE ~Valid(p)
  BY <1>1, Failed DEF CloseUnlock, Failures
<1>2. CASE Valid(p)
  <2>0. UNCHANGED <<live, held>>
    BY DEF CloseUnlock
  <2>1. Semop(p, 0, 0, -1) /\ Goto(p, "idle")
    BY <1>2 DEF CloseUnlock
  <2>2. LockHolders = {p} /\ LockHolders' = {}
    <3>1. p \in LockHolders
      BY <1>2 DEF CloseUnlock, LockHolders, Locked
    <3>2. LockHolders = {p}
      BY <3>1 DEF IInv, LockExclusive, LockHolders
    <3>. QED
      BY <1>2, <2>1, <3>2 DEF CloseUnlock, LockHolders, Goto, Valid, Locked, IInv, Shape
  <2>3. Users' = Users
    BY <1>2, <2>1 DEF CloseUnlock, Users, Goto, Valid, Using, IInv, Shape
  <2>4. Shape'
    <3>. "idle" \in Points
      BY DEF Points
    <3>. QED
      BY <2>0, <2>1, SemopShape DEF IInv
  <2>5. LockExclusive'
    BY <2>1, <2>2, SemopEffect DEF IInv, LockExclusive, Members, Shape
  <2>6. CounterExact'
    BY <2>1, <2>3, SemopEffect DEF IInv, CounterExact, Members, Shape
  <2>7. Uninitialised'
    BY <2>2 DEF Uninitialised, LockHolders, Locked
  <2>. QED
    BY <2>4, <2>5, <2>6, <2>7 DEF IInv
<1>. QED
  BY <1>1, <1>2

\* A death anywhere: the adjustments give back exactly what the process held, the
\* lock if it was the holder and its count if it was a user.
LEMMA ExitInv ==
  ASSUME IInv, NEW p \in Procs, Exit(p) PROVE IInv'
<1>1. /\ semval' \in [Members -> Int]
      /\ \A i \in Members : semval'[i] = Clamp(semval[i] + semadj[p][i])
      /\ semadj' \in [Procs -> [Members -> Int]]
      /\ \A i \in Members : semadj'[p][i] = 0
      /\ \A q \in Procs : q # p => semadj'[q] = semadj[q]
  <2>1. \A i \in Members : semval[i] \in Int /\ semadj[p][i] \in Int
    BY DEF IInv, Shape
  <2>2. \A x \in Int : Clamp(x) \in Int
    BY BoundsAssumption DEF Clamp
  <2>3. \A i \in Members : semval[i] + semadj[p][i] \in Int
    BY <2>1
  <2>4. Zeros \in [Members -> Int] /\ \A i \in Members : Zeros[i] = 0
    BY DEF Zeros, Members
  <2>5. semval' = [i \in Members |-> Clamp(semval[i] + semadj[p][i])]
    BY DEF Exit
  <2>6. semadj' = [semadj EXCEPT ![p] = Zeros]
    BY DEF Exit
  <2>7. semval' \in [Members -> Int]
    BY <2>2, <2>3, <2>5
  <2>. QED
    BY <2>4, <2>5, <2>6, <2>7 DEF IInv, Shape
<1>2. live' = live /\ held' = [held EXCEPT ![p] = "none"] /\ Goto(p, "idle")
  BY DEF Exit
<1>3. ~(Valid(p)') /\ \A q \in Procs : q # p => (Valid(q)' <=> Valid(q)) /\ pc'[q] = pc[q]
  BY <1>2 DEF Valid, Goto, IInv, Shape
<1>4. LockHolders' = LockHolders \ {p} /\ Users' = Users \ {p}
  BY <1>3 DEF LockHolders, Users
<1>5. 0 \in Members /\ 1 \in Members /\ 2 \in Members
  BY DEF Members
<1>6. \A x \in Int : Clamp(x) \in 0 .. SEMVMX /\ (x \in 0 .. SEMVMX => Clamp(x) = x)
  BY BoundsAssumption DEF Clamp
<1>7. Shape'
  <2>1. semval[0] + semadj[p][0] \in Int
    BY <1>5 DEF IInv, Shape
  <2>2. semval'[0] \in 0 .. SEMVMX
    BY <1>1, <1>5, <1>6, <2>1
  <2>3. 0 \in -SEMVMX .. SEMVMX
    BY BoundsAssumption
  <2>4. \A q \in Procs : semadj'[q][0] \in -SEMVMX .. SEMVMX
    BY <1>1, <1>5, <2>3 DEF IInv, Shape
  <2>5. held' \in [Procs -> {"none", "current", "stale"}] /\ pc' \in [Procs -> Points]
    BY <1>2 DEF Goto, IInv, Shape, Points
  <2>. QED
    BY <1>1, <1>2, <2>2, <2>4, <2>5 DEF IInv, Shape
<1>8. LockExclusive'
  <2>1. semval[2] + semadj[p][2] = IF LockHolders' = {} THEN 0 ELSE 1
    BY <1>4, <1>5 DEF IInv, LockExclusive, LockHolders
  <2>2. SEMVMX >= 1 /\ SEMVMX \in Nat
    BY BoundsAssumption, ProcsAssumption, FS_CardinalityType
  <2>3. semval'[2] = IF LockHolders' = {} THEN 0 ELSE 1
    BY <1>1, <1>5, <1>6, <2>1, <2>2
  <2>. QED
    BY <1>1, <1>4, <1>5, <2>3 DEF IInv, LockExclusive
<1>9. CounterExact'
  <2>1. CASE p \in Users
    <3>1. semadj[p][1] = 1 /\ semval[1] # 0
      BY <2>1 DEF IInv, CounterExact
    <3>2. Cardinality(Users) \in Nat /\ Cardinality(Users) >= 1
      BY <2>1, UsersFinite, FS_EmptySet
    <3>3. semval[1] + Cardinality(Users) = BIGCOUNT /\ semval[1] \in Int
      BY <3>1, <1>5 DEF IInv, CounterExact, Shape
    <3>4. semval[1] + 1 \in 0 .. SEMVMX
      BY <3>2, <3>3, UsersFinite, BoundsAssumption
    <3>5. semval'[1] = semval[1] + 1
      BY <1>1, <1>5, <1>6, <3>1, <3>4
    <3>. QED
      BY <1>1, <1>4, <1>5, <2>1, <3>5, UserLeaves
  <2>2. CASE p \notin Users
    <3>1. semadj[p][1] = 0 /\ Users' = Users
      BY <1>4, <2>2 DEF IInv, CounterExact
    <3>2. semval[1] \in Int /\ Cardinality(Users) \in Nat
      BY <1>5, UsersFinite DEF IInv, Shape
    <3>3. semval[1] \in 0 .. SEMVMX
      BY <3>2, UsersFinite, BoundsAssumption DEF IInv, CounterExact
    <3>4. semval'[1] = semval[1]
      BY <1>1, <1>5, <1>6, <3>1, <3>3
    <3>. QED
      BY <1>1, <1>5, <3>1, <3>4 DEF IInv, CounterExact
  <2>. QED
    BY <2>1, <2>2
<1>10. Uninitialised'
  <2> SUFFICES ASSUME NEW q \in Procs, pc'[q] \in {"c_set0", "c_set1"}, Valid(q)'
               PROVE  semval'[1] = 0
    BY DEF Uninitialised
  <2>1. q # p /\ semval[1] = 0
    BY <1>3 DEF IInv, Uninitialised
  <2>2. Users = {}
    BY <2>1 DEF IInv, CounterExact
  <2>3. semadj[p][1] = 0
    BY <2>2 DEF IInv, CounterExact
  <2>4. 0 \in 0 .. SEMVMX
    BY BoundsAssumption
  <2>. QED
    BY <1>1, <1>5, <1>6, <2>1, <2>3, <2>4
<1>. QED
  BY <1>7, <1>8, <1>9, <1>10 DEF IInv

LEMMA NextInv == IInv /\ [Next]_semVars => IInv'
<1> SUFFICES ASSUME IInv, [Next]_semVars PROVE IInv'
  OBVIOUS
<1>1. CASE UNCHANGED semVars
  <2>1. LockHolders' = LockHolders /\ Users' = Users
    BY <1>1 DEF semVars, LockHolders, Users, Valid
  <2>. QED
    BY <1>1, <2>1
       DEF semVars, IInv, Shape, LockExclusive, CounterExact, Uninitialised, Valid
<1>2. ASSUME NEW p \in Procs, CreateGet(p) \/ CreateStep(p) PROVE IInv'
  BY <1>2, CreateGetInv, CreateLockInv, CreateGetvalInv, CreateSet0Inv, CreateSet1Inv,
     CreateEndInv DEF CreateStep
<1>3. ASSUME NEW p \in Procs, OpenGet(p) \/ OpenStep(p) PROVE IInv'
  BY <1>3, OpenGetInv, OpenCountInv DEF OpenStep
<1>4. ASSUME NEW p \in Procs, NEW v \in OpValues, SemOp(p, v) PROVE IInv'
  BY <1>4, SemOpInv
<1>5. ASSUME NEW p \in Procs, CloseCall(p) \/ CloseStep(p) \/ SemRm(p) PROVE IInv'
  BY <1>5, CloseCallInv, CloseLockInv, CloseGetvalInv, CloseUnlockInv, SemRmInv
     DEF CloseStep
<1>6. ASSUME NEW p \in Procs, Exit(p) PROVE IInv'
  BY <1>6, ExitInv
<1>. QED
  BY <1>1, <1>2, <1>3, <1>4, <1>5, <1>6 DEF Next

\* The strengthened invariant holds in every reachable state of semaphore.c.
THEOREM Invariance == Spec => []IInv
<1>1. Init => IInv
  BY InitInv
<1>2. IInv /\ [Next]_semVars => IInv'
  BY NextInv
<1>. QED
  BY <1>1, <1>2, PTL DEF Spec

LEMMA TypeFromInv == IInv => TypeOK
<1> SUFFICES ASSUME IInv PROVE TypeOK
  OBVIOUS
<1>1. BIGCOUNT \in Nat /\ SEMVMX \in Nat /\ SEMVMX >= 1 /\ BIGCOUNT =< SEMVMX
  BY BoundsAssumption, ProcsAssumption, FS_CardinalityType
<1>2. 0 \in Members /\ 1 \in Members /\ 2 \in Members
      /\ \A i \in Members : i = 0 \/ i = 1 \/ i = 2
  BY DEF Members
<1>3. semval[1] \in 0 .. SEMVMX
  <2>1. semval[1] \in Int
    BY <1>2 DEF IInv, Shape
  <2>. QED
    BY <1>1, <2>1, UsersFinite DEF IInv, CounterExact
<1>4. semval[2] \in 0 .. SEMVMX
  BY <1>1 DEF IInv, LockExclusive
<1>5. \A p \in Procs, i \in Members : semadj[p][i] \in -SEMVMX .. SEMVMX
  <2>1. -1 \in -SEMVMX .. SEMVMX /\ 0 \in -SEMVMX .. SEMVMX /\ 1 \in -SEMVMX .. SEMVMX
    BY <1>1
  <2>. QED
    BY <1>2, <2>1 DEF IInv, Shape, LockExclusive, CounterExact
<1>6. semval \in [Members -> 0 .. SEMVMX]
  BY <1>2, <1>3, <1>4 DEF IInv, Shape
<1>7. semadj \in [Procs -> [Members -> -SEMVMX .. SEMVMX]]
  BY <1>5 DEF IInv, Shape
<1>. QED
  BY <1>6, <1>7 DEF IInv, Shape, TypeOK

\* No value or adjustment of the set ever leaves the kernel's range, so no semop of
\* sem_create, sem_open or sem_close can fail with ERANGE.
THEOREM TypeCorrect == Spec => []TypeOK
  BY Invariance, TypeFromInv, PTL

\* The lock of sem_create and sem_close excludes, and outlives the death of its
\* holder, for any number of processes, with sem_open and sem_rm in any order.
THEOREM LockIsExclusive == Spec => []LockExclusive
<1>1. IInv => LockExclusive
  BY DEF IInv
<1>. QED
  BY <1>1, Invariance, PTL

\* The process counter is exact, whoever dies and wherever.
THEOREM CounterIsExact == Spec => []CounterExact
<1>1. IInv => CounterExact
  BY DEF IInv
<1>. QED
  BY <1>1, Invariance, PTL

\* The two SETVALs never run while somebody uses the set.
THEOREM NotReinitialised == Spec => NeverReinitialised
<1>1. IInv => [\A p \in Procs : Valid(p) /\ (CreateSet0(p) \/ CreateSet1(p))
                                => Users = {}]_semVars
  <2> SUFFICES ASSUME IInv, NEW p \in Procs, Valid(p), CreateSet0(p) \/ CreateSet1(p)
               PROVE  Users = {}
    OBVIOUS
  <2>. QED
    BY DEF CreateSet0, CreateSet1, IInv, Uninitialised, CounterExact
<1>. QED
  BY <1>1, Invariance, PTL DEF NeverReinitialised

-----------------------------------------------------------------------------
(* Without sem_open and without a direct sem_rm, nobody loses a set in use *)

\* sem_close read BIGCOUNT under the lock, and nobody can join before it removes.
LastCloser == \A p \in Procs : pc[p] = "x_rm" => Users = {}

KeepInv == IInv /\ SetKept /\ LastCloser /\ \A p \in Procs : pc[p] # "o_open"

LEMMA KeepInit == Init => KeepInv
<1> SUFFICES ASSUME Init PROVE KeepInv
  OBVIOUS
<1>1. \A p \in Procs : pc[p] = "idle"
  BY DEF Init
<1>. QED
  BY <1>1, InitInv DEF KeepInv, SetKept, LastCloser, Using, Locked

KeepParts == SetKept /\ LastCloser /\ \A p \in Procs : pc[p] # "o_open"

\* A step of p that removes nothing and adds nobody to the users.
LEMMA KeepQuiet ==
  ASSUME KeepInv, NEW p \in Procs,
         \A q \in Procs : q # p => pc'[q] = pc[q] /\ held'[q] = held[q],
         pc'[p] \in Using \cup Locked => Valid(p)',
         Users' \subseteq Users,
         pc'[p] = "x_rm" => Users' = {},
         pc'[p] # "o_open"
  PROVE  KeepParts'
<1>2. SetKept'
  BY DEF KeepInv, SetKept, Valid
<1>3. LastCloser'
  BY DEF KeepInv, LastCloser
<1>. QED
  BY <1>2, <1>3 DEF KeepInv, KeepParts

LEMMA OneMoves ==
  ASSUME IInv, NEW p \in Procs, NEW w, Goto(p, w)
  PROVE  pc'[p] = w /\ \A q \in Procs : q # p => pc'[q] = pc[q]
BY DEF IInv, Shape, Goto

\* p goes to a point of no user, or stays one, with the id it has or a new one.
LEMMA KeepMove ==
  ASSUME KeepInv, NEW p \in Procs, NEW w, Goto(p, w),
         held' = held \/ held' = [held EXCEPT ![p] = "current"],
         w \notin Using \cup {"x_rm", "o_open", "sem_op error"},
         w \in Locked => Valid(p)
  PROVE  KeepParts'
<1>1. pc'[p] = w /\ \A q \in Procs : q # p => pc'[q] = pc[q]
  BY OneMoves DEF KeepInv
<1>2. (\A q \in Procs : q # p => held'[q] = held[q]) /\ (Valid(p) => Valid(p)')
  BY DEF KeepInv, IInv, Shape, Valid
<1>3. Users' \subseteq Users
  BY <1>1, <1>2 DEF Users, Valid
<1>. QED
  BY <1>1, <1>2, <1>3, KeepQuiet

LEMMA KeepCreate ==
  ASSUME KeepInv, NEW p \in Procs, CreateGet(p) \/ CreateLock(p) \/ CreateGetval(p)
                                   \/ CreateSet0(p) \/ CreateSet1(p)
  PROVE  KeepParts'
<1>. DEFINE Free == {"idle", "again", "c_lock", "c_sleep", "can't lock", "can't GETVAL",
                     "can't SETVAL"}
            Held == {"c_getval", "c_set0", "c_set1", "c_end"}
<1>1. \A w \in Free : w \notin Using \cup Locked \cup {"x_rm", "o_open", "sem_op error"}
  BY DEF Using, Locked
<1>2. \A w \in Held : w \notin Using \cup {"x_rm", "o_open", "sem_op error"}
  BY DEF Using
<1>3. held' = held \/ held' = [held EXCEPT ![p] = "current"]
  BY DEF CreateGet, CreateLock, CreateGetval, CreateSet0, CreateSet1
<1>4. (\E w \in Free : Goto(p, w)) \/ (\E w \in Held : Goto(p, w) /\ Valid(p))
  <2>1. CASE CreateGet(p)
    BY <2>1 DEF CreateGet
  <2>2. CASE CreateLock(p)
    <3>1. CASE pc[p] = "c_lock"
      BY <2>2, <3>1 DEF CreateLock
    <3>2. CASE pc[p] = "c_sleep"
      BY <2>2, <3>2 DEF CreateLock
    <3>. QED
      BY <2>2, <3>1, <3>2 DEF CreateLock
  <2>3. CASE CreateGetval(p)
    <3>1. CASE ~Valid(p)
      BY <2>3, <3>1 DEF CreateGetval
    <3>2. CASE Valid(p) /\ semval[1] = 0
      BY <2>3, <3>2 DEF CreateGetval
    <3>3. CASE Valid(p) /\ semval[1] # 0
      BY <2>3, <3>3 DEF CreateGetval
    <3>. QED
      BY <3>1, <3>2, <3>3
  <2>4. CASE CreateSet0(p) \/ CreateSet1(p)
    <3>1. CASE Valid(p)
      BY <2>4, <3>1 DEF CreateSet0, CreateSet1
    <3>2. CASE ~Valid(p)
      BY <2>4, <3>2 DEF CreateSet0, CreateSet1
    <3>. QED
      BY <3>1, <3>2
  <2>. QED
    BY <2>1, <2>2, <2>3, <2>4
<1>. QED
  BY <1>1, <1>2, <1>3, <1>4, KeepMove

\* The creator that joins holds the lock, so nobody is about to remove the set.
LEMMA KeepCreateEnd ==
  ASSUME KeepInv, NEW p \in Procs, CreateEnd(p) PROVE KeepParts'
<1>1. Valid(p)
  BY DEF CreateEnd, KeepInv, SetKept, Locked
<1>2. Goto(p, "open") /\ held' = held
  BY <1>1 DEF CreateEnd
<1>3. pc'[p] = "open" /\ \A q \in Procs : q # p => pc'[q] = pc[q]
  BY <1>2, OneMoves DEF KeepInv
<1>4. \A q \in Procs : pc[q] # "x_rm"
  <2> SUFFICES ASSUME NEW q \in Procs, pc[q] = "x_rm" PROVE FALSE
    OBVIOUS
  <2>1. q \in LockHolders /\ p \in LockHolders
    BY DEF CreateEnd, KeepInv, SetKept, Locked, LockHolders
  <2>. QED
    BY <2>1 DEF CreateEnd, KeepInv, IInv, LockExclusive
<1>5. SetKept'
  BY <1>1, <1>2, <1>3 DEF KeepInv, SetKept, Valid
<1>. QED
  BY <1>3, <1>4, <1>5 DEF KeepInv, KeepParts, LastCloser

LEMMA KeepSemOp ==
  ASSUME KeepInv, NEW p \in Procs, NEW v \in OpValues, SemOp(p, v) PROVE KeepParts'
<1>1. held' = held
  BY DEF SemOp
<1>2. CASE Goto(p, "sem_op error")
  <2>1. pc'[p] = "sem_op error" /\ \A q \in Procs : q # p => pc'[q] = pc[q]
    BY <1>2, OneMoves DEF KeepInv
  <2>2. Valid(p) /\ pc[p] = "open"
    BY DEF SemOp, KeepInv, SetKept, Using
  <2>3. Users' \subseteq Users
    BY <1>1, <2>1, <2>2 DEF Users, Using, Valid
  <2>4. pc'[p] \notin Using \cup Locked \cup {"x_rm", "o_open"}
    BY <2>1 DEF Using, Locked
  <2>. QED
    BY <1>1, <2>1, <2>3, <2>4, KeepQuiet
<1>3. CASE UNCHANGED pc
  BY <1>1, <1>3 DEF KeepInv, KeepParts, SetKept, LastCloser, Users, Valid
<1>. QED
  BY <1>2, <1>3 DEF SemOp

LEMMA KeepClose ==
  ASSUME KeepInv, NEW p \in Procs, CloseCall(p) \/ CloseLock(p) \/ CloseUnlock(p)
  PROVE  KeepParts'
<1>1. Valid(p) /\ held' = held /\ pc[p] \in {"open", "x_lock", "x_unlock"}
  BY DEF CloseCall, CloseLock, CloseUnlock, KeepInv, SetKept, Using, Locked
<1>2. \/ pc[p] = "open" /\ Goto(p, "x_lock")
      \/ Goto(p, "x_getval") \/ Goto(p, "idle")
  BY <1>1 DEF CloseCall, CloseLock, CloseUnlock
<1>3. CASE pc[p] = "open" /\ Goto(p, "x_lock")
  <2>1. pc'[p] = "x_lock" /\ \A q \in Procs : q # p => pc'[q] = pc[q]
    BY <1>3, OneMoves DEF KeepInv
  <2>2. Users' \subseteq Users
    BY <1>1, <1>3, <2>1 DEF Users, Using, Valid
  <2>. QED
    BY <1>1, <2>1, <2>2, KeepQuiet DEF Valid
<1>4. CASE Goto(p, "x_getval") \/ Goto(p, "idle")
  BY <1>1, <1>4, KeepMove DEF Using
<1>. QED
  BY <1>2, <1>3, <1>4

\* Reading BIGCOUNT with the lock held means that nobody uses the set.
LEMMA KeepCloseGetval ==
  ASSUME KeepInv, NEW p \in Procs, CloseGetval(p) PROVE KeepParts'
<1>1. Valid(p) /\ held' = held /\ pc[p] = "x_getval"
  BY DEF CloseGetval, KeepInv, SetKept, Locked
<1>2. PICK w \in {"err_dump", "x_rm", "x_unlock"} :
            Goto(p, w) /\ (w = "x_rm" => semval[1] = BIGCOUNT)
  <2>1. CASE semval[1] > BIGCOUNT
    BY <1>1, <2>1, BoundsAssumption DEF CloseGetval
  <2>2. CASE ~(semval[1] > BIGCOUNT) /\ semval[1] = BIGCOUNT
    BY <1>1, <2>2 DEF CloseGetval
  <2>3. CASE ~(semval[1] > BIGCOUNT) /\ semval[1] # BIGCOUNT
    BY <1>1, <2>3 DEF CloseGetval
  <2>. QED
    BY <2>1, <2>2, <2>3
<1>3. pc'[p] = w /\ \A q \in Procs : q # p => pc'[q] = pc[q]
  BY <1>2, OneMoves DEF KeepInv
<1>4. Users' = Users
  BY <1>1, <1>3 DEF Users, Using, Valid
<1>5. w = "x_rm" => Users = {}
  <2> SUFFICES ASSUME semval[1] = BIGCOUNT PROVE Users = {}
    BY <1>2
  <2>1. BIGCOUNT \in Nat /\ BIGCOUNT # 0 /\ Cardinality(Users) \in Nat
    BY BoundsAssumption, UsersFinite
  <2>2. semval[1] # 0 /\ semval[1] + Cardinality(Users) = BIGCOUNT
    BY <2>1 DEF KeepInv, IInv, CounterExact
  <2>3. Cardinality(Users) = 0
    BY <2>1, <2>2
  <2>. QED
    BY <2>3, UsersFinite, FS_EmptySet
<1>. QED
  BY <1>1, <1>3, <1>4, <1>5, KeepQuiet DEF Valid

LEMMA KeepSemRm ==
  ASSUME KeepInv, Removers = {}, NEW p \in Procs, SemRm(p) PROVE KeepParts'
<1>1. pc[p] = "x_rm" /\ Valid(p) /\ Users = {} /\ p \in LockHolders
  BY DEF SemRm, KeepInv, SetKept, LastCloser, Locked, LockHolders
<1>2. Goto(p, "idle")
  BY <1>1 DEF SemRm
<1>3. pc'[p] = "idle" /\ \A q \in Procs : q # p => pc'[q] = pc[q]
  BY <1>2, OneMoves DEF KeepInv
<1>4. \A q \in Procs : q # p => pc[q] \notin Using \cup Locked
  BY <1>1 DEF KeepInv, SetKept, IInv, LockExclusive, Users, LockHolders
<1>5. \A q \in Procs : pc'[q] \notin Using \cup Locked
  BY <1>3, <1>4 DEF Using, Locked
<1>. QED
  BY <1>3, <1>5 DEF KeepParts, KeepInv, SetKept, LastCloser, Locked

LEMMA KeepExit ==
  ASSUME KeepInv, NEW p \in Procs, Exit(p) PROVE KeepParts'
<1>1. Goto(p, "idle") /\ held' = [held EXCEPT ![p] = "none"]
  BY DEF Exit
<1>2. pc'[p] = "idle" /\ \A q \in Procs : q # p => pc'[q] = pc[q] /\ held'[q] = held[q]
  BY <1>1, OneMoves DEF KeepInv, IInv, Shape
<1>3. Users' \subseteq Users
  BY <1>2 DEF Users, Using, Valid
<1>4. pc'[p] \notin Using \cup Locked \cup {"x_rm", "o_open"}
  BY <1>2 DEF Using, Locked
<1>. QED
  BY <1>2, <1>3, <1>4, KeepQuiet

LEMMA KeepNext == Openers = {} /\ Removers = {} /\ KeepInv /\ [Next]_semVars => KeepInv'
<1> SUFFICES ASSUME Openers = {}, Removers = {}, KeepInv, [Next]_semVars PROVE KeepInv'
  OBVIOUS
<1>1. IInv'
  BY NextInv DEF KeepInv
<1>2. ASSUME UNCHANGED semVars PROVE KeepParts'
  BY <1>2 DEF semVars, KeepInv, KeepParts, SetKept, LastCloser, Users, Valid
<1>3. ASSUME NEW p \in Procs, CreateGet(p) \/ CreateStep(p) PROVE KeepParts'
  BY <1>3, KeepCreate, KeepCreateEnd DEF CreateStep
<1>4. ASSUME NEW p \in Procs, OpenGet(p) \/ OpenStep(p) PROVE KeepParts'
  BY <1>4 DEF OpenStep, OpenGet, OpenCount, KeepInv
<1>5. ASSUME NEW p \in Procs, NEW v \in OpValues, SemOp(p, v) PROVE KeepParts'
  BY <1>5, KeepSemOp
<1>6. ASSUME NEW p \in Procs, CloseCall(p) \/ CloseStep(p) \/ SemRm(p) PROVE KeepParts'
  BY <1>6, KeepClose, KeepCloseGetval, KeepSemRm DEF CloseStep
<1>7. ASSUME NEW p \in Procs, Exit(p) PROVE KeepParts'
  BY <1>7, KeepExit
<1>8. KeepParts'
  BY <1>2, <1>3, <1>4, <1>5, <1>6, <1>7 DEF Next
<1>. QED
  BY <1>1, <1>8 DEF KeepInv, KeepParts

\* When every process comes through sem_create, sem_close removes the set only after
\* its last user, and no process ever finds its semaphore gone.
THEOREM SetIsKept == Openers = {} /\ Removers = {} => (Spec => []SetKept)
<1>1. Init => KeepInv
  BY KeepInit
<1>2. Openers = {} /\ Removers = {} /\ KeepInv /\ [Next]_semVars => KeepInv'
  BY KeepNext
<1>3. KeepInv => SetKept
  BY DEF KeepInv
<1>. QED
  <2> SUFFICES ASSUME Openers = {}, Removers = {} PROVE Spec => []SetKept
    OBVIOUS
  <2>1. KeepInv /\ [Next]_semVars => KeepInv'
    BY <1>2
  <2>. QED
    BY <1>1, <1>3, <2>1, PTL DEF Spec

-----------------------------------------------------------------------------
(* Refinement: semaphore.c implements a reference-counted semaphore *)

\* An id that works is the id of a set that exists.
HeldLive == \A p \in Procs : Valid(p) => live

LEMMA HeldLiveInit == Init => HeldLive
BY DEF Init, HeldLive, Valid

LEMMA HeldLiveNext ==
  ASSUME IInv, HeldLive, [Next]_semVars PROVE HeldLive'
<1>1. CASE UNCHANGED semVars
  BY <1>1 DEF HeldLive, semVars, Valid
<1>2. ASSUME NEW p \in Procs, CreateGet(p) \/ OpenGet(p) PROVE HeldLive'
  BY <1>2 DEF CreateGet, OpenGet, kernelVars, HeldLive, Valid, IInv, Shape
<1>3. ASSUME NEW p \in Procs, SemRm(p) PROVE HeldLive'
  BY <1>3 DEF SemRm, Remove, kernelVars, HeldLive, Valid, IInv, Shape
<1>4. ASSUME NEW p \in Procs, Exit(p) PROVE HeldLive'
  BY <1>4 DEF Exit, HeldLive, Valid, IInv, Shape
<1>5. ASSUME NEW p \in Procs, UNCHANGED <<live, held>> PROVE HeldLive'
  BY <1>5 DEF HeldLive, Valid
<1>6. ASSUME NEW p \in Procs,
             \/ CreateStep(p) \/ OpenStep(p) \/ CloseCall(p) \/ CloseStep(p)
             \/ \E v \in OpValues : SemOp(p, v)
      PROVE  UNCHANGED <<live, held>>
  BY <1>6 DEF CreateStep, CreateLock, CreateGetval, CreateSet0, CreateSet1, CreateEnd,
              OpenStep, OpenCount, CloseCall, CloseStep, CloseLock, CloseGetval,
              CloseUnlock, SemOp, kernelVars
<1>. QED
  BY <1>1, <1>2, <1>3, <1>4, <1>5, <1>6 DEF Next

\* Which points a process passes does not show: the abstract state is as before.
LEMMA StepQuiet ==
  ASSUME IInv, NEW p \in Procs, NEW w, Goto(p, w),
         UNCHANGED <<live, held>>, semval'[1] = semval[1],
         (pc[p] \in Using \cup {"sem_op error"} /\ Valid(p))
           <=> (w \in Using \cup {"sem_op error"} /\ Valid(p))
  PROVE  UNCHANGED <<live, semval[1] # 0, Users>>
<1>1. pc'[p] = w /\ \A q \in Procs : q # p => pc'[q] = pc[q]
  BY OneMoves
<1>. QED
  BY <1>1 DEF Users, Valid

AStep == [Abstract!Next]_(Abstract!vars)

LEMMA AbstractStutter ==
  ASSUME UNCHANGED <<live, semval[1] # 0, Users>> PROVE AStep
BY DEF AStep, Abstract!vars

LEMMA AbstractCreateGet ==
  ASSUME KeepInv, NEW p \in Procs, CreateGet(p) PROVE AStep
<1>1. pc[p] \notin Using \cup {"sem_op error"} /\ UNCHANGED semval
  BY DEF CreateGet, Using
<1>2. Users' = Users
  BY <1>1 DEF CreateGet, Users, Valid, Goto, KeepInv, IInv, Shape, Using
<1>3. CASE live
  BY <1>1, <1>2, <1>3, AbstractStutter DEF CreateGet
<1>4. CASE ~live /\ live' = TRUE
  <2>1. Abstract!Create
    BY <1>1, <1>2, <1>4 DEF Abstract!Create
  <2>. QED
    BY <2>1 DEF AStep, Abstract!Next
<1>5. CASE UNCHANGED live
  BY <1>1, <1>2, <1>5, AbstractStutter
<1>. QED
  BY <1>3, <1>4, <1>5 DEF CreateGet, KeepInv, IInv, Shape

\* The second SETVAL is the initialisation; it finds an existing set without users.
LEMMA AbstractSet ==
  ASSUME KeepInv, HeldLive, NEW p \in Procs, CreateSet0(p) \/ CreateSet1(p) PROVE AStep
<1>1. Valid(p) /\ live /\ semval[1] = 0 /\ Users = {}
  BY DEF CreateSet0, CreateSet1, KeepInv, SetKept, Locked, HeldLive,
         IInv, Uninitialised, CounterExact
<1>2. CASE CreateSet0(p)
  <2>1. SetVal(0, Initval) /\ Goto(p, "c_set1") /\ UNCHANGED <<live, held>>
    BY <1>1, <1>2 DEF CreateSet0
  <2>2. semval'[1] = semval[1]
    BY <2>1 DEF SetVal, KeepInv, IInv, Shape, Members
  <2>3. pc[p] \notin Using \cup {"sem_op error"} /\ "c_set1" \notin Using \cup {"sem_op error"}
    BY <1>2 DEF CreateSet0, Using
  <2>. QED
    BY <2>1, <2>2, <2>3, StepQuiet, AbstractStutter DEF KeepInv
<1>3. CASE CreateSet1(p)
  <2>1. SetVal(1, BIGCOUNT) /\ Goto(p, "c_end") /\ UNCHANGED <<live, held>>
    BY <1>1, <1>3 DEF CreateSet1
  <2>2. semval'[1] = BIGCOUNT /\ BIGCOUNT # 0
    <3>1. semval'[1] = BIGCOUNT
      BY <2>1 DEF SetVal, KeepInv, IInv, Shape, Members
    <3>. QED
      BY <3>1, UsersFinite, BoundsAssumption
  <2>3. Users' = {}
    BY <1>1, <1>3, <2>1 DEF CreateSet1, Users, Valid, Goto, KeepInv, IInv, Shape, Using
  <2>4. Abstract!Initialise
    BY <1>1, <2>1, <2>2, <2>3 DEF Abstract!Initialise
  <2>. QED
    BY <2>4 DEF AStep, Abstract!Next
<1>. QED
  BY <1>2, <1>3

LEMMA AbstractJoin ==
  ASSUME KeepInv, NEW p \in Procs, CreateEnd(p) PROVE AStep
<1>1. Valid(p)
  BY DEF CreateEnd, KeepInv, SetKept, Locked
<1>2. Semop(p, 0, -1, -1) /\ Goto(p, "open") /\ semval[1] >= 1 /\ UNCHANGED <<live, held>>
  BY <1>1 DEF CreateEnd
<1>3. p \notin Users /\ Users' = Users \cup {p}
  BY <1>1, <1>2 DEF CreateEnd, Users, Goto, Valid, Using, KeepInv, IInv, Shape
<1>4. semval[1] # 0 /\ semval'[1] # 0
  <2>1. p \in Users'
    BY <1>3
  <2>2. CounterExact'
    BY CreateEndInv DEF KeepInv, IInv
  <2>. QED
    BY <1>2, <2>1, <2>2 DEF CounterExact, KeepInv, IInv, Shape, Members
<1>5. Abstract!Join(p)
  BY <1>2, <1>3, <1>4 DEF Abstract!Join
<1>. QED
  BY <1>5 DEF AStep, Abstract!Next

\* A user leaves by closing or by dying; another process's death does not show.
LEMMA AbstractLeave ==
  ASSUME KeepInv, NEW p \in Procs, CloseLock(p) \/ Exit(p) PROVE AStep
<1>1. CounterExact' /\ live' = live
  BY CloseLockInv, ExitInv DEF KeepInv, IInv, CloseLock, Exit
<1>2. Users' = Users \ {p}
  <2>1. CASE CloseLock(p)
    <3>1. Valid(p) /\ Goto(p, "x_getval") /\ held' = held
      BY <2>1 DEF CloseLock, KeepInv, SetKept, Using
    <3>. QED
      BY <3>1 DEF Users, Goto, Valid, Using, KeepInv, IInv, Shape
  <2>2. CASE Exit(p)
    BY <2>2 DEF Exit, Users, Goto, Valid, Using, KeepInv, IInv, Shape
  <2>. QED
    BY <2>1, <2>2
<1>3. (semval'[1] # 0) = (semval[1] # 0)
  <2>1. CASE Users = {}
    <3>1. CASE CloseLock(p)
      <4>1. p \in Users
        BY <3>1 DEF CloseLock, KeepInv, SetKept, Users, Using
      <4>. QED
        BY <2>1, <4>1
    <3>2. CASE Exit(p)
      <4>1. semadj[p][1] = 0 /\ semval[1] \in 0 .. SEMVMX
        <5>1. semadj[p][1] = 0 /\ semval[1] \in Int
          BY <2>1 DEF KeepInv, IInv, CounterExact, Shape, Members
        <5>2. semval[1] = 0 \/ semval[1] = BIGCOUNT
          BY <2>1, <5>1, FS_EmptySet, BoundsAssumption DEF KeepInv, IInv, CounterExact
        <5>. QED
          BY <5>1, <5>2, BoundsAssumption
      <4>2. semval'[1] = Clamp(semval[1] + semadj[p][1])
        BY <3>2 DEF Exit, Members
      <4>3. semval[1] + semadj[p][1] = semval[1]
        BY <4>1
      <4>4. semval'[1] = semval[1]
        BY <4>1, <4>2, <4>3, BoundsAssumption DEF Clamp
      <4>. QED
        BY <4>4
    <3>. QED
      BY <3>1, <3>2
  <2>2. CASE p \in Users
    <3>1. semval[1] # 0
      BY <2>2 DEF KeepInv, IInv, CounterExact
    <3>2. semval'[1] # 0
      <4>1. CASE CloseLock(p)
        <5>1. Semop(p, 0, 1, 1)
          BY <4>1 DEF CloseLock, KeepInv, SetKept, Using
        <5>2. semval'[1] = semval[1] + 1
          BY <5>1, SemopEffect DEF KeepInv, IInv
        <5>3. semval[1] \in Int /\ semval[1] + Cardinality(Users) = BIGCOUNT
          BY <3>1 DEF KeepInv, IInv, CounterExact, Shape, Members
        <5>. QED
          BY <5>2, <5>3, UsersFinite, BoundsAssumption
      <4>2. CASE Exit(p)
        <5>1. semval'[1] = Clamp(semval[1] + semadj[p][1])
          BY <4>2 DEF Exit, Members
        <5>2. semadj[p][1] = 1
          BY <2>2 DEF KeepInv, IInv, CounterExact
        <5>3. semval[1] \in Int /\ semval[1] + Cardinality(Users) = BIGCOUNT
          BY <3>1 DEF KeepInv, IInv, CounterExact, Shape, Members
        <5>4. semval[1] + 1 >= 1 /\ SEMVMX >= 1 /\ SEMVMX \in Nat
          BY <5>3, UsersFinite, BoundsAssumption
        <5>. QED
          BY <5>1, <5>2, <5>3, <5>4 DEF Clamp
      <4>. QED
        BY <4>1, <4>2
    <3>. QED
      BY <3>1, <3>2
  <2>3. CASE p \notin Users /\ Users # {}
    BY <1>1, <1>2, <2>3 DEF CounterExact, KeepInv, IInv
  <2>. QED
    BY <2>1, <2>2, <2>3
<1>4. CASE p \in Users
  <2>1. Abstract!Leave(p)
    BY <1>1, <1>2, <1>3, <1>4 DEF Abstract!Leave
  <2>. QED
    BY <2>1 DEF AStep, Abstract!Next
<1>5. CASE p \notin Users
  BY <1>1, <1>2, <1>3, <1>5, AbstractStutter
<1>. QED
  BY <1>4, <1>5

LEMMA AbstractDrop ==
  ASSUME KeepInv, HeldLive, Removers = {}, NEW p \in Procs, SemRm(p) PROVE AStep
<1>1. Valid(p) /\ live /\ Users = {}
  BY DEF SemRm, KeepInv, SetKept, LastCloser, Locked, HeldLive
<1>2. Remove
  BY <1>1 DEF SemRm
<1>3. semval'[1] = 0
  BY <1>2 DEF Remove, Zeros, Members
<1>4. Users' = {}
  BY <1>2 DEF Remove, Users, Valid, KeepInv, IInv, Shape
<1>5. Abstract!Drop
  BY <1>1, <1>2, <1>3, <1>4 DEF Remove, Abstract!Drop
<1>. QED
  BY <1>5 DEF AStep, Abstract!Next

LEMMA AbstractInside ==
  ASSUME KeepInv, NEW p \in Procs,
         CreateLock(p) \/ CreateGetval(p) \/ CloseCall(p) \/ CloseGetval(p) \/ CloseUnlock(p)
  PROVE  AStep
<1>1. UNCHANGED <<live, held>>
  BY DEF CreateLock, CreateGetval, CloseCall, CloseGetval, CloseUnlock, kernelVars
<1>2. semval'[1] = semval[1]
  <2>1. CASE UNCHANGED semval
    BY <2>1
  <2>2. CASE \E d \in {-1, 1} : Semop(p, 0, 0, d)
    BY <2>2, SemopEffect DEF KeepInv, IInv, Shape, Members
  <2>3. UNCHANGED semval \/ \E d \in {-1, 1} : Semop(p, 0, 0, d)
    BY DEF CreateLock, CreateGetval, CloseCall, CloseGetval, CloseUnlock, kernelVars
  <2>. QED
    BY <2>1, <2>2, <2>3
<1>3. Users' = Users
  <2>. DEFINE Out == {"again", "c_sleep", "c_getval", "c_set0", "c_end", "can't lock",
                      "can't GETVAL", "err_dump", "x_rm", "x_unlock", "idle", "can't unlock"}
  <2>1. CASE CloseCall(p)
    BY <1>1, <2>1 DEF CloseCall, Users, Goto, Valid, Using, KeepInv, IInv, Shape
  <2>2. CASE ~CloseCall(p)
    <3>1. pc[p] \notin Using \cup {"sem_op error"}
      BY <2>2 DEF CreateLock, CreateGetval, CloseGetval, CloseUnlock, Using
    <3>2. PICK w \in Out : Goto(p, w)
      BY <2>2 DEF CreateLock, CreateGetval, CloseGetval, CloseUnlock
    <3>3. w \notin Using \cup {"sem_op error"}
      BY DEF Using
    <3>4. pc'[p] = w /\ \A q \in Procs : q # p => pc'[q] = pc[q]
      BY <3>2, OneMoves DEF KeepInv
    <3>. QED
      BY <1>1, <3>1, <3>3, <3>4 DEF Users, Valid
  <2>. QED
    BY <2>1, <2>2
<1>. QED
  BY <1>1, <1>2, <1>3, AbstractStutter

LEMMA AbstractSemOp ==
  ASSUME KeepInv, NEW p \in Procs, NEW v \in OpValues, SemOp(p, v) PROVE AStep
<1>1. UNCHANGED <<live, held>> /\ v \in Int
  BY OpValuesAssumption DEF SemOp
<1>2. CASE Goto(p, "sem_op error") /\ UNCHANGED semval
  BY <1>1, <1>2, StepQuiet, AbstractStutter DEF SemOp, Using, KeepInv
<1>3. CASE Semop(p, v, 0, 0) /\ UNCHANGED pc
  <2>1. semval'[1] = semval[1]
    BY <1>1, <1>3, SemopEffect DEF KeepInv, IInv, Shape, Members
  <2>2. Users' = Users
    BY <1>1, <1>3 DEF Users, Valid
  <2>. QED
    BY <1>1, <2>1, <2>2, AbstractStutter
<1>. QED
  BY <1>2, <1>3 DEF SemOp

\* Processes that come through sem_create see a semaphore that is initialised before
\* its first user and once only, and that is removed only when it has no user.
THEOREM IsReferenceCounted == Openers = {} /\ Removers = {} => (Spec => ReferenceCounted)
<1> SUFFICES ASSUME Openers = {}, Removers = {} PROVE Spec => ReferenceCounted
  OBVIOUS
<1>1. Init => KeepInv /\ HeldLive /\ Abstract!Init
  <2> SUFFICES ASSUME Init PROVE KeepInv /\ HeldLive /\ Abstract!Init
    OBVIOUS
  <2>1. Users = {}
    BY DEF Init, Users, Valid
  <2>2. semval[1] = 0 /\ live = FALSE
    BY DEF Init, Zeros, Members
  <2>. QED
    BY <2>1, <2>2, KeepInit, HeldLiveInit DEF Abstract!Init
<1>2. KeepInv /\ HeldLive /\ [Next]_semVars => KeepInv' /\ HeldLive'
  BY KeepNext, HeldLiveNext DEF KeepInv
<1>3. KeepInv /\ HeldLive /\ [Next]_semVars => AStep
  <2> SUFFICES ASSUME KeepInv, HeldLive, [Next]_semVars PROVE AStep
    OBVIOUS
  <2>1. ASSUME UNCHANGED semVars PROVE AStep
    BY <2>1, AbstractStutter DEF semVars, Users, Valid
  <2>2. ASSUME NEW p \in Procs, CreateGet(p) \/ CreateStep(p) PROVE AStep
    BY <2>2, AbstractCreateGet, AbstractInside, AbstractSet, AbstractJoin DEF CreateStep
  <2>3. ASSUME NEW p \in Procs, OpenGet(p) \/ OpenStep(p) PROVE AStep
    BY <2>3 DEF OpenStep, OpenGet, OpenCount, KeepInv
  <2>4. ASSUME NEW p \in Procs, NEW v \in OpValues, SemOp(p, v) PROVE AStep
    BY <2>4, AbstractSemOp
  <2>5. ASSUME NEW p \in Procs, CloseCall(p) \/ CloseStep(p) PROVE AStep
    BY <2>5, AbstractInside, AbstractLeave DEF CloseStep
  <2>6. ASSUME NEW p \in Procs, SemRm(p) PROVE AStep
    BY <2>6, AbstractDrop
  <2>7. ASSUME NEW p \in Procs, Exit(p) PROVE AStep
    BY <2>7, AbstractLeave
  <2>. QED
    BY <2>1, <2>2, <2>3, <2>4, <2>5, <2>6, <2>7 DEF Next
<1>. QED
  BY <1>1, <1>2, <1>3, PTL DEF Spec, ReferenceCounted, Abstract!Spec, AStep

-----------------------------------------------------------------------------
(* The value [0], for a program that uses the semaphore as a lock *)

\* Only sem_op, the first SETVAL, a removal and an exit touch the value or its undo.
LEMMA ValueKept ==
  ASSUME IInv, NEW p \in Procs,
         \/ CreateGet(p) \/ CreateLock(p) \/ CreateGetval(p) \/ CreateSet1(p)
         \/ CreateEnd(p) \/ CloseCall(p) \/ CloseStep(p)
  PROVE  semval'[0] = semval[0] /\ \A q \in Procs : semadj'[q][0] = semadj[q][0]
<1>. USE DEF IInv, Shape
<1>1. CASE UNCHANGED <<semval, semadj>>
  BY <1>1
<1>2. ASSUME NEW d1 \in Int, NEW d2 \in Int, Semop(p, 0, d1, d2)
      PROVE  semval'[0] = semval[0] /\ \A q \in Procs : semadj'[q][0] = semadj[q][0]
  BY <1>2, SemopEffect DEF Members
<1>3. CASE SetVal(1, BIGCOUNT)
  BY <1>3, BoundsAssumption DEF SetVal, Members
<1>4. \/ UNCHANGED <<semval, semadj>> \/ SetVal(1, BIGCOUNT)
      \/ Semop(p, 0, 0, 1) \/ Semop(p, 0, -1, -1) \/ Semop(p, 0, 1, 1) \/ Semop(p, 0, 0, -1)
  BY DEF CreateGet, CreateLock, CreateGetval, CreateSet1, CreateEnd, CloseCall, CloseStep,
         CloseLock, CloseGetval, CloseUnlock, kernelVars
<1>. QED
  BY <1>1, <1>2, <1>3, <1>4

\* A set that nobody has initialised stays so until the second SETVAL.
LEMMA ZeroStays ==
  ASSUME IInv, semval[1] = 0, NEW p \in Procs,
         \/ CreateGet(p) \/ CreateLock(p) \/ CreateGetval(p) \/ CreateSet0(p)
         \/ CreateEnd(p) \/ CloseCall(p) \/ CloseStep(p) \/ SemRm(p) \/ Exit(p)
  PROVE  semval'[1] = 0
<1>. USE DEF IInv, Shape
<1>1. Users = {} /\ semadj[p][1] = 0
  BY DEF CounterExact
<1>2. CASE UNCHANGED semval
  BY <1>2
<1>3. CASE Semop(p, 0, 0, 1) \/ Semop(p, 0, 0, -1)
  BY <1>3, SemopEffect
<1>4. CASE SetVal(0, Initval)
  BY <1>4 DEF SetVal, Members
<1>5. CASE Remove
  BY <1>5 DEF Remove, Zeros, Members
<1>6. CASE Exit(p)
  BY <1>1, <1>6, BoundsAssumption DEF Exit, Clamp, Members
<1>7. /\ CreateEnd(p) => UNCHANGED semval
      /\ CloseLock(p) => UNCHANGED semval
  <2>1. CreateEnd(p) => UNCHANGED semval
    <3>1. CreateEnd(p) => (Valid(p) /\ semval[1] >= 1) \/ semval' = semval
      BY DEF CreateEnd
    <3>2. ~(semval[1] >= 1)
      OBVIOUS
    <3>. QED
      BY <3>1, <3>2
  <2>2. pc[p] = "x_lock" => ~Valid(p)
    BY <1>1 DEF Users, Using
  <2>3. CloseLock(p) => UNCHANGED semval
    BY <2>2 DEF CloseLock
  <2>. QED
    BY <2>1, <2>3
<1>8. \/ UNCHANGED semval \/ SetVal(0, Initval) \/ Semop(p, 0, 0, 1)
      \/ CloseUnlock(p) \/ SemRm(p) \/ Exit(p)
  BY <1>7 DEF CreateGet, CreateLock, CreateGetval, CreateSet0, CloseCall, CloseStep,
              CloseGetval, kernelVars
<1>9. CASE CloseUnlock(p)
  BY <1>2, <1>3, <1>9 DEF CloseUnlock
<1>10. CASE SemRm(p)
  BY <1>2, <1>5, <1>10 DEF SemRm, kernelVars
<1>. QED
  BY <1>2, <1>3, <1>4, <1>6, <1>8, <1>9, <1>10

-----------------------------------------------------------------------------
(* A set that everybody joins before anybody closes it: no call ever fails. *)

SteadyAt(p) ==
  /\ pc[p] # "idle" => Valid(p) /\ pc[p] \notin Failures \cup {"again"}
  /\ pc[p] = "x_rm" => \A q \in Procs : q # p => pc[q] = "idle"
  /\ pc[p] \in {"x_getval", "x_rm", "x_unlock"} => semval[1] # 0

Sound == IInv /\ \A p \in Procs : SteadyAt(p)

\* A step of p leaves the others where they are.
OthersStay(p) == \A q \in Procs : q # p => pc'[q] = pc[q]

ValueStays == semval'[0] = semval[0] /\ \A q \in Procs : semadj'[q][0] = semadj[q][0]
ValueSet(v) == semval'[0] = v /\ \A q \in Procs : semadj'[q][0] = 0

LEMMA SoundInit == Init => Sound
<1>1. Init => IInv
  BY InitInv
<1>. QED
  BY <1>1 DEF Init, Sound, SteadyAt

\* p moves on with an id that works; if it closes it is beyond the checks of SteadyAt.
LEMMA SteadyMove ==
  ASSUME Sound, NEW p \in Procs, NEW w, Goto(p, w),
         held' = held \/ held' = [held EXCEPT ![p] = "current"],
         w = "idle" \/ (Valid(p)' /\ w \notin Failures \cup {"again"}),
         w = "x_rm" => \A q \in Procs : q # p => pc[q] = "idle",
         w \in {"x_getval", "x_rm", "x_unlock"} => semval'[1] # 0,
         \A q \in Procs : q # p /\ pc[q] = "x_rm" => w = "idle",
         \A q \in Procs : q # p /\ pc[q] \in {"x_getval", "x_rm", "x_unlock"} => semval'[1] # 0
  PROVE  OthersStay(p) /\ pc'[p] = w /\ \A q \in Procs : SteadyAt(q)'
<1>1. pc'[p] = w /\ \A q \in Procs : q # p => pc'[q] = pc[q]
  BY OneMoves DEF Sound
<1>2. \A q \in Procs : q # p => (Valid(q) => Valid(q)')
  BY DEF Valid, Sound, IInv, Shape
<1>3. SteadyAt(p)'
  BY <1>1 DEF SteadyAt
<1>4. ASSUME NEW q \in Procs, q # p PROVE SteadyAt(q)'
  BY <1>1, <1>2, <1>4 DEF Sound, SteadyAt
<1>. QED
  BY <1>1, <1>3, <1>4 DEF OthersStay

Joined(p) ==
  /\ Sound' /\ OthersStay(p)
  /\ live' \in {live, TRUE}

LEMMA CreateKept ==
  ASSUME Sound, NEW p \in Procs, CreateGet(p) \/ CreateStep(p),
         \A q \in Procs : pc[q] \notin Closing
  PROVE  /\ Joined(p)
         /\ pc'[p] \in (Creating \ {"again"}) \cup {"open"}
         /\ pc[p] \in {"idle"} \cup (Creating \ {"again"})
         /\ ValueStays \/ (ValueSet(Initval) /\ \A q \in Procs : pc[q] \notin Using)
<1>. DEFINE Going == {"c_lock", "c_sleep", "c_getval", "c_set0", "c_set1", "c_end", "open"}
<1>1. pc[p] \in {"idle"} \cup (Creating \ {"again"})
  BY DEF Sound, SteadyAt, CreateGet, CreateStep, CreateLock, CreateGetval, CreateSet0,
         CreateSet1, CreateEnd, Creating
<1>2. CreateStep(p) => Valid(p)
  BY DEF Sound, SteadyAt, CreateStep, CreateLock, CreateGetval, CreateSet0,
         CreateSet1, CreateEnd
<1>3. \E w \in Going : Goto(p, w)
  BY <1>1, <1>2 DEF CreateGet, CreateStep, CreateLock, CreateGetval, CreateSet0,
         CreateSet1, CreateEnd, Creating
<1>4. PICK w \in Going : Goto(p, w)
  BY <1>3
<1>5. /\ held' = held \/ held' = [held EXCEPT ![p] = "current"]
      /\ live' \in {live, TRUE}
  BY <1>1, <1>2 DEF CreateGet, CreateStep, CreateLock, CreateGetval, CreateSet0,
         CreateSet1, CreateEnd, kernelVars, Creating
<1>6. Valid(p)'
  <2>1. CASE CreateGet(p)
    BY <1>1, <2>1 DEF CreateGet, Valid, Creating, Sound, IInv, Shape
  <2>2. CASE CreateStep(p)
    BY <1>2, <1>5, <2>2 DEF Valid, Sound, IInv, Shape
  <2>. QED
    BY <2>1, <2>2
<1>7. IInv'
  BY CreateGetInv, CreateLockInv, CreateGetvalInv, CreateSet0Inv, CreateSet1Inv, CreateEndInv
     DEF CreateStep, Sound
<1>8. w \notin Failures \cup {"again"} \cup Closing
  BY DEF Failures, Closing
<1>9. \A q \in Procs : pc[q] \notin {"x_getval", "x_rm", "x_unlock"}
  BY DEF Closing
<1>10. OthersStay(p) /\ pc'[p] = w /\ \A q \in Procs : SteadyAt(q)'
  BY <1>4, <1>5, <1>6, <1>8, <1>9, SteadyMove DEF Closing
<1>11. ValueStays \/ (ValueSet(Initval) /\ \A q \in Procs : pc[q] \notin Using)
  <2>1. CASE CreateSet0(p)
    <3>1. SetVal(0, Initval)
      BY <1>2, <2>1 DEF CreateStep, CreateSet0
    <3>2. ValueSet(Initval)
      BY <3>1, SetValEffect, BoundsAssumption DEF ValueSet, Members, Sound, IInv
    <3>3. Users = {}
      BY <1>2, <2>1 DEF CreateStep, CreateSet0, Sound, IInv, Uninitialised, CounterExact
    <3>. QED
      BY <3>2, <3>3 DEF Users, Using, Sound, SteadyAt
  <2>2. CASE ~CreateSet0(p)
    BY <2>2, ValueKept DEF CreateStep, ValueStays, Sound
  <2>. QED
    BY <2>1, <2>2
<1>12. w \in (Creating \ {"again"}) \cup {"open"}
  BY DEF Creating
<1>. QED
  BY <1>1, <1>5, <1>7, <1>10, <1>11, <1>12 DEF Joined, Sound

LEMMA OpenKept ==
  ASSUME Sound, NEW p \in Procs, OpenGet(p) \/ OpenStep(p),
         \A q \in Procs : pc[q] \notin Closing
  PROVE  /\ Joined(p)
         /\ pc'[p] \in {"o_open", "open"}
         /\ pc[p] \in {"idle", "o_open"}
         /\ ValueStays
<1>1. pc[p] \in {"idle", "o_open"} /\ live' = live
  BY DEF OpenGet, OpenStep, OpenCount, kernelVars
<1>2. OpenStep(p) => Valid(p)
  BY DEF Sound, SteadyAt, OpenStep, OpenCount
<1>3. PICK w \in {"o_open", "open"} : Goto(p, w)
  BY <1>1, <1>2 DEF OpenGet, OpenStep, OpenCount
<1>5. held' = held \/ held' = [held EXCEPT ![p] = "current"]
  BY DEF OpenGet, OpenStep, OpenCount
<1>6. Valid(p)'
  <2>1. CASE OpenGet(p)
    BY <1>1, <2>1 DEF OpenGet, Valid, Sound, IInv, Shape
  <2>2. CASE OpenStep(p)
    BY <1>2, <1>5, <2>2 DEF Valid, Sound, IInv, Shape
  <2>. QED
    BY <2>1, <2>2
<1>7. IInv'
  BY OpenGetInv, OpenCountInv DEF OpenStep, Sound
<1>8. w \notin Failures \cup {"again"} \cup Closing
  BY DEF Failures, Closing
<1>9. \A q \in Procs : pc[q] \notin {"x_getval", "x_rm", "x_unlock"}
  BY DEF Closing
<1>10. OthersStay(p) /\ pc'[p] = w /\ \A q \in Procs : SteadyAt(q)'
  BY <1>3, <1>5, <1>6, <1>8, <1>9, SteadyMove DEF Closing
<1>11. ValueStays
  <2>1. CASE OpenGet(p)
    BY <2>1 DEF OpenGet, kernelVars, ValueStays
  <2>2. CASE OpenStep(p)
    <3>1. Semop(p, 0, -1, 0)
      BY <1>2, <2>2 DEF OpenStep, OpenCount
    <3>. QED
      BY <3>1, SemopEffect DEF ValueStays, Sound, IInv, Shape, Members
  <2>. QED
    BY <2>1, <2>2
<1>. QED
  BY <1>1, <1>3, <1>7, <1>10, <1>11 DEF Joined, Sound

\* sem_op waits until the value suffices.
LEMMA OpWaits ==
  ASSUME Sound, NEW p \in Procs, NEW v \in OpValues, v # 0, SemOp(p, v)
  PROVE  semval[0] + v >= 0
<1>1. Valid(p) /\ pc[p] = "open" /\ v \in Int
  BY OpValuesAssumption DEF Sound, SteadyAt, SemOp
<1>2. v > 0 \/ semval[0] >= -v
  BY <1>1 DEF SemOp
<1>3. semval[0] \in Nat
  BY DEF Sound, IInv, Shape
<1>. QED
  BY <1>1, <1>2, <1>3

\* A step of something else.
LEMMA SoundStays ==
  ASSUME Sound, UNCHANGED <<live, semval, semadj, held, pc>>
  PROVE  Sound'
<1>1. UNCHANGED <<live, semval, semadj, held, pc>>
  OBVIOUS
<1>2. LockHolders' = LockHolders
  BY <1>1 DEF LockHolders, Valid
<1>3. Users' = Users
  BY <1>1 DEF Users, Valid
<1>4. Shape'
  BY <1>1 DEF Sound, IInv, Shape
<1>5. LockExclusive'
  BY <1>1, <1>2 DEF Sound, IInv, LockExclusive
<1>6. CounterExact'
  BY <1>1, <1>3 DEF Sound, IInv, CounterExact
<1>7. Uninitialised'
  BY <1>1 DEF Sound, IInv, Uninitialised, Valid
<1>8. \A p \in Procs : SteadyAt(p)'
  BY <1>1 DEF Sound, SteadyAt, Valid
<1>. QED
  BY <1>4, <1>5, <1>6, <1>7, <1>8 DEF Sound, IInv

\* sem_op in range succeeds.
LEMMA OpKept ==
  ASSUME Sound, NEW p \in Procs, NEW v \in OpValues, v # 0, SemOp(p, v), InRange(p, v)
  PROVE  /\ Sound'
         /\ UNCHANGED <<live, pc>>
         /\ pc[p] = "open"
         /\ semval[0] + v >= 0
         /\ semval'[0] = semval[0] + v
         /\ semadj'[p][0] = semadj[p][0] - v
         /\ \A q \in Procs : q # p => semadj'[q] = semadj[q]
<1>1. Valid(p) /\ pc[p] = "open" /\ v \in Int
  BY OpValuesAssumption DEF Sound, SteadyAt, SemOp
<1>2. Semop(p, v, 0, 0) /\ UNCHANGED <<live, held, pc>> /\ (v > 0 \/ semval[0] >= -v)
  BY <1>1 DEF SemOp
<1>3. Shape /\ semval[0] \in Nat /\ semval[1] \in Int
  BY DEF Sound, IInv, Shape, Members
<1>4. /\ semval'[0] = semval[0] + v
      /\ semval'[1] = semval[1]
      /\ semadj'[p][0] = semadj[p][0] - v
      /\ \A q \in Procs : q # p => semadj'[q] = semadj[q]
  <2>. Shape /\ v \in Int /\ Semop(p, v, 0, 0)
    BY <1>1, <1>2, <1>3
  <2>1. semval'[1] = semval[1] + 0
    BY SemopEffect
  <2>2. semval'[0] = semval[0] + v /\ semadj'[p][0] = semadj[p][0] - v
    BY SemopEffect
  <2>3. \A q \in Procs : q # p => semadj'[q] = semadj[q]
    BY SemopEffect
  <2>. QED
    BY <1>3, <2>1, <2>2, <2>3
<1>5. \A q \in Procs : SteadyAt(q)'
  BY <1>2, <1>3, <1>4 DEF Sound, SteadyAt, Valid
<1>6. IInv'
  BY SemOpInv DEF Sound
<1>7. semval[0] + v >= 0
  BY <1>1, <1>2, <1>3
<1>. QED
  BY <1>1, <1>2, <1>4, <1>5, <1>6, <1>7 DEF Sound

\* The set is removed: nobody else was in it.
Removed(p) ==
  /\ pc[p] = "x_rm" /\ pc'[p] = "idle" /\ live' = FALSE
  /\ ValueSet(0)
  /\ \A q \in Procs : q # p => pc[q] = "idle"

\* Somebody else uses the set, or will close it.
Stays(p) == \E q \in Procs : q # p /\ pc[q] \in Using

LEMMA CloseKept ==
  ASSUME Sound, Removers = {}, NEW p \in Procs, CloseCall(p) \/ CloseStep(p),
         \A q \in Procs : q # p => pc[q] \notin Creating \cup {"o_open"}
  PROVE  /\ Sound' /\ OthersStay(p) /\ ValueStays /\ UNCHANGED live
         /\ \/ pc[p] = "open" /\ pc'[p] = "x_lock"
            \/ /\ pc[p] = "x_lock" /\ pc'[p] = "x_getval"
               /\ \A q \in Procs : pc[q] \notin Locked
            \/ pc[p] = "x_getval" /\ pc'[p] = "x_rm"
            \/ pc[p] = "x_getval" /\ pc'[p] = "x_unlock" /\ Stays(p)
            \/ pc[p] = "x_unlock" /\ pc'[p] = "idle"
<1>. DEFINE Moved ==
            \/ pc[p] = "open" /\ pc'[p] = "x_lock"
            \/ /\ pc[p] = "x_lock" /\ pc'[p] = "x_getval"
               /\ \A q \in Procs : pc[q] \notin Locked
            \/ pc[p] = "x_getval" /\ pc'[p] = "x_rm"
            \/ pc[p] = "x_getval" /\ pc'[p] = "x_unlock" /\ Stays(p)
            \/ pc[p] = "x_unlock" /\ pc'[p] = "idle"
            Kept == OthersStay(p) /\ \A q \in Procs : SteadyAt(q)'
<1>1. Valid(p) /\ UNCHANGED <<live, held>>
  BY DEF Sound, SteadyAt, CloseCall, CloseStep, CloseLock, CloseGetval, CloseUnlock, kernelVars
<1>2. Valid(p)'
  BY <1>1 DEF Valid
<1>3. \A q \in Procs : q # p => pc[q] # "x_rm" \/ pc[p] = "idle"
  BY DEF Sound, SteadyAt
<1>4. pc[p] # "idle"
  BY DEF CloseCall, CloseStep, CloseLock, CloseGetval, CloseUnlock
<1>5. \A q \in Procs : q # p => pc[q] # "x_rm"
  BY <1>3, <1>4
<1>6. Shape /\ semval[1] \in Int /\ CounterExact /\ LockExclusive
  BY DEF Sound, IInv, Shape, Members
<1>7. ASSUME CloseCall(p) PROVE Kept /\ Moved
  <2>1. Goto(p, "x_lock") /\ UNCHANGED semval /\ pc[p] = "open"
    BY <1>7 DEF CloseCall, kernelVars
  <2>2. OthersStay(p) /\ pc'[p] = "x_lock" /\ \A q \in Procs : SteadyAt(q)'
    <3>1. "x_lock" \notin Failures \cup {"again"}
      BY DEF Failures
    <3>2. \A q \in Procs : q # p /\ pc[q] \in {"x_getval", "x_rm", "x_unlock"} => semval'[1] # 0
      BY <2>1 DEF Sound, SteadyAt
    <3>. QED
      BY <1>1, <1>2, <1>5, <2>1, <3>1, <3>2, SteadyMove
  <2>. QED
    BY <2>1, <2>2
<1>8. ASSUME CloseLock(p) PROVE Kept /\ Moved
  <2>1. Goto(p, "x_getval") /\ semval[2] = 0 /\ pc[p] = "x_lock" /\ Semop(p, 0, 1, 1)
    BY <1>1, <1>8 DEF CloseLock
  <2>2. semval'[1] # 0
    <3>1. p \in Users
      BY <1>1, <2>1 DEF Users, Using
    <3>2. semval[1] # 0 /\ semval[1] + Cardinality(Users) = BIGCOUNT
      BY <1>6, <3>1 DEF CounterExact
    <3>3. semval'[1] = semval[1] + 1
      BY <1>6, <2>1, SemopEffect
    <3>. QED
      BY <1>6, <3>2, <3>3, UsersFinite, BoundsAssumption
  <2>3. \A q \in Procs : pc[q] \notin Locked
    <3>1. LockHolders = {}
      BY <1>6, <2>1 DEF LockExclusive
    <3>. QED
      BY <3>1 DEF LockHolders, Sound, SteadyAt, Locked
  <2>4. OthersStay(p) /\ pc'[p] = "x_getval" /\ \A q \in Procs : SteadyAt(q)'
    <3>1. "x_getval" \notin Failures \cup {"again"}
      BY DEF Failures
    <3>. QED
      BY <1>1, <1>2, <1>5, <2>1, <2>2, <3>1, SteadyMove
  <2>. QED
    BY <2>1, <2>3, <2>4
<1>9. ASSUME CloseGetval(p) PROVE Kept /\ Moved
  <2>1. pc[p] = "x_getval" /\ semval[1] # 0 /\ UNCHANGED semval
    BY <1>9 DEF CloseGetval, Sound, SteadyAt, kernelVars
  <2>2. semval[1] + Cardinality(Users) = BIGCOUNT
    BY <1>6, <2>1 DEF CounterExact
  <2>3. ASSUME semval[1] = BIGCOUNT PROVE Kept /\ Moved
    <3>1. Users = {}
      BY <1>6, <2>2, <2>3, UsersFinite, BoundsAssumption, FS_EmptySet
    <3>2. p \in LockHolders
      BY <1>1, <2>1 DEF LockHolders, Locked
    <3>3. \A q \in Procs : q # p => pc[q] = "idle"
      <4> SUFFICES ASSUME NEW q \in Procs, q # p, pc[q] # "idle" PROVE FALSE
        OBVIOUS
      <4>1. Valid(q) /\ pc[q] \notin Failures
        BY DEF Sound, SteadyAt
      <4>2. pc[q] \notin Using
        BY <3>1, <4>1 DEF Users
      <4>3. pc[q] \notin Locked
        BY <1>6, <3>2, <4>1 DEF LockExclusive, LockHolders
      <4>4. pc[q] \in Points
        BY <1>6 DEF Shape
      <4>. QED
        BY <4>1, <4>2, <4>3, <4>4 DEF Points, Using, Locked, Closing
    <3>4. Goto(p, "x_rm")
      BY <1>1, <1>6, <1>9, <2>3, BoundsAssumption DEF CloseGetval
    <3>5. OthersStay(p) /\ pc'[p] = "x_rm" /\ \A q \in Procs : SteadyAt(q)'
      <4>1. "x_rm" \notin Failures \cup {"again"}
        BY DEF Failures
      <4>2. semval'[1] # 0
        BY <2>1
      <4>. QED
        BY <1>1, <1>2, <1>5, <3>3, <3>4, <4>1, <4>2, SteadyMove
    <3>. QED
      BY <2>1, <3>5
  <2>4. ASSUME semval[1] # BIGCOUNT PROVE Kept /\ Moved
    <3>1. ~(semval[1] > BIGCOUNT) /\ Users # {}
      BY <1>6, <2>2, <2>4, UsersFinite, BoundsAssumption, FS_EmptySet
    <3>2. Stays(p)
      <4>1. PICK q \in Users : TRUE
        BY <3>1
      <4>2. pc[q] \notin Failures
        BY <1>6 DEF Users, Sound, SteadyAt, Using, Failures
      <4>. QED
        BY <2>1, <4>1, <4>2 DEF Stays, Users, Using, Failures
    <3>3. Goto(p, "x_unlock")
      BY <1>1, <1>9, <2>4, <3>1 DEF CloseGetval
    <3>4. OthersStay(p) /\ pc'[p] = "x_unlock" /\ \A q \in Procs : SteadyAt(q)'
      <4>1. "x_unlock" \notin Failures \cup {"again"}
        BY DEF Failures
      <4>2. semval'[1] # 0
        BY <2>1
      <4>. QED
        BY <1>1, <1>2, <1>5, <3>3, <4>1, <4>2, SteadyMove
    <3>. QED
      BY <2>1, <3>2, <3>4
  <2>. QED
    BY <2>3, <2>4
<1>10. ASSUME CloseUnlock(p) PROVE Kept /\ Moved
  <2>1. Goto(p, "idle") /\ Semop(p, 0, 0, -1) /\ pc[p] = "x_unlock" /\ semval[1] # 0
    BY <1>1, <1>10 DEF CloseUnlock, Sound, SteadyAt
  <2>2. semval'[1] # 0
    <3>1. semval'[1] = semval[1] + 0
      BY <1>6, <2>1, SemopEffect
    <3>. QED
      BY <1>6, <2>1, <3>1
  <2>3. OthersStay(p) /\ pc'[p] = "idle" /\ \A q \in Procs : SteadyAt(q)'
    BY <1>1, <1>5, <2>1, <2>2, SteadyMove
  <2>. QED
    BY <2>1, <2>3
<1>11. Kept /\ Moved
  BY <1>7, <1>8, <1>9, <1>10 DEF CloseStep
<1>12. IInv'
  BY CloseCallInv, CloseLockInv, CloseGetvalInv, CloseUnlockInv DEF CloseStep, Sound
<1>13. ValueStays
  BY ValueKept DEF ValueStays, Sound
<1>. QED
  BY <1>1, <1>11, <1>12, <1>13 DEF Sound

LEMMA RemoveKept ==
  ASSUME Sound, Removers = {}, NEW p \in Procs, SemRm(p)
  PROVE  Sound' /\ OthersStay(p) /\ Removed(p)
<1>1. pc[p] = "x_rm" /\ Valid(p) /\ \A q \in Procs : q # p => pc[q] = "idle"
  BY DEF SemRm, Sound, SteadyAt
<1>2. Remove /\ Goto(p, "idle")
  BY <1>1 DEF SemRm
<1>3. \A q \in Procs : pc'[q] = "idle"
  BY <1>1, <1>2, OneMoves DEF Sound
<1>4. ValueSet(0) /\ live' = FALSE
  BY <1>2 DEF Remove, ValueSet, Zeros, Members
<1>5. IInv'
  BY SemRmInv DEF Sound
<1>. QED
  BY <1>1, <1>3, <1>4, <1>5 DEF Sound, SteadyAt, OthersStay, Removed

LEMMA ExitKept ==
  ASSUME Sound, NEW p \in Procs, Exit(p)
  PROVE  /\ Sound' /\ OthersStay(p) /\ UNCHANGED live
         /\ pc'[p] = "idle"
         /\ semval'[0] = Clamp(semval[0] + semadj[p][0])
         /\ semadj'[p][0] = 0
         /\ \A q \in Procs : q # p => semadj'[q] = semadj[q]
<1>1. Goto(p, "idle") /\ UNCHANGED live
  BY DEF Exit
<1>2. pc'[p] = "idle" /\ OthersStay(p)
  BY <1>1, OneMoves DEF OthersStay, Sound
<1>3. Shape /\ CounterExact /\ semval[1] \in Int
  BY DEF Sound, IInv, Shape, Members
<1>4. /\ semval'[0] = Clamp(semval[0] + semadj[p][0])
      /\ semval'[1] = Clamp(semval[1] + semadj[p][1])
      /\ semadj'[p][0] = 0
      /\ \A q \in Procs : q # p => semadj'[q] = semadj[q] /\ held'[q] = held[q]
  BY <1>3 DEF Exit, Zeros, Members, Shape
<1>5. semval[1] # 0 => semval'[1] # 0
  <2> SUFFICES ASSUME semval[1] # 0 PROVE semval'[1] # 0
    OBVIOUS
  <2>1. semval[1] + Cardinality(Users) = BIGCOUNT /\ semadj[p][1] \in {0, 1}
    BY <1>3 DEF CounterExact
  <2>2. semval[1] >= 1 /\ SEMVMX >= 1 /\ SEMVMX \in Nat
    BY <1>3, <2>1, UsersFinite, BoundsAssumption
  <2>3. semval[1] + semadj[p][1] >= 1 /\ semval[1] + semadj[p][1] \in Int
    BY <1>3, <2>1, <2>2
  <2>. QED
    BY <1>4, <2>2, <2>3 DEF Clamp
<1>6. \A q \in Procs : SteadyAt(q)'
  BY <1>2, <1>4, <1>5 DEF Sound, SteadyAt, OthersStay, Valid
<1>7. IInv'
  BY ExitInv DEF Sound
<1>. QED
  BY <1>1, <1>2, <1>4, <1>6, <1>7 DEF Sound
=============================================================================
