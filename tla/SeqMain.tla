------------------------------- MODULE SeqMain ------------------------------
(***************************************************************************)
(* The loop that 1_file_record_locking/file_record.c and                   *)
(* 9_semaphores/main.c have in common: read the number in SEQFILE,         *)
(* increment it and write it back, a number of times, inside a lock.  The  *)
(* modules that extend this one say what the lock is.                      *)
(***************************************************************************)
EXTENDS Integers, FiniteSets

CONSTANTS
  Procs,        \* the processes
  Rounds,       \* iterations of the loop; 10 or 20 in the programs
  MaxStarts     \* bound: how often the program is started in all

ASSUME SeqMainAssumption == Rounds \in Nat \ {0} /\ MaxStarts \in Nat

VARIABLES
  main,     \* where a process is in main()
  round,    \* main's i
  seqno,    \* main's seqno
  starts,   \* how often the program was started
  file      \* the number in SEQFILE

mainVars == <<main, round, seqno, starts, file>>

MainInit ==
  /\ main = [p \in Procs |-> "stopped"]
  /\ round = [p \in Procs |-> 0]
  /\ seqno = [p \in Procs |-> 0]
  /\ starts = 0
  /\ file = 1

At(p, here, there) == main[p] = here /\ main' = [main EXCEPT ![p] = there]

\* A step of main() that only moves on.
Step(p, here, there) == At(p, here, there) /\ UNCHANGED <<round, seqno, starts, file>>

\* main() begins.
Begin(p, there) ==
  /\ starts < MaxStarts
  /\ At(p, "stopped", there)
  /\ starts' = starts + 1
  /\ UNCHANGED <<round, seqno, file>>

\* lseek, read and sscanf.  seqno++ has happened when main is at "write".
Read(p) ==
  /\ At(p, "read", "write")
  /\ seqno' = [seqno EXCEPT ![p] = file + 1]
  /\ UNCHANGED <<round, starts, file>>

\* lseek and write: the new number covers the old one, which is no longer.
Write(p, there) ==
  /\ At(p, "write", there)
  /\ file' = seqno[p]
  /\ UNCHANGED <<round, seqno, starts>>

\* The end of an iteration.
Again(p) == round[p] + 1 < Rounds

NextRound(p, here, again, after) ==
  /\ At(p, here, IF Again(p) THEN again ELSE after)
  /\ round' = [round EXCEPT ![p] = @ + 1]
  /\ UNCHANGED <<seqno, starts, file>>

\* exit(), or a signal; the slot then stands for a process started anew.
Stop(p) ==
  /\ main[p] # "stopped"
  /\ main' = [main EXCEPT ![p] = "stopped"]
  /\ round' = [round EXCEPT ![p] = 0]
  /\ seqno' = [seqno EXCEPT ![p] = 0]
  /\ UNCHANGED <<starts, file>>

MainTypeOK ==
  /\ round \in [Procs -> 0 .. Rounds]
  /\ starts \in 0 .. MaxStarts
  /\ file \in 1 .. 1 + MaxStarts * Rounds
  /\ seqno \in [Procs -> 0 .. 1 + MaxStarts * Rounds]

\* No number is given out twice and none is skipped: every write adds one to what
\* the file holds then, whoever wrote last and whoever was killed.
NoLostUpdate ==
  [][\A p \in Procs : main[p] = "write" /\ main'[p] \notin {"write", "stopped"}
       => file' = file + 1]_mainVars
=============================================================================
