---------------------------- MODULE FilePrograms ----------------------------
(***************************************************************************)
(* The eight client and server pairs of chapter 3 that transfer a file: a  *)
(* behaviour is one run of a pair, through the kernel (Transfers) or       *)
(* through shared memory (ShmPrograms), and the variables of the other     *)
(* module do not move.                                                     *)
(***************************************************************************)
EXTENDS Transfers

CONSTANTS
  Pairs,             \* "transfer", "10_shared_memory" and "11_multi_buffer", or some of them
  NBUFF, Blocks,     \* the buffers of 11_multi_buffer, the blocks of the file
  BIGCOUNT, SEMVMX

VARIABLES
  pair,
  \* the variables of ShmPrograms, of the same names but for the first four
  shm_program, shm_at, shm_offset, shm_printed,
  cliLive, cliVal, cliAdj, cliHeld, cliPc, servLive, servVal, servAdj, servHeld, servPc,
  shm, mesg, mesgptr, i, exists

ShmPairs == {"10_shared_memory", "11_multi_buffer"}

Shm == INSTANCE ShmPrograms
  WITH Programs <- ShmPairs, File <- Blocks, Name <- "name", Message <- "cannot_open",
       program <- shm_program, at <- shm_at, offset <- shm_offset, printed <- shm_printed

\* Blocks is a file, hence finite; BIGCOUNT and SEMVMX are as Semaphore assumes them, for
\* the two parties.
ASSUME FileProgramsAssumption ==
  /\ Pairs \subseteq ShmPairs \cup {"transfer"}
  /\ Killable \subseteq Parties
  /\ NBUFF \in Nat /\ NBUFF >= 2
  /\ BIGCOUNT \in Nat /\ SEMVMX \in Nat
  /\ Cardinality(Parties) < BIGCOUNT /\ BIGCOUNT =< SEMVMX
  /\ Len(Blocks) \in Nat
\* The file is a sequence of blocks.
ASSUME BlocksAssumption == Blocks \in Seq({Blocks[k] : k \in DOMAIN Blocks})

shmVars == <<shm_program, shm_at, shm_offset, shm_printed, cliLive, cliVal, cliAdj, cliHeld,
             cliPc, servLive, servVal, servAdj, servHeld, servPc, shm, mesg, mesgptr, i, exists>>
fileVars == <<pair, vars, shmVars>>

Transferring == pair = "transfer" /\ UNCHANGED <<pair, shmVars>>
Sharing == pair \in ShmPairs /\ UNCHANGED <<pair, vars>>

\* The pair that does not run is in some initial state.
FilesInit ==
  /\ pair \in Pairs
  /\ Init
  /\ pair \in ShmPairs => program = "3_pipes" /\ target = "absent" /\ name = Name
                            /\ PIPE_BUF = CHOOSE n \in PIPE_BUFs : TRUE
  /\ Shm!Init
  /\ IF pair = "transfer" THEN shm_program = "10_shared_memory" /\ exists
     ELSE shm_program = pair

FilesStep(x) == Transferring /\ Step(x)

FilesNext ==
  \/ \E x \in Parties : FilesStep(x) \/ (Transferring /\ Killed(x))
  \/ Sharing /\ Shm!Next

FilesSpec == FilesInit /\ [][FilesNext]_fileVars

\* The fairness of Transfers and of ShmPrograms.
FilesFair ==
  /\ FilesSpec
  /\ \A x \in Parties : WF_fileVars(FilesStep(x))
  /\ SF_fileVars(Sharing /\ Shm!ClientRuns)
  /\ SF_fileVars(Sharing /\ Shm!ServerRuns)

-----------------------------------------------------------------------------
(* Properties: those of the two modules *)

\* Types; that no read overruns a buffer, no pipe or queue its bounds, no semaphore its.
FilesTypeOK == TypeOK /\ Shm!TypeOK

\* When both have ended by exit nothing is left in the kernel: no FIFO and no queue, no
\* semaphore and no segment.
NothingRemains == NothingLeft /\ Shm!NothingLeft

\* No semaphore call finds its set removed, or its values out of range, even after the
\* other party died.
NoSemaphoreLost == Shm!NoSemaphoreLost

\* The segment of 10_shared_memory has one owner, and both semaphores count it.
OneOwner == Shm!OneOwner

\* Client and server of 11_multi_buffer are never in the same buffer.
BuffersDisjoint == Shm!BuffersDisjoint

\* The semaphores of 11_multi_buffer account for every buffer.
BuffersConserved == Shm!BuffersConserved

\* What the client prints is the reply, from its beginning and in order: each pair implements
\* FileTransfer.
AllPrintInOrder == PrintsInOrder /\ Shm!PrintsInOrder

\* The whole reply is printed if nobody is killed.
AllPrint ==
  /\ pair = "transfer" => PrintsAll
  /\ pair \in ShmPairs => Shm!PrintsAll

\* Neither waits for the other for ever: in open, read, write, wait, msgsnd or msgrcv.
BothPartiesEnd == pair = "transfer" => BothEnd

\* The end that the order of the last steps with shared memory guarantees: of the server of
\* 10_shared_memory, which waits for nobody, and of the client of 11_multi_buffer, which the
\* server's poll protects from the server's undo.
EarlierEnds == pair \in ShmPairs => Shm!EarlierEnds

\* On a stream, a party that ends in any way ends the other, which may be reading, writing
\* or waiting for its child.
EndsEndOther == pair = "transfer" => EndIsSeen
=============================================================================
