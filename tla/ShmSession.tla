----------------------------- MODULE ShmSession -----------------------------
(***************************************************************************)
(* What the two main() functions of 10_shared_memory, and those of         *)
(* 11_multi_buffer, do around client() and server(): the server creates    *)
(* the shared memory and two semaphores, the client opens them, and both   *)
(* close the semaphores when they are done.  The semaphores are two copies *)
(* of Semaphore.  The functions client() and server() are in the modules   *)
(* that extend this one; they start at "serve" and "ask" and end at        *)
(* "detach".                                                               *)
(***************************************************************************)
EXTENDS Integers, FiniteSets, Sequences

CONSTANTS
  Killable,   \* the parties that may be killed: a subset of Parties
  BIGCOUNT, SEMVMX

Parties == {"client", "server"}

VARIABLES
  cliLive, cliVal, cliAdj, cliHeld, cliPc,        \* clisem
  servLive, servVal, servAdj, servHeld, servPc,   \* servsem
  shm,                                            \* the segments exist
  at                                              \* where each party is

cliVars == <<cliLive, cliVal, cliAdj, cliHeld, cliPc>>
servVars == <<servLive, servVal, servAdj, servHeld, servPc>>
semVars == <<cliVars, servVars>>
sessionVars == <<semVars, shm, at>>

\* "The client semaphore starts out at 1 since the client process starts thing going."
Cli == INSTANCE Semaphore
  WITH Procs <- Parties, Openers <- {"client"}, Removers <- {}, Initval <- 1,
       OpValues <- {-1, 1}, live <- cliLive, semval <- cliVal, semadj <- cliAdj,
       held <- cliHeld, pc <- cliPc

Serv == INSTANCE Semaphore
  WITH Procs <- Parties, Openers <- {"client"}, Removers <- {}, Initval <- 0,
       OpValues <- {-1, 1}, live <- servLive, semval <- servVal, semadj <- servAdj,
       held <- servHeld, pc <- servPc

SessionInit ==
  /\ Cli!Init /\ Serv!Init
  /\ shm = FALSE
  /\ at = [x \in Parties |-> "start"]

\* A semaphore call of x has called err_sys.
Failed(x) == cliPc[x] \in Cli!Failures \/ servPc[x] \in Serv!Failures

At(x, here, there) == at[x] = here /\ ~Failed(x) /\ at' = [at EXCEPT ![x] = there]

\* Still in a call, or on to the next one when the call has returned.
Stay(x, here, returned, there) ==
  at[x] = here /\ at' = [at EXCEPT ![x] = IF returned THEN there ELSE @]

-----------------------------------------------------------------------------
(* The server: shmget and shmat, then sem_create twice *)

ServerAttach ==
  /\ At("server", "start", "create_c")
  /\ shm' = TRUE
  /\ UNCHANGED semVars

ServerCreate ==
  /\ \/ /\ Cli!CreateGet("server") \/ Cli!CreateStep("server")
        /\ Stay("server", "create_c", cliPc'["server"] = "open", "create_s")
        /\ UNCHANGED servVars
     \/ /\ Serv!CreateGet("server") \/ Serv!CreateStep("server")
        /\ Stay("server", "create_s", servPc'["server"] = "open", "serve")
        /\ UNCHANGED cliVars
  /\ UNCHANGED shm

-----------------------------------------------------------------------------
(* The client: "the server must have created them already" *)

ClientAttach ==
  /\ At("client", "start", "open_c")
  /\ shm
  /\ UNCHANGED <<semVars, shm>>

ClientOpen ==
  /\ \/ /\ Cli!OpenGet("client") \/ Cli!OpenStep("client")
        /\ Stay("client", "open_c", cliPc'["client"] = "open", "open_s")
        /\ UNCHANGED servVars
     \/ /\ Serv!OpenGet("client") \/ Serv!OpenStep("client")
        /\ Stay("client", "open_s", servPc'["client"] = "open", "ask")
        /\ UNCHANGED cliVars
  /\ UNCHANGED shm

\* sem_open found no set and returned -1: err_sys.  The user tries again.
ClientTooEarly ==
  /\ \/ at["client"] = "open_c" /\ cliPc["client"] = "idle" /\ ~cliLive
     \/ at["client"] = "open_s" /\ servPc["client"] = "idle" /\ ~servLive
  /\ at' = [at EXCEPT !["client"] = "start"]
  /\ Cli!Exit("client") /\ Serv!Exit("client")
  /\ UNCHANGED shm

-----------------------------------------------------------------------------
(* The end of both: detach (the client also removes the segments), sem_close
   twice, and exit, where the kernel applies the undo of both semaphores *)

\* Bug: the client leaves the segments in the kernel.
ClientDetachOnly ==
  /\ At("client", "detach", "close_c")
  /\ UNCHANGED <<shm, semVars>>

ClientDetach ==
  /\ At("client", "detach", "close_c")
  /\ shm' = FALSE
  /\ UNCHANGED semVars

CloseSems(x) ==
  /\ \/ /\ Cli!CloseCall(x) \/ Cli!CloseStep(x) \/ Cli!SemRm(x)
        /\ Stay(x, "close_c", cliPc'[x] = "idle", "close_s")
        /\ UNCHANGED servVars
     \/ /\ Serv!CloseCall(x) \/ Serv!CloseStep(x) \/ Serv!SemRm(x)
        /\ Stay(x, "close_s", servPc'[x] = "idle", "exit")
        /\ UNCHANGED cliVars
  /\ UNCHANGED shm

Exit(x) ==
  /\ At(x, "exit", "done")
  /\ Cli!Exit(x) /\ Serv!Exit(x)
  /\ UNCHANGED shm

\* Killed anywhere, or ended by an err_sys of semaphore.c.
Dies(x) ==
  /\ at[x] \notin {"start", "done", "dead"}
  /\ x \in Killable \/ Failed(x)
  /\ at' = [at EXCEPT ![x] = "dead"]
  /\ Cli!Exit(x) /\ Serv!Exit(x)
  /\ UNCHANGED shm

ServerMain == ServerAttach \/ ServerCreate \/ CloseSems("server") \/ Exit("server")
ClientMain == ClientAttach \/ ClientOpen \/ ClientTooEarly \/ ClientDetach
              \/ CloseSems("client") \/ Exit("client")

\* sem_wait and sem_signal of one party on one of the semaphores.
WaitCli(x)    == Cli!SemOp(x, -1) /\ UNCHANGED <<servVars, shm>>
SignalCli(x)  == Cli!SemOp(x, 1) /\ UNCHANGED <<servVars, shm>>
WaitServ(x)   == Serv!SemOp(x, -1) /\ UNCHANGED <<cliVars, shm>>
SignalServ(x) == Serv!SemOp(x, 1) /\ UNCHANGED <<cliVars, shm>>

-----------------------------------------------------------------------------
\* When both programs have run to their end nothing is left in the kernel: the last
\* sem_close of each semaphore removed it, and the client removed the segments.
NothingLeft ==
  (\A x \in Parties : at[x] = "done") => ~cliLive /\ ~servLive /\ ~shm

\* No semaphore call finds its set removed, or its values out of range, even after the
\* other party died.
NoSemaphoreLost == \A x \in Parties : ~Failed(x)

\* Nobody is killed.
Undisturbed == [](\A x \in Parties : at[x] # "dead")

\* The programs come to their end, where the semaphores are closed.
ServerEnds == Undisturbed => <>(at["server"] = "done")
ClientEnds == Undisturbed => <>(at["client"] = "done")
=============================================================================
