----------------------------- MODULE FileProofs -----------------------------
(***************************************************************************)
(* Proofs about FilePrograms, for every file, number of buffers and set of *)
(* parties that may be killed: the semaphores of the shared memory         *)
(* programs never fail, the segment has one owner, the buffers of the ring *)
(* are disjoint and accounted for, and what both programs leave behind is  *)
(* removed, by the pipe, FIFO and queue programs too.                      *)
(*                                                                         *)
(* The steps of the two programs are first brought to one form: Moves.     *)
(* The invariant says then, of the two copies of Semaphore, that they are  *)
(* Sound (SemaphoreProofs); where in sem_create, sem_open and sem_close    *)
(* each party is (Coupled); that the two sessions overlap (Phases); what   *)
(* each party has added to and taken from a semaphore, which is its undo   *)
(* (Counts); where the token of 10_shared_memory is (Turns), and the full  *)
(* and empty buffers of 11_multi_buffer (Ring); and who closes last (Ends).*)
(* A death undoes what Counts says, so that Turns and Ring hold while both *)
(* parties live, and Core for ever.                                        *)
(***************************************************************************)
EXTENDS FilePrograms, FiniteSetTheorems, TLAPS

\* The lemmas of SemaphoreProofs about clisem and about servsem.
CP == INSTANCE SemaphoreProofs
  WITH Procs <- Parties, Openers <- {"client"}, Removers <- {}, Initval <- 1,
       OpValues <- {-1, 1}, live <- cliLive, semval <- cliVal, semadj <- cliAdj,
       held <- cliHeld, pc <- cliPc

VP == INSTANCE SemaphoreProofs
  WITH Procs <- Parties, Openers <- {"client"}, Removers <- {}, Initval <- 0,
       OpValues <- {-1, 1}, live <- servLive, semval <- servVal, semadj <- servAdj,
       held <- servHeld, pc <- servPc

\* The calls of the two copies of Semaphore are those of SemaphoreProofs.

\* semctl(SETVAL) is the same call in both.
LEMMA SameSetVal == ASSUME NEW j, NEW v
  PROVE  /\ (Shm!Cli!SetVal(j, v) <=> CP!SetVal(j, v)) /\ (Shm!Serv!SetVal(j, v) <=> VP!SetVal(j, v))
BY DEF Shm!Cli!SetVal, CP!SetVal, Shm!Serv!SetVal, VP!SetVal, Parties, Shm!Parties

\* sem_create.
LEMMA SameCreate == ASSUME NEW p
  PROVE  /\ Shm!Cli!CreateGet(p) \/ Shm!Cli!CreateStep(p) => CP!CreateGet(p) \/ CP!CreateStep(p)
         /\ Shm!Serv!CreateGet(p) \/ Shm!Serv!CreateStep(p) => VP!CreateGet(p) \/ VP!CreateStep(p)
<1>1. (Shm!Cli!CreateGet(p) <=> CP!CreateGet(p)) /\ (Shm!Serv!CreateGet(p) <=> VP!CreateGet(p))
  BY DEF
     Shm!Cli!CreateGet, CP!CreateGet, Shm!Serv!CreateGet, VP!CreateGet, Shm!Cli!Goto, CP!Goto,
     Shm!Serv!Goto, VP!Goto
<1>2. (Shm!Cli!CreateLock(p) <=> CP!CreateLock(p)) /\ (Shm!Serv!CreateLock(p) <=> VP!CreateLock(p))
  BY DEF
     Shm!Cli!CreateLock, CP!CreateLock, Shm!Serv!CreateLock, VP!CreateLock, Shm!Cli!Goto,
     CP!Goto, Shm!Serv!Goto, VP!Goto, Shm!Cli!Valid, CP!Valid, Shm!Serv!Valid, VP!Valid,
     Shm!Cli!Semop, CP!Semop, Shm!Serv!Semop, VP!Semop, Shm!Cli!kernelVars, CP!kernelVars,
     Shm!Serv!kernelVars, VP!kernelVars
<1>3. (Shm!Cli!CreateGetval(p) <=> CP!CreateGetval(p)) /\ (Shm!Serv!CreateGetval(p) <=> VP!CreateGetval(p))
  BY DEF
     Shm!Cli!CreateGetval, CP!CreateGetval, Shm!Serv!CreateGetval, VP!CreateGetval,
     Shm!Cli!Goto, CP!Goto, Shm!Serv!Goto, VP!Goto, Shm!Cli!Valid, CP!Valid, Shm!Serv!Valid,
     VP!Valid, Shm!Cli!kernelVars, CP!kernelVars, Shm!Serv!kernelVars, VP!kernelVars
<1>4. (Shm!Cli!CreateSet0(p) <=> CP!CreateSet0(p)) /\ (Shm!Serv!CreateSet0(p) <=> VP!CreateSet0(p))
  BY SameSetVal DEF
     Shm!Cli!CreateSet0, CP!CreateSet0, Shm!Serv!CreateSet0, VP!CreateSet0, Shm!Cli!Goto,
     CP!Goto, Shm!Serv!Goto, VP!Goto, Shm!Cli!Valid, CP!Valid, Shm!Serv!Valid, VP!Valid
<1>5. (Shm!Cli!CreateSet1(p) <=> CP!CreateSet1(p)) /\ (Shm!Serv!CreateSet1(p) <=> VP!CreateSet1(p))
  BY SameSetVal DEF
     Shm!Cli!CreateSet1, CP!CreateSet1, Shm!Serv!CreateSet1, VP!CreateSet1, Shm!Cli!Goto,
     CP!Goto, Shm!Serv!Goto, VP!Goto, Shm!Cli!Valid, CP!Valid, Shm!Serv!Valid, VP!Valid
<1>6. (Shm!Cli!CreateEnd(p) <=> CP!CreateEnd(p)) /\ (Shm!Serv!CreateEnd(p) <=> VP!CreateEnd(p))
  BY DEF
     Shm!Cli!CreateEnd, CP!CreateEnd, Shm!Serv!CreateEnd, VP!CreateEnd, Shm!Cli!Goto, CP!Goto,
     Shm!Serv!Goto, VP!Goto, Shm!Cli!Valid, CP!Valid, Shm!Serv!Valid, VP!Valid, Shm!Cli!Semop,
     CP!Semop, Shm!Serv!Semop, VP!Semop
<1>. QED
  BY <1>1, <1>2, <1>3, <1>4, <1>5, <1>6
     DEF Shm!Cli!CreateStep, CP!CreateStep, Shm!Serv!CreateStep, VP!CreateStep

\* sem_open.
LEMMA SameOpen == ASSUME NEW p
  PROVE  /\ (Shm!Cli!OpenGet(p) <=> CP!OpenGet(p)) /\ (Shm!Serv!OpenGet(p) <=> VP!OpenGet(p))
         /\ (Shm!Cli!OpenStep(p) <=> CP!OpenStep(p)) /\ (Shm!Serv!OpenStep(p) <=> VP!OpenStep(p))
BY DEF Shm!Cli!OpenGet, CP!OpenGet, Shm!Serv!OpenGet, VP!OpenGet, Shm!Cli!OpenStep, CP!OpenStep,
       Shm!Serv!OpenStep, VP!OpenStep, Shm!Cli!OpenCount, CP!OpenCount, Shm!Serv!OpenCount,
       VP!OpenCount, Shm!Cli!Goto, CP!Goto, Shm!Serv!Goto, VP!Goto, Shm!Cli!Valid, CP!Valid,
       Shm!Serv!Valid, VP!Valid, Shm!Cli!kernelVars, CP!kernelVars, Shm!Serv!kernelVars,
       VP!kernelVars, Shm!Cli!Semop, CP!Semop, Shm!Serv!Semop, VP!Semop

\* sem_close.
LEMMA SameClose == ASSUME NEW p
  PROVE  /\ (Shm!Cli!CloseCall(p) <=> CP!CloseCall(p)) /\ (Shm!Serv!CloseCall(p) <=> VP!CloseCall(p))
         /\ (Shm!Cli!CloseStep(p) <=> CP!CloseStep(p)) /\ (Shm!Serv!CloseStep(p) <=> VP!CloseStep(p))
BY DEF Shm!Cli!CloseCall, CP!CloseCall, Shm!Serv!CloseCall, VP!CloseCall, Shm!Cli!CloseStep,
       CP!CloseStep, Shm!Serv!CloseStep, VP!CloseStep, Shm!Cli!CloseLock, CP!CloseLock,
       Shm!Serv!CloseLock, VP!CloseLock, Shm!Cli!CloseGetval, CP!CloseGetval,
       Shm!Serv!CloseGetval, VP!CloseGetval, Shm!Cli!CloseUnlock, CP!CloseUnlock,
       Shm!Serv!CloseUnlock, VP!CloseUnlock, Shm!Cli!Goto, CP!Goto, Shm!Serv!Goto, VP!Goto,
       Shm!Cli!Valid, CP!Valid, Shm!Serv!Valid, VP!Valid, Shm!Cli!kernelVars, CP!kernelVars,
       Shm!Serv!kernelVars, VP!kernelVars, Shm!Cli!Semop, CP!Semop, Shm!Serv!Semop, VP!Semop

\* sem_rm.
LEMMA SameSemRm == ASSUME NEW p
  PROVE  /\ (Shm!Cli!SemRm(p) <=> CP!SemRm(p)) /\ (Shm!Serv!SemRm(p) <=> VP!SemRm(p))
BY DEF Shm!Cli!SemRm, CP!SemRm, Shm!Serv!SemRm, VP!SemRm, Shm!Cli!Remove, CP!Remove,
       Shm!Serv!Remove, VP!Remove, Shm!Cli!Zeros, CP!Zeros, Shm!Serv!Zeros, VP!Zeros,
       Shm!Cli!Members, CP!Members, Shm!Serv!Members, VP!Members, Shm!Cli!Goto, CP!Goto,
       Shm!Serv!Goto, VP!Goto, Shm!Cli!Valid, CP!Valid, Shm!Serv!Valid, VP!Valid,
       Shm!Cli!kernelVars, CP!kernelVars, Shm!Serv!kernelVars, VP!kernelVars, Parties,
       Shm!Parties

\* The undo of an exit.
LEMMA SameExit == ASSUME NEW p
  PROVE  /\ (Shm!Cli!Exit(p) <=> CP!Exit(p)) /\ (Shm!Serv!Exit(p) <=> VP!Exit(p))
BY DEF Shm!Cli!Exit, CP!Exit, Shm!Serv!Exit, VP!Exit, Shm!Cli!Clamp, CP!Clamp, Shm!Serv!Clamp,
       VP!Clamp, Shm!Cli!Zeros, CP!Zeros, Shm!Serv!Zeros, VP!Zeros, Shm!Cli!Members, CP!Members,
       Shm!Serv!Members, VP!Members, Shm!Cli!Goto, CP!Goto, Shm!Serv!Goto, VP!Goto

-----------------------------------------------------------------------------
(* The steps of the programs *)

cAt == shm_at["client"]
sAt == shm_at["server"]
cliV == cliVal[0]
servV == servVal[0]

CliSame == UNCHANGED <<cliLive, cliVal, cliAdj, cliHeld, cliPc>>
ServSame == UNCHANGED <<servLive, servVal, servAdj, servHeld, servPc>>

Placed == DOMAIN shm_at = Parties
Where(x) == IF x = "client" THEN cAt ELSE sAt
Goes(x, b) ==
  /\ Placed'
  /\ IF x = "client" THEN cAt' = b /\ sAt' = sAt ELSE sAt' = b /\ cAt' = cAt
Edge(x, a, b) == Where(x) = a /\ Goes(x, b)

\* x changes clisem by dc, or servsem by ds, or neither.
Calls(x, dc, ds) ==
  /\ IF dc = 0 THEN CliSame ELSE CP!SemOp(x, dc)
  /\ IF ds = 0 THEN ServSame ELSE VP!SemOp(x, ds)

\* A step of the client outside the calls of its main.
ClientEdge(dc, ds) ==
  /\ \/ /\ dc = -1 /\ ds = 0
        /\ \/ Edge("client", "ask", "name") \/ Edge("client", "wait", "look")
     \/ /\ dc = 0 /\ ds = 1
        /\ \/ Edge("client", "name_signal", "wait") \/ Edge("client", "signal", "wait")
     \/ /\ dc = 0 /\ ds = 0
        /\ \/ Edge("client", "start", "open_c") \/ Edge("client", "name", "name_signal")
           \/ Edge("client", "look", "print") \/ Edge("client", "look", "detach")
           \/ Edge("client", "print", "signal") \/ Edge("client", "detach", "close_c")
  /\ UNCHANGED <<shm_program, shm_offset, exists>>
  /\ shm' = IF cAt = "detach" THEN FALSE ELSE shm
  /\ i' = IF shm_program = "11_multi_buffer" /\ cAt = "signal"
          THEN [i EXCEPT !["client"] = (@ + 1) % NBUFF] ELSE i
  /\ mesgptr' = IF shm_program = "11_multi_buffer" /\ cAt = "name"
                THEN [mesgptr EXCEPT ![0] = [len |-> 1, data |-> "name"]] ELSE mesgptr

\* A step of the server of 10_shared_memory.
OneEdge(dc, ds) ==
  /\ shm_program = "10_shared_memory"
  /\ \/ /\ dc = 0 /\ ds = -1
        /\ \/ Edge("server", "serve", "open") \/ Edge("server", "block_wait", "read")
           \/ Edge("server", "message_wait", "end")
        /\ UNCHANGED shm_offset
     \/ /\ dc = 1 /\ ds = 0
        /\ \/ Edge("server", "block_signal", "block_wait")
           \/ Edge("server", "message_signal", "message_wait")
           \/ Edge("server", "end_signal", "close_c")
        /\ UNCHANGED shm_offset
     \/ /\ dc = 0 /\ ds = 0
        /\ \/ Edge("server", "open", "read") \/ Edge("server", "open", "message_len")
           \/ Edge("server", "read", "end") \/ Edge("server", "block_len", "block_signal")
           \/ Edge("server", "message_len", "message_signal")
           \/ Edge("server", "end", "end_signal")
        /\ UNCHANGED shm_offset
     \/ /\ dc = 0 /\ ds = 0
        /\ Edge("server", "read", "block_len")
        /\ shm_offset < Len(Blocks) /\ shm_offset' = shm_offset + 1
  /\ UNCHANGED <<shm_program, exists, shm, i, mesgptr>>

\* A step of the server of 11_multi_buffer.
MultiEdge(dc, ds) ==
  /\ shm_program = "11_multi_buffer"
  /\ \/ /\ dc = 0 /\ ds = -1
        /\ \/ Edge("server", "serve", "open") \/ Edge("server", "wait", "read")
           \/ Edge("server", "message_wait", "message_end")
        /\ UNCHANGED <<shm_offset, i>>
     \/ /\ dc = 0 /\ ds = 1
        /\ Edge("server", "fill", IF i["server"] < NBUFF - 1 THEN "fill" ELSE "wait")
        /\ i' = [i EXCEPT !["server"] = (@ + 1) % NBUFF] /\ UNCHANGED shm_offset
     \/ /\ dc = 1 /\ ds = 0
        /\ Edge("server", "signal", "wait")
        /\ i' = [i EXCEPT !["server"] = (@ + 1) % NBUFF] /\ UNCHANGED shm_offset
     \/ /\ dc = 1 /\ ds = 0
        /\ \/ Edge("server", "message_signal", "message_wait")
           \/ Edge("server", "end_signal", "poll")
        /\ UNCHANGED <<shm_offset, i>>
     \/ /\ dc = 0 /\ ds = 0
        /\ \/ Edge("server", "open", IF exists /\ mesgptr[0].data = "name"
                                  THEN "fill" ELSE "message")
           \/ Edge("server", "message", "message_signal")
           \/ Edge("server", "message_end", "end_signal") \/ Edge("server", "read", "len")
           \/ Edge("server", "poll", "close_c")
        /\ UNCHANGED <<shm_offset, i>>
     \/ /\ dc = 0 /\ ds = 0
        /\ Edge("server", "len", "end_signal")
        /\ UNCHANGED <<shm_offset, i>>
     \/ /\ dc = 0 /\ ds = 0
        /\ Edge("server", "len", "signal")
        /\ shm_offset < Len(Blocks) /\ shm_offset' = shm_offset + 1 /\ UNCHANGED i
  /\ UNCHANGED <<shm_program, exists, shm>>
  /\ sAt \in {"serve", "fill", "wait"} => UNCHANGED mesgptr

Programs ==
  \E dc, ds \in {-1, 0, 1} :
     \/ ClientEdge(dc, ds) /\ Calls("client", dc, ds)
     \/ (OneEdge(dc, ds) \/ MultiEdge(dc, ds)) /\ Calls("server", dc, ds)

\* Still in a call, or on to b when the call has returned.
Stays(x, b, returned) == Goes(x, IF returned THEN b ELSE Where(x))

Unmoved == UNCHANGED <<shm_program, shm_offset, exists, i, mesgptr>>

Attaches ==
  /\ sAt = "start" /\ Goes("server", "create_c") /\ shm' = TRUE
  /\ CliSame /\ ServSame /\ Unmoved

Creates ==
  /\ Unmoved /\ UNCHANGED shm
  /\ \/ /\ sAt = "create_c" /\ (CP!CreateGet("server") \/ CP!CreateStep("server"))
        /\ Stays("server", "create_s", cliPc'["server"] = "open") /\ ServSame
     \/ /\ sAt = "create_s" /\ (VP!CreateGet("server") \/ VP!CreateStep("server"))
        /\ Stays("server", "serve", servPc'["server"] = "open") /\ CliSame

Opens ==
  /\ Unmoved /\ UNCHANGED shm
  /\ \/ /\ cAt = "open_c" /\ (CP!OpenGet("client") \/ CP!OpenStep("client"))
        /\ Stays("client", "open_s", cliPc'["client"] = "open") /\ ServSame
     \/ /\ cAt = "open_s" /\ (VP!OpenGet("client") \/ VP!OpenStep("client"))
        /\ Stays("client", "ask", servPc'["client"] = "open") /\ CliSame

Closes(x) ==
  /\ Unmoved /\ UNCHANGED shm
  /\ \/ /\ Where(x) = "close_c" /\ (CP!CloseCall(x) \/ CP!CloseStep(x) \/ CP!SemRm(x))
        /\ Stays(x, "close_s", cliPc'[x] = "idle") /\ ServSame
     \/ /\ Where(x) = "close_s" /\ (VP!CloseCall(x) \/ VP!CloseStep(x) \/ VP!SemRm(x))
        /\ Stays(x, "exit", servPc'[x] = "idle") /\ CliSame

\* x exits, is killed, or its sem_open found no semaphore.
Leaves(x) ==
  /\ Unmoved /\ UNCHANGED shm
  /\ CP!Exit(x) /\ VP!Exit(x)
  /\ \/ Where(x) = "exit" /\ Goes(x, "done")
     \/ Goes(x, "dead")
     \/ x = "client" /\ cAt \in {"open_c", "open_s"} /\ Goes(x, "start")

Moves == Programs \/ Attaches \/ Creates \/ Opens \/ \E x \in Parties : Closes(x) \/ Leaves(x)

\* sem_op is the same call in both protocols.
LEMMA SameOps == ASSUME NEW x, NEW v
  PROVE  /\ Shm!One!Cli!SemOp(x, v) <=> CP!SemOp(x, v)
         /\ Shm!Multi!Cli!SemOp(x, v) <=> CP!SemOp(x, v)
         /\ Shm!One!Serv!SemOp(x, v) <=> VP!SemOp(x, v)
         /\ Shm!Multi!Serv!SemOp(x, v) <=> VP!SemOp(x, v)
BY DEF CP!SemOp, CP!Valid, CP!Goto, CP!Semop, CP!InRange,
       VP!SemOp, VP!Valid, VP!Goto, VP!Semop, VP!InRange,
       Shm!One!Cli!SemOp, Shm!One!Cli!Valid, Shm!One!Cli!Goto, Shm!One!Cli!Semop,
       Shm!One!Cli!InRange, Shm!Multi!Cli!SemOp, Shm!Multi!Cli!Valid, Shm!Multi!Cli!Goto,
       Shm!Multi!Cli!Semop, Shm!Multi!Cli!InRange,
       Shm!One!Serv!SemOp, Shm!One!Serv!Valid, Shm!One!Serv!Goto, Shm!One!Serv!Semop,
       Shm!One!Serv!InRange, Shm!Multi!Serv!SemOp, Shm!Multi!Serv!Valid, Shm!Multi!Serv!Goto,
       Shm!Multi!Serv!Semop, Shm!Multi!Serv!InRange

\* sem_wait and sem_signal of either program.
LEMMA OpCalls == ASSUME NEW x
  PROVE  /\ Shm!One!WaitCli(x) \/ Shm!Multi!WaitCli(x) => Calls(x, -1, 0) /\ UNCHANGED shm
         /\ Shm!One!SignalCli(x) \/ Shm!Multi!SignalCli(x) => Calls(x, 1, 0) /\ UNCHANGED shm
         /\ Shm!One!WaitServ(x) \/ Shm!Multi!WaitServ(x) => Calls(x, 0, -1) /\ UNCHANGED shm
         /\ Shm!One!SignalServ(x) \/ Shm!Multi!SignalServ(x) => Calls(x, 0, 1) /\ UNCHANGED shm
<1>1. ASSUME Shm!One!WaitCli(x) \/ Shm!Multi!WaitCli(x)
      PROVE  Calls(x, -1, 0) /\ UNCHANGED shm
  <2>1. /\ Shm!One!Cli!SemOp(x, -1) \/ Shm!Multi!Cli!SemOp(x, -1)
        /\ ServSame /\ UNCHANGED shm
    BY <1>1 DEF Shm!One!WaitCli, Shm!Multi!WaitCli, ServSame, Shm!One!servVars,
             Shm!Multi!servVars
  <2>2. CP!SemOp(x, -1)
    BY <2>1, SameOps
  <2>. QED
    BY <2>1, <2>2 DEF Calls
<1>2. ASSUME Shm!One!SignalCli(x) \/ Shm!Multi!SignalCli(x)
      PROVE  Calls(x, 1, 0) /\ UNCHANGED shm
  <2>1. /\ Shm!One!Cli!SemOp(x, 1) \/ Shm!Multi!Cli!SemOp(x, 1)
        /\ ServSame /\ UNCHANGED shm
    BY <1>2 DEF Shm!One!SignalCli, Shm!Multi!SignalCli, ServSame, Shm!One!servVars,
             Shm!Multi!servVars
  <2>2. CP!SemOp(x, 1)
    BY <2>1, SameOps
  <2>. QED
    BY <2>1, <2>2 DEF Calls
<1>3. ASSUME Shm!One!WaitServ(x) \/ Shm!Multi!WaitServ(x)
      PROVE  Calls(x, 0, -1) /\ UNCHANGED shm
  <2>1. /\ Shm!One!Serv!SemOp(x, -1) \/ Shm!Multi!Serv!SemOp(x, -1)
        /\ CliSame /\ UNCHANGED shm
    BY <1>3 DEF Shm!One!WaitServ, Shm!Multi!WaitServ, CliSame, Shm!One!cliVars,
             Shm!Multi!cliVars
  <2>2. VP!SemOp(x, -1)
    BY <2>1, SameOps
  <2>. QED
    BY <2>1, <2>2 DEF Calls
<1>4. ASSUME Shm!One!SignalServ(x) \/ Shm!Multi!SignalServ(x)
      PROVE  Calls(x, 0, 1) /\ UNCHANGED shm
  <2>1. /\ Shm!One!Serv!SemOp(x, 1) \/ Shm!Multi!Serv!SemOp(x, 1)
        /\ CliSame /\ UNCHANGED shm
    BY <1>4 DEF Shm!One!SignalServ, Shm!Multi!SignalServ, CliSame, Shm!One!cliVars,
             Shm!Multi!cliVars
  <2>2. VP!SemOp(x, 1)
    BY <2>1, SameOps
  <2>. QED
    BY <2>1, <2>2 DEF Calls
<1>. QED
  BY <1>1, <1>2, <1>3, <1>4

\* client() of 10_shared_memory.
LEMMA OneClientMoves ==
  ASSUME Placed, Shm!Single, Shm!One!Client
  PROVE  \E dc, ds \in {-1, 0, 1} : ClientEdge(dc, ds) /\ Calls("client", dc, ds)
<1>. USE DEF ClientEdge, Edge, Goes, Where, Placed, Parties, cAt, sAt, Shm!Single, Shm!One!At,
   Shm!One!protocolVars
<1>1. CASE Shm!One!ClientWaitTurn \/ Shm!One!ClientWait
  <2>1. Calls("client", -1, 0) /\ UNCHANGED shm
    BY <1>1, OpCalls DEF Shm!One!ClientWaitTurn, Shm!One!ClientWait
  <2>2. ClientEdge(-1, 0)
    BY <1>1, <2>1 DEF Shm!One!ClientWaitTurn, Shm!One!ClientWait
  <2>. QED
    BY <2>1, <2>2
<1>2. CASE Shm!One!ClientSignal
  <2>1. Calls("client", 0, 1) /\ UNCHANGED shm
    BY <1>2, OpCalls DEF Shm!One!ClientSignal
  <2>2. ClientEdge(0, 1)
    BY <1>2, <2>1 DEF Shm!One!ClientSignal
  <2>. QED
    BY <2>1, <2>2
<1>3. CASE Shm!One!ClientName \/ Shm!One!ClientLook \/ Shm!One!ClientPrint
  <2>1. Calls("client", 0, 0)
    BY <1>3 DEF Shm!One!ClientName, Shm!One!ClientLook, Shm!One!ClientPrint, Calls, CliSame,
       ServSame,
         Shm!One!semVars, Shm!One!cliVars, Shm!One!servVars
  <2>2. ClientEdge(0, 0)
    BY <1>3, <2>1 DEF Shm!One!ClientName, Shm!One!ClientLook, Shm!One!ClientPrint
  <2>. QED
    BY <2>1, <2>2
<1>. HIDE DEF ClientEdge
<1>. QED
  BY <1>1, <1>2, <1>3 DEF Shm!One!Client

\* server() of 10_shared_memory.
LEMMA OneServerMoves ==
  ASSUME Placed, Shm!Single, Shm!One!Server
  PROVE  \E dc, ds \in {-1, 0, 1} : OneEdge(dc, ds) /\ Calls("server", dc, ds)
<1>. USE DEF OneEdge, Edge, Goes, Where, Placed, Parties, cAt, sAt, Shm!Single, Shm!One!At,
   Shm!One!protocolVars
<1>1. CASE Shm!One!ServerWaitName \/ Shm!One!ServerWait
  <2>1. Calls("server", 0, -1) /\ UNCHANGED shm
    BY <1>1, OpCalls DEF Shm!One!ServerWaitName, Shm!One!ServerWait
  <2>2. OneEdge(0, -1)
    BY <1>1, <2>1 DEF Shm!One!ServerWaitName, Shm!One!ServerWait
  <2>. QED
    BY <2>1, <2>2
<1>2. CASE Shm!One!ServerSignal
  <2>1. Calls("server", 1, 0) /\ UNCHANGED shm
    BY <1>2, OpCalls DEF Shm!One!ServerSignal
  <2>2. OneEdge(1, 0)
    BY <1>2, <2>1 DEF Shm!One!ServerSignal
  <2>. QED
    BY <2>1, <2>2
<1>3. CASE Shm!One!ServerOpen \/ Shm!One!ServerRead \/ Shm!One!ServerLen \/ Shm!One!ServerEnd
  <2>1. Calls("server", 0, 0)
    BY <1>3 DEF Shm!One!ServerOpen, Shm!One!ServerRead, Shm!One!ServerLen, Shm!One!ServerEnd,
       Calls, CliSame, ServSame,
         Shm!One!semVars, Shm!One!cliVars, Shm!One!servVars
  <2>2. OneEdge(0, 0)
    BY <1>3, <2>1 DEF Shm!One!ServerOpen, Shm!One!ServerRead, Shm!One!ServerLen, Shm!One!ServerEnd
  <2>. QED
    BY <2>1, <2>2
<1>. HIDE DEF OneEdge
<1>. QED
  BY <1>1, <1>2, <1>3 DEF Shm!One!Server

\* client() of 11_multi_buffer.
LEMMA MultiClientMoves ==
  ASSUME Placed, Shm!Ring, Shm!Multi!Client
  PROVE  \E dc, ds \in {-1, 0, 1} : ClientEdge(dc, ds) /\ Calls("client", dc, ds)
<1>. USE DEF ClientEdge, Edge, Goes, Where, Placed, Parties, cAt, sAt, Shm!Ring, Shm!Multi!At,
   Shm!Multi!protocolVars
<1>1. CASE Shm!Multi!ClientWaitTurn \/ Shm!Multi!ClientWait
  <2>1. Calls("client", -1, 0) /\ UNCHANGED shm
    BY <1>1, OpCalls DEF Shm!Multi!ClientWaitTurn, Shm!Multi!ClientWait
  <2>2. ClientEdge(-1, 0)
    BY <1>1, <2>1 DEF Shm!Multi!ClientWaitTurn, Shm!Multi!ClientWait
  <2>. QED
    BY <2>1, <2>2
<1>2. CASE Shm!Multi!ClientNameSignal \/ Shm!Multi!ClientSignal
  <2>1. Calls("client", 0, 1) /\ UNCHANGED shm
    BY <1>2, OpCalls DEF Shm!Multi!ClientNameSignal, Shm!Multi!ClientSignal
  <2>2. ClientEdge(0, 1)
    BY <1>2, <2>1 DEF Shm!Multi!ClientNameSignal, Shm!Multi!ClientSignal, Shm!Multi!Turn
  <2>. QED
    BY <2>1, <2>2
<1>3. CASE Shm!Multi!ClientName \/ Shm!Multi!ClientLook \/ Shm!Multi!ClientPrint
  <2>1. Calls("client", 0, 0)
    BY <1>3 DEF Shm!Multi!ClientName, Shm!Multi!ClientLook, Shm!Multi!ClientPrint, Calls,
       CliSame, ServSame,
         Shm!Multi!semVars, Shm!Multi!cliVars, Shm!Multi!servVars
  <2>2. ClientEdge(0, 0)
    BY <1>3, <2>1 DEF Shm!Multi!ClientName, Shm!Multi!ClientLook, Shm!Multi!ClientPrint
  <2>. QED
    BY <2>1, <2>2
<1>. HIDE DEF ClientEdge
<1>. QED
  BY <1>1, <1>2, <1>3 DEF Shm!Multi!Client

\* server() of 11_multi_buffer.
LEMMA MultiServerMoves ==
  ASSUME Placed, Shm!Ring, Shm!Multi!Server
  PROVE  \E dc, ds \in {-1, 0, 1} : MultiEdge(dc, ds) /\ Calls("server", dc, ds)
<1>. USE DEF MultiEdge, Edge, Goes, Where, Placed, Parties, cAt, sAt, Shm!Ring, Shm!Multi!At,
   Shm!Multi!protocolVars
<1>1. CASE Shm!Multi!ServerWaitName \/ Shm!Multi!ServerWait
  <2>1. Calls("server", 0, -1) /\ UNCHANGED shm
    BY <1>1, OpCalls DEF Shm!Multi!ServerWaitName, Shm!Multi!ServerWait
  <2>2. MultiEdge(0, -1)
    BY <1>1, <2>1 DEF Shm!Multi!ServerWaitName, Shm!Multi!ServerWait
  <2>. QED
    BY <2>1, <2>2
<1>2. CASE Shm!Multi!ServerFill
  <2>1. Calls("server", 0, 1) /\ UNCHANGED shm
    BY <1>2, OpCalls DEF Shm!Multi!ServerFill
  <2>2. MultiEdge(0, 1)
    BY <1>2, <2>1 DEF Shm!Multi!ServerFill, Shm!Multi!Turn
  <2>. QED
    BY <2>1, <2>2
<1>3. CASE Shm!Multi!ServerSignal
  <2>1. Calls("server", 1, 0) /\ UNCHANGED shm
    BY <1>3, OpCalls DEF Shm!Multi!ServerSignal
  <2>2. MultiEdge(1, 0)
    BY <1>3, <2>1 DEF Shm!Multi!ServerSignal, Shm!Multi!Turn
  <2>. QED
    BY <2>1, <2>2
<1>4. CASE Shm!Multi!ServerOpen \/ Shm!Multi!ServerMessage \/ Shm!Multi!ServerRead \/ Shm!Multi!ServerLen \/ Shm!Multi!ServerPoll
  <2>1. Calls("server", 0, 0)
    BY <1>4 DEF Shm!Multi!ServerOpen, Shm!Multi!ServerMessage, Shm!Multi!ServerRead,
       Shm!Multi!ServerLen, Shm!Multi!ServerPoll, Calls, CliSame, ServSame,
         Shm!Multi!semVars, Shm!Multi!cliVars, Shm!Multi!servVars
  <2>2. MultiEdge(0, 0)
    BY <1>4, <2>1 DEF Shm!Multi!ServerOpen, Shm!Multi!ServerMessage, Shm!Multi!ServerRead,
       Shm!Multi!ServerLen, Shm!Multi!ServerPoll
  <2>. QED
    BY <2>1, <2>2
<1>. HIDE DEF MultiEdge
<1>. QED
  BY <1>1, <1>2, <1>3, <1>4 DEF Shm!Multi!Server

\* The calls and the other steps of main().
LEMMA ServerMainMoves ==
  ASSUME Placed, Shm!InMain, Shm!ServerMain
  PROVE  Attaches \/ Creates \/ Closes("server") \/ Leaves("server")
<1>. USE DEF Shm!InMain, Unmoved, Goes, Where, Placed, Parties, cAt, sAt
<1>1. CASE Shm!ServerAttach
  BY <1>1 DEF Shm!ServerAttach, Attaches, Shm!At, CliSame, ServSame, Shm!semVars, Shm!cliVars,
              Shm!servVars
<1>2. CASE Shm!ServerCreate
  BY <1>2, SameCreate DEF Shm!ServerCreate, Creates, Shm!Stay, Stays, CliSame, ServSame,
                          Shm!cliVars, Shm!servVars
<1>3. CASE Shm!CloseSems("server")
  BY <1>3, SameClose, SameSemRm DEF Shm!CloseSems, Closes, Shm!Stay, Stays, CliSame, ServSame,
                          Shm!cliVars, Shm!servVars
<1>4. CASE Shm!Exit("server")
  BY <1>4, SameExit DEF Shm!Exit, Leaves, Shm!At
<1>. QED
  BY <1>1, <1>2, <1>3, <1>4 DEF Shm!ServerMain

\* The calls of the client, and its other steps of main().
LEMMA ClientMainMoves ==
  ASSUME Placed, Shm!InMain, Shm!ClientMain
  PROVE  Moves
<1>. USE DEF Shm!InMain, Unmoved, Goes, Where, Placed, Parties, cAt, sAt
<1>1. CASE Shm!ClientAttach \/ Shm!ClientDetach
  <2>1. Calls("client", 0, 0)
    BY <1>1 DEF Shm!ClientAttach, Shm!ClientDetach, Calls, CliSame, ServSame, Shm!semVars,
                Shm!cliVars, Shm!servVars
  <2>2. ClientEdge(0, 0)
    BY <1>1 DEF Shm!ClientAttach, Shm!ClientDetach, Shm!At, ClientEdge, Edge
  <2>. QED
    BY <2>1, <2>2 DEF Moves, Programs
<1>2. CASE Shm!ClientOpen
  <2>1. Opens
    BY <1>2, SameOpen DEF Shm!ClientOpen, Opens, Shm!Stay, Stays, CliSame, ServSame,
                          Shm!cliVars, Shm!servVars
  <2>. QED
    BY <2>1 DEF Moves
<1>3. CASE Shm!CloseSems("client")
  <2>1. Closes("client")
    BY <1>3, SameClose, SameSemRm DEF Shm!CloseSems, Closes, Shm!Stay, Stays, CliSame, ServSame,
                          Shm!cliVars, Shm!servVars
  <2>. QED
    BY <2>1 DEF Moves, Parties
<1>4. CASE Shm!Exit("client") \/ Shm!ClientTooEarly
  <2>1. Leaves("client")
    BY <1>4, SameExit DEF Shm!Exit, Shm!ClientTooEarly, Leaves, Shm!At
  <2>. QED
    BY <2>1 DEF Moves, Parties
<1>. QED
  BY <1>1, <1>2, <1>3, <1>4 DEF Shm!ClientMain

\* Every step of the two programs is one of Moves.
LEMMA NextMoves == ASSUME Placed, Shm!Next PROVE Moves
<1>1. ASSUME Shm!ClientRuns PROVE Moves
  BY <1>1, OneClientMoves, MultiClientMoves, ClientMainMoves DEF Shm!ClientRuns, Moves, Programs
<1>2. ASSUME Shm!ServerRuns PROVE Moves
  <2>1. ASSUME Placed, Shm!InMain, Shm!ServerMain PROVE Moves
    BY <2>1, ServerMainMoves DEF Moves, Parties
  <2>. QED
    BY <1>2, <2>1, OneServerMoves, MultiServerMoves DEF Shm!ServerRuns, Moves, Programs
<1>3. ASSUME NEW x \in Parties, Shm!InMain, Shm!Dies(x) PROVE Moves
  <2>1. Leaves(x)
    BY <1>3, SameExit DEF Shm!Dies, Shm!InMain, Leaves, Unmoved, Goes,
              Where, Placed, Parties, cAt, sAt
  <2>. QED
    BY <2>1 DEF Moves
<1>. QED
  BY <1>1, <1>2, <1>3 DEF Shm!Next, Shm!Death, Shm!Parties, Parties

-----------------------------------------------------------------------------
(* What a step does to the semaphores *)

\* What SemaphoreProofs assumes of its constants holds here.
LEMMA ConstantsFacts ==
  /\ BIGCOUNT \in Nat /\ SEMVMX \in Nat /\ BIGCOUNT =< SEMVMX /\ 2 < BIGCOUNT
  /\ 0 \in Nat /\ 1 \in Nat /\ 0 =< SEMVMX /\ 1 =< SEMVMX
  /\ {-1, 1} \subseteq Int /\ {"client"} \subseteq Parties /\ {} \subseteq Parties
  /\ CP!IsFiniteSet(Parties) /\ CP!Cardinality(Parties) < BIGCOUNT
  /\ VP!IsFiniteSet(Parties) /\ VP!Cardinality(Parties) < BIGCOUNT
<1>1. IsFiniteSet(Parties) /\ Cardinality(Parties) = 2
  <2>1. IsFiniteSet({"client"}) /\ Cardinality({"client"}) = 1
    BY FS_Singleton
  <2>2. "server" \notin {"client"}
    OBVIOUS
  <2>3. IsFiniteSet({"client"} \cup {"server"}) /\ Cardinality({"client"} \cup {"server"}) = 2
    BY <2>1, <2>2, FS_AddElement
  <2>4. Parties = {"client"} \cup {"server"}
    BY DEF Parties
  <2>. QED
    BY <2>3, <2>4
<1>2. /\ CP!IsFiniteSet(Parties) /\ VP!IsFiniteSet(Parties)
  BY <1>1 DEF CP!IsFiniteSet, VP!IsFiniteSet, IsFiniteSet
<1>3. CP!Cardinality(Parties) = Cardinality(Parties) /\ VP!Cardinality(Parties) = Cardinality(Parties)
  BY DEF CP!Cardinality, VP!Cardinality, Cardinality
<1>4. {"client"} \subseteq Parties
  BY DEF Parties
<1>. QED
  BY <1>1, <1>2, <1>3, <1>4, FileProgramsAssumption

Effect(x, dc, ds) ==
  /\ CP!Sound' /\ VP!Sound'
  /\ UNCHANGED <<cliPc, servPc, cliLive, servLive>>
  /\ dc # 0 => cliPc[x] = "open"
  /\ ds # 0 => servPc[x] = "open"
  /\ cliV' = cliV + dc /\ cliV + dc >= 0
  /\ servV' = servV + ds /\ servV + ds >= 0
  /\ cliAdj'[x][0] = cliAdj[x][0] - dc
  /\ servAdj'[x][0] = servAdj[x][0] - ds
  /\ \A y \in Parties : y # x => /\ cliAdj'[y][0] = cliAdj[y][0]
                                 /\ servAdj'[y][0] = servAdj[y][0]

\* A sem_wait or sem_signal whose values stay in range does what it is for, and no more.
LEMMA CallsEffect ==
  ASSUME CP!Sound, VP!Sound, NEW x \in Parties, NEW dc \in {-1, 0, 1}, NEW ds \in {-1, 0, 1},
         Calls(x, dc, ds), dc # 0 => CP!InRange(x, dc), ds # 0 => VP!InRange(x, ds)
  PROVE  Effect(x, dc, ds)
<1>1. /\ cliV \in Nat /\ \A y \in Parties : cliAdj[y][0] \in Int
      /\ servV \in Nat /\ \A y \in Parties : servAdj[y][0] \in Int
  BY ConstantsFacts DEF CP!Sound, CP!IInv, CP!Shape, VP!Sound, VP!IInv, VP!Shape, cliV, servV
<1>2. /\ CP!Sound' /\ UNCHANGED <<cliPc, cliLive>>
      /\ dc # 0 => cliPc[x] = "open"
      /\ cliV' = cliV + dc /\ cliV + dc >= 0
      /\ cliAdj'[x][0] = cliAdj[x][0] - dc
      /\ \A y \in Parties : y # x => cliAdj'[y][0] = cliAdj[y][0]
  <2>1. CASE dc = 0
    <3>1. CliSame
      BY <2>1 DEF Calls
    <3>2. CP!Sound'
      BY <3>1, ConstantsFacts, CP!SoundStays DEF CliSame
    <3>. QED
      BY <1>1, <2>1, <3>1, <3>2 DEF CliSame, cliV
  <2>2. CASE dc # 0
    <3>1. CP!SemOp(x, dc) /\ dc \in {-1, 1}
      BY <2>2 DEF Calls
    <3>2. /\ CP!Sound' /\ UNCHANGED <<cliLive, cliPc>>
          /\ cliPc[x] = "open"
          /\ cliVal[0] + dc >= 0
          /\ cliVal'[0] = cliVal[0] + dc
          /\ cliAdj'[x][0] = cliAdj[x][0] - dc
          /\ \A q \in Parties : q # x => cliAdj'[q] = cliAdj[q]
      BY <2>2, <3>1, ConstantsFacts, CP!OpKept
    <3>. QED
      BY <3>2 DEF cliV
  <2>. QED
    BY <2>1, <2>2
<1>3. /\ VP!Sound' /\ UNCHANGED <<servPc, servLive>>
      /\ ds # 0 => servPc[x] = "open"
      /\ servV' = servV + ds /\ servV + ds >= 0
      /\ servAdj'[x][0] = servAdj[x][0] - ds
      /\ \A y \in Parties : y # x => servAdj'[y][0] = servAdj[y][0]
  <2>1. CASE ds = 0
    <3>1. ServSame
      BY <2>1 DEF Calls
    <3>2. VP!Sound'
      BY <3>1, ConstantsFacts, VP!SoundStays DEF ServSame
    <3>. QED
      BY <1>1, <2>1, <3>1, <3>2 DEF ServSame, servV
  <2>2. CASE ds # 0
    <3>1. VP!SemOp(x, ds) /\ ds \in {-1, 1}
      BY <2>2 DEF Calls
    <3>2. /\ VP!Sound' /\ UNCHANGED <<servLive, servPc>>
          /\ servPc[x] = "open"
          /\ servVal[0] + ds >= 0
          /\ servVal'[0] = servVal[0] + ds
          /\ servAdj'[x][0] = servAdj[x][0] - ds
          /\ \A q \in Parties : q # x => servAdj'[q] = servAdj[q]
      BY <2>2, <3>1, ConstantsFacts, VP!OpKept
    <3>. QED
      BY <3>2 DEF servV
  <2>. QED
    BY <2>1, <2>2
<1>. QED
  BY <1>2, <1>3 DEF Effect


-----------------------------------------------------------------------------
(* The inductive invariant *)

\* The undo the kernel holds for each party: what the client took from clisem and gave to
\* servsem, what the server sent to clisem and got from servsem.
taken == cliAdj["client"][0]
given == 0 - servAdj["client"][0]
sent  == 0 - cliAdj["server"][0]
got   == servAdj["server"][0]

COpening == {"start", "open_c", "open_s"}
SOpening == {"start", "create_c", "create_s"}
Before   == {"ask", "name", "name_signal"}
CHolds   == {"look", "print", "signal"}
Leaving  == {"close_c", "close_s", "exit"}
Gone     == {"done", "dead"}

SingleC == {"name", "name_signal", "look", "print", "signal"}
SingleS == {"open", "read", "block_len", "message_len", "block_signal", "message_signal",
            "end", "end_signal"}
MessageS == {"message", "message_signal", "message_wait", "message_end"}
BlockS   == {"wait", "read", "len", "signal"}

ClientLabels == COpening \cup Before \cup {"wait", "detach"} \cup CHolds \cup Leaving \cup Gone
OneLabels == SOpening \cup {"serve", "block_wait", "message_wait"} \cup SingleS
             \cup Leaving \cup Gone
MultiLabels == SOpening \cup {"serve", "open", "fill", "end_signal", "poll"} \cup MessageS
               \cup BlockS \cup Leaving \cup Gone

Typed ==
  /\ Placed
  /\ cAt \in ClientLabels
  /\ \/ shm_program = "10_shared_memory" /\ sAt \in OneLabels
     \/ shm_program = "11_multi_buffer" /\ sAt \in MultiLabels
  /\ shm_offset \in 0 .. Len(Blocks)
  /\ i \in [Parties -> 0 .. NBUFF - 1]

\* Where in the functions of semaphore.c a party is that is at label a.
Within(a, create, open, close, before) ==
  IF a = create THEN {"idle"} \cup (CP!Creating \ {"again"})
  ELSE IF a = open THEN {"idle", "o_open"}
  ELSE IF a = close THEN {"open"} \cup CP!Closing
  ELSE IF a \in before THEN {"idle"} ELSE {"open"}

CliAt(a)  == Within(a, "create_c", "open_c", "close_c", {"start", "close_s", "exit"} \cup Gone)
ServAt(a) == Within(a, "create_s", "open_s", "close_s",
                    {"start", "create_c", "open_c", "exit"} \cup Gone)

Coupled ==
  /\ cliPc["client"] \in CliAt(cAt) /\ cliPc["server"] \in CliAt(sAt)
  /\ servPc["client"] \in ServAt(cAt) /\ servPc["server"] \in ServAt(sAt)

\* The server does not get past its first sem_wait before the client has signalled the name,
\* nor the client past its second before the server answers.
Phases ==
  /\ sAt \notin SOpening \cup {"serve", "dead"} => cAt \notin COpening \cup Before
  /\ cAt \notin COpening \cup Before \cup {"wait", "dead"} => sAt \notin SOpening \cup {"serve"}
  /\ sAt \in SOpening \cup {"serve"} =>
       /\ cAt \in COpening \cup Before => servV = 0
       /\ cAt \in COpening \cup {"ask"} => cliV =< 1
       /\ cAt \in {"name", "name_signal", "wait"} => cliV = 0
       /\ cAt = "wait" => servV =< 1

\* How many more answers than blocks the server has signalled.
Ahead == IF sAt \in {"block_len", "block_signal", "signal"} THEN -1
         ELSE IF sAt \in {"message_wait", "message_end", "end", "end_signal"} THEN 1
         ELSE IF sAt \in {"poll"} \cup Leaving \cup Gone THEN 2 ELSE 0

\* What the server gave to servsem before it took from it.
Floor == IF sAt = "fill" THEN -i["server"]
         ELSE IF sAt \in SOpening \cup {"serve", "open"} THEN 0 ELSE -NBUFF

\* The values and the undo of both parties: each semaphore is what was signalled less what
\* was waited for, or less when an undo was cut off at zero.
Counts ==
  /\ taken \in 0 .. Len(Blocks) + 3 /\ given \in 0 .. Len(Blocks) + 3
  /\ sent \in Nat /\ got \in Int
  /\ cAt \in COpening \cup {"ask"} => taken = 0 /\ given = 0
  /\ cAt \in {"name", "name_signal"} \cup CHolds => given = taken - 1
  /\ cAt = "wait" => given = taken
  /\ sent =< shm_offset + Ahead
  /\ cliV + taken =< 1 + (IF sAt \in Gone THEN Len(Blocks) + 2 ELSE sent)
  /\ servV + got =< (IF cAt \in Gone THEN Len(Blocks) + 3 ELSE given)
  /\ got >= Floor
  /\ sAt \in SOpening \cup {"serve", "open"} => i["server"] = 0

Alive == cAt \notin Gone /\ sAt \notin Gone
Num(b) == IF b THEN 1 ELSE 0

\* 10_shared_memory: one token, which is in a semaphore or with a party.
Turns == shm_program = "10_shared_memory" /\ Alive =>
  /\ cAt \in SingleC \cup {"wait"} =>
       cliV + servV + Num(cAt \in SingleC) + Num(sAt \in SingleS) = 1
  /\ cAt \in {"detach"} \cup Leaving =>
       sAt \in Leaving \/ (sAt \in {"block_wait", "message_wait"} /\ servV = 0)

\* 11_multi_buffer: one token before the file is sent, and for the message; then NBUFF
\* tokens, and the server's index is ahead of the client's by the full buffers.
Ring == shm_program = "11_multi_buffer" /\ Alive =>
  /\ sAt \in {"fill"} \cup BlockS => exists
  /\ sAt \in MessageS => ~exists
  /\ cAt \in COpening \cup {"ask", "name"} => 0 \in DOMAIN mesgptr
  /\ (cAt \in {"name_signal", "wait"} /\ sAt \in SOpening \cup {"serve"}) \/ sAt = "open"
       => mesgptr[0].data = "name"
  /\ cAt \in COpening \cup Before
       \/ (sAt \in SOpening \cup {"serve", "open", "fill"} /\ cAt = "wait") => i["client"] = 0
  /\ cAt \in {"wait"} \cup CHolds =>
       /\ sAt \in {"open"} \cup MessageS \/ (sAt = "end_signal" /\ ~exists)
            => cliV + servV + Num(cAt \in CHolds) + Num(sAt # "message_wait") = 1
       /\ sAt = "fill" => cliV = 0 /\ cAt = "wait" /\ servV = i["server"]
       /\ sAt \in BlockS \/ (sAt = "end_signal" /\ exists) =>
            /\ cliV + servV + Num(cAt \in CHolds) + Num(sAt # "wait") = NBUFF
            /\ \/ i["server"] = i["client"] + cliV + Num(cAt \in CHolds)
               \/ i["server"] = i["client"] + cliV + Num(cAt \in CHolds) - NBUFF

\* What is left in the kernel when a party comes to its end.
Ends ==
  /\ cAt \in {"close_s", "exit", "done"} /\ sAt \in {"close_s", "exit", "done"} => ~cliLive
  /\ cAt \in {"exit", "done"} /\ sAt \in {"exit", "done"} => ~servLive
  /\ cAt \in Leaving \cup {"done"} => ~shm
  /\ cliPc["client"] = "x_unlock" => sAt = "dead" \/ cliPc["server"] \in CP!Using
  /\ cliPc["server"] = "x_unlock" => cAt = "dead" \/ cliPc["client"] \in CP!Using
  /\ servPc["client"] = "x_unlock" => sAt = "dead" \/ servPc["server"] \in VP!Using
  /\ servPc["server"] = "x_unlock" => cAt = "dead" \/ servPc["client"] \in VP!Using

Core == CP!Sound /\ VP!Sound /\ Typed /\ Coupled /\ Phases /\ Counts
ShmInv == Core /\ Turns /\ Ring /\ Ends

\* An adjustment value grows by one with every block, and the kernel lets none grow beyond
\* SEMVMX: in a longer file semop fails with ERANGE, and the program ends in err_sys.
Fits == Len(Blocks) + NBUFF + 3 =< SEMVMX

-----------------------------------------------------------------------------
(* The steps of the programs: no value leaves its range *)

\* The types of the numbers in the invariant.
LEMMA CountsFacts == ASSUME Core
  PROVE  /\ cliV \in Nat /\ servV \in Nat
         /\ taken \in Nat /\ given \in Nat /\ sent \in Nat /\ got \in Int
         /\ shm_offset \in Nat /\ NBUFF \in Nat /\ NBUFF >= 2 /\ Len(Blocks) \in Nat
         /\ i["client"] \in Nat /\ i["server"] \in Nat
         /\ cliAdj["client"][0] = taken /\ servAdj["client"][0] = -given
         /\ cliAdj["server"][0] = -sent /\ servAdj["server"][0] = got
         /\ cAt \notin {"serve"} /\ "client" \in Parties /\ "server" \in Parties
<1>1. cliVal[0] \in 0 .. SEMVMX /\ servVal[0] \in 0 .. SEMVMX
  BY DEF Core, CP!Sound, CP!IInv, CP!Shape, VP!Sound, VP!IInv, VP!Shape
<1>2. /\ cliAdj["client"][0] \in Int /\ servAdj["client"][0] \in Int
      /\ cliAdj["server"][0] \in Int /\ servAdj["server"][0] \in Int
  BY DEF Core, CP!Sound, CP!IInv, CP!Shape, VP!Sound, VP!IInv, VP!Shape, Parties
<1>3. SEMVMX \in Nat
  BY ConstantsFacts
<1>4. /\ taken \in 0 .. Len(Blocks) + 3 /\ given \in 0 .. Len(Blocks) + 3
      /\ sent \in Nat /\ got \in Int
  BY DEF Core, Counts
<1>5. /\ NBUFF \in Nat /\ NBUFF >= 2 /\ Len(Blocks) \in Nat
  BY FileProgramsAssumption
<1>6. /\ shm_offset \in 0 .. Len(Blocks)
      /\ i["client"] \in 0 .. NBUFF - 1 /\ i["server"] \in 0 .. NBUFF - 1
      /\ cAt \in ClientLabels
  BY DEF Core, Typed, Parties
<1>7. /\ cliAdj["client"][0] = taken /\ servAdj["client"][0] = -given
      /\ cliAdj["server"][0] = -sent /\ servAdj["server"][0] = got
  BY <1>2 DEF sent, given, taken, got
<1>8. cliV \in Nat /\ servV \in Nat
  BY <1>1, <1>3 DEF cliV, servV
<1>9. /\ taken \in Nat /\ given \in Nat /\ shm_offset \in Nat
      /\ i["client"] \in Nat /\ i["server"] \in Nat
  BY <1>4, <1>5, <1>6
<1>10. cAt \notin {"serve"} /\ "client" \in Parties /\ "server" \in Parties
  BY <1>6 DEF Parties, ClientLabels, COpening, Before, CHolds, Leaving, Gone
<1>. QED
  BY <1>4, <1>5, <1>7, <1>8, <1>9, <1>10

\* A sem_wait returns only when there was something to wait for.
LEMMA WaitsForOne ==
  ASSUME Core, NEW x \in Parties, NEW dc \in {-1, 0, 1}, NEW ds \in {-1, 0, 1}, Calls(x, dc, ds)
  PROVE  cliV + dc >= 0 /\ servV + ds >= 0
<1>1. cliV \in Nat /\ servV \in Nat
  BY CountsFacts
<1>2. ASSUME dc # 0 PROVE cliVal[0] + dc >= 0
  <2>1. CP!SemOp(x, dc) /\ dc \in {-1, 1} /\ CP!Sound
    BY <1>2 DEF Calls, Core
  <2>. QED
    BY <1>2, <2>1, ConstantsFacts, CP!OpWaits
<1>3. ASSUME ds # 0 PROVE servVal[0] + ds >= 0
  <2>1. VP!SemOp(x, ds) /\ ds \in {-1, 1} /\ VP!Sound
    BY <1>3 DEF Calls, Core
  <2>. QED
    BY <1>3, <2>1, ConstantsFacts, VP!OpWaits
<1>. QED
  BY <1>1, <1>2, <1>3 DEF cliV, servV

\* No call of the programs leaves the range of a semaphore or of an adjustment value.
LEMMA Ranges ==
  ASSUME Fits, Core, NEW dc \in {-1, 0, 1}, NEW ds \in {-1, 0, 1}
  PROVE  /\ ClientEdge(dc, ds) /\ Calls("client", dc, ds) => Effect("client", dc, ds)
         /\ (OneEdge(dc, ds) \/ MultiEdge(dc, ds)) /\ Calls("server", dc, ds)
              => Effect("server", dc, ds)
<1>. DEFINE M == Len(Blocks) + 3
<1>1. M \in Nat /\ NBUFF \in Nat /\ SEMVMX \in Nat /\ M + NBUFF =< SEMVMX
  <2>1. Len(Blocks) \in Nat /\ NBUFF \in Nat
    BY FileProgramsAssumption
  <2>2. SEMVMX \in Nat
    BY FileProgramsAssumption
  <2>. QED
    BY <2>1, <2>2 DEF Fits
<1>2. /\ cliV \in Nat /\ servV \in Nat /\ taken \in Nat /\ given \in Nat /\ sent \in Nat
      /\ got \in Int /\ shm_offset \in Nat /\ i["server"] \in 0 .. NBUFF - 1
      /\ shm_offset =< Len(Blocks) /\ taken =< M /\ given =< M
      /\ cliV =< SEMVMX /\ servV =< SEMVMX
  <2>1. cliV =< SEMVMX /\ servV =< SEMVMX
    BY ConstantsFacts DEF Core, CP!Sound, CP!IInv, CP!Shape, VP!Sound, VP!IInv, VP!Shape, cliV,
       servV
  <2>. QED
    BY <2>1, CountsFacts DEF Core, Counts, Typed, Parties
<1>3. /\ CP!InRange("client", -1) <=> cliV - 1 =< SEMVMX /\ taken + 1 \in -SEMVMX .. SEMVMX
      /\ VP!InRange("client", 1) <=> servV + 1 =< SEMVMX /\ -given - 1 \in -SEMVMX .. SEMVMX
      /\ CP!InRange("server", 1) <=> cliV + 1 =< SEMVMX /\ -sent - 1 \in -SEMVMX .. SEMVMX
      /\ VP!InRange("server", -1) <=> servV - 1 =< SEMVMX /\ got + 1 \in -SEMVMX .. SEMVMX
      /\ VP!InRange("server", 1) <=> servV + 1 =< SEMVMX /\ got - 1 \in -SEMVMX .. SEMVMX
  <2>1. /\ cliVal[0] = cliV /\ servVal[0] = servV
        /\ cliAdj["client"][0] = taken /\ servAdj["client"][0] = -given
        /\ cliAdj["server"][0] = -sent /\ servAdj["server"][0] = got
    BY CountsFacts DEF cliV, servV
  <2>2. CP!InRange("client", -1) <=> cliV - 1 =< SEMVMX /\ taken + 1 \in -SEMVMX .. SEMVMX
    BY <1>1, <1>2, <2>1 DEF CP!InRange
  <2>3. VP!InRange("client", 1) <=> servV + 1 =< SEMVMX /\ -given - 1 \in -SEMVMX .. SEMVMX
    BY <1>1, <1>2, <2>1 DEF VP!InRange
  <2>4. CP!InRange("server", 1) <=> cliV + 1 =< SEMVMX /\ -sent - 1 \in -SEMVMX .. SEMVMX
    BY <1>1, <1>2, <2>1 DEF CP!InRange
  <2>5. VP!InRange("server", -1) <=> servV - 1 =< SEMVMX /\ got + 1 \in -SEMVMX .. SEMVMX
    BY <1>1, <1>2, <2>1 DEF VP!InRange
  <2>6. VP!InRange("server", 1) <=> servV + 1 =< SEMVMX /\ got - 1 \in -SEMVMX .. SEMVMX
    BY <1>1, <1>2, <2>1 DEF VP!InRange
  <2>. QED
    BY <2>2, <2>3, <2>4, <2>5, <2>6
<1>4. /\ sent =< shm_offset + Ahead
      /\ cliV + taken =< 1 + Len(Blocks) + 2
      /\ servV + got =< M
      /\ got >= Floor
      /\ sAt \notin Gone => cliV + taken =< 1 + sent
      /\ cAt \notin Gone => servV + got =< given
      /\ got >= -NBUFF
  BY <1>1, <1>2 DEF Core, Counts, Ahead, Floor
<1>. HIDE DEF M
<1>5. ASSUME ClientEdge(dc, ds), Calls("client", dc, ds) PROVE Effect("client", dc, ds)
  <2>1. cliV + dc >= 0 /\ servV + ds >= 0
    BY <1>5, WaitsForOne, CountsFacts
  <2>2. CASE dc = -1
    <3>1. cliV + taken =< M
      BY <1>2, <1>4 DEF M
    <3>2. CP!InRange("client", -1)
      BY <1>1, <1>2, <1>3, <2>1, <2>2, <3>1
    <3>3. ds = 0
      BY <1>5, <2>2 DEF ClientEdge
    <3>. QED
      BY <1>5, <2>2, <3>2, <3>3, CallsEffect, CountsFacts DEF Core
  <2>3. CASE dc = 0 /\ ds = 1
    <3>1. cAt \in {"name_signal", "signal"}
      BY <1>5, <2>3 DEF ClientEdge, Edge, Where
    <3>2. given = taken - 1 /\ cAt \notin Gone
      BY <3>1 DEF Core, Counts, CHolds, Gone
    <3>3. VP!InRange("client", 1)
      BY <1>1, <1>2, <1>3, <1>4, <3>2
    <3>. QED
      BY <1>5, <2>3, <3>3, CallsEffect, CountsFacts DEF Core
  <2>4. CASE dc = 0 /\ ds = 0
    BY <1>5, <2>4, CallsEffect, CountsFacts DEF Core
  <2>. QED
    BY <1>5, <2>2, <2>3, <2>4 DEF ClientEdge
<1>6. ASSUME OneEdge(dc, ds) \/ MultiEdge(dc, ds), Calls("server", dc, ds)
      PROVE  Effect("server", dc, ds)
  <2>1. cliV + dc >= 0 /\ servV + ds >= 0
    BY <1>6, WaitsForOne, CountsFacts
  <2>2. \/ (dc = 0 /\ ds = -1) \/ (dc = 1 /\ ds = 0) \/ (dc = 0 /\ ds = 0)
        \/ (dc = 0 /\ ds = 1 /\ sAt = "fill")
    BY <1>6 DEF OneEdge, MultiEdge, Edge, Where
  <2>3. CASE dc = 0 /\ ds = -1
    <3>1. VP!InRange("server", -1)
      BY <1>1, <1>2, <1>3, <1>4, <2>1, <2>3
    <3>. QED
      BY <1>6, <2>3, <3>1, CallsEffect, CountsFacts DEF Core
  <2>4. CASE dc = 1 /\ ds = 0
    <3>1. sAt \in {"block_signal", "message_signal", "end_signal", "signal"}
      BY <1>6, <2>4 DEF OneEdge, MultiEdge, Edge, Where
    <3>2. Ahead =< 1 /\ Ahead \in Int /\ sAt \notin Gone
      BY <3>1 DEF Ahead, Gone, Leaving
    <3>3. CP!InRange("server", 1)
      BY <1>1, <1>2, <1>3, <1>4, <3>2 DEF M
    <3>. QED
      BY <1>6, <2>4, <3>3, CallsEffect, CountsFacts DEF Core
  <2>5. CASE dc = 0 /\ ds = 1 /\ sAt = "fill"
    <3>1. got >= -i["server"]
      BY <1>4, <2>5 DEF Floor
    <3>2. VP!InRange("server", 1)
      BY <1>1, <1>2, <1>3, <1>4, <3>1
    <3>. QED
      BY <1>6, <2>5, <3>2, CallsEffect, CountsFacts DEF Core
  <2>6. CASE dc = 0 /\ ds = 0
    BY <1>6, <2>6, CallsEffect, CountsFacts DEF Core
  <2>. QED
    BY <2>2, <2>3, <2>4, <2>5, <2>6
<1>. QED
  BY <1>5, <1>6

-----------------------------------------------------------------------------
(* The steps of the programs keep the invariant *)

ClientNumbers(dc, ds) ==
  /\ cliV' = cliV + dc /\ servV' = servV + ds /\ cliV + dc >= 0 /\ servV + ds >= 0
  /\ taken' = taken - dc /\ given' = given + ds /\ sent' = sent /\ got' = got

ServerNumbers(dc, ds) ==
  /\ cliV' = cliV + dc /\ servV' = servV + ds /\ cliV + dc >= 0 /\ servV + ds >= 0
  /\ taken' = taken /\ given' = given /\ sent' = sent + dc /\ got' = got - ds

\* The calls in terms of what was taken, given, sent and got.
LEMMA EffectNumbers ==
  ASSUME Core, NEW dc \in {-1, 0, 1}, NEW ds \in {-1, 0, 1}
  PROVE  /\ Effect("client", dc, ds) => ClientNumbers(dc, ds)
         /\ Effect("server", dc, ds) => ServerNumbers(dc, ds)
<1>1. /\ cliAdj["client"][0] = taken /\ servAdj["client"][0] = -given
      /\ cliAdj["server"][0] = -sent /\ servAdj["server"][0] = got
      /\ taken \in Int /\ given \in Int /\ sent \in Int /\ got \in Int
      /\ "client" \in Parties /\ "server" \in Parties
  BY CountsFacts
<1>2. ASSUME Effect("client", dc, ds) PROVE ClientNumbers(dc, ds)
  <2>1. /\ cliV' = cliV + dc /\ cliV + dc >= 0 /\ servV' = servV + ds /\ servV + ds >= 0
        /\ cliAdj'["client"][0] = taken - dc /\ servAdj'["client"][0] = -given - ds
        /\ cliAdj'["server"][0] = -sent /\ servAdj'["server"][0] = got
    BY <1>1, <1>2 DEF Effect
  <2>2. taken' = taken - dc /\ given' = given + ds /\ sent' = sent /\ got' = got
    BY <1>1, <2>1 DEF taken, given, sent, got
  <2>. QED
    BY <2>1, <2>2 DEF ClientNumbers
<1>3. ASSUME Effect("server", dc, ds) PROVE ServerNumbers(dc, ds)
  <2>1. /\ cliV' = cliV + dc /\ cliV + dc >= 0 /\ servV' = servV + ds /\ servV + ds >= 0
        /\ cliAdj'["client"][0] = taken /\ servAdj'["client"][0] = -given
        /\ cliAdj'["server"][0] = -sent - dc /\ servAdj'["server"][0] = got - ds
    BY <1>1, <1>3 DEF Effect
  <2>2. taken' = taken /\ given' = given /\ sent' = sent + dc /\ got' = got - ds
    BY <1>1, <2>1 DEF taken, given, sent, got
  <2>. QED
    BY <2>1, <2>2 DEF ServerNumbers
<1>. QED
  BY <1>2, <1>3

\* i = (i + 1) % NBUFF: the next buffer, or the first.
LEMMA TurnFact == ASSUME NEW j \in 0 .. NBUFF - 1
  PROVE (j + 1) % NBUFF = IF j = NBUFF - 1 THEN 0 ELSE j + 1
<1>. NBUFF \in Nat /\ NBUFF >= 2
  BY FileProgramsAssumption
<1>1. CASE j = NBUFF - 1
  <2>1. j + 1 = NBUFF
    BY <1>1
  <2>2. NBUFF % NBUFF = 0
    OBVIOUS
  <2>. QED
    BY <1>1, <2>1, <2>2
<1>2. CASE j # NBUFF - 1
  <2>1. j + 1 \in 0 .. NBUFF - 1
    BY <1>2
  <2>. QED
    BY <1>2, <2>1
<1>. QED
  BY <1>1, <1>2

\* A step of client() keeps Core.
LEMMA ClientCore ==
  ASSUME Core, NEW dc \in {-1, 0, 1}, NEW ds \in {-1, 0, 1},
         ClientEdge(dc, ds), Effect("client", dc, ds)
  PROVE  Core'
<1>. DEFINE L == Len(Blocks)
<1>1. ClientNumbers(dc, ds)
  BY EffectNumbers
<1>2. /\ cliV \in Nat /\ servV \in Nat /\ taken \in Nat /\ given \in Nat /\ sent \in Nat
      /\ got \in Int /\ L \in Nat /\ NBUFF \in Nat /\ NBUFF >= 2
      /\ i["server"] \in 0 .. NBUFF - 1 /\ i["client"] \in 0 .. NBUFF - 1
  BY CountsFacts DEF Core, Typed, Parties
<1>. HIDE DEF L
<1>3. Typed'
  <2>1. (i["client"] + 1) % NBUFF \in 0 .. NBUFF - 1
    BY <1>2, TurnFact
  <2>2. i' \in [Parties -> 0 .. NBUFF - 1]
    BY <2>1 DEF Core, Typed, ClientEdge, Parties
  <2>3. Placed' /\ cAt' \in ClientLabels /\ sAt' = sAt
    BY DEF ClientEdge, Edge, Where, Goes, ClientLabels, COpening, Before, CHolds, Leaving, Gone
  <2>. QED
    BY <2>2, <2>3 DEF Core, Typed, ClientEdge
<1>4. Coupled'
  <2>1. /\ Coupled
        /\ cliPc' = cliPc /\ servPc' = servPc
    BY DEF Core, Effect
  <2>. QED
    BY <2>1 DEF Coupled, ClientEdge, Edge, Where, Goes, CliAt, ServAt, Within, Gone
<1>5. Phases'
  <2>1. Phases /\ sAt' = sAt
    BY DEF Core, Typed, ClientEdge, Edge, Where, Goes
  <2>2. CASE dc = -1
    <3>1. \/ cAt = "ask" /\ cAt' = "name"
          \/ cAt = "wait" /\ cAt' = "look"
      BY <2>2 DEF ClientEdge, Edge, Where, Goes
    <3>2. ds = 0 /\ cliV' = cliV - 1 /\ cliV >= 1 /\ servV' = servV
      BY <1>1, <1>2, <2>2 DEF ClientEdge, ClientNumbers
    <3>. QED
      BY <1>2, <2>1, <3>1, <3>2 DEF Phases, COpening, Before
  <2>3. CASE ds = 1
    <3>1. cAt \in {"name_signal", "signal"} /\ cAt' = "wait"
      BY <2>3 DEF ClientEdge, Edge, Where, Goes
    <3>2. dc = 0 /\ cliV' = cliV /\ servV' = servV + 1
      BY <1>1, <1>2, <2>3 DEF ClientEdge, ClientNumbers
    <3>. QED
      BY <1>2, <2>1, <3>1, <3>2 DEF Phases, COpening, Before
  <2>4. CASE dc = 0 /\ ds = 0
    <3>1. \/ (cAt = "start" /\ cAt' = "open_c") \/ (cAt = "name" /\ cAt' = "name_signal")
          \/ (cAt = "look" /\ cAt' = "print") \/ (cAt = "look" /\ cAt' = "detach")
          \/ (cAt = "print" /\ cAt' = "signal") \/ (cAt = "detach" /\ cAt' = "close_c")
      BY <2>4 DEF ClientEdge, Edge, Where, Goes
    <3>2. cliV' = cliV /\ servV' = servV
      BY <1>1, <1>2, <2>4 DEF ClientNumbers
    <3>. QED
      BY <2>1, <3>1, <3>2 DEF Phases, COpening, Before
  <2>. QED
    BY <2>2, <2>3, <2>4 DEF ClientEdge
<1>6. Counts'
  <2>1. /\ shm_offset' = shm_offset /\ sAt' = sAt /\ i'["server"] = i["server"]
        /\ Ahead' = Ahead /\ Floor' = Floor
    BY <1>2 DEF Core, Typed, ClientEdge, Edge, Where, Goes, Ahead, Floor, Parties
  <2>2. /\ shm_offset \in 0 .. L /\ Ahead \in Int /\ Ahead =< 2
        /\ sent =< shm_offset + Ahead
    BY DEF Core, Typed, Counts, Ahead, L
  <2>3. CASE dc = -1
    <3>1. (cAt = "ask" /\ cAt' = "name") \/ (cAt = "wait" /\ cAt' = "look")
      BY <2>3 DEF ClientEdge, Edge, Where, Goes
    <3>2. ds = 0
      BY <2>3 DEF ClientEdge
    <3>3. taken + 1 =< L + 3
      BY <1>1, <1>2, <2>2, <2>3 DEF Core, Counts, ClientNumbers, L
    <3>4. /\ taken' = taken + 1 /\ given' = given /\ sent' = sent /\ got' = got
          /\ cliV' = cliV - 1 /\ servV' = servV
      BY <1>1, <1>2, <2>3, <3>2 DEF ClientNumbers
    <3>5. given = taken
      BY <3>1 DEF Core, Counts, COpening
    <3>6. cAt \notin Gone /\ cAt' \notin Gone \cup COpening \cup {"ask", "wait"}
      BY <3>1 DEF COpening, Gone
    <3>. QED
      BY <1>2, <2>1, <2>2, <3>3, <3>4, <3>5, <3>6 DEF Core, Counts, L
  <2>4. CASE ds = 1
    <3>1. cAt \in {"name_signal", "signal"} /\ cAt' = "wait" /\ dc = 0
      BY <2>4 DEF ClientEdge, Edge, Where, Goes
    <3>. QED
      BY <1>1, <1>2, <2>1, <2>2, <2>4, <3>1 DEF Core, Counts, ClientNumbers,
         COpening, SOpening, Before, CHolds, Leaving, Gone, L
  <2>5. CASE dc = 0 /\ ds = 0
    <3>1. \/ (cAt = "start" /\ cAt' = "open_c") \/ (cAt = "name" /\ cAt' = "name_signal")
          \/ (cAt = "look" /\ cAt' = "print") \/ (cAt = "look" /\ cAt' = "detach")
          \/ (cAt = "print" /\ cAt' = "signal") \/ (cAt = "detach" /\ cAt' = "close_c")
      BY <2>5 DEF ClientEdge, Edge, Where, Goes
    <3>. QED
      BY <1>1, <1>2, <2>1, <2>2, <2>5, <3>1 DEF Core, Counts, ClientNumbers,
         COpening, SOpening, Before, CHolds, Leaving, Gone, L
  <2>. QED
    BY <2>3, <2>4, <2>5 DEF ClientEdge
<1>. QED
  BY <1>3, <1>4, <1>5, <1>6 DEF Core, Effect

\* A step of server() keeps Core.
LEMMA ServerCore ==
  ASSUME Core, NEW dc \in {-1, 0, 1}, NEW ds \in {-1, 0, 1},
         OneEdge(dc, ds) \/ MultiEdge(dc, ds), Effect("server", dc, ds)
  PROVE  Core'
<1>. DEFINE L == Len(Blocks)
<1>1. ServerNumbers(dc, ds)
  BY EffectNumbers
<1>2. /\ cliV \in Nat /\ servV \in Nat /\ taken \in Nat /\ given \in Nat /\ sent \in Nat
      /\ got \in Int /\ L \in Nat /\ NBUFF \in Nat /\ NBUFF >= 2
      /\ i["server"] \in 0 .. NBUFF - 1 /\ i["client"] \in 0 .. NBUFF - 1
      /\ shm_offset \in 0 .. L
  BY CountsFacts DEF Core, Typed, Parties
<1>. HIDE DEF L
<1>3. Typed'
  <2>1. (i["server"] + 1) % NBUFF \in 0 .. NBUFF - 1
    BY <1>2, TurnFact
  <2>2. i' \in [Parties -> 0 .. NBUFF - 1]
    BY <2>1 DEF Core, Typed, OneEdge, MultiEdge, Parties
  <2>3. Placed' /\ cAt' = cAt /\ shm_program' = shm_program
    BY DEF OneEdge, MultiEdge, Edge, Where, Goes
  <2>4. shm_offset' \in 0 .. Len(Blocks)
    BY <1>2 DEF OneEdge, MultiEdge, L
  <2>5. \/ shm_program = "10_shared_memory" /\ sAt' \in OneLabels
        \/ shm_program = "11_multi_buffer" /\ sAt' \in MultiLabels
    BY DEF OneEdge, MultiEdge, Edge, Where, Goes, OneLabels, MultiLabels, SingleS, MessageS,
       BlockS,
           SOpening, Leaving, Gone
  <2>. QED
    BY <2>2, <2>3, <2>4, <2>5 DEF Core, Typed
<1>4. Coupled'
  <2>1. /\ Coupled
        /\ cliPc' = cliPc /\ servPc' = servPc
    BY DEF Core, Effect
  <2>. QED
    BY <2>1 DEF Coupled, OneEdge, MultiEdge, Edge, Where, Goes, CliAt, ServAt, Within, Gone
<1>5. Phases'
  <2>1. sAt \notin SOpening \cup {"dead"} /\ sAt' \notin SOpening \cup {"serve", "dead"} /\ cAt' = cAt
    BY DEF OneEdge, MultiEdge, Edge, Where, Goes, SOpening
  <2>2. sAt = "serve" => ds = -1
    BY DEF OneEdge, MultiEdge, Edge, Where, Goes
  <2>3. sAt = "serve" => servV # 0
    BY <1>1, <1>2, <2>2 DEF ServerNumbers
  <2>4. cAt \notin COpening \cup Before
    BY <2>1, <2>3 DEF Core, Phases
  <2>. QED
    BY <2>1, <2>4 DEF Phases
<1>6. Counts'
  <2>1. cAt' = cAt
    BY DEF OneEdge, MultiEdge, Edge, Where, Goes
  <2>2. CASE ds = -1
    <3>1. dc = 0 /\ shm_offset' = shm_offset /\ i' = i
      BY <2>2 DEF OneEdge, MultiEdge
    <3>2. \/ (sAt = "serve" /\ sAt' = "open") \/ (sAt = "block_wait" /\ sAt' = "read")
          \/ (sAt = "message_wait" /\ sAt' = "end") \/ (sAt = "wait" /\ sAt' = "read")
          \/ (sAt = "message_wait" /\ sAt' = "message_end")
      BY <2>2 DEF OneEdge, MultiEdge, Edge, Where, Goes
    <3>3. /\ Ahead' = Ahead /\ Floor' = Floor /\ sAt \notin Gone /\ sAt' \notin Gone
          /\ sAt' \in SOpening \cup {"serve", "open"} => sAt = "serve"
      BY <3>1, <3>2 DEF Ahead, Floor, SOpening, Leaving, Gone
    <3>4. Floor \in Int
      BY <1>2 DEF Floor
    <3>5. /\ cliV' = cliV /\ taken' = taken /\ given' = given /\ sent' = sent
          /\ servV' + got' = servV + got /\ got' \in Int /\ got' >= got
      BY <1>1, <1>2, <2>2, <3>1 DEF ServerNumbers
    <3>. QED
      BY <1>2, <2>1, <3>1, <3>3, <3>4, <3>5 DEF Core, Counts
  <2>3. CASE ds = 1
    <3>1. dc = 0 /\ shm_offset' = shm_offset /\ sAt = "fill"
          /\ sAt' = IF i["server"] < NBUFF - 1 THEN "fill" ELSE "wait"
      BY <2>3 DEF OneEdge, MultiEdge, Edge, Where, Goes
    <3>2. i'["server"] = IF i["server"] = NBUFF - 1 THEN 0 ELSE i["server"] + 1
      BY <1>2, <2>3, TurnFact DEF OneEdge, MultiEdge, Core, Typed, Parties
    <3>3. got' >= Floor'
      BY <1>1, <1>2, <2>3, <3>1, <3>2 DEF Core, Counts, ServerNumbers, Floor, SOpening
    <3>. QED
      BY <1>1, <1>2, <2>1, <2>3, <3>1, <3>2, <3>3 DEF Core, Counts, ServerNumbers, COpening,
         SOpening, Before, CHolds, Leaving, Gone, L, Ahead
  <2>4. CASE dc = 1
    <3>1. /\ ds = 0 /\ shm_offset' = shm_offset
          /\ \/ (sAt = "block_signal" /\ sAt' = "block_wait")
             \/ (sAt = "message_signal" /\ sAt' = "message_wait")
             \/ (sAt = "end_signal" /\ sAt' = "close_c") \/ (sAt = "signal" /\ sAt' = "wait")
             \/ (sAt = "end_signal" /\ sAt' = "poll")
      BY <2>4 DEF OneEdge, MultiEdge, Edge, Where, Goes
    <3>2. /\ Ahead \in Int /\ Ahead' = Ahead + 1 /\ Floor' = Floor
          /\ sAt \notin Gone /\ sAt' \notin Gone
          /\ sAt' \notin SOpening \cup {"serve", "open"}
      BY <3>1 DEF Ahead, Floor, SOpening, Leaving, Gone
    <3>3. /\ cliV' = cliV + 1 /\ taken' = taken /\ given' = given /\ sent' = sent + 1
          /\ servV' = servV /\ got' = got
      BY <1>1, <1>2, <2>4, <3>1 DEF ServerNumbers
    <3>. QED
      BY <1>2, <2>1, <3>1, <3>2, <3>3 DEF Core, Counts
  <2>5. CASE dc = 0 /\ ds = 0
    <3>1. i' = i
      BY <2>5 DEF OneEdge, MultiEdge
    <3>2. CASE shm_offset' = shm_offset
      <4>1. \/ (sAt = "open" /\ sAt' \in {"read", "message_len", "fill", "message"})
            \/ (sAt = "read" /\ sAt' \in {"end", "len"})
            \/ (sAt = "block_len" /\ sAt' = "block_signal")
            \/ (sAt = "message_len" /\ sAt' = "message_signal")
            \/ (sAt = "end" /\ sAt' = "end_signal")
            \/ (sAt = "message" /\ sAt' = "message_signal")
            \/ (sAt = "message_end" /\ sAt' = "end_signal")
            \/ (sAt = "poll" /\ sAt' = "close_c") \/ (sAt = "len" /\ sAt' = "end_signal")
        BY <1>2, <2>5, <3>2 DEF OneEdge, MultiEdge, Edge, Where, Goes
      <4>2. /\ Ahead \in Int /\ (Ahead' = Ahead \/ Ahead' = Ahead + 1)
            /\ sAt \notin Gone /\ sAt' \notin Gone
            /\ sAt' \notin SOpening \cup {"serve", "open"}
        BY <4>1 DEF Ahead, SOpening, Leaving, Gone
      <4>3. Floor \in Int /\ (Floor' = Floor \/ (Floor = 0 /\ Floor' = -NBUFF))
        <5>1. sAt = "open" => i["server"] = 0 /\ Floor = 0
          BY DEF Core, Counts, Floor, SOpening
        <5>2. sAt # "open" => Floor = -NBUFF
          BY <4>1, <5>1 DEF Floor, SOpening
        <5>3. Floor' = -i["server"] \/ Floor' = -NBUFF
          BY <3>1, <4>1 DEF Floor, SOpening
        <5>4. sAt # "open" => Floor' = -NBUFF
          BY <3>1, <4>1 DEF Floor, SOpening
        <5>. QED
          BY <1>2, <5>1, <5>2, <5>3, <5>4
      <4>4. /\ cliV' = cliV /\ taken' = taken /\ given' = given /\ sent' = sent
            /\ servV' = servV /\ got' = got
        BY <1>1, <1>2, <2>5 DEF ServerNumbers
      <4>5. sent' =< shm_offset' + Ahead'
        <5>1. sent =< shm_offset + Ahead
          BY DEF Core, Counts
        <5>2. sent \in Int /\ shm_offset \in Int
          BY <1>2
        <5>. QED
          BY <3>2, <4>2, <4>4, <5>1, <5>2
      <4>6. got' >= Floor'
        <5>1. got >= Floor
          BY DEF Core, Counts
        <5>. QED
          BY <1>2, <4>3, <4>4, <5>1
      <4>. QED
        BY <2>1, <3>1, <4>2, <4>4, <4>5, <4>6 DEF Core, Counts
    <3>3. CASE shm_offset' # shm_offset
      <4>1. /\ shm_offset' = shm_offset + 1
            /\ (sAt = "read" /\ sAt' = "block_len") \/ (sAt = "len" /\ sAt' = "signal")
        BY <2>5, <3>3 DEF OneEdge, MultiEdge, Edge, Where, Goes
      <4>2. /\ Ahead \in Int /\ Ahead' = Ahead - 1 /\ Floor' = Floor
            /\ sAt \notin Gone /\ sAt' \notin Gone
            /\ sAt' \notin SOpening \cup {"serve", "open"}
        BY <4>1 DEF Ahead, Floor, SOpening, Leaving, Gone
      <4>4. /\ cliV' = cliV /\ taken' = taken /\ given' = given /\ sent' = sent
            /\ servV' = servV /\ got' = got
        BY <1>1, <1>2, <2>5 DEF ServerNumbers
      <4>. QED
        BY <1>2, <2>1, <4>1, <4>2, <4>4 DEF Core, Counts
    <3>. QED
      BY <3>2, <3>3
  <2>6. ds = -1 \/ ds = 1 \/ dc = 1 \/ (dc = 0 /\ ds = 0)
    BY DEF OneEdge, MultiEdge
  <2>. QED
    BY <2>2, <2>3, <2>4, <2>5, <2>6
<1>. QED
  BY <1>3, <1>4, <1>5, <1>6 DEF Core, Effect

-----------------------------------------------------------------------------
(* The steps of main() keep the invariant *)

CliValues   == cliV' = cliV /\ taken' = taken /\ sent' = sent
CliReset(v) == cliV' = v /\ taken' = 0 /\ sent' = 0
CliStill    == CP!Sound' /\ CliValues /\ cliPc' = cliPc /\ cliLive' = cliLive
ServValues   == servV' = servV /\ given' = given /\ got' = got
ServReset(v) == servV' = v /\ given' = 0 /\ got' = 0
ServStill    == VP!Sound' /\ ServValues /\ servPc' = servPc /\ servLive' = servLive

\* A semaphore that a step does not touch stays as it is.
LEMMA SameStill == ASSUME Core
  PROVE  (CliSame => CliStill) /\ (ServSame => ServStill)
<1>1. ASSUME CliSame PROVE CliStill
  <2>1. CP!Sound'
    BY <1>1, ConstantsFacts, CP!SoundStays DEF CliSame, Core
  <2>. QED
    BY <1>1, <2>1 DEF CliSame, CliStill, CliValues, cliV, taken, sent
<1>2. ASSUME ServSame PROVE ServStill
  <2>1. VP!Sound'
    BY <1>2, ConstantsFacts, VP!SoundStays DEF ServSame, Core
  <2>. QED
    BY <1>2, <2>1 DEF ServSame, ServStill, ServValues, servV, given, got
<1>. QED
  BY <1>1, <1>2

\* The same of the numbers.
LEMMA ValuesStay ==
  /\ CP!ValueStays => CliValues
  /\ \A v \in Nat : CP!ValueSet(v) => CliReset(v)
  /\ VP!ValueStays => ServValues
  /\ \A v \in Nat : VP!ValueSet(v) => ServReset(v)
<1>1. CP!ValueStays => CliValues
  BY DEF CP!ValueStays, CliValues, cliV, taken, sent, Parties
<1>2. ASSUME NEW v \in Nat, CP!ValueSet(v) PROVE CliReset(v)
  BY <1>2 DEF CP!ValueSet, CliReset, cliV, taken, sent, Parties
<1>3. VP!ValueStays => ServValues
  BY DEF VP!ValueStays, ServValues, servV, given, got, Parties
<1>4. ASSUME NEW v \in Nat, VP!ValueSet(v) PROVE ServReset(v)
  BY <1>4 DEF VP!ValueSet, ServReset, servV, given, got, Parties
<1>. QED
  BY <1>1, <1>2, <1>3, <1>4

\* The server's shmget and shmat keep Core.
LEMMA AttachesCore == ASSUME Core, Attaches PROVE Core'
<1>1. CliStill /\ ServStill
  BY SameStill DEF Attaches
<1>2. sAt = "start" /\ sAt' = "create_c" /\ cAt' = cAt /\ Placed' /\ Unmoved
  BY DEF Attaches, Goes
<1>. QED
  BY <1>1, <1>2 DEF Core, Typed, Coupled, Phases, Counts, CliStill, ServStill, CliValues,
     ServValues,
     Unmoved, OneLabels, MultiLabels, SOpening, CliAt, ServAt, Within, Gone, Ahead, Floor, Leaving

\* Client and server are at the end or the beginning of their session together.
LEMMA NobodyElse == ASSUME Core
  PROVE  /\ sAt \in SOpening => cAt \in COpening \cup Before \cup {"wait", "dead"}
         /\ cAt \in COpening => sAt \in SOpening \cup {"serve", "dead"}
         /\ cAt \in Leaving => sAt \notin SOpening
         /\ sAt \in Leaving => cAt \notin COpening
BY DEF Core, Phases, SOpening, COpening, Before, Leaving

\* sem_create sets the value, if at all, before the client has opened the semaphore.
LEMMA CreatesEffect == ASSUME Core, Creates
  PROVE  \/ /\ sAt = "create_c" /\ ServStill
            /\ CP!Sound' /\ cliPc'["client"] = cliPc["client"] /\ cliPc["client"] # "x_unlock"
            /\ cliPc'["server"] \in (CP!Creating \ {"again"}) \cup {"open"}
            /\ Stays("server", "create_s", cliPc'["server"] = "open")
            /\ CliValues \/ (CliReset(1) /\ cAt \in {"start", "open_c", "dead"})
         \/ /\ sAt = "create_s" /\ CliStill
            /\ VP!Sound' /\ servPc'["client"] = servPc["client"] /\ servPc["client"] # "x_unlock"
            /\ servPc'["server"] \in (VP!Creating \ {"again"}) \cup {"open"}
            /\ Stays("server", "serve", servPc'["server"] = "open")
            /\ ServValues \/ (ServReset(0) /\ cAt \in COpening \cup {"dead"})
<1>1. ASSUME sAt = "create_c", CP!CreateGet("server") \/ CP!CreateStep("server"), ServSame,
             Stays("server", "create_s", cliPc'["server"] = "open")
      PROVE  /\ ServStill
             /\ CP!Sound' /\ cliPc'["client"] = cliPc["client"] /\ cliPc["client"] # "x_unlock"
             /\ cliPc'["server"] \in (CP!Creating \ {"again"}) \cup {"open"}
             /\ CliValues \/ (CliReset(1) /\ cAt \in {"start", "open_c", "dead"})
  <2>1. cliPc["server"] \in {"idle"} \cup (CP!Creating \ {"again"})
    BY <1>1 DEF Core, Coupled, CliAt, Within
  <2>2. cliPc["client"] \notin CP!Closing
    BY <1>1, NobodyElse DEF Core, Coupled, CliAt, Within, SOpening, COpening, Before,
       CP!Closing, Gone
  <2>3. \A q \in Parties : cliPc[q] \notin CP!Closing
    BY <2>1, <2>2 DEF Parties, CP!Closing, CP!Creating
  <2>4. /\ CP!Joined("server")
        /\ cliPc'["server"] \in (CP!Creating \ {"again"}) \cup {"open"}
        /\ cliPc["server"] \in {"idle"} \cup (CP!Creating \ {"again"})
        /\ CP!ValueStays \/ (CP!ValueSet(1) /\ \A q \in Parties : cliPc[q] \notin CP!Using)
    BY <1>1, <2>3, CountsFacts, ConstantsFacts, CP!CreateKept DEF Core
  <2>5. CP!Sound' /\ cliPc'["client"] = cliPc["client"]
    BY <2>4 DEF CP!Joined, CP!OthersStay, Parties
  <2>6. ASSUME \A q \in Parties : cliPc[q] \notin CP!Using PROVE cAt \in {"start", "open_c", "dead"}
    <3>1. cliPc["client"] # "open"
      BY <2>6 DEF Parties, CP!Using
    <3>. QED
      BY <1>1, <3>1, NobodyElse DEF Core, Coupled, CliAt, Within, SOpening, COpening, Before, Gone
  <2>7. CliValues \/ (CliReset(1) /\ cAt \in {"start", "open_c", "dead"})
    BY <2>4, <2>6, ValuesStay
  <2>. QED
    BY <1>1, <2>2, <2>4, <2>5, <2>7, SameStill DEF CP!Closing
<1>2. ASSUME sAt = "create_s", VP!CreateGet("server") \/ VP!CreateStep("server"), CliSame,
             Stays("server", "serve", servPc'["server"] = "open")
      PROVE  /\ CliStill
             /\ VP!Sound' /\ servPc'["client"] = servPc["client"] /\ servPc["client"] # "x_unlock"
             /\ servPc'["server"] \in (VP!Creating \ {"again"}) \cup {"open"}
             /\ ServValues \/ (ServReset(0) /\ cAt \in COpening \cup {"dead"})
  <2>1. servPc["server"] \in {"idle"} \cup (CP!Creating \ {"again"})
    BY <1>2 DEF Core, Coupled, ServAt, Within
  <2>2. servPc["client"] \notin VP!Closing
    BY <1>2, NobodyElse DEF Core, Coupled, ServAt, Within, SOpening, COpening, Before,
       VP!Closing, Gone
  <2>3. \A q \in Parties : servPc[q] \notin VP!Closing
    BY <2>1, <2>2 DEF Parties, VP!Closing, CP!Creating
  <2>4. /\ VP!Joined("server")
        /\ servPc'["server"] \in (VP!Creating \ {"again"}) \cup {"open"}
        /\ servPc["server"] \in {"idle"} \cup (VP!Creating \ {"again"})
        /\ VP!ValueStays \/ (VP!ValueSet(0) /\ \A q \in Parties : servPc[q] \notin VP!Using)
    BY <1>2, <2>3, CountsFacts, ConstantsFacts, VP!CreateKept DEF Core
  <2>5. VP!Sound' /\ servPc'["client"] = servPc["client"]
    BY <2>4 DEF VP!Joined, VP!OthersStay, Parties
  <2>6. ASSUME \A q \in Parties : servPc[q] \notin VP!Using PROVE cAt \in COpening \cup {"dead"}
    <3>1. servPc["client"] # "open"
      BY <2>6 DEF Parties, VP!Using
    <3>. QED
      BY <1>2, <3>1, NobodyElse DEF Core, Coupled, ServAt, Within, SOpening, COpening, Before, Gone
  <2>7. ServValues \/ (ServReset(0) /\ cAt \in COpening \cup {"dead"})
    BY <2>4, <2>6, ValuesStay
  <2>. QED
    BY <1>2, <2>2, <2>4, <2>5, <2>7, SameStill DEF VP!Closing
<1>. QED
  BY <1>1, <1>2 DEF Creates

\* A step of sem_create keeps Core.
LEMMA CreatesCore == ASSUME Core, Creates PROVE Core'
<1>1. /\ Unmoved /\ cAt' = cAt /\ Placed'
      /\ sAt' \in SOpening \cup {"serve"} /\ sAt \in SOpening
      /\ sAt' \notin {"start"}
  BY DEF Creates, Stays, Goes, Where, SOpening
<1>2. /\ cliV \in Nat /\ servV \in Nat /\ taken \in Nat /\ given \in Nat /\ sent \in Nat
      /\ got \in Int
  BY CountsFacts
<1>3. Typed'
  BY <1>1 DEF Core, Typed, Unmoved, OneLabels, MultiLabels
<1>4. cAt \in COpening \cup Before \cup {"wait", "dead"}
  BY <1>1, NobodyElse
<1>5. CASE sAt = "create_c" /\ ServStill
            /\ CP!Sound' /\ cliPc'["client"] = cliPc["client"]
            /\ cliPc'["server"] \in (CP!Creating \ {"again"}) \cup {"open"}
            /\ Stays("server", "create_s", cliPc'["server"] = "open")
            /\ (CliValues \/ (CliReset(1) /\ cAt \in {"start", "open_c", "dead"}))
  <2>1. sAt' = IF cliPc'["server"] = "open" THEN "create_s" ELSE "create_c"
    BY <1>5 DEF Stays, Goes, Where
  <2>2. Coupled'
    BY <1>1, <1>5, <2>1 DEF Core, Coupled, ServStill, CliAt, ServAt, Within, Gone, CP!Creating
  <2>3. CASE CliValues
    BY <1>1, <1>2, <1>3, <1>4, <1>5, <2>1, <2>2, <2>3 DEF Core, Phases, Counts, CliValues,
       ServStill,
       ServValues, Unmoved, SOpening, Ahead, Floor, Gone, Leaving
  <2>4. CASE CliReset(1) /\ cAt \in {"start", "open_c", "dead"}
    BY <1>1, <1>2, <1>3, <1>5, <2>1, <2>2, <2>4, CountsFacts DEF Core, Phases, Counts, CliReset,
       ServStill, ServValues, Unmoved, SOpening, COpening, Before, CHolds, Ahead, Floor, Gone,
       Leaving, Typed
  <2>. QED
    BY <1>5, <2>3, <2>4
<1>6. CASE sAt = "create_s" /\ CliStill
            /\ VP!Sound' /\ servPc'["client"] = servPc["client"]
            /\ servPc'["server"] \in (VP!Creating \ {"again"}) \cup {"open"}
            /\ Stays("server", "serve", servPc'["server"] = "open")
            /\ (ServValues \/ (ServReset(0) /\ cAt \in COpening \cup {"dead"}))
  <2>1. sAt' = IF servPc'["server"] = "open" THEN "serve" ELSE "create_s"
    BY <1>6 DEF Stays, Goes, Where
  <2>2. Coupled'
    BY <1>1, <1>6, <2>1 DEF Core, Coupled, CliStill, CliAt, ServAt, Within, Gone, VP!Creating,
       CP!Creating
  <2>3. CASE ServValues
    BY <1>1, <1>2, <1>3, <1>4, <1>6, <2>1, <2>2, <2>3 DEF Core, Phases, Counts, ServValues,
       CliStill,
       CliValues, Unmoved, SOpening, Ahead, Floor, Gone, Leaving
  <2>4. CASE ServReset(0) /\ cAt \in COpening \cup {"dead"}
    BY <1>1, <1>2, <1>3, <1>6, <2>1, <2>2, <2>4, CountsFacts DEF Core, Phases, Counts, ServReset,
       CliStill, CliValues, Unmoved, SOpening, COpening, Before, CHolds, Ahead, Floor, Gone,
       Leaving, Typed
  <2>. QED
    BY <1>6, <2>3, <2>4
<1>. QED
  BY <1>5, <1>6, CreatesEffect

\* sem_open changes no value.
LEMMA OpensEffect == ASSUME Core, Opens
  PROVE  /\ CP!Sound' /\ VP!Sound' /\ CliValues /\ ServValues
         /\ \/ /\ cAt = "open_c" /\ ServStill
               /\ cliPc'["server"] = cliPc["server"] /\ cliPc["server"] # "x_unlock"
               /\ cliPc'["client"] \in {"o_open", "open"}
               /\ Stays("client", "open_s", cliPc'["client"] = "open")
            \/ /\ cAt = "open_s" /\ CliStill
               /\ servPc'["server"] = servPc["server"] /\ servPc["server"] # "x_unlock"
               /\ servPc'["client"] \in {"o_open", "open"}
               /\ Stays("client", "ask", servPc'["client"] = "open")
<1>1. ASSUME cAt = "open_c", CP!OpenGet("client") \/ CP!OpenStep("client"), ServSame
      PROVE  /\ ServStill
             /\ CP!Sound' /\ CliValues
             /\ cliPc'["server"] = cliPc["server"] /\ cliPc["server"] # "x_unlock"
             /\ cliPc'["client"] \in {"o_open", "open"}
  <2>1. cliPc["client"] \in {"idle", "o_open"}
    BY <1>1 DEF Core, Coupled, CliAt, Within
  <2>2. cliPc["server"] \notin CP!Closing
    BY <1>1, NobodyElse DEF Core, Coupled, CliAt, Within, SOpening, COpening, CP!Closing,
       CP!Creating, Gone
  <2>3. \A q \in Parties : cliPc[q] \notin CP!Closing
    BY <2>1, <2>2 DEF Parties, CP!Closing
  <2>4. /\ CP!Joined("client")
        /\ cliPc'["client"] \in {"o_open", "open"}
        /\ cliPc["client"] \in {"idle", "o_open"}
        /\ CP!ValueStays
    BY <1>1, <2>3, CountsFacts, ConstantsFacts, CP!OpenKept DEF Core
  <2>5. CP!Sound' /\ cliPc'["server"] = cliPc["server"]
    BY <2>4 DEF CP!Joined, CP!OthersStay, Parties
  <2>. QED
    BY <1>1, <2>2, <2>4, <2>5, SameStill, ValuesStay DEF CP!Closing
<1>2. ASSUME cAt = "open_s", VP!OpenGet("client") \/ VP!OpenStep("client"), CliSame
      PROVE  /\ CliStill
             /\ VP!Sound' /\ ServValues
             /\ servPc'["server"] = servPc["server"] /\ servPc["server"] # "x_unlock"
             /\ servPc'["client"] \in {"o_open", "open"}
  <2>1. servPc["client"] \in {"idle", "o_open"}
    BY <1>2 DEF Core, Coupled, ServAt, Within
  <2>2. servPc["server"] \notin VP!Closing
    BY <1>2, NobodyElse DEF Core, Coupled, ServAt, Within, SOpening, COpening, VP!Closing,
       CP!Creating, Gone
  <2>3. \A q \in Parties : servPc[q] \notin VP!Closing
    BY <2>1, <2>2 DEF Parties, VP!Closing
  <2>4. /\ VP!Joined("client")
        /\ servPc'["client"] \in {"o_open", "open"}
        /\ servPc["client"] \in {"idle", "o_open"}
        /\ VP!ValueStays
    BY <1>2, <2>3, CountsFacts, ConstantsFacts, VP!OpenKept DEF Core
  <2>5. VP!Sound' /\ servPc'["server"] = servPc["server"]
    BY <2>4 DEF VP!Joined, VP!OthersStay, Parties
  <2>. QED
    BY <1>2, <2>2, <2>4, <2>5, SameStill, ValuesStay DEF VP!Closing
<1>. QED
  BY <1>1, <1>2 DEF Opens, CliStill, ServStill

\* A step of sem_open keeps Core.
LEMMA OpensCore == ASSUME Core, Opens PROVE Core'
<1>1. /\ Unmoved /\ sAt' = sAt /\ Placed' /\ cAt \in COpening /\ cAt' \in COpening \cup {"ask"}
      /\ cAt' # "start"
  BY DEF Opens, Stays, Goes, Where, COpening
<1>2. CP!Sound' /\ VP!Sound' /\ CliValues /\ ServValues
  BY OpensEffect
<1>3. Coupled'
  <2>1. CASE /\ cAt = "open_c" /\ servPc' = servPc
             /\ cliPc'["server"] = cliPc["server"] /\ cliPc'["client"] \in {"o_open", "open"}
             /\ cAt' = IF cliPc'["client"] = "open" THEN "open_s" ELSE "open_c"
    BY <1>1, <2>1 DEF Core, Coupled, CliAt, ServAt, Within, Gone
  <2>2. CASE /\ cAt = "open_s" /\ cliPc' = cliPc
             /\ servPc'["server"] = servPc["server"] /\ servPc'["client"] \in {"o_open", "open"}
             /\ cAt' = IF servPc'["client"] = "open" THEN "ask" ELSE "open_s"
    BY <1>1, <2>2 DEF Core, Coupled, CliAt, ServAt, Within, Gone
  <2>. QED
    BY <2>1, <2>2, OpensEffect DEF CliStill, ServStill, Stays, Goes, Where
<1>4. Typed'
  BY <1>1 DEF Core, Typed, Unmoved, ClientLabels, Before
<1>5. Phases' /\ Counts'
  BY <1>1, <1>2 DEF Core, Phases, Counts, CliValues, ServValues, Unmoved, COpening, Before, CHolds,
     Ahead, Floor, Gone, SOpening
<1>. QED
  BY <1>2, <1>3, <1>4, <1>5 DEF Core

\* What a step of sem_close does, and what the other party is doing meanwhile.
CliCloses(x, y) ==
  /\ CP!Sound' /\ cliPc'[y] = cliPc[y]
  /\ \/ /\ CliValues /\ cliLive' = cliLive
        /\ \/ cliPc[x] = "open" /\ cliPc'[x] = "x_lock"
           \/ cliPc[x] = "x_lock" /\ cliPc'[x] = "x_getval" /\ cliPc[y] # "x_unlock"
           \/ cliPc[x] = "x_getval" /\ cliPc'[x] = "x_rm"
           \/ cliPc[x] = "x_getval" /\ cliPc'[x] = "x_unlock" /\ cliPc[y] \in CP!Using
           \/ cliPc[x] = "x_unlock" /\ cliPc'[x] = "idle"
     \/ /\ CliReset(0) /\ cliLive' = FALSE
        /\ cliPc[x] = "x_rm" /\ cliPc'[x] = "idle" /\ cliPc[y] = "idle"

ServCloses(x, y) ==
  /\ VP!Sound' /\ servPc'[y] = servPc[y]
  /\ \/ /\ ServValues /\ servLive' = servLive
        /\ \/ servPc[x] = "open" /\ servPc'[x] = "x_lock"
           \/ servPc[x] = "x_lock" /\ servPc'[x] = "x_getval" /\ servPc[y] # "x_unlock"
           \/ servPc[x] = "x_getval" /\ servPc'[x] = "x_rm"
           \/ servPc[x] = "x_getval" /\ servPc'[x] = "x_unlock" /\ servPc[y] \in VP!Using
           \/ servPc[x] = "x_unlock" /\ servPc'[x] = "idle"
     \/ /\ ServReset(0) /\ servLive' = FALSE
        /\ servPc[x] = "x_rm" /\ servPc'[x] = "idle" /\ servPc[y] = "idle"

\* The last sem_close removes the set, an earlier one leaves it to the other party.
LEMMA ClosesEffect ==
  ASSUME Core, NEW x \in Parties, NEW y \in Parties, x # y, Closes(x)
  PROVE  \/ /\ Where(x) = "close_c" /\ ServStill /\ CliCloses(x, y)
            /\ Stays(x, "close_s", cliPc'[x] = "idle")
         \/ /\ Where(x) = "close_s" /\ CliStill /\ ServCloses(x, y)
            /\ Stays(x, "exit", servPc'[x] = "idle")
<1>1. \A q \in Parties : q = x \/ q = y
  BY DEF Parties
<1>2. Where(x) \in Leaving => Where(y) \notin {"start", "create_c", "create_s", "open_c", "open_s"}
  BY NobodyElse DEF Where, Parties, SOpening, COpening, Core, Typed, OneLabels, MultiLabels,
     ClientLabels, Before, CHolds, SingleS, MessageS, BlockS, Leaving, Gone
<1>3. ASSUME Where(x) = "close_c", CP!CloseCall(x) \/ CP!CloseStep(x) \/ CP!SemRm(x)
      PROVE  CliCloses(x, y)
  <2>1. cliPc[y] \notin CP!Creating \cup {"o_open"}
    BY <1>2, <1>3 DEF Core, Coupled, CliAt, Within, Where, Parties, Leaving, CP!Closing,
       CP!Creating
  <2>2. \A q \in Parties : q # x => cliPc[q] \notin CP!Creating \cup {"o_open"}
    BY <1>1, <2>1
  <2>3. CASE CP!CloseCall(x) \/ CP!CloseStep(x)
    <3>1. /\ CP!Sound' /\ CP!OthersStay(x) /\ CP!ValueStays /\ UNCHANGED cliLive
          /\ \/ cliPc[x] = "open" /\ cliPc'[x] = "x_lock"
             \/ /\ cliPc[x] = "x_lock" /\ cliPc'[x] = "x_getval"
                /\ \A q \in Parties : cliPc[q] \notin CP!Locked
             \/ cliPc[x] = "x_getval" /\ cliPc'[x] = "x_rm"
             \/ cliPc[x] = "x_getval" /\ cliPc'[x] = "x_unlock" /\ CP!Stays(x)
             \/ cliPc[x] = "x_unlock" /\ cliPc'[x] = "idle"
      BY <2>2, <2>3, ConstantsFacts, CP!CloseKept DEF Core
    <3>2. cliPc'[y] = cliPc[y] /\ CliValues
      BY <3>1, ValuesStay DEF CP!OthersStay
    <3>3. CP!Stays(x) => cliPc[y] \in CP!Using
      BY <1>1 DEF CP!Stays
    <3>4. (\A q \in Parties : cliPc[q] \notin CP!Locked) => cliPc[y] # "x_unlock"
      BY DEF CP!Locked
    <3>. QED
      BY <3>1, <3>2, <3>3, <3>4 DEF CliCloses
  <2>4. CASE CP!SemRm(x)
    <3>1. CP!Sound' /\ CP!OthersStay(x) /\ CP!Removed(x)
      BY <2>4, ConstantsFacts, CP!RemoveKept DEF Core
    <3>2. CliReset(0)
      BY <3>1, ValuesStay DEF CP!Removed
    <3>. QED
      BY <3>1, <3>2 DEF CliCloses, CP!Removed, CP!OthersStay
  <2>. QED
    BY <1>3, <2>3, <2>4
<1>4. ASSUME Where(x) = "close_s", VP!CloseCall(x) \/ VP!CloseStep(x) \/ VP!SemRm(x)
      PROVE  ServCloses(x, y)
  <2>1. servPc[y] \notin VP!Creating \cup {"o_open"}
    BY <1>2, <1>4 DEF Core, Coupled, ServAt, Within, Where, Parties, Leaving, CP!Closing,
       CP!Creating, VP!Creating
  <2>2. \A q \in Parties : q # x => servPc[q] \notin VP!Creating \cup {"o_open"}
    BY <1>1, <2>1
  <2>3. CASE VP!CloseCall(x) \/ VP!CloseStep(x)
    <3>1. /\ VP!Sound' /\ VP!OthersStay(x) /\ VP!ValueStays /\ UNCHANGED servLive
          /\ \/ servPc[x] = "open" /\ servPc'[x] = "x_lock"
             \/ /\ servPc[x] = "x_lock" /\ servPc'[x] = "x_getval"
                /\ \A q \in Parties : servPc[q] \notin VP!Locked
             \/ servPc[x] = "x_getval" /\ servPc'[x] = "x_rm"
             \/ servPc[x] = "x_getval" /\ servPc'[x] = "x_unlock" /\ VP!Stays(x)
             \/ servPc[x] = "x_unlock" /\ servPc'[x] = "idle"
      BY <2>2, <2>3, ConstantsFacts, VP!CloseKept DEF Core
    <3>2. servPc'[y] = servPc[y] /\ ServValues
      BY <3>1, ValuesStay DEF VP!OthersStay
    <3>3. VP!Stays(x) => servPc[y] \in VP!Using
      BY <1>1 DEF VP!Stays
    <3>4. (\A q \in Parties : servPc[q] \notin VP!Locked) => servPc[y] # "x_unlock"
      BY DEF VP!Locked
    <3>. QED
      BY <3>1, <3>2, <3>3, <3>4 DEF ServCloses
  <2>4. CASE VP!SemRm(x)
    <3>1. VP!Sound' /\ VP!OthersStay(x) /\ VP!Removed(x)
      BY <2>4, ConstantsFacts, VP!RemoveKept DEF Core
    <3>2. ServReset(0)
      BY <3>1, ValuesStay DEF VP!Removed
    <3>. QED
      BY <3>1, <3>2 DEF ServCloses, VP!Removed, VP!OthersStay
  <2>. QED
    BY <1>4, <2>3, <2>4
<1>5. (CliSame => CliStill) /\ (ServSame => ServStill)
  BY SameStill
<1>. QED
  BY <1>3, <1>4, <1>5 DEF Closes

ClientCloses ==
  /\ Unmoved /\ Placed' /\ shm' = shm
  /\ cAt \in {"close_c", "close_s"} /\ cAt' \in Leaving /\ sAt' = sAt /\ sAt \notin SOpening \cup {"serve"}
  /\ \/ /\ cAt = "close_c" /\ ServStill /\ CliCloses("client", "server")
        /\ cAt' = IF cliPc'["client"] = "idle" THEN "close_s" ELSE "close_c"
     \/ /\ cAt = "close_s" /\ CliStill /\ ServCloses("client", "server")
        /\ cAt' = IF servPc'["client"] = "idle" THEN "exit" ELSE "close_s"
  /\ \/ CliValues /\ ServValues
     \/ CliReset(0) /\ ServValues
     \/ CliValues /\ ServReset(0)

ServerCloses ==
  /\ Unmoved /\ Placed' /\ shm' = shm
  /\ sAt \in {"close_c", "close_s"} /\ sAt' \in Leaving /\ cAt' = cAt /\ cAt \notin COpening \cup Before
  /\ \/ /\ sAt = "close_c" /\ ServStill /\ CliCloses("server", "client")
        /\ sAt' = IF cliPc'["server"] = "idle" THEN "close_s" ELSE "close_c"
     \/ /\ sAt = "close_s" /\ CliStill /\ ServCloses("server", "client")
        /\ sAt' = IF servPc'["server"] = "idle" THEN "exit" ELSE "close_s"
  /\ \/ CliValues /\ ServValues
     \/ CliReset(0) /\ ServValues /\ cAt \in {"close_s", "exit"} \cup Gone
     \/ CliValues /\ ServReset(0) /\ cAt \in {"exit"} \cup Gone

\* What that means for the client.
LEMMA ClientClosesFact == ASSUME Core, Closes("client") PROVE ClientCloses
<1>1. /\ Unmoved /\ Placed' /\ shm' = shm /\ cAt \in {"close_c", "close_s"}
      /\ cAt' \in Leaving /\ sAt' = sAt
  BY DEF Closes, Stays, Goes, Where, Leaving
<1>2. sAt \notin SOpening \cup {"serve"}
  BY <1>1 DEF Core, Phases, SOpening, COpening, Before
<1>3. \/ /\ cAt = "close_c" /\ ServStill /\ CliCloses("client", "server")
         /\ cAt' = IF cliPc'["client"] = "idle" THEN "close_s" ELSE "close_c"
      \/ /\ cAt = "close_s" /\ CliStill /\ ServCloses("client", "server")
         /\ cAt' = IF servPc'["client"] = "idle" THEN "exit" ELSE "close_s"
  <2>1. "client" \in Parties /\ "server" \in Parties
    BY DEF Parties
  <2>2. \/ /\ Where("client") = "close_c" /\ ServStill /\ CliCloses("client", "server")
           /\ Stays("client", "close_s", cliPc'["client"] = "idle")
        \/ /\ Where("client") = "close_s" /\ CliStill /\ ServCloses("client", "server")
           /\ Stays("client", "exit", servPc'["client"] = "idle")
    BY <2>1, ClosesEffect
  <2>. QED
    BY <2>2 DEF Stays, Goes, Where
<1>4. \/ CliValues /\ ServValues
      \/ CliReset(0) /\ ServValues
      \/ CliValues /\ ServReset(0)
  BY <1>2, <1>3 DEF CliStill, ServStill, CliCloses, ServCloses, Core, Coupled, CliAt, ServAt,
     Within,
     Typed, ClientLabels, COpening, CHolds, Gone, Leaving, CP!Closing
<1>. QED
  BY <1>1, <1>2, <1>3, <1>4 DEF ClientCloses

\* What that means for the server.
LEMMA ServerClosesFact == ASSUME Core, Closes("server") PROVE ServerCloses
<1>1. /\ Unmoved /\ Placed' /\ shm' = shm /\ sAt \in {"close_c", "close_s"}
      /\ sAt' \in Leaving /\ cAt' = cAt
  BY DEF Closes, Stays, Goes, Where, Leaving
<1>2. cAt \notin COpening \cup Before
  BY <1>1 DEF Core, Phases, SOpening, COpening, Before
<1>3. \/ /\ sAt = "close_c" /\ ServStill /\ CliCloses("server", "client")
         /\ sAt' = IF cliPc'["server"] = "idle" THEN "close_s" ELSE "close_c"
      \/ /\ sAt = "close_s" /\ CliStill /\ ServCloses("server", "client")
         /\ sAt' = IF servPc'["server"] = "idle" THEN "exit" ELSE "close_s"
  <2>1. "server" \in Parties /\ "client" \in Parties
    BY DEF Parties
  <2>2. \/ /\ Where("server") = "close_c" /\ ServStill /\ CliCloses("server", "client")
           /\ Stays("server", "close_s", cliPc'["server"] = "idle")
        \/ /\ Where("server") = "close_s" /\ CliStill /\ ServCloses("server", "client")
           /\ Stays("server", "exit", servPc'["server"] = "idle")
    BY <2>1, ClosesEffect
  <2>. QED
    BY <2>2 DEF Stays, Goes, Where
<1>4. \/ CliValues /\ ServValues
      \/ CliReset(0) /\ ServValues /\ cAt \in {"close_s", "exit"} \cup Gone
      \/ CliValues /\ ServReset(0) /\ cAt \in {"exit"} \cup Gone
  BY <1>2, <1>3 DEF CliStill, ServStill, CliCloses, ServCloses, Core, Coupled, CliAt, ServAt,
     Within,
     Typed, ClientLabels, COpening, CHolds, Gone, Leaving, CP!Closing
<1>. QED
  BY <1>1, <1>2, <1>3, <1>4 DEF ServerCloses

\* A step of sem_close keeps Core: the client.
LEMMA ClientClosesCore == ASSUME Core, ClientCloses PROVE Core'
<1>1. /\ cliV \in Nat /\ servV \in Nat /\ taken \in Nat /\ given \in Nat /\ sent \in Nat
      /\ got \in Int /\ shm_offset \in 0 .. Len(Blocks) /\ Len(Blocks) \in Nat
      /\ NBUFF \in Nat /\ i["server"] \in Nat
  BY CountsFacts DEF Core, Typed
<1>2. CP!Sound' /\ VP!Sound'
  BY DEF ClientCloses, CliStill, ServStill, CliCloses, ServCloses
<1>3. Coupled'
  BY DEF ClientCloses, Core, Coupled, CliStill, ServStill, CliCloses, ServCloses, CliAt, ServAt,
     Within, Gone, CP!Closing
<1>4. Typed'
  BY DEF ClientCloses, Core, Typed, Unmoved, ClientLabels, OneLabels, MultiLabels
<1>5. Phases'
  BY DEF ClientCloses, Core, Phases, Leaving, COpening, SOpening, Before
<1>6. Counts'
  <2>1. /\ shm_offset' = shm_offset /\ i' = i
        /\ sAt' \in Leaving => Ahead' = 2 /\ Floor' = -NBUFF
        /\ sAt' = sAt => Ahead' = Ahead /\ Floor' = Floor
        /\ Ahead \in Int /\ Ahead =< 2 /\ Floor \in Int /\ Floor >= -NBUFF /\ Floor =< 0
    BY <1>1 DEF ClientCloses, Core, Typed, Parties, Unmoved, Ahead, Floor, Leaving, SOpening
  <2>2. /\ cAt \in {"close_c", "close_s"} /\ cAt' \in Leaving /\ sAt' = sAt
        /\ sAt \notin SOpening \cup {"serve"}
    BY DEF ClientCloses
  <2>3. CASE CliValues /\ ServValues
    BY <1>1, <2>1, <2>2, <2>3 DEF Core, Counts, CliValues, ServValues, COpening, SOpening, Before,
       CHolds, Leaving, Gone
  <2>4. CASE CliReset(0) /\ ServValues
    BY <1>1, <2>1, <2>2, <2>4 DEF Core, Counts, CliReset, ServValues, COpening, SOpening, Before,
       CHolds, Leaving, Gone
  <2>5. CASE CliValues /\ ServReset(0)
    BY <1>1, <2>1, <2>2, <2>5 DEF Core, Counts, CliValues, ServReset, COpening, SOpening, Before,
       CHolds, Leaving, Gone
  <2>. QED
    BY <2>3, <2>4, <2>5 DEF ClientCloses
<1>. QED
  BY <1>2, <1>3, <1>4, <1>5, <1>6 DEF Core

\* A step of sem_close keeps Core: the server.
LEMMA ServerClosesCore == ASSUME Core, ServerCloses PROVE Core'
<1>1. /\ cliV \in Nat /\ servV \in Nat /\ taken \in Nat /\ given \in Nat /\ sent \in Nat
      /\ got \in Int /\ shm_offset \in 0 .. Len(Blocks) /\ Len(Blocks) \in Nat
      /\ NBUFF \in Nat /\ i["server"] \in Nat
  BY CountsFacts DEF Core, Typed
<1>2. CP!Sound' /\ VP!Sound'
  BY DEF ServerCloses, CliStill, ServStill, CliCloses, ServCloses
<1>3. Coupled'
  BY DEF ServerCloses, Core, Coupled, CliStill, ServStill, CliCloses, ServCloses, CliAt, ServAt,
     Within, Gone, CP!Closing
<1>4. Typed'
  BY DEF ServerCloses, Core, Typed, Unmoved, ClientLabels, OneLabels, MultiLabels
<1>5. Phases'
  BY DEF ServerCloses, Core, Phases, Leaving, COpening, SOpening, Before
<1>6. Counts'
  <2>1. /\ shm_offset' = shm_offset /\ i' = i
        /\ sAt' \in Leaving => Ahead' = 2 /\ Floor' = -NBUFF
        /\ sAt' = sAt => Ahead' = Ahead /\ Floor' = Floor
        /\ Ahead \in Int /\ Ahead =< 2 /\ Floor \in Int /\ Floor >= -NBUFF /\ Floor =< 0
    BY <1>1 DEF ServerCloses, Core, Typed, Parties, Unmoved, Ahead, Floor, Leaving, SOpening
  <2>2. /\ sAt \in {"close_c", "close_s"} /\ sAt' \in Leaving /\ cAt' = cAt
        /\ cAt \notin COpening \cup Before
    BY DEF ServerCloses
  <2>0. /\ sAt \notin Gone /\ sAt' \notin Gone \cup SOpening \cup {"serve", "open"}
        /\ Ahead' = 2 /\ Floor' = -NBUFF
    BY <2>1, <2>2 DEF Leaving, Gone, SOpening
  <2>3. CASE CliValues /\ ServValues
    BY <1>1, <2>0, <2>1, <2>2, <2>3 DEF Core, Counts, CliValues, ServValues
  <2>4. CASE CliReset(0) /\ ServValues /\ cAt \in {"close_s", "exit"} \cup Gone
    <3>1. cAt \notin {"name", "name_signal", "wait"} \cup CHolds
      BY <2>4 DEF CHolds, Gone
    <3>2. /\ cliV' = 0 /\ taken' = 0 /\ sent' = 0
          /\ servV' = servV /\ given' = given /\ got' = got
      BY <2>4 DEF CliReset, ServValues
    <3>. QED
      BY <1>1, <2>0, <2>1, <2>2, <3>1, <3>2 DEF Core, Counts
  <2>5. CASE CliValues /\ ServReset(0) /\ cAt \in {"exit"} \cup Gone
    <3>1. cAt \notin {"name", "name_signal", "wait"} \cup CHolds
      BY <2>5 DEF CHolds, Gone
    <3>2. /\ cliV' = cliV /\ taken' = taken /\ sent' = sent
          /\ servV' = 0 /\ given' = 0 /\ got' = 0
      BY <2>5 DEF CliValues, ServReset
    <3>. QED
      BY <1>1, <2>0, <2>1, <2>2, <3>1, <3>2 DEF Core, Counts
  <2>. QED
    BY <2>3, <2>4, <2>5 DEF ServerCloses
<1>. QED
  BY <1>2, <1>3, <1>4, <1>5, <1>6 DEF Core

\* A step of sem_close keeps Core.
LEMMA ClosesCore ==
  ASSUME Core, NEW x \in Parties, Closes(x)
  PROVE  Core'
BY ClientClosesFact, ServerClosesFact, ClientClosesCore, ServerClosesCore DEF Parties

\* What the undo leaves of a value to which it adds up to old.
Undone(new, old) == new \in Nat /\ (new =< old \/ new = 0)

\* An exit gives back what the party took, and takes what it gave, as far as there is.
LEMMA LeavesEffect ==
  ASSUME Core, NEW x \in Parties, NEW y \in Parties, x # y, Leaves(x)
  PROVE  /\ CP!Sound' /\ cliPc'[x] = "idle" /\ cliPc'[y] = cliPc[y] /\ cliLive' = cliLive
         /\ VP!Sound' /\ servPc'[x] = "idle" /\ servPc'[y] = servPc[y] /\ servLive' = servLive
         /\ Undone(cliVal'[0], cliVal[0] + cliAdj[x][0])
         /\ Undone(servVal'[0], servVal[0] + servAdj[x][0])
         /\ cliAdj'[x][0] = 0 /\ cliAdj'[y] = cliAdj[y]
         /\ servAdj'[x][0] = 0 /\ servAdj'[y] = servAdj[y]
<1>1. /\ cliVal[0] \in Nat /\ servVal[0] \in Nat /\ SEMVMX \in Nat
      /\ cliAdj[x][0] \in Int /\ servAdj[x][0] \in Int
  <2>1. cliVal[0] \in Nat /\ servVal[0] \in Nat /\ SEMVMX \in Nat
    BY CountsFacts, FileProgramsAssumption DEF cliV, servV
  <2>2. /\ taken \in Int /\ given \in Int /\ sent \in Int /\ got \in Int
        /\ cliAdj["client"][0] = taken /\ servAdj["client"][0] = -given
        /\ cliAdj["server"][0] = -sent /\ servAdj["server"][0] = got
    BY CountsFacts
  <2>3. x = "client" \/ x = "server"
    BY DEF Parties
  <2>. QED
    BY <2>1, <2>2, <2>3
<1>2. /\ CP!Sound' /\ CP!OthersStay(x) /\ UNCHANGED cliLive
      /\ cliPc'[x] = "idle"
      /\ cliVal'[0] = CP!Clamp(cliVal[0] + cliAdj[x][0])
      /\ cliAdj'[x][0] = 0
      /\ \A q \in Parties : q # x => cliAdj'[q] = cliAdj[q]
  BY ConstantsFacts, CP!ExitKept DEF Core, Leaves
<1>3. /\ VP!Sound' /\ VP!OthersStay(x) /\ UNCHANGED servLive
      /\ servPc'[x] = "idle"
      /\ servVal'[0] = VP!Clamp(servVal[0] + servAdj[x][0])
      /\ servAdj'[x][0] = 0
      /\ \A q \in Parties : q # x => servAdj'[q] = servAdj[q]
  BY ConstantsFacts, VP!ExitKept DEF Core, Leaves
<1>4. Undone(cliVal'[0], cliVal[0] + cliAdj[x][0])
  BY <1>1, <1>2 DEF CP!Clamp, Undone
<1>5. Undone(servVal'[0], servVal[0] + servAdj[x][0])
  BY <1>1, <1>3 DEF VP!Clamp, Undone
<1>. QED
  BY <1>2, <1>3, <1>4, <1>5 DEF CP!OthersStay, VP!OthersStay

\* An exit or a death keeps Core.
LEMMA LeavesCore ==
  ASSUME Core, NEW x \in Parties, Leaves(x)
  PROVE  Core'
<1>1. /\ cliV \in Nat /\ servV \in Nat /\ taken \in Nat /\ given \in Nat /\ sent \in Nat
      /\ got \in Int /\ shm_offset \in 0 .. Len(Blocks) /\ Len(Blocks) \in Nat
      /\ NBUFF \in Nat /\ i["server"] \in 0 .. NBUFF - 1
      /\ cliVal[0] = cliV /\ servVal[0] = servV
      /\ cliAdj["client"][0] = taken /\ servAdj["client"][0] = -given
      /\ cliAdj["server"][0] = -sent /\ servAdj["server"][0] = got
      /\ "client" \in Parties /\ "server" \in Parties
  BY CountsFacts DEF Core, Typed, cliV, servV
<1>2. CASE x = "client"
  <2>1. /\ Unmoved /\ Placed' /\ sAt' = sAt
        /\ \/ cAt = "exit" /\ cAt' = "done"
           \/ cAt' = "dead"
           \/ cAt \in {"open_c", "open_s"} /\ cAt' = "start"
    BY <1>2 DEF Leaves, Goes, Where
  <2>2. /\ CP!Sound' /\ cliPc'["client"] = "idle" /\ cliPc'["server"] = cliPc["server"]
        /\ VP!Sound' /\ servPc'["client"] = "idle" /\ servPc'["server"] = servPc["server"]
        /\ Undone(cliVal'[0], cliVal[0] + cliAdj["client"][0])
        /\ Undone(servVal'[0], servVal[0] + servAdj["client"][0])
        /\ cliAdj'["client"][0] = 0 /\ cliAdj'["server"] = cliAdj["server"]
        /\ servAdj'["client"][0] = 0 /\ servAdj'["server"] = servAdj["server"]
    BY <1>1, <1>2, LeavesEffect
  <2>3. /\ Undone(cliV', cliV + taken) /\ taken' = 0 /\ sent' = sent
        /\ Undone(servV', servV - given) /\ given' = 0 /\ got' = got
    <3>1. /\ servVal[0] + servAdj["client"][0] = servV - given
          /\ cliVal[0] + cliAdj["client"][0] = cliV + taken
      BY <1>1
    <3>2. Undone(cliV', cliV + taken) /\ Undone(servV', servV - given)
      BY <2>2, <3>1 DEF cliV, servV
    <3>3. cliAdj'["server"][0] = -sent /\ servAdj'["server"][0] = got
      BY <1>1, <2>2
    <3>4. /\ taken' = cliAdj'["client"][0] /\ given' = 0 - servAdj'["client"][0]
          /\ sent' = 0 - cliAdj'["server"][0] /\ got' = servAdj'["server"][0]
      BY DEF taken, given, sent, got
    <3>5. taken' = 0 /\ sent' = sent /\ given' = 0 /\ got' = got
      <4>1. cliAdj'["client"][0] = 0 /\ servAdj'["client"][0] = 0
        BY <2>2
      <4>2. taken \in Int /\ given \in Int /\ sent \in Int /\ got \in Int
        BY <1>1
      <4>. QED
        BY <3>3, <3>4, <4>1, <4>2
    <3>. QED
      BY <3>2, <3>5
  <2>4. Coupled'
    BY <2>1, <2>2 DEF Core, Coupled, CliAt, ServAt, Within, Gone
  <2>5. Typed'
    BY <2>1 DEF Core, Typed, Unmoved, ClientLabels, COpening, Gone
  <2>6. Phases'
    <3>1. CASE cAt' \in {"done", "dead"}
      BY <2>1, <3>1 DEF Core, Phases, COpening, SOpening, Before
    <3>2. CASE cAt' = "start"
      <4>1. cAt \in {"open_c", "open_s"}
        BY <2>1, <3>2
      <4>2. taken = 0 /\ given = 0
        BY <4>1 DEF Core, Counts, COpening
      <4>3. cliV' \in Nat /\ servV' \in Nat /\ cliV' =< cliV /\ servV' =< servV
        BY <1>1, <2>3, <4>2 DEF Undone
      <4>. QED
        BY <1>1, <2>1, <3>2, <4>1, <4>3 DEF Core, Phases, COpening, Before
    <3>. QED
      BY <2>1, <3>1, <3>2
  <2>7. Counts'
    <3>1. Ahead' = Ahead /\ Floor' = Floor /\ shm_offset' = shm_offset /\ i' = i
      BY <2>1 DEF Unmoved, Ahead, Floor
    <3>2. /\ cliV' + taken' =< 1 + (IF sAt \in Gone THEN Len(Blocks) + 2 ELSE sent)
      <4>1. cliV + taken =< 1 + (IF sAt \in Gone THEN Len(Blocks) + 2 ELSE sent)
        BY DEF Core, Counts
      <4>2. cliV' \in Nat /\ cliV' =< cliV + taken /\ taken' = 0
        BY <1>1, <2>3 DEF Undone
      <4>. QED
        BY <1>1, <2>1, <2>3, <4>1, <4>2
    <3>3. servV' + got' =< Len(Blocks) + 3
      <4>1. servV + got =< Len(Blocks) + 3
        BY <1>1 DEF Core, Counts
      <4>2. servV' \in Nat /\ (servV' =< servV - given \/ servV' = 0) /\ got' = got
        BY <2>3 DEF Undone
      <4>3. got =< Len(Blocks) + 3
        BY <1>1, <4>1
      <4>. QED
        BY <1>1, <4>1, <4>2, <4>3
    <3>4. cAt' = "start" => servV' + got' =< given'
      <4>1. CASE cAt \in {"open_c", "open_s"}
        <5>1. given = 0 /\ servV + got =< given
          BY <4>1 DEF Core, Counts, COpening, Gone
        <5>2. servV' \in Nat /\ (servV' =< servV \/ servV' = 0)
          BY <1>1, <2>3, <5>1 DEF Undone
        <5>3. got' = got /\ given' = 0
          BY <2>3
        <5>4. servV + got =< 0 /\ servV \in Nat /\ got \in Int
          BY <1>1, <5>1
        <5>5. \A n, m \in Nat, g \in Int : (n =< m \/ n = 0) /\ m + g =< 0 => n + g =< 0
          OBVIOUS
        <5>6. servV' + got =< 0
          BY <5>2, <5>4, <5>5, Zenon
        <5>. QED
          BY <5>3, <5>6
      <4>. QED
        BY <2>1, <4>1
    <3>. QED
      <4>1. taken' = 0 /\ given' = 0 /\ sent' = sent /\ got' = got
        BY <2>3
      <4>2. /\ cAt' \notin {"name", "name_signal"} \cup CHolds \cup {"wait"}
            /\ cAt' \notin Gone => cAt' = "start"
        BY <2>1 DEF CHolds, Gone
      <4>. QED
        BY <1>1, <2>1, <3>1, <3>2, <3>3, <3>4, <4>1, <4>2 DEF Core, Counts
  <2>. QED
    BY <2>2, <2>4, <2>5, <2>6, <2>7 DEF Core
<1>3. CASE x = "server"
  <2>1. /\ Unmoved /\ Placed' /\ cAt' = cAt
        /\ \/ sAt = "exit" /\ sAt' = "done"
           \/ sAt' = "dead"
    BY <1>3 DEF Leaves, Goes, Where
  <2>2. /\ CP!Sound' /\ cliPc'["server"] = "idle" /\ cliPc'["client"] = cliPc["client"]
        /\ VP!Sound' /\ servPc'["server"] = "idle" /\ servPc'["client"] = servPc["client"]
        /\ Undone(cliVal'[0], cliVal[0] + cliAdj["server"][0])
        /\ Undone(servVal'[0], servVal[0] + servAdj["server"][0])
        /\ cliAdj'["server"][0] = 0 /\ cliAdj'["client"] = cliAdj["client"]
        /\ servAdj'["server"][0] = 0 /\ servAdj'["client"] = servAdj["client"]
    BY <1>1, <1>3, LeavesEffect
  <2>3. /\ Undone(cliV', cliV - sent) /\ taken' = taken /\ sent' = 0
        /\ Undone(servV', servV + got) /\ given' = given /\ got' = 0
    <3>1. /\ cliVal[0] + cliAdj["server"][0] = cliV - sent
          /\ servVal[0] + servAdj["server"][0] = servV + got
      BY <1>1
    <3>2. Undone(cliV', cliV - sent) /\ Undone(servV', servV + got)
      BY <2>2, <3>1 DEF cliV, servV
    <3>3. cliAdj'["client"][0] = taken /\ servAdj'["client"][0] = -given
      BY <1>1, <2>2
    <3>4. /\ taken' = cliAdj'["client"][0] /\ given' = 0 - servAdj'["client"][0]
          /\ sent' = 0 - cliAdj'["server"][0] /\ got' = servAdj'["server"][0]
      BY DEF taken, given, sent, got
    <3>5. taken' = taken /\ sent' = 0 /\ given' = given /\ got' = 0
      <4>1. cliAdj'["server"][0] = 0 /\ servAdj'["server"][0] = 0
        BY <2>2
      <4>2. taken \in Int /\ given \in Int /\ sent \in Int /\ got \in Int
        BY <1>1
      <4>. QED
        BY <3>3, <3>4, <4>1, <4>2
    <3>. QED
      BY <3>2, <3>5
  <2>4. Coupled'
    BY <2>1, <2>2 DEF Core, Coupled, CliAt, ServAt, Within, Gone
  <2>5. Typed'
    BY <2>1 DEF Core, Typed, Unmoved, OneLabels, MultiLabels, Gone
  <2>6. Phases'
    BY <2>1 DEF Core, Phases, COpening, SOpening, Before
  <2>7. Counts'
    <3>1. /\ Ahead' = 2 /\ Floor' = -NBUFF /\ Ahead \in Int /\ Ahead =< 2
          /\ shm_offset' = shm_offset
      BY <2>1 DEF Ahead, Floor, Gone, Leaving, SOpening, Unmoved
    <3>2. cliV + taken =< 1 + Len(Blocks) + 2 /\ taken =< Len(Blocks) + 3
      BY <1>1, <3>1 DEF Core, Counts
    <3>3. cliV' + taken' =< 1 + (Len(Blocks) + 2)
      <4>1. cliV' \in Nat /\ (cliV' =< cliV - sent \/ cliV' = 0) /\ taken' = taken
        BY <2>3 DEF Undone
      <4>. QED
        BY <1>1, <3>2, <4>1
    <3>4. servV' + got' =< (IF cAt \in Gone THEN Len(Blocks) + 3 ELSE given)
      <4>1. servV + got =< (IF cAt \in Gone THEN Len(Blocks) + 3 ELSE given)
        BY DEF Core, Counts
      <4>2. (IF cAt \in Gone THEN Len(Blocks) + 3 ELSE given) \in Nat
        BY <1>1
      <4>3. servV' \in Nat /\ (servV' =< servV + got \/ servV' = 0) /\ got' = 0
        BY <2>3 DEF Undone
      <4>. QED
        BY <1>1, <4>1, <4>2, <4>3
    <3>5. sAt' \in Gone /\ sAt' \notin SOpening \cup {"serve", "open"}
      BY <2>1 DEF Gone, SOpening
    <3>6. taken' = taken /\ sent' = 0 /\ given' = given /\ got' = 0
      BY <2>3
    <3>. QED
      BY <1>1, <2>1, <3>1, <3>2, <3>3, <3>4, <3>5, <3>6 DEF Core, Counts
  <2>. QED
    BY <2>2, <2>4, <2>5, <2>6, <2>7 DEF Core
<1>. QED
  BY <1>2, <1>3 DEF Parties

\* Every step of the two programs keeps Core.
LEMMA CoreKept == ASSUME Fits, Core, Moves PROVE Core'
<1>1. CASE Programs
  <2>1. PICK dc, ds \in {-1, 0, 1} :
           \/ ClientEdge(dc, ds) /\ Calls("client", dc, ds)
           \/ (OneEdge(dc, ds) \/ MultiEdge(dc, ds)) /\ Calls("server", dc, ds)
    BY <1>1 DEF Programs
  <2>2. \/ ClientEdge(dc, ds) /\ Effect("client", dc, ds)
        \/ (OneEdge(dc, ds) \/ MultiEdge(dc, ds)) /\ Effect("server", dc, ds)
    BY <2>1, Ranges
  <2>. QED
    BY <2>2, ClientCore, ServerCore
<1>. QED
  BY <1>1, AttachesCore, CreatesCore, OpensCore, ClosesCore, LeavesCore DEF Moves

-----------------------------------------------------------------------------
(* The tokens *)

\* What a step of main() means to the tokens.
ServerBegins ==
  /\ Unmoved /\ cAt' = cAt /\ sAt \in SOpening /\ sAt' \in SOpening \cup {"serve"}
  /\ cAt \in COpening \cup Before \cup {"wait", "dead"}
  /\ (cliV' = cliV /\ servV' = servV) \/ cAt \in COpening \cup {"dead"}

ClientBegins ==
  /\ Unmoved /\ sAt' = sAt /\ cAt \in COpening /\ cAt' \in COpening \cup {"ask"}
  /\ sAt \in SOpening \cup {"serve", "dead"}

ClientLeaves ==
  /\ Unmoved /\ sAt' = sAt
  /\ cAt' \in Gone \/ (cAt' = "start" /\ cAt \in COpening /\ sAt \in SOpening \cup {"serve", "dead"})

ServerLeaves == Unmoved /\ cAt' = cAt /\ sAt' \in Gone

InMain == ServerBegins \/ ClientBegins \/ ClientCloses \/ ServerCloses \/ ClientLeaves
          \/ ServerLeaves

InProgram(dc, ds) ==
  \/ ClientEdge(dc, ds) /\ Effect("client", dc, ds)
  \/ (OneEdge(dc, ds) \/ MultiEdge(dc, ds)) /\ Effect("server", dc, ds)

\* A step is one of main() or one of client() or server().
LEMMA MovesSplit == ASSUME Fits, Core, Moves
  PROVE  InMain \/ \E dc, ds \in {-1, 0, 1} : InProgram(dc, ds)
<1>1. ASSUME Programs PROVE \E dc, ds \in {-1, 0, 1} : InProgram(dc, ds)
  <2>1. PICK dc, ds \in {-1, 0, 1} :
           \/ ClientEdge(dc, ds) /\ Calls("client", dc, ds)
           \/ (OneEdge(dc, ds) \/ MultiEdge(dc, ds)) /\ Calls("server", dc, ds)
    BY <1>1 DEF Programs
  <2>2. InProgram(dc, ds)
    BY <2>1, Ranges DEF InProgram
  <2>. QED
    BY <2>2
<1>2. ASSUME Attaches PROVE ServerBegins
  <2>1. CliStill /\ ServStill
    BY <1>2, SameStill DEF Attaches
  <2>2. /\ sAt = "start" /\ sAt' = "create_c" /\ cAt' = cAt /\ Unmoved
    BY <1>2 DEF Attaches, Goes
  <2>. QED
    BY <2>1, <2>2, NobodyElse DEF ServerBegins, SOpening, CliStill, ServStill, CliValues,
       ServValues
<1>3. ASSUME Creates PROVE ServerBegins
  <2>1. /\ Unmoved /\ cAt' = cAt /\ sAt' \in SOpening \cup {"serve"} /\ sAt \in SOpening
    BY <1>3 DEF Creates, Stays, Goes, Where, SOpening
  <2>2. cAt \in COpening \cup Before \cup {"wait", "dead"}
    BY <2>1, NobodyElse
  <2>3. (cliV' = cliV /\ servV' = servV) \/ cAt \in COpening \cup {"dead"}
    BY <1>3, CreatesEffect DEF CliStill, ServStill, CliValues, ServValues, COpening
  <2>. QED
    BY <2>1, <2>2, <2>3 DEF ServerBegins
<1>4. ASSUME Opens PROVE ClientBegins
  <2>1. /\ Unmoved /\ sAt' = sAt /\ cAt \in COpening /\ cAt' \in COpening \cup {"ask"}
    BY <1>4 DEF Opens, Stays, Goes, Where, COpening
  <2>. QED
    BY <2>1, NobodyElse DEF ClientBegins
<1>5. ASSUME NEW x \in Parties, Closes(x) PROVE ClientCloses \/ ServerCloses
  BY <1>5, ClientClosesFact, ServerClosesFact DEF Parties
<1>6. ASSUME NEW x \in Parties, Leaves(x) PROVE ClientLeaves \/ ServerLeaves
  BY <1>6, NobodyElse DEF Parties, Leaves, Goes, Where, ClientLeaves, ServerLeaves, Gone, COpening
<1>. QED
  BY <1>1, <1>2, <1>3, <1>4, <1>5, <1>6 DEF Moves, InMain

\* main() keeps the token of 10_shared_memory.
LEMMA TurnsInMain == ASSUME Core, Turns, InMain PROVE Turns'
<1>1. cliV \in Nat /\ servV \in Nat
  BY CountsFacts
<1>. USE DEF Turns, Alive, Unmoved, SOpening, COpening, Before, Gone, Leaving, SingleC, SingleS
<1>2. CASE ServerBegins
  BY <1>1, <1>2 DEF ServerBegins
<1>3. CASE ClientBegins \/ ClientLeaves \/ ServerLeaves
  BY <1>3 DEF ClientBegins, ClientLeaves, ServerLeaves
<1>4. CASE ClientCloses
  BY <1>1, <1>4 DEF ClientCloses, ServValues, ServReset
<1>5. CASE ServerCloses
  BY <1>1, <1>5 DEF ServerCloses, CliValues, ServValues, CliReset, ServReset
<1>. QED
  BY <1>2, <1>3, <1>4, <1>5 DEF InMain

\* So does client(),
LEMMA TurnsClient ==
  ASSUME Core, Turns, NEW dc \in {-1, 0, 1}, NEW ds \in {-1, 0, 1},
         ClientEdge(dc, ds), Effect("client", dc, ds)
  PROVE  Turns'
<1>1. /\ cliV \in Nat /\ servV \in Nat
      /\ cliV' = cliV + dc /\ servV' = servV + ds /\ cliV + dc >= 0 /\ servV + ds >= 0
  BY CountsFacts, EffectNumbers DEF ClientNumbers
<1>2. /\ Phases /\ sAt' = sAt /\ shm_program' = shm_program
      /\ shm_program = "10_shared_memory" => sAt \in OneLabels
  BY DEF Core, Typed, ClientEdge, Edge, Where, Goes
<1>. USE DEF Turns, Alive, Num, SOpening, COpening, Before, Gone, Leaving, SingleC, SingleS, CHolds
<1>3. CASE dc = -1 /\ ds = 0 /\ cAt = "ask" /\ cAt' = "name"
  BY <1>1, <1>2, <1>3 DEF Phases
<1>4. CASE dc = -1 /\ ds = 0 /\ cAt = "wait" /\ cAt' = "look"
  BY <1>1, <1>2, <1>4
<1>5. CASE dc = 0 /\ ds = 1 /\ cAt \in {"name_signal", "signal"} /\ cAt' = "wait"
  BY <1>1, <1>2, <1>5
<1>6. CASE dc = 0 /\ ds = 0 /\ cAt = "look" /\ cAt' = "detach"
  BY <1>1, <1>2, <1>6 DEF Phases, OneLabels
<1>7. CASE /\ dc = 0 /\ ds = 0
           /\ \/ cAt = "start" /\ cAt' = "open_c"
              \/ cAt = "name" /\ cAt' = "name_signal"
              \/ cAt = "look" /\ cAt' = "print"
              \/ cAt = "print" /\ cAt' = "signal"
              \/ cAt = "detach" /\ cAt' = "close_c"
  BY <1>1, <1>2, <1>7
<1>. QED
  BY <1>3, <1>4, <1>5, <1>6, <1>7 DEF ClientEdge, Edge, Where, Goes

\* and so does server().
LEMMA TurnsServer ==
  ASSUME Core, Turns, NEW dc \in {-1, 0, 1}, NEW ds \in {-1, 0, 1},
         OneEdge(dc, ds) \/ MultiEdge(dc, ds), Effect("server", dc, ds)
  PROVE  Turns'
<1>1. /\ cliV \in Nat /\ servV \in Nat
      /\ cliV' = cliV + dc /\ servV' = servV + ds /\ cliV + dc >= 0 /\ servV + ds >= 0
  BY CountsFacts, EffectNumbers DEF ServerNumbers
<1>2. CASE MultiEdge(dc, ds)
  BY <1>2 DEF MultiEdge, Turns
<1>. USE DEF Turns, Alive, Num, Gone, Leaving, SingleC, SingleS
<1>3. CASE OneEdge(dc, ds)
  <2>1. cAt' = cAt /\ shm_program' = shm_program
    BY <1>3 DEF OneEdge, Edge, Where, Goes
  <2>2. CASE dc = 0 /\ ds = -1
    <3>1. \/ sAt = "serve" /\ sAt' = "open"
          \/ sAt = "block_wait" /\ sAt' = "read"
          \/ sAt = "message_wait" /\ sAt' = "end"
      BY <1>3, <2>2 DEF OneEdge, Edge, Where, Goes
    <3>. QED
      BY <1>1, <2>1, <2>2, <3>1
  <2>3. CASE dc = 1 /\ ds = 0
    <3>1. \/ sAt = "block_signal" /\ sAt' = "block_wait"
          \/ sAt = "message_signal" /\ sAt' = "message_wait"
          \/ sAt = "end_signal" /\ sAt' = "close_c"
      BY <1>3, <2>3 DEF OneEdge, Edge, Where, Goes
    <3>. QED
      BY <1>1, <2>1, <2>3, <3>1
  <2>4. CASE dc = 0 /\ ds = 0
    <3>1. sAt \in SingleS /\ sAt' \in SingleS
      BY <1>3, <2>4 DEF OneEdge, Edge, Where, Goes
    <3>. QED
      BY <1>1, <2>1, <2>4, <3>1
  <2>. QED
    BY <1>3, <2>2, <2>3, <2>4 DEF OneEdge
<1>. QED
  BY <1>2, <1>3

\* main() keeps the tokens of 11_multi_buffer.
LEMMA RingInMain == ASSUME Core, Ring, InMain PROVE Ring'
<1>. USE DEF Ring, Alive, Unmoved, SOpening, COpening, Before, Gone, Leaving, CHolds, BlockS,
   MessageS
<1>1. CASE ServerBegins
  BY <1>1 DEF ServerBegins
<1>2. CASE ClientBegins \/ ClientLeaves \/ ServerLeaves
  BY <1>2 DEF ClientBegins, ClientLeaves, ServerLeaves
<1>3. CASE ClientCloses
  BY <1>3 DEF ClientCloses
<1>4. CASE ServerCloses
  BY <1>4 DEF ServerCloses
<1>. QED
  BY <1>1, <1>2, <1>3, <1>4 DEF InMain

\* So does client(),
LEMMA RingClient ==
  ASSUME Core, Ring, NEW dc \in {-1, 0, 1}, NEW ds \in {-1, 0, 1},
         ClientEdge(dc, ds), Effect("client", dc, ds)
  PROVE  Ring'
<1>. SUFFICES ASSUME shm_program = "11_multi_buffer", Alive'
              PROVE  Ring'
  BY DEF Ring, ClientEdge
<1>1. /\ cliV \in Nat /\ servV \in Nat /\ NBUFF \in Nat
      /\ cliV' = cliV + dc /\ servV' = servV + ds /\ cliV + dc >= 0 /\ servV + ds >= 0
      /\ i["client"] \in 0 .. NBUFF - 1 /\ i["server"] \in 0 .. NBUFF - 1
  BY CountsFacts, EffectNumbers DEF ClientNumbers, Core, Typed, Parties
<1>2. /\ Phases /\ sAt' = sAt /\ shm_program' = shm_program /\ exists' = exists
      /\ sAt \in MultiLabels /\ sAt \notin Gone
      /\ i'["server"] = i["server"]
      /\ i'["client"] = IF cAt = "signal" THEN (i["client"] + 1) % NBUFF ELSE i["client"]
      /\ cAt # "name" => mesgptr' = mesgptr
  BY DEF Core, Typed, ClientEdge, Edge, Where, Goes, Alive, Parties
<1>. USE DEF Num, SOpening, COpening, Before, Gone, Leaving, CHolds, BlockS, MessageS
<1>3. CASE dc = -1 /\ ds = 0 /\ cAt = "ask" /\ cAt' = "name"
  BY <1>1, <1>2, <1>3 DEF Ring, Alive, Phases
<1>4. CASE dc = -1 /\ ds = 0 /\ cAt = "wait" /\ cAt' = "look"
  BY <1>1, <1>2, <1>4 DEF Ring, Alive, Phases
<1>5. CASE dc = 0 /\ ds = 1 /\ cAt = "name_signal" /\ cAt' = "wait"
  BY <1>1, <1>2, <1>5 DEF Ring, Alive, Phases
<1>6. CASE dc = 0 /\ ds = 1 /\ cAt = "signal" /\ cAt' = "wait"
  <2>1. i'["client"] = IF i["client"] = NBUFF - 1 THEN 0 ELSE i["client"] + 1
    BY <1>1, <1>2, <1>6, TurnFact
  <2>2. sAt \notin SOpening \cup {"serve", "open", "fill"}
    BY <1>1, <1>2, <1>6 DEF Ring, Alive, Phases
  <2>3. /\ sAt \in MessageS \/ (sAt = "end_signal" /\ ~exists)
             => cliV + servV + 1 + Num(sAt # "message_wait") = 1
        /\ sAt \in BlockS \/ (sAt = "end_signal" /\ exists) =>
             /\ cliV + servV + 1 + Num(sAt # "wait") = NBUFF
             /\ \/ i["server"] = i["client"] + cliV + 1
                \/ i["server"] = i["client"] + cliV + 1 - NBUFF
        /\ sAt \in BlockS => exists
        /\ sAt \in MessageS => ~exists
    BY <1>2, <1>6 DEF Ring, Alive
  <2>4. sAt \in BlockS \/ (sAt = "end_signal" /\ exists) =>
          \/ i["server"] = i'["client"] + cliV
          \/ i["server"] = i'["client"] + cliV - NBUFF
    BY <1>1, <2>1, <2>3
  <2>. QED
    BY <1>1, <1>2, <1>6, <2>2, <2>3, <2>4 DEF Ring
<1>7. CASE dc = 0 /\ ds = 0 /\ cAt = "name" /\ cAt' = "name_signal"
  <2>1. sAt \in SOpening \cup {"serve"}
    BY <1>2, <1>7 DEF Phases
  <2>2. mesgptr' = [mesgptr EXCEPT ![0] = [len |-> 1, data |-> "name"]]
    BY <1>7 DEF ClientEdge
  <2>3. 0 \in DOMAIN mesgptr /\ i["client"] = 0
    BY <1>2, <1>7 DEF Ring, Alive
  <2>4. mesgptr'[0].data = "name"
    BY <2>2, <2>3
  <2>. QED
    BY <1>1, <1>2, <1>7, <2>1, <2>3, <2>4 DEF Ring
<1>8. CASE /\ dc = 0 /\ ds = 0
           /\ \/ cAt = "start" /\ cAt' = "open_c"
              \/ cAt = "look" /\ cAt' = "print"
              \/ cAt = "look" /\ cAt' = "detach"
              \/ cAt = "print" /\ cAt' = "signal"
              \/ cAt = "detach" /\ cAt' = "close_c"
  BY <1>1, <1>2, <1>8 DEF Ring, Alive
<1>. QED
  BY <1>3, <1>4, <1>5, <1>6, <1>7, <1>8 DEF ClientEdge, Edge, Where, Goes

\* and so does server().
LEMMA RingServer ==
  ASSUME Core, Ring, NEW dc \in {-1, 0, 1}, NEW ds \in {-1, 0, 1},
         OneEdge(dc, ds) \/ MultiEdge(dc, ds), Effect("server", dc, ds)
  PROVE  Ring'
<1>. SUFFICES ASSUME MultiEdge(dc, ds), Alive' PROVE Ring'
  BY DEF Ring, OneEdge
<1>1. /\ cliV \in Nat /\ servV \in Nat /\ NBUFF \in Nat /\ NBUFF >= 2
      /\ cliV' = cliV + dc /\ servV' = servV + ds /\ cliV + dc >= 0 /\ servV + ds >= 0
      /\ i["client"] \in 0 .. NBUFF - 1 /\ i["server"] \in 0 .. NBUFF - 1
  BY CountsFacts, EffectNumbers DEF ServerNumbers, Core, Typed, Parties
<1>2. /\ Phases /\ cAt' = cAt /\ shm_program' = shm_program /\ exists' = exists
      /\ shm_program = "11_multi_buffer"
      /\ cAt \in ClientLabels /\ cAt \notin Gone
      /\ i'["client"] = i["client"]
      /\ i'["server"] = IF sAt \in {"fill", "signal"} THEN (i["server"] + 1) % NBUFF
                        ELSE i["server"]
      /\ sAt \in {"serve", "fill", "wait"} => mesgptr' = mesgptr
  BY DEF Core, Typed, MultiEdge, Edge, Where, Goes, Alive, Parties
<1>3. i'["server"] = IF sAt \notin {"fill", "signal"} THEN i["server"]
                     ELSE IF i["server"] = NBUFF - 1 THEN 0 ELSE i["server"] + 1
  BY <1>1, <1>2, TurnFact
<1>. USE DEF Num, SOpening, COpening, Before, Gone, Leaving, CHolds, BlockS, MessageS
<1>4. CASE dc = 0 /\ ds = -1 /\ sAt = "serve" /\ sAt' = "open"
  <2>1. cAt = "wait" /\ cliV = 0 /\ servV =< 1
    BY <1>1, <1>2, <1>4 DEF Phases
  <2>. QED
    BY <1>1, <1>2, <1>4, <2>1 DEF Ring, Alive
<1>5. CASE /\ dc = 0 /\ ds = 0 /\ sAt = "open"
           /\ sAt' = IF exists /\ mesgptr[0].data = "name" THEN "fill" ELSE "message"
  <2>1. cAt \notin COpening \cup Before
    BY <1>2, <1>5 DEF Phases
  <2>2. mesgptr[0].data = "name"
    BY <1>2, <1>5 DEF Ring, Alive
  <2>3. i["server"] = 0
    BY <1>5 DEF Core, Counts
  <2>. QED
    BY <1>1, <1>2, <1>3, <1>5, <2>1, <2>2, <2>3 DEF Ring, Alive
<1>6. CASE /\ dc = 0 /\ ds = 1 /\ sAt = "fill"
           /\ sAt' = IF i["server"] < NBUFF - 1 THEN "fill" ELSE "wait"
  <2>1. cAt \notin COpening \cup Before
    BY <1>2, <1>6 DEF Phases
  <2>2. /\ exists
        /\ cAt = "wait" => i["client"] = 0
        /\ cAt \in {"wait"} \cup CHolds => cliV = 0 /\ cAt = "wait" /\ servV = i["server"]
    BY <1>2, <1>6 DEF Ring, Alive
  <2>3. CASE i["server"] < NBUFF - 1
    <3>1. sAt' = "fill" /\ i'["server"] = i["server"] + 1
      BY <1>1, <1>3, <1>6, <2>3
    <3>. QED
      BY <1>1, <1>2, <1>6, <2>1, <2>2, <3>1 DEF Ring
  <2>4. CASE i["server"] = NBUFF - 1
    <3>1. sAt' = "wait" /\ i'["server"] = 0
      BY <1>1, <1>3, <1>6, <2>4
    <3>. QED
      BY <1>1, <1>2, <1>6, <2>1, <2>2, <2>4, <3>1 DEF Ring
  <2>. QED
    BY <1>1, <2>3, <2>4
<1>7. CASE dc = 0 /\ ds = -1 /\ sAt = "wait" /\ sAt' = "read"
  <2>1. cAt \notin COpening \cup Before
    BY <1>2, <1>7 DEF Phases
  <2>. QED
    BY <1>1, <1>2, <1>3, <1>7, <2>1 DEF Ring, Alive
<1>8. CASE dc = 1 /\ ds = 0 /\ sAt = "signal" /\ sAt' = "wait"
  <2>1. cAt \notin COpening \cup Before /\ exists
    BY <1>2, <1>8 DEF Phases, Ring, Alive
  <2>2. ASSUME cAt \in {"wait"} \cup CHolds
        PROVE  /\ cliV + servV + Num(cAt \in CHolds) + 1 = NBUFF
               /\ \/ i["server"] = i["client"] + cliV + Num(cAt \in CHolds)
                  \/ i["server"] = i["client"] + cliV + Num(cAt \in CHolds) - NBUFF
    BY <1>2, <1>8, <2>1, <2>2 DEF Ring, Alive
  <2>3. Num(cAt \in CHolds) \in {0, 1}
    OBVIOUS
  <2>4. ASSUME cAt \in {"wait"} \cup CHolds
        PROVE  \/ i'["server"] = i["client"] + (cliV + 1) + Num(cAt \in CHolds)
               \/ i'["server"] = i["client"] + (cliV + 1) + Num(cAt \in CHolds) - NBUFF
    <3>. HIDE DEF Num
    <3>. QED
      BY <1>1, <1>3, <1>8, <2>2, <2>3, <2>4
  <2>. QED
    BY <1>1, <1>2, <1>8, <2>1, <2>2, <2>4 DEF Ring
<1>9. CASE dc = 1 /\ ds = 0 /\ sAt = "message_signal" /\ sAt' = "message_wait"
  <2>1. cAt \notin COpening \cup Before
    BY <1>2, <1>9 DEF Phases
  <2>. QED
    BY <1>1, <1>2, <1>3, <1>9, <2>1 DEF Ring, Alive
<1>10. CASE dc = 0 /\ ds = -1 /\ sAt = "message_wait" /\ sAt' = "message_end"
  <2>1. cAt \notin COpening \cup Before
    BY <1>2, <1>10 DEF Phases
  <2>. QED
    BY <1>1, <1>2, <1>3, <1>10, <2>1 DEF Ring, Alive
<1>11. CASE /\ dc = 0 /\ ds = 0
            /\ \/ sAt = "message" /\ sAt' = "message_signal"
               \/ sAt = "message_end" /\ sAt' = "end_signal"
               \/ sAt = "read" /\ sAt' = "len"
               \/ sAt = "len" /\ sAt' = "end_signal"
               \/ sAt = "len" /\ sAt' = "signal"
  <2>1. cAt \notin COpening \cup Before
    BY <1>2, <1>11 DEF Phases
  <2>. QED
    BY <1>1, <1>2, <1>3, <1>11, <2>1 DEF Ring, Alive
<1>12. CASE (sAt = "end_signal" /\ sAt' = "poll") \/ (sAt = "poll" /\ sAt' = "close_c")
  <2>1. cAt \notin COpening \cup Before
    BY <1>2, <1>12 DEF Phases
  <2>. QED
    BY <1>2, <1>12, <2>1 DEF Ring
<1>. QED
  BY <1>4, <1>5, <1>6, <1>7, <1>8, <1>9, <1>10, <1>11, <1>12 DEF MultiEdge, Edge, Where, Goes

-----------------------------------------------------------------------------
(* What is left at the end *)

\* client() and server() close nothing.
LEMMA EndsProgram ==
  ASSUME Core, Ends, NEW dc \in {-1, 0, 1}, NEW ds \in {-1, 0, 1}, InProgram(dc, ds)
  PROVE  Ends'
<1>1. cliPc' = cliPc /\ servPc' = servPc /\ cliLive' = cliLive /\ servLive' = servLive
  BY DEF InProgram, Effect
<1>. USE DEF Ends, Leaving
<1>2. CASE ClientEdge(dc, ds)
  BY <1>1, <1>2 DEF ClientEdge, Edge, Where, Goes
<1>3. CASE OneEdge(dc, ds)
  BY <1>1, <1>3 DEF OneEdge, Edge, Where, Goes
<1>4. CASE MultiEdge(dc, ds)
  BY <1>1, <1>4 DEF MultiEdge, Edge, Where, Goes
<1>. QED
  BY <1>2, <1>3, <1>4 DEF InProgram

\* While a party begins, nobody is closing.
LEMMA EndsBegin == ASSUME Core, Ends, Attaches \/ Creates \/ Opens PROVE Ends'
<1>. USE DEF Ends, Leaving
<1>1. CASE Attaches
  <2>1. sAt = "start" /\ sAt' = "create_c" /\ cAt' = cAt /\ CliSame /\ ServSame
    BY <1>1 DEF Attaches, Goes
  <2>2. cAt \notin Leaving \cup {"done"}
    BY <2>1, NobodyElse DEF SOpening, COpening, Before
  <2>. QED
    BY <2>1, <2>2 DEF CliSame, ServSame
<1>2. CASE Creates
  <2>1. /\ shm' = shm /\ cAt' = cAt /\ sAt' \in SOpening \cup {"serve"} /\ sAt \in SOpening
    BY <1>2 DEF Creates, Stays, Goes, Where, SOpening
  <2>2. \/ /\ servPc' = servPc
           /\ cliPc'["client"] = cliPc["client"] /\ cliPc["client"] # "x_unlock"
           /\ cliPc'["server"] \in (CP!Creating \ {"again"}) \cup {"open"}
        \/ /\ cliPc' = cliPc
           /\ servPc'["client"] = servPc["client"] /\ servPc["client"] # "x_unlock"
           /\ servPc'["server"] \in (VP!Creating \ {"again"}) \cup {"open"}
    BY <1>2, CreatesEffect DEF CliStill, ServStill
  <2>. QED
    BY <2>1, <2>2 DEF CP!Creating, VP!Creating, SOpening
<1>3. CASE Opens
  <2>1. /\ shm' = shm /\ sAt' = sAt /\ cAt \in COpening /\ cAt' \in COpening \cup {"ask"}
    BY <1>3 DEF Opens, Stays, Goes, Where, COpening
  <2>2. \/ /\ servPc' = servPc
           /\ cliPc'["server"] = cliPc["server"] /\ cliPc["server"] # "x_unlock"
           /\ cliPc'["client"] \in {"o_open", "open"}
        \/ /\ cliPc' = cliPc
           /\ servPc'["server"] = servPc["server"] /\ servPc["server"] # "x_unlock"
           /\ servPc'["client"] \in {"o_open", "open"}
    BY <1>3, OpensEffect DEF CliStill, ServStill
  <2>. QED
    BY <2>1, <2>2 DEF COpening
<1>. QED
  BY <1>1, <1>2, <1>3

\* Who closes when the other has closed removes the set: the client.
LEMMA EndsClientCloses == ASSUME Core, Ends, ClientCloses PROVE Ends'
<1>. USE DEF Leaving, CP!Using, VP!Using
<1>1. /\ shm' = shm /\ sAt' = sAt /\ cAt \in {"close_c", "close_s"} /\ cAt' \in Leaving
  BY DEF ClientCloses
<1>2. ~shm
  BY <1>1 DEF Ends
<1>3. CASE /\ cAt = "close_c" /\ ServStill /\ CliCloses("client", "server")
           /\ cAt' = IF cliPc'["client"] = "idle" THEN "close_s" ELSE "close_c"
  <2>1. servPc' = servPc /\ servLive' = servLive /\ cliPc'["server"] = cliPc["server"]
    BY <1>3 DEF ServStill, CliCloses
  <2>2. sAt \in {"close_s", "exit", "done", "dead"} => cliPc["server"] = "idle"
    BY DEF Core, Coupled, CliAt, Within, Gone
  <2>3. cAt' = "close_s" => (sAt \in {"close_s", "exit", "done"} => ~cliLive')
    BY <1>1, <1>3, <2>2 DEF Ends, CliCloses
  <2>4. cliPc'["client"] = "x_unlock" => cliPc["server"] \in CP!Using
    BY <1>3 DEF CliCloses
  <2>5. cliPc["server"] = "x_unlock" => cliPc'["client"] \in CP!Using
    BY <1>1, <1>3 DEF CliCloses, Ends
  <2>. QED
    BY <1>1, <1>2, <1>3, <2>1, <2>3, <2>4, <2>5 DEF Ends
<1>4. CASE /\ cAt = "close_s" /\ CliStill /\ ServCloses("client", "server")
           /\ cAt' = IF servPc'["client"] = "idle" THEN "exit" ELSE "close_s"
  <2>1. cliPc' = cliPc /\ cliLive' = cliLive /\ servPc'["server"] = servPc["server"]
    BY <1>4 DEF CliStill, ServCloses
  <2>2. sAt \in {"exit", "done", "dead"} => servPc["server"] = "idle"
    BY DEF Core, Coupled, ServAt, Within, Gone
  <2>3. cAt' = "exit" => (sAt \in {"exit", "done"} => ~servLive')
    BY <1>1, <1>4, <2>2 DEF Ends, ServCloses
  <2>4. servPc'["client"] = "x_unlock" => servPc["server"] \in VP!Using
    BY <1>4 DEF ServCloses
  <2>5. servPc["server"] = "x_unlock" => servPc'["client"] \in VP!Using
    BY <1>1, <1>4 DEF ServCloses, Ends
  <2>. QED
    BY <1>1, <1>2, <1>4, <2>1, <2>3, <2>4, <2>5 DEF Ends
<1>. QED
  BY <1>3, <1>4 DEF ClientCloses

\* The same of the server.
LEMMA EndsServerCloses == ASSUME Core, Ends, ServerCloses PROVE Ends'
<1>. USE DEF Leaving, CP!Using, VP!Using
<1>1. /\ shm' = shm /\ cAt' = cAt /\ sAt \in {"close_c", "close_s"} /\ sAt' \in Leaving
  BY DEF ServerCloses
<1>2. CASE /\ sAt = "close_c" /\ ServStill /\ CliCloses("server", "client")
           /\ sAt' = IF cliPc'["server"] = "idle" THEN "close_s" ELSE "close_c"
  <2>1. servPc' = servPc /\ servLive' = servLive /\ cliPc'["client"] = cliPc["client"]
    BY <1>2 DEF ServStill, CliCloses
  <2>2. cAt \in {"close_s", "exit", "done", "dead"} => cliPc["client"] = "idle"
    BY DEF Core, Coupled, CliAt, Within, Gone
  <2>3. sAt' = "close_s" => (cAt \in {"close_s", "exit", "done"} => ~cliLive')
    BY <1>1, <1>2, <2>2 DEF Ends, CliCloses
  <2>4. cliPc'["server"] = "x_unlock" => cliPc["client"] \in CP!Using
    BY <1>2 DEF CliCloses
  <2>5. cliPc["client"] = "x_unlock" => cliPc'["server"] \in CP!Using
    BY <1>1, <1>2 DEF CliCloses, Ends
  <2>. QED
    BY <1>1, <1>2, <2>1, <2>3, <2>4, <2>5 DEF Ends
<1>3. CASE /\ sAt = "close_s" /\ CliStill /\ ServCloses("server", "client")
           /\ sAt' = IF servPc'["server"] = "idle" THEN "exit" ELSE "close_s"
  <2>1. cliPc' = cliPc /\ cliLive' = cliLive /\ servPc'["client"] = servPc["client"]
    BY <1>3 DEF CliStill, ServCloses
  <2>2. cAt \in {"exit", "done", "dead"} => servPc["client"] = "idle"
    BY DEF Core, Coupled, ServAt, Within, Gone
  <2>3. sAt' = "exit" => (cAt \in {"exit", "done"} => ~servLive')
    BY <1>1, <1>3, <2>2 DEF Ends, ServCloses
  <2>4. servPc'["server"] = "x_unlock" => servPc["client"] \in VP!Using
    BY <1>3 DEF ServCloses
  <2>5. servPc["client"] = "x_unlock" => servPc'["server"] \in VP!Using
    BY <1>1, <1>3 DEF ServCloses, Ends
  <2>. QED
    BY <1>1, <1>3, <2>1, <2>3, <2>4, <2>5 DEF Ends
<1>. QED
  BY <1>2, <1>3 DEF ServerCloses

\* Who exits has closed both semaphores.
LEMMA EndsLeaves == ASSUME Core, Ends, NEW x \in Parties, Leaves(x) PROVE Ends'
<1>. USE DEF Ends, Leaving, CP!Using, VP!Using
<1>1. /\ cliPc["client"] \in CliAt(cAt) /\ servPc["client"] \in ServAt(cAt)
      /\ cliPc["server"] \in CliAt(sAt) /\ servPc["server"] \in ServAt(sAt)
  BY DEF Core, Coupled
<1>2. CASE x = "client"
  <2>1. /\ shm' = shm /\ sAt' = sAt
        /\ \/ cAt = "exit" /\ cAt' = "done"
           \/ cAt' = "dead"
           \/ cAt \in COpening /\ cAt' = "start"
    BY <1>2 DEF Leaves, Goes, Where, COpening
  <2>2. /\ cliPc'["client"] = "idle" /\ cliPc'["server"] = cliPc["server"] /\ cliLive' = cliLive
        /\ servPc'["client"] = "idle" /\ servPc'["server"] = servPc["server"] /\ servLive' = servLive
    BY <1>2, LeavesEffect DEF Parties
  <2>3. cAt \in COpening => cliPc["server"] # "x_unlock" /\ servPc["server"] # "x_unlock"
    BY <1>1, NobodyElse DEF SOpening, CliAt, ServAt, Within, Gone, CP!Creating
  <2>4. cAt = "exit" => cliPc["client"] = "idle" /\ servPc["client"] = "idle"
    BY <1>1 DEF CliAt, ServAt, Within
  <2>. QED
    BY <2>1, <2>2, <2>3, <2>4
<1>3. CASE x = "server"
  <2>1. /\ shm' = shm /\ cAt' = cAt
        /\ \/ sAt = "exit" /\ sAt' = "done"
           \/ sAt' = "dead"
    BY <1>3 DEF Leaves, Goes, Where
  <2>2. /\ cliPc'["server"] = "idle" /\ cliPc'["client"] = cliPc["client"] /\ cliLive' = cliLive
        /\ servPc'["server"] = "idle" /\ servPc'["client"] = servPc["client"] /\ servLive' = servLive
    BY <1>3, LeavesEffect DEF Parties
  <2>3. sAt = "exit" => cliPc["server"] = "idle" /\ servPc["server"] = "idle"
    BY <1>1 DEF CliAt, ServAt, Within
  <2>. QED
    BY <2>1, <2>2, <2>3
<1>. QED
  BY <1>2, <1>3 DEF Parties

\* Every step of the two programs keeps the invariant.
LEMMA ShmInvKept == ASSUME Fits, ShmInv, Moves PROVE ShmInv'
<1>1. Core'
  BY CoreKept DEF ShmInv
<1>2. Core /\ Turns /\ Ring /\ Ends
  BY DEF ShmInv
<1>3. Turns' /\ Ring'
  <2>1. CASE InMain
    BY <1>2, <2>1, TurnsInMain, RingInMain
  <2>2. ASSUME NEW dc \in {-1, 0, 1}, NEW ds \in {-1, 0, 1}, InProgram(dc, ds)
        PROVE  Turns' /\ Ring'
    BY <1>2, <2>2, TurnsClient, TurnsServer, RingClient, RingServer DEF InProgram
  <2>. QED
    BY <1>2, <2>1, <2>2, MovesSplit
<1>4. Ends'
  <2>1. ASSUME Programs PROVE Ends'
    <3>1. PICK dc, ds \in {-1, 0, 1} :
             \/ ClientEdge(dc, ds) /\ Calls("client", dc, ds)
             \/ (OneEdge(dc, ds) \/ MultiEdge(dc, ds)) /\ Calls("server", dc, ds)
      BY <2>1 DEF Programs
    <3>2. InProgram(dc, ds)
      BY <1>2, <3>1, Ranges DEF InProgram
    <3>. QED
      BY <1>2, <3>2, EndsProgram
  <2>2. ASSUME NEW x \in Parties, Closes(x) PROVE Ends'
    <3>1. ClientCloses \/ ServerCloses
      BY <1>2, <2>2, ClientClosesFact, ServerClosesFact DEF Parties
    <3>. QED
      BY <1>2, <3>1, EndsClientCloses, EndsServerCloses
  <2>. QED
    BY <1>2, <2>1, <2>2, EndsBegin, EndsLeaves DEF Moves
<1>. QED
  BY <1>1, <1>3, <1>4 DEF ShmInv

-----------------------------------------------------------------------------
(* The FIFOs and the queues of the other programs *)

\* No server that the client has met creates anything any more.
TransferInv ==
  /\ DOMAIN at = Parties
  /\ pair \in ShmPairs => at["client"] = "main"
  /\ pair = "transfer" =>
       /\ Streaming => live = {}
       /\ ~Streaming => fifos = {}
       /\ Streaming /\ ~S!Named => fifos = {}
       /\ at["client"] = "done" => fifos = {} /\ live = {}
       /\ Streaming /\ ~S!Forks /\ at["client"] \notin {"main", "opening", "dead"}
            => at["server"] # "main"
       /\ ~Streaming =>
            /\ at["server"] = "main" => live # Q!Keys
            /\ at["client"] \notin {"main", "dead"} => at["server"] # "main"

\* x is killed, or does a step of client() or server(), or fails in one.
Works(x) ==
  /\ program' = program /\ DOMAIN at' = Parties
  /\ \A y \in Parties : y # x => at'[y] = at[y]
  /\ \/ at'[x] = "dead"
     \/ /\ at[x] \notin {"main", "opening", "dead"} /\ at'[x] # "main"
        /\ x = "client" => at'[x] # "done"

\* A step of the stream programs creates or removes no FIFO, or is one of main().
LEMMA StreamWorks ==
  ASSUME DOMAIN at = Parties, NEW x \in Parties, S!StreamStep(x) \/ S!StreamKill(x)
  PROVE  \/ Works(x) /\ fifos' = fifos
         \/ S!Create \/ S!Fork \/ S!ClientStart \/ S!ClientEnd \/ \E c \in S!Both : S!OpenBoth(c)
<1>. USE DEF Works, S!At, Parties
<1>1. ASSUME S!StreamKill(x) PROVE Works(x) /\ fifos' = fifos
  BY <1>1 DEF S!StreamKill, S!Kill
<1>2. ASSUME S!Fails(x) \/ S!CloseUnused(x) PROVE Works(x) /\ fifos' = fifos
  BY <1>2 DEF S!Fails, S!Fail, S!CloseUnused, S!Start
<1>3. ASSUME S!Write(x) PROVE Works(x) /\ fifos' = fifos
  <2>1. PICK s \in S!SendsOf(x) :
           at[x] = s[1] /\ (S!At(x, s[1], "error") \/ S!At(x, s[1], s[1]) \/ S!At(x, s[1], s[2]))
    BY <1>3 DEF S!Write
  <2>2. s[1] \in {"send", "send_message", "end"} /\ s[2] \in {"receive", "file", "end", "exit"}
    BY DEF S!SendsOf
  <2>3. fifos' = fifos
    BY <1>3 DEF S!Write
  <2>. QED
    BY <2>1, <2>2, <2>3
<1>4. ASSUME S!ReadText(x) \/ S!ReadHeader(x) \/ S!ReadData(x) PROVE Works(x) /\ fifos' = fifos
  <2>1. S!Got(x) \in {"print", "open"} /\ S!Ended(x) \in {"wait", "error"}
    BY DEF S!Got, S!Ended
  <2>2. /\ fifos' = fifos /\ at[x] \in {"receive", "data"}
        /\ S!At(x, at[x], S!Got(x)) \/ S!At(x, at[x], S!Ended(x)) \/ S!At(x, at[x], "data")
           \/ S!At(x, at[x], "error")
    <3>. HIDE DEF S!At
    <3>1. CASE S!ReadText(x)
      BY <3>1 DEF S!ReadText
    <3>2. CASE S!ReadHeader(x)
      BY <3>2 DEF S!ReadHeader
    <3>3. CASE S!ReadData(x)
      BY <3>3 DEF S!ReadData
    <3>. QED
      BY <1>4, <3>1, <3>2, <3>3
  <2>. QED
    BY <2>1, <2>2
<1>5. ASSUME S!Functions(x), UNCHANGED S!streamVars PROVE Works(x) /\ fifos' = fifos
  BY <1>5 DEF S!Functions, S!ClientName, S!ClientPrint, S!ServerOpen, S!ServerFile, S!streamVars
<1>6. ASSUME x = "server", S!ServerEnd PROVE Works(x) /\ fifos' = fifos
  BY <1>6 DEF S!ServerEnd
<1>. QED
  BY <1>1, <1>2, <1>3, <1>4, <1>5, <1>6 DEF S!StreamStep

\* A step of the queue programs creates or removes no queue, or is one of main().
LEMMA QueueWorks ==
  ASSUME DOMAIN at = Parties, NEW x \in Parties, Q!QueueStep(x) \/ Q!QueueKill(x)
  PROVE  (Works(x) /\ live' = live) \/ Q!ServerGet \/ Q!ClientGet \/ Q!ClientRemove
<1>. USE DEF Works, Q!At, Parties
<1>1. ASSUME Q!QueueKill(x) PROVE Works(x) /\ live' = live
  BY <1>1 DEF Q!QueueKill, Q!Kill, Q!queueVars
<1>2. ASSUME Q!Fail(x), UNCHANGED Q!queueVars PROVE Works(x) /\ live' = live
  BY <1>2 DEF Q!Fail, Q!queueVars
<1>3. ASSUME Q!Send(x) PROVE Works(x) /\ live' = live
  <2>1. PICK s \in Q!SendsOf(x) :
           at[x] = s[1] /\ (Q!At(x, s[1], "error") \/ Q!At(x, s[1], s[2]))
    BY <1>3 DEF Q!Send
  <2>2. s[1] \in {"send", "send_message", "end"} /\ s[2] \in {"receive", "file", "end", "exit"}
    BY DEF Q!SendsOf
  <2>3. live' = live
    BY <1>3 DEF Q!Send
  <2>. QED
    BY <2>1, <2>2, <2>3
<1>4. ASSUME Q!Receive(x) PROVE Works(x) /\ live' = live
  <2>1. Q!Got(x) \in {"print", "open"} /\ Q!Ended(x) \in {"wait", "error"}
    BY DEF Q!Got, Q!Ended
  <2>2. /\ live' = live
        /\ Q!At(x, "receive", Q!Got(x)) \/ Q!At(x, "receive", Q!Ended(x))
           \/ Q!At(x, "receive", "error")
    <3>. HIDE DEF Q!At
    <3>. QED
      BY <1>4 DEF Q!Receive, Q!queueVars
  <2>. QED
    BY <2>1, <2>2
<1>5. ASSUME Q!Functions(x), UNCHANGED Q!queueVars PROVE Works(x) /\ live' = live
  BY <1>5 DEF Q!Functions, Q!ClientName, Q!ClientPrint, Q!ServerOpen, Q!ServerFile, Q!queueVars
<1>6. ASSUME x = "server", Q!ServerEnd PROVE Works(x) /\ live' = live
  BY <1>6 DEF Q!ServerEnd, Q!queueVars
<1>. QED
  BY <1>1, <1>2, <1>3, <1>4, <1>5, <1>6 DEF Q!QueueStep

\* Every step of these programs keeps their invariant.
LEMMA TransferInvKept ==
  ASSUME TransferInv, Transferring, NEW x \in Parties, Step(x) \/ Killed(x)
  PROVE  TransferInv'
<1>1. DOMAIN at = Parties /\ pair = "transfer" /\ pair' = pair
  BY DEF TransferInv, Transferring
<1>. USE DEF TransferInv, Parties, Streaming, ShmPairs, S!StreamPrograms
<1>2. CASE Streaming
  <2>1. (S!StreamStep(x) \/ S!StreamKill(x)) /\ live' = live
    BY <1>2 DEF Step, Killed, queues
  <2>. USE DEF S!At, S!Named, S!Forks, S!Creator
  <2>2. CASE Works(x) /\ fifos' = fifos
    BY <1>1, <1>2, <2>1, <2>2 DEF Works
  <2>3. CASE S!Create
    BY <1>1, <1>2, <2>1, <2>3 DEF S!Create
  <2>4. CASE S!Fork
    BY <1>1, <1>2, <2>1, <2>4 DEF S!Fork, S!Parties
  <2>5. CASE S!ClientStart
    BY <1>1, <1>2, <2>1, <2>5 DEF S!ClientStart, S!streamVars
  <2>6. CASE S!ClientEnd
    BY <1>1, <1>2, <2>1, <2>6 DEF S!ClientEnd
  <2>7. ASSUME NEW c \in S!Both, S!OpenBoth(c) PROVE TransferInv'
    <3>1. /\ program' = program /\ fifos' = fifos /\ DOMAIN at' = Parties
          /\ at'["client"] \in {"opening", "ask"} /\ at'["server"] \in {"opening", "receive"}
      BY <2>7 DEF S!OpenBoth, S!Start, S!Parties
    <3>. QED
      BY <1>1, <1>2, <2>1, <3>1
  <2>. QED
    BY <1>1, <2>1, <2>2, <2>3, <2>4, <2>5, <2>6, <2>7, StreamWorks
<1>3. CASE ~Streaming
  <2>1. (Q!QueueStep(x) \/ Q!QueueKill(x)) /\ fifos' = fifos
    BY <1>3 DEF Step, Killed, streams
  <2>. USE DEF Q!At
  <2>2. CASE Works(x) /\ live' = live
    BY <1>1, <1>3, <2>1, <2>2 DEF Works, Q!Keys, Q!One
  <2>3. CASE Q!ServerGet
    BY <1>1, <1>3, <2>1, <2>3 DEF Q!ServerGet, Q!Keys, Q!One
  <2>4. CASE Q!ClientGet
    BY <1>1, <1>3, <2>1, <2>4 DEF Q!ClientGet, Q!queueVars, Q!Keys, Q!One
  <2>5. CASE Q!ClientRemove
    BY <1>1, <1>3, <2>1, <2>5 DEF Q!ClientRemove, Q!Keys, Q!One
  <2>. QED
    BY <1>1, <2>1, <2>2, <2>3, <2>4, <2>5, QueueWorks
<1>. QED
  BY <1>2, <1>3

-----------------------------------------------------------------------------
(* The invariant of FilesSpec *)

FilesInv == ShmInv /\ TransferInv

\* The invariants hold at the start.
LEMMA ShmInvInit == ASSUME FilesInit PROVE ShmInv
<1>1. /\ shm_program \in ShmPairs /\ shm_at = [x \in Parties |-> "start"]
      /\ shm_offset = 0 /\ i = [x \in Parties |-> 0] /\ shm = FALSE
      /\ mesgptr = [b \in 0 .. NBUFF - 1 |-> [len |-> 0, data |-> "none"]]
  BY DEF FilesInit, Shm!Init, Shm!One!Init, Shm!Multi!Init, Shm!One!SessionInit,
     Shm!Multi!SessionInit, Shm!One!Parties, Shm!Multi!Parties, Shm!Multi!Buffers, Parties
<1>2. CP!Init
  BY DEF FilesInit, Shm!Init, Shm!One!Init, Shm!One!SessionInit, Shm!One!Cli!Init, CP!Init,
     Shm!One!Cli!Zeros, CP!Zeros, Shm!One!Cli!Members, CP!Members, Shm!One!Parties, Parties
<1>3. VP!Init
  BY DEF FilesInit, Shm!Init, Shm!One!Init, Shm!One!SessionInit, Shm!One!Serv!Init, VP!Init,
     Shm!One!Serv!Zeros, VP!Zeros, Shm!One!Serv!Members, VP!Members, Shm!One!Parties, Parties
<1>4. CP!Sound /\ VP!Sound
  BY <1>2, <1>3, ConstantsFacts, CP!SoundInit, VP!SoundInit
<1>5. /\ cAt = "start" /\ sAt = "start" /\ cliV = 0 /\ servV = 0
      /\ taken = 0 /\ given = 0 /\ sent = 0 /\ got = 0
      /\ cliPc["client"] = "idle" /\ cliPc["server"] = "idle"
      /\ servPc["client"] = "idle" /\ servPc["server"] = "idle"
      /\ i["client"] = 0 /\ i["server"] = 0
  <2>1. /\ cAt = "start" /\ sAt = "start" /\ i["client"] = 0 /\ i["server"] = 0
    BY <1>1 DEF cAt, sAt, Parties
  <2>2. /\ cliVal[0] = 0 /\ cliAdj["client"][0] = 0 /\ cliAdj["server"][0] = 0
        /\ cliPc["client"] = "idle" /\ cliPc["server"] = "idle"
    BY <1>2 DEF CP!Init, CP!Zeros, CP!Members, Parties
  <2>3. /\ servVal[0] = 0 /\ servAdj["client"][0] = 0 /\ servAdj["server"][0] = 0
        /\ servPc["client"] = "idle" /\ servPc["server"] = "idle"
    BY <1>3 DEF VP!Init, VP!Zeros, VP!Members, Parties
  <2>. QED
    BY <2>1, <2>2, <2>3 DEF cliV, servV, taken, given, sent, got
<1>6. NBUFF \in Nat /\ NBUFF >= 2 /\ Len(Blocks) \in Nat
  BY FileProgramsAssumption
<1>7. Typed
  BY <1>1, <1>5, <1>6 DEF Typed, Placed, ShmPairs, ClientLabels, OneLabels, MultiLabels, COpening,
     SOpening
<1>8. Coupled
  BY <1>5 DEF Coupled, CliAt, ServAt, Within
<1>9. Phases /\ Counts
  BY <1>1, <1>5, <1>6 DEF Phases, Counts, COpening, SOpening, Before, CHolds, Gone, Leaving,
     Ahead, Floor
<1>10. Turns /\ Ends
  BY <1>5 DEF Turns, Ends, SingleC, Leaving
<1>11. Ring
  BY <1>1, <1>5, <1>6 DEF Ring, SOpening, BlockS, MessageS, CHolds
<1>. QED
  BY <1>4, <1>7, <1>8, <1>9, <1>10, <1>11 DEF ShmInv, Core

\* At the start the queues are not there, FIFOs only for those who use them.
LEMMA TransferInvInit == ASSUME FilesInit PROVE TransferInv
<1>1. /\ DOMAIN at = Parties /\ at["client"] = "main" /\ live = {}
      /\ Streaming => S!StreamsInit
      /\ ~Streaming => fifos = {}
  BY DEF FilesInit, Init, Q!QueuesInit, Parties
<1>2. Streaming /\ ~S!Named => fifos = {}
  BY <1>1 DEF S!StreamsInit
<1>3. Q!Keys # {}
  BY DEF Q!Keys, Q!One
<1>. QED
  BY <1>1, <1>2, <1>3 DEF TransferInv

\* The invariant is about the shared memory programs only.
LEMMA ShmInvStays == ASSUME ShmInv, UNCHANGED shmVars PROVE ShmInv'
<1>1. CliSame /\ ServSame /\ Unmoved /\ shm' = shm /\ shm_at' = shm_at
  BY DEF shmVars, CliSame, ServSame, Unmoved
<1>2. CliStill /\ ServStill
  BY <1>1, SameStill DEF ShmInv
<1>3. cAt' = cAt /\ sAt' = sAt /\ cliPc' = cliPc /\ servPc' = servPc
  BY <1>1 DEF cAt, sAt, CliSame, ServSame
<1>4. Core'
  <2>1. Typed' /\ Coupled' /\ Phases'
    BY <1>1, <1>2, <1>3 DEF ShmInv, Core, Typed, Placed, Unmoved, Coupled, Phases, CliStill,
       ServStill,
       CliValues, ServValues
  <2>2. Counts'
    BY <1>1, <1>2, <1>3 DEF ShmInv, Core, Counts, Unmoved, Ahead, Floor, CliStill, ServStill,
       CliValues, ServValues
  <2>. QED
    BY <1>2, <2>1, <2>2 DEF Core, CliStill, ServStill
<1>5. Turns' /\ Ring' /\ Ends'
  BY <1>1, <1>2, <1>3 DEF ShmInv, Turns, Ring, Ends, Alive, Unmoved, CliStill, ServStill,
     CliValues,
     ServValues
<1>. QED
  BY <1>4, <1>5 DEF ShmInv

\* Every step keeps the invariant.
LEMMA FilesInvKept == ASSUME Fits, FilesInv, [FilesNext]_fileVars PROVE FilesInv'
<1>1. CASE UNCHANGED fileVars
  <2>1. UNCHANGED shmVars /\ UNCHANGED pair /\ UNCHANGED vars
    BY <1>1 DEF fileVars
  <2>2. ShmInv'
    BY <2>1, ShmInvStays DEF FilesInv
  <2>3. TransferInv'
    BY <2>1 DEF FilesInv, TransferInv, vars, transferVars, streams, queues, Streaming, S!Named,
       S!Forks, Q!Keys, Q!One, ShmPairs, S!StreamPrograms
  <2>. QED
    BY <2>2, <2>3 DEF FilesInv
<1>2. ASSUME NEW x \in Parties, FilesStep(x) \/ (Transferring /\ Killed(x)) PROVE FilesInv'
  <2>1. Transferring /\ (Step(x) \/ Killed(x))
    BY <1>2 DEF FilesStep
  <2>2. ShmInv'
    BY <2>1, ShmInvStays DEF FilesInv, Transferring
  <2>. QED
    BY <2>1, <2>2, TransferInvKept DEF FilesInv
<1>3. CASE Sharing /\ Shm!Next
  <2>1. Placed
    BY DEF FilesInv, ShmInv, Core, Typed
  <2>2. Moves
    BY <1>3, <2>1, NextMoves
  <2>3. ShmInv'
    BY <2>2, ShmInvKept DEF FilesInv
  <2>4. TransferInv'
    BY <1>3 DEF FilesInv, TransferInv, Sharing, ShmPairs, vars, transferVars
  <2>. QED
    BY <2>3, <2>4 DEF FilesInv
<1>. QED
  BY <1>1, <1>2, <1>3 DEF FilesNext

\* The invariant holds in every behaviour, whoever is killed on the way.
THEOREM FilesInvariant == Fits => (FilesSpec => []FilesInv)
<1>. SUFFICES ASSUME Fits PROVE FilesSpec => []FilesInv
  OBVIOUS
<1>1. FilesInit => FilesInv
  BY ShmInvInit, TransferInvInit DEF FilesInv
<1>2. FilesInv /\ [FilesNext]_fileVars => FilesInv'
  BY FilesInvKept
<1>. QED
  BY <1>1, <1>2, PTL DEF FilesSpec

-----------------------------------------------------------------------------
(* What the invariant says *)

\* A party whose semaphores are sound has not called err_sys.
LEMMA NeverFails == ASSUME ShmInv PROVE NoSemaphoreLost
<1>1. ASSUME NEW x \in Parties PROVE ~Shm!Failed(x)
  <2>1. cliPc[x] \notin CP!Failures
    BY DEF ShmInv, Core, CP!Sound, CP!SteadyAt, CP!Failures
  <2>2. servPc[x] \notin VP!Failures
    BY DEF ShmInv, Core, VP!Sound, VP!SteadyAt, VP!Failures
  <2>. QED
    BY <2>1, <2>2 DEF Shm!Failed, Shm!Cli!Failures, Shm!Serv!Failures, CP!Failures, VP!Failures
<1>. QED
  BY <1>1 DEF NoSemaphoreLost, Shm!NoSemaphoreLost, Shm!Parties, Parties

\* There is one token, and who is in the segment has it.
LEMMA OneAtATime == ASSUME ShmInv PROVE OneOwner
<1>. SUFFICES ASSUME shm_program = "10_shared_memory" PROVE Shm!One!OneOwner
  BY DEF OneOwner, Shm!OneOwner
<1>. DEFINE T == Shm!One!InSegment
<1>1. /\ T \subseteq {"client", "server"}
      /\ "client" \in T <=> cAt \in SingleC
      /\ "server" \in T <=> sAt \in SingleS
  <2>1. cAt \in ClientLabels /\ sAt \in OneLabels
    BY DEF ShmInv, Core, Typed
  <2>. QED
    BY <2>1 DEF Shm!One!InSegment, Shm!One!Parties, cAt, sAt, SingleC, SingleS, ClientLabels,
       OneLabels,
       COpening, SOpening, Before, CHolds, Leaving, Gone
<1>2. /\ cliV \in Nat /\ servV \in Nat
      /\ cAt \in ClientLabels
  BY CountsFacts DEF ShmInv, Core, Typed
<1>3. /\ cAt \in SingleC /\ sAt \notin Gone => cliV = 0 /\ servV = 0 /\ sAt \notin SingleS
      /\ sAt \in SingleS /\ cAt \notin Gone => cliV = 0 /\ servV = 0 /\ cAt \notin SingleC
  <2>1. sAt \in SingleS => cAt \notin COpening \cup Before
    BY DEF ShmInv, Core, Phases, SingleS, SOpening
  <2>. QED
    BY <1>2, <2>1 DEF ShmInv, Turns, Alive, Num, SingleC, SingleS, CHolds, Gone, Leaving,
       ClientLabels
<1>4. Cardinality(T) =< 1
  <2>1. T = {} \/ T = {"client"} \/ T = {"server"}
    BY <1>1, <1>3 DEF SingleC, SingleS, Gone
  <2>. HIDE DEF T
  <2>2. Cardinality({}) = 0 /\ Cardinality({"client"}) = 1 /\ Cardinality({"server"}) = 1
    BY FS_EmptySet, FS_Singleton
  <2>3. Cardinality(T) \in {0, 1}
    BY <2>1, <2>2
  <2>. QED
    BY <2>3
<1>5. Shm!One!Cardinality(T) = Cardinality(T)
  BY DEF Shm!One!Cardinality, Cardinality
<1>6. T # {} /\ (\A x \in Parties : shm_at[x] \notin {"dead", "done"})
        => cliVal[0] = 0 /\ servVal[0] = 0
  BY <1>1, <1>3 DEF Parties, Gone, cAt, sAt, cliV, servV
<1>. QED
  BY <1>4, <1>5, <1>6 DEF Shm!One!OneOwner, Shm!One!Parties, Parties

\* The buffers that client and server hold, in terms of the invariant.
LEMMA Held == ASSUME ShmInv, shm_program = "11_multi_buffer"
  PROVE  /\ Shm!Multi!Holds("client") =
              IF cAt \in {"name", "name_signal"} THEN {0}
              ELSE IF cAt \in CHolds THEN {i["client"]} ELSE {}
         /\ Shm!Multi!Holds("server") =
              IF sAt \in {"open", "message", "message_signal"} THEN {0}
              ELSE IF sAt = "message_end" \/ (sAt = "end_signal" /\ ~exists) THEN {1}
              ELSE IF sAt \in {"signal", "read", "len", "end_signal"} THEN {i["server"]} ELSE {}
<1>1. cAt \in ClientLabels /\ sAt \in MultiLabels
  BY DEF ShmInv, Core, Typed
<1>2. /\ shm_at["client"] = cAt /\ shm_at["server"] = sAt
  BY DEF cAt, sAt
<1>. QED
  BY <1>1, <1>2 DEF Shm!Multi!Holds, ClientLabels, MultiLabels, COpening, SOpening, Before,
     CHolds, BlockS,
     MessageS, Leaving, Gone

\* The server's buffer is ahead of the client's by the full ones, and fewer than NBUFF.
LEMMA HeldOnce == ASSUME ShmInv PROVE BuffersDisjoint /\ BuffersConserved
<1>1. CASE shm_program # "11_multi_buffer"
  BY <1>1 DEF BuffersDisjoint, BuffersConserved, Shm!BuffersDisjoint, Shm!BuffersConserved
<1>2. CASE shm_program = "11_multi_buffer"
  <2>1. /\ cliV \in Nat /\ servV \in Nat /\ NBUFF \in Nat
        /\ i["client"] \in 0 .. NBUFF - 1 /\ i["server"] \in 0 .. NBUFF - 1
        /\ cAt \in ClientLabels /\ sAt \in MultiLabels
    BY <1>2, CountsFacts DEF ShmInv, Core, Typed, Parties
  <2>2. cAt \in {"name", "name_signal"} => Shm!Multi!Holds("server") = {}
    <3>1. cAt \in {"name", "name_signal"} => sAt \in SOpening \cup {"serve", "dead"}
      BY DEF ShmInv, Core, Phases, Before
    <3>. QED
      BY <1>2, <3>1, Held DEF SOpening
  <2>3. cAt \in CHolds /\ sAt \notin Gone =>
          /\ sAt \notin {"open", "message", "message_signal", "message_end"}
          /\ ~(sAt = "end_signal" /\ ~exists)
          /\ sAt \in {"signal", "read", "len", "end_signal"} => i["client"] # i["server"]
    <3>1. ASSUME cAt \in CHolds, sAt \notin Gone,
                 sAt \in {"open", "message", "message_signal", "message_end"}
                   \/ (sAt = "end_signal" /\ ~exists)
          PROVE  FALSE
      BY <1>2, <2>1, <3>1 DEF ShmInv, Ring, Alive, Num, CHolds, MessageS, Gone
    <3>2. ASSUME cAt \in CHolds, sAt \in {"signal", "read", "len"} \/ (sAt = "end_signal" /\ exists)
          PROVE  i["client"] # i["server"]
      <4>1. /\ cliV + servV + 1 + 1 = NBUFF
            /\ \/ i["server"] = i["client"] + cliV + 1
               \/ i["server"] = i["client"] + cliV + 1 - NBUFF
        BY <1>2, <3>2 DEF ShmInv, Ring, Alive, Num, CHolds, BlockS, Gone
      <4>. QED
        BY <2>1, <4>1
    <3>. QED
      BY <3>1, <3>2
  <2>4. Shm!Multi!Holds("client") \cap Shm!Multi!Holds("server") = {}
    <3>1. CASE cAt \in {"name", "name_signal"}
      BY <2>2, <3>1
    <3>2. CASE cAt \in CHolds /\ sAt \in Gone
      BY <1>2, <3>2, Held DEF Gone
    <3>3. CASE cAt \in CHolds /\ sAt \notin Gone
      <4>1. Shm!Multi!Holds("client") = {i["client"]}
        BY <1>2, <3>3, Held DEF CHolds
      <4>2. Shm!Multi!Holds("server") \in {{}, {i["server"]}}
            /\ (Shm!Multi!Holds("server") = {i["server"]} => i["client"] # i["server"])
        <5>1. CASE sAt \in {"signal", "read", "len", "end_signal"}
          BY <1>2, <2>3, <3>3, <5>1, Held
        <5>2. CASE sAt \notin {"signal", "read", "len", "end_signal"}
          BY <1>2, <2>3, <3>3, <5>2, Held
        <5>. QED
          BY <5>1, <5>2
      <4>. QED
        BY <4>1, <4>2
    <3>4. CASE cAt \notin {"name", "name_signal"} \cup CHolds
      BY <1>2, <3>4, Held
    <3>. QED
      BY <3>1, <3>2, <3>3, <3>4
  <2>5. ASSUME exists, sAt \in {"wait", "read", "len", "signal", "end_signal"},
               cAt \in {"wait", "look", "print", "signal"}
        PROVE  cliVal[0] + servVal[0] + Cardinality(Shm!Multi!Holds("client"))
                 + Cardinality(Shm!Multi!Holds("server")) = NBUFF
    <3>1. /\ Cardinality(Shm!Multi!Holds("client")) = Num(cAt \in CHolds)
          /\ Cardinality(Shm!Multi!Holds("server")) = Num(sAt # "wait")
      <4>1. Cardinality({}) = 0 /\ Cardinality({i["client"]}) = 1 /\ Cardinality({i["server"]}) = 1
        BY FS_EmptySet, FS_Singleton
      <4>2. /\ Shm!Multi!Holds("client") = IF cAt \in CHolds THEN {i["client"]} ELSE {}
            /\ Shm!Multi!Holds("server") = IF sAt # "wait" THEN {i["server"]} ELSE {}
        BY <1>2, <2>5, Held DEF CHolds
      <4>. QED
        BY <4>1, <4>2 DEF Num
    <3>2. cliV + servV + Num(cAt \in CHolds) + Num(sAt # "wait") = NBUFF
      BY <1>2, <2>5 DEF ShmInv, Ring, Alive, CHolds, BlockS, Gone
    <3>. QED
      BY <3>1, <3>2 DEF cliV, servV
  <2>6. \A T : Shm!Multi!Cardinality(T) = Cardinality(T)
    BY DEF Shm!Multi!Cardinality, Cardinality
  <2>. QED
    BY <2>4, <2>5, <2>6 DEF BuffersDisjoint, BuffersConserved, Shm!BuffersDisjoint,
       Shm!BuffersConserved,
       Shm!Multi!BuffersDisjoint, Shm!Multi!BuffersConserved, cAt, sAt
<1>. QED
  BY <1>1, <1>2

\* Who ends last has removed what both used.
LEMMA AllIsRemoved == ASSUME FilesInv, pair \in Pairs PROVE NothingRemains
<1>1. Shm!NothingLeft
  <2>1. cAt = "done" /\ sAt = "done" => ~cliLive /\ ~servLive /\ ~shm
    BY DEF FilesInv, ShmInv, Ends, Leaving
  <2>. QED
    BY <2>1 DEF Shm!NothingLeft, Shm!Parties, cAt, sAt
<1>2. NothingLeft
  <2>1. pair \in ShmPairs \/ pair = "transfer"
    BY FileProgramsAssumption
  <2>. QED
    BY <2>1 DEF FilesInv, TransferInv, NothingLeft, Parties
<1>. QED
  BY <1>1, <1>2 DEF NothingRemains

\* No semaphore call of server.c or client.c ends in err_sys: neither the exit nor the
\* death of a party removes a set that the other still uses, or drives a value below zero or
\* an adjustment value beyond its range.
THEOREM SemaphoresStay == Fits => (FilesSpec => []NoSemaphoreLost)
<1>. SUFFICES ASSUME Fits PROVE FilesSpec => []NoSemaphoreLost
  OBVIOUS
<1>1. FilesInv => NoSemaphoreLost
  BY NeverFails DEF FilesInv
<1>. QED
  BY <1>1, FilesInvariant, PTL

\* In 10_shared_memory one party at a time is between its sem_wait and its sem_signal, and
\* neither semaphore lets the other in.
THEOREM SegmentHasOneOwner == Fits => (FilesSpec => []OneOwner)
<1>. SUFFICES ASSUME Fits PROVE FilesSpec => []OneOwner
  OBVIOUS
<1>1. FilesInv => OneOwner
  BY OneAtATime DEF FilesInv
<1>. QED
  BY <1>1, FilesInvariant, PTL

\* In 11_multi_buffer the server never reads into the buffer that the client prints.
THEOREM BuffersAreDisjoint == Fits => (FilesSpec => []BuffersDisjoint)
<1>. SUFFICES ASSUME Fits PROVE FilesSpec => []BuffersDisjoint
  OBVIOUS
<1>1. FilesInv => BuffersDisjoint
  BY HeldOnce DEF FilesInv
<1>. QED
  BY <1>1, FilesInvariant, PTL

\* In 11_multi_buffer the two semaphores and the two parties account for the NBUFF buffers.
THEOREM BuffersAreConserved == Fits => (FilesSpec => []BuffersConserved)
<1>. SUFFICES ASSUME Fits PROVE FilesSpec => []BuffersConserved
  OBVIOUS
<1>1. FilesInv => BuffersConserved
  BY HeldOnce DEF FilesInv
<1>. QED
  BY <1>1, FilesInvariant, PTL

\* When client and server have ended by exit there is no semaphore, no segment, no FIFO and
\* no queue left, in all eight pairs of programs.
THEOREM KernelIsCleared == Fits => (FilesSpec => []NothingRemains)
<1>. SUFFICES ASSUME Fits PROVE FilesSpec => []NothingRemains
  OBVIOUS
<1>1. FilesInit => pair \in Pairs
  BY DEF FilesInit
<1>2. pair \in Pairs /\ [FilesNext]_fileVars => (pair \in Pairs)'
  BY DEF FilesNext, FilesStep, Transferring, Sharing, fileVars
<1>3. FilesInv /\ pair \in Pairs => NothingRemains
  BY AllIsRemoved
<1>. QED
  BY <1>1, <1>2, <1>3, FilesInvariant, PTL DEF FilesSpec
=============================================================================
