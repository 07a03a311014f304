------------------------------ MODULE SharedMem -----------------------------
(***************************************************************************)
(* client() and server() of 10_shared_memory: one segment that holds one   *)
(* message, passed to and fro by signalling the other party's semaphore.   *)
(* A read returns a block, a length of zero ends the file.                 *)
(***************************************************************************)
EXTENDS ShmSession

CONSTANTS File,      \* the blocks that read returns, until it returns 0
          Name,      \* the file name, as a message
          Message    \* the message that the file cannot be opened

VARIABLES
  mesg,      \* *mesgptr: its mesg_len, as zero or positive, and its mesg_data
  exists,    \* open finds the file
  offset,    \* the server's offset in the file
  printed    \* what the client wrote on its standard output

protocolVars == <<mesg, exists, offset, printed>>

Reply == IF exists THEN File ELSE <<Message>>

Init ==
  /\ SessionInit
  /\ mesg = [len |-> 0, data |-> "none"]
  /\ exists \in BOOLEAN
  /\ offset = 0
  /\ printed = <<>>

-----------------------------------------------------------------------------
(* client() *)

\* sem_wait(clisem) for the turn; fgets and mesg_len; sem_signal(servsem).
ClientWaitTurn ==
  /\ At("client", "ask", "name") /\ WaitCli("client")
  /\ UNCHANGED protocolVars

ClientName ==
  /\ At("client", "name", "name_signal")
  /\ mesg' = [len |-> 1, data |-> Name]
  /\ UNCHANGED <<semVars, shm, exists, offset, printed>>

ClientSignal ==
  /\ \/ At("client", "name_signal", "wait") \/ At("client", "signal", "wait")
  /\ SignalServ("client")
  /\ UNCHANGED protocolVars

ClientWait ==
  /\ At("client", "wait", "look") /\ WaitCli("client")
  /\ UNCHANGED protocolVars

\* while ((n = mesgptr->mesg_len) > 0)
ClientLook ==
  /\ At("client", "look", IF mesg.len > 0 THEN "print" ELSE "detach")
  /\ UNCHANGED <<semVars, shm, protocolVars>>

ClientPrint ==
  /\ At("client", "print", "signal")
  /\ printed' = Append(printed, mesg.data)
  /\ UNCHANGED <<semVars, shm, mesg, exists, offset>>

Client == ClientWaitTurn \/ ClientName \/ ClientSignal \/ ClientWait \/ ClientLook
          \/ ClientPrint

-----------------------------------------------------------------------------
(* server() *)

ServerWaitName ==
  /\ At("server", "serve", "open") /\ WaitServ("server")
  /\ UNCHANGED protocolVars

\* open(); when it fails the message replaces the name.  mesg_data is written before
\* mesg_len.
ServerOpen ==
  /\ At("server", "open", IF exists /\ mesg.data = Name THEN "read" ELSE "message_len")
  /\ mesg' = IF exists /\ mesg.data = Name THEN mesg ELSE [mesg EXCEPT !.data = Message]
  /\ UNCHANGED <<semVars, shm, exists, offset, printed>>

\* Bug: the last block is taken for the end.
ServerReadShort ==
  /\ At("server", "read", IF offset + 1 < Len(File) THEN "block_len" ELSE "end")
  /\ mesg' = [mesg EXCEPT !.data = File[offset + 1]] /\ offset' = offset + 1
  /\ UNCHANGED <<semVars, shm, exists, printed>>

\* read() straight into the segment; at the end of the file the loop is left.
ServerRead ==
  /\ At("server", "read", IF offset < Len(File) THEN "block_len" ELSE "end")
  /\ IF offset < Len(File)
     THEN mesg' = [mesg EXCEPT !.data = File[offset + 1]] /\ offset' = offset + 1
     ELSE UNCHANGED <<mesg, offset>>
  /\ UNCHANGED <<semVars, shm, exists, printed>>

ServerLen ==
  /\ \/ At("server", "block_len", "block_signal")
     \/ At("server", "message_len", "message_signal")
  /\ mesg' = [mesg EXCEPT !.len = 1]
  /\ UNCHANGED <<semVars, shm, exists, offset, printed>>

\* Bug: the server reads on without waiting for the client.
ServerSignalNoWait ==
  /\ \/ At("server", "block_signal", "read")
     \/ At("server", "end_signal", "close_c")
  /\ SignalCli("server")
  /\ UNCHANGED protocolVars

ServerSignal ==
  /\ \/ At("server", "block_signal", "block_wait")
     \/ At("server", "message_signal", "message_wait")
     \/ At("server", "end_signal", "close_c")
  /\ SignalCli("server")
  /\ UNCHANGED protocolVars

ServerWait ==
  /\ \/ At("server", "block_wait", "read")
     \/ At("server", "message_wait", "end")
  /\ WaitServ("server")
  /\ UNCHANGED protocolVars

\* "Send a message with a length of 0 to signify the end."
ServerEnd ==
  /\ At("server", "end", "end_signal")
  /\ mesg' = [mesg EXCEPT !.len = 0]
  /\ UNCHANGED <<semVars, shm, exists, offset, printed>>

Server == ServerWaitName \/ ServerOpen \/ ServerRead \/ ServerLen \/ ServerSignal
          \/ ServerWait \/ ServerEnd

-----------------------------------------------------------------------------
TypeOK ==
  /\ Cli!TypeOK /\ Serv!TypeOK
  /\ shm \in BOOLEAN
  /\ mesg \in [len : {0, 1}, data : {"none", Name, Message} \cup {File[i] : i \in DOMAIN File}]
  /\ exists \in BOOLEAN /\ offset \in 0 .. Len(File)
  /\ Len(printed) =< Len(File) + 1

\* The parties that may touch the segment between a sem_wait and the next sem_signal.
InSegment == {x \in Parties : at[x] \in
  {"name", "name_signal", "look", "print", "signal", "open", "read", "block_len",
   "message_len", "block_signal", "message_signal", "end", "end_signal"}}

\* The segment has one owner at a time, though no lock protects it, even when the exit or
\* the death of a party undoes its signals and waits; and until then both semaphores are 0
\* while a party is in the segment, so neither sem_wait can let the other in.
OneOwner ==
  /\ Cardinality(InSegment) =< 1
  /\ (InSegment # {} /\ \A x \in Parties : at[x] \notin {"dead", "done"})
       => cliVal[0] = 0 /\ servVal[0] = 0

\* What is printed is the file, or the message, in order and without loss, repetition or
\* a stale block, whoever dies on the way; and all of it arrives when nobody does.
Transfer == INSTANCE FileTransfer WITH reply <- Reply, Message <- <<Message>>
PrintsInOrder == Transfer!Spec
PrintsAll == Undisturbed => <>(printed = Reply)
=============================================================================
