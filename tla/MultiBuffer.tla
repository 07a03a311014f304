----------------------------- MODULE MultiBuffer ----------------------------
(***************************************************************************)
(* client() and server() of 11_multi_buffer: NBUFF segments in a ring, so  *)
(* that the server reads into one while the client prints another.         *)
(* clisem counts the full buffers, servsem the empty ones.                 *)
(***************************************************************************)
EXTENDS ShmSession

CONSTANTS NBUFF,   \* at least 2: server() uses mesgptr[1]
          File, Name, Message

Buffers == 0 .. NBUFF - 1

VARIABLES
  mesgptr,   \* the segments
  i,         \* the loop index of each party
  exists,    \* open finds the file
  offset,    \* the server's offset in the file
  printed    \* what the client wrote on its standard output

protocolVars == <<mesgptr, i, exists, offset, printed>>

Reply == IF exists THEN File ELSE <<Message>>

Init ==
  /\ SessionInit
  /\ mesgptr = [b \in Buffers |-> [len |-> 0, data |-> "none"]]
  /\ i = [x \in Parties |-> 0]
  /\ exists \in BOOLEAN
  /\ offset = 0
  /\ printed = <<>>

\* Bug: the loop over the buffers never starts again.
TurnUnwrapped(x) == i' = [i EXCEPT ![x] = @ + 1]

Turn(x) == i' = [i EXCEPT ![x] = (@ + 1) % NBUFF]

-----------------------------------------------------------------------------
(* client() *)

ClientWaitTurn ==
  /\ At("client", "ask", "name") /\ WaitCli("client")
  /\ UNCHANGED protocolVars

\* The file name goes into buffer 0.
ClientName ==
  /\ At("client", "name", "name_signal")
  /\ mesgptr' = [mesgptr EXCEPT ![0] = [len |-> 1, data |-> Name]]
  /\ UNCHANGED <<semVars, shm, i, exists, offset, printed>>

ClientNameSignal ==
  /\ At("client", "name_signal", "wait") /\ SignalServ("client")
  /\ UNCHANGED protocolVars

\* Bug: the client looks without waiting.
ClientWaitNone ==
  /\ At("client", "wait", "look")
  /\ UNCHANGED <<semVars, shm, protocolVars>>

ClientWait ==
  /\ At("client", "wait", "look") /\ WaitCli("client")
  /\ UNCHANGED protocolVars

ClientLook ==
  /\ At("client", "look", IF mesgptr[i["client"]].len > 0 THEN "print" ELSE "detach")
  /\ UNCHANGED <<semVars, shm, protocolVars>>

ClientPrint ==
  /\ At("client", "print", "signal")
  /\ printed' = Append(printed, mesgptr[i["client"]].data)
  /\ UNCHANGED <<semVars, shm, mesgptr, i, exists, offset>>

ClientSignal ==
  /\ At("client", "signal", "wait") /\ SignalServ("client")
  /\ Turn("client")
  /\ UNCHANGED <<mesgptr, exists, offset, printed>>

Client == ClientWaitTurn \/ ClientName \/ ClientNameSignal \/ ClientWait \/ ClientLook
          \/ ClientPrint \/ ClientSignal

-----------------------------------------------------------------------------
(* server() *)

ServerWaitName ==
  /\ At("server", "serve", "open") /\ WaitServ("server")
  /\ UNCHANGED protocolVars

ServerOpen ==
  /\ At("server", "open", IF exists /\ mesgptr[0].data = Name THEN "fill" ELSE "message")
  /\ UNCHANGED <<semVars, shm, protocolVars>>

\* The message goes into buffer 0 and, when the client has shown it, an end into buffer 1.
ServerMessage ==
  /\ \/ /\ At("server", "message", "message_signal")
        /\ mesgptr' = [mesgptr EXCEPT ![0] = [len |-> 1, data |-> Message]]
     \/ /\ At("server", "message_end", "end_signal")
        /\ mesgptr' = [mesgptr EXCEPT ![1].len = 0]
  /\ UNCHANGED <<semVars, shm, i, exists, offset, printed>>

\* Bug: servsem says that one buffer is empty.
ServerFillOne ==
  /\ At("server", "fill", "wait") /\ SignalServ("server")
  /\ UNCHANGED protocolVars

\* for (i = 0; i < NBUFF; i++) sem_signal(servsem): every buffer is empty.
ServerFill ==
  /\ At("server", "fill", IF i["server"] < NBUFF - 1 THEN "fill" ELSE "wait")
  /\ SignalServ("server")
  /\ Turn("server")
  /\ UNCHANGED <<mesgptr, exists, offset, printed>>

\* Bug: the server does not wait for an empty buffer.
ServerWaitNone ==
  /\ At("server", "wait", "read") \/ At("server", "message_wait", "message_end")
  /\ UNCHANGED <<semVars, shm, protocolVars>>

ServerWait ==
  /\ At("server", "wait", "read") \/ At("server", "message_wait", "message_end")
  /\ WaitServ("server")
  /\ UNCHANGED protocolVars

\* read() straight into the segment
ServerRead ==
  /\ At("server", "read", "len")
  /\ IF offset < Len(File)
     THEN mesgptr' = [mesgptr EXCEPT ![i["server"]].data = File[offset + 1]]
     ELSE UNCHANGED mesgptr
  /\ UNCHANGED <<semVars, shm, i, exists, offset, printed>>

\* mesg_len = n, which is 0 at the end of the file
ServerLen ==
  /\ At("server", "len", IF offset < Len(File) THEN "signal" ELSE "end_signal")
  /\ mesgptr' = [mesgptr EXCEPT ![i["server"]].len = IF offset < Len(File) THEN 1 ELSE 0]
  /\ offset' = IF offset < Len(File) THEN offset + 1 ELSE offset
  /\ UNCHANGED <<semVars, shm, i, exists, printed>>

ServerSignal ==
  /\ \/ At("server", "signal", "wait") /\ Turn("server")
     \/ At("server", "message_signal", "message_wait") /\ UNCHANGED i
     \/ At("server", "end_signal", "poll") /\ UNCHANGED i
  /\ SignalCli("server")
  /\ UNCHANGED <<mesgptr, exists, offset, printed>>

\* Bug: the server exits at once, as that of 10_shared_memory does.
ServerPollNone ==
  /\ At("server", "poll", "close_c")
  /\ UNCHANGED <<semVars, shm, protocolVars>>

\* while (semctl(clisem, 0, GETVAL) != 0) ;
ServerPoll ==
  /\ At("server", "poll", "close_c")
  /\ cliLive /\ cliVal[0] = 0
  /\ UNCHANGED <<semVars, shm, protocolVars>>

Server == ServerWaitName \/ ServerOpen \/ ServerMessage \/ ServerFill \/ ServerWait
          \/ ServerRead \/ ServerLen \/ ServerSignal \/ ServerPoll

-----------------------------------------------------------------------------
TypeOK ==
  /\ Cli!TypeOK /\ Serv!TypeOK
  /\ shm \in BOOLEAN
  /\ mesgptr \in [Buffers -> [len : {0, 1},
       data : {"none", Name, Message} \cup {File[k] : k \in DOMAIN File}]]
  /\ i \in [Parties -> Buffers]
  /\ exists \in BOOLEAN /\ offset \in 0 .. Len(File)
  /\ Len(printed) =< Len(File) + 1

\* The buffer a party is at, between its sem_wait and its next sem_signal.
Holds(x) ==
  CASE at[x] \in {"name", "name_signal", "open", "message", "message_signal"} -> {0}
    [] at[x] = "message_end" -> {1}
    [] at[x] \in {"look", "print", "signal", "read", "len"} -> {i[x]}
    [] at[x] = "end_signal" -> IF exists THEN {i[x]} ELSE {1}
    [] OTHER -> {}

\* The parties work at the same time but never in the same buffer: the server does not
\* read into a buffer that the client has not printed.
BuffersDisjoint == Holds("client") \cap Holds("server") = {}

\* While the file is sent each buffer is empty, full, or held by one party: the two
\* semaphores account for all of them.
BuffersConserved ==
  (/\ exists
   /\ at["server"] \in {"wait", "read", "len", "signal", "end_signal"}
   /\ at["client"] \in {"wait", "look", "print", "signal"})
  => cliVal[0] + servVal[0] + Cardinality(Holds("client")) + Cardinality(Holds("server"))
     = NBUFF

\* What is printed is the file, or the message, in order: no buffer is filled again before
\* it was printed, whoever dies on the way; and all of it arrives when nobody does.
Transfer == INSTANCE FileTransfer WITH reply <- Reply, Message <- <<Message>>
PrintsInOrder == Transfer!Spec
PrintsAll == Undisturbed => <>(printed = Reply)
=============================================================================
