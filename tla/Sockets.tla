------------------------------- MODULE Sockets -------------------------------
(***************************************************************************)
(* The programs of chapter 6 but inetd, and the tool of chapter 5: a       *)
(* behaviour is one of a part, which the constant Parts lists, and the     *)
(* others do not move.  No two parts share a variable.                     *)
(***************************************************************************)
EXTENDS StreamEcho, DatagramEcho, Library, PassFd, CopyInput

CONSTANT Parts   \* a subset of "stream", "datagram", "library", "passfd", "copy"

ASSUME SocketsAssumption == Senders = Clients   \* both kinds of clients

VARIABLE part

allVars == <<part, streamVars, dgVars, libVars, passVars, copyVars>>

Some(S) == CHOOSE x \in S : TRUE

\* The parts that do not move are in some initial state.
SocketsInit ==
  /\ part \in Parts
  /\ StreamInit
  /\ part # "stream" => [program |-> program, input |-> input, header |-> header] = Some(Cases)
  /\ DgInit
  /\ part # "datagram" => protocol = Some(Protocols) /\ size = "enough"
  /\ PassInit
  /\ part # "passfd" => argv = Some(Argvs)
  /\ CopyInit
  /\ part # "copy" => copier = "select" /\ source = "pipe"
  /\ IF part = "library" THEN LibraryInit ELSE call = Some(Calls) /\ result = <<>>

Moves(p) ==
  /\ part = p
  /\ UNCHANGED part
  /\ p # "stream" => UNCHANGED streamVars
  /\ p # "datagram" => UNCHANGED dgVars
  /\ p # "library" => UNCHANGED libVars
  /\ p # "passfd" => UNCHANGED passVars
  /\ p # "copy" => UNCHANGED copyVars

SocketsNext ==
  \/ part = "stream" /\ StreamNext /\ Moves("stream")
  \/ part = "datagram" /\ DgNext /\ Moves("datagram")
  \/ part = "library" /\ LibraryNext /\ Moves("library")
  \/ part = "passfd" /\ PassNext /\ Moves("passfd")
  \/ part = "copy" /\ CopyNext /\ Moves("copy")

SocketsSpec == SocketsInit /\ [][SocketsNext]_allVars

\* The fairness of each module, of its first process and so on: only one part moves.
SocketsFair ==
  /\ SocketsSpec
  /\ WF_allVars(\/ part = "stream" /\ ListenerStep /\ Moves("stream")
                \/ part = "datagram" /\ DgServerStep /\ Moves("datagram")
                \/ part = "passfd" /\ CatStep /\ Moves("passfd")
                \/ part = "copy" /\ CopyStep /\ Moves("copy"))
  /\ WF_allVars(\/ part = "passfd" /\ OpenerStep /\ Moves("passfd")
                \/ part = "copy" /\ SigioFunc /\ Moves("copy"))
  /\ \A c \in Clients :
       /\ WF_allVars(part = "stream" /\ EndStep("server", c) /\ Moves("stream"))
       /\ WF_allVars(\/ part = "stream" /\ EndStep("client", c) /\ Moves("stream")
                     \/ part = "datagram" /\ DgClientStep(c) /\ Moves("datagram"))

-----------------------------------------------------------------------------
(* Properties: the invariants are those of the modules; what each module says of whole
   behaviours is said of the behaviours in which it moves. *)

\* The types of the connection oriented and connectionless programs.
SocketsTypeOK == StreamTypeOK /\ DgTypeOK

\* readline, writen and the servers serve every client to its end (ClientsServed of
\* StreamEcho).
EveryClientServed == part = "stream" => ClientsServed

\* No process waits for one that has ended, with a descriptor that it forgot to close
\* (EndsAreSeen of StreamEcho).
EveryEndSeen == part = "stream" => EndsAreSeen

\* The handler of tcp_daemon leaves no child a zombie (Reaped of StreamEcho).
EveryChildReaped == part = "stream" => Reaped

\* The connectionless server of send_recv logs what arrives, though it peeks first
\* (AllLogged of DatagramEcho).
EveryMessageLogged == part = "datagram" => AllLogged

\* mycat prints its files, through descriptors of processes that have ended (CatPrints of
\* PassFd).
EveryFilePrinted == part = "passfd" => CatPrints

\* async_io and stdin_stdout_select copy the input they are told of (AllCopied of CopyInput).
EveryInputCopied == part = "copy" => AllCopied
=============================================================================
