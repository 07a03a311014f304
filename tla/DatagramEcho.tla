---------------------------- MODULE DatagramEcho ----------------------------
(***************************************************************************)
(* The connectionless clients and servers of chapter 6.  A client sends a  *)
(* line and waits for the answer, with no timeout; the server answers the  *)
(* address that the datagram came from.  A datagram is <<client, line>>,   *)
(* the line by its number; the last line of each client is the command     *)
(* that the two services of inetd end on.                                  *)
(***************************************************************************)
EXTENDS Integers, Sequences, FiniteSets, SequencesExt

CONSTANTS
  Senders,
  Protocols,     \* the programs that are run: udp, idp, unix_dg, dg_echo, dg_dis, dg_log
  Lines,         \* number of lines of each client's standard input
  MaxDgFaults,   \* bound: datagrams lost or duplicated and clients killed, together
  NoSender

\* The servers: whether their domain loses and duplicates datagrams, and what they do with
\* one.  The clients: whether they wait for an answer.
DgServer(lossy, service) == [lossy |-> lossy, service |-> service]
UdpServer == DgServer(TRUE, "echo")
IdpServer == DgServer(TRUE, "echo")
UnixDgServer == DgServer(FALSE, "echo")
LogServer == DgServer(TRUE, "log")
UdpClient == [waits |-> TRUE]
IdpClient == [waits |-> TRUE]
UnixDgClient == [waits |-> TRUE]
LogClient == [waits |-> FALSE]

DgPrograms ==
  [udp |-> [server |-> UdpServer, client |-> UdpClient],
   idp |-> [server |-> IdpServer, client |-> IdpClient],
   unix_dg |-> [server |-> UnixDgServer, client |-> UnixDgClient],
   dg_echo |-> [server |-> DgServer(TRUE, "dg_echo"), client |-> UdpClient],
   dg_dis |-> [server |-> DgServer(TRUE, "dg_dis"), client |-> UdpClient],
   dg_log |-> [server |-> LogServer, client |-> LogClient]]

ASSUME DatagramAssumption ==
  /\ Protocols \subseteq DOMAIN DgPrograms
  /\ Lines \in Nat \ {0} /\ MaxDgFaults \in Nat
  /\ NoSender \notin Senders

VARIABLES
  protocol,      \* which program runs
  dg_at,         \* where each client is
  dg_sent,       \* lines each client has sent
  shown,         \* what it has printed
  queue,         \* datagrams at the server's socket
  answers,       \* those at each client's socket
  server_at,     \* where the server is
  pcli_addr,     \* the address recvfrom has stored
  mesg,          \* the line it has stored
  first_client,  \* the only client that a service of inetd answers
  size,          \* client_sock_addr_size of send_recv, not initialized
  logged,        \* what the server of send_recv has logged
  lost, dups, dead

dgClientVars == <<protocol, dg_at, dg_sent, shown>>
dgServerVars == <<server_at, pcli_addr, mesg, first_client, size, logged>>
dgFaults == <<lost, dups, dead>>
dgVars == <<dgClientVars, dgServerVars, queue, answers, dgFaults>>

service == DgPrograms[protocol].server.service
lossy == DgPrograms[protocol].server.lossy
waits == DgPrograms[protocol].client.waits

\* What the server's size may be before the first recvfrom: too small for the address, so
\* that its family is not stored; enough; or a negative length.
Sizes == {"small", "enough", "negative"}

DgInit ==
  /\ protocol \in Protocols
  /\ dg_at = [c \in Senders |-> "sendto"]
  /\ dg_sent = [c \in Senders |-> 0] /\ shown = [c \in Senders |-> <<>>]
  /\ queue = <<>> /\ answers = [c \in Senders |-> <<>>]
  /\ server_at = IF service = "log" THEN "peek" ELSE "recvfrom"
  /\ pcli_addr = NoSender /\ mesg = 0 /\ first_client = NoSender
  /\ size \in IF service = "log" THEN Sizes ELSE {"enough"}
  /\ logged = <<>>
  /\ lost = 0 /\ dups = 0 /\ dead = {}

-----------------------------------------------------------------------------
(* The client: dg_cli, and the client of send_recv, which does not wait *)

\* Another client socket is bound to an address of its own, by the kernel or by mktemp.
HasSocket(c) == dg_at[c] \in {"sendto", "recvfrom"}

\* sendto finds no server only in the UNIX domain; else the datagram is on its way.
Sendto(c) ==
  /\ dg_at[c] = "sendto" /\ dg_sent[c] < Lines
  /\ IF ~lossy /\ server_at = "over"
     THEN /\ dg_at' = [dg_at EXCEPT ![c] = "failed"]
          /\ UNCHANGED <<dg_sent, queue>>
     ELSE /\ dg_sent' = [dg_sent EXCEPT ![c] = @ + 1]
          /\ queue' = Append(queue, <<c, dg_sent[c] + 1>>)
          /\ dg_at' = [dg_at EXCEPT ![c] = IF waits THEN "recvfrom" ELSE "done"]
  /\ UNCHANGED <<protocol, shown, dgServerVars, answers, dgFaults>>

DgCliRecvfrom(c) ==
  /\ dg_at[c] = "recvfrom" /\ answers[c] # <<>>
  /\ answers' = [answers EXCEPT ![c] = Tail(@)]
  /\ shown' = [shown EXCEPT ![c] = Append(@, Head(answers[c]))]
  /\ dg_at' = [dg_at EXCEPT ![c] = "sendto"]
  /\ UNCHANGED <<protocol, dg_sent, dgServerVars, queue, dgFaults>>

\* The end of the input: close, and unlink of the client's path.
DgCliEnd(c) ==
  /\ dg_at[c] = "sendto" /\ dg_sent[c] = Lines
  /\ dg_at' = [dg_at EXCEPT ![c] = "done"]
  /\ UNCHANGED <<protocol, dg_sent, shown, dgServerVars, queue, answers, dgFaults>>

-----------------------------------------------------------------------------
(* The servers *)

\* Bug: the address is that of the last datagram that was answered.
DgRecvfromStale ==
  /\ server_at = "recvfrom" /\ queue # <<>>
  /\ queue' = Tail(queue)
  /\ pcli_addr' = IF pcli_addr = NoSender THEN Head(queue)[1] ELSE pcli_addr
  /\ mesg' = Head(queue)[2]
  /\ server_at' = "sendto"
  /\ first_client' = IF first_client = NoSender THEN pcli_addr' ELSE first_client
  /\ UNCHANGED <<dgClientVars, size, logged, answers, dgFaults>>

\* A service of inetd reads on when the port is not that of its first client.
DgRecvfrom ==
  /\ server_at = "recvfrom" /\ queue # <<>>
  /\ queue' = Tail(queue)
  /\ pcli_addr' = Head(queue)[1] /\ mesg' = Head(queue)[2]
  /\ IF service \in {"dg_echo", "dg_dis"}
     THEN /\ first_client' = IF first_client = NoSender THEN pcli_addr' ELSE first_client
          /\ server_at' = IF first_client' = pcli_addr' THEN "sendto" ELSE "recvfrom"
     ELSE server_at' = "sendto" /\ UNCHANGED first_client
  /\ UNCHANGED <<dgClientVars, size, logged, answers, dgFaults>>

\* To a UNIX domain client that is gone sendto fails, and the server with it.
Answer(l) ==
  /\ answers' = IF HasSocket(pcli_addr)
                THEN [answers EXCEPT ![pcli_addr] = Append(@, <<pcli_addr, l>>)] ELSE answers
  /\ server_at' = IF ~lossy /\ ~HasSocket(pcli_addr) THEN "over" ELSE "recvfrom"

DgEcho ==
  /\ service = "echo" /\ server_at = "sendto"
  /\ Answer(mesg)
  /\ UNCHANGED <<dgClientVars, pcli_addr, mesg, first_client, size, logged, queue, dgFaults>>

\* On the command the service ends without an answer; inetd starts another for the next
\* datagram.
InetdDgEcho ==
  /\ service = "dg_echo" /\ server_at = "sendto"
  /\ IF mesg = Lines
     THEN /\ server_at' = "recvfrom" /\ first_client' = NoSender
          /\ UNCHANGED answers
     ELSE Answer(mesg) /\ UNCHANGED first_client
  /\ UNCHANGED <<dgClientVars, pcli_addr, mesg, size, logged, queue, dgFaults>>

\* The answer is empty, "closing" for the command.
InetdDgDis ==
  /\ service = "dg_dis" /\ server_at = "sendto"
  /\ Answer(mesg)
  /\ first_client' = IF mesg = Lines THEN NoSender ELSE first_client
  /\ UNCHANGED <<dgClientVars, pcli_addr, mesg, size, logged, queue, dgFaults>>

\* Bug: the first recvfrom of the loop is the first of all.
PeekNone ==
  /\ server_at = "peek"
  /\ server_at' = "recvfrom"
  /\ UNCHANGED <<dgClientVars, pcli_addr, mesg, first_client, size, logged, queue, answers,
                 dgFaults>>

\* recvfrom with MSG_PEEK stores the size of the address.  It fails for a negative size, but
\* the result is unsigned and no error is seen.
Peek ==
  /\ server_at = "peek" /\ queue # <<>>
  /\ server_at' = "recvfrom"
  /\ size' = IF size = "negative" THEN size ELSE "enough"
  /\ UNCHANGED <<dgClientVars, pcli_addr, mesg, first_client, logged, queue, answers, dgFaults>>

\* A message is logged when the family of its sender is AF_INET: when it was stored.
Log ==
  /\ service = "log" /\ server_at = "sendto"
  /\ logged' = IF size = "enough" THEN Append(logged, <<pcli_addr, mesg>>) ELSE logged
  /\ size' = IF size = "negative" THEN size ELSE "enough"
  /\ server_at' = "recvfrom"
  /\ UNCHANGED <<dgClientVars, pcli_addr, mesg, first_client, queue, answers, dgFaults>>

-----------------------------------------------------------------------------
(* The network, which loses and duplicates; a socket of the UNIX domain does neither *)

DgFaulty == lost + dups + Cardinality(dead) < MaxDgFaults

Lose ==
  /\ DgFaulty /\ lossy /\ lost' = lost + 1
  /\ \/ \E k \in DOMAIN queue : queue' = RemoveAt(queue, k) /\ UNCHANGED answers
     \/ \E c \in Senders : \E k \in DOMAIN answers[c] :
          answers' = [answers EXCEPT ![c] = RemoveAt(@, k)] /\ UNCHANGED queue
  /\ UNCHANGED <<dgClientVars, dgServerVars, dups, dead>>

Duplicate ==
  /\ DgFaulty /\ lossy /\ dups' = dups + 1
  /\ \/ \E k \in DOMAIN queue : queue' = Append(queue, queue[k]) /\ UNCHANGED answers
     \/ \E c \in Senders : \E k \in DOMAIN answers[c] :
          answers' = [answers EXCEPT ![c] = Append(@, @[k])] /\ UNCHANGED queue
  /\ UNCHANGED <<dgClientVars, dgServerVars, lost, dead>>

DgKill(c) ==
  /\ DgFaulty /\ HasSocket(c)
  /\ dg_at' = [dg_at EXCEPT ![c] = "dead"]
  /\ dead' = dead \cup {c}
  /\ answers' = [answers EXCEPT ![c] = <<>>]
  /\ UNCHANGED <<protocol, dg_sent, shown, dgServerVars, queue, lost, dups>>

DgClientStep(c) == Sendto(c) \/ DgCliRecvfrom(c) \/ DgCliEnd(c)
DgServerStep == DgRecvfrom \/ DgEcho \/ InetdDgEcho \/ InetdDgDis \/ Peek \/ Log

DgNext ==
  \/ \E c \in Senders : DgClientStep(c) \/ DgKill(c)
  \/ DgServerStep \/ Lose \/ Duplicate

DgSpec == DgInit /\ [][DgNext]_dgVars

\* The server and the clients are scheduled.
DgFair == DgSpec /\ WF_dgVars(DgServerStep) /\ \A c \in Senders : WF_dgVars(DgClientStep(c))

-----------------------------------------------------------------------------
(* Properties *)

DgTypeOK ==
  /\ dg_at \in [Senders -> {"sendto", "recvfrom", "done", "failed", "dead"}]
  /\ dg_sent \in [Senders -> 0 .. Lines]
  /\ server_at \in {"peek", "recvfrom", "sendto", "over"}
  /\ {pcli_addr, first_client} \subseteq Senders \cup {NoSender} /\ mesg \in 0 .. Lines
  /\ size \in Sizes
  /\ dead \subseteq Senders

\* A client gets answers to lines of its own only.  A lost datagram stops it, a duplicate
\* shifts its answers, and a late one may put them in any order; but of the first k answers
\* no more are repeated than there were duplicates, and none is to a line after the k-th.
LagBounded == \A c \in Senders : \A k \in DOMAIN shown[c] :
  LET answered == {shown[c][j] : j \in 1 .. k} IN
  /\ answered \subseteq {c} \X (1 .. k)
  /\ Cardinality(answered) >= k - dups

\* The server of send_recv logs every message, if none is lost, unless the size it did not
\* initialize was negative (server.c:45-57).
AllLogged == []<>(service = "log" /\ size # "negative" /\ lost = 0 =>
  \A c \in Senders : {c} \X (1 .. dg_sent[c]) \subseteq ToSet(logged))
=============================================================================
