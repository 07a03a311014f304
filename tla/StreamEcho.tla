----------------------------- MODULE StreamEcho -----------------------------
(***************************************************************************)
(* The connection oriented clients and servers of chapter 6: a server      *)
(* accepts connections and echoes, line by line, what each client has read *)
(* from its standard input.  The programs differ in whether the server     *)
(* forks, what it does when fork fails, in a header, and in the service.   *)
(***************************************************************************)
EXTENDS Integers, Sequences, FiniteSets, SequencesExt

CONSTANTS
  Clients,
  Cases,         \* program, standard input of each client, and header: one is the case
  Newline, NUL,  \* two characters that mean something
  Quit,          \* the text that ends a session, as one character
  MAXLINE,       \* size of the line buffers
  Killable,      \* bound: the clients that are killed, or their servers
  MaxFaults,     \* bound: processes killed and forks that fail, together
  NoClient

Ends == {"client", "server"}
Other(e) == IF e = "client" THEN "server" ELSE "client"

\* Bug: no room is left for the null character.
RoomOff == MAXLINE

\* The bytes that readline and fgets put in a buffer, before the null character.
Room == MAXLINE - 1

\* What a server does with a line, <<>> when the count is 0: where it is then.
StrEcho(l) == IF l = <<>> THEN "return" ELSE "write"
DaemonEcho(l) == IF l = <<>> \/ Head(l) = Quit THEN "return" ELSE "write"
InetdEcho(l) == IF l = <<>> \/ l = <<Quit, NUL>> THEN "return" ELSE "write"
InetdDiscard(l) == IF l = <<>> \/ Head(l) = Quit THEN "return" ELSE "read"

\* The servers: whether they fork, and go on when fork fails.
Server(forks, goesOn, service) == [forks |-> forks, goesOn |-> goesOn, service |-> service]
TcpServer == Server(TRUE, TRUE, "str_echo")
SppServer == Server(FALSE, TRUE, "str_echo")
UnixServer == Server(TRUE, FALSE, "str_echo")
SyscallsServer == Server(TRUE, TRUE, "header")
DaemonServer == Server(TRUE, FALSE, "daemon")
SendRecvServer == Server(TRUE, TRUE, "recv")
InetdServer(service) == Server(TRUE, FALSE, service)

\* The clients: where they are once connected, and after a line has been written.
Client(first, then) == [first |-> first, then |-> then]
TcpClient == Client("fgets", "read")
SppClient == Client("fgets", "read")
UnixClient == Client("fgets", "read")
SyscallsClient == Client("writev", "read")
SendRecvClient == Client("fgets", "return")
DiscardClient == Client("fgets", "fgets")

Pairs ==
  [tcp |-> [server |-> TcpServer, client |-> TcpClient],
   spp |-> [server |-> SppServer, client |-> SppClient],
   unix_stream |-> [server |-> UnixServer, client |-> UnixClient],
   syscalls |-> [server |-> SyscallsServer, client |-> SyscallsClient],
   tcp_daemon |-> [server |-> DaemonServer, client |-> TcpClient],
   send_recv |-> [server |-> SendRecvServer, client |-> SendRecvClient],
   inetd_echo |-> [server |-> InetdServer("inetd_echo"), client |-> TcpClient],
   inetd_discard |-> [server |-> InetdServer("discard"), client |-> DiscardClient]]

\* What is typed is text: strlen finds the end of what fgets has read.
ASSUME StreamEchoAssumption ==
  /\ \A k \in Cases :
       /\ k.program \in DOMAIN Pairs /\ k.header \in {"same", "version", "protocol"}
       /\ DOMAIN k.input = Clients
       /\ \A c \in Clients : LET s == k.input[c] IN s \in Seq(ToSet(s) \ {NUL})
  /\ Killable \subseteq Clients
  /\ MAXLINE \in Nat /\ MAXLINE >= 2
  /\ Newline # NUL /\ Quit \notin {Newline, NUL}
  /\ NoClient \notin Clients

VARIABLES
  program,    \* which pair of Pairs runs
  listener,   \* where the server is that accepts
  accepted,   \* its newsockfd: the client at the other end
  backlog,    \* connections that wait to be accepted
  at,         \* at[e][c]: where the process at end e of the connection of c is
  line,       \* line[e][c]: its buffer, the bytes read or yet to be written
  wire,       \* wire[e][c]: the bytes on the way to that end
  holds,      \* <<p, c>>: process p has a descriptor of its end of that connection
  reset,      \* connections that the kernel has reset
  input,      \* the standard input of each client
  taken,      \* how much of it fgets has read
  printed,    \* what each client, in send_recv its server, has printed
  header,     \* "same", or what differs in the header that the clients send
  unreaped,    \* children of the listener that have ended, not yet waited for
  sigcld,    \* SIGCHLD is pending for the listener, which catches it
  handler,    \* the listener is in its handler
  faults

listenerVars == <<listener, accepted, backlog, handler>>
userVars == <<program, input, header>>
streamVars == <<listenerVars, at, line, wire, holds, reset, taken, printed, unreaped, sigcld,
                userVars, faults>>

theServer == Pairs[program].server
theClient == Pairs[program].client
catches == program = "tcp_daemon"

StreamInit ==
  /\ \E k \in Cases : program = k.program /\ input = k.input /\ header = k.header
  /\ listener = "accept" /\ accepted = NoClient /\ backlog = <<>>
  /\ at = [e \in Ends |-> [c \in Clients |-> IF e = "client" THEN "connect" ELSE "none"]]
  /\ line = [e \in Ends |-> [c \in Clients |-> <<>>]]
  /\ wire = [e \in Ends |-> [c \in Clients |-> <<>>]]
  /\ holds = {} /\ reset = {}
  /\ taken = [c \in Clients |-> 0]
  /\ printed = [c \in Clients |-> <<>>]
  /\ unreaped = {} /\ sigcld = FALSE /\ handler = FALSE
  /\ faults = 0

-----------------------------------------------------------------------------
(* The connection, which the kernel keeps *)

IsOpen(h, e, c) ==
  IF e = "client" THEN <<"client", c>> \in h
                  ELSE {<<"listener", c>>, <<"child", c>>} \cap h # {}

\* Descriptors are closed.  What has arrived at an end that nobody has open any more is
\* lost, and the connection reset.
Drop(closed) ==
  /\ holds' = holds \ closed
  /\ wire' = [e \in Ends |-> [c \in Clients |->
                IF IsOpen(holds', e, c) THEN wire[e][c] ELSE <<>>]]
  /\ reset' = reset \cup {c \in Clients : wire'["client"][c] # wire["client"][c]
                                         \/ wire'["server"][c] # wire["server"][c]}

\* write or send of s: it arrives; or it does not, and resets the connection; or it is
\* EPIPE and SIGPIPE.
Send(e, c, s, then) ==
  LET o == Other(e) IN
  /\ UNCHANGED holds
  /\ \/ /\ IsOpen(holds, o, c)
        /\ wire' = [wire EXCEPT ![o][c] = @ \o s]
        /\ at' = [at EXCEPT ![e][c] = then]
        /\ UNCHANGED reset
     \/ /\ ~IsOpen(holds, o, c) /\ c \notin reset
        /\ reset' = reset \cup {c}
        /\ at' = [at EXCEPT ![e][c] = then]
        /\ UNCHANGED wire
     \/ /\ ~IsOpen(holds, o, c) /\ c \in reset
        /\ at' = [at EXCEPT ![e][c] = "fail"]
        /\ UNCHANGED <<wire, reset>>

\* read returns 0, or -1 after a reset.
NoMore(e, c) == wire[e][c] = <<>> /\ ~IsOpen(holds, Other(e), c)

-----------------------------------------------------------------------------
(* readline and writen, and what client and server do with what they return *)

StrlenOf(l) == IF NUL \in ToSet(l) THEN (CHOOSE i \in DOMAIN l : l[i] = NUL /\
                 \A j \in 1 .. i - 1 : l[j] # NUL) - 1 ELSE Len(l)

\* fputs writes as far as the first null character.
StrCli(c, l) ==
  /\ printed' = [printed EXCEPT ![c] = @ \o SubSeq(l, 1, StrlenOf(l))]
  /\ at' = [at EXCEPT !["client"][c] = "fgets"]
  /\ line' = [line EXCEPT !["client"][c] = <<>>]

Serve(c, l) ==
  LET to == CASE theServer.service = "daemon" -> DaemonEcho(l)
              [] theServer.service = "inetd_echo" -> InetdEcho(l)
              [] theServer.service = "discard" -> InetdDiscard(l)
              [] OTHER -> StrEcho(l) IN
  /\ at' = [at EXCEPT !["server"][c] = to]
  /\ line' = [line EXCEPT !["server"][c] = IF to = "write" THEN l ELSE <<>>]
  /\ UNCHANGED printed

\* readline has put l in the buffer and returns its length.
Return(e, c, l) == IF e = "client" THEN StrCli(c, l) ELSE Serve(c, l)

\* One byte, up to a newline or to maxlen - 1 of them.  The count is 1 in the first
\* iteration: unless a newline breaks the loop, the null character is counted.
Readline(e, c) ==
  /\ at[e][c] = "read"
  /\ \/ /\ wire[e][c] # <<>>
        /\ wire' = [wire EXCEPT ![e][c] = Tail(@)]
        /\ LET l == Append(line[e][c], Head(wire[e][c])) IN
           IF Last(l) = Newline THEN Return(e, c, l)
           ELSE IF Len(l) = Room THEN Return(e, c, Append(l, NUL))
           ELSE line' = [line EXCEPT ![e][c] = l] /\ UNCHANGED <<at, printed>>
     \/ /\ NoMore(e, c)
        /\ Return(e, c, IF line[e][c] = <<>> THEN <<>> ELSE Append(line[e][c], NUL))
        /\ UNCHANGED wire
     \/ /\ NoMore(e, c) /\ c \in reset
        /\ at' = [at EXCEPT ![e][c] = "fail"]
        /\ UNCHANGED <<wire, line, printed>>
  /\ UNCHANGED <<holds, reset, taken>>

\* Bug: what a short write has left is not written.
WritenOnce(e, c) ==
  /\ at[e][c] = "write"
  /\ \E n \in 1 .. Len(line[e][c]) :
       Send(e, c, SubSeq(line[e][c], 1, n), IF e = "client" THEN theClient.then ELSE "read")
  /\ line' = [line EXCEPT ![e][c] = <<>>]
  /\ UNCHANGED <<printed, taken>>

\* Bug: the pointer is not advanced, only the count.
WritenAgain(e, c) ==
  /\ at[e][c] = "write"
  /\ \E n \in 1 .. Len(line[e][c]) :
       /\ line' = [line EXCEPT ![e][c] = SubSeq(@, 1, Len(@) - n)]
       /\ Send(e, c, SubSeq(line[e][c], 1, n),
               IF n < Len(line[e][c]) THEN "write"
               ELSE IF e = "client" THEN theClient.then ELSE "read")
  /\ UNCHANGED <<printed, taken>>

\* Each write takes some of the bytes; the send of send_recv takes all.
Writen(e, c) ==
  /\ at[e][c] = "write"
  /\ \E n \in 1 .. Len(line[e][c]) :
       /\ program = "send_recv" => n = Len(line[e][c])
       /\ line' = [line EXCEPT ![e][c] = SubSeq(@, n + 1, Len(@))]
       /\ Send(e, c, SubSeq(line[e][c], 1, n),
               IF n < Len(line[e][c]) THEN "write"
               ELSE IF e = "client" THEN theClient.then ELSE "read")
  /\ UNCHANGED <<printed, taken>>

\* fgets: at most MAXLINE - 1 characters, and no more than a line.
NextLine(s) ==
  LET n == CHOOSE k \in 1 .. Len(s) :
             /\ k =< Room
             /\ \A j \in 1 .. k - 1 : s[j] # Newline
             /\ k = Len(s) \/ k = Room \/ s[k] = Newline
  IN  SubSeq(s, 1, n)

Fgets(c) ==
  LET rest == SubSeq(input[c], taken[c] + 1, Len(input[c])) IN
  /\ at["client"][c] = "fgets"
  /\ IF rest = <<>>
     THEN at' = [at EXCEPT !["client"][c] = "return"] /\ UNCHANGED <<line, taken>>
     ELSE /\ at' = [at EXCEPT !["client"][c] = "write"]
          /\ line' = [line EXCEPT !["client"][c] = NextLine(rest)]
          /\ taken' = [taken EXCEPT ![c] = @ + Len(NextLine(rest))]
  /\ UNCHANGED <<wire, holds, reset, printed>>

\* recv of send_recv: once, whatever has arrived of the message.
Recv(c) ==
  /\ at["server"][c] = "recv"
  /\ \/ \E n \in 1 .. Len(wire["server"][c]) :
          /\ printed' = [printed EXCEPT ![c] = @ \o SubSeq(wire["server"][c], 1, n)]
          /\ wire' = [wire EXCEPT !["server"][c] = SubSeq(@, n + 1, Len(@))]
     \/ NoMore("server", c) /\ UNCHANGED <<printed, wire>>
  /\ at' = [at EXCEPT !["server"][c] = "return"]
  /\ UNCHANGED <<line, holds, reset, taken>>

-----------------------------------------------------------------------------
(* The header of 6.syscalls.  What readv or recv does not fill, at the end of the file, is
   taken for the text that was expected: it goes on, except after their error. *)

Take(e, c, then) ==
  /\ \/ /\ wire[e][c] # <<>>
        /\ wire' = [wire EXCEPT ![e][c] = Tail(@)]
        /\ at' = [at EXCEPT ![e][c] = then]
     \/ /\ NoMore(e, c)
        /\ at' = [at EXCEPT ![e][c] = then]
        /\ UNCHANGED wire
     \/ /\ NoMore(e, c) /\ c \in reset
        /\ at' = [at EXCEPT ![e][c] = "fail"]
        /\ UNCHANGED wire
  /\ UNCHANGED <<holds, reset>>

ServerHeader(c) ==
  /\ \/ at["server"][c] = "header" /\ Take("server", c, "version")
     \/ /\ at["server"][c] = "version"
        /\ Send("server", c, <<IF header = "version" THEN "error" ELSE "success">>, "protocol")
     \/ /\ at["server"][c] = "protocol"
        /\ Send("server", c, <<IF header = "protocol" THEN "error" ELSE "success">>,
                IF header = "same" THEN "read" ELSE "return")
  /\ UNCHANGED <<line, printed, taken>>

ClientHeader(c) ==
  /\ \/ at["client"][c] = "writev" /\ Send("client", c, <<"header">>, "version")
     \/ \E here \in {"version", "protocol"} :
          /\ at["client"][c] = here
          /\ Take("client", c,
                  IF wire["client"][c] # <<>> /\ Head(wire["client"][c]) = "error" THEN "fail"
                  ELSE IF here = "version" THEN "protocol" ELSE "fgets")
  /\ UNCHANGED <<line, printed, taken>>

-----------------------------------------------------------------------------
(* The processes *)

Connect(c) ==
  /\ at["client"][c] = "connect"
  /\ \/ /\ listener # "over"
        /\ backlog' = Append(backlog, c)
        /\ holds' = holds \cup {<<"client", c>>, <<"listener", c>>}
        /\ at' = [at EXCEPT !["client"][c] = theClient.first]
     \/ /\ listener = "over"
        /\ at' = [at EXCEPT !["client"][c] = "failed"]
        /\ UNCHANGED <<backlog, holds>>
  /\ UNCHANGED <<listener, accepted, handler, line, wire, reset, taken, printed, unreaped,
                 sigcld, faults>>

AcceptConnection ==
  /\ listener = "accept" /\ ~handler
  /\ backlog # <<>>
  /\ accepted' = Head(backlog) /\ backlog' = Tail(backlog)
  /\ listener' = IF theServer.forks THEN "fork" ELSE "serve"
  /\ at' = IF theServer.forks THEN at ELSE [at EXCEPT !["server"][Head(backlog)] = "read"]
  /\ UNCHANGED <<handler, line, wire, holds, reset, taken, printed, unreaped, sigcld, faults>>

\* Where the child is after the fork.
Begins == CASE theServer.service = "header" -> "header"
            [] theServer.service = "recv" -> "recv"
            [] OTHER -> "read"

\* The listener ends, and with it the connections it has not accepted.
Over == listener' = "over" /\ Drop({h \in holds : h[1] = "listener"})

ForkServer ==
  /\ listener = "fork" /\ ~handler
  /\ \/ /\ holds' = holds \cup {<<"child", accepted>>}
        /\ at' = [at EXCEPT !["server"][accepted] = Begins]
        /\ listener' = "close"
        /\ UNCHANGED <<wire, reset, faults>>
     \/ /\ faults < MaxFaults /\ faults' = faults + 1
        /\ at' = [at EXCEPT !["server"][accepted] = "failed"]
        /\ IF theServer.goesOn THEN listener' = "close" /\ UNCHANGED <<wire, holds, reset>>
           ELSE Over
  /\ UNCHANGED <<accepted, backlog, handler, line, taken, printed, unreaped, sigcld>>

\* str_echo has returned to the iterative server, or has ended it.
Served ==
  /\ listener = "serve" /\ at["server"][accepted] \in {"return", "fail"}
  /\ IF at["server"][accepted] = "return"
     THEN listener' = "close" /\ UNCHANGED <<wire, holds, reset>>
     ELSE Over
  /\ at' = [at EXCEPT !["server"][accepted] = IF @ = "return" THEN "done" ELSE "failed"]
  /\ UNCHANGED <<accepted, backlog, handler, line, taken, printed, unreaped, sigcld, faults>>

\* Bug: the parent keeps its descriptor of the connection.
CloseNewForgotten ==
  /\ listener = "close" /\ ~handler
  /\ listener' = "accept" /\ accepted' = NoClient
  /\ UNCHANGED <<backlog, handler, at, line, wire, holds, reset, taken, printed, unreaped, sigcld,
                 faults>>

CloseNew ==
  /\ listener = "close" /\ ~handler
  /\ listener' = "accept" /\ accepted' = NoClient
  /\ Drop({<<"listener", accepted>>})
  /\ UNCHANGED <<backlog, handler, at, line, taken, printed, unreaped, sigcld, faults>>

\* sig_child of tcp_daemon, with SIGCHLD blocked while it runs.
SigChild ==
  /\ sigcld /\ ~handler /\ listener # "over"
  /\ sigcld' = FALSE /\ handler' = TRUE
  /\ UNCHANGED <<listener, accepted, backlog, at, line, wire, holds, reset, taken, printed,
                 unreaped, faults>>

\* Bug: one child for each signal.
Wait3One ==
  /\ handler /\ handler' = FALSE
  /\ \E z \in unreaped : unreaped' = unreaped \ {z}
  /\ UNCHANGED <<listener, accepted, backlog, at, line, wire, holds, reset, taken, printed,
                 sigcld, faults>>

\* wait3 with WNOHANG, until there is none.
Wait3 ==
  /\ handler
  /\ \/ (\E z \in unreaped : unreaped' = unreaped \ {z}) /\ UNCHANGED handler
     \/ unreaped = {} /\ handler' = FALSE /\ UNCHANGED unreaped
  /\ UNCHANGED <<listener, accepted, backlog, at, line, wire, holds, reset, taken, printed,
                 sigcld, faults>>

\* A child ends; shutdown closes the listener's end as well.
ChildEnds(c, to, shutdown) ==
  /\ Drop({<<"child", c>>} \cup IF shutdown THEN {<<"listener", c>>} ELSE {})
  /\ at' = [at EXCEPT !["server"][c] = to]
  /\ unreaped' = unreaped \cup {c}
  /\ sigcld' = (sigcld \/ (catches /\ listener # "over"))

ServerExit(c) ==
  /\ theServer.forks /\ at["server"][c] \in {"return", "fail"}
  /\ ChildEnds(c, "done", /\ at["server"][c] = "return"
                          /\ program = "tcp_daemon" \/ header # "same")
  /\ UNCHANGED <<listenerVars, line, taken, printed, faults>>

ClientExit(c) ==
  /\ at["client"][c] \in {"return", "fail"}
  /\ Drop({<<"client", c>>})
  /\ at' = [at EXCEPT !["client"][c] = IF @ = "return" THEN "done" ELSE "failed"]
  /\ UNCHANGED <<listenerVars, line, taken, printed, unreaped, sigcld, faults>>

Ended == {"done", "failed", "dead"}

Kill ==
  /\ faults < MaxFaults /\ faults' = faults + 1
  /\ \/ \E c \in Killable :
          /\ at["client"][c] \notin Ended \cup {"connect"}
          /\ Drop({<<"client", c>>})
          /\ at' = [at EXCEPT !["client"][c] = "dead"]
          /\ UNCHANGED <<listener, unreaped, sigcld>>
     \/ \E c \in Killable :
          /\ <<"child", c>> \in holds
          /\ ChildEnds(c, "dead", FALSE)
          /\ UNCHANGED listener
     \/ /\ listener # "over" /\ Over
        /\ at' = IF listener = "serve" THEN [at EXCEPT !["server"][accepted] = "dead"] ELSE at
        /\ UNCHANGED <<unreaped, sigcld>>
  /\ UNCHANGED <<accepted, backlog, handler, line, taken, printed>>

Talk(e, c) ==
  /\ \/ Readline(e, c) \/ Writen(e, c)
     \/ e = "client" /\ (Fgets(c) \/ ClientHeader(c))
     \/ e = "server" /\ (Recv(c) \/ ServerHeader(c))
  /\ UNCHANGED <<listenerVars, unreaped, sigcld, faults>>

\* What the process at one end of a connection does, and the listener.
EndStep(e, c) ==
  /\ \/ Talk(e, c)
     \/ e = "client" /\ (Connect(c) \/ ClientExit(c))
     \/ e = "server" /\ ServerExit(c)
  /\ UNCHANGED userVars

ListenerStep ==
  /\ AcceptConnection \/ ForkServer \/ Served \/ CloseNew \/ SigChild \/ Wait3
  /\ UNCHANGED userVars

StreamNext ==
  \/ \E e \in Ends, c \in Clients : EndStep(e, c)
  \/ ListenerStep
  \/ Kill /\ UNCHANGED userVars

StreamSpec == StreamInit /\ [][StreamNext]_streamVars

\* Every process is scheduled; nobody has to start a client.
StreamFair ==
  /\ StreamSpec
  /\ WF_streamVars(ListenerStep)
  /\ \A e \in Ends, c \in Clients : WF_streamVars(EndStep(e, c))

-----------------------------------------------------------------------------
(* Properties *)

Labels == Ended \cup {"none", "connect", "fgets", "read", "write", "writev", "version", "protocol",
                      "header", "recv", "return", "fail"}

\* Types; that no line is longer than its buffer, with the null character that readline and
\* fgets add.
StreamTypeOK ==
  /\ listener \in {"accept", "fork", "serve", "close", "over"}
  /\ accepted \in Clients \cup {NoClient} /\ ToSet(backlog) \subseteq Clients
  /\ at \in [Ends -> [Clients -> Labels]]
  /\ \A e \in Ends, c \in Clients :
       Len(line[e][c]) =< IF e = "client" \/ at[e][c] = "read" THEN MAXLINE - 1 ELSE MAXLINE
  /\ holds \subseteq {"client", "listener", "child"} \X Clients
  /\ reset \subseteq Clients /\ unreaped \subseteq Clients
  /\ sigcld \in BOOLEAN /\ handler \in BOOLEAN
  /\ \A c \in Clients : taken[c] \in 0 .. Len(input[c])

\* Every line ends in a newline and fits sendline, so that readline breaks at the newline.
WellFormed(s) ==
  LET stops == {0} \cup {i \in DOMAIN s : s[i] = Newline} IN
  /\ Len(s) \in stops
  /\ \A i \in stops : i < Len(s) => \E j \in stops : j > i /\ j - i < MAXLINE

\* Of well formed lines a client prints what it was given, in order and nothing twice,
\* whatever is killed, refused or reset, and however reads and writes split the lines.
EchoInOrder == \A c \in Clients :
  WellFormed(input[c]) => IsPrefix(printed[c], input[c])

\* Who has to be well formed for c to be served: c; all, where the server does not fork.
Sound(c) ==
  /\ WellFormed(input[c]) /\ header = "same"
  /\ program \in {"tcp_daemon", "inetd_discard"} => Quit \notin ToSet(input[c])

Echoes == theServer.service \notin {"recv", "discard"}

\* While nothing is killed or refused: all lines are echoed, and the client ends.  The
\* others may be stuck.
ClientsServed == []<>(\A c \in Clients :
  /\ faults = 0 /\ Echoes /\ at["client"][c] # "connect"
  /\ \A d \in Clients : d = c \/ ~theServer.forks => Sound(d)
  => at["client"][c] = "done" /\ printed[c] = input[c])

Established(e, c) == at[e][c] \notin {"none", "connect"}

\* When one end of a connection ends, in any way, so does the process at the other: no
\* process keeps a descriptor of the end that it does not use.
EndsAreSeen == []<>(\A e \in Ends, c \in Clients :
  /\ at[e][c] \in Ended \/ (e = "server" /\ at[e][c] = "none" /\ listener = "over")
  /\ Established(Other(e), c)
  => at[Other(e)][c] \in Ended)

\* The handler of tcp_daemon leaves no zombie, though SIGCHLD does not queue.
Reaped == []<>(catches => unreaped = {} \/ listener = "over")
=============================================================================
