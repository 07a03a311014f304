------------------------------- MODULE Inetd --------------------------------
(***************************************************************************)
(* 12.inetd/inetd.c: one process that waits in select for all services and *)
(* forks a server for the first that is ready.  A datagram service is left *)
(* out of the select while its server lives, until the handler of SIGCHLD  *)
(* puts it back.  The handler runs between any two steps of main, and main *)
(* does not block the signal anywhere.                                     *)
(***************************************************************************)
EXTENDS Integers, Sequences, FiniteSets

CONSTANTS
  serv_arr,      \* the services, in the order of the table
  Datagram,      \* those with sock_type 1
  MaxRequests,   \* bound: connections and datagrams that clients send in all
  MaxDeaths,     \* bound: servers that terminate
  Pids           \* process ids, not 0; one is free again when its process is waited for

Services == {serv_arr[i] : i \in DOMAIN serv_arr}
Stream == Services \ Datagram

ASSUME InetdAssumption ==
  /\ serv_arr \in Seq(Services) /\ Datagram \subseteq Services
  /\ MaxRequests \in Nat /\ MaxDeaths \in Nat
  \* Bound: enough process ids that fork never lacks one.
  /\ Pids \subseteq Nat \ {0} /\ Cardinality(Pids) >= MaxRequests + Cardinality(Datagram)

VARIABLES
  pc,                \* where main is
  i,                 \* the index of its loops over the table (i, j and k in the code)
  pid,               \* main's pid, the result of fork
  loaded,            \* the value of udp_select_conn that the increment has read
  word,              \* the word of read_sockfds that FD_CLR has read
  read_sockfds,      \* the global fd_set
  udp_select_conn,   \* the global counter
  child_pid,         \* serv_arr[].child_pid of the datagram services
  server,            \* the service of each child process
  zombies,           \* the child processes that have terminated, not yet waited for
  sigchld,           \* SIGCHLD is pending; the signal does not queue
  requests,          \* connections or datagrams waiting at each service
  sent,              \* requests that clients have sent
  deaths             \* servers that have terminated

mainVars == <<pc, i, pid, loaded, word>>
globalVars == <<read_sockfds, udp_select_conn, child_pid>>
processVars == <<server, zombies, sigchld, deaths>>
clientVars == <<requests, sent>>
vars == <<mainVars, globalVars, processVars, clientVars>>

Init ==
  /\ pc = "select" /\ i = 1 /\ pid = 0 /\ loaded = 0 /\ word = {}
  /\ read_sockfds = Services
  /\ udp_select_conn = 0
  /\ child_pid = [s \in Datagram |-> 0]
  /\ server = [p \in {} |-> 0] /\ zombies = {} /\ sigchld = FALSE /\ deaths = 0
  /\ requests = [s \in Services |-> 0] /\ sent = 0

-----------------------------------------------------------------------------
(* main *)

service == serv_arr[i]

At(here, there) == pc = here /\ pc' = there

\* select returns with the services that are ready.  An interrupted select changes
\* nothing, and main calls it again.
Select ==
  /\ At("select", "dispatch")
  /\ read_sockfds' = {s \in read_sockfds : requests[s] > 0}
  /\ read_sockfds' # {}
  /\ i' = 1
  /\ UNCHANGED <<pid, loaded, word, udp_select_conn, child_pid, processVars, clientVars>>

\* The first service of the table whose bit FD_ISSET finds set.  There is one: select has
\* returned it, and the handler only sets more.
Dispatch ==
  /\ pc = "dispatch"
  /\ \/ /\ service \in read_sockfds
        /\ pc' = IF service \in Datagram THEN "fork" ELSE "accept"
        /\ UNCHANGED i
     \/ /\ service \notin read_sockfds
        /\ i' = i + 1
        /\ UNCHANGED pc
  /\ UNCHANGED <<pid, loaded, word, globalVars, processVars, clientVars>>

\* accept takes a connection, and waits when there is none.
Accept ==
  /\ At("accept", "fork")
  /\ requests[service] > 0
  /\ requests' = [requests EXCEPT ![service] = @ - 1]
  /\ UNCHANGED <<i, pid, loaded, word, globalVars, processVars, sent>>

Fork ==
  /\ pc = "fork"
  /\ pc' = IF service \in Datagram THEN "child_pid" ELSE "set"
  /\ \E p \in Pids \ DOMAIN server :
       /\ pid' = p
       /\ server' = [q \in DOMAIN server \cup {p} |-> IF q = p THEN service ELSE server[q]]
  /\ UNCHANGED <<i, loaded, word, globalVars, zombies, sigchld, deaths, clientVars>>

\* serv_arr[i].child_pid = pid;
SetChildPid ==
  /\ At("child_pid", "load")
  /\ child_pid' = [child_pid EXCEPT ![service] = pid]
  /\ UNCHANGED <<i, pid, loaded, word, read_sockfds, udp_select_conn, processVars,
                 clientVars>>

\* udp_select_conn++, which is not atomic.
LoadCount ==
  /\ At("load", "store")
  /\ loaded' = udp_select_conn
  /\ UNCHANGED <<i, pid, word, globalVars, processVars, clientVars>>

\* Bug: one too few.
StoreCountLess ==
  /\ At("store", "set")
  /\ udp_select_conn' = loaded
  /\ UNCHANGED <<i, pid, loaded, word, read_sockfds, child_pid, processVars, clientVars>>

StoreCount ==
  /\ At("store", "set")
  /\ udp_select_conn' = loaded + 1
  /\ UNCHANGED <<i, pid, loaded, word, read_sockfds, child_pid, processVars, clientVars>>

\* Bug: what select has returned is what it is given next.
SetAllNone ==
  /\ At("set", "count")
  /\ UNCHANGED <<i, pid, loaded, word, globalVars, processVars, clientVars>>

\* FD_SET of every service; then, if udp_select_conn, a loop over the datagram services.
SetAll ==
  /\ At("set", "count")
  /\ read_sockfds' = Services
  /\ UNCHANGED <<i, pid, loaded, word, udp_select_conn, child_pid, processVars, clientVars>>

\* Bug: the sockets of running datagram servers stay in the set.
CountNever ==
  /\ At("count", "select")
  /\ UNCHANGED <<i, pid, loaded, word, globalVars, processVars, clientVars>>

Count ==
  /\ At("count", IF udp_select_conn # 0 THEN "test" ELSE "select")
  /\ i' = 1
  /\ UNCHANGED <<pid, loaded, word, globalVars, processVars, clientVars>>

\* serv_arr[k].sock_type == 1 && serv_arr[k].child_pid != 0
Test ==
  /\ pc = "test" /\ i =< Len(serv_arr)
  /\ \/ /\ service \in Datagram /\ child_pid[service] # 0
        /\ pc' = "FD_CLR"
        /\ UNCHANGED i
     \/ /\ service \in Datagram => child_pid[service] = 0
        /\ i' = i + 1
        /\ UNCHANGED pc
  /\ UNCHANGED <<pid, loaded, word, globalVars, processVars, clientVars>>

\* FD_CLR, which is not atomic either.
LoadSet ==
  /\ At("FD_CLR", "clear")
  /\ word' = read_sockfds
  /\ UNCHANGED <<i, pid, loaded, globalVars, processVars, clientVars>>

Clear ==
  /\ At("clear", "test")
  /\ read_sockfds' = word \ {service}
  /\ i' = i + 1
  /\ UNCHANGED <<pid, loaded, word, udp_select_conn, child_pid, processVars, clientVars>>

Tested ==
  /\ At("test", "select") /\ i > Len(serv_arr)
  /\ UNCHANGED <<i, pid, loaded, word, globalVars, processVars, clientVars>>

Main == Select \/ Dispatch \/ Accept \/ Fork \/ SetChildPid \/ LoadCount \/ StoreCount
        \/ SetAll \/ Count \/ Test \/ LoadSet \/ Clear \/ Tested

-----------------------------------------------------------------------------
(* sig_child, which reaps one child and breaks *)

\* waitpid
WaitFor(p) ==
  /\ zombies' = zombies \ {p}
  /\ server' = [q \in DOMAIN server \ {p} |-> server[q]]

\* Bug: every service is enabled, whichever server has terminated.
HandlerAny ==
  /\ sigchld /\ sigchld' = FALSE
  /\ \E z \in zombies : WaitFor(z)
  /\ read_sockfds' = Services
  /\ UNCHANGED <<mainVars, udp_select_conn, child_pid, deaths, clientVars>>

\* Bug: the servers of stream sockets are counted down too.
HandlerCountsAll ==
  /\ sigchld /\ sigchld' = FALSE
  /\ \E z \in zombies :
       /\ WaitFor(z)
       /\ read_sockfds' = read_sockfds \cup {s \in Datagram : child_pid[s] = z}
       /\ child_pid' = [s \in Datagram |-> IF child_pid[s] = z THEN 0 ELSE child_pid[s]]
  /\ udp_select_conn' = udp_select_conn - 1
  /\ UNCHANGED <<mainVars, deaths, clientVars>>

\* waitpid finds a child: the handler runs no more often than children have died.
Handler ==
  /\ sigchld /\ sigchld' = FALSE
  /\ \E z \in zombies :
       /\ WaitFor(z)
       /\ \/ \E s \in Datagram :
               /\ child_pid[s] = z
               /\ read_sockfds' = read_sockfds \cup {s}
               /\ udp_select_conn' = udp_select_conn - 1
               /\ child_pid' = [child_pid EXCEPT ![s] = 0]
          \/ /\ \A s \in Datagram : child_pid[s] # z
             /\ UNCHANGED globalVars
  /\ UNCHANGED <<mainVars, deaths, clientVars>>

-----------------------------------------------------------------------------
(* The servers and the clients *)

running == DOMAIN server \ zombies

\* A datagram server takes the next datagram off its socket.
Recvfrom(p) ==
  /\ p \in running /\ server[p] \in Datagram
  /\ requests[server[p]] > 0
  /\ requests' = [requests EXCEPT ![server[p]] = @ - 1]
  /\ UNCHANGED <<mainVars, globalVars, processVars, sent>>

\* A server terminates: told to by its client, at the end of its connection, by a failing
\* execl or call, or killed.
Terminate(p) ==
  /\ p \in running /\ deaths < MaxDeaths
  /\ deaths' = deaths + 1
  /\ zombies' = zombies \cup {p}
  /\ sigchld' = TRUE
  /\ UNCHANGED <<mainVars, globalVars, server, clientVars>>

Request(s) ==
  /\ sent < MaxRequests
  /\ sent' = sent + 1
  /\ requests' = [requests EXCEPT ![s] = @ + 1]
  /\ UNCHANGED <<mainVars, globalVars, processVars>>

Next ==
  \/ Main
  \/ Handler
  \/ \E p \in running : Recvfrom(p) \/ Terminate(p)
  \/ \E s \in Services : Request(s)

Spec == Init /\ [][Next]_vars

\* inetd is scheduled, pending signals are delivered, and a datagram server that has not
\* been told to end reads what arrives.  No server has to end, no client to send.
FairSpec ==
  /\ Spec
  /\ WF_vars(Main) /\ WF_vars(Handler)
  /\ \A p \in Pids : WF_vars(p \in running /\ Recvfrom(p))

-----------------------------------------------------------------------------
TypeOK ==
  /\ pc \in {"select", "dispatch", "accept", "fork", "child_pid", "load", "store", "set",
             "count", "test", "FD_CLR", "clear"}
  /\ i \in 1 .. Len(serv_arr) + 1 /\ pid \in Pids \cup {0}
  /\ word \subseteq Services
  /\ read_sockfds \subseteq Services
  /\ {udp_select_conn, loaded} \subseteq -1 .. Cardinality(Datagram) + MaxDeaths
  /\ child_pid \in [Datagram -> Pids \cup {0}]
  /\ DOMAIN server \subseteq Pids /\ \A p \in DOMAIN server : server[p] \in Services
  /\ zombies \subseteq DOMAIN server
  /\ sigchld \in BOOLEAN
  /\ requests \in [Services -> 0 .. MaxRequests] /\ sent \in 0 .. MaxRequests
  /\ deaths \in 0 .. MaxDeaths

ServersOf(s) == {p \in running : server[p] = s}

\* "The child process takes over the socket" (inetd.c:60-61): a datagram service has at
\* most one server, and inetd does not wait for its datagrams, and fork a second server
\* for the same client, while that server lives.
OneServer == \A s \in Datagram :
  /\ Cardinality(ServersOf(s)) =< 1
  /\ pc \in {"select", "dispatch"} /\ s \in read_sockfds => ServersOf(s) = {}

\* Whatever the handler does to udp_select_conn between the two halves of its increment, it
\* is not 0 while a datagram service has a child_pid, and the loop of FD_CLR is not skipped.
CountsServers ==
  pc \in {"select", "dispatch", "set", "count", "test", "FD_CLR", "clear"}
    => udp_select_conn >= Cardinality({s \in Datagram : child_pid[s] # 0})

\* accept never waits: main would be deaf to the other services meanwhile.  The handler
\* sets bits while main looks at the result of select, but none of a stream socket.
AcceptReady == pc = "accept" => requests[service] > 0

\* Every connection is accepted in the end, once no more clients come and no more servers
\* die: the break after the first ready service lets an earlier service go first each time.
StreamServed == \A s \in Stream : requests[s] > 0 ~> requests[s] = 0

\* A datagram that finds no server gets one.
Unserved(s) == requests[s] > 0 /\ ServersOf(s) = {}

\* When a datagram server has terminated, inetd "obtains the process ID of the terminating
\* child process from the wait system call" and "turns on the appropriate bit in its fd_set
\* structure" (inetd.c:65-67), so that the next datagram is served.
Rearmed == \A s \in Datagram : Unserved(s) ~> ~Unserved(s)
=============================================================================
