---------------------------- MODULE InetdProofs -----------------------------
(***************************************************************************)
(* Proofs about Inetd, for every table of services, every set of process   *)
(* ids and every bound.                                                    *)
(*                                                                         *)
(* None of the invariants is inductive.  That a datagram service is not    *)
(* selected while its server lives (OneServer) rests on the child_pid that *)
(* main has noted for that server, and on the loop of FD_CLR, which is     *)
(* skipped when udp_select_conn is 0; that it is not 0 then rests on what  *)
(* the handler may do between the halves of the increment (CountExact).    *)
(***************************************************************************)
EXTENDS Inetd, FiniteSetTheorems, TLAPS

\* The datagram services with a child_pid, and how often the handler has run.
Noted == {s \in Datagram : child_pid[s] # 0}
Reaped == deaths - Cardinality(zombies)

\* TypeOK without the range of the counter, which CountExact gives.
Shape ==
  /\ pc \in {"select", "dispatch", "accept", "fork", "child_pid", "load", "store", "set",
             "count", "test", "FD_CLR", "clear"}
  /\ i \in 1 .. Len(serv_arr) + 1 /\ pid \in Pids \cup {0}
  /\ word \subseteq Services
  /\ read_sockfds \subseteq Services
  /\ child_pid \in [Datagram -> Pids \cup {0}]
  /\ DOMAIN server \subseteq Pids /\ \A p \in DOMAIN server : server[p] \in Services
  /\ zombies \subseteq DOMAIN server
  /\ sigchld \in BOOLEAN
  /\ requests \in [Services -> 0 .. sent] /\ sent \in 0 .. MaxRequests
  /\ deaths \in 0 .. MaxDeaths

\* main is at a service of the table; after select, at or before one that is ready.
AtService ==
  /\ pc \in {"accept", "fork", "child_pid", "FD_CLR", "clear"} => i \in DOMAIN serv_arr
  /\ pc = "accept" => service \in Stream
  /\ pc \in {"child_pid", "FD_CLR", "clear"} => service \in Datagram
  /\ pc = "dispatch" => \E j \in DOMAIN serv_arr : i =< j /\ serv_arr[j] \in read_sockfds

\* What select has found ready stays so until main takes it.
StreamReady ==
  /\ pc = "dispatch" => \A s \in Stream \cap read_sockfds : requests[s] > 0
  /\ AcceptReady

\* A service that may be selected, or that main is about to fork for, has no child_pid; the
\* loop of FD_CLR has achieved this for the services it has passed.
Cleared(s) == s \in Datagram => child_pid[s] = 0
Excluded ==
  /\ pc \in {"select", "dispatch"} => \A s \in read_sockfds : Cleared(s)
  /\ pc \in {"fork", "child_pid"} => Cleared(service)
  /\ pc \in {"test", "FD_CLR", "clear"} =>
       \A j \in DOMAIN serv_arr : j < i /\ serv_arr[j] \in read_sockfds => Cleared(serv_arr[j])
  /\ pc = "clear" =>
       \A j \in DOMAIN serv_arr : j < i /\ serv_arr[j] \in word => Cleared(serv_arr[j])

\* The server of a datagram service is its child_pid, or is about to be.
Tracked ==
  /\ pc = "child_pid" => pid \in Pids
  /\ \A p \in running : server[p] \in Datagram =>
       \/ child_pid[server[p]] = p
       \/ pc = "child_pid" /\ pid = p /\ service = server[p]

\* Once main has stored what it is about to, udp_select_conn is never short of the services
\* it stands for, noted, and exceeds them by no more than the decrements that an increment
\* may have overwritten.
Within(here, conn, load, noted, reaped) ==
  LET count == CASE here = "load" -> conn + 1
                 [] here = "store" -> load + 1
                 [] OTHER -> conn
  IN  /\ noted =< count /\ count =< noted + reaped
      /\ here = "store" => noted - 1 =< conn /\ conn =< load

CountExact ==
  /\ IsFiniteSet(zombies) /\ Reaped >= 0
  /\ udp_select_conn \in Int /\ udp_select_conn =< Cardinality(Datagram) + MaxDeaths
  /\ loaded \in Int /\ -1 =< loaded /\ loaded =< Cardinality(Datagram) + MaxDeaths
  /\ Within(pc, udp_select_conn, loaded, Cardinality(Noted), Reaped)

IInv == Shape /\ AtService /\ StreamReady /\ Excluded /\ Tracked /\ CountExact

-----------------------------------------------------------------------------
LEMMA ServicesFacts ==
  /\ serv_arr \in [1 .. Len(serv_arr) -> Services] /\ Len(serv_arr) \in Nat
  /\ \A s \in Services : \E j \in 1 .. Len(serv_arr) : serv_arr[j] = s
  /\ DOMAIN serv_arr = 1 .. Len(serv_arr)
  /\ IsFiniteSet(Datagram) /\ Cardinality(Datagram) \in Nat
<1>1. /\ serv_arr \in [1 .. Len(serv_arr) -> Services] /\ Len(serv_arr) \in Nat
      /\ DOMAIN serv_arr = 1 .. Len(serv_arr)
  BY InetdAssumption
<1>2. \A s \in Services : \E j \in 1 .. Len(serv_arr) : serv_arr[j] = s
  BY <1>1 DEF Services
<1>3. serv_arr \in Surjection(1 .. Len(serv_arr), Services)
  BY <1>1, <1>2 DEF Surjection
<1>4. IsFiniteSet(1 .. Len(serv_arr))
  BY <1>1, FS_Interval
<1>5. IsFiniteSet(Services)
  BY <1>3, <1>4, FS_Surjection
<1>6. IsFiniteSet(Datagram)
  BY <1>5, FS_Subset, InetdAssumption
<1>. QED
  BY <1>1, <1>2, <1>6, FS_CardinalityType

LEMMA NotedFacts ==
  /\ IsFiniteSet(Noted) /\ Cardinality(Noted) \in Nat
  /\ Cardinality(Noted) =< Cardinality(Datagram)
<1>1. Noted \subseteq Datagram
  BY DEF Noted
<1>. QED
  BY <1>1, ServicesFacts, FS_Subset, FS_CardinalityType

LEMMA InitIInv == Init => IInv
<1>. SUFFICES ASSUME Init PROVE IInv
  OBVIOUS
<1>1. Shape
  <2>1. child_pid \in [Datagram -> Pids \cup {0}] /\ requests \in [Services -> 0 .. sent]
    BY DEF Init
  <2>2. DOMAIN server = {} /\ zombies = {} /\ sigchld \in BOOLEAN
    BY DEF Init
  <2>3. i \in 1 .. Len(serv_arr) + 1 /\ sent \in 0 .. MaxRequests /\ deaths \in 0 .. MaxDeaths
    BY ServicesFacts, InetdAssumption DEF Init
  <2>. QED
    BY <2>1, <2>2, <2>3 DEF Init, Shape
<1>2. AtService /\ StreamReady /\ Excluded /\ Tracked
  BY DEF Init, AtService, StreamReady, AcceptReady, Excluded, Cleared, Tracked, running
<1>3. Noted = {}
  BY DEF Init, Noted
<1>4. Cardinality(Noted) = 0 /\ Cardinality(zombies) = 0 /\ IsFiniteSet(zombies)
  BY <1>3, FS_EmptySet DEF Init
<1>5. CountExact
  BY <1>4, ServicesFacts, InetdAssumption DEF Init, CountExact, Within, Reaped
<1>. QED
  BY <1>1, <1>2, <1>5 DEF IInv

\* What fork does to the table of processes.
LEMMA ForkEffect == ASSUME Shape, Fork
  PROVE  \E p \in Pids :
           /\ p \notin DOMAIN server /\ pid' = p
           /\ DOMAIN server' = DOMAIN server \cup {p}
           /\ server'[p] = service /\ \A q \in DOMAIN server : server'[q] = server[q]
BY DEF Fork

\* What waitpid does to it.
LEMMA WaitEffect == ASSUME Shape, NEW z \in zombies, WaitFor(z)
  PROVE  /\ zombies' = zombies \ {z} /\ z \in DOMAIN server
         /\ DOMAIN server' = DOMAIN server \ {z}
         /\ \A q \in DOMAIN server' : server'[q] = server[q]
         /\ running' = running
BY DEF Shape, WaitFor, running

\* What a client or a server does to the counters of requests.
LEMMA RequestsEffect ==
  ASSUME NEW S, NEW n \in Nat, NEW f \in [S -> 0 .. n], NEW s \in S
  PROVE  /\ f[s] > 0 => [f EXCEPT ![s] = @ - 1] \in [S -> 0 .. n]
         /\ [f EXCEPT ![s] = @ + 1] \in [S -> 0 .. n + 1]
<1>1. f[s] \in 0 .. n /\ f[s] + 1 \in 0 .. n + 1
  OBVIOUS
<1>2. f[s] > 0 => f[s] - 1 \in 0 .. n
  BY <1>1
<1>3. \A t \in S : f[t] \in 0 .. n + 1
  OBVIOUS
<1>. QED
  BY <1>1, <1>2, <1>3

LEMMA RequestsStep == ASSUME IInv, Next
  PROVE  requests' \in [Services -> 0 .. sent'] /\ sent' \in 0 .. MaxRequests
<1>1. /\ sent \in Nat /\ sent \in 0 .. MaxRequests /\ MaxRequests \in Nat
      /\ requests \in [Services -> 0 .. sent]
  BY InetdAssumption DEF IInv, Shape
<1>2. CASE Accept
  <2>1. service \in Services
    BY <1>2, ServicesFacts DEF Accept, At, IInv, AtService, service
  <2>. QED
    BY <1>1, <1>2, <2>1, RequestsEffect DEF Accept
<1>3. CASE \E p \in running : Recvfrom(p)
  <2>1. PICK p \in running : Recvfrom(p)
    BY <1>3
  <2>2. server[p] \in Services
    BY <2>1 DEF running, IInv, Shape
  <2>. QED
    BY <1>1, <2>1, <2>2, RequestsEffect DEF Recvfrom
<1>4. CASE \E s \in Services : Request(s)
  <2>1. PICK s \in Services : Request(s)
    BY <1>4
  <2>2. sent' = sent + 1 /\ sent' \in 0 .. MaxRequests
    BY <1>1, <2>1 DEF Request
  <2>. QED
    BY <1>1, <2>1, <2>2, RequestsEffect DEF Request
<1>5. CASE UNCHANGED <<requests, sent>>
  BY <1>1, <1>5
<1>. QED
  BY <1>2, <1>3, <1>4, <1>5
     DEF Next, Main, Select, Dispatch, Fork, SetChildPid, LoadCount, StoreCount, SetAll, Count,
         Test, LoadSet, Clear, Tested, Handler, Terminate, clientVars

LEMMA ShapeStep == ASSUME IInv, Next PROVE Shape'
<1>. USE ServicesFacts, InetdAssumption
    DEF IInv, Shape, AtService, running, At, service,
        mainVars, globalVars, processVars, clientVars
<1>1. CASE Select
  BY <1>1 DEF Select
<1>2. CASE Dispatch
  <2>1. i' \in 1 .. Len(serv_arr) + 1
    <3>1. PICK j \in DOMAIN serv_arr : i =< j /\ serv_arr[j] \in read_sockfds
      BY <1>2 DEF Dispatch
    <3>2. i' \in {i, i + 1}
      BY <1>2 DEF Dispatch
    <3>. QED
      BY <3>1, <3>2
  <2>2. pc' \in {"dispatch", "fork", "accept"}
    BY <1>2 DEF Dispatch
  <2>3. UNCHANGED <<pid, loaded, word, globalVars, processVars, clientVars>>
    BY <1>2 DEF Dispatch
  <2>. QED
    BY <2>1, <2>2, <2>3
<1>3. CASE Accept
  <2>1. UNCHANGED <<i, pid, loaded, word, globalVars, processVars>> /\ pc' = "fork"
    BY <1>3 DEF Accept
  <2>. QED
    BY <2>1, RequestsStep
<1>4. CASE Fork
  <2>1. DOMAIN server' \subseteq Pids /\ zombies' \subseteq DOMAIN server' /\ pid' \in Pids
        /\ \A p \in DOMAIN server' : server'[p] \in Services
    BY <1>4, ForkEffect DEF Fork
  <2>2. pc' \in {"child_pid", "set"}
    BY <1>4 DEF Fork
  <2>3. UNCHANGED <<i, word, read_sockfds, child_pid, sigchld, requests, sent, deaths>>
    BY <1>4 DEF Fork
  <2>. QED
    BY <2>1, <2>2, <2>3
<1>5. CASE SetChildPid
  BY <1>5 DEF SetChildPid
<1>6. CASE LoadCount
  BY <1>6 DEF LoadCount
<1>7. CASE StoreCount
  BY <1>7 DEF StoreCount
<1>8. CASE SetAll
  BY <1>8 DEF SetAll
<1>9. CASE Count
  BY <1>9 DEF Count
<1>10. CASE Test
  <2>1. pc' \in {"test", "FD_CLR"} /\ i' \in 1 .. Len(serv_arr) + 1
    BY <1>10 DEF Test
  <2>2. UNCHANGED <<pid, loaded, word, globalVars, processVars, clientVars>>
    BY <1>10 DEF Test
  <2>. QED
    BY <2>1, <2>2
<1>11. CASE LoadSet
  BY <1>11 DEF LoadSet
<1>12. CASE Clear
  BY <1>12 DEF Clear
<1>13. CASE Tested
  BY <1>13 DEF Tested
<1>14. CASE Handler
  <2>1. PICK z \in zombies : WaitFor(z)
    BY <1>14 DEF Handler
  <2>2. DOMAIN server' \subseteq Pids /\ zombies' \subseteq DOMAIN server'
        /\ \A p \in DOMAIN server' : server'[p] \in Services
    BY <2>1, WaitEffect
  <2>3. read_sockfds' \subseteq Services /\ child_pid' \in [Datagram -> Pids \cup {0}]
    BY <1>14 DEF Handler
  <2>. QED
    BY <1>14, <2>2, <2>3 DEF Handler
<1>15. CASE \E p \in running : Recvfrom(p)
  <2>1. UNCHANGED <<mainVars, globalVars, processVars>>
    BY <1>15 DEF Recvfrom
  <2>. QED
    BY <2>1, RequestsStep
<1>16. CASE \E p \in running : Terminate(p)
  <2>1. UNCHANGED <<mainVars, globalVars, server, clientVars>>
    BY <1>16 DEF Terminate
  <2>2. zombies' \subseteq DOMAIN server /\ sigchld' \in BOOLEAN /\ deaths' \in 0 .. MaxDeaths
    BY <1>16 DEF Terminate
  <2>. QED
    BY <2>1, <2>2
<1>17. CASE \E s \in Services : Request(s)
  <2>1. UNCHANGED <<mainVars, globalVars, processVars>>
    BY <1>17 DEF Request
  <2>. QED
    BY <2>1, RequestsStep
<1>. QED
  BY <1>1, <1>2, <1>3, <1>4, <1>5, <1>6, <1>7, <1>8, <1>9, <1>10, <1>11, <1>12, <1>13, <1>14, <1>15, <1>16, <1>17 DEF Next, Main

LEMMA AtServiceStep == ASSUME IInv, Next PROVE AtService'
<1>. USE ServicesFacts, InetdAssumption
    DEF IInv, Shape, AtService, Stream, At, service,
        mainVars, globalVars, processVars, clientVars
<1>1. CASE Select
  <2>1. PICK s \in Services : s \in read_sockfds'
    BY <1>1 DEF Select
  <2>2. PICK j \in DOMAIN serv_arr : serv_arr[j] = s
    BY <2>1
  <2>. QED
    BY <1>1, <2>1, <2>2 DEF Select
<1>2. CASE Dispatch
  <2>1. PICK j \in DOMAIN serv_arr : i =< j /\ serv_arr[j] \in read_sockfds
    BY <1>2 DEF Dispatch
  <2>2. i \in DOMAIN serv_arr /\ service \in Services
    BY <2>1
  <2>3. CASE service \in read_sockfds
    BY <1>2, <2>2, <2>3 DEF Dispatch
  <2>4. CASE service \notin read_sockfds
    <3>1. i + 1 =< j
      BY <2>1, <2>2, <2>4
    <3>. QED
      BY <1>2, <2>1, <2>4, <3>1 DEF Dispatch
  <2>. QED
    BY <2>3, <2>4
<1>3. CASE Accept
  BY <1>3 DEF Accept
<1>4. CASE Fork
  BY <1>4 DEF Fork
<1>5. CASE SetChildPid
  BY <1>5 DEF SetChildPid
<1>6. CASE LoadCount
  BY <1>6 DEF LoadCount
<1>7. CASE StoreCount
  BY <1>7 DEF StoreCount
<1>8. CASE SetAll
  BY <1>8 DEF SetAll
<1>9. CASE Count
  BY <1>9 DEF Count
<1>10. CASE Test
  BY <1>10 DEF Test
<1>11. CASE LoadSet
  BY <1>11 DEF LoadSet
<1>12. CASE Clear
  BY <1>12 DEF Clear
<1>13. CASE Tested
  BY <1>13 DEF Tested
<1>14. CASE Handler
  BY <1>14 DEF Handler, WaitFor
<1>15. CASE \E p \in running : Recvfrom(p)
  BY <1>15 DEF Recvfrom
<1>16. CASE \E p \in running : Terminate(p)
  BY <1>16 DEF Terminate
<1>17. CASE \E s \in Services : Request(s)
  BY <1>17 DEF Request
<1>. QED
  BY <1>1, <1>2, <1>3, <1>4, <1>5, <1>6, <1>7, <1>8, <1>9, <1>10, <1>11, <1>12, <1>13, <1>14, <1>15, <1>16, <1>17 DEF Next, Main

LEMMA StreamReadyStep == ASSUME IInv, Next PROVE StreamReady'
<1>. USE ServicesFacts, InetdAssumption
    DEF IInv, Shape, AtService, StreamReady, AcceptReady, Stream, At, service,
        mainVars, globalVars, processVars, clientVars
<1>1. CASE Select
  BY <1>1 DEF Select
<1>2. CASE Dispatch
  BY <1>2 DEF Dispatch
<1>3. CASE Accept
  BY <1>3 DEF Accept
<1>4. CASE Fork
  BY <1>4 DEF Fork
<1>5. CASE SetChildPid
  BY <1>5 DEF SetChildPid
<1>6. CASE LoadCount
  BY <1>6 DEF LoadCount
<1>7. CASE StoreCount
  BY <1>7 DEF StoreCount
<1>8. CASE SetAll
  BY <1>8 DEF SetAll
<1>9. CASE Count
  BY <1>9 DEF Count
<1>10. CASE Test
  BY <1>10 DEF Test
<1>11. CASE LoadSet
  BY <1>11 DEF LoadSet
<1>12. CASE Clear
  BY <1>12 DEF Clear
<1>13. CASE Tested
  BY <1>13 DEF Tested
<1>14. CASE Handler
  BY <1>14 DEF Handler, WaitFor
<1>15. CASE \E p \in running : Recvfrom(p)
  BY <1>15 DEF Recvfrom
<1>16. CASE \E p \in running : Terminate(p)
  BY <1>16 DEF Terminate
<1>17. CASE \E s \in Services : Request(s)
  BY <1>17 DEF Request
<1>. QED
  BY <1>1, <1>2, <1>3, <1>4, <1>5, <1>6, <1>7, <1>8, <1>9, <1>10, <1>11, <1>12, <1>13, <1>14, <1>15, <1>16, <1>17 DEF Next, Main

LEMMA ExcludedStep == ASSUME IInv, Next PROVE Excluded'
<1>. USE ServicesFacts, InetdAssumption
    DEF IInv, Shape, AtService, Stream, Excluded, Cleared, At, service,
        mainVars, globalVars, processVars, clientVars
<1>1. CASE Select
  BY <1>1 DEF Select
<1>2. CASE Dispatch
  BY <1>2 DEF Dispatch
<1>3. CASE Accept
  BY <1>3 DEF Accept
<1>4. CASE Fork
  BY <1>4 DEF Fork
<1>5. CASE SetChildPid
  BY <1>5 DEF SetChildPid
<1>6. CASE LoadCount
  BY <1>6 DEF LoadCount
<1>7. CASE StoreCount
  BY <1>7 DEF StoreCount
<1>8. CASE SetAll
  BY <1>8 DEF SetAll
<1>9. CASE Count
  <2>1. CASE udp_select_conn # 0
    BY <1>9, <2>1 DEF Count
  <2>2. CASE udp_select_conn = 0
    <3>1. Cardinality(Noted) = 0
      BY <1>9, <2>2, NotedFacts DEF Count, CountExact, Within
    <3>2. Noted = {}
      BY <3>1, NotedFacts, FS_EmptySet
    <3>. QED
      BY <1>9, <2>2, <3>2 DEF Count, Noted
  <2>. QED
    BY <2>1, <2>2
<1>10. CASE Test
  <2>1. i \in Int /\ UNCHANGED <<word, read_sockfds, child_pid>> /\ pc = "test"
    BY <1>10 DEF Test
  <2>2. CASE pc' = "FD_CLR" /\ UNCHANGED i
    BY <2>1, <2>2
  <2>3. CASE Cleared(service) /\ i' = i + 1 /\ UNCHANGED pc
    <3>1. ASSUME NEW j \in DOMAIN serv_arr, j < i', serv_arr[j] \in read_sockfds
          PROVE  Cleared(serv_arr[j])
      <4>1. j < i \/ j = i
        BY <2>1, <2>3, <3>1
      <4>. QED
        BY <2>1, <2>3, <3>1, <4>1
    <3>. QED
      BY <2>1, <2>3, <3>1
  <2>. QED
    BY <1>10, <2>2, <2>3 DEF Test
<1>11. CASE LoadSet
  BY <1>11 DEF LoadSet
<1>12. CASE Clear
  BY <1>12 DEF Clear
<1>13. CASE Tested
  <2>1. ASSUME NEW s \in read_sockfds PROVE Cleared(s)
    <3>1. PICK j \in DOMAIN serv_arr : serv_arr[j] = s
      BY <2>1
    <3>. QED
      BY <1>13, <3>1 DEF Tested
  <2>. QED
    BY <1>13, <2>1 DEF Tested
<1>14. CASE Handler
  <2>1. UNCHANGED mainVars
    BY <1>14 DEF Handler
  <2>2. \/ UNCHANGED <<read_sockfds, child_pid>>
        \/ \E s \in Datagram : /\ read_sockfds' = read_sockfds \cup {s}
                               /\ child_pid' = [child_pid EXCEPT ![s] = 0]
    BY <1>14 DEF Handler
  <2>3. \A s \in Services : Cleared(s) => Cleared(s)'
    BY <2>2
  <2>4. \A s \in read_sockfds' : s \in read_sockfds \/ Cleared(s)'
    BY <2>2
  <2>. QED
    BY <2>1, <2>3, <2>4
<1>15. CASE \E p \in running : Recvfrom(p)
  BY <1>15 DEF Recvfrom
<1>16. CASE \E p \in running : Terminate(p)
  BY <1>16 DEF Terminate
<1>17. CASE \E s \in Services : Request(s)
  BY <1>17 DEF Request
<1>. QED
  BY <1>1, <1>2, <1>3, <1>4, <1>5, <1>6, <1>7, <1>8, <1>9, <1>10, <1>11, <1>12, <1>13, <1>14, <1>15, <1>16, <1>17 DEF Next, Main

LEMMA TrackedStep == ASSUME IInv, Next PROVE Tracked'
<1>. USE ServicesFacts, InetdAssumption
    DEF IInv, Shape, AtService, Excluded, Cleared, Tracked, running, At, service,
        mainVars, globalVars, processVars, clientVars
<1>1. CASE Select
  BY <1>1 DEF Select
<1>2. CASE Dispatch
  BY <1>2 DEF Dispatch
<1>3. CASE Accept
  BY <1>3 DEF Accept
<1>4. CASE Fork
  <2>1. PICK p \in Pids :
          /\ p \notin DOMAIN server /\ pid' = p
          /\ DOMAIN server' = DOMAIN server \cup {p}
          /\ server'[p] = service /\ \A q \in DOMAIN server : server'[q] = server[q]
    BY <1>4, ForkEffect
  <2>2. running' \subseteq running \cup {p} /\ service' = service /\ child_pid' = child_pid
    BY <1>4, <2>1 DEF Fork
  <2>3. ASSUME NEW q \in running', server'[q] \in Datagram
        PROVE  \/ child_pid'[server'[q]] = q
               \/ pc' = "child_pid" /\ pid' = q /\ service' = server'[q]
    BY <1>4, <2>1, <2>2, <2>3 DEF Fork
  <2>. QED
    BY <1>4, <2>1, <2>3 DEF Fork
<1>5. CASE SetChildPid
  BY <1>5 DEF SetChildPid
<1>6. CASE LoadCount
  BY <1>6 DEF LoadCount
<1>7. CASE StoreCount
  BY <1>7 DEF StoreCount
<1>8. CASE SetAll
  BY <1>8 DEF SetAll
<1>9. CASE Count
  BY <1>9 DEF Count
<1>10. CASE Test
  BY <1>10 DEF Test
<1>11. CASE LoadSet
  BY <1>11 DEF LoadSet
<1>12. CASE Clear
  BY <1>12 DEF Clear
<1>13. CASE Tested
  BY <1>13 DEF Tested
<1>14. CASE Handler
  BY <1>14 DEF Handler, WaitFor
<1>15. CASE \E p \in running : Recvfrom(p)
  BY <1>15 DEF Recvfrom
<1>16. CASE \E p \in running : Terminate(p)
  BY <1>16 DEF Terminate
<1>17. CASE \E s \in Services : Request(s)
  BY <1>17 DEF Request
<1>. QED
  BY <1>1, <1>2, <1>3, <1>4, <1>5, <1>6, <1>7, <1>8, <1>9, <1>10, <1>11, <1>12, <1>13, <1>14, <1>15, <1>16, <1>17 DEF Next, Main

\* The services with a child_pid are those of before, one more after SetChildPid and one
\* less after the handler has found its child; elsewhere they are the same.
LEMMA NotedStep == ASSUME IInv, Next
  PROVE  /\ SetChildPid => Cardinality(Noted') = Cardinality(Noted) + 1
         /\ UNCHANGED child_pid => Noted' = Noted
         /\ \A s \in Datagram : child_pid[s] # 0 /\ child_pid' = [child_pid EXCEPT ![s] = 0]
              => Cardinality(Noted') = Cardinality(Noted) - 1
<1>. USE DEF IInv, Shape
<1>1. ASSUME SetChildPid PROVE Cardinality(Noted') = Cardinality(Noted) + 1
  <2>1. service \in Datagram /\ child_pid[service] = 0 /\ pid # 0
    BY <1>1, InetdAssumption DEF AtService, Excluded, Cleared, Tracked, SetChildPid, At
  <2>2. Noted' = Noted \cup {service} /\ service \notin Noted
    BY <1>1, <2>1 DEF SetChildPid, Noted
  <2>. QED
    BY <2>2, NotedFacts, FS_AddElement
<1>2. UNCHANGED child_pid => Noted' = Noted
  BY DEF Noted
<1>3. ASSUME NEW s \in Datagram, child_pid[s] # 0, child_pid' = [child_pid EXCEPT ![s] = 0]
      PROVE  Cardinality(Noted') = Cardinality(Noted) - 1
  <2>1. Noted' = Noted \ {s} /\ s \in Noted
    BY <1>3 DEF Noted
  <2>. QED
    BY <2>1, NotedFacts, FS_RemoveElement
<1>. QED
  BY <1>1, <1>2, <1>3

\* How often the handler has run: once more after each run of it, and never else.
LEMMA ReapedStep == ASSUME IInv, Next
  PROVE  /\ IsFiniteSet(zombies')
         /\ Reaped' \in Int
         /\ Handler => Reaped' = Reaped + 1
         /\ ~Handler => Reaped' = Reaped
<1>. USE DEF IInv, Shape, CountExact, Reaped
<1>1. Cardinality(zombies) \in Nat
  BY FS_CardinalityType
<1>2. ASSUME Handler PROVE IsFiniteSet(zombies') /\ Reaped' \in Int /\ Reaped' = Reaped + 1
  <2>1. PICK z \in zombies : zombies' = zombies \ {z}
    BY <1>2 DEF Handler, WaitFor
  <2>2. deaths' = deaths
    BY <1>2 DEF Handler
  <2>3. IsFiniteSet(zombies') /\ Cardinality(zombies') = Cardinality(zombies) - 1
    BY <2>1, FS_RemoveElement
  <2>. QED
    BY <1>1, <2>2, <2>3
<1>3. ASSUME NEW p \in running, Terminate(p)
      PROVE  IsFiniteSet(zombies') /\ Reaped' \in Int /\ Reaped' = Reaped
  <2>1. zombies' = zombies \cup {p} /\ p \notin zombies /\ deaths' = deaths + 1
    BY <1>3 DEF Terminate, running
  <2>2. IsFiniteSet(zombies') /\ Cardinality(zombies') = Cardinality(zombies) + 1
    BY <2>1, FS_AddElement
  <2>. QED
    BY <1>1, <2>1, <2>2
<1>4. ASSUME ~Handler, \A p \in running : ~Terminate(p)
      PROVE  UNCHANGED <<zombies, deaths>>
  BY <1>4 DEF Next, Main, Select, Dispatch, Accept, Fork, SetChildPid, LoadCount, StoreCount,
              SetAll, Count, Test, LoadSet, Clear, Tested, Recvfrom, Request, processVars
<1>. QED
  BY <1>1, <1>2, <1>3, <1>4

\* A run of the handler that finds a service, at any point of the increment.
LEMMA HandlerWithin ==
  ASSUME NEW here, NEW conn \in Int, NEW load \in Int, NEW noted \in Int, NEW reaped \in Int,
         Within(here, conn, load, noted, reaped)
  PROVE  Within(here, conn - 1, load, noted - 1, reaped + 1)
<1>1. CASE here = "load"
  BY <1>1 DEF Within
<1>2. CASE here = "store"
  BY <1>2 DEF Within
<1>3. CASE here \notin {"load", "store"}
  BY <1>3 DEF Within
<1>. QED
  BY <1>1, <1>2, <1>3

\* One that finds none.
LEMMA LaterWithin ==
  ASSUME NEW here, NEW conn \in Int, NEW load \in Int, NEW noted \in Int, NEW reaped \in Int,
         Within(here, conn, load, noted, reaped)
  PROVE  Within(here, conn, load, noted, reaped + 1)
<1>1. CASE here = "load"
  BY <1>1 DEF Within
<1>2. CASE here = "store"
  BY <1>2 DEF Within
<1>3. CASE here \notin {"load", "store"}
  BY <1>3 DEF Within
<1>. QED
  BY <1>1, <1>2, <1>3

\* How udp_select_conn, loaded and pc change, apart from the handler.
LEMMA MainCounts == ASSUME Next, ~Handler
  PROVE  \/ SetChildPid \/ LoadCount \/ StoreCount
         \/ UNCHANGED <<udp_select_conn, loaded, pc>>
         \/ /\ UNCHANGED <<udp_select_conn, loaded>>
            /\ pc \notin {"child_pid", "load", "store"} /\ pc' \notin {"load", "store"}
BY DEF Next, Main, Select, Dispatch, Accept, Fork, SetAll, Count, Test, LoadSet, Clear, Tested,
       Recvfrom, Terminate, Request, At, mainVars, globalVars

LEMMA CountStep == ASSUME IInv, Next PROVE CountExact'
<1>. DEFINE N == Cardinality(Noted)
            D == Cardinality(Datagram)
            Kept == Within(pc, udp_select_conn, loaded, N, Reaped)
<1>1. N \in Nat /\ N' \in Nat /\ N' =< D /\ D \in Nat /\ D' = D
  <2>1. Noted' \subseteq Datagram
    BY DEF Noted
  <2>. QED
    BY <2>1, NotedFacts, ServicesFacts, FS_Subset, FS_CardinalityType
<1>2. /\ Reaped \in Int /\ Reaped' \in Int /\ Reaped' =< MaxDeaths
      /\ Reaped >= 0 /\ Reaped' >= Reaped /\ IsFiniteSet(zombies')
  <2>1. Cardinality(zombies) \in Nat /\ Cardinality(zombies') \in Nat
    BY ReapedStep, FS_CardinalityType DEF IInv, CountExact
  <2>2. deaths \in Int /\ deaths' \in 0 .. MaxDeaths
    BY ShapeStep DEF IInv, Shape
  <2>3. Reaped \in Int /\ Reaped' \in Int /\ Reaped' =< MaxDeaths
    BY <2>1, <2>2, InetdAssumption DEF Reaped
  <2>4. Reaped >= 0 /\ (Reaped' = Reaped \/ Reaped' = Reaped + 1)
    BY ReapedStep DEF IInv, CountExact
  <2>. QED
    BY <2>1, <2>3, <2>4, ReapedStep
<1>3. /\ udp_select_conn \in Int /\ udp_select_conn =< D + MaxDeaths
      /\ loaded \in Int /\ -1 =< loaded /\ loaded =< D + MaxDeaths
      /\ MaxDeaths \in Nat /\ Kept
  BY InetdAssumption DEF IInv, CountExact
<1>. SUFFICES /\ udp_select_conn' \in Int /\ udp_select_conn' =< D + MaxDeaths
              /\ loaded' \in Int /\ -1 =< loaded' /\ loaded' =< D + MaxDeaths
              /\ Kept'
  BY <1>1, <1>2 DEF CountExact
<1>4. ASSUME SetChildPid PROVE N' = N + 1 /\ Reaped' = Reaped
  BY <1>4, NotedStep, ReapedStep DEF SetChildPid, At, Handler, mainVars, IInv, Shape
<1>5. CASE Handler
  <2>1. Reaped' = Reaped + 1 /\ UNCHANGED <<pc, loaded>>
    BY <1>5, ReapedStep DEF Handler, mainVars
  <2>2. CASE UNCHANGED globalVars
    <3>1. N' = N /\ UNCHANGED udp_select_conn
      BY <2>2, NotedStep DEF globalVars
    <3>. HIDE DEF N, D
    <3>2. Kept'
      BY <1>1, <1>2, <1>3, <2>1, <3>1, LaterWithin
    <3>. QED
      BY <1>3, <2>1, <3>1, <3>2
  <2>3. CASE ~UNCHANGED globalVars
    <3>1. PICK s \in Datagram : /\ child_pid[s] \in zombies
                               /\ udp_select_conn' = udp_select_conn - 1
                               /\ child_pid' = [child_pid EXCEPT ![s] = 0]
      BY <1>5, <2>3 DEF Handler
    <3>2. child_pid[s] # 0
      BY <3>1, InetdAssumption DEF IInv, Shape
    <3>3. N' = N - 1
      BY <3>1, <3>2, NotedStep
    <3>. HIDE DEF N, D
    <3>4. Kept'
      BY <1>1, <1>2, <1>3, <2>1, <3>1, <3>3, HandlerWithin
    <3>. QED
      BY <1>1, <1>3, <2>1, <3>1, <3>4
  <2>. QED
    BY <2>2, <2>3
<1>6. CASE ~Handler
  <2>1. SetChildPid \/ UNCHANGED child_pid
    BY <1>6 DEF Next, Main, Select, Dispatch, Accept, Fork, LoadCount, StoreCount, SetAll, Count,
       Test, LoadSet, Clear, Tested, Recvfrom, Terminate, Request, globalVars
  <2>2. SetChildPid \/ (N' = N /\ Reaped' = Reaped)
    BY <1>6, <2>1, NotedStep, ReapedStep
  <2>. HIDE DEF N, D
  <2>3. CASE SetChildPid
    <3>1. UNCHANGED <<udp_select_conn, loaded>> /\ pc = "child_pid" /\ pc' = "load"
      BY <2>3 DEF SetChildPid, At
    <3>2. Kept'
      BY <1>1, <1>2, <1>3, <1>4, <2>3, <3>1 DEF Within
    <3>. QED
      BY <1>3, <3>1, <3>2
  <2>4. CASE ~SetChildPid /\ LoadCount
    <3>1. UNCHANGED udp_select_conn /\ loaded' = udp_select_conn /\ pc = "load" /\ pc' = "store"
      BY <2>4 DEF LoadCount, At, globalVars
    <3>2. N =< udp_select_conn + 1 /\ udp_select_conn + 1 =< N + Reaped
      BY <1>3, <3>1 DEF Within
    <3>3. Kept'
      BY <1>1, <1>2, <1>3, <2>2, <2>4, <3>1, <3>2 DEF Within
    <3>. QED
      BY <1>1, <1>3, <3>1, <3>2, <3>3
  <2>5. CASE ~SetChildPid /\ StoreCount
    <3>1. udp_select_conn' = loaded + 1 /\ UNCHANGED loaded /\ pc = "store" /\ pc' = "set"
      BY <2>5 DEF StoreCount, At
    <3>2. N' =< loaded + 1 /\ loaded + 1 =< N' + Reaped'
      BY <1>3, <2>2, <2>5, <3>1 DEF Within
    <3>3. Kept'
      BY <3>1, <3>2 DEF Within
    <3>4. \A n, d, r, m, l \in Int :
            n =< d /\ r =< m /\ l =< n + r => l =< d + m
      OBVIOUS
    <3>5. loaded + 1 \in Int /\ loaded + 1 =< D + MaxDeaths
      <4>1. loaded + 1 \in Int /\ MaxDeaths \in Int
        BY <1>3
      <4>. QED
        BY <1>1, <1>2, <3>2, <3>4, <4>1
    <3>. QED
      BY <1>3, <3>1, <3>3, <3>5
  <2>6. CASE ~SetChildPid /\ UNCHANGED <<udp_select_conn, loaded, pc>>
    BY <1>3, <2>2, <2>6
  <2>7. CASE /\ ~SetChildPid /\ UNCHANGED <<udp_select_conn, loaded>>
             /\ pc \notin {"child_pid", "load", "store"} /\ pc' \notin {"load", "store"}
    BY <1>3, <2>2, <2>7 DEF Within
  <2>. QED
    BY <1>6, <2>3, <2>4, <2>5, <2>6, <2>7, MainCounts
<1>. QED
  BY <1>5, <1>6

-----------------------------------------------------------------------------
LEMMA StutterIInv == ASSUME IInv, UNCHANGED vars PROVE IInv'
BY DEF vars, mainVars, globalVars, processVars, clientVars, IInv, Shape, AtService, service,
       StreamReady, AcceptReady, Excluded, Cleared, Tracked, running, CountExact, Noted, Reaped

LEMMA SpecIInv == Spec => []IInv
<1>1. IInv /\ [Next]_vars => IInv'
  BY ShapeStep, AtServiceStep, StreamReadyStep, ExcludedStep, TrackedStep, CountStep,
     StutterIInv DEF IInv
<1>. QED
  BY InitIInv, <1>1, PTL DEF Spec

\* Every variable keeps to its range; the counter of datagram servers, which a handler may
\* disturb in its increment, exceeds their number by no more than the servers that died.
THEOREM TypeCorrect == Spec => []TypeOK
<1>1. IInv => TypeOK
  <2>. SUFFICES ASSUME IInv PROVE TypeOK
    OBVIOUS
  <2>1. requests \in [Services -> 0 .. MaxRequests]
    BY InetdAssumption DEF IInv, Shape
  <2>2. {udp_select_conn, loaded} \subseteq -1 .. Cardinality(Datagram) + MaxDeaths
    <3>1. Cardinality(Noted) - 1 =< udp_select_conn
      BY NotedFacts DEF IInv, CountExact, Within
    <3>2. -1 =< udp_select_conn
      BY <3>1, NotedFacts DEF IInv, CountExact
    <3>. QED
      BY <3>2, ServicesFacts, InetdAssumption DEF IInv, CountExact
  <2>. QED
    BY <2>1, <2>2 DEF IInv, Shape, TypeOK
<1>. QED
  BY SpecIInv, <1>1, PTL

\* The child process takes over the socket: a datagram service has at most one server, and
\* is not selected while it lives.
THEOREM OneServerEach == Spec => []OneServer
<1>1. IInv => OneServer
  <2>. SUFFICES ASSUME IInv, NEW s \in Datagram
       PROVE  /\ Cardinality(ServersOf(s)) =< 1
              /\ pc \in {"select", "dispatch"} /\ s \in read_sockfds => ServersOf(s) = {}
    BY DEF OneServer
  <2>1. \A p \in ServersOf(s) : p \in Pids /\ p # 0
    BY InetdAssumption DEF IInv, Shape, ServersOf, running
  <2>2. \A p, q \in ServersOf(s) : p = q
    BY <2>1 DEF IInv, Tracked, Excluded, Cleared, ServersOf
  <2>3. Cardinality(ServersOf(s)) =< 1
    <3>1. CASE ServersOf(s) = {}
      BY <3>1, FS_EmptySet
    <3>2. CASE ServersOf(s) # {}
      <4>1. PICK p : ServersOf(s) = {p}
        BY <2>2, <3>2
      <4>. QED
        BY <4>1, FS_Singleton
    <3>. QED
      BY <3>1, <3>2
  <2>4. pc \in {"select", "dispatch"} /\ s \in read_sockfds => ServersOf(s) = {}
    BY <2>1 DEF IInv, Tracked, Excluded, Cleared, ServersOf
  <2>. QED
    BY <2>3, <2>4
<1>. QED
  BY SpecIInv, <1>1, PTL

\* The loop that takes running datagram servers out of the select is never skipped while
\* there is one, wherever SIGCHLD meets the increment.
THEOREM CountsEveryServer == Spec => []CountsServers
<1>1. IInv => CountsServers
  BY DEF IInv, CountExact, Within, Noted, CountsServers
<1>. QED
  BY SpecIInv, <1>1, PTL

\* main never waits in accept.
THEOREM AcceptNeverWaits == Spec => []AcceptReady
<1>1. IInv => AcceptReady
  BY DEF IInv, StreamReady
<1>. QED
  BY SpecIInv, <1>1, PTL
=============================================================================
