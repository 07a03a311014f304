---------------------------- MODULE StreamProofs ----------------------------
(***************************************************************************)
(* Proofs about StreamEcho, for every set of clients, every text that they *)
(* type, every pair of programs, size of buffer and number of kills.       *)
(*                                                                         *)
(* EchoInOrder relates what a client has printed to what was typed, and is *)
(* not inductive: what is printed next is somewhere between, in one of two *)
(* buffers or two directions of the connection.  The invariant says        *)
(* where (Back, Forth): what a client has typed is, from the oldest byte   *)
(* on, what it has printed, its buffer in readline, the bytes on their way *)
(* back, the buffer of the server, the bytes on their way to it, the       *)
(* buffer of writen.  That the buffers start where lines do (Stops) makes  *)
(* readline break at a newline, before it counts a null character; it      *)
(* holds as long as the server has its end of the connection, after which  *)
(* what is left cannot be printed twice.  Which process has that end is    *)
(* Sane, which programs can be in which call is Place.  Local says of each *)
(* step what it is to one connection, and Order is kept by case of it.     *)
(***************************************************************************)
EXTENDS StreamEcho, SequenceTheorems, WellFoundedInduction, TLAPS

\* A set of numbers has a least one.
LEMMA LeastNatural ==
  ASSUME NEW T \in SUBSET Nat, T # {}
  PROVE  \E n \in T : \A m \in T : n =< m
<1>1. PICK n \in T : \A m \in T : ~(<<m, n>> \in OpToRel(<, Nat))
  BY NatLessThanWellFounded, WFMin
<1>. SUFFICES ASSUME NEW m \in T PROVE n =< m
  OBVIOUS
<1>2. ~(<<m, n>> \in {x \in Nat \X Nat : x[1] < x[2]})
  BY <1>1 DEF OpToRel
<1>3. m \in Nat /\ n \in Nat
  OBVIOUS
<1>. QED
  BY <1>2, <1>3

-----------------------------------------------------------------------------
(* What has been read of a text, and not yet read on: the part of s from m to n *)

Slice(s, m, n) == SubSeq(s, m + 1, n)

\* What is cut out of a sequence is one of the same elements,
LEMMA SliceType ==
  ASSUME NEW S, NEW s \in Seq(S), NEW n \in 0 .. Len(s), NEW m \in 0 .. n
  PROVE  Slice(s, m, n) \in Seq(S)
<1>1. \A i \in m + 1 .. n : s[i] \in S
  BY LenProperties, ElementOfSeq
<1>. QED
  BY <1>1, SubSeqProperties DEF Slice

\* as long as the cut,
LEMMA SliceLen ==
  ASSUME NEW S, NEW s \in Seq(S), NEW n \in 0 .. Len(s), NEW m \in 0 .. n
  PROVE  Len(Slice(s, m, n)) = n - m
<1>1. \A i \in m + 1 .. n : s[i] \in S
  BY LenProperties, ElementOfSeq
<1>2. Len(Slice(s, m, n)) = IF m + 1 =< n THEN n - (m + 1) + 1 ELSE 0
  BY <1>1, SubSeqProperties DEF Slice
<1>. QED
  BY <1>2

\* with the elements from there,
LEMMA SliceElement ==
  ASSUME NEW S, NEW s \in Seq(S), NEW n \in 0 .. Len(s), NEW m \in 0 .. n,
         NEW i \in 1 .. n - m
  PROVE  Slice(s, m, n)[i] = s[m + i]
<1>1. \A j \in m + 1 .. n : s[j] \in S
  BY LenProperties, ElementOfSeq
<1>2. \A j \in 1 .. n - (m + 1) + 1 : Slice(s, m, n)[j] = s[m + 1 + j - 1]
  BY <1>1, SubSeqProperties DEF Slice
<1>. QED
  BY <1>2

\* and empty when the cut is.
LEMMA SliceEmpty ==
  ASSUME NEW S, NEW s \in Seq(S), NEW n \in 0 .. Len(s), NEW m \in 0 .. n
  PROVE  Slice(s, m, n) = <<>> <=> m = n
<1>1. Slice(s, m, n) \in Seq(S)
  BY SliceType
<1>2. Len(Slice(s, m, n)) = n - m
  BY SliceLen
<1>. QED
  BY <1>1, <1>2, EmptySeq

\* One more element makes the cut one longer;
LEMMA SliceAppend ==
  ASSUME NEW S, NEW s \in Seq(S), NEW n \in 0 .. Len(s) - 1, NEW m \in 0 .. n
  PROVE  Append(Slice(s, m, n), s[n + 1]) = Slice(s, m, n + 1)
<1>0. /\ Len(s) \in Nat
      /\ n \in 0 .. Len(s) /\ m \in 0 .. n
      /\ n + 1 \in 0 .. Len(s) /\ m \in 0 .. n + 1 /\ n + 1 \in 1 .. Len(s)
  BY LenProperties
<1>1. s[n + 1] \in S
  BY <1>0, ElementOfSeq
<1>. DEFINE t == Slice(s, m, n)
            u == Slice(s, m, n + 1)
            l == Append(t, s[n + 1])
<1>2. t \in Seq(S) /\ Len(t) = n - m /\ \A i \in 1 .. n - m : t[i] = s[m + i]
  BY <1>0, SliceType, SliceLen, SliceElement
<1>3. u \in Seq(S) /\ Len(u) = n + 1 - m /\ \A i \in 1 .. n + 1 - m : u[i] = s[m + i]
  <2>1. u \in Seq(S)
    BY <1>0, SliceType
  <2>2. Len(u) = n + 1 - m
    BY <1>0, SliceLen
  <2>3. \A i \in 1 .. n + 1 - m : u[i] = s[m + i]
    BY <1>0, SliceElement
  <2>. QED
    BY <2>1, <2>2, <2>3
<1>. HIDE DEF t, u
<1>4. /\ l \in Seq(S) /\ Len(l) = Len(t) + 1
      /\ \A i \in 1 .. Len(t) : l[i] = t[i]
      /\ l[Len(t) + 1] = s[n + 1]
  BY <1>1, <1>2, AppendProperties
<1>. HIDE DEF l
<1>5. \A i \in 1 .. Len(l) : l[i] = u[i]
  <2>. SUFFICES ASSUME NEW i \in 1 .. n + 1 - m PROVE l[i] = u[i]
    BY <1>2, <1>4
  <2>1. u[i] = s[m + i]
    BY <1>3
  <2>2. CASE i = n + 1 - m
    BY <1>0, <1>2, <1>4, <2>1, <2>2
  <2>3. CASE i \in 1 .. n - m
    BY <1>2, <1>4, <2>1, <2>3
  <2>. QED
    BY <1>0, <2>2, <2>3
<1>6. l = u
  BY <1>2, <1>3, <1>4, <1>5, SeqEqual
<1>. QED
  BY <1>6 DEF l, t, u

\* its first makes it begin one later;
LEMMA SliceTail ==
  ASSUME NEW S, NEW s \in Seq(S), NEW n \in 0 .. Len(s), NEW m \in 0 .. n - 1
  PROVE  /\ Head(Slice(s, m, n)) = s[m + 1]
         /\ Tail(Slice(s, m, n)) = Slice(s, m + 1, n)
<1>1. m + 1 \in 1 .. Len(s) /\ n \in m + 1 .. Len(s)
  BY LenProperties
<1>. QED
  BY <1>1, HeadTailOfSubSeq DEF Slice

\* cuts that meet are joined;
LEMMA SliceConcat ==
  ASSUME NEW S, NEW s \in Seq(S), NEW n \in 0 .. Len(s), NEW k \in 0 .. n, NEW m \in 0 .. k
  PROVE  Slice(s, m, k) \o Slice(s, k, n) = Slice(s, m, n)
<1>1. m + 1 \in 1 .. Len(s) + 1 /\ k \in (m + 1) - 1 .. Len(s) /\ n \in k .. Len(s)
  BY LenProperties
<1>. QED
  BY <1>1, ConcatAdjacentSubSeq DEF Slice

\* and a cut of a cut is a cut.
LEMMA SliceOfSlice ==
  ASSUME NEW S, NEW s \in Seq(S), NEW n \in 0 .. Len(s), NEW m \in 0 .. n,
         NEW j \in 0 .. n - m, NEW i \in 0 .. j
  PROVE  Slice(Slice(s, m, n), i, j) = Slice(s, m + i, m + j)
<1>. DEFINE t == Slice(s, m, n)
            u == Slice(s, m + i, m + j)
            v == Slice(t, i, j)
<1>0. /\ Len(s) \in Nat
      /\ m + j \in 0 .. Len(s) /\ m + i \in 0 .. m + j
  BY LenProperties
<1>1. t \in Seq(S) /\ Len(t) = n - m /\ \A k \in 1 .. n - m : t[k] = s[m + k]
  BY SliceType, SliceLen, SliceElement
<1>2. u \in Seq(S) /\ Len(u) = j - i /\ \A k \in 1 .. j - i : u[k] = s[m + i + k]
  <2>1. Len(u) = (m + j) - (m + i)
    BY <1>0, SliceLen
  <2>2. \A k \in 1 .. (m + j) - (m + i) : u[k] = s[m + i + k]
    BY <1>0, SliceElement
  <2>3. u \in Seq(S)
    BY <1>0, SliceType
  <2>. HIDE DEF u
  <2>. QED
    BY <1>0, <2>1, <2>2, <2>3
<1>. HIDE DEF t, u
<1>3. j \in 0 .. Len(t)
  BY <1>1
<1>4. v \in Seq(S) /\ Len(v) = j - i /\ \A k \in 1 .. j - i : v[k] = t[i + k]
  BY <1>1, <1>3, SliceType, SliceLen, SliceElement
<1>. HIDE DEF v
<1>5. \A k \in 1 .. Len(v) : v[k] = u[k]
  <2>. SUFFICES ASSUME NEW k \in 1 .. j - i PROVE v[k] = u[k]
    BY <1>4
  <2>1. v[k] = t[i + k]
    BY <1>4
  <2>2. u[k] = s[m + i + k]
    BY <1>2
  <2>3. i + k \in 1 .. n - m
    OBVIOUS
  <2>4. t[i + k] = s[m + (i + k)]
    BY <1>1, <2>3
  <2>. QED
    BY <2>1, <2>2, <2>4
<1>6. v = u
  BY <1>2, <1>4, <1>5, SeqEqual
<1>. QED
  BY <1>6 DEF t, u, v

-----------------------------------------------------------------------------
(* strlen and fgets: what CHOOSE picks in them exists *)

\* strlen is within the buffer.
LEMMA StrlenRange ==
  ASSUME NEW S, NEW l \in Seq(S)
  PROVE  StrlenOf(l) \in 0 .. Len(l)
<1>0. Len(l) \in Nat /\ DOMAIN l = 1 .. Len(l)
  BY LenProperties
<1>1. CASE NUL \notin ToSet(l)
  BY <1>0, <1>1 DEF StrlenOf
<1>2. CASE NUL \in ToSet(l)
  <2>. DEFINE T == {i \in DOMAIN l : l[i] = NUL}
              First(i) == l[i] = NUL /\ \A j \in 1 .. i - 1 : l[j] # NUL
  <2>1. T \in SUBSET Nat /\ T # {}
    BY <1>0, <1>2 DEF ToSet
  <2>2. PICK i \in T : \A j \in T : i =< j
    BY <2>1, LeastNatural
  <2>3. i \in DOMAIN l /\ First(i)
    BY <1>0, <2>2
  <2>4. (CHOOSE k \in DOMAIN l : First(k)) \in DOMAIN l
    BY <2>3
  <2>. QED
    BY <1>0, <1>2, <2>4 DEF StrlenOf
<1>. QED
  BY <1>1, <1>2

\* A line that ends where the buffer does, or at the end of the file, gets a null character.
LEMMA StrlenOfNul ==
  ASSUME NEW S, NEW l \in Seq(S), NUL \notin ToSet(l)
  PROVE  StrlenOf(Append(l, NUL)) = Len(l)
<1>. DEFINE k == Append(l, NUL)
            First(i) == k[i] = NUL /\ \A j \in 1 .. i - 1 : k[j] # NUL
<1>0. /\ Len(l) \in Nat /\ DOMAIN l = 1 .. Len(l)
      /\ l \in Seq(S \cup {NUL}) /\ NUL \in S \cup {NUL}
  BY LenProperties, SeqMonotonic
<1>1. /\ k \in Seq(S \cup {NUL}) /\ Len(k) = Len(l) + 1
      /\ \A i \in 1 .. Len(l) : k[i] = l[i]
      /\ k[Len(l) + 1] = NUL
  BY <1>0, AppendProperties
<1>2. DOMAIN k = 1 .. Len(l) + 1
  BY <1>1, LenProperties
<1>. HIDE DEF k
<1>3. \A i \in 1 .. Len(l) : k[i] # NUL
  BY <1>0, <1>1 DEF ToSet
<1>4. \A i \in DOMAIN k : First(i) <=> i = Len(l) + 1
  BY <1>0, <1>1, <1>2, <1>3
<1>5. Len(l) + 1 \in DOMAIN k
  BY <1>0, <1>2
<1>. DEFINE p == CHOOSE i \in DOMAIN k : First(i)
<1>6. p = Len(l) + 1
  BY <1>4, <1>5
<1>7. NUL \in ToSet(k)
  BY <1>1, <1>5 DEF ToSet
<1>8. StrlenOf(k) = p - 1
  BY <1>7 DEF StrlenOf
<1>. HIDE DEF p
<1>9. StrlenOf(k) = Len(l)
  BY <1>0, <1>6, <1>8
<1>. QED
  BY <1>9 DEF k

\* readline and fgets leave room for the null character.
LEMMA RoomFacts == Room \in Nat /\ Room >= 1 /\ MAXLINE = Room + 1
BY StreamEchoAssumption DEF Room

\* fgets takes a character at least, no more than fit, and none after a newline.
LEMMA NextLineProperties ==
  ASSUME NEW S, NEW s \in Seq(S), s # <<>>
  PROVE  \E n \in 1 .. Len(s) : n =< Room /\ NextLine(s) = SubSeq(s, 1, n)
<1>0. Len(s) \in Nat /\ Len(s) >= 1 /\ DOMAIN s = 1 .. Len(s)
  BY LenProperties, EmptySeq
<1>. DEFINE T == {k \in 1 .. Len(s) : k = Len(s) \/ k = Room \/ s[k] = Newline}
            Line(k) == /\ k =< Room
                       /\ \A j \in 1 .. k - 1 : s[j] # Newline
                       /\ k = Len(s) \/ k = Room \/ s[k] = Newline
<1>1. T \in SUBSET Nat /\ Len(s) \in T
  BY <1>0
<1>2. PICK n \in 1 .. Len(s) :
             /\ n = Len(s) \/ n = Room \/ s[n] = Newline
             /\ \A m \in T : n =< m
  BY <1>1, LeastNatural
<1>. HIDE DEF T
<1>3. \A j \in 1 .. n - 1 : s[j] # Newline
  <2>. SUFFICES ASSUME NEW j \in 1 .. n - 1, s[j] = Newline PROVE FALSE
    OBVIOUS
  <2>1. j \in 1 .. Len(s) /\ j < n
    BY <1>0
  <2>2. j \in T
    BY <2>1 DEF T
  <2>. QED
    BY <1>1, <1>2, <2>1, <2>2
<1>4. n =< Room
  <2>1. CASE Room \in 1 .. Len(s)
    <3>1. Room \in T
      BY <2>1 DEF T
    <3>. QED
      BY <1>2, <3>1
  <2>2. CASE Room > Len(s)
    BY <1>0, <2>2, RoomFacts
  <2>. QED
    BY <1>0, <2>1, <2>2, RoomFacts
<1>5. \E k \in 1 .. Len(s) : Line(k)
  BY <1>2, <1>3, <1>4
<1>. DEFINE p == CHOOSE k \in 1 .. Len(s) : Line(k)
<1>6. p \in 1 .. Len(s) /\ Line(p)
  BY <1>5
<1>7. NextLine(s) = SubSeq(s, 1, p)
  BY DEF NextLine
<1>. QED
  BY <1>6, <1>7

-----------------------------------------------------------------------------
\* Where the processes at the two ends run.
Talking == {"fgets", "write", "read"}
Greeting == {"writev", "version", "protocol"}
ClientRuns == Talking \cup Greeting \cup {"return", "fail"}
ServerRuns == {"header", "version", "protocol", "recv", "read", "write", "return", "fail"}
Runs(e) == IF e = "client" THEN ClientRuns ELSE ServerRuns

Text == UNION {ToSet(input[c]) \ {NUL} : c \in Clients}
Byte == Text \cup {NUL, "header", "success", "error"}

Users ==
  /\ program \in DOMAIN Pairs /\ header \in {"same", "version", "protocol"}
  /\ \A c \in Clients : input[c] \in Seq(ToSet(input[c]) \ {NUL})

Data ==
  /\ line \in [Ends -> [Clients -> Seq(Byte)]]
  /\ wire \in [Ends -> [Clients -> Seq(Byte)]]
  /\ taken \in [Clients -> Nat]
  /\ \A c \in Clients : taken[c] =< Len(input[c])
  /\ printed \in [Clients -> Seq(Byte)]
  /\ reset \subseteq Clients

Control ==
  /\ listener \in {"accept", "fork", "serve", "close", "over"}
  /\ accepted \in Clients \cup {NoClient} /\ backlog \in Seq(Clients)
  /\ at \in [Ends -> [Clients -> Labels]]
  /\ holds \subseteq {"client", "listener", "child"} \X Clients
  /\ unreaped \subseteq Clients
  /\ sigcld \in BOOLEAN /\ handler \in BOOLEAN

Shape == Users /\ Data /\ Control

\* What the eight pairs of programs have in common.
LEMMA PairsFacts ==
  ASSUME program \in DOMAIN Pairs
  PROVE  /\ theServer.forks \in BOOLEAN /\ theServer.goesOn \in BOOLEAN
         /\ theServer.service \in {"str_echo", "header", "daemon", "recv", "inetd_echo", "discard"}
         /\ ~theServer.forks => theServer.service = "str_echo"
         /\ theClient.first = IF theServer.service = "header" THEN "writev" ELSE "fgets"
         /\ theClient.then = IF theServer.service = "recv" THEN "return"
                             ELSE IF theServer.service = "discard" THEN "fgets" ELSE "read"
         /\ program = "send_recv" <=> theServer.service = "recv"
<1>1. DOMAIN Pairs = {"tcp", "spp", "unix_stream", "syscalls", "tcp_daemon", "send_recv",
                      "inetd_echo", "inetd_discard"}
  BY DEF Pairs
<1>. USE DEF Pairs, theServer, theClient, Server, Client
<1>2. CASE program = "tcp"
  BY <1>2 DEF TcpServer, TcpClient
<1>3. CASE program = "spp"
  BY <1>3 DEF SppServer, SppClient
<1>4. CASE program = "unix_stream"
  BY <1>4 DEF UnixServer, UnixClient
<1>5. CASE program = "syscalls"
  BY <1>5 DEF SyscallsServer, SyscallsClient
<1>6. CASE program = "tcp_daemon"
  BY <1>6 DEF DaemonServer, TcpClient
<1>7. CASE program = "send_recv"
  BY <1>7 DEF SendRecvServer, SendRecvClient
<1>8. CASE program = "inetd_echo"
  BY <1>8 DEF InetdServer, TcpClient
<1>9. CASE program = "inetd_discard"
  BY <1>9 DEF InetdServer, DiscardClient
<1>. QED
  BY <1>1, <1>2, <1>3, <1>4, <1>5, <1>6, <1>7, <1>8, <1>9

\* To close descriptors empties the ends that nobody has open any more.
LEMMA DropEffect ==
  ASSUME Data, NEW closed, Drop(closed)
  PROVE  /\ holds' = holds \ closed
         /\ wire' \in [Ends -> [Clients -> Seq(Byte)]]
         /\ \A e \in Ends, c \in Clients :
              wire'[e][c] = IF IsOpen(holds', e, c) THEN wire[e][c] ELSE <<>>
         /\ reset' \subseteq Clients
<1>. \A S : <<>> \in Seq(S)
  BY EmptySeq
<1>. QED
  BY DEF Drop, Data

\* What a write does, with the result of IsOpen.
Sending(e, c, s, then) ==
  LET o == Other(e) IN
  /\ holds' = holds
  /\ wire' \in [Ends -> [Clients -> Seq(Byte)]] /\ reset' \subseteq Clients
  /\ \A x \in Ends, d \in Clients : x # o \/ d # c => wire'[x][d] = wire[x][d]
  /\ IF IsOpen(holds, o, c)
     THEN wire'[o][c] = wire[o][c] \o s /\ at' = [at EXCEPT ![e][c] = then]
     ELSE /\ wire' = wire
          /\ at' = [at EXCEPT ![e][c] = then] \/ at' = [at EXCEPT ![e][c] = "fail"]

\* A write of s is one of the three that Send allows.
LEMMA SendEffect ==
  ASSUME Data, NEW e \in Ends, NEW c \in Clients, NEW s \in Seq(Byte), NEW then,
         Send(e, c, s, then)
  PROVE  Sending(e, c, s, then)
<1>. DEFINE o == Other(e)
<1>1. o \in Ends
  BY DEF Other, Ends
<1>2. wire[o][c] \o s \in Seq(Byte)
  BY <1>1, ConcatProperties DEF Data
<1>. HIDE DEF o
<1>3. CASE /\ IsOpen(holds, o, c)
           /\ wire' = [wire EXCEPT ![o][c] = @ \o s]
           /\ at' = [at EXCEPT ![e][c] = then]
           /\ UNCHANGED <<holds, reset>>
  BY <1>1, <1>2, <1>3 DEF Data, o, Sending
<1>4. CASE /\ ~IsOpen(holds, o, c)
           /\ reset' = reset \cup {c} \/ reset' = reset
           /\ at' = [at EXCEPT ![e][c] = then] \/ at' = [at EXCEPT ![e][c] = "fail"]
           /\ UNCHANGED <<holds, wire>>
  BY <1>4 DEF Data, o, Sending
<1>. QED
  BY <1>1, <1>3, <1>4 DEF Send, o

-----------------------------------------------------------------------------
\* The types of the parts of the state.
LEMMA SmallFacts ==
  ASSUME Shape
  PROVE  /\ <<>> \in Seq(Byte) /\ NUL \in Byte
         /\ \A b \in Byte : <<b>> \in Seq(Byte)
         /\ \A c \in Clients : input[c] \in Seq(Byte) /\ Len(input[c]) \in Nat
         /\ \A e \in Ends, c \in Clients :
              /\ line[e][c] \in Seq(Byte) /\ Len(line[e][c]) \in Nat
              /\ wire[e][c] \in Seq(Byte) /\ Len(wire[e][c]) \in Nat
         /\ \A c \in Clients : printed[c] \in Seq(Byte) /\ taken[c] \in 0 .. Len(input[c])
<1>0. NUL \in Byte
  BY DEF Byte
<1>1. <<>> \in Seq(Byte) /\ \A b \in Byte : <<b>> \in Seq(Byte)
  BY EmptySeq
<1>2. ASSUME NEW c \in Clients PROVE input[c] \in Seq(Byte)
  <2>1. ToSet(input[c]) \ {NUL} \subseteq Byte
    BY DEF Byte, Text
  <2>2. input[c] \in Seq(ToSet(input[c]) \ {NUL})
    BY DEF Shape, Users
  <2>. HIDE DEF Byte
  <2>. QED
    BY <2>1, <2>2, SeqMonotonic
<1>3. \A s \in Seq(Byte) : Len(s) \in Nat
  BY LenProperties
<1>4. \A e \in Ends, c \in Clients : line[e][c] \in Seq(Byte) /\ wire[e][c] \in Seq(Byte)
  BY DEF Shape, Data
<1>5. \A c \in Clients : /\ printed[c] \in Seq(Byte)
                         /\ taken[c] \in Nat /\ taken[c] =< Len(input[c])
  BY DEF Shape, Data
<1>. HIDE DEF Byte
<1>. QED
  BY <1>0, <1>1, <1>2, <1>3, <1>4, <1>5

\* A server goes back to its read, writes what it has read, or returns.
LEMMA ServeEffect ==
  ASSUME program \in DOMAIN Pairs, NEW c, NEW l, Serve(c, l)
  PROVE  \E to \in {"return", "write", "read"} :
           /\ at' = [at EXCEPT !["server"][c] = to]
           /\ line' = [line EXCEPT !["server"][c] = IF to = "write" THEN l ELSE <<>>]
           /\ printed' = printed
           /\ to = "write" => theServer.service # "discard" /\ l # <<>>
           /\ to = "read" => theServer.service = "discard"
<1>. DEFINE to == CASE theServer.service = "daemon" -> DaemonEcho(l)
                    [] theServer.service = "inetd_echo" -> InetdEcho(l)
                    [] theServer.service = "discard" -> InetdDiscard(l)
                    [] OTHER -> StrEcho(l)
<1>1. /\ to \in {"return", "write", "read"}
      /\ to = "write" => theServer.service # "discard" /\ l # <<>>
      /\ to = "read" => theServer.service = "discard"
  <2>. USE DEF DaemonEcho, InetdEcho, InetdDiscard, StrEcho
  <2>1. CASE theServer.service = "daemon"
    BY <2>1
  <2>2. CASE theServer.service = "inetd_echo"
    BY <2>2
  <2>3. CASE theServer.service = "discard"
    BY <2>3
  <2>4. CASE theServer.service \in {"str_echo", "header", "recv"}
    BY <2>4
  <2>. QED
    BY <2>1, <2>2, <2>3, <2>4, PairsFacts
<1>2. /\ at' = [at EXCEPT !["server"][c] = to]
      /\ line' = [line EXCEPT !["server"][c] = IF to = "write" THEN l ELSE <<>>]
      /\ printed' = printed
  BY DEF Serve
<1>. HIDE DEF to
<1>. QED
  BY <1>1, <1>2

\* What a step of one process leaves alone.
Frame(e, c) ==
  /\ holds' = holds
  /\ \A x \in Ends, d \in Clients :
       x # e \/ d # c => at'[x][d] = at[x][d] /\ line'[x][d] = line[x][d]
  /\ \A x \in Ends, d \in Clients : d # c => wire'[x][d] = wire[x][d]
  /\ \A x \in Ends : ~IsOpen(holds, x, c) /\ wire[x][c] = <<>> => wire'[x][c] = <<>>
  /\ \A d \in Clients : d # c => printed'[d] = printed[d] /\ taken'[d] = taken[d]
  /\ at[e][c] \in Runs(e) /\ at'[e][c] \in Runs(e)
  /\ at' \in [Ends -> [Clients -> Labels]]

Types ==
  /\ line \in [Ends -> [Clients -> Seq(Byte)]]
  /\ wire \in [Ends -> [Clients -> Seq(Byte)]]
  /\ taken \in [Clients -> Nat]
  /\ printed \in [Clients -> Seq(Byte)]
  /\ reset \subseteq Clients

Goes(e, c, to) ==
  /\ at'[e][c] = to
  /\ at' \in [Ends -> [Clients -> Labels]]
  /\ \A x \in Ends, d \in Clients : x # e \/ d # c => at'[x][d] = at[x][d]

\* A process that goes on moves alone.
LEMMA TalkAt ==
  ASSUME Shape, NEW e \in Ends, NEW c \in Clients, NEW to \in Runs(e),
         at' = [at EXCEPT ![e][c] = to]
  PROVE  Goes(e, c, to)
<1>1. to \in Labels
  BY DEF Runs, ClientRuns, ServerRuns, Talking, Greeting, Labels
<1>2. at \in [Ends -> [Clients -> Labels]]
  BY DEF Shape, Control
<1>. QED
  BY <1>1, <1>2 DEF Goes

\* What readline returns changes only the process that called it.
LEMMA ReturnFrame ==
  ASSUME Shape, Byte' = Byte, NEW e \in Ends, NEW c \in Clients, NEW l \in Seq(Byte),
         at[e][c] = "read", Return(e, c, l)
  PROVE  /\ \E to \in {"fgets", "return", "write", "read"} :
              /\ at' = [at EXCEPT ![e][c] = to] /\ to \in Runs(e)
              /\ line' = [line EXCEPT ![e][c] = IF to = "write" THEN l ELSE <<>>]
         /\ printed' \in [Clients -> Seq(Byte)]
         /\ \A d \in Clients : d # c => printed'[d] = printed[d]
<1>1. CASE e = "client"
  <2>1. StrCli(c, l)
    BY <1>1 DEF Return
  <2>2. SubSeq(l, 1, StrlenOf(l)) \in Seq(Byte)
    <3>1. StrlenOf(l) \in 0 .. Len(l)
      BY StrlenRange
    <3>2. Slice(l, 0, StrlenOf(l)) \in Seq(Byte)
      BY <3>1, SliceType, LenProperties
    <3>. QED
      BY <3>2 DEF Slice
  <2>3. printed[c] \o SubSeq(l, 1, StrlenOf(l)) \in Seq(Byte)
    BY <2>2, SmallFacts, ConcatProperties
  <2>4. printed \in [Clients -> Seq(Byte)]
    BY DEF Shape, Data
  <2>5. printed' \in [Clients -> Seq(Byte)] /\ \A d \in Clients : d # c => printed'[d] = printed[d]
    BY <2>1, <2>3, <2>4 DEF StrCli
  <2>6. /\ at' = [at EXCEPT ![e][c] = "fgets"] /\ "fgets" \in Runs(e)
        /\ line' = [line EXCEPT ![e][c] = <<>>]
    BY <1>1, <2>1 DEF StrCli, Runs, ClientRuns, Talking
  <2>. QED
    BY <2>5, <2>6
<1>2. CASE e = "server"
  <2>1. Serve(c, l)
    BY <1>2 DEF Return
  <2>2. PICK to \in {"return", "write", "read"} :
           /\ at' = [at EXCEPT !["server"][c] = to]
           /\ line' = [line EXCEPT !["server"][c] = IF to = "write" THEN l ELSE <<>>]
           /\ printed' = printed
    BY <2>1, ServeEffect DEF Shape, Users
  <2>3. to \in Runs(e)
    BY <1>2 DEF Runs, ServerRuns
  <2>. QED
    BY <1>2, <2>2, <2>3 DEF Shape, Data
<1>. QED
  BY <1>1, <1>2 DEF Ends

\* readline takes from its own end of its connection only.
LEMMA ReadlineFrame ==
  ASSUME Shape, Byte' = Byte, NEW e \in Ends, NEW c \in Clients, Readline(e, c)
  PROVE  Frame(e, c) /\ Types'
<1>. DEFINE s == line[e][c]
            w == wire[e][c]
<1>0. /\ s \in Seq(Byte) /\ w \in Seq(Byte) /\ NUL \in Byte /\ <<>> \in Seq(Byte)
      /\ wire \in [Ends -> [Clients -> Seq(Byte)]]
      /\ line \in [Ends -> [Clients -> Seq(Byte)]]
      /\ at[e][c] = "read" /\ "read" \in Runs(e) /\ "fail" \in Runs(e)
      /\ holds' = holds /\ reset' = reset /\ taken' = taken
  BY SmallFacts DEF Readline, Runs, ClientRuns, ServerRuns, Talking, Shape, Data
<1>1. /\ wire' \in [Ends -> [Clients -> Seq(Byte)]]
      /\ \A x \in Ends, d \in Clients : d # c => wire'[x][d] = wire[x][d]
      /\ \A x \in Ends : ~IsOpen(holds, x, c) /\ wire[x][c] = <<>> => wire'[x][c] = <<>>
  <2>1. w # <<>> => Tail(w) \in Seq(Byte)
    BY <1>0, HeadTailProperties
  <2>2. CASE w # <<>> /\ wire' = [wire EXCEPT ![e][c] = Tail(@)]
    BY <1>0, <2>1, <2>2
  <2>3. CASE wire' = wire
    BY <1>0, <2>3
  <2>. QED
    BY <2>2, <2>3 DEF Readline
<1>2. w # <<>> => /\ Append(s, Head(w)) \in Seq(Byte)
                  /\ Append(Append(s, Head(w)), NUL) \in Seq(Byte)
  BY <1>0, HeadTailProperties, AppendProperties
<1>3. Append(s, NUL) \in Seq(Byte)
  BY <1>0, AppendProperties
<1>4. \/ \E l \in Seq(Byte) : Return(e, c, l)
      \/ \E l \in Seq(Byte) : line' = [line EXCEPT ![e][c] = l] /\ UNCHANGED <<at, printed>>
      \/ at' = [at EXCEPT ![e][c] = "fail"] /\ UNCHANGED <<line, printed>>
  BY <1>0, <1>2, <1>3 DEF Readline
<1>. HIDE DEF s, w
<1>5. ASSUME NEW l \in Seq(Byte), Return(e, c, l)
      PROVE  Frame(e, c) /\ Types'
  <2>1. PICK to \in {"fgets", "return", "write", "read"} :
              /\ at' = [at EXCEPT ![e][c] = to] /\ to \in Runs(e)
              /\ line' = [line EXCEPT ![e][c] = IF to = "write" THEN l ELSE <<>>]
    BY <1>0, <1>5, ReturnFrame
  <2>2. /\ printed' \in [Clients -> Seq(Byte)]
        /\ \A d \in Clients : d # c => printed'[d] = printed[d]
    BY <1>0, <1>5, ReturnFrame
  <2>3. Goes(e, c, to)
    BY <1>0, <2>1, TalkAt
  <2>4. /\ line' \in [Ends -> [Clients -> Seq(Byte)]]
        /\ \A x \in Ends, d \in Clients : x # e \/ d # c => line'[x][d] = line[x][d]
    BY <1>0, <2>1
  <2>. QED
    BY <1>0, <1>1, <2>1, <2>2, <2>3, <2>4 DEF Frame, Goes, Types, Shape, Data
<1>6. ASSUME NEW l \in Seq(Byte), line' = [line EXCEPT ![e][c] = l], UNCHANGED <<at, printed>>
      PROVE  Frame(e, c) /\ Types'
  BY <1>0, <1>1, <1>6 DEF Frame, Types, Shape, Data, Control
<1>7. CASE at' = [at EXCEPT ![e][c] = "fail"] /\ UNCHANGED <<line, printed>>
  <2>1. Goes(e, c, "fail")
    BY <1>0, <1>7, TalkAt
  <2>. QED
    BY <1>0, <1>1, <1>7, <2>1 DEF Frame, Goes, Types, Shape, Data
<1>. QED
  BY <1>4, <1>5, <1>6, <1>7

\* A write goes to the other end of the same connection.
LEMMA SendFrame ==
  ASSUME Shape, Byte' = Byte, NEW e \in Ends, NEW c \in Clients, NEW s \in Seq(Byte), NEW to,
         at[e][c] \in Runs(e), to \in Runs(e), Send(e, c, s, to),
         line' \in [Ends -> [Clients -> Seq(Byte)]],
         \A x \in Ends, d \in Clients : x # e \/ d # c => line'[x][d] = line[x][d],
         UNCHANGED <<printed, taken>>
  PROVE  Frame(e, c) /\ Types'
<1>1. Sending(e, c, s, to)
  BY SendEffect DEF Shape
<1>2. "fail" \in Runs(e)
  BY DEF Runs, ClientRuns, ServerRuns
<1>3. Goes(e, c, to) \/ Goes(e, c, "fail")
  BY <1>1, <1>2, TalkAt DEF Sending
<1>. QED
  BY <1>1, <1>2, <1>3 DEF Sending, Frame, Goes, Types, Shape, Data

\* What one write takes, and what it leaves.
LEMMA PieceTypes ==
  ASSUME Shape, NEW e \in Ends, NEW c \in Clients, NEW n \in 1 .. Len(line[e][c])
  PROVE  /\ SubSeq(line[e][c], 1, n) \in Seq(Byte)
         /\ SubSeq(line[e][c], n + 1, Len(line[e][c])) \in Seq(Byte)
<1>. DEFINE s == line[e][c]
<1>1. s \in Seq(Byte) /\ Len(s) \in Nat
  BY SmallFacts
<1>. HIDE DEF s
<1>2. n \in 0 .. Len(s) /\ 0 \in 0 .. n /\ Len(s) \in 0 .. Len(s) /\ n \in 0 .. Len(s)
  BY <1>1 DEF s
<1>3. Slice(s, 0, n) \in Seq(Byte)
  BY <1>1, <1>2, SliceType
<1>4. Slice(s, n, Len(s)) \in Seq(Byte)
  BY <1>1, <1>2, SliceType
<1>. QED
  BY <1>3, <1>4 DEF Slice, s

\* So does each write of writen.
LEMMA WritenFrame ==
  ASSUME Shape, Byte' = Byte, NEW e \in Ends, NEW c \in Clients, Writen(e, c)
  PROVE  Frame(e, c) /\ Types'
<1>. DEFINE s == line[e][c]
            to(n) == IF n < Len(s) THEN "write"
                     ELSE IF e = "client" THEN theClient.then ELSE "read"
<1>1. PICK n \in 1 .. Len(s) :
        /\ line' = [line EXCEPT ![e][c] = SubSeq(@, n + 1, Len(@))]
        /\ Send(e, c, SubSeq(s, 1, n), to(n))
  BY DEF Writen
<1>2. to(n) \in Runs(e) /\ at[e][c] \in Runs(e)
  BY PairsFacts DEF Runs, ClientRuns, ServerRuns, Talking, Shape, Users, Ends, Writen
<1>3. SubSeq(s, 1, n) \in Seq(Byte) /\ SubSeq(s, n + 1, Len(s)) \in Seq(Byte)
  BY PieceTypes
<1>4. /\ line' \in [Ends -> [Clients -> Seq(Byte)]]
      /\ \A x \in Ends, d \in Clients : x # e \/ d # c => line'[x][d] = line[x][d]
  BY <1>1, <1>3 DEF Shape, Data
<1>5. UNCHANGED <<printed, taken>>
  BY DEF Writen
<1>. DEFINE p == SubSeq(s, 1, n)
            q == to(n)
<1>6. Send(e, c, p, q) /\ p \in Seq(Byte) /\ q \in Runs(e)
  BY <1>1, <1>2, <1>3
<1>. HIDE DEF p, q, to, s
<1>. QED
  BY <1>2, <1>4, <1>5, <1>6, SendFrame

\* fgets takes no more than there is to take.
LEMMA FgetsFrame ==
  ASSUME Shape, Byte' = Byte, NEW c \in Clients, Fgets(c)
  PROVE  /\ Frame("client", c) /\ Types'
         /\ taken'[c] =< Len(input[c])
<1>. DEFINE s == input[c]
            rest == SubSeq(s, taken[c] + 1, Len(s))
<1>0. /\ s \in Seq(Byte) /\ Len(s) \in Nat /\ taken[c] \in 0 .. Len(s)
      /\ at["client"][c] \in Runs("client")
      /\ {"return", "write"} \subseteq Runs("client") /\ "client" \in Ends
  BY SmallFacts DEF Fgets, Runs, ClientRuns, Talking, Ends
<1>1. rest \in Seq(Byte)
  <2>1. Len(s) \in 0 .. Len(s) /\ taken[c] \in 0 .. Len(s) /\ s \in Seq(Byte)
    BY <1>0
  <2>. HIDE DEF s
  <2>2. Slice(s, taken[c], Len(s)) \in Seq(Byte)
    BY <2>1, SliceType
  <2>. QED
    BY <2>2 DEF Slice
<1>2. Len(rest) = Len(s) - taken[c]
  <2>. DEFINE t == taken[c]
  <2>1. t \in 0 .. Len(s) /\ Len(s) \in 0 .. Len(s) /\ rest = Slice(s, t, Len(s))
    BY <1>0 DEF Slice
  <2>. HIDE DEF s, t, rest
  <2>2. Len(Slice(s, t, Len(s))) = Len(s) - t
    BY <1>0, <2>1, SliceLen
  <2>. QED
    BY <2>1, <2>2 DEF t
<1>3. CASE rest = <<>>
  <2>1. at' = [at EXCEPT !["client"][c] = "return"] /\ UNCHANGED <<line, taken>>
    BY <1>3 DEF Fgets
  <2>2. Goes("client", c, "return")
    BY <1>0, <2>1, TalkAt
  <2>. QED
    BY <1>0, <2>1, <2>2 DEF Fgets, Frame, Goes, Types, Shape, Data
<1>4. CASE rest # <<>>
  <2>. DEFINE l == NextLine(rest)
  <2>1. /\ at' = [at EXCEPT !["client"][c] = "write"]
        /\ line' = [line EXCEPT !["client"][c] = l]
        /\ taken' = [taken EXCEPT ![c] = @ + Len(l)]
    BY <1>4 DEF Fgets
  <2>2. PICK n \in 1 .. Len(rest) : l = SubSeq(rest, 1, n)
    BY <1>1, <1>4, NextLineProperties
  <2>3. n \in 0 .. Len(rest) /\ 0 \in 0 .. n
    BY <1>0, <1>2
  <2>. HIDE DEF l, rest
  <2>4. l = Slice(rest, 0, n)
    BY <2>2 DEF Slice
  <2>4a. Slice(rest, 0, n) \in Seq(Byte)
    BY <1>1, <2>3, SliceType
  <2>5. Len(Slice(rest, 0, n)) = n - 0
    BY <1>1, <2>3, SliceLen
  <2>6. l \in Seq(Byte) /\ Len(l) = n
    BY <2>3, <2>4, <2>4a, <2>5
  <2>7. Goes("client", c, "write")
    BY <1>0, <2>1, TalkAt
  <2>8. taken' \in [Clients -> Nat] /\ taken'[c] = taken[c] + n
        /\ \A d \in Clients : d # c => taken'[d] = taken[d]
    BY <1>0, <2>1, <2>6 DEF Shape, Data
  <2>9. taken'[c] =< Len(s)
    BY <1>0, <1>2, <2>3, <2>8
  <2>10. /\ line' \in [Ends -> [Clients -> Seq(Byte)]]
         /\ \A x \in Ends, d \in Clients : x # "client" \/ d # c => line'[x][d] = line[x][d]
    BY <2>1, <2>6 DEF Shape, Data
  <2>11. UNCHANGED <<wire, holds, reset, printed>>
    BY DEF Fgets
  <2>. QED
    BY <1>0, <2>7, <2>8, <2>9, <2>10, <2>11 DEF Frame, Goes, Types, Shape, Data
<1>. QED
  BY <1>3, <1>4

\* recv takes from its own end.
LEMMA RecvFrame ==
  ASSUME Shape, Byte' = Byte, NEW c \in Clients, Recv(c)
  PROVE  Frame("server", c) /\ Types'
<1>. DEFINE w == wire["server"][c]
<1>0. /\ w \in Seq(Byte) /\ Len(w) \in Nat /\ printed[c] \in Seq(Byte)
      /\ at["server"][c] \in Runs("server")
      /\ "return" \in Runs("server") /\ "server" \in Ends
      /\ at' = [at EXCEPT !["server"][c] = "return"]
      /\ UNCHANGED <<line, holds, reset, taken>>
  BY SmallFacts DEF Recv, Runs, ServerRuns, Ends
<1>1. Goes("server", c, "return")
  BY <1>0, TalkAt
<1>2. /\ printed' \in [Clients -> Seq(Byte)]
      /\ wire' \in [Ends -> [Clients -> Seq(Byte)]]
      /\ \A d \in Clients : d # c => printed'[d] = printed[d]
      /\ \A x \in Ends, d \in Clients : d # c => wire'[x][d] = wire[x][d]
      /\ \A x \in Ends : ~IsOpen(holds, x, c) /\ wire[x][c] = <<>> => wire'[x][c] = <<>>
  <2>1. CASE UNCHANGED <<printed, wire>>
    BY <2>1 DEF Shape, Data
  <2>2. ASSUME NEW n \in 1 .. Len(w),
               printed' = [printed EXCEPT ![c] = @ \o SubSeq(w, 1, n)],
               wire' = [wire EXCEPT !["server"][c] = SubSeq(@, n + 1, Len(@))]
        PROVE  <1>2
    <3>. HIDE DEF w
    <3>1. n \in 0 .. Len(w) /\ 0 \in 0 .. n /\ Len(w) \in 0 .. Len(w)
      BY <1>0
    <3>2. Slice(w, 0, n) \in Seq(Byte)
      BY <1>0, <3>1, SliceType
    <3>3. Slice(w, n, Len(w)) \in Seq(Byte)
      BY <1>0, <3>1, SliceType
    <3>4. printed[c] \o Slice(w, 0, n) \in Seq(Byte)
      BY <1>0, <3>2, ConcatProperties
    <3>5. printed' = [printed EXCEPT ![c] = @ \o Slice(w, 0, n)]
      BY <2>2 DEF Slice
    <3>6. wire' = [wire EXCEPT !["server"][c] = Slice(w, n, Len(w))]
      BY <2>2 DEF Slice, w
    <3>7. w # <<>>
      BY <1>0, EmptySeq
    <3>. QED
      BY <3>3, <3>4, <3>5, <3>6, <3>7 DEF Shape, Data, w
  <2>. QED
    BY <2>1, <2>2 DEF Recv
<1>. QED
  BY <1>0, <1>1, <1>2 DEF Frame, Goes, Types, Shape, Data

\* So does the readv or recv of a header.
LEMMA TakeFrame ==
  ASSUME Shape, Byte' = Byte, NEW e \in Ends, NEW c \in Clients, NEW to \in Runs(e),
         "fail" \in Runs(e),
         at[e][c] \in Runs(e), Take(e, c, to), UNCHANGED <<line, printed, taken>>
  PROVE  Frame(e, c) /\ Types'
<1>1. Goes(e, c, to) \/ Goes(e, c, "fail")
  <2>1. CASE at' = [at EXCEPT ![e][c] = to]
    BY <2>1, TalkAt
  <2>2. CASE at' = [at EXCEPT ![e][c] = "fail"]
    BY <2>2, TalkAt
  <2>. QED
    BY <2>1, <2>2 DEF Take
<1>2. /\ wire' \in [Ends -> [Clients -> Seq(Byte)]]
      /\ \A x \in Ends, d \in Clients : d # c => wire'[x][d] = wire[x][d]
  <2>1. wire[e][c] # <<>> => Tail(wire[e][c]) \in Seq(Byte)
    BY SmallFacts, HeadTailProperties
  <2>2. \/ wire[e][c] # <<>> /\ wire' = [wire EXCEPT ![e][c] = Tail(@)]
        \/ wire' = wire
    BY DEF Take
  <2>3. wire \in [Ends -> [Clients -> Seq(Byte)]]
    BY DEF Shape, Data
  <2>4. CASE wire[e][c] # <<>> /\ wire' = [wire EXCEPT ![e][c] = Tail(@)]
    BY <2>1, <2>3, <2>4
  <2>5. CASE wire' = wire
    BY <2>3, <2>5
  <2>. QED
    BY <2>2, <2>4, <2>5
<1>. QED
  BY <1>1, <1>2 DEF Take, Frame, Goes, Types, Shape, Data

\* The exchange of headers concerns one connection.
LEMMA HeaderFrame ==
  ASSUME Shape, Byte' = Byte, NEW e \in Ends, NEW c \in Clients,
         \/ e = "client" /\ ClientHeader(c)
         \/ e = "server" /\ ServerHeader(c)
  PROVE  Frame(e, c) /\ Types'
<1>1. {"version", "protocol", "read", "return"} \subseteq Runs("server")
      /\ "fail" \in Runs("server") /\ "fail" \in Runs("client")
      /\ {"version", "protocol", "fgets", "fail"} \subseteq Runs("client")
      /\ {"header", "version", "protocol"} \subseteq Runs("server")
      /\ {"writev", "version", "protocol"} \subseteq Runs("client")
  BY DEF Runs, ClientRuns, ServerRuns, Talking, Greeting
<1>2. /\ "header" \in Byte /\ "error" \in Byte /\ "success" \in Byte
      /\ \A b \in Byte : <<b>> \in Seq(Byte)
  BY SmallFacts DEF Byte
<1>3. UNCHANGED <<line, printed, taken>>
  BY DEF ClientHeader, ServerHeader
<1>4. ASSUME NEW here, at[e][c] = here, NEW to, here \in Runs(e), to \in Runs(e), Take(e, c, to)
      PROVE  Frame(e, c) /\ Types'
  <2>1. "fail" \in Runs(e)
    BY <1>1 DEF Ends
  <2>. QED
    BY <1>3, <1>4, <2>1, TakeFrame
<1>5. ASSUME NEW here, at[e][c] = here, NEW to, here \in Runs(e), to \in Runs(e),
             NEW b \in Byte, Send(e, c, <<b>>, to)
      PROVE  Frame(e, c) /\ Types'
  <2>1. /\ line' \in [Ends -> [Clients -> Seq(Byte)]]
        /\ \A x \in Ends, d \in Clients : x # e \/ d # c => line'[x][d] = line[x][d]
    BY <1>3 DEF Shape, Data
  <2>2. <<b>> \in Seq(Byte)
    BY <1>2
  <2>. QED
    BY <1>3, <1>5, <2>1, <2>2, SendFrame
<1>6. CASE e = "client" /\ ClientHeader(c)
  <2>1. CASE at["client"][c] = "writev" /\ Send("client", c, <<"header">>, "version")
    BY <1>1, <1>2, <1>5, <1>6, <2>1
  <2>2. ASSUME NEW here \in {"version", "protocol"}, at["client"][c] = here,
               NEW to \in {"fail", "protocol", "fgets"}, Take("client", c, to)
        PROVE  Frame(e, c) /\ Types'
    BY <1>1, <1>4, <1>6, <2>2
  <2>. QED
    BY <1>6, <2>1, <2>2 DEF ClientHeader
<1>7. CASE e = "server" /\ ServerHeader(c)
  <2>1. CASE at["server"][c] = "header" /\ Take("server", c, "version")
    BY <1>1, <1>4, <1>7, <2>1
  <2>2. ASSUME NEW b \in {"error", "success"}, at["server"][c] = "version",
               Send("server", c, <<b>>, "protocol")
        PROVE  Frame(e, c) /\ Types'
    BY <1>1, <1>2, <1>5, <1>7, <2>2
  <2>3. ASSUME NEW b \in {"error", "success"}, at["server"][c] = "protocol",
               NEW to \in {"read", "return"}, Send("server", c, <<b>>, to)
        PROVE  Frame(e, c) /\ Types'
    BY <1>1, <1>2, <1>5, <1>7, <2>3
  <2>. QED
    BY <1>7, <2>1, <2>2, <2>3 DEF ServerHeader
<1>. QED
  BY <1>6, <1>7

\* No step of a process concerns another connection, or changes a descriptor.
LEMMA TalkFrame ==
  ASSUME Shape, UNCHANGED userVars, NEW e \in Ends, NEW c \in Clients, Talk(e, c)
  PROVE  Frame(e, c) /\ Data'
<1>1. Byte' = Byte
  BY DEF userVars, Byte, Text
<1>2. Frame(e, c) /\ Types'
  BY <1>1, ReadlineFrame, WritenFrame, FgetsFrame, RecvFrame, HeaderFrame DEF Talk, Ends
<1>3. taken'[c] =< Len(input[c])
  <2>1. CASE taken' = taken
    BY <2>1 DEF Shape, Data
  <2>2. CASE e = "client" /\ Fgets(c)
    BY <1>1, <2>2, FgetsFrame
  <2>. QED
    BY <2>1, <2>2 DEF Talk, Readline, Writen, Recv, ClientHeader, ServerHeader
<1>. QED
  BY <1>2, <1>3 DEF Frame, Types, Shape, Data, userVars

-----------------------------------------------------------------------------
(* The connections: who has which descriptor, and is where in the queue *)

Accepted == IF listener \in {"fork", "serve", "close"} THEN {accepted} ELSE {}
Pending == ToSet(backlog) \cup Accepted

Queue ==
  /\ listener \in {"fork", "serve", "close"} => accepted \in Clients
  /\ listener = "fork" => theServer.forks
  /\ listener = "serve" => ~theServer.forks
  /\ \A i, j \in DOMAIN backlog : backlog[i] = backlog[j] => i = j
  /\ Accepted \cap ToSet(backlog) = {}

Role(c) ==
  /\ at["client"][c] \in {"connect"} \cup Ended \cup ClientRuns
  /\ at["server"][c] \in {"none"} \cup Ended \cup ServerRuns
  /\ <<"client", c>> \in holds <=> at["client"][c] \in ClientRuns
  /\ <<"child", c>> \in holds => theServer.forks /\ at["server"][c] \in ServerRuns
  /\ at["server"][c] \in ServerRuns =>
       <<"child", c>> \in holds \/ (listener = "serve" /\ accepted = c)
  /\ <<"listener", c>> \in holds => listener # "over" /\ c \in Pending
  /\ listener # "over" /\ c \in Pending /\ at["server"][c] \notin Ended =>
       <<"listener", c>> \in holds
  /\ c \in ToSet(backlog) \/ (listener = "fork" /\ accepted = c) => at["server"][c] = "none"
  /\ at["client"][c] = "connect" => c \notin Pending /\ at["server"][c] = "none"
  /\ \A e \in Ends : ~IsOpen(holds, e, c) => wire[e][c] = <<>>

Sane == Shape /\ Queue /\ \A c \in Clients : Role(c)

\* What a step is to the connection of c.  One of its ends may end, and with it what has
\* arrived there;
Settles(c) ==
  /\ \A e \in Ends :
       /\ line'[e][c] = line[e][c]
       /\ at'[e][c] = at[e][c] \/ at'[e][c] \in Ended
       /\ IsOpen(holds', e, c) => IsOpen(holds, e, c)
       /\ wire'[e][c] = IF IsOpen(holds', e, c) THEN wire[e][c] ELSE <<>>
  /\ printed'[c] = printed[c] /\ taken'[c] = taken[c]

\* it is accepted;
Starts(c) ==
  /\ at["server"][c] = "none" /\ IsOpen(holds, "server", c)
  /\ at'["server"][c] = Begins /\ at'["client"][c] = at["client"][c]
  /\ \A e \in Ends :
       /\ line'[e][c] = line[e][c] /\ wire'[e][c] = wire[e][c]
       /\ IsOpen(holds', e, c) <=> IsOpen(holds, e, c)
  /\ printed'[c] = printed[c] /\ taken'[c] = taken[c]

\* it is made;
Connects(c) ==
  /\ at["client"][c] = "connect" /\ at'["client"][c] = theClient.first
  /\ at["server"][c] = "none" /\ at'["server"][c] = "none"
  /\ \A e \in Ends : /\ ~IsOpen(holds, e, c) /\ IsOpen(holds', e, c)
                     /\ line'[e][c] = line[e][c] /\ wire'[e][c] = wire[e][c]
  /\ printed'[c] = printed[c] /\ taken'[c] = taken[c]

\* or a process at one of its ends goes on.
Local(c) ==
  Settles(c) \/ Starts(c) \/ Connects(c) \/ \E e \in Ends : Talk(e, c) /\ Frame(e, c)

SaneStep == Sane' /\ \A c \in Clients : Local(c)

\* Append adds an element to the set of the elements.
LEMMA ToSetAppend ==
  ASSUME NEW S, NEW s \in Seq(S), NEW x \in S
  PROVE  ToSet(Append(s, x)) = ToSet(s) \cup {x}
<1>. DEFINE t == Append(s, x)
<1>1. /\ t \in Seq(S) /\ Len(t) = Len(s) + 1 /\ Len(s) \in Nat
      /\ \A i \in 1 .. Len(s) : t[i] = s[i]
      /\ t[Len(s) + 1] = x
  BY AppendProperties, LenProperties
<1>2. DOMAIN t = 1 .. Len(s) + 1 /\ DOMAIN s = 1 .. Len(s)
  BY <1>1, LenProperties
<1>. HIDE DEF t
<1>3. ASSUME NEW y \in ToSet(t) PROVE y \in ToSet(s) \cup {x}
  <2>1. PICK i \in 1 .. Len(s) + 1 : y = t[i]
    BY <1>2, <1>3 DEF ToSet
  <2>2. CASE i = Len(s) + 1
    BY <1>1, <2>1, <2>2
  <2>3. CASE i \in 1 .. Len(s)
    BY <1>1, <1>2, <2>1, <2>3 DEF ToSet
  <2>. QED
    BY <1>1, <2>2, <2>3
<1>4. ASSUME NEW y \in ToSet(s) PROVE y \in ToSet(t)
  <2>1. PICK i \in 1 .. Len(s) : y = s[i]
    BY <1>2, <1>4 DEF ToSet
  <2>2. i \in 1 .. Len(s) + 1 /\ t[i] = y
    BY <1>1, <2>1
  <2>. QED
    BY <1>2, <2>2 DEF ToSet
<1>5. x \in ToSet(t)
  <2>1. Len(s) + 1 \in DOMAIN t
    BY <1>1, <1>2
  <2>. QED
    BY <1>1, <2>1 DEF ToSet
<1>6. ToSet(t) = ToSet(s) \cup {x}
  BY <1>3, <1>4, <1>5
<1>. QED
  BY <1>6 DEF t

\* A client that connects was not yet in the queue.
LEMMA BacklogAppend ==
  ASSUME Sane, NEW c \in Clients, c \notin ToSet(backlog), backlog' = Append(backlog, c)
  PROVE  /\ backlog' \in Seq(Clients)
         /\ ToSet(backlog') = ToSet(backlog) \cup {c}
         /\ \A i, j \in DOMAIN backlog' : backlog'[i] = backlog'[j] => i = j
<1>0. backlog \in Seq(Clients) /\ Len(backlog) \in Nat /\ DOMAIN backlog = 1 .. Len(backlog)
  BY LenProperties DEF Sane, Shape, Control
<1>1. /\ backlog' \in Seq(Clients) /\ Len(backlog') = Len(backlog) + 1
      /\ \A i \in 1 .. Len(backlog) : backlog'[i] = backlog[i]
      /\ backlog'[Len(backlog) + 1] = c
  BY <1>0, AppendProperties
<1>2. DOMAIN backlog' = 1 .. Len(backlog) + 1
  BY <1>1, LenProperties
<1>3. ToSet(backlog') = ToSet(backlog) \cup {c}
  BY <1>0, ToSetAppend
<1>4. \A i \in 1 .. Len(backlog) : backlog[i] # c
  BY <1>0 DEF ToSet
<1>5. \A i, j \in 1 .. Len(backlog) : backlog[i] = backlog[j] => i = j
  BY <1>0 DEF Sane, Queue
<1>6. ASSUME NEW i \in 1 .. Len(backlog) + 1, NEW j \in 1 .. Len(backlog) + 1,
             backlog'[i] = backlog'[j]
      PROVE  i = j
  <2>1. CASE i \in 1 .. Len(backlog) /\ j \in 1 .. Len(backlog)
    BY <1>1, <1>5, <1>6, <2>1
  <2>2. CASE i = Len(backlog) + 1 /\ j \in 1 .. Len(backlog)
    BY <1>1, <1>4, <1>6, <2>2
  <2>3. CASE j = Len(backlog) + 1 /\ i \in 1 .. Len(backlog)
    BY <1>1, <1>4, <1>6, <2>3
  <2>4. CASE j = Len(backlog) + 1 /\ i = Len(backlog) + 1
    BY <2>4
  <2>. QED
    BY <1>0, <2>1, <2>2, <2>3, <2>4
<1>. QED
  BY <1>1, <1>2, <1>3, <1>6

\* The client that is accepted is not in the queue any more.
LEMMA BacklogTail ==
  ASSUME Sane, backlog # <<>>, backlog' = Tail(backlog)
  PROVE  /\ backlog' \in Seq(Clients)
         /\ Head(backlog) \in Clients /\ Head(backlog) \in ToSet(backlog)
         /\ ToSet(backlog') = ToSet(backlog) \ {Head(backlog)}
         /\ \A i, j \in DOMAIN backlog' : backlog'[i] = backlog'[j] => i = j
<1>. DEFINE h == Head(backlog)
            n == Len(backlog)
<1>0. /\ backlog \in Seq(Clients) /\ n \in Nat /\ n >= 1 /\ DOMAIN backlog = 1 .. n
      /\ h = backlog[1]
  BY LenProperties, EmptySeq DEF Sane, Shape, Control
<1>1. /\ backlog' \in Seq(Clients) /\ Len(backlog') = n - 1 /\ h \in Clients
      /\ \A i \in 1 .. n - 1 : backlog'[i] = backlog[i + 1]
  BY <1>0, HeadTailProperties
<1>. HIDE DEF h, n
<1>2. DOMAIN backlog' = 1 .. n - 1
  BY <1>1, LenProperties
<1>3. \A i, j \in 1 .. n : backlog[i] = backlog[j] => i = j
  BY <1>0 DEF Sane, Queue
<1>4. h \in ToSet(backlog)
  BY <1>0 DEF ToSet
<1>5. ASSUME NEW x \in ToSet(backlog') PROVE x \in ToSet(backlog) \ {h}
  <2>1. PICK i \in 1 .. n - 1 : x = backlog'[i]
    BY <1>2, <1>5 DEF ToSet
  <2>2. i + 1 \in 1 .. n /\ i + 1 # 1 /\ x = backlog[i + 1] /\ 1 \in 1 .. n
    BY <1>0, <1>1, <2>1
  <2>3. x # h
    BY <1>0, <1>3, <2>2
  <2>4. x \in ToSet(backlog)
    BY <1>0, <2>2 DEF ToSet
  <2>. QED
    BY <2>3, <2>4
<1>6. ASSUME NEW x \in ToSet(backlog), x # h PROVE x \in ToSet(backlog')
  <2>1. PICK i \in 1 .. n : x = backlog[i]
    BY <1>0, <1>6 DEF ToSet
  <2>2. i - 1 \in 1 .. n - 1 /\ (i - 1) + 1 = i
    BY <1>0, <1>6, <2>1
  <2>3. backlog'[i - 1] = x
    BY <1>1, <2>1, <2>2
  <2>. QED
    BY <1>2, <2>2, <2>3 DEF ToSet
<1>7. ToSet(backlog') = ToSet(backlog) \ {h}
  BY <1>5, <1>6
<1>8. ASSUME NEW i \in 1 .. n - 1, NEW j \in 1 .. n - 1, backlog'[i] = backlog'[j]
      PROVE  i = j
  <2>1. i + 1 \in 1 .. n /\ j + 1 \in 1 .. n /\ backlog[i + 1] = backlog[j + 1]
    BY <1>0, <1>1, <1>8
  <2>2. i + 1 = j + 1
    BY <1>3, <2>1
  <2>. QED
    BY <2>2
<1>. QED
  BY <1>1, <1>2, <1>4, <1>7, <1>8 DEF h

\* The connections that a step does not touch.
Same(c) ==
  /\ \A e \in Ends : /\ line'[e][c] = line[e][c] /\ at'[e][c] = at[e][c]
                     /\ wire'[e][c] = wire[e][c]
  /\ \A p \in {"client", "listener", "child"} : <<p, c>> \in holds' <=> <<p, c>> \in holds
  /\ printed'[c] = printed[c] /\ taken'[c] = taken[c]

\* A connection that nothing happens to.
LEMMA SameIsLocal == ASSUME NEW c \in Clients, Role(c), Same(c) PROVE Local(c)
<1>1. \A e \in Ends : IsOpen(holds', e, c) <=> IsOpen(holds, e, c)
  BY DEF Same, IsOpen
<1>2. \A e \in Ends : wire'[e][c] = IF IsOpen(holds', e, c) THEN wire[e][c] ELSE <<>>
  BY <1>1 DEF Role, Same
<1>. QED
  BY <1>1, <1>2 DEF Same, Local, Settles

\* The program, the input and the header stay what they are.
LEMMA UsersFrame ==
  ASSUME Users, UNCHANGED userVars
  PROVE  Users' /\ theServer' = theServer
BY DEF userVars, Users, theServer

\* So do the types of what is not changed.
LEMMA DataFrame ==
  ASSUME Data, UNCHANGED userVars, UNCHANGED <<line, wire, reset, taken, printed>>
  PROVE  Data'
<1>1. Byte' = Byte
  BY DEF userVars, Byte, Text
<1>2. input' = input
  BY DEF userVars
<1>. QED
  BY <1>1, <1>2 DEF Data

\* A step of the client or the server of a connection.
LEMMA TalkStep ==
  ASSUME Sane, UNCHANGED userVars, NEW e \in Ends, NEW c \in Clients, Talk(e, c),
         UNCHANGED <<listenerVars, unreaped, sigcld, faults>>
  PROVE  SaneStep
<1>0. Frame(e, c) /\ Data'
  BY TalkFrame DEF Sane
<1>1. Users' /\ theServer' = theServer
  BY UsersFrame DEF Sane, Shape
<1>2. Control'
  BY <1>0 DEF Sane, Shape, Control, Frame, listenerVars
<1>3. /\ listener' = listener /\ accepted' = accepted /\ backlog' = backlog /\ holds' = holds
      /\ Accepted' = Accepted /\ Pending' = Pending
  BY <1>0 DEF Frame, listenerVars, Accepted, Pending
<1>4. Queue'
  BY <1>1, <1>3 DEF Sane, Queue
<1>5. ASSUME NEW d \in Clients PROVE Role(d)' /\ Local(d)
  <2>0. Role(d)
    BY DEF Sane
  <2>1. CASE d # c
    <3>1. Same(d)
      BY <1>0, <1>3, <2>1 DEF Frame, Same
    <3>2. Local(d)
      BY <2>0, <3>1, SameIsLocal
    <3>3. "client" \in Ends /\ "server" \in Ends
      BY DEF Ends
    <3>4. Role(d)'
      BY <1>1, <1>3, <2>0, <3>1, <3>3 DEF Role, Same
    <3>. QED
      BY <3>2, <3>4
  <2>2. CASE d = c
    <3>1. Local(d)
      BY <1>0, <2>2 DEF Local
    <3>2. \A x \in Ends : ~IsOpen(holds, x, c) => wire'[x][c] = <<>>
      BY <1>0, <2>0, <2>2 DEF Role, Frame
    <3>3. CASE e = "client"
      <4>1. /\ at["client"][c] \in ClientRuns /\ at'["client"][c] \in ClientRuns
            /\ at'["server"][c] = at["server"][c]
        BY <1>0, <3>3 DEF Frame, Runs, Ends
      <4>2. "connect" \notin ClientRuns
        BY DEF ClientRuns, Talking, Greeting
      <4>. QED
        BY <1>1, <1>3, <2>0, <2>2, <3>1, <3>2, <4>1, <4>2 DEF Role
    <3>4. CASE e = "server"
      <4>1. /\ at["server"][c] \in ServerRuns /\ at'["server"][c] \in ServerRuns
            /\ at'["client"][c] = at["client"][c]
        BY <1>0, <3>4 DEF Frame, Runs, Ends
      <4>2. "none" \notin ServerRuns /\ Ended \cap ServerRuns = {}
        BY DEF ServerRuns, Ended
      <4>. QED
        BY <1>1, <1>3, <2>0, <2>2, <3>1, <3>2, <4>1, <4>2 DEF Role
    <3>. QED
      BY <3>3, <3>4 DEF Ends
  <2>. QED
    BY <2>1, <2>2
<1>. QED
  BY <1>0, <1>1, <1>2, <1>4, <1>5 DEF SaneStep, Sane, Shape

\* connect, which succeeds while the listener runs.
LEMMA ConnectStep ==
  ASSUME Sane, UNCHANGED userVars, NEW c \in Clients, Connect(c)
  PROVE  SaneStep
<1>0. Users' /\ theServer' = theServer /\ Data'
  BY UsersFrame, DataFrame DEF Connect, Sane, Shape
<1>1. "client" \in Ends /\ "server" \in Ends /\ <<"client", c>> # <<"listener", c>>
  BY DEF Ends
<1>. DEFINE to == IF listener = "over" THEN "failed" ELSE theClient.first
<1>2. to \in {"failed", "fgets", "writev"}
  BY PairsFacts DEF Sane, Shape, Users
<1>3. to \in Labels
  BY <1>2 DEF Labels, Ended
<1>4. /\ at["client"][c] = "connect" /\ at["server"][c] = "none"
      /\ c \notin Pending /\ <<"client", c>> \notin holds /\ <<"listener", c>> \notin holds
      /\ <<"child", c>> \notin holds /\ wire["client"][c] = <<>> /\ wire["server"][c] = <<>>
  <2>1. Role(c) /\ at["client"][c] = "connect"
    BY DEF Connect, Sane
  <2>2. "connect" \notin ClientRuns /\ "none" \notin ServerRuns
    BY DEF ClientRuns, ServerRuns, Talking, Greeting
  <2>. QED
    BY <1>1, <2>1, <2>2 DEF Role, IsOpen
<1>5. at' = [at EXCEPT !["client"][c] = to]
  BY DEF Connect
<1>. HIDE DEF to
<1>6. /\ at' \in [Ends -> [Clients -> Labels]] /\ at'["client"][c] = to
      /\ \A e \in Ends, d \in Clients : e # "client" \/ d # c => at'[e][d] = at[e][d]
  BY <1>1, <1>3, <1>5 DEF Sane, Shape, Control
<1>7. UNCHANGED <<listener, accepted, handler, line, wire, taken, printed, unreaped, sigcld>>
  BY DEF Connect
<1>8. CASE listener = "over"
  <2>1. UNCHANGED <<backlog, holds>> /\ to = "failed"
    BY <1>8 DEF Connect, to
  <2>2. Control' /\ Queue' /\ Accepted' = Accepted /\ Pending' = Pending
    BY <1>0, <1>6, <1>7, <2>1 DEF Sane, Shape, Control, Queue, Accepted, Pending
  <2>3. ASSUME NEW d \in Clients, d # c PROVE Role(d)' /\ Local(d)
    <3>1. Role(d) /\ Same(d)
      BY <1>6, <1>7, <2>1, <2>3 DEF Sane, Same
    <3>2. Local(d)
      BY <3>1, SameIsLocal
    <3>. QED
      BY <1>0, <1>1, <1>7, <2>1, <2>2, <3>1, <3>2 DEF Role, Same
  <2>4. Role(c)' /\ Local(c)
    <3>1. Role(c) /\ "failed" \in Ended
      BY DEF Sane, Ended
    <3>2. "failed" \notin ClientRuns
      BY DEF ClientRuns, Talking, Greeting
    <3>3. Role(c)'
      BY <1>0, <1>1, <1>4, <1>6, <1>7, <1>8, <2>1, <2>2, <3>1, <3>2 DEF Role
    <3>4. Settles(c)
      BY <1>1, <1>4, <1>6, <1>7, <2>1, <3>1 DEF Settles, Ends
    <3>. QED
      BY <3>3, <3>4 DEF Local
  <2>. QED
    BY <1>0, <2>2, <2>3, <2>4 DEF SaneStep, Sane, Shape
<1>9. CASE listener # "over"
  <2>1. /\ backlog' = Append(backlog, c) /\ to = theClient.first
        /\ holds' = holds \cup {<<"client", c>>, <<"listener", c>>}
    BY <1>9 DEF Connect, to
  <2>2. c \notin ToSet(backlog) /\ c \notin Accepted
    BY <1>4 DEF Pending
  <2>3. /\ backlog' \in Seq(Clients)
        /\ ToSet(backlog') = ToSet(backlog) \cup {c}
        /\ \A i, j \in DOMAIN backlog' : backlog'[i] = backlog'[j] => i = j
    BY <2>1, <2>2, BacklogAppend
  <2>4. Accepted' = Accepted /\ Pending' = Pending \cup {c}
    BY <1>7, <2>3 DEF Accepted, Pending
  <2>5. Control' /\ Queue'
    BY <1>0, <1>6, <1>7, <2>1, <2>2, <2>3, <2>4 DEF Sane, Shape, Control, Queue
  <2>6. ASSUME NEW d \in Clients, d # c PROVE Role(d)' /\ Local(d)
    <3>0. \A p \in {"client", "listener", "child"} : <<p, d>> \in holds' <=> <<p, d>> \in holds
      BY <2>1, <2>6
    <3>1. Role(d) /\ Same(d)
      BY <1>6, <1>7, <2>6, <3>0 DEF Sane, Same
    <3>2. Local(d)
      BY <3>1, SameIsLocal
    <3>3. (d \in Pending' <=> d \in Pending) /\ (d \in ToSet(backlog') <=> d \in ToSet(backlog))
      BY <2>3, <2>4, <2>6
    <3>4. \A e \in Ends : IsOpen(holds', e, d) <=> IsOpen(holds, e, d)
      BY <3>0 DEF IsOpen
    <3>. QED
      BY <1>0, <1>1, <1>7, <3>0, <3>1, <3>2, <3>3, <3>4 DEF Role, Same
  <2>7. Role(c)' /\ Local(c)
    <3>1. {<<"client", c>>, <<"listener", c>>} \subseteq holds' /\ <<"child", c>> \notin holds'
      BY <1>4, <2>1
    <3>2. \A e \in Ends : ~IsOpen(holds, e, c) /\ IsOpen(holds', e, c)
      BY <1>4, <3>1 DEF IsOpen
    <3>3. to \in ClientRuns /\ "none" \notin ServerRuns
      BY <1>2, <1>9, PairsFacts DEF to, ClientRuns, ServerRuns, Talking, Greeting, Sane, Shape, Users
    <3>4. "connect" # to /\ "none" \notin Ended
      BY <1>2 DEF Ended
    <3>5. c \in Pending'
      BY <2>4
    <3>6. Role(c)'
      BY <1>1, <1>4, <1>6, <1>7, <1>9, <3>1, <3>2, <3>3, <3>4, <3>5 DEF Role
    <3>7. Connects(c)
      BY <1>1, <1>4, <1>6, <1>7, <2>1, <3>2 DEF Connects
    <3>. QED
      BY <3>6, <3>7 DEF Local
  <2>. QED
    BY <1>0, <2>5, <2>6, <2>7 DEF SaneStep, Sane, Shape
<1>. QED
  BY <1>8, <1>9

\* A client that a step does not touch keeps its role.
LEMMA RoleKept ==
  ASSUME NEW d \in Clients, Role(d), Same(d), theServer' = theServer,
         listener' = "over" <=> listener = "over",
         d \in Pending' <=> d \in Pending,
         d \in ToSet(backlog') \/ (listener' = "fork" /\ accepted' = d) =>
           d \in ToSet(backlog) \/ (listener = "fork" /\ accepted = d),
         listener = "serve" /\ accepted = d => listener' = "serve" /\ accepted' = d
  PROVE  Role(d)'
<1>1. "client" \in Ends /\ "server" \in Ends
  BY DEF Ends
<1>2. \A e \in Ends : IsOpen(holds', e, d) <=> IsOpen(holds, e, d)
  BY DEF Same, IsOpen
<1>3. \A e \in Ends : ~IsOpen(holds', e, d) => wire'[e][d] = <<>>
  BY <1>2 DEF Role, Same
<1>. QED
  BY <1>1, <1>3 DEF Role, Same

\* When descriptors are closed, what has not been read is lost.
LEMMA DropSettles ==
  ASSUME Sane, NEW closed, Drop(closed), UNCHANGED <<line, taken, printed>>,
         NEW d \in Clients, \A e \in Ends : at'[e][d] = at[e][d] \/ at'[e][d] \in Ended
  PROVE  /\ Settles(d) /\ Local(d)
         /\ \A e \in Ends : ~IsOpen(holds', e, d) => wire'[e][d] = <<>>
<1>1. holds' \subseteq holds
  BY DropEffect DEF Sane, Shape
<1>2. \A e \in Ends : IsOpen(holds', e, d) => IsOpen(holds, e, d)
  BY <1>1 DEF IsOpen
<1>3. \A e \in Ends : wire'[e][d] = IF IsOpen(holds', e, d) THEN wire[e][d] ELSE <<>>
  BY DropEffect DEF Sane, Shape
<1>. QED
  BY <1>2, <1>3 DEF Settles, Local

\* The types after descriptors were closed.
LEMMA DropData ==
  ASSUME Sane, UNCHANGED userVars, NEW closed, Drop(closed), UNCHANGED <<line, taken, printed>>
  PROVE  Data' /\ holds' = holds \ closed
<1>1. Byte' = Byte
  BY DEF userVars, Byte, Text
<1>2. input' = input
  BY DEF userVars
<1>3. /\ wire' \in [Ends -> [Clients -> Seq(Byte)]] /\ reset' \subseteq Clients
      /\ holds' = holds \ closed
  BY DropEffect DEF Sane, Shape
<1>. QED
  BY <1>1, <1>2, <1>3 DEF Data, Sane, Shape

\* A step of one end at most, or of the listener.
LEMMA AtOne ==
  ASSUME Sane, NEW e \in Ends, NEW c \in Clients, NEW to \in Labels,
         at' = [at EXCEPT ![e][c] = to]
  PROVE  Goes(e, c, to)
<1>1. at \in [Ends -> [Clients -> Labels]]
  BY DEF Sane, Shape, Control
<1>. QED
  BY <1>1 DEF Goes

\* accept, of the first in the queue.
LEMMA AcceptStep ==
  ASSUME Sane, UNCHANGED userVars, AcceptConnection
  PROVE  SaneStep
<1>. PICK h \in Clients : h = Head(backlog)
  BY BacklogTail DEF AcceptConnection
<1>0. /\ Users' /\ theServer' = theServer /\ Data'
      /\ "client" \in Ends /\ "server" \in Ends
  BY UsersFrame, DataFrame DEF AcceptConnection, Sane, Shape, Ends
<1>1. /\ listener = "accept" /\ backlog # <<>> /\ accepted' = h /\ backlog' = Tail(backlog)
      /\ UNCHANGED <<handler, line, wire, holds, taken, printed, unreaped, sigcld>>
  BY DEF AcceptConnection
<1>2. /\ backlog' \in Seq(Clients)
      /\ h \in Clients /\ h \in ToSet(backlog)
      /\ ToSet(backlog') = ToSet(backlog) \ {h}
      /\ \A i, j \in DOMAIN backlog' : backlog'[i] = backlog'[j] => i = j
  BY <1>1, BacklogTail
<1>3. listener' \in {"fork", "serve"}
  BY DEF AcceptConnection
<1>4. Accepted = {} /\ Accepted' = {h} /\ Pending' = Pending
  BY <1>1, <1>2, <1>3 DEF Accepted, Pending
<1>5. CASE theServer.forks
  <2>1. listener' = "fork" /\ at' = at
    BY <1>5 DEF AcceptConnection
  <2>2. Control' /\ Queue'
    BY <1>0, <1>1, <1>2, <1>4, <1>5, <2>1 DEF Sane, Shape, Control, Queue
  <2>3. ASSUME NEW d \in Clients PROVE Role(d)' /\ Local(d)
    <3>1. Role(d) /\ Same(d)
      BY <1>1, <2>1 DEF Sane, Same
    <3>2. d = h => d \in ToSet(backlog)
      BY <1>2
    <3>. QED
      BY <1>0, <1>1, <1>2, <1>4, <2>1, <3>1, <3>2, RoleKept, SameIsLocal
  <2>. QED
    BY <1>0, <2>2, <2>3 DEF SaneStep, Sane, Shape
<1>6. CASE ~theServer.forks
  <2>1. listener' = "serve" /\ at' = [at EXCEPT !["server"][h] = "read"]
    BY <1>6 DEF AcceptConnection
  <2>2. Goes("server", h, "read")
    BY <1>0, <1>2, <2>1, AtOne DEF Labels
  <2>3. Control' /\ Queue'
    BY <1>0, <1>1, <1>2, <1>4, <1>6, <2>1, <2>2 DEF Sane, Shape, Control, Queue, Goes
  <2>4. ASSUME NEW d \in Clients, d # h PROVE Role(d)' /\ Local(d)
    <3>1. Role(d) /\ Same(d)
      BY <1>1, <2>2, <2>4 DEF Sane, Same, Goes
    <3>. QED
      BY <1>0, <1>1, <1>2, <1>4, <2>1, <2>4, <3>1, RoleKept, SameIsLocal
  <2>5. Role(h)' /\ Local(h)
    <3>1. /\ at["server"][h] = "none" /\ <<"listener", h>> \in holds
          /\ "none" \notin Ended /\ "read" \in ServerRuns /\ "read" \notin Ended
      BY <1>1, <1>2 DEF Sane, Role, Pending, Ended, ServerRuns
    <3>2. Begins = "read"
      BY <1>6, PairsFacts DEF Begins, Sane, Shape, Users
    <3>3. at'["client"][h] = at["client"][h] /\ at'["server"][h] = "read"
      BY <1>0, <1>2, <2>2 DEF Goes
    <3>4. Starts(h)
      BY <1>0, <1>1, <1>2, <2>2, <3>1, <3>2, <3>3 DEF Starts, IsOpen
    <3>5. Role(h) /\ at["client"][h] # "connect" /\ h \in Pending' /\ h \notin ToSet(backlog')
      BY <1>2, <1>4 DEF Sane, Role, Pending
    <3>6. <<"child", h>> \notin holds
      BY <1>2, <3>1 DEF Sane, Role, ServerRuns
    <3>7. Role(h)'
      <4>1. \A e \in Ends : ~IsOpen(holds', e, h) => wire'[e][h] = <<>>
        BY <1>1, <3>5 DEF Role
      <4>. QED
        BY <1>0, <1>1, <1>4, <2>1, <3>1, <3>3, <3>5, <3>6, <4>1 DEF Role
    <3>. QED
      BY <3>4, <3>7 DEF Local
  <2>6. ASSUME NEW d \in Clients PROVE Role(d)' /\ Local(d)
    <3>1. CASE d = h
      BY <2>5, <3>1
    <3>. QED
      BY <2>4, <3>1
  <2>. QED
    BY <1>0, <2>3, <2>6 DEF SaneStep, Sane, Shape
<1>. QED
  BY <1>5, <1>6

\* The listener ends: err_sys, or killed.
LEMMA OverStep ==
  ASSUME Sane, UNCHANGED userVars, Over,
         UNCHANGED <<accepted, backlog, handler, line, taken, printed, unreaped, sigcld>>,
         NEW a, a = accepted,
         \/ at' = at /\ listener # "serve"
         \/ /\ listener \in {"fork", "serve"}
            /\ \E to \in Ended : at' = [at EXCEPT !["server"][a] = to]
  PROVE  SaneStep
<1>0. /\ Users' /\ theServer' = theServer
      /\ "client" \in Ends /\ "server" \in Ends
  BY UsersFrame DEF Sane, Shape, Ends
<1>1. /\ Data' /\ listener' = "over" /\ holds' = holds \ {h \in holds : h[1] = "listener"}
      /\ Drop({h \in holds : h[1] = "listener"})
      /\ UNCHANGED <<accepted, backlog, handler, line, taken, printed, unreaped, sigcld>>
  BY DropData DEF Over
<1>2. \A d \in Clients : /\ <<"client", d>> \in holds' <=> <<"client", d>> \in holds
                         /\ <<"child", d>> \in holds' <=> <<"child", d>> \in holds
                         /\ <<"listener", d>> \notin holds'
  BY <1>1
<1>3. Accepted' = {} /\ Pending' = ToSet(backlog) /\ Pending' \subseteq Pending
  BY <1>1 DEF Accepted, Pending
<1>4. /\ at' \in [Ends -> [Clients -> Labels]]
      /\ \A e \in Ends, d \in Clients : e # "server" \/ d # a => at'[e][d] = at[e][d]
      /\ at'["server"][a] \in Ended \/ (at' = at /\ listener # "serve")
      /\ at' = at \/ (listener \in {"fork", "serve"} /\ a \in Clients)
  <2>1. CASE at' = at /\ listener # "serve"
    BY <2>1 DEF Sane, Shape, Control
  <2>2. ASSUME NEW to \in Ended, at' = [at EXCEPT !["server"][a] = to],
               listener \in {"fork", "serve"}
        PROVE  <1>4
    <3>1. a \in Clients
      BY <2>2 DEF Sane, Queue
    <3>2. Goes("server", a, to)
      BY <1>0, <2>2, <3>1, AtOne DEF Labels
    <3>. QED
      BY <2>2, <3>1, <3>2 DEF Goes
  <2>. QED
    BY <2>1, <2>2
<1>5. Control' /\ Queue'
  BY <1>0, <1>1, <1>3, <1>4 DEF Sane, Shape, Control, Queue
<1>6. ASSUME NEW d \in Clients PROVE Role(d)' /\ Local(d)
  <2>1. Role(d)
    BY DEF Sane
  <2>2. \A e \in Ends : at'[e][d] = at[e][d] \/ at'[e][d] \in Ended
    BY <1>4
  <2>3. Local(d) /\ \A e \in Ends : ~IsOpen(holds', e, d) => wire'[e][d] = <<>>
    BY <1>1, <2>2, DropSettles
  <2>4. at'["client"][d] = at["client"][d]
    BY <1>0, <1>4
  <2>5. CASE at'["server"][d] = at["server"][d]
    <3>1. listener = "serve" /\ a = d => at["server"][d] \in Ended
      BY <1>4, <2>5
    <3>2. Ended \cap ServerRuns = {}
      BY DEF Ended, ServerRuns
    <3>3. <<"child", d>> \in holds' => theServer.forks /\ at'["server"][d] \in ServerRuns
      BY <1>0, <1>2, <2>1, <2>5 DEF Role
    <3>4. at'["server"][d] \in ServerRuns => <<"child", d>> \in holds'
      BY <1>2, <2>1, <2>5, <3>1, <3>2 DEF Role
    <3>. QED
      BY <1>0, <1>1, <1>2, <1>3, <2>1, <2>3, <2>4, <2>5, <3>3, <3>4 DEF Role
  <2>6. CASE d = a /\ at'["server"][d] \in Ended /\ listener \in {"fork", "serve"}
    <3>1. d \notin ToSet(backlog) /\ d \in Pending
      BY <2>6 DEF Sane, Queue, Accepted, Pending
    <3>2. <<"child", d>> \notin holds
      <4>1. "none" \notin ServerRuns
        BY DEF ServerRuns
      <4>2. CASE listener = "fork"
        BY <2>1, <2>6, <4>1, <4>2 DEF Role
      <4>3. CASE listener = "serve"
        BY <2>1, <4>3 DEF Role, Sane, Queue
      <4>. QED
        BY <2>6, <4>2, <4>3
    <3>3. Ended \cap ServerRuns = {} /\ at["client"][d] # "connect"
      BY <2>1, <3>1 DEF Ended, ServerRuns, Role
    <3>. QED
      BY <1>0, <1>1, <1>2, <1>3, <2>1, <2>3, <2>4, <2>6, <3>1, <3>2, <3>3 DEF Role
  <2>. QED
    BY <1>0, <1>4, <2>3, <2>5, <2>6
<1>. QED
  BY <1>0, <1>1, <1>5, <1>6 DEF SaneStep, Sane, Shape

\* fork, which fails or makes a child with the descriptors of its parent.
LEMMA ForkStep ==
  ASSUME Sane, UNCHANGED userVars, ForkServer
  PROVE  SaneStep
<1>. PICK a \in Clients : a = accepted
  BY DEF ForkServer, Sane, Queue
<1>0. /\ Users' /\ theServer' = theServer
      /\ "client" \in Ends /\ "server" \in Ends
      /\ Ended \cap ServerRuns = {} /\ "none" \notin Ended \cup ServerRuns
      /\ Ended \subseteq Labels /\ ServerRuns \subseteq Labels
  BY UsersFrame DEF Sane, Shape, Ends, Ended, ServerRuns, Labels
<1>1. /\ listener = "fork" /\ theServer.forks
      /\ UNCHANGED <<accepted, backlog, handler, line, taken, printed, unreaped, sigcld>>
  BY DEF ForkServer, Sane, Queue
<1>2. /\ at["server"][a] = "none" /\ <<"listener", a>> \in holds /\ <<"child", a>> \notin holds
      /\ a \in Pending /\ a \notin ToSet(backlog) /\ at["client"][a] # "connect"
  BY <1>0, <1>1 DEF Sane, Queue, Role, Accepted, Pending
<1>3. ASSUME NEW to \in Labels, to # "none", at' = [at EXCEPT !["server"][a] = to],
             holds' \in {holds, holds \cup {<<"child", a>>}}, UNCHANGED <<wire, reset>>,
             to \in ServerRuns <=> <<"child", a>> \in holds', listener' = "close",
             Starts(a) \/ Settles(a), to \in Ended \cup ServerRuns
      PROVE  SaneStep
  <2>1. Goes("server", a, to)
    BY <1>0, <1>3, AtOne
  <2>2. Accepted' = Accepted /\ Pending' = Pending
    BY <1>1, <1>3 DEF Accepted, Pending
  <2>3. Data'
    BY <1>1, <1>3, DataFrame DEF Sane, Shape
  <2>4. Control' /\ Queue'
    BY <1>0, <1>1, <1>3, <2>1, <2>2 DEF Sane, Shape, Control, Queue, Goes
  <2>5. ASSUME NEW d \in Clients, d # a PROVE Role(d)' /\ Local(d)
    <3>1. \A p \in {"client", "listener", "child"} : <<p, d>> \in holds' <=> <<p, d>> \in holds
      BY <1>3, <2>5
    <3>2. Role(d) /\ Same(d)
      BY <1>1, <1>3, <2>1, <2>5, <3>1 DEF Sane, Same, Goes
    <3>. QED
      BY <1>0, <1>1, <1>3, <2>2, <2>5, <3>2, RoleKept, SameIsLocal
  <2>6. Role(a)' /\ Local(a)
    <3>1. /\ <<"listener", a>> \in holds'
          /\ <<"client", a>> \in holds' <=> <<"client", a>> \in holds
      BY <1>2, <1>3
    <3>2. at'["server"][a] = to /\ at'["client"][a] = at["client"][a]
      BY <1>0, <2>1 DEF Goes
    <3>3. \A e \in Ends : ~IsOpen(holds', e, a) => wire'[e][a] = <<>>
      BY <1>3, <3>1 DEF Sane, Role, IsOpen
    <3>4. Role(a)
      BY DEF Sane
    <3>5. Role(a)'
      BY <1>0, <1>1, <1>2, <1>3, <2>2, <3>1, <3>2, <3>3, <3>4 DEF Role
    <3>. QED
      BY <1>3, <3>5 DEF Local
  <2>7. ASSUME NEW d \in Clients PROVE Role(d)' /\ Local(d)
    <3>1. CASE d = a
      BY <2>6, <3>1
    <3>. QED
      BY <2>5, <3>1
  <2>. QED
    BY <1>0, <2>3, <2>4, <2>7 DEF SaneStep, Sane, Shape
<1>4. CASE /\ holds' = holds \cup {<<"child", a>>}
           /\ at' = [at EXCEPT !["server"][a] = Begins]
           /\ listener' = "close" /\ UNCHANGED <<wire, reset>>
  <2>1. Begins \in ServerRuns
    BY DEF Begins, ServerRuns
  <2>2. Goes("server", a, Begins)
    BY <1>0, <1>4, <2>1, AtOne
  <2>3. \A e \in Ends : IsOpen(holds', e, a) <=> IsOpen(holds, e, a)
    BY <1>2, <1>4 DEF IsOpen
  <2>4. IsOpen(holds, "server", a)
    BY <1>2 DEF IsOpen
  <2>5. Starts(a)
    BY <1>0, <1>1, <1>2, <1>4, <2>2, <2>3, <2>4 DEF Starts, Goes
  <2>. QED
    BY <1>0, <1>3, <1>4, <2>1, <2>5
<1>5. CASE /\ at' = [at EXCEPT !["server"][a] = "failed"]
           /\ listener' = "close" /\ UNCHANGED <<wire, holds, reset>>
  <2>1. "failed" \in Ended
    BY DEF Ended
  <2>2. Goes("server", a, "failed")
    BY <1>0, <1>5, <2>1, AtOne
  <2>3. \A e \in Ends : ~IsOpen(holds, e, a) => wire[e][a] = <<>>
    BY DEF Sane, Role
  <2>4. Settles(a)
    BY <1>0, <1>1, <1>5, <2>1, <2>2, <2>3 DEF Settles, Goes, Ends
  <2>. QED
    BY <1>0, <1>2, <1>3, <1>5, <2>1, <2>4
<1>6. CASE at' = [at EXCEPT !["server"][a] = "failed"] /\ Over
  BY <1>1, <1>6, OverStep DEF Ended
<1>. QED
  BY <1>4, <1>5, <1>6 DEF ForkServer

\* The iterative server has served a client.
LEMMA ServedStep ==
  ASSUME Sane, UNCHANGED userVars, Served
  PROVE  SaneStep
<1>. PICK a \in Clients : a = accepted
  BY DEF Served, Sane, Queue
<1>0. /\ Users' /\ theServer' = theServer
      /\ "client" \in Ends /\ "server" \in Ends
      /\ Ended \cap ServerRuns = {} /\ {"done", "failed"} \subseteq Ended
      /\ Ended \subseteq Labels
  BY UsersFrame DEF Sane, Shape, Ends, Ended, ServerRuns, Labels
<1>1. /\ listener = "serve" /\ ~theServer.forks
      /\ UNCHANGED <<accepted, backlog, handler, line, taken, printed, unreaped, sigcld>>
  BY DEF Served, Sane, Queue
<1>2. CASE Over /\ \E to \in Ended : at' = [at EXCEPT !["server"][a] = to]
  BY <1>1, <1>2, OverStep
<1>3. CASE /\ listener' = "close" /\ UNCHANGED <<wire, holds, reset>>
           /\ \E to \in Ended : at' = [at EXCEPT !["server"][a] = to]
  <2>1. PICK to \in Ended : at' = [at EXCEPT !["server"][a] = to]
    BY <1>3
  <2>2. Goes("server", a, to)
    BY <1>0, <2>1, AtOne
  <2>3. Accepted' = Accepted /\ Pending' = Pending
    BY <1>1, <1>3 DEF Accepted, Pending
  <2>4. Data'
    BY <1>1, <1>3, DataFrame DEF Sane, Shape
  <2>5. Control' /\ Queue'
    BY <1>0, <1>1, <1>3, <2>2, <2>3 DEF Sane, Shape, Control, Queue, Goes
  <2>6. ASSUME NEW d \in Clients, d # a PROVE Role(d)' /\ Local(d)
    <3>1. Role(d) /\ Same(d)
      BY <1>1, <1>3, <2>2, <2>6 DEF Sane, Same, Goes
    <3>. QED
      BY <1>0, <1>1, <1>3, <2>3, <2>6, <3>1, RoleKept, SameIsLocal
  <2>7. Role(a)' /\ Local(a)
    <3>1. /\ a \in Pending /\ a \notin ToSet(backlog)
      BY <1>1 DEF Sane, Queue, Accepted, Pending
    <3>2. at'["server"][a] = to /\ at'["client"][a] = at["client"][a]
      BY <1>0, <2>2 DEF Goes
    <3>3. \A e \in Ends : ~IsOpen(holds', e, a) => wire'[e][a] = <<>>
      BY <1>3 DEF Sane, Role
    <3>4. Role(a)
      BY DEF Sane
    <3>5. <<"child", a>> \notin holds /\ at["client"][a] # "connect"
      BY <1>1, <3>1, <3>4 DEF Role
    <3>6. Role(a)'
      BY <1>0, <1>1, <1>3, <2>1, <2>3, <3>1, <3>2, <3>3, <3>4, <3>5 DEF Role
    <3>7. Settles(a)
      BY <1>0, <1>1, <1>3, <2>1, <3>2, <3>4 DEF Settles, Ends, Role
    <3>. QED
      BY <3>6, <3>7 DEF Local
  <2>8. ASSUME NEW d \in Clients PROVE Role(d)' /\ Local(d)
    <3>1. CASE d = a
      BY <2>7, <3>1
    <3>. QED
      BY <2>6, <3>1
  <2>. QED
    BY <1>0, <2>4, <2>5, <2>8 DEF SaneStep, Sane, Shape
<1>4. \E to \in Ended : at' = [at EXCEPT !["server"][a] = to]
  <2>1. at' = [at EXCEPT !["server"][a] =
                 IF at["server"][a] = "return" THEN "done" ELSE "failed"]
    BY DEF Served
  <2>. QED
    BY <1>0, <2>1
<1>. QED
  BY <1>2, <1>3, <1>4 DEF Served

\* close of newsockfd in the parent.
LEMMA CloseStep ==
  ASSUME Sane, UNCHANGED userVars, CloseNew
  PROVE  SaneStep
<1>. PICK a \in Clients : a = accepted
  BY DEF CloseNew, Sane, Queue
<1>0. /\ Users' /\ theServer' = theServer
      /\ "client" \in Ends /\ "server" \in Ends
  BY UsersFrame DEF Sane, Shape, Ends
<1>1. /\ listener = "close" /\ listener' = "accept" /\ accepted' = NoClient
      /\ Drop({<<"listener", a>>})
      /\ UNCHANGED <<backlog, handler, at, line, taken, printed, unreaped, sigcld>>
  BY DEF CloseNew
<1>2. Data' /\ holds' = holds \ {<<"listener", a>>}
  BY <1>1, DropData
<1>3. a \notin ToSet(backlog) /\ Accepted' = {} /\ Pending' = Pending \ {a}
  BY <1>1 DEF Sane, Queue, Accepted, Pending
<1>4. Control' /\ Queue'
  BY <1>0, <1>1, <1>2, <1>3 DEF Sane, Shape, Control, Queue
<1>5. ASSUME NEW d \in Clients PROVE Role(d)' /\ Local(d)
  <2>1. Local(d) /\ \A e \in Ends : ~IsOpen(holds', e, d) => wire'[e][d] = <<>>
    BY <1>1, DropSettles
  <2>2. /\ <<"client", d>> \in holds' <=> <<"client", d>> \in holds
        /\ <<"child", d>> \in holds' <=> <<"child", d>> \in holds
        /\ <<"listener", d>> \in holds' <=> <<"listener", d>> \in holds /\ d # a
    BY <1>2
  <2>3. Role(d)
    BY DEF Sane
  <2>. QED
    BY <1>0, <1>1, <1>3, <2>1, <2>2, <2>3 DEF Role
<1>. QED
  BY <1>0, <1>2, <1>4, <1>5 DEF SaneStep, Sane, Shape

\* What touches no connection: the handler of the listener.
LEMMA HandlerStep ==
  ASSUME Sane, UNCHANGED userVars, handler' \in BOOLEAN, sigcld' \in BOOLEAN,
         unreaped' \subseteq unreaped,
         UNCHANGED <<listener, accepted, backlog, at, line, wire, holds, reset, taken, printed>>
  PROVE  SaneStep
<1>1. Users' /\ theServer' = theServer /\ Data'
  BY UsersFrame, DataFrame DEF Sane, Shape
<1>2. Accepted' = Accepted /\ Pending' = Pending
  BY DEF Accepted, Pending
<1>3. Control' /\ Queue'
  BY <1>1, <1>2 DEF Sane, Shape, Control, Queue
<1>4. ASSUME NEW d \in Clients PROVE Role(d)' /\ Local(d)
  <2>1. Role(d) /\ Same(d)
    BY DEF Sane, Same
  <2>. QED
    BY <1>1, <1>2, <2>1, RoleKept, SameIsLocal
<1>. QED
  BY <1>1, <1>3, <1>4 DEF SaneStep, Sane, Shape

\* A process ends, at the end e of the connection of c.
LEMMA EndStepSane ==
  ASSUME Sane, UNCHANGED userVars, NEW e \in Ends, NEW c \in Clients, NEW to \in Ended,
         NEW closed, Drop(closed), at' = [at EXCEPT ![e][c] = to],
         UNCHANGED <<listenerVars, line, taken, printed>>,
         unreaped' \subseteq Clients, sigcld' \in BOOLEAN,
         \/ /\ e = "client" /\ closed = {<<"client", c>>} /\ at["client"][c] \in ClientRuns
         \/ /\ e = "server" /\ <<"child", c>> \in holds
            /\ closed \in {{<<"child", c>>}, {<<"child", c>>, <<"listener", c>>}}
  PROVE  SaneStep
<1>0. /\ Users' /\ theServer' = theServer
      /\ "client" \in Ends /\ "server" \in Ends
      /\ Ended \cap ServerRuns = {} /\ Ended \cap ClientRuns = {} /\ to \in Labels
      /\ "connect" \notin Ended /\ "none" \notin Ended /\ "connect" \notin ClientRuns
  BY UsersFrame DEF Sane, Shape, Ends, Ended, ServerRuns, ClientRuns, Talking, Greeting, Labels
<1>1. Data' /\ holds' = holds \ closed
  BY DropData
<1>2. Goes(e, c, to)
  BY <1>0, AtOne
<1>3. /\ UNCHANGED <<listener, accepted, backlog, handler>>
      /\ Accepted' = Accepted /\ Pending' = Pending
  BY DEF listenerVars, Accepted, Pending
<1>4. Control' /\ Queue'
  BY <1>0, <1>1, <1>2, <1>3 DEF Sane, Shape, Control, Queue, Goes
<1>5. ASSUME NEW d \in Clients PROVE Role(d)' /\ Local(d)
  <2>1. \A x \in Ends : at'[x][d] = at[x][d] \/ at'[x][d] \in Ended
    BY <1>2 DEF Goes
  <2>2. Local(d) /\ \A x \in Ends : ~IsOpen(holds', x, d) => wire'[x][d] = <<>>
    BY <2>1, DropSettles
  <2>3. Role(d)
    BY DEF Sane
  <2>4. CASE d # c
    <3>1. \A p \in {"client", "listener", "child"} : <<p, d>> \in holds' <=> <<p, d>> \in holds
      BY <1>1, <2>4
    <3>2. at'["client"][d] = at["client"][d] /\ at'["server"][d] = at["server"][d]
      BY <1>0, <1>2, <2>4 DEF Goes
    <3>. QED
      BY <1>0, <1>3, <2>2, <2>3, <3>1, <3>2 DEF Role
  <2>5. CASE d = c /\ e = "client"
    <3>1. /\ <<"client", d>> \notin holds'
          /\ <<"listener", d>> \in holds' <=> <<"listener", d>> \in holds
          /\ <<"child", d>> \in holds' <=> <<"child", d>> \in holds
      BY <1>1, <2>5
    <3>2. at'["client"][d] = to /\ at'["server"][d] = at["server"][d]
      BY <1>0, <1>2, <2>5 DEF Goes
    <3>. QED
      BY <1>0, <1>3, <2>2, <2>3, <2>5, <3>1, <3>2 DEF Role
  <2>6. CASE d = c /\ e = "server"
    <3>1. /\ <<"child", d>> \notin holds' /\ <<"child", d>> \in holds
          /\ <<"listener", d>> \in holds' => <<"listener", d>> \in holds
          /\ <<"client", d>> \in holds' <=> <<"client", d>> \in holds
      BY <1>1, <2>6
    <3>2. at'["client"][d] = at["client"][d] /\ at'["server"][d] = to
      BY <1>0, <1>2, <2>6 DEF Goes
    <3>3. at["server"][d] \in ServerRuns /\ "none" \notin ServerRuns
      BY <2>3, <3>1 DEF Role, ServerRuns
    <3>. QED
      BY <1>0, <1>3, <2>2, <2>3, <2>6, <3>1, <3>2, <3>3 DEF Role
  <2>. QED
    BY <2>4, <2>5, <2>6 DEF Ends
<1>. QED
  BY <1>0, <1>1, <1>4, <1>5 DEF SaneStep, Sane, Shape

\* A child of the listener ends.
LEMMA ChildEndsStep ==
  ASSUME Sane, UNCHANGED userVars, NEW c \in Clients, <<"child", c>> \in holds,
         NEW to \in Ended, NEW shutdown \in BOOLEAN, ChildEnds(c, to, shutdown),
         UNCHANGED <<listenerVars, line, taken, printed>>
  PROVE  SaneStep
<1>. DEFINE closed == {<<"child", c>>} \cup IF shutdown THEN {<<"listener", c>>} ELSE {}
<1>1. closed \in {{<<"child", c>>}, {<<"child", c>>, <<"listener", c>>}}
  OBVIOUS
<1>2. Drop(closed) /\ at' = [at EXCEPT !["server"][c] = to]
  BY DEF ChildEnds
<1>3. unreaped' \subseteq Clients /\ sigcld' \in BOOLEAN
  BY DEF ChildEnds, Sane, Shape, Control
<1>4. "server" \in Ends
  BY DEF Ends
<1>. HIDE DEF closed
<1>. QED
  BY <1>1, <1>2, <1>3, <1>4, EndStepSane

\* A client ends.
LEMMA ClientEndsStep ==
  ASSUME Sane, UNCHANGED userVars, NEW c \in Clients, at["client"][c] \in ClientRuns,
         NEW to \in Ended, Drop({<<"client", c>>}), at' = [at EXCEPT !["client"][c] = to],
         UNCHANGED <<listenerVars, line, taken, printed, unreaped, sigcld>>
  PROVE  SaneStep
<1>1. unreaped' \subseteq Clients /\ sigcld' \in BOOLEAN
  BY DEF Sane, Shape, Control
<1>2. "client" \in Ends
  BY DEF Ends
<1>. QED
  BY <1>1, <1>2, EndStepSane

\* exit of a child or a client.
LEMMA ExitStep ==
  ASSUME Sane, UNCHANGED userVars, NEW c \in Clients, ServerExit(c) \/ ClientExit(c)
  PROVE  SaneStep
<1>1. CASE ServerExit(c)
  <2>1. at["server"][c] \in ServerRuns /\ theServer.forks /\ "done" \in Ended
    BY <1>1 DEF ServerExit, ServerRuns, Ended
  <2>2. <<"child", c>> \in holds
    BY <2>1 DEF Sane, Role, Queue
  <2>3. PICK shutdown \in BOOLEAN : ChildEnds(c, "done", shutdown)
    BY <1>1 DEF ServerExit
  <2>. QED
    BY <1>1, <2>1, <2>2, <2>3, ChildEndsStep DEF ServerExit
<1>2. CASE ClientExit(c)
  <2>1. at["client"][c] \in ClientRuns
    BY <1>2 DEF ClientExit, ClientRuns
  <2>2. PICK to \in Ended : at' = [at EXCEPT !["client"][c] = to]
    <3>1. at' = [at EXCEPT !["client"][c] =
                   IF at["client"][c] = "return" THEN "done" ELSE "failed"]
      BY <1>2 DEF ClientExit
    <3>. QED
      BY <3>1 DEF Ended
  <2>. QED
    BY <1>2, <2>1, <2>2, ClientEndsStep DEF ClientExit
<1>. QED
  BY <1>1, <1>2

\* A kill of a client, a child or the listener.
LEMMA KillStep ==
  ASSUME Sane, UNCHANGED userVars, Kill
  PROVE  SaneStep
<1>0. "dead" \in Ended /\ Killable \subseteq Clients
      /\ UNCHANGED <<accepted, backlog, handler, line, taken, printed>>
  BY StreamEchoAssumption DEF Ended, Kill
<1>1. ASSUME NEW c \in Killable, at["client"][c] \notin Ended \cup {"connect"},
             Drop({<<"client", c>>}), at' = [at EXCEPT !["client"][c] = "dead"],
             UNCHANGED <<listener, unreaped, sigcld>>
      PROVE  SaneStep
  <2>1. c \in Clients /\ at["client"][c] \in ClientRuns
    BY <1>0, <1>1 DEF Sane, Role
  <2>. QED
    BY <1>0, <1>1, <2>1, ClientEndsStep DEF listenerVars
<1>2. ASSUME NEW c \in Killable, <<"child", c>> \in holds, ChildEnds(c, "dead", FALSE),
             listener' = listener
      PROVE  SaneStep
  <2>1. c \in Clients
    BY <1>0
  <2>. QED
    BY <1>0, <1>2, <2>1, ChildEndsStep DEF listenerVars
<1>3. CASE /\ listener # "over" /\ Over
           /\ at' = IF listener = "serve" THEN [at EXCEPT !["server"][accepted] = "dead"] ELSE at
           /\ UNCHANGED <<unreaped, sigcld>>
  <2>. PICK a : a = accepted
    OBVIOUS
  <2>1. CASE listener = "serve" /\ at' = [at EXCEPT !["server"][a] = "dead"]
    BY <1>0, <1>3, <2>1, OverStep
  <2>2. CASE listener # "serve" /\ at' = at
    BY <1>0, <1>3, <2>2, OverStep
  <2>. QED
    BY <1>3, <2>1, <2>2
<1>. QED
  BY <1>1, <1>2, <1>3 DEF Kill

\* Every step of the clients and servers of a connection, of the listener, and of who kills
\* them.
LEMMA SaneNext ==
  ASSUME Sane, [StreamNext]_streamVars
  PROVE  SaneStep /\ UNCHANGED userVars
<1>1. ASSUME NEW e \in Ends, NEW c \in Clients, EndStep(e, c)
      PROVE  SaneStep /\ UNCHANGED userVars
  <2>1. UNCHANGED userVars
    BY <1>1 DEF EndStep
  <2>2. CASE Talk(e, c)
    BY <2>1, <2>2, TalkStep DEF Talk
  <2>3. CASE Connect(c)
    BY <2>1, <2>3, ConnectStep
  <2>4. CASE ServerExit(c) \/ ClientExit(c)
    BY <2>1, <2>4, ExitStep
  <2>. QED
    BY <1>1, <2>1, <2>2, <2>3, <2>4 DEF EndStep
<1>2. CASE ListenerStep
  <2>1. UNCHANGED userVars
    BY <1>2 DEF ListenerStep
  <2>2. CASE SigChild \/ Wait3
    <3>1. /\ UNCHANGED <<listener, accepted, backlog, at, line, wire, holds, reset, taken, printed>>
          /\ handler' \in BOOLEAN /\ sigcld' \in BOOLEAN /\ unreaped' \subseteq unreaped
      BY <2>2 DEF SigChild, Wait3, Sane, Shape, Control
    <3>. QED
      BY <2>1, <3>1, HandlerStep
  <2>. QED
    BY <1>2, <2>1, <2>2, AcceptStep, ForkStep, ServedStep, CloseStep DEF ListenerStep
<1>3. CASE Kill /\ UNCHANGED userVars
  BY <1>3, KillStep
<1>4. CASE UNCHANGED streamVars
  <2>1. /\ UNCHANGED userVars
        /\ UNCHANGED <<listener, accepted, backlog, handler, at, line, wire, holds, reset, taken,
                       printed, unreaped, sigcld>>
    BY <1>4 DEF streamVars, listenerVars
  <2>2. handler' \in BOOLEAN /\ sigcld' \in BOOLEAN
    BY <2>1 DEF Sane, Shape, Control
  <2>. QED
    BY <2>1, <2>2, HandlerStep
<1>. QED
  BY <1>1, <1>2, <1>3, <1>4 DEF StreamNext

\* Before anything has happened there is no descriptor.
LEMMA SaneInit == ASSUME StreamInit PROVE Sane
<1>1. Users
  BY StreamEchoAssumption DEF StreamInit, Users
<1>2. Data
  <2>1. \A S : <<>> \in Seq(S)
    BY EmptySeq
  <2>2. \A c \in Clients : Len(input[c]) \in Nat
    BY <1>1, LenProperties DEF Users
  <2>. QED
    BY <2>1, <2>2 DEF StreamInit, Data
<1>3. Control
  <2>1. <<>> \in Seq(Clients)
    BY EmptySeq
  <2>. QED
    BY <2>1 DEF StreamInit, Control, Labels
<1>4. /\ listener = "accept" /\ backlog = <<>> /\ holds = {}
      /\ ToSet(backlog) = {} /\ Pending = {} /\ Accepted = {}
  BY EmptySeq DEF StreamInit, ToSet, Pending, Accepted
<1>5. Queue
  BY <1>4 DEF Queue
<1>6. ASSUME NEW c \in Clients PROVE Role(c)
  <2>1. /\ at["client"][c] = "connect" /\ at["server"][c] = "none"
        /\ \A e \in Ends : wire[e][c] = <<>>
    BY DEF StreamInit, Ends
  <2>2. "connect" \notin ClientRuns /\ "none" \notin ServerRuns
    BY DEF ClientRuns, ServerRuns, Talking, Greeting
  <2>. QED
    BY <1>4, <2>1, <2>2 DEF Role
<1>. QED
  BY <1>1, <1>2, <1>3, <1>5, <1>6 DEF Sane, Shape

-----------------------------------------------------------------------------
(* What the steps of a process do to its own connection *)

Returned(e, c, l) ==
  IF e = "client"
  THEN /\ printed'[c] = printed[c] \o Slice(l, 0, StrlenOf(l))
       /\ at'[e][c] = "fgets" /\ line'[e][c] = <<>>
  ELSE /\ printed'[c] = printed[c]
       /\ at'[e][c] \in {"return", "write", "read"}
       /\ line'[e][c] = IF at'[e][c] = "write" THEN l ELSE <<>>
       /\ at'[e][c] = "write" => theServer.service # "discard"
       /\ at'[e][c] = "read" => theServer.service = "discard"

\* The client has printed its line, and the server has acted on its own.
LEMMA ReturnedEffect ==
  ASSUME Shape, NEW e \in Ends, NEW c \in Clients, NEW l, Return(e, c, l)
  PROVE  Returned(e, c, l)
<1>1. CASE e = "client"
  <2>1. StrCli(c, l)
    BY <1>1 DEF Return
  <2>2. printed'[c] = printed[c] \o SubSeq(l, 1, StrlenOf(l))
    BY <2>1 DEF StrCli, Shape, Data
  <2>3. at'["client"][c] = "fgets" /\ line'["client"][c] = <<>>
    BY <1>1, <2>1 DEF StrCli, Shape, Data, Control
  <2>. QED
    BY <1>1, <2>2, <2>3 DEF Returned, Slice
<1>2. CASE e = "server"
  <2>1. Serve(c, l)
    BY <1>2 DEF Return
  <2>2. PICK to \in {"return", "write", "read"} :
           /\ at' = [at EXCEPT !["server"][c] = to]
           /\ line' = [line EXCEPT !["server"][c] = IF to = "write" THEN l ELSE <<>>]
           /\ printed' = printed
           /\ to = "write" => theServer.service # "discard" /\ l # <<>>
           /\ to = "read" => theServer.service = "discard"
    BY <2>1, ServeEffect DEF Shape, Users
  <2>3. at'["server"][c] = to /\ line'["server"][c] = IF to = "write" THEN l ELSE <<>>
    BY <1>2, <2>2 DEF Shape, Data, Control
  <2>. QED
    BY <1>2, <2>2, <2>3 DEF Returned
<1>. QED
  BY <1>1, <1>2 DEF Ends

\* The line that readline has when it has read one more byte.
Longer(e, c) == Append(line[e][c], Head(wire[e][c]))

\* A byte is read, and with it a line, or not;
ReadsByte(e, c) ==
  /\ wire[e][c] # <<>>
  /\ \A x \in Ends : wire'[x][c] = IF x = e THEN Tail(wire[x][c]) ELSE wire[x][c]
  /\ \/ Last(Longer(e, c)) = Newline /\ Returned(e, c, Longer(e, c))
     \/ /\ Last(Longer(e, c)) # Newline /\ Len(Longer(e, c)) = Room
        /\ Returned(e, c, Append(Longer(e, c), NUL))
     \/ /\ Last(Longer(e, c)) # Newline /\ Len(Longer(e, c)) # Room
        /\ at'[e][c] = "read" /\ line'[e][c] = Longer(e, c) /\ printed'[c] = printed[c]

\* or the end of the file;
ReadsEnd(e, c) ==
  /\ NoMore(e, c)
  /\ \A x \in Ends : wire'[x][c] = wire[x][c]
  /\ Returned(e, c, IF line[e][c] = <<>> THEN <<>> ELSE Append(line[e][c], NUL))

\* or read fails.
Fails(e, c) ==
  /\ at'[e][c] = "fail" /\ line'[e][c] = line[e][c] /\ printed'[c] = printed[c]
  /\ NoMore(e, c)
  /\ \A x \in Ends : wire'[x][c] = wire[x][c]

Reading(e, c) ==
  /\ at[e][c] = "read" /\ taken'[c] = taken[c]
  /\ ReadsByte(e, c) \/ ReadsEnd(e, c) \/ Fails(e, c)

\* One read of readline is one of those three.
LEMMA ReadlineEffect ==
  ASSUME Shape, NEW e \in Ends, NEW c \in Clients, Readline(e, c)
  PROVE  Reading(e, c)
<1>0. /\ wire \in [Ends -> [Clients -> Seq(Byte)]]
      /\ line \in [Ends -> [Clients -> Seq(Byte)]]
      /\ at \in [Ends -> [Clients -> Labels]]
  BY DEF Shape, Data, Control
<1>1. at[e][c] = "read" /\ taken' = taken
  BY DEF Readline
<1>. DEFINE l == Longer(e, c)
<1>2. CASE /\ wire[e][c] # <<>> /\ wire' = [wire EXCEPT ![e][c] = Tail(@)]
           /\ IF Last(l) = Newline THEN Return(e, c, l)
              ELSE IF Len(l) = Room THEN Return(e, c, Append(l, NUL))
              ELSE line' = [line EXCEPT ![e][c] = l] /\ UNCHANGED <<at, printed>>
  <2>1. \A x \in Ends : wire'[x][c] = IF x = e THEN Tail(wire[x][c]) ELSE wire[x][c]
    BY <1>0, <1>2
  <2>. HIDE DEF l
  <2>2. CASE Last(l) = Newline /\ Return(e, c, l)
    BY <1>1, <1>2, <2>1, <2>2, ReturnedEffect DEF Reading, ReadsByte, l
  <2>3. CASE Last(l) # Newline /\ Len(l) = Room /\ Return(e, c, Append(l, NUL))
    BY <1>1, <1>2, <2>1, <2>3, ReturnedEffect DEF Reading, ReadsByte, l
  <2>4. CASE /\ Last(l) # Newline /\ Len(l) # Room
             /\ line' = [line EXCEPT ![e][c] = l] /\ UNCHANGED <<at, printed>>
    <3>1. line'[e][c] = l /\ at'[e][c] = "read"
      BY <1>0, <1>1, <2>4
    <3>. QED
      BY <1>1, <1>2, <2>1, <2>4, <3>1 DEF Reading, ReadsByte, l
  <2>. QED
    BY <1>2, <2>2, <2>3, <2>4
<1>3. CASE /\ NoMore(e, c) /\ wire' = wire
           /\ Return(e, c, IF line[e][c] = <<>> THEN <<>> ELSE Append(line[e][c], NUL))
  BY <1>1, <1>3, ReturnedEffect DEF Reading, ReadsEnd
<1>4. CASE NoMore(e, c) /\ at' = [at EXCEPT ![e][c] = "fail"] /\ UNCHANGED <<wire, line, printed>>
  BY <1>0, <1>1, <1>4 DEF Reading, Fails
<1>. QED
  BY <1>2, <1>3, <1>4 DEF Readline, Longer

\* What a write does to the connection of c.
Sends(e, c, s, then) ==
  /\ wire'[e][c] = wire[e][c]
  /\ IF IsOpen(holds, Other(e), c)
     THEN wire'[Other(e)][c] = wire[Other(e)][c] \o s /\ at'[e][c] = then
     ELSE wire'[Other(e)][c] = wire[Other(e)][c] /\ at'[e][c] \in {then, "fail"}

\* A write, seen from its connection.
LEMMA SendsEffect ==
  ASSUME Shape, NEW e \in Ends, NEW c \in Clients, NEW s \in Seq(Byte), NEW then,
         Send(e, c, s, then)
  PROVE  Sends(e, c, s, then)
<1>1. Sending(e, c, s, then)
  BY SendEffect DEF Shape
<1>2. Other(e) \in Ends /\ e # Other(e)
  BY DEF Other, Ends
<1>3. \A to : at' = [at EXCEPT ![e][c] = to] => at'[e][c] = to
  BY DEF Shape, Control
<1>. QED
  BY <1>1, <1>2, <1>3 DEF Sending, Sends

Writing(e, c) ==
  /\ at[e][c] = "write" /\ printed'[c] = printed[c] /\ taken'[c] = taken[c]
  /\ \E n \in 1 .. Len(line[e][c]) :
       /\ line'[e][c] = Slice(line[e][c], n, Len(line[e][c]))
       /\ Sends(e, c, Slice(line[e][c], 0, n),
                IF n < Len(line[e][c]) THEN "write"
                ELSE IF e = "client" THEN theClient.then ELSE "read")

\* A write of writen takes the front of the buffer.
LEMMA WritenEffect ==
  ASSUME Shape, NEW e \in Ends, NEW c \in Clients, Writen(e, c)
  PROVE  Writing(e, c)
<1>. DEFINE s == line[e][c]
            to(n) == IF n < Len(s) THEN "write"
                     ELSE IF e = "client" THEN theClient.then ELSE "read"
<1>1. PICK n \in 1 .. Len(s) :
        /\ line' = [line EXCEPT ![e][c] = SubSeq(@, n + 1, Len(@))]
        /\ Send(e, c, SubSeq(s, 1, n), to(n))
  BY DEF Writen
<1>2. line'[e][c] = Slice(s, n, Len(s))
  BY <1>1 DEF Shape, Data, Slice
<1>3. SubSeq(s, 1, n) \in Seq(Byte)
  BY PieceTypes
<1>. HIDE DEF to
<1>4. Sends(e, c, SubSeq(s, 1, n), to(n))
  BY <1>1, <1>3, SendsEffect
<1>5. SubSeq(s, 1, n) = Slice(s, 0, n)
  BY DEF Slice
<1>6. at[e][c] = "write" /\ printed' = printed /\ taken' = taken
  BY DEF Writen
<1>. QED
  BY <1>2, <1>4, <1>5, <1>6 DEF Writing, to

Fetching(c) ==
  LET t == taken[c]
      s == input[c] IN
  /\ at["client"][c] = "fgets" /\ printed'[c] = printed[c]
  /\ \A x \in Ends : wire'[x][c] = wire[x][c]
  /\ \/ at'["client"][c] = "return" /\ line'["client"][c] = line["client"][c] /\ taken'[c] = t
     \/ \E n \in 1 .. Len(s) - t :
          /\ n =< Room
          /\ at'["client"][c] = "write"
          /\ line'["client"][c] = Slice(s, t, t + n) /\ taken'[c] = t + n

\* fgets puts the next line of the input in the buffer, or ends the client.
LEMMA FgetsEffect ==
  ASSUME Shape, NEW c \in Clients, Fgets(c)
  PROVE  Fetching(c)
<1>. DEFINE s == input[c]
            t == taken[c]
            rest == Slice(s, t, Len(s))
<1>0. s \in Seq(Byte) /\ Len(s) \in Nat /\ t \in 0 .. Len(s)
  BY SmallFacts
<1>1. /\ line \in [Ends -> [Clients -> Seq(Byte)]] /\ at \in [Ends -> [Clients -> Labels]]
      /\ taken \in [Clients -> Nat] /\ "client" \in Ends
      /\ at["client"][c] = "fgets" /\ wire' = wire /\ printed' = printed
  BY DEF Fgets, Shape, Data, Control, Ends
<1>2. Len(s) \in 0 .. Len(s)
  BY <1>0
<1>. HIDE DEF s, t
<1>3. rest \in Seq(Byte)
  BY <1>0, <1>1, <1>2, SliceType
<1>4. Len(rest) = Len(s) - t
  BY <1>0, <1>1, <1>2, SliceLen
<1>. HIDE DEF rest
<1>5. CASE rest = <<>>
  <2>1. at' = [at EXCEPT !["client"][c] = "return"] /\ UNCHANGED <<line, taken>>
    BY <1>5 DEF Fgets, rest, s, t, Slice
  <2>2. at'["client"][c] = "return"
    BY <1>0, <1>1, <1>2, <2>1
  <2>. QED
    BY <1>0, <1>1, <1>2, <2>1, <2>2 DEF Fetching, t
<1>6. CASE rest # <<>>
  <2>. DEFINE l == NextLine(rest)
  <2>1. /\ at' = [at EXCEPT !["client"][c] = "write"]
        /\ line' = [line EXCEPT !["client"][c] = l]
        /\ taken' = [taken EXCEPT ![c] = @ + Len(l)]
    BY <1>6 DEF Fgets, rest, s, t, Slice
  <2>2. PICK n \in 1 .. Len(rest) : n =< Room /\ l = SubSeq(rest, 1, n)
    BY <1>3, <1>6, NextLineProperties
  <2>3. n \in 0 .. Len(rest) /\ 0 \in 0 .. n /\ n \in 0 .. Len(s) - t /\ n \in 1 .. Len(s) - t
    BY <1>0, <1>1, <1>2, <1>4
  <2>. HIDE DEF l
  <2>4. l = Slice(rest, 0, n)
    BY <2>2 DEF Slice
  <2>5. Len(l) = n
    <3>1. Len(Slice(rest, 0, n)) = n - 0
      BY <1>3, <2>3, SliceLen
    <3>. QED
      BY <2>3, <2>4, <3>1
  <2>6. l = Slice(s, t, t + n)
    <3>1. Slice(Slice(s, t, Len(s)), 0, n) = Slice(s, t + 0, t + n)
      BY <1>0, <1>1, <1>2, <2>3, SliceOfSlice
    <3>. QED
      BY <1>0, <1>1, <1>2, <2>4, <3>1 DEF rest
  <2>7. /\ at'["client"][c] = "write" /\ line'["client"][c] = Slice(s, t, t + n)
        /\ taken'[c] = t + n
    BY <1>0, <1>1, <1>2, <2>1, <2>5, <2>6 DEF t
  <2>. QED
    BY <1>0, <1>1, <1>2, <2>2, <2>3, <2>7 DEF Fetching, s, t
<1>. QED
  BY <1>5, <1>6

Receiving(c) ==
  LET w == wire["server"][c] IN
  /\ at["server"][c] = "recv" /\ at'["server"][c] = "return"
  /\ line'["server"][c] = line["server"][c] /\ taken'[c] = taken[c]
  /\ \/ printed'[c] = printed[c]
     \/ \E n \in 1 .. Len(w) : printed'[c] = printed[c] \o Slice(w, 0, n)

\* recv prints the front of what has arrived.
LEMMA RecvEffect ==
  ASSUME Shape, NEW c \in Clients, Recv(c)
  PROVE  Receiving(c)
<1>. DEFINE w == wire["server"][c]
<1>1. at["server"][c] = "recv" /\ at'["server"][c] = "return" /\ line' = line /\ taken' = taken
  BY DEF Recv, Shape, Control, Ends
<1>2. CASE printed' = printed
  BY <1>1, <1>2 DEF Receiving
<1>3. ASSUME NEW n \in 1 .. Len(w), printed' = [printed EXCEPT ![c] = @ \o SubSeq(w, 1, n)]
      PROVE  Receiving(c)
  <2>1. printed'[c] = printed[c] \o Slice(w, 0, n)
    BY <1>3 DEF Shape, Data, Slice
  <2>. QED
    BY <1>1, <2>1 DEF Receiving
<1>. QED
  BY <1>2, <1>3 DEF Recv

\* One of the three messages of the exchange of headers is read, or the end of the file, or
\* an error instead of it.
Takes(e, c, to) ==
  /\ at'[e][c] = to \/ (at'[e][c] = "fail" /\ NoMore(e, c))
  /\ \/ wire[e][c] # <<>> /\ wire'[e][c] = Tail(wire[e][c])
     \/ NoMore(e, c) /\ wire'[e][c] = wire[e][c]
  /\ wire'[Other(e)][c] = wire[Other(e)][c]

\* A message of the headers is read.
LEMMA TakesEffect ==
  ASSUME Shape, NEW e \in Ends, NEW c \in Clients, NEW to, Take(e, c, to)
  PROVE  Takes(e, c, to)
<1>1. Other(e) \in Ends /\ e # Other(e)
  BY DEF Other, Ends
<1>2. /\ wire \in [Ends -> [Clients -> Seq(Byte)]]
      /\ at \in [Ends -> [Clients -> Labels]]
  BY DEF Shape, Data, Control
<1>3. CASE /\ wire[e][c] # <<>>
           /\ wire' = [wire EXCEPT ![e][c] = Tail(@)]
           /\ at' = [at EXCEPT ![e][c] = to]
  BY <1>1, <1>2, <1>3 DEF Takes
<1>4. CASE /\ NoMore(e, c) /\ wire' = wire
           /\ at' = [at EXCEPT ![e][c] = to] \/ at' = [at EXCEPT ![e][c] = "fail"]
  BY <1>1, <1>2, <1>4 DEF Takes
<1>. QED
  BY <1>3, <1>4 DEF Take

Meeting(e, c) ==
  /\ line'[e][c] = line[e][c] /\ printed'[c] = printed[c] /\ taken'[c] = taken[c]
  /\ IF e = "client"
     THEN \/ at[e][c] = "writev" /\ Sends(e, c, <<"header">>, "version")
          \/ at[e][c] = "version" /\ Takes(e, c, at'[e][c]) /\ at'[e][c] \in {"protocol", "fail"}
          \/ at[e][c] = "protocol" /\ Takes(e, c, at'[e][c]) /\ at'[e][c] \in {"fgets", "fail"}
     ELSE \/ at[e][c] = "header" /\ Takes(e, c, "version")
          \/ \E b \in Byte : at[e][c] = "version" /\ Sends(e, c, <<b>>, "protocol")
          \/ \E b \in Byte : /\ at[e][c] = "protocol"
                             /\ \/ Sends(e, c, <<b>>, "read")
                                \/ Sends(e, c, <<b>>, "return")

\* The steps of the exchange of headers.
LEMMA HeaderEffect ==
  ASSUME Shape, NEW e \in Ends, NEW c \in Clients,
         \/ e = "client" /\ ClientHeader(c)
         \/ e = "server" /\ ServerHeader(c)
  PROVE  Meeting(e, c)
<1>1. /\ "header" \in Byte /\ "error" \in Byte /\ "success" \in Byte
      /\ \A b \in Byte : <<b>> \in Seq(Byte)
  BY SmallFacts DEF Byte
<1>. HIDE DEF Byte
<1>2. UNCHANGED <<line, printed, taken>>
  BY DEF ClientHeader, ServerHeader
<1>3. CASE e = "client" /\ ClientHeader(c)
  <2>1. CASE at["client"][c] = "writev" /\ Send("client", c, <<"header">>, "version")
    BY <1>1, <1>2, <1>3, <2>1, SendsEffect DEF Meeting
  <2>2. ASSUME NEW here \in {"version", "protocol"}, at["client"][c] = here,
               NEW to \in {"fail", IF here = "version" THEN "protocol" ELSE "fgets"},
               Take("client", c, to)
        PROVE  Meeting(e, c)
    <3>1. Takes(e, c, to) /\ at'[e][c] \in {"fail", to}
      BY <1>3, <2>2, TakesEffect DEF Takes
    <3>2. Takes(e, c, at'[e][c])
      BY <3>1 DEF Takes
    <3>. QED
      BY <1>2, <1>3, <2>2, <3>1, <3>2 DEF Meeting
  <2>3. \/ at["client"][c] = "writev" /\ Send("client", c, <<"header">>, "version")
        \/ \E here \in {"version", "protocol"} :
              \E to \in {"fail", IF here = "version" THEN "protocol" ELSE "fgets"} :
                at["client"][c] = here /\ Take("client", c, to)
    BY <1>3 DEF ClientHeader
  <2>. QED
    BY <2>1, <2>2, <2>3
<1>4. CASE e = "server" /\ ServerHeader(c)
  <2>1. CASE at["server"][c] = "header" /\ Take("server", c, "version")
    BY <1>2, <1>4, <2>1, TakesEffect DEF Meeting
  <2>2. ASSUME NEW b \in {"error", "success"}, at["server"][c] = "version",
               Send("server", c, <<b>>, "protocol")
        PROVE  Meeting(e, c)
    <3>1. b \in Byte /\ <<b>> \in Seq(Byte)
      BY <1>1
    <3>2. Sends(e, c, <<b>>, "protocol")
      BY <1>4, <2>2, <3>1, SendsEffect
    <3>. QED
      BY <1>2, <1>4, <2>2, <3>1, <3>2 DEF Meeting
  <2>3. ASSUME NEW b \in {"error", "success"}, at["server"][c] = "protocol",
               NEW to \in {"read", "return"}, Send("server", c, <<b>>, to)
        PROVE  Meeting(e, c)
    <3>1. b \in Byte /\ <<b>> \in Seq(Byte)
      BY <1>1
    <3>2. Sends(e, c, <<b>>, to)
      BY <1>4, <2>3, <3>1, SendsEffect
    <3>. QED
      BY <1>2, <1>4, <2>3, <3>1, <3>2 DEF Meeting
  <2>4. \/ at["server"][c] = "header" /\ Take("server", c, "version")
        \/ \E b \in {"error", "success"} :
             \/ at["server"][c] = "version" /\ Send("server", c, <<b>>, "protocol")
             \/ /\ at["server"][c] = "protocol"
                /\ \E to \in {"read", "return"} : Send("server", c, <<b>>, to)
    BY <1>4 DEF ServerHeader
  <2>. QED
    BY <2>1, <2>2, <2>3, <2>4
<1>. QED
  BY <1>3, <1>4

\* What a process does to its connection.
Moving(e, c) ==
  \/ Reading(e, c) \/ Writing(e, c) \/ Meeting(e, c)
  \/ e = "client" /\ Fetching(c)
  \/ e = "server" /\ Receiving(c)

\* Every step of a process is one of these.
LEMMA TalkEffect ==
  ASSUME Shape, NEW e \in Ends, NEW c \in Clients, Talk(e, c)
  PROVE  Moving(e, c)
BY ReadlineEffect, WritenEffect, HeaderEffect, FgetsEffect, RecvEffect DEF Talk, Moving

-----------------------------------------------------------------------------
(* What is in the buffers, and which programs are where *)

\* Nothing is in the buffer before the first line.
Quiet == {"none", "connect", "header", "recv"} \cup Greeting

\* A process at end e that is at p, with l in its buffer.
Placed(e, p, l) ==
  /\ p \in Quiet => l = <<>>
  /\ p = "read" => Len(l) < Room
  /\ Len(l) =< IF e = "client" THEN Room ELSE MAXLINE
  /\ p \in {"writev", "header", "version", "protocol"} => theServer.service = "header"
  /\ p = "recv" => theServer.service = "recv"
  /\ p = "read" /\ e = "server" => theServer.service # "recv"
  /\ p = "read" /\ e = "client" => Echoes
  /\ p = "write" /\ e = "server" => Echoes

Place(c) == \A e \in Ends : Placed(e, at[e][c], line[e][c])

\* Where a process is and what it has are all that Place is about.
LEMMA PlacedKeeps ==
  ASSUME theServer' = theServer, NEW c \in Clients,
         \A e \in Ends : Placed(e, at'[e][c], line'[e][c])
  PROVE  Place(c)'
BY DEF Place, Placed, Echoes

\* A process with nothing in its buffer is well placed,
LEMMA PlacedEmpty ==
  ASSUME NEW e \in Ends, NEW p,
         p \notin Quiet, p = "read" /\ e = "server" => theServer.service # "recv",
         p = "read" /\ e = "client" => Echoes, p = "write" /\ e = "server" => Echoes
  PROVE  Placed(e, p, <<>>)
<1>1. Len(<<>>) = 0
  OBVIOUS
<1>2. {"writev", "header", "version", "protocol", "recv"} \subseteq Quiet
  BY DEF Quiet, Greeting
<1>3. Room \in Nat /\ Room >= 1 /\ MAXLINE = Room + 1
  BY RoomFacts
<1>. HIDE DEF Quiet
<1>. QED
  BY <1>1, <1>2, <1>3 DEF Placed

\* A process that reads its line on, or that has ended, or writes the line of a client.
LEMMA PlacedLine ==
  ASSUME NEW e \in Ends, NEW p \in Ended \cup {"fail", "return", "write", "read"},
         NEW l \in Seq(Byte), Len(l) =< IF e = "client" THEN Room ELSE MAXLINE,
         p = "read" => /\ Len(l) < Room
                       /\ IF e = "server" THEN theServer.service # "recv" ELSE Echoes,
         p = "write" /\ e = "server" => Echoes
  PROVE  Placed(e, p, l)
<1>1. p \notin Quiet \cup {"writev", "header", "version", "protocol", "recv"}
  BY DEF Quiet, Greeting, Ended
<1>. HIDE DEF Quiet
<1>. QED
  BY <1>1 DEF Placed, Ends

\* When readline has returned,
LEMMA ReturnedPlaced ==
  ASSUME NEW e \in Ends, NEW c \in Clients, NEW l \in Seq(Byte), Returned(e, c, l),
         Len(l) =< MAXLINE, e = "server" => theServer.service # "recv"
  PROVE  Placed(e, at'[e][c], line'[e][c])
<1>1. CASE e = "client"
  <2>1. at'[e][c] = "fgets" /\ line'[e][c] = <<>>
    BY <1>1 DEF Returned
  <2>2. "fgets" \notin Quiet
    BY DEF Quiet, Greeting
  <2>. QED
    BY <1>1, <2>1, <2>2, PlacedEmpty
<1>2. CASE e = "server"
  <2>1. /\ at'[e][c] \in {"return", "write", "read"}
        /\ line'[e][c] = IF at'[e][c] = "write" THEN l ELSE <<>>
        /\ at'[e][c] = "write" => theServer.service # "discard"
    BY <1>2 DEF Returned
  <2>2. CASE at'[e][c] = "write"
    BY <1>2, <2>1, <2>2, PlacedLine DEF Echoes
  <2>3. CASE at'[e][c] \in {"return", "read"}
    <3>1. at'[e][c] \notin Quiet
      BY <2>3 DEF Quiet, Greeting
    <3>. QED
      BY <1>2, <2>1, <2>3, <3>1, PlacedEmpty
  <2>. QED
    BY <2>1, <2>2, <2>3
<1>. QED
  BY <1>1, <1>2 DEF Ends

\* after a read,
LEMMA ReadingPlaced ==
  ASSUME Shape, NEW e \in Ends, NEW c \in Clients, Placed(e, at[e][c], line[e][c]),
         Reading(e, c)
  PROVE  Placed(e, at'[e][c], line'[e][c])
<1>. DEFINE s == line[e][c]
            l == Longer(e, c)
<1>0. /\ s \in Seq(Byte) /\ Len(s) \in Nat /\ NUL \in Byte /\ <<>> \in Seq(Byte)
      /\ Room \in Nat /\ Room >= 1 /\ MAXLINE = Room + 1
  BY SmallFacts, RoomFacts
<1>1. /\ at[e][c] = "read" /\ Len(s) < Room
      /\ IF e = "server" THEN theServer.service # "recv" ELSE Echoes
  BY DEF Reading, Placed, Ends
<1>2. CASE ReadsByte(e, c)
  <2>1. l \in Seq(Byte) /\ Len(l) = Len(s) + 1
    <3>1. wire[e][c] \in Seq(Byte) /\ wire[e][c] # <<>>
      BY <1>2, SmallFacts DEF ReadsByte
    <3>2. Head(wire[e][c]) \in Byte
      BY <3>1, HeadTailProperties
    <3>. QED
      BY <1>0, <3>2, AppendProperties DEF Longer
  <2>2. Append(l, NUL) \in Seq(Byte) /\ Len(Append(l, NUL)) = Len(l) + 1
    BY <1>0, <2>1, AppendProperties
  <2>. HIDE DEF l, s
  <2>3. CASE Returned(e, c, l)
    <3>1. Len(l) =< MAXLINE
      BY <1>0, <1>1, <2>1
    <3>. QED
      BY <1>1, <2>1, <2>3, <3>1, ReturnedPlaced
  <2>4. CASE Len(l) = Room /\ Returned(e, c, Append(l, NUL))
    <3>1. Len(Append(l, NUL)) =< MAXLINE
      BY <1>0, <1>1, <2>1, <2>2, <2>4
    <3>. QED
      BY <1>1, <2>2, <2>4, <3>1, ReturnedPlaced
  <2>5. CASE Len(l) # Room /\ at'[e][c] = "read" /\ line'[e][c] = l
    <3>1. Len(l) < Room /\ Len(l) =< Room /\ Len(l) =< MAXLINE
      BY <1>0, <1>1, <2>1, <2>5
    <3>. QED
      BY <1>1, <2>1, <2>5, <3>1, PlacedLine
  <2>. QED
    BY <1>2, <2>3, <2>4, <2>5 DEF ReadsByte, l
<1>3. CASE ReadsEnd(e, c)
  <2>. DEFINE k == IF s = <<>> THEN <<>> ELSE Append(s, NUL)
  <2>1. k \in Seq(Byte) /\ Len(k) =< MAXLINE
    <3>1. Append(s, NUL) \in Seq(Byte) /\ Len(Append(s, NUL)) = Len(s) + 1
      BY <1>0, AppendProperties
    <3>. QED
      BY <1>0, <1>1, <3>1
  <2>2. Returned(e, c, k)
    BY <1>3 DEF ReadsEnd
  <2>. HIDE DEF k
  <2>. QED
    BY <1>1, <2>1, <2>2, ReturnedPlaced
<1>4. CASE Fails(e, c)
  <2>1. at'[e][c] = "fail" /\ line'[e][c] = s
    BY <1>4 DEF Fails
  <2>2. Len(s) =< Room /\ Len(s) =< MAXLINE
    BY <1>0, <1>1
  <2>. QED
    BY <1>0, <2>1, <2>2, PlacedLine
<1>. QED
  BY <1>2, <1>3, <1>4 DEF Reading

\* after a write,
LEMMA WritingPlaced ==
  ASSUME Shape, NEW e \in Ends, NEW c \in Clients, Placed(e, at[e][c], line[e][c]),
         Writing(e, c)
  PROVE  Placed(e, at'[e][c], line'[e][c])
<1>. DEFINE s == line[e][c]
            to(n) == IF n < Len(s) THEN "write"
                     ELSE IF e = "client" THEN theClient.then ELSE "read"
<1>0. /\ s \in Seq(Byte) /\ Len(s) \in Nat
      /\ Room \in Nat /\ Room >= 1 /\ MAXLINE = Room + 1
  BY SmallFacts, RoomFacts
<1>1. PICK n \in 1 .. Len(s) :
        /\ line'[e][c] = Slice(s, n, Len(s))
        /\ at'[e][c] \in {to(n), "fail"}
  BY DEF Writing, Sends
<1>2. /\ Len(s) =< IF e = "client" THEN Room ELSE MAXLINE
      /\ e = "server" => Echoes
  BY DEF Writing, Placed
<1>. HIDE DEF s
<1>3. n \in 0 .. Len(s) /\ Len(s) \in 0 .. Len(s)
  BY <1>0
<1>4. Slice(s, n, Len(s)) \in Seq(Byte)
  BY <1>0, <1>3, SliceType
<1>5. Len(Slice(s, n, Len(s))) = Len(s) - n
  BY <1>0, <1>3, SliceLen
<1>6. Len(line'[e][c]) =< IF e = "client" THEN Room ELSE MAXLINE
  BY <1>0, <1>1, <1>2, <1>5, <1>3
<1>7. CASE at'[e][c] \in {"fail", "write"}
  BY <1>1, <1>2, <1>4, <1>6, <1>7, PlacedLine
<1>8. CASE n = Len(s) /\ at'[e][c] = IF e = "client" THEN theClient.then ELSE "read"
  <2>1. line'[e][c] = <<>>
    BY <1>0, <1>1, <1>3, <1>8, SliceEmpty
  <2>2. /\ theClient.then \in {"return", "fgets", "read"}
        /\ theClient.then = "read" => Echoes
    BY PairsFacts DEF Shape, Users, Echoes
  <2>3. at'[e][c] \in {"return", "fgets", "read"} /\ "write" \notin {"return", "fgets", "read"}
    BY <1>8, <2>2
  <2>4. at'[e][c] \notin Quiet
    BY <2>3 DEF Quiet, Greeting
  <2>5. /\ at'[e][c] = "read" /\ e = "server" => theServer.service # "recv"
        /\ at'[e][c] = "read" /\ e = "client" => Echoes
    BY <1>2, <1>8, <2>2 DEF Echoes
  <2>. QED
    BY <2>1, <2>3, <2>4, <2>5, PlacedEmpty
<1>. QED
  BY <1>1, <1>3, <1>7, <1>8

\* after a step of the exchange of headers,
LEMMA MeetingPlaced ==
  ASSUME Shape, NEW e \in Ends, NEW c \in Clients, Placed(e, at[e][c], line[e][c]),
         Meeting(e, c)
  PROVE  Placed(e, at'[e][c], line'[e][c])
<1>0. /\ at[e][c] \in {"writev", "header", "version", "protocol"}
      /\ at'[e][c] \in {"version", "protocol", "fgets", "fail", "read", "return"}
      /\ at'[e][c] = "read" => e = "server"
  BY DEF Meeting, Sends, Takes, Ends
<1>1. at[e][c] \in Quiet /\ theServer.service = "header"
  BY <1>0 DEF Placed, Quiet, Greeting
<1>2. line'[e][c] = <<>>
  BY <1>1 DEF Meeting, Placed
<1>3. CASE at'[e][c] \in {"version", "protocol"}
  <2>1. Len(<<>>) = 0 /\ Room \in Nat /\ MAXLINE = Room + 1
    BY RoomFacts
  <2>. QED
    BY <1>1, <1>2, <1>3, <2>1 DEF Placed
<1>4. CASE at'[e][c] \in {"fgets", "fail", "read", "return"}
  <2>1. at'[e][c] \notin Quiet
    BY <1>4 DEF Quiet, Greeting
  <2>2. theServer.service # "recv"
    BY <1>1
  <2>. QED
    BY <1>0, <1>2, <1>4, <2>1, <2>2, PlacedEmpty DEF Ends
<1>. QED
  BY <1>0, <1>3, <1>4

\* after fgets,
LEMMA FetchingPlaced ==
  ASSUME Shape, NEW c \in Clients, Placed("client", at["client"][c], line["client"][c]),
         Fetching(c)
  PROVE  Placed("client", at'["client"][c], line'["client"][c])
<1>. DEFINE s == input[c]
            t == taken[c]
<1>0. s \in Seq(Byte) /\ Len(s) \in Nat /\ t \in 0 .. Len(s) /\ "client" \in Ends
  BY SmallFacts DEF Ends
<1>1. CASE at'["client"][c] = "return" /\ line'["client"][c] = line["client"][c]
  <2>1. line["client"][c] \in Seq(Byte)
    BY <1>0, SmallFacts
  <2>2. Len(line["client"][c]) =< Room
    BY DEF Placed
  <2>. QED
    BY <1>0, <1>1, <2>1, <2>2, PlacedLine
<1>2. ASSUME NEW n \in 1 .. Len(s) - t, n =< Room, at'["client"][c] = "write",
             line'["client"][c] = Slice(s, t, t + n)
      PROVE  Placed("client", at'["client"][c], line'["client"][c])
  <2>. HIDE DEF s, t
  <2>1. t + n \in 0 .. Len(s) /\ t \in 0 .. t + n
    BY <1>0
  <2>2. Slice(s, t, t + n) \in Seq(Byte)
    BY <1>0, <2>1, SliceType
  <2>3. Len(Slice(s, t, t + n)) = t + n - t
    BY <1>0, <2>1, SliceLen
  <2>4. Len(line'["client"][c]) =< Room
    BY <1>0, <1>2, <2>3
  <2>. QED
    BY <1>0, <1>2, <2>2, <2>4, PlacedLine
<1>. QED
  BY <1>1, <1>2 DEF Fetching

\* and so after every step, a process is well placed:
LEMMA MovingPlaced ==
  ASSUME Shape, NEW e \in Ends, NEW c \in Clients, Placed(e, at[e][c], line[e][c]),
         Moving(e, c)
  PROVE  Placed(e, at'[e][c], line'[e][c])
<1>1. CASE e = "server" /\ Receiving(c)
  <2>1. at'[e][c] = "return" /\ line'[e][c] = line[e][c] /\ at[e][c] = "recv"
    BY <1>1 DEF Receiving
  <2>2. line[e][c] = <<>> /\ "return" \notin Quiet
    BY <2>1 DEF Placed, Quiet, Greeting
  <2>. QED
    BY <1>1, <2>1, <2>2, PlacedEmpty
<1>. QED
  BY <1>1, ReadingPlaced, WritingPlaced, MeetingPlaced, FetchingPlaced DEF Moving

\* whatever happens to its connection.
LEMMA PlaceStep ==
  ASSUME Sane, UNCHANGED userVars, NEW c \in Clients, Place(c), Local(c)
  PROVE  Place(c)'
<1>0. /\ theServer' = theServer /\ "client" \in Ends /\ "server" \in Ends
      /\ Room \in Nat /\ Room >= 1 /\ MAXLINE = Room + 1
  BY UsersFrame, RoomFacts DEF Sane, Shape, Ends
<1>1. ASSUME NEW e \in Ends PROVE Placed(e, at[e][c], line[e][c]) /\ line[e][c] \in Seq(Byte)
  BY SmallFacts DEF Place, Sane
<1>2. ASSUME NEW e \in Ends, at'[e][c] \in Ended, line'[e][c] = line[e][c]
      PROVE  Placed(e, at'[e][c], line'[e][c])
  <2>1. Len(line[e][c]) =< IF e = "client" THEN Room ELSE MAXLINE
    BY <1>1 DEF Placed
  <2>2. at'[e][c] # "read" /\ at'[e][c] # "write"
    BY <1>2 DEF Ended
  <2>. QED
    BY <1>1, <1>2, <2>1, <2>2, PlacedLine
<1>3. CASE Settles(c)
  <2>1. ASSUME NEW e \in Ends PROVE Placed(e, at'[e][c], line'[e][c])
    BY <1>1, <1>2, <1>3 DEF Settles
  <2>. QED
    BY <1>0, <2>1, PlacedKeeps
<1>4. CASE Starts(c)
  <2>1. line'["server"][c] = <<>> /\ at'["server"][c] = Begins
    BY <1>0, <1>1, <1>4 DEF Starts, Placed, Quiet
  <2>2. Placed("server", Begins, <<>>)
    <3>1. Len(<<>>) = 0
      OBVIOUS
    <3>. QED
      BY <1>0, <3>1 DEF Begins, Placed
  <2>3. at'["client"][c] = at["client"][c] /\ line'["client"][c] = line["client"][c]
    BY <1>0, <1>4 DEF Starts
  <2>4. ASSUME NEW e \in Ends PROVE Placed(e, at'[e][c], line'[e][c])
    BY <1>1, <2>1, <2>2, <2>3 DEF Ends
  <2>. QED
    BY <1>0, <2>4, PlacedKeeps
<1>5. CASE Connects(c)
  <2>1. line'["client"][c] = <<>> /\ at'["client"][c] = theClient.first
    BY <1>0, <1>1, <1>5 DEF Connects, Placed, Quiet
  <2>2. Placed("client", theClient.first, <<>>)
    <3>1. Len(<<>>) = 0
      OBVIOUS
    <3>2. theClient.first = IF theServer.service = "header" THEN "writev" ELSE "fgets"
      BY PairsFacts DEF Sane, Shape, Users
    <3>3. theClient.first \in {"writev", "fgets"}
      BY <3>2
    <3>. QED
      BY <1>0, <3>1, <3>2, <3>3 DEF Placed
  <2>3. at'["server"][c] = at["server"][c] /\ line'["server"][c] = line["server"][c]
    BY <1>0, <1>5 DEF Connects
  <2>4. ASSUME NEW e \in Ends PROVE Placed(e, at'[e][c], line'[e][c])
    BY <1>1, <2>1, <2>2, <2>3 DEF Ends
  <2>. QED
    BY <1>0, <2>4, PlacedKeeps
<1>6. ASSUME NEW e \in Ends, Talk(e, c), Frame(e, c)
      PROVE  Place(c)'
  <2>1. Moving(e, c)
    BY <1>6, TalkEffect DEF Sane
  <2>2. Placed(e, at'[e][c], line'[e][c])
    BY <1>1, <2>1, MovingPlaced DEF Sane
  <2>3. ASSUME NEW x \in Ends, x # e PROVE Placed(x, at'[x][c], line'[x][c])
    <3>1. at'[x][c] = at[x][c] /\ line'[x][c] = line[x][c]
      BY <1>6, <2>3 DEF Frame
    <3>. QED
      BY <1>1, <3>1
  <2>4. ASSUME NEW x \in Ends PROVE Placed(x, at'[x][c], line'[x][c])
    <3>1. CASE x = e
      BY <2>2, <3>1
    <3>. QED
      BY <2>3, <3>1
  <2>. QED
    BY <1>0, <2>4, PlacedKeeps
<1>. QED
  BY <1>3, <1>4, <1>5, <1>6 DEF Local

\* At the start the buffers are empty.
LEMMA PlaceInit == ASSUME StreamInit, NEW c \in Clients PROVE Place(c)
<1>1. \A e \in Ends : at[e][c] \in {"connect", "none"} /\ line[e][c] = <<>>
  BY DEF StreamInit
<1>2. Len(<<>>) = 0 /\ Room \in Nat /\ Room >= 1 /\ MAXLINE = Room + 1
  BY RoomFacts
<1>. QED
  BY <1>1, <1>2 DEF Place, Placed

\* The buffers of well placed processes are within their bounds.
LEMMA StreamTypes == ASSUME Sane, \A c \in Clients : Place(c) PROVE StreamTypeOK
<1>1. Room \in Nat /\ MAXLINE = Room + 1 /\ Room = MAXLINE - 1
  BY RoomFacts DEF Room
<1>2. ASSUME NEW e \in Ends, NEW c \in Clients
      PROVE  Len(line[e][c]) =< IF e = "client" \/ at[e][c] = "read" THEN MAXLINE - 1 ELSE MAXLINE
  <2>1. Placed(e, at[e][c], line[e][c])
    BY DEF Place
  <2>2. Len(line[e][c]) \in Nat
    BY SmallFacts DEF Sane
  <2>. QED
    BY <1>1, <2>1, <2>2 DEF Placed
<1>3. ToSet(backlog) \subseteq Clients
  <2>1. backlog \in Seq(Clients)
    BY DEF Sane, Shape, Control
  <2>2. DOMAIN backlog = 1 .. Len(backlog)
    BY <2>1, LenProperties
  <2>3. \A i \in 1 .. Len(backlog) : backlog[i] \in Clients
    BY <2>1, ElementOfSeq
  <2>. QED
    BY <2>2, <2>3 DEF ToSet
<1>4. \A c \in Clients : taken[c] \in 0 .. Len(input[c])
  BY SmallFacts DEF Sane
<1>. QED
  BY <1>2, <1>3, <1>4 DEF Sane, Shape, Control, Data, StreamTypeOK

-----------------------------------------------------------------------------
(* The order of the lines, of a client whose lines are well formed *)

\* The ends of lines in s; and that no line ends after m, up to n.
Stops(s) == {0} \cup {i \in DOMAIN s : s[i] = Newline}
Within(s, m, n) == \A i \in m + 1 .. n : s[i] # Newline

\* The server has yet to read what the client sends, or to write what it has read.
Listens(c) ==
  /\ at["server"][c] \in {"none", "header", "version", "protocol", "read", "write"}
  /\ IsOpen(holds, "server", c)

\* The answers in the exchange of headers that the server has sent, and the client received.
Answered(c) == CASE at["server"][c] = "protocol" -> 1
                 [] at["server"][c] \in {"none", "header", "version"} -> 0
                 [] OTHER -> 2
Seen(c) == Len(wire["client"][c]) + IF at["client"][c] = "protocol" THEN 1 ELSE 0

\* Before the first line nothing is on its way but what the headers say.
Greets(c) ==
  /\ at["client"][c] \in Greeting \cup {"connect"} => taken[c] = 0 /\ printed[c] = <<>>
  /\ at["client"][c] \in {"writev", "connect"} =>
       /\ wire["server"][c] = <<>> /\ wire["client"][c] = <<>>
       /\ at["server"][c] \notin {"version", "protocol", "read", "write", "return", "fail"}
  /\ at["client"][c] \in {"version", "protocol"} =>
       /\ Seen(c) =< 2
       /\ Listens(c) =>
            /\ Seen(c) = Answered(c)
            /\ at["server"][c] # "write" /\ line["server"][c] = <<>>
            /\ IF at["server"][c] \in {"none", "header"} THEN Len(wire["server"][c]) = 1
               ELSE wire["server"][c] = <<>>

\* From the server: the client has printed as far as a, and read as far as b; the server has
\* written as far as d.
Back(c, a, b, d) ==
  LET s == input[c] IN
  /\ wire["client"][c] = Slice(s, b, d)
  /\ a \in Stops(s) \/ (wire["client"][c] = <<>> /\ ~IsOpen(holds, "server", c))
  /\ IF at["client"][c] = "read" THEN line["client"][c] = Slice(s, a, b) /\ Within(s, a, b)
     ELSE a = b

\* To the server: it has read as far as e, and the client written as far as f.
Forth(c, d, e, f) ==
  LET s == input[c] IN
  /\ at["server"][c] \in {"none", "read", "write"}
  /\ at["server"][c] = "none" => d = 0 /\ theServer.service # "header"
  /\ wire["server"][c] = Slice(s, e, f) /\ line["server"][c] = Slice(s, d, e)
  /\ IF at["server"][c] = "write" THEN e \in Stops(s) ELSE d \in Stops(s) /\ Within(s, d, e)
  /\ IF at["client"][c] = "write" THEN line["client"][c] = Slice(s, f, taken[c])
     ELSE f = taken[c]

Echoed(c, a, b, d, e, f) ==
  /\ a =< b /\ b =< d /\ d =< e /\ e =< f /\ f =< taken[c]
  /\ printed[c] = Slice(input[c], 0, a)
  /\ at["client"][c] \in Talking => Back(c, a, b, d)
  /\ at["client"][c] \in Talking /\ Listens(c) => Forth(c, d, e, f)

Echoing(c) == Greets(c) /\ \E a, b, d, e, f \in Nat : Echoed(c, a, b, d, e, f)

\* In send_recv the server prints the start of what the client has written.
Received(c) ==
  LET s == input[c] IN
  /\ \E a \in 0 .. Len(s) : printed[c] = Slice(s, 0, a)
  /\ at["client"][c] = "connect" => taken[c] = 0
  /\ at["server"][c] \in {"none", "recv"} => printed[c] = <<>>
  /\ at["server"][c] \in {"none", "recv"} /\ IsOpen(holds, "server", c) =>
       \E f \in 0 .. taken[c] :
         /\ wire["server"][c] = Slice(s, 0, f)
         /\ at["client"][c] = "write" => line["client"][c] = Slice(s, f, taken[c])
         /\ at["client"][c] = "fgets" => f = taken[c]

Order(c) ==
  /\ theServer.service = "discard" => printed[c] = <<>>
  /\ theServer.service = "recv" => Received(c)
  /\ Echoes /\ WellFormed(input[c]) => Echoing(c)

\* A line of a well formed text ends before it is longer than its buffer.
LEMMA LongLine ==
  ASSUME NEW S, NEW s \in Seq(S), WellFormed(s), NEW p \in Stops(s), NEW q \in Nat,
         q =< Len(s), q - p = Room, Within(s, p, q)
  PROVE  FALSE
<1>0. /\ Len(s) \in Nat /\ DOMAIN s = 1 .. Len(s)
      /\ Room \in Nat /\ Room >= 1 /\ MAXLINE = Room + 1
  BY LenProperties, RoomFacts
<1>1. p \in Nat /\ p < Len(s)
  BY <1>0 DEF Stops
<1>2. PICK j \in Stops(s) : j > p /\ j - p < MAXLINE
  BY <1>1 DEF WellFormed, Stops
<1>3. j \in Nat /\ j \in p + 1 .. q
  BY <1>0, <1>1, <1>2 DEF Stops
<1>4. s[j] = Newline
  BY <1>0, <1>1, <1>2, <1>3 DEF Stops
<1>. QED
  BY <1>3, <1>4 DEF Within

\* A byte that is not a newline is within the line;
LEMMA WithinMore ==
  ASSUME NEW s, NEW p \in Nat, NEW q \in Nat, Within(s, p, q), s[q + 1] # Newline
  PROVE  Within(s, p, q + 1)
<1>. SUFFICES ASSUME NEW i \in p + 1 .. q + 1 PROVE s[i] # Newline
  BY DEF Within
<1>1. i \in p + 1 .. q \/ i = q + 1
  OBVIOUS
<1>. QED
  BY <1>1 DEF Within

\* no byte is;
LEMMA WithinNone == ASSUME NEW s, NEW p \in Nat PROVE Within(s, p, p)
BY DEF Within

\* and after a newline a line ends.
LEMMA StopHere ==
  ASSUME NEW S, NEW s \in Seq(S), NEW q \in Nat, q < Len(s), s[q + 1] = Newline
  PROVE  q + 1 \in Stops(s)
<1>1. Len(s) \in Nat /\ DOMAIN s = 1 .. Len(s)
  BY LenProperties
<1>. QED
  BY <1>1 DEF Stops

\* What is typed has no null character, and is made of bytes.
LEMMA Typed ==
  ASSUME Shape, NEW c \in Clients
  PROVE  /\ input[c] \in Seq(Byte) /\ Len(input[c]) \in Nat
         /\ \A i \in 1 .. Len(input[c]) : input[c][i] # NUL
<1>1. input[c] \in Seq(ToSet(input[c]) \ {NUL})
  BY DEF Shape, Users
<1>2. \A i \in 1 .. Len(input[c]) : input[c][i] \in ToSet(input[c]) \ {NUL}
  BY <1>1, ElementOfSeq
<1>. QED
  BY <1>2, SmallFacts

\* What was in the buffer is still there before what is appended.
LEMMA AppendFront ==
  ASSUME NEW S, NEW l \in Seq(S), NEW x \in S
  PROVE  Slice(Append(l, x), 0, Len(l)) = l
<1>1. <<x>> \in Seq(S) /\ Append(l, x) = l \o <<x>>
  BY AppendIsConcat, EmptySeq
<1>2. Len(l) \in Nat /\ Len(l) \in 1 - 1 .. Len(l) /\ 1 \in 1 .. Len(l) + 1
  BY LenProperties
<1>3. SubSeq(l \o <<x>>, 1, Len(l)) = SubSeq(l, 1, Len(l))
  BY <1>1, <1>2, SubSeqOfConcat1
<1>4. SubSeq(l, 1, Len(l)) = l
  BY SubSeqFull
<1>. QED
  BY <1>1, <1>3, <1>4 DEF Slice

\* fputs prints a line that has been read, with or without a null character at its end.
LEMMA Prints ==
  ASSUME Shape, NEW c \in Clients, NEW n \in Nat, n =< Len(input[c]), NEW m \in 0 .. n,
         NEW l, l \in {Slice(input[c], m, n), Append(Slice(input[c], m, n), NUL)}
  PROVE  Slice(l, 0, StrlenOf(l)) = Slice(input[c], m, n)
<1>. DEFINE s == input[c]
            t == Slice(s, m, n)
<1>0. /\ s \in Seq(Byte) /\ Len(s) \in Nat /\ \A i \in 1 .. Len(s) : s[i] # NUL
      /\ NUL \in Byte
  BY Typed, SmallFacts
<1>. HIDE DEF s
<1>1. n \in 0 .. Len(s)
  BY <1>0 DEF s
<1>2. t \in Seq(Byte)
  BY <1>0, <1>1, SliceType
<1>3. Len(t) = n - m
  BY <1>0, <1>1, SliceLen
<1>4. \A i \in 1 .. n - m : t[i] = s[m + i]
  BY <1>0, <1>1, SliceElement
<1>. HIDE DEF t
<1>5. NUL \notin ToSet(t)
  <2>1. \A i \in 1 .. n - m : t[i] # NUL
    <3>. SUFFICES ASSUME NEW i \in 1 .. n - m PROVE t[i] # NUL
      OBVIOUS
    <3>1. m + i \in 1 .. Len(s)
      BY <1>0, <1>1
    <3>. QED
      BY <1>0, <1>4, <3>1
  <2>2. DOMAIN t = 1 .. n - m
    BY <1>2, <1>3, LenProperties
  <2>. QED
    BY <2>1, <2>2 DEF ToSet
<1>6. CASE l = t
  <2>1. StrlenOf(l) = Len(t)
    BY <1>5, <1>6 DEF StrlenOf
  <2>2. SubSeq(t, 1, Len(t)) = t
    BY <1>2, SubSeqFull
  <2>. QED
    BY <1>6, <2>1, <2>2 DEF Slice, t, s
<1>7. CASE l = Append(t, NUL)
  <2>1. StrlenOf(l) = Len(t)
    BY <1>2, <1>5, <1>7, StrlenOfNul
  <2>2. Slice(Append(t, NUL), 0, Len(t)) = t
    BY <1>0, <1>2, AppendFront
  <2>. QED
    BY <1>7, <2>1, <2>2 DEF t, s
<1>. QED
  BY <1>6, <1>7 DEF t, s

\* The next byte that an end reads, of what has been sent as far as r.
Reads(e, c, s, p, q, r) ==
  /\ q < r /\ Longer(e, c) = Slice(s, p, q + 1) /\ Last(Longer(e, c)) = s[q + 1]
  /\ Len(Longer(e, c)) = q + 1 - p /\ Tail(wire[e][c]) = Slice(s, q + 1, r)

\* One byte goes from the wire to the buffer.
LEMMA NextByte ==
  ASSUME NEW S, NEW s \in Seq(S), NEW e, NEW c, NEW p \in Nat, NEW q \in Nat, NEW r \in Nat,
         p =< q, q =< r, r =< Len(s),
         line[e][c] = Slice(s, p, q), wire[e][c] = Slice(s, q, r), wire[e][c] # <<>>
  PROVE  Reads(e, c, s, p, q, r)
<1>0. Len(s) \in Nat
  BY LenProperties
<1>1. r \in 0 .. Len(s) /\ q \in 0 .. r
  BY <1>0
<1>2. q < r
  <2>1. Slice(s, q, r) = <<>> <=> q = r
    BY <1>1, SliceEmpty
  <2>. QED
    BY <2>1
<1>3. q \in 0 .. r - 1 /\ q \in 0 .. Len(s) - 1 /\ p \in 0 .. q
      /\ q + 1 \in 0 .. Len(s) /\ p \in 0 .. q + 1
  BY <1>0, <1>2
<1>4. Head(wire[e][c]) = s[q + 1] /\ Tail(wire[e][c]) = Slice(s, q + 1, r)
  BY <1>1, <1>3, SliceTail
<1>5. Append(Slice(s, p, q), s[q + 1]) = Slice(s, p, q + 1)
  BY <1>3, SliceAppend
<1>6. Longer(e, c) = Slice(s, p, q + 1)
  BY <1>4, <1>5 DEF Longer
<1>7. Len(Slice(s, p, q + 1)) = q + 1 - p
  BY <1>3, SliceLen
<1>8. q + 1 - p \in 1 .. q + 1 - p
  BY <1>3
<1>9. Slice(s, p, q + 1)[q + 1 - p] = s[p + (q + 1 - p)]
  BY <1>3, <1>8, SliceElement
<1>10. p + (q + 1 - p) = q + 1
  OBVIOUS
<1>. QED
  BY <1>2, <1>4, <1>6, <1>7, <1>9, <1>10 DEF Reads, Last

\* A process that runs has its end open.
LEMMA OpenEnds ==
  ASSUME Sane, NEW c \in Clients
  PROVE  /\ at["client"][c] \in ClientRuns => IsOpen(holds, "client", c)
         /\ at["server"][c] \in ServerRuns => IsOpen(holds, "server", c)
         /\ at["client"][c] \in Talking => IsOpen(holds, "client", c)
<1>1. Role(c) /\ Ended \cap ServerRuns = {} /\ Talking \subseteq ClientRuns
  BY DEF Sane, Ended, ServerRuns, ClientRuns
<1>2. ASSUME at["server"][c] \in ServerRuns PROVE IsOpen(holds, "server", c)
  <2>1. CASE <<"child", c>> \in holds
    BY <2>1 DEF IsOpen
  <2>2. CASE listener = "serve" /\ accepted = c
    <3>1. c \in Pending /\ listener # "over"
      BY <2>2 DEF Pending, Accepted
    <3>2. <<"listener", c>> \in holds
      BY <1>1, <1>2, <3>1 DEF Role
    <3>. QED
      BY <3>2 DEF IsOpen
  <2>. QED
    BY <1>1, <1>2, <2>1, <2>2 DEF Role
<1>. QED
  BY <1>1, <1>2 DEF Role, IsOpen

\* The positions that Echoed speaks of are positions in the text.
LEMMA Positions ==
  ASSUME Sane, NEW c \in Clients, NEW a \in Nat, NEW b \in Nat, NEW d \in Nat, NEW e \in Nat,
         NEW f \in Nat, Echoed(c, a, b, d, e, f)
  PROVE  /\ a =< b /\ b =< d /\ d =< e /\ e =< f /\ f =< taken[c]
         /\ taken[c] \in Nat /\ taken[c] =< Len(input[c]) /\ Len(input[c]) \in Nat
         /\ f =< Len(input[c]) /\ e =< Len(input[c]) /\ d =< Len(input[c])
         /\ b =< Len(input[c]) /\ a =< Len(input[c])
<1>1. taken[c] \in 0 .. Len(input[c]) /\ Len(input[c]) \in Nat
  BY SmallFacts DEF Sane
<1>2. a =< b /\ b =< d /\ d =< e /\ e =< f /\ f =< taken[c]
  BY DEF Echoed
<1>. QED
  BY <1>1, <1>2

\* What is on its way to the server stays so while the client reads.
LEMMA ForthKept ==
  ASSUME UNCHANGED userVars, theServer' = theServer, NEW c \in Clients,
         NEW d, NEW e, NEW f, Forth(c, d, e, f),
         at'["server"][c] = at["server"][c], line'["server"][c] = line["server"][c],
         wire'["server"][c] = wire["server"][c], taken'[c] = taken[c],
         at["client"][c] # "write", at'["client"][c] # "write"
  PROVE  Forth(c, d, e, f)'
BY DEF Forth, userVars, Stops, Within

\* A client that prints what it has read, as far as m.
LEMMA ClientPrints ==
  ASSUME Sane, UNCHANGED userVars, NEW c \in Clients, Frame("client", c),
         at["client"][c] = "read",
         NEW a \in Nat, NEW b \in Nat, NEW d \in Nat, NEW e \in Nat, NEW f \in Nat,
         Echoed(c, a, b, d, e, f), taken'[c] = taken[c],
         NEW m \in Nat, a =< m, b =< m, m =< d,
         NEW l, l \in {Slice(input[c], a, m), Append(Slice(input[c], a, m), NUL)},
         Returned("client", c, l),
         wire'["client"][c] = Slice(input[c], m, d), wire'["server"][c] = wire["server"][c],
         m \in Stops(input[c]) \/ (wire'["client"][c] = <<>> /\ ~IsOpen(holds, "server", c))
  PROVE  Echoed(c, m, m, d, e, f)'
<1>. DEFINE s == input[c]
<1>0. /\ theServer' = theServer /\ input' = input /\ holds' = holds /\ "read" \in Talking
      /\ "client" \in Ends /\ "server" \in Ends /\ s \in Seq(Byte) /\ Len(s) \in Nat
  BY UsersFrame, SmallFacts DEF Sane, Shape, userVars, Frame, Talking, Ends
<1>1. m =< Len(s) /\ a \in 0 .. m /\ m \in 0 .. Len(s) /\ 0 \in 0 .. a
  BY Positions
<1>2. /\ printed'[c] = printed[c] \o Slice(l, 0, StrlenOf(l))
      /\ at'["client"][c] = "fgets" /\ line'["client"][c] = <<>>
  BY DEF Returned
<1>3. Slice(l, 0, StrlenOf(l)) = Slice(s, a, m)
  BY <1>1, Prints DEF Sane
<1>4. printed'[c] = Slice(s, 0, m)
  <2>1. Slice(s, 0, a) \o Slice(s, a, m) = Slice(s, 0, m)
    BY <1>0, <1>1, SliceConcat
  <2>. QED
    BY <1>2, <1>3, <2>1 DEF Echoed
<1>5. /\ at'["server"][c] = at["server"][c] /\ line'["server"][c] = line["server"][c]
  BY <1>0 DEF Frame
<1>6. Listens(c)' => Forth(c, d, e, f)'
  <2>. SUFFICES ASSUME Listens(c)' PROVE Forth(c, d, e, f)'
    OBVIOUS
  <2>1. Listens(c)
    BY <1>0, <1>5 DEF Listens
  <2>2. Forth(c, d, e, f)
    BY <1>0, <2>1 DEF Echoed
  <2>. QED
    BY <1>0, <1>2, <1>5, <2>2, ForthKept
<1>7. Back(c, m, m, d)'
  BY <1>0, <1>2 DEF Back, Stops
<1>8. m =< m /\ m =< d /\ d =< e /\ e =< f /\ f =< taken'[c]
  <2>1. d =< e /\ e =< f /\ f =< taken[c]
    BY Positions
  <2>. QED
    BY <2>1
<1>. QED
  BY <1>0, <1>4, <1>6, <1>7, <1>8 DEF Echoed

\* The client reads a byte: a line is printed at a newline only, as none is too long.
LEMMA ClientReads ==
  ASSUME Sane, UNCHANGED userVars, NEW c \in Clients, Frame("client", c),
         WellFormed(input[c]), Reading("client", c),
         NEW a \in Nat, NEW b \in Nat, NEW d \in Nat, NEW e \in Nat, NEW f \in Nat,
         Echoed(c, a, b, d, e, f)
  PROVE  \E m \in Nat, n \in Nat : Echoed(c, m, n, d, e, f)'
<1>. DEFINE s == input[c]
<1>0. /\ theServer' = theServer /\ input' = input /\ holds' = holds /\ "read" \in Talking
      /\ "client" \in Ends /\ "server" \in Ends /\ s \in Seq(Byte) /\ Len(s) \in Nat
  BY UsersFrame, SmallFacts DEF Sane, Shape, userVars, Frame, Talking, Ends
<1>1. /\ at["client"][c] = "read" /\ taken'[c] = taken[c]
      /\ ReadsByte("client", c) \/ ReadsEnd("client", c) \/ Fails("client", c)
  BY DEF Reading
<1>2. /\ wire["client"][c] = Slice(s, b, d) /\ line["client"][c] = Slice(s, a, b)
      /\ Within(s, a, b)
      /\ a \in Stops(s) \/ (wire["client"][c] = <<>> /\ ~IsOpen(holds, "server", c))
      /\ printed[c] = Slice(s, 0, a)
  BY <1>0, <1>1 DEF Echoed, Back
<1>3. /\ a =< b /\ b =< d /\ d =< e /\ e =< f /\ f =< taken[c] /\ taken[c] \in Nat
      /\ d =< Len(s) /\ b =< Len(s)
  BY Positions
<1>4. /\ at'["server"][c] = at["server"][c] /\ line'["server"][c] = line["server"][c]
  BY <1>0 DEF Frame
<1>5. CASE ReadsByte("client", c)
  <2>. DEFINE l == Longer("client", c)
  <2>1. /\ wire["client"][c] # <<>> /\ a \in Stops(s)
        /\ wire'["client"][c] = Tail(wire["client"][c])
        /\ wire'["server"][c] = wire["server"][c]
    BY <1>0, <1>2, <1>5 DEF ReadsByte
  <2>2. /\ b < d /\ l = Slice(s, a, b + 1) /\ Last(l) = s[b + 1]
        /\ Len(l) = b + 1 - a /\ Tail(wire["client"][c]) = Slice(s, b + 1, d)
    <3>. HIDE DEF s
    <3>1. Reads("client", c, s, a, b, d)
      BY <1>0, <1>2, <1>3, <2>1, NextByte
    <3>. QED
      BY <3>1 DEF Reads
  <2>3. a =< b + 1 /\ b =< b + 1 /\ b + 1 =< d /\ b < Len(s) /\ b + 1 \in Nat /\ b + 1 =< Len(s)
    BY <1>0, <1>3, <2>2
  <2>. HIDE DEF l, s
  <2>4. CASE Last(l) = Newline /\ Returned("client", c, l)
    <3>1. b + 1 \in Stops(s)
      BY <1>0, <2>2, <2>3, <2>4, StopHere
    <3>2. Echoed(c, b + 1, b + 1, d, e, f)'
      BY <1>1, <2>1, <2>2, <2>3, <2>4, <3>1, ClientPrints DEF s
    <3>. QED
      BY <2>3, <3>2
  <2>5. CASE Last(l) # Newline /\ Len(l) = Room
    <3>1. Within(s, a, b + 1)
      BY <1>2, <2>2, <2>5, WithinMore
    <3>2. (b + 1) - a = Room
      BY <2>2, <2>5
    <3>. QED
      BY <1>0, <2>1, <2>3, <3>1, <3>2, LongLine DEF s
  <2>6. CASE /\ Last(l) # Newline
             /\ at'["client"][c] = "read" /\ line'["client"][c] = l /\ printed'[c] = printed[c]
    <3>1. Within(s, a, b + 1)
      BY <1>2, <2>2, <2>6, WithinMore
    <3>2. Back(c, a, b + 1, d)'
      BY <1>0, <2>1, <2>2, <2>6, <3>1 DEF Back, s, Stops, Within
    <3>3. Listens(c)' => Forth(c, d, e, f)'
      <4>. SUFFICES ASSUME Listens(c)' PROVE Forth(c, d, e, f)'
        OBVIOUS
      <4>1. Listens(c)
        BY <1>0, <1>4 DEF Listens
      <4>2. Forth(c, d, e, f)
        BY <1>0, <1>1, <4>1 DEF Echoed
      <4>. QED
        BY <1>0, <1>1, <1>4, <2>1, <2>6, <4>2, ForthKept
    <3>4. Echoed(c, a, b + 1, d, e, f)'
      BY <1>0, <1>1, <1>2, <1>3, <2>3, <2>6, <3>2, <3>3 DEF Echoed, s
    <3>. QED
      BY <2>3, <3>4
  <2>. QED
    BY <1>5, <2>4, <2>5, <2>6 DEF ReadsByte, l
<1>6. CASE ReadsEnd("client", c)
  <2>. DEFINE l == IF line["client"][c] = <<>> THEN <<>> ELSE Append(line["client"][c], NUL)
  <2>1. /\ Returned("client", c, l) /\ wire["client"][c] = <<>> /\ ~IsOpen(holds, "server", c)
        /\ wire'["client"][c] = wire["client"][c] /\ wire'["server"][c] = wire["server"][c]
    BY <1>0, <1>6 DEF ReadsEnd, NoMore, Other
  <2>2. l \in {Slice(s, a, b), Append(Slice(s, a, b), NUL)}
    BY <1>2
  <2>. HIDE DEF l
  <2>3. /\ wire'["client"][c] = Slice(s, b, d) /\ wire'["client"][c] = <<>>
        /\ b =< b
    BY <1>2, <2>1
  <2>4. Echoed(c, b, b, d, e, f)'
    BY <1>1, <1>3, <2>1, <2>2, <2>3, ClientPrints
  <2>. QED
    BY <2>4
<1>7. CASE Fails("client", c)
  <2>1. at'["client"][c] \notin Talking /\ printed'[c] = printed[c]
    BY <1>7 DEF Fails, Talking
  <2>2. Echoed(c, a, b, d, e, f)'
    BY <1>0, <1>1, <1>2, <1>3, <2>1 DEF Echoed
  <2>. QED
    BY <2>2
<1>. QED
  BY <1>1, <1>5, <1>6, <1>7

\* What the server does to its own end leaves the way back as it is.
LEMMA BackKept ==
  ASSUME UNCHANGED userVars, NEW c \in Clients, NEW a, NEW b, NEW d, Back(c, a, b, d),
         at'["client"][c] = at["client"][c], line'["client"][c] = line["client"][c],
         wire'["client"][c] = wire["client"][c],
         IsOpen(holds', "server", c) => IsOpen(holds, "server", c)
  PROVE  Back(c, a, b, d)'
BY DEF Back, userVars, Stops, Within

\* Of a client that has ended, or that a step leaves alone, nothing is said but what it has
\* printed.
LEMMA NotTalking ==
  ASSUME UNCHANGED userVars, NEW c \in Clients,
         NEW a, NEW b, NEW d, NEW e, NEW f, Echoed(c, a, b, d, e, f),
         at'["client"][c] \notin Talking, printed'[c] = printed[c], taken'[c] = taken[c]
  PROVE  Echoed(c, a, b, d, e, f)'
BY DEF Echoed, userVars

\* A step of the server changes neither what the client has read nor where it is.
LEMMA ServerMoves ==
  ASSUME UNCHANGED userVars, NEW c \in Clients, Frame("server", c),
         printed'[c] = printed[c], taken'[c] = taken[c],
         NEW a \in Nat, NEW b \in Nat, NEW d \in Nat, NEW e \in Nat, NEW f \in Nat,
         a =< b, b =< d, d =< e, e =< f, f =< taken[c],
         printed[c] = Slice(input[c], 0, a), Back(c, a, b, d)',
         Listens(c)' => Forth(c, d, e, f)'
  PROVE  Echoed(c, a, b, d, e, f)'
BY DEF Echoed, userVars

\* The server reads a byte, and a line at a newline only.
LEMMA ServerReads ==
  ASSUME Sane, UNCHANGED userVars, NEW c \in Clients, Frame("server", c),
         WellFormed(input[c]), Echoes, Reading("server", c), at["client"][c] \in Talking,
         NEW a \in Nat, NEW b \in Nat, NEW d \in Nat, NEW e \in Nat, NEW f \in Nat,
         Echoed(c, a, b, d, e, f)
  PROVE  \E n \in Nat : Echoed(c, a, b, d, n, f)'
<1>. DEFINE s == input[c]
<1>0. /\ theServer' = theServer /\ input' = input /\ holds' = holds
      /\ "client" \in Ends /\ "server" \in Ends /\ s \in Seq(Byte) /\ Len(s) \in Nat
      /\ "read" \in ServerRuns
  BY UsersFrame, SmallFacts DEF Sane, Shape, userVars, Frame, ServerRuns, Ends
<1>1. /\ at["server"][c] = "read" /\ taken'[c] = taken[c]
      /\ IsOpen(holds, "client", c) /\ IsOpen(holds, "server", c)
  BY <1>0, OpenEnds DEF Reading
<1>2. Back(c, a, b, d) /\ Forth(c, d, e, f) /\ printed[c] = Slice(s, 0, a)
  <2>1. Listens(c)
    BY <1>1 DEF Listens
  <2>. QED
    BY <2>1 DEF Echoed
<1>3. /\ a =< b /\ b =< d /\ d =< e /\ e =< f /\ f =< taken[c] /\ taken[c] \in Nat
      /\ f =< Len(s) /\ e =< Len(s)
  BY Positions
<1>4. /\ at'["client"][c] = at["client"][c] /\ line'["client"][c] = line["client"][c]
  BY <1>0 DEF Frame
<1>5. ReadsByte("server", c)
  BY <1>0, <1>1 DEF Reading, ReadsEnd, Fails, NoMore, Other
<1>6. /\ wire["server"][c] = Slice(s, e, f) /\ line["server"][c] = Slice(s, d, e)
      /\ d \in Stops(s) /\ Within(s, d, e)
      /\ IF at["client"][c] = "write" THEN line["client"][c] = Slice(s, f, taken[c])
         ELSE f = taken[c]
  BY <1>1, <1>2 DEF Forth
<1>7. /\ wire["server"][c] # <<>> /\ wire'["server"][c] = Tail(wire["server"][c])
      /\ wire'["client"][c] = wire["client"][c]
  BY <1>0, <1>5 DEF ReadsByte
<1>. DEFINE l == Longer("server", c)
<1>8. /\ e < f /\ l = Slice(s, d, e + 1) /\ Last(l) = s[e + 1]
      /\ Len(l) = e + 1 - d /\ Tail(wire["server"][c]) = Slice(s, e + 1, f)
  <2>. HIDE DEF s
  <2>1. Reads("server", c, s, d, e, f)
    BY <1>0, <1>3, <1>6, <1>7, NextByte
  <2>. QED
    BY <2>1 DEF Reads
<1>9. Back(c, a, b, d)'
  BY <1>0, <1>2, <1>4, <1>7, BackKept
<1>10. /\ d =< e + 1 /\ e + 1 =< f /\ e + 1 \in Nat /\ e < Len(s) /\ e + 1 =< Len(s)
  BY <1>0, <1>3, <1>8
<1>. HIDE DEF l, s
<1>11. CASE Last(l) = Newline /\ Returned("server", c, l)
  <2>1. /\ printed'[c] = printed[c] /\ at'["server"][c] \in {"return", "write"}
        /\ line'["server"][c] = IF at'["server"][c] = "write" THEN l ELSE <<>>
    BY <1>11 DEF Returned, Echoes
  <2>2. CASE at'["server"][c] = "return"
    <3>1. ~Listens(c)'
      BY <2>2 DEF Listens
    <3>2. Echoed(c, a, b, d, e, f)'
      BY <1>1, <1>2, <1>3, <1>9, <2>1, <3>1, ServerMoves DEF s
    <3>. QED
      BY <3>2
  <2>3. CASE at'["server"][c] = "write"
    <3>1. e + 1 \in Stops(s)
      BY <1>0, <1>8, <1>10, <1>11, StopHere
    <3>2. Forth(c, d, e + 1, f)'
      BY <1>0, <1>1, <1>4, <1>6, <1>7, <1>8, <2>1, <2>3, <3>1 DEF Forth, s, Stops, Within
    <3>3. Echoed(c, a, b, d, e + 1, f)'
      BY <1>1, <1>2, <1>3, <1>9, <1>10, <2>1, <3>2, ServerMoves DEF s
    <3>. QED
      BY <1>10, <3>3
  <2>. QED
    BY <2>1, <2>2, <2>3
<1>12. CASE Last(l) # Newline /\ Len(l) = Room
  <2>1. Within(s, d, e + 1)
    BY <1>6, <1>8, <1>12, WithinMore
  <2>2. (e + 1) - d = Room
    BY <1>8, <1>12
  <2>. QED
    BY <1>0, <1>6, <1>10, <2>1, <2>2, LongLine DEF s
<1>13. CASE /\ Last(l) # Newline
            /\ at'["server"][c] = "read" /\ line'["server"][c] = l /\ printed'[c] = printed[c]
  <2>1. Within(s, d, e + 1)
    BY <1>6, <1>8, <1>13, WithinMore
  <2>2. Forth(c, d, e + 1, f)'
    BY <1>0, <1>1, <1>4, <1>6, <1>7, <1>8, <1>13, <2>1 DEF Forth, s, Stops, Within
  <2>3. Echoed(c, a, b, d, e + 1, f)'
    BY <1>1, <1>2, <1>3, <1>9, <1>10, <1>13, <2>2, ServerMoves DEF s
  <2>. QED
    BY <1>10, <2>3
<1>. QED
  BY <1>5, <1>11, <1>12, <1>13 DEF ReadsByte, l

\* A part of the line that is written, and what is left of it.
Pieces(s, p, q, l, n) ==
  /\ n =< q - p /\ Len(l) = q - p
  /\ Slice(l, 0, n) = Slice(s, p, p + n)
  /\ Slice(l, n, Len(l)) = Slice(s, p + n, q)

\* A write cuts the line that is left in two.
LEMMA Piece ==
  ASSUME NEW S, NEW s \in Seq(S), NEW p \in Nat, NEW q \in Nat, p =< q, q =< Len(s),
         NEW l, l = Slice(s, p, q), NEW n \in 1 .. Len(l)
  PROVE  Pieces(s, p, q, l, n)
<1>0. Len(s) \in Nat
  BY LenProperties
<1>1. q \in 0 .. Len(s) /\ p \in 0 .. q
  BY <1>0
<1>2. Len(l) = q - p
  BY <1>1, SliceLen
<1>3. n \in 0 .. q - p /\ 0 \in 0 .. n /\ q - p \in 0 .. q - p /\ n \in 0 .. q - p
  BY <1>1, <1>2
<1>4. Slice(Slice(s, p, q), 0, n) = Slice(s, p + 0, p + n)
  BY <1>1, <1>3, SliceOfSlice
<1>5. Slice(Slice(s, p, q), n, q - p) = Slice(s, p + n, p + (q - p))
  BY <1>1, <1>3, SliceOfSlice
<1>6. p + 0 = p /\ p + (q - p) = q
  OBVIOUS
<1>. QED
  BY <1>2, <1>3, <1>4, <1>5, <1>6 DEF Pieces

\* The server writes some of its line.
LEMMA ServerWrites ==
  ASSUME Sane, UNCHANGED userVars, NEW c \in Clients, Frame("server", c),
         Writing("server", c), at["client"][c] \in Talking,
         NEW a \in Nat, NEW b \in Nat, NEW d \in Nat, NEW e \in Nat, NEW f \in Nat,
         Echoed(c, a, b, d, e, f)
  PROVE  \E m \in Nat : Echoed(c, a, b, m, e, f)'
<1>. DEFINE s == input[c]
            l == line["server"][c]
<1>0. /\ theServer' = theServer /\ input' = input /\ holds' = holds
      /\ "client" \in Ends /\ "server" \in Ends /\ s \in Seq(Byte) /\ Len(s) \in Nat
      /\ "write" \in ServerRuns /\ Other("server") = "client"
  BY UsersFrame, SmallFacts DEF Sane, Shape, userVars, Frame, ServerRuns, Ends, Other
<1>1. /\ at["server"][c] = "write" /\ taken'[c] = taken[c] /\ printed'[c] = printed[c]
      /\ IsOpen(holds, "client", c) /\ IsOpen(holds, "server", c)
  BY <1>0, OpenEnds DEF Writing
<1>2. Back(c, a, b, d) /\ Forth(c, d, e, f) /\ printed[c] = Slice(s, 0, a)
  <2>1. Listens(c)
    BY <1>1 DEF Listens
  <2>. QED
    BY <2>1 DEF Echoed
<1>3. /\ a =< b /\ b =< d /\ d =< e /\ e =< f /\ f =< taken[c] /\ taken[c] \in Nat
      /\ f =< Len(s) /\ e =< Len(s)
  BY Positions
<1>4. /\ at'["client"][c] = at["client"][c] /\ line'["client"][c] = line["client"][c]
  BY <1>0 DEF Frame
<1>5. PICK n \in 1 .. Len(l) :
        /\ line'["server"][c] = Slice(l, n, Len(l))
        /\ wire'["client"][c] = wire["client"][c] \o Slice(l, 0, n)
        /\ at'["server"][c] = IF n < Len(l) THEN "write" ELSE "read"
        /\ wire'["server"][c] = wire["server"][c]
  BY <1>0, <1>1 DEF Writing, Sends
<1>6. /\ wire["server"][c] = Slice(s, e, f) /\ l = Slice(s, d, e) /\ e \in Stops(s)
      /\ IF at["client"][c] = "write" THEN line["client"][c] = Slice(s, f, taken[c])
         ELSE f = taken[c]
  BY <1>1, <1>2 DEF Forth
<1>. HIDE DEF s, l
<1>7. /\ n =< e - d /\ Len(l) = e - d
      /\ Slice(l, 0, n) = Slice(s, d, d + n)
      /\ Slice(l, n, Len(l)) = Slice(s, d + n, e)
  <2>1. Pieces(s, d, e, l, n)
    BY <1>0, <1>3, <1>6, Piece
  <2>. QED
    BY <2>1 DEF Pieces
<1>8. d + n \in Nat /\ d + n =< e /\ b =< d + n /\ d + n =< Len(s)
      /\ d + n \in 0 .. Len(s) /\ d \in 0 .. d + n /\ b \in 0 .. d
  BY <1>0, <1>3, <1>7
<1>9. wire'["client"][c] = Slice(s, b, d + n)
  <2>1. Slice(s, b, d) \o Slice(s, d, d + n) = Slice(s, b, d + n)
    BY <1>0, <1>8, SliceConcat
  <2>. QED
    BY <1>2, <1>5, <1>7, <2>1 DEF Back, s
<1>10. Back(c, a, b, d + n)'
  BY <1>0, <1>1, <1>2, <1>4, <1>9 DEF Back, s, Stops, Within
<1>11. Forth(c, d + n, e, f)'
  <2>1. line'["server"][c] = Slice(s, d + n, e)
    BY <1>5, <1>7
  <2>2. CASE at'["server"][c] = "write"
    BY <1>0, <1>1, <1>4, <1>5, <1>6, <2>1, <2>2 DEF Forth, s, Stops
  <2>3. CASE at'["server"][c] = "read"
    <3>1. d + n = e
      BY <1>5, <1>7, <1>3, <2>3
    <3>2. d + n \in Stops(s) /\ Within(s, d + n, e)
      BY <1>6, <3>1, WithinNone
    <3>. QED
      BY <1>0, <1>1, <1>4, <1>5, <1>6, <2>1, <2>3, <3>2 DEF Forth, s, Stops, Within
  <2>. QED
    BY <1>5, <2>2, <2>3
<1>12. Echoed(c, a, b, d + n, e, f)'
  BY <1>1, <1>2, <1>3, <1>8, <1>10, <1>11, ServerMoves DEF s
<1>. QED
  BY <1>8, <1>12

\* A step of the client that prints nothing.
LEMMA ClientMoves ==
  ASSUME UNCHANGED userVars, NEW c \in Clients, printed'[c] = printed[c],
         NEW a \in Nat, NEW b \in Nat, NEW d \in Nat, NEW e \in Nat, NEW f \in Nat,
         a =< b, b =< d, d =< e, e =< f, f =< taken'[c],
         printed[c] = Slice(input[c], 0, a), Back(c, a, b, d)',
         Listens(c)' => Forth(c, d, e, f)'
  PROVE  Echoed(c, a, b, d, e, f)'
BY DEF Echoed, userVars

\* The client writes some of its line.
LEMMA ClientWrites ==
  ASSUME Sane, UNCHANGED userVars, NEW c \in Clients, Frame("client", c), Echoes,
         Writing("client", c),
         NEW a \in Nat, NEW b \in Nat, NEW d \in Nat, NEW e \in Nat, NEW f \in Nat,
         Echoed(c, a, b, d, e, f)
  PROVE  \E m \in Nat : Echoed(c, a, b, d, e, m)'
<1>. DEFINE s == input[c]
            l == line["client"][c]
            t == taken[c]
<1>0. /\ theServer' = theServer /\ input' = input /\ holds' = holds
      /\ "client" \in Ends /\ "server" \in Ends /\ s \in Seq(Byte) /\ Len(s) \in Nat
      /\ "write" \in Talking /\ Other("client") = "server"
      /\ l \in Seq(Byte) /\ Len(l) \in Nat
  BY UsersFrame, SmallFacts DEF Sane, Shape, userVars, Frame, Talking, Ends, Other
<1>1. at["client"][c] = "write" /\ taken'[c] = t /\ printed'[c] = printed[c]
  BY DEF Writing
<1>2. Back(c, a, b, d) /\ printed[c] = Slice(s, 0, a) /\ a = b
  BY <1>0, <1>1 DEF Echoed, Back
<1>3. /\ a =< b /\ b =< d /\ d =< e /\ e =< f /\ f =< t /\ t \in Nat
      /\ t =< Len(s) /\ f =< Len(s) /\ a =< Len(s)
  BY Positions
<1>4. /\ at'["server"][c] = at["server"][c] /\ line'["server"][c] = line["server"][c]
  BY <1>0 DEF Frame
<1>5. theClient.then = "read"
  BY PairsFacts DEF Sane, Shape, Users, Echoes
<1>6. PICK n \in 1 .. Len(l) :
        /\ line'["client"][c] = Slice(l, n, Len(l))
        /\ Sends("client", c, Slice(l, 0, n), IF n < Len(l) THEN "write" ELSE "read")
  BY <1>5 DEF Writing
<1>7. /\ wire'["client"][c] = wire["client"][c]
      /\ at'["client"][c] \in {IF n < Len(l) THEN "write" ELSE "read", "fail"}
  BY <1>6 DEF Sends
<1>. HIDE DEF s, l, t
<1>8. CASE at'["client"][c] = "fail"
  <2>1. Echoed(c, a, b, d, e, f)'
    BY <1>1, <1>8, NotTalking DEF t, Talking
  <2>. QED
    BY <2>1
<1>9. ASSUME at'["client"][c] # "fail"
      PROVE  Back(c, a, b, d)'
  <2>1. CASE n < Len(l)
    BY <1>0, <1>1, <1>2, <1>7, <1>9, <2>1 DEF Back, s, Stops
  <2>2. CASE n = Len(l)
    <3>1. at'["client"][c] = "read"
      BY <1>0, <1>7, <1>9, <2>2
    <3>2. line'["client"][c] = <<>>
      <4>1. Len(l) \in 0 .. Len(l)
        BY <1>0
      <4>2. Slice(l, Len(l), Len(l)) = <<>>
        BY <1>0, <4>1, SliceEmpty
      <4>. QED
        BY <1>6, <2>2, <4>2
    <3>3. Slice(s, a, a) = <<>>
      <4>1. a \in 0 .. Len(s) /\ a \in 0 .. a
        BY <1>3, <1>0
      <4>. QED
        BY <1>0, <4>1, SliceEmpty
    <3>4. Within(s, a, a)
      BY WithinNone
    <3>. QED
      BY <1>0, <1>1, <1>2, <1>7, <3>1, <3>2, <3>3, <3>4 DEF Back, s, Stops, Within
  <2>. QED
    BY <1>0, <2>1, <2>2
<1>10. CASE at'["client"][c] # "fail" /\ ~Listens(c)
  <2>1. ~Listens(c)'
    BY <1>0, <1>4, <1>10 DEF Listens
  <2>2. Echoed(c, a, b, d, e, f)'
    BY <1>1, <1>2, <1>3, <1>9, <1>10, <2>1, ClientMoves DEF s, t
  <2>. QED
    BY <2>2
<1>11. CASE at'["client"][c] # "fail" /\ Listens(c)
  <2>1. Forth(c, d, e, f)
    BY <1>0, <1>1, <1>11 DEF Echoed
  <2>2. wire["server"][c] = Slice(s, e, f) /\ l = Slice(s, f, t)
    BY <1>1, <2>1 DEF Forth, s, l, t
  <2>3. wire'["server"][c] = wire["server"][c] \o Slice(l, 0, n)
    BY <1>0, <1>6, <1>11 DEF Sends, Listens
  <2>4. /\ n =< t - f /\ Len(l) = t - f
        /\ Slice(l, 0, n) = Slice(s, f, f + n)
        /\ Slice(l, n, Len(l)) = Slice(s, f + n, t)
    <3>1. s \in Seq(Byte) /\ f \in Nat /\ t \in Nat /\ f =< t /\ t =< Len(s)
      BY <1>0, <1>3
    <3>2. n \in 1 .. Len(l) /\ l = Slice(s, f, t)
      BY <2>2
    <3>3. Pieces(s, f, t, l, n)
      BY <3>1, <3>2, Piece
    <3>. QED
      BY <3>3 DEF Pieces
  <2>5. f + n \in Nat /\ f + n =< t /\ e =< f + n /\ f + n \in 0 .. Len(s)
        /\ f \in 0 .. f + n /\ e \in 0 .. f
    BY <1>0, <1>3, <2>4
  <2>6. Slice(s, e, f) \o Slice(s, f, f + n) = Slice(s, e, f + n)
    BY <1>0, <2>5, SliceConcat
  <2>7. wire'["server"][c] = Slice(s, e, f + n)
    BY <2>2, <2>3, <2>4, <2>6
  <2>8. line'["client"][c] = Slice(s, f + n, t)
    BY <1>6, <2>4
  <2>9. IF at'["client"][c] = "write" THEN line'["client"][c] = Slice(s, f + n, t)
        ELSE f + n = t
    BY <1>3, <1>7, <1>11, <2>4, <2>8
  <2>10. Forth(c, d, e, f + n)'
    BY <1>0, <1>1, <1>4, <2>1, <2>7, <2>9 DEF Forth, s, t, Stops, Within
  <2>11. Echoed(c, a, b, d, e, f + n)'
    BY <1>1, <1>2, <1>3, <1>9, <1>11, <2>5, <2>10, ClientMoves DEF s, t
  <2>. QED
    BY <2>5, <2>11
<1>. QED
  BY <1>8, <1>10, <1>11

\* The client has the next line in its buffer.
LEMMA ClientFetches ==
  ASSUME Sane, UNCHANGED userVars, NEW c \in Clients, Frame("client", c), Fetching(c),
         NEW a \in Nat, NEW b \in Nat, NEW d \in Nat, NEW e \in Nat, NEW f \in Nat,
         Echoed(c, a, b, d, e, f)
  PROVE  Echoed(c, a, b, d, e, f)'
<1>. DEFINE s == input[c]
            t == taken[c]
<1>0. /\ theServer' = theServer /\ input' = input /\ holds' = holds
      /\ "client" \in Ends /\ "server" \in Ends /\ s \in Seq(Byte) /\ Len(s) \in Nat
      /\ "fgets" \in Talking
  BY UsersFrame, SmallFacts DEF Sane, Shape, userVars, Frame, Talking, Ends
<1>1. /\ at["client"][c] = "fgets" /\ printed'[c] = printed[c]
      /\ wire'["client"][c] = wire["client"][c] /\ wire'["server"][c] = wire["server"][c]
  BY <1>0 DEF Fetching
<1>2. Back(c, a, b, d) /\ printed[c] = Slice(s, 0, a) /\ a = b
  BY <1>0, <1>1 DEF Echoed, Back
<1>3. /\ a =< b /\ b =< d /\ d =< e /\ e =< f /\ f =< t /\ t \in Nat
  BY Positions
<1>4. /\ at'["server"][c] = at["server"][c] /\ line'["server"][c] = line["server"][c]
  BY <1>0 DEF Frame
<1>5. CASE at'["client"][c] = "return" /\ taken'[c] = t
  BY <1>1, <1>5, NotTalking DEF Talking
<1>6. ASSUME NEW n \in 1 .. Len(s) - t, at'["client"][c] = "write",
             line'["client"][c] = Slice(s, t, t + n), taken'[c] = t + n
      PROVE  Echoed(c, a, b, d, e, f)'
  <2>. HIDE DEF s, t
  <2>1. Back(c, a, b, d)'
    BY <1>0, <1>1, <1>2, <1>6 DEF Back, s, Stops
  <2>2. ASSUME Listens(c)' PROVE Forth(c, d, e, f)'
    <3>1. Forth(c, d, e, f)
      BY <1>0, <1>1, <1>4, <2>2 DEF Echoed, Listens
    <3>2. f = t
      BY <1>1, <3>1 DEF Forth, t
    <3>. QED
      BY <1>0, <1>1, <1>4, <1>6, <3>1, <3>2 DEF Forth, s, t, Stops, Within
  <2>3. f =< taken'[c]
    BY <1>0, <1>3, <1>6
  <2>. QED
    BY <1>1, <1>2, <1>3, <2>1, <2>2, <2>3, ClientMoves DEF s, t
<1>. QED
  BY <1>5, <1>6 DEF Fetching

\* An end is closed, or nothing happens: what had arrived there is lost, the rest in order.
LEMMA EchoedSettles ==
  ASSUME Sane, UNCHANGED userVars, NEW c \in Clients, Role(c)', Settles(c),
         NEW a \in Nat, NEW b \in Nat, NEW d \in Nat, NEW e \in Nat, NEW f \in Nat,
         Echoed(c, a, b, d, e, f)
  PROVE  Echoed(c, a, b, d, e, f)'
<1>0. /\ theServer' = theServer /\ input' = input /\ "client" \in Ends /\ "server" \in Ends
      /\ Ended \cap Talking = {} /\ Talking \subseteq ClientRuns
      /\ Ended \cap {"none", "header", "version", "protocol", "read", "write"} = {}
  BY UsersFrame DEF Sane, Shape, userVars, Ends, Talking, ClientRuns, Ended
<1>1. printed'[c] = printed[c] /\ taken'[c] = taken[c]
  BY DEF Settles
<1>2. CASE at'["client"][c] \notin Talking
  BY <1>1, <1>2, NotTalking
<1>3. CASE at'["client"][c] \in Talking
  <2>1. at["client"][c] = at'["client"][c]
    BY <1>0, <1>3 DEF Settles
  <2>2. IsOpen(holds', "client", c)
    BY <1>0, <1>3 DEF Role, IsOpen
  <2>3. /\ wire'["client"][c] = wire["client"][c]
        /\ line'["client"][c] = line["client"][c] /\ line'["server"][c] = line["server"][c]
        /\ IsOpen(holds', "server", c) => IsOpen(holds, "server", c)
        /\ IsOpen(holds', "server", c) => wire'["server"][c] = wire["server"][c]
    BY <1>0, <2>2 DEF Settles
  <2>4. Back(c, a, b, d)'
    BY <1>3, <2>1, <2>3, BackKept DEF Echoed
  <2>5. ASSUME Listens(c)' PROVE Forth(c, d, e, f)'
    <3>1. at'["server"][c] = at["server"][c] /\ IsOpen(holds', "server", c)
      BY <1>0, <2>5 DEF Settles, Listens
    <3>2. Listens(c)
      BY <2>3, <2>5, <3>1 DEF Listens
    <3>3. Forth(c, d, e, f)
      BY <1>3, <2>1, <3>2 DEF Echoed
    <3>. QED
      BY <1>0, <1>1, <2>1, <2>3, <3>1, <3>3 DEF Forth, Stops, Within
  <2>6. /\ a =< b /\ b =< d /\ d =< e /\ e =< f /\ f =< taken'[c]
        /\ printed[c] = Slice(input[c], 0, a)
    BY <1>1 DEF Echoed
  <2>. QED
    BY <1>1, <2>4, <2>5, <2>6, ClientMoves
<1>. QED
  BY <1>2, <1>3

\* The server begins with what has arrived.
LEMMA EchoedStarts ==
  ASSUME Sane, UNCHANGED userVars, NEW c \in Clients, Place(c), Echoes, Starts(c),
         NEW a \in Nat, NEW b \in Nat, NEW d \in Nat, NEW e \in Nat, NEW f \in Nat,
         Echoed(c, a, b, d, e, f)
  PROVE  Echoed(c, a, b, d, e, f)'
<1>. DEFINE s == input[c]
<1>0. /\ theServer' = theServer /\ input' = input /\ "client" \in Ends /\ "server" \in Ends
      /\ s \in Seq(Byte) /\ Len(s) \in Nat
  BY UsersFrame, SmallFacts DEF Sane, Shape, userVars, Ends
<1>1. /\ printed'[c] = printed[c] /\ taken'[c] = taken[c]
      /\ at'["client"][c] = at["client"][c]
      /\ line'["client"][c] = line["client"][c] /\ wire'["client"][c] = wire["client"][c]
      /\ line'["server"][c] = line["server"][c] /\ wire'["server"][c] = wire["server"][c]
      /\ IsOpen(holds', "server", c) <=> IsOpen(holds, "server", c)
  BY <1>0 DEF Starts
<1>2. CASE at["client"][c] \notin Talking
  BY <1>1, <1>2, NotTalking
<1>3. CASE at["client"][c] \in Talking
  <2>1. Back(c, a, b, d)'
    BY <1>1, <1>3, BackKept DEF Echoed
  <2>2. Forth(c, d, e, f)'
    <3>1. at["server"][c] = "none" /\ Listens(c) /\ at'["server"][c] = Begins
      BY DEF Starts, Listens
    <3>2. Forth(c, d, e, f)
      BY <1>3, <3>1 DEF Echoed
    <3>3. d = 0 /\ theServer.service # "header" /\ line["server"][c] = Slice(s, d, e)
      BY <3>1, <3>2 DEF Forth
    <3>4. Begins = "read"
      BY <3>3 DEF Begins, Echoes
    <3>5. line["server"][c] = <<>>
      BY <1>0, <3>1 DEF Place, Placed, Quiet
    <3>6. d = e
      <4>1. d =< e /\ e =< Len(s)
        BY Positions
      <4>. HIDE DEF s
      <4>2. e \in 0 .. Len(s) /\ d \in 0 .. e
        BY <1>0, <4>1
      <4>. QED
        BY <1>0, <3>3, <3>5, <4>2, SliceEmpty
    <3>7. d \in Stops(s) /\ Within(s, d, e)
      BY <3>3, <3>6, WithinNone DEF Stops
    <3>. QED
      BY <1>0, <1>1, <3>1, <3>2, <3>4, <3>7 DEF Forth, Stops, Within
  <2>3. /\ a =< b /\ b =< d /\ d =< e /\ e =< f /\ f =< taken'[c]
        /\ printed[c] = Slice(s, 0, a)
    BY <1>1 DEF Echoed
  <2>. QED
    BY <1>1, <2>1, <2>2, <2>3, ClientMoves
<1>. QED
  BY <1>2, <1>3

\* The first line is yet to be read.
LEMMA EchoedNothing ==
  ASSUME Sane, UNCHANGED userVars, NEW c \in Clients,
         taken[c] = 0, taken'[c] = 0, printed[c] = <<>>, printed'[c] = <<>>,
         at'["client"][c] \in Talking =>
           /\ at'["client"][c] = "fgets"
           /\ wire'["client"][c] = <<>>
           /\ Listens(c)' => /\ at'["server"][c] \in {"none", "read"}
                             /\ at'["server"][c] = "none" => theServer.service # "header"
                             /\ line'["server"][c] = <<>> /\ wire'["server"][c] = <<>>
  PROVE  Echoed(c, 0, 0, 0, 0, 0)'
<1>. DEFINE s == input[c]
<1>0. /\ theServer' = theServer /\ input' = input
      /\ s \in Seq(Byte) /\ Len(s) \in Nat
  BY UsersFrame, SmallFacts DEF Sane, Shape, userVars
<1>1. Slice(s, 0, 0) = <<>>
  <2>1. 0 \in 0 .. Len(s) /\ 0 \in 0 .. 0
    BY <1>0
  <2>. HIDE DEF s
  <2>. QED
    BY <1>0, <2>1, SliceEmpty
<1>2. 0 \in Stops(s) /\ Within(s, 0, 0)
  BY WithinNone DEF Stops
<1>3. CASE at'["client"][c] \notin Talking
  BY <1>0, <1>1, <1>3 DEF Echoed
<1>4. CASE at'["client"][c] \in Talking
  <2>1. Back(c, 0, 0, 0)'
    BY <1>0, <1>1, <1>2, <1>4 DEF Back, Stops
  <2>2. Listens(c)' => Forth(c, 0, 0, 0)'
    BY <1>0, <1>1, <1>2, <1>4 DEF Forth, Stops, Within
  <2>. QED
    BY <1>0, <1>1, <2>1, <2>2 DEF Echoed
<1>. QED
  BY <1>3, <1>4

\* A new connection is empty.
LEMMA EchoedConnects ==
  ASSUME Sane, UNCHANGED userVars, NEW c \in Clients, Place(c), Greets(c), Connects(c)
  PROVE  Echoed(c, 0, 0, 0, 0, 0)'
<1>0. "client" \in Ends /\ "server" \in Ends
  BY DEF Ends
<1>1. /\ at["client"][c] = "connect" /\ at'["client"][c] = theClient.first
      /\ at["server"][c] = "none" /\ at'["server"][c] = "none"
      /\ printed'[c] = printed[c] /\ taken'[c] = taken[c]
      /\ wire'["client"][c] = wire["client"][c] /\ wire'["server"][c] = wire["server"][c]
      /\ line'["server"][c] = line["server"][c]
  BY <1>0 DEF Connects
<1>2. /\ taken[c] = 0 /\ printed[c] = <<>>
      /\ wire["client"][c] = <<>> /\ wire["server"][c] = <<>>
  BY <1>1 DEF Greets
<1>3. line["server"][c] = <<>>
  BY <1>0, <1>1 DEF Place, Placed, Quiet
<1>4. at'["client"][c] \in Talking =>
        at'["client"][c] = "fgets" /\ theServer.service # "header"
  BY <1>1, PairsFacts DEF Sane, Shape, Users, Talking
<1>. QED
  BY <1>1, <1>2, <1>3, <1>4, EchoedNothing

\* An end is closed before the first line, or nothing happens.
LEMMA GreetsSettles ==
  ASSUME Sane, UNCHANGED userVars, NEW c \in Clients, Role(c)', Settles(c), Greets(c)
  PROVE  Greets(c)'
<1>0. /\ "client" \in Ends /\ "server" \in Ends
      /\ Ended \cap (Greeting \cup {"connect"}) = {} /\ Greeting \subseteq ClientRuns
      /\ Ended \cap {"none", "header", "version", "protocol", "read", "write"} = {}
      /\ Ended \cap {"version", "protocol", "read", "write", "return", "fail"} = {}
      /\ {"version", "protocol"} \subseteq Greeting /\ {"writev"} \subseteq Greeting
  BY DEF Ends, Greeting, ClientRuns, Ended
<1>1. CASE at'["client"][c] \notin Greeting \cup {"connect"}
  BY <1>0, <1>1 DEF Greets
<1>2. CASE at'["client"][c] \in Greeting \cup {"connect"}
  <2>1. at["client"][c] = at'["client"][c]
    BY <1>0, <1>2 DEF Settles
  <2>2. /\ taken'[c] = taken[c] /\ printed'[c] = printed[c]
        /\ line'["server"][c] = line["server"][c]
        /\ wire'["client"][c] \in {wire["client"][c], <<>>}
        /\ wire'["server"][c] \in {wire["server"][c], <<>>}
        /\ at'["server"][c] = at["server"][c] \/ at'["server"][c] \in Ended
        /\ IsOpen(holds', "server", c) =>
             IsOpen(holds, "server", c) /\ wire'["server"][c] = wire["server"][c]
        /\ IsOpen(holds', "client", c) => wire'["client"][c] = wire["client"][c]
    BY <1>0 DEF Settles
  <2>3. CASE at'["client"][c] \in {"writev", "connect"}
    BY <1>0, <1>2, <2>1, <2>2, <2>3 DEF Greets
  <2>4. CASE at'["client"][c] \in {"version", "protocol"}
    <3>1. wire'["client"][c] = wire["client"][c]
      BY <1>0, <2>2, <2>4 DEF Role, IsOpen
    <3>2. Seen(c)' = Seen(c)
      BY <2>1, <3>1 DEF Seen
    <3>3. ASSUME Listens(c)'
          PROVE  /\ Listens(c) /\ Answered(c)' = Answered(c)
                 /\ at'["server"][c] = at["server"][c]
                 /\ wire'["server"][c] = wire["server"][c]
      BY <1>0, <2>2, <3>3 DEF Listens, Answered
    <3>. QED
      BY <1>2, <2>1, <2>2, <2>4, <3>2, <3>3 DEF Greets
  <2>. QED
    BY <1>2, <2>3, <2>4 DEF Greeting
<1>. QED
  BY <1>1, <1>2

\* The server begins before the first line.
LEMMA GreetsStarts ==
  ASSUME Sane, UNCHANGED userVars, NEW c \in Clients, Place(c), Echoes, Starts(c), Greets(c)
  PROVE  Greets(c)'
<1>0. "client" \in Ends /\ "server" \in Ends
  BY DEF Ends
<1>1. /\ taken'[c] = taken[c] /\ printed'[c] = printed[c]
      /\ at'["client"][c] = at["client"][c] /\ at["server"][c] = "none"
      /\ at'["server"][c] = Begins
      /\ line'["server"][c] = line["server"][c] /\ wire'["server"][c] = wire["server"][c]
      /\ wire'["client"][c] = wire["client"][c]
      /\ IsOpen(holds, "server", c)
  BY <1>0 DEF Starts
<1>2. at["client"][c] # "connect"
  <2>1. Role(c) /\ "none" \notin ServerRuns
    BY DEF Sane, ServerRuns
  <2>. QED
    BY <1>1, <2>1 DEF Role, IsOpen
<1>3. CASE at["client"][c] \notin Greeting
  BY <1>1, <1>2, <1>3 DEF Greets, Greeting
<1>4. CASE at["client"][c] \in Greeting
  <2>1. theServer.service = "header"
    BY <1>0, <1>4 DEF Place, Placed, Greeting
  <2>2. at'["server"][c] = "header"
    BY <1>1, <2>1 DEF Begins
  <2>3. Listens(c)
    BY <1>1 DEF Listens
  <2>4. Seen(c)' = Seen(c) /\ Answered(c)' = 0 /\ Answered(c) = 0
    BY <1>1, <2>2 DEF Seen, Answered
  <2>. QED
    BY <1>1, <1>2, <1>4, <2>2, <2>3, <2>4 DEF Greets
<1>. QED
  BY <1>3, <1>4

\* The connection is made.
LEMMA GreetsConnects ==
  ASSUME Sane, UNCHANGED userVars, NEW c \in Clients, Connects(c), Greets(c)
  PROVE  Greets(c)'
<1>0. "client" \in Ends /\ "server" \in Ends
  BY DEF Ends
<1>1. /\ taken'[c] = taken[c] /\ printed'[c] = printed[c]
      /\ at["client"][c] = "connect" /\ at'["client"][c] = theClient.first
      /\ at'["server"][c] = "none"
      /\ wire'["server"][c] = wire["server"][c] /\ wire'["client"][c] = wire["client"][c]
  BY <1>0 DEF Connects
<1>2. theClient.first \in {"writev", "fgets"}
  BY PairsFacts DEF Sane, Shape, Users
<1>. QED
  BY <1>1, <1>2 DEF Greets, Greeting

\* What the client does in the exchange of headers.
LEMMA GreetsClient ==
  ASSUME Sane, UNCHANGED userVars, NEW c \in Clients, Frame("client", c), Place(c), Echoes,
         Meeting("client", c), Greets(c)
  PROVE  Greets(c)'
<1>0. /\ "client" \in Ends /\ "server" \in Ends /\ Other("client") = "server"
      /\ holds' = holds
      /\ wire["client"][c] \in Seq(Byte) /\ wire["server"][c] \in Seq(Byte)
  BY SmallFacts DEF Sane, Ends, Other, Frame
<1>1. /\ at'["server"][c] = at["server"][c] /\ line'["server"][c] = line["server"][c]
      /\ taken'[c] = taken[c] /\ printed'[c] = printed[c]
  BY <1>0 DEF Frame, Meeting
<1>2. Listens(c)' <=> Listens(c)
  BY <1>0, <1>1 DEF Listens
<1>3. Answered(c)' = Answered(c)
  BY <1>1 DEF Answered
<1>4. CASE at["client"][c] = "writev" /\ Sends("client", c, <<"header">>, "version")
  <2>1. at'["client"][c] \in {"version", "fail"} /\ wire'["client"][c] = <<>>
    BY <1>0, <1>4 DEF Sends, Greets
  <2>2. CASE at'["client"][c] = "fail"
    BY <2>2 DEF Greets, Greeting
  <2>3. CASE at'["client"][c] = "version"
    <3>1. Seen(c)' = 0
      BY <2>1, <2>3 DEF Seen
    <3>2. taken'[c] = 0 /\ printed'[c] = <<>>
      BY <1>1, <1>4 DEF Greets, Greeting
    <3>3. ASSUME Listens(c)
          PROVE  /\ at["server"][c] \in {"none", "header"}
                 /\ Len(wire'["server"][c]) = 1 /\ line["server"][c] = <<>>
      <4>1. at["server"][c] \in {"none", "header"} /\ IsOpen(holds, "server", c)
        BY <1>4, <3>3 DEF Greets, Listens
      <4>2. wire'["server"][c] = <<>> \o <<"header">>
        BY <1>0, <1>4, <4>1 DEF Sends, Greets
      <4>3. Len(wire'["server"][c]) = 1
        BY <4>2
      <4>4. line["server"][c] = <<>>
        BY <1>0, <4>1 DEF Place, Placed, Quiet
      <4>. QED
        BY <4>1, <4>3, <4>4
    <3>4. Listens(c) => Answered(c) = 0
      BY <3>3 DEF Answered
    <3>. QED
      BY <1>1, <1>2, <1>3, <2>3, <3>1, <3>2, <3>3, <3>4 DEF Greets
  <2>. QED
    BY <2>1, <2>2, <2>3
<1>5. CASE /\ at["client"][c] \in {"version", "protocol"}
           /\ Takes("client", c, at'["client"][c])
           /\ at'["client"][c] \in {"protocol", "fgets", "fail"}
           /\ (at["client"][c] = "protocol" => at'["client"][c] # "protocol")
  <2>1. CASE at'["client"][c] # "protocol"
    <3>1. at'["client"][c] \notin Greeting \cup {"connect"}
      BY <1>5, <2>1 DEF Greeting
    <3>. QED
      BY <3>1 DEF Greets, Greeting
  <2>2. CASE at'["client"][c] = "protocol"
    <3>1. at["client"][c] = "version" /\ wire'["server"][c] = wire["server"][c]
      BY <1>0, <1>5, <2>2 DEF Takes
    <3>2. CASE wire["client"][c] # <<>> /\ wire'["client"][c] = Tail(wire["client"][c])
      <4>1. Len(wire'["client"][c]) = Len(wire["client"][c]) - 1 /\ Len(wire["client"][c]) \in Nat
        BY <1>0, <3>2, HeadTailProperties, LenProperties
      <4>2. Seen(c)' = Seen(c)
        BY <2>2, <3>1, <4>1 DEF Seen
      <4>. QED
        BY <1>1, <1>2, <1>3, <2>2, <3>1, <4>2 DEF Greets, Greeting
    <3>3. CASE /\ ~IsOpen(holds, "server", c)
               /\ wire["client"][c] = <<>>
               /\ wire'["client"][c] = wire["client"][c]
      <4>1. Seen(c)' = 1
        BY <2>2, <3>3 DEF Seen
      <4>2. ~Listens(c)
        BY <3>3 DEF Listens
      <4>. QED
        BY <1>1, <1>2, <2>2, <3>1, <4>1, <4>2 DEF Greets, Greeting
    <3>. QED
      BY <1>0, <1>5, <3>2, <3>3 DEF Takes, NoMore
  <2>. QED
    BY <2>1, <2>2
<1>. QED
  BY <1>0, <1>4, <1>5 DEF Meeting

\* Only the empty sequence has no length.
LEMMA EmptyLength ==
  ASSUME NEW S, NEW s \in Seq(S), NEW n, n = Len(s)
  PROVE  n \in Nat /\ (s = <<>> <=> n = 0)
BY EmptySeq, LenProperties

\* What a server does that echoes: it prints nothing.
LEMMA ServerSilent ==
  ASSUME Sane, NEW c \in Clients, Frame("server", c), Place(c), Echoes, Moving("server", c)
  PROVE  /\ taken'[c] = taken[c] /\ printed'[c] = printed[c]
         /\ at'["client"][c] = at["client"][c] /\ line'["client"][c] = line["client"][c]
         /\ at["server"][c] \in {"header", "version", "protocol", "read", "write"}
         /\ Reading("server", c) \/ Writing("server", c) \/ Meeting("server", c)
<1>0. "client" \in Ends /\ "server" \in Ends
  BY DEF Ends
<1>1. at["server"][c] # "recv"
  BY <1>0 DEF Place, Placed, Echoes
<1>2. CASE Reading("server", c)
  BY <1>0, <1>2 DEF Reading, ReadsByte, ReadsEnd, Fails, Returned, Frame
<1>3. CASE Writing("server", c)
  BY <1>0, <1>3 DEF Writing, Frame
<1>4. CASE Meeting("server", c)
  BY <1>0, <1>4 DEF Meeting, Frame
<1>. QED
  BY <1>1, <1>2, <1>3, <1>4 DEF Moving, Receiving

\* What the server does in it.
LEMMA GreetsServer ==
  ASSUME Sane, UNCHANGED userVars, NEW c \in Clients, Frame("server", c), Place(c), Echoes,
         Moving("server", c), Greets(c)
  PROVE  Greets(c)'
<1>0. /\ "client" \in Ends /\ "server" \in Ends
      /\ Other("server") = "client" /\ holds' = holds
      /\ wire["client"][c] \in Seq(Byte) /\ wire["server"][c] \in Seq(Byte)
  BY SmallFacts DEF Sane, Ends, Other, Frame
<1>1. /\ at'["client"][c] = at["client"][c]
      /\ taken'[c] = taken[c] /\ printed'[c] = printed[c]
      /\ at["server"][c] \in {"header", "version", "protocol", "read", "write"}
      /\ Reading("server", c) \/ Writing("server", c) \/ Meeting("server", c)
  BY ServerSilent
<1>2. CASE at["client"][c] \notin Greeting \cup {"connect"}
  BY <1>1, <1>2 DEF Greets, Greeting
<1>3. ASSUME at["client"][c] = "connect" PROVE FALSE
  <2>1. at["server"][c] = "none"
    BY <1>3 DEF Sane, Role
  <2>. QED
    BY <1>1, <2>1
<1>4. ASSUME at["client"][c] \in Greeting
      PROVE  IsOpen(holds, "client", c) /\ ~NoMore("server", c)
  <2>1. at["client"][c] \in ClientRuns
    BY <1>4 DEF ClientRuns
  <2>. QED
    BY <1>0, <2>1, OpenEnds DEF NoMore
<1>5. ASSUME at["client"][c] = "writev" PROVE FALSE
  <2>1. at["server"][c] = "header" /\ wire["server"][c] = <<>>
    BY <1>1, <1>5 DEF Greets
  <2>2. Meeting("server", c)
    BY <1>1, <2>1 DEF Reading, Writing
  <2>3. Takes("server", c, "version")
    BY <2>1, <2>2 DEF Meeting
  <2>4. ~NoMore("server", c)
    BY <1>4, <1>5 DEF Greeting
  <2>. QED
    BY <2>1, <2>3, <2>4 DEF Takes
<1>6. CASE at["client"][c] \in {"version", "protocol"}
  <2>0. IsOpen(holds, "client", c) /\ ~NoMore("server", c)
    BY <1>4, <1>6 DEF Greeting
  <2>1. Listens(c)
    <3>1. at["server"][c] \in ServerRuns
      BY <1>1 DEF ServerRuns
    <3>2. IsOpen(holds, "server", c)
      BY <3>1, OpenEnds
    <3>. QED
      BY <1>1, <3>2 DEF Listens
  <2>2. /\ Seen(c) = Answered(c) /\ at["server"][c] # "write" /\ line["server"][c] = <<>>
        /\ IF at["server"][c] = "header" THEN Len(wire["server"][c]) = 1
           ELSE wire["server"][c] = <<>>
    BY <1>1, <1>6, <2>1 DEF Greets
  <2>3. Meeting("server", c)
    <3>1. ~Writing("server", c)
      BY <2>2 DEF Writing
    <3>2. ASSUME Reading("server", c) PROVE FALSE
      <4>1. wire["server"][c] = <<>>
        BY <2>2, <3>2 DEF Reading
      <4>. QED
        BY <2>0, <3>2, <4>1 DEF Reading, ReadsByte, ReadsEnd, Fails
    <3>. QED
      BY <1>1, <3>1, <3>2
  <2>4. line'["server"][c] = <<>>
    BY <2>2, <2>3 DEF Meeting
  <2>5. CASE at["server"][c] = "header" /\ Takes("server", c, "version")
    <3>1. /\ at'["server"][c] = "version" /\ wire'["client"][c] = wire["client"][c]
          /\ wire'["server"][c] = Tail(wire["server"][c]) /\ Len(wire["server"][c]) = 1
      BY <1>0, <2>0, <2>2, <2>5 DEF Takes
    <3>2. wire'["server"][c] = <<>>
      <4>1. wire["server"][c] # <<>>
        <5>1. PICK n : n = Len(wire["server"][c])
          OBVIOUS
        <5>2. n = 1
          BY <3>1, <5>1
        <5>3. n \in Nat /\ (wire["server"][c] = <<>> <=> n = 0)
          BY <1>0, <5>1, EmptyLength
        <5>. QED
          BY <5>2, <5>3
      <4>2. wire'["server"][c] \in Seq(Byte) /\ Len(wire'["server"][c]) = 0
        BY <1>0, <3>1, <4>1, HeadTailProperties
      <4>. QED
        BY <4>2, EmptyLength
    <3>3. Seen(c)' = Seen(c) /\ Answered(c)' = 0 /\ Answered(c) = 0
      BY <1>1, <2>5, <3>1 DEF Seen, Answered
    <3>. QED
      BY <1>1, <1>6, <2>2, <2>4, <3>1, <3>2, <3>3 DEF Greets, Greeting
  <2>6. CASE /\ at["server"][c] \in {"version", "protocol"}
             /\ \E b \in Byte :
                  \/ at["server"][c] = "version" /\ Sends("server", c, <<b>>, "protocol")
                  \/ at["server"][c] = "protocol" /\ Sends("server", c, <<b>>, "read")
                  \/ at["server"][c] = "protocol" /\ Sends("server", c, <<b>>, "return")
    <3>1. PICK b \in Byte :
                  \/ at["server"][c] = "version" /\ Sends("server", c, <<b>>, "protocol")
                  \/ at["server"][c] = "protocol" /\ Sends("server", c, <<b>>, "read")
                  \/ at["server"][c] = "protocol" /\ Sends("server", c, <<b>>, "return")
      BY <2>6
    <3>2. /\ wire'["client"][c] = wire["client"][c] \o <<b>>
          /\ wire'["server"][c] = wire["server"][c] /\ wire["server"][c] = <<>>
          /\ IF at["server"][c] = "version" THEN at'["server"][c] = "protocol"
             ELSE at'["server"][c] \in {"read", "return"}
      BY <1>0, <2>0, <2>2, <2>6, <3>1 DEF Sends
    <3>3. Len(wire'["client"][c]) = Len(wire["client"][c]) + 1 /\ Len(wire["client"][c]) \in Nat
      <4>1. <<b>> \in Seq(Byte) /\ Len(<<b>>) = 1
        OBVIOUS
      <4>. HIDE DEF Byte
      <4>. QED
        BY <1>0, <3>2, <4>1, ConcatProperties, LenProperties
    <3>4. Seen(c)' = Seen(c) + 1 /\ Seen(c) \in Nat
      <4>. DEFINE k == IF at["client"][c] = "protocol" THEN 1 ELSE 0
      <4>1. Seen(c) = Len(wire["client"][c]) + k /\ Seen(c)' = Len(wire'["client"][c]) + k
        BY <1>1 DEF Seen
      <4>2. k \in Nat
        OBVIOUS
      <4>. HIDE DEF k
      <4>. QED
        BY <3>3, <4>1, <4>2
    <3>5. CASE at["server"][c] = "version"
      <4>1. Answered(c) = 0 /\ Answered(c)' = 1
        BY <3>2, <3>5 DEF Answered
      <4>. QED
        BY <1>1, <1>6, <2>2, <2>4, <3>2, <3>4, <3>5, <4>1 DEF Greets, Greeting
    <3>6. CASE at["server"][c] = "protocol"
      <4>1. Answered(c) = 1 /\ (at'["server"][c] = "read" => Answered(c)' = 2)
        BY <3>2, <3>6 DEF Answered
      <4>2. at'["server"][c] = "return" => ~Listens(c)'
        BY DEF Listens
      <4>. QED
        BY <1>1, <1>6, <2>2, <2>4, <3>2, <3>4, <3>6, <4>1, <4>2 DEF Greets, Greeting
    <3>. QED
      BY <2>6, <3>5, <3>6
  <2>. QED
    BY <2>3, <2>5, <2>6 DEF Meeting
<1>. QED
  BY <1>2, <1>3, <1>5, <1>6 DEF Greeting

\* When the client has read the last of the headers it is at its first line.
LEMMA ClientMeets ==
  ASSUME Sane, UNCHANGED userVars, NEW c \in Clients, Frame("client", c), Place(c), Echoes,
         Meeting("client", c), Greets(c),
         NEW a \in Nat, NEW b \in Nat, NEW d \in Nat, NEW e \in Nat, NEW f \in Nat,
         Echoed(c, a, b, d, e, f)
  PROVE  Echoed(c, a, b, d, e, f)' \/ Echoed(c, 0, 0, 0, 0, 0)'
<1>0. /\ "client" \in Ends /\ "server" \in Ends /\ Other("client") = "server"
      /\ holds' = holds
      /\ wire["client"][c] \in Seq(Byte) /\ wire["server"][c] \in Seq(Byte)
  BY SmallFacts DEF Sane, Ends, Other, Frame
<1>1. /\ at'["server"][c] = at["server"][c] /\ line'["server"][c] = line["server"][c]
      /\ taken'[c] = taken[c] /\ printed'[c] = printed[c]
  BY <1>0 DEF Frame, Meeting
<1>2. CASE at'["client"][c] \notin Talking
  BY <1>1, <1>2, NotTalking
<1>3. CASE at'["client"][c] \in Talking
  <2>1. /\ at["client"][c] = "protocol" /\ at'["client"][c] = "fgets"
        /\ Takes("client", c, "fgets")
    BY <1>0, <1>3 DEF Meeting, Sends, Talking
  <2>2. taken[c] = 0 /\ printed[c] = <<>> /\ Seen(c) =< 2
    BY <2>1 DEF Greets, Greeting
  <2>3. PICK n : n = Len(wire["client"][c])
    OBVIOUS
  <2>6. n \in Nat /\ n =< 1 /\ Seen(c) = n + 1 /\ (wire["client"][c] = <<>> <=> n = 0)
    <3>1. n \in Nat /\ (wire["client"][c] = <<>> <=> n = 0)
      BY <1>0, <2>3, EmptyLength
    <3>2. Seen(c) = n + 1
      BY <2>1, <2>3 DEF Seen
    <3>. QED
      BY <2>2, <3>1, <3>2
  <2>4. wire'["client"][c] = <<>>
    <3>1. CASE wire["client"][c] # <<>> /\ wire'["client"][c] = Tail(wire["client"][c])
      <4>1. PICK m : m = Len(wire'["client"][c])
        OBVIOUS
      <4>2. wire'["client"][c] \in Seq(Byte) /\ m = n - 1
        BY <1>0, <2>3, <3>1, <4>1, HeadTailProperties
      <4>3. m \in Nat /\ (wire'["client"][c] = <<>> <=> m = 0)
        BY <4>1, <4>2, EmptyLength
      <4>. QED
        BY <2>6, <4>2, <4>3
    <3>. QED
      BY <2>1, <3>1 DEF Takes, NoMore
  <2>5. ASSUME Listens(c)'
        PROVE  /\ at'["server"][c] = "read"
               /\ line'["server"][c] = <<>> /\ wire'["server"][c] = <<>>
    <3>1. Listens(c) /\ IsOpen(holds, "server", c)
      BY <1>0, <1>1, <2>5 DEF Listens
    <3>2. /\ Seen(c) = Answered(c) /\ at["server"][c] # "write" /\ line["server"][c] = <<>>
          /\ at["server"][c] \notin {"none", "header"} => wire["server"][c] = <<>>
      BY <2>1, <3>1 DEF Greets
    <3>3. Seen(c) = 2
      <4>1. ~NoMore("client", c)
        BY <1>0, <3>1 DEF NoMore
      <4>2. wire["client"][c] # <<>>
        BY <2>1, <4>1 DEF Takes
      <4>. QED
        BY <2>6, <4>2
    <3>4. at["server"][c] = "read"
      BY <3>1, <3>2, <3>3 DEF Answered, Listens
    <3>. QED
      BY <1>0, <1>1, <2>1, <3>2, <3>4 DEF Takes
  <2>. QED
    BY <1>1, <2>1, <2>2, <2>4, <2>5, EchoedNothing
<1>. QED
  BY <1>2, <1>3

\* What the client does, with what it has received.
LEMMA ClientEchoing ==
  ASSUME Sane, UNCHANGED userVars, NEW c \in Clients, Frame("client", c), Place(c), Echoes,
         WellFormed(input[c]), Moving("client", c), Echoing(c)
  PROVE  Echoing(c)'
<1>0. "client" \in Ends
  BY DEF Ends
<1>1. Greets(c)
  BY DEF Echoing
<1>2. PICK a \in Nat, b \in Nat, d \in Nat, e \in Nat, f \in Nat : Echoed(c, a, b, d, e, f)
  BY DEF Echoing
<1>3. \E x, y, z, u, v \in Nat : Echoed(c, x, y, z, u, v)'
  <2>1. CASE Reading("client", c)
    <3>1. \E m \in Nat, n \in Nat : Echoed(c, m, n, d, e, f)'
      BY <1>2, <2>1, ClientReads
    <3>. QED
      BY <1>2, <3>1
  <2>2. CASE Writing("client", c)
    <3>1. \E m \in Nat : Echoed(c, a, b, d, e, m)'
      BY <1>2, <2>2, ClientWrites
    <3>. QED
      BY <1>2, <3>1
  <2>3. CASE Meeting("client", c)
    <3>1. Echoed(c, a, b, d, e, f)' \/ Echoed(c, 0, 0, 0, 0, 0)'
      BY <1>1, <1>2, <2>3, ClientMeets
    <3>. QED
      BY <1>2, <3>1
  <2>4. CASE Fetching(c)
    <3>1. Echoed(c, a, b, d, e, f)'
      BY <1>2, <2>4, ClientFetches
    <3>. QED
      BY <1>2, <3>1
  <2>. QED
    BY <2>1, <2>2, <2>3, <2>4 DEF Moving
<1>4. Greets(c)'
  <2>1. CASE Meeting("client", c)
    BY <1>1, <2>1, GreetsClient
  <2>2. CASE Reading("client", c) \/ Writing("client", c) \/ Fetching(c)
    <3>1. at'["client"][c] \in {"fgets", "read", "write", "return", "fail"}
      <4>1. theClient.then \in {"return", "fgets", "read"}
        BY PairsFacts DEF Sane, Shape, Users
      <4>2. CASE Reading("client", c)
        BY <4>2 DEF Reading, ReadsByte, ReadsEnd, Fails, Returned
      <4>3. CASE Writing("client", c)
        BY <4>1, <4>3 DEF Writing, Sends
      <4>4. CASE Fetching(c)
        BY <4>4 DEF Fetching
      <4>. QED
        BY <2>2, <4>2, <4>3, <4>4
    <3>. QED
      BY <3>1 DEF Greets, Greeting
  <2>. QED
    BY <2>1, <2>2 DEF Moving
<1>. QED
  BY <1>3, <1>4 DEF Echoing

\* What a server that echoes does, with what it has received.
LEMMA ServerEchoing ==
  ASSUME Sane, UNCHANGED userVars, NEW c \in Clients, Frame("server", c), Place(c), Echoes,
         WellFormed(input[c]), Moving("server", c), Echoing(c)
  PROVE  Echoing(c)'
<1>1. Greets(c)
  BY DEF Echoing
<1>2. PICK a \in Nat, b \in Nat, d \in Nat, e \in Nat, f \in Nat : Echoed(c, a, b, d, e, f)
  BY DEF Echoing
<1>3. /\ taken'[c] = taken[c] /\ printed'[c] = printed[c]
      /\ at'["client"][c] = at["client"][c]
      /\ Reading("server", c) \/ Writing("server", c) \/ Meeting("server", c)
  BY ServerSilent
<1>4. \E x, y, z, u, v \in Nat : Echoed(c, x, y, z, u, v)'
  <2>1. CASE at["client"][c] \notin Talking
    <3>1. Echoed(c, a, b, d, e, f)'
      BY <1>2, <1>3, <2>1, NotTalking
    <3>. QED
      BY <1>2, <3>1
  <2>2. CASE at["client"][c] \in Talking /\ Reading("server", c)
    <3>1. \E n \in Nat : Echoed(c, a, b, d, n, f)'
      BY <1>2, <2>2, ServerReads
    <3>. QED
      BY <1>2, <3>1
  <2>3. CASE at["client"][c] \in Talking /\ Writing("server", c)
    <3>1. \E m \in Nat : Echoed(c, a, b, m, e, f)'
      BY <1>2, <2>3, ServerWrites
    <3>. QED
      BY <1>2, <3>1
  <2>4. ASSUME at["client"][c] \in Talking, Meeting("server", c) PROVE FALSE
    <3>1. at["server"][c] \in {"header", "version", "protocol"}
      BY <2>4 DEF Meeting
    <3>2. IsOpen(holds, "server", c)
      BY <3>1, OpenEnds DEF ServerRuns
    <3>3. Listens(c)
      BY <3>1, <3>2 DEF Listens
    <3>4. Forth(c, d, e, f)
      BY <1>2, <2>4, <3>3 DEF Echoed
    <3>. QED
      BY <3>1, <3>4 DEF Forth
  <2>. QED
    BY <1>3, <2>1, <2>2, <2>3, <2>4
<1>5. Greets(c)'
  BY <1>1, GreetsServer
<1>. QED
  BY <1>4, <1>5 DEF Echoing

\* Every step keeps the lines of a client in their order.
LEMMA EchoingStep ==
  ASSUME Sane, UNCHANGED userVars, NEW c \in Clients, Place(c), Echoes,
         WellFormed(input[c]), Role(c)', Local(c), Echoing(c)
  PROVE  Echoing(c)'
<1>1. Greets(c)
  BY DEF Echoing
<1>2. PICK a \in Nat, b \in Nat, d \in Nat, e \in Nat, f \in Nat : Echoed(c, a, b, d, e, f)
  BY DEF Echoing
<1>3. CASE Settles(c)
  <2>1. Greets(c)'
    BY <1>1, <1>3, GreetsSettles
  <2>2. Echoed(c, a, b, d, e, f)'
    BY <1>2, <1>3, EchoedSettles
  <2>. QED
    BY <1>2, <2>1, <2>2 DEF Echoing
<1>4. CASE Starts(c)
  <2>1. Greets(c)'
    BY <1>1, <1>4, GreetsStarts
  <2>2. Echoed(c, a, b, d, e, f)'
    BY <1>2, <1>4, EchoedStarts
  <2>. QED
    BY <1>2, <2>1, <2>2 DEF Echoing
<1>5. CASE Connects(c)
  <2>1. Greets(c)'
    BY <1>1, <1>5, GreetsConnects
  <2>2. Echoed(c, 0, 0, 0, 0, 0)'
    BY <1>1, <1>5, EchoedConnects
  <2>. QED
    BY <2>1, <2>2 DEF Echoing
<1>6. CASE Talk("client", c) /\ Frame("client", c)
  <2>1. Moving("client", c)
    BY <1>6, TalkEffect DEF Sane, Ends
  <2>. QED
    BY <1>6, <2>1, ClientEchoing
<1>7. CASE Talk("server", c) /\ Frame("server", c)
  <2>1. Moving("server", c)
    BY <1>7, TalkEffect DEF Sane, Ends
  <2>. QED
    BY <1>7, <2>1, ServerEchoing
<1>. QED
  BY <1>3, <1>4, <1>5, <1>6, <1>7 DEF Local, Ends

\* Without an echo only the recv of send_recv prints.
LEMMA WithoutEcho ==
  ASSUME Sane, NEW c \in Clients, Place(c), Local(c), ~Echoes
  PROVE  \/ printed'[c] = printed[c]
         \/ theServer.service = "recv" /\ Receiving(c)
<1>0. "client" \in Ends /\ "server" \in Ends
  BY DEF Ends
<1>1. ASSUME NEW e \in Ends, Talk(e, c)
      PROVE  \/ printed'[c] = printed[c]
             \/ theServer.service = "recv" /\ Receiving(c)
  <2>1. Moving(e, c)
    BY <1>1, TalkEffect DEF Sane
  <2>2. CASE Reading(e, c)
    <3>1. e = "server"
      BY <1>0, <2>2 DEF Reading, Place, Placed, Ends
    <3>. QED
      BY <2>2, <3>1 DEF Reading, ReadsByte, ReadsEnd, Fails, Returned
  <2>3. CASE Receiving(c)
    <3>1. theServer.service = "recv"
      BY <1>0, <2>3 DEF Receiving, Place, Placed
    <3>. QED
      BY <2>3, <3>1
  <2>. QED
    BY <2>1, <2>2, <2>3 DEF Moving, Writing, Meeting, Fetching
<1>. QED
  BY <1>1 DEF Local, Settles, Starts, Connects

-----------------------------------------------------------------------------
(* send_recv, whose server reads once *)

\* An end is closed, or nothing happens: what was printed stays.
LEMMA ReceivedSettles ==
  ASSUME Sane, UNCHANGED userVars, NEW c \in Clients, Settles(c), Received(c)
  PROVE  Received(c)'
<1>0. /\ "client" \in Ends /\ "server" \in Ends
      /\ Ended \cap {"none", "recv", "connect", "write", "fgets"} = {} /\ input' = input
  BY DEF Ends, Ended, userVars
<1>1. /\ printed'[c] = printed[c] /\ taken'[c] = taken[c]
      /\ line'["client"][c] = line["client"][c]
      /\ at'["client"][c] = at["client"][c] \/ at'["client"][c] \in Ended
      /\ at'["server"][c] = at["server"][c] \/ at'["server"][c] \in Ended
      /\ IsOpen(holds', "server", c) =>
           IsOpen(holds, "server", c) /\ wire'["server"][c] = wire["server"][c]
  BY <1>0 DEF Settles
<1>. QED
  BY <1>0, <1>1 DEF Received

\* The child of send_recv begins with what has arrived.
LEMMA ReceivedStarts ==
  ASSUME Sane, UNCHANGED userVars, NEW c \in Clients, Starts(c), Received(c)
  PROVE  Received(c)'
<1>0. "client" \in Ends /\ "server" \in Ends /\ input' = input
  BY DEF Ends, userVars
<1>1. /\ printed'[c] = printed[c] /\ taken'[c] = taken[c]
      /\ line'["client"][c] = line["client"][c] /\ wire'["server"][c] = wire["server"][c]
      /\ at'["client"][c] = at["client"][c] /\ at["server"][c] = "none"
      /\ IsOpen(holds, "server", c)
  BY <1>0 DEF Starts
<1>. QED
  BY <1>0, <1>1 DEF Received

\* Nothing is typed before the connection is made.
LEMMA ReceivedConnects ==
  ASSUME Sane, UNCHANGED userVars, NEW c \in Clients, Connects(c), Received(c)
  PROVE  Received(c)'
<1>0. "client" \in Ends /\ "server" \in Ends /\ input' = input
  BY DEF Ends, userVars
<1>1. /\ printed'[c] = printed[c] /\ taken'[c] = taken[c]
      /\ at["client"][c] = "connect" /\ at'["client"][c] = theClient.first
      /\ at["server"][c] = "none" /\ at'["server"][c] = "none"
      /\ wire'["server"][c] = wire["server"][c] /\ ~IsOpen(holds, "server", c)
  BY <1>0 DEF Connects
<1>2. theClient.first \in {"writev", "fgets"}
  BY PairsFacts DEF Sane, Shape, Users
<1>3. /\ printed[c] = <<>> /\ taken[c] = 0
      /\ \E a \in 0 .. Len(input[c]) : printed[c] = Slice(input[c], 0, a)
  BY <1>1 DEF Received
<1>4. wire["server"][c] = <<>>
  BY <1>0, <1>1 DEF Sane, Role
<1>5. Slice(input[c], 0, 0) = <<>>
  <2>1. input[c] \in Seq(Byte) /\ Len(input[c]) \in Nat
    BY SmallFacts DEF Sane
  <2>2. 0 \in 0 .. 0 /\ 0 \in 0 .. Len(input[c])
    BY <2>1
  <2>. QED
    BY <2>1, <2>2, SliceEmpty
<1>6. 0 \in 0 .. taken'[c] /\ 0 = taken'[c]
  BY <1>1, <1>3
<1>7. \E f \in 0 .. taken'[c] : wire'["server"][c] = Slice(input[c], 0, f) /\ f = taken'[c]
  BY <1>1, <1>4, <1>5, <1>6
<1>. QED
  BY <1>0, <1>1, <1>2, <1>3, <1>7 DEF Received

\* The server has been told, or fails, or has read once.
LEMMA ReceivedServer ==
  ASSUME Sane, UNCHANGED userVars, NEW c \in Clients, Frame("server", c),
         Moving("server", c), Received(c),
         printed'[c] = printed[c] \/ Receiving(c)
  PROVE  Received(c)'
<1>. DEFINE s == input[c]
            w == wire["server"][c]
<1>0. /\ "client" \in Ends /\ "server" \in Ends /\ input' = input
      /\ at'["client"][c] = at["client"][c]
      /\ s \in Seq(Byte) /\ Len(s) \in Nat /\ taken[c] \in 0 .. Len(s)
  BY SmallFacts DEF Sane, Ends, userVars, Frame
<1>1. at'["server"][c] \notin {"none", "recv"}
  BY DEF Moving, Reading, ReadsByte, ReadsEnd, Fails, Returned, Writing, Meeting, Receiving,
         Sends, Takes
<1>2. taken'[c] = taken[c]
  BY DEF Moving, Reading, Writing, Meeting, Receiving
<1>3. \E a \in 0 .. Len(s) : printed'[c] = Slice(s, 0, a)
  <2>1. CASE printed'[c] = printed[c]
    BY <2>1 DEF Received
  <2>2. ASSUME NEW n \in 1 .. Len(w), printed'[c] = printed[c] \o Slice(w, 0, n),
               at["server"][c] = "recv"
        PROVE  \E a \in 0 .. Len(s) : printed'[c] = Slice(s, 0, a)
    <3>1. IsOpen(holds, "server", c)
      BY <2>2, OpenEnds DEF ServerRuns
    <3>2. printed[c] = <<>>
      BY <2>2 DEF Received
    <3>3. PICK f \in 0 .. taken[c] : w = Slice(s, 0, f)
      BY <2>2, <3>1 DEF Received
    <3>4. f \in Nat /\ f =< Len(s)
      BY <1>0
    <3>5. Len(w) = f
      BY <1>0, <3>3, <3>4, SliceLen
    <3>6. Slice(w, 0, n) = Slice(s, 0, n)
      BY <1>0, <2>2, <3>3, <3>4, <3>5, SliceOfSlice
    <3>7. Slice(s, 0, n) \in Seq(Byte) /\ n \in 0 .. Len(s)
      <4>1. n \in 0 .. Len(s) /\ 0 \in 0 .. n
        BY <1>0, <2>2, <3>4, <3>5
      <4>. QED
        BY <1>0, <4>1, SliceType
    <3>8. printed'[c] = Slice(s, 0, n)
      BY <2>2, <3>2, <3>6, <3>7, ConcatEmptySeq
    <3>. QED
      BY <3>7, <3>8
  <2>. QED
    BY <2>1, <2>2 DEF Receiving
<1>. QED
  BY <1>0, <1>1, <1>2, <1>3 DEF Received

\* The client reads its line, and sends it.
LEMMA ReceivedClient ==
  ASSUME Sane, UNCHANGED userVars, NEW c \in Clients, Frame("client", c),
         Place(c), theServer.service = "recv", Moving("client", c), Received(c)
  PROVE  Received(c)'
<1>. DEFINE s == input[c]
            w == wire["server"][c]
            l == line["client"][c]
<1>0. /\ "client" \in Ends /\ "server" \in Ends /\ Other("client") = "server" /\ input' = input
      /\ at'["server"][c] = at["server"][c] /\ holds' = holds
      /\ s \in Seq(Byte) /\ Len(s) \in Nat /\ taken[c] \in 0 .. Len(s)
  BY SmallFacts DEF Sane, Ends, userVars, Frame, Other
<1>1. at["client"][c] \notin {"read", "writev", "version", "protocol"}
  BY <1>0 DEF Place, Placed, Echoes
<1>2. CASE Writing("client", c)
  <2>1. PICK n \in 1 .. Len(l) :
       /\ line'["client"][c] = Slice(l, n, Len(l))
       /\ Sends("client", c, Slice(l, 0, n), IF n < Len(l) THEN "write" ELSE theClient.then)
    BY <1>2 DEF Writing
  <2>2. theClient.then = "return"
    BY PairsFacts DEF Sane, Shape, Users
  <2>3. /\ at["client"][c] = "write" /\ printed'[c] = printed[c] /\ taken'[c] = taken[c]
        /\ at'["client"][c] \in {"write", "return", "fail"}
    BY <1>2, <2>1, <2>2 DEF Writing, Sends
  <2>4. ASSUME at["server"][c] \in {"none", "recv"}, IsOpen(holds, "server", c)
        PROVE  \E g \in 0 .. taken[c] :
                 /\ wire'["server"][c] = Slice(s, 0, g)
                 /\ line'["client"][c] = Slice(s, g, taken[c])
    <3>1. PICK f \in 0 .. taken[c] : w = Slice(s, 0, f) /\ l = Slice(s, f, taken[c])
      BY <2>3, <2>4 DEF Received
    <3>2. Pieces(s, f, taken[c], l, n)
      BY <1>0, <2>1, <3>1, Piece
    <3>3. wire'["server"][c] = w \o Slice(l, 0, n)
      BY <1>0, <2>1, <2>4 DEF Sends
    <3>4. f + n \in 0 .. taken[c] /\ Slice(l, 0, n) = Slice(s, f, f + n)
          /\ Slice(l, n, Len(l)) = Slice(s, f + n, taken[c])
      BY <1>0, <3>1, <3>2 DEF Pieces
    <3>5. Slice(s, 0, f) \o Slice(s, f, f + n) = Slice(s, 0, f + n)
      <4>1. f \in 0 .. f + n /\ f + n \in 0 .. Len(s) /\ 0 \in 0 .. f /\ 0 \in Nat
        BY <1>0, <2>1, <3>1, <3>4
      <4>. QED
        BY <1>0, <4>1, SliceConcat
    <3>. QED
      BY <2>1, <3>1, <3>3, <3>4, <3>5
  <2>. QED
    BY <1>0, <2>3, <2>4 DEF Received
<1>3. CASE Fetching(c)
  <2>1. /\ at["client"][c] = "fgets" /\ printed'[c] = printed[c]
        /\ wire'["server"][c] = w /\ at'["client"][c] \in {"return", "write"}
        /\ taken'[c] \in Nat /\ taken[c] =< taken'[c]
        /\ at'["client"][c] = "write" => line'["client"][c] = Slice(s, taken[c], taken'[c])
    BY <1>0, <1>3 DEF Fetching
  <2>2. \A f \in 0 .. taken[c] : f \in 0 .. taken'[c]
    BY <1>0, <2>1
  <2>. QED
    BY <1>0, <2>1, <2>2 DEF Received
<1>. QED
  BY <1>1, <1>2, <1>3 DEF Moving, Reading, Meeting

\* Every step keeps what send_recv has printed the start of what was typed.
LEMMA ReceivedStep ==
  ASSUME Sane, UNCHANGED userVars, NEW c \in Clients, Place(c), theServer.service = "recv",
         Local(c), Received(c)
  PROVE  Received(c)'
<1>1. ~Echoes
  BY DEF Echoes
<1>2. CASE Talk("client", c) /\ Frame("client", c)
  <2>1. Moving("client", c)
    BY <1>2, TalkEffect DEF Sane, Ends
  <2>. QED
    BY <1>2, <2>1, ReceivedClient
<1>3. CASE Talk("server", c) /\ Frame("server", c)
  <2>1. Moving("server", c)
    BY <1>3, TalkEffect DEF Sane, Ends
  <2>. QED
    BY <1>1, <1>3, <2>1, ReceivedServer, WithoutEcho
<1>. QED
  BY <1>2, <1>3, ReceivedSettles, ReceivedStarts, ReceivedConnects DEF Local, Ends

-----------------------------------------------------------------------------
(* What a client has printed, in all programs *)

\* Every step keeps the order, whatever the service.
LEMMA OrderStep ==
  ASSUME Sane, UNCHANGED userVars, NEW c \in Clients, Place(c), Role(c)', Local(c), Order(c)
  PROVE  Order(c)'
<1>1. theServer' = theServer /\ input' = input /\ (Echoes' <=> Echoes)
  BY UsersFrame DEF Sane, Shape, userVars, Echoes
<1>2. ASSUME theServer.service = "discard" PROVE printed'[c] = <<>>
  <2>1. printed[c] = <<>> /\ ~Echoes
    BY <1>2 DEF Order, Echoes
  <2>. QED
    BY <1>2, <2>1, WithoutEcho
<1>3. ASSUME theServer.service = "recv" PROVE Received(c)'
  BY <1>3, ReceivedStep DEF Order
<1>4. ASSUME Echoes, WellFormed(input[c]) PROVE Echoing(c)'
  BY <1>4, EchoingStep DEF Order
<1>5. WellFormed(input[c])' <=> WellFormed(input[c])
  BY <1>1 DEF WellFormed
<1>. QED
  BY <1>1, <1>2, <1>3, <1>4, <1>5 DEF Order

\* Before anything was typed nothing is out of order.
LEMMA OrderInit == ASSUME StreamInit, NEW c \in Clients PROVE Order(c)
<1>0. "client" \in Ends /\ "server" \in Ends
  BY DEF Ends
<1>1. /\ at["client"][c] = "connect" /\ at["server"][c] = "none"
      /\ \A e \in Ends : wire[e][c] = <<>>
      /\ taken[c] = 0 /\ printed[c] = <<>> /\ holds = {}
  BY <1>0 DEF StreamInit
<1>2. ~IsOpen(holds, "server", c)
  BY <1>1 DEF IsOpen
<1>3. Slice(input[c], 0, 0) = <<>> /\ Len(input[c]) \in Nat
  <2>1. input[c] \in Seq(Byte) /\ Len(input[c]) \in Nat
    BY SaneInit, SmallFacts DEF Sane
  <2>2. 0 \in 0 .. 0 /\ 0 \in 0 .. Len(input[c])
    BY <2>1
  <2>. QED
    BY <2>1, <2>2, SliceEmpty
<1>4. Received(c)
  <2>1. 0 \in 0 .. Len(input[c])
    BY <1>3
  <2>. QED
    BY <1>1, <1>2, <1>3, <2>1 DEF Received
<1>5. Greets(c)
  BY <1>0, <1>1 DEF Greets
<1>6. Echoed(c, 0, 0, 0, 0, 0)
  BY <1>1, <1>3 DEF Echoed, Talking
<1>7. Echoing(c)
  <2>1. 0 \in Nat
    OBVIOUS
  <2>. QED
    BY <1>5, <1>6, <2>1 DEF Echoing
<1>. QED
  BY <1>1, <1>4, <1>7 DEF Order

\* What is printed is then the start of what was typed.
LEMMA OrderGivesPrefix ==
  ASSUME Sane, \A c \in Clients : Order(c)
  PROVE  EchoInOrder
<1>1. SUFFICES ASSUME NEW c \in Clients, WellFormed(input[c])
               PROVE  IsPrefix(printed[c], input[c])
  BY DEF EchoInOrder
<1>. DEFINE s == input[c]
<1>2. s \in Seq(Byte) /\ Len(s) \in Nat /\ taken[c] \in Nat /\ taken[c] =< Len(s)
  BY SmallFacts DEF Sane
<1>3. PICK a \in 0 .. Len(s) : printed[c] = Slice(s, 0, a)
  <2>1. CASE Echoes
    <3>1. PICK a \in Nat, b \in Nat, d \in Nat, e \in Nat, f \in Nat : Echoed(c, a, b, d, e, f)
      BY <1>1, <2>1 DEF Order, Echoing
    <3>2. a \in 0 .. Len(s)
      BY <1>2, <3>1, Positions
    <3>3. printed[c] = Slice(s, 0, a)
      BY <3>1 DEF Echoed
    <3>. QED
      BY <3>2, <3>3
  <2>2. CASE theServer.service = "recv"
    BY <1>1, <2>2 DEF Order, Received
  <2>3. CASE theServer.service = "discard"
    <3>1. printed[c] = <<>>
      BY <2>3 DEF Order
    <3>2. 0 \in 0 .. 0 /\ 0 \in 0 .. Len(s)
      BY <1>2
    <3>3. Slice(s, 0, 0) = <<>>
      BY <1>2, <3>2, SliceEmpty
    <3>. QED
      BY <3>1, <3>2, <3>3
  <2>. QED
    BY <2>1, <2>2, <2>3 DEF Echoes
<1>. HIDE DEF s
<1>4. 0 \in 0 .. a
  BY <1>2, <1>3
<1>5. Len(printed[c]) = a
  BY <1>2, <1>3, <1>4, SliceLen
<1>6. printed[c] = SubSeq(s, 1, a)
  BY <1>3 DEF Slice
<1>7. SubSeq(printed[c], 1, a) = printed[c]
  <2>1. printed[c] \in Seq(Byte)
    BY SmallFacts DEF Sane
  <2>. QED
    BY <1>5, <2>1, SubSeqFull
<1>. QED
  BY <1>2, <1>3, <1>5, <1>6, <1>7 DEF IsPrefix, s

-----------------------------------------------------------------------------
(* The theorems *)

\* The inductive invariant: of each connection, the descriptors and the roles of its two
\* processes, the buffers, and the order of the bytes that are on their way.
StreamIInv == Sane /\ \A c \in Clients : Place(c) /\ Order(c)

\* The programs start with nothing sent, read or connected, and every step of a client, of
\* its server, of the listener or of a kill keeps the inductive invariant.
LEMMA StreamInitIInv == StreamInit => StreamIInv
BY SaneInit, PlaceInit, OrderInit DEF StreamIInv

\* Every step of a client, a server, the listener or a kill keeps it.
LEMMA StreamNextIInv == StreamIInv /\ [StreamNext]_streamVars => StreamIInv'
<1>. SUFFICES ASSUME StreamIInv, [StreamNext]_streamVars PROVE StreamIInv'
  OBVIOUS
<1>1. Sane /\ UNCHANGED userVars /\ Sane' /\ \A c \in Clients : Local(c)
  BY SaneNext DEF StreamIInv, SaneStep
<1>2. ASSUME NEW c \in Clients PROVE Place(c)' /\ Order(c)'
  <2>1. Place(c) /\ Order(c) /\ Local(c) /\ Role(c)'
    BY <1>1 DEF StreamIInv, Sane
  <2>. QED
    BY <1>1, <2>1, PlaceStep, OrderStep
<1>. QED
  BY <1>1, <1>2 DEF StreamIInv

\* It gives the two invariants.
LEMMA StreamIInvGives == StreamIInv => StreamTypeOK /\ EchoInOrder
BY StreamTypes, OrderGivesPrefix DEF StreamIInv

\* readline, writen, fgets and the exchange of headers write no buffer beyond its end, and
\* the listener and its children keep descriptors of the connections of clients only.
THEOREM StreamTypesCorrect == StreamSpec => []StreamTypeOK
<1>1. StreamSpec => []StreamIInv
  BY StreamInitIInv, StreamNextIInv, PTL DEF StreamSpec
<1>. QED
  BY <1>1, StreamIInvGives, PTL

\* However read and write split the lines, and whoever is killed, a client whose lines fit
\* its buffer prints the start of what was typed: str_cli and str_echo neither reorder nor
\* repeat nor invent a byte.
THEOREM LinesInOrder == StreamSpec => []EchoInOrder
<1>1. StreamSpec => []StreamIInv
  BY StreamInitIInv, StreamNextIInv, PTL DEF StreamSpec
<1>. QED
  BY <1>1, StreamIInvGives, PTL
=============================================================================
