------------------------------- MODULE Streams ------------------------------
(***************************************************************************)
(* The pairs that talk through two byte streams: 3_pipes_client_server,    *)
(* 5_fifo with parent and child, 5_fifo with two programs, and             *)
(* 6_stream_messages, which puts a header before the text.  A stream ends  *)
(* for its reader when no process has it open for writing, and a writer    *)
(* without readers is killed by SIGPIPE.                                   *)
(***************************************************************************)
EXTENDS Transfer

CONSTANTS
  Capacity,   \* the units that a stream holds
  PIPE_BUFs   \* the values PIPE_BUF may have: 4096 on Linux, 512 elsewhere

StreamPrograms == {"3_pipes", "5_fifo", "5_fifo_server", "6_stream_messages"}

VARIABLES
  fifos,      \* the names FIFO1 and FIFO2 that exist, as 1 and 2
  stream,     \* what is in the streams: 1 to the server, 2 to the client
  ends,       \* the ends that are open: <<party, stream, "read" or "write">>
  PIPE_BUF,   \* a write of at most that many units is not split
  written,    \* what a party has written of the text it is sending
  mesg_len    \* of the header that a party has read

streamVars == <<fifos, stream, ends, PIPE_BUF, written, mesg_len>>

Both == {1, 2}
In(x)  == IF x = "client" THEN 2 ELSE 1
Out(x) == 3 - In(x)
Readers(c) == {x \in Parties : <<x, c, "read">> \in ends}
Writers(c) == {x \in Parties : <<x, c, "write">> \in ends}
EndsOf(x) == {e \in ends : e[1] = x}
Kept(x) == {<<x, In(x), "read">>, <<x, Out(x), "write">>}

\* A header is one unit, the mesg_len; mesg_type says nothing on a stream.
Header == program = "6_stream_messages"
Forks == program # "5_fifo_server"
Named == program # "3_pipes"
Creator == IF Forks THEN "client" ELSE "server"

\* The FIFOs may be there: a killed run leaves some.
StreamsInit ==
  /\ fifos \in IF Named THEN SUBSET Both ELSE {{}}
  /\ PIPE_BUF \in PIPE_BUFs
  /\ stream = [c \in Both |-> <<>>]
  /\ ends = {}
  /\ written = [x \in Parties |-> 0]
  /\ mesg_len = [x \in Parties |-> 0]

-----------------------------------------------------------------------------
(* main() *)

\* pipe twice, or mknod twice: an existing FIFO is as good.
Create ==
  /\ At(Creator, "main", IF Forks THEN "fork" ELSE "opening")
  /\ fifos' = IF Named THEN Both ELSE fifos
  /\ ends' = IF Named THEN ends ELSE {Creator} \X Both \X {"read", "write"}
  /\ UNCHANGED <<dataVars, stream, PIPE_BUF, written, mesg_len>>

\* The child inherits the ends of the pipes.
Fork ==
  /\ at["client"] = "fork"
  /\ at' = [x \in Parties |-> IF Named THEN "opening" ELSE "close"]
  /\ ends' = IF Named THEN ends ELSE Parties \X Both \X {"read", "write"}
  /\ UNCHANGED <<program, dataVars, fifos, stream, PIPE_BUF, written, mesg_len>>

Start(x) == IF x = "client" THEN "ask" ELSE "receive"

\* Bug: the parent keeps its end for writing of the server's pipe.
CloseUnusedRead(x) ==
  /\ At(x, "close", Start(x))
  /\ ends' = ends \ {<<x, Out(x), "read">>}
  /\ UNCHANGED <<dataVars, fifos, stream, PIPE_BUF, written, mesg_len>>

\* Each party closes the two ends of the other.
CloseUnused(x) ==
  /\ At(x, "close", Start(x))
  /\ ends' = (ends \ EndsOf(x)) \cup Kept(x)
  /\ UNCHANGED <<dataVars, fifos, stream, PIPE_BUF, written, mesg_len>>

\* fifo_client opens what the server has made, or fails and is started again.
ClientStart ==
  /\ ~Forks /\ 1 \in fifos
  /\ At("client", "main", "opening")
  /\ UNCHANGED <<dataVars, streamVars>>

\* Bug: the child opens FIFO2 first.
OpensSwapped(x) == IF x = "client" THEN <<1, 2>> ELSE <<2, 1>>

\* The order of the two calls of open.
Opens(x) == <<1, 2>>

\* open of a FIFO waits for the other side; then both return.
OpenBoth(c) ==
  /\ c \in fifos
  /\ \A x \in Parties :
       /\ at[x] = "opening"
       /\ Opens(x)[Cardinality(EndsOf(x)) + 1] = c
  /\ ends' = ends \cup {e \in Kept("client") \cup Kept("server") : e[2] = c}
  /\ at' = [x \in Parties |-> IF EndsOf(x) = {} THEN "opening" ELSE Start(x)]
  /\ UNCHANGED <<program, dataVars, fifos, stream, PIPE_BUF, written, mesg_len>>

-----------------------------------------------------------------------------
(* write, and mesg_send *)

\* What is written at a place; the end of the file is a header of 0, or nothing.
Frame(x, here) ==
  IF here = "end" THEN IF Header THEN <<0>> ELSE <<>>
  ELSE IF Header THEN <<Len(buff[x])>> \o buff[x] ELSE buff[x]

\* write returns when all of it is in the stream.
Write(x) == \E s \in SendsOf(x) :
  LET frame == Frame(x, s[1])
      left == Len(frame) - written[x]
  IN  /\ at[x] = s[1]
      /\ \/ /\ left > 0 /\ Readers(Out(x)) = {}      \* SIGPIPE
            /\ At(x, s[1], "error")
            /\ UNCHANGED <<stream, written>>
         \/ /\ left = 0 \/ Readers(Out(x)) # {}
            /\ \E n \in IF Len(frame) =< PIPE_BUF THEN {left} ELSE 1 .. left :
                 /\ Len(stream[Out(x)]) + n =< Capacity
                 /\ stream' = [stream EXCEPT
                      ![Out(x)] = @ \o SubSeq(frame, written[x] + 1, written[x] + n)]
                 /\ At(x, s[1], IF n = left THEN s[2] ELSE s[1])
                 /\ written' = [written EXCEPT ![x] = IF n = left THEN 0 ELSE @ + n]
      /\ UNCHANGED <<dataVars, fifos, ends, PIPE_BUF, mesg_len>>

-----------------------------------------------------------------------------
(* read, and mesg_recv *)

Take(x, n) ==
  stream' = [stream EXCEPT ![In(x)] = SubSeq(@, n + 1, Len(@))]

\* read of as much as there is, at most n.
ReadInto(x, n) ==
  /\ Take(x, n)
  /\ buff' = [buff EXCEPT ![x] = SubSeq(stream[In(x)], 1, n)]

AtEnd(x) == stream[In(x)] = <<>> /\ Writers(In(x)) = {}

ReadText(x) ==
  /\ ~Header /\ at[x] = "receive"
  /\ \/ AtEnd(x) /\ At(x, "receive", Ended(x)) /\ UNCHANGED <<buff, stream>>
     \/ /\ stream[In(x)] # <<>>
        /\ At(x, "receive", Got(x))
        /\ ReadInto(x, Smaller(MAXBUFF, Len(stream[In(x)])))
  /\ UNCHANGED <<name, target, offset, printed, fifos, ends, PIPE_BUF,
                 written, mesg_len>>

\* The header is the last in the stream and its write was split, maybe inside of it.
MayBeCut(x) ==
  Len(stream[In(x)]) = 1 /\ PIPE_BUF < 1 + Head(stream[In(x)])

\* An end of the stream and a header of 0 are the same to the caller.  A part of a header is
\* an err_sys.
ReadHeader(x) ==
  /\ Header /\ at[x] = "receive"
  /\ \/ AtEnd(x) /\ At(x, "receive", Ended(x)) /\ UNCHANGED <<stream, mesg_len>>
     \/ /\ stream[In(x)] # <<>>
        /\ At(x, "receive", IF Head(stream[In(x)]) = 0 THEN Ended(x) ELSE "data")
        /\ Take(x, 1)
        /\ mesg_len' = [mesg_len EXCEPT ![x] = Head(stream[In(x)])]
     \/ MayBeCut(x) /\ At(x, "receive", "error") /\ Take(x, 1) /\ UNCHANGED mesg_len
  /\ UNCHANGED <<dataVars, fifos, ends, PIPE_BUF, written>>

\* Bug: reads as much as the buffer holds.
ReadDataAll(x) ==
  LET n == Smaller(MAXBUFF, Len(stream[In(x)]))
  IN  /\ at[x] = "data"
      /\ stream[In(x)] # <<>> \/ AtEnd(x)
      /\ At(x, "data", IF n = mesg_len[x] THEN Got(x) ELSE "error")
      /\ ReadInto(x, n)
      /\ UNCHANGED <<name, target, offset, printed, fifos, ends, PIPE_BUF,
                     written, mesg_len>>

\* One read for the text: a short one is an err_sys.
ReadData(x) ==
  LET n == Smaller(mesg_len[x], Len(stream[In(x)]))
  IN  /\ at[x] = "data"
      /\ stream[In(x)] # <<>> \/ AtEnd(x)
      /\ At(x, "data", IF n = mesg_len[x] THEN Got(x) ELSE "error")
      /\ ReadInto(x, n)
      /\ UNCHANGED <<name, target, offset, printed, fifos, ends, PIPE_BUF,
                 written, mesg_len>>

-----------------------------------------------------------------------------
(* The end *)

Closes(x) == ends' = ends \ EndsOf(x)

\* Bug: nobody removes the FIFOs.
ClientEndLeaves ==
  /\ Forks => at["server"] \in Over
  /\ At("client", "wait", "done")
  /\ Closes("client")
  /\ UNCHANGED <<dataVars, fifos, stream, PIPE_BUF, written, mesg_len>>

\* A parent waits for its child; then close and unlink.
ClientEnd ==
  /\ Forks => at["server"] \in Over
  /\ At("client", "wait", "done")
  /\ Closes("client")
  /\ fifos' = IF Named THEN {} ELSE fifos
  /\ UNCHANGED <<dataVars, stream, PIPE_BUF, written, mesg_len>>

ServerEnd ==
  /\ At("server", "exit", "done")
  /\ Closes("server")
  /\ UNCHANGED <<dataVars, fifos, stream, PIPE_BUF, written, mesg_len>>

\* The kernel closes the ends of a party that fails or is killed.
Fails(x) ==
  /\ Fail(x)
  /\ Closes(x)
  /\ UNCHANGED <<dataVars, fifos, stream, PIPE_BUF, written, mesg_len>>

StreamKill(x) ==
  /\ Kill(x)
  /\ Closes(x)
  /\ UNCHANGED <<dataVars, fifos, stream, PIPE_BUF, written, mesg_len>>

StreamStep(x) ==
  \/ x = Creator /\ Create
  \/ x = "client" /\ (Fork \/ ClientStart \/ ClientEnd)
  \/ x = "server" /\ ServerEnd
  \/ \E c \in Both : OpenBoth(c)
  \/ CloseUnused(x) \/ Write(x) \/ ReadText(x) \/ ReadHeader(x) \/ ReadData(x) \/ Fails(x)
  \/ Functions(x) /\ UNCHANGED streamVars
=============================================================================
