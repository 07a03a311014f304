----------------------------- MODULE Transfers ------------------------------
(***************************************************************************)
(* One of the six client and server pairs of chapter 3 that send the file  *)
(* through the kernel: Streams has the steps of four, Queues of two.       *)
(***************************************************************************)
EXTENDS Transfer

CONSTANTS Capacity, PIPE_BUFs, msg_qbytes

VARIABLES fifos, stream, ends, PIPE_BUF, written, mesg_len, live, queue

S == INSTANCE Streams
Q == INSTANCE Queues

ASSUME KernelAssumption ==
  /\ Capacity \in Nat /\ PIPE_BUFs \subseteq 1 .. Capacity
  /\ \A n \in PIPE_BUFs : Len(Name) =< n      \* a file name is shorter than 512 bytes
  /\ msg_qbytes \in Nat /\ msg_qbytes >= MAXBUFF

\* The file, the message and the name are texts; the message is not an empty one.
ASSUME TextAssumption ==
  /\ \A text \in {File, Message, Name} : text \in Seq({text[k] : k \in DOMAIN text})
  /\ Message # <<>>

streams == <<fifos, stream, ends, PIPE_BUF, written, mesg_len>>
queues == <<live, queue>>
vars == <<transferVars, streams, queues>>

Streaming == program \in S!StreamPrograms

\* A child is not there before the fork; who is no child is started by the user.
Init ==
  /\ program \in S!StreamPrograms \cup Q!QueuePrograms
  /\ at = [client |-> "main", server |-> IF Streaming /\ S!Forks THEN "unborn" ELSE "main"]
  /\ TransferInit
  /\ IF Streaming THEN S!StreamsInit
     ELSE /\ fifos = {} /\ stream = <<>> /\ ends = {} /\ PIPE_BUF = 0
          /\ written = <<>> /\ mesg_len = <<>>
  /\ Q!QueuesInit

Step(x) ==
  \/ Streaming /\ S!StreamStep(x) /\ UNCHANGED queues
  \/ ~Streaming /\ Q!QueueStep(x) /\ UNCHANGED streams

Killed(x) ==
  \/ Streaming /\ S!StreamKill(x) /\ UNCHANGED queues
  \/ ~Streaming /\ Q!QueueKill(x) /\ UNCHANGED streams

Next == \E x \in Parties : Step(x) \/ Killed(x)

Spec == Init /\ [][Next]_vars

\* Both are scheduled; the user starts what has to be started, and types a name.
FairSpec == Spec /\ \A x \in Parties : WF_vars(Step(x))

-----------------------------------------------------------------------------
(* Properties *)

\* Types; that no read overruns a buffer, no pipe or queue its bounds.
TypeOK ==
  /\ TransferTypeOK
  /\ fifos \subseteq {1, 2} /\ live \subseteq {1, 2}
  /\ ends \subseteq Parties \X {1, 2} \X {"read", "write"}
  /\ \A c \in DOMAIN stream : Len(stream[c]) =< Capacity
  /\ \A k \in {1, 2} : Q!Size(queue[k]) =< msg_qbytes

Disturbed == \E x \in Parties : at[x] = "dead"

\* A message that write may split, which the single read of mesg_recv does not put together.
MaySplit == program = "6_stream_messages" /\ PIPE_BUF < MAXBUFF + 1

\* A name was typed of what the server can send, or of nothing at all.
Answerable == name # <<>> /\ target # "directory"

Reply ==
  IF ~Answerable THEN <<>> ELSE IF target = "absent" THEN Message ELSE Contents

\* err_sys is for a bad name or a killed partner: the protocol itself never makes a call of
\* either side fail (read, write, mesg_send, mesg_recv, msgsnd, msgrcv), at the end neither.
ErrorsJustified ==
  \A x \in Parties : at[x] = "error" => ~Answerable \/ Disturbed \/ MaySplit

\* When both have ended by exit, no FIFO and no queue is left (fifo.c, main.c, client.c).
NothingLeft == (\A x \in Parties : at[x] = "done") => fifos = {} /\ live = {}

\* What the client prints is the reply, from its beginning and in order.
FT == INSTANCE FileTransfer WITH reply <- Reply
PrintsInOrder == FT!Spec

Undisturbed == []~Disturbed /\ Answerable /\ ~MaySplit

\* The whole reply is printed if nobody is killed.
PrintsAll == Undisturbed => <>(printed = Reply)

\* Neither waits for the other for ever: in open, read, write, wait, msgsnd or msgrcv.
BothEnd == Undisturbed => <>(\A x \in Parties : at[x] = "done")

\* On a stream, a party that ends in any way ends the other, which may be reading, writing
\* or waiting for its child: no end of a pipe is left open for it.  (A party that is still in
\* open waits for a partner that never comes.)
EndIsSeen ==
  \A x \in Parties :
    Streaming /\ at[Other(x)] \in Over /\ at[x] \notin {"unborn", "main", "opening"}
      ~> at[x] \in Over
=============================================================================
