------------------------------- MODULE Queues -------------------------------
(***************************************************************************)
(* The pairs that talk through System V message queues: 7_system_v_ipc     *)
(* with a queue in each direction, 8_multiplexing_messages with one queue  *)
(* and a message type for each direction.  A message of no text ends the   *)
(* file, and then the client removes the queues.                           *)
(***************************************************************************)
EXTENDS Transfer

CONSTANTS msg_qbytes   \* the units, and the messages, that a queue holds

QueuePrograms == {"7_system_v_ipc", "8_multiplexing_messages"}

VARIABLES
  live,     \* the keys that have a queue, of MKEY1 and MKEY2 as 1 and 2
  queue     \* the messages in each, oldest first: their mesg_type and text

queueVars == <<live, queue>>

One == program = "8_multiplexing_messages"
Keys == IF One THEN {1} ELSE {1, 2}
QIn(x)  == IF ~One /\ x = "client" THEN 2 ELSE 1
QOut(x) == IF ~One /\ x = "server" THEN 2 ELSE 1
\* The mesg_type that x sends with; the other asks for it.
TypeOf(x) == IF One /\ x = "server" THEN 2 ELSE 1

QueuesInit == live = {} /\ queue = [k \in {1, 2} |-> <<>>]

-----------------------------------------------------------------------------
\* msgget(IPC_CREAT), for one key after the other.
ServerGet ==
  /\ \E k \in Keys :
       /\ k \notin live /\ \A j \in Keys : j < k => j \in live
       /\ live' = live \cup {k}
       /\ At("server", "main", IF live' = Keys THEN "receive" ELSE "main")
  /\ UNCHANGED <<dataVars, queue>>

\* msgget fails until the server has created the queues; the user tries again.
ClientGet ==
  /\ live = Keys
  /\ At("client", "main", "ask")
  /\ UNCHANGED <<dataVars, queueVars>>

\* The units of text in a queue, each known by its message and its place in the text.
Size(q) == Cardinality(UNION {{i} \X DOMAIN q[i].text : i \in DOMAIN q})

\* msgsnd waits for room; for a queue that is removed it fails.
Send(x) == \E s \in SendsOf(x) :
  LET q == queue[QOut(x)]
      text == IF s[1] = "end" THEN <<>> ELSE buff[x]
  IN  /\ at[x] = s[1]
      /\ \/ /\ QOut(x) \notin live
            /\ At(x, s[1], "error")
            /\ UNCHANGED queue
         \/ /\ QOut(x) \in live
            /\ Size(q) + Len(text) =< msg_qbytes /\ Len(q) < msg_qbytes
            /\ At(x, s[1], s[2])
            /\ queue' = [queue EXCEPT
                 ![QOut(x)] = Append(@, [mesg_type |-> TypeOf(x), text |-> text])]
      /\ UNCHANGED <<dataVars, live>>

Without(q, i) == SubSeq(q, 1, i - 1) \o SubSeq(q, i + 1, Len(q))

\* Bug: the first message, whatever its type.
ReceiveAny(x) ==
  LET q == queue[QIn(x)]
  IN  /\ q # <<>>
      /\ At(x, "receive", IF q[1].text = <<>> THEN Ended(x) ELSE Got(x))
      /\ queue' = [queue EXCEPT ![QIn(x)] = Tail(@)]
      /\ buff' = [buff EXCEPT ![x] = q[1].text]
      /\ UNCHANGED <<name, target, offset, printed, live>>

\* msgrcv waits for a message of the type; err_dump when the queue is removed.
Receive(x) ==
  LET q == queue[QIn(x)]
  IN  \/ /\ QIn(x) \notin live
         /\ At(x, "receive", "error")
         /\ UNCHANGED <<dataVars, queueVars>>
      \/ \E i \in DOMAIN q :
           /\ q[i].mesg_type = TypeOf(Other(x))
           /\ \A j \in 1 .. i - 1 : q[j].mesg_type # TypeOf(Other(x))
           /\ At(x, "receive", IF q[i].text = <<>> THEN Ended(x) ELSE Got(x))
           /\ queue' = [queue EXCEPT ![QIn(x)] = Without(@, i)]
           /\ buff' = [buff EXCEPT ![x] = q[i].text]
           /\ UNCHANGED <<name, target, offset, printed, live>>

\* IPC_RMID: the client removes what the server has created.
ClientRemove ==
  /\ At("client", "wait", "done")
  /\ live' = {} /\ queue' = [k \in {1, 2} |-> <<>>]
  /\ UNCHANGED dataVars

ServerEnd ==
  /\ At("server", "exit", "done")
  /\ UNCHANGED <<dataVars, queueVars>>

\* The queues stay when a party fails or is killed.
QueueStep(x) ==
  \/ x = "server" /\ (ServerGet \/ ServerEnd)
  \/ x = "client" /\ (ClientGet \/ ClientRemove)
  \/ Send(x) \/ Receive(x)
  \/ Functions(x) /\ UNCHANGED queueVars
  \/ Fail(x) /\ UNCHANGED <<dataVars, queueVars>>

QueueKill(x) == Kill(x) /\ UNCHANGED <<dataVars, queueVars>>
=============================================================================
