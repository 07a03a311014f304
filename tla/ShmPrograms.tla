----------------------------- MODULE ShmPrograms ----------------------------
(***************************************************************************)
(* The two programs of chapter 3 that use shared memory, side by side:     *)
(* the same session around two protocols, promising the same transfer.     *)
(* A behaviour is one run of one of the programs.                          *)
(***************************************************************************)
EXTENDS ShmSession

CONSTANTS
  Programs,             \* of "10_shared_memory" and "11_multi_buffer"
  NBUFF, File, Name, Message

VARIABLES program, mesg, mesgptr, i, exists, offset, printed

vars == <<program, sessionVars, mesg, mesgptr, i, exists, offset, printed>>

One == INSTANCE SharedMem
Multi == INSTANCE MultiBuffer

Single == program = "10_shared_memory" /\ UNCHANGED <<program, mesgptr, i>>
Ring   == program = "11_multi_buffer" /\ UNCHANGED <<program, mesg>>
InMain == UNCHANGED <<program, mesg, mesgptr, i, exists, offset, printed>>

\* main() of each program, and the function client() or server() that it calls.
ClientRuns == (Single /\ One!Client) \/ (Ring /\ Multi!Client) \/ (InMain /\ ClientMain)
ServerRuns == (Single /\ One!Server) \/ (Ring /\ Multi!Server) \/ (InMain /\ ServerMain)

Death == InMain /\ \E x \in Parties : Dies(x)

Init == program \in Programs /\ One!Init /\ Multi!Init
Next == ClientRuns \/ ServerRuns \/ Death
Spec == Init /\ [][Next]_vars

\* Both programs are started and scheduled, and semop serves sleepers in turn.
FairSpec == Spec /\ SF_vars(ClientRuns) /\ SF_vars(ServerRuns)

-----------------------------------------------------------------------------
TypeOK == One!TypeOK /\ Multi!TypeOK /\ program \in Programs

\* The segment of 10_shared_memory has one owner, and both semaphores count it.
OneOwner == program = "10_shared_memory" => One!OneOwner

\* Client and server of 11_multi_buffer are never in the same buffer.
BuffersDisjoint == program = "11_multi_buffer" => Multi!BuffersDisjoint

\* The semaphores of 11_multi_buffer account for every buffer.
BuffersConserved == program = "11_multi_buffer" => Multi!BuffersConserved

\* Either client prints the reply in order, and all of it.
PrintsInOrder == One!PrintsInOrder
PrintsAll == One!PrintsAll

\* The end that the order of the last steps guarantees: the server of 10_shared_memory,
\* which waits for nobody, and the client of 11_multi_buffer, which the server's poll
\* protects from the server's undo.
EarlierEnds ==
  /\ program = "10_shared_memory" => ServerEnds
  /\ program = "11_multi_buffer" => ClientEnds

\* The client of 10_shared_memory comes to its end: "The server, after finishing, will send
\* an empty message, and closes the semaphores. ... The client will also close its defined
\* semaphores." (10_shared_memory/server.c:40-44)
EmptyMessageEndsClient == program = "10_shared_memory" => ClientEnds

\* The server of 11_multi_buffer gets past its poll: "Lastly, the semaphores are closed (We
\* are not sure which process is the one which removes it from the system, but it is done by
\* sem_close by itself)." (11_multi_buffer/server.c:29-30)
PollEndsServer == program = "11_multi_buffer" => ServerEnds
=============================================================================
