---------------------------- MODULE FileTransfer ----------------------------
(***************************************************************************)
(* What every client and server pair of chapter 3 is for: the client names *)
(* a file, and what it prints is that file, or a message that the server   *)
(* could not open it.  The pairs differ in how the data travel.            *)
(***************************************************************************)
EXTENDS Sequences, Naturals

CONSTANTS File,     \* the data of the file
          Message   \* the server's message

VARIABLES reply,    \* what the server answers: fixed by what is found under the name
          printed   \* what is on the client's standard output

vars == <<reply, printed>>

\* The last is for an empty file, one that opens but cannot be read, or no name at all.
Replies == {File, Message, <<>>}

Init == reply \in Replies /\ printed = <<>>

\* The next part of the reply, in order.
PrintSome ==
  /\ \E n \in Len(printed) + 1 .. Len(reply) : printed' = SubSeq(reply, 1, n)
  /\ UNCHANGED reply

Spec == Init /\ [][PrintSome]_vars

\* The whole reply arrives.
FairSpec == Spec /\ WF_vars(PrintSome)
=============================================================================
