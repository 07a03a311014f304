------------------------------ MODULE Transfer ------------------------------
(***************************************************************************)
(* The client() and server() functions that the programs of 3_pipes, 5_fifo*)
(* and 6 to 8 have in common: the client sends a name, the server opens    *)
(* the file and sends what it reads, the client prints what it receives.   *)
(* The modules that extend this one say how data travel; text is a         *)
(* sequence of units, and a read takes at most MAXBUFF of them.            *)
(***************************************************************************)
EXTENDS Integers, Sequences, FiniteSets

CONSTANTS
  File,       \* the contents of the file
  Message,    \* the message that it cannot be opened
  Name,       \* the name the user types, unless it is an empty line
  MAXBUFF,    \* MAXBUFF, or MAXMESGDATA
  Killable    \* the parties that may be killed

ASSUME TransferAssumption ==
  /\ MAXBUFF \in Nat \ {0} /\ Len(Name) \in 1 .. MAXBUFF /\ Len(Message) =< MAXBUFF

Parties == {"client", "server"}
Other(x) == IF x = "client" THEN "server" ELSE "client"

VARIABLES
  program,    \* which program runs
  at,         \* where each party is
  name,       \* what the user types
  target,     \* what open finds
  offset,     \* the server's offset in the file
  buff,       \* buff, or mesg.mesg_data, of each party
  printed     \* the client's standard output

dataVars == <<name, target, offset, buff, printed>>
transferVars == <<program, at, dataVars>>

Targets == {"file", "empty", "absent", "directory"}

\* What there is to read under the name.
Contents == IF target = "file" THEN File ELSE <<>>

TransferInit ==
  /\ name \in {Name, <<>>}
  /\ target \in Targets
  /\ offset = 0
  /\ buff = [x \in Parties |-> <<>>]
  /\ printed = <<>>

Labels == {"unborn", "main", "fork", "close", "opening", "ask", "send", "send_message",
           "receive", "data", "print", "open", "file", "end", "exit", "wait",
           "error", "done", "failed", "dead"}

\* A party that has ended: by exit, by err_sys or SIGPIPE, or killed.
Over == {"done", "failed", "dead"}

At(x, here, there) ==
  at[x] = here /\ at' = [at EXCEPT ![x] = there] /\ UNCHANGED program

Smaller(m, n) == IF m < n THEN m ELSE n

\* Where a party goes with text that it has received, and at the end of it.
Got(x)   == IF x = "client" THEN "print" ELSE "open"
Ended(x) == IF x = "client" THEN "wait" ELSE "error"

-----------------------------------------------------------------------------
(* client() *)

\* fgets, less the newline
ClientName ==
  /\ At("client", "ask", "send")
  /\ buff' = [buff EXCEPT !["client"] = name]
  /\ UNCHANGED <<name, target, offset, printed>>

ClientPrint ==
  /\ At("client", "print", "receive")
  /\ printed' = printed \o buff["client"]
  /\ UNCHANGED <<name, target, offset, buff>>

-----------------------------------------------------------------------------
(* server() *)

\* open; when it fails the message takes the place of the name.
ServerOpen ==
  LET opens == target # "absent" /\ buff["server"] = name
  IN  /\ At("server", "open", IF opens THEN "file" ELSE "send_message")
      /\ buff' = IF opens THEN buff ELSE [buff EXCEPT !["server"] = Message]
      /\ UNCHANGED <<name, target, offset, printed>>

\* Bug: reads one more than the buffer holds.
ServerFileOver ==
  LET n == Smaller(MAXBUFF + 1, Len(Contents) - offset)
  IN  /\ At("server", "file", IF n > 0 THEN "send" ELSE "end")
      /\ buff' = [buff EXCEPT !["server"] = SubSeq(Contents, offset + 1, offset + n)]
      /\ offset' = offset + n
      /\ UNCHANGED <<name, target, printed>>

\* Bug: a short read is taken for the end.
ServerFileFull ==
  LET n == Smaller(MAXBUFF, Len(Contents) - offset)
  IN  /\ At("server", "file", IF n = MAXBUFF THEN "send" ELSE "end")
      /\ buff' = [buff EXCEPT !["server"] = SubSeq(Contents, offset + 1, offset + n)]
      /\ offset' = offset + n
      /\ UNCHANGED <<name, target, printed>>

\* read(filefd), until it returns 0.  That of a directory fails; the programs that look
\* with fstat first also end in err_sys.
ServerFile ==
  LET n == Smaller(MAXBUFF, Len(Contents) - offset)
  IN  \/ /\ target = "directory"
         /\ At("server", "file", "error")
         /\ UNCHANGED dataVars
      \/ /\ target # "directory"
         /\ At("server", "file", IF n > 0 THEN "send" ELSE "end")
         /\ buff' = [buff EXCEPT !["server"] = SubSeq(Contents, offset + 1, offset + n)]
         /\ offset' = offset + n
         /\ UNCHANGED <<name, target, printed>>

Functions(x) ==
  \/ x = "client" /\ (ClientName \/ ClientPrint)
  \/ x = "server" /\ (ServerOpen \/ ServerFile)

\* The send of x at each place, and where it goes on.
SendsOf(x) ==
  IF x = "client" THEN {<<"send", "receive">>}
  ELSE {<<"send", "file">>, <<"send_message", "end">>, <<"end", "exit">>}

\* err_sys and SIGPIPE end a party; so does a signal, at any place.
Fail(x) == At(x, "error", "failed")
Kill(x) ==
  /\ x \in Killable /\ at[x] \notin Over \cup {"unborn", "error"}
  /\ At(x, at[x], "dead")

-----------------------------------------------------------------------------
TransferTypeOK ==
  /\ at \in [Parties -> Labels]
  /\ name \in {Name, <<>>} /\ target \in Targets
  /\ offset \in 0 .. Len(File)
  /\ \A x \in Parties : Len(buff[x]) =< MAXBUFF
  /\ Len(printed) =< Len(File) + Len(Message)
=============================================================================
