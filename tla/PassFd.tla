------------------------------- MODULE PassFd --------------------------------
(***************************************************************************)
(* 7.passing_file_descriptor: mycat opens each of its files through my_open: *)
(* a child executes openfile, which opens the file, sends the descriptor   *)
(* over a stream pipe and ends; the parent waits for it, and receives the  *)
(* descriptor that is on its way in a socket nobody else has any more.     *)
(* mycat closes no file.                                                   *)
(***************************************************************************)
EXTENDS Integers, Sequences, FiniteSets, SequencesExt

CONSTANTS
  Argvs,        \* the lists of file names mycat is called with
  Contents,     \* the blocks of each file that can be opened
  NOFILE,       \* bound: descriptors a process may have besides 0, 1 and 2
  MaxPassFaults \* bound: calls that fail for another reason, and openfiles killed

ASSUME PassFdAssumption ==
  /\ \A v \in Argvs : v \in Seq(STRING)
  /\ \A f \in DOMAIN Contents : Contents[f] \in Seq(Int)
  /\ NOFILE \in Nat /\ MaxPassFaults \in Nat

VARIABLES
  argv,         \* the file names
  arg,          \* the index of the one that is worked on
  cat_at,       \* where mycat is
  fd,           \* what my_open returns: a file, "-1", or a number that is no descriptor
  errno,
  opened,       \* the files mycat has open
  sfd,          \* <<p, end>>: process p has that end of the stream pipe
  flight,       \* descriptors that are in the pipe
  opener_at,    \* where the child is
  opener_fd,    \* the file it has opened
  status,       \* its exit status, or "signal"
  offset,       \* blocks read of the file
  cat_shown,    \* what mycat has written
  failed_calls

passVars == <<argv, arg, cat_at, fd, errno, opened, sfd, flight, opener_at, opener_fd, status,
              offset, cat_shown, failed_calls>>

catVars == <<argv, arg, fd, errno, opened, offset, cat_shown>>
openerVars == <<opener_at, opener_fd, status>>

PassInit ==
  /\ argv \in Argvs
  /\ arg = 1
  /\ cat_at = IF argv = <<>> THEN "read" ELSE "s_pipe"
  /\ fd = "stdin" /\ errno = "0"
  /\ opened = {} /\ sfd = {} /\ flight = {}
  /\ opener_at = "none" /\ opener_fd = "-1" /\ status = "0"
  /\ offset = 0 /\ cat_shown = <<>> /\ failed_calls = 0

\* A call may fail.
Fault == failed_calls < MaxPassFaults /\ failed_calls' = failed_calls + 1

CatGoes(here, there) == cat_at = here /\ cat_at' = there

-----------------------------------------------------------------------------
(* my_open, in mycat *)

\* s_pipe takes two descriptors; mycat has every file still open that it has read.
SPipe ==
  /\ cat_at = "s_pipe"
  /\ IF Cardinality(opened) + 2 > NOFILE
     THEN /\ fd' = "-1" /\ errno' = "EMFILE" /\ cat_at' = "opened"
          /\ UNCHANGED sfd
     ELSE /\ sfd' = {"parent"} \X {0, 1} /\ cat_at' = "fork"
          /\ UNCHANGED <<fd, errno>>
  /\ UNCHANGED <<argv, arg, opened, flight, openerVars, offset, cat_shown, failed_calls>>

\* err_sys ends mycat.
PassFork ==
  /\ \/ /\ CatGoes("fork", "close1")
        /\ sfd' = sfd \cup {"child"} \X {0, 1}
        /\ opener_at' = "close0" /\ opener_fd' = "-1" /\ status' = "0"
        /\ UNCHANGED failed_calls
     \/ /\ CatGoes("fork", "failed") /\ Fault
        /\ sfd' = {}
        /\ UNCHANGED openerVars
  /\ UNCHANGED <<catVars, flight>>

CloseSfd1 ==
  /\ CatGoes("close1", "wait")
  /\ sfd' = sfd \ {<<"parent", 1>>}
  /\ UNCHANGED <<catVars, flight, openerVars, failed_calls>>

\* Bug: the exit status is not looked at.
WaitAnyway ==
  /\ cat_at = "wait" /\ opener_at = "zombie"
  /\ opener_at' = "none"
  /\ cat_at' = "recvmsg"
  /\ UNCHANGED <<catVars, sfd, flight, opener_fd, status, failed_calls>>

\* A child killed by a signal ends mycat too; else its exit status is 0 or its errno.
Wait ==
  /\ cat_at = "wait" /\ opener_at = "zombie"
  /\ opener_at' = "none"
  /\ IF status = "0" THEN cat_at' = "recvmsg" /\ UNCHANGED <<fd, errno>>
     ELSE IF status = "signal" THEN cat_at' = "failed" /\ UNCHANGED <<fd, errno>>
     ELSE cat_at' = "close0" /\ fd' = "-1" /\ errno' = status
  /\ UNCHANGED <<argv, arg, opened, offset, cat_shown, sfd, flight, opener_fd, status,
                 failed_calls>>

\* my_recvfile.  A message without a descriptor is the end of the program; an error of
\* recvmsg is returned as if it were one.
Recvfile ==
  /\ cat_at = "recvmsg"
  /\ \/ /\ IF flight = {} THEN cat_at' = "failed" /\ UNCHANGED <<fd, opened, flight>>
           ELSE \E f \in flight :
             /\ fd' = f /\ opened' = opened \cup {<<arg, f>>} /\ flight' = flight \ {f}
             /\ cat_at' = "close0"
        /\ UNCHANGED failed_calls
     \/ /\ Fault
        /\ fd' = "ENOMEM" /\ cat_at' = "close0"
        /\ UNCHANGED <<opened, flight>>
  /\ UNCHANGED <<argv, arg, errno, offset, cat_shown, sfd, openerVars>>

\* What is still in the pipe goes with it.
CloseSfd0 ==
  /\ CatGoes("close0", "opened")
  /\ sfd' = {} /\ flight' = {}
  /\ UNCHANGED <<catVars, openerVars, failed_calls>>

-----------------------------------------------------------------------------
(* main of mycat *)

\* while (++i < argc)
NextFile ==
  /\ arg' = arg + 1
  /\ cat_at' = IF arg < Len(argv) THEN "s_pipe" ELSE "done"

Opened ==
  /\ cat_at = "opened"
  /\ offset' = 0
  /\ IF fd = "-1" THEN NextFile ELSE cat_at' = "read" /\ UNCHANGED arg
  /\ UNCHANGED <<argv, fd, errno, opened, cat_shown, sfd, flight, openerVars, failed_calls>>

\* A number that is no descriptor is EBADF; or it is that of an earlier file, at its end.
CatRead ==
  /\ cat_at = "read"
  /\ \/ /\ fd \in DOMAIN Contents /\ offset < Len(Contents[fd])
        /\ cat_at' = "write"
        /\ UNCHANGED arg
     \/ /\ fd \in DOMAIN Contents => offset = Len(Contents[fd])
        /\ fd \in DOMAIN Contents \/ opened # {}
        /\ NextFile
     \/ /\ fd \notin DOMAIN Contents
        /\ cat_at' = "failed"
        /\ UNCHANGED arg
  /\ UNCHANGED <<argv, fd, errno, opened, offset, cat_shown, sfd, flight, openerVars, failed_calls>>

\* Anything but a full write ends the program.
CatWrite ==
  /\ cat_at = "write"
  /\ \/ /\ cat_at' = "read"
        /\ offset' = offset + 1
        /\ cat_shown' = Append(cat_shown, <<arg, Contents[fd][offset + 1]>>)
        /\ UNCHANGED failed_calls
     \/ Fault /\ cat_at' = "failed" /\ UNCHANGED <<offset, cat_shown>>
  /\ UNCHANGED <<argv, arg, fd, errno, opened, sfd, flight, openerVars>>

-----------------------------------------------------------------------------
(* The child: my_open, then openfile *)

OpenerEnds(with) ==
  /\ opener_at' = "zombie" /\ status' = with
  /\ sfd' = sfd \ ({"child"} \X {0, 1})

CloseInChild ==
  /\ opener_at = "close0"
  /\ sfd' = sfd \ {<<"child", 0>>}
  /\ opener_at' = "execl"
  /\ UNCHANGED <<catVars, cat_at, flight, opener_fd, status, failed_calls>>

\* err_sys exits with 1, which is EPERM for the parent.
Execl ==
  /\ opener_at = "execl"
  /\ \/ opener_at' = "open" /\ UNCHANGED <<status, sfd, failed_calls>>
     \/ Fault /\ OpenerEnds("EPERM")
  /\ UNCHANGED <<catVars, cat_at, flight, opener_fd>>

Openfile ==
  /\ opener_at = "open"
  /\ IF argv[arg] \in DOMAIN Contents
     THEN opener_fd' = argv[arg] /\ opener_at' = "sendmsg" /\ UNCHANGED <<status, sfd>>
     ELSE OpenerEnds("ENOENT") /\ UNCHANGED opener_fd
  /\ UNCHANGED <<catVars, cat_at, flight, failed_calls>>

\* mycat waits, with its end of the pipe open.
Sendfile ==
  /\ opener_at = "sendmsg"
  /\ \/ /\ flight' = flight \cup {opener_fd}
        /\ OpenerEnds("0")
        /\ UNCHANGED failed_calls
     \/ Fault /\ OpenerEnds("ENOBUFS") /\ UNCHANGED flight
  /\ UNCHANGED <<catVars, cat_at, opener_fd>>

KillOpener ==
  /\ opener_at \notin {"none", "zombie"} /\ Fault
  /\ OpenerEnds("signal")
  /\ UNCHANGED <<catVars, cat_at, flight, opener_fd>>

CatStep == SPipe \/ PassFork \/ CloseSfd1 \/ Wait \/ Recvfile \/ CloseSfd0 \/ Opened \/ CatRead
           \/ CatWrite
OpenerStep == CloseInChild \/ Execl \/ Openfile \/ Sendfile

PassNext == CatStep \/ OpenerStep \/ KillOpener

PassSpec == PassInit /\ [][PassNext]_passVars

\* Both processes are scheduled.
PassFair == PassSpec /\ WF_passVars(CatStep) /\ WF_passVars(OpenerStep)

-----------------------------------------------------------------------------
(* Properties *)

\* What there is to print of the argument n, and of the arguments before it.
Blocks(n) ==
  LET f == IF argv = <<>> THEN "stdin" ELSE argv[n] IN
  IF f \in DOMAIN Contents THEN [k \in DOMAIN Contents[f] |-> <<n, Contents[f][k]>>] ELSE <<>>

Readable == {n \in DOMAIN argv : argv[n] \in DOMAIN Contents}

\* mycat ends having printed the files it was given, in order, without those that cannot be
\* opened, though each descriptor has to outlive the process that opened it; as long as no
\* call fails for another reason, and the files that stay open leave room for a pipe.
CatPrints == []<>(failed_calls = 0 /\ Cardinality(Readable) < NOFILE =>
  /\ cat_at = "done"
  /\ cat_shown = FlattenSeq(IF argv = <<>> THEN <<Blocks(1)>>
                            ELSE [n \in DOMAIN argv |-> Blocks(n)]))
=============================================================================
