------------------------------ MODULE CopyInput ------------------------------
(***************************************************************************)
(* Two programs that copy the standard input to the standard output:       *)
(* 9.async_io/async_io.c sleeps until SIGIO says that there is input, and  *)
(* 10.select/stdin_stdout_select.c alternates between its two descriptors. *)
(* Input arrives as lines, by their numbers, and then ends.  A terminal    *)
(* gives one line to a read, a pipe all there is.                          *)
(***************************************************************************)
EXTENDS Integers, Sequences, FiniteSets, SequencesExt

CONSTANT InputLines   \* bound: the lines that arrive; fewer than BUFFSIZE bytes in all

ASSUME CopyInputAssumption == InputLines \in Nat

VARIABLES
  copier,     \* which program
  source,     \* "terminal" or "pipe"
  copy_at,    \* where it is
  arrived,    \* lines that have arrived; one more for the end of the input
  readable,   \* those not yet read
  buff,       \* what the last read has returned
  copied,     \* what has been written
  async,      \* the descriptor sends SIGIO to the process
  sigio,      \* SIGIO is pending: the signal does not queue
  blocked,    \* the process blocks it
  sigflag,    \* the global variable
  sets,       \* descriptors in read_set and write_set
  signalled   \* arrivals of which the program has been told

copyVars == <<copier, source, copy_at, arrived, readable, buff, copied, async, sigio, blocked,
              sigflag, sets, signalled>>

asyncVars == <<async, sigio, blocked, sigflag>>

End == InputLines + 1

\* The FASYNC flag may be set already, by an earlier program on the same terminal.
CopyInit ==
  /\ copier \in {"async_io", "select"} /\ source \in {"terminal", "pipe"}
  /\ copy_at = IF copier = "async_io" THEN "F_SETOWN" ELSE "select"
  /\ arrived = 0 /\ readable = <<>> /\ buff = <<>> /\ copied = <<>>
  /\ async \in IF copier = "async_io" THEN {"none", "FASYNC"} ELSE {"none"}
  /\ sigio = FALSE /\ blocked = FALSE /\ sigflag = 0
  /\ sets = {0, 1} /\ signalled = 0

CopyGoes(here, there) == copy_at = here /\ copy_at' = there

\* read of the standard input, which waits; what a read returns at the end is no line.
ReadInput(goOn) ==
  /\ readable # <<>>
  /\ \E n \in 1 .. Len(readable) :
       /\ n = IF source = "terminal" \/ readable[1] = End THEN 1
              ELSE Len(SelectSeq(readable, LAMBDA l : l # End))
       /\ IF readable[1] = End
          THEN copy_at' = "done" /\ UNCHANGED <<readable, buff>>
          ELSE /\ readable' = SubSeq(readable, n + 1, Len(readable))
               /\ buff' = SubSeq(readable, 1, n)
               /\ copy_at' = goOn

Fixed == UNCHANGED <<copier, source>>

-----------------------------------------------------------------------------
(* Input *)

Arrive ==
  /\ arrived < End
  /\ arrived' = arrived + 1
  /\ readable' = Append(readable, arrived + 1)
  /\ sigio' = (sigio \/ async = "owned")
  /\ signalled' = IF async = "owned" \/ copier = "select" THEN arrived + 1 ELSE signalled
  /\ UNCHANGED <<copy_at, buff, copied, async, blocked, sigflag, sets>> /\ Fixed

-----------------------------------------------------------------------------
(* async_io.c *)

\* signal(SIGIO) has installed the handler.  F_SETOWN; then F_SETFL, where it is needed.
SetOwn ==
  /\ CopyGoes("F_SETOWN", IF async = "FASYNC" THEN "SIG_BLOCK" ELSE "F_SETFL")
  /\ async' = IF async = "FASYNC" THEN "owned" ELSE async
  /\ UNCHANGED <<arrived, readable, buff, copied, sigio, blocked, sigflag, sets, signalled>>
  /\ Fixed

SetAsync ==
  /\ CopyGoes("F_SETFL", "SIG_BLOCK")
  /\ async' = "owned"
  /\ UNCHANGED <<arrived, readable, buff, copied, sigio, blocked, sigflag, sets, signalled>>
  /\ Fixed

\* sigio_func runs between any two steps while SIGIO is not blocked.
SigioFunc ==
  /\ sigio /\ ~blocked
  /\ sigio' = FALSE /\ sigflag' = 1
  /\ UNCHANGED <<copy_at, arrived, readable, buff, copied, async, blocked, sets, signalled>>
  /\ Fixed

\* Bug: SIGIO is not blocked.
BlockNot ==
  /\ CopyGoes("SIG_BLOCK", "sigflag")
  /\ UNCHANGED <<arrived, readable, buff, copied, asyncVars, sets, signalled>> /\ Fixed

Block ==
  /\ CopyGoes("SIG_BLOCK", "sigflag")
  /\ blocked' = TRUE
  /\ UNCHANGED <<arrived, readable, buff, copied, async, sigio, sigflag, sets, signalled>>
  /\ Fixed

\* while (sigflag == 0)
TestFlag ==
  /\ CopyGoes("sigflag", IF sigflag = 0 THEN "sigsuspend" ELSE "read")
  /\ UNCHANGED <<arrived, readable, buff, copied, asyncVars, sets, signalled>> /\ Fixed

\* The mask is empty while it sleeps: a pending signal is handled at once, and the mask is
\* what it was when it returns.
Sigsuspend ==
  /\ CopyGoes("sigsuspend", "sigflag")
  /\ sigio /\ sigio' = FALSE /\ sigflag' = 1
  /\ UNCHANGED <<arrived, readable, buff, copied, async, blocked, sets, signalled>> /\ Fixed

AsyncRead ==
  /\ copy_at = "read"
  /\ ReadInput("write")
  /\ UNCHANGED <<arrived, copied, asyncVars, sets, signalled>> /\ Fixed

AsyncWrite ==
  /\ CopyGoes("write", "sigflag = 0")
  /\ copied' = copied \o buff
  /\ UNCHANGED <<arrived, readable, buff, asyncVars, sets, signalled>> /\ Fixed

ClearFlag ==
  /\ CopyGoes("sigflag = 0", "SIG_SETMASK")
  /\ sigflag' = 0
  /\ UNCHANGED <<arrived, readable, buff, copied, async, sigio, blocked, sets, signalled>>
  /\ Fixed

Unblock ==
  /\ CopyGoes("SIG_SETMASK", "SIG_BLOCK")
  /\ blocked' = FALSE
  /\ UNCHANGED <<arrived, readable, buff, copied, async, sigio, sigflag, sets, signalled>>
  /\ Fixed

-----------------------------------------------------------------------------
(* stdin_stdout_select.c *)

\* select waits until a descriptor of its sets is ready, and leaves those that are; the
\* standard output always is.
SelectReady ==
  LET ready == {d \in sets : d = 1 \/ readable # <<>>} IN
  /\ CopyGoes("select", "FD_ISSET 0")
  /\ ready # {}
  /\ sets' = ready
  /\ UNCHANGED <<arrived, readable, buff, copied, asyncVars, signalled>> /\ Fixed

SelectRead ==
  /\ copy_at = "FD_ISSET 0"
  /\ IF 0 \in sets THEN ReadInput("FD_ISSET 1")
     ELSE copy_at' = "FD_ISSET 1" /\ UNCHANGED <<readable, buff>>
  /\ UNCHANGED <<arrived, copied, asyncVars, sets, signalled>> /\ Fixed

\* stop_reading says whether the buffer has been read last: then the program waits for the
\* standard output next, and else for the standard input.  read_bytes is 0 at first.
SelectWrite ==
  /\ CopyGoes("FD_ISSET 1", "select")
  /\ IF 1 \in sets THEN copied' = copied \o buff /\ sets' = {0}
     ELSE sets' = {1} /\ UNCHANGED copied
  /\ UNCHANGED <<arrived, readable, buff, asyncVars, signalled>> /\ Fixed

CopyStep == SetOwn \/ SetAsync \/ Block \/ TestFlag \/ Sigsuspend \/ AsyncRead \/ AsyncWrite
            \/ ClearFlag \/ Unblock \/ SelectReady \/ SelectRead \/ SelectWrite

CopyNext == CopyStep \/ SigioFunc \/ Arrive

CopySpec == CopyInit /\ [][CopyNext]_copyVars

\* The program is scheduled and signals are delivered; input need not arrive.
CopyFair == CopySpec /\ WF_copyVars(CopyStep) /\ WF_copyVars(SigioFunc)

-----------------------------------------------------------------------------
(* Properties *)

\* What has been copied is what arrived, in order and once; and of a pipe, every line that the
\* program is told of is copied: it does not sleep through a signal that comes between the
\* test of sigflag and sigsuspend, or while it reads and writes.  (Of a terminal several
\* lines may come with one signal, and only one is read; and async_io.c does not see the end
\* of its input when the signal of the end is that of a line as well.)
AllCopied == []<>(source = "pipe" \/ copier = "select" =>
  /\ copied = [k \in 1 .. Len(copied) |-> k]
  /\ Len(copied) >= signalled \/ Len(copied) = InputLines
  /\ copier = "select" /\ arrived = End => copy_at = "done" /\ Len(copied) = InputLines)
=============================================================================
