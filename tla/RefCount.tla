------------------------------ MODULE RefCount ------------------------------
(***************************************************************************)
(* What semaphore.h promises of sem_create and sem_close: a semaphore that *)
(* comes into being with its first user, is initialised once, and may be   *)
(* removed when its last user is done with it.  A user may leave by dying, *)
(* and then the semaphore may stay behind without users.                   *)
(***************************************************************************)
CONSTANT Procs

VARIABLES exists, ready, users

vars == <<exists, ready, users>>

Init == exists = FALSE /\ ready = FALSE /\ users = {}

Create ==
  /\ ~exists
  /\ exists' = TRUE
  /\ UNCHANGED <<ready, users>>

Initialise ==
  /\ exists /\ ~ready /\ users = {}
  /\ ready' = TRUE
  /\ UNCHANGED <<exists, users>>

Join(p) ==
  /\ ready /\ p \notin users
  /\ users' = users \cup {p}
  /\ UNCHANGED <<exists, ready>>

Leave(p) ==
  /\ p \in users
  /\ users' = users \ {p}
  /\ UNCHANGED <<exists, ready>>

Drop ==
  /\ exists /\ users = {}
  /\ exists' = FALSE /\ ready' = FALSE
  /\ UNCHANGED users

Next == Create \/ Initialise \/ Drop \/ \E p \in Procs : Join(p) \/ Leave(p)

Spec == Init /\ [][Next]_vars
=============================================================================
