----------------------------- MODULE MCSequence -----------------------------
(* Sequence for TLC: three processes, and a start for one of them to come back. *)
EXTENDS Sequence

CONSTANTS a, b, c

Three == {a, b, c}
AllKinds == {"library", "lockf", "flock", "link", "creat", "open", "sem", "sem_undo"}
Link == {"link"}
=============================================================================
