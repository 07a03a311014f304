---------------------------- MODULE MCSemaphore ----------------------------
(* Semaphore for TLC: three processes, one of which may open or remove the set. *)
EXTENDS Semaphore

CONSTANTS a, b, c

ThreeProcs == {a, b, c}
None == {}
JustA == {a}
TwoProcsC == {a, c}
WithOpener == {c}
\* sem_wait, sem_signal and the value 0 that sem_op refuses.
WaitSignalZero == {-1, 0, 1}
=============================================================================
