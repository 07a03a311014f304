---------------------------- MODULE MCShmPrograms ---------------------------
(* ShmPrograms for TLC: with two buffers and three blocks the ring wraps. *)
EXTENDS ShmPrograms

Blocks == <<"one", "two", "three">>
Nobody == {}
BothPrograms == {"10_shared_memory", "11_multi_buffer"}
Only10 == {"10_shared_memory"}
Only11 == {"11_multi_buffer"}
=============================================================================
