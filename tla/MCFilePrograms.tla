--------------------------- MODULE MCFilePrograms ---------------------------
(* FilePrograms for TLC: a file of three reads, the last one short; with two buffers and
   three blocks the ring wraps. *)
EXTENDS FilePrograms

MCFile == <<11, 12, 13, 14, 15>>
MCMessage == <<21, 22>>
MCName == <<9>>
MCPipeBufs == {1, 3}
MCBlocks == <<"one", "two", "three">>
AllPairs == {"transfer", "10_shared_memory", "11_multi_buffer"}
=============================================================================
