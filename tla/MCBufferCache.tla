--------------------------- MODULE MCBufferCache ---------------------------
(* Small instances of BufferCache for TLC. *)
EXTENDS BufferCache, TLC

\* Sectors are interchangeable, and so is the memory of the blocks.
MCSymmetry == Permutations(Sectors) \cup Permutations(Blocks)

\* The second-chance loop of cache_evict finds a block, and the write-back
\* daemon writes every dirty block in the end.
CacheMoves == EvictionEnds /\ WriteBehind
=============================================================================
