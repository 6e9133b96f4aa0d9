----------------------------- MODULE MCAllocator -----------------------------
(* Three nodes of malloc'ed memory and the sizes of the source scaled down: two *)
(* queues for sizes up to 4, pages of 16, blocks from 16 on.                *)
EXTENDS Allocator, TLC
CONSTANTS a1, a2, a3
MCMemory == {a1, a2, a3}
MCPrograms == {{2, 3, 4}, {7, 12, 15, 20}}
SourcePrograms == {{1, 255, 256, 257}}
MCGarbage == {0, 3}
Symmetry == Permutations(MCMemory)
=============================================================================
