------------------------------- MODULE MCBlock -------------------------------
(* Four threads that share a pool of two blocks.                           *)
EXTENDS Block, TLC
CONSTANTS t1, t2, t3, t4, b1, b2
MCThreads == {t1, t2, t3, t4}
MCBlocks == {b1, b2}
Symmetry == Permutations(MCThreads) \cup Permutations(MCBlocks)
=============================================================================
