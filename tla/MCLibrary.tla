----------------------------- MODULE MCLibrary -----------------------------
(* Small instances of the parts of Library.                                  *)
EXTENDS Library, TLC

CONSTANTS A, B, C, t1, t2, t3, t4
MCThreads == {t1, t2, t3, t4}
MCMatrices == {A, B, C}
Symmetry == Permutations(MCMatrices)

(* Keys of the tree: two that meet in a slot, and some outside its zone.     *)
MCTreeKeys == {0, 1, 6, 9, 15, 20}

MCTexts == {[i \in 1 .. 8 |-> 0], <<255, 1, 128, 77, 65, 66, 67, 200>>}
MCSecretKeys == {<<1, 2, 3, 4, 5, 6, 7, 8>>, <<200, 100, 50, 25, 12, 6, 3, 1>>}

(* Entries of matrices that eliminate without and with a rest, and one with
   0 on the diagonal.                                                        *)
Entry9(s) == [i \in 0 .. 8 |-> s[i + 1]]
MCDataArrays == {Entry9(<<2, 1, 3, -4, 2, 1, 6, 0, 5>>),
                 Entry9(<<1, 2, 0, 0, -1, 3, 2, 5, 7>>),
                 Entry9(<<0, 1, 1, 1, 0, 2, 3, 1, 0>>)}
MCHalves == {-2, 3}
=============================================================================
