------------------------------ MODULE Library ------------------------------
(***************************************************************************)
(* The parts that keep no state of each other's: the semaphore, the linked *)
(* list, the hash list, the radix tree, the cipher, the network card and   *)
(* the matrices.  None of them calls another, so a behaviour uses one of   *)
(* them, and the others stay as their memory starts.  (The semaphores of   *)
(* the message queue and the block pool are part of those modules; here    *)
(* one is used by itself.)                                                 *)
(***************************************************************************)
EXTENDS Semaphore, Linklist, Hash, RadixTree, Des, Nic, Matrix

VARIABLE part  \* the part this behaviour uses

libraryVars ==
    <<part, semaphoreVars, vars, hashVars, treeVars, desVars, nicVars, matrixVars>>

LibraryInit ==
    /\ part \in {"semaphore", "list", "hash", "tree", "des", "nic", "matrix"}
    /\ SemaphoreInit /\ Init /\ InitHashlist /\ BuildRadixTree
    /\ DesInit /\ NicInit /\ MatrixInit
    /\ part # "list" => prev = [n \in Nodes |-> NULL] /\ next = prev

LibraryNext ==
    /\ UNCHANGED part
    /\ \/ part = "semaphore" /\ SemaphoreNext
       \/ part # "semaphore" /\ UNCHANGED semaphoreVars
    /\ \/ part = "list" /\ Next
       \/ part # "list" /\ UNCHANGED vars
    /\ \/ part = "hash" /\ HashNext
       \/ part # "hash" /\ UNCHANGED hashVars
    /\ \/ part = "tree" /\ TreeNext
       \/ part # "tree" /\ UNCHANGED treeVars
    /\ \/ part = "des" /\ DesNext
       \/ part # "des" /\ UNCHANGED desVars
    /\ \/ part = "nic" /\ NicNext
       \/ part # "nic" /\ UNCHANGED nicVars
    /\ \/ part = "matrix" /\ MatrixNext
       \/ part # "matrix" /\ UNCHANGED matrixVars

LibrarySpec == LibraryInit /\ [][LibraryNext]_libraryVars
-----------------------------------------------------------------------------
\* Type correctness of the parts: in particular the count of the list, an
\* unsigned, stays between 0 and the number of nodes there are.
LibraryTypeOK ==
    SemaphoreTypeOK /\ TypeOK /\ HashTypeOK /\ TreeTypeOK /\ DesTypeOK
=============================================================================
