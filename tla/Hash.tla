-------------------------------- MODULE Hash --------------------------------
(***************************************************************************)
(* The hash list of src/platform/src/util/hash.c.  A node does not point   *)
(* at the node before it but at the pointer field that points at it        *)
(* (prev_firstregion): the firstnode of a head, or the next of a node.  So *)
(* a field is named by what holds it, a key for a head and a node for a    *)
(* next, and link gives the contents of every field.                       *)
(*                                                                         *)
(* IsUnhashed reads through prev_firstregion.  A caller therefore hands in *)
(* a node whose prev_firstregion points at a field that holds NULL, and    *)
(* prepares it again after DeleteHashNode, which leaves it NULL.           *)
(***************************************************************************)
EXTENDS Integers, FiniteSets, Functions

CONSTANTS HashKeys,   \* indices into hashtable
          HashNodes,  \* list_recordingnode structures
          NoNode,     \* NULL
          CountSize   \* nodenum is unsigned: it wraps at this value

ASSUME HashAssumption ==
    /\ IsFiniteSet(HashKeys) /\ IsFiniteSet(HashNodes)
    /\ HashKeys \cap HashNodes = {}
    /\ NoNode \notin HashKeys \cup HashNodes
    /\ CountSize \in Nat \ {0}

VARIABLES
    link,              \* field -> the node it points at
    prev_firstregion,  \* node -> the field that points at it
    nodenum,           \* key -> its counter
    misnamed           \* a node was deleted under a key that is not its own

hashVars == <<link, prev_firstregion, nodenum, misnamed>>

Fields == HashKeys \cup HashNodes

\* The nodes of a chain: position i of the walk from the head, NoNode beyond it.
walk(k) ==
    LET cursors[i \in 0 .. Cardinality(HashNodes)] ==
            IF i = 0 THEN link[k]
            ELSE IF cursors[i - 1] = NoNode THEN NoNode ELSE link[cursors[i - 1]]
    IN  cursors

Chain(k) == {walk(k)[i] : i \in 0 .. Cardinality(HashNodes)} \ {NoNode}

Hashed == UNION {Chain(k) : k \in HashKeys}

\* The memory of the nodes is zeroed.
InitHashlist ==
    /\ link = [f \in Fields |-> NoNode]
    /\ prev_firstregion = [n \in HashNodes |-> NoNode]
    /\ nodenum = [k \in HashKeys |-> 0]
    /\ misnamed = FALSE
-----------------------------------------------------------------------------
\* The caller lets a node that is in no chain point at its own, empty next.
PrepareNode(n) ==
    /\ n \notin Hashed
    /\ prev_firstregion[n] = NoNode
    /\ link' = [link EXCEPT ![n] = NoNode]
    /\ prev_firstregion' = [prev_firstregion EXCEPT ![n] = n]
    /\ UNCHANGED <<nodenum, misnamed>>

IsUnhashed(n) == link[prev_firstregion[n]] = NoNode

(* Mutant: the node that was first keeps pointing at the head.              *)
InsertHashNode_HeadStale(k, n) ==
    /\ link' = [link EXCEPT ![n] = link[k], ![k] = n]
    /\ prev_firstregion' = [prev_firstregion EXCEPT ![n] = k]

InsertHashNode_Head(k, n) ==
    LET first == link[k]
    IN  /\ link' = [link EXCEPT ![n] = first, ![k] = n]
        /\ prev_firstregion' = [m \in HashNodes |-> IF m = n THEN k
                                                    ELSE IF m = first THEN n
                                                    ELSE prev_firstregion[m]]

AddHashNode(k, n) ==
    /\ prev_firstregion[n] # NoNode
    /\ IF IsUnhashed(n)
       THEN /\ InsertHashNode_Head(k, n)
            /\ nodenum' = [nodenum EXCEPT ![k] = (nodenum[k] + 1) % CountSize]
       ELSE UNCHANGED <<link, prev_firstregion, nodenum>>
    /\ UNCHANGED misnamed

RemoveHashNode(n) ==
    LET next == link[n]
        region == prev_firstregion[n]
    IN  /\ link' = [link EXCEPT ![region] = next, ![n] = NoNode]
        /\ prev_firstregion' = [m \in HashNodes |-> IF m = n THEN NoNode
                                                    ELSE IF m = next THEN region
                                                    ELSE prev_firstregion[m]]

\* The counter is that of the key in the call, whichever chain the node is in.
DeleteHashNode(k, n) ==
    /\ prev_firstregion[n] # NoNode
    /\ IF IsUnhashed(n)
       THEN UNCHANGED hashVars
       ELSE /\ RemoveHashNode(n)
            /\ nodenum' = [nodenum EXCEPT ![k] = (nodenum[k] + CountSize - 1) % CountSize]
            /\ misnamed' = (misnamed \/ n \notin Chain(k))

HashNext ==
    \E n \in HashNodes :
        \/ PrepareNode(n)
        \/ \E k \in HashKeys : AddHashNode(k, n) \/ DeleteHashNode(k, n)

HashSpec == InitHashlist /\ [][HashNext]_hashVars
-----------------------------------------------------------------------------
HashTypeOK ==
    /\ link \in [Fields -> HashNodes \cup {NoNode}]
    /\ prev_firstregion \in [HashNodes -> Fields \cup {NoNode}]
    /\ nodenum \in [HashKeys -> 0 .. CountSize - 1]
    /\ misnamed \in BOOLEAN

\* A node in a chain is pointed at by the field its prev_firstregion names and
\* by no other, through any order of insertions and removals, so the chains
\* are disjoint and end.  The counters together count the hashed nodes, and each
\* counts its own chain as long as every deletion named the key the node was
\* added under, both modulo the width of an unsigned.
ChainsOK ==
    /\ \A k \in HashKeys : walk(k)[Cardinality(HashNodes)] = NoNode
    /\ \A j, k \in HashKeys : j # k => Chain(j) \cap Chain(k) = {}
    /\ \A n \in Hashed : {f \in Fields : link[f] = n} = {prev_firstregion[n]}
    /\ FoldFunction(+, 0, nodenum) % CountSize = Cardinality(Hashed) % CountSize
    /\ ~misnamed => \A k \in HashKeys : nodenum[k] = Cardinality(Chain(k)) % CountSize
=============================================================================
