------------------------------ MODULE Linklist ------------------------------
(***************************************************************************)
(* The intrusive doubly linked list of src/platform/src/util/link.c, on the *)
(* heap as the code sees it: the prev and next fields live inside the nodes *)
(* and keep their last values when a node leaves the list.  No function of  *)
(* link.c locks: its callers serialise them, so each call is one action.    *)
(***************************************************************************)
EXTENDS Naturals, FiniteSets, Sequences

CONSTANTS Nodes, NULL

ASSUME LinklistAssumption == IsFiniteSet(Nodes) /\ NULL \notin Nodes

VARIABLES
  s_num, s_headnode, s_tailnode,   \* struct linklist_s
  prev, next,                      \* the fields of every list_node
  got                              \* what the last GetoutHeadnode returned

vars == <<s_num, s_headnode, s_tailnode, prev, next, got>>

Pointers == Nodes \cup {NULL}

(* The cursor of `while(ptr) ptr = ptr->next` after each number of rounds.   *)
cursor[i \in 0..Cardinality(Nodes)] ==
  IF i = 0 THEN s_headnode
  ELSE IF cursor[i-1] = NULL THEN NULL ELSE next[cursor[i-1]]

(* The nodes such a walk meets before it falls off the end.                 *)
Reached == {cursor[i] : i \in 0..Cardinality(Nodes)} \ {NULL}

(* InitLinklist leaves the nodes alone: their memory holds anything.        *)
Init ==
  /\ s_num = 0
  /\ s_headnode = NULL
  /\ s_tailnode = NULL
  /\ prev \in [Nodes -> Pointers]
  /\ next \in [Nodes -> Pointers]
  /\ got = NULL
-----------------------------------------------------------------------------
(* The callers hand in a node that is in no list: BlockInit and AddProcess a
   fresh one, BlockFree one that GetoutHeadnode returned.                   *)
Outside(n) == n \notin Reached

AddLinklistnodeHead(n) ==
  /\ Outside(n)
  /\ next' = [next EXCEPT ![n] = s_headnode]
  /\ prev' = IF s_num = 0 THEN [prev EXCEPT ![n] = NULL]
             ELSE [prev EXCEPT ![n] = NULL, ![s_headnode] = n]
  /\ s_headnode' = n
  /\ s_tailnode' = IF s_num = 0 THEN n ELSE s_tailnode
  /\ s_num' = s_num + 1
  /\ UNCHANGED got

AddLinklistnodeTail(n) ==
  /\ Outside(n)
  /\ prev' = [prev EXCEPT ![n] = s_tailnode]
  /\ next' = IF s_num = 0 THEN [next EXCEPT ![n] = NULL]
             ELSE [next EXCEPT ![n] = NULL, ![s_tailnode] = n]
  /\ s_headnode' = IF s_num = 0 THEN n ELSE s_headnode
  /\ s_tailnode' = n
  /\ s_num' = s_num + 1
  /\ UNCHANGED got

(* Mutant: the node is unlinked from its neighbours, the tail is not moved. *)
UnlinkKeepsTail(n) ==
  /\ IF next[n] # NULL THEN prev' = [prev EXCEPT ![next[n]] = prev[n]]
                       ELSE UNCHANGED prev
  /\ IF prev[n] # NULL THEN /\ next' = [next EXCEPT ![prev[n]] = next[n]]
                            /\ UNCHANGED s_headnode
                       ELSE s_headnode' = next[n] /\ UNCHANGED next
  /\ s_num' = s_num - 1
  /\ UNCHANGED <<s_tailnode, got>>

(* DeleteLinklistnode once the walk has found the node.                     *)
Unlink(n) ==
  /\ IF next[n] # NULL THEN /\ prev' = [prev EXCEPT ![next[n]] = prev[n]]
                            /\ UNCHANGED s_tailnode
                       ELSE s_tailnode' = prev[n] /\ UNCHANGED prev
  /\ IF prev[n] # NULL THEN /\ next' = [next EXCEPT ![prev[n]] = next[n]]
                            /\ UNCHANGED s_headnode
                       ELSE s_headnode' = next[n] /\ UNCHANGED next
  /\ s_num' = s_num - 1
  /\ UNCHANGED got

DeleteLinklistnode(n) ==
  \/ s_num # 0 /\ n \in Reached /\ Unlink(n)
  \/ s_num = 0 /\ UNCHANGED vars
  \/ s_num # 0 /\ n \notin Reached /\ UNCHANGED vars

(* Mutant: the new head keeps its link to the node that left.               *)
GetoutStalePrev ==
  /\ s_num # 0
  /\ got' = s_headnode
  /\ s_headnode' = next[s_headnode]
  /\ s_tailnode' = IF next[s_headnode] = NULL THEN NULL ELSE s_tailnode
  /\ s_num' = s_num - 1
  /\ UNCHANGED <<prev, next>>

GetoutHeadnode ==
  \/ /\ s_num = 0
     /\ got' = NULL
     /\ UNCHANGED <<s_num, s_headnode, s_tailnode, prev, next>>
  \/ /\ s_num # 0
     /\ got' = s_headnode
     /\ IF next[s_headnode] # NULL
        THEN /\ prev' = [prev EXCEPT ![next[s_headnode]] = NULL]
             /\ UNCHANGED s_tailnode
        ELSE s_tailnode' = NULL /\ UNCHANGED prev
     /\ s_headnode' = next[s_headnode]
     /\ s_num' = s_num - 1
     /\ UNCHANGED next

Next ==
  \/ \E n \in Nodes :
       AddLinklistnodeHead(n) \/ AddLinklistnodeTail(n) \/ DeleteLinklistnode(n)
  \/ GetoutHeadnode

Spec == Init /\ [][Next]_vars
-----------------------------------------------------------------------------
(* Type correctness: in particular s_num, an unsigned, never goes below 0
   and never above the number of nodes there are.                           *)
TypeOK ==
  /\ s_num \in 0..Cardinality(Nodes)
  /\ {s_headnode, s_tailnode, got} \subseteq Pointers
  /\ {prev, next} \subseteq [Nodes -> Pointers]

(* The two chains and the count say the same: the walk from the head has no
   cycle and meets s_num nodes, the last of them the tail, and every node on
   it points back at the one before, whatever stale pointers the nodes that
   were removed and added again carried.                                    *)
LinksOK ==
  /\ cursor[Cardinality(Nodes)] = NULL
  /\ Cardinality(Reached) = s_num
  /\ s_num = 0 <=> s_headnode = NULL
  /\ s_num = 0 <=> s_tailnode = NULL
  /\ s_num > 0 => cursor[s_num-1] = s_tailnode /\ next[s_tailnode] = NULL
  /\ \A i \in 0..(s_num-1) :
       prev[cursor[i]] = IF i = 0 THEN NULL ELSE cursor[i-1]

(* The list implements a sequence of distinct nodes.                        *)
Abstract == INSTANCE SequenceList WITH list <- [i \in 1..s_num |-> cursor[i-1]]
ImplementsSequence == Abstract!Spec
=============================================================================
