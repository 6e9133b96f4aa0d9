---------------------------- MODULE SequenceList ----------------------------
(***************************************************************************)
(* What the users of link.h rely on: a sequence of distinct nodes that can  *)
(* grow at both ends, give up its first node, and lose any node that is in  *)
(* it.  Removing a node that is not in the list changes nothing.            *)
(***************************************************************************)
EXTENDS Naturals, SequencesExt

CONSTANTS Nodes, NULL

VARIABLES
  list,   \* the nodes, the head first
  got     \* what the last GetoutHeadnode returned

Init == list = <<>> /\ got = NULL

AddHead(n) == ~Contains(list, n) /\ list' = <<n>> \o list /\ UNCHANGED got

AddTail(n) == ~Contains(list, n) /\ list' = Append(list, n) /\ UNCHANGED got

Delete(n) ==
  /\ \/ ~Contains(list, n) /\ UNCHANGED list
     \/ \E i \in DOMAIN list : list[i] = n /\ list' = RemoveAt(list, i)
  /\ UNCHANGED got

Getout ==
  \/ list = <<>> /\ got' = NULL /\ UNCHANGED list
  \/ list # <<>> /\ got' = Head(list) /\ list' = Tail(list)

Next ==
  \/ \E n \in Nodes : AddHead(n) \/ AddTail(n) \/ Delete(n)
  \/ Getout

Spec == Init /\ [][Next]_<<list, got>>
=============================================================================
