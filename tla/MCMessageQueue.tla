--------------------------- MODULE MCMessageQueue ---------------------------
(* The threads of either role and the messages, as the runs choose them.    *)
EXTENDS MessageQueue, TLC
CONSTANTS p1, p2, c1, c2, m1, m2
TwoProducers == {p1, p2}
TwoConsumers == {c1, c2}
OneConsumer == {c1}
OneMessage == {m1}
TwoMessages == {m1, m2}
Symmetry == Permutations(Producers) \cup Permutations(Consumers)
              \cup Permutations(Messages)
=============================================================================
