----------------------------- MODULE BoundedFifo -----------------------------
(***************************************************************************)
(* What the users of message.h rely on: a first-in first-out queue of at    *)
(* most Capacity messages.  A push appends one message, a pop hands the     *)
(* oldest one to the caller; nothing else changes the queue, and no message *)
(* is lost, duplicated or delivered out of order.                           *)
(***************************************************************************)
EXTENDS Naturals, Sequences

CONSTANTS Messages, Receivers, Capacity, NoMessage

VARIABLES
  contents,   \* the messages in the queue, the oldest first
  got         \* the message each receiver's last successful pop returned

Init ==
  /\ contents = <<>>
  /\ got = [r \in Receivers |-> NoMessage]

Put(m) ==
  /\ Len(contents) < Capacity
  /\ contents' = Append(contents, m)
  /\ UNCHANGED got

Get(r) ==
  /\ contents # <<>>
  /\ got' = [got EXCEPT ![r] = Head(contents)]
  /\ contents' = Tail(contents)

Next ==
  \/ \E m \in Messages : Put(m)
  \/ \E r \in Receivers : Get(r)

Spec == Init /\ [][Next]_<<contents, got>>
=============================================================================
