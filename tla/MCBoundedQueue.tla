--------------------------- MODULE MCBoundedQueue ---------------------------
(* A small instance of BoundedQueue: two producers, one of which cannot be   *)
(* stopped, and two workers around a queue of two slots.                     *)
EXTENDS BoundedQueue, TLC

CONSTANTS p1, p2, c1, c2, v1, v2

MCProducers == {p1, p2}
MCConsumers == {c1, c2}
MCStoppable == {p1, c1, c2}
MCValues == {v1, v2}
=============================================================================
