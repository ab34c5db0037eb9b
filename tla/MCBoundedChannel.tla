--------------------------- MODULE MCBoundedChannel ---------------------------
(* Model-checking instance of BoundedChannel: a channel of capacity 2 (3   *)
(* ring slots) and 5 pushes, so head and tail both wrap around the ring    *)
(* and the channel is filled to capacity more than once.                   *)
EXTENDS BoundedChannel

MCCapacity == 2
MCMaxItems == 5
=============================================================================
