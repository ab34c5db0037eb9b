--------------------------- MODULE AbstractChannel ---------------------------
(***************************************************************************)
(* What a bounded, non-blocking, closable channel promises (spec.md 4.4):  *)
(* a FIFO queue of at most Capacity items; a push fails exactly when the   *)
(* queue is full or the channel closed, a pop fails exactly when it is     *)
(* empty or closed, a second close is an error.  Every call is one atomic  *)
(* step.  Pushed items are the numbers 1, 2, ... in push order, so FIFO    *)
(* order is visible in the items themselves.                               *)
(***************************************************************************)
EXTENDS Naturals, Sequences

CONSTANTS
  Capacity,   \* the channel's capacity (constructor argument)
  MaxItems    \* bound: number of successful pushes explored

VARIABLES
  queue,      \* the items in the channel, oldest first
  closed,     \* the channel was closed
  nextItem,   \* the item the next successful push stores
  received,   \* history: the items popped so far, in pop order
  ret         \* the operation of the last call and whether it succeeded

avars == <<queue, closed, nextItem, received, ret>>

Ops == {"none", "push", "pop", "peek", "close"}

Init ==
  /\ queue = <<>>
  /\ closed = FALSE
  /\ nextItem = 1
  /\ received = <<>>
  /\ ret = [op |-> "none", ok |-> TRUE]

Push ==
  /\ nextItem <= MaxItems
  /\ IF closed \/ Len(queue) = Capacity
       THEN /\ ret' = [op |-> "push", ok |-> FALSE]
            /\ UNCHANGED <<queue, nextItem>>
       ELSE /\ queue' = Append(queue, nextItem)
            /\ nextItem' = nextItem + 1
            /\ ret' = [op |-> "push", ok |-> TRUE]
  /\ UNCHANGED <<closed, received>>

Pop ==
  /\ IF closed \/ queue = <<>>
       THEN /\ ret' = [op |-> "pop", ok |-> FALSE]
            /\ UNCHANGED <<queue, received>>
       ELSE /\ queue' = Tail(queue)
            /\ received' = Append(received, Head(queue))
            /\ ret' = [op |-> "pop", ok |-> TRUE]
  /\ UNCHANGED <<closed, nextItem>>

Peek ==
  /\ ret' = [op |-> "peek", ok |-> ~closed /\ queue # <<>>]
  /\ UNCHANGED <<queue, closed, nextItem, received>>

Close ==
  /\ ret' = [op |-> "close", ok |-> ~closed]
  /\ closed' = TRUE
  /\ UNCHANGED <<queue, nextItem, received>>

Next == Push \/ Pop \/ Peek \/ Close

Spec == Init /\ [][Next]_avars

=============================================================================
