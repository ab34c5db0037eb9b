---------------------------- MODULE BoundedChannel ----------------------------
(***************************************************************************)
(* pika::lcos::local::bounded_channel<T, Mutex> (channel_mpmc.hpp): a ring *)
(* buffer of size_ = capacity + 1 slots with a head index (next slot to    *)
(* read), a tail index (next slot to write) and a closed flag.  Every      *)
(* public call holds mtx_ for its whole body and never blocks inside it,   *)
(* so each call is one atomic step whichever thread makes it; the caller's *)
(* identity does not change the outcome and is not modelled.               *)
(*                                                                         *)
(* Items are the numbers 1, 2, ... in push order (AbstractChannel).  A     *)
(* default-constructed T() is NoItem.  The move out of a slot in get()     *)
(* leaves the slot's old value in place (a copy, as for a trivially        *)
(* movable T); the value is never read again before it is overwritten.    *)
(***************************************************************************)
EXTENDS Integers, Sequences

CONSTANTS
  Capacity,   \* constructor argument `size`
  MaxItems    \* bound: number of successful pushes explored

ASSUME Capacity \in Nat \ {0}     \* PIKA_ASSERT(size != 0)
ASSUME MaxItems \in Nat

NoItem == 0

VARIABLES
  buffer,     \* buffer_: slot index -> item
  head,       \* head_.data_
  tail,       \* tail_.data_
  closed,     \* closed_
  nextItem,   \* the item the next successful set() stores
  received,   \* history: items returned by get(&val), in order
  ret,        \* the operation of the last call and its boolean result
  closeRet    \* the value the last successful close() returned (-1: none)

vars == <<buffer, head, tail, closed, nextItem, received, ret, closeRet>>

\* size_: a channel of size n buffers n - 1 items
SlotCount == Capacity + 1

Slots == 0 .. SlotCount - 1

\* Fault variants, each a one-token slip in the code it mirrors: a fullness
\* test that never fires, one that fires an item early, and `>` for `>=`
\* in the index wrap-around.
IsFullNeverFull(t) ==
  LET numitems == SlotCount + t - head
  IN  IF numitems < SlotCount
        THEN numitems = SlotCount
        ELSE numitems - SlotCount = SlotCount
IsFullOneEarly(t) ==
  LET numitems == SlotCount + t - head
  IN  IF numitems < SlotCount
        THEN numitems = SlotCount - 2
        ELSE numitems - SlotCount = SlotCount - 2
AdvanceLateWrap(i) == IF i + 1 > SlotCount THEN 0 ELSE i + 1

\* bounded_channel::is_full, in std::size_t arithmetic (never negative:
\* head_ < size_)
IsFull(t) ==
  LET numitems == SlotCount + t - head
  IN  IF numitems < SlotCount
        THEN numitems = SlotCount - 1
        ELSE numitems - SlotCount = SlotCount - 1

\* bounded_channel::is_empty
IsEmpty(h) == h = tail

\* `if (++i >= size_) i = 0;`
Advance(i) == IF i + 1 >= SlotCount THEN 0 ELSE i + 1

\* the items between head and tail, oldest first
Count == (tail + SlotCount - head) % SlotCount
Contents == [k \in 1 .. Count |-> buffer[(head + k - 1) % SlotCount]]

(* bounded_channel(std::size_t size): default-construct every slot. *)
Init ==
  /\ buffer = [i \in Slots |-> NoItem]
  /\ head = 0
  /\ tail = 0
  /\ closed = FALSE
  /\ nextItem = 1
  /\ received = <<>>
  /\ ret = [op |-> "none", ok |-> TRUE]
  /\ closeRet = -1

(* bool set(T&& t): fails if closed or full, else stores at tail. *)
Set ==
  /\ nextItem <= MaxItems
  /\ IF closed \/ IsFull(tail)
       THEN /\ ret' = [op |-> "push", ok |-> FALSE]
            /\ UNCHANGED <<buffer, tail, nextItem>>
       ELSE /\ buffer' = [buffer EXCEPT ![tail] = nextItem]
            /\ tail' = Advance(tail)
            /\ nextItem' = nextItem + 1
            /\ ret' = [op |-> "push", ok |-> TRUE]
  /\ UNCHANGED <<head, closed, received, closeRet>>

(* bool get(T* val) with val != nullptr: fails if closed or empty, else   *)
(* moves the slot at head out and advances head.                          *)
Get ==
  /\ IF closed \/ IsEmpty(head)
       THEN /\ ret' = [op |-> "pop", ok |-> FALSE]
            /\ UNCHANGED <<head, received>>
       ELSE /\ received' = Append(received, buffer[head])
            /\ head' = Advance(head)
            /\ ret' = [op |-> "pop", ok |-> TRUE]
  /\ UNCHANGED <<buffer, tail, closed, nextItem, closeRet>>

(* bool get(nullptr): reports availability without consuming. *)
Peek ==
  /\ ret' = [op |-> "peek", ok |-> ~closed /\ ~IsEmpty(head)]
  /\ UNCHANGED <<buffer, head, tail, closed, nextItem, received, closeRet>>

(* std::size_t close(): throws invalid_status if already closed (state    *)
(* unchanged), else sets closed_ and returns 0.                           *)
Close ==
  /\ IF closed
       THEN /\ ret' = [op |-> "close", ok |-> FALSE]
            /\ UNCHANGED closeRet
       ELSE /\ ret' = [op |-> "close", ok |-> TRUE]
            /\ closeRet' = 0
  /\ closed' = TRUE
  /\ UNCHANGED <<buffer, head, tail, nextItem, received>>

Next == Set \/ Get \/ Peek \/ Close

Spec == Init /\ [][Next]_vars

-----------------------------------------------------------------------------

TypeOK ==
  /\ buffer \in [Slots -> {NoItem} \cup 1 .. MaxItems]
  /\ head \in Slots
  /\ tail \in Slots
  /\ closed \in BOOLEAN
  /\ nextItem \in 1 .. MaxItems + 1
  /\ received \in Seq(1 .. MaxItems)
  /\ ret \in [op : {"none", "push", "pop", "peek", "close"}, ok : BOOLEAN]
  /\ closeRet \in {-1, 0} \cup 1 .. Capacity

(* FIFO without loss or duplication: the items get() has returned, then  *)
(* the items still between head and tail, are exactly the items set()     *)
(* stored, in push order.  Breaks if the head/tail wrap-around or the     *)
(* fullness test lets set() overwrite an unread slot or get() skip one.   *)
ItemsInPushOrder ==
  received \o Contents = [k \in 1 .. nextItem - 1 |-> k]

(* The ring buffer implements the abstract channel: with the queue read  *)
(* from head to tail, every call succeeds or fails exactly as the         *)
(* abstract FIFO of Capacity items says (a push fails only when Capacity  *)
(* items are stored, never at Capacity - 1 or Capacity + 1).              *)
Abs == INSTANCE AbstractChannel WITH queue <- Contents
ImplementsAbstractChannel == Abs!Spec

=============================================================================
