---------------------------- MODULE ChannelLifetime ----------------------------
(***************************************************************************)
(* The lifetime of bounded_channel objects and of the T objects in their   *)
(* slots (channel_mpmc.hpp): the constructor, the move constructor, move   *)
(* assignment and the destructor.  The items, head and tail are left out   *)
(* (BoundedChannel models them); what is kept is which buffer a channel    *)
(* owns through buffer_ (a std::unique_ptr<T[]>), size_, closed_, and for  *)
(* every slot of every buffer whether a T object lives in it.  A buffer is *)
(* named by the channel that allocated it.                                 *)
(*                                                                         *)
(* A destructor call on a slot whose object no longer lives, or on a slot  *)
(* of a null buffer, is undefined behaviour; `ub` records that one         *)
(* happened and what it was.                                               *)
(***************************************************************************)
EXTENDS Naturals

CONSTANTS
  Chans,      \* bounded_channel objects
  Capacity,   \* the size each is constructed with
  Null        \* buffer_ after it was moved from

ASSUME Capacity \in Nat \ {0}
ASSUME Null \notin Chans

\* slots new T[size + 1] allocates
Slots == 0 .. Capacity

VARIABLES
  phase,      \* c -> "unborn" | "live" | "dead"
  size,       \* c -> size_
  buf,        \* c -> the buffer buffer_ owns, or Null
  closed,     \* c -> closed_
  alive,      \* b -> slot -> a T object lives in slot i of buffer b
  ub          \* "none", or the undefined behaviour that happened

vars == <<phase, size, buf, closed, alive, ub>>

Init ==
  /\ phase = [c \in Chans |-> "unborn"]
  /\ size = [c \in Chans |-> 0]
  /\ buf = [c \in Chans |-> Null]
  /\ closed = [c \in Chans |-> FALSE]
  /\ alive = [b \in Chans |-> [i \in Slots |-> FALSE]]
  /\ ub = "none"

\* the slots' lives after ~T() runs on the slots S of buffer b (a delete[]
\* or destructor loop over a null buffer destroys nothing)
Destroyed(a, b, S) ==
  IF b = Null THEN a ELSE [a EXCEPT ![b] = [i \in Slots |-> IF i \in S THEN FALSE ELSE @[i]]]

\* the undefined behaviour, if any, of that: ~T() through a null buffer, or
\* on a slot whose object has already been destroyed
UBOf(u, a, b, S) ==
  CASE u # "none" \/ S = {}          -> u
    [] b = Null                      -> "null_buffer"
    [] \E i \in S : ~a[b][i]          -> "double_destruction"
    [] OTHER                         -> u

(* bounded_channel(size): size_ = size + 1, buffer_(new T[size + 1]) (which *)
(* default-constructs every slot), then a placement new T() over each slot *)
(* (the objects new[] made are ended without their destructor).            *)
Construct(c) ==
  /\ phase[c] = "unborn"
  /\ phase' = [phase EXCEPT ![c] = "live"]
  /\ size' = [size EXCEPT ![c] = Capacity + 1]
  /\ buf' = [buf EXCEPT ![c] = c]
  /\ closed' = [closed EXCEPT ![c] = FALSE]
  /\ alive' = [alive EXCEPT ![c] = [i \in Slots |-> TRUE]]
  /\ UNCHANGED ub

(* bounded_channel(bounded_channel&& rhs): t takes rhs's size_, buffer_ and *)
(* closed_; rhs is left with size_ = 0 and closed_ = true.                 *)
MoveConstruct(rhs, t) ==
  /\ phase[rhs] = "live" /\ phase[t] = "unborn"
  /\ phase' = [phase EXCEPT ![t] = "live"]
  /\ size' = [size EXCEPT ![t] = size[rhs], ![rhs] = 0]
  /\ buf' = [buf EXCEPT ![t] = buf[rhs], ![rhs] = Null]
  /\ closed' = [closed EXCEPT ![t] = closed[rhs], ![rhs] = TRUE]
  /\ UNCHANGED <<alive, ub>>

(* operator=(bounded_channel&& rhs): size_, buffer_ (the unique_ptr         *)
(* assignment delete[]s the old buffer, destroying its slots) and closed_   *)
(* taken from rhs; rhs gets closed_ = true but keeps its size_.  A self-   *)
(* move is not explored.                                                   *)
MoveAssign(rhs, t) ==
  /\ phase[rhs] = "live" /\ phase[t] = "live" /\ rhs # t
  /\ size' = [size EXCEPT ![t] = size[rhs]]
  /\ buf' = [buf EXCEPT ![t] = buf[rhs], ![rhs] = Null]
  /\ closed' = [closed EXCEPT ![t] = closed[rhs], ![rhs] = TRUE]
  /\ LET old == IF buf[t] = Null THEN {} ELSE Slots IN
       /\ alive' = Destroyed(alive, buf[t], old)
       /\ ub' = UBOf(ub, alive, buf[t], old)
  /\ UNCHANGED phase

(* ~bounded_channel(): under the lock, ~T() on slots 0 .. size_ - 1, close *)
(* when not closed (which only sets closed_ and returns), then the members' *)
(* destructors: the unique_ptr delete[]s its buffer, which runs ~T() on     *)
(* every slot again.  Both passes are one step: nothing else may touch a   *)
(* channel being destroyed.                                                *)
Destroy(c) ==
  /\ phase[c] = "live"
  /\ phase' = [phase EXCEPT ![c] = "dead"]
  /\ closed' = [closed EXCEPT ![c] = TRUE]
  /\ LET b     == buf[c]
         loop  == 0 .. size[c] - 1
         a1    == Destroyed(alive, b, loop)
         u1    == UBOf(ub, alive, b, loop)
         owned == IF b = Null THEN {} ELSE Slots
     IN  /\ alive' = Destroyed(a1, b, owned)
         /\ ub' = UBOf(u1, a1, b, owned)
  /\ buf' = [buf EXCEPT ![c] = Null]
  /\ UNCHANGED size

Next ==
  \/ \E c \in Chans : Construct(c) \/ Destroy(c)
  \/ \E rhs, t \in Chans : MoveConstruct(rhs, t) \/ MoveAssign(rhs, t)

Spec == Init /\ [][Next]_vars

-----------------------------------------------------------------------------

TypeOK ==
  /\ phase \in [Chans -> {"unborn", "live", "dead"}]
  /\ size \in [Chans -> 0 .. Capacity + 1]
  /\ buf \in [Chans -> Chans \cup {Null}]
  /\ closed \in [Chans -> BOOLEAN]
  /\ alive \in [Chans -> [Slots -> BOOLEAN]]
  /\ ub \in {"none", "null_buffer", "double_destruction"}

(* Every T object a channel holds is destroyed at most once and only       *)
(* through a live buffer, whatever sequence of constructions, moves and    *)
(* destructions the channels go through (the destructor's explicit ~T()    *)
(* loop followed by the unique_ptr's delete[], and the size_ a move         *)
(* assignment leaves in its source, are what this is about).                *)
SlotObjectsDestroyedOnce == ub = "none"

=============================================================================
