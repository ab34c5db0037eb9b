------------------------------ MODULE LogMessage ------------------------------
(***************************************************************************)
(* pika::util::logging::message (logging/message.hpp), host build: the     *)
(* text of a log record is kept in a std::stringstream m_str; full_string() *)
(* caches m_str.str() in the mutable m_full_msg and sets                   *)
(* m_full_msg_computed, which every write clears.  Printing a message to a *)
(* std::ostream inserts m_str.rdbuf(), which extracts the characters the   *)
(* stream's get area has not handed out yet.                               *)
(*                                                                         *)
(* A text is a sequence of characters; what operator<< or format() writes  *)
(* is one of a small set of such sequences (the formatting itself is not   *)
(* modelled).  Msgs are message objects; a move-constructed one comes to   *)
(* life when it is moved into.  Out is the log stream every print goes to. *)
(***************************************************************************)
EXTENDS Naturals, Sequences

CONSTANTS
  Msgs,       \* message objects
  Texts,      \* texts a message may be constructed from (the stringstream)
  Writes,     \* texts one operator<< or format() call writes
  MaxLen      \* bound: characters a message holds

ASSUME Texts \subseteq Seq(STRING) /\ Writes \subseteq Seq(STRING)
ASSUME MaxLen \in Nat

VARIABLES
  live,       \* the objects constructed so far
  str,        \* m -> the characters written to m_str
  gpos,       \* m -> characters of m_str its get area has handed out
  computed,   \* m -> m_full_msg_computed
  full,       \* m -> m_full_msg
  out,        \* the characters the log stream received
  failbit     \* the log stream's failbit

vars == <<live, str, gpos, computed, full, out, failbit>>

(* message() and message(std::stringstream msg): the stream is the given   *)
(* one (or empty), nothing is cached.  Every object that exists at the     *)
(* start was made by one of the two; the others are targets of a move.    *)
Init ==
  /\ live \in (SUBSET Msgs) \ {{}}
  /\ str \in {s \in [Msgs -> Texts \cup {<<>>}] : \A m \in Msgs \ live : s[m] = <<>>}
  /\ gpos = [m \in Msgs |-> 0]
  /\ computed = [m \in Msgs |-> FALSE]
  /\ full = [m \in Msgs |-> <<>>]
  /\ out = <<>>
  /\ failbit = FALSE

\* Fault variant: the write leaves m_full_msg_computed as it was.
WriteNoReset(m, v) ==
  /\ m \in live /\ Len(str[m] \o v) <= MaxLen
  /\ str' = [str EXCEPT ![m] = @ \o v]
  /\ UNCHANGED <<live, gpos, computed, full, out, failbit>>

(* operator<<(T&& v) and format(format_str, args...): the text is appended *)
(* to m_str (at its put position, the end) and the cache is invalidated.   *)
Write(m, v) ==
  /\ m \in live /\ Len(str[m] \o v) <= MaxLen
  /\ str' = [str EXCEPT ![m] = @ \o v]
  /\ computed' = [computed EXCEPT ![m] = FALSE]
  /\ UNCHANGED <<live, gpos, full, out, failbit>>

(* full_string() const, and empty() which calls it: recompute the cache    *)
(* from m_str.str() (the whole buffer, whatever the get area handed out)   *)
(* unless it is marked computed; the caller gets a reference to the cache. *)
FullString(m) ==
  /\ m \in live /\ ~computed[m]
  /\ computed' = [computed EXCEPT ![m] = TRUE]
  /\ full' = [full EXCEPT ![m] = str[m]]
  /\ UNCHANGED <<live, str, gpos, out, failbit>>

\* Fault variant: the moved-from cache's flag taken, its text left behind.
MoveKeepCache(m, t) ==
  /\ m \in live /\ t \notin live
  /\ live' = live \cup {t}
  /\ str' = [str EXCEPT ![t] = str[m], ![m] = <<>>]
  /\ gpos' = [gpos EXCEPT ![t] = gpos[m], ![m] = 0]
  /\ computed' = [computed EXCEPT ![t] = computed[m], ![m] = FALSE]
  /\ UNCHANGED <<full, out, failbit>>

(* message(message&& other): t takes other's stream (its get position with *)
(* it), flag and cache; other's flag is cleared.  A moved-from stringbuf   *)
(* and string are left empty (libstdc++).                                  *)
Move(m, t) ==
  /\ m \in live /\ t \notin live
  /\ live' = live \cup {t}
  /\ str' = [str EXCEPT ![t] = str[m], ![m] = <<>>]
  /\ gpos' = [gpos EXCEPT ![t] = gpos[m], ![m] = 0]
  /\ computed' = [computed EXCEPT ![t] = computed[m], ![m] = FALSE]
  /\ full' = [full EXCEPT ![t] = full[m], ![m] = <<>>]
  /\ UNCHANGED <<out, failbit>>

(* operator<<(std::ostream& os, message const&): os << m_str.rdbuf().  On  *)
(* a failed stream the sentry stops it; otherwise the characters not yet  *)
(* extracted are copied, and when there are none the stream's failbit is  *)
(* set.                                                                    *)
StreamOut(m) ==
  /\ m \in live /\ ~failbit
  /\ IF gpos[m] = Len(str[m])
       THEN failbit' = TRUE /\ UNCHANGED <<out, gpos>>
       ELSE /\ out' = out \o SubSeq(str[m], gpos[m] + 1, Len(str[m]))
            /\ gpos' = [gpos EXCEPT ![m] = Len(str[m])]
            /\ UNCHANGED failbit
  /\ UNCHANGED <<live, str, computed, full>>

Next ==
  \/ \E m \in Msgs, v \in Writes : Write(m, v)
  \/ \E m \in Msgs : FullString(m) \/ StreamOut(m)
  \/ \E m, t \in Msgs : Move(m, t)

Spec == Init /\ [][Next]_vars

-----------------------------------------------------------------------------

(* Whatever sequence of writes, reads, prints and moves a message went     *)
(* through, full_string() (and so empty()) hands out the message's whole  *)
(* current text: the cache is marked valid only while it equals            *)
(* m_str.str() (write, format and the move constructor each keep flag and *)
(* cache in step; a print consumes the get area but not the text).        *)
FullStringCurrent ==
  \A m \in live : computed[m] => full[m] = str[m]

=============================================================================
