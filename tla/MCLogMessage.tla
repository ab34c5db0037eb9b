---------------------------- MODULE MCLogMessage ----------------------------
(* An instance of LogMessage for TLC: two message objects (one may be the  *)
(* target of a move), a message constructed from "a" or empty, writes of    *)
(* "b" and of an empty string (which still invalidates the cache).          *)
EXTENDS LogMessage

MCTexts == {<<"a">>}
MCWrites == {<<"b">>, <<>>}
=============================================================================
