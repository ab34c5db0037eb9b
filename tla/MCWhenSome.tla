------------------------------ MODULE MCWhenSome ------------------------------
(* Model-checking instances of WhenSome.                                  *)
EXTENDS WhenSome

\* when_some(n, begin, end) over three futures, i.e. the range overload
\* with three futures: n ranges over 0 .. 4, so the n == 0 and n > size
\* early returns are both taken, and every mix of ready, async and
\* deferred inputs is an initial state
MCRangeOfThree == IteratorGroups(3)

\* the tuple overload when_some(n, f, std::vector<future>{}): two
\* top-level arguments, but only one future
MCFutureAndEmptyRange == <<1, 0>>

\* the tuple overload when_some(n, std::vector<future>{a, b}, f): a range
\* of two futures before a top-level one
MCRangeThenFuture == <<2, 1>>
=============================================================================
