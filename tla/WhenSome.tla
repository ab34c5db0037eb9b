------------------------------- MODULE WhenSome -------------------------------
(***************************************************************************)
(* pika::when_some(n, ...) (async_combinators/when_some.hpp): wait until  *)
(* n of the input futures are ready and return the indices of the ready   *)
(* ones in the order they were seen.                                      *)
(*                                                                         *)
(* Actors:                                                                 *)
(*  - the caller of when_some(n, ...), which checks n and launches the     *)
(*    join task (futures_factory p.apply());                               *)
(*  - the join task, running when_some<Sequence>::operator(): it walks the *)
(*    flattened inputs with set_when_some_callback_impl (the waiter,       *)
(*    program counter wpc), then suspends unless its own thread reached   *)
(*    the goal;                                                            *)
(*  - one completer per async input, whose set_value() runs the stored    *)
(*    on_future_ready callback on the completer's thread.                  *)
(* Every atomic access (count_ load/fetch_add, the goal flag, one          *)
(* lock-guarded push_back, a shared state's ready check, set_on_completed *)
(* under the shared state's lock) is its own step.                        *)
(*                                                                         *)
(* The inputs are a sequence Groups of top-level elements: Groups[g] = 1   *)
(* is a future, any other k is a nested range of k futures (the tuple      *)
(* overload flattens nested ranges, the range overload has all 1s).  The   *)
(* futures are numbered 0 .. FutureCount - 1 in the order the walk       *)
(* visits them; the index idx_ the code records for future i is IdxOf(i),  *)
(* which differs from i once a nested range precedes it.  (A range of one  *)
(* future is not encoded.)                                                 *)
(*                                                                         *)
(* ctx.resume() of a pika thread that is still active is retried by the   *)
(* runtime until the thread has suspended (set_thread_state on an active  *)
(* thread), so a resume issued before the join task suspends wakes it     *)
(* when it does: resume is a token the suspended waiter consumes.          *)
(***************************************************************************)
EXTENDS Integers, Sequences, FiniteSets, Functions

CONSTANTS
  Groups      \* the top-level inputs: 1 for a future, k for a range of k

ASSUME Groups \in Seq(Nat)

\* values.size() / 1 + sizeof...(Ts): the top-level input count
TopCount == Len(Groups)

\* when_some(n, begin, end) and when_some_n(n, begin, count): the count
\* futures the iterators give are moved into a std::vector, which is
\* passed on to the range overload: Groups of count single futures
IteratorGroups(count) == [i \in 1 .. count |-> 1]

\* the number of futures the callback walk visits
FutureCount == SumFunction(Groups)

Futures == 0 .. FutureCount - 1

\* the number of futures before top-level input g in the walk
GroupStart(g) == SumFunction([h \in 1 .. g - 1 |-> Groups[h]])

GroupOf(i) ==
  CHOOSE g \in DOMAIN Groups : GroupStart(g) <= i /\ i < GroupStart(g) + Groups[g]

\* idx_ when the walk reaches future i.  The walker counts a top-level
\* future itself (++idx_); a nested range is walked by
\* std::for_each(begin, end, *this), a copy of the walker whose idx_ starts
\* at the walker's and is dropped afterwards, so the walker's own idx_ does
\* not move past the range.
IdxOf(i) ==
  LET g == GroupOf(i)
  IN  Cardinality({h \in 1 .. g - 1 : Groups[h] = 1}) + (i - GroupStart(g))

\* the possible states of an input when when_some is called
Kinds == {"ready", "async", "deferred"}

VARIABLES
  n,          \* needed_count_ (the caller's argument)
  call,       \* outcome of the when_some call itself
  kind,       \* kind[i]: how future i was created (fixed)
  fready,     \* fready[i]: future i's shared state is_ready()
  stored,     \* stored[i]: the join's callback is stored on future i
  cbpc,       \* cbpc[i]: program counter of on_future_ready for input i
  cbInline,   \* cbInline[i]: that callback runs on the join task's thread
  cbNew,      \* cbNew[i]: its local new_count
  count,      \* count_
  indices,    \* values_.indices
  goal,       \* goal_reached_on_calling_thread_
  resumes,    \* number of ctx.resume() calls made
  wpc,        \* program counter of the join task
  widx,       \* idx_ of set_when_some_callback_impl
  result      \* the indices the join task returned

vars == <<n, call, kind, fready, stored, cbpc, cbInline, cbNew, count,
          indices, goal, resumes, wpc, widx, result>>

CbPCs == {"idle", "add", "push", "signal", "done"}
WPCs == {"idle", "load", "check", "exec", "recheck", "register", "inline",
         "push", "add", "flag", "suspended", "done"}

\* Fault variant: the walk runs one input past the end.
NextInputPastEnd == IF widx + 1 <= FutureCount THEN "load" ELSE "flag"

\* `++idx_` followed by the next element of the walk, or the end of
\* set_on_completed_callback
NextInput == IF widx + 1 < FutureCount THEN "load" ELSE "flag"

Init ==
  /\ n \in 0 .. TopCount + 1
  /\ call = "none"
  /\ kind \in [Futures -> Kinds]
  /\ fready = [i \in Futures |-> kind[i] = "ready"]
  /\ stored = [i \in Futures |-> FALSE]
  /\ cbpc = [i \in Futures |-> "idle"]
  /\ cbInline = [i \in Futures |-> FALSE]
  /\ cbNew = [i \in Futures |-> 0]
  /\ count = 0
  /\ indices = <<>>
  /\ goal = FALSE
  /\ resumes = 0
  /\ wpc = "idle"
  /\ widx = 0
  /\ result = <<>>

-----------------------------------------------------------------------------
(* The caller: pika::when_some(n, values).                                 *)

\* n == 0: make_ready_future(empty result); n > size: exceptional future
\* (bad_parameter); otherwise make the join record and launch its task.
WhenSomeCall ==
  /\ call = "none"
  /\ \/ /\ n = 0
        /\ call' = "ready_empty"
        /\ UNCHANGED wpc
     \/ /\ n > TopCount
        /\ call' = "bad_parameter"
        /\ UNCHANGED wpc
     \/ /\ n # 0 /\ n <= TopCount
        /\ call' = "task"
        /\ wpc' = IF FutureCount > 0 THEN "load" ELSE "flag"
  /\ UNCHANGED <<n, kind, fready, stored, cbpc, cbInline, cbNew, count,
                 indices, goal, resumes, widx, result>>

-----------------------------------------------------------------------------
(* The join task: when_some::operator() and set_when_some_callback_impl.   *)

wvars == <<n, call, kind, fready, stored, cbpc, cbInline, cbNew, count,
           indices, goal, resumes, result>>

\* `counter = count_.load(); if (counter < needed_count_)`
WLoad ==
  /\ wpc = "load"
  /\ IF count < n
       THEN /\ wpc' = "check" /\ UNCHANGED widx
       ELSE /\ wpc' = NextInput /\ widx' = widx + 1
  /\ UNCHANGED wvars

\* `if (shared_state && !shared_state->is_ready())`
WCheck ==
  /\ wpc = "check"
  /\ wpc' = IF fready[widx] THEN "push" ELSE "exec"
  /\ UNCHANGED <<widx, wvars>>

\* `shared_state->execute_deferred()`: runs a deferred future's function
\* on this thread, which makes it ready; no callback is stored on it yet.
WExecDeferred ==
  /\ wpc = "exec"
  /\ fready' = [fready EXCEPT ![widx] = @ \/ kind[widx] = "deferred"]
  /\ wpc' = "recheck"
  /\ UNCHANGED <<n, call, kind, stored, cbpc, cbInline, cbNew, count,
                 indices, goal, resumes, widx, result>>

\* the second `if (!shared_state->is_ready())`
WRecheck ==
  /\ wpc = "recheck"
  /\ wpc' = IF fready[widx] THEN "push" ELSE "register"
  /\ UNCHANGED <<widx, wvars>>

\* Fault variant: no `return` after storing the callback, so the walk
\* falls through to the ready path for the same input.
WRegisterNoReturn ==
  /\ wpc = "register"
  /\ IF fready[widx]
       THEN /\ cbpc' = [cbpc EXCEPT ![widx] = "add"]
            /\ cbInline' = [cbInline EXCEPT ![widx] = TRUE]
            /\ wpc' = "inline"
            /\ UNCHANGED stored
       ELSE /\ stored' = [stored EXCEPT ![widx] = TRUE]
            /\ wpc' = "push"
            /\ UNCHANGED <<cbpc, cbInline>>
  /\ UNCHANGED <<n, call, kind, fready, cbNew, count, indices, goal,
                 resumes, widx, result>>

\* `set_on_completed(on_future_ready(idx_, agent()))` under the shared
\* state's lock: if the future completed since the recheck, the callback
\* runs at once on this thread; otherwise it is stored.  Then `++idx_;
\* return;`, after the inline callback has finished.
WRegister ==
  /\ wpc = "register"
  /\ IF fready[widx]
       THEN /\ cbpc' = [cbpc EXCEPT ![widx] = "add"]
            /\ cbInline' = [cbInline EXCEPT ![widx] = TRUE]
            /\ wpc' = "inline"
            /\ UNCHANGED <<stored, widx>>
       ELSE /\ stored' = [stored EXCEPT ![widx] = TRUE]
            /\ wpc' = NextInput
            /\ widx' = widx + 1
            /\ UNCHANGED <<cbpc, cbInline>>
  /\ UNCHANGED <<n, call, kind, fready, cbNew, count, indices, goal,
                 resumes, result>>

WInlineDone ==
  /\ wpc = "inline"
  /\ cbpc[widx] = "done"
  /\ wpc' = NextInput
  /\ widx' = widx + 1
  /\ UNCHANGED wvars

\* the ready path: `std::lock_guard l(mtx_); indices.push_back(idx_);`
WPush ==
  /\ wpc = "push"
  /\ indices' = Append(indices, IdxOf(widx))
  /\ wpc' = "add"
  /\ UNCHANGED <<n, call, kind, fready, stored, cbpc, cbInline, cbNew,
                 count, goal, resumes, widx, result>>

\* Fault variant: `>=` for `==`.
SyncGoalReachedAtLeast(old) == old + 1 >= n

\* `if (count_.fetch_add(1) + 1 == needed_count_) goal_reached... = true;`
SyncGoalReached(old) == old + 1 = n

WAdd ==
  /\ wpc = "add"
  /\ count' = count + 1
  /\ goal' = (goal \/ SyncGoalReached(count))
  /\ wpc' = NextInput
  /\ widx' = widx + 1
  /\ UNCHANGED <<n, call, kind, fready, stored, cbpc, cbInline, cbNew,
                 indices, resumes, result>>

\* `if (!goal_reached_on_calling_thread_.load()) suspend(); return values_;`
WFlag ==
  /\ wpc = "flag"
  /\ IF goal
       THEN /\ wpc' = "done" /\ result' = indices
       ELSE /\ wpc' = "suspended" /\ UNCHANGED result
  /\ UNCHANGED <<n, call, kind, fready, stored, cbpc, cbInline, cbNew,
                 count, indices, goal, resumes, widx>>

\* Fault variant: the suspension returns without a resume.
WResumedSpurious ==
  /\ wpc = "suspended"
  /\ wpc' = "done"
  /\ result' = indices
  /\ UNCHANGED <<n, call, kind, fready, stored, cbpc, cbInline, cbNew,
                 count, indices, goal, resumes, widx>>

\* resumed by ctx.resume(): `return PIKA_MOVE(values_);`
WResumed ==
  /\ wpc = "suspended"
  /\ resumes > 0
  /\ wpc' = "done"
  /\ result' = indices
  /\ UNCHANGED <<n, call, kind, fready, stored, cbpc, cbInline, cbNew,
                 count, indices, goal, resumes, widx>>

-----------------------------------------------------------------------------
(* The completers: set_value on an async input, and on_future_ready.       *)

\* the async operation finishes; set_value takes the stored callbacks
\* under the shared state's lock and runs them on this thread
Complete(i) ==
  /\ kind[i] = "async"
  /\ ~fready[i]
  /\ fready' = [fready EXCEPT ![i] = TRUE]
  /\ IF stored[i]
       THEN /\ stored' = [stored EXCEPT ![i] = FALSE]
            /\ cbpc' = [cbpc EXCEPT ![i] = "add"]
       ELSE UNCHANGED <<stored, cbpc>>
  /\ UNCHANGED <<n, call, kind, cbInline, cbNew, count, indices, goal,
                 resumes, wpc, widx, result>>

\* Fault variant: `<` for `<=`, dropping the callback that reaches n.
OnReadyAddStrict(i) ==
  /\ cbpc[i] = "add"
  /\ count' = count + 1
  /\ cbNew' = [cbNew EXCEPT ![i] = count + 1]
  /\ cbpc' = [cbpc EXCEPT ![i] = IF count + 1 < n THEN "push" ELSE "done"]
  /\ UNCHANGED <<n, call, kind, fready, stored, cbInline, indices, goal,
                 resumes, wpc, widx, result>>

\* `new_count = count_.fetch_add(1) + 1; if (new_count <= needed_count_)`
OnReadyAdd(i) ==
  /\ cbpc[i] = "add"
  /\ count' = count + 1
  /\ cbNew' = [cbNew EXCEPT ![i] = count + 1]
  /\ cbpc' = [cbpc EXCEPT ![i] = IF count + 1 <= n THEN "push" ELSE "done"]
  /\ UNCHANGED <<n, call, kind, fready, stored, cbInline, indices, goal,
                 resumes, wpc, widx, result>>

\* `lock_guard l(mtx_); indices.push_back(idx); if (new_count == needed)`
OnReadyPush(i) ==
  /\ cbpc[i] = "push"
  /\ indices' = Append(indices, IdxOf(i))
  /\ cbpc' = [cbpc EXCEPT ![i] = IF cbNew[i] = n THEN "signal" ELSE "done"]
  /\ UNCHANGED <<n, call, kind, fready, stored, cbInline, cbNew, count,
                 goal, resumes, wpc, widx, result>>

\* Fault variant: the agent comparison inverted.
OnReadySignalInverted(i) ==
  /\ cbpc[i] = "signal"
  /\ IF ~cbInline[i]
       THEN goal' = TRUE /\ UNCHANGED resumes
       ELSE resumes' = resumes + 1 /\ UNCHANGED goal
  /\ cbpc' = [cbpc EXCEPT ![i] = "done"]
  /\ UNCHANGED <<n, call, kind, fready, stored, cbInline, cbNew, count,
                 indices, wpc, widx, result>>

\* `if (ctx != this_thread::agent()) ctx.resume(); else goal = true;`
OnReadySignal(i) ==
  /\ cbpc[i] = "signal"
  /\ IF cbInline[i]
       THEN goal' = TRUE /\ UNCHANGED resumes
       ELSE resumes' = resumes + 1 /\ UNCHANGED goal
  /\ cbpc' = [cbpc EXCEPT ![i] = "done"]
  /\ UNCHANGED <<n, call, kind, fready, stored, cbInline, cbNew, count,
                 indices, wpc, widx, result>>

-----------------------------------------------------------------------------

Waiter ==
  \/ WLoad \/ WCheck \/ WExecDeferred \/ WRecheck \/ WRegister
  \/ WInlineDone \/ WPush \/ WAdd \/ WFlag \/ WResumed

Callback(i) == OnReadyAdd(i) \/ OnReadyPush(i) \/ OnReadySignal(i)

\* every actor has finished: the call has returned, the join task (if
\* any) has returned, every async input has completed and every callback
\* has run; deferred inputs nobody forced stay unrun
Finished ==
  /\ call # "none"
  /\ call = "task" => wpc = "done"
  /\ \A i \in Futures : kind[i] = "async" => fready[i]
  /\ \A i \in Futures : cbpc[i] \in {"idle", "done"}

Next ==
  \/ WhenSomeCall
  \/ Waiter
  \/ \E i \in Futures : Complete(i) \/ Callback(i)

\* The pika scheduler eventually runs every ready task: the join task, the
\* async inputs' tasks and the callbacks they run.  A resumed task is
\* ready again.
Fairness ==
  /\ WF_vars(WhenSomeCall)
  /\ WF_vars(Waiter)
  /\ \A i \in Futures : WF_vars(Complete(i)) /\ WF_vars(Callback(i))

Spec == Init /\ [][Next]_vars /\ Fairness

-----------------------------------------------------------------------------

TypeOK ==
  /\ n \in 0 .. TopCount + 1
  /\ call \in {"none", "ready_empty", "bad_parameter", "task"}
  /\ kind \in [Futures -> Kinds]
  /\ fready \in [Futures -> BOOLEAN]
  /\ stored \in [Futures -> BOOLEAN]
  /\ cbpc \in [Futures -> CbPCs]
  /\ cbInline \in [Futures -> BOOLEAN]
  /\ cbNew \in [Futures -> 0 .. FutureCount]
  /\ count \in 0 .. FutureCount
  /\ indices \in Seq(Futures)
  /\ goal \in BOOLEAN
  /\ resumes \in Nat
  /\ wpc \in WPCs
  /\ widx \in 0 .. FutureCount
  /\ result \in Seq(Futures)

(* No input is recorded twice: the ready path of the walk and the         *)
(* on_future_ready callback never both push the same index, whichever     *)
(* completes first (set_on_completed is followed by `return`).            *)
IndicesDistinct == IsInjective(indices)

(* Exactly one party is responsible for ending the join task's wait:      *)
(* either its own thread reaches the goal (the flag) or one other thread  *)
(* resumes it, never both and never two resumes.                          *)
SingleWaker == (IF goal THEN 1 ELSE 0) + resumes <= 1

(* The join task returns only once n inputs have been counted             *)
(* (PIKA_ASSERT(count_ >= needed_count_) after the suspension).           *)
ReturnOnlyAtGoal == wpc = "done" => count >= n

(* A suspended join task is never stranded: while it is suspended and     *)
(* not yet resumed, some input that has not yet been counted can still   *)
(* be counted by a callback, so someone will resume it.                   *)
WaiterHasWaker ==
  (wpc = "suspended" /\ resumes = 0) =>
    \E i \in Futures : stored[i] \/ cbpc[i] \in {"add", "push", "signal"}

(* Every actor finishes: the when_some call returns, a launched join task *)
(* is resumed (or never suspends) and returns, and every on_future_ready  *)
(* callback runs to its end.  The system then stops: there is nothing     *)
(* left to do once the join has returned.                                 *)
JoinCompletes == <>Finished

(* spec.md 4.2/8: the result holds no more than n indices (entries seen   *)
(* after the threshold is met are dropped).  The walk reads count_ before *)
(* it pushes, so a callback can reach n in between and the walk's push    *)
(* makes it n + 1.                                                        *)
ResultAtMostN == wpc = "done" => Len(result) <= n

(* spec.md 4.2/8: the result holds n indices.  on_future_ready increments *)
(* count_ before it pushes its index, so the callback that reaches n can  *)
(* push and resume the join task while an earlier callback has counted    *)
(* but not yet pushed.                                                    *)
ResultAtLeastN == wpc = "done" => Len(result) >= n

=============================================================================
