--------------------------- MODULE BinarySemaphore ----------------------------
(***************************************************************************)
(* pika::binary_semaphore as spec.md 4.5 describes it, driven by threads   *)
(* that run straight-line programs (the unit test binary_semaphore_cpp20   *)
(* is such a set of programs, see SemaphoreTests).  The semaphore's code   *)
(* is not under src/; its state is one permit and a queue of blocked       *)
(* waiters, every call runs under the semaphore's lock, and a blocked      *)
(* waiter is woken either by a release (notify one) or, for a timed call,  *)
(* by its deadline, whichever happens first.  A woken waiter rechecks the  *)
(* permit: it takes it, fails if its deadline has passed, or blocks again. *)
(*                                                                         *)
(* Time is a discrete clock `now` (one tick = 100 ms of the test).  A      *)
(* default-constructed semaphore's initial permit is not fixed by the      *)
(* spec; DefaultPermit is the set of values it may have.                   *)
(***************************************************************************)
EXTENDS Integers, Sequences

CONSTANTS
  Threads,        \* the test's threads
  Main,           \* the thread that runs pika_main; the others are spawned
  Program,        \* thread -> its sequence of steps
  DefaultPermit,  \* initial permits of binary_semaphore sem;
  MaxTime         \* bound: the clock does not pass MaxTime

ASSUME Main \in Threads /\ DefaultPermit \subseteq {0, 1} /\ MaxTime \in Nat

NoDeadline == -1

VARIABLES
  permit,     \* the semaphore's count, 0 or 1
  now,        \* the clock
  pc,         \* thread -> index of its current step
  st,         \* thread -> "idle" (not spawned), "run", "blocked",
              \*   "signalled" (woken by a release), "sleeping", "done"
  until,      \* thread -> deadline of its timed wait or end of its sleep
  mark,       \* thread -> the time its last `now()` call read
  failures    \* the steps whose PIKA_TEST failed: <<thread, step index>>

vars == <<permit, now, pc, st, until, mark, failures>>

Step(t) == Program[t][pc[t]]

\* the state a thread is in after finishing its current step
After(t) == IF pc[t] = Len(Program[t]) THEN "done" ELSE "run"

\* the step is done: its result is checked against the test's expectation
Finish(t, result) ==
  /\ pc' = [pc EXCEPT ![t] = @ + 1]
  /\ failures' = IF Step(t).expect \in {"none", result} THEN failures
                 ELSE failures \cup {<<t, pc[t]>>}

Running(t, op) == st[t] = "run" /\ Step(t).op = op

\* time d has come; the clock stops at MaxTime, which stands for every
\* later time, so there every deadline has passed
Passed(d) == now >= d \/ now = MaxTime

Init ==
  /\ permit \in DefaultPermit
  /\ now = 0
  /\ pc = [t \in Threads |-> 1]
  /\ st = [t \in Threads |-> IF t = Main THEN "run" ELSE "idle"]
  /\ until = [t \in Threads |-> NoDeadline]
  /\ mark = [t \in Threads |-> 0]
  /\ failures = {}

(* binary_semaphore sem(arg), or binary_semaphore sem; (arg NoDeadline):  *)
(* a new semaphore object takes the place of the previous one.            *)
Construct(t) ==
  /\ Running(t, "construct")
  /\ permit' \in IF Step(t).arg = NoDeadline THEN DefaultPermit
                 ELSE {Step(t).arg}
  /\ st' = [st EXCEPT ![t] = After(t)]
  /\ Finish(t, "none")
  /\ UNCHANGED <<now, until, mark>>

\* Fault variants of release(): a counting release that adds a permit
\* (permits accumulate), and one that notifies no waiter.
ReleaseAccumulates(t) ==
  /\ Running(t, "release")
  /\ permit' = permit + 1
  /\ \/ /\ \A w \in Threads : st[w] # "blocked"
        /\ st' = [st EXCEPT ![t] = After(t)]
     \/ \E w \in Threads :
          /\ st[w] = "blocked"
          /\ st' = [st EXCEPT ![t] = After(t), ![w] = "signalled"]
  /\ Finish(t, "none")
  /\ UNCHANGED <<now, until, mark>>
ReleaseNoNotify(t) ==
  /\ Running(t, "release")
  /\ permit' = 1
  /\ st' = [st EXCEPT ![t] = After(t)]
  /\ Finish(t, "none")
  /\ UNCHANGED <<now, until, mark>>

(* release(): the permit becomes available (a second release does not    *)
(* add one) and one blocked waiter, if there is one, is notified.         *)
Release(t) ==
  /\ Running(t, "release")
  /\ permit' = 1
  /\ \/ /\ \A w \in Threads : st[w] # "blocked"
        /\ st' = [st EXCEPT ![t] = After(t)]
     \/ \E w \in Threads :
          /\ st[w] = "blocked"
          /\ st' = [st EXCEPT ![t] = After(t), ![w] = "signalled"]
  /\ Finish(t, "none")
  /\ UNCHANGED <<now, until, mark>>

(* acquire(): takes the permit, or blocks until a release notifies it and *)
(* then checks again.                                                     *)
Acquire(t) ==
  /\ st[t] \in {"run", "signalled"}
  /\ Step(t).op = "acquire"
  /\ IF permit = 1
       THEN /\ permit' = 0
            /\ st' = [st EXCEPT ![t] = After(t)]
            /\ Finish(t, "none")
       ELSE /\ st' = [st EXCEPT ![t] = "blocked"]
            /\ UNCHANGED <<permit, pc, failures>>
  /\ UNCHANGED <<now, until, mark>>

(* try_acquire(): takes the permit if it is available, never blocks. *)
TryAcquire(t) ==
  /\ Running(t, "try_acquire")
  /\ permit' = 0
  /\ st' = [st EXCEPT ![t] = After(t)]
  /\ Finish(t, IF permit = 1 THEN "true" ELSE "false")
  /\ UNCHANGED <<now, until, mark>>

\* the deadline of a timed acquire: now + rel_time for try_acquire_for,
\* the absolute time (a `now()` the thread read, plus an offset) for
\* try_acquire_until
Deadline(t) ==
  IF st[t] = "signalled" THEN until[t]
  ELSE IF Step(t).op = "try_acquire_for" THEN now + Step(t).arg
  ELSE mark[t] + Step(t).arg

\* Fault variant: the deadline is tested before the permit.
TimedAcquireDeadlineFirst(t) ==
  /\ st[t] \in {"run", "signalled"}
  /\ Step(t).op \in {"try_acquire_for", "try_acquire_until"}
  /\ CASE Passed(Deadline(t)) ->
            /\ st' = [st EXCEPT ![t] = After(t)]
            /\ until' = [until EXCEPT ![t] = NoDeadline]
            /\ Finish(t, "false")
            /\ UNCHANGED permit
       [] permit = 1 ->
            /\ permit' = 0
            /\ st' = [st EXCEPT ![t] = After(t)]
            /\ until' = [until EXCEPT ![t] = NoDeadline]
            /\ Finish(t, "true")
       [] OTHER ->
            /\ st' = [st EXCEPT ![t] = "blocked"]
            /\ until' = [until EXCEPT ![t] = Deadline(t)]
            /\ UNCHANGED <<permit, pc, failures>>
  /\ UNCHANGED <<now, mark>>

(* try_acquire_for / try_acquire_until: takes the permit if it is         *)
(* available, even after the deadline; otherwise fails if the deadline    *)
(* has passed, else blocks until notified or timed out.  A notified       *)
(* waiter runs this check again.                                          *)
TimedAcquire(t) ==
  /\ st[t] \in {"run", "signalled"}
  /\ Step(t).op \in {"try_acquire_for", "try_acquire_until"}
  /\ CASE permit = 1 ->
            /\ permit' = 0
            /\ st' = [st EXCEPT ![t] = After(t)]
            /\ until' = [until EXCEPT ![t] = NoDeadline]
            /\ Finish(t, "true")
       [] Passed(Deadline(t)) ->
            /\ st' = [st EXCEPT ![t] = After(t)]
            /\ until' = [until EXCEPT ![t] = NoDeadline]
            /\ Finish(t, "false")
            /\ UNCHANGED permit
       [] OTHER ->
            /\ st' = [st EXCEPT ![t] = "blocked"]
            /\ until' = [until EXCEPT ![t] = Deadline(t)]
            /\ UNCHANGED <<permit, pc, failures>>
  /\ UNCHANGED <<now, mark>>

\* Fault variant: the timer also ends a wait that a release has already
\* notified (the wait reports a timeout and the notification is dropped).
TimeoutAfterNotify(t) ==
  /\ st[t] \in {"blocked", "signalled"}
  /\ until[t] # NoDeadline
  /\ Passed(until[t])
  /\ st' = [st EXCEPT ![t] = After(t)]
  /\ until' = [until EXCEPT ![t] = NoDeadline]
  /\ Finish(t, "false")
  /\ UNCHANGED <<permit, now, mark>>

(* A blocked timed waiter whose deadline has come is woken by the timer   *)
(* and leaves the wait queue; the call returns false.                     *)
Timeout(t) ==
  /\ st[t] = "blocked"
  /\ until[t] # NoDeadline
  /\ Passed(until[t])
  /\ st' = [st EXCEPT ![t] = After(t)]
  /\ until' = [until EXCEPT ![t] = NoDeadline]
  /\ Finish(t, "false")
  /\ UNCHANGED <<permit, now, mark>>

(* std::this_thread::sleep_for(arg), and the end of the sleep. *)
Sleep(t) ==
  /\ Running(t, "sleep")
  /\ st' = [st EXCEPT ![t] = "sleeping"]
  /\ until' = [until EXCEPT ![t] = now + Step(t).arg]
  /\ UNCHANGED <<permit, now, pc, mark, failures>>

WakeUp(t) ==
  /\ st[t] = "sleeping"
  /\ Passed(until[t])
  /\ st' = [st EXCEPT ![t] = After(t)]
  /\ until' = [until EXCEPT ![t] = NoDeadline]
  /\ Finish(t, "none")
  /\ UNCHANGED <<permit, now, mark>>

(* auto start = std::chrono::steady_clock::now(); *)
ReadClock(t) ==
  /\ Running(t, "now")
  /\ mark' = [mark EXCEPT ![t] = now]
  /\ st' = [st EXCEPT ![t] = After(t)]
  /\ Finish(t, "none")
  /\ UNCHANGED <<permit, now, until>>

(* pika::thread constructor (starts thread arg) and join(). *)
Spawn(t) ==
  /\ Running(t, "spawn")
  /\ st' = [st EXCEPT ![t] = After(t), ![Step(t).arg] = "run"]
  /\ Finish(t, "none")
  /\ UNCHANGED <<permit, now, until, mark>>

Join(t) ==
  /\ Running(t, "join")
  /\ st[Step(t).arg] = "done"
  /\ st' = [st EXCEPT ![t] = After(t)]
  /\ Finish(t, "none")
  /\ UNCHANGED <<permit, now, until, mark>>

\* some thread waits for the clock
WaitsOnClock ==
  \E t \in Threads :
    st[t] = "sleeping" \/ (st[t] = "blocked" /\ until[t] # NoDeadline)

(* the clock advances while a thread waits on it *)
Tick ==
  /\ now < MaxTime
  /\ WaitsOnClock
  /\ now' = now + 1
  /\ UNCHANGED <<permit, pc, st, until, mark, failures>>

Thread(t) ==
  \/ Construct(t) \/ Release(t) \/ Acquire(t) \/ TryAcquire(t)
  \/ TimedAcquire(t) \/ Timeout(t) \/ Sleep(t) \/ WakeUp(t)
  \/ ReadClock(t) \/ Spawn(t) \/ Join(t)

Next == Tick \/ \E t \in Threads : Thread(t)

\* every thread that can make progress eventually does (pika schedules
\* every ready task, OS threads run), and time passes
Spec == Init /\ [][Next]_vars /\ WF_vars(Tick)
          /\ \A t \in Threads : WF_vars(Thread(t))

-----------------------------------------------------------------------------

TypeOK ==
  /\ permit \in {0, 1}
  /\ now \in 0 .. MaxTime
  /\ \A t \in Threads : pc[t] \in 1 .. Len(Program[t]) + 1
  /\ st \in [Threads -> {"idle", "run", "blocked", "signalled", "sleeping",
                         "done"}]
  /\ until \in [Threads -> Int]
  /\ mark \in [Threads -> 0 .. MaxTime]
  /\ failures \subseteq Threads \X Nat


(* Every PIKA_TEST of the programs passes: try_acquire fails without a    *)
(* permit and succeeds after a release, a timed acquire times out when    *)
(* nothing releases and succeeds at once when the permit is there, also   *)
(* when its deadline has already passed (binary_semaphore_cpp20.cpp:175). *)
TestsPass == failures = {}

(* No lost wakeup: while the permit is available, a thread blocked in an  *)
(* acquire is never left without a notified waiter that will take it: a   *)
(* release notifies one waiter, and a timed waiter that was notified      *)
(* rechecks the permit instead of reporting a timeout.                    *)
NoLostWakeup ==
  (permit = 1 /\ \E t \in Threads : st[t] = "blocked")
    => \E t \in Threads : st[t] = "signalled"

(* The test terminates: every acquire is eventually satisfied by the      *)
(* release of the other thread, every timed acquire returns, and the main *)
(* thread reaches the end of pika_main.                                   *)
ProgramsFinish == <>(st[Main] = "done")

=============================================================================
