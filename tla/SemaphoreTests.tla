---------------------------- MODULE SemaphoreTests ----------------------------
(***************************************************************************)
(* The unit test binary_semaphore_cpp20.cpp as programs for the threads    *)
(* of BinarySemaphore.  A step is [op, arg, expect]: expect is the result  *)
(* a PIKA_TEST requires ("true"/"false"), or "none".  Durations are in     *)
(* ticks of 100 ms.  The tests' elapsed-time checks (marked "guessing!"    *)
(* in the source) depend on the scheduler's latency and are not modelled.  *)
(***************************************************************************)
EXTENDS Integers, Sequences

S(op, arg, expect) == [op |-> op, arg |-> arg, expect |-> expect]

\* binary_semaphore sem; (default constructor) / binary_semaphore sem(v);
NewDefault == S("construct", -1, "none")
New(v) == S("construct", v, "none")
CallRelease == S("release", 0, "none")
CallAcquire == S("acquire", 0, "none")
CallTryAcquire(expect) == S("try_acquire", 0, expect)
CallTryAcquireFor(d, expect) == S("try_acquire_for", d, expect)
\* try_acquire_until(start + d), start the thread's last now()
CallTryAcquireUntil(d, expect) == S("try_acquire_until", d, expect)
CallNow == S("now", 0, "none")
CallSleepFor(d) == S("sleep", d, "none")

TestSemaphoreReleaseAcquire == <<NewDefault, CallRelease, CallAcquire>>

TestSemaphoreTryAcquire ==
  <<New(0), CallTryAcquire("false"), CallRelease, CallTryAcquire("true")>>

\* run(): start release_thread, acquire, join
SemaphoreAcquireAndReleaseRun(releaser) ==
  <<NewDefault, S("spawn", releaser, "none"), CallAcquire,
    S("join", releaser, "none")>>

\* acquire_and_release(): sleep one second, release
SemaphoreAcquireAndRelease == <<CallSleepFor(10), CallRelease>>

TestSemaphoreTryAcquireFor ==
  <<New(0), CallTryAcquireFor(5, "false"), CallRelease, CallTryAcquireFor(5, "true")>>

TestSemaphoreTryAcquireUntil ==
  <<New(0), CallNow, CallTryAcquireUntil(5, "false"), CallRelease,
    CallNow, CallTryAcquireUntil(5, "true")>>

TestSemaphoreTryAcquireForUntil ==
  <<New(0), CallTryAcquireFor(5, "false"), CallRelease, CallTryAcquireFor(5, "true"),
    CallNow, CallTryAcquireUntil(5, "false"), CallRelease, CallNow,
    CallTryAcquireUntil(5, "true"), CallRelease,
    \* timed acquire after timeout
    NewDefault, CallNow, CallSleepFor(5), CallRelease, CallTryAcquireUntil(1, "true")>>

\* pika_main: the tests in order; releaser is the thread of the third
PikaMain(releaser) ==
  TestSemaphoreReleaseAcquire \o TestSemaphoreTryAcquire
    \o SemaphoreAcquireAndReleaseRun(releaser) \o TestSemaphoreTryAcquireFor
    \o TestSemaphoreTryAcquireUntil \o TestSemaphoreTryAcquireForUntil

=============================================================================
