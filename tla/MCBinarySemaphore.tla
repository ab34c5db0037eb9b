--------------------------- MODULE MCBinarySemaphore --------------------------
(* Model-checking instances of BinarySemaphore.                           *)
EXTENDS BinarySemaphore, SemaphoreTests

\* pika_main of the unit test, with the release thread of
\* semaphore_acquire_and_release_test; then a contention round: two timed
\* acquires (300 ms and 200 ms) wait on one semaphore while a third thread
\* releases twice, 100 ms apart
MCTestThreads == {"main", "release_thread", "a", "b", "c"}
MCContention ==
  <<New(0), S("spawn", "a", "none"), S("spawn", "b", "none"),
    S("spawn", "c", "none"), S("join", "a", "none"),
    S("join", "b", "none"), S("join", "c", "none")>>
MCTestProgram ==
  [t \in MCTestThreads |->
     CASE t = "main"           -> PikaMain("release_thread") \o MCContention
       [] t = "release_thread" -> SemaphoreAcquireAndRelease
       [] t = "a" -> <<CallTryAcquireFor(3, "none")>>
       [] t = "b" -> <<CallTryAcquireFor(2, "none")>>
       [] t = "c" -> <<CallSleepFor(1), CallRelease, CallSleepFor(1), CallRelease>>]
=============================================================================
