---------------------------- MODULE PoolSuspension ----------------------------
(***************************************************************************)
(* The elasticity helpers of thread_pool_suspension_helpers.cpp: the eight *)
(* entry points suspend/resume_processing_unit and suspend/resume_pool,    *)
(* each in an awaitable form (returns a future) and a callback form        *)
(* (_cb).  A call checks the pool's scheduler mode bits and the caller's   *)
(* context, then either fails (throws, returns an exceptional future, or   *)
(* sets the error_code) or launches a job: pika::async / pika::apply of    *)
(* the direct call on the caller's pool, or a detached std::thread when    *)
(* the caller is not a pika task.  The job runs the *_direct operation of  *)
(* thread_pool_base and then readies the future or calls the callback.    *)
(*                                                                         *)
(* thread_pool_base is not under src/: from spec.md 3 and 5, a unit is     *)
(* active or suspended, a direct call is serialised per unit (one step),   *)
(* and a pika task runs only on an active unit of its pool: any active     *)
(* unit when the pool has work stealing, otherwise the unit it was         *)
(* scheduled on.  An OS thread always runs.  The error_code passed to the  *)
(* _cb forms is the caller's own (not `throws`).                           *)
(***************************************************************************)
EXTENDS Naturals, FiniteSets

CONSTANTS
  Pools,        \* the runtime's thread pools
  Units,        \* virtual core indices of every pool
  Callers,      \* threads that call the helpers
  Outside,      \* CallerPool value of a thread that is not a pika task
  CallerPool,   \* caller -> pika::this_thread::get_pool(), or Outside
  CallerUnit,   \* caller -> the unit its task was scheduled on
  MaxCalls      \* bound: calls each caller makes

ASSUME CallerPool \in [Callers -> Pools \cup {Outside}]
ASSUME CallerUnit \in [Callers -> Units]
ASSUME MaxCalls \in Nat

Modes == {"elasticity", "stealing"}
Forms == {"future", "cb"}
PUOps == {"suspend_processing_unit", "resume_processing_unit"}
PoolOps == {"suspend_pool", "resume_pool"}
Results == {"thrown", "exceptional_future", "error_code", "launched"}

\* a request names the units it changes: one for the processing-unit
\* forms, every unit of the pool for the pool forms
Requests ==
  [op : PUOps, form : Forms, pool : Pools, units : {{u} : u \in Units}]
    \cup [op : PoolOps, form : Forms, pool : Pools, units : {Units}]

VARIABLES
  mode,      \* pool -> its scheduler's mode bits (fixed at start-up)
  active,    \* pool -> unit -> the unit is scheduling (not suspended)
  calls,     \* caller -> calls made so far
  last,      \* caller -> form and result of its last call
  jobs       \* launched jobs: the request, its caller and call, its stage

vars == <<mode, active, calls, last, jobs>>

HasMode(p, m) == m \in mode[p]

\* threads::get_self_ptr() != nullptr
InPika(c) == CallerPool[c] # Outside

\* pika::this_thread::get_pool() == &pool (nullptr outside pika)
SamePool(c, p) == CallerPool[c] = p

\* a task of pool p scheduled on unit u can be run by some worker
TaskRunnable(p, u) ==
  IF HasMode(p, "stealing") THEN \E v \in Units : active[p][v]
                            ELSE active[p][u]

\* the caller, and every job it launched (a task on the caller's pool, or
\* an OS thread), can make progress
CanRun(c) == IF InPika(c) THEN TaskRunnable(CallerPool[c], CallerUnit[c]) ELSE TRUE

(* resume_processing_unit: throws outside pika; exceptional future       *)
(* without elasticity; else async(resume_processing_unit_direct).        *)
ResumeProcessingUnit(c, p) ==
  CASE ~InPika(c)                  -> "thrown"
    [] ~HasMode(p, "elasticity")   -> "exceptional_future"
    [] OTHER                       -> "launched"

\* Fault variant: the elasticity check of the callback form left out.
ResumeProcessingUnitCbUnchecked(c, p) == "launched"

(* resume_processing_unit_cb: error_code without elasticity; else the    *)
(* wrapper is applied (inside pika) or run on a detached thread.         *)
ResumeProcessingUnitCb(c, p) ==
  IF ~HasMode(p, "elasticity") THEN "error_code" ELSE "launched"

\* Fault variant: the self-suspension check of the awaitable form left out.
SuspendProcessingUnitNoStealingCheck(c, p) ==
  CASE ~InPika(c)                  -> "thrown"
    [] ~HasMode(p, "elasticity")   -> "exceptional_future"
    [] OTHER                       -> "launched"

(* suspend_processing_unit: throws outside pika; exceptional future      *)
(* without elasticity, or without stealing when called from a task of    *)
(* the same pool; else async(suspend_processing_unit_direct).            *)
SuspendProcessingUnit(c, p) ==
  CASE ~InPika(c)                  -> "thrown"
    [] ~HasMode(p, "elasticity")   -> "exceptional_future"
    [] ~HasMode(p, "stealing") /\ SamePool(c, p)
                                   -> "exceptional_future"
    [] OTHER                       -> "launched"

(* suspend_processing_unit_cb: error_code without elasticity; inside     *)
(* pika, without stealing and from the same pool, PIKA_THROW_EXCEPTION   *)
(* (ec is not used); else apply, or a detached thread outside pika.      *)
SuspendProcessingUnitCb(c, p) ==
  CASE ~HasMode(p, "elasticity")   -> "error_code"
    [] InPika(c) /\ ~HasMode(p, "stealing") /\ SamePool(c, p)
                                   -> "thrown"
    [] OTHER                       -> "launched"

\* Fault variant: the throw outside pika falls through to the unreachable
\* `return pika::make_ready_future();` after it.
ResumePoolNoThrow(c, p) == IF ~InPika(c) THEN "ready_future" ELSE "launched"

(* resume_pool: throws outside pika, else async(resume_direct).           *)
ResumePool(c, p) == IF ~InPika(c) THEN "thrown" ELSE "launched"

(* resume_pool_cb: no check; apply, or a detached thread.                *)
ResumePoolCb(c, p) == "launched"

(* suspend_pool: throws outside pika; exceptional future (bad_parameter) *)
(* from a task of the same pool; else async(suspend_direct).             *)
SuspendPool(c, p) ==
  CASE ~InPika(c)       -> "thrown"
    [] SamePool(c, p)   -> "exceptional_future"
    [] OTHER            -> "launched"

\* Fault variant: the same-pool check of the callback form left out.
SuspendPoolCbUnchecked(c, p) == "launched"

(* suspend_pool_cb: error_code (bad_parameter) from a task of the same   *)
(* pool; else apply, or a detached thread.                               *)
SuspendPoolCb(c, p) ==
  IF InPika(c) /\ SamePool(c, p) THEN "error_code" ELSE "launched"

\* the entry point a request calls
EntryPoint(c, r) ==
  LET p == r.pool IN
  CASE r.op = "resume_processing_unit" /\ r.form = "future"
         -> ResumeProcessingUnit(c, p)
    [] r.op = "resume_processing_unit" /\ r.form = "cb"
         -> ResumeProcessingUnitCb(c, p)
    [] r.op = "suspend_processing_unit" /\ r.form = "future"
         -> SuspendProcessingUnit(c, p)
    [] r.op = "suspend_processing_unit" /\ r.form = "cb"
         -> SuspendProcessingUnitCb(c, p)
    [] r.op = "resume_pool" /\ r.form = "future"  -> ResumePool(c, p)
    [] r.op = "resume_pool" /\ r.form = "cb"      -> ResumePoolCb(c, p)
    [] r.op = "suspend_pool" /\ r.form = "future" -> SuspendPool(c, p)
    [] r.op = "suspend_pool" /\ r.form = "cb"     -> SuspendPoolCb(c, p)

\* the state a unit is left in by the direct call of op
Effect(op) == op \in {"resume_processing_unit", "resume_pool"}

Init ==
  /\ mode \in [Pools -> SUBSET Modes]
  /\ active = [p \in Pools |-> [u \in Units |-> TRUE]]
  /\ calls = [c \in Callers |-> 0]
  /\ last = [c \in Callers |-> [form |-> "none", result |-> "none"]]
  /\ jobs = {}

(* A call of one entry point by caller c (a running task or an OS        *)
(* thread): the result returns to the caller; a launched request becomes *)
(* a queued job (the task created by pika::async / pika::apply, or the    *)
(* detached std::thread running the wrapper).                            *)
Call(c, r) ==
  /\ calls[c] < MaxCalls
  /\ CanRun(c)
  /\ LET res == EntryPoint(c, r) IN
       /\ last' = [last EXCEPT ![c] = [form |-> r.form, result |-> res]]
       /\ jobs' = IF res = "launched"
                    THEN jobs \cup {[op |-> r.op, form |-> r.form,
                                     pool |-> r.pool, units |-> r.units,
                                     caller |-> c, k |-> calls[c] + 1,
                                     stage |-> "queued"]}
                    ELSE jobs
  /\ calls' = [calls EXCEPT ![c] = @ + 1]
  /\ UNCHANGED <<mode, active>>

\* job j with its stage advanced to s
Staged(j, s) == [j EXCEPT !.stage = s]

(* The job's direct call: suspend_processing_unit_direct,                *)
(* resume_processing_unit_direct, suspend_direct or resume_direct of     *)
(* thread_pool_base, one step under the unit's lock.                     *)
RunDirect(j) ==
  /\ j.stage = "queued"
  /\ CanRun(j.caller)
  /\ active' = [active EXCEPT ![j.pool] =
                  [u \in Units |-> IF u \in j.units THEN Effect(j.op)
                                                    ELSE @[u]]]
  /\ jobs' = (jobs \ {j}) \cup {Staged(j, "applied")}
  /\ UNCHANGED <<mode, calls, last>>

(* After the direct call returns: the async task readies its future, or   *)
(* the wrapper calls callback().  The job must still be able to run: a    *)
(* task that has just suspended its own unit continues only if another    *)
(* unit of its pool can steal it.                                         *)
Complete(j) ==
  /\ j.stage = "applied"
  /\ CanRun(j.caller)
  /\ jobs' = (jobs \ {j}) \cup {Staged(j, "done")}
  /\ UNCHANGED <<mode, active, calls, last>>

Next ==
  \/ \E c \in Callers, r \in Requests : Call(c, r)
  \/ \E j \in jobs : RunDirect(j) \/ Complete(j)

\* the job of caller c's k-th call, if launched
JobOf(c, k) == {j \in jobs : j.caller = c /\ j.k = k}

\* every launched job keeps running while some worker can run it; the
\* pika scheduler runs every ready task and an OS thread always runs
Fairness ==
  \A c \in Callers, k \in 1 .. MaxCalls :
    WF_vars(\E j \in JobOf(c, k) : RunDirect(j) \/ Complete(j))

Spec == Init /\ [][Next]_vars /\ Fairness

-----------------------------------------------------------------------------

TypeOK ==
  /\ mode \in [Pools -> SUBSET Modes]
  /\ active \in [Pools -> [Units -> BOOLEAN]]
  /\ calls \in [Callers -> 0 .. MaxCalls]
  /\ last \in [Callers -> [form : Forms \cup {"none"},
                           result : Results \cup {"none"}]]
  /\ \A j \in jobs :
       /\ [op |-> j.op, form |-> j.form, pool |-> j.pool, units |-> j.units]
            \in Requests
       /\ j.caller \in Callers
       /\ j.k \in 1 .. MaxCalls
       /\ j.stage \in {"queued", "applied", "done"}


\* a step in which job j's direct call runs
Applied(j) == j.stage = "queued" /\ Staged(j, "applied") \in jobs'

(* Only a pool-level request changes a unit of a pool without the         *)
(* elasticity mode: the processing-unit forms reject such a pool before   *)
(* launching anything (the has_scheduler_mode checks of all four).        *)
UnitRequestsRespectElasticity ==
  [][\A p \in Pools :
       ~HasMode(p, "elasticity") /\ active'[p] # active[p]
         => \E j \in jobs : j.op \in PoolOps /\ j.pool = p /\ Applied(j)]_vars

(* A caller's own request never leaves it unable to run, except by        *)
(* suspending the last active unit of its pool when the pool steals (the  *)
(* gap RequestsComplete shows): when the direct call of one of its jobs   *)
(* takes effect, a caller that could run before still can.  This is what  *)
(* the get_pool / enable_stealing checks of both suspend_processing_unit  *)
(* forms and the get_pool check of both suspend_pool forms are for: a     *)
(* task suspending its own unit of a pool without stealing, or its own    *)
(* pool, would strand itself and its job.                                 *)
SelfRequestsKeepCallerRunning ==
  [][\A j \in jobs :
       Applied(j) /\ CanRun(j.caller) /\ ~CanRun(j.caller)'
         => /\ HasMode(j.pool, "stealing")
            /\ j.op = "suspend_processing_unit"
            /\ j.units = {v \in Units : active[j.pool][v]}]_vars

(* Every launched request eventually completes: its future becomes ready  *)
(* or its callback runs.  The checks let a task of a pool with stealing   *)
(* suspend units of its own pool one by one, the last active one          *)
(* included; its own job then has no unit left to run on.                 *)
RequestsComplete ==
  \A c \in Callers, k \in 1 .. MaxCalls :
    (\E j \in JobOf(c, k) : TRUE) ~> (\E j \in JobOf(c, k) : j.stage = "done")

=============================================================================
