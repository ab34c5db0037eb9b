---------------------------- MODULE MCPoolSuspension --------------------------
(* Model-checking instances of PoolSuspension.                            *)
EXTENDS PoolSuspension

\* two units per pool, so a unit can be suspended while its pool keeps
\* running and a pool can lose its last active unit
MCUnits == {0, 1}

\* an OS thread outside the runtime and a pika task of pool pa on unit 0;
\* pb is a second pool the task may suspend or resume
MCCallerPool == [c \in {"thread", "task"} |-> IF c = "thread" THEN Outside ELSE "pa"]
MCCallerUnit == [c \in {"thread", "task"} |-> 0]

\* a single pika task of pool pa that makes every call
MCTaskOnly == [c \in {"task"} |-> "pa"]
MCTaskUnit == [c \in {"task"} |-> 0]
=============================================================================
