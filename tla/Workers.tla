------------------------------- MODULE Workers -------------------------------
(***************************************************************************)
(* Supervised background workers of vitrine (workers.py).  One task per    *)
(* worker calls its function, in a scope of its own, again and again: a    *)
(* periodic one some time after each run, a loop whenever it returns, and  *)
(* any of them after a crash, with a delay that doubles from one failure   *)
(* to the next.  A cancellation strikes at the await a task is at.         *)
(***************************************************************************)
EXTENDS Naturals

CONSTANTS
    Workers,
    Periodic,     \* those with `every`; the others are loops
    Delayed,      \* those with an initial delay
    Stubborn,     \* those whose cleanups may fail also when they are cancelled
    MaxExponent   \* the largest power of two a float holds, 1023

ASSUME WorkersAssumption ==
    /\ Periodic \subseteq Workers /\ Delayed \subseteq Workers /\ Stubborn \subseteq Workers
    /\ MaxExponent \in Nat

VARIABLES
    specs,        \* the workers that are registered
    phase,        \* where the task of each worker is
    outcome,      \* how the run of its function ended, while its scope is closed
    healthy,      \* its last run lasted for _HEALTHY_RUNTIME
    failures      \* unsuccessful runs in a row, as _supervise counts them

workerVars == <<specs, phase, outcome, healthy, failures>>

Phases == {"none", "delayed", "running", "cleaning", "backoff", "resting", "ended"}
Outcomes == {"returned", "raised", "cancelled"}

\* What has a task of its own that is not done.
Alive(w) == phase[w] \notin {"none", "ended"}

WorkersInit ==
    /\ specs = {}
    /\ phase = [w \in Workers |-> "none"]
    /\ outcome = [w \in Workers |-> "returned"]
    /\ healthy = [w \in Workers |-> FALSE]
    /\ failures = [w \in Workers |-> 0]

\* WorkerSupervisor.add, for each of the specs, and start.
StartWorkers ==
    /\ phase' = [w \in Workers |-> IF w \notin specs THEN "none"
                                   ELSE IF w \in Delayed THEN "delayed" ELSE "running"]
    /\ UNCHANGED <<specs, outcome, healthy, failures>>

\* A sleep is over; the next run starts.
Wakes(w) ==
    /\ phase[w] \in {"delayed", "backoff", "resting"}
    /\ phase' = [phase EXCEPT ![w] = "running"]
    /\ healthy' = [healthy EXCEPT ![w] = FALSE]
    /\ UNCHANGED <<specs, outcome, failures>>

RunsLong(w) ==
    /\ phase[w] = "running" /\ ~healthy[w]
    /\ healthy' = [healthy EXCEPT ![w] = TRUE]
    /\ UNCHANGED <<specs, phase, outcome, failures>>

\* The function, or what it needs, returns or raises; _run_once closes the scope.  A
\* CancelledError may be the function's own: it awaited a task that was cancelled.
RunEnds(w) ==
    /\ phase[w] = "running"
    /\ phase' = [phase EXCEPT ![w] = "cleaning"]
    /\ outcome' \in {[outcome EXCEPT ![w] = o] : o \in Outcomes}
    /\ UNCHANGED <<specs, healthy, failures>>

\* The delay after n failures in a row is computed first: 2 ** (n - 1), as a float.
BacksOff(w, n) ==
    /\ failures' = [failures EXCEPT ![w] = n]
    /\ phase' = [phase EXCEPT ![w] = IF n - 1 > MaxExponent THEN "ended" ELSE "backoff"]
    /\ UNCHANGED <<specs, outcome, healthy>>

\* What _supervise makes of a run that has returned ...
Returned(w) ==
    IF w \in Periodic
    THEN /\ failures' = [failures EXCEPT ![w] = 0]
         /\ phase' = [phase EXCEPT ![w] = "resting"]
         /\ UNCHANGED <<specs, outcome, healthy>>
    ELSE BacksOff(w, IF healthy[w] THEN 1 ELSE failures[w] + 1)

\* Mutant: a worker that raises is not started again.
RaisedOnce(w) ==
    /\ phase' = [phase EXCEPT ![w] = "ended"]
    /\ UNCHANGED <<specs, outcome, healthy, failures>>

\* ... and of one that has raised: a crash, however long it ran before.
Raised(w) == BacksOff(w, failures[w] + 1)

\* The scope is closed: supervision goes by how the run ended.
CleanedUp(w) ==
    /\ phase[w] = "cleaning"
    /\ CASE outcome[w] = "returned"  -> Returned(w)
         [] outcome[w] = "raised"    -> Raised(w)
         [] outcome[w] = "cancelled" -> /\ phase' = [phase EXCEPT ![w] = "ended"]
                                        /\ UNCHANGED <<specs, outcome, healthy, failures>>

\* A cleanup raises: its exception takes the place of whatever ended the run, be it a
\* CancelledError.
CleanupRaises(w) ==
    /\ phase[w] = "cleaning"
    /\ outcome[w] = "cancelled" => w \in Stubborn
    /\ Raised(w)

\* Mutant: only a worker that is running its function is cancelled.
CancelRunning ==
    /\ phase' = [w \in Workers |-> IF phase[w] = "running" THEN "cleaning" ELSE phase[w]]
    /\ outcome' = [w \in Workers |->
                      IF phase[w] = "running" THEN "cancelled" ELSE outcome[w]]
    /\ UNCHANGED <<specs, healthy, failures>>

\* WorkerSupervisor.stop: every task is cancelled once.
CancelWorkers ==
    /\ phase' = [w \in Workers |->
                    CASE phase[w] \in {"delayed", "backoff", "resting"} -> "ended"
                      [] phase[w] \in {"running", "cleaning"}           -> "cleaning"
                      [] OTHER                                          -> phase[w]]
    /\ outcome' = [w \in Workers |->
                      IF phase[w] \in {"running", "cleaning"} THEN "cancelled"
                      ELSE outcome[w]]
    /\ UNCHANGED <<specs, healthy, failures>>

Works(w) == Wakes(w) \/ RunsLong(w) \/ RunEnds(w) \/ CleanedUp(w) \/ CleanupRaises(w)

WorkersTypeOK ==
    /\ specs \subseteq Workers
    /\ phase \in [Workers -> Phases]
    /\ outcome \in [Workers -> Outcomes]
    /\ healthy \in [Workers -> BOOLEAN]
    /\ failures \in [Workers -> 0 .. MaxExponent + 2]

\* workers.py:36: "a long-running loop alive at least this long is healthy and resets
\* the backoff": its next delay is the first one again.
HealthyLoopResetsBackoff ==
    \A w \in Workers \ Periodic : phase[w] = "backoff" /\ healthy[w] => failures[w] = 1
=============================================================================
