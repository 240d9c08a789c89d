----------------------------- MODULE RateLimiter -----------------------------
(***************************************************************************)
(* RateLimiter of vitrine (ratelimit.py): per key, the times of the calls  *)
(* it let through, oldest first.  A call is checked against those of its   *)
(* own window; every SweepEvery checks the keys nobody asks for any more   *)
(* are dropped.  The clock is monotonic, so a deque is always sorted.      *)
(*                                                                         *)
(* A schedule is a sequence of calls [key, limit, per, wait], the wait     *)
(* being the time that passes before the call; Verdicts plays one.         *)
(***************************************************************************)
EXTENDS Integers, Sequences, SequencesExt

CONSTANT SweepEvery   \* _SWEEP_EVERY

ASSUME SweepAssumption == SweepEvery \in Nat \ {0}

\* hits: key -> times, over the keys that have a deque.
NewLimiter == [hits |-> <<>>, maxPer |-> 0, checks |-> 0]

\* Mutant: the oldest hit is looked at, where it takes the newest.
SweepByOldest(hits, now, maxPer) ==
    LET live == {k \in DOMAIN hits : hits[k] # <<>> /\ now - hits[k][1] < maxPer}
    IN [k \in live |-> hits[k]]

\* _sweep: only a key that is idle for the longest window seen is dropped.
Sweep(hits, now, maxPer) ==
    LET live == {k \in DOMAIN hits : hits[k] # <<>> /\ now - Last(hits[k]) < maxPer}
    IN [k \in live |-> hits[k]]

\* The left end of the deque is popped as long as it is out of the window.
Recent(times, now, per) ==
    LET within == {i \in DOMAIN times : now - times[i] < per}
    IN IF within = {} THEN <<>> ELSE SubSeq(times, Min(within), Len(times))

\* A call that is let through is recorded.
Slot(recent, now, limit) ==
    IF Len(recent) >= limit THEN recent ELSE Append(recent, now)

\* check, and what enforce makes of it: 0 lets the call through, a wait refuses
\* it.  With a limit of 0 there is no oldest hit to wait for: IndexError.
Check(limiter, now, call) ==
    LET maxPer == IF call.per > limiter.maxPer THEN call.per ELSE limiter.maxPer
        due == limiter.checks + 1 >= SweepEvery
        swept == IF due THEN Sweep(limiter.hits, now, maxPer) ELSE limiter.hits
        times == IF call.key \in DOMAIN swept THEN swept[call.key] ELSE <<>>
        recent == Recent(times, now, call.per)
        hits == [k \in DOMAIN swept \cup {call.key} |->
                    IF k = call.key THEN Slot(recent, now, call.limit) ELSE swept[k]]
    IN [limiter |-> [hits |-> hits, maxPer |-> maxPer,
                     checks |-> IF due THEN 0 ELSE limiter.checks + 1],
        retry |-> IF Len(recent) < call.limit THEN 0
                  ELSE IF recent = <<>> THEN -1
                  ELSE call.per - (now - recent[1])]

\* A call, and what it leaves: each call is logged with its time and the answer.
Started == [now |-> 0, limiter |-> NewLimiter, log |-> <<>>]
Play(st, call) ==
    LET now == st.now + call.wait
        checked == Check(st.limiter, now, call)
    IN [now |-> now, limiter |-> checked.limiter,
        log |-> Append(st.log, [at |-> now, call |-> call, retry |-> checked.retry])]

\* The calls of a schedule, one after the other.
Played(schedule) ==
    LET after[n \in 0 .. Len(schedule)] ==
            IF n = 0 THEN Started ELSE Play(after[n - 1], schedule[n])
    IN after
Verdicts(schedule) == Played(schedule)[Len(schedule)].log
=============================================================================
