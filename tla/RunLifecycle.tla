---------------------------- MODULE RunLifecycle ----------------------------
(***************************************************************************)
(* What vitrine's conversations promise a bot's author (docs/              *)
(* conversations.md, "Exits" and "One run per user per chat"), with no     *)
(* tasks, timers or pipelines: a caller has at most one live run, a run    *)
(* ends once, and the moment it ends its exit hook is called with the      *)
(* reason.  Only stopping the bot drops runs without a word.               *)
(***************************************************************************)
EXTENDS Sequences

CONSTANTS Callers, Runs, NoRun

VARIABLES
    live,     \* caller -> its live run, or NoRun
    exits,    \* run -> the reasons its exit hook has been called with
    stopped   \* has the bot stopped

Init ==
    /\ live = [c \in Callers |-> NoRun]
    /\ exits = [r \in Runs |-> <<>>]
    /\ stopped = FALSE

\* A run that nobody has and that never ended.
New(r) == exits[r] = <<>> /\ \A c \in Callers : live[c] # r

Start(c, r) ==
    /\ ~stopped
    /\ live[c] = NoRun
    /\ New(r)
    /\ live' = [live EXCEPT ![c] = r]
    /\ UNCHANGED <<exits, stopped>>

End(c, reason) ==
    /\ ~stopped
    /\ live[c] # NoRun
    /\ live' = [live EXCEPT ![c] = NoRun]
    /\ exits' = [exits EXCEPT ![live[c]] = <<reason>>]
    /\ UNCHANGED stopped

\* An entry may end the run it has just started.
EndAtOnce(r, reason) ==
    /\ ~stopped
    /\ New(r)
    /\ exits' = [exits EXCEPT ![r] = <<reason>>]
    /\ UNCHANGED <<live, stopped>>

Stop ==
    /\ ~stopped
    /\ stopped' = TRUE
    /\ live' = [c \in Callers |-> NoRun]
    /\ UNCHANGED exits

Next ==
    \/ \E c \in Callers, r \in Runs : Start(c, r)
    \/ \E c \in Callers, reason \in {"FINISHED", "CANCELLED", "TIMEOUT"} : End(c, reason)
    \/ \E r \in Runs, reason \in {"FINISHED", "CANCELLED"} : EndAtOnce(r, reason)
    \/ Stop

Spec == Init /\ [][Next]_<<live, exits, stopped>>
=============================================================================
