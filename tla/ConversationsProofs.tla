------------------------- MODULE ConversationsProofs -------------------------
(***************************************************************************)
(* Theorems about Conversations, for any callers, flows, states and runs.  *)
(* The first part holds for any number of updates in flight; the second    *)
(* part for one update at a time, as PTB feeds a bot.                      *)
(***************************************************************************)
EXTENDS Conversations, TLAPS

-----------------------------------------------------------------------------
(* Type correctness.                                                       *)

\* A task with no update holds a well-formed job.
LEMMA IdleJobTyped == IdleJob \in Job
  BY ConstantsAssumption DEF IdleJob, Job, Kinds, Results

\* What matching hands to a task is a job.
LEMMA OfferedTyped ==
    ASSUME TypeOK, NEW c \in Callers, NEW j \in Offered(c)
    PROVE  j \in Job
  BY IdleJobTyped DEF TypeOK, Offered, Job, Kinds, Results, IdleJob

\* Moving a task keeps pc and job typed.
LEMMA GotoTyped ==
    ASSUME TypeOK, NEW t \in Tasks, NEW label \in PCs, NEW j \in Job, Goto(t, label, j)
    PROVE  pc' \in [Tasks -> PCs] /\ job' \in [Tasks -> Job]
  BY DEF TypeOK, Goto

\* A task that is done keeps pc and job typed.
LEMMA DoneTyped ==
    ASSUME TypeOK, NEW t \in Tasks, Done(t)
    PROVE  pc' \in [Tasks -> PCs] /\ job' \in [Tasks -> Job]
  BY IdleJobTyped DEF TypeOK, Done, Goto, PCs

\* Calling an exit hook keeps the history typed.
LEMMA HookTyped ==
    ASSUME TypeOK, NEW r \in Runs, NEW f, NEW reason \in Reasons, HookCalled(r, f, reason)
    PROVE  exits' \in [Runs -> Seq(Reasons)]
  BY DEF TypeOK, HookCalled

\* An exit reason is a reason.
LEMMA ReasonTyped == ASSUME NEW result PROVE ExitReason(result) \in Reasons
  BY DEF ExitReason, Reasons

\* Filling in a job's run or result leaves it a job.
LEMMA JobUpdates ==
    ASSUME TypeOK, NEW t \in Tasks, NEW r \in Runs \cup {NoRun}, NEW result \in Results
    PROVE  /\ [job[t] EXCEPT !.run = r] \in Job
           /\ [job[t] EXCEPT !.result = result] \in Job
           /\ job[t].caller \in Callers /\ job[t].flow \in Flows
           /\ job[t].run \in Runs \cup {NoRun}
  BY DEF TypeOK, Job

\* The end of _enter is well typed when its task holds a run.
LEMMA ConcludeTyped ==
    ASSUME TypeOK, NEW t \in Tasks, NEW result \in Results, NEW old,
           job[t].run \in Runs, Conclude(t, result, old),
           UNCHANGED <<expiring, closed>>
    PROVE  TypeOK'
<1>. DEFINE c == job[t].caller  f == job[t].flow  r == job[t].run
            disarmed == [x \in Runs |-> IF x = old THEN "off" ELSE timer[x]]
<1>a. c \in Callers /\ f \in Flows /\ r \in Runs
  BY DEF TypeOK, Job
<1>b. disarmed \in [Runs -> {"armed", "off"}]
  BY DEF TypeOK
<1>1. CASE result \in Endings
  <2>1. result \notin States
    BY <1>1, ConstantsAssumption DEF Endings
  <2>2. exits' \in [Runs -> Seq(Reasons)]
    BY <1>1, <2>1, HookTyped, ReasonTyped DEF Conclude
  <2>3. pc' \in [Tasks -> PCs] /\ job' \in [Tasks -> Job]
    BY <1>1, <2>1, GotoTyped, DoneTyped, JobUpdates DEF Conclude, PCs
  <2>4. runs' = [runs EXCEPT ![c] = IF @ = old THEN NoRun ELSE @] /\ timer' = disarmed
        /\ UNCHANGED <<flow, stateName, owner, started>>
    BY <1>1, <2>1 DEF Conclude
  <2>5. runs' \in [Callers -> Runs \cup {NoRun}] /\ timer' \in [Runs -> {"armed", "off"}]
    BY <1>a, <1>b, <2>4 DEF TypeOK
  <2>6. QED  BY <2>2, <2>3, <2>4, <2>5 DEF TypeOK
<1>2. CASE result \in States
  <2>1. result \notin Endings
    BY <1>2, ConstantsAssumption DEF Endings
  <2>2. pc' \in [Tasks -> PCs] /\ job' \in [Tasks -> Job]
    BY <1>2, <2>1, DoneTyped DEF Conclude
  <2>3. /\ runs' = [runs EXCEPT ![c] = r] /\ flow' = [flow EXCEPT ![r] = f]
        /\ stateName' = [stateName EXCEPT ![r] = result] /\ owner' = [owner EXCEPT ![r] = c]
        /\ timer' = [disarmed EXCEPT ![r] = Armed(f)]
        /\ started' = started \cup {r} /\ exits' = exits
    BY <1>2, <2>1 DEF Conclude
  <2>4. timer' \in [Runs -> {"armed", "off"}]
    BY <1>a, <1>b, <2>3 DEF Armed
  <2>5. QED  BY <1>2, <1>a, <2>2, <2>3, <2>4 DEF TypeOK
<1>3. QED  BY <1>1, <1>2 DEF Conclude

-----------------------------------------------------------------------------
(* The inductive invariant, for any number of updates in flight.  Only a   *)
(* run recorded for its own caller can be ended, ending it takes it out of *)
(* the record, and no task but one ever holds a run not yet recorded.      *)

HoldsNewRun(t) == pc[t] \in {"entering", "replacing"}

LiveRunsAreOwned ==
    \A c \in Callers : runs[c] # NoRun =>
        owner[runs[c]] = c /\ runs[c] \in started /\ exits[runs[c]] = <<>>

NewRunsAreFresh ==
    \A t \in Tasks : HoldsNewRun(t) =>
        job[t].run \in Runs \ started /\ exits[job[t].run] = <<>>

NewRunsAreDistinct ==
    \A t, u \in Tasks :
        HoldsNewRun(t) /\ HoldsNewRun(u) /\ job[t].run = job[u].run => t = u

StepsOwnTheirRun ==
    \A t \in Tasks : pc[t] = "stepping" =>
        job[t].run \in started /\ owner[job[t].run] = job[t].caller

ExitsAreSingle == \A r \in Runs : Len(exits[r]) <= 1

\* IdleRunIsArmed, of a run as its caller's record shows it.
LiveIdleIsArmed ==
    \A c \in Callers :
        runs[c] # NoRun /\ flow[runs[c]] \in TimedFlows /\ ~Stepping(runs[c])
            => timer[runs[c]] = "armed"

IInv ==
    /\ TypeOK
    /\ LiveRunsAreOwned
    /\ NewRunsAreFresh
    /\ NewRunsAreDistinct
    /\ StepsOwnTheirRun
    /\ ExitsAreSingle
    /\ LiveIdleIsArmed

\* A task that comes to rest, or is handed an update, disturbs no run -- unless
\* it was stepping the caller's live run, whose timer is off.
LEMMA QuietMoveInv ==
    ASSUME IInv, NEW t \in Tasks, NEW label \in {"idle", "matched"}, NEW j \in Job,
           Goto(t, label, j), UNCHANGED <<dispatcherVars, closed, historyVars>>,
           ~Stepped(t)
    PROVE  IInv'
<1>. USE DEF dispatcherVars, historyVars
<1>1. TypeOK'
  BY GotoTyped DEF IInv, TypeOK, PCs
<1>2. /\ \A u \in Tasks : u # t => pc'[u] = pc[u] /\ job'[u] = job[u]
      /\ pc'[t] = label
  BY DEF IInv, TypeOK, Goto
<1>3. LiveRunsAreOwned'
  BY DEF IInv, LiveRunsAreOwned
<1>4. NewRunsAreFresh' /\ NewRunsAreDistinct'
  BY <1>2 DEF IInv, NewRunsAreFresh, NewRunsAreDistinct, HoldsNewRun
<1>5. StepsOwnTheirRun' /\ ExitsAreSingle'
  BY <1>2 DEF IInv, StepsOwnTheirRun, ExitsAreSingle
<1>6. LiveIdleIsArmed'
  <2>1. SUFFICES ASSUME NEW c \in Callers, runs[c] # NoRun, flow[runs[c]] \in TimedFlows,
                        ~Stepping(runs[c])'
                 PROVE  timer[runs[c]] = "armed"
    BY DEF LiveIdleIsArmed
  <2>2. ~Stepping(runs[c])
    <3>1. SUFFICES ASSUME pc[t] = "stepping", job[t].run = runs[c]
                   PROVE  FALSE
      BY <2>1, <1>2 DEF Stepping
    <3>2. c = job[t].caller
      BY <3>1, <2>1 DEF IInv, StepsOwnTheirRun, LiveRunsAreOwned
    <3>3. QED  BY <3>1, <3>2 DEF Stepped
  <2>3. QED  BY <2>1, <2>2 DEF IInv, LiveIdleIsArmed
<1>7. QED  BY <1>1, <1>3, <1>4, <1>5, <1>6 DEF IInv

\* An entry begins on a run that nothing else uses.
LEMMA BeginEntryInv == ASSUME IInv, NEW t \in Tasks, BeginEntry(t) PROVE IInv'
<1>. USE DEF dispatcherVars, historyVars
<1>1. PICK r \in Runs : Fresh(r) /\ Goto(t, "entering", [job[t] EXCEPT !.run = r])
  BY DEF BeginEntry
<1>2. TypeOK'
  <2>1. [job[t] EXCEPT !.run = r] \in Job
    BY <1>1 DEF IInv, TypeOK, Job
  <2>2. pc' \in [Tasks -> PCs] /\ job' \in [Tasks -> Job]
    BY <1>1, <2>1, GotoTyped DEF IInv, PCs
  <2>3. QED  BY <2>2 DEF IInv, TypeOK, BeginEntry
<1>3. /\ \A u \in Tasks : u # t => pc'[u] = pc[u] /\ job'[u] = job[u]
      /\ pc'[t] = "entering" /\ job'[t].run = r /\ pc[t] = "matched"
      /\ UNCHANGED <<dispatcherVars, closed, historyVars>>
  BY <1>1 DEF IInv, TypeOK, Goto, BeginEntry, Job
<1>4. LiveRunsAreOwned' /\ ExitsAreSingle'
  BY <1>3 DEF IInv, LiveRunsAreOwned, ExitsAreSingle
<1>5. NewRunsAreFresh' /\ NewRunsAreDistinct'
  BY <1>1, <1>3 DEF IInv, NewRunsAreFresh, NewRunsAreDistinct, HoldsNewRun, Fresh
<1>6. StepsOwnTheirRun' /\ LiveIdleIsArmed'
  BY <1>3 DEF IInv, StepsOwnTheirRun, LiveIdleIsArmed, Stepping
<1>7. QED  BY <1>2, <1>4, <1>5, <1>6 DEF IInv

\* The end of _enter, old being the run it forgets on its way.
LEMMA ConcludeInv ==
    ASSUME IInv, NEW t \in Tasks, HoldsNewRun(t), NEW result \in Results,
           NEW old \in {runs[job[t].caller], NoRun}, Conclude(t, result, old),
           UNCHANGED <<expiring, closed>>
    PROVE  IInv'
<1>. DEFINE c == job[t].caller  f == job[t].flow  r == job[t].run
<1>a. c \in Callers /\ f \in Flows /\ r \in Runs \ started /\ exits[r] = <<>>
  BY DEF IInv, TypeOK, Job, NewRunsAreFresh
<1>b. \A d \in Callers : runs[d] # NoRun => runs[d] # r
  BY <1>a DEF IInv, LiveRunsAreOwned
<1>c. \A d \in Callers : runs[d] # NoRun /\ runs[d] = old => d = c
  BY <1>a DEF IInv, LiveRunsAreOwned
<1>d. \A u \in Tasks : pc[u] = "stepping" => job[u].run # r
  BY <1>a DEF IInv, StepsOwnTheirRun
<1>e. \A u \in Tasks : HoldsNewRun(u) /\ u # t => job[u].run # r
  BY DEF IInv, NewRunsAreDistinct
<1>1. TypeOK'
  BY <1>a, ConcludeTyped DEF IInv
<1>2. CASE result \in Endings
  <2>1. result \notin States
    BY <1>2, ConstantsAssumption DEF Endings
  <2>2. /\ runs' = [runs EXCEPT ![c] = IF @ = old THEN NoRun ELSE @]
        /\ timer' = [x \in Runs |-> IF x = old THEN "off" ELSE timer[x]]
        /\ HookCalled(r, f, ExitReason(result))
        /\ UNCHANGED <<flow, stateName, owner, started>>
    BY <1>2, <2>1 DEF Conclude
  <2>3. /\ \A u \in Tasks : u # t => pc'[u] = pc[u] /\ job'[u] = job[u]
        /\ pc'[t] \in {"exiting", "idle"}
    BY <1>2, <2>1 DEF IInv, TypeOK, Conclude, Goto, Done
  <2>4. /\ \A x \in Runs : x # r => exits'[x] = exits[x]
        /\ Len(exits'[r]) <= 1
    BY <1>a, <2>2 DEF HookCalled, IInv, TypeOK
  <2>5. \A d \in Callers : runs'[d] # NoRun => runs'[d] = runs[d] /\ runs[d] # r /\ runs[d] # old
    BY <1>a, <1>b, <1>c, <2>2 DEF IInv, TypeOK
  <2>6. LiveRunsAreOwned'
    BY <2>2, <2>4, <2>5 DEF IInv, LiveRunsAreOwned, TypeOK
  <2>7. NewRunsAreFresh' /\ NewRunsAreDistinct'
    BY <1>e, <2>2, <2>3, <2>4 DEF IInv, NewRunsAreFresh, NewRunsAreDistinct, HoldsNewRun
  <2>8. StepsOwnTheirRun' /\ ExitsAreSingle'
    BY <2>2, <2>3, <2>4 DEF IInv, StepsOwnTheirRun, ExitsAreSingle
  <2>9. LiveIdleIsArmed'
    <3>1. SUFFICES ASSUME NEW d \in Callers, runs'[d] # NoRun,
                          flow'[runs'[d]] \in TimedFlows, ~Stepping(runs[d])'
                   PROVE  timer'[runs[d]] = "armed"
      BY <2>5 DEF LiveIdleIsArmed, Stepping
    <3>2. ~Stepping(runs[d])
      BY <2>3, <2>5, <3>1 DEF Stepping, HoldsNewRun
    <3>3. QED  BY <2>2, <2>5, <3>1, <3>2 DEF IInv, LiveIdleIsArmed, TypeOK
  <2>10. QED  BY <1>1, <2>6, <2>7, <2>8, <2>9 DEF IInv
<1>3. CASE result \in States
  <2>1. result \notin Endings
    BY <1>3, ConstantsAssumption DEF Endings
  <2>2. /\ runs' = [runs EXCEPT ![c] = r] /\ flow' = [flow EXCEPT ![r] = f]
        /\ owner' = [owner EXCEPT ![r] = c]
        /\ timer' = [[x \in Runs |-> IF x = old THEN "off" ELSE timer[x]]
                        EXCEPT ![r] = Armed(f)]
        /\ started' = started \cup {r} /\ exits' = exits
    BY <1>3, <2>1 DEF Conclude
  <2>3. /\ \A u \in Tasks : u # t => pc'[u] = pc[u] /\ job'[u] = job[u]
        /\ pc'[t] = "idle"
    BY <1>3, <2>1 DEF IInv, TypeOK, Conclude, Goto, Done
  <2>4. \A d \in Callers : d # c => runs'[d] = runs[d] /\ (runs[d] # NoRun => runs[d] # old)
    BY <1>a, <1>c, <2>2 DEF IInv, TypeOK
  <2>5. LiveRunsAreOwned'
    BY <1>a, <1>b, <2>2, <2>4 DEF IInv, LiveRunsAreOwned, TypeOK
  <2>6. NewRunsAreFresh' /\ NewRunsAreDistinct'
    BY <1>e, <2>2, <2>3 DEF IInv, NewRunsAreFresh, NewRunsAreDistinct, HoldsNewRun
  <2>7. StepsOwnTheirRun' /\ ExitsAreSingle'
    BY <1>d, <2>2, <2>3 DEF IInv, StepsOwnTheirRun, ExitsAreSingle, TypeOK
  <2>8. LiveIdleIsArmed'
    <3>1. SUFFICES ASSUME NEW d \in Callers, runs'[d] # NoRun,
                          flow'[runs'[d]] \in TimedFlows, ~Stepping(runs[d])'
                   PROVE  timer'[runs'[d]] = "armed"
      BY DEF LiveIdleIsArmed
    <3>2. CASE d = c
      BY <1>a, <2>2, <3>1, <3>2 DEF IInv, TypeOK, Armed
    <3>3. CASE d # c
      <4>1. runs'[d] = runs[d] /\ runs[d] # r /\ runs[d] # old /\ runs[d] \in Runs
        BY <1>b, <2>4, <3>1, <3>3 DEF IInv, TypeOK
      <4>2. ~Stepping(runs[d])
        BY <2>3, <3>1, <4>1 DEF Stepping, HoldsNewRun
      <4>3. QED  BY <2>2, <3>1, <4>1, <4>2 DEF IInv, LiveIdleIsArmed, TypeOK
    <3>4. QED  BY <3>2, <3>3
  <2>9. QED  BY <1>1, <2>5, <2>6, <2>7, <2>8 DEF IInv
<1>4. QED  BY <1>2, <1>3 DEF Conclude

\* The replaced run is forgotten, disarmed and called once.
LEMMA EntryReplacesInv == ASSUME IInv, NEW t \in Tasks, EntryReplaces(t) PROVE IInv'
<1>. DEFINE c == job[t].caller  old == runs[c]
<1>1. PICK result \in States \cup Endings :
          Goto(t, "replacing", [job[t] EXCEPT !.result = result])
  BY DEF EntryReplaces
<1>2. /\ c \in Callers /\ old \in Runs /\ owner[old] = c
      /\ old \in started /\ exits[old] = <<>>
      /\ pc[t] = "entering" /\ job[t].run # old
  BY DEF IInv, TypeOK, Job, LiveRunsAreOwned, NewRunsAreFresh, HoldsNewRun, EntryReplaces
<1>3. /\ runs' = [runs EXCEPT ![c] = NoRun]
      /\ timer' = [timer EXCEPT ![old] = "off"]
      /\ exits' = [exits EXCEPT ![old] = <<"CANCELLED">>]
      /\ UNCHANGED <<flow, stateName, owner, expiring, closed, started>>
  BY <1>2 DEF EntryReplaces, Forget, HookCalled
<1>4. /\ \A u \in Tasks : u # t => pc'[u] = pc[u] /\ job'[u] = job[u]
      /\ pc'[t] = "replacing" /\ job'[t].run = job[t].run
  BY <1>1 DEF IInv, TypeOK, Goto, Job
<1>5. \A d \in Callers : runs'[d] # NoRun => d # c /\ runs'[d] = runs[d] /\ runs[d] # old
  BY <1>2, <1>3 DEF IInv, TypeOK, LiveRunsAreOwned
<1>6. TypeOK'
  <2>1. [job[t] EXCEPT !.result = result] \in Job
    BY ZenonT(90) DEF IInv, TypeOK, Job, Results, Endings
  <2>2. pc' \in [Tasks -> PCs] /\ job' \in [Tasks -> Job]
    BY <1>1, <2>1, GotoTyped DEF IInv, PCs
  <2>3. exits' \in [Runs -> Seq(Reasons)]
    BY <1>2, <1>3 DEF IInv, TypeOK, Reasons
  <2>4. QED  BY <1>2, <1>3, <2>2, <2>3 DEF IInv, TypeOK
<1>7. LiveRunsAreOwned'
  BY <1>3, <1>5 DEF IInv, LiveRunsAreOwned, TypeOK
<1>8. NewRunsAreFresh' /\ NewRunsAreDistinct'
  BY <1>2, <1>3, <1>4 DEF IInv, NewRunsAreFresh, NewRunsAreDistinct, HoldsNewRun
<1>9. StepsOwnTheirRun' /\ ExitsAreSingle'
  <2>1. StepsOwnTheirRun'
    BY <1>3, <1>4 DEF IInv, StepsOwnTheirRun
  <2>2. exits \in [Runs -> Seq(Reasons)]
    BY DEF IInv, TypeOK
  <2>3. \A x \in Runs : exits'[x] = exits[x] \/ exits'[x] = <<"CANCELLED">>
    BY <1>3, <2>2
  <2>4. Len(<<"CANCELLED">>) <= 1
    OBVIOUS
  <2>5. ASSUME NEW x \in Runs PROVE Len(exits'[x]) <= 1
    BY <2>3, <2>4 DEF IInv, ExitsAreSingle
  <2>6. QED  BY <2>1, <2>5 DEF ExitsAreSingle
<1>10. LiveIdleIsArmed'
  <2>1. SUFFICES ASSUME NEW d \in Callers, runs'[d] # NoRun,
                        flow'[runs'[d]] \in TimedFlows, ~Stepping(runs[d])'
                 PROVE  timer'[runs[d]] = "armed"
    BY <1>5 DEF LiveIdleIsArmed, Stepping
  <2>2. ~Stepping(runs[d])
    BY <1>2, <1>4, <1>5, <2>1 DEF Stepping
  <2>3. QED  BY <1>3, <1>5, <2>1, <2>2 DEF IInv, LiveIdleIsArmed, TypeOK
<1>11. QED  BY <1>6, <1>7, <1>8, <1>9, <1>10 DEF IInv

\* A step disarms the run it works on.
LEMMA BeginStepInv == ASSUME IInv, NEW t \in Tasks, BeginStep(t) PROVE IInv'
<1>. DEFINE c == job[t].caller  r == runs[c]
<1>1. c \in Callers /\ r \in Runs /\ r \in started /\ owner[r] = c /\ pc[t] = "matched"
  BY DEF IInv, TypeOK, Job, LiveRunsAreOwned, BeginStep, Matched
<1>2. /\ timer' = [timer EXCEPT ![r] = "off"]
      /\ UNCHANGED <<runs, flow, stateName, owner, expiring, closed, started, exits>>
  BY DEF BeginStep, historyVars
<1>3. /\ \A u \in Tasks : u # t => pc'[u] = pc[u] /\ job'[u] = job[u]
      /\ pc'[t] = "stepping" /\ job'[t].run = r /\ job'[t].caller = c
  BY DEF IInv, TypeOK, Goto, Job, BeginStep
<1>4. TypeOK'
  <2>1. [job[t] EXCEPT !.run = r] \in Job
    BY <1>1, ZenonT(90) DEF IInv, TypeOK, Job
  <2>2. pc' \in [Tasks -> PCs] /\ job' \in [Tasks -> Job]
    BY <2>1, GotoTyped DEF IInv, PCs, BeginStep
  <2>3. QED  BY <1>1, <1>2, <2>2 DEF IInv, TypeOK
<1>5. LiveRunsAreOwned' /\ ExitsAreSingle'
  BY <1>2 DEF IInv, LiveRunsAreOwned, ExitsAreSingle
<1>6. NewRunsAreFresh' /\ NewRunsAreDistinct'
  BY <1>2, <1>3 DEF IInv, NewRunsAreFresh, NewRunsAreDistinct, HoldsNewRun
<1>7. StepsOwnTheirRun'
  BY <1>1, <1>2, <1>3 DEF IInv, StepsOwnTheirRun
<1>8. LiveIdleIsArmed'
  <2>1. SUFFICES ASSUME NEW d \in Callers, runs[d] # NoRun,
                        flow[runs[d]] \in TimedFlows, ~Stepping(runs[d])'
                 PROVE  timer'[runs[d]] = "armed"
    BY <1>2 DEF LiveIdleIsArmed
  <2>2. ~Stepping(runs[d]) /\ runs[d] # r
    BY <1>1, <1>3, <1>2, <2>1 DEF Stepping
  <2>3. QED  BY <1>2, <2>1, <2>2 DEF IInv, LiveIdleIsArmed, TypeOK
<1>9. QED  BY <1>4, <1>5, <1>6, <1>7, <1>8 DEF IInv

\* A step that leaves its run live re-arms it.
LEMMA StepStaysInv ==
    ASSUME IInv, NEW t \in Tasks, NEW result \in Results, StepStays(t, result)
    PROVE  IInv'
<1>. DEFINE c == job[t].caller  r == job[t].run
<1>1. c \in Callers /\ runs[c] = r /\ r \in Runs /\ pc[t] = "stepping"
  BY DEF IInv, TypeOK, Job, StepsOwnTheirRun, StepStays, Stepped
<1>2. /\ timer' = [timer EXCEPT ![r] = Armed(flow[r])]
      /\ UNCHANGED <<runs, flow, owner, expiring, closed, started, exits>>
  BY DEF StepStays, historyVars
<1>3. /\ \A u \in Tasks : u # t => pc'[u] = pc[u] /\ job'[u] = job[u]
      /\ pc'[t] = "idle"
  BY DEF IInv, TypeOK, Goto, Done, StepStays
<1>4. TypeOK'
  <2>1. pc' \in [Tasks -> PCs] /\ job' \in [Tasks -> Job]
    BY DoneTyped DEF IInv, StepStays
  <2>2. stateName' \in [Runs -> States]
    BY <1>1 DEF IInv, TypeOK, StepStays
  <2>3. QED  BY <1>1, <1>2, <2>1, <2>2 DEF IInv, TypeOK, Armed
<1>5. LiveRunsAreOwned' /\ ExitsAreSingle'
  BY <1>2 DEF IInv, LiveRunsAreOwned, ExitsAreSingle
<1>6. NewRunsAreFresh' /\ NewRunsAreDistinct' /\ StepsOwnTheirRun'
  BY <1>2, <1>3
  DEF IInv, NewRunsAreFresh, NewRunsAreDistinct, HoldsNewRun, StepsOwnTheirRun
<1>7. LiveIdleIsArmed'
  <2>1. SUFFICES ASSUME NEW d \in Callers, runs[d] # NoRun,
                        flow[runs[d]] \in TimedFlows, ~Stepping(runs[d])'
                 PROVE  timer'[runs[d]] = "armed"
    BY <1>2 DEF LiveIdleIsArmed
  <2>2. CASE runs[d] = r
    BY <1>1, <1>2, <2>1, <2>2 DEF IInv, TypeOK, Armed
  <2>3. CASE runs[d] # r
    <3>1. ~Stepping(runs[d])
      BY <1>2, <1>3, <2>1, <2>3 DEF Stepping
    <3>2. timer[runs[d]] = "armed"
      BY <2>1, <3>1 DEF IInv, LiveIdleIsArmed
    <3>3. QED  BY <1>1, <1>2, <2>1, <2>3, <3>2 DEF IInv, TypeOK
  <2>4. QED  BY <2>2, <2>3
<1>8. QED  BY <1>4, <1>5, <1>6, <1>7 DEF IInv

\* A step that ends its run forgets it before the hook is called.
LEMMA StepEndsInv ==
    ASSUME IInv, NEW t \in Tasks, NEW result \in Results, StepEnds(t, result)
    PROVE  IInv'
<1>. DEFINE c == job[t].caller  r == job[t].run
<1>1. /\ c \in Callers /\ runs[c] = r /\ r \in Runs /\ r \in started
      /\ pc[t] = "stepping" /\ exits[r] = <<>>
  <2>1. pc[t] = "stepping" /\ runs[c] = r
    BY DEF StepEnds, Stepped
  <2>2. c \in Callers /\ r \in Runs /\ r \in started
    BY <2>1 DEF IInv, TypeOK, Job, StepsOwnTheirRun
  <2>3. QED  BY <2>1, <2>2, ConstantsAssumption DEF IInv, LiveRunsAreOwned
<1>2. /\ runs' = [runs EXCEPT ![c] = NoRun]
      /\ timer' = [timer EXCEPT ![r] = "off"]
      /\ UNCHANGED <<flow, stateName, owner, expiring, closed, started>>
  BY DEF StepEnds, Forget
<1>3. /\ \A u \in Tasks : u # t => pc'[u] = pc[u] /\ job'[u] = job[u]
      /\ pc'[t] \in {"exiting", "idle"}
  BY DEF IInv, TypeOK, Goto, Done, StepEnds
<1>4. /\ exits' \in [Runs -> Seq(Reasons)]
      /\ \A x \in Runs : x # r => exits'[x] = exits[x]
      /\ Len(exits'[r]) <= 1
  <2>1. PICK reason \in Reasons : HookCalled(r, flow[r], reason)
    BY ReasonTyped DEF StepEnds, Reasons
  <2>2. QED  BY <1>1, <2>1, HookTyped DEF IInv, TypeOK, HookCalled
<1>5. \A d \in Callers : runs'[d] # NoRun => d # c /\ runs'[d] = runs[d] /\ runs[d] # r
  BY <1>1, <1>2 DEF IInv, TypeOK, LiveRunsAreOwned
<1>6. TypeOK'
  <2>1. [job[t] EXCEPT !.result = result] \in Job
    BY DEF IInv, TypeOK, Job
  <2>2. pc' \in [Tasks -> PCs] /\ job' \in [Tasks -> Job]
    BY <2>1, GotoTyped, DoneTyped DEF IInv, PCs, StepEnds
  <2>3. QED  BY <1>1, <1>2, <1>4, <2>2 DEF IInv, TypeOK
<1>7. LiveRunsAreOwned'
  BY <1>2, <1>4, <1>5 DEF IInv, LiveRunsAreOwned, TypeOK
<1>8. NewRunsAreFresh' /\ NewRunsAreDistinct' /\ StepsOwnTheirRun' /\ ExitsAreSingle'
  <2>1. NewRunsAreFresh' /\ NewRunsAreDistinct'
    BY <1>1, <1>2, <1>3, <1>4
    DEF IInv, NewRunsAreFresh, NewRunsAreDistinct, HoldsNewRun
  <2>2. StepsOwnTheirRun'
    BY <1>2, <1>3 DEF IInv, StepsOwnTheirRun
  <2>3. ExitsAreSingle'
    BY <1>4 DEF IInv, ExitsAreSingle
  <2>4. QED  BY <2>1, <2>2, <2>3
<1>9. LiveIdleIsArmed'
  <2>1. SUFFICES ASSUME NEW d \in Callers, runs'[d] # NoRun,
                        flow'[runs'[d]] \in TimedFlows, ~Stepping(runs[d])'
                 PROVE  timer'[runs[d]] = "armed"
    BY <1>5 DEF LiveIdleIsArmed, Stepping
  <2>2. ~Stepping(runs[d])
    BY <1>3, <1>5, <2>1 DEF Stepping
  <2>3. QED  BY <1>2, <1>5, <2>1, <2>2 DEF IInv, LiveIdleIsArmed, TypeOK
<1>10. QED  BY <1>6, <1>7, <1>8, <1>9 DEF IInv

\* A timer ends its run only while it is the caller's live run.
LEMMA ExpireInv == ASSUME IInv, NEW r \in Runs, Expire(r) PROVE IInv'
<1>. DEFINE c == owner[r]
<1>1. /\ c \in Callers
      /\ timer' = [timer EXCEPT ![r] = "off"]
      /\ UNCHANGED <<flow, stateName, owner, pc, job, closed, started>>
  BY DEF IInv, TypeOK, Expire, taskVars
<1>2. \A d \in Callers : runs[d] = r => d = c
  BY ConstantsAssumption DEF IInv, LiveRunsAreOwned
<1>3. CASE runs[c] = r
  <2>1. /\ runs' = [runs EXCEPT ![c] = NoRun]
        /\ HookCalled(r, flow[r], "TIMEOUT")
        /\ expiring' \in [Runs -> {"no", "running", "cancelled"}]
    BY <1>3 DEF Expire, IInv, TypeOK
  <2>2. r \in started /\ exits[r] = <<>>
    BY <1>1, <1>3, ConstantsAssumption DEF IInv, LiveRunsAreOwned
  <2>3. /\ exits' \in [Runs -> Seq(Reasons)]
        /\ \A x \in Runs : x # r => exits'[x] = exits[x]
        /\ Len(exits'[r]) <= 1
    BY <2>1, <2>2, HookTyped DEF IInv, TypeOK, HookCalled, Reasons
  <2>4. \A d \in Callers : runs'[d] # NoRun => runs'[d] = runs[d] /\ runs[d] # r
    BY <1>1, <1>2, <2>1 DEF IInv, TypeOK
  <2>5. TypeOK'
    BY <1>1, <2>1, <2>3 DEF IInv, TypeOK
  <2>6. LiveRunsAreOwned' /\ LiveIdleIsArmed'
    BY <1>1, <2>1, <2>3, <2>4, ZenonT(90) DEF IInv, LiveRunsAreOwned, LiveIdleIsArmed, Stepping, TypeOK
  <2>7. NewRunsAreFresh' /\ NewRunsAreDistinct' /\ StepsOwnTheirRun' /\ ExitsAreSingle'
    BY <1>1, <2>2, <2>3 DEF IInv, NewRunsAreFresh, NewRunsAreDistinct,
       HoldsNewRun, StepsOwnTheirRun, ExitsAreSingle
  <2>8. QED  BY <2>5, <2>6, <2>7 DEF IInv
<1>4. CASE runs[c] # r
  <2>1. UNCHANGED <<runs, exits, expiring>>
    BY <1>4 DEF Expire
  <2>2. \A d \in Callers : runs[d] # r
    BY <1>2, <1>4
  <2>3. QED
    BY <1>1, <2>1, <2>2 DEF IInv, TypeOK, LiveRunsAreOwned, NewRunsAreFresh,
       NewRunsAreDistinct, HoldsNewRun, StepsOwnTheirRun, ExitsAreSingle,
       LiveIdleIsArmed, Stepping
<1>5. QED  BY <1>3, <1>4

\* The end of a timeout's hook changes no run.
LEMMA TimeoutHookReturnsInv ==
    ASSUME IInv, NEW r \in Runs, TimeoutHookReturns(r) PROVE IInv'
  BY DEF TimeoutHookReturns, taskVars, historyVars, IInv, TypeOK, LiveRunsAreOwned,
     NewRunsAreFresh, NewRunsAreDistinct, HoldsNewRun, StepsOwnTheirRun,
     ExitsAreSingle, LiveIdleIsArmed, Stepping

\* Closing drops the runs without a hook.
LEMMA CloseInv == ASSUME IInv, Close PROVE IInv'
<1>1. TypeOK'
  BY DEF Close, taskVars, historyVars, IInv, TypeOK
<1>2. QED
  BY <1>1 DEF Close, taskVars, historyVars, IInv, LiveRunsAreOwned,
     NewRunsAreFresh, NewRunsAreDistinct, HoldsNewRun, StepsOwnTheirRun,
     ExitsAreSingle, LiveIdleIsArmed

\* Every step keeps the invariant.
LEMMA NextInv == IInv /\ [Next]_vars => IInv'
<1>1. SUFFICES ASSUME IInv, [Next]_vars PROVE IInv'
  OBVIOUS
<1>2. ASSUME NEW t \in Tasks, NEW c \in Callers, Match(t, c) PROVE IInv'
  <2>1. PICK j \in Offered(c) : Goto(t, "matched", j)
    BY <1>2 DEF Match
  <2>2. j \in Job
    BY <1>1, OfferedTyped DEF IInv
  <2>3. QED  BY <1>1, <1>2, <2>1, <2>2, QuietMoveInv DEF Match, Stepped
<1>3. ASSUME NEW t \in Tasks, HandleUpdate(t) PROVE IInv'
  <2>1. CASE BeginEntry(t)
    BY <1>1, <2>1, BeginEntryInv
  <2>2. CASE \/ EntryWithoutOutcome(t) \/ ReplacedHookRaises(t) \/ StepTooLate(t)
             \/ StepOutlived(t) \/ ExitHookReturns(t)
    BY <1>1, <2>2, QuietMoveInv, IdleJobTyped DEF EntryWithoutOutcome,
       ReplacedHookRaises, StepTooLate, StepOutlived, ExitHookReturns, Stepped,
       Matched, Done
  <2>3. CASE EntryReplaces(t)
    BY <1>1, <2>3, EntryReplacesInv
  <2>4. CASE EntryConcludes(t)
    <3>1. PICK result \in States \cup Endings : Conclude(t, result, runs[job[t].caller])
      BY <2>4 DEF EntryConcludes
    <3>2. result \in Results /\ HoldsNewRun(t) /\ UNCHANGED <<expiring, closed>>
      BY <2>4 DEF EntryConcludes, HoldsNewRun, Results, Endings
    <3>3. QED  BY <1>1, <3>1, <3>2, ConcludeInv
  <2>5. CASE ReplacedHookReturns(t)
    <3>1. /\ Conclude(t, job[t].result, NoRun) /\ HoldsNewRun(t)
          /\ UNCHANGED <<expiring, closed>>
      BY <2>5 DEF ReplacedHookReturns, HoldsNewRun
    <3>2. job[t].result \in Results
      BY <1>1 DEF IInv, TypeOK, Job
    <3>3. QED  BY <1>1, <3>1, <3>2, ConcludeInv
  <2>6. CASE BeginStep(t)
    BY <1>1, <2>6, BeginStepInv
  <2>7. ASSUME NEW result \in Results, StepStays(t, result) \/ StepEnds(t, result)
        PROVE  IInv'
    BY <1>1, <2>7, StepStaysInv, StepEndsInv
  <2>8. QED
    BY <1>3, <2>1, <2>2, <2>3, <2>4, <2>5, <2>6, <2>7 DEF HandleUpdate
<1>4. ASSUME NEW r \in Runs, Expire(r) \/ TimeoutHookReturns(r) PROVE IInv'
  BY <1>1, <1>4, ExpireInv, TimeoutHookReturnsInv
<1>5. CASE Close
  BY <1>1, <1>5, CloseInv
<1>6. CASE UNCHANGED vars
  BY <1>1, <1>6 DEF vars, dispatcherVars, taskVars, historyVars, IInv, TypeOK,
     LiveRunsAreOwned, NewRunsAreFresh, NewRunsAreDistinct, HoldsNewRun,
     StepsOwnTheirRun, ExitsAreSingle, LiveIdleIsArmed, Stepping
<1>7. QED  BY <1>1, <1>2, <1>3, <1>4, <1>5, <1>6 DEF Next

\* The invariant holds at first.
LEMMA InitInv == Init => IInv
<1>1. SUFFICES ASSUME Init PROVE IInv
  OBVIOUS
<1>2. IdleJob.flow \in Flows /\ IdleJob.at \in States /\ IdleJob.caller \in Callers
  BY IdleJobTyped DEF Job
<1>3. TypeOK
  <2>1. /\ runs \in [Callers -> Runs \cup {NoRun}] /\ timer \in [Runs -> {"armed", "off"}]
        /\ expiring \in [Runs -> {"no", "running", "cancelled"}]
        /\ closed \in BOOLEAN /\ started \subseteq Runs
    BY <1>1 DEF Init
  <2>2. /\ flow \in [Runs -> Flows] /\ stateName \in [Runs -> States]
        /\ owner \in [Runs -> Callers]
    BY <1>1, <1>2 DEF Init
  <2>3. pc \in [Tasks -> PCs] /\ job \in [Tasks -> Job]
    BY <1>1, IdleJobTyped DEF Init, PCs
  <2>4. exits \in [Runs -> Seq(Reasons)]
    BY <1>1 DEF Init
  <2>5. QED  BY <2>1, <2>2, <2>3, <2>4 DEF TypeOK
<1>4. QED
  BY <1>1, <1>3 DEF Init, IInv, LiveRunsAreOwned, NewRunsAreFresh,
     NewRunsAreDistinct, HoldsNewRun, StepsOwnTheirRun, ExitsAreSingle, LiveIdleIsArmed

\* The invariant holds in every reachable state.
LEMMA Invariance == Spec => []IInv
  BY InitInv, NextInv, PTL DEF Spec

-----------------------------------------------------------------------------
(* Theorems for any number of updates in flight.                           *)

\* Every variable of the dispatcher has its type, whatever order its tasks and
\* timers take.
THEOREM TypeCorrect == Spec => []TypeOK
<1>1. IInv => TypeOK
  BY DEF IInv
<1>2. QED  BY <1>1, Invariance, PTL

\* A run's exit hook is called at most once, and never while the run is live,
\* even with several updates of its caller in flight.
THEOREM ExitsOnce == Spec => []OneExitPerRun
<1>1. IInv => OneExitPerRun
  BY ConstantsAssumption
  DEF IInv, OneExitPerRun, ExitsAreSingle, LiveRunsAreOwned, Recorded
<1>2. QED  BY <1>1, Invariance, PTL

\* A live run with a timeout has its timer pending whenever no step of it is
\* running: no failure or race of its steps makes it immortal.
THEOREM NoImmortalRun == Spec => []IdleRunIsArmed
<1>1. IInv => IdleRunIsArmed
  BY ConstantsAssumption DEF IInv, IdleRunIsArmed, LiveIdleIsArmed, Recorded
<1>2. QED  BY <1>1, Invariance, PTL

(***************************************************************************)
(* The second part: updates are handled one at a time, as PTB handles them *)
(* by default.  Timers and their exit hooks still run beside the update,   *)
(* between any two of its suspensions.                                     *)
(***************************************************************************)

\* PTB's default update processor: no two updates are in flight.
OneAtATime == \A t, u \in Tasks : t = u

-----------------------------------------------------------------------------
(* The inductive invariant of sequential handling, beside IInv: only the   *)
(* caller's own timer can come between the suspensions of its update.      *)

\* While a step runs, its run is the caller's and its timer is off.
StepHoldsItsRun ==
    \A t \in Tasks : pc[t] = "stepping" =>
        /\ runs[job[t].caller] = job[t].run
        /\ timer[job[t].run] = "off"
        /\ stateName[job[t].run] = job[t].at

\* An update matched to a step finds the run as it was, or not at all.
MatchStaysTrue ==
    \A t \in Tasks :
        LET r == runs[job[t].caller] IN
        pc[t] = "matched" /\ job[t].kind # "entry" /\ r # NoRun
            => stateName[r] = job[t].at

\* No run comes up for a caller whose old run is being replaced.
ReplacingIsVacant ==
    \A t \in Tasks : pc[t] = "replacing" => runs[job[t].caller] = NoRun

SInv ==
    /\ StepHoldsItsRun
    /\ MatchStaysTrue
    /\ ReplacingIsVacant
    /\ EndedRunHadItsHook

\* A hook that has been called has left its reason.
LEMMA HookLeavesReason ==
    ASSUME TypeOK, NEW r \in Runs, NEW f, NEW reason \in Reasons, HookCalled(r, f, reason)
    PROVE  /\ \A x \in Runs : exits[x] # <<>> => exits'[x] # <<>>
           /\ f \in HookedFlows => exits'[r] # <<>>
<1>1. Append(exits[r], reason) # <<>>
  <2>1. exits[r] \in Seq(Reasons)
    BY DEF TypeOK
  <2>2. Len(Append(exits[r], reason)) = Len(exits[r]) + 1 /\ Len(exits[r]) \in Nat
    BY <2>1
  <2>3. Len(Append(exits[r], reason)) # 0
    BY <2>2
  <2>4. Len(<<>>) = 0
    OBVIOUS
  <2>5. QED  BY <2>3, <2>4
<1>2. QED  BY <1>1 DEF TypeOK, HookCalled

\* A run that a step takes out of the record is one without a hook, or its hook
\* has been called; every other run is where it was.
LEMMA EndedKept ==
    ASSUME IInv, EndedRunHadItsHook, started' = started, flow' = flow, closed' = closed,
           \A x \in Runs : exits[x] # <<>> => exits'[x] # <<>>,
           \A c \in Callers : runs[c] # NoRun /\ runs'[c] # runs[c]
               => flow[runs[c]] \notin HookedFlows \/ exits'[runs[c]] # <<>>
    PROVE  EndedRunHadItsHook'
<1>1. SUFFICES ASSUME NEW x \in started, ~Recorded(x)', ~closed, flow[x] \in HookedFlows
               PROVE  exits'[x] # <<>>
  BY DEF EndedRunHadItsHook
<1>2. x \in Runs /\ x # NoRun
  BY ConstantsAssumption DEF IInv, TypeOK
<1>3. CASE Recorded(x)
  BY <1>1, <1>2, <1>3 DEF Recorded
<1>4. CASE ~Recorded(x)
  BY <1>1, <1>2, <1>4 DEF EndedRunHadItsHook
<1>5. QED  BY <1>3, <1>4

\* A task that comes to rest leaves the invariant alone.
LEMMA RestSeq ==
    ASSUME OneAtATime, IInv, SInv, NEW t \in Tasks, Done(t),
           UNCHANGED <<dispatcherVars, closed, historyVars>>
    PROVE  SInv'
<1>1. pc'[t] = "idle"
  BY DEF IInv, TypeOK, Done, Goto
<1>2. EndedRunHadItsHook'
  BY EndedKept DEF SInv, dispatcherVars, historyVars
<1>3. QED
  BY <1>1, <1>2 DEF SInv, OneAtATime, StepHoldsItsRun, MatchStaysTrue, ReplacingIsVacant

\* Matching offers steps of the state the run is in.
LEMMA MatchSeq ==
    ASSUME OneAtATime, IInv, SInv, NEW t \in Tasks, NEW c \in Callers, Match(t, c)
    PROVE  SInv'
<1>1. PICK j \in Offered(c) : Goto(t, "matched", j)
  BY DEF Match
<1>2. /\ j.caller = c
      /\ j.kind # "entry" /\ runs[c] # NoRun => j.at = stateName[runs[c]]
  BY DEF Offered
<1>3. pc'[t] = "matched" /\ job'[t] = j
  BY <1>1 DEF IInv, TypeOK, Goto
<1>4. EndedRunHadItsHook'
  BY EndedKept DEF SInv, Match, dispatcherVars, historyVars
<1>5. MatchStaysTrue'
  BY <1>2, <1>3 DEF MatchStaysTrue, OneAtATime, Match, dispatcherVars
<1>6. QED
  BY <1>3, <1>4, <1>5 DEF SInv, OneAtATime, StepHoldsItsRun, ReplacingIsVacant

\* An entry begins on a run that was never recorded.
LEMMA BeginEntrySeq ==
    ASSUME OneAtATime, IInv, SInv, NEW t \in Tasks, BeginEntry(t)
    PROVE  SInv'
<1>1. pc'[t] = "entering"
  BY DEF IInv, TypeOK, Goto, BeginEntry
<1>2. EndedRunHadItsHook'
  BY EndedKept DEF SInv, BeginEntry, dispatcherVars, historyVars
<1>3. QED
  BY <1>1, <1>2 DEF SInv, OneAtATime, StepHoldsItsRun, MatchStaysTrue, ReplacingIsVacant

\* The replaced run has had its hook.
LEMMA EntryReplacesSeq ==
    ASSUME OneAtATime, IInv, SInv, NEW t \in Tasks, EntryReplaces(t)
    PROVE  SInv'
<1>. DEFINE c == job[t].caller  old == runs[c]
<1>1. c \in Callers /\ old \in Runs /\ flow[old] \in HookedFlows
  BY DEF IInv, TypeOK, Job, EntryReplaces
<1>2. pc'[t] = "replacing" /\ job'[t].caller = c
  BY DEF IInv, TypeOK, Goto, Job, EntryReplaces
<1>3. /\ runs' = [runs EXCEPT ![c] = NoRun]
      /\ HookCalled(old, flow[old], "CANCELLED")
      /\ UNCHANGED <<flow, started, closed>>
  BY DEF EntryReplaces, Forget
<1>4. exits'[old] # <<>> /\ \A x \in Runs : exits[x] # <<>> => exits'[x] # <<>>
  BY <1>1, <1>3, HookLeavesReason DEF IInv, Reasons
<1>5. \A d \in Callers : runs'[d] # runs[d] => runs[d] = old
  BY <1>1, <1>3 DEF IInv, TypeOK
<1>6. EndedRunHadItsHook'
  BY <1>3, <1>4, <1>5, EndedKept DEF SInv
<1>7. runs'[c] = NoRun
  BY <1>1, <1>3 DEF IInv, TypeOK
<1>8. QED
  BY <1>2, <1>6, <1>7 DEF SInv, OneAtATime, StepHoldsItsRun, MatchStaysTrue,
     ReplacingIsVacant

\* The end of _enter, when the run it finds recorded is the hookless old one.
LEMMA ConcludeSeq ==
    ASSUME OneAtATime, IInv, SInv, NEW t \in Tasks, HoldsNewRun(t),
           NEW result \in Results, NEW old, Conclude(t, result, old),
           runs[job[t].caller] # NoRun => flow[runs[job[t].caller]] \notin HookedFlows,
           closed' = closed
    PROVE  SInv'
<1>. DEFINE c == job[t].caller  f == job[t].flow  r == job[t].run
<1>1. c \in Callers /\ r \in Runs \ started /\ exits[r] = <<>>
  BY DEF IInv, TypeOK, Job, NewRunsAreFresh
<1>2. pc'[t] \in {"idle", "exiting"}
  BY DEF IInv, TypeOK, Conclude, Goto, Done
<1>3. EndedRunHadItsHook'
  <2>1. CASE result \in Endings
    <3>1. result \notin States
      BY <2>1, ConstantsAssumption DEF Endings
    <3>2. /\ runs' = [runs EXCEPT ![c] = IF @ = old THEN NoRun ELSE @]
          /\ UNCHANGED <<flow, started>>
          /\ HookCalled(r, f, ExitReason(result))
      BY <2>1, <3>1 DEF Conclude
    <3>3. \A x \in Runs : exits[x] # <<>> => exits'[x] # <<>>
      BY <1>1, <3>2, ReasonTyped DEF IInv, TypeOK, HookCalled
    <3>4. \A d \in Callers : runs'[d] # runs[d] => d = c
      BY <1>1, <3>2 DEF IInv, TypeOK
    <3>5. QED  BY <3>2, <3>3, <3>4, EndedKept DEF SInv
  <2>2. CASE result \in States
    <3>1. result \notin Endings
      BY <2>2, ConstantsAssumption DEF Endings
    <3>2. /\ runs' = [runs EXCEPT ![c] = r] /\ flow' = [flow EXCEPT ![r] = f]
          /\ started' = started \cup {r} /\ exits' = exits
      BY <2>2, <3>1 DEF Conclude
    <3>3. SUFFICES ASSUME NEW x \in started', ~Recorded(x)', ~closed,
                          flow'[x] \in HookedFlows
                   PROVE  exits'[x] # <<>>
      BY DEF EndedRunHadItsHook
    <3>4. runs'[c] = r /\ \A d \in Callers : d # c => runs'[d] = runs[d]
      BY <1>1, <3>2 DEF IInv, TypeOK
    <3>5. x # r /\ x \in started /\ x \in Runs /\ flow'[x] = flow[x]
      BY <1>1, <3>2, <3>3, <3>4 DEF Recorded, IInv, TypeOK
    <3>6. ~Recorded(x)
      <4>1. x # NoRun
        BY <3>5, ConstantsAssumption
      <4>2. runs[c] # x
        BY <3>3, <3>5, <4>1
      <4>3. QED  BY <3>3, <3>4, <4>2 DEF Recorded
    <3>7. QED  BY <3>2, <3>3, <3>5, <3>6 DEF SInv, EndedRunHadItsHook
  <2>3. QED  BY <2>1, <2>2 DEF Conclude
<1>4. QED
  BY <1>2, <1>3 DEF SInv, OneAtATime, StepHoldsItsRun, MatchStaysTrue, ReplacingIsVacant

\* The step begins in the state it was matched for, or not at all.
LEMMA BeginStepSeq ==
    ASSUME OneAtATime, IInv, SInv, NEW t \in Tasks, BeginStep(t)
    PROVE  SInv'
<1>. DEFINE c == job[t].caller  r == runs[c]
<1>1. c \in Callers /\ r \in Runs /\ stateName[r] = job[t].at
  BY DEF IInv, TypeOK, Job, BeginStep, Matched, SInv, MatchStaysTrue
<1>2. /\ timer' = [timer EXCEPT ![r] = "off"]
      /\ UNCHANGED <<runs, flow, stateName, closed, started, exits>>
  BY DEF BeginStep, historyVars
<1>3. /\ pc'[t] = "stepping" /\ job'[t].run = r /\ job'[t].caller = c
      /\ job'[t].at = job[t].at
  BY DEF IInv, TypeOK, Goto, Job, BeginStep
<1>4. EndedRunHadItsHook'
  BY <1>2, EndedKept DEF SInv
<1>5. timer'[r] = "off"
  BY <1>1, <1>2 DEF IInv, TypeOK
<1>6. StepHoldsItsRun'
  BY <1>1, <1>2, <1>3, <1>5 DEF OneAtATime, StepHoldsItsRun
<1>7. QED
  BY <1>3, <1>4, <1>6 DEF SInv, OneAtATime, MatchStaysTrue, ReplacingIsVacant

\* A step changes the state of its own run only, as it ends.
LEMMA StepStaysSeq ==
    ASSUME OneAtATime, IInv, SInv, NEW t \in Tasks, NEW result, StepStays(t, result)
    PROVE  SInv'
<1>1. pc'[t] = "idle"
  BY DEF IInv, TypeOK, Done, Goto, StepStays
<1>2. EndedRunHadItsHook'
  BY EndedKept DEF SInv, StepStays, historyVars
<1>3. QED
  BY <1>1, <1>2 DEF SInv, OneAtATime, StepHoldsItsRun, MatchStaysTrue, ReplacingIsVacant

\* A run that its step ends has had its hook.
LEMMA StepEndsSeq ==
    ASSUME OneAtATime, IInv, SInv, NEW t \in Tasks, NEW result, StepEnds(t, result)
    PROVE  SInv'
<1>. DEFINE c == job[t].caller  r == job[t].run
<1>1. c \in Callers /\ r = runs[c] /\ r \in Runs
  BY DEF IInv, TypeOK, Job, StepsOwnTheirRun, StepEnds, Stepped
<1>2. /\ runs' = [runs EXCEPT ![c] = NoRun]
      /\ UNCHANGED <<flow, started, closed>>
  BY DEF StepEnds, Forget
<1>3. pc'[t] \in {"exiting", "idle"}
  BY DEF IInv, TypeOK, Goto, Done, StepEnds
<1>4. /\ \A x \in Runs : exits[x] # <<>> => exits'[x] # <<>>
      /\ flow[r] \in HookedFlows => exits'[r] # <<>>
  <2>1. PICK reason \in Reasons : HookCalled(r, flow[r], reason)
    BY ReasonTyped DEF StepEnds, Reasons
  <2>2. QED  BY <1>1, <2>1, HookLeavesReason DEF IInv
<1>5. \A d \in Callers : runs'[d] # runs[d] => runs[d] = r
  BY <1>1, <1>2 DEF IInv, TypeOK
<1>6. EndedRunHadItsHook'
  BY <1>2, <1>4, <1>5, EndedKept DEF SInv
<1>7. QED
  BY <1>3, <1>6 DEF SInv, OneAtATime, StepHoldsItsRun, MatchStaysTrue, ReplacingIsVacant

\* A run that expires has had its hook, and no step works on it.
LEMMA ExpireSeq ==
    ASSUME IInv, SInv, NEW r \in Runs, Expire(r)
    PROVE  SInv'
<1>. DEFINE c == owner[r]
<1>1. /\ c \in Callers /\ timer[r] = "armed"
      /\ timer' = [timer EXCEPT ![r] = "off"]
      /\ UNCHANGED <<flow, stateName, owner, pc, job, closed, started>>
  BY DEF IInv, TypeOK, Expire, taskVars
<1>2. \A d \in Callers : runs'[d] = runs[d] \/ (runs'[d] = NoRun /\ d = c /\ runs[d] = r)
  BY <1>1 DEF Expire, IInv, TypeOK
<1>3. /\ \A x \in Runs : exits[x] # <<>> => exits'[x] # <<>>
      /\ runs'[c] # runs[c] /\ flow[r] \in HookedFlows => exits'[r] # <<>>
  BY <1>1 DEF Expire, HookCalled, IInv, TypeOK, Reasons
<1>4. EndedRunHadItsHook'
  BY <1>1, <1>2, <1>3, EndedKept DEF SInv
<1>5. StepHoldsItsRun'
  <2>1. SUFFICES ASSUME NEW t \in Tasks, pc[t] = "stepping"
                 PROVE  /\ runs'[job[t].caller] = job[t].run
                        /\ timer'[job[t].run] = "off"
                        /\ stateName[job[t].run] = job[t].at
    BY <1>1 DEF StepHoldsItsRun
  <2>2. /\ runs[job[t].caller] = job[t].run /\ timer[job[t].run] = "off"
        /\ stateName[job[t].run] = job[t].at /\ job[t].caller \in Callers
    BY <2>1 DEF SInv, StepHoldsItsRun, IInv, TypeOK, Job
  <2>3. job[t].run # r
    BY <1>1, <2>2
  <2>4. QED  BY <1>1, <1>2, <2>2, <2>3 DEF IInv, TypeOK
<1>6. MatchStaysTrue' /\ ReplacingIsVacant'
  BY <1>1, <1>2 DEF SInv, MatchStaysTrue, ReplacingIsVacant, IInv, TypeOK, Job
<1>7. QED  BY <1>4, <1>5, <1>6 DEF SInv

\* The steps that record and end no run.
LEMMA OtherStepsSeq ==
    ASSUME IInv, SInv,
           \/ \E r \in Runs : TimeoutHookReturns(r)
           \/ Close
           \/ UNCHANGED vars
    PROVE  SInv'
<1>1. CASE \E r \in Runs : TimeoutHookReturns(r)
  <2>1. UNCHANGED <<runs, flow, stateName, timer, pc, job, closed, started, exits>>
    BY <1>1 DEF TimeoutHookReturns, taskVars, historyVars
  <2>2. EndedRunHadItsHook'
    BY <2>1, EndedKept DEF SInv
  <2>3. QED
    BY <2>1, <2>2 DEF SInv, StepHoldsItsRun, MatchStaysTrue, ReplacingIsVacant
<1>2. CASE Close
  BY <1>2 DEF Close, taskVars, SInv, StepHoldsItsRun, MatchStaysTrue,
     ReplacingIsVacant, EndedRunHadItsHook
<1>3. CASE UNCHANGED vars
  <2>1. UNCHANGED <<runs, flow, stateName, timer, pc, job, closed, started, exits>>
    BY <1>3 DEF vars, dispatcherVars, taskVars, historyVars
  <2>2. EndedRunHadItsHook'
    BY <2>1, EndedKept DEF SInv
  <2>3. QED
    BY <2>1, <2>2 DEF SInv, StepHoldsItsRun, MatchStaysTrue, ReplacingIsVacant
<1>4. QED  BY <1>1, <1>2, <1>3

\* Every step keeps the sequential invariant.
LEMMA NextSeq == ASSUME OneAtATime, IInv, SInv, [Next]_vars PROVE SInv'
<1>1. ASSUME NEW t \in Tasks, HandleUpdate(t) PROVE SInv'
  <2>1. CASE \/ EntryWithoutOutcome(t) \/ ReplacedHookRaises(t) \/ StepTooLate(t)
             \/ StepOutlived(t) \/ ExitHookReturns(t)
    BY <2>1, RestSeq DEF EntryWithoutOutcome, ReplacedHookRaises, StepTooLate,
       StepOutlived, ExitHookReturns
  <2>2. CASE EntryConcludes(t)
    <3>1. PICK result \in States \cup Endings : Conclude(t, result, runs[job[t].caller])
      BY <2>2 DEF EntryConcludes
    <3>2. QED
      BY <2>2, <3>1, ConcludeSeq DEF EntryConcludes, HoldsNewRun, Results, Endings
  <2>3. CASE ReplacedHookReturns(t)
    <3>1. job[t].result \in Results /\ runs[job[t].caller] = NoRun
      BY <2>3 DEF IInv, TypeOK, Job, SInv, ReplacingIsVacant, ReplacedHookReturns
    <3>2. QED
      BY <2>3, <3>1, ConcludeSeq DEF ReplacedHookReturns, HoldsNewRun
  <2>4. QED
    BY <1>1, <2>1, <2>2, <2>3, BeginEntrySeq, EntryReplacesSeq, BeginStepSeq,
       StepStaysSeq, StepEndsSeq DEF HandleUpdate
<1>2. QED
  BY <1>1, MatchSeq, ExpireSeq, OtherStepsSeq DEF Next

\* The sequential invariant holds at first.
LEMMA InitSeq == Init => SInv
  BY DEF Init, SInv, StepHoldsItsRun, MatchStaysTrue, ReplacingIsVacant, EndedRunHadItsHook

\* Both invariants hold in every reachable state.
LEMMA SequentialInvariance == ASSUME OneAtATime PROVE Spec => [](IInv /\ SInv)
<1>1. IInv /\ SInv /\ [Next]_vars => SInv'
  BY NextSeq
<1>2. QED  BY <1>1, InitSeq, Invariance, PTL DEF Spec

-----------------------------------------------------------------------------
(* Theorems for sequential handling.                                       *)

\* A slow step neither times out under itself nor loses its run to a
\* replacement.
THEOREM SlowStepKeepsItsRun == OneAtATime => (Spec => []RunOutlivesItsStep)
<1>1. SInv => RunOutlivesItsStep
  BY DEF SInv, StepHoldsItsRun, RunOutlivesItsStep
<1>2. SUFFICES ASSUME OneAtATime PROVE Spec => []RunOutlivesItsStep
  OBVIOUS
<1>3. QED  BY <1>1, <1>2, SequentialInvariance, PTL

\* A step mounted on a state runs only while its run is in that state.
THEOREM StepsMeetTheirState == OneAtATime => (Spec => []StepRunsInItsState)
<1>1. SInv => StepRunsInItsState
  BY DEF SInv, StepHoldsItsRun, StepRunsInItsState
<1>2. SUFFICES ASSUME OneAtATime PROVE Spec => []StepRunsInItsState
  OBVIOUS
<1>3. QED  BY <1>1, <1>2, SequentialInvariance, PTL

\* Whenever a run ends, its exit hook has been called, unless the bot stopped.
THEOREM NoRunEndsUnnoticed == OneAtATime => (Spec => []EndedRunHadItsHook)
<1>1. SInv => EndedRunHadItsHook
  BY DEF SInv
<1>2. SUFFICES ASSUME OneAtATime PROVE Spec => []EndedRunHadItsHook
  OBVIOUS
<1>3. QED  BY <1>1, <1>2, SequentialInvariance, PTL

-----------------------------------------------------------------------------
(* Stopping the bot.  No timer of a run that is no longer recorded is      *)
(* pending, so cancelling those of the recorded runs cancels all.          *)

ArmedIsLive == \A r \in Runs : timer[r] = "armed" => runs[owner[r]] = r

ClosedIsInert ==
    closed => /\ \A t \in Tasks : pc[t] = "idle"
              /\ \A c \in Callers : runs[c] = NoRun
              /\ \A r \in Runs : expiring[r] # "running"

CInv == ArmedIsLive /\ ClosedIsInert

\* What _enter records at its end is armed for its caller.
LEMMA ConcludeClosing ==
    ASSUME IInv, CInv, NEW t \in Tasks, HoldsNewRun(t), NEW result, NEW old,
           Conclude(t, result, old), UNCHANGED <<expiring, closed>>,
           old = runs[job[t].caller]
    PROVE  CInv'
<1>. DEFINE c == job[t].caller  r == job[t].run
<1>1. c \in Callers /\ r \in Runs \ started
  BY DEF IInv, TypeOK, Job, NewRunsAreFresh
<1>2. ~closed'
  BY DEF CInv, ClosedIsInert, HoldsNewRun
<1>3. ArmedIsLive'
  <2>1. SUFFICES ASSUME NEW x \in Runs, timer'[x] = "armed"
                 PROVE  runs'[owner'[x]] = x
    BY DEF ArmedIsLive
  <2>2. CASE result \in Endings
    <3>1. /\ runs' = [runs EXCEPT ![c] = IF @ = old THEN NoRun ELSE @]
          /\ timer' = [y \in Runs |-> IF y = old THEN "off" ELSE timer[y]]
          /\ owner' = owner
      BY <2>2, ConstantsAssumption DEF Conclude, Endings
    <3>2. x # old /\ timer[x] = "armed" /\ runs[owner[x]] = x /\ owner[x] \in Callers
      BY <2>1, <3>1 DEF CInv, ArmedIsLive, IInv, TypeOK
    <3>3. QED  BY <1>1, <3>1, <3>2 DEF IInv, TypeOK
  <2>3. CASE result \in States
    <3>1. /\ runs' = [runs EXCEPT ![c] = r] /\ owner' = [owner EXCEPT ![r] = c]
          /\ timer' = [[y \in Runs |-> IF y = old THEN "off" ELSE timer[y]]
                          EXCEPT ![r] = Armed(job[t].flow)]
      BY <2>3, ConstantsAssumption DEF Conclude, Endings
    <3>2. CASE x = r
      BY <1>1, <3>1, <3>2 DEF IInv, TypeOK
    <3>3. CASE x # r
      <4>1. x # old /\ timer[x] = "armed" /\ runs[owner[x]] = x /\ owner[x] \in Callers
        BY <2>1, <3>1, <3>3 DEF CInv, ArmedIsLive, IInv, TypeOK
      <4>2. QED  BY <1>1, <3>1, <3>3, <4>1 DEF IInv, TypeOK
    <3>4. QED  BY <3>2, <3>3
  <2>4. QED  BY <2>2, <2>3 DEF Conclude
<1>4. QED  BY <1>2, <1>3 DEF CInv, ClosedIsInert

\* Forgetting a live run takes its timer with it.
LEMMA ForgetClosing ==
    ASSUME IInv, CInv, NEW c \in Callers, runs[c] # NoRun, Forget(c, runs[c]), owner' = owner
    PROVE  ArmedIsLive' /\ ~closed
<1>1. ~closed
  BY DEF CInv, ClosedIsInert
<1>2. SUFFICES ASSUME NEW x \in Runs, timer'[x] = "armed" PROVE runs'[owner[x]] = x
  BY <1>1 DEF ArmedIsLive
<1>3. x # runs[c] /\ timer[x] = "armed" /\ runs[owner[x]] = x
  BY <1>2 DEF Forget, CInv, ArmedIsLive, IInv, TypeOK
<1>4. QED  BY <1>3 DEF Forget, IInv, TypeOK

\* No handling of an update leaves a timer behind.
LEMMA HandleUpdateClosing ==
    ASSUME OneAtATime, IInv, SInv, CInv, NEW t \in Tasks, HandleUpdate(t)
    PROVE  CInv'
<1>0. job[t].caller \in Callers
  BY DEF IInv, TypeOK, Job
<1>1. CASE \/ BeginEntry(t) \/ EntryWithoutOutcome(t) \/ ReplacedHookRaises(t)
           \/ StepTooLate(t) \/ StepOutlived(t) \/ ExitHookReturns(t)
  <2>1. UNCHANGED <<runs, timer, owner, expiring, closed>> /\ pc[t] # "idle"
    BY <1>1 DEF BeginEntry, EntryWithoutOutcome, ReplacedHookRaises, StepTooLate,
       StepOutlived, ExitHookReturns, Matched, dispatcherVars
  <2>2. QED  BY <2>1 DEF CInv, ArmedIsLive, ClosedIsInert
<1>2. CASE EntryReplaces(t)
  <2>1. UNCHANGED <<expiring, closed>> /\ ArmedIsLive' /\ ~closed
    BY <1>0, <1>2, ForgetClosing DEF EntryReplaces
  <2>2. QED  BY <2>1 DEF CInv, ClosedIsInert
<1>3. CASE EntryConcludes(t)
  BY <1>3, ConcludeClosing DEF EntryConcludes, HoldsNewRun
<1>4. CASE ReplacedHookReturns(t)
  <2>1. runs[job[t].caller] = NoRun
    BY <1>4 DEF ReplacedHookReturns, SInv, ReplacingIsVacant
  <2>2. QED  BY <1>4, <2>1, ConcludeClosing DEF ReplacedHookReturns, HoldsNewRun
<1>5. CASE BeginStep(t)
  <2>1. /\ timer' = [timer EXCEPT ![runs[job[t].caller]] = "off"]
        /\ UNCHANGED <<runs, owner, expiring, closed>> /\ pc[t] # "idle"
    BY <1>5 DEF BeginStep, Matched
  <2>2. QED  BY <1>0, <2>1 DEF CInv, ArmedIsLive, ClosedIsInert, IInv, TypeOK
<1>6. ASSUME NEW result \in Results, StepStays(t, result) PROVE CInv'
  <2>1. /\ timer' = [timer EXCEPT ![job[t].run] = Armed(flow[job[t].run])]
        /\ UNCHANGED <<runs, owner, expiring, closed>> /\ pc[t] # "idle"
        /\ runs[owner[job[t].run]] = job[t].run
    BY <1>6 DEF StepStays, Stepped, IInv, StepsOwnTheirRun
  <2>2. QED  BY <2>1 DEF CInv, ArmedIsLive, ClosedIsInert, IInv, TypeOK
<1>7. ASSUME NEW result \in Results, StepEnds(t, result) PROVE CInv'
  <2>1. runs[job[t].caller] = job[t].run /\ job[t].run # NoRun
    BY <1>7, ConstantsAssumption DEF StepEnds, Stepped, IInv, TypeOK, StepsOwnTheirRun
  <2>2. UNCHANGED <<expiring, closed>> /\ ArmedIsLive' /\ ~closed
    BY <1>0, <1>7, <2>1, ForgetClosing DEF StepEnds
  <2>3. QED  BY <2>2 DEF CInv, ClosedIsInert
<1>8. QED
  BY <1>1, <1>2, <1>3, <1>4, <1>5, <1>6, <1>7 DEF HandleUpdate

\* Every step keeps the invariant of closing.
LEMMA NextClosing == ASSUME OneAtATime, IInv, SInv, CInv, [Next]_vars PROVE CInv'
<1>1. ASSUME NEW t \in Tasks, NEW c \in Callers, Match(t, c) PROVE CInv'
  BY <1>1 DEF Match, dispatcherVars, CInv, ArmedIsLive, ClosedIsInert
<1>2. ASSUME NEW r \in Runs, Expire(r) PROVE CInv'
  <2>1. /\ timer[r] = "armed" /\ runs[owner[r]] = r /\ owner[r] \in Callers /\ r # NoRun
        /\ owner' = owner /\ closed' = closed
    BY <1>2, ConstantsAssumption DEF Expire, CInv, ArmedIsLive, IInv, TypeOK
  <2>2. Forget(owner[r], runs[owner[r]]) /\ ~closed
    BY <1>2, <2>1 DEF Expire, Forget, CInv, ClosedIsInert
  <2>3. QED  BY <2>1, <2>2, ForgetClosing DEF CInv, ClosedIsInert
<1>3. ASSUME NEW r \in Runs, TimeoutHookReturns(r) PROVE CInv'
  BY <1>3 DEF TimeoutHookReturns, taskVars, CInv, ArmedIsLive, ClosedIsInert, IInv, TypeOK
<1>4. CASE Close
  <2>1. \A r \in Runs : timer'[r] # "armed"
    BY <1>4 DEF Close, CInv, ArmedIsLive, Recorded, IInv, TypeOK
  <2>2. QED  BY <1>4, <2>1 DEF Close, taskVars, CInv, ArmedIsLive, ClosedIsInert
<1>5. CASE UNCHANGED vars
  BY <1>5 DEF vars, dispatcherVars, taskVars, CInv, ArmedIsLive, ClosedIsInert
<1>6. QED
  BY <1>1, <1>2, <1>3, <1>4, <1>5, HandleUpdateClosing DEF Next

\* The invariant of closing holds at first.
LEMMA InitClosing == Init => CInv
  BY DEF Init, CInv, ArmedIsLive, ClosedIsInert

\* The three invariants together hold in every state.
LEMMA ClosingInvariance == ASSUME OneAtATime PROVE Spec => [](IInv /\ SInv /\ CInv)
<1>1. IInv /\ SInv /\ CInv /\ [Next]_vars => CInv'
  BY NextClosing
<1>2. QED  BY <1>1, InitClosing, SequentialInvariance, PTL DEF Spec

\* Stopping the bot (close) leaves no run, no pending timer, and no timeout hook that was
\* not cancelled; and since no timer is left, no hook begins afterwards.
THEOREM StoppedBotIsQuiet == OneAtATime => (Spec => []ClosedIsQuiet)
<1>1. IInv /\ CInv => ClosedIsQuiet
  BY ConstantsAssumption
  DEF IInv, TypeOK, CInv, ArmedIsLive, ClosedIsInert, ClosedIsQuiet
<1>2. SUFFICES ASSUME OneAtATime PROVE Spec => []ClosedIsQuiet
  OBVIOUS
<1>3. QED  BY <1>1, <1>2, ClosingInvariance, PTL

-----------------------------------------------------------------------------
(* The dispatcher implements RunLifecycle when every flow has a hook.      *)

\* The end of _enter starts a run, or ends one at once.
LEMMA ConcludeImplements ==
    ASSUME IInv, CInv, NEW t \in Tasks, HoldsNewRun(t),
           NEW result, Conclude(t, result, NoRun), closed' = closed,
           runs[job[t].caller] = NoRun, HookedFlows = Flows
    PROVE  Lifecycle!Next
<1>. DEFINE c == job[t].caller  r == job[t].run
<1>1. /\ c \in Callers /\ r \in Runs /\ job[t].flow \in Flows /\ ~closed
      /\ exits[r] = <<>> /\ \A d \in Callers : runs[d] # r
  BY ConstantsAssumption DEF IInv, TypeOK, Job, NewRunsAreFresh, LiveRunsAreOwned,
     CInv, ClosedIsInert, HoldsNewRun
<1>2. CASE result \in Endings
  <2>1. PICK reason \in {"FINISHED", "CANCELLED"} : HookCalled(r, job[t].flow, reason)
    BY <1>2, ConstantsAssumption DEF Conclude, Endings, ExitReason
  <2>2. runs' = [runs EXCEPT ![c] = IF @ = NoRun THEN NoRun ELSE @]
    BY <1>2, ConstantsAssumption DEF Conclude, Endings
  <2>3. runs' = runs /\ exits' = [exits EXCEPT ![r] = <<reason>>]
    BY <1>1, <2>1, <2>2 DEF HookCalled, IInv, TypeOK
  <2>4. Lifecycle!EndAtOnce(r, reason)
    BY <1>1, <2>3 DEF Lifecycle!EndAtOnce, Lifecycle!New
  <2>5. QED  BY <1>1, <2>4 DEF Lifecycle!Next
<1>3. CASE result \in States
  <2>1. runs' = [runs EXCEPT ![c] = r] /\ exits' = exits
    BY <1>3, ConstantsAssumption DEF Conclude, Endings
  <2>2. Lifecycle!Start(c, r)
    BY <1>1, <2>1 DEF Lifecycle!Start, Lifecycle!New
  <2>3. QED  BY <1>1, <2>2 DEF Lifecycle!Next
<1>4. QED  BY <1>2, <1>3 DEF Conclude

\* Forgetting a live run and calling its hook is the abstract End.
LEMMA EndImplements ==
    ASSUME IInv, CInv, NEW c \in Callers, runs[c] # NoRun,
           NEW reason \in {"FINISHED", "CANCELLED", "TIMEOUT"},
           runs' = [runs EXCEPT ![c] = NoRun],
           HookCalled(runs[c], flow[runs[c]], reason),
           closed' = closed, HookedFlows = Flows
    PROVE  Lifecycle!Next
<1>1. /\ runs[c] \in Runs /\ flow[runs[c]] \in Flows /\ exits[runs[c]] = <<>> /\ ~closed
  BY DEF IInv, TypeOK, LiveRunsAreOwned, CInv, ClosedIsInert
<1>2. exits' = [exits EXCEPT ![runs[c]] = <<reason>>]
  BY <1>1 DEF HookCalled
<1>3. Lifecycle!End(c, reason)
  BY <1>1, <1>2 DEF Lifecycle!End
<1>4. QED  BY <1>3 DEF Lifecycle!Next

\* Every step is a step of RunLifecycle or changes nothing it sees.
LEMMA NextImplements ==
    ASSUME HookedFlows = Flows, IInv, SInv, CInv, [Next]_vars
    PROVE  [Lifecycle!Next]_<<runs, exits, closed>>
<1>1. ASSUME NEW t \in Tasks, HandleUpdate(t)
      PROVE  [Lifecycle!Next]_<<runs, exits, closed>>
  <2>0. job[t].caller \in Callers
    BY DEF IInv, TypeOK, Job
  <2>1. CASE \/ BeginEntry(t) \/ EntryWithoutOutcome(t) \/ ReplacedHookRaises(t)
             \/ StepTooLate(t) \/ BeginStep(t) \/ StepOutlived(t) \/ ExitHookReturns(t)
    BY <2>1 DEF BeginEntry, EntryWithoutOutcome, ReplacedHookRaises, StepTooLate,
       BeginStep, StepOutlived, ExitHookReturns, dispatcherVars, historyVars
  <2>2. CASE EntryReplaces(t)
    BY <2>0, <2>2, EndImplements DEF EntryReplaces, Forget
  <2>3. CASE EntryConcludes(t)
    <3>1. runs[job[t].caller] = NoRun
      BY <2>0, <2>3 DEF EntryConcludes, IInv, TypeOK
    <3>2. QED  BY <2>3, <3>1, ConcludeImplements DEF EntryConcludes, HoldsNewRun
  <2>4. CASE ReplacedHookReturns(t)
    <3>1. runs[job[t].caller] = NoRun
      BY <2>4 DEF ReplacedHookReturns, SInv, ReplacingIsVacant
    <3>2. QED  BY <2>4, <3>1, ConcludeImplements DEF ReplacedHookReturns, HoldsNewRun
  <2>5. ASSUME NEW result \in Results, StepStays(t, result)
        PROVE  UNCHANGED <<runs, exits, closed>>
    BY <2>5 DEF StepStays, historyVars
  <2>6. ASSUME NEW result \in Results, StepEnds(t, result)
        PROVE  Lifecycle!Next
    <3>1. runs[job[t].caller] = job[t].run /\ job[t].run # NoRun
      BY <2>6, ConstantsAssumption DEF StepEnds, Stepped, IInv, TypeOK, StepsOwnTheirRun
    <3>2. PICK reason \in {"FINISHED", "CANCELLED"} :
              HookCalled(job[t].run, flow[job[t].run], reason)
      BY <2>6 DEF StepEnds, ExitReason
    <3>3. QED  BY <2>0, <2>6, <3>1, <3>2, EndImplements DEF StepEnds, Forget
  <2>7. QED
    BY <1>1, <2>1, <2>2, <2>3, <2>4, <2>5, <2>6 DEF HandleUpdate
<1>2. ASSUME NEW r \in Runs, Expire(r) PROVE Lifecycle!Next
  <2>1. runs[owner[r]] = r /\ r # NoRun /\ owner[r] \in Callers
    BY <1>2, ConstantsAssumption DEF Expire, CInv, ArmedIsLive, IInv, TypeOK
  <2>2. QED  BY <1>2, <2>1, EndImplements DEF Expire
<1>3. CASE Close
  BY <1>3 DEF Close, historyVars, Lifecycle!Next, Lifecycle!Stop
<1>4. CASE \/ \E t \in Tasks, c \in Callers : Match(t, c)
           \/ \E r \in Runs : TimeoutHookReturns(r)
           \/ UNCHANGED vars
  BY <1>4 DEF Match, TimeoutHookReturns, vars, dispatcherVars, taskVars, historyVars
<1>5. QED  BY <1>1, <1>2, <1>3, <1>4 DEF Next

\* Whatever tasks, timers and pipelines do between two suspensions, a caller
\* has one run at a time, and each ends once, its hook being called then.
THEOREM DispatcherImplementsLifecycle ==
    OneAtATime /\ HookedFlows = Flows => (Spec => ImplementsLifecycle)
<1>1. SUFFICES ASSUME OneAtATime, HookedFlows = Flows PROVE Spec => ImplementsLifecycle
  OBVIOUS
<1>2. Init => Lifecycle!Init
  BY DEF Init, Lifecycle!Init
<1>3. IInv /\ SInv /\ CInv /\ [Next]_vars => [Lifecycle!Next]_<<runs, exits, closed>>
  BY <1>1, NextImplements
<1>4. QED
  BY <1>1, <1>2, <1>3, ClosingInvariance, PTL DEF Spec, ImplementsLifecycle, Lifecycle!Spec
=============================================================================
