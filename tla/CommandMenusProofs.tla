-------------------------- MODULE CommandMenusProofs --------------------------
(***************************************************************************)
(* Proofs about CommandMenus, for any chats, menus, tasks and faults.      *)
(*                                                                         *)
(* First what the lock gives whatever goes wrong: only its holder is past  *)
(* the acquisition, so what it read is the newest reading.  Then, when     *)
(* Telegram's answers arrive and no sync is cancelled, that the record can *)
(* be trusted; and from that, that a finished sync has converged.          *)
(***************************************************************************)
EXTENDS CommandMenus, TLAPS

-----------------------------------------------------------------------------
(* Types.                                                                  *)

\* The job of a task with no sync, or with one that has just been called.
LEMMA NewJobTyped ==
    ASSUME NEW full \in BOOLEAN, NEW listed \in SUBSET Chats
    PROVE  NewJob(full, listed) \in Job
BY MenusAssumption DEF NewJob, Job, Nothing, Menu

\* An idle task's job has its type.
LEMMA IdleJobTyped == IdleJob \in Job
BY NewJobTyped DEF IdleJob

\* Goto keeps the types of pc and job.
LEMMA GotoTyped ==
    ASSUME TypeOK, NEW t \in Tasks, NEW label \in PCs, NEW j \in Job, Goto(t, label, j)
    PROVE  pc' \in [Tasks -> PCs] /\ job' \in [Tasks -> Job]
BY DEF TypeOK, Goto

\* An API call has at least one attempt.
LEMMA FirstTry == 1 \in 1 .. MaxAttempts
BY MenusAssumption

\* Leave keeps the types, and resets the task.
LEMMA LeaveTyped ==
    ASSUME TypeOK, NEW t \in Tasks, Leave(t)
    PROVE  /\ pc' \in [Tasks -> PCs] /\ job' \in [Tasks -> Job]
           /\ lock' \in Tasks \cup {NoTask}
           /\ tries' \in [Tasks -> 1 .. MaxAttempts]
<1>1. "idle" \in PCs BY DEF PCs
<1>2. pc' \in [Tasks -> PCs] /\ job' \in [Tasks -> Job]
  BY <1>1, GotoTyped, IdleJobTyped DEF Leave
<1> QED BY <1>2, FirstTry DEF Leave, TypeOK

\* What Resolve plans is a job.
LEMMA PlannedTyped ==
    ASSUME NEW j \in Job, NEW desired \in [Chats -> Menu], NEW cleared \in SUBSET Chats
    PROVE  Planned(j, desired, cleared) \in Job
BY DEF Planned, Job, Holding

\* Striking a chat off a job leaves a job.
LEMMA WithoutTyped ==
    ASSUME NEW j \in Job, NEW c
    PROVE  Without(j, c) \in Job
BY DEF Without, Job

\* Every step keeps every type.
LEMMA TypeStep == TypeOK /\ [Next]_vars => TypeOK'
<1> SUFFICES ASSUME TypeOK, [Next]_vars PROVE TypeOK' OBVIOUS
<1>p. PCs = {"idle", "waiting", "loading", "resolving", "default", "chats", "recording"}
  BY DEF PCs
<1>j. \A t \in Tasks : job[t] \in Job BY DEF TypeOK
<1>1. ASSUME NEW t \in Tasks, Call(t) PROVE TypeOK'
  <2>1. pc' \in [Tasks -> PCs] /\ job' \in [Tasks -> Job]
    BY <1>1, <1>p, GotoTyped, NewJobTyped DEF Call
  <2> QED BY <1>1, <2>1 DEF Call, TypeOK, recordVars, seedVars
<1>2. ASSUME NEW t \in Tasks, Acquire(t) PROVE TypeOK'
  <2>1. pc' \in [Tasks -> PCs] /\ job' \in [Tasks -> Job]
    BY <1>2, <1>p, <1>j, GotoTyped DEF Acquire
  <2> QED BY <1>2, <2>1 DEF Acquire, TypeOK, recordVars, seedVars
<1>3. ASSUME NEW t \in Tasks, Load(t) PROVE TypeOK'
  <2>1. pc' \in [Tasks -> PCs] /\ job' \in [Tasks -> Job]
    BY <1>3, <1>p, <1>j, GotoTyped DEF Load
  <2> QED BY <1>3, <2>1 DEF Load, TypeOK, seedVars
<1>4. ASSUME NEW t \in Tasks, Resolve(t) PROVE TypeOK'
  <2>1. seed' \subseteq Chats BY <1>4, MenusAssumption DEF Resolve, TypeOK
  <2>2. PICK desired \in [Chats -> Menu] :
          /\ newest' = desired
          /\ Goto(t, IF job[t].full THEN "default" ELSE "chats",
                  Planned(job[t], desired, Holding(published) \cup seed'))
    BY <1>4 DEF Resolve
  <2>3. Holding(published) \cup seed' \in SUBSET Chats BY <2>1 DEF Holding
  <2>4. Planned(job[t], desired, Holding(published) \cup seed') \in Job
    BY <2>3, <1>j, PlannedTyped
  <2>5. pc' \in [Tasks -> PCs] /\ job' \in [Tasks -> Job]
    BY <2>2, <2>4, <1>p, GotoTyped
  <2> QED BY <1>4, <2>1, <2>2, <2>5 DEF Resolve, TypeOK, recordVars
<1>5. ASSUME NEW t \in Tasks, DefaultWritten(t) PROVE TypeOK'
  <2>1. pc' \in [Tasks -> PCs] /\ job' \in [Tasks -> Job]
    BY <1>5, <1>p, <1>j, GotoTyped DEF DefaultWritten
  <2> QED BY <1>5, <2>1, FirstTry DEF DefaultWritten, TypeOK, recordVars
<1>6. ASSUME NEW t \in Tasks, Abort(t) \/ Finish(t) \/ Cancel(t) PROVE TypeOK'
  <2>1. Leave(t) /\ UNCHANGED <<telegram, recordVars, seedVars, newest>>
    BY <1>6 DEF Abort, Finish, Cancel
  <2> QED BY <2>1, LeaveTyped DEF TypeOK, recordVars, seedVars
<1>7. ASSUME NEW t \in Tasks, Flooded(t) PROVE TypeOK'
  <2>1. tries[t] + 1 \in 1 .. MaxAttempts BY <1>7, MenusAssumption DEF Flooded, TypeOK
  <2> QED BY <1>7, <2>1 DEF Flooded, TypeOK, recordVars, seedVars
<1>8. ASSUME NEW t \in Tasks, NEW c \in Chats, Skip(t, c) PROVE TypeOK'
  <2>1. pc' \in [Tasks -> PCs] /\ job' \in [Tasks -> Job]
    BY <1>8, <1>p, <1>j, GotoTyped, WithoutTyped DEF Skip
  <2> QED BY <1>8, <2>1 DEF Skip, TypeOK, recordVars
<1>9. ASSUME NEW t \in Tasks, NEW c \in Chats, Accepted(t, c) PROVE TypeOK'
  <2>1. [Without(job[t], c) EXCEPT !.chat = c] \in Job
    BY <1>j, WithoutTyped DEF Job
  <2>2. pc' \in [Tasks -> PCs] /\ job' \in [Tasks -> Job]
    BY <1>9, <2>1, <1>p, GotoTyped DEF Accepted
  <2>3. job[t].desired[c] \in Menu BY <1>j DEF Job
  <2> QED BY <1>9, <2>2, <2>3, FirstTry DEF Accepted, TypeOK, recordVars, seedVars
<1>10. ASSUME NEW t \in Tasks, NEW c \in Chats, Refused(t, c) PROVE TypeOK'
  <2>1. [Without(job[t], c) EXCEPT !.failed = @ \cup {c}] \in Job
    BY <1>j, WithoutTyped DEF Job
  <2>2. pc' \in [Tasks -> PCs] /\ job' \in [Tasks -> Job]
    BY <1>10, <2>1, <1>p, GotoTyped DEF Refused
  <2>3. job[t].desired[c] \in Menu BY <1>j DEF Job
  <2> QED BY <1>10, <2>2, <2>3, FirstTry DEF Refused, TypeOK, recordVars, seedVars
<1>11. ASSUME NEW t \in Tasks, StoreKeeps(t) \/ StoreFails(t) PROVE TypeOK'
  <2>1. pc' \in [Tasks -> PCs] /\ job' \in [Tasks -> Job]
    BY <1>11, <1>p, <1>j, GotoTyped DEF StoreKeeps, StoreFails
  <2>2. job[t].chat \in Chats /\ job[t].desired[job[t].chat] \in Menu BY <1>j DEF Job
  <2>3. store' \in [Chats -> Menu] /\ published' \in [Chats -> Menu] /\ seed' \subseteq Chats
    BY <1>11, <2>2 DEF StoreKeeps, StoreFails, TypeOK, Menu
  <2> QED BY <1>11, <2>1, <2>3 DEF StoreKeeps, StoreFails, TypeOK
<1>12. ASSUME Restart PROVE TypeOK'
  BY <1>12, <1>p, IdleJobTyped, FirstTry DEF Restart, TypeOK, Nothing, Menu
<1>13. ASSUME UNCHANGED vars PROVE TypeOK'
  BY <1>13 DEF vars, recordVars, seedVars, TypeOK
<1> QED
  BY <1>1, <1>2, <1>3, <1>4, <1>5, <1>6, <1>7, <1>8, <1>9, <1>10, <1>11, <1>12, <1>13
     DEF Next, Proceed

\* In every state each variable has its type, and no API call is attempted
\* more than _MAX_ATTEMPTS times.
THEOREM MenusTyped == Spec => []TypeOK
<1>1. Init => TypeOK
  BY FirstTry, IdleJobTyped DEF Init, TypeOK, Nothing, Menu, PCs
<1> QED BY <1>1, TypeStep, PTL DEF Spec

-----------------------------------------------------------------------------
(* What the lock gives, whatever goes wrong.                               *)

\* Past the acquisition of the lock.
Inside(t) == pc[t] \notin {"idle", "waiting"}

OnlyHolderInside == \A t \in Tasks : Inside(t) => lock = t

RecordLoaded ==
    \A t \in Tasks :
        /\ pc[t] = "loading" => ~loaded
        /\ pc[t] \in {"resolving", "default", "chats", "recording"} => loaded

LInv == TypeOK /\ OnlyHolderInside /\ RecordLoaded /\ WritesNewestReading

\* Goto moves one task and leaves the others where they are.
LEMMA GotoFrame ==
    ASSUME TypeOK, NEW t \in Tasks, NEW label, NEW j, Goto(t, label, j)
    PROVE  /\ pc'[t] = label /\ job'[t] = j
           /\ \A u \in Tasks \ {t} : pc'[u] = pc[u] /\ job'[u] = job[u]
BY DEF TypeOK, Goto

\* A task that leaves is idle, and no other task is affected.
LEMMA LeaveFrame ==
    ASSUME TypeOK, NEW t \in Tasks, Leave(t)
    PROVE  /\ pc'[t] = "idle"
           /\ \A u \in Tasks \ {t} : pc'[u] = pc[u] /\ job'[u] = job[u]
BY GotoFrame DEF Leave

\* Striking a chat off a job leaves what the scopes want, and the rest.
LEMMA WithoutKeeps ==
    ASSUME NEW j \in Job, NEW c
    PROVE  LET k == Without(j, c) IN
           /\ k.desired = j.desired /\ k.listed = j.listed /\ k.failed = j.failed
           /\ k.writes = j.writes \ {c} /\ k.deletes = j.deletes \ {c}
BY DEF Without, Job

\* What Resolve plans is what the scopes want.
LEMMA PlannedDesired ==
    ASSUME NEW j \in Job, NEW desired \in [Chats -> Menu], NEW cleared
    PROVE  Planned(j, desired, cleared).desired = desired
BY DEF Planned, Job

\* A step of the holder that leaves the lock and the record's loading alone,
\* and what its task works from, keeps the invariant of the lock.
LEMMA HolderStep ==
    ASSUME LInv, TypeOK', NEW t \in Tasks, Inside(t),
           lock' = lock, loaded' = loaded, newest' = newest,
           pc[t] \in {"default", "chats", "recording"},
           pc'[t] \in {"default", "chats", "recording"},
           job'[t].desired = job[t].desired,
           \A u \in Tasks \ {t} : pc'[u] = pc[u] /\ job'[u] = job[u]
    PROVE  LInv'
BY DEF LInv, OnlyHolderInside, RecordLoaded, WritesNewestReading, Inside

\* Every step keeps the invariant of the lock.
LEMMA LockStep == LInv /\ [Next]_vars => LInv'
<1> SUFFICES ASSUME LInv, [Next]_vars PROVE LInv' OBVIOUS
<1>t. TypeOK /\ TypeOK' BY TypeStep DEF LInv
<1>j. \A t \in Tasks : job[t] \in Job BY <1>t DEF TypeOK
<1>1. ASSUME NEW t \in Tasks, Call(t) PROVE LInv'
  <2>1. pc'[t] = "waiting" /\ \A u \in Tasks \ {t} : pc'[u] = pc[u] /\ job'[u] = job[u]
    BY <1>1, <1>t, GotoFrame DEF Call
  <2> QED BY <1>1, <1>t, <2>1
       DEF Call, LInv, OnlyHolderInside, RecordLoaded, WritesNewestReading, Inside, recordVars
<1>2. ASSUME NEW t \in Tasks, Acquire(t) PROVE LInv'
  <2>1. pc'[t] = (IF loaded THEN "resolving" ELSE "loading")
        /\ \A u \in Tasks \ {t} : pc'[u] = pc[u] /\ job'[u] = job[u]
    BY <1>2, <1>t, GotoFrame DEF Acquire
  <2>2. \A u \in Tasks : ~Inside(u)
    BY <1>2, MenusAssumption DEF Acquire, LInv, OnlyHolderInside
  <2> QED BY <1>2, <1>t, <2>1, <2>2
       DEF Acquire, LInv, OnlyHolderInside, RecordLoaded, WritesNewestReading, Inside, recordVars
<1>3. ASSUME NEW t \in Tasks, Load(t) PROVE LInv'
  <2>1. pc'[t] = "resolving" /\ \A u \in Tasks \ {t} : pc'[u] = pc[u] /\ job'[u] = job[u]
    BY <1>3, <1>t, GotoFrame DEF Load
  <2>2. \A u \in Tasks \ {t} : ~Inside(u)
    BY <1>3 DEF Load, LInv, OnlyHolderInside, Inside
  <2> QED BY <1>3, <1>t, <2>1, <2>2
       DEF Load, LInv, OnlyHolderInside, RecordLoaded, WritesNewestReading, Inside
<1>4. ASSUME NEW t \in Tasks, Resolve(t) PROVE LInv'
  <2>1. PICK desired \in [Chats -> Menu] :
          /\ newest' = desired
          /\ Goto(t, IF job[t].full THEN "default" ELSE "chats",
                  Planned(job[t], desired, Holding(published) \cup seed'))
    BY <1>4 DEF Resolve
  <2>2. /\ pc'[t] \in {"default", "chats"} /\ job'[t].desired = newest'
        /\ \A u \in Tasks \ {t} : pc'[u] = pc[u] /\ job'[u] = job[u]
    BY <2>1, <1>t, <1>j, GotoFrame, PlannedDesired
  <2>3. \A u \in Tasks \ {t} : ~Inside(u)
    BY <1>4 DEF Resolve, LInv, OnlyHolderInside, Inside
  <2> QED BY <1>4, <1>t, <2>2, <2>3
       DEF Resolve, LInv, OnlyHolderInside, RecordLoaded, WritesNewestReading, Inside, recordVars
<1>5. ASSUME NEW t \in Tasks, Abort(t) \/ Finish(t) \/ Cancel(t) PROVE LInv'
  <2>1. Leave(t) /\ UNCHANGED <<telegram, recordVars, seedVars, newest>>
    BY <1>5 DEF Abort, Finish, Cancel
  <2>2. pc'[t] = "idle" /\ \A u \in Tasks \ {t} : pc'[u] = pc[u] /\ job'[u] = job[u]
    BY <2>1, <1>t, LeaveFrame
  <2>3. lock' = IF lock = t THEN NoTask ELSE lock BY <2>1 DEF Leave
  <2> QED BY <2>1, <2>2, <2>3, <1>t
       DEF LInv, OnlyHolderInside, RecordLoaded, WritesNewestReading, Inside, recordVars
<1>6. ASSUME NEW t \in Tasks, Flooded(t) PROVE LInv'
  BY <1>6, <1>t
     DEF Flooded, LInv, OnlyHolderInside, RecordLoaded, WritesNewestReading, Inside, recordVars
<1>7. ASSUME NEW t \in Tasks, DefaultWritten(t) PROVE LInv'
  <2>1. pc'[t] = "chats" /\ job'[t] = job[t]
        /\ \A u \in Tasks \ {t} : pc'[u] = pc[u] /\ job'[u] = job[u]
    BY <1>7, <1>t, GotoFrame DEF DefaultWritten
  <2> QED BY <1>7, <1>t, <2>1, HolderStep DEF DefaultWritten, Inside, recordVars
<1>8. ASSUME NEW t \in Tasks, NEW c \in Chats, Skip(t, c) PROVE LInv'
  <2>1. pc'[t] = "chats" /\ job'[t].desired = job[t].desired
        /\ \A u \in Tasks \ {t} : pc'[u] = pc[u] /\ job'[u] = job[u]
    BY <1>8, <1>t, <1>j, GotoFrame, WithoutKeeps DEF Skip
  <2> QED BY <1>8, <1>t, <2>1, HolderStep DEF Skip, Inside, recordVars
<1>9. ASSUME NEW t \in Tasks, NEW c \in Chats, Accepted(t, c) PROVE LInv'
  <2>1. [Without(job[t], c) EXCEPT !.chat = c].desired = job[t].desired
    BY <1>j, WithoutTyped, WithoutKeeps DEF Job
  <2>2. pc'[t] = "recording" /\ job'[t].desired = job[t].desired
        /\ \A u \in Tasks \ {t} : pc'[u] = pc[u] /\ job'[u] = job[u]
    BY <1>9, <1>t, <2>1, GotoFrame DEF Accepted
  <2> QED BY <1>9, <1>t, <2>2, HolderStep DEF Accepted, Calling, Inside, recordVars
<1>10. ASSUME NEW t \in Tasks, NEW c \in Chats, Refused(t, c) PROVE LInv'
  <2>1. [Without(job[t], c) EXCEPT !.failed = @ \cup {c}].desired = job[t].desired
    BY <1>j, WithoutTyped, WithoutKeeps DEF Job
  <2>2. pc'[t] = "chats" /\ job'[t].desired = job[t].desired
        /\ \A u \in Tasks \ {t} : pc'[u] = pc[u] /\ job'[u] = job[u]
    BY <1>10, <1>t, <2>1, GotoFrame DEF Refused
  <2> QED BY <1>10, <1>t, <2>2, HolderStep DEF Refused, Calling, Inside, recordVars
<1>11. ASSUME NEW t \in Tasks, StoreKeeps(t) \/ StoreFails(t) PROVE LInv'
  <2>1. pc'[t] = "chats" /\ job'[t] = job[t]
        /\ \A u \in Tasks \ {t} : pc'[u] = pc[u] /\ job'[u] = job[u]
    BY <1>11, <1>t, GotoFrame DEF StoreKeeps, StoreFails
  <2> QED BY <1>11, <1>t, <2>1, HolderStep DEF StoreKeeps, StoreFails, Inside
<1>12. ASSUME Restart PROVE LInv'
  BY <1>12, <1>t
     DEF Restart, LInv, OnlyHolderInside, RecordLoaded, WritesNewestReading, Inside
<1>13. ASSUME UNCHANGED vars PROVE LInv'
  BY <1>13, <1>t
     DEF vars, LInv, OnlyHolderInside, RecordLoaded, WritesNewestReading, Inside, recordVars
<1> QED
  BY <1>1, <1>2, <1>3, <1>4, <1>5, <1>6, <1>7, <1>8, <1>9, <1>10, <1>11, <1>12, <1>13
     DEF Next, Proceed

\* The invariant of the lock holds at first.
LEMMA LockInit == Init => LInv
<1>1. Init => TypeOK
  BY FirstTry, IdleJobTyped DEF Init, TypeOK, Nothing, Menu, PCs
<1> QED BY <1>1
  DEF Init, LInv, OnlyHolderInside, RecordLoaded, WritesNewestReading, Inside

\* Whatever is refused, lost, cancelled or restarted, a sync works from the
\* newest reading of the scopes: the lock covers the reading and the writing.
THEOREM ReadingNeverStale == Spec => []WritesNewestReading
<1>1. LInv => WritesNewestReading BY DEF LInv
<1> QED BY <1>1, LockInit, LockStep, PTL DEF Spec

-----------------------------------------------------------------------------
(* When answers arrive and no sync is cancelled.  A process may still end  *)
(* at any point, if nothing of its record survives and known_scope_chats   *)
(* names every chat; a store may fail, and Telegram refuse, at any point.  *)

Reliable ==
    /\ "lost" \notin Faults
    /\ "cancel" \notin Faults
    /\ "restart" \in Faults => ~Persistent /\ KnownChats = Chats

Working(t) == pc[t] \in {"default", "chats", "recording"}

WritesAreWanted ==
    \A t \in Tasks : Working(t) => job[t].writes \subseteq Holding(job[t].desired)

RecordingWhatIsHeld ==
    \A t \in Tasks :
        pc[t] = "recording" => telegram[job[t].chat] = job[t].desired[job[t].chat]

SeedReadBeforeConsumed ==
    \A t \in Tasks : pc[t] = "default" /\ seedPending => KnownChats \subseteq seed

\* Of the chats a sync is to touch, those it is done with have their menu.
DoneChatsConverged ==
    \A t \in Tasks :
        Working(t) =>
            \A c \in job[t].listed :
                \/ c \in job[t].writes \cup job[t].deletes \cup job[t].failed
                \/ telegram[c] = job[t].desired[c]

RInv ==
    /\ LInv
    /\ StaysInLine
    /\ WritesAreWanted
    /\ RecordingWhatIsHeld
    /\ SeedReadBeforeConsumed
    /\ DoneChatsConverged

\* What StaysInLine asks of one chat.
InLine(c) ==
    /\ Record[c] # NoMenu => telegram[c] = Record[c]
    /\ telegram[c] # NoMenu =>
          Record[c] # NoMenu \/ c \in seed \/ (seedPending /\ c \in KnownChats)

\* While the holder of the lock records nothing, every chat is in line.
LEMMA AllInLine ==
    ASSUME RInv, NEW t \in Tasks, Inside(t), pc[t] # "recording"
    PROVE  \A c \in Chats : InLine(c)
<1>1. \A c \in Chats : ~Recording(c)
  BY DEF RInv, LInv, OnlyHolderInside, Inside, Recording
<1> QED BY <1>1 DEF RInv, StaysInLine, InLine

\* A step of the holder keeps the invariant when it keeps the chats in line and
\* its own job right: no other task is at work.
LEMMA OnlyHolderMatters ==
    ASSUME RInv, LInv', NEW t \in Tasks, Inside(t),
           \A u \in Tasks \ {t} : pc'[u] = pc[u] /\ job'[u] = job[u],
           \A c \in Chats : (pc'[t] = "recording" /\ job'[t].chat = c) \/ InLine(c)',
           Working(t)' => job'[t].writes \subseteq Holding(job'[t].desired),
           pc'[t] = "recording" => telegram'[job'[t].chat] = job'[t].desired[job'[t].chat],
           pc'[t] = "default" /\ seedPending' => KnownChats \subseteq seed',
           Working(t)' =>
             \A c \in job'[t].listed :
                \/ c \in job'[t].writes \cup job'[t].deletes \cup job'[t].failed
                \/ telegram'[c] = job'[t].desired[c]
    PROVE  RInv'
<1>1. \A u \in Tasks \ {t} : ~Inside(u) /\ ~Working(u)' /\ pc'[u] # "recording"
                             /\ pc'[u] # "default"
  BY DEF RInv, LInv, OnlyHolderInside, Inside, Working
<1>2. StaysInLine' BY DEF StaysInLine, InLine, Recording
<1>3. WritesAreWanted' BY <1>1 DEF WritesAreWanted, Holding
<1>4. RecordingWhatIsHeld' BY <1>1 DEF RecordingWhatIsHeld
<1>5. SeedReadBeforeConsumed' BY <1>1 DEF SeedReadBeforeConsumed
<1>6. DoneChatsConverged' BY <1>1 DEF DoneChatsConverged
<1> QED BY <1>2, <1>3, <1>4, <1>5, <1>6 DEF RInv

\* Until its first API call, and when it ends, a sync touches nothing.
LEMMA QuietStep ==
    ASSUME RInv, LInv', NEW t \in Tasks,
           \A u \in Tasks \ {t} : pc'[u] = pc[u] /\ job'[u] = job[u],
           pc[t] # "recording", ~Working(t)', pc'[t] # "recording", pc'[t] # "default",
           UNCHANGED <<telegram, recordVars, seedVars>>
    PROVE  RInv'
<1>1. StaysInLine'
  BY DEF RInv, StaysInLine, Recording, Record, recordVars, seedVars
<1> QED BY <1>1
     DEF RInv, WritesAreWanted, RecordingWhatIsHeld, SeedReadBeforeConsumed,
         DoneChatsConverged, Working, Holding, recordVars, seedVars

\* What Resolve plans: a full sync clears every chat it has reason to.
LEMMA PlannedCovers ==
    ASSUME NEW j \in Job, NEW desired \in [Chats -> Menu], NEW cleared \in SUBSET Chats
    PROVE  LET k == Planned(j, desired, cleared) IN
           /\ k.desired = desired
           /\ k.writes \subseteq Holding(desired)
           /\ \A c \in k.listed :
                 \/ c \in k.writes \cup k.deletes
                 \/ j.full /\ c \notin cleared /\ desired[c] = NoMenu
BY DEF Planned, Job, Holding

\* Reading the scopes, and the source of the seed, keeps the chats in line and
\* plans for every chat that holds a menu.
LEMMA ResolveReliable ==
    ASSUME RInv, LInv', NEW t \in Tasks, Resolve(t)
    PROVE  RInv'
<1>t. TypeOK /\ job[t] \in Job /\ loaded /\ Inside(t)
  BY DEF RInv, LInv, TypeOK, RecordLoaded, Resolve, Inside
<1>1. PICK desired \in [Chats -> Menu] :
        /\ newest' = desired
        /\ Goto(t, IF job[t].full THEN "default" ELSE "chats",
                Planned(job[t], desired, Holding(published) \cup seed'))
  BY DEF Resolve
<1> DEFINE cleared == Holding(published) \cup seed'
           plan == Planned(job[t], desired, cleared)
<1>2. /\ pc'[t] = (IF job[t].full THEN "default" ELSE "chats") /\ job'[t] = plan
      /\ \A u \in Tasks \ {t} : pc'[u] = pc[u] /\ job'[u] = job[u]
  BY <1>1, <1>t, GotoFrame
<1>3. \A c \in Chats : InLine(c) BY <1>t, AllInLine DEF Resolve
<1>4. /\ telegram' = telegram /\ Record' = Record /\ Record = published
      /\ seedPending' = seedPending /\ seed \subseteq seed'
      /\ seed' \subseteq Chats
      /\ job[t].full /\ seedPending => KnownChats \subseteq seed'
  BY <1>t, MenusAssumption DEF Resolve, Record, recordVars, TypeOK
<1>5. \A c \in Chats : InLine(c)' BY <1>3, <1>4 DEF InLine
<1>6. cleared \in SUBSET Chats BY <1>4 DEF Holding
<1>7. /\ plan.desired = desired /\ plan.writes \subseteq Holding(desired)
      /\ \A c \in plan.listed :
            \/ c \in plan.writes \cup plan.deletes
            \/ job[t].full /\ c \notin cleared /\ desired[c] = NoMenu
  BY <1>t, <1>6, PlannedCovers
<1>8. plan.listed \subseteq Chats BY <1>t, <1>6, PlannedTyped DEF Job
<1>9. ASSUME NEW c \in plan.listed
      PROVE  c \in plan.writes \cup plan.deletes \/ telegram'[c] = desired[c]
  <2>1. CASE c \in plan.writes \cup plan.deletes BY <2>1
  <2>2. CASE job[t].full /\ c \notin cleared /\ desired[c] = NoMenu
    <3>1. c \in Chats /\ published[c] = NoMenu /\ c \notin seed'
      BY <2>2, <1>8 DEF Holding
    <3>2. telegram[c] = NoMenu BY <3>1, <2>2, <1>3, <1>4 DEF InLine
    <3> QED BY <3>2, <2>2, <1>4
  <2> QED BY <2>1, <2>2, <1>7
<1>10. pc'[t] # "recording" BY <1>2
<1>11. pc'[t] = "default" /\ seedPending' => KnownChats \subseteq seed' BY <1>2, <1>4
<1>12. job'[t].writes \subseteq Holding(job'[t].desired) BY <1>2, <1>7
<1>13. \A c \in job'[t].listed :
          \/ c \in job'[t].writes \cup job'[t].deletes \cup job'[t].failed
          \/ telegram'[c] = job'[t].desired[c]
  BY <1>2, <1>7, <1>9
<1> QED BY <1>t, <1>2, <1>5, <1>10, <1>11, <1>12, <1>13, OnlyHolderMatters

\* The source of the seed is consumed once its chats are in the seed.
LEMMA DefaultReliable ==
    ASSUME RInv, LInv', NEW t \in Tasks, DefaultWritten(t)
    PROVE  RInv'
<1>t. TypeOK /\ Inside(t) /\ Working(t)
  BY DEF RInv, LInv, DefaultWritten, Inside, Working
<1>1. /\ pc'[t] = "chats" /\ job'[t] = job[t]
      /\ \A u \in Tasks \ {t} : pc'[u] = pc[u] /\ job'[u] = job[u]
  BY <1>t, GotoFrame DEF DefaultWritten
<1>2. \A c \in Chats : InLine(c) BY <1>t, AllInLine DEF DefaultWritten
<1>3. seedPending => KnownChats \subseteq seed
  BY DEF RInv, SeedReadBeforeConsumed, DefaultWritten
<1>4. \A c \in Chats : InLine(c)'
  BY <1>2, <1>3 DEF InLine, Record, DefaultWritten, recordVars
<1>5. job'[t].writes \subseteq Holding(job'[t].desired)
  BY <1>t, <1>1 DEF RInv, WritesAreWanted
<1>6. \A c \in job'[t].listed :
         \/ c \in job'[t].writes \cup job'[t].deletes \cup job'[t].failed
         \/ telegram'[c] = job'[t].desired[c]
  BY <1>t, <1>1 DEF RInv, DoneChatsConverged, DefaultWritten
<1> QED BY <1>t, <1>1, <1>4, <1>5, <1>6, OnlyHolderMatters

\* A chat is skipped only if it holds the menu that the scopes want there.
LEMMA SkipReliable ==
    ASSUME RInv, LInv', NEW t \in Tasks, NEW c \in Chats, Skip(t, c)
    PROVE  RInv'
<1>t. TypeOK /\ job[t] \in Job /\ Inside(t) /\ Working(t) /\ loaded
  BY DEF RInv, LInv, TypeOK, RecordLoaded, Skip, Inside, Working
<1> DEFINE j == job[t]  k == Without(j, c)
<1>1. /\ pc'[t] = "chats" /\ job'[t] = k
      /\ \A u \in Tasks \ {t} : pc'[u] = pc[u] /\ job'[u] = job[u]
  BY <1>t, GotoFrame DEF Skip
<1>2. /\ k.desired = j.desired /\ k.listed = j.listed /\ k.failed = j.failed
      /\ k.writes = j.writes \ {c} /\ k.deletes = j.deletes \ {c}
  BY <1>t, WithoutKeeps
<1>3. \A d \in Chats : InLine(d) BY <1>t, AllInLine DEF Skip
<1>4. c \in j.writes /\ published[c] = j.desired[c] BY DEF Skip, Current, ToDo
<1>5. j.desired[c] # NoMenu BY <1>t, <1>4 DEF RInv, WritesAreWanted, Holding
<1>6. telegram[c] = j.desired[c] BY <1>t, <1>3, <1>4, <1>5 DEF InLine, Record
<1>7. \A d \in Chats : InLine(d)'
  BY <1>t, <1>3, <1>4, <1>5 DEF InLine, Record, Skip, recordVars
<1>8. job'[t].writes \subseteq Holding(job'[t].desired)
  BY <1>t, <1>1, <1>2 DEF RInv, WritesAreWanted
<1>9. \A d \in job'[t].listed :
         \/ d \in job'[t].writes \cup job'[t].deletes \cup job'[t].failed
         \/ telegram'[d] = job'[t].desired[d]
  BY <1>t, <1>1, <1>2, <1>6 DEF RInv, DoneChatsConverged, Skip
<1> QED BY <1>t, <1>1, <1>7, <1>8, <1>9, OnlyHolderMatters

\* A chat that got its menu is being recorded; the others are as they were.
LEMMA AcceptedReliable ==
    ASSUME RInv, LInv', NEW t \in Tasks, NEW c \in Chats, Accepted(t, c)
    PROVE  RInv'
<1>t. TypeOK /\ job[t] \in Job /\ Inside(t) /\ Working(t) /\ pc[t] = "chats"
  BY DEF RInv, LInv, TypeOK, Accepted, Calling, Inside, Working
<1> DEFINE j == job[t]  k == [Without(j, c) EXCEPT !.chat = c]
<1>1. /\ pc'[t] = "recording" /\ job'[t] = k
      /\ \A u \in Tasks \ {t} : pc'[u] = pc[u] /\ job'[u] = job[u]
  BY <1>t, GotoFrame DEF Accepted
<1>2. /\ k.desired = j.desired /\ k.listed = j.listed /\ k.failed = j.failed
      /\ k.writes = j.writes \ {c} /\ k.deletes = j.deletes \ {c} /\ k.chat = c
  BY <1>t, WithoutKeeps, WithoutTyped DEF Job
<1>3. \A d \in Chats : InLine(d) BY <1>t, AllInLine
<1>4. telegram'[c] = j.desired[c] /\ \A d \in Chats \ {c} : telegram'[d] = telegram[d]
  BY <1>t DEF Accepted, TypeOK
<1>5. \A d \in Chats \ {c} : InLine(d)'
  BY <1>3, <1>4 DEF InLine, Record, Accepted, recordVars, seedVars
<1>6. job'[t].writes \subseteq Holding(job'[t].desired)
  BY <1>t, <1>1, <1>2 DEF RInv, WritesAreWanted
<1>7. j.listed \subseteq Chats BY <1>t DEF Job
<1>8. \A d \in job'[t].listed :
         \/ d \in job'[t].writes \cup job'[t].deletes \cup job'[t].failed
         \/ telegram'[d] = job'[t].desired[d]
  BY <1>t, <1>1, <1>2, <1>4, <1>7 DEF RInv, DoneChatsConverged
<1>9. \A d \in Chats : (pc'[t] = "recording" /\ job'[t].chat = d) \/ InLine(d)'
  BY <1>1, <1>2, <1>5
<1>10. telegram'[job'[t].chat] = job'[t].desired[job'[t].chat] BY <1>1, <1>2, <1>4
<1> HIDE DEF k
<1> QED BY <1>t, <1>1, <1>6, <1>8, <1>9, <1>10, OnlyHolderMatters

\* A call that failed, and did nothing, leaves its chat as it was.
LEMMA RefusedReliable ==
    ASSUME RInv, LInv', Reliable, NEW t \in Tasks, NEW c \in Chats, Refused(t, c)
    PROVE  RInv'
<1>t. TypeOK /\ job[t] \in Job /\ Inside(t) /\ Working(t) /\ pc[t] = "chats"
  BY DEF RInv, LInv, TypeOK, Refused, Calling, Inside, Working
<1> DEFINE j == job[t]  k == [Without(j, c) EXCEPT !.failed = @ \cup {c}]
<1>1. /\ pc'[t] = "chats" /\ job'[t] = k
      /\ \A u \in Tasks \ {t} : pc'[u] = pc[u] /\ job'[u] = job[u]
  BY <1>t, GotoFrame DEF Refused
<1>2. /\ k.desired = j.desired /\ k.listed = j.listed /\ k.failed = j.failed \cup {c}
      /\ k.writes = j.writes \ {c} /\ k.deletes = j.deletes \ {c}
  BY <1>t, WithoutKeeps, WithoutTyped DEF Job
<1>3. telegram' = telegram BY DEF Refused, Reliable
<1>4. \A d \in Chats : InLine(d)'
  BY <1>t, <1>3, AllInLine DEF InLine, Record, Refused, recordVars, seedVars
<1>5. job'[t].writes \subseteq Holding(job'[t].desired)
  BY <1>t, <1>1, <1>2 DEF RInv, WritesAreWanted
<1>6. \A d \in job'[t].listed :
         \/ d \in job'[t].writes \cup job'[t].deletes \cup job'[t].failed
         \/ telegram'[d] = job'[t].desired[d]
  BY <1>t, <1>1, <1>2, <1>3 DEF RInv, DoneChatsConverged
<1> QED BY <1>t, <1>1, <1>4, <1>5, <1>6, OnlyHolderMatters

\* Whether the store keeps the record or fails, the chat is in line afterwards.
LEMMA RecordedReliable ==
    ASSUME RInv, LInv', NEW t \in Tasks, StoreKeeps(t) \/ StoreFails(t)
    PROVE  RInv'
<1>t. TypeOK /\ job[t] \in Job /\ Inside(t) /\ Working(t) /\ loaded /\ pc[t] = "recording"
  BY DEF RInv, LInv, TypeOK, RecordLoaded, StoreKeeps, StoreFails, Inside, Working
<1> DEFINE c == job[t].chat  menu == job[t].desired[c]
<1>1. /\ pc'[t] = "chats" /\ job'[t] = job[t]
      /\ \A u \in Tasks \ {t} : pc'[u] = pc[u] /\ job'[u] = job[u]
  BY <1>t, GotoFrame DEF StoreKeeps, StoreFails
<1>2. c \in Chats /\ telegram[c] = menu
  BY <1>t DEF RInv, RecordingWhatIsHeld, Job
<1>3. \A d \in Chats \ {c} : InLine(d)
  <2>1. \A d \in Chats \ {c} : ~Recording(d)
    BY <1>t DEF RInv, LInv, OnlyHolderInside, Inside, Recording
  <2> QED BY <2>1 DEF RInv, StaysInLine, InLine
<1>4. /\ telegram' = telegram /\ loaded' = loaded /\ seedPending' = seedPending
      /\ \A d \in Chats \ {c} : published'[d] = published[d] /\ (d \in seed' <=> d \in seed)
      /\ \/ published'[c] = menu
         \/ published'[c] = NoMenu /\ c \in seed'
  BY <1>t, <1>2 DEF StoreKeeps, StoreFails, TypeOK
<1>5. Record = published /\ Record' = published' BY <1>t, <1>4 DEF Record
<1>6. \A d \in Chats : InLine(d)' BY <1>2, <1>3, <1>4, <1>5 DEF InLine
<1>7. job'[t].writes \subseteq Holding(job'[t].desired)
  BY <1>t, <1>1 DEF RInv, WritesAreWanted
<1>8. \A d \in job'[t].listed :
         \/ d \in job'[t].writes \cup job'[t].deletes \cup job'[t].failed
         \/ telegram'[d] = job'[t].desired[d]
  BY <1>t, <1>1, <1>4 DEF RInv, DoneChatsConverged
<1> QED BY <1>t, <1>1, <1>6, <1>7, <1>8, OnlyHolderMatters

\* Every step keeps the invariant.
LEMMA ReliableStep == Reliable /\ RInv /\ [Next]_vars => RInv'
<1> SUFFICES ASSUME Reliable, RInv, [Next]_vars PROVE RInv' OBVIOUS
<1>t. TypeOK /\ LInv /\ LInv' BY LockStep DEF RInv, LInv
<1>1. ASSUME NEW t \in Tasks, Call(t) PROVE RInv'
  <2>1. pc'[t] = "waiting" /\ \A u \in Tasks \ {t} : pc'[u] = pc[u] /\ job'[u] = job[u]
    BY <1>1, <1>t, GotoFrame DEF Call
  <2> QED BY <1>1, <1>t, <2>1, QuietStep DEF Call, Working
<1>2. ASSUME NEW t \in Tasks, Acquire(t) PROVE RInv'
  <2>1. pc'[t] \in {"resolving", "loading"}
        /\ \A u \in Tasks \ {t} : pc'[u] = pc[u] /\ job'[u] = job[u]
    BY <1>2, <1>t, GotoFrame DEF Acquire
  <2> QED BY <1>2, <1>t, <2>1, QuietStep DEF Acquire, Working
<1>3. ASSUME NEW t \in Tasks, Load(t) PROVE RInv'
  <2>1. pc'[t] = "resolving" /\ \A u \in Tasks \ {t} : pc'[u] = pc[u] /\ job'[u] = job[u]
    BY <1>3, <1>t, GotoFrame DEF Load
  <2>2. Inside(t) /\ ~loaded BY <1>3, <1>t DEF Load, LInv, RecordLoaded, Inside
  <2>3. \A c \in Chats : InLine(c) BY <1>3, <2>2, AllInLine DEF Load
  <2>4. Record' = Record BY <1>3, <2>2 DEF Load, Record
  <2>5. \A c \in Chats : InLine(c)' BY <1>3, <2>3, <2>4 DEF Load, InLine, seedVars
  <2> QED BY <1>t, <2>1, <2>2, <2>5, OnlyHolderMatters DEF Working
<1>4. ASSUME NEW t \in Tasks, Abort(t) \/ Finish(t) \/ Cancel(t) PROVE RInv'
  <2>1. /\ Leave(t) /\ UNCHANGED <<telegram, recordVars, seedVars, newest>>
        /\ pc[t] # "recording"
    BY <1>4 DEF Abort, Finish, Cancel, Reliable
  <2>2. pc'[t] = "idle" /\ \A u \in Tasks \ {t} : pc'[u] = pc[u] /\ job'[u] = job[u]
    BY <2>1, <1>t, LeaveFrame
  <2> QED BY <1>t, <2>1, <2>2, QuietStep DEF Working
<1>5. ASSUME NEW t \in Tasks, Flooded(t) PROVE RInv'
  BY <1>5, <1>t
     DEF Flooded, RInv, StaysInLine, Recording, Record, WritesAreWanted, Working, Holding,
         RecordingWhatIsHeld, SeedReadBeforeConsumed, DoneChatsConverged, recordVars, seedVars
<1>6. ASSUME Restart PROVE RInv'
  <2>1. ~Persistent /\ KnownChats = Chats BY <1>6 DEF Restart, Reliable
  <2>2. \A c \in Chats : InLine(c)'
    BY <1>6, <2>1 DEF Restart, InLine, Record, Nothing
  <2>3. StaysInLine' BY <2>2 DEF StaysInLine, InLine
  <2>4. \A t \in Tasks : pc'[t] = "idle" BY <1>6 DEF Restart
  <2>5. WritesAreWanted' /\ DoneChatsConverged'
    BY <2>4 DEF WritesAreWanted, DoneChatsConverged, Working
  <2>6. RecordingWhatIsHeld' /\ SeedReadBeforeConsumed'
    BY <2>4 DEF RecordingWhatIsHeld, SeedReadBeforeConsumed
  <2> QED BY <1>t, <2>3, <2>5, <2>6 DEF RInv
<1>7. ASSUME UNCHANGED vars PROVE RInv'
  BY <1>7, <1>t
     DEF vars, RInv, StaysInLine, Recording, Record, WritesAreWanted, Working, Holding,
         RecordingWhatIsHeld, SeedReadBeforeConsumed, DoneChatsConverged, recordVars, seedVars
<1> QED
  BY <1>1, <1>2, <1>3, <1>4, <1>5, <1>6, <1>7, <1>t, ResolveReliable, DefaultReliable,
     SkipReliable, AcceptedReliable, RefusedReliable, RecordedReliable
     DEF Next, Proceed

\* The invariant holds at first.
LEMMA ReliableInit == Init => RInv
BY LockInit
   DEF Init, RInv, StaysInLine, Record, Nothing, WritesAreWanted, Working,
       RecordingWhatIsHeld, SeedReadBeforeConsumed, DoneChatsConverged

\* "A chat whose write fails -- to Telegram or to the store -- stays in line for
\* the next sync": true as long as a call that raises has done nothing.
THEOREM RecordIsTrusted == Reliable /\ Spec => []StaysInLine
<1> SUFFICES ASSUME Reliable PROVE Spec => []StaysInLine OBVIOUS
<1>1. RInv /\ [Next]_vars => RInv' BY ReliableStep
<1>2. RInv => StaysInLine BY DEF RInv
<1> QED BY <1>1, <1>2, ReliableInit, PTL DEF Spec

\* And then a sync that gets to its end leaves every chat it was to touch with
\* the menu the scopes want there, except those whose API call failed.
THEOREM SyncConverges == Reliable /\ Spec => []FinishedSyncConverged
<1> SUFFICES ASSUME Reliable PROVE Spec => []FinishedSyncConverged OBVIOUS
<1>1. RInv /\ [Next]_vars => RInv' BY ReliableStep
<1>2. RInv => FinishedSyncConverged
  BY DEF RInv, FinishedSyncConverged, DoneChatsConverged, Working, ToDo
<1> QED BY <1>1, <1>2, ReliableInit, PTL DEF Spec
=============================================================================
