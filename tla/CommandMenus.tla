----------------------------- MODULE CommandMenus -----------------------------
(***************************************************************************)
(* CommandMenus of vitrine (commands.py): it reconciles the command menu   *)
(* Telegram holds for each chat with the menu the app's scopes want there. *)
(* A sync reads the scopes, then writes or deletes one chat's menu after   *)
(* the other; what each chat was given is recorded in a MenuStore and      *)
(* mirrored in memory, and a chat whose record can't be trusted goes into  *)
(* the seed, the chats to clear unless some scope wants them.              *)
(*                                                                         *)
(* A menu is a model value: fingerprint is taken to tell menus apart.  A   *)
(* write and a delete go the same way, a delete being a write of NoMenu.   *)
(* Telegram's menus, the store and the scopes are outside the process.     *)
(***************************************************************************)
EXTENDS Naturals

CONSTANTS
    Chats,
    Menus,        \* the menus a chat can be given
    NoMenu,       \* no menu of its own: the chat shows the default one
    Tasks,        \* the callers of sync: the startup task, handlers, workers
    NoTask,
    KnownChats,   \* known_scope_chats: what a previous process may have written
    Persistent,   \* does the store outlive the process
    MaxAttempts,  \* _MAX_ATTEMPTS, per API call under flood control
    Faults        \* what may go wrong, beside an API call that is refused

ASSUME MenusAssumption ==
    /\ Chats # {}
    /\ NoMenu \notin Menus
    /\ NoTask \notin Tasks
    /\ KnownChats \subseteq Chats
    /\ Persistent \in BOOLEAN
    /\ MaxAttempts \in Nat \ {0}
    \* "store": a store call fails; "lost": Telegram does what it was asked and
    \* the answer is lost; "cancel": a sync's task is cancelled; "restart": the
    \* process ends, or crashes, and a new one starts.
    /\ Faults \subseteq {"store", "lost", "cancel", "restart"}

VARIABLES
    telegram,     \* chat -> the menu Telegram holds for it
    store,        \* chat -> the menu the store has for it
    published,    \* chat -> the menu the record in memory names
    loaded,       \* has the record been loaded from the store
    seedPending,  \* is the source of the seed still to be read
    seed,         \* the chats to clear unless a scope wants them
    lock,         \* the task that holds the lock, or NoTask
    pc,           \* task -> where its sync is suspended
    job,          \* task -> the sync it runs
    tries,        \* task -> the attempt its API call is at
    newest        \* history: what the scopes said when last read

recordVars == <<store, published, loaded>>
seedVars == <<seedPending, seed>>
vars == <<telegram, recordVars, seedVars, lock, pc, job, tries, newest>>

-----------------------------------------------------------------------------
Menu == Menus \cup {NoMenu}
Nothing == [c \in Chats |-> NoMenu]
Holding(menus) == {c \in Chats : menus[c] # NoMenu}

Job == [full: BOOLEAN, listed: SUBSET Chats, desired: [Chats -> Menu],
        writes: SUBSET Chats, deletes: SUBSET Chats, failed: SUBSET Chats,
        chat: Chats]

NewJob(full, listed) ==
    [full |-> full, listed |-> listed, desired |-> Nothing, writes |-> {},
     deletes |-> {}, failed |-> {}, chat |-> CHOOSE c \in Chats : TRUE]
IdleJob == NewJob(TRUE, Chats)

PCs == {"idle", "waiting", "loading", "resolving", "default", "chats", "recording"}

Init ==
    /\ telegram = Nothing
    /\ store = Nothing
    /\ published = Nothing
    /\ loaded = FALSE
    /\ seedPending = TRUE
    /\ seed = {}
    /\ lock = NoTask
    /\ pc = [t \in Tasks |-> "idle"]
    /\ job = [t \in Tasks |-> IdleJob]
    /\ tries = [t \in Tasks |-> 1]
    /\ newest = Nothing

Goto(t, label, j) ==
    /\ pc' = [pc EXCEPT ![t] = label]
    /\ job' = [job EXCEPT ![t] = j]

\* Mutant: only a sync that gets to its end releases the lock.
LeaveLocked(t) ==
    /\ Goto(t, "idle", IdleJob)
    /\ lock' = IF pc[t] = "chats" THEN NoTask ELSE lock
    /\ tries' = [tries EXCEPT ![t] = 1]

\* The sync is over, however it ended: `async with` releases the lock.
Leave(t) ==
    /\ Goto(t, "idle", IdleJob)
    /\ lock' = IF lock = t THEN NoTask ELSE lock
    /\ tries' = [tries EXCEPT ![t] = 1]

-----------------------------------------------------------------------------
(* A sync up to its first API call.                                        *)

\* sync is called: with chats, a targeted sync; without, a full one.
Call(t) ==
    /\ pc[t] = "idle"
    /\ \/ Goto(t, "waiting", NewJob(TRUE, Chats))
       \/ \E listed \in SUBSET Chats \ {{}} : Goto(t, "waiting", NewJob(FALSE, listed))
    /\ UNCHANGED <<telegram, recordVars, seedVars, lock, tries, newest>>

\* Mutant: no lock.
AcquireUnlocked(t) ==
    /\ pc[t] = "waiting"
    /\ lock' = t
    /\ Goto(t, IF loaded THEN "resolving" ELSE "loading", job[t])
    /\ UNCHANGED <<telegram, recordVars, seedVars, tries, newest>>

Acquire(t) ==
    /\ pc[t] = "waiting"
    /\ lock = NoTask
    /\ lock' = t
    /\ Goto(t, IF loaded THEN "resolving" ELSE "loading", job[t])
    /\ UNCHANGED <<telegram, recordVars, seedVars, tries, newest>>

Load(t) ==
    /\ pc[t] = "loading"
    /\ published' = store
    /\ loaded' = TRUE
    /\ Goto(t, "resolving", job[t])
    /\ UNCHANGED <<telegram, store, seedVars, lock, tries, newest>>

\* What is left to do once the scopes want desired: the record and the seed
\* tell a full sync what to clear, a targeted one clears what it is told to.
Planned(j, desired, cleared) ==
    LET wanted == Holding(desired) IN
    IF j.full
    THEN [j EXCEPT !.desired = desired, !.writes = wanted, !.deletes = cleared \ wanted]
    ELSE [j EXCEPT !.desired = desired, !.writes = wanted \cap j.listed,
                   !.deletes = j.listed \ wanted]

\* Mutant: the seed is read and then forgotten about.
ResolveUnseeded(t) ==
    /\ pc[t] = "resolving"
    /\ \E desired \in [Chats -> Menu] :
          /\ newest' = desired
          /\ Goto(t, IF job[t].full THEN "default" ELSE "chats",
                  Planned(job[t], desired, Holding(published)))
    /\ UNCHANGED <<telegram, recordVars, seedVars, lock, tries>>

\* The scopes are read, and by a full sync the source of the seed.
Resolve(t) ==
    /\ pc[t] = "resolving"
    /\ seed' = IF job[t].full /\ seedPending THEN seed \cup KnownChats ELSE seed
    /\ \E desired \in [Chats -> Menu] :
          /\ newest' = desired
          /\ Goto(t, IF job[t].full THEN "default" ELSE "chats",
                  Planned(job[t], desired, Holding(published) \cup seed'))
    /\ UNCHANGED <<telegram, recordVars, seedPending, lock, tries>>

\* The default menu is written, and the source of the seed is consumed.
DefaultWritten(t) ==
    /\ pc[t] = "default"
    /\ seedPending' = FALSE
    /\ Goto(t, "chats", job[t])
    /\ tries' = [tries EXCEPT ![t] = 1]
    /\ UNCHANGED <<telegram, recordVars, seed, lock, newest>>

\* An exception leaves sync: the store can't be loaded, the scopes or the source
\* of the seed can't be read, the default menu can't be written.
Abort(t) ==
    /\ \/ pc[t] \in {"resolving", "default"}
       \/ pc[t] = "loading" /\ "store" \in Faults
    /\ Leave(t)
    /\ UNCHANGED <<telegram, recordVars, seedVars, newest>>

-----------------------------------------------------------------------------
(* The loops over the chats to write and then over those to clear.  Both   *)
(* are sorted by chat id; here the next chat is any of them.               *)

Current(j, c) == j.writes # {} /\ published[c] = j.desired[c]

ToDo(j) == IF j.writes # {} THEN j.writes ELSE j.deletes

Without(j, c) == [j EXCEPT !.writes = @ \ {c}, !.deletes = @ \ {c}]

\* The record says that the chat holds its menu already.
Skip(t, c) ==
    /\ pc[t] = "chats"
    /\ c \in ToDo(job[t])
    /\ Current(job[t], c)
    /\ seed' = seed \ {c}
    /\ Goto(t, "chats", Without(job[t], c))
    /\ UNCHANGED <<telegram, recordVars, seedPending, lock, tries, newest>>

\* An API call for this chat is due.
Calling(t, c) == pc[t] = "chats" /\ c \in ToDo(job[t]) /\ ~Current(job[t], c)

\* Mutant: an attempt more than _MAX_ATTEMPTS.
FloodedOnceMore(t) ==
    /\ pc[t] = "default" \/ \E c \in Chats : Calling(t, c)
    /\ tries[t] <= MaxAttempts
    /\ tries' = [tries EXCEPT ![t] = @ + 1]
    /\ UNCHANGED <<telegram, recordVars, seedVars, lock, pc, job, newest>>

\* _with_flood_control: Telegram answers RetryAfter, and the call waits.
Flooded(t) ==
    /\ pc[t] = "default" \/ \E c \in Chats : Calling(t, c)
    /\ tries[t] < MaxAttempts
    /\ tries' = [tries EXCEPT ![t] = @ + 1]
    /\ UNCHANGED <<telegram, recordVars, seedVars, lock, pc, job, newest>>

Accepted(t, c) ==
    /\ Calling(t, c)
    /\ telegram' = [telegram EXCEPT ![c] = job[t].desired[c]]
    /\ Goto(t, "recording", [Without(job[t], c) EXCEPT !.chat = c])
    /\ tries' = [tries EXCEPT ![t] = 1]
    /\ UNCHANGED <<recordVars, seedVars, lock, newest>>

\* The call fails, for the last time: the sync goes on to the next chat.
Refused(t, c) ==
    /\ Calling(t, c)
    /\ \/ UNCHANGED telegram
       \/ /\ "lost" \in Faults
          /\ telegram' = [telegram EXCEPT ![c] = job[t].desired[c]]
    /\ Goto(t, "chats", [Without(job[t], c) EXCEPT !.failed = @ \cup {c}])
    /\ tries' = [tries EXCEPT ![t] = 1]
    /\ UNCHANGED <<recordVars, seedVars, lock, newest>>

\* store.set or store.discard returns.
StoreKeeps(t) ==
    LET c == job[t].chat  menu == job[t].desired[c] IN
    /\ pc[t] = "recording"
    /\ store' = [store EXCEPT ![c] = menu]
    /\ published' = [published EXCEPT ![c] = menu]
    /\ seed' = seed \ {c}
    /\ Goto(t, "chats", job[t])
    /\ UNCHANGED <<telegram, loaded, seedPending, lock, tries, newest>>

\* Mutant: the record in memory is left as it was.
StoreFailsUnnoticed(t) ==
    /\ pc[t] = "recording"
    /\ "store" \in Faults
    /\ Goto(t, "chats", job[t])
    /\ UNCHANGED <<telegram, recordVars, seedVars, lock, tries, newest>>

\* It raises, having done its work or not: the chat is in no record now.
StoreFails(t) ==
    LET c == job[t].chat  menu == job[t].desired[c] IN
    /\ pc[t] = "recording"
    /\ "store" \in Faults
    /\ store' \in {store, [store EXCEPT ![c] = menu]}
    /\ published' = [published EXCEPT ![c] = NoMenu]
    /\ seed' = seed \cup {c}
    /\ Goto(t, "chats", job[t])
    /\ UNCHANGED <<telegram, loaded, seedPending, lock, tries, newest>>

Finish(t) ==
    /\ pc[t] = "chats"
    /\ ToDo(job[t]) = {}
    /\ Leave(t)
    /\ UNCHANGED <<telegram, recordVars, seedVars, newest>>

-----------------------------------------------------------------------------
(* What ends a sync from outside.                                          *)

\* CancelledError: Bot.stop cancels the startup sync, a worker's sync goes with
\* the worker, a handler may bound its sync with a timeout.
Cancel(t) ==
    /\ "cancel" \in Faults
    /\ pc[t] # "idle"
    /\ Leave(t)
    /\ UNCHANGED <<telegram, recordVars, seedVars, newest>>

Restart ==
    /\ "restart" \in Faults
    /\ store' = IF Persistent THEN store ELSE Nothing
    /\ published' = Nothing
    /\ loaded' = FALSE
    /\ seedPending' = TRUE
    /\ seed' = {}
    /\ lock' = NoTask
    /\ pc' = [t \in Tasks |-> "idle"]
    /\ job' = [t \in Tasks |-> IdleJob]
    /\ tries' = [t \in Tasks |-> 1]
    /\ UNCHANGED <<telegram, newest>>

Proceed(t) ==
    \/ Load(t)
    \/ Resolve(t)
    \/ DefaultWritten(t)
    \/ Abort(t)
    \/ Flooded(t)
    \/ \E c \in Chats : Skip(t, c) \/ Accepted(t, c) \/ Refused(t, c)
    \/ StoreKeeps(t)
    \/ StoreFails(t)
    \/ Finish(t)

Next ==
    \/ \E t \in Tasks : Call(t) \/ Acquire(t) \/ Proceed(t) \/ Cancel(t)
    \/ Restart

\* Every awaited call of the store, of the scopes and of Telegram returns, or
\* raises; asyncio.Lock wakes those who wait in the order they came.
Fairness == \A t \in Tasks : WF_vars(Proceed(t)) /\ SF_vars(Acquire(t))

Spec == Init /\ [][Next]_vars /\ Fairness

-----------------------------------------------------------------------------
(* Properties                                                              *)

\* Every variable has its type; an API call is attempted _MAX_ATTEMPTS times.
TypeOK ==
    /\ telegram \in [Chats -> Menu]
    /\ store \in [Chats -> Menu]
    /\ published \in [Chats -> Menu]
    /\ loaded \in BOOLEAN
    /\ seedPending \in BOOLEAN
    /\ seed \subseteq Chats
    /\ lock \in Tasks \cup {NoTask}
    /\ pc \in [Tasks -> PCs]
    /\ job \in [Tasks -> Job]
    /\ tries \in [Tasks -> 1 .. MaxAttempts]
    /\ newest \in [Chats -> Menu]

Record == IF loaded THEN published ELSE store

Recording(c) == \E t \in Tasks : pc[t] = "recording" /\ job[t].chat = c

\* A chat whose write fails, to Telegram or to the store, stays in line: except
\* while the outcome of its own write is being recorded, the record never names
\* a menu the chat does not hold (the next sync would skip it), and a chat that
\* holds a menu is in the record or among those to clear (the next full sync
\* would otherwise leave a demoted chat its menu).
StaysInLine ==
    \A c \in Chats :
        \/ Recording(c)
        \/ /\ Record[c] # NoMenu => telegram[c] = Record[c]
           /\ telegram[c] # NoMenu =>
                 \/ Record[c] # NoMenu
                 \/ c \in seed
                 \/ seedPending /\ c \in KnownChats

\* A sync that gets to its end leaves every chat it was to touch, all chats in
\* the case of a full sync, with the menu the scopes want there, except those
\* whose API call failed: skipped writes and chats it never looked at included.
FinishedSyncConverged ==
    \A t \in Tasks :
        pc[t] = "chats" /\ ToDo(job[t]) = {} =>
            \A c \in job[t].listed \ job[t].failed : telegram[c] = job[t].desired[c]

\* An older reading of the scopes is never written last: a sync only works from
\* the newest reading any sync has made (the lock covers the reading too).
WritesNewestReading ==
    \A t \in Tasks :
        pc[t] \in {"default", "chats", "recording"} => job[t].desired = newest

\* No sync waits for ever, for the lock or for a Telegram that keeps answering
\* RetryAfter, whatever fails in the syncs before it.
EverySyncEnds == \A t \in Tasks : (pc[t] # "idle" ~> pc[t] = "idle")
=============================================================================
