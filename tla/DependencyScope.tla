--------------------------- MODULE DependencyScope ---------------------------
(***************************************************************************)
(* The dependency scope of one update in vitrine (injection.py), and the   *)
(* principal resolved in it (auth.py: resolve).  The processing of the     *)
(* update and every invocation that joins hold it; the last to let go      *)
(* closes it, and the cleanups of its generator providers run.             *)
(*                                                                         *)
(* An invocation that calls a function has a stack of frames: the function *)
(* and, above it, the providers being resolved for it, each with the       *)
(* instances got so far for its parameters.  A frame that has all it needs *)
(* is being awaited.  Nothing else runs until a resolution has come to     *)
(* such a frame: the module that composes the steps sees to it (MayRun).   *)
(***************************************************************************)
EXTENDS Integers, Sequences, SequencesExt, FiniteSets

CONSTANTS
    Users,        \* the invocations, and Update, the processing itself
    Update,
    Names,        \* the providers,
    Generators,   \* those with a cleanup
    Principal,    \* the name of the principal, and of its resolver
    Functions,    \* what is called with dependencies: handlers and the like
    Deps          \* the parameters of each of them, in order

Callables == Names \cup Functions \cup {Principal}

ASSUME ScopeAssumption ==
    /\ Update \in Users
    /\ Generators \subseteq Names
    /\ DOMAIN Deps = Callables
    /\ \A f \in Callables : Deps[f] \in Seq(Names \cup {Principal})
    \* resolve_name looks for the principal first: no provider answers to its name
    /\ Names \cap Functions = {} /\ Principal \notin Names \cup Functions

VARIABLES
    holders,      \* who holds the scope (_holds counts them)
    closed,
    cache,        \* provider -> its instance, over those resolved
    principal,    \* whether the principal is known
    cleanups,     \* the instances whose cleanup is owed, oldest first
    made,         \* every instance so far: [name, by, from, phase]
    frames,       \* per user, the stack
    journal,      \* per user, what its resolution of the principal added
    undoing       \* per user, the instances of a failed one still to abort

scopeVars == <<holders, closed, cache, principal, cleanups, made, frames, journal, undoing>>

NoJournal == [names |-> {}, teardowns |-> <<>>]

ScopeInit ==
    /\ holders = {Update}
    /\ closed = FALSE
    /\ cache = <<>>
    /\ principal = FALSE
    /\ cleanups = <<>>
    /\ made = <<>>
    /\ frames = [u \in Users |-> <<>>]
    /\ journal = [u \in Users |-> NoJournal]
    /\ undoing = [u \in Users |-> <<>>]

Frame(fn) == [name |-> fn, got |-> <<>>]
Top(stack) == Last(stack)
Full(frame) == Len(frame.got) = Len(Deps[frame.name])
Hand(stack, id) ==
    Append(Front(stack), [Top(stack) EXCEPT !.got = Append(@, id)])

\* The principal is no instance: 0 stands for it among what a frame has got.
Known == 0

\* What the top frame needs next.
Wanted(stack) == Deps[Top(stack).name][Len(Top(stack).got) + 1]

\* Whether u is at an await, or resolves nothing; and whether nobody else but u is
\* between two awaits.
Awaits(u) == frames[u] # <<>> => Full(Top(frames[u]))
MayRun(u) == \A v \in Users \ {u} : Awaits(v)

\* Whether u is inside all_or_nothing, that is, resolving the principal.
Journaling(u) == \E k \in DOMAIN frames[u] : frames[u][k].name = Principal

\* Mutant: a joined scope is not held.
JoinUnheld(u) ==
    /\ ~closed /\ holders # {} /\ u \notin holders
    /\ UNCHANGED scopeVars

\* join_update_scope, for an update whose scope is open.
Join(u) ==
    /\ ~closed /\ u \notin holders
    /\ holders' = holders \cup {u}
    /\ UNCHANGED <<closed, cache, principal, cleanups, made, frames, journal, undoing>>

\* An invocation resolves what a function needs, and then calls it.
Call(u, fn) ==
    /\ frames[u] = <<>> /\ undoing[u] = <<>>
    /\ frames' = [frames EXCEPT ![u] = <<Frame(fn)>>]
    /\ UNCHANGED <<holders, closed, cache, principal, cleanups, made, journal, undoing>>

\* resolve_name: what is known, or cached, is taken.
Takes(u) ==
    /\ ~Awaits(u)
    /\ LET name == Wanted(frames[u])
       IN \/ /\ name = Principal /\ principal
             /\ frames' = [frames EXCEPT ![u] = Hand(@, Known)]
          \/ /\ name \in DOMAIN cache
             /\ frames' = [frames EXCEPT ![u] = Hand(@, cache[name])]
    /\ UNCHANGED <<holders, closed, cache, principal, cleanups, made, journal, undoing>>

\* For anything else its provider, or the resolver, is called.  One that is being
\* resolved already closes a circle: that can only raise.
Asks(u) ==
    /\ ~Awaits(u)
    /\ LET name == Wanted(frames[u])
       IN /\ ~(name = Principal /\ principal) /\ name \notin DOMAIN cache
          /\ \A k \in DOMAIN frames[u] : frames[u][k].name # name
          /\ frames' = [frames EXCEPT ![u] = Append(@, Frame(name))]
    /\ UNCHANGED <<holders, closed, cache, principal, cleanups, made, journal, undoing>>

\* _call_factory: a provider comes up; a generator's cleanup is owed from now on.
ProviderReturns(u) ==
    LET top == Top(frames[u])
        id == Len(made) + 1
        owed == IF top.name \in Generators THEN <<id>> ELSE <<>>
    IN /\ frames[u] # <<>> /\ Full(top) /\ top.name \in Names
       /\ made' = Append(made, [name |-> top.name, by |-> u,
                                from |-> ToSet(top.got) \ {Known},
                                phase |-> IF owed # <<>> THEN "open" ELSE "plain"])
       /\ cleanups' = cleanups \o owed
       /\ cache' = [n \in DOMAIN cache \cup {top.name} |->
                       IF n = top.name THEN id ELSE cache[n]]
       /\ journal' = IF Journaling(u)
                     THEN [journal EXCEPT ![u] = [names |-> @.names \cup {top.name},
                                                  teardowns |-> @.teardowns \o owed]]
                     ELSE journal
       /\ frames' = [frames EXCEPT ![u] = Hand(Front(@), id)]
       /\ UNCHANGED <<holders, closed, principal, undoing>>

\* Mutant: the journal goes on when its block is left.
ResolverReturnsJournaling(u) ==
    LET below == Front(frames[u])
    IN /\ frames[u] # <<>> /\ Full(Top(frames[u])) /\ Top(frames[u]).name = Principal
       /\ principal' = TRUE
       /\ frames' = [frames EXCEPT ![u] =
                        IF below = <<>> THEN <<>> ELSE Hand(below, Known)]
       /\ UNCHANGED <<holders, closed, cache, cleanups, made, journal, undoing>>

\* Auth.resolve: the resolver is done, and what it needed stays.
ResolverReturns(u) ==
    LET below == Front(frames[u])
    IN /\ frames[u] # <<>> /\ Full(Top(frames[u])) /\ Top(frames[u]).name = Principal
       /\ principal' = TRUE
       /\ journal' = [journal EXCEPT ![u] = NoJournal]
       /\ frames' = [frames EXCEPT ![u] =
                        IF below = <<>> THEN <<>> ELSE Hand(below, Known)]
       /\ UNCHANGED <<holders, closed, cache, cleanups, made, undoing>>

\* The function itself is running, with all it asked for.
Runs(u, fn) == Len(frames[u]) = 1 /\ Top(frames[u]).name = fn /\ Full(Top(frames[u]))

FunctionReturns(u, fn) ==
    /\ fn \in Functions /\ Runs(u, fn)
    /\ frames' = [frames EXCEPT ![u] = <<>>]
    /\ UNCHANGED <<holders, closed, cache, principal, cleanups, made, journal, undoing>>

\* Mutant: a failed resolution of the principal leaves what it cached.
RaisesUncleared(u) ==
    /\ frames[u] # <<>>
    /\ undoing' = [undoing EXCEPT ![u] = Reverse(journal[u].teardowns)]
    /\ journal' = [journal EXCEPT ![u] = NoJournal]
    /\ frames' = [frames EXCEPT ![u] = <<>>]
    /\ UNCHANGED <<holders, closed, cache, principal, cleanups, made>>

\* A function, a provider or the resolver raises.  The exception leaves every
\* frame; all_or_nothing, if it is passed, starts to undo what was resolved.
Raises(u) ==
    /\ frames[u] # <<>>
    /\ cache' = [n \in DOMAIN cache \ journal[u].names |-> cache[n]]
    /\ undoing' = [undoing EXCEPT ![u] = Reverse(journal[u].teardowns)]
    /\ journal' = [journal EXCEPT ![u] = NoJournal]
    /\ frames' = [frames EXCEPT ![u] = <<>>]
    /\ UNCHANGED <<holders, closed, principal, cleanups, made>>

\* Mutant: what is aborted stays among the cleanups.
AbortsStillOwed(u) ==
    /\ undoing[u] # <<>>
    /\ made' = [made EXCEPT ![Head(undoing[u])].phase = "aborted"]
    /\ undoing' = [undoing EXCEPT ![u] = Tail(@)]
    /\ UNCHANGED <<holders, closed, cache, principal, cleanups, frames, journal>>

\* undo: the next provider is aborted, unless its cleanup is no longer owed.
AbortsNext(u) ==
    /\ LET id == Head(undoing[u])
       IN IF id \in ToSet(cleanups)
          THEN /\ \E i \in DOMAIN cleanups :
                     cleanups[i] = id /\ cleanups' = RemoveAt(cleanups, i)
               /\ made' = [made EXCEPT ![id].phase = "aborted"]
          ELSE UNCHANGED <<cleanups, made>>
    /\ UNCHANGED <<holders, closed, cache, principal, frames, journal>>

Aborts(u) ==
    /\ undoing[u] # <<>>
    /\ AbortsNext(u)
    /\ undoing' = [undoing EXCEPT ![u] = Tail(@)]

\* A cancellation strikes while it is being aborted: the rest stays as it is, owed.
AbortCancelled(u) ==
    /\ undoing[u] # <<>> /\ Head(undoing[u]) \in ToSet(cleanups)
    /\ AbortsNext(u)
    /\ undoing' = [undoing EXCEPT ![u] = <<>>]

\* release: the last one to let go closes the scope; with nothing to clean up that
\* is all.
Release(u) ==
    /\ u \in holders /\ frames[u] = <<>> /\ undoing[u] = <<>>
    /\ holders' = holders \ {u}
    /\ closed' = (holders' = {})
    /\ IF closed' /\ cleanups = <<>>
       THEN cache' = <<>> /\ principal' = FALSE
       ELSE UNCHANGED <<cache, principal>>
    /\ UNCHANGED <<cleanups, made, frames, journal, undoing>>

\* aclose: the newest cleanup runs; that it fails keeps none of the others from
\* running.  After the last one nothing is left cached.
Finishes ==
    /\ closed /\ cleanups # <<>>
    /\ made' = [made EXCEPT ![Last(cleanups)].phase = "finished"]
    /\ cleanups' = Front(cleanups)
    /\ IF cleanups' = <<>> THEN cache' = <<>> /\ principal' = FALSE
       ELSE UNCHANGED <<cache, principal>>
    /\ UNCHANGED <<holders, closed, frames, journal, undoing>>

(***************************************************************************)
(* What the scope promises.                                                *)
(***************************************************************************)

\* The shape of the state: what is cached and owed was made, out of what was made
\* before it, and a journal is kept only while a principal is being resolved.
ScopeTypeOK ==
    /\ holders \subseteq Users
    /\ closed \in BOOLEAN /\ principal \in BOOLEAN
    /\ DOMAIN cache \subseteq Names
    /\ \A n \in DOMAIN cache : cache[n] \in DOMAIN made
    /\ ToSet(cleanups) \subseteq DOMAIN made
    /\ \A i \in DOMAIN made : /\ made[i].name \in Names /\ made[i].by \in Users
                              /\ made[i].from \subseteq 1 .. i - 1
                              /\ made[i].phase \in {"open", "plain", "finished", "aborted"}
    /\ \A u \in Users : Journaling(u) \/ journal[u] = NoJournal

\* Every generator provider that is up is owed its cleanup, once ...
OwedOnce ==
    /\ IsInjective(cleanups)
    /\ ToSet(cleanups) = {i \in DOMAIN made : made[i].phase = "open"}

\* ... and what was built on it is finished before it.
DependentsFinishFirst ==
    \A i, j \in DOMAIN made :
        (i \in made[j].from /\ made[i].phase = "finished") => made[j].phase # "open"

\* No cleanup is lost, none runs twice, and none runs under something that was built
\* on it, however resolutions overlap, fail and are undone.
CleanupsInOrder == OwedOnce /\ DependentsFinishFirst

\* Nobody works with a scope that is closed, and so no cleanup runs under a
\* function, and none is registered where nothing will run it.
HeldWhileUsed ==
    \A u \in Users : frames[u] # <<>> \/ undoing[u] # <<>> => u \in holders /\ ~closed

\* All that u has in its hands: got for a provider or a function, running or not.
InHand(u) == UNION {ToSet(frames[u][k].got) \ {Known} : k \in DOMAIN frames[u]}

\* Nobody is handed a provider that was finished, or that its own failed resolution
\* aborted, and the cache offers none, nor one built on it.  (A provider that another
\* one uses may be aborted by an overlapping invocation: injection.py:180.)
HandedIsLive ==
    /\ \A u \in Users : \A i \in InHand(u) :
          /\ made[i].phase # "finished"
          /\ made[i].phase = "aborted" => made[i].by # u
    /\ ~closed => \A n \in DOMAIN cache :
          /\ made[cache[n]].phase \in {"open", "plain"}
          /\ \A i \in made[cache[n]].from :
                made[i].phase = "aborted" => made[i].by # made[cache[n]].by
=============================================================================
