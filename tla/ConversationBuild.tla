-------------------------- MODULE ConversationBuild --------------------------
(***************************************************************************)
(* Building a conversation of vitrine (conversations.py: Conversation and  *)
(* its declarations): the declared steps, in order, become the entries,    *)
(* the steps of every state and the fallbacks that ConversationDispatcher  *)
(* matches an update against.                                              *)
(*                                                                         *)
(* A step is [fn, states, on, fallback]: states is the sequence it was     *)
(* declared for, empty for an entry or a fallback; on is what it takes.    *)
(***************************************************************************)
EXTENDS Lists, FiniteSets

CONSTANT AnyState     \* ANY_STATE, "*"

IsEntry(step) == step.states = <<>> /\ ~step.fallback

\* entry: one that takes nothing (no command, callback or filters) is refused;
\* a state takes text messages by default, a cancel its command.
Declarable(step) == step.on # {}

\* Every state the steps name.
StateNames(steps) == UNION {ToSet(step.states) : step \in ToSet(steps)} \ {AnyState}

\* The step as often as it names the state.
Copies(step, name) ==
    [n \in 1 .. Cardinality({i \in DOMAIN step.states : step.states[i] = name}) |-> step]

\* Mutant: a step on every state is only put on the states declared up to it.
StepsOfSoFar(steps, name) ==
    LET of(i) == IF AnyState \in ToSet(steps[i].states)
                 THEN IF name \in StateNames(SubSeq(steps, 1, i)) THEN <<steps[i]>> ELSE <<>>
                 ELSE Copies(steps[i], name)
    IN FlattenSeq([i \in 1 .. Len(steps) |-> of(i)])

\* The steps mounted on a state, in order; one that names it twice is mounted twice.
StepsOf(steps, name) ==
    LET of(step) == IF AnyState \in ToSet(step.states) THEN <<step>> ELSE Copies(step, name)
    IN FlattenSeq([i \in 1 .. Len(steps) |-> of(steps[i])])

Entries(steps) == Those(steps, {i \in DOMAIN steps : IsEntry(steps[i])})
Fallbacks(steps) == Those(steps, {i \in DOMAIN steps : steps[i].fallback})

\* build: refused without an entry, and with a step on every state of none.
Build(steps) ==
    [ok |-> /\ \A step \in ToSet(steps) : Declarable(step)
            /\ Entries(steps) # <<>>
            /\ (\E step \in ToSet(steps) : AnyState \in ToSet(step.states))
               => StateNames(steps) # {},
     entries |-> Entries(steps),
     states |-> [name \in StateNames(steps) |-> StepsOf(steps, name)],
     fallbacks |-> Fallbacks(steps)]

\* What an update is tried on: the steps of the caller's run (no flow has the
\* number 0) and its cancel commands, then the entries of every conversation.
Candidates(flows, run) ==
    (IF run.flow \notin DOMAIN flows THEN <<>>
     ELSE flows[run.flow].states[run.state] \o flows[run.flow].fallbacks)
    \o FlattenSeq([f \in 1 .. Len(flows) |-> flows[f].entries])

\* check_update: the first that takes it, if any.
CheckUpdate(flows, run, update) ==
    LET tried == Candidates(flows, run)
        takers == {i \in DOMAIN tried : update \in tried[i].on}
    IN IF takers = {} THEN {} ELSE {tried[Min(takers)]}
=============================================================================
