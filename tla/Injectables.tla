----------------------------- MODULE Injectables -----------------------------
(***************************************************************************)
(* How vitrine finds a value for a parameter (injection.py: resolve_name,  *)
(* resolve_kwargs, unresolvable_params, annotation_conflicts; dispatch.py: *)
(* validate): by its name, from the first source that has it.  A provider  *)
(* has parameters of its own, and so has the resolver of the principal.    *)
(*                                                                         *)
(* A parameter is [name, kind, of, class]: kind is "required", "plain" (it *)
(* has a default) or "depends" (on the function of); class is what it is   *)
(* annotated with, Unknown when that proves nothing.  The context holds    *)
(*   params     function -> its parameters                                 *)
(*   reserved, extras, values   the names with a value of that source      *)
(*   factories  name -> the function that provides it                      *)
(*   principal, resolver        the principal's name and its function      *)
(*   classes    value or function -> the class it provably provides        *)
(* The scope is fresh, and its cache is left out: a provider that two      *)
(* parameters need is resolved twice here, with the same outcome but for   *)
(* one case.  Below a Depends whose parameter has the name of a provider,  *)
(* a second resolution may be circular where the code, having the value of *)
(* the first, succeeds.                                                    *)
(***************************************************************************)
EXTENDS Integers, Sequences, SequencesExt

CONSTANTS
    Unknown,
    Subclasses,   \* {<<c, d>> : c is a subclass of d}, with int under float
    MaxDepth      \* Python's recursion limit, in calls of resolve_kwargs

ASSUME InjectablesAssumption ==
    /\ MaxDepth \in Nat \ {0}
    /\ \A pair \in Subclasses : Unknown \notin {pair[1], pair[2]}

\* Where the value of a name comes from, the default aside.
Source(name, ctx) ==
    IF name \in ctx.extras THEN "extras"
    ELSE IF name \in ctx.reserved THEN "reserved"
    ELSE IF name = ctx.principal THEN "principal"
    ELSE IF name \in ctx.values THEN "value"
    ELSE IF name \in DOMAIN ctx.factories THEN "factory" ELSE "none"

\* What comes of several resolutions in a row: the first that fails ends it.
First(outcomes) ==
    LET all == {<<i, outcomes[i]>> : i \in DOMAIN outcomes}
        failed == {one \in all : one[2] # "ok"}
    IN IF failed = {} THEN "ok"
       ELSE (CHOOSE one \in failed : \A other \in failed : one[1] <= other[1])[2]

\* Mutant: a name's own resolution is not put on the stack.
ResolveUnstacked(param, ctx, stack, call) ==
    LET source == Source(param.name, ctx)
    IN IF param.kind = "depends" THEN call[param.of][stack]
       ELSE IF source = "principal" THEN call[ctx.resolver][{}]
       ELSE IF source = "factory" THEN call[ctx.factories[param.name]][stack]
       ELSE IF source # "none" \/ param.kind = "plain" THEN "ok" ELSE "missing"

\* resolve_name and _call_factory, where call[fn][stack] is what comes of the
\* parameters of fn: a name met again under its own resolution is circular; the
\* resolver of the principal starts with an empty stack.
Resolve(param, ctx, stack, call) ==
    LET source == Source(param.name, ctx)
        deeper == stack \cup {param.name}
    IN IF param.kind = "depends" THEN call[param.of][deeper]
       ELSE IF param.name \in stack THEN "circular"
       ELSE IF source = "principal" THEN call[ctx.resolver][{}]
       ELSE IF source = "factory" THEN call[ctx.factories[param.name]][deeper]
       ELSE IF source # "none" \/ param.kind = "plain" THEN "ok" ELSE "missing"

\* The names that can be on the stack.
ParamNames(ctx) ==
    UNION {{p.name : p \in ToSet(ctx.params[fn])} : fn \in DOMAIN ctx.params}

\* resolve_kwargs: the parameters of a function in order.
Kwargs(ctx, call) ==
    [fn \in DOMAIN ctx.params |-> [stack \in SUBSET ParamNames(ctx) |->
        First([i \in DOMAIN ctx.params[fn] |->
                  Resolve(ctx.params[fn][i], ctx, stack, call)])]]

\* resolve_kwargs as it is called for a handler; every call of a factory leaves one
\* call less to those it makes.
ResolveKwargs(fn, ctx) ==
    LET calls[left \in 0 .. MaxDepth] ==
            IF left = 0
            THEN [f \in DOMAIN ctx.params |-> [stack \in SUBSET ParamNames(ctx) |-> "recursion"]]
            ELSE Kwargs(ctx, calls[left - 1])
    IN calls[MaxDepth][fn][{}]

\* Mutant: a parameter with a provider of any name will do.
SuppliesAny(param, ctx) == param.kind # "required" \/ DOMAIN ctx.factories # {}

\* unresolvable_params, for one parameter: is there any source for it.
Supplies(param, ctx) ==
    \/ param.kind \in {"depends", "plain"}
    \/ param.name \in ctx.reserved \cup ctx.known \cup ctx.values \cup DOMAIN ctx.factories
    \/ param.name = ctx.principal

\* annotation_conflicts: the class a parameter's source provably hands over.
Provided(param, ctx) ==
    LET source == Source(param.name, [ctx EXCEPT !.extras = ctx.known])
    IN IF param.kind = "depends" THEN ctx.classes[param.of]
       ELSE IF source = "value" THEN ctx.classes[param.name]
       ELSE IF source = "factory" THEN ctx.classes[ctx.factories[param.name]]
       ELSE Unknown

Conflicts(param, ctx) ==
    LET provided == Provided(param, ctx)
    IN /\ Unknown \notin {param.class, provided}
       /\ provided # param.class
       /\ <<provided, param.class>> \notin Subclasses

\* validate: what the build refuses; known holds the names of the command's
\* arguments and of the extras the run is given.
Validate(fn, ctx, strict) ==
    /\ \A param \in ToSet(ctx.params[fn]) : Supplies(param, ctx)
    /\ strict => \A param \in ToSet(ctx.params[fn]) : ~Conflicts(param, ctx)
=============================================================================
