--------------------------- MODULE BuildProperties ---------------------------
(***************************************************************************)
(* What a built bot promises of its routers and providers: whose           *)
(* middlewares run around a handler, and that what the build accepts can   *)
(* be injected.                                                            *)
(***************************************************************************)
EXTENDS Inputs, RouterTree, Injectables, FiniteSets

(***************************************************************************)
(* Middlewares.                                                            *)
(***************************************************************************)

\* The ways down from a router, each to a router it includes.
Paths(tree, router) ==
    LET routers == DOMAIN tree.children
        lists == UNION {[1 .. n -> routers] : n \in 1 .. Cardinality(routers)}
    IN {path \in lists : /\ path[1] = router
                         /\ \A i \in 1 .. Len(path) - 1 :
                               path[i + 1] \in ToSet(tree.children[path[i]])}

Under(tree, router) == {Last(path) : path \in Paths(tree, router)}

\* No router is included twice: what is under one child of a router is not under
\* another, nor is the router itself.
IsTree(tree) ==
    \A r \in DOMAIN tree.children :
        LET under(i) == Under(tree, tree.children[r][i])
        IN \A i \in DOMAIN tree.children[r] :
               /\ r \notin under(i)
               /\ \A j \in DOMAIN tree.children[r] \ {i} : under(i) \cap under(j) = {}

\* Around every handler run the bot's middlewares, then those of the routers on the
\* way from the root down to its own; in a tree, no handler is registered twice.
ChainFollowsThePath(botMws, tree, root) ==
    LET walked == WalkFrom(tree, root)
        along(path) == FlattenSeq([i \in DOMAIN path |-> tree.mws[path[i]]])
        expected == UNION {{<<reg.id, botMws \o along(path) \o <<"handler">>>> :
                              reg \in ToSet(tree.regs[Last(path)])} :
                            path \in Paths(tree, root)}
    IN /\ {<<walked[i].reg.id, Chain(botMws, walked[i])>> : i \in DOMAIN walked} = expected
       /\ IsTree(tree) => \A i, j \in DOMAIN walked :
                             walked[i].reg.id = walked[j].reg.id => i = j

(***************************************************************************)
(* Injection.                                                              *)
(***************************************************************************)

\* A parameter can be had once the functions in known can be called.
Had(p, ctx, known) ==
    LET source == Source(p.name, ctx)
    IN IF p.kind = "depends" THEN p.of \in known
       ELSE /\ source = "principal" => ctx.resolver \in known
            /\ source = "factory" => ctx.factories[p.name] \in known
            /\ source = "none" => p.kind = "plain"

\* The functions whose parameters can all be had, found bottom up.
Grounded(ctx) ==
    LET size == Cardinality(DOMAIN ctx.params)
        rounds[n \in 0 .. size] ==
            IF n = 0 THEN {}
            ELSE {fn \in DOMAIN ctx.params :
                    \A p \in ToSet(ctx.params[fn]) : Had(p, ctx, rounds[n - 1])}
    IN rounds[size]

\* A handler gets its parameters exactly if they can be had.  One case escapes:
\* under a Depends parameter, its name counts as being resolved already.
ResolvesWhatCanBeHad(fn, ctx) ==
    LET depends == {p \in UNION {ToSet(ctx.params[f]) : f \in DOMAIN ctx.params} :
                      p.kind = "depends"}
    IN /\ ResolveKwargs(fn, ctx) = "ok" => fn \in Grounded(ctx)
       /\ depends = {} => (ResolveKwargs(fn, ctx) = "ok" <=> fn \in Grounded(ctx))

\* A circle is reported as one, and never runs into the recursion limit, unless the
\* resolver of the principal is caught in it.
CirclesAreNamed(fn, ctx) ==
    ResolveKwargs(fn, ctx) = "recursion" => ctx.resolver \notin Grounded(ctx)

\* What the build accepts fails for a missing parameter only inside a provider, or
\* the resolver: the handler's own parameters all have a source.
AcceptedHandlerHasItsSources(fn, ctx) ==
    LET own == [ctx EXCEPT !.params = [f \in DOMAIN @ |-> IF f = fn THEN @[f] ELSE <<>>]]
    IN (Validate(fn, ctx, FALSE) /\ ctx.known \subseteq ctx.extras)
       => ResolveKwargs(fn, own) = "ok"

\* strict_types refuses a handler only for a value it would really be given that
\* is not of the class it is annotated with; middleware extras aside.
LintIsNoFalseAlarm(fn, ctx) ==
    LET source(p) == Source(p.name, ctx)
        given(p) ==
            IF p.kind = "depends" THEN ctx.classes[p.of]
            ELSE IF source(p) = "factory" THEN ctx.classes[ctx.factories[p.name]]
            ELSE IF source(p) = "value" THEN ctx.classes[p.name] ELSE Unknown
    IN (Validate(fn, ctx, FALSE) /\ ~Validate(fn, ctx, TRUE) /\ ctx.extras = ctx.known)
       => \E p \in ToSet(ctx.params[fn]) :
            Unknown \notin {p.class, given(p)} /\ <<given(p), p.class>> \notin Subclasses

\* Middlewares run in the order of the tree, the bot's own outermost.
MiddlewaresFollowTheTree ==
    input.kind = "tree" => ChainFollowsThePath(input.botMws, input.tree, input.root)

\* A parameter is resolved exactly when the providers can supply it, and a circle
\* among them is reported.
ResolutionIsSound ==
    input.kind = "handler" => /\ ResolvesWhatCanBeHad("handler", input.ctx)
                              /\ CirclesAreNamed("handler", input.ctx)

\* What the build checks is what injection does: a handler it accepts lacks none of its
\* own parameters at run time, and the lint of annotations looks where injection looks.
BuildAgreesWithInjection ==
    input.kind = "handler" => /\ AcceptedHandlerHasItsSources("handler", input.ctx)
                              /\ LintIsNoFalseAlarm("handler", input.ctx)
=============================================================================
