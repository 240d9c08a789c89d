----------------------------- MODULE RouterTree -----------------------------
(***************************************************************************)
(* The routers of vitrine (routing.py), flattened for the build, and the   *)
(* middlewares around each handler (middleware.py, dispatch.py).           *)
(*                                                                         *)
(* A tree is [children, mws, regs]: for each router those it includes, its *)
(* middlewares and its registrations, in order.  A router may be included  *)
(* in several; one that includes itself cannot be walked.                  *)
(***************************************************************************)
EXTENDS Naturals, Sequences, SequencesExt

\* Mutant: a sub-router sees its own middlewares only.
WalkUnchained(router, tree, outer, walk) ==
    LET chain == tree.mws[router]
        children == tree.children[router]
    IN [i \in DOMAIN tree.regs[router] |-> [reg |-> tree.regs[router][i], mws |-> chain]]
       \o FlattenSeq([i \in DOMAIN children |-> walk[children[i]][<<>>]])

\* walk: a router's registrations, then its children's, each with the middlewares
\* from the root down to its router.
Walk(router, tree, outer, walk) ==
    LET chain == outer \o tree.mws[router]
        children == tree.children[router]
    IN [i \in DOMAIN tree.regs[router] |-> [reg |-> tree.regs[router][i], mws |-> chain]]
       \o FlattenSeq([i \in DOMAIN children |-> walk[children[i]][chain]])

\* The chains of middlewares that a router can be walked with.
Chains(tree) == Seq(UNION {ToSet(tree.mws[router]) : router \in DOMAIN tree.children})

\* What comes of walking each router, where walk is what comes of its children.
WalkEach(tree, walk) ==
    [router \in DOMAIN tree.children |-> [outer \in Chains(tree) |->
        Walk(router, tree, outer, walk)]]

\* The walk from the root.  No way down is longer than there are routers.
WalkFrom(tree, root) ==
    LET routers == DOMAIN tree.children
        walks[height \in 0 .. Cardinality(routers)] ==
            IF height = 0 THEN [router \in routers |-> [outer \in Chains(tree) |-> <<>>]]
            ELSE WalkEach(tree, walks[height - 1])
    IN walks[Cardinality(routers)][root][<<>>]

\* compose: the chain is wrapped from its end, so that the first listed runs
\* outermost; the sequence of what runs.
Compose(mws, core) ==
    LET wrapped[n \in 0 .. Len(mws)] ==
            IF n = 0 THEN core ELSE <<mws[Len(mws) - n + 1]>> \o wrapped[n - 1]
    IN wrapped[Len(mws)]

\* Dispatch.run: the bot's own middlewares are around those of the routers.
Chain(botMws, reg) == Compose(botMws \o reg.mws, <<"handler">>)
=============================================================================
